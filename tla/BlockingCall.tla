----------------------------- MODULE BlockingCall -----------------------------
(***************************************************************************)
(* The blocking OlpClient::CallApi: SendRequest in a retry loop.           *)
(*                                                                         *)
(* Three actors share a CancellationContext and the locals of SendRequest: *)
(* the calling thread, the network's thread, which runs the callback of    *)
(* each attempt, and a thread that cancels the context.  The callback and  *)
(* the cancel token hold references to the locals; interest_flag, which    *)
(* outlives them, decides which of the two may use them.                   *)
(***************************************************************************)
EXTENDS Naturals

CONSTANTS
    MaxAttempts,    \* retry_settings.max_attempts
    RetryTimeout,        \* retry_settings.timeout
    Periods,        \* what the backdown policy or strategy may return
    Retryable       \* the responses that retry_condition accepts

(* What the constants have to be, assumed where they get their values.     *)
CallAssumption ==
    /\ MaxAttempts \in Nat /\ RetryTimeout \in Nat /\ Periods \subseteq Nat /\ Periods # {}

Attempts == 1..(MaxAttempts + 1)
Status == {"success", "serverError", "otherError"}
Response == Status \cup {"cancelled", "timeout", "refused"}

VARIABLES
    pc,             \* the calling thread's next step
    attempt,        \* number of the current SendRequest
    response,       \* what the last SendRequest returned
    period,         \* backdown_period
    accumulated,    \* accumulated_wait_time
    alive,          \* attempts whose SendRequest has not returned
    flag,           \* interest_flag of each attempt
    answer,         \* network_response of each attempt
    signaled,       \* condition of each attempt
    network,        \* what the network does for each attempt
    cancelled,      \* the context's is_cancelled_
    token,          \* attempt whose token the context holds, or 0
    kpc,            \* the cancelling thread; it holds the context's mutex
    slept,          \* history: time spent in back-off
    touched,        \* history: attempts whose locals were used after their end
    lapsed          \* history: attempts that were refused or timed out

callVars == <<pc, attempt, response, period, accumulated, slept>>
localVars == <<alive, flag, answer, signaled>>
contextVars == <<cancelled, token, kpc>>
historyVars == <<touched, lapsed>>
vars == <<callVars, localVars, contextVars, network, historyVars>>

TypeOK ==
    /\ pc \in {"send", "wait", "timedOut", "woken", "check", "loop", "sleep", "done"}
    /\ attempt \in Attempts
    /\ response \in Response
    /\ period \in Periods /\ accumulated \in Nat /\ slept \in Nat
    /\ alive \subseteq Attempts /\ touched \subseteq Attempts /\ lapsed \subseteq Attempts
    /\ flag \in [Attempts -> BOOLEAN]
    /\ answer \in [Attempts -> Response]
    /\ signaled \in [Attempts -> BOOLEAN]
    /\ network \in [Attempts -> {"idle", "running", "done"} \cup Status]
    /\ cancelled \in BOOLEAN
    /\ token \in Attempts \cup {0}
    /\ kpc \in {"idle", "notify", "finish"}

Init ==
    /\ pc = "send" /\ attempt = 1 /\ response = "cancelled"
    /\ period \in Periods /\ accumulated = period /\ slept = 0
    /\ alive = {1} /\ touched = {} /\ lapsed = {}
    /\ flag = [k \in Attempts |-> TRUE]
    /\ answer = [k \in Attempts |-> "cancelled"]
    /\ signaled = [k \in Attempts |-> FALSE]
    /\ network = [k \in Attempts |-> "idle"]
    /\ cancelled = FALSE /\ token = 0 /\ kpc = "idle"

(* Nobody is inside CancelOperation, so the context's mutex is free. *)
Unlocked == kpc = "idle"

(* Using the locals of an attempt whose SendRequest has returned. *)
Touch(k) == touched' = IF k \in alive THEN touched ELSE touched \cup {k}

-----------------------------------------------------------------------------
(* SendRequest *)

SendRequestReturns(r) ==
    /\ response' = r
    /\ alive' = alive \ {attempt}
    /\ pc' = "loop"

(* ExecuteOrCancelled around Network::Send: the token is registered even   *)
(* when Send has failed.                                                   *)
MaySend_Unchecked == TRUE
MaySend == ~cancelled

Send ==
    /\ pc = "send" /\ Unlocked
    /\ \/ /\ ~MaySend
          /\ SendRequestReturns("cancelled")
          /\ UNCHANGED <<token, network, lapsed>>
       \/ /\ MaySend
          /\ token' = attempt
          /\ SendRequestReturns("refused")
          /\ lapsed' = lapsed \cup {attempt}
          /\ UNCHANGED network
       \/ /\ MaySend
          /\ token' = attempt
          /\ network' = [network EXCEPT ![attempt] = "running"]
          /\ pc' = "wait"
          /\ UNCHANGED <<response, alive, lapsed>>
    /\ UNCHANGED <<attempt, period, accumulated, slept, flag, answer, signaled, cancelled, kpc,
                   touched>>

WaitSignaled_Spurious ==
    /\ pc = "wait"
    /\ pc' = "woken"
    /\ UNCHANGED <<attempt, response, period, accumulated, slept, localVars, contextVars,
                   network, historyVars>>
WaitSignaled ==
    /\ pc = "wait" /\ signaled[attempt]
    /\ pc' = "woken"
    /\ UNCHANGED <<attempt, response, period, accumulated, slept, localVars, contextVars,
                   network, historyVars>>

WaitTimeout ==
    /\ pc = "wait" /\ ~signaled[attempt]
    /\ pc' = "timedOut"
    /\ UNCHANGED <<attempt, response, period, accumulated, slept, localVars, contextVars,
                   network, historyVars>>

(* The caller cancels its own context and returns the timeout. *)
CancelAfterTimeout ==
    /\ pc = "timedOut" /\ Unlocked
    /\ flag' = IF cancelled THEN flag ELSE [flag EXCEPT ![attempt] = FALSE]
    /\ cancelled' = TRUE /\ token' = 0
    /\ lapsed' = lapsed \cup {attempt}
    /\ SendRequestReturns("timeout")
    /\ UNCHANGED <<attempt, period, accumulated, slept, answer, signaled, kpc, network, touched>>

DropInterest ==
    /\ pc = "woken"
    /\ flag' = [flag EXCEPT ![attempt] = FALSE]
    /\ pc' = "check"
    /\ UNCHANGED <<attempt, response, period, accumulated, slept, alive, answer, signaled,
                   contextVars, network, historyVars>>

CheckCancelled ==
    /\ pc = "check" /\ Unlocked
    /\ SendRequestReturns(IF cancelled THEN "cancelled" ELSE answer[attempt])
    /\ UNCHANGED <<attempt, period, accumulated, slept, flag, answer, signaled, contextVars,
                   network, historyVars>>

-----------------------------------------------------------------------------
(* The retry loop of CallApi *)

MayRetry_OneMore ==
    /\ attempt <= MaxAttempts + 1 /\ ~cancelled /\ accumulated < RetryTimeout
    /\ response # "success" /\ response \in Retryable
MayRetry ==
    /\ attempt <= MaxAttempts /\ ~cancelled /\ accumulated < RetryTimeout
    /\ response # "success" /\ response \in Retryable

TimeToSleep_Uncapped == period
TimeToSleep == IF period <= RetryTimeout - accumulated THEN period ELSE RetryTimeout - accumulated

Loop ==
    /\ pc = "loop" /\ Unlocked
    /\ \/ /\ MayRetry
          /\ accumulated' = accumulated + TimeToSleep
          /\ slept' = slept + TimeToSleep
          /\ pc' = "sleep"
       \/ /\ ~MayRetry
          /\ pc' = "done"
          /\ UNCHANGED <<accumulated, slept>>
    /\ UNCHANGED <<attempt, response, period, localVars, contextVars, network, historyVars>>

(* The sleep ends, early when the context is cancelled, and the next       *)
(* SendRequest begins with new locals.                                     *)
Sleep ==
    /\ pc = "sleep" /\ Unlocked
    /\ period' \in Periods
    /\ attempt' = attempt + 1
    /\ alive' = alive \cup {attempt + 1}
    /\ pc' = "send"
    /\ UNCHANGED <<response, accumulated, slept, flag, answer, signaled, contextVars, network,
                   historyVars>>

-----------------------------------------------------------------------------
(* The network's callback for attempt k *)

CallbackExchange(k) ==
    /\ network[k] = "running"
    /\ \E s \in Status :
          network' = [network EXCEPT ![k] = IF flag[k] THEN s ELSE "done"]
    /\ flag' = [flag EXCEPT ![k] = FALSE]
    /\ UNCHANGED <<callVars, alive, answer, signaled, contextVars, historyVars>>

CallbackNotify(k) ==
    /\ network[k] \in Status
    /\ answer' = [answer EXCEPT ![k] = network[k]]
    /\ signaled' = [signaled EXCEPT ![k] = TRUE]
    /\ network' = [network EXCEPT ![k] = "done"]
    /\ Touch(k)
    /\ UNCHANGED <<callVars, alive, flag, contextVars, lapsed>>

-----------------------------------------------------------------------------
(* Another thread's CancelOperation.  It keeps the mutex until the token   *)
(* has run.                                                                *)

TokenInterested_Always == token # 0
TokenInterested == token # 0 /\ flag[token]

CancelBegin ==
    /\ kpc = "idle" /\ ~cancelled
    /\ \/ /\ TokenInterested
          /\ flag' = [flag EXCEPT ![token] = FALSE]
          /\ kpc' = "notify"
       \/ /\ ~TokenInterested
          /\ kpc' = "finish"
          /\ UNCHANGED flag
    /\ UNCHANGED <<callVars, alive, answer, signaled, cancelled, token, network, historyVars>>

(* The token cancels the request at the network, which will still call     *)
(* back, and releases the waiting caller.                                  *)
CancelNotify_Forgotten ==
    /\ kpc = "notify"
    /\ answer' = [answer EXCEPT ![token] = "cancelled"]
    /\ Touch(token)
    /\ kpc' = "finish"
    /\ UNCHANGED <<callVars, alive, flag, signaled, cancelled, token, network, lapsed>>
CancelNotify ==
    /\ kpc = "notify"
    /\ answer' = [answer EXCEPT ![token] = "cancelled"]
    /\ signaled' = [signaled EXCEPT ![token] = TRUE]
    /\ Touch(token)
    /\ kpc' = "finish"
    /\ UNCHANGED <<callVars, alive, flag, cancelled, token, network, lapsed>>

CancelFinish ==
    /\ kpc = "finish"
    /\ token' = 0 /\ cancelled' = TRUE /\ kpc' = "idle"
    /\ UNCHANGED <<callVars, localVars, network, historyVars>>

-----------------------------------------------------------------------------

CallerStep ==
    \/ Send \/ WaitSignaled \/ CancelAfterTimeout \/ DropInterest \/ CheckCancelled
    \/ Loop \/ Sleep

CancelStep == CancelNotify \/ CancelFinish

Next ==
    \/ CallerStep \/ WaitTimeout
    \/ \E k \in Attempts : CallbackExchange(k) \/ CallbackNotify(k)
    \/ CancelBegin \/ CancelStep

(* Threads that are not blocked run.  The network need not answer. *)
Spec == Init /\ [][Next]_vars
FairSpec ==
    /\ Spec
    /\ WF_vars(CallerStep) /\ WF_vars(CancelStep)
    /\ \A k \in Attempts : WF_vars(CallbackNotify(k))

-----------------------------------------------------------------------------
(* Properties *)

(* Neither the callback nor the cancel token uses the locals of a          *)
(* SendRequest that has returned, in whatever order answer, cancel and     *)
(* retry come: "Cancels the ongoing operation in a thread-safe way"        *)
(* (CancellationContext.h:74).  Exempt are a refused attempt, whose token  *)
(* stays registered (OlpClient.cpp:156), and one whose answer came while   *)
(* its wait timed out (OlpClient.cpp:164).                                 *)
OnlyLiveLocals == touched \subseteq lapsed

(* The call makes at most max_attempts retries, and "we don't wait longer  *)
(* than `timeout`" (OlpClient.cpp:433), whatever the backdown strategy     *)
(* returns; it ends with success, an error that is not to be retried, the  *)
(* cancellation or an exhausted budget.                                    *)
RetryBudget ==
    /\ slept <= RetryTimeout
    /\ pc = "done" =>
          \/ response \notin Retryable \ {"success"}
          \/ cancelled
          \/ attempt = MaxAttempts + 1
          \/ accumulated >= RetryTimeout

(* A cancelled call never reaches the network again. *)
NoSendAfterCancel ==
    [][cancelled => \A k \in Attempts : network[k] = "idle" => network'[k] = "idle"]_vars

(* What the call returns is true: a server's answer was delivered by the  *)
(* callback of the last attempt, and the caller is told that the operation *)
(* was cancelled only if it was.                                           *)
LastAnswerReturned ==
    pc = "done" =>
        /\ response \in Status => network[attempt] = "done" /\ answer[attempt] = response
        /\ response = "cancelled" => cancelled

(* Whatever races it, a call uses live locals only and returns the truth.  *)
BlockingCallExact == OnlyLiveLocals /\ LastAnswerReturned

(* A cancel ends the call although the network never answers and nothing   *)
(* times out, wherever in the loop it comes.                               *)
Unblocked == cancelled => pc = "done"
CancelUnblocks == []<>Unblocked
=============================================================================
