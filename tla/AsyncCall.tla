------------------------------ MODULE AsyncCall ------------------------------
(***************************************************************************)
(* The asynchronous OlpClient::CallApi: a chain of retry callbacks.        *)
(*                                                                         *)
(* The first attempt runs on the caller's thread, every further one on the *)
(* thread that answers: the network's, or the thread inside Send when Send *)
(* fails, in which case the retry runs inside the failed attempt's         *)
(* ExecuteOrCancelled and under its (recursive) mutex.  The chain knows    *)
(* the CancellationContext by a weak reference only; the token that        *)
(* CallApi returns owns it.                                                *)
(***************************************************************************)
EXTENDS Naturals

CONSTANTS
    MaxAttempts,    \* retry_settings.max_attempts
    RetryTimeout,        \* retry_settings.timeout
    Periods,        \* what the backdown policy or strategy may return
    Retryable       \* the responses that retry_condition accepts

(* Counts and durations of RetrySettings are not negative.                 *)
AsyncAssumption == MaxAttempts \in Nat /\ RetryTimeout \in Nat /\ Periods \subseteq Nat

Status == {"success", "serverError", "otherError"}
Response == Status \cup {"cancelled", "refused", "none"}

VARIABLES
    pc,             \* where the chain is
    by,             \* the thread that runs it
    frames,         \* attempts whose Send failed, still inside ExecuteOrCancelled
    attempt,        \* number of the current attempt
    response,       \* what it was answered
    period,         \* current_backdown_period
    accumulated,    \* accumulated_wait_time
    stopping,       \* the network was asked to cancel the current attempt
    caller,         \* "calling" until CallApi returns
    held,           \* the application holds the returned token
    cancelled,      \* the context's is_cancelled_
    token,          \* attempt whose token the context holds, or 0
    delivered,      \* the responses given to the application's callback
    nested,         \* history: the current attempt was sent inside a failed one
    dropped         \* history: the token went while the call was running

chainVars == <<pc, by, frames, attempt, response, period, accumulated>>
ownerVars == <<caller, held>>
historyVars == <<nested, dropped>>
vars == <<chainVars, ownerVars, stopping, cancelled, token, delivered, historyVars>>

TypeOK ==
    /\ pc \in {"send", "flying", "evaluate", "sleep", "done"}
    /\ by \in {"caller", "network"}
    /\ frames \in 0..(MaxAttempts + 1)
    /\ attempt \in 1..(MaxAttempts + 1)
    /\ response \in Response
    /\ period \in Periods /\ accumulated \in Nat
    /\ stopping \in BOOLEAN
    /\ caller \in {"calling", "returned"} /\ held \in BOOLEAN
    /\ cancelled \in BOOLEAN
    /\ token \in 0..(MaxAttempts + 1)
    /\ delivered \subseteq Response
    /\ nested \in BOOLEAN /\ dropped \in BOOLEAN

Init ==
    /\ pc = "send" /\ by = "caller" /\ frames = 0
    /\ attempt = 1 /\ response = "none"
    /\ period \in Periods /\ accumulated = 0
    /\ stopping = FALSE
    /\ caller = "calling" /\ held = FALSE
    /\ cancelled = FALSE /\ token = 0
    /\ delivered = {}
    /\ nested = FALSE /\ dropped = FALSE

(* The threads inside ExecuteOrCancelled hold the context's mutex. *)
Unlocked == frames = 0

(* What keeps the context alive: CallApi, the token, a locked weak_ptr. *)
ContextAlive_CallOnly == caller = "calling" \/ frames > 0
ContextAlive == caller = "calling" \/ held \/ frames > 0

(* The application's callback; afterwards each failed attempt stores its   *)
(* empty token in the context.                                             *)
Deliver(r) ==
    /\ delivered' = delivered \cup {r}
    /\ pc' = "done"
    /\ token' = IF frames > 0 THEN 0 ELSE token
    /\ frames' = 0

-----------------------------------------------------------------------------
(* ExecuteSingleRequest, within ExecuteOrCancelled *)

MaySend_Unchecked == ContextAlive
MaySend == ContextAlive /\ ~cancelled

SendAccepted ==
    /\ pc = "send" /\ MaySend
    /\ pc' = "flying" /\ by' = "network"
    /\ stopping' = FALSE
    /\ token' = IF frames = 0 THEN attempt ELSE 0
    /\ frames' = 0
    /\ nested' = (frames > 0)
    /\ UNCHANGED <<attempt, response, period, accumulated, ownerVars, cancelled, delivered,
                   dropped>>

SendRefused_Silent ==
    /\ pc = "send" /\ MaySend
    /\ response' = "refused"
    /\ pc' = "flying"
    /\ by' = "caller"
    /\ UNCHANGED <<frames, attempt, period, accumulated, ownerVars, stopping, cancelled, token,
                   delivered, historyVars>>
SendRefused ==
    /\ pc = "send" /\ MaySend
    /\ response' = "refused"
    /\ pc' = "evaluate"
    /\ frames' = frames + 1
    /\ UNCHANGED <<by, attempt, period, accumulated, ownerVars, stopping, cancelled, token,
                   delivered, historyVars>>

SendCancelled ==
    /\ pc = "send" /\ ~MaySend
    /\ Deliver("cancelled")
    /\ UNCHANGED <<by, attempt, response, period, accumulated, ownerVars, stopping, cancelled,
                   historyVars>>

(* The network answers an accepted request; the answer may win over a      *)
(* cancel.                                                                 *)
Answer ==
    /\ pc = "flying" /\ by = "network"
    /\ response' \in Status \cup (IF stopping THEN {"cancelled"} ELSE {})
    /\ pc' = "evaluate"
    /\ UNCHANGED <<by, frames, attempt, period, accumulated, ownerVars, stopping, cancelled,
                   token, delivered, historyVars>>

-----------------------------------------------------------------------------
(* GetRetryCallback *)

Exhausted_OneMore ==
    attempt > MaxAttempts + 1 \/ response \notin Retryable \/ accumulated >= RetryTimeout
Exhausted == attempt > MaxAttempts \/ response \notin Retryable \/ accumulated >= RetryTimeout

ActualWait_Uncapped == period
ActualWait == IF period <= RetryTimeout - accumulated THEN period ELSE RetryTimeout - accumulated

Finish ==
    /\ pc = "evaluate" /\ Exhausted
    /\ Deliver(response)
    /\ UNCHANGED <<by, attempt, response, period, accumulated, ownerVars, stopping, cancelled,
                   historyVars>>

Retry ==
    /\ pc = "evaluate" /\ ~Exhausted
    /\ accumulated' = accumulated + ActualWait
    /\ pc' = "sleep"
    /\ UNCHANGED <<by, frames, attempt, response, period, ownerVars, stopping, cancelled, token,
                   delivered, historyVars>>

WakeUp ==
    /\ pc = "sleep"
    /\ period' \in Periods
    /\ attempt' = attempt + 1
    /\ pc' = "send"
    /\ UNCHANGED <<by, frames, response, accumulated, ownerVars, stopping, cancelled, token,
                   delivered, historyVars>>

-----------------------------------------------------------------------------
(* The application *)

Return ==
    /\ caller = "calling" /\ (by = "network" \/ pc = "done")
    /\ caller' = "returned" /\ held' = TRUE
    /\ UNCHANGED <<chainVars, stopping, cancelled, token, delivered, historyVars>>

(* CancelOperation: the token of the current request reaches the network. *)
TokenCancels_Stale == token = attempt - 1
TokenCancels == token = attempt

Cancel ==
    /\ held /\ Unlocked /\ ~cancelled
    /\ cancelled' = TRUE
    /\ stopping' = (stopping \/ (pc = "flying" /\ TokenCancels))
    /\ token' = 0
    /\ UNCHANGED <<chainVars, ownerVars, delivered, historyVars>>

DropToken ==
    /\ held /\ held' = FALSE
    /\ dropped' = (pc # "done")
    /\ UNCHANGED <<chainVars, caller, stopping, cancelled, token, delivered, nested>>

-----------------------------------------------------------------------------

ChainStep ==
    \/ SendAccepted \/ SendRefused \/ SendCancelled
    \/ Answer \/ Finish \/ Retry \/ WakeUp

Next == ChainStep \/ Return \/ Cancel \/ DropToken

(* The threads run, and the network answers what it has accepted. *)
Spec == Init /\ [][Next]_vars
FairSpec == Spec /\ WF_vars(ChainStep) /\ WF_vars(Return)

-----------------------------------------------------------------------------
(* Properties *)

(* However attempts fail, nested in each other or on the network's thread, *)
(* the back-off never sums up to more than the timeout, the application's  *)
(* callback sees one response, and it ends the chain.                      *)
RetryBudget ==
    /\ accumulated <= RetryTimeout
    /\ \A r, s \in delivered : r = s
    /\ delivered # {} <=> pc = "done"

(* A cancelled call never reaches the network again: a cancel during the   *)
(* back-off is seen by ExecuteOrCancelled, or by the expired weak_ptr when *)
(* the token is gone as well.                                              *)
NoSendAfterCancel == [][cancelled => ~(pc # "flying" /\ pc' = "flying")]_vars

(* A cancel reaches the request that is on the way: execute_fn "should     *)
(* return `CancellationToken` for which `CancellationContext` propagates   *)
(* a cancel request" (CancellationContext.h:60).  Exempt is a retry sent   *)
(* from inside a refused attempt, whose empty token replaces the retry's   *)
(* (OlpClient.cpp:94).                                                     *)
CancelPropagates == (cancelled /\ pc = "flying" /\ ~nested) => stopping

(* "Operation Cancelled" is reported only for calls that were cancelled,   *)
(* or whose token is gone: the context's "last (and only) strong reference *)
(* lives in cancellation token, which is reset on CancelOperation"         *)
(* (OlpClient.cpp:301).                                                    *)
CancelledMeansCancelled == "cancelled" \in delivered => cancelled \/ dropped

(* Both: a cancel reaches what is on its way, and only cancels are told.   *)
AsyncCancelExact == CancelPropagates /\ CancelledMeansCancelled

(* Every call ends with the application's callback (CallApi). *)
Answered == delivered # {}
=============================================================================
