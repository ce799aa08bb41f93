-------------------------- MODULE AutoRefreshingToken --------------------------
(***************************************************************************)
(* authentication::AutoRefreshingToken: a token shared by all threads that *)
(* GetToken renews when it is due.                                         *)
(*                                                                         *)
(* The decision to refresh and the read of current_token_ take no lock.    *)
(* The blocking GetToken holds token_mutex_ until it has stored the answer *)
(* to its request; the asynchronous one only while it sends, and its       *)
(* callback stores without the lock, on the network's thread.  Either      *)
(* stores the token first and computes the refresh time from what is in    *)
(* current_token_ by then.  A request is answered by the server, from      *)
(* AuthenticationClient's cache of earlier answers when there is no        *)
(* network, or with an error.                                              *)
(***************************************************************************)
EXTENDS Integers, FiniteSetsExt

CONSTANTS
    Callers,        \* the callers of GetToken, each with one call at a time
    Lifetimes,      \* the expires_in that the server may grant
    Validities,     \* the minimum_validity that callers ask for
    MaxCalls,       \* bound on the calls of all callers
    MaxTime,        \* bound on the clock
    Nobody          \* token_mutex_ is free

TokenAssumption ==
    /\ Lifetimes \subseteq Nat \ {0} /\ Validities \subseteq Nat /\ Validities # {}
    /\ MaxCalls \in Nat /\ MaxTime \in Nat /\ Nobody \notin Callers

VARIABLES
    time,            \* steady_clock
    token,          \* current_token_
    cached,         \* the entry of these credentials in client_token_cache_
    refreshTime,    \* token_refresh_time_
    mutex,          \* holder of token_mutex_
    pc,             \* where each call is
    validity,       \* minimum_validity of each call
    response,       \* what the request of each call was answered with
    calls,          \* calls made so far
    asked,          \* history: when each call was made
    got,            \* history: what each call returned or was called back with
    demands,        \* history: every minimum_validity so far
    lag             \* history: how old a token was when its refresh time was
                    \* computed, or is, while it is not

callVars == <<pc, validity, response, calls, asked, got, demands>>
vars == <<time, token, cached, refreshTime, mutex, callVars, lag>>

(* A response: whether it holds a token, its expires_in, and when the      *)
(* server issued it.                                                       *)
Tokens == [ok : BOOLEAN, expires_in : Lifetimes \cup {0}, issued : 0..MaxTime]

TypeOK ==
    /\ {time, lag} \subseteq 0..MaxTime
    /\ {token, cached} \subseteq Tokens /\ refreshTime \in Int
    /\ mutex \in Callers \cup {Nobody}
    /\ pc \in [Callers -> {"idle", "lock", "wait", "store", "refresh", "read",
                           "lockAsync", "sent", "callback"}]
    /\ \A c \in Callers : pc[c] \in {"wait", "store", "refresh"} <=> mutex = c
    /\ validity \in [Callers -> Validities] /\ demands \subseteq Validities
    /\ response \in [Callers -> Tokens] /\ got \in [Callers -> Tokens]
    /\ calls \in 0..MaxCalls /\ asked \in [Callers -> 0..MaxTime]

Failed(l) == [ok |-> FALSE, expires_in |-> l, issued |-> 0]

Init ==
    /\ time = 0 /\ lag = 0
    /\ token = Failed(0) /\ cached = Failed(0) /\ refreshTime = 0
    /\ mutex = Nobody
    /\ pc = [c \in Callers |-> "idle"]
    /\ validity = [c \in Callers |-> CHOOSE v \in Validities : TRUE] /\ demands = {}
    /\ response = [c \in Callers |-> Failed(0)] /\ got = response
    /\ calls = 0 /\ asked = [c \in Callers |-> 0]

-----------------------------------------------------------------------------
(* The answers to a sign-in request, each with the cache entry it leaves.  *)
(* SignInResultImpl leaves expires_in_ uninitialized unless the server     *)
(* sent a token.  An answer with status 200 is put into the cache, even if *)
(* its body is not a valid token.                                          *)
SignInClient ==
    LET granted == [ok : {TRUE}, expires_in : Lifetimes, issued : {time}]
        failed == {Failed(l) : l \in Lifetimes \cup {0}}
    IN  {[response |-> r, cache |-> r] : r \in granted \cup failed}
        \cup [response : failed \cup {cached}, cache : {cached}]

ComputeRefreshTime_Late(r, v) == time + r.expires_in
ComputeRefreshTime(r, v) == IF r.expires_in <= 0 THEN time ELSE time + r.expires_in - v

(* An answer counts from when its refresh time is computed, whenever it    *)
(* was issued: how late it is, at the most, at time t.  Until then GetToken *)
(* may return it, by the refresh time of the token before.                 *)
Lateness(r, t) == IF r.ok THEN Max({lag, t - r.issued}) ELSE lag

StoreToken(r) == token' = r /\ lag' = Lateness(r, time)

StoreRefreshTime(v) == refreshTime' = ComputeRefreshTime(token, v) /\ UNCHANGED lag

(* A token was stored whose refresh time is not computed yet. *)
AwaitsRefreshTime == \E c \in Callers : pc[c] \in {"refresh", "callback"}

-----------------------------------------------------------------------------
(* GetToken *)

ShouldRefresh_Unforced(v) == time >= refreshTime
ShouldRefresh(v) == v <= 0 \/ time >= refreshTime

GoTo(c, l) == pc' = [pc EXCEPT ![c] = l]
Return(c, r) ==
    /\ got' = [got EXCEPT ![c] = r] /\ response' = [response EXCEPT ![c] = Failed(0)]
    /\ GoTo(c, "idle")

Call(c, v, async) ==
    /\ pc[c] = "idle" /\ calls < MaxCalls
    /\ calls' = calls + 1
    /\ validity' = [validity EXCEPT ![c] = v] /\ demands' = demands \cup {v}
    /\ asked' = [asked EXCEPT ![c] = time]
    /\ GoTo(c, IF ~ShouldRefresh(v) THEN "read" ELSE IF async THEN "lockAsync" ELSE "lock")
    /\ UNCHANGED <<time, token, cached, refreshTime, mutex, response, got, lag>>

(* "Return existing still valid token" *)
Read(c) ==
    /\ pc[c] = "read"
    /\ Return(c, token)
    /\ UNCHANGED <<time, token, cached, refreshTime, mutex, validity, calls, asked, demands, lag>>

(* TryRefreshCurrentToken, blocking: it waits, stores and computes the     *)
(* refresh time under the lock, and reads the token after releasing it.    *)
Lock(c) ==
    /\ pc[c] = "lock" /\ mutex = Nobody
    /\ mutex' = c /\ GoTo(c, "wait")
    /\ UNCHANGED <<time, token, cached, refreshTime, validity, response, calls, asked, got, demands, lag>>

Store(c) ==
    /\ pc[c] = "store"
    /\ StoreToken(response[c]) /\ GoTo(c, "refresh")
    /\ UNCHANGED <<time, cached, refreshTime, mutex, validity, response, calls, asked, got, demands>>

Refresh_KeepsLock(c) ==
    /\ pc[c] = "refresh"
    /\ StoreRefreshTime(validity[c]) /\ GoTo(c, "read")
    /\ UNCHANGED <<time, token, cached, mutex, validity, response, calls, asked, got, demands>>
Refresh(c) ==
    /\ pc[c] = "refresh"
    /\ StoreRefreshTime(validity[c]) /\ GoTo(c, "read")
    /\ mutex' = Nobody
    /\ UNCHANGED <<time, token, cached, validity, response, calls, asked, got, demands>>

(* TryRefreshCurrentToken, asynchronous: the lock covers the sending only. *)
LockAsync(c) ==
    /\ pc[c] = "lockAsync" /\ mutex = Nobody
    /\ GoTo(c, "sent")
    /\ UNCHANGED <<time, token, cached, refreshTime, mutex, validity, response, calls, asked, got, demands,
                   lag>>

(* The callback computes the refresh time after storing; its caller gets   *)
(* the response it brought.                                                *)
CallbackRefresh(c) ==
    /\ pc[c] = "callback"
    /\ StoreRefreshTime(validity[c])
    /\ Return(c, response[c])
    /\ UNCHANGED <<time, token, cached, mutex, validity, calls, asked, demands>>

(* The network's thread runs one callback at a time: it fulfils the        *)
(* promise of a blocking call, or begins the callback of another by        *)
(* storing the token.                                                      *)
Answer(c) ==
    /\ \A d \in Callers : pc[d] # "callback"
    /\ \E a \in SignInClient :
          /\ response' = [response EXCEPT ![c] = a.response] /\ cached' = a.cache
          /\ \/ pc[c] = "wait" /\ GoTo(c, "store") /\ UNCHANGED <<token, lag>>
             \/ pc[c] = "sent" /\ GoTo(c, "callback") /\ StoreToken(a.response)
    /\ UNCHANGED <<time, refreshTime, mutex, validity, calls, asked, got, demands>>

Tick ==
    /\ time < MaxTime /\ time' = time + 1
    /\ lag' = IF AwaitsRefreshTime THEN Lateness(token, time') ELSE lag
    /\ UNCHANGED <<token, cached, refreshTime, mutex, callVars>>

-----------------------------------------------------------------------------

Step(c) ==
    Lock(c) \/ Store(c) \/ Refresh(c) \/ Read(c) \/ LockAsync(c) \/ Answer(c) \/ CallbackRefresh(c)

Next ==
    \/ \E c \in Callers, v \in Validities, async \in BOOLEAN : Call(c, v, async)
    \/ \E c \in Callers : Step(c)
    \/ Tick

(* Threads run, the mutex is handed over fairly, and the network answers   *)
(* every request.                                                          *)
Spec == Init /\ [][Next]_vars
FairSpec == Spec /\ \A c \in Callers : SF_vars(Step(c))

-----------------------------------------------------------------------------
(* Properties *)

Answered(c) == pc[c] = "idle" /\ got[c].ok

(* A token that GetToken returns stays valid for longer than the           *)
(* minimum_validity its caller asked for, whichever thread fetched it and  *)
(* whatever was stored since the decision not to refresh (GetToken), but   *)
(* for the time by which an answer was late when its refresh time was      *)
(* computed, or is, as long as it is not (:91, :111).  Only if all callers *)
(* ask for the same: the refresh time is computed with the                 *)
(* minimum_validity of whoever refreshed last (AutoRefreshingToken:111).   *)
FreshEnough ==
    \A v \in Validities : demands = {v} =>
        \A c \in Callers : Answered(c) =>
            \/ got[c].issued + got[c].expires_in + lag > asked[c] + validity[c]
            \/ got[c].expires_in <= validity[c]

(* A call with minimum_validity 0 is never answered with a token that was  *)
(* stored before the call, whoever else refreshes at the same time         *)
(* (ForceRefresh): it was issued after the call but for the lateness of    *)
(* answers.                                                                *)
ForcedIsNew ==
    \A c \in Callers : Answered(c) /\ validity[c] = 0 => got[c].issued + lag >= asked[c]

(* Every GetToken returns, and every asynchronous one calls its callback:  *)
(* time and again, none is on its way.                                     *)
AllReturned == \A c \in Callers : pc[c] = "idle"
GetTokenReturns == []<>AllReturned
=============================================================================
