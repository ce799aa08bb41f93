----------------------------- MODULE PrefetchTiles -----------------------------
(***************************************************************************)
(* VersionedLayerClientImpl::PrefetchTiles (dataservice-read): a task that *)
(* finds the tiles adds one task per tile, and a last one that collects    *)
(* their results through promises and futures and calls the user.  All are *)
(* run by the task scheduler's workers in the order they were added.  The  *)
(* collecting task holds its worker while it waits.                        *)
(*                                                                         *)
(* Each task runs inside a TaskContext, whose Execute is modelled by what  *)
(* module TaskContext shows of it: the callback is called once, with an    *)
(* error if the task was cancelled before it began or while it ran.        *)
(***************************************************************************)
EXTENDS Naturals, Sequences, SequencesExt

CONSTANTS
    Requests,       \* calls of PrefetchTiles
    Workers,        \* threads of the task scheduler
    MaxTiles,       \* bound on the tiles of a request
    MaxCancels      \* bound on the cancellations

ASSUME PrefetchAssumption ==
    MaxTiles \in Nat \ {0} /\ MaxCancels \in Nat /\ IsFiniteSet(Requests)

(* The tasks of a request: the outer one, its tiles, the collecting one. *)
Outer == 0
Collector == MaxTiles + 1
Tiles == 1..MaxTiles
Tasks == Requests \X (Outer..Collector)
NoTask == <<>>

VARIABLES
    queue,          \* tasks added and not yet taken by a worker
    running,        \* the task of each worker, or NoTask
    at,             \* the next step of each worker
    ok,             \* whether the task's response is successful so far
    cancelled,      \* tasks whose CancellationContext is cancelled
    linked,         \* requests whose outer context cancels all the others
    total, added,   \* tiles found, and tile tasks added (futures->size())
    promise,        \* the values set on the promise of each tile
    flag,           \* tile tasks that have set their flag
    got,            \* futures that the collecting task has taken
    delivered,      \* history: what the user's callback was called with
    cancels         \* cancellations so far

workerVars == <<running, at, ok>>
requestVars == <<linked, total, added, promise, flag, got, delivered>>
cancelVars == <<cancelled, cancels>>
vars == <<queue, workerVars, requestVars, cancelVars>>

Labels == {"idle", "prepare", "loop", "link", "fetch", "check", "get", "finish"}

TypeOK ==
    /\ queue \in Seq(Tasks)
    /\ running \in [Workers -> Tasks \cup {NoTask}] /\ at \in [Workers -> Labels]
    /\ \A w \in Workers : at[w] = "idle" <=> running[w] = NoTask
    /\ ok \in [Workers -> BOOLEAN]
    /\ cancelled \subseteq Tasks /\ linked \subseteq Requests
    /\ {total, added, got} \subseteq [Requests -> 0..MaxTiles]
    /\ \A r \in Requests : got[r] <= added[r] /\ added[r] <= total[r]
    /\ promise \in [Requests -> [Tiles -> Seq({"data", "error"})]]
    /\ flag \subseteq Tasks
    /\ delivered \in [Requests -> Seq({"result", "error"})]
    /\ cancels \in 0..MaxCancels

(* PrefetchTiles has been called for every request. *)
Init ==
    /\ queue = SetToSeq(Requests \X {Outer})
    /\ running = [w \in Workers |-> NoTask] /\ at = [w \in Workers |-> "idle"]
    /\ ok = [w \in Workers |-> FALSE]
    /\ cancelled = {} /\ linked = {} /\ cancels = 0
    /\ total = [r \in Requests |-> 0] /\ added = total /\ got = total
    /\ promise = [r \in Requests |-> [i \in Tiles |-> <<>>]] /\ flag = {}
    /\ delivered = [r \in Requests |-> <<>>]

Owner(w) == running[w][1]
Kind(w) == running[w][2]

Goto(w, label, success) ==
    /\ at' = [at EXCEPT ![w] = label] /\ ok' = [ok EXCEPT ![w] = success]
    /\ UNCHANGED running

-----------------------------------------------------------------------------
(* TaskContext::Execute *)

(* A worker takes the next task, which a cancelled context makes do        *)
(* nothing but call back.                                                  *)
Take(w) ==
    LET t == Head(queue) IN
    /\ at[w] = "idle" /\ queue # <<>>
    /\ running' = [running EXCEPT ![w] = t] /\ queue' = Tail(queue)
    /\ at' = [at EXCEPT ![w] = IF t \in cancelled THEN "finish"
                               ELSE IF t[2] = Outer THEN "prepare"
                               ELSE IF t[2] = Collector THEN "check" ELSE "fetch"]
    /\ ok' = [ok EXCEPT ![w] = FALSE]
    /\ UNCHANGED <<requestVars, cancelVars>>

(* The response of a task that was cancelled while it ran is dropped. *)
Successful(w) == ok[w] /\ running[w] \notin cancelled

-----------------------------------------------------------------------------
(* The outer task *)

(* The arguments are checked, the version and the tiles are looked up. *)
Prepare(w) ==
    /\ at[w] = "prepare"
    /\ \/ Goto(w, "finish", FALSE) /\ UNCHANGED total
       \/ \E n \in Tiles : total' = [total EXCEPT ![Owner(w)] = n] /\ Goto(w, "loop", FALSE)
    /\ UNCHANGED <<queue, linked, added, promise, flag, got, delivered, cancelVars>>

MoreTiles_NotLast(r) == added[r] + 1 < total[r]
MoreTiles_OneMore(r) == added[r] <= total[r]
MoreTiles(r) == added[r] < total[r]

AddTile(w) ==
    LET r == Owner(w) IN
    /\ at[w] = "loop" /\ running[w] \notin cancelled /\ MoreTiles(r)
    /\ added' = [added EXCEPT ![r] = @ + 1]
    /\ queue' = Append(queue, <<r, added'[r]>>)
    /\ UNCHANGED <<workerVars, linked, total, promise, flag, got, delivered, cancelVars>>

AddCollector(w) ==
    /\ at[w] = "loop" /\ (running[w] \in cancelled \/ ~MoreTiles(Owner(w)))
    /\ queue' = Append(queue, <<Owner(w), Collector>>)
    /\ Goto(w, "link", TRUE)
    /\ UNCHANGED <<requestVars, cancelVars>>

(* ExecuteOrCancelled, which does nothing if the context is cancelled. *)
Link(w) ==
    /\ at[w] = "link"
    /\ linked' = IF running[w] \in cancelled THEN linked ELSE linked \cup {Owner(w)}
    /\ Goto(w, "finish", TRUE)
    /\ UNCHANGED <<queue, total, added, promise, flag, got, delivered, cancelVars>>

(* "Otherwise, the user would be notified with empty results." *)
OuterCallback_Always(w) ==
    delivered' = [delivered EXCEPT ![Owner(w)] = Append(@, IF Successful(w) THEN "result" ELSE "error")]
OuterCallback(w) ==
    delivered' = IF Successful(w) THEN delivered
                 ELSE [delivered EXCEPT ![Owner(w)] = Append(@, "error")]

-----------------------------------------------------------------------------
(* The task of a tile *)

SetValue(w, v) == promise' = [promise EXCEPT ![Owner(w)][Kind(w)] = Append(@, v)]

(* The flag, which only this worker reads, is set after the promise. *)
Fetch(w) ==
    /\ at[w] = "fetch"
    /\ \E v \in {"data", "error"} : SetValue(w, v)
    /\ flag' = flag \cup {running[w]}
    /\ Goto(w, "finish", TRUE)
    /\ UNCHANGED <<queue, linked, total, added, got, delivered, cancelVars>>

TileCallback_ByResponse(w) == IF Successful(w) THEN UNCHANGED promise ELSE SetValue(w, "error")
TileCallback_Nothing(w) == UNCHANGED promise
TileCallback(w) == IF running[w] \in flag THEN UNCHANGED promise ELSE SetValue(w, "error")

-----------------------------------------------------------------------------
(* The collecting task *)

Check(w) ==
    LET r == Owner(w) IN
    /\ at[w] = "check"
    /\ \/ got[r] = added[r] /\ Goto(w, "finish", TRUE)
       \/ got[r] < added[r] /\ running[w] \in cancelled /\ Goto(w, "finish", FALSE)
       \/ got[r] < added[r] /\ running[w] \notin cancelled /\ Goto(w, "get", FALSE)
    /\ UNCHANGED <<queue, requestVars, cancelVars>>

(* future.get() *)
Get(w) ==
    LET r == Owner(w) IN
    /\ at[w] = "get" /\ promise[r][got[r] + 1] # <<>>
    /\ got' = [got EXCEPT ![r] = @ + 1]
    /\ Goto(w, "check", FALSE)
    /\ UNCHANGED <<queue, linked, total, added, promise, flag, delivered, cancelVars>>

CollectorCallback(w) ==
    delivered' = [delivered EXCEPT ![Owner(w)] = Append(@, IF Successful(w) THEN "result" ELSE "error")]

(* The rest of TaskContext::Execute, the user's part of it. *)
Finish(w) ==
    /\ at[w] = "finish"
    /\ \/ Kind(w) = Outer /\ OuterCallback(w) /\ UNCHANGED promise
       \/ Kind(w) = Collector /\ CollectorCallback(w) /\ UNCHANGED promise
       \/ Kind(w) \in Tiles /\ TileCallback(w) /\ UNCHANGED delivered
    /\ running' = [running EXCEPT ![w] = NoTask] /\ at' = [at EXCEPT ![w] = "idle"]
    /\ ok' = [ok EXCEPT ![w] = FALSE]
    /\ UNCHANGED <<queue, linked, total, added, flag, got, cancelVars>>

-----------------------------------------------------------------------------
(* Cancellation *)

(* The user's token.  It cancels the linked contexts one after the other;  *)
(* CancelPending covers the orders in which only some are.                 *)
CancelToken(r) ==
    /\ cancels < MaxCancels /\ <<r, Outer>> \notin cancelled
    /\ cancelled' = cancelled \cup {t \in Tasks : t[1] = r /\ (t[2] = Outer \/ r \in linked)}
    /\ cancels' = cancels + 1
    /\ UNCHANGED <<queue, workerVars, requestVars>>

(* PendingRequests::CancelAllAndWait, or the timeout of a network request, *)
(* cancels the context of a task that is not done.                         *)
CancelPending(t) ==
    /\ cancels < MaxCancels /\ t[2] # Outer /\ t \notin cancelled
    /\ t \in {queue[i] : i \in DOMAIN queue} \cup {running[w] : w \in Workers}
    /\ cancelled' = cancelled \cup {t} /\ cancels' = cancels + 1
    /\ UNCHANGED <<queue, workerVars, requestVars>>

-----------------------------------------------------------------------------

Step(w) ==
    \/ Take(w) \/ Finish(w)
    \/ Prepare(w) \/ AddTile(w) \/ AddCollector(w) \/ Link(w)
    \/ Fetch(w) \/ Check(w) \/ Get(w)

Next ==
    \/ \E w \in Workers : Step(w)
    \/ \E r \in Requests : CancelToken(r)
    \/ \E t \in Tasks : CancelPending(t)

(* The workers run, and blocking calls of the network return. *)
Spec == Init /\ [][Next]_vars
FairSpec == Spec /\ \A w \in Workers : WF_vars(Step(w))

-----------------------------------------------------------------------------
(* Properties *)

(* No promise is set twice, which would throw on a worker (:254). *)
PromiseSetOnce == \A r \in Requests, i \in Tiles : Len(promise[r][i]) <= 1

(* A result that reaches the user holds every tile that was found, unless  *)
(* the request was cancelled (PrefetchTiles).                              *)
CompleteResult ==
    \A r \in Requests :
        /\ <<r, Outer>> \notin cancelled
        /\ \E i \in DOMAIN delivered[r] : delivered[r][i] = "result"
        => got[r] = total[r] /\ total[r] > 0

(* The user's callback is called once (PrefetchTiles). *)
UserCalledOnce == \A r \in Requests : Len(delivered[r]) <= 1

(* The user is called once, by the outer or by the collecting task, if the *)
(* request is not cancelled while the outer task runs.                     *)
CalledOnceUnlessCancelled ==
    \A r \in Requests : <<r, Outer>> \notin cancelled => Len(delivered[r]) <= 1

(* The user is called even if all workers but one wait for tiles, whatever *)
(* is cancelled.                                                           *)
AllAnswered == \A r \in Requests : delivered[r] # <<>>
EveryPrefetchAnswered == <>AllAnswered
=============================================================================
