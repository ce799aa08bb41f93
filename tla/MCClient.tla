-------------------------------- MODULE MCClient --------------------------------
(***************************************************************************)
(* A small instance, for TLC, of what runs requests: a client and its      *)
(* tasks, the thread pool, or a call of OlpClient, of the blocking or of   *)
(* the asynchronous CallApi.  They share no state: ClientTasks uses the    *)
(* pool by what TaskQueue promises and a call by the points where its      *)
(* token may be replaced.  A behaviour is therefore one of one of them.    *)
(***************************************************************************)
EXTENDS ClientTasks

CONSTANTS PoolWorkers, PoolClients, Items, MaxAttempts, RetryTimeout, Periods, Retryable

VARIABLES
    part,           \* which of the four the behaviour is about
    poolQueue, closed, poolWaiting, poolPc, task, seen, dtor,
    bPc, attempt, response, period, accumulated, alive, flag, answer, bSignaled,
    network, bCancelled, bToken, kpc, slept, touched, lapsed,
    aPc, aBy, aFrames, aAttempt, aResponse, aPeriod, aAccumulated, aStopping,
    aCaller, aHeld, aCancelled, aToken, aDelivered, aNested, aDropped

Pool == INSTANCE ThreadPool WITH
    Workers <- PoolWorkers, Clients <- PoolClients,
    queue <- poolQueue, waiting <- poolWaiting, pc <- poolPc
Sync == INSTANCE BlockingCall WITH
    pc <- bPc, cancelled <- bCancelled, token <- bToken, signaled <- bSignaled
Async == INSTANCE AsyncCall WITH
    pc <- aPc, by <- aBy, frames <- aFrames, attempt <- aAttempt, response <- aResponse,
    period <- aPeriod, accumulated <- aAccumulated, stopping <- aStopping, caller <- aCaller,
    held <- aHeld, cancelled <- aCancelled, token <- aToken, delivered <- aDelivered,
    nested <- aNested, dropped <- aDropped

ASSUME ClientConstants == Pool!PoolAssumption /\ Sync!CallAssumption /\ Async!AsyncAssumption

poolVars == <<poolQueue, closed, poolWaiting, poolPc, task, seen, dtor>>
blockingVars == <<bPc, attempt, response, period, accumulated, alive, flag, answer, bSignaled,
                  network, bCancelled, bToken, kpc, slept, touched, lapsed>>
asyncVars == <<aPc, aBy, aFrames, aAttempt, aResponse, aPeriod, aAccumulated, aStopping,
               aCaller, aHeld, aCancelled, aToken, aDelivered, aNested, aDropped>>
all == <<part, allVars, poolVars, blockingVars, asyncVars>>

InClient(A) == part = "client" /\ A /\ UNCHANGED <<part, poolVars, blockingVars, asyncVars>>
InPool(A) == part = "pool" /\ A /\ UNCHANGED <<part, allVars, blockingVars, asyncVars>>
InBlocking(A) == part = "blocking" /\ A /\ UNCHANGED <<part, allVars, poolVars, asyncVars>>
InAsync(A) == part = "async" /\ A /\ UNCHANGED <<part, allVars, poolVars, blockingVars>>

MCInit ==
    /\ part \in {"client", "pool", "blocking", "async"}
    /\ ClientInit /\ Pool!Init /\ Sync!Init /\ Async!Init
    /\ part # "client" => scheduler
    /\ \A p \in Periods :
        (part # "blocking" => period <= p) /\ (part # "async" => aPeriod <= p)
MCNext == InClient(ClientNext) \/ InPool(Pool!Next) \/ InBlocking(Sync!Next) \/ InAsync(Async!Next)

(* The fairness of ClientFairSpec, Pool!FairSpec, Sync!FairSpec and    *)
(* Async!FairSpec.                                                         *)
MCSpec ==
    /\ MCInit /\ [][MCNext]_all
    /\ \A th \in Threads : WF_all(InClient(Run(th)))
    /\ \A w \in PoolWorkers : WF_all(InPool(Pool!Pull(w))) /\ WF_all(InPool(Pool!TaskEnds(w)))
    /\ \A th \in PoolWorkers \cup PoolClients : WF_all(InPool(Pool!NotifyOne(th)))
    /\ WF_all(InPool(Pool!CloseNotify)) /\ WF_all(InPool(Pool!Join))
    /\ WF_all(InBlocking(Sync!CallerStep)) /\ WF_all(InBlocking(Sync!CancelStep))
    /\ \A k \in Sync!Attempts : WF_all(InBlocking(Sync!CallbackNotify(k)))
    /\ WF_all(InAsync(Async!ChainStep)) /\ WF_all(InAsync(Async!Return))

-----------------------------------------------------------------------------
(* The properties of the four, each stated and explained in its module,    *)
(* about this instance.                                                    *)

(* The types of the state; PendingRequests keeps no finished request       *)
(* (Remove), no wakeup of a worker is lost (Push), and retries and waits   *)
(* stay within the budget of RetrySettings (CallApi, both overloads).      *)
Consistent ==
    /\ ClientTypeOK /\ NoLeak
    /\ Pool!TypeOK /\ Pool!WorkConserving
    /\ Sync!TypeOK /\ Sync!RetryBudget
    /\ Async!TypeOK /\ Async!RetryBudget

(* A blocking call's callback never touches locals of a call that has      *)
(* returned, and the answer returned is that of the last request (CallApi).*)
BlockingCallExact == Sync!BlockingCallExact

(* A cancel of an asynchronous call reaches the request on the way, and    *)
(* "cancelled" is reported to nobody who did not cancel.                   *)
AsyncCancelExact == Async!AsyncCancelExact

(* No request is sent for a cancelled call (ExecuteOrCancelled).           *)
NoneSendsAfterCancel == Sync!NoSendAfterCancel /\ Async!NoSendAfterCancel

(* The pool implements the queue that ClientTasks uses. *)
ImplementsTaskQueue == Pool!ImplementsTaskQueue

(* Every request is answered and the destructors of client and pool        *)
(* return, while the one races the other; a cancelled blocking call ends   *)
(* although the network never answers, and every asynchronous one ends     *)
(* with the application's callback (CallApi).                              *)
Progress ==
    /\ EveryRequestAnswered
    /\ []<>(/\ Destroyed /\ Pool!Destroyed /\ Sync!Unblocked
            /\ part = "async" => Async!Answered)
=============================================================================
