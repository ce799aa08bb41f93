-------------------------------- MODULE MCWrite --------------------------------
(***************************************************************************)
(* A small instance of the write clients for TLC: the operations of the    *)
(* versioned, volatile and index layers' clients, the queue of the stream  *)
(* layer's client, the automatic flushes, or publications to a stream      *)
(* layer.  They share no state, so a behaviour is one of them.             *)
(***************************************************************************)
EXTENDS WriteClient, TLC

CONSTANTS Requests, f1, f2, MaxRequests, MaxFaults, None, e1, e2, t1, w1, Nothing

(* Two operations of one client, one beside another that shares a request  *)
(* or a state with it; the third is for the instance that has three.       *)
(* Those left out differ in their requests only.                           *)
SomeKinds ==
    {<<"PublishToBatch", "CheckDataExists", "GetBaseVersion">>,
     <<"PublishPartitionData", "VolatileStartBatch", "GetBaseVersion">>,
     <<"PublishIndex", "UpdateIndex", "GetBaseVersion">>,
     <<"GetBaseVersion", "CompleteBatch", "GetBaseVersion">>,
     <<"PublishPartitionsToBatch", "VolatileGetBatch", "GetBaseVersion">>,
     <<"DeleteIndexData", "UpdateIndex", "GetBaseVersion">>}

(* Offline, and what one service or another takes for success or not.      *)
SomeStatuses == {-5, 200, 201, 202, 204, 404}

(* One flush publishes everything; the other one request, or it asks for   *)
(* less than none.                                                         *)
SomeLimits == {f1 :> 0 @@ f2 :> 1, f1 :> 0 @@ f2 :> -1}

VARIABLES
    client,         \* the client that the behaviour is about
    list, data, faults, queue, pc, limit, counter, item, started, cancelled, responses, calls, raced,
    unstored, dropped, interrupted, done,
    impl, enabler, notifier, disabler, isCancelled, tasks, tokens, timer, flushing, alive,
    queueSize, perFlush, metrics, counted, recounted, late,
    content, stage, step, stopped, cachedUrls, made, answer, callbacks, doubt

Queue == INSTANCE StreamQueue WITH Flushes <- {f1, f2}, FlushLimits <- SomeLimits

(* One call of Enable and two flushes of everything; or two calls, and a   *)
(* flush of nothing.                                                       *)
Flushing ==
    INSTANCE AutoFlushController WITH
        Enablers <- {e1}, MaxAutoFlushes <- 2, PerFlush <- {0}, Timers <- {t1}, Workers <- {w1},
        MaxQueued <- 1, NumEvents <- 1, flush <- flushing
Enabling ==
    INSTANCE AutoFlushController WITH
        Enablers <- {e1, e2}, MaxAutoFlushes <- 1, PerFlush <- {-1}, Timers <- {t1},
        Workers <- {w1}, MaxQueued <- 1, NumEvents <- 1, flush <- flushing

(* Publications of two contents. *)
SomeContents == {<<"large", "small">>, <<"small", "sdii">>}

Publishing ==
    INSTANCE StreamPublication WITH
        Publications <- {1, 2}, Contents <- {"small", "large", "sdii"}, pc <- stage,
        cancelled <- stopped, calls <- callbacks

ASSUME ClientConstants ==
    Queue!StreamQueueAssumption /\ Flushing!AutoFlushAssumption /\ Enabling!AutoFlushAssumption

streamVars == <<list, data, faults, queue, pc, limit, counter, item, started, cancelled, responses, calls,
                raced, unstored, dropped, interrupted, done>>
autoVars == <<impl, enabler, notifier, disabler, isCancelled, tasks, tokens, timer, flushing,
              alive, queueSize, perFlush, metrics, counted, recounted, late>>
publishingVars == <<content, stage, step, stopped, cachedUrls, made, answer, callbacks, doubt>>
all == <<client, writeVars, streamVars, autoVars, publishingVars>>

(* Only one choice for the clients that stand still. *)
MCInit ==
    /\ client \in {"layer", "three", "stream", "flushing", "enabling", "publishing"}
    /\ Init /\ Queue!Init /\ Publishing!Init
    /\ IF client = "enabling" THEN Enabling!Init ELSE Flushing!Init
    /\ client # "stream" => limit = CHOOSE l \in SomeLimits : TRUE
    /\ content \in SomeContents
    /\ client # "publishing" => content[1] = "large"
    /\ client = "three" => op[1].kind = "GetBaseVersion"
    /\ client \notin {"layer", "three"} => op[1].kind = "DeleteIndexData"

Layers(name, A) == client = name /\ A /\ UNCHANGED <<client, streamVars, autoVars, publishingVars>>
Stream(A) == client = "stream" /\ A /\ UNCHANGED <<client, writeVars, autoVars, publishingVars>>
Automatic(name, A) == client = name /\ A /\ UNCHANGED <<client, writeVars, streamVars, publishingVars>>
Publish(A) == client = "publishing" /\ A /\ UNCHANGED <<client, writeVars, streamVars, autoVars>>

(* Operations are cancelled by their own tokens, or by CancelAll.          *)
OneWayToCancel ==
    IF canceller.pc = "idle"
    THEN canceller' = canceller \/ \A o \in Operations : ~op[o].cancelled
    ELSE canceller' = canceller => \A o \in Operations : op'[o].cancelled = op[o].cancelled

(* CancelAll is the same for every client: it comes in two of the pairs.   *)
CancelAllAmong == {"PublishPartitionData", "DeleteIndexData"}

(* Two operations with everything that may happen to them; or a third that *)
(* comes while the second waits for the first, and nobody cancels.         *)
TwoOperations ==
    /\ Next /\ op'[3].pc = "new" /\ OneWayToCancel
    /\ canceller'.pc # "idle" => op[1].kind \in CancelAllAmong
ThreeOperations == Next /\ canceller'.pc = "idle" /\ \A o \in Operations : ~op'[o].cancelled

(* The requests of the queue differ in name only: the first comes first.   *)
(* The flush that publishes everything may be cancelled.                   *)
InOrder == Queue!Next /\ (queue'[1] = "new" => queue'[2] = "new") /\ ~cancelled'[f2]

(* The two flushes of one object differ in number only: the first is done  *)
(* first.  Disable comes after Enable, and no notification after Disable;  *)
(* the instance with two calls of Enable has those as well.                *)
OneObject ==
    /\ Flushing!Next
    /\ flushing'[2].callback = "done" => flushing'[1].callback = "done"
    /\ disabler'.pc # "new" =>
          disabler'.of # Nothing /\ (notifier'.pc = "idle" \/ notifier'.of # Nothing)

MCNext ==
    \/ Layers("layer", TwoOperations) \/ Layers("three", ThreeOperations)
    \/ Stream(InOrder) \/ Publish(Publishing!Next)
    \/ Automatic("flushing", OneObject) \/ Automatic("enabling", Enabling!Next)

(* What the FairSpec of each is fair to: a behaviour is about one client,  *)
(* whose first, or second, flush, operation or publication goes on.  Their *)
(* steps come to an end, so that fairness to one or the other will do.     *)
StepOf(f, n) ==
    \/ Stream(Queue!FlushStep(f)) \/ Layers("layer", Step(n)) \/ Publish(Publishing!TaskStep(n))
    \/ Automatic("flushing", Flushing!FlushStep(n))
    \/ n \in Enabling!AutoFlushes /\ Automatic("enabling", Enabling!FlushStep(n))

WaitForBackground ==
    \/ Automatic("flushing", Flushing!WaitForBackgroundTaskCompletion)
    \/ Automatic("enabling", Enabling!WaitForBackgroundTaskCompletion)

MCSpec ==
    /\ MCInit /\ [][MCNext]_all
    /\ WF_all(StepOf(f1, 1) \/ StepOf(f2, 2) \/ WaitForBackground)

-----------------------------------------------------------------------------
(* The properties of the clients, each stated and explained in its module, *)
(* about this instance; those of WriteClient are checked by their names.   *)

(* The types of the state, the queue is as long as maximum_requests allows *)
(* (StreamLayerClientImpl::Queue), the metrics of the automatic flushes    *)
(* say what the flushes did (DefaultFlushEventListener), and Disable is    *)
(* done when the automatic flushes are (AutoFlushController::Disable).     *)
Consistent ==
    /\ client \in {"layer", "three"} => TypeOK
    /\ client = "stream" => Queue!TypeOK /\ Queue!QueueBounded
    /\ client = "publishing" => Publishing!TypeOK
    /\ client = "flushing" =>
          Flushing!TypeOK /\ Flushing!MetricsExact /\ Flushing!QuietAfterDisable
    /\ client = "enabling" =>
          Enabling!TypeOK /\ Enabling!MetricsExact /\ Enabling!QuietAfterDisable

(* A queued request is not published twice, and lost only by a refused     *)
(* Put, an eviction, want of room or the end of the process; who flushes   *)
(* is called back once (Queue, Flush).  Who publishes is told what has     *)
(* been published (PublishData and PublishSdii).                           *)
PublishedOnce ==
    /\ client = "stream" => Queue!NoSilentLoss /\ Queue!AckedOnce /\ Queue!FlushCalledOnce
    /\ client = "publishing" => Publishing!ToldWhatIsPublished

(* What Disable has cancelled starts no flushes time and again             *)
(* (AutoFlushController::TriggerAutoFlushInterval).                        *)
DisabledEnds ==
    [][/\ client = "flushing" => Flushing!FewerFlushes
       /\ client = "enabling" => Enabling!FewerFlushes]_all

(* Flushes and operations call back, whatever fails or is cancelled, and   *)
(* so does every automatic flush (Flush, AddBackgroundFlushTask).          *)
ClientsAnswer ==
    []<>(/\ client = "stream" => Queue!FlushesAnswered
         /\ client = "publishing" => Publishing!PublicationsAnswered
         /\ client = "layer" => OperationsAnswered
         /\ client = "flushing" => Flushing!AllReported
         /\ client = "enabling" => Enabling!AllReported)
=============================================================================
