-------------------------- MODULE AutoFlushController --------------------------
(***************************************************************************)
(* write::AutoFlushController, which flushes the queue of a stream layer's *)
(* client once it is long enough, and time and again; its collection of    *)
(* background tasks, and the listener that counts what the flushes did.    *)
(*                                                                         *)
(* Enable puts an implementation object into impl_ and Disable takes it    *)
(* out.  Every flush and every interval is a thread of its own, which      *)
(* keeps its object alive; the client calls back on one of its threads.    *)
(* The client is external: a queue of a size, and Flush.                   *)
(***************************************************************************)
EXTENDS Integers, FiniteSetsExt

CONSTANTS
    Enablers,       \* calls of Enable: each names the object it creates
    Timers,         \* threads of intervals; none if auto_flush_interval is 0
    MaxAutoFlushes, \* bound on the flushes, 1..MaxAutoFlushes
    MaxQueued,      \* bound on what the queue holds
    Workers,        \* threads of the client that call back
    NumEvents,      \* auto_flush_num_events
    PerFlush,       \* events_per_single_flush, at choice
    Nothing         \* the disabled implementation

(* What the constants have to be, assumed where they get their values.     *)
AutoFlushAssumption ==
    /\ MaxAutoFlushes \in Nat /\ MaxQueued \in Nat /\ NumEvents \in Int /\ PerFlush \subseteq Int
    /\ Nothing \notin Enablers /\ IsFiniteSet(Enablers) /\ IsFiniteSet(Timers)

VARIABLES
    impl,           \* impl_
    enabler,        \* calls of Enable: where they are, and the object they use
    notifier,       \* the call of NotifyQueueEventComplete
    disabler,       \* the call of Disable
    isCancelled,    \* objects whose is_cancelled_ is set
    tasks,          \* the flushes in background_task_col_
    tokens,         \* the flushes in cancel_token_map_
    timer,          \* the intervals
    flush,          \* the flushes
    alive,          \* whether the client is
    queueSize,      \* what it holds
    perFlush,       \* how much a flush asks for
    metrics,        \* metrics_ of the listener
    counted,        \* the thread_local count of each thread, or -1
    recounted,      \* history: whether a thread has reported twice
    late            \* history: flushes that Disable did not wait for

controlVars == <<impl, enabler, notifier, disabler, isCancelled>>
clientVars == <<alive, queueSize, perFlush>>
listenerVars == <<counted, recounted>>
autoVars == <<controlVars, tasks, tokens, timer, flush, clientVars, metrics, listenerVars, late>>

AutoFlushes == 1..MaxAutoFlushes
Objects == Enablers \cup {Nothing}
Metrics == [attempted : Nat, failed : Nat, total : Nat, requests : Nat, failedRequests : Nat]

TypeOK ==
    /\ impl \in Objects
    /\ enabler \in [Enablers -> [pc : {"new", "store", "call", "count", "done"}, of : Objects]]
    /\ notifier \in [pc : {"idle", "count"}, of : Objects]
    /\ disabler \in [pc : {"new", "wait", "ready"}, of : Objects]
    /\ isCancelled \subseteq Enablers
    /\ {tasks, tokens, late} \subseteq SUBSET AutoFlushes
    /\ timer \in [Timers -> [pc : {"none", "sleeping", "add", "over"}, of : Objects]]
    /\ flush \in [AutoFlushes -> [
           pc : {"none", "started", "called", "over"}, of : Objects,
           callback : {"none", "pending", "remove", "notify", "done"},
           killed : BOOLEAN, size : 0..MaxQueued, failed : 0..MaxQueued]]
    /\ alive \in BOOLEAN /\ queueSize \in 0..MaxQueued /\ perFlush \in PerFlush
    /\ metrics \in Metrics /\ counted \in [Workers -> -1..MaxQueued]
    /\ recounted \in BOOLEAN

Init ==
    /\ impl = Nothing /\ isCancelled = {} /\ tasks = {} /\ tokens = {} /\ late = {}
    /\ enabler = [e \in Enablers |-> [pc |-> "new", of |-> Nothing]]
    /\ notifier = [pc |-> "idle", of |-> Nothing] /\ disabler = [pc |-> "new", of |-> Nothing]
    /\ timer = [t \in Timers |-> [pc |-> "none", of |-> Nothing]]
    /\ flush = [f \in AutoFlushes |-> [
           pc |-> "none", of |-> Nothing, callback |-> "none", killed |-> FALSE, size |-> 0,
           failed |-> 0]]
    /\ alive = TRUE /\ queueSize = 0 /\ perFlush \in PerFlush
    /\ metrics = [attempted |-> 0, failed |-> 0, total |-> 0, requests |-> 0, failedRequests |-> 0]
    /\ counted = [w \in Workers |-> -1] /\ recounted = FALSE

-----------------------------------------------------------------------------
(* Starting a flush *)

Unstarted == {f \in AutoFlushes : flush[f].pc = "none"}

IsCancelled(of) == of \in isCancelled

(* The listener is told first; then a detached thread is started, which is *)
(* not a background task until it has run.                                 *)
AddBackgroundFlushTask(of) ==
    /\ alive /\ Unstarted # {}
    /\ LET f == CHOOSE g \in Unstarted : \A h \in Unstarted : g <= h IN
       /\ flush' = [flush EXCEPT ![f].pc = "started", ![f].of = of]
       /\ late' = IF disabler.pc = "ready" /\ disabler.of = of THEN late \cup {f} ELSE late
    /\ metrics' = [metrics EXCEPT !.attempted = @ + 1]

NoFlush == UNCHANGED <<flush, late, metrics>>

(* The size is unsigned, and so becomes what it is compared with.          *)
IsAutoFlushNumEventsRequired == alive /\ NumEvents >= 0 /\ queueSize >= NumEvents

AutoFlushNumEvents(of) ==
    IF of # Nothing /\ IsAutoFlushNumEventsRequired THEN AddBackgroundFlushTask(of) ELSE NoFlush

(* A new thread sleeps for the interval. *)
TriggerAutoFlushInterval(of) ==
    \E t \in Timers :
        /\ timer[t].pc = "none"
        /\ timer' = [timer EXCEPT ![t] = [pc |-> "sleeping", of |-> of]]

-----------------------------------------------------------------------------
(* The calls *)

(* Enable looks whether impl_ is enabled, stores an object of its own, and *)
(* enables what impl_ then is.                                             *)
Enable(e) ==
    /\ enabler[e].pc = "new" /\ alive
    /\ enabler' = [enabler EXCEPT ![e].pc = IF impl = Nothing THEN "store" ELSE "done"]
    /\ UNCHANGED <<impl, notifier, disabler, isCancelled, tasks, tokens, timer, flush, clientVars,
                   metrics, listenerVars, late>>

Store(e) ==
    /\ enabler[e].pc = "store"
    /\ impl' = e /\ enabler' = [enabler EXCEPT ![e].pc = "call"]
    /\ UNCHANGED <<notifier, disabler, isCancelled, tasks, tokens, timer, flush, clientVars,
                   metrics, listenerVars, late>>

(* The interval's thread is started at once. *)
InitialiseAutoFlushInterval(e) ==
    /\ enabler[e].pc = "call"
    /\ enabler' = [enabler EXCEPT ![e] = [pc |-> "count", of |-> impl]]
    /\ IF impl = Nothing \/ Timers = {} THEN UNCHANGED timer ELSE TriggerAutoFlushInterval(impl)
    /\ UNCHANGED <<impl, notifier, disabler, isCancelled, tasks, tokens, flush, clientVars,
                   metrics, listenerVars, late>>

EnableCounts(e) ==
    /\ enabler[e].pc = "count"
    /\ AutoFlushNumEvents(enabler[e].of)
    /\ enabler' = [enabler EXCEPT ![e].pc = "done"]
    /\ UNCHANGED <<impl, notifier, disabler, isCancelled, tasks, tokens, timer, clientVars,
                   counted, recounted>>

(* The client queues a request and notifies what impl_ is. *)
NotifyQueueEventComplete ==
    /\ notifier.pc = "idle" /\ alive /\ queueSize < MaxQueued
    /\ queueSize' = queueSize + 1 /\ notifier' = [pc |-> "count", of |-> impl]
    /\ UNCHANGED <<impl, enabler, disabler, isCancelled, tasks, tokens, timer, flush, alive,
                   perFlush, metrics, listenerVars, late>>

HandleNotifyQueueEventComplete ==
    /\ notifier.pc = "count"
    /\ AutoFlushNumEvents(notifier.of)
    /\ notifier' = [pc |-> "idle", of |-> Nothing]
    /\ UNCHANGED <<impl, enabler, disabler, isCancelled, tasks, tokens, timer, clientVars,
                   counted, recounted>>

Of(e) == {f \in AutoFlushes : flush[f].of = e}

(* A token has an effect until the flush calls back.                       *)
Cancel(e) ==
    /\ flush' = [f \in AutoFlushes |->
           IF f \in tokens \cap Of(e) THEN [flush[f] EXCEPT !.killed = TRUE] ELSE flush[f]]
    /\ isCancelled' = isCancelled \cup {e}

(* Nobody can tell the exchange from the cancellation: who has the object  *)
(* does in between what it could do before.                                *)
Disable ==
    /\ disabler.pc = "new"
    /\ impl' = Nothing
    /\ \/ impl = Nothing /\ UNCHANGED <<flush, isCancelled>>
       \/ impl # Nothing /\ Cancel(impl)
    /\ disabler' = [pc |-> IF impl = Nothing THEN "ready" ELSE "wait", of |-> impl]
    /\ UNCHANGED <<enabler, notifier, tasks, tokens, timer, clientVars, metrics, listenerVars, late>>

(* The thread that fulfils the promise of Disable. *)
WaitForBackgroundTaskCompletion ==
    /\ disabler.pc = "wait" /\ tasks \cap Of(disabler.of) = {}
    /\ disabler' = [disabler EXCEPT !.pc = "ready"]
    /\ late' = {f \in Of(disabler.of) : flush[f].pc = "started"}
    /\ UNCHANGED <<impl, enabler, notifier, isCancelled, tasks, tokens, timer, flush, clientVars,
                   metrics, listenerVars>>

(* The application lets go of the client, which the calls and the threads  *)
(* of flushes keep.                                                        *)
DropClient ==
    /\ alive /\ alive' = FALSE
    /\ notifier.pc = "idle" /\ \A e \in Enablers : enabler[e].pc \in {"new", "done"}
    /\ \A f \in AutoFlushes : flush[f].pc \in {"none", "over"}
    /\ UNCHANGED <<controlVars, tasks, tokens, timer, flush, queueSize, perFlush, metrics,
                   listenerVars, late>>

-----------------------------------------------------------------------------
(* The threads of intervals *)

WakeUp_Unchecked(t) ==
    /\ timer[t].pc = "sleeping"
    /\ timer' = [timer EXCEPT ![t].pc = "add"]
    /\ UNCHANGED <<controlVars, tasks, tokens, flush, clientVars, metrics, listenerVars, late>>
WakeUp(t) ==
    /\ timer[t].pc = "sleeping"
    /\ timer' = [timer EXCEPT ![t].pc = IF IsCancelled(timer[t].of) THEN "over" ELSE "add"]
    /\ UNCHANGED <<controlVars, tasks, tokens, flush, clientVars, metrics, listenerVars, late>>

(* It starts a flush and the thread of the next interval, which here goes  *)
(* by the same name.                                                       *)
Interval(t) ==
    /\ timer[t].pc = "add"
    /\ \/ AddBackgroundFlushTask(timer[t].of) /\ timer' = [timer EXCEPT ![t].pc = "sleeping"]
       \/ ~alive /\ NoFlush /\ timer' = [timer EXCEPT ![t].pc = "over"]
    /\ UNCHANGED <<controlVars, tasks, tokens, clientVars, counted, recounted>>

-----------------------------------------------------------------------------
(* The threads of flushes *)

(* The flush becomes a background task and the client is asked. *)
AddTask_NotCounted(f) ==
    /\ flush[f].pc = "started"
    /\ flush' = [flush EXCEPT ![f].pc = "called", ![f].callback = "pending"]
    /\ UNCHANGED <<controlVars, tasks, tokens, timer, clientVars, metrics, listenerVars, late>>
AddTask(f) ==
    /\ flush[f].pc = "started"
    /\ tasks' = tasks \cup {f}
    /\ flush' = [flush EXCEPT ![f].pc = "called", ![f].callback = "pending"]
    /\ UNCHANGED <<controlVars, tokens, timer, clientVars, metrics, listenerVars, late>>

(* After Flush has returned, whatever has happened to it by then.          *)
AddCancelToken(f) ==
    /\ flush[f].pc = "called"
    /\ tokens' = tokens \cup {f} /\ flush' = [flush EXCEPT ![f].pc = "over"]
    /\ UNCHANGED <<controlVars, tasks, timer, clientVars, metrics, listenerVars, late>>

-----------------------------------------------------------------------------
(* The client's answer *)

(* Zero asks for everything, less than zero for nothing.                   *)
Asked ==
    CASE perFlush = 0 -> queueSize
      [] perFlush < 0 -> 0
      [] OTHER -> IF perFlush < queueSize THEN perFlush ELSE queueSize

(* It publishes what was asked for, or less if it has been cancelled, and  *)
(* calls back.                                                             *)
ReleaseTask(f) ==
    /\ flush[f].callback = "pending"
    /\ \E n \in 0..Asked : \E failed \in 0..n :
        /\ n < Asked => flush[f].killed
        /\ queueSize' = queueSize - n
        /\ flush' = [flush EXCEPT ![f].callback = "remove", ![f].size = n, ![f].failed = failed]
    /\ tasks' = tasks \ {f}
    /\ UNCHANGED <<controlVars, tokens, timer, alive, perFlush, metrics, listenerVars, late>>

RemoveCancelToken(f) ==
    /\ flush[f].callback = "remove"
    /\ tokens' = tokens \ {f} /\ flush' = [flush EXCEPT ![f].callback = "notify"]
    /\ UNCHANGED <<controlVars, tasks, timer, clientVars, metrics, listenerVars, late>>

(* CollateFlushEventResults keeps its count in a variable of the thread,   *)
(* which is initialised the first time only.                               *)
Counted(w, f) == IF counted[w] = -1 THEN flush[f].failed ELSE counted[w]

CollateFlushEventResults(w, f) ==
    metrics' = [metrics EXCEPT
        !.total = @ + 1, !.requests = @ + flush[f].size, !.failedRequests = @ + Counted(w, f),
        !.failed = IF Counted(w, f) > 0 THEN @ + 1 ELSE @]

(* A flush without results counts as failed. *)
NotifyFlushEventResults(w, f) ==
    /\ flush[f].callback = "notify"
    /\ flush' = [flush EXCEPT ![f].callback = "done"]
    /\ \/ /\ flush[f].size = 0
          /\ metrics' = [metrics EXCEPT !.total = @ + 1, !.failed = @ + 1]
          /\ UNCHANGED <<counted, recounted>>
       \/ /\ flush[f].size > 0
          /\ CollateFlushEventResults(w, f)
          /\ counted' = [counted EXCEPT ![w] = Counted(w, f)]
          /\ recounted' = (recounted \/ counted[w] # -1)
    /\ UNCHANGED <<controlVars, tasks, tokens, timer, clientVars, late>>

-----------------------------------------------------------------------------

FlushStep(f) ==
    \/ AddTask(f) \/ AddCancelToken(f) \/ ReleaseTask(f)
    \/ RemoveCancelToken(f) \/ \E w \in Workers : NotifyFlushEventResults(w, f)

Next ==
    \/ \E e \in Enablers :
        Enable(e) \/ Store(e) \/ InitialiseAutoFlushInterval(e) \/ EnableCounts(e)
    \/ NotifyQueueEventComplete \/ HandleNotifyQueueEventComplete
    \/ Disable \/ WaitForBackgroundTaskCompletion \/ DropClient
    \/ \E t \in Timers : WakeUp(t) \/ Interval(t)
    \/ \E f \in AutoFlushes : FlushStep(f)

(* Threads run, and the client answers every flush, as StreamQueue shows   *)
(* of StreamLayerClientImpl.                                               *)
Spec == Init /\ [][Next]_autoVars
FairSpec ==
    /\ Spec /\ WF_autoVars(WaitForBackgroundTaskCompletion)
    /\ \A f \in AutoFlushes : WF_autoVars(FlushStep(f))

-----------------------------------------------------------------------------
(* Properties *)

Done == {f \in AutoFlushes : flush[f].callback = "done"}
Started == AutoFlushes \ Unstarted
Published == [f \in AutoFlushes |-> flush[f].size]
Failed == [f \in AutoFlushes |-> flush[f].failed]

(* The metrics say what the flushes did, whichever threads report at the   *)
(* same time; of the failures they do as long as no thread has reported    *)
(* twice, since then it adds the failures of its first report once more    *)
(* (DefaultFlushEventListener.h:59).                                       *)
MetricsExact ==
    /\ metrics.attempted = Cardinality(Started)
    /\ metrics.total = Cardinality(Done)
    /\ metrics.requests = SumFunctionOnSet(Published, Done)
    /\ ~recounted =>
        /\ metrics.failedRequests = SumFunctionOnSet(Failed, Done)
        /\ metrics.failed = Cardinality({f \in Done : Published[f] = 0 \/ Failed[f] > 0})

(* Once the future of Disable is ready, no flush of the object is at work, *)
(* but for those whose thread had not come as far as to be a background    *)
(* task (AutoFlushController.cpp:170); their listener may yet be told.     *)
QuietAfterDisable ==
    disabler.pc = "ready" =>
        \A f \in Of(disabler.of) \ late :
            disabler.of # Nothing => flush[f].callback \in {"remove", "notify", "done"}

(* Threads that hold an object and no longer look whether it is cancelled  *)
(* before they start a flush.                                              *)
Committed(e) ==
    Cardinality({t \in Timers : timer[t] = [pc |-> "add", of |-> e]})
    + Cardinality({c \in Enablers : enabler[c] = [pc |-> "count", of |-> e]})
    + (IF notifier = [pc |-> "count", of |-> e] THEN 1 ELSE 0)

(* What is cancelled starts no more flushes than it had threads past their *)
(* look at is_cancelled_: intervals end and notifications do nothing       *)
(* (AutoFlushController.cpp:194, :264).                                    *)
FewerFlushes ==
    \A e \in isCancelled :
        Cardinality(Of(e))' + Committed(e)' <= Cardinality(Of(e)) + Committed(e)
CancelledEnds == [][FewerFlushes]_autoVars

(* Every flush that was announced to the listener is reported to it, and   *)
(* Disable's future becomes ready: time and again nothing waits.           *)
AllReported == Started = Done /\ disabler.pc # "wait"
EveryFlushReported == []<>AllReported
=============================================================================
