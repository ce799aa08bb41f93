------------------------------ MODULE TaskQueue ------------------------------
(***************************************************************************)
(* What the SDK expects of a thread::TaskScheduler: tasks start in the     *)
(* order in which they were scheduled, each once, at most Size at a time;  *)
(* closing drops those that have not started.                              *)
(***************************************************************************)
EXTENDS Naturals, Sequences, FiniteSets

CONSTANTS Items, Size

VARIABLES
    seen,       \* tasks given to ScheduleTask
    queue,      \* scheduled, not started
    running,    \* started, not finished
    closed

queueVars == <<seen, queue, running, closed>>

Init == seen = {} /\ queue = <<>> /\ running = {} /\ closed = FALSE

ScheduleTask(i) ==
    /\ i \notin seen
    /\ seen' = seen \cup {i}
    /\ queue' = IF closed THEN queue ELSE Append(queue, i)
    /\ UNCHANGED <<running, closed>>

Start ==
    /\ ~closed /\ queue # <<>> /\ Cardinality(running) < Size
    /\ running' = running \cup {Head(queue)}
    /\ queue' = Tail(queue)
    /\ UNCHANGED <<seen, closed>>

Finish(i) ==
    /\ i \in running
    /\ running' = running \ {i}
    /\ UNCHANGED <<seen, queue, closed>>

Close ==
    /\ closed' = TRUE /\ queue' = <<>>
    /\ UNCHANGED <<seen, running>>

Next == (\E i \in Items : ScheduleTask(i) \/ Finish(i)) \/ Start \/ Close

SafeSpec == Init /\ [][Next]_queueVars

(* A task that can start does; tasks end. *)
Spec == SafeSpec /\ WF_queueVars(Start) /\ \A i \in Items : WF_queueVars(Finish(i))
=============================================================================
