------------------------------ MODULE ThreadPool ------------------------------
(***************************************************************************)
(* thread::ThreadPoolTaskScheduler and its thread::SyncQueue: worker       *)
(* threads that wait on the condition variable ready_, threads that push,  *)
(* and the destructor.  A critical section of mutex_ is one step; the      *)
(* notification that follows it outside the mutex is another.  Shown to    *)
(* implement TaskQueue.                                                    *)
(***************************************************************************)
EXTENDS Naturals, Sequences, FiniteSets

CONSTANTS
    Workers,    \* thread_pool_
    Clients,    \* other threads that schedule tasks
    Items       \* the tasks they schedule, each once

(* What the constants have to be, assumed where they get their values.     *)
PoolAssumption ==
    /\ IsFiniteSet(Workers) /\ Workers # {} /\ IsFiniteSet(Clients)
    /\ Workers \cap Clients = {}

VARIABLES
    queue,      \* queue_
    closed,     \* closed_
    waiting,    \* workers inside ready_.wait
    pc,         \* where each thread is
    task,       \* the tasks a worker has pulled and not finished (at most one)
    seen,       \* tasks that were scheduled
    dtor        \* where the destructor is

vars == <<queue, closed, waiting, pc, task, seen, dtor>>

PoolThreads == Workers \cup Clients

(* A worker has a task exactly while it runs it. *)
TypeOK ==
    /\ queue \in Seq(Items) /\ closed \in BOOLEAN
    /\ waiting \subseteq {w \in Workers : pc[w] = "pull"}
    /\ pc \in [PoolThreads -> {"pull", "run", "idle", "notify", "exited"}]
    /\ task \in [Workers -> SUBSET Items]
    /\ \A w \in Workers :
          Cardinality(task[w]) = IF pc[w] \in {"run", "notify"} THEN 1 ELSE 0
    /\ seen \subseteq Items
    /\ dtor \in {"alive", "notify", "join", "destroyed"}

Init ==
    /\ queue = <<>> /\ closed = FALSE /\ waiting = {}
    /\ pc = [th \in PoolThreads |-> IF th \in Workers THEN "pull" ELSE "idle"]
    /\ task = [w \in Workers |-> {}]
    /\ seen = {} /\ dtor = "alive"

Goto(th, l) == pc' = [pc EXCEPT ![th] = l]

-----------------------------------------------------------------------------
(* SyncQueue::Push, from EnqueueTask.  Tasks may schedule further tasks.   *)

MayPush(th) ==
    \/ th \in Clients /\ pc[th] = "idle" /\ dtor = "alive"
    \/ th \in Workers /\ pc[th] = "run"

Push(th, i) ==
    /\ MayPush(th) /\ i \notin seen
    /\ seen' = seen \cup {i}
    /\ \/ /\ ~closed
          /\ queue' = Append(queue, i)
          /\ Goto(th, "notify")
       \/ closed /\ UNCHANGED <<queue, pc>>
    /\ UNCHANGED <<closed, waiting, task, dtor>>

(* notify_one wakes one of the waiting workers, if there is any. *)
WakeOne_Lost == waiting' = waiting
WakeOne ==
    \/ \E w \in waiting : waiting' = waiting \ {w}
    \/ waiting = {} /\ UNCHANGED waiting

NotifyOne(th) ==
    /\ pc[th] = "notify"
    /\ WakeOne
    /\ Goto(th, IF th \in Workers THEN "run" ELSE "idle")
    /\ UNCHANGED <<queue, closed, task, seen, dtor>>

-----------------------------------------------------------------------------
(* The worker's loop: Pull, then the task *)

Pull_Lifo(w) ==
    /\ pc[w] = "pull" /\ w \notin waiting
    /\ \/ /\ queue = <<>> /\ ~closed
          /\ waiting' = waiting \cup {w}
          /\ UNCHANGED <<queue, pc, task>>
       \/ /\ closed
          /\ Goto(w, "exited")
          /\ UNCHANGED <<queue, waiting, task>>
       \/ /\ ~closed /\ queue # <<>>
          /\ task' = [task EXCEPT ![w] = {queue[Len(queue)]}]
          /\ queue' = SubSeq(queue, 1, Len(queue) - 1)
          /\ Goto(w, "run")
          /\ UNCHANGED waiting
    /\ UNCHANGED <<closed, seen, dtor>>
Pull(w) ==
    /\ pc[w] = "pull" /\ w \notin waiting
    /\ \/ /\ queue = <<>> /\ ~closed
          /\ waiting' = waiting \cup {w}
          /\ UNCHANGED <<queue, pc, task>>
       \/ /\ closed
          /\ Goto(w, "exited")
          /\ UNCHANGED <<queue, waiting, task>>
       \/ /\ ~closed /\ queue # <<>>
          /\ task' = [task EXCEPT ![w] = {Head(queue)}]
          /\ queue' = Tail(queue)
          /\ Goto(w, "run")
          /\ UNCHANGED waiting
    /\ UNCHANGED <<closed, seen, dtor>>

SpuriousWakeup(w) ==
    /\ w \in waiting
    /\ waiting' = waiting \ {w}
    /\ UNCHANGED <<queue, closed, pc, task, seen, dtor>>

TaskEnds_Kept(w) ==
    /\ pc[w] = "run"
    /\ Goto(w, "pull")
    /\ UNCHANGED <<queue, closed, waiting, task, seen, dtor>>
TaskEnds(w) ==
    /\ pc[w] = "run"
    /\ task' = [task EXCEPT ![w] = {}]
    /\ Goto(w, "pull")
    /\ UNCHANGED <<queue, closed, waiting, seen, dtor>>

-----------------------------------------------------------------------------
(* The destructor: Close, then join.  No client is inside a call by then.  *)

Close ==
    /\ dtor = "alive" /\ \A c \in Clients : pc[c] = "idle"
    /\ closed' = TRUE /\ queue' = <<>>
    /\ dtor' = "notify"
    /\ UNCHANGED <<waiting, pc, task, seen>>

CloseNotify_One ==
    /\ dtor = "notify"
    /\ WakeOne
    /\ dtor' = "join"
    /\ UNCHANGED <<queue, closed, pc, task, seen>>
CloseNotify ==
    /\ dtor = "notify"
    /\ waiting' = {}
    /\ dtor' = "join"
    /\ UNCHANGED <<queue, closed, pc, task, seen>>

Join ==
    /\ dtor = "join" /\ \A w \in Workers : pc[w] = "exited"
    /\ dtor' = "destroyed"
    /\ UNCHANGED <<queue, closed, waiting, pc, task, seen>>

-----------------------------------------------------------------------------

WorkerStep(w) == Pull(w) \/ TaskEnds(w)

Next ==
    \/ \E th \in PoolThreads, i \in Items : Push(th, i)
    \/ \E th \in PoolThreads : NotifyOne(th)
    \/ \E w \in Workers : WorkerStep(w) \/ SpuriousWakeup(w)
    \/ Close \/ CloseNotify \/ Join

(* Threads run and tasks end; nobody has to schedule or to destroy. *)
Spec == Init /\ [][Next]_vars
FairSpec ==
    /\ Spec
    /\ \A w \in Workers : WF_vars(Pull(w)) /\ WF_vars(TaskEnds(w))
    /\ \A th \in PoolThreads : WF_vars(NotifyOne(th))
    /\ WF_vars(CloseNotify) /\ WF_vars(Join)

-----------------------------------------------------------------------------
(* Properties *)

(* No wakeup is lost: while a worker waits, every queued task has a worker *)
(* on its way to it or a notification that has yet to be sent (Push        *)
(* notifies after it has released the mutex, and a notification that meets *)
(* no waiting worker is gone).                                             *)
WorkConserving ==
    waiting # {} /\ ~closed =>
        Len(queue) <= Cardinality({w \in Workers \ waiting : pc[w] = "pull"})
                      + Cardinality({th \in PoolThreads : pc[th] = "notify"})

(* The pool is a TaskQueue: first in, first out, each task once, as many   *)
(* at a time as there are workers, and no task is left while a worker is   *)
(* free, although any worker may be woken for any task.                    *)
Queue == INSTANCE TaskQueue WITH
    Size <- Cardinality(Workers), running <- UNION {task[w] : w \in Workers}

ImplementsTaskQueue == Queue!Spec

(* The destructor returns: it wakes every worker, whatever each is doing   *)
(* when the queue is closed, and joins it.                                 *)
Destroyed == dtor \in {"alive", "destroyed"}
DestructorReturns == []<>Destroyed
=============================================================================
