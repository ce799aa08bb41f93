------------------------------ MODULE ClientProofs ------------------------------
(***************************************************************************)
(* What runs requests, proved for every value of the constants.            *)
(*                                                                         *)
(* The thread pool, for any number of workers, clients and tasks: every    *)
(* step of it is a step of TaskQueue (the safety part of                   *)
(* ImplementsTaskQueue), and no wakeup is lost.  The blocking CallApi, for *)
(* any number of attempts, time-out, periods and condition for retries:    *)
(* who uses the locals of a SendRequest, what the caller is told, and how  *)
(* long it waits.  The asynchronous CallApi: it stays in its budget and    *)
(* calls the application back once, a cancel reaches the request on its    *)
(* way, and no request is sent after it.  And the instance that TLC checks *)
(* of these and of a client with its tasks (ClientTasksProofs): each of    *)
(* its behaviours is one of them all.                                      *)
(***************************************************************************)
EXTENDS MCClient, ClientTasksProofs, Integers, FiniteSetTheorems, TLAPS

-----------------------------------------------------------------------------
(* PART ONE: the thread pool (ThreadPool) *)

Running == UNION {task[w] : w \in PoolWorkers}

(* A worker runs one task, a queued task is queued once and nobody runs    *)
(* it, and no two workers run the same.                                    *)
PoolTypes ==
    /\ poolQueue \in Seq(Items)
    /\ poolWaiting \subseteq {w \in PoolWorkers : poolPc[w] = "pull"}
    /\ poolPc \in [Pool!PoolThreads -> {"pull", "run", "idle", "notify", "exited"}]
    /\ task \in [PoolWorkers -> SUBSET Items]

OneTask ==
    \A w \in PoolWorkers :
        /\ poolPc[w] \in {"run", "notify"} => \E i \in Items : task[w] = {i}
        /\ poolPc[w] \notin {"run", "notify"} => task[w] = {}

EachOnce ==
    /\ \A j \in 1..Len(poolQueue) : poolQueue[j] \in seen
    /\ \A j, l \in 1..Len(poolQueue) : poolQueue[j] = poolQueue[l] => j = l
    /\ \A j \in 1..Len(poolQueue), w \in PoolWorkers : poolQueue[j] \notin task[w]
    /\ \A w \in PoolWorkers : task[w] \subseteq seen
    /\ \A w, u \in PoolWorkers : w # u => task[w] \cap task[u] = {}

PoolInv == PoolTypes /\ OneTask /\ EachOnce

-----------------------------------------------------------------------------

(* Sets are counted alike wherever the modules of the instance count them. *)
LEMMA Counted ==
    ASSUME NEW S
    PROVE  /\ Pool!IsFiniteSet(S) = IsFiniteSet(S) /\ Pool!Cardinality(S) = Cardinality(S)
           /\ Pool!Queue!Cardinality(S) = Cardinality(S)
  <1>1. Pool!IsFiniteSet(S) = IsFiniteSet(S)
    BY DEF Pool!IsFiniteSet, IsFiniteSet
  <1>2. Pool!Cardinality(S) = Cardinality(S)
    BY DEF Pool!Cardinality, Cardinality, Pool!IsFiniteSet, IsFiniteSet
  <1>3. Pool!Queue!Cardinality(S) = Cardinality(S)
    BY DEF Pool!Queue!Cardinality, Cardinality, Pool!Queue!IsFiniteSet, IsFiniteSet
  <1> QED BY <1>1, <1>2, <1>3

(* There are finitely many threads, and at least one worker.               *)
LEMMA FewThreads ==
    ASSUME Pool!PoolAssumption
    PROVE  /\ IsFiniteSet(PoolWorkers) /\ PoolWorkers # {} /\ IsFiniteSet(PoolClients)
           /\ PoolWorkers \cap PoolClients = {}
  BY Counted DEF Pool!PoolAssumption

(* No thread runs a task when the pool is made.                            *)
LEMMA PoolInitially == Pool!Init => PoolInv
  <1> SUFFICES ASSUME Pool!Init PROVE PoolInv
    OBVIOUS
  <1>1. PoolTypes
    BY DEF Pool!Init, PoolTypes, Pool!PoolThreads
  <1>2. OneTask
    BY DEF Pool!Init, OneTask, Pool!PoolThreads
  <1>3. EachOnce
    <2>1. Len(poolQueue) = 0
      BY DEF Pool!Init
    <2> QED BY <2>1 DEF Pool!Init, EachOnce
  <1> QED BY <1>1, <1>2, <1>3 DEF PoolInv

(* What is pushed is new, so that it is neither queued nor run.            *)
LEMMA PushKeeps ==
    ASSUME Pool!PoolAssumption, PoolInv, NEW th \in Pool!PoolThreads, NEW i \in Items,
           Pool!Push(th, i)
    PROVE  PoolInv'
  <1> USE DEF PoolInv
  <1>1. CASE UNCHANGED <<poolQueue, poolPc>>
    BY <1>1 DEF Pool!Push, PoolTypes, OneTask, EachOnce
  <1>2. CASE poolQueue' = Append(poolQueue, i) /\ Pool!Goto(th, "notify")
    <2>1. PoolTypes'
      BY <1>2 DEF Pool!Push, Pool!MayPush, PoolTypes, Pool!Goto
    <2>2. OneTask'
      <3>1. th \in PoolWorkers => poolPc[th] = "run"
        BY DEF Pool!Push, Pool!MayPush, Pool!PoolAssumption
      <3>2. task' = task /\ poolPc' = [poolPc EXCEPT ![th] = "notify"]
        BY <1>2 DEF Pool!Push, Pool!Goto
      <3> QED BY <3>1, <3>2 DEF PoolTypes, OneTask, Pool!PoolThreads
    <2>3. /\ Len(poolQueue') = Len(poolQueue) + 1 /\ poolQueue'[Len(poolQueue) + 1] = i
          /\ \A j \in 1..Len(poolQueue) : poolQueue'[j] = poolQueue[j]
          /\ Len(poolQueue) \in Nat /\ i \notin seen /\ seen' = seen \cup {i} /\ task' = task
      BY <1>2 DEF Pool!Push, PoolTypes
    <2>4. EachOnce'
      BY <2>3 DEF PoolTypes, EachOnce
    <2> QED BY <2>1, <2>2, <2>4
  <1> QED BY <1>1, <1>2 DEF Pool!Push

(* Notifying moves no task (notify_one in SyncQueue::Push).                *)
LEMMA NotifyKeeps ==
    ASSUME PoolInv, NEW th \in Pool!PoolThreads, Pool!NotifyOne(th) PROVE PoolInv'
  <1> USE DEF PoolInv
  <1>1. poolWaiting' \subseteq poolWaiting
    BY DEF Pool!NotifyOne, Pool!WakeOne
  <1>2. PoolTypes'
    BY <1>1 DEF Pool!NotifyOne, PoolTypes, Pool!Goto
  <1>3. OneTask'
    BY DEF Pool!NotifyOne, PoolTypes, OneTask, Pool!Goto, Pool!PoolThreads
  <1>4. EachOnce'
    BY DEF Pool!NotifyOne, EachOnce
  <1> QED BY <1>2, <1>3, <1>4

(* The task that a worker pulls leaves the queue, and is its only one.     *)
LEMMA PullKeeps ==
    ASSUME PoolInv, NEW w \in PoolWorkers, Pool!Pull(w) PROVE PoolInv'
  <1> USE DEF PoolInv
  <1>0. w \in Pool!PoolThreads /\ poolPc[w] = "pull" /\ w \notin poolWaiting
    BY DEF Pool!Pull, Pool!PoolThreads
  <1>1. CASE UNCHANGED <<poolQueue, task>>
    <2>1. /\ task' = task /\ poolQueue' = poolQueue /\ seen' = seen
          /\ poolWaiting' \subseteq poolWaiting \cup {w}
          /\ poolPc' = poolPc \/ (poolPc' = [poolPc EXCEPT ![w] = "exited"]
               /\ poolWaiting' = poolWaiting)
      BY <1>0, <1>1 DEF Pool!Pull, Pool!Goto, PoolTypes
    <2>2. PoolTypes'
      <3>1. poolPc' \in [Pool!PoolThreads -> {"pull", "run", "idle", "notify", "exited"}]
        BY <2>1 DEF PoolTypes
      <3>2. poolWaiting' \subseteq {u \in PoolWorkers : poolPc'[u] = "pull"}
        BY <1>0, <2>1 DEF PoolTypes, Pool!PoolThreads
      <3>3. poolQueue' \in Seq(Items) /\ task' \in [PoolWorkers -> SUBSET Items]
        BY <2>1 DEF PoolTypes
      <3> QED BY <3>1, <3>2, <3>3 DEF PoolTypes
    <2>3. OneTask'
      <3>1. \A u \in PoolWorkers : poolPc'[u] \in {"run", "notify"} <=> poolPc[u] \in {"run",
              "notify"}
        BY <1>0, <2>1 DEF PoolTypes, Pool!PoolThreads
      <3> QED BY <2>1, <3>1 DEF OneTask
    <2>4. EachOnce'
      BY <2>1 DEF EachOnce
    <2> QED BY <2>2, <2>3, <2>4
  <1>2. CASE /\ poolQueue # <<>> /\ task' = [task EXCEPT ![w] = {Head(poolQueue)}]
             /\ poolQueue' = Tail(poolQueue) /\ Pool!Goto(w, "run") /\ UNCHANGED poolWaiting
    <2>1. /\ Len(poolQueue) \in Nat \ {0} /\ Len(poolQueue') = Len(poolQueue) - 1
          /\ \A j \in 1..Len(poolQueue') : poolQueue'[j] = poolQueue[j + 1]
               /\ j + 1 \in 1..Len(poolQueue)
          /\ 1 \in 1..Len(poolQueue) /\ Head(poolQueue) = poolQueue[1] /\ poolQueue[1] \in Items
          /\ poolQueue' \in Seq(Items)
      BY <1>2 DEF PoolTypes
    <2>2. /\ task' \in [PoolWorkers -> SUBSET Items] /\ task'[w] = {poolQueue[1]}
          /\ \A u \in PoolWorkers \ {w} : task'[u] = task[u]
          /\ seen' = seen
      <3>1. seen' = seen
        BY DEF Pool!Pull
      <3>2. task \in [PoolWorkers -> SUBSET Items] /\ task' = [task EXCEPT ![w] = {poolQueue[1]}]
        BY <1>2, <2>1 DEF PoolTypes
      <3> QED BY <2>1, <3>1, <3>2
    <2>3. PoolTypes'
      <3>1. UNCHANGED <<closed, seen, dtor>>
        BY DEF Pool!Pull
      <3>2. poolPc' = [poolPc EXCEPT ![w] = "run"] /\ poolWaiting' = poolWaiting
        BY <1>2 DEF Pool!Goto
      <3> QED BY <1>0, <2>1, <2>2, <3>1, <3>2 DEF PoolTypes
    <2>4. OneTask'
      BY <1>0, <1>2, <2>1, <2>2 DEF PoolTypes, OneTask, Pool!Goto, Pool!PoolThreads
    <2>5. \A j \in 1..Len(poolQueue') : poolQueue'[j] # poolQueue[1]
      BY <2>1 DEF EachOnce
    <2>6. EachOnce'
      <3>1. \A j \in 1..Len(poolQueue') : poolQueue'[j] \in seen'
        BY <2>1, <2>2 DEF EachOnce
      <3>2. \A j, l \in 1..Len(poolQueue') : poolQueue'[j] = poolQueue'[l] => j = l
        <4> SUFFICES ASSUME NEW j \in 1..Len(poolQueue'), NEW l \in 1..Len(poolQueue'),
                            poolQueue'[j] = poolQueue'[l]
                     PROVE  j = l
          OBVIOUS
        <4>1. j + 1 = l + 1
          BY <2>1 DEF EachOnce
        <4> QED BY <2>1, <4>1
      <3>3. \A j \in 1..Len(poolQueue'), u \in PoolWorkers : poolQueue'[j] \notin task'[u]
        BY <2>1, <2>2, <2>5 DEF EachOnce
      <3>4. \A u \in PoolWorkers : task'[u] \subseteq seen'
        BY <2>1, <2>2 DEF EachOnce
      <3>5. \A u \in PoolWorkers : poolQueue[1] \notin task[u]
        BY <2>1 DEF EachOnce
      <3>6. \A u, v \in PoolWorkers : u # v => task'[u] \cap task'[v] = {}
        BY <2>2, <3>5 DEF EachOnce
      <3> QED BY <3>1, <3>2, <3>3, <3>4, <3>6 DEF EachOnce
    <2> QED BY <2>3, <2>4, <2>6
  <1> QED BY <1>1, <1>2 DEF Pool!Pull

(* A worker whose task ends has none.                                      *)
LEMMA TaskEndsKeeps ==
    ASSUME PoolInv, NEW w \in PoolWorkers, Pool!TaskEnds(w) PROVE PoolInv'
  <1> USE DEF PoolInv
  <1>1. w \in Pool!PoolThreads /\ task' \in [PoolWorkers -> SUBSET Items] /\ task'[w] = {}
    BY DEF Pool!TaskEnds, PoolTypes, Pool!PoolThreads
  <1>2. \A u \in PoolWorkers \ {w} : task'[u] = task[u]
    BY DEF Pool!TaskEnds, PoolTypes
  <1>3. PoolTypes'
    BY <1>1 DEF Pool!TaskEnds, PoolTypes, Pool!Goto
  <1>4. OneTask'
    BY <1>1, <1>2 DEF Pool!TaskEnds, PoolTypes, OneTask, Pool!Goto, Pool!PoolThreads
  <1>5. EachOnce'
    BY <1>1, <1>2 DEF Pool!TaskEnds, EachOnce
  <1> QED BY <1>3, <1>4, <1>5

(* Closing drops what is queued; waking and joining move no task.          *)
LEMMA RestKeeps ==
    ASSUME PoolInv,
           \/ \E w \in PoolWorkers : Pool!SpuriousWakeup(w)
           \/ Pool!Close \/ Pool!CloseNotify \/ Pool!Join \/ UNCHANGED Pool!vars
    PROVE  PoolInv'
  <1> USE DEF PoolInv
  <1>1. /\ task' = task /\ poolPc' = poolPc /\ seen' = seen
        /\ poolQueue' = poolQueue \/ poolQueue' = <<>>
        /\ poolWaiting' \subseteq poolWaiting
    BY DEF PoolTypes, Pool!SpuriousWakeup, Pool!Close, Pool!CloseNotify, Pool!Join, Pool!vars
  <1>2. PoolTypes'
    <2>1. poolQueue' \in Seq(Items)
      <3>1. poolQueue \in Seq(Items) /\ (poolQueue' = poolQueue \/ poolQueue' = <<>>)
        BY <1>1 DEF PoolTypes
      <3>2. <<>> \in Seq(Items)
        OBVIOUS
      <3> QED BY <3>1, <3>2
    <2>2. poolWaiting' \subseteq {w \in PoolWorkers : poolPc[w] = "pull"} /\ poolPc' = poolPc
      BY <1>1 DEF PoolTypes
    <2> QED BY <1>1, <2>1, <2>2 DEF PoolTypes
  <1>3. OneTask'
    BY <1>1 DEF OneTask
  <1>4. EachOnce'
    <2>1. CASE poolQueue' = poolQueue
      BY <1>1, <2>1 DEF EachOnce
    <2>2. CASE poolQueue' = <<>>
      <3>1. Len(poolQueue') = 0
        BY <2>2
      <3> QED BY <1>1, <3>1 DEF EachOnce
    <2> QED BY <1>1, <2>1, <2>2
  <1> QED BY <1>2, <1>3, <1>4

(* Every step keeps the invariant.                                         *)
LEMMA PoolStep == ASSUME Pool!PoolAssumption PROVE PoolInv /\ [Pool!Next]_Pool!vars => PoolInv'
  BY PushKeeps, NotifyKeeps, PullKeeps, TaskEndsKeeps, RestKeeps DEF Pool!Next, Pool!WorkerStep

(* It holds as long as the pool lives.                                     *)
LEMMA PoolAlways == ASSUME Pool!PoolAssumption PROVE Pool!Spec => []PoolInv
  BY PoolInitially, PoolStep, PTL DEF Pool!Spec

-----------------------------------------------------------------------------
(* The pool is a TaskQueue *)

(* A worker that is about to pull leaves room: fewer tasks run than there  *)
(* are workers, since each of the others runs one at most.                 *)
LEMMA RoomToStart ==
    ASSUME Pool!PoolAssumption, PoolInv, NEW w \in PoolWorkers, task[w] = {}
    PROVE  Cardinality(Running) < Cardinality(PoolWorkers)
  <1> DEFINE Others == PoolWorkers \ {w}
             of == [i \in Running |-> CHOOSE u \in PoolWorkers : i \in task[u]]
  <1>1. \A i \in Running : of[i] \in PoolWorkers /\ i \in task[of[i]]
    BY DEF Running
  <1>2. of \in [Running -> Others]
    BY <1>1
  <1>3. \A i, j \in Running : of[i] = of[j] => i = j
    BY <1>1 DEF PoolInv, OneTask
  <1>4. of \in Injection(Running, Others)
    BY <1>2, <1>3 DEF Injection, IsInjective
  <1>5. /\ IsFiniteSet(Others) /\ Cardinality(Others) = Cardinality(PoolWorkers) - 1
        /\ Cardinality(PoolWorkers) \in Nat
    BY FewThreads, FS_RemoveElement, FS_CardinalityType
  <1>6. IsFiniteSet(Running) /\ Cardinality(Running) <= Cardinality(Others)
    BY <1>4, <1>5, FS_Injection
  <1>7. Cardinality(Running) \in Nat
    BY <1>6, FS_CardinalityType
  <1> QED BY <1>5, <1>6, <1>7

(* Every step of workers and clients is one of TaskQueue, or none.         *)
LEMMA StepOfQueue ==
    ASSUME Pool!PoolAssumption, PoolInv, [Pool!Next]_Pool!vars
    PROVE  [Pool!Queue!Next]_Pool!Queue!queueVars
  <1>1. ASSUME task' = task PROVE Running' = Running
    BY <1>1 DEF Running
  <1>2. ASSUME NEW th \in Pool!PoolThreads, NEW i \in Items, Pool!Push(th, i)
        PROVE  Pool!Queue!ScheduleTask(i)
    BY <1>1, <1>2 DEF Pool!Push, Pool!Queue!ScheduleTask, Running
  <1>3. ASSUME NEW w \in PoolWorkers, Pool!Pull(w), ~UNCHANGED <<poolQueue, task>>
        PROVE  Pool!Queue!Start
    <2>1. /\ ~closed /\ poolQueue # <<>> /\ task' = [task EXCEPT ![w] = {Head(poolQueue)}]
          /\ poolQueue' = Tail(poolQueue) /\ seen' = seen /\ closed' = closed /\ poolPc[w] = "pull"
      BY <1>3 DEF Pool!Pull
    <2>2. task[w] = {} /\ task \in [PoolWorkers -> SUBSET Items]
      BY <2>1 DEF PoolInv, PoolTypes, OneTask
    <2>3. Cardinality(UNION {task[u] : u \in PoolWorkers}) < Cardinality(PoolWorkers)
      BY <2>2, RoomToStart DEF Running
    <2>4. Running' = Running \cup {Head(poolQueue)}
      BY <2>1, <2>2 DEF Running
    <2>5. UNCHANGED <<seen, closed>>
      BY <2>1
    <2>6. /\ Pool!Queue!Cardinality(Running) = Cardinality(Running)
          /\ Pool!Cardinality(PoolWorkers) = Cardinality(PoolWorkers)
      BY Counted
    <2> QED BY <2>1, <2>3, <2>4, <2>5, <2>6 DEF Pool!Queue!Start, Running
  <1>4. ASSUME NEW w \in PoolWorkers, Pool!TaskEnds(w) PROVE \E i \in Items : Pool!Queue!Finish(i)
    <2>1. PICK i \in Items : task[w] = {i}
      BY <1>4 DEF Pool!TaskEnds, PoolInv, OneTask
    <2>2. task' = [task EXCEPT ![w] = {}] /\ UNCHANGED <<poolQueue, closed, seen>>
      BY <1>4 DEF Pool!TaskEnds
    <2>3. task \in [PoolWorkers -> SUBSET Items] /\ \A u \in PoolWorkers \ {w} : i \notin task[u]
      BY <2>1 DEF PoolInv, PoolTypes, EachOnce
    <2>4. Running' = Running \ {i} /\ i \in Running
      BY <2>1, <2>2, <2>3 DEF Running
    <2> QED BY <2>2, <2>4 DEF Pool!Queue!Finish, Running
  <1>5. Pool!Close => Pool!Queue!Close
    BY <1>1 DEF Pool!Close, Pool!Queue!Close, Running
  <1>6. ASSUME UNCHANGED <<poolQueue, closed, seen, task>> PROVE UNCHANGED Pool!Queue!queueVars
    BY <1>6 DEF Pool!Queue!queueVars
  <1>7. ASSUME NEW w \in PoolWorkers, Pool!Pull(w), UNCHANGED <<poolQueue, task>>
        PROVE  UNCHANGED Pool!Queue!queueVars
    BY <1>6, <1>7 DEF Pool!Pull
  <1>8. ASSUME \/ \E th \in Pool!PoolThreads : Pool!NotifyOne(th)
               \/ \E w \in PoolWorkers : Pool!SpuriousWakeup(w)
               \/ Pool!CloseNotify \/ Pool!Join \/ UNCHANGED Pool!vars
        PROVE  UNCHANGED Pool!Queue!queueVars
    BY <1>6, <1>8 DEF Pool!NotifyOne, Pool!SpuriousWakeup, Pool!CloseNotify, Pool!Join, Pool!vars
  <1> QED BY <1>2, <1>3, <1>4, <1>5, <1>7, <1>8 DEF Pool!Next, Pool!WorkerStep, Pool!Queue!Next

(* Whatever workers and clients do to SyncQueue, in any order, tasks start *)
(* first in, first out, each once, and no more run than there are workers. *)
THEOREM PoolIsQueue == ASSUME Pool!PoolAssumption PROVE Pool!Spec => Pool!Queue!SafeSpec
  <1>1. Pool!Init => Pool!Queue!Init
    BY DEF Pool!Init, Pool!Queue!Init
  <1> QED BY <1>1, PoolAlways, StepOfQueue, PTL DEF Pool!Spec, Pool!Queue!SafeSpec

-----------------------------------------------------------------------------
(* No wakeup is lost: the workers on their way to the queue, and the       *)
(* threads that have yet to notify                                         *)

Coming == {w \in PoolWorkers \ poolWaiting : poolPc[w] = "pull"}
Telling == {th \in Pool!PoolThreads : poolPc[th] = "notify"}

(* Both crowds can be counted.                                             *)
LEMMA FiniteCrowds ==
    ASSUME Pool!PoolAssumption
    PROVE  /\ IsFiniteSet(Coming) /\ IsFiniteSet(Telling)
           /\ Cardinality(Coming) \in Nat /\ Cardinality(Telling) \in Nat
  <1>1. IsFiniteSet(Pool!PoolThreads)
    BY FewThreads, FS_Union DEF Pool!PoolThreads
  <1>2. Coming \in SUBSET PoolWorkers /\ Telling \in SUBSET Pool!PoolThreads
    BY DEF Coming, Telling
  <1>3. IsFiniteSet(Coming) /\ IsFiniteSet(Telling)
    BY <1>1, <1>2, FewThreads, FS_Subset
  <1> QED BY <1>3, FS_CardinalityType

(* A push adds a task and a notification; a notification becomes a worker  *)
(* on its way, if one waits; and a worker on its way takes a task or       *)
(* leaves an empty queue.                                                  *)
LEMMA WakeupStep ==
    ASSUME Pool!PoolAssumption, PoolInv, Pool!WorkConserving, [Pool!Next]_Pool!vars
    PROVE  Pool!WorkConserving'
  <1> SUFFICES ASSUME poolWaiting' # {}, ~closed'
               PROVE  Len(poolQueue') <= Cardinality(Coming') + Cardinality(Telling')
    BY Counted DEF Pool!WorkConserving, Coming, Telling
  <1>1. poolWaiting # {} /\ ~closed => Len(poolQueue) <= Cardinality(Coming) + Cardinality(Telling)
    BY Counted DEF Pool!WorkConserving, Coming, Telling
  <1>2. /\ IsFiniteSet(Coming) /\ IsFiniteSet(Telling)
        /\ Cardinality(Coming) \in Nat /\ Cardinality(Telling) \in Nat
    BY FiniteCrowds
  <1>3. Len(poolQueue) \in Nat /\ poolQueue \in Seq(Items)
    BY DEF PoolInv, PoolTypes
  <1>4. ASSUME NEW th \in Pool!PoolThreads, NEW i \in Items, Pool!Push(th, i)
        PROVE  Len(poolQueue') <= Cardinality(Coming') + Cardinality(Telling')
    <2>1. /\ poolQueue' = Append(poolQueue, i) /\ poolPc' = [poolPc EXCEPT ![th] = "notify"]
          /\ poolWaiting' = poolWaiting /\ ~closed /\ poolPc[th] \in {"idle", "run"}
      BY <1>4 DEF Pool!Push, Pool!MayPush, Pool!Goto
    <2>2. Coming' = Coming /\ Telling' = Telling \cup {th} /\ th \notin Telling
      BY <2>1 DEF PoolInv, PoolTypes, Pool!PoolThreads, Coming, Telling
    <2>3. Cardinality(Telling') = Cardinality(Telling) + 1
      BY <1>2, <2>2, FS_AddElement
    <2>4. Len(poolQueue') = Len(poolQueue) + 1
      BY <1>3, <2>1
    <2> QED BY <1>1, <1>2, <1>3, <2>1, <2>2, <2>3, <2>4
  <1>5. ASSUME NEW th \in Pool!PoolThreads, Pool!NotifyOne(th)
        PROVE  Len(poolQueue') <= Cardinality(Coming') + Cardinality(Telling')
    <2>1. PICK w \in poolWaiting : poolWaiting' = poolWaiting \ {w}
      BY <1>5 DEF Pool!NotifyOne, Pool!WakeOne
    <2>2. /\ poolQueue' = poolQueue /\ ~closed /\ poolPc[th] = "notify"
          /\ poolPc' = [poolPc EXCEPT ![th] = IF th \in PoolWorkers THEN "run" ELSE "idle"]
      BY <1>5 DEF Pool!NotifyOne, Pool!Goto
    <2>3. poolPc[w] = "pull" /\ w \in PoolWorkers /\ w \in Pool!PoolThreads /\ th # w
      BY <2>1, <2>2 DEF PoolInv, PoolTypes, Pool!PoolThreads
    <2>4. poolPc'[th] # "pull" /\ poolPc'[th] # "notify"
            /\ \A u \in Pool!PoolThreads \ {th} : poolPc'[u] = poolPc[u]
      BY <2>2 DEF PoolInv, PoolTypes
    <2>5. Coming' = Coming \cup {w} /\ w \notin Coming
      BY <2>1, <2>2, <2>3, <2>4 DEF Coming, Pool!PoolThreads
    <2>6. Telling' = Telling \ {th} /\ th \in Telling
      BY <2>2, <2>4 DEF Telling
    <2>7. /\ Cardinality(Coming') = Cardinality(Coming) + 1
          /\ Cardinality(Telling') = Cardinality(Telling) - 1
      BY <1>2, <2>5, <2>6, FS_AddElement, FS_RemoveElement
    <2> QED BY <1>1, <1>2, <1>3, <2>1, <2>2, <2>7
  <1>6. ASSUME NEW w \in PoolWorkers, Pool!Pull(w)
        PROVE  Len(poolQueue') <= Cardinality(Coming') + Cardinality(Telling')
    <2>1. poolPc[w] = "pull" /\ w \notin poolWaiting /\ w \in Pool!PoolThreads
      BY <1>6 DEF Pool!Pull, Pool!PoolThreads
    <2>2. CASE poolQueue' = <<>>
      <3>1. Cardinality(Coming') \in Nat /\ Cardinality(Telling') \in Nat /\ Len(poolQueue') = 0
        <4>1. IsFiniteSet(Pool!PoolThreads) /\ IsFiniteSet(PoolWorkers)
          BY FewThreads, FS_Union DEF Pool!PoolThreads
        <4>2. Coming' \in SUBSET PoolWorkers /\ Telling' \in SUBSET Pool!PoolThreads
          BY DEF Coming, Telling
        <4>3. IsFiniteSet(Coming') /\ IsFiniteSet(Telling')
          BY <4>1, <4>2, FS_Subset
        <4> QED BY <2>2, <4>3, FS_CardinalityType
      <3> QED BY <3>1
    <2>3. CASE /\ poolQueue # <<>> /\ poolQueue' = Tail(poolQueue)
                    /\ poolPc' = [poolPc EXCEPT ![w] = "run"]
               /\ poolWaiting' = poolWaiting /\ ~closed
      <3>1. Coming' = Coming \ {w} /\ w \in Coming /\ Telling' = Telling
        BY <2>1, <2>3 DEF PoolInv, PoolTypes, Pool!PoolThreads, Coming, Telling
      <3>2. Cardinality(Coming') = Cardinality(Coming) - 1
        BY <1>2, <3>1, FS_RemoveElement
      <3>3. Len(poolQueue') = Len(poolQueue) - 1
        BY <1>3, <2>3
      <3> QED BY <1>1, <1>2, <1>3, <2>3, <3>1, <3>2, <3>3
    <2> QED BY <1>6, <2>2, <2>3 DEF Pool!Pull, Pool!Goto
  <1>7. ASSUME NEW w \in PoolWorkers, Pool!SpuriousWakeup(w) \/ Pool!TaskEnds(w)
        PROVE  Len(poolQueue') <= Cardinality(Coming') + Cardinality(Telling')
    <2>1. poolQueue' = poolQueue /\ ~closed /\ poolWaiting # {}
      BY <1>7 DEF Pool!SpuriousWakeup, Pool!TaskEnds
    <2>2. w \notin Coming /\ Coming' = Coming \cup {w} /\ Telling' = Telling
      <3>1. CASE Pool!SpuriousWakeup(w)
        BY <3>1 DEF Pool!SpuriousWakeup, PoolInv, PoolTypes, Coming, Telling
      <3>2. CASE Pool!TaskEnds(w)
        BY <3>2 DEF Pool!TaskEnds, Pool!Goto, PoolInv, PoolTypes, Pool!PoolThreads, Coming, Telling
      <3> QED BY <1>7, <3>1, <3>2
    <2>3. Cardinality(Coming') = Cardinality(Coming) + 1
      BY <1>2, <2>2, FS_AddElement
    <2> QED BY <1>1, <1>2, <1>3, <2>1, <2>2, <2>3
  <1>8. ASSUME Pool!Close \/ Pool!CloseNotify \/ Pool!Join \/ UNCHANGED Pool!vars
        PROVE  Len(poolQueue') <= Cardinality(Coming') + Cardinality(Telling')
    <2>1. UNCHANGED <<poolQueue, poolWaiting, poolPc>> /\ ~closed
      BY <1>8 DEF Pool!Close, Pool!CloseNotify, Pool!Join, Pool!vars
    <2>2. Coming' = Coming /\ Telling' = Telling
      BY <2>1 DEF Coming, Telling
    <2> QED BY <1>1, <2>1, <2>2
  <1> QED BY <1>4, <1>5, <1>6, <1>7, <1>8 DEF Pool!Next, Pool!WorkerStep

(* SyncQueue's notify_one comes after the mutex is released, and may meet  *)
(* no waiting worker or wake the wrong one: still no task stays queued     *)
(* while a worker sleeps, however many there are.                          *)
THEOREM NoWakeupLost == ASSUME Pool!PoolAssumption PROVE Pool!Spec => []Pool!WorkConserving
  <1>1. Pool!Init => Pool!WorkConserving
    BY DEF Pool!Init, Pool!WorkConserving
  <1> QED BY <1>1, PoolAlways, WakeupStep, PTL DEF Pool!Spec

(* Every state of the pool has its type, where a worker holds one task     *)
(* exactly while it runs it.                                               *)
THEOREM PoolTypesHold == ASSUME Pool!PoolAssumption PROVE Pool!Spec => []Pool!TypeOK
  <1> DEFINE Flags == closed \in BOOLEAN /\ dtor \in {"alive", "notify", "join", "destroyed"}
                      /\ seen \subseteq Items
  <1>1. Pool!Init => Flags
    BY DEF Pool!Init
  <1>2. Flags /\ [Pool!Next]_Pool!vars => Flags'
    BY DEF Pool!Next, Pool!vars, Pool!Push, Pool!NotifyOne, Pool!WorkerStep, Pool!Pull,
       Pool!TaskEnds, Pool!SpuriousWakeup, Pool!Close,
           Pool!CloseNotify, Pool!Join
  <1>3. PoolInv /\ Flags => Pool!TypeOK
    <2> SUFFICES ASSUME PoolInv, Flags, NEW w \in PoolWorkers
                 PROVE  Cardinality(task[w]) = IF poolPc[w] \in {"run", "notify"} THEN 1 ELSE 0
      BY Counted DEF Pool!TypeOK, PoolInv, PoolTypes
    <2>1. CASE poolPc[w] \in {"run", "notify"}
      <3>1. PICK i \in Items : task[w] = {i}
        BY <2>1 DEF PoolInv, OneTask
      <3>2. Cardinality({i}) = 1
        BY FS_Singleton
      <3> QED BY <2>1, <3>1, <3>2
    <2>2. CASE poolPc[w] \notin {"run", "notify"}
      <3>1. task[w] = {}
        BY <2>2 DEF PoolInv, OneTask
      <3>2. Cardinality({}) = 0
        BY FS_EmptySet
      <3> QED BY <2>2, <3>1, <3>2
    <2> QED BY <2>1, <2>2
  <1> HIDE DEF Flags
  <1> QED BY <1>1, <1>2, <1>3, PoolAlways, PTL DEF Pool!Spec

-----------------------------------------------------------------------------
(* PART TWO: the blocking CallApi (BlockingCall) *)

(* The callback, or the token, is about to use the locals of attempt k.    *)
InCallback(k) == network[k] \in Sync!Status
InToken(k) == kpc = "notify" /\ bToken = k

(* Only one of callback, token and caller takes interest_flag; who is      *)
(* signaled has taken it.                                                  *)
OneInterested ==
    /\ \A k \in Sync!Attempts : InCallback(k) => ~flag[k] /\ ~bSignaled[k] /\ ~InToken(k)
    /\ \A k \in Sync!Attempts : InToken(k) => ~flag[k] /\ ~bSignaled[k]
    /\ \A k \in Sync!Attempts : bSignaled[k] => ~flag[k]
    /\ kpc = "notify" => bToken # 0
    /\ bPc \in {"woken", "check"} => bSignaled[attempt]

(* What still leads to the locals of an attempt means that they are alive, *)
(* or that the attempt is exempt.                                          *)
LeadsToLocals(k) ==
    \/ InCallback(k) \/ InToken(k)
    \/ flag[k] /\ (network[k] = "running" \/ bToken = k)
UsersFindLocals ==
    /\ \A k \in Sync!Attempts : LeadsToLocals(k) => k \in alive \cup lapsed
    /\ bPc = "send" => attempt \in alive

(* Attempts come one after the other.                                      *)
InOrder ==
    /\ \A k \in Sync!Attempts : k > attempt => network[k] = "idle"
    /\ bToken <= attempt
    /\ bPc = "send" => network[attempt] = "idle" /\ bToken # attempt
    /\ bPc = "sleep" => attempt <= MaxAttempts

LocalsInv == Sync!TypeOK /\ OneInterested /\ UsersFindLocals /\ InOrder /\ Sync!OnlyLiveLocals

(* What answer and response say, and since when.                           *)
Returned == bPc \in {"loop", "sleep", "done"}
AnswerTrue ==
    /\ \A k \in Sync!Attempts : answer[k] \in Sync!Status \cup {"cancelled"}
    /\ \A k \in Sync!Attempts : answer[k] \in Sync!Status => network[k] = "done"
    /\ \A k \in Sync!Attempts : bSignaled[k] => answer[k] \in Sync!Status \/ bCancelled
         \/ kpc = "finish"
    /\ Returned /\ response \in Sync!Status =>
          answer[attempt] = response /\ ~flag[attempt] /\ ~InToken(attempt)
    /\ Returned /\ response = "cancelled" => bCancelled

SyncWithinBudget == Sync!RetryBudget /\ slept <= accumulated

-----------------------------------------------------------------------------

(* SendRequest begins with its locals and interest_flag fresh.             *)
LEMMA LocalsInit == ASSUME Sync!CallAssumption PROVE Sync!Init => LocalsInv
  <1> SUFFICES ASSUME Sync!Init PROVE LocalsInv
    OBVIOUS
  <1>0. 1 \in Sync!Attempts /\ 0 \notin Sync!Attempts
    BY DEF Sync!CallAssumption, Sync!Attempts
  <1>1. Sync!TypeOK
    <2>1. period \in Periods /\ accumulated \in Nat /\ slept \in Nat
      BY DEF Sync!Init, Sync!CallAssumption
    <2> QED BY <1>0, <2>1 DEF Sync!Init, Sync!TypeOK, Sync!Status, Sync!Response
  <1>2. OneInterested
    BY DEF Sync!Init, OneInterested, InCallback, InToken, Sync!Status
  <1>3. UsersFindLocals
    BY <1>0 DEF Sync!Init, UsersFindLocals, LeadsToLocals, InCallback, InToken, Sync!Status
  <1>4. InOrder
    BY <1>0 DEF Sync!Init, InOrder, Sync!Attempts
  <1>5. Sync!OnlyLiveLocals
    BY DEF Sync!Init, Sync!OnlyLiveLocals
  <1> QED BY <1>1, <1>2, <1>3, <1>4, <1>5 DEF LocalsInv

(* Every step of the three actors keeps the variables in their range.      *)
LEMMA SyncTypeStep ==
  ASSUME Sync!CallAssumption, Sync!TypeOK, InOrder, OneInterested, [Sync!Next]_Sync!vars
  PROVE  Sync!TypeOK'
  <1> USE DEF Sync!CallAssumption, Sync!Attempts, Sync!Status, Sync!Response, Sync!TypeOK
  <1>1. CASE Sync!Send
    BY <1>1 DEF Sync!Send, Sync!SendRequestReturns
  <1>2. CASE Sync!WaitSignaled
    BY <1>2 DEF Sync!WaitSignaled, Sync!localVars, Sync!contextVars, Sync!historyVars
  <1>3. CASE Sync!WaitTimeout
    BY <1>3 DEF Sync!WaitTimeout, Sync!localVars, Sync!contextVars, Sync!historyVars
  <1>4. CASE Sync!CancelAfterTimeout
    BY <1>4 DEF Sync!CancelAfterTimeout, Sync!SendRequestReturns, Sync!Unlocked
  <1>5. CASE Sync!DropInterest
    BY <1>5 DEF Sync!DropInterest, Sync!contextVars, Sync!historyVars
  <1>6. CASE Sync!CheckCancelled
    BY <1>6 DEF Sync!CheckCancelled, Sync!SendRequestReturns, Sync!Unlocked, Sync!contextVars,
       Sync!historyVars
  <1>7. CASE Sync!Loop
    <2>1. Sync!MayRetry => Sync!TimeToSleep \in Nat
      BY DEF Sync!TimeToSleep, Sync!MayRetry
    <2> QED BY <1>7, <2>1 DEF Sync!Loop, Sync!localVars, Sync!contextVars, Sync!historyVars
  <1>8. CASE Sync!Sleep
    BY <1>8 DEF Sync!Sleep, InOrder, Sync!contextVars, Sync!historyVars
  <1>9. ASSUME NEW k \in Sync!Attempts, Sync!CallbackExchange(k) PROVE Sync!TypeOK'
    BY <1>9 DEF Sync!CallbackExchange, Sync!callVars, Sync!contextVars, Sync!historyVars
  <1>10. ASSUME NEW k \in Sync!Attempts, Sync!CallbackNotify(k) PROVE Sync!TypeOK'
    BY <1>10 DEF Sync!CallbackNotify, Sync!Touch, Sync!callVars, Sync!contextVars
  <1>11. CASE Sync!CancelBegin
    BY <1>11 DEF Sync!CancelBegin, Sync!TokenInterested, Sync!callVars, Sync!historyVars
  <1>12. CASE Sync!CancelNotify
    BY <1>12 DEF Sync!CancelNotify, Sync!Touch, OneInterested, Sync!callVars
  <1>13. CASE Sync!CancelFinish
    BY <1>13 DEF Sync!CancelFinish, Sync!callVars, Sync!localVars, Sync!historyVars
  <1>14. CASE UNCHANGED Sync!vars
    BY <1>14 DEF Sync!vars, Sync!callVars, Sync!localVars, Sync!contextVars, Sync!historyVars
  <1> QED
    BY <1>1, <1>2, <1>3, <1>4, <1>5, <1>6, <1>7, <1>8, <1>9, <1>10, <1>11, <1>12, <1>13, <1>14
    DEF Sync!Next, Sync!CallerStep, Sync!CancelStep

(* interest_flag goes to one actor per attempt; a signal follows it.       *)
LEMMA InterestStep ==
  ASSUME Sync!CallAssumption, Sync!TypeOK, OneInterested, InOrder, [Sync!Next]_Sync!vars
  PROVE  OneInterested'
  <1> USE DEF Sync!TypeOK, OneInterested, InCallback, InToken, Sync!Status
  <1>1. CASE Sync!Send
    BY <1>1 DEF Sync!Send, Sync!SendRequestReturns, Sync!Unlocked
  <1>2. CASE Sync!WaitSignaled
    BY <1>2 DEF Sync!WaitSignaled, Sync!localVars, Sync!contextVars, Sync!historyVars
  <1>3. CASE Sync!WaitTimeout
    BY <1>3 DEF Sync!WaitTimeout, Sync!localVars, Sync!contextVars, Sync!historyVars
  <1>4. CASE Sync!CancelAfterTimeout
    BY <1>4 DEF Sync!CancelAfterTimeout, Sync!SendRequestReturns, Sync!Unlocked
  <1>5. CASE Sync!DropInterest
    BY <1>5 DEF Sync!DropInterest, Sync!contextVars, Sync!historyVars
  <1>6. CASE Sync!CheckCancelled
    BY <1>6 DEF Sync!CheckCancelled, Sync!SendRequestReturns, Sync!Unlocked, Sync!contextVars,
       Sync!historyVars
  <1>7. CASE Sync!Loop
    BY <1>7 DEF Sync!Loop, Sync!localVars, Sync!contextVars, Sync!historyVars
  <1>8. CASE Sync!Sleep
    BY <1>8 DEF Sync!Sleep, Sync!Unlocked, Sync!contextVars, Sync!historyVars
  <1>9. ASSUME NEW k \in Sync!Attempts, Sync!CallbackExchange(k) PROVE OneInterested'
    BY <1>9 DEF Sync!CallbackExchange, Sync!callVars, Sync!contextVars, Sync!historyVars
  <1>10. ASSUME NEW k \in Sync!Attempts, Sync!CallbackNotify(k) PROVE OneInterested'
    BY <1>10 DEF Sync!CallbackNotify, Sync!Touch, Sync!callVars, Sync!contextVars
  <1>11. CASE Sync!CancelBegin
    BY <1>11 DEF Sync!CancelBegin, Sync!TokenInterested, Sync!callVars, Sync!historyVars
  <1>12. CASE Sync!CancelNotify
    BY <1>12 DEF Sync!CancelNotify, Sync!Touch, Sync!callVars
  <1>13. CASE Sync!CancelFinish
    BY <1>13 DEF Sync!CancelFinish, Sync!callVars, Sync!localVars, Sync!historyVars
  <1>14. CASE UNCHANGED Sync!vars
    BY <1>14 DEF Sync!vars, Sync!callVars, Sync!localVars, Sync!contextVars, Sync!historyVars
  <1> QED
    BY <1>1, <1>2, <1>3, <1>4, <1>5, <1>6, <1>7, <1>8, <1>9, <1>10, <1>11, <1>12, <1>13, <1>14
    DEF Sync!Next, Sync!CallerStep, Sync!CancelStep

(* SendRequest returns only when nothing leads to its locals any more.     *)
LEMMA FindStep ==
  ASSUME Sync!CallAssumption, Sync!TypeOK, OneInterested, UsersFindLocals, InOrder,
         [Sync!Next]_Sync!vars
  PROVE  UsersFindLocals'
  <1> USE DEF Sync!TypeOK, OneInterested, UsersFindLocals, LeadsToLocals, InCallback, InToken,
     Sync!Status
  <1>0. 0 \notin Sync!Attempts
    BY DEF Sync!Attempts
  <1>1. CASE Sync!Send
    BY <1>1 DEF Sync!Send, Sync!SendRequestReturns, InOrder, Sync!Unlocked
  <1>2. CASE Sync!WaitSignaled
    BY <1>2 DEF Sync!WaitSignaled, Sync!localVars, Sync!contextVars, Sync!historyVars
  <1>3. CASE Sync!WaitTimeout
    BY <1>3 DEF Sync!WaitTimeout, Sync!localVars, Sync!contextVars, Sync!historyVars
  <1>4. CASE Sync!CancelAfterTimeout
    BY <1>4, <1>0 DEF Sync!CancelAfterTimeout, Sync!SendRequestReturns, Sync!Unlocked
  <1>5. CASE Sync!DropInterest
    BY <1>5 DEF Sync!DropInterest, Sync!contextVars, Sync!historyVars
  <1>6. CASE Sync!CheckCancelled
    BY <1>6 DEF Sync!CheckCancelled, Sync!SendRequestReturns, Sync!Unlocked, Sync!contextVars,
       Sync!historyVars
  <1>7. CASE Sync!Loop
    BY <1>7 DEF Sync!Loop, Sync!localVars, Sync!contextVars, Sync!historyVars
  <1>8. CASE Sync!Sleep
    BY <1>8 DEF Sync!Sleep, Sync!Unlocked, Sync!contextVars, Sync!historyVars
  <1>9. ASSUME NEW k \in Sync!Attempts, Sync!CallbackExchange(k) PROVE UsersFindLocals'
    BY <1>9 DEF Sync!CallbackExchange, Sync!callVars, Sync!contextVars, Sync!historyVars
  <1>10. ASSUME NEW k \in Sync!Attempts, Sync!CallbackNotify(k) PROVE UsersFindLocals'
    BY <1>10 DEF Sync!CallbackNotify, Sync!Touch, Sync!callVars, Sync!contextVars
  <1>11. CASE Sync!CancelBegin
    BY <1>11 DEF Sync!CancelBegin, Sync!TokenInterested, Sync!callVars, Sync!historyVars
  <1>12. CASE Sync!CancelNotify
    BY <1>12 DEF Sync!CancelNotify, Sync!Touch, Sync!callVars
  <1>13. CASE Sync!CancelFinish
    BY <1>13, <1>0 DEF Sync!CancelFinish, Sync!callVars, Sync!localVars, Sync!historyVars
  <1>14. CASE UNCHANGED Sync!vars
    <2>1. \A k \in Sync!Attempts : LeadsToLocals(k)' => LeadsToLocals(k)
      BY <1>14 DEF Sync!vars, Sync!localVars, Sync!contextVars
    <2> QED BY <1>14, <2>1 DEF Sync!vars, Sync!callVars, Sync!localVars, Sync!historyVars
  <1> QED
    BY <1>1, <1>2, <1>3, <1>4, <1>5, <1>6, <1>7, <1>8, <1>9, <1>10, <1>11, <1>12, <1>13, <1>14
    DEF Sync!Next, Sync!CallerStep, Sync!CancelStep

(* SendRequest is called for one attempt after the other.                  *)
LEMMA OrderStep ==
  ASSUME Sync!CallAssumption, Sync!TypeOK, InOrder, [Sync!Next]_Sync!vars
  PROVE  InOrder'
  <1> USE DEF Sync!CallAssumption, Sync!Attempts, Sync!TypeOK, InOrder, Sync!Status
  <1>1. CASE Sync!Send
    BY <1>1 DEF Sync!Send, Sync!SendRequestReturns
  <1>2. CASE Sync!WaitSignaled
    BY <1>2 DEF Sync!WaitSignaled, Sync!localVars, Sync!contextVars, Sync!historyVars
  <1>3. CASE Sync!WaitTimeout
    BY <1>3 DEF Sync!WaitTimeout, Sync!localVars, Sync!contextVars, Sync!historyVars
  <1>4. CASE Sync!CancelAfterTimeout
    BY <1>4 DEF Sync!CancelAfterTimeout, Sync!SendRequestReturns, Sync!Unlocked
  <1>5. CASE Sync!DropInterest
    BY <1>5 DEF Sync!DropInterest, Sync!contextVars, Sync!historyVars
  <1>6. CASE Sync!CheckCancelled
    BY <1>6 DEF Sync!CheckCancelled, Sync!SendRequestReturns, Sync!Unlocked, Sync!contextVars,
       Sync!historyVars
  <1>7. CASE Sync!Loop
    BY <1>7 DEF Sync!Loop, Sync!MayRetry, Sync!localVars, Sync!contextVars, Sync!historyVars
  <1>8. CASE Sync!Sleep
    BY <1>8 DEF Sync!Sleep, Sync!Unlocked, Sync!contextVars, Sync!historyVars
  <1>9. ASSUME NEW k \in Sync!Attempts, Sync!CallbackExchange(k) PROVE InOrder'
    BY <1>9 DEF Sync!CallbackExchange, Sync!callVars, Sync!contextVars, Sync!historyVars
  <1>10. ASSUME NEW k \in Sync!Attempts, Sync!CallbackNotify(k) PROVE InOrder'
    BY <1>10 DEF Sync!CallbackNotify, Sync!Touch, Sync!callVars, Sync!contextVars
  <1>11. CASE Sync!CancelBegin
    BY <1>11 DEF Sync!CancelBegin, Sync!TokenInterested, Sync!callVars, Sync!historyVars
  <1>12. CASE Sync!CancelNotify
    BY <1>12 DEF Sync!CancelNotify, Sync!Touch, Sync!callVars
  <1>13. CASE Sync!CancelFinish
    BY <1>13 DEF Sync!CancelFinish, Sync!callVars, Sync!localVars, Sync!historyVars
  <1>14. CASE UNCHANGED Sync!vars
    BY <1>14 DEF Sync!vars, Sync!callVars, Sync!localVars, Sync!contextVars, Sync!historyVars
  <1> QED
    BY <1>1, <1>2, <1>3, <1>4, <1>5, <1>6, <1>7, <1>8, <1>9, <1>10, <1>11, <1>12, <1>13, <1>14
    DEF Sync!Next, Sync!CallerStep, Sync!CancelStep

(* The callback and the token use locals that are alive or exempt.         *)
LEMMA TouchStep ==
  ASSUME Sync!CallAssumption, Sync!TypeOK, OneInterested, UsersFindLocals, Sync!OnlyLiveLocals,
         [Sync!Next]_Sync!vars
  PROVE  Sync!OnlyLiveLocals'
  <1> USE DEF Sync!TypeOK, Sync!OnlyLiveLocals
  <1>1. CASE Sync!Send
    BY <1>1 DEF Sync!Send, Sync!SendRequestReturns
  <1>2. CASE Sync!WaitSignaled
    BY <1>2 DEF Sync!WaitSignaled, Sync!localVars, Sync!contextVars, Sync!historyVars
  <1>3. CASE Sync!WaitTimeout
    BY <1>3 DEF Sync!WaitTimeout, Sync!localVars, Sync!contextVars, Sync!historyVars
  <1>4. CASE Sync!CancelAfterTimeout
    BY <1>4 DEF Sync!CancelAfterTimeout, Sync!SendRequestReturns, Sync!Unlocked
  <1>5. CASE Sync!DropInterest
    BY <1>5 DEF Sync!DropInterest, Sync!contextVars, Sync!historyVars
  <1>6. CASE Sync!CheckCancelled
    BY <1>6 DEF Sync!CheckCancelled, Sync!SendRequestReturns, Sync!Unlocked, Sync!contextVars,
       Sync!historyVars
  <1>7. CASE Sync!Loop
    BY <1>7 DEF Sync!Loop, Sync!localVars, Sync!contextVars, Sync!historyVars
  <1>8. CASE Sync!Sleep
    BY <1>8 DEF Sync!Sleep, Sync!Unlocked, Sync!contextVars, Sync!historyVars
  <1>9. ASSUME NEW k \in Sync!Attempts, Sync!CallbackExchange(k) PROVE Sync!OnlyLiveLocals'
    BY <1>9 DEF Sync!CallbackExchange, Sync!callVars, Sync!contextVars, Sync!historyVars
  <1>10. ASSUME NEW k \in Sync!Attempts, Sync!CallbackNotify(k) PROVE Sync!OnlyLiveLocals'
    BY <1>10 DEF Sync!CallbackNotify, Sync!Touch, UsersFindLocals, LeadsToLocals, InCallback
  <1>11. CASE Sync!CancelBegin
    BY <1>11 DEF Sync!CancelBegin, Sync!TokenInterested, Sync!callVars, Sync!historyVars
  <1>12. CASE Sync!CancelNotify
    BY <1>12 DEF Sync!CancelNotify, Sync!Touch, OneInterested, UsersFindLocals, LeadsToLocals,
       InToken
  <1>13. CASE Sync!CancelFinish
    BY <1>13 DEF Sync!CancelFinish, Sync!callVars, Sync!localVars, Sync!historyVars
  <1>14. CASE UNCHANGED Sync!vars
    BY <1>14 DEF Sync!vars, Sync!callVars, Sync!localVars, Sync!contextVars, Sync!historyVars
  <1> QED
    BY <1>1, <1>2, <1>3, <1>4, <1>5, <1>6, <1>7, <1>8, <1>9, <1>10, <1>11, <1>12, <1>13, <1>14
    DEF Sync!Next, Sync!CallerStep, Sync!CancelStep

(* The inductive invariant of the locals holds throughout the call.        *)
LEMMA LocalsInvariant == ASSUME Sync!CallAssumption PROVE Sync!Spec => []LocalsInv
  <1>1. LocalsInv /\ [Sync!Next]_Sync!vars => LocalsInv'
    BY SyncTypeStep, InterestStep, FindStep, OrderStep, TouchStep DEF LocalsInv
  <1> QED BY LocalsInit, <1>1, PTL DEF Sync!Spec

(* An answer stays as its callback, or the token, has written it.          *)
LEMMA AnswerStep ==
  ASSUME Sync!CallAssumption, LocalsInv, AnswerTrue, [Sync!Next]_Sync!vars
  PROVE  AnswerTrue'
  <1> USE DEF LocalsInv, Sync!TypeOK, OneInterested, AnswerTrue, Returned, InCallback, InToken,
     Sync!Status
  <1>1. CASE Sync!Send
    BY <1>1 DEF Sync!Send, Sync!MaySend, Sync!SendRequestReturns, InOrder, Sync!Unlocked
  <1>2. CASE Sync!WaitSignaled
    BY <1>2 DEF Sync!WaitSignaled, Sync!localVars, Sync!contextVars, Sync!historyVars
  <1>3. CASE Sync!WaitTimeout
    BY <1>3 DEF Sync!WaitTimeout, Sync!localVars, Sync!contextVars, Sync!historyVars
  <1>4. CASE Sync!CancelAfterTimeout
    BY <1>4 DEF Sync!CancelAfterTimeout, Sync!SendRequestReturns, Sync!Unlocked
  <1>5. CASE Sync!DropInterest
    BY <1>5 DEF Sync!DropInterest, Sync!contextVars, Sync!historyVars
  <1>6. CASE Sync!CheckCancelled
    BY <1>6 DEF Sync!CheckCancelled, Sync!SendRequestReturns, Sync!Unlocked, Sync!contextVars,
       Sync!historyVars
  <1>7. CASE Sync!Loop
    BY <1>7 DEF Sync!Loop, Sync!Unlocked, Sync!localVars, Sync!contextVars, Sync!historyVars
  <1>8. CASE Sync!Sleep
    BY <1>8 DEF Sync!Sleep, Sync!Unlocked, Sync!contextVars, Sync!historyVars
  <1>9. ASSUME NEW k \in Sync!Attempts, Sync!CallbackExchange(k) PROVE AnswerTrue'
    BY <1>9 DEF Sync!CallbackExchange, Sync!callVars, Sync!contextVars, Sync!historyVars
  <1>10. ASSUME NEW k \in Sync!Attempts, Sync!CallbackNotify(k) PROVE AnswerTrue'
    BY <1>10 DEF Sync!CallbackNotify, Sync!Touch, Sync!callVars, Sync!contextVars
  <1>11. CASE Sync!CancelBegin
    BY <1>11 DEF Sync!CancelBegin, Sync!TokenInterested, Sync!callVars, Sync!historyVars
  <1>12. CASE Sync!CancelNotify
    BY <1>12 DEF Sync!CancelNotify, Sync!Touch, Sync!callVars
  <1>13. CASE Sync!CancelFinish
    BY <1>13 DEF Sync!CancelFinish, Sync!callVars, Sync!localVars, Sync!historyVars
  <1>14. CASE UNCHANGED Sync!vars
    BY <1>14 DEF Sync!vars, Sync!callVars, Sync!localVars, Sync!contextVars, Sync!historyVars
  <1> QED
    BY <1>1, <1>2, <1>3, <1>4, <1>5, <1>6, <1>7, <1>8, <1>9, <1>10, <1>11, <1>12, <1>13, <1>14
    DEF Sync!Next, Sync!CallerStep, Sync!CancelStep

(* CallApi's accumulated_wait_time bounds the time spent in back-off.      *)
LEMMA BudgetStep ==
  ASSUME Sync!CallAssumption, Sync!TypeOK, Sync!TypeOK', SyncWithinBudget, [Sync!Next]_Sync!vars
  PROVE  SyncWithinBudget'
  <1> USE DEF Sync!CallAssumption, Sync!Attempts, Sync!TypeOK, SyncWithinBudget, Sync!RetryBudget
  <1>1. CASE Sync!Send
    BY <1>1 DEF Sync!Send, Sync!SendRequestReturns
  <1>2. CASE Sync!WaitSignaled
    BY <1>2 DEF Sync!WaitSignaled, Sync!localVars, Sync!contextVars, Sync!historyVars
  <1>3. CASE Sync!WaitTimeout
    BY <1>3 DEF Sync!WaitTimeout, Sync!localVars, Sync!contextVars, Sync!historyVars
  <1>4. CASE Sync!CancelAfterTimeout
    BY <1>4 DEF Sync!CancelAfterTimeout, Sync!SendRequestReturns, Sync!Unlocked
  <1>5. CASE Sync!DropInterest
    BY <1>5 DEF Sync!DropInterest, Sync!contextVars, Sync!historyVars
  <1>6. CASE Sync!CheckCancelled
    BY <1>6 DEF Sync!CheckCancelled, Sync!SendRequestReturns, Sync!Unlocked, Sync!contextVars,
       Sync!historyVars
  <1>7. CASE Sync!Loop
    <2>1. CASE Sync!MayRetry /\ bPc' = "sleep"
      BY <1>7, <2>1 DEF Sync!Loop, Sync!MayRetry, Sync!TimeToSleep, Sync!localVars,
         Sync!contextVars, Sync!historyVars
    <2>2. CASE ~Sync!MayRetry /\ bPc' = "done"
      BY <1>7, <2>2 DEF Sync!Loop, Sync!MayRetry, Sync!localVars, Sync!contextVars, Sync!historyVars
    <2> QED BY <1>7, <2>1, <2>2 DEF Sync!Loop
  <1>8. CASE Sync!Sleep
    BY <1>8 DEF Sync!Sleep, Sync!Unlocked, Sync!contextVars, Sync!historyVars
  <1>9. ASSUME NEW k \in Sync!Attempts, Sync!CallbackExchange(k) PROVE SyncWithinBudget'
    BY <1>9 DEF Sync!CallbackExchange, Sync!callVars, Sync!contextVars, Sync!historyVars
  <1>10. ASSUME NEW k \in Sync!Attempts, Sync!CallbackNotify(k) PROVE SyncWithinBudget'
    BY <1>10 DEF Sync!CallbackNotify, Sync!Touch, Sync!callVars, Sync!contextVars
  <1>11. CASE Sync!CancelBegin
    BY <1>11 DEF Sync!CancelBegin, Sync!TokenInterested, Sync!callVars, Sync!historyVars
  <1>12. CASE Sync!CancelNotify
    BY <1>12 DEF Sync!CancelNotify, Sync!Touch, Sync!callVars
  <1>13. CASE Sync!CancelFinish
    BY <1>13 DEF Sync!CancelFinish, Sync!callVars, Sync!localVars, Sync!historyVars
  <1>14. CASE UNCHANGED Sync!vars
    BY <1>14 DEF Sync!vars, Sync!callVars, Sync!localVars, Sync!contextVars, Sync!historyVars
  <1> QED
    BY <1>1, <1>2, <1>3, <1>4, <1>5, <1>6, <1>7, <1>8, <1>9, <1>10, <1>11, <1>12, <1>13, <1>14
    DEF Sync!Next, Sync!CallerStep, Sync!CancelStep

-----------------------------------------------------------------------------
(* The results *)

(* The calling thread, the callbacks of all attempts and a cancelling      *)
(* thread leave every variable of SendRequest and CallApi in its range.    *)
THEOREM TypesCorrect == ASSUME Sync!CallAssumption PROVE Sync!Spec => []Sync!TypeOK
  BY LocalsInvariant, PTL DEF LocalsInv

(* The callback and the cancel token use the locals of a SendRequest only  *)
(* while it runs, however many attempts are made: interest_flag is taken   *)
(* by one of the two and by the caller, and whoever takes it first signals *)
(* before the caller goes on.                                              *)
THEOREM LocalsAreLive == ASSUME Sync!CallAssumption PROVE Sync!Spec => []Sync!OnlyLiveLocals
  BY LocalsInvariant, PTL DEF LocalsInv

(* A server's answer is the one the callback of the last attempt delivered *)
(* and "cancelled" means that the context was cancelled.                   *)
THEOREM AnswerIsTheLast == ASSUME Sync!CallAssumption PROVE Sync!Spec => []Sync!LastAnswerReturned
  <1>1. Sync!Init => AnswerTrue
    BY DEF Sync!Init, AnswerTrue, Returned, Sync!Status, InToken
  <1>2. LocalsInv /\ AnswerTrue /\ [Sync!Next]_Sync!vars => AnswerTrue'
    BY AnswerStep
  <1>3. LocalsInv /\ AnswerTrue => Sync!LastAnswerReturned
    BY DEF LocalsInv, Sync!TypeOK, AnswerTrue, Returned, Sync!LastAnswerReturned
  <1> QED BY LocalsInvariant, <1>1, <1>2, <1>3, PTL DEF Sync!Spec

(* Both at once: neither the callback nor the cancel token uses the locals *)
(* of an attempt that is over, and what CallApi returns is true.           *)
THEOREM CallIsExact == ASSUME Sync!CallAssumption PROVE Sync!Spec => []Sync!BlockingCallExact
  <1>1. Sync!OnlyLiveLocals /\ Sync!LastAnswerReturned => Sync!BlockingCallExact
    BY DEF Sync!BlockingCallExact
  <1> QED BY <1>1, LocalsAreLive, AnswerIsTheLast, PTL

(* The back-off of a call sums up to at most the time-out of the retry     *)
(* settings, whatever periods the backdown strategy returns, and the call  *)
(* ends only when no retry is left, wanted or allowed.                     *)
THEOREM BudgetKept == ASSUME Sync!CallAssumption PROVE Sync!Spec => []Sync!RetryBudget
  <1>1. Sync!Init => SyncWithinBudget
    BY DEF Sync!CallAssumption, Sync!Init, SyncWithinBudget, Sync!RetryBudget
  <1>2. Sync!TypeOK /\ Sync!TypeOK' /\ SyncWithinBudget /\ [Sync!Next]_Sync!vars
          => SyncWithinBudget'
    BY BudgetStep
  <1>3. SyncWithinBudget => Sync!RetryBudget
    BY DEF SyncWithinBudget
  <1> QED BY TypesCorrect, <1>1, <1>2, <1>3, PTL DEF Sync!Spec

(* From the moment the context is cancelled no attempt reaches Network's   *)
(* Send: MaySend is read under the mutex that CancelOperation holds.       *)
THEOREM CancelledSendsNothing == ASSUME Sync!CallAssumption PROVE Sync!Spec
  => Sync!NoSendAfterCancel
  <1> DEFINE Silent == bCancelled =>
                 \A k \in Sync!Attempts : network[k] = "idle" => network'[k] = "idle"
  <1>1. ASSUME Sync!TypeOK, [Sync!Next]_Sync!vars PROVE Silent
    <2> USE DEF Sync!TypeOK, Sync!Status
    <2>1. CASE Sync!Send
      BY <2>1 DEF Sync!Send, Sync!MaySend
    <2>2. CASE Sync!WaitSignaled
      BY <2>2 DEF Sync!WaitSignaled, Sync!localVars, Sync!contextVars, Sync!historyVars
    <2>3. CASE Sync!WaitTimeout
      BY <2>3 DEF Sync!WaitTimeout, Sync!localVars, Sync!contextVars, Sync!historyVars
    <2>4. CASE Sync!CancelAfterTimeout
      BY <2>4 DEF Sync!CancelAfterTimeout, Sync!SendRequestReturns, Sync!Unlocked
    <2>5. CASE Sync!DropInterest
      BY <2>5 DEF Sync!DropInterest, Sync!contextVars, Sync!historyVars
    <2>6. CASE Sync!CheckCancelled
      BY <2>6 DEF Sync!CheckCancelled, Sync!SendRequestReturns, Sync!Unlocked, Sync!contextVars,
         Sync!historyVars
    <2>7. CASE Sync!Loop
      BY <2>7 DEF Sync!Loop, Sync!localVars, Sync!contextVars, Sync!historyVars
    <2>8. CASE Sync!Sleep
      BY <2>8 DEF Sync!Sleep, Sync!Unlocked, Sync!contextVars, Sync!historyVars
    <2>9. ASSUME NEW k \in Sync!Attempts, Sync!CallbackExchange(k) PROVE Silent
      BY <2>9 DEF Sync!CallbackExchange
    <2>10. ASSUME NEW k \in Sync!Attempts, Sync!CallbackNotify(k) PROVE Silent
      BY <2>10 DEF Sync!CallbackNotify
    <2>11. CASE Sync!CancelBegin
      BY <2>11 DEF Sync!CancelBegin, Sync!TokenInterested, Sync!callVars, Sync!historyVars
    <2>12. CASE Sync!CancelNotify
      BY <2>12 DEF Sync!CancelNotify, Sync!Touch, Sync!callVars
    <2>13. CASE Sync!CancelFinish
      BY <2>13 DEF Sync!CancelFinish, Sync!callVars, Sync!localVars, Sync!historyVars
    <2>14. CASE UNCHANGED Sync!vars
      BY <2>14 DEF Sync!vars
    <2> QED
      BY <1>1, <2>1, <2>2, <2>3, <2>4, <2>5, <2>6, <2>7, <2>8, <2>9, <2>10, <2>11, <2>12, <2>13,
         <2>14
      DEF Sync!Next, Sync!CallerStep, Sync!CancelStep
  <1>2. Sync!TypeOK /\ [Sync!Next]_Sync!vars => [Silent]_Sync!vars
    BY <1>1
  <1> QED BY TypesCorrect, <1>2, PTL DEF Sync!Spec, Sync!NoSendAfterCancel

-----------------------------------------------------------------------------
(* PART THREE: the asynchronous CallApi (AsyncCall) *)

(* The inductive invariant *)

(* The chain answers the application once, as its last deed, and does not  *)
(* sleep for longer than it is given.                                      *)
AsyncWithinBudget ==
    /\ aAccumulated <= RetryTimeout
    /\ aDelivered = {} <=> aPc # "done"
    /\ \A r, s \in aDelivered : r = s
    /\ aPc = "sleep" => aAttempt <= MaxAttempts

(* Only a chain that evaluates, sleeps or sends is inside a failed         *)
(* attempt, and no attempt can be refused twice.                           *)
Nesting ==
    /\ aPc \in {"flying", "done"} => aFrames = 0
    /\ aPc \in {"evaluate", "sleep"} => aFrames <= aAttempt
    /\ aPc = "send" => aFrames < aAttempt

(* Without a failed attempt around it, the request on its way is the one   *)
(* whose token the context holds, until a cancel takes the token.          *)
Registered ==
    aPc = "flying" /\ ~aNested => IF aCancelled THEN aStopping ELSE aToken = aAttempt

(* Somebody has cancelled, or will not be told, when "cancelled" is.       *)
Honest ==
    /\ aStopping => aCancelled
    /\ aResponse = "cancelled" => aCancelled
    /\ Async!CancelledMeansCancelled

(* CallApi hands its hold of the context to the token it returns, which is *)
(* dropped once.                                                           *)
Owned ==
    /\ aHeld => aCaller = "returned" /\ ~aDropped
    /\ aDropped => aCaller = "returned"
    /\ aCaller = "returned" /\ ~aHeld => aDropped \/ aPc = "done"

CallInv == AsyncWithinBudget /\ Nesting /\ Registered /\ Honest /\ Owned

-----------------------------------------------------------------------------
(* The invariant is kept *)

(* Each step of the chain and of the application keeps the types: the      *)
(* number of attempts and of failed Sends inside each other is bounded.    *)
LEMMA AsyncTypeStep ==
    ASSUME Async!AsyncAssumption, Async!TypeOK, AsyncWithinBudget, Nesting, [Async!Next]_Async!vars
    PROVE  Async!TypeOK'
  <1> USE DEF Async!AsyncAssumption, Async!TypeOK, AsyncWithinBudget, Nesting, Async!Status,
     Async!Response, Async!chainVars, Async!ownerVars,
          Async!historyVars
  <1>0. CASE UNCHANGED Async!vars
    BY <1>0 DEF Async!vars
  <1>1. CASE Async!SendAccepted
    <2>1. aNested' \in BOOLEAN
      <3>1. (aFrames > 0) \in BOOLEAN
        BY SMT
      <3>2. aNested' = (aFrames > 0)
        BY <1>1 DEF Async!SendAccepted
      <3> QED BY <3>1, <3>2, Zenon
    <2>2. aFrames' = 0 /\ aToken' \in 0..(MaxAttempts + 1)
      BY <1>1 DEF Async!SendAccepted
    <2> QED BY <1>1, <2>1, <2>2 DEF Async!SendAccepted
  <1>2. CASE Async!SendRefused
    BY <1>2 DEF Async!SendRefused, Async!MaySend, Async!ContextAlive
  <1>3. CASE Async!SendCancelled
    BY <1>3 DEF Async!SendCancelled, Async!MaySend, Async!ContextAlive, Async!Deliver
  <1>4. CASE Async!Answer
    BY <1>4 DEF Async!Answer
  <1>5. CASE Async!Finish
    BY <1>5 DEF Async!Finish, Async!Exhausted, Async!Deliver
  <1>6. CASE Async!Retry
    BY <1>6 DEF Async!Retry, Async!Exhausted, Async!ActualWait
  <1>7. CASE Async!WakeUp
    BY <1>7 DEF Async!WakeUp
  <1>8. CASE Async!Return
    BY <1>8 DEF Async!Return
  <1>9. CASE Async!Cancel
    BY <1>9 DEF Async!Cancel, Async!TokenCancels, Async!Unlocked
  <1>10. CASE Async!DropToken
    <2>1. aDropped' \in BOOLEAN
      BY <1>10, Zenon DEF Async!DropToken
    <2> QED BY <1>10, <2>1 DEF Async!DropToken
  <1> QED
    BY <1>0, <1>1, <1>2, <1>3, <1>4, <1>5, <1>6, <1>7, <1>8, <1>9, <1>10 DEF Async!Next,
       Async!ChainStep

(* Retry adds what is left of the timeout at most, and no step follows the *)
(* callback.                                                               *)
LEMMA WithinBudgetStep ==
    ASSUME Async!AsyncAssumption, Async!TypeOK, AsyncWithinBudget, [Async!Next]_Async!vars
    PROVE  AsyncWithinBudget'
  <1> USE DEF Async!AsyncAssumption, Async!TypeOK, AsyncWithinBudget, Async!Status, Async!Response,
          Async!chainVars, Async!ownerVars, Async!historyVars
  <1>0. CASE UNCHANGED Async!vars
    BY <1>0 DEF Async!vars
  <1>1. CASE Async!SendAccepted
    BY <1>1 DEF Async!SendAccepted, Async!MaySend, Async!ContextAlive
  <1>2. CASE Async!SendRefused
    BY <1>2 DEF Async!SendRefused, Async!MaySend, Async!ContextAlive
  <1>3. CASE Async!SendCancelled
    BY <1>3 DEF Async!SendCancelled, Async!MaySend, Async!ContextAlive, Async!Deliver
  <1>4. CASE Async!Answer
    BY <1>4 DEF Async!Answer
  <1>5. CASE Async!Finish
    BY <1>5 DEF Async!Finish, Async!Exhausted, Async!Deliver
  <1>6. CASE Async!Retry
    BY <1>6 DEF Async!Retry, Async!Exhausted, Async!ActualWait
  <1>7. CASE Async!WakeUp
    BY <1>7 DEF Async!WakeUp
  <1>8. CASE Async!Return
    BY <1>8 DEF Async!Return
  <1>9. CASE Async!Cancel
    BY <1>9 DEF Async!Cancel, Async!TokenCancels, Async!Unlocked
  <1>10. CASE Async!DropToken
    BY <1>10 DEF Async!DropToken
  <1> QED
    BY <1>0, <1>1, <1>2, <1>3, <1>4, <1>5, <1>6, <1>7, <1>8, <1>9, <1>10 DEF Async!Next,
       Async!ChainStep

(* Every refused Send was an attempt of its own (SendRefused, WakeUp).     *)
LEMMA NestingStep ==
    ASSUME Async!AsyncAssumption, Async!TypeOK, Nesting, [Async!Next]_Async!vars
    PROVE  Nesting'
  <1> USE DEF Async!AsyncAssumption, Async!TypeOK, Nesting, Async!Status, Async!Response,
          Async!chainVars, Async!ownerVars, Async!historyVars
  <1>0. CASE UNCHANGED Async!vars
    BY <1>0 DEF Async!vars
  <1>1. CASE Async!SendAccepted
    BY <1>1 DEF Async!SendAccepted, Async!MaySend, Async!ContextAlive
  <1>2. CASE Async!SendRefused
    BY <1>2 DEF Async!SendRefused, Async!MaySend, Async!ContextAlive
  <1>3. CASE Async!SendCancelled
    BY <1>3 DEF Async!SendCancelled, Async!MaySend, Async!ContextAlive, Async!Deliver
  <1>4. CASE Async!Answer
    BY <1>4 DEF Async!Answer
  <1>5. CASE Async!Finish
    BY <1>5 DEF Async!Finish, Async!Exhausted, Async!Deliver
  <1>6. CASE Async!Retry
    BY <1>6 DEF Async!Retry, Async!Exhausted, Async!ActualWait
  <1>7. CASE Async!WakeUp
    BY <1>7 DEF Async!WakeUp
  <1>8. CASE Async!Return
    BY <1>8 DEF Async!Return
  <1>9. CASE Async!Cancel
    BY <1>9 DEF Async!Cancel, Async!TokenCancels, Async!Unlocked
  <1>10. CASE Async!DropToken
    BY <1>10 DEF Async!DropToken
  <1> QED
    BY <1>0, <1>1, <1>2, <1>3, <1>4, <1>5, <1>6, <1>7, <1>8, <1>9, <1>10 DEF Async!Next,
       Async!ChainStep

(* ExecuteOrCancelled stores the token before it gives up the mutex that   *)
(* Cancel needs (SendAccepted, Cancel).                                    *)
LEMMA RegisteredStep ==
    ASSUME Async!AsyncAssumption, Async!TypeOK, Nesting, Registered, [Async!Next]_Async!vars
    PROVE  Registered'
  <1> USE DEF Async!AsyncAssumption, Async!TypeOK, Nesting, Registered, Async!Status,
     Async!Response,
          Async!chainVars, Async!ownerVars, Async!historyVars
  <1>0. CASE UNCHANGED Async!vars
    BY <1>0 DEF Async!vars
  <1>1. CASE Async!SendAccepted
    <2>1. aNested' <=> aFrames > 0
      BY <1>1, Zenon DEF Async!SendAccepted
    <2> QED BY <1>1, <2>1 DEF Async!SendAccepted, Async!MaySend, Async!ContextAlive
  <1>2. CASE Async!SendRefused
    BY <1>2 DEF Async!SendRefused, Async!MaySend, Async!ContextAlive
  <1>3. CASE Async!SendCancelled
    BY <1>3 DEF Async!SendCancelled, Async!MaySend, Async!ContextAlive, Async!Deliver
  <1>4. CASE Async!Answer
    BY <1>4 DEF Async!Answer
  <1>5. CASE Async!Finish
    BY <1>5 DEF Async!Finish, Async!Exhausted, Async!Deliver
  <1>6. CASE Async!Retry
    BY <1>6 DEF Async!Retry, Async!Exhausted, Async!ActualWait
  <1>7. CASE Async!WakeUp
    BY <1>7 DEF Async!WakeUp
  <1>8. CASE Async!Return
    BY <1>8 DEF Async!Return
  <1>9. CASE Async!Cancel
    BY <1>9 DEF Async!Cancel, Async!TokenCancels, Async!Unlocked
  <1>10. CASE Async!DropToken
    BY <1>10 DEF Async!DropToken
  <1> QED
    BY <1>0, <1>1, <1>2, <1>3, <1>4, <1>5, <1>6, <1>7, <1>8, <1>9, <1>10 DEF Async!Next,
       Async!ChainStep

(* The network is asked to cancel by Cancel only, and an expired context   *)
(* has lost its token (SendCancelled, Answer, Finish).                     *)
LEMMA HonestStep ==
    ASSUME Async!AsyncAssumption, Async!TypeOK, Nesting, Honest, Owned, [Async!Next]_Async!vars
    PROVE  Honest'
  <1> USE DEF Async!AsyncAssumption, Async!TypeOK, Nesting, Honest, Owned,
     Async!CancelledMeansCancelled, Async!Status, Async!Response,
          Async!chainVars, Async!ownerVars, Async!historyVars
  <1>0. CASE UNCHANGED Async!vars
    BY <1>0 DEF Async!vars
  <1>1. CASE Async!SendAccepted
    BY <1>1 DEF Async!SendAccepted, Async!MaySend, Async!ContextAlive
  <1>2. CASE Async!SendRefused
    BY <1>2 DEF Async!SendRefused, Async!MaySend, Async!ContextAlive
  <1>3. CASE Async!SendCancelled
    BY <1>3 DEF Async!SendCancelled, Async!MaySend, Async!ContextAlive, Async!Deliver
  <1>4. CASE Async!Answer
    BY <1>4 DEF Async!Answer
  <1>5. CASE Async!Finish
    BY <1>5 DEF Async!Finish, Async!Exhausted, Async!Deliver
  <1>6. CASE Async!Retry
    BY <1>6 DEF Async!Retry, Async!Exhausted, Async!ActualWait
  <1>7. CASE Async!WakeUp
    BY <1>7 DEF Async!WakeUp
  <1>8. CASE Async!Return
    BY <1>8 DEF Async!Return
  <1>9. CASE Async!Cancel
    BY <1>9 DEF Async!Cancel, Async!TokenCancels, Async!Unlocked
  <1>10. CASE Async!DropToken
    BY <1>10 DEF Async!DropToken
  <1> QED
    BY <1>0, <1>1, <1>2, <1>3, <1>4, <1>5, <1>6, <1>7, <1>8, <1>9, <1>10 DEF Async!Next,
       Async!ChainStep

(* The token is returned once, and dropped by the application (Return,     *)
(* DropToken).                                                             *)
LEMMA OwnedStep ==
    ASSUME Async!AsyncAssumption, Async!TypeOK, Owned, [Async!Next]_Async!vars
    PROVE  Owned'
  <1> USE DEF Async!AsyncAssumption, Async!TypeOK, Owned, Async!Status, Async!Response,
          Async!chainVars, Async!ownerVars, Async!historyVars
  <1>0. CASE UNCHANGED Async!vars
    BY <1>0 DEF Async!vars
  <1>1. CASE Async!SendAccepted
    BY <1>1 DEF Async!SendAccepted, Async!MaySend, Async!ContextAlive
  <1>2. CASE Async!SendRefused
    BY <1>2 DEF Async!SendRefused, Async!MaySend, Async!ContextAlive
  <1>3. CASE Async!SendCancelled
    BY <1>3 DEF Async!SendCancelled, Async!MaySend, Async!ContextAlive, Async!Deliver
  <1>4. CASE Async!Answer
    BY <1>4 DEF Async!Answer
  <1>5. CASE Async!Finish
    BY <1>5 DEF Async!Finish, Async!Exhausted, Async!Deliver
  <1>6. CASE Async!Retry
    BY <1>6 DEF Async!Retry, Async!Exhausted, Async!ActualWait
  <1>7. CASE Async!WakeUp
    BY <1>7 DEF Async!WakeUp
  <1>8. CASE Async!Return
    BY <1>8 DEF Async!Return
  <1>9. CASE Async!Cancel
    BY <1>9 DEF Async!Cancel, Async!TokenCancels, Async!Unlocked
  <1>10. CASE Async!DropToken
    <2>1. aDropped' <=> aPc # "done"
      BY <1>10, Zenon DEF Async!DropToken
    <2> QED BY <1>10, <2>1 DEF Async!DropToken
  <1> QED
    BY <1>0, <1>1, <1>2, <1>3, <1>4, <1>5, <1>6, <1>7, <1>8, <1>9, <1>10 DEF Async!Next,
       Async!ChainStep

-----------------------------------------------------------------------------
(* The theorems *)

(* No step of CallApi's chain, of the network or of the application breaks *)
(* the types or the invariant.                                             *)
THEOREM CallInductive == ASSUME Async!AsyncAssumption PROVE Async!Spec
  => [](Async!TypeOK /\ CallInv)
  <1>1. Async!Init => Async!TypeOK /\ CallInv
    <2> SUFFICES ASSUME Async!Init PROVE Async!TypeOK /\ CallInv
      OBVIOUS
    <2>1. Async!TypeOK
      <3>1. {aStopping, aHeld, aCancelled, aNested, aDropped} \subseteq BOOLEAN
        BY Zenon DEF Async!Init
      <3>2. /\ aFrames \in 0..(MaxAttempts + 1) /\ aAttempt \in 1..(MaxAttempts + 1)
            /\ aToken \in 0..(MaxAttempts + 1) /\ aAccumulated \in Nat
        BY DEF Async!AsyncAssumption, Async!Init
      <3> QED BY <3>1, <3>2 DEF Async!Init, Async!TypeOK, Async!Response
    <2>2. CallInv
      BY DEF Async!AsyncAssumption, Async!Init, CallInv, AsyncWithinBudget, Nesting, Registered,
         Honest, Owned,
         Async!CancelledMeansCancelled
    <2> QED BY <2>1, <2>2
  <1>2. Async!TypeOK /\ CallInv /\ [Async!Next]_Async!vars => (Async!TypeOK /\ CallInv)'
    BY AsyncTypeStep, WithinBudgetStep, NestingStep, RegisteredStep, HonestStep, OwnedStep
       DEF CallInv
  <1> QED BY <1>1, <1>2, PTL DEF Async!Spec

(* The retries wait no longer in all than RetrySettings' timeout, and the  *)
(* application's callback sees one response, which ends the chain.         *)
THEOREM AsyncBudgetKept == ASSUME Async!AsyncAssumption PROVE Async!Spec => []Async!RetryBudget
  <1>1. Async!TypeOK /\ CallInv => Async!RetryBudget
    BY DEF Async!TypeOK, CallInv, AsyncWithinBudget, Async!RetryBudget
  <1> QED BY <1>1, CallInductive, PTL

(* A cancel reaches the request on its way, unless its token was lost to a *)
(* failed attempt, and nobody is told of a cancel that was not.            *)
THEOREM AsyncCancelIsExact == ASSUME Async!AsyncAssumption PROVE Async!Spec
  => []Async!AsyncCancelExact
  <1>1. Async!TypeOK /\ CallInv => Async!AsyncCancelExact
    BY DEF CallInv, Registered, Honest, Async!AsyncCancelExact, Async!CancelPropagates,
       Async!CancelledMeansCancelled
  <1> QED BY <1>1, CallInductive, PTL

(* No attempt follows a cancel, whether it comes during the back-off or    *)
(* between the answer and the retry (ExecuteOrCancelled).                  *)
THEOREM AsyncCancelledSendsNothing == ASSUME Async!AsyncAssumption PROVE Async!Spec
  => Async!NoSendAfterCancel
  <1> DEFINE Silent == aCancelled => ~(aPc # "flying" /\ aPc' = "flying")
  <1>1. ASSUME [Async!Next]_Async!vars PROVE Silent
    <2> USE DEF Silent
    <2>0. CASE UNCHANGED Async!vars
      BY <2>0 DEF Async!vars, Async!chainVars, Async!ownerVars, Async!Deliver
    <2>1. CASE Async!SendAccepted
      BY <2>1 DEF Async!SendAccepted, Async!MaySend, Async!ContextAlive, Async!chainVars,
         Async!ownerVars, Async!Deliver
    <2>2. CASE Async!SendRefused
      BY <2>2 DEF Async!SendRefused, Async!MaySend, Async!ContextAlive, Async!chainVars,
         Async!ownerVars, Async!Deliver
    <2>3. CASE Async!SendCancelled
      BY <2>3 DEF Async!SendCancelled, Async!MaySend, Async!ContextAlive, Async!Deliver,
         Async!chainVars, Async!ownerVars, Async!Deliver
    <2>4. CASE Async!Answer
      BY <2>4 DEF Async!Answer, Async!chainVars, Async!ownerVars, Async!Deliver
    <2>5. CASE Async!Finish
      BY <2>5 DEF Async!Finish, Async!Exhausted, Async!Deliver, Async!chainVars,
         Async!ownerVars, Async!Deliver
    <2>6. CASE Async!Retry
      BY <2>6 DEF Async!Retry, Async!Exhausted, Async!ActualWait, Async!chainVars,
         Async!ownerVars, Async!Deliver
    <2>7. CASE Async!WakeUp
      BY <2>7 DEF Async!WakeUp, Async!chainVars, Async!ownerVars, Async!Deliver
    <2>8. CASE Async!Return
      BY <2>8 DEF Async!Return, Async!chainVars, Async!ownerVars, Async!Deliver
    <2>9. CASE Async!Cancel
      BY <2>9 DEF Async!Cancel, Async!TokenCancels, Async!Unlocked, Async!chainVars,
         Async!ownerVars, Async!Deliver
    <2>10. CASE Async!DropToken
      BY <2>10 DEF Async!DropToken, Async!chainVars, Async!ownerVars, Async!Deliver
    <2> QED
      BY <2>0, <1>1, <2>1, <2>2, <2>3, <2>4, <2>5, <2>6, <2>7, <2>8, <2>9, <2>10 DEF Async!Next,
         Async!ChainStep
  <1> QED BY <1>1, PTL DEF Async!Spec, Async!NoSendAfterCancel

-----------------------------------------------------------------------------
(* PART FOUR: the instance that TLC checks *)

(* A behaviour of the instance is one of the client, of the pool, and of   *)
(* either call, while the others stand still.                              *)
THEOREM RunOfAll == MCSpec => ClientSpec /\ Pool!Spec /\ Sync!Spec /\ Async!Spec
<1>1. MCInit => ClientInit /\ Pool!Init /\ Sync!Init /\ Async!Init
  BY DEF MCInit
<1>2. [MCNext]_all => [ClientNext]_allVars
  BY DEF MCNext, all, InClient, InPool, InBlocking, InAsync
<1>3. [MCNext]_all => [Pool!Next]_Pool!vars
  <2>1. UNCHANGED poolVars => UNCHANGED Pool!vars
    BY DEF poolVars, Pool!vars
  <2>. QED
    BY <2>1 DEF MCNext, all, InClient, InPool, InBlocking, InAsync
<1>4. [MCNext]_all => [Sync!Next]_Sync!vars
  <2>1. UNCHANGED blockingVars => UNCHANGED Sync!vars
    BY DEF blockingVars, Sync!vars, Sync!callVars, Sync!localVars, Sync!contextVars,
       Sync!historyVars
  <2>. QED
    BY <2>1 DEF MCNext, all, InClient, InPool, InBlocking, InAsync
<1>5. [MCNext]_all => [Async!Next]_Async!vars
  <2>1. UNCHANGED asyncVars => UNCHANGED Async!vars
    BY DEF asyncVars, Async!vars, Async!chainVars, Async!ownerVars, Async!historyVars
  <2>. QED
    BY <2>1 DEF MCNext, all, InClient, InPool, InBlocking, InAsync
<1>. QED
  BY <1>1, <1>2, <1>3, <1>4, <1>5, PTL DEF MCSpec, ClientSpec, Pool!Spec, Sync!Spec, Async!Spec

(* Nothing leaks, no wakeup is lost, and both calls keep their budget.     *)
THEOREM RunConsistent == MCSpec => []Consistent
<1>1. Pool!PoolAssumption /\ Sync!CallAssumption /\ Async!AsyncAssumption
  BY ClientConstants
<1>2. MCSpec => [](ClientTypeOK /\ NoLeak)
  BY RunOfAll, NothingLeaks, PTL
<1>3. MCSpec => []Pool!TypeOK /\ []Pool!WorkConserving
  BY <1>1, RunOfAll, NoWakeupLost, PoolTypesHold, PTL
<1>4. MCSpec => []Sync!TypeOK /\ []Sync!RetryBudget
  BY <1>1, RunOfAll, TypesCorrect, BudgetKept, PTL
<1>5. MCSpec => []Async!TypeOK /\ []Async!RetryBudget
  BY <1>1, RunOfAll, CallInductive, AsyncBudgetKept, PTL
<1>6. /\ ClientTypeOK /\ NoLeak
      /\ Pool!TypeOK /\ Pool!WorkConserving
      /\ Sync!TypeOK /\ Sync!RetryBudget
      /\ Async!TypeOK /\ Async!RetryBudget
      => Consistent
  BY DEF Consistent
<1>. QED
  BY <1>2, <1>3, <1>4, <1>5, <1>6, PTL

(* The locals and the answer of the blocking CallApi, of the instance.     *)
THEOREM RunBlockingExact == MCSpec => []BlockingCallExact
<1>1. MCSpec => []Sync!BlockingCallExact
  BY ClientConstants, RunOfAll, CallIsExact, PTL
<1>. QED
  BY <1>1, PTL DEF BlockingCallExact

(* The cancels of the asynchronous CallApi, of the instance.               *)
THEOREM RunAsyncExact == MCSpec => []AsyncCancelExact
<1>1. MCSpec => []Async!AsyncCancelExact
  BY ClientConstants, RunOfAll, AsyncCancelIsExact, PTL
<1>. QED
  BY <1>1, PTL DEF AsyncCancelExact

(* No attempt of either call follows its cancel, in the instance.          *)
THEOREM RunNoneSends == MCSpec => NoneSendsAfterCancel
<1>1. MCSpec => Sync!NoSendAfterCancel /\ Async!NoSendAfterCancel
  BY ClientConstants, RunOfAll, CancelledSendsNothing, AsyncCancelledSendsNothing, PTL
<1>. QED
  BY <1>1, PTL DEF NoneSendsAfterCancel
=============================================================================
