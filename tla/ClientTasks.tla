----------------------------- MODULE ClientTasks -----------------------------
(***************************************************************************)
(* A layer or catalog client and the tasks it runs: AddTask of the read    *)
(* service, client::PendingRequests, and the client's destructor, over the *)
(* TaskContext of each request.                                            *)
(*                                                                         *)
(* User threads issue requests, cancel them and destroy the client.  The   *)
(* workers of the task scheduler run the requests; without a scheduler     *)
(* AddTask runs them on the caller's thread.  The scheduler is used by     *)
(* what TaskQueue promises, which ThreadPool implements.                   *)
(***************************************************************************)
EXTENDS TaskContext

CONSTANTS
    Users,          \* threads of the application
    Workers         \* threads of the task scheduler

ASSUME ClientAssumption ==
    Threads = Users \cup Workers /\ Users \cap Workers = {}

VARIABLES
    added,          \* tasks that were created by AddTask
    pending,        \* pending_requests_->task_contexts_
    queue,          \* the scheduler's queue
    open,           \* the scheduler has not been destroyed
    scheduler,      \* settings.task_scheduler is set
    cpc,            \* what a thread does outside TaskContext
    adding,         \* the task a thread has inserted and not scheduled yet
    cur,            \* the task whose closure a thread runs
    todo,           \* the contexts a thread still has to visit
    spawned,        \* history: tasks added by a task that runs (PrefetchTiles)
    gaveUp          \* history: tasks the destructor's wait for which timed out

clientVars == <<added, pending, queue, open, scheduler, cpc, adding, cur, todo, spawned, gaveUp>>
allVars == <<vars, clientVars>>

(* dtor... : inside the destructor; Execute and Remove are the two         *)
(* statements of the closure that AddTask schedules.                       *)
Dtor == {"dtorCancel", "dtorMove", "dtorWait", "dtorBlocked"}
ClientPC == {"user", "cancelAll", "destroyed", "join", "end"} \cup Dtor
            \cup {"pull", "execute", "executing", "remove", "exited"}

ClientTypeOK ==
    /\ TypeOK
    /\ added \subseteq Tasks /\ pending \subseteq added
    /\ queue \in Seq(added) /\ open \in BOOLEAN
    /\ cpc \in [Threads -> ClientPC]
    /\ adding \in [Threads -> added \cup {NoTask}]
    /\ cur \in [Threads -> added \cup {NoTask}]
    /\ todo \in [Threads -> SUBSET added]
    /\ scheduler \in BOOLEAN /\ {spawned, gaveUp} \subseteq SUBSET added

ClientInit ==
    /\ Init
    /\ added = {} /\ pending = {}
    /\ queue = <<>> /\ open = TRUE
    /\ scheduler \in BOOLEAN /\ spawned = {} /\ gaveUp = {}
    /\ cpc = [th \in Threads |-> IF th \in Users THEN "user" ELSE "pull"]
    /\ adding = [th \in Threads |-> NoTask]
    /\ cur = [th \in Threads |-> NoTask]
    /\ todo = [th \in Threads |-> {}]

CGoto(th, next) == cpc' = [cpc EXCEPT ![th] = next]

(* The destructor runs, or has run. *)
Dying == \E u \in Users : cpc[u] \in Dtor \cup {"destroyed", "join", "end"}

-----------------------------------------------------------------------------
(* AddTask.  The application calls it on a client it is not destroying;    *)
(* the function of a task calls it with the PendingRequests it captured.   *)

MayAdd(th, t) ==
    /\ adding[th] = NoTask
    /\ t \notin added
    /\ \/ th \in Users /\ cpc[th] = "user" /\ ~Dying
       \/ th \in Workers /\ pc[th] = "body" /\ arg[th] \notin spawned

Insert(th, t) ==
    /\ MayAdd(th, t)
    /\ added' = added \cup {t}
    /\ pending' = pending \cup {t}
    /\ spawned' = IF th \in Workers THEN spawned \cup {t} ELSE spawned
    /\ adding' = [adding EXCEPT ![th] = t]
    /\ UNCHANGED <<vars, queue, open, scheduler, cpc, cur, todo, gaveUp>>

(* ExecuteOrSchedule *)
Schedule(th) ==
    /\ adding[th] # NoTask
    /\ adding' = [adding EXCEPT ![th] = NoTask]
    /\ \/ /\ scheduler
          /\ queue' = IF open THEN Append(queue, adding[th]) ELSE queue
          /\ UNCHANGED <<cpc, cur>>
       \/ /\ ~scheduler
          /\ cur' = [cur EXCEPT ![th] = adding[th]]
          /\ CGoto(th, "execute")
          /\ UNCHANGED queue
    /\ UNCHANGED <<vars, added, pending, open, todo, scheduler, spawned, gaveUp>>

-----------------------------------------------------------------------------
(* The scheduled closure: context.Execute(); pending_requests->Remove().   *)

Pull(w) ==
    /\ cpc[w] = "pull"
    /\ \/ /\ ~open
          /\ CGoto(w, "exited")
          /\ UNCHANGED <<queue, cur>>
       \/ /\ open /\ queue # <<>>
          /\ cur' = [cur EXCEPT ![w] = Head(queue)]
          /\ queue' = Tail(queue)
          /\ CGoto(w, "execute")
    /\ UNCHANGED <<vars, added, pending, open, adding, todo, scheduler, spawned, gaveUp>>

CallExecute(th) ==
    /\ cpc[th] = "execute"
    /\ Call(th, cur[th], "cas")
    /\ CGoto(th, "executing")
    /\ UNCHANGED <<added, pending, queue, open, adding, cur, todo, scheduler, spawned, gaveUp>>

ExecuteReturns(th) ==
    /\ cpc[th] = "executing"
    /\ Return(th)
    /\ CGoto(th, "remove")
    /\ UNCHANGED <<added, pending, queue, open, adding, cur, todo, scheduler, spawned, gaveUp>>

Remove_Forgotten(th) ==
    /\ cpc[th] = "remove"
    /\ cur' = [cur EXCEPT ![th] = NoTask]
    /\ CGoto(th, IF th \in Workers THEN "pull" ELSE "user")
    /\ UNCHANGED <<vars, added, pending, queue, open, adding, todo, scheduler, spawned, gaveUp>>
Remove(th) ==
    /\ cpc[th] = "remove"
    /\ pending' = pending \ {cur[th]}
    /\ cur' = [cur EXCEPT ![th] = NoTask]
    /\ CGoto(th, IF th \in Workers THEN "pull" ELSE "user")
    /\ UNCHANGED <<vars, added, queue, open, adding, todo, scheduler, spawned, gaveUp>>

-----------------------------------------------------------------------------
(* PendingRequests::CancelAll, from CancelPendingRequests and, first thing, *)
(* from the destructor.                                                     *)

CancelPendingRequests(u) ==
    /\ cpc[u] = "user" /\ adding[u] = NoTask /\ ~Dying
    /\ todo' = [todo EXCEPT ![u] = pending]
    /\ CGoto(u, "cancelAll")
    /\ UNCHANGED <<vars, added, pending, queue, open, adding, cur, scheduler, spawned, gaveUp>>

(* A client is destroyed when no call into it is in progress. *)
Destroy(u) ==
    /\ ~Dying
    /\ \A v \in Users : cpc[v] = "user" /\ adding[v] = NoTask
    /\ todo' = [todo EXCEPT ![u] = pending]
    /\ CGoto(u, "dtorCancel")
    /\ UNCHANGED <<vars, added, pending, queue, open, adding, cur, scheduler, spawned, gaveUp>>

CancelOne(u) ==
    /\ cpc[u] \in {"cancelAll", "dtorCancel"}
    /\ \E t \in todo[u] :
          /\ TokenCancel(t)
          /\ todo' = [todo EXCEPT ![u] = @ \ {t}]
    /\ UNCHANGED <<added, pending, queue, open, cpc, adding, cur, scheduler, spawned, gaveUp>>

CancelAllEnds(u) ==
    /\ cpc[u] \in {"cancelAll", "dtorCancel"}
    /\ todo[u] = {}
    /\ CGoto(u, IF cpc[u] = "cancelAll" THEN "user" ELSE "dtorMove")
    /\ UNCHANGED <<vars, added, pending, queue, open, adding, cur, todo, scheduler, spawned, gaveUp>>

-----------------------------------------------------------------------------
(* The rest of CancelAllAndWait: the set is moved out, then every context  *)
(* in it is waited for; a wait that times out is only logged.              *)

MoveContexts(u) ==
    /\ cpc[u] = "dtorMove"
    /\ todo' = [todo EXCEPT ![u] = pending]
    /\ pending' = {}
    /\ CGoto(u, "dtorWait")
    /\ UNCHANGED <<vars, added, queue, open, adding, cur, scheduler, spawned, gaveUp>>

BlockOnOne(u) ==
    /\ cpc[u] = "dtorWait"
    /\ \E t \in todo[u] : Call(u, t, "load")
    /\ CGoto(u, "dtorBlocked")
    /\ UNCHANGED <<added, pending, queue, open, adding, cur, todo, scheduler, spawned, gaveUp>>

BlockReturns(u) ==
    /\ cpc[u] = "dtorBlocked"
    /\ todo' = [todo EXCEPT ![u] = @ \ {arg[u]}]
    /\ gaveUp' = IF ret[u] = "false" THEN gaveUp \cup {arg[u]} ELSE gaveUp
    /\ Return(u)
    /\ CGoto(u, "dtorWait")
    /\ UNCHANGED <<added, pending, queue, open, adding, cur, scheduler, spawned>>

DestructorEnds_NoWait(u) ==
    /\ cpc[u] = "dtorWait"
    /\ CGoto(u, "destroyed")
    /\ UNCHANGED <<vars, added, pending, queue, open, adding, cur, todo, scheduler, spawned, gaveUp>>
DestructorEnds(u) ==
    /\ cpc[u] = "dtorWait"
    /\ todo[u] = {}
    /\ CGoto(u, "destroyed")
    /\ UNCHANGED <<vars, added, pending, queue, open, adding, cur, todo, scheduler, spawned, gaveUp>>

(* The application drops its own reference to the scheduler: what is still *)
(* queued is dropped, the workers are joined.                              *)
DestroyScheduler(u) ==
    /\ cpc[u] = "destroyed"
    /\ open' = FALSE
    /\ queue' = <<>>
    /\ CGoto(u, "join")
    /\ UNCHANGED <<vars, added, pending, adding, cur, todo, scheduler, spawned, gaveUp>>

JoinWorkers(u) ==
    /\ cpc[u] = "join"
    /\ \A w \in Workers : cpc[w] = "exited"
    /\ CGoto(u, "end")
    /\ UNCHANGED <<vars, added, pending, queue, open, adding, cur, todo, scheduler, spawned, gaveUp>>

-----------------------------------------------------------------------------

(* The steps inside Execute and BlockingCancel are those of TaskContext. *)
TaskStep(th) == adding[th] = NoTask /\ Step(th) /\ UNCHANGED clientVars

TaskTimeout(th) ==
    /\ SubTimesOut(th) \/ WaitTimesOut(th)
    /\ adding[th] = NoTask
    /\ UNCHANGED clientVars

NetworkAnswers(t) == SubCompletes(t) /\ UNCHANGED clientVars

(* The application uses the token that AddTask returned. *)
UserCancels(t) == t \in added /\ TokenCancel(t) /\ UNCHANGED clientVars

WorkerStep(th) ==
    \/ Schedule(th) \/ Pull(th) \/ CallExecute(th) \/ ExecuteReturns(th) \/ Remove(th)

UserStep(u) ==
    \/ CancelOne(u) \/ CancelAllEnds(u) \/ MoveContexts(u) \/ BlockOnOne(u)
    \/ BlockReturns(u) \/ DestructorEnds(u) \/ DestroyScheduler(u) \/ JoinWorkers(u)

ClientNext ==
    \/ \E th \in Threads, t \in Tasks : Insert(th, t)
    \/ \E th \in Threads : WorkerStep(th) \/ TaskStep(th) \/ TaskTimeout(th)
    \/ \E u \in Users : UserStep(u) \/ CancelPendingRequests(u) \/ Destroy(u)
    \/ \E t \in Tasks : NetworkAnswers(t) \/ UserCancels(t)

ClientSpec == ClientInit /\ [][ClientNext]_allVars

(* What a thread inside the library does next. *)
Run(th) == TaskStep(th) \/ WorkerStep(th) \/ (th \in Users /\ UserStep(th))

(* A thread inside the library is scheduled.  Nothing is assumed about the *)
(* network, the timeouts or the application.                               *)
ThreadFairness == \A th \in Threads : WF_allVars(Run(th))

(* A request is answered or times out (retry_settings.timeout), and after  *)
(* a bounded number of requests (max_attempts) the function returns.       *)
NetworkFairness ==
    \A th \in Threads :
        /\ WF_allVars(SubTimesOut(th) /\ UNCHANGED clientVars)
        /\ SF_allVars(FunctionReturns(th) /\ TaskStep(th))

ClientFairSpec == ClientSpec /\ ThreadFairness

-----------------------------------------------------------------------------
(* Properties *)

(* Once the client's destructor has returned, the callback of every        *)
(* request has been invoked, and nobody holds a function or a callback:    *)
(* no callback runs later, and the last reference to the scheduler is not  *)
(* dropped on one of its own workers, which would have to join itself.     *)
(* Exempt are a task whose wait timed out (PendingRequests.cpp:56) and one *)
(* that a running task added, which CancelAllAndWait may miss.             *)
QuietAfterDestructor ==
    (\E u \in Users : cpc[u] \in {"destroyed", "join", "end"}) =>
        \A t \in added \ (spawned \cup gaveUp) :
            /\ t \notin NoCallback => delivered[t] # <<>>
            /\ ~func[t] /\ ~cb[t]
            /\ \A th \in Threads : arg[th] = t => ~fn[th] /\ ~ucb[th]

(* PendingRequests holds on to no finished request: what is in it is about *)
(* to be scheduled, queued, or in the hands of a thread that will remove it. *)
NoLeak ==
    open => \A t \in pending :
        \/ \E i \in 1..Len(queue) : queue[i] = t
        \/ \E th \in Threads : adding[th] = t \/ cur[th] = t

(* The destructors of the client and then of the scheduler return even if  *)
(* the network never answers and nothing times out, unless a task that     *)
(* CancelAllAndWait has missed keeps a worker busy.                        *)
Destroyed ==
    \/ \A u \in Users : cpc[u] \notin Dtor \cup {"destroyed", "join"}
    \/ \E t \in spawned : ~cancelled[t]
DestructorReturns == []<>Destroyed

(* If the network answers or times out, every request gets its answer:     *)
(* AddTask leads to the callback, whatever is cancelled or destroyed in    *)
(* the meantime, unless the destructor gave up waiting for it: time and    *)
(* again, no request that was added waits for its answer.                  *)
EveryRequestAnswered ==
    NetworkFairness =>
        []<>(\A t \in added \ NoCallback : delivered[t] # <<>> \/ t \in spawned \cup gaveUp)
=============================================================================
