-------------------------- MODULE ClientTasksProofs --------------------------
(***************************************************************************)
(* What a task promises, and a client of its tasks, proved for any number  *)
(* of user threads, workers and requests.                                  *)
(*                                                                         *)
(* The tasks: one callback each, release before a successful               *)
(* BlockingCancel returns, and cancels that hide the function's result.    *)
(*                                                                         *)
(* The client: it uses every TaskContext as TaskContext allows, so that    *)
(* what is proved first holds of its requests; PendingRequests forgets     *)
(* what is finished; and nothing of a request is left when the destructor  *)
(* has returned.                                                           *)
(***************************************************************************)
EXTENDS ClientTasks, TLAPS

-----------------------------------------------------------------------------
(* PART ONE: the tasks, whoever their threads are *)

(* An action of a thread inside a call has a task to work on. *)
LEMMA Busy ==
    ASSUME TypeOK, NEW th \in Threads, pc[th] # "idle"
    PROVE  arg[th] \in Tasks
  BY DEF TypeOK, Types

(* The labels of a call, spelled out for the provers.                      *)
LEMMA Labels ==
    /\ PC = {"idle", "cas", "move", "start", "body", "sub", "recheck", "deliver",
             "release", "notify", "store", "load", "cancel", "clear", "wait",
             "returned"}
    /\ Undecided \cup Decided \subseteq PC
  BY DEF PC, Undecided, Decided, Blocking

-----------------------------------------------------------------------------
(* Type correctness *)

(* CancelOperation keeps the types of the CancellationContext.             *)
LEMMA CancelTypes ==
    ASSUME TypeOK, NEW t \in Tasks, NEW s \in Sub, CancelOperation(t, s)
    PROVE  /\ cancelled' \in [Tasks -> BOOLEAN]
           /\ sub' \in [Tasks -> Sub]
           /\ cancelPhase' \in [Tasks -> {"none", "pending", "running", "late"}]
  <1>1. Phase(t) \in {"none", "pending", "running", "late"}
    BY DEF Phase
  <1>2. /\ cancelled \in [Tasks -> BOOLEAN]
        /\ sub \in [Tasks -> Sub]
        /\ cancelPhase \in [Tasks -> {"none", "pending", "running", "late"}]
    BY DEF TypeOK, Types
  <1>3. CASE cancelled[t]
    BY <1>2, <1>3 DEF CancelOperation, contextVars
  <1>4. CASE ~cancelled[t]
    <2>1. sub' \in [Tasks -> Sub]
      BY <1>2, <1>4 DEF CancelOperation
    <2> QED BY <1>1, <1>2, <1>4, <2>1 DEF CancelOperation
  <1> QED BY <1>3, <1>4

(* Each step of Execute, BlockingCancel, a task function or a cancel token *)
(* keeps the types.                                                        *)
LEMMA TypeStep == TypeOK /\ [Next]_vars => TypeOK'
  <1> SUFFICES ASSUME TypeOK, [Next]_vars PROVE TypeOK'
    OBVIOUS
  <1> USE DEF TypeOK, Types
  <1>0. CASE UNCHANGED vars
    BY <1>0 DEF vars, contextVars, implVars, localVars, historyVars
  <1>1. ASSUME NEW th \in Threads, NEW t \in Tasks,
               Call(th, t, "cas") \/ Call(th, t, "load")
        PROVE  TypeOK'
    <2>1. PICK l \in {"cas", "load"} : Call(th, t, l)
      BY <1>1
    <2>2. l \in PC /\ l # "idle" /\ t # NoTask
      BY Labels, TaskAssumption
    <2> QED BY <2>1, <2>2 DEF Call, Goto, contextVars, implVars, historyVars
  <1>2. ASSUME NEW th \in Threads, Return(th) PROVE TypeOK'
    BY <1>2, Labels DEF Return, Goto, contextVars, implVars, historyVars, Response
  <1>3. ASSUME NEW th \in Threads, ExecuteStep(th) PROVE TypeOK'
    <2>1. CASE ExecuteCas(th)
      <3>1. arg[th] \in Tasks /\ pc[th] = "cas"
        BY <2>1, Busy DEF ExecuteCas
      <3>2. CASE MayExecute(arg[th])
        <4>1. state' \in [Tasks -> State]
          BY <2>1, <3>1, <3>2 DEF ExecuteCas, State
        <4> QED BY <2>1, <3>1, <3>2, <4>1, Labels
                DEF ExecuteCas, Goto, contextVars, historyVars
      <3>3. CASE ~MayExecute(arg[th])
        BY <2>1, <3>1, <3>3, Labels
        DEF ExecuteCas, Goto, Leave, contextVars, historyVars
      <3> QED BY <3>2, <3>3
    <2>2. CASE ExecuteMove(th)
      BY <2>2, Labels, Busy DEF ExecuteMove, Goto, contextVars, historyVars, Response
    <2>3. CASE ExecuteStart(th)
      <3>1. ran' \in [Tasks -> BOOLEAN] /\ pc[th] = "start"
        BY <2>3, Busy DEF ExecuteStart
      <3>2. PICK l \in {"body", "deliver"} : pc' = [pc EXCEPT ![th] = l]
        BY <2>3 DEF ExecuteStart, Goto
      <3> QED BY <2>3, <3>1, <3>2, Labels DEF ExecuteStart, contextVars, implVars, localVars
    <2>4. CASE ExecuteRecheck(th)
      BY <2>4, Labels DEF ExecuteRecheck, Goto, contextVars, implVars, historyVars, Response
    <2>5. CASE ExecuteDeliver(th)
      <3>1. delivered' \in [Tasks -> Seq(Response)]
        BY <2>5, Busy DEF ExecuteDeliver
      <3> QED BY <2>5, <3>1, Labels DEF ExecuteDeliver, Goto, contextVars, implVars, localVars
    <2>6. CASE ExecuteRelease(th)
      BY <2>6, Labels DEF ExecuteRelease, Goto, contextVars, implVars, historyVars
    <2>7. CASE ExecuteNotify(th)
      BY <2>7, Labels, Busy DEF ExecuteNotify, Goto, contextVars, localVars, historyVars
    <2>8. CASE ExecuteStore(th)
      BY <2>8, Labels, Busy DEF ExecuteStore, Goto, Leave, contextVars, historyVars, State
    <2> QED BY <1>3, <2>1, <2>2, <2>3, <2>4, <2>5, <2>6, <2>7, <2>8 DEF ExecuteStep
  <1>4. ASSUME NEW th \in Threads, FunctionStep(th) PROVE TypeOK'
    <2>1. CASE FunctionReturns(th)
      BY <2>1, Labels DEF FunctionReturns, Goto, contextVars, implVars, historyVars, Response
    <2>2. CASE ExecuteOrCancelled(th)
      <3>1. arg[th] \in Tasks
        BY <2>2, Busy DEF ExecuteOrCancelled
      <3>2. sub' \in [Tasks -> Sub] /\ resp' \in [Threads -> Response]
        BY <2>2, <3>1 DEF ExecuteOrCancelled, Sub, Response
      <3> QED BY <2>2, <3>1, <3>2, Labels DEF ExecuteOrCancelled, Goto, implVars, historyVars
    <2>3. CASE SubReturns(th)
      <3>1. arg[th] \in Tasks
        BY <2>3, Busy DEF SubReturns
      <3>2. sub' \in [Tasks -> Sub] /\ resp' \in [Threads -> Response]
        BY <2>3, <3>1 DEF SubReturns, Sub, Response
      <3>3. PICK l \in {"body", "recheck"} : pc' = [pc EXCEPT ![th] = l]
        BY <2>3 DEF SubReturns, Goto
      <3> QED BY <2>3, <3>1, <3>2, <3>3, Labels DEF SubReturns, implVars, historyVars
    <2> QED BY <1>4, <2>1, <2>2, <2>3 DEF FunctionStep
  <1>5. ASSUME NEW th \in Threads, BlockingStep(th) PROVE TypeOK'
    <2>1. CASE BlockingLoad(th)
      BY <2>1, Labels DEF BlockingLoad, Goto, Leave, contextVars, implVars, historyVars
    <2>2. CASE BlockingCancelOp(th)
      <3>1. "stopped" \in Sub /\ arg[th] \in Tasks
        BY <2>2, Busy DEF BlockingCancelOp, Sub
      <3>2. /\ cancelled' \in [Tasks -> BOOLEAN]
            /\ sub' \in [Tasks -> Sub]
            /\ cancelPhase' \in [Tasks -> {"none", "pending", "running", "late"}]
        BY <2>2, <3>1, CancelTypes DEF BlockingCancelOp
      <3> QED BY <2>2, <3>2, Labels DEF BlockingCancelOp, Goto, implVars, localVars, historyVars
    <2>3. CASE BlockingClear(th)
      BY <2>3, Labels, Busy DEF BlockingClear, Goto, contextVars, localVars, historyVars
    <2>4. CASE WaitSignaled(th)
      BY <2>4, Labels, Busy DEF WaitSignaled, Goto, Leave, contextVars, historyVars
    <2> QED BY <1>5, <2>1, <2>2, <2>3, <2>4 DEF BlockingStep
  <1>6. ASSUME NEW th \in Threads, Timeout(th) PROVE TypeOK'
    <2>1. CASE SubTimesOut(th)
      <3>1. "none" \in Sub /\ arg[th] \in Tasks
        BY <2>1, Busy DEF SubTimesOut, Sub
      <3>2. /\ cancelled' \in [Tasks -> BOOLEAN]
            /\ sub' \in [Tasks -> Sub]
            /\ cancelPhase' \in [Tasks -> {"none", "pending", "running", "late"}]
        BY <2>1, <3>1, CancelTypes DEF SubTimesOut
      <3> QED BY <2>1, <3>2, Labels DEF SubTimesOut, Goto, implVars, historyVars, Response
    <2>2. CASE WaitTimesOut(th)
      BY <2>2, Labels DEF WaitTimesOut, Goto, Leave, contextVars, implVars, historyVars
    <2> QED BY <1>6, <2>1, <2>2 DEF Timeout
  <1>7. ASSUME NEW t \in Tasks, TokenCancel(t) PROVE TypeOK'
    <2>1. "stopped" \in Sub
      BY DEF Sub
    <2>2. /\ cancelled' \in [Tasks -> BOOLEAN]
          /\ sub' \in [Tasks -> Sub]
          /\ cancelPhase' \in [Tasks -> {"none", "pending", "running", "late"}]
      BY <1>7, <2>1, CancelTypes DEF TokenCancel
    <2> QED BY <1>7, <2>2 DEF TokenCancel, implVars, localVars, historyVars
  <1>8. ASSUME NEW t \in Tasks, SubCompletes(t) PROVE TypeOK'
    BY <1>8 DEF SubCompletes, implVars, localVars, historyVars, Sub
  <1> QED
    BY <1>0, <1>1, <1>2, <1>3, <1>4, <1>5, <1>6, <1>7, <1>8 DEF Next, Step

(* TaskContext::Create gives every variable a value of its type.           *)
LEMMA TypeInit == Init => TypeOK
  BY TaskAssumption, Labels DEF Init, TypeOK, Types, State, Sub, Response

(* Every variable keeps its type, and a thread works on a task exactly     *)
(* while it is inside a call of Execute or BlockingCancel.                 *)
THEOREM TypeCorrect == Spec => []TypeOK
  BY TypeInit, TypeStep, PTL DEF Spec

-----------------------------------------------------------------------------
(* One callback *)

(* The callback of the task has been invoked, if it has one.               *)
Done(t) == Len(delivered[t]) = IF t \in NoCallback THEN 0 ELSE 1

(* Where Execute holds function and callback in its locals, and where it   *)
(* has invoked the latter.                                                 *)
Holding == {"start", "body", "sub", "recheck", "deliver"}
After   == {"release", "notify", "store"}

(* Only one thread gets past the compare-and-swap of Execute.              *)
OneExecutor(t) ==
    \A e, f \in Threads : Executes(e, t) /\ Executes(f, t) => e = f

(* Where the callback is, from Create to COMPLETED: in the task, in the    *)
(* locals of its one executor, and then spent.  CallbackExactlyOnce alone  *)
(* is not inductive: it does not say who may still invoke the callback.    *)
OnceFor(t) ==
    /\ OneExecutor(t)
    /\ Len(delivered[t]) <= 1
    /\ state[t] = "PENDING" => delivered[t] = <<>> /\ (cb[t] <=> t \notin NoCallback)
    /\ state[t] = "COMPLETED" => Done(t)
    /\ \A e \in Threads : Executes(e, t) =>
          /\ state[t] = "IN_PROGRESS"
          /\ pc[e] = "move" => delivered[t] = <<>> /\ (cb[t] <=> t \notin NoCallback)
          /\ pc[e] \in Holding => delivered[t] = <<>> /\ (ucb[e] <=> t \notin NoCallback)
          /\ pc[e] \in After => Done(t)

OnceInv == \A t \in Tasks : OnceFor(t)

(* No task of the initial state has an executor or a response.             *)
LEMMA OnceInit == Init => OnceInv
  <1> SUFFICES ASSUME Init PROVE OnceInv
    OBVIOUS
  <1>1. \A t \in Tasks, th \in Threads : ~Executes(th, t)
    BY DEF Init, Executes, Undecided, Decided
  <1>2. \A t \in Tasks : delivered[t] = <<>> /\ Len(delivered[t]) = 0
    <2> SUFFICES ASSUME NEW t \in Tasks PROVE delivered[t] = <<>> /\ Len(delivered[t]) = 0
      OBVIOUS
    <2>1. delivered[t] = <<>>
      BY DEF Init
    <2> QED BY <2>1
  <1>3. \A t \in Tasks : state[t] = "PENDING" /\ (cb[t] <=> t \notin NoCallback)
    BY DEF Init
  <1>4. ASSUME NEW t \in Tasks PROVE OnceFor(t)
    <2>1. Len(delivered[t]) <= 1
      BY <1>2
    <2> QED BY <1>1, <1>2, <1>3, <2>1 DEF OnceFor, OneExecutor
  <1> QED BY <1>4 DEF OnceInv

(* Each step keeps track of the callback: only ExecuteCas makes a thread   *)
(* the executor, only ExecuteDeliver invokes the callback.                 *)
LEMMA OnceStep == TypeOK /\ OnceInv /\ [Next]_vars => OnceInv'
  <1> SUFFICES ASSUME TypeOK, OnceInv, [Next]_vars PROVE OnceInv'
    OBVIOUS
  <1> USE
    DEF TypeOK, Types, OnceInv, OnceFor, OneExecutor, Done, Executes, Undecided,
        Decided, Holding, After
  <1>0. CASE UNCHANGED vars
    BY <1>0 DEF vars, contextVars, implVars, localVars, historyVars
  <1>1. ASSUME NEW th \in Threads, NEW t \in Tasks, Call(th, t, "cas") \/ Call(th, t, "load")
        PROVE  OnceInv'
    <2>1. PICK l \in {"cas", "load"} : Call(th, t, l)
      BY <1>1
    <2> QED BY <2>1 DEF Call, Goto, implVars, historyVars
  <1>2. ASSUME NEW th \in Threads, Return(th) PROVE OnceInv'
    BY <1>2 DEF Return, Goto, implVars, historyVars
  <1>3. ASSUME NEW th \in Threads, ExecuteStep(th) PROVE OnceInv'
    <2>1. CASE ExecuteCas(th)
      <3>1. arg[th] \in Tasks BY <2>1, Busy DEF ExecuteCas
      <3> QED BY <2>1, <3>1 DEF ExecuteCas, MayExecute, Goto, Leave, historyVars
    <2>2. CASE ExecuteMove(th)
      <3>1. arg[th] \in Tasks BY <2>2, Busy DEF ExecuteMove
      <3> QED BY <2>2, <3>1 DEF ExecuteMove, Goto, historyVars
    <2>3. CASE ExecuteStart(th)
      BY <2>3 DEF ExecuteStart, Goto, implVars, localVars
    <2>4. CASE ExecuteRecheck(th)
      BY <2>4 DEF ExecuteRecheck, Goto, implVars, historyVars
    <2>5. CASE ExecuteDeliver(th)
      <3>1. arg[th] \in Tasks BY <2>5, Busy DEF ExecuteDeliver
      <3>2. /\ delivered[arg[th]] = <<>> /\ (ucb[th] <=> arg[th] \notin NoCallback)
            /\ resp[th] \in Response
        BY <2>5, <3>1 DEF ExecuteDeliver
      <3>3. /\ Len(delivered'[arg[th]]) = IF arg[th] \in NoCallback THEN 0 ELSE 1
            /\ \A t \in Tasks \ {arg[th]} : delivered'[t] = delivered[t]
        BY <2>5, <3>1, <3>2 DEF ExecuteDeliver
      <3>4. UNCHANGED <<state, func, cb, arg, ucb>> /\ pc[th] = "deliver"
            /\ pc' = [pc EXCEPT ![th] = "release"]
        BY <2>5 DEF ExecuteDeliver, Goto, implVars, localVars
      <3>5. \A e \in Threads : Executes(e, arg[th]) => e = th
        BY <3>1, <3>4
      <3>6. ASSUME NEW t \in Tasks, t = arg[th] PROVE OnceFor(t)'
        BY <3>3, <3>4, <3>5, <3>6
      <3>7. ASSUME NEW t \in Tasks, t # arg[th] PROVE OnceFor(t)'
        <4>1. delivered'[t] = delivered[t]
          BY <3>3, <3>7
        <4>2. \A e \in Threads : /\ Executes(e, t)' <=> Executes(e, t)
                                 /\ Executes(e, t) => pc'[e] = pc[e]
          BY <3>4, <3>7
        <4> QED BY <3>4, <4>1, <4>2
      <3> HIDE DEF OnceFor
      <3> QED BY <3>6, <3>7
    <2>6. CASE ExecuteRelease(th)
      BY <2>6 DEF ExecuteRelease, Goto, implVars, historyVars
    <2>7. CASE ExecuteNotify(th)
      BY <2>7 DEF ExecuteNotify, Goto, localVars, historyVars
    <2>8. CASE ExecuteStore(th)
      <3>1. arg[th] \in Tasks BY <2>8, Busy DEF ExecuteStore
      <3> QED BY <2>8, <3>1 DEF ExecuteStore, Goto, Leave, historyVars
    <2> QED BY <1>3, <2>1, <2>2, <2>3, <2>4, <2>5, <2>6, <2>7, <2>8 DEF ExecuteStep
  <1>4. ASSUME NEW th \in Threads, FunctionStep(th) PROVE OnceInv'
    <2>1. CASE FunctionReturns(th)
      BY <2>1 DEF FunctionReturns, Goto, implVars, historyVars
    <2>2. CASE ExecuteOrCancelled(th)
      <3>1. PICK l \in {"sub", "recheck"} : pc' = [pc EXCEPT ![th] = l]
        BY <2>2 DEF ExecuteOrCancelled, Goto
      <3> QED BY <2>2, <3>1 DEF ExecuteOrCancelled, implVars, historyVars
    <2>3. CASE SubReturns(th)
      <3>1. PICK l \in {"body", "recheck"} : pc' = [pc EXCEPT ![th] = l]
        BY <2>3 DEF SubReturns, Goto
      <3> QED BY <2>3, <3>1 DEF SubReturns, implVars, historyVars
    <2> QED BY <1>4, <2>1, <2>2, <2>3 DEF FunctionStep
  <1>5. ASSUME NEW th \in Threads, BlockingStep(th) PROVE OnceInv'
    <2>1. PICK l \in {"cancel", "clear", "wait", "returned"} : pc' = [pc EXCEPT ![th] = l]
      BY <1>5
      DEF BlockingStep, BlockingLoad, BlockingCancelOp, BlockingClear, WaitSignaled, Goto, Leave
    <2>2. pc[th] \in Blocking /\ UNCHANGED <<state, cb, delivered, arg, ucb>>
      BY <1>5
      DEF BlockingStep, BlockingLoad, BlockingCancelOp, BlockingClear, WaitSignaled, Goto, Leave,
                  implVars, localVars, historyVars, Blocking
    <2> QED BY <2>1, <2>2 DEF Blocking
  <1>6. ASSUME NEW th \in Threads, Timeout(th) PROVE OnceInv'
    <2>1. CASE SubTimesOut(th)
      BY <2>1 DEF SubTimesOut, Goto, implVars, historyVars
    <2>2. CASE WaitTimesOut(th)
      BY <2>2 DEF WaitTimesOut, Goto, Leave, implVars, historyVars
    <2> QED BY <1>6, <2>1, <2>2 DEF Timeout
  <1>7. ASSUME NEW t \in Tasks, TokenCancel(t) \/ SubCompletes(t) PROVE OnceInv'
    <2>1. UNCHANGED <<implVars, localVars, historyVars, pc>>
      BY <1>7 DEF TokenCancel, SubCompletes
    <2> QED BY <2>1 DEF implVars, localVars, historyVars
  <1> QED
    BY <1>0, <1>1, <1>2, <1>3, <1>4, <1>5, <1>6, <1>7 DEF Next, Step

(* However many threads call Execute and BlockingCancel on a task, its     *)
(* callback is never invoked twice, and it has been invoked when the state *)
(* is COMPLETED (TaskContext::Execute).                                    *)
THEOREM OnceOnly == Spec => []CallbackExactlyOnce
  <1>1. TypeOK /\ OnceInv => CallbackExactlyOnce
    BY DEF OnceInv, OnceFor, Done, CallbackExactlyOnce
  <1> QED BY <1>1, TypeCorrect, OnceInit, OnceStep, PTL DEF Spec

-----------------------------------------------------------------------------
(* Release before a successful BlockingCancel *)

(* Nothing of the task is held any more, and nobody will hold it again: a  *)
(* task that has left PENDING gets no new executor.                        *)
Released(t) ==
    /\ Done(t) /\ ~func[t] /\ ~cb[t] /\ state[t] # "PENDING"
    /\ \A e \in Threads : Executes(e, t) => pc[e] \in {"notify", "store"}

(* Execute holds function and callback in its locals only until it has     *)
(* released them, and then they are not in the task any more.              *)
HoldInv ==
    \A e \in Threads :
        /\ fn[e] \/ ucb[e] => pc[e] \in Holding \cup {"release"}
        /\ \A t \in Tasks : arg[e] = t /\ pc[e] \in Holding \cup After => ~func[t] /\ ~cb[t]

(* Whatever tells a waiter that the task is over, the notification, the    *)
(* state COMPLETED or a BlockingCancel that has returned true, does so for *)
(* a released task.                                                        *)
ReleasedInv ==
    \A t \in Tasks :
        /\ signaled[t] => Released(t)
        /\ state[t] = "COMPLETED" => Released(t)
        /\ \A e \in Threads : arg[e] = t /\ pc[e] = "returned" /\ ret[e] = "true" => Released(t)

(* Each step keeps HoldInv: the locals are filled by ExecuteMove alone.    *)
LEMMA HoldStep == TypeOK /\ HoldInv /\ [Next]_vars => HoldInv'
  <1> SUFFICES ASSUME TypeOK, HoldInv, [Next]_vars PROVE HoldInv'
    OBVIOUS
  <1> USE DEF TypeOK, Types, HoldInv, Holding, After
  <1>0. CASE UNCHANGED vars
    BY <1>0 DEF vars, contextVars, implVars, localVars, historyVars
  <1>1. ASSUME NEW th \in Threads, NEW t \in Tasks, Call(th, t, "cas") \/ Call(th, t, "load")
        PROVE  HoldInv'
    <2>1. PICK l \in {"cas", "load"} : Call(th, t, l)
      BY <1>1
    <2> QED BY <2>1 DEF Call, Goto, implVars, historyVars
  <1>2. ASSUME NEW th \in Threads, Return(th) PROVE HoldInv'
    BY <1>2 DEF Return, Goto, implVars, historyVars
  <1>3. ASSUME NEW th \in Threads, ExecuteStep(th) PROVE HoldInv'
    <2>1. CASE ExecuteCas(th)
      <3>1. PICK l \in {"move", "returned"} : pc' = [pc EXCEPT ![th] = l]
        BY <2>1 DEF ExecuteCas, Goto, Leave
      <3> QED BY <2>1, <3>1 DEF ExecuteCas, historyVars
    <2>2. CASE ExecuteMove(th)
      <3>1. arg[th] \in Tasks BY <2>2, Busy DEF ExecuteMove
      <3> QED BY <2>2, <3>1 DEF ExecuteMove, Goto, historyVars
    <2>3. CASE ExecuteStart(th)
      <3>1. PICK l \in {"body", "deliver"} : pc' = [pc EXCEPT ![th] = l]
        BY <2>3 DEF ExecuteStart, Goto, Leave
      <3> QED BY <2>3, <3>1 DEF ExecuteStart, implVars, localVars
    <2>4. CASE ExecuteRecheck(th)
      BY <2>4 DEF ExecuteRecheck, Goto, implVars, historyVars
    <2>5. CASE ExecuteDeliver(th)
      BY <2>5 DEF ExecuteDeliver, Goto, implVars, localVars
    <2>6. CASE ExecuteRelease(th)
      BY <2>6 DEF ExecuteRelease, Goto, implVars, historyVars
    <2>7. CASE ExecuteNotify(th)
      BY <2>7 DEF ExecuteNotify, Goto, localVars, historyVars
    <2>8. CASE ExecuteStore(th)
      BY <2>8 DEF ExecuteStore, Goto, Leave, historyVars
    <2> QED BY <1>3, <2>1, <2>2, <2>3, <2>4, <2>5, <2>6, <2>7, <2>8 DEF ExecuteStep
  <1>4. ASSUME NEW th \in Threads, FunctionStep(th) PROVE HoldInv'
    <2>1. CASE FunctionReturns(th)
      BY <2>1 DEF FunctionReturns, Goto, implVars, historyVars
    <2>2. CASE ExecuteOrCancelled(th)
      <3>1. PICK l \in {"sub", "recheck"} : pc' = [pc EXCEPT ![th] = l]
        BY <2>2 DEF ExecuteOrCancelled, Goto, Leave
      <3> QED BY <2>2, <3>1 DEF ExecuteOrCancelled, implVars, historyVars
    <2>3. CASE SubReturns(th)
      <3>1. PICK l \in {"body", "recheck"} : pc' = [pc EXCEPT ![th] = l]
        BY <2>3 DEF SubReturns, Goto, Leave
      <3> QED BY <2>3, <3>1 DEF SubReturns, implVars, historyVars
    <2> QED BY <1>4, <2>1, <2>2, <2>3 DEF FunctionStep
  <1>5. ASSUME NEW th \in Threads, BlockingStep(th) PROVE HoldInv'
    <2>1. CASE BlockingLoad(th)
      <3>1. PICK l \in {"cancel", "returned"} : pc' = [pc EXCEPT ![th] = l]
        BY <2>1 DEF BlockingLoad, Goto, Leave
      <3> QED BY <2>1, <3>1 DEF BlockingLoad, implVars, historyVars
    <2>2. CASE BlockingCancelOp(th)
      BY <2>2 DEF BlockingCancelOp, Goto, implVars, localVars, historyVars
    <2>3. CASE BlockingClear(th)
      BY <2>3 DEF BlockingClear, Goto, localVars, historyVars
    <2>4. CASE WaitSignaled(th)
      BY <2>4 DEF WaitSignaled, Goto, Leave, historyVars
    <2> QED BY <1>5, <2>1, <2>2, <2>3, <2>4 DEF BlockingStep
  <1>6. ASSUME NEW th \in Threads, Timeout(th) PROVE HoldInv'
    <2>1. CASE SubTimesOut(th)
      BY <2>1 DEF SubTimesOut, Goto, implVars, historyVars
    <2>2. CASE WaitTimesOut(th)
      BY <2>2 DEF WaitTimesOut, Goto, Leave, implVars, historyVars
    <2> QED BY <1>6, <2>1, <2>2 DEF Timeout
  <1>7. ASSUME NEW t \in Tasks, TokenCancel(t) \/ SubCompletes(t) PROVE HoldInv'
    <2>1. UNCHANGED <<implVars, localVars, historyVars, pc>>
      BY <1>7 DEF TokenCancel, SubCompletes
    <2> QED BY <2>1 DEF implVars, localVars, historyVars
  <1> QED
    BY <1>0, <1>1, <1>2, <1>3, <1>4, <1>5, <1>6, <1>7 DEF Next, Step

(* A released task stays released, whatever is called on it.               *)
LEMMA ReleasedStable ==
    ASSUME TypeOK, OnceInv, [Next]_vars, NEW t \in Tasks, Released(t)
    PROVE  Released(t)'
  <1> USE DEF TypeOK, Types, OnceInv, OnceFor, Done, Executes, Undecided, Decided, Released
  <1>0. CASE UNCHANGED vars
    BY <1>0 DEF vars, contextVars, implVars, localVars, historyVars
  <1>1. ASSUME NEW th \in Threads, NEW u \in Tasks, Call(th, u, "cas") \/ Call(th, u, "load")
        PROVE  Released(t)'
    <2>1. PICK l \in {"cas", "load"} : Call(th, u, l)
      BY <1>1
    <2> QED BY <2>1 DEF Call, Goto, implVars, historyVars
  <1>2. ASSUME NEW th \in Threads, Return(th) PROVE Released(t)'
    BY <1>2 DEF Return, Goto, implVars, historyVars
  <1>3. ASSUME NEW th \in Threads, ExecuteStep(th) PROVE Released(t)'
    <2>1. CASE ExecuteCas(th)
      <3>1. PICK l \in {"move", "returned"} : pc' = [pc EXCEPT ![th] = l]
        BY <2>1 DEF ExecuteCas, Goto, Leave
      <3>2. UNCHANGED <<func, cb, delivered, arg>> /\ pc[th] = "cas"
        BY <2>1 DEF ExecuteCas, historyVars
      <3>3. state'[t] = state[t] /\ (arg[th] = t => pc'[th] = "returned")
        BY <2>1 DEF ExecuteCas, MayExecute, Goto, Leave
      <3> QED BY <3>1, <3>2, <3>3
    <2>2. CASE ExecuteMove(th)
      BY <2>2 DEF ExecuteMove, Goto, historyVars
    <2>3. CASE ExecuteStart(th)
      <3>1. PICK l \in {"body", "deliver"} : pc' = [pc EXCEPT ![th] = l]
        BY <2>3 DEF ExecuteStart, Goto, Leave
      <3> QED BY <2>3, <3>1 DEF ExecuteStart, implVars, localVars
    <2>4. CASE ExecuteRecheck(th)
      BY <2>4 DEF ExecuteRecheck, Goto, implVars, historyVars
    <2>5. CASE ExecuteDeliver(th)
      <3>1. arg[th] # t
        BY <2>5 DEF ExecuteDeliver
      <3>2. delivered'[t] = delivered[t]
        BY <2>5, <3>1 DEF ExecuteDeliver
      <3>3. UNCHANGED <<state, func, cb, arg>> /\ pc' = [pc EXCEPT ![th] = "release"]
        BY <2>5 DEF ExecuteDeliver, Goto, implVars, localVars
      <3>4. \A e \in Threads : arg[e] = t => pc'[e] = pc[e]
        BY <3>1, <3>3
      <3> QED BY <3>2, <3>3, <3>4
    <2>6. CASE ExecuteRelease(th)
      BY <2>6 DEF ExecuteRelease, Goto, implVars, historyVars
    <2>7. CASE ExecuteNotify(th)
      BY <2>7 DEF ExecuteNotify, Goto, localVars, historyVars
    <2>8. CASE ExecuteStore(th)
      BY <2>8 DEF ExecuteStore, Goto, Leave, historyVars
    <2> QED BY <1>3, <2>1, <2>2, <2>3, <2>4, <2>5, <2>6, <2>7, <2>8 DEF ExecuteStep
  <1>4. ASSUME NEW th \in Threads, FunctionStep(th) PROVE Released(t)'
    <2>1. CASE FunctionReturns(th)
      BY <2>1 DEF FunctionReturns, Goto, implVars, historyVars
    <2>2. CASE ExecuteOrCancelled(th)
      <3>1. PICK l \in {"sub", "recheck"} : pc' = [pc EXCEPT ![th] = l]
        BY <2>2 DEF ExecuteOrCancelled, Goto, Leave
      <3> QED BY <2>2, <3>1 DEF ExecuteOrCancelled, implVars, historyVars
    <2>3. CASE SubReturns(th)
      <3>1. PICK l \in {"body", "recheck"} : pc' = [pc EXCEPT ![th] = l]
        BY <2>3 DEF SubReturns, Goto, Leave
      <3> QED BY <2>3, <3>1 DEF SubReturns, implVars, historyVars
    <2> QED BY <1>4, <2>1, <2>2, <2>3 DEF FunctionStep
  <1>5. ASSUME NEW th \in Threads, BlockingStep(th) PROVE Released(t)'
    <2>1. CASE BlockingLoad(th)
      <3>1. PICK l \in {"cancel", "returned"} : pc' = [pc EXCEPT ![th] = l]
        BY <2>1 DEF BlockingLoad, Goto, Leave
      <3> QED BY <2>1, <3>1 DEF BlockingLoad, implVars, historyVars
    <2>2. CASE BlockingCancelOp(th)
      BY <2>2 DEF BlockingCancelOp, Goto, implVars, localVars, historyVars
    <2>3. CASE BlockingClear(th)
      BY <2>3 DEF BlockingClear, Goto, localVars, historyVars
    <2>4. CASE WaitSignaled(th)
      BY <2>4 DEF WaitSignaled, Goto, Leave, historyVars
    <2> QED BY <1>5, <2>1, <2>2, <2>3, <2>4 DEF BlockingStep
  <1>6. ASSUME NEW th \in Threads, Timeout(th) PROVE Released(t)'
    <2>1. CASE SubTimesOut(th)
      BY <2>1 DEF SubTimesOut, Goto, implVars, historyVars
    <2>2. CASE WaitTimesOut(th)
      BY <2>2 DEF WaitTimesOut, Goto, Leave, implVars, historyVars
    <2> QED BY <1>6, <2>1, <2>2 DEF Timeout
  <1>7. ASSUME NEW u \in Tasks, TokenCancel(u) \/ SubCompletes(u) PROVE Released(t)'
    <2>1. UNCHANGED <<implVars, localVars, historyVars, pc>>
      BY <1>7 DEF TokenCancel, SubCompletes
    <2> QED BY <2>1 DEF implVars, localVars, historyVars
  <1> QED
    BY <1>0, <1>1, <1>2, <1>3, <1>4, <1>5, <1>6, <1>7 DEF Next, Step

(* Nothing says yet that the task is over. *)
Unclaimed(t) ==
    /\ ~signaled[t] /\ state[t] # "COMPLETED"
    /\ \A e \in Threads : arg[e] = t /\ pc[e] = "returned" => ret[e] # "true"

(* Only ExecuteNotify and ExecuteStore make the first claim that a task is *)
(* over.                                                                   *)
LEMMA UnclaimedStable ==
    ASSUME TypeOK, [Next]_vars, NEW t \in Tasks, Unclaimed(t),
           \A e \in Threads : arg[e] = t => pc[e] \notin {"notify", "store"}
    PROVE  Unclaimed(t)'
  <1> USE DEF TypeOK, Types, Unclaimed
  <1>0. CASE UNCHANGED vars
    BY <1>0 DEF vars, contextVars, implVars, localVars, historyVars
  <1>1. ASSUME NEW th \in Threads, NEW u \in Tasks, Call(th, u, "cas") \/ Call(th, u, "load")
        PROVE  Unclaimed(t)'
    <2>1. PICK l \in {"cas", "load"} : Call(th, u, l)
      BY <1>1
    <2> QED BY <2>1 DEF Call, Goto, implVars, historyVars
  <1>2. ASSUME NEW th \in Threads, Return(th) PROVE Unclaimed(t)'
    BY <1>2 DEF Return, Goto, implVars, historyVars
  <1>3. ASSUME NEW th \in Threads, ExecuteStep(th) PROVE Unclaimed(t)'
    <2>1. CASE ExecuteCas(th)
      <3>1. CASE MayExecute(arg[th])
        BY <2>1, <3>1, Busy DEF ExecuteCas, Goto
      <3>2. CASE ~MayExecute(arg[th])
        BY <2>1, <3>2 DEF ExecuteCas, Leave, Goto
      <3> QED BY <3>1, <3>2
    <2>2. CASE ExecuteMove(th)
      BY <2>2 DEF ExecuteMove, Goto
    <2>3. CASE ExecuteStart(th)
      <3>1. PICK l \in {"body", "deliver"} : pc' = [pc EXCEPT ![th] = l]
        BY <2>3 DEF ExecuteStart, Goto
      <3> QED BY <2>3, <3>1 DEF ExecuteStart, implVars, localVars
    <2>4. CASE ExecuteRecheck(th)
      BY <2>4 DEF ExecuteRecheck, Goto, implVars
    <2>5. CASE ExecuteDeliver(th)
      BY <2>5 DEF ExecuteDeliver, Goto, implVars, localVars
    <2>6. CASE ExecuteRelease(th)
      BY <2>6 DEF ExecuteRelease, Goto, implVars
    <2>7. CASE ExecuteNotify(th)
      BY <2>7 DEF ExecuteNotify, Goto, localVars
    <2>8. CASE ExecuteStore(th)
      BY <2>8 DEF ExecuteStore, Goto, Leave
    <2> QED BY <1>3, <2>1, <2>2, <2>3, <2>4, <2>5, <2>6, <2>7, <2>8 DEF ExecuteStep
  <1>4. ASSUME NEW th \in Threads, FunctionStep(th) PROVE Unclaimed(t)'
    <2>1. PICK l \in {"sub", "body", "recheck"} : pc' = [pc EXCEPT ![th] = l]
      BY <1>4 DEF FunctionStep, FunctionReturns, ExecuteOrCancelled, SubReturns, Goto
    <2>2. UNCHANGED <<state, signaled, arg, ret>>
      BY <1>4 DEF FunctionStep, FunctionReturns, ExecuteOrCancelled, SubReturns, implVars
    <2> QED BY <2>1, <2>2
  <1>5. ASSUME NEW th \in Threads, BlockingStep(th) PROVE Unclaimed(t)'
    <2>1. CASE BlockingLoad(th)
      <3>1. CASE Finished(arg[th])
        BY <2>1, <3>1 DEF BlockingLoad, Leave, Finished, Goto, implVars
      <3>2. CASE ~Finished(arg[th])
        BY <2>1, <3>2 DEF BlockingLoad, Goto, implVars
      <3> QED BY <3>1, <3>2
    <2>2. CASE BlockingCancelOp(th)
      BY <2>2 DEF BlockingCancelOp, Goto, implVars, localVars
    <2>3. CASE BlockingClear(th)
      BY <2>3 DEF BlockingClear, Goto, localVars
    <2>4. CASE WaitSignaled(th)
      BY <2>4 DEF WaitSignaled, Goto, Leave
    <2> QED BY <1>5, <2>1, <2>2, <2>3, <2>4 DEF BlockingStep
  <1>6. ASSUME NEW th \in Threads, Timeout(th) PROVE Unclaimed(t)'
    <2>1. CASE SubTimesOut(th)
      BY <2>1 DEF SubTimesOut, Goto, implVars
    <2>2. CASE WaitTimesOut(th)
      BY <2>2 DEF WaitTimesOut, Goto, Leave, implVars
    <2> QED BY <1>6, <2>1, <2>2 DEF Timeout
  <1>7. ASSUME NEW u \in Tasks, TokenCancel(u) \/ SubCompletes(u) PROVE Unclaimed(t)'
    <2>1. UNCHANGED <<implVars, localVars, historyVars, pc>>
      BY <1>7 DEF TokenCancel, SubCompletes
    <2> QED BY <2>1 DEF implVars, localVars, historyVars
  <1> QED
    BY <1>0, <1>1, <1>2, <1>3, <1>4, <1>5, <1>6, <1>7 DEF Next, Step

(* Each step keeps ReleasedInv: the thread at notify or store is the only  *)
(* executor, and past the release.                                         *)
LEMMA ReleasedStep ==
    TypeOK /\ OnceInv /\ HoldInv /\ ReleasedInv /\ [Next]_vars => ReleasedInv'
  <1> SUFFICES ASSUME TypeOK, OnceInv, HoldInv, ReleasedInv, [Next]_vars, NEW t \in Tasks
               PROVE  Unclaimed(t)' \/ Released(t)'
    BY DEF ReleasedInv, Unclaimed
  <1>1. CASE Released(t)
    BY <1>1, ReleasedStable
  <1>2. CASE ~Released(t)
    <2>1. Unclaimed(t)
      BY <1>2 DEF ReleasedInv, Unclaimed
    <2>2. ASSUME NEW e \in Threads, arg[e] = t, pc[e] \in {"notify", "store"}
          PROVE  FALSE
      <3>1. Executes(e, t)
        BY <2>2 DEF Executes, Decided
      <3>2. Done(t) /\ state[t] = "IN_PROGRESS"
        BY <2>2, <3>1 DEF OnceInv, OnceFor, After
      <3>3. ~func[t] /\ ~cb[t]
        BY <2>2 DEF HoldInv, After
      <3>4. \A f \in Threads : Executes(f, t) => pc[f] \in {"notify", "store"}
        BY <2>2, <3>1 DEF OnceInv, OnceFor, OneExecutor
      <3> QED BY <1>2, <3>2, <3>3, <3>4 DEF Released
    <2> QED BY <2>1, <2>2, UnclaimedStable
  <1> QED BY <1>1, <1>2

(* Nobody holds anything in the initial state.                             *)
LEMMA HoldInit == Init => HoldInv
  BY DEF Init, HoldInv, Holding, After

(* Nobody says that a task is over in the initial state.                   *)
LEMMA ReleasedInit == Init => ReleasedInv
  BY DEF Init, ReleasedInv

(* When BlockingCancel returns true, the callback has been invoked and no  *)
(* thread holds the function or the callback any more, so that the caller  *)
(* may destroy what they captured (TaskContext::BlockingCancel, Execute).  *)
THEOREM ReleasedBeforeTrue == Spec => []TrueMeansReleased
  <1>1. TypeOK /\ HoldInv /\ ReleasedInv => TrueMeansReleased
    <2> SUFFICES ASSUME TypeOK, HoldInv, ReleasedInv, NEW th \in Threads,
                        pc[th] = "returned", ret[th] = "true"
                 PROVE  /\ arg[th] \notin NoCallback => delivered[arg[th]] # <<>>
                        /\ ~func[arg[th]] /\ ~cb[arg[th]]
                        /\ \A e \in Threads : arg[e] = arg[th] => ~fn[e] /\ ~ucb[e]
      BY DEF TrueMeansReleased
    <2>1. arg[th] \in Tasks /\ Released(arg[th])
      BY Busy DEF ReleasedInv
    <2>2. arg[th] \notin NoCallback => delivered[arg[th]] # <<>>
      BY <2>1 DEF Released, Done
    <2>3. ASSUME NEW e \in Threads, arg[e] = arg[th], fn[e] \/ ucb[e] PROVE FALSE
      <3>1. pc[e] \in Holding \cup {"release"}
        BY <2>3 DEF HoldInv
      <3>2. Executes(e, arg[th])
        BY <2>3, <3>1 DEF Executes, Undecided, Decided, Holding
      <3> QED BY <2>1, <3>1, <3>2 DEF Released, Holding
    <2> QED BY <2>1, <2>2, <2>3 DEF Released
  <1> QED
    BY <1>1, TypeCorrect, OnceInit, OnceStep, HoldInit, HoldStep, ReleasedInit, ReleasedStep,
       PTL DEF Spec

-----------------------------------------------------------------------------
(* Cancels hide results *)

(* What a cancel leaves possible: before the start, neither the function   *)
(* nor another response than Cancelled; during the run, no result of the   *)
(* function in what is delivered, nor on the way from there.               *)
HiddenFor(t) ==
    /\ cancelPhase[t] # "none" => cancelled[t]
    /\ state[t] = "PENDING" => ~ran[t]
    /\ cancelPhase[t] = "pending" => ~ran[t] /\ delivered[t] \in {<<>>, <<"Cancelled">>}
    /\ cancelPhase[t] = "running" =>
          delivered[t] \in {<<>>, <<"Cancelled">>, <<"RequestTimeout">>}
    /\ \A e \in Threads : arg[e] = t =>
          /\ pc[e] = "start" => resp[e] = "Cancelled"
          /\ cancelPhase[t] = "pending" =>
                /\ pc[e] \notin {"body", "sub", "recheck"}
                /\ pc[e] = "deliver" => resp[e] = "Cancelled"
          /\ cancelPhase[t] = "running" /\ pc[e] = "deliver" =>
                resp[e] \in {"Cancelled", "RequestTimeout"}

HiddenInv == \A t \in Tasks : HiddenFor(t)

(* The three ways in which CancelOperation changes a task: before, during  *)
(* and after the run of its function.                                      *)
LEMMA CancelEffect ==
    ASSUME TypeOK, OnceInv, HiddenInv, NEW u \in Tasks, NEW s, CancelOperation(u, s),
           NEW t \in Tasks
    PROVE  \/ UNCHANGED <<cancelled[t], cancelPhase[t]>>
           \/ /\ cancelled'[t] /\ cancelPhase'[t] = "pending"
              /\ state[t] = "PENDING"
           \/ /\ cancelled'[t] /\ cancelPhase'[t] = "running"
              /\ \E e \in Threads : arg[e] = t /\ pc[e] \in Undecided
           \/ cancelled'[t] /\ cancelPhase'[t] = "late"
  <1> USE DEF TypeOK, Types
  <1>1. CASE cancelled[u]
    BY <1>1 DEF CancelOperation, contextVars
  <1>2. CASE ~cancelled[u] /\ t # u
    BY <1>2 DEF CancelOperation
  <1>3. CASE ~cancelled[u] /\ t = u
    <2>1. cancelled'[t] /\ cancelPhase'[t] = Phase(t)
      BY <1>3 DEF CancelOperation
    <2> QED BY <2>1 DEF Phase
  <1> QED BY <1>1, <1>2, <1>3

(* CancelOperation keeps HiddenFor, whether the cancelling thread is the   *)
(* token's user, BlockingCancel, or the function itself on a time-out.     *)
LEMMA CancelHidden ==
    ASSUME TypeOK, OnceInv, HiddenInv, NEW u \in Tasks, NEW s, CancelOperation(u, s),
           UNCHANGED <<state, arg, ran, delivered>>,
           \A e \in Threads :
              \/ UNCHANGED <<pc[e], resp[e]>>
              \/ pc[e] = "cancel" /\ pc'[e] = "clear"
              \/ pc[e] = "sub" /\ pc'[e] = "recheck",
           NEW t \in Tasks
    PROVE  HiddenFor(t)'
  <1> USE
    DEF TypeOK, Types, OnceInv, OnceFor, Executes, Undecided, Decided, Holding,
        HiddenInv, HiddenFor
  <1>0. \A e \in Threads :
           /\ pc'[e] \in {"start", "deliver", "body", "sub"} => pc'[e] = pc[e] /\ resp'[e] = resp[e]
           /\ pc'[e] = "recheck" => pc[e] \in {"sub", "recheck"}
    OBVIOUS
  <1>1. CASE UNCHANGED <<cancelled[t], cancelPhase[t]>>
    BY <1>0, <1>1
  <1>2. CASE cancelled'[t] /\ cancelPhase'[t] = "pending" /\ state[t] = "PENDING"
    BY <1>2
  <1>3. CASE /\ cancelled'[t] /\ cancelPhase'[t] = "running"
             /\ \E e \in Threads : arg[e] = t /\ pc[e] \in Undecided
    <2>1. PICK e \in Threads : arg[e] = t /\ pc[e] \in Undecided
      BY <1>3
    <2>2. delivered[t] = <<>>
      BY <2>1
    <2>3. \A f \in Threads : arg[f] = t => pc[f] # "deliver"
      BY <2>1 DEF OneExecutor
    <2> HIDE DEF TypeOK, OnceInv
    <2> QED BY <1>0, <1>3, <2>2, <2>3
  <1>4. CASE cancelled'[t] /\ cancelPhase'[t] = "late"
    <2> HIDE DEF TypeOK, OnceInv
    <2> QED BY <1>0, <1>4
  <1> QED BY <1>1, <1>2, <1>3, <1>4, CancelEffect

(* Each step keeps HiddenInv: IsCancelled is read before the function      *)
(* starts (ExecuteStart) and again before its response counts              *)
(* (KeepResponse).                                                         *)
LEMMA HiddenStep == TypeOK /\ OnceInv /\ HiddenInv /\ [Next]_vars => HiddenInv'
  <1> SUFFICES ASSUME TypeOK, OnceInv, HiddenInv, [Next]_vars, NEW t \in Tasks
               PROVE  HiddenFor(t)'
    BY DEF HiddenInv
  <1> USE DEF TypeOK, Types, HiddenInv, HiddenFor
  <1>0. CASE UNCHANGED vars
    BY <1>0 DEF vars, contextVars, implVars, localVars, historyVars
  <1>1. ASSUME NEW th \in Threads, NEW u \in Tasks, Call(th, u, "cas") \/ Call(th, u, "load")
        PROVE  HiddenFor(t)'
    <2>1. PICK l \in {"cas", "load"} : Call(th, u, l)
      BY <1>1
    <2> QED BY <2>1 DEF Call, Goto, implVars, historyVars, contextVars
  <1>2. ASSUME NEW th \in Threads, Return(th) PROVE HiddenFor(t)'
    BY <1>2 DEF Return, Goto, implVars, historyVars, contextVars
  <1>3. ASSUME NEW th \in Threads, ExecuteStep(th) PROVE HiddenFor(t)'
    <2>1. CASE ExecuteCas(th)
      <3>1. PICK l \in {"move", "returned"} : pc' = [pc EXCEPT ![th] = l]
        BY <2>1 DEF ExecuteCas, Goto, Leave
      <3>2. UNCHANGED <<cancelled, cancelPhase, delivered, ran, arg, resp>>
        BY <2>1 DEF ExecuteCas, contextVars, historyVars
      <3>3. state'[t] = "PENDING" => state[t] = "PENDING"
        BY <2>1 DEF ExecuteCas
      <3> QED BY <3>1, <3>2, <3>3
    <2>2. CASE ExecuteMove(th)
      BY <2>2 DEF ExecuteMove, Goto, contextVars, historyVars
    <2>3. CASE ExecuteStart(th)
      <3>1. UNCHANGED <<cancelled, cancelPhase, delivered, arg, resp, state>> /\ pc[th] = "start"
        BY <2>3 DEF ExecuteStart, contextVars, implVars, localVars
      <3>2. CASE fn[th] /\ ~cancelled[arg[th]]
        <4>1. pc' = [pc EXCEPT ![th] = "body"] /\ ran' = [ran EXCEPT ![arg[th]] = TRUE]
          BY <2>3, <3>2 DEF ExecuteStart, Goto
        <4>2. arg[th] = t => state[t] # "PENDING" /\ cancelPhase[t] = "none"
          BY <3>1, <3>2 DEF OnceInv, OnceFor, Executes, Undecided
        <4> QED BY <3>1, <4>1, <4>2
      <3>3. CASE ~fn[th] \/ cancelled[arg[th]]
        <4>1. pc' = [pc EXCEPT ![th] = "deliver"] /\ UNCHANGED ran
          BY <2>3, <3>3 DEF ExecuteStart, Goto
        <4> QED BY <3>1, <4>1
      <3> QED BY <3>2, <3>3
    <2>4. CASE ExecuteRecheck(th)
      BY <2>4 DEF ExecuteRecheck, KeepResponse, Goto, contextVars, implVars, historyVars
    <2>5. CASE ExecuteDeliver(th)
      <3>1. UNCHANGED <<cancelled, cancelPhase, ran, arg, resp, state>> /\ pc[th] = "deliver"
            /\ pc' = [pc EXCEPT ![th] = "release"]
        BY <2>5 DEF ExecuteDeliver, Goto, contextVars, implVars, localVars
      <3>2. CASE arg[th] = t /\ ucb[th]
        <4>1. delivered'[t] = Append(delivered[t], resp[th])
          BY <2>5, <3>2 DEF ExecuteDeliver
        <4>2. delivered[t] = <<>>
          BY <3>1, <3>2 DEF OnceInv, OnceFor, Executes, Decided, Holding
        <4>3. delivered'[t] = <<resp[th]>>
          BY <4>1, <4>2
        <4> QED BY <3>1, <3>2, <4>3
      <3>3. CASE ~(arg[th] = t /\ ucb[th])
        <4>1. delivered'[t] = delivered[t]
          BY <2>5, <3>3 DEF ExecuteDeliver
        <4> QED BY <3>1, <4>1
      <3> QED BY <3>2, <3>3
    <2>6. CASE ExecuteRelease(th)
      BY <2>6 DEF ExecuteRelease, Goto, contextVars, implVars, historyVars
    <2>7. CASE ExecuteNotify(th)
      BY <2>7 DEF ExecuteNotify, Goto, contextVars, localVars, historyVars
    <2>8. CASE ExecuteStore(th)
      BY <2>8 DEF ExecuteStore, Goto, Leave, contextVars, historyVars
    <2> QED BY <1>3, <2>1, <2>2, <2>3, <2>4, <2>5, <2>6, <2>7, <2>8 DEF ExecuteStep
  <1>4. ASSUME NEW th \in Threads, FunctionStep(th) PROVE HiddenFor(t)'
    <2>1. PICK l \in {"sub", "body", "recheck"} : pc' = [pc EXCEPT ![th] = l]
      BY <1>4 DEF FunctionStep, FunctionReturns, ExecuteOrCancelled, SubReturns, Goto
    <2>2. pc[th] \in {"body", "sub"} /\ UNCHANGED <<cancelled, cancelPhase, ran, delivered, arg, state>>
      BY <1>4 DEF FunctionStep, FunctionReturns, ExecuteOrCancelled, SubReturns,
                  contextVars, implVars, historyVars
    <2>3. \A e \in Threads \ {th} : resp'[e] = resp[e]
      BY <1>4 DEF FunctionStep, FunctionReturns, ExecuteOrCancelled, SubReturns
    <2> QED BY <2>1, <2>2, <2>3
  <1>5. ASSUME NEW th \in Threads, BlockingStep(th) PROVE HiddenFor(t)'
    <2>1. CASE BlockingLoad(th)
      <3>1. PICK l \in {"cancel", "returned"} : pc' = [pc EXCEPT ![th] = l]
        BY <2>1 DEF BlockingLoad, Goto, Leave
      <3> QED BY <2>1, <3>1 DEF BlockingLoad, contextVars, implVars, historyVars
    <2>2. CASE BlockingCancelOp(th)
      <3>1. arg[th] \in Tasks
        BY <2>2, Busy DEF BlockingCancelOp
      <3>2. UNCHANGED <<state, arg, resp, ran, delivered>> /\ CancelOperation(arg[th], "stopped")
        BY <2>2 DEF BlockingCancelOp, implVars, localVars, historyVars
      <3>3. \A e \in Threads :
               \/ pc'[e] = pc[e]
               \/ pc[e] = "cancel" /\ pc'[e] = "clear"
        BY <2>2 DEF BlockingCancelOp, Goto
      <3> HIDE DEF TypeOK, HiddenInv, HiddenFor
      <3> QED BY <3>1, <3>2, <3>3, CancelHidden
    <2>3. CASE BlockingClear(th)
      BY <2>3 DEF BlockingClear, Goto, contextVars, localVars, historyVars
    <2>4. CASE WaitSignaled(th)
      BY <2>4 DEF WaitSignaled, Goto, Leave, contextVars, historyVars
    <2> QED BY <1>5, <2>1, <2>2, <2>3, <2>4 DEF BlockingStep
  <1>6. ASSUME NEW th \in Threads, Timeout(th) PROVE HiddenFor(t)'
    <2>1. CASE SubTimesOut(th)
      <3>1. arg[th] \in Tasks
        BY <2>1, Busy DEF SubTimesOut
      <3>2. UNCHANGED <<state, arg, ran, delivered>> /\ CancelOperation(arg[th], "none")
        BY <2>1 DEF SubTimesOut, implVars, historyVars
      <3>3. \A e \in Threads :
               \/ UNCHANGED <<pc[e], resp[e]>>
               \/ pc[e] = "sub" /\ pc'[e] = "recheck"
        BY <2>1 DEF SubTimesOut, Goto
      <3> HIDE DEF TypeOK, HiddenInv, HiddenFor
      <3> QED BY <3>1, <3>2, <3>3, CancelHidden
    <2>2. CASE WaitTimesOut(th)
      BY <2>2 DEF WaitTimesOut, Goto, Leave, contextVars, implVars, historyVars
    <2> QED BY <1>6, <2>1, <2>2 DEF Timeout
  <1>7. ASSUME NEW u \in Tasks, TokenCancel(u) PROVE HiddenFor(t)'
    <2>1. UNCHANGED <<state, arg, resp, ran, delivered, pc>> /\ CancelOperation(u, "stopped")
      BY <1>7 DEF TokenCancel, implVars, localVars, historyVars
    <2> HIDE DEF TypeOK, HiddenInv, HiddenFor
    <2> QED BY <2>1, CancelHidden
  <1>8. ASSUME NEW u \in Tasks, SubCompletes(u) PROVE HiddenFor(t)'
    BY <1>8 DEF SubCompletes, implVars, localVars, historyVars
  <1> QED
    BY <1>0, <1>1, <1>2, <1>3, <1>4, <1>5, <1>6, <1>7, <1>8 DEF Next, Step

(* No task of the initial state is cancelled or executed.                  *)
LEMMA HiddenInit == Init => HiddenInv
  BY DEF Init, HiddenInv, HiddenFor

(* A cancel before Execute starts the function keeps it from running; one  *)
(* that comes while it runs hides its result, except for a time-out that   *)
(* the function reports itself (TaskContext::Execute).                     *)
THEOREM CancelHonoured == Spec => []CancelHidesResult
  <1>1. HiddenInv => CancelHidesResult
    BY DEF HiddenInv, HiddenFor, CancelHidesResult
  <1> QED
    BY <1>1, TypeCorrect, OnceInit, OnceStep, HiddenInit, HiddenStep, PTL DEF Spec

-----------------------------------------------------------------------------
(* PART TWO: a client and its requests *)

(* Users and workers are the threads that call into the tasks.             *)
LEMMA UsersAreThreads ==
    /\ \A u \in Users : u \in Threads /\ u \notin Workers
    /\ \A w \in Workers : w \in Threads /\ w \notin Users
    /\ \A th \in Threads : th \in Users \/ th \in Workers
  BY ClientAssumption

-----------------------------------------------------------------------------
(* The inductive invariant *)

(* A thread of the scheduler runs closures, one of the application calls   *)
(* the client; whoever runs a closure knows which.                         *)
Roles ==
    /\ \A w \in Workers : cpc[w] \in {"pull", "execute", "executing", "remove", "exited"}
    /\ \A u \in Users : cpc[u] \notin {"pull", "exited"}
    /\ \A th \in Threads : cur[th] # NoTask <=> cpc[th] \in {"execute", "executing", "remove"}

(* What a thread is doing inside TaskContext: Execute of the task of its   *)
(* closure, BlockingCancel from the destructor, or nothing.                *)
InExecute(th) == pc[th] \in {"cas"} \cup Undecided \cup Decided
Calls ==
    \A th \in Threads :
        /\ cpc[th] = "executing" => arg[th] = cur[th] /\ (InExecute(th) \/ pc[th] = "returned")
        /\ cpc[th] = "dtorBlocked" =>
              /\ arg[th] \in todo[th]
              /\ \/ pc[th] \in Blocking
                 \/ pc[th] = "returned" /\ ret[th] \in {"true", "false"}
        /\ cpc[th] \notin {"executing", "dtorBlocked"} => pc[th] = "idle"

(* Between Insert and Schedule a thread does nothing else.                 *)
Adding ==
    \A th \in Threads : adding[th] # NoTask =>
        IF th \in Users THEN cpc[th] = "user" ELSE cpc[th] = "executing" /\ pc[th] = "body"

(* Without a scheduler nothing is queued, and its workers have no tasks.   *)
NoScheduler == ~scheduler => queue = <<>> /\ \A w \in Workers : cur[w] = NoTask

(* The closure of a task exists once: with the thread that is about to     *)
(* schedule it, in the queue, or with the one that runs it.                *)
InSeq(q, t) == \E i \in 1..Len(q) : q[i] = t
Once(q) == \A i, j \in 1..Len(q) : q[i] = q[j] => i = j
Queued(t) == InSeq(queue, t)
OnePlace ==
    /\ Once(queue)
    /\ \A a, b \in Threads :
          /\ adding[a] = adding[b] /\ adding[a] # NoTask => a = b
          /\ cur[a] = cur[b] /\ cur[a] # NoTask => a = b
          /\ adding[a] = cur[b] => adding[a] = NoTask
    /\ \A a \in Threads : ~Queued(adding[a]) /\ ~Queued(cur[a])

(* Before its closure calls Execute a task is PENDING, after it COMPLETED: *)
(* no other thread can have executed it.                                   *)
NotStarted ==
    /\ \A t \in Tasks : t \notin added \/ Queued(t) => state[t] = "PENDING"
    /\ \A th \in Threads :
          /\ adding[th] # NoTask => state[adding[th]] = "PENDING"
          /\ cpc[th] = "execute" \/ (cpc[th] = "executing" /\ pc[th] = "cas") =>
                state[cur[th]] = "PENDING"
          /\ cpc[th] = "remove" \/ (cpc[th] = "executing" /\ pc[th] = "returned") =>
                state[cur[th]] = "COMPLETED"

(* One thread destroys the client, while nobody else uses it.              *)
Gone == {"destroyed", "join", "end"}
OneDestructor ==
    /\ \A u, v \in Users : cpc[u] \in Dtor \cup Gone /\ cpc[v] \in Dtor \cup Gone => u = v
    /\ Dying => \A u \in Users : cpc[u] \in {"user"} \cup Dtor \cup Gone /\ adding[u] = NoTask

(* CancelAllAndWait leaves no request behind: until it is released, a task *)
(* is in pending_requests_ or in what was moved out of it, and what is     *)
(* there after the move came from a task that runs.                        *)
Waiting(u) == cpc[u] \in {"dtorWait", "dtorBlocked"}
AllKept ==
    /\ \A u \in Users : cpc[u] \in {"dtorWait", "dtorBlocked"} \cup Gone => pending \subseteq spawned
    /\ \A t \in added \ (spawned \cup gaveUp) :
          \/ t \in pending
          \/ \E u \in Users : Waiting(u) /\ t \in todo[u]
          \/ Released(t)

ClientInv ==
    /\ Roles /\ Calls /\ Adding /\ NoScheduler /\ OnePlace /\ NotStarted /\ OneDestructor /\ AllKept

-----------------------------------------------------------------------------
(* What the client's steps do to its tasks *)

(* What a step of a thread inside Execute or BlockingCancel does to the    *)
(* state of a task, as far as the client's bookkeeping is concerned.       *)
TaskEffect(th) ==
    /\ arg' = arg
    /\ \A e \in Threads \ {th} : pc'[e] = pc[e] /\ ret'[e] = ret[e]
    /\ \/ /\ pc[th] = "cas" /\ state[arg[th]] = "PENDING" /\ pc'[th] = "move"
          /\ state' = [state EXCEPT ![arg[th]] = "IN_PROGRESS"]
       \/ /\ pc[th] = "cas" /\ state[arg[th]] # "PENDING" /\ pc'[th] = "returned"
          /\ state' = state
       \/ /\ pc[th] \in Undecided \cup Decided /\ pc'[th] \in Undecided \cup Decided
          /\ state' = state
       \/ /\ pc[th] = "store" /\ pc'[th] = "returned"
          /\ state' = [state EXCEPT ![arg[th]] = "COMPLETED"]
       \/ /\ pc[th] \in Blocking /\ state' = state
          /\ pc'[th] \in Blocking \/ (pc'[th] = "returned" /\ ret'[th] \in {"true", "false"})

(* A thread takes its task through PENDING, IN_PROGRESS and COMPLETED      *)
(* (Execute), or leaves its state alone (BlockingCancel).                  *)
LEMMA TaskEffects ==
    ASSUME TypeOK, NEW th \in Threads, Step(th) \/ Timeout(th)
    PROVE  TaskEffect(th)
  <1> USE DEF TypeOK, Types, TaskEffect, Goto, Leave, Undecided, Decided, Blocking,
              contextVars, implVars, localVars, historyVars
  <1>1. CASE ExecuteCas(th)
    BY <1>1 DEF ExecuteCas, MayExecute
  <1>2. CASE ExecuteMove(th)
    BY <1>2 DEF ExecuteMove
  <1>3. CASE ExecuteStart(th)
    BY <1>3 DEF ExecuteStart
  <1>4. CASE ExecuteRecheck(th)
    BY <1>4 DEF ExecuteRecheck
  <1>5. CASE ExecuteDeliver(th)
    BY <1>5 DEF ExecuteDeliver
  <1>6. CASE ExecuteRelease(th)
    BY <1>6 DEF ExecuteRelease
  <1>7. CASE ExecuteNotify(th)
    BY <1>7 DEF ExecuteNotify
  <1>8. CASE ExecuteStore(th)
    BY <1>8 DEF ExecuteStore
  <1>9. CASE FunctionReturns(th)
    BY <1>9 DEF FunctionReturns
  <1>10. CASE ExecuteOrCancelled(th)
    BY <1>10 DEF ExecuteOrCancelled
  <1>11. CASE SubReturns(th)
    BY <1>11 DEF SubReturns
  <1>12. CASE BlockingLoad(th)
    BY <1>12 DEF BlockingLoad
  <1>13. CASE BlockingCancelOp(th)
    BY <1>13 DEF BlockingCancelOp
  <1>14. CASE BlockingClear(th)
    BY <1>14 DEF BlockingClear
  <1>15. CASE WaitSignaled(th)
    BY <1>15 DEF WaitSignaled
  <1>16. CASE SubTimesOut(th)
    BY <1>16 DEF SubTimesOut
  <1>17. CASE WaitTimesOut(th)
    BY <1>17 DEF WaitTimesOut
  <1> QED
    BY <1>1, <1>2, <1>3, <1>4, <1>5, <1>6, <1>7, <1>8, <1>9,
       <1>10, <1>11, <1>12, <1>13, <1>14, <1>15, <1>16, <1>17
    DEF Step, ExecuteStep, FunctionStep, BlockingStep, Timeout

(* Each step of the client is a step of its tasks, or leaves them alone:   *)
(* what TaskContext keeps, the client keeps.                               *)
LEMMA ClientIsTasks ==
    ASSUME ClientTypeOK, Roles, [ClientNext]_allVars
    PROVE  [Next]_vars
  <1> USE DEF ClientTypeOK, Next
  <1>0. CASE UNCHANGED allVars
    BY <1>0 DEF allVars
  <1>1. ASSUME NEW th \in Threads, NEW t \in Tasks, Insert(th, t) PROVE [Next]_vars
    BY <1>1 DEF Insert
  <1>2. ASSUME NEW th \in Threads, Schedule(th) PROVE [Next]_vars
    BY <1>2 DEF Schedule
  <1>3. ASSUME NEW th \in Threads, Pull(th) PROVE [Next]_vars
    BY <1>3 DEF Pull
  <1>4. ASSUME NEW th \in Threads, CallExecute(th) PROVE [Next]_vars
    BY <1>4, TaskAssumption DEF CallExecute, Roles
  <1>5. ASSUME NEW th \in Threads, ExecuteReturns(th) PROVE [Next]_vars
    BY <1>5 DEF ExecuteReturns
  <1>6. ASSUME NEW th \in Threads, Remove(th) PROVE [Next]_vars
    BY <1>6 DEF Remove
  <1>7. ASSUME NEW u \in Users, CancelPendingRequests(u) PROVE [Next]_vars
    BY <1>7 DEF CancelPendingRequests
  <1>8. ASSUME NEW u \in Users, Destroy(u) PROVE [Next]_vars
    BY <1>8 DEF Destroy
  <1>9. ASSUME NEW u \in Users, CancelOne(u) PROVE [Next]_vars
    BY <1>9, UsersAreThreads DEF CancelOne
  <1>10. ASSUME NEW u \in Users, CancelAllEnds(u) PROVE [Next]_vars
    BY <1>10 DEF CancelAllEnds
  <1>11. ASSUME NEW u \in Users, MoveContexts(u) PROVE [Next]_vars
    BY <1>11 DEF MoveContexts
  <1>12. ASSUME NEW u \in Users, BlockOnOne(u) PROVE [Next]_vars
    BY <1>12, UsersAreThreads DEF BlockOnOne
  <1>13. ASSUME NEW u \in Users, BlockReturns(u) PROVE [Next]_vars
    BY <1>13, UsersAreThreads DEF BlockReturns
  <1>14. ASSUME NEW u \in Users, DestructorEnds(u) PROVE [Next]_vars
    BY <1>14 DEF DestructorEnds
  <1>15. ASSUME NEW u \in Users, DestroyScheduler(u) PROVE [Next]_vars
    BY <1>15 DEF DestroyScheduler
  <1>16. ASSUME NEW u \in Users, JoinWorkers(u) PROVE [Next]_vars
    BY <1>16 DEF JoinWorkers
  <1>17. ASSUME NEW th \in Threads, TaskStep(th) \/ TaskTimeout(th) PROVE [Next]_vars
    BY <1>17 DEF TaskStep, TaskTimeout, Timeout
  <1>18. ASSUME NEW t \in Tasks, NetworkAnswers(t) \/ UserCancels(t) PROVE [Next]_vars
    BY <1>18 DEF NetworkAnswers, UserCancels
  <1> QED
    BY <1>0, <1>1, <1>2, <1>3, <1>4, <1>5, <1>6, <1>7, <1>8, <1>9,
       <1>10, <1>11, <1>12, <1>13, <1>14, <1>15, <1>16, <1>17, <1>18, UsersAreThreads
    DEF ClientNext, WorkerStep, UserStep

-----------------------------------------------------------------------------
(* Type correctness *)

(* Each step of the client keeps the types of its state.                   *)
LEMMA ClientTypeStep ==
    ASSUME ClientTypeOK, Roles, Calls, TypeOK', [ClientNext]_allVars
    PROVE  ClientTypeOK'
  <1> USE UsersAreThreads DEF ClientTypeOK, ClientPC, Dtor
  <1>0. CASE UNCHANGED allVars
    BY <1>0 DEF allVars, clientVars, vars, contextVars, implVars, localVars, historyVars
  <1>1. ASSUME NEW th \in Threads, NEW t \in Tasks, Insert(th, t) PROVE ClientTypeOK'
    BY <1>1 DEF Insert, MayAdd
  <1>2. ASSUME NEW th \in Threads, Schedule(th) PROVE ClientTypeOK'
    <2>1. queue' \in Seq(added)
      <3>1. CASE queue' = Append(queue, adding[th])
        <4>1. adding[th] \in added
          BY <1>2 DEF Schedule
        <4> QED BY <3>1, <4>1
      <3>2. CASE queue' = queue
        BY <3>2
      <3> QED BY <1>2, <3>1, <3>2 DEF Schedule
    <2>2. cpc' \in [Threads -> ClientPC] /\ cur' \in [Threads -> added \cup {NoTask}]
      BY <1>2 DEF Schedule, CGoto
    <2> QED BY <1>2, <2>1, <2>2 DEF Schedule
  <1>3. ASSUME NEW th \in Threads, Pull(th) PROVE ClientTypeOK'
    <2>1. queue' \in Seq(added)
      BY <1>3 DEF Pull
    <2>2. cpc' \in [Threads -> ClientPC] /\ cur' \in [Threads -> added \cup {NoTask}]
      BY <1>3 DEF Pull, CGoto
    <2> QED BY <1>3, <2>1, <2>2 DEF Pull
  <1>4. ASSUME NEW th \in Threads, CallExecute(th) PROVE ClientTypeOK'
    BY <1>4 DEF CallExecute, CGoto, Call, Goto
  <1>5. ASSUME NEW th \in Threads, ExecuteReturns(th) PROVE ClientTypeOK'
    BY <1>5 DEF ExecuteReturns, CGoto, Return, Goto
  <1>6. ASSUME NEW th \in Threads, Remove(th) PROVE ClientTypeOK'
    BY <1>6 DEF Remove, CGoto
  <1>7. ASSUME NEW u \in Users, CancelPendingRequests(u) PROVE ClientTypeOK'
    BY <1>7 DEF CancelPendingRequests, CGoto
  <1>8. ASSUME NEW u \in Users, Destroy(u) PROVE ClientTypeOK'
    BY <1>8 DEF Destroy, CGoto
  <1>9. ASSUME NEW u \in Users, CancelOne(u) PROVE ClientTypeOK'
    BY <1>9 DEF CancelOne, TokenCancel
  <1>10. ASSUME NEW u \in Users, CancelAllEnds(u) PROVE ClientTypeOK'
    BY <1>10 DEF CancelAllEnds, CGoto
  <1>11. ASSUME NEW u \in Users, MoveContexts(u) PROVE ClientTypeOK'
    BY <1>11 DEF MoveContexts, CGoto
  <1>12. ASSUME NEW u \in Users, BlockOnOne(u) PROVE ClientTypeOK'
    BY <1>12 DEF BlockOnOne, CGoto, Call, Goto
  <1>13. ASSUME NEW u \in Users, BlockReturns(u) PROVE ClientTypeOK'
    <2>1. arg[u] \in added
      BY <1>13 DEF BlockReturns, Calls
    <2>2. gaveUp' \subseteq added /\ todo' \in [Threads -> SUBSET added]
      BY <1>13, <2>1 DEF BlockReturns
    <2> QED BY <1>13, <2>2 DEF BlockReturns, CGoto
  <1>14. ASSUME NEW u \in Users, DestructorEnds(u) PROVE ClientTypeOK'
    BY <1>14 DEF DestructorEnds, CGoto
  <1>15. ASSUME NEW u \in Users, DestroyScheduler(u) PROVE ClientTypeOK'
    <2>1. queue' \in Seq(added)
      BY <1>15 DEF DestroyScheduler
    <2> QED BY <1>15, <2>1 DEF DestroyScheduler, CGoto
  <1>16. ASSUME NEW u \in Users, JoinWorkers(u) PROVE ClientTypeOK'
    BY <1>16 DEF JoinWorkers, CGoto
  <1>17. ASSUME NEW th \in Threads, TaskStep(th) \/ TaskTimeout(th) PROVE ClientTypeOK'
    BY <1>17 DEF TaskStep, TaskTimeout, clientVars
  <1>18. ASSUME NEW t \in Tasks, NetworkAnswers(t) \/ UserCancels(t) PROVE ClientTypeOK'
    BY <1>18 DEF NetworkAnswers, UserCancels, clientVars
  <1> QED
    BY <1>0, <1>1, <1>2, <1>3, <1>4, <1>5, <1>6, <1>7, <1>8, <1>9,
       <1>10, <1>11, <1>12, <1>13, <1>14, <1>15, <1>16, <1>17, <1>18, UsersAreThreads
    DEF ClientNext, WorkerStep, UserStep
-----------------------------------------------------------------------------
(* The bookkeeping of threads and closures *)

(* A thread gets a task when it starts a closure (Pull, or Schedule        *)
(* without a scheduler), and forgets it with Remove.                       *)
LEMMA RolesStep ==
    ASSUME ClientTypeOK, Roles, Adding, NoScheduler, [ClientNext]_allVars
    PROVE  Roles'
  <1> USE UsersAreThreads, TaskAssumption DEF ClientTypeOK, Roles
  <1>0. CASE UNCHANGED allVars
    BY <1>0 DEF allVars, clientVars, vars, contextVars, implVars, localVars, historyVars
  <1>1. ASSUME NEW th \in Threads, NEW t \in Tasks, Insert(th, t) PROVE Roles'
    BY <1>1 DEF Insert, MayAdd
  <1>2. ASSUME NEW th \in Threads, Schedule(th) PROVE Roles'
    BY <1>2 DEF Schedule, CGoto, Adding, NoScheduler
  <1>3. ASSUME NEW th \in Threads, Pull(th) PROVE Roles'
    BY <1>3 DEF Pull, CGoto
  <1>4. ASSUME NEW th \in Threads, CallExecute(th) PROVE Roles'
    BY <1>4 DEF CallExecute, CGoto, Call, Goto
  <1>5. ASSUME NEW th \in Threads, ExecuteReturns(th) PROVE Roles'
    BY <1>5 DEF ExecuteReturns, CGoto, Return, Goto
  <1>6. ASSUME NEW th \in Threads, Remove(th) PROVE Roles'
    BY <1>6 DEF Remove, CGoto
  <1>7. ASSUME NEW u \in Users, CancelPendingRequests(u) PROVE Roles'
    BY <1>7 DEF CancelPendingRequests, CGoto
  <1>8. ASSUME NEW u \in Users, Destroy(u) PROVE Roles'
    BY <1>8 DEF Destroy, CGoto
  <1>9. ASSUME NEW u \in Users, CancelOne(u) PROVE Roles'
    BY <1>9 DEF CancelOne, TokenCancel
  <1>10. ASSUME NEW u \in Users, CancelAllEnds(u) PROVE Roles'
    BY <1>10 DEF CancelAllEnds, CGoto
  <1>11. ASSUME NEW u \in Users, MoveContexts(u) PROVE Roles'
    BY <1>11 DEF MoveContexts, CGoto
  <1>12. ASSUME NEW u \in Users, BlockOnOne(u) PROVE Roles'
    BY <1>12 DEF BlockOnOne, CGoto, Call, Goto
  <1>13. ASSUME NEW u \in Users, BlockReturns(u) PROVE Roles'
    BY <1>13 DEF BlockReturns, CGoto, Return, Goto
  <1>14. ASSUME NEW u \in Users, DestructorEnds(u) PROVE Roles'
    BY <1>14 DEF DestructorEnds, CGoto
  <1>15. ASSUME NEW u \in Users, DestroyScheduler(u) PROVE Roles'
    BY <1>15 DEF DestroyScheduler, CGoto
  <1>16. ASSUME NEW u \in Users, JoinWorkers(u) PROVE Roles'
    BY <1>16 DEF JoinWorkers, CGoto
  <1>17. ASSUME NEW th \in Threads, TaskStep(th) \/ TaskTimeout(th) PROVE Roles'
    BY <1>17 DEF TaskStep, TaskTimeout, clientVars
  <1>18. ASSUME NEW t \in Tasks, NetworkAnswers(t) \/ UserCancels(t) PROVE Roles'
    BY <1>18 DEF NetworkAnswers, UserCancels, clientVars
  <1> QED
    BY <1>0, <1>1, <1>2, <1>3, <1>4, <1>5, <1>6, <1>7, <1>8, <1>9,
       <1>10, <1>11, <1>12, <1>13, <1>14, <1>15, <1>16, <1>17, <1>18, UsersAreThreads
    DEF ClientNext, WorkerStep, UserStep

(* A thread is inside TaskContext exactly while the client waits for       *)
(* Execute or BlockingCancel, and leaves it with the result of that call.  *)
LEMMA CallsStep ==
    ASSUME ClientTypeOK, Roles, Calls, Adding, NoScheduler, [ClientNext]_allVars
    PROVE  Calls'
  <1> USE UsersAreThreads, TaskAssumption
      DEF ClientTypeOK, TypeOK, Types, Roles, Calls, InExecute, Blocking
  <1>0. CASE UNCHANGED allVars
    BY <1>0 DEF allVars, clientVars, vars, contextVars, implVars, localVars, historyVars
  <1>1. ASSUME NEW th \in Threads, NEW t \in Tasks, Insert(th, t) PROVE Calls'
    BY <1>1 DEF Insert, MayAdd, vars, localVars
  <1>2. ASSUME NEW th \in Threads, Schedule(th) PROVE Calls'
    <2>1. UNCHANGED <<pc, arg, ret, todo>>
      BY <1>2 DEF Schedule, vars, localVars
    <2>2. CASE UNCHANGED <<cpc, cur>>
      BY <2>1, <2>2
    <2>3. CASE cur' = [cur EXCEPT ![th] = adding[th]] /\ CGoto(th, "execute") /\ ~scheduler
      <3>1. cpc[th] = "user"
        BY <1>2, <2>3 DEF Schedule, Adding, NoScheduler
      <3> QED BY <2>1, <2>3, <3>1 DEF CGoto
    <2> QED BY <1>2, <2>2, <2>3 DEF Schedule
  <1>3. ASSUME NEW th \in Threads, Pull(th) PROVE Calls'
    <2>1. UNCHANGED <<pc, arg, ret, todo>> /\ cpc[th] = "pull"
      BY <1>3 DEF Pull, vars, localVars
    <2>2. PICK next \in {"exited", "execute"} : cpc' = [cpc EXCEPT ![th] = next]
      BY <1>3 DEF Pull, CGoto
    <2>3. \A e \in Threads \ {th} : cur'[e] = cur[e]
      BY <1>3 DEF Pull
    <2> QED BY <2>1, <2>2, <2>3
  <1>4. ASSUME NEW th \in Threads, CallExecute(th) PROVE Calls'
    BY <1>4 DEF CallExecute, CGoto, Call, Goto
  <1>5. ASSUME NEW th \in Threads, ExecuteReturns(th) PROVE Calls'
    BY <1>5 DEF ExecuteReturns, CGoto, Return, Goto
  <1>6. ASSUME NEW th \in Threads, Remove(th) PROVE Calls'
    BY <1>6 DEF Remove, CGoto, vars, localVars
  <1>7. ASSUME NEW u \in Users, CancelPendingRequests(u) PROVE Calls'
    BY <1>7 DEF CancelPendingRequests, CGoto, vars, localVars
  <1>8. ASSUME NEW u \in Users, Destroy(u) PROVE Calls'
    BY <1>8 DEF Destroy, CGoto, vars, localVars
  <1>9. ASSUME NEW u \in Users, CancelOne(u) PROVE Calls'
    BY <1>9 DEF CancelOne, TokenCancel, vars, localVars
  <1>10. ASSUME NEW u \in Users, CancelAllEnds(u) PROVE Calls'
    BY <1>10 DEF CancelAllEnds, CGoto, vars, localVars
  <1>11. ASSUME NEW u \in Users, MoveContexts(u) PROVE Calls'
    BY <1>11 DEF MoveContexts, CGoto, vars, localVars
  <1>12. ASSUME NEW u \in Users, BlockOnOne(u) PROVE Calls'
    BY <1>12 DEF BlockOnOne, CGoto, Call, Goto
  <1>13. ASSUME NEW u \in Users, BlockReturns(u) PROVE Calls'
    BY <1>13 DEF BlockReturns, CGoto, Return, Goto
  <1>14. ASSUME NEW u \in Users, DestructorEnds(u) PROVE Calls'
    BY <1>14 DEF DestructorEnds, CGoto, vars, localVars
  <1>15. ASSUME NEW u \in Users, DestroyScheduler(u) PROVE Calls'
    BY <1>15 DEF DestroyScheduler, CGoto, vars, localVars
  <1>16. ASSUME NEW u \in Users, JoinWorkers(u) PROVE Calls'
    BY <1>16 DEF JoinWorkers, CGoto, vars, localVars
  <1>17. ASSUME NEW th \in Threads, TaskStep(th) \/ TaskTimeout(th) PROVE Calls'
    <2>1. TypeOK /\ UNCHANGED clientVars
      BY <1>17 DEF TaskStep, TaskTimeout
    <2>2. TaskEffect(th)
      BY <1>17, TaskEffects DEF TaskStep, TaskTimeout, Timeout
    <2>3. pc[th] # "idle"
      BY <2>2 DEF TaskEffect, Undecided, Decided
    <2> QED BY <2>1, <2>2, <2>3 DEF TaskEffect, Undecided, Decided, clientVars
  <1>18. ASSUME NEW t \in Tasks, NetworkAnswers(t) \/ UserCancels(t) PROVE Calls'
    <2>1. UNCHANGED <<clientVars, pc, arg, ret>>
      BY <1>18 DEF NetworkAnswers, UserCancels, SubCompletes, TokenCancel, localVars
    <2> QED BY <2>1 DEF clientVars
  <1> QED
    BY <1>0, <1>1, <1>2, <1>3, <1>4, <1>5, <1>6, <1>7, <1>8, <1>9,
       <1>10, <1>11, <1>12, <1>13, <1>14, <1>15, <1>16, <1>17, <1>18, UsersAreThreads
    DEF ClientNext, WorkerStep, UserStep

(* A thread that has inserted a task schedules it before anything else.    *)
LEMMA AddingStep ==
    ASSUME ClientTypeOK, Roles, Calls, Adding, [ClientNext]_allVars
    PROVE  Adding'
  <1> USE UsersAreThreads, TaskAssumption DEF ClientTypeOK, TypeOK, Types, Roles, Adding
  <1>0. CASE UNCHANGED allVars
    BY <1>0 DEF allVars, clientVars, vars, contextVars, implVars, localVars, historyVars
  <1>1. ASSUME NEW th \in Threads, NEW t \in Tasks, Insert(th, t) PROVE Adding'
    <2>1. cpc[th] = "executing" \/ th \in Users
      BY <1>1 DEF Insert, MayAdd, Calls
    <2> QED BY <1>1, <2>1 DEF Insert, MayAdd, vars
  <1>2. ASSUME NEW th \in Threads, Schedule(th) PROVE Adding'
    BY <1>2 DEF Schedule, CGoto, vars, Calls
  <1>3. ASSUME NEW th \in Threads, Pull(th) PROVE Adding'
    BY <1>3 DEF Pull, CGoto, vars, Calls
  <1>4. ASSUME NEW th \in Threads, CallExecute(th) PROVE Adding'
    BY <1>4 DEF CallExecute, CGoto, Call, Goto
  <1>5. ASSUME NEW th \in Threads, ExecuteReturns(th) PROVE Adding'
    BY <1>5 DEF ExecuteReturns, CGoto, Return, Goto
  <1>6. ASSUME NEW th \in Threads, Remove(th) PROVE Adding'
    BY <1>6 DEF Remove, CGoto, vars, Calls
  <1>7. ASSUME NEW u \in Users, CancelPendingRequests(u) PROVE Adding'
    BY <1>7 DEF CancelPendingRequests, CGoto, vars, Calls
  <1>8. ASSUME NEW u \in Users, Destroy(u) PROVE Adding'
    BY <1>8 DEF Destroy, CGoto, vars, Calls
  <1>9. ASSUME NEW u \in Users, CancelOne(u) PROVE Adding'
    BY <1>9 DEF CancelOne, TokenCancel, vars, Calls
  <1>10. ASSUME NEW u \in Users, CancelAllEnds(u) PROVE Adding'
    BY <1>10 DEF CancelAllEnds, CGoto, vars, Calls
  <1>11. ASSUME NEW u \in Users, MoveContexts(u) PROVE Adding'
    BY <1>11 DEF MoveContexts, CGoto, vars, Calls
  <1>12. ASSUME NEW u \in Users, BlockOnOne(u) PROVE Adding'
    BY <1>12 DEF BlockOnOne, CGoto, Call, Goto
  <1>13. ASSUME NEW u \in Users, BlockReturns(u) PROVE Adding'
    BY <1>13 DEF BlockReturns, CGoto, Return, Goto
  <1>14. ASSUME NEW u \in Users, DestructorEnds(u) PROVE Adding'
    BY <1>14 DEF DestructorEnds, CGoto, vars, Calls
  <1>15. ASSUME NEW u \in Users, DestroyScheduler(u) PROVE Adding'
    BY <1>15 DEF DestroyScheduler, CGoto, vars, Calls
  <1>16. ASSUME NEW u \in Users, JoinWorkers(u) PROVE Adding'
    BY <1>16 DEF JoinWorkers, CGoto, vars, Calls
  <1>17. ASSUME NEW th \in Threads, TaskStep(th) \/ TaskTimeout(th) PROVE Adding'
    <2>1. UNCHANGED clientVars /\ adding[th] = NoTask
      BY <1>17 DEF TaskStep, TaskTimeout
    <2>2. TaskEffect(th)
      BY <1>17, TaskEffects DEF TaskStep, TaskTimeout, Timeout
    <2> QED BY <2>1, <2>2 DEF TaskEffect, clientVars
  <1>18. ASSUME NEW t \in Tasks, NetworkAnswers(t) \/ UserCancels(t) PROVE Adding'
    <2>1. UNCHANGED <<clientVars, pc, arg, ret>>
      BY <1>18 DEF NetworkAnswers, UserCancels, SubCompletes, TokenCancel, localVars
    <2> QED BY <2>1 DEF clientVars
  <1> QED
    BY <1>0, <1>1, <1>2, <1>3, <1>4, <1>5, <1>6, <1>7, <1>8, <1>9,
       <1>10, <1>11, <1>12, <1>13, <1>14, <1>15, <1>16, <1>17, <1>18, UsersAreThreads
    DEF ClientNext, WorkerStep, UserStep

(* Only a scheduler has closures in its queue and workers that run them.   *)
LEMMA NoSchedulerStep ==
    ASSUME ClientTypeOK, Roles, Adding, NoScheduler, [ClientNext]_allVars
    PROVE  NoScheduler'
  <1> USE UsersAreThreads, TaskAssumption DEF ClientTypeOK, Roles, NoScheduler
  <1>0. CASE UNCHANGED allVars
    BY <1>0 DEF allVars, clientVars, vars, contextVars, implVars, localVars, historyVars
  <1>1. ASSUME NEW th \in Threads, NEW t \in Tasks, Insert(th, t) PROVE NoScheduler'
    BY <1>1 DEF Insert, MayAdd
  <1>2. ASSUME NEW th \in Threads, Schedule(th) PROVE NoScheduler'
    BY <1>2 DEF Schedule, CGoto, Adding
  <1>3. ASSUME NEW th \in Threads, Pull(th) PROVE NoScheduler'
    BY <1>3 DEF Pull, CGoto
  <1>4. ASSUME NEW th \in Threads, CallExecute(th) PROVE NoScheduler'
    BY <1>4 DEF CallExecute, CGoto, Call, Goto
  <1>5. ASSUME NEW th \in Threads, ExecuteReturns(th) PROVE NoScheduler'
    BY <1>5 DEF ExecuteReturns, CGoto, Return, Goto
  <1>6. ASSUME NEW th \in Threads, Remove(th) PROVE NoScheduler'
    BY <1>6 DEF Remove, CGoto
  <1>7. ASSUME NEW u \in Users, CancelPendingRequests(u) PROVE NoScheduler'
    BY <1>7 DEF CancelPendingRequests, CGoto
  <1>8. ASSUME NEW u \in Users, Destroy(u) PROVE NoScheduler'
    BY <1>8 DEF Destroy, CGoto
  <1>9. ASSUME NEW u \in Users, CancelOne(u) PROVE NoScheduler'
    BY <1>9 DEF CancelOne, TokenCancel
  <1>10. ASSUME NEW u \in Users, CancelAllEnds(u) PROVE NoScheduler'
    BY <1>10 DEF CancelAllEnds, CGoto
  <1>11. ASSUME NEW u \in Users, MoveContexts(u) PROVE NoScheduler'
    BY <1>11 DEF MoveContexts, CGoto
  <1>12. ASSUME NEW u \in Users, BlockOnOne(u) PROVE NoScheduler'
    BY <1>12 DEF BlockOnOne, CGoto, Call, Goto
  <1>13. ASSUME NEW u \in Users, BlockReturns(u) PROVE NoScheduler'
    BY <1>13 DEF BlockReturns, CGoto, Return, Goto
  <1>14. ASSUME NEW u \in Users, DestructorEnds(u) PROVE NoScheduler'
    BY <1>14 DEF DestructorEnds, CGoto
  <1>15. ASSUME NEW u \in Users, DestroyScheduler(u) PROVE NoScheduler'
    BY <1>15 DEF DestroyScheduler, CGoto
  <1>16. ASSUME NEW u \in Users, JoinWorkers(u) PROVE NoScheduler'
    BY <1>16 DEF JoinWorkers, CGoto
  <1>17. ASSUME NEW th \in Threads, TaskStep(th) \/ TaskTimeout(th) PROVE NoScheduler'
    BY <1>17 DEF TaskStep, TaskTimeout, clientVars
  <1>18. ASSUME NEW t \in Tasks, NetworkAnswers(t) \/ UserCancels(t) PROVE NoScheduler'
    BY <1>18 DEF NetworkAnswers, UserCancels, clientVars
  <1> QED
    BY <1>0, <1>1, <1>2, <1>3, <1>4, <1>5, <1>6, <1>7, <1>8, <1>9,
       <1>10, <1>11, <1>12, <1>13, <1>14, <1>15, <1>16, <1>17, <1>18, UsersAreThreads
    DEF ClientNext, WorkerStep, UserStep

-----------------------------------------------------------------------------
(* One closure per task *)

(* A closure that is pushed is in the queue, once if it was not before.    *)
LEMMA Pushed ==
    ASSUME NEW S, NEW q \in Seq(S), NEW x \in S
    PROVE  /\ \A t : InSeq(Append(q, x), t) <=> t = x \/ InSeq(q, t)
           /\ Once(q) /\ ~InSeq(q, x) => Once(Append(q, x))
  <1> DEFINE p == Append(q, x)
  <1>1. /\ Len(p) = Len(q) + 1 /\ Len(q) \in Nat /\ p[Len(q) + 1] = x
        /\ \A i \in 1..Len(q) : p[i] = q[i]
    OBVIOUS
  <1> HIDE DEF p
  <1>2. \A i \in 1..Len(p) : i \in 1..Len(q) \/ i = Len(q) + 1
    BY <1>1
  <1>3. \A t : InSeq(p, t) <=> t = x \/ InSeq(q, t)
    BY <1>1, <1>2 DEF InSeq
  <1>4. Once(q) /\ ~InSeq(q, x) => Once(p)
    BY <1>1, <1>2 DEF Once, InSeq
  <1> QED BY <1>3, <1>4 DEF p

(* A closure that is pulled is in the queue no more.                       *)
LEMMA Pulled ==
    ASSUME NEW S, NEW q \in Seq(S), q # <<>>
    PROVE  /\ \A t : InSeq(q, t) <=> t = Head(q) \/ InSeq(Tail(q), t)
           /\ Once(q) => Once(Tail(q)) /\ ~InSeq(Tail(q), Head(q))
  <1> DEFINE p == Tail(q)
  <1>1. /\ Len(q) = Len(p) + 1 /\ Len(p) \in Nat /\ Head(q) = q[1]
        /\ \A i \in 1..Len(p) : p[i] = q[i + 1]
    OBVIOUS
  <1> HIDE DEF p
  <1>2. \A i \in 1..Len(q) : i = 1 \/ (i - 1 \in 1..Len(p) /\ q[i] = p[i - 1])
    BY <1>1
  <1>3. ASSUME NEW t PROVE InSeq(q, t) <=> t = Head(q) \/ InSeq(p, t)
    <2>1. InSeq(q, t) => t = Head(q) \/ InSeq(p, t)
      BY <1>1, <1>2 DEF InSeq
    <2>2. t = Head(q) => InSeq(q, t)
      BY <1>1 DEF InSeq
    <2>3. ASSUME InSeq(p, t) PROVE InSeq(q, t)
      <3>1. PICK i \in 1..Len(p) : p[i] = t
        BY <2>3 DEF InSeq
      <3>2. i + 1 \in 1..Len(q) /\ q[i + 1] = t
        BY <1>1, <3>1
      <3> QED BY <3>2 DEF InSeq
    <2> QED BY <2>1, <2>2, <2>3
  <1>4. ASSUME Once(q) PROVE Once(p) /\ ~InSeq(p, Head(q))
    <2>1. ASSUME NEW i \in 1..Len(p), NEW j \in 1..Len(p), p[i] = p[j] PROVE i = j
      <3>1. i + 1 \in 1..Len(q) /\ j + 1 \in 1..Len(q) /\ q[i + 1] = q[j + 1]
        BY <1>1, <2>1
      <3>2. i + 1 = j + 1
        BY <1>4, <3>1 DEF Once
      <3> QED BY <3>2
    <2>2. ASSUME NEW i \in 1..Len(p), p[i] = Head(q) PROVE FALSE
      <3>1. i + 1 \in 1..Len(q) /\ 1 \in 1..Len(q) /\ q[i + 1] = q[1]
        BY <1>1, <2>2
      <3>2. i + 1 = 1
        BY <1>4, <3>1 DEF Once
      <3> QED BY <3>2
    <2> QED BY <2>1, <2>2 DEF Once, InSeq
  <1> QED BY <1>3, <1>4 DEF p

(* What is queued has been added, and is a task.                           *)
LEMMA QueuedAdded ==
    ASSUME ClientTypeOK, NEW t, Queued(t)
    PROVE  t \in added /\ t \in Tasks /\ t # NoTask
  BY TaskAssumption DEF ClientTypeOK, Queued, InSeq

(* AddTask makes a closure of a new task, which then moves to the queue    *)
(* and from there to one worker, or straight to the thread that runs it.   *)
LEMMA OnePlaceStep ==
    ASSUME ClientTypeOK, Roles, Adding, NoScheduler, OnePlace, [ClientNext]_allVars
    PROVE  OnePlace'
  <1> USE UsersAreThreads, TaskAssumption DEF ClientTypeOK, OnePlace, Queued
  <1>0. CASE UNCHANGED allVars
    BY <1>0 DEF allVars, clientVars, vars, contextVars, implVars, localVars, historyVars
  <1>1. ASSUME NEW th \in Threads, NEW t \in Tasks, Insert(th, t) PROVE OnePlace'
    <2>1. /\ ~Queued(t) /\ \A e \in Threads : adding[e] # t /\ cur[e] # t
          /\ adding' = [adding EXCEPT ![th] = t] /\ UNCHANGED <<queue, cur>>
      BY <1>1, QueuedAdded DEF Insert, MayAdd
    <2> QED BY <2>1
  <1>2. ASSUME NEW th \in Threads, Schedule(th) PROVE OnePlace'
    <2> DEFINE t == adding[th]
    <2>1. /\ t \in added /\ t # NoTask /\ ~Queued(t) /\ ~Queued(NoTask)
          /\ adding' = [adding EXCEPT ![th] = NoTask]
      BY <1>2, QueuedAdded DEF Schedule
    <2> HIDE DEF t
    <2>2. CASE UNCHANGED <<queue, cur>>
      BY <2>1, <2>2
    <2>3. CASE queue' = Append(queue, t) /\ UNCHANGED cur
      <3>1. \A x : InSeq(queue', x) <=> x = t \/ InSeq(queue, x)
        BY <2>1, <2>3, Pushed
      <3>2. Once(queue')
        BY <2>1, <2>3, Pushed
      <3>3. \A e \in Threads : cur[e] # t /\ (adding[e] = t => e = th)
        BY <2>1 DEF t
      <3> QED BY <2>1, <2>3, <3>1, <3>2, <3>3
    <2>4. CASE ~scheduler /\ cur' = [cur EXCEPT ![th] = t] /\ UNCHANGED queue
      <3>1. \A e \in Threads : cur[e] # t /\ (adding[e] = t => e = th)
        BY <2>1 DEF t
      <3> QED BY <2>1, <2>4, <3>1
    <2> QED BY <1>2, <2>2, <2>3, <2>4 DEF Schedule, t
  <1>3. ASSUME NEW th \in Threads, Pull(th) PROVE OnePlace'
    <2>1. CASE UNCHANGED <<queue, cur>>
      BY <1>3, <2>1 DEF Pull
    <2>2. CASE queue # <<>> /\ queue' = Tail(queue) /\ cur' = [cur EXCEPT ![th] = Head(queue)]
      <3>1. \A x : InSeq(queue, x) <=> x = Head(queue) \/ InSeq(queue', x)
        BY <2>2, Pulled
      <3>2. Once(queue') /\ ~InSeq(queue', Head(queue))
        BY <2>2, Pulled
      <3>3. \A e \in Threads : adding[e] # Head(queue) /\ cur[e] # Head(queue)
        BY <3>1
      <3>4. Head(queue) # NoTask
        BY <3>1, QueuedAdded
      <3>5. UNCHANGED adding
        BY <1>3 DEF Pull
      <3> QED BY <2>2, <3>1, <3>2, <3>3, <3>4, <3>5
    <2> QED BY <1>3, <2>1, <2>2 DEF Pull
  <1>4. ASSUME NEW th \in Threads, CallExecute(th) PROVE OnePlace'
    BY <1>4 DEF CallExecute, CGoto, Call, Goto
  <1>5. ASSUME NEW th \in Threads, ExecuteReturns(th) PROVE OnePlace'
    BY <1>5 DEF ExecuteReturns, CGoto, Return, Goto
  <1>6. ASSUME NEW th \in Threads, Remove(th) PROVE OnePlace'
    <2>1. ~Queued(NoTask)
      BY QueuedAdded
    <2> QED BY <1>6, <2>1 DEF Remove
  <1>7. ASSUME NEW u \in Users, CancelPendingRequests(u) PROVE OnePlace'
    BY <1>7 DEF CancelPendingRequests, CGoto
  <1>8. ASSUME NEW u \in Users, Destroy(u) PROVE OnePlace'
    BY <1>8 DEF Destroy, CGoto
  <1>9. ASSUME NEW u \in Users, CancelOne(u) PROVE OnePlace'
    BY <1>9 DEF CancelOne, TokenCancel
  <1>10. ASSUME NEW u \in Users, CancelAllEnds(u) PROVE OnePlace'
    BY <1>10 DEF CancelAllEnds, CGoto
  <1>11. ASSUME NEW u \in Users, MoveContexts(u) PROVE OnePlace'
    BY <1>11 DEF MoveContexts, CGoto
  <1>12. ASSUME NEW u \in Users, BlockOnOne(u) PROVE OnePlace'
    BY <1>12 DEF BlockOnOne, CGoto, Call, Goto
  <1>13. ASSUME NEW u \in Users, BlockReturns(u) PROVE OnePlace'
    BY <1>13 DEF BlockReturns, CGoto, Return, Goto
  <1>14. ASSUME NEW u \in Users, DestructorEnds(u) PROVE OnePlace'
    BY <1>14 DEF DestructorEnds, CGoto
  <1>15. ASSUME NEW u \in Users, DestroyScheduler(u) PROVE OnePlace'
    <2>1. queue' = <<>> /\ UNCHANGED <<adding, cur>>
      BY <1>15 DEF DestroyScheduler
    <2>2. Once(queue') /\ \A t : ~InSeq(queue', t)
      BY <2>1 DEF Once, InSeq
    <2> QED BY <2>1, <2>2
  <1>16. ASSUME NEW u \in Users, JoinWorkers(u) PROVE OnePlace'
    BY <1>16 DEF JoinWorkers, CGoto
  <1>17. ASSUME NEW th \in Threads, TaskStep(th) \/ TaskTimeout(th) PROVE OnePlace'
    BY <1>17 DEF TaskStep, TaskTimeout, clientVars
  <1>18. ASSUME NEW t \in Tasks, NetworkAnswers(t) \/ UserCancels(t) PROVE OnePlace'
    BY <1>18 DEF NetworkAnswers, UserCancels, clientVars
  <1> QED
    BY <1>0, <1>1, <1>2, <1>3, <1>4, <1>5, <1>6, <1>7, <1>8, <1>9,
       <1>10, <1>11, <1>12, <1>13, <1>14, <1>15, <1>16, <1>17, <1>18, UsersAreThreads
    DEF ClientNext, WorkerStep, UserStep

-----------------------------------------------------------------------------
(* Who may start a task *)

(* Only the thread that has the closure of a task takes it out of PENDING. *)
LEMMA NotStartedStep ==
    ASSUME ClientTypeOK, Roles, Calls, Adding, NoScheduler, OnePlace, NotStarted,
           [ClientNext]_allVars
    PROVE  NotStarted'
  <1> USE UsersAreThreads, TaskAssumption DEF ClientTypeOK, NotStarted, Queued
  <1>0. CASE UNCHANGED allVars
    BY <1>0 DEF allVars, clientVars, vars, contextVars, implVars, localVars, historyVars
  <1>1. ASSUME NEW th \in Threads, NEW t \in Tasks, Insert(th, t) PROVE NotStarted'
    <2>1. /\ state[t] = "PENDING" /\ t \in Tasks /\ t \notin added
          /\ added' = added \cup {t} /\ adding' = [adding EXCEPT ![th] = t]
          /\ UNCHANGED <<queue, cpc, pc, cur, state>>
      BY <1>1 DEF Insert, MayAdd, vars, implVars
    <2> QED BY <2>1
  <1>2. ASSUME NEW th \in Threads, Schedule(th) PROVE NotStarted'
    <2> DEFINE t == adding[th]
    <2>1. /\ t \in added /\ t # NoTask /\ state[t] = "PENDING"
          /\ adding' = [adding EXCEPT ![th] = NoTask] /\ UNCHANGED <<added, pc, state>>
      BY <1>2 DEF Schedule, vars, implVars
    <2> HIDE DEF t
    <2>2. CASE UNCHANGED <<queue, cpc, cur>>
      BY <2>1, <2>2
    <2>3. CASE queue' = Append(queue, t) /\ UNCHANGED <<cpc, cur>>
      <3>1. \A x : InSeq(queue', x) <=> x = t \/ InSeq(queue, x)
        BY <2>1, <2>3, Pushed
      <3> QED BY <2>1, <2>3, <3>1
    <2>4. CASE cur' = [cur EXCEPT ![th] = t] /\ CGoto(th, "execute") /\ UNCHANGED queue
      BY <2>1, <2>4 DEF CGoto
    <2> QED BY <1>2, <2>2, <2>3, <2>4 DEF Schedule, t
  <1>3. ASSUME NEW th \in Threads, Pull(th) PROVE NotStarted'
    <2>0. UNCHANGED <<added, adding, pc, state>> /\ cpc[th] = "pull"
      BY <1>3 DEF Pull, vars, implVars
    <2>1. CASE CGoto(th, "exited") /\ UNCHANGED <<queue, cur>>
      BY <2>0, <2>1 DEF CGoto
    <2>2. CASE /\ queue # <<>> /\ queue' = Tail(queue) /\ CGoto(th, "execute")
               /\ cur' = [cur EXCEPT ![th] = Head(queue)]
      <3>1. \A x : InSeq(queue, x) <=> x = Head(queue) \/ InSeq(queue', x)
        BY <2>2, Pulled
      <3>2. state[Head(queue)] = "PENDING"
        BY <3>1, QueuedAdded
      <3> QED BY <2>0, <2>2, <3>1, <3>2 DEF CGoto
    <2> QED BY <1>3, <2>1, <2>2 DEF Pull
  <1>4. ASSUME NEW th \in Threads, CallExecute(th) PROVE NotStarted'
    BY <1>4 DEF CallExecute, CGoto, Call, Goto, implVars, TypeOK, Types
  <1>5. ASSUME NEW th \in Threads, ExecuteReturns(th) PROVE NotStarted'
    BY <1>5 DEF ExecuteReturns, CGoto, Return, Goto, implVars, TypeOK, Types
  <1>6. ASSUME NEW th \in Threads, Remove(th) PROVE NotStarted'
    BY <1>6 DEF Remove, CGoto, vars, implVars
  <1>7. ASSUME NEW u \in Users, CancelPendingRequests(u) PROVE NotStarted'
    BY <1>7 DEF CancelPendingRequests, CGoto, vars, implVars
  <1>8. ASSUME NEW u \in Users, Destroy(u) PROVE NotStarted'
    BY <1>8 DEF Destroy, CGoto, vars, implVars
  <1>9. ASSUME NEW u \in Users, CancelOne(u) PROVE NotStarted'
    BY <1>9 DEF CancelOne, TokenCancel, implVars
  <1>10. ASSUME NEW u \in Users, CancelAllEnds(u) PROVE NotStarted'
    BY <1>10 DEF CancelAllEnds, CGoto, vars, implVars
  <1>11. ASSUME NEW u \in Users, MoveContexts(u) PROVE NotStarted'
    BY <1>11 DEF MoveContexts, CGoto, vars, implVars
  <1>12. ASSUME NEW u \in Users, BlockOnOne(u) PROVE NotStarted'
    BY <1>12 DEF BlockOnOne, CGoto, Call, Goto, implVars, TypeOK, Types
  <1>13. ASSUME NEW u \in Users, BlockReturns(u) PROVE NotStarted'
    BY <1>13 DEF BlockReturns, CGoto, Return, Goto, implVars, TypeOK, Types
  <1>14. ASSUME NEW u \in Users, DestructorEnds(u) PROVE NotStarted'
    BY <1>14 DEF DestructorEnds, CGoto, vars, implVars
  <1>15. ASSUME NEW u \in Users, DestroyScheduler(u) PROVE NotStarted'
    <2>1. queue' = <<>> /\ UNCHANGED <<added, adding, cur, pc, state>>
      BY <1>15 DEF DestroyScheduler, vars, implVars
    <2>2. \A t : ~InSeq(queue', t)
      BY <2>1 DEF InSeq
    <2> QED BY <1>15, <2>1, <2>2 DEF DestroyScheduler, CGoto
  <1>16. ASSUME NEW u \in Users, JoinWorkers(u) PROVE NotStarted'
    BY <1>16 DEF JoinWorkers, CGoto, vars, implVars
  <1>17. ASSUME NEW th \in Threads, TaskStep(th) \/ TaskTimeout(th) PROVE NotStarted'
    <2>1. UNCHANGED clientVars
      BY <1>17 DEF TaskStep, TaskTimeout
    <2>2. TaskEffect(th)
      BY <1>17, TaskEffects DEF TaskStep, TaskTimeout, Timeout
    <2>3. pc[th] \notin Blocking \cup {"idle"} => cpc[th] = "executing" /\ arg[th] = cur[th]
      BY <2>2 DEF Calls, TaskEffect, Undecided, Decided, Blocking
    <2>4. cpc[th] = "executing" => cur[th] \in added /\ cur[th] # NoTask /\ ~Queued(cur[th])
      BY DEF Roles, OnePlace
    <2>5. \A e \in Threads : adding[e] = cur[th] \/ (e # th /\ cur[e] = cur[th]) =>
                              cpc[th] # "executing"
      BY <2>4 DEF OnePlace
    <2>6. cpc[th] = "executing" /\ pc[th] = "cas" => state[arg[th]] = "PENDING"
      BY <2>3, <2>4 DEF Blocking
    <2>7. UNCHANGED <<added, queue, cpc, adding, cur>>
      BY <2>1 DEF clientVars
    <2>8. pc \in [Threads -> PC] /\ state \in [Tasks -> State]
      BY DEF TypeOK, Types
    <2>9. CASE pc[th] = "cas"
      <3>1. pc'[th] = "move" /\ state' = [state EXCEPT ![cur[th]] = "IN_PROGRESS"]
        BY <2>2, <2>3, <2>6, <2>9 DEF TaskEffect, Blocking, Undecided, Decided
      <3> QED BY <2>2, <2>3, <2>4, <2>5, <2>7, <2>8, <2>9, <3>1 DEF TaskEffect, Blocking
    <2>10. CASE pc[th] = "store" /\ pc'[th] = "returned"
      <3>1. state' = [state EXCEPT ![cur[th]] = "COMPLETED"]
        BY <2>2, <2>3, <2>10 DEF TaskEffect, Blocking, Undecided, Decided
      <3> QED BY <2>2, <2>3, <2>4, <2>5, <2>7, <2>8, <2>10, <3>1 DEF TaskEffect, Blocking
    <2>11. CASE /\ pc[th] \in Undecided \cup Decided /\ pc'[th] \in Undecided \cup Decided
                /\ state' = state
      BY <2>2, <2>3, <2>7, <2>11 DEF TaskEffect, Blocking, Undecided, Decided
    <2>12. CASE pc[th] \in Blocking /\ state' = state
      <3>1. cpc[th] # "executing"
        BY <2>12 DEF Calls, InExecute, Blocking, Undecided, Decided
      <3> QED BY <2>2, <2>7, <2>12, <3>1 DEF TaskEffect
    <2> QED BY <2>2, <2>9, <2>10, <2>11, <2>12 DEF TaskEffect
  <1>18. ASSUME NEW t \in Tasks, NetworkAnswers(t) \/ UserCancels(t) PROVE NotStarted'
    <2>1. UNCHANGED <<clientVars, pc, state>>
      BY <1>18 DEF NetworkAnswers, UserCancels, SubCompletes, TokenCancel, implVars
    <2> QED BY <2>1 DEF clientVars
  <1> QED
    BY <1>0, <1>1, <1>2, <1>3, <1>4, <1>5, <1>6, <1>7, <1>8, <1>9,
       <1>10, <1>11, <1>12, <1>13, <1>14, <1>15, <1>16, <1>17, <1>18, UsersAreThreads
    DEF ClientNext, WorkerStep, UserStep

-----------------------------------------------------------------------------
(* The destructor *)

(* The destructor starts when no other call into the client is in          *)
(* progress, and no other call starts after that (Destroy).                *)
LEMMA OneDestructorStep ==
    ASSUME ClientTypeOK, Roles, Adding, NoScheduler, OneDestructor, [ClientNext]_allVars
    PROVE  OneDestructor'
  <1> USE UsersAreThreads, TaskAssumption DEF ClientTypeOK, Roles, OneDestructor, Dying, Dtor, Gone
  <1>0. CASE UNCHANGED allVars
    BY <1>0 DEF allVars, clientVars, vars, contextVars, implVars, localVars, historyVars
  <1>1. ASSUME NEW th \in Threads, NEW t \in Tasks, Insert(th, t) PROVE OneDestructor'
    BY <1>1 DEF Insert, MayAdd
  <1>2. ASSUME NEW th \in Threads, Schedule(th) PROVE OneDestructor'
    <2>1. th \in Users => ~Dying
      BY <1>2 DEF Schedule
    <2>2. adding' = [adding EXCEPT ![th] = NoTask]
      BY <1>2 DEF Schedule
    <2>3. th \in Workers => cpc' = cpc
      BY <1>2 DEF Schedule, Adding, NoScheduler
    <2>4. cpc' = cpc \/ (CGoto(th, "execute") /\ th \in Users /\ ~Dying)
      BY <1>2, <2>1, <2>3 DEF Schedule
    <2> QED BY <2>2, <2>4 DEF CGoto
  <1>3. ASSUME NEW th \in Threads, Pull(th) PROVE OneDestructor'
    BY <1>3 DEF Pull, CGoto
  <1>4. ASSUME NEW th \in Threads, CallExecute(th) PROVE OneDestructor'
    BY <1>4 DEF CallExecute, CGoto, Call, Goto
  <1>5. ASSUME NEW th \in Threads, ExecuteReturns(th) PROVE OneDestructor'
    BY <1>5 DEF ExecuteReturns, CGoto, Return, Goto
  <1>6. ASSUME NEW th \in Threads, Remove(th) PROVE OneDestructor'
    BY <1>6 DEF Remove, CGoto
  <1>7. ASSUME NEW u \in Users, CancelPendingRequests(u) PROVE OneDestructor'
    BY <1>7 DEF CancelPendingRequests, CGoto
  <1>8. ASSUME NEW u \in Users, Destroy(u) PROVE OneDestructor'
    BY <1>8 DEF Destroy, CGoto
  <1>9. ASSUME NEW u \in Users, CancelOne(u) PROVE OneDestructor'
    BY <1>9 DEF CancelOne, TokenCancel
  <1>10. ASSUME NEW u \in Users, CancelAllEnds(u) PROVE OneDestructor'
    BY <1>10 DEF CancelAllEnds, CGoto
  <1>11. ASSUME NEW u \in Users, MoveContexts(u) PROVE OneDestructor'
    BY <1>11 DEF MoveContexts, CGoto
  <1>12. ASSUME NEW u \in Users, BlockOnOne(u) PROVE OneDestructor'
    BY <1>12 DEF BlockOnOne, CGoto, Call, Goto
  <1>13. ASSUME NEW u \in Users, BlockReturns(u) PROVE OneDestructor'
    BY <1>13 DEF BlockReturns, CGoto, Return, Goto
  <1>14. ASSUME NEW u \in Users, DestructorEnds(u) PROVE OneDestructor'
    BY <1>14 DEF DestructorEnds, CGoto
  <1>15. ASSUME NEW u \in Users, DestroyScheduler(u) PROVE OneDestructor'
    BY <1>15 DEF DestroyScheduler, CGoto
  <1>16. ASSUME NEW u \in Users, JoinWorkers(u) PROVE OneDestructor'
    BY <1>16 DEF JoinWorkers, CGoto
  <1>17. ASSUME NEW th \in Threads, TaskStep(th) \/ TaskTimeout(th) PROVE OneDestructor'
    BY <1>17 DEF TaskStep, TaskTimeout, clientVars
  <1>18. ASSUME NEW t \in Tasks, NetworkAnswers(t) \/ UserCancels(t) PROVE OneDestructor'
    BY <1>18 DEF NetworkAnswers, UserCancels, clientVars
  <1> QED
    BY <1>0, <1>1, <1>2, <1>3, <1>4, <1>5, <1>6, <1>7, <1>8, <1>9,
       <1>10, <1>11, <1>12, <1>13, <1>14, <1>15, <1>16, <1>17, <1>18, UsersAreThreads
    DEF ClientNext, WorkerStep, UserStep

(* CancelAllAndWait takes every request into account: Remove forgets one   *)
(* that is released, the wait ends for one that is, or is given up.        *)
LEMMA AllKeptStep ==
    ASSUME ClientTypeOK, OnceInv, ReleasedInv, Roles, Calls, Adding, NotStarted, AllKept,
           [ClientNext]_allVars
    PROVE  AllKept'
  <1>a. \A t \in Tasks : Released(t) => Released(t)'
    BY ClientIsTasks, ReleasedStable DEF ClientTypeOK
  <1> USE UsersAreThreads, TaskAssumption DEF ClientTypeOK, AllKept, Waiting, Gone
  <1> HIDE DEF Released
  <1>0. CASE UNCHANGED allVars
    BY <1>0, <1>a DEF allVars, clientVars
  <1>1. ASSUME NEW th \in Threads, NEW t \in Tasks, Insert(th, t) PROVE AllKept'
    <2>1. CASE th \in Workers
      BY <1>1, <1>a, <2>1 DEF Insert, MayAdd
    <2>2. CASE th \in Users
      <3>1. \A u \in Users : cpc[u] \notin {"dtorWait", "dtorBlocked"} \cup Gone
        BY <1>1, <2>2 DEF Insert, MayAdd, Dying, Dtor
      <3> QED BY <1>1, <1>a, <2>2, <3>1 DEF Insert, MayAdd
    <2> QED BY <2>1, <2>2
  <1>2. ASSUME NEW th \in Threads, Schedule(th) PROVE AllKept'
    <2>1. \A u \in Users : cpc'[u] = cpc[u] \/ (cpc[u] = "user" /\ cpc'[u] = "execute")
      <3>1. th \in Users => cpc[th] = "user"
        BY <1>2 DEF Schedule, Adding
      <3>2. cpc' = cpc \/ cpc' = [cpc EXCEPT ![th] = "execute"]
        BY <1>2 DEF Schedule, CGoto
      <3> QED BY <3>1, <3>2
    <2>2. UNCHANGED <<added, pending, spawned, gaveUp, todo>>
      BY <1>2 DEF Schedule
    <2> QED BY <1>a, <2>1, <2>2
  <1>3. ASSUME NEW th \in Threads, Pull(th) PROVE AllKept'
    BY <1>3, <1>a DEF Pull, CGoto
  <1>4. ASSUME NEW th \in Threads, CallExecute(th) PROVE AllKept'
    BY <1>4, <1>a DEF CallExecute, CGoto, Call, Goto
  <1>5. ASSUME NEW th \in Threads, ExecuteReturns(th) PROVE AllKept'
    BY <1>5, <1>a DEF ExecuteReturns, CGoto, Return, Goto
  <1>6. ASSUME NEW th \in Threads, Remove(th) PROVE AllKept'
    <2>1. Released(cur[th]) /\ cur[th] \in Tasks
      BY <1>6 DEF Remove, NotStarted, ReleasedInv, Roles
    <2>2. \A u \in Users : Waiting(u)' <=> Waiting(u)
      BY <1>6 DEF Remove, CGoto
    <2>3. \A u \in Users : cpc'[u] \in Gone => cpc[u] \in Gone
      BY <1>6 DEF Remove, CGoto
    <2> HIDE DEF Waiting, Gone
    <2>4. pending' \subseteq pending /\ \A t \in pending : t \in pending' \/ t = cur[th]
      BY <1>6 DEF Remove
    <2>5. UNCHANGED <<added, spawned, gaveUp, todo>>
      BY <1>6 DEF Remove
    <2>6. \A u \in Users : cpc'[u] \in {"dtorWait", "dtorBlocked"} =>
                           cpc[u] \in {"dtorWait", "dtorBlocked"}
      BY <2>2 DEF Waiting
    <2> QED BY <1>a, <2>1, <2>2, <2>3, <2>4, <2>5, <2>6
  <1>7. ASSUME NEW u \in Users, CancelPendingRequests(u) PROVE AllKept'
    BY <1>7, <1>a DEF CancelPendingRequests, CGoto
  <1>8. ASSUME NEW u \in Users, Destroy(u) PROVE AllKept'
    BY <1>8, <1>a DEF Destroy, CGoto
  <1>9. ASSUME NEW u \in Users, CancelOne(u) PROVE AllKept'
    BY <1>9, <1>a DEF CancelOne, TokenCancel
  <1>10. ASSUME NEW u \in Users, CancelAllEnds(u) PROVE AllKept'
    BY <1>10, <1>a DEF CancelAllEnds, CGoto
  <1>11. ASSUME NEW u \in Users, MoveContexts(u) PROVE AllKept'
    <2>1. /\ todo' = [todo EXCEPT ![u] = pending] /\ UNCHANGED <<added, spawned, gaveUp>>
          /\ pending' = {} /\ cpc[u] = "dtorMove" /\ cpc' = [cpc EXCEPT ![u] = "dtorWait"]
      BY <1>11 DEF MoveContexts, CGoto
    <2> QED BY <1>a, <2>1
  <1>12. ASSUME NEW u \in Users, BlockOnOne(u) PROVE AllKept'
    BY <1>12, <1>a DEF BlockOnOne, CGoto, Call, Goto
  <1>13. ASSUME NEW u \in Users, BlockReturns(u) PROVE AllKept'
    <2>1. arg[u] \in Tasks /\ (ret[u] = "true" => Released(arg[u])) /\ ret[u] \in {"true", "false"}
      BY <1>13 DEF BlockReturns, Calls, ReleasedInv, Return, Blocking
    <2>2. /\ todo' = [todo EXCEPT ![u] = todo[u] \ {arg[u]}] /\ UNCHANGED <<added, pending, spawned>>
          /\ gaveUp' = IF ret[u] = "false" THEN gaveUp \cup {arg[u]} ELSE gaveUp
          /\ cpc[u] = "dtorBlocked" /\ cpc' = [cpc EXCEPT ![u] = "dtorWait"]
      BY <1>13 DEF BlockReturns, CGoto
    <2>3. \A v \in Users : /\ v # u => cpc'[v] = cpc[v] /\ todo'[v] = todo[v]
                           /\ Waiting(v)' <=> Waiting(v)
                           /\ cpc'[v] \in {"dtorWait", "dtorBlocked"} \cup Gone <=>
                              cpc[v] \in {"dtorWait", "dtorBlocked"} \cup Gone
      BY <2>2
    <2>4. \A x \in todo[u] : x \in todo'[u] \/ x = arg[u]
      BY <2>2
    <2> HIDE DEF Waiting, Gone
    <2> QED BY <1>a, <2>1, <2>2, <2>3, <2>4
  <1>14. ASSUME NEW u \in Users, DestructorEnds(u) PROVE AllKept'
    BY <1>14, <1>a DEF DestructorEnds, CGoto
  <1>15. ASSUME NEW u \in Users, DestroyScheduler(u) PROVE AllKept'
    BY <1>15, <1>a DEF DestroyScheduler, CGoto
  <1>16. ASSUME NEW u \in Users, JoinWorkers(u) PROVE AllKept'
    BY <1>16, <1>a DEF JoinWorkers, CGoto
  <1>17. ASSUME NEW th \in Threads, TaskStep(th) \/ TaskTimeout(th) PROVE AllKept'
    <2>1. UNCHANGED clientVars
      BY <1>17 DEF TaskStep, TaskTimeout, NetworkAnswers, UserCancels
    <2> QED BY <1>a, <2>1 DEF clientVars
  <1>18. ASSUME NEW t \in Tasks, NetworkAnswers(t) \/ UserCancels(t) PROVE AllKept'
    <2>1. UNCHANGED clientVars
      BY <1>18 DEF TaskStep, TaskTimeout, NetworkAnswers, UserCancels
    <2> QED BY <1>a, <2>1 DEF clientVars
  <1> QED
    BY <1>0, <1>1, <1>2, <1>3, <1>4, <1>5, <1>6, <1>7, <1>8, <1>9,
       <1>10, <1>11, <1>12, <1>13, <1>14, <1>15, <1>16, <1>17, <1>18, UsersAreThreads
    DEF ClientNext, WorkerStep, UserStep

-----------------------------------------------------------------------------
(* The theorems *)

(* All of it holds in the initial state.                                   *)
LEMMA ClientInvInit == ClientInit => ClientTypeOK /\ ClientInv /\ NoLeak
  <1> SUFFICES ASSUME ClientInit PROVE ClientTypeOK /\ ClientInv /\ NoLeak
    OBVIOUS
  <1> USE UsersAreThreads DEF ClientInit
  <1>1. TypeOK
    BY TypeInit
  <1>2. ClientTypeOK
    BY <1>1 DEF ClientTypeOK, ClientPC
  <1>3. \A t : ~Queued(t)
    BY DEF Queued, InSeq
  <1>4. \A th \in Threads : pc[th] = "idle"
    BY DEF Init
  <1>5. Roles /\ Calls /\ Adding /\ NoScheduler
    BY <1>4 DEF Roles, Calls, Adding, NoScheduler
  <1>6. OnePlace
    BY <1>3 DEF OnePlace, Once
  <1>7. NotStarted
    BY DEF NotStarted, Init
  <1>8. OneDestructor
    BY DEF OneDestructor, Dying, Dtor, Gone
  <1>9. AllKept /\ NoLeak
    BY DEF AllKept, NoLeak, Gone
  <1> QED BY <1>2, <1>5, <1>6, <1>7, <1>8, <1>9 DEF ClientInv

(* PendingRequests keeps an inserted task as long as someone has it.       *)
LEMMA NoLeakStep ==
    ASSUME ClientTypeOK, Roles, Adding, NoScheduler, OnePlace, NoLeak, [ClientNext]_allVars
    PROVE  NoLeak'
  <1> DEFINE Held == \A t \in pending : Queued(t) \/ \E e \in Threads : adding[e] = t \/ cur[e] = t
  <1>a. NoLeak <=> (open => Held)
    BY DEF NoLeak, Queued, InSeq
  <1>b. NoLeak' <=> (open' => Held')
    BY DEF NoLeak, Queued, InSeq
  <1> SUFFICES ASSUME open' PROVE Held'
    BY <1>b
  <1> USE <1>a, UsersAreThreads DEF ClientTypeOK, Queued
  <1> HIDE DEF NoLeak
  <1>0. CASE UNCHANGED allVars
    BY <1>0 DEF allVars, clientVars, vars, contextVars, implVars, localVars, historyVars
  <1>1. ASSUME NEW th \in Threads, NEW t \in Tasks, Insert(th, t) PROVE Held'
    <2>1. \A e \in Threads \ {th} : adding'[e] = adding[e]
      BY <1>1 DEF Insert
    <2>2. adding'[th] = t /\ adding[th] = NoTask /\ pending' = pending \cup {t}
      BY <1>1 DEF Insert, MayAdd
    <2>3. UNCHANGED <<open, queue, cur>>
      BY <1>1 DEF Insert
    <2>4. \A x \in pending : x # NoTask
      BY TaskAssumption
    <2> QED BY <2>1, <2>2, <2>3, <2>4
  <1>2. ASSUME NEW th \in Threads, Schedule(th) PROVE Held'
    <2> DEFINE t == adding[th]
    <2>1. /\ t \in added /\ UNCHANGED <<pending, open>> /\ open
          /\ adding' = [adding EXCEPT ![th] = NoTask]
      BY <1>2 DEF Schedule
    <2> HIDE DEF t
    <2>2. CASE queue' = Append(queue, t) /\ UNCHANGED cur
      <3>1. \A x : InSeq(queue', x) <=> x = t \/ InSeq(queue, x)
        BY <2>1, <2>2, Pushed
      <3> QED BY <2>1, <2>2, <3>1 DEF t
    <2>3. CASE ~scheduler /\ cur' = [cur EXCEPT ![th] = t] /\ UNCHANGED queue
      <3>1. cur[th] = NoTask
        BY <1>2, <2>3 DEF Schedule, Adding, NoScheduler, Roles
      <3>2. \A x \in pending : x # NoTask
        BY TaskAssumption
      <3> QED BY <2>1, <2>3, <3>1, <3>2 DEF t
    <2> QED BY <1>2, <2>1, <2>2, <2>3 DEF Schedule, t
  <1>3. ASSUME NEW th \in Threads, Pull(th) PROVE Held'
    <2>0. UNCHANGED <<pending, open, adding>> /\ cur[th] = NoTask
      BY <1>3 DEF Pull, Roles
    <2>1. CASE UNCHANGED <<queue, cur>>
      BY <2>0, <2>1
    <2>2. CASE queue # <<>> /\ queue' = Tail(queue) /\ cur' = [cur EXCEPT ![th] = Head(queue)]
      <3>1. \A x : InSeq(queue, x) <=> x = Head(queue) \/ InSeq(queue', x)
        BY <2>2, Pulled
      <3>2. \A x \in pending : x # NoTask
        BY TaskAssumption
      <3> QED BY <2>0, <2>2, <3>1, <3>2
    <2> QED BY <1>3, <2>1, <2>2 DEF Pull
  <1>4. ASSUME NEW th \in Threads, CallExecute(th) PROVE Held'
    BY <1>4 DEF CallExecute, CGoto, Call, Goto
  <1>5. ASSUME NEW th \in Threads, ExecuteReturns(th) PROVE Held'
    BY <1>5 DEF ExecuteReturns, CGoto, Return, Goto
  <1>6. ASSUME NEW th \in Threads, Remove(th) PROVE Held'
    BY <1>6 DEF Remove, CGoto
  <1>7. ASSUME NEW u \in Users, CancelPendingRequests(u) PROVE Held'
    BY <1>7 DEF CancelPendingRequests, CGoto
  <1>8. ASSUME NEW u \in Users, Destroy(u) PROVE Held'
    BY <1>8 DEF Destroy, CGoto
  <1>9. ASSUME NEW u \in Users, CancelOne(u) PROVE Held'
    BY <1>9 DEF CancelOne, TokenCancel
  <1>10. ASSUME NEW u \in Users, CancelAllEnds(u) PROVE Held'
    BY <1>10 DEF CancelAllEnds, CGoto
  <1>11. ASSUME NEW u \in Users, MoveContexts(u) PROVE Held'
    BY <1>11 DEF MoveContexts, CGoto
  <1>12. ASSUME NEW u \in Users, BlockOnOne(u) PROVE Held'
    BY <1>12 DEF BlockOnOne, CGoto, Call, Goto
  <1>13. ASSUME NEW u \in Users, BlockReturns(u) PROVE Held'
    BY <1>13 DEF BlockReturns, CGoto, Return, Goto
  <1>14. ASSUME NEW u \in Users, DestructorEnds(u) PROVE Held'
    BY <1>14 DEF DestructorEnds, CGoto
  <1>15. ASSUME NEW u \in Users, DestroyScheduler(u) PROVE Held'
    BY <1>15 DEF DestroyScheduler, CGoto
  <1>16. ASSUME NEW u \in Users, JoinWorkers(u) PROVE Held'
    BY <1>16 DEF JoinWorkers, CGoto
  <1>17. ASSUME NEW th \in Threads, TaskStep(th) \/ TaskTimeout(th) PROVE Held'
    BY <1>17 DEF TaskStep, TaskTimeout, clientVars
  <1>18. ASSUME NEW t \in Tasks, NetworkAnswers(t) \/ UserCancels(t) PROVE Held'
    BY <1>18 DEF NetworkAnswers, UserCancels, clientVars
  <1> QED
    BY <1>0, <1>1, <1>2, <1>3, <1>4, <1>5, <1>6, <1>7, <1>8, <1>9,
       <1>10, <1>11, <1>12, <1>13, <1>14, <1>15, <1>16, <1>17, <1>18, UsersAreThreads
    DEF ClientNext, WorkerStep, UserStep

(* The invariant of the client is inductive, together with what            *)
(* TaskContext keeps for each task.                                        *)
LEMMA ClientInvariant ==
    ClientSpec => [](/\ ClientTypeOK /\ ClientInv /\ NoLeak
                     /\ OnceInv /\ HoldInv /\ ReleasedInv)
  <1> DEFINE Inv == /\ ClientTypeOK /\ ClientInv /\ NoLeak
                    /\ OnceInv /\ HoldInv /\ ReleasedInv
  <1>1. ClientInit => Inv
    BY ClientInvInit, OnceInit, HoldInit, ReleasedInit DEF ClientInit
  <1>2. Inv /\ [ClientNext]_allVars => Inv'
    <2> SUFFICES ASSUME Inv, [ClientNext]_allVars PROVE Inv'
      OBVIOUS
    <2>1. /\ Roles /\ Calls /\ Adding /\ NoScheduler /\ OnePlace /\ NotStarted
          /\ OneDestructor /\ AllKept /\ TypeOK
      BY DEF ClientInv, ClientTypeOK
    <2>2. [Next]_vars
      BY <2>1, ClientIsTasks
    <2>3. TypeOK' /\ OnceInv' /\ HoldInv' /\ ReleasedInv'
      BY <2>1, <2>2, TypeStep, OnceStep, HoldStep, ReleasedStep
    <2>4. ClientTypeOK'
      BY <2>1, <2>3, ClientTypeStep
    <2>5. Roles' /\ Calls' /\ Adding' /\ NoScheduler'
      BY <2>1, RolesStep, CallsStep, AddingStep, NoSchedulerStep
    <2>6. OnePlace' /\ NotStarted' /\ OneDestructor' /\ AllKept' /\ NoLeak'
      BY <2>1, OnePlaceStep, NotStartedStep, OneDestructorStep, AllKeptStep, NoLeakStep
    <2> QED BY <2>3, <2>4, <2>5, <2>6 DEF ClientInv
  <1> HIDE DEF Inv
  <1>3. ClientSpec => []Inv
    BY <1>1, <1>2, PTL DEF ClientSpec
  <1> QED BY <1>3 DEF Inv

(* The client uses its tasks as TaskContext specifies: AddTask, its        *)
(* closure, CancelAll and CancelAllAndWait only call what any thread may   *)
(* call at any time, so that each theorem about TaskContext is one about   *)
(* the requests of a client.                                               *)
THEOREM ClientImplementsTasks == ClientSpec => Spec
  <1>1. ClientInit => Init
    BY DEF ClientInit
  <1>2. ClientTypeOK /\ ClientInv /\ [ClientNext]_allVars => [Next]_vars
    BY ClientIsTasks DEF ClientInv
  <1> QED BY <1>1, <1>2, ClientInvariant, PTL DEF ClientSpec, Spec

(* Every variable of client and tasks keeps its type, and PendingRequests  *)
(* holds on to no finished request (AddTask, PendingRequests::Remove).     *)
THEOREM NothingLeaks == ClientSpec => [](ClientTypeOK /\ NoLeak)
  BY ClientInvariant, PTL

(* Once the client's destructor has returned, every callback has been      *)
(* invoked and nobody holds a function or a callback of a request, save    *)
(* those whose wait timed out and those that a running task added          *)
(* (PendingRequests::CancelAllAndWait).                                    *)
THEOREM QuietAfterwards == ClientSpec => []QuietAfterDestructor
  <1>1. ClientTypeOK /\ ClientInv /\ HoldInv => QuietAfterDestructor
    <2> SUFFICES ASSUME ClientTypeOK, ClientInv, HoldInv,
                        NEW u \in Users, cpc[u] \in {"destroyed", "join", "end"},
                        NEW t \in added \ (spawned \cup gaveUp)
                 PROVE  /\ t \notin NoCallback => delivered[t] # <<>>
                        /\ ~func[t] /\ ~cb[t]
                        /\ \A th \in Threads : arg[th] = t => ~fn[th] /\ ~ucb[th]
      BY DEF QuietAfterDestructor
    <2>1. t \in Tasks /\ t \notin pending
      BY DEF ClientTypeOK, ClientInv, AllKept, Gone
    <2>2. \A v \in Users : ~Waiting(v)
      BY DEF ClientInv, OneDestructor, Waiting, Dtor, Gone
    <2>3. Released(t)
      BY <2>1, <2>2 DEF ClientInv, AllKept
    <2>4. ASSUME NEW e \in Threads, arg[e] = t, fn[e] \/ ucb[e] PROVE FALSE
      <3>1. pc[e] \in Holding \cup {"release"}
        BY <2>4 DEF HoldInv
      <3>2. Executes(e, t)
        BY <2>4, <3>1 DEF Executes, Undecided, Decided, Holding
      <3> QED BY <2>3, <3>1, <3>2 DEF Released, Holding
    <2> QED BY <2>3, <2>4 DEF Released, Done
  <1> QED BY <1>1, ClientInvariant, PTL
=============================================================================
