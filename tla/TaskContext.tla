----------------------------- MODULE TaskContext -----------------------------
(***************************************************************************)
(* olp::client::TaskContext together with the two objects every task owns: *)
(* its CancellationContext (is_cancelled_, sub_operation_cancel_token_)    *)
(* and its Condition (signaled_).                                          *)
(*                                                                         *)
(* Threads call Execute, BlockingCancel and the task's cancel token on     *)
(* shared tasks, in any order and any number of times.  A step of the      *)
(* model is what the code does between two points where another thread     *)
(* can interfere: one atomic operation, one critical section, one call of  *)
(* user code.  pc[th] is the next such step of thread th.                  *)
(***************************************************************************)
EXTENDS Naturals, Sequences

CONSTANTS
    Tasks,          \* TaskContextImpl instances
    Threads,        \* threads that call into them
    NoCallback,     \* the tasks created with an empty (nullptr) callback
    NoTask          \* argument of a thread that is inside no call

ASSUME TaskAssumption == NoTask \notin Tasks /\ NoCallback \subseteq Tasks

VARIABLES
    state,          \* state_
    func,           \* execute_func_ is not empty
    cb,             \* callback_ is not empty
    cancelled,      \* context_.is_cancelled_
    sub,            \* the operation behind sub_operation_cancel_token_
    signaled,       \* condition_.signaled_
    pc, arg,        \* next step and task of a thread's call
    fn, ucb,        \* Execute's locals `function` and `callback`, not empty
    resp,           \* Execute's local `response`, then `user_response`
    ret,            \* what a finished call returns
    delivered,      \* history: responses handed to the user callback
    ran,            \* history: the task function has been called
    cancelPhase     \* history: what the task was doing when it was cancelled

contextVars == <<cancelled, sub, cancelPhase>>
implVars    == <<state, func, cb, signaled>>
localVars   == <<arg, fn, ucb, resp, ret>>
historyVars == <<delivered, ran>>
vars == <<contextVars, implVars, localVars, historyVars, pc>>

State    == {"PENDING", "IN_PROGRESS", "COMPLETED"}
Response == {"Success", "Error", "RequestTimeout", "Cancelled"}
Sub      == {"none", "running", "done", "stopped"}

(* The steps of Execute before and after its response is decided. *)
Undecided == {"move", "start", "body", "sub", "recheck"}
Decided   == {"deliver", "release", "notify", "store"}
Blocking  == {"load", "cancel", "clear", "wait"}
PC == {"idle", "cas", "returned"} \cup Undecided \cup Decided \cup Blocking

(* Thread th is past the compare-and-swap of Execute on task t. *)
Executes(th, t) == arg[th] = t /\ pc[th] \in Undecided \cup Decided

Types ==
    /\ state \in [Tasks -> State]
    /\ func \in [Tasks -> BOOLEAN]
    /\ cb \in [Tasks -> BOOLEAN]
    /\ cancelled \in [Tasks -> BOOLEAN]
    /\ sub \in [Tasks -> Sub]
    /\ signaled \in [Tasks -> BOOLEAN]
    /\ pc \in [Threads -> PC]
    /\ arg \in [Threads -> Tasks \cup {NoTask}]
    /\ fn \in [Threads -> BOOLEAN]
    /\ ucb \in [Threads -> BOOLEAN]
    /\ resp \in [Threads -> Response]
    /\ ret \in [Threads -> {"void", "true", "false"}]
    /\ delivered \in [Tasks -> Seq(Response)]
    /\ ran \in [Tasks -> BOOLEAN]
    /\ cancelPhase \in [Tasks -> {"none", "pending", "running", "late"}]

(* A thread is working on a task exactly while it is inside a call. *)
TypeOK == Types /\ \A th \in Threads : pc[th] = "idle" <=> arg[th] = NoTask

(* TaskContext::Create has been called for every task. *)
Init ==
    /\ state = [t \in Tasks |-> "PENDING"]
    /\ func = [t \in Tasks |-> TRUE]
    /\ cb = [t \in Tasks |-> t \notin NoCallback]
    /\ cancelled = [t \in Tasks |-> FALSE]
    /\ sub = [t \in Tasks |-> "none"]
    /\ signaled = [t \in Tasks |-> FALSE]
    /\ pc = [th \in Threads |-> "idle"]
    /\ arg = [th \in Threads |-> NoTask]
    /\ fn = [th \in Threads |-> FALSE]
    /\ ucb = [th \in Threads |-> FALSE]
    /\ resp = [th \in Threads |-> "Cancelled"]
    /\ ret = [th \in Threads |-> "void"]
    /\ delivered = [t \in Tasks |-> <<>>]
    /\ ran = [t \in Tasks |-> FALSE]
    /\ cancelPhase = [t \in Tasks |-> "none"]

Goto(th, next) == pc' = [pc EXCEPT ![th] = next]

(* A thread enters a member function of the task; first is its first step. *)
Call(th, t, first) ==
    /\ pc[th] = "idle"
    /\ arg' = [arg EXCEPT ![th] = t]
    /\ Goto(th, first)
    /\ UNCHANGED <<contextVars, implVars, historyVars, fn, ucb, resp, ret>>

Leave(th, value) ==
    /\ ret' = [ret EXCEPT ![th] = value]
    /\ Goto(th, "returned")

(* Control is back in the caller. *)
Return_KeepsTask(th) ==
    /\ pc[th] = "returned"
    /\ Goto(th, "idle")
    /\ ret' = [ret EXCEPT ![th] = "void"]
    /\ UNCHANGED <<contextVars, implVars, historyVars, arg, fn, ucb, resp>>
Return(th) ==
    /\ pc[th] = "returned"
    /\ Goto(th, "idle")
    /\ arg' = [arg EXCEPT ![th] = NoTask]
    /\ resp' = [resp EXCEPT ![th] = "Cancelled"]
    /\ ret' = [ret EXCEPT ![th] = "void"]
    /\ UNCHANGED <<contextVars, implVars, historyVars, fn, ucb>>

-----------------------------------------------------------------------------
(* CancellationContext.  Its recursive mutex makes each operation a step.  *)

Phase(t) ==
    IF state[t] = "PENDING" THEN "pending"
    ELSE IF \E th \in Threads : arg[th] = t /\ pc[th] \in Undecided
         THEN "running" ELSE "late"

(* CancelOperation: only the first call reaches the sub-operation's token. *)
CancelOperation(t, stopped) ==
    IF cancelled[t] THEN UNCHANGED contextVars
    ELSE /\ sub' = [sub EXCEPT ![t] = IF @ = "running" THEN stopped ELSE @]
         /\ cancelled' = [cancelled EXCEPT ![t] = TRUE]
         /\ cancelPhase' = [cancelPhase EXCEPT ![t] = Phase(t)]

(* The user cancels through the token that CancelToken() returned. *)
TokenCancel(t) ==
    /\ CancelOperation(t, "stopped")
    /\ UNCHANGED <<implVars, localVars, historyVars, pc>>

-----------------------------------------------------------------------------
(* Execute *)

MayExecute_NotExchanged(t) == state[t] # "COMPLETED"
MayExecute(t) == state[t] = "PENDING"

(* Only one caller moves the task out of PENDING; the others return. *)
ExecuteCas(th) ==
    LET t == arg[th] IN
    /\ pc[th] = "cas"
    /\ \/ /\ MayExecute(t)
          /\ state' = [state EXCEPT ![t] = "IN_PROGRESS"]
          /\ Goto(th, "move")
          /\ UNCHANGED ret
       \/ /\ ~MayExecute(t)
          /\ Leave(th, "void")
          /\ UNCHANGED state
    /\ UNCHANGED <<contextVars, func, cb, signaled, historyVars, arg, fn, ucb, resp>>

(* The function and the callback are moved out under mutex_. *)
ExecuteMove(th) ==
    LET t == arg[th] IN
    /\ pc[th] = "move"
    /\ fn' = [fn EXCEPT ![th] = func[t]]
    /\ ucb' = [ucb EXCEPT ![th] = cb[t]]
    /\ func' = [func EXCEPT ![t] = FALSE]
    /\ cb' = [cb EXCEPT ![t] = FALSE]
    /\ resp' = [resp EXCEPT ![th] = "Cancelled"]
    /\ Goto(th, "start")
    /\ UNCHANGED <<contextVars, state, signaled, historyVars, arg, ret>>

ExecuteStart(th) ==
    LET t == arg[th] IN
    /\ pc[th] = "start"
    /\ \/ /\ fn[th] /\ ~cancelled[t]
          /\ ran' = [ran EXCEPT ![t] = TRUE]
          /\ Goto(th, "body")
       \/ /\ ~fn[th] \/ cancelled[t]
          /\ Goto(th, "deliver")
          /\ UNCHANGED ran
    /\ UNCHANGED <<contextVars, implVars, localVars, delivered>>

(* Cancel could have occurred while the function ran: then its response is *)
(* dropped, unless it is the request timeout that cancelled the context.   *)
KeepResponse_Unchecked(th) == TRUE
KeepResponse(th) == ~cancelled[arg[th]] \/ resp[th] = "RequestTimeout"

ExecuteRecheck(th) ==
    /\ pc[th] = "recheck"
    /\ resp' = [resp EXCEPT ![th] = IF KeepResponse(th) THEN @ ELSE "Cancelled"]
    /\ Goto(th, "deliver")
    /\ UNCHANGED <<contextVars, implVars, historyVars, arg, fn, ucb, ret>>

ExecuteDeliver(th) ==
    LET t == arg[th] IN
    /\ pc[th] = "deliver"
    /\ delivered' = IF ucb[th]
                    THEN [delivered EXCEPT ![t] = Append(@, resp[th])]
                    ELSE delivered
    /\ Goto(th, "release")
    /\ UNCHANGED <<contextVars, implVars, localVars, ran>>

(* What the lambdas captured is released before the notification. *)
ExecuteRelease(th) ==
    /\ pc[th] = "release"
    /\ fn' = [fn EXCEPT ![th] = FALSE]
    /\ ucb' = [ucb EXCEPT ![th] = FALSE]
    /\ Goto(th, "notify")
    /\ UNCHANGED <<contextVars, implVars, historyVars, arg, resp, ret>>

ExecuteNotify(th) ==
    /\ pc[th] = "notify"
    /\ signaled' = [signaled EXCEPT ![arg[th]] = TRUE]
    /\ Goto(th, "store")
    /\ UNCHANGED <<contextVars, state, func, cb, localVars, historyVars>>

ExecuteStore(th) ==
    /\ pc[th] = "store"
    /\ state' = [state EXCEPT ![arg[th]] = "COMPLETED"]
    /\ Leave(th, "void")
    /\ UNCHANGED <<contextVars, func, cb, signaled, historyVars, arg, fn, ucb, resp>>

-----------------------------------------------------------------------------
(* The task function, by what it does with its CancellationContext: it     *)
(* starts cancellable sub-operations one after the other and waits for     *)
(* each (OlpClient's SendRequest), then returns.                           *)

FunctionReturns(th) ==
    /\ pc[th] = "body"
    /\ \E r \in {"Success", "Error"} : resp' = [resp EXCEPT ![th] = r]
    /\ Goto(th, "recheck")
    /\ UNCHANGED <<contextVars, implVars, historyVars, arg, fn, ucb, ret>>

MayStartSub_Unchecked(t) == TRUE
MayStartSub(t) == ~cancelled[t]

(* ExecuteOrCancelled: the check, the start of the sub-operation and the   *)
(* registration of its token are one critical section of the context.      *)
ExecuteOrCancelled(th) ==
    LET t == arg[th] IN
    /\ pc[th] = "body"
    /\ \/ /\ ~MayStartSub(t)
          /\ resp' = [resp EXCEPT ![th] = "Cancelled"]
          /\ Goto(th, "recheck")
          /\ UNCHANGED sub
       \/ /\ MayStartSub(t)
          /\ sub' = [sub EXCEPT ![t] = "running"]
          /\ Goto(th, "sub")
          /\ UNCHANGED resp
    /\ UNCHANGED <<cancelled, cancelPhase, implVars, historyVars, arg, fn, ucb, ret>>

(* The network answers.  It may never do so. *)
SubCompletes(t) ==
    /\ sub[t] = "running"
    /\ sub' = [sub EXCEPT ![t] = "done"]
    /\ UNCHANGED <<cancelled, cancelPhase, implVars, localVars, historyVars, pc>>

(* The wait for the sub-operation ends with its answer or its cancellation. *)
SubReturns(th) ==
    LET t == arg[th] IN
    /\ pc[th] = "sub"
    /\ \/ /\ sub[t] = "done"
          /\ Goto(th, "body")
          /\ UNCHANGED resp
       \/ /\ sub[t] = "stopped"
          /\ resp' = [resp EXCEPT ![th] = "Cancelled"]
          /\ Goto(th, "recheck")
    /\ sub' = [sub EXCEPT ![t] = "none"]
    /\ UNCHANGED <<cancelled, cancelPhase, implVars, historyVars, arg, fn, ucb, ret>>

(* The wait times out: the function cancels its own context and reports a  *)
(* timeout.                                                                *)
SubTimesOut(th) ==
    LET t == arg[th] IN
    /\ pc[th] = "sub"
    /\ sub[t] = "running"
    /\ CancelOperation(t, "none")
    /\ resp' = [resp EXCEPT ![th] = "RequestTimeout"]
    /\ Goto(th, "recheck")
    /\ UNCHANGED <<implVars, historyVars, arg, fn, ucb, ret>>

-----------------------------------------------------------------------------
(* BlockingCancel *)

Finished_Started(t) == state[t] # "PENDING"
Finished(t) == state[t] = "COMPLETED"

BlockingLoad(th) ==
    /\ pc[th] = "load"
    /\ \/ /\ Finished(arg[th])
          /\ Leave(th, "true")
       \/ /\ ~Finished(arg[th])
          /\ Goto(th, "cancel")
          /\ UNCHANGED ret
    /\ UNCHANGED <<contextVars, implVars, historyVars, arg, fn, ucb, resp>>

BlockingCancelOp(th) ==
    /\ pc[th] = "cancel"
    /\ CancelOperation(arg[th], "stopped")
    /\ Goto(th, "clear")
    /\ UNCHANGED <<implVars, localVars, historyVars>>

BlockingClear_Callback(th) ==
    /\ pc[th] = "clear"
    /\ func' = [func EXCEPT ![arg[th]] = FALSE]
    /\ cb' = [cb EXCEPT ![arg[th]] = FALSE]
    /\ Goto(th, "wait")
    /\ UNCHANGED <<contextVars, state, signaled, localVars, historyVars>>
BlockingClear(th) ==
    /\ pc[th] = "clear"
    /\ func' = [func EXCEPT ![arg[th]] = FALSE]
    /\ Goto(th, "wait")
    /\ UNCHANGED <<contextVars, state, cb, signaled, localVars, historyVars>>

(* Condition::Wait resets signaled_ whatever ended the wait. *)
WaitSignaled(th) ==
    /\ pc[th] = "wait"
    /\ signaled[arg[th]]
    /\ signaled' = [signaled EXCEPT ![arg[th]] = FALSE]
    /\ Leave(th, "true")
    /\ UNCHANGED <<contextVars, state, func, cb, historyVars, arg, fn, ucb, resp>>

WaitTimesOut(th) ==
    /\ pc[th] = "wait"
    /\ ~signaled[arg[th]]
    /\ Leave(th, "false")
    /\ UNCHANGED <<contextVars, implVars, historyVars, arg, fn, ucb, resp>>

-----------------------------------------------------------------------------

ExecuteStep(th) ==
    \/ ExecuteCas(th) \/ ExecuteMove(th) \/ ExecuteStart(th)
    \/ ExecuteRecheck(th) \/ ExecuteDeliver(th) \/ ExecuteRelease(th)
    \/ ExecuteNotify(th) \/ ExecuteStore(th)

FunctionStep(th) ==
    FunctionReturns(th) \/ ExecuteOrCancelled(th) \/ SubReturns(th)

BlockingStep(th) ==
    BlockingLoad(th) \/ BlockingCancelOp(th) \/ BlockingClear(th) \/ WaitSignaled(th)

(* What a thread inside a call does next without waiting for anyone. *)
Step(th) == ExecuteStep(th) \/ FunctionStep(th) \/ BlockingStep(th)

Timeout(th) == SubTimesOut(th) \/ WaitTimesOut(th)

Next ==
    \/ \E th \in Threads, t \in Tasks : Call(th, t, "cas") \/ Call(th, t, "load")
    \/ \E th \in Threads : Step(th) \/ Timeout(th) \/ Return(th)
    \/ \E t \in Tasks : TokenCancel(t) \/ SubCompletes(t)

(* Threads inside a call are scheduled; nobody has to call, cancel or time *)
(* out, and the network need not answer.                                   *)
Spec == Init /\ [][Next]_vars
FairSpec == Spec /\ \A th \in Threads : WF_vars(Step(th))

-----------------------------------------------------------------------------
(* Properties *)

(* However many threads call Execute on a task, its callback is never      *)
(* invoked twice, and a task that says COMPLETED has invoked it ("Moving   *)
(* the user callback and function guarantee that they are executed exactly *)
(* once", TaskContext.h:216).                                              *)
CallbackExactlyOnce ==
    \A t \in Tasks :
        /\ Len(delivered[t]) <= 1
        /\ state[t] = "COMPLETED" =>
              Len(delivered[t]) = IF t \in NoCallback THEN 0 ELSE 1

(* When BlockingCancel returns true the callback has been invoked, and no  *)
(* thread holds the function or the callback any more: the caller may      *)
(* destroy what they captured (TaskContext.h:244).                         *)
TrueMeansReleased ==
    \A th \in Threads :
        (pc[th] = "returned" /\ ret[th] = "true") =>
            LET t == arg[th] IN
            /\ t \notin NoCallback => delivered[t] # <<>>
            /\ ~func[t] /\ ~cb[t]
            /\ \A e \in Threads : arg[e] = t => ~fn[e] /\ ~ucb[e]

(* A cancel that comes before Execute starts the task keeps the function   *)
(* from running at all; one that comes while the function runs hides its   *)
(* result, except for the function's own timeout.                          *)
CancelHidesResult ==
    \A t \in Tasks :
        /\ cancelPhase[t] = "pending" =>
              ~ran[t] /\ delivered[t] \in {<<>>, <<"Cancelled">>}
        /\ cancelPhase[t] = "running" =>
              delivered[t] \in {<<>>, <<"Cancelled">>, <<"RequestTimeout">>}

(* A cancelled task that a thread executes finishes even if the network    *)
(* never answers and no timeout fires: the cancel reaches every            *)
(* sub-operation, whenever it was registered.                              *)
CancelUnblocks ==
    \A t \in Tasks :
        (cancelled[t] /\ \E th \in Threads : Executes(th, t))
            ~> state[t] = "COMPLETED"
=============================================================================
