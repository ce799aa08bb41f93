----------------------------- MODULE OLPNetworkIOS -----------------------------
(***************************************************************************)
(* http::OLPNetworkIOS with OLPHttpClient and OLPHttpTask: a task for each *)
(* request, on a data task of a URL session that reports to a delegate.    *)
(*                                                                         *)
(* mutex_ guards Send, Cancel and Cleanup against each other, not against  *)
(* the delegate.  The delegate finds the task by the identifier of the     *)
(* data task, which is unique in its session only; a request with a proxy  *)
(* has a session of its own.                                               *)
(***************************************************************************)
EXTENDS Naturals, Sequences, FiniteSets

CONSTANTS
    Requests,       \* what users send, each once
    Proxied,        \* those of them with a proxy
    MaxRequests,    \* max_requests_count_
    MaxCancels,     \* bound on the calls of Cancel
    Nobody          \* no request

OLPNetworkIOSAssumption ==
    /\ Proxied \subseteq Requests /\ MaxRequests \in Nat \ {0} /\ MaxCancels \in Nat
    /\ Nobody \notin Requests

VARIABLES
    http_client,    \* http_client_ and its sharedUrlSession are there
    tasks,          \* tasks: the requests that have a task
    idTaskMap,      \* idTaskMap
    task,           \* the OLPHttpTask of each request
    dataTask,       \* its NSURLSessionDataTask: progress, taskIdentifier, error
    delegate,       \* the task that the delegate completes for a data task, and where it is
    sharedTasks,    \* data tasks of the shared session so far
    pending,        \* Cleanup's completed_messages
    sent, cancels,  \* what has become of each call of Send; calls of Cancel so far
    answers,        \* history: what each request's callback was called with
    cancelledIds    \* history: requests that were cancelled before their data task had ended

clientVars == <<tasks, idTaskMap, sharedTasks>>
historyVars == <<answers, cancelledIds>>
vars == <<http_client, clientVars, task, dataTask, delegate, pending, sent, cancels, historyVars>>

Identifiers == 0..Cardinality(Requests)
Error == {"none", "error", "cancelled"}

TypeOK ==
    /\ http_client \in BOOLEAN /\ tasks \subseteq Requests
    /\ idTaskMap \in [Identifiers -> Requests \cup {Nobody}]
    /\ task \in [Requests -> [callback : BOOLEAN, cancelled : BOOLEAN, completionHandler : BOOLEAN]]
    /\ dataTask \in [Requests -> [at : {"none", "running", "ended", "reported"}, id : Identifiers,
                                  error : Error]]
    /\ delegate \in [Requests -> [at : {"idle", "complete", "remove"}, req : Requests \cup {Nobody}]]
    /\ sharedTasks \in Identifiers /\ pending \subseteq Requests
    /\ sent \in [Requests -> {"new", "setup", "sent", "refused", "broken"}]
    /\ cancels \in 0..MaxCancels /\ cancelledIds \subseteq Requests
    /\ answers \in [Requests -> Seq({"result", "error", "cancelled", "offline", "foreign"})]

Init ==
    /\ http_client = TRUE /\ tasks = {} /\ idTaskMap = [i \in Identifiers |-> Nobody]
    /\ task = [r \in Requests |-> [callback |-> FALSE, cancelled |-> FALSE, completionHandler |-> TRUE]]
    /\ dataTask = [r \in Requests |-> [at |-> "none", id |-> 0, error |-> "none"]]
    /\ delegate = [r \in Requests |-> [at |-> "idle", req |-> Nobody]]
    /\ sharedTasks = 0 /\ pending = {}
    /\ sent = [r \in Requests |-> "new"] /\ cancels = 0
    /\ answers = [r \in Requests |-> <<>>] /\ cancelledIds = {}

-----------------------------------------------------------------------------
(* Send and Cancel *)

CreateTask(r) ==
    /\ sent[r] = "new" /\ http_client
    /\ \/ sent' = [sent EXCEPT ![r] = "refused"] /\ UNCHANGED <<tasks, task>>
       \/ /\ Cardinality(tasks) < MaxRequests
          /\ tasks' = tasks \cup {r} /\ task' = [task EXCEPT ![r].callback = TRUE]
          /\ sent' = [sent EXCEPT ![r] = "setup"]
    /\ UNCHANGED <<http_client, idTaskMap, sharedTasks, dataTask, delegate, pending, cancels, historyVars>>

(* A session numbers its data tasks from one. *)
TaskIdentifier(r) == IF r \in Proxied THEN 1 ELSE sharedTasks + 1

(* run: without a data task, Send fails but the task stays in tasks. *)
Run(r) ==
    /\ sent[r] = "setup"
    /\ \/ /\ dataTask' = [dataTask EXCEPT ![r] = [at |-> "running", id |-> TaskIdentifier(r), error |-> "none"]]
          /\ idTaskMap' = [idTaskMap EXCEPT ![TaskIdentifier(r)] = r]
          /\ sharedTasks' = IF r \in Proxied THEN sharedTasks ELSE sharedTasks + 1
          /\ sent' = [sent EXCEPT ![r] = "sent"]
       \/ sent' = [sent EXCEPT ![r] = "broken"] /\ UNCHANGED <<dataTask, idTaskMap, sharedTasks>>
    /\ UNCHANGED <<http_client, tasks, task, delegate, pending, cancels, historyVars>>

(* A data task that is cancelled ends at once, if it has not ended yet.    *)
Ended(q, error) ==
    IF dataTask[q].at = "running" THEN [dataTask EXCEPT ![q].at = "ended", ![q].error = error]
    ELSE dataTask

Cancel(r) ==
    /\ cancels < MaxCancels /\ sent[r] = "sent" /\ http_client
    /\ cancels' = cancels + 1
    /\ \/ /\ r \in tasks /\ ~task[r].cancelled
          /\ task' = [task EXCEPT ![r].cancelled = TRUE] /\ dataTask' = Ended(r, "cancelled")
          /\ cancelledIds' = IF dataTask[r].at = "running" THEN cancelledIds \cup {r} ELSE cancelledIds
       \/ /\ r \in tasks => task[r].cancelled
          /\ UNCHANGED <<task, dataTask, cancelledIds>>
    /\ UNCHANGED <<http_client, clientVars, delegate, pending, sent, answers>>

(* The transfer itself ends, with or without an error. *)
Transfer(r) ==
    /\ dataTask[r].at = "running"
    /\ \E error \in {"none", "error"} : dataTask' = Ended(r, error)
    /\ UNCHANGED <<http_client, clientVars, task, delegate, pending, sent, cancels, historyVars>>

-----------------------------------------------------------------------------
(* The delegate: didCompleteWithError of the data task of request r *)

DelegateUnchanged == UNCHANGED <<http_client, sharedTasks, pending, sent, cancels, cancelledIds>>
Reports(r, at, q) ==
    /\ delegate' = [delegate EXCEPT ![r] = [at |-> at, req |-> q]]
    /\ dataTask' = [dataTask EXCEPT ![r].at = "reported"]

(* After Cleanup only cancelled data tasks are looked up. *)
DidComplete(r) ==
    /\ dataTask[r].at = "ended" /\ delegate[r].at = "idle"
    /\ LET q == idTaskMap[dataTask[r].id] IN
       IF (http_client \/ dataTask[r].error = "cancelled") /\ q # Nobody THEN Reports(r, "complete", q)
       ELSE Reports(r, "idle", Nobody)
    /\ UNCHANGED <<tasks, idTaskMap, task, answers>> /\ DelegateUnchanged

(* "result" stands for the status that was received; that of another       *)
(* request's data task is "foreign".                                       *)
Answer(r, q) ==
    IF q # r THEN "foreign" ELSE IF dataTask[r].error = "none" THEN "result" ELSE dataTask[r].error

TakeCallback_Not(q) == UNCHANGED task
TakeCallback(q) == task' = [task EXCEPT ![q].callback = FALSE, ![q].completionHandler = FALSE]

(* completionHandler takes the callback under its mutex and calls it.      *)
CompletionHandler(r) ==
    LET q == delegate[r].req IN
    /\ delegate[r].at = "complete"
    /\ \/ /\ task[q].completionHandler /\ task[q].callback
          /\ TakeCallback(q)
          /\ answers' = [answers EXCEPT ![q] = Append(@, Answer(r, q))]
       \/ /\ ~(task[q].completionHandler /\ task[q].callback)
          /\ task' = [task EXCEPT ![q].completionHandler = FALSE] /\ UNCHANGED answers
    /\ delegate' = [delegate EXCEPT ![r].at = "remove"]
    /\ UNCHANGED <<tasks, idTaskMap, dataTask>> /\ DelegateUnchanged

RemoveTask(r) ==
    LET q == delegate[r].req IN
    /\ delegate[r].at = "remove"
    /\ delegate' = [delegate EXCEPT ![r] = [at |-> "idle", req |-> Nobody]]
    /\ IF q \in tasks
       THEN /\ idTaskMap' = [idTaskMap EXCEPT ![dataTask[q].id] = Nobody]
            /\ tasks' = tasks \ {q} /\ dataTask' = Ended(q, "cancelled")
       ELSE UNCHANGED <<idTaskMap, tasks, dataTask>>
    /\ UNCHANGED <<task, answers>> /\ DelegateUnchanged

-----------------------------------------------------------------------------
(* Cleanup, called by the destructor when nobody is inside Send *)

Cleanup ==
    /\ http_client /\ \A r \in Requests : sent[r] # "setup"
    /\ http_client' = FALSE
    /\ pending' = {r \in tasks : task[r].callback}
    /\ task' = [r \in Requests |-> IF r \in tasks THEN [task[r] EXCEPT !.callback = FALSE] ELSE task[r]]
    /\ UNCHANGED <<clientVars, dataTask, delegate, sent, cancels, historyVars>>

CallOffline ==
    /\ \E r \in pending : /\ answers' = [answers EXCEPT ![r] = Append(@, "offline")]
                          /\ pending' = pending \ {r}
    /\ UNCHANGED <<http_client, clientVars, task, dataTask, delegate, sent, cancels, cancelledIds>>

-----------------------------------------------------------------------------

RequestStep(r) == Run(r) \/ Transfer(r) \/ DidComplete(r) \/ CompletionHandler(r) \/ RemoveTask(r)

Next ==
    \/ \E r \in Requests : CreateTask(r) \/ Cancel(r) \/ RequestStep(r)
    \/ Cleanup \/ CallOffline

(* Threads run; a data task ends by its timeout at the latest. *)
Spec == Init /\ [][Next]_vars /\ WF_vars(CallOffline) /\ \A r \in Requests : WF_vars(RequestStep(r))

-----------------------------------------------------------------------------
(* Properties *)

(* No callback twice, though the delegate and Cleanup both look for it. A  *)
(* Send that failed calls nobody back (Network.h:69), except that Cleanup  *)
(* does if it had no data task (OLPNetworkIOS.mm:309).                     *)
AnsweredOnce ==
    \A r \in Requests :
        /\ Len(answers[r]) <= 1
        /\ sent[r] \in {"new", "refused"} => answers[r] = <<>>
        /\ sent[r] = "broken" => answers[r] \in {<<>>, <<"offline">>}

(* A request that is not answered has its callback, and its data task or   *)
(* the delegate still leads to it (registerDataTask, removeTaskWithId).    *)
NothingLost ==
    \A r \in Requests : sent[r] = "sent" /\ answers[r] = <<>> =>
        \/ r \in pending
        \/ r \in tasks /\ task[r].callback /\ \/ idTaskMap[dataTask[r].id] = r
                                              \/ \E q \in Requests : delegate[q].req = r

(* Whoever is cancelled before the data task has ended is told so          *)
(* (Network.h:79), or that the network is gone.                            *)
CancelReported == \A r \in cancelledIds : answers[r] \in {<<>>, <<"cancelled">>, <<"offline">>}

(* "Callback to be called when request is fully processed or cancelled"    *)
(* (Network.h:60): its own request, not another one's (idTaskMap).         *)
AnsweredForItself == \A r \in Requests : answers[r] # <<"foreign">>

(* Every request is called back in the end (didCompleteWithError, Cleanup). *)
Quiet == \A r \in Requests : sent[r] = "sent" => answers[r] # <<>>
=============================================================================
