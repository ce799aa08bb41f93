---------------------------- MODULE NetworkAndroid ----------------------------
(***************************************************************************)
(* http::NetworkAndroid with HttpClient.java: requests are tasks on a pool *)
(* of Java threads, which call back into C++; their results are queued for *)
(* one thread that calls the users.                                        *)
(*                                                                         *)
(* requests_mutex_ guards requests_ and responses_mutex_ responses_: what  *)
(* has left the one is for a moment in neither.  Java's calls into C++ are *)
(* synchronized, so there is one of them at a time.                        *)
(***************************************************************************)
EXTENDS Naturals, Sequences, FiniteSets

CONSTANTS
    Requests,       \* what users send, each once
    MaxRequests,    \* max_requests_count_
    PoolSize,       \* THREAD_POOL_SIZE
    MaxRetries,     \* maxRetries of every request
    MaxCancels,     \* bound on the calls of Cancel
    Nobody          \* no request

NetworkAndroidAssumption ==
    /\ {MaxRequests, PoolSize} \subseteq Nat \ {0} /\ {MaxRetries, MaxCancels} \subseteq Nat
    /\ Nobody \notin Requests

VARIABLES
    initialized,    \* initialized_, and whether a thread is inside Initialize
    started,        \* started_
    requests,       \* requests_
    obj,            \* those whose HttpTask is known, obj
    completion,     \* those that Deinitialize has collected
    task,           \* the HttpTask of each request: progress, flag, retries, status
    monitor,        \* the request whose task is inside completeRequest
    nativePtr,      \* nativePtr is not 0
    responses,      \* responses_
    runThread,      \* where SelfRun is, and the response it has taken
    deinit,         \* where Deinitialize is
    pending,        \* its completed_messages
    sent, cancels,  \* what has become of each call of Send; calls of Cancel so far
    answers,        \* history: what each request's callback was called with
    inTime,         \* history: requests whose task was cancelled before its last check
    dropped         \* history: requests that nobody will call back

libraryVars == <<initialized, started, requests, obj, completion>>
javaVars == <<task, monitor, nativePtr>>
deinitVars == <<deinit, pending>>
historyVars == <<answers, inTime, dropped>>
vars == <<libraryVars, javaVars, responses, runThread, deinitVars, sent, cancels, historyVars>>

Status == {"result", "error", "cancelled"}
NoResponse == [req |-> Nobody, status |-> "result"]
Response == [req : Requests \cup {Nobody}, status : Status]

TypeOK ==
    /\ initialized \in {"no", "starting", "yes", "over", "terminated"} /\ started \in BOOLEAN
    /\ requests \subseteq Requests /\ obj \subseteq Requests /\ completion \subseteq Requests
    /\ task \in [Requests -> [at : {"none", "queued", "connect", "read", "complete", "done"},
                              cancelled : BOOLEAN, retryCount : 0..MaxRetries, status : Status]]
    /\ monitor \in Requests \cup {Nobody} /\ nativePtr \in BOOLEAN
    /\ responses \in Seq(Response)
    /\ runThread \in [at : {"none", "starting", "wait", "call", "exit"}, response : Response]
    /\ deinit \in {"none", "joining", "collected", "emptied", "calling", "done"}
    /\ pending \subseteq Requests
    /\ sent \in [Requests -> {"new", "waiting", "ready", "sent", "refused"}]
    /\ cancels \in 0..MaxCancels /\ inTime \subseteq Requests /\ dropped \subseteq Requests
    /\ answers \in [Requests -> Seq(Status \cup {"offline"})]

Init ==
    /\ initialized = "no" /\ started = FALSE /\ requests = {} /\ obj = {} /\ completion = {}
    /\ task = [r \in Requests |-> [at |-> "none", cancelled |-> FALSE, retryCount |-> 0,
                                   status |-> "result"]]
    /\ monitor = Nobody /\ nativePtr = TRUE /\ responses = <<>>
    /\ runThread = [at |-> "none", response |-> NoResponse] /\ deinit = "none" /\ pending = {}
    /\ sent = [r \in Requests |-> "new"] /\ cancels = 0
    /\ answers = [r \in Requests |-> <<>>] /\ inTime = {} /\ dropped = {}

-----------------------------------------------------------------------------
(* Send *)

(* Initialize waits for its thread with the mutex given up: a second call  *)
(* replaces the std::thread that is running, which terminates the process. *)
Initialize(r) ==
    /\ sent[r] = "new" /\ initialized # "over"
    /\ \/ /\ initialized = "yes"
          /\ sent' = [sent EXCEPT ![r] = "ready"] /\ UNCHANGED <<initialized, runThread>>
       \/ /\ initialized = "no" /\ initialized' = "starting"
          /\ runThread' = [runThread EXCEPT !.at = "starting"]
          /\ sent' = [sent EXCEPT ![r] = "waiting"]
       \/ /\ initialized = "starting" /\ initialized' = "terminated"
          /\ UNCHANGED <<runThread, sent>>
    /\ UNCHANGED <<started, requests, obj, completion, javaVars, responses, deinitVars, cancels, historyVars>>

Initialized(r) ==
    /\ sent[r] = "waiting" /\ started
    /\ initialized' = "yes" /\ sent' = [sent EXCEPT ![r] = "ready"]
    /\ UNCHANGED <<started, requests, obj, completion, javaVars, responses, runThread, deinitVars,
                   cancels, historyVars>>

(* Java or the limit may refuse; else the task is on its way.  The request *)
(* and its task are known to Cancel at once.                               *)
Send(r) ==
    /\ sent[r] = "ready"
    /\ \/ sent' = [sent EXCEPT ![r] = "refused"] /\ UNCHANGED <<requests, obj, task>>
       \/ /\ Cardinality(requests) < MaxRequests
          /\ requests' = requests \cup {r} /\ obj' = obj \cup {r}
          /\ task' = [task EXCEPT ![r].at = "queued"]
          /\ sent' = [sent EXCEPT ![r] = "sent"]
    /\ UNCHANGED <<initialized, started, completion, monitor, nativePtr, responses, runThread,
                   deinitVars, cancels, historyVars>>

(* DoCancel: a task that ResetRequest has made unknown is not cancelled. *)
Cancel(r) ==
    /\ cancels < MaxCancels /\ sent[r] = "sent" /\ initialized = "yes"
    /\ cancels' = cancels + 1
    /\ task' = IF r \in requests \cap obj THEN [task EXCEPT ![r].cancelled = TRUE] ELSE task
    /\ inTime' = IF r \in requests \cap obj /\ task[r].at # "complete" THEN inTime \cup {r} ELSE inTime
    /\ obj' = obj \ {r}
    /\ UNCHANGED <<initialized, started, requests, completion, monitor, nativePtr, responses, runThread,
                   deinitVars, sent, answers, dropped>>

-----------------------------------------------------------------------------
(* HttpTask.doInBackground *)

Goes(r, label) == task' = [task EXCEPT ![r].at = label]
Completes(r, status) == task' = [task EXCEPT ![r].at = "complete", ![r].status = status]
TaskUnchanged == UNCHANGED <<initialized, started, requests, completion, monitor, nativePtr, responses,
                             runThread, deinitVars, sent, cancels, historyVars>>

Busy == {r \in Requests : task[r].at \in {"connect", "read", "complete"}}

Execute(r) ==
    /\ task[r].at = "queued" /\ Cardinality(Busy) < PoolSize
    /\ Goes(r, "connect") /\ UNCHANGED obj /\ TaskUnchanged

(* ResetRequest forgets the task, if the network is still there. *)
Retries(r, reset) ==
    /\ task[r].retryCount < MaxRetries
    /\ task' = [task EXCEPT ![r].at = "connect", ![r].retryCount = @ + 1]
    /\ \/ reset /\ started /\ nativePtr /\ monitor = Nobody /\ obj' = obj \ {r}
       \/ reset /\ ~(started /\ nativePtr) /\ monitor = Nobody /\ UNCHANGED obj
       \/ ~reset /\ UNCHANGED obj

(* A server's error is tried again, and so is a timeout, which starts the  *)
(* response anew; at last the response or the exception is what counts.    *)
Connect(r) ==
    /\ task[r].at = "connect"
    /\ \/ \E reset \in BOOLEAN : Retries(r, reset)
       \/ Completes(r, "error") /\ UNCHANGED obj
       \/ /\ IF task[r].cancelled THEN Completes(r, "cancelled") ELSE Goes(r, "read")
          /\ UNCHANGED obj
    /\ TaskUnchanged

CheckCancelled_Earlier(r) == FALSE
CheckCancelled(r) == task[r].cancelled

(* After each part of the data, and once more at the end. *)
Read(r) ==
    /\ task[r].at = "read"
    /\ \/ Retries(r, TRUE)
       \/ Completes(r, "error") /\ UNCHANGED obj
       \/ CheckCancelled(r) /\ Completes(r, "cancelled") /\ UNCHANGED obj
       \/ ~CheckCancelled(r) /\ Completes(r, "result") /\ UNCHANGED obj
    /\ TaskUnchanged

(* CompleteRequest, under requests_mutex_: it is Deinitialize's business,  *)
(* or the response is made and the request forgotten.                      *)
LeavesRequests(r) == requests' = requests \ {r} /\ obj' = obj \ {r}

CompleteRequest(r) ==
    /\ task[r].at = "complete" /\ monitor = Nobody
    /\ \/ /\ nativePtr /\ r \in requests /\ LeavesRequests(r)
          /\ \/ r \in completion /\ Goes(r, "done") /\ UNCHANGED monitor
             \/ r \notin completion /\ monitor' = r /\ UNCHANGED task
       \/ ~nativePtr /\ Goes(r, "done") /\ UNCHANGED <<requests, obj, monitor>>
    /\ UNCHANGED <<initialized, started, completion, nativePtr, responses, runThread, deinitVars, sent,
                   cancels, historyVars>>

(* Then, under responses_mutex_, it is queued; too late if Deinitialize has *)
(* emptied the queue.                                                       *)
PushResponse ==
    /\ monitor # Nobody
    /\ responses' = Append(responses, [req |-> monitor, status |-> task[monitor].status])
    /\ dropped' = IF deinit \in {"none", "joining", "collected"} THEN dropped ELSE dropped \cup {monitor}
    /\ Goes(monitor, "done") /\ monitor' = Nobody
    /\ UNCHANGED <<libraryVars, nativePtr, runThread, deinitVars, sent, cancels, answers, inTime>>

-----------------------------------------------------------------------------
(* SelfRun *)

RunUnchanged == UNCHANGED <<initialized, requests, obj, completion, javaVars, deinitVars, sent, cancels,
                            inTime, dropped>>

ThreadStarts ==
    /\ runThread.at = "starting"
    /\ runThread' = [runThread EXCEPT !.at = "wait"] /\ started' = TRUE
    /\ UNCHANGED <<responses, answers>> /\ RunUnchanged

TakeResponse ==
    /\ runThread.at = "wait"
    /\ \/ /\ started /\ responses # <<>>
          /\ runThread' = [at |-> "call", response |-> Head(responses)] /\ responses' = Tail(responses)
       \/ ~started /\ runThread' = [runThread EXCEPT !.at = "exit"] /\ UNCHANGED responses
    /\ UNCHANGED <<started, answers>> /\ RunUnchanged

Callback ==
    /\ runThread.at = "call"
    /\ answers' = [answers EXCEPT ![runThread.response.req] = Append(@, runThread.response.status)]
    /\ runThread' = [at |-> "wait", response |-> NoResponse]
    /\ UNCHANGED <<started, responses>> /\ RunUnchanged

-----------------------------------------------------------------------------
(* Deinitialize, called by the destructor when nobody is inside Send *)

Stop ==
    /\ deinit = "none" /\ initialized = "yes" /\ started
    /\ \A r \in Requests : sent[r] \notin {"waiting", "ready"}
    /\ started' = FALSE /\ initialized' = "over" /\ deinit' = "joining"
    /\ UNCHANGED <<requests, obj, completion, javaVars, responses, runThread, pending, sent, cancels,
                   historyVars>>

SetCompletion == completion' = requests

Collect ==
    /\ deinit = "joining" /\ runThread.at = "exit"
    /\ pending' = requests /\ SetCompletion /\ deinit' = "collected"
    /\ task' = [r \in Requests |-> IF r \in requests \cap obj THEN [task[r] EXCEPT !.cancelled = TRUE]
                                   ELSE task[r]]
    /\ UNCHANGED <<initialized, started, requests, obj, monitor, nativePtr, responses, runThread, sent,
                   cancels, historyVars>>

EmptyResponses_Not == pending' = pending
EmptyResponses == pending' = pending \cup {responses[i].req : i \in DOMAIN responses}

Empty ==
    /\ deinit = "collected" /\ EmptyResponses
    /\ responses' = <<>> /\ deinit' = "emptied"
    /\ UNCHANGED <<libraryVars, javaVars, runThread, sent, cancels, historyVars>>

(* Java's shutdown waits for a call into C++, and allows no more of them. *)
Shutdown ==
    /\ deinit = "emptied" /\ monitor = Nobody
    /\ nativePtr' = FALSE /\ deinit' = "calling"
    /\ UNCHANGED <<libraryVars, task, monitor, responses, runThread, pending, sent, cancels, historyVars>>

(* Afterwards the tasks have two seconds to come to their end. *)
CallOffline ==
    /\ deinit = "calling"
    /\ \/ pending = {} /\ deinit' = "done" /\ UNCHANGED <<pending, answers>>
       \/ /\ \E r \in pending : /\ answers' = [answers EXCEPT ![r] = Append(@, "offline")]
                                /\ pending' = pending \ {r}
          /\ UNCHANGED deinit
    /\ UNCHANGED <<libraryVars, javaVars, responses, runThread, sent, cancels, inTime, dropped>>

-----------------------------------------------------------------------------

TaskStep(r) == Execute(r) \/ Connect(r) \/ Read(r) \/ CompleteRequest(r)
ThreadStep ==
    \/ ThreadStarts \/ TakeResponse \/ Callback \/ PushResponse
    \/ Collect \/ Empty \/ Shutdown \/ CallOffline
    \/ \E r \in Requests : Initialized(r) \/ Send(r)

Next ==
    /\ initialized # "terminated"
    /\ \/ \E r \in Requests : Initialize(r) \/ Cancel(r) \/ TaskStep(r)
       \/ ThreadStep \/ Stop

(* Threads run, and connections end by their timeouts at the latest. *)
Spec ==
    /\ Init /\ [][Next]_vars
    /\ \A r \in Requests : SF_vars(TaskStep(r))
    /\ WF_vars(ThreadStep)

-----------------------------------------------------------------------------
(* Properties *)

(* No callback twice, though SelfRun, CompleteRequest and Deinitialize may *)
(* each have the request; "in case of failure no callbacks will be         *)
(* triggered" (Network.h:69).                                              *)
AnsweredOnce ==
    \A r \in Requests : /\ Len(answers[r]) <= 1
                        /\ sent[r] # "sent" => answers[r] = <<>>

(* A request is with its task, in the queue, with SelfRun or Deinitialize  *)
(* until it is answered: CompleteRequest hands it over in two steps.       *)
NothingLost ==
    \A r \in Requests : sent[r] = "sent" /\ answers[r] = <<>> =>
        \/ r \in (requests \ completion) \cup pending \cup dropped
        \/ r \in {monitor, runThread.response.req}
        \/ \E i \in DOMAIN responses : responses[i].req = r

(* A request cancelled before its task looked for the last time is not     *)
(* reported as done (Network.h:79); the task may still fail first, and     *)
(* then tells of that (HttpClient.java:444).                               *)
CancelReported == \A r \in inTime : answers[r] # <<"result">>

(* Every request is called back, unless Initialize was called twice at     *)
(* once (NetworkAndroid.cpp:409), or CompleteRequest was between its two   *)
(* mutexes while Deinitialize looked into both (NetworkAndroid.cpp:464);   *)
(* and the destructor returns.                                             *)
Quiet ==
    \/ initialized = "terminated"
    \/ /\ \A r \in Requests : sent[r] = "sent" => answers[r] # <<>> \/ r \in dropped
       /\ deinit \in {"none", "done"}
=============================================================================
