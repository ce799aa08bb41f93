---------------------------- MODULE NetworkWinHttp ----------------------------
(***************************************************************************)
(* http::NetworkWinHttp: a fixed set of request handles, WinHTTP's threads *)
(* that report on them, a queue of results and a completion thread.        *)
(*                                                                         *)
(* mutex_ guards the handles and the results.  What a callback of WinHTTP  *)
(* does with handle->http_request between two locks, Cancel and Send may   *)
(* overtake.  A handle is free again when WinHTTP says that it is closing. *)
(***************************************************************************)
EXTENDS Naturals, Sequences

CONSTANTS
    Requests,       \* what users send, each once
    Handles,        \* http_requests_
    MaxCancels,     \* bound on the calls of Cancel
    Nobody          \* no request

NetworkWinHttpAssumption == Handles # {} /\ MaxCancels \in Nat /\ Nobody \notin Requests

VARIABLES
    http_session,   \* http_session_ is not NULL
    handles,        \* http_requests_: whose, in_use, http_request # NULL
    winhttp,        \* of each handle: WinHTTP's operation, how it ended, closed or not
    result,         \* result_data of each request: status, completed, user_callback
    results,        \* results_
    thread,         \* where CompletionThread is, and the result it has taken
    pending,        \* the destructor's pending_results
    destructor,     \* where the destructor is
    sent, taken,    \* what has become of each call of Send, the handle it has got
    cancels,        \* calls of Cancel so far
    answers,        \* history: what each request's callback was called with
    inTime,         \* history: requests that Cancel found in an operation of WinHTTP
    dropped         \* history: requests that nobody will call back

userVars == <<sent, taken, cancels>>
historyVars == <<answers, inTime, dropped>>
vars == <<http_session, handles, winhttp, result, results, thread, pending, destructor, userVars,
          historyVars>>

Operations == {"none", "send", "receive", "query", "read"}
Outcomes == {"pending", "done", "error", "cancelled"}
Statuses == {"unset", "http", "error", "cancelled"}
NoOperation == [op |-> "none", outcome |-> "pending", closed |-> FALSE, at |-> "idle"]
FreeHandleData == [req |-> Nobody, in_use |-> FALSE, http |-> FALSE]

TypeOK ==
    /\ http_session \in BOOLEAN
    /\ handles \in [Handles -> [req : Requests \cup {Nobody}, in_use : BOOLEAN, http : BOOLEAN]]
    /\ winhttp \in [Handles -> [op : Operations, outcome : Outcomes, closed : BOOLEAN,
                                at : {"idle", "headers", "received"}]]
    /\ result \in [Requests -> [status : Statuses, completed : BOOLEAN, callback : BOOLEAN]]
    /\ results \in Seq(Requests) /\ pending \subseteq Requests
    /\ thread \in [at : {"wait", "deliver", "close", "exit"}, req : Requests \cup {Nobody}]
    /\ destructor \in {"none", "waiting", "joining", "calling", "done"}
    /\ sent \in [Requests -> {"new", "setup", "opened", "storing", "sent", "refused", "broken",
                              "failed"}]
    /\ taken \in [Requests -> Handles \cup {Nobody}]
    /\ cancels \in 0..MaxCancels /\ inTime \subseteq Requests /\ dropped \subseteq Requests
    /\ answers \in [Requests -> Seq({"result", "error", "unknown", "cancelled", "offline"})]

Init ==
    /\ http_session = TRUE
    /\ handles = [h \in Handles |-> FreeHandleData] /\ winhttp = [h \in Handles |-> NoOperation]
    /\ result = [r \in Requests |-> [status |-> "unset", completed |-> FALSE, callback |-> TRUE]]
    /\ results = <<>> /\ pending = {} /\ thread = [at |-> "wait", req |-> Nobody]
    /\ destructor = "none"
    /\ sent = [r \in Requests |-> "new"] /\ taken = [r \in Requests |-> Nobody]
    /\ cancels = 0 /\ answers = [r \in Requests |-> <<>>] /\ inTime = {} /\ dropped = {}

-----------------------------------------------------------------------------
(* Send, up to and from the point where it has a handle *)

SendBecomes(r, label) == sent' = [sent EXCEPT ![r] = label]

(* Invalid URL, no connection or no free handle: refused. *)
GetHandle(r) ==
    /\ sent[r] = "new" /\ destructor = "none"
    /\ \/ SendBecomes(r, "refused") /\ UNCHANGED <<handles, winhttp, taken>>
       \/ \E h \in Handles :
             /\ ~handles[h].in_use
             /\ handles' = [handles EXCEPT ![h] = [req |-> r, in_use |-> TRUE, http |-> FALSE]]
             /\ winhttp' = [winhttp EXCEPT ![h] = NoOperation]
             /\ SendBecomes(r, "setup") /\ taken' = [taken EXCEPT ![r] = h]
    /\ UNCHANGED <<http_session, result, results, thread, pending, destructor, cancels, historyVars>>

(* If the request cannot be opened, nobody gives the handle back. *)
OpenRequest(r) ==
    /\ sent[r] = "setup"
    /\ SendBecomes(r, "opened") \/ SendBecomes(r, "broken")
    /\ UNCHANGED <<http_session, handles, winhttp, result, results, thread, pending, destructor,
                   taken, cancels, historyVars>>

SendRequest(r) ==
    /\ sent[r] = "opened"
    /\ \/ /\ winhttp' = [winhttp EXCEPT ![taken[r]].op = "send"]
          /\ SendBecomes(r, "storing") /\ UNCHANGED handles
       \/ /\ handles' = [handles EXCEPT ![taken[r]] = FreeHandleData]
          /\ SendBecomes(r, "failed") /\ UNCHANGED winhttp
    /\ UNCHANGED <<http_session, result, results, thread, pending, destructor, taken, cancels, historyVars>>

(* Only now can Cancel and the callbacks see http_request. *)
StoreRequest(r) ==
    /\ sent[r] = "storing"
    /\ handles' = [handles EXCEPT ![taken[r]].http = TRUE]
    /\ SendBecomes(r, "sent")
    /\ UNCHANGED <<http_session, winhttp, result, results, thread, pending, destructor, taken,
                   cancels, historyVars>>

-----------------------------------------------------------------------------
(* WinHTTP *)

Running(h) == winhttp[h].op # "none" /\ winhttp[h].outcome = "pending"

(* WinHttpCloseHandle ends an operation that is still running. *)
Closed(h) ==
    [winhttp[h] EXCEPT !.closed = @ \/ handles[h].http,
                       !.outcome = IF handles[h].http /\ Running(h) THEN "cancelled" ELSE @]
CloseHandle(h) ==
    /\ winhttp' = [winhttp EXCEPT ![h] = Closed(h)]
    /\ handles' = [handles EXCEPT ![h].http = FALSE]

FindHandle(r) == {h \in Handles : handles[h].in_use /\ handles[h].req = r}

(* The user knows the id once Send has returned. *)
Cancel(r) ==
    /\ cancels < MaxCancels /\ sent[r] = "sent" /\ destructor = "none"
    /\ cancels' = cancels + 1
    /\ \/ \E h \in FindHandle(r) :
             /\ CloseHandle(h)
             /\ inTime' = IF handles[h].http /\ Running(h) THEN inTime \cup {r} ELSE inTime
       \/ FindHandle(r) = {} /\ UNCHANGED <<handles, winhttp, inTime>>
    /\ UNCHANGED <<http_session, result, results, thread, pending, destructor, sent, taken, answers, dropped>>

OperationEnds(h) ==
    /\ Running(h)
    /\ \E outcome \in {"done", "error"} : winhttp' = [winhttp EXCEPT ![h].outcome = outcome]
    /\ UNCHANGED <<http_session, handles, result, results, thread, pending, destructor, userVars,
                   historyVars>>

-----------------------------------------------------------------------------
(* RequestCallback, on a thread of WinHTTP, one at a time for a handle *)

Called(h, op) == handles[h].in_use /\ winhttp[h].op = op /\ winhttp[h].outcome = "done"

Complete(h) == results' = Append(results, handles[h].req)
Starts(h, op) == winhttp' = [winhttp EXCEPT ![h].op = op, ![h].outcome = "pending", ![h].at = "idle"]
CallbackUnchanged == UNCHANGED <<http_session, handles, thread, pending, destructor, userVars,
                                 historyVars>>

RequestError(h) ==
    /\ handles[h].in_use /\ winhttp[h].outcome \in {"error", "cancelled"}
    /\ result' = [result EXCEPT ![handles[h].req].status = winhttp[h].outcome]
    /\ Starts(h, "none") /\ Complete(h)
    /\ CallbackUnchanged

(* WinHttpReceiveResponse, WinHttpReadData, WinHttpQueryDataAvailable fail *)
(* if http_request is not there (yet, or any more), or for their own sake. *)
Continue(h, op) ==
    \/ handles[h].http /\ Starts(h, op) /\ UNCHANGED results
    \/ Starts(h, "none") /\ Complete(h)

SendRequestComplete(h) ==
    /\ Called(h, "send")
    /\ Continue(h, "receive")
    /\ UNCHANGED result /\ CallbackUnchanged

(* The header_callback, then the fields of the response under the lock. *)
HeadersAvailable(h) ==
    /\ Called(h, "receive") /\ winhttp[h].at = "idle"
    /\ \/ /\ handles[h].http
          /\ result' = [result EXCEPT ![handles[h].req].status = "http"]
          /\ winhttp' = [winhttp EXCEPT ![h].at = "received"] /\ UNCHANGED results
       \/ ~handles[h].http /\ Starts(h, "none") /\ Complete(h) /\ UNCHANGED result
    /\ CallbackUnchanged

(* Unlike the other calls, this one is not followed by Complete. *)
QueryAfterHeaders(h) ==
    /\ winhttp[h].at = "received"
    /\ \/ handles[h].http /\ Starts(h, "query") /\ UNCHANGED dropped
       \/ Starts(h, "none") /\ dropped' = dropped \cup {handles[h].req}
    /\ UNCHANGED <<http_session, handles, result, results, thread, pending, destructor, userVars,
                   answers, inTime>>

(* Either there is more to read, or that was all. *)
DataAvailable(h) ==
    /\ Called(h, "query")
    /\ \/ Continue(h, "read") /\ UNCHANGED result
       \/ /\ result' = [result EXCEPT ![handles[h].req].completed = TRUE]
          /\ Starts(h, "none") /\ Complete(h)
    /\ CallbackUnchanged

ReadComplete(h) ==
    /\ Called(h, "read")
    /\ Continue(h, "query")
    /\ UNCHANGED result /\ CallbackUnchanged

(* The last callback of a handle. *)
HandleClosing_Kept(h) ==
    /\ handles[h].in_use /\ winhttp[h].closed /\ winhttp[h].op = "none"
    /\ winhttp' = [winhttp EXCEPT ![h] = NoOperation]
    /\ UNCHANGED <<result, results>> /\ CallbackUnchanged
HandleClosing(h) ==
    /\ handles[h].in_use /\ winhttp[h].closed /\ winhttp[h].op = "none"
    /\ handles' = [handles EXCEPT ![h] = FreeHandleData]
    /\ winhttp' = [winhttp EXCEPT ![h] = NoOperation]
    /\ UNCHANGED <<http_session, result, results, thread, pending, destructor, userVars, historyVars>>

-----------------------------------------------------------------------------
(* CompletionThread *)

TakeResult ==
    /\ thread.at = "wait" /\ http_session /\ results # <<>>
    /\ thread' = [at |-> "deliver", req |-> Head(results)] /\ results' = Tail(results)
    /\ UNCHANGED <<http_session, handles, winhttp, result, pending, destructor, userVars, historyVars>>

Answer(r) ==
    IF result[r].completed THEN "result"
    ELSE IF result[r].status \in {"error", "cancelled"} THEN result[r].status ELSE "unknown"

SwapCallback_Not(r) == UNCHANGED result
SwapCallback(r) == result' = [result EXCEPT ![r].callback = FALSE]

(* A result that was taken while the destructor closed the session is      *)
(* dropped here.                                                           *)
Deliver ==
    /\ thread.at = "deliver"
    /\ LET r == thread.req IN
       \/ /\ http_session /\ result[r].callback
          /\ SwapCallback(r)
          /\ answers' = [answers EXCEPT ![r] = Append(@, Answer(r))]
          /\ thread' = IF result[r].completed THEN [thread EXCEPT !.at = "close"]
                       ELSE [at |-> "wait", req |-> Nobody]
          /\ UNCHANGED dropped
       \/ /\ ~(http_session /\ result[r].callback)
          /\ thread' = IF http_session /\ result[r].completed THEN [thread EXCEPT !.at = "close"]
                       ELSE [at |-> "wait", req |-> Nobody]
          /\ dropped' = IF http_session THEN dropped ELSE dropped \cup {r}
          /\ UNCHANGED <<result, answers>>
    /\ UNCHANGED <<http_session, handles, winhttp, results, pending, destructor, userVars, inTime>>

(* Only a completed request is closed; one that failed keeps its handle. *)
CloseCompleted ==
    /\ thread.at = "close"
    /\ thread' = [at |-> "wait", req |-> Nobody]
    /\ \/ \E h \in FindHandle(thread.req) : CloseHandle(h)
       \/ FindHandle(thread.req) = {} /\ UNCHANGED <<handles, winhttp>>
    /\ UNCHANGED <<http_session, result, results, pending, destructor, userVars, historyVars>>

ThreadEnds ==
    /\ thread.at = "wait" /\ ~http_session
    /\ thread' = [thread EXCEPT !.at = "exit"]
    /\ UNCHANGED <<http_session, handles, winhttp, result, results, pending, destructor, userVars,
                   historyVars>>

-----------------------------------------------------------------------------
(* The destructor *)

InUse == {h \in Handles : handles[h].in_use}

(* Nobody is inside Send when the network is destroyed. *)
Collect ==
    /\ destructor = "none"
    /\ \A r \in Requests : sent[r] \notin {"setup", "opened", "storing"}
    /\ pending' = {handles[h].req : h \in InUse}
    /\ winhttp' = [h \in Handles |-> IF h \in InUse THEN Closed(h) ELSE winhttp[h]]
    /\ handles' = [h \in Handles |-> [handles[h] EXCEPT !.http = FALSE]]
    /\ destructor' = "waiting"
    /\ UNCHANGED <<http_session, result, results, thread, userVars, historyVars>>

CloseSession ==
    /\ destructor = "waiting" /\ InUse = {}
    /\ http_session' = FALSE /\ destructor' = "joining"
    /\ UNCHANGED <<handles, winhttp, result, results, thread, pending, userVars, historyVars>>

Drain_Not == pending' = pending
Drain == pending' = pending \cup {results[i] : i \in DOMAIN results}

Joined ==
    /\ destructor = "joining" /\ thread.at = "exit"
    /\ Drain /\ results' = <<>>
    /\ destructor' = "calling"
    /\ UNCHANGED <<http_session, handles, winhttp, result, thread, userVars, historyVars>>

CallOffline ==
    /\ destructor = "calling"
    /\ \/ /\ pending = {} /\ destructor' = "done" /\ UNCHANGED <<pending, result, answers>>
       \/ /\ \E r \in pending :
             /\ pending' = pending \ {r}
             /\ result' = [result EXCEPT ![r].callback = FALSE]
             /\ answers' = IF result[r].callback
                           THEN [answers EXCEPT ![r] = Append(@, "offline")] ELSE answers
          /\ UNCHANGED destructor
    /\ UNCHANGED <<http_session, handles, winhttp, results, thread, userVars, inTime, dropped>>

-----------------------------------------------------------------------------

SendStep == \E r \in Requests : OpenRequest(r) \/ SendRequest(r) \/ StoreRequest(r)
HandleStep(h) ==
    \/ OperationEnds(h) \/ RequestError(h) \/ SendRequestComplete(h) \/ HeadersAvailable(h)
    \/ QueryAfterHeaders(h) \/ DataAvailable(h) \/ ReadComplete(h) \/ HandleClosing(h)
ThreadStep == TakeResult \/ Deliver \/ CloseCompleted \/ ThreadEnds
DestructorStep == CloseSession \/ Joined \/ CallOffline

Next ==
    \/ \E r \in Requests : GetHandle(r) \/ Cancel(r)
    \/ SendStep \/ (\E h \in Handles : HandleStep(h)) \/ ThreadStep \/ Collect \/ DestructorStep

(* Threads run, WinHTTP ends every operation by its timeout at the latest, *)
(* and there is not always more to read.                                   *)
Spec ==
    /\ Init /\ [][Next]_vars
    /\ WF_vars(SendStep) /\ WF_vars(ThreadStep) /\ WF_vars(DestructorStep)
    /\ \A h \in Handles : WF_vars(HandleStep(h)) /\ SF_vars(DataAvailable(h) /\ result' # result)

-----------------------------------------------------------------------------
(* Properties *)

(* No callback twice: CompletionThread and the destructor both take it     *)
(* from the result before they call it.  "In case of failure no callbacks  *)
(* will be triggered" (Network.h:69).                                      *)
AnsweredOnce ==
    \A r \in Requests :
        /\ Len(answers[r]) <= 1
        /\ sent[r] \in {"new", "refused", "broken", "failed"} => answers[r] = <<>>

(* A handle is never given to another request while WinHTTP, a result or   *)
(* Send still needs it (GetHandle, HandleClosing).                         *)
NothingLost ==
    \A r \in Requests : sent[r] = "sent" /\ answers[r] = <<>> =>
        \/ FindHandle(r) # {} \/ r \in dropped \/ r \in pending
        \/ r = thread.req \/ \E i \in DOMAIN results : results[i] = r

(* Whoever is cancelled while WinHTTP is at work for it is told so         *)
(* (Network.h:79, RequestCallback), or that the network is gone.           *)
CancelReported == \A r \in inTime : answers[r] \in {<<>>, <<"cancelled">>, <<"offline">>}

(* Every request is called back but for two losses: the query for data     *)
(* failed after the headers (NetworkWinHttp.cpp:754), for instance because *)
(* of a Cancel, or the destructor closed the session just after the result *)
(* was taken from the queue (NetworkWinHttp.cpp:918).  The destructor      *)
(* returns, unless WinHttpOpenRequest has failed: then it waits for a      *)
(* handle that nobody gives back (NetworkWinHttp.cpp:400).                 *)
Quiet ==
    /\ \A r \in Requests : sent[r] = "sent" => answers[r] # <<>> \/ r \in dropped
    /\ destructor \in {"none", "done"} \/ \E r \in Requests : sent[r] = "broken"
=============================================================================
