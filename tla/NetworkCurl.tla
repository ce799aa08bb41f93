------------------------------ MODULE NetworkCurl ------------------------------
(***************************************************************************)
(* http::NetworkCurl: a fixed set of request handles, a queue of events    *)
(* and one worker thread that drives curl's multi handle and calls back.   *)
(*                                                                         *)
(* Send and Cancel run on the users' threads.  event_mutex_ guards the     *)
(* handles and the events, but the worker gives it up to complete a        *)
(* message, and an event names a handle, not the request that had it.      *)
(***************************************************************************)
EXTENDS Naturals, Sequences

CONSTANTS
    Requests,       \* what users send, each once
    Handles,        \* handles_
    MaxRetries,     \* max_retries of every request
    MaxCancels,     \* bound on the calls of Cancel
    Nobody          \* no request, no handle

ASSUME NetworkAssumption ==
    /\ Handles # {} /\ MaxRetries \in Nat /\ MaxCancels \in Nat
    /\ Nobody \notin Requests \cup Handles

VARIABLES
    state,          \* state_
    handles,        \* handles_: whose request, in_use, cancelled, retry_count
    events,         \* events_
    multi,          \* the handles added to curl_
    finished,       \* those of them whose transfer has ended
    failed,         \* the worker's msgs: handles that could not be added
    worker,         \* where the worker is, and what it is completing
    offline,        \* requests that Teardown still has to call back
    sent,           \* what has become of each call of Send
    taken,          \* the handle that each call of Send has got
    dying,          \* the destructor has been called
    cancels,        \* calls of Cancel so far
    answers,        \* history: what each request's callback was called with
    cancelledIds,   \* history: the requests for which Cancel was called
    inTime          \* history: those found before their completion was decided

curlVars == <<multi, finished, failed>>
userVars == <<sent, taken, dying, cancels, cancelledIds, inTime>>
vars == <<state, handles, events, curlVars, worker, offline, userVars, answers>>

Status == {"result", "lost", "timedOut", "notSent", "cancelled", "offline"}
Idle == [at |-> "events", back |-> "events", handle |-> Nobody, req |-> Nobody, status |-> "result",
         retry |-> FALSE]

HandleRecords == [req : Requests \cup {Nobody}, in_use : BOOLEAN, cancelled : BOOLEAN,
                  retry_count : 0..MaxRetries]
EventRecords == [type : {"SEND_EVENT", "CANCEL_EVENT"}, handle : Handles]
Loops == {"events", "failed", "read", "lost"}
Labels == Loops \cup {"perform", "complete", "decide", "requeue", "release", "call", "offline", "exit"}
WorkerRecords == [at : Labels, back : Loops, handle : Handles \cup {Nobody},
                  req : Requests \cup {Nobody}, status : Status, retry : BOOLEAN]

TypeOK ==
    /\ state \in {"STOPPED", "STARTED", "STOPPING"}
    /\ handles \in [Handles -> HandleRecords]
    /\ events \in Seq(EventRecords)
    /\ multi \subseteq Handles /\ finished \subseteq multi /\ failed \subseteq Handles
    /\ worker \in WorkerRecords
    /\ offline \subseteq Requests /\ cancelledIds \subseteq Requests /\ inTime \subseteq cancelledIds
    /\ sent \in [Requests -> {"new", "setup", "sent", "refused", "broken"}]
    /\ taken \in [Requests -> Handles \cup {Nobody}]
    /\ dying \in BOOLEAN /\ cancels \in 0..MaxCancels
    /\ answers \in [Requests -> Seq(Status)]

Init ==
    /\ state = "STOPPED"
    /\ handles = [h \in Handles |-> [req |-> Nobody, in_use |-> FALSE, cancelled |-> FALSE,
                                     retry_count |-> 0]]
    /\ events = <<>> /\ multi = {} /\ finished = {} /\ failed = {}
    /\ worker = [Idle EXCEPT !.at = "exit"] /\ offline = {}
    /\ sent = [r \in Requests |-> "new"] /\ taken = [r \in Requests |-> Nobody]
    /\ dying = FALSE /\ cancels = 0
    /\ answers = [r \in Requests |-> <<>>] /\ cancelledIds = {} /\ inTime = {}

IsStarted == state = "STARTED"
AddEvent(type, h) == events' = Append(events, [type |-> type, handle |-> h])

-----------------------------------------------------------------------------
(* Send *)

MayTake_Any(h) == TRUE
MayTake(h) == ~handles[h].in_use

(* The first call of Send starts the worker. *)
Initialize == state' = "STARTED" /\ worker' = IF IsStarted THEN worker ELSE Idle

(* Send gives no id but an error: Initialize has failed, or all handles    *)
(* are in use.                                                             *)
SendFails(r) ==
    /\ sent' = [sent EXCEPT ![r] = "refused"]
    /\ UNCHANGED <<state, handles, worker, taken>>

GetHandle(r) ==
    /\ sent[r] = "new" /\ ~dying
    /\ \/ SendFails(r)
       \/ \E h \in Handles :
             /\ MayTake(h) /\ Initialize
             /\ handles' = [handles EXCEPT ![h] = [req |-> r, in_use |-> TRUE, cancelled |-> FALSE,
                                                   retry_count |-> 0]]
             /\ sent' = [sent EXCEPT ![r] = "setup"] /\ taken' = [taken EXCEPT ![r] = h]
    /\ UNCHANGED <<events, curlVars, offline, dying, cancels, answers, cancelledIds, inTime>>

(* The handle is set up; if that fails, nobody gives it back. *)
SendImplementation(r) ==
    /\ sent[r] = "setup"
    /\ \/ sent' = [sent EXCEPT ![r] = "sent"] /\ AddEvent("SEND_EVENT", taken[r])
       \/ sent' = [sent EXCEPT ![r] = "broken"] /\ UNCHANGED events
    /\ UNCHANGED <<state, handles, curlVars, worker, offline, taken, dying, cancels, answers,
                   cancelledIds, inTime>>

(* The user knows the id once Send has returned. *)
Cancel(r) ==
    /\ cancels < MaxCancels /\ sent[r] = "sent" /\ ~dying /\ IsStarted
    /\ cancels' = cancels + 1 /\ cancelledIds' = cancelledIds \cup {r}
    /\ \/ \E h \in Handles :
             /\ handles[h].in_use /\ handles[h].req = r
             /\ handles' = [handles EXCEPT ![h].cancelled = TRUE]
             /\ AddEvent("CANCEL_EVENT", h)
             /\ inTime' = IF worker.handle = h /\ worker.at \in {"decide", "release"}
                          THEN inTime ELSE inTime \cup {r}
       \/ /\ \A h \in Handles : handles[h].req = r => ~handles[h].in_use
          /\ UNCHANGED <<handles, events, inTime>>
    /\ UNCHANGED <<state, curlVars, worker, offline, sent, taken, dying, answers>>

-----------------------------------------------------------------------------
(* The worker: events first, then handles that failed, then curl *)

Go(label) == worker' = [worker EXCEPT !.at = label]

Complete(h, status, retry, back) ==
    worker' = [Idle EXCEPT !.at = "complete", !.handle = h, !.status = status, !.retry = retry,
                           !.back = back]

(* A handle that is in curl_ already cannot be added again. *)
SendEvent ==
    /\ worker.at = "events" /\ IsStarted /\ events # <<>> /\ Head(events).type = "SEND_EVENT"
    /\ LET h == Head(events).handle IN
       /\ multi' = IF handles[h].in_use THEN multi \cup {h} ELSE multi
       /\ failed' = IF handles[h].in_use /\ h \in multi THEN failed \cup {h} ELSE failed
    /\ events' = Tail(events)
    /\ UNCHANGED <<state, handles, finished, worker, offline, userVars, answers>>

CancelEvent ==
    /\ worker.at = "events" /\ IsStarted /\ events # <<>> /\ Head(events).type = "CANCEL_EVENT"
    /\ LET h == Head(events).handle IN
       \/ /\ handles[h].in_use
          /\ multi' = multi \ {h} /\ finished' = finished \ {h}
          /\ Complete(h, "timedOut", FALSE, "events")
       \/ ~handles[h].in_use /\ UNCHANGED <<multi, finished, worker>>
    /\ events' = Tail(events)
    /\ UNCHANGED <<state, handles, failed, offline, userVars, answers>>

EventsDone ==
    /\ worker.at = "events" /\ IsStarted /\ events = <<>>
    /\ Go("failed")
    /\ UNCHANGED <<state, handles, events, curlVars, offline, userVars, answers>>

NextFailed ==
    /\ worker.at = "failed"
    /\ \/ \E h \in failed : failed' = failed \ {h} /\ Complete(h, "notSent", FALSE, "failed")
       \/ failed = {} /\ Go("perform") /\ UNCHANGED failed
    /\ UNCHANGED <<state, handles, events, multi, finished, offline, userVars, answers>>

(* curl_multi_perform: transfers end, sooner or later. *)
Transfer(h) ==
    /\ worker.at = "perform" /\ h \in multi \ finished
    /\ finished' = finished \cup {h}
    /\ UNCHANGED <<state, handles, events, multi, failed, worker, offline, userVars, answers>>

PerformDone ==
    /\ worker.at = "perform"
    /\ Go("read")
    /\ UNCHANGED <<state, handles, events, curlVars, offline, userVars, answers>>

(* A message of curl: the transfer succeeded, or failed so that it may be  *)
(* retried, or failed for good.                                            *)
ReadMessage ==
    /\ worker.at = "read" /\ IsStarted
    /\ \/ \E h \in finished, retry \in BOOLEAN :
             /\ multi' = multi \ {h} /\ finished' = finished \ {h}
             /\ Complete(h, "result", retry, "read")
       \/ finished = {} /\ Go("lost") /\ UNCHANGED <<multi, finished>>
    /\ UNCHANGED <<state, handles, events, failed, offline, userVars, answers>>

(* The end of a round: the worker waits, for two seconds at most, and      *)
(* gives up the connections it no longer needs.                            *)
NextRound == Go("events") /\ UNCHANGED <<multi, finished>>

(* A handle whose transfer has not begun within kHandleLostTimeout, as     *)
(* that of a request whose Send broke off, is taken back.  Send itself     *)
(* takes less time.                                                        *)
LostHandles ==
    /\ worker.at = "lost"
    /\ \/ \E h \in Handles :
             /\ IsStarted /\ handles[h].in_use /\ sent[handles[h].req] # "setup"
             /\ multi' = multi \ {h} /\ finished' = finished \ {h}
             /\ Complete(h, "lost", FALSE, "lost")
       \/ NextRound
    /\ UNCHANGED <<state, handles, events, failed, offline, userVars, answers>>

-----------------------------------------------------------------------------
(* CompleteMessage *)

Released(h) == [handles EXCEPT ![h].in_use = FALSE]

WasCancelled_Never(h) == FALSE
WasCancelled(h) == handles[h].cancelled

CompleteMessage ==
    LET h == worker.handle IN
    /\ worker.at = "complete"
    /\ \/ ~handles[h].in_use /\ Go(worker.back) /\ UNCHANGED handles
       \/ /\ handles[h].in_use /\ WasCancelled(h)
          /\ worker' = [worker EXCEPT !.at = "call", !.req = handles[h].req, !.status = "cancelled"]
          /\ handles' = Released(h)
       \/ /\ handles[h].in_use /\ ~WasCancelled(h)
          /\ worker' = [worker EXCEPT !.at = "decide", !.req = handles[h].req]
          /\ UNCHANGED handles
    /\ UNCHANGED <<state, events, curlVars, offline, userVars, answers>>

Retries_OneMore(h) == ~handles[h].cancelled /\ handles[h].retry_count <= MaxRetries
Retries(h) == ~handles[h].cancelled /\ handles[h].retry_count < MaxRetries

(* Without the mutex: retry, or go on to answer.  (That the code counts a  *)
(* retry it then refuses is left out: the handle is given up next.)        *)
Decide ==
    LET h == worker.handle IN
    /\ worker.at = "decide"
    /\ \/ /\ worker.retry /\ Retries(h)
          /\ handles' = [handles EXCEPT ![h].retry_count = @ + 1]
          /\ Go("requeue")
       \/ ~(worker.retry /\ Retries(h)) /\ Go("release") /\ UNCHANGED handles
    /\ UNCHANGED <<state, events, curlVars, offline, userVars, answers>>

Requeue ==
    /\ worker.at = "requeue"
    /\ AddEvent("SEND_EVENT", worker.handle)
    /\ Go(worker.back)
    /\ UNCHANGED <<state, handles, curlVars, offline, userVars, answers>>

ReleaseHandle_Forgotten ==
    /\ worker.at = "release"
    /\ Go("call")
    /\ UNCHANGED <<state, handles, events, curlVars, offline, userVars, answers>>
ReleaseHandle ==
    /\ worker.at = "release"
    /\ handles' = Released(worker.handle)
    /\ Go("call")
    /\ UNCHANGED <<state, events, curlVars, offline, userVars, answers>>

(* The user's callback, with no mutex held and the handle free for others. *)
Callback ==
    /\ worker.at = "call"
    /\ answers' = [answers EXCEPT ![worker.req] = Append(@, worker.status)]
    /\ worker' = [Idle EXCEPT !.at = worker.back]
    /\ UNCHANGED <<state, handles, events, curlVars, offline, userVars>>

-----------------------------------------------------------------------------
(* The destructor, and the end of the worker *)

(* Nobody is inside Send when the network is destroyed. *)
Deinitialize ==
    /\ IsStarted /\ ~dying /\ \A r \in Requests : sent[r] # "setup"
    /\ dying' = TRUE /\ state' = "STOPPING"
    /\ UNCHANGED <<handles, events, curlVars, worker, offline, sent, taken, cancels, answers,
                   cancelledIds, inTime>>

Outstanding_Added == {handles[h].req : h \in {x \in multi : handles[x].in_use}}
Outstanding == {handles[h].req : h \in {x \in Handles : handles[x].in_use}}

Teardown ==
    /\ worker.at \in {"events", "read"} /\ state = "STOPPING"
    /\ events' = <<>> /\ multi' = {} /\ finished' = {} /\ failed' = {}
    /\ offline' = Outstanding
    /\ worker' = [Idle EXCEPT !.at = "offline"]
    /\ UNCHANGED <<state, handles, userVars, answers>>

TeardownCallback ==
    /\ worker.at = "offline"
    /\ \E r \in offline : /\ answers' = [answers EXCEPT ![r] = Append(@, "offline")]
                          /\ offline' = offline \ {r}
    /\ UNCHANGED <<state, handles, events, curlVars, worker, userVars>>

Exit_StillStopping ==
    /\ worker.at = "offline" /\ offline = {}
    /\ Go("exit")
    /\ UNCHANGED <<state, handles, events, curlVars, offline, userVars, answers>>
Exit ==
    /\ worker.at = "offline" /\ offline = {}
    /\ Go("exit") /\ state' = "STOPPED"
    /\ UNCHANGED <<handles, events, curlVars, offline, userVars, answers>>

-----------------------------------------------------------------------------

WorkerStep ==
    \/ SendEvent \/ CancelEvent \/ EventsDone \/ NextFailed \/ PerformDone \/ ReadMessage \/ LostHandles
    \/ CompleteMessage \/ Decide \/ Requeue \/ ReleaseHandle \/ Callback
    \/ Teardown \/ TeardownCallback \/ Exit

Next ==
    \/ \E r \in Requests : GetHandle(r) \/ SendImplementation(r) \/ Cancel(r)
    \/ \E h \in Handles : Transfer(h)
    \/ WorkerStep \/ Deinitialize

(* The worker runs, a call of Send comes to its end, and curl ends every   *)
(* transfer by its timeout (CURLOPT_TIMEOUT) at the latest.                *)
Spec == Init /\ [][Next]_vars
FairSpec ==
    /\ Spec /\ WF_vars(WorkerStep)
    /\ \A r \in Requests : WF_vars(SendImplementation(r))
    /\ \A h \in Handles : SF_vars(Transfer(h))

-----------------------------------------------------------------------------
(* Properties *)

(* The callback of a request is called at most once (CompleteMessage and   *)
(* Teardown give a handle back before or while they call).  "In case of    *)
(* failure no callbacks will be triggered" (Network.h:69): so it is for a  *)
(* Send that got no handle, but not for one that broke off at              *)
(* NetworkCurl.cpp:576 with its handle in use ("broken"), which the lost   *)
(* handle logic or Teardown calls back.                                    *)
AnsweredOnce ==
    \A r \in Requests :
        /\ Len(answers[r]) <= 1
        /\ sent[r] \in {"new", "refused"} => answers[r] = <<>>

(* A request that has been sent is answered, or holds a handle of its own, *)
(* or is just being answered, through retries and cancels (ReleaseHandle). *)
NothingLost ==
    \A r \in Requests : sent[r] = "sent" /\ answers[r] = <<>> =>
        \/ \E h \in Handles : handles[h].in_use /\ handles[h].req = r
        \/ worker.at = "call" /\ worker.req = r
        \/ r \in offline

(* "Once the request was cancelled the user will receive a final Callback  *)
(* with an appropriate NetworkResponse marked as cancelled" (Network.h:79) *)
(* if the cancel comes before the completion is decided.                   *)
CancelReported ==
    \A r \in inTime : answers[r] \in {<<>>, <<"cancelled">>, <<"offline">>}

(* The callback is "called when request is fully processed or cancelled"   *)
(* (Network.h:60): no request ends because of another request's event.     *)
AnsweredForItself ==
    \A r \in Requests :
        \A i \in DOMAIN answers[r] :
            /\ answers[r][i] \notin {"timedOut", "notSent"}
            /\ answers[r][i] = "cancelled" => r \in cancelledIds

(* Every request whose Send succeeded is called back, whatever is          *)
(* cancelled or retried and whether or not the network is destroyed; and   *)
(* the destructor's join returns (Deinitialize).  Requests are sent once,  *)
(* so this comes about in the end.                                         *)
Quiet ==
    /\ \A r \in Requests : sent[r] = "sent" => answers[r] # <<>>
    /\ dying => state = "STOPPED"
=============================================================================
