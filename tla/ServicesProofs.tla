----------------------------- MODULE ServicesProofs -----------------------------
(***************************************************************************)
(* What the services promise that every client of the library is built on. *)
(* The curl back end of the network, for any number of requests and        *)
(* handles and any number of retries and cancels: every request that was   *)
(* sent has its handle until it is called back, it is called back once,    *)
(* and a cancel that comes in time is reported.  The token, for any number *)
(* of callers: it lasts as long as they want, and is new if they want so.  *)
(* The authentication client, for any number of calls, credentials and     *)
(* cached tokens: its caches are exact and its cancels reach the request.  *)
(* The last two also of the instance that TLC checks, for every value of   *)
(* its constants.                                                          *)
(***************************************************************************)
EXTENDS MCServices, Integers, FiniteSetTheorems, SequenceTheorems, TLAPS

-----------------------------------------------------------------------------
(* The inductive invariant *)

(* The request has got a handle (GetHandle).                               *)
Served(r) == sent[r] \in {"setup", "sent", "broken"}
Holds(h, r) == handles[h].in_use /\ handles[h].req = r

(* A handle in use belongs to the one request that took it.                *)
Owners ==
    /\ \A r \in Requests : Served(r) => taken[r] \in Handles
    /\ \A h \in Handles : handles[h].in_use =>
          LET r == handles[h].req IN r \in Requests /\ Served(r) /\ taken[r] = h

(* While it decides without the mutex what becomes of a request, and until *)
(* it releases the handle, nobody takes the handle from the worker.        *)
WorkerKnows ==
    /\ worker.at \in {"complete", "decide", "requeue", "release"} => worker.handle \in Handles
    /\ worker.at \in {"decide", "release"} => Holds(worker.handle, worker.req)
    /\ worker.at \in {"decide", "release", "call"} => worker.req \in Requests

(* The worker lives from the first GetHandle to the end of Teardown.       *)
Life ==
    /\ state = "STARTED" => ~dying
    /\ state = "STOPPING" => dying
    /\ state = "STOPPED" <=> worker.at = "exit"
    /\ worker.at = "offline" => state = "STOPPING"
    /\ worker.at # "offline" => offline = {}
    /\ state = "STOPPED" /\ ~dying => \A h \in Handles : ~handles[h].in_use

(* Somebody has still to call back: the worker, now or in Teardown, or,    *)
(* unless that has begun, whoever completes the request's handle.          *)
Calling(r) == worker.at = "call" /\ worker.req = r
Waiting(r) ==
    \/ Calling(r) \/ r \in offline
    \/ worker.at \notin {"offline", "exit"} /\ \E h \in Handles : Holds(h, r)

(* A request that has a handle waits for its callback or has had it, once. *)
OnceFor(r) ==
    /\ Len(answers[r]) <= 1
    /\ Calling(r) => \A h \in Handles : ~Holds(h, r)
    /\ Waiting(r) => Served(r) /\ answers[r] = <<>>
    /\ answers[r] # <<>> => Served(r)
    /\ Served(r) /\ answers[r] = <<>> => Waiting(r)

(* A cancel in time marks the handle, and no decision has been made then.  *)
HonouredFor(r) ==
    r \in inTime =>
        /\ Served(r)
        /\ \A h \in Handles : Holds(h, r) => handles[h].cancelled
        /\ worker.at \in {"decide", "release"} => worker.req # r
        /\ Calling(r) => worker.status = "cancelled"
        /\ answers[r] \in {<<>>, <<"cancelled">>, <<"offline">>}

OnceInv == \A r \in Requests : OnceFor(r)
HonouredInv == \A r \in Requests : HonouredFor(r)
NetworkInv == Owners /\ WorkerKnows /\ Life /\ OnceInv /\ HonouredInv

-----------------------------------------------------------------------------
(* Type correctness *)

(* A new worker, and where one goes.                                       *)
LEMMA WorkerTyped ==
    /\ Idle \in WorkerRecords
    /\ \A l \in Labels : [Idle EXCEPT !.at = l] \in WorkerRecords
    /\ \A w \in WorkerRecords, l \in Labels :
          /\ [w EXCEPT !.at = l] \in WorkerRecords
          /\ \A r \in Requests : /\ [w EXCEPT !.at = l, !.req = r] \in WorkerRecords
                                 /\ \A s \in Status : [w EXCEPT !.at = l, !.req = r, !.status = s]
                                                      \in WorkerRecords
  <1> USE DEF WorkerRecords
  <1>1. Idle \in WorkerRecords
    BY DEF Idle, Labels, Loops, Status
  <1>2. ASSUME NEW w \in WorkerRecords, NEW l \in Labels PROVE [w EXCEPT !.at = l] \in WorkerRecords
    OBVIOUS
  <1>3. ASSUME NEW w \in WorkerRecords, NEW l \in Labels, NEW r \in Requests
        PROVE  [w EXCEPT !.at = l, !.req = r] \in WorkerRecords
    OBVIOUS
  <1>4. ASSUME NEW w \in WorkerRecords, NEW l \in Labels, NEW r \in Requests, NEW s \in Status
        PROVE  [w EXCEPT !.at = l, !.req = r, !.status = s] \in WorkerRecords
    OBVIOUS
  <1> HIDE DEF WorkerRecords
  <1> QED BY <1>1, <1>2, <1>3, <1>4

(* What Complete makes the worker do.                                      *)
LEMMA CompleteTyped ==
    ASSUME NEW h \in Handles, NEW s \in Status, NEW b \in BOOLEAN, NEW l \in Loops,
           Complete(h, s, b, l)
    PROVE  /\ worker' \in WorkerRecords
           /\ worker'.at = "complete" /\ worker'.handle = h
  BY DEF Complete, WorkerRecords, Idle, Labels, Loops, Status

(* The handle that GetHandle hands out.                                    *)
LEMMA HandleTyped ==
    \A r \in Requests : [req |-> r, in_use |-> TRUE, cancelled |-> FALSE, retry_count |-> 0]
                           \in HandleRecords
  BY NetworkAssumption DEF HandleRecords

(* What AddEvent puts on the queue, and what the worker takes off it.      *)
LEMMA EventTyped ==
    ASSUME events \in Seq(EventRecords)
    PROVE  /\ \A h \in Handles, t \in {"SEND_EVENT", "CANCEL_EVENT"} :
                 Append(events, [type |-> t, handle |-> h]) \in Seq(EventRecords)
           /\ events # <<>> => Head(events).handle \in Handles /\ Tail(events) \in Seq(EventRecords)
  <1>1. \A h \in Handles, t \in {"SEND_EVENT", "CANCEL_EVENT"} : [type |-> t, handle |-> h] \in EventRecords
    BY DEF EventRecords
  <1>2. events # <<>> => Head(events) \in EventRecords /\ Tail(events) \in Seq(EventRecords)
    OBVIOUS
  <1> QED BY <1>1, <1>2 DEF EventRecords

(* Each step of Send, Cancel, the worker or the destructor keeps the types.*)
LEMMA TypeStep ==
    ASSUME TypeOK, Owners, WorkerKnows, [Next]_vars
    PROVE  TypeOK'
  <1> USE DEF TypeOK
  <1>b. Labels = {"events", "failed", "perform", "read", "complete", "decide", "requeue", "release",
                  "call", "lost", "offline", "exit"}
        /\ Loops = {"events", "failed", "read", "lost"}
    BY DEF Labels, Loops
  <1>c. \A h \in Handles : handles[h] \in HandleRecords /\ handles[h].req \in Requests \cup {Nobody}
    BY DEF HandleRecords
  <1>d. worker.at \in Labels /\ worker.back \in Loops /\ worker.status \in Status
        /\ worker.req \in Requests \cup {Nobody}
    BY DEF WorkerRecords
  <1>0. CASE UNCHANGED vars
    BY <1>0 DEF vars, curlVars, userVars
  <1>1. ASSUME NEW r \in Requests, GetHandle(r) PROVE TypeOK'
    <2>1. CASE sent' = [sent EXCEPT ![r] = "refused"] /\ UNCHANGED <<state, handles, worker, taken>>
      BY <1>1, <2>1 DEF GetHandle, Initialize, SendFails, curlVars
    <2>2. ASSUME NEW h \in Handles,
                 worker' = IF IsStarted THEN worker ELSE Idle,
                 handles' = [handles EXCEPT ![h] = [req |-> r, in_use |-> TRUE, cancelled |-> FALSE,
                                                    retry_count |-> 0]],
                 state' = "STARTED", sent' = [sent EXCEPT ![r] = "setup"],
                 taken' = [taken EXCEPT ![r] = h]
          PROVE  TypeOK'
      <3>1. handles' \in [Handles -> HandleRecords] /\ worker' \in WorkerRecords
        BY <2>2, HandleTyped, WorkerTyped
      <3> QED BY <1>1, <2>2, <3>1 DEF GetHandle, Initialize, SendFails, curlVars
    <2> QED BY <1>1, <2>1, <2>2 DEF GetHandle, Initialize, SendFails
  <1>2. ASSUME NEW r \in Requests, SendImplementation(r) PROVE TypeOK'
    <2>1. events' \in Seq(EventRecords)
      <3>1. taken[r] \in Handles
        BY <1>2 DEF SendImplementation, Owners, Served
      <3>2. events' = events \/ events' = Append(events, [type |-> "SEND_EVENT", handle |-> taken[r]])
        BY <1>2 DEF SendImplementation, AddEvent
      <3> QED BY <3>1, <3>2, EventTyped
    <2> QED BY <1>2, <2>1 DEF SendImplementation, curlVars
  <1>3. ASSUME NEW r \in Requests, Cancel(r) PROVE TypeOK'
    <2>1. events' \in Seq(EventRecords)
      BY <1>3, EventTyped DEF Cancel, AddEvent
    <2>2. handles' \in [Handles -> HandleRecords]
      <3>1. ASSUME NEW h \in Handles, handles' = [handles EXCEPT ![h].cancelled = TRUE]
            PROVE  handles' \in [Handles -> HandleRecords]
        BY <3>1 DEF HandleRecords
      <3> QED BY <1>3, <3>1 DEF Cancel
    <2>3. cancelledIds' \subseteq Requests /\ inTime' \subseteq cancelledIds' /\ cancels' \in 0..MaxCancels
      BY <1>3, NetworkAssumption DEF Cancel
    <2> QED BY <1>3, <2>1, <2>2, <2>3 DEF Cancel, curlVars
  <1>4. ASSUME NEW h \in Handles, Transfer(h) PROVE TypeOK'
    BY <1>4 DEF Transfer, userVars
  <1>5. CASE SendEvent
    <2>1. events' \in Seq(EventRecords) /\ Head(events).handle \in Handles
      BY <1>5, EventTyped DEF SendEvent
    <2> QED BY <1>5, <2>1 DEF SendEvent, userVars
  <1>6. CASE CancelEvent
    <2>1. events' \in Seq(EventRecords) /\ Head(events).handle \in Handles
      BY <1>6, EventTyped DEF CancelEvent
    <2>2. worker' \in WorkerRecords
      BY <1>6, <1>b, <2>1, CompleteTyped DEF CancelEvent, Status
    <2>3. multi' \subseteq Handles /\ finished' \subseteq multi'
      BY <1>6 DEF CancelEvent
    <2> QED BY <1>6, <2>1, <2>2, <2>3 DEF CancelEvent, userVars
  <1>7. CASE EventsDone
    <2>1. worker' \in WorkerRecords
      BY <1>7, WorkerTyped, <1>b, <1>d DEF EventsDone, Go
    <2> QED BY <1>7, <2>1 DEF EventsDone, curlVars, userVars
  <1>8. CASE NextFailed
    <2>1. worker' \in WorkerRecords
      BY <1>8, <1>b, <1>d, WorkerTyped, CompleteTyped DEF NextFailed, Go, Status
    <2> QED BY <1>8, <2>1 DEF NextFailed, userVars
  <1>9. CASE PerformDone
    <2>1. worker' \in WorkerRecords
      BY <1>9, WorkerTyped, <1>b, <1>d DEF PerformDone, Go
    <2> QED BY <1>9, <2>1 DEF PerformDone, curlVars, userVars
  <1>10. CASE ReadMessage
    <2>1. worker' \in WorkerRecords
      BY <1>10, <1>b, <1>d, WorkerTyped, CompleteTyped DEF ReadMessage, Go, Status
    <2> QED BY <1>10, <2>1 DEF ReadMessage, userVars
  <1>11. CASE LostHandles
    <2>1. worker' \in WorkerRecords
      BY <1>11, <1>b, <1>d, WorkerTyped, CompleteTyped DEF LostHandles, NextRound, Go, Status
    <2> QED BY <1>11, <2>1 DEF LostHandles, NextRound, userVars
  <1>12. CASE CompleteMessage
    <2>1. worker.handle \in Handles /\ handles[worker.handle] \in HandleRecords
      BY <1>12, <1>c DEF CompleteMessage, WorkerKnows
    <2>2. handles' \in [Handles -> HandleRecords]
      <3>1. Released(worker.handle) \in [Handles -> HandleRecords]
        BY <2>1 DEF Released, HandleRecords
      <3> QED BY <1>12, <3>1 DEF CompleteMessage
    <2>3. handles[worker.handle].in_use => handles[worker.handle].req \in Requests
      BY <2>1 DEF Owners
    <2>4. worker' \in WorkerRecords
      BY <1>12, <1>b, <1>d, <2>3 DEF CompleteMessage, Go, Status, WorkerRecords
    <2> QED BY <1>12, <2>2, <2>4 DEF CompleteMessage, curlVars, userVars
  <1>13. CASE Decide
    <2>1. worker.handle \in Handles /\ handles[worker.handle] \in HandleRecords
      BY <1>13, <1>c DEF Decide, WorkerKnows
    <2>2. handles' \in [Handles -> HandleRecords]
      <3>1. CASE Retries(worker.handle) /\ handles' = [handles EXCEPT ![worker.handle].retry_count = @ + 1]
        <4>1. handles[worker.handle].retry_count + 1 \in 0..MaxRetries
          BY <2>1, <3>1, NetworkAssumption DEF Retries, HandleRecords
        <4>2. handles' \in [Handles -> HandleRecords]
          BY <2>1, <3>1, <4>1 DEF HandleRecords
        <4> QED BY <4>2
      <3> QED BY <1>13, <3>1 DEF Decide
    <2>3. worker' \in WorkerRecords
      BY <1>13, <1>b, WorkerTyped DEF Decide, Go
    <2> QED BY <1>13, <2>2, <2>3 DEF Decide, curlVars, userVars
  <1>14. CASE Requeue
    <2>1. events' \in Seq(EventRecords)
      BY <1>14, EventTyped DEF Requeue, AddEvent, WorkerKnows
    <2>2. worker' \in WorkerRecords
      BY <1>14, <1>b, <1>d, WorkerTyped DEF Requeue, Go
    <2> QED BY <1>14, <2>1, <2>2 DEF Requeue, curlVars, userVars
  <1>15. CASE ReleaseHandle
    <2>1. handles' \in [Handles -> HandleRecords]
      BY <1>15 DEF ReleaseHandle, Released, WorkerKnows, HandleRecords
    <2>2. worker' \in WorkerRecords
      BY <1>15, <1>b, WorkerTyped DEF ReleaseHandle, Go
    <2> QED BY <1>15, <2>1, <2>2 DEF ReleaseHandle, curlVars, userVars
  <1>16. CASE Callback
    <2>1. worker' \in WorkerRecords
      BY <1>16, <1>b, <1>d, WorkerTyped DEF Callback
    <2>2. answers' \in [Requests -> Seq(Status)]
      BY <1>16, <1>d DEF Callback, WorkerKnows
    <2> QED BY <1>16, <2>1, <2>2 DEF Callback, curlVars, userVars
  <1>17. CASE Teardown
    <2>1. worker' \in WorkerRecords
      BY <1>17, <1>b, WorkerTyped DEF Teardown
    <2>2. offline' \subseteq Requests
      BY <1>17 DEF Teardown, Outstanding, Owners
    <2>3. events' \in Seq(EventRecords)
      BY <1>17 DEF Teardown
    <2> QED BY <1>17, <2>1, <2>2, <2>3 DEF Teardown, userVars
  <1>18. CASE TeardownCallback
    <2>1. answers' \in [Requests -> Seq(Status)] /\ offline' \subseteq Requests
      BY <1>18 DEF TeardownCallback, Status
    <2> QED BY <1>18, <2>1 DEF TeardownCallback, curlVars, userVars
  <1>19. CASE Exit
    <2>1. worker' \in WorkerRecords
      BY <1>19, WorkerTyped, <1>b, <1>d DEF Exit, Go
    <2> QED BY <1>19, <2>1 DEF Exit, curlVars, userVars
  <1>20. CASE Deinitialize
    BY <1>20 DEF Deinitialize, IsStarted, curlVars
  <1> QED
    BY <1>0, <1>1, <1>2, <1>3, <1>4, <1>5, <1>6, <1>7, <1>8, <1>9, <1>10, <1>11, <1>12,
       <1>13, <1>14, <1>15, <1>16, <1>17, <1>18, <1>19, <1>20
    DEF Next, WorkerStep

-----------------------------------------------------------------------------
(* What the steps that change the handles do to each of them *)

(* The handle belongs to whom it did, and is cancelled if it was.          *)
Kept(h) ==
    /\ handles'[h].in_use = handles[h].in_use /\ handles'[h].req = handles[h].req
    /\ handles[h].cancelled => handles'[h].cancelled

(* GetHandle gives nothing, or a free handle.                              *)
LEMMA GetHandleEffect ==
    ASSUME TypeOK, NEW r \in Requests, GetHandle(r)
    PROVE  \/ sent' = [sent EXCEPT ![r] = "refused"] /\ UNCHANGED <<state, handles, worker, taken>>
           \/ /\ sent' = [sent EXCEPT ![r] = "setup"] /\ state' = "STARTED"
              /\ worker' = IF IsStarted THEN worker ELSE Idle
              /\ \E h \in Handles :
                    /\ ~handles[h].in_use /\ taken' = [taken EXCEPT ![r] = h]
                    /\ handles'[h].in_use /\ handles'[h].req = r /\ ~handles'[h].cancelled
                    /\ \A g \in Handles \ {h} : handles'[g] = handles[g]
  <1>1. ASSUME NEW h \in Handles, MayTake(h),
               handles' = [handles EXCEPT ![h] = [req |-> r, in_use |-> TRUE, cancelled |-> FALSE,
                                                  retry_count |-> 0]]
        PROVE  /\ ~handles[h].in_use
               /\ handles'[h].in_use /\ handles'[h].req = r /\ ~handles'[h].cancelled
               /\ \A g \in Handles \ {h} : handles'[g] = handles[g]
    BY <1>1 DEF TypeOK, MayTake
  <1> QED BY <1>1 DEF GetHandle, Initialize, SendFails

(* Cancel marks the handle that its request has, if it has one.            *)
LEMMA CancelEffect ==
    ASSUME TypeOK, NEW r \in Requests, Cancel(r)
    PROVE  /\ \A g \in Handles : Kept(g)
           /\ \/ \E h \in Handles :
                    /\ Holds(h, r) /\ handles'[h].cancelled
                    /\ inTime' = IF worker.handle = h /\ worker.at \in {"decide", "release"}
                                 THEN inTime ELSE inTime \cup {r}
              \/ UNCHANGED <<handles, inTime>>
  <1>1. ASSUME NEW h \in Handles, handles' = [handles EXCEPT ![h].cancelled = TRUE]
        PROVE  handles'[h].cancelled /\ \A g \in Handles : Kept(g)
    BY <1>1 DEF TypeOK, HandleRecords, Kept
  <1>2. UNCHANGED handles => \A g \in Handles : Kept(g)
    BY DEF Kept
  <1> QED BY <1>1, <1>2 DEF Cancel, Holds

(* Freeing a handle leaves the others alone.                               *)
LEMMA ReleasedEffect ==
    ASSUME TypeOK, NEW h \in Handles, handles' = Released(h)
    PROVE  ~handles'[h].in_use /\ \A g \in Handles \ {h} : handles'[g] = handles[g]
  BY DEF TypeOK, HandleRecords, Released

(* Counting a retry takes the handle from nobody.                          *)
LEMMA DecideEffect ==
    ASSUME TypeOK, WorkerKnows, Decide
    PROVE  /\ \A g \in Handles : Kept(g)
           /\ worker' = [worker EXCEPT !.at = "requeue"] \/ worker' = [worker EXCEPT !.at = "release"]
  <1>1. ASSUME NEW h \in Handles, handles' = [handles EXCEPT ![h].retry_count = @ + 1]
        PROVE  \A g \in Handles : Kept(g)
    BY <1>1 DEF TypeOK, HandleRecords, Kept
  <1>2. UNCHANGED handles => \A g \in Handles : Kept(g)
    BY DEF Kept
  <1> QED BY <1>1, <1>2 DEF Decide, Go, WorkerKnows

(* CompleteMessage finds the handle free, frees it and answers a cancelled *)
(* request, or goes on to decide.                                          *)
LEMMA CompleteEffect ==
    ASSUME TypeOK, Owners, WorkerKnows, CompleteMessage
    PROVE  LET h == worker.handle IN
           /\ h \in Handles /\ worker.at = "complete" /\ worker'.handle = h
           /\ \/ /\ ~handles[h].in_use /\ UNCHANGED handles
                 /\ worker'.at \in Loops
              \/ /\ handles[h].in_use /\ handles' = Released(h)
                 /\ handles[h].req \in Requests
                 /\ worker'.at = "call" /\ worker'.req = handles[h].req
                 /\ worker'.status = "cancelled"
              \/ /\ handles[h].in_use /\ ~handles[h].cancelled /\ UNCHANGED handles
                 /\ handles[h].req \in Requests
                 /\ worker'.at = "decide" /\ worker'.req = handles[h].req
  <1>1. worker \in WorkerRecords /\ worker.back \in Loops
    BY DEF TypeOK, WorkerRecords
  <1>2. worker.handle \in Handles /\ worker.at = "complete"
    BY DEF CompleteMessage, WorkerKnows
  <1>3. handles[worker.handle].in_use => handles[worker.handle].req \in Requests
    BY <1>2 DEF Owners
  <1>4. \A l : LET w == [worker EXCEPT !.at = l] IN w.at = l /\ w.handle = worker.handle
    BY <1>1 DEF WorkerRecords
  <1>5. Go(worker.back) => worker'.at = worker.back /\ worker'.handle = worker.handle
    BY <1>4 DEF Go
  <1>6. CASE ~handles[worker.handle].in_use
    BY <1>1, <1>2, <1>5, <1>6 DEF CompleteMessage
  <1>7. CASE handles[worker.handle].in_use /\ handles[worker.handle].cancelled
    <2>1. /\ worker' = [worker EXCEPT !.at = "call", !.req = handles[worker.handle].req,
                                   !.status = "cancelled"]
          /\ handles' = Released(worker.handle)
      BY <1>7 DEF CompleteMessage, WasCancelled
    <2>2. /\ worker'.at = "call" /\ worker'.req = handles[worker.handle].req
          /\ worker'.status = "cancelled" /\ worker'.handle = worker.handle
      BY <1>1, <2>1 DEF WorkerRecords
    <2> QED BY <1>2, <1>3, <1>7, <2>1, <2>2
  <1>8. CASE handles[worker.handle].in_use /\ ~handles[worker.handle].cancelled
    <2>1. /\ worker' = [worker EXCEPT !.at = "decide", !.req = handles[worker.handle].req]
          /\ UNCHANGED handles
      BY <1>8 DEF CompleteMessage, WasCancelled
    <2>2. /\ worker'.at = "decide" /\ worker'.req = handles[worker.handle].req
          /\ worker'.handle = worker.handle
      BY <1>1, <2>1 DEF WorkerRecords
    <2> QED BY <1>2, <1>3, <1>8, <2>1, <2>2
  <1> QED BY <1>6, <1>7, <1>8

-----------------------------------------------------------------------------
(* The invariant is kept *)

(* Only GetHandle gives a handle to a request, and only a free one.        *)
LEMMA OwnersStep ==
    ASSUME TypeOK, Owners, WorkerKnows, [Next]_vars
    PROVE  Owners'
  <1> USE DEF TypeOK, Owners, Served
  <1>0. CASE UNCHANGED vars
    BY <1>0 DEF vars, curlVars, userVars
  <1>1. ASSUME NEW r \in Requests, GetHandle(r) PROVE Owners'
    <2>1. CASE UNCHANGED <<state, handles, worker, taken>> /\ sent' = [sent EXCEPT ![r] = "refused"]
      BY <1>1, <2>1 DEF GetHandle, Initialize, SendFails
    <2>2. ASSUME NEW h \in Handles, ~handles[h].in_use, taken' = [taken EXCEPT ![r] = h],
                 sent' = [sent EXCEPT ![r] = "setup"], state' = "STARTED",
                 worker' = IF IsStarted THEN worker ELSE Idle,
                 handles'[h].in_use /\ handles'[h].req = r /\ ~handles'[h].cancelled,
                 \A g \in Handles \ {h} : handles'[g] = handles[g]
          PROVE  Owners'
      <3>1. /\ sent[r] = "new" /\ sent'[r] = "setup" /\ taken'[r] = h
            /\ \A q \in Requests \ {r} : sent'[q] = sent[q] /\ taken'[q] = taken[q]
        BY <1>1, <2>2 DEF GetHandle, Initialize, SendFails
      <3>2. \A q \in Requests : Served(q)' => taken'[q] \in Handles
        BY <3>1
      <3>3. ASSUME NEW g \in Handles, handles'[g].in_use
            PROVE  /\ handles'[g].req \in Requests /\ taken'[handles'[g].req] = g
                   /\ sent'[handles'[g].req] \in {"setup", "sent", "broken"}
        <4>1. CASE g = h
          BY <2>2, <3>1, <4>1
        <4>2. CASE g # h
          BY <2>2, <3>1, <3>3, <4>2
        <4> QED BY <4>1, <4>2
      <3> QED BY <3>2, <3>3
    <2> HIDE DEF TypeOK, Owners
    <2> QED BY <1>1, <2>1, <2>2, GetHandleEffect
  <1>2. ASSUME NEW r \in Requests, SendImplementation(r) PROVE Owners'
    BY <1>2 DEF SendImplementation, AddEvent, curlVars
  <1>3. ASSUME NEW r \in Requests, Cancel(r) PROVE Owners'
    BY <1>3, CancelEffect DEF Cancel, Kept
  <1>4. ASSUME NEW h \in Handles, Transfer(h) PROVE Owners'
    BY <1>4 DEF Transfer, userVars
  <1>5. CASE SendEvent
    BY <1>5 DEF SendEvent, userVars
  <1>6. CASE CancelEvent
    BY <1>6 DEF CancelEvent, Complete, userVars
  <1>7. CASE EventsDone
    BY <1>7 DEF EventsDone, Go, curlVars, userVars
  <1>8. CASE NextFailed
    BY <1>8 DEF NextFailed, Complete, Go, userVars
  <1>9. CASE PerformDone
    BY <1>9 DEF PerformDone, Go, curlVars, userVars
  <1>10. CASE ReadMessage
    BY <1>10 DEF ReadMessage, Complete, Go, userVars
  <1>11. CASE LostHandles
    BY <1>11 DEF LostHandles, NextRound, Complete, Go, userVars
  <1>12. CASE CompleteMessage
    BY <1>12, CompleteEffect, ReleasedEffect DEF CompleteMessage, userVars
  <1>13. CASE Decide
    BY <1>13, DecideEffect DEF Decide, Kept, userVars
  <1>14. CASE Requeue
    BY <1>14 DEF Requeue, AddEvent, Go, curlVars, userVars
  <1>15. CASE ReleaseHandle
    BY <1>15, ReleasedEffect DEF ReleaseHandle, WorkerKnows, userVars
  <1>16. CASE Callback
    BY <1>16 DEF Callback, curlVars, userVars
  <1>17. CASE Teardown
    BY <1>17 DEF Teardown, Outstanding, userVars
  <1>18. CASE TeardownCallback
    BY <1>18 DEF TeardownCallback, curlVars, userVars
  <1>19. CASE Exit
    BY <1>19 DEF Exit, Go, curlVars, userVars
  <1>20. CASE Deinitialize
    BY <1>20 DEF Deinitialize, IsStarted, curlVars
  <1> QED
    BY <1>0, <1>1, <1>2, <1>3, <1>4, <1>5, <1>6, <1>7, <1>8, <1>9, <1>10, <1>11, <1>12,
       <1>13, <1>14, <1>15, <1>16, <1>17, <1>18, <1>19, <1>20
    DEF Next, WorkerStep

(* Nobody but the worker frees a handle in use, and nobody takes one.      *)
LEMMA WorkerKnowsStep ==
    ASSUME TypeOK, Owners, WorkerKnows, [Next]_vars
    PROVE  WorkerKnows'
  <1> USE DEF WorkerKnows, Holds, TypeOK
  <1>0. CASE UNCHANGED vars
    BY <1>0 DEF vars, curlVars, userVars, WorkerRecords, Loops
  <1>1. ASSUME NEW r \in Requests, GetHandle(r) PROVE WorkerKnows'
    <2>1. CASE UNCHANGED <<state, handles, worker, taken>> /\ sent' = [sent EXCEPT ![r] = "refused"]
      BY <1>1, <2>1 DEF GetHandle, Initialize, SendFails
    <2>2. ASSUME NEW h \in Handles, ~handles[h].in_use, taken' = [taken EXCEPT ![r] = h],
                 sent' = [sent EXCEPT ![r] = "setup"], state' = "STARTED",
                 worker' = IF IsStarted THEN worker ELSE Idle,
                 handles'[h].in_use /\ handles'[h].req = r /\ ~handles'[h].cancelled,
                 \A g \in Handles \ {h} : handles'[g] = handles[g]
          PROVE  WorkerKnows'
      BY <1>1, <2>2 DEF GetHandle, Initialize, SendFails, Idle
    <2> HIDE DEF TypeOK, WorkerKnows
    <2> QED BY <1>1, <2>1, <2>2, GetHandleEffect
  <1>2. ASSUME NEW r \in Requests, SendImplementation(r) PROVE WorkerKnows'
    BY <1>2 DEF SendImplementation, AddEvent, curlVars, WorkerRecords, Loops
  <1>3. ASSUME NEW r \in Requests, Cancel(r) PROVE WorkerKnows'
    BY <1>3, CancelEffect DEF Cancel, Kept
  <1>4. ASSUME NEW h \in Handles, Transfer(h) PROVE WorkerKnows'
    BY <1>4 DEF Transfer, userVars, WorkerRecords, Loops
  <1>5. CASE SendEvent
    BY <1>5 DEF SendEvent, userVars, WorkerRecords, Loops
  <1>6. CASE CancelEvent
    <2>1. Head(events).handle \in Handles
      BY <1>6, EventTyped DEF CancelEvent
    <2> QED BY <1>6, <2>1 DEF CancelEvent, Complete, Idle
  <1>7. CASE EventsDone
    BY <1>7 DEF EventsDone, Go, curlVars, userVars, WorkerRecords, Loops
  <1>8. CASE NextFailed
    BY <1>8 DEF NextFailed, Complete, Go, userVars, WorkerRecords, Loops, Idle
  <1>9. CASE PerformDone
    BY <1>9 DEF PerformDone, Go, curlVars, userVars, WorkerRecords, Loops
  <1>10. CASE ReadMessage
    BY <1>10 DEF ReadMessage, Complete, Go, userVars, WorkerRecords, Loops, Idle
  <1>11. CASE LostHandles
    BY <1>11 DEF LostHandles, NextRound, Complete, Go, userVars, WorkerRecords, Loops, Idle
  <1>12. CASE CompleteMessage
    BY <1>12, CompleteEffect, ReleasedEffect DEF Loops
  <1>13. CASE Decide
    BY <1>13, DecideEffect DEF Decide, Kept, WorkerRecords
  <1>14. CASE Requeue
    BY <1>14 DEF Requeue, AddEvent, Go, curlVars, userVars, WorkerRecords, Loops
  <1>15. CASE ReleaseHandle
    BY <1>15 DEF ReleaseHandle, Go, WorkerRecords
  <1>16. CASE Callback
    BY <1>16 DEF Callback, curlVars, userVars, WorkerRecords, Loops, Idle
  <1>17. CASE Teardown
    BY <1>17 DEF Teardown, Outstanding, userVars, WorkerRecords, Loops, Idle
  <1>18. CASE TeardownCallback
    BY <1>18 DEF TeardownCallback, curlVars, userVars, WorkerRecords, Loops
  <1>19. CASE Exit
    BY <1>19 DEF Exit, Go, curlVars, userVars, WorkerRecords, Loops
  <1>20. CASE Deinitialize
    BY <1>20 DEF Deinitialize, IsStarted, curlVars, WorkerRecords, Loops
  <1> QED
    BY <1>0, <1>1, <1>2, <1>3, <1>4, <1>5, <1>6, <1>7, <1>8, <1>9, <1>10, <1>11, <1>12,
       <1>13, <1>14, <1>15, <1>16, <1>17, <1>18, <1>19, <1>20
    DEF Next, WorkerStep

(* The worker runs from the first Send to the end of Teardown, and there   *)
(* is nothing to call back in Teardown before or after.                    *)
LEMMA LifeStep ==
    ASSUME TypeOK, Owners, WorkerKnows, Life, [Next]_vars
    PROVE  Life'
  <1> USE DEF Life
  <1>0. CASE UNCHANGED vars
    BY <1>0 DEF vars, curlVars, userVars, TypeOK, WorkerRecords, Loops
  <1>1. ASSUME NEW r \in Requests, GetHandle(r) PROVE Life'
    BY <1>1, GetHandleEffect DEF GetHandle, Initialize, SendFails, IsStarted, Idle
  <1>2. ASSUME NEW r \in Requests, SendImplementation(r) PROVE Life'
    BY <1>2 DEF SendImplementation, AddEvent, curlVars, TypeOK, WorkerRecords, Loops
  <1>3. ASSUME NEW r \in Requests, Cancel(r) PROVE Life'
    BY <1>3, CancelEffect DEF Cancel, Kept, IsStarted
  <1>4. ASSUME NEW h \in Handles, Transfer(h) PROVE Life'
    BY <1>4 DEF Transfer, userVars, TypeOK, WorkerRecords, Loops
  <1>5. CASE SendEvent
    BY <1>5 DEF SendEvent, userVars, TypeOK, WorkerRecords, Loops, Idle, IsStarted
  <1>6. CASE CancelEvent
    BY <1>6 DEF CancelEvent, Complete, Idle, userVars, IsStarted
  <1>7. CASE EventsDone
    BY <1>7 DEF EventsDone, Go, curlVars, userVars, TypeOK, WorkerRecords, Loops, Idle,
        IsStarted
  <1>8. CASE NextFailed
    BY <1>8 DEF NextFailed, Complete, Go, userVars, TypeOK, WorkerRecords, Loops, Idle,
        IsStarted
  <1>9. CASE PerformDone
    BY <1>9 DEF PerformDone, Go, curlVars, userVars, TypeOK, WorkerRecords, Loops
  <1>10. CASE ReadMessage
    BY <1>10 DEF ReadMessage, Complete, Go, userVars, TypeOK, WorkerRecords, Loops, Idle,
        IsStarted
  <1>11. CASE LostHandles
    BY <1>11 DEF LostHandles, NextRound, Complete, Go, userVars, TypeOK, WorkerRecords, Loops, Idle,
        IsStarted
  <1>12. CASE CompleteMessage
    BY <1>12, CompleteEffect DEF CompleteMessage, userVars, Loops
  <1>13. CASE Decide
    BY <1>13, DecideEffect DEF Decide, Kept, userVars, TypeOK, WorkerRecords
  <1>14. CASE Requeue
    BY <1>14 DEF Requeue, AddEvent, Go, curlVars, userVars, TypeOK, WorkerRecords, Loops
  <1>15. CASE ReleaseHandle
    BY <1>15 DEF ReleaseHandle, Go, userVars, TypeOK, WorkerRecords
  <1>16. CASE Callback
    BY <1>16 DEF Callback, curlVars, userVars, TypeOK, WorkerRecords, Loops, Idle, IsStarted
  <1>17. CASE Teardown
    BY <1>17 DEF Teardown, Outstanding, userVars, TypeOK, WorkerRecords, Loops, Idle,
        IsStarted
  <1>18. CASE TeardownCallback
    BY <1>18 DEF TeardownCallback, curlVars, userVars, TypeOK, WorkerRecords, Loops
  <1>19. CASE Exit
    BY <1>19 DEF Exit, Go, curlVars, userVars, TypeOK, WorkerRecords, Loops
  <1>20. CASE Deinitialize
    BY <1>20 DEF Deinitialize, IsStarted, curlVars, TypeOK, WorkerRecords, Loops
  <1> QED
    BY <1>0, <1>1, <1>2, <1>3, <1>4, <1>5, <1>6, <1>7, <1>8, <1>9, <1>10, <1>11, <1>12,
       <1>13, <1>14, <1>15, <1>16, <1>17, <1>18, <1>19, <1>20
    DEF Next, WorkerStep

(* Most steps give, free or call back nothing.                             *)
PlainStep ==
    \/ \E r \in Requests : SendImplementation(r) \/ Cancel(r)
    \/ \E h \in Handles : Transfer(h)
    \/ SendEvent \/ CancelEvent \/ EventsDone \/ NextFailed \/ PerformDone \/ ReadMessage \/ LostHandles
    \/ Decide \/ Requeue \/ Deinitialize \/ UNCHANGED vars

Plain ==
    /\ \A h \in Handles : Kept(h)
    /\ \A r \in Requests : Served(r)' <=> Served(r)
    /\ UNCHANGED <<answers, offline>>
    /\ \/ UNCHANGED worker
       \/ /\ worker.at \notin {"call", "offline", "exit"} /\ worker'.at \notin {"call", "offline", "exit"}
          /\ worker'.at \in {"decide", "release"} => worker.at = "decide" /\ worker'.req = worker.req

(* Such a step changes nothing that the invariant speaks about.            *)
LEMMA PlainEffect ==
    ASSUME TypeOK, WorkerKnows, PlainStep
    PROVE  Plain
  <1>a. worker \in WorkerRecords /\ worker.back \in Loops
    BY DEF TypeOK, WorkerRecords
  <1>b. UNCHANGED handles => \A h \in Handles : Kept(h)
    BY DEF Kept
  <1>0. CASE UNCHANGED vars
    BY <1>0, <1>a, <1>b DEF vars, curlVars, userVars, Plain, Served, WorkerRecords, Loops
  <1>1. ASSUME NEW r \in Requests, SendImplementation(r) PROVE Plain
    BY <1>1, <1>b DEF SendImplementation, AddEvent, curlVars, Plain, Served, TypeOK
  <1>2. ASSUME NEW r \in Requests, Cancel(r) PROVE Plain
    BY <1>2, CancelEffect DEF Cancel, Plain, Served
  <1>3. ASSUME NEW h \in Handles, Transfer(h) PROVE Plain
    BY <1>3, <1>a, <1>b DEF Transfer, userVars, Plain, Served, WorkerRecords, Loops
  <1>4. CASE SendEvent
    BY <1>4, <1>a, <1>b DEF SendEvent, userVars, Plain, Served, WorkerRecords, Loops
  <1>5. CASE CancelEvent
    BY <1>5, <1>a, <1>b DEF CancelEvent, Complete, userVars, Plain, Served, WorkerRecords,
        Loops, Idle
  <1>6. CASE EventsDone
    BY <1>6, <1>a, <1>b DEF EventsDone, Go, curlVars, userVars, Plain, Served,
        WorkerRecords, Loops
  <1>7. CASE NextFailed
    BY <1>7, <1>a, <1>b DEF NextFailed, Complete, Go, userVars, Plain, Served,
        WorkerRecords, Loops, Idle
  <1>8. CASE PerformDone
    BY <1>8, <1>a, <1>b DEF PerformDone, Go, curlVars, userVars, Plain, Served,
        WorkerRecords, Loops
  <1>9. CASE ReadMessage
    BY <1>9, <1>a, <1>b DEF ReadMessage, Complete, Go, userVars, Plain, Served,
        WorkerRecords, Loops, Idle
  <1>10. CASE LostHandles
    BY <1>10, <1>a, <1>b DEF LostHandles, NextRound, Complete, Go, userVars, Plain, Served,
        WorkerRecords, Loops, Idle
  <1>11. CASE Decide
    BY <1>11, <1>a, DecideEffect DEF Decide, Plain, Served, curlVars, userVars, WorkerRecords
  <1>12. CASE Requeue
    BY <1>12, <1>a, <1>b DEF Requeue, AddEvent, Go, curlVars, userVars, Plain, Served,
        WorkerRecords, Loops
  <1>13. CASE Deinitialize
    BY <1>13, <1>a, <1>b DEF Deinitialize, IsStarted, curlVars, Plain, Served,
        WorkerRecords, Loops
  <1> QED
    BY <1>0, <1>1, <1>2, <1>3, <1>4, <1>5, <1>6, <1>7, <1>8, <1>9, <1>10, <1>11, <1>12, <1>13
    DEF PlainStep

(* Every other step, with the code that it is about.                       *)
LEMMA NextCases ==
    ASSUME [Next]_vars
    PROVE  \/ PlainStep \/ \E r \in Requests : GetHandle(r)
           \/ CompleteMessage \/ ReleaseHandle \/ Callback \/ Teardown \/ TeardownCallback \/ Exit
  BY DEF Next, WorkerStep, PlainStep


(* A request gets its handle before anybody can call it back; the handle   *)
(* is given back when its answer is due, and nothing else answers it.      *)
LEMMA OnceStep ==
    ASSUME TypeOK, Owners, WorkerKnows, Life, OnceInv, [Next]_vars
    PROVE  OnceInv'
  <1> SUFFICES ASSUME NEW q \in Requests PROVE OnceFor(q)'
    BY DEF OnceInv
  <1>a. OnceFor(q)
    BY DEF OnceInv
  <1>b. worker \in WorkerRecords /\ answers[q] \in Seq(Status)
    BY DEF TypeOK
  <1>1. CASE PlainStep
    <2>1. Plain
      BY <1>1, PlainEffect
    <2>2. (Calling(q)' <=> Calling(q)) /\ (Waiting(q)' <=> Waiting(q))
      BY <2>1 DEF Plain, Kept, Calling, Waiting, Holds
    <2> QED BY <1>a, <2>1, <2>2 DEF Plain, Kept, OnceFor, Holds
  <1>2. ASSUME NEW r \in Requests, GetHandle(r) PROVE OnceFor(q)'
    <2> USE DEF OnceFor, Waiting, Calling, Holds, Served
    <2>1. sent[r] = "new" /\ ~dying /\ UNCHANGED <<answers, offline>> /\ offline = {}
      BY <1>2 DEF GetHandle, Initialize, SendFails, Life
    <2>2. CASE UNCHANGED <<state, handles, worker, taken>> /\ sent' = [sent EXCEPT ![r] = "refused"]
      <3>1. Served(q)' <=> Served(q)
        BY <2>1, <2>2 DEF TypeOK
      <3> QED BY <1>a, <2>1, <2>2, <3>1
    <2>3. ASSUME NEW h \in Handles, ~handles[h].in_use, taken' = [taken EXCEPT ![r] = h],
                 sent' = [sent EXCEPT ![r] = "setup"], state' = "STARTED",
                 worker' = IF IsStarted THEN worker ELSE Idle,
                 handles'[h].in_use /\ handles'[h].req = r /\ ~handles'[h].cancelled,
                 \A g \in Handles \ {h} : handles'[g] = handles[g]
          PROVE  OnceFor(q)'
      <3>1. worker'.at \notin {"offline", "exit"}
        BY <2>1, <2>3 DEF Life, IsStarted, Idle, TypeOK
      <3>2. Calling(q)' <=> Calling(q)
        BY <2>1, <2>3 DEF Life, IsStarted, Idle, TypeOK
      <3>3. (sent'[q] = "setup" /\ q = r) \/ (sent'[q] = sent[q] /\ q # r)
        BY <2>3 DEF TypeOK
      <3>4. CASE q = r
        BY <1>a, <2>1, <2>3, <3>1, <3>2, <3>3, <3>4
      <3>5. CASE q # r
        <4>1. \A g \in Handles : Holds(g, q)' <=> Holds(g, q)
          BY <2>3, <3>5
        <4>2. Waiting(q)' <=> Waiting(q)
          BY <2>1, <2>3, <3>1, <3>2, <4>1 DEF Life
        <4> QED BY <1>a, <2>1, <3>2, <3>3, <3>5, <4>1, <4>2
      <3> QED BY <3>4, <3>5
    <2> HIDE DEF OnceFor
    <2> QED BY <1>2, <2>2, <2>3, GetHandleEffect
  <1>3. CASE CompleteMessage
    <2>1. worker.handle \in Handles /\ UNCHANGED <<answers, offline, sent>> /\ worker.at = "complete"
      BY <1>3, CompleteEffect DEF CompleteMessage, userVars
    <2>2. CASE UNCHANGED handles /\ worker'.at \in Loops \cup {"decide"}
      BY <1>a, <2>1, <2>2 DEF OnceFor, Waiting, Calling, Holds, Served, Loops
    <2>3. CASE /\ handles[worker.handle].in_use /\ handles' = Released(worker.handle)
               /\ worker'.at = "call" /\ worker'.req = handles[worker.handle].req
      <3>1. /\ ~handles'[worker.handle].in_use
            /\ \A g \in Handles \ {worker.handle} : handles'[g] = handles[g]
        BY <2>1, <2>3, ReleasedEffect
      <3>2. Holds(worker.handle, q) => \A g \in Handles \ {worker.handle} : ~Holds(g, q)
        BY <2>1 DEF Owners, Holds
      <3> QED BY <1>a, <2>1, <2>3, <3>1, <3>2 DEF OnceFor, Waiting, Calling, Holds, Served
    <2> QED BY <1>3, <2>2, <2>3, CompleteEffect
  <1>4. CASE ReleaseHandle
    <2>1. /\ worker.handle \in Handles /\ Holds(worker.handle, worker.req) /\ worker.at = "release"
          /\ worker'.at = "call" /\ worker'.req = worker.req
          /\ UNCHANGED <<answers, offline, sent>>
      BY <1>4, <1>b DEF ReleaseHandle, Go, WorkerKnows, WorkerRecords, userVars
    <2>2. /\ ~handles'[worker.handle].in_use
          /\ \A g \in Handles \ {worker.handle} : handles'[g] = handles[g]
      BY <1>4, <2>1, ReleasedEffect DEF ReleaseHandle
    <2>3. Holds(worker.handle, q) => \A g \in Handles \ {worker.handle} : ~Holds(g, q)
      BY <2>1 DEF Owners, Holds
    <2> QED BY <1>a, <2>1, <2>2, <2>3 DEF OnceFor, Waiting, Calling, Holds, Served
  <1>5. CASE Callback
    <2>1. /\ worker.req \in Requests /\ worker.status \in Status /\ offline = {}
          /\ worker.at = "call" /\ worker'.at \in Loops
          /\ UNCHANGED <<handles, offline, sent>>
      BY <1>5, <1>b DEF Callback, WorkerKnows, WorkerRecords, Life, Idle, userVars
    <2>2. CASE worker.req = q
      <3>1. answers[q] = <<>> /\ answers'[q] = Append(answers[q], worker.status) /\ Served(q)
        BY <1>5, <1>a, <2>1, <2>2 DEF Callback, TypeOK, OnceFor, Waiting, Calling
      <3>2. Len(answers'[q]) = 1 /\ answers'[q] # <<>>
        BY <2>1, <3>1
      <3> QED BY <1>a, <2>1, <2>2, <3>1, <3>2 DEF OnceFor, Waiting, Calling, Holds, Served, Loops
    <2>3. CASE worker.req # q
      <3>1. answers'[q] = answers[q]
        BY <1>5, <2>3 DEF Callback, TypeOK
      <3> QED BY <1>a, <2>1, <2>3, <3>1 DEF OnceFor, Waiting, Calling, Holds, Served, Loops
    <2> QED BY <2>2, <2>3
  <1>6. CASE Teardown
    <2>1. /\ worker.at \in {"events", "read"} /\ worker'.at = "offline" /\ offline = {}
          /\ UNCHANGED <<handles, answers, sent>>
          /\ q \in offline' <=> \E h \in Handles : Holds(h, q)
      BY <1>6 DEF Teardown, Life, Idle, Outstanding, Holds, userVars
    <2> QED BY <1>a, <2>1 DEF OnceFor, Waiting, Calling, Holds, Served
  <1>7. CASE TeardownCallback
    <2>1. PICK r \in offline : /\ answers' = [answers EXCEPT ![r] = Append(@, "offline")]
                              /\ offline' = offline \ {r}
      BY <1>7 DEF TeardownCallback
    <2>2. UNCHANGED <<handles, worker, sent>> /\ worker.at = "offline"
      BY <1>7 DEF TeardownCallback, userVars
    <2>3. CASE r = q
      <3>1. answers[q] = <<>> /\ answers'[q] = Append(answers[q], "offline") /\ Served(q)
        BY <1>a, <2>1, <2>3 DEF TypeOK, OnceFor, Waiting
      <3>2. Len(answers'[q]) = 1 /\ answers'[q] # <<>>
        BY <3>1
      <3> QED BY <1>a, <2>1, <2>2, <2>3, <3>1, <3>2 DEF OnceFor, Waiting, Calling, Holds, Served
    <2>4. CASE r # q
      <3>1. answers'[q] = answers[q]
        BY <2>1, <2>4 DEF TypeOK
      <3> QED BY <1>a, <2>1, <2>2, <2>4, <3>1 DEF OnceFor, Waiting, Calling, Holds, Served
    <2> QED BY <2>3, <2>4
  <1>8. CASE Exit
    BY <1>8, <1>a, <1>b DEF Exit, Go, WorkerRecords, userVars, OnceFor, Waiting, Calling, Holds, Served
  <1> QED BY <1>1, <1>2, <1>3, <1>4, <1>5, <1>6, <1>7, <1>8, NextCases

(* Cancel marks the handle unless the worker has decided already; the      *)
(* worker reports what is marked, and nobody takes the mark off.           *)
LEMMA HonouredStep ==
    ASSUME TypeOK, Owners, WorkerKnows, Life, OnceInv, HonouredInv, [Next]_vars
    PROVE  HonouredInv'
  <1> SUFFICES ASSUME NEW q \in Requests, q \in inTime' PROVE HonouredFor(q)'
    BY DEF HonouredInv, HonouredFor
  <1>a. HonouredFor(q) /\ OnceFor(q)
    BY DEF HonouredInv, OnceInv
  <1>b. worker \in WorkerRecords /\ answers[q] \in Seq(Status)
    BY DEF TypeOK
  <1> USE DEF Served
  <1>1. CASE PlainStep
    <2>1. Plain
      BY <1>1, PlainEffect
    <2>2. (Calling(q)' <=> Calling(q)) /\ (Calling(q) => UNCHANGED worker) /\ UNCHANGED answers
      BY <2>1 DEF Plain, Calling
    <2>3. CASE q \in inTime
      BY <1>a, <2>1, <2>2, <2>3 DEF Plain, Kept, HonouredFor, Holds
    <2>4. CASE q \notin inTime
      <3>1. PICK r \in Requests : Cancel(r)
        BY <1>1, <2>4 DEF PlainStep, SendImplementation, Transfer, SendEvent, CancelEvent,
             EventsDone, NextFailed, PerformDone, ReadMessage, LostHandles, Decide, Requeue,
             Deinitialize, vars, userVars
      <3>2. PICK h \in Handles :
              /\ Holds(h, r) /\ handles'[h].cancelled
              /\ inTime' = IF worker.handle = h /\ worker.at \in {"decide", "release"}
                           THEN inTime ELSE inTime \cup {r}
        BY <2>4, <3>1, CancelEffect
      <3>3. q = r /\ ~(worker.handle = h /\ worker.at \in {"decide", "release"}) /\ UNCHANGED worker /\ Served(q)'
        BY <2>4, <3>1, <3>2 DEF Cancel
      <3>4. \A g \in Handles : Holds(g, q) => g = h
        BY <3>2, <3>3 DEF Owners, Holds
      <3>5. worker.at \in {"decide", "release"} => worker.req # q
        BY <3>3, <3>4 DEF WorkerKnows
      <3>6. answers[q] = <<>> /\ ~Calling(q)
        BY <1>a, <3>1, <3>2, <3>3 DEF Cancel, IsStarted, Life, OnceFor, Waiting
      <3> QED BY <2>1, <2>2, <3>2, <3>3, <3>4, <3>5, <3>6 DEF Plain, Kept, HonouredFor, Holds, Calling
    <2> QED BY <2>3, <2>4
  <1>2. ASSUME NEW r \in Requests, GetHandle(r) PROVE HonouredFor(q)'
    <2>1. sent[r] = "new" /\ ~dying /\ UNCHANGED <<answers, inTime>> /\ offline = {}
      BY <1>2 DEF GetHandle, Initialize, SendFails, Life
    <2>2. Served(q)'
      <3>1. \A p \in Requests : Served(p) => Served(p)'
        BY <1>2 DEF GetHandle, Initialize, SendFails, TypeOK
      <3> QED BY <1>a, <2>1, <3>1 DEF HonouredFor
    <2>3. CASE UNCHANGED <<state, handles, worker, taken>>
      BY <1>a, <2>1, <2>2, <2>3 DEF HonouredFor, Holds, Calling
    <2>4. ASSUME NEW h \in Handles, ~handles[h].in_use,
                 worker' = IF IsStarted THEN worker ELSE Idle,
                 handles'[h].in_use /\ handles'[h].req = r /\ ~handles'[h].cancelled,
                 \A g \in Handles \ {h} : handles'[g] = handles[g]
          PROVE  HonouredFor(q)'
      <3>1. q # r
        BY <1>a, <2>1 DEF HonouredFor, Served
      <3>2. worker' = worker \/ worker'.at = "events"
        BY <2>4 DEF Idle
      <3>3. \A g \in Handles : Holds(g, q)' => g # h /\ handles'[g] = handles[g]
        BY <2>4, <3>1 DEF Holds
      <3> QED BY <1>a, <2>1, <2>2, <3>2, <3>3 DEF HonouredFor, Holds, Calling
    <2> QED BY <1>2, <2>3, <2>4, GetHandleEffect
  <1>3. CASE CompleteMessage
    <2>1. worker.handle \in Handles /\ UNCHANGED <<answers, inTime, sent>>
      BY <1>3, CompleteEffect DEF CompleteMessage, userVars
    <2>2. CASE UNCHANGED handles /\ worker'.at \in Loops
      BY <1>a, <2>1, <2>2 DEF HonouredFor, Holds, Calling, Loops
    <2>3. CASE /\ handles[worker.handle].in_use /\ handles' = Released(worker.handle)
               /\ worker'.at = "call" /\ worker'.status = "cancelled"
      <3>1. /\ ~handles'[worker.handle].in_use
            /\ \A g \in Handles \ {worker.handle} : handles'[g] = handles[g]
        BY <2>1, <2>3, ReleasedEffect
      <3> QED BY <1>a, <2>1, <2>3, <3>1 DEF HonouredFor, Holds, Calling
    <2>4. CASE /\ handles[worker.handle].in_use /\ ~handles[worker.handle].cancelled /\ UNCHANGED handles
               /\ worker'.at = "decide" /\ worker'.req = handles[worker.handle].req
      BY <1>a, <2>1, <2>4 DEF HonouredFor, Holds, Calling
    <2> QED BY <1>3, <2>2, <2>3, <2>4, CompleteEffect
  <1>4. CASE ReleaseHandle
    <2>1. /\ worker.handle \in Handles /\ worker.at = "release"
          /\ worker'.at = "call" /\ worker'.req = worker.req
          /\ UNCHANGED <<answers, inTime, sent>>
      BY <1>4, <1>b DEF ReleaseHandle, Go, WorkerKnows, WorkerRecords, userVars
    <2>2. /\ ~handles'[worker.handle].in_use
          /\ \A g \in Handles \ {worker.handle} : handles'[g] = handles[g]
      BY <1>4, <2>1, ReleasedEffect DEF ReleaseHandle
    <2> QED BY <1>a, <2>1, <2>2 DEF HonouredFor, Holds, Calling
  <1>5. CASE Callback
    <2>1. /\ worker.req \in Requests /\ worker.at = "call" /\ worker'.at \in Loops
          /\ UNCHANGED <<handles, inTime, sent>>
      BY <1>5, <1>b DEF Callback, WorkerKnows, WorkerRecords, Idle, userVars
    <2>2. answers'[q] \in {<<>>, <<"cancelled">>, <<"offline">>}
      <3>1. CASE worker.req = q
        <4>1. answers[q] = <<>> /\ worker.status = "cancelled"
          BY <1>a, <2>1, <3>1 DEF OnceFor, HonouredFor, Waiting, Calling
        <4>2. answers'[q] = Append(<<>>, "cancelled")
          BY <1>5, <3>1, <4>1 DEF Callback, TypeOK
        <4> QED BY <4>2
      <3>2. CASE worker.req # q
        <4>1. answers'[q] = answers[q]
          BY <1>5, <3>2 DEF Callback, TypeOK
        <4> QED BY <1>a, <2>1, <4>1 DEF HonouredFor
      <3> QED BY <3>1, <3>2
    <2> QED BY <1>a, <2>1, <2>2 DEF HonouredFor, Holds, Calling, Loops
  <1>6. CASE Teardown
    BY <1>6, <1>a DEF Teardown, Idle, userVars, HonouredFor, Holds, Calling
  <1>7. CASE TeardownCallback
    <2>1. PICK r \in offline : answers' = [answers EXCEPT ![r] = Append(@, "offline")]
      BY <1>7 DEF TeardownCallback
    <2>2. UNCHANGED <<handles, worker, inTime, sent>>
      BY <1>7 DEF TeardownCallback, userVars
    <2>3. answers'[q] \in {<<>>, <<"cancelled">>, <<"offline">>}
      <3>1. CASE r = q
        <4>1. answers[q] = <<>>
          BY <1>a, <2>1, <3>1 DEF OnceFor, Waiting
        <4>2. answers'[q] = Append(<<>>, "offline")
          BY <2>1, <3>1, <4>1 DEF TypeOK
        <4> QED BY <4>2
      <3>2. CASE r # q
        BY <1>a, <2>1, <2>2, <3>2 DEF TypeOK, HonouredFor
      <3> QED BY <3>1, <3>2
    <2> QED BY <1>a, <2>2, <2>3 DEF HonouredFor, Holds, Calling
  <1>8. CASE Exit
    BY <1>8, <1>a, <1>b DEF Exit, Go, WorkerRecords, userVars, HonouredFor, Holds, Calling
  <1> QED BY <1>1, <1>2, <1>3, <1>4, <1>5, <1>6, <1>7, <1>8, NextCases

-----------------------------------------------------------------------------
(* The theorems *)

(* Nothing is sent, and the worker is not running.                         *)
LEMMA InitInv ==
    ASSUME Init
    PROVE  TypeOK /\ NetworkInv
  <1> USE DEF Init
  <1>1. TypeOK
    <2>1. handles \in [Handles -> HandleRecords] /\ cancels \in 0..MaxCancels
      BY NetworkAssumption DEF HandleRecords
    <2>2. worker \in WorkerRecords /\ worker.at = "exit"
      BY DEF Idle, WorkerRecords, Labels, Loops, Status
    <2>3. answers \in [Requests -> Seq(Status)] /\ events \in Seq(EventRecords)
      OBVIOUS
    <2> QED BY <2>1, <2>2, <2>3 DEF TypeOK
  <1>2. Owners /\ WorkerKnows /\ Life
    BY DEF Owners, WorkerKnows, Life, Served, Idle
  <1>3. OnceInv /\ HonouredInv
    BY DEF OnceInv, OnceFor, HonouredInv, HonouredFor, Waiting, Calling, Holds, Served, Idle
  <1> QED BY <1>1, <1>2, <1>3 DEF NetworkInv

(* No call of Send, Cancel or the destructor and no step of the worker     *)
(* breaks the types or the invariant.                                      *)
THEOREM NetworkInductive == Spec => [](TypeOK /\ NetworkInv)
  <1>1. Init => TypeOK /\ NetworkInv
    BY InitInv
  <1>2. TypeOK /\ NetworkInv /\ [Next]_vars => (TypeOK /\ NetworkInv)'
    BY TypeStep, OwnersStep, WorkerKnowsStep, LifeStep, OnceStep, HonouredStep DEF NetworkInv
  <1> QED BY <1>1, <1>2, PTL DEF Spec

(* The callback of a request is called at most once, and never for a call  *)
(* of Send that was refused, whatever is cancelled, retried, lost or torn  *)
(* down (CompleteMessage, Teardown).                                       *)
THEOREM AtMostOneAnswer == Spec => []AnsweredOnce
  <1>1. TypeOK /\ NetworkInv => AnsweredOnce
    BY DEF NetworkInv, OnceInv, OnceFor, AnsweredOnce, Served
  <1> QED BY <1>1, NetworkInductive, PTL

(* A request that was sent keeps its handle through retries and cancels    *)
(* until the worker calls back (ReleaseHandle, Requeue).                   *)
THEOREM NoRequestLost == Spec => []NothingLost
  <1>1. TypeOK /\ NetworkInv => NothingLost
    BY DEF NetworkInv, OnceInv, OnceFor, NothingLost, Served, Waiting, Calling, Holds
  <1> QED BY <1>1, NetworkInductive, PTL

(* A request that Cancel found before its completion was decided is never  *)
(* answered with a result (CompleteMessage reads is_cancelled).            *)
THEOREM CancelsHonoured == Spec => []CancelReported
  <1>1. TypeOK /\ NetworkInv => CancelReported
    BY DEF NetworkInv, HonouredInv, HonouredFor, CancelReported, TypeOK
  <1> QED BY <1>1, NetworkInductive, PTL

-----------------------------------------------------------------------------
(* The token (AutoRefreshingToken) *)

(* A token is fresh for a call if it lasts longer than the                 *)
(* minimum_validity that the call asked for, or cannot; it is new if it    *)
(* was issued after the call.  Both but for the lateness of answers.       *)
Fresh(r, c) ==
    r.ok => \/ r.issued + r.expires_in + lag > asked[c] + validity[c]
            \/ r.expires_in <= validity[c]
New(r, c) == r.ok => r.issued + lag >= asked[c]

(* A call is on its way with the validity it asked for, and nobody has a   *)
(* token before somebody asked.                                            *)
Asked ==
    /\ \A c \in Callers : asked[c] <= time /\ (pc[c] # "idle" => validity[c] \in demands)
    /\ demands = {} => ~token.ok /\ \A c \in Callers : ~got[c].ok

(* Until whoever stored the token computes its refresh time, GetToken      *)
(* decides by the one of the token before: the lateness then covers what   *)
(* has passed since the token was issued.  After that, and if all callers  *)
(* want the same, the token is refreshed before it is too short for them.  *)
RefreshInTime ==
    IF Token!AwaitsRefreshTime THEN token.ok => token.issued + lag >= time
    ELSE \A v \in Validities : demands = {v} /\ token.ok /\ token.expires_in > v =>
            refreshTime <= token.issued + token.expires_in + lag - v

(* What a call has in its hands is fresh: the token it is about to read,   *)
(* the response its callback brought, the result it has returned.          *)
FreshInv ==
    \A v \in Validities : demands = {v} => \A c \in Callers :
        /\ pc[c] = "read" => Fresh(token, c)
        /\ pc[c] = "callback" => Fresh(response[c], c)
        /\ pc[c] = "idle" => Fresh(got[c], c)

(* Likewise what a call has in its hands after a refresh, or if it forces  *)
(* one, is new.                                                            *)
NewInv ==
    \A c \in Callers :
        /\ pc[c] = "refresh" => New(token, c)
        /\ pc[c] = "callback" => New(response[c], c)
        /\ validity[c] = 0 => (pc[c] = "read" => New(token, c))
             /\ (pc[c] = "idle" => New(got[c], c))

(* All of it. *)
TokenInv == Asked /\ RefreshInTime /\ FreshInv /\ NewInv

(* Max of two numbers (ComputeRefreshTime, Lateness).                      *)
LEMMA LaterOfTwo ==
    ASSUME NEW a \in Int, NEW b \in Int
    PROVE  Token!Max({a, b}) \in {a, b} /\ Token!Max({a, b}) >= a /\ Token!Max({a, b}) >= b
<1>1. \E x \in {a, b} : \A y \in {a, b} : x >= y
  OBVIOUS
<1>. QED
  BY <1>1 DEF Token!Max

(* The lateness of a token that is stored only grows, and covers the time  *)
(* since it was issued.                                                    *)
LEMMA LatenessBounds ==
    ASSUME Token!TokenAssumption, Token!TypeOK, NEW r \in Token!Tokens, NEW t \in 0..MaxTime
    PROVE  /\ Token!Lateness(r, t) \in 0..MaxTime /\ Token!Lateness(r, t) >= lag
           /\ r.ok => r.issued + Token!Lateness(r, t) >= t
<1>1. r.issued \in 0..MaxTime /\ r.ok \in BOOLEAN /\ lag \in 0..MaxTime /\ MaxTime \in Nat
  BY DEF Token!Tokens, Token!TypeOK, Token!TokenAssumption
<1>2. CASE ~r.ok
  BY <1>1, <1>2 DEF Token!Lateness
<1>3. CASE r.ok
  <2>1. lag \in Int /\ t - r.issued \in Int
    BY <1>1
  <2>2. /\ Token!Lateness(r, t) \in {lag, t - r.issued}
        /\ Token!Lateness(r, t) >= lag /\ Token!Lateness(r, t) >= t - r.issued
    BY <1>3, <2>1, LaterOfTwo DEF Token!Lateness
  <2>. QED
    BY <1>1, <2>2
<1>. QED
  BY <1>1, <1>2, <1>3

(* SignInClient answers with a token, cached or not, or with none.         *)
LEMMA AnswerTypes ==
    ASSUME Token!TokenAssumption, Token!TypeOK, NEW a \in Token!SignInClient
    PROVE  a.response \in Token!Tokens /\ a.cache \in Token!Tokens
<1>1. \A l \in Lifetimes \cup {0} : Token!Failed(l) \in Token!Tokens
  BY DEF Token!TokenAssumption, Token!Failed, Token!Tokens
<1>2. cached \in Token!Tokens
        /\ [ok : {TRUE}, expires_in : Lifetimes, issued : {time}] \subseteq Token!Tokens
  BY DEF Token!TypeOK, Token!Tokens
<1>. DEFINE granted == [ok : {TRUE}, expires_in : Lifetimes, issued : {time}]
            none == {Token!Failed(l) : l \in Lifetimes \cup {0}}
            Stored == {[response |-> r, cache |-> r] : r \in granted \cup none}
            Old == [response : none \cup {cached}, cache : {cached}]
<1>3. granted \subseteq Token!Tokens /\ none \subseteq Token!Tokens
  BY <1>1, <1>2
<1>4. a \in Stored \cup Old
  BY DEF Token!SignInClient
<1>. HIDE DEF granted, none
<1>5. CASE a \in Stored
  BY <1>3, <1>5
<1>6. CASE a \in Old
  BY <1>2, <1>3, <1>6
<1>. QED
  BY <1>4, <1>5, <1>6

(* ComputeRefreshTime gives a point of time, before 0 if the token is too  *)
(* short.                                                                  *)
LEMMA RefreshTimeType ==
    ASSUME Token!TokenAssumption, Token!TypeOK, NEW v \in Validities
    PROVE  Token!ComputeRefreshTime(token, v) \in Int
<1>1. time \in Int /\ v \in Int
  BY DEF Token!TokenAssumption, Token!TypeOK
<1>2. token \in Token!Tokens
  BY DEF Token!TypeOK
<1>3. token.expires_in \in Int
  <2>1. Lifetimes \cup {0} \subseteq Int
    BY DEF Token!TokenAssumption
  <2>2. token.expires_in \in Lifetimes \cup {0}
    BY <1>2 DEF Token!Tokens
  <2>. QED
    BY <2>1, <2>2
<1>. QED
  BY <1>1, <1>3 DEF Token!ComputeRefreshTime

(* The type invariant: every step of GetToken, of its callback and of      *)
(* time keeps it.                                                          *)
LEMMA TokenTypes ==
    ASSUME Token!TokenAssumption, Token!TypeOK, [Token!Next]_Token!vars
    PROVE  Token!TypeOK'
<1>1. Nobody \notin Callers /\ MaxTime \in Nat /\ MaxCalls \in Nat /\ 0 \in 0..MaxTime
  BY DEF Token!TokenAssumption
<1>. USE DEF Token!TypeOK, Token!GoTo, Token!Return
<1>2. ASSUME NEW c \in Callers, NEW v \in Validities, NEW async \in BOOLEAN, Token!Call(c, v, async)
      PROVE  Token!TypeOK'
  BY <1>1, <1>2 DEF Token!Call
<1>3. ASSUME NEW c \in Callers, Token!Lock(c)
      PROVE  Token!TypeOK'
  BY <1>1, <1>3 DEF Token!Lock
<1>4. ASSUME NEW c \in Callers, Token!Store(c)
      PROVE  Token!TypeOK'
  <2>1. lag' \in 0..MaxTime
    BY <1>4, LatenessBounds DEF Token!Store, Token!StoreToken
  <2>. QED
    BY <1>1, <1>4, <2>1 DEF Token!Store, Token!StoreToken
<1>5. ASSUME NEW c \in Callers, Token!Refresh(c)
      PROVE  Token!TypeOK'
  <2>1. refreshTime' \in Int /\ lag' = lag
    BY <1>5, RefreshTimeType DEF Token!Refresh, Token!StoreRefreshTime
  <2>. QED
    BY <1>1, <1>5, <2>1 DEF Token!Refresh
<1>6. ASSUME NEW c \in Callers, Token!Read(c)
      PROVE  Token!TypeOK'
  <2>1. Token!Failed(0) \in Token!Tokens
    BY <1>1 DEF Token!Failed, Token!Tokens
  <2>. QED
    BY <1>1, <1>6, <2>1 DEF Token!Read
<1>7. ASSUME NEW c \in Callers, Token!LockAsync(c)
      PROVE  Token!TypeOK'
  BY <1>1, <1>7 DEF Token!LockAsync
<1>8. ASSUME NEW c \in Callers, Token!Answer(c)
      PROVE  Token!TypeOK'
  <2>1. PICK a \in Token!SignInClient :
          /\ response' = [response EXCEPT ![c] = a.response] /\ cached' = a.cache
          /\ \/ pc[c] = "wait" /\ Token!GoTo(c, "store") /\ UNCHANGED <<token, lag>>
             \/ pc[c] = "sent" /\ Token!GoTo(c, "callback") /\ Token!StoreToken(a.response)
    BY <1>8 DEF Token!Answer
  <2>2. a.response \in Token!Tokens /\ a.cache \in Token!Tokens
    BY AnswerTypes
  <2>3. lag' \in 0..MaxTime /\ token' \in Token!Tokens
    BY <2>1, <2>2, LatenessBounds DEF Token!StoreToken
  <2>. QED
    BY <1>1, <1>8, <2>1, <2>2, <2>3 DEF Token!Answer
<1>9. ASSUME NEW c \in Callers, Token!CallbackRefresh(c)
      PROVE  Token!TypeOK'
  <2>1. refreshTime' \in Int /\ lag' = lag
    BY <1>9, RefreshTimeType DEF Token!CallbackRefresh, Token!StoreRefreshTime
  <2>2. Token!Failed(0) \in Token!Tokens
    BY <1>1 DEF Token!Failed, Token!Tokens
  <2>. QED
    BY <1>1, <1>9, <2>1, <2>2 DEF Token!CallbackRefresh
<1>10. CASE Token!Tick
  <2>1. time' \in 0..MaxTime /\ lag' \in 0..MaxTime
    BY <1>1, <1>10, LatenessBounds DEF Token!Tick
  <2>. QED
    BY <1>10, <2>1 DEF Token!Tick, Token!callVars
<1>11. CASE UNCHANGED Token!vars
  BY <1>11 DEF Token!vars, Token!callVars
<1>. QED
  BY <1>2, <1>3, <1>4, <1>5, <1>6, <1>7, <1>8, <1>9, <1>10, <1>11 DEF Token!Next, Token!Step

(* The numbers of a state, for the steps that calculate with them.         *)
LEMMA TokenNumbers ==
    ASSUME Token!TokenAssumption, Token!TypeOK
    PROVE  /\ time \in Int /\ lag \in Int /\ refreshTime \in Int /\ token \in Token!Tokens
           /\ \A c \in Callers :
                /\ asked[c] \in Int /\ validity[c] \in Int /\ validity[c] \in Validities
                /\ response[c] \in Token!Tokens /\ got[c] \in Token!Tokens
           /\ \A r \in Token!Tokens :
                /\ r.ok \in BOOLEAN /\ r.issued \in Int /\ r.expires_in \in Int
<1>1. time \in Int /\ lag \in Int /\ refreshTime \in Int /\ token \in Token!Tokens
  BY DEF Token!TypeOK
<1>2. ASSUME NEW c \in Callers
      PROVE  /\ asked[c] \in Int /\ validity[c] \in Int /\ validity[c] \in Validities
             /\ response[c] \in Token!Tokens /\ got[c] \in Token!Tokens
  <2>1. asked[c] \in Int /\ validity[c] \in Validities
    BY DEF Token!TypeOK
  <2>2. response[c] \in Token!Tokens /\ got[c] \in Token!Tokens
    BY DEF Token!TypeOK
  <2>3. Validities \subseteq Int
    BY DEF Token!TokenAssumption
  <2>4. validity[c] \in Int
    BY <2>1, <2>3
  <2>. QED
    BY <2>1, <2>2, <2>4
<1>3. ASSUME NEW r \in Token!Tokens
      PROVE  r.ok \in BOOLEAN /\ r.issued \in Int /\ r.expires_in \in Int
  <2>1. Lifetimes \cup {0} \subseteq Int
    BY DEF Token!TokenAssumption
  <2>2. r.expires_in \in Lifetimes \cup {0}
    BY DEF Token!Tokens
  <2>. QED
    BY <2>1, <2>2 DEF Token!Tokens
<1>. QED
  BY <1>1, <1>2, <1>3

(* Lateness only grows; a token that is stored is late by lag at the most. *)
LEMMA LagGrows ==
    ASSUME Token!TokenAssumption, Token!TypeOK, [Token!Next]_Token!vars
    PROVE  /\ lag' \in Int /\ lag' >= lag
           /\ UNCHANGED token \/ (token'.ok => token'.issued + lag' >= time)
<1>1. lag \in Int /\ MaxTime \in Nat /\ time \in 0..MaxTime
  BY DEF Token!TypeOK, Token!TokenAssumption
<1>2. ASSUME NEW c \in Callers, Token!Store(c)
      PROVE  /\ lag' \in Int /\ lag' >= lag
             /\ token'.ok => token'.issued + lag' >= time
  <2>1. response[c] \in Token!Tokens /\ token' = response[c]
          /\ lag' = Token!Lateness(response[c], time)
    BY <1>2 DEF Token!TypeOK, Token!Store, Token!StoreToken
  <2>. QED
    BY <1>1, <2>1, LatenessBounds
<1>3. ASSUME NEW c \in Callers, Token!Answer(c)
      PROVE  /\ lag' \in Int /\ lag' >= lag
             /\ UNCHANGED token \/ (token'.ok => token'.issued + lag' >= time)
  <2>1. PICK a \in Token!SignInClient :
          \/ UNCHANGED <<token, lag>>
          \/ token' = a.response /\ lag' = Token!Lateness(a.response, time)
    BY <1>3 DEF Token!Answer, Token!StoreToken
  <2>2. a.response \in Token!Tokens
    BY AnswerTypes
  <2>. QED
    BY <1>1, <2>1, <2>2, LatenessBounds
<1>4. CASE Token!Tick
  <2>1. time' \in 0..MaxTime /\ token \in Token!Tokens
    BY <1>1, <1>4 DEF Token!Tick, Token!TypeOK
  <2>2. lag' = lag \/ lag' = Token!Lateness(token, time')
    BY <1>4 DEF Token!Tick
  <2>. QED
    BY <1>1, <1>4, <2>1, <2>2, LatenessBounds DEF Token!Tick
<1>5. CASE UNCHANGED <<token, lag>>
  BY <1>1, <1>5
<1>. QED
  BY <1>2, <1>3, <1>4, <1>5
  DEF Token!Next, Token!Step, Token!Call, Token!Lock, Token!Refresh, Token!Read, Token!LockAsync,
      Token!CallbackRefresh, Token!StoreRefreshTime, Token!vars

(* A token issued after the call lasts as long as its life says.           *)
LEMMA NewIsFresh ==
    ASSUME Token!TokenAssumption, Token!TypeOK, NEW c \in Callers, NEW r \in Token!Tokens, New(r, c)
    PROVE  Fresh(r, c)
<1>1. /\ lag \in Int /\ asked[c] \in Int /\ validity[c] \in Int
      /\ r.issued \in Int /\ r.expires_in \in Int
  BY TokenNumbers
<1>. QED
  BY <1>1 DEF New, Fresh

(* A call and its answers keep Asked.                                      *)
LEMMA AskedStep ==
    ASSUME Token!TokenAssumption, Token!TypeOK, Asked, [Token!Next]_Token!vars
    PROVE  Asked'
<1>1. time \in Int /\ \A c \in Callers : asked[c] \in Int
  BY TokenNumbers
<1>. USE DEF Asked, Token!GoTo, Token!Return, Token!TypeOK
<1>2. ASSUME NEW c \in Callers, NEW v \in Validities, NEW async \in BOOLEAN, Token!Call(c, v, async)
      PROVE  Asked'
  BY <1>1, <1>2 DEF Token!Call
<1>3. ASSUME NEW c \in Callers, Token!Step(c)
      PROVE  Asked'
  <2>1. validity[c] \in demands /\ UNCHANGED <<time, asked, validity, demands>>
    BY <1>3 DEF Token!Step, Token!Lock, Token!Store, Token!Refresh, Token!Read, Token!LockAsync,
         Token!Answer, Token!CallbackRefresh
  <2>2. \A d \in Callers : d # c => pc'[d] = pc[d]
    BY <1>3 DEF Token!Step, Token!Lock, Token!Store, Token!Refresh, Token!Read, Token!LockAsync,
         Token!Answer, Token!CallbackRefresh
  <2>. QED
    BY <2>1, <2>2
<1>4. CASE Token!Tick
  BY <1>1, <1>4 DEF Token!Tick, Token!callVars
<1>5. CASE UNCHANGED Token!vars
  BY <1>5 DEF Token!vars, Token!callVars
<1>. QED
  BY <1>2, <1>3, <1>4, <1>5 DEF Token!Next

(* Storing a token and computing its refresh time keep RefreshInTime,      *)
(* whichever call's callback comes between (StoreToken, StoreRefreshTime,  *)
(* Tick).                                                                  *)
LEMMA RefreshStep ==
    ASSUME Token!TokenAssumption, Token!TypeOK, Asked, RefreshInTime, [Token!Next]_Token!vars
    PROVE  RefreshInTime'
<1>1. /\ time \in Int /\ lag \in Int /\ token \in Token!Tokens
      /\ token.ok \in BOOLEAN /\ token.issued \in Int /\ token.expires_in \in Int
      /\ lag' \in Int /\ lag' >= lag
  BY TokenNumbers, LagGrows
<1>2. pc \in [Callers -> {"idle", "lock", "wait", "store", "refresh", "read", "lockAsync",
        "sent", "callback"}]
  BY DEF Token!TypeOK
(* Whoever stores awaits the refresh time. *)
<1>3. ASSUME NEW c \in Callers, pc'[c] \in {"refresh", "callback"}, time' = time,
             token'.ok => token'.issued + lag' >= time
      PROVE  RefreshInTime'
  <2>1. Token!AwaitsRefreshTime'
    BY <1>3 DEF Token!AwaitsRefreshTime
  <2>. QED
    BY <1>3, <2>1 DEF RefreshInTime
(* Whoever computes the refresh time computes it from a token that is      *)
(* late by lag at the most.                                                *)
<1>4. ASSUME NEW c \in Callers, pc[c] \in {"refresh", "callback"},
             Token!StoreRefreshTime(validity[c]),
             UNCHANGED <<time, token, demands>>,
             \A d \in Callers :
                pc'[d] \in {"refresh", "callback"} => pc[d] \in {"refresh", "callback"}
      PROVE  RefreshInTime'
  <2>1. token.ok => token.issued + lag >= time
    BY <1>4 DEF RefreshInTime, Token!AwaitsRefreshTime
  <2>2. lag' = lag /\ refreshTime' = Token!ComputeRefreshTime(token, validity[c])
    BY <1>4 DEF Token!StoreRefreshTime
  <2>3. ASSUME NEW v \in Validities, demands = {v}, token.ok, token.expires_in > v
        PROVE  refreshTime' <= token.issued + token.expires_in + lag - v
    <3>1. validity[c] = v
      BY <1>4, <2>3 DEF Asked
    <3>2. v \in Int /\ v >= 0
      BY DEF Token!TokenAssumption
    <3>3. refreshTime' = time + token.expires_in - v
      BY <1>1, <2>2, <2>3, <3>1, <3>2 DEF Token!ComputeRefreshTime
    <3>. QED
      BY <1>1, <2>1, <2>3, <3>2, <3>3
  <2>. QED
    BY <1>4, <2>1, <2>2, <2>3 DEF RefreshInTime
<1>5. ASSUME UNCHANGED <<time, token, refreshTime, lag>>,
             Token!AwaitsRefreshTime' <=> Token!AwaitsRefreshTime,
             demands' = demands \/ \E v \in Validities : demands' = demands \cup {v}
      PROVE  RefreshInTime'
  <2>1. ASSUME NEW v \in Validities, demands' = {v}, token.ok
        PROVE  demands = {v}
    BY <1>5, <2>1 DEF Asked
  <2>. QED
    BY <1>5, <2>1 DEF RefreshInTime
<1>6. ASSUME NEW c \in Callers, NEW v \in Validities, NEW async \in BOOLEAN, Token!Call(c, v, async)
      PROVE  RefreshInTime'
  <2>1. Token!AwaitsRefreshTime' <=> Token!AwaitsRefreshTime
    BY <1>2, <1>6 DEF Token!AwaitsRefreshTime, Token!Call, Token!GoTo
  <2>. QED
    BY <1>5, <1>6, <2>1 DEF Token!Call
<1>7. ASSUME NEW c \in Callers, Token!Lock(c) \/ Token!Read(c) \/ Token!LockAsync(c)
      PROVE  RefreshInTime'
  <2>1. Token!AwaitsRefreshTime' <=> Token!AwaitsRefreshTime
    BY <1>2, <1>7 DEF Token!AwaitsRefreshTime, Token!Lock, Token!Read, Token!LockAsync,
       Token!GoTo, Token!Return
  <2>. QED
    BY <1>5, <1>7, <2>1 DEF Token!Lock, Token!Read, Token!LockAsync
<1>8. ASSUME NEW c \in Callers, Token!Store(c)
      PROVE  RefreshInTime'
  <2>1. pc'[c] = "refresh" /\ time' = time
    BY <1>2, <1>8 DEF Token!Store, Token!GoTo
  <2>2. token'.ok => token'.issued + lag' >= time
    <3>1. response[c] \in Token!Tokens /\ token' = response[c]
            /\ lag' = Token!Lateness(response[c], time)
      BY <1>8 DEF Token!TypeOK, Token!Store, Token!StoreToken
    <3>2. time \in 0..MaxTime
      BY DEF Token!TypeOK
    <3>. QED
      BY <3>1, <3>2, LatenessBounds
  <2>. QED
    BY <1>3, <2>1, <2>2
<1>9. ASSUME NEW c \in Callers, Token!Refresh(c)
      PROVE  RefreshInTime'
  BY <1>2, <1>4, <1>9 DEF Token!Refresh, Token!GoTo
<1>10. ASSUME NEW c \in Callers, Token!CallbackRefresh(c)
       PROVE  RefreshInTime'
  BY <1>2, <1>4, <1>10 DEF Token!CallbackRefresh, Token!Return, Token!GoTo
<1>11. ASSUME NEW c \in Callers, Token!Answer(c)
       PROVE  RefreshInTime'
  <2>1. PICK a \in Token!SignInClient :
          \/ pc[c] = "wait" /\ Token!GoTo(c, "store") /\ UNCHANGED <<token, lag>>
          \/ pc[c] = "sent" /\ Token!GoTo(c, "callback") /\ Token!StoreToken(a.response)
    BY <1>11 DEF Token!Answer
  <2>2. UNCHANGED <<time, refreshTime, demands>>
    BY <1>11 DEF Token!Answer
  <2>3. CASE pc[c] = "wait" /\ Token!GoTo(c, "store") /\ UNCHANGED <<token, lag>>
    <3>1. Token!AwaitsRefreshTime' <=> Token!AwaitsRefreshTime
      BY <1>2, <2>3 DEF Token!AwaitsRefreshTime, Token!GoTo
    <3>. QED
      BY <1>5, <2>2, <2>3, <3>1
  <2>4. CASE pc[c] = "sent" /\ Token!GoTo(c, "callback") /\ Token!StoreToken(a.response)
    <3>1. pc'[c] = "callback"
      BY <1>2, <2>4 DEF Token!GoTo
    <3>2. a.response \in Token!Tokens /\ time \in 0..MaxTime
      BY AnswerTypes DEF Token!TypeOK
    <3>3. token'.ok => token'.issued + lag' >= time
      BY <2>4, <3>2, LatenessBounds DEF Token!StoreToken
    <3>. QED
      BY <1>3, <2>2, <3>1, <3>3
  <2>. QED
    BY <2>1, <2>3, <2>4
<1>12. CASE Token!Tick
  <2>1. /\ Token!AwaitsRefreshTime' <=> Token!AwaitsRefreshTime
        /\ UNCHANGED <<token, refreshTime, demands>>
    BY <1>12 DEF Token!AwaitsRefreshTime, Token!Tick, Token!callVars
  <2>4. time' \in 0..MaxTime
    BY <1>12 DEF Token!Tick, Token!TypeOK, Token!TokenAssumption
  <2>2. CASE Token!AwaitsRefreshTime
    <3>1. lag' = Token!Lateness(token, time')
      BY <1>12, <2>2 DEF Token!Tick
    <3>2. token.ok => token.issued + lag' >= time'
      BY <1>1, <2>1, <2>4, <3>1, LatenessBounds
    <3>. QED
      BY <2>1, <2>2, <3>2 DEF RefreshInTime
  <2>3. CASE ~Token!AwaitsRefreshTime
    <3>1. lag' = lag
      BY <1>12, <2>3 DEF Token!Tick
    <3>. QED
      BY <2>1, <2>3, <3>1 DEF RefreshInTime
  <2>. QED
    BY <2>2, <2>3
<1>13. CASE UNCHANGED Token!vars
  <2>1. Token!AwaitsRefreshTime' <=> Token!AwaitsRefreshTime
    BY <1>13 DEF Token!AwaitsRefreshTime, Token!vars, Token!callVars
  <2>. QED
    BY <1>5, <1>13, <2>1 DEF Token!vars, Token!callVars
<1>. QED
  BY <1>6, <1>7, <1>8, <1>9, <1>10, <1>11, <1>12, <1>13 DEF Token!Next, Token!Step

(* What a step of a call hands on: it stores a token that is late by lag   *)
(* at the most, or passes on what it has.                                  *)
StoredNow == token'.ok => token'.issued + lag' >= time

HandsOn(c) ==
    \/ pc'[c] \in {"wait", "store", "sent"}
    \/ pc'[c] = "refresh" /\ StoredNow
    \/ pc'[c] = "read" /\ pc[c] = "refresh" /\ UNCHANGED <<token, lag>>
    \/ pc'[c] = "idle" /\ pc[c] = "read" /\ got'[c] = token /\ UNCHANGED <<token, lag>>
    \/ pc'[c] = "callback" /\ response'[c] = token' /\ StoredNow
    \/ pc'[c] = "idle" /\ pc[c] = "callback" /\ got'[c] = response[c] /\ UNCHANGED <<token, lag>>

(* Every step of a call hands something on, and leaves the others alone.   *)
LEMMA CallerStep ==
    ASSUME Token!TokenAssumption, Token!TypeOK, NEW c \in Callers, Token!Step(c)
    PROVE  /\ HandsOn(c) /\ UNCHANGED <<time, asked, validity, demands>>
           /\ \A d \in Callers : d # c => UNCHANGED <<pc[d], response[d], got[d]>>
<1>1. UNCHANGED <<time, asked, validity, demands>>
  BY DEF Token!Step, Token!Lock, Token!Store, Token!Refresh, Token!Read, Token!LockAsync,
         Token!Answer, Token!CallbackRefresh
<1>2. \A d \in Callers : d # c => UNCHANGED <<pc[d], response[d], got[d]>>
  BY DEF Token!Step, Token!Lock, Token!Store, Token!Refresh, Token!Read, Token!LockAsync,
         Token!Answer, Token!CallbackRefresh, Token!Return, Token!GoTo, Token!TypeOK
<1>3. pc \in [Callers -> {"idle", "lock", "wait", "store", "refresh", "read", "lockAsync",
        "sent", "callback"}]
  BY DEF Token!TypeOK
<1>4. ASSUME Token!Lock(c) \/ Token!LockAsync(c)
      PROVE  HandsOn(c)
  BY <1>3, <1>4 DEF Token!Lock, Token!LockAsync, Token!GoTo, HandsOn
<1>5. ASSUME Token!Store(c)
      PROVE  HandsOn(c)
  <2>1. response[c] \in Token!Tokens /\ token' = response[c]
          /\ lag' = Token!Lateness(response[c], time)
    BY <1>5 DEF Token!TypeOK, Token!Store, Token!StoreToken
  <2>2. time \in 0..MaxTime
    BY DEF Token!TypeOK
  <2>3. StoredNow
    BY <2>1, <2>2, LatenessBounds DEF StoredNow
  <2>. QED
    BY <1>3, <1>5, <2>3 DEF Token!Store, Token!GoTo, HandsOn
<1>6. ASSUME Token!Refresh(c)
      PROVE  HandsOn(c)
  BY <1>3, <1>6 DEF Token!Refresh, Token!StoreRefreshTime, Token!GoTo, HandsOn
<1>7. ASSUME Token!Read(c)
      PROVE  HandsOn(c)
  BY <1>3, <1>7 DEF Token!Read, Token!Return, Token!GoTo, Token!TypeOK, HandsOn
<1>8. ASSUME Token!Answer(c)
      PROVE  HandsOn(c)
  <2>1. PICK a \in Token!SignInClient :
          /\ response' = [response EXCEPT ![c] = a.response] /\ cached' = a.cache
          /\ \/ pc[c] = "wait" /\ Token!GoTo(c, "store") /\ UNCHANGED <<token, lag>>
             \/ pc[c] = "sent" /\ Token!GoTo(c, "callback") /\ Token!StoreToken(a.response)
    BY <1>8 DEF Token!Answer
  <2>2. a.response \in Token!Tokens /\ time \in 0..MaxTime
    BY AnswerTypes DEF Token!TypeOK
  <2>3. CASE Token!GoTo(c, "store")
    BY <1>3, <2>3 DEF Token!GoTo, HandsOn
  <2>4. CASE Token!GoTo(c, "callback") /\ Token!StoreToken(a.response)
    <3>1. StoredNow
      BY <2>2, <2>4, LatenessBounds DEF Token!StoreToken, StoredNow
    <3>2. pc'[c] = "callback"
      BY <1>3, <2>4 DEF Token!GoTo
    <3>3. response'[c] = token'
      BY <2>1, <2>4 DEF Token!StoreToken, Token!TypeOK
    <3>. QED
      BY <3>1, <3>2, <3>3 DEF HandsOn
  <2>. QED
    BY <2>1, <2>3, <2>4
<1>9. ASSUME Token!CallbackRefresh(c)
      PROVE  HandsOn(c)
  BY <1>3, <1>9 DEF Token!CallbackRefresh, Token!StoreRefreshTime, Token!Return, Token!GoTo,
     Token!TypeOK, HandsOn
<1>. QED
  BY <1>1, <1>2, <1>4, <1>5, <1>6, <1>7, <1>8, <1>9 DEF Token!Step

(* What was new or fresh stays so; what was just stored is new to all.     *)
LEMMA StaysNew ==
    ASSUME Token!TokenAssumption, Token!TypeOK, Token!TypeOK', NEW c \in Callers,
           NEW r \in Token!Tokens,
           lag' >= lag, asked'[c] = asked[c], validity'[c] = validity[c]
    PROVE  /\ New(r, c) => (r.ok => r.issued + lag' >= asked'[c])
           /\ Fresh(r, c) => (r.ok => \/ r.issued + r.expires_in + lag' > asked'[c] + validity'[c]
                                     \/ r.expires_in <= validity'[c])
<1>1. /\ lag \in Int /\ asked[c] \in Int /\ validity[c] \in Int
      /\ r.issued \in Int /\ r.expires_in \in Int
  BY TokenNumbers
<1>2. lag' \in Int
  BY DEF Token!TypeOK
<1>. QED
  BY <1>1, <1>2 DEF New, Fresh

(* What was just stored is new, and so fresh, for every call that waits.   *)
LEMMA StoredIsNew ==
    ASSUME Token!TokenAssumption, Token!TypeOK, Token!TypeOK', Asked, StoredNow, NEW c \in Callers,
           UNCHANGED <<time, asked, validity>>
    PROVE  New(token, c)' /\ Fresh(token, c)'
<1>1. /\ time \in Int /\ asked[c] \in Int /\ validity[c] \in Int /\ asked[c] <= time
      /\ \A r \in Token!Tokens : r.issued \in Int /\ r.expires_in \in Int
  BY TokenNumbers DEF Asked
<1>2. token' \in Token!Tokens /\ lag' \in Int
  BY DEF Token!TypeOK
<1>. QED
  BY <1>1, <1>2 DEF StoredNow, New, Fresh

(* Every step keeps NewInv.                                                *)
LEMMA NewStep ==
    ASSUME Token!TokenAssumption, Token!TypeOK, Asked, NewInv, [Token!Next]_Token!vars
    PROVE  NewInv'
<1>1. Token!TypeOK' /\ lag' >= lag
  BY TokenTypes, LagGrows
<1>2. token \in Token!Tokens /\ \A c \in Callers : response[c] \in Token!Tokens
        /\ got[c] \in Token!Tokens
  BY TokenNumbers
<1>3. ASSUME NEW d \in Callers, UNCHANGED <<asked[d], validity[d]>>
      PROVE  /\ \A r \in Token!Tokens : New(r, d) => (r.ok => r.issued + lag' >= asked'[d])
             /\ New(token, d) /\ UNCHANGED token => New(token, d)'
             /\ New(response[d], d) /\ UNCHANGED response[d] => New(response[d], d)'
             /\ New(got[d], d) /\ UNCHANGED got[d] => New(got[d], d)'
  <2>1. \A r \in Token!Tokens : New(r, d) => (r.ok => r.issued + lag' >= asked'[d])
    BY <1>1, <1>3, StaysNew
  <2>. QED
    BY <1>2, <2>1 DEF New
<1>4. ASSUME NEW c \in Callers, NEW v \in Validities, NEW async \in BOOLEAN, Token!Call(c, v, async)
      PROVE  NewInv'
  <2>1. UNCHANGED <<token, response, got, lag>> /\ asked' = [asked EXCEPT ![c] = time]
        /\ validity' = [validity EXCEPT ![c] = v]
        /\ pc' = [pc EXCEPT ![c] = IF ~Token!ShouldRefresh(v) THEN "read"
                                   ELSE IF async THEN "lockAsync" ELSE "lock"]
    BY <1>4 DEF Token!Call, Token!GoTo
  <2>2. pc'[c] \in {"lock", "lockAsync", "read"} /\ (pc'[c] = "read" => validity'[c] # 0)
    BY <2>1 DEF Token!TypeOK, Token!ShouldRefresh, Token!TokenAssumption
  <2>3. ASSUME NEW d \in Callers, d # c
        PROVE  asked'[d] = asked[d] /\ validity'[d] = validity[d] /\ pc'[d] = pc[d]
    BY <2>1, <2>3 DEF Token!TypeOK
  <2>. QED
    BY <2>1, <2>2, <2>3 DEF NewInv, New
<1>5. ASSUME NEW c \in Callers, Token!Step(c)
      PROVE  NewInv'
  <2>1. /\ HandsOn(c) /\ UNCHANGED <<time, asked, validity, demands>>
        /\ \A d \in Callers : d # c => UNCHANGED <<pc[d], response[d], got[d]>>
    BY <1>5, CallerStep
  <2>2. ASSUME NEW d \in Callers, New(token, d)
        PROVE  New(token, d)'
    BY <1>1, <1>3, <2>1, <2>2, LagGrows, StoredIsNew DEF StoredNow
  <2>3. ASSUME NEW d \in Callers, d # c
        PROVE  /\ pc'[d] = "refresh" => New(token, d)'
               /\ pc'[d] = "callback" => New(response[d], d)'
               /\ validity'[d] = 0 => /\ pc'[d] = "read" => New(token, d)'
                                      /\ pc'[d] = "idle" => New(got[d], d)'
    BY <1>3, <2>1, <2>2, <2>3 DEF NewInv
  <2>4. /\ pc'[c] = "refresh" => New(token, c)'
        /\ pc'[c] = "callback" => New(response[c], c)'
        /\ validity'[c] = 0 => /\ pc'[c] = "read" => New(token, c)'
                               /\ pc'[c] = "idle" => New(got[c], c)'
    <3>1. ASSUME StoredNow
          PROVE  New(token, c)'
      BY <1>1, <2>1, <3>1, StoredIsNew
    <3>2. ASSUME response'[c] = token', StoredNow
          PROVE  New(response[c], c)'
      BY <3>1, <3>2 DEF New
    <3>3. ASSUME got'[c] = token, New(token, c), UNCHANGED <<token, lag>>
          PROVE  New(got[c], c)'
      BY <2>1, <3>3 DEF New
    <3>4. ASSUME got'[c] = response[c], New(response[c], c), UNCHANGED <<token, lag>>
          PROVE  New(got[c], c)'
      BY <2>1, <3>4 DEF New
    <3>. QED
      BY <2>1, <2>2, <3>1, <3>2, <3>3, <3>4 DEF HandsOn, NewInv
  <2>. QED
    BY <2>3, <2>4 DEF NewInv
<1>6. CASE Token!Tick
  <2>1. UNCHANGED <<token, pc, validity, response, asked, got>>
    BY <1>6 DEF Token!Tick, Token!callVars
  <2>. QED
    BY <1>3, <2>1 DEF NewInv
<1>7. CASE UNCHANGED Token!vars
  <2>1. UNCHANGED <<token, pc, validity, response, asked, got>>
    BY <1>7 DEF Token!vars, Token!callVars
  <2>. QED
    BY <1>3, <2>1 DEF NewInv
<1>. QED
  BY <1>4, <1>5, <1>6, <1>7 DEF Token!Next

(* Every step keeps FreshInv; a call that decides not to refresh relies    *)
(* on RefreshInTime (GetToken).                                            *)
LEMMA FreshStep ==
    ASSUME Token!TokenAssumption, Token!TypeOK, Asked, RefreshInTime, NewInv, FreshInv,
           [Token!Next]_Token!vars
    PROVE  FreshInv'
<1>1. Token!TypeOK' /\ lag' >= lag
  BY TokenTypes, LagGrows
<1>2. token \in Token!Tokens /\ \A c \in Callers : response[c] \in Token!Tokens
        /\ got[c] \in Token!Tokens
  BY TokenNumbers
<1>. SUFFICES ASSUME NEW v \in Validities, demands' = {v}
              PROVE  \A c \in Callers : /\ pc'[c] = "read" => Fresh(token, c)'
                                        /\ pc'[c] = "callback" => Fresh(response[c], c)'
                                        /\ pc'[c] = "idle" => Fresh(got[c], c)'
  BY DEF FreshInv
<1>3. ASSUME NEW d \in Callers, UNCHANGED <<asked[d], validity[d]>>
      PROVE  /\ Fresh(token, d) /\ UNCHANGED token => Fresh(token, d)'
             /\ Fresh(response[d], d) /\ UNCHANGED response[d] => Fresh(response[d], d)'
             /\ Fresh(got[d], d) /\ UNCHANGED got[d] => Fresh(got[d], d)'
  <2>1. \A r \in Token!Tokens :
           Fresh(r, d) => (r.ok => \/ r.issued + r.expires_in + lag' > asked'[d] + validity'[d]
                                   \/ r.expires_in <= validity'[d])
    BY <1>1, <1>3, StaysNew
  <2>. QED
    BY <1>2, <2>1 DEF Fresh
<1>4. ASSUME NEW c \in Callers, NEW w \in Validities, NEW async \in BOOLEAN, Token!Call(c, w, async)
      PROVE  \A d \in Callers : /\ pc'[d] = "read" => Fresh(token, d)'
                                /\ pc'[d] = "callback" => Fresh(response[d], d)'
                                /\ pc'[d] = "idle" => Fresh(got[d], d)'
  <2>1. UNCHANGED <<token, response, got, lag>> /\ asked' = [asked EXCEPT ![c] = time]
        /\ validity' = [validity EXCEPT ![c] = w]
        /\ pc' = [pc EXCEPT ![c] = IF ~Token!ShouldRefresh(w) THEN "read"
                                   ELSE IF async THEN "lockAsync" ELSE "lock"]
        /\ demands' = demands \cup {w}
    BY <1>4 DEF Token!Call, Token!GoTo
  <2>2. w = v /\ (demands = {} \/ demands = {v})
    BY <2>1
  <2>3. pc'[c] \in {"lock", "lockAsync", "read"} /\ (pc'[c] = "read" => time < refreshTime)
    BY <2>1, TokenNumbers DEF Token!TypeOK, Token!ShouldRefresh
  <2>4. ASSUME NEW d \in Callers, d # c
        PROVE  asked'[d] = asked[d] /\ validity'[d] = validity[d] /\ pc'[d] = pc[d]
    BY <2>1, <2>4 DEF Token!TypeOK
  <2>5. CASE demands = {}
    BY <2>1, <2>3, <2>4, <2>5 DEF Asked, Fresh
  <2>6. CASE demands = {v}
    <3>1. ASSUME time < refreshTime
          PROVE  Fresh(token, c)'
      <4>1. /\ time \in Int /\ lag \in Int /\ refreshTime \in Int /\ v \in Int
            /\ token.issued \in Int /\ token.expires_in \in Int
        BY <1>2, TokenNumbers DEF Token!TokenAssumption
      <4>2. asked'[c] = time /\ validity'[c] = v /\ token' = token /\ lag' = lag
        BY <2>1, <2>2 DEF Token!TypeOK
      <4>3. ASSUME token.ok, token.expires_in > v
            PROVE  token.issued + token.expires_in + lag > time + v
        <5>1. CASE Token!AwaitsRefreshTime
          <6>1. token.issued + lag >= time
            BY <4>3, <5>1 DEF RefreshInTime
          <6>. QED
            BY <4>1, <4>3, <6>1
        <5>2. CASE ~Token!AwaitsRefreshTime
          <6>1. refreshTime <= token.issued + token.expires_in + lag - v
            BY <2>6, <4>3, <5>2 DEF RefreshInTime
          <6>. QED
            BY <3>1, <4>1, <6>1
        <5>. QED
          BY <5>1, <5>2
      <4>. QED
        BY <4>1, <4>2, <4>3 DEF Fresh
    <3>. QED
      BY <1>3, <2>1, <2>3, <2>4, <2>6, <3>1 DEF FreshInv
  <2>. QED
    BY <2>2, <2>5, <2>6
<1>5. ASSUME NEW c \in Callers, Token!Step(c)
      PROVE  \A d \in Callers : /\ pc'[d] = "read" => Fresh(token, d)'
                                /\ pc'[d] = "callback" => Fresh(response[d], d)'
                                /\ pc'[d] = "idle" => Fresh(got[d], d)'
  <2>1. /\ HandsOn(c) /\ UNCHANGED <<time, asked, validity, demands>>
        /\ \A d \in Callers : d # c => UNCHANGED <<pc[d], response[d], got[d]>>
    BY <1>5, CallerStep
  <2>2. demands = {v}
    BY <2>1
  <2>3. ASSUME NEW d \in Callers, Fresh(token, d)
        PROVE  Fresh(token, d)'
    BY <1>1, <1>3, <2>1, <2>3, LagGrows, StoredIsNew DEF StoredNow
  <2>4. ASSUME NEW d \in Callers, d # c
        PROVE  /\ pc'[d] = "read" => Fresh(token, d)'
               /\ pc'[d] = "callback" => Fresh(response[d], d)'
               /\ pc'[d] = "idle" => Fresh(got[d], d)'
    BY <1>3, <2>1, <2>2, <2>3, <2>4 DEF FreshInv
  <2>5. /\ pc'[c] = "read" => Fresh(token, c)'
        /\ pc'[c] = "callback" => Fresh(response[c], c)'
        /\ pc'[c] = "idle" => Fresh(got[c], c)'
    <3>1. pc[c] = "refresh" => Fresh(token, c)'
      BY <1>2, <2>3, NewIsFresh DEF NewInv
    <3>2. ASSUME response'[c] = token', StoredNow
          PROVE  Fresh(response[c], c)'
      <4>1. Fresh(token, c)'
        BY <1>1, <2>1, <3>2, StoredIsNew
      <4>. QED
        BY <3>2, <4>1 DEF Fresh
    <3>3. ASSUME got'[c] = token, Fresh(token, c), UNCHANGED <<token, lag>>
          PROVE  Fresh(got[c], c)'
      BY <2>1, <3>3 DEF Fresh
    <3>4. ASSUME got'[c] = response[c], Fresh(response[c], c), UNCHANGED <<token, lag>>
          PROVE  Fresh(got[c], c)'
      BY <2>1, <3>4 DEF Fresh
    <3>. QED
      BY <2>1, <2>2, <3>1, <3>2, <3>3, <3>4 DEF HandsOn, FreshInv
  <2>. QED
    BY <2>4, <2>5
<1>6. CASE Token!Tick
  <2>1. UNCHANGED <<token, pc, validity, response, asked, got, demands>>
    BY <1>6 DEF Token!Tick, Token!callVars
  <2>. QED
    BY <1>3, <2>1 DEF FreshInv
<1>7. CASE UNCHANGED Token!vars
  <2>1. UNCHANGED <<token, pc, validity, response, asked, got, demands>>
    BY <1>7 DEF Token!vars, Token!callVars
  <2>. QED
    BY <1>3, <2>1 DEF FreshInv
<1>. QED
  BY <1>4, <1>5, <1>6, <1>7 DEF Token!Next

(* No token, no call (the constructor of AutoRefreshingToken::Impl).       *)
LEMMA TokenInitial ==
    ASSUME Token!TokenAssumption, Token!Init
    PROVE  Token!TypeOK /\ TokenInv
<1>1. /\ Token!Failed(0) \in Token!Tokens /\ ~Token!Failed(0).ok
      /\ 0 \in 0..MaxTime /\ 0 \in 0..MaxCalls /\ 0 <= 0
  BY DEF Token!TokenAssumption, Token!Failed, Token!Tokens
<1>2. (CHOOSE v \in Validities : TRUE) \in Validities
  BY DEF Token!TokenAssumption
<1>3. Token!TypeOK
  BY <1>1, <1>2 DEF Token!Init, Token!TypeOK, Token!TokenAssumption
<1>4. Asked /\ RefreshInTime /\ FreshInv /\ NewInv
  BY <1>1 DEF Token!Init, Asked, RefreshInTime, FreshInv, NewInv, Fresh, New
<1>. QED
  BY <1>3, <1>4 DEF TokenInv

(* Every step keeps the inductive invariant.                               *)
LEMMA TokenStep ==
    ASSUME Token!TokenAssumption, Token!TypeOK, TokenInv, [Token!Next]_Token!vars
    PROVE  Token!TypeOK' /\ TokenInv'
BY TokenTypes, AskedStep, RefreshStep, FreshStep, NewStep DEF TokenInv

(* The inductive invariant has what callers are promised.                  *)
LEMMA TokenSafe ==
    ASSUME Token!TokenAssumption, Token!TypeOK, TokenInv
    PROVE  Token!FreshEnough /\ Token!ForcedIsNew
<1>1. Token!ForcedIsNew
  BY DEF TokenInv, NewInv, New, Token!ForcedIsNew, Token!Answered
<1>2. Token!FreshEnough
  BY DEF TokenInv, FreshInv, Fresh, Token!FreshEnough, Token!Answered
<1>. QED
  BY <1>1, <1>2

(* The types and the inductive invariant of the token, for any number of   *)
(* callers, any lifetimes of tokens and any validities asked for.          *)
THEOREM TokenInductive ==
    ASSUME Token!TokenAssumption PROVE Token!Spec => [](Token!TypeOK /\ TokenInv)
<1>1. Token!TypeOK /\ TokenInv /\ [Token!Next]_Token!vars => (Token!TypeOK /\ TokenInv)'
  BY TokenStep
<1>. QED
  BY <1>1, TokenInitial, PTL DEF Token!Spec

(* GetToken returns tokens that last as long as the caller wants, if all   *)
(* want the same, and new ones to who forces a refresh, however blocking   *)
(* and asynchronous calls overlap.                                         *)
THEOREM TokensAreFresh ==
    ASSUME Token!TokenAssumption PROVE Token!Spec => [](Token!FreshEnough /\ Token!ForcedIsNew)
<1>1. Token!TypeOK /\ TokenInv => Token!FreshEnough /\ Token!ForcedIsNew
  BY TokenSafe
<1>. QED
  BY <1>1, TokenInductive, PTL

(* The instance that the run checks has this property for every value of   *)
(* its constants.                                                          *)
THEOREM TokenRun == MCSpec => []FreshOrNew
<1>1. Token!TokenAssumption
  BY ServicesAssumption
<1>2. MCInit => Token!Init
  BY DEF MCInit
<1>3. [MCNext]_all => [Token!Next]_Token!vars
  <2>1. UNCHANGED tokenVars => UNCHANGED Token!vars
    BY DEF tokenVars, Token!vars, Token!callVars
  <2>2. UNCHANGED all => UNCHANGED tokenVars
    BY DEF all
  <2>3. MCNext => Token!Next \/ UNCHANGED tokenVars
    BY DEF MCNext, OnToken, Authentication, OnCurl, OnWinHttp, OnAndroid, OnIOS, OnContext, OnBody
  <2>. QED
    BY <2>1, <2>2, <2>3
<1>4. Token!TypeOK /\ TokenInv => FreshOrNew
  BY <1>1, TokenSafe DEF FreshOrNew
<1>5. Token!TypeOK /\ TokenInv /\ [Token!Next]_Token!vars => (Token!TypeOK /\ TokenInv)'
  BY <1>1, TokenStep
<1>6. Token!Init => Token!TypeOK /\ TokenInv
  BY <1>1, TokenInitial
<1>. QED
  BY <1>2, <1>3, <1>4, <1>5, <1>6, PTL DEF MCSpec

-----------------------------------------------------------------------------
(* The client of the authentication library (AuthenticationClient) *)

(* A call that was answered; a call whose answer may be in cache k.        *)
Done(c) == call[c].pc = "done"
Held(d, k) == Done(d) /\ Auth!CacheOf(d) = k /\ (k = "user" => call[d].answer = "granted")
Distinct(s) == \A i, j \in 1..Len(s) : call[s[i]].key = call[s[j]].key => i = j

(* A cache is the first part of what it would hold without a limit, and    *)
(* holds answered calls only, one for each credentials; of users, granted  *)
(* tokens.                                                                 *)
Ordered ==
    \A k \in Auth!Caches :
        /\ cache[k] = Auth!Trim(recent[k])
        /\ Distinct(recent[k]) /\ \A i \in 1..Len(recent[k]) : Held(recent[k][i], k)

(* An answer from the cache is of the call's own credentials and cache.    *)
FromOwn(c) ==
    call[c].answer = "cached" =>
        /\ call[c].from \in Calls /\ call[call[c].from].key = call[c].key
        /\ Auth!CacheOf(call[c].from) = Auth!CacheOf(c)

(* A call is called back when it is done, and then once.  While the        *)
(* request that brings the answer is on its way, the call's token cancels  *)
(* it, or the call was nested in the refusal of the first.                 *)
Reached(c) ==
    /\ call[c].calls = IF Done(c) THEN 1 ELSE 0
    /\ ~Done(c) => call[c].answer = "none"
    /\ call[c].pc = "new" => ~call[c].cancelled
    /\ call[c].pc = "sent" => call[c].token \/ call[c].nested
    /\ call[c].pc = "sent" /\ call[c].cancelled => call[c].killed \/ call[c].nested
    /\ call[c].killed \/ call[c].answer = "cancelled" => call[c].cancelled

(* The inductive invariant. *)
AuthInv == Ordered /\ \A c \in Calls : FromOwn(c) /\ Reached(c)

(* The limit of the cache cuts off its end.                                *)
LEMMA TrimProps ==
    ASSUME TokenCacheLimit \in Nat, NEW S, NEW s \in Seq(S)
    PROVE  /\ Auth!Trim(s) \in Seq(S)
           /\ Len(Auth!Trim(s)) = IF Len(s) < TokenCacheLimit THEN Len(s) ELSE TokenCacheLimit
           /\ \A i \in 1..Len(Auth!Trim(s)) : i \in 1..Len(s) /\ Auth!Trim(s)[i] = s[i]
<1>. DEFINE n == IF Len(s) < TokenCacheLimit THEN Len(s) ELSE TokenCacheLimit
<1>1. n \in Nat /\ n <= Len(s) /\ Len(s) \in Nat
  OBVIOUS
<1>2. Auth!Trim(s) = SubSeq(s, 1, n)
  BY DEF Auth!Trim
<1>. HIDE DEF n
<1>3. SubSeq(s, 1, n) \in Seq(S) /\ Len(SubSeq(s, 1, n)) = n
        /\ \A i \in 1..n : SubSeq(s, 1, n)[i] = s[i]
  BY <1>1
<1>. QED
  BY <1>1, <1>2, <1>3 DEF n

(* Place is where Find finds the credentials, or behind the end.           *)
LEMMA PlaceProps ==
    ASSUME NEW s \in Seq(Calls), NEW c \in Calls
    PROVE  /\ Auth!Find(s, c) \subseteq 1..Len(s)
           /\ Auth!Find(s, c) # {} => Auth!Place(s, c) \in Auth!Find(s, c)
           /\ Auth!Find(s, c) = {} => Auth!Place(s, c) = Len(s) + 1
           /\ Auth!Place(s, c) \in 1..(Len(s) + 1)
<1>1. Auth!Find(s, c) \subseteq 1..Len(s)
  BY DEF Auth!Find
<1>2. Auth!Find(s, c) # {} => Auth!Place(s, c) \in Auth!Find(s, c)
  BY DEF Auth!Place
<1>3. Auth!Find(s, c) = {} => Auth!Place(s, c) = Len(s) + 1
  BY DEF Auth!Place
<1>4. Len(s) \in Nat
  OBVIOUS
<1>. QED
  BY <1>1, <1>2, <1>3, <1>4

(* ToFront puts the call first and moves those before its place by one.    *)
LEMMA ToFrontProps ==
    ASSUME NEW s \in Seq(Calls), NEW c \in Calls
    PROVE  /\ Auth!ToFront(s, c) \in Seq(Calls)
           /\ Len(Auth!ToFront(s, c)) = IF Auth!Place(s, c) = Len(s) + 1 THEN Len(s) + 1 ELSE Len(s)
           /\ \A i \in 1..Len(Auth!ToFront(s, c)) :
                Auth!ToFront(s, c)[i] =
                    IF i = 1 THEN c ELSE IF i <= Auth!Place(s, c) THEN s[i - 1] ELSE s[i]
<1>. DEFINE n == IF Auth!Find(s, c) = {} THEN Len(s) + 1 ELSE Len(s)
            p == Auth!Place(s, c)
            e(i) == IF i = 1 THEN c ELSE IF i <= p THEN s[i - 1] ELSE s[i]
<1>1. n \in Nat /\ p \in 1..(Len(s) + 1) /\ n = IF p = Len(s) + 1 THEN Len(s) + 1 ELSE Len(s)
  <2>1. Len(s) \in Nat /\ p \in 1..(Len(s) + 1)
    BY PlaceProps
  <2>2. (Auth!Find(s, c) = {}) = (p = Len(s) + 1)
    BY PlaceProps
  <2>. QED
    BY <2>1, <2>2
<1>2. Auth!ToFront(s, c) = [i \in 1..n |-> e(i)]
  BY DEF Auth!ToFront
<1>. HIDE DEF n, p
<1>3. ASSUME NEW i \in 1..n
      PROVE  e(i) \in Calls
  <2>1. i = 1 \/ (i <= p /\ i - 1 \in 1..Len(s)) \/ i \in 1..Len(s)
    BY <1>1
  <2>. QED
    BY <1>1, <2>1
<1>. HIDE DEF e
<1>4. [i \in 1..n |-> e(i)] \in Seq(Calls) /\ Len([i \in 1..n |-> e(i)]) = n
  BY <1>1, <1>3
<1>. QED
  BY <1>1, <1>2, <1>4 DEF e, p

(* ToFront keeps one entry for each credentials, and adds none but the     *)
(* call.                                                                   *)
LEMMA ToFrontKeeps ==
    ASSUME NEW s \in Seq(Calls), NEW c \in Calls, Distinct(s)
    PROVE  /\ Distinct(Auth!ToFront(s, c))
           /\ \A i \in 1..Len(Auth!ToFront(s, c)) :
                Auth!ToFront(s, c)[i] = c \/ \E j \in 1..Len(s) : Auth!ToFront(s, c)[i] = s[j]
<1>. DEFINE t == Auth!ToFront(s, c)
            p == Auth!Place(s, c)
<1>1. /\ p \in 1..(Len(s) + 1) /\ (p <= Len(s) => call[s[p]].key = call[c].key)
      /\ \A i \in 1..Len(s) : call[s[i]].key = call[c].key => i = p
  BY PlaceProps DEF Auth!Find, Distinct
<1>2. /\ Len(s) \in Nat /\ Len(t) = (IF p = Len(s) + 1 THEN Len(s) + 1 ELSE Len(s))
      /\ \A i \in 1..Len(t) : t[i] = IF i = 1 THEN c ELSE IF i <= p THEN s[i - 1] ELSE s[i]
  BY ToFrontProps
<1>. HIDE DEF t, p
<1>3. ASSUME NEW i \in 1..Len(t), i # 1
      PROVE  \E j \in 1..Len(s) : /\ t[i] = s[j] /\ j # p
                                  /\ j = (IF i <= p THEN i - 1 ELSE i)
  <2>1. CASE i <= p
    BY <1>1, <1>2, <1>3, <2>1
  <2>2. CASE i > p
    BY <1>1, <1>2, <1>3, <2>2
  <2>. QED
    BY <1>1, <2>1, <2>2
<1>4. ASSUME NEW i \in 1..Len(t), NEW j \in 1..Len(t), call[t[i]].key = call[t[j]].key
      PROVE  i = j
  <2>1. CASE i = 1 /\ j = 1
    BY <2>1
  <2>2. CASE i = 1 /\ j # 1
    BY <1>1, <1>2, <1>3, <1>4, <2>2
  <2>3. CASE i # 1 /\ j = 1
    BY <1>1, <1>2, <1>3, <1>4, <2>3
  <2>4. CASE i # 1 /\ j # 1
    <3>1. PICK k \in 1..Len(s) : t[i] = s[k] /\ k # p /\ k = (IF i <= p THEN i - 1 ELSE i)
      BY <1>3, <2>4
    <3>2. PICK l \in 1..Len(s) : t[j] = s[l] /\ l # p /\ l = (IF j <= p THEN j - 1 ELSE j)
      BY <1>3, <2>4
    <3>3. k = l
      BY <1>4, <3>1, <3>2 DEF Distinct
    <3>. QED
      BY <1>1, <1>2, <3>1, <3>2, <3>3
  <2>. QED
    BY <2>1, <2>2, <2>3, <2>4
<1>5. \A i \in 1..Len(t) : t[i] = c \/ \E j \in 1..Len(s) : t[i] = s[j]
  BY <1>2, <1>3
<1>. QED
  BY <1>4, <1>5 DEF t, Distinct

(* Moving an entry to the front commutes with the limit: the cache that    *)
(* evicts on every insertion holds the first part of the one that never    *)
(* does (LruCache, used by InsertOrAssign and Find).                       *)
LEMMA FrontOfTrim ==
    ASSUME TokenCacheLimit \in Nat, NEW s \in Seq(Calls), NEW c \in Calls, Distinct(s)
    PROVE  /\ Auth!Trim(Auth!ToFront(Auth!Trim(s), c)) = Auth!Trim(Auth!ToFront(s, c))
           /\ Auth!Find(Auth!Trim(s), c) # {}
                => Auth!ToFront(Auth!Trim(s), c) = Auth!Trim(Auth!ToFront(s, c))
<1>. DEFINE r == Auth!Trim(s)
            p == Auth!Place(s, c)
            q == Auth!Place(r, c)
            u == Auth!ToFront(s, c)
            v == Auth!ToFront(r, c)
<1>1. /\ r \in Seq(Calls) /\ Len(r) = (IF Len(s) < TokenCacheLimit THEN Len(s) ELSE TokenCacheLimit)
      /\ Len(r) \in Nat /\ Len(s) \in Nat
      /\ \A i \in 1..Len(r) : i \in 1..Len(s) /\ r[i] = s[i]
  BY TrimProps
<1>2. /\ p \in 1..(Len(s) + 1) /\ (p <= Len(s) => call[s[p]].key = call[c].key)
      /\ \A i \in 1..Len(s) : call[s[i]].key = call[c].key => i = p
  BY PlaceProps DEF Auth!Find, Distinct
<1>3. /\ q \in 1..(Len(r) + 1) /\ (q <= Len(r) => call[r[q]].key = call[c].key)
      /\ (Auth!Find(r, c) # {} => q <= Len(r))
      /\ (q = Len(r) + 1 => \A i \in 1..Len(r) : call[r[i]].key # call[c].key)
  <2>1. /\ Auth!Find(r, c) \subseteq 1..Len(r) /\ q \in 1..(Len(r) + 1)
        /\ (Auth!Find(r, c) # {} => q \in Auth!Find(r, c))
             /\ (Auth!Find(r, c) = {} => q = Len(r) + 1)
    BY <1>1, PlaceProps
  <2>. HIDE DEF r, q
  <2>2. Auth!Find(r, c) = {i \in 1..Len(r) : call[r[i]].key = call[c].key}
    BY <1>1 DEF Auth!Find
  <2>. QED
    BY <1>1, <2>1, <2>2
<1>4. /\ u \in Seq(Calls) /\ v \in Seq(Calls)
      /\ Len(u) = (IF p = Len(s) + 1 THEN Len(s) + 1 ELSE Len(s))
      /\ Len(v) = (IF q = Len(r) + 1 THEN Len(r) + 1 ELSE Len(r))
      /\ \A i \in 1..Len(u) : u[i] = IF i = 1 THEN c ELSE IF i <= p THEN s[i - 1] ELSE s[i]
      /\ \A i \in 1..Len(v) : v[i] = IF i = 1 THEN c ELSE IF i <= q THEN r[i - 1] ELSE r[i]
  BY <1>1, ToFrontProps
<1>5. /\ Auth!Trim(u) \in Seq(Calls) /\ Auth!Trim(v) \in Seq(Calls)
      /\ Len(Auth!Trim(u)) = (IF Len(u) < TokenCacheLimit THEN Len(u) ELSE TokenCacheLimit)
      /\ Len(Auth!Trim(v)) = (IF Len(v) < TokenCacheLimit THEN Len(v) ELSE TokenCacheLimit)
      /\ \A i \in 1..Len(Auth!Trim(u)) : i \in 1..Len(u) /\ Auth!Trim(u)[i] = u[i]
      /\ \A i \in 1..Len(Auth!Trim(v)) : i \in 1..Len(v) /\ Auth!Trim(v)[i] = v[i]
  BY <1>4, TrimProps
<1>. HIDE DEF r, p, q, u, v
(* What is found in the part that is kept is found at the same place. *)
<1>6. \/ q = p /\ p <= Len(r)
      \/ q = Len(r) + 1 /\ (p > Len(r))
  <2>1. CASE q <= Len(r)
    BY <1>1, <1>2, <1>3, <2>1
  <2>2. CASE q = Len(r) + 1
    BY <1>1, <1>2, <1>3, <2>2
  <2>. QED
    BY <1>1, <1>3, <2>1, <2>2
<1>7. Len(Auth!Trim(u)) = Len(Auth!Trim(v))
  BY <1>1, <1>2, <1>3, <1>4, <1>5, <1>6
<1>8. ASSUME NEW i \in 1..Len(Auth!Trim(u))
      PROVE  Auth!Trim(u)[i] = Auth!Trim(v)[i]
  <2>1. i \in 1..Len(u) /\ Auth!Trim(u)[i] = u[i]
    BY <1>5
  <2>2. i \in 1..Len(v) /\ Auth!Trim(v)[i] = v[i]
    BY <1>5, <1>7
  <2>3. i <= TokenCacheLimit
    <3>1. Len(u) \in Nat
      BY <1>4
    <3>. QED
      BY <1>5, <3>1
  <2>4. u[i] = v[i]
    BY <1>1, <1>2, <1>3, <1>4, <1>6, <2>1, <2>2, <2>3
  <2>. QED
    BY <2>1, <2>2, <2>4
<1>9. Auth!Trim(u) = Auth!Trim(v)
  BY <1>5, <1>7, <1>8, SeqEqual
<1>10. ASSUME q <= Len(r)
       PROVE  Auth!Trim(v) = v
  <2>1. Len(v) = Len(r) /\ Len(Auth!Trim(v)) = Len(v)
    BY <1>1, <1>3, <1>4, <1>5, <1>10
  <2>. QED
    BY <1>4, <1>5, <2>1, SeqEqual
<1>. QED
  BY <1>3, <1>9, <1>10 DEF r, u, v

(* The records that describe calls (TypeOK).                               *)
CallRecords ==
    [kind : Auth!Kinds, key : Keys, pc : {"new", "time", "sent", "scheduled", "done"},
     token : BOOLEAN, killed : BOOLEAN, cancelled : BOOLEAN, nested : BOOLEAN,
     calls : 0..1,
     answer : {"none", "granted", "invalid", "refused", "error", "cancelled", "cached"},
     from : Calls \cup {None}]

(* What an action does to the call it is about. *)
Goes(c) ==
    /\ ~Done(c) /\ call' = [call EXCEPT ![c] = call'[c]]
    /\ call'[c] \in CallRecords /\ call'[c].kind = call[c].kind /\ call'[c].key = call[c].key
    /\ Reached(c)'

(* The types of calls and caches, for the steps below.                     *)
LEMMA AuthNumbers ==
    ASSUME Auth!TypeOK
    PROVE  call \in [Calls -> CallRecords] /\ \A k \in Auth!Caches : cache[k] \in Seq(Calls)
             /\ recent[k] \in Seq(Calls)
BY DEF Auth!TypeOK, CallRecords

(* A callback with an answer ends the call.                                *)
LEMMA AnsweredGoes ==
    ASSUME Auth!AuthenticationAssumption, Auth!TypeOK, NEW c \in Calls, ~Done(c), Reached(c),
           NEW answer \in {"granted", "invalid", "refused", "error", "cancelled"},
           answer = "cancelled" => call[c].cancelled,
           NEW x \in CallRecords, x.kind = call[c].kind, x.key = call[c].key,
             x.cancelled = call[c].cancelled, x.calls = 0,
           call' = [call EXCEPT ![c] = Auth!Answered(x, answer)]
    PROVE  Goes(c) /\ call'[c].answer # "cached"
<1>1. call \in [Calls -> CallRecords]
  BY AuthNumbers
<1>2. call'[c] = Auth!Answered(x, answer)
  BY <1>1
<1>. DEFINE y == Auth!Answered(x, answer)
<1>. DEFINE z == [x EXCEPT !.pc = "done", !.answer = answer, !.token = FALSE, !.killed = FALSE]
<1>3. y = [z EXCEPT !.calls = 1]
  <2>1. y = [z EXCEPT !.calls = x.calls + 1]
    BY DEF Auth!Answered
  <2>. QED
    BY <2>1
<1>4. y \in CallRecords
  <2>1. z \in CallRecords
    BY DEF CallRecords
  <2>. HIDE DEF z
  <2>. QED
    BY <1>3, <2>1 DEF CallRecords
<1>5. /\ y.kind = x.kind /\ y.key = x.key /\ y.cancelled = x.cancelled
      /\ y.pc = "done" /\ y.calls = 1 /\ y.killed = FALSE /\ y.answer = answer
  BY <1>3 DEF CallRecords
<1>. HIDE DEF y
<1>6. Reached(c)'
  BY <1>2, <1>5 DEF y, Reached, Done
<1>. QED
  BY <1>2, <1>4, <1>5, <1>6 DEF y, Goes

(* A request that is sent or scheduled leaves the call waiting.            *)
LEMMA WaitsGoes ==
    ASSUME Auth!AuthenticationAssumption, Auth!TypeOK, NEW c \in Calls, ~Done(c), Reached(c),
           NEW x \in CallRecords, x.kind = call[c].kind, x.key = call[c].key, x.calls = 0,
             x.answer = "none",
           x.pc \in {"time", "sent", "scheduled"},
           x.pc = "sent" => (x.token \/ x.nested) /\ (x.cancelled => x.killed \/ x.nested),
           x.killed => x.cancelled,
           call' = [call EXCEPT ![c] = x]
    PROVE  Goes(c) /\ call'[c].answer # "cached"
<1>1. call \in [Calls -> CallRecords]
  BY AuthNumbers
<1>2. call'[c] = x
  BY <1>1
<1>3. Reached(c)'
  BY <1>2 DEF Reached, Done
<1>. QED
  BY <1>2, <1>3 DEF Goes

(* Sending the second request, or being refused, either leaves the call    *)
(* waiting or ends it (SignInClient within ExecuteOrCancelled).            *)
LEMMA SendGoes ==
    ASSUME Auth!AuthenticationAssumption, Auth!TypeOK, NEW c \in Calls, ~Done(c), Reached(c),
           NEW x \in CallRecords, x.kind = call[c].kind, x.key = call[c].key, x.calls = 0,
             x.answer = "none",
           x.cancelled = call[c].cancelled, ~call[c].cancelled, Auth!SendOrAnswer(c, x)
    PROVE  Goes(c) /\ call'[c].answer # "cached"
<1>1. CASE call' = [call EXCEPT ![c] = [x EXCEPT !.pc = "sent", !.token = ~x.nested,
             !.killed = FALSE]]
  <2>. DEFINE y == [x EXCEPT !.pc = "sent", !.token = ~x.nested, !.killed = FALSE]
  <2>1. y \in CallRecords
    BY DEF CallRecords
  <2>2. /\ y.kind = x.kind /\ y.key = x.key /\ y.calls = 0 /\ y.answer = "none" /\ y.pc = "sent"
        /\ y.token = ~x.nested /\ y.nested = x.nested /\ y.cancelled = x.cancelled
             /\ y.killed = FALSE
    BY DEF CallRecords
  <2>3. call' = [call EXCEPT ![c] = y] /\ (y.token \/ y.nested)
    BY <1>1, <2>2
  <2>. HIDE DEF y
  <2>. QED
    BY <2>1, <2>2, <2>3, WaitsGoes
<1>2. CASE call' = [call EXCEPT ![c] = Auth!Answered(x, "error")]
  BY <1>2, AnsweredGoes
<1>. QED
  BY <1>1, <1>2 DEF Auth!SendOrAnswer, Auth!Set

(* So every action but those that use the cache (SignInClient,             *)
(* HandleUserRequest, the time callback, Cancel, and the callbacks of      *)
(* errors and of status 200).                                              *)
LEMMA StepGoes ==
    ASSUME Auth!AuthenticationAssumption, Auth!TypeOK, NEW c \in Calls, Reached(c),
           Auth!SignInClient(c) \/ Auth!HandleUserRequest(c) \/ Auth!Cancel(c)
             \/ Auth!ExecuteOrSchedule(c)
              \/ Auth!TimeCallback(c) \/ Auth!Cancelled(c) \/ Auth!Refused(c) \/ Auth!Ok(c)
    PROVE  Goes(c) /\ call'[c].answer # "cached"
<1>1. call[c] \in CallRecords /\ ~Done(c) /\ call[c].calls = 0 /\ call[c].answer = "none"
  <2>1. ~Done(c)
    BY DEF Done, Auth!SignInClient, Auth!HandleUserRequest, Auth!Cancel, Auth!ExecuteOrSchedule,
           Auth!TimeCallback, Auth!Cancelled, Auth!Refused, Auth!Ok
  <2>. QED
    BY <2>1, AuthNumbers DEF Reached
<1>2. CASE call[c].pc = "new" /\ call' = [call EXCEPT ![c] = [call[c] EXCEPT !.pc = "scheduled"]]
  <2>. DEFINE y == [call[c] EXCEPT !.pc = "scheduled"]
  <2>1. y \in CallRecords
    BY <1>1 DEF CallRecords
  <2>2. /\ y.kind = call[c].kind /\ y.key = call[c].key /\ y.calls = 0 /\ y.answer = "none"
             /\ y.pc = "scheduled"
        /\ y.killed = call[c].killed /\ y.cancelled = call[c].cancelled
    BY <1>1 DEF CallRecords
  <2>3. call' = [call EXCEPT ![c] = y]
    BY <1>2
  <2>. HIDE DEF y
  <2>. QED
    BY <1>1, <2>1, <2>2, <2>3, WaitsGoes DEF Reached
<1>3. CASE call[c].pc = "new" /\ \E at \in {"time", "sent"} :
             call' = [call EXCEPT ![c] = [call[c] EXCEPT !.pc = at, !.token = TRUE]]
  <2>. PICK at \in {"time", "sent"} :
              call' = [call EXCEPT ![c] = [call[c] EXCEPT !.pc = at, !.token = TRUE]]
    BY <1>3
  <2>. DEFINE y == [call[c] EXCEPT !.pc = at, !.token = TRUE]
  <2>1. y \in CallRecords
    BY <1>1 DEF CallRecords
  <2>2. /\ y.kind = call[c].kind /\ y.key = call[c].key /\ y.calls = 0 /\ y.answer = "none"
             /\ y.pc = at
        /\ y.token = TRUE /\ y.killed = call[c].killed /\ y.cancelled = call[c].cancelled
    BY <1>1 DEF CallRecords
  <2>3. call' = [call EXCEPT ![c] = y]
    OBVIOUS
  <2>4. ~call[c].cancelled
    BY <1>3 DEF Reached
  <2>. HIDE DEF y
  <2>. QED
    BY <1>1, <2>1, <2>2, <2>3, <2>4, WaitsGoes DEF Reached
<1>4. CASE Auth!SignInClient(c)
  <2>1. CASE Auth!SendOrAnswer(c, [call[c] EXCEPT !.nested = TRUE])
    <3>. DEFINE y == [call[c] EXCEPT !.nested = TRUE]
    <3>1. y \in CallRecords
      BY <1>1 DEF CallRecords
    <3>2. y.kind = call[c].kind /\ y.key = call[c].key /\ y.calls = 0 /\ y.answer = "none"
            /\ y.cancelled = call[c].cancelled
      BY <1>1 DEF CallRecords
    <3>3. ~call[c].cancelled
      BY <1>4 DEF Reached, Auth!SignInClient
    <3>4. Auth!SendOrAnswer(c, y)
      BY <2>1
    <3>. HIDE DEF y
    <3>. QED
      BY <1>1, <3>1, <3>2, <3>3, <3>4, SendGoes
  <2>. QED
    BY <1>2, <1>3, <1>4, <2>1 DEF Auth!SignInClient, Auth!GetTimeFromServer, Auth!Set
<1>5. CASE Auth!HandleUserRequest(c)
  BY <1>2, <1>3, <1>5 DEF Auth!HandleUserRequest, Auth!SendOrSchedule, Auth!Set
<1>6. CASE Auth!Cancel(c)
  <2>. DEFINE y == [call[c] EXCEPT !.cancelled = TRUE, !.killed = call[c].token]
  <2>1. y \in CallRecords
    BY <1>1 DEF CallRecords
  <2>2. /\ y.kind = call[c].kind /\ y.key = call[c].key /\ y.calls = 0 /\ y.answer = "none"
             /\ y.pc = call[c].pc
        /\ y.token = call[c].token /\ y.nested = call[c].nested /\ y.killed = call[c].token
             /\ y.cancelled = TRUE
    BY <1>1 DEF CallRecords
  <2>3. call' = [call EXCEPT ![c] = y]
    BY <1>6 DEF Auth!Cancel, Auth!Set
  <2>4. call[c].pc \in {"time", "sent", "scheduled"}
    BY <1>1, <1>6 DEF Auth!Cancel, CallRecords
  <2>. HIDE DEF y
  <2>. QED
    BY <1>1, <2>1, <2>2, <2>3, <2>4, WaitsGoes DEF Reached
<1>7. CASE Auth!TimeCallback(c)
  <2>1. CASE call[c].cancelled /\ Auth!Set(c, Auth!Answered(call[c], "cancelled"))
    BY <1>1, <2>1, AnsweredGoes DEF Auth!Set
  <2>2. CASE ~call[c].cancelled /\ Auth!SendOrAnswer(c, call[c])
    BY <1>1, <2>2, SendGoes
  <2>. QED
    BY <1>7, <2>1, <2>2 DEF Auth!TimeCallback
<1>8. CASE Auth!Cancelled(c)
  <2>1. call[c].cancelled /\ call' = [call EXCEPT ![c] = Auth!Answered(call[c], "cancelled")]
    BY <1>8 DEF Auth!Cancelled, Auth!Set, Reached
  <2>. QED
    BY <1>1, <2>1, AnsweredGoes
<1>9. CASE Auth!ExecuteOrSchedule(c) \/ Auth!Refused(c) \/ Auth!Ok(c)
  <2>1. PICK answer \in {"error", "refused", "granted", "invalid"} :
               call' = [call EXCEPT ![c] = Auth!Answered(call[c], answer)]
    BY <1>9 DEF Auth!ExecuteOrSchedule, Auth!Refused, Auth!Ok, Auth!Set
  <2>. QED
    BY <1>1, <2>1, AnsweredGoes
<1>. QED
  BY <1>4, <1>5, <1>6, <1>7, <1>8, <1>9

(* An action changes one call, and not its credentials.                    *)
LEMMA GoesKeeps ==
    ASSUME Auth!TypeOK, NEW c \in Calls, Goes(c)
    PROVE  \A d \in Calls : /\ call'[d].key = call[d].key /\ Auth!CacheOf(d)' = Auth!CacheOf(d)
                            /\ d # c => call'[d] = call[d]
<1>1. call \in [Calls -> CallRecords]
  BY AuthNumbers
<1>2. ASSUME NEW d \in Calls
      PROVE  /\ call'[d].key = call[d].key /\ call'[d].kind = call[d].kind
             /\ d # c => call'[d] = call[d]
  BY <1>1 DEF Goes
<1>. QED
  BY <1>2 DEF Auth!CacheOf

(* Nor does an answer from the cache, which is of the call's own           *)
(* credentials (the callbacks when the network is offline).                *)
LEMMA OfflineGoes ==
    ASSUME Auth!AuthenticationAssumption, Auth!TypeOK, Ordered, NEW c \in Calls, Reached(c),
           Auth!Offline(c)
    PROVE  Goes(c) /\ FromOwn(c)'
<1>1. call[c] \in CallRecords /\ ~Done(c) /\ call[c].calls = 0 /\ call[c].answer = "none"
  <2>1. ~Done(c)
    BY DEF Done, Auth!Offline
  <2>. QED
    BY <2>1, AuthNumbers DEF Reached
<1>2. CASE call' = [call EXCEPT ![c] = Auth!Answered(call[c], "error")]
  <2>1. Goes(c) /\ call'[c].answer # "cached"
    BY <1>1, <1>2, AnsweredGoes
  <2>. QED
    BY <2>1 DEF FromOwn
<1>3. ASSUME Auth!CacheOf(c) \in Auth!Caches, NEW i \in Auth!Find(cache[Auth!CacheOf(c)], c),
             Auth!Set(c, [Auth!Answered(call[c], "cached") EXCEPT
                           !.from = cache[Auth!CacheOf(c)][i]])
      PROVE  Goes(c) /\ FromOwn(c)'
  <2>. DEFINE k == Auth!CacheOf(c)
  <2>1. PICK d \in Calls : d = cache[k][i] /\ Done(d) /\ call[d].key = call[c].key
               /\ Auth!CacheOf(d) = k
    <3>1. cache[k] \in Seq(Calls) /\ recent[k] \in Seq(Calls) /\ TokenCacheLimit \in Nat
            /\ cache[k] = Auth!Trim(recent[k])
      BY <1>3, AuthNumbers DEF Ordered, Auth!AuthenticationAssumption
    <3>2. i \in 1..Len(cache[k]) /\ call[cache[k][i]].key = call[c].key
      BY <1>3, <3>1 DEF Auth!Find
    <3>3. i \in 1..Len(recent[k]) /\ cache[k][i] = recent[k][i]
      BY <3>1, <3>2, TrimProps
    <3>. QED
      BY <1>3, <3>1, <3>2, <3>3 DEF Ordered, Held
  <2>. DEFINE z == [call[c] EXCEPT !.pc = "done", !.answer = "cached", !.token = FALSE,
                !.killed = FALSE, !.from = d]
              y == [z EXCEPT !.calls = 1]
  <2>2. call' = [call EXCEPT ![c] = y]
    <3>1. [Auth!Answered(call[c], "cached") EXCEPT !.from = d]
            = [z EXCEPT !.calls = call[c].calls + 1]
      BY <1>1 DEF Auth!Answered
    <3>2. [z EXCEPT !.calls = call[c].calls + 1] = y
      BY <1>1
    <3>. HIDE DEF y, z
    <3>. QED
      BY <1>3, <2>1, <3>1, <3>2 DEF Auth!Set
  <2>3. y \in CallRecords
    <3>1. z \in CallRecords
      BY <1>1, <2>1 DEF CallRecords
    <3>. HIDE DEF z
    <3>. QED
      BY <3>1 DEF CallRecords
  <2>4. /\ y.kind = call[c].kind /\ y.key = call[c].key /\ y.cancelled = call[c].cancelled
             /\ y.from = d
        /\ y.pc = "done" /\ y.calls = 1 /\ y.killed = FALSE /\ y.answer = "cached"
    BY <1>1 DEF CallRecords
  <2>. HIDE DEF y
  <2>5. call'[c] = y
    BY <2>2, AuthNumbers
  <2>6. Goes(c)
    BY <1>1, <2>2, <2>3, <2>4, <2>5 DEF Goes, Reached, Done
  <2>7. FromOwn(c)'
    BY <2>1, <2>4, <2>5, <2>6, GoesKeeps DEF FromOwn
  <2>. QED
    BY <2>6, <2>7
<1>. QED
  BY <1>2, <1>3 DEF Auth!Offline, Auth!Set

(* The caches hold calls that are done, which do not change.               *)
LEMMA HeldStays ==
    ASSUME Auth!TypeOK, NEW c \in Calls, Goes(c), NEW k \in Auth!Caches, NEW s \in Seq(Calls),
           Distinct(s), \A i \in 1..Len(s) : Held(s[i], k)
    PROVE  Distinct(s)' /\ \A i \in 1..Len(s) : Held(s[i], k)'
<1>1. \A i \in 1..Len(s) : s[i] \in Calls
  OBVIOUS
<1>2. \A i \in 1..Len(s) : call'[s[i]].key = call[s[i]].key
  BY <1>1, GoesKeeps
<1>3. ASSUME NEW i \in 1..Len(s)
      PROVE  Held(s[i], k)'
  <2>1. s[i] # c
    BY DEF Held, Goes, Done
  <2>. QED
    BY <1>1, <2>1, GoesKeeps DEF Held, Done
<1>4. Distinct(s)'
  BY <1>2 DEF Distinct
<1>. QED
  BY <1>3, <1>4

(* Moving an answered call to the front keeps the cache in order.          *)
LEMMA FrontHeld ==
    ASSUME Auth!TypeOK, NEW c \in Calls, Goes(c), NEW k \in Auth!Caches, NEW s \in Seq(Calls),
           Distinct(s), \A i \in 1..Len(s) : Held(s[i], k),
           NEW d \in Calls, Held(d, k)', NEW t, t = Auth!ToFront(s, d)
    PROVE  t \in Seq(Calls) /\ Distinct(t)' /\ \A i \in 1..Len(t) : Held(t[i], k)'
<1>1. /\ t \in Seq(Calls) /\ Distinct(t)
      /\ \A i \in 1..Len(t) : t[i] = d \/ \E j \in 1..Len(s) : t[i] = s[j]
  BY ToFrontProps, ToFrontKeeps
<1>2. \A i \in 1..Len(s) : Held(s[i], k)'
  BY HeldStays
<1>3. \A i \in 1..Len(t) : Held(t[i], k)'
  BY <1>1, <1>2
<1>4. \A i \in 1..Len(t) : call'[t[i]].key = call[t[i]].key
  BY <1>1, GoesKeeps
<1>. QED
  BY <1>1, <1>3, <1>4 DEF Distinct

(* A step that leaves the caches alone keeps Ordered.                      *)
LEMMA OrderedKept ==
    ASSUME Auth!TypeOK, Ordered, NEW c \in Calls, Goes(c), UNCHANGED <<cache, recent>>
    PROVE  Ordered'
<1>. SUFFICES ASSUME NEW k \in Auth!Caches
              PROVE  /\ cache[k] = Auth!Trim(recent[k])
                     /\ Distinct(recent[k])' /\ \A i \in 1..Len(recent[k]) : Held(recent[k][i], k)'
  BY DEF Ordered, Auth!Trim
<1>1. PICK s \in Seq(Calls) : s = recent[k]
  BY AuthNumbers
<1>2. Distinct(s)' /\ \A i \in 1..Len(s) : Held(s[i], k)'
  BY <1>1, HeldStays DEF Ordered
<1>3. recent'[k] = s
  BY <1>1
<1>. QED
  BY <1>1, <1>2, <1>3 DEF Ordered, Distinct, Held, Done

(* A step that inserts a call into a cache, or moves one to its front,     *)
(* keeps Ordered.                                                          *)
LEMMA OrderedMoved ==
    ASSUME Auth!AuthenticationAssumption, Auth!TypeOK, Ordered, NEW c \in Calls, Goes(c),
           NEW k \in Auth!Caches, NEW d \in Calls, Held(d, k)',
           recent' = [recent EXCEPT ![k] = Auth!ToFront(@, d)],
           \/ cache' = [cache EXCEPT ![k] = Auth!Trim(Auth!ToFront(@, d))]
           \/ Auth!Find(cache[k], d) # {} /\ cache' = [cache EXCEPT ![k] = Auth!ToFront(@, d)]
    PROVE  Ordered' /\ {cache', recent'} \subseteq [Auth!Caches -> Seq(Calls)]
<1>1. cache \in [Auth!Caches -> Seq(Calls)] /\ recent \in [Auth!Caches -> Seq(Calls)]
        /\ TokenCacheLimit \in Nat
  BY DEF Auth!TypeOK, Auth!AuthenticationAssumption
<1>2. PICK s \in Seq(Calls) : s = recent[k]
  BY <1>1
<1>3. PICK t : t = Auth!ToFront(s, d)
  OBVIOUS
<1>4. Distinct(s) /\ \A i \in 1..Len(s) : Held(s[i], k)
  BY <1>2 DEF Ordered, Distinct
<1>5. t \in Seq(Calls) /\ Distinct(t)' /\ \A i \in 1..Len(t) : Held(t[i], k)'
  BY <1>3, <1>4, FrontHeld
<1>6. recent'[k] = t
  BY <1>1, <1>2, <1>3
<1>7. cache'[k] = Auth!Trim(t) /\ Auth!Trim(t) \in Seq(Calls)
  <2>1. cache[k] = Auth!Trim(s)
    BY <1>2 DEF Ordered
  <2>2. /\ Auth!Trim(Auth!ToFront(cache[k], d)) = Auth!Trim(t)
        /\ Auth!Find(cache[k], d) # {} => Auth!ToFront(cache[k], d) = Auth!Trim(t)
    BY <1>1, <1>3, <1>4, <2>1, FrontOfTrim
  <2>3. Auth!Trim(t) \in Seq(Calls)
    BY <1>1, <1>5, TrimProps
  <2>. QED
    BY <1>1, <2>2, <2>3
<1>8. {cache', recent'} \subseteq [Auth!Caches -> Seq(Calls)]
  BY <1>1, <1>5, <1>6, <1>7
<1>9. ASSUME NEW l \in Auth!Caches
      PROVE  /\ cache'[l] = Auth!Trim(recent'[l])
             /\ Distinct(recent[l])' /\ \A i \in 1..Len(recent'[l]) : Held(recent[l][i], l)'
  <2>1. CASE l = k
    BY <1>5, <1>6, <1>7, <2>1 DEF Distinct, Held, Done, Auth!CacheOf
  <2>2. CASE l # k
    <3>1. cache'[l] = cache[l] /\ recent'[l] = recent[l]
      BY <1>1, <2>2
    <3>2. PICK r \in Seq(Calls) : r = recent[l]
      BY <1>1
    <3>3. Distinct(r) /\ \A i \in 1..Len(r) : Held(r[i], l)
      BY <3>2 DEF Ordered, Distinct
    <3>4. Distinct(r)' /\ \A i \in 1..Len(r) : Held(r[i], l)'
      BY <3>3, HeldStays
    <3>5. recent'[l] = r /\ cache'[l] = Auth!Trim(r)
      BY <3>1, <3>2 DEF Ordered
    <3>. QED
      BY <3>4, <3>5 DEF Distinct, Held, Done, Auth!CacheOf
  <2>. QED
    BY <2>1, <2>2
<1>. QED
  BY <1>8, <1>9 DEF Ordered, Auth!Trim

(* The callback that stores an answer keeps Ordered (InsertOrAssign).      *)
LEMMA OkOrdered ==
    ASSUME Auth!AuthenticationAssumption, Auth!TypeOK, Ordered, NEW c \in Calls, Reached(c),
           Auth!Ok(c)
    PROVE  Ordered' /\ {cache', recent'} \subseteq [Auth!Caches -> Seq(Calls)]
<1>1. Goes(c)
  BY StepGoes
<1>2. PICK valid \in BOOLEAN :
        /\ call' = [call EXCEPT ![c] = 
                        Auth!Answered(call[c], IF valid THEN "granted" ELSE "invalid")]
        /\ IF Auth!Stores(Auth!CacheOf(c), valid)
           THEN /\ cache' = [cache EXCEPT ![Auth!CacheOf(c)] = Auth!InsertOrAssign(@, c)]
                /\ recent' = [recent EXCEPT ![Auth!CacheOf(c)] = Auth!ToFront(@, c)]
           ELSE UNCHANGED <<cache, recent>>
  BY DEF Auth!Ok, Auth!Set
<1>3. CASE Auth!Stores(Auth!CacheOf(c), valid)
  <2>1. PICK k \in Auth!Caches : k = Auth!CacheOf(c) /\ (k = "user" => valid)
    BY <1>3 DEF Auth!Stores, Auth!Caches
  <2>2. /\ call'[c].pc = "done" /\ call'[c].answer = IF valid THEN "granted" ELSE "invalid"
    <3>1. call'[c] = Auth!Answered(call[c], IF valid THEN "granted" ELSE "invalid")
            /\ call[c] \in CallRecords
      BY <1>2, AuthNumbers
    <3>. QED
      BY <3>1 DEF Auth!Answered, CallRecords
  <2>3. Held(c, k)'
    BY <1>1, <2>1, <2>2, GoesKeeps DEF Held, Done
  <2>. QED
    BY <1>1, <1>2, <1>3, <2>1, <2>3, OrderedMoved DEF Auth!InsertOrAssign
<1>4. CASE ~Auth!Stores(Auth!CacheOf(c), valid)
  BY <1>1, <1>2, <1>4, OrderedKept DEF Auth!TypeOK
<1>. QED
  BY <1>3, <1>4

(* The callback that answers from the cache keeps Ordered (Find).          *)
LEMMA OfflineOrdered ==
    ASSUME Auth!AuthenticationAssumption, Auth!TypeOK, Ordered, NEW c \in Calls, Reached(c),
           Auth!Offline(c)
    PROVE  Ordered' /\ {cache', recent'} \subseteq [Auth!Caches -> Seq(Calls)]
<1>1. Goes(c)
  BY OfflineGoes
<1>2. CASE UNCHANGED <<cache, recent>>
  BY <1>1, <1>2, OrderedKept DEF Auth!TypeOK
<1>3. ASSUME NEW k \in Auth!Caches, NEW i \in Auth!Find(cache[k], c),
             cache' = [cache EXCEPT ![k] = Auth!ToFront(@, @[i])],
             recent' = [recent EXCEPT ![k] = Auth!ToFront(@, cache[k][i])]
      PROVE  Ordered' /\ {cache', recent'} \subseteq [Auth!Caches -> Seq(Calls)]
  <2>1. cache[k] \in Seq(Calls) /\ recent[k] \in Seq(Calls) /\ TokenCacheLimit \in Nat
          /\ cache[k] = Auth!Trim(recent[k])
    BY AuthNumbers DEF Ordered, Auth!AuthenticationAssumption
  <2>2. i \in 1..Len(cache[k])
    BY <2>1 DEF Auth!Find
  <2>3. i \in 1..Len(recent[k]) /\ cache[k][i] = recent[k][i]
    BY <2>1, <2>2, TrimProps
  <2>4. PICK d \in Calls : d = cache[k][i] /\ Held(d, k)
    BY <2>1, <2>2, <2>3 DEF Ordered
  <2>5. Held(d, k)'
    <3>1. d # c
      BY <1>1, <2>4 DEF Held, Goes
    <3>. QED
      BY <1>1, <2>4, <3>1, GoesKeeps DEF Held, Done
  <2>6. Auth!Find(cache[k], d) # {}
    BY <2>1, <2>2, <2>4 DEF Auth!Find
  <2>7. /\ cache' = [cache EXCEPT ![k] = Auth!ToFront(@, d)]
        /\ recent' = [recent EXCEPT ![k] = Auth!ToFront(@, d)]
    BY <1>3, <2>4
  <2>. QED
    BY <1>1, <2>5, <2>6, <2>7, OrderedMoved
<1>. QED
  BY <1>2, <1>3 DEF Auth!Offline

(* Every step keeps the types and the inductive invariant.                 *)
LEMMA AuthStep ==
    ASSUME Auth!AuthenticationAssumption, Auth!TypeOK, AuthInv, [Auth!Next]_Auth!authVars
    PROVE  Auth!TypeOK' /\ AuthInv'
<1>1. ASSUME NEW c \in Calls, Goes(c), FromOwn(c)', Ordered',
             {cache', recent'} \subseteq [Auth!Caches -> Seq(Calls)],
             network' = network, signedOut' \subseteq Keys
      PROVE  Auth!TypeOK' /\ AuthInv'
  <2>1. call' \in [Calls -> CallRecords]
    BY <1>1, AuthNumbers DEF Goes
  <2>2. Auth!TypeOK'
    BY <1>1, <2>1 DEF Auth!TypeOK, CallRecords
  <2>3. ASSUME NEW d \in Calls, d # c
        PROVE  FromOwn(d)' /\ Reached(d)'
    <3>1. FromOwn(d) /\ Reached(d) /\ call'[d] = call[d]
      BY <1>1, <2>3, GoesKeeps DEF AuthInv
    <3>2. Reached(d)'
      BY <3>1 DEF Reached, Done
    <3>3. FromOwn(d)'
      BY <1>1, <3>1, GoesKeeps DEF FromOwn
    <3>. QED
      BY <3>2, <3>3
  <2>. QED
    BY <1>1, <2>2, <2>3 DEF AuthInv, Goes
<1>2. ASSUME NEW c \in Calls,
             Auth!SignInClient(c) \/ Auth!HandleUserRequest(c) \/ Auth!Cancel(c)
               \/ Auth!ExecuteOrSchedule(c)
                \/ Auth!TimeCallback(c) \/ Auth!Cancelled(c) \/ Auth!Refused(c)
      PROVE  Auth!TypeOK' /\ AuthInv'
  <2>1. Goes(c) /\ call'[c].answer # "cached"
    BY <1>2, StepGoes DEF AuthInv
  <2>2. UNCHANGED <<network, cache, recent, signedOut>>
    BY <1>2 DEF Auth!SignInClient, Auth!HandleUserRequest, Auth!Cancel, Auth!ExecuteOrSchedule,
                Auth!TimeCallback, Auth!Cancelled, Auth!Refused, Auth!Quiet
  <2>3. Ordered'
    BY <2>1, <2>2, OrderedKept DEF AuthInv
  <2>. QED
    BY <1>1, <2>1, <2>2, <2>3 DEF FromOwn, Auth!TypeOK
<1>3. ASSUME NEW c \in Calls, Auth!Ok(c)
      PROVE  Auth!TypeOK' /\ AuthInv'
  <2>1. Goes(c) /\ call'[c].answer # "cached"
    BY <1>3, StepGoes DEF AuthInv
  <2>2. network' = network /\ signedOut' \subseteq Keys
    <3>1. call[c].key \in Keys /\ signedOut \subseteq Keys
      BY AuthNumbers DEF CallRecords, Auth!TypeOK
    <3>. QED
      BY <1>3, <3>1 DEF Auth!Ok
  <2>. QED
    BY <1>1, <1>3, <2>1, <2>2, OkOrdered DEF FromOwn, AuthInv
<1>4. ASSUME NEW c \in Calls, Auth!Offline(c)
      PROVE  Auth!TypeOK' /\ AuthInv'
  <2>1. Goes(c) /\ FromOwn(c)' /\ Ordered'
          /\ {cache', recent'} \subseteq [Auth!Caches -> Seq(Calls)]
    BY <1>4, OfflineGoes, OfflineOrdered DEF AuthInv
  <2>2. UNCHANGED <<network, signedOut>>
    BY <1>4 DEF Auth!Offline
  <2>. QED
    BY <1>1, <2>1, <2>2 DEF Auth!TypeOK
<1>5. CASE UNCHANGED Auth!authVars
  BY <1>5 DEF Auth!authVars, Auth!TypeOK, AuthInv, Ordered, Distinct, Held, Done, FromOwn,
     Reached, Auth!CacheOf, Auth!Trim
<1>. QED
  BY <1>2, <1>3, <1>4, <1>5 DEF Auth!Next, Auth!Step

(* No call, empty caches.                                                  *)
LEMMA AuthInitial ==
    ASSUME Auth!AuthenticationAssumption, Auth!Init
    PROVE  Auth!TypeOK /\ AuthInv
<1>1. PICK p \in Programs : call = [c \in Calls |-> [
         kind |-> p[c].kind, key |-> p[c].key, pc |-> "new", token |-> FALSE, killed |-> FALSE,
         cancelled |-> FALSE, nested |-> FALSE, calls |-> 0, answer |-> "none", from |-> None]]
  BY DEF Auth!Init
<1>2. p \in [Calls -> [kind : Auth!Kinds, key : Keys]]
  BY DEF Auth!AuthenticationAssumption
<1>3. call \in [Calls -> CallRecords]
  BY <1>1, <1>2 DEF CallRecords
<1>4. /\ cache = [k \in Auth!Caches |-> <<>>] /\ recent = cache /\ network \in BOOLEAN
           /\ signedOut = {}
      /\ TokenCacheLimit \in Nat
  BY DEF Auth!Init, Auth!AuthenticationAssumption
<1>5. Auth!TypeOK
  BY <1>3, <1>4 DEF Auth!TypeOK, CallRecords
<1>6. \A c \in Calls : FromOwn(c) /\ Reached(c)
  BY <1>1 DEF FromOwn, Reached, Done
<1>7. Auth!Trim(<<>>) = <<>>
  BY <1>4 DEF Auth!Trim
<1>8. Ordered
  BY <1>4, <1>7 DEF Ordered, Distinct
<1>. QED
  BY <1>5, <1>6, <1>8 DEF AuthInv

(* The inductive invariant has what the client promises.                   *)
LEMMA AuthSafe ==
    ASSUME Auth!AuthenticationAssumption, Auth!TypeOK, AuthInv
    PROVE  Auth!CacheExact /\ Auth!CancelStops
<1>1. Auth!CancelStops
  BY DEF AuthInv, Reached, Auth!CancelStops
<1>2. \A k \in Auth!Caches : cache[k] = Auth!Trim(recent[k])
  BY DEF AuthInv, Ordered
<1>3. ASSUME NEW i \in DOMAIN cache["user"]
      PROVE  call[cache["user"][i]].answer = "granted"
  <2>1. /\ "user" \in Auth!Caches /\ cache["user"] \in Seq(Calls) /\ recent["user"] \in Seq(Calls)
        /\ TokenCacheLimit \in Nat
    BY AuthNumbers DEF Auth!Caches, Auth!AuthenticationAssumption
  <2>2. i \in 1..Len(recent["user"]) /\ cache["user"][i] = recent["user"][i]
    BY <1>2, <1>3, <2>1, TrimProps
  <2>. QED
    BY <2>1, <2>2 DEF AuthInv, Ordered, Held
<1>4. \A c \in Calls : call[c].answer = "cached" =>
          /\ call[c].from # None /\ call[call[c].from].key = call[c].key
          /\ Auth!CacheOf(call[c].from) = Auth!CacheOf(c)
  BY DEF AuthInv, FromOwn, Auth!AuthenticationAssumption
<1>. QED
  BY <1>1, <1>2, <1>3, <1>4 DEF Auth!CacheExact

(* The types and the inductive invariant of the authentication client,     *)
(* for any number of calls and credentials and any token_cache_limit.      *)
THEOREM AuthInductive ==
    ASSUME Auth!AuthenticationAssumption PROVE Auth!Spec => [](Auth!TypeOK /\ AuthInv)
<1>1. Auth!TypeOK /\ AuthInv /\ [Auth!Next]_Auth!authVars => (Auth!TypeOK /\ AuthInv)'
  BY AuthStep
<1>. QED
  BY <1>1, AuthInitial, PTL DEF Auth!Spec

(* The caches hold the latest answers of the credentials used last, and    *)
(* an answer from them is of the call's own; a cancel keeps the second     *)
(* request back, or reaches it, whatever order requests, answers and       *)
(* cancels come in.                                                        *)
THEOREM AuthenticationSafe ==
    ASSUME Auth!AuthenticationAssumption PROVE Auth!Spec => [](Auth!CacheExact /\ Auth!CancelStops)
<1>1. Auth!TypeOK /\ AuthInv => Auth!CacheExact /\ Auth!CancelStops
  BY AuthSafe
<1>. QED
  BY <1>1, AuthInductive, PTL

(* Of the instance that the run checks, the part that is about the         *)
(* authentication client behaves as its module says.                       *)
LEMMA AuthRuns ==
    /\ Auth!AuthenticationAssumption
    /\ MCInit => Auth!TypeOK /\ AuthInv
    /\ [MCNext]_all => [Auth!Next]_Auth!authVars
<1>1. Auth!AuthenticationAssumption
  BY ServicesAssumption
<1>2. MCInit => Auth!TypeOK /\ AuthInv
  BY <1>1, AuthInitial DEF MCInit
<1>3. [MCNext]_all => [Auth!Next]_Auth!authVars
  <2>1. UNCHANGED authVars => UNCHANGED Auth!authVars
    BY DEF authVars, Auth!authVars
  <2>2. UNCHANGED all => UNCHANGED authVars
    BY DEF all
  <2>3. MCNext => Auth!Next \/ UNCHANGED authVars
    BY DEF MCNext, OnToken, Authentication, OnCurl, OnWinHttp, OnAndroid, OnIOS, OnContext, OnBody
  <2>. QED
    BY <2>1, <2>2, <2>3
<1>. QED
  BY <1>1, <1>2, <1>3

(* The instance that the run checks keeps its caches exact for every       *)
(* value of its constants.                                                 *)
THEOREM AuthRunCache == MCSpec => []CacheExact
<1>1. Auth!TypeOK /\ AuthInv => CacheExact
  BY AuthRuns, AuthSafe DEF CacheExact
<1>2. Auth!TypeOK /\ AuthInv /\ [Auth!Next]_Auth!authVars => (Auth!TypeOK /\ AuthInv)'
  BY AuthRuns, AuthStep
<1>. QED
  BY <1>1, <1>2, AuthRuns, PTL DEF MCSpec

(* And so do its cancels stop calls.                                       *)
THEOREM AuthRunCancel == MCSpec => []CancelStops
<1>1. Auth!TypeOK /\ AuthInv => CancelStops
  BY AuthRuns, AuthSafe DEF CancelStops
<1>2. Auth!TypeOK /\ AuthInv /\ [Auth!Next]_Auth!authVars => (Auth!TypeOK /\ AuthInv)'
  BY AuthRuns, AuthStep
<1>. QED
  BY <1>1, <1>2, AuthRuns, PTL DEF MCSpec
=============================================================================
