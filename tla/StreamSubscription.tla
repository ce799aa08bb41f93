-------------------------- MODULE StreamSubscription --------------------------
(***************************************************************************)
(* read::StreamLayerClientImpl: Subscribe, Poll and Unsubscribe, which run *)
(* as tasks on the scheduler's threads and share client_context_.          *)
(*                                                                         *)
(* mutex_ guards each access to client_context_ alone: the requests to the *)
(* service go out between the accesses, with what a task has copied.  The  *)
(* stream service is external: it knows the subscriptions, how far each    *)
(* one has been read and what has been committed.                          *)
(***************************************************************************)
EXTENDS Naturals, Sequences, FiniteSets

CONSTANTS
    Calls,          \* what the user calls: Subscribe, Poll or Unsubscribe
    Partitions,     \* the partitions of the layer
    MaxOffset,      \* messages in a partition, numbered from 1
    None            \* no subscription

StreamSubscriptionAssumption == MaxOffset \in Nat /\ None \notin Calls

VARIABLES
    client_context, \* client_context_: the subscription, which is named by its call
    pc,             \* where the task of each call is
    local,          \* the subscription_id that it has copied
    messages,       \* the messages that it has consumed
    result,         \* the result of its function
    cancelled,      \* whether its token was cancelled
    subscriptions,  \* service: the subscriptions it knows
    position,       \* service: how far each has been read
    committed,      \* service: the offsets committed
    delivered,      \* history: the messages that the user was called with
    dropped,        \* history: those that a failed or cancelled Poll kept
    unreported,     \* history: subscriptions made or deleted while the reply was lost
    contended       \* history: calls that ran together with one of their kind

taskVars == <<pc, local, messages, result, cancelled>>
service == <<subscriptions, position, committed>>
history == <<delivered, dropped, unreported, contended>>
vars == <<client_context, taskVars, service, history>>

Offsets == [Partitions -> 0..MaxOffset]
Messages == Partitions \X (1..MaxOffset)

TypeOK ==
    /\ client_context \in Calls \cup {None}
    /\ pc \in [Calls -> {"idle", "Subscribe", "Unsubscribe", "Poll", "request", "update",
                         "delete", "reset", "consume", "commit", "respond", "done"}]
    /\ local \in [Calls -> Calls \cup {None}]
    /\ messages \in [Calls -> Seq(Messages)]
    /\ result \in [Calls -> {"ok", "error"}] /\ cancelled \in [Calls -> BOOLEAN]
    /\ {subscriptions, unreported, contended} \subseteq SUBSET Calls
    /\ position \in [Calls -> Offsets] /\ committed \in [Calls -> Offsets]
    /\ {delivered, dropped} \subseteq SUBSET (Calls \X Messages)

Init ==
    /\ client_context = None
    /\ pc = [c \in Calls |-> "idle"] /\ local = [c \in Calls |-> None]
    /\ messages = [c \in Calls |-> <<>>] /\ result = [c \in Calls |-> "ok"]
    /\ cancelled = [c \in Calls |-> FALSE]
    /\ subscriptions = {} /\ unreported = {} /\ contended = {}
    /\ position = [c \in Calls |-> [p \in Partitions |-> 0]] /\ committed = position
    /\ delivered = {} /\ dropped = {}

GoTo(c, l) == pc' = [pc EXCEPT ![c] = l]
Return(c, r) == result' = [result EXCEPT ![c] = r] /\ GoTo(c, "respond")

(* Calls of the kind whose tasks are at one of labels run together with c. *)
Contends(c, labels) ==
    LET others == {d \in Calls \ {c} : pc[d] \in labels}
    IN  contended' = IF others = {} THEN contended ELSE contended \cup others \cup {c}

-----------------------------------------------------------------------------
(* AddTask and TaskContext *)

Call(c) ==
    /\ pc[c] = "idle"
    /\ \E kind \in {"Subscribe", "Unsubscribe", "Poll"} : GoTo(c, kind)
    /\ UNCHANGED <<client_context, local, messages, result, cancelled, service, history>>

Cancel(c) ==
    /\ pc[c] \notin {"idle", "done"} /\ ~cancelled[c]
    /\ cancelled' = [cancelled EXCEPT ![c] = TRUE]
    /\ UNCHANGED <<client_context, pc, local, messages, result, service, history>>

(* A task that is cancelled before it runs does not run. *)
Skip(c) ==
    /\ pc[c] \in {"Subscribe", "Unsubscribe", "Poll"} /\ cancelled[c]
    /\ Return(c, "error")
    /\ UNCHANGED <<client_context, local, messages, cancelled, service, history>>

(* The callback gets Cancelled instead of the result after a cancellation. *)
Respond(c) ==
    LET consumed == {<<local[c], messages[c][i]>> : i \in DOMAIN messages[c]} IN
    /\ pc[c] = "respond"
    /\ IF result[c] = "ok" /\ ~cancelled[c]
       THEN delivered' = delivered \cup consumed /\ UNCHANGED dropped
       ELSE dropped' = dropped \cup consumed /\ UNCHANGED delivered
    /\ GoTo(c, "done")
    /\ UNCHANGED <<client_context, local, messages, result, cancelled, service, unreported,
                   contended>>

-----------------------------------------------------------------------------
(* Requests to the service: one succeeds, or fails without an effect, or   *)
(* has its effect while the reply is lost or cut off by a cancellation.    *)

Succeeds(c) == ~cancelled[c]
Fails(c) == Return(c, "error")

-----------------------------------------------------------------------------
(* Subscribe *)

CheckSubscribed_Skipped == TRUE
CheckSubscribed == client_context = None

SubscribeStart(c) ==
    /\ pc[c] = "Subscribe" /\ ~cancelled[c]
    /\ \/ CheckSubscribed /\ GoTo(c, "request") /\ Contends(c, {"request", "update"})
          /\ UNCHANGED result
       \/ ~CheckSubscribed /\ Return(c, "error") /\ UNCHANGED contended
    /\ UNCHANGED <<client_context, local, messages, cancelled, service, delivered, dropped,
                   unreported>>

SubscribeRequest(c) ==
    /\ pc[c] = "request"
    /\ \/ /\ subscriptions' = subscriptions \cup {c}
          /\ \/ /\ Succeeds(c)
                /\ local' = [local EXCEPT ![c] = c]
                /\ GoTo(c, "update") /\ UNCHANGED <<result, unreported>>
             \/ Fails(c) /\ unreported' = unreported \cup {c} /\ UNCHANGED local
       \/ Fails(c) /\ UNCHANGED <<subscriptions, local, unreported>>
    /\ UNCHANGED <<client_context, messages, cancelled, position, committed, delivered, dropped,
                   contended>>

SubscribeUpdate(c) ==
    /\ pc[c] = "update"
    /\ client_context' = local[c]
    /\ Return(c, "ok")
    /\ UNCHANGED <<local, messages, cancelled, service, history>>

-----------------------------------------------------------------------------
(* Unsubscribe and Poll start alike: they copy the context. *)

ReadContext(c, kind, next) ==
    /\ pc[c] = kind /\ ~cancelled[c]
    /\ \/ client_context = None /\ Return(c, "error") /\ UNCHANGED <<local, contended>>
       \/ /\ client_context # None
          /\ local' = [local EXCEPT ![c] = client_context]
          /\ GoTo(c, next) /\ UNCHANGED result
          /\ IF kind = "Poll" THEN Contends(c, {"consume", "commit"}) ELSE UNCHANGED contended
    /\ UNCHANGED <<client_context, messages, cancelled, service, delivered, dropped, unreported>>

DeleteSubscription(c) ==
    /\ pc[c] = "delete"
    /\ \/ /\ local[c] \in subscriptions
          /\ subscriptions' = subscriptions \ {local[c]}
          /\ \/ Succeeds(c) /\ GoTo(c, "reset") /\ UNCHANGED <<result, unreported>>
             \/ Fails(c) /\ unreported' = unreported \cup {local[c]}
       \/ Fails(c) /\ UNCHANGED <<subscriptions, unreported>>
    /\ UNCHANGED <<client_context, local, messages, cancelled, position, committed, delivered,
                   dropped, contended>>

UnsubscribeUpdate_Forgotten(c) ==
    /\ pc[c] = "reset"
    /\ Return(c, "ok")
    /\ UNCHANGED <<client_context, local, messages, cancelled, service, history>>
UnsubscribeUpdate(c) ==
    /\ pc[c] = "reset"
    /\ client_context' = None
    /\ Return(c, "ok")
    /\ UNCHANGED <<local, messages, cancelled, service, history>>

-----------------------------------------------------------------------------
(* Poll *)

(* How many of the first i messages are of a partition. *)
Among(b, i, p) == Cardinality({j \in 1..i : b[j][1] = p})

(* The next messages from position from: any number of each partition, in  *)
(* the partition's order, mixed in any way.                                *)
Batches(from) ==
    {b \in UNION {[1..n -> Messages] : n \in 0..2} :
        \A i \in DOMAIN b : b[i][2] = from[b[i][1]] + Among(b, i, b[i][1])}

Beyond(from, b) == [p \in Partitions |-> from[p] + Among(b, Len(b), p)]

ConsumeData(c) ==
    /\ pc[c] = "consume"
    /\ \/ /\ local[c] \in subscriptions
          /\ \E b \in Batches(position[local[c]]) :
                /\ position' = [position EXCEPT ![local[c]] = Beyond(@, b)]
                /\ messages' = [messages EXCEPT ![c] = b]
                /\ \/ Succeeds(c) /\ b = <<>> /\ Return(c, "ok")
                   \/ Succeeds(c) /\ b # <<>> /\ GoTo(c, "commit") /\ UNCHANGED result
                   \/ Fails(c)
       \/ Fails(c) /\ UNCHANGED <<position, messages>>
    /\ UNCHANGED <<client_context, local, cancelled, subscriptions, committed, history>>

(* The messages are inserted from last to first into a set in which the    *)
(* first of a partition stays: for each, the offset of its last message.   *)
StreamOffsets_Forward(b) ==
    {m \in Messages : \E i \in DOMAIN b : b[i] = m /\ \A j \in 1..(i - 1) : b[j][1] # m[1]}
StreamOffsets_Next(b) ==
    {<<m[1], m[2] + 1>> : m \in {b[i] : i \in DOMAIN b}}
StreamOffsets(b) ==
    {m \in Messages : \E i \in DOMAIN b : b[i] = m /\ \A j \in (i + 1)..Len(b) : b[j][1] # m[1]}

CommitOffsets(c) ==
    LET offsets == StreamOffsets(messages[c])
        Last(p) == (CHOOSE m \in offsets : m[1] = p)[2]
    IN
    /\ pc[c] = "commit"
    /\ \/ /\ local[c] \in subscriptions
          /\ committed' = [committed EXCEPT ![local[c]] =
                 [p \in Partitions |-> IF \E m \in offsets : m[1] = p THEN Last(p) ELSE @[p]]]
          /\ (Succeeds(c) /\ Return(c, "ok")) \/ Fails(c)
       \/ Fails(c) /\ UNCHANGED committed
    /\ UNCHANGED <<client_context, local, messages, cancelled, subscriptions, position, history>>

-----------------------------------------------------------------------------

Next == \E c \in Calls :
    \/ Call(c) \/ Cancel(c) \/ Skip(c) \/ Respond(c)
    \/ SubscribeStart(c) \/ SubscribeRequest(c) \/ SubscribeUpdate(c)
    \/ ReadContext(c, "Unsubscribe", "delete") \/ DeleteSubscription(c) \/ UnsubscribeUpdate(c)
    \/ ReadContext(c, "Poll", "consume") \/ ConsumeData(c) \/ CommitOffsets(c)

Spec == Init /\ [][Next]_vars

-----------------------------------------------------------------------------
(* Properties *)

(* The service has no subscription that the client has forgotten, however  *)
(* Subscribe, Poll and Unsubscribe overlap, except that of a Subscribe     *)
(* whose reply was lost, and unless Subscribes ran together: both pass the *)
(* check (:85), the later one overwrites the former (:132), and an         *)
(* Unsubscribe of the former resets whatever it is that the client has     *)
(* subscribed to since (:212).                                             *)
SubscribesApart == \A c \in contended : local[c] # c
NoOrphan ==
    SubscribesApart =>
        \A s \in subscriptions \ unreported :
            client_context = s \/ \E c \in Calls : pc[c] = "update" /\ local[c] = s

(* client_context_ names a subscription of the service, unless a reply was *)
(* lost or an Unsubscribe is about to reset it (:212).                     *)
ContextIsLive ==
    client_context # None =>
        \/ client_context \in subscriptions \cup unreported
        \/ \E c \in Calls : pc[c] = "reset" /\ local[c] = client_context

(* What Poll returns has been committed, to the last message of every      *)
(* partition (:343), unless polls of the subscription ran together, which  *)
(* may commit in another order than they consumed.                         *)
CommittedBeforeReturned ==
    \A m \in delivered :
        (\A c \in contended : local[c] # m[1]) => m[2][2] <= committed[m[1]][m[2][1]]

(* Nothing is committed that no Poll consumed: a committed message was     *)
(* returned, or is held by a running Poll, or was dropped by one that      *)
(* failed or was cancelled after it had consumed (:326, :360).             *)
NothingLost ==
    \A s \in Calls, m \in Messages : m[2] <= committed[s][m[1]] =>
        \/ <<s, m>> \in delivered \cup dropped
        \/ \E c \in Calls : /\ local[c] = s /\ pc[c] # "done"
                            /\ \E i \in DOMAIN messages[c] : messages[c][i] = m
=============================================================================
