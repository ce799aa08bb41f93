-------------------------- MODULE SubscriptionProofs --------------------------
(***************************************************************************)
(* Proofs about StreamSubscription, for any number of calls, partitions    *)
(* and messages: client and service agree on what is subscribed, and a     *)
(* Poll commits all of what it returns and only what was consumed.         *)
(*                                                                         *)
(* The invariant has two parts.  SubscribeInv follows the id that a task   *)
(* has copied of client_context_: it names a Subscribe that has ended, and *)
(* unless Subscribes ran together, a task that deletes or resets it acts   *)
(* on what the client is subscribed to.  PollInv follows the messages from *)
(* the service to the user: they lie below the position that the service   *)
(* has read to, and above what is committed until their Poll commits them. *)
(* For each part there is one lemma per step that disturbs it, and a frame *)
(* for the steps that do not; the steps of the client then combine them.   *)
(***************************************************************************)
EXTENDS MCRead, Integers, FiniteSetTheorems, SequenceTheorems, TLAPS

-----------------------------------------------------------------------------
(* The subscription of a stream layer: the inductive invariant             *)

Waiting(c) == pc[c] \in {"idle", "Subscribe", "Unsubscribe", "Poll", "request"}
Subscribing(c) == pc[c] \in {"request", "update"}
Polling(c) == pc[c] \in {"consume", "commit"}
Working(c) == pc[c] \in {"delete", "reset", "consume", "commit"}
Over(s) == pc[s] \in {"respond", "done"}

(* What a task has copied of client_context_: the subscription of a        *)
(* Subscribe that has ended.                                               *)
Copied(c) ==
    /\ Waiting(c) => local[c] = None
    /\ pc[c] = "update" => local[c] = c /\ c \in subscriptions
    /\ Working(c) => local[c] \notin {None, c}
    /\ local[c] \notin {None, c} => Over(local[c])
    /\ pc[c] = "reset" => local[c] \notin subscriptions

(* A Subscribe that runs alone finds no context up to its update.          *)
Alone(c) ==
    Subscribing(c) /\ c \notin contended =>
        client_context = None /\ \A d \in Calls \ {c} : ~Subscribing(d)

(* Unless Subscribes ran together, an Unsubscribe resets the subscription  *)
(* that it has deleted.                                                    *)
ResetsOwn(c) ==
    Sub!SubscribesApart =>
        /\ pc[c] = "reset" => client_context = local[c]
        /\ pc[c] = "delete" /\ local[c] \in subscriptions => client_context = local[c]

(* A subscription is deleted once.                                         *)
DeletedOnce ==
    \A c, d \in Calls : pc[c] = "reset" /\ pc[d] = "reset" /\ local[c] = local[d] => c = d

(* The messages of a Poll: in the order of their offsets, and none beyond  *)
(* the position of the subscription.                                       *)
Increasing(b) ==
    \A i, j \in DOMAIN b : i < j /\ b[i][1] = b[j][1] => b[i][2] < b[j][2]
Consumed(c) ==
    /\ pc[c] \notin {"commit", "respond", "done"} => messages[c] = <<>>
    /\ Increasing(messages[c]) /\ Len(messages[c]) <= 2
    /\ \A i \in DOMAIN messages[c] :
        LET m == messages[c][i] IN local[c] # None /\ m[2] <= position[local[c]][m[1]]

(* The offset that a commit of the messages b names for partition p.       *)
LastOffset(b, p) == (CHOOSE m \in Sub!StreamOffsets(b) : m[1] = p)[2]

(* Polls of a subscription that never ran together commit what they        *)
(* consumed before the next one consumes.                                  *)
PollsApart(s) == \A c \in contended : local[c] # s
CommittedInOrder(s) ==
    PollsApart(s) =>
        /\ \A c \in Calls : local[c] = s => \A i \in DOMAIN messages[c] :
            LET m == messages[c][i] IN
            /\ pc[c] = "commit" => m[2] > committed[s][m[1]]
            /\ pc[c] = "respond" /\ result[c] = "ok" => m[2] <= committed[s][m[1]]
        /\ \A m \in sDelivered : m[1] = s => m[2][2] <= committed[s][m[2][1]]

(* A message below the position of its subscription was delivered or       *)
(* dropped, or is held by a task.                                          *)
Held(s, m) ==
    \E c \in Calls :
        local[c] = s /\ pc[c] # "done" /\ \E i \in DOMAIN messages[c] : messages[c][i] = m
NothingMissed(s) ==
    /\ \A p \in Partitions : committed[s][p] <= position[s][p]
    /\ \A m \in Sub!Messages :
        m[2] <= position[s][m[1]] => <<s, m>> \in sDelivered \cup dropped \/ Held(s, m)

SubscribeInv ==
    /\ DeletedOnce /\ \A c \in Calls : Copied(c) /\ Alone(c) /\ ResetsOwn(c)
    /\ client_context # None => Over(client_context)
    /\ Sub!NoOrphan /\ Sub!ContextIsLive
PollInv ==
    /\ \A c \in Calls : Consumed(c)
    /\ \A c, d \in Calls : c # d /\ Polling(c) /\ Polling(d) => c \in contended
    /\ \A s \in Calls : CommittedInOrder(s) /\ NothingMissed(s)
StreamInv == Sub!TypeOK /\ SubscribeInv /\ PollInv

(* What the steps of a task leave as it is for the other tasks.            *)
Moves(c, l) ==
    /\ pc' = [pc EXCEPT ![c] = l]
    /\ pc'[c] = l /\ \A d \in Calls \ {c} : pc'[d] = pc[d]

(* GoTo and Return.                                                        *)
LEMMA Going ==
    ASSUME Sub!TypeOK, NEW c \in Calls, NEW l
    PROVE  /\ Sub!GoTo(c, l) => Moves(c, l)
           /\ \A r : Sub!Return(c, r) =>
                Moves(c, "respond") /\ result' = [result EXCEPT ![c] = r] /\ result'[c] = r
  BY DEF Sub!TypeOK, Sub!GoTo, Sub!Return, Moves

(* The steps of the polls, and what a call begins or ends with, leave the  *)
(* subscription alone.                                                     *)
LEMMA SubscribeFrame ==
    ASSUME Sub!TypeOK, SubscribeInv, NEW c \in Calls, NEW l, Moves(c, l),
           UNCHANGED <<client_context, local, subscriptions, unreported, contended>>,
           pc[c] \notin {"update", "reset"},
           \/ l = "respond" /\ pc[c] # "done"
           \/ l = "done" /\ pc[c] = "respond"
           \/ l \in {"Subscribe", "Unsubscribe", "Poll"} /\ pc[c] = "idle"
           \/ l = "commit" /\ pc[c] = "consume"
    PROVE  SubscribeInv'
  <1>1. \A s : s \in Calls /\ Over(s) => Over(s)'
    BY DEF Over, Moves
  <1>2. local \in [Calls -> Calls \cup {None}] /\ client_context \in Calls \cup {None}
    BY DEF Sub!TypeOK
  <1>3. ASSUME NEW d \in Calls PROVE Copied(d)'
    <2>1. Copied(d) /\ (local[d] \notin {None, d} => local[d] \in Calls)
      BY <1>2 DEF SubscribeInv
    <2> QED BY <1>1, <2>1 DEF Copied, Moves, Waiting, Working
  <1>4. ASSUME NEW d \in Calls PROVE Alone(d)'
    BY DEF SubscribeInv, Alone, Moves, Subscribing
  <1>5. ASSUME NEW d \in Calls PROVE ResetsOwn(d)'
    <2>1. (Sub!SubscribesApart)' <=> Sub!SubscribesApart
      BY DEF Sub!SubscribesApart
    <2> QED BY <2>1 DEF SubscribeInv, ResetsOwn, Moves
  <1>6. (client_context # None => Over(client_context))'
    BY <1>1, <1>2 DEF SubscribeInv
  <1>7. (Sub!NoOrphan)'
    BY DEF SubscribeInv, Sub!NoOrphan, Sub!SubscribesApart, Moves
  <1>8. (Sub!ContextIsLive)'
    BY DEF SubscribeInv, Sub!ContextIsLive, Moves
  <1>9. DeletedOnce'
    BY DEF SubscribeInv, DeletedOnce, Moves
  <1> QED BY <1>3, <1>4, <1>5, <1>6, <1>7, <1>8, <1>9 DEF SubscribeInv

(* The steps of a task that has no messages, and one that fails to commit  *)
(* them, change nothing of what is consumed and committed.                 *)
LEMMA PollFrame ==
    ASSUME StreamSubscriptionAssumption, Sub!TypeOK, PollInv, NEW c \in Calls, NEW l, Moves(c, l),
           UNCHANGED <<messages, position, committed, sDelivered, dropped>>,
           \A d \in Calls \ {c} : local'[d] = local[d] /\ result'[d] = result[d],
           local[c] # None => local'[c] = local[c], contended \subseteq contended',
           \/ messages[c] = <<>> /\ l # "commit"
           \/ /\ pc[c] = "commit" /\ l = "respond" /\ result'[c] = "error"
              /\ local'[c] = local[c],
           \A a, b \in Calls : a # b /\ Polling(a)' /\ Polling(b)' => a \in contended'
    PROVE  PollInv'
  <1>1. ASSUME NEW d \in Calls PROVE Consumed(d)'
    <2>1. Consumed(d)
      BY DEF PollInv
    <2>2. CASE d = c
      BY <2>1, <2>2 DEF Consumed, Moves, Increasing
    <2>3. CASE d # c
      BY <2>1, <2>3 DEF Consumed, Moves, Increasing
    <2> QED BY <2>2, <2>3
  <1>2. ASSUME NEW s \in Calls PROVE CommittedInOrder(s)'
    <2>1. CommittedInOrder(s) /\ s # None /\ contended \subseteq Calls
      BY DEF PollInv, Sub!StreamSubscriptionAssumption, Sub!TypeOK
    <2>2. ASSUME PollsApart(s)' PROVE PollsApart(s)
      BY <2>1, <2>2 DEF PollsApart
    <2>3. ASSUME PollsApart(s)', NEW d \in Calls, local'[d] = s, NEW i \in DOMAIN messages'[d]
          PROVE  LET m == messages'[d][i] IN
                 /\ pc'[d] = "commit" => m[2] > committed[s][m[1]]
                 /\ pc'[d] = "respond" /\ result'[d] = "ok" => m[2] <= committed[s][m[1]]
      <3>1. CASE d = c
        BY <2>3, <3>1 DEF Moves
      <3>2. CASE d # c
        BY <2>1, <2>2, <2>3, <3>2 DEF CommittedInOrder, Moves
      <3> QED BY <3>1, <3>2
    <2>4. PollsApart(s)' => \A m \in sDelivered : m[1] = s => m[2][2] <= committed[s][m[2][1]]
      BY <2>1, <2>2 DEF CommittedInOrder
    <2> QED BY <2>3, <2>4 DEF CommittedInOrder
  <1>3. ASSUME NEW s \in Calls PROVE NothingMissed(s)'
    <2>1. NothingMissed(s)
      BY DEF PollInv
    <2>2. ASSUME NEW m, Held(s, m) PROVE Held(s, m)'
      BY <2>2 DEF Held, Moves
    <2> QED BY <2>1, <2>2 DEF NothingMissed
  <1> QED BY <1>1, <1>2, <1>3 DEF PollInv

(* What holds of the copies of the context.                                *)
LEMMA Copies ==
    ASSUME StreamSubscriptionAssumption, Sub!TypeOK, SubscribeInv
    PROVE  /\ None \notin Calls /\ {subscriptions, unreported, contended} \subseteq SUBSET Calls
           /\ client_context \in Calls \cup {None}
           /\ \A d \in Calls :
                /\ Copied(d) /\ Alone(d) /\ ResetsOwn(d) /\ local[d] \in Calls \cup {None}
                /\ local[d] \notin {None, d} => local[d] \in Calls /\ Over(local[d])
  BY DEF Sub!StreamSubscriptionAssumption, Sub!TypeOK, SubscribeInv, Copied

(* A Subscribe that finds no context, and whether it is alone.             *)
LEMMA StartKeeps ==
    ASSUME StreamSubscriptionAssumption, Sub!TypeOK, SubscribeInv, NEW c \in Calls,
           pc[c] = "Subscribe", client_context = None, Moves(c, "request"),
           Sub!Contends(c, {"request", "update"}),
           UNCHANGED <<client_context, local, subscriptions, unreported>>
    PROVE  SubscribeInv'
  <1>1. \A s \in Calls : Over(s) => Over(s)'
    BY DEF Over, Moves
  <1>2. \A d \in Calls \ {c} : Subscribing(d) => c \in contended' /\ d \in contended'
    BY DEF Sub!Contends, Subscribing
  <1>3. contended \subseteq contended'
    BY DEF Sub!Contends
  <1>4. (Sub!SubscribesApart)' => Sub!SubscribesApart
    BY <1>3 DEF Sub!SubscribesApart
  <1>5. ASSUME NEW d \in Calls PROVE Copied(d)'
    BY <1>1, Copies DEF Copied, Moves, Waiting, Working
  <1>6. ASSUME NEW d \in Calls PROVE Alone(d)'
    <2>1. CASE d = c
      BY <1>2, <2>1 DEF Alone, Moves, Subscribing
    <2>2. CASE d # c
      BY <1>2, <2>2 DEF Alone, Moves, Subscribing
    <2> QED BY <2>1, <2>2
  <1>7. ASSUME NEW d \in Calls PROVE ResetsOwn(d)'
    BY <1>4, Copies DEF ResetsOwn, Moves
  <1>8. (Sub!NoOrphan)'
    BY <1>4 DEF SubscribeInv, Sub!NoOrphan, Moves
  <1>9. (Sub!ContextIsLive)' /\ DeletedOnce'
    BY DEF SubscribeInv, Sub!ContextIsLive, DeletedOnce, Moves
  <1> QED BY <1>5, <1>6, <1>7, <1>8, <1>9 DEF SubscribeInv

(* The service has made the subscription, and the reply arrives or is lost. *)
LEMMA RequestKeeps ==
    ASSUME StreamSubscriptionAssumption, Sub!TypeOK, SubscribeInv, NEW c \in Calls,
           pc[c] = "request", subscriptions' = subscriptions \cup {c},
           \/ Moves(c, "update") /\ local' = [local EXCEPT ![c] = c] /\ unreported' = unreported
           \/ Moves(c, "respond") /\ local' = local /\ unreported' = unreported \cup {c},
           UNCHANGED <<client_context, contended>>
    PROVE  SubscribeInv'
  <1>1. \A s \in Calls : Over(s) => s # c /\ Over(s)'
    BY DEF Over, Moves
  <1>2. /\ pc'[c] \in {"update", "respond"} /\ \A d \in Calls \ {c} : pc'[d] = pc[d]
             /\ local'[d] = local[d]
        /\ pc'[c] = "update" => local'[c] = c /\ unreported' = unreported
        /\ pc'[c] = "respond" => local'[c] = None /\ unreported' = unreported \cup {c}
    <2>1. local[c] = None /\ local \in [Calls -> Calls \cup {None}]
      BY Copies DEF Copied, Waiting, Sub!TypeOK
    <2> QED BY <2>1 DEF Moves
  <1>3. contended \subseteq Calls /\ None # c
    BY Copies
  <1>4. (Sub!SubscribesApart)' => Sub!SubscribesApart /\ (pc'[c] = "update" => c \notin contended)
    <2>1. local[c] = None
      BY Copies DEF Copied, Waiting
    <2> QED BY <1>2, <1>3, <2>1 DEF Sub!SubscribesApart
  <1>5. ASSUME NEW d \in Calls PROVE Copied(d)'
    <2>1. Copied(d) /\ (local[d] \notin {None, d} => local[d] \in Calls /\ Over(local[d]))
      BY Copies
    <2>2. CASE d = c
      BY <1>2, <2>2 DEF Copied, Waiting, Working
    <2>3. CASE d # c
      BY <1>1, <1>2, <2>1, <2>3 DEF Copied, Waiting, Working
    <2> QED BY <2>2, <2>3
  <1>6. ASSUME NEW d \in Calls PROVE Alone(d)'
    BY <1>2, Copies DEF Alone, Subscribing
  <1>7. ASSUME NEW d \in Calls PROVE ResetsOwn(d)'
    <2>1. ResetsOwn(d) /\ (local[d] \notin {None, d} => local[d] # c)
      BY <1>1, Copies
    <2>2. pc[d] = "delete" => local[d] \notin {None, d}
      BY Copies DEF Copied, Working
    <2> QED BY <1>2, <1>4, <2>1, <2>2 DEF ResetsOwn
  <1>8. (Sub!NoOrphan)'
    BY <1>2, <1>4 DEF SubscribeInv, Sub!NoOrphan
  <1>9. (Sub!ContextIsLive)' /\ DeletedOnce'
    BY <1>2 DEF SubscribeInv, Sub!ContextIsLive, DeletedOnce
  <1>10. (client_context # None => Over(client_context))'
    BY <1>1, Copies DEF SubscribeInv
  <1> QED BY <1>5, <1>6, <1>7, <1>8, <1>9, <1>10 DEF SubscribeInv

(* Subscribe ends: the client knows its subscription.                      *)
LEMMA UpdateKeeps ==
    ASSUME StreamSubscriptionAssumption, Sub!TypeOK, SubscribeInv, NEW c \in Calls,
           pc[c] = "update", client_context' = local[c], Moves(c, "respond"),
           UNCHANGED <<local, subscriptions, unreported, contended>>
    PROVE  SubscribeInv'
  <1>1. \A s \in Calls : Over(s) => Over(s)'
    BY DEF Over, Moves
  <1>2. local[c] = c /\ c \in subscriptions /\ c # None /\ subscriptions \subseteq Calls
    BY Copies DEF Copied
  <1>3. Sub!SubscribesApart => c \notin contended
    BY <1>2 DEF Sub!SubscribesApart
  <1>4. Sub!SubscribesApart => client_context = None /\ \A d \in Calls \ {c} : ~Subscribing(d)
    BY <1>3, Copies DEF Alone, Subscribing
  <1>5. ASSUME NEW d \in Calls PROVE Copied(d)'
    BY <1>1, Copies DEF Copied, Moves, Waiting, Working
  <1>6. ASSUME NEW d \in Calls PROVE Alone(d)'
    <2>1. Alone(d) /\ Subscribing(c)
      BY Copies DEF Subscribing
    <2> QED BY <2>1 DEF Alone, Moves, Subscribing
  <1>7. ASSUME NEW d \in Calls PROVE ResetsOwn(d)'
    <2>1. ResetsOwn(d) /\ (Working(d) => local[d] # None)
      BY Copies DEF Copied
    <2>2. (Sub!SubscribesApart)' <=> Sub!SubscribesApart
      BY DEF Sub!SubscribesApart
    <2> QED BY <1>4, <2>1, <2>2 DEF ResetsOwn, Moves, Working
  <1>8. (Sub!NoOrphan)'
    <2>1. (Sub!SubscribesApart)' <=> Sub!SubscribesApart
      BY DEF Sub!SubscribesApart
    <2>2. ASSUME Sub!SubscribesApart, NEW s \in subscriptions \ unreported
          PROVE  s = c
      <3>1. s # None
        BY <1>2, <2>2, Copies
      <3> QED BY <1>2, <1>4, <2>2, <3>1 DEF SubscribeInv, Sub!NoOrphan, Subscribing
    <2> QED BY <1>2, <2>1, <2>2 DEF Sub!NoOrphan
  <1>9. (Sub!ContextIsLive)' /\ DeletedOnce'
    BY <1>2 DEF SubscribeInv, Sub!ContextIsLive, DeletedOnce, Moves
  <1>10. (client_context # None => Over(client_context))'
    BY <1>2 DEF Over, Moves
  <1> QED BY <1>5, <1>6, <1>7, <1>8, <1>9, <1>10 DEF SubscribeInv

(* Unsubscribe and Poll start with the context that they find.             *)
LEMMA CopyKeeps ==
    ASSUME StreamSubscriptionAssumption, Sub!TypeOK, SubscribeInv, NEW c \in Calls,
           pc[c] \in {"Unsubscribe", "Poll"}, client_context # None,
           local' = [local EXCEPT ![c] = client_context],
           NEW l \in {"delete", "consume"}, Moves(c, l), contended \subseteq contended',
           UNCHANGED <<client_context, subscriptions, unreported>>
    PROVE  SubscribeInv'
  <1>1. \A s \in Calls : Over(s) => s # c /\ Over(s)'
    BY DEF Over, Moves
  <1>2. client_context \in Calls /\ Over(client_context)
    BY Copies DEF SubscribeInv
  <1>3. /\ local'[c] = client_context /\ \A d \in Calls \ {c} : local'[d] = local[d]
        /\ local[c] = None /\ c # None /\ contended \subseteq Calls
    <2>1. local[c] = None /\ c # None /\ local \in [Calls -> Calls \cup {None}]
          /\ contended \subseteq Calls
      BY Copies DEF Copied, Waiting, Sub!TypeOK
    <2> QED BY <2>1
  <1>4. (Sub!SubscribesApart)' => Sub!SubscribesApart
    BY <1>3 DEF Sub!SubscribesApart
  <1>5. ASSUME NEW d \in Calls PROVE Copied(d)'
    <2>1. Copied(d) /\ (local[d] \notin {None, d} => local[d] \in Calls /\ Over(local[d]))
      BY Copies
    <2>2. CASE d = c
      BY <1>1, <1>2, <1>3, <2>2 DEF Copied, Moves, Waiting, Working
    <2>3. CASE d # c
      BY <1>1, <1>3, <2>1, <2>3 DEF Copied, Moves, Waiting, Working
    <2> QED BY <2>2, <2>3
  <1>6. ASSUME NEW d \in Calls PROVE Alone(d)'
    BY Copies DEF Alone, Moves, Subscribing
  <1>7. ASSUME NEW d \in Calls PROVE ResetsOwn(d)'
    <2>1. CASE d = c
      BY <1>3, <2>1 DEF ResetsOwn, Moves
    <2>2. CASE d # c
      BY <1>3, <1>4, <2>2, Copies DEF ResetsOwn, Moves
    <2> QED BY <2>1, <2>2
  <1>8. (Sub!NoOrphan)'
    BY <1>3, <1>4 DEF SubscribeInv, Sub!NoOrphan, Moves
  <1>9. (Sub!ContextIsLive)' /\ DeletedOnce'
    BY <1>3 DEF SubscribeInv, Sub!ContextIsLive, DeletedOnce, Moves
  <1>10. (client_context # None => Over(client_context))'
    BY <1>1, <1>2
  <1> QED BY <1>5, <1>6, <1>7, <1>8, <1>9, <1>10 DEF SubscribeInv

(* The service has deleted the subscription, and the reply arrives or is   *)
(* lost.                                                                   *)
LEMMA DeleteKeeps ==
    ASSUME StreamSubscriptionAssumption, Sub!TypeOK, SubscribeInv, NEW c \in Calls,
           pc[c] = "delete", local[c] \in subscriptions,
           subscriptions' = subscriptions \ {local[c]},
           \/ Moves(c, "reset") /\ unreported' = unreported
           \/ Moves(c, "respond") /\ unreported' = unreported \cup {local[c]},
           UNCHANGED <<client_context, local, contended>>
    PROVE  SubscribeInv'
  <1>1. \A s \in Calls : Over(s) => Over(s)'
    BY DEF Over, Moves
  <1>2. /\ pc'[c] \in {"reset", "respond"} /\ \A d \in Calls \ {c} : pc'[d] = pc[d]
        /\ pc'[c] = "reset" => unreported' = unreported
        /\ pc'[c] = "respond" => unreported' = unreported \cup {local[c]}
        /\ subscriptions \subseteq Calls
    BY Copies DEF Moves
  <1>3. local[c] \notin {None, c} /\ local[c] \in Calls /\ Over(local[c])
    BY Copies DEF Copied, Working
  <1>4. (Sub!SubscribesApart)' <=> Sub!SubscribesApart
    BY DEF Sub!SubscribesApart
  <1>5. ASSUME NEW d \in Calls PROVE Copied(d)'
    <2>1. Copied(d) /\ (local[d] \notin {None, d} => local[d] \in Calls /\ Over(local[d]))
      BY Copies
    <2>2. CASE d = c
      BY <1>1, <1>2, <1>3, <2>1, <2>2 DEF Copied, Waiting, Working
    <2>3. CASE d # c
      <3>1. pc[d] = "update" => d # local[c]
        BY <1>3 DEF Over
      <3> QED BY <1>1, <1>2, <2>1, <2>3, <3>1 DEF Copied, Waiting, Working
    <2> QED BY <2>2, <2>3
  <1>6. ASSUME NEW d \in Calls PROVE Alone(d)'
    BY <1>2, Copies DEF Alone, Subscribing
  <1>7. ASSUME NEW d \in Calls PROVE ResetsOwn(d)'
    <2>1. ResetsOwn(d)
      BY Copies
    <2>2. CASE d = c
      BY <1>2, <1>4, <2>1, <2>2 DEF ResetsOwn
    <2>3. CASE d # c
      BY <1>2, <1>4, <2>1, <2>3 DEF ResetsOwn
    <2> QED BY <2>2, <2>3
  <1>8. (Sub!NoOrphan)'
    BY <1>2, <1>4 DEF SubscribeInv, Sub!NoOrphan
  <1>9. (Sub!ContextIsLive)'
    <2>1. CASE client_context = local[c]
      BY <1>2, <2>1 DEF Sub!ContextIsLive
    <2>2. CASE client_context # local[c]
      BY <1>2, <2>2 DEF SubscribeInv, Sub!ContextIsLive
    <2> QED BY <2>1, <2>2
  <1>10. DeletedOnce'
    <2>1. \A d \in Calls : pc[d] = "reset" => local[d] \notin subscriptions
      BY Copies DEF Copied
    <2> QED BY <1>2, <2>1 DEF SubscribeInv, DeletedOnce
  <1>11. (client_context # None => Over(client_context))'
    BY <1>1, Copies DEF SubscribeInv
  <1> QED BY <1>5, <1>6, <1>7, <1>8, <1>9, <1>10, <1>11 DEF SubscribeInv

(* Unsubscribe ends: the client forgets what it has subscribed to.         *)
LEMMA ResetKeeps ==
    ASSUME StreamSubscriptionAssumption, Sub!TypeOK, SubscribeInv, NEW c \in Calls,
           pc[c] = "reset", client_context' = None, Moves(c, "respond"),
           UNCHANGED <<local, subscriptions, unreported, contended>>
    PROVE  SubscribeInv'
  <1>1. \A s \in Calls : Over(s) => Over(s)'
    BY DEF Over, Moves
  <1>2. local[c] \notin subscriptions /\ local[c] # None
        /\ (Sub!SubscribesApart => client_context = local[c])
    BY Copies DEF Copied, Working, ResetsOwn
  <1>3. (Sub!SubscribesApart)' <=> Sub!SubscribesApart
    BY DEF Sub!SubscribesApart
  <1>4. ASSUME NEW d \in Calls PROVE Copied(d)'
    BY <1>1, Copies DEF Copied, Moves, Waiting, Working
  <1>5. ASSUME NEW d \in Calls PROVE Alone(d)'
    BY Copies DEF Alone, Moves, Subscribing
  <1>6. ASSUME NEW d \in Calls PROVE ResetsOwn(d)'
    <2>1. ResetsOwn(d)
      BY Copies
    <2>2. Sub!SubscribesApart => d = c
            \/ (pc[d] # "reset" /\ (pc[d] = "delete" => local[d] \notin subscriptions))
      BY <1>2, <2>1 DEF ResetsOwn, SubscribeInv, DeletedOnce
    <2> QED BY <1>3, <2>2 DEF ResetsOwn, Moves
  <1>7. (Sub!NoOrphan)'
    BY <1>2, <1>3 DEF SubscribeInv, Sub!NoOrphan, Moves
  <1>8. (Sub!ContextIsLive)' /\ DeletedOnce'
    BY DEF SubscribeInv, Sub!ContextIsLive, DeletedOnce, Moves
  <1> QED BY <1>4, <1>5, <1>6, <1>7, <1>8 DEF SubscribeInv

-----------------------------------------------------------------------------
(* What the service returns *)

(* The messages of a batch are counted as the library counts.              *)
LEMMA Counted == ASSUME NEW S PROVE Sub!Cardinality(S) = Cardinality(S)
  BY DEF Sub!Cardinality, Cardinality

(* The messages of a batch follow each other from where the subscription   *)
(* was read to, and bring it to where it is read to then.                  *)
LEMMA BatchInOrder ==
    ASSUME MaxOffset \in Nat, NEW from \in Sub!Offsets, NEW b \in Sub!Batches(from)
    PROVE  /\ b \in Seq(Sub!Messages) /\ Increasing(b) /\ Len(b) <= 2
           /\ Sub!Beyond(from, b) \in Sub!Offsets
           /\ \A i \in DOMAIN b : /\ b[i] \in Sub!Messages
                                  /\ from[b[i][1]] < b[i][2]
                                  /\ b[i][2] <= Sub!Beyond(from, b)[b[i][1]]
           /\ \A p \in Partitions : from[p] <= Sub!Beyond(from, b)[p]
           /\ \A m \in Sub!Messages :
                from[m[1]] < m[2] /\ m[2] <= Sub!Beyond(from, b)[m[1]] =>
                    \E i \in DOMAIN b : b[i] = m
  <1>1. PICK n \in 0..2 : b \in [1..n -> Sub!Messages]
    BY DEF Sub!Batches
  <1>2. /\ b \in Seq(Sub!Messages) /\ DOMAIN b = 1..n /\ Len(b) = n /\ Len(b) <= 2
        /\ \A i \in 1..n : b[i] \in Sub!Messages
    BY <1>1
  <1>3. \A m \in Sub!Messages : m[1] \in Partitions /\ m[2] \in 1..MaxOffset /\ m = <<m[1], m[2]>>
    BY DEF Sub!Messages
  <1>4. \A p \in Partitions : from[p] \in 0..MaxOffset
    BY DEF Sub!Offsets
  <1> DEFINE A(i, p) == Sub!Among(b, i, p)
  <1>5. \A p : A(0, p) = 0
    <2>1. ASSUME NEW p PROVE {j \in 1..0 : b[j][1] = p} = {}
      OBVIOUS
    <2> QED BY <2>1, Counted, FS_EmptySet DEF Sub!Among
  <1>6. ASSUME NEW i \in 0..1, NEW p
        PROVE  A(i + 1, p) = IF b[i + 1][1] = p THEN A(i, p) + 1 ELSE A(i, p)
    <2>1. {j \in 1..(i + 1) : b[j][1] = p} =
            IF b[i + 1][1] = p THEN {j \in 1..i : b[j][1] = p} \cup {i + 1}
            ELSE {j \in 1..i : b[j][1] = p}
      <3>1. 1..(i + 1) = 1..i \cup {i + 1}
        OBVIOUS
      <3> QED BY <3>1
    <2>2. IsFiniteSet({j \in 1..i : b[j][1] = p}) /\ i + 1 \notin {j \in 1..i : b[j][1] = p}
      <3>1. IsFiniteSet(1..i)
        BY FS_Interval
      <3>2. {j \in 1..i : b[j][1] = p} \subseteq 1..i
        OBVIOUS
      <3>3. i + 1 \notin 1..i
        OBVIOUS
      <3> QED BY <3>1, <3>2, <3>3, FS_Subset
    <2> QED BY <2>1, <2>2, Counted, FS_AddElement DEF Sub!Among
  <1>7. \A p : /\ A(1, p) = IF b[1][1] = p THEN 1 ELSE 0
               /\ A(2, p) = A(1, p) + IF b[2][1] = p THEN 1 ELSE 0
    <2>1. ASSUME NEW p PROVE A(1, p) = IF b[1][1] = p THEN 1 ELSE 0
      BY <1>5, <1>6
    <2>2. ASSUME NEW p PROVE A(2, p) = A(1, p) + IF b[2][1] = p THEN 1 ELSE 0
      <3>1. A(1 + 1, p) = IF b[1 + 1][1] = p THEN A(1, p) + 1 ELSE A(1, p)
        BY <1>6
      <3>2. A(1, p) \in Nat
        BY <2>1
      <3> HIDE DEF A
      <3> QED BY <3>1, <3>2
    <2> QED BY <2>1, <2>2
  <1>8. \A i \in 1..n : b[i][2] = from[b[i][1]] + A(i, b[i][1])
    BY <1>2 DEF Sub!Batches
  <1>9. \A p \in Partitions : Sub!Beyond(from, b)[p] = from[p] + A(n, p)
    BY <1>2 DEF Sub!Beyond
  <1>10. DOMAIN Sub!Beyond(from, b) = Partitions
           /\ Sub!Beyond(from, b) = [p \in Partitions |-> from[p] + A(n, p)]
    BY <1>2 DEF Sub!Beyond
  <1> HIDE DEF A
  <1>11. CASE n = 0
    <2>1. DOMAIN b = {}
      BY <1>2, <1>11
    <2>2. \A p \in Partitions : Sub!Beyond(from, b)[p] = from[p]
      BY <1>4, <1>5, <1>9, <1>11
    <2>3. Sub!Beyond(from, b) \in Sub!Offsets
      BY <1>4, <1>10, <2>2 DEF Sub!Offsets
    <2>4. \A p \in Partitions : from[p] <= Sub!Beyond(from, b)[p]
      BY <1>4, <2>2
    <2>5. \A m \in Sub!Messages : ~(from[m[1]] < m[2] /\ m[2] <= Sub!Beyond(from, b)[m[1]])
      BY <1>3, <1>4, <2>2
    <2>6. Increasing(b)
      BY <2>1 DEF Increasing
    <2> QED BY <1>2, <2>1, <2>3, <2>4, <2>5, <2>6
  <1>12. CASE n = 1
    <2>1. DOMAIN b = {1} /\ b[1] \in Sub!Messages /\ b[1][1] \in Partitions
            /\ b[1][2] \in 1..MaxOffset
      BY <1>2, <1>3, <1>12
    <2>2. b[1][2] = from[b[1][1]] + 1
      BY <1>7, <1>8, <1>12
    <2>3. \A p \in Partitions : Sub!Beyond(from, b)[p] = IF b[1][1] = p THEN b[1][2] ELSE from[p]
      BY <1>4, <1>7, <1>9, <1>12, <2>2
    <2>4. Sub!Beyond(from, b) \in Sub!Offsets
      BY <1>4, <1>10, <2>1, <2>3 DEF Sub!Offsets
    <2>5. \A p \in Partitions : from[p] <= Sub!Beyond(from, b)[p]
      BY <1>4, <2>1, <2>2, <2>3
    <2>6. ASSUME NEW m \in Sub!Messages, from[m[1]] < m[2], m[2] <= Sub!Beyond(from, b)[m[1]]
          PROVE  b[1] = m
      <3>1. m[1] \in Partitions /\ from[m[1]] \in Nat /\ m[2] \in Nat
        BY <1>3, <1>4
      <3>2. m[1] = b[1][1] /\ m[2] <= b[1][2]
        BY <2>3, <2>6, <3>1
      <3>3. m[2] = b[1][2]
        BY <2>1, <2>2, <2>6, <3>1, <3>2
      <3> QED BY <1>3, <2>1, <3>2, <3>3
    <2>7. Increasing(b)
      BY <2>1 DEF Increasing
    <2>8. from[b[1][1]] < b[1][2] /\ b[1][2] <= Sub!Beyond(from, b)[b[1][1]]
      BY <1>4, <2>1, <2>2, <2>3
    <2> QED BY <1>2, <2>1, <2>4, <2>5, <2>6, <2>7, <2>8
  <1>13. CASE n = 2
    <2>1. /\ DOMAIN b = {1, 2}
          /\ b[1] \in Sub!Messages /\ b[1][1] \in Partitions /\ b[1][2] \in 1..MaxOffset
          /\ b[2] \in Sub!Messages /\ b[2][1] \in Partitions /\ b[2][2] \in 1..MaxOffset
      BY <1>2, <1>3, <1>13
    <2>2. /\ b[1][2] = from[b[1][1]] + 1
          /\ b[2][2] = from[b[2][1]] + IF b[1][1] = b[2][1] THEN 2 ELSE 1
      BY <1>7, <1>8, <1>13
    <2>3. \A p \in Partitions : Sub!Beyond(from, b)[p] =
            IF b[2][1] = p THEN b[2][2] ELSE IF b[1][1] = p THEN b[1][2] ELSE from[p]
      BY <1>4, <1>7, <1>9, <1>13, <2>2
    <2>4. Sub!Beyond(from, b) \in Sub!Offsets
      BY <1>4, <1>10, <2>1, <2>3 DEF Sub!Offsets
    <2>5. \A p \in Partitions : from[p] <= Sub!Beyond(from, b)[p]
      BY <1>4, <2>1, <2>2, <2>3
    <2>6. ASSUME NEW m \in Sub!Messages, from[m[1]] < m[2], m[2] <= Sub!Beyond(from, b)[m[1]]
          PROVE  b[1] = m \/ b[2] = m
      <3>1. m[1] \in Partitions /\ from[m[1]] \in Nat /\ m[2] \in Nat
        BY <1>3, <1>4
      <3>2. CASE m[1] = b[2][1] /\ b[1][1] = b[2][1]
        <4>1. m[2] <= b[2][2]
          BY <2>3, <2>6, <3>1, <3>2
        <4>2. m[2] = b[1][2] \/ m[2] = b[2][2]
          BY <2>1, <2>2, <2>6, <3>1, <3>2, <4>1
        <4> QED BY <1>3, <2>1, <3>2, <4>2
      <3>3. CASE m[1] = b[2][1] /\ b[1][1] # b[2][1]
        <4>1. m[2] <= b[2][2]
          BY <2>3, <2>6, <3>1, <3>3
        <4>2. m[2] = b[2][2]
          BY <2>1, <2>2, <2>6, <3>1, <3>3, <4>1
        <4> QED BY <1>3, <2>1, <3>3, <4>2
      <3>4. CASE m[1] # b[2][1]
        <4>1. m[1] = b[1][1] /\ m[2] <= b[1][2]
          BY <2>3, <2>6, <3>1, <3>4
        <4>2. m[2] = b[1][2]
          BY <2>1, <2>2, <2>6, <3>1, <4>1
        <4> QED BY <1>3, <2>1, <4>1, <4>2
      <3> QED BY <3>2, <3>3, <3>4
    <2>7. Increasing(b)
      BY <1>4, <2>1, <2>2 DEF Increasing
    <2>8. /\ from[b[1][1]] < b[1][2] /\ b[1][2] <= Sub!Beyond(from, b)[b[1][1]]
          /\ from[b[2][1]] < b[2][2] /\ b[2][2] <= Sub!Beyond(from, b)[b[2][1]]
      BY <1>4, <2>1, <2>2, <2>3
    <2> QED BY <1>2, <2>1, <2>4, <2>5, <2>6, <2>7, <2>8
  <1> QED BY <1>11, <1>12, <1>13

(* StreamOffsets: of each partition, the offset of its last message.       *)
LEMMA LastOffsets ==
    ASSUME NEW b \in Seq(Sub!Messages), Increasing(b), Len(b) <= 2, NEW p
    PROVE  /\ (\E m \in Sub!StreamOffsets(b) : m[1] = p) <=> \E i \in DOMAIN b : b[i][1] = p
           /\ (\E i \in DOMAIN b : b[i][1] = p) =>
                \E k \in DOMAIN b :
                    /\ b[k][1] = p /\ LastOffset(b, p) = b[k][2]
                    /\ \A i \in DOMAIN b : b[i][1] = p => b[i][2] <= LastOffset(b, p)
  <1> DEFINE offsets == Sub!StreamOffsets(b)
             last == LastOffset(b, p)
  <1>1. /\ DOMAIN b = 1..Len(b) /\ Len(b) \in 0..2
        /\ \A i \in DOMAIN b : b[i] \in Sub!Messages /\ b[i][2] \in Int
    <2>1. \A m \in Sub!Messages : m[2] \in Int
      BY DEF Sub!Messages
    <2>2. DOMAIN b = 1..Len(b) /\ Len(b) \in Nat
      OBVIOUS
    <2>3. \A i \in DOMAIN b : b[i] \in Sub!Messages
      BY <2>2
    <2> QED BY <2>1, <2>2, <2>3
  <1>2. offsets = {m \in Sub!Messages : \E i \in DOMAIN b : b[i] = m
          /\ \A j \in (i + 1)..Len(b) : b[j][1] # m[1]}
    BY DEF Sub!StreamOffsets
  <1> HIDE DEF offsets
  <1>3. ASSUME NEW i \in DOMAIN b, b[i][1] = p PROVE \E m \in offsets : m[1] = p
    <2>1. CASE \A j \in (i + 1)..Len(b) : b[j][1] # p
      BY <1>1, <1>2, <1>3, <2>1
    <2>2. CASE \E j \in (i + 1)..Len(b) : b[j][1] = p
      <3>1. i = 1 /\ Len(b) = 2 /\ b[2][1] = p
        BY <1>1, <2>2
      <3>2. \A j \in (2 + 1)..Len(b) : b[j][1] # p
        BY <3>1
      <3>3. 2 \in DOMAIN b /\ b[2] \in Sub!Messages
        BY <1>1, <3>1
      <3> QED BY <1>2, <3>1, <3>2, <3>3
    <2> QED BY <2>1, <2>2
  <1>4. ASSUME NEW m \in offsets PROVE \E i \in DOMAIN b : b[i] = m
    BY <1>2, <1>4
  <1>5. ASSUME \E i \in DOMAIN b : b[i][1] = p
        PROVE  \E k \in DOMAIN b :
                    /\ b[k][1] = p /\ last = b[k][2]
                    /\ \A i \in DOMAIN b : b[i][1] = p => b[i][2] <= last
    <2>1. PICK m : m = CHOOSE x \in offsets : x[1] = p
      OBVIOUS
    <2>2. m \in offsets /\ m[1] = p /\ last = m[2]
      BY <1>3, <1>5, <2>1 DEF LastOffset, offsets
    <2>3. PICK k \in DOMAIN b : b[k] = m /\ \A j \in (k + 1)..Len(b) : b[j][1] # m[1]
      BY <1>2, <2>2
    <2> HIDE DEF last
    <2>4. ASSUME NEW i \in DOMAIN b, b[i][1] = p PROVE b[i][2] <= last
      <3>1. i <= k
        BY <1>1, <2>2, <2>3, <2>4
      <3>2. CASE i = k
        BY <1>1, <2>2, <2>3, <3>2
      <3>3. CASE i < k
        BY <1>1, <2>2, <2>3, <2>4, <3>3 DEF Increasing
      <3> QED BY <1>1, <3>1, <3>2, <3>3
    <2> QED BY <2>2, <2>3, <2>4
  <1>6. (\E m \in offsets : m[1] = p) <=> \E i \in DOMAIN b : b[i][1] = p
    BY <1>3, <1>4
  <1> QED BY <1>5, <1>6, Zenon DEF offsets

-----------------------------------------------------------------------------
(* The polls *)

(* What holds of a task that polls.                                        *)
LEMMA PollFacts ==
    ASSUME StreamSubscriptionAssumption, Sub!TypeOK, PollInv
    PROVE  /\ None \notin Calls /\ MaxOffset \in Nat /\ contended \subseteq Calls
           /\ \A s \in Calls :
                /\ position[s] \in Sub!Offsets /\ committed[s] \in Sub!Offsets
                /\ \A p \in Partitions : position[s][p] \in Nat /\ committed[s][p] \in Nat
           /\ \A d \in Calls :
                /\ Consumed(d) /\ messages[d] \in Seq(Sub!Messages)
                /\ \A i \in DOMAIN messages[d] :
                    /\ messages[d][i] \in Sub!Messages /\ messages[d][i][1] \in Partitions
                    /\ messages[d][i][2] \in Nat /\ local[d] \in Calls
           /\ \A m \in sDelivered : m[1] \in Calls /\ m[2][1] \in Partitions /\ m[2][2] \in Nat
  <1>1. /\ None \notin Calls /\ MaxOffset \in Nat /\ contended \subseteq Calls
        /\ \A s \in Calls : position[s] \in Sub!Offsets /\ committed[s] \in Sub!Offsets
        /\ \A d \in Calls : messages[d] \in Seq(Sub!Messages) /\ local[d] \in Calls \cup {None}
        /\ sDelivered \subseteq Calls \X Sub!Messages
    BY DEF Sub!StreamSubscriptionAssumption, Sub!TypeOK
  <1>2. \A s \in Calls, p \in Partitions : position[s][p] \in Nat /\ committed[s][p] \in Nat
    BY <1>1 DEF Sub!Offsets
  <1>3. \A m \in Sub!Messages : m[1] \in Partitions /\ m[2] \in Nat
    BY DEF Sub!Messages
  <1>4. ASSUME NEW d \in Calls
        PROVE  /\ Consumed(d)
               /\ \A i \in DOMAIN messages[d] : messages[d][i] \in Sub!Messages
                    /\ local[d] \in Calls
    BY <1>1 DEF PollInv, Consumed
  <1>5. \A m \in sDelivered : m[1] \in Calls /\ m[2] \in Sub!Messages
    BY <1>1
  <1> QED BY <1>1, <1>2, <1>3, <1>4, <1>5

(* Poll has consumed: the batch, which begins where the last one ended.    *)
LEMMA ConsumeKeeps ==
    ASSUME StreamSubscriptionAssumption, Sub!TypeOK, PollInv, NEW c \in Calls,
           pc[c] = "consume", NEW s \in Calls, local[c] = s, NEW b \in Sub!Batches(position[s]),
           position' = [position EXCEPT ![s] = Sub!Beyond(@, b)],
           messages' = [messages EXCEPT ![c] = b],
           NEW l \in {"respond", "commit"}, Moves(c, l),
           \A d \in Calls \ {c} : result'[d] = result[d],
           l = "respond" /\ result'[c] = "ok" => b = <<>>,
           UNCHANGED <<local, committed, sDelivered, dropped, contended>>
    PROVE  PollInv'
  <1>1. /\ b \in Seq(Sub!Messages) /\ Increasing(b) /\ Len(b) <= 2
        /\ \A i \in DOMAIN b : /\ b[i] \in Sub!Messages /\ position[s][b[i][1]] < b[i][2]
                               /\ b[i][2] <= Sub!Beyond(position[s], b)[b[i][1]]
                               /\ b[i][1] \in Partitions /\ b[i][2] \in Nat
        /\ Sub!Beyond(position[s], b) \in Sub!Offsets
        /\ \A p \in Partitions : position[s][p] <= Sub!Beyond(position[s], b)[p]
        /\ \A m \in Sub!Messages :
                position[s][m[1]] < m[2] /\ m[2] <= Sub!Beyond(position[s], b)[m[1]] =>
                    \E i \in DOMAIN b : b[i] = m
    <2>1. \A m \in Sub!Messages : m[1] \in Partitions /\ m[2] \in Nat
      BY DEF Sub!Messages
    <2> QED BY <2>1, PollFacts, BatchInOrder
  <1>2. /\ position'[s] = Sub!Beyond(position[s], b)
             /\ \A u \in Calls \ {s} : position'[u] = position[u]
        /\ messages'[c] = b /\ \A d \in Calls \ {c} : messages'[d] = messages[d]
    BY DEF Sub!TypeOK
  <1>3. \A u \in Calls, p \in Partitions : position'[u][p] \in Nat
          /\ position[u][p] <= position'[u][p]
    <2>1. \A p \in Partitions : Sub!Beyond(position[s], b)[p] \in Nat
      BY <1>1, PollFacts DEF Sub!Offsets
    <2> QED BY <1>1, <1>2, <2>1, PollFacts
  <1>4. messages[c] = <<>> /\ DOMAIN messages[c] = {}
    BY PollFacts DEF Consumed
  <1>5. s # None
    BY PollFacts
  <1>6. ASSUME NEW d \in Calls PROVE Consumed(d)'
    <2>1. CASE d = c
      BY <1>1, <1>2, <1>5, <2>1 DEF Consumed, Moves
    <2>2. CASE d # c
      <3>1. Consumed(d)
        BY PollFacts
      <3>2. ASSUME NEW i \in DOMAIN messages[d]
            PROVE  LET m == messages[d][i] IN local[d] # None /\ m[2] <= position'[local[d]][m[1]]
        <4>1. messages[d][i][1] \in Partitions /\ messages[d][i][2] \in Nat /\ local[d] \in Calls
          BY PollFacts
        <4>2. messages[d][i][2] <= position[local[d]][messages[d][i][1]] /\ local[d] # None
          BY <3>1 DEF Consumed
        <4>3. /\ position[local[d]][messages[d][i][1]] \in Nat
              /\ position'[local[d]][messages[d][i][1]] \in Nat
              /\ position[local[d]][messages[d][i][1]] <= position'[local[d]][messages[d][i][1]]
          BY <1>3, <4>1, PollFacts
        <4> QED BY <4>1, <4>2, <4>3
      <3> QED BY <1>2, <2>2, <3>1, <3>2 DEF Consumed, Moves, Increasing
    <2> QED BY <2>1, <2>2
  <1>7. ASSUME NEW x \in Calls, NEW y \in Calls, x # y, Polling(x)', Polling(y)'
        PROVE  x \in contended'
    BY <1>7 DEF PollInv, Polling, Moves
  <1>8. ASSUME NEW u \in Calls PROVE CommittedInOrder(u)'
    <2>1. CommittedInOrder(u) /\ (PollsApart(u)' <=> PollsApart(u))
      BY DEF PollInv, PollsApart
    <2>2. ASSUME PollsApart(u), NEW d \in Calls, local[d] = u, NEW i \in DOMAIN messages'[d]
          PROVE  LET m == messages'[d][i] IN
                 /\ pc'[d] = "commit" => m[2] > committed[u][m[1]]
                 /\ pc'[d] = "respond" /\ result'[d] = "ok" => m[2] <= committed[u][m[1]]
      <3>1. CASE d = c
        <4>1. u = s /\ messages'[d] = b /\ i \in DOMAIN b
          BY <1>2, <2>2, <3>1
        <4>2. ~(l = "respond" /\ result'[c] = "ok")
          BY <4>1
        <4>3. committed[s][b[i][1]] <= position[s][b[i][1]]
          BY <1>1, <4>1 DEF PollInv, NothingMissed
        <4>4. committed[s][b[i][1]] < b[i][2]
          BY <1>1, <4>1, <4>3, PollFacts
        <4> QED BY <3>1, <4>1, <4>2, <4>4, PollFacts, <1>1 DEF Moves
      <3>2. CASE d # c
        BY <1>2, <2>1, <2>2, <3>2 DEF CommittedInOrder, Moves
      <3> QED BY <3>1, <3>2
    <2> QED BY <2>1, <2>2 DEF CommittedInOrder
  <1>9. ASSUME NEW u \in Calls PROVE NothingMissed(u)'
    <2>1. NothingMissed(u)
      BY DEF PollInv
    <2>2. \A p \in Partitions : committed[u][p] <= position'[u][p]
      BY <1>3, <2>1, PollFacts DEF NothingMissed
    <2>3. ASSUME NEW m \in Sub!Messages, Held(u, m) PROVE Held(u, m)'
      <3>1. PICK d \in Calls : /\ local[d] = u /\ pc[d] # "done"
                               /\ \E i \in DOMAIN messages[d] : messages[d][i] = m
        BY <2>3 DEF Held
      <3>2. d # c
        BY <1>4, <3>1
      <3> QED BY <1>2, <3>1, <3>2 DEF Held, Moves
    <2>4. ASSUME NEW m \in Sub!Messages, m[2] <= position'[u][m[1]]
          PROVE  <<u, m>> \in sDelivered \cup dropped \/ Held(u, m)'
      <3>1. CASE m[2] <= position[u][m[1]]
        BY <2>1, <2>3, <3>1 DEF NothingMissed
      <3>2. CASE ~(m[2] <= position[u][m[1]])
        <4>1. m[1] \in Partitions /\ m[2] \in Nat
          BY DEF Sub!Messages
        <4>2. u = s /\ m[2] <= Sub!Beyond(position[s], b)[m[1]]
          BY <1>2, <2>4, <3>2
        <4>3. position[s][m[1]] < m[2]
          BY <3>2, <4>1, <4>2, PollFacts
        <4>4. \E i \in DOMAIN b : b[i] = m
          BY <1>1, <4>2, <4>3
        <4> QED BY <1>2, <4>2, <4>4 DEF Held, Moves
      <3> QED BY <3>1, <3>2
    <2> QED BY <2>2, <2>4 DEF NothingMissed
  <1> QED BY <1>6, <1>7, <1>8, <1>9 DEF PollInv

(* Poll has committed: of each partition, what it has consumed last.       *)
LEMMA CommitKeeps ==
    ASSUME StreamSubscriptionAssumption, Sub!TypeOK, PollInv, NEW c \in Calls,
           pc[c] = "commit", NEW s \in Calls, local[c] = s,
           committed' = [committed EXCEPT ![s] =
                [p \in Partitions |->
                    IF \E m \in Sub!StreamOffsets(messages[c]) : m[1] = p
                    THEN LastOffset(messages[c], p) ELSE @[p]]],
           Moves(c, "respond"), \A d \in Calls \ {c} : result'[d] = result[d],
           UNCHANGED <<local, messages, position, sDelivered, dropped, contended>>
    PROVE  /\ PollInv'
           /\ \A p \in Partitions : committed'[s][p] \in 0..MaxOffset
  <1> DEFINE b == messages[c]
             new == [p \in Partitions |->
                        IF \E m \in Sub!StreamOffsets(b) : m[1] = p
                        THEN LastOffset(b, p)
                        ELSE committed[s][p]]
  <1>1. /\ b \in Seq(Sub!Messages) /\ Increasing(b) /\ Len(b) <= 2
        /\ \A i \in DOMAIN b : /\ b[i] \in Sub!Messages /\ b[i][1] \in Partitions /\ b[i][2] \in Nat
                               /\ b[i][2] <= position[s][b[i][1]]
    BY PollFacts DEF Consumed
  <1>2. committed'[s] = new /\ \A u \in Calls \ {s} : committed'[u] = committed[u]
    BY DEF Sub!TypeOK
  <1>3. ASSUME NEW p \in Partitions
        PROVE  \/ (\A i \in DOMAIN b : b[i][1] # p) /\ new[p] = committed[s][p]
               \/ \E k \in DOMAIN b : /\ b[k][1] = p /\ new[p] = b[k][2]
                                      /\ \A i \in DOMAIN b : b[i][1] = p => b[i][2] <= new[p]
    <2>1. /\ (\E m \in Sub!StreamOffsets(b) : m[1] = p) <=> \E i \in DOMAIN b : b[i][1] = p
          /\ (\E i \in DOMAIN b : b[i][1] = p) =>
                \E k \in DOMAIN b :
                    /\ b[k][1] = p /\ LastOffset(b, p) = b[k][2]
                    /\ \A i \in DOMAIN b : b[i][1] = p =>
                            b[i][2] <= LastOffset(b, p)
      BY <1>1, LastOffsets
    <2>2. CASE \E i \in DOMAIN b : b[i][1] = p
      <3>1. new[p] = LastOffset(b, p)
        BY <2>1, <2>2, Zenon
      <3> QED BY <2>1, <2>2, <3>1, Zenon
    <2>3. CASE ~\E i \in DOMAIN b : b[i][1] = p
      <3>1. new[p] = committed[s][p]
        BY <2>1, <2>3, Zenon
      <3> QED BY <2>3, <3>1, Zenon
    <2> QED BY <2>2, <2>3
  <1> HIDE DEF b, new
  <1>4. \A p \in Partitions : new[p] \in Nat /\ new[p] <= position[s][p]
    <2> SUFFICES ASSUME NEW p \in Partitions PROVE new[p] \in Nat /\ new[p] <= position[s][p]
      OBVIOUS
    <2>1. committed[s][p] \in Nat /\ committed[s][p] <= position[s][p]
      BY PollFacts DEF PollInv, NothingMissed
    <2> QED BY <1>1, <1>3, <2>1
  <1>5. ASSUME PollsApart(s) PROVE \A p \in Partitions : committed[s][p] <= new[p]
    <2>1. \A i \in DOMAIN b : b[i][2] > committed[s][b[i][1]]
      BY <1>5 DEF PollInv, CommittedInOrder, b
    <2> QED BY <1>1, <1>3, <2>1, PollFacts
  <1>6. \A i \in DOMAIN b : b[i][2] <= new[b[i][1]]
    BY <1>1, <1>3
  <1>7. ASSUME NEW d \in Calls PROVE Consumed(d)'
    BY <1>7, PollFacts DEF Consumed, Moves, Increasing
  <1>8. ASSUME NEW x \in Calls, NEW y \in Calls, x # y, Polling(x)', Polling(y)'
        PROVE  x \in contended'
    BY <1>8 DEF PollInv, Polling, Moves
  <1>9. ASSUME NEW u \in Calls PROVE CommittedInOrder(u)'
    <2>1. CommittedInOrder(u) /\ (PollsApart(u)' <=> PollsApart(u))
      BY DEF PollInv, PollsApart
    <2>2. CASE u # s
      <3>1. \A d \in Calls : local[d] = u => pc'[d] = pc[d] /\ result'[d] = result[d]
        BY <2>2 DEF Moves
      <3> QED BY <1>2, <2>1, <2>2, <3>1 DEF CommittedInOrder
    <2>3. CASE u = s
      <3>1. ASSUME PollsApart(s), NEW d \in Calls, local[d] = s, NEW i \in DOMAIN messages[d]
            PROVE  LET m == messages[d][i] IN
                   /\ pc'[d] = "commit" => m[2] > new[m[1]]
                   /\ pc'[d] = "respond" /\ result'[d] = "ok" => m[2] <= new[m[1]]
        <4>1. CASE d = c
          BY <1>6, <3>1, <4>1 DEF Moves, b
        <4>2. CASE d # c
          <5>1. pc'[d] = pc[d] /\ pc[d] # "commit" /\ result'[d] = result[d]
            BY <3>1, <4>2 DEF PollInv, Polling, PollsApart, Moves
          <5>2. messages[d][i][1] \in Partitions /\ messages[d][i][2] \in Nat
            BY PollFacts
          <5>3. pc[d] = "respond" /\ result[d] = "ok" =>
                    messages[d][i][2] <= committed[s][messages[d][i][1]]
            BY <2>1, <2>3, <3>1 DEF CommittedInOrder
          <5>4. /\ committed[s][messages[d][i][1]] <= new[messages[d][i][1]]
                /\ committed[s][messages[d][i][1]] \in Nat /\ new[messages[d][i][1]] \in Nat
            BY <1>4, <1>5, <3>1, <5>2, PollFacts
          <5> QED BY <5>1, <5>2, <5>3, <5>4
        <4> QED BY <4>1, <4>2
      <3>2. ASSUME PollsApart(s), NEW m \in sDelivered, m[1] = s
            PROVE  m[2][2] <= new[m[2][1]]
        <4>1. m[2][1] \in Partitions /\ m[2][2] \in Nat
          BY PollFacts
        <4>2. m[2][2] <= committed[s][m[2][1]]
          BY <2>1, <2>3, <3>2 DEF CommittedInOrder
        <4>3. /\ committed[s][m[2][1]] <= new[m[2][1]]
              /\ committed[s][m[2][1]] \in Nat /\ new[m[2][1]] \in Nat
          BY <1>4, <1>5, <3>2, <4>1, PollFacts
        <4> QED BY <4>1, <4>2, <4>3
      <3> QED BY <1>2, <2>1, <2>3, <3>1, <3>2 DEF CommittedInOrder
    <2> QED BY <2>2, <2>3
  <1>10. ASSUME NEW u \in Calls PROVE NothingMissed(u)'
    <2>1. NothingMissed(u)
      BY DEF PollInv
    <2>2. \A p \in Partitions : committed'[u][p] <= position[u][p]
      BY <1>2, <1>4, <2>1 DEF NothingMissed
    <2>3. ASSUME NEW m, Held(u, m) PROVE Held(u, m)'
      BY <2>3 DEF Held, Moves
    <2> QED BY <2>1, <2>2, <2>3 DEF NothingMissed
  <1>11. \A p \in Partitions : committed'[s][p] \in 0..MaxOffset
    <2>1. \A p \in Partitions : position[s][p] \in 0..MaxOffset
      BY PollFacts DEF Sub!Offsets
    <2> QED BY <1>2, <1>4, <2>1, PollFacts
  <1> QED BY <1>7, <1>8, <1>9, <1>10, <1>11 DEF PollInv

(* The callback of a call gets what its task has consumed, or nobody does. *)
LEMMA RespondKeeps ==
    ASSUME StreamSubscriptionAssumption, Sub!TypeOK, PollInv, NEW c \in Calls,
           pc[c] = "respond", Moves(c, "done"),
           NEW consumed, consumed = {<<local[c], messages[c][i]>> : i \in DOMAIN messages[c]},
           \/ result[c] = "ok" /\ sDelivered' = sDelivered \cup consumed /\ dropped' = dropped
           \/ dropped' = dropped \cup consumed /\ sDelivered' = sDelivered,
           UNCHANGED <<local, messages, result, position, committed, contended>>
    PROVE  PollInv'
  <1>1. ASSUME NEW d \in Calls PROVE Consumed(d)'
    BY <1>1, PollFacts DEF Consumed, Moves, Increasing
  <1>2. ASSUME NEW x \in Calls, NEW y \in Calls, x # y, Polling(x)', Polling(y)'
        PROVE  x \in contended'
    BY <1>2 DEF PollInv, Polling, Moves
  <1>3. ASSUME NEW u \in Calls PROVE CommittedInOrder(u)'
    <2>1. CommittedInOrder(u) /\ (PollsApart(u)' <=> PollsApart(u))
      BY DEF PollInv, PollsApart
    <2>2. ASSUME PollsApart(u), NEW m \in sDelivered', m[1] = u
          PROVE  m[2][2] <= committed[u][m[2][1]]
      <3>1. CASE m \in sDelivered
        BY <2>1, <2>2, <3>1 DEF CommittedInOrder
      <3>2. CASE m \notin sDelivered
        <4>1. PICK i \in DOMAIN messages[c] : m = <<local[c], messages[c][i]>>
          BY <2>2, <3>2
        <4>2. local[c] = u /\ m[2] = messages[c][i] /\ result[c] = "ok"
          BY <2>2, <3>2, <4>1
        <4> QED BY <2>1, <2>2, <4>2 DEF CommittedInOrder
      <3> QED BY <3>1, <3>2
    <2>3. \A d \in Calls : pc'[d] # "done" => pc'[d] = pc[d]
      BY DEF Moves
    <2> QED BY <2>1, <2>2, <2>3 DEF CommittedInOrder
  <1>4. ASSUME NEW u \in Calls PROVE NothingMissed(u)'
    <2>1. NothingMissed(u)
      BY DEF PollInv
    <2>2. ASSUME NEW m, Held(u, m) PROVE <<u, m>> \in consumed \/ Held(u, m)'
      BY <2>2 DEF Held, Moves
    <2>3. sDelivered' \cup dropped' = sDelivered \cup dropped \cup consumed
      OBVIOUS
    <2> QED BY <2>1, <2>2, <2>3 DEF NothingMissed
  <1> QED BY <1>1, <1>2, <1>3, <1>4 DEF PollInv

(* Poll starts with the context that it finds, and whether it is alone.    *)
LEMMA PollStartKeeps ==
    ASSUME StreamSubscriptionAssumption, Sub!TypeOK, SubscribeInv, PollInv, NEW c \in Calls,
           pc[c] = "Poll", local' = [local EXCEPT ![c] = client_context], Moves(c, "consume"),
           Sub!Contends(c, {"consume", "commit"}),
           UNCHANGED <<messages, result, position, committed, sDelivered, dropped>>
    PROVE  PollInv'
  <1>1. messages[c] = <<>> /\ local[c] = None
    BY PollFacts, Copies DEF Consumed, Copied, Waiting
  <1>2. \A d \in Calls \ {c} : Polling(d) => c \in contended' /\ d \in contended'
    BY DEF Sub!Contends, Polling
  <1>3. contended \subseteq contended'
    BY DEF Sub!Contends
  <1>4. ASSUME NEW x \in Calls, NEW y \in Calls, x # y, Polling(x)', Polling(y)'
        PROVE  x \in contended'
    <2>1. CASE x = c \/ y = c
      BY <1>2, <1>4, <2>1 DEF Polling, Moves
    <2>2. CASE x # c /\ y # c
      BY <1>3, <1>4, <2>2 DEF PollInv, Polling, Moves
    <2> QED BY <2>1, <2>2
  <1>5. \A d \in Calls \ {c} : local'[d] = local[d] /\ result'[d] = result[d]
    BY DEF Sub!TypeOK
  <1> QED BY <1>1, <1>3, <1>4, <1>5, PollFrame

-----------------------------------------------------------------------------
(* The steps of the client                                                 *)

(* The types of what a step changes, of the state of the tasks and of the  *)
(* subscriptions.                                                          *)
LEMMA StreamTypes ==
    ASSUME Sub!TypeOK, NEW c \in Calls,
           NEW l \in {"Subscribe", "Unsubscribe", "Poll", "request", "update", "delete", "reset",
                      "consume", "commit", "respond", "done"},
           Sub!GoTo(c, l),
           result' = result \/ result' = [result EXCEPT ![c] = "ok"]
                            \/ result' = [result EXCEPT ![c] = "error"],
           local' = local \/ \E x \in Calls \cup {None} : local' = [local EXCEPT ![c] = x],
           client_context' \in Calls \cup {None},
           subscriptions' \subseteq Calls, unreported' \subseteq Calls,
           contended' = contended \/ \E labels : Sub!Contends(c, labels),
           messages' \in [Calls -> Seq(Sub!Messages)], sCancelled' = sCancelled,
           position' \in [Calls -> Sub!Offsets], committed' \in [Calls -> Sub!Offsets],
           sDelivered' \subseteq Calls \X Sub!Messages, dropped' \subseteq Calls \X Sub!Messages
    PROVE  (Sub!TypeOK)'
  <1>1. pc' \in [Calls -> {"idle", "Subscribe", "Unsubscribe", "Poll", "request", "update",
                           "delete", "reset", "consume", "commit", "respond", "done"}]
    BY DEF Sub!TypeOK, Sub!GoTo
  <1>2. result' \in [Calls -> {"ok", "error"}]
    BY DEF Sub!TypeOK
  <1>3. local' \in [Calls -> Calls \cup {None}]
    BY DEF Sub!TypeOK
  <1>4. contended' \subseteq Calls
    BY DEF Sub!TypeOK, Sub!Contends
  <1>5. sCancelled' \in [Calls -> BOOLEAN]
    BY DEF Sub!TypeOK
  <1> QED BY <1>1, <1>2, <1>3, <1>4, <1>5, SMTT(30) DEF Sub!TypeOK

(* What the state of the service and of the histories is.                  *)
LEMMA StreamTypeFacts ==
    ASSUME Sub!TypeOK
    PROVE  /\ client_context \in Calls \cup {None}
           /\ subscriptions \subseteq Calls /\ unreported \subseteq Calls
           /\ messages \in [Calls -> Seq(Sub!Messages)]
           /\ position \in [Calls -> Sub!Offsets] /\ committed \in [Calls -> Sub!Offsets]
           /\ sDelivered \subseteq Calls \X Sub!Messages /\ dropped \subseteq Calls \X Sub!Messages
  BY DEF Sub!TypeOK

(* A call begins or ends, or its token is cancelled.                       *)
LEMMA CallStep ==
    ASSUME StreamSubscriptionAssumption, StreamInv, NEW c \in Calls,
           Sub!Call(c) \/ Sub!Cancel(c) \/ Sub!Skip(c) \/ Sub!Respond(c)
    PROVE  StreamInv'
  <1>1. Sub!TypeOK /\ SubscribeInv /\ PollInv
    BY DEF StreamInv
  <1>2. CASE Sub!Call(c)
    <2>1. PICK l \in {"Subscribe", "Unsubscribe", "Poll"} : Sub!GoTo(c, l)
      BY <1>2 DEF Sub!Call
    <2>2. /\ Moves(c, l) /\ pc[c] = "idle"
          /\ UNCHANGED <<client_context, local, messages, result, sCancelled, subscriptions,
                         position, committed, sDelivered, dropped, unreported, contended>>
      BY <1>1, <1>2, <2>1, Going DEF Sub!Call, Sub!service, Sub!history
    <2>3. (Sub!TypeOK)'
      BY <1>1, <2>1, <2>2, StreamTypes, StreamTypeFacts
    <2>4. SubscribeInv'
      BY <1>1, <2>2, SubscribeFrame
    <2>5. messages[c] = <<>>
      BY <1>1, <2>2, PollFacts DEF Consumed
    <2>6. \A a, b \in Calls : a # b /\ Polling(a)' /\ Polling(b)' => a \in contended'
      BY <1>1, <2>2 DEF PollInv, Polling, Moves
    <2>7. PollInv'
      BY <1>1, <2>2, <2>5, <2>6, PollFrame
    <2> QED BY <2>3, <2>4, <2>7 DEF StreamInv
  <1>3. CASE Sub!Cancel(c)
    <2>1. UNCHANGED <<client_context, pc, local, messages, result, subscriptions, position,
                      committed, sDelivered, dropped, unreported, contended>>
      BY <1>3 DEF Sub!Cancel, Sub!service, Sub!history
    <2>2. sCancelled' \in [Calls -> BOOLEAN]
      BY <1>1, <1>3 DEF Sub!Cancel, Sub!TypeOK
    <2>3. (Sub!TypeOK)'
      BY <1>1, <2>1, <2>2 DEF Sub!TypeOK
    <2>4. SubscribeInv'
      BY <1>1, <2>1 DEF SubscribeInv, DeletedOnce, Copied, Alone, ResetsOwn, Waiting, Subscribing,
                        Working, Over, Sub!NoOrphan, Sub!ContextIsLive, Sub!SubscribesApart
    <2>5. PollInv'
      BY <1>1, <2>1 DEF PollInv, Consumed, Increasing, Polling, CommittedInOrder, PollsApart,
                        NothingMissed, Held
    <2> QED BY <2>3, <2>4, <2>5 DEF StreamInv
  <1>4. CASE Sub!Skip(c)
    <2>1. /\ Moves(c, "respond") /\ result' = [result EXCEPT ![c] = "error"]
               /\ Sub!GoTo(c, "respond")
          /\ pc[c] \in {"Subscribe", "Unsubscribe", "Poll"}
          /\ UNCHANGED <<client_context, local, messages, sCancelled, subscriptions, position,
                         committed, sDelivered, dropped, unreported, contended>>
      BY <1>1, <1>4, Going DEF Sub!Skip, Sub!Return, Sub!service, Sub!history
    <2>2. (Sub!TypeOK)'
      BY <1>1, <2>1, StreamTypes, StreamTypeFacts
    <2>3. SubscribeInv'
      BY <1>1, <2>1, SubscribeFrame
    <2>4. messages[c] = <<>>
      BY <1>1, <2>1, PollFacts DEF Consumed
    <2>5. \A a, b \in Calls : a # b /\ Polling(a)' /\ Polling(b)' => a \in contended'
      BY <1>1, <2>1 DEF PollInv, Polling, Moves
    <2>6. \A d \in Calls \ {c} : local'[d] = local[d] /\ result'[d] = result[d]
      BY <1>1, <2>1 DEF Sub!TypeOK
    <2>7. PollInv'
      BY <1>1, <2>1, <2>4, <2>5, <2>6, PollFrame
    <2> QED BY <2>2, <2>3, <2>7 DEF StreamInv
  <1>5. CASE Sub!Respond(c)
    <2>1. PICK consumed : consumed = {<<local[c], messages[c][i]>> : i \in DOMAIN messages[c]}
      OBVIOUS
    <2>2. /\ \/ result[c] = "ok" /\ sDelivered' = sDelivered \cup consumed /\ dropped' = dropped
             \/ dropped' = dropped \cup consumed /\ sDelivered' = sDelivered
          /\ Moves(c, "done") /\ pc[c] = "respond" /\ Sub!GoTo(c, "done")
          /\ UNCHANGED <<client_context, local, messages, result, sCancelled, subscriptions,
                         position, committed, unreported, contended>>
      BY <1>1, <1>5, <2>1, Going DEF Sub!Respond, Sub!service
    <2>3. consumed \subseteq Calls \X Sub!Messages
      BY <1>1, <2>1, PollFacts
    <2>4. (Sub!TypeOK)'
      BY <1>1, <2>2, <2>3, StreamTypes, StreamTypeFacts
    <2>5. SubscribeInv'
      BY <1>1, <2>2, SubscribeFrame
    <2>6. PollInv'
      BY <1>1, <2>1, <2>2, RespondKeeps
    <2> QED BY <2>4, <2>5, <2>6 DEF StreamInv
  <1> QED BY <1>2, <1>3, <1>4, <1>5

(* A step of a task that has no messages, and that goes on without any.    *)
LEMMA EmptyFrame ==
    ASSUME StreamSubscriptionAssumption, Sub!TypeOK, SubscribeInv, PollInv, NEW c \in Calls,
           pc[c] \notin {"commit", "respond", "done"},
           NEW l, l \notin {"consume", "commit"}, Moves(c, l),
           result' = result \/ result' = [result EXCEPT ![c] = "ok"]
                            \/ result' = [result EXCEPT ![c] = "error"],
           \/ local' = local
           \/ Waiting(c) /\ \E x : local' = [local EXCEPT ![c] = x],
           contended \subseteq contended',
           UNCHANGED <<messages, position, committed, sDelivered, dropped>>
    PROVE  PollInv'
  <1>1. messages[c] = <<>>
    BY PollFacts DEF Consumed
  <1>2. \A d \in Calls \ {c} : local'[d] = local[d] /\ result'[d] = result[d]
    BY DEF Sub!TypeOK
  <1>3. local[c] # None => local'[c] = local[c]
    BY Copies DEF Copied
  <1>4. \A a, b \in Calls : a # b /\ Polling(a)' /\ Polling(b)' => a \in contended'
    BY DEF PollInv, Polling, Moves
  <1> QED BY <1>1, <1>2, <1>3, <1>4, PollFrame

(* What a request leaves as it is, and what a failure does.                *)
LEMMA Failing ==
    ASSUME Sub!TypeOK, NEW c \in Calls, Sub!Fails(c)
    PROVE  /\ Moves(c, "respond") /\ Sub!GoTo(c, "respond")
           /\ result' = [result EXCEPT ![c] = "error"] /\ result'[c] = "error"
           /\ \A d \in Calls \ {c} : result'[d] = result[d]
  <1>1. Sub!GoTo(c, "respond") /\ result' = [result EXCEPT ![c] = "error"]
    BY DEF Sub!Fails, Sub!Return
  <1> QED BY <1>1, Going DEF Sub!TypeOK

(* Subscribe.                                                              *)
LEMMA SubscribeStep ==
    ASSUME StreamSubscriptionAssumption, StreamInv, NEW c \in Calls,
           Sub!SubscribeStart(c) \/ Sub!SubscribeRequest(c) \/ Sub!SubscribeUpdate(c)
    PROVE  StreamInv'
  <1>1. Sub!TypeOK /\ SubscribeInv /\ PollInv
    BY DEF StreamInv
  <1>2. CASE Sub!SubscribeStart(c)
    <2>1. /\ pc[c] = "Subscribe"
          /\ UNCHANGED <<client_context, local, messages, sCancelled, subscriptions, position,
                         committed, sDelivered, dropped, unreported>>
      BY <1>2 DEF Sub!SubscribeStart, Sub!service
    <2>2. CASE /\ client_context = None /\ Sub!GoTo(c, "request") /\ result' = result
               /\ Sub!Contends(c, {"request", "update"})
      <3>1. Moves(c, "request") /\ contended \subseteq contended'
        BY <1>1, <2>2, Going DEF Sub!Contends
      <3>2. (Sub!TypeOK)'
        BY <1>1, <2>1, <2>2, StreamTypes, StreamTypeFacts
      <3>3. SubscribeInv'
        BY <1>1, <2>1, <2>2, <3>1, StartKeeps
      <3>4. PollInv'
        BY <1>1, <2>1, <2>2, <3>1, EmptyFrame
      <3> QED BY <3>2, <3>3, <3>4 DEF StreamInv
    <2>3. CASE Sub!Fails(c) /\ contended' = contended
      <3>1. (Sub!TypeOK)'
        BY <1>1, <2>1, <2>3, Failing, StreamTypes, StreamTypeFacts
      <3>2. SubscribeInv'
        BY <1>1, <2>1, <2>3, Failing, SubscribeFrame
      <3>3. PollInv'
        BY <1>1, <2>1, <2>3, Failing, EmptyFrame
      <3> QED BY <3>1, <3>2, <3>3 DEF StreamInv
    <2> QED BY <1>2, <2>2, <2>3 DEF Sub!SubscribeStart, Sub!CheckSubscribed, Sub!Fails
  <1>3. CASE Sub!SubscribeRequest(c)
    <2>1. /\ pc[c] = "request" /\ Waiting(c)
          /\ UNCHANGED <<client_context, messages, sCancelled, position, committed, sDelivered,
                         dropped, contended>>
      BY <1>3 DEF Sub!SubscribeRequest, Waiting
    <2>2. CASE /\ subscriptions' = subscriptions \cup {c}
               /\ local' = [local EXCEPT ![c] = c] /\ Sub!GoTo(c, "update")
               /\ UNCHANGED <<result, unreported>>
      <3>1. Moves(c, "update")
        BY <1>1, <2>2, Going
      <3>2. (Sub!TypeOK)'
        BY <1>1, <2>1, <2>2, StreamTypes, StreamTypeFacts
      <3>3. SubscribeInv'
        BY <1>1, <2>1, <2>2, <3>1, RequestKeeps
      <3>4. PollInv'
        BY <1>1, <2>1, <2>2, <3>1, EmptyFrame
      <3> QED BY <3>2, <3>3, <3>4 DEF StreamInv
    <2>3. CASE /\ subscriptions' = subscriptions \cup {c} /\ Sub!Fails(c)
               /\ unreported' = unreported \cup {c} /\ local' = local
      <3>1. (Sub!TypeOK)'
        BY <1>1, <2>1, <2>3, Failing, StreamTypes, StreamTypeFacts
      <3>2. SubscribeInv'
        BY <1>1, <2>1, <2>3, Failing, RequestKeeps
      <3>3. PollInv'
        BY <1>1, <2>1, <2>3, Failing, EmptyFrame
      <3> QED BY <3>1, <3>2, <3>3 DEF StreamInv
    <2>4. CASE Sub!Fails(c) /\ UNCHANGED <<subscriptions, local, unreported>>
      <3>1. (Sub!TypeOK)'
        BY <1>1, <2>1, <2>4, Failing, StreamTypes, StreamTypeFacts
      <3>2. SubscribeInv'
        BY <1>1, <2>1, <2>4, Failing, SubscribeFrame
      <3>3. PollInv'
        BY <1>1, <2>1, <2>4, Failing, EmptyFrame
      <3> QED BY <3>1, <3>2, <3>3 DEF StreamInv
    <2> QED BY <1>3, <2>2, <2>3, <2>4 DEF Sub!SubscribeRequest
  <1>4. CASE Sub!SubscribeUpdate(c)
    <2>1. /\ pc[c] = "update" /\ client_context' = local[c]
          /\ Moves(c, "respond") /\ Sub!GoTo(c, "respond") /\ result' = [result EXCEPT ![c] = "ok"]
          /\ UNCHANGED <<local, messages, sCancelled, subscriptions, position, committed,
                         sDelivered, dropped, unreported, contended>>
      BY <1>1, <1>4, Going DEF Sub!SubscribeUpdate, Sub!Return, Sub!service, Sub!history
    <2>2. local[c] \in Calls \cup {None}
      BY <1>1, Copies
    <2>3. (Sub!TypeOK)'
      BY <1>1, <2>1, <2>2, StreamTypes, StreamTypeFacts
    <2>4. SubscribeInv'
      BY <1>1, <2>1, UpdateKeeps
    <2>5. PollInv'
      BY <1>1, <2>1, EmptyFrame
    <2> QED BY <2>3, <2>4, <2>5 DEF StreamInv
  <1> QED BY <1>2, <1>3, <1>4

(* Unsubscribe and Poll start alike.                                       *)
LEMMA ReadContextStep ==
    ASSUME StreamSubscriptionAssumption, StreamInv, NEW c \in Calls,
           Sub!ReadContext(c, "Unsubscribe", "delete") \/ Sub!ReadContext(c, "Poll", "consume")
    PROVE  StreamInv'
  <1>1. Sub!TypeOK /\ SubscribeInv /\ PollInv
    BY DEF StreamInv
  <1>2. /\ pc[c] \in {"Unsubscribe", "Poll"} /\ Waiting(c)
        /\ UNCHANGED <<client_context, messages, sCancelled, subscriptions, position, committed,
                       sDelivered, dropped, unreported>>
    BY DEF Sub!ReadContext, Sub!service, Waiting
  <1>3. CASE Sub!Fails(c) /\ UNCHANGED <<local, contended>>
    <2>1. (Sub!TypeOK)'
      BY <1>1, <1>2, <1>3, Failing, StreamTypes, StreamTypeFacts
    <2>2. SubscribeInv'
      BY <1>1, <1>2, <1>3, Failing, SubscribeFrame
    <2>3. PollInv'
      BY <1>1, <1>2, <1>3, Failing, EmptyFrame
    <2> QED BY <2>1, <2>2, <2>3 DEF StreamInv
  <1>4. CASE /\ client_context # None /\ local' = [local EXCEPT ![c] = client_context]
             /\ result' = result
             /\ \/ pc[c] = "Unsubscribe" /\ Sub!GoTo(c, "delete") /\ contended' = contended
                \/ /\ pc[c] = "Poll" /\ Sub!GoTo(c, "consume")
                   /\ Sub!Contends(c, {"consume", "commit"})
    <2>1. PICK l \in {"delete", "consume"} : Sub!GoTo(c, l)
                 /\ (l = "delete" <=> pc[c] = "Unsubscribe")
      BY <1>4
    <2>2. Moves(c, l) /\ contended \subseteq contended'
      BY <1>1, <1>4, <2>1, Going DEF Sub!Contends
    <2>3. (Sub!TypeOK)'
      BY <1>1, <1>2, <1>4, <2>1, StreamTypes, StreamTypeFacts
    <2>4. SubscribeInv'
      BY <1>1, <1>2, <1>4, <2>2, CopyKeeps
    <2>5. PollInv'
      <3>1. CASE l = "delete"
        BY <1>1, <1>2, <1>4, <2>2, <3>1, EmptyFrame
      <3>2. CASE l = "consume"
        BY <1>1, <1>2, <1>4, <2>1, <2>2, <3>2, PollStartKeeps
      <3> QED BY <3>1, <3>2
    <2> QED BY <2>3, <2>4, <2>5 DEF StreamInv
  <1> QED BY <1>3, <1>4 DEF Sub!ReadContext, Sub!Fails

(* Unsubscribe.                                                            *)
LEMMA UnsubscribeStep ==
    ASSUME StreamSubscriptionAssumption, StreamInv, NEW c \in Calls,
           Sub!DeleteSubscription(c) \/ Sub!UnsubscribeUpdate(c)
    PROVE  StreamInv'
  <1>1. Sub!TypeOK /\ SubscribeInv /\ PollInv
    BY DEF StreamInv
  <1>2. CASE Sub!DeleteSubscription(c)
    <2>1. /\ pc[c] = "delete"
          /\ UNCHANGED <<client_context, local, messages, sCancelled, position, committed,
                         sDelivered, dropped, contended>>
      BY <1>2 DEF Sub!DeleteSubscription
    <2>2. CASE /\ local[c] \in subscriptions /\ subscriptions' = subscriptions \ {local[c]}
               /\ Sub!GoTo(c, "reset") /\ UNCHANGED <<result, unreported>>
      <3>1. Moves(c, "reset")
        BY <1>1, <2>2, Going
      <3>2. (Sub!TypeOK)'
        BY <1>1, <2>1, <2>2, StreamTypes, StreamTypeFacts
      <3>3. SubscribeInv'
        BY <1>1, <2>1, <2>2, <3>1, DeleteKeeps
      <3>4. PollInv'
        BY <1>1, <2>1, <2>2, <3>1, EmptyFrame
      <3> QED BY <3>2, <3>3, <3>4 DEF StreamInv
    <2>3. CASE /\ local[c] \in subscriptions /\ subscriptions' = subscriptions \ {local[c]}
               /\ Sub!Fails(c) /\ unreported' = unreported \cup {local[c]}
      <3>1. unreported' \subseteq Calls
        BY <1>1, <2>3, StreamTypeFacts
      <3>2. (Sub!TypeOK)'
        BY <1>1, <2>1, <2>3, <3>1, Failing, StreamTypes, StreamTypeFacts
      <3>3. SubscribeInv'
        BY <1>1, <2>1, <2>3, Failing, DeleteKeeps
      <3>4. PollInv'
        BY <1>1, <2>1, <2>3, Failing, EmptyFrame
      <3> QED BY <3>2, <3>3, <3>4 DEF StreamInv
    <2>4. CASE Sub!Fails(c) /\ UNCHANGED <<subscriptions, unreported>>
      <3>1. (Sub!TypeOK)'
        BY <1>1, <2>1, <2>4, Failing, StreamTypes, StreamTypeFacts
      <3>2. SubscribeInv'
        BY <1>1, <2>1, <2>4, Failing, SubscribeFrame
      <3>3. PollInv'
        BY <1>1, <2>1, <2>4, Failing, EmptyFrame
      <3> QED BY <3>1, <3>2, <3>3 DEF StreamInv
    <2> QED BY <1>2, <2>2, <2>3, <2>4 DEF Sub!DeleteSubscription
  <1>3. CASE Sub!UnsubscribeUpdate(c)
    <2>1. /\ pc[c] = "reset" /\ client_context' = None
          /\ Moves(c, "respond") /\ Sub!GoTo(c, "respond") /\ result' = [result EXCEPT ![c] = "ok"]
          /\ UNCHANGED <<local, messages, sCancelled, subscriptions, position, committed,
                         sDelivered, dropped, unreported, contended>>
      BY <1>1, <1>3, Going DEF Sub!UnsubscribeUpdate, Sub!Return, Sub!service, Sub!history
    <2>2. (Sub!TypeOK)'
      BY <1>1, <2>1, StreamTypes, StreamTypeFacts
    <2>3. SubscribeInv'
      BY <1>1, <2>1, ResetKeeps
    <2>4. PollInv'
      BY <1>1, <2>1, EmptyFrame
    <2> QED BY <2>2, <2>3, <2>4 DEF StreamInv
  <1> QED BY <1>2, <1>3

(* Poll, after its start.                                                  *)
LEMMA PollStep ==
    ASSUME StreamSubscriptionAssumption, StreamInv, NEW c \in Calls,
           Sub!ConsumeData(c) \/ Sub!CommitOffsets(c)
    PROVE  StreamInv'
  <1>1. Sub!TypeOK /\ SubscribeInv /\ PollInv
    BY DEF StreamInv
  <1>2. local[c] \in Calls
    BY <1>1, Copies DEF Copied, Working, Sub!ConsumeData, Sub!CommitOffsets
  <1>3. CASE Sub!ConsumeData(c)
    <2>1. /\ pc[c] = "consume"
          /\ UNCHANGED <<client_context, local, sCancelled, subscriptions, committed, sDelivered,
                         dropped, unreported, contended>>
      BY <1>3 DEF Sub!ConsumeData, Sub!history
    <2>2. CASE Sub!Fails(c) /\ UNCHANGED <<position, messages>>
      <3>1. (Sub!TypeOK)'
        BY <1>1, <2>1, <2>2, Failing, StreamTypes, StreamTypeFacts
      <3>2. SubscribeInv'
        BY <1>1, <2>1, <2>2, Failing, SubscribeFrame
      <3>3. PollInv'
        BY <1>1, <2>1, <2>2, Failing, EmptyFrame
      <3> QED BY <3>1, <3>2, <3>3 DEF StreamInv
    <2>3. ASSUME NEW b \in Sub!Batches(position[local[c]]),
                 position' = [position EXCEPT ![local[c]] = Sub!Beyond(@, b)],
                 messages' = [messages EXCEPT ![c] = b],
                 \/ b = <<>> /\ Sub!Return(c, "ok")
                 \/ Sub!GoTo(c, "commit") /\ result' = result
                 \/ Sub!Fails(c)
          PROVE  StreamInv'
      <3>1. \A d \in Calls \ {c} : result'[d] = result[d]
        BY <1>1, <2>3, Failing DEF Sub!Return, Sub!TypeOK
      <3>2. PICK l \in {"respond", "commit"} :
                /\ Moves(c, l) /\ Sub!GoTo(c, l)
                /\ l = "respond" /\ result'[c] = "ok" => b = <<>>
        BY <1>1, <2>3, Failing, Going DEF Sub!Return
      <3>3. result' = result \/ result' = [result EXCEPT ![c] = "ok"]
                             \/ result' = [result EXCEPT ![c] = "error"]
        BY <2>3 DEF Sub!Return, Sub!Fails
      <3>4. b \in Seq(Sub!Messages) /\ Sub!Beyond(position[local[c]], b) \in Sub!Offsets
        BY <1>1, <1>2, <2>3, PollFacts, BatchInOrder
      <3>5. /\ position' \in [Calls -> Sub!Offsets]
            /\ messages' \in [Calls -> Seq(Sub!Messages)]
        BY <1>1, <2>3, <3>4, StreamTypeFacts
      <3>6. (Sub!TypeOK)'
        BY <1>1, <2>1, <3>2, <3>3, <3>5, StreamTypes, StreamTypeFacts
      <3>7. SubscribeInv'
        BY <1>1, <2>1, <3>2, SubscribeFrame
      <3>8. PollInv'
        BY <1>1, <1>2, <2>1, <2>3, <3>1, <3>2, ConsumeKeeps
      <3> QED BY <3>6, <3>7, <3>8 DEF StreamInv
    <2> QED BY <1>3, <2>2, <2>3 DEF Sub!ConsumeData
  <1>4. CASE Sub!CommitOffsets(c)
    <2>1. /\ pc[c] = "commit"
          /\ UNCHANGED <<client_context, local, messages, sCancelled, subscriptions, position,
                         sDelivered, dropped, unreported, contended>>
      BY <1>4 DEF Sub!CommitOffsets, Sub!history
    <2>2. CASE Sub!Fails(c) /\ committed' = committed
      <3>1. (Sub!TypeOK)'
        BY <1>1, <2>1, <2>2, Failing, StreamTypes, StreamTypeFacts
      <3>2. SubscribeInv'
        BY <1>1, <2>1, <2>2, Failing, SubscribeFrame
      <3>3. \A a, b \in Calls : a # b /\ Polling(a)' /\ Polling(b)' => a \in contended'
        BY <1>1, <2>1, <2>2, Failing DEF PollInv, Polling, Moves
      <3>4. PollInv'
        BY <1>1, <2>1, <2>2, <3>3, Failing, PollFrame
      <3> QED BY <3>1, <3>2, <3>4 DEF StreamInv
    <2>3. CASE /\ committed' = [committed EXCEPT ![local[c]] =
                    [p \in Partitions |->
                        IF \E m \in Sub!StreamOffsets(messages[c]) : m[1] = p
                        THEN LastOffset(messages[c], p) ELSE @[p]]]
               /\ Sub!Return(c, "ok") \/ Sub!Fails(c)
      <3>1. \A d \in Calls \ {c} : result'[d] = result[d]
        BY <1>1, <2>3, Failing DEF Sub!Return, Sub!TypeOK
      <3>2. Moves(c, "respond") /\ Sub!GoTo(c, "respond")
        BY <1>1, <2>3, Failing, Going DEF Sub!Return
      <3>3. result' = result \/ result' = [result EXCEPT ![c] = "ok"]
                             \/ result' = [result EXCEPT ![c] = "error"]
        BY <2>3 DEF Sub!Return, Sub!Fails
      <3>4. PollInv' /\ \A p \in Partitions : committed'[local[c]][p] \in 0..MaxOffset
        BY <1>1, <1>2, <2>1, <2>3, <3>1, <3>2, CommitKeeps
      <3>5. committed' \in [Calls -> Sub!Offsets]
        <4> DEFINE f == [p \in Partitions |->
                            IF \E m \in Sub!StreamOffsets(messages[c]) : m[1] = p
                            THEN LastOffset(messages[c], p) ELSE committed[local[c]][p]]
        <4>1. /\ committed' = [committed EXCEPT ![local[c]] = f]
              /\ f = [p \in Partitions |-> f[p]]
          BY <2>3
        <4> HIDE DEF f
        <4>2. f = committed'[local[c]] /\ \A p \in Partitions : f[p] \in 0..MaxOffset
          BY <1>1, <1>2, <3>4, <4>1, StreamTypeFacts
        <4>3. f \in Sub!Offsets
          BY <4>1, <4>2 DEF Sub!Offsets
        <4> QED BY <1>1, <1>2, <4>1, <4>3, StreamTypeFacts
      <3>6. (Sub!TypeOK)'
        BY <1>1, <2>1, <3>2, <3>3, <3>5, StreamTypes, StreamTypeFacts
      <3>7. SubscribeInv'
        BY <1>1, <2>1, <3>2, SubscribeFrame
      <3> QED BY <3>4, <3>6, <3>7 DEF StreamInv
    <2> QED BY <1>4, <2>2, <2>3 DEF Sub!CommitOffsets, LastOffset
  <1> QED BY <1>3, <1>4

(* Nothing is subscribed at first.                                         *)
LEMMA StreamFirst ==
    ASSUME StreamSubscriptionAssumption, Sub!Init
    PROVE  StreamInv
  <1> USE DEF Sub!Init
  <1>1. None \notin Calls /\ MaxOffset \in Nat
    BY DEF Sub!StreamSubscriptionAssumption
  <1>2. \A s \in Calls : /\ position[s] = [p \in Partitions |-> 0]
                         /\ committed[s] = [p \in Partitions |-> 0]
    OBVIOUS
  <1>3. position \in [Calls -> Sub!Offsets] /\ committed \in [Calls -> Sub!Offsets]
    BY <1>1 DEF Sub!Offsets
  <1>4. /\ pc \in [Calls -> {"idle"}] /\ local \in [Calls -> {None}]
        /\ messages \in [Calls -> Seq(Sub!Messages)]
        /\ result \in [Calls -> {"ok"}] /\ sCancelled \in [Calls -> BOOLEAN]
    OBVIOUS
  <1>5. Sub!TypeOK
    BY <1>3, <1>4 DEF Sub!TypeOK
  <1>6. ASSUME NEW c \in Calls PROVE Copied(c) /\ Alone(c) /\ ResetsOwn(c) /\ Consumed(c)
    <2>1. pc[c] = "idle" /\ local[c] = None /\ messages[c] = <<>>
      OBVIOUS
    <2> QED BY <2>1 DEF Copied, Alone, ResetsOwn, Consumed, Increasing, Waiting, Working,
       Subscribing
  <1>7. SubscribeInv
    BY <1>6 DEF SubscribeInv, DeletedOnce, Sub!NoOrphan, Sub!ContextIsLive
  <1>8. ASSUME NEW s \in Calls PROVE CommittedInOrder(s) /\ NothingMissed(s)
    <2>1. \A m \in Sub!Messages : m[1] \in Partitions /\ m[2] \in Nat \ {0}
      BY <1>1 DEF Sub!Messages
    <2>2. \A c \in Calls : DOMAIN messages[c] = {}
      OBVIOUS
    <2> QED BY <1>2, <2>1, <2>2 DEF CommittedInOrder, NothingMissed
  <1>9. PollInv
    BY <1>6, <1>8 DEF PollInv, Polling
  <1> QED BY <1>5, <1>7, <1>9 DEF StreamInv

(* What a run about the stream's client keeps: no other changes its state. *)
StreamRun == client = "stream" => StreamInv

(* No step of Subscribe, Poll or Unsubscribe breaks the types or the       *)
(* invariant, for any number of overlapping calls and any messages.        *)
THEOREM StreamInductive == MCSpec => []StreamRun
  <1>1. MCInit => StreamRun
    BY StreamFirst, StreamSubscriptionAssumption DEF MCInit, StreamRun
  <1>2. ASSUME StreamRun, [MCNext]_all PROVE StreamRun'
    <2> SUFFICES ASSUME client' = "stream" PROVE StreamInv'
      BY DEF StreamRun
    <2>1. ASSUME UNCHANGED subscriptionVars, client = "stream" PROVE StreamInv'
      <3>1. Sub!TypeOK /\ SubscribeInv /\ PollInv
        BY <1>2, <2>1 DEF StreamRun, StreamInv
      <3>2. UNCHANGED <<client_context, pc, local, messages, result, sCancelled, subscriptions,
                        position, committed, sDelivered, dropped, unreported, contended>>
        BY <2>1 DEF subscriptionVars
      <3>3. (Sub!TypeOK)'
        BY <3>1, <3>2 DEF Sub!TypeOK
      <3>4. SubscribeInv'
        BY <3>1, <3>2 DEF SubscribeInv, DeletedOnce, Copied, Alone, ResetsOwn, Waiting, Subscribing,
                          Working, Over, Sub!NoOrphan, Sub!ContextIsLive, Sub!SubscribesApart
      <3>5. PollInv'
        BY <3>1, <3>2 DEF PollInv, Consumed, Increasing, Polling, CommittedInOrder, PollsApart,
                          NothingMissed, Held
      <3> QED BY <3>3, <3>4, <3>5 DEF StreamInv
    <2>2. ASSUME Stream(SubscribeFirst) PROVE StreamInv'
      <3>1. StreamInv /\ Sub!Next
        BY <1>2, <2>2 DEF Stream, SubscribeFirst, StreamRun
      <3> QED BY <3>1, StreamSubscriptionAssumption, CallStep, SubscribeStep, ReadContextStep,
                 UnsubscribeStep, PollStep DEF Sub!Next
    <2>3. client' = client
      BY <1>2 DEF MCNext, Prefetch, Stream, Repository, all
    <2>4. CASE UNCHANGED all
      BY <2>1, <2>3, <2>4 DEF all
    <2> QED BY <1>2, <2>1, <2>2, <2>3, <2>4 DEF MCNext, Prefetch, Repository
  <1> QED BY <1>1, <1>2, PTL DEF MCSpec

(* What the properties say of the subscription follows.                    *)
LEMMA StreamInvImplies ==
    ASSUME StreamSubscriptionAssumption, StreamInv
    PROVE  /\ Sub!NoOrphan /\ Sub!ContextIsLive
           /\ Sub!CommittedBeforeReturned /\ Sub!NothingLost
  <1>1. Sub!TypeOK /\ SubscribeInv /\ PollInv
    BY DEF StreamInv
  <1>2. Sub!CommittedBeforeReturned
    <2>1. ASSUME NEW m \in sDelivered, \A c \in contended : local[c] # m[1]
          PROVE  m[2][2] <= committed[m[1]][m[2][1]]
      <3>1. m[1] \in Calls /\ PollsApart(m[1])
        BY <1>1, <2>1, PollFacts DEF PollsApart
      <3> QED BY <1>1, <3>1 DEF PollInv, CommittedInOrder
    <2> QED BY <2>1 DEF Sub!CommittedBeforeReturned
  <1>3. Sub!NothingLost
    <2>1. ASSUME NEW s \in Calls, NEW m \in Sub!Messages, m[2] <= committed[s][m[1]]
          PROVE  <<s, m>> \in sDelivered \cup dropped \/ Held(s, m)
      <3>1. m[1] \in Partitions /\ m[2] \in Nat
        BY DEF Sub!Messages
      <3>2. /\ committed[s][m[1]] <= position[s][m[1]]
            /\ committed[s][m[1]] \in Nat /\ position[s][m[1]] \in Nat
        BY <1>1, <3>1, PollFacts DEF PollInv, NothingMissed
      <3>3. m[2] <= position[s][m[1]]
        BY <2>1, <3>1, <3>2
      <3> QED BY <1>1, <3>3 DEF PollInv, NothingMissed
    <2> QED BY <2>1 DEF Sub!NothingLost, Held
  <1> QED BY <1>1, <1>2, <1>3 DEF SubscribeInv

(* Client and service agree on what is subscribed (Subscribe,              *)
(* Unsubscribe), and Poll commits what it returns and only what was        *)
(* consumed: what the run checks, for any number of calls, partitions and  *)
(* messages.                                                               *)
THEOREM RunSubscriptionExact == MCSpec => []SubscriptionExact
  <1>1. StreamRun => SubscriptionExact
    BY StreamInvImplies, StreamSubscriptionAssumption DEF StreamRun, SubscriptionExact
  <1> QED BY <1>1, StreamInductive, PTL
=============================================================================
