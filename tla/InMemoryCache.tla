---------------------------- MODULE InMemoryCache ----------------------------
(***************************************************************************)
(* cache::InMemoryCache: an LRU cache (as LruOrder promises) and an index  *)
(* of expiry times, item_expiries_, by which expired items are purged.     *)
(*                                                                         *)
(* The operations are functions of the cache and the time, so that         *)
(* DefaultCache can use them; each takes the cache's mutex and is one      *)
(* step.                                                                   *)
(***************************************************************************)
EXTENDS Naturals, Sequences

LOCAL INSTANCE SequencesExt

CONSTANTS
    Keys, Values,
    Big,            \* the values that cost more than the whole cache may hold
    Prefixed,       \* the sets of keys that share a prefix
    Items,          \* what is put: key, value and relative expiry time
    Never,          \* kExpiryMax, kDefaultExpiry: later than any time
    MemorySize,     \* max_memory_cache_size, in values that are not big
    MaxTime,        \* bound on the clock
    None            \* no value

(* An item that is put with no time left is refused and the old one stays  *)
(* (Put below): nobody puts such an item here.                             *)
ASSUME MemoryAssumption ==
    /\ MemorySize \in Nat \ {0} /\ MaxTime \in Nat /\ Never \in Nat /\ MaxTime < Never
    /\ Items \subseteq Keys \X Values \X (Nat \ {0})
    /\ \A i \in Items : i[3] = Never \/ i[3] + MaxTime < Never
    /\ Big \subseteq Values /\ None \notin Values \cup 0..Never /\ Prefixed \subseteq SUBSET Keys

VARIABLES
    memory,         \* item_tuples_ (order and items) and item_expiries_
    now             \* what time_provider_ returns

Nothing == [order |-> <<>>, item |-> [k \in {} |-> None], expiries |-> {}]

CacheState ==
    /\ DOMAIN memory.item \subseteq Keys
    /\ \A k \in DOMAIN memory.item : memory.item[k] \in [value : Values, expiry : 0..Never]
    /\ memory.expiries \subseteq ((0..Never) \X Keys)
    /\ now \in 0..MaxTime

-----------------------------------------------------------------------------
(* The LRU cache as LruOrder promises it *)

ToFront(s, k) == <<k>> \o SelectSeq(s, LAMBDA j : j # k)

ItemsAt(m, s) == [k \in ToSet(s) \cap DOMAIN m.item |-> m.item[k]]
Keep(m, s) == [m EXCEPT !.order = s, !.item = ItemsAt(m, s)]

Trim(m) ==
    LET fits == IF m.item[m.order[1]].value \in Big THEN 0 ELSE MemorySize
    IN  Keep(m, SubSeq(m.order, 1, IF Len(m.order) < fits THEN Len(m.order) ELSE fits))

Forget(m, S) ==
    [m EXCEPT !.order = SelectSeq(@, LAMBDA k : k \notin S),
              !.item = [k \in DOMAIN @ \ S |-> @[k]]]

-----------------------------------------------------------------------------
(* The operations *)

(* PurgeExpired: everything recorded under the given times goes, whatever  *)
(* is stored under those keys by now.                                      *)
PurgeTimes(m, T) ==
    [Forget(m, {e[2] : e \in {x \in m.expiries : x[1] \in T}})
        EXCEPT !.expiries = {x \in @ : x[1] \notin T}]

Purge(m, t) == PurgeTimes(m, {x[1] : x \in {y \in m.expiries : y[1] < t}})

Rejected(e) == e # Never /\ e <= 0

Due(e, t) == IF e = Never THEN Never ELSE e + t

(* Put: only a key that was not there is recorded in item_expiries_, and   *)
(* the eviction callback leaves the record of an evicted item in place.    *)
(* What does not fit is refused, unless it replaces an item: then it       *)
(* drives out all others and itself.                                       *)
MemoryPut_KeepsOld(m, k, v, e, t) ==
    LET p == Purge(m, t)
        new == k \notin DOMAIN p.item
    IN  IF ~new \/ Rejected(e) \/ v \in Big THEN p
        ELSE Trim([order |-> ToFront(p.order, k),
                   item |-> [j \in DOMAIN p.item \cup {k} |->
                               IF j = k THEN [value |-> v, expiry |-> Due(e, t)] ELSE p.item[j]],
                   expiries |-> p.expiries \cup (IF e # Never THEN {<<Due(e, t), k>>} ELSE {})])
MemoryPut(m, k, v, e, t) ==
    LET p == Purge(m, t)
        new == k \notin DOMAIN p.item
    IN  IF Rejected(e) \/ (new /\ v \in Big) THEN p
        ELSE Trim([order |-> ToFront(p.order, k),
                   item |-> [j \in DOMAIN p.item \cup {k} |->
                               IF j = k THEN [value |-> v, expiry |-> Due(e, t)] ELSE p.item[j]],
                   expiries |-> p.expiries \cup (IF new /\ e # Never THEN {<<Due(e, t), k>>}
                                                 ELSE {})])

Expired_AtLast(m, k, t) == m.item[k].expiry + 1 < t
Expired(m, k, t) == m.item[k].expiry < t

MemoryHit(m, k, t) == k \in DOMAIN m.item /\ ~Expired(m, k, t)

(* Get promotes what it finds and purges the records of its expiry time. *)
MemoryGet(m, k, t) ==
    IF k \notin DOMAIN m.item THEN m
    ELSE LET p == [m EXCEPT !.order = ToFront(@, k)]
         IN  IF Expired(m, k, t) THEN PurgeTimes(p, {m.item[k].expiry}) ELSE p

MemoryRemove(m, S) == Forget(m, S)

Tick == now < MaxTime /\ now' = now + 1
=============================================================================
