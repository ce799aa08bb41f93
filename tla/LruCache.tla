------------------------------- MODULE LruCache -------------------------------
(***************************************************************************)
(* utils::LruCache: a map whose buckets are linked into a list by          *)
(* iterators, with a running size.  The cache is sequential (its users     *)
(* lock), so each public operation is one step.  Shown to implement        *)
(* LruOrder.                                                               *)
(***************************************************************************)
EXTENDS Naturals, Sequences, SequencesExt, FiniteSets, FiniteSetsExt

CONSTANTS
    Keys,
    Costs,      \* what cache_cost_func_ may return, natural numbers
    Limits,     \* the sizes given to the constructor and to Resize
    End         \* map_.end(), not a key

VARIABLES
    lru,        \* map_ (cost, next_, previous_ of each bucket), first_, last_, size_
    maxSize     \* max_size_

vars == <<lru, maxSize>>

Empty ==
    [cost |-> [k \in {} |-> 0], next |-> [k \in {} |-> End], prev |-> [k \in {} |-> End],
     first |-> End, last |-> End, size |-> 0]

Stored(l) == DOMAIN l.cost

TypeOK ==
    /\ Stored(lru) \subseteq Keys
    /\ lru.cost \in [Stored(lru) -> Costs]
    /\ lru.next \in [Stored(lru) -> Stored(lru) \cup {End}]
    /\ lru.prev \in [Stored(lru) -> Stored(lru) \cup {End}]
    /\ {lru.first, lru.last} \subseteq Stored(lru) \cup {End}
    /\ lru.size \in Nat
    /\ maxSize \in Limits

Init == lru = Empty /\ maxSize \in Limits

Set(f, k, x) == [j \in DOMAIN f \cup {k} |-> IF j = k THEN x ELSE f[j]]

-----------------------------------------------------------------------------
(* The private helpers, as functions of the list *)

Promote_Never(l, k) == l
Promote(l, k) ==
    IF k = l.first THEN l
    ELSE LET p == l.prev[k]
             n == l.next[k]
             relinked == [l EXCEPT !.next[p] = n,
                                   !.prev = IF n = End THEN @ ELSE Set(@, n, p),
                                   !.last = IF n = End THEN p ELSE @]
         IN  [relinked EXCEPT !.prev = Set(Set(@, k, End), l.first, k),
                              !.next[k] = l.first, !.first = k]

EraseBucket_KeepsFirst(l, k) ==
    LET p == l.prev[k]
        n == l.next[k]
        next == IF p = End THEN l.next ELSE Set(l.next, p, n)
        prev == IF n = End THEN l.prev ELSE Set(l.prev, n, p)
        rest == Stored(l) \ {k}
    IN  [cost |-> [j \in rest |-> l.cost[j]], next |-> [j \in rest |-> next[j]],
         prev |-> [j \in rest |-> prev[j]],
         first |-> l.first, last |-> IF n = End THEN p ELSE l.last,
         size |-> l.size - l.cost[k]]
EraseBucket(l, k) ==
    LET p == l.prev[k]
        n == l.next[k]
        next == IF p = End THEN l.next ELSE Set(l.next, p, n)
        prev == IF n = End THEN l.prev ELSE Set(l.prev, n, p)
        rest == Stored(l) \ {k}
    IN  [cost |-> [j \in rest |-> l.cost[j]], next |-> [j \in rest |-> next[j]],
         prev |-> [j \in rest |-> prev[j]],
         first |-> IF p = End THEN n ELSE l.first,
         last |-> IF n = End THEN p ELSE l.last,
         size |-> l.size - l.cost[k]]

PopLast(l) == EraseBucket(l, l.last)

(* Evicts least recently used items while the size is above the limit. *)
Evict(l, limit) ==
    LET pops[n \in 0..Cardinality(Stored(l))] ==
            IF n = 0 THEN l
            ELSE IF pops[n - 1].size > limit THEN PopLast(pops[n - 1]) ELSE pops[n - 1]
    IN  pops[Cardinality(Stored(l))]

AddNew(l, k, x) ==
    LET linked == IF Stored(l) = {} THEN [l EXCEPT !.first = k, !.last = k]
                  ELSE [l EXCEPT !.prev = Set(@, l.first, k), !.first = k]
    IN  [linked EXCEPT !.cost = Set(@, k, x), !.next = Set(@, k, l.first),
                       !.prev = Set(@, k, End), !.size = @ + x]

AddAgain_AddsCost(l, k, x) == Promote([l EXCEPT !.cost[k] = x, !.size = @ + x], k)
AddAgain(l, k, x) == Promote([l EXCEPT !.cost[k] = x, !.size = (@ + x) - l.cost[k]], k)

-----------------------------------------------------------------------------
(* The public operations *)

Insert(k, x) ==
    /\ x <= maxSize
    /\ lru' = IF k \in Stored(lru) THEN Promote(lru, k)
              ELSE Evict(AddNew(lru, k, x), maxSize)
    /\ UNCHANGED maxSize

(* An item that is there is assigned whatever it costs: if it costs more   *)
(* than the limit, it drives out all others and then itself.               *)
InsertOrAssign(k, x) ==
    /\ \/ /\ k \in Stored(lru)
          /\ lru' = Evict(AddAgain(lru, k, x), maxSize)
       \/ /\ k \notin Stored(lru) /\ x <= maxSize
          /\ lru' = Evict(AddNew(lru, k, x), maxSize)
    /\ UNCHANGED maxSize

Find(k) == k \in Stored(lru) /\ lru' = Promote(lru, k) /\ UNCHANGED maxSize

Erase(k) == k \in Stored(lru) /\ lru' = EraseBucket(lru, k) /\ UNCHANGED maxSize

Resize(l) == lru' = Evict(lru, l) /\ maxSize' = l

Clear == lru' = Empty /\ UNCHANGED maxSize

Next ==
    \/ \E k \in Keys, x \in Costs : Insert(k, x) \/ InsertOrAssign(k, x)
    \/ \E k \in Keys : Find(k) \/ Erase(k)
    \/ \E l \in Limits : Resize(l)
    \/ Clear

Spec == Init /\ [][Next]_vars

-----------------------------------------------------------------------------
(* Properties *)

(* The n-th bucket met when following a link from the given end. *)
Walk(link, from) ==
    LET at[n \in 1..Cardinality(DOMAIN link)] == IF n = 1 THEN from ELSE link[at[n - 1]]
    IN  at

(* The iterators form one list of all items, the same in both directions,  *)
(* and size_ is what they cost together, at most max_size_: what the       *)
(* assertions of AddInternal and PopLast rely on after any sequence of     *)
(* operations.                                                             *)
ListConsistent ==
    LET n == Cardinality(Stored(lru))
        forward == Walk(lru.next, lru.first)
        backward == Walk(lru.prev, lru.last)
    IN  /\ {forward[i] : i \in 1..n} = Stored(lru)
        /\ \A i \in 1..n : backward[i] = forward[n + 1 - i]
        /\ n = 0 => lru.first = End /\ lru.last = End
        /\ n > 0 => lru.next[lru.last] = End /\ lru.prev[lru.first] = End
        /\ lru.size = MapThenSumSet(LAMBDA k : lru.cost[k], Stored(lru))
        /\ lru.size <= maxSize

(* LruCache implements LruOrder: list order is recency, and exactly the    *)
(* least recently used items that exceed the limit are evicted.            *)
Order == INSTANCE LruOrder WITH
    order <- [i \in 1..Cardinality(Stored(lru)) |-> Walk(lru.next, lru.first)[i]],
    cost <- lru.cost, limit <- maxSize

ImplementsOrder == Order!Spec
=============================================================================
