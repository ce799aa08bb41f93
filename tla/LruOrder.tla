------------------------------- MODULE LruOrder -------------------------------
(***************************************************************************)
(* What utils::LruCache promises: a sequence of keys, most recently used   *)
(* first, whose items together never cost more than the limit, because the *)
(* least recently used ones are given up.                                  *)
(***************************************************************************)
EXTENDS Naturals, Sequences, SequencesExt

CONSTANTS Keys, Costs, Limits

VARIABLES
    order,      \* the cached keys, most recently used first
    cost,       \* what each cached item costs
    limit       \* GetMaxSize()

lruVars == <<order, cost, limit>>

Total(s, c) == FoldSeq(LAMBDA k, sum : c[k] + sum, 0, s)

(* The longest prefix of s that stays within the limit. *)
Kept(s, c, l) ==
    CHOOSE p \in Prefixes(s) :
        /\ Total(p, c) <= l
        /\ \A q \in Prefixes(s) : Total(q, c) <= l => Len(q) <= Len(p)

ToFront(s, k) == <<k>> \o SelectSeq(s, LAMBDA j : j # k)

(* Assigns a cost to a key that becomes the most recently used one. *)
With(c, k, x) == [j \in DOMAIN c \cup {k} |-> IF j = k THEN x ELSE c[j]]

Only(c, s) == [j \in ToSet(s) |-> c[j]]

TrimTo(s, c, l) ==
    /\ order' = Kept(s, c, l)
    /\ cost' = Only(c, Kept(s, c, l))
    /\ limit' = l

-----------------------------------------------------------------------------

Init == order = <<>> /\ cost = Only(<<>>, <<>>) /\ limit \in Limits

Insert(k, x) ==
    /\ x <= limit
    /\ LET c == IF k \in ToSet(order) THEN cost ELSE With(cost, k, x)
       IN  TrimTo(ToFront(order, k), c, limit)

InsertOrAssign(k, x) ==
    /\ k \in ToSet(order) \/ x <= limit
    /\ TrimTo(ToFront(order, k), With(cost, k, x), limit)

Find(k) == k \in ToSet(order) /\ TrimTo(ToFront(order, k), cost, limit)

Erase(k) == TrimTo(SelectSeq(order, LAMBDA j : j # k), cost, limit)

Resize(l) == TrimTo(order, cost, l)

Clear == TrimTo(<<>>, cost, limit)

Next ==
    \/ \E k \in Keys, x \in Costs : Insert(k, x) \/ InsertOrAssign(k, x)
    \/ \E k \in Keys : Find(k) \/ Erase(k)
    \/ \E l \in Limits : Resize(l)
    \/ Clear

Spec == Init /\ [][Next]_lruVars
=============================================================================
