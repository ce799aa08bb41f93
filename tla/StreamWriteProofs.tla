--------------------------- MODULE StreamWriteProofs ---------------------------
(***************************************************************************)
(* What the client of a stream layer writes, proved for any number of      *)
(* calls, flushes and publications, any limits and whatever fails:         *)
(*                                                                         *)
(*   - the automatic flushes: the metrics say what the flushes did, the    *)
(*     future of Disable is ready when they are done, and what is          *)
(*     cancelled starts no more of them (AutoFlushController);             *)
(*   - the queue: a request that Queue accepted is queued, being published *)
(*     or answered; one flush publishes it; each flush calls back once;    *)
(*     and the queue exceeds its limit by concurrent calls only            *)
(*     (StreamQueue);                                                      *)
(*   - the publications: who publishes is told what has been published     *)
(*     (StreamPublication).                                                *)
(***************************************************************************)
EXTENDS AutoFlushController, Integers, Sequences, FiniteSetTheorems, WellFoundedInduction, TLAPS

CONSTANTS
    Requests, Flushes, FlushLimits, MaxRequests, MaxFaults, None,
    Publications, Contents
VARIABLES
    list, data, faults, queue, pc, limit, counter, item, started, cancelled, responses, calls, raced,
    unstored, dropped, interrupted, done,
    content, stage, step, stopped, cachedUrls, made, answer, callbacks, doubt

Queue == INSTANCE StreamQueue

Publishing ==
    INSTANCE StreamPublication WITH pc <- stage, cancelled <- stopped, calls <- callbacks

-----------------------------------------------------------------------------
(* Sums over sets of flushes *)

(* What the sum of a function over a set takes first, and what a function  *)
(* of the sets is that computes it.                                        *)
First(s) == CHOOSE x \in s : TRUE
Sum(fun, s) == SumFunctionOnSet(fun, s)
Step(fun, h, s) == IF s = {} THEN 0 ELSE fun[First(s)] + h[s \ {First(s)}]
Computes(h, fun, S) == h = [s \in SUBSET S |-> Step(fun, h, s)]
Least(fun, S) == CHOOSE h : Computes(h, fun, S)

(* The sum is that of the function that computes it for every subset.      *)
LEMMA SumIs ==
    ASSUME NEW fun, NEW S
    PROVE  Sum(fun, S) = Least(fun, S)[S]
  BY Zenon DEF Sum, SumFunctionOnSet, FoldFunctionOnSet, MapThenFoldSet, Least, Computes, Step,
     First

(* What is taken first is one of the set.                                  *)
LEMMA FirstIn == ASSUME NEW s, s # {} PROVE First(s) \in s
  BY DEF First

(* A least set of those that are finite.                                   *)
LEMMA LeastSet ==
    ASSUME NEW S, IsFiniteSet(S), NEW Bad, Bad \subseteq SUBSET S, Bad # {}
    PROVE  \E T \in Bad : \A U \in Bad : U \subseteq T => U = T
  <1>1. Bad \subseteq FiniteSubsetsOf(S)
    BY FS_Subset DEF FiniteSubsetsOf
  <1>2. IsWellFoundedOn(StrictSubsetOrdering(S), FiniteSubsetsOf(S))
    BY FS_StrictSubsetOrderingWellFounded
  <1> DEFINE R == StrictSubsetOrdering(S)
             D == FiniteSubsetsOf(S)
  <1>4. IsWellFoundedOn(R, D) /\ Bad \subseteq D
    BY <1>1, <1>2
  <1>5. \E T \in Bad : \A U \in Bad : ~ (<<U, T>> \in R)
    <2> HIDE DEF R, D
    <2> QED BY <1>4, WFMin
  <1>6. PICK T \in Bad : \A U \in Bad : <<U, T>> \notin StrictSubsetOrdering(S)
    BY <1>5
  <1>7. ASSUME NEW U \in Bad, U \subseteq T, U # T PROVE FALSE
    <2>1. U \in SUBSET S /\ T \in SUBSET S
      OBVIOUS
    <2>2. <<U, T>> \in StrictSubsetOrdering(S)
      BY <1>7, <2>1 DEF StrictSubsetOrdering
    <2>3. <<U, T>> \notin StrictSubsetOrdering(S)
      BY <1>6
    <2> QED BY <2>2, <2>3
  <1> QED BY <1>7

(* Two functions that compute the sums agree where both do.                *)
LEMMA SumsAgree ==
    ASSUME NEW fun, NEW S, NEW T, NEW g, NEW h, Computes(g, fun, S), Computes(h, fun, T),
           NEW U, U \subseteq S, U \subseteq T, IsFiniteSet(U)
    PROVE  g[U] = h[U]
  <1> DEFINE Bad == {s \in SUBSET U : g[s] # h[s]}
  <1>1. SUFFICES Bad = {}
    <2>1. U \in SUBSET U
      OBVIOUS
    <2> QED BY <1>1, <2>1
  <1>2. SUFFICES ASSUME Bad # {} PROVE FALSE
    OBVIOUS
  <1>3. PICK s \in Bad : \A u \in Bad : u \subseteq s => u = s
    <2>1. Bad \subseteq SUBSET U
      OBVIOUS
    <2> HIDE DEF Bad
    <2> QED BY <1>2, <2>1, LeastSet
  <1>4. s \in SUBSET S /\ s \in SUBSET T /\ s \in SUBSET U /\ g[s] # h[s]
    OBVIOUS
  <1>5. g[s] = Step(fun, g, s) /\ h[s] = Step(fun, h, s)
    <2>1. g = [x \in SUBSET S |-> Step(fun, g, x)] /\ h = [x \in SUBSET T |-> Step(fun, h, x)]
      BY DEF Computes
    <2> DEFINE G(x) == Step(fun, g, x)
               H(x) == Step(fun, h, x)
    <2>2. g = [x \in SUBSET S |-> G(x)] /\ h = [x \in SUBSET T |-> H(x)]
      BY <2>1
    <2> HIDE DEF G, H
    <2>3. g[s] = G(s) /\ h[s] = H(s)
      BY <1>4, <2>2
    <2> QED BY <2>3 DEF G, H
  <1>6. CASE s = {}
    BY <1>4, <1>5, <1>6 DEF Step
  <1>7. CASE s # {}
    <2>1. First(s) \in s
      BY <1>7, FirstIn
    <2>2. s \ {First(s)} \notin Bad
      BY <1>3, <2>1
    <2>3. g[s \ {First(s)}] = h[s \ {First(s)}]
      BY <1>4, <2>2
    <2> QED BY <1>4, <1>5, <1>7, <2>3 DEF Step
  <1> QED BY <1>6, <1>7

(* There is one that does on every finite set: on a least set on which     *)
(* there is none, the sums of the smaller ones would be one.               *)
LEMMA SumExists ==
    ASSUME NEW fun, NEW S, IsFiniteSet(S)
    PROVE  Computes(Least(fun, S), fun, S)
  <1> DEFINE Bad == {s \in SUBSET S : ~\E h : Computes(h, fun, s)}
  <1>1. SUFFICES Bad = {}
    <2>1. S \in SUBSET S
      OBVIOUS
    <2>2. \E h : Computes(h, fun, S)
      BY <1>1, <2>1
    <2> QED BY <2>2 DEF Least
  <1>2. SUFFICES ASSUME Bad # {} PROVE FALSE
    OBVIOUS
  <1>3. PICK T \in Bad : \A U \in Bad : U \subseteq T => U = T
    <2>1. Bad \subseteq SUBSET S
      OBVIOUS
    <2> HIDE DEF Bad
    <2> QED BY <1>2, <2>1, LeastSet
  <1>4. IsFiniteSet(T) /\ T \in SUBSET S
    BY FS_Subset
  <1>5. ASSUME NEW U, U \subseteq T, U # T
        PROVE  /\ Computes(Least(fun, U), fun, U) /\ IsFiniteSet(U)
               /\ Sum(fun, U) = Step(fun, [s \in SUBSET U |-> Sum(fun, s)], U)
    <2>1. U \notin Bad /\ U \in SUBSET S
      BY <1>3, <1>4, <1>5
    <2>2. IsFiniteSet(U)
      BY <1>4, <1>5, FS_Subset
    <2>3. Computes(Least(fun, U), fun, U)
      BY <2>1 DEF Least
    <2>4. ASSUME NEW s, s \subseteq U
          PROVE  Least(fun, U)[s] = Sum(fun, s)
      <3>1. s # T /\ s \subseteq T /\ s \notin Bad /\ s \in SUBSET S
        BY <1>3, <1>4, <1>5, <2>4
      <3>2. Computes(Least(fun, s), fun, s)
        BY <3>1 DEF Least
      <3>3. IsFiniteSet(s)
        BY <2>2, <2>4, FS_Subset
      <3>4. Least(fun, U)[s] = Least(fun, s)[s]
        BY <2>3, <2>4, <3>2, <3>3, SumsAgree
      <3> QED BY <3>4, SumIs
    <2>5. Least(fun, U) = [s \in SUBSET U |-> Step(fun, Least(fun, U), s)]
      BY <2>3 DEF Computes
    <2>6. Least(fun, U)[U] = Step(fun, Least(fun, U), U)
      <3> DEFINE G(x) == Step(fun, Least(fun, U), x)
      <3>1. Least(fun, U) = [s \in SUBSET U |-> G(s)]
        BY <2>5
      <3>2. U \in SUBSET U
        OBVIOUS
      <3> HIDE DEF G
      <3>3. Least(fun, U)[U] = G(U)
        BY <3>1, <3>2
      <3> QED BY <3>3 DEF G
    <2>7. U # {} => U \ {First(U)} \subseteq U
      OBVIOUS
    <2>8. Sum(fun, U) = Least(fun, U)[U]
      BY SumIs
    <2>9. CASE U = {}
      BY <2>2, <2>3, <2>6, <2>8, <2>9 DEF Step
    <2>10. CASE U # {}
      <3>1. Least(fun, U)[U \ {First(U)}] = Sum(fun, U \ {First(U)})
        BY <2>4
      <3>2. [s \in SUBSET U |-> Sum(fun, s)][U \ {First(U)}] = Sum(fun, U \ {First(U)})
        <4> DEFINE V == U \ {First(U)}
        <4>1. V \in SUBSET U
          OBVIOUS
        <4> HIDE DEF V
        <4>2. [s \in SUBSET U |-> Sum(fun, s)][V] = Sum(fun, V)
          BY <4>1
        <4> QED BY <4>2 DEF V
      <3> QED BY <2>2, <2>3, <2>6, <2>8, <2>10, <3>1, <3>2 DEF Step
    <2> QED BY <2>9, <2>10
  <1> DEFINE h == [s \in SUBSET T |-> Step(fun, [u \in SUBSET s |-> Sum(fun, u)], s)]
  <1>6. ASSUME NEW s, s \subseteq T, s # T PROVE h[s] = Sum(fun, s)
    <2> DEFINE G(x) == Step(fun, [u \in SUBSET x |-> Sum(fun, u)], x)
    <2>1. h = [x \in SUBSET T |-> G(x)]
      OBVIOUS
    <2> HIDE DEF G, h
    <2>2. h[s] = G(s)
      BY <1>6, <2>1
    <2> QED BY <1>5, <1>6, <2>2 DEF G
  <1>7. ASSUME NEW s, s \subseteq T
        PROVE  Step(fun, h, s) = Step(fun, [u \in SUBSET s |-> Sum(fun, u)], s)
    <2>1. CASE s = {}
      BY <2>1 DEF Step
    <2>2. CASE s # {}
      <3> DEFINE V == s \ {First(s)}
                 k == [u \in SUBSET s |-> Sum(fun, u)]
      <3>1. First(s) \in s
        BY <2>2, FirstIn
      <3>2. V \subseteq T /\ V # T /\ V \in SUBSET s
        BY <1>7, <3>1
      <3>3. k[V] = Sum(fun, V)
        <4> HIDE DEF V
        <4> QED BY <3>2
      <3>4. h[V] = Sum(fun, V)
        <4> HIDE DEF V, h
        <4> QED BY <1>6, <3>2
      <3> HIDE DEF h, k
      <3>5. h[s \ {First(s)}] = k[s \ {First(s)}]
        BY <3>3, <3>4
      <3>6. Step(fun, h, s) = Step(fun, k, s)
        BY <2>2, <3>5 DEF Step
      <3> QED BY <3>6 DEF k
    <2> QED BY <2>1, <2>2
  <1>8. h = [s \in SUBSET T |-> Step(fun, h, s)]
    <2> DEFINE G(x) == Step(fun, [u \in SUBSET x |-> Sum(fun, u)], x)
               H(x) == Step(fun, h, x)
    <2>1. \A x \in SUBSET T : G(x) = H(x)
      BY <1>7
    <2>2. h = [x \in SUBSET T |-> G(x)]
      OBVIOUS
    <2>3. [x \in SUBSET T |-> G(x)] = [x \in SUBSET T |-> H(x)]
      <3> HIDE DEF G, H, h
      <3> QED BY <2>1
    <2>4. h = [x \in SUBSET T |-> H(x)]
      <3> HIDE DEF G, H, h
      <3> QED BY <2>2, <2>3
    <2> QED BY <2>4
  <1>9. Computes(h, fun, T)
    <2> HIDE DEF h
    <2> QED BY <1>8 DEF Computes
  <1> HIDE DEF h
  <1>10. \E g : Computes(g, fun, T)
    BY <1>9
  <1> QED BY <1>3, <1>10

(* The sum over a set, in the order in which it is computed.               *)
LEMMA SumUnfolds ==
    ASSUME NEW fun, NEW S, IsFiniteSet(S)
    PROVE  /\ S = {} => Sum(fun, S) = 0
           /\ S # {} => Sum(fun, S) = fun[First(S)] + Sum(fun, S \ {First(S)})
  <1> DEFINE h == Least(fun, S)
  <1>1. h = [s \in SUBSET S |-> Step(fun, h, s)]
    <2>1. Computes(h, fun, S)
      BY SumExists
    <2> HIDE DEF h
    <2> QED BY <2>1 DEF Computes
  <1>2. h[S] = Step(fun, h, S)
    <2> DEFINE G(x) == Step(fun, h, x)
    <2>1. h = [s \in SUBSET S |-> G(s)]
      BY <1>1
    <2>2. S \in SUBSET S
      OBVIOUS
    <2> HIDE DEF G, h
    <2>3. h[S] = G(S)
      BY <2>1, <2>2
    <2> QED BY <2>3 DEF G
  <1>3. ASSUME S # {} PROVE h[S \ {First(S)}] = Sum(fun, S \ {First(S)})
    <2> DEFINE V == S \ {First(S)}
    <2>1. V \subseteq S /\ IsFiniteSet(V)
      BY FS_Subset
    <2> HIDE DEF V
    <2>2. Computes(Least(fun, V), fun, V) /\ Computes(h, fun, S)
      BY <2>1, SumExists
    <2>3. h[V] = Least(fun, V)[V]
      <3> HIDE DEF h
      <3> QED BY <2>1, <2>2, SumsAgree
    <2>4. h[V] = Sum(fun, V)
      BY <2>3, SumIs
    <2> QED BY <2>4 DEF V
  <1>4. Sum(fun, S) = h[S]
    BY SumIs
  <1> QED BY <1>2, <1>3, <1>4 DEF Step

(* What holds of a set if it holds of the smaller ones: the sum of natural *)
(* numbers is one, an element can be taken from it, and it depends on the  *)
(* values of the elements only.                                            *)
Adds(fun, S) ==
    /\ Sum(fun, S) \in Nat
    /\ \A x \in S : Sum(fun, S) = fun[x] + Sum(fun, S \ {x})

(* A sum of counts is a count, and an element that is added adds its own,  *)
(* whichever is taken first: by the least set of which this is not so.     *)
LEMMA SumAdds ==
    ASSUME NEW S, IsFiniteSet(S), NEW fun, \A x \in S : fun[x] \in Nat
    PROVE  Adds(fun, S)
  <1> DEFINE Bad == {s \in SUBSET S : ~Adds(fun, s)}
  <1>1. SUFFICES Bad = {}
    <2>1. S \in SUBSET S
      OBVIOUS
    <2> QED BY <1>1, <2>1
  <1>2. SUFFICES ASSUME Bad # {} PROVE FALSE
    OBVIOUS
  <1>3. PICK T \in Bad : \A U \in Bad : U \subseteq T => U = T
    <2>1. Bad \subseteq SUBSET S
      OBVIOUS
    <2> HIDE DEF Bad
    <2> QED BY <1>2, <2>1, LeastSet
  <1>4. IsFiniteSet(T) /\ T \subseteq S /\ ~Adds(fun, T)
    BY FS_Subset
  <1>5. ASSUME NEW U, U \subseteq T, U # T PROVE Adds(fun, U) /\ IsFiniteSet(U)
    <2>1. U \notin Bad /\ U \in SUBSET S
      BY <1>3, <1>4, <1>5
    <2> QED BY <1>4, <1>5, <2>1, FS_Subset
  <1> HIDE DEF Bad
  <1>6. CASE T = {}
    <2>1. Sum(fun, T) = 0
      BY <1>4, <1>6, SumUnfolds
    <2> QED BY <1>4, <1>6, <2>1 DEF Adds
  <1>7. CASE T # {}
    <2> DEFINE a == First(T)
    <2>1. a \in T /\ T \ {a} \subseteq T /\ T \ {a} # T
      BY <1>7, FirstIn
    <2>2. Sum(fun, T) = fun[a] + Sum(fun, T \ {a}) /\ Adds(fun, T \ {a})
      <3>1. Sum(fun, T) = fun[a] + Sum(fun, T \ {a})
        BY <1>4, <1>7, SumUnfolds
      <3> HIDE DEF a
      <3> QED BY <2>1, <3>1, <1>5
    <2> HIDE DEF a
    <2>3. fun[a] \in Nat /\ Sum(fun, T \ {a}) \in Nat
      BY <1>4, <2>1, <2>2 DEF Adds
    <2>4. ASSUME NEW x \in T PROVE Sum(fun, T) = fun[x] + Sum(fun, T \ {x})
      <3>1. CASE x = a
        BY <2>2, <3>1
      <3>2. CASE x # a
        <4> DEFINE V == T \ {a, x}
        <4>1. (T \ {a}) \ {x} = V /\ (T \ {x}) \ {a} = V /\ x \in T \ {a} /\ a \in T \ {x}
          BY <3>2, <2>1
        <4>2. T \ {x} \subseteq T /\ T \ {x} # T /\ V \subseteq T /\ V # T
          BY <2>1
        <4>3. Adds(fun, T \ {x}) /\ Adds(fun, V)
          <5> HIDE DEF V
          <5> QED BY <4>2, <1>5
        <4>4. Sum(fun, T \ {a}) = fun[x] + Sum(fun, V)
          BY <2>2, <4>1 DEF Adds
        <4>5. Sum(fun, T \ {x}) = fun[a] + Sum(fun, V)
          BY <4>1, <4>3 DEF Adds
        <4>6. fun[x] \in Nat /\ Sum(fun, V) \in Nat
          BY <1>4, <4>3 DEF Adds
        <4> HIDE DEF V
        <4> QED BY <2>2, <2>3, <4>4, <4>5, <4>6
      <3> QED BY <3>1, <3>2
    <2>5. Sum(fun, T) \in Nat
      BY <2>2, <2>3
    <2> QED BY <1>4, <2>4, <2>5 DEF Adds
  <1> QED BY <1>6, <1>7

(* Functions with the same values have the same sum.                       *)
LEMMA SameSum ==
    ASSUME NEW S, IsFiniteSet(S), NEW f, NEW g, \A x \in S : f[x] = g[x]
    PROVE  Sum(f, S) = Sum(g, S)
  <1> DEFINE Bad == {s \in SUBSET S : Sum(f, s) # Sum(g, s)}
  <1>1. SUFFICES Bad = {}
    <2>1. S \in SUBSET S
      OBVIOUS
    <2> QED BY <1>1, <2>1
  <1>2. SUFFICES ASSUME Bad # {} PROVE FALSE
    OBVIOUS
  <1>3. PICK T \in Bad : \A U \in Bad : U \subseteq T => U = T
    <2>1. Bad \subseteq SUBSET S
      OBVIOUS
    <2> HIDE DEF Bad
    <2> QED BY <1>2, <2>1, LeastSet
  <1>4. IsFiniteSet(T) /\ T \subseteq S /\ Sum(f, T) # Sum(g, T)
    BY FS_Subset
  <1>5. CASE T = {}
    BY <1>4, <1>5, SumUnfolds
  <1>6. CASE T # {}
    <2>1. First(T) \in T
      BY <1>6, FirstIn
    <2>2. T \ {First(T)} \notin Bad
      BY <1>3, <2>1
    <2>3. Sum(f, T \ {First(T)}) = Sum(g, T \ {First(T)})
      BY <1>4, <2>2
    <2>4. f[First(T)] = g[First(T)]
      BY <1>4, <2>1
    <2> QED BY <1>4, <1>6, <2>3, <2>4, SumUnfolds
  <1> QED BY <1>5, <1>6

-----------------------------------------------------------------------------
(* The automatic flushes: types *)

FlushTypes ==
    flush \in [AutoFlushes -> [
           pc : {"none", "started", "called", "over"}, of : Objects,
           callback : {"none", "pending", "remove", "notify", "done"},
           killed : BOOLEAN, size : 0..MaxQueued, failed : 0..MaxQueued]]
ControlTypes ==
    /\ impl \in Objects
    /\ enabler \in [Enablers -> [pc : {"new", "store", "call", "count", "done"}, of : Objects]]
    /\ notifier \in [pc : {"idle", "count"}, of : Objects]
    /\ disabler \in [pc : {"new", "wait", "ready"}, of : Objects]
    /\ isCancelled \subseteq Enablers
    /\ timer \in [Timers -> [pc : {"none", "sleeping", "add", "over"}, of : Objects]]
ListenerTypes ==
    /\ metrics \in Metrics /\ counted \in [Workers -> -1..MaxQueued]
    /\ recounted \in BOOLEAN
RestTypes ==
    /\ tasks \subseteq AutoFlushes /\ tokens \subseteq AutoFlushes /\ late \subseteq AutoFlushes
    /\ alive \in BOOLEAN /\ queueSize \in 0..MaxQueued /\ perFlush \in PerFlush

(* The parts of the type invariant.                                        *)
LEMMA TypeParts == TypeOK <=> ControlTypes /\ ListenerTypes /\ RestTypes /\ FlushTypes
  BY DEF TypeOK, ControlTypes, ListenerTypes, RestTypes, FlushTypes

(* What AddBackgroundFlushTask starts is one flush.                        *)
Starts(f, of) ==
    /\ flush[f].pc = "none"
    /\ flush' = [flush EXCEPT ![f].pc = "started", ![f].of = of]
    /\ late' = IF disabler.pc = "ready" /\ disabler.of = of THEN late \cup {f} ELSE late
    /\ metrics' = [metrics EXCEPT !.attempted = @ + 1]

(* The first of the flushes that have not been started.                    *)
LEMMA FirstUnstarted ==
    ASSUME NEW S \in SUBSET AutoFlushes, S # {}
    PROVE  \E i \in S : \A j \in S : i <= j
  <1>1. S \subseteq Nat
    BY DEF AutoFlushes
  <1>2. \E i \in S : \A j \in S : <<j, i>> \notin OpToRel(<, Nat)
    BY <1>1, NatLessThanWellFounded, WFMin
  <1>3. PICK i \in S : \A j \in S : <<j, i>> \notin OpToRel(<, Nat)
    BY <1>2
  <1>4. OpToRel(<, Nat) = {pair \in Nat \X Nat : pair[1] < pair[2]}
    BY Zenon DEF OpToRel
  <1> DEFINE less == OpToRel(<, Nat)
  <1>5. \A j \in S : <<j, i>> \notin less /\ less = {pair \in Nat \X Nat : pair[1] < pair[2]}
    BY <1>3, <1>4
  <1> HIDE DEF less
  <1>6. \A j \in S : ~(j < i)
    BY <1>1, <1>5
  <1> QED
    BY <1>1, <1>6

(* AddBackgroundFlushTask starts the first one that has not been.          *)
LEMMA AddEffect ==
    ASSUME NEW of, AddBackgroundFlushTask(of)
    PROVE  \E f \in AutoFlushes : Starts(f, of)
  <1> DEFINE f == CHOOSE g \in Unstarted : \A h \in Unstarted : g <= h
  <1>1. Unstarted \in SUBSET AutoFlushes /\ Unstarted # {}
    BY DEF Unstarted, AddBackgroundFlushTask
  <1>2. \E g \in Unstarted : \A h \in Unstarted : g <= h
    BY <1>1, FirstUnstarted
  <1>3. f \in Unstarted
    BY <1>2
  <1>4. /\ flush' = [flush EXCEPT ![f].pc = "started", ![f].of = of]
        /\ late' = IF disabler.pc = "ready" /\ disabler.of = of THEN late \cup {f} ELSE late
        /\ metrics' = [metrics EXCEPT !.attempted = @ + 1]
    BY Zenon DEF AddBackgroundFlushTask
  <1> HIDE DEF f
  <1>5. f \in AutoFlushes /\ flush[f].pc = "none"
    BY <1>3 DEF Unstarted
  <1> QED BY <1>4, <1>5 DEF Starts

(* A notification starts a flush or none.                                  *)
LEMMA CountEffect ==
    ASSUME NEW of, AutoFlushNumEvents(of)
    PROVE  \/ of # Nothing /\ \E f \in AutoFlushes : Starts(f, of)
           \/ NoFlush
  BY AddEffect DEF AutoFlushNumEvents

(* A step changes one flush.                                               *)
FlushRecord == [
    pc : {"none", "started", "called", "over"}, of : Objects,
    callback : {"none", "pending", "remove", "notify", "done"},
    killed : BOOLEAN, size : 0..MaxQueued, failed : 0..MaxQueued]
Becomes(f, r) ==
    /\ FlushTypes'
    /\ flush'[f].pc = r.pc /\ flush'[f].of = r.of /\ flush'[f].callback = r.callback
    /\ flush'[f].size = r.size /\ flush'[f].failed = r.failed
    /\ \A g \in AutoFlushes \ {f} : flush'[g] = flush[g]

(* The record of a flush.                                                  *)
LEMMA Typed == ASSUME FlushTypes, NEW f \in AutoFlushes PROVE flush[f] \in FlushRecord
  BY DEF FlushTypes, FlushRecord

(* To replace the record of one flush keeps the others, and the types.     *)
LEMMA PutBecomes ==
    ASSUME FlushTypes, NEW f \in AutoFlushes, NEW r \in FlushRecord, flush' = [flush EXCEPT ![f] = r]
    PROVE  Becomes(f, r)
  BY DEF FlushTypes, FlushRecord, Becomes

(* What becomes of a flush that is started (AddBackgroundFlushTask).       *)
LEMMA StartsEffect ==
    ASSUME FlushTypes, NEW f \in AutoFlushes, NEW of \in Objects, Starts(f, of)
    PROVE  Becomes(f, [flush[f] EXCEPT !.pc = "started", !.of = of])
  <1> DEFINE r == [flush[f] EXCEPT !.pc = "started", !.of = of]
  <1>1. r \in FlushRecord
    BY Typed DEF FlushRecord
  <1>2. flush' = [flush EXCEPT ![f] = r]
    BY DEF Starts
  <1> HIDE DEF r
  <1>3. Becomes(f, r)
    BY <1>1, <1>2, PutBecomes
  <1> QED BY <1>3 DEF r

(* Of one that asks the client.                                            *)
LEMMA AddTaskEffect ==
    ASSUME FlushTypes, NEW f \in AutoFlushes, AddTask(f)
    PROVE  Becomes(f, [flush[f] EXCEPT !.pc = "called", !.callback = "pending"])
  <1> DEFINE r == [flush[f] EXCEPT !.pc = "called", !.callback = "pending"]
  <1>1. r \in FlushRecord
    BY Typed DEF FlushRecord
  <1>2. flush' = [flush EXCEPT ![f] = r]
    BY DEF AddTask
  <1> HIDE DEF r
  <1>3. Becomes(f, r)
    BY <1>1, <1>2, PutBecomes
  <1> QED BY <1>3 DEF r

(* Of one whose token is kept.                                             *)
LEMMA AddCancelTokenEffect ==
    ASSUME FlushTypes, NEW f \in AutoFlushes, AddCancelToken(f)
    PROVE  Becomes(f, [flush[f] EXCEPT !.pc = "over"])
  <1> DEFINE r == [flush[f] EXCEPT !.pc = "over"]
  <1>1. r \in FlushRecord
    BY Typed DEF FlushRecord
  <1>2. flush' = [flush EXCEPT ![f] = r]
    BY DEF AddCancelToken
  <1> HIDE DEF r
  <1>3. Becomes(f, r)
    BY <1>1, <1>2, PutBecomes
  <1> QED BY <1>3 DEF r

(* Of one that the client answers: it publishes no more than is queued,    *)
(* and no more fail than it takes.                                         *)
LEMMA ReleaseEffect ==
    ASSUME AutoFlushAssumption, TypeOK, FlushTypes, NEW f \in AutoFlushes, ReleaseTask(f)
    PROVE  /\ queueSize' \in 0..MaxQueued
           /\ \E n \in 0..MaxQueued : \E failed \in 0..n :
                Becomes(f, [flush[f] EXCEPT !.callback = "remove", !.size = n, !.failed = failed])
  <1>1. Asked \in 0..queueSize /\ queueSize \in 0..MaxQueued /\ perFlush \in Int /\ MaxQueued \in Nat
    BY DEF Asked, TypeOK, AutoFlushAssumption
  <1>2. PICK n \in 0..Asked : \E failed \in 0..n :
            /\ queueSize' = queueSize - n
            /\ flush' = [flush EXCEPT ![f].callback = "remove", ![f].size = n, ![f].failed = failed]
    BY DEF ReleaseTask
  <1>3. PICK failed \in 0..n :
            /\ queueSize' = queueSize - n
            /\ flush' = [flush EXCEPT ![f].callback = "remove", ![f].size = n, ![f].failed = failed]
    BY <1>2
  <1>4. n \in 0..MaxQueued /\ failed \in 0..MaxQueued /\ queueSize' \in 0..MaxQueued
    BY <1>1, <1>3
  <1> DEFINE r == [flush[f] EXCEPT !.callback = "remove", !.size = n, !.failed = failed]
  <1>5. r \in FlushRecord
    BY <1>4, Typed DEF FlushRecord
  <1>6. flush' = [flush EXCEPT ![f] = r]
    BY <1>3
  <1> HIDE DEF r
  <1>7. Becomes(f, r)
    BY <1>5, <1>6, PutBecomes
  <1> QED BY <1>4, <1>7 DEF r

(* Of one whose token is removed.                                          *)
LEMMA RemoveTokenEffect ==
    ASSUME FlushTypes, NEW f \in AutoFlushes, RemoveCancelToken(f)
    PROVE  Becomes(f, [flush[f] EXCEPT !.callback = "notify"])
  <1> DEFINE r == [flush[f] EXCEPT !.callback = "notify"]
  <1>1. r \in FlushRecord
    BY Typed DEF FlushRecord
  <1>2. flush' = [flush EXCEPT ![f] = r]
    BY DEF RemoveCancelToken
  <1> HIDE DEF r
  <1>3. Becomes(f, r)
    BY <1>1, <1>2, PutBecomes
  <1> QED BY <1>3 DEF r

(* Of one whose listener is told (NotifyFlushEventResults).                *)
LEMMA NotifyEffect ==
    ASSUME FlushTypes, NEW f \in AutoFlushes, NEW w, NotifyFlushEventResults(w, f)
    PROVE  Becomes(f, [flush[f] EXCEPT !.callback = "done"])
  <1> DEFINE r == [flush[f] EXCEPT !.callback = "done"]
  <1>1. r \in FlushRecord
    BY Typed DEF FlushRecord
  <1>2. flush' = [flush EXCEPT ![f] = r]
    BY DEF NotifyFlushEventResults
  <1> HIDE DEF r
  <1>3. Becomes(f, r)
    BY <1>1, <1>2, PutBecomes
  <1> QED BY <1>3 DEF r

(* What stands for a flush but for whether it has been cancelled.          *)
Same(f) ==
    /\ flush'[f].pc = flush[f].pc /\ flush'[f].of = flush[f].of
    /\ flush'[f].callback = flush[f].callback
    /\ flush'[f].size = flush[f].size /\ flush'[f].failed = flush[f].failed

(* A cancelled flush is where it was (Cancel).                             *)
LEMMA CancelEffect ==
    ASSUME FlushTypes, NEW e, Cancel(e) \/ UNCHANGED flush
    PROVE  FlushTypes' /\ \A f \in AutoFlushes : Same(f)
  <1>1. CASE UNCHANGED flush
    BY <1>1 DEF FlushTypes, Same
  <1>2. CASE Cancel(e)
    <2>1. flush' = [f \in AutoFlushes |->
              IF f \in tokens \cap Of(e) THEN [flush[f] EXCEPT !.killed = TRUE] ELSE flush[f]]
      BY <1>2 DEF Cancel
    <2>2. ASSUME NEW f \in AutoFlushes PROVE Same(f) /\ flush'[f] \in FlushRecord
      <3>1. flush[f] \in FlushRecord
        BY Typed
      <3>2. flush'[f] = flush[f] \/ flush'[f] = [flush[f] EXCEPT !.killed = TRUE]
        BY <2>1
      <3> QED BY <3>1, <3>2 DEF FlushRecord, Same
    <2> QED BY <2>1, <2>2 DEF FlushTypes, FlushRecord
  <1> QED BY <1>1, <1>2

(* The flushes, the metrics and what Disable has not waited for keep their *)
(* types when a flush is started.                                          *)
StartedTyped == FlushTypes' /\ metrics' \in Metrics /\ late' \subseteq AutoFlushes

(* A flush that starts keeps the types.                                    *)
LEMMA StartTyped ==
    ASSUME TypeOK, NEW f \in AutoFlushes, NEW of \in Objects, Starts(f, of)
    PROVE  StartedTyped
  <1>1. FlushTypes'
    BY StartsEffect, TypeParts DEF Becomes
  <1>2. metrics' \in Metrics /\ late' \subseteq AutoFlushes
    BY DEF TypeOK, Starts, Metrics
  <1> QED BY <1>1, <1>2 DEF StartedTyped

(* And so does one that does not.                                          *)
LEMMA NoFlushTyped == TypeOK /\ NoFlush => StartedTyped
  BY DEF TypeOK, NoFlush, StartedTyped, FlushTypes

(* Steps that leave the flushes alone, with the listener.                  *)
LEMMA QuietTyped ==
    ASSUME TypeOK, UNCHANGED flush, UNCHANGED metrics, UNCHANGED listenerVars
    PROVE  FlushTypes' /\ ListenerTypes'
  BY DEF TypeOK, listenerVars, FlushTypes, ListenerTypes

(* Every step keeps the types.                                             *)
LEMMA FlushTypeStep ==
    ASSUME AutoFlushAssumption, TypeOK, [Next]_autoVars
    PROVE  ControlTypes' /\ ListenerTypes' /\ RestTypes' /\ FlushTypes'
  <1> DEFINE Goal == ControlTypes' /\ ListenerTypes' /\ RestTypes' /\ FlushTypes'
  <1>0. FlushTypes
    BY TypeParts
  <1>1. ASSUME NEW e \in Enablers, Enable(e) PROVE Goal
    BY <1>1, QuietTyped DEF Enable, TypeOK, clientVars, ControlTypes, RestTypes
  <1>2. ASSUME NEW e \in Enablers, Store(e) PROVE Goal
    BY <1>2, QuietTyped DEF Store, TypeOK, clientVars, Objects, ControlTypes, RestTypes
  <1>3. ASSUME NEW e \in Enablers, InitialiseAutoFlushInterval(e) PROVE Goal
    <2>1. UNCHANGED timer \/ TriggerAutoFlushInterval(impl)
      BY <1>3 DEF InitialiseAutoFlushInterval
    <2>2. timer' \in [Timers -> [pc : {"none", "sleeping", "add", "over"}, of : Objects]]
      BY <2>1 DEF TriggerAutoFlushInterval, TypeOK
    <2> QED
      BY <1>3, <2>2, QuietTyped
      DEF InitialiseAutoFlushInterval, TypeOK, clientVars, ControlTypes, RestTypes
  <1>4. ASSUME NEW of \in Objects, AutoFlushNumEvents(of) PROVE StartedTyped
    BY <1>4, CountEffect, StartTyped, NoFlushTyped
  <1>5. ASSUME NEW e \in Enablers, EnableCounts(e) PROVE Goal
    <2>1. enabler[e].of \in Objects
      BY DEF TypeOK
    <2>2. StartedTyped
      BY <1>4, <1>5, <2>1 DEF EnableCounts
    <2> QED
      BY <1>5, <2>2
      DEF EnableCounts, TypeOK, clientVars, ControlTypes, ListenerTypes, RestTypes, StartedTyped
  <1>6. CASE NotifyQueueEventComplete
    BY <1>6, QuietTyped
    DEF NotifyQueueEventComplete, TypeOK, AutoFlushAssumption, ControlTypes, RestTypes
  <1>7. CASE HandleNotifyQueueEventComplete
    <2>1. notifier.of \in Objects
      BY DEF TypeOK
    <2>2. StartedTyped
      BY <1>4, <1>7, <2>1 DEF HandleNotifyQueueEventComplete
    <2> QED
      BY <1>7, <2>2
      DEF HandleNotifyQueueEventComplete, TypeOK, clientVars, ControlTypes, ListenerTypes,
          RestTypes, Objects, StartedTyped
  <1>8. CASE Disable
    <2>1. ControlTypes'
      BY <1>8 DEF Disable, TypeOK, ControlTypes, Objects, Cancel
    <2>2. ListenerTypes' /\ RestTypes'
      BY <1>8 DEF Disable, TypeOK, clientVars, listenerVars, ListenerTypes, RestTypes
    <2>3. FlushTypes'
      BY <1>0, <1>8, CancelEffect DEF Disable
    <2> QED BY <2>1, <2>2, <2>3
  <1>9. CASE WaitForBackgroundTaskCompletion
    BY <1>9, QuietTyped
    DEF WaitForBackgroundTaskCompletion, TypeOK, clientVars, Of, ControlTypes, RestTypes
  <1>10. CASE DropClient
    BY <1>10, QuietTyped DEF DropClient, TypeOK, controlVars, ControlTypes, RestTypes
  <1>11. ASSUME NEW t \in Timers, WakeUp(t) PROVE Goal
    BY <1>11, QuietTyped DEF WakeUp, TypeOK, clientVars, controlVars, ControlTypes, RestTypes
  <1>12. ASSUME NEW t \in Timers, Interval(t) PROVE Goal
    <2>1. timer[t].of \in Objects
      BY DEF TypeOK
    <2>2. StartedTyped
      BY <1>12, <2>1, AddEffect, StartTyped, NoFlushTyped DEF Interval
    <2> QED
      BY <1>12, <2>2
      DEF Interval, TypeOK, clientVars, controlVars, ControlTypes, ListenerTypes, RestTypes,
          StartedTyped
  <1>13. ASSUME NEW f \in AutoFlushes, AddTask(f) PROVE Goal
    <2>1. FlushTypes'
      BY <1>0, <1>13, AddTaskEffect DEF Becomes
    <2> QED
      BY <1>13, <2>1
      DEF AddTask, TypeOK, clientVars, controlVars, listenerVars, ControlTypes, RestTypes,
          ListenerTypes
  <1>14. ASSUME NEW f \in AutoFlushes, AddCancelToken(f) PROVE Goal
    <2>1. FlushTypes'
      BY <1>0, <1>14, AddCancelTokenEffect DEF Becomes
    <2> QED
      BY <1>14, <2>1
      DEF AddCancelToken, TypeOK, clientVars, controlVars, listenerVars, ControlTypes, RestTypes,
          ListenerTypes
  <1>15. ASSUME NEW f \in AutoFlushes, ReleaseTask(f) PROVE Goal
    <2>1. FlushTypes' /\ queueSize' \in 0..MaxQueued
      BY <1>0, <1>15, ReleaseEffect DEF Becomes
    <2> QED
      BY <1>15, <2>1
      DEF ReleaseTask, TypeOK, controlVars, listenerVars, ControlTypes, RestTypes, ListenerTypes
  <1>16. ASSUME NEW f \in AutoFlushes, RemoveCancelToken(f) PROVE Goal
    <2>1. FlushTypes'
      BY <1>0, <1>16, RemoveTokenEffect DEF Becomes
    <2> QED
      BY <1>16, <2>1
      DEF RemoveCancelToken, TypeOK, clientVars, controlVars, listenerVars, ControlTypes, RestTypes,
          ListenerTypes
  <1>17. ASSUME NEW f \in AutoFlushes, NEW w \in Workers, NotifyFlushEventResults(w, f) PROVE Goal
    <2>1. Counted(w, f) \in 0..MaxQueued /\ flush[f].size \in Nat
      BY DEF Counted, TypeOK, AutoFlushAssumption
    <2>2. metrics \in Metrics /\ counted \in [Workers -> -1..MaxQueued]
      BY DEF TypeOK
    <2>3. metrics' \in Metrics
      <3>1. CASE CollateFlushEventResults(w, f)
        <4>1. metrics' = [attempted |-> metrics.attempted,
                          failed |-> IF Counted(w, f) > 0 THEN metrics.failed + 1 ELSE metrics.failed,
                          total |-> metrics.total + 1,
                          requests |-> metrics.requests + flush[f].size,
                          failedRequests |-> metrics.failedRequests + Counted(w, f)]
          BY <2>2, <3>1 DEF CollateFlushEventResults, Metrics
        <4> QED BY <2>1, <2>2, <4>1 DEF Metrics, AutoFlushAssumption
      <3>2. CASE metrics' = [metrics EXCEPT !.total = @ + 1, !.failed = @ + 1]
        <4>1. metrics' = [attempted |-> metrics.attempted, failed |-> metrics.failed + 1,
                          total |-> metrics.total + 1, requests |-> metrics.requests,
                          failedRequests |-> metrics.failedRequests]
          BY <2>2, <3>2 DEF Metrics
        <4> QED BY <2>2, <4>1 DEF Metrics
      <3> QED BY <1>17, <3>1, <3>2 DEF NotifyFlushEventResults
    <2>4. counted' \in [Workers -> -1..MaxQueued] /\ recounted' \in BOOLEAN
      <3>1. \/ UNCHANGED <<counted, recounted>>
            \/ /\ counted' = [counted EXCEPT ![w] = Counted(w, f)]
               /\ recounted' = (recounted \/ counted[w] # -1)
        BY <1>17 DEF NotifyFlushEventResults
      <3>2. Counted(w, f) \in -1..MaxQueued
        BY <2>1 DEF AutoFlushAssumption
      <3>3. counted' \in [Workers -> -1..MaxQueued]
        BY <2>2, <3>1, <3>2
      <3>4. recounted' \in BOOLEAN
        BY <3>1 DEF TypeOK
      <3> QED BY <3>3, <3>4
    <2>5. FlushTypes'
      BY <1>0, <1>17, NotifyEffect DEF Becomes
    <2> QED
      BY <1>17, <2>3, <2>4, <2>5
      DEF NotifyFlushEventResults, TypeOK, clientVars, controlVars, ControlTypes, RestTypes,
          ListenerTypes
  <1>18. CASE UNCHANGED autoVars
    BY <1>18, QuietTyped DEF autoVars, TypeOK, clientVars, controlVars, ControlTypes, RestTypes
  <1> QED
    BY <1>1, <1>2, <1>3, <1>5, <1>6, <1>7, <1>8, <1>9, <1>10, <1>11, <1>12, <1>13, <1>14, <1>15,
       <1>16,
       <1>17, <1>18 DEF Next, FlushStep

-----------------------------------------------------------------------------
(* The automatic flushes: where each of them is *)

(* A flush that is not announced is nobody's; its thread asks the client,  *)
(* which calls back; it is a background task until then; and it fails to   *)
(* publish no more than it took.                                           *)
Stage(f) ==
    /\ flush[f].pc = "none" => flush[f].of = Nothing
    /\ flush[f].pc \in {"none", "started"} <=> flush[f].callback = "none"
    /\ f \in tasks <=> flush[f].callback = "pending"
    /\ flush[f].failed <= flush[f].size
Stages == \A f \in AutoFlushes : Stage(f)

(* What is cancelled is no more in impl_, and was there.                   *)
CancelledGone ==
    /\ impl \notin isCancelled
    /\ \A e \in Enablers : enabler[e].pc \in {"new", "store"} => e \notin isCancelled \cup {impl}

(* What a step does to the flushes: nothing, or it starts one, or one      *)
(* makes a step.                                                           *)
Still ==
    /\ \A f \in AutoFlushes : Same(f)
    /\ UNCHANGED <<tasks, metrics, recounted>>
Starting ==
    /\ \E f \in AutoFlushes, of \in Objects : Starts(f, of)
    /\ UNCHANGED <<tasks, recounted>>

(* Every step is one of these three.                                       *)
LEMMA FlushMoves ==
    ASSUME TypeOK, [Next]_autoVars
    PROVE  Still \/ Starting \/ \E f \in AutoFlushes : FlushStep(f)
  <1>1. UNCHANGED flush => \A f \in AutoFlushes : Same(f)
    BY DEF Same
  <1>2. FlushTypes
    BY TypeParts
  <1>3. ASSUME NEW of \in Objects, AutoFlushNumEvents(of), UNCHANGED <<tasks, recounted>>
        PROVE  Still \/ Starting
    BY <1>1, <1>3, CountEffect DEF NoFlush, Still, Starting
  <1>4. ASSUME NEW e \in Enablers,
               Enable(e) \/ Store(e) \/ InitialiseAutoFlushInterval(e)
        PROVE  Still
    BY <1>1, <1>4 DEF Enable, Store, InitialiseAutoFlushInterval, listenerVars, Still
  <1>5. ASSUME NEW e \in Enablers, EnableCounts(e) PROVE Still \/ Starting
    <2>1. enabler[e].of \in Objects
      BY DEF TypeOK
    <2> QED BY <1>3, <1>5, <2>1 DEF EnableCounts
  <1>6. CASE NotifyQueueEventComplete
    BY <1>1, <1>6 DEF NotifyQueueEventComplete, listenerVars, Still
  <1>7. CASE HandleNotifyQueueEventComplete
    <2>1. notifier.of \in Objects
      BY DEF TypeOK
    <2> QED BY <1>3, <1>7, <2>1 DEF HandleNotifyQueueEventComplete
  <1>8. CASE Disable
    <2>1. \A f \in AutoFlushes : Same(f)
      BY <1>2, <1>8, CancelEffect DEF Disable
    <2> QED BY <1>8, <2>1 DEF Disable, listenerVars, Still
  <1>9. CASE WaitForBackgroundTaskCompletion \/ DropClient
    BY <1>1, <1>9 DEF WaitForBackgroundTaskCompletion, DropClient, listenerVars, Still
  <1>10. ASSUME NEW t \in Timers, WakeUp(t) PROVE Still
    BY <1>1, <1>10 DEF WakeUp, listenerVars, Still
  <1>11. ASSUME NEW t \in Timers, Interval(t) PROVE Still \/ Starting
    <2>1. timer[t].of \in Objects
      BY DEF TypeOK
    <2> QED BY <1>1, <1>11, <2>1, AddEffect DEF Interval, NoFlush, Still, Starting
  <1>12. CASE UNCHANGED autoVars
    BY <1>1, <1>12 DEF autoVars, listenerVars, Still
  <1> QED
    BY <1>4, <1>5, <1>6, <1>7, <1>8, <1>9, <1>10, <1>11, <1>12 DEF Next

(* Each flush stays in its stage: by the step of the flush itself.         *)
LEMMA StagesStep ==
    ASSUME AutoFlushAssumption, TypeOK, Stages, [Next]_autoVars
    PROVE  Stages'
  <1>0. FlushTypes /\ \A f \in AutoFlushes : flush[f] \in FlushRecord /\ Stage(f)
    BY TypeParts, Typed DEF Stages
  <1>1. CASE Still
    BY <1>0, <1>1 DEF Still, Same, Stages, Stage
  <1>2. CASE Starting
    <2>1. PICK f \in AutoFlushes, of \in Objects : Starts(f, of)
      BY <1>2 DEF Starting
    <2>2. Becomes(f, [flush[f] EXCEPT !.pc = "started", !.of = of])
      BY <1>0, <2>1, StartsEffect
    <2>3. flush[f].pc = "none" /\ UNCHANGED tasks
      BY <1>2, <2>1 DEF Starts, Starting
    <2>4. Stage(f)'
      BY <1>0, <2>2, <2>3 DEF Becomes, Stage, FlushRecord
    <2>5. \A g \in AutoFlushes \ {f} : Stage(g)'
      BY <1>0, <2>2, <2>3 DEF Becomes, Stage
    <2> QED BY <2>4, <2>5 DEF Stages
  <1>3. ASSUME NEW f \in AutoFlushes, AddTask(f) PROVE Stages'
    <2>1. Becomes(f, [flush[f] EXCEPT !.pc = "called", !.callback = "pending"])
      BY <1>0, <1>3, AddTaskEffect
    <2>2. flush[f].pc = "started" /\ tasks' = tasks \cup {f}
      BY <1>3 DEF AddTask
    <2>3. Stage(f)'
      BY <1>0, <2>1, <2>2 DEF Becomes, Stage, FlushRecord
    <2>4. \A g \in AutoFlushes \ {f} : Stage(g)'
      BY <1>0, <2>1, <2>2 DEF Becomes, Stage
    <2> QED BY <2>3, <2>4 DEF Stages
  <1>4. ASSUME NEW f \in AutoFlushes, AddCancelToken(f) PROVE Stages'
    <2>1. Becomes(f, [flush[f] EXCEPT !.pc = "over"])
      BY <1>0, <1>4, AddCancelTokenEffect
    <2>2. flush[f].pc = "called" /\ UNCHANGED tasks
      BY <1>4 DEF AddCancelToken
    <2>3. Stage(f)'
      BY <1>0, <2>1, <2>2 DEF Becomes, Stage, FlushRecord
    <2>4. \A g \in AutoFlushes \ {f} : Stage(g)'
      BY <1>0, <2>1, <2>2 DEF Becomes, Stage
    <2> QED BY <2>3, <2>4 DEF Stages
  <1>5. ASSUME NEW f \in AutoFlushes, ReleaseTask(f) PROVE Stages'
    <2>1. PICK n \in 0..MaxQueued : \E failed \in 0..n :
              Becomes(f, [flush[f] EXCEPT !.callback = "remove", !.size = n, !.failed = failed])
      BY <1>0, <1>5, ReleaseEffect
    <2>2. PICK failed \in 0..n :
              Becomes(f, [flush[f] EXCEPT !.callback = "remove", !.size = n, !.failed = failed])
      BY <2>1
    <2>3. flush[f].callback = "pending" /\ tasks' = tasks \ {f} /\ failed <= n
      BY <1>5 DEF ReleaseTask
    <2>4. Stage(f)'
      BY <1>0, <2>2, <2>3 DEF Becomes, Stage, FlushRecord
    <2>5. \A g \in AutoFlushes \ {f} : Stage(g)'
      BY <1>0, <2>2, <2>3 DEF Becomes, Stage
    <2> QED BY <2>4, <2>5 DEF Stages
  <1>6. ASSUME NEW f \in AutoFlushes, RemoveCancelToken(f) PROVE Stages'
    <2>1. Becomes(f, [flush[f] EXCEPT !.callback = "notify"])
      BY <1>0, <1>6, RemoveTokenEffect
    <2>2. flush[f].callback = "remove" /\ UNCHANGED tasks
      BY <1>6 DEF RemoveCancelToken
    <2>3. Stage(f)'
      BY <1>0, <2>1, <2>2 DEF Becomes, Stage, FlushRecord
    <2>4. \A g \in AutoFlushes \ {f} : Stage(g)'
      BY <1>0, <2>1, <2>2 DEF Becomes, Stage
    <2> QED BY <2>3, <2>4 DEF Stages
  <1>7. ASSUME NEW f \in AutoFlushes, NEW w \in Workers, NotifyFlushEventResults(w, f) PROVE Stages'
    <2>1. Becomes(f, [flush[f] EXCEPT !.callback = "done"])
      BY <1>0, <1>7, NotifyEffect
    <2>2. flush[f].callback = "notify" /\ UNCHANGED tasks
      BY <1>7 DEF NotifyFlushEventResults
    <2>3. Stage(f)'
      BY <1>0, <2>1, <2>2 DEF Becomes, Stage, FlushRecord
    <2>4. \A g \in AutoFlushes \ {f} : Stage(g)'
      BY <1>0, <2>1, <2>2 DEF Becomes, Stage
    <2> QED BY <2>3, <2>4 DEF Stages
  <1> QED BY <1>1, <1>2, <1>3, <1>4, <1>5, <1>6, <1>7, FlushMoves DEF FlushStep

(* Nobody stores a cancelled object into impl_ again: Enable stores one of *)
(* its own, which is not cancelled before (Store, Disable).                *)
LEMMA CancelledGoneStep ==
    ASSUME AutoFlushAssumption, TypeOK, CancelledGone, [Next]_autoVars
    PROVE  CancelledGone'
  <1>1. ASSUME NEW e \in Enablers, Enable(e) PROVE CancelledGone'
    BY <1>1 DEF Enable, CancelledGone, TypeOK
  <1>2. ASSUME NEW e \in Enablers, Store(e) PROVE CancelledGone'
    BY <1>2 DEF Store, CancelledGone, TypeOK
  <1>3. ASSUME NEW e \in Enablers, InitialiseAutoFlushInterval(e) PROVE CancelledGone'
    BY <1>3 DEF InitialiseAutoFlushInterval, CancelledGone, TypeOK
  <1>4. ASSUME NEW e \in Enablers, EnableCounts(e) PROVE CancelledGone'
    BY <1>4 DEF EnableCounts, CancelledGone, TypeOK
  <1>5. CASE NotifyQueueEventComplete \/ HandleNotifyQueueEventComplete
    BY <1>5 DEF NotifyQueueEventComplete, HandleNotifyQueueEventComplete, CancelledGone
  <1>6. CASE Disable
    <2>1. \/ impl = Nothing /\ UNCHANGED isCancelled
          \/ impl # Nothing /\ isCancelled' = isCancelled \cup {impl}
      BY <1>6 DEF Disable, Cancel
    <2>2. impl' = Nothing /\ UNCHANGED enabler
      BY <1>6 DEF Disable
    <2> QED BY <2>1, <2>2 DEF CancelledGone, TypeOK, Objects, AutoFlushAssumption
  <1>7. CASE WaitForBackgroundTaskCompletion \/ DropClient
    BY <1>7 DEF WaitForBackgroundTaskCompletion, DropClient, controlVars, CancelledGone
  <1>8. ASSUME NEW t \in Timers, WakeUp(t) \/ Interval(t) PROVE CancelledGone'
    BY <1>8 DEF WakeUp, Interval, controlVars, CancelledGone
  <1>9. ASSUME NEW f \in AutoFlushes, FlushStep(f) PROVE CancelledGone'
    BY <1>9 DEF FlushStep, AddTask, AddCancelToken, ReleaseTask, RemoveCancelToken,
                NotifyFlushEventResults, controlVars, CancelledGone
  <1>10. CASE UNCHANGED autoVars
    BY <1>10 DEF autoVars, controlVars, CancelledGone
  <1> QED BY <1>1, <1>2, <1>3, <1>4, <1>5, <1>6, <1>7, <1>8, <1>9, <1>10 DEF Next

-----------------------------------------------------------------------------
(* The automatic flushes: when Disable is done *)

(* Whom a step may hurt: a flush of the disabled object that starts is     *)
(* late, and one that has called back does not go back.                    *)
Calm(f) == flush[f].callback \in {"remove", "notify", "done"}

(* Flushes that stay late or calm.                                         *)
LEMMA CalmKept ==
    ASSUME TypeOK, Stages, QuietAfterDisable, UNCHANGED disabler, UNCHANGED late,
           NEW f \in AutoFlushes, flush'[f].of = flush[f].of,
           Calm(f) => Calm(f)', \A g \in AutoFlushes \ {f} : Same(g)
    PROVE  QuietAfterDisable'
  <1> SUFFICES ASSUME disabler.pc = "ready", disabler.of # Nothing,
                      NEW g \in Of(disabler.of)' \ late
               PROVE  Calm(g)'
    BY DEF QuietAfterDisable, Calm
  <1>1. g \in AutoFlushes /\ flush[g].of = disabler.of
    BY DEF Of, Same
  <1>2. Calm(g)
    BY <1>1 DEF QuietAfterDisable, Of, Calm
  <1> QED BY <1>1, <1>2 DEF Calm, Same

(* Steps that are no flush's.                                              *)
LEMMA StillCalm ==
    ASSUME QuietAfterDisable, UNCHANGED disabler, UNCHANGED late, \A f \in AutoFlushes : Same(f)
    PROVE  QuietAfterDisable'
  BY DEF QuietAfterDisable, Of, Same

(* A flush that starts once Disable is done is late.                       *)
LEMMA StartedLate ==
    ASSUME FlushTypes, QuietAfterDisable, UNCHANGED disabler, NEW f \in AutoFlushes,
           NEW of \in Objects, Starts(f, of)
    PROVE  QuietAfterDisable'
  <1>1. Becomes(f, [flush[f] EXCEPT !.pc = "started", !.of = of])
    BY StartsEffect
  <1>2. flush'[f].of = of /\ \A g \in AutoFlushes \ {f} : flush'[g] = flush[g]
    BY <1>1, Typed DEF Becomes, FlushRecord
  <1> SUFFICES ASSUME disabler.pc = "ready", disabler.of # Nothing,
                      NEW g \in Of(disabler.of)' \ late'
               PROVE  Calm(g)'
    BY DEF QuietAfterDisable, Calm
  <1>3. g \in AutoFlushes /\ flush'[g].of = disabler.of
    BY DEF Of
  <1>4. late \subseteq late' /\ (of = disabler.of => f \in late')
    BY DEF Starts
  <1>5. g # f
    BY <1>2, <1>3, <1>4
  <1>6. g \in Of(disabler.of) \ late
    BY <1>2, <1>3, <1>4, <1>5 DEF Of
  <1> QED BY <1>2, <1>3, <1>5, <1>6 DEF QuietAfterDisable, Calm

(* Disable is not done before the tasks of its object are: a flush that is *)
(* not a task then has called back, or is late                             *)
(* (AutoFlushController::Disable).                                         *)
LEMMA QuietStep ==
    ASSUME AutoFlushAssumption, TypeOK, Stages, QuietAfterDisable, [Next]_autoVars
    PROVE  QuietAfterDisable'
  <1>0. FlushTypes /\ \A f \in AutoFlushes : flush[f] \in FlushRecord /\ Stage(f)
    BY TypeParts, Typed DEF Stages
  <1>1. UNCHANGED flush => \A f \in AutoFlushes : Same(f)
    BY DEF Same
  <1>2. ASSUME NEW of \in Objects, AutoFlushNumEvents(of), UNCHANGED disabler
        PROVE  QuietAfterDisable'
    BY <1>0, <1>1, <1>2, CountEffect, StillCalm, StartedLate DEF NoFlush
  <1>3. ASSUME NEW e \in Enablers,
               Enable(e) \/ Store(e) \/ InitialiseAutoFlushInterval(e) \/ EnableCounts(e)
        PROVE  QuietAfterDisable'
    <2>1. enabler[e].of \in Objects
      BY DEF TypeOK
    <2> QED
      BY <1>1, <1>2, <1>3, <2>1, StillCalm
      DEF Enable, Store, InitialiseAutoFlushInterval, EnableCounts
  <1>4. CASE NotifyQueueEventComplete \/ HandleNotifyQueueEventComplete
    <2>1. notifier.of \in Objects
      BY DEF TypeOK
    <2> QED
      BY <1>1, <1>2, <1>4, <2>1, StillCalm
      DEF NotifyQueueEventComplete, HandleNotifyQueueEventComplete
  <1>5. CASE Disable
    <2>1. disabler' = [pc |-> IF impl = Nothing THEN "ready" ELSE "wait", of |-> impl]
      BY <1>5 DEF Disable
    <2> QED BY <2>1 DEF QuietAfterDisable
  <1>6. CASE WaitForBackgroundTaskCompletion
    <2>1. /\ UNCHANGED flush /\ tasks \cap Of(disabler.of) = {}
          /\ disabler'.of = disabler.of
          /\ late' = {f \in Of(disabler.of) : flush[f].pc = "started"}
      BY <1>6 DEF WaitForBackgroundTaskCompletion, TypeOK
    <2> SUFFICES ASSUME disabler.of # Nothing, NEW f \in Of(disabler.of) \ late'
                 PROVE  Calm(f)
      BY <2>1 DEF QuietAfterDisable, Of, Calm
    <2>2. f \in AutoFlushes /\ flush[f].of # Nothing /\ flush[f].pc # "started" /\ f \notin tasks
      BY <2>1 DEF Of
    <2>3. flush[f].callback # "none" /\ flush[f].callback # "pending"
      BY <1>0, <2>2 DEF Stage, FlushRecord
    <2> QED BY <1>0, <2>2, <2>3 DEF Calm, FlushRecord
  <1>7. CASE DropClient
    BY <1>1, <1>7, StillCalm DEF DropClient, controlVars
  <1>8. ASSUME NEW t \in Timers, WakeUp(t) PROVE QuietAfterDisable'
    BY <1>1, <1>8, StillCalm DEF WakeUp, controlVars
  <1>9. ASSUME NEW t \in Timers, Interval(t) PROVE QuietAfterDisable'
    <2>1. timer[t].of \in Objects
      BY DEF TypeOK
    <2> QED
      BY <1>0, <1>1, <1>9, <2>1, AddEffect, StillCalm, StartedLate
      DEF Interval, NoFlush, controlVars
  <1>10. ASSUME NEW f \in AutoFlushes, FlushStep(f) PROVE QuietAfterDisable'
    <2>1. UNCHANGED disabler /\ UNCHANGED late
      BY <1>10
      DEF FlushStep, AddTask, AddCancelToken, ReleaseTask, RemoveCancelToken,
          NotifyFlushEventResults, controlVars
    <2>2. /\ flush'[f].of = flush[f].of /\ (Calm(f) => Calm(f)')
          /\ \A g \in AutoFlushes \ {f} : flush'[g] = flush[g]
      <3>1. CASE AddTask(f)
        <4>1. flush[f].callback = "none"
          BY <1>0, <3>1 DEF AddTask, Stage
        <4> QED BY <1>0, <3>1, <4>1, AddTaskEffect DEF Becomes, FlushRecord, Calm
      <3>2. CASE AddCancelToken(f)
        BY <1>0, <3>2, AddCancelTokenEffect DEF Becomes, FlushRecord, Calm
      <3>3. CASE ReleaseTask(f)
        BY <1>0, <3>3, ReleaseEffect DEF Becomes, FlushRecord, Calm
      <3>4. CASE RemoveCancelToken(f)
        BY <1>0, <3>4, RemoveTokenEffect DEF Becomes, FlushRecord, Calm
      <3>5. ASSUME NEW w \in Workers, NotifyFlushEventResults(w, f)
            PROVE  /\ flush'[f].of = flush[f].of /\ (Calm(f) => Calm(f)')
                   /\ \A g \in AutoFlushes \ {f} : flush'[g] = flush[g]
        BY <1>0, <3>5, NotifyEffect DEF Becomes, FlushRecord, Calm
      <3> QED BY <1>10, <3>1, <3>2, <3>3, <3>4, <3>5 DEF FlushStep
    <2>3. \A g \in AutoFlushes \ {f} : Same(g)
      BY <2>2 DEF Same
    <2> QED BY <2>1, <2>2, <2>3, CalmKept
  <1>11. CASE UNCHANGED autoVars
    BY <1>1, <1>11, StillCalm DEF autoVars, controlVars
  <1> QED BY <1>3, <1>4, <1>5, <1>6, <1>7, <1>8, <1>9, <1>10, <1>11 DEF Next

-----------------------------------------------------------------------------
(* The automatic flushes: what is cancelled ends *)

(* The threads that FewerFlushes counts.                                   *)
Intervals(e) == {t \in Timers : timer[t] = [pc |-> "add", of |-> e]}
Counters(e) == {c \in Enablers : enabler[c] = [pc |-> "count", of |-> e]}
Notifiers(e) == IF notifier = [pc |-> "count", of |-> e] THEN 1 ELSE 0
Fewer(e) == Cardinality(Of(e))' + Committed(e)' <= Cardinality(Of(e)) + Committed(e)

(* The sets that are counted are finite.                                   *)
LEMMA SmallSets ==
    ASSUME AutoFlushAssumption, NEW S, S \subseteq AutoFlushes \/ S \subseteq Timers \/ S \subseteq Enablers
    PROVE  IsFiniteSet(S) /\ Cardinality(S) \in Nat
  <1>1. IsFiniteSet(AutoFlushes) /\ IsFiniteSet(Timers) /\ IsFiniteSet(Enablers)
    BY FS_Interval DEF AutoFlushes, AutoFlushAssumption
  <1>2. IsFiniteSet(S)
    BY <1>1, FS_Subset
  <1> QED BY <1>2, FS_CardinalityType

(* A subset is no larger.                                                  *)
LEMMA SmallerSet ==
    ASSUME NEW S, NEW T, IsFiniteSet(S), T \subseteq S
    PROVE  Cardinality(T) <= Cardinality(S)
  BY FS_Subset

(* One more element is one more at most.                                   *)
LEMMA OneMore ==
    ASSUME NEW S, NEW T, NEW x, IsFiniteSet(S), T \subseteq S \cup {x}
    PROVE  Cardinality(T) <= Cardinality(S) + 1
  <1>1. IsFiniteSet(S \cup {x}) /\ Cardinality(S \cup {x}) <= Cardinality(S) + 1
    <2>1. Cardinality(S) \in Nat
      BY FS_CardinalityType
    <2>2. IsFiniteSet(S \cup {x})
      BY FS_AddElement
    <2>3. Cardinality(S \cup {x}) = Cardinality(S) \/ Cardinality(S \cup {x}) = Cardinality(S) + 1
      BY FS_AddElement
    <2> QED BY <2>1, <2>2, <2>3
  <1>2. Cardinality(T) <= Cardinality(S \cup {x})
    BY <1>1, SmallerSet
  <1>3. Cardinality(T) \in Nat /\ Cardinality(S) \in Nat /\ Cardinality(S \cup {x}) \in Nat
    BY <1>1, FS_CardinalityType, FS_Subset
  <1> QED BY <1>1, <1>2, <1>3

(* One element less is one less at least.                                  *)
LEMMA OneLess ==
    ASSUME NEW S, NEW T, NEW x \in S, IsFiniteSet(S), T \subseteq S \ {x}
    PROVE  Cardinality(T) <= Cardinality(S) - 1
  <1>1. IsFiniteSet(S \ {x}) /\ Cardinality(S \ {x}) = Cardinality(S) - 1
    BY FS_RemoveElement
  <1> QED BY <1>1, SmallerSet

(* It is enough that the flushes grow by no more than the threads shrink.  *)
LEMMA FewerSum ==
    ASSUME AutoFlushAssumption, NEW e, NEW a \in Int, NEW b \in Int, NEW c \in Int, NEW d \in Int,
           Cardinality(Of(e))' <= Cardinality(Of(e)) + a,
           Cardinality(Intervals(e))' <= Cardinality(Intervals(e)) + b,
           Cardinality(Counters(e))' <= Cardinality(Counters(e)) + c,
           Notifiers(e)' <= Notifiers(e) + d,
           a + b + c + d <= 0
    PROVE  Fewer(e)
  <1>1. /\ Of(e) \subseteq AutoFlushes /\ Of(e)' \subseteq AutoFlushes
        /\ Intervals(e) \subseteq Timers /\ Intervals(e)' \subseteq Timers
        /\ Counters(e) \subseteq Enablers /\ Counters(e)' \subseteq Enablers
    BY DEF Of, Intervals, Counters
  <1>2. /\ Cardinality(Of(e)) \in Nat /\ Cardinality(Of(e))' \in Nat
        /\ Cardinality(Intervals(e)) \in Nat /\ Cardinality(Intervals(e))' \in Nat
        /\ Cardinality(Counters(e)) \in Nat /\ Cardinality(Counters(e))' \in Nat
        /\ Notifiers(e) \in Nat /\ Notifiers(e)' \in Nat
    BY <1>1, SmallSets DEF Notifiers
  <1>3. /\ Committed(e) = Cardinality(Intervals(e)) + Cardinality(Counters(e)) + Notifiers(e)
        /\ Committed(e)' = Cardinality(Intervals(e))' + Cardinality(Counters(e))' + Notifiers(e)'
    BY DEF Committed, Intervals, Counters, Notifiers
  <1> QED BY <1>2, <1>3 DEF Fewer

(* Each of the sets, as far as a step does not change it.                  *)
LEMMA Unchanging ==
    ASSUME AutoFlushAssumption, NEW e
    PROVE  /\ Of(e)' \subseteq Of(e) => Cardinality(Of(e))' <= Cardinality(Of(e)) + 0
           /\ Intervals(e)' \subseteq Intervals(e) =>
                 Cardinality(Intervals(e))' <= Cardinality(Intervals(e)) + 0
           /\ Counters(e)' \subseteq Counters(e) =>
                 Cardinality(Counters(e))' <= Cardinality(Counters(e)) + 0
           /\ \A f : Of(e)' \subseteq Of(e) \cup {f} => Cardinality(Of(e))' <= Cardinality(Of(e)) + 1
  <1>1. Of(e) \subseteq AutoFlushes /\ Intervals(e) \subseteq Timers /\ Counters(e) \subseteq Enablers
    BY DEF Of, Intervals, Counters
  <1>2. /\ IsFiniteSet(Of(e)) /\ IsFiniteSet(Intervals(e)) /\ IsFiniteSet(Counters(e))
        /\ Cardinality(Of(e)) \in Nat /\ Cardinality(Intervals(e)) \in Nat /\ Cardinality(Counters(e)) \in Nat
    BY <1>1, SmallSets
  <1>3. ASSUME NEW S, NEW T, IsFiniteSet(S), Cardinality(S) \in Nat, T \subseteq S
        PROVE  Cardinality(T) <= Cardinality(S) + 0
    BY <1>3, SmallerSet
  <1>4. Of(e)' \subseteq Of(e) => Cardinality(Of(e)') <= Cardinality(Of(e)) + 0
    BY <1>2, <1>3
  <1>5. Intervals(e)' \subseteq Intervals(e) => Cardinality(Intervals(e)') <= Cardinality(Intervals(e)) + 0
    BY <1>2, <1>3
  <1>6. Counters(e)' \subseteq Counters(e) => Cardinality(Counters(e)') <= Cardinality(Counters(e)) + 0
    BY <1>2, <1>3
  <1>7. ASSUME NEW f, Of(e)' \subseteq Of(e) \cup {f}
        PROVE  Cardinality(Of(e)') <= Cardinality(Of(e)) + 1
    BY <1>2, <1>7, OneMore
  <1> QED BY <1>4, <1>5, <1>6, <1>7

(* A step of no flush's, of whose threads none becomes one that counts.    *)
LEMMA FewerStill ==
    ASSUME AutoFlushAssumption, NEW e, Of(e)' \subseteq Of(e), Intervals(e)' \subseteq Intervals(e),
           Counters(e)' \subseteq Counters(e), Notifiers(e)' <= Notifiers(e)
    PROVE  Fewer(e)
  <1>1. Notifiers(e)' <= Notifiers(e) + 0
    BY DEF Notifiers
  <1> QED BY <1>1, Unchanging, FewerSum

(* What starts is of one object.                                           *)
LEMMA StartedOf ==
    ASSUME FlushTypes, NEW f \in AutoFlushes, NEW of \in Objects, Starts(f, of), NEW e
    PROVE  IF of = e THEN Of(e)' \subseteq Of(e) \cup {f} ELSE Of(e)' \subseteq Of(e)
  <1>1. Becomes(f, [flush[f] EXCEPT !.pc = "started", !.of = of])
    BY StartsEffect
  <1>2. flush'[f].of = of /\ \A g \in AutoFlushes \ {f} : flush'[g] = flush[g]
    BY <1>1, Typed DEF Becomes, FlushRecord
  <1> QED BY <1>2 DEF Of

(* A thread that starts a flush of a cancelled object had passed its look  *)
(* at is_cancelled_, and stops being one that has                          *)
(* (TriggerAutoFlushInterval, NotifyQueueEventComplete).                   *)
LEMMA FewerStep ==
    ASSUME AutoFlushAssumption, TypeOK, CancelledGone, [Next]_autoVars, NEW e \in isCancelled
    PROVE  Fewer(e)
  <1>0. FlushTypes /\ (\A f \in AutoFlushes : flush[f] \in FlushRecord) /\ e \in Enablers
    BY TypeParts, Typed DEF TypeOK
  <1>1. /\ UNCHANGED flush => Of(e)' \subseteq Of(e)
        /\ UNCHANGED timer => Intervals(e)' \subseteq Intervals(e)
        /\ UNCHANGED enabler => Counters(e)' \subseteq Counters(e)
        /\ UNCHANGED notifier => Notifiers(e)' <= Notifiers(e)
    BY DEF Of, Intervals, Counters, Notifiers
  <1>2. ASSUME NEW c \in Enablers, Enable(c) \/ Store(c) PROVE Fewer(e)
    <2>1. UNCHANGED <<flush, timer, notifier>>
      BY <1>2 DEF Enable, Store
    <2>2. \E p \in {"store", "done", "call"} : enabler' = [enabler EXCEPT ![c].pc = p]
      BY <1>2 DEF Enable, Store
    <2>3. Counters(e)' \subseteq Counters(e)
      BY <2>2 DEF Counters, TypeOK
    <2> QED BY <1>1, <2>1, <2>3, FewerStill
  <1>3. ASSUME NEW c \in Enablers, InitialiseAutoFlushInterval(c) PROVE Fewer(e)
    <2>1. /\ UNCHANGED <<flush, notifier>> /\ enabler' = [enabler EXCEPT ![c] = [pc |-> "count", of |-> impl]]
          /\ UNCHANGED timer \/ TriggerAutoFlushInterval(impl)
      BY <1>3 DEF InitialiseAutoFlushInterval
    <2>2. impl # e
      BY DEF CancelledGone
    <2>3. Counters(e)' \subseteq Counters(e)
      BY <2>1, <2>2 DEF Counters, TypeOK
    <2>4. Intervals(e)' \subseteq Intervals(e)
      BY <1>1, <2>1 DEF Intervals, TriggerAutoFlushInterval, TypeOK
    <2> QED BY <1>1, <2>1, <2>3, <2>4, FewerStill
  <1>4. ASSUME NEW c \in Enablers, EnableCounts(c) PROVE Fewer(e)
    <2> DEFINE of == enabler[c].of
    <2>1. /\ UNCHANGED <<timer, notifier>> /\ enabler' = [enabler EXCEPT ![c].pc = "done"]
          /\ AutoFlushNumEvents(of) /\ enabler[c].pc = "count" /\ of \in Objects
      BY <1>4 DEF EnableCounts, TypeOK
    <2>2. Counters(e)' \subseteq Counters(e) \ {c}
      BY <2>1 DEF Counters, TypeOK
    <2>3. CASE NoFlush
      BY <1>1, <2>1, <2>2, <2>3, FewerStill DEF NoFlush
    <2>4. ASSUME NEW f \in AutoFlushes, Starts(f, of) PROVE Fewer(e)
      <3>1. CASE of # e
        <4>1. Of(e)' \subseteq Of(e)
          BY <1>0, <2>1, <2>4, <3>1, StartedOf
        <4> QED BY <1>1, <2>1, <2>2, <4>1, FewerStill
      <3>2. CASE of = e
        <4>1. Of(e)' \subseteq Of(e) \cup {f}
          BY <1>0, <2>1, <2>4, <3>2, StartedOf
        <4>2. c \in Counters(e)
          <5>1. enabler[c] \in [pc : {"new", "store", "call", "count", "done"}, of : Objects]
            BY DEF TypeOK
          <5> QED BY <2>1, <3>2, <5>1 DEF Counters
        <4>3. Counters(e) \subseteq Enablers
          BY DEF Counters
        <4>4. Cardinality(Counters(e)') <= Cardinality(Counters(e)) - 1
          BY <2>2, <4>2, <4>3, SmallSets, OneLess
        <4>5. Cardinality(Counters(e))' <= Cardinality(Counters(e)) + (-1)
          BY <4>3, <4>4, SmallSets
        <4>6. Notifiers(e)' <= Notifiers(e) + 0
          BY <2>1 DEF Notifiers
        <4>7. /\ Cardinality(Of(e))' <= Cardinality(Of(e)) + 1
              /\ Cardinality(Intervals(e))' <= Cardinality(Intervals(e)) + 0
          BY <1>1, <2>1, <4>1, Unchanging
        <4>8. 1 \in Int /\ 0 \in Int /\ -1 \in Int /\ 1 + 0 + (-1) + 0 <= 0
          OBVIOUS
        <4> QED BY <4>5, <4>6, <4>7, <4>8, FewerSum
      <3> QED BY <3>1, <3>2
    <2> QED BY <2>1, <2>3, <2>4, CountEffect
  <1>5. CASE NotifyQueueEventComplete
    <2>1. UNCHANGED <<flush, timer, enabler>> /\ notifier' = [pc |-> "count", of |-> impl] /\ impl # e
      BY <1>5 DEF NotifyQueueEventComplete, CancelledGone
    <2>2. Notifiers(e)' <= Notifiers(e)
      BY <2>1 DEF Notifiers
    <2> QED BY <1>1, <2>1, <2>2, FewerStill
  <1>6. CASE HandleNotifyQueueEventComplete
    <2> DEFINE of == notifier.of
    <2>1. /\ UNCHANGED <<timer, enabler>> /\ notifier' = [pc |-> "idle", of |-> Nothing]
          /\ AutoFlushNumEvents(of) /\ notifier.pc = "count" /\ of \in Objects
      BY <1>6 DEF HandleNotifyQueueEventComplete, TypeOK
    <2>2. Notifiers(e)' = 0
      BY <2>1 DEF Notifiers
    <2>3. Notifiers(e)' <= Notifiers(e)
      BY <2>2 DEF Notifiers
    <2>4. CASE NoFlush
      BY <1>1, <2>1, <2>3, <2>4, FewerStill DEF NoFlush
    <2>5. ASSUME NEW f \in AutoFlushes, Starts(f, of) PROVE Fewer(e)
      <3>1. CASE of # e
        <4>1. Of(e)' \subseteq Of(e)
          BY <1>0, <2>1, <2>5, <3>1, StartedOf
        <4> QED BY <1>1, <2>1, <2>3, <4>1, FewerStill
      <3>2. CASE of = e
        <4>1. Of(e)' \subseteq Of(e) \cup {f}
          BY <1>0, <2>1, <2>5, <3>2, StartedOf
        <4>2. Notifiers(e) = 1
          <5>1. notifier \in [pc : {"idle", "count"}, of : Objects]
            BY DEF TypeOK
          <5> QED BY <2>1, <3>2, <5>1 DEF Notifiers
        <4>3. Notifiers(e)' <= Notifiers(e) + (-1)
          BY <2>2, <4>2
        <4>4. /\ Cardinality(Of(e))' <= Cardinality(Of(e)) + 1
              /\ Cardinality(Intervals(e))' <= Cardinality(Intervals(e)) + 0
              /\ Cardinality(Counters(e))' <= Cardinality(Counters(e)) + 0
          BY <1>1, <2>1, <4>1, Unchanging
        <4>5. 1 \in Int /\ 0 \in Int /\ -1 \in Int /\ 1 + 0 + 0 + (-1) <= 0
          OBVIOUS
        <4> QED BY <4>3, <4>4, <4>5, FewerSum
      <3> QED BY <3>1, <3>2
    <2> QED BY <2>1, <2>4, <2>5, CountEffect
  <1>7. CASE Disable
    <2>1. UNCHANGED <<timer, enabler, notifier>> /\ \A f \in AutoFlushes : Same(f)
      BY <1>0, <1>7, CancelEffect DEF Disable
    <2>2. Of(e)' \subseteq Of(e)
      BY <2>1 DEF Of, Same
    <2> QED BY <1>1, <2>1, <2>2, FewerStill
  <1>8. CASE WaitForBackgroundTaskCompletion \/ DropClient
    BY <1>1, <1>8, FewerStill DEF WaitForBackgroundTaskCompletion, DropClient, controlVars
  <1>9. ASSUME NEW t \in Timers, WakeUp(t) PROVE Fewer(e)
    <2>1. /\ UNCHANGED <<flush, enabler, notifier>>
          /\ timer' = [timer EXCEPT ![t].pc = IF timer[t].of \in isCancelled THEN "over" ELSE "add"]
      BY <1>9 DEF WakeUp, controlVars, IsCancelled
    <2>2. Intervals(e)' \subseteq Intervals(e)
      BY <2>1 DEF Intervals, TypeOK
    <2> QED BY <1>1, <2>1, <2>2, FewerStill
  <1>10. ASSUME NEW t \in Timers, Interval(t) PROVE Fewer(e)
    <2> DEFINE of == timer[t].of
    <2>1. /\ UNCHANGED <<enabler, notifier>> /\ timer[t].pc = "add" /\ of \in Objects
          /\ \E p \in {"sleeping", "over"} : timer' = [timer EXCEPT ![t].pc = p]
          /\ AddBackgroundFlushTask(of) \/ NoFlush
      BY <1>10 DEF Interval, TypeOK, controlVars
    <2>2. Intervals(e)' \subseteq Intervals(e) \ {t}
      BY <2>1 DEF Intervals, TypeOK
    <2>3. CASE NoFlush
      BY <1>1, <2>1, <2>2, <2>3, FewerStill DEF NoFlush
    <2>4. ASSUME NEW f \in AutoFlushes, Starts(f, of) PROVE Fewer(e)
      <3>1. CASE of # e
        <4>1. Of(e)' \subseteq Of(e)
          BY <1>0, <2>1, <2>4, <3>1, StartedOf
        <4> QED BY <1>1, <2>1, <2>2, <4>1, FewerStill
      <3>2. CASE of = e
        <4>1. Of(e)' \subseteq Of(e) \cup {f}
          BY <1>0, <2>1, <2>4, <3>2, StartedOf
        <4>2. t \in Intervals(e)
          <5>1. timer[t] \in [pc : {"none", "sleeping", "add", "over"}, of : Objects]
            BY DEF TypeOK
          <5> QED BY <2>1, <3>2, <5>1 DEF Intervals
        <4>3. Intervals(e) \subseteq Timers
          BY DEF Intervals
        <4>4. Cardinality(Intervals(e)') <= Cardinality(Intervals(e)) - 1
          BY <2>2, <4>2, <4>3, SmallSets, OneLess
        <4>5. Cardinality(Intervals(e))' <= Cardinality(Intervals(e)) + (-1)
          BY <4>3, <4>4, SmallSets
        <4>6. Notifiers(e)' <= Notifiers(e) + 0
          BY <2>1 DEF Notifiers
        <4>7. /\ Cardinality(Of(e))' <= Cardinality(Of(e)) + 1
              /\ Cardinality(Counters(e))' <= Cardinality(Counters(e)) + 0
          BY <1>1, <2>1, <4>1, Unchanging
        <4>8. 1 \in Int /\ 0 \in Int /\ -1 \in Int /\ 1 + (-1) + 0 + 0 <= 0
          OBVIOUS
        <4> QED BY <4>5, <4>6, <4>7, <4>8, FewerSum
      <3> QED BY <3>1, <3>2
    <2> QED BY <2>1, <2>3, <2>4, AddEffect
  <1>11. ASSUME NEW f \in AutoFlushes, FlushStep(f) PROVE Fewer(e)
    <2>1. UNCHANGED <<timer, enabler, notifier>>
      BY <1>11
      DEF FlushStep, AddTask, AddCancelToken, ReleaseTask, RemoveCancelToken,
          NotifyFlushEventResults, controlVars
    <2>2. /\ flush'[f].of = flush[f].of
          /\ \A g \in AutoFlushes \ {f} : flush'[g] = flush[g]
      <3>1. CASE AddTask(f)
        BY <1>0, <3>1, AddTaskEffect DEF Becomes, FlushRecord
      <3>2. CASE AddCancelToken(f)
        BY <1>0, <3>2, AddCancelTokenEffect DEF Becomes, FlushRecord
      <3>3. CASE ReleaseTask(f)
        BY <1>0, <3>3, ReleaseEffect DEF Becomes, FlushRecord
      <3>4. CASE RemoveCancelToken(f)
        BY <1>0, <3>4, RemoveTokenEffect DEF Becomes, FlushRecord
      <3>5. ASSUME NEW w \in Workers, NotifyFlushEventResults(w, f)
            PROVE  /\ flush'[f].of = flush[f].of
                   /\ \A g \in AutoFlushes \ {f} : flush'[g] = flush[g]
        BY <1>0, <3>5, NotifyEffect DEF Becomes, FlushRecord
      <3> QED BY <1>11, <3>1, <3>2, <3>3, <3>4, <3>5 DEF FlushStep
    <2>3. Of(e)' \subseteq Of(e)
      BY <2>2 DEF Of
    <2> QED BY <1>1, <2>1, <2>3, FewerStill
  <1>12. CASE UNCHANGED autoVars
    BY <1>1, <1>12, FewerStill DEF autoVars, controlVars
  <1> QED
    BY <1>2, <1>3, <1>4, <1>5, <1>6, <1>7, <1>8, <1>9, <1>10, <1>11, <1>12 DEF Next

-----------------------------------------------------------------------------
(* The automatic flushes: the metrics *)

(* What the listener counts when a flush reports.                          *)
FailedFlushes == {f \in Done : Published[f] = 0 \/ Failed[f] > 0}
ReportsExact ==
    /\ metrics.total = Cardinality(Done)
    /\ metrics.requests = Sum(Published, Done)
    /\ ~recounted =>
        /\ metrics.failedRequests = Sum(Failed, Done)
        /\ metrics.failed = Cardinality(FailedFlushes)

(* The metrics of what was announced and of what was reported.             *)
LEMMA MetricsParts == MetricsExact <=> metrics.attempted = Cardinality(Started) /\ ReportsExact
  BY DEF MetricsExact, ReportsExact, Sum, FailedFlushes

(* What the flushes published are counts.                                  *)
LEMMA DoneFinite ==
    ASSUME AutoFlushAssumption, FlushTypes
    PROVE  /\ IsFiniteSet(Done) /\ IsFiniteSet(Started) /\ IsFiniteSet(FailedFlushes)
           /\ Cardinality(Done) \in Nat /\ Cardinality(Started) \in Nat /\ Cardinality(FailedFlushes) \in Nat
           /\ \A f \in AutoFlushes : Published[f] = flush[f].size /\ Failed[f] = flush[f].failed
           /\ \A f \in AutoFlushes : Published[f] \in Nat /\ Failed[f] \in Nat
  <1>1. Done \subseteq AutoFlushes /\ Started \subseteq AutoFlushes /\ FailedFlushes \subseteq AutoFlushes
    BY DEF Done, Started, FailedFlushes
  <1>2. \A f \in AutoFlushes : flush[f].size \in Nat /\ flush[f].failed \in Nat
    BY DEF FlushTypes, AutoFlushAssumption
  <1> QED BY <1>1, <1>2, SmallSets DEF Published, Failed

(* What has been reported stays so while no flush is.                      *)
LEMMA ReportsKept ==
    ASSUME AutoFlushAssumption, FlushTypes, ReportsExact, UNCHANGED recounted,
           metrics'.total = metrics.total, metrics'.requests = metrics.requests,
           metrics'.failedRequests = metrics.failedRequests, metrics'.failed = metrics.failed,
           \A f \in AutoFlushes : flush'[f].callback = "done" <=> flush[f].callback = "done",
           \A f \in Done : flush'[f].size = flush[f].size /\ flush'[f].failed = flush[f].failed
    PROVE  ReportsExact'
  <1>1. Done' = Done
    BY DEF Done
  <1>2. \A f \in Done : Published'[f] = Published[f] /\ Failed'[f] = Failed[f]
    BY DEF Published, Failed, Done
  <1>3. FailedFlushes' = FailedFlushes
    BY <1>1, <1>2 DEF FailedFlushes
  <1>4. Sum(Published', Done) = Sum(Published, Done) /\ Sum(Failed', Done) = Sum(Failed, Done)
    BY <1>2, DoneFinite, SameSum
  <1> QED BY <1>1, <1>3, <1>4 DEF ReportsExact

(* No flush is announced.                                                  *)
LEMMA StartedKept ==
    ASSUME metrics.attempted = Cardinality(Started), metrics'.attempted = metrics.attempted,
           \A f \in AutoFlushes : flush'[f].pc = "none" <=> flush[f].pc = "none"
    PROVE  metrics'.attempted = Cardinality(Started)'
  <1>1. Started' = Started
    BY DEF Started, Unstarted
  <1> QED BY <1>1

(* A report adds one flush to those that are done.                         *)
LEMMA ReportCounts ==
    ASSUME AutoFlushAssumption, TypeOK, Stages, ReportsExact, NEW f \in AutoFlushes, NEW w \in Workers,
           NotifyFlushEventResults(w, f)
    PROVE  ReportsExact'
  <1>0. FlushTypes /\ flush[f] \in FlushRecord /\ Stage(f) /\ metrics \in Metrics
    BY TypeParts, Typed DEF Stages, TypeOK
  <1>1. Becomes(f, [flush[f] EXCEPT !.callback = "done"])
    BY <1>0, NotifyEffect
  <1>2. /\ FlushTypes' /\ flush[f].callback = "notify"
        /\ flush'[f].callback = "done" /\ flush'[f].size = flush[f].size /\ flush'[f].failed = flush[f].failed
        /\ \A g \in AutoFlushes \ {f} : flush'[g] = flush[g]
    BY <1>0, <1>1 DEF Becomes, FlushRecord, NotifyFlushEventResults
  <1>3. f \notin Done /\ Done' = Done \cup {f} /\ Done \subseteq AutoFlushes
    BY <1>2 DEF Done
  <1>4. \A g \in AutoFlushes : Published'[g] = Published[g] /\ Failed'[g] = Failed[g]
    BY <1>2 DEF Published, Failed
  <1>5. /\ IsFiniteSet(Done) /\ IsFiniteSet(FailedFlushes) /\ Cardinality(Done) \in Nat /\ Cardinality(FailedFlushes) \in Nat
        /\ \A g \in AutoFlushes : Published[g] \in Nat /\ Failed[g] \in Nat
        /\ Published[f] = flush[f].size /\ Failed[f] = flush[f].failed
    BY <1>0, DoneFinite
  <1>6. IsFiniteSet(Done') /\ Cardinality(Done') = Cardinality(Done) + 1 /\ Done' \subseteq AutoFlushes
    BY <1>3, <1>5, FS_AddElement
  <1>7. ASSUME NEW h, \A g \in AutoFlushes : h[g] \in Nat
        PROVE  Sum(h, Done') = Sum(h, Done) + h[f] /\ Sum(h, Done) \in Nat
    <2>1. Adds(h, Done') /\ Adds(h, Done)
      BY <1>3, <1>5, <1>6, <1>7, SumAdds
    <2>2. f \in Done' /\ Done' \ {f} = Done
      BY <1>3
    <2>3. Sum(h, Done') = h[f] + Sum(h, Done) /\ Sum(h, Done) \in Nat /\ h[f] \in Nat
      BY <1>7, <2>1, <2>2 DEF Adds
    <2> QED BY <2>3
  <1>8. Sum(Published', Done') = Sum(Published, Done) + flush[f].size
    <2>1. Sum(Published', Done') = Sum(Published, Done')
      BY <1>4, <1>6, SameSum
    <2> QED BY <1>5, <1>7, <2>1
  <1>9. Sum(Failed', Done') = Sum(Failed, Done) + flush[f].failed /\ Sum(Failed, Done) \in Nat
    <2>1. Sum(Failed', Done') = Sum(Failed, Done')
      BY <1>4, <1>6, SameSum
    <2> QED BY <1>5, <1>7, <2>1
  <1>10. FailedFlushes' = IF flush[f].size = 0 \/ flush[f].failed > 0 THEN FailedFlushes \cup {f} ELSE FailedFlushes
    <2>1. FailedFlushes' = {g \in Done \cup {f} : Published[g] = 0 \/ Failed[g] > 0}
      BY <1>3, <1>4 DEF FailedFlushes
    <2> QED BY <1>3, <1>5, <2>1 DEF FailedFlushes
  <1>11. f \notin FailedFlushes
    BY <1>3 DEF FailedFlushes
  <1>12. Cardinality(FailedFlushes') = IF flush[f].size = 0 \/ flush[f].failed > 0
                             THEN Cardinality(FailedFlushes) + 1 ELSE Cardinality(FailedFlushes)
    BY <1>5, <1>10, <1>11, FS_AddElement
  <1>13. flush[f].size \in Nat /\ flush[f].failed \in Nat /\ flush[f].failed <= flush[f].size
    BY <1>0, <1>5 DEF Stage
  <1>14. CASE flush[f].size = 0
    <2>1. metrics' = [metrics EXCEPT !.total = @ + 1, !.failed = @ + 1] /\ UNCHANGED recounted
      BY <1>14 DEF NotifyFlushEventResults
    <2>2. /\ metrics'.total = metrics.total + 1 /\ metrics'.failed = metrics.failed + 1
          /\ metrics'.requests = metrics.requests /\ metrics'.failedRequests = metrics.failedRequests
      BY <1>0, <2>1 DEF Metrics
    <2>3. metrics.requests \in Nat /\ metrics.failedRequests \in Nat
      BY <1>0 DEF Metrics
    <2> QED
      BY <1>6, <1>8, <1>9, <1>12, <1>13, <1>14, <2>1, <2>2, <2>3 DEF ReportsExact
  <1>15. CASE flush[f].size # 0
    <2> DEFINE n == Counted(w, f)
    <2>1. CollateFlushEventResults(w, f) /\ recounted' = (recounted \/ counted[w] # -1)
      BY <1>13, <1>15 DEF NotifyFlushEventResults
    <2>2. /\ metrics'.total = metrics.total + 1
          /\ metrics'.requests = metrics.requests + flush[f].size
          /\ metrics'.failedRequests = metrics.failedRequests + n
          /\ metrics'.failed = IF n > 0 THEN metrics.failed + 1 ELSE metrics.failed
      BY <1>0, <2>1 DEF Metrics, CollateFlushEventResults
    <2>3. ~recounted' => ~recounted /\ n = flush[f].failed
      BY <2>1 DEF Counted
    <2> HIDE DEF n
    <2>4. metrics'.total = Cardinality(Done') /\ metrics'.requests = Sum(Published', Done')
      BY <1>6, <1>8, <2>2 DEF ReportsExact
    <2>5. ~recounted' => metrics'.failedRequests = Sum(Failed', Done') /\ metrics'.failed = Cardinality(FailedFlushes')
      BY <1>9, <1>12, <1>13, <1>15, <2>2, <2>3 DEF ReportsExact
    <2> QED BY <2>4, <2>5 DEF ReportsExact
  <1> QED BY <1>14, <1>15

(* Each flush is announced once, by the step that starts it, and reported  *)
(* once, by its last (DefaultFlushEventListener).                          *)
LEMMA MetricsStep ==
    ASSUME AutoFlushAssumption, TypeOK, Stages, MetricsExact, [Next]_autoVars
    PROVE  MetricsExact'
  <1>0. /\ FlushTypes /\ metrics \in Metrics
        /\ metrics.attempted = Cardinality(Started) /\ ReportsExact
        /\ \A f \in AutoFlushes : flush[f] \in FlushRecord /\ Stage(f)
    BY TypeParts, Typed, MetricsParts DEF Stages, TypeOK
  <1>1. SUFFICES metrics'.attempted = Cardinality(Started)' /\ ReportsExact'
    BY DEF MetricsExact, ReportsExact, Sum, FailedFlushes
  <1>2. CASE Still
    BY <1>0, <1>2, ReportsKept, StartedKept DEF Still, Same, Done
  <1>3. CASE Starting
    <2>1. PICK f \in AutoFlushes, of \in Objects : Starts(f, of)
      BY <1>3 DEF Starting
    <2>2. Becomes(f, [flush[f] EXCEPT !.pc = "started", !.of = of])
      BY <1>0, <2>1, StartsEffect
    <2>3. flush[f].pc = "none" /\ metrics' = [metrics EXCEPT !.attempted = @ + 1] /\ UNCHANGED recounted
      BY <1>3, <2>1 DEF Starts, Starting
    <2>4. /\ flush'[f].pc = "started" /\ flush'[f].callback = flush[f].callback
          /\ flush'[f].size = flush[f].size /\ flush'[f].failed = flush[f].failed
          /\ \A g \in AutoFlushes \ {f} : flush'[g] = flush[g]
      BY <1>0, <2>2 DEF Becomes, FlushRecord
    <2>5. f \notin Started /\ Started' = Started \cup {f}
      BY <2>3, <2>4 DEF Started, Unstarted
    <2>6. Cardinality(Started') = Cardinality(Started) + 1
      BY <1>0, <2>5, DoneFinite, FS_AddElement
    <2>7. /\ metrics'.attempted = metrics.attempted + 1
          /\ metrics'.total = metrics.total /\ metrics'.requests = metrics.requests
          /\ metrics'.failedRequests = metrics.failedRequests /\ metrics'.failed = metrics.failed
      BY <1>0, <2>3 DEF Metrics
    <2>8. /\ \A g \in AutoFlushes : flush'[g].callback = "done" <=> flush[g].callback = "done"
          /\ \A g \in AutoFlushes : flush'[g].size = flush[g].size /\ flush'[g].failed = flush[g].failed
      BY <2>4
    <2>9. ReportsExact'
      BY <1>0, <2>3, <2>7, <2>8, ReportsKept DEF Done
    <2> QED BY <1>0, <2>6, <2>7, <2>9
  <1>4. ASSUME NEW f \in AutoFlushes,
               AddTask(f) \/ AddCancelToken(f) \/ ReleaseTask(f) \/ RemoveCancelToken(f)
        PROVE  metrics'.attempted = Cardinality(Started)' /\ ReportsExact'
    <2>1. UNCHANGED metrics /\ UNCHANGED recounted
      BY <1>4 DEF AddTask, AddCancelToken, ReleaseTask, RemoveCancelToken, listenerVars
    <2> DEFINE Quiet ==
            /\ \/ flush'[f].callback # "done" /\ flush[f].callback # "done"
               \/ flush'[f].callback = flush[f].callback
            /\ flush[f].callback = "done" =>
                  flush'[f].size = flush[f].size /\ flush'[f].failed = flush[f].failed
            /\ (flush'[f].pc = "none" <=> flush[f].pc = "none")
            /\ \A g \in AutoFlushes \ {f} : flush'[g] = flush[g]
    <2>2. Quiet
      <3>1. CASE AddTask(f)
        <4>1. flush[f].callback = "none" /\ flush[f].pc = "started"
          BY <1>0, <3>1 DEF AddTask, Stage
        <4> QED BY <1>0, <3>1, <4>1, AddTaskEffect DEF Becomes, FlushRecord
      <3>2. CASE AddCancelToken(f)
        <4>1. flush[f].pc = "called"
          BY <3>2 DEF AddCancelToken
        <4> QED BY <1>0, <3>2, <4>1, AddCancelTokenEffect DEF Becomes, FlushRecord
      <3>3. CASE ReleaseTask(f)
        <4>1. flush[f].callback = "pending"
          BY <3>3 DEF ReleaseTask
        <4> QED BY <1>0, <3>3, <4>1, ReleaseEffect DEF Becomes, FlushRecord
      <3>4. CASE RemoveCancelToken(f)
        <4>1. flush[f].callback = "remove"
          BY <3>4 DEF RemoveCancelToken
        <4> QED BY <1>0, <3>4, <4>1, RemoveTokenEffect DEF Becomes, FlushRecord
      <3> QED BY <1>4, <3>1, <3>2, <3>3, <3>4
    <2>3. /\ \A g \in AutoFlushes : flush'[g].callback = "done" <=> flush[g].callback = "done"
          /\ \A g \in AutoFlushes : flush'[g].pc = "none" <=> flush[g].pc = "none"
          /\ \A g \in Done : flush'[g].size = flush[g].size /\ flush'[g].failed = flush[g].failed
      BY <2>2 DEF Done
    <2> QED BY <1>0, <2>1, <2>3, ReportsKept, StartedKept
  <1>5. ASSUME NEW f \in AutoFlushes, NEW w \in Workers, NotifyFlushEventResults(w, f)
        PROVE  metrics'.attempted = Cardinality(Started)' /\ ReportsExact'
    <2>1. ReportsExact'
      BY <1>0, <1>5, ReportCounts
    <2>2. Becomes(f, [flush[f] EXCEPT !.callback = "done"])
      BY <1>0, <1>5, NotifyEffect
    <2>3. \A g \in AutoFlushes : flush'[g].pc = "none" <=> flush[g].pc = "none"
      BY <1>0, <2>2 DEF Becomes, FlushRecord
    <2>4. metrics'.attempted = metrics.attempted
      BY <1>0, <1>5 DEF NotifyFlushEventResults, CollateFlushEventResults, Metrics
    <2> QED BY <1>0, <2>1, <2>3, <2>4, StartedKept
  <1> QED BY <1>2, <1>3, <1>4, <1>5, FlushMoves DEF FlushStep

-----------------------------------------------------------------------------
(* The automatic flushes: the theorems *)

FlushInv == Stages /\ CancelledGone /\ QuietAfterDisable /\ MetricsExact

(* The first state satisfies the invariant.                                *)
LEMMA FlushInit == ASSUME AutoFlushAssumption, Init PROVE TypeOK /\ FlushInv
  <1>1. TypeOK
    <2>1. 0 \in 0..MaxQueued /\ -1 \in -1..MaxQueued
      BY DEF AutoFlushAssumption
    <2>2. ControlTypes
      BY DEF Init, ControlTypes, Objects
    <2>3. metrics \in Metrics
      BY DEF Init, Metrics
    <2>4. ListenerTypes
      BY <2>1, <2>3 DEF Init, ListenerTypes
    <2>5. RestTypes
      BY <2>1 DEF Init, RestTypes
    <2>6. FlushTypes
      BY <2>1 DEF Init, FlushTypes, Objects
    <2> QED BY <2>2, <2>4, <2>5, <2>6, TypeParts
  <1>2. Stages
    BY DEF Init, Stages, Stage, AutoFlushes, AutoFlushAssumption
  <1>3. CancelledGone
    BY DEF Init, CancelledGone, AutoFlushAssumption
  <1>4. QuietAfterDisable
    BY DEF Init, QuietAfterDisable
  <1>5. MetricsExact
    <2>1. Done = {} /\ Started = {}
      BY DEF Init, Done, Started, Unstarted
    <2>2. FailedFlushes = {}
      BY <2>1 DEF FailedFlushes
    <2>3. Cardinality({}) = 0 /\ IsFiniteSet({})
      BY FS_EmptySet
    <2>4. Sum(Published, {}) = 0 /\ Sum(Failed, {}) = 0
      BY <2>3, SumUnfolds
    <2>5. metrics.attempted = 0 /\ metrics.failed = 0 /\ metrics.total = 0 /\ metrics.requests = 0
          /\ metrics.failedRequests = 0
      BY DEF Init
    <2> QED BY <2>1, <2>2, <2>3, <2>4, <2>5, MetricsParts DEF ReportsExact
  <1> QED BY <1>1, <1>2, <1>3, <1>4, <1>5 DEF FlushInv

(* And every step keeps it; what is cancelled starts fewer flushes.        *)
LEMMA FlushKeeps ==
    ASSUME AutoFlushAssumption, TypeOK /\ FlushInv, [Next]_autoVars
    PROVE  (TypeOK /\ FlushInv)' /\ FewerFlushes
  <1>1. Stages /\ CancelledGone /\ QuietAfterDisable /\ MetricsExact
    BY DEF FlushInv
  <1>2. ControlTypes' /\ ListenerTypes' /\ RestTypes' /\ FlushTypes'
    BY FlushTypeStep
  <1>3. TypeOK'
    BY <1>2 DEF TypeOK, ControlTypes, ListenerTypes, RestTypes, FlushTypes
  <1>4. Stages' /\ CancelledGone' /\ QuietAfterDisable' /\ MetricsExact'
    BY <1>1, StagesStep, CancelledGoneStep, QuietStep, MetricsStep
  <1>5. FewerFlushes
    BY <1>1, FewerStep DEF FewerFlushes, Fewer
  <1> QED BY <1>3, <1>4, <1>5 DEF FlushInv

(* The metrics say what the flushes did (DefaultFlushEventListener), and   *)
(* Disable is done when they are (AutoFlushController::Disable), for any   *)
(* number of calls, flushes, intervals and requests.                       *)
THEOREM FlushesInductive ==
    ASSUME AutoFlushAssumption
    PROVE  Spec => [](TypeOK /\ FlushInv)
  <1>1. Init => TypeOK /\ FlushInv
    BY FlushInit
  <1>2. TypeOK /\ FlushInv /\ [Next]_autoVars => (TypeOK /\ FlushInv)'
    BY FlushKeeps
  <1> QED BY <1>1, <1>2, PTL DEF Spec

(* What Disable has cancelled starts no more flushes than it had threads   *)
(* past their look at is_cancelled_ (AutoFlushController.cpp:194, :264).   *)
THEOREM DisabledStops ==
    ASSUME AutoFlushAssumption
    PROVE  Spec => CancelledEnds
  <1>1. TypeOK /\ FlushInv /\ [Next]_autoVars => [FewerFlushes]_autoVars
    BY FlushKeeps
  <1> QED BY <1>1, FlushesInductive, PTL DEF Spec, CancelledEnds

-----------------------------------------------------------------------------
(* The inductive invariant *)

(* A flush holds a request from its Pop until the request is answered or   *)
(* queued again.                                                           *)
Holding == {"publish", "answered", "requeue", "store"}
Holds(f, r) == pc[f] \in Holding /\ item[f] = r

(* An entry of the cache is written once: by the call of Queue whose uuid  *)
(* it is, or by the flush that queues its request again.                   *)
WrittenOnce ==
    /\ \A r \in Requests : data[r] # None => queue[r] \in {"queued", "gone"}
    /\ \A f \in Flushes : data[f] # None => pc[f] \in {"callback", "complete", "returned", "gone"}
    /\ \A f \in Flushes : pc[f] \in Holding => item[f] \in Requests

(* A request is in one place: with who queues it, in one entry of the      *)
(* cache, with one flush, or answered.                                     *)
InOnePlace(r) ==
    /\ \A u, v \in Queue!Uuids : data[u] = r /\ data[v] = r => u = v
    /\ \A f, g \in Flushes : Holds(f, r) /\ Holds(g, r) => f = g
    /\ \A u \in Queue!Uuids, f \in Flushes : data[u] = r => ~Holds(f, r)
    /\ r \in done => (\A u \in Queue!Uuids : data[u] # r) /\ \A f \in Flushes : ~Holds(f, r)
    /\ queue[r] \notin {"queued", "gone"} =>
          r \notin done /\ (\A u \in Queue!Uuids : data[u] # r) /\ \A f \in Flushes : ~Holds(f, r)
OnePlace == \A r \in Requests : InOnePlace(r)

(* What Queue has accepted is in an entry that is listed, with a flush, or *)
(* answered, apart from the ways of losing it that history knows.          *)
Listed(uuids, u) == \E i \in DOMAIN uuids : uuids[i] = u
NotLost(r) ==
    queue[r] = "queued" /\ r \notin unstored \cup dropped =>
        \/ \E u \in Queue!Uuids : Listed(list, u) /\ data[u] = r
        \/ \E f \in Flushes : Holds(f, r)
        \/ r \in done
NothingLost == \A r \in Requests : NotLost(r)

(* A request that was answered is answered once and not queued again, but  *)
(* by a cancelled flush.                                                   *)
Answers(f, i, r) == i \in DOMAIN responses[f] /\ responses[f][i].req = r
NoSecondAnswer(r) ==
    /\ \A u \in Queue!Uuids : data[u] # r
    /\ \A g \in Flushes : Holds(g, r) => pc[g] = "answered"
    /\ queue[r] \in {"queued", "gone"}
AnsweredOnce ==
    \A r \in Requests \ interrupted :
        \A f \in Flushes, i \in Nat : Answers(f, i, r) =>
            /\ NoSecondAnswer(r)
            /\ \A g \in Flushes, j \in Nat : Answers(g, j, r) => g = f /\ j = i

(* exec_started is set while the flush works; it has called back at the    *)
(* end of its work, or else its TaskContext will.                          *)
Early == {"new", "pending"}
Working == {"check", "pop", "callback"} \cup Holding
CalledOnce ==
    \A f \in Flushes :
        /\ pc[f] \in Early => ~started[f]
        /\ pc[f] \in Working => started[f]
        /\ pc[f] \in Early \cup Working => calls[f] = 0
        /\ pc[f] = "complete" => calls[f] = IF started[f] THEN 1 ELSE 0
        /\ pc[f] = "returned" => calls[f] = 1
        /\ calls[f] \in {0, 1}

(* counter counts requests that are answered for good, up to the limit.    *)
QueueCounted ==
    \A f \in Flushes :
        /\ counter[f] <= Cardinality(done)
        /\ limit[f] > 0 => counter[f] <= limit[f]
        /\ limit[f] > 0 /\ pc[f] \in {"pop", "publish", "answered"} => counter[f] < limit[f]
        /\ limit[f] < 0 => pc[f] \notin {"check", "pop"} \cup Holding

(* Who passed the check of the size beside another has not done so before. *)
Raced ==
    /\ IsFiniteSet(Queue!Checked) /\ IsFiniteSet(raced)
    /\ \A r \in raced \cap Requests : queue[r] # "new"
    /\ \A f \in raced \cap Flushes :
          pc[f] \in {"store", "callback", "complete", "returned", "gone"}
    /\ Queue!QueueBounded

QueueInv ==
    /\ WrittenOnce /\ OnePlace /\ NothingLost /\ AnsweredOnce /\ CalledOnce /\ QueueCounted
    /\ Raced

-----------------------------------------------------------------------------
(* The list of uuids *)

(* The cardinalities that the module of the queue speaks of.               *)
LEMMA QueueSets ==
    ASSUME NEW S
    PROVE  Queue!Cardinality(S) = Cardinality(S) /\ Queue!IsFiniteSet(S) = IsFiniteSet(S)
  BY DEF Queue!Cardinality, Cardinality, Queue!IsFiniteSet, IsFiniteSet

(* What Queue appends to the list is in it, and so is what was.            *)
LEMMA AppendListed ==
    ASSUME NEW uuids \in Seq(Queue!Uuids), NEW u \in Queue!Uuids
    PROVE  /\ Append(uuids, u) \in Seq(Queue!Uuids) /\ Len(Append(uuids, u)) = Len(uuids) + 1
           /\ Listed(Append(uuids, u), u)
           /\ \A v : Listed(uuids, v) => Listed(Append(uuids, u), v)
  <1>1. Append(uuids, u) \in Seq(Queue!Uuids) /\ Len(Append(uuids, u)) = Len(uuids) + 1
    OBVIOUS
  <1>2. Append(uuids, u)[Len(uuids) + 1] = u /\ Len(uuids) + 1 \in DOMAIN Append(uuids, u)
    OBVIOUS
  <1>3. \A i \in DOMAIN uuids :
            i \in DOMAIN Append(uuids, u) /\ Append(uuids, u)[i] = uuids[i]
    OBVIOUS
  <1> QED BY <1>1, <1>2, <1>3 DEF Listed

(* What PopFromQueue takes from the list is its first uuid.                *)
LEMMA TailListed ==
    ASSUME NEW uuids \in Seq(Queue!Uuids), uuids # <<>>
    PROVE  /\ Head(uuids) \in Queue!Uuids /\ Tail(uuids) \in Seq(Queue!Uuids)
           /\ Len(Tail(uuids)) = Len(uuids) - 1
           /\ \A v : Listed(uuids, v) => v = Head(uuids) \/ Listed(Tail(uuids), v)
  <1>1. Head(uuids) \in Queue!Uuids /\ Tail(uuids) \in Seq(Queue!Uuids) /\ Len(Tail(uuids)) = Len(uuids) - 1
    OBVIOUS
  <1>2. \A i \in DOMAIN uuids : uuids[i] = Head(uuids) \/
            (i - 1 \in DOMAIN Tail(uuids) /\ Tail(uuids)[i - 1] = uuids[i])
    OBVIOUS
  <1> QED BY <1>1, <1>2 DEF Listed

(* PopFromQueue's Put of the shortened list.                               *)
LEMMA PutTailListed ==
    ASSUME Queue!StreamQueueAssumption, Queue!TypeOK, list # <<>>, Queue!PutTail
    PROVE  /\ list' \in Seq(Queue!Uuids) /\ Len(list') <= Len(list) /\ faults' \in 0..MaxFaults
           /\ \A v : Listed(list, v) => v = Head(list) \/ Listed(list', v)
  <1>1. list \in Seq(Queue!Uuids)
    BY DEF Queue!TypeOK
  <1>2. CASE Queue!PutUuids(Tail(list)) /\ UNCHANGED faults
    BY <1>1, <1>2, TailListed DEF Queue!TypeOK, Queue!PutUuids
  <1>3. CASE faults < MaxFaults /\ faults' = faults + 1 /\ UNCHANGED list
    BY <1>1, <1>3 DEF Queue!TypeOK, Queue!StreamQueueAssumption
  <1> QED BY <1>2, <1>3 DEF Queue!PutTail

-----------------------------------------------------------------------------
(* Type correctness *)

(* The types of the variables; the bound on counter follows from Counted.  *)
PlainTypes ==
    /\ list \in Seq(Queue!Uuids) /\ data \in [Queue!Uuids -> Requests \cup {None}]
    /\ faults \in 0..MaxFaults
    /\ queue \in [Requests -> {"new", "checked", "queued", "refused", "gone"}]
    /\ pc \in [Flushes -> {"new", "pending", "check", "pop", "publish", "answered", "requeue",
                           "store", "callback", "complete", "returned", "gone"}]
    /\ limit \in FlushLimits /\ counter \in [Flushes -> Nat]
    /\ item \in [Flushes -> Requests \cup {None}]
    /\ started \in [Flushes -> BOOLEAN] /\ cancelled \in [Flushes -> BOOLEAN]
    /\ responses \in [Flushes -> Seq([req : Requests, ok : BOOLEAN])]
    /\ calls \in [Flushes -> Nat]
    /\ raced \subseteq Queue!Uuids
    /\ unstored \subseteq Requests /\ dropped \subseteq Requests
    /\ interrupted \subseteq Requests /\ done \subseteq Requests

(* Nothing else is needed of TypeOK below. *)
LEMMA TypesPlain == Queue!TypeOK => PlainTypes
  BY DEF Queue!TypeOK, PlainTypes

(* What each call of Store may do to cache and history.                    *)
LEMMA StoreTyped ==
    ASSUME Queue!StreamQueueAssumption, Queue!TypeOK, NEW u \in Queue!Uuids, NEW r \in Requests, Queue!Store(u, r)
    PROVE  /\ list' \in Seq(Queue!Uuids) /\ data' \in [Queue!Uuids -> Requests \cup {None}]
           /\ faults' \in 0..MaxFaults /\ unstored' \subseteq Requests
  <1>1. Append(list, u) \in Seq(Queue!Uuids)
    BY AppendListed DEF Queue!TypeOK
  <1>2. PlainTypes
    BY TypesPlain
  <1>3. CASE Queue!PutData(u, r) /\ Queue!PutUuids(Append(list, u)) /\ UNCHANGED <<faults, unstored>>
    BY <1>1, <1>2, <1>3 DEF PlainTypes, Queue!PutData, Queue!PutUuids
  <1>4. CASE /\ faults < MaxFaults /\ faults' = faults + 1
             /\ unstored' = unstored \cup {r}
             /\ \/ Queue!PutUuids(Append(list, u)) /\ UNCHANGED data
                \/ Queue!PutData(u, r) /\ UNCHANGED list
    <2>1. faults' \in 0..MaxFaults
      BY <1>2, <1>4 DEF PlainTypes, Queue!StreamQueueAssumption
    <2> QED BY <1>1, <1>2, <1>4, <2>1 DEF PlainTypes, Queue!PutData, Queue!PutUuids
  <1> QED BY <1>3, <1>4 DEF Queue!Store

(* The counters of a flush go up by one, and its responses get longer.     *)
LEMMA CountTyped ==
    ASSUME NEW count \in [Flushes -> Nat], NEW f \in Flushes
    PROVE  [count EXCEPT ![f] = @ + 1] \in [Flushes -> Nat]
  OBVIOUS

(* A response appended to those of one flush is a response.              *)
LEMMA ResponseTyped ==
    ASSUME NEW S, NEW all \in [Flushes -> Seq(S)], NEW f \in Flushes, NEW x \in S
    PROVE  [all EXCEPT ![f] = Append(@, x)] \in [Flushes -> Seq(S)]
  OBVIOUS

(* A list that is gone is a list.                                          *)
LEMMA NoneListed == <<>> \in Seq(Queue!Uuids) /\ Len(<<>>) = 0
  OBVIOUS

(* What is lost with the list are requests, all that it leads to.          *)
LEMMA ListedTyped ==
    ASSUME Queue!TypeOK
    PROVE  /\ Queue!ListedRequests \subseteq Requests
           /\ \A u : Listed(list, u) => data[u] \in Queue!ListedRequests \cup {None}
  BY DEF Queue!TypeOK, Queue!ListedRequests, Listed

(* Every action leaves the variables their types.                          *)
LEMMA TypeStep ==
    ASSUME Queue!StreamQueueAssumption, Queue!TypeOK, WrittenOnce, [Queue!Next]_Queue!vars
    PROVE  PlainTypes'
  <1> PlainTypes
    BY TypesPlain
  <1> USE DEF PlainTypes, Queue!cacheVars, Queue!flushVars, Queue!history, Queue!GoTo
  <1>0. CASE UNCHANGED Queue!vars
    BY <1>0 DEF Queue!vars
  <1>1. ASSUME NEW r \in Requests, Queue!Queue(r) PROVE PlainTypes'
    BY <1>1 DEF Queue!Queue, Queue!PassesCheck, Queue!Uuids
  <1>2. ASSUME NEW r \in Requests, Queue!QueueStore(r) PROVE PlainTypes'
    BY <1>2, StoreTyped DEF Queue!QueueStore, Queue!Uuids
  <1>3. ASSUME NEW f \in Flushes, Queue!Flush(f) \/ Queue!Cancel(f) PROVE PlainTypes'
    BY <1>3 DEF Queue!Flush, Queue!Cancel
  <1>4. ASSUME NEW f \in Flushes, Queue!Execute(f) \/ Queue!Check(f) PROVE PlainTypes'
    BY <1>4 DEF Queue!Execute, Queue!Check
  <1>5. ASSUME NEW f \in Flushes, Queue!PopFromQueue(f) PROVE PlainTypes'
    <2>1. CASE Queue!PopNothing(f)
      <3>1. list' \in Seq(Queue!Uuids) /\ faults' \in 0..MaxFaults
        BY <2>1, PutTailListed DEF Queue!PopNothing
      <3> QED BY <1>5, <2>1, <3>1 DEF Queue!PopFromQueue, Queue!PopNothing
    <2>2. CASE Queue!PopSomething(f)
      <3>1. list' \in Seq(Queue!Uuids) /\ faults' \in 0..MaxFaults /\ Head(list) \in Queue!Uuids
        BY <2>2, PutTailListed, TailListed DEF Queue!PopSomething
      <3> QED BY <1>5, <2>2, <3>1 DEF Queue!PopFromQueue, Queue!PopSomething
    <2> QED BY <1>5, <2>1, <2>2 DEF Queue!PopFromQueue
  <1>6. ASSUME NEW f \in Flushes, Queue!PublishDataTask(f) PROVE PlainTypes'
    <2>1. item[f] \in Requests
      BY <1>6 DEF Queue!PublishDataTask, WrittenOnce, Holding
    <2>2. PICK ok \in BOOLEAN :
              responses' = [responses EXCEPT ![f] = Append(@, [req |-> item[f], ok |-> ok])]
      BY <1>6 DEF Queue!PublishDataTask, Queue!Outcomes
    <2>3. [req |-> item[f], ok |-> ok] \in [req : Requests, ok : BOOLEAN]
      BY <2>1
    <2>4. responses' \in [Flushes -> Seq([req : Requests, ok : BOOLEAN])]
      BY <2>2, <2>3, ResponseTyped
    <2> QED BY <1>6, <2>4 DEF Queue!PublishDataTask
  <1>7. ASSUME NEW f \in Flushes, Queue!AfterPublish(f) PROVE PlainTypes'
    <2>1. item[f] \in Requests
      BY <1>7 DEF Queue!AfterPublish, WrittenOnce, Holding
    <2>2. CASE cancelled[f]
      BY <1>7, <2>1, <2>2 DEF Queue!AfterPublish
    <2>3. CASE ~cancelled[f]
      <3>1. [counter EXCEPT ![f] = @ + 1] \in [Flushes -> Nat]
        BY CountTyped
      <3> QED BY <1>7, <2>1, <2>3, <3>1 DEF Queue!AfterPublish
    <2> QED BY <2>2, <2>3
  <1>8. ASSUME NEW f \in Flushes, Queue!Requeue(f) PROVE PlainTypes'
    <2>1. item[f] \in Requests
      BY <1>8 DEF Queue!Requeue, WrittenOnce, Holding
    <2> QED BY <1>8, <2>1 DEF Queue!Requeue, Queue!PassesCheck, Queue!Uuids
  <1>9. ASSUME NEW f \in Flushes, Queue!Restore(f) PROVE PlainTypes'
    <2>1. item[f] \in Requests
      BY <1>9 DEF Queue!Restore, WrittenOnce, Holding
    <2> QED BY <1>9, <2>1, StoreTyped DEF Queue!Restore, Queue!Uuids
  <1>10. ASSUME NEW f \in Flushes, Queue!Callback(f) \/ Queue!Complete(f) PROVE PlainTypes'
    <2>1. [calls EXCEPT ![f] = @ + 1] \in [Flushes -> Nat]
      BY CountTyped
    <2> QED BY <1>10, <2>1 DEF Queue!Callback, Queue!Complete, Queue!CallUser
  <1>11. CASE Queue!Restart
    <2>1. Queue!Popped \subseteq Requests
      BY DEF Queue!Popped, WrittenOnce, Holding
    <2>2. list # <<>> => Head(list) \in Queue!Uuids
      BY TailListed
    <2>3. faults' \in 0..MaxFaults
      BY <1>11 DEF Queue!Restart, Queue!StreamQueueAssumption
    <2>4. /\ queue' \in [Requests -> {"new", "checked", "queued", "refused", "gone"}]
          /\ pc' \in [Flushes -> {"new", "pending", "check", "pop", "publish", "answered", "requeue",
                                  "store", "callback", "complete", "returned", "gone"}]
          /\ item' \in [Flushes -> Requests \cup {None}]
      BY <1>11 DEF Queue!Restart
    <2>5. data' \in [Queue!Uuids -> Requests \cup {None}] /\ dropped' \subseteq Requests
      <3>1. \A f \in Flushes : pc[f] = "store" => item[f] \in Requests
        BY DEF WrittenOnce, Holding
      <3>2. CASE /\ dropped' = dropped \cup Queue!Popped
                 /\ UNCHANGED data \/ data' = [u \in Queue!Uuids |-> None]
        BY <2>1, <3>2
      <3>3. ASSUME NEW r \in Requests, Queue!PutData(r, r), dropped' = dropped \cup Queue!Popped
            PROVE  data' \in [Queue!Uuids -> Requests \cup {None}] /\ dropped' \subseteq Requests
        BY <2>1, <3>3 DEF Queue!PutData
      <3>4. ASSUME NEW f \in Flushes, pc[f] = "store", Queue!PutData(f, item[f]),
                   dropped' = dropped \cup Queue!Popped
            PROVE  data' \in [Queue!Uuids -> Requests \cup {None}] /\ dropped' \subseteq Requests
        BY <2>1, <3>1, <3>4 DEF Queue!PutData
      <3>5. CASE /\ list # <<>> /\ data[Head(list)] # None
                 /\ data' = [data EXCEPT ![Head(list)] = None]
                 /\ dropped' = dropped \cup Queue!Popped \cup {data[Head(list)]}
        BY <2>1, <2>2, <3>5
      <3> QED BY <1>11, <3>2, <3>3, <3>4, <3>5 DEF Queue!Restart
    <2>6. list' \in Seq(Queue!Uuids) /\ unstored' \subseteq Requests
      <3>1. list' \in {list, <<>>} /\ unstored' \in {unstored, unstored \cup Queue!ListedRequests}
        BY <1>11 DEF Queue!Restart
      <3> QED BY <3>1, ListedTyped, NoneListed
    <2> QED BY <1>11, <2>3, <2>4, <2>5, <2>6 DEF Queue!Restart
  <1>12. ASSUME NEW u \in Queue!Uuids, Queue!EvictRequest(u) PROVE PlainTypes'
    <2>1. data[u] \in Requests /\ faults' \in 0..MaxFaults
      BY <1>12 DEF Queue!EvictRequest, Queue!StreamQueueAssumption
    <2> QED BY <1>12, <2>1 DEF Queue!EvictRequest
  <1>13. CASE Queue!EvictList
    <2>1. faults' \in 0..MaxFaults
      BY <1>13 DEF Queue!EvictList, Queue!StreamQueueAssumption
    <2> QED BY <1>13, <2>1, ListedTyped, NoneListed DEF Queue!EvictList
  <1> QED BY <1>0, <1>1, <1>2, <1>3, <1>4, <1>5, <1>6, <1>7, <1>8, <1>9, <1>10, <1>11, <1>12, <1>13
      DEF Queue!Next, Queue!FlushStep

-----------------------------------------------------------------------------
(* What the steps do with the requests *)

(* A request is put into no other place, and only a uuid without an entry  *)
(* leaves the list.                                                        *)
Over == {"callback", "complete", "returned", "gone"}
Accepted == {"queued", "gone"}
Quiet ==
    /\ UNCHANGED <<data, item, responses, unstored, dropped, interrupted, done>>
    /\ \A u : Listed(list, u) => Listed(list', u) \/ data[u] = None
    /\ \A f \in Flushes :
          /\ pc'[f] \in Holding <=> pc[f] \in Holding
          /\ pc'[f] = "answered" <=> pc[f] = "answered"
          /\ pc[f] \in Over => pc'[f] \in Over
    /\ \A r \in Requests :
          /\ queue'[r] \in Accepted <=> queue[r] \in Accepted
          /\ queue'[r] = "queued" <=> queue[r] = "queued"

(* The cache lets go of an entry.                                          *)
Evicts == Queue!EvictList \/ \E u \in Queue!Uuids : Queue!EvictRequest(u)

(* The steps that move a request.                                          *)
Moves ==
    \/ \E r \in Requests : Queue!QueueStore(r)
    \/ \E f \in Flushes :
          \/ Queue!PopFromQueue(f) /\ Queue!PopSomething(f)
          \/ Queue!PublishDataTask(f) \/ Queue!AfterPublish(f)
          \/ Queue!Requeue(f) /\ ~Queue!HasRoom
          \/ Queue!Restore(f)
    \/ Queue!Restart
    \/ Evicts

(* Every step is one of these, or leaves the requests where they are.    *)
LEMMA QuietOrMoves ==
    ASSUME Queue!StreamQueueAssumption, Queue!TypeOK, [Queue!Next]_Queue!vars
    PROVE  Quiet \/ Moves
  <1> PlainTypes
    BY TypesPlain
  <1> USE DEF PlainTypes, Queue!cacheVars, Queue!flushVars, Queue!history, Queue!GoTo, Holding,
     Over, Accepted
  <1>0. CASE UNCHANGED Queue!vars
    BY <1>0 DEF Queue!vars, Quiet
  <1>1. ASSUME NEW r \in Requests, Queue!Queue(r) PROVE Quiet
    BY <1>1 DEF Queue!Queue, Quiet
  <1>2. ASSUME NEW f \in Flushes, Queue!Flush(f) \/ Queue!Cancel(f) PROVE Quiet
    BY <1>2 DEF Queue!Flush, Queue!Cancel, Quiet
  <1>3. ASSUME NEW f \in Flushes, Queue!Execute(f) PROVE Quiet
    BY <1>3 DEF Queue!Execute, Quiet
  <1>4. ASSUME NEW f \in Flushes, Queue!Check(f) PROVE Quiet
    BY <1>4 DEF Queue!Check, Quiet
  <1>5. ASSUME NEW f \in Flushes, Queue!PopFromQueue(f), Queue!PopNothing(f) PROVE Quiet
    <2>1. \A u : Listed(list, u) => Listed(list', u) \/ data[u] = None
      BY <1>5, PutTailListed DEF Queue!PopNothing
    <2> QED BY <1>5, <2>1 DEF Queue!PopFromQueue, Queue!PopNothing, Quiet
  <1>6. ASSUME NEW f \in Flushes, Queue!Requeue(f), Queue!HasRoom PROVE Quiet
    BY <1>6 DEF Queue!Requeue, Quiet
  <1>7. ASSUME NEW f \in Flushes, Queue!Callback(f) \/ Queue!Complete(f) PROVE Quiet
    BY <1>7 DEF Queue!Callback, Queue!Complete, Quiet
  <1> QED BY <1>0, <1>1, <1>2, <1>3, <1>4, <1>5, <1>6, <1>7
      DEF Queue!Next, Queue!FlushStep, Moves, Evicts, Queue!PopFromQueue

(* A request that a flush or a call of Queue stores gets the entry and the *)
(* place in the list, or a Put has failed.                                 *)
LEMMA StoreEffect ==
    ASSUME Queue!TypeOK, NEW u \in Queue!Uuids, NEW r \in Requests, Queue!Store(u, r)
    PROVE  /\ data' = data \/ data' = [data EXCEPT ![u] = r]
           /\ \A v : Listed(list, v) => Listed(list', v)
           /\ \/ unstored' = unstored /\ Listed(list', u) /\ data'[u] = r
              \/ unstored' = unstored \cup {r}
  <1>1. list \in Seq(Queue!Uuids) /\ data \in [Queue!Uuids -> Requests \cup {None}]
    BY DEF Queue!TypeOK
  <1> QED BY <1>1, AppendListed DEF Queue!Store, Queue!PutData, Queue!PutUuids

(* At a restart, nobody holds a request any more; the cache may be gone,   *)
(* or else a call of Queue or of PopFromQueue may have been between its    *)
(* two accesses of the cache.                                              *)
LEMMA RestartEffect ==
    ASSUME Queue!StreamQueueAssumption, Queue!TypeOK, WrittenOnce, Queue!Restart
    PROVE  /\ \A f \in Flushes : pc'[f] \notin Holding
           /\ \A f \in Flushes : pc[f] \in Over => pc'[f] \in Over
           /\ \A r \in Requests : /\ queue[r] \in Accepted => queue'[r] \in Accepted
                                  /\ queue'[r] = "queued" <=> queue[r] = "queued"
                                  /\ queue'[r] \notin Accepted => queue'[r] = queue[r]
           /\ UNCHANGED <<responses, interrupted, done>>
           /\ Queue!Popped \subseteq dropped' /\ dropped \subseteq dropped'
           /\ \/ UNCHANGED <<list, unstored>> /\ data' = data
              \/ \E r \in Requests : /\ queue[r] = "checked" /\ queue'[r] = "gone"
                                     /\ UNCHANGED <<list, unstored>>
                                     /\ data' = [data EXCEPT ![r] = r]
              \/ \E f \in Flushes : /\ pc[f] = "store" /\ pc'[f] = "gone"
                                    /\ UNCHANGED <<list, unstored>>
                                    /\ data' = [data EXCEPT ![f] = item[f]]
              \/ \E u \in Queue!Uuids : /\ data[u] \in dropped' /\ UNCHANGED <<list, unstored>>
                                        /\ data' = [data EXCEPT ![u] = None]
              \/ /\ list' = <<>> /\ data' = [u \in Queue!Uuids |-> None]
                 /\ unstored' = unstored \cup Queue!ListedRequests
  <1> PlainTypes
    BY TypesPlain
  <1>1. /\ \A f \in Flushes : pc'[f] = IF pc[f] \in {"new", "returned"} THEN pc[f] ELSE "gone"
        /\ \A r \in Requests : queue'[r] = IF queue[r] = "checked" THEN "gone" ELSE queue[r]
        /\ UNCHANGED <<responses, interrupted, done>>
    BY DEF Queue!Restart, PlainTypes
  <1>2. list # <<>> => Head(list) \in Queue!Uuids
    BY TailListed DEF PlainTypes
  <1>3. Queue!Popped \subseteq dropped' /\ dropped \subseteq dropped'
    BY DEF Queue!Restart
  <1>4. \/ UNCHANGED <<list, unstored>> /\ data' = data
        \/ \E r \in Requests : /\ queue[r] = "checked" /\ UNCHANGED <<list, unstored>>
                               /\ data' = [data EXCEPT ![r] = r]
        \/ \E f \in Flushes : /\ pc[f] = "store" /\ UNCHANGED <<list, unstored>>
                              /\ data' = [data EXCEPT ![f] = item[f]]
        \/ \E u \in Queue!Uuids : /\ data[u] \in dropped' /\ UNCHANGED <<list, unstored>>
                                  /\ data' = [data EXCEPT ![u] = None]
        \/ /\ list' = <<>> /\ data' = [u \in Queue!Uuids |-> None]
           /\ unstored' = unstored \cup Queue!ListedRequests
    BY <1>2 DEF Queue!Restart, Queue!PutData
  <1> QED BY <1>1, <1>3, <1>4 DEF Holding, Over, Accepted, PlainTypes

(* The cache lets go of the entry of one request, or of the list.          *)
LEMMA EvictEffect ==
    ASSUME Queue!TypeOK, Evicts
    PROVE  /\ UNCHANGED <<queue, pc, limit, counter, item, started, cancelled, responses, calls,
                          raced, dropped, interrupted, done>>
           /\ \/ list' = list /\ \E u \in Queue!Uuids : /\ data' = [data EXCEPT ![u] = None]
                                                        /\ unstored' = unstored \cup {data[u]}
              \/ /\ list' = <<>> /\ data' = data
                 /\ unstored' = unstored \cup Queue!ListedRequests
  BY DEF Evicts, Queue!EvictList, Queue!EvictRequest, Queue!flushVars

-----------------------------------------------------------------------------
(* No entry is overwritten, and no request is in two places *)

(* Queue writes under its own uuid before it returns, Flush in its       *)
(* Restore only, so that no Put meets an entry of another (:154, :260).  *)
LEMMA WrittenOnceStep ==
    ASSUME Queue!StreamQueueAssumption, Queue!TypeOK, WrittenOnce, [Queue!Next]_Queue!vars
    PROVE  WrittenOnce'
  <1> PlainTypes /\ PlainTypes'
    BY TypesPlain, TypeStep
  <1> USE DEF PlainTypes, Queue!cacheVars, Queue!flushVars, Queue!history, Queue!GoTo, Holding,
     Over, Accepted, WrittenOnce,
          Queue!Uuids
  <1>1. CASE Quiet
    BY <1>1 DEF Quiet
  <1>2. ASSUME NEW r \in Requests, Queue!QueueStore(r) PROVE WrittenOnce'
    <2>1. data' = data \/ data' = [data EXCEPT ![r] = r]
      BY <1>2, StoreEffect DEF Queue!QueueStore
    <2> QED BY <1>2, <2>1 DEF Queue!QueueStore, Queue!StreamQueueAssumption
  <1>3. ASSUME NEW f \in Flushes, Queue!PopFromQueue(f), Queue!PopSomething(f) PROVE WrittenOnce'
    <2>1. Head(list) \in Queue!Uuids
      BY <1>3, TailListed DEF Queue!PopSomething
    <2>2. data[Head(list)] \in Requests
      BY <1>3, <2>1 DEF Queue!PopSomething
    <2> QED BY <1>3, <2>1, <2>2 DEF Queue!PopFromQueue, Queue!PopSomething
  <1>4. ASSUME NEW f \in Flushes, Queue!PublishDataTask(f) PROVE WrittenOnce'
    BY <1>4 DEF Queue!PublishDataTask
  <1>5. ASSUME NEW f \in Flushes, Queue!AfterPublish(f) PROVE WrittenOnce'
    BY <1>5 DEF Queue!AfterPublish
  <1>6. ASSUME NEW f \in Flushes, Queue!Requeue(f), ~Queue!HasRoom PROVE WrittenOnce'
    BY <1>6 DEF Queue!Requeue, Queue!PassesCheck
  <1>7. ASSUME NEW f \in Flushes, Queue!Restore(f) PROVE WrittenOnce'
    <2>1. data' = data \/ data' = [data EXCEPT ![f] = item[f]]
      BY <1>7, StoreEffect DEF Queue!Restore
    <2> QED BY <1>7, <2>1 DEF Queue!Restore, Queue!StreamQueueAssumption
  <1>8. CASE Queue!Restart
    <2> HIDE DEF Holding, Over, Accepted
    <2>1. \A r \in Requests : data'[r] # None => queue'[r] \in Accepted
      BY <1>8, RestartEffect DEF Accepted, Queue!StreamQueueAssumption
    <2>2. \A f \in Flushes : data'[f] # None => pc'[f] \in Over
      BY <1>8, RestartEffect DEF Over, Queue!StreamQueueAssumption
    <2> QED BY <1>8, RestartEffect, <2>1, <2>2 DEF Over, Accepted
  <1>9. CASE Evicts
    BY <1>9, EvictEffect
  <1> QED BY QuietOrMoves, <1>1, <1>2, <1>3, <1>4, <1>5, <1>6, <1>7, <1>8, <1>9 DEF Moves

(* PopFromQueue takes the entry away in the step that hands the request  *)
(* to the flush, and Restore hands it back (:198, :260).                 *)
LEMMA OnePlaceStep ==
    ASSUME Queue!StreamQueueAssumption, Queue!TypeOK, WrittenOnce, OnePlace, [Queue!Next]_Queue!vars
    PROVE  OnePlace'
  <1> SUFFICES ASSUME NEW q \in Requests PROVE InOnePlace(q)'
    BY DEF OnePlace
  <1> PlainTypes /\ PlainTypes' /\ InOnePlace(q) /\ q # None
    BY TypesPlain, TypeStep DEF OnePlace, Queue!StreamQueueAssumption
  <1> USE DEF PlainTypes, Queue!cacheVars, Queue!flushVars, Queue!history, Queue!GoTo,
     InOnePlace, Queue!Uuids
  <1>1. CASE Quiet
    <2>1. \A g \in Flushes : Holds(g, q)' <=> Holds(g, q)
      BY <1>1 DEF Quiet, Holds
    <2> QED BY <1>1, <2>1 DEF Quiet, Accepted
  <1>2. ASSUME NEW r \in Requests, Queue!QueueStore(r) PROVE InOnePlace(q)'
    <2>1. data' = data \/ data' = [data EXCEPT ![r] = r]
      BY <1>2, StoreEffect DEF Queue!QueueStore
    <2>2. \A g \in Flushes : Holds(g, q)' <=> Holds(g, q)
      BY <1>2 DEF Queue!QueueStore, Holds
    <2>3. queue[r] = "checked" /\ queue' = [queue EXCEPT ![r] = "queued"] /\ done' = done
      BY <1>2 DEF Queue!QueueStore
    <2>4. \A u \in Queue!Uuids : data'[u] = q => data[u] = q \/ (u = r /\ q = r)
      BY <2>1
    <2>5. CASE q = r
      <3>1. \A u \in Queue!Uuids : data[u] # q
        BY <2>3, <2>5
      <3>2. q \notin done /\ \A g \in Flushes : ~Holds(g, q)
        BY <2>3, <2>5
      <3> QED BY <2>2, <2>3, <2>4, <2>5, <3>1, <3>2
    <2>6. CASE q # r
      BY <2>2, <2>3, <2>4, <2>6
    <2> QED BY <2>5, <2>6
  <1>3. ASSUME NEW f \in Flushes, Queue!PopFromQueue(f), Queue!PopSomething(f) PROVE InOnePlace(q)'
    <2>1. Head(list) \in Queue!Uuids
      BY <1>3, TailListed DEF Queue!PopSomething
    <2>2. /\ data' = [data EXCEPT ![Head(list)] = None] /\ queue' = queue /\ done' = done
          /\ \A g \in Flushes : Holds(g, q)' => Holds(g, q) \/ (g = f /\ data[Head(list)] = q)
      BY <1>3 DEF Queue!PopFromQueue, Queue!PopSomething, Holding, Holds
    <2>3. CASE data[Head(list)] = q
      <3>1. \A u \in Queue!Uuids : data'[u] # q
        BY <2>1, <2>2, <2>3
      <3>2. \A g \in Flushes : Holds(g, q)' => g = f
        BY <2>1, <2>2, <2>3
      <3> QED BY <2>1, <2>2, <2>3, <3>1, <3>2
    <2>4. CASE data[Head(list)] # q
      BY <2>1, <2>2, <2>4
    <2> QED BY <2>3, <2>4
  <1>4. ASSUME NEW f \in Flushes, Queue!PublishDataTask(f) PROVE InOnePlace(q)'
    <2>1. \A g \in Flushes : Holds(g, q)' <=> Holds(g, q)
      BY <1>4 DEF Queue!PublishDataTask, Holds, Holding
    <2> QED BY <1>4, <2>1 DEF Queue!PublishDataTask
  <1>5. ASSUME NEW f \in Flushes, Queue!AfterPublish(f) PROVE InOnePlace(q)'
    <2>1. CASE cancelled[f]
      <3>1. \A g \in Flushes : Holds(g, q)' <=> Holds(g, q)
        BY <1>5, <2>1 DEF Queue!AfterPublish, Holds, Holding
      <3> QED BY <1>5, <2>1, <3>1 DEF Queue!AfterPublish
    <2>2. CASE ~cancelled[f]
      <3>1. \A g \in Flushes : Holds(g, q)' <=> Holds(g, q) /\ g # f
        BY <1>5, <2>2 DEF Queue!AfterPublish, Holds, Holding
      <3>2. item[f] = q => Holds(f, q)
        BY <1>5 DEF Queue!AfterPublish, Holds, Holding
      <3>3. data' = data /\ queue' = queue /\ done' = done \cup {item[f]}
        BY <1>5, <2>2 DEF Queue!AfterPublish
      <3> QED BY <3>1, <3>2, <3>3
    <2> QED BY <2>1, <2>2
  <1>6. ASSUME NEW f \in Flushes, Queue!Requeue(f), ~Queue!HasRoom PROVE InOnePlace(q)'
    <2>1. \A g \in Flushes : Holds(g, q)' => Holds(g, q)
      BY <1>6 DEF Queue!Requeue, Queue!PassesCheck, Holds, Holding
    <2> QED BY <1>6, <2>1 DEF Queue!Requeue
  <1>7. ASSUME NEW f \in Flushes, Queue!Restore(f) PROVE InOnePlace(q)'
    <2>1. item[f] \in Requests
      BY <1>7 DEF Queue!Restore, WrittenOnce, Holding
    <2>2. data' = data \/ data' = [data EXCEPT ![f] = item[f]]
      BY <1>7, <2>1, StoreEffect DEF Queue!Restore
    <2>3. item[f] = q => Holds(f, q)
      BY <1>7 DEF Queue!Restore, Holds, Holding
    <2>4. \A g \in Flushes : Holds(g, q)' => Holds(g, q) /\ g # f
      BY <1>7 DEF Queue!Restore, Holds, Holding
    <2>5. queue' = queue /\ done' = done
      BY <1>7 DEF Queue!Restore
    <2> QED BY <2>2, <2>3, <2>4, <2>5
  <1>8. CASE Queue!Restart
    <2>1. \A g \in Flushes : ~Holds(g, q)'
      BY <1>8, RestartEffect DEF Holds
    <2>2. done' = done /\ (queue'[q] \notin Accepted => queue[q] \notin Accepted)
      BY <1>8, RestartEffect
    <2>3. CASE data' = data
      BY <2>1, <2>2, <2>3 DEF Accepted
    <2>4. ASSUME NEW r \in Requests, queue[r] = "checked", queue'[r] = "gone",
                 data' = [data EXCEPT ![r] = r]
          PROVE  InOnePlace(q)'
      BY <2>1, <2>2, <2>4 DEF Accepted
    <2>5. ASSUME NEW f \in Flushes, pc[f] = "store", data' = [data EXCEPT ![f] = item[f]]
          PROVE  InOnePlace(q)'
      <3>1. item[f] = q => Holds(f, q)
        BY <2>5 DEF Holding, Holds
      <3> QED BY <2>1, <2>2, <2>5, <3>1 DEF Accepted
    <2>6. ASSUME NEW u \in Queue!Uuids, data' = [data EXCEPT ![u] = None] PROVE InOnePlace(q)'
      BY <2>1, <2>2, <2>6 DEF Accepted
    <2>7. CASE data' = [u \in Queue!Uuids |-> None]
      BY <2>1, <2>2, <2>7 DEF Accepted
    <2> QED BY <1>8, RestartEffect, <2>3, <2>4, <2>5, <2>6, <2>7
  <1>9. CASE Evicts
    <2>1. \A g \in Flushes : Holds(g, q)' <=> Holds(g, q)
      BY <1>9, EvictEffect DEF Holds
    <2>2. \A u \in Queue!Uuids : data'[u] = q => data[u] = q
      BY <1>9, EvictEffect
    <2> QED BY <1>9, EvictEffect, <2>1, <2>2
  <1> QED BY QuietOrMoves, <1>1, <1>2, <1>3, <1>4, <1>5, <1>6, <1>7, <1>8, <1>9 DEF Moves

-----------------------------------------------------------------------------
(* Nothing is lost but what history says *)

(* What leaves the list has no entry any more, and what leaves a flush   *)
(* is answered, stored again or recorded as lost (:198, :261).           *)
LEMMA NothingLostStep ==
    ASSUME Queue!StreamQueueAssumption, Queue!TypeOK, WrittenOnce, NothingLost, [Queue!Next]_Queue!vars
    PROVE  NothingLost'
  <1> SUFFICES ASSUME NEW q \in Requests PROVE NotLost(q)'
    BY DEF NothingLost
  <1> PlainTypes /\ PlainTypes' /\ NotLost(q) /\ q # None
    BY TypesPlain, TypeStep DEF NothingLost, Queue!StreamQueueAssumption
  <1> USE DEF PlainTypes, Queue!cacheVars, Queue!flushVars, Queue!history, Queue!GoTo, NotLost,
     Queue!Uuids
  <1>1. CASE Quiet
    <2>1. \A g \in Flushes : Holds(g, q)' <=> Holds(g, q)
      BY <1>1 DEF Quiet, Holds
    <2> QED BY <1>1, <2>1 DEF Quiet
  <1>2. ASSUME NEW r \in Requests, Queue!QueueStore(r) PROVE NotLost(q)'
    <2>1. /\ data' = data \/ data' = [data EXCEPT ![r] = r]
          /\ \A v : Listed(list, v) => Listed(list', v)
          /\ \/ unstored' = unstored /\ Listed(list', r) /\ data'[r] = r
             \/ unstored' = unstored \cup {r}
      BY <1>2, StoreEffect DEF Queue!QueueStore
    <2>2. \A g \in Flushes : Holds(g, q)' <=> Holds(g, q)
      BY <1>2 DEF Queue!QueueStore, Holds
    <2>3. data[r] = None
      BY <1>2 DEF WrittenOnce, Queue!QueueStore
    <2>4. queue' = [queue EXCEPT ![r] = "queued"] /\ dropped' = dropped /\ done' = done
      BY <1>2 DEF Queue!QueueStore
    <2>5. CASE q = r
      BY <2>1, <2>4, <2>5
    <2>6. CASE q # r
      <3>1. \A u \in Queue!Uuids : data[u] = q => data'[u] = q
        BY <2>1, <2>3
      <3> QED BY <2>1, <2>2, <2>4, <2>6, <3>1
    <2> QED BY <2>5, <2>6
  <1>3. ASSUME NEW f \in Flushes, Queue!PopFromQueue(f), Queue!PopSomething(f) PROVE NotLost(q)'
    <2>1. /\ Head(list) \in Queue!Uuids
          /\ \A v : Listed(list, v) => v = Head(list) \/ Listed(list', v)
      BY <1>3, TailListed, PutTailListed DEF Queue!PopSomething
    <2>2. /\ data' = [data EXCEPT ![Head(list)] = None]
          /\ UNCHANGED <<queue, unstored, dropped, done>>
          /\ \A g \in Flushes : Holds(g, q) => Holds(g, q)'
          /\ data[Head(list)] = q => Holds(f, q)'
      BY <1>3 DEF Queue!PopFromQueue, Queue!PopSomething, Holding, Holds
    <2> QED BY <2>1, <2>2
  <1>4. ASSUME NEW f \in Flushes, Queue!PublishDataTask(f) PROVE NotLost(q)'
    <2>1. \A g \in Flushes : Holds(g, q)' <=> Holds(g, q)
      BY <1>4 DEF Queue!PublishDataTask, Holds, Holding
    <2> QED BY <1>4, <2>1 DEF Queue!PublishDataTask
  <1>5. ASSUME NEW f \in Flushes, Queue!AfterPublish(f) PROVE NotLost(q)'
    <2>1. \A g \in Flushes : Holds(g, q) => Holds(g, q)' \/ q \in done'
      BY <1>5 DEF Queue!AfterPublish, Holds, Holding
    <2>2. done \subseteq done' /\ UNCHANGED <<list, data, queue, unstored, dropped>>
      BY <1>5 DEF Queue!AfterPublish
    <2> QED BY <2>1, <2>2
  <1>6. ASSUME NEW f \in Flushes, Queue!Requeue(f), ~Queue!HasRoom PROVE NotLost(q)'
    <2>1. \A g \in Flushes : Holds(g, q) => Holds(g, q)' \/ q \in dropped'
      BY <1>6 DEF Queue!Requeue, Queue!PassesCheck, Holds, Holding
    <2>2. dropped \subseteq dropped' /\ UNCHANGED <<list, data, queue, unstored, done>>
      BY <1>6 DEF Queue!Requeue, Queue!PassesCheck
    <2> QED BY <2>1, <2>2
  <1>7. ASSUME NEW f \in Flushes, Queue!Restore(f) PROVE NotLost(q)'
    <2>1. item[f] \in Requests
      BY <1>7 DEF Queue!Restore, WrittenOnce, Holding
    <2>2. /\ data' = data \/ data' = [data EXCEPT ![f] = item[f]]
          /\ \A v : Listed(list, v) => Listed(list', v)
          /\ \/ unstored' = unstored /\ Listed(list', f) /\ data'[f] = item[f]
             \/ unstored' = unstored \cup {item[f]}
      BY <1>7, <2>1, StoreEffect DEF Queue!Restore
    <2>3. data[f] = None
      BY <1>7 DEF WrittenOnce, Queue!Restore
    <2>4. \A g \in Flushes : Holds(g, q) => Holds(g, q)' \/ q = item[f]
      BY <1>7 DEF Queue!Restore, Holds, Holding
    <2>5. UNCHANGED <<queue, dropped, done>>
      BY <1>7 DEF Queue!Restore
    <2>6. CASE q = item[f]
      BY <2>2, <2>5, <2>6
    <2>7. CASE q # item[f]
      <3>1. \A u \in Queue!Uuids : data[u] = q => data'[u] = q
        BY <2>2, <2>3
      <3> QED BY <2>2, <2>4, <2>5, <2>7, <3>1
    <2> QED BY <2>6, <2>7
  <1>8. CASE Queue!Restart
    <2>1. \A g \in Flushes : Holds(g, q) => q \in dropped'
      BY <1>8, RestartEffect DEF Holds, Holding, Queue!Popped
    <2>2. \A u \in Queue!Uuids : Listed(list, u) /\ data[u] = q =>
              (Listed(list', u) /\ data'[u] = q) \/ q \in unstored' \cup dropped'
      <3>1. \A r \in Requests : queue[r] = "checked" => data[r] = None
        BY DEF WrittenOnce
      <3>2. \A f \in Flushes : pc[f] = "store" => data[f] = None
        BY DEF WrittenOnce
      <3> QED BY <1>8, RestartEffect, ListedTyped, <3>1, <3>2
    <2>3. /\ dropped \subseteq dropped' /\ unstored \subseteq unstored' /\ UNCHANGED done
          /\ queue'[q] = "queued" => queue[q] = "queued"
      BY <1>8, RestartEffect
    <2> QED BY <2>1, <2>2, <2>3
  <1>9. CASE Evicts
    <2>1. \A g \in Flushes : Holds(g, q)' <=> Holds(g, q)
      BY <1>9, EvictEffect DEF Holds
    <2>2. \A u \in Queue!Uuids : Listed(list, u) /\ data[u] = q =>
              (Listed(list', u) /\ data'[u] = q) \/ q \in unstored'
      BY <1>9, EvictEffect, ListedTyped
    <2>3. unstored \subseteq unstored' /\ UNCHANGED <<queue, dropped, done>>
      BY <1>9, EvictEffect
    <2> QED BY <2>1, <2>2, <2>3
  <1> QED BY QuietOrMoves, <1>1, <1>2, <1>3, <1>4, <1>5, <1>6, <1>7, <1>8, <1>9 DEF Moves

-----------------------------------------------------------------------------
(* One answer *)

(* Unless a flush publishes it, a request has the answers that it had.     *)
LEMMA SameAnswers ==
    ASSUME responses' = responses, NEW r
    PROVE  \A f, i : Answers(f, i, r)' <=> Answers(f, i, r)
  BY DEF Answers

(* Who publishes a request is the only one that holds it, and lets it go *)
(* with the answer unless the flush was cancelled (:260).                *)
LEMMA AnsweredOnceStep ==
    ASSUME Queue!StreamQueueAssumption, Queue!TypeOK, WrittenOnce, OnePlace, AnsweredOnce, [Queue!Next]_Queue!vars
    PROVE  AnsweredOnce'
  <1> DEFINE OneAnswer(r) == \A f \in Flushes, i \in Nat : Answers(f, i, r) =>
                 /\ NoSecondAnswer(r)
                 /\ \A g \in Flushes, j \in Nat : Answers(g, j, r) => g = f /\ j = i
  <1> SUFFICES ASSUME NEW q \in Requests, q \notin interrupted' PROVE OneAnswer(q)'
    BY DEF AnsweredOnce
  <1> HIDE DEF OneAnswer
  <1> PlainTypes /\ PlainTypes' /\ q # None /\ InOnePlace(q) /\ (q \notin interrupted => OneAnswer(q))
    BY TypesPlain, TypeStep DEF AnsweredOnce, Queue!StreamQueueAssumption, OnePlace, OneAnswer
  <1>0. ASSUME q \notin interrupted, responses' = responses, NoSecondAnswer(q) => NoSecondAnswer(q)'
        PROVE  OneAnswer(q)'
    BY <1>0, SameAnswers DEF OneAnswer
  <1> USE DEF PlainTypes, Queue!cacheVars, Queue!flushVars, Queue!history, Queue!GoTo, Queue!Uuids
  <1>1. CASE Quiet
    <2>1. \A g \in Flushes : Holds(g, q)' <=> Holds(g, q)
      BY <1>1 DEF Quiet, Holds
    <2> QED BY <1>0, <1>1, <2>1 DEF Quiet, NoSecondAnswer, Accepted
  <1>2. ASSUME NEW r \in Requests, Queue!QueueStore(r) PROVE OneAnswer(q)'
    <2>1. data' = data \/ data' = [data EXCEPT ![r] = r]
      BY <1>2, StoreEffect DEF Queue!QueueStore
    <2>2. \A g \in Flushes : Holds(g, q)' <=> Holds(g, q)
      BY <1>2 DEF Queue!QueueStore, Holds
    <2>3. /\ queue[r] = "checked" /\ queue' = [queue EXCEPT ![r] = "queued"]
          /\ UNCHANGED <<pc, responses, interrupted>>
      BY <1>2 DEF Queue!QueueStore
    <2> QED BY <1>0, <2>1, <2>2, <2>3 DEF NoSecondAnswer
  <1>3. ASSUME NEW f \in Flushes, Queue!PopFromQueue(f), Queue!PopSomething(f) PROVE OneAnswer(q)'
    <2>1. Head(list) \in Queue!Uuids
      BY <1>3, TailListed DEF Queue!PopSomething
    <2>2. /\ data' = [data EXCEPT ![Head(list)] = None]
          /\ UNCHANGED <<queue, responses, interrupted>>
          /\ \A g \in Flushes :
                Holds(g, q)' => (Holds(g, q) /\ pc'[g] = pc[g]) \/ data[Head(list)] = q
      BY <1>3 DEF Queue!PopFromQueue, Queue!PopSomething, Holding, Holds
    <2> QED BY <1>0, <2>1, <2>2 DEF NoSecondAnswer
  <1>4. ASSUME NEW f \in Flushes, Queue!PublishDataTask(f) PROVE OneAnswer(q)'
    <2>1. \A g \in Flushes : Holds(g, q)' <=> Holds(g, q)
      BY <1>4 DEF Queue!PublishDataTask, Holds, Holding
    <2>2. /\ UNCHANGED <<data, queue, interrupted>> /\ pc' = [pc EXCEPT ![f] = "answered"]
          /\ pc[f] = "publish"
      BY <1>4 DEF Queue!PublishDataTask
    <2>3. PICK x : x.req = item[f] /\ responses' = [responses EXCEPT ![f] = Append(@, x)]
      <3>1. PICK ok \in BOOLEAN :
                responses' = [responses EXCEPT ![f] = Append(@, [req |-> item[f], ok |-> ok])]
        BY <1>4 DEF Queue!PublishDataTask, Queue!Outcomes
      <3> QED BY <3>1
    <2>4. \A g \in Flushes, i \in Nat :
              Answers(g, i, q)' =>
                  Answers(g, i, q) \/ (g = f /\ i = Len(responses[f]) + 1 /\ q = item[f])
      BY <2>3 DEF Answers
    <2>5. CASE q = item[f]
      <3>1. Holds(f, q)
        BY <2>2, <2>5 DEF Holds, Holding
      <3>2. \A g \in Flushes, i \in Nat : ~Answers(g, i, q)
        BY <2>2, <3>1 DEF OneAnswer, NoSecondAnswer
      <3>3. NoSecondAnswer(q)'
        BY <2>1, <2>2, <3>1 DEF InOnePlace, NoSecondAnswer
      <3> QED BY <2>4, <3>2, <3>3 DEF OneAnswer
    <2>6. CASE q # item[f]
      <3>1. \A g \in Flushes : Holds(g, q) => g # f
        BY <2>6 DEF Holds
      <3>2. NoSecondAnswer(q) => NoSecondAnswer(q)'
        BY <2>1, <2>2, <3>1 DEF NoSecondAnswer
      <3> QED BY <2>2, <2>4, <2>6, <3>2 DEF OneAnswer
    <2> QED BY <2>5, <2>6
  <1>5. ASSUME NEW f \in Flushes, Queue!AfterPublish(f) PROVE OneAnswer(q)'
    <2>1. \A g \in Flushes : Holds(g, q)' => Holds(g, q) /\ g # f
      BY <1>5 DEF Queue!AfterPublish, Holds, Holding
    <2>2. /\ UNCHANGED <<data, queue, responses>> /\ interrupted \subseteq interrupted'
          /\ \A g \in Flushes \ {f} : pc'[g] = pc[g]
      BY <1>5 DEF Queue!AfterPublish
    <2> QED BY <1>0, <2>1, <2>2 DEF NoSecondAnswer
  <1>6. ASSUME NEW f \in Flushes, Queue!Requeue(f), ~Queue!HasRoom PROVE OneAnswer(q)'
    <2>1. \A g \in Flushes : Holds(g, q)' => Holds(g, q) /\ g # f
      BY <1>6 DEF Queue!Requeue, Queue!PassesCheck, Holds, Holding
    <2>2. /\ UNCHANGED <<data, queue, responses, interrupted>>
          /\ \A g \in Flushes \ {f} : pc'[g] = pc[g]
      BY <1>6 DEF Queue!Requeue
    <2> QED BY <1>0, <2>1, <2>2 DEF NoSecondAnswer
  <1>7. ASSUME NEW f \in Flushes, Queue!Restore(f) PROVE OneAnswer(q)'
    <2>1. item[f] \in Requests
      BY <1>7 DEF Queue!Restore, WrittenOnce, Holding
    <2>2. data' = data \/ data' = [data EXCEPT ![f] = item[f]]
      BY <1>7, <2>1, StoreEffect DEF Queue!Restore
    <2>3. NoSecondAnswer(q) => q # item[f]
      BY <1>7 DEF Queue!Restore, Holds, Holding, NoSecondAnswer
    <2>4. \A g \in Flushes : Holds(g, q)' => Holds(g, q) /\ g # f
      BY <1>7 DEF Queue!Restore, Holds, Holding
    <2>5. /\ UNCHANGED <<queue, responses, interrupted>>
          /\ \A g \in Flushes \ {f} : pc'[g] = pc[g]
      BY <1>7 DEF Queue!Restore
    <2> QED BY <1>0, <2>2, <2>3, <2>4, <2>5 DEF NoSecondAnswer
  <1>8. CASE Queue!Restart
    <2>1. \A g \in Flushes : ~Holds(g, q)'
      BY <1>8, RestartEffect DEF Holds
    <2>2. /\ responses' = responses /\ interrupted' = interrupted
          /\ queue[q] \in Accepted => queue'[q] \in Accepted
      BY <1>8, RestartEffect
    <2>3. NoSecondAnswer(q) => \A u \in Queue!Uuids : data'[u] # q
      <3>1. ASSUME NoSecondAnswer(q)
            PROVE  /\ queue[q] # "checked"
                   /\ \A f \in Flushes : pc[f] = "store" => item[f] # q
                   /\ \A u \in Queue!Uuids : data[u] # q
        BY <3>1 DEF NoSecondAnswer, Holds, Holding
      <3> QED BY <1>8, RestartEffect, <3>1
    <2> QED BY <1>0, <2>1, <2>2, <2>3 DEF NoSecondAnswer, Accepted
  <1>9. CASE Evicts
    <2>1. \A g \in Flushes : Holds(g, q)' <=> Holds(g, q)
      BY <1>9, EvictEffect DEF Holds
    <2>2. \A u \in Queue!Uuids : data'[u] = q => data[u] = q
      BY <1>9, EvictEffect
    <2> QED BY <1>0, <1>9, EvictEffect, <2>1, <2>2 DEF NoSecondAnswer
  <1> QED BY QuietOrMoves, <1>1, <1>2, <1>3, <1>4, <1>5, <1>6, <1>7, <1>8, <1>9 DEF Moves

-----------------------------------------------------------------------------
(* Callbacks and counters *)

(* Flush calls back at its end, its TaskContext if Flush did not run     *)
(* (exec_started, :232).                                                 *)
LEMMA CalledOnceStep ==
    ASSUME Queue!TypeOK, CalledOnce, [Queue!Next]_Queue!vars
    PROVE  CalledOnce'
  <1> PlainTypes
    BY TypesPlain
  <1> USE DEF PlainTypes, Queue!cacheVars, Queue!flushVars, Queue!history, Queue!GoTo, Holding,
     Early, Working, CalledOnce
  <1>0. CASE UNCHANGED Queue!vars
    BY <1>0 DEF Queue!vars
  <1>1. ASSUME NEW r \in Requests, Queue!Queue(r) \/ Queue!QueueStore(r) PROVE CalledOnce'
    BY <1>1 DEF Queue!Queue, Queue!QueueStore
  <1>2. ASSUME NEW f \in Flushes, Queue!Flush(f) \/ Queue!Cancel(f) PROVE CalledOnce'
    BY <1>2 DEF Queue!Flush, Queue!Cancel
  <1>3. ASSUME NEW f \in Flushes, Queue!Execute(f) PROVE CalledOnce'
    BY <1>3 DEF Queue!Execute
  <1>4. ASSUME NEW f \in Flushes, Queue!Check(f) PROVE CalledOnce'
    BY <1>4 DEF Queue!Check
  <1>5. ASSUME NEW f \in Flushes, Queue!PopFromQueue(f) PROVE CalledOnce'
    BY <1>5 DEF Queue!PopFromQueue, Queue!PopNothing, Queue!PopSomething
  <1>6. ASSUME NEW f \in Flushes, Queue!PublishDataTask(f) PROVE CalledOnce'
    BY <1>6 DEF Queue!PublishDataTask
  <1>7. ASSUME NEW f \in Flushes, Queue!AfterPublish(f) PROVE CalledOnce'
    BY <1>7 DEF Queue!AfterPublish
  <1>8. ASSUME NEW f \in Flushes, Queue!Requeue(f) PROVE CalledOnce'
    BY <1>8 DEF Queue!Requeue
  <1>9. ASSUME NEW f \in Flushes, Queue!Restore(f) PROVE CalledOnce'
    BY <1>9 DEF Queue!Restore
  <1>10. ASSUME NEW f \in Flushes, Queue!Callback(f) PROVE CalledOnce'
    BY <1>10 DEF Queue!Callback, Queue!CallUser
  <1>11. ASSUME NEW f \in Flushes, Queue!Complete(f) PROVE CalledOnce'
    BY <1>11 DEF Queue!Complete, Queue!CallUser
  <1>12. CASE Queue!Restart
    BY <1>12 DEF Queue!Restart
  <1>13. CASE Evicts
    BY <1>13, EvictEffect
  <1> QED BY <1>0, <1>1, <1>2, <1>3, <1>4, <1>5, <1>6, <1>7, <1>8, <1>9, <1>10, <1>11, <1>12, <1>13
      DEF Queue!Next, Queue!FlushStep, Evicts

(* The loop of Flush counts what is answered for good, and ends at the   *)
(* limit (:249).                                                         *)
LEMMA CountedStep ==
    ASSUME Queue!StreamQueueAssumption, Queue!TypeOK, WrittenOnce, OnePlace, QueueCounted, [Queue!Next]_Queue!vars
    PROVE  QueueCounted'
  <1> PlainTypes
    BY TypesPlain
  <1>a. limit \in [Flushes -> Int] /\ IsFiniteSet(done) /\ Cardinality(done) \in Nat
    BY QueueSets, FS_Subset, FS_CardinalityType DEF Queue!StreamQueueAssumption, PlainTypes
  <1> USE <1>a DEF PlainTypes, Queue!cacheVars, Queue!flushVars, Queue!history, Queue!GoTo,
     Holding, QueueCounted
  <1>0. CASE UNCHANGED Queue!vars
    BY <1>0 DEF Queue!vars
  <1>1. ASSUME NEW r \in Requests, Queue!Queue(r) \/ Queue!QueueStore(r) PROVE QueueCounted'
    BY <1>1 DEF Queue!Queue, Queue!QueueStore
  <1>2. ASSUME NEW f \in Flushes, Queue!Flush(f) \/ Queue!Cancel(f) PROVE QueueCounted'
    BY <1>2 DEF Queue!Flush, Queue!Cancel
  <1>3. ASSUME NEW f \in Flushes, Queue!Execute(f) PROVE QueueCounted'
    BY <1>3 DEF Queue!Execute
  <1>4. ASSUME NEW f \in Flushes, Queue!Check(f) PROVE QueueCounted'
    BY <1>4 DEF Queue!Check
  <1>5. ASSUME NEW f \in Flushes, Queue!PopFromQueue(f) PROVE QueueCounted'
    BY <1>5 DEF Queue!PopFromQueue, Queue!PopNothing, Queue!PopSomething
  <1>6. ASSUME NEW f \in Flushes, Queue!PublishDataTask(f) PROVE QueueCounted'
    BY <1>6 DEF Queue!PublishDataTask
  <1>7. ASSUME NEW f \in Flushes, Queue!AfterPublish(f) PROVE QueueCounted'
    <2>1. CASE cancelled[f]
      BY <1>7, <2>1 DEF Queue!AfterPublish
    <2>2. CASE ~cancelled[f]
      <3>1. item[f] \in Requests /\ item[f] \notin done
        BY <1>7 DEF Queue!AfterPublish, WrittenOnce, OnePlace, InOnePlace, Holds
      <3>2. /\ done' = done \cup {item[f]} /\ counter' = [counter EXCEPT ![f] = @ + 1]
            /\ pc' = [pc EXCEPT ![f] = "check"] /\ limit' = limit
            /\ pc[f] = "answered"
        BY <1>7, <2>2 DEF Queue!AfterPublish
      <3>3. Cardinality(done') = Cardinality(done) + 1
        BY <3>1, <3>2, FS_AddElement
      <3> QED BY <3>2, <3>3
    <2> QED BY <2>1, <2>2
  <1>8. ASSUME NEW f \in Flushes, Queue!Requeue(f) PROVE QueueCounted'
    BY <1>8 DEF Queue!Requeue
  <1>9. ASSUME NEW f \in Flushes, Queue!Restore(f) PROVE QueueCounted'
    BY <1>9 DEF Queue!Restore
  <1>10. ASSUME NEW f \in Flushes, Queue!Callback(f) \/ Queue!Complete(f) PROVE QueueCounted'
    BY <1>10 DEF Queue!Callback, Queue!Complete
  <1>11. CASE Queue!Restart
    BY <1>11 DEF Queue!Restart
  <1>12. CASE Evicts
    BY <1>12, EvictEffect
  <1> QED BY <1>0, <1>1, <1>2, <1>3, <1>4, <1>5, <1>6, <1>7, <1>8, <1>9, <1>10, <1>11, <1>12
      DEF Queue!Next, Queue!FlushStep, Evicts

-----------------------------------------------------------------------------
(* The size of the queue *)

(* The steps that have nothing to do with the size: they check it, store   *)
(* or change the list no more than to shorten it.                          *)
LEMMA SameSize ==
    ASSUME Queue!TypeOK, Raced, list' \in Seq(Queue!Uuids), Len(list') <= Len(list), Queue!Checked' = Queue!Checked,
           raced' = raced, Queue!StreamQueueAssumption,
           \A r \in Requests : queue[r] # "new" => queue'[r] # "new",
           \A f \in Flushes : pc[f] \in {"store"} \cup Over => pc'[f] \in {"store"} \cup Over
    PROVE  Raced'
  <1>1. IsFiniteSet(Queue!Checked)' /\ IsFiniteSet(raced)'
    BY DEF Raced
  <1>2. Len(list) \in Nat /\ Len(list') \in Nat /\ Cardinality(Queue!Checked) \in Nat
        /\ Cardinality(raced) \in Nat /\ MaxRequests \in Nat
    BY FS_CardinalityType DEF Raced, Queue!TypeOK, Queue!StreamQueueAssumption
  <1>3. Cardinality(Queue!Checked)' = Cardinality(Queue!Checked) /\ Cardinality(raced)' = Cardinality(raced)
    OBVIOUS
  <1>4. Queue!QueueBounded'
    BY <1>2, <1>3, QueueSets DEF Raced, Queue!QueueBounded, Queue!QueueSize
  <1>5. /\ \A r \in raced' \cap Requests : queue'[r] # "new"
        /\ \A f \in raced' \cap Flushes :
              pc'[f] \in {"store", "callback", "complete", "returned", "gone"}
    BY DEF Raced, Over
  <1> QED BY <1>1, <1>4, <1>5 DEF Raced

(* Queue and Requeue check the size before they store: whoever does so     *)
(* while another is between the two is in raced.                           *)
LEMMA ChecksSize ==
    ASSUME Queue!TypeOK, Raced, Queue!StreamQueueAssumption, list' = list, NEW u \in Queue!Uuids, Queue!PassesCheck(u),
           Queue!Checked' = Queue!Checked \cup {u}, u \notin Queue!Checked, u \notin raced,
           \A r \in Requests : queue[r] # "new" \/ r = u => queue'[r] # "new",
           \A f \in Flushes :
               pc[f] \in {"store"} \cup Over \/ f = u => pc'[f] \in {"store"} \cup Over
    PROVE  Raced'
  <1>1. /\ IsFiniteSet(Queue!Checked)' /\ IsFiniteSet(raced)'
        /\ Cardinality(Queue!Checked)' = Cardinality(Queue!Checked) + 1
        /\ Cardinality(raced)' = IF Queue!Checked # {} THEN Cardinality(raced) + 1
                                 ELSE Cardinality(raced)
    BY FS_AddElement DEF Raced, Queue!PassesCheck
  <1>2. Len(list) \in Nat /\ Cardinality(Queue!Checked) \in Nat /\ Cardinality(raced) \in Nat
        /\ MaxRequests \in Nat
    BY FS_CardinalityType DEF Raced, Queue!TypeOK, Queue!StreamQueueAssumption
  <1>3. Queue!Checked = {} => Cardinality(Queue!Checked) = 0
    BY FS_EmptySet
  <1>4. Queue!QueueBounded'
    BY <1>1, <1>2, <1>3, QueueSets DEF Raced, Queue!QueueBounded, Queue!QueueSize,
       Queue!PassesCheck, Queue!HasRoom
  <1>5. raced' \subseteq raced \cup {u}
    BY DEF Queue!PassesCheck
  <1>6. /\ \A r \in raced' \cap Requests : queue'[r] # "new"
        /\ \A f \in raced' \cap Flushes :
              pc'[f] \in {"store", "callback", "complete", "returned", "gone"}
    BY <1>5 DEF Raced, Over
  <1> QED BY <1>1, <1>4, <1>6 DEF Raced

(* Who stores has checked.                                                 *)
LEMMA StoresSize ==
    ASSUME Queue!TypeOK, Raced, Queue!StreamQueueAssumption, NEW u \in Queue!Uuids, NEW r \in Requests, Queue!Store(u, r),
           Queue!Checked' = Queue!Checked \ {u}, u \in Queue!Checked, raced' = raced,
           \A q \in Requests : queue[q] # "new" => queue'[q] # "new",
           \A f \in Flushes : pc[f] \in {"store"} \cup Over => pc'[f] \in {"store"} \cup Over
    PROVE  Raced'
  <1>1. /\ IsFiniteSet(Queue!Checked)' /\ IsFiniteSet(raced)'
        /\ Cardinality(Queue!Checked)' = Cardinality(Queue!Checked) - 1
        /\ Cardinality(raced)' = Cardinality(raced)
    BY FS_RemoveElement DEF Raced
  <1>2. Len(list) \in Nat /\ Cardinality(Queue!Checked) \in Nat /\ Cardinality(raced) \in Nat
        /\ MaxRequests \in Nat /\ list \in Seq(Queue!Uuids)
    BY FS_CardinalityType DEF Raced, Queue!TypeOK, Queue!StreamQueueAssumption
  <1>3. Len(list') \in Nat /\ Len(list') <= Len(list) + 1
    BY <1>2, AppendListed DEF Queue!Store, Queue!PutUuids
  <1>4. Queue!QueueBounded'
    BY <1>1, <1>2, <1>3, QueueSets DEF Raced, Queue!QueueBounded, Queue!QueueSize
  <1>5. /\ \A q \in raced' \cap Requests : queue'[q] # "new"
        /\ \A f \in raced' \cap Flushes :
              pc'[f] \in {"store", "callback", "complete", "returned", "gone"}
    BY DEF Raced, Over
  <1> QED BY <1>1, <1>4, <1>5 DEF Raced

(* A call that stores while nobody else is between check and store finds *)
(* the room it was told of (:145, :152).                                 *)
LEMMA RacedStep ==
    ASSUME Queue!StreamQueueAssumption, Queue!TypeOK, WrittenOnce, Raced, [Queue!Next]_Queue!vars
    PROVE  Raced'
  <1> PlainTypes
    BY TypesPlain
  <1> USE DEF PlainTypes, Queue!cacheVars, Queue!flushVars, Queue!history, Queue!GoTo, Over
  <1>0. CASE UNCHANGED Queue!vars
    BY <1>0, SameSize DEF Queue!vars, Queue!Checked
  <1>1. ASSUME NEW r \in Requests, Queue!Queue(r) PROVE Raced'
    <2>1. CASE Queue!PassesCheck(r) /\ queue' = [queue EXCEPT ![r] = "checked"]
      <3>1. UNCHANGED <<list, pc>> /\ queue[r] = "new"
        BY <1>1 DEF Queue!Queue
      <3>2. Queue!Checked' = Queue!Checked \cup {r} /\ r \notin Queue!Checked
        BY <2>1, <3>1 DEF Queue!Checked, Queue!StreamQueueAssumption
      <3>3. r \notin raced
        BY <3>1 DEF Raced
      <3>4. \A f \in Flushes : f # r
        BY DEF Queue!StreamQueueAssumption
      <3> QED BY <2>1, <3>1, <3>2, <3>3, <3>4, ChecksSize DEF Queue!Uuids
    <2>2. CASE ~Queue!HasRoom /\ queue' = [queue EXCEPT ![r] = "refused"] /\ UNCHANGED raced
      <3>1. UNCHANGED <<list, pc>> /\ queue[r] = "new"
        BY <1>1 DEF Queue!Queue
      <3>2. Queue!Checked' = Queue!Checked
        BY <2>2, <3>1 DEF Queue!Checked
      <3> QED BY <2>2, <3>1, <3>2, SameSize
    <2> QED BY <1>1, <2>1, <2>2 DEF Queue!Queue
  <1>2. ASSUME NEW r \in Requests, Queue!QueueStore(r) PROVE Raced'
    <2>1. /\ UNCHANGED <<pc, raced>> /\ queue[r] = "checked" /\ Queue!Store(r, r)
          /\ queue' = [queue EXCEPT ![r] = "queued"]
      BY <1>2 DEF Queue!QueueStore
    <2>2. Queue!Checked' = Queue!Checked \ {r} /\ r \in Queue!Checked
      BY <2>1 DEF Queue!Checked, Queue!StreamQueueAssumption
    <2> QED BY <2>1, <2>2, StoresSize DEF Queue!Uuids
  <1>3. ASSUME NEW f \in Flushes,
               Queue!Flush(f) \/ Queue!Cancel(f) \/ Queue!Execute(f) \/ Queue!Check(f) \/ Queue!PublishDataTask(f)
                   \/ Queue!AfterPublish(f) \/ Queue!Callback(f) \/ Queue!Complete(f)
        PROVE  Raced'
    <2>1. UNCHANGED <<list, queue, raced>>
      BY <1>3 DEF Queue!Flush, Queue!Cancel, Queue!Execute, Queue!Check, Queue!PublishDataTask,
         Queue!AfterPublish, Queue!Callback, Queue!Complete
    <2>2. \A g \in Flushes : /\ pc'[g] = "store" <=> pc[g] = "store"
                             /\ pc[g] \in {"store"} \cup Over => pc'[g] \in {"store"} \cup Over
      BY <1>3 DEF Queue!Flush, Queue!Cancel, Queue!Execute, Queue!Check, Queue!PublishDataTask,
         Queue!AfterPublish, Queue!Callback, Queue!Complete
    <2>3. Queue!Checked' = Queue!Checked
      BY <2>1, <2>2 DEF Queue!Checked
    <2> QED BY <2>1, <2>2, <2>3, SameSize
  <1>4. ASSUME NEW f \in Flushes, Queue!PopFromQueue(f) PROVE Raced'
    <2>1. UNCHANGED <<queue, raced>>
      BY <1>4 DEF Queue!PopFromQueue
    <2>2. \A g \in Flushes : /\ pc'[g] = "store" <=> pc[g] = "store"
                             /\ pc[g] \in {"store"} \cup Over => pc'[g] \in {"store"} \cup Over
      BY <1>4 DEF Queue!PopFromQueue, Queue!PopNothing, Queue!PopSomething
    <2>3. Queue!Checked' = Queue!Checked
      BY <2>1, <2>2 DEF Queue!Checked
    <2>4. list' \in Seq(Queue!Uuids) /\ Len(list') <= Len(list)
      BY <1>4, PutTailListed DEF Queue!PopFromQueue, Queue!PopNothing, Queue!PopSomething
    <2> QED BY <2>1, <2>2, <2>3, <2>4, SameSize
  <1>5. ASSUME NEW f \in Flushes, Queue!Requeue(f) PROVE Raced'
    <2>1. UNCHANGED <<list, queue>> /\ pc[f] = "requeue"
      BY <1>5 DEF Queue!Requeue
    <2>2. CASE Queue!PassesCheck(f) /\ pc' = [pc EXCEPT ![f] = "store"]
      <3>1. Queue!Checked' = Queue!Checked \cup {f} /\ f \notin Queue!Checked
        BY <2>1, <2>2 DEF Queue!Checked, Queue!StreamQueueAssumption
      <3>2. f \notin raced
        BY <2>1 DEF Raced
      <3>3. \A r \in Requests : f # r
        BY DEF Queue!StreamQueueAssumption
      <3> QED BY <2>1, <2>2, <3>1, <3>2, <3>3, ChecksSize DEF Queue!Uuids
    <2>3. CASE ~Queue!HasRoom /\ pc' = [pc EXCEPT ![f] = "callback"] /\ UNCHANGED raced
      <3>1. Queue!Checked' = Queue!Checked
        BY <2>1, <2>3 DEF Queue!Checked
      <3> QED BY <2>1, <2>3, <3>1, SameSize
    <2> QED BY <1>5, <2>2, <2>3 DEF Queue!Requeue
  <1>6. ASSUME NEW f \in Flushes, Queue!Restore(f) PROVE Raced'
    <2>1. /\ UNCHANGED <<queue, raced>> /\ pc[f] = "store" /\ Queue!Store(f, item[f])
          /\ pc' = [pc EXCEPT ![f] = "callback"] /\ item[f] \in Requests
      BY <1>6 DEF Queue!Restore, WrittenOnce, Holding
    <2>2. Queue!Checked' = Queue!Checked \ {f} /\ f \in Queue!Checked
      BY <2>1 DEF Queue!Checked, Queue!StreamQueueAssumption
    <2> QED BY <2>1, <2>2, StoresSize DEF Queue!Uuids
  <1>7. CASE Queue!Restart
    <2>1. /\ raced' = raced /\ list' \in {list, <<>>}
          /\ \A r \in Requests : queue'[r] = IF queue[r] = "checked" THEN "gone" ELSE queue[r]
          /\ \A f \in Flushes : pc'[f] = IF pc[f] \in {"new", "returned"} THEN pc[f] ELSE "gone"
      BY <1>7 DEF Queue!Restart
    <2>2. Queue!Checked' = {}
      BY <2>1 DEF Queue!Checked
    <2>3. /\ Cardinality(Queue!Checked)' = 0 /\ IsFiniteSet(Queue!Checked)'
          /\ Len(list) \in Nat /\ Len(list') \in 0..Len(list)
          /\ Cardinality(Queue!Checked) \in Nat
          /\ Cardinality(raced) \in Nat /\ MaxRequests \in Nat
      BY <2>1, <2>2, NoneListed, FS_EmptySet, FS_CardinalityType DEF Raced, Queue!StreamQueueAssumption
    <2>4. Queue!QueueBounded'
      BY <2>1, <2>3, QueueSets DEF Raced, Queue!QueueBounded, Queue!QueueSize
    <2> QED BY <2>1, <2>3, <2>4 DEF Raced
  <1>8. CASE Evicts
    <2>1. UNCHANGED <<queue, pc, raced>> /\ list' \in {list, <<>>}
      BY <1>8, EvictEffect
    <2>2. Queue!Checked' = Queue!Checked
      BY <2>1 DEF Queue!Checked
    <2>3. list' \in Seq(Queue!Uuids) /\ Len(list') <= Len(list)
      <3>1. Len(list) \in Nat /\ Len(list) >= 0
        OBVIOUS
      <3>2. CASE list' = list
        BY <3>1, <3>2
      <3>3. CASE list' = <<>>
        BY <3>1, <3>3, NoneListed
      <3> QED BY <2>1, <3>2, <3>3
    <2> QED BY <2>1, <2>2, <2>3, SameSize
  <1> QED BY <1>0, <1>1, <1>2, <1>3, <1>4, <1>5, <1>6, <1>7, <1>8
      DEF Queue!Next, Queue!FlushStep, Evicts

-----------------------------------------------------------------------------
(* The theorems *)

(* The client starts with an empty queue, and nobody has called it.      *)
LEMMA InitInv ==
    ASSUME Queue!StreamQueueAssumption, Queue!Init
    PROVE  Queue!TypeOK /\ QueueInv
  <1> USE DEF Queue!Init, Queue!StreamQueueAssumption
  <1>1. Queue!TypeOK
    <2>1. Cardinality(Requests) \in Nat
      BY QueueSets, FS_CardinalityType
    <2> QED BY <2>1, QueueSets DEF Queue!TypeOK
  <1>2. WrittenOnce /\ OnePlace /\ NothingLost
    BY DEF WrittenOnce, OnePlace, InOnePlace, NothingLost, NotLost, Holds, Holding, Queue!Uuids
  <1>3. AnsweredOnce
    BY DEF AnsweredOnce, Answers
  <1>4. CalledOnce
    BY DEF CalledOnce, Early, Working, Holding
  <1>5. QueueCounted
    BY FS_EmptySet DEF QueueCounted, Holding
  <1>6. Raced
    <2>1. Queue!Checked = {}
      BY DEF Queue!Checked
    <2> QED BY <2>1, QueueSets, FS_EmptySet DEF Raced, Queue!QueueBounded, Queue!QueueSize
  <1> QED BY <1>1, <1>2, <1>3, <1>4, <1>5, <1>6 DEF QueueInv

(* The types and the invariant hold of the queue, whatever Puts fail and   *)
(* entries are evicted, and whenever flushes are cancelled and processes   *)
(* end (Queue, Flush).                                                     *)
THEOREM QueueInductive ==
    ASSUME Queue!StreamQueueAssumption
    PROVE  Queue!Spec => [](Queue!TypeOK /\ QueueInv)
  <1>1. Queue!Init => Queue!TypeOK /\ QueueInv
    BY InitInv
  <1>2. Queue!TypeOK /\ QueueInv /\ [Queue!Next]_Queue!vars => (Queue!TypeOK /\ QueueInv)'
    <2> SUFFICES ASSUME Queue!TypeOK, QueueInv, [Queue!Next]_Queue!vars PROVE (Queue!TypeOK /\ QueueInv)'
      OBVIOUS
    <2>1. QueueInv'
      BY WrittenOnceStep, OnePlaceStep, NothingLostStep, AnsweredOnceStep, CalledOnceStep,
         CountedStep, RacedStep DEF QueueInv
    <2>2. PlainTypes'
      BY TypeStep DEF QueueInv
    <2>3. \A f \in Flushes :
              counter'[f] <= IF limit'[f] > 0 THEN limit'[f] ELSE Cardinality(Requests)
      <3>1. /\ Cardinality(done') <= Cardinality(Requests)
            /\ Cardinality(done') \in Nat /\ Cardinality(Requests) \in Nat
        BY <2>2, QueueSets, FS_Subset, FS_CardinalityType DEF PlainTypes,
           Queue!StreamQueueAssumption
      <3>2. counter' \in [Flushes -> Nat] /\ limit' \in [Flushes -> Int]
        BY <2>2 DEF PlainTypes, Queue!StreamQueueAssumption
      <3> QED BY <2>1, <3>1, <3>2 DEF QueueInv, QueueCounted
    <2>4. Queue!TypeOK'
      BY <2>2, <2>3, QueueSets DEF PlainTypes, Queue!TypeOK
    <2> QED BY <2>1, <2>4
  <1> QED BY <1>1, <1>2, PTL DEF Queue!Spec

(* A request that Queue has accepted is in the queue, being published or   *)
(* answered, apart from what an unchecked Put (:154, :166), an eviction    *)
(* from the cache, of the request or of the list (:180, :203), a full      *)
(* queue (:261) or the end of the process (:198) has lost.                 *)
THEOREM AcceptedIsKept ==
    ASSUME Queue!StreamQueueAssumption
    PROVE  Queue!Spec => []Queue!NoSilentLoss
  <1>1. Queue!TypeOK /\ QueueInv => Queue!NoSilentLoss
    BY DEF Queue!TypeOK, QueueInv, NothingLost, NotLost, Listed, Holds, Holding,
       Queue!NoSilentLoss, Queue!Stored,
           Queue!InFlight, Queue!Popped
  <1> QED BY <1>1, QueueInductive, PTL

(* A set of which each two members are one has one at most.                *)
LEMMA AtMostOne ==
    ASSUME NEW S, \A x, y \in S : x = y
    PROVE  Cardinality(S) <= 1
  <1>1. CASE S = {}
    BY <1>1, FS_EmptySet
  <1>2. ASSUME NEW x \in S PROVE Cardinality(S) <= 1
    <2>1. S = {x}
      OBVIOUS
    <2> QED BY <2>1, FS_Singleton
  <1> QED BY <1>1, <1>2

(* One flush publishes a request, however many run at a time, unless a     *)
(* cancelled one queued it again (:260); and what is answered for good is  *)
(* not published again.                                                    *)
THEOREM PublishedByOne ==
    ASSUME Queue!StreamQueueAssumption
    PROVE  Queue!Spec => []Queue!AckedOnce
  <1>1. Queue!TypeOK /\ QueueInv => Queue!AckedOnce
    <2> SUFFICES ASSUME Queue!TypeOK, QueueInv PROVE Queue!AckedOnce
      OBVIOUS
    <2>1. ASSUME NEW r \in Requests \ interrupted
          PROVE  Cardinality({p \in Flushes \X (1..Cardinality(Requests)) :
                     /\ p[2] \in DOMAIN responses[p[1]]
                     /\ responses[p[1]][p[2]].req = r /\ responses[p[1]][p[2]].ok}) <= 1
      <3> DEFINE S == {p \in Flushes \X (1..Cardinality(Requests)) :
                          /\ p[2] \in DOMAIN responses[p[1]]
                          /\ responses[p[1]][p[2]].req = r /\ responses[p[1]][p[2]].ok}
      <3>1. ASSUME NEW p \in S PROVE /\ p[1] \in Flushes /\ p[2] \in Nat /\ p = <<p[1], p[2]>>
                                     /\ Answers(p[1], p[2], r)
        BY <3>1 DEF Answers
      <3>2. \A p, q \in S : p[1] = q[1] /\ p[2] = q[2]
        BY <3>1 DEF QueueInv, AnsweredOnce
      <3>3. \A p, q \in S : p = q
        BY <3>1, <3>2
      <3> HIDE DEF S
      <3> QED BY <3>3, AtMostOne DEF S
    <2>2. \A r \in done : ~Queue!Stored(r) /\ ~Queue!InFlight(r)
      <3>1. done \subseteq Requests /\ list \in Seq(Queue!Uuids)
        BY DEF Queue!TypeOK
      <3> QED BY <3>1 DEF QueueInv, OnePlace, InOnePlace, Queue!Stored, Queue!InFlight,
         Queue!Popped, Holds, Holding
    <2> QED BY <2>1, <2>2, QueueSets DEF Queue!AckedOnce
  <1> QED BY <1>1, QueueInductive, PTL

(* Concurrent calls alone take the queue above maximum_requests, each by   *)
(* one (:145, :152).                                                       *)
THEOREM LimitKept ==
    ASSUME Queue!StreamQueueAssumption
    PROVE  Queue!Spec => []Queue!QueueBounded
  <1>1. QueueInv => Queue!QueueBounded
    BY DEF QueueInv, Raced
  <1> QED BY <1>1, QueueInductive, PTL

(* Flush calls its user back once, from the task or from its TaskContext   *)
(* (:232).                                                                 *)
THEOREM FlushAnsweredOnce ==
    ASSUME Queue!StreamQueueAssumption
    PROVE  Queue!Spec => []Queue!FlushCalledOnce
  <1>1. QueueInv => Queue!FlushCalledOnce
    BY DEF QueueInv, CalledOnce, Queue!FlushCalledOnce
  <1> QED BY <1>1, QueueInductive, PTL


(* The requests of a content in their order: what readers see is visible   *)
(* with the last of them.                                                  *)
Shown == {"IngestData", "SubmitPublication", "IngestSdii"}
Made == {"GetCatalog", "IngestData", "InitPublication", "PutBlob", "UploadPartitions",
         "SubmitPublication", "IngestSdii"} \cup Publishing!Looks
SomeContents == {"small", "large", "sdii"}
Sent(x, n) == {Publishing!RequestsOf[x][i] : i \in 1..n} \ Publishing!Looks

(* Where a publication is, what it has sent by then, and what is visible.  *)
Publishes(t) ==
    /\ stage[t] \in {"new", "pending", "run"} => answer[t] = "none"
    /\ stage[t] \in {"new", "pending"} => step[t] = 1
    /\ stage[t] \in {"new", "pending", "run"} =>
        step[t] <= Len(Publishing!RequestsOf[content[t]]) /\ made[t] = Sent(content[t], step[t] - 1)
    /\ answer[t] = "ok" \/ Publishing!Visible(t) => made[t] = Publishing!Services(t)
    /\ stage[t] \in {"over", "done"} /\ answer[t] # "ok" /\ Publishing!Visible(t) => t \in doubt
PublicationInv ==
    /\ Publishing!TypeOK /\ made \in [Publications -> SUBSET Made] /\ step \in [Publications -> Nat]
    /\ \A t \in Publications : Publishes(t) /\ content[t] \in SomeContents
          /\ callbacks[t] = IF stage[t] = "done" THEN 1 ELSE 0

(* Each content has its requests, of which the last one alone is visible.  *)
LEMMA LastShows ==
    ASSUME NEW x \in SomeContents
    PROVE  /\ Len(Publishing!RequestsOf[x]) \in Nat \ {0} /\ DOMAIN Publishing!RequestsOf[x] = 1..Len(Publishing!RequestsOf[x])
           /\ \A i \in DOMAIN Publishing!RequestsOf[x] :
                /\ Publishing!RequestsOf[x][i] \in Made
                /\ Publishing!RequestsOf[x][i] \in Shown <=> i = Len(Publishing!RequestsOf[x])
           /\ Shown \cap Publishing!Looks = {}
  <1>0. Shown \cap Publishing!Looks = {}
    BY DEF Shown, Publishing!Looks
  <1> USE DEF Shown
  <1>1. CASE x = "small"
    <2>1. Publishing!RequestsOf[x] = <<"config", "GetCatalog", "ingest", "IngestData">>
      BY <1>1 DEF Publishing!RequestsOf
    <2>2. Len(Publishing!RequestsOf[x]) = 4 /\ DOMAIN Publishing!RequestsOf[x] = 1..4
      BY <2>1
    <2>3. /\ Publishing!RequestsOf[x][1] = "config" /\ Publishing!RequestsOf[x][2] = "GetCatalog"
          /\ Publishing!RequestsOf[x][3] = "ingest" /\ Publishing!RequestsOf[x][4] = "IngestData"
      BY <2>1
    <2>4. \A i \in 1..4 : i = 1 \/ i = 2 \/ i = 3 \/ i = 4
      OBVIOUS
    <2> QED BY <1>0, <2>2, <2>3, <2>4 DEF Made, Publishing!Looks
  <1>2. CASE x = "large"
    <2>1. Publishing!RequestsOf[x] = <<"config", "GetCatalog", "publish", "blob", "InitPublication", "PutBlob",
                            "UploadPartitions", "SubmitPublication">>
      BY <1>2 DEF Publishing!RequestsOf
    <2>2. Len(Publishing!RequestsOf[x]) = 8 /\ DOMAIN Publishing!RequestsOf[x] = 1..8
      BY <2>1
    <2>3. /\ Publishing!RequestsOf[x][1] = "config" /\ Publishing!RequestsOf[x][2] = "GetCatalog"
          /\ Publishing!RequestsOf[x][3] = "publish" /\ Publishing!RequestsOf[x][4] = "blob"
          /\ Publishing!RequestsOf[x][5] = "InitPublication" /\ Publishing!RequestsOf[x][6] = "PutBlob"
          /\ Publishing!RequestsOf[x][7] = "UploadPartitions" /\ Publishing!RequestsOf[x][8] = "SubmitPublication"
      BY <2>1
    <2>4. \A i \in 1..8 : i = 1 \/ i = 2 \/ i = 3 \/ i = 4 \/ i = 5 \/ i = 6 \/ i = 7 \/ i = 8
      OBVIOUS
    <2> QED BY <1>0, <2>2, <2>3, <2>4 DEF Made, Publishing!Looks
  <1>3. CASE x = "sdii"
    <2>1. Publishing!RequestsOf[x] = <<"ingest", "IngestSdii">>
      BY <1>3 DEF Publishing!RequestsOf
    <2>2. Len(Publishing!RequestsOf[x]) = 2 /\ DOMAIN Publishing!RequestsOf[x] = 1..2
      BY <2>1
    <2>3. /\ Publishing!RequestsOf[x][1] = "ingest" /\ Publishing!RequestsOf[x][2] = "IngestSdii"
      BY <2>1
    <2>4. \A i \in 1..2 : i = 1 \/ i = 2
      OBVIOUS
    <2> QED BY <1>0, <2>2, <2>3, <2>4 DEF Made, Publishing!Looks
  <1> QED BY <1>1, <1>2, <1>3 DEF SomeContents

(* What is sent up to a request: the visible one with the last.            *)
LEMMA SentSoFar ==
    ASSUME NEW x \in SomeContents, NEW n \in 1..Len(Publishing!RequestsOf[x])
    PROVE  /\ Publishing!RequestsOf[x][n] \in Made
           /\ Sent(x, n - 1) \in SUBSET Made
           /\ Sent(x, n - 1) \cap Shown = {}
           /\ Sent(x, n) = (Sent(x, n - 1) \cup {Publishing!RequestsOf[x][n]}) \ Publishing!Looks
           /\ Publishing!RequestsOf[x][n] \in Shown => n = Len(Publishing!RequestsOf[x])
           /\ Publishing!RequestsOf[x][n] \in Publishing!Looks => n # Len(Publishing!RequestsOf[x])
           /\ Sent(x, Len(Publishing!RequestsOf[x])) =
                {Publishing!RequestsOf[x][i] : i \in DOMAIN Publishing!RequestsOf[x]} \ Publishing!Looks
           /\ n < Len(Publishing!RequestsOf[x]) \/ n = Len(Publishing!RequestsOf[x])
           /\ \A r \in Sent(x, n) : \E i \in DOMAIN Publishing!RequestsOf[x] : Publishing!RequestsOf[x][i] = r
  <1>1. /\ Len(Publishing!RequestsOf[x]) \in Nat \ {0} /\ DOMAIN Publishing!RequestsOf[x] = 1..Len(Publishing!RequestsOf[x])
        /\ \A i \in DOMAIN Publishing!RequestsOf[x] :
             /\ Publishing!RequestsOf[x][i] \in Made
             /\ Publishing!RequestsOf[x][i] \in Shown <=> i = Len(Publishing!RequestsOf[x])
        /\ Shown \cap Publishing!Looks = {}
    BY LastShows
  <1>2. 1..n = 1..(n - 1) \cup {n} /\ 1..(n - 1) \subseteq DOMAIN Publishing!RequestsOf[x]
        /\ n \in DOMAIN Publishing!RequestsOf[x] /\ 1..n \subseteq DOMAIN Publishing!RequestsOf[x]
        /\ Len(Publishing!RequestsOf[x]) \notin 1..(n - 1)
    BY <1>1
  <1>3. Sent(x, n) = (Sent(x, n - 1) \cup {Publishing!RequestsOf[x][n]}) \ Publishing!Looks
    BY <1>2 DEF Sent
  <1>4. Sent(x, n - 1) \in SUBSET Made /\ Sent(x, n - 1) \cap Shown = {}
    BY <1>1, <1>2 DEF Sent
  <1>5. \A r \in Sent(x, n) : \E i \in DOMAIN Publishing!RequestsOf[x] : Publishing!RequestsOf[x][i] = r
    BY <1>2 DEF Sent
  <1> QED BY <1>1, <1>2, <1>3, <1>4, <1>5 DEF Sent

(* The first state. *)
LEMMA PublicationFirst ==
    ASSUME Contents \subseteq SomeContents, Publishing!Init
    PROVE  PublicationInv
  <1> USE DEF Publishing!Init
  <1>1. \A t \in Publications : content[t] \in SomeContents
    OBVIOUS
  <1>2. \A t \in Publications :
            /\ Len(Publishing!RequestsOf[content[t]]) \in Nat \ {0} /\ Sent(content[t], 0) = {}
    <2>1. ASSUME NEW x \in SomeContents
          PROVE  Len(Publishing!RequestsOf[x]) \in Nat \ {0} /\ Sent(x, 0) = {}
      <3>1. 1..0 = {}
        OBVIOUS
      <3> QED BY <3>1, LastShows DEF Sent
    <2> QED BY <1>1, <2>1
  <1>3. made \in [Publications -> SUBSET Made] /\ step \in [Publications -> Nat]
    OBVIOUS
  <1>4. Publishing!TypeOK
    BY <1>2 DEF Publishing!TypeOK
  <1>5. ASSUME NEW t \in Publications
        PROVE  Publishes(t) /\ callbacks[t] = IF stage[t] = "done" THEN 1 ELSE 0
    <2>1. /\ stage[t] = "new" /\ step[t] = 1 /\ made[t] = {} /\ answer[t] = "none" /\ callbacks[t] = 0
          /\ ~Publishing!Visible(t) /\ step[t] - 1 = 0
      BY DEF Publishing!Visible
    <2> QED BY <1>2, <2>1 DEF Publishes
  <1> QED BY <1>1, <1>3, <1>4, <1>5 DEF PublicationInv

(* A step of the task of t, which alone it changes. *)
Only(t) ==
    /\ content' = content
    /\ \A u \in Publications \ {t} :
        /\ stage'[u] = stage[u] /\ step'[u] = step[u] /\ made'[u] = made[u] /\ answer'[u] = answer[u]
        /\ callbacks'[u] = callbacks[u]
    /\ doubt \subseteq doubt'

(* Whoever it is not has not changed. *)
LEMMA OthersPublish ==
    ASSUME PublicationInv, NEW t \in Publications, Only(t), NEW u \in Publications \ {t}
    PROVE  Publishes(u)' /\ (content[u] \in SomeContents)'
           /\ (callbacks[u] = IF stage[u] = "done" THEN 1 ELSE 0)'
  <1>1. Publishes(u) /\ content[u] \in SomeContents
        /\ callbacks[u] = IF stage[u] = "done" THEN 1 ELSE 0
    BY DEF PublicationInv
  <1>2. /\ content' = content /\ stage'[u] = stage[u] /\ step'[u] = step[u] /\ made'[u] = made[u]
        /\ answer'[u] = answer[u] /\ callbacks'[u] = callbacks[u] /\ doubt \subseteq doubt'
    BY DEF Only
  <1>3. Publishing!Visible(u)' <=> Publishing!Visible(u)
    BY <1>2 DEF Publishing!Visible
  <1>4. Publishing!Services(u)' = Publishing!Services(u)
    BY <1>2 DEF Publishing!Services
  <1>5. Publishes(u)'
    BY <1>1, <1>2, <1>3, <1>4 DEF Publishes
  <1> QED BY <1>1, <1>2, <1>5

(* Types, and what is visible, of a publication that keeps its invariant.  *)
LEMMA PublishesTyped ==
    ASSUME PublicationInv, NEW t \in Publications
    PROVE  /\ Len(Publishing!RequestsOf[content[t]]) \in Nat \ {0} /\ content[t] \in SomeContents
           /\ stage[t] \in {"new", "pending", "run"} =>
                /\ step[t] \in 1..Len(Publishing!RequestsOf[content[t]])
                /\ ~Publishing!Visible(t) /\ answer[t] = "none" /\ callbacks[t] = 0
                /\ made[t] = Sent(content[t], step[t] - 1)
  <1>1. /\ Publishes(t) /\ content[t] \in SomeContents /\ step[t] \in Nat
        /\ callbacks[t] = IF stage[t] = "done" THEN 1 ELSE 0
        /\ step[t] \in 1..Len(Publishing!RequestsOf[content[t]]) + 1
    BY DEF PublicationInv, Publishing!TypeOK
  <1>2. Len(Publishing!RequestsOf[content[t]]) \in Nat \ {0}
    BY <1>1, LastShows
  <1>3. ASSUME stage[t] \in {"new", "pending", "run"}
        PROVE  /\ step[t] \in 1..Len(Publishing!RequestsOf[content[t]])
               /\ made[t] = Sent(content[t], step[t] - 1)
    BY <1>1, <1>2, <1>3 DEF Publishes
  <1>4. ASSUME stage[t] \in {"new", "pending", "run"} PROVE ~Publishing!Visible(t)
    BY <1>1, <1>3, <1>4, SentSoFar DEF Publishing!Visible, Shown
  <1> QED BY <1>1, <1>2, <1>3, <1>4 DEF Publishes

(* PublishData, Cancel and Execute send nothing.                           *)
LEMMA QuietPublishes ==
    ASSUME PublicationInv, NEW t \in Publications, Publishing!PublishData(t) \/ Publishing!Cancel(t) \/ Publishing!Execute(t)
    PROVE  PublicationInv'
  <1> USE DEF Publishing!PublishData, Publishing!Cancel, Publishing!Execute, Publishing!Answer
  <1>1. /\ UNCHANGED <<content, step, made, cachedUrls, doubt>> /\ Only(t)
        /\ Publishing!TypeOK /\ made \in [Publications -> SUBSET Made] /\ step \in [Publications -> Nat]
    BY DEF PublicationInv, Publishing!TypeOK, Only
  <1>2. Publishes(t) /\ content[t] \in SomeContents /\ callbacks[t] = IF stage[t] = "done" THEN 1 ELSE 0
    BY DEF PublicationInv
  <1>3. Publishing!TypeOK'
    <2>1. /\ stage' \in [Publications -> {"new", "pending", "run", "over", "done"}]
          /\ answer' \in [Publications -> {"none", "ok", "error", "cancelled"}]
          /\ stopped' \in [Publications -> BOOLEAN]
      BY <1>1 DEF Publishing!TypeOK
    <2>2. callbacks' \in [Publications -> 0..1]
      BY <1>1, <1>2 DEF Publishing!TypeOK
    <2> QED BY <1>1, <2>1, <2>2 DEF Publishing!TypeOK
  <1>4. (Publishing!Visible(t)' <=> Publishing!Visible(t)) /\ Publishing!Services(t)' = Publishing!Services(t)
    BY <1>1 DEF Publishing!Visible, Publishing!Services
  <1>5. stage[t] \in {"new", "pending"} => ~Publishing!Visible(t)
    BY PublishesTyped
  <1>6. Publishes(t)' /\ (callbacks[t] = IF stage[t] = "done" THEN 1 ELSE 0)'
    BY <1>1, <1>2, <1>4, <1>5 DEF Publishes, Publishing!TypeOK
  <1> QED BY <1>1, <1>2, <1>3, <1>6, OthersPublish DEF PublicationInv

(* Complete hides the result of what has been cancelled.                   *)
LEMMA CompletePublishes ==
    ASSUME PublicationInv, NEW t \in Publications, Publishing!Complete(t)
    PROVE  PublicationInv'
  <1> USE DEF Publishing!Complete, Publishing!Answer
  <1>1. /\ UNCHANGED <<content, step, made, cachedUrls, stopped>> /\ Only(t)
        /\ Publishing!TypeOK /\ made \in [Publications -> SUBSET Made] /\ step \in [Publications -> Nat]
    BY DEF PublicationInv, Publishing!TypeOK, Only
  <1>2. Publishes(t) /\ content[t] \in SomeContents /\ callbacks[t] = IF stage[t] = "done" THEN 1 ELSE 0
    BY DEF PublicationInv
  <1>3. Publishing!TypeOK'
    BY <1>1, <1>2 DEF Publishing!TypeOK
  <1>4. (Publishing!Visible(t)' <=> Publishing!Visible(t)) /\ Publishing!Services(t)' = Publishing!Services(t)
    BY <1>1 DEF Publishing!Visible, Publishing!Services
  <1>6. Publishes(t)' /\ (callbacks[t] = IF stage[t] = "done" THEN 1 ELSE 0)'
    BY <1>1, <1>2, <1>4 DEF Publishes, Publishing!TypeOK
  <1> QED BY <1>1, <1>2, <1>3, <1>6, OthersPublish DEF PublicationInv

(* Requests and look-ups: the task fails, or what it has sent is longer by *)
(* the present one.                                                        *)
LEMMA RequestPublishes ==
    ASSUME PublicationInv, NEW t \in Publications, Publishing!LookupApiClient(t) \/ Publishing!Call(t)
    PROVE  PublicationInv'
  <1> DEFINE n == step[t]
             last == Len(Publishing!RequestsOf[content[t]])
             r == Publishing!RequestsOf[content[t]][n]
  <1> USE DEF Publishing!LookupApiClient, Publishing!Call, Publishing!Succeeds, Publishing!Fails,
     Publishing!Request
  <1>1. /\ UNCHANGED <<content, stopped, callbacks>> /\ Only(t) /\ stage[t] = "run"
        /\ Publishing!TypeOK /\ made \in [Publications -> SUBSET Made] /\ step \in [Publications -> Nat]
    BY DEF PublicationInv, Publishing!TypeOK, Only
  <1>2. /\ last \in Nat \ {0} /\ content[t] \in SomeContents /\ n \in 1..last
        /\ ~Publishing!Visible(t) /\ answer[t] = "none" /\ callbacks[t] = 0 /\ made[t] = Sent(content[t], n - 1)
    BY <1>1, PublishesTyped
  <1>3. /\ r \in Made /\ Sent(content[t], n) = (made[t] \cup {r}) \ Publishing!Looks
        /\ made[t] \cap Publishing!Looks = {}
        /\ r \in Shown => n = last
        /\ r \in Publishing!Looks => n # last
        /\ Sent(content[t], last) = Publishing!Services(t)
        /\ n < last \/ n = last
        /\ \A x \in Sent(content[t], n) :
              \E i \in DOMAIN Publishing!RequestsOf[content[t]] : Publishing!RequestsOf[content[t]][i] = x
    BY <1>2, SentSoFar DEF Sent, Publishing!Services
  <1>4. /\ made' \in [Publications -> SUBSET Made]
        /\ made'[t] = made[t] \/ (made'[t] = made[t] \cup {r} /\ r \notin Publishing!Looks)
        /\ cachedUrls' \subseteq Publishing!Looks /\ doubt' \subseteq Publications
    <2>1. \/ UNCHANGED made
          \/ made' = [made EXCEPT ![t] = @ \cup {r}] /\ r \notin Publishing!Looks
      OBVIOUS
    <2>2. cachedUrls' \subseteq Publishing!Looks /\ doubt' \subseteq Publications
      BY <1>1 DEF Publishing!TypeOK
    <2>3. made[t] \cup {r} \in SUBSET Made
      BY <1>1, <1>3
    <2> QED BY <1>1, <2>1, <2>2, <2>3
  <1>5. \/ /\ n # last /\ stage'[t] = "run" /\ answer'[t] = "none" /\ step'[t] = n + 1
           /\ made'[t] = Sent(content[t], n)
        \/ /\ n = last /\ stage'[t] = "over" /\ answer'[t] = "ok" /\ step'[t] = n + 1
           /\ made'[t] = Sent(content[t], n)
        \/ /\ stage'[t] = "over" /\ answer'[t] = "error" /\ step'[t] = n
           /\ made'[t] = made[t] \/ (made'[t] = Sent(content[t], n) /\ t \in doubt')
    <2>1. r \notin Publishing!Looks => Sent(content[t], n) = made[t] \cup {r}
      BY <1>3
    <2>2. r \in Publishing!Looks => Sent(content[t], n) = made[t]
      BY <1>3
    <2> QED BY <1>1, <1>2, <1>3, <2>1, <2>2 DEF Publishing!TypeOK
  <1>6. step' \in [Publications -> Nat]
    <2>1. step' = step \/ step' = [step EXCEPT ![t] = n + 1]
      OBVIOUS
    <2>2. n + 1 \in Nat
      BY <1>1
    <2> HIDE DEF Publishing!LookupApiClient, Publishing!Call
    <2> QED BY <1>1, <2>1, <2>2
  <1>7. Publishing!TypeOK'
    <2>1. /\ content' \in [Publications -> Contents] /\ callbacks' \in [Publications -> 0..1]
          /\ stopped' \in [Publications -> BOOLEAN]
          /\ stage' \in [Publications -> {"new", "pending", "run", "over", "done"}]
          /\ answer' \in [Publications -> {"none", "ok", "error", "cancelled"}]
      BY <1>1 DEF Publishing!TypeOK
    <2>2. step'[t] \in 1..last + 1
      BY <1>2, <1>5
    <2>3. \A x \in made'[t] : \E i \in DOMAIN Publishing!RequestsOf[content[t]] : Publishing!RequestsOf[content[t]][i] = x
      BY <1>1, <1>3, <1>5 DEF Publishing!TypeOK
    <2>4. ASSUME NEW u \in Publications
          PROVE  /\ step'[u] \in 1..Len(Publishing!RequestsOf[content'[u]]) + 1
                 /\ \A x \in made'[u] :
                       \E i \in DOMAIN Publishing!RequestsOf[content'[u]] : Publishing!RequestsOf[content'[u]][i] = x
      <3>1. content' = content
        BY <1>1
      <3>2. CASE u = t
        <4>1. content'[u] = content[t] /\ last = Len(Publishing!RequestsOf[content[t]])
          BY <3>1, <3>2
        <4> HIDE DEF last, r, n
        <4> QED BY <2>2, <2>3, <3>2, <4>1
      <3>3. CASE u # t
        <4>1. step'[u] = step[u] /\ made'[u] = made[u]
          BY <1>1, <3>3 DEF Only
        <4> HIDE DEF Publishing!LookupApiClient, Publishing!Call, Publishing!Succeeds,
           Publishing!Fails, Publishing!Request
        <4>2. /\ step[u] \in 1..Len(Publishing!RequestsOf[content[u]]) + 1
              /\ \A x \in made[u] :
                    \E i \in DOMAIN Publishing!RequestsOf[content[u]] : Publishing!RequestsOf[content[u]][i] = x
          BY <1>1 DEF Publishing!TypeOK
        <4> QED BY <3>1, <4>1, <4>2
      <3> QED BY <3>2, <3>3
    <2> QED BY <1>4, <2>1, <2>4 DEF Publishing!TypeOK
  <1>8. Publishing!Services(t)' = Publishing!Services(t) /\ content'[t] = content[t] /\ callbacks'[t] = callbacks[t]
    BY <1>1 DEF Publishing!Services
  <1>9. Publishing!Visible(t)' => made'[t] = Sent(content[t], n) /\ n = last
    <2>1. made[t] \cap Shown = {}
      BY <1>2 DEF Publishing!Visible, Shown
    <2> QED BY <1>3, <1>4, <2>1 DEF Publishing!Visible, Shown
  <1>10. Publishes(t)' /\ (callbacks[t] = IF stage[t] = "done" THEN 1 ELSE 0)'
    <2> HIDE DEF Publishing!LookupApiClient, Publishing!Call, Publishing!Succeeds,
       Publishing!Fails, Publishing!Request, n, last, r
    <2>1. n \in Nat /\ (n < last \/ n = last) /\ last \in Nat
      BY <1>2, <1>3 DEF n, last
    <2>2. last = Len(Publishing!RequestsOf[content'[t]])
      BY <1>8 DEF last
    <2>3. Publishes(t)'
      <3>1. CASE stage'[t] = "run"
        <4>1. n # last /\ answer'[t] = "none" /\ step'[t] = n + 1 /\ made'[t] = Sent(content[t], n)
          BY <1>5, <3>1
        <4>2. step'[t] - 1 = n /\ step'[t] <= last /\ ~Publishing!Visible(t)'
          BY <1>9, <2>1, <4>1
        <4> QED BY <1>8, <2>2, <3>1, <4>1, <4>2 DEF Publishes
      <3>2. CASE stage'[t] = "over"
        <4>1. \/ answer'[t] = "ok" /\ made'[t] = Publishing!Services(t)
              \/ answer'[t] = "error" /\ (made'[t] = made[t] \/ t \in doubt')
          BY <1>3, <1>5, <3>2
        <4>2. Publishing!Visible(t)' => made'[t] = Publishing!Services(t)
          BY <1>3, <1>9
        <4>3. made'[t] = made[t] => ~Publishing!Visible(t)'
          BY <1>2 DEF Publishing!Visible
        <4> QED BY <1>8, <3>2, <4>1, <4>2, <4>3 DEF Publishes
      <3> QED BY <1>5, <3>1, <3>2
    <2> QED BY <1>2, <1>5, <1>8, <2>3
  <1>11. (content[t] \in SomeContents)'
    BY <1>2, <1>8
  <1> QED BY <1>1, <1>4, <1>6, <1>7, <1>10, <1>11, OthersPublish DEF PublicationInv

(* Every step keeps it. *)
LEMMA PublicationStep ==
    ASSUME PublicationInv, [Publishing!Next]_Publishing!publicationVars
    PROVE  PublicationInv'
  <1>1. CASE UNCHANGED <<content, stage, step, made, answer, callbacks, doubt>>
             /\ cachedUrls' \subseteq Publishing!Looks /\ stopped' \in [Publications -> BOOLEAN]
    <2>1. Publishing!TypeOK'
      BY <1>1 DEF PublicationInv, Publishing!TypeOK
    <2>2. ASSUME NEW t \in Publications
          PROVE  Publishes(t)' /\ (content[t] \in SomeContents)'
                 /\ (callbacks[t] = IF stage[t] = "done" THEN 1 ELSE 0)'
      <3>1. (Publishing!Visible(t)' <=> Publishing!Visible(t)) /\ Publishing!Services(t)' = Publishing!Services(t)
        BY <1>1 DEF Publishing!Visible, Publishing!Services
      <3> QED BY <1>1, <3>1 DEF PublicationInv, Publishes
    <2> QED BY <1>1, <2>1, <2>2 DEF PublicationInv
  <1>2. ASSUME NEW service \in Publishing!Looks, Publishing!Expire(service) PROVE PublicationInv'
    BY <1>1, <1>2 DEF Publishing!Expire, PublicationInv, Publishing!TypeOK
  <1>3. ASSUME NEW t \in Publications, Publishing!PublishData(t) \/ Publishing!Cancel(t) \/ Publishing!TaskStep(t)
        PROVE  PublicationInv'
    BY <1>3, QuietPublishes, CompletePublishes, RequestPublishes DEF Publishing!TaskStep
  <1>4. CASE UNCHANGED Publishing!publicationVars
    BY <1>1, <1>4 DEF Publishing!publicationVars, PublicationInv, Publishing!TypeOK
  <1> QED BY <1>2, <1>3, <1>4 DEF Publishing!Next

(* Who publishes is told what the services have done. *)
LEMMA PublicationTold ==
    ASSUME PublicationInv PROVE Publishing!ToldWhatIsPublished
  BY DEF PublicationInv, Publishes, Publishing!ToldWhatIsPublished

(* It always holds of the publications.                                    *)
LEMMA PublicationAlways ==
    ASSUME Contents \subseteq SomeContents
    PROVE  Publishing!Spec => []PublicationInv
  <1>1. Publishing!Init => PublicationInv
    BY PublicationFirst
  <1>2. PublicationInv /\ [Publishing!Next]_Publishing!publicationVars => PublicationInv'
    BY PublicationStep
  <1> QED BY <1>1, <1>2, PTL DEF Publishing!Spec

(* Who publishes data, or sensor data, is told of success once all of it   *)
(* has been published, and of what came of it once only, whichever request *)
(* fails and whenever it is cancelled (PublishData, PublishSdii).          *)
THEOREM PublicationTrue ==
    ASSUME Contents \subseteq SomeContents
    PROVE  Publishing!Spec => []Publishing!ToldWhatIsPublished
  <1>1. PublicationInv => Publishing!ToldWhatIsPublished
    BY PublicationTold
  <1> QED BY <1>1, PublicationAlways, PTL
=============================================================================
