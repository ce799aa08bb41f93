------------------------------ MODULE ReadProofs ------------------------------
(***************************************************************************)
(* Proofs about the read clients, for any number of requests, tiles and    *)
(* workers of PrefetchTiles and any partitions and versions of             *)
(* ReadRepository, and of what the run MCRead checks of them.              *)
(*                                                                         *)
(* The prefetch: PrefetchInv follows each task of a request from the queue *)
(* to the worker that runs it, who sets which promise, and what has been   *)
(* told to the user while the request is not cancelled.                    *)
(*                                                                         *)
(* The repositories: RepositoryInv says of each task what its chain of     *)
(* resources, its option and the answer that it holds have to do with each *)
(* other, and of each entry of the cache that it is what belongs under its *)
(* key.  The three instances differ in their requests only: the steps of   *)
(* their tasks are the same, and are proved once.                          *)
(***************************************************************************)
EXTENDS SubscriptionProofs
-----------------------------------------------------------------------------
(* The prefetch: the inductive invariant                                   *)

(* A task is in the queue or on a worker.                                  *)
Queued == {queue[i] : i \in DOMAIN queue}
On(w, t) == running[w] = t
Live(t) == t \in Queued \/ \E w \in Workers : On(w, t)

(* A task is in one place: AddTile and AddCollector add what was not added *)
(* before, and a worker takes what no other has.                           *)
OnePlace ==
    /\ \A i, j \in DOMAIN queue : queue[i] = queue[j] => i = j
    /\ \A w \in Workers : running[w] \notin Queued
    /\ \A v, w \in Workers : running[v] = running[w] /\ running[v] # NoTask => v = w

(* A worker is at a step of its own task; the collecting task waits for a  *)
(* future that there is.                                                   *)
OwnSteps(r) ==
    \A w \in Workers :
        /\ On(w, <<r, Outer>>) => at[w] \in {"prepare", "loop", "link", "finish"}
        /\ On(w, <<r, Collector>>) => at[w] \in {"check", "get", "finish"}
        /\ \A i \in Tiles : On(w, <<r, i>>) => at[w] \in {"fetch", "finish"}
        /\ On(w, <<r, Collector>>) /\ at[w] = "get" => got[r] < added[r]

(* The promise of a tile is set by the task of this tile: by what it runs  *)
(* or, if that did not set its flag, by its callback.                      *)
TilePromise(r, i) ==
    /\ Live(<<r, i>>) \/ promise[r][i] # <<>> => i <= added[r]
    /\ promise[r][i] # <<>> =>
        <<r, i>> \notin Queued /\ \A w \in Workers : On(w, <<r, i>>) => at[w] = "finish"
    /\ \A w \in Workers : On(w, <<r, i>>) /\ <<r, i>> \notin flag => promise[r][i] = <<>>
    /\ Len(promise[r][i]) <= 1

(* The outer task of a request up to the addition of the collecting task:  *)
(* tiles are found once, before any is added.                              *)
Unprepared(r) ==
    \/ <<r, Outer>> \in Queued
    \/ \E w \in Workers : On(w, <<r, Outer>>) /\ at[w] = "prepare"
Adding(r) == \E w \in Workers : On(w, <<r, Outer>>) /\ at[w] = "loop"
NotCollecting(r) == ~Live(<<r, Collector>>) /\ delivered[r] = <<>>
OuterTask(r) ==
    /\ Unprepared(r) => added[r] = 0
    /\ Adding(r) => total[r] > 0
    /\ Unprepared(r) \/ Adding(r) => NotCollecting(r)
    /\ \A w \in Workers : On(w, <<r, Outer>>) /\ at[w] = "link" => ok[w]

(* What the user has been told and what the collecting task knows, unless  *)
(* the request was cancelled.                                              *)
HasResult(r) == \E i \in DOMAIN delivered[r] : delivered[r][i] = "result"
Told(r) ==
    <<r, Outer>> \notin cancelled =>
        /\ Len(delivered[r]) <= 1
        /\ \A w \in Workers :
            On(w, <<r, Outer>>) /\ at[w] = "finish" /\ ~ok[w] => NotCollecting(r)
        /\ Live(<<r, Collector>>) =>
            delivered[r] = <<>> /\ added[r] = total[r] /\ total[r] > 0
        /\ HasResult(r) => got[r] = total[r] /\ total[r] > 0
Collected(r) ==
    \A w \in Workers :
        On(w, <<r, Collector>>) /\ at[w] = "finish" /\ ok[w] => got[r] = added[r]

RequestInv(r) ==
    OwnSteps(r) /\ (\A i \in Tiles : TilePromise(r, i)) /\ OuterTask(r) /\ Told(r) /\ Collected(r)

PrefetchInv == TypeOK /\ OnePlace /\ \A r \in Requests : RequestInv(r)

-----------------------------------------------------------------------------
(* The queue of the tasks *)

(* What a worker takes is the first task of the queue.                     *)
LEMMA QueueTaken ==
    ASSUME PrefetchAssumption, TypeOK, OnePlace, queue # <<>>, queue' = Tail(queue)
    PROVE  /\ queue' \in Seq(Tasks)
           /\ Head(queue) \in Tasks /\ Head(queue) \in Queued
           /\ Queued' = Queued \ {Head(queue)}
           /\ \A i, j \in DOMAIN queue' : queue'[i] = queue'[j] => i = j
  <1>1. queue \in Seq(Tasks)
    BY DEF TypeOK
  <1>2. queue' \in Seq(Tasks) /\ Head(queue) \in Tasks /\ Head(queue) = queue[1]
        /\ 1 \in DOMAIN queue
    BY <1>1
  <1>3. \A i \in DOMAIN queue' : i + 1 \in DOMAIN queue /\ queue'[i] = queue[i + 1]
          /\ i \in Nat \ {0}
    BY <1>1
  <1>4. \A i \in DOMAIN queue : i = 1 \/ (i - 1 \in DOMAIN queue' /\ queue'[i - 1] = queue[i])
    BY <1>1
  <1>5. \A i, j \in DOMAIN queue : queue[i] = queue[j] => i = j
    BY DEF OnePlace
  <1>6. \A i, j \in DOMAIN queue' : queue'[i] = queue'[j] => i = j
    <2> SUFFICES ASSUME NEW i \in DOMAIN queue', NEW j \in DOMAIN queue', queue'[i] = queue'[j]
                 PROVE  i = j
      OBVIOUS
    <2>1. i + 1 = j + 1
      BY <1>3, <1>5
    <2> QED BY <2>1, <1>3
  <1>7. ASSUME NEW x \in Queued' PROVE x \in Queued /\ x # Head(queue)
    <2>1. PICK i \in DOMAIN queue' : x = queue'[i]
      BY <1>7 DEF Queued
    <2>2. i + 1 \in DOMAIN queue /\ x = queue[i + 1] /\ i + 1 # 1
      BY <2>1, <1>3
    <2> QED BY <2>2, <1>2, <1>5 DEF Queued
  <1>8. ASSUME NEW x \in Queued, x # Head(queue) PROVE x \in Queued'
    <2>1. PICK i \in DOMAIN queue : x = queue[i]
      BY <1>8 DEF Queued
    <2>2. i - 1 \in DOMAIN queue' /\ queue'[i - 1] = x
      BY <2>1, <1>4, <1>2, <1>8
    <2> QED BY <2>2 DEF Queued
  <1>9. Head(queue) \in Queued
    BY <1>2 DEF Queued
  <1>10. Queued' = Queued \ {Head(queue)}
    BY <1>7, <1>8
  <1> QED BY <1>2, <1>6, <1>9, <1>10

(* What AddTask puts at the end of the queue.                              *)
LEMMA QueueAdded ==
    ASSUME PrefetchAssumption, TypeOK, OnePlace,
           NEW t \in Tasks, t \notin Queued, queue' = Append(queue, t)
    PROVE  /\ queue' \in Seq(Tasks) /\ Queued' = Queued \cup {t}
           /\ \A i, j \in DOMAIN queue' : queue'[i] = queue'[j] => i = j
  <1>1. queue \in Seq(Tasks)
    BY DEF TypeOK
  <1>2. queue' \in Seq(Tasks) /\ Len(queue) \in Nat /\ DOMAIN queue = 1..Len(queue)
        /\ DOMAIN queue' = 1..(Len(queue) + 1) /\ queue'[Len(queue) + 1] = t
    BY <1>1
  <1>3. \A i \in DOMAIN queue : i \in DOMAIN queue' /\ queue'[i] = queue[i]
    BY <1>1
  <1>4. \A i \in DOMAIN queue' : i \in DOMAIN queue \/ i = Len(queue) + 1
    BY <1>2
  <1>5. \A i \in DOMAIN queue : queue[i] # t
    BY DEF Queued
  <1>6. \A i, j \in DOMAIN queue : queue[i] = queue[j] => i = j
    BY DEF OnePlace
  <1>7. \A i, j \in DOMAIN queue' : queue'[i] = queue'[j] => i = j
    BY <1>2, <1>3, <1>4, <1>5, <1>6
  <1>8. Len(queue) + 1 \in DOMAIN queue'
    BY <1>2
  <1>9. Queued' = Queued \cup {t}
    <2>1. ASSUME NEW x \in Queued' PROVE x \in Queued \cup {t}
      <3>1. PICK i \in DOMAIN queue' : x = queue'[i]
        BY <2>1 DEF Queued
      <3> QED BY <3>1, <1>2, <1>3, <1>4 DEF Queued
    <2>2. ASSUME NEW x \in Queued PROVE x \in Queued'
      <3>1. PICK i \in DOMAIN queue : x = queue[i]
        BY <2>2 DEF Queued
      <3> QED BY <3>1, <1>3 DEF Queued
    <2>3. t \in Queued'
      BY <1>2, <1>8 DEF Queued
    <2> QED BY <2>1, <2>2, <2>3
  <1> QED BY <1>2, <1>7, <1>9

(* The tasks of a request are told from each other and from no task.       *)
LEMMA TaskNames ==
    ASSUME PrefetchAssumption
    PROVE  /\ \A t \in Tasks : t # NoTask /\ t = <<t[1], t[2]>> /\ t[1] \in Requests
           /\ \A t \in Tasks : t[2] = Outer \/ t[2] = Collector \/ t[2] \in Tiles
           /\ \A r \in Requests : <<r, Outer>> \in Tasks /\ <<r, Collector>> \in Tasks
           /\ \A r \in Requests, i \in Tiles : <<r, i>> \in Tasks
           /\ Outer \notin Tiles /\ Collector \notin Tiles /\ Outer # Collector
           /\ Tiles \subseteq Nat \ {0}
  <1> USE DEF PrefetchAssumption, Tasks, NoTask, Outer, Collector, Tiles
  <1>1. \A t \in Tasks : t # NoTask
    OBVIOUS
  <1>2. \A t \in Tasks : t = <<t[1], t[2]>> /\ t[1] \in Requests /\ t[2] \in 0..(MaxTiles + 1)
    OBVIOUS
  <1> QED BY <1>1, <1>2

(* A worker that is not idle runs a task of some request.                  *)
LEMMA WorkersTask ==
    ASSUME PrefetchAssumption, TypeOK, NEW w \in Workers, at[w] # "idle"
    PROVE  /\ running[w] \in Tasks /\ running[w] # NoTask
           /\ Owner(w) \in Requests /\ running[w] = <<Owner(w), Kind(w)>>
           /\ Kind(w) = Outer \/ Kind(w) = Collector \/ Kind(w) \in Tiles
  <1>1. running[w] \in Tasks
    BY DEF TypeOK
  <1> QED BY <1>1, TaskNames DEF Owner, Kind

-----------------------------------------------------------------------------
(* The steps *)

(* What a step leaves to request r: its tasks, where they are and what     *)
(* they have done.                                                         *)
Untouched(r) ==
    /\ \A k \in Outer..Collector :
        /\ <<r, k>> \in Queued' <=> <<r, k>> \in Queued
        /\ <<r, k>> \in flag' <=> <<r, k>> \in flag
        /\ \A w \in Workers :
            /\ On(w, <<r, k>>)' <=> On(w, <<r, k>>)
            /\ On(w, <<r, k>>) => at'[w] = at[w] /\ ok'[w] = ok[w]
    /\ total'[r] = total[r] /\ added'[r] = added[r] /\ got'[r] = got[r]
    /\ promise'[r] = promise[r] /\ delivered'[r] = delivered[r]
    /\ cancelled' = cancelled

(* A step that leaves a request alone keeps what is true of it.            *)
LEMMA UntouchedInv ==
    ASSUME PrefetchAssumption, NEW r \in Requests, Untouched(r), RequestInv(r)
    PROVE  RequestInv(r)'
  <1>1. Outer \in Outer..Collector /\ Collector \in Outer..Collector
          /\ Tiles \subseteq Outer..Collector
    BY DEF PrefetchAssumption, Outer, Collector, Tiles
  <1>2. \A k \in Outer..Collector : Live(<<r, k>>)' <=> Live(<<r, k>>)
    BY DEF Untouched, Live
  <1>3. OwnSteps(r)'
    BY <1>1 DEF Untouched, RequestInv, OwnSteps
  <1>4. \A i \in Tiles : TilePromise(r, i)'
    BY <1>1, <1>2 DEF Untouched, RequestInv, TilePromise
  <1>5. (Unprepared(r)' <=> Unprepared(r)) /\ (Adding(r)' <=> Adding(r))
    BY <1>1 DEF Untouched, Unprepared, Adding
  <1>6. NotCollecting(r)' <=> NotCollecting(r)
    BY <1>1, <1>2 DEF Untouched, NotCollecting
  <1>7. OuterTask(r)'
    BY <1>1, <1>5, <1>6 DEF Untouched, RequestInv, OuterTask
  <1>8. HasResult(r)' <=> HasResult(r)
    BY DEF Untouched, HasResult
  <1>9. Told(r)'
    BY <1>1, <1>2, <1>6, <1>8 DEF Untouched, RequestInv, Told
  <1>10. Collected(r)'
    BY <1>1 DEF Untouched, RequestInv, Collected
  <1> QED BY <1>3, <1>4, <1>7, <1>9, <1>10 DEF RequestInv

(* The types of the counters, one by one.                                  *)
LEMMA Counters ==
    ASSUME TypeOK
    PROVE  /\ total \in [Requests -> 0..MaxTiles] /\ added \in [Requests -> 0..MaxTiles]
           /\ got \in [Requests -> 0..MaxTiles]
           /\ \A r \in Requests : got[r] <= added[r] /\ added[r] <= total[r]
  BY DEF TypeOK

(* A step that keeps the worker's task, at label, changes neither where    *)
(* the tasks are nor what they have done.                                  *)
LEMMA GotoStep ==
    ASSUME TypeOK, NEW w \in Workers, NEW label \in Labels \ {"idle"}, NEW success \in BOOLEAN,
           at[w] # "idle", Goto(w, label, success)
    PROVE  /\ at' \in [Workers -> Labels] /\ ok' \in [Workers -> BOOLEAN] /\ running' = running
           /\ \A v \in Workers : at'[v] = "idle" <=> running'[v] = NoTask
           /\ \A v \in Workers : at'[v] = IF v = w THEN label ELSE at[v]
           /\ \A v \in Workers : ok'[v] = IF v = w THEN success ELSE ok[v]
           /\ \A v \in Workers : \A t : On(v, t)' <=> On(v, t)
  <1>1. at \in [Workers -> Labels] /\ ok \in [Workers -> BOOLEAN]
    BY DEF TypeOK
  <1>2. at' = [at EXCEPT ![w] = label] /\ ok' = [ok EXCEPT ![w] = success] /\ running' = running
    BY DEF Goto
  <1>3. \A v \in Workers : at'[v] = IF v = w THEN label ELSE at[v]
    BY <1>1, <1>2
  <1>4. \A v \in Workers : at'[v] = "idle" <=> running'[v] = NoTask
    BY <1>2, <1>3 DEF TypeOK
  <1>5. \A v \in Workers : ok'[v] = IF v = w THEN success ELSE ok[v]
    BY <1>1, <1>2
  <1>6. at' \in [Workers -> Labels] /\ ok' \in [Workers -> BOOLEAN]
    BY <1>1, <1>2
  <1> QED BY <1>2, <1>3, <1>4, <1>5, <1>6 DEF On

(* What a worker knows of the request whose task it runs: no other worker  *)
(* has this task, and it is not queued.                                    *)
LEMMA OwnTask ==
    ASSUME PrefetchAssumption, PrefetchInv, NEW w \in Workers, at[w] # "idle"
    PROVE  /\ Owner(w) \in Requests /\ RequestInv(Owner(w)) /\ On(w, <<Owner(w), Kind(w)>>)
           /\ Kind(w) = Outer \/ Kind(w) = Collector \/ Kind(w) \in Tiles
           /\ <<Owner(w), Kind(w)>> \notin Queued
           /\ \A v \in Workers : \A r, k : On(v, <<r, k>>) /\ v # w => <<r, k>> # running[w]
           /\ \A r, k : On(w, <<r, k>>) <=> r = Owner(w) /\ k = Kind(w)
  <1>1. /\ running[w] \in Tasks /\ running[w] # NoTask /\ Owner(w) \in Requests
        /\ running[w] = <<Owner(w), Kind(w)>>
        /\ (Kind(w) = Outer \/ Kind(w) = Collector \/ Kind(w) \in Tiles)
    BY WorkersTask DEF PrefetchInv
  <1>2. \A r, k : On(w, <<r, k>>) <=> r = Owner(w) /\ k = Kind(w)
    BY <1>1 DEF On
  <1>3. \A v \in Workers : \A r, k : On(v, <<r, k>>) /\ v # w => <<r, k>> # running[w]
    BY <1>1 DEF On, PrefetchInv, OnePlace
  <1>4. <<Owner(w), Kind(w)>> \notin Queued
    BY <1>1 DEF PrefetchInv, OnePlace
  <1> QED BY <1>1, <1>2, <1>3, <1>4 DEF PrefetchInv

(* Of a request whose results nobody collects yet nothing has been told.   *)
LEMMA NothingTold ==
    ASSUME NEW r \in Requests, NotCollecting(r)'
    PROVE  Told(r)' /\ Collected(r)'
  <1>1. ~Live(<<r, Collector>>)' /\ delivered'[r] = <<>>
    BY DEF NotCollecting
  <1>2. \A w \in Workers : ~On(w, <<r, Collector>>)'
    BY <1>1 DEF Live
  <1>3. ~HasResult(r)' /\ Len(delivered'[r]) = 0
    BY <1>1 DEF HasResult
  <1> QED BY <1>1, <1>2, <1>3 DEF Told, Collected, NotCollecting

(* Prepare: the tiles are found before any is added.                       *)
LEMMA PrepareInv ==
    ASSUME PrefetchAssumption, PrefetchInv, NEW w \in Workers, Prepare(w)
    PROVE  PrefetchInv'
  <1>1. TypeOK /\ at[w] = "prepare" /\ at[w] # "idle"
    BY DEF Prepare, PrefetchInv
  <1>2. PICK r \in Requests :
            r = Owner(w) /\ RequestInv(r) /\ On(w, <<r, Outer>>) /\ Kind(w) = Outer
    BY <1>1, OwnTask DEF RequestInv, OwnSteps
  <1>3. /\ \A v \in Workers : \A q, k : On(v, <<q, k>>) /\ v # w => <<q, k>> # <<r, Outer>>
        /\ \A q, k : On(w, <<q, k>>) => q = r /\ k = Outer
    BY <1>1, <1>2, OwnTask DEF On
  <1>4. PICK b \in {"finish", "loop"} :
              /\ Goto(w, b, FALSE)
              /\ \/ b = "finish" /\ UNCHANGED total
                 \/ b = "loop" /\ \E n \in Tiles : total' = [total EXCEPT ![r] = n]
    BY <1>2 DEF Prepare
  <1>5. UNCHANGED <<queue, linked, added, promise, flag, got, delivered, cancelled, cancels>>
    BY DEF Prepare, cancelVars
  <1>6. added[r] = 0 /\ NotCollecting(r)
    BY <1>1, <1>2 DEF RequestInv, OuterTask, Unprepared
  <1>7. /\ at' \in [Workers -> Labels] /\ ok' \in [Workers -> BOOLEAN] /\ running' = running
        /\ \A v \in Workers : at'[v] = "idle" <=> running'[v] = NoTask
        /\ \A v \in Workers : at'[v] = IF v = w THEN b ELSE at[v]
        /\ \A v \in Workers : ok'[v] = IF v = w THEN FALSE ELSE ok[v]
        /\ \A v \in Workers : \A t : On(v, t)' <=> On(v, t)
    <2>1. b \in Labels \ {"idle"} /\ FALSE \in BOOLEAN
      BY DEF Labels
    <2> QED BY <1>1, <1>4, <2>1, GotoStep
  <1>8. Queued' = Queued
    BY <1>5 DEF Queued
  <1>9. /\ total' \in [Requests -> 0..MaxTiles] /\ \A q \in Requests : added[q] <= total'[q]
        /\ \A q \in Requests : q # r => total'[q] = total[q]
        /\ b = "loop" => total'[r] > 0
    <2>1. CASE UNCHANGED total /\ b = "finish"
      BY <1>1, <2>1, Counters
    <2>2. ASSUME NEW n \in Tiles, total' = [total EXCEPT ![r] = n] PROVE <1>9!:
      BY <1>1, <1>2, <1>6, <2>2, Counters DEF Tiles, PrefetchAssumption
    <2> QED BY <1>4, <2>1, <2>2
  <1>10. TypeOK'
    BY <1>1, <1>5, <1>7, <1>9 DEF TypeOK
  <1>11. OnePlace'
    BY <1>5, <1>7, <1>8 DEF OnePlace, PrefetchInv
  <1>12. ASSUME NEW q \in Requests PROVE RequestInv(q)'
    <2>1. CASE q # r
      <3>1. Untouched(q)
        BY <1>3, <1>5, <1>7, <1>8, <1>9, <2>1 DEF Untouched
      <3> QED BY <3>1, UntouchedInv DEF PrefetchInv
    <2>2. RequestInv(r)'
      <3>1. \A k : Live(<<r, k>>)' <=> Live(<<r, k>>)
        BY <1>7, <1>8 DEF Live
      <3>2. OwnSteps(r)'
        BY <1>2, <1>3, <1>4, <1>5, <1>7, TaskNames DEF RequestInv, OwnSteps
      <3>3. \A i \in Tiles : TilePromise(r, i)'
        BY <1>2, <1>3, <1>4, <1>5, <1>7, <1>8, <3>1, TaskNames DEF RequestInv, TilePromise
      <3>4. NotCollecting(r)'
        BY <1>5, <1>6, <3>1 DEF NotCollecting
      <3>5. ~Unprepared(r)' /\ (Adding(r)' => b = "loop")
        BY <1>2, <1>3, <1>4, <1>7, <1>8, OwnTask, <1>1 DEF Unprepared, Adding
      <3>6. OuterTask(r)'
        BY <1>2, <1>3, <1>4, <1>5, <1>7, <1>9, <3>4, <3>5 DEF RequestInv, OuterTask
      <3>7. Told(r)' /\ Collected(r)'
        BY <3>4, NothingTold
      <3> QED BY <3>2, <3>3, <3>6, <3>7 DEF RequestInv
    <2> QED BY <2>1, <2>2
  <1> QED BY <1>10, <1>11, <1>12 DEF PrefetchInv

(* AddTile: the task of a tile is added once, while the outer task runs.   *)
LEMMA AddTileInv ==
    ASSUME PrefetchAssumption, PrefetchInv, NEW w \in Workers, AddTile(w)
    PROVE  PrefetchInv'
  <1>1. TypeOK /\ OnePlace /\ at[w] = "loop" /\ at[w] # "idle"
    BY DEF AddTile, PrefetchInv
  <1>2. PICK r \in Requests :
            r = Owner(w) /\ RequestInv(r) /\ On(w, <<r, Outer>>) /\ Kind(w) = Outer
    BY <1>1, OwnTask DEF RequestInv, OwnSteps
  <1>3. /\ <<r, Outer>> \notin Queued
        /\ \A v \in Workers : \A q, k : On(v, <<q, k>>) /\ v # w => <<q, k>> # <<r, Outer>>
        /\ \A q, k : On(w, <<q, k>>) => q = r /\ k = Outer
    BY <1>1, <1>2, OwnTask DEF On
  <1>4. PICK i \in Nat : i = added[r] + 1
    BY <1>1, Counters
  <1>5. added[r] < total[r] /\ added' = [added EXCEPT ![r] = i]
        /\ queue' = Append(queue, <<r, added'[r]>>)
    BY <1>2, <1>4 DEF AddTile, MoreTiles
  <1>6. UNCHANGED <<running, at, ok, linked, total, promise, flag, got, delivered, cancelled,
          cancels>>
    BY DEF AddTile, workerVars, cancelVars
  <1>7. /\ i \in Tiles /\ ~(i <= added[r])
        /\ added' \in [Requests -> 0..MaxTiles] /\ added'[r] = i
        /\ \A q \in Requests : q # r => added'[q] = added[q]
        /\ \A q \in Requests : got[q] <= added'[q] /\ added'[q] <= total[q]
    BY <1>1, <1>4, <1>5, Counters DEF Tiles, PrefetchAssumption
  <1>8. ~Live(<<r, i>>) /\ promise[r][i] = <<>> /\ <<r, i>> \in Tasks
    BY <1>2, <1>7, TaskNames DEF RequestInv, TilePromise
  <1>9. /\ queue' \in Seq(Tasks) /\ Queued' = Queued \cup {<<r, i>>}
        /\ \A a, b \in DOMAIN queue' : queue'[a] = queue'[b] => a = b
    <2>1. <<r, i>> \notin Queued
      BY <1>8 DEF Live
    <2> QED BY <1>1, <1>5, <1>7, <1>8, <2>1, QueueAdded
  <1>10. TypeOK'
    BY <1>1, <1>6, <1>7, <1>9 DEF TypeOK
  <1>11. OnePlace'
    <2>1. \A v \in Workers : running[v] # <<r, i>>
      BY <1>8 DEF Live, On
    <2> QED BY <1>1, <1>6, <1>9, <2>1 DEF OnePlace
  <1>12. \A v \in Workers : \A t : On(v, t)' <=> On(v, t)
    BY <1>6 DEF On
  <1>13. ASSUME NEW q \in Requests PROVE RequestInv(q)'
    <2>1. CASE q # r
      <3>1. Untouched(q)
        BY <1>6, <1>7, <1>9, <1>12, <2>1 DEF Untouched
      <3> QED BY <3>1, UntouchedInv DEF PrefetchInv
    <2>2. RequestInv(r)'
      <3>1. \A k : k # i => (Live(<<r, k>>)' <=> Live(<<r, k>>))
        BY <1>9, <1>12 DEF Live
      <3>2. OwnSteps(r)'
        <4>1. \A v \in Workers : ~On(v, <<r, Collector>>)'
          BY <1>1, <1>2, <1>12 DEF RequestInv, OuterTask, Adding, NotCollecting, Live
        <4> QED BY <1>2, <1>6, <1>12, <4>1 DEF RequestInv, OwnSteps
      <3>3. \A j \in Tiles : TilePromise(r, j)'
        <4>1. TilePromise(r, i)'
          BY <1>6, <1>7, <1>8, <1>12 DEF TilePromise, Live
        <4>2. ASSUME NEW j \in Tiles, j # i PROVE TilePromise(r, j)'
          <5>1. TilePromise(r, j) /\ (Live(<<r, j>>)' <=> Live(<<r, j>>))
            BY <1>2, <3>1, <4>2 DEF RequestInv
          <5>2. \A x \in Tiles : x <= added[r] => x <= added'[r]
            BY <1>4, <1>7, <1>1, Counters DEF Tiles
          <5>3. <<r, j>> \in Queued' <=> <<r, j>> \in Queued
            BY <1>9, <4>2
          <5> QED BY <1>6, <1>12, <5>1, <5>2, <5>3 DEF TilePromise
        <4> QED BY <4>1, <4>2
      <3>4. NotCollecting(r) /\ total[r] > 0
        BY <1>1, <1>2 DEF RequestInv, OuterTask, Adding
      <3>5. NotCollecting(r)'
        BY <1>6, <1>7, <3>1, <3>4, TaskNames DEF NotCollecting
      <3>6. ~Unprepared(r)'
        BY <1>1, <1>2, <1>3, <1>6, <1>7, <1>9, <1>12, TaskNames DEF Unprepared
      <3>7. OuterTask(r)'
        BY <1>1, <1>3, <1>6, <1>12, <3>4, <3>5, <3>6 DEF OuterTask
      <3> QED BY <3>2, <3>3, <3>5, <3>7, NothingTold DEF RequestInv
    <2> QED BY <2>1, <2>2
  <1> QED BY <1>10, <1>11, <1>13 DEF PrefetchInv

(* AddCollector: the collecting task is added once, after the tiles.       *)
LEMMA AddCollectorInv ==
    ASSUME PrefetchAssumption, PrefetchInv, NEW w \in Workers, AddCollector(w)
    PROVE  PrefetchInv'
  <1>1. TypeOK /\ OnePlace /\ at[w] = "loop" /\ at[w] # "idle"
    BY DEF AddCollector, PrefetchInv
  <1>2. PICK r \in Requests :
            r = Owner(w) /\ RequestInv(r) /\ On(w, <<r, Outer>>) /\ Kind(w) = Outer
    BY <1>1, OwnTask DEF RequestInv, OwnSteps
  <1>3. /\ <<r, Outer>> \notin Queued
        /\ \A v \in Workers : \A q, k : On(v, <<q, k>>) /\ v # w => <<q, k>> # <<r, Outer>>
        /\ \A q, k : On(w, <<q, k>>) => q = r /\ k = Outer
    BY <1>1, <1>2, OwnTask DEF On
  <1>4. /\ running[w] = <<r, Outer>>
        /\ <<r, Outer>> \notin cancelled => ~(added[r] < total[r])
        /\ queue' = Append(queue, <<r, Collector>>)
        /\ Goto(w, "link", TRUE)
        /\ UNCHANGED <<linked, total, added, promise, flag, got, delivered, cancelled, cancels>>
    BY <1>2 DEF AddCollector, MoreTiles, requestVars, cancelVars, On
  <1>5. NotCollecting(r) /\ total[r] > 0
    BY <1>1, <1>2 DEF RequestInv, OuterTask, Adding
  <1>6. /\ at' \in [Workers -> Labels] /\ ok' \in [Workers -> BOOLEAN] /\ running' = running
        /\ \A v \in Workers : at'[v] = "idle" <=> running'[v] = NoTask
        /\ \A v \in Workers : at'[v] = IF v = w THEN "link" ELSE at[v]
        /\ \A v \in Workers : ok'[v] = IF v = w THEN TRUE ELSE ok[v]
        /\ \A v \in Workers : \A t : On(v, t)' <=> On(v, t)
    <2>1. "link" \in Labels \ {"idle"} /\ TRUE \in BOOLEAN
      BY DEF Labels
    <2> QED BY <1>1, <1>4, <2>1, GotoStep
  <1>7. /\ queue' \in Seq(Tasks) /\ Queued' = Queued \cup {<<r, Collector>>}
        /\ \A a, b \in DOMAIN queue' : queue'[a] = queue'[b] => a = b
    <2>1. <<r, Collector>> \notin Queued /\ <<r, Collector>> \in Tasks
      BY <1>5, TaskNames DEF NotCollecting, Live
    <2> QED BY <1>1, <1>4, <2>1, QueueAdded
  <1>8. TypeOK'
    BY <1>1, <1>4, <1>6, <1>7 DEF TypeOK
  <1>9. OnePlace'
    <2>1. \A v \in Workers : running[v] # <<r, Collector>>
      BY <1>5 DEF NotCollecting, Live, On
    <2> QED BY <1>1, <1>6, <1>7, <2>1 DEF OnePlace
  <1>10. ASSUME NEW q \in Requests PROVE RequestInv(q)'
    <2>1. CASE q # r
      <3>1. Untouched(q)
        BY <1>3, <1>4, <1>6, <1>7, <2>1 DEF Untouched
      <3> QED BY <3>1, UntouchedInv DEF PrefetchInv
    <2>2. RequestInv(r)'
      <3>1. /\ \A k : k # Collector => (Live(<<r, k>>)' <=> Live(<<r, k>>))
            /\ \A v \in Workers : ~On(v, <<r, Collector>>)
        BY <1>5, <1>6, <1>7 DEF Live, NotCollecting
      <3>2. OwnSteps(r)'
        BY <1>2, <1>3, <1>4, <1>6, TaskNames, SMTT(30) DEF RequestInv, OwnSteps
      <3>3. ASSUME NEW i \in Tiles PROVE TilePromise(r, i)'
        <4>1. /\ TilePromise(r, i) /\ (Live(<<r, i>>)' <=> Live(<<r, i>>))
              /\ ~On(w, <<r, i>>) /\ (<<r, i>> \in Queued' <=> <<r, i>> \in Queued)
          BY <1>2, <1>3, <1>7, <3>1, TaskNames DEF RequestInv
        <4> QED BY <1>4, <1>6, <4>1 DEF TilePromise
      <3>4. ~Unprepared(r)' /\ ~Adding(r)'
        BY <1>2, <1>3, <1>6, <1>7, TaskNames DEF Unprepared, Adding
      <3>5. OuterTask(r)'
        BY <1>3, <1>6, <3>4 DEF OuterTask
      <3>6. delivered'[r] = <<>> /\ ~HasResult(r)' /\ Len(delivered'[r]) = 0
        BY <1>4, <1>5 DEF NotCollecting, HasResult
      <3>7. <<r, Outer>> \notin cancelled => added'[r] = total'[r] /\ total'[r] > 0
        BY <1>1, <1>4, <1>5, Counters
      <3>8. Told(r)'
        <4>1. \A v \in Workers : On(v, <<r, Outer>>)' => at'[v] # "finish"
          BY <1>3, <1>6
        <4> QED BY <1>4, <3>6, <3>7, <4>1 DEF Told
      <3>9. Collected(r)'
        BY <1>6, <3>1 DEF Collected
      <3> QED BY <3>2, <3>3, <3>5, <3>8, <3>9 DEF RequestInv
    <2> QED BY <2>1, <2>2
  <1> QED BY <1>8, <1>9, <1>10 DEF PrefetchInv

(* Link: the outer task's own response is a success.                       *)
LEMMA LinkInv ==
    ASSUME PrefetchAssumption, PrefetchInv, NEW w \in Workers, Link(w)
    PROVE  PrefetchInv'
  <1>1. TypeOK /\ OnePlace /\ at[w] = "link" /\ at[w] # "idle"
    BY DEF Link, PrefetchInv
  <1>2. PICK r \in Requests :
            r = Owner(w) /\ RequestInv(r) /\ On(w, <<r, Outer>>) /\ Kind(w) = Outer
    BY <1>1, OwnTask DEF RequestInv, OwnSteps
  <1>3. /\ <<r, Outer>> \notin Queued
        /\ \A v \in Workers : \A q, k : On(v, <<q, k>>) /\ v # w => <<q, k>> # <<r, Outer>>
        /\ \A q, k : On(w, <<q, k>>) => q = r /\ k = Outer
    BY <1>1, <1>2, OwnTask DEF On
  <1>4. /\ Goto(w, "finish", TRUE)
        /\ UNCHANGED <<queue, total, added, promise, flag, got, delivered, cancelled, cancels>>
    BY DEF Link, cancelVars
  <1>5. /\ at' \in [Workers -> Labels] /\ ok' \in [Workers -> BOOLEAN] /\ running' = running
        /\ \A v \in Workers : at'[v] = "idle" <=> running'[v] = NoTask
        /\ \A v \in Workers : at'[v] = IF v = w THEN "finish" ELSE at[v]
        /\ \A v \in Workers : ok'[v] = IF v = w THEN TRUE ELSE ok[v]
        /\ \A v \in Workers : \A t : On(v, t)' <=> On(v, t)
    <2>1. "finish" \in Labels \ {"idle"} /\ TRUE \in BOOLEAN
      BY DEF Labels
    <2> QED BY <1>1, <1>4, <2>1, GotoStep
  <1>6. Queued' = Queued
    BY <1>4 DEF Queued
  <1>7. TypeOK'
    <2>1. linked' \subseteq Requests
      BY <1>2 DEF Link, TypeOK, PrefetchInv
    <2> QED BY <1>1, <1>4, <1>5, <2>1 DEF TypeOK
  <1>8. OnePlace'
    BY <1>1, <1>4, <1>5, <1>6 DEF OnePlace
  <1>9. ASSUME NEW q \in Requests PROVE RequestInv(q)'
    <2>1. CASE q # r
      <3>1. Untouched(q)
        BY <1>3, <1>4, <1>5, <1>6, <2>1 DEF Untouched
      <3> QED BY <3>1, UntouchedInv DEF PrefetchInv
    <2>2. RequestInv(r)'
      <3>1. \A k : Live(<<r, k>>)' <=> Live(<<r, k>>)
        BY <1>5, <1>6 DEF Live
      <3>2. OwnSteps(r)'
        BY <1>2, <1>3, <1>4, <1>5, TaskNames DEF RequestInv, OwnSteps
      <3>3. \A i \in Tiles : TilePromise(r, i)'
        BY <1>2, <1>3, <1>4, <1>5, <1>6, <3>1, TaskNames DEF RequestInv, TilePromise
      <3>4. ~Unprepared(r)' /\ ~Adding(r)'
        BY <1>2, <1>3, <1>5, <1>6, TaskNames DEF Unprepared, Adding
      <3>5. OuterTask(r)'
        BY <1>3, <1>5, <3>4 DEF OuterTask
      <3>6. HasResult(r)' <=> HasResult(r)
        BY <1>4 DEF HasResult
      <3>7. Told(r)' /\ Collected(r)'
        BY <1>2, <1>3, <1>4, <1>5, <3>1, <3>6, TaskNames DEF RequestInv, Told, Collected
      <3> QED BY <3>2, <3>3, <3>5, <3>7 DEF RequestInv
    <2> QED BY <2>1, <2>2
  <1> QED BY <1>7, <1>8, <1>9 DEF PrefetchInv

(* Fetch: a tile's task sets the promise before its callback does.         *)
LEMMA FetchInv ==
    ASSUME PrefetchAssumption, PrefetchInv, NEW w \in Workers, Fetch(w)
    PROVE  PrefetchInv'
  <1>1. TypeOK /\ OnePlace /\ at[w] = "fetch" /\ at[w] # "idle"
    BY DEF Fetch, PrefetchInv
  <1>2. PICK r \in Requests, k \in Tiles :
            r = Owner(w) /\ k = Kind(w) /\ RequestInv(r) /\ On(w, <<r, k>>)
    BY <1>1, OwnTask DEF RequestInv, OwnSteps
  <1>3. /\ <<r, k>> \notin Queued /\ running[w] = <<r, k>> /\ <<r, k>> \in Tasks
        /\ \A v \in Workers : \A q, j : On(v, <<q, j>>) /\ v # w => <<q, j>> # <<r, k>>
        /\ \A q, j : On(w, <<q, j>>) => q = r /\ j = k
    BY <1>1, <1>2, OwnTask, TaskNames DEF On
  <1>4. PICK v \in {"data", "error"} : promise' = [promise EXCEPT ![r][k] = Append(@, v)]
    BY <1>2 DEF Fetch, SetValue
  <1>5. /\ flag' = flag \cup {<<r, k>>} /\ Goto(w, "finish", TRUE)
        /\ UNCHANGED <<queue, linked, total, added, got, delivered, cancelled, cancels>>
    BY <1>3 DEF Fetch, cancelVars
  <1>6. promise[r][k] = <<>>
    BY <1>1, <1>2 DEF RequestInv, TilePromise
  <1>7. /\ promise' \in [Requests -> [Tiles -> Seq({"data", "error"})]]
        /\ promise'[r][k] = <<v>>
        /\ \A i \in Tiles : i # k => promise'[r][i] = promise[r][i]
        /\ \A q \in Requests : q # r => promise'[q] = promise[q]
    <2>1. promise \in [Requests -> [Tiles -> Seq({"data", "error"})]]
      BY <1>1 DEF TypeOK
    <2>2. Append(promise[r][k], v) = <<v>> /\ <<v>> \in Seq({"data", "error"})
      BY <1>6
    <2>3. promise' = [promise EXCEPT ![r] = [promise[r] EXCEPT ![k] = <<v>>]]
      BY <1>4, <2>1, <2>2
    <2> QED BY <2>1, <2>2, <2>3
  <1>8. /\ at' \in [Workers -> Labels] /\ ok' \in [Workers -> BOOLEAN] /\ running' = running
        /\ \A u \in Workers : at'[u] = "idle" <=> running'[u] = NoTask
        /\ \A u \in Workers : at'[u] = IF u = w THEN "finish" ELSE at[u]
        /\ \A u \in Workers : ok'[u] = IF u = w THEN TRUE ELSE ok[u]
        /\ \A u \in Workers : \A t : On(u, t)' <=> On(u, t)
    <2>1. "finish" \in Labels \ {"idle"} /\ TRUE \in BOOLEAN
      BY DEF Labels
    <2> QED BY <1>1, <1>5, <2>1, GotoStep
  <1>9. Queued' = Queued
    BY <1>5 DEF Queued
  <1>10. TypeOK'
    BY <1>1, <1>3, <1>5, <1>7, <1>8 DEF TypeOK
  <1>11. OnePlace'
    BY <1>1, <1>5, <1>8, <1>9 DEF OnePlace
  <1>12. ASSUME NEW q \in Requests PROVE RequestInv(q)'
    <2>1. CASE q # r
      <3>1. Untouched(q)
        BY <1>3, <1>5, <1>7, <1>8, <1>9, <2>1 DEF Untouched
      <3> QED BY <3>1, UntouchedInv DEF PrefetchInv
    <2>2. RequestInv(r)'
      <3>1. \A j : Live(<<r, j>>)' <=> Live(<<r, j>>)
        BY <1>8, <1>9 DEF Live
      <3>2. \A u \in Workers, j \in {Outer, Collector} :
                On(u, <<r, j>>) => at'[u] = at[u] /\ ok'[u] = ok[u]
        <4>1. \A j \in {Outer, Collector} : j # k
          BY TaskNames
        <4>2. \A u \in Workers, j \in {Outer, Collector} : On(u, <<r, j>>) => u # w
          BY <1>3, <4>1
        <4> QED BY <1>8, <4>2
      <3>3. OwnSteps(r)'
        <4>1. \A u \in Workers : On(u, <<r, Collector>>) /\ at'[u] = "get" => got'[r] < added'[r]
          BY <1>2, <1>5, <3>2 DEF RequestInv, OwnSteps
        <4> QED BY <1>2, <1>8, <3>2, <4>1 DEF RequestInv, OwnSteps
      <3>4. ASSUME NEW i \in Tiles PROVE TilePromise(r, i)'
        <4>1. TilePromise(r, i)
          BY <1>2 DEF RequestInv
        <4>2. CASE i = k
          <5>1. Live(<<r, i>>)
            BY <1>2, <4>2 DEF Live
          <5>2. Len(promise'[r][i]) = 1
            BY <1>7, <4>2
          <5>3. <<r, i>> \in flag' /\ \A u \in Workers : On(u, <<r, i>>) => u = w
            BY <1>3, <1>5, <4>2
          <5> QED BY <1>3, <1>5, <1>8, <1>9, <4>1, <4>2, <5>1, <5>2, <5>3 DEF TilePromise
        <4>3. CASE i # k
          <5>1. promise'[r][i] = promise[r][i] /\ (<<r, i>> \in flag' <=> <<r, i>> \in flag)
                /\ ~On(w, <<r, i>>)
            BY <1>3, <1>5, <1>7, <4>3
          <5> QED BY <1>5, <1>8, <1>9, <3>1, <4>1, <5>1 DEF TilePromise
        <4> QED BY <4>2, <4>3
      <3>5. /\ Unprepared(r)' <=> Unprepared(r)
            /\ Adding(r)' <=> Adding(r)
            /\ NotCollecting(r)' <=> NotCollecting(r)
            /\ HasResult(r)' <=> HasResult(r)
        BY <1>5, <1>8, <1>9, <3>1, <3>2 DEF Unprepared, Adding, NotCollecting, HasResult
      <3>6. OuterTask(r)'
        BY <1>2, <1>5, <1>8, <3>2, <3>5 DEF RequestInv, OuterTask
      <3>7. Told(r)'
        BY <1>2, <1>5, <1>8, <3>1, <3>2, <3>5 DEF RequestInv, Told
      <3>8. Collected(r)'
        BY <1>2, <1>5, <1>8, <3>2 DEF RequestInv, Collected
      <3> QED BY <3>3, <3>4, <3>6, <3>7, <3>8 DEF RequestInv
    <2> QED BY <2>1, <2>2
  <1> QED BY <1>10, <1>11, <1>12 DEF PrefetchInv

(* Check and Get: the collecting task takes one future after the other.    *)
LEMMA CollectInv ==
    ASSUME PrefetchAssumption, PrefetchInv, NEW w \in Workers, Check(w) \/ Get(w)
    PROVE  PrefetchInv'
  <1>1. TypeOK /\ OnePlace /\ at[w] \in {"check", "get"} /\ at[w] # "idle"
    BY DEF Check, Get, PrefetchInv
  <1>2. PICK r \in Requests :
            r = Owner(w) /\ RequestInv(r) /\ On(w, <<r, Collector>>) /\ Kind(w) = Collector
    BY <1>1, OwnTask DEF RequestInv, OwnSteps
  <1>3. /\ <<r, Collector>> \notin Queued
        /\ \A v \in Workers : \A q, k : On(v, <<q, k>>) /\ v # w => <<q, k>> # <<r, Collector>>
        /\ \A q, k : On(w, <<q, k>>) => q = r /\ k = Collector
    BY <1>1, <1>2, OwnTask DEF On
  <1>4. PICK b \in {"check", "get", "finish"}, s \in BOOLEAN :
            /\ Goto(w, b, s)
            /\ \/ b = "finish" /\ s /\ got[r] = added[r] /\ UNCHANGED got
               \/ b = "finish" /\ ~s /\ UNCHANGED got
               \/ b = "get" /\ got[r] < added[r] /\ UNCHANGED got
               \/ b = "check" /\ at[w] = "get" /\ got' = [got EXCEPT ![r] = @ + 1]
    BY <1>1, <1>2 DEF Check, Get, requestVars
  <1>5. UNCHANGED <<queue, linked, total, added, promise, flag, delivered, cancelled, cancels>>
    BY DEF Check, Get, requestVars, cancelVars
  <1>6. /\ at' \in [Workers -> Labels] /\ ok' \in [Workers -> BOOLEAN] /\ running' = running
        /\ \A v \in Workers : at'[v] = "idle" <=> running'[v] = NoTask
        /\ \A v \in Workers : at'[v] = IF v = w THEN b ELSE at[v]
        /\ \A v \in Workers : ok'[v] = IF v = w THEN s ELSE ok[v]
        /\ \A v \in Workers : \A t : On(v, t)' <=> On(v, t)
    <2>1. b \in Labels \ {"idle"}
      BY DEF Labels
    <2> QED BY <1>1, <1>4, <2>1, GotoStep
  <1>7. Queued' = Queued
    BY <1>5 DEF Queued
  <1>8. /\ got' \in [Requests -> 0..MaxTiles]
        /\ \A q \in Requests : got'[q] <= added[q]
        /\ \A q \in Requests : q # r => got'[q] = got[q]
        /\ b # "check" => got' = got
    <2>1. CASE got' = got
      BY <1>1, <2>1, Counters
    <2>2. CASE at[w] = "get" /\ b = "check" /\ got' = [got EXCEPT ![r] = @ + 1]
      <3>1. got[r] < added[r]
        BY <1>2, <2>2 DEF RequestInv, OwnSteps
      <3> QED BY <1>1, <2>2, <3>1, Counters DEF PrefetchAssumption
    <2> QED BY <1>4, <2>1, <2>2
  <1>9. TypeOK'
    BY <1>1, <1>5, <1>6, <1>8 DEF TypeOK
  <1>10. OnePlace'
    BY <1>1, <1>5, <1>6, <1>7 DEF OnePlace
  <1>11. ASSUME NEW q \in Requests PROVE RequestInv(q)'
    <2>1. CASE q # r
      <3>1. Untouched(q)
        BY <1>3, <1>5, <1>6, <1>7, <1>8, <2>1 DEF Untouched
      <3> QED BY <3>1, UntouchedInv DEF PrefetchInv
    <2>2. RequestInv(r)'
      <3>1. \A k : Live(<<r, k>>)' <=> Live(<<r, k>>)
        BY <1>6, <1>7 DEF Live
      <3>2. OwnSteps(r)'
        <4>1. \A v \in Workers :
                  /\ On(v, <<r, Collector>>) => v = w
                  /\ On(v, <<r, Outer>>) => at'[v] = at[v]
                  /\ \A i \in Tiles : On(v, <<r, i>>) => at'[v] = at[v]
          BY <1>3, <1>6, TaskNames
        <4>2. at'[w] = "get" => got'[r] < added'[r]
          BY <1>4, <1>5, <1>6
        <4>3. at'[w] \in {"check", "get", "finish"}
          BY <1>6
        <4> QED BY <1>2, <1>6, <4>1, <4>2, <4>3 DEF RequestInv, OwnSteps
      <3>3. ASSUME NEW i \in Tiles PROVE TilePromise(r, i)'
        <4>1. TilePromise(r, i) /\ ~On(w, <<r, i>>)
          BY <1>2, <1>3, TaskNames DEF RequestInv
        <4> QED BY <1>5, <1>6, <1>7, <3>1, <4>1 DEF TilePromise
      <3>4. \A v \in Workers : On(v, <<r, Outer>>) => at'[v] = at[v] /\ ok'[v] = ok[v]
        BY <1>3, <1>6, TaskNames
      <3>5. /\ Unprepared(r)' <=> Unprepared(r)
            /\ Adding(r)' <=> Adding(r)
            /\ NotCollecting(r)' <=> NotCollecting(r)
            /\ HasResult(r)' <=> HasResult(r)
        BY <1>5, <1>6, <1>7, <3>1, <3>4 DEF Unprepared, Adding, NotCollecting, HasResult
      <3>6. OuterTask(r)'
        BY <1>2, <1>5, <1>6, <3>4, <3>5 DEF RequestInv, OuterTask
      <3>7. Told(r)'
        <4>1. Live(<<r, Collector>>)
          BY <1>2 DEF Live
        <4>2. <<r, Outer>> \notin cancelled => delivered[r] = <<>> /\ ~HasResult(r)
          BY <1>2, <4>1 DEF RequestInv, Told, HasResult
        <4> QED BY <1>2, <1>5, <1>6, <3>1, <3>4, <3>5, <4>2 DEF RequestInv, Told
      <3>8. Collected(r)'
        <4>1. \A v \in Workers : On(v, <<r, Collector>>) => v = w
          BY <1>3
        <4> QED BY <1>4, <1>5, <1>6, <1>8, <4>1 DEF Collected
      <3> QED BY <3>2, <3>3, <3>6, <3>7, <3>8 DEF RequestInv
    <2> QED BY <2>1, <2>2
  <1> QED BY <1>9, <1>10, <1>11 DEF PrefetchInv

(* Finish: OuterCallback and CollectorCallback call the user, one of them  *)
(* unless the request was cancelled; TileCallback sets a promise that      *)
(* nothing has set.                                                        *)
LEMMA FinishInv ==
    ASSUME PrefetchAssumption, PrefetchInv, NEW w \in Workers, Finish(w)
    PROVE  PrefetchInv'
  <1>1. TypeOK /\ OnePlace /\ at[w] = "finish" /\ at[w] # "idle"
    BY DEF Finish, PrefetchInv
  <1>2. PICK r \in Requests, k \in Outer..Collector :
            /\ r = Owner(w) /\ k = Kind(w) /\ RequestInv(r) /\ On(w, <<r, k>>)
            /\ k = Outer \/ k = Collector \/ k \in Tiles
    <2>1. Outer \in Outer..Collector /\ Collector \in Outer..Collector
            /\ Tiles \subseteq Outer..Collector
      BY DEF PrefetchAssumption, Outer, Collector, Tiles
    <2> QED BY <1>1, <2>1, OwnTask
  <1>3. /\ <<r, k>> \notin Queued /\ running[w] = <<r, k>>
        /\ \A v \in Workers : \A q, j : On(v, <<q, j>>) /\ v # w => <<q, j>> # <<r, k>>
        /\ \A q, j : On(w, <<q, j>>) => q = r /\ j = k
    BY <1>1, <1>2, OwnTask DEF On
  <1>4. /\ \/ k = Outer /\ OuterCallback(w) /\ UNCHANGED promise
           \/ k = Collector /\ CollectorCallback(w) /\ UNCHANGED promise
           \/ k \in Tiles /\ TileCallback(w) /\ UNCHANGED delivered
        /\ running' = [running EXCEPT ![w] = NoTask] /\ at' = [at EXCEPT ![w] = "idle"]
        /\ ok' = [ok EXCEPT ![w] = FALSE]
        /\ UNCHANGED <<queue, linked, total, added, flag, got, cancelled, cancels>>
    BY <1>2 DEF Finish, cancelVars
  <1>5. /\ \A v \in Workers : running'[v] = IF v = w THEN NoTask ELSE running[v]
        /\ \A v \in Workers : at'[v] = IF v = w THEN "idle" ELSE at[v]
        /\ \A v \in Workers : ok'[v] = IF v = w THEN FALSE ELSE ok[v]
    BY <1>1, <1>4 DEF TypeOK
  <1>6. \A v \in Workers : \A q, j : On(v, <<q, j>>)' <=> v # w /\ On(v, <<q, j>>)
    BY <1>5 DEF On, NoTask
  <1>7. Queued' = Queued
    BY <1>4 DEF Queued
  <1>8. /\ promise' \in [Requests -> [Tiles -> Seq({"data", "error"})]]
        /\ \A q \in Requests : q # r => promise'[q] = promise[q]
        /\ \A i \in Tiles : promise'[r][i] = promise[r][i]
                            \/ (i = k /\ promise[r][i] = <<>> /\ Len(promise'[r][i]) = 1)
    <2>1. CASE UNCHANGED promise
      BY <1>1, <2>1 DEF TypeOK
    <2>2. CASE k \in Tiles /\ <<r, k>> \notin flag
                 /\ promise' = [promise EXCEPT ![r][k] = Append(@, "error")]
      <3>1. promise \in [Requests -> [Tiles -> Seq({"data", "error"})]]
        BY <1>1 DEF TypeOK
      <3>2. promise[r][k] = <<>>
        BY <1>2, <2>2 DEF RequestInv, TilePromise
      <3>3. Append(promise[r][k], "error") = <<"error">> /\ <<"error">> \in Seq({"data", "error"})
        BY <3>2
      <3>4. promise' = [promise EXCEPT ![r] = [promise[r] EXCEPT ![k] = <<"error">>]]
        BY <2>2, <3>1, <3>3
      <3> QED BY <2>2, <3>1, <3>2, <3>4
    <2> QED BY <1>2, <1>3, <1>4, <2>1, <2>2, TaskNames DEF TileCallback, SetValue
  <1>9. /\ delivered' \in [Requests -> Seq({"result", "error"})]
        /\ \A q \in Requests : q # r => delivered'[q] = delivered[q]
        /\ \/ delivered'[r] = delivered[r] /\ (k = Collector => FALSE)
              /\ (k = Outer => <<r, k>> \in cancelled \/ ok[w])
           \/ k = Outer /\ ~(ok[w] /\ <<r, k>> \notin cancelled)
              /\ delivered'[r] = Append(delivered[r], "error")
           \/ k = Collector /\ delivered'[r] = Append(delivered[r], "error")
           \/ k = Collector /\ ok[w] /\ delivered'[r] = Append(delivered[r], "result")
    <2>1. delivered \in [Requests -> Seq({"result", "error"})]
      BY <1>1 DEF TypeOK
    <2>2. CASE k \in Tiles /\ UNCHANGED delivered
      BY <2>1, <2>2, TaskNames
    <2>3. CASE k = Outer /\ OuterCallback(w)
      <3>1. CASE ok[w] /\ <<r, k>> \notin cancelled
        BY <1>3, <2>1, <2>3, <3>1, TaskNames DEF OuterCallback, Successful
      <3>2. CASE ~(ok[w] /\ <<r, k>> \notin cancelled)
        <4>1. delivered' = [delivered EXCEPT ![r] = Append(@, "error")]
          BY <1>2, <1>3, <2>3, <3>2 DEF OuterCallback, Successful
        <4> QED BY <2>1, <2>3, <3>2, <4>1
      <3> QED BY <3>1, <3>2
    <2>4. CASE k = Collector /\ CollectorCallback(w)
      <3>1. PICK x \in {"result", "error"} :
                /\ delivered' = [delivered EXCEPT ![r] = Append(@, x)]
                /\ x = "result" => ok[w]
        BY <1>2, <1>3, <2>4 DEF CollectorCallback, Successful
      <3> QED BY <2>1, <2>4, <3>1
    <2> QED BY <1>4, <2>2, <2>3, <2>4
  <1>10. TypeOK'
    <2>1. /\ running' \in [Workers -> Tasks \cup {NoTask}]
          /\ at' \in [Workers -> Labels] /\ ok' \in [Workers -> BOOLEAN]
      BY <1>1, <1>4 DEF TypeOK, Labels
    <2>2. \A v \in Workers : at'[v] = "idle" <=> running'[v] = NoTask
      BY <1>1, <1>5 DEF TypeOK
    <2> QED BY <1>1, <1>4, <1>8, <1>9, <2>1, <2>2 DEF TypeOK
  <1>11. OnePlace'
    <2>1. \A v \in Workers : running'[v] \notin Queued'
      <3>1. NoTask \notin Queued
        <4>1. Queued \subseteq Tasks
          BY <1>1 DEF TypeOK, Queued
        <4> QED BY <4>1, TaskNames
      <3> QED BY <1>1, <1>5, <1>7, <3>1 DEF OnePlace
    <2> QED BY <1>1, <1>4, <1>5, <2>1 DEF OnePlace
  <1>12. ASSUME NEW q \in Requests PROVE RequestInv(q)'
    <2>1. CASE q # r
      <3>1. \A v \in Workers : \A j : On(v, <<q, j>>) => v # w
        BY <1>3, <2>1
      <3>2. Untouched(q)
        BY <1>4, <1>5, <1>6, <1>7, <1>8, <1>9, <2>1, <3>1 DEF Untouched
      <3> QED BY <3>2, UntouchedInv DEF PrefetchInv
    <2>2. RequestInv(r)'
      <3>1. \A j : Live(<<r, j>>)' <=> Live(<<r, j>>) /\ j # k
        BY <1>2, <1>3, <1>6, <1>7 DEF Live
      <3>2. OwnSteps(r)'
        BY <1>2, <1>4, <1>5, <1>6 DEF RequestInv, OwnSteps
      <3>3. ASSUME NEW i \in Tiles PROVE TilePromise(r, i)'
        <4>1. TilePromise(r, i)
          BY <1>2 DEF RequestInv
        <4>2. CASE promise'[r][i] = promise[r][i]
          BY <1>4, <1>5, <1>6, <1>7, <3>1, <4>1, <4>2 DEF TilePromise
        <4>3. CASE i = k /\ Len(promise'[r][i]) = 1
          <5>1. i <= added[r]
            BY <1>2, <4>1, <4>3 DEF TilePromise, Live
          <5>2. \A v \in Workers : ~On(v, <<r, i>>)'
            BY <1>3, <1>6, <4>3
          <5> QED BY <1>3, <1>4, <1>7, <4>3, <5>1, <5>2 DEF TilePromise
        <4> QED BY <1>8, <4>2, <4>3
      <3>4. /\ Unprepared(r)' => Unprepared(r)
            /\ Adding(r)' => Adding(r)
        BY <1>5, <1>6, <1>7 DEF Unprepared, Adding
      <3>5. Unprepared(r)' \/ Adding(r)' => k # Outer /\ k # Collector
        <4>1. Unprepared(r) \/ Adding(r) => k # Collector
          BY <1>2 DEF RequestInv, OuterTask, NotCollecting, Live
        <4>2. k = Outer => ~Unprepared(r)' /\ ~Adding(r)'
          BY <1>3, <1>6, <1>7 DEF Unprepared, Adding
        <4> QED BY <3>4, <4>1, <4>2
      <3>6. k # Outer /\ k # Collector => (NotCollecting(r) => NotCollecting(r)')
        BY <1>9, <3>1 DEF NotCollecting
      <3>7. OuterTask(r)'
        BY <1>2, <1>4, <1>5, <1>6, <3>4, <3>5, <3>6 DEF RequestInv, OuterTask
      <3>8. Collected(r)'
        BY <1>2, <1>4, <1>5, <1>6 DEF RequestInv, Collected
      <3>9. ASSUME <<r, Outer>> \notin cancelled PROVE Told(r)'
        <4>1. /\ Len(delivered[r]) <= 1
              /\ \A v \in Workers :
                  On(v, <<r, Outer>>) /\ at[v] = "finish" /\ ~ok[v] => NotCollecting(r)
              /\ Live(<<r, Collector>>) =>
                  delivered[r] = <<>> /\ added[r] = total[r] /\ total[r] > 0
              /\ HasResult(r) => got[r] = total[r] /\ total[r] > 0
          BY <1>2, <3>9 DEF RequestInv, Told
        <4>2. CASE delivered'[r] = delivered[r] /\ k # Collector
          <5>1. HasResult(r)' <=> HasResult(r)
            BY <4>2 DEF HasResult
          <5>2. NotCollecting(r) => NotCollecting(r)'
            BY <3>1, <4>2 DEF NotCollecting
          <5> QED BY <1>4, <1>5, <1>6, <3>1, <4>1, <4>2, <5>1, <5>2 DEF Told
        <4>3. CASE k = Outer /\ ~ok[w] /\ delivered'[r] = Append(delivered[r], "error")
          <5>1. NotCollecting(r)
            BY <1>1, <1>2, <4>1, <4>3
          <5>2. delivered'[r] = <<"error">> /\ ~Live(<<r, Collector>>)'
            BY <3>1, <4>3, <5>1 DEF NotCollecting
          <5>3. ~HasResult(r)' /\ Len(delivered'[r]) = 1
            BY <5>2 DEF HasResult
          <5>4. \A v \in Workers : ~On(v, <<r, Outer>>)'
            BY <1>3, <1>6, <4>3
          <5> QED BY <5>2, <5>3, <5>4 DEF Told
        <4>4. ASSUME k = Collector,
                     NEW x \in {"error", "result"}, delivered'[r] = Append(delivered[r], x),
                     x = "result" => ok[w]
              PROVE  Told(r)'
          <5>1. Live(<<r, Collector>>)
            BY <1>2, <4>4 DEF Live
          <5>2. delivered'[r] = <<x>> /\ added[r] = total[r] /\ total[r] > 0
            <6>1. delivered[r] = <<>> /\ added[r] = total[r] /\ total[r] > 0
              BY <4>1, <5>1
            <6>2. Append(<<>>, x) = <<x>>
              OBVIOUS
            <6> QED BY <4>4, <6>1, <6>2
          <5>3. Len(delivered'[r]) = 1 /\ (HasResult(r)' => x = "result")
            BY <5>2 DEF HasResult
          <5>4. x = "result" => got[r] = added[r]
            BY <1>1, <1>2, <4>4 DEF RequestInv, Collected
          <5>5. ~Live(<<r, Collector>>)'
            BY <3>1, <4>4
          <5>6. \A v \in Workers : On(v, <<r, Outer>>)' /\ at'[v] = "finish" => ok'[v]
            BY <1>5, <1>6, <4>1, <5>1 DEF NotCollecting
          <5> QED BY <1>4, <5>2, <5>3, <5>4, <5>5, <5>6 DEF Told
        <4> QED BY <1>2, <1>9, <3>9, <4>2, <4>3, <4>4, TaskNames
      <3>10. Told(r)'
        BY <1>4, <3>9 DEF Told
      <3> QED BY <3>2, <3>3, <3>7, <3>8, <3>10 DEF RequestInv
    <2> QED BY <2>1, <2>2
  <1> QED BY <1>10, <1>11, <1>12 DEF PrefetchInv

(* Take: a worker runs the task that it takes from the queue.              *)
LEMMA TakeInv ==
    ASSUME PrefetchAssumption, PrefetchInv, NEW w \in Workers, Take(w)
    PROVE  PrefetchInv'
  <1>1. TypeOK /\ OnePlace /\ at[w] = "idle" /\ queue # <<>> /\ running[w] = NoTask
    BY DEF Take, PrefetchInv, TypeOK
  <1>2. /\ queue' \in Seq(Tasks) /\ Head(queue) \in Tasks /\ Head(queue) \in Queued
        /\ Queued' = Queued \ {Head(queue)}
        /\ \A a, b \in DOMAIN queue' : queue'[a] = queue'[b] => a = b
    BY <1>1, QueueTaken DEF Take
  <1>3. PICK r \in Requests, k \in Outer..Collector :
            /\ Head(queue) = <<r, k>> /\ (k = Outer \/ k = Collector \/ k \in Tiles)
    <2>1. Outer \in Outer..Collector /\ Collector \in Outer..Collector
            /\ Tiles \subseteq Outer..Collector
      BY DEF PrefetchAssumption, Outer, Collector, Tiles
    <2> QED BY <1>2, <2>1, TaskNames
  <1>4. PICK b \in {"finish", "prepare", "check", "fetch"} :
            /\ at' = [at EXCEPT ![w] = b]
            /\ b = "finish" => <<r, k>> \in cancelled
            /\ b = "prepare" => k = Outer
            /\ b = "check" => k = Collector
            /\ b = "fetch" => k \in Tiles
    <2>1. Head(queue)[2] = k
      BY <1>3
    <2> QED BY <1>3, <2>1 DEF Take
  <1>5. /\ running' = [running EXCEPT ![w] = <<r, k>>] /\ ok' = [ok EXCEPT ![w] = FALSE]
        /\ UNCHANGED <<linked, total, added, promise, flag, got, delivered, cancelled, cancels>>
    BY <1>3 DEF Take, requestVars, cancelVars
  <1>6. /\ \A v \in Workers : running'[v] = IF v = w THEN <<r, k>> ELSE running[v]
        /\ \A v \in Workers : at'[v] = IF v = w THEN b ELSE at[v]
        /\ \A v \in Workers : ok'[v] = IF v = w THEN FALSE ELSE ok[v]
    BY <1>1, <1>4, <1>5 DEF TypeOK
  <1>7. \A v \in Workers : running[v] # <<r, k>>
    BY <1>1, <1>2, <1>3 DEF OnePlace
  <1>8. /\ \A v \in Workers : \A q, j :
            On(v, <<q, j>>)' <=> (On(v, <<q, j>>) /\ v # w) \/ (v = w /\ q = r /\ j = k)
        /\ \A q, j : ~On(w, <<q, j>>)
    BY <1>1, <1>6 DEF On, NoTask
  <1>9. TypeOK'
    <2>1. /\ running' \in [Workers -> Tasks \cup {NoTask}]
          /\ at' \in [Workers -> Labels] /\ ok' \in [Workers -> BOOLEAN]
      BY <1>1, <1>2, <1>3, <1>4, <1>5 DEF TypeOK, Labels
    <2>2. \A v \in Workers : at'[v] = "idle" <=> running'[v] = NoTask
      BY <1>1, <1>2, <1>3, <1>6, TaskNames DEF TypeOK
    <2> QED BY <1>1, <1>2, <1>5, <2>1, <2>2 DEF TypeOK
  <1>10. OnePlace'
    BY <1>1, <1>2, <1>3, <1>6, <1>7 DEF OnePlace
  <1>11. ASSUME NEW q \in Requests PROVE RequestInv(q)'
    <2>1. CASE q # r
      <3>1. \A j : <<q, j>> # <<r, k>>
        BY <2>1
      <3>2. \A v \in Workers : \A j : (On(v, <<q, j>>)' <=> On(v, <<q, j>>))
              /\ (On(v, <<q, j>>) => v # w)
        BY <1>8, <2>1
      <3>3. Untouched(q)
        BY <1>2, <1>3, <1>5, <1>6, <3>1, <3>2 DEF Untouched
      <3> QED BY <3>3, UntouchedInv DEF PrefetchInv
    <2>2. RequestInv(r)'
      <3>1. RequestInv(r) /\ <<r, k>> \in Queued /\ Live(<<r, k>>)
        BY <1>2, <1>3 DEF PrefetchInv, Live
      <3>2. \A j : Live(<<r, j>>)' <=> Live(<<r, j>>)
        BY <1>2, <1>3, <1>8 DEF Live
      <3>3. \A v \in Workers : \A j : On(v, <<r, j>>) => v # w /\ at'[v] = at[v] /\ ok'[v] = ok[v]
        BY <1>6, <1>8
      <3>4. OwnSteps(r)'
        <4>1. ASSUME NEW v \in Workers, v # w
              PROVE  /\ On(v, <<r, Outer>>)' => at'[v] \in {"prepare", "loop", "link", "finish"}
                     /\ On(v, <<r, Collector>>)' => at'[v] \in {"check", "get", "finish"}
                     /\ \A i \in Tiles : On(v, <<r, i>>)' => at'[v] \in {"fetch", "finish"}
                     /\ On(v, <<r, Collector>>)' /\ at'[v] = "get" => got'[r] < added'[r]
          BY <1>5, <1>8, <3>1, <3>3, <4>1 DEF RequestInv, OwnSteps
        <4>2. /\ On(w, <<r, Outer>>)' => at'[w] \in {"prepare", "loop", "link", "finish"}
              /\ On(w, <<r, Collector>>)' => at'[w] \in {"check", "get", "finish"}
              /\ \A i \in Tiles : On(w, <<r, i>>)' => at'[w] \in {"fetch", "finish"}
              /\ at'[w] # "get"
          BY <1>4, <1>6, <1>8, TaskNames
        <4> QED BY <4>1, <4>2 DEF OwnSteps
      <3>5. ASSUME NEW i \in Tiles PROVE TilePromise(r, i)'
        <4>1. TilePromise(r, i)
          BY <3>1 DEF RequestInv
        <4>2. CASE i = k
          <5>1. promise[r][i] = <<>>
            BY <3>1, <4>1, <4>2 DEF TilePromise
          <5> QED BY <1>5, <3>2, <4>1, <5>1 DEF TilePromise
        <4>3. CASE i # k
          <5>1. \A v \in Workers : On(v, <<r, i>>)' <=> On(v, <<r, i>>)
            BY <1>8, <4>3
          <5>2. <<r, i>> \in Queued' <=> <<r, i>> \in Queued
            BY <1>2, <1>3, <4>3
          <5> QED BY <1>5, <3>2, <3>3, <4>1, <5>1, <5>2 DEF TilePromise
        <4> QED BY <4>2, <4>3
      <3>6. /\ Unprepared(r)' => Unprepared(r)
            /\ Adding(r)' => Adding(r)
        <4>1. Unprepared(r)' => Unprepared(r)
          BY <1>2, <1>3, <1>6, <1>8, <3>1 DEF Unprepared
        <4>2. Adding(r)' => Adding(r)
          BY <1>4, <1>6, <1>8 DEF Adding
        <4> QED BY <4>1, <4>2
      <3>7. /\ NotCollecting(r)' <=> NotCollecting(r)
            /\ HasResult(r)' <=> HasResult(r)
        BY <1>5, <3>2 DEF NotCollecting, HasResult
      <3>8. OuterTask(r)'
        <4>1. \A v \in Workers : On(v, <<r, Outer>>)' /\ at'[v] = "link" => ok'[v]
          BY <1>4, <1>6, <1>8, <3>1, <3>3 DEF RequestInv, OuterTask
        <4> QED BY <1>5, <3>1, <3>6, <3>7, <4>1 DEF RequestInv, OuterTask
      <3>9. Told(r)'
        <4>1. \A v \in Workers :
                  <<r, Outer>> \notin cancelled /\ On(v, <<r, Outer>>)' /\ at'[v] = "finish" =>
                      On(v, <<r, Outer>>) /\ at[v] = "finish" /\ ok'[v] = ok[v]
          BY <1>4, <1>6, <1>8, <3>3
        <4> QED BY <1>5, <3>1, <3>2, <3>7, <4>1 DEF RequestInv, Told
      <3>10. Collected(r)'
        <4>1. \A v \in Workers :
                  On(v, <<r, Collector>>)' /\ at'[v] = "finish" /\ ok'[v] =>
                      On(v, <<r, Collector>>) /\ at[v] = "finish" /\ ok[v]
          BY <1>4, <1>6, <1>8, <3>3
        <4> QED BY <1>5, <3>1, <4>1 DEF RequestInv, Collected
      <3> QED BY <3>4, <3>5, <3>8, <3>9, <3>10 DEF RequestInv
    <2> QED BY <2>1, <2>2
  <1> QED BY <1>9, <1>10, <1>11 DEF PrefetchInv

(* CancelToken and CancelPending: what is known of a request is known      *)
(* while it is not cancelled.                                              *)
LEMMA CancelInv ==
    ASSUME PrefetchAssumption, PrefetchInv,
           (\E r \in Requests : CancelToken(r)) \/ (\E t \in Tasks : CancelPending(t))
    PROVE  PrefetchInv'
  <1>1. /\ UNCHANGED <<queue, running, at, ok, linked, total, added, promise, flag, got, delivered>>
        /\ cancelled \subseteq cancelled' /\ cancelled' \subseteq Tasks
        /\ cancels < MaxCancels /\ cancels' = cancels + 1
    BY DEF PrefetchInv, TypeOK, CancelToken, CancelPending, workerVars, requestVars
  <1>2. TypeOK'
    BY <1>1 DEF PrefetchInv, TypeOK, PrefetchAssumption
  <1>3. Queued' = Queued /\ OnePlace'
    BY <1>1 DEF PrefetchInv, OnePlace, Queued
  <1>4. ASSUME NEW r \in Requests PROVE RequestInv(r)'
    <2>1. \A k : Live(<<r, k>>)' <=> Live(<<r, k>>)
      BY <1>1, <1>3 DEF Live, On
    <2>2. OwnSteps(r)' /\ Collected(r)'
      BY <1>1 DEF PrefetchInv, RequestInv, OwnSteps, Collected, On
    <2>3. \A i \in Tiles : TilePromise(r, i)'
      BY <1>1, <1>3, <2>1 DEF PrefetchInv, RequestInv, TilePromise, On
    <2>4. /\ Unprepared(r)' <=> Unprepared(r)
          /\ Adding(r)' <=> Adding(r)
          /\ NotCollecting(r)' <=> NotCollecting(r)
          /\ HasResult(r)' <=> HasResult(r)
      BY <1>1, <1>3, <2>1 DEF Unprepared, Adding, NotCollecting, HasResult, On
    <2>5. OuterTask(r)'
      BY <1>1, <2>4 DEF PrefetchInv, RequestInv, OuterTask, On
    <2>6. Told(r)'
      BY <1>1, <2>1, <2>4 DEF PrefetchInv, RequestInv, Told, On
    <2> QED BY <2>2, <2>3, <2>5, <2>6 DEF RequestInv
  <1> QED BY <1>2, <1>3, <1>4 DEF PrefetchInv

-----------------------------------------------------------------------------
(* The theorems of the prefetch *)

(* Every step of a prefetch keeps the invariant.                           *)
THEOREM PrefetchInductive ==
    ASSUME PrefetchAssumption, PrefetchInv, [Next]_vars
    PROVE  PrefetchInv'
  <1>1. ASSUME NEW w \in Workers, Step(w) PROVE PrefetchInv'
    BY <1>1, TakeInv, FinishInv, PrepareInv, AddTileInv, AddCollectorInv, LinkInv, FetchInv,
       CollectInv
    DEF Step
  <1>2. CASE (\E r \in Requests : CancelToken(r)) \/ (\E t \in Tasks : CancelPending(t))
    BY <1>2, CancelInv
  <1>3. CASE UNCHANGED vars
    <2>1. UNCHANGED <<queue, running, at, ok, cancelled, linked, total, added, promise, flag, got,
                      delivered, cancels>>
      BY <1>3 DEF vars, workerVars, requestVars, cancelVars
    <2>2. TypeOK'
      BY <2>1 DEF PrefetchInv, TypeOK
    <2>3. Queued' = Queued /\ OnePlace'
      BY <2>1 DEF PrefetchInv, OnePlace, Queued
    <2>4. ASSUME NEW r \in Requests PROVE RequestInv(r)'
      <3>1. Untouched(r)
        BY <2>1, <2>3 DEF Untouched, On
      <3> QED BY <3>1, UntouchedInv DEF PrefetchInv
    <2> QED BY <2>2, <2>3, <2>4 DEF PrefetchInv
  <1> QED BY <1>1, <1>2, <1>3 DEF Next

(* The invariant implies what TLC checks of the prefetch.                  *)
LEMMA PrefetchInvImplies ==
    ASSUME PrefetchAssumption, PrefetchInv
    PROVE  TypeOK /\ PromiseSetOnce /\ CompleteResult /\ CalledOnceUnlessCancelled
  <1>1. PromiseSetOnce
    BY DEF PrefetchInv, RequestInv, TilePromise, PromiseSetOnce
  <1>2. CompleteResult
    BY DEF PrefetchInv, RequestInv, Told, HasResult, CompleteResult
  <1>3. CalledOnceUnlessCancelled
    BY DEF PrefetchInv, RequestInv, Told, CalledOnceUnlessCancelled
  <1> QED BY <1>1, <1>2, <1>3 DEF PrefetchInv

(* The tasks that are queued at the beginning are the outer tasks of the   *)
(* requests, each once.                                                    *)
LEMMA FirstQueue ==
    ASSUME PrefetchAssumption, NEW q, q = SetToSeq(Requests \X {Outer})
    PROVE  /\ q \in Seq(Requests \X {Outer})
           /\ \A i, j \in DOMAIN q : q[i] = q[j] => i = j
  <1> DEFINE S == Requests \X {Outer}
  <1>1. IsFiniteSet(S)
    BY FS_Singleton, FS_Product
  <1>2. Cardinality(S) \in Nat /\ ExistsBijection(1..Cardinality(S), S)
    BY <1>1, FS_CardinalityType
  <1> HIDE DEF S
  <1>3. \E f \in [1..Cardinality(S) -> S] : IsInjective(f)
    BY <1>2 DEF ExistsBijection, Bijection, Injection, IsInjective
  <1>4. q \in [1..Cardinality(S) -> S] /\ IsInjective(q)
    BY <1>3 DEF SetToSeq, S
  <1>5. PICK n \in Nat : n = Cardinality(S)
    BY <1>2
  <1>6. q \in [1..n -> S]
    BY <1>4, <1>5
  <1>7. q \in Seq(S)
    BY <1>5, <1>6, SeqDef
  <1> QED BY <1>4, <1>7 DEF IsInjective, S

(* PrefetchTiles has been called and nothing has run.                      *)
LEMMA PrefetchFirst ==
    ASSUME PrefetchAssumption, Init
    PROVE  PrefetchInv
  <1>1. queue \in Seq(Requests \X {Outer}) /\ \A i, j \in DOMAIN queue : queue[i] = queue[j]
          => i = j
    BY FirstQueue DEF Init
  <1>2. Queued \subseteq Requests \X {Outer}
    BY <1>1 DEF Queued
  <1>3. Requests \X {Outer} \subseteq Tasks
    BY DEF Tasks, PrefetchAssumption, Outer, Collector
  <1>4. \A w \in Workers : running[w] = NoTask /\ at[w] = "idle"
    BY DEF Init
  <1>5. queue \in Seq(Tasks)
    BY <1>1, <1>3
  <1>6. TypeOK
    <2>1. /\ total \in [Requests -> 0..MaxTiles] /\ added = total /\ got = total
          /\ \A r \in Requests : total[r] = 0
      BY DEF Init, PrefetchAssumption
    <2>2. promise \in [Requests -> [Tiles -> Seq({"data", "error"})]]
          /\ delivered \in [Requests -> Seq({"result", "error"})]
      BY DEF Init
    <2>3. cancels \in 0..MaxCancels
      BY DEF Init, PrefetchAssumption
    <2>4. /\ running \in [Workers -> Tasks \cup {NoTask}] /\ at \in [Workers -> Labels]
          /\ ok \in [Workers -> BOOLEAN] /\ cancelled = {} /\ linked = {} /\ flag = {}
      BY DEF Init, Labels
    <2> QED BY <1>4, <1>5, <2>1, <2>2, <2>3, <2>4 DEF TypeOK
  <1>7. OnePlace
    BY <1>1, <1>2, <1>3, <1>4, TaskNames DEF OnePlace
  <1>8. ASSUME NEW r \in Requests PROVE RequestInv(r)
    <2>1. \A w \in Workers : \A q, k : ~On(w, <<q, k>>)
      BY <1>4 DEF On, NoTask
    <2>2. ~Live(<<r, Collector>>) /\ \A i \in Tiles : ~Live(<<r, i>>)
      BY <1>2, <2>1, TaskNames DEF Live
    <2>3. /\ total[r] = 0 /\ added[r] = 0 /\ got[r] = 0 /\ delivered[r] = <<>>
          /\ \A i \in Tiles : promise[r][i] = <<>>
      BY DEF Init
    <2>4. \A i \in Tiles : TilePromise(r, i)
      BY <2>1, <2>2, <2>3 DEF TilePromise
    <2>5. OwnSteps(r) /\ OuterTask(r) /\ Collected(r)
      BY <2>1, <2>2, <2>3 DEF OwnSteps, OuterTask, Collected, Adding, NotCollecting
    <2>6. ~HasResult(r) /\ Len(delivered[r]) = 0
      BY <2>3 DEF HasResult
    <2>7. Told(r)
      BY <2>1, <2>2, <2>3, <2>6 DEF Told
    <2> QED BY <2>4, <2>5, <2>7 DEF RequestInv
  <1> QED BY <1>6, <1>7, <1>8 DEF PrefetchInv

(* PrefetchTiles, for any number of requests, tiles, workers and           *)
(* cancellations: no promise is set twice, a result holds every tile, and  *)
(* the user is called at most once, unless the request was cancelled.      *)
THEOREM PrefetchSafe ==
    ASSUME PrefetchAssumption
    PROVE  Spec => [](TypeOK /\ PromiseSetOnce /\ CompleteResult /\ CalledOnceUnlessCancelled)
  <1>1. Init => PrefetchInv
    BY PrefetchFirst
  <1>2. PrefetchInv /\ [Next]_vars => PrefetchInv'
    BY PrefetchInductive
  <1>3. PrefetchInv => TypeOK /\ PromiseSetOnce /\ CompleteResult /\ CalledOnceUnlessCancelled
    BY PrefetchInvImplies
  <1> QED BY <1>1, <1>2, <1>3, PTL DEF Spec

(* The steps of the other clients leave the prefetch alone.                *)
LEMMA PrefetchRun ==
    ASSUME PrefetchInv, [MCNext]_all
    PROVE  PrefetchInv'
  <1>1. [Next]_vars
    BY DEF MCNext, all, Prefetch, Stream, Repository
  <1> QED BY <1>1, PrefetchInductive, PrefetchAssumption

(* What of the prefetch the run checks, for any number of requests,        *)
(* workers, tiles and cancellations.                                       *)
THEOREM RunPrefetchExact == MCSpec => []PrefetchExact
  <1>1. MCInit => PrefetchInv
    BY PrefetchFirst, PrefetchAssumption DEF MCInit
  <1>2. PrefetchInv /\ [MCNext]_all => PrefetchInv'
    BY PrefetchRun
  <1>3. PrefetchInv => PrefetchExact
    BY PrefetchInvImplies, PrefetchAssumption DEF PrefetchExact
  <1> QED BY <1>1, <1>2, <1>3, PTL DEF MCSpec

-----------------------------------------------------------------------------
(* The repositories: the inductive invariant                               *)

Fields == {"pc", "request", "option", "todo", "version", "handle", "status", "value", "sent",
           "fromCache", "since"}
Getting(T) == T.pc \in {"get", "ask", "answered"}
Due(T) == Head(T.todo)
HasEnded(T) == T.pc = "done" /\ T.status = "ok"
HasAnswer(T) == T.pc = "answered" /\ T.status = "pending"
Named(T) == <<OfCatalog!Partition, T.version>>

(* What is left of the resources that a request is made of.                *)
OnChain(T) ==
    LET kind == T.request.kind IN
    /\ kind \in OfCatalog!AllKinds
    /\ kind = "catalog" => T.todo = <<"catalog">>
    /\ kind = "latest" => T.todo = <<"version">>
    /\ kind = "versionedPartitions" => T.todo \in {<<"version", "list">>, <<"list">>}
    /\ kind = "volatilePartitions" => T.todo \in {<<"catalog", "list">>, <<"list">>}
    /\ kind = "prefetch" =>
        T.todo \in {<<"version", "quads", "data">>, <<"quads", "data">>, <<"data">>}
    /\ kind = "versionedData" =>
        T.todo \in {<<"version", "partition", "data">>, <<"partition", "data">>, <<"data">>}
    /\ kind = "volatileData" => T.todo \in {<<"partition", "data">>, <<"data">>}
    /\ T.request.version # 0 => Due(T) # "version"

(* FetchOptions: CacheOnly does not go online; OnlineOnly takes nothing    *)
(* from the cache, so that what it gets is not older than its call.        *)
Volatile(T) == T.request.kind \in OfCatalog!VolatileKinds
OptionGood(T) ==
    /\ T.option = "CacheOnly" => ~T.sent /\ T.pc \notin {"ask", "answered"}
    /\ T.option = "OnlineOnly" =>
        /\ ~T.fromCache
        /\ T.version # T.request.version => T.version >= T.since
        /\ HasAnswer(T) /\ (Due(T) = "version" \/ (Due(T) = "data" /\ Volatile(T))) =>
            T.value >= T.since
        /\ HasEnded(T) /\ T.request.kind \in {"latest", "volatileData"} => T.value >= T.since

(* What a service has answered and the task has not yet put in the cache.  *)
AnswerGood(T, last) ==
    HasAnswer(T) =>
        /\ Due(T) = "version" => T.value \in 0..last
        /\ Due(T) = "list" => T.value = {<<p, <<p, T.version>>>> : p \in PartitionIds}
        /\ Due(T) \in {"partition", "quads"} => T.value = {} \/ T.value = {Named(T)}
        /\ Due(T) = "data" /\ ~Volatile(T) => T.value = T.handle[2]

(* All that a task gets is of one version.                                 *)
ByPartition(T) ==
    \/ T.request.kind = "prefetch"
    \/ T.request.kind = "versionedData" /\ T.request.named = "partition"
VersionGood(T) ==
    /\ T.request.version # 0 => T.version = T.request.version
    /\ Getting(T) /\ ByPartition(T) /\ Due(T) = "data" => T.handle = Named(T)
    /\ HasEnded(T) =>
        /\ T.request.kind = "versionedPartitions" => \A x \in T.value : x[2][2] = T.version
        /\ T.request.kind = "versionedData" /\ T.request.named = "partition" => T.value = T.version

(* While the cache is whole, nothing is missing of what a task has got.    *)
WholeGood(T, keys) ==
    /\ HasEnded(T) /\ T.request.kind \in {"versionedPartitions", "volatilePartitions"} =>
        {x[1] : x \in T.value} = PartitionIds
    /\ T.request.kind = "prefetch" /\ (HasEnded(T) \/ (Getting(T) /\ Due(T) = "data")) =>
        <<"partition", "versioned", OfCatalog!Partition, T.version>> \in keys
    /\ T.request.kind = "prefetch" /\ HasEnded(T) =>
        <<"data", "versioned", Named(T)>> \in keys

TaskGood(T, last, keys, whole) ==
    /\ DOMAIN T = Fields /\ T.pc \in OfCatalog!Pcs
    /\ T.pc \in {"none", "done"} <=> T.todo = <<>>
    /\ T.pc = "done" <=> T.status \notin {"pending", "forbidden"}
    /\ T.version \in 0..last /\ T.since \in 0..last /\ T.request.version \in 0..1
    /\ Getting(T) => OnChain(T)
    /\ OptionGood(T) /\ AnswerGood(T, last) /\ VersionGood(T)
    /\ whole => WholeGood(T, keys)

(* The cache holds under each key what belongs there, whichever fetches    *)
(* and prefetches have put it there, and whole lists while it is whole.    *)
EntryGood(k, x, last) ==
    /\ k[1] \in {"api", "catalog", "latestVersion", "partitions", "partition", "data"}
    /\ k[1] = "latestVersion" => x \in 0..last
    /\ k[1] = "partition" => x = <<k[3], k[4]>>
    /\ k[1] = "data" /\ k[2] = "versioned" => x = k[3][2]
    /\ k[1] = "partitions" => x = PartitionIds
WholeList(k, keys) ==
    k[1] = "partitions" => \A p \in PartitionIds : <<"partition", k[2], p, k[3]>> \in keys
CacheGood(entries, last, whole) ==
    \A k \in DOMAIN entries :
        EntryGood(k, entries[k], last) /\ (whole => WholeList(k, DOMAIN entries))

Whole == lost = 0 /\ ~refused
RepositoryInv ==
    /\ latest \in 1..MaxVersion /\ lost \in Nat /\ refused \in BOOLEAN
    /\ DOMAIN task = OfCatalog!Tasks /\ task = [t \in OfCatalog!Tasks |-> task[t]]
    /\ \A t \in OfCatalog!Tasks : TaskGood(task[t], latest, DOMAIN cache, Whole)
    /\ CacheGood(cache, latest, Whole)
    /\ called \in [1..2 -> 0..1] /\ OfCatalog!CalledOnce

-----------------------------------------------------------------------------
(* What becomes of a task *)

(* The sequences of resources of the requests.                             *)
LEMMA Chains ==
    /\ \A a : <<a>> # <<>> /\ Head(<<a>>) = a /\ Len(<<a>>) = 1
    /\ \A a, b : <<a, b>> # <<>> /\ Head(<<a, b>>) = a /\ Len(<<a, b>>) = 2
                 /\ Tail(<<a, b>>) = <<b>>
    /\ \A a, b, c : <<a, b, c>> # <<>> /\ Head(<<a, b, c>>) = a /\ Len(<<a, b, c>>) = 3
                    /\ Tail(<<a, b, c>>) = <<b, c>>
  OBVIOUS

(* The chains of requests that name no version begin with the latest.      *)
LEMMA Joined ==
    /\ \A a, b : <<a>> \o <<b>> = <<a, b>> /\ <<>> \o <<b>> = <<b>>
    /\ \A a, b, c : <<a>> \o <<b, c>> = <<a, b, c>> /\ <<>> \o <<b, c>> = <<b, c>>
  <1>1. ASSUME NEW a, NEW b PROVE <<a>> \o <<b>> = <<a, b>>
    <2>1. <<a>> \in Seq({a, b}) /\ <<b>> \in Seq({a, b}) /\ <<a, b>> \in Seq({a, b})
          /\ Len(<<a>>) = 1 /\ Len(<<b>>) = 1 /\ Len(<<a, b>>) = 2
      OBVIOUS
    <2>2. PICK s : s = <<a>> \o <<b>>
      OBVIOUS
    <2>3. s \in Seq({a, b}) /\ Len(s) = 2 /\ s[1] = a /\ s[2] = b
      BY <2>1, <2>2
    <2>4. PICK u : u = <<a, b>>
      OBVIOUS
    <2>5. u \in Seq({a, b}) /\ Len(u) = 2 /\ u[1] = a /\ u[2] = b
      BY <2>4
    <2>6. \A i \in 1..Len(s) : s[i] = u[i]
      BY <2>3, <2>5
    <2>7. s = u
      BY <2>3, <2>5, <2>6, SeqEqual
    <2> QED BY <2>2, <2>4, <2>7
  <1>2. \A b : <<>> \o <<b>> = <<b>>
    OBVIOUS
  <1>3. ASSUME NEW a, NEW b, NEW c PROVE <<a>> \o <<b, c>> = <<a, b, c>>
    <2>1. <<a>> \in Seq({a, b, c}) /\ <<b, c>> \in Seq({a, b, c}) /\ <<a, b, c>> \in Seq({a, b, c})
          /\ Len(<<a>>) = 1 /\ Len(<<b, c>>) = 2 /\ Len(<<a, b, c>>) = 3
      OBVIOUS
    <2>2. PICK s : s = <<a>> \o <<b, c>>
      OBVIOUS
    <2>3. s \in Seq({a, b, c}) /\ Len(s) = 3 /\ s[1] = a /\ s[2] = b /\ s[3] = c
      BY <2>1, <2>2
    <2>4. PICK u : u = <<a, b, c>>
      OBVIOUS
    <2>5. u \in Seq({a, b, c}) /\ Len(u) = 3 /\ u[1] = a /\ u[2] = b /\ u[3] = c
      BY <2>4
    <2>6. \A i \in 1..Len(s) : s[i] = u[i]
      BY <2>3, <2>5
    <2>7. s = u
      BY <2>3, <2>5, <2>6, SeqEqual
    <2> QED BY <2>2, <2>4, <2>7
  <1>4. \A b, c : <<>> \o <<b, c>> = <<b, c>>
    OBVIOUS
  <1> QED BY <1>1, <1>2, <1>3, <1>4

(* Ended: the task keeps what is known of its fetch's options.             *)
IsEnded(E, T, status) ==
    /\ DOMAIN E = Fields /\ E.pc = "done" /\ E.status = status /\ E.todo = <<>>
    /\ E.option = T.option /\ E.sent = T.sent /\ E.fromCache = T.fromCache
    /\ E.version = 0 /\ E.since = 0 /\ E.request = OfCatalog!Request("none", 0, "nothing")

(* What Ended makes of a task.                                             *)
LEMMA EndedFields ==
    ASSUME NEW T, NEW status
    PROVE  IsEnded(OfCatalog!Ended(T, status), T, status)
  BY DEF IsEnded, OfCatalog!Ended, OfCatalog!NoTask, OfCatalog!Request, OfCatalog!NoVersion, Fields

(* NewTask: what a request starts with.                                    *)
IsNew(N, r, option) ==
    /\ DOMAIN N = Fields /\ N.pc = "get" /\ N.status = "pending" /\ N.todo = OfCatalog!Resources(r)
    /\ N.option = option /\ N.sent = FALSE /\ N.fromCache = FALSE
    /\ N.version = r.version /\ N.since = latest /\ N.request = r

(* What NewTask makes of a request.                                        *)
LEMMA NewFields ==
    ASSUME NEW r, NEW option
    PROVE  IsNew(OfCatalog!NewTask(r, option), r, option)
  BY DEF IsNew, OfCatalog!NewTask, OfCatalog!NoTask, OfCatalog!Request, OfCatalog!NoVersion, Fields

(* Got: the task goes on to the next resource or ends.                     *)
Keeps(G, T, x) ==
    /\ DOMAIN G = Fields
    /\ G.option = T.option /\ G.sent = T.sent /\ G.fromCache = T.fromCache
    /\ G.since = T.since /\ G.request = T.request
    /\ G.version = IF Due(T) = "version" THEN x ELSE T.version
Completes(G, T, x) ==
    /\ Len(T.todo) = 1
    /\ G.pc = "done" /\ G.status = "ok" /\ G.todo = <<>> /\ G.value = x
GoesOn(G, T, x) ==
    /\ Len(T.todo) # 1
    /\ Due(T) \in {"partition", "quads"} => x # {}
    /\ G.pc = "get" /\ G.status = T.status /\ G.todo = Tail(T.todo)
    /\ G.handle = IF Due(T) \in {"partition", "quads"} THEN CHOOSE h \in x : TRUE ELSE T.handle

(* What Got makes of a task.                                               *)
LEMMA GotFields ==
    ASSUME NEW t, NEW T, DOMAIN T = Fields, T.todo = task[t].todo, NEW x,
           NEW G, G = OfCatalog!Got(t, T, x)
    PROVE  \/ G = OfCatalog!Ended(T, "NotFound")
           \/ Keeps(G, T, x) /\ (Completes(G, T, x) \/ GoesOn(G, T, x))
  <1> DEFINE r == Due(T)
             S == CASE r = "version" -> [T EXCEPT !.version = x]
                    [] r \in {"partition", "quads"}
                      /\ x # {} -> [T EXCEPT !.handle = CHOOSE h \in x : TRUE]
                    [] OTHER -> T
  <1>1. Due(T) = OfCatalog!Resource(t)
    BY DEF Due, OfCatalog!Resource
  <1>2. CASE G = OfCatalog!Ended(T, "NotFound")
    BY <1>2
  <1>3. CASE G # OfCatalog!Ended(T, "NotFound")
    <2>1. /\ ~(r \in {"partition", "quads"} /\ x = {})
          /\ G = IF Len(T.todo) = 1
                 THEN [S EXCEPT !.pc = "done", !.status = "ok", !.todo = <<>>, !.handle = <<>>,
                   !.value = x]
                 ELSE [S EXCEPT !.pc = "get", !.todo = Tail(@)]
      BY <1>1, <1>3 DEF OfCatalog!Got
    <2>2. /\ DOMAIN S = Fields /\ S.option = T.option /\ S.sent = T.sent
               /\ S.fromCache = T.fromCache
          /\ S.since = T.since /\ S.request = T.request /\ S.status = T.status /\ S.todo = T.todo
          /\ S.value = T.value
          /\ S.version = IF r = "version" THEN x ELSE T.version
          /\ S.handle = IF r \in {"partition", "quads"} THEN CHOOSE h \in x : TRUE ELSE T.handle
      <3>1. CASE r = "version"
        BY <3>1 DEF Fields
      <3>2. CASE r \in {"partition", "quads"}
        BY <2>1, <3>2 DEF Fields
      <3>3. CASE r \notin {"version", "partition", "quads"}
        BY <3>3 DEF Fields
      <3> QED BY <3>1, <3>2, <3>3
    <2> HIDE DEF S, r
    <2>3. CASE Len(T.todo) = 1
      BY <2>1, <2>2, <2>3 DEF Fields, r, Keeps, Completes
    <2>4. CASE Len(T.todo) # 1
      BY <2>1, <2>2, <2>4 DEF Fields, r, Keeps, GoesOn
    <2> QED BY <2>3, <2>4
  <1> QED BY <1>2, <1>3

(* A task that ends with a failure owes nothing more.                      *)
LEMMA EndedGood ==
    ASSUME NEW T, NEW status, status \notin {"pending", "forbidden", "ok"}, OptionGood(T),
           NEW last \in Nat, NEW keys, NEW whole
    PROVE  TaskGood(OfCatalog!Ended(T, status), last, keys, whole)
  <1>1. PICK E : E = OfCatalog!Ended(T, status)
    OBVIOUS
  <1>2. IsEnded(E, T, status)
    BY <1>1, EndedFields
  <1>3. ~HasEnded(E) /\ ~Getting(E) /\ ~HasAnswer(E)
    BY <1>2 DEF IsEnded, HasEnded, Getting, HasAnswer
  <1>4. OptionGood(E)
    BY <1>2, <1>3 DEF IsEnded, OptionGood
  <1>5. AnswerGood(E, last) /\ VersionGood(E) /\ WholeGood(E, keys)
    BY <1>2, <1>3 DEF IsEnded, AnswerGood, VersionGood, WholeGood, OfCatalog!Request
  <1> QED BY <1>1, <1>2, <1>3, <1>4, <1>5 DEF IsEnded, TaskGood, OfCatalog!Pcs, OfCatalog!Request

(* A later version and more entries of the cache change nothing of what a  *)
(* task has got.                                                           *)
LEMMA GoodLater ==
    ASSUME NEW T, NEW last \in Nat, NEW keys, NEW whole \in BOOLEAN, TaskGood(T, last, keys, whole),
           NEW last2 \in Nat, last <= last2, NEW keys2, NEW whole2 \in BOOLEAN,
           whole2 => whole /\ keys \subseteq keys2
    PROVE  TaskGood(T, last2, keys2, whole2)
  <1>1. AnswerGood(T, last2)
    BY DEF TaskGood, AnswerGood
  <1>2. whole2 => WholeGood(T, keys2)
    BY DEF TaskGood, WholeGood
  <1>3. T.version \in 0..last2 /\ T.since \in 0..last2
    BY DEF TaskGood
  <1> QED BY <1>1, <1>2, <1>3 DEF TaskGood

(* The requests, as a client may make them.                                *)
Requested(r) ==
    \E kind \in OfCatalog!AllKinds, version \in 0..1,
      named \in {"nothing", "partition", "handle", "both"} :
        /\ r = OfCatalog!Request(kind, version, named)
        /\ kind \notin {"versionedData", "volatileData"} => named = "nothing"
        /\ version # 0 => kind \in {"versionedPartitions", "versionedData", "prefetch"}

(* Schedule: a task starts with the resources of its request.              *)
LEMMA NewGood ==
    ASSUME NEW r, Requested(r), NEW option, latest \in Nat \ {0}, NEW keys, NEW whole
    PROVE  TaskGood(OfCatalog!NewTask(r, option), latest, keys, whole)
  <1>1. PICK N : N = OfCatalog!NewTask(r, option)
    OBVIOUS
  <1>2. IsNew(N, r, option)
    BY <1>1, NewFields
  <1>3. PICK kind \in OfCatalog!AllKinds, version \in 0..1,
               named \in {"nothing", "partition", "handle", "both"} :
            /\ r = [kind |-> kind, version |-> version, named |-> named]
            /\ kind \notin {"versionedData", "volatileData"} => named = "nothing"
            /\ version # 0 => kind \in {"versionedPartitions", "versionedData", "prefetch"}
    BY DEF Requested, OfCatalog!Request
  <1>4. r.kind = kind /\ r.version = version /\ r.named = named
    BY <1>3
  <1>5. /\ kind = "catalog" => N.todo = <<"catalog">>
        /\ kind = "latest" => N.todo = <<"version">>
        /\ kind = "versionedPartitions" =>
            N.todo = IF version = 0 THEN <<"version", "list">> ELSE <<"list">>
        /\ kind = "volatilePartitions" => N.todo = <<"catalog", "list">>
        /\ kind = "prefetch" =>
            N.todo = IF version = 0 THEN <<"version", "quads", "data">> ELSE <<"quads", "data">>
        /\ kind = "versionedData" =>
            N.todo = IF named \in {"handle", "both"} THEN <<"data">>
                     ELSE IF version = 0 THEN <<"version", "partition", "data">>
                     ELSE <<"partition", "data">>
        /\ kind = "volatileData" =>
            N.todo = IF named \in {"handle", "both"} THEN <<"data">> ELSE <<"partition", "data">>
    <2>1. OfCatalog!Version(r) = IF version = 0 THEN <<"version">> ELSE <<>>
      BY <1>4 DEF OfCatalog!Version, OfCatalog!NoVersion
    <2>2. /\ OfCatalog!GetVersionedPartitions(r) =
                IF version = 0 THEN <<"version", "list">> ELSE <<"list">>
          /\ OfCatalog!Prefetch(r) =
                IF version = 0 THEN <<"version", "quads", "data">> ELSE <<"quads", "data">>
      BY <2>1, Joined, ZenonT(60) DEF OfCatalog!GetVersionedPartitions, OfCatalog!Prefetch
    <2>3. OfCatalog!GetVersionedData(r) =
                IF named \in {"handle", "both"} THEN <<"data">>
                ELSE IF version = 0 THEN <<"version", "partition", "data">>
                ELSE <<"partition", "data">>
      BY <1>4, <2>1, Joined, ZenonT(60) DEF OfCatalog!GetVersionedData
    <2>4. OfCatalog!GetVolatileData(r) =
                IF named \in {"handle", "both"} THEN <<"data">> ELSE <<"partition", "data">>
      BY <1>4 DEF OfCatalog!GetVolatileData
    <2>5. N.todo = OfCatalog!Resources(r)
      BY <1>2 DEF IsNew
    <2> QED BY <1>4, <2>2, <2>3, <2>4, <2>5 DEF OfCatalog!Resources, OfCatalog!GetVolatilePartitions
  <1>6. N.todo # <<>> /\ OnChain(N)
    <2>1. kind \in {"catalog", "latest", "versionedPartitions", "volatilePartitions", "prefetch",
                    "versionedData", "volatileData"}
      BY DEF OfCatalog!AllKinds
    <2>2. N.request.kind = kind /\ N.request.version = version
      BY <1>2, <1>4 DEF IsNew
    <2>3. N.todo # <<>>
      BY <1>5, <2>1, Chains
    <2>4. version # 0 => Due(N) # "version"
      BY <1>3, <1>5, Chains DEF Due
    <2> QED BY <1>5, <2>2, <2>3, <2>4 DEF OnChain
  <1>7. ~HasEnded(N) /\ ~HasAnswer(N) /\ Getting(N)
    BY <1>2 DEF IsNew, HasEnded, HasAnswer, Getting
  <1>8. OptionGood(N)
    BY <1>2, <1>7 DEF IsNew, OptionGood
  <1>9. ByPartition(N) => Due(N) # "data"
    BY <1>2, <1>4, <1>5, Chains DEF IsNew, ByPartition, Due
  <1>10. N.request.kind = "prefetch" => Due(N) # "data"
    BY <1>9 DEF ByPartition
  <1>11. AnswerGood(N, latest) /\ VersionGood(N) /\ WholeGood(N, keys)
    BY <1>2, <1>7, <1>9, <1>10 DEF IsNew, AnswerGood, VersionGood, WholeGood
  <1>12. N.version \in 0..latest /\ N.since \in 0..latest /\ N.request.version \in 0..1
    BY <1>2, <1>4 DEF IsNew
  <1> QED BY <1>1, <1>2, <1>6, <1>7, <1>8, <1>11, <1>12 DEF IsNew, TaskGood, OfCatalog!Pcs

(* What a task may get of the resource that is due.                        *)
ValueGood(T, x, last, keys, whole) ==
    /\ Due(T) = "version" => x \in 0..last /\ (T.option = "OnlineOnly" => x >= T.since)
    /\ Due(T) = "list" =>
        /\ \A y \in x : y[2][2] = T.version
        /\ whole => {y[1] : y \in x} = PartitionIds
    /\ Due(T) \in {"partition", "quads"} => x = {} \/ x = {Named(T)}
    /\ Due(T) = "quads" /\ x # {} /\ whole =>
        <<"partition", "versioned", OfCatalog!Partition, T.version>> \in keys
    /\ Due(T) = "data" =>
        /\ ~Volatile(T) => x = T.handle[2]
        /\ Volatile(T) /\ T.option = "OnlineOnly" => x >= T.since
        /\ whole /\ T.request.kind = "prefetch" => <<"data", "versioned", T.handle>> \in keys

(* The chain of a task that goes on is the rest of it.                     *)
LEMMA ChainGoesOn ==
    ASSUME NEW T, OnChain(T), T.request.version \in 0..1
    PROVE  /\ T.todo # <<>>
           /\ Len(T.todo) # 1 => Tail(T.todo) # <<>> /\ Head(Tail(T.todo)) # "version"
           /\ Len(T.todo) = 1 =>
                /\ T.request.kind = "latest" => Due(T) = "version"
                /\ T.request.kind \in {"versionedPartitions", "volatilePartitions"}
                     => Due(T) = "list"
                /\ T.request.kind \in {"prefetch", "versionedData", "volatileData"}
                     => Due(T) = "data"
           /\ Len(T.todo) # 1 /\ Head(Tail(T.todo)) = "data" =>
                /\ T.request.kind = "prefetch" => Due(T) = "quads"
                /\ T.request.kind = "versionedData" => Due(T) = "partition"
           /\ T.request.kind \in {"catalog", "versionedPartitions", "volatilePartitions",
                "latest"} =>
                Due(T) # "data"
           /\ Due(T) = "version" => T.request.version = 0
  <1>1. T.request.kind \in {"catalog", "latest", "versionedPartitions", "volatilePartitions",
                            "prefetch", "versionedData", "volatileData"}
    BY DEF OnChain, OfCatalog!AllKinds
  <1>2. T.todo \in {<<"catalog">>, <<"version">>, <<"list">>, <<"data">>, <<"version", "list">>,
                   <<"catalog", "list">>, <<"quads", "data">>, <<"partition", "data">>,
                   <<"version", "quads", "data">>, <<"version", "partition", "data">>}
    BY <1>1 DEF OnChain
  <1>3. CASE T.todo = <<"catalog">>
    <2>1. T.todo # <<>> /\ Due(T) = "catalog" /\ Len(T.todo) = 1
      BY <1>3 DEF Due
    <2> QED BY <1>3, <1>1, <2>1 DEF OnChain
  <1>4. CASE T.todo = <<"version">>
    <2>1. T.todo # <<>> /\ Due(T) = "version" /\ Len(T.todo) = 1
      BY <1>4 DEF Due
    <2> QED BY <1>4, <1>1, <2>1 DEF OnChain
  <1>5. CASE T.todo = <<"list">>
    <2>1. T.todo # <<>> /\ Due(T) = "list" /\ Len(T.todo) = 1
      BY <1>5 DEF Due
    <2> QED BY <1>5, <1>1, <2>1 DEF OnChain
  <1>6. CASE T.todo = <<"data">>
    <2>1. T.todo # <<>> /\ Due(T) = "data" /\ Len(T.todo) = 1
      BY <1>6 DEF Due
    <2> QED BY <1>6, <1>1, <2>1 DEF OnChain
  <1>7. CASE T.todo = <<"version", "list">>
    <2>1. T.todo # <<>> /\ Due(T) = "version" /\ Len(T.todo) = 2
      BY <1>7 DEF Due
    <2>2. Tail(T.todo) = <<"list">> /\ Tail(T.todo) # <<>> /\ Head(Tail(T.todo)) = "list"
      BY <1>7
    <2> QED BY <1>7, <1>1, <2>1, <2>2 DEF OnChain
  <1>8. CASE T.todo = <<"catalog", "list">>
    <2>1. T.todo # <<>> /\ Due(T) = "catalog" /\ Len(T.todo) = 2
      BY <1>8 DEF Due
    <2>2. Tail(T.todo) = <<"list">> /\ Tail(T.todo) # <<>> /\ Head(Tail(T.todo)) = "list"
      BY <1>8
    <2> QED BY <1>8, <1>1, <2>1, <2>2 DEF OnChain
  <1>9. CASE T.todo = <<"quads", "data">>
    <2>1. T.todo # <<>> /\ Due(T) = "quads" /\ Len(T.todo) = 2
      BY <1>9 DEF Due
    <2>2. Tail(T.todo) = <<"data">> /\ Tail(T.todo) # <<>> /\ Head(Tail(T.todo)) = "data"
      BY <1>9
    <2> QED BY <1>9, <1>1, <2>1, <2>2 DEF OnChain
  <1>10. CASE T.todo = <<"partition", "data">>
    <2>1. T.todo # <<>> /\ Due(T) = "partition" /\ Len(T.todo) = 2
      BY <1>10 DEF Due
    <2>2. Tail(T.todo) = <<"data">> /\ Tail(T.todo) # <<>> /\ Head(Tail(T.todo)) = "data"
      BY <1>10
    <2> QED BY <1>10, <1>1, <2>1, <2>2 DEF OnChain
  <1>11. CASE T.todo = <<"version", "quads", "data">>
    <2>1. T.todo # <<>> /\ Due(T) = "version" /\ Len(T.todo) = 3
      BY <1>11 DEF Due
    <2>2. Tail(T.todo) = <<"quads", "data">> /\ Tail(T.todo) # <<>> /\ Head(Tail(T.todo)) = "quads"
      BY <1>11
    <2> QED BY <1>11, <1>1, <2>1, <2>2 DEF OnChain
  <1>12. CASE T.todo = <<"version", "partition", "data">>
    <2>1. T.todo # <<>> /\ Due(T) = "version" /\ Len(T.todo) = 3
      BY <1>12 DEF Due
    <2>2. Tail(T.todo) = <<"partition", "data">> /\ Tail(T.todo) # <<>>
            /\ Head(Tail(T.todo)) = "partition"
      BY <1>12
    <2> QED BY <1>12, <1>1, <2>1, <2>2 DEF OnChain
  <1> QED BY <1>2, <1>3, <1>4, <1>5, <1>6, <1>7, <1>8, <1>9, <1>10, <1>11, <1>12

(* The rest of a chain is a chain of the same request.                     *)
LEMMA RestOfChain ==
    ASSUME NEW T, OnChain(T), T.request.version \in 0..1, Len(T.todo) # 1,
           NEW G, G.todo = Tail(T.todo), G.request = T.request
    PROVE  OnChain(G)
  <1>1. T.request.kind \in {"catalog", "latest", "versionedPartitions", "volatilePartitions",
                            "prefetch", "versionedData", "volatileData"}
    BY DEF OnChain, OfCatalog!AllKinds
  <1>2. T.todo \in {<<"version", "list">>, <<"catalog", "list">>, <<"quads", "data">>,
                   <<"partition", "data">>, <<"version", "quads", "data">>,
                   <<"version", "partition", "data">>} \/ Len(T.todo) = 1
    <2>1. \A a : Len(<<a>>) = 1
      OBVIOUS
    <2> QED BY <1>1, <2>1 DEF OnChain
  <1>3. Due(G) # "version"
    BY ChainGoesOn DEF Due
  <1>4. CASE T.todo = <<"version", "list">>
    <2>1. G.todo = <<"list">>
      BY <1>4
    <2> QED BY <1>1, <1>3, <1>4, <2>1 DEF OnChain
  <1>5. CASE T.todo = <<"catalog", "list">>
    <2>1. G.todo = <<"list">>
      BY <1>5
    <2> QED BY <1>1, <1>3, <1>5, <2>1 DEF OnChain
  <1>6. CASE T.todo = <<"quads", "data">>
    <2>1. G.todo = <<"data">>
      BY <1>6
    <2> QED BY <1>1, <1>3, <1>6, <2>1 DEF OnChain
  <1>7. CASE T.todo = <<"partition", "data">>
    <2>1. G.todo = <<"data">>
      BY <1>7
    <2> QED BY <1>1, <1>3, <1>7, <2>1 DEF OnChain
  <1>8. CASE T.todo = <<"version", "quads", "data">>
    <2>1. G.todo = <<"quads", "data">>
      BY <1>8
    <2> QED BY <1>1, <1>3, <1>8, <2>1 DEF OnChain
  <1>9. CASE T.todo = <<"version", "partition", "data">>
    <2>1. G.todo = <<"partition", "data">>
      BY <1>9
    <2> QED BY <1>1, <1>3, <1>9, <2>1 DEF OnChain
  <1> QED BY <1>2, <1>4, <1>5, <1>6, <1>7, <1>8, <1>9

(* Got: whatever the task goes on to or ends with is good.                 *)
LEMMA GotGood ==
    ASSUME NEW t, NEW T, NEW x, NEW last \in Nat, NEW keys, NEW whole \in BOOLEAN,
           TaskGood(T, last, keys, whole), Getting(T), T.todo = task[t].todo,
           ValueGood(T, x, last, keys, whole)
    PROVE  TaskGood(OfCatalog!Got(t, T, x), last, keys, whole)
  <1>1. PICK G : G = OfCatalog!Got(t, T, x)
    OBVIOUS
  <1>2. /\ DOMAIN T = Fields /\ OnChain(T) /\ OptionGood(T) /\ VersionGood(T)
        /\ whole => WholeGood(T, keys)
        /\ T.version \in 0..last /\ T.since \in 0..last /\ T.request.version \in 0..1
        /\ T.status \in {"pending", "forbidden"}
    BY DEF TaskGood, Getting
  <1>3. CASE G = OfCatalog!Ended(T, "NotFound")
    BY <1>1, <1>2, <1>3, EndedGood
  <1>4. ASSUME Keeps(G, T, x)
        PROVE  /\ G.version \in 0..last
               /\ G.option = "OnlineOnly" =>
                    ~G.fromCache /\ (G.version # G.request.version => G.version >= G.since)
               /\ G.option = "CacheOnly" => ~G.sent
               /\ G.request.version # 0 => G.version = G.request.version
               /\ Volatile(G) <=> Volatile(T)
    <2>1. G.version \in 0..last
      BY <1>2, <1>4 DEF ValueGood, Keeps
    <2>2. G.option = "OnlineOnly" =>
              ~G.fromCache /\ (G.version # G.request.version => G.version >= G.since)
      BY <1>2, <1>4 DEF ValueGood, OptionGood, Keeps
    <2>3. G.option = "CacheOnly" => ~G.sent
      BY <1>2, <1>4 DEF OptionGood, Keeps
    <2>4. G.request.version # 0 => G.version = G.request.version
      BY <1>2, <1>4, ChainGoesOn DEF VersionGood, Keeps
    <2>5. Volatile(G) <=> Volatile(T)
      BY <1>4 DEF Volatile, Keeps
    <2> QED BY <2>1, <2>2, <2>3, <2>4, <2>5
  <1>5. ASSUME Keeps(G, T, x), Completes(G, T, x)
        PROVE  TaskGood(G, last, keys, whole)
    <2>10. /\ DOMAIN G = Fields
           /\ G.option = T.option /\ G.sent = T.sent /\ G.fromCache = T.fromCache
           /\ G.since = T.since /\ G.request = T.request
           /\ G.version = IF Due(T) = "version" THEN x ELSE T.version
           /\ Len(T.todo) = 1 /\ G.pc = "done" /\ G.status = "ok" /\ G.todo = <<>> /\ G.value = x
      BY <1>5 DEF Keeps, Completes
    <2>1. HasEnded(G) /\ ~Getting(G) /\ ~HasAnswer(G)
      BY <2>10 DEF HasEnded, Getting, HasAnswer
    <2>2. G.option = "OnlineOnly" /\ G.request.kind \in {"latest", "volatileData"} => x >= G.since
      BY <1>2, <2>10, ChainGoesOn DEF ValueGood, Volatile, OfCatalog!VolatileKinds
    <2>3. OptionGood(G)
      BY <1>4, <1>5, <2>10, <2>1, <2>2 DEF OptionGood
    <2>4. G.request.kind = "versionedPartitions" => \A y \in x : y[2][2] = G.version
      BY <1>2, <2>10, ChainGoesOn DEF ValueGood
    <2>5. G.request.kind = "versionedData" /\ G.request.named = "partition" => x = G.version
      <3>1. ASSUME G.request.kind = "versionedData", G.request.named = "partition"
            PROVE  x = G.version
        <4>1. Due(T) = "data" /\ ~Volatile(T) /\ ByPartition(T)
          BY <1>2, <2>10, <3>1, ChainGoesOn DEF Volatile, OfCatalog!VolatileKinds, ByPartition
        <4>2. x = T.handle[2] /\ T.handle = Named(T) /\ G.version = T.version
          BY <1>2, <2>10, <4>1 DEF ValueGood, VersionGood
        <4> QED BY <4>2 DEF Named
      <3> QED BY <3>1
    <2>6. VersionGood(G)
      BY <1>4, <1>5, <2>10, <2>1, <2>4, <2>5 DEF VersionGood
    <2>7. ASSUME whole PROVE WholeGood(G, keys)
      <3>1. G.request.kind \in {"versionedPartitions", "volatilePartitions"} =>
                {y[1] : y \in x} = PartitionIds
        BY <1>2, <2>10, <2>7, ChainGoesOn DEF ValueGood
      <3>2. ASSUME G.request.kind = "prefetch"
            PROVE  /\ <<"partition", "versioned", OfCatalog!Partition, G.version>> \in keys
                   /\ <<"data", "versioned", Named(G)>> \in keys
        <4>1. Due(T) = "data" /\ ByPartition(T) /\ T.request.kind = "prefetch"
          BY <1>2, <2>10, <3>2, ChainGoesOn DEF ByPartition
        <4>2. T.handle = Named(T) /\ G.version = T.version /\ Named(G) = Named(T)
          BY <1>2, <2>10, <4>1 DEF VersionGood, Named
        <4>3. <<"partition", "versioned", OfCatalog!Partition, T.version>> \in keys
          BY <1>2, <2>7, <4>1 DEF WholeGood
        <4>4. <<"data", "versioned", T.handle>> \in keys
          BY <2>7, <4>1 DEF ValueGood
        <4> QED BY <4>2, <4>3, <4>4
      <3> QED BY <2>10, <2>1, <3>1, <3>2 DEF WholeGood
    <2>8. AnswerGood(G, last)
      BY <2>1 DEF AnswerGood
    <2> QED BY <1>2, <1>4, <1>5, <2>10, <2>1, <2>3, <2>6, <2>7, <2>8 DEF TaskGood, OfCatalog!Pcs
  <1>6. ASSUME Keeps(G, T, x), GoesOn(G, T, x)
        PROVE  TaskGood(G, last, keys, whole)
    <2>10. /\ DOMAIN G = Fields
           /\ G.option = T.option /\ G.sent = T.sent /\ G.fromCache = T.fromCache
           /\ G.since = T.since /\ G.request = T.request
           /\ G.version = IF Due(T) = "version" THEN x ELSE T.version
           /\ Due(T) \in {"partition", "quads"} => x # {}
           /\ Len(T.todo) # 1 /\ G.pc = "get" /\ G.status = T.status /\ G.todo = Tail(T.todo)
           /\ G.handle = IF Due(T) \in {"partition", "quads"} THEN CHOOSE h \in x : TRUE
                         ELSE T.handle
      BY <1>6 DEF Keeps, GoesOn
    <2>1. ~HasEnded(G) /\ Getting(G) /\ ~HasAnswer(G)
      BY <2>10 DEF HasEnded, Getting, HasAnswer
    <2>2. OnChain(G) /\ G.todo # <<>>
      BY <1>2, <2>10, ChainGoesOn, RestOfChain
    <2>3. OptionGood(G)
      BY <1>4, <1>6, <2>10, <2>1 DEF OptionGood
    <2>4. ASSUME ByPartition(G), Due(G) = "data"
          PROVE  G.handle = Named(G) /\ Due(T) \in {"partition", "quads"} /\ G.version = T.version
      <3>1. Due(T) \in {"partition", "quads"}
        BY <1>2, <2>10, <2>4, ChainGoesOn DEF ByPartition, Due
      <3>2. x = {Named(T)} /\ G.version = T.version
        BY <2>10, <3>1 DEF ValueGood
      <3>3. G.handle = Named(T)
        BY <2>10, <3>1, <3>2
      <3> QED BY <3>1, <3>2, <3>3 DEF Named
    <2>5. VersionGood(G)
      BY <1>4, <1>6, <2>10, <2>1, <2>4 DEF VersionGood
    <2>6. ASSUME whole, G.request.kind = "prefetch", Due(G) = "data"
          PROVE  <<"partition", "versioned", OfCatalog!Partition, G.version>> \in keys
      <3>1. Due(T) = "quads" /\ x # {}
        BY <1>2, <2>10, <2>6, ChainGoesOn DEF Due
      <3>2. G.version = T.version
        BY <2>10, <3>1
      <3> QED BY <2>6, <3>1, <3>2 DEF ValueGood
    <2>7. whole => WholeGood(G, keys)
      BY <2>1, <2>6 DEF WholeGood
    <2>8. AnswerGood(G, last)
      BY <2>1 DEF AnswerGood
    <2> QED BY <1>2, <1>4, <1>6, <2>10, <2>1, <2>2, <2>3, <2>5, <2>7, <2>8 DEF TaskGood,
       OfCatalog!Pcs
  <1> QED BY <1>1, <1>2, <1>3, <1>5, <1>6, GotFields

-----------------------------------------------------------------------------
(* The cache *)

(* Entries are written over or added, and belong where they are put.       *)
Stored(keys, last, whole) ==
    /\ DOMAIN cache' = keys \cup DOMAIN cache
    /\ \A k \in DOMAIN cache \ keys : cache'[k] = cache[k]
    /\ \A k \in keys : EntryGood(k, cache'[k], last) /\ (whole => WholeList(k, DOMAIN cache'))

(* Put and PutPartitions leave a good cache good.                          *)
LEMMA StoredGood ==
    ASSUME NEW keys, NEW last, NEW whole \in BOOLEAN, CacheGood(cache, last, whole),
           Stored(keys, last, whole)
    PROVE  CacheGood(cache', last, whole)
  <1>1. ASSUME NEW k \in DOMAIN cache'
        PROVE  EntryGood(k, cache'[k], last) /\ (whole => WholeList(k, DOMAIN cache'))
    <2>1. CASE k \in keys
      BY <2>1 DEF Stored
    <2>2. CASE k \notin keys
      <3>1. k \in DOMAIN cache /\ cache'[k] = cache[k] /\ DOMAIN cache \subseteq DOMAIN cache'
        BY <1>1, <2>2 DEF Stored
      <3>2. EntryGood(k, cache[k], last) /\ (whole => WholeList(k, DOMAIN cache))
        BY <3>1 DEF CacheGood
      <3>3. WholeList(k, DOMAIN cache) => WholeList(k, DOMAIN cache')
        BY <3>1 DEF WholeList
      <3> QED BY <3>1, <3>2, <3>3
    <2> QED BY <2>1, <2>2
  <1> QED BY <1>1 DEF CacheGood

(* Put: one entry, not a list.                                             *)
LEMMA PutStores ==
    ASSUME NEW k, NEW x, OfCatalog!Put(k, x), NEW last, NEW whole \in BOOLEAN,
           EntryGood(k, x, last), k[1] # "partitions"
    PROVE  Stored({k}, last, whole)
  <1>1. /\ DOMAIN cache' = {k} \cup DOMAIN cache
        /\ \A j \in DOMAIN cache' : cache'[j] = IF j = k THEN x ELSE cache[j]
    BY DEF OfCatalog!Put
  <1>2. WholeList(k, DOMAIN cache')
    BY DEF WholeList
  <1> QED BY <1>1, <1>2 DEF Stored

(* PutPartitions: partitions of one version, with their list if it is of   *)
(* the whole layer.                                                        *)
LEMMA PutPartitionsStores ==
    ASSUME NEW l, NEW v, NEW ids, NEW parts, parts = {<<p, <<p, v>>>> : p \in ids},
           NEW allLayer \in BOOLEAN, OfCatalog!PutPartitions(l, v, parts, allLayer),
           allLayer => ids = PartitionIds, NEW last, NEW whole \in BOOLEAN
    PROVE  /\ \E keys : Stored(keys, last, whole)
           /\ \A p \in ids : <<"partition", l, p, v>> \in DOMAIN cache'
  <1> DEFINE keys == {<<"partition", l, p, v>> : p \in ids}
                     \cup (IF allLayer THEN {<<"partitions", l, v>>} ELSE {})
             HandleOf(p) == CHOOSE h \in {<<q, v>> : q \in ids} : h[1] = p
             Cache(is, hs) ==
                LET all_keys == {<<"partition", l, p, v>> : p \in is}
                                \cup (IF allLayer THEN {<<"partitions", l, v>>} ELSE {}) IN
                [k \in all_keys \cup DOMAIN cache |->
                    IF k \notin all_keys THEN cache[k]
                    ELSE IF k = <<"partitions", l, v>> THEN is
                    ELSE CHOOSE h \in hs : h[1] = k[3]]
  <1>1. {x[1] : x \in parts} = ids
    <2>1. ASSUME NEW y \in parts PROVE y[1] \in ids
      <3>1. PICK p \in ids : y = <<p, <<p, v>>>>
        BY <2>1
      <3> QED BY <3>1
    <2>2. ASSUME NEW p \in ids PROVE \E y \in parts : y[1] = p
      <3>1. PICK y : y = <<p, <<p, v>>>>
        OBVIOUS
      <3> QED BY <3>1
    <2> HIDE DEF Cache, keys, HandleOf
    <2> QED BY <2>1, <2>2
  <1>2. {x[2] : x \in parts} = {<<p, v>> : p \in ids}
    <2>1. ASSUME NEW y \in parts PROVE y[2] \in {<<p, v>> : p \in ids}
      <3>1. PICK p \in ids : y = <<p, <<p, v>>>>
        BY <2>1
      <3> QED BY <3>1
    <2>2. ASSUME NEW p \in ids PROVE \E y \in parts : y[2] = <<p, v>>
      <3>1. PICK y : y = <<p, <<p, v>>>>
        OBVIOUS
      <3> QED BY <3>1
    <2> HIDE DEF Cache, keys, HandleOf
    <2>3. ASSUME NEW h PROVE h \in {x[2] : x \in parts} <=> h \in {<<p, v>> : p \in ids}
      BY <2>1, <2>2
    <2> QED BY <2>3
  <1>11. cache' = Cache({x[1] : x \in parts}, {x[2] : x \in parts})
    BY DEF OfCatalog!PutPartitions, OfCatalog!PartitionKey, OfCatalog!ListKey
  <1>12. cache' = Cache(ids, {<<p, v>> : p \in ids})
    <2> HIDE DEF Cache
    <2> QED BY <1>1, <1>2, <1>11
  <1>3. cache' = [k \in keys \cup DOMAIN cache |->
                    IF k \notin keys THEN cache[k]
                    ELSE IF k = <<"partitions", l, v>> THEN ids ELSE HandleOf(k[3])]
    BY <1>12
  <1> HIDE DEF Cache
  <1>4. ASSUME NEW p \in ids PROVE HandleOf(p) = <<p, v>>
    <2>1. \E h \in {<<q, v>> : q \in ids} : h[1] = p
      <3>1. PICK h : h = <<p, v>>
        OBVIOUS
      <3>2. h \in {<<q, v>> : q \in ids} /\ h[1] = p
        BY <3>1
      <3> QED BY <3>2
    <2>2. HandleOf(p) \in {<<q, v>> : q \in ids} /\ HandleOf(p)[1] = p
      BY <2>1
    <2> QED BY <2>2
  <1> HIDE DEF HandleOf
  <1>5. DOMAIN cache' = keys \cup DOMAIN cache
          /\ \A k \in DOMAIN cache \ keys : cache'[k] = cache[k]
    BY <1>3
  <1>6. ASSUME NEW p \in ids
        PROVE  LET k == <<"partition", l, p, v>> IN
               k \in keys /\ EntryGood(k, cache'[k], last) /\ WholeList(k, DOMAIN cache')
    <2>1. PICK k : k = <<"partition", l, p, v>>
      OBVIOUS
    <2>2. k \in keys /\ k[1] = "partition" /\ k[3] = p /\ k[4] = v
      BY <2>1
    <2>3. k # <<"partitions", l, v>>
      BY <2>2
    <2>4. cache'[k] = HandleOf(p)
      BY <1>3, <2>2, <2>3
    <2> QED BY <1>4, <2>1, <2>2, <2>4 DEF EntryGood, WholeList
  <1>7. ASSUME allLayer
        PROVE  LET k == <<"partitions", l, v>> IN
               EntryGood(k, cache'[k], last) /\ WholeList(k, DOMAIN cache')
    <2>1. PICK k : k = <<"partitions", l, v>>
      OBVIOUS
    <2>2. k \in keys /\ k[1] = "partitions" /\ k[2] = l /\ k[3] = v
      BY <1>7, <2>1
    <2>3. cache'[k] = PartitionIds
      BY <1>3, <1>7, <2>1, <2>2
    <2>4. \A p \in PartitionIds : <<"partition", l, p, v>> \in keys
      BY <1>7
    <2> HIDE DEF keys
    <2> QED BY <1>5, <2>1, <2>2, <2>3, <2>4 DEF EntryGood, WholeList
  <1>8. ASSUME NEW k \in keys
        PROVE  EntryGood(k, cache'[k], last) /\ (whole => WholeList(k, DOMAIN cache'))
    <2>1. CASE \E p \in ids : k = <<"partition", l, p, v>>
      BY <1>6, <2>1
    <2>2. CASE allLayer /\ k = <<"partitions", l, v>>
      BY <1>7, <2>2
    <2> QED BY <1>8, <2>1, <2>2
  <1>9. Stored(keys, last, whole)
    BY <1>5, <1>8 DEF Stored
  <1>10. \A p \in ids : <<"partition", l, p, v>> \in DOMAIN cache'
    BY <1>5
  <1> QED BY <1>9, <1>10

(* Forget: what is left is good, though no longer whole.                   *)
LEMMA ForgetGood ==
    ASSUME NEW keys, OfCatalog!Forget(keys), NEW last, NEW whole, CacheGood(cache, last, whole)
    PROVE  CacheGood(cache', last, FALSE)
  <1>1. /\ DOMAIN cache' = DOMAIN cache \ keys
        /\ \A k \in DOMAIN cache' : cache'[k] = cache[k]
    BY DEF OfCatalog!Forget, OfCatalog!Restrict
  <1> QED BY <1>1 DEF CacheGood

-----------------------------------------------------------------------------
(* The steps of a task *)

(* Layer: prefetch and the versioned kinds are of the versioned layer.     *)
LEMMA LayerOf ==
    ASSUME NEW t
    PROVE  /\ Volatile(task[t]) => OfCatalog!Layer(t) = "volatile"
           /\ ~Volatile(task[t]) => OfCatalog!Layer(t) = "versioned"
           /\ task[t].request.kind = "prefetch" => ~Volatile(task[t])
  BY DEF OfCatalog!Layer, Volatile, OfCatalog!VolatileKinds

(* Found: what the cache holds under a key.                                *)
LEMMA FoundHolds ==
    ASSUME NEW k, NEW x \in OfCatalog!Found(k)
    PROVE  k \in DOMAIN cache /\ x = cache[k]
  BY DEF OfCatalog!Found

(* What a task finds in the cache belongs to what it looks for.            *)
LEMMA FoundGood ==
    ASSUME NEW t, NEW T, T = task[t], NEW last \in Nat, NEW whole \in BOOLEAN,
           OnChain(T), VersionGood(T), Getting(T), T.option # "OnlineOnly",
           CacheGood(cache, last, whole), NEW x \in OfCatalog!Function(t).found
    PROVE  ValueGood(T, x, last, DOMAIN cache, whole)
  <1>1. OfCatalog!Resource(t) = Due(T)
    BY DEF OfCatalog!Resource, Due
  <1>2. Due(T) \in {"catalog", "version", "list", "partition", "quads", "data"}
    <2>1. T.request.kind \in {"catalog", "latest", "versionedPartitions", "volatilePartitions",
                              "prefetch", "versionedData", "volatileData"}
      BY DEF OnChain, OfCatalog!AllKinds
    <2> QED BY <2>1, Chains DEF OnChain, Due
  <1>3. CASE Due(T) = "catalog"
    BY <1>3 DEF ValueGood
  <1>4. CASE Due(T) = "version"
    <2>1. x \in OfCatalog!Found(<<"latestVersion">>)
      BY <1>1, <1>4 DEF OfCatalog!Function, OfCatalog!GetLatestVersion, OfCatalog!VersionKey
    <2>2. PICK k : k = <<"latestVersion">>
      OBVIOUS
    <2>3. k \in DOMAIN cache /\ x = cache[k] /\ k[1] = "latestVersion"
      BY <2>1, <2>2, FoundHolds
    <2>4. x \in 0..last
      BY <2>3 DEF CacheGood, EntryGood
    <2> QED BY <1>4, <2>4 DEF ValueGood
  <1>5. CASE Due(T) = "list"
    <2> DEFINE l == OfCatalog!Layer(t)
               Some(ids) == {<<p, cache[<<"partition", l, p, T.version>>]>> :
                    p \in {q \in ids : <<"partition", l, q, T.version>> \in DOMAIN cache}}
    <2>1. x \in OfCatalog!FoundPartitions(l, T.version)
      BY <1>1, <1>5 DEF OfCatalog!Function, OfCatalog!GetPartitions
    <2>2. x \in {Some(ids) : ids \in OfCatalog!Found(<<"partitions", l, T.version>>)}
      BY <2>1 DEF OfCatalog!FoundPartitions, OfCatalog!ListKey, OfCatalog!PartitionKey
    <2>3. PICK k : k = <<"partitions", l, T.version>>
      OBVIOUS
    <2>4. k \in DOMAIN cache /\ x = Some(cache[k])
      BY <2>2, <2>3, FoundHolds
    <2>5. k[1] = "partitions" /\ k[2] = l /\ k[3] = T.version
      BY <2>3
    <2>6. EntryGood(k, cache[k], last) /\ (whole => WholeList(k, DOMAIN cache))
      BY <2>4 DEF CacheGood
    <2>7. x = Some(PartitionIds)
      BY <2>4, <2>5, <2>6 DEF EntryGood
    <2>8. ASSUME NEW y \in x
          PROVE  y[2][2] = T.version /\ y[1] \in PartitionIds
      <3>1. PICK p \in PartitionIds :
                /\ <<"partition", l, p, T.version>> \in DOMAIN cache
                /\ y = <<p, cache[<<"partition", l, p, T.version>>]>>
        BY <2>7, <2>8
      <3>2. PICK j : j = <<"partition", l, p, T.version>>
        OBVIOUS
      <3>3. j \in DOMAIN cache /\ y = <<p, cache[j]>> /\ j[1] = "partition" /\ j[3] = p
              /\ j[4] = T.version
        BY <3>1, <3>2
      <3>4. cache[j] = <<p, T.version>>
        BY <3>3 DEF CacheGood, EntryGood
      <3>5. y = <<p, <<p, T.version>>>>
        BY <3>3, <3>4
      <3> QED BY <3>5
    <2>9. ASSUME whole, NEW p \in PartitionIds PROVE \E y \in x : y[1] = p
      <3>1. <<"partition", l, p, T.version>> \in DOMAIN cache
        BY <2>5, <2>6, <2>9 DEF WholeList
      <3>2. PICK y : y = <<p, cache[<<"partition", l, p, T.version>>]>>
        OBVIOUS
      <3>3. y \in x /\ y[1] = p
        BY <2>7, <3>1, <3>2
      <3> QED BY <3>3
    <2> HIDE DEF Some, l
    <2>10. whole => {y[1] : y \in x} = PartitionIds
      BY <2>8, <2>9
    <2> QED BY <1>5, <2>8, <2>10 DEF ValueGood
  <1>6. CASE Due(T) = "partition"
    <2>1. x \in OfCatalog!FoundPartition(OfCatalog!Layer(t), OfCatalog!Partition, T.version)
      BY <1>1, <1>6 DEF OfCatalog!Function, OfCatalog!GetPartitionById
    <2>2. PICK k : k = <<"partition", OfCatalog!Layer(t), OfCatalog!Partition, T.version>>
      OBVIOUS
    <2>3. PICK h \in OfCatalog!Found(k) : x = {h}
      BY <2>1, <2>2 DEF OfCatalog!FoundPartition, OfCatalog!PartitionKey
    <2>4. k \in DOMAIN cache /\ h = cache[k] /\ k[1] = "partition" /\ k[3] = OfCatalog!Partition
          /\ k[4] = T.version
      BY <2>2, <2>3, FoundHolds
    <2>5. h = Named(T)
      BY <2>4 DEF CacheGood, EntryGood, Named
    <2> QED BY <1>6, <2>3, <2>5 DEF ValueGood
  <1>7. CASE Due(T) = "quads"
    BY <1>1, <1>7 DEF OfCatalog!Function, OfCatalog!GetSubQuads
  <1>8. CASE Due(T) = "data"
    <2>1. x \in OfCatalog!Found(<<"data", OfCatalog!Layer(t), T.handle>>)
      BY <1>1, <1>8 DEF OfCatalog!Function, OfCatalog!GetBlobData, OfCatalog!DataKey
    <2>2. PICK k : k = <<"data", OfCatalog!Layer(t), T.handle>>
      OBVIOUS
    <2>3. k \in DOMAIN cache /\ x = cache[k] /\ k[1] = "data" /\ k[2] = OfCatalog!Layer(t)
          /\ k[3] = T.handle
      BY <2>1, <2>2, FoundHolds
    <2>4. ~Volatile(T) => x = T.handle[2]
      BY <2>3, LayerOf DEF CacheGood, EntryGood
    <2>5. T.request.kind = "prefetch" => <<"data", "versioned", T.handle>> \in DOMAIN cache
      BY <2>2, <2>3, LayerOf
    <2> QED BY <1>8, <2>4, <2>5 DEF ValueGood
  <1> QED BY <1>2, <1>3, <1>4, <1>5, <1>6, <1>7, <1>8

(* What a service answers is of the version that is asked for, and not     *)
(* older than the request.                                                 *)
LEMMA AnswersGood ==
    ASSUME NEW t, NEW T, T = task[t], latest \in Nat, OnChain(T), T.since \in 0..latest,
           NEW x \in OfCatalog!Function(t).answers
    PROVE  /\ Due(T) = "version" => x \in 0..latest
           /\ Due(T) = "list" => x = {<<p, <<p, T.version>>>> : p \in PartitionIds}
           /\ Due(T) \in {"partition", "quads"} => x = {} \/ x = {Named(T)}
           /\ Due(T) = "data" /\ ~Volatile(T) => x = T.handle[2]
           /\ Due(T) = "version" \/ (Due(T) = "data" /\ Volatile(T)) => x >= T.since
  <1>1. OfCatalog!Resource(t) = Due(T)
    BY DEF OfCatalog!Resource, Due
  <1>2. CASE Due(T) = "version"
    <2>1. x = latest
      BY <1>1, <1>2 DEF OfCatalog!Function, OfCatalog!GetLatestVersion,
                        OfCatalog!GetLatestCatalogVersionAnswers
    <2> QED BY <1>2, <2>1
  <1>3. CASE Due(T) = "list"
    <2>1. x = {<<p, <<p, T.version>>>> : p \in PartitionIds}
      BY <1>1, <1>3 DEF OfCatalog!Function, OfCatalog!GetPartitions,
                        OfCatalog!GetPartitionsAnswers, OfCatalog!Handle
    <2> QED BY <1>3, <2>1
  <1>4. CASE Due(T) = "partition"
    <2>1. x = {} \/ x = {Named(T)}
      BY <1>1, <1>4 DEF OfCatalog!Function, OfCatalog!GetPartitionById,
                        OfCatalog!GetPartitionsbyIdAnswers, OfCatalog!Handle, Named
    <2> QED BY <1>4, <2>1
  <1>5. CASE Due(T) = "quads"
    <2>1. x = {} \/ x = {Named(T)}
      BY <1>1, <1>5 DEF OfCatalog!Function, OfCatalog!GetSubQuads,
                        OfCatalog!QuadTreeIndexAnswers, OfCatalog!Handle, Named
    <2> QED BY <1>5, <2>1
  <1>6. CASE Due(T) = "data"
    <2>1. x \in IF OfCatalog!Layer(t) = "volatile" THEN {latest} ELSE {T.handle[2]}
      BY <1>1, <1>6 DEF OfCatalog!Function, OfCatalog!GetBlobData,
                        OfCatalog!GetVolatileBlobAnswers, OfCatalog!GetBlobAnswers
    <2>2. (Volatile(T) => x = latest) /\ (~Volatile(T) => x = T.handle[2])
      BY <2>1, LayerOf
    <2> QED BY <1>6, <2>2
  <1> QED BY <1>2, <1>3, <1>4, <1>5, <1>6

-----------------------------------------------------------------------------
(* The invariant is kept by every step *)

(* The user's task and the one that updates the cache, of each fetch.      *)
LEMMA TasksOf ==
    /\ \A f \in 1..2 : <<f, "user">> \in OfCatalog!Tasks
    /\ \A t \in OfCatalog!Tasks : t[1] \in 1..2 /\ (t[2] = "user" => t = <<t[1], "user">>)
  <1>1. ASSUME NEW f \in 1..2 PROVE <<f, "user">> \in OfCatalog!Tasks
    BY DEF OfCatalog!Tasks
  <1>2. ASSUME NEW t \in OfCatalog!Tasks
        PROVE  t[1] \in 1..2 /\ (t[2] = "user" => t = <<t[1], "user">>)
    <2>1. PICK f \in 1..2, w \in {"user", "update"} : t = <<f, w>>
      BY DEF OfCatalog!Tasks
    <2> QED BY <2>1
  <1> QED BY <1>1, <1>2

(* Becomes: a task that has not ended becomes a good one, and its user is  *)
(* called when it ends.                                                    *)
LEMMA Becoming ==
    ASSUME RepositoryInv, NEW t \in OfCatalog!Tasks, NEW T, OfCatalog!Becomes(t, T),
           Getting(task[t]), TaskGood(T, latest, DOMAIN cache', Whole'),
           UNCHANGED latest, lost' \in Nat, refused' \in BOOLEAN,
           Whole' => Whole /\ DOMAIN cache \subseteq DOMAIN cache',
           CacheGood(cache', latest, Whole')
    PROVE  RepositoryInv'
  <1>1. /\ task' = [task EXCEPT ![t] = T]
        /\ called' = [called EXCEPT ![t[1]] = IF T.pc = "done" /\ t[2] = "user" THEN @ + 1 ELSE @]
    BY DEF OfCatalog!Becomes
  <1>2. /\ DOMAIN task = OfCatalog!Tasks /\ task = [u \in OfCatalog!Tasks |-> task[u]]
        /\ \A u \in OfCatalog!Tasks : TaskGood(task[u], latest, DOMAIN cache, Whole)
        /\ latest \in 1..MaxVersion /\ called \in [1..2 -> 0..1] /\ OfCatalog!CalledOnce
    BY DEF RepositoryInv
  <1>3. /\ DOMAIN task' = OfCatalog!Tasks /\ task' = [u \in OfCatalog!Tasks |-> task'[u]]
        /\ task'[t] = T /\ \A u \in OfCatalog!Tasks : u # t => task'[u] = task[u]
    BY <1>1, <1>2
  <1>4. ASSUME NEW u \in OfCatalog!Tasks
        PROVE  TaskGood(task'[u], latest', DOMAIN cache', Whole')
    <2>1. CASE u = t
      BY <1>3, <2>1
    <2>2. CASE u # t
      <3>1. TaskGood(task[u], latest, DOMAIN cache, Whole) /\ latest \in Nat /\ latest' = latest
            /\ Whole \in BOOLEAN /\ Whole' \in BOOLEAN
        BY <1>2 DEF Whole
      <3>2. TaskGood(task[u], latest', DOMAIN cache', Whole')
        BY <3>1, GoodLater
      <3> QED BY <1>3, <2>2, <3>2
    <2> QED BY <2>1, <2>2
  <1>5. called' \in [1..2 -> 0..1] /\ (OfCatalog!CalledOnce)'
    <2>1. t[1] \in 1..2 /\ (t[2] = "user" => t = <<t[1], "user">>)
      BY TasksOf
    <2>2. \A f \in 1..2 : task[<<f, "user">>].pc = "done" <=> called[f] = 1
      BY <1>2 DEF OfCatalog!CalledOnce
    <2>3. t[2] = "user" => called[t[1]] = 0
      BY <1>2, <2>1, <2>2 DEF Getting
    <2>4. called' \in [1..2 -> 0..1]
      BY <1>1, <1>2, <2>1, <2>3
    <2>5. ASSUME NEW f \in 1..2 PROVE task'[<<f, "user">>].pc = "done" <=> called'[f] = 1
      <3>1. CASE t = <<f, "user">>
        <4>1. t[1] = f /\ t[2] = "user"
          BY <3>1
        <4> QED BY <1>1, <1>2, <1>3, <2>3, <3>1, <4>1
      <3>2. CASE t # <<f, "user">>
        <4>1. task'[<<f, "user">>] = task[<<f, "user">>]
          BY <1>3, <3>2, TasksOf
        <4>2. called'[f] = called[f]
          BY <1>1, <1>2, <2>1, <3>2
        <4> QED BY <2>2, <4>1, <4>2
      <3> QED BY <3>1, <3>2
    <2> QED BY <2>4, <2>5 DEF OfCatalog!CalledOnce
  <1> QED BY <1>2, <1>3, <1>4, <1>5 DEF RepositoryInv

(* What the steps of a task have in common.                                *)
LEMMA Before ==
    ASSUME RepositoryInv, NEW t \in OfCatalog!Tasks, Getting(task[t])
    PROVE  /\ TaskGood(task[t], latest, DOMAIN cache, Whole) /\ OnChain(task[t])
           /\ OptionGood(task[t]) /\ VersionGood(task[t]) /\ AnswerGood(task[t], latest)
           /\ DOMAIN task[t] = Fields /\ task[t].since \in 0..latest
           /\ task[t].status \in {"pending", "forbidden"}
           /\ latest \in Nat /\ Whole \in BOOLEAN /\ CacheGood(cache, latest, Whole)
           /\ lost \in Nat /\ refused \in BOOLEAN
           /\ Due(task[t]) \in {"catalog", "version", "list", "partition", "quads", "data"}
  <1>1. TaskGood(task[t], latest, DOMAIN cache, Whole)
    BY DEF RepositoryInv
  <1>2. OnChain(task[t]) /\ task[t].status \in {"pending", "forbidden"}
    BY <1>1 DEF TaskGood, Getting
  <1>3. Due(task[t]) \in {"catalog", "version", "list", "partition", "quads", "data"}
    <2>1. task[t].request.kind \in {"catalog", "latest", "versionedPartitions",
                "volatilePartitions", "prefetch", "versionedData", "volatileData"}
      BY <1>2 DEF OnChain, OfCatalog!AllKinds
    <2> QED BY <1>2, <2>1, Chains DEF OnChain, Due
  <1>4. latest \in Nat /\ lost \in Nat /\ refused \in BOOLEAN /\ CacheGood(cache, latest, Whole)
    BY DEF RepositoryInv
  <1> QED BY <1>1, <1>2, <1>3, <1>4 DEF TaskGood, Whole

(* A step that leaves the cache alone.                                     *)
LEMMA BecomingOnly ==
    ASSUME RepositoryInv, NEW t \in OfCatalog!Tasks, NEW T, OfCatalog!Becomes(t, T),
           Getting(task[t]), TaskGood(T, latest, DOMAIN cache, Whole),
           UNCHANGED <<latest, cache, lost, refused>>
    PROVE  RepositoryInv'
  <1>1. Whole' = Whole
    BY DEF Whole
  <1>2. lost \in Nat /\ refused \in BOOLEAN /\ CacheGood(cache, latest, Whole)
    BY DEF RepositoryInv
  <1>3. CacheGood(cache', latest, Whole') /\ TaskGood(T, latest, DOMAIN cache', Whole')
    BY <1>1, <1>2
  <1> QED BY <1>1, <1>2, <1>3, Becoming

(* Reject ends the task.                                                   *)
LEMMA RejectKeeps ==
    ASSUME RepositoryInv, NEW t \in OfCatalog!Tasks, OfCatalog!Reject(t)
    PROVE  RepositoryInv'
  <1>1. Getting(task[t])
    BY DEF OfCatalog!Reject, Getting
  <1>2. TaskGood(OfCatalog!Ended(task[t], "PreconditionFailed"), latest, DOMAIN cache, Whole)
    BY <1>1, Before, EndedGood
  <1> QED BY <1>1, <1>2, BecomingOnly DEF OfCatalog!Reject

(* A task that took something from the cache, or sent something, is as     *)
(* good as before if its option lets it.                                   *)
LEMMA Notes ==
    ASSUME NEW T, NEW S, NEW last \in Nat, NEW keys, NEW whole \in BOOLEAN,
           TaskGood(T, last, keys, whole), Getting(T),
           \/ S = [T EXCEPT !.fromCache = TRUE] /\ T.option # "OnlineOnly"
           \/ S = [T EXCEPT !.sent = TRUE] /\ T.option # "CacheOnly"
    PROVE  /\ DOMAIN S = DOMAIN T /\ S.pc = T.pc /\ S.status = T.status /\ S.todo = T.todo
           /\ S.option = T.option /\ S.request = T.request /\ S.version = T.version
           /\ S.handle = T.handle /\ S.since = T.since /\ S.value = T.value
           /\ TaskGood(S, last, keys, whole)
  <1>1. /\ DOMAIN S = Fields /\ S.pc = T.pc /\ S.status = T.status /\ S.todo = T.todo
        /\ S.option = T.option /\ S.request = T.request /\ S.version = T.version
        /\ S.handle = T.handle /\ S.since = T.since /\ S.value = T.value
        /\ S.option = "CacheOnly" => S.sent = T.sent
        /\ S.option = "OnlineOnly" => S.fromCache = T.fromCache
    BY DEF TaskGood, Fields
  <1>2. /\ Due(S) = Due(T) /\ (Getting(S) <=> Getting(T)) /\ (HasEnded(S) <=> HasEnded(T))
        /\ (HasAnswer(S) <=> HasAnswer(T)) /\ Named(S) = Named(T) /\ (Volatile(S) <=> Volatile(T))
        /\ (ByPartition(S) <=> ByPartition(T))
    BY <1>1 DEF Due, Getting, HasEnded, HasAnswer, Named, Volatile, ByPartition
  <1>3. OnChain(S)
    BY <1>1, <1>2 DEF TaskGood, OnChain
  <1>4. OptionGood(S)
    BY <1>1, <1>2 DEF TaskGood, OptionGood
  <1>5. AnswerGood(S, last)
    BY <1>1, <1>2 DEF TaskGood, AnswerGood
  <1>6. VersionGood(S)
    BY <1>1, <1>2 DEF TaskGood, VersionGood
  <1>7. whole => WholeGood(S, keys)
    BY <1>1, <1>2 DEF TaskGood, WholeGood
  <1> QED BY <1>1, <1>3, <1>4, <1>5, <1>6, <1>7 DEF TaskGood

(* A task that is about to ask its service owes nothing more.              *)
LEMMA Asks ==
    ASSUME NEW T, NEW S, NEW last \in Nat, NEW keys, NEW whole \in BOOLEAN,
           TaskGood(T, last, keys, whole), T.pc = "get",
           S = [T EXCEPT !.pc = "ask"], T.option # "CacheOnly"
    PROVE  TaskGood(S, last, keys, whole)
  <1>1. /\ DOMAIN S = Fields /\ S.pc = "ask" /\ S.status = T.status /\ S.todo = T.todo
        /\ S.option = T.option /\ S.request = T.request /\ S.version = T.version
        /\ S.handle = T.handle /\ S.since = T.since /\ S.sent = T.sent /\ S.fromCache = T.fromCache
    BY DEF TaskGood, Fields
  <1>2. /\ Due(S) = Due(T) /\ Getting(S) /\ Getting(T) /\ ~HasEnded(S) /\ ~HasEnded(T)
        /\ ~HasAnswer(S) /\ Named(S) = Named(T) /\ (ByPartition(S) <=> ByPartition(T))
    BY <1>1 DEF Due, Getting, HasEnded, HasAnswer, Named, ByPartition
  <1>3. OnChain(S)
    BY <1>1, <1>2 DEF TaskGood, OnChain
  <1>4. OptionGood(S)
    BY <1>1, <1>2 DEF TaskGood, OptionGood
  <1>5. AnswerGood(S, last)
    BY <1>1, <1>2 DEF TaskGood, AnswerGood
  <1>6. VersionGood(S)
    BY <1>1, <1>2 DEF TaskGood, VersionGood
  <1>7. whole => WholeGood(S, keys)
    BY <1>1, <1>2 DEF TaskGood, WholeGood
  <1> QED BY <1>1, <1>3, <1>4, <1>5, <1>6, <1>7 DEF TaskGood, OfCatalog!Pcs

(* Get: the resource is found, or is not, or its service is looked up.     *)
LEMMA GetKeeps ==
    ASSUME RepositoryInv, NEW t \in OfCatalog!Tasks, OfCatalog!Get(t)
    PROVE  RepositoryInv'
  <1> DEFINE T == task[t]
             found == IF OfCatalog!LooksInCache(t) THEN OfCatalog!Function(t).found ELSE {}
  <1>1. T.pc = "get" /\ Getting(T) /\ UNCHANGED <<latest, lost, refused>>
    BY DEF OfCatalog!Get, Getting
  <1>2. /\ TaskGood(T, latest, DOMAIN cache, Whole) /\ OnChain(T) /\ OptionGood(T)
        /\ VersionGood(T) /\ DOMAIN T = Fields /\ latest \in Nat /\ Whole \in BOOLEAN
        /\ CacheGood(cache, latest, Whole) /\ lost \in Nat /\ refused \in BOOLEAN
    BY <1>1, Before
  <1>3. Whole' = Whole
    BY <1>1 DEF Whole
  <1>4. ASSUME NEW x \in found, UNCHANGED cache,
               OfCatalog!Becomes(t, OfCatalog!Got(t, [T EXCEPT !.fromCache = TRUE], x))
        PROVE  RepositoryInv'
    <2>1. T.option # "OnlineOnly" /\ x \in OfCatalog!Function(t).found
      BY <1>4 DEF OfCatalog!LooksInCache, OfCatalog!Option
    <2>2. ValueGood(T, x, latest, DOMAIN cache, Whole)
      BY <1>1, <1>2, <2>1, FoundGood
    <2>3. PICK S : S = [T EXCEPT !.fromCache = TRUE]
      OBVIOUS
    <2>4. /\ S.pc = T.pc /\ S.todo = T.todo /\ S.option = T.option /\ S.request = T.request
          /\ S.version = T.version /\ S.handle = T.handle /\ S.since = T.since
          /\ TaskGood(S, latest, DOMAIN cache, Whole)
      <3> HIDE DEF T, found
      <3> QED BY <1>1, <1>2, <2>1, <2>3, Notes
    <2>5. ValueGood(S, x, latest, DOMAIN cache, Whole) /\ Getting(S)
      BY <1>1, <2>2, <2>4 DEF ValueGood, Due, Named, Volatile, Getting
    <2>6. TaskGood(OfCatalog!Got(t, S, x), latest, DOMAIN cache, Whole)
      BY <1>2, <2>4, <2>5, GotGood
    <2> QED BY <1>1, <1>4, <2>3, <2>6, BecomingOnly
  <1>5. ASSUME UNCHANGED cache, OfCatalog!Becomes(t, OfCatalog!Ended(T, "NotFound"))
        PROVE  RepositoryInv'
    <2>1. TaskGood(OfCatalog!Ended(T, "NotFound"), latest, DOMAIN cache, Whole)
      BY <1>2, EndedGood
    <2> QED BY <1>1, <1>5, <2>1, BecomingOnly
  <1>6. ASSUME T.option # "CacheOnly", OfCatalog!LookupApi(t)
        PROVE  RepositoryInv'
    <2> DEFINE k == OfCatalog!ApiKey(OfCatalog!Function(t).service)
               cached == OfCatalog!Option(t) # "OnlineOnly" /\ k \in DOMAIN cache
    <2>1. ASSUME cached, UNCHANGED cache,
                 OfCatalog!Becomes(t, [T EXCEPT !.pc = "ask", !.fromCache = TRUE])
          PROVE  RepositoryInv'
      <3>1. PICK S : S = [T EXCEPT !.fromCache = TRUE]
        OBVIOUS
      <3>2. T.option # "OnlineOnly"
        BY <2>1 DEF OfCatalog!Option
      <3>3. TaskGood(S, latest, DOMAIN cache, Whole) /\ S.pc = T.pc /\ S.option = T.option
        <4> HIDE DEF T
        <4> QED BY <1>1, <1>2, <3>1, <3>2, Notes
      <3>4. [S EXCEPT !.pc = "ask"] = [T EXCEPT !.pc = "ask", !.fromCache = TRUE]
        BY <1>2, <3>1 DEF Fields
      <3>5. TaskGood([S EXCEPT !.pc = "ask"], latest, DOMAIN cache, Whole)
        BY <1>1, <1>2, <1>6, <3>3, Asks
      <3> QED BY <1>1, <2>1, <3>4, <3>5, BecomingOnly
    <2>2. PICK S : S = [T EXCEPT !.sent = TRUE]
      OBVIOUS
    <2>3. TaskGood(S, latest, DOMAIN cache, Whole) /\ S.pc = T.pc /\ S.option = T.option
      <3> HIDE DEF T
      <3> QED BY <1>1, <1>2, <1>6, <2>2, Notes
    <2>4. ASSUME OfCatalog!Put(k, TRUE), OfCatalog!Becomes(t, [S EXCEPT !.pc = "ask"])
          PROVE  RepositoryInv'
      <3>1. TaskGood([S EXCEPT !.pc = "ask"], latest, DOMAIN cache, Whole)
        BY <1>1, <1>2, <1>6, <2>3, Asks
      <3>2. k[1] = "api"
        BY DEF OfCatalog!ApiKey
      <3>3. EntryGood(k, TRUE, latest)
        BY <3>2 DEF EntryGood
      <3>4. Stored({k}, latest, Whole)
        BY <1>2, <2>4, <3>2, <3>3, PutStores
      <3>5. CacheGood(cache', latest, Whole) /\ DOMAIN cache \subseteq DOMAIN cache'
        <4>1. \E keys : Stored(keys, latest, Whole)
          BY <3>4
        <4> HIDE DEF k, T
        <4>2. CacheGood(cache', latest, Whole)
          BY <1>2, <4>1, StoredGood
        <4> QED BY <4>1, <4>2 DEF Stored
      <3>6. TaskGood([S EXCEPT !.pc = "ask"], latest, DOMAIN cache', Whole)
        BY <1>2, <3>1, <3>5, GoodLater
      <3> HIDE DEF k, T
      <3> QED BY <1>1, <1>2, <1>3, <2>4, <3>5, <3>6, Becoming DEF T
    <2>5. ASSUME UNCHANGED cache, OfCatalog!Becomes(t, OfCatalog!Ended(S, "error"))
          PROVE  RepositoryInv'
      <3>1. TaskGood(OfCatalog!Ended(S, "error"), latest, DOMAIN cache, Whole)
        BY <1>2, <2>3, EndedGood DEF TaskGood
      <3> QED BY <1>1, <2>5, <3>1, BecomingOnly
    <2> QED BY <1>6, <2>1, <2>2, <2>4, <2>5 DEF OfCatalog!LookupApi
  <1> QED BY <1>4, <1>5, <1>6 DEF OfCatalog!Get, OfCatalog!Option

(* Ask: the service answers, refuses or fails.                             *)
LEMMA AskKeeps ==
    ASSUME RepositoryInv, NEW t \in OfCatalog!Tasks, OfCatalog!Ask(t)
    PROVE  RepositoryInv'
  <1> DEFINE T == task[t]
  <1>1. T.pc = "ask" /\ Getting(T) /\ UNCHANGED <<latest, cache, lost, refused>>
    BY DEF OfCatalog!Ask, Getting
  <1>2. /\ TaskGood(T, latest, DOMAIN cache, Whole) /\ OnChain(T) /\ OptionGood(T)
        /\ DOMAIN T = Fields /\ latest \in Nat /\ Whole \in BOOLEAN
        /\ T.since \in 0..latest
    BY <1>1, Before
  <1>3. PICK S : S = [T EXCEPT !.sent = TRUE]
    OBVIOUS
  <1>4. /\ T.option # "CacheOnly"
        /\ DOMAIN S = Fields /\ S.pc = T.pc /\ S.status = T.status /\ S.todo = T.todo
        /\ S.option = T.option /\ S.request = T.request /\ S.version = T.version
        /\ S.handle = T.handle /\ S.since = T.since
        /\ TaskGood(S, latest, DOMAIN cache, Whole)
    <2>1. T.option # "CacheOnly"
      BY <1>1, <1>2 DEF OptionGood
    <2> HIDE DEF T
    <2> QED BY <1>1, <1>2, <1>3, <2>1, Notes
  <1>5. ASSUME NEW x \in OfCatalog!Function(t).answers,
               OfCatalog!Becomes(t, [S EXCEPT !.pc = "answered", !.value = x])
        PROVE  RepositoryInv'
    <2>1. /\ Due(T) = "version" => x \in 0..latest
          /\ Due(T) = "list" => x = {<<p, <<p, T.version>>>> : p \in PartitionIds}
          /\ Due(T) \in {"partition", "quads"} => x = {} \/ x = {Named(T)}
          /\ Due(T) = "data" /\ ~Volatile(T) => x = T.handle[2]
          /\ Due(T) = "version" \/ (Due(T) = "data" /\ Volatile(T)) => x >= T.since
      BY <1>2, AnswersGood
    <2>2. PICK A : A = [S EXCEPT !.pc = "answered", !.value = x]
      OBVIOUS
    <2>3. /\ DOMAIN A = Fields /\ A.pc = "answered" /\ A.status = S.status /\ A.todo = S.todo
          /\ A.option = S.option /\ A.request = S.request /\ A.version = S.version
          /\ A.handle = S.handle /\ A.since = S.since /\ A.sent = S.sent
          /\ A.fromCache = S.fromCache /\ A.value = x
      BY <1>4, <2>2 DEF Fields
    <2>4. /\ Due(A) = Due(T) /\ Due(S) = Due(T) /\ Getting(A) /\ Getting(S) /\ ~HasEnded(A)
          /\ Named(A) = Named(T) /\ Named(A) = Named(S) /\ (Volatile(A) <=> Volatile(T))
          /\ (ByPartition(A) <=> ByPartition(S))
      BY <1>1, <1>4, <2>3 DEF Due, Getting, HasEnded, Named, Volatile, ByPartition
    <2>5. OnChain(A)
      BY <1>4, <2>3, <2>4 DEF TaskGood, OnChain
    <2>6. OptionGood(A)
      BY <1>4, <2>1, <2>3, <2>4 DEF TaskGood, OptionGood
    <2>7. AnswerGood(A, latest)
      BY <1>4, <2>1, <2>3, <2>4 DEF AnswerGood
    <2>8. VersionGood(A)
      BY <1>4, <2>3, <2>4 DEF TaskGood, VersionGood
    <2>9. Whole => WholeGood(A, DOMAIN cache)
      BY <1>4, <2>3, <2>4 DEF TaskGood, WholeGood
    <2>10. TaskGood(A, latest, DOMAIN cache, Whole)
      <3> HIDE DEF T
      <3> QED BY <1>1, <1>4, <2>3, <2>5, <2>6, <2>7, <2>8, <2>9 DEF TaskGood, OfCatalog!Pcs
    <2> QED BY <1>1, <1>5, <2>2, <2>10, BecomingOnly
  <1>6. ASSUME OfCatalog!Becomes(t, [S EXCEPT !.pc = "answered", !.status = "forbidden"])
        PROVE  RepositoryInv'
    <2>2. PICK A : A = [S EXCEPT !.pc = "answered", !.status = "forbidden"]
      OBVIOUS
    <2>3. /\ DOMAIN A = Fields /\ A.pc = "answered" /\ A.status = "forbidden" /\ A.todo = S.todo
          /\ A.option = S.option /\ A.request = S.request /\ A.version = S.version
          /\ A.handle = S.handle /\ A.since = S.since /\ A.sent = S.sent
          /\ A.fromCache = S.fromCache
      BY <1>4, <2>2 DEF Fields
    <2>4. /\ Due(A) = Due(S) /\ Getting(A) /\ Getting(S) /\ ~HasEnded(A) /\ ~HasAnswer(A)
          /\ Named(A) = Named(S) /\ (ByPartition(A) <=> ByPartition(S))
      BY <1>1, <1>4, <2>3 DEF Due, Getting, HasEnded, HasAnswer, Named, ByPartition
    <2>5. OnChain(A)
      BY <1>4, <2>3, <2>4 DEF TaskGood, OnChain
    <2>6. OptionGood(A)
      BY <1>4, <2>3, <2>4 DEF TaskGood, OptionGood
    <2>7. AnswerGood(A, latest)
      BY <2>4 DEF AnswerGood
    <2>8. VersionGood(A)
      BY <1>4, <2>3, <2>4 DEF TaskGood, VersionGood
    <2>9. Whole => WholeGood(A, DOMAIN cache)
      BY <1>4, <2>3, <2>4 DEF TaskGood, WholeGood
    <2>10. TaskGood(A, latest, DOMAIN cache, Whole)
      <3> HIDE DEF T
      <3> QED BY <1>1, <1>4, <2>3, <2>5, <2>6, <2>7, <2>8, <2>9 DEF TaskGood, OfCatalog!Pcs
    <2> QED BY <1>1, <1>6, <2>2, <2>10, BecomingOnly
  <1>7. ASSUME OfCatalog!Becomes(t, OfCatalog!Ended(S, "error"))
        PROVE  RepositoryInv'
    <2>1. TaskGood(OfCatalog!Ended(S, "error"), latest, DOMAIN cache, Whole)
      BY <1>2, <1>4, EndedGood DEF TaskGood
    <2> QED BY <1>1, <1>7, <2>1, BecomingOnly
  <1> QED BY <1>3, <1>5, <1>6, <1>7 DEF OfCatalog!Ask

(* PutAnswer: what the cache then holds.                                   *)
LEMMA AnswerStored ==
    ASSUME RepositoryInv, NEW t \in OfCatalog!Tasks, OfCatalog!PutAnswer(t)
    PROVE  /\ \E keys : Stored(keys, latest, Whole)
           /\ Due(task[t]) \in {"partition", "quads"} /\ task[t].value # {} =>
                <<"partition", OfCatalog!Layer(t), OfCatalog!Partition, task[t].version>>
                    \in DOMAIN cache'
           /\ Due(task[t]) = "data" =>
                <<"data", OfCatalog!Layer(t), task[t].handle>> \in DOMAIN cache'
  <1> DEFINE T == task[t]
             l == OfCatalog!Layer(t)
  <1>1. T.pc = "answered" /\ T.status = "pending" /\ Getting(T) /\ HasAnswer(T)
    BY DEF OfCatalog!PutAnswer, Getting, HasAnswer
  <1>2. /\ latest \in Nat /\ Whole \in BOOLEAN
        /\ Due(T) = "version" => T.value \in 0..latest
        /\ Due(T) = "list" => T.value = {<<p, <<p, T.version>>>> : p \in PartitionIds}
        /\ Due(T) \in {"partition", "quads"} => T.value = {} \/ T.value = {Named(T)}
        /\ Due(T) = "data" /\ ~Volatile(T) => T.value = T.handle[2]
    BY <1>1, Before DEF AnswerGood
  <1>3. OfCatalog!Resource(t) = Due(T)
    BY DEF OfCatalog!Resource, Due
  <1>4. CASE Due(T) = "catalog"
    <2>1. OfCatalog!Put(<<"catalog">>, T.value)
      BY <1>3, <1>4 DEF OfCatalog!PutAnswer, OfCatalog!CatalogKey
    <2>2. PICK k : k = <<"catalog">>
      OBVIOUS
    <2>3. k[1] = "catalog"
      BY <2>2
    <2>4. EntryGood(k, T.value, latest)
      BY <2>3 DEF EntryGood
    <2>5. Stored({k}, latest, Whole)
      BY <1>2, <2>1, <2>2, <2>3, <2>4, PutStores
    <2> QED BY <1>4, <2>5
  <1>5. CASE Due(T) = "version"
    <2>1. OfCatalog!Put(<<"latestVersion">>, T.value)
      BY <1>3, <1>5 DEF OfCatalog!PutAnswer, OfCatalog!VersionKey
    <2>2. PICK k : k = <<"latestVersion">>
      OBVIOUS
    <2>3. k[1] = "latestVersion"
      BY <2>2
    <2>4. EntryGood(k, T.value, latest)
      BY <1>2, <1>5, <2>3 DEF EntryGood
    <2>5. Stored({k}, latest, Whole)
      BY <1>2, <2>1, <2>2, <2>3, <2>4, PutStores
    <2> QED BY <1>5, <2>5
  <1>6. CASE Due(T) = "list"
    <2>1. OfCatalog!PutPartitions(l, T.version, T.value, TRUE)
      BY <1>3, <1>6 DEF OfCatalog!PutAnswer
    <2>2. \E keys : Stored(keys, latest, Whole)
      <3> HIDE DEF T, l
      <3> QED BY <1>2, <1>6, <2>1, PutPartitionsStores
    <2> QED BY <1>6, <2>2
  <1>7. CASE Due(T) \in {"partition", "quads"}
    <2>1. OfCatalog!PutPartitions(l, T.version, {<<h[1], h>> : h \in T.value}, FALSE)
      BY <1>3, <1>7 DEF OfCatalog!PutAnswer, OfCatalog!PutQuads
    <2>2. PICK ids : ids = IF T.value = {} THEN {} ELSE {OfCatalog!Partition}
      OBVIOUS
    <2>3. {<<h[1], h>> : h \in T.value} = {<<p, <<p, T.version>>>> : p \in ids}
      <3>1. CASE T.value = {}
        BY <2>2, <3>1
      <3>2. CASE T.value # {}
        <4>1. T.value = {Named(T)} /\ ids = {OfCatalog!Partition}
          BY <1>2, <1>7, <2>2, <3>2
        <4>2. {<<h[1], h>> : h \in T.value} = {<<Named(T)[1], Named(T)>>}
          BY <4>1
        <4>3. Named(T)[1] = OfCatalog!Partition /\ Named(T) = <<OfCatalog!Partition, T.version>>
          BY DEF Named
        <4> QED BY <4>1, <4>2, <4>3
      <3> QED BY <3>1, <3>2
    <2>4. /\ \E keys : Stored(keys, latest, Whole)
          /\ \A p \in ids : <<"partition", l, p, T.version>> \in DOMAIN cache'
      <3>1. PICK parts : parts = {<<h[1], h>> : h \in T.value}
        OBVIOUS
      <3>2. parts = {<<p, <<p, T.version>>>> : p \in ids}
        BY <2>3, <3>1
      <3>3. OfCatalog!PutPartitions(l, T.version, parts, FALSE)
        BY <2>1, <3>1
      <3> HIDE DEF T, l
      <3> QED BY <1>2, <3>2, <3>3, PutPartitionsStores
    <2> QED BY <1>7, <2>2, <2>4
  <1>8. CASE Due(T) = "data"
    <2>1. OfCatalog!Put(<<"data", l, T.handle>>, T.value)
      BY <1>3, <1>8 DEF OfCatalog!PutAnswer, OfCatalog!DataKey
    <2>2. PICK k : k = <<"data", l, T.handle>>
      OBVIOUS
    <2>3. k[1] = "data" /\ k[2] = l /\ k[3] = T.handle
      BY <2>2
    <2>4. l = "versioned" => ~Volatile(T)
      BY LayerOf
    <2>5. EntryGood(k, T.value, latest)
      BY <1>2, <1>8, <2>3, <2>4 DEF EntryGood
    <2>6. Stored({k}, latest, Whole)
      BY <1>2, <2>1, <2>2, <2>3, <2>5, PutStores
    <2>7. k \in DOMAIN cache'
      BY <2>6 DEF Stored
    <2> HIDE DEF T, l
    <2>8. <<"data", l, T.handle>> \in DOMAIN cache' /\ \E keys : Stored(keys, latest, Whole)
      BY <2>2, <2>6, <2>7
    <2> QED BY <1>8, <2>8 DEF T, l
  <1>9. Due(T) \in {"catalog", "version", "list", "partition", "quads", "data"}
    BY <1>1, Before
  <1> QED BY <1>4, <1>5, <1>6, <1>7, <1>8, <1>9

(* PutAnswer: the answer is stored before the task goes on.                *)
LEMMA PutAnswerKeeps ==
    ASSUME RepositoryInv, NEW t \in OfCatalog!Tasks, OfCatalog!PutAnswer(t)
    PROVE  RepositoryInv'
  <1> DEFINE T == task[t]
  <1>1. /\ T.pc = "answered" /\ T.status = "pending" /\ Getting(T) /\ HasAnswer(T)
        /\ OfCatalog!Becomes(t, OfCatalog!Got(t, T, T.value)) /\ UNCHANGED <<latest, lost, refused>>
    BY DEF OfCatalog!PutAnswer, Getting, HasAnswer
  <1>2. /\ latest \in Nat /\ Whole \in BOOLEAN /\ CacheGood(cache, latest, Whole)
        /\ lost \in Nat /\ refused \in BOOLEAN /\ OptionGood(T)
        /\ TaskGood(T, latest, DOMAIN cache, Whole)
        /\ Due(T) = "version" => T.value \in 0..latest
        /\ Due(T) = "list" => T.value = {<<p, <<p, T.version>>>> : p \in PartitionIds}
        /\ Due(T) \in {"partition", "quads"} => T.value = {} \/ T.value = {Named(T)}
        /\ Due(T) = "data" /\ ~Volatile(T) => T.value = T.handle[2]
    BY <1>1, Before DEF AnswerGood
  <1>3. Whole' = Whole
    BY <1>1 DEF Whole
  <1>4. CacheGood(cache', latest, Whole) /\ DOMAIN cache \subseteq DOMAIN cache'
    BY <1>2, AnswerStored, StoredGood DEF Stored
  <1>5. ValueGood(T, T.value, latest, DOMAIN cache', Whole)
    <2>1. Due(T) = "version" /\ T.option = "OnlineOnly" => T.value >= T.since
      BY <1>1, <1>2 DEF OptionGood
    <2>2. Due(T) = "list" =>
            /\ \A y \in T.value : y[2][2] = T.version
            /\ {y[1] : y \in T.value} = PartitionIds
      <3>1. SUFFICES ASSUME Due(T) = "list"
                     PROVE  /\ \A y \in T.value : y[1] \in PartitionIds /\ y[2][2] = T.version
                            /\ \A p \in PartitionIds : \E y \in T.value : y[1] = p
        OBVIOUS
      <3>2. T.value = {<<p, <<p, T.version>>>> : p \in PartitionIds}
        BY <1>2, <3>1
      <3>3. ASSUME NEW y \in T.value PROVE y[1] \in PartitionIds /\ y[2][2] = T.version
        <4>1. PICK p \in PartitionIds : y = <<p, <<p, T.version>>>>
          BY <3>2, <3>3
        <4> QED BY <4>1
      <3>4. ASSUME NEW p \in PartitionIds PROVE \E y \in T.value : y[1] = p
        <4>1. PICK y : y = <<p, <<p, T.version>>>>
          OBVIOUS
        <4>2. y \in T.value /\ y[1] = p
          BY <3>2, <4>1
        <4> QED BY <4>2
      <3> QED BY <3>3, <3>4
    <2>3. T.request.kind = "prefetch" => OfCatalog!Layer(t) = "versioned"
      BY LayerOf
    <2>4. Due(T) = "quads" => T.request.kind = "prefetch"
      <3>1. OnChain(T)
        BY <1>1, Before
      <3>2. T.request.kind \in {"catalog", "latest", "versionedPartitions",
                "volatilePartitions", "prefetch", "versionedData", "volatileData"}
        BY <3>1 DEF OnChain, OfCatalog!AllKinds
      <3> QED BY <3>1, <3>2, Chains DEF OnChain, Due
    <2>5. Due(T) = "quads" /\ T.value # {} =>
            <<"partition", "versioned", OfCatalog!Partition, T.version>> \in DOMAIN cache'
      BY <2>3, <2>4, AnswerStored
    <2>6. Due(T) = "data" /\ T.request.kind = "prefetch" =>
            <<"data", "versioned", T.handle>> \in DOMAIN cache'
      BY <2>3, AnswerStored
    <2>7. Due(T) = "data" /\ Volatile(T) /\ T.option = "OnlineOnly" => T.value >= T.since
      BY <1>1, <1>2 DEF OptionGood
    <2> HIDE DEF T
    <2> QED BY <1>2, <2>1, <2>2, <2>5, <2>6, <2>7 DEF ValueGood
  <1>6. TaskGood(T, latest, DOMAIN cache', Whole)
    BY <1>2, <1>4, GoodLater
  <1>7. TaskGood(OfCatalog!Got(t, T, T.value), latest, DOMAIN cache', Whole)
    BY <1>1, <1>2, <1>5, <1>6, GotGood
  <1> QED BY <1>1, <1>2, <1>3, <1>4, <1>7, Becoming

(* ForgetRefused: the task ends, and the cache is not whole any more.      *)
LEMMA ForgetRefusedKeeps ==
    ASSUME RepositoryInv, NEW t \in OfCatalog!Tasks, OfCatalog!ForgetRefused(t)
    PROVE  RepositoryInv'
  <1>1. /\ Getting(task[t]) /\ UNCHANGED <<latest, lost>> /\ refused' = TRUE
        /\ OfCatalog!Becomes(t, OfCatalog!Ended(task[t], "error"))
        /\ OfCatalog!Forget(OfCatalog!Function(t).cleared)
    BY DEF OfCatalog!ForgetRefused, Getting
  <1>2. Whole' = FALSE
    BY <1>1 DEF Whole
  <1>3. OptionGood(task[t]) /\ latest \in Nat /\ CacheGood(cache, latest, Whole) /\ lost \in Nat
    BY <1>1, Before
  <1>4. CacheGood(cache', latest, FALSE)
    BY <1>1, <1>3, ForgetGood
  <1>5. TaskGood(OfCatalog!Ended(task[t], "error"), latest, DOMAIN cache', FALSE)
    BY <1>3, EndedGood
  <1> QED BY <1>1, <1>2, <1>3, <1>4, <1>5, Becoming

-----------------------------------------------------------------------------
(* The clients of the catalog, of a versioned and of a volatile layer      *)

(* They differ in their requests: the steps of their tasks are the same.   *)
LEMMA SameSteps ==
    ASSUME NEW t
    PROVE  /\ OfVersioned!Step(t) <=> OfCatalog!Step(t)
           /\ OfVolatile!Step(t) <=> OfCatalog!Step(t)
  BY DEF OfCatalog!Step, OfVersioned!Step, OfVolatile!Step, OfCatalog!Reject,
         OfVersioned!Reject, OfVolatile!Reject, OfCatalog!Get, OfVersioned!Get, OfVolatile!Get,
         OfCatalog!Ask, OfVersioned!Ask, OfVolatile!Ask, OfCatalog!PutAnswer,
         OfVersioned!PutAnswer, OfVolatile!PutAnswer, OfCatalog!ForgetRefused,
         OfVersioned!ForgetRefused, OfVolatile!ForgetRefused, OfCatalog!Becomes,
         OfVersioned!Becomes, OfVolatile!Becomes, OfCatalog!Ended, OfVersioned!Ended,
         OfVolatile!Ended, OfCatalog!Got, OfVersioned!Got, OfVolatile!Got, OfCatalog!Invalid,
         OfVersioned!Invalid, OfVolatile!Invalid, OfCatalog!LookupApi, OfVersioned!LookupApi,
         OfVolatile!LookupApi, OfCatalog!LooksInCache, OfVersioned!LooksInCache,
         OfVolatile!LooksInCache, OfCatalog!Option, OfVersioned!Option, OfVolatile!Option,
         OfCatalog!Function, OfVersioned!Function, OfVolatile!Function, OfCatalog!Layer,
         OfVersioned!Layer, OfVolatile!Layer, OfCatalog!Resource, OfVersioned!Resource,
         OfVolatile!Resource, OfCatalog!GetCatalog, OfVersioned!GetCatalog,
         OfVolatile!GetCatalog, OfCatalog!GetLatestVersion, OfVersioned!GetLatestVersion,
         OfVolatile!GetLatestVersion, OfCatalog!GetPartitions, OfVersioned!GetPartitions,
         OfVolatile!GetPartitions, OfCatalog!GetPartitionById, OfVersioned!GetPartitionById,
         OfVolatile!GetPartitionById, OfCatalog!GetSubQuads, OfVersioned!GetSubQuads,
         OfVolatile!GetSubQuads, OfCatalog!GetBlobData, OfVersioned!GetBlobData,
         OfVolatile!GetBlobData, OfCatalog!GetCatalogAnswers, OfVersioned!GetCatalogAnswers,
         OfVolatile!GetCatalogAnswers, OfCatalog!GetLatestCatalogVersionAnswers,
         OfVersioned!GetLatestCatalogVersionAnswers, OfVolatile!GetLatestCatalogVersionAnswers,
         OfCatalog!GetPartitionsAnswers, OfVersioned!GetPartitionsAnswers,
         OfVolatile!GetPartitionsAnswers, OfCatalog!GetPartitionsbyIdAnswers,
         OfVersioned!GetPartitionsbyIdAnswers, OfVolatile!GetPartitionsbyIdAnswers,
         OfCatalog!QuadTreeIndexAnswers, OfVersioned!QuadTreeIndexAnswers,
         OfVolatile!QuadTreeIndexAnswers, OfCatalog!GetBlobAnswers, OfVersioned!GetBlobAnswers,
         OfVolatile!GetBlobAnswers, OfCatalog!GetVolatileBlobAnswers,
         OfVersioned!GetVolatileBlobAnswers, OfVolatile!GetVolatileBlobAnswers, OfCatalog!Found,
         OfVersioned!Found, OfVolatile!Found, OfCatalog!FoundPartition,
         OfVersioned!FoundPartition, OfVolatile!FoundPartition, OfCatalog!FoundPartitions,
         OfVersioned!FoundPartitions, OfVolatile!FoundPartitions, OfCatalog!PutPartitions,
         OfVersioned!PutPartitions, OfVolatile!PutPartitions, OfCatalog!PutQuads,
         OfVersioned!PutQuads, OfVolatile!PutQuads, OfCatalog!Put, OfVersioned!Put,
         OfVolatile!Put, OfCatalog!Forget, OfVersioned!Forget, OfVolatile!Forget,
         OfCatalog!LayerKeys, OfVersioned!LayerKeys, OfVolatile!LayerKeys,
         OfCatalog!PartitionKeys, OfVersioned!PartitionKeys, OfVolatile!PartitionKeys,
         OfCatalog!ApiKey, OfVersioned!ApiKey, OfVolatile!ApiKey, OfCatalog!CatalogKey,
         OfVersioned!CatalogKey, OfVolatile!CatalogKey, OfCatalog!VersionKey,
         OfVersioned!VersionKey, OfVolatile!VersionKey, OfCatalog!ListKey, OfVersioned!ListKey,
         OfVolatile!ListKey, OfCatalog!PartitionKey, OfVersioned!PartitionKey,
         OfVolatile!PartitionKey, OfCatalog!DataKey, OfVersioned!DataKey, OfVolatile!DataKey,
         OfCatalog!Handle, OfVersioned!Handle, OfVolatile!Handle, OfCatalog!NoVersion,
         OfVersioned!NoVersion, OfVolatile!NoVersion, OfCatalog!Partition,
         OfVersioned!Partition, OfVolatile!Partition, OfCatalog!VolatileKinds,
         OfVersioned!VolatileKinds, OfVolatile!VolatileKinds, OfCatalog!NoTask,
         OfVersioned!NoTask, OfVolatile!NoTask, OfCatalog!Request, OfVersioned!Request,
         OfVolatile!Request, OfCatalog!Restrict, OfVersioned!Restrict, OfVolatile!Restrict

(* The requests that they may make.                                        *)
LEMMA RequestsOf ==
    /\ \A r \in OfCatalog!AllRequests : Requested(r)
    /\ \A r \in OfVersioned!AllRequests : Requested(r)
    /\ \A r \in OfVolatile!AllRequests : Requested(r)
  <1> DEFINE All == OfCatalog!CatalogRequest \cup OfCatalog!CatalogVersionRequest
                    \cup OfCatalog!PartitionsRequest \cup OfCatalog!DataRequest
                    \cup OfCatalog!PrefetchTilesRequest
  <1>1. /\ OfCatalog!AllRequests \subseteq All
        /\ OfVersioned!AllRequests \subseteq All
        /\ OfVolatile!AllRequests \subseteq All
    BY DEF OfCatalog!AllRequests, OfVersioned!AllRequests, OfVolatile!AllRequests,
         OfCatalog!CatalogRequest, OfVersioned!CatalogRequest, OfVolatile!CatalogRequest,
         OfCatalog!CatalogVersionRequest, OfVersioned!CatalogVersionRequest,
         OfVolatile!CatalogVersionRequest, OfCatalog!PartitionsRequest,
         OfVersioned!PartitionsRequest, OfVolatile!PartitionsRequest, OfCatalog!DataRequest,
         OfVersioned!DataRequest, OfVolatile!DataRequest, OfCatalog!PrefetchTilesRequest,
         OfVersioned!PrefetchTilesRequest, OfVolatile!PrefetchTilesRequest, OfCatalog!Versions,
         OfVersioned!Versions, OfVolatile!Versions, OfCatalog!NoVersion, OfVersioned!NoVersion,
         OfVolatile!NoVersion, OfCatalog!Request, OfVersioned!Request, OfVolatile!Request
  <1>2. ASSUME NEW r \in All PROVE Requested(r)
    <2>1. CASE r \in OfCatalog!CatalogRequest
      BY <2>1 DEF OfCatalog!CatalogRequest, OfCatalog!NoVersion, Requested, OfCatalog!AllKinds
    <2>2. CASE r \in OfCatalog!CatalogVersionRequest
      BY <2>2 DEF OfCatalog!CatalogVersionRequest, OfCatalog!NoVersion, Requested,
                  OfCatalog!AllKinds
    <2>3. CASE r \in OfCatalog!PartitionsRequest
      BY <2>3 DEF OfCatalog!PartitionsRequest, OfCatalog!Versions, OfCatalog!NoVersion,
                  Requested, OfCatalog!AllKinds
    <2>4. CASE r \in OfCatalog!DataRequest
      BY <2>4 DEF OfCatalog!DataRequest, OfCatalog!NoVersion, Requested, OfCatalog!AllKinds
    <2>5. CASE r \in OfCatalog!PrefetchTilesRequest
      BY <2>5 DEF OfCatalog!PrefetchTilesRequest, OfCatalog!Versions, OfCatalog!NoVersion,
                  Requested, OfCatalog!AllKinds
    <2> QED BY <1>2, <2>1, <2>2, <2>3, <2>4, <2>5
  <1> HIDE DEF All
  <1> QED BY <1>1, <1>2

(* A task that there is not yet.                                           *)
LEMMA NoTaskGood ==
    ASSUME NEW last \in Nat, NEW keys, NEW whole
    PROVE  TaskGood(OfCatalog!NoTask, last, keys, whole)
  <1>1. PICK N : N = OfCatalog!NoTask
    OBVIOUS
  <1>2. /\ DOMAIN N = Fields /\ N.pc = "none" /\ N.status = "pending" /\ N.todo = <<>>
        /\ N.option = "none" /\ N.version = 0 /\ N.since = 0
        /\ N.request = [kind |-> "none", version |-> 0, named |-> "nothing"]
    BY <1>1 DEF OfCatalog!NoTask, Fields, OfCatalog!NoVersion, OfCatalog!Request
  <1>3. ~HasEnded(N) /\ ~Getting(N) /\ ~HasAnswer(N)
    BY <1>2 DEF HasEnded, Getting, HasAnswer
  <1>4. OptionGood(N) /\ AnswerGood(N, last) /\ VersionGood(N) /\ WholeGood(N, keys)
    BY <1>2, <1>3 DEF OptionGood, AnswerGood, VersionGood, WholeGood
  <1> QED BY <1>1, <1>2, <1>3, <1>4 DEF TaskGood, OfCatalog!Pcs

(* The tasks of a fetch are the same for all of them.                      *)
LEMMA SameSchedule ==
    ASSUME NEW f, NEW r, NEW option
    PROVE  /\ OfVersioned!Schedule(f, r, option) = OfCatalog!Schedule(f, r, option)
           /\ OfVolatile!Schedule(f, r, option) = OfCatalog!Schedule(f, r, option)
  BY DEF OfCatalog!Schedule, OfVersioned!Schedule, OfVolatile!Schedule,
         OfCatalog!NewTask, OfVersioned!NewTask, OfVolatile!NewTask,
         OfCatalog!NoTask, OfVersioned!NoTask, OfVolatile!NoTask,
         OfCatalog!Request, OfVersioned!Request, OfVolatile!Request,
         OfCatalog!NoVersion, OfVersioned!NoVersion, OfVolatile!NoVersion,
         OfCatalog!Resources, OfVersioned!Resources, OfVolatile!Resources,
         OfCatalog!GetVersionedPartitions, OfVersioned!GetVersionedPartitions,
           OfVolatile!GetVersionedPartitions,
         OfCatalog!GetVolatilePartitions, OfVersioned!GetVolatilePartitions,
           OfVolatile!GetVolatilePartitions,
         OfCatalog!GetVersionedData, OfVersioned!GetVersionedData, OfVolatile!GetVersionedData,
         OfCatalog!GetVolatileData, OfVersioned!GetVolatileData, OfVolatile!GetVolatileData,
         OfCatalog!Prefetch, OfVersioned!Prefetch, OfVolatile!Prefetch,
         OfCatalog!Version, OfVersioned!Version, OfVolatile!Version,
         OfCatalog!NamedHandle, OfVersioned!NamedHandle, OfVolatile!NamedHandle,
         OfCatalog!Handle, OfVersioned!Handle, OfVolatile!Handle,
         OfCatalog!Partition, OfVersioned!Partition, OfVolatile!Partition,
         OfCatalog!Tasks, OfVersioned!Tasks, OfVolatile!Tasks

(* Call: the tasks of the fetch are new.                                   *)
LEMMA CallKeeps ==
    ASSUME RepositoryInv, NEW f \in 1..2, NEW r, Requested(r), NEW option,
           task[<<f, "user">>].pc = "none", task' = OfCatalog!Schedule(f, r, option),
           UNCHANGED <<latest, cache, called, lost, refused>>
    PROVE  RepositoryInv'
  <1>1. /\ latest \in Nat \ {0} /\ Whole' = Whole
        /\ task' = [t \in OfCatalog!Tasks |-> task'[t]] /\ DOMAIN task' = OfCatalog!Tasks
    BY DEF RepositoryInv, Whole, OfCatalog!Schedule
  <1>2. TaskGood(OfCatalog!NoTask, latest, DOMAIN cache, Whole)
    BY <1>1, NoTaskGood
  <1>3. ASSUME NEW t \in OfCatalog!Tasks
        PROVE  TaskGood(task'[t], latest, DOMAIN cache, Whole)
    <2>1. CASE t[1] # f
      BY <2>1 DEF OfCatalog!Schedule, RepositoryInv
    <2>2. CASE t[1] = f
      <3>1. task'[t] = OfCatalog!NoTask \/ \E o : task'[t] = OfCatalog!NewTask(r, o)
        BY <2>2 DEF OfCatalog!Schedule
      <3>2. \A o : TaskGood(OfCatalog!NewTask(r, o), latest, DOMAIN cache, Whole)
        BY <1>1, NewGood
      <3> QED BY <1>2, <3>1, <3>2
    <2> QED BY <2>1, <2>2
  <1>4. (OfCatalog!CalledOnce)'
    <2>1. \A g \in 1..2 : task[<<g, "user">>].pc = "done" <=> called[g] = 1
      BY DEF RepositoryInv, OfCatalog!CalledOnce
    <2>2. ASSUME NEW g \in 1..2, g # f PROVE task'[<<g, "user">>] = task[<<g, "user">>]
      BY <2>2, TasksOf DEF OfCatalog!Schedule
    <2>3. task'[<<f, "user">>].pc = "get"
      <3>1. \E o : task'[<<f, "user">>] = OfCatalog!NewTask(r, o)
        <4>1. PICK t \in OfCatalog!Tasks : t = <<f, "user">>
          BY TasksOf
        <4>2. t[1] = f /\ t[2] = "user"
          BY <4>1
        <4>3. \E o : task'[t] = OfCatalog!NewTask(r, o)
          BY <4>2 DEF OfCatalog!Schedule
        <4> QED BY <4>1, <4>3
      <3>2. PICK o : task'[<<f, "user">>] = OfCatalog!NewTask(r, o)
        BY <3>1
      <3>3. IsNew(OfCatalog!NewTask(r, o), r, o)
        BY NewFields
      <3>4. OfCatalog!NewTask(r, o).pc = "get"
        BY <3>3 DEF IsNew
      <3> QED BY <3>2, <3>4
    <2> QED BY <2>1, <2>2, <2>3 DEF OfCatalog!CalledOnce
  <1> QED BY <1>1, <1>3, <1>4 DEF RepositoryInv

(* Publish: what was got or stored before is no later than the latest      *)
(* version.                                                                *)
LEMMA PublishKeeps ==
    ASSUME ReadRepositoryAssumption, RepositoryInv, OfCatalog!Publish
    PROVE  RepositoryInv'
  <1>1. /\ latest \in Nat /\ latest' = latest + 1 /\ latest' \in 1..MaxVersion
        /\ UNCHANGED <<cache, task, called, lost, refused>> /\ Whole' = Whole
        /\ Whole \in BOOLEAN
    BY DEF OfCatalog!Publish, RepositoryInv, Whole, OfCatalog!ReadRepositoryAssumption
  <1>2. ASSUME NEW t \in OfCatalog!Tasks
        PROVE  TaskGood(task[t], latest', DOMAIN cache, Whole)
    BY <1>1, GoodLater DEF RepositoryInv
  <1>3. CacheGood(cache, latest', Whole)
    BY <1>1 DEF RepositoryInv, CacheGood, EntryGood
  <1> QED BY <1>1, <1>2, <1>3 DEF RepositoryInv, OfCatalog!CalledOnce

(* Lose: the cache is not whole any more.                                  *)
LEMMA LoseKeeps ==
    ASSUME RepositoryInv, NEW k, OfCatalog!Forget({k}), lost' = lost + 1,
           UNCHANGED <<latest, task, called, refused>>
    PROVE  RepositoryInv'
  <1>1. lost' \in Nat /\ Whole' = FALSE /\ latest \in Nat /\ Whole \in BOOLEAN /\ Whole' \in BOOLEAN
    BY DEF RepositoryInv, Whole
  <1>2. CacheGood(cache', latest, FALSE)
    BY ForgetGood DEF RepositoryInv
  <1>3. ASSUME NEW t \in OfCatalog!Tasks
        PROVE  TaskGood(task[t], latest, DOMAIN cache', Whole')
    <2>1. TaskGood(task[t], latest, DOMAIN cache, Whole)
      BY DEF RepositoryInv
    <2> QED BY <1>1, <2>1, GoodLater
  <1> QED BY <1>1, <1>2, <1>3 DEF RepositoryInv, OfCatalog!CalledOnce

(* What the three clients do, Init, and the invariant.                     *)
LEMMA RepositoryNext ==
    ASSUME ReadRepositoryAssumption, RepositoryInv,
           OfCatalog!Next \/ OfVersioned!Next \/ OfVolatile!Next
    PROVE  RepositoryInv'
  <1>1. ASSUME NEW f \in 1..2, NEW r, Requested(r), NEW o,
               \/ OfCatalog!Call(f, r, o) \/ OfVersioned!Call(f, r, o) \/ OfVolatile!Call(f, r, o)
        PROVE  RepositoryInv'
    <2>1. /\ task[<<f, "user">>].pc = "none" /\ task' = OfCatalog!Schedule(f, r, o)
          /\ UNCHANGED <<latest, cache, called, lost, refused>>
      <3>1. CASE OfCatalog!Call(f, r, o)
        BY <3>1 DEF OfCatalog!Call
      <3>2. CASE OfVersioned!Call(f, r, o)
        BY <3>2, SameSchedule DEF OfVersioned!Call
      <3>3. CASE OfVolatile!Call(f, r, o)
        BY <3>3, SameSchedule DEF OfVolatile!Call
      <3> QED BY <1>1, <3>1, <3>2, <3>3
    <2> QED BY <1>1, <2>1, CallKeeps
  <1>2. ASSUME NEW t \in OfCatalog!Tasks, OfCatalog!Step(t)
        PROVE  RepositoryInv'
    BY <1>2, RejectKeeps, GetKeeps, AskKeeps, PutAnswerKeeps, ForgetRefusedKeeps DEF OfCatalog!Step
  <1>3. ASSUME OfCatalog!Publish \/ OfVersioned!Publish \/ OfVolatile!Publish
        PROVE  RepositoryInv'
    BY <1>3, PublishKeeps DEF OfCatalog!Publish, OfVersioned!Publish, OfVolatile!Publish
  <1>4. ASSUME NEW k, OfCatalog!Lose(k) \/ OfVersioned!Lose(k) \/ OfVolatile!Lose(k)
        PROVE  RepositoryInv'
    <2>1. OfCatalog!Forget({k}) /\ lost' = lost + 1 /\ UNCHANGED <<latest, task, called, refused>>
      BY <1>4 DEF OfCatalog!Lose, OfVersioned!Lose, OfVolatile!Lose,
                  OfCatalog!Forget, OfVersioned!Forget, OfVolatile!Forget,
                  OfCatalog!Restrict, OfVersioned!Restrict, OfVolatile!Restrict
    <2> QED BY <2>1, LoseKeeps
  <1>5. OfVersioned!Tasks = OfCatalog!Tasks /\ OfVolatile!Tasks = OfCatalog!Tasks
    BY DEF OfCatalog!Tasks, OfVersioned!Tasks, OfVolatile!Tasks
  <1>6. CASE OfCatalog!Next
    BY <1>1, <1>2, <1>3, <1>4, <1>6, RequestsOf DEF OfCatalog!Next
  <1>7. CASE OfVersioned!Next
    BY <1>1, <1>2, <1>3, <1>4, <1>5, <1>7, RequestsOf, SameSteps DEF OfVersioned!Next
  <1>8. CASE OfVolatile!Next
    BY <1>1, <1>2, <1>3, <1>4, <1>5, <1>8, RequestsOf, SameSteps DEF OfVolatile!Next
  <1> QED BY <1>6, <1>7, <1>8

(* Init: nothing is cached and nothing was called.                         *)
LEMMA RepositoryFirst ==
    ASSUME ReadRepositoryAssumption, OfCatalog!Init
    PROVE  RepositoryInv
  <1>1. /\ latest = 1 /\ latest \in 1..MaxVersion /\ cache = <<>> /\ lost = 0 /\ refused = FALSE
        /\ task = [t \in OfCatalog!Tasks |-> OfCatalog!NoTask] /\ called = [f \in 1..2 |-> 0]
    BY DEF OfCatalog!Init, OfCatalog!ReadRepositoryAssumption
  <1>2. TaskGood(OfCatalog!NoTask, latest, DOMAIN cache, Whole)
    BY <1>1, NoTaskGood DEF Whole
  <1>3. CacheGood(cache, latest, Whole)
    BY <1>1 DEF CacheGood
  <1>4. OfCatalog!CalledOnce
    <2>1. OfCatalog!NoTask.pc = "none"
      BY DEF OfCatalog!NoTask
    <2> QED BY <1>1, <2>1, TasksOf DEF OfCatalog!CalledOnce
  <1>5. /\ DOMAIN task = OfCatalog!Tasks /\ task = [t \in OfCatalog!Tasks |-> task[t]]
        /\ \A t \in OfCatalog!Tasks : task[t] = OfCatalog!NoTask
    BY <1>1
  <1>6. \A t \in OfCatalog!Tasks : TaskGood(task[t], latest, DOMAIN cache, Whole)
    BY <1>2, <1>5
  <1>7. called \in [1..2 -> 0..1]
    BY <1>1
  <1>8. lost \in Nat /\ refused \in BOOLEAN
    BY <1>1
  <1> QED BY <1>1, <1>3, <1>4, <1>5, <1>6, <1>7, <1>8 DEF RepositoryInv

(* The steps of the other clients leave the repositories alone.            *)
LEMMA RepositoryRun ==
    ASSUME ReadRepositoryAssumption, RepositoryInv, [MCNext]_all
    PROVE  RepositoryInv'
  <1>1. CASE UNCHANGED repositoryVars
    <2>1. /\ Whole' = Whole /\ latest' = latest /\ cache' = cache /\ task' = task
          /\ called' = called /\ lost' = lost /\ refused' = refused
      BY <1>1 DEF repositoryVars, Whole
    <2> QED BY <2>1 DEF RepositoryInv, OfCatalog!CalledOnce
  <1>2. CASE OfCatalog!Next \/ OfVersioned!Next \/ OfVolatile!Next
    BY <1>2, RepositoryNext
  <1>3. UNCHANGED repositoryVars \/ OfCatalog!Next \/ OfVersioned!Next \/ OfVolatile!Next
    BY DEF MCNext, all, Prefetch, Stream, Repository
  <1> QED BY <1>1, <1>2, <1>3

(* The two properties follow.                                              *)
LEMMA RepositoryInvImplies ==
    ASSUME RepositoryInv
    PROVE  OfCatalog!FetchOptionKept /\ OfCatalog!OneVersion /\ OfCatalog!NothingMissing
  <1>1. \A t \in OfCatalog!Tasks :
            /\ OptionGood(task[t]) /\ VersionGood(task[t])
            /\ Whole => WholeGood(task[t], DOMAIN cache)
            /\ OfCatalog!Ok(t) <=> HasEnded(task[t])
    BY DEF RepositoryInv, TaskGood, OfCatalog!Ok, HasEnded
  <1>2. OfCatalog!FetchOptionKept
    BY <1>1 DEF OptionGood, OfCatalog!FetchOptionKept
  <1>3. OfCatalog!OneVersion
    BY <1>1 DEF VersionGood, OfCatalog!OneVersion, OfCatalog!NoVersion
  <1>4. OfCatalog!NothingMissing
    BY <1>1 DEF WholeGood, OfCatalog!NothingMissing, Whole, OfCatalog!PartitionKey,
                OfCatalog!DataKey, OfCatalog!Handle, Named
  <1> QED BY <1>2, <1>3, <1>4

(* The clients of the repositories, whatever partitions and versions there *)
(* are: a fetch keeps to its FetchOptions.                                 *)
THEOREM RunFetchOptionKept == MCSpec => []FetchOptionKept
  <1>1. MCInit => RepositoryInv
    BY RepositoryFirst, ReadRepositoryAssumption DEF MCInit
  <1>2. RepositoryInv /\ [MCNext]_all => RepositoryInv'
    BY RepositoryRun, ReadRepositoryAssumption
  <1>3. RepositoryInv => FetchOptionKept
    BY RepositoryInvImplies DEF FetchOptionKept
  <1> QED BY <1>1, <1>2, <1>3, PTL DEF MCSpec

(* And answers from one version, with nothing of it missing.               *)
THEOREM RunVersionKept == MCSpec => []VersionKept
  <1>1. MCInit => RepositoryInv
    BY RepositoryFirst, ReadRepositoryAssumption DEF MCInit
  <1>2. RepositoryInv /\ [MCNext]_all => RepositoryInv'
    BY RepositoryRun, ReadRepositoryAssumption
  <1>3. RepositoryInv => VersionKept
    BY RepositoryInvImplies DEF VersionKept
  <1> QED BY <1>1, <1>2, <1>3, PTL DEF MCSpec

-----------------------------------------------------------------------------
(* The run                                                                 *)

(* Only Lose counts entries lost, up to the bound of its client.           *)
Bounded == lost \in 0..(IF client = "versioned" THEN 0 ELSE 1)

(* Each client loses at most as many entries as its instance allows        *)
(* (Lose).                                                                 *)
LEMMA LossCounted ==
    ASSUME Bounded, [MCNext]_all
    PROVE  Bounded'
  <1>1. client' = client
    BY DEF MCNext, Prefetch, Stream, Repository, all
  <1>2. CASE lost' = lost
    BY <1>1, <1>2 DEF Bounded
  <1>3. CASE client = "catalog" /\ OfCatalog!Next
    <2>1. ASSUME NEW k, OfCatalog!Lose(k) PROVE Bounded'
      BY <1>1, <1>3, <2>1 DEF OfCatalog!Lose, Bounded
    <2>2. ASSUME NEW t, OfCatalog!Step(t) PROVE lost' = lost
      BY <2>2 DEF OfCatalog!Step, OfCatalog!Reject, OfCatalog!Get, OfCatalog!Ask,
                  OfCatalog!PutAnswer, OfCatalog!ForgetRefused
    <2>3. ASSUME NEW f, NEW r, NEW o, OfCatalog!Call(f, r, o) PROVE lost' = lost
      BY <2>3 DEF OfCatalog!Call
    <2>4. OfCatalog!Publish => lost' = lost
      BY DEF OfCatalog!Publish
    <2> QED BY <1>2, <1>3, <2>1, <2>2, <2>3, <2>4 DEF OfCatalog!Next
  <1>4. CASE client = "versioned" /\ OfVersioned!Next
    <2>1. ASSUME NEW k, OfVersioned!Lose(k) PROVE Bounded'
      BY <1>1, <1>4, <2>1 DEF OfVersioned!Lose, Bounded
    <2>2. ASSUME NEW t, OfVersioned!Step(t) PROVE lost' = lost
      BY <2>2 DEF OfVersioned!Step, OfVersioned!Reject, OfVersioned!Get, OfVersioned!Ask,
                  OfVersioned!PutAnswer, OfVersioned!ForgetRefused
    <2>3. ASSUME NEW f, NEW r, NEW o, OfVersioned!Call(f, r, o) PROVE lost' = lost
      BY <2>3 DEF OfVersioned!Call
    <2>4. OfVersioned!Publish => lost' = lost
      BY DEF OfVersioned!Publish
    <2> QED BY <1>2, <1>4, <2>1, <2>2, <2>3, <2>4 DEF OfVersioned!Next
  <1>5. CASE client = "volatile" /\ OfVolatile!Next
    <2>1. ASSUME NEW k, OfVolatile!Lose(k) PROVE Bounded'
      BY <1>1, <1>5, <2>1 DEF OfVolatile!Lose, Bounded
    <2>2. ASSUME NEW t, OfVolatile!Step(t) PROVE lost' = lost
      BY <2>2 DEF OfVolatile!Step, OfVolatile!Reject, OfVolatile!Get, OfVolatile!Ask,
                  OfVolatile!PutAnswer, OfVolatile!ForgetRefused
    <2>3. ASSUME NEW f, NEW r, NEW o, OfVolatile!Call(f, r, o) PROVE lost' = lost
      BY <2>3 DEF OfVolatile!Call
    <2>4. OfVolatile!Publish => lost' = lost
      BY DEF OfVolatile!Publish
    <2> QED BY <1>2, <1>5, <2>1, <2>2, <2>3, <2>4 DEF OfVolatile!Next
  <1> QED BY <1>2, <1>3, <1>4, <1>5 DEF MCNext, Prefetch, Stream, Repository, repositoryVars, all

(* The types of all clients, that no tile's promise is set twice           *)
(* (TileCallback) and no user of a fetch is called twice (ScheduleFetch).  *)
THEOREM RunConsistent == MCSpec => []Consistent
  <1>1. MCInit => PrefetchInv /\ RepositoryInv /\ Bounded
    <2>1. ASSUME MCInit PROVE lost = 0
      BY <2>1 DEF MCInit, OfCatalog!Init
    <2> QED BY <2>1, PrefetchFirst, PrefetchAssumption, RepositoryFirst, ReadRepositoryAssumption
            DEF MCInit, Bounded
  <1>2. PrefetchInv /\ [MCNext]_all => PrefetchInv'
    BY PrefetchRun
  <1>3. RepositoryInv /\ [MCNext]_all => RepositoryInv'
    BY RepositoryRun, ReadRepositoryAssumption
  <1>4. Bounded /\ [MCNext]_all => Bounded'
    BY LossCounted
  <1>5. ASSUME PrefetchInv, RepositoryInv, Bounded, StreamRun
        PROVE  Consistent
    <2>1. TypeOK /\ PromiseSetOnce
      BY <1>5 DEF PrefetchInv, RequestInv, TilePromise, PromiseSetOnce
    <2>2. client = "stream" => Sub!TypeOK
      BY <1>5 DEF StreamRun, StreamInv
    <2>3. /\ latest \in 1..MaxVersion /\ refused \in BOOLEAN
          /\ \A k \in DOMAIN cache :
                k[1] \in {"api", "catalog", "latestVersion", "partitions", "partition", "data"}
          /\ DOMAIN task = OfCatalog!Tasks
          /\ \A t \in OfCatalog!Tasks :
                /\ task[t].pc \in OfCatalog!Pcs /\ task[t].version \in 0..latest
                /\ task[t].pc \in {"none", "done"} <=> task[t].todo = <<>>
                /\ task[t].pc = "done" <=> task[t].status \notin {"pending", "forbidden"}
          /\ called \in [1..2 -> 0..1] /\ OfCatalog!CalledOnce
      BY <1>5 DEF RepositoryInv, TaskGood, CacheGood, EntryGood
    <2>4. client = "catalog" => OfCatalog!TypeOK /\ OfCatalog!CalledOnce
      BY <1>5, <2>3 DEF OfCatalog!TypeOK, Bounded
    <2>5. client = "versioned" => OfVersioned!TypeOK /\ OfVersioned!CalledOnce
      BY <1>5, <2>3 DEF OfVersioned!TypeOK, Bounded, OfCatalog!Tasks, OfVersioned!Tasks,
                        OfCatalog!Pcs, OfVersioned!Pcs, OfCatalog!CalledOnce, OfVersioned!CalledOnce
    <2>6. client = "volatile" => OfVolatile!TypeOK /\ OfVolatile!CalledOnce
      BY <1>5, <2>3 DEF OfVolatile!TypeOK, Bounded, OfCatalog!Tasks, OfVolatile!Tasks,
                        OfCatalog!Pcs, OfVolatile!Pcs, OfCatalog!CalledOnce, OfVolatile!CalledOnce
    <2> QED BY <2>1, <2>2, <2>4, <2>5, <2>6 DEF Consistent
  <1> QED BY <1>1, <1>2, <1>3, <1>4, <1>5, StreamInductive, PTL DEF MCSpec
=============================================================================
