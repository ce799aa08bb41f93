-------------------------- MODULE DefaultCacheProofs --------------------------
(***************************************************************************)
(* What DefaultCache promises, proved for any keys, values, life times and *)
(* protected cache: what Get returns is the last value put, is not         *)
(* expired, and is found for as long as it is not, across evictions, full  *)
(* disks, crashes, restarts and the times that a database which does not   *)
(* open leaves to the memory cache alone.                                  *)
(***************************************************************************)
EXTENDS DefaultCache, TLAPS

(* What the three places hold, related to what was put.  A key that is     *)
(* sure has one latest item at most.                                       *)
SureIsOne == \A k \in sure : \A r, q \in latest[k] : r = q

(* What is known of a key of which only the memory is in use is certain. *)
Certain(k) == database = "none" \/ k \in sure

(* Memory holds what is owed, with an end that is no later. *)
MemoryCurrent ==
    \A k \in DOMAIN memory.item :
        \/ shield /\ k \in DOMAIN Protected /\ memory.item[k].value = Protected[k]
        \/ \E r \in Owed(k) :
              /\ r.value = memory.item[k].value
              /\ Certain(k) => memory.item[k].expiry <= r.expiry

(* So does the disk, whether or not its database is open. *)
DiskCurrent ==
    \A k \in Keys : disk.value[k] # None =>
        \E r \in latest[k] :
            /\ r.value = disk.value[k]
            /\ k \in sure => IF disk.expiry[k] = None THEN r.expiry = Never
                             ELSE disk.expiry[k] <= r.expiry

(* What was put and is not expired is on disk, with its own expiry time. *)
DiskFound ==
    \A k \in sure \ inherited : \A r \in latest[k] :
        \/ now >= r.expiry
        \/ /\ disk.value[k] = r.value
           /\ disk.expiry[k] = IF r.expiry = Never THEN None ELSE r.expiry

(* The memory cache m is one, and p is what is left of it.                 *)
IsCache(m) ==
    /\ m = [order |-> m.order, item |-> m.item, expiries |-> m.expiries]
    /\ DOMAIN m.item \subseteq Keys
    /\ \A k \in DOMAIN m.item : m.item[k] \in [value : Values, expiry : 0..Never]
    /\ m.expiries \subseteq ((0..Never) \X Keys)

LeftOf(p, m) ==
    /\ IsCache(p)
    /\ DOMAIN p.item \subseteq DOMAIN m.item
    /\ \A k \in DOMAIN p.item : p.item[k] = m.item[k]

CacheInv ==
    /\ TypeOK /\ IsCache(memory)
    /\ SureIsOne /\ MemoryCurrent /\ DiskCurrent /\ DiskFound

-----------------------------------------------------------------------------
(* The operations of the memory cache: all but Put only take items away *)

(* Keep, of the first items that fit, leaves only what was there.          *)
LEMMA KeepLeaves ==
    ASSUME NEW m, IsCache(m), NEW s PROVE LeftOf(Keep(m, s), m)
  <1> DEFINE left == ItemsAt(m, s)
  <1>1. /\ m = [order |-> m.order, item |-> m.item, expiries |-> m.expiries]
        /\ Keep(m, s) = [m EXCEPT !.order = s, !.item = left]
    BY DEF IsCache, Keep
  <1>2. DOMAIN left \subseteq DOMAIN m.item /\ \A k \in DOMAIN left : left[k] = m.item[k]
    BY DEF ItemsAt
  <1> HIDE DEF left
  <1>3. Keep(m, s) = [order |-> s, item |-> left, expiries |-> m.expiries]
    BY <1>1
  <1> QED BY <1>2, <1>3 DEF IsCache, LeftOf

(* Forget leaves what was there but the keys it is given.                  *)
LEMMA ForgetLeaves ==
    ASSUME NEW m, IsCache(m), NEW S
    PROVE  LeftOf(Forget(m, S), m) /\ DOMAIN Forget(m, S).item \cap S = {}
  <1> DEFINE order == SelectSeq(m.order, LAMBDA k : k \notin S)
             left == [k \in DOMAIN m.item \ S |-> m.item[k]]
  <1>1. /\ m = [order |-> m.order, item |-> m.item, expiries |-> m.expiries]
        /\ Forget(m, S) = [m EXCEPT !.order = order, !.item = left]
    BY DEF IsCache, Forget
  <1>2. /\ DOMAIN left = DOMAIN m.item \ S
        /\ \A k \in DOMAIN left : left[k] = m.item[k]
    OBVIOUS
  <1> HIDE DEF left, order
  <1>3. Forget(m, S) = [order |-> order, item |-> left, expiries |-> m.expiries]
    BY <1>1
  <1> QED BY <1>2, <1>3 DEF IsCache, LeftOf

(* So does the eviction of what no longer fits (LruCache).                 *)
LEMMA TrimLeaves ==
    ASSUME NEW m, IsCache(m) PROVE LeftOf(Trim(m), m)
  BY KeepLeaves DEF Trim

(* And the removal of the items that the index of expiry times names.      *)
LEMMA PurgeTimesLeaves ==
    ASSUME NEW m, IsCache(m), NEW T PROVE LeftOf(PurgeTimes(m, T), m)
  <1> DEFINE f == Forget(m, {e[2] : e \in {x \in m.expiries : x[1] \in T}})
  <1>1. LeftOf(f, m)
    BY ForgetLeaves
  <1>2. PurgeTimes(m, T) = [f EXCEPT !.expiries = {x \in @ : x[1] \notin T}]
    BY DEF PurgeTimes
  <1> HIDE DEF f
  <1> QED BY <1>1, <1>2 DEF LeftOf, IsCache

(* And PurgeExpired, which removes those that are due.                     *)
LEMMA PurgeLeaves ==
    ASSUME NEW m, IsCache(m), NEW t PROVE LeftOf(Purge(m, t), m)
  BY PurgeTimesLeaves DEF Purge

(* And Get, which moves its item to the front or purges it.                *)
LEMMA GetLeaves ==
    ASSUME NEW m, IsCache(m), NEW k, NEW t PROVE LeftOf(MemoryGet(m, k, t), m)
  <1> DEFINE p == [m EXCEPT !.order = ToFront(@, k)]
  <1>1. LeftOf(p, m)
    BY DEF IsCache, LeftOf
  <1>2. LeftOf(m, m)
    BY DEF LeftOf
  <1>3. MemoryGet(m, k, t) \in {m, p, PurgeTimes(p, {m.item[k].expiry})}
    BY DEF MemoryGet
  <1> HIDE DEF p
  <1>4. LeftOf(PurgeTimes(p, {m.item[k].expiry}), p)
    BY <1>1, PurgeTimesLeaves DEF LeftOf
  <1> QED BY <1>1, <1>2, <1>3, <1>4 DEF LeftOf

(* Put leaves of the key that was put the new item or none. *)
LEMMA PutStores ==
    ASSUME NEW m, IsCache(m), NEW k \in Keys, NEW v \in Values, NEW e \in Nat, NEW t,
           e > 0, Due(e, t) \in 0..Never
    PROVE  LET p == MemoryPut(m, k, v, e, t)
           IN  /\ IsCache(p)
               /\ DOMAIN p.item \subseteq DOMAIN m.item \cup {k}
               /\ \A j \in DOMAIN p.item :
                     p.item[j] = IF j = k THEN [value |-> v, expiry |-> Due(e, t)] ELSE m.item[j]
  <1> DEFINE p == Purge(m, t)
             new == k \notin DOMAIN p.item
             q == [order |-> ToFront(p.order, k),
                   item |-> [j \in DOMAIN p.item \cup {k} |->
                               IF j = k THEN [value |-> v, expiry |-> Due(e, t)] ELSE p.item[j]],
                   expiries |-> p.expiries \cup (IF new /\ e # Never THEN {<<Due(e, t), k>>}
                                                 ELSE {})]
  <1>1. LeftOf(p, m)
    BY PurgeLeaves
  <1>2. MemoryPut(m, k, v, e, t) = IF Rejected(e) \/ (new /\ v \in Big) THEN p ELSE Trim(q)
    BY DEF MemoryPut
  <1>3. ~Rejected(e)
    BY MemoryAssumption DEF Rejected
  <1> HIDE DEF p
  <1>4. IsCache(q)
    BY <1>1 DEF IsCache, LeftOf
  <1>5. LeftOf(Trim(q), q)
    BY <1>4, TrimLeaves
  <1>6. \A j \in DOMAIN q.item :
           q.item[j] = IF j = k THEN [value |-> v, expiry |-> Due(e, t)] ELSE p.item[j]
    OBVIOUS
  <1>7. DOMAIN q.item = DOMAIN p.item \cup {k}
    OBVIOUS
  <1>8. CASE new /\ v \in Big
    BY <1>1, <1>2, <1>8 DEF LeftOf
  <1>9. CASE ~(new /\ v \in Big)
    <2> HIDE DEF q, new
    <2> QED BY <1>1, <1>2, <1>3, <1>5, <1>6, <1>7, <1>9 DEF LeftOf
  <1> QED BY <1>8, <1>9

-----------------------------------------------------------------------------
(* Each operation keeps the invariant *)

(* The first state, of closed caches, satisfies the invariant.             *)
LEMMA InitInv == Init => CacheInv
  <1> SUFFICES ASSUME Init PROVE CacheInv
    OBVIOUS
  <1> USE DEF Init
  <1>1. IsCache(memory)
    BY DEF IsCache, Nothing
  <1>2. TypeOK
    <2>1. CacheState
      BY <1>1, MemoryAssumption DEF CacheState, IsCache
    <2>2. shieldPath \in BOOLEAN
      <3>1. CASE DOMAIN Protected = {}
        BY <3>1
      <3>2. CASE DOMAIN Protected # {}
        BY <3>2
      <3> QED BY <3>1, <3>2
    <2>3. {open, diskPath, path, shield, shieldPath} \subseteq BOOLEAN
      BY <2>2
    <2>4. {latest, unsaved} \subseteq [Keys -> SUBSET [value : Values, expiry : 0..Never]]
      OBVIOUS
    <2> QED BY <2>1, <2>3, <2>4 DEF TypeOK, Blank
  <1>3. SureIsOne /\ MemoryCurrent
    BY DEF SureIsOne, MemoryCurrent, Nothing
  <1>4. DiskCurrent /\ DiskFound
    BY DEF DiskCurrent, DiskFound, Blank
  <1> QED BY <1>1, <1>2, <1>3, <1>4 DEF CacheInv

(* A memory cache that is started anew holds nothing. *)
LEMMA NothingHeld ==
    MemoryReset =>
        /\ IsCache(memory)' /\ MemoryCurrent'
        /\ unsaved' \in [Keys -> SUBSET [value : Values, expiry : 0..Never]]
  BY DEF MemoryReset, Nothing, IsCache, MemoryCurrent

(* SetupStorage, however the databases open, starts with empty memory.     *)
LEMMA SetupKeeps ==
    ASSUME CacheInv, NEW d, d \in {disk, Blank}, SetupStorage(d), open' = TRUE, now' = now,
           diskPath' = diskPath
    PROVE  CacheInv'
  <1> USE DEF CacheInv, SetupStorage
  <1>1. /\ IsCache(memory)' /\ MemoryCurrent'
        /\ unsaved' \in [Keys -> SUBSET [value : Values, expiry : 0..Never]]
    BY NothingHeld
  <1>2. CacheState'
    BY <1>1 DEF TypeOK, CacheState, IsCache
  <1>3. /\ {open, diskPath, path, shield, shieldPath}' \subseteq BOOLEAN
        /\ database' \in {"none", "open", "closed"}
        /\ database' = "open" => open' /\ path'
        /\ disk' \in {disk, Blank}
    BY DEF TypeOK, OpenMutable
  <1>4. CASE disk' = Blank
    <2>1. Forgotten
      BY <1>4
    <2>2. SureIsOne' /\ DiskCurrent' /\ DiskFound'
      BY <1>4, <2>1 DEF Forgotten, SureIsOne, DiskCurrent, DiskFound, Blank
    <2>3. TypeOK'
      BY <1>1, <1>2, <1>3, <1>4, <2>1 DEF TypeOK, Forgotten, Blank
    <2> QED BY <1>1, <2>2, <2>3
  <1>5. CASE disk' # Blank
    <2>1. disk' = disk /\ UNCHANGED diskHistory
      BY <1>3, <1>5
    <2>2. SureIsOne' /\ DiskCurrent' /\ DiskFound'
      BY <2>1 DEF diskHistory, SureIsOne, DiskCurrent, DiskFound
    <2>3. TypeOK'
      BY <1>1, <1>2, <1>3, <2>1 DEF TypeOK, diskHistory
    <2> QED BY <1>1, <2>2, <2>3
  <1> QED BY <1>4, <1>5

(* Open and Close.                                                         *)
LEMMA OpenKeeps == CacheInv /\ Open => CacheInv'
  BY SetupKeeps DEF Open

(* What drops the memory cache and leaves the disk keeps the invariant:    *)
(* Close, the end of an object, and a Clear that fails.                    *)
LEMMA ResetKeeps ==
    ASSUME CacheInv, MemoryReset, UNCHANGED <<now, diskHistory, diskPath, disk>>,
           {open, path, shield, shieldPath}' \subseteq BOOLEAN, database' \in {"none", "closed"}
    PROVE  CacheInv'
  <1> USE DEF CacheInv, diskHistory
  <1>1. /\ IsCache(memory)' /\ MemoryCurrent'
        /\ unsaved' \in [Keys -> SUBSET [value : Values, expiry : 0..Never]]
    BY NothingHeld
  <1>2. CacheState'
    BY <1>1 DEF TypeOK, CacheState, IsCache
  <1>3. TypeOK'
    BY <1>1, <1>2 DEF TypeOK
  <1>4. SureIsOne' /\ DiskCurrent' /\ DiskFound'
    BY DEF SureIsOne, DiskCurrent, DiskFound
  <1> QED BY <1>1, <1>3, <1>4

(* Close drops the memory cache with the databases.                        *)
LEMMA CloseKeeps == CacheInv /\ Close => CacheInv'
  <1> SUFFICES ASSUME CacheInv, Close PROVE CacheInv'
    OBVIOUS
  <1>1. {open, path, shield, shieldPath}' \subseteq BOOLEAN /\ database' \in {"none", "closed"}
    BY DEF CacheInv, TypeOK, Close, Closed
  <1> QED BY <1>1, ResetKeeps DEF Close, Closed

(* So does the end of the object, and the next has its paths anew.         *)
LEMMA NewPaths ==
    ASSUME CacheInv, NewObject
    PROVE  /\ {open, path, shield, shieldPath}' \subseteq BOOLEAN /\ database' = "none"
           /\ MemoryReset
  <1>1. path' \in BOOLEAN /\ shieldPath' \in BOOLEAN
    <2>1. diskPath \in BOOLEAN
      BY DEF CacheInv, TypeOK
    <2>2. CASE DOMAIN Protected = {}
      BY <2>1, <2>2 DEF NewObject
    <2>3. CASE DOMAIN Protected # {}
      BY <2>1, <2>3 DEF NewObject
    <2> QED BY <2>2, <2>3
  <1> QED BY <1>1 DEF NewObject, Closed

LEMMA RestartKeeps == CacheInv /\ Restart => CacheInv'
  BY NewPaths, ResetKeeps DEF Restart

(* Clear removes everything and sets the storage up again, or fails.       *)
LEMMA ClearKeeps == CacheInv /\ Clear => CacheInv'
  <1> SUFFICES ASSUME CacheInv, Clear PROVE CacheInv'
    OBVIOUS
  <1>1. CASE SetupStorage(IF database = "none" THEN disk ELSE Blank)
    <2>1. open' = TRUE
      BY DEF CacheInv, TypeOK, Clear
    <2> QED BY <1>1, <2>1, SetupKeeps DEF Clear
  <1>2. CASE ~SetupStorage(IF database = "none" THEN disk ELSE Blank)
    <2>1. {open, path, shield, shieldPath}' \subseteq BOOLEAN /\ database' = "closed"
      BY <1>2 DEF CacheInv, TypeOK, Clear
    <2> QED BY <1>2, <2>1, ResetKeeps DEF Clear
  <1> QED BY <1>1, <1>2

(* Time passes: items expire where they are.                               *)
LEMMA TimeKeeps == CacheInv /\ TimePasses => CacheInv'
  <1> SUFFICES ASSUME CacheInv, TimePasses PROVE CacheInv'
    OBVIOUS
  <1> USE DEF CacheInv, TimePasses, Tick, storageVars, diskHistory
  <1>1. CacheState' /\ now \in Nat
    BY MemoryAssumption DEF TypeOK, CacheState
  <1>2. TypeOK'
    BY <1>1 DEF TypeOK
  <1>3. IsCache(memory)'
    BY DEF IsCache
  <1>4. SureIsOne' /\ MemoryCurrent' /\ DiskCurrent'
    BY DEF SureIsOne, MemoryCurrent, DiskCurrent, Owed, Certain
  <1>5. ASSUME NEW k \in sure \ inherited, NEW r \in latest[k], now >= r.expiry
        PROVE  now + 1 >= r.expiry
    <2>1. r.expiry \in 0..Never
      BY DEF TypeOK
    <2> QED BY <1>1, <1>5, <2>1, MemoryAssumption
  <1>6. DiskFound'
    BY <1>5 DEF DiskFound
  <1> QED BY <1>2, <1>3, <1>4, <1>6

-----------------------------------------------------------------------------
(* Put *)

(* What is put is an item whose end is a time. *)
LEMMA ItemTypes ==
    ASSUME TypeOK, NEW i \in Items
    PROVE  /\ i[1] \in Keys /\ i[2] \in Values /\ i[3] \in Nat /\ i[3] > 0
           /\ Due(i[3], now) \in 0..Never
           /\ i[3] # Never => Due(i[3], now) = i[3] + now /\ Due(i[3], now) < Never
  <1>1. now \in Nat /\ now <= MaxTime /\ MaxTime \in Nat /\ Never \in Nat
    BY MemoryAssumption DEF TypeOK, CacheState
  <1>2. i \in Keys \X Values \X (Nat \ {0}) /\ (i[3] = Never \/ i[3] + MaxTime < Never)
    BY MemoryAssumption
  <1>3. i[1] \in Keys /\ i[2] \in Values /\ i[3] \in Nat \ {0}
    BY <1>2
  <1>4. CASE i[3] = Never
    BY <1>1, <1>3, <1>4 DEF Due
  <1>5. CASE i[3] # Never
    BY <1>1, <1>2, <1>3, <1>5 DEF Due
  <1> QED BY <1>3, <1>4, <1>5

(* The memory after a Put: the old items, and of k the new one or none.    *)
LEMMA MemoryAfterPut ==
    ASSUME CacheInv, NEW k \in Keys, NEW v \in Values, NEW e \in Nat, e > 0,
           Due(e, now) \in 0..Never,
           memory' = MemoryPut(memory, k, v, e, now), shield' = shield,
           [value |-> v, expiry |-> Due(e, now)] \in Owed(k)',
           \A j \in Keys \ {k} : Owed(j)' = Owed(j) /\ (Certain(j)' => Certain(j))
    PROVE  IsCache(memory)' /\ MemoryCurrent'
  <1> DEFINE item == [value |-> v, expiry |-> Due(e, now)]
  <1>1. /\ IsCache(memory')
        /\ DOMAIN memory'.item \subseteq DOMAIN memory.item \cup {k}
        /\ \A j \in DOMAIN memory'.item :
              memory'.item[j] = IF j = k THEN item ELSE memory.item[j]
    BY PutStores DEF CacheInv
  <1>2. IsCache(memory)'
    BY <1>1 DEF IsCache
  <1>3. ASSUME NEW j \in DOMAIN memory'.item
        PROVE  \/ shield' /\ j \in DOMAIN Protected /\ memory'.item[j].value = Protected[j]
               \/ \E r \in Owed(j)' :
                     /\ r.value = memory'.item[j].value
                     /\ Certain(j)' => memory'.item[j].expiry <= r.expiry
    <2>1. CASE j = k
      <3>1. memory'.item[j] = item /\ item.expiry <= item.expiry
        BY <1>1, <2>1
      <3> QED BY <2>1, <3>1
    <2>2. CASE j # k
      <3>1. j \in Keys /\ j \in DOMAIN memory.item /\ memory'.item[j] = memory.item[j]
        BY <1>1, <2>2 DEF IsCache
      <3> QED BY <2>2, <3>1 DEF CacheInv, MemoryCurrent
    <2> QED BY <2>1, <2>2
  <1> QED BY <1>2, <1>3 DEF MemoryCurrent

(* A Put that may have failed adds a candidate and takes the certainty.    *)
LEMMA PartlyKeeps ==
    ASSUME CacheInv, NEW k \in Keys, NEW item \in [value : Values, expiry : 0..Never],
           PartlyStored(k, item), now' = now,
           disk' = disk \/ \E x \in 0..Never : disk' = [disk EXCEPT !.expiry[k] = x]
    PROVE  /\ SureIsOne' /\ DiskCurrent' /\ DiskFound'
           /\ latest' \in [Keys -> SUBSET [value : Values, expiry : 0..Never]]
           /\ sure' \subseteq Keys /\ inherited' \subseteq Keys
           /\ disk' \in [value : [Keys -> Values \cup {None}],
                       expiry : [Keys -> (0..Never) \cup {None}]]
  <1> USE DEF CacheInv
  <1>1. /\ latest \in [Keys -> SUBSET [value : Values, expiry : 0..Never]]
        /\ sure \subseteq Keys /\ inherited \subseteq Keys
        /\ disk \in [value : [Keys -> Values \cup {None}],
                    expiry : [Keys -> (0..Never) \cup {None}]]
    BY DEF TypeOK
  <1>2. /\ \A j \in Keys : latest[j] \subseteq latest'[j]
        /\ \A j \in Keys \ {k} : latest'[j] = latest[j]
        /\ latest' \in [Keys -> SUBSET [value : Values, expiry : 0..Never]]
        /\ sure' = sure \ {k} /\ inherited' = inherited
    BY <1>1 DEF PartlyStored
  <1>3. /\ disk'.value = disk.value
        /\ \A j \in Keys \ {k} : disk'.expiry[j] = disk.expiry[j]
        /\ disk' \in [value : [Keys -> Values \cup {None}],
                    expiry : [Keys -> (0..Never) \cup {None}]]
    BY <1>1
  <1>4. SureIsOne'
    BY <1>1, <1>2 DEF SureIsOne
  <1>5. DiskCurrent'
    BY <1>1, <1>2, <1>3 DEF DiskCurrent
  <1>6. DiskFound'
    BY <1>1, <1>2, <1>3 DEF DiskFound
  <1> QED BY <1>1, <1>2, <1>3, <1>4, <1>5, <1>6

(* Put writes value, expiry and memory item, each write may fail.          *)
LEMMA PutKeeps ==
    ASSUME CacheInv, NEW i \in Items, Put(i[1], i[2], i[3]) PROVE CacheInv'
  <1> DEFINE k == i[1]
             v == i[2]
             e == i[3]
             item == [value |-> v, expiry |-> Due(e, now)]
             timed == StoreExpiry(disk, k, e)
  <1>1. /\ k \in Keys /\ v \in Values /\ e \in Nat /\ e > 0 /\ Due(e, now) \in 0..Never
        /\ e # Never => Due(e, now) < Never
    BY ItemTypes DEF CacheInv
  <1>2. item \in [value : Values, expiry : 0..Never]
    BY <1>1
  <1>3. /\ open /\ memory' = MemoryPut(memory, k, v, e, now)
        /\ now' = now /\ open' = open /\ database' = database /\ path' = path
        /\ shield' = shield /\ shieldPath' = shieldPath /\ diskPath' = diskPath
    BY DEF Put, storageVars
  <1>4. \/ /\ database = "none"
           /\ unsaved' = [unsaved EXCEPT ![k] = {item}] /\ UNCHANGED <<disk, diskHistory>>
        \/ /\ database # "none" /\ unsaved' = unsaved
           /\ \/ Stored(k, item) /\ disk' = [timed EXCEPT !.value[k] = v]
              \/ PartlyStored(k, item) /\ (UNCHANGED disk \/ disk' = timed)
    BY DEF Put
  <1>5. /\ latest \in [Keys -> SUBSET [value : Values, expiry : 0..Never]]
        /\ unsaved \in [Keys -> SUBSET [value : Values, expiry : 0..Never]]
        /\ sure \subseteq Keys /\ inherited \subseteq Keys
        /\ disk \in [value : [Keys -> Values \cup {None}],
                    expiry : [Keys -> (0..Never) \cup {None}]]
        /\ now \in Nat /\ Never \in Nat
    BY MemoryAssumption DEF CacheInv, TypeOK, CacheState
  <1>6. timed = IF e = Never THEN disk ELSE [disk EXCEPT !.expiry[k] = Due(e, now)]
    BY DEF StoreExpiry
  <1> HIDE DEF k, v, e, timed
  <1>7. /\ item \in Owed(k)'
        /\ \A j \in Keys \ {k} : Owed(j)' = Owed(j) /\ (Certain(j)' => Certain(j))
        /\ unsaved' \in [Keys -> SUBSET [value : Values, expiry : 0..Never]]
    <2> HIDE DEF item
    <2>1. CASE /\ database = "none"
               /\ unsaved' = [unsaved EXCEPT ![k] = {item}] /\ UNCHANGED <<disk, diskHistory>>
      BY <1>1, <1>2, <1>3, <1>5, <2>1 DEF Owed, Certain
    <2>2. CASE database # "none" /\ unsaved' = unsaved /\ Stored(k, item)
      BY <1>1, <1>3, <1>5, <2>2 DEF Stored, Owed, Certain
    <2>3. CASE database # "none" /\ unsaved' = unsaved /\ PartlyStored(k, item)
      BY <1>1, <1>3, <1>5, <2>3 DEF PartlyStored, Owed, Certain
    <2> QED BY <1>4, <2>1, <2>2, <2>3
  <1>8. IsCache(memory)' /\ MemoryCurrent'
    <2> HIDE DEF item
    <2>1. [value |-> v, expiry |-> Due(e, now)] = item
      BY DEF item
    <2> QED BY <1>1, <1>3, <1>7, <2>1, MemoryAfterPut
  <1>9. {open, diskPath, path, shield, shieldPath}' \subseteq BOOLEAN
    BY <1>3 DEF CacheInv, TypeOK
  <1>10. /\ SureIsOne' /\ DiskCurrent' /\ DiskFound'
         /\ latest' \in [Keys -> SUBSET [value : Values, expiry : 0..Never]]
         /\ sure' \subseteq Keys /\ inherited' \subseteq Keys
         /\ disk' \in [value : [Keys -> Values \cup {None}],
                     expiry : [Keys -> (0..Never) \cup {None}]]
    <2>1. CASE PartlyStored(k, item) /\ (UNCHANGED disk \/ disk' = timed)
      BY <1>1, <1>2, <1>3, <1>6, <2>1, PartlyKeeps
    <2>2. CASE UNCHANGED <<disk, diskHistory>>
      BY <1>3, <1>5, <2>2 DEF diskHistory, CacheInv, SureIsOne, DiskCurrent, DiskFound
    <2>3. CASE Stored(k, item) /\ disk' = [timed EXCEPT !.value[k] = v]
      <3>1. /\ latest'[k] = {item} /\ sure' = sure \cup {k}
            /\ latest' \in [Keys -> SUBSET [value : Values, expiry : 0..Never]]
            /\ inherited' \subseteq Keys
            /\ \A j \in Keys \ {k} : latest'[j] = latest[j]
            /\ \A j \in Keys \ {k} : j \in inherited' <=> j \in inherited
            /\ k \notin inherited' => item.expiry # Never \/ disk.expiry[k] = None
        BY <1>1, <1>2, <1>5, <2>3 DEF Stored
      <3>2. SureIsOne'
        BY <1>5, <3>1 DEF CacheInv, SureIsOne
      <3>3. /\ disk' \in [value : [Keys -> Values \cup {None}],
                        expiry : [Keys -> (0..Never) \cup {None}]]
            /\ disk'.value[k] = v
            /\ disk'.expiry[k] = IF e = Never THEN disk.expiry[k] ELSE Due(e, now)
            /\ \A j \in Keys \ {k} : /\ disk'.value[j] = disk.value[j]
                                     /\ disk'.expiry[j] = disk.expiry[j]
        BY <1>1, <1>5, <1>6, <2>3
      <3>4. item.value = v /\ item.expiry = Due(e, now) /\ (e = Never <=> item.expiry = Never)
        BY <1>1 DEF Due
      <3> HIDE DEF item
      <3>5. DiskCurrent'
        <4> SUFFICES ASSUME NEW j \in Keys, disk'.value[j] # None
                     PROVE  \E r \in latest'[j] :
                               /\ r.value = disk'.value[j]
                               /\ j \in sure' => IF disk'.expiry[j] = None THEN r.expiry = Never
                                                 ELSE disk'.expiry[j] <= r.expiry
          BY DEF DiskCurrent
        <4>1. CASE j = k
          <5>1. disk'.expiry[k] = None => e = Never
            BY <1>1, <3>3, MemoryAssumption
          <5>2. disk'.expiry[k] # None => disk'.expiry[k] <= item.expiry
            <6>1. CASE e = Never
              BY <1>1, <1>5, <3>3, <3>4, <6>1
            <6>2. CASE e # Never
              BY <1>1, <3>3, <3>4, <6>2
            <6> QED BY <6>1, <6>2
          <5> QED BY <3>1, <3>3, <3>4, <4>1, <5>1, <5>2
        <4>2. CASE j # k
          BY <1>3, <3>1, <3>3, <4>2 DEF CacheInv, DiskCurrent
        <4> QED BY <4>1, <4>2
      <3>6. DiskFound'
        <4> SUFFICES ASSUME NEW j \in sure' \ inherited', NEW r \in latest'[j],
                            ~(now' >= r.expiry)
                     PROVE  /\ disk'.value[j] = r.value
                            /\ disk'.expiry[j] = IF r.expiry = Never THEN None ELSE r.expiry
          BY DEF DiskFound
        <4>1. CASE j = k
          BY <1>1, <1>5, <3>1, <3>3, <3>4, <4>1
        <4>2. CASE j # k
          BY <1>3, <1>5, <3>1, <3>3, <4>2 DEF CacheInv, DiskFound
        <4> QED BY <4>1, <4>2
      <3> QED BY <1>1, <1>5, <3>1, <3>2, <3>3, <3>5, <3>6
    <2> HIDE DEF item
    <2> QED BY <1>4, <2>1, <2>2, <2>3
  <1>11. TypeOK'
    BY <1>3, <1>7, <1>8, <1>9, <1>10 DEF CacheInv, TypeOK, CacheState, IsCache
  <1> QED BY <1>8, <1>9, <1>10, <1>11 DEF CacheInv

(* A crash in the middle of Put tears the two entries of its item.         *)
LEMMA CrashKeeps ==
    ASSUME CacheInv, NEW i \in Items, PutCrash(i[1], i[2], i[3]) PROVE CacheInv'
  <1> DEFINE k == i[1]
             item == [value |-> i[2], expiry |-> Due(i[3], now)]
  <1>1. k \in Keys /\ item \in [value : Values, expiry : 0..Never] /\ Due(i[3], now) \in 0..Never
    BY ItemTypes DEF CacheInv
  <1>2. PartlyStored(k, item) /\ NewObject /\ now' = now /\ diskPath' = diskPath
    BY DEF PutCrash
  <1>3. disk' = disk \/ \E x \in 0..Never : disk' = [disk EXCEPT !.expiry[k] = x]
    BY <1>1 DEF PutCrash, StoreExpiry
  <1> HIDE DEF k, item
  <1>4. /\ SureIsOne' /\ DiskCurrent' /\ DiskFound'
        /\ latest' \in [Keys -> SUBSET [value : Values, expiry : 0..Never]]
        /\ sure' \subseteq Keys /\ inherited' \subseteq Keys
        /\ disk' \in [value : [Keys -> Values \cup {None}],
                    expiry : [Keys -> (0..Never) \cup {None}]]
    BY <1>1, <1>2, <1>3, PartlyKeeps
  <1>5. /\ {open, path, shield, shieldPath}' \subseteq BOOLEAN /\ database' = "none"
        /\ MemoryReset
    BY <1>2, NewPaths
  <1>6. /\ IsCache(memory)' /\ MemoryCurrent'
        /\ unsaved' \in [Keys -> SUBSET [value : Values, expiry : 0..Never]]
    BY <1>5, NothingHeld
  <1>7. TypeOK'
    BY <1>2, <1>4, <1>5, <1>6 DEF CacheInv, TypeOK, CacheState, IsCache
  <1> QED BY <1>4, <1>6, <1>7 DEF CacheInv

-----------------------------------------------------------------------------
(* Get *)

(* Items that go leave the others as current as they were. *)
LEMMA MemoryLess ==
    ASSUME CacheInv, LeftOf(memory', memory), shield' = shield,
           \A k \in DOMAIN memory'.item : Owed(k)' = Owed(k) /\ (Certain(k)' => Certain(k))
    PROVE  IsCache(memory)' /\ MemoryCurrent'
  <1>1. IsCache(memory)'
    BY DEF LeftOf, IsCache
  <1>2. MemoryCurrent'
    BY DEF LeftOf, CacheInv, MemoryCurrent
  <1> QED BY <1>1, <1>2

(* A Get that finds something on a disk stores it in memory.               *)
LEMMA MemoryAfterGet ==
    ASSUME CacheInv, NEW k \in Keys, NEW v \in Values, NEW e \in Nat, e > 0,
           Due(e, now) \in 0..Never,
           memory' = MemoryPut(MemoryGet(memory, k, now), k, v, e, now),
           UNCHANGED <<shield, database, latest, unsaved, sure>>,
           \/ shield /\ k \in DOMAIN Protected /\ v = Protected[k]
           \/ \E r \in Owed(k) : r.value = v /\ (Certain(k) => Due(e, now) <= r.expiry)
    PROVE  IsCache(memory)' /\ MemoryCurrent'
  <1> DEFINE looked == MemoryGet(memory, k, now)
             item == [value |-> v, expiry |-> Due(e, now)]
  <1>1. LeftOf(looked, memory)
    BY GetLeaves DEF CacheInv
  <1>2. IsCache(looked) /\ memory' = MemoryPut(looked, k, v, e, now)
    BY <1>1 DEF LeftOf
  <1> HIDE DEF looked
  <1>3. /\ IsCache(memory')
        /\ DOMAIN memory'.item \subseteq DOMAIN looked.item \cup {k}
        /\ \A j \in DOMAIN memory'.item :
              memory'.item[j] = IF j = k THEN item ELSE looked.item[j]
    BY <1>2, PutStores
  <1>4. IsCache(memory)'
    BY <1>3 DEF IsCache
  <1>5. ASSUME NEW j \in DOMAIN memory'.item
        PROVE  \/ shield /\ j \in DOMAIN Protected /\ memory'.item[j].value = Protected[j]
               \/ \E r \in Owed(j) :
                     /\ r.value = memory'.item[j].value
                     /\ Certain(j) => memory'.item[j].expiry <= r.expiry
    <2>1. CASE j = k
      BY <1>3, <2>1
    <2>2. CASE j # k
      <3>1. j \in DOMAIN memory.item /\ memory'.item[j] = memory.item[j]
        BY <1>1, <1>3, <2>2 DEF LeftOf
      <3> QED BY <3>1 DEF CacheInv, MemoryCurrent
    <2> QED BY <2>1, <2>2
  <1> QED BY <1>4, <1>5 DEF MemoryCurrent, Owed, Certain

(* What is left of an expiry time on disk, and what it comes to in memory. *)
LEMMA RemainingTime ==
    ASSUME TypeOK, NEW k \in Keys, Remaining(k) > 0
    PROVE  /\ Remaining(k) \in Nat
           /\ Due(Remaining(k), now) = IF disk.expiry[k] = None THEN Never ELSE disk.expiry[k]
           /\ Due(Remaining(k), now) \in 0..Never
  <1>1. now \in Nat /\ Never \in Nat /\ (disk.expiry[k] = None \/ disk.expiry[k] \in 0..Never)
    BY MemoryAssumption DEF TypeOK, CacheState
  <1>2. CASE disk.expiry[k] = None
    BY <1>1, <1>2 DEF Remaining, Due
  <1>3. CASE disk.expiry[k] # None
    <2>1. Remaining(k) = disk.expiry[k] - now /\ disk.expiry[k] > now
      BY <1>1, <1>3 DEF Remaining
    <2> QED BY <1>1, <1>3, <2>1 DEF Due
  <1> QED BY <1>2, <1>3

(* Get looks in memory and in both databases, and promotes what it finds.  *)
LEMMA GetKeeps ==
    ASSUME CacheInv, NEW k \in Keys, Get(k) PROVE CacheInv'
  <1>1. /\ now' = now /\ latest' = latest /\ inherited' = inherited /\ unsaved' = unsaved
        /\ open' = open /\ database' = database /\ diskPath' = diskPath /\ path' = path
        /\ shield' = shield /\ shieldPath' = shieldPath
    BY DEF Get, storageVars
  <1>2. /\ latest \in [Keys -> SUBSET [value : Values, expiry : 0..Never]]
        /\ sure \subseteq Keys /\ inherited \subseteq Keys
        /\ disk \in [value : [Keys -> Values \cup {None}],
                    expiry : [Keys -> (0..Never) \cup {None}]]
        /\ now \in Nat /\ Never \in Nat /\ now < Never
    BY MemoryAssumption DEF CacheInv, TypeOK, CacheState
  <1>3. IsCache(memory)' /\ MemoryCurrent'
    <2>1. CASE memory' = MemoryGet(memory, k, now) /\ sure' \subseteq sure
      <3>1. \A j : Owed(j)' = Owed(j) /\ (Certain(j)' => Certain(j))
        BY <1>1, <2>1 DEF Owed, Certain
      <3> QED BY <1>1, <2>1, <3>1, GetLeaves, MemoryLess DEF CacheInv
    <2>2. CASE /\ FromProtected(k) /\ sure' = sure
               /\ memory' = MemoryPut(MemoryGet(memory, k, now), k, Protected[k], Never, now)
      <3>1. Protected[k] \in Values /\ shield /\ k \in DOMAIN Protected
        BY <2>2, DefaultCacheAssumption DEF FromProtected
      <3>2. Never > 0 /\ Due(Never, now) \in 0..Never
        BY <1>2 DEF Due
      <3> QED BY <1>1, <1>2, <2>2, <3>1, <3>2, MemoryAfterGet
    <2>3. CASE /\ FromDisk(k) # None /\ sure' = sure
               /\ memory' = MemoryPut(MemoryGet(memory, k, now), k, FromDisk(k), Remaining(k), now)
      <3>1. database = "open" /\ Remaining(k) > 0 /\ FromDisk(k) = disk.value[k]
        BY <2>3 DEF FromDisk
      <3>2. disk.value[k] \in Values
        BY <1>2, <2>3, <3>1 DEF CacheInv, TypeOK
      <3>3. /\ Remaining(k) \in Nat
            /\ Due(Remaining(k), now) = IF disk.expiry[k] = None THEN Never ELSE disk.expiry[k]
            /\ Due(Remaining(k), now) \in 0..Never
        BY <3>1, RemainingTime DEF CacheInv
      <3>4. PICK r \in Owed(k) :
               /\ r.value = disk.value[k]
               /\ k \in sure => IF disk.expiry[k] = None THEN r.expiry = Never
                                ELSE disk.expiry[k] <= r.expiry
        BY <2>3, <3>1, <3>2 DEF CacheInv, DiskCurrent, Owed
      <3>5. Certain(k) => Due(Remaining(k), now) <= r.expiry
        BY <1>2, <3>1, <3>3, <3>4 DEF Certain
      <3> QED BY <1>1, <2>3, <3>1, <3>2, <3>3, <3>4, <3>5, MemoryAfterGet
    <2> QED BY <2>1, <2>2, <2>3 DEF Get, PurgeDiskItem
  <1>4. \/ UNCHANGED <<disk, sure>>
        \/ Remaining(k) <= 0 /\ PurgeDiskItem(k)
    BY DEF Get
  <1>5. /\ sure' \subseteq sure
        /\ disk' \in [value : [Keys -> Values \cup {None}],
                    expiry : [Keys -> (0..Never) \cup {None}]]
        /\ \A j \in Keys \ {k} : /\ disk'.value[j] = disk.value[j]
                                 /\ disk'.expiry[j] = disk.expiry[j]
        /\ disk'.value[k] \in {disk.value[k], None}
        /\ \/ k \notin sure' \/ disk'.value[k] = None
           \/ disk'.value[k] = disk.value[k] /\ disk'.expiry[k] = disk.expiry[k]
    <2>1. CASE UNCHANGED <<disk, sure>>
      BY <1>2, <2>1
    <2>2. CASE disk' = [disk EXCEPT !.value[k] = None, !.expiry[k] = None] /\ UNCHANGED sure
      BY <1>2, <2>2
    <2>3. CASE disk' = [disk EXCEPT !.value[k] = None] /\ sure' = sure \ {k}
      BY <1>2, <2>3
    <2>4. CASE disk' = [disk EXCEPT !.expiry[k] = None] /\ sure' = sure \ {k}
      BY <1>2, <2>4
    <2> QED BY <1>4, <2>1, <2>2, <2>3, <2>4 DEF PurgeDiskItem
  <1>6. SureIsOne'
    BY <1>1, <1>5 DEF CacheInv, SureIsOne
  <1>7. {open, diskPath, path, shield, shieldPath}' \subseteq BOOLEAN
    BY <1>1 DEF CacheInv, TypeOK
  <1>8. DiskCurrent'
    BY <1>1, <1>5 DEF CacheInv, DiskCurrent
  <1>9. DiskFound'
    <2> SUFFICES ASSUME NEW j \in sure' \ inherited', NEW r \in latest'[j],
                        ~(now' >= r.expiry)
                 PROVE  /\ disk'.value[j] = r.value
                        /\ disk'.expiry[j] = IF r.expiry = Never THEN None ELSE r.expiry
      BY DEF DiskFound
    <2>1. /\ j \in Keys /\ r.expiry \in 0..Never /\ ~(now >= r.expiry)
          /\ disk.value[j] = r.value
          /\ disk.expiry[j] = IF r.expiry = Never THEN None ELSE r.expiry
      BY <1>1, <1>2, <1>5 DEF CacheInv, DiskFound
    <2>2. Remaining(j) > 0
      BY <1>2, <2>1, MemoryAssumption DEF Remaining
    <2>3. CASE j = k
      BY <1>2, <1>4, <2>1, <2>2, <2>3 DEF Remaining
    <2>4. CASE j # k
      BY <1>5, <2>1, <2>4
    <2> QED BY <2>3, <2>4
  <1>10. TypeOK'
    BY <1>1, <1>2, <1>3, <1>5, <1>7 DEF CacheInv, TypeOK, CacheState, IsCache
  <1> QED BY <1>3, <1>6, <1>7, <1>8, <1>9, <1>10 DEF CacheInv

-----------------------------------------------------------------------------
(* Remove and RemoveKeysWithPrefix *)

(* Remove and RemoveKeysWithPrefix remove from memory and from the disk.   *)
LEMMA RemoveKeeps ==
    ASSUME CacheInv, NEW S \in SUBSET Keys, NEW b \in BOOLEAN, RemoveKeys(S, b) PROVE CacheInv'
  <1>1. /\ now' = now /\ sure' = sure /\ inherited' = inherited
        /\ open' = open /\ database' = database /\ diskPath' = diskPath /\ path' = path
        /\ shield' = shield /\ shieldPath' = shieldPath
    BY DEF RemoveKeys, storageVars
  <1>2. /\ latest \in [Keys -> SUBSET [value : Values, expiry : 0..Never]]
        /\ unsaved \in [Keys -> SUBSET [value : Values, expiry : 0..Never]]
        /\ sure \subseteq Keys
        /\ disk \in [value : [Keys -> Values \cup {None}],
                    expiry : [Keys -> (0..Never) \cup {None}]]
        /\ now \in Nat /\ Never \in Nat
    BY MemoryAssumption DEF CacheInv, TypeOK, CacheState
  <1>3. LeftOf(memory', memory) /\ DOMAIN memory'.item \cap S = {}
    BY ForgetLeaves DEF CacheInv, RemoveKeys, MemoryRemove
  <1>4. ASSUME NEW items \in [Keys -> SUBSET [value : Values, expiry : 0..Never]]
        PROVE  /\ Without(items, S) \in [Keys -> SUBSET [value : Values, expiry : 0..Never]]
               /\ \A k \in Keys : Without(items, S)[k] = IF k \in S THEN {} ELSE items[k]
    <2> SUFFICES ASSUME NEW k \in Keys
                 PROVE  (IF k \in S THEN {} ELSE items[k])
                            \in SUBSET [value : Values, expiry : 0..Never]
      BY DEF Without
    <2> QED OBVIOUS
  <1>5. /\ {latest', unsaved'} \subseteq [Keys -> SUBSET [value : Values, expiry : 0..Never]]
        /\ \A k \in Keys \ S : latest'[k] = latest[k] /\ unsaved'[k] = unsaved[k]
        /\ \/ UNCHANGED <<disk, latest>>
           \/ disk' = Erased(disk, S, b) /\ \A k \in S : latest'[k] = {}
    BY <1>2, <1>4 DEF RemoveKeys
  <1>6. /\ disk' \in [value : [Keys -> Values \cup {None}],
                    expiry : [Keys -> (0..Never) \cup {None}]]
        /\ \A k \in Keys \ S : /\ disk'.value[k] = disk.value[k]
                             /\ disk'.expiry[k] = disk.expiry[k]
    BY <1>2, <1>5 DEF Erased
  <1>7. IsCache(memory)' /\ MemoryCurrent'
    <2>1. ASSUME NEW k \in DOMAIN memory'.item
          PROVE  Owed(k)' = Owed(k) /\ (Certain(k)' => Certain(k))
      BY <1>1, <1>3, <1>5 DEF LeftOf, IsCache, Owed, Certain
    <2> QED BY <1>1, <1>3, <2>1, MemoryLess
  <1>8. SureIsOne' /\ DiskCurrent' /\ DiskFound'
    <2>1. CASE UNCHANGED <<disk, latest>>
      BY <1>1, <2>1 DEF CacheInv, SureIsOne, DiskCurrent, DiskFound
    <2>2. CASE disk' = Erased(disk, S, b) /\ \A k \in S : latest'[k] = {}
      <3>1. \A k \in S : disk'.value[k] = None
        BY <1>2, <2>2 DEF Erased
      <3>2. SureIsOne' /\ DiskCurrent'
        BY <1>1, <1>2, <1>5, <1>6, <2>2, <3>1 DEF CacheInv, SureIsOne, DiskCurrent
      <3>3. DiskFound'
        BY <1>1, <1>2, <1>5, <1>6, <2>2 DEF CacheInv, DiskFound
      <3> QED BY <3>2, <3>3
    <2> QED BY <1>5, <2>1, <2>2
  <1>9. {open, diskPath, path, shield, shieldPath}' \subseteq BOOLEAN
    BY <1>1 DEF CacheInv, TypeOK
  <1>10. TypeOK'
    BY <1>1, <1>2, <1>5, <1>6, <1>7, <1>9 DEF CacheInv, TypeOK, CacheState, IsCache
  <1> QED BY <1>7, <1>8, <1>10 DEF CacheInv

-----------------------------------------------------------------------------
(* The theorems *)

(* Every step keeps the invariant.                                         *)
LEMMA CacheStep == CacheInv /\ [Next]_vars => CacheInv'
  <1> SUFFICES ASSUME CacheInv, [Next]_vars PROVE CacheInv'
    OBVIOUS
  <1>1. CASE UNCHANGED vars
    BY <1>1 DEF vars, storageVars, diskHistory, CacheInv, TypeOK, CacheState, IsCache, SureIsOne,
                Owed, Certain, MemoryCurrent, DiskCurrent, DiskFound
  <1>2. CASE Open \/ Close \/ Clear \/ Restart \/ TimePasses
    BY <1>2, OpenKeeps, CloseKeeps, ClearKeeps, RestartKeeps, TimeKeeps
  <1>3. ASSUME NEW i \in Items, Put(i[1], i[2], i[3]) \/ PutCrash(i[1], i[2], i[3])
        PROVE  CacheInv'
    BY <1>3, PutKeeps, CrashKeeps
  <1>4. ASSUME NEW k \in Keys, Get(k) PROVE CacheInv'
    BY <1>4, GetKeeps
  <1>5. ASSUME NEW k \in Keys, Remove(k) PROVE CacheInv'
    BY <1>5, RemoveKeeps DEF Remove
  <1>6. ASSUME NEW S \in Prefixed, RemoveKeysWithPrefix(S) PROVE CacheInv'
    <2>1. S \in SUBSET Keys
      BY MemoryAssumption
    <2> QED BY <1>6, <2>1, RemoveKeeps DEF RemoveKeysWithPrefix
  <1> QED BY <1>1, <1>2, <1>3, <1>4, <1>5, <1>6 DEF Next

(* The invariant always holds.                                             *)
LEMMA CacheAlways == Spec => []CacheInv
  BY InitInv, CacheStep, PTL DEF Spec

(* Every state of the caches and of their disk has its type.               *)
THEOREM CacheTypes == Spec => []TypeOK
  BY CacheAlways, PTL DEF CacheInv

(* Get never returns a value that was overwritten or removed since by an   *)
(* operation that succeeded (DefaultCache::Get over its three caches); and *)
(* what a database that did not open holds is not served until one opens.  *)
THEOREM Current == Spec => []ServedIsCurrent
  <1>1. CacheInv => ServedIsCurrent
    <2> SUFFICES ASSUME CacheInv, NEW k \in Keys, Lookup(k) # None,
                        ~(k \in DOMAIN Protected /\ Lookup(k) = Protected[k])
                 PROVE  \E r \in Owed(k) : r.value = Lookup(k)
      BY DEF ServedIsCurrent
    <2>1. CASE MemoryHit(memory, k, now)
      BY <2>1 DEF CacheInv, MemoryCurrent, MemoryHit, Lookup
    <2>2. CASE ~MemoryHit(memory, k, now)
      <3>1. Lookup(k) = disk.value[k] /\ database = "open"
        BY <2>2 DEF Lookup, FromProtected, FromDisk
      <3> QED BY <3>1 DEF CacheInv, TypeOK, DiskCurrent, Owed
    <2> QED BY <2>1, <2>2
  <1> QED BY <1>1, CacheAlways, PTL

(* Get never returns a value whose expiry time has passed, whichever of    *)
(* the caches it comes from (InMemoryCache::Get, DefaultCache's expiry     *)
(* entries), unless the entries of the item on disk were torn apart.       *)
THEOREM Unexpired == Spec => []NeverServesExpired
  <1>1. CacheInv => NeverServesExpired
    <2> SUFFICES ASSUME CacheInv, NEW k \in Keys, Lookup(k) # None, Certain(k),
                        ~(k \in DOMAIN Protected /\ Lookup(k) = Protected[k])
                 PROVE  \E r \in Owed(k) : r.value = Lookup(k) /\ now <= r.expiry
      BY DEF NeverServesExpired, Certain
    <2>1. /\ now \in Nat /\ Never \in Nat /\ now <= Never
          /\ \A r \in Owed(k) : r.expiry \in 0..Never
          /\ disk.expiry[k] = None \/ disk.expiry[k] \in 0..Never
      BY MemoryAssumption DEF CacheInv, TypeOK, CacheState, Owed
    <2>2. CASE MemoryHit(memory, k, now)
      <3>1. /\ k \in DOMAIN memory.item /\ Lookup(k) = memory.item[k].value
            /\ memory.item[k].expiry \in 0..Never /\ ~(memory.item[k].expiry < now)
        BY <2>2 DEF CacheInv, IsCache, MemoryHit, Expired, Lookup
      <3>2. PICK r \in Owed(k) :
               r.value = Lookup(k) /\ memory.item[k].expiry <= r.expiry
        BY <3>1 DEF CacheInv, MemoryCurrent
      <3> QED BY <2>1, <3>1, <3>2
    <2>3. CASE ~MemoryHit(memory, k, now)
      <3>1. Lookup(k) = disk.value[k] /\ database = "open" /\ Remaining(k) > 0
        BY <2>3 DEF Lookup, FromProtected, FromDisk
      <3>2. PICK r \in Owed(k) :
               /\ r.value = Lookup(k)
               /\ IF disk.expiry[k] = None THEN r.expiry = Never ELSE disk.expiry[k] <= r.expiry
        BY <2>1, <3>1 DEF CacheInv, TypeOK, DiskCurrent, Owed, Certain
      <3>3. disk.expiry[k] = None \/ disk.expiry[k] > now
        BY <2>1, <3>1 DEF Remaining
      <3> QED BY <2>1, <3>2, <3>3
    <2> QED BY <2>2, <2>3
  <1> QED BY <1>1, CacheAlways, PTL

(* A value that a Put stored in the mutable database is found until it     *)
(* expires, after evictions, purges, restarts and times in which that      *)
(* database did not open, whenever it is open (DefaultCache::Put, Get).    *)
THEOREM Found == Spec => []PutIsFound
  <1>1. CacheInv => PutIsFound
    <2> SUFFICES ASSUME CacheInv, open, database = "open",
                        NEW k \in sure \ inherited, NEW r \in latest[k],
                        ~(now >= r.expiry), ~(shield /\ k \in DOMAIN Protected)
                 PROVE  Lookup(k) = r.value
      BY DEF PutIsFound
    <2>1. /\ k \in Keys /\ now \in Nat /\ Never \in Nat
          /\ r \in [value : Values, expiry : 0..Never]
      BY MemoryAssumption DEF CacheInv, TypeOK, CacheState
    <2>2. CASE MemoryHit(memory, k, now)
      <3>1. k \in DOMAIN memory.item /\ Lookup(k) = memory.item[k].value
        BY <2>2 DEF MemoryHit, Lookup
      <3> QED BY <3>1 DEF CacheInv, MemoryCurrent, SureIsOne, Owed
    <2>3. CASE ~MemoryHit(memory, k, now)
      <3>1. /\ disk.value[k] = r.value
            /\ disk.expiry[k] = IF r.expiry = Never THEN None ELSE r.expiry
        BY <2>1 DEF CacheInv, DiskFound
      <3>2. Remaining(k) > 0
        BY <2>1, <3>1, MemoryAssumption DEF Remaining
      <3> QED BY <2>3, <3>1, <3>2 DEF Lookup, FromProtected, FromDisk
    <2> QED BY <2>2, <2>3
  <1> QED BY <1>1, CacheAlways, PTL
=============================================================================
