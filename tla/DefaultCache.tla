----------------------------- MODULE DefaultCache -----------------------------
(***************************************************************************)
(* cache::DefaultCache: the memory cache in front of a read-only protected *)
(* and a mutable disk cache.                                               *)
(*                                                                         *)
(* On disk an item is two entries, the value and "<key>::expiry", that are *)
(* written one after the other.  cache_lock_ makes every operation one     *)
(* step for other threads, but not for a crash or for a disk that is full  *)
(* in between.                                                             *)
(*                                                                         *)
(* What is on disk survives the object: the next one, of this process or a *)
(* later one, has the paths of its settings again, also those that an open *)
(* that failed made this one give up.  It then finds the disk as it was    *)
(* before, whatever was put or removed in memory only meanwhile.           *)
(***************************************************************************)
EXTENDS InMemoryCache, FiniteSets

CONSTANTS
    Protected,      \* what the protected cache holds: a function from some keys
    MaxDoubt        \* bound on the values a key may have after failed Puts

ASSUME DefaultCacheAssumption ==
    /\ DOMAIN Protected \subseteq Keys /\ MaxDoubt \in Nat \ {0}
    /\ \A k \in DOMAIN Protected : Protected[k] \in Values

VARIABLES
    open,           \* is_open_
    database,       \* mutable_cache_: "none", "open", or "closed" after a failed Clear
    diskPath,       \* the application has set disk_path, which is deprecated
    path,           \* settings_.disk_path_mutable is set
    shield,         \* protected_cache_ is open
    shieldPath,     \* settings_.disk_path_protected is set
    disk,           \* entries on disk: value and expiry of each key, or None
    latest,         \* history: what Get may return for each key from the database
    sure,           \* history: the keys whose last Put or purge met no fault
    inherited,      \* history: those put without expiry over an expiry entry
    unsaved         \* history: what Get may return while there is no database

storageVars == <<open, database, diskPath, path, shield, shieldPath>>
diskHistory == <<latest, sure, inherited>>
vars == <<memory, now, disk, storageVars, diskHistory, unsaved>>

Blank == [value |-> [k \in Keys |-> None], expiry |-> [k \in Keys |-> None]]

TypeOK ==
    /\ CacheState
    /\ {latest, unsaved} \subseteq [Keys -> SUBSET [value : Values, expiry : 0..Never]]
    /\ sure \subseteq Keys /\ inherited \subseteq Keys
    /\ {open, diskPath, path, shield, shieldPath} \subseteq BOOLEAN
    /\ database \in {"none", "open", "closed"}
    /\ disk \in [value : [Keys -> Values \cup {None}], expiry : [Keys -> (0..Never) \cup {None}]]
    /\ database = "open" => open /\ path

Init ==
    /\ memory = Nothing /\ now = 0
    /\ open = FALSE /\ database = "none" /\ diskPath \in BOOLEAN /\ path = ~diskPath
    /\ shield = FALSE /\ shieldPath = (DOMAIN Protected # {})
    /\ disk = Blank
    /\ latest = [k \in Keys |-> {}] /\ sure = Keys /\ inherited = {} /\ unsaved = latest

(* The database is empty, so it owes nothing to anyone. *)
Forgotten == latest' = [k \in Keys |-> {}] /\ sure' = Keys /\ inherited' = {}

(* The memory cache is let go of, with all that is in memory only. *)
MemoryReset == memory' = Nothing /\ unsaved' = [k \in Keys |-> {}]

-----------------------------------------------------------------------------
(* Open, Close, Clear *)

(* DiskCache::Open of the mutable database, which holds the entries d: it  *)
(* opens, perhaps repaired by emptying it, or fails, perhaps after it was  *)
(* emptied, and its path is given up.  disk_path stands in for a path that *)
(* is not set, or no longer (ValidateDiskPath).                            *)
OpenMutable(d) ==
    LET given == path \/ diskPath IN
    /\ disk' \in IF given THEN {d, Blank} ELSE {d}
    /\ \/ given /\ database' = "open" /\ path' = TRUE
       \/ database' = "none" /\ path' = FALSE

(* The protected database is opened read-only and never repaired. *)
SetupStorage_MemoryKept(d) ==
    /\ UNCHANGED <<memory, shieldPath>> /\ unsaved' = [k \in Keys |-> {}]
    /\ OpenMutable(d) /\ shield' = shieldPath
    /\ IF disk' = Blank THEN Forgotten ELSE UNCHANGED diskHistory
SetupStorage(d) ==
    /\ MemoryReset
    /\ OpenMutable(d)
    /\ \/ shield' = shieldPath /\ UNCHANGED shieldPath
       \/ shieldPath /\ shield' = FALSE /\ shieldPath' = FALSE
    /\ IF disk' = Blank THEN Forgotten ELSE UNCHANGED diskHistory

Open ==
    /\ open' = TRUE
    /\ SetupStorage(disk)
    /\ UNCHANGED <<now, diskPath>>

Closed == MemoryReset /\ database' = "none" /\ shield' = FALSE /\ open' = FALSE

Close ==
    /\ open /\ Closed
    /\ UNCHANGED <<now, diskHistory, diskPath, path, shieldPath, disk>>

(* The object or its process ends; the next one has its settings anew. *)
NewObject == Closed /\ path' = ~diskPath /\ shieldPath' = (DOMAIN Protected # {})

Restart == NewObject /\ UNCHANGED <<now, diskHistory, diskPath, disk>>

(* Clear removes the mutable database's directory before it opens it anew; *)
(* when it cannot, the database stays closed.                              *)
Clear ==
    /\ open
    /\ \/ SetupStorage(IF database = "none" THEN disk ELSE Blank)
       \/ /\ database # "none" /\ database' = "closed"
          /\ MemoryReset
          /\ UNCHANGED <<diskHistory, path, shield, shieldPath, disk>>
    /\ UNCHANGED <<now, open, diskPath>>

-----------------------------------------------------------------------------
(* Put: memory first, whose refusal is only logged; then the expiry entry, *)
(* unless the item never expires; then the value.                          *)

StoreExpiry_Forgotten(d, k, e) == d
StoreExpiry_Always(d, k, e) == [d EXCEPT !.expiry[k] = e + now]
StoreExpiry(d, k, e) == IF e = Never THEN d ELSE [d EXCEPT !.expiry[k] = Due(e, now)]

Stored(k, item) ==
    /\ latest' = [latest EXCEPT ![k] = {item}]
    /\ sure' = sure \cup {k}
    /\ inherited' = IF item.expiry = Never /\ disk.expiry[k] # None
                    THEN inherited \cup {k} ELSE inherited \ {k}

(* A Put that failed or was cut short may have stored the value or not. *)
PartlyStored(k, item) ==
    /\ Cardinality(latest[k]) < MaxDoubt
    /\ latest' = [latest EXCEPT ![k] = @ \cup {item}]
    /\ sure' = sure \ {k}
    /\ UNCHANGED inherited

(* The disk may be full, or the database closed by a failed Clear. *)
Put(k, v, e) ==
    LET item == [value |-> v, expiry |-> Due(e, now)]
        timed == StoreExpiry(disk, k, e)
    IN  /\ open
        /\ memory' = MemoryPut(memory, k, v, e, now)
        /\ \/ /\ database = "none"
              /\ unsaved' = [unsaved EXCEPT ![k] = {item}] /\ UNCHANGED <<disk, diskHistory>>
           \/ /\ database = "open" /\ disk' = [timed EXCEPT !.value[k] = v]
              /\ Stored(k, item) /\ UNCHANGED unsaved
           \/ /\ database # "none" /\ UNCHANGED <<disk, unsaved>>
              /\ PartlyStored(k, item)
           \/ /\ database = "open" /\ disk' = timed
              /\ PartlyStored(k, item) /\ UNCHANGED unsaved
        /\ UNCHANGED <<now, storageVars>>

(* The process dies between the two entries. *)
PutCrash(k, v, e) ==
    /\ open /\ database = "open"
    /\ disk' = StoreExpiry(disk, k, e)
    /\ PartlyStored(k, [value |-> v, expiry |-> Due(e, now)])
    /\ NewObject /\ UNCHANGED <<now, diskPath>>

-----------------------------------------------------------------------------
(* Get: memory, then the protected cache, then the mutable one *)

Remaining(k) ==
    IF disk.expiry[k] = None THEN Never
    ELSE IF disk.expiry[k] > now THEN disk.expiry[k] - now ELSE 0

FromProtected(k) == shield /\ k \in DOMAIN Protected

FromDisk(k) == IF database = "open" /\ Remaining(k) > 0 THEN disk.value[k] ELSE None

Lookup(k) ==
    IF ~open THEN None
    ELSE IF MemoryHit(memory, k, now) THEN memory.item[k].value
    ELSE IF FromProtected(k) THEN Protected[k]
    ELSE FromDisk(k)

(* Two removals, each of which may fail. *)
PurgeDiskItem(k) ==
    \/ /\ disk' = [disk EXCEPT !.value[k] = None, !.expiry[k] = None]
       /\ UNCHANGED sure
    \/ /\ \/ disk' = [disk EXCEPT !.value[k] = None]
          \/ disk' = [disk EXCEPT !.expiry[k] = None]
       /\ sure' = sure \ {k}

Get(k) ==
    LET looked == MemoryGet(memory, k, now)
    IN  /\ open
        /\ \/ /\ MemoryHit(memory, k, now)
              /\ memory' = looked /\ UNCHANGED <<disk, sure>>
           \/ /\ ~MemoryHit(memory, k, now) /\ FromProtected(k)
              /\ memory' = MemoryPut(looked, k, Protected[k], Never, now)
              /\ UNCHANGED <<disk, sure>>
           \/ /\ ~MemoryHit(memory, k, now) /\ ~FromProtected(k) /\ FromDisk(k) # None
              /\ memory' = MemoryPut(looked, k, FromDisk(k), Remaining(k), now)
              /\ UNCHANGED <<disk, sure>>
           \/ /\ ~MemoryHit(memory, k, now) /\ ~FromProtected(k) /\ FromDisk(k) = None
              /\ memory' = looked
              /\ IF database = "open" /\ Remaining(k) <= 0 THEN PurgeDiskItem(k)
                 ELSE UNCHANGED <<disk, sure>>
        /\ UNCHANGED <<now, latest, inherited, unsaved, storageVars>>

-----------------------------------------------------------------------------
(* Remove leaves the expiry entry; a removal by prefix takes it along. *)

Erased_MemoryOnly(d, S, withExpiry) == d
Erased(d, S, withExpiry) ==
    [value |-> [k \in Keys |-> IF k \in S THEN None ELSE d.value[k]],
     expiry |-> [k \in Keys |-> IF k \in S /\ withExpiry THEN None ELSE d.expiry[k]]]

Without(items, S) == [k \in Keys |-> IF k \in S THEN {} ELSE items[k]]

RemoveKeys(S, withExpiry) ==
    /\ open
    /\ memory' = MemoryRemove(memory, S)
    /\ \/ /\ database = "none"
          /\ unsaved' = Without(unsaved, S) /\ UNCHANGED <<disk, latest>>
       \/ /\ database = "open" /\ disk' = Erased(disk, S, withExpiry)
          /\ latest' = Without(latest, S) /\ UNCHANGED unsaved
       \/ /\ database # "none"
          /\ UNCHANGED <<disk, latest, unsaved>>
    /\ UNCHANGED <<now, storageVars, sure, inherited>>

Remove(k) == RemoveKeys({k}, FALSE)

RemoveKeysWithPrefix(S) == RemoveKeys(S, TRUE)

TimePasses == Tick /\ UNCHANGED <<memory, disk, storageVars, diskHistory, unsaved>>

-----------------------------------------------------------------------------

Next ==
    \/ Open \/ Close \/ Clear \/ Restart
    \/ \E i \in Items : Put(i[1], i[2], i[3]) \/ PutCrash(i[1], i[2], i[3])
    \/ \E k \in Keys : Get(k) \/ Remove(k)
    \/ \E S \in Prefixed : RemoveKeysWithPrefix(S)
    \/ TimePasses

Spec == Init /\ [][Next]_vars

-----------------------------------------------------------------------------
(* Properties *)

(* What Get may return: without a database, what is in memory only.        *)
Owed(k) == IF database = "none" THEN unsaved[k] ELSE latest[k]

(* What Get returns was put for that key, and no operation that succeeded  *)
(* has overwritten or removed it since, across crashes, full disks, failed *)
(* opens and restarts, whichever of the three caches it comes from (the    *)
(* protected cache always counts).  From one open to the next, what was    *)
(* done without the database counts for that time only: then nothing that  *)
(* the database holds is served, and afterwards what it held before, also  *)
(* if it was overwritten or removed meanwhile (DefaultCache.cpp:311).      *)
ServedIsCurrent ==
    \A k \in Keys : LET v == Lookup(k) IN v # None =>
        \/ k \in DOMAIN Protected /\ v = Protected[k]
        \/ \E r \in Owed(k) : r.value = v

(* Get returns no value after "the expiry time (in seconds) of the         *)
(* key-value pair" (KeyValueCache.h:68) with which it was put, unless the  *)
(* two entries of the item on disk were torn apart.                        *)
NeverServesExpired ==
    \A k \in Keys : LET v == Lookup(k) IN
        v # None /\ (database = "none" \/ k \in sure) =>
            \/ k \in DOMAIN Protected /\ v = Protected[k]
            \/ \E r \in Owed(k) : r.value = v /\ now <= r.expiry

(* A value that a Put has stored in the mutable database is found until it *)
(* expires, across restarts, memory evictions, purges and times without    *)
(* the database, whenever the database is open.                            *)
(* Exempt is a value without an expiry time that was put over one that had *)
(* one, whose expiry entry it keeps (DefaultCache.cpp:175).                *)
PutIsFound ==
    (open /\ database = "open") =>
        \A k \in sure \ inherited : \A r \in latest[k] :
            \/ now >= r.expiry
            \/ Lookup(k) = r.value
            \/ shield /\ k \in DOMAIN Protected

(* "By default, the key-value pair has no expiry time" (KeyValueCache.h:46): *)
(* what was put without one, by a Put that succeeded, is found for ever.   *)
DefaultNeverExpires ==
    (open /\ database = "open") =>
        \A k \in sure \ DOMAIN Protected : \A r \in latest[k] :
            r.expiry = Never => Lookup(k) = r.value
=============================================================================
