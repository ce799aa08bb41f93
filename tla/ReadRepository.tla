---------------------------- MODULE ReadRepository ----------------------------
(***************************************************************************)
(* The repositories of dataservice-read: what the clients of a catalog, of *)
(* a versioned and of a volatile layer do between the user's call and its  *)
(* callback.  A fetch goes through a chain of resources (latest version,   *)
(* catalog, partitions, data); each is looked for in the cache that all    *)
(* clients share, then asked of its service, whose address is a cached     *)
(* resource as well, and its answer is put in the cache.                   *)
(*                                                                         *)
(* Tasks of several fetches run at once, on the workers of the scheduler.  *)
(* TaskContext and BlockingCall show how one of them is run and cancelled, *)
(* DefaultCache how the cache works: here an entry may be gone at any time *)
(* and a call may fail for any reason.                                     *)
(***************************************************************************)
EXTENDS Naturals, Sequences, FiniteSets, Functions

CONSTANTS
    Fetches,        \* calls of the clients, numbered in their order
    Kinds,          \* of the calls, among AllKinds
    PartitionIds,   \* partitions of each of the two layers
    MaxVersion,     \* bound on the versions that are published
    MaxUpdates,     \* bound on the fetches CacheWithUpdate, each of two tasks
    MaxLost         \* bound on the entries that expire or are evicted

ReadRepositoryAssumption ==
    /\ MaxVersion \in Nat \ {0} /\ {MaxUpdates, MaxLost} \subseteq Nat
    /\ IsFiniteSet(PartitionIds) /\ Fetches \subseteq Nat

VARIABLES
    latest,         \* the catalog's latest version at the service
    cache,          \* the entries of the catalog, by key
    task,           \* the tasks of the fetches
    called,         \* calls of each user's callback
    lost,           \* entries lost so far
    refused         \* history: a service has answered 403

vars == <<latest, cache, task, called, lost, refused>>

-----------------------------------------------------------------------------
(* What is stored and what the services answer *)

NoVersion == 0
Handle(p, v) == <<p, v>>

ApiKey(s) == <<"api", s>>
CatalogKey == <<"catalog">>
VersionKey == <<"latestVersion">>
ListKey(l, v) == <<"partitions", l, v>>
PartitionKey_NoVersion(l, p, v) == <<"partition", l, p, NoVersion>>
PartitionKey(l, p, v) == <<"partition", l, p, v>>
DataKey(l, h) == <<"data", l, h>>

Found(k) == {cache[x] : x \in {k} \cap DOMAIN cache}
Put(k, x) == cache' = [j \in {k} \cup DOMAIN cache |-> IF j = k THEN x ELSE cache[j]]
Forget(keys) == cache' = Restrict(cache, DOMAIN cache \ keys)

(* PartitionsCacheRepository.  Of a cached list, the entries that are      *)
(* there; the list is not asked to be complete.                            *)
FoundPartition(l, p, v) == {{h} : h \in Found(PartitionKey(l, p, v))}
FoundPartitions(l, v) ==
    {{<<p, cache[PartitionKey(l, p, v)]>> :
        p \in {q \in ids : PartitionKey(l, q, v) \in DOMAIN cache}} : ids \in Found(ListKey(l, v))}

(* The list too if it is of the whole layer. *)
PutPartitions(l, v, parts, allLayer) ==
    LET ids == {x[1] : x \in parts}
        keys == {PartitionKey(l, p, v) : p \in ids} \cup (IF allLayer THEN {ListKey(l, v)} ELSE {})
        HandleOf(p) == CHOOSE h \in {x[2] : x \in parts} : h[1] = p
    IN
    cache' = [k \in keys \cup DOMAIN cache |->
                IF k \notin keys THEN cache[k]
                ELSE IF k = ListKey(l, v) THEN ids ELSE HandleOf(k[3])]

(* Keys are removed by their prefix: all of the layer, or a partition of   *)
(* any version, with its data, if its metadata is cached.                  *)
LayerKeys(l) == {k \in DOMAIN cache : k[1] \in {"partitions", "partition", "data"} /\ k[2] = l}
PartitionKeys(l, p, v) ==
    {k \in LayerKeys(l) :
        /\ Found(PartitionKey(l, p, v)) # {}
        /\ \/ k[1] = "data" /\ k[3] \in Found(PartitionKey(l, p, v))
           \/ k[1] = "partition" /\ k[3] = p}

(* What the services answer to the generated APIs.  A catalog has the      *)
(* layer or has not; a partition that does not exist is an empty list.     *)
GetCatalogAnswers == BOOLEAN
GetLatestCatalogVersionAnswers == {latest}
GetPartitionsAnswers(v) == {{<<p, Handle(p, v)>> : p \in PartitionIds}}
GetPartitionsbyIdAnswers(p, v) == {{}, {Handle(p, v)}}
QuadTreeIndexAnswers(p, v) == {{}, {Handle(p, v)}}

(* The blob of a handle never changes; under the handle of a volatile      *)
(* partition is what was published last.                                   *)
GetBlobAnswers(h) == {h[2]}
GetVolatileBlobAnswers(h) == {latest}

-----------------------------------------------------------------------------
(* Requests and their tasks *)

Options == {"OnlineIfNotFound", "OnlineOnly", "CacheOnly", "CacheWithUpdate"}
AllKinds ==
    {"catalog", "latest", "versionedPartitions", "versionedData", "prefetch",
     "volatilePartitions", "volatileData"}
VolatileKinds == {"volatilePartitions", "volatileData"}

(* A request names a version of the catalog, or none; of the data, it      *)
(* names a partition, a handle that was got before, both or none.          *)
Versions == {NoVersion, 1}
Request(kind, version, named) == [kind |-> kind, version |-> version, named |-> named]

CatalogRequest == {Request("catalog", NoVersion, "nothing")}
CatalogVersionRequest == {Request("latest", NoVersion, "nothing")}
PartitionsRequest ==
    {Request("versionedPartitions", v, "nothing") : v \in Versions}
    \cup {Request("volatilePartitions", NoVersion, "nothing")}
DataRequest ==
    {Request("versionedData", 1, "partition")}
    \cup {Request(k, NoVersion, n) :
            k \in {"versionedData", "volatileData"}, n \in {"partition", "handle", "both", "nothing"}}
PrefetchTilesRequest == {Request("prefetch", v, "nothing") : v \in Versions}

AllRequests ==
    {r \in CatalogRequest \cup CatalogVersionRequest \cup PartitionsRequest \cup DataRequest
            \cup PrefetchTilesRequest : r.kind \in Kinds}

Partition == CHOOSE p \in PartitionIds : TRUE
NamedHandle(r) ==
    IF r.named \notin {"handle", "both"} THEN <<>>
    ELSE Handle(Partition, IF r.kind = "volatileData" THEN NoVersion ELSE 1)

(* What is got one after the other for a request; the version only if the  *)
(* request names none, the partition only if it names no handle.           *)
Version(r) == IF r.version = NoVersion THEN <<"version">> ELSE <<>>
GetVersionedPartitions(r) == Version(r) \o <<"list">>
GetVolatilePartitions(r) == <<"catalog", "list">>
GetVersionedData(r) ==
    IF r.named \in {"handle", "both"} THEN <<"data">> ELSE Version(r) \o <<"partition", "data">>
GetVolatileData(r) ==
    IF r.named \in {"handle", "both"} THEN <<"data">> ELSE <<"partition", "data">>
Prefetch(r) == Version(r) \o <<"quads", "data">>

Resources(r) ==
    CASE r.kind = "catalog" -> <<"catalog">>
      [] r.kind = "latest" -> <<"version">>
      [] r.kind = "versionedPartitions" -> GetVersionedPartitions(r)
      [] r.kind = "volatilePartitions" -> GetVolatilePartitions(r)
      [] r.kind = "prefetch" -> Prefetch(r)
      [] r.kind = "versionedData" -> GetVersionedData(r)
      [] r.kind = "volatileData" -> GetVolatileData(r)

(* The user's task, and the one that updates the cache without a callback. *)
Tasks == Fetches \X {"user", "update"}
Pcs == {"none", "get", "ask", "answered", "done"}

NoTask ==
    [pc |-> "none", request |-> Request("none", NoVersion, "nothing"), option |-> "none", todo |-> <<>>,
     version |-> NoVersion, handle |-> <<>>, status |-> "pending", value |-> "none", sent |-> FALSE,
     fromCache |-> FALSE, since |-> 0]

NewTask(r, option) ==
    [NoTask EXCEPT !.pc = "get", !.request = r, !.option = option, !.todo = Resources(r),
                   !.version = r.version, !.handle = NamedHandle(r), !.since = latest]

Resource(t) == Head(task[t].todo)
Layer(t) == IF task[t].request.kind \in VolatileKinds THEN "volatile" ELSE "versioned"

(* Nested requests are made with the option of the user's. *)
Option_Nested(t) ==
    IF Resource(t) = "version" /\ Len(task[t].todo) > 1 THEN "OnlineIfNotFound" ELSE task[t].option
Option(t) == task[t].option

TypeOK ==
    /\ latest \in 1..MaxVersion /\ lost \in 0..MaxLost /\ refused \in BOOLEAN
    /\ \A k \in DOMAIN cache : k[1] \in {"api", "catalog", "latestVersion", "partitions", "partition", "data"}
    /\ DOMAIN task = Tasks
    /\ \A t \in Tasks :
        /\ task[t].pc \in Pcs /\ task[t].version \in 0..latest
        /\ task[t].pc \in {"none", "done"} <=> task[t].todo = <<>>
        /\ task[t].pc = "done" <=> task[t].status \notin {"pending", "forbidden"}
    /\ called \in [Fetches -> 0..1]

Init ==
    /\ latest = 1 /\ cache = <<>> /\ lost = 0 /\ refused = FALSE
    /\ task = [t \in Tasks |-> NoTask] /\ called = [f \in Fetches |-> 0]

(* TaskContext calls the user when the task has ended. *)
Becomes(t, T) ==
    /\ task' = [task EXCEPT ![t] = T]
    /\ called' = [called EXCEPT ![t[1]] = IF T.pc = "done" /\ t[2] = "user" THEN @ + 1 ELSE @]

Ended(T, status) ==
    [NoTask EXCEPT !.pc = "done", !.status = status, !.option = T.option, !.sent = T.sent,
                   !.fromCache = T.fromCache]

-----------------------------------------------------------------------------
(* The calls of the clients *)

(* ScheduleFetch: CacheWithUpdate is a task that looks in the cache, whose *)
(* end is the user's, and one that goes online, of which nobody is told.   *)
Schedule(f, r, option) ==
    [t \in Tasks |->
        IF t[1] # f THEN task[t]
        ELSE IF option = "CacheWithUpdate"
             THEN NewTask(r, IF t[2] = "user" THEN "CacheOnly" ELSE "OnlineOnly")
             ELSE IF t[2] = "user" THEN NewTask(r, option) ELSE NoTask]

Call(f, r, option) ==
    /\ task[<<f, "user">>].pc = "none"
    /\ \A g \in Fetches : g < f => task[<<g, "user">>].pc # "none"
    /\ option = "CacheWithUpdate" =>
        Cardinality({g \in Fetches : task[<<g, "update">>].pc # "none"}) < MaxUpdates
    /\ r.kind = "prefetch" => option = "OnlineIfNotFound"
    /\ task' = Schedule(f, r, option)
    /\ UNCHANGED <<latest, cache, called, lost, refused>>

(* Both a handle and a partition, or neither when the partition is due. *)
Invalid(t) ==
    \/ task[t].request.named = "both"
    \/ task[t].request.named = "nothing" /\ Resource(t) = "partition"

Reject(t) ==
    /\ task[t].pc = "get" /\ Invalid(t)
    /\ Becomes(t, Ended(task[t], "PreconditionFailed"))
    /\ UNCHANGED <<latest, cache, lost, refused>>

-----------------------------------------------------------------------------
(* From the cache *)

(* The functions of the repositories: what they find in the cache, which   *)
(* service they ask, what it may answer and which keys a refusal clears.   *)
GetCatalog ==
    [found |-> Found(CatalogKey), service |-> "config", answers |-> GetCatalogAnswers,
     cleared |-> DOMAIN cache]
GetLatestVersion ==
    [found |-> Found(VersionKey), service |-> "metadata", answers |-> GetLatestCatalogVersionAnswers,
     cleared |-> DOMAIN cache]
GetPartitions(l, v) ==
    [found |-> FoundPartitions(l, v), service |-> "metadata", answers |-> GetPartitionsAnswers(v),
     cleared |-> LayerKeys(l)]
GetPartitionById(l, p, v) ==
    [found |-> FoundPartition(l, p, v), service |-> "query",
     answers |-> GetPartitionsbyIdAnswers(p, v), cleared |-> PartitionKeys(l, p, v)]
GetSubQuads(l, p, v) ==
    [found |-> {}, service |-> "query", answers |-> QuadTreeIndexAnswers(p, v), cleared |-> {}]
GetBlobData(l, h) ==
    [found |-> Found(DataKey(l, h)),
     service |-> IF l = "volatile" THEN "volatile-blob" ELSE "blob",
     answers |-> IF l = "volatile" THEN GetVolatileBlobAnswers(h) ELSE GetBlobAnswers(h),
     cleared |-> {DataKey(l, h)}]

Function(t) ==
    LET l == Layer(t)  T == task[t]  r == Resource(t) IN
    CASE r = "catalog" -> GetCatalog
      [] r = "version" -> GetLatestVersion
      [] r = "list" -> GetPartitions(l, T.version)
      [] r = "partition" -> GetPartitionById(l, Partition, T.version)
      [] r = "quads" -> GetSubQuads(l, Partition, T.version)
      [] r = "data" -> GetBlobData(l, T.handle)

LooksInCache_Always(t) == TRUE
LooksInCache(t) == Option(t) # "OnlineOnly"

(* A task that has got x goes on to the next resource, or ends with x. A   *)
(* catalog without the layer (TtlForLayer), a partition that does not      *)
(* exist and a prefetch that found no tile end it.                         *)
Got(t, T, x) ==
    LET r == Resource(t)
        S == CASE r = "version" -> [T EXCEPT !.version = x]
               [] r \in {"partition", "quads"} /\ x # {} -> [T EXCEPT !.handle = CHOOSE h \in x : TRUE]
               [] OTHER -> T
    IN
    IF \/ r \in {"partition", "quads"} /\ x = {}
       \/ r = "catalog" /\ Len(T.todo) > 1 /\ ~x
    THEN Ended(T, "NotFound")
    ELSE IF Len(T.todo) = 1
    THEN [S EXCEPT !.pc = "done", !.status = "ok", !.todo = <<>>, !.handle = <<>>, !.value = x]
    ELSE [S EXCEPT !.pc = "get", !.todo = Tail(@)]

-----------------------------------------------------------------------------
(* From the services *)

(* ApiClientLookup::LookupApi.  The answer may be an error, or an empty    *)
(* list of services.                                                       *)
LookupApi(t) ==
    LET k == ApiKey(Function(t).service)
        cached == Option(t) # "OnlineOnly" /\ k \in DOMAIN cache
        T == [task[t] EXCEPT !.sent = TRUE]
    IN
    \/ cached /\ Becomes(t, [task[t] EXCEPT !.pc = "ask", !.fromCache = TRUE]) /\ UNCHANGED cache
    \/ ~cached /\ Becomes(t, [T EXCEPT !.pc = "ask"]) /\ Put(k, TRUE)
    \/ ~cached /\ Becomes(t, Ended(T, "error")) /\ UNCHANGED cache

(* A resource that is not looked for, or not found, is asked of its        *)
(* service, unless the fetch is CacheOnly.                                 *)
Get(t) ==
    LET found == IF LooksInCache(t) THEN Function(t).found ELSE {} IN
    /\ task[t].pc = "get" /\ ~Invalid(t)
    /\ \/ \E x \in found : Becomes(t, Got(t, [task[t] EXCEPT !.fromCache = TRUE], x)) /\ UNCHANGED cache
       \/ found = {} /\ Option(t) = "CacheOnly" /\ Becomes(t, Ended(task[t], "NotFound")) /\ UNCHANGED cache
       \/ found = {} /\ Option(t) # "CacheOnly" /\ LookupApi(t)
    /\ UNCHANGED <<latest, lost, refused>>

(* The service answers as it is when the request reaches it. *)
Ask(t) ==
    LET T == [task[t] EXCEPT !.sent = TRUE] IN
    /\ task[t].pc = "ask"
    /\ \/ \E x \in Function(t).answers : Becomes(t, [T EXCEPT !.pc = "answered", !.value = x])
       \/ Becomes(t, [T EXCEPT !.pc = "answered", !.status = "forbidden"])
       \/ Becomes(t, Ended(T, "error"))
    /\ UNCHANGED <<latest, cache, lost, refused>>

PutQuads_AllLayer(l, v, hs) == PutPartitions(l, v, {<<h[1], h>> : h \in hs}, TRUE)
PutQuads_NoVersion(l, v, hs) == PutPartitions(l, NoVersion, {<<h[1], h>> : h \in hs}, FALSE)
PutQuads(l, v, hs) == PutPartitions(l, v, {<<h[1], h>> : h \in hs}, FALSE)

PutAnswer(t) ==
    LET l == Layer(t)  T == task[t]  r == Resource(t)  x == T.value IN
    /\ T.pc = "answered" /\ T.status = "pending"
    /\ \/ r = "catalog" /\ Put(CatalogKey, x)
       \/ r = "version" /\ Put(VersionKey, x)
       \/ r = "list" /\ PutPartitions(l, T.version, x, TRUE)
       \/ r = "partition" /\ PutPartitions(l, T.version, {<<h[1], h>> : h \in x}, FALSE)
       \/ r = "quads" /\ PutQuads(l, T.version, x)
       \/ r = "data" /\ Put(DataKey(l, T.handle), x)
    /\ Becomes(t, Got(t, T, x))
    /\ UNCHANGED <<latest, lost, refused>>

(* A service that answers 403 clears what is cached of the resource. *)
ForgetRefused(t) ==
    /\ task[t].pc = "answered" /\ task[t].status = "forbidden"
    /\ Forget(Function(t).cleared)
    /\ Becomes(t, Ended(task[t], "error")) /\ refused' = TRUE
    /\ UNCHANGED <<latest, lost>>

-----------------------------------------------------------------------------
(* The world *)

Publish ==
    /\ latest < MaxVersion /\ latest' = latest + 1
    /\ UNCHANGED <<cache, task, called, lost, refused>>

(* An entry expires or is evicted. *)
Lose(k) ==
    /\ lost < MaxLost /\ lost' = lost + 1 /\ Forget({k})
    /\ UNCHANGED <<latest, task, called, refused>>

Step(t) == Reject(t) \/ Get(t) \/ Ask(t) \/ PutAnswer(t) \/ ForgetRefused(t)

Next ==
    \/ \E f \in Fetches, r \in AllRequests, o \in Options : Call(f, r, o)
    \/ \E t \in Tasks : Step(t)
    \/ Publish \/ \E k \in DOMAIN cache : Lose(k)

(* A worker runs some task that can go on, and calls of the network return. *)
Spec == Init /\ [][Next]_vars /\ WF_vars(\E t \in Tasks : Step(t))

-----------------------------------------------------------------------------
(* Properties *)

Ok(t) == task[t].pc = "done" /\ task[t].status = "ok"

(* No part of a CacheOnly fetch is sent, none of an OnlineOnly fetch comes *)
(* from the cache, so that it is not older than the call; the requests     *)
(* nested in it (GetLatestVersion, GetPartitionById) keep the option.      *)
FetchOptionKept ==
    \A t \in Tasks : LET T == task[t] IN
        /\ T.option = "CacheOnly" => ~T.sent
        /\ T.option = "OnlineOnly" => ~T.fromCache
        /\ T.option = "OnlineOnly" /\ Ok(t) =>
            /\ T.request.kind \in {"latest", "volatileData"} => T.value >= T.since
            /\ T.version # T.request.version => T.version >= T.since

(* What is got is of the version that was named or looked up, however the  *)
(* fetches and prefetches of several versions share the cache              *)
(* (GetVersionedData, GetVersionedPartitions).                             *)
OneVersion ==
    \A t \in Tasks : LET T == task[t] IN
        Ok(t) =>
            /\ T.request.version # NoVersion => T.version = T.request.version
            /\ T.request.kind = "versionedPartitions" => \A x \in T.value : x[2][2] = T.version
            /\ T.request.kind = "versionedData" /\ T.request.named = "partition" =>
                    T.value = T.version

(* While no entry was lost or cleared, a list has every partition, though  *)
(* prefetches and single requests store some of them                       *)
(* (PartitionsCacheRepository::Put), and what was prefetched is there.     *)
NothingMissing ==
    lost = 0 /\ ~refused =>
        \A t \in Tasks : LET T == task[t] IN
            Ok(t) =>
                /\ T.request.kind \in {"versionedPartitions", "volatilePartitions"} =>
                        {x[1] : x \in T.value} = PartitionIds
                /\ T.request.kind = "prefetch" =>
                        /\ PartitionKey("versioned", Partition, T.version) \in DOMAIN cache
                        /\ DataKey("versioned", Handle(Partition, T.version)) \in DOMAIN cache

(* The user of a fetch is called once, CacheWithUpdate included, and       *)
(* whatever fails (ScheduleFetch).                                         *)
Quiet == \A t \in Tasks : task[t].pc \in {"none", "done"}
CalledOnce == \A f \in Fetches : task[<<f, "user">>].pc = "done" <=> called[f] = 1
EveryFetchEnds == []<>Quiet
=============================================================================
