-------------------------------- MODULE MCData --------------------------------
(***************************************************************************)
(* Small instances for TLC of what the data services do with data: the     *)
(* caches, the documents and the tiles of a prefetch.  They share no       *)
(* state, so a behaviour is about one of them.                             *)
(***************************************************************************)
EXTENDS DefaultCache, Integers, TLC

CONSTANTS
    k1, k2, v1, v2, v3, LruKeys, Costs, Limits, End,    \* of the caches
    Answers, Given, Large, Evicted, UnsignedSize,   \* see Documents
    LevelCount, Requests, MaxDepth, Existing, MaxFaults     \* see PrefetchTilesRepository

VARIABLES
    part,           \* what the behaviour is about
    lru, maxSize,
    dClass, document, object, dMemory, dDisk, got, sent,
    request, at, calls, ancestor, quads, result, stored, faults, unknown,
    tile, quadrants

Lru == INSTANCE LruCache WITH Keys <- LruKeys
Models == INSTANCE WriteDocuments
Docs == INSTANCE Documents WITH class <- dClass, memory <- dMemory, disk <- dDisk
Tiles == INSTANCE PrefetchTilesRepository
Path == INSTANCE TilePath WITH path <- quadrants

ASSUME DataAssumption == Tiles!TileKeyAssumption /\ Tiles!PrefetchTilesAssumption

-----------------------------------------------------------------------------
(* Entries of the caches.                                                  *)

OneProtected == k2 :> v2
Prefixes2 == {{k1, k2}}
SomeItems == {<<k1, v1, 1>>, <<k1, v3, Never>>, <<k1, v2, 1>>, <<k2, v1, Never>>}

-----------------------------------------------------------------------------
(* Documents: an answer of every class that the services send, every       *)
(* member of it with a value of its own, and values for the fields of      *)
(* every request.                                                          *)

t1 == "text"
blob1 == <<1, 2>>
blob2 == <<1, 0, 2>>    \* a blob with a zero byte
LargeBlobs == {<<3, 3, 3>>}

AnOwner == [creator |-> [id |-> "creator"], organisation |-> [id |-> "organisation"]]
ACoverage == [adminAreas |-> <<"DE", "PL">>]
AVolume == [volumeType |-> "heap", maxMemoryPolicy |-> "fail", packageType |-> "small",
            encryption |-> [algorithm |-> "none"]]
SomeIndexProperties ==
    [ttl |-> "1.month",
     indexDefinitions |-> <<[name |-> "tile", type |-> "heretile", duration |-> 5, zoomLevel |-> 8]>>]

(* A layer whose stream carries so many tenths of a megabit.               *)
ALayer(tenths) ==
    [id |-> "layer", name |-> "name", summary |-> "summary", description |-> "description",
     owner |-> AnOwner, coverage |-> ACoverage, schema |-> [hrn |-> "hrn"],
     contentType |-> "type", contentEncoding |-> "gzip",
     partitioning |-> [scheme |-> "heretile", tileLevels |-> <<12, 14>>],
     layerType |-> "versioned", digest |-> "sha-1", tags |-> <<"a", "b">>,
     billingTags |-> <<"billing">>, ttl |-> 1000, indexProperties |-> SomeIndexProperties,
     streamProperties |-> [dataInThroughputMbps |-> tenths, dataOutThroughputMbps |-> tenths],
     volume |-> AVolume]

ACatalog(tenths) ==
    [id |-> "catalog", hrn |-> "hrn", name |-> "name", summary |-> "summary",
     description |-> "description", coverage |-> ACoverage, owner |-> AnOwner,
     tags |-> <<"a">>, billingTags |-> <<"billing">>, created |-> "today",
     layers |-> <<ALayer(tenths)>>, version |-> 3, notifications |-> [enabled |-> TRUE]]

APartition ==
    [checksum |-> "sum", compressedDataSize |-> 5, dataHandle |-> "handle", dataSize |-> 6,
     partition |-> "partition", version |-> 7]
SomeLayerVersions ==
    [layerVersions |-> <<[layer |-> "layer", version |-> 2, timestamp |-> 9]>>, version |-> 3]
AnApi ==
    [api |-> "metadata", version |-> "v1", baseURL |-> "url", parameters |-> "key" :> "value"]
AQuad ==
    [additionalMetadata |-> "more", checksum |-> "sum", compressedDataSize |-> 5,
     dataHandle |-> "handle", dataSize |-> 6, version |-> 7]
AMetadata ==
    [partition |-> "partition", checksum |-> "sum", compressedDataSize |-> 5, dataSize |-> 6,
     data |-> blob1, dataHandle |-> "handle", timestamp |-> 8]
AnOffset == [partition |-> 1, offset |-> 20]

AToken ==
    [accessToken |-> "token", tokenType |-> "bearer", refreshToken |-> "refresh", expiresIn |-> 5,
     userId |-> "user"]
Terms ==
    [termsReacceptanceToken |-> "terms",
     url |-> [tos |-> "tos", tosJSON |-> "json", pp |-> "pp", ppJSON |-> "json"]]
(* The second field has no message of its own. *)
AnError(message) ==
    [errorId |-> "id", errorCode |-> 400200, message |-> message,
     errorFields |-> <<[name |-> "email", errorCode |-> 400203, message |-> "bad"],
                       [name |-> "password", errorCode |-> 400205]>>]

SomeAnswers ==
    [c \in {"Catalog"} |-> ACatalog(20)] @@ "VersionResponse" :> [version |-> 3]
    @@ "LayerVersions" :> SomeLayerVersions
    @@ "Partition" :> APartition @@ "Partitions" :> [partitions |-> <<APartition>>] @@ "Api" :> AnApi
    @@ "Index" :> [parentQuads |-> <<AQuad @@ "partition" :> "tile">>,
                   subQuads |-> <<AQuad @@ "subQuadKey" :> "tile">>]
    @@ "SubscribeResponse" :> [nodeBaseURL |-> "url", subscriptionId |-> "id"]
    @@ "Messages" :> [messages |-> <<[metaData |-> AMetadata, offset |-> AnOffset]>>]
    @@ "write::Catalog" :> ACatalog(0) @@ "write::Api" :> AnApi
    @@ "write::LayerVersions" :> SomeLayerVersions
    @@ "write::Partitions" :> [partitions |-> <<APartition>>]
    @@ "write::VersionResponse" :> [version |-> 3]
    @@ "Publication" :>
        [id |-> "id",
         details |-> [state |-> "submitted", message |-> "none", started |-> 1, modified |-> 2,
                      expires |-> 3],
         layerIds |-> <<"layer">>, catalogVersion |-> 3,
         versionDependencies |-> <<[direct |-> TRUE, hrn |-> "hrn", version |-> 4]>>]
    @@ "ResponseOk" :> [TraceID |-> [ParentID |-> "parent", GeneratedIDs |-> <<"a", "b">>]]
    @@ "ResponseOkSingle" :> [TraceID |-> "trace"]
    @@ "SignIn" :> (AToken @@ [scope |-> "scope"]) @@ "SignInUser" :> (AToken @@ Terms)
    @@ "SignInInvalid" :> AnError(<<"Invalid", ".", "See", "the", "fields", ".">>)
    @@ "TermsRequired" :> (AnError(<<"No", "terms">>) @@ Terms)
    @@ "SignUp" :> ("userId" :> "user" @@ AnError(<<"None", ".">>))
    @@ "SignOut" :> AnError(<<".">>) @@ "Time" :> [timestamp |-> 9]

(* What an application gives.  Left out are the options that the clients   *)
(* accept and do not send on: see WriteDocuments.                          *)
Options == [traceId |-> {"trace"}, billingTag |-> {"bill"}, checksum |-> {"sum"}]
Blobs == [layerId |-> {"layer"}, data |-> {blob1, blob2}]

Fields ==
    "int" :> Models!IndexValue("Int", 4) @@ "text" :> Models!IndexValue("String", "value")
    @@ "flag" :> Models!IndexValue("Bool", TRUE) @@ "tile" :> Models!IndexValue("Heretile", 21)
    @@ "window" :> Models!IndexValue("TimeWindow", 60)
AnIndex(checksum, size) ==
    [id |-> "index", indexFields |-> Fields, metadata |-> None, checksum |-> checksum, size |-> size]
Indexes == {AnIndex(c, s) : c \in {None, "sum"}, s \in {None, 0}}

SomeGiven ==
    "PublishData" :> (Blobs @@ Options) @@ "PublishSdii" :> (Blobs @@ Options)
    @@ "PublishToBatch" :> (Blobs @@ [partitionId |-> {"partition"}])
    @@ "PublishPartitionsToBatch" :>
        [layerId |-> {"layer"}, partitionId |-> {"partition", ""}, billingTag |-> {"bill"}]
    @@ "PublishIndex" :> (Blobs @@ [billingTag |-> {"bill"}, index |-> Indexes])
    @@ "UpdateIndex" :>
        [layerId |-> {"layer"}, indexAdditions |-> {<<i, AnIndex(None, 1)>> : i \in Indexes},
         indexRemovals |-> {<<"old">>}]
    @@ "StartBatch" :>
        [layers |-> {<<>>, <<"layer">>}, billingTag |-> {"bill"},
         versionDependencies |-> {<<[direct |-> TRUE, hrn |-> "hrn", version |-> 4]>>}]
    @@ "DeleteIndexData" :> [layerId |-> {"layer"}, indexId |-> {"index"}]
    @@ "CheckDataExists" :> [layerId |-> {"layer"}, dataHandle |-> {"handle"}]
    @@ "CommitOffsets" :> [offsets |-> {<<AnOffset>>, <<AnOffset, [partition |-> 2, offset |-> 1]>>}]
    @@ "Queue" :> (Blobs @@ Options)
    @@ "PublishLargeData" :>
        [layerId |-> {"layer"}, data |-> LargeBlobs, billingTag |-> {"bill"}]
    @@ "Subscribe" :> [properties |-> {"group.id" :> "group" @@ "session" :> "100"}]
    @@ "SignInClient" :> [scope |-> {"scope"}, expires_in |-> {1, UnsignedSize - 1, UnsignedSize + 4, -1}]
    @@ "SignInHereUser" :> [email |-> {"mail"}, password |-> {"secret"}, expires_in |-> {60}]
    @@ [c \in {"SignInFacebook", "SignInGoogle", "SignInArcGis"} |->
        [access_token |-> {"token"}, country_code |-> {"DEU"}, language |-> {"de"},
         email |-> {"mail"}, expires_in |-> {60}]]
    @@ "SignInRefresh" :>
        [access_token |-> {"token"}, refresh_token |-> {"refresh"}, expires_in |-> {60}]
    @@ "SignUpHereUser" :>
        [email |-> {"mail"}, password |-> {"secret"}, date_of_birth |-> {"01/01/1990"},
         first_name |-> {"Ada"}, last_name |-> {"Ex"}, country_code |-> {"DEU"},
         language |-> {"de"}, marketing_enabled |-> {TRUE}, phone_number |-> {"+49"},
         realm |-> {"HERE"}, invite_token |-> {"invite"}]

(* The queue of the stream layer alone. *)
QueueGiven == "Queue" :> SomeGiven["Queue"]
NoAnswers == <<>>

-----------------------------------------------------------------------------
(* Tiles                                                                   *)

(* Requests for one tile above, between and below the levels, and for two  *)
(* of which one lies below the other.                                      *)
Tile(row, column, level) == Path!FromRowColumnLevel(row, column, level)
SomeTiles ==
    {<<Path!Root>>, <<Tile(1, 0, 1)>>, <<Tile(1, 3, 2)>>, <<Tile(5, 2, 3)>>,
     <<Tile(1, 0, 1), Tile(3, 1, 2)>>, <<Tile(3, 1, 2), Tile(1, 0, 1)>>}
SomeRequests == [tiles : SomeTiles, min : 1..3, max : 0..3]

(* All tiles of the first levels, and half of those below.                 *)
SomeExisting ==
    {t \in UNION {{Tile(r, c, l) : r, c \in 0..(2 ^ l - 1)} : l \in 0..3} :
        t.level < 2 \/ t.row >= t.column}

lruVars == <<lru, maxSize>>
documentVars == <<dClass, document, object, dMemory, dDisk, got, sent>>
tilesVars == <<request, at, calls, ancestor, quads, result, stored, faults, unknown>>
pathVars == <<tile, quadrants>>
all == <<part, vars, lruVars, documentVars, tilesVars, pathVars>>

(* Only one choice for what stands still. *)
MCInit ==
    /\ part \in {"caches", "lru", "documents", "tiles", "path"}
    /\ Init /\ Lru!Init /\ Docs!Init /\ Tiles!Init /\ Path!Init
    /\ part # "lru" => maxSize = 0
    /\ part # "documents" => dClass = "Api"
    /\ part # "tiles" => request = [tiles |-> <<Path!Root>>, min |-> 1, max |-> 0]

(* Without a database one item is put, unlike those that are put with it:  *)
(* what matters is that it is forgotten.  With the deprecated disk_path,   *)
(* which matters to Open and Clear only, time stands still.                *)
SomeOperations ==
    /\ Next
    /\ diskPath => now' = 0
    /\ \A k \in Keys : unsaved'[k] # unsaved[k] =>
           unsaved'[k] = {} \/ (k = k1 /\ \A r \in unsaved'[k] : r.value = v1)

MCNext ==
    \/ /\ part = "caches" /\ SomeOperations
       /\ UNCHANGED <<part, lruVars, documentVars, tilesVars, pathVars>>
    \/ /\ part = "lru" /\ Lru!Next
       /\ UNCHANGED <<part, vars, documentVars, tilesVars, pathVars>>
    \/ /\ part = "documents" /\ Docs!Next
       /\ UNCHANGED <<part, vars, lruVars, tilesVars, pathVars>>
    \/ /\ part = "tiles" /\ Tiles!Next
       /\ UNCHANGED <<part, vars, lruVars, documentVars, pathVars>>
    \/ /\ part = "path" /\ Path!Next
       /\ UNCHANGED <<part, vars, lruVars, documentVars, tilesVars>>

MCSpec == MCInit /\ [][MCNext]_all

-----------------------------------------------------------------------------
(* The properties of the components, each stated and explained in its      *)
(* module, about this instance; those of DefaultCache are its own.         *)

(* The types of the state, and what the list operations of LruCache keep   *)
(* consistent (explained there).                                           *)
Consistent == TypeOK /\ Lru!TypeOK /\ Lru!ListConsistent

(* LruCache implements the order of use that LruOrder states, and that     *)
(* InMemoryCache uses.                                                     *)
LruImplementsOrder == Lru!ImplementsOrder

(* Documents keep what the services said, and services are sent what the   *)
(* application gave (parse, serialize, Put, Get, the With... methods).     *)
DocumentsExact == part = "documents" => Docs!DocumentKept /\ Docs!ResultKept /\ Docs!SentAsGiven

(* The last of them alone: a request of the stream layer that was queued   *)
(* is published as it was given (Queue, PopFromQueue).                     *)
SentAsGiven == part = "documents" => Docs!SentAsGiven

(* A prefetch has the tiles between its levels that are related to those   *)
(* of the request (EffectiveTileKeys, GetSubTiles).                        *)
PrefetchedExact == part = "tiles" => Tiles!TilesExact

(* The keys of a tile spell the way to it (TileKey).                       *)
TileKeysExact == part = "path" => Path!KeyIsPath /\ Path!NearestLevel
=============================================================================
