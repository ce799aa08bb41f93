------------------------------ MODULE Documents ------------------------------
(***************************************************************************)
(* The way of a document through the data services' libraries.             *)
(*                                                                         *)
(* Reading: the service answers a JSON document, which is parsed.  The     *)
(* objects that are cached go through DefaultCache, which keeps the object *)
(* in memory and its serialized form on disk, and hands out what it parses *)
(* from the disk when the memory no longer has it.                         *)
(*                                                                         *)
(* Writing: the application builds a request field by field, the client    *)
(* turns it into calls of the services.  A request to the stream layer may *)
(* wait in the queue first, which is kept in the same kind of cache.       *)
(* The same holds, with less of it, for the authentication library.        *)
(***************************************************************************)
EXTENDS WriteDocuments

CONSTANTS
    Answers,        \* for each class a service may answer, an object with all its members
    Given,          \* for each operation, the values an application gives to each field
    Large,          \* the blobs of more than 20 MiB
    UnsignedSize,   \* see AuthenticationDocuments
    Evicted         \* the classes whose objects the memory cache may lose

VARIABLES
    class,          \* the class, or the operation, that the behaviour is about
    document,       \* what the service answered
    object,         \* the object parsed from it, or the request of the application
    memory, disk,   \* the cached object and its serialized form
    got,            \* what was taken from the cache
    sent            \* the request as the service has received it

docVars == <<class, document, object, memory, disk, got, sent>>

Auth == INSTANCE AuthenticationDocuments

(* The answers of the authentication service, with the statuses that they  *)
(* come with, and what the library makes of them.                          *)
Results ==
    [SignIn |-> 200, SignInInvalid |-> 400, SignInUser |-> 200, TermsRequired |-> 412,
     SignUp |-> 201, SignOut |-> 204, Time |-> 200]
Result(c, json) ==
    CASE c \in {"SignIn", "SignInInvalid"} -> Auth!SignInResult(Results[c], json)
      [] c \in {"SignInUser", "TermsRequired"} -> Auth!SignInUserResult(Results[c], json)
      [] c = "SignUp" -> Auth!SignUpResult(Results[c], json)
      [] c = "SignOut" -> Auth!SignOutResult(Results[c], json)
      [] c = "Time" -> Auth!ParseTimeResponse(json)

(* The requests to it. *)
SignIns == {"SignInClient", "SignInHereUser", "SignInFacebook", "SignInGoogle", "SignInArcGis",
            "SignInRefresh", "SignUpHereUser"}

Cached == {"Catalog", "VersionResponse", "LayerVersions", "Partition"}

(* The object that the default constructor of a class makes.               *)
Default(c) ==
    CASE c = "Catalog" -> Read!Catalog
      [] c = "VersionResponse" -> Read!VersionResponse
      [] c = "LayerVersions" -> Read!LayerVersions
      [] c = "Partition" -> Read!Partition
      [] c = "Partitions" -> Read!Partitions
      [] c = "Api" -> Read!Api
      [] c = "Index" -> Read!Index
      [] c = "SubscribeResponse" -> Read!SubscribeResponse
      [] c = "Messages" -> Read!Messages
      [] c = "write::Catalog" -> Catalog
      [] c = "write::Api" -> Api
      [] c = "write::LayerVersions" -> LayerVersions
      [] c = "write::Partitions" -> Partitions
      [] c = "write::VersionResponse" -> VersionResponse
      [] c = "Publication" -> Publication
      [] c = "ResponseOk" -> ResponseOk
      [] c = "ResponseOkSingle" -> ResponseOkSingle
      [] c \in {"PublishData", "PublishLargeData", "Queue"} -> PublishDataRequest
      [] c = "PublishSdii" -> PublishSdiiRequest
      [] c \in {"PublishToBatch", "PublishPartitionsToBatch"} -> PublishPartitionDataRequest
      [] c = "PublishIndex" -> PublishIndexRequest
      [] c = "UpdateIndex" -> UpdateIndexRequest
      [] c = "StartBatch" -> StartBatchRequest
      [] c = "DeleteIndexData" -> DeleteIndexDataRequest
      [] c = "CheckDataExists" -> CheckDataExistsRequest
      [] c = "CommitOffsets" -> Read!StreamOffsets
      [] c = "Subscribe" -> Read!ConsumerProperties
      [] c \in DOMAIN Results -> Result(c, None)
      [] c = "SignInClient" -> Auth!SignInProperties
      [] c = "SignInHereUser" -> Auth!UserProperties
      [] c \in {"SignInFacebook", "SignInGoogle", "SignInArcGis"} -> Auth!FederatedProperties
      [] c = "SignInRefresh" -> Auth!RefreshProperties
      [] c = "SignUpHereUser" -> Auth!SignUpProperties

FromJson(c, json) ==
    CASE c = "Catalog" -> Read!ParseCatalog(json)
      [] c = "VersionResponse" -> Read!ParseVersionResponse(json)
      [] c = "LayerVersions" -> Read!ParseLayerVersions(json)
      [] c = "Partition" -> Read!ParsePartition(json)
      [] c = "Partitions" -> Read!ParsePartitions(json)
      [] c = "Api" -> Read!ParseApi(json)
      [] c = "Index" -> Read!ParseIndex(json)
      [] c = "SubscribeResponse" -> Read!ParseSubscribeResponse(json)
      [] c = "Messages" -> Read!ParseMessages(json)
      [] c = "write::Catalog" -> ParseCatalog(json)
      [] c = "write::Api" -> ParseApi(json)
      [] c = "write::LayerVersions" -> ParseLayerVersions(json)
      [] c = "write::Partitions" -> ParsePartitions(json)
      [] c = "write::VersionResponse" -> ParseVersionResponse(json)
      [] c = "Publication" -> ParsePublication(json)
      [] c = "ResponseOk" -> ParseResponseOk(json)
      [] c = "ResponseOkSingle" -> ParseResponseOkSingle(json)
      [] c = "Queue" -> ParsePublishDataRequest(json)
      [] c \in DOMAIN Results -> Result(c, json)

ToJson(c, x) ==
    CASE c = "Catalog" -> Read!CatalogJson(x)
      [] c = "VersionResponse" -> Read!VersionResponseJson(x)
      [] c = "LayerVersions" -> Read!LayerVersionsJson(x)
      [] c = "Partition" -> Read!PartitionJson(x)
      [] c = "Queue" -> PublishDataRequestJson(x)

(* The request that reaches the service, or Refused.                       *)
Sent(c, x) ==
    CASE c \in {"PublishData", "PublishLargeData", "Queue"} -> PublishData(x, x.data \in Large)
      [] c = "PublishSdii" -> PublishSdii(x)
      [] c = "PublishToBatch" -> PublishToBatch(x)
      [] c = "PublishPartitionsToBatch" -> PublishPartitionsToBatch(x)
      [] c = "PublishIndex" -> PublishIndex(x)
      [] c = "UpdateIndex" -> UpdateIndex(x)
      [] c = "StartBatch" -> StartBatch(x)
      [] c = "DeleteIndexData" -> DeleteIndexData(x)
      [] c = "CheckDataExists" -> CheckDataExists(x)
      [] c = "CommitOffsets" -> Read!StreamOffsetsJson(x)
      [] c = "Subscribe" -> Read!ConsumerPropertiesJson(x)
      [] c = "SignInClient" -> Auth!generateClientBody(x)
      [] c = "SignInHereUser" -> Auth!generateUserBody(x)
      [] c = "SignInFacebook" -> Auth!generateFederatedBody("facebook", x)
      [] c = "SignInGoogle" -> Auth!generateFederatedBody("google", x)
      [] c = "SignInArcGis" -> Auth!generateFederatedBody("arcgis", x)
      [] c = "SignInRefresh" -> Auth!generateRefreshBody(x)
      [] c = "SignUpHereUser" -> Auth!generateSignUpBody(x)

IsAnswer == class \in DOMAIN Answers
IsRequest == class \in DOMAIN Given

(* A service leaves out no member, one, or all but at most one.            *)
DocumentsOf(full) ==
    LET all == DOMAIN full
        some == {{}, all} \cup {{n} : n \in all} \cup {all \ {n} : n \in all}
    IN  {[n \in names |-> full[n]] : names \in some}

Init ==
    /\ class \in DOMAIN Answers \cup DOMAIN Given
    /\ document = None /\ memory = None /\ disk = None /\ got = None /\ sent = None
    /\ object = IF IsRequest THEN Default(class) ELSE None

(* parse<T>(response): None stands for an answer that is not JSON.         *)
Answer ==
    /\ IsAnswer /\ object = None
    /\ \E json \in DocumentsOf(Answers[class]) \cup {None} :
        /\ document' = json
        /\ object' = IF json = None THEN Default(class) ELSE FromJson(class, json)
    /\ UNCHANGED <<class, memory, disk, got, sent>>

(* KeyValueCache::Put(key, object, [] { return serialize(object); }).      *)
PutObject ==
    /\ class \in Cached /\ object # None /\ disk = None
    /\ memory' = object /\ disk' = ToJson(class, object)
    /\ UNCHANGED <<class, document, object, got, sent>>

(* The memory cache evicts the object, or the process was restarted.       *)
Evict ==
    /\ class \in Evicted /\ memory # None
    /\ memory' = None
    /\ UNCHANGED <<class, document, object, disk, got, sent>>

CachedObject == IF memory # None THEN memory ELSE FromJson(class, disk)

(* KeyValueCache::Get(key, [](s) { return parse<T>(s); }).                 *)
GetObject ==
    /\ class \in Cached /\ disk # None
    /\ got' = CachedObject /\ memory' = CachedObject
    /\ UNCHANGED <<class, document, object, disk, sent>>

(* A With... method of a request.                                          *)
With(field, value) ==
    /\ IsRequest /\ sent = None /\ disk = None /\ got = None
    /\ object' = [object EXCEPT ![field] = value]
    /\ UNCHANGED <<class, document, memory, disk, got, sent>>

(* Queue refuses a request without data or layer.                          *)
Queue ==
    /\ class = "Queue" /\ disk = None /\ got = None
    /\ object.data # None /\ object.layerId # ""
    /\ memory' = object /\ disk' = ToJson(class, object)
    /\ UNCHANGED <<class, document, object, got, sent>>

(* PopFromQueue, which Flush hands on to PublishDataTask.                  *)
PopFromQueue ==
    /\ class = "Queue" /\ disk # None
    /\ got' = CachedObject /\ memory' = None /\ disk' = None
    /\ UNCHANGED <<class, document, object, sent>>

Send ==
    /\ IsRequest /\ sent = None
    /\ IF class = "Queue" THEN got # None /\ sent' = Sent(class, got) ELSE sent' = Sent(class, object)
    /\ UNCHANGED <<class, document, object, memory, disk, got>>

Next ==
    \/ Answer \/ PutObject \/ Evict \/ GetObject
    \/ IsRequest /\ \E field \in DOMAIN Given[class] : \E v \in Given[class][field] : With(field, v)
    \/ Queue \/ PopFromQueue \/ Send

Spec == Init /\ [][Next]_docVars
---------------------------------------------------------------------------
(* What a document says survives its parsing and its stay in the cache:    *)
(* every member is kept with its value, a field without a member has the   *)
(* value of the default constructor, an optional field without a member is *)
(* not stored, and what is taken from the cache is the object that was put *)
(* there, whether it comes from memory or is parsed from the disk.  (The   *)
(* parser of a publication sets every optional field.)                     *)
Members == IF document = None THEN {} ELSE DOMAIN document

DocumentKept ==
    IsAnswer /\ object # None /\ class \notin DOMAIN Results =>
        /\ Members \subseteq DOMAIN object
        /\ class # "Publication" =>
            \A n \in DOMAIN object \ Members : object[n] = Default(class)[n]
        /\ class \notin Cached => \A n \in Members : object[n] = document[n]
        /\ class \in Cached =>
            LET stored == ToJson(class, object)
            IN  /\ \A n \in Members : n \in DOMAIN stored /\ stored[n] = document[n]
                /\ \A n \in DOMAIN stored \ Members : Default(class)[n] # None
        /\ got # None => got = object

(* The JSON of an index holds all that the application said of it; its     *)
(* metadata is put with the fields.                                        *)
Describes(json, index) ==
    /\ json.id = index.id
    /\ \A key \in DOMAIN index.indexFields :
        key \in DOMAIN json.fields /\ json.fields[key] = index.indexFields[key].value
    /\ index.metadata # None =>
        \A key \in DOMAIN index.metadata :
            key \in DOMAIN json.fields /\ json.fields[key] = index.metadata[key]
    /\ \A option \in {"checksum", "size"} :
        IF index[option] = None THEN option \notin DOMAIN json
        ELSE option \in DOMAIN json /\ json[option] = index[option]

(* The service learns of a request what the application gave, no less and  *)
(* no more: the documentation of every With... method says what the        *)
(* service uses the value for.                                             *)
SentAsGiven ==
    IsRequest /\ sent \notin {None, Refused} =>
        /\ \A option \in {"layerId", "data", "traceId", "billingTag", "checksum"} \cap DOMAIN object :
            option \in DOMAIN sent /\ sent[option] = object[option]
        /\ class \in {"PublishToBatch", "PublishPartitionsToBatch"} =>
            /\ sent.partition.partition = IF object.partitionId = None THEN "" ELSE object.partitionId
            /\ sent.partition.dataHandle = "generated"
        /\ class = "PublishIndex" => Describes(sent.index, [object.index EXCEPT !.id = "generated"])
        /\ class = "UpdateIndex" =>
            /\ Len(sent.body.additions) = Len(object.indexAdditions)
            /\ \A i \in DOMAIN object.indexAdditions :
                Describes(sent.body.additions[i], object.indexAdditions[i])
            /\ sent.body.removals = object.indexRemovals
        /\ class = "StartBatch" =>
            /\ sent.publication.layerIds = object.layers
            /\ object.versionDependencies # None =>
                sent.publication.versionDependencies = object.versionDependencies
        /\ class = "CommitOffsets" => sent.offsets = object.offsets
        /\ class = "Subscribe" => sent.kafkaConsumerProperties = object.properties
        /\ class \in SignIns => Auth!BodySays(object, Default(class), sent)

(* What the authentication service answers is what the result says: see    *)
(* TokenExact and ErrorExact for the tokens and the errors; the terms, the *)
(* user's id and the time are those of the answer (SignInResultImpl,       *)
(* SignInUserResultImpl, SignUpResultImpl, ParseTimeResponse).             *)
ResultKept ==
    class \in DOMAIN Results /\ object # None =>
        /\ class \in {"SignIn", "SignInInvalid", "SignInUser", "TermsRequired"} =>
            Auth!TokenExact(Results[class], document, object)
        /\ class \notin {"SignIn", "SignInUser", "Time"} =>
            Auth!ErrorExact(Results[class], document, object)
        /\ class \in {"SignInUser", "TermsRequired"} =>
            \A n \in {"termsReacceptanceToken", "url"} \cap Members : object[n] = document[n]
        /\ class = "SignUp" /\ "userId" \in Members => object.userId = document.userId
        /\ class = "Time" =>
            IF "timestamp" \in Members THEN object = document ELSE "error" \in DOMAIN object
=============================================================================
