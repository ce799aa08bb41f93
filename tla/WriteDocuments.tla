---------------------------- MODULE WriteDocuments ----------------------------
(***************************************************************************)
(* The documents of dataservice-write: the requests that an application    *)
(* builds with their With... methods (the object that the default          *)
(* constructor makes), the model classes that requests are turned into,    *)
(* from_json and to_json.  An optional field that is not set is None, and  *)
(* the serializers leave it out.                                           *)
(***************************************************************************)
EXTENDS JsonDocument

Read == INSTANCE ReadDocuments

---------------------------------------------------------------------------
(* What the services answer.  The catalog's classes are those of the read  *)
(* library, but for the time to live of a layer, which is not optional.    *)

Layer == [Read!Layer EXCEPT !.ttl = 0]
ParseLayer(value) == [Read!ParseLayer(value) EXCEPT !.ttl = Number(value, "ttl")]

Catalog == Read!Catalog
ParseCatalog(value) ==
    [Read!ParseCatalog(value) EXCEPT !.layers = Vector(value, "layers", ParseLayer)]

Api == Read!Api
ParseApi(value) == Read!ParseApi(value)

LayerVersions == Read!LayerVersions
ParseLayerVersions(value) == Read!ParseLayerVersions(value)

Partition == Read!Partition
Partitions == Read!Partitions
ParsePartitions(value) == Read!ParsePartitions(value)

VersionResponse == Read!VersionResponse
ParseVersionResponse(value) == Read!ParseVersionResponse(value)

Details == [state |-> "", message |-> "", started |-> 0, modified |-> 0, expires |-> 0]
ParseDetails(value) ==
    [state |-> Text(value, "state"), message |-> Text(value, "message"),
     started |-> Number(value, "started"), modified |-> Number(value, "modified"),
     expires |-> Number(value, "expires")]

VersionDependency == [direct |-> FALSE, hrn |-> "", version |-> 0]
ParseVersionDependency(value) ==
    [direct |-> Bool(value, "direct"), hrn |-> Text(value, "hrn"),
     version |-> Number(value, "version")]

(* Every optional field of the publication is set by from_json, to T() if  *)
(* the service left it out.                                                *)
Publication ==
    [id |-> None, details |-> None, layerIds |-> None, catalogVersion |-> None,
     versionDependencies |-> None]
ParsePublication(value) ==
    [id |-> Text(value, "id"), details |-> Parse(value, "details", ParseDetails, Details),
     layerIds |-> Texts(value, "layerIds"), catalogVersion |-> Number(value, "catalogVersion"),
     versionDependencies |-> Vector(value, "versionDependencies", ParseVersionDependency)]
PublicationJson(x) == Object(x)

TraceID == [ParentID |-> "", GeneratedIDs |-> <<>>]
ParseTraceID(value) ==
    [ParentID |-> Text(value, "ParentID"), GeneratedIDs |-> Texts(value, "GeneratedIDs")]
ResponseOk == [TraceID |-> TraceID]
ParseResponseOk(value) == [TraceID |-> Parse(value, "TraceID", ParseTraceID, TraceID)]

ResponseOkSingle == [TraceID |-> ""]
ParseResponseOkSingle(value) == [TraceID |-> Text(value, "TraceID")]
---------------------------------------------------------------------------
(* What the client sends.                                                  *)

PublishPartition ==
    [partition |-> None, checksum |-> None, compressedDataSize |-> None, dataSize |-> None,
     data |-> None, dataHandle |-> None, timestamp |-> None]
PublishPartitionJson(x) == Object(x)

PublishPartitions == [partitions |-> None]
PublishPartitionsJson(x) ==
    Object([partitions |-> IF x.partitions = None THEN None
                           ELSE ToVector(x.partitions, PublishPartitionJson)])

(* An index field holds a value of a type.                                 *)
IndexValue(type, value) == [type |-> type, value |-> value]

Index == [id |-> "", indexFields |-> <<>>, metadata |-> None, checksum |-> None, size |-> None]

IndexTypes == {"String", "Int", "Bool", "Heretile", "TimeWindow"}

IndexFieldsJson(fields) ==
    [key \in {k \in DOMAIN fields : fields[k].type \in IndexTypes} |-> fields[key].value]

(* The metadata is added to the object of the fields after AddMember has   *)
(* moved that object into the document, so the document never holds it.    *)
IndexJson(x) ==
    Object([id |-> x.id, fields |-> IndexFieldsJson(x.indexFields),
            checksum |-> x.checksum, size |-> x.size])

UpdateIndexRequest ==
    [layerId |-> "", billingTag |-> None, checksum |-> None, indexAdditions |-> <<>>,
     indexRemovals |-> <<>>]
UpdateIndexRequestJson(x) ==
    Object([additions |-> ToVector(x.indexAdditions, IndexJson), removals |-> x.indexRemovals])

(* A request that waits in the queue of the stream layer client is stored  *)
(* in the cache.  The parser sets what was not set to an empty text.       *)
PublishDataRequest ==
    [data |-> None, layerId |-> "", traceId |-> None, billingTag |-> None, checksum |-> None]
PublishDataRequestJson(x) == Object(x)
ParsePublishDataRequest(value) ==
    [data |-> Blob(value, "data"), layerId |-> Text(value, "layerId"),
     traceId |-> Text(value, "traceId"), billingTag |-> Text(value, "billingTag"),
     checksum |-> Text(value, "checksum")]

PublishSdiiRequest ==
    [data |-> None, layerId |-> "", traceId |-> None, billingTag |-> None, checksum |-> None]

PublishPartitionDataRequest ==
    [data |-> None, layerId |-> "", partitionId |-> None, billingTag |-> None, checksum |-> None]

PublishIndexRequest ==
    [data |-> None, layerId |-> "", billingTag |-> None, checksum |-> None, index |-> Index]

StartBatchRequest == [layers |-> None, versionDependencies |-> None, billingTag |-> None]

DeleteIndexDataRequest == [layerId |-> "", indexId |-> ""]

CheckDataExistsRequest == [layerId |-> "", dataHandle |-> ""]
---------------------------------------------------------------------------
(* The requests as the services receive them: the facts that the path, the *)
(* query, the headers and the body of the calls carry, under the names     *)
(* that the parameters of the calls have.                                  *)

NotSent == None

(* A request that the client refuses is answered with an error.            *)
Refused == [error |-> "InvalidArgument"]

(* IngestApi::IngestData: the id and the checksum are headers, the billing *)
(* tag is in the query.  A blob of more than 20 MiB goes to the blob       *)
(* store, and of the request only the billing tag is sent along.           *)
IngestData_NoTrace(x) ==
    [layerId |-> x.layerId, data |-> x.data, traceId |-> NotSent,
     billingTag |-> x.billingTag, checksum |-> x.checksum]
IngestData(x) ==
    [layerId |-> x.layerId, data |-> x.data, traceId |-> x.traceId,
     billingTag |-> x.billingTag, checksum |-> x.checksum]

PublishDataGreaterThanTwentyMib(x) ==
    [IngestData(x) EXCEPT !.traceId = NotSent, !.checksum = NotSent]

PublishData(x, large) ==
    IF x.data = None THEN Refused
    ELSE IF large THEN PublishDataGreaterThanTwentyMib(x) ELSE IngestData(x)

PublishSdii(x) ==
    IF x.data = None \/ x.layerId = "" THEN Refused
    ELSE [layerId |-> x.layerId, data |-> x.data, traceId |-> x.traceId,
          billingTag |-> x.billingTag, checksum |-> x.checksum]

(* VersionedLayerClientImpl sends the partition and its data handle, and   *)
(* the blob, without any option of the request.                            *)
PublishToBatch(x) ==
    IF x.layerId = "" THEN Refused
    ELSE LET partition == [PublishPartition EXCEPT
                              !.partition = IF x.partitionId = None THEN "" ELSE x.partitionId,
                              !.dataHandle = "generated"]
             body == PublishPartitionsJson([PublishPartitions EXCEPT !.partitions = <<partition>>])
         IN  [layerId |-> x.layerId, data |-> x.data, billingTag |-> NotSent,
              partition |-> body.partitions[1], checksum |-> NotSent]

(* VolatileLayerClientImpl publishes the metadata of partitions that have  *)
(* no data yet, and gives the checksum for the data handle.                *)
PublishPartitionsToBatch(x) ==
    IF x.layerId = "" \/ x.data # None \/ x.partitionId \in {None, ""} THEN Refused
    ELSE LET partition == [PublishPartition EXCEPT
                              !.partition = x.partitionId,
                              !.dataHandle = IF x.checksum = None THEN "generated" ELSE x.checksum]
             body == PublishPartitionsJson([PublishPartitions EXCEPT !.partitions = <<partition>>])
         IN  [layerId |-> x.layerId, data |-> NotSent, billingTag |-> x.billingTag,
              partition |-> body.partitions[1], checksum |-> NotSent]

(* IndexLayerClientImpl: the id of the index is the generated data handle. *)
PublishIndex(x) ==
    IF x.data = None \/ x.layerId = "" THEN Refused
    ELSE [layerId |-> x.layerId, data |-> x.data, billingTag |-> x.billingTag, checksum |-> NotSent,
          index |-> IndexJson([x.index EXCEPT !.id = "generated"])]

UpdateIndex(x) ==
    [layerId |-> x.layerId, billingTag |-> NotSent, checksum |-> NotSent,
     body |-> UpdateIndexRequestJson(x)]

StartBatch(x) ==
    IF x.layers \in {None, <<>>} THEN Refused
    ELSE [billingTag |-> x.billingTag,
          publication |-> PublicationJson([Publication EXCEPT
              !.layerIds = x.layers,
              !.versionDependencies =
                  IF x.versionDependencies = None THEN <<>> ELSE x.versionDependencies])]

DeleteIndexData(x) == IF x.layerId = "" \/ x.indexId = "" THEN Refused ELSE x

CheckDataExists(x) == IF x.layerId = "" THEN Refused ELSE x
=============================================================================
