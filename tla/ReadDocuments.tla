---------------------------- MODULE ReadDocuments ----------------------------
(***************************************************************************)
(* The documents that dataservice-read gets from the services, keeps in    *)
(* the cache and sends: for each model class the object that its default   *)
(* constructor makes, from_json and, where there is one, to_json.  The     *)
(* getters and setters of a class read and replace a field.                *)
(***************************************************************************)
EXTENDS JsonDocument

LOCAL INSTANCE TLC

---------------------------------------------------------------------------
(* The catalog's configuration.                                            *)

Coverage == [adminAreas |-> <<>>]
ParseCoverage(value) == [adminAreas |-> Texts(value, "adminAreas")]
CoverageJson(x) == Object([adminAreas |-> x.adminAreas])

IndexDefinition == [name |-> "", type |-> "", duration |-> 0, zoomLevel |-> 0]
ParseIndexDefinition(value) ==
    [name |-> Text(value, "name"), type |-> Text(value, "type"),
     duration |-> Number(value, "duration"), zoomLevel |-> Number(value, "zoomLevel")]
IndexDefinitionJson(x) ==
    Object([name |-> x.name, type |-> x.type, duration |-> x.duration, zoomLevel |-> x.zoomLevel])

IndexProperties == [ttl |-> "", indexDefinitions |-> <<>>]
ParseIndexProperties(value) ==
    [ttl |-> Text(value, "ttl"),
     indexDefinitions |-> Vector(value, "indexDefinitions", ParseIndexDefinition)]
IndexPropertiesJson(x) ==
    Object([ttl |-> x.ttl, indexDefinitions |-> ToVector(x.indexDefinitions, IndexDefinitionJson)])

Creator == [id |-> ""]
ParseCreator(value) == [id |-> Text(value, "id")]
CreatorJson(x) == Object([id |-> x.id])

Owner == [creator |-> Creator, organisation |-> Creator]
ParseOwner(value) ==
    [creator |-> Parse(value, "creator", ParseCreator, Creator),
     organisation |-> Parse(value, "organisation", ParseCreator, Creator)]
OwnerJson(x) ==
    Object([creator |-> CreatorJson(x.creator), organisation |-> CreatorJson(x.organisation)])

Partitioning == [scheme |-> "", tileLevels |-> <<>>]
ParsePartitioning(value) ==
    [scheme |-> Text(value, "scheme"), tileLevels |-> Vector(value, "tileLevels", FromScalar)]
PartitioningJson(x) == Object([scheme |-> x.scheme, tileLevels |-> x.tileLevels])

Schema == [hrn |-> ""]
ParseSchema(value) == [hrn |-> Text(value, "hrn")]
SchemaJson(x) == Object([hrn |-> x.hrn])

(* The service sends these numbers with a fraction: tenths of them here.   *)
(* They are parsed as double and cast to an integer.                       *)
FromDouble(tenths) == tenths \div 10

StreamProperties == [dataInThroughputMbps |-> 0, dataOutThroughputMbps |-> 0]
ParseStreamProperties(value) ==
    [dataInThroughputMbps |-> Parse(value, "dataInThroughputMbps", FromDouble, 0),
     dataOutThroughputMbps |-> Parse(value, "dataOutThroughputMbps", FromDouble, 0)]
StreamPropertiesJson(x) ==
    Object([dataInThroughputMbps |-> 10 * x.dataInThroughputMbps,
            dataOutThroughputMbps |-> 10 * x.dataOutThroughputMbps])

Encryption == [algorithm |-> ""]
ParseEncryption(value) == [algorithm |-> Text(value, "algorithm")]
EncryptionJson(x) == Object([algorithm |-> x.algorithm])

Volume == [volumeType |-> "", maxMemoryPolicy |-> "", packageType |-> "", encryption |-> Encryption]
ParseVolume(value) ==
    [volumeType |-> Text(value, "volumeType"),
     maxMemoryPolicy |-> Text(value, "maxMemoryPolicy"),
     packageType |-> Text(value, "packageType"),
     encryption |-> Parse(value, "encryption", ParseEncryption, Encryption)]
VolumeJson(x) ==
    Object([volumeType |-> x.volumeType, maxMemoryPolicy |-> x.maxMemoryPolicy,
            packageType |-> x.packageType, encryption |-> EncryptionJson(x.encryption)])

(* A layer: what it is called, what its data are like, and what they are   *)
(* found, billed and stored by.                                            *)
LayerDescription ==
    [id |-> "", name |-> "", summary |-> "", description |-> "", owner |-> Owner]
LayerContent ==
    [coverage |-> Coverage, schema |-> Schema, contentType |-> "", contentEncoding |-> "",
     partitioning |-> Partitioning, layerType |-> "", digest |-> ""]
LayerProperties ==
    [tags |-> <<>>, billingTags |-> <<>>, ttl |-> None, indexProperties |-> IndexProperties,
     streamProperties |-> StreamProperties, volume |-> Volume]
Layer == LayerDescription @@ LayerContent @@ LayerProperties
ParseLayer(value) ==
    [id |-> Text(value, "id"), name |-> Text(value, "name"), summary |-> Text(value, "summary"),
     description |-> Text(value, "description"),
     owner |-> Parse(value, "owner", ParseOwner, Owner),
     coverage |-> Parse(value, "coverage", ParseCoverage, Coverage),
     schema |-> Parse(value, "schema", ParseSchema, Schema),
     contentType |-> Text(value, "contentType"),
     contentEncoding |-> Text(value, "contentEncoding"),
     partitioning |-> Parse(value, "partitioning", ParsePartitioning, Partitioning),
     layerType |-> Text(value, "layerType"), digest |-> Text(value, "digest"),
     tags |-> Texts(value, "tags"), billingTags |-> Texts(value, "billingTags"),
     ttl |-> Optional(value, "ttl"),
     indexProperties |-> Parse(value, "indexProperties", ParseIndexProperties, IndexProperties),
     streamProperties |->
        Parse(value, "streamProperties", ParseStreamProperties, StreamProperties),
     volume |-> Parse(value, "volume", ParseVolume, Volume)]
LayerJson(x) ==
    Object([x EXCEPT !.owner = OwnerJson(@), !.coverage = CoverageJson(@),
                     !.schema = SchemaJson(@), !.partitioning = PartitioningJson(@),
                     !.indexProperties = IndexPropertiesJson(@),
                     !.streamProperties = StreamPropertiesJson(@), !.volume = VolumeJson(@)])

Notifications == [enabled |-> FALSE]
ParseNotifications(value) == [enabled |-> Bool(value, "enabled")]
NotificationsJson(x) == Object([enabled |-> x.enabled])

CatalogDescription ==
    [id |-> "", hrn |-> "", name |-> "", summary |-> "", description |-> ""]
CatalogOwnership ==
    [coverage |-> Coverage, owner |-> Owner, tags |-> <<>>, billingTags |-> <<>>, created |-> ""]
CatalogContent == [layers |-> <<>>, version |-> 0, notifications |-> Notifications]
Catalog == CatalogDescription @@ CatalogOwnership @@ CatalogContent
ParseCatalog(value) ==
    [id |-> Text(value, "id"), hrn |-> Text(value, "hrn"), name |-> Text(value, "name"),
     summary |-> Text(value, "summary"), description |-> Text(value, "description"),
     coverage |-> Parse(value, "coverage", ParseCoverage, Coverage),
     owner |-> Parse(value, "owner", ParseOwner, Owner),
     tags |-> Texts(value, "tags"), billingTags |-> Texts(value, "billingTags"),
     created |-> Text(value, "created"), layers |-> Vector(value, "layers", ParseLayer),
     version |-> Number(value, "version"),
     notifications |-> Parse(value, "notifications", ParseNotifications, Notifications)]
CatalogJson(x) ==
    Object([x EXCEPT !.coverage = CoverageJson(@), !.owner = OwnerJson(@),
                     !.layers = ToVector(@, LayerJson),
                     !.notifications = NotificationsJson(@)])
---------------------------------------------------------------------------
(* Versions, partitions and the APIs of a service.                         *)

VersionResponse == [version |-> 0]
ParseVersionResponse(value) == [version |-> Number(value, "version")]
VersionResponseJson(x) == Object([version |-> x.version])

LayerVersion == [layer |-> "", version |-> 0, timestamp |-> 0]
ParseLayerVersion(value) ==
    [layer |-> Text(value, "layer"), version |-> Number(value, "version"),
     timestamp |-> Number(value, "timestamp")]
LayerVersionJson(x) ==
    Object([layer |-> x.layer, version |-> x.version, timestamp |-> x.timestamp])

LayerVersions == [layerVersions |-> <<>>, version |-> 0]
ParseLayerVersions(value) ==
    [layerVersions |-> Vector(value, "layerVersions", ParseLayerVersion),
     version |-> Number(value, "version")]
LayerVersionsJson(x) ==
    Object([layerVersions |-> ToVector(x.layerVersions, LayerVersionJson), version |-> x.version])

(* What a partition and a quad say of their data.                          *)
DataDescription ==
    [checksum |-> None, compressedDataSize |-> None, dataHandle |-> "", dataSize |-> None]
ParseDataDescription(value) ==
    [checksum |-> Optional(value, "checksum"),
     compressedDataSize |-> Optional(value, "compressedDataSize"),
     dataHandle |-> Text(value, "dataHandle"), dataSize |-> Optional(value, "dataSize")]

Partition == DataDescription @@ [partition |-> "", version |-> None]
ParsePartition_NoneIsEmpty(value) ==
    [checksum |-> Text(value, "checksum"), partition |-> Text(value, "partition"),
     version |-> Optional(value, "version")] @@ ParseDataDescription(value)
ParsePartition(value) ==
    [partition |-> Text(value, "partition"), version |-> Optional(value, "version")]
    @@ ParseDataDescription(value)
PartitionJson(x) ==
    Object([checksum |-> x.checksum, compressedDataSize |-> x.compressedDataSize,
            dataHandle |-> x.dataHandle, dataSize |-> x.dataSize,
            partition |-> x.partition, version |-> x.version])

Partitions == [partitions |-> <<>>]
ParsePartitions(value) == [partitions |-> Vector(value, "partitions", ParsePartition)]
PartitionsJson(x) == Object([partitions |-> ToVector(x.partitions, PartitionJson)])

Api == [api |-> "", version |-> "", baseURL |-> "", parameters |-> <<>>]
ParseApi(value) ==
    [api |-> Text(value, "api"), version |-> Text(value, "version"),
     baseURL |-> Text(value, "baseURL"), parameters |-> TextMap(value, "parameters")]
ApiJson(x) ==
    Object([api |-> x.api, version |-> x.version, baseURL |-> x.baseURL,
            parameters |-> x.parameters])

(* Found tiles of a quad tree: the quads above the root and those below.   *)
ParentQuad == DataDescription @@ [additionalMetadata |-> None, partition |-> "", version |-> 0]
ParseParentQuad(value) ==
    [additionalMetadata |-> Optional(value, "additionalMetadata"),
     partition |-> Text(value, "partition"), version |-> Number(value, "version")]
    @@ ParseDataDescription(value)

SubQuad == DataDescription @@ [additionalMetadata |-> None, subQuadKey |-> "", version |-> 0]
ParseSubQuad(value) ==
    [additionalMetadata |-> Optional(value, "additionalMetadata"),
     subQuadKey |-> Text(value, "subQuadKey"), version |-> Number(value, "version")]
    @@ ParseDataDescription(value)

Index == [parentQuads |-> <<>>, subQuads |-> <<>>]
ParseIndex(value) ==
    [parentQuads |-> Vector(value, "parentQuads", ParseParentQuad),
     subQuads |-> Vector(value, "subQuads", ParseSubQuad)]
---------------------------------------------------------------------------
(* The stream layer.                                                       *)

SubscribeResponse == [nodeBaseURL |-> "", subscriptionId |-> ""]
ParseSubscribeResponse(value) ==
    [nodeBaseURL |-> Text(value, "nodeBaseURL"), subscriptionId |-> Text(value, "subscriptionId")]

StreamOffset == [partition |-> 0, offset |-> 0]
ParseStreamOffset(value) ==
    [partition |-> Number(value, "partition"), offset |-> Number(value, "offset")]
StreamOffsetJson(x) == Object([partition |-> x.partition, offset |-> x.offset])

StreamOffsets == [offsets |-> <<>>]
StreamOffsetsJson(x) == Object([offsets |-> ToVector(x.offsets, StreamOffsetJson)])

Metadata ==
    [partition |-> "", checksum |-> None, compressedDataSize |-> None, dataSize |-> None,
     data |-> None, dataHandle |-> None, timestamp |-> None]
ParseMetadata(value) ==
    [partition |-> Text(value, "partition"), checksum |-> Optional(value, "checksum"),
     compressedDataSize |-> Optional(value, "compressedDataSize"),
     dataSize |-> Optional(value, "dataSize"), data |-> Blob(value, "data"),
     dataHandle |-> Optional(value, "dataHandle"), timestamp |-> Optional(value, "timestamp")]

Message == [metaData |-> Metadata, offset |-> StreamOffset]
ParseMessage(value) ==
    [metaData |-> Parse(value, "metaData", ParseMetadata, Metadata),
     offset |-> Parse(value, "offset", ParseStreamOffset, StreamOffset)]

Messages == [messages |-> <<>>]
ParseMessages(value) == [messages |-> Vector(value, "messages", ParseMessage)]

(* The options that the application gives for the consumer of a            *)
(* subscription, a function from their keys to their values, and the body  *)
(* of the request they are sent in.                                        *)
ConsumerProperties == [properties |-> <<>>]
ConsumerPropertiesJson(x) == Object([kafkaConsumerProperties |-> Object(x.properties)])
=============================================================================
