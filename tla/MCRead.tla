-------------------------------- MODULE MCRead --------------------------------
(***************************************************************************)
(* A small instance of the read clients for TLC: two prefetches at once on *)
(* as many workers as would both be held by the collecting tasks, the      *)
(* subscription of a stream layer, or two fetches of a catalog, versioned  *)
(* or volatile layer client at once.  These share no state, so a behaviour *)
(* is about one of them.                                                   *)
(***************************************************************************)
EXTENDS PrefetchTiles

CONSTANTS
    Calls, Partitions, MaxOffset, None,
    PartitionIds, MaxVersion

VARIABLES
    client,         \* the client that the behaviour is about
    client_context, pc, local, messages, result, sCancelled,
    subscriptions, position, committed, sDelivered, dropped, unreported, contended,
    latest, cache, task, called, lost, refused

Sub == INSTANCE StreamSubscription WITH cancelled <- sCancelled, delivered <- sDelivered

(* The repositories, each client with its calls and with the bounds that   *)
(* keep its instance small: CacheWithUpdate is explored with the short     *)
(* chains of the catalog, lost entries with those and the volatile layer's.*)
OfCatalog == INSTANCE ReadRepository WITH
    Fetches <- 1..2, Kinds <- {"catalog", "latest"}, MaxUpdates <- 1, MaxLost <- 1
OfVersioned == INSTANCE ReadRepository WITH
    Fetches <- 1..2, Kinds <- {"versionedPartitions", "versionedData", "prefetch"},
    MaxUpdates <- 0, MaxLost <- 0
OfVolatile == INSTANCE ReadRepository WITH
    Fetches <- 1..2, Kinds <- {"volatilePartitions", "volatileData"},
    MaxUpdates <- 0, MaxLost <- 1

ASSUME StreamSubscriptionAssumption == Sub!StreamSubscriptionAssumption
ASSUME ReadRepositoryAssumption ==
    OfCatalog!ReadRepositoryAssumption /\ OfVersioned!ReadRepositoryAssumption

subscriptionVars == <<client_context, pc, local, messages, result, sCancelled, subscriptions,
                      position, committed, sDelivered, dropped, unreported, contended>>
repositoryVars == <<latest, cache, task, called, lost, refused>>
all == <<client, vars, subscriptionVars, repositoryVars>>

MCInit ==
    /\ client \in {"prefetch", "stream", "catalog", "versioned", "volatile"}
    /\ Init /\ Sub!Init /\ OfCatalog!Init

Prefetch(A) == client = "prefetch" /\ A /\ UNCHANGED <<client, subscriptionVars, repositoryVars>>
Stream(A) == client = "stream" /\ A /\ UNCHANGED <<client, vars, repositoryVars>>
RepositoryClients == {"catalog", "versioned", "volatile"}
Repository(A) ==
    client \in RepositoryClients /\ A /\ UNCHANGED <<client, vars, subscriptionVars>>

(* The calls of the stream's client differ in name only, and none has an   *)
(* effect before the first Subscribe, which is that of the first name.     *)
SubscribeFirst ==
    Sub!Next /\ ((\A c \in Calls : pc[c] = "idle") => pc'[1] = "Subscribe")

(* The tiles of the second prefetch are fewer than those of the first may  *)
(* be: what two tiles of one request do to each other, the first shows.    *)
MCNext ==
    \/ Prefetch(Next /\ total'[2] < MaxTiles) \/ Stream(SubscribeFirst)
    \/ client = "catalog" /\ Repository(OfCatalog!Next)
    \/ client = "versioned" /\ Repository(OfVersioned!Next)
    \/ client = "volatile" /\ Repository(OfVolatile!Next)

(* What FairSpec and ReadRepository's Spec are fair to: the steps of the   *)
(* workers come to an end, so that fairness to one or the other will do.   *)
MCSpec ==
    /\ MCInit /\ [][MCNext]_all
    /\ WF_all(\/ Prefetch(\E w \in Workers : Step(w))
              \/ Repository(\E t \in OfCatalog!Tasks : OfCatalog!Step(t)))

-----------------------------------------------------------------------------
(* The properties of the clients, each stated and explained in its module, *)
(* about this instance.                                                    *)

(* The types of the state, no tile's promise is set twice (TileCallback)   *)
(* and no user of a fetch is called twice (ScheduleFetch).                 *)
Consistent ==
    /\ client = "prefetch" => TypeOK /\ PromiseSetOnce
    /\ client = "stream" => Sub!TypeOK
    /\ client = "catalog" => OfCatalog!TypeOK /\ OfCatalog!CalledOnce
    /\ client = "versioned" => OfVersioned!TypeOK /\ OfVersioned!CalledOnce
    /\ client = "volatile" => OfVolatile!TypeOK /\ OfVolatile!CalledOnce

(* The user of a prefetch is called once, with all of its tiles, unless it *)
(* was cancelled (PrefetchTiles).                                          *)
PrefetchExact == client = "prefetch" => CompleteResult /\ CalledOnceUnlessCancelled

(* Client and service agree on what is subscribed (Subscribe, Unsubscribe); *)
(* Poll commits all of what it returns and only what was consumed.          *)
SubscriptionExact ==
    client = "stream" =>
        Sub!NoOrphan /\ Sub!ContextIsLive /\ Sub!CommittedBeforeReturned /\ Sub!NothingLost

(* A fetch keeps to its FetchOptions all along its chain (ReadRepository). *)
FetchOptionKept == client \in RepositoryClients => OfCatalog!FetchOptionKept

(* A fetch answers from one version, with nothing of it missing            *)
(* (ReadRepository).                                                       *)
VersionKept == client \in RepositoryClients => OfCatalog!OneVersion /\ OfCatalog!NothingMissing

(* Every prefetch and every fetch is answered, whatever waits, fails or is *)
(* cancelled.                                                              *)
Answered ==
    []<>/\ client = "prefetch" => AllAnswered
        /\ client \in RepositoryClients => OfCatalog!Quiet
=============================================================================
