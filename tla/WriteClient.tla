------------------------------ MODULE WriteClient ------------------------------
(***************************************************************************)
(* write::VersionedLayerClientImpl, VolatileLayerClientImpl and            *)
(* IndexLayerClientImpl: operations that make a few requests one after the *)
(* other, once the first of them has looked up the services.               *)
(*                                                                         *)
(* The three share their structure: InitApiClients under a mutex that it   *)
(* only tries to lock, a CancellationContext for each operation, and the   *)
(* list of tokens that CancelAll goes through.  An action is what a thread *)
(* does while it holds the mutex, or the context of an operation.          *)
(***************************************************************************)
EXTENDS Integers, Sequences, FiniteSets

CONSTANTS
    MaxOperations,  \* the operations are 1..MaxOperations, as GetNextId numbers them
    Kinds,          \* what they do, at choice: each a function to Program
    Lookups,        \* how many services InitApiClients looks up
    Statuses        \* the statuses of requests: of HTTP, or negative if it failed

Operations == 1..MaxOperations
Nobody == 0

VARIABLES
    mutex,          \* who has locked mutex_
    initInProgress, \* init_in_progress_
    baseUrl,        \* what the base URL of the client looked up last leads to
    catalogModel,   \* whether catalog_model_ is set
    tokenList,      \* the operations in tokenList_, a vector that is ordered by id
    op,             \* the operations
    canceller,      \* the call of CancelAll
    notified,       \* who has been notified through cond_var_
    abandoned,      \* history: operations that left init_in_progress_ set
    overtaken,      \* history: operations that waited, and another began meanwhile
    shifted         \* history: whether CancelAll used an iterator to another token

past == <<abandoned, overtaken>>
initVars == <<mutex, initInProgress, baseUrl, notified, past>>
cancelVars == <<canceller, shifted>>
writeVars == <<initVars, catalogModel, tokenList, op, cancelVars>>

-----------------------------------------------------------------------------
(* The requests: each builds its URL, calls the OlpClient, and takes these *)
(* statuses for success.                                                   *)

InitPublication == {200}
UploadPartitions_NotNegated == {s \in Statuses : s <= 204}
UploadPartitions == {204}
SubmitPublication == {204}
GetPublication == {200}
CancelPublication == {204}
PutBlob == {200, 204}
deleteBlob == {200, 202}
checkBlobExists == {200, 404}
GetCatalog == {200}
insertIndexes == {s \in Statuses : s <= 201}
performUpdate == {s \in Statuses : s <= 201}
GetPartitionsById == {200}
GetApis == {200}
(* A catalog without versions is not an error. *)
GetLatestCatalogVersion == {200, 404}

Accepts == [
    initPublication |-> InitPublication, uploadPartitions |-> UploadPartitions,
    submitPublication |-> SubmitPublication, getPublication |-> GetPublication,
    cancelPublication |-> CancelPublication, latestVersion |-> GetLatestCatalogVersion,
    putBlob |-> PutBlob, deleteBlob |-> deleteBlob, checkBlobExists |-> checkBlobExists,
    catalog |-> GetCatalog, insertIndexes |-> insertIndexes, performUpdate |-> performUpdate,
    partitions |-> GetPartitionsById]

(* The requests of the operations, and of the functions they share.        *)
InitCatalogModel == <<"catalog">>
UploadBlob == <<"putBlob">>
UploadPartition == <<"uploadPartitions">>
GetDataHandleMap == <<"partitions">>

StartBatch == <<"initPublication">>
GetBaseVersion == <<"latestVersion">>
GetBatch == <<"getPublication">>
CompleteBatch == <<"submitPublication">>
CancelBatch == <<"cancelPublication">>
PublishToBatch == InitCatalogModel \o UploadBlob \o UploadPartition
CheckDataExists == <<"checkBlobExists">>
VolatileStartBatch == <<"initPublication">>
VolatileGetBaseVersion == <<"latestVersion">>
VolatileGetBatch == <<"getPublication">>
VolatileCompleteBatch == <<"submitPublication">>
PublishPartitionData == InitCatalogModel \o GetDataHandleMap \o UploadBlob
PublishPartitionsToBatch == <<"uploadPartitions">>
PublishIndex == InitCatalogModel \o UploadBlob \o <<"insertIndexes">>
DeleteIndexData == <<"deleteBlob">>
UpdateIndex == <<"performUpdate">>

Program == [
    StartBatch |-> StartBatch, GetBaseVersion |-> GetBaseVersion, GetBatch |-> GetBatch,
    CompleteBatch |-> CompleteBatch, CancelBatch |-> CancelBatch,
    PublishToBatch |-> PublishToBatch, CheckDataExists |-> CheckDataExists,
    VolatileStartBatch |-> VolatileStartBatch, VolatileGetBatch |-> VolatileGetBatch,
    VolatileGetBaseVersion |-> VolatileGetBaseVersion,
    VolatileCompleteBatch |-> VolatileCompleteBatch,
    PublishPartitionData |-> PublishPartitionData,
    PublishPartitionsToBatch |-> PublishPartitionsToBatch, PublishIndex |-> PublishIndex,
    DeleteIndexData |-> DeleteIndexData, UpdateIndex |-> UpdateIndex]

ASSUME WriteClientAssumption ==
    /\ MaxOperations \in Nat /\ Lookups \in Nat \ {0}
    /\ Kinds \subseteq [Operations -> DOMAIN Program]
    /\ Statuses \subseteq Int /\ \E s \in Statuses : s < 0

(* UploadBlob and UploadPartition call InitApiClients again, and so does   *)
(* GetDataHandleMap: within ExecuteOrCancelled, which forgets the token of *)
(* the request and keeps the empty one that InitApiClients returns.        *)
TokenForgotten(kind, request) ==
    <<kind, request>> \in {<<"PublishToBatch", "putBlob">>, <<"PublishToBatch", "uploadPartitions">>,
                           <<"PublishPartitionData", "partitions">>}

-----------------------------------------------------------------------------

(* The state of an operation: what it does; whether it has locked mutex_;  *)
(* which lookup, which request it has come to, and where it is; whether    *)
(* that was a success; whether its context has the token of a request that *)
(* a cancel reaches, has cancelled one, is cancelled; whether its own      *)
(* token was listed; its answers; and what the services have done for it.  *)
Op == [kind : DOMAIN Program, owns : BOOLEAN, lookup : 0..Lookups, step : 0..3,
       pc : {"new", "init", "waiting", "blocked", "relock", "waited", "lookup", "request",
             "answered", "lookupFailed", "lookupEnd", "done", "threw", "hung"},
       ok : BOOLEAN, token : BOOLEAN, killed : BOOLEAN, cancelled : BOOLEAN,
       listed : BOOLEAN, calls : 0..1, answer : {"none", "ok", "error", "cancelled"},
       stored : SUBSET DOMAIN Accepts]

Canceller == [pc : {"idle", "list", "find", "cancel", "returned"},
              ids : SUBSET Operations, todo : SUBSET Operations,
              id : Operations \cup {Nobody}, at : 0..MaxOperations, all : SUBSET Operations]

TypeOK ==
    /\ mutex \in Operations \cup {Nobody} /\ initInProgress \in BOOLEAN
    /\ baseUrl \in {"none", "lookup", "service"} /\ catalogModel \in BOOLEAN
    /\ tokenList \subseteq Operations
    /\ op \in [Operations -> Op] /\ canceller \in Canceller
    /\ {notified, abandoned, overtaken} \subseteq SUBSET Operations /\ shifted \in BOOLEAN

Init ==
    /\ mutex = Nobody /\ initInProgress = FALSE /\ baseUrl = "none" /\ catalogModel = FALSE
    /\ tokenList = {} /\ notified = {} /\ abandoned = {} /\ overtaken = {} /\ shifted = FALSE
    /\ \E kinds \in Kinds : op = [o \in Operations |-> [
           kind |-> kinds[o], owns |-> FALSE, lookup |-> 0, step |-> 0, pc |-> "new", ok |-> FALSE,
           token |-> FALSE, killed |-> FALSE, cancelled |-> FALSE, listed |-> FALSE, calls |-> 0,
           answer |-> "none", stored |-> {}]]
    /\ canceller = [pc |-> "idle", ids |-> {}, todo |-> {}, id |-> Nobody, at |-> 0, all |-> {}]

RemoveTask(o) == tokenList' = tokenList \ {o}

(* What an iterator to this place of the vector leads to, if anything.     *)
TokenAt(place) == {o \in tokenList : Cardinality({p \in tokenList : p <= o}) = place}

-----------------------------------------------------------------------------
(* How an operation ends, and how it goes on                               *)

Set(o, x) == op' = [op EXCEPT ![o] = x]

Answered(x, answer) ==
    [x EXCEPT !.pc = "done", !.calls = @ + 1, !.answer = answer,
              !.lookup = 0, !.step = 0, !.ok = FALSE, !.token = FALSE, !.killed = FALSE]

(* The callbacks of CheckDataExists forget RemoveTask on these ways out.   *)
GiveUp(o, x) ==
    /\ Set(o, x)
    /\ IF x.kind = "CheckDataExists" THEN UNCHANGED tokenList ELSE RemoveTask(o)

Request(x) == Program[x.kind][x.step]

MayStart(x) == ~x.cancelled

Send(x, async) ==
    [x EXCEPT !.pc = "request", !.killed = FALSE,
              !.token = async /\ ~TokenForgotten(x.kind, Request(x))]

(* ExecuteOrCancelled of the request at x.step.  The blob needs a layer    *)
(* that the catalog has (FindContentTypeForLayerId).                       *)
Execute(o, x, async) ==
    \/ MayStart(x) /\ Set(o, Send(x, async)) /\ UNCHANGED tokenList
    \/ ~MayStart(x) /\ GiveUp(o, Answered(x, "cancelled"))
    \/ /\ Request(x) = "putBlob" /\ (x.kind = "PublishPartitionData" => MayStart(x))
       /\ Set(o, Answered(x, "error"))
       /\ IF x.kind = "PublishIndex" THEN UNCHANGED tokenList ELSE RemoveTask(o)

(* InitCatalogModel does not fetch the catalog twice; then what follows    *)
(* runs within its ExecuteOrCancelled.                                     *)
Proceed(o, x, async) ==
    IF Request(x) = "catalog" /\ catalogModel
    THEN Execute(o, [x EXCEPT !.step = @ + 1], FALSE)
    ELSE Execute(o, x, async)

-----------------------------------------------------------------------------
(* InitApiClients *)

(* An operation that is called with bad arguments answers at once;         *)
(* another gets its id, and tries to lock the mutex.                       *)
Call(o) ==
    /\ op[o].pc = "new" /\ \A p \in 1..(o - 1) : op[p].pc # "new"
    /\ \/ Set(o, Answered([op[o] EXCEPT !.listed = TRUE], "error")) /\ UNCHANGED mutex
       \/ /\ Set(o, [op[o] EXCEPT !.pc = "init", !.step = 1, !.owns = (mutex = Nobody)])
          /\ mutex' = IF mutex = Nobody THEN o ELSE mutex
    /\ UNCHANGED <<initInProgress, baseUrl, notified, past, catalogModel, tokenList, cancelVars>>

Unlock(o) == mutex' = IF op[o].owns THEN Nobody ELSE mutex

(* Another operation is initialising: unlock, and wait on a lock that is   *)
(* not locked.  If it was not locked to begin with, unlock throws.         *)
InitInProgress(o) ==
    /\ op[o].pc = "init" /\ initInProgress
    /\ Set(o, [op[o] EXCEPT !.pc = IF op[o].owns THEN "waiting" ELSE "threw", !.owns = FALSE])
    /\ Unlock(o)
    /\ UNCHANGED <<initInProgress, baseUrl, notified, past, catalogModel, tokenList, cancelVars>>

(* cond_var_.wait.  Undefined: one library throws, with another the thread *)
(* blocks, and unlocks the mutex whoever has locked it.                    *)
Wait(o) ==
    /\ op[o].pc = "waiting"
    /\ \/ ~initInProgress /\ Set(o, [op[o] EXCEPT !.pc = "relock"]) /\ UNCHANGED mutex
       \/ initInProgress /\ Set(o, [op[o] EXCEPT !.pc = "threw"]) /\ UNCHANGED mutex
       \/ initInProgress /\ Set(o, [op[o] EXCEPT !.pc = "blocked"]) /\ mutex' = Nobody
    /\ UNCHANGED <<initInProgress, baseUrl, notified, past, catalogModel, tokenList, cancelVars>>

(* Woken up, it has the mutex; then it locks it again, which never ends.   *)
Wake(o) ==
    /\ op[o].pc = "blocked" /\ o \in notified /\ mutex = Nobody
    /\ notified' = notified \ {o}
    /\ \/ ~initInProgress /\ Set(o, [op[o] EXCEPT !.pc = "hung"]) /\ mutex' = o
       \/ initInProgress /\ UNCHANGED <<op, mutex>>
    /\ UNCHANGED <<initInProgress, baseUrl, past, catalogModel, tokenList, cancelVars>>

Relock(o) ==
    /\ op[o].pc = "relock" /\ mutex = Nobody
    /\ mutex' = o /\ Set(o, [op[o] EXCEPT !.pc = "waited", !.owns = TRUE])
    /\ UNCHANGED <<initInProgress, baseUrl, notified, past, catalogModel, tokenList, cancelVars>>

Looking(x, k) == [x EXCEPT !.pc = "lookup", !.lookup = k, !.token = TRUE, !.killed = FALSE]

(* LookupApi sets the base URL of the client to that of the lookup service *)
(* until it knows better.                                                  *)
LookupApi(k) == baseUrl' = IF k = Lookups THEN "lookup" ELSE baseUrl

Initialised == baseUrl # "none"

(* The rest of InitApiClients *)
InitApiClients(o) ==
    /\ op[o].pc = "waited" \/ (op[o].pc = "init" /\ ~initInProgress)
    /\ \/ /\ Initialised
          /\ Proceed(o, [op[o] EXCEPT !.owns = FALSE], FALSE) /\ Unlock(o)
          /\ UNCHANGED <<initInProgress, baseUrl, past>>
       \/ /\ ~Initialised
          /\ initInProgress' = TRUE
          /\ overtaken' = IF initInProgress THEN overtaken \cup {o} ELSE overtaken
          /\ \/ /\ op[o].owns /\ Unlock(o)
                /\ Set(o, [Looking(op[o], 1) EXCEPT !.owns = FALSE])
                /\ LookupApi(1) /\ UNCHANGED abandoned
             \/ /\ ~op[o].owns /\ Set(o, [op[o] EXCEPT !.pc = "threw"])
                /\ abandoned' = abandoned \cup {o} /\ UNCHANGED <<mutex, baseUrl>>
          /\ UNCHANGED tokenList
    /\ UNCHANGED <<notified, catalogModel, cancelVars>>

-----------------------------------------------------------------------------
(* What the services answer *)

(* A request whose token has been cancelled fails. *)
Arrive(o) ==
    /\ op[o].pc \in {"lookup", "request"}
    /\ \E status \in Statuses :
          LET accepted == IF op[o].pc = "lookup" THEN GetApis ELSE Accepts[Request(op[o])]
              served == op[o].pc = "request" /\ status \in 200..299
          IN  /\ op[o].killed => status < 0
              /\ Set(o, [op[o] EXCEPT !.pc = "answered", !.ok = status \in accepted,
                                      !.token = FALSE, !.killed = FALSE,
                                      !.stored = IF served THEN @ \cup {Request(op[o])} ELSE @])
    /\ UNCHANGED <<initVars, catalogModel, tokenList, cancelVars>>

NextLookup_NoCancelFunction(o) ==
    LET k == op[o].lookup IN
    /\ op[o].pc = "answered" /\ 0 < k /\ k < Lookups
    /\ \/ /\ ~op[o].ok
          /\ GiveUp(o, [Answered(op[o], "error") EXCEPT !.pc = "lookupFailed"])
          /\ UNCHANGED <<baseUrl, abandoned>>
       \/ /\ op[o].ok /\ ~op[o].cancelled
          /\ Set(o, Looking(op[o], k + 1)) /\ LookupApi(k + 1)
          /\ UNCHANGED <<tokenList, abandoned>>
    /\ UNCHANGED <<mutex, initInProgress, notified, overtaken, catalogModel, cancelVars>>
(* configApi_callback and the others but the last: an error is reported    *)
(* before init_in_progress_ is reset; a cancelled operation does not reset *)
(* it at all.                                                              *)
NextLookup(o) ==
    LET k == op[o].lookup IN
    /\ op[o].pc = "answered" /\ 0 < k /\ k < Lookups
    /\ \/ /\ ~op[o].ok
          /\ GiveUp(o, [Answered(op[o], "error") EXCEPT !.pc = "lookupFailed"])
          /\ UNCHANGED <<baseUrl, abandoned>>
       \/ /\ op[o].ok /\ ~op[o].cancelled
          /\ Set(o, Looking(op[o], k + 1)) /\ LookupApi(k + 1)
          /\ UNCHANGED <<tokenList, abandoned>>
       \/ /\ op[o].ok /\ op[o].cancelled
          /\ GiveUp(o, Answered(op[o], "cancelled")) /\ abandoned' = abandoned \cup {o}
          /\ UNCHANGED baseUrl
    /\ UNCHANGED <<mutex, initInProgress, notified, overtaken, catalogModel, cancelVars>>

Blocked == {o \in Operations : op[o].pc = "blocked"}
NotifyOne ==
    \/ \E p \in Blocked : notified' = notified \cup {p}
    \/ Blocked = {} /\ UNCHANGED notified
NotifyAll == notified' = notified \cup Blocked

LookupFailed(o) ==
    /\ op[o].pc = "lookupFailed" /\ mutex = Nobody
    /\ initInProgress' = FALSE
    /\ Set(o, [op[o] EXCEPT !.pc = "done"])
    /\ NotifyOne
    /\ UNCHANGED <<mutex, baseUrl, past, catalogModel, tokenList, cancelVars>>

(* publishApi_callback, which locks the mutex around the callback.         *)
LastLookup(o) ==
    /\ op[o].pc = "answered" /\ op[o].lookup = Lookups /\ mutex = Nobody
    /\ mutex' = o /\ Set(o, [op[o] EXCEPT !.pc = "lookupEnd"])
    /\ UNCHANGED <<initInProgress, baseUrl, notified, past, catalogModel, tokenList, cancelVars>>

LookupEnd_StillInProgress(o) ==
    /\ op[o].pc = "lookupEnd" /\ op[o].ok
    /\ mutex' = Nobody /\ baseUrl' = "service"
    /\ Proceed(o, [op[o] EXCEPT !.lookup = 0], TRUE)
    /\ UNCHANGED <<initInProgress, notified, past, catalogModel, cancelVars>>
LookupEnd(o) ==
    /\ op[o].pc = "lookupEnd"
    /\ initInProgress' = FALSE /\ mutex' = Nobody
    /\ \/ /\ op[o].ok
          /\ baseUrl' = "service" /\ NotifyAll
          /\ Proceed(o, [op[o] EXCEPT !.lookup = 0], TRUE)
       \/ /\ ~op[o].ok
          /\ GiveUp(o, Answered(op[o], "error"))
          /\ NotifyOne
          /\ UNCHANGED baseUrl
    /\ UNCHANGED <<past, catalogModel, cancelVars>>

(* The answer of a service may lack what is needed next: an id, a handle.  *)
MayLack(x) == Request(x) \in {"initPublication", "partitions"}
IsLast_Early(x) == x.step >= Len(Program[x.kind]) - 1
IsLast(x) == x.step = Len(Program[x.kind])

Fail(o) ==
    /\ op[o].pc = "answered" /\ op[o].lookup = 0
    /\ ~op[o].ok \/ MayLack(op[o])
    /\ Set(o, Answered(op[o], "error")) /\ RemoveTask(o)
    /\ UNCHANGED <<initVars, catalogModel, cancelVars>>

Succeed(o) ==
    /\ op[o].pc = "answered" /\ op[o].lookup = 0 /\ op[o].ok
    /\ catalogModel' = (catalogModel \/ Request(op[o]) = "catalog")
    /\ \/ IsLast(op[o]) /\ Set(o, Answered(op[o], "ok")) /\ RemoveTask(o)
       \/ ~IsLast(op[o]) /\ Execute(o, [op[o] EXCEPT !.step = @ + 1], TRUE)
    /\ UNCHANGED <<initVars, cancelVars>>

-----------------------------------------------------------------------------
(* The list of tokens *)

(* The end of every operation's call: its token is listed, be it answered  *)
(* or not.                                                                 *)
AddTask(o) ==
    /\ ~op[o].listed
    /\ op[o].pc \in {"lookup", "request", "answered", "lookupFailed", "lookupEnd", "done"}
    /\ tokenList' = tokenList \cup {o} /\ Set(o, [op[o] EXCEPT !.listed = TRUE])
    /\ UNCHANGED <<initVars, catalogModel, cancelVars>>

CancelOperation(o) ==
    Set(o, [op[o] EXCEPT !.cancelled = (@ \/ op[o].calls = 0), !.token = FALSE,
                         !.killed = (@ \/ op[o].token)])

Cancel(o) ==
    /\ op[o].listed /\ ~op[o].cancelled /\ op[o].calls = 0
    /\ CancelOperation(o)
    /\ UNCHANGED <<initVars, catalogModel, tokenList, cancelVars>>

CancelAll ==
    /\ canceller.pc = "idle"
    /\ canceller' = [canceller EXCEPT !.pc = "list", !.all = tokenList]
    /\ UNCHANGED <<initVars, catalogModel, tokenList, op, shifted>>

GetTaskIdList ==
    /\ canceller.pc = "list"
    /\ canceller' = [canceller EXCEPT !.ids = tokenList, !.todo = tokenList,
                                      !.pc = IF tokenList = {} THEN "returned" ELSE "find"]
    /\ UNCHANGED <<initVars, catalogModel, tokenList, op, shifted>>

(* It looks an id up, and cancels what the iterator leads to: both without *)
(* the mutex of the list.                                                  *)
FindToken ==
    /\ canceller.pc = "find" /\ canceller.todo # {}
    /\ LET id == CHOOSE i \in canceller.todo : \A j \in canceller.todo : i <= j
           c == [canceller EXCEPT !.todo = @ \ {id}, !.id = id]
       IN  \/ id \notin tokenList /\ canceller' = c
          \/ \E place \in 1..MaxOperations :
                 id \in TokenAt(place) /\ canceller' = [c EXCEPT !.pc = "cancel", !.at = place]
    /\ UNCHANGED <<initVars, catalogModel, tokenList, op, shifted>>

CancelToken ==
    /\ canceller.pc = "cancel"
    /\ \/ \E o \in TokenAt(canceller.at) :
             CancelOperation(o) /\ shifted' = (shifted \/ o # canceller.id)
       \/ TokenAt(canceller.at) = {} /\ shifted' = TRUE /\ UNCHANGED op
    /\ canceller' = [canceller EXCEPT !.pc = "find"]
    /\ UNCHANGED <<initVars, catalogModel, tokenList>>

EraseListed_All(ids) == tokenList' = {}
EraseListed(ids) == tokenList' = tokenList \ ids

EraseTokens ==
    /\ canceller.pc = "find" /\ canceller.todo = {}
    /\ EraseListed(canceller.ids)
    /\ canceller' = [canceller EXCEPT !.pc = "list"]
    /\ UNCHANGED <<initVars, catalogModel, op, shifted>>

-----------------------------------------------------------------------------

Step(o) ==
    \/ InitInProgress(o) \/ Wait(o) \/ Wake(o) \/ Relock(o) \/ InitApiClients(o)
    \/ Arrive(o) \/ NextLookup(o) \/ LookupFailed(o) \/ LastLookup(o) \/ LookupEnd(o)
    \/ Fail(o) \/ Succeed(o)

CancellerStep == GetTaskIdList \/ FindToken \/ CancelToken \/ EraseTokens

Next ==
    \/ \E o \in Operations : Call(o) \/ Step(o) \/ AddTask(o) \/ Cancel(o)
    \/ CancelAll \/ CancellerStep

(* Threads run, and the services answer or the requests time out. *)
Spec == Init /\ [][Next]_writeVars
FairSpec == Spec /\ \A o \in Operations : WF_writeVars(Step(o))

-----------------------------------------------------------------------------
(* Properties *)

Initialising(o) ==
    \/ op[o].pc \in {"lookup", "lookupFailed", "lookupEnd"}
    \/ op[o].pc = "answered" /\ op[o].lookup > 0

(* One operation looks the services up at a time, and init_in_progress_ is *)
(* set meanwhile.  Otherwise it is not, unless an operation left it set    *)
(* that was cancelled, or had not locked the mutex                         *)
(* (VersionedLayerClientImpl.cpp:81, :160): then others wait for good.     *)
(* This holds until the first operation is overtaken: once a lookup has    *)
(* failed, it comes back from the wait to find that a third has begun, and *)
(* begins all the same (VersionedLayerClientImpl.cpp:71).                  *)
OneInitialiser ==
    overtaken = {} =>
        /\ \A o, p \in Operations : Initialising(o) /\ Initialising(p) => o = p
        /\ (\E o \in Operations : Initialising(o)) => initInProgress
        /\ initInProgress => (\E o \in Operations : Initialising(o)) \/ abandoned # {}

(* An operation succeeds only if the services have done all it asked for,  *)
(* in order; metadata is not published without its blob (UploadBlob before *)
(* UploadPartition, PutBlob before insertIndexes).  Success says nothing   *)
(* of the requests that may be answered from the catalog model, that ask   *)
(* what there is, or that take a failure for success.                      *)
Unconfirmed == {"catalog", "checkBlobExists", "latestVersion", "insertIndexes", "performUpdate"}

OkMeansStored ==
    \A o \in Operations :
        /\ op[o].answer = "ok" =>
              \A i \in 1..Len(Program[op[o].kind]) :
                  Program[op[o].kind][i] \in op[o].stored \cup Unconfirmed
        /\ op[o].stored \cap {"uploadPartitions", "insertIndexes"} # {} =>
              "putBlob" \in op[o].stored \/ op[o].kind = "PublishPartitionsToBatch"

(* What is running can be cancelled: a token is in the list once its       *)
(* operation has returned, until it is answered or CancelAll takes it      *)
(* (CancellationTokenList).  What CancelAll found in the list it has       *)
(* cancelled when it returns, unless it was finished: an operation that    *)
(* answers removes its token meanwhile, so that the iterator of CancelAll  *)
(* may lead to the token of another (CancellationTokenList.cpp:64).        *)
CancelAllReaches ==
    ~shifted =>
        /\ \A o \in Operations :
              op[o].listed /\ op[o].calls = 0 => o \in tokenList \/ op[o].cancelled
        /\ canceller.pc = "returned" =>
              \A o \in canceller.all : op[o].cancelled \/ op[o].calls = 1

(* An operation is answered, whatever the services reply and whenever it   *)
(* is cancelled, unless it came while another initialised the client: time *)
(* and again none waits for its answer.                                    *)
OperationsAnswered ==
    \A o \in Operations : op[o].calls = 1 \/ op[o].pc \in {"new", "threw", "blocked", "hung"}
EveryOperationAnswered == []<>OperationsAnswered
=============================================================================
