------------------------- MODULE WriteClientProofs -------------------------
(***************************************************************************)
(* Theorems about the operations of the write clients: one of them looks   *)
(* the services up at a time, what is reported as done was done, in order, *)
(* and what runs can be cancelled.  The last part is about the run: what   *)
(* StreamWriteProofs shows of a stream layer's client holds of the         *)
(* instances that the run is made of.                                      *)
(*                                                                         *)
(* Every step changes one operation, so that the invariant is stated of an *)
(* operation by itself (Placed, Kept) and of the list of tokens (Tokens);  *)
(* Moves says what the step of an operation may do to the three.           *)
(***************************************************************************)
EXTENDS MCWrite, Integers, WellFoundedInduction, TLAPS

NumRequests(x) == Len(Program[x.kind])

(* The operation looks the services up, or asks one of them.               *)
Looks(x) == x.pc \in {"lookup", "lookupEnd"} \/ (x.pc = "answered" /\ x.lookup > 0)
Asks(x) == x.pc = "request" \/ (x.pc = "answered" /\ x.lookup = 0)

(* Where an operation is and what it counts belong together: its request,  *)
(* its lookup, whether it is answered.                                     *)
Placed(x) ==
    /\ x.pc \in {"lookup", "lookupEnd"} => x.lookup > 0
    /\ ~Looks(x) => x.lookup = 0
    /\ IF x.pc \in {"done", "lookupFailed"} THEN x.calls = 1 ELSE x.calls = 0 /\ x.answer = "none"
    /\ x.pc \in {"init", "waiting", "blocked", "relock", "waited"} \/ Looks(x) => x.step = 1
    /\ Asks(x) => x.step \in 1..NumRequests(x)

(* What the first n requests asked for is done. *)
Stored(x, n) == \A i \in 1..n : Program[x.kind][i] \in x.stored \cup Unconfirmed

BlobFirst(x) ==
    x.stored \cap {"uploadPartitions", "insertIndexes"} # {} =>
        "putBlob" \in x.stored \/ x.kind = "PublishPartitionsToBatch"

(* The requests before the present one have done what they are for, and so *)
(* has the present one if it was answered so.                              *)
Kept(x) ==
    /\ Asks(x) => Stored(x, x.step - 1)
    /\ x.pc = "answered" /\ x.lookup = 0 /\ x.ok => Stored(x, x.step)
    /\ x.answer = "ok" => Stored(x, NumRequests(x))
    /\ BlobFirst(x)

OpsInv == \A o \in Operations : Placed(op[o]) /\ Kept(op[o])

(* The list, and what CancelAll has read of it, are tokens of operations   *)
(* that have returned, which are not listed twice; those that CancelAll    *)
(* has passed are cancelled or finished.                                   *)
Tokens ==
    /\ \A o \in tokenList \cup canceller.ids \cup canceller.all : op[o].listed
    /\ canceller.todo \subseteq canceller.ids
    /\ canceller.pc = "returned" => canceller.all \cap tokenList = {}
    /\ ~shifted /\ canceller.pc \in {"find", "cancel"} =>
          \A o \in canceller.ids \ canceller.todo :
              \/ op[o].cancelled \/ op[o].calls = 1
              \/ canceller.pc = "cancel" /\ o = canceller.id

(* What runs is in the list, unless it is cancelled. *)
Cancellable ==
    ~shifted =>
        \A o \in Operations :
            op[o].listed /\ op[o].calls = 0 => o \in tokenList \/ op[o].cancelled

WriteInv == OpsInv /\ Tokens /\ Cancellable /\ OneInitialiser

-----------------------------------------------------------------------------
(* The programs and the answers *)

(* The sequences of one request each that the programs are put together of. *)
LEMMA Three ==
    ASSUME NEW S, NEW a \in S, NEW b \in S, NEW c \in S
    PROVE  <<a>> \o <<b>> \o <<c>> = <<a, b, c>>
  <1> DEFINE two == <<a>> \o <<b>>
             three == two \o <<c>>
  <1>1. two \in Seq(S) /\ Len(two) = 2 /\ two[1] = a /\ two[2] = b
    OBVIOUS
  <1> HIDE DEF two
  <1>2. three \in Seq(S) /\ Len(three) = 3 /\ three[1] = a /\ three[2] = b /\ three[3] = c
    BY <1>1 DEF two
  <1> HIDE DEF three
  <1>3. three = <<a, b, c>>
    BY <1>2
  <1> QED
    BY <1>3 DEF two, three

(* Every operation makes one to three requests, the catalog before two     *)
(* others, and metadata after its blob (PublishToBatch, PublishIndex).     *)
LEMMA Programs ==
    ASSUME NEW k \in DOMAIN Program
    PROVE  /\ Len(Program[k]) \in 1..3
           /\ Program[k][1] = "catalog" => Len(Program[k]) = 3
           /\ \A i \in 1..Len(Program[k]) :
                 /\ Program[k][i] \in DOMAIN Accepts
                 /\ Program[k][i] \in {"uploadPartitions", "insertIndexes"} =>
                        k = "PublishPartitionsToBatch" \/ (i = 3 /\ Program[k][2] = "putBlob")
  <1>1. DOMAIN Accepts =
           {"initPublication", "uploadPartitions", "submitPublication", "getPublication",
            "cancelPublication", "latestVersion", "putBlob", "deleteBlob", "checkBlobExists",
            "catalog", "insertIndexes", "performUpdate", "partitions"}
    BY DEF Accepts
  <1>2. /\ PublishToBatch = <<"catalog", "putBlob", "uploadPartitions">>
        /\ PublishPartitionData = <<"catalog", "partitions", "putBlob">>
        /\ PublishIndex = <<"catalog", "putBlob", "insertIndexes">>
    BY <1>1, Three DEF PublishToBatch, PublishPartitionData, PublishIndex, InitCatalogModel,
       UploadBlob, UploadPartition, GetDataHandleMap
  <1> DEFINE alone == DOMAIN Accepts \ {"uploadPartitions", "insertIndexes", "catalog"}
  <1>3. CASE k = "PublishToBatch"
    BY <1>1, <1>2, <1>3 DEF Program
  <1>4. CASE k = "PublishPartitionData"
    BY <1>1, <1>2, <1>4 DEF Program
  <1>5. CASE k = "PublishIndex"
    BY <1>1, <1>2, <1>5 DEF Program
  <1>6. CASE k = "PublishPartitionsToBatch"
    BY <1>1, <1>6 DEF Program, PublishPartitionsToBatch
  <1>7. CASE k \notin {"PublishToBatch", "PublishPartitionData", "PublishIndex",
                       "PublishPartitionsToBatch"}
    <2>1. \E r \in alone : Program[k] = <<r>>
      BY <1>1, <1>7 DEF Program, StartBatch, GetBaseVersion, GetBatch, CompleteBatch, CancelBatch,
         CheckDataExists, VolatileStartBatch, VolatileGetBatch, VolatileGetBaseVersion,
         VolatileCompleteBatch, DeleteIndexData, UpdateIndex
    <2>2. PICK r \in alone : Program[k] = <<r>>
      BY <2>1
    <2> QED
      BY <1>1, <2>2
  <1> QED
    BY <1>3, <1>4, <1>5, <1>6, <1>7

(* A request whose success counts is accepted with a status of success.    *)
LEMMA AcceptedIsServed ==
    ASSUME NEW r \in DOMAIN Accepts, r \notin Unconfirmed, NEW s \in Accepts[r]
    PROVE  s \in 200..299
  BY DEF Accepts, Unconfirmed, InitPublication, UploadPartitions, SubmitPublication, GetPublication,
     CancelPublication, GetLatestCatalogVersion, PutBlob, deleteBlob, checkBlobExists, GetCatalog,
     insertIndexes, performUpdate, GetPartitionsById

-----------------------------------------------------------------------------
(* One operation moves *)

(* The operation's own changes, seen one by one. *)
LEMMA SetEffect ==
    ASSUME op \in [Operations -> Op], NEW o \in Operations, NEW y \in Op, Set(o, y)
    PROVE  /\ op' \in [Operations -> Op] /\ op'[o] = y
           /\ \A p \in Operations \ {o} : op'[p] = op[p]
  BY DEF Set

(* What it may do to the list of tokens (RemoveTask, AddTask, Cancel).     *)
Turned(o, y) ==
    /\ op[o].cancelled => y.cancelled
    /\ op[o].calls = 1 => y.calls = 1
    /\ \/ tokenList' = tokenList /\ (y.listed = op[o].listed \/ (y.listed /\ y.calls = 1))
       \/ tokenList' = tokenList \ {o} /\ y.listed = op[o].listed /\ y.calls = 1
       \/ tokenList' = tokenList \cup {o} /\ ~op[o].listed /\ y.listed
    /\ UNCHANGED cancelVars

(* An operation that looks the services up, as Initialising says.          *)
Inits(x) == x.pc \in {"lookup", "lookupFailed", "lookupEnd"} \/ (x.pc = "answered" /\ x.lookup > 0)

(* What it may do to init_in_progress_: leave it, set it as it begins to   *)
(* look the services up or throws, and reset it at the end or forget to.   *)
Phase(o, y) ==
    /\ abandoned \subseteq abandoned' /\ overtaken \subseteq overtaken'
    /\ \/ (Inits(y) <=> Inits(op[o])) /\ UNCHANGED initInProgress
       \/ /\ initInProgress' = TRUE /\ (initInProgress => overtaken' # {})
          /\ Inits(y) \/ (~Inits(op[o]) /\ abandoned' # {})
       \/ Inits(op[o]) /\ ~Inits(y) /\ initInProgress' = FALSE
       \/ Inits(op[o]) /\ ~Inits(y) /\ UNCHANGED initInProgress /\ abandoned' # {}

(* The rest of the state keeps its types. *)
Rest ==
    /\ mutex \in Operations \cup {Nobody} /\ initInProgress \in BOOLEAN
    /\ baseUrl \in {"none", "lookup", "service"} /\ catalogModel \in BOOLEAN
    /\ {notified, abandoned, overtaken} \subseteq SUBSET Operations

Moves(o) ==
    /\ Rest'
    /\ \E y \in Op : Set(o, y) /\ Placed(y) /\ Kept(y) /\ Turned(o, y) /\ Phase(o, y)

(* Whoever is answered is done, with what it has stored. *)
LEMMA AnsweredEffect ==
    ASSUME NEW x \in Op, x.calls = 0, BlobFirst(x), NEW a \in {"ok", "error", "cancelled"},
           a = "ok" => Stored(x, NumRequests(x)), NEW y, y = Answered(x, a)
    PROVE  /\ y \in Op /\ Placed(y) /\ Kept(y)
           /\ y.pc = "done" /\ y.calls = 1 /\ y.lookup = 0
           /\ y.listed = x.listed /\ y.cancelled = x.cancelled /\ y.kind = x.kind
  <1>1. /\ y \in Op /\ y.pc = "done" /\ y.calls = 1 /\ y.lookup = 0 /\ y.answer = a
        /\ y.listed = x.listed /\ y.cancelled = x.cancelled /\ y.kind = x.kind
        /\ y.stored = x.stored
    <2>1. y = [x EXCEPT !.pc = "done", !.calls = 1, !.answer = a, !.lookup = 0, !.step = 0,
                        !.ok = FALSE, !.token = FALSE, !.killed = FALSE]
      BY DEF Answered, Op
    <2>2. /\ y.pc = "done" /\ y.calls = 1 /\ y.lookup = 0 /\ y.answer = a
          /\ y.listed = x.listed /\ y.cancelled = x.cancelled /\ y.kind = x.kind
          /\ y.stored = x.stored
      BY <2>1 DEF Op
    <2>3. y.lookup \in 0..Lookups /\ y.step \in 0..3 /\ y.calls \in 0..1
      BY <2>1, WriteClientAssumption DEF Op, WriteClientAssumption
    <2>4. /\ y.owns \in BOOLEAN /\ y.ok \in BOOLEAN /\ y.token \in BOOLEAN
          /\ y.killed \in BOOLEAN /\ y.cancelled \in BOOLEAN /\ y.listed \in BOOLEAN
      BY <2>1 DEF Op
    <2>5. y.kind \in DOMAIN Program /\ y.stored \in SUBSET DOMAIN Accepts
      BY <2>2 DEF Op
    <2>6. y \in Op
      BY <2>1, <2>2, <2>3, <2>4, <2>5 DEF Op
    <2> QED
      BY <2>2, <2>6
  <1> QED
    BY <1>1 DEF Placed, Kept, Looks, Asks, BlobFirst, Stored, NumRequests

(* It sends the request that is next, with what came before it done. *)
Ready(x) ==
    /\ x.calls = 0 /\ x.answer = "none" /\ x.lookup = 0 /\ BlobFirst(x)
    /\ x.step \in 1..NumRequests(x) /\ Stored(x, x.step - 1)

(* Sending the next request keeps what the operation has done so far.      *)
LEMMA SendEffect ==
    ASSUME NEW x \in Op, Ready(x), NEW async \in BOOLEAN, NEW y, y = Send(x, async)
    PROVE  /\ y \in Op /\ Placed(y) /\ Kept(y)
           /\ y.pc = "request" /\ y.calls = 0 /\ y.lookup = 0
           /\ y.listed = x.listed /\ y.cancelled = x.cancelled /\ y.kind = x.kind
  <1>1. y = [x EXCEPT !.pc = "request", !.killed = FALSE,
                      !.token = async /\ ~TokenForgotten(x.kind, Request(x))]
    BY DEF Send
  <1>2. (async /\ ~TokenForgotten(x.kind, Request(x))) \in BOOLEAN
    BY SMT
  <1>3. /\ y \in Op /\ y.pc = "request" /\ y.calls = 0 /\ y.lookup = 0 /\ y.answer = "none"
        /\ y.listed = x.listed /\ y.cancelled = x.cancelled /\ y.kind = x.kind
        /\ y.stored = x.stored /\ y.step = x.step
    BY <1>1, <1>2 DEF Ready, Op
  <1> QED
    BY <1>3 DEF Ready, Placed, Kept, Looks, Asks, BlobFirst, Stored, NumRequests

(* ExecuteOrCancelled sends the request, or answers and forgets the token. *)
LEMMA ExecuteEffect ==
    ASSUME NEW o \in Operations, NEW x \in Op, Ready(x), NEW async \in BOOLEAN,
           Execute(o, x, async)
    PROVE  \E y \in Op :
              /\ Set(o, y) /\ Placed(y) /\ Kept(y) /\ y.lookup = 0 /\ y.pc \in {"request", "done"}
              /\ y.listed = x.listed /\ y.cancelled = x.cancelled
              /\ \/ tokenList' = tokenList
                 \/ tokenList' = tokenList \ {o} /\ y.calls = 1
  <1> DEFINE sent == Send(x, async)
             error == Answered(x, "error")
             stops == Answered(x, "cancelled")
  <1>1. /\ sent \in Op /\ Placed(sent) /\ Kept(sent) /\ sent.pc = "request" /\ sent.lookup = 0
        /\ sent.listed = x.listed /\ sent.cancelled = x.cancelled
    BY SendEffect
  <1>2. /\ error \in Op /\ Placed(error) /\ Kept(error) /\ error.pc = "done" /\ error.lookup = 0
        /\ error.listed = x.listed /\ error.cancelled = x.cancelled /\ error.calls = 1
    BY AnsweredEffect DEF Ready
  <1>3. /\ stops \in Op /\ Placed(stops) /\ Kept(stops) /\ stops.pc = "done"
        /\ stops.lookup = 0 /\ stops.listed = x.listed /\ stops.cancelled = x.cancelled
        /\ stops.calls = 1
    BY AnsweredEffect DEF Ready
  <1>4. \/ Set(o, sent) /\ UNCHANGED tokenList
        \/ /\ Set(o, error) \/ Set(o, stops)
           /\ tokenList' = tokenList \/ tokenList' = tokenList \ {o}
    BY DEF Execute, GiveUp, RemoveTask
  <1> HIDE DEF sent, error, stops
  <1> QED
    BY <1>1, <1>2, <1>3, <1>4

(* InitCatalogModel passes to what follows it if the catalog is there.     *)
LEMMA ProceedEffect ==
    ASSUME NEW o \in Operations, NEW x \in Op, Ready(x), x.step = 1, NEW async \in BOOLEAN,
           Proceed(o, x, async)
    PROVE  \E y \in Op :
              /\ Set(o, y) /\ Placed(y) /\ Kept(y) /\ y.lookup = 0 /\ y.pc \in {"request", "done"}
              /\ y.listed = x.listed /\ y.cancelled = x.cancelled
              /\ \/ tokenList' = tokenList
                 \/ tokenList' = tokenList \ {o} /\ y.calls = 1
  <1>1. CASE ~(Request(x) = "catalog" /\ catalogModel)
    BY <1>1, ExecuteEffect DEF Proceed
  <1>2. CASE Request(x) = "catalog" /\ catalogModel
    <2> DEFINE z == [x EXCEPT !.step = @ + 1]
    <2>1. x.kind \in DOMAIN Program /\ Program[x.kind][1] = "catalog" /\ Len(Program[x.kind]) = 3
      <3>1. x.kind \in DOMAIN Program
        BY DEF Op
      <3> QED
        BY <1>2, <3>1, Programs DEF Request
    <2>2. /\ z \in Op /\ z.step = 2 /\ z.kind = x.kind /\ z.stored = x.stored /\ z.calls = x.calls
          /\ z.answer = x.answer /\ z.lookup = x.lookup /\ z.listed = x.listed
          /\ z.cancelled = x.cancelled
      BY DEF Op
    <2>4. Execute(o, z, FALSE)
      BY <1>2 DEF Proceed
    <2> HIDE DEF z
    <2>3. Ready(z)
      <3>1. z.calls = 0 /\ z.answer = "none" /\ z.lookup = 0
        BY <2>2 DEF Ready
      <3>2. BlobFirst(z)
        BY <2>2 DEF BlobFirst, Ready
      <3>3. z.step \in 1..NumRequests(z)
        <4>1. NumRequests(z) = 3 /\ z.step = 2
          BY <2>1, <2>2 DEF NumRequests
        <4> QED
          BY <4>1
      <3>4. Stored(z, z.step - 1)
        BY <2>1, <2>2 DEF Stored, Unconfirmed
      <3> QED
        BY <3>1, <3>2, <3>3, <3>4 DEF Ready
    <2>5. FALSE \in BOOLEAN
      OBVIOUS
    <2>6. PICK y \in Op :
              /\ Set(o, y) /\ Placed(y) /\ Kept(y) /\ y.lookup = 0 /\ y.pc \in {"request", "done"}
              /\ y.listed = z.listed /\ y.cancelled = z.cancelled
              /\ \/ tokenList' = tokenList
                 \/ tokenList' = tokenList \ {o} /\ y.calls = 1
      BY <2>2, <2>3, <2>4, <2>5, ExecuteEffect, Zenon
    <2> QED
      BY <2>2, <2>6
  <1> QED
    BY <1>1, <1>2

-----------------------------------------------------------------------------
(* The steps of an operation *)

(* What the invariant says of an operation. *)
LEMMA OneOperation ==
    ASSUME TypeOK, OpsInv, NEW o \in Operations
    PROVE  /\ op[o] \in Op /\ Placed(op[o]) /\ Kept(op[o]) /\ op \in [Operations -> Op]
           /\ op[o].kind \in DOMAIN Program /\ NumRequests(op[o]) \in 1..3
  <1>1. op[o] \in Op /\ op[o].kind \in DOMAIN Program
    BY DEF TypeOK, Op
  <1> QED
    BY <1>1, Programs DEF TypeOK, OpsInv, NumRequests

(* The arguments are looked at, the mutex is tried. *)
LEMMA CallMoves ==
    ASSUME TypeOK, OpsInv, NEW o \in Operations, Call(o)
    PROVE  Moves(o)
  <1> USE DEF writeVars, initVars, past, cancelVars
  <1>0. op[o] \in Op /\ Placed(op[o]) /\ Kept(op[o])
    BY OneOperation
  <1>1. CASE Set(o, Answered([op[o] EXCEPT !.listed = TRUE], "error")) /\ UNCHANGED mutex
    <2> DEFINE x == [op[o] EXCEPT !.listed = TRUE]
               y == Answered(x, "error")
    <2>1. /\ x \in Op /\ x.calls = op[o].calls /\ x.stored = op[o].stored /\ x.listed = TRUE
          /\ x.kind = op[o].kind /\ x.cancelled = op[o].cancelled
      BY <1>0 DEF Op
    <2>2. Set(o, y)
      BY <1>1
    <2>3. op[o].pc = "new"
      BY DEF Call
    <2> HIDE DEF x
    <2>4. x.calls = 0 /\ BlobFirst(x)
      BY <1>0, <2>1, <2>3 DEF BlobFirst, Kept, Placed
    <2>5. /\ y \in Op /\ Placed(y) /\ Kept(y) /\ y.pc = "done" /\ y.calls = 1 /\ y.lookup = 0
          /\ y.listed = TRUE /\ y.cancelled = op[o].cancelled
      BY <2>1, <2>4, AnsweredEffect
    <2> HIDE DEF y
    <2>6. Turned(o, y) /\ Phase(o, y)
      BY <1>0, <2>3, <2>5 DEF Call, Turned, Phase, Inits
    <2> QED
      BY <1>1, <2>2, <2>5, <2>6 DEF Moves, Rest, TypeOK, Call
  <1>2. CASE /\ Set(o, [op[o] EXCEPT !.pc = "init", !.step = 1, !.owns = (mutex = Nobody)])
             /\ mutex' = IF mutex = Nobody THEN o ELSE mutex
    <2> DEFINE free == mutex = Nobody
               y == [op[o] EXCEPT !.pc = "init", !.step = 1, !.owns = free]
    <2>1. free \in BOOLEAN
      BY SMT
    <2>6. Set(o, y)
      BY <1>2
    <2> HIDE DEF free
    <2>2. /\ y.pc = "init" /\ y.step = 1 /\ y.lookup = op[o].lookup
          /\ y.calls = op[o].calls /\ y.answer = op[o].answer /\ y.stored = op[o].stored
          /\ y.kind = op[o].kind /\ y.listed = op[o].listed /\ y.cancelled = op[o].cancelled
      BY <1>0, <2>1 DEF Op
    <2>7. y.owns \in BOOLEAN /\ y.step \in 0..3
      BY <1>0, <2>1 DEF Op
    <2>8. y \in Op
      BY <1>0, <2>1, <2>7 DEF Op
    <2>3. op[o].pc = "new"
      BY DEF Call
    <2> HIDE DEF y
    <2>4. Placed(y) /\ Kept(y)
      BY <1>0, <2>2, <2>3 DEF Placed, Kept, Looks, Asks, BlobFirst
    <2>5. Turned(o, y) /\ Phase(o, y)
      BY <1>0, <2>2, <2>3 DEF Call, Turned, Phase, Inits, Placed, Looks
    <2> QED
      BY <1>2, <2>2, <2>4, <2>5, <2>6, <2>8 DEF Moves, Rest, TypeOK, Call
  <1> QED
    BY <1>1, <1>2 DEF Call


(* Whoever waits, or will never go on, keeps all but its place. *)
Waits == {"init", "waiting", "blocked", "relock", "waited"}

(* An operation that waits for another's initialisation has done nothing.  *)
LEMMA WaitingEffect ==
    ASSUME NEW x \in Op, Placed(x), Kept(x), x.pc \in Waits,
           NEW c \in {"waiting", "blocked", "relock", "waited", "threw", "hung"},
           NEW y, \/ y = [x EXCEPT !.pc = c] \/ y = [x EXCEPT !.pc = c, !.owns = TRUE]
                  \/ y = [x EXCEPT !.pc = c, !.owns = FALSE]
    PROVE  /\ y \in Op /\ Placed(y) /\ Kept(y) /\ ~Inits(x) /\ ~Inits(y)
           /\ y.listed = x.listed /\ y.cancelled = x.cancelled /\ y.calls = x.calls
  <1>1. /\ y.pc = c /\ y.step = x.step /\ y.lookup = x.lookup /\ y.kind = x.kind
        /\ y.calls = x.calls /\ y.answer = x.answer /\ y.stored = x.stored
        /\ y.listed = x.listed /\ y.cancelled = x.cancelled
    BY DEF Op
  <1>2. y \in Op
    <2>1. [x EXCEPT !.pc = c] \in Op
      BY DEF Op
    <2>2. [x EXCEPT !.pc = c, !.owns = TRUE] \in Op
      BY DEF Op
    <2>3. [x EXCEPT !.pc = c, !.owns = FALSE] \in Op
      BY DEF Op
    <2> QED
      BY <2>1, <2>2, <2>3
  <1> QED
    BY <1>1, <1>2 DEF Placed, Kept, Looks, Asks, Inits, Waits, BlobFirst

(* The next service is looked up. *)
LEMMA LookingEffect ==
    ASSUME NEW x \in Op, x.calls = 0, x.answer = "none", x.step = 1, BlobFirst(x),
           NEW k \in 1..Lookups,
           NEW y, y = Looking(x, k) \/ y = [Looking(x, k) EXCEPT !.owns = FALSE]
    PROVE  /\ y \in Op /\ Placed(y) /\ Kept(y) /\ Inits(y)
           /\ y.listed = x.listed /\ y.cancelled = x.cancelled /\ y.calls = x.calls
  <1>1. k \in 0..Lookups
    BY WriteClientAssumption DEF WriteClientAssumption
  <1>2. /\ y.pc = "lookup" /\ y.step = 1 /\ y.lookup = k /\ y.kind = x.kind
        /\ y.calls = x.calls /\ y.answer = x.answer /\ y.stored = x.stored
        /\ y.listed = x.listed /\ y.cancelled = x.cancelled
    BY DEF Op, Looking
  <1>3. y \in Op
    <2> DEFINE z == Looking(x, k)
    <2>1. z \in Op
      BY <1>1 DEF Op, Looking
    <2>2. y = z \/ y = [z EXCEPT !.owns = FALSE]
      OBVIOUS
    <2> HIDE DEF z
    <2>3. [z EXCEPT !.owns = FALSE] \in Op
      BY <2>1 DEF Op
    <2> QED
      BY <2>1, <2>2, <2>3
  <1> QED
    BY <1>2, <1>3 DEF Placed, Kept, Looks, Asks, Inits, BlobFirst

(* Another operation initialises: the lock is given up, or that throws.    *)
LEMMA InitInProgressMoves ==
    ASSUME TypeOK, OpsInv, NEW o \in Operations, InitInProgress(o)
    PROVE  Moves(o)
  <1> USE DEF writeVars, initVars, past, cancelVars
  <1>0. op[o] \in Op /\ Placed(op[o]) /\ Kept(op[o]) /\ op[o].pc \in Waits
    BY OneOperation DEF InitInProgress, Waits
  <1>1. PICK c \in {"waiting", "threw"} : Set(o, [op[o] EXCEPT !.pc = c, !.owns = FALSE])
    BY DEF InitInProgress
  <1> DEFINE y == [op[o] EXCEPT !.pc = c, !.owns = FALSE]
  <1>2. Set(o, y)
    BY <1>1
  <1>3. /\ y \in Op /\ Placed(y) /\ Kept(y) /\ ~Inits(op[o]) /\ ~Inits(y)
        /\ y.listed = op[o].listed /\ y.cancelled = op[o].cancelled /\ y.calls = op[o].calls
    BY <1>0, WaitingEffect
  <1> HIDE DEF y
  <1>4. Turned(o, y) /\ Phase(o, y) /\ Rest'
    BY <1>3 DEF InitInProgress, Unlock, Turned, Phase, Rest, TypeOK
  <1> QED
    BY <1>2, <1>3, <1>4 DEF Moves

(* A wait ends, throws or blocks. *)
LEMMA WaitMoves ==
    ASSUME TypeOK, OpsInv, NEW o \in Operations, Wait(o)
    PROVE  Moves(o)
  <1> USE DEF writeVars, initVars, past, cancelVars
  <1>0. op[o] \in Op /\ Placed(op[o]) /\ Kept(op[o]) /\ op[o].pc \in Waits
    BY OneOperation DEF Wait, Waits
  <1>1. PICK c \in {"relock", "threw", "blocked"} : Set(o, [op[o] EXCEPT !.pc = c])
    BY DEF Wait
  <1> DEFINE y == [op[o] EXCEPT !.pc = c]
  <1>2. Set(o, y)
    BY <1>1
  <1>3. /\ y \in Op /\ Placed(y) /\ Kept(y) /\ ~Inits(op[o]) /\ ~Inits(y)
        /\ y.listed = op[o].listed /\ y.cancelled = op[o].cancelled /\ y.calls = op[o].calls
    BY <1>0, WaitingEffect
  <1> HIDE DEF y
  <1>4. Turned(o, y) /\ Phase(o, y) /\ Rest'
    BY <1>3 DEF Wait, Turned, Phase, Rest, TypeOK
  <1> QED
    BY <1>2, <1>3, <1>4 DEF Moves

(* Woken up, it hangs or goes on waiting. *)
LEMMA WakeMoves ==
    ASSUME TypeOK, OpsInv, NEW o \in Operations, Wake(o)
    PROVE  Moves(o)
  <1> USE DEF writeVars, initVars, past, cancelVars
  <1>0. /\ op[o] \in Op /\ Placed(op[o]) /\ Kept(op[o]) /\ op[o].pc \in Waits
        /\ op \in [Operations -> Op]
    BY OneOperation DEF Wake, Waits
  <1>1. PICK c \in {"hung", "blocked"} : Set(o, [op[o] EXCEPT !.pc = c])
    <2>1. CASE UNCHANGED op
      <3>1. [op EXCEPT ![o] = [op[o] EXCEPT !.pc = "blocked"]] = op
        <4>1. op[o].pc = "blocked"
          BY DEF Wake
        <4>2. [op[o] EXCEPT !.pc = "blocked"] = op[o]
          BY <1>0, <4>1 DEF Op
        <4> QED
          BY <1>0, <4>2
      <3> QED
        BY <2>1, <3>1 DEF Set
    <2> QED
      BY <2>1 DEF Wake
  <1> DEFINE y == [op[o] EXCEPT !.pc = c]
  <1>2. Set(o, y)
    BY <1>1
  <1>3. /\ y \in Op /\ Placed(y) /\ Kept(y) /\ ~Inits(op[o]) /\ ~Inits(y)
        /\ y.listed = op[o].listed /\ y.cancelled = op[o].cancelled /\ y.calls = op[o].calls
    BY <1>0, WaitingEffect
  <1> HIDE DEF y
  <1>4. Turned(o, y) /\ Phase(o, y)
    BY <1>3 DEF Wake, Turned, Phase
  <1>5. Rest'
    BY DEF Wake, Rest, TypeOK
  <1> QED
    BY <1>2, <1>3, <1>4, <1>5 DEF Moves

(* The mutex is locked again. *)
LEMMA RelockMoves ==
    ASSUME TypeOK, OpsInv, NEW o \in Operations, Relock(o)
    PROVE  Moves(o)
  <1> USE DEF writeVars, initVars, past, cancelVars
  <1>0. op[o] \in Op /\ Placed(op[o]) /\ Kept(op[o]) /\ op[o].pc \in Waits
    BY OneOperation DEF Relock, Waits
  <1> DEFINE y == [op[o] EXCEPT !.pc = "waited", !.owns = TRUE]
  <1>2. Set(o, y)
    BY DEF Relock
  <1>3. /\ y \in Op /\ Placed(y) /\ Kept(y) /\ ~Inits(op[o]) /\ ~Inits(y)
        /\ y.listed = op[o].listed /\ y.cancelled = op[o].cancelled /\ y.calls = op[o].calls
    BY <1>0, WaitingEffect
  <1> HIDE DEF y
  <1>4. Turned(o, y) /\ Phase(o, y) /\ Rest'
    BY <1>3 DEF Relock, Turned, Phase, Rest, TypeOK
  <1> QED
    BY <1>2, <1>3, <1>4 DEF Moves

(* Nobody initialises, or so it seems after a wait: the operation goes on  *)
(* if the services are known, and looks them up if they are not.           *)
LEMMA InitApiClientsMoves ==
    ASSUME TypeOK, OpsInv, NEW o \in Operations, InitApiClients(o)
    PROVE  Moves(o)
  <1> USE DEF writeVars, initVars, past, cancelVars
  <1>0. /\ op[o] \in Op /\ Placed(op[o]) /\ Kept(op[o]) /\ op[o].pc \in Waits
        /\ NumRequests(op[o]) \in 1..3
    BY OneOperation DEF InitApiClients, Waits
  <1>1. /\ op[o].calls = 0 /\ op[o].answer = "none" /\ op[o].lookup = 0 /\ op[o].step = 1
        /\ BlobFirst(op[o]) /\ ~Inits(op[o])
    BY <1>0 DEF Placed, Kept, Looks, Waits, Inits
  <1>2. CASE /\ Initialised /\ Proceed(o, [op[o] EXCEPT !.owns = FALSE], FALSE) /\ Unlock(o)
             /\ UNCHANGED <<initInProgress, baseUrl, past>>
    <2> DEFINE x == [op[o] EXCEPT !.owns = FALSE]
    <2>1. /\ x \in Op /\ x.calls = 0 /\ x.answer = "none" /\ x.lookup = 0 /\ x.step = 1
          /\ x.listed = op[o].listed /\ x.cancelled = op[o].cancelled /\ x.kind = op[o].kind
          /\ x.stored = op[o].stored
      BY <1>0, <1>1 DEF Op
    <2>2. Proceed(o, x, FALSE)
      BY <1>2
    <2> HIDE DEF x
    <2>3. Ready(x)
      <3>1. NumRequests(x) \in 1..3 /\ BlobFirst(x)
        BY <1>0, <1>1, <2>1 DEF BlobFirst, NumRequests
      <3>2. Stored(x, x.step - 1)
        BY <2>1 DEF Stored
      <3> QED
        BY <2>1, <3>1, <3>2 DEF Ready
    <2>4. FALSE \in BOOLEAN
      OBVIOUS
    <2>5. PICK y \in Op :
              /\ Set(o, y) /\ Placed(y) /\ Kept(y) /\ y.lookup = 0 /\ y.pc \in {"request", "done"}
              /\ y.listed = x.listed /\ y.cancelled = x.cancelled
              /\ \/ tokenList' = tokenList
                 \/ tokenList' = tokenList \ {o} /\ y.calls = 1
      BY <2>1, <2>2, <2>3, <2>4, ProceedEffect, Zenon
    <2>6. Turned(o, y) /\ Phase(o, y) /\ Rest'
      BY <1>1, <1>2, <2>1, <2>5 DEF InitApiClients, Unlock, Turned, Phase, Inits, Rest, TypeOK
    <2> QED
      BY <2>5, <2>6 DEF Moves
  <1>3. CASE /\ ~Initialised /\ initInProgress' = TRUE
             /\ overtaken' = IF initInProgress THEN overtaken \cup {o} ELSE overtaken
             /\ op[o].owns /\ Unlock(o) /\ Set(o, [Looking(op[o], 1) EXCEPT !.owns = FALSE])
             /\ LookupApi(1) /\ UNCHANGED abandoned /\ UNCHANGED tokenList
    <2> DEFINE y == [Looking(op[o], 1) EXCEPT !.owns = FALSE]
    <2>1. Set(o, y)
      BY <1>3
    <2>2. 1 \in 1..Lookups
      BY WriteClientAssumption DEF WriteClientAssumption
    <2>3. /\ y \in Op /\ Placed(y) /\ Kept(y) /\ Inits(y)
          /\ y.listed = op[o].listed /\ y.cancelled = op[o].cancelled /\ y.calls = op[o].calls
      BY <1>0, <1>1, <2>2, LookingEffect
    <2> HIDE DEF y
    <2>4. Turned(o, y) /\ Phase(o, y) /\ Rest'
      BY <1>1, <1>3, <2>3 DEF InitApiClients, Unlock, LookupApi, Turned, Phase, Rest, TypeOK
    <2> QED
      BY <2>1, <2>3, <2>4 DEF Moves
  <1>4. CASE /\ ~Initialised /\ initInProgress' = TRUE
             /\ overtaken' = IF initInProgress THEN overtaken \cup {o} ELSE overtaken
             /\ ~op[o].owns /\ Set(o, [op[o] EXCEPT !.pc = "threw"])
             /\ abandoned' = abandoned \cup {o} /\ UNCHANGED <<mutex, baseUrl>>
             /\ UNCHANGED tokenList
    <2> DEFINE y == [op[o] EXCEPT !.pc = "threw"]
    <2>1. Set(o, y)
      BY <1>4
    <2>3. /\ y \in Op /\ Placed(y) /\ Kept(y) /\ ~Inits(y)
          /\ y.listed = op[o].listed /\ y.cancelled = op[o].cancelled /\ y.calls = op[o].calls
      BY <1>0, <1>1, WaitingEffect
    <2> HIDE DEF y
    <2>4. Turned(o, y) /\ Phase(o, y) /\ Rest'
      BY <1>1, <1>4, <2>3 DEF InitApiClients, Turned, Phase, Rest, TypeOK
    <2> QED
      BY <2>1, <2>3, <2>4 DEF Moves
  <1> QED
    BY <1>2, <1>3, <1>4 DEF InitApiClients

(* The answer of a service: a request that counts was accepted only if it  *)
(* was served, and metadata is sent when the blob is stored.               *)
LEMMA ArriveMoves ==
    ASSUME TypeOK, OpsInv, NEW o \in Operations, Arrive(o)
    PROVE  Moves(o)
  <1> USE DEF writeVars, initVars, past, cancelVars
  <1>0. /\ op[o] \in Op /\ Placed(op[o]) /\ Kept(op[o]) /\ op[o].pc \in {"lookup", "request"}
        /\ op[o].kind \in DOMAIN Program /\ NumRequests(op[o]) \in 1..3
    BY OneOperation DEF Arrive
  <1> DEFINE acceptedBy == IF op[o].pc = "lookup" THEN GetApis ELSE Accepts[Request(op[o])]
             storedBy(status) == IF op[o].pc = "request" /\ status \in 200..299
                                 THEN op[o].stored \cup {Request(op[o])} ELSE op[o].stored
  <1>1. PICK status \in Statuses :
           Set(o, [op[o] EXCEPT !.pc = "answered", !.ok = status \in acceptedBy, !.token = FALSE,
                                !.killed = FALSE, !.stored = storedBy(status)])
    BY DEF Arrive
  <1> DEFINE good == status \in acceptedBy
             kept == storedBy(status)
             y == [op[o] EXCEPT !.pc = "answered", !.ok = good, !.token = FALSE,
                                !.killed = FALSE, !.stored = kept]
  <1>2. Set(o, y)
    BY <1>1
  <1>3. good \in BOOLEAN
    BY SMT
  <1>4. op[o].pc = "request" =>
           /\ op[o].step \in 1..NumRequests(op[o]) /\ Request(op[o]) \in DOMAIN Accepts
           /\ Request(op[o]) = Program[op[o].kind][op[o].step]
    BY <1>0, Programs DEF Placed, Asks, Request, NumRequests
  <1>5. kept \subseteq DOMAIN Accepts /\ op[o].stored \subseteq kept
    <2>1. op[o].stored \subseteq DOMAIN Accepts
      BY <1>0 DEF Op
    <2> QED
      BY <1>4, <2>1
  <1>6. op[o].pc = "request" /\ good => Request(op[o]) \in kept \cup Unconfirmed
    BY <1>0, <1>4, AcceptedIsServed
  <1>7. op[o].pc = "lookup" => kept = op[o].stored
    OBVIOUS
  <1>8. op[o].pc = "request" => kept \subseteq op[o].stored \cup {Request(op[o])}
    OBVIOUS
  <1> HIDE DEF good, kept
  <1>9. /\ y.pc = "answered" /\ y.ok = good /\ y.stored = kept /\ y.kind = op[o].kind
        /\ y.lookup = op[o].lookup /\ y.step = op[o].step /\ y.calls = op[o].calls
        /\ y.answer = op[o].answer /\ y.listed = op[o].listed /\ y.cancelled = op[o].cancelled
    BY <1>0 DEF Op
  <1>10. y \in Op
    <2>1. /\ y.ok \in BOOLEAN /\ y.token \in BOOLEAN /\ y.killed \in BOOLEAN
          /\ y.stored \in SUBSET DOMAIN Accepts
      BY <1>0, <1>3, <1>5 DEF Op
    <2> QED
      BY <1>0, <1>3, <1>5, <2>1 DEF Op
  <1> HIDE DEF y
  <1>11. Placed(y)
    BY <1>0, <1>9 DEF Placed, Looks, Asks, NumRequests
  <1>12. Kept(y)
    <2>1. CASE op[o].pc = "lookup"
      <3>1. y.lookup > 0 /\ y.answer = "none" /\ op[o].lookup \in Nat
        BY <1>0, <1>9, <2>1, WriteClientAssumption DEF Placed, Op, WriteClientAssumption
      <3> QED
        BY <1>0, <1>7, <1>9, <2>1, <3>1 DEF Kept, Asks, BlobFirst
    <2>2. CASE op[o].pc = "request"
      <3>1. y.lookup = 0 /\ y.answer = "none" /\ Stored(op[o], op[o].step - 1)
        BY <1>0, <1>9, <2>2 DEF Placed, Kept, Looks, Asks
      <3>2. Stored(y, y.step - 1)
        BY <1>5, <1>9, <3>1 DEF Stored
      <3>3. y.ok => Stored(y, y.step)
        <4> SUFFICES ASSUME y.ok, NEW i \in 1..y.step
                     PROVE  Program[y.kind][i] \in y.stored \cup Unconfirmed
          BY DEF Stored
        <4>1. CASE i = y.step
          BY <1>4, <1>6, <1>9, <2>2, <4>1
        <4>2. CASE i # y.step
          <5>1. i \in 1..(y.step - 1)
            BY <1>4, <1>9, <2>2, <4>2
          <5> QED
            BY <3>2, <5>1 DEF Stored
        <4> QED
          BY <4>1, <4>2
      <3>4. BlobFirst(y)
        <4>1. CASE Request(op[o]) \in {"uploadPartitions", "insertIndexes"}
          <5>1. \/ op[o].kind = "PublishPartitionsToBatch"
                \/ op[o].step = 3 /\ Program[op[o].kind][2] = "putBlob"
            BY <1>0, <1>4, <2>2, <4>1, Programs DEF NumRequests
          <5>2. op[o].step = 3 /\ Program[op[o].kind][2] = "putBlob" => "putBlob" \in op[o].stored
            BY <3>1 DEF Stored, Unconfirmed
          <5> QED
            BY <1>5, <1>9, <5>1, <5>2 DEF BlobFirst
        <4>2. CASE Request(op[o]) \notin {"uploadPartitions", "insertIndexes"}
          BY <1>0, <1>5, <1>8, <1>9, <2>2, <4>2 DEF BlobFirst, Kept
        <4> QED
          BY <4>1, <4>2
      <3> QED
        BY <3>1, <3>2, <3>3, <3>4 DEF Kept
    <2> QED
      BY <1>0, <2>1, <2>2
  <1>13. Turned(o, y) /\ Rest'
    BY <1>0, <1>9 DEF Arrive, Turned, Rest, TypeOK
  <1>14. Phase(o, y)
    BY <1>0, <1>9 DEF Arrive, Phase, Inits, Placed, Looks
  <1> QED
    BY <1>2, <1>10, <1>11, <1>12, <1>13, <1>14 DEF Moves

(* The lookup of one service has been answered. *)
LEMMA NextLookupMoves ==
    ASSUME TypeOK, OpsInv, NEW o \in Operations, NextLookup(o)
    PROVE  Moves(o)
  <1> USE DEF writeVars, initVars, past, cancelVars
  <1>0. op[o] \in Op /\ Placed(op[o]) /\ Kept(op[o])
    BY OneOperation
  <1>1. /\ op[o].calls = 0 /\ op[o].answer = "none" /\ op[o].step = 1 /\ BlobFirst(op[o])
        /\ Inits(op[o]) /\ op[o].lookup \in 1..(Lookups - 1)
    BY <1>0, WriteClientAssumption
    DEF NextLookup, Placed, Kept, Looks, Inits, Op, WriteClientAssumption
  <1>2. CASE /\ ~op[o].ok /\ GiveUp(o, [Answered(op[o], "error") EXCEPT !.pc = "lookupFailed"])
             /\ UNCHANGED <<baseUrl, abandoned>>
    <2> DEFINE z == Answered(op[o], "error")
               y == [z EXCEPT !.pc = "lookupFailed"]
    <2>1. /\ z \in Op /\ Placed(z) /\ Kept(z) /\ z.pc = "done" /\ z.calls = 1 /\ z.lookup = 0
          /\ z.listed = op[o].listed /\ z.cancelled = op[o].cancelled
      BY <1>0, <1>1, AnsweredEffect
    <2>2. Set(o, y) /\ (tokenList' = tokenList \/ tokenList' = tokenList \ {o})
      BY <1>2 DEF GiveUp, RemoveTask
    <2> HIDE DEF z
    <2>3. /\ y \in Op /\ y.pc = "lookupFailed" /\ y.calls = 1 /\ y.lookup = 0
          /\ y.listed = op[o].listed /\ y.cancelled = op[o].cancelled /\ y.answer = z.answer
          /\ y.stored = z.stored /\ y.kind = z.kind
      BY <2>1 DEF Op
    <2> HIDE DEF y
    <2>4. Placed(y) /\ Kept(y)
      BY <2>1, <2>3 DEF Placed, Kept, Looks, Asks, BlobFirst, Stored, NumRequests
    <2>5. Turned(o, y) /\ Phase(o, y) /\ Rest'
      BY <1>1, <1>2, <2>2, <2>3 DEF NextLookup, Turned, Phase, Inits, Rest, TypeOK
    <2> QED
      BY <2>2, <2>3, <2>4, <2>5 DEF Moves
  <1>3. CASE /\ op[o].ok /\ ~op[o].cancelled
             /\ Set(o, Looking(op[o], op[o].lookup + 1)) /\ LookupApi(op[o].lookup + 1)
             /\ UNCHANGED <<tokenList, abandoned>>
    <2> DEFINE k == op[o].lookup + 1
               y == Looking(op[o], k)
    <2>1. k \in 1..Lookups
      BY <1>1, WriteClientAssumption DEF WriteClientAssumption
    <2>2. Set(o, y) /\ LookupApi(k)
      BY <1>3
    <2> HIDE DEF k
    <2>3. /\ y \in Op /\ Placed(y) /\ Kept(y) /\ Inits(y)
          /\ y.listed = op[o].listed /\ y.cancelled = op[o].cancelled /\ y.calls = op[o].calls
      BY <1>0, <1>1, <2>1, LookingEffect
    <2> HIDE DEF y
    <2>4. Turned(o, y) /\ Phase(o, y) /\ Rest'
      BY <1>1, <1>3, <2>2, <2>3 DEF NextLookup, LookupApi, Turned, Phase, Rest, TypeOK
    <2> QED
      BY <2>2, <2>3, <2>4 DEF Moves
  <1>4. CASE /\ op[o].ok /\ op[o].cancelled
             /\ GiveUp(o, Answered(op[o], "cancelled")) /\ abandoned' = abandoned \cup {o}
             /\ UNCHANGED baseUrl
    <2> DEFINE y == Answered(op[o], "cancelled")
    <2>1. /\ y \in Op /\ Placed(y) /\ Kept(y) /\ y.pc = "done" /\ y.calls = 1 /\ y.lookup = 0
          /\ y.listed = op[o].listed /\ y.cancelled = op[o].cancelled
      BY <1>0, <1>1, AnsweredEffect
    <2>2. Set(o, y) /\ (tokenList' = tokenList \/ tokenList' = tokenList \ {o})
      BY <1>4 DEF GiveUp, RemoveTask
    <2> HIDE DEF y
    <2>3. Turned(o, y) /\ Phase(o, y) /\ Rest'
      BY <1>1, <1>4, <2>1, <2>2 DEF NextLookup, Turned, Phase, Inits, Rest, TypeOK
    <2> QED
      BY <2>1, <2>2, <2>3 DEF Moves
  <1> QED
    BY <1>2, <1>3, <1>4 DEF NextLookup

(* After an error was reported, init_in_progress_ is reset. *)
LEMMA LookupFailedMoves ==
    ASSUME TypeOK, OpsInv, NEW o \in Operations, LookupFailed(o)
    PROVE  Moves(o)
  <1> USE DEF writeVars, initVars, past, cancelVars
  <1>0. op[o] \in Op /\ Placed(op[o]) /\ Kept(op[o])
    BY OneOperation
  <1> DEFINE y == [op[o] EXCEPT !.pc = "done"]
  <1>1. Set(o, y) /\ op[o].pc = "lookupFailed"
    BY DEF LookupFailed
  <1>2. /\ y \in Op /\ y.pc = "done" /\ y.calls = op[o].calls /\ y.lookup = op[o].lookup
        /\ y.listed = op[o].listed /\ y.cancelled = op[o].cancelled /\ y.answer = op[o].answer
        /\ y.stored = op[o].stored /\ y.kind = op[o].kind
    BY <1>0 DEF Op
  <1> HIDE DEF y
  <1>3. Placed(y) /\ Kept(y)
    BY <1>0, <1>1, <1>2 DEF Placed, Kept, Looks, Asks, BlobFirst, Stored, NumRequests
  <1>4. Turned(o, y) /\ Phase(o, y) /\ Rest'
    BY <1>1, <1>2 DEF LookupFailed, NotifyOne, Blocked, Turned, Phase, Inits, Rest, TypeOK
  <1> QED
    BY <1>1, <1>2, <1>3, <1>4 DEF Moves

(* The last lookup has been answered: the mutex is locked. *)
LEMMA LastLookupMoves ==
    ASSUME TypeOK, OpsInv, NEW o \in Operations, LastLookup(o)
    PROVE  Moves(o)
  <1> USE DEF writeVars, initVars, past, cancelVars
  <1>0. op[o] \in Op /\ Placed(op[o]) /\ Kept(op[o])
    BY OneOperation
  <1> DEFINE y == [op[o] EXCEPT !.pc = "lookupEnd"]
  <1>1. Set(o, y) /\ op[o].pc = "answered" /\ op[o].lookup > 0
    BY WriteClientAssumption DEF LastLookup, WriteClientAssumption
  <1>2. /\ y \in Op /\ y.pc = "lookupEnd" /\ y.calls = op[o].calls /\ y.lookup = op[o].lookup
        /\ y.listed = op[o].listed /\ y.cancelled = op[o].cancelled /\ y.answer = op[o].answer
        /\ y.stored = op[o].stored /\ y.kind = op[o].kind /\ y.step = op[o].step
    BY <1>0 DEF Op
  <1> HIDE DEF y
  <1>3. Placed(y) /\ Kept(y)
    BY <1>0, <1>1, <1>2 DEF Placed, Kept, Looks, Asks, BlobFirst, Stored, NumRequests
  <1>4. Turned(o, y) /\ Phase(o, y) /\ Rest'
    BY <1>1, <1>2 DEF LastLookup, Turned, Phase, Inits, Rest, TypeOK
  <1> QED
    BY <1>1, <1>2, <1>3, <1>4 DEF Moves

(* publishApi_callback: the services are known, or nobody initialises.     *)
LEMMA LookupEndMoves ==
    ASSUME TypeOK, OpsInv, NEW o \in Operations, LookupEnd(o)
    PROVE  Moves(o)
  <1> USE DEF writeVars, initVars, past, cancelVars
  <1>0. op[o] \in Op /\ Placed(op[o]) /\ Kept(op[o]) /\ NumRequests(op[o]) \in 1..3
    BY OneOperation
  <1>1. /\ op[o].calls = 0 /\ op[o].answer = "none" /\ op[o].step = 1 /\ BlobFirst(op[o])
        /\ Inits(op[o])
    BY <1>0 DEF LookupEnd, Placed, Kept, Looks, Inits
  <1>2. CASE /\ op[o].ok /\ baseUrl' = "service" /\ NotifyAll
             /\ Proceed(o, [op[o] EXCEPT !.lookup = 0], TRUE)
    <2> DEFINE x == [op[o] EXCEPT !.lookup = 0]
    <2>1. /\ x.calls = 0 /\ x.answer = "none" /\ x.lookup = 0 /\ x.step = 1
          /\ x.listed = op[o].listed /\ x.cancelled = op[o].cancelled /\ x.kind = op[o].kind
          /\ x.stored = op[o].stored
      BY <1>0, <1>1 DEF Op
    <2>2. x \in Op
      <3>1. x.lookup \in 0..Lookups
        BY <2>1, WriteClientAssumption DEF WriteClientAssumption
      <3> QED
        BY <1>0, <3>1 DEF Op
    <2>3. Proceed(o, x, TRUE)
      BY <1>2
    <2> HIDE DEF x
    <2>4. Ready(x)
      <3>1. NumRequests(x) \in 1..3 /\ BlobFirst(x)
        BY <1>0, <1>1, <2>1 DEF BlobFirst, NumRequests
      <3>2. Stored(x, x.step - 1)
        BY <2>1 DEF Stored
      <3> QED
        BY <2>1, <3>1, <3>2 DEF Ready
    <2>5. TRUE \in BOOLEAN
      OBVIOUS
    <2>6. PICK y \in Op :
              /\ Set(o, y) /\ Placed(y) /\ Kept(y) /\ y.lookup = 0 /\ y.pc \in {"request", "done"}
              /\ y.listed = x.listed /\ y.cancelled = x.cancelled
              /\ \/ tokenList' = tokenList
                 \/ tokenList' = tokenList \ {o} /\ y.calls = 1
      BY <2>1, <2>2, <2>3, <2>4, <2>5, ProceedEffect, Zenon
    <2>7. Turned(o, y) /\ Phase(o, y)
      BY <1>1, <2>1, <2>6 DEF LookupEnd, Turned, Phase, Inits
    <2>8. Rest'
      BY <1>2 DEF LookupEnd, NotifyAll, Blocked, Rest, TypeOK
    <2> QED
      BY <2>6, <2>7, <2>8 DEF Moves
  <1>3. CASE ~op[o].ok /\ GiveUp(o, Answered(op[o], "error")) /\ NotifyOne /\ UNCHANGED baseUrl
    <2> DEFINE y == Answered(op[o], "error")
    <2>1. /\ y \in Op /\ Placed(y) /\ Kept(y) /\ y.pc = "done" /\ y.calls = 1 /\ y.lookup = 0
          /\ y.listed = op[o].listed /\ y.cancelled = op[o].cancelled
      BY <1>0, <1>1, AnsweredEffect
    <2>2. Set(o, y) /\ (tokenList' = tokenList \/ tokenList' = tokenList \ {o})
      BY <1>3 DEF GiveUp, RemoveTask
    <2> HIDE DEF y
    <2>3. Turned(o, y) /\ Phase(o, y)
      BY <1>1, <2>1, <2>2 DEF LookupEnd, Turned, Phase, Inits
    <2>4. Rest'
      <3>1. notified' \subseteq Operations
        BY <1>3 DEF NotifyOne, Blocked, TypeOK
      <3> QED
        BY <1>3, <3>1 DEF LookupEnd, Rest, TypeOK
    <2> QED
      BY <2>1, <2>2, <2>3, <2>4 DEF Moves
  <1> QED
    BY <1>2, <1>3 DEF LookupEnd

(* A request was refused, or its answer lacks what is needed next. *)
LEMMA FailMoves ==
    ASSUME TypeOK, OpsInv, NEW o \in Operations, Fail(o)
    PROVE  Moves(o)
  <1> USE DEF writeVars, initVars, past, cancelVars
  <1>0. op[o] \in Op /\ Placed(op[o]) /\ Kept(op[o])
    BY OneOperation
  <1>1. op[o].calls = 0 /\ BlobFirst(op[o]) /\ ~Inits(op[o])
    BY <1>0 DEF Fail, Placed, Kept, Inits
  <1> DEFINE y == Answered(op[o], "error")
  <1>2. /\ y \in Op /\ Placed(y) /\ Kept(y) /\ y.pc = "done" /\ y.calls = 1 /\ y.lookup = 0
        /\ y.listed = op[o].listed /\ y.cancelled = op[o].cancelled
    BY <1>0, <1>1, AnsweredEffect
  <1>3. Set(o, y) /\ tokenList' = tokenList \ {o}
    BY DEF Fail, RemoveTask
  <1> HIDE DEF y
  <1>4. Turned(o, y) /\ Phase(o, y) /\ Rest'
    BY <1>1, <1>2, <1>3 DEF Fail, Turned, Phase, Inits, Rest, TypeOK
  <1> QED
    BY <1>2, <1>3, <1>4 DEF Moves

(* A request succeeds: the next one is sent, or the operation is done.     *)
LEMMA SucceedMoves ==
    ASSUME TypeOK, OpsInv, NEW o \in Operations, Succeed(o)
    PROVE  Moves(o)
  <1> USE DEF writeVars, initVars, past, cancelVars
  <1>0. /\ op[o] \in Op /\ Placed(op[o]) /\ Kept(op[o]) /\ NumRequests(op[o]) \in 1..3
    BY OneOperation
  <1>1. /\ op[o].calls = 0 /\ op[o].answer = "none" /\ op[o].lookup = 0 /\ BlobFirst(op[o])
        /\ ~Inits(op[o]) /\ op[o].step \in 1..NumRequests(op[o]) /\ Stored(op[o], op[o].step)
    BY <1>0 DEF Succeed, Placed, Kept, Looks, Asks, Inits
  <1>2. Rest'
    <2>1. (catalogModel \/ Request(op[o]) = "catalog") \in BOOLEAN
      BY SMT
    <2> QED
      BY <2>1 DEF Succeed, Rest, TypeOK
  <1>3. CASE IsLast(op[o]) /\ Set(o, Answered(op[o], "ok")) /\ RemoveTask(o)
    <2> DEFINE y == Answered(op[o], "ok")
    <2>1. Stored(op[o], NumRequests(op[o]))
      BY <1>1, <1>3 DEF IsLast, NumRequests
    <2>2. /\ y \in Op /\ Placed(y) /\ Kept(y) /\ y.pc = "done" /\ y.calls = 1 /\ y.lookup = 0
          /\ y.listed = op[o].listed /\ y.cancelled = op[o].cancelled
      BY <1>0, <1>1, <2>1, AnsweredEffect
    <2>3. Set(o, y) /\ tokenList' = tokenList \ {o}
      BY <1>3 DEF RemoveTask
    <2> HIDE DEF y
    <2>4. Turned(o, y) /\ Phase(o, y)
      BY <1>1, <2>2, <2>3 DEF Succeed, Turned, Phase, Inits
    <2> QED
      BY <1>2, <2>2, <2>3, <2>4 DEF Moves
  <1>4. CASE ~IsLast(op[o]) /\ Execute(o, [op[o] EXCEPT !.step = @ + 1], TRUE)
    <2> DEFINE x == [op[o] EXCEPT !.step = @ + 1]
    <2>1. op[o].step \in 1..(NumRequests(op[o]) - 1)
      BY <1>0, <1>1, <1>4 DEF IsLast, NumRequests
    <2>2. /\ x.step = op[o].step + 1 /\ x.calls = 0 /\ x.answer = "none" /\ x.lookup = 0
          /\ x.listed = op[o].listed /\ x.cancelled = op[o].cancelled /\ x.kind = op[o].kind
          /\ x.stored = op[o].stored
      BY <1>0, <1>1 DEF Op
    <2>3. x \in Op
      <3>1. x.step \in 0..3
        BY <1>0, <2>1, <2>2
      <3> QED
        BY <1>0, <3>1 DEF Op
    <2>4. Execute(o, x, TRUE)
      BY <1>4
    <2> HIDE DEF x
    <2>5. Ready(x)
      <3>1. x.step \in 1..NumRequests(x) /\ BlobFirst(x)
        BY <1>0, <1>1, <2>1, <2>2 DEF BlobFirst, NumRequests
      <3>2. Stored(x, x.step - 1)
        BY <1>1, <2>1, <2>2 DEF Stored
      <3> QED
        BY <2>2, <3>1, <3>2 DEF Ready
    <2>6. TRUE \in BOOLEAN
      OBVIOUS
    <2>7. PICK y \in Op :
              /\ Set(o, y) /\ Placed(y) /\ Kept(y) /\ y.lookup = 0 /\ y.pc \in {"request", "done"}
              /\ y.listed = x.listed /\ y.cancelled = x.cancelled
              /\ \/ tokenList' = tokenList
                 \/ tokenList' = tokenList \ {o} /\ y.calls = 1
      BY <2>3, <2>4, <2>5, <2>6, ExecuteEffect, Zenon
    <2>8. Turned(o, y) /\ Phase(o, y)
      BY <1>1, <2>2, <2>7 DEF Succeed, Turned, Phase, Inits
    <2> QED
      BY <1>2, <2>7, <2>8 DEF Moves
  <1> QED
    BY <1>3, <1>4 DEF Succeed

(* The operation's call returns: its token is listed. *)
LEMMA AddTaskMoves ==
    ASSUME TypeOK, OpsInv, NEW o \in Operations, AddTask(o)
    PROVE  Moves(o)
  <1> USE DEF writeVars, initVars, past, cancelVars
  <1>0. op[o] \in Op /\ Placed(op[o]) /\ Kept(op[o])
    BY OneOperation
  <1> DEFINE y == [op[o] EXCEPT !.listed = TRUE]
  <1>1. Set(o, y)
    BY DEF AddTask
  <1>2. /\ y \in Op /\ y.pc = op[o].pc /\ y.calls = op[o].calls /\ y.lookup = op[o].lookup
        /\ y.listed /\ y.cancelled = op[o].cancelled /\ y.answer = op[o].answer
        /\ y.stored = op[o].stored /\ y.kind = op[o].kind /\ y.step = op[o].step
        /\ y.ok = op[o].ok
    BY <1>0 DEF Op
  <1> HIDE DEF y
  <1>3. Placed(y) /\ Kept(y)
    BY <1>0, <1>2 DEF Placed, Kept, Looks, Asks, BlobFirst, Stored, NumRequests
  <1>4. Turned(o, y) /\ Phase(o, y) /\ Rest'
    BY <1>2 DEF AddTask, Turned, Phase, Inits, Rest, TypeOK
  <1> QED
    BY <1>1, <1>2, <1>3, <1>4 DEF Moves

(* Its context is cancelled. *)
CancelledAs(x, y) ==
    /\ y \in Op /\ Placed(y) /\ Kept(y) /\ (Inits(y) <=> Inits(x))
    /\ y.listed = x.listed /\ y.calls = x.calls
    /\ x.cancelled => y.cancelled
    /\ y.cancelled \/ y.calls = 1

(* Cancel of an operation's token reaches what it is waiting for.          *)
LEMMA CancelOperationEffect ==
    ASSUME TypeOK, OpsInv, NEW o \in Operations, CancelOperation(o)
    PROVE  \E y : Set(o, y) /\ CancelledAs(op[o], y)
  <1>0. op[o] \in Op /\ Placed(op[o]) /\ Kept(op[o])
    BY OneOperation
  <1> DEFINE now == op[o].cancelled \/ op[o].calls = 0
             kill == op[o].killed \/ op[o].token
             y == [op[o] EXCEPT !.cancelled = now, !.token = FALSE, !.killed = kill]
  <1>1. Set(o, y)
    BY DEF CancelOperation
  <1>2. now \in BOOLEAN /\ kill \in BOOLEAN
    BY SMT
  <1>3. op[o].calls \in 0..1 /\ (now <=> op[o].cancelled \/ op[o].calls = 0)
    BY <1>0 DEF Op
  <1> HIDE DEF now, kill
  <1>4. /\ y.pc = op[o].pc /\ y.calls = op[o].calls /\ y.lookup = op[o].lookup
        /\ y.listed = op[o].listed /\ y.cancelled = now /\ y.answer = op[o].answer
        /\ y.stored = op[o].stored /\ y.kind = op[o].kind /\ y.step = op[o].step
        /\ y.ok = op[o].ok
    BY <1>0 DEF Op
  <1>5. y \in Op
    BY <1>0, <1>2 DEF Op
  <1> HIDE DEF y
  <1>6. Placed(y) /\ Kept(y)
    BY <1>0, <1>4 DEF Placed, Kept, Looks, Asks, BlobFirst, Stored, NumRequests
  <1> QED
    BY <1>1, <1>3, <1>4, <1>5, <1>6 DEF CancelledAs, Inits

(* So it is a move of this operation.                                      *)
LEMMA CancelMoves ==
    ASSUME TypeOK, OpsInv, NEW o \in Operations, Cancel(o)
    PROVE  Moves(o)
  <1> USE DEF writeVars, initVars, past, cancelVars
  <1>1. PICK y : Set(o, y) /\ CancelledAs(op[o], y)
    BY CancelOperationEffect DEF Cancel
  <1>2. Turned(o, y) /\ Phase(o, y) /\ Rest'
    BY <1>1 DEF Cancel, CancelledAs, Turned, Phase, Inits, Rest, TypeOK
  <1> QED
    BY <1>1, <1>2 DEF Moves, CancelledAs

(* Whatever a call or a step of an operation does, it is one of these.     *)
LEMMA OperationMoves ==
    ASSUME TypeOK, OpsInv, NEW o \in Operations, Call(o) \/ Step(o) \/ AddTask(o) \/ Cancel(o)
    PROVE  Moves(o)
  BY CallMoves, InitInProgressMoves, WaitMoves, WakeMoves, RelockMoves, InitApiClientsMoves,
     ArriveMoves, NextLookupMoves, LookupFailedMoves, LastLookupMoves, LookupEndMoves,
     FailMoves, SucceedMoves, AddTaskMoves, CancelMoves
  DEF Step

-----------------------------------------------------------------------------
(* A move keeps the invariant *)

(* Types and places of the operations.                                     *)
LEMMA MovesKeepOperations ==
    ASSUME TypeOK, OpsInv, NEW o \in Operations, Moves(o)
    PROVE  TypeOK' /\ OpsInv'
  <1>1. PICK y \in Op : Set(o, y) /\ Placed(y) /\ Kept(y) /\ Turned(o, y)
    BY DEF Moves
  <1>2. /\ op' \in [Operations -> Op] /\ op'[o] = y
        /\ \A p \in Operations \ {o} : op'[p] = op[p]
    BY <1>1, SetEffect DEF TypeOK
  <1>3. tokenList' \subseteq Operations /\ UNCHANGED cancelVars
    BY <1>1 DEF Turned, TypeOK
  <1>4. TypeOK'
    BY <1>2, <1>3 DEF Moves, Rest, TypeOK, cancelVars
  <1>5. OpsInv'
    <2> SUFFICES ASSUME NEW p \in Operations
                 PROVE  Placed(op'[p]) /\ Kept(op'[p])
      BY DEF OpsInv
    <2>1. CASE p = o
      BY <1>1, <1>2, <2>1
    <2>2. CASE p # o
      BY <1>2, <2>2 DEF OpsInv
    <2> QED
      BY <2>1, <2>2
  <1> QED
    BY <1>4, <1>5

(* Tokens are removed by who is answered, and listed once. *)
LEMMA MovesKeepTokens ==
    ASSUME TypeOK, Tokens, Cancellable, NEW o \in Operations, Moves(o)
    PROVE  Tokens' /\ Cancellable'
  <1>1. PICK y \in Op : Set(o, y) /\ Turned(o, y)
    BY DEF Moves
  <1>2. /\ op'[o] = y /\ \A p \in Operations \ {o} : op'[p] = op[p]
    BY <1>1, SetEffect DEF TypeOK
  <1>3. canceller' = canceller /\ shifted' = shifted
    BY <1>1 DEF Turned, cancelVars
  <1>4. \A p \in Operations :
           /\ op[p].listed => op'[p].listed
           /\ op[p].cancelled => op'[p].cancelled
           /\ op[p].calls = 1 => op'[p].calls = 1
    BY <1>1, <1>2 DEF Turned
  <1>5. /\ canceller.ids \subseteq Operations /\ canceller.all \subseteq Operations
        /\ tokenList \subseteq Operations /\ op[o].calls \in 0..1
    BY DEF TypeOK, Canceller, Op
  <1>6. tokenList' \subseteq tokenList \cup {o} /\ (o \in tokenList' => op'[o].listed)
    BY <1>1, <1>2, <1>5 DEF Turned, Tokens
  <1>7. \A p \in tokenList' \cup canceller'.ids \cup canceller'.all : op'[p].listed
    BY <1>3, <1>4, <1>5, <1>6 DEF Tokens
  <1>8. canceller'.pc = "returned" => canceller'.all \cap tokenList' = {}
    <2>1. tokenList' \subseteq tokenList \/ o \notin canceller.all
      BY <1>1 DEF Turned, Tokens
    <2> QED
      BY <1>3, <1>6, <2>1 DEF Tokens
  <1>9. Tokens'
    BY <1>3, <1>4, <1>5, <1>7, <1>8 DEF Tokens
  <1>10. Cancellable'
    <2> SUFFICES ASSUME ~shifted, NEW p \in Operations, op'[p].listed, op'[p].calls = 0
                 PROVE  p \in tokenList' \/ op'[p].cancelled
      BY <1>3 DEF Cancellable
    <2>1. CASE p # o
      BY <1>1, <1>2, <2>1 DEF Cancellable, Turned
    <2>2. CASE p = o
      BY <1>1, <1>2, <1>5, <2>2 DEF Cancellable, Turned
    <2> QED
      BY <2>1, <2>2
  <1> QED
    BY <1>9, <1>10

(* Who begins to look the services up found nobody that does, unless it    *)
(* was overtaken; who ends resets init_in_progress_ or forgets to.         *)
LEMMA MovesKeepInitialiser ==
    ASSUME TypeOK, OneInitialiser, NEW o \in Operations, Moves(o)
    PROVE  OneInitialiser'
  <1>1. PICK y \in Op : Set(o, y) /\ Phase(o, y)
    BY DEF Moves
  <1>2. /\ op'[o] = y /\ \A p \in Operations \ {o} : op'[p] = op[p]
    BY <1>1, SetEffect DEF TypeOK
  <1>3. /\ \A p \in Operations : Initialising(p) <=> Inits(op[p])
        /\ \A p \in Operations : Initialising(p)' <=> Inits(op'[p])
    BY DEF Initialising, Inits
  <1> SUFFICES ASSUME overtaken' = {}
               PROVE  /\ \A p, q \in Operations : Inits(op'[p]) /\ Inits(op'[q]) => p = q
                      /\ (\E p \in Operations : Inits(op'[p])) => initInProgress'
                      /\ initInProgress' =>
                            (\E p \in Operations : Inits(op'[p])) \/ abandoned' # {}
    BY <1>3, Zenon DEF OneInitialiser
  <1>4. /\ \A p, q \in Operations : Inits(op[p]) /\ Inits(op[q]) => p = q
        /\ (\E p \in Operations : Inits(op[p])) => initInProgress
        /\ initInProgress => (\E p \in Operations : Inits(op[p])) \/ abandoned # {}
    <2>1. overtaken = {}
      BY <1>1 DEF Phase
    <2> QED
      BY <1>3, <2>1, Zenon DEF OneInitialiser
  <1>5. CASE (Inits(y) <=> Inits(op[o])) /\ UNCHANGED initInProgress
    <2>1. \A p \in Operations : Inits(op'[p]) <=> Inits(op[p])
      BY <1>2, <1>5
    <2> QED
      BY <1>1, <1>4, <1>5, <2>1 DEF Phase
  <1>6. CASE /\ initInProgress' = TRUE /\ ~initInProgress
             /\ Inits(y) \/ (~Inits(op[o]) /\ abandoned' # {})
    <2>1. \A p \in Operations : Inits(op'[p]) => p = o
      BY <1>2, <1>4, <1>6
    <2> QED
      BY <1>2, <1>6, <2>1
  <1>7. CASE /\ Inits(op[o]) /\ ~Inits(y)
             /\ initInProgress' = FALSE \/ abandoned' # {}
    <2>1. \A p \in Operations : ~Inits(op'[p])
      BY <1>2, <1>4, <1>7
    <2> QED
      BY <1>7, <2>1
  <1> QED
    BY <1>1, <1>5, <1>6, <1>7 DEF Phase

-----------------------------------------------------------------------------
(* The steps of CancelAll keep the invariant *)

(* The ids are numbers: one of those that are left is the smallest.        *)
LEMMA LeastToken ==
    ASSUME NEW S \in SUBSET (1..MaxOperations), S # {}
    PROVE  \E i \in S : \A j \in S : i <= j
  <1>1. S \subseteq Nat
    BY WriteClientAssumption DEF WriteClientAssumption
  <1>2. \E i \in S : \A j \in S : <<j, i>> \notin OpToRel(<, Nat)
    BY <1>1, NatLessThanWellFounded, WFMin
  <1>3. PICK i \in S : \A j \in S : <<j, i>> \notin OpToRel(<, Nat)
    BY <1>2
  <1>4. OpToRel(<, Nat) = {pair \in Nat \X Nat : pair[1] < pair[2]}
    BY Zenon DEF OpToRel
  <1> DEFINE less == OpToRel(<, Nat)
  <1>5. \A j \in S : <<j, i>> \notin less /\ less = {pair \in Nat \X Nat : pair[1] < pair[2]}
    BY <1>3, <1>4
  <1> HIDE DEF less
  <1>6. \A j \in S : ~(j < i)
    BY <1>1, <1>5
  <1> QED
    BY <1>1, <1>6

(* The steps of CancelAll but the cancel itself change no operation.       *)
LEMMA CancellerKeeps ==
    ASSUME TypeOK, WriteInv, CancelAll \/ GetTaskIdList \/ FindToken \/ EraseTokens
    PROVE  TypeOK' /\ WriteInv'
  <1> USE DEF writeVars, initVars, past, cancelVars
  <1>1. UNCHANGED <<initVars, catalogModel, op, shifted>>
    BY DEF CancelAll, GetTaskIdList, FindToken, EraseTokens
  <1>2. OpsInv' /\ OneInitialiser'
    BY <1>1 DEF WriteInv, OpsInv, OneInitialiser, Initialising
  <1>3. \A p \in Operations : op[p].calls \in 0..1
    BY DEF TypeOK, Op
  <1>4. /\ canceller \in Canceller /\ tokenList \subseteq Operations
        /\ canceller.ids \subseteq Operations /\ canceller.all \subseteq Operations
    BY DEF TypeOK, Canceller
  <1>5. CASE CancelAll
    <2>1. /\ canceller' \in Canceller /\ canceller'.pc = "list" /\ canceller'.all = tokenList
          /\ canceller'.ids = canceller.ids /\ canceller'.todo = canceller.todo
          /\ tokenList' = tokenList
      BY <1>4, <1>5 DEF CancelAll, Canceller
    <2> QED
      BY <1>1, <1>2, <2>1 DEF TypeOK, WriteInv, Tokens, Cancellable
  <1>6. CASE GetTaskIdList
    <2>1. /\ canceller' \in Canceller /\ canceller'.all = canceller.all
          /\ canceller'.ids = tokenList /\ canceller'.todo = tokenList
          /\ canceller'.pc = "returned" => tokenList = {}
          /\ tokenList' = tokenList
      BY <1>4, <1>6 DEF GetTaskIdList, Canceller
    <2> QED
      BY <1>1, <1>2, <2>1 DEF TypeOK, WriteInv, Tokens, Cancellable
  <1>7. CASE FindToken
    <2> DEFINE first == CHOOSE i \in canceller.todo : \A j \in canceller.todo : i <= j
               c == [canceller EXCEPT !.todo = @ \ {first}, !.id = first]
    <2>1. /\ canceller.pc = "find" /\ canceller.todo # {} /\ tokenList' = tokenList
          /\ \/ first \notin tokenList /\ canceller' = c
             \/ \E place \in 1..MaxOperations :
                    canceller' = [c EXCEPT !.pc = "cancel", !.at = place]
      BY <1>7 DEF FindToken
    <2>2. first \in canceller.todo
      <3>1. canceller.todo \subseteq 1..MaxOperations /\ canceller.todo # {}
        BY <1>4, <2>1 DEF Canceller, Operations
      <3>2. \E i \in canceller.todo : \A j \in canceller.todo : i <= j
        BY <3>1, LeastToken
      <3> QED
        BY <3>2
    <2> HIDE DEF first
    <2>3. /\ canceller' \in Canceller /\ canceller'.all = canceller.all
          /\ canceller'.ids = canceller.ids /\ canceller'.todo = canceller.todo \ {first}
          /\ canceller'.pc \in {"find", "cancel"} /\ canceller'.id = first
          /\ canceller'.pc = "find" => first \notin tokenList
      <3>1. first \in Operations
        BY <1>4, <2>2 DEF Canceller
      <3>2. /\ c \in Canceller /\ c.pc = "find" /\ c.id = first /\ c.ids = canceller.ids
            /\ c.all = canceller.all /\ c.todo = canceller.todo \ {first}
        BY <1>4, <2>1, <3>1 DEF Canceller
      <3> HIDE DEF c
      <3>3. ASSUME NEW place \in 1..MaxOperations, canceller' = [c EXCEPT !.pc = "cancel", !.at = place]
            PROVE  /\ canceller' \in Canceller /\ canceller'.pc = "cancel"
                   /\ canceller'.all = c.all /\ canceller'.ids = c.ids
                   /\ canceller'.todo = c.todo /\ canceller'.id = c.id
        <4>1. place \in 0..MaxOperations
          BY WriteClientAssumption DEF WriteClientAssumption
        <4> QED
          BY <3>2, <3>3, <4>1 DEF Canceller
      <3> QED
        BY <2>1, <3>2, <3>3
    <2>4. Tokens'
      <3>1. canceller'.pc = "find" /\ ~shifted => op[first].cancelled \/ op[first].calls = 1
        BY <1>3, <1>4, <2>2, <2>3 DEF WriteInv, Tokens, Cancellable
      <3> QED
        BY <1>1, <2>1, <2>2, <2>3, <3>1 DEF WriteInv, Tokens
    <2> QED
      BY <1>1, <1>2, <2>1, <2>3, <2>4 DEF TypeOK, WriteInv, Cancellable
  <1>8. CASE EraseTokens
    <2>1. /\ canceller' \in Canceller /\ canceller'.pc = "list"
          /\ canceller'.all = canceller.all /\ canceller'.ids = canceller.ids
          /\ canceller'.todo = canceller.todo /\ tokenList' = tokenList \ canceller.ids
          /\ canceller.pc = "find" /\ canceller.todo = {}
      BY <1>4, <1>8 DEF EraseTokens, EraseListed, Canceller
    <2>2. Cancellable'
      BY <1>1, <1>3, <2>1 DEF WriteInv, Tokens, Cancellable
    <2> QED
      BY <1>1, <1>2, <2>1, <2>2 DEF TypeOK, WriteInv, Tokens
  <1> QED
    BY <1>5, <1>6, <1>7, <1>8

(* It cancels the operation that the iterator leads to: unless that is     *)
(* another by now, the one that it has just found.                         *)
LEMMA CancelTokenKeeps ==
    ASSUME TypeOK, WriteInv, CancelToken
    PROVE  TypeOK' /\ WriteInv'
  <1> USE DEF writeVars, initVars, past, cancelVars
  <1>1. /\ UNCHANGED <<initVars, catalogModel, tokenList>> /\ canceller.pc = "cancel"
        /\ canceller' \in Canceller /\ canceller'.pc = "find" /\ canceller'.id = canceller.id
        /\ canceller'.all = canceller.all /\ canceller'.ids = canceller.ids
        /\ canceller'.todo = canceller.todo
    BY DEF CancelToken, TypeOK, Canceller
  <1>2. /\ canceller.ids \subseteq Operations /\ canceller.all \subseteq Operations
        /\ tokenList \subseteq Operations
    BY DEF TypeOK, Canceller
  <1>3. CASE TokenAt(canceller.at) = {} /\ shifted' = TRUE /\ UNCHANGED op
    BY <1>1, <1>3
    DEF TypeOK, WriteInv, OpsInv, Tokens, Cancellable, OneInitialiser, Initialising
  <1>4. ASSUME NEW o \in TokenAt(canceller.at), CancelOperation(o),
               shifted' = (shifted \/ o # canceller.id)
        PROVE  TypeOK' /\ WriteInv'
    <2>1. o \in Operations
      BY <1>2 DEF TokenAt
    <2>2. PICK y : Set(o, y) /\ CancelledAs(op[o], y)
      BY <1>4, <2>1, CancelOperationEffect DEF WriteInv
    <2>3. /\ op' \in [Operations -> Op] /\ op'[o] = y
          /\ \A p \in Operations \ {o} : op'[p] = op[p]
      BY <2>1, <2>2, SetEffect DEF CancelledAs, TypeOK
    <2>4. shifted' \in BOOLEAN /\ (~shifted' => ~shifted /\ o = canceller.id)
      BY <1>4
    <2>5. TypeOK'
      BY <1>1, <2>3, <2>4 DEF TypeOK
    <2>6. OpsInv'
      BY <2>2, <2>3 DEF WriteInv, OpsInv, CancelledAs
    <2>7. \A p \in Operations :
             /\ op'[p].listed = op[p].listed /\ op'[p].calls = op[p].calls
             /\ op[p].cancelled => op'[p].cancelled
             /\ Inits(op'[p]) <=> Inits(op[p])
      BY <2>2, <2>3 DEF CancelledAs
    <2>8. OneInitialiser'
      BY <1>1, <2>7 DEF WriteInv, OneInitialiser, Initialising, Inits
    <2>9. Cancellable'
      BY <1>1, <2>4, <2>7 DEF WriteInv, Cancellable
    <2>10. Tokens'
      <3>1. op'[o].cancelled \/ op'[o].calls = 1
        BY <2>2, <2>3 DEF CancelledAs
      <3> QED
        BY <1>1, <1>2, <2>4, <2>7, <3>1 DEF WriteInv, Tokens
    <2> QED
      BY <2>5, <2>6, <2>8, <2>9, <2>10 DEF WriteInv
  <1> QED
    BY <1>3, <1>4 DEF CancelToken

-----------------------------------------------------------------------------
(* The invariant holds *)

(* The first state satisfies the invariant.                                *)
LEMMA InitKeeps ==
    ASSUME Init
    PROVE  TypeOK /\ WriteInv
  <1>1. PICK kinds \in Kinds : op = [o \in Operations |-> [
           kind |-> kinds[o], owns |-> FALSE, lookup |-> 0, step |-> 0, pc |-> "new", ok |-> FALSE,
           token |-> FALSE, killed |-> FALSE, cancelled |-> FALSE, listed |-> FALSE, calls |-> 0,
           answer |-> "none", stored |-> {}]]
    BY DEF Init
  <1>2. kinds \in [Operations -> DOMAIN Program] /\ 0 \in 0..Lookups /\ 0 \in 0..MaxOperations
    BY WriteClientAssumption DEF WriteClientAssumption
  <1>3. \A o \in Operations :
           /\ op[o].pc = "new" /\ op[o].lookup = 0 /\ op[o].calls = 0 /\ op[o].answer = "none"
           /\ op[o].stored = {} /\ ~op[o].listed
    BY <1>1
  <1>4. op \in [Operations -> Op]
    BY <1>1, <1>2 DEF Op
  <1>5. canceller \in Canceller
    BY <1>2 DEF Init, Canceller
  <1>6. TypeOK
    BY <1>4, <1>5 DEF Init, TypeOK
  <1>7. OpsInv
    BY <1>3 DEF OpsInv, Placed, Kept, Looks, Asks, BlobFirst
  <1>8. Tokens /\ Cancellable
    BY <1>3 DEF Init, Tokens, Cancellable
  <1>9. OneInitialiser
    BY <1>3 DEF Init, OneInitialiser, Initialising
  <1> QED
    BY <1>6, <1>7, <1>8, <1>9 DEF WriteInv

(* And every step keeps it.                                                *)
LEMMA StepKeeps ==
    ASSUME TypeOK, WriteInv, [Next]_writeVars
    PROVE  TypeOK' /\ WriteInv'
  <1>1. CASE \E o \in Operations : Call(o) \/ Step(o) \/ AddTask(o) \/ Cancel(o)
    <2>1. PICK o \in Operations : Moves(o)
      BY <1>1, OperationMoves DEF WriteInv
    <2> QED
      BY <2>1, MovesKeepOperations, MovesKeepTokens, MovesKeepInitialiser DEF WriteInv
  <1>2. CASE CancelAll \/ CancellerStep
    BY <1>2, CancellerKeeps, CancelTokenKeeps DEF CancellerStep
  <1>3. CASE UNCHANGED writeVars
    BY <1>3 DEF writeVars, initVars, past, cancelVars, TypeOK, WriteInv, OpsInv, Tokens,
       Cancellable, OneInitialiser, Initialising
  <1> QED
    BY <1>1, <1>2, <1>3 DEF Next

(* The types and the invariant hold of the three write clients, whatever   *)
(* their operations, the services' answers and the times of the cancels.   *)
THEOREM WriteInductive == Spec => [](TypeOK /\ WriteInv)
  <1>1. Init => TypeOK /\ WriteInv
    BY InitKeeps
  <1>2. TypeOK /\ WriteInv /\ [Next]_writeVars => (TypeOK /\ WriteInv)'
    BY StepKeeps
  <1> QED
    BY <1>1, <1>2, PTL DEF Spec

(* One operation looks the services up at a time (InitApiClients), with    *)
(* init_in_progress_ set, until one is overtaken.                          *)
THEOREM OneLooksUp == Spec => []OneInitialiser
  <1>1. TypeOK /\ WriteInv => OneInitialiser
    BY DEF WriteInv
  <1> QED
    BY <1>1, WriteInductive, PTL

(* What succeeds was done by the services, and no metadata is without its  *)
(* blob (UploadBlob before UploadPartition, PutBlob before insertIndexes). *)
THEOREM DoneMeansStored == Spec => []OkMeansStored
  <1>1. TypeOK /\ WriteInv => OkMeansStored
    BY DEF WriteInv, OpsInv, Kept, Stored, BlobFirst, NumRequests, OkMeansStored
  <1> QED
    BY <1>1, WriteInductive, PTL

(* What runs can be cancelled, and when CancelAll returns it has cancelled *)
(* whatever it found: if its iterator has not come to lead elsewhere.      *)
THEOREM AllReached == Spec => []CancelAllReaches
  <1>1. TypeOK /\ WriteInv => CancelAllReaches
    <2> SUFFICES ASSUME TypeOK, Tokens, Cancellable, ~shifted
                 PROVE  /\ \A o \in Operations :
                              op[o].listed /\ op[o].calls = 0 => o \in tokenList \/ op[o].cancelled
                        /\ canceller.pc = "returned" =>
                              \A o \in canceller.all : op[o].cancelled \/ op[o].calls = 1
      BY DEF WriteInv, CancelAllReaches
    <2>1. /\ canceller.all \subseteq Operations
          /\ \A o \in Operations : op[o].calls = 0 \/ op[o].calls = 1
      BY DEF TypeOK, Canceller, Op
    <2> QED
      BY <2>1 DEF Tokens, Cancellable
  <1> QED
    BY <1>1, WriteInductive, PTL

-----------------------------------------------------------------------------
(* The run: its clients share no state, so that each is what it is alone.  *)
(* StreamWriteProofs declares the clients once more; with the constants of *)
(* the run, its definitions say what those of the run say.                 *)

Streams ==
    INSTANCE StreamWriteProofs WITH
        Enablers <- {e1}, MaxAutoFlushes <- 2, PerFlush <- {0}, Timers <- {t1}, Workers <- {w1},
        MaxQueued <- 1, NumEvents <- 1, flush <- flushing, Flushes <- {f1, f2},
        FlushLimits <- SomeLimits, Publications <- {1, 2}, Contents <- {"small", "large", "sdii"}
Twice ==
    INSTANCE StreamWriteProofs WITH
        Enablers <- {e1, e2}, MaxAutoFlushes <- 1, PerFlush <- {-1}, Timers <- {t1}, Workers <- {w1},
        MaxQueued <- 1, NumEvents <- 1, flush <- flushing, Flushes <- {f1, f2},
        FlushLimits <- SomeLimits, Publications <- {1, 2}, Contents <- {"small", "large", "sdii"}

(* The instance of the queue starts as the one that is proved about.       *)
LEMMA QueueStarts ==
    ASSUME Queue!Init PROVE Streams!Queue!Init
  BY DEF Queue!Init, Streams!Queue!Init, Queue!Uuids, Streams!Queue!Uuids

(* It makes the same steps.                                                *)
LEMMA QueueGoes ==
    ASSUME Queue!Next PROVE Streams!Queue!Next
  BY DEF Queue!Next, Streams!Queue!Next, Queue!EvictList, Streams!Queue!EvictList,
      Queue!EvictRequest, Streams!Queue!EvictRequest, Queue!ListedRequests,
      Streams!Queue!ListedRequests, Queue!Uuids, Streams!Queue!Uuids,
      Queue!Restart, Streams!Queue!Restart, Queue!Popped,
      Streams!Queue!Popped, Queue!PutData, Streams!Queue!PutData, Queue!FlushStep,
      Streams!Queue!FlushStep, Queue!Complete, Streams!Queue!Complete, Queue!history,
      Streams!Queue!history, Queue!cacheVars, Streams!Queue!cacheVars, Queue!GoTo,
      Streams!Queue!GoTo, Queue!CallUser, Streams!Queue!CallUser, Queue!Callback,
      Streams!Queue!Callback, Queue!Restore, Streams!Queue!Restore, Queue!Store,
      Streams!Queue!Store, Queue!PutUuids, Streams!Queue!PutUuids, Queue!Requeue,
      Streams!Queue!Requeue, Queue!HasRoom, Streams!Queue!HasRoom, Queue!QueueSize,
      Streams!Queue!QueueSize, Queue!PassesCheck, Streams!Queue!PassesCheck, Queue!Checked,
      Streams!Queue!Checked, Queue!AfterPublish, Streams!Queue!AfterPublish,
      Queue!PublishDataTask, Streams!Queue!PublishDataTask, Queue!Outcomes,
      Streams!Queue!Outcomes, Queue!PopFromQueue, Streams!Queue!PopFromQueue, Queue!PopSomething,
      Streams!Queue!PopSomething, Queue!PutTail, Streams!Queue!PutTail, Queue!PopNothing,
      Streams!Queue!PopNothing, Queue!Check, Streams!Queue!Check, Queue!Execute,
      Streams!Queue!Execute, Queue!Cancel, Streams!Queue!Cancel, Queue!Flush, Streams!Queue!Flush,
      Queue!QueueStore, Streams!Queue!QueueStore, Queue!flushVars, Streams!Queue!flushVars,
      Queue!Queue, Streams!Queue!Queue

(* And it has constants as they have to be.                                *)
LEMMA QueueConstants == Streams!Queue!StreamQueueAssumption
  BY ClientConstants DEF Queue!StreamQueueAssumption, Streams!Queue!StreamQueueAssumption,
      Queue!IsFiniteSet, Streams!Queue!IsFiniteSet

(* Its properties are the same.                                            *)
LEMMA QueueSame ==
    /\ Streams!Queue!TypeOK => Queue!TypeOK
    /\ Streams!Queue!QueueBounded => Queue!QueueBounded
    /\ Streams!Queue!NoSilentLoss => Queue!NoSilentLoss
    /\ Streams!Queue!AckedOnce => Queue!AckedOnce
    /\ Streams!Queue!FlushCalledOnce => Queue!FlushCalledOnce
  <1>1. Streams!Queue!TypeOK => Queue!TypeOK
    BY DEF Queue!TypeOK, Streams!Queue!TypeOK, Queue!Uuids, Streams!Queue!Uuids,
      Queue!Cardinality, Streams!Queue!Cardinality, Queue!IsFiniteSet, Streams!Queue!IsFiniteSet
  <1>2. Streams!Queue!QueueBounded => Queue!QueueBounded
    BY DEF Queue!QueueBounded, Streams!Queue!QueueBounded, Queue!Checked, Streams!Queue!Checked,
      Queue!QueueSize, Streams!Queue!QueueSize, Queue!Cardinality, Streams!Queue!Cardinality,
      Queue!IsFiniteSet, Streams!Queue!IsFiniteSet
  <1>3. Streams!Queue!NoSilentLoss => Queue!NoSilentLoss
    BY DEF Queue!NoSilentLoss, Streams!Queue!NoSilentLoss, Queue!InFlight, Streams!Queue!InFlight,
      Queue!Popped, Streams!Queue!Popped, Queue!Stored, Streams!Queue!Stored
  <1>4. Streams!Queue!AckedOnce => Queue!AckedOnce
    BY DEF Queue!AckedOnce, Streams!Queue!AckedOnce, Queue!InFlight, Streams!Queue!InFlight,
      Queue!Popped, Streams!Queue!Popped, Queue!Stored, Streams!Queue!Stored, Queue!Cardinality,
      Streams!Queue!Cardinality, Queue!IsFiniteSet, Streams!Queue!IsFiniteSet
  <1>5. Streams!Queue!FlushCalledOnce => Queue!FlushCalledOnce
    BY DEF Queue!FlushCalledOnce, Streams!Queue!FlushCalledOnce
  <1> QED BY <1>1, <1>2, <1>3, <1>4, <1>5

(* So it is with the publications.                                         *)
LEMMA PublishingSame ==
    /\ Publishing!Init => Streams!Publishing!Init
    /\ Publishing!Next => Streams!Publishing!Next
    /\ Streams!Publishing!TypeOK => Publishing!TypeOK
    /\ Streams!Publishing!ToldWhatIsPublished => Publishing!ToldWhatIsPublished
  <1>1. Publishing!Init => Streams!Publishing!Init
    BY DEF Publishing!Init, Streams!Publishing!Init
  <1>2. Publishing!Next => Streams!Publishing!Next
    BY DEF Publishing!Next, Streams!Publishing!Next, Publishing!Expire, Streams!Publishing!Expire,
      Publishing!Looks, Streams!Publishing!Looks, Publishing!TaskStep,
      Streams!Publishing!TaskStep, Publishing!Complete, Streams!Publishing!Complete,
      Publishing!Answer, Streams!Publishing!Answer, Publishing!Call, Streams!Publishing!Call,
      Publishing!Fails, Streams!Publishing!Fails, Publishing!Request, Streams!Publishing!Request,
      Publishing!RequestsOf, Streams!Publishing!RequestsOf, Publishing!Succeeds,
      Streams!Publishing!Succeeds, Publishing!LookupApiClient, Streams!Publishing!LookupApiClient,
      Publishing!Execute, Streams!Publishing!Execute, Publishing!Cancel,
      Streams!Publishing!Cancel, Publishing!PublishData, Streams!Publishing!PublishData
  <1>3. Streams!Publishing!TypeOK => Publishing!TypeOK
    BY DEF Publishing!TypeOK, Streams!Publishing!TypeOK, Publishing!Looks,
      Streams!Publishing!Looks, Publishing!RequestsOf, Streams!Publishing!RequestsOf
  <1>4. Streams!Publishing!ToldWhatIsPublished => Publishing!ToldWhatIsPublished
    BY DEF Publishing!ToldWhatIsPublished, Streams!Publishing!ToldWhatIsPublished,
      Publishing!Services, Streams!Publishing!Services, Publishing!Looks,
      Streams!Publishing!Looks, Publishing!RequestsOf, Streams!Publishing!RequestsOf,
      Publishing!Visible, Streams!Publishing!Visible
  <1> QED BY <1>1, <1>2, <1>3, <1>4

(* And with the automatic flushes of one call of Enable.                   *)
LEMMA FlushingSame ==
    /\ Flushing!Init => Streams!Init
    /\ Flushing!Next => Streams!Next
    /\ Flushing!AutoFlushAssumption => Streams!AutoFlushAssumption
    /\ Streams!TypeOK => Flushing!TypeOK
    /\ Streams!QuietAfterDisable => Flushing!QuietAfterDisable
    /\ Streams!MetricsExact => Flushing!MetricsExact
    /\ Streams!FewerFlushes => Flushing!FewerFlushes
  <1>1. Flushing!Init => Streams!Init
    BY DEF Flushing!Init, Streams!Init, Flushing!AutoFlushes, Streams!AutoFlushes
  <1>2. Flushing!Next => Streams!Next
    BY DEF Flushing!Next, Streams!Next, Flushing!FlushStep, Streams!FlushStep,
      Flushing!NotifyFlushEventResults, Streams!NotifyFlushEventResults, Flushing!clientVars,
      Streams!clientVars, Flushing!controlVars, Streams!controlVars, Flushing!Counted,
      Streams!Counted, Flushing!CollateFlushEventResults, Streams!CollateFlushEventResults,
      Flushing!RemoveCancelToken, Streams!RemoveCancelToken, Flushing!listenerVars,
      Streams!listenerVars, Flushing!ReleaseTask, Streams!ReleaseTask, Flushing!Asked,
      Streams!Asked, Flushing!AddCancelToken, Streams!AddCancelToken, Flushing!AddTask,
      Streams!AddTask, Flushing!AutoFlushes, Streams!AutoFlushes, Flushing!Interval,
      Streams!Interval, Flushing!NoFlush, Streams!NoFlush, Flushing!AddBackgroundFlushTask,
      Streams!AddBackgroundFlushTask, Flushing!Unstarted, Streams!Unstarted, Flushing!WakeUp,
      Streams!WakeUp, Flushing!IsCancelled, Streams!IsCancelled, Flushing!DropClient,
      Streams!DropClient, Flushing!WaitForBackgroundTaskCompletion,
      Streams!WaitForBackgroundTaskCompletion, Flushing!Of, Streams!Of, Flushing!Disable,
      Streams!Disable, Flushing!Cancel, Streams!Cancel, Flushing!HandleNotifyQueueEventComplete,
      Streams!HandleNotifyQueueEventComplete, Flushing!AutoFlushNumEvents,
      Streams!AutoFlushNumEvents, Flushing!IsAutoFlushNumEventsRequired,
      Streams!IsAutoFlushNumEventsRequired, Flushing!NotifyQueueEventComplete,
      Streams!NotifyQueueEventComplete, Flushing!EnableCounts, Streams!EnableCounts,
      Flushing!InitialiseAutoFlushInterval, Streams!InitialiseAutoFlushInterval,
      Flushing!TriggerAutoFlushInterval, Streams!TriggerAutoFlushInterval, Flushing!Store,
      Streams!Store, Flushing!Enable, Streams!Enable
  <1>3. Flushing!AutoFlushAssumption => Streams!AutoFlushAssumption
    BY DEF Flushing!AutoFlushAssumption, Streams!AutoFlushAssumption, Flushing!IsFiniteSet,
      Streams!IsFiniteSet
  <1>4. Streams!TypeOK => Flushing!TypeOK
    BY DEF Streams!TypeOK, Flushing!TypeOK, Streams!Metrics, Flushing!Metrics, Streams!Objects,
      Flushing!Objects, Streams!AutoFlushes, Flushing!AutoFlushes
  <1>5. Streams!QuietAfterDisable => Flushing!QuietAfterDisable
    BY DEF Streams!QuietAfterDisable, Flushing!QuietAfterDisable, Streams!Of, Flushing!Of,
      Streams!AutoFlushes, Flushing!AutoFlushes
  <1>6. Streams!MetricsExact => Flushing!MetricsExact
    BY Zenon DEF Streams!MetricsExact, Flushing!MetricsExact, Streams!Failed, Flushing!Failed,
      Streams!AutoFlushes, Flushing!AutoFlushes, Streams!Published, Flushing!Published,
      Streams!Done, Flushing!Done, Streams!Started, Flushing!Started, Streams!Unstarted,
      Flushing!Unstarted, Streams!Cardinality, Flushing!Cardinality, Streams!IsFiniteSet,
      Flushing!IsFiniteSet, Streams!SumFunctionOnSet, Flushing!SumFunctionOnSet,
      Streams!FoldFunctionOnSet, Flushing!FoldFunctionOnSet, Streams!MapThenFoldSet,
      Flushing!MapThenFoldSet
  <1>7. Streams!FewerFlushes => Flushing!FewerFlushes
    BY DEF Streams!FewerFlushes, Flushing!FewerFlushes, Streams!Committed, Flushing!Committed,
      Streams!Of, Flushing!Of, Streams!AutoFlushes, Flushing!AutoFlushes, Streams!Cardinality,
      Flushing!Cardinality, Streams!IsFiniteSet, Flushing!IsFiniteSet
  <1> QED BY <1>1, <1>2, <1>3, <1>4, <1>5, <1>6, <1>7

(* And with the automatic flushes of two.                                  *)
LEMMA EnablingSame ==
    /\ Enabling!Init => Twice!Init
    /\ Enabling!Next => Twice!Next
    /\ Enabling!AutoFlushAssumption => Twice!AutoFlushAssumption
    /\ Twice!TypeOK => Enabling!TypeOK
    /\ Twice!QuietAfterDisable => Enabling!QuietAfterDisable
    /\ Twice!MetricsExact => Enabling!MetricsExact
    /\ Twice!FewerFlushes => Enabling!FewerFlushes
  <1>1. Enabling!Init => Twice!Init
    BY DEF Enabling!Init, Twice!Init, Enabling!AutoFlushes, Twice!AutoFlushes
  <1>2. Enabling!Next => Twice!Next
    BY DEF Enabling!Next, Twice!Next, Enabling!FlushStep, Twice!FlushStep,
      Enabling!NotifyFlushEventResults, Twice!NotifyFlushEventResults, Enabling!clientVars,
      Twice!clientVars, Enabling!controlVars, Twice!controlVars, Enabling!Counted, Twice!Counted,
      Enabling!CollateFlushEventResults, Twice!CollateFlushEventResults,
      Enabling!RemoveCancelToken, Twice!RemoveCancelToken, Enabling!listenerVars,
      Twice!listenerVars, Enabling!ReleaseTask, Twice!ReleaseTask, Enabling!Asked, Twice!Asked,
      Enabling!AddCancelToken, Twice!AddCancelToken, Enabling!AddTask, Twice!AddTask,
      Enabling!AutoFlushes, Twice!AutoFlushes, Enabling!Interval, Twice!Interval,
      Enabling!NoFlush, Twice!NoFlush, Enabling!AddBackgroundFlushTask,
      Twice!AddBackgroundFlushTask, Enabling!Unstarted, Twice!Unstarted, Enabling!WakeUp,
      Twice!WakeUp, Enabling!IsCancelled, Twice!IsCancelled, Enabling!DropClient,
      Twice!DropClient, Enabling!WaitForBackgroundTaskCompletion,
      Twice!WaitForBackgroundTaskCompletion, Enabling!Of, Twice!Of, Enabling!Disable,
      Twice!Disable, Enabling!Cancel, Twice!Cancel, Enabling!HandleNotifyQueueEventComplete,
      Twice!HandleNotifyQueueEventComplete, Enabling!AutoFlushNumEvents, Twice!AutoFlushNumEvents,
      Enabling!IsAutoFlushNumEventsRequired, Twice!IsAutoFlushNumEventsRequired,
      Enabling!NotifyQueueEventComplete, Twice!NotifyQueueEventComplete, Enabling!EnableCounts,
      Twice!EnableCounts, Enabling!InitialiseAutoFlushInterval, Twice!InitialiseAutoFlushInterval,
      Enabling!TriggerAutoFlushInterval, Twice!TriggerAutoFlushInterval, Enabling!Store,
      Twice!Store, Enabling!Enable, Twice!Enable
  <1>3. Enabling!AutoFlushAssumption => Twice!AutoFlushAssumption
    BY DEF Enabling!AutoFlushAssumption, Twice!AutoFlushAssumption, Enabling!IsFiniteSet,
      Twice!IsFiniteSet
  <1>4. Twice!TypeOK => Enabling!TypeOK
    BY DEF Twice!TypeOK, Enabling!TypeOK, Twice!Metrics, Enabling!Metrics, Twice!Objects,
      Enabling!Objects, Twice!AutoFlushes, Enabling!AutoFlushes
  <1>5. Twice!QuietAfterDisable => Enabling!QuietAfterDisable
    BY DEF Twice!QuietAfterDisable, Enabling!QuietAfterDisable, Twice!Of, Enabling!Of,
      Twice!AutoFlushes, Enabling!AutoFlushes
  <1>6. Twice!MetricsExact => Enabling!MetricsExact
    BY Zenon DEF Twice!MetricsExact, Enabling!MetricsExact, Twice!Failed, Enabling!Failed,
      Twice!AutoFlushes, Enabling!AutoFlushes, Twice!Published, Enabling!Published, Twice!Done,
      Enabling!Done, Twice!Started, Enabling!Started, Twice!Unstarted, Enabling!Unstarted,
      Twice!Cardinality, Enabling!Cardinality, Twice!IsFiniteSet, Enabling!IsFiniteSet,
      Twice!SumFunctionOnSet, Enabling!SumFunctionOnSet, Twice!FoldFunctionOnSet,
      Enabling!FoldFunctionOnSet, Twice!MapThenFoldSet, Enabling!MapThenFoldSet
  <1>7. Twice!FewerFlushes => Enabling!FewerFlushes
    BY DEF Twice!FewerFlushes, Enabling!FewerFlushes, Twice!Committed, Enabling!Committed,
      Twice!Of, Enabling!Of, Twice!AutoFlushes, Enabling!AutoFlushes, Twice!Cardinality,
      Enabling!Cardinality, Twice!IsFiniteSet, Enabling!IsFiniteSet
  <1> QED BY <1>1, <1>2, <1>3, <1>4, <1>5, <1>6, <1>7

(* Every step is one of a client's, for each client; those of the others   *)
(* do not change its state.                                                *)
LEMMA RunSteps ==
    ASSUME [MCNext]_all
    PROVE  /\ [Next]_writeVars
           /\ [Streams!Queue!Next]_Streams!Queue!vars
           /\ [Streams!Publishing!Next]_Streams!Publishing!publicationVars
           /\ client' = client
           /\ client = "enabling" => [Twice!Next]_Twice!autoVars
           /\ client # "enabling" => [Streams!Next]_Streams!autoVars
  <1>1. UNCHANGED streamVars => UNCHANGED Streams!Queue!vars
    BY DEF streamVars, Streams!Queue!vars, Streams!Queue!cacheVars, Streams!Queue!flushVars,
       Streams!Queue!history
  <1>2. UNCHANGED publishingVars => UNCHANGED Streams!Publishing!publicationVars
    BY DEF publishingVars, Streams!Publishing!publicationVars
  <1>3. UNCHANGED autoVars => UNCHANGED Streams!autoVars /\ UNCHANGED Twice!autoVars
    BY DEF autoVars, Streams!autoVars, Streams!controlVars, Streams!clientVars,
       Streams!listenerVars, Twice!autoVars, Twice!controlVars, Twice!clientVars,
       Twice!listenerVars
  <1>4. CASE Layers("layer", TwoOperations) \/ Layers("three", ThreeOperations)
    BY <1>1, <1>2, <1>3, <1>4 DEF Layers, TwoOperations, ThreeOperations
  <1>5. CASE Stream(InOrder)
    BY <1>2, <1>3, <1>5, QueueGoes DEF Stream, InOrder
  <1>6. CASE Publish(Publishing!Next)
    BY <1>1, <1>3, <1>6, PublishingSame DEF Publish
  <1>7. CASE Automatic("flushing", OneObject)
    BY <1>1, <1>2, <1>7, FlushingSame DEF Automatic, OneObject
  <1>8. CASE Automatic("enabling", Enabling!Next)
    BY <1>1, <1>2, <1>8, EnablingSame DEF Automatic
  <1>9. CASE UNCHANGED all
    BY <1>1, <1>2, <1>3, <1>9 DEF all
  <1> QED BY <1>4, <1>5, <1>6, <1>7, <1>8, <1>9 DEF MCNext

(* The write clients are in the run what they are by themselves.           *)
LEMMA RunLayers == MCSpec => [](TypeOK /\ WriteInv)
  <1>1. MCInit => Init
    BY DEF MCInit
  <1>2. [MCNext]_all => [Next]_writeVars
    BY RunSteps
  <1> QED BY <1>1, <1>2, WriteInductive, PTL DEF MCSpec, Spec

(* So is the queue.                                                        *)
LEMMA RunQueue == MCSpec => Streams!Queue!Spec
  <1>1. MCInit => Streams!Queue!Init
    BY QueueStarts DEF MCInit
  <1>2. [MCNext]_all => [Streams!Queue!Next]_Streams!Queue!vars
    BY RunSteps
  <1> QED BY <1>1, <1>2, PTL DEF MCSpec, Streams!Queue!Spec

(* And so are the publications.                                            *)
LEMMA RunPublications == MCSpec => Streams!Publishing!Spec
  <1>1. MCInit => Streams!Publishing!Init
    BY PublishingSame DEF MCInit
  <1>2. [MCNext]_all => [Streams!Publishing!Next]_Streams!Publishing!publicationVars
    BY RunSteps
  <1> QED BY <1>1, <1>2, PTL DEF MCSpec, Streams!Publishing!Spec

(* The automatic flushes are those of one instance or of the other.        *)
Automatics ==
    IF client = "enabling" THEN Twice!TypeOK /\ Twice!FlushInv
                           ELSE Streams!TypeOK /\ Streams!FlushInv
AutomaticFewer ==
    IF client = "enabling" THEN Twice!FewerFlushes ELSE Streams!FewerFlushes

(* The first state is as either of them needs it.                          *)
LEMMA AutomaticsStart == MCInit => Automatics
  <1>1. Flushing!Init => Streams!TypeOK /\ Streams!FlushInv
    BY FlushingSame, ClientConstants, Streams!FlushInit
  <1>2. Enabling!Init => Twice!TypeOK /\ Twice!FlushInv
    BY EnablingSame, ClientConstants, Twice!FlushInit
  <1> QED BY <1>1, <1>2 DEF MCInit, Automatics

(* And every step keeps it so.                                             *)
LEMMA AutomaticsKept == Automatics /\ [MCNext]_all => Automatics' /\ AutomaticFewer
  <1> SUFFICES ASSUME Automatics, [MCNext]_all PROVE Automatics' /\ AutomaticFewer
    OBVIOUS
  <1>1. client' = client
    BY RunSteps
  <1>2. CASE client = "enabling"
    <2>1. Twice!TypeOK /\ Twice!FlushInv /\ [Twice!Next]_Twice!autoVars /\ Twice!AutoFlushAssumption
      BY <1>2, RunSteps, EnablingSame, ClientConstants DEF Automatics
    <2>2. (Twice!TypeOK /\ Twice!FlushInv)' /\ Twice!FewerFlushes
      BY <2>1, Twice!FlushKeeps
    <2> QED BY <1>1, <1>2, <2>2 DEF Automatics, AutomaticFewer
  <1>3. CASE client # "enabling"
    <2>1. /\ Streams!TypeOK /\ Streams!FlushInv /\ [Streams!Next]_Streams!autoVars
          /\ Streams!AutoFlushAssumption
      BY <1>3, RunSteps, FlushingSame, ClientConstants DEF Automatics
    <2>2. (Streams!TypeOK /\ Streams!FlushInv)' /\ Streams!FewerFlushes
      BY <2>1, Streams!FlushKeeps
    <2> QED BY <1>1, <1>3, <2>2 DEF Automatics, AutomaticFewer
  <1> QED BY <1>2, <1>3

(* What Disable has cancelled starts no more flushes than it had threads   *)
(* past their look at is_cancelled_, in the run as in general              *)
(* (AutoFlushController::TriggerAutoFlushInterval).                        *)
THEOREM RunDisabledEnds == MCSpec => DisabledEnds
  <1> DEFINE A == /\ client = "flushing" => Flushing!FewerFlushes
                  /\ client = "enabling" => Enabling!FewerFlushes
  <1>1. AutomaticFewer => A
    BY FlushingSame, EnablingSame DEF AutomaticFewer
  <1> HIDE DEF A
  <1>2. MCSpec => [][A]_all
    BY <1>1, AutomaticsStart, AutomaticsKept, PTL DEF MCSpec
  <1> QED BY <1>2 DEF DisabledEnds, A

(* A queued request is lost only as NoSilentLoss lists it and is not       *)
(* published twice, who flushes is called back once (Queue, Flush), and    *)
(* who publishes is told what has been published (PublishData,             *)
(* PublishSdii).                                                           *)
THEOREM RunPublishedOnce == MCSpec => []PublishedOnce
  <1>1. /\ Streams!Queue!NoSilentLoss /\ Streams!Queue!AckedOnce /\ Streams!Queue!FlushCalledOnce
        /\ Streams!Publishing!ToldWhatIsPublished
        => PublishedOnce
    BY QueueSame, PublishingSame DEF PublishedOnce
  <1>2. /\ Streams!Queue!Spec => []Streams!Queue!NoSilentLoss
        /\ Streams!Queue!Spec => []Streams!Queue!AckedOnce
        /\ Streams!Queue!Spec => []Streams!Queue!FlushCalledOnce
    BY QueueConstants, Streams!AcceptedIsKept, Streams!PublishedByOne, Streams!FlushAnsweredOnce
  <1>3. Streams!Publishing!Spec => []Streams!Publishing!ToldWhatIsPublished
    BY Streams!PublicationTrue DEF Streams!SomeContents
  <1> QED BY <1>1, <1>2, <1>3, RunQueue, RunPublications, PTL

(* The types; the length of the queue (Queue); the metrics of the          *)
(* automatic flushes (DefaultFlushEventListener); and when Disable is done *)
(* (AutoFlushController::Disable).                                         *)
THEOREM RunConsistent == MCSpec => []Consistent
  <1>1. /\ TypeOK /\ Streams!Queue!TypeOK /\ Streams!Queue!QueueBounded
        /\ Streams!Publishing!TypeOK /\ Automatics
        => Consistent
    <2>1. client = "flushing" /\ Automatics =>
              Flushing!TypeOK /\ Flushing!MetricsExact /\ Flushing!QuietAfterDisable
      BY FlushingSame DEF Automatics, Streams!FlushInv
    <2>2. client = "enabling" /\ Automatics =>
              Enabling!TypeOK /\ Enabling!MetricsExact /\ Enabling!QuietAfterDisable
      BY EnablingSame DEF Automatics, Twice!FlushInv
    <2> QED BY <2>1, <2>2, QueueSame, PublishingSame DEF Consistent
  <1>2. /\ Streams!Queue!Spec => [](Streams!Queue!TypeOK /\ Streams!QueueInv)
        /\ Streams!Queue!Spec => []Streams!Queue!QueueBounded
    BY QueueConstants, Streams!QueueInductive, Streams!LimitKept
  <1>3. Streams!Publishing!Spec => []Streams!PublicationInv
    BY Streams!PublicationAlways DEF Streams!SomeContents
  <1>4. Streams!PublicationInv => Streams!Publishing!TypeOK
    BY DEF Streams!PublicationInv
  <1>5. MCSpec => []Automatics
    BY AutomaticsStart, AutomaticsKept, PTL DEF MCSpec
  <1> QED BY <1>1, <1>2, <1>3, <1>4, <1>5, RunLayers, RunQueue, RunPublications, PTL
=============================================================================
