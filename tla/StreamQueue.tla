------------------------------ MODULE StreamQueue ------------------------------
(***************************************************************************)
(* write::StreamLayerClientImpl: the queue of publish requests that lives  *)
(* in the key-value cache, and Flush, which publishes what is queued.      *)
(*                                                                         *)
(* The cache holds one entry with the list of uuids and one entry per      *)
(* request.  cache_mutex_ makes each access of the two one step, but Queue *)
(* releases it between its check of the size and the store.                *)
(*                                                                         *)
(* The cache is that of the client's settings: by default one that is in   *)
(* memory only, small, and shared with the look-ups of URLs, so that a Put *)
(* of anybody may evict what is queued.  Flush only logs what is missing.  *)
(***************************************************************************)
EXTENDS Integers, Sequences, FiniteSets

CONSTANTS
    Requests,       \* what users queue, each once
    Flushes,        \* calls of Flush
    FlushLimits,    \* the GetNumberOfRequestsToFlush that they ask for, at choice
    MaxRequests,    \* stream_client_settings_.maximum_requests
    MaxFaults,      \* bound on failing Puts, evictions and restarts, together
    None            \* no request

StreamQueueAssumption ==
    /\ FlushLimits \subseteq [Flushes -> Int] /\ MaxRequests \in Nat /\ MaxFaults \in Nat
    /\ None \notin Requests /\ Requests \cap Flushes = {} /\ IsFiniteSet(Requests)

VARIABLES
    list,           \* the uuids in the entry GetUuidListKey
    data,           \* the request in the entry of each uuid
    faults,         \* Puts that have failed, evictions, and restarts of the process
    queue,          \* where each call of Queue is
    pc,             \* where each Flush is
    limit,          \* its maximum_events_number
    counter,        \* its counter
    item,           \* its publish_request
    started,        \* its exec_started
    cancelled,      \* whether its context is cancelled
    responses,      \* its responses: the requests published, and how
    calls,          \* history: how often its user was called back
    raced,          \* history: who passed the check of the size while another had
    unstored,       \* history: requests whose Put failed, or that, or whose place in
                    \* the list, the cache has lost
    dropped,        \* history: popped requests that were not queued again after
                    \* a cancel or a restart
    interrupted,    \* history: requests published while the flush was cancelled
    done            \* history: requests whose response stands

cacheVars == <<list, data, faults>>
flushVars == <<pc, limit, counter, item, started, cancelled, responses, calls>>
history == <<raced, unstored, dropped, interrupted, done>>
vars == <<cacheVars, queue, flushVars, history>>

(* Whoever queues a request does so at most once, so that its name serves  *)
(* as the uuid it generates.                                               *)
Uuids == Requests \cup Flushes

TypeOK ==
    /\ list \in Seq(Uuids) /\ data \in [Uuids -> Requests \cup {None}]
    /\ faults \in 0..MaxFaults
    /\ queue \in [Requests -> {"new", "checked", "queued", "refused", "gone"}]
    /\ pc \in [Flushes -> {"new", "pending", "check", "pop", "publish", "answered", "requeue",
                           "store", "callback", "complete", "returned", "gone"}]
    /\ limit \in FlushLimits /\ counter \in [Flushes -> Nat]
    /\ \A f \in Flushes : counter[f] <= IF limit[f] > 0 THEN limit[f] ELSE Cardinality(Requests)
    /\ item \in [Flushes -> Requests \cup {None}]
    /\ started \in [Flushes -> BOOLEAN] /\ cancelled \in [Flushes -> BOOLEAN]
    /\ responses \in [Flushes -> Seq([req : Requests, ok : BOOLEAN])]
    /\ calls \in [Flushes -> Nat]
    /\ raced \subseteq Uuids
    /\ {unstored, dropped, interrupted, done} \subseteq SUBSET Requests

Init ==
    /\ list = <<>> /\ data = [u \in Uuids |-> None] /\ faults = 0
    /\ queue = [r \in Requests |-> "new"]
    /\ pc = [f \in Flushes |-> "new"] /\ limit \in FlushLimits
    /\ counter = [f \in Flushes |-> 0] /\ item = [f \in Flushes |-> None]
    /\ started = [f \in Flushes |-> FALSE] /\ cancelled = started
    /\ responses = [f \in Flushes |-> <<>>] /\ calls = counter
    /\ raced = {} /\ unstored = {} /\ dropped = {} /\ interrupted = {} /\ done = {}

-----------------------------------------------------------------------------
(* Queue *)

QueueSize == Len(list)

HasRoom_OneMore == QueueSize <= MaxRequests
HasRoom == QueueSize < MaxRequests

Checked == {r \in Requests : queue[r] = "checked"} \cup {f \in Flushes : pc[f] = "store"}
PassesCheck(u) ==
    /\ HasRoom
    /\ raced' = IF Checked # {} THEN raced \cup {u} ELSE raced

(* The first part of Queue; QueueSize has released the mutex when it ends. *)
Queue(r) ==
    /\ queue[r] = "new"
    /\ \/ PassesCheck(r) /\ queue' = [queue EXCEPT ![r] = "checked"]
       \/ ~HasRoom /\ queue' = [queue EXCEPT ![r] = "refused"] /\ UNCHANGED raced
    /\ UNCHANGED <<cacheVars, flushVars, unstored, dropped, interrupted, done>>

(* Queue ignores whether the Puts succeed. *)
PutData(u, r) == data' = [data EXCEPT ![u] = r]
PutUuids(uuids) == list' = uuids

Store_ListOnly(u, r) ==
    /\ PutUuids(Append(list, u))
    /\ UNCHANGED <<data, faults, unstored>>
Store(u, r) ==
    \/ PutData(u, r) /\ PutUuids(Append(list, u)) /\ UNCHANGED <<faults, unstored>>
    \/ /\ faults < MaxFaults /\ faults' = faults + 1
       /\ unstored' = unstored \cup {r}
       /\ \/ PutUuids(Append(list, u)) /\ UNCHANGED data
          \/ PutData(u, r) /\ UNCHANGED list

QueueStore(r) ==
    /\ queue[r] = "checked"
    /\ Store(r, r)
    /\ queue' = [queue EXCEPT ![r] = "queued"]
    /\ UNCHANGED <<flushVars, raced, dropped, interrupted, done>>

-----------------------------------------------------------------------------
(* Flush *)

GoTo(f, l) == pc' = [pc EXCEPT ![f] = l]

Flush(f) ==
    /\ pc[f] = "new"
    /\ GoTo(f, "pending")
    /\ UNCHANGED <<cacheVars, queue, limit, counter, item, started, cancelled, responses, calls,
                   history>>

Cancel(f) ==
    /\ pc[f] \notin {"new", "returned", "gone"} /\ ~cancelled[f]
    /\ cancelled' = [cancelled EXCEPT ![f] = TRUE]
    /\ UNCHANGED <<cacheVars, queue, pc, limit, counter, item, started, responses, calls, history>>

(* TaskContext::Execute, on the scheduler: a cancelled task is not run. *)
Execute(f) ==
    /\ pc[f] = "pending"
    /\ \/ cancelled[f] /\ GoTo(f, "complete") /\ UNCHANGED started
       \/ /\ ~cancelled[f]
          /\ started' = [started EXCEPT ![f] = TRUE]
          /\ GoTo(f, IF limit[f] < 0 THEN "callback" ELSE "check")
    /\ UNCHANGED <<cacheVars, queue, limit, counter, item, cancelled, responses, calls, history>>

(* The condition of the loop *)
Check(f) ==
    /\ pc[f] = "check"
    /\ \/ /\ limit[f] = 0 \/ counter[f] < limit[f]
          /\ QueueSize > 0 /\ ~cancelled[f]
          /\ GoTo(f, "pop")
       \/ /\ \/ limit[f] # 0 /\ counter[f] >= limit[f]
             \/ QueueSize = 0 \/ cancelled[f]
          /\ GoTo(f, "callback")
    /\ UNCHANGED <<cacheVars, queue, limit, counter, item, started, cancelled, responses, calls,
                   history>>

(* The Put of the shortened list may fail as well, unnoticed. *)
PutTail ==
    \/ PutUuids(Tail(list)) /\ UNCHANGED faults
    \/ faults < MaxFaults /\ faults' = faults + 1 /\ UNCHANGED list

(* Nothing left, or nothing under the first uuid: the loop goes on. *)
PopNothing_Retries(f) ==
    /\ list = <<>> \/ (list # <<>> /\ data[Head(list)] = None)
    /\ GoTo(f, "check") /\ UNCHANGED <<cacheVars, item>>
PopNothing(f) ==
    /\ \/ list = <<>> /\ UNCHANGED <<list, faults>>
       \/ list # <<>> /\ data[Head(list)] = None /\ PutTail
    /\ GoTo(f, "check") /\ UNCHANGED <<data, item>>

PopSomething(f) ==
    /\ list # <<>> /\ data[Head(list)] # None
    /\ item' = [item EXCEPT ![f] = data[Head(list)]]
    /\ data' = [data EXCEPT ![Head(list)] = None]
    /\ PutTail
    /\ GoTo(f, "publish")

PopFromQueue_Peek(f) ==
    /\ pc[f] = "pop"
    /\ \/ PopNothing(f)
       \/ /\ list # <<>> /\ data[Head(list)] # None
          /\ item' = [item EXCEPT ![f] = data[Head(list)]]
          /\ GoTo(f, "publish") /\ UNCHANGED cacheVars
    /\ UNCHANGED <<queue, limit, counter, started, cancelled, responses, calls, history>>
PopFromQueue(f) ==
    /\ pc[f] = "pop"
    /\ PopNothing(f) \/ PopSomething(f)
    /\ UNCHANGED <<queue, limit, counter, started, cancelled, responses, calls, history>>

(* The services accept the request or they do not. *)
Outcomes == BOOLEAN

PublishDataTask(f) ==
    /\ pc[f] = "publish"
    /\ \E ok \in Outcomes :
          responses' = [responses EXCEPT ![f] = Append(@, [req |-> item[f], ok |-> ok])]
    /\ GoTo(f, "answered")
    /\ UNCHANGED <<cacheVars, queue, limit, counter, item, started, cancelled, calls, history>>

(* If the flush has been cancelled, the request is queued again, even if   *)
(* it was published.                                                       *)
AfterPublish(f) ==
    /\ pc[f] = "answered"
    /\ \/ /\ cancelled[f]
          /\ interrupted' = interrupted \cup {item[f]}
          /\ GoTo(f, "requeue") /\ UNCHANGED <<counter, item, done>>
       \/ /\ ~cancelled[f]
          /\ counter' = [counter EXCEPT ![f] = @ + 1] /\ done' = done \cup {item[f]}
          /\ item' = [item EXCEPT ![f] = None]
          /\ GoTo(f, "check") /\ UNCHANGED interrupted
    /\ UNCHANGED <<cacheVars, queue, limit, started, cancelled, responses, calls,
                   raced, unstored, dropped>>

(* Queue once more; that it may refuse is ignored. *)
Requeue(f) ==
    /\ pc[f] = "requeue"
    /\ \/ PassesCheck(f) /\ GoTo(f, "store") /\ UNCHANGED dropped
       \/ ~HasRoom /\ GoTo(f, "callback") /\ dropped' = dropped \cup {item[f]} /\ UNCHANGED raced
    /\ UNCHANGED <<cacheVars, queue, limit, counter, item, started, cancelled, responses, calls,
                   unstored, interrupted, done>>

Restore(f) ==
    /\ pc[f] = "store"
    /\ Store(f, item[f])
    /\ GoTo(f, "callback")
    /\ UNCHANGED <<queue, limit, counter, item, started, cancelled, responses, calls,
                   raced, dropped, interrupted, done>>

CallUser(f) == calls' = [calls EXCEPT ![f] = @ + 1]

Callback(f) ==
    /\ pc[f] = "callback"
    /\ CallUser(f) /\ GoTo(f, "complete")
    /\ UNCHANGED <<cacheVars, queue, limit, counter, item, started, cancelled, responses, history>>

(* The callback of the TaskContext, which calls the user only if the task  *)
(* was not run.                                                            *)
Complete_Always(f) ==
    /\ pc[f] = "complete"
    /\ CallUser(f) /\ GoTo(f, "returned")
    /\ UNCHANGED <<cacheVars, queue, limit, counter, item, started, cancelled, responses, history>>
Complete(f) ==
    /\ pc[f] = "complete"
    /\ IF started[f] THEN UNCHANGED calls ELSE CallUser(f)
    /\ GoTo(f, "returned")
    /\ UNCHANGED <<cacheVars, queue, limit, counter, item, started, cancelled, responses, history>>

-----------------------------------------------------------------------------
(* The cache is full, and a Put of someone evicts an entry.                *)

ListedRequests == {data[list[i]] : i \in DOMAIN list} \ {None}

EvictRequest(u) ==
    /\ faults < MaxFaults /\ faults' = faults + 1
    /\ data[u] # None
    /\ data' = [data EXCEPT ![u] = None] /\ unstored' = unstored \cup {data[u]}
    /\ UNCHANGED <<list, queue, flushVars, raced, dropped, interrupted, done>>

EvictList ==
    /\ faults < MaxFaults /\ faults' = faults + 1
    /\ list # <<>>
    /\ list' = <<>> /\ unstored' = unstored \cup ListedRequests
    /\ UNCHANGED <<data, queue, flushVars, raced, dropped, interrupted, done>>

-----------------------------------------------------------------------------
(* The process ends, and a new one starts: calls and flushes are gone, and *)
(* so is the queue, unless the cache is on disk.  Then one of them may     *)
(* have been between the two accesses of the cache that Queue and          *)
(* PopFromQueue make.                                                      *)

Popped == {item[f] : f \in {g \in Flushes : pc[g] \in {"publish", "answered", "requeue", "store"}}}

Restart ==
    /\ faults < MaxFaults /\ faults' = faults + 1
    /\ queue' = [r \in Requests |-> IF queue[r] = "checked" THEN "gone" ELSE queue[r]]
    /\ pc' = [f \in Flushes |-> IF pc[f] \in {"new", "returned"} THEN pc[f] ELSE "gone"]
    /\ item' = [f \in Flushes |-> None]
    /\ \/ /\ list' = <<>> /\ data' = [u \in Uuids |-> None]
          /\ unstored' = unstored \cup ListedRequests /\ dropped' = dropped \cup Popped
       \/ UNCHANGED <<list, data, unstored>> /\ dropped' = dropped \cup Popped
       \/ \E r \in Requests :
             /\ queue[r] = "checked" /\ PutData(r, r)
             /\ dropped' = dropped \cup Popped /\ UNCHANGED <<list, unstored>>
       \/ \E f \in Flushes :
             /\ pc[f] = "store" /\ PutData(f, item[f])
             /\ dropped' = dropped \cup Popped /\ UNCHANGED <<list, unstored>>
       \/ /\ \E f \in Flushes : pc[f] = "pop"
          /\ list # <<>> /\ data[Head(list)] # None
          /\ data' = [data EXCEPT ![Head(list)] = None]
          /\ dropped' = dropped \cup Popped \cup {data[Head(list)]}
          /\ UNCHANGED <<list, unstored>>
    /\ UNCHANGED <<limit, counter, started, cancelled, responses, calls, raced, interrupted, done>>

-----------------------------------------------------------------------------

FlushStep(f) ==
    \/ Execute(f) \/ Check(f) \/ PopFromQueue(f) \/ PublishDataTask(f) \/ AfterPublish(f)
    \/ Requeue(f) \/ Restore(f) \/ Callback(f) \/ Complete(f)

Next ==
    \/ \E r \in Requests : Queue(r) \/ QueueStore(r)
    \/ \E f \in Flushes : Flush(f) \/ Cancel(f) \/ FlushStep(f)
    \/ EvictList \/ \E u \in Uuids : EvictRequest(u)
    \/ Restart

(* The scheduler runs the tasks, and the services answer or time out. *)
Spec == Init /\ [][Next]_vars
FairSpec == Spec /\ \A f \in Flushes : WF_vars(FlushStep(f))

-----------------------------------------------------------------------------
(* Properties *)

Stored(r) == \E i \in DOMAIN list : data[list[i]] = r
InFlight(r) == r \in Popped

(* A request that Queue has accepted is in the queue, or being published,  *)
(* or answered, whichever flushes ran and were cancelled (Queue, Flush).   *)
(* Lost are only those that the cache refused (:154, :166, unchecked) or   *)
(* let go of, entry or list (:180 and :203 only log it), those that the    *)
(* queue had no room for again (:261, unchecked), and those that a flush   *)
(* had taken out of the cache when the process ended (:198).               *)
NoSilentLoss ==
    \A r \in Requests : queue[r] = "queued" /\ r \notin unstored \cup dropped =>
        Stored(r) \/ InFlight(r) \/ r \in done

(* A request is published by one flush only, however many run at a time,   *)
(* unless a cancelled flush queued it again after it was accepted (:260).  *)
AckedOnce ==
    /\ \A r \in Requests \ interrupted :
          Cardinality({p \in Flushes \X (1..Cardinality(Requests)) :
              /\ p[2] \in DOMAIN responses[p[1]]
              /\ responses[p[1]][p[2]].req = r /\ responses[p[1]][p[2]].ok}) <= 1
    /\ \A r \in done : ~Stored(r) /\ ~InFlight(r)

(* The queue exceeds maximum_requests by no more than the number of calls  *)
(* that checked its size while another was about to store (:145, :152).    *)
QueueBounded == QueueSize + Cardinality(Checked) <= MaxRequests + Cardinality(raced)

(* "this flag is required in order to protect the user from 2 `callback`   *)
(* invocation" (StreamLayerClientImpl.cpp:232): one call, and not none.    *)
FlushCalledOnce ==
    \A f \in Flushes :
        /\ calls[f] <= 1
        /\ pc[f] = "returned" => calls[f] = 1

(* Flush calls back, whatever is queued, popped, refused or evicted by the *)
(* cache, or cancelled meanwhile: its loop ends (:249).  It is called      *)
(* once, so that this is to say that time and again no flush waits for its *)
(* answer.                                                                 *)
FlushesAnswered == \A f \in Flushes : pc[f] \in {"new", "gone"} \/ calls[f] = 1
FlushReturns == []<>FlushesAnswered
=============================================================================
