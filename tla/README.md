# A verification development for the HERE OLP SDK for C++

TLA+ models of the SDK's own logic (what runs requests, caches, authenticates,
talks to the network, reads, writes and prefetches), the TLC runs that check them
on small instances, and TLAPS proofs about the core of them. Paths below are relative
to the repository's `src/`; `core`, `auth`, `read` and `write` abbreviate
`olp-cpp-sdk-core`, `olp-cpp-sdk-authentication`, `olp-cpp-sdk-dataservice-read`
and `olp-cpp-sdk-dataservice-write`. `PROJECT.json` maps the definitions to the
lines they model, and lists runs, mutants (a plausible bug for every property,
which TLC must catch), hazards, findings and theorems.

Contents: 1 Inventory, 2 Modules, 3 Runs, 4 Bounds, 5 Fairness, 6 Proofs,
7 Where the code departs from what it promises, 8 What is not modelled, 9 Plan.

## 1 Inventory

The SDK is a library of clients for the HERE platform. An application creates
layer and catalog clients; a call on a client becomes a *task* which a scheduler
runs, and which looks in a cache and then asks a service over the network.

```
 application ──► layer client ──► PendingRequests ──► TaskContext ──► scheduler
                                                          │ runs
                  key-value cache ◄── repositories ◄── task function
                                                          │ CallApi
    token endpoint ◄── AutoRefreshingToken ◄───────── OlpClient ──► Network
```

Three kinds of threads meet in it: those of the application, the workers of the
scheduler, and the network's thread (or threads), which runs the callbacks of
requests. The write clients for versioned, volatile and index layers have no tasks:
they chain asynchronous calls on the network's thread.

### 1.1 What runs requests (core, `client/`, `thread/`)

- **TaskContext, CancellationContext, Condition.** *State*: `state_` (PENDING,
  IN_PROGRESS, COMPLETED, atomic), the function and the callback under `mutex_`;
  `is_cancelled_` and the token of the current sub-operation under the context's
  recursive mutex; `signaled_`. *Operations*: `Execute`, `BlockingCancel`,
  `CancelToken().Cancel()`, and for the function `ExecuteOrCancelled`,
  `IsCancelled`. *Hard*: Execute and BlockingCancel interleave at every step; a
  cancel comes before, while and after the function runs, or between the check of
  `is_cancelled_` and the start of a sub-operation; the notification comes before the
  state is COMPLETED, and the thread that it wakes destroys what the callback
  captured. *Correct*: function and callback run once; a successful
  BlockingCancel means that nothing is held any more; a cancel hides the result
  and ends every wait.
- **PendingRequests and the life of a client.** *State*: the set of tasks, the
  scheduler's queue. *Operations*: `Insert`, `Remove`, `CancelAll`,
  `CancelAllAndWait`, `AddTask`, the destructors. The closure that AddTask
  schedules shares the set and removes the task when it has been executed.
  *Correct*: after the client's destructor no callback runs; no finished task is
  kept; every request is answered; the destructors return.
- **ThreadPoolTaskScheduler, SyncQueue.** *State*: a queue, `closed_`, a
  condition variable, the workers. *Hard*: `notify_one` after the mutex is
  released, with no worker waiting; closing while workers wait or run tasks that
  schedule more. *Correct*: it is a first-in first-out queue with as many servers
  as workers; no wakeup is lost; the destructor returns.
- **OlpClient.** *State*: none of its own. The blocking `CallApi` shares the
  locals of `SendRequest` with the network's callback and the cancel token;
  `interest_flag` decides who may use them. The asynchronous one is a chain of
  callbacks which knows its context by a weak reference. *Hard*: answer, time-out
  and cancel race for the same locals; a refused `Send` calls back in the middle of
  `ExecuteOrCancelled`; retries, back-off and their budget. *Correct*: no use of dead
  locals, never more than `max_attempts` retries nor more than `timeout` of waits, no
  request after a cancel, one answer, the last one received.

### 1.2 Services below the clients

- **Network: curl, WinHTTP, Android, iOS** (core, `http/`). *State*: requests,
  their handles or tasks, queues of events and results; one thread, or those of
  the platform's library. *Operations*: `Send`, `Cancel`, the loop of the thread,
  the library's callbacks, the destructor; what becomes of headers and body.
  *Hard*: curl's events name a handle, not a request; completion gives up the mutex
  in the middle; Android hands a response over between two mutexes; iOS finds a
  request by an identifier that is unique in its session only; every library may
  refuse every call; destruction races everything. *Correct*: one callback for each
  request that was sent, and none lost; a cancelled one reports so; the destructor
  returns; the bytes in the stream are those of the answer that is reported.
- **AutoRefreshingToken** (auth). *State*: `current_token_`,
  `token_refresh_time_`, `token_mutex_`. *Hard*: the decision to refresh takes no
  lock, the asynchronous callback stores without it, answers come late.
  *Correct*: a token is valid for as long as its caller asked; a forced one is
  new; everybody gets an answer.
- **AuthenticationClient** (auth). *State*: two LRU caches of answers. *Operations*:
  sign-in of clients (with a first request for the time) and of users in four ways,
  sign-up, sign-out, acceptance of terms. *Hard*: answers out of order; a cancel
  between the two requests; answers from the cache when offline. *Correct*: the
  caches hold the latest answer per credentials, an answer from the cache is the
  caller's own, a cancel stops what is on its way.
- **Context** (core, `context/`). Counted scopes of any number of threads run
  registered callbacks for the first and the last; on Android they keep the Java
  machine. *Correct*: whoever has a scope has what the callbacks initialise.
- **Caches** (core, `cache/`, `utils/LruCache.h`). *State*: `LruCache`: a map whose
  buckets are linked by iterators; `InMemoryCache`: that and an index of expiry times;
  `DefaultCache`: a memory cache, a mutable and a protected database, where an item is
  *two* entries, the value and its expiry time. *Hard*: copies in three places, expiry
  at the boundary, a crash or a full disk between the two entries, a database that
  does not open now and does the next time, the cache at its limit. *Correct*: Get returns
  the last value put, not after its expiry, and until then it does, where what is put without a
  database lasts as long as the object is open; the list's order is that of use.

### 1.3 Reading (read)

- **Repositories and API look-up.** For a catalog, its version, the layer versions,
  partitions, data, quad trees and service URLs: look in the cache or ask the
  service as `FetchOption` says, store, and on a 403 evict. `ScheduleFetch` makes two
  tasks of `CacheWithUpdate`. *Hard*: several fetches share the cache; a fetch is a chain
  of fetches with the same option; version and data come from two moments. *Correct*: the
  option holds for the whole chain; an answer is of one version, the one asked for, and
  complete.
- **PrefetchTiles.** *State*: per request an outer task, one task per tile with
  promise and flag, and a collecting task which blocks a worker on the futures.
  *Hard*: collecting tasks that take all workers; a cancel at any moment of any
  task. *Correct*: every request is answered, once, with every tile unless cancelled.
- **Tiles.** `TileKey`'s arithmetic and `PrefetchTilesRepository`: which quad trees
  to ask for and which tiles of them to keep. *Hard*: the walk over ancestors
  below the least level, levels above and below the requested tile, several tiles.
- **Stream layer.** `Subscribe`, `Poll`, `Unsubscribe` over `client_context_`. *Hard*:
  each access of the shared state is locked, sequences of them are not; replies
  that get lost. *Correct*: client and service agree on subscriptions; Poll commits
  what it returns, and only what was consumed.

### 1.4 Writing (write)

- **Stream layer.** *State*: the list of queued requests and their data, which
  live in the key-value cache, by default 1 MB of memory that the look-ups share.
  `Queue`, `Flush`; `PublishData`, `PublishSdii` as tasks
  of up to seven requests. *Hard*: unchecked Puts, a cache that evicts requests or their list,
  cancels between a publication and its bookkeeping, crashes. *Correct*: a queued request is
  published once or remains queued, unless the cache, a full queue or the end of the process
  takes it; success means that all is stored; Flush calls back once.
- **Versioned, volatile and index layers.** *State*: `init_in_progress_` with its
  mutex and condition, the URLs of the services, the catalog model, the list of
  tokens (`CancellationTokenList`). *Hard*: one operation looks the services up while
  others wait on a lock that they may not own; CancelAll iterates without the lock.
  *Correct*: one initialises at a time; success means stored, metadata never without
  data; what runs can be cancelled; everything is answered.
- **Auto flush.** Interval threads, flush threads, a collection of background
  tasks, metrics. *Correct*: the metrics say what was flushed; once Disable's future
  is ready nothing flushes; what is disabled ends.

### 1.5 Documents

The generated parsers, serializers, models and APIs: what a member of an answer
becomes in an object, what the cache keeps of it, and which members, parameters and
headers a request sends. *Correct*: nothing the services said is lost, nothing is sent
that was not given, and what was given is sent.

## 2 Modules

| module | models | composed with |
|---|---|---|
| `TaskContext` | one TaskContext per task with its context and condition; every thread has a program counter | |
| `ClientTasks` | AddTask, PendingRequests, the destructors, the scheduler's queue | extends `TaskContext`: each of its steps is a step of the whole |
| `TaskQueue` | *abstract*: what a scheduler promises | |
| `ThreadPool` | the pool and SyncQueue | implements `TaskQueue` (`ImplementsTaskQueue`) |
| `BlockingCall`, `AsyncCall` | the two `CallApi` | |
| `NetworkCurl`, `NetworkWinHttp`, `NetworkAndroid`, `OLPNetworkIOS` | the four back ends | |
| `ResponsePayload` | what the four do with range headers and bodies, through retries | |
| `AutoRefreshingToken` | the shared token | |
| `AuthenticationClient` | the operations over the network and the two caches | its answers are those that `AutoRefreshingToken` gets |
| `Context` | scopes and their callbacks | |
| `LruOrder` | *abstract*: what an LRU cache promises | |
| `LruCache` | the linked map | implements `LruOrder` (`ImplementsOrder`) |
| `InMemoryCache` | expiry index over an LRU order | used by `DefaultCache` |
| `DefaultCache` | memory, mutable and protected caches | extends `InMemoryCache` |
| `JsonDocument`, `ReadDocuments`, `WriteDocuments`, `AuthenticationDocuments` | members of documents; parsers, serializers, requests of the three libraries, as functions from members to values | |
| `Documents` | the way of a document through a client, its cache or its queue | uses the four above |
| `TileKey`, `TilePath` | keys as numbers; the path that a key stands for | `TilePath` states what `TileKey` promises |
| `PrefetchTilesRepository` | which quad trees are asked for, which tiles kept | extends `TileKey` |
| `ReadRepository` | the repositories, their fetch options, the shared cache | |
| `PrefetchTiles` | tasks of prefetches on a pool | uses TaskContext by what it promises |
| `StreamSubscription` | Subscribe, Poll, Unsubscribe | |
| `StreamQueue`, `StreamPublication` | Queue and Flush over a cache that refuses and evicts, with crashes; the requests of a publication | |
| `WriteClient` | initialisation, operations and token list of three clients | |
| `AutoFlushController` | Enable, Disable, interval and flush threads, metrics | |
| `ClientTasksProofs`, `ClientProofs`, `DefaultCacheProofs`, `ServicesProofs`, `WriteClientProofs`, `StreamWriteProofs`, `SubscriptionProofs`, `ReadProofs` | theorems, section 6 | extend the module they are about, or the MC module that composes several: then the theorems are also about what a run checks |
| `MC...` | instances for TLC | extend or instantiate the above |

How state and actions correspond to the code:

- A variable has the name of the member or local it stands for, with a comment;
  variables marked *history* are not in the code and are read by properties only
  (`delivered`, `ran`, `latest`, ...).
- An action is what the code does between two points where another thread can
  interfere: one critical section, one atomic operation, one call of user code or of a
  library. Threads inside a function have a program counter (`pc`, `at`, `worker`)
  whose labels name the next such step. Purely sequential classes (`LruCache`,
  `InMemoryCache`, each under its user's lock) have one step per operation.
- Names ending in `_Something` (`MayExecute_NotExchanged`, `WakeOne_Lost`) are
  the mutants: variants of the definition that follows, each with a bug that a
  run must find. No specification uses them.
- Data is abstract: a response is a status, a value is one of three, a token is
  its life time and when it was issued, an offset is a number, a byte of a body is its
  place in the body of one answer. A document is a function from member names to
  values; what is not there is not in its domain.

What uses what: `ClientTasks` runs its tasks on `TaskQueue`'s queue, which
`ThreadPool` is shown to implement. `DefaultCache` uses an LRU order, which
`LruCache` is shown to implement. The task functions of `TaskContext` wait for
sub-operations as `BlockingCall` does, whose promises to them (a cancelled call
ends, it ends after finitely many attempts) are checked there. `PrefetchTiles` and
`ReadRepository` take a task as what `TaskContext` shows of it: one callback, an error
after a cancel. `WriteClient` and `StreamPublication` take a request as what `CallApi`
promises: one answer, cancelled or not.

## 3 Runs

| run | question | properties |
|---|---|---|
| `task_context` | Three threads execute, cancel and wait for one task in every order. | `TypeOK`, `CallbackExactlyOnce`, `TrueMeansReleased`, `CancelHidesResult`, `CancelUnblocks` |
| `client` | A client with two requests, its destructor and scheduler; the pool; a call of either `CallApi` with up to three retries. | `Consistent`, `QuietAfterDestructor`, `BlockingCallExact`, `AsyncCancelExact`, `NoneSendsAfterCancel`, `ImplementsTaskQueue`, `Progress` |
| `services` | The four network back ends, what they do with a body, the authentication library, the context. | `Consistent`, `FreshOrNew`, `CacheExact`, `CancelStops`, `AnsweredOnce`, `CancelReported`, `Answers` |
| `data` | The caches through opens, closes, restarts, crashes, full disks, times without the database and expiry; LruCache against LruOrder; documents; tiles and their keys. | `Consistent`, `ServedIsCurrent`, `NeverServesExpired`, `PutIsFound`, `LruImplementsOrder`, `DocumentsExact`, `PrefetchedExact`, `TileKeysExact` |
| `read` | Two prefetches hold both workers with their collecting tasks; three overlapping Subscribe, Poll, Unsubscribe; two fetches of a catalog, versioned or volatile client. | `Consistent`, `PrefetchExact`, `SubscriptionExact`, `FetchOptionKept`, `VersionKept`, `Answered` |
| `write` | Two flushes publish a full queue over a cache that refuses or evicts an entry, or with a crash; two operations of a versioned, volatile or index client and a CancelAll, or three operations that wait for one another; automatic flushes; publications. | `Consistent`, `PublishedOnce`, `OneInitialiser`, `OkMeansStored`, `CancelAllReaches`, `DisabledEnds`, `ClientsAnswer` |
| `cache_default_expiry` | Does a value without expiry time last? *Violated*, section 7. | `DefaultNeverExpires` |
| `prefetch_callback_once` | Is a user who cancels called once? *Violated*. | `UserCalledOnce` |
| `network_stale_event` | Does an event end only the request it is for? *Violated*. | `AnsweredForItself` |
| `auth_sign_out` | Does a sign-out forget the user's token? *Violated*. | `SignedOutForgotten` |
| `prefetch_level_zero` | Does the walk over the ancestors end from level zero? *Violated*. | `WalkEnds` |
| `queued_request` | Is a queued request published as it was given? *Violated*. | `SentAsGiven` |

**Sums.** A run other than `task_context` checks several components that share no
state: a variable (`part`, `service`, `client`, `class`), chosen in the
initial state, says which of them a behaviour is about, and the others stand still in
one initial state. A run so checks just what separate runs would, and its properties are
the conjunctions, under one name, of the properties that the components' modules state
and explain: for instance `Consistent` of `services` has the types of all its components and
`AnsweredOnce` of three of the four back ends, and `Progress`, `Answers`, `Answered` and
`ClientsAnswer` are everything that must end. The properties of the component that an MC
module extends are checked by their own names: `AnsweredOnce` and `CancelReported` of
`services` are those of `NetworkCurl`. What is composed, rather
than summed, is what the table of section 2 says.

What the passing runs show, in the order of the inventory: a task is executed once and
ends quietly whatever interleaves; a client can be destroyed at any moment; calls
neither touch dead memory nor exceed their budget nor go on after a cancel; whatever
a platform's library refuses, requests are called back once; tokens, cached answers
and cached values are current; a read answers from what its option allows, whole
and of one version; a write is told the truth about what is stored; and each of them
comes to its end under the fairness of section 5.

**Violations** are the places where the code disagrees with its documentation;
TLC's counterexample is the scenario.

## 4 Bounds

- `task_context` (21 000 distinct states): one task, because tasks share nothing
  but the threads that work on them; three threads, so that two executors race a third
  that cancels, or an executor races two BlockingCancel.
- `client` (260 000): two tasks, so that one can be added by the other, and two users, so
  that one adds or cancels while the other destroys; one worker, so that tasks queue
  behind a blocked one. Pool: two workers and two other threads are the fewest for a
  notification to reach the wrong worker or none; four items keep both busy and two
  queued. Calls: `MaxAttempts = 3`, `RetryTimeout = 5`, `Periods = {1, 4}`: sums of the
  periods that stay below, meet and pass the time-out.
- `services` (130 000): two requests for one handle or two tasks, so that one is sent while
  the other is completed, cancelled or destroyed; one retry. Bodies of two bytes and
  three attempts, so that a longer body precedes a shorter one and a chunk follows a
  chunk. Token: two callers, two calls, tokens that live two ticks. Authentication: three
  calls, in four programs that make the caches overflow, repeat credentials, sign out between sign-ins
  and mix clients and users. Three scopes, two of a machine, two pairs of callbacks.
- `data` (119 000): two keys that share a prefix, three values of which one is too big for
  the memory cache, room for one in memory so that every second Put evicts; a clock
  of three instants passes an expiry time of one; at most two values may be doubtful
  for a key after failed Puts (`MaxDoubt`). Two cuts keep the caches small (`SomeOperations`): with the deprecated
  `disk_path`, by which the database opens again in the same object, the clock stands still, and without a
  database only the first key is put, with one value, since nothing of that time reaches
  the disk; `DefaultCacheProofs` needs neither. LruCache: four keys, costs 1, 2, 4 and
  limits 0, 3, 5, so that an insertion evicts none, one or several items or does
  not fit, and buckets are unlinked at the ends and in the middle. Documents: of
  every answer the service leaves out no member, one, or all but at most one; of
  every request the application gives any set of fields. Tiles: levels 0 to 3, one tile above, between and below the
  levels and two tiles of which one lies below the other; quad trees of depth 1 instead
  of 4 (`MaxDepth`), so that a request spans several.
- `read` (736 000): as many prefetches as workers, so that collecting tasks could hold
  all of them; two tiles, so that one may be there and the other not; one cancel. Two
  partitions with two messages and three calls of a stream, so that polls overlap a
  subscription or each other. Two fetches, two partitions, two versions, so that a
  version is published in between; one entry that expires or is evicted, of the clients whose
  chains are short. Three cuts lose nothing but copies: the second prefetch has fewer tiles
  than the first may have (`MCNext`), since what the two tiles of a request do to each other the
  first one shows; the first call of the stream that begins has the first name (`SubscribeFirst`),
  since calls differ in name only; and the clients of the repositories have an instance each, so
  that fetches only meet fetches with which they share entries of the cache.
- `write` (388 000): room for one of two queued requests, so that the queue is full, and
  one fault of the cache: a refused Put, an eviction or a restart; two operations of which one finds the other initialising, and, without
  cancels, three, so that a third begins to look the services up while the second comes back from
  waiting for the first; two services to look up, statuses on each side of every comparison the operations make; two
  automatic flushes; two publications of different kinds. Five cuts: the requests of the queue differ in name only,
  so that the first comes first, and of its flushes the one that publishes everything may be cancelled (`InOrder`);
  an operation is cancelled by its own token or by CancelAll, not by both (`OneWayToCancel`), since the later of
  the two finds nothing left to cancel; CancelAll, the same in every client, comes in two of the six pairs of
  operations (`CancelAllAmong`); two automatic flushes of one object differ in number only, so that the first is
  done first, and there Disable comes between Enable and the last notification (`OneObject`): the instance with two
  calls of Enable has every order. The theorems of `WriteClientProofs` and `StreamWriteProofs` need none of the cuts.

`MaxCalls`, `MaxTime`, `MaxCancels`, `MaxFaults`, `MaxDoubt`, `MaxOffset`, `MaxBody`,
`MaxVersion`, `MaxUpdates`, `MaxLost`, `MaxAutoFlushes` and `MaxOperations` are the bounds
that the code does not have; they appear in guards or in sets that are quantified over. Deadlock is checked
in `task_context`; in the other runs the system may really stop (all calls made, the
client destroyed, the clock at its end). `SomeKinds`, `SomePrograms` and `SomeContents`
choose pairs of operations that share a request or state; each operation occurs in one.

## 5 Fairness

- *A thread inside the library is scheduled* (weak fairness of its next step): in all
  modules with threads. It is what an operating system gives to a runnable thread.
  The application never has to call, cancel or destroy.
- *The network* is not assumed to answer where the property is that a cancel
  unblocks (`CancelUnblocks`, the destructors of `ClientTasks`). It is where the
  property needs it: `EveryRequestAnswered` of `ClientTasks` states it as its
  hypothesis (a sub-operation times out at the latest after `retry_settings.timeout`, and a
  function makes a bounded number of requests); `NetworkCurl` because curl ends each
  transfer after `CURLOPT_TIMEOUT` (strong fairness, since a retry takes a transfer off
  and puts it back); `NetworkWinHttp` because WinHTTP ends every operation by its timeout and
  there is not always more to read (strong fairness of the end of a body); `NetworkAndroid`
  because connections end by their timeouts and tasks share the threads of a pool (strong
  fairness of a task's step);
  `WriteClient`, `StreamPublication` and `ReadRepository` because `CallApi` answers, which
  is `Progress` of the run `client`.
- *Mutexes*: `AutoRefreshingToken` takes steps of a caller with strong fairness:
  `token_mutex_` is handed over to a waiting thread eventually, which `std::mutex` does
  in practice and no standard guarantees.
- Tasks given to the pool end (`WF_vars(TaskEnds(w))`), without which no pool could
  join; `ClientTasks` has this from the task itself.

In a sum a behaviour is about one component, and the sum is fair to the disjunction of what the
components are fair to. Where one component has several threads, their steps come to an end (every
call makes finitely many), so that fairness to one or another of them will do in the place of one
condition each; every component's module states its own.

## 6 Proofs

Eight modules prove the sixty theorems listed in `PROJECT.json`, and their lemmas, for every value of the constants. A theorem
confirms for every instance what the runs show of one; the inductive invariants were
checked with TLC before they were proved. Each proof has the same shape: an inductive
invariant made of named parts, one lemma for each part with one step for each action that can
disturb it, and theorems that follow from the invariant.

**`ClientTasksProofs`, part one: the tasks** (from `TaskAssumption`: `NoTask` is not a task, tasks
without a callback are tasks).

- `TypeCorrect`: `TypeOK` always holds. It is inductive; the lemma `TypeStep` goes
  through every action. What it says beyond types, that a thread is at `idle`
  exactly if it works on no task, is what makes `arg[th]` a task in each action
  (lemma `Busy`).
- `OnceOnly`: `CallbackExactlyOnce` always holds. It is not inductive: that a
  callback was invoked at most once does not say who may still invoke it. `OnceInv`
  says where the callback is at any time: in the task while it is PENDING or its
  one executor is about to move it, in the executor's locals (`Holding`), and spent
  after that (`After`, COMPLETED). There is one executor since ExecuteCas needs
  PENDING and each executor's task is IN_PROGRESS.
- `ReleasedBeforeTrue`: `TrueMeansReleased` always holds. `Released(t)` says that
  function and callback are gone from the task and that its executor, if any, is past
  the release; a released task stays so (`ReleasedStable`), because nobody becomes an
  executor any more. `ReleasedInv` says that whatever claims the end of a task (the
  notification, COMPLETED, a `true` that was returned) claims it of a released one.
  Only ExecuteNotify and ExecuteStore make the first claim (`UnclaimedStable`), where
  `OnceInv` and `HoldInv` show the task released.
- `CancelHonoured`: `CancelHidesResult` always holds. `HiddenInv` adds to it what is on
  the way to the callback: the response in the executor's local at each of its
  steps, by what the task was doing when it was cancelled (`CancelEffect`).

**`ClientProofs`, part one: the pool** (from `PoolAssumption`: there are finitely many workers and
clients, at least one worker, and they differ). The module is about everything the run `client`
composes.

- `PoolIsQueue`: every step of the pool is a step of `TaskQueue` or a stutter: tasks
  start first in, first out, each once, and no more run than there are workers. This is
  the safety part of `ImplementsTaskQueue`. `PoolInv` says that a worker holds one task
  exactly while it runs or notifies, and that a task is queued once or run by one
  worker; `RoomToStart` counts that a worker about to take a task leaves fewer
  running than there are workers.
- `NoWakeupLost`: while a worker waits, there are at least as many workers on their way
  to the queue (`Coming`) and notifications on their way (`Telling`) as tasks in it
  (`WorkConserving`), in spite of `notify_one` coming after the unlock. The lemma
  `WakeupStep` counts both sets through every step.
- `PoolTypesHold`: `TypeOK`.

**`ClientProofs`, part two: the blocking call** (from `CallAssumption`: attempts, time-out and periods are
natural numbers; nothing is assumed of the condition for retries).

- `LocalsAreLive`: `OnlyLiveLocals` always holds; `TypesCorrect`: `TypeOK`. That the locals used so
  far were alive says nothing of the next use. `LocalsInv` adds that callback, token and caller do
  not hold `interest_flag` together, that who is signaled has no other user left (`OneInterested`),
  that all that still leads to the locals of an attempt finds them alive or is one of the two
  exempt cases (`UsersFindLocals`), and that attempts come one after the other (`InOrder`).
- `AnswerIsTheLast`: `LastAnswerReturned` always holds, by `AnswerTrue`: an answer of the server is
  only in the locals of an attempt that the network is done with, so that nothing overwrites it
  once it is returned.
- `BudgetKept`: `RetryBudget` always holds; the time slept never passes `accumulated_wait_time`, which
  starts at the first period and not at zero.
- `CancelledSendsNothing`: the action property `NoSendAfterCancel`.
- `CallIsExact`: `BlockingCallExact`, the conjunction that the run checks, from the theorems above.

**`ClientProofs`, part three: the asynchronous call** (from `AsyncAssumption`: the same settings).

- `CallInductive`: `TypeOK` and `CallInv`: the chain answers the application once, as its last deed,
  and sleeps no longer than it is given (`WithinBudget`); it is inside the callback of a failed Send
  only while it evaluates, sleeps or sends, and inside no more of them than it has made attempts
  (`Nesting`); the request on its way, if no failed attempt is around it, is the one whose token the
  context holds, until a cancel takes the token (`Registered`); "cancelled" is said after a cancel only
  (`Honest`); and CallApi's hold of the context is dropped once (`Owned`).
- `AsyncBudgetKept`: `RetryBudget`; `AsyncCancelIsExact`: `AsyncCancelExact`, the property of the run
  `client`: a cancel reaches the request on its way, and nobody is told of a cancel that was not.
- `AsyncCancelledSendsNothing`: the action property `NoSendAfterCancel`.

**`ClientProofs`, part four: the run** `client` for every value of its constants. `RunOfAll`: a behaviour
of the sum is a behaviour of the component it is about, and the others stand still, so that each
component's theorems hold in it. From this `RunConsistent` (`Consistent`), `RunBlockingExact`
(`BlockingCallExact`), `RunAsyncExact` (`AsyncCancelExact`) and `RunNoneSends` (the action property
`NoneSendsAfterCancel`).

**`ClientTasksProofs`, part two: the client** (from `TaskAssumption` and `ClientAssumption`: the threads are the users
and the workers).

- `ClientImplementsTasks`: every behaviour of `ClientTasks` is one of `TaskContext`: AddTask, its
  closure, CancelAll and CancelAllAndWait call only what any thread may call at any time. The theorems of
  part one therefore hold of the requests of a client, however it uses them.
- `NothingLeaks`: `ClientTypeOK` and `NoLeak`: PendingRequests holds on to no finished request.
- `QuietAfterwards`: `QuietAfterDestructor`: once the destructor has returned, every callback was
  invoked and nobody holds a function or a callback of a request, save the exempt cases of section 7. It
  needs `ClientInv`, which says what each user and worker is doing with which task (`Roles`,
  `Calls`, `Adding`, `NoScheduler`), that a task is in one place from AddTask until its end: with the user
  who adds it, in the queue or with one worker (`OnePlace`, `NotStarted`), that one user destroys
  (`OneDestructor`), and that what the destructor found pending stays with it until it is waited
  for (`AllKept`). `HoldInv` of part one then says that a finished task has let go of its
  callback.

**`ServicesProofs`, part one: the curl network** (from `NetworkAssumption`: there is a handle, retries and
cancels are bounded, `Nobody` is neither a request nor a handle). The module is about what the run
`services` composes, by `ServicesAssumption`, the conjunction of the components' own.

- `NetworkInductive`: `TypeOK` and `NetworkInv`. `Owners` says that a handle in use belongs to the
  one request that took it, and that nobody else leads to it; `WorkerKnows` relates what the worker has
  read to the handle it works on; `Life` says in which states of the back end there is a worker and
  what is left when it has ended; `OnceInv` says for every request who still has to call it back: its handle, the
  worker that has taken it off, the loop of the teardown, or nobody; `HonouredInv` does the same for what
  Cancel has marked. The lemma `PlainStep` covers the steps that change nothing of that.
- `AtMostOneAnswer`: `AnsweredOnce`; `NoRequestLost`: `NothingLost`; `CancelsHonoured`:
  `CancelReported`, for any number of requests and handles, with stale events, retries, refused attempts and a
  teardown in between.

**`ServicesProofs`, part two: the token** (from `TokenAssumption`: life times are positive numbers).

- `TokenInductive`: `TypeOK` and `TokenInv`. `Asked` says that a call on its way is known with the validity
  that it wants; `RefreshInTime` that the stored token is refreshed before it becomes too short for
  its callers, or that its refresh time is still to be computed; `FreshInv` and `NewInv` what follows for each
  token that a call has in its hands: the stored one it is about to read, the answer on the way to
  its callback, what it has returned.
- `TokensAreFresh`, and `TokenRun` for the run: `FreshOrNew`, for any number of callers that block or do not.
- The proof found a window: the token is stored before its refresh time is computed, without
  the lock (`AutoRefreshingToken.cpp:127`), and a GetToken in between decides by the old time. `lag`
  covers it (section 7), and the theorem says that nothing else is needed.

**`ServicesProofs`, part three: the authentication client** (from `AuthenticationAssumption`: a program is a
kind and credentials for each call, `None` is no call).

- `AuthInductive`: `TypeOK` and `AuthInv`. `Ordered` says that each cache is the first part, as long as
  its limit allows, of the list of all calls that it would hold without one (`recent`), which has each
  credentials once; a limit commutes with moving an answer to the front (lemma `FrontOfTrim`), so that what a
  look-up misses or finds is the same. `FromOwn` says whose an answer from a cache is, and `Reached` where a
  cancel finds a call: its second request is on its way under the call's token, or was never sent.
- `AuthenticationSafe`: `CacheExact` and `CancelStops`; `AuthRunCache` and `AuthRunCancel` for the run.

**`WriteClientProofs`** (from `WriteClientAssumption`: there is a service to look up, and
one status is negative, as "offline" is).

- `WriteInductive`: `TypeOK` and `WriteInv`: `OpsInv` says of each operation where it can be
  (`Placed`) and what it has done by then (`Kept`); `Tokens` that an iterator of CancelAll and the list
  of tokens belong together, `Cancellable` that what runs is in that list; and `OneInitialiser`.
  The lemmas go through the operations by what a step may change (`Moves`), so that each part needs one
  argument and not one for each of the operations.
- `OneLooksUp`: `OneInitialiser`; `DoneMeansStored`: `OkMeansStored`; `AllReached`:
  `CancelAllReaches`, for any number of operations of any kinds.
- The proof found that "one operation looks the services up at a time" is false from three operations
  on: a waiter whose predecessor failed comes back and begins, although a third operation has begun
  meanwhile (`VersionedLayerClientImpl.cpp:68`). `OneInitialiser` now exempts that case (`overtaken`),
  the run has an instance with three operations, and the theorem says that it is the only one.

**`WriteClientProofs`, the run.** The clients of the run `write` share no state. `RunSteps` says that each of its
steps is one of each client, or none; the lemmas `...Same` that what the run instantiates is what
`StreamWriteProofs` declares, with the constants of the run. So the theorems about the clients become those
about the run:

- `RunPublishedOnce`: `PublishedOnce`; `RunDisabledEnds`: the action property `DisabledEnds`;
  `RunConsistent`: `Consistent`. With the three above, every safety property of the run is proved.

**`StreamWriteProofs`, part one: the automatic flushes** (from `AutoFlushAssumption`: bounds are numbers,
and the calls of Enable and the threads of intervals are finitely many).

- `FlushesInductive`: `TypeOK` and `FlushInv`, of which `MetricsExact` and `QuietAfterDisable` are parts.
  `Stages` says that a flush belongs to nobody before it is announced and is a background task exactly while the
  client owes it an answer; `CancelledGone` that what is cancelled is no longer in `impl_` and nobody will put it
  there, since Enable stores an object of its own.
- `QuietAfterDisable` follows since a flush of the disabled object that is no background task has called back or
  has not yet become one, and then is among the `late`.
- `MetricsExact` speaks of sums over the flushes that are done. The library folds over a set in whatever order
  CHOOSE gives. `SumUnfolds` shows that there is a function that computes the sums of all subsets, and `SumAdds`
  that the order does not matter: each by a least set that would be a counterexample
  (`WFMin` of the library, for the finite subsets of a finite set), where induction would need an operator as a
  parameter.
- `DisabledStops`: `CancelledEnds`. A thread that starts a flush of a cancelled object was counted by `Committed`
  before, and is not afterwards (`FewerSum`).

**`StreamWriteProofs`, part two: the queue** (from `StreamQueueAssumption`: `num_requests` are integers, the
requests are finitely many and named apart from the flushes).

- `QueueInductive`: `TypeOK` and `QueueInv`. An entry of the cache is written once, by the call whose
  uuid it is (`WrittenOnce`); a request is with its Queue, in one entry, with one flush or answered
  (`OnePlace`), and what Queue has accepted is in one of these places unless one of the exempt ways has lost
  it (`NothingLost`: a refused Put, an eviction of the request or of the list, and those who name them in
  `unstored` or `dropped`); the one answer to a request ends its other places (`AnsweredOnce`); `exec_started` tells
  whether Flush or its TaskContext calls back (`CalledOnce`); the counter of a flush stays below its limit
  while it goes on (`QueueCounted`); and `raced` holds those who stored after a check that another's had made
  out of date (`Raced`).
- `AcceptedIsKept`: `NoSilentLoss`; `PublishedByOne`: `AckedOnce`; `LimitKept`: `QueueBounded`;
  `FlushAnsweredOnce`: `FlushCalledOnce`, for any number of concurrent calls, failed Puts, evictions and restarts.

**`StreamWriteProofs`, part three: the publications** (from what is published being large or small data, or a
list).

- `PublicationTrue`: `ToldWhatIsPublished`, from `PublicationInv`: what a task has sent is the first part
  of the requests of its content without the look-ups, whichever URLs were in the cache (`Sent`, `Publishes`),
  and of them only the last one makes anything visible (`LastShows`).

**`DefaultCacheProofs`** (from `MemoryAssumption` and `DefaultCacheAssumption`: life
times are positive or "never", the clock stays below "never", and no value looks like an
expiry time).

- `Current`, `Unexpired`, `Found`: `ServedIsCurrent`, `NeverServesExpired`, `PutIsFound`
  always hold; `CacheTypes`: `TypeOK`.
- They are properties of what a Get *would* return and follow from `CacheInv`, which relates
  the three places to what was put: what memory holds is protected or the latest value
  with no later expiry (`MemoryCurrent`), where the latest value is what was put since the opening
  (`unsaved`) as long as there is no database, and what was put into the database (`latest`)
  otherwise (`Owed`); what the disk holds is one of the latest
  values, with its own expiry unless a Put of it was torn (`DiskCurrent`, `sure`); what was put
  successfully and is not expired is on the disk (`DiskFound`). The latter two speak of the disk
  whether or not it is open, so that they hold of what the next object finds; and memory is empty after each
  opening (`MemoryReset`), so that nothing is carried from the one time into the other. The operations of the
  memory cache but Put only take items away (`LeftOf`, lemmas `...Leaves`), so that
  evictions, purges and removals need one argument; the lemmas `...Keeps` go through the
  operations, `CacheStep` combines them.

**`SubscriptionProofs`** (from `StreamSubscriptionAssumption`: `None` is no call, offsets are numbers).

- `StreamInductive`: `TypeOK` and `StreamInv`, whose two parts follow two things. `SubscribeInv` follows the
  subscription that a task has copied of `client_context_` before its next step: it is that of a Subscribe that
  has ended (`Copied`), a Subscribe that meets no other finds no context up to its end (`Alone`), an
  Unsubscribe resets what it has deleted (`ResetsOwn`), and no two reset the same (`DeletedOnce`).
  `PollInv` follows the messages: they come in the order of their offsets and lie below the position that the service
  has read to (`Consumed`); unless polls ran together they lie above what is committed until
  they are committed (`CommittedInOrder`); and what lies below the position is with the user, with a task, or
  dropped with a poll that failed (`NothingMissed`).
- `RunSubscriptionExact`: `SubscriptionExact`, what the run checks.
- The proof found that `NoOrphan` was stated too strongly. It exempted the subscription that is overwritten by a
  second Subscribe at once; but the first one's Unsubscribe, if it is late, resets the context of
  whichever Subscribe came *later* (`read/src/StreamLayerClientImpl.cpp:212`), and leaves that one's subscription
  behind too. It takes five calls, which TLC confirms; the run has three. `NoOrphan` now claims nothing
  once Subscribes ran together (`SubscribesApart`), and the theorem says that this is the only case besides lost replies.

**`ReadProofs`, part one: the prefetch** (from `PrefetchAssumption`: finitely many requests, each of at
least one tile and with a bounded number of cancels).

- `PrefetchInductive`: `TypeOK` and `PrefetchInv`. `OnePlace` says that a task is once in the queue or with one
  worker; `OwnSteps` that a worker is at a step of its own task; `TilePromise` who may still set the promise of a
  tile: the function of its task or, if that did not, its callback; `OuterTask` that no collecting task
  exists before all tiles were added; `Told` and `Collected` what the user and the collecting task
  know, of a request that is not cancelled.
- `PrefetchSafe`: `PromiseSetOnce`, `CompleteResult`, `CalledOnceUnlessCancelled`; `RunPrefetchExact` for the run.

**`ReadProofs`, part two: the repositories** (from `ReadRepositoryAssumption`: there is a version, and
the partitions are finitely many).

- `RepositoryInv` has one part for the tasks and one for the cache. `TaskGood` says of each task what is
  left of its chain (`OnChain`), what it may have done by its option (`OptionGood`), what an answer not
  yet stored may be (`AnswerGood`), that all it has gathered is of one version (`VersionGood`), and,
  while no entry was lost and no service refused, that nothing of it is missing (`WholeGood`). `CacheGood` says that under each
  key there is what belongs there, by whomever it was stored, and of a list all members.
- A step of a task is followed by what it does to this task, to the cache and to the others, who only see a
  cache with more in it, or a later latest version. The three instances of the run differ in which
  requests there are and not in the steps, which are proved equal and handled once.
- `RunFetchOptionKept`, `RunVersionKept`: `FetchOptionKept` and `VersionKept` of the run; `RunConsistent`:
  its `Consistent`, with the types of all its clients, so that every invariant of the run `read` is proved for
  every value of its constants.

Model-checked only: liveness and everything that depends on ENABLED (`CancelUnblocks`,
`Progress`, `Answers`, `Answered`, the fairness part of `ImplementsTaskQueue`); what recursive
functions and folds compute (`Walk` in `LruCache`, `Total` in `LruOrder`, the walks
of `TileKey` and `PrefetchTilesRepository`), which needs induction over data (but for the sums of
`AutoFlushController`, above); the refinement of `LruOrder` by `LruCache`; and, until the plan gets there, the safety of the
other modules: the documents, tiles and bodies, the context, and the back ends of Windows, Android and iOS
(and with them `Consistent` of the runs `data` and `services`).

## 7 Where the code departs from what it promises

Six disagreements have a run with a counterexample:

1. `cache_default_expiry`: "By default, the key-value pair has no expiry time"
   (`core/include/olp/core/cache/KeyValueCache.h:46`). A Put without expiry writes no
   expiry entry and leaves that of an earlier Put on disk (`DefaultCache.cpp:175`); once the
   memory item is evicted, the value expires at the earlier time.
2. `prefetch_callback_once`: a prefetch that is cancelled after its loop has added the
   collecting task calls the user twice (`VersionedLayerClientImpl.cpp:305`), although the
   outer task is meant to report errors only in place of the inner one; the
   future-based overload sets its promise twice.
3. `network_stale_event`: a cancel event that is read when its handle already serves
   another request ends that request (`NetworkCurl.cpp:1003`) with a time-out status
   that its transfer did not have.
4. `auth_sign_out`: "deletes any locally stored tokens" (`AuthenticationClient.h:535`);
   SignOut does not touch the cache of users' tokens, and an offline sign-in is
   answered from it.
5. `prefetch_level_zero`: with the default least level of 0, the walk over the ancestors
   of a tile goes on from the invalid key above the root (`PrefetchTilesRepository.cpp:85`)
   and never ends.
6. `queued_request`: a request that `Queue` wrote to the disk comes back with an empty trace ID,
   billing tag and checksum that nobody gave and that are sent, and with its data cut at the first
   zero byte (`PublishDataRequestParser.cpp:33`).

The following were met while modelling. Unless said otherwise the models do what the
code does, and the properties exempt precisely these cases, each by a history variable or a
condition with a comment.

*Running requests*

- `PendingRequests.cpp:51`: CancelAllAndWait misses tasks that a running task adds
  meanwhile (`spawned`). `Condition.h:67`: Wait consumes the notification, so that of two
  BlockingCancel of one task only one is woken and the other waits for its time-out.
- `OlpClient.cpp:164`: an answer that enters the callback while the wait times out uses
  locals that may be gone; `:145`: so does the cancel token of a refused Send, which stays
  registered (`lapsed`). `:94`: the token of a retry sent from inside a refused attempt is
  overwritten by an empty one (`nested`). `:300`: an expired context is taken for a cancelled
  call (`dropped`). `:279`: the back-off after a refused Send sleeps with the context's mutex
  held, so that a cancel waits for it.

*Network*

- Curl, `NetworkCurl.cpp:577`: a Send that fails after it took its handle leaves the handle in
  use and is called back later in spite of its failure ("broken"); `:989`: a stale send event adds a
  handle early or twice. `std::stoi` of a malformed `max-age` throws inside libcurl's
  callback (`:824`; not modelled).
- Bodies (`ResponsePayload`): the stream is not cut when a back end sends a request again
  on its own. After a 5xx answer with a longer body (curl, `NetworkCurl.cpp:943`) or a time-out in
  the middle of one (Android, `HttpClient.java:431`), the rest of it stays in the
  stream behind the body that is reported; `StreamExact` says so. The data callback of WinHTTP is told
  offset 0 for every chunk (`NetworkWinHttp.cpp:845`), that of iOS never knows the
  range (`OLPNetworkIOS.mm:231`); the WinHTTP and Android back ends read `bytes */n` as an
  offset n or 0.
- WinHTTP: `NetworkWinHttp.cpp:400`: after a refused WinHttpOpenRequest the destructor waits for a
  handle that nobody gives back; `:754`, `:918`: a request is never called back if the query for
  data fails after the headers, or if the session closes just after its result was taken
  (`dropped`); requests that fail keep their handle until the destructor.
- Android: `NetworkAndroid.cpp:409`: two first calls at once start the thread twice, which
  terminates the process; `:464`: a response between the two mutexes at the shutdown is lost
  (`dropped`); a request that was reset for a retry cannot be cancelled any more; after the shutdown
  has cleared `nativePtr` the wait of two seconds always runs in full.
- iOS: `OLPHttpClient.mm:437`: identifiers of data tasks are unique in their session only; with two
  proxied requests one answer reaches the other request's callback. The run has no proxied
  requests (`Proxied = {}`); with two, its `AnsweredOnce` and `Answers` fail. `OLPNetworkIOS.mm:309`: a
  Send whose `run` fails leaves its task in the map, and is called back at the shutdown.

*Authentication and context*

- `AutoRefreshingToken.cpp:111`: the refresh time uses the `minimum_validity` of whoever
  refreshed last (`demands`); a cached answer's life counts from when it is read, and between storing a
  token (`:127`) and computing its refresh time GetToken decides by the old one (`lag` for both);
  `:92`: a blocking call on the network's thread waits for itself; `:91`: a failed refresh
  replaces a valid token.
- `AuthenticationClient.cpp:380`: if the request for the time is refused, the token of the call
  is lost (`nested`); `:348`: invalid answers with status 200 are cached; tokens of users are
  cached under the credentials of the application; an answer from the cache calls back with
  the cache's lock held. `:791`: a negative life time is cast to unsigned and asked for;
  `BaseResult.cpp:68`: an error message without a full stop is dropped if there are field errors.
- `Context.cpp:91`: callbacks registered while there are scopes are told of their end
  only; a scope made or unmade in a callback deadlocks; `:123`: `context` is deleted and
  not cleared; a first scope without a machine leaves later ones without one.

*Caches*

- `InMemoryCache.cpp:57`: an item put over another is not registered for expiry; `:142`:
  eviction erases from a copy of the index. `DefaultCache.cpp:347`: at the expiry time itself,
  memory still serves an item and disk does not; `:176`: a crash or a full disk tears the two
  entries of an item (`sure`); `:337`: the protected cache beats a newer value; `:120`: a failed
  Clear leaves a closed database; `:311`: after a failed Open the object
  works in memory only, without telling Put or Remove; the next object, or with the deprecated `disk_path` the next
  Open, has the path again, and serves what the database held before, also what was overwritten or removed
  meanwhile (`Owed` in `ServedIsCurrent`); `:167`: a Put
  with zero life time keeps the old value in memory, which `MemoryAssumption` excludes.

*Reading*

- `PartitionsCacheRepository.cpp:101`: a list of partitions whose entries were evicted
  one by one comes back partial (`lost`); a service URL lives an hour after it became stale; versions may be
  stored out of order; a fetch on its way stores after a Clear; data of volatile layers never expire
  (`PartitionsRepository.cpp:222`); ClearPartitions needs cached metadata; removing a prefix
  removes longer names. The headers promise `ErrorCode::InvalidRequest`
  (`VersionedLayerClient.h:125`, `VolatileLayerClient.h:148`) where the code gives
  `PreconditionFailed`.
- `PrefetchTilesRepository`: overlapping requested tiles return some tiles twice; the "minimal set"
  of quad trees is not minimal (`VersionedLayerClientImpl.cpp:178`); `GetChildAtLevel` uses the depth of
  a quad tree, 4, as the number of quadrants; quad trees are asked for without
  checksums and sizes.
- `read/src/StreamLayerClientImpl.cpp:132`: two Subscribe at once leave a subscription
  behind, and concurrent polls commit out of order (`contended`).

*Writing*

- `write/src/StreamLayerClientImpl.cpp:145`: concurrent Queue calls exceed the limit (`raced`);
  `:154`, `:166`, `:200`: unchecked Puts, and `:180`, `:203`: the cache may evict a request or the whole list, by
  default at 1 MB (`CacheSettings.h:101`), which is only logged (`unstored` for both); `:260`: a cancelled flush queues again what
  was published (`interrupted`); `:261`, `:198`: what the queue has no room for, or a crash finds
  outside it, is lost (`dropped`). A publication that was begun is never cancelled
  when a later request of it fails; `GenerateUuid` shares a generator without a lock.
- `VersionedLayerClientImpl.cpp:68`: a waiter whose predecessor failed looks the services up without
  asking again whether a third operation does (`overtaken`); it may wait on a lock it does not own, and a cancelled
  initialisation leaves `init_in_progress_` set, so that all later operations wait for
  good (`threw`, `blocked`, `hung`, `abandoned`); an empty answer of the look-up makes
  `GetResult().at(0)` throw; `ApiClientLookup.cpp:77`: the look-up sets its URL on the shared client,
  where a failed last look-up leaves it. `CancellationTokenList.cpp:64`: CancelAll iterates without
  the lock (`shifted`). `IndexApi.cpp:80`: every status up to 201, negative ones
  included, is success.
- Auto flush: `DefaultFlushEventListener.h:61`: the count of failures is `thread_local` and wrong from
  a thread's second report on (`recounted`); a flush of nothing counts as a failure;
  `AutoFlushController.cpp:170`: a flush thread that has not registered when Disable waits is neither cancelled nor
  waited for (`late`); the listener may be told after Disable's future is ready; two concurrent Enable start two
  intervals. `impl_` is read without the synchronisation that replaces it, and the ids of background
  tasks are a counter shared by objects that lock different mutexes: data races, not modelled.
- Documents: `VolatileLayerClientImpl.cpp:719` sets the data handle as checksum, and uses the
  billing tag of the first request only; several operations ignore options of their request (billing tag and checksum of
  `PublishToBatch`, checksum of `PublishIndex`, trace ID and checksum of large data, both of `UpdateIndex`);
  `IndexInfoSerializer.cpp:66`: metadata of an index is added to an object that was moved away, and lost.
  JSON members that are null or of another type end in an assertion. `SomeGiven` leaves
  the ignored options out.

## 8 What is not modelled

- *Geometry* (floating point), *logging* (output that nothing reads), *utilities* (strings, file
  system).
- *LevelDB and its environment*: represented by outcomes (a write that fails, a
  database that does not open, what survives a crash); the size accounting of
  `DiskCacheSizeLimitEnv` is left out, its effect, a full disk, is not. An application that sets the
  deprecated `disk_path` and another path as `disk_path_mutable`, between which a failed Open then switches.
- *The text* of JSON, URLs and headers, the signature and nonce of authentication
  requests, base64 and compression.
- In the network back ends: caching headers, statistics, decompression (WinHTTP), curl's path for
  messages of unknown state and for idle handles, the expiry of WinHTTP's connections.
- In `OlpClient`: the assembling of URLs and headers, the authentication header (it comes from
  `AutoRefreshingToken`'s user, by `GetBearerToken`).
- Data races proper (the token's string, `impl_` of the auto flush, `GenerateUuid`), a
  last reference to the network that is dropped in a callback.
- `DefaultNetwork` and facades (`VersionedLayerClient` and the like), which forward; `GetData` of the
  read stream client, which has no state.

## 9 Plan

1. *Proofs*, in order of worth: `StreamExact` of `ResponsePayload`; `AnsweredOnce` of the other back ends
   along the argument of `ServicesProofs`; the invariants of the run `data` that need no recursion.
2. *Larger instances*: quad trees of depth 2, three fetches, a second handle in `NetworkCurl`.
3. *Disk*: the size accounting, with files that shrink and grow.
