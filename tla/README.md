# Basecamp overlay: verification project

TLA+ modules, TLC configurations and TLAPS proofs for the six-node overlay of
`src/basecamp` (C++ nodes A to D, Python nodes E and F). The modules follow the
source: one action per critical section, message or handler step. `PROJECT.json`
maps every definition to the lines it models.

## 1. The system

A client calls leader **A**. A calls the team leaders **B** (GREEN) and **E**
(PINK), one after the other, each of them calls a worker (B calls **C**, E calls
**F**), and A merges what comes back. D is a neighbour of B and E that no query
reaches. Everything is synchronous gRPC: a handler thread is blocked while it
waits for its callee. Nothing is persistent.

```
 client --InitQuery/Cancel--> A --+--> B (GREEN, handler.cc) --> C (handler.cc)
                                  +--> E (PINK, server_e.py) --> F (server_f.py)
```

### Inventory

| Component | State | Operations | Interacts with | Hard behaviour | What makes it correct |
|---|---|---|---|---|---|
| `FairScheduler`, `AdmissionGuard` (`admission_control.*`) | in-flight count and DRR deficit per team, last team served; one RAII guard per block | `TryAcquire`, `Release`, guard constructor and destructor | A's handler threads | many threads, one counter; early returns that must give slots back; a deficit only releases pay back | slots = guards; capacity kept; no team locked out |
| A's query handler (`InitQuery`, `InitQueryLeader`) | per thread: target, results so far, attempt | register, look up, admit, call with retries, merge, cache | scheduler, cache, registry, B and E | retries racing orphaned calls, one of two teams failing, refusal half-way, crash | answers and cached entries are the requested data; every query is answered |
| Team leaders (`InitQueryTeamLeader`, `server_e.py`) | per thread: attempt | register, look up (C++: twice), call the worker, cache | cache, registry, worker | retries multiply; E turns every failure into UNAVAILABLE | same |
| Workers (`InitQueryWorker`, `server_f.py`) | per thread only | register, look up, check cancellation, compute, cache | cache, registry, dataset | check-then-act on the cancellation flag | only a cancelled query is stopped |
| `CallWithRetries`, `CallNeighbor*` | attempt number | call with deadline, classify, repeat | all calls | timeout racing the answer | bounded attempts, an outcome for each |
| `CancellationRegistry`, `Cancel`, `PropagateCancel` | token and flag per request and node | `Register`, `Cancel`, `IsCancelled`, propagation | neighbours | Cancel overtaking the query; a retry registering again | no spurious cancellation; Cancel answered; cancellation effective |
| `LRUCache` (C++ template, Python class), `MakeCacheKey` | map of entries, list of keys by recency, clock | `Get`, `Put`, `EvictExpired`, `Clear` | all query handlers, C's `Handle` | two containers in step; lazy expiry | behaves as a lossy map; keeps what is in use |
| Legacy path (`Handle`, `CallNeighbor`, `InflightGuard`, E's and F's `Handle`) | in-flight counters of B and E, C's idempotency cache, E's thread pool | `Handle` per role | neighbours | overshooting counter; abandoned attempts that run on; duplicated delivery; a worker that fails or hangs; E's call without deadline | counter matches threads; limit kept; no repeated work; answers made of whole contributions |
| `ChunkManager` | chunk vectors and flags per request, one mutex and condition variable | `InitRequest`, `GetChunk`, `StoreChunk`, `Cancel`, `EvictExpired` | nobody calls it yet | pointers kept over a wait; gaps in the vector; takeover of a request | no wake-up lost; chunk returned = chunk stored; every call returns |
| Dataset (`KVDataset::QueryRange`, `query_range`), choice of the worker, merge | constant map per worker; the loop's locals | range query in chunks, first chunk, merge of pairs and sums | workers, leaders | boundaries, reversed and empty ranges, the ends of `int` | chunks tile the range; sums belong to pairs; answer = first chunks |
| Generated messages (`basecamp.pb.*`, `topology.pb.*`) | per object: values, has-bits, unknown fields | accessors, `Clear`, `CopyFrom`, `MergeFrom`, `Swap`, serializer, sizer, parse table | all handlers | bits and values are kept separately; objects are reused; sizer and serializer are two passes | has-bits never show; sent = received; size = bytes written |
| Topology, start-up, `NeighborClient` | constant | run once | - | - | neighbours and worker as the file says |
| `GetChunk`, `Health` | none | constant replies | - | - | - |
| Clients, test scripts, service stubs | - | issue and carry calls | A | - | - |

## 2. Modules

| Module | What it is |
|---|---|
| `AdmissionControl` | The scheduler and its guards, for any set of threads and teams. |
| `QuerySystem` | The whole chunked query path: A, both teams, caches, registries, retries, cancellation, crashes. It composes `AdmissionControl` as `Adm`: A's steps call `Adm!TryAcquire` and `Adm!Release`, and `AdmissionImplemented` says the composition refines `AdmissionControl`. |
| `RangeQuery` | The data of that path, sequentially: `QueryRange` key by key, the choice of the worker from the topology, the first chunk, A's merge. `QuerySystem` takes the first chunk of a range as a constant; this module computes it. |
| `HandleSystem` | The legacy path over A, B, C, E and F. |
| `ChunkManager` | The monitor that stores chunks, with the threads inside it. |
| `Cache` | Abstract: what a handler may rely on when it uses a cache. |
| `LRUCache` | The list-and-map cache in detail, both classes (`kind`), refining `Cache` (`CacheImplemented`). |
| `Message` | Abstract: what a protobuf message promises, a value per field and nothing else. |
| `GeneratedMessage` | What protoc makes of it, with has-bits, sizer, serializer and parser, refining `Message` (`MessageImplemented`). |
| `BasecampMessages` | The classes of this program as data: kind, number and has-bit of every field, read off the generated code. |
| `MC*` | Instances for TLC: datasets, ranges, targets, topology, symmetry. |
| `Induction` | Induction over numbers, sequences and finite sets, functions defined by recursion, sums in any order: lemmas only, for the proofs. |
| `*_proofs` | Theorems and their proofs. |

How the state corresponds to the code:

* **`AdmissionControl`**: `inflight`, `deficit`, `lastServed` are the members
  of `FairScheduler`; `guard[h]` is the `AdmissionGuard` alive in thread `h`.
  `Admit` and `Refuse` are the constructor with `TryAcquire` true and false,
  `Destroy` the destructor, `Restart` a new process.
* **`QuerySystem`**: `lead[r]` is the thread of request `r` at A, its `pc` the
  next statement that touches shared state, `got` the two replies (`rb`, `re`
  with their statuses), `ans` the reply. `tl[r,t,i]` is the thread that
  attempt `i` of A started at the leader of team `t`, `wk[r,t,i,j]` the one
  that attempt `j` of that thread started at the worker. A caller that meets its
  deadline abandons the callee's thread, which goes on: `Outcomes` offers
  `DEADLINE_EXCEEDED` at any time beside the answer or the loss of the callee.
  `cache[n]` and `tokens[n]` are node `n`'s result cache and
  `g_cancel_registry`. `canc[r][n]` is the Cancel call of request `r` at `n`.
  `Expire` is the loss of a cache entry by age or eviction; `LRUCache` shows the
  real cache does nothing else.
  `PyLeaders` and `PyWorkers` say which nodes run the Python handlers: these
  look up once, retry nothing, report every failure of F as UNAVAILABLE, and
  cache an empty answer that the C++ worker does not.
* **`RangeQuery`**: `at`, `k`, `chunk`, `sum`, `results` are the parameter and
  the locals of `QueryRange` (`start_key` and `end_key` are `Start` and `End`),
  `got` the replies A has, `asked` how far A is in its sequence of teams.
  `Iterate` is one pass of the loop, `Return` the end of it with
  `InitQueryWorker`'s choice of the first chunk, `WorkerOf` the team leaders'
  loops over their neighbours (by name in C++, where they are in a `std::map`,
  in file order in Python). `HashKey` is the code's function with its constants
  as parameters.
* **`HandleSystem`**: threads are named as in `QuerySystem`. `inflight[t]` is
  `inflight_` of B and of E, `idem[r]` C's entry for request `r`. `TlEnterCpp`
  is `fetch_add` and the comparison, `TlEnterPy` E's locked test, taken only
  when one of the `PoolSize` threads of its server is free; `TlCall` is the
  leader's own work and its call, `TlLeave` the destructor of `InflightGuard`
  or E's `finally`. `WkGet` and `WkPut` are C's two accesses to its idempotency
  cache, `WkRunPy` F's handler, which has none. `wk[d].late` and `wk[d].ran` are
  history: the call arrived after an answer to the same request, the work was done.
  Data is the sequence of the nodes whose work is in it.
* **`ChunkManager`**: `states` is `states_`; `reader[t]` a thread in
  `InitRequest` or `GetChunk`, with its pending notification (`woken`) and
  whether its pointer into `states_` still points to something (`dangling`).
  `hit` is history: a Cancel found the thread waiting. A step is what a thread
  does between taking `mu_` and releasing or waiting on it. Reading a chunk of
  an erased state is undefined: any reply, or the end of the process
  (`UseAfterFree`). The class has no caller in the repository; readers and
  sources follow its header.
* **`GeneratedMessage`**: `obj[o]` is an object's values, the bits of
  `_has_bits_` that are set, and its unknown fields. `Set` to `SetAllocated` are
  the accessors, `Cleared`, `Merged` and `Swap` what the methods do.
  `Serialized` writes the fields by number, `ByteSize` adds them up has-bit by
  has-bit, `Parsed` reads one record after the other (`Read`), as the serializer,
  `ByteSizeLong` and the table-driven parser do, at the level of records of a
  field number and a value; how those become bytes is libprotobuf's.
* **`LRUCache`**: `cache` and `lru` are `cache_` and `lru_list_` (an
  `OrderedDict` is both), `lru_it` finds the node an entry points to. `born` and
  `since` are history variables: when a key was last put, and which keys were
  used after it was, evicted or not.

What is abstracted: in `QuerySystem` pairs are their keys, and sums, times,
sizes, chunk numbers and messages are left out (InitQuery always answers with
chunk 0, final); the backoff only delays; `compute_ms` and the path of node
names in the legacy path influence nothing. Definitions marked `Fault` are not
part of the model: each is a bug the code could have had, and one property fails
with it.

## 3. Runs

| Run | Question | Instance |
|---|---|---|
| `admission` | Is a slot ever lost or invented, is a team ever locked out? | 4 threads, 2 teams, capacity 3, quantum 2 |
| `lru` | Do list and map agree, is what is in use kept, does it implement `Cache`? | 3 keys, 2 values, room for 2, 4 s of half-second ticks, TTL 1 s, both classes |
| `query_retries` | Do retries at both levels, orphans, evictions and a crash ever yield a wrong answer or none? | 1 GREEN query through the C++ nodes, 1 retry at each level, 1 crash |
| `query_sharing` | Do two queries disturb each other through the caches or the admission? | 2 queries, 2 ranges with the same `key_min`, one or no team each, 1 slot per team |
| `query_cancel` | Is a query ever stopped without its Cancel, is a Cancel always answered? | 1 PINK query through the Python nodes, 1 retry, Cancel at any moment |
| `ranges` | Is what is answered the first chunk of the range at each team, and no more and no less? | every pair of five-bit ints, partitions of 6, 3 and 3 keys, chunks of 2, any target, either team failing |
| `handle` | Do abandoned attempts, refusals, failures and exceptions ever lose a slot, repeat work or mix data? | 1 request to any teams, with and without payload, 1 retry of A, 1 slot, pool of 1 |
| `chunks` | Does a reader ever sleep through its chunk, or get another's? | 2 readers, 2 requests of 2 chunks, one fed in order and one in any order |
| `messages` | Do has-bits ever hide, resurrect or lose a value? | each of the generated classes, its fields two at a time, 2 objects |
| `query_target`, `query_recancel`, `handle_payload` | Does the code do what its texts say? (section 6) | as small as shows it |

Properties, by the hazard they are about:

* `InflightMatchesGuards`, `CapacityRespected`: the guarded decrement of
  `Release` would hide an unmatched release; the count equals the guards alive.
* `IdleTeamAdmitted`, `ReleaseReadmits`, `AlwaysReadmitted`: the deficit check
  refuses a team below capacity, and only the team's own releases restore its
  credit. A team with nothing in progress always passes, every release readmits
  at once, so a refusal is never final.
* `AdmissionImplemented`: on every path of the query (success, each failed
  retry, refusal, loss of the process) the slot is given back exactly once.
* `Truthful`: nothing but the data of the right teams and range is cached or
  answered with OK. At A it may be the data of any teams asked for this range,
  as A's key has no team (finding `query_target`); at the other nodes exactly
  that of the node's team.
* `QuerySystem!Answered`, `CancelAnswered`: every query, every Cancel, gets a
  reply though the nodes below hang or are down.
* `NoSpuriousCancellation`: the worker reports CANCELLED only if A accepted
  the Cancel of that very request.
* `RecencyOrder`, `WorkingSetKept`, `CacheImplemented`: the two containers
  of the cache agree; of the last `Capacity` keys used one that is missing has
  expired; a lookup gives the last value put, within its life, or nothing.
* `ChunksTile`, `SumsAgree`, `AnswerIsFirstChunks`, and `TypeOK` of `RangeQuery`:
  reversed, empty and one-key ranges, ranges that end at the boundary of a chunk
  or a partition, and the key that runs one beyond its bound, which must not
  leave `int`. That the answer holds the first chunk only, and never a key of D,
  is what the code does, and the property says exactly that.
* `InflightCounts`, `ServedWithinLimit`, `SlotsReturned`: B's counter
  overshoots its limit, A abandons attempts that hold slots, E raises between
  increment and decrement: still the counter is the number of threads between
  the two, the threads served stay within the limit, and B's slots come back.
* `PoolShieldsGuard`: with a pool of 8 threads E's limit of 32 is never met.
* `AnsweredNotRepeated`: C works again on an answered request only after its
  entry is gone. Two deliveries that overlap both work; that is no error of the
  property but what a lookup and an insertion in two steps allow.
* `AnswerMadeOfTeams`: A hears of every asked team, the second too when the
  first has failed. One that answered is enough for OK and none is not; the
  data is that of one finished attempt per team that answered, whole, and
  nothing of a failed or abandoned one.
* `NoLostWakeup`, `CallsReturn`: all readers share one condition variable; none
  sleeps through what it waits for, and each call ends by its deadline.
* `ChunksInPlace`, `DownloadFaithful`: chunks out of order leave fillers, and
  only they do; a reader of an in-order source gets every chunk once, in order.
* `CancelReachesWaiters`: whoever waited at the Cancel returns its error, even
  when a chunk arrives before it runs, unless the request was taken over.
* `HasBitsCover`, `MessageImplemented`, `SizeMatches`, `ConcatIsMerge`: Clear,
  merge, sizer and serializer trust bits that accessors, copies and swaps keep.

**What no property rules out.** Some hazards are behaviour of the code that no
text of the repository contradicts. They are in the models, the properties
allow or except them, and `PROJECT.json` gives the reason at each: the Cancel
that overtakes its query or comes after the worker's one look at the flag
(`NoSpuriousCancellation` is about the other direction); the range cut to its
first chunk and D never asked (`AnswerIsFirstChunks` expects both); overlapping
deliveries computed twice (`AnsweredNotRepeated` starts after an answer); the
pointer that dangles after `EvictExpired`, a filler read as data, a request
initialised again under a waiter (excepted by the properties of `ChunkManager`). Those
of `ChunkManager` are latent, as nothing constructs the class. `BasecampMessages` has one
has-bit per field, so a setter, a sizer and a merge that use different masks
for one field cannot be told apart there.

**Bounds.** `MaxRetries` is 1 (3 in the code) where retries matter: one retry
already gives an orphaned call beside a live one at each level, four worker
threads for one query. `query_sharing` is about two queries and has no retry and
no crash; calls abandoned at their deadline still run on beside the other query.
`MaxCrashes` is 1 in `query_retries`, at any node and moment, with a restart at
any later moment or never. Queries that ask both teams with retries, and two
queries with retries, are too large for TLC; they are covered by the proofs of
`QuerySystem`, and both teams are asked at once in `handle` and `ranges`.
The dataset of `QuerySystem` has six keys, chunks of two pairs (100 in the
code), so that a range is cut by its chunk on either team. Capacity 3 for four
threads lets teams reach the limit, and quantum 2 makes the deficit wrap and
saturate within those bounds. The clock of the cache stops at `MaxTime`, four
lives of an entry of the Python class and two of the C++ class. In `ranges` a
chunk of two cuts every partition: C's into three, D's and F's into a full and a
short one; five bits are the fewest that leave ints on both sides of the
partitions. `handle` has one slot, so that A's second attempt meets the slot of
its first: B refuses it, E lets it wait; retries of B would only multiply the
worker's threads, of which A's attempts already make two that can meet at C.
In `chunks` two readers on the same or on different requests are enough for a
notification to concern the other, and two chunks for a gap. In `messages` two
fields of one class in every combination show any bit shared or missed between
fields; contents and unknown records have at most one element (`MaxLen`), values
are the default and one other. `MaxRetries`, capacity, quantum, TTL, chunk
sizes, pools and sets are constants: the theorems below hold for all values.

**Fairness.** `QuerySystem!FairSpec` assumes weak fairness of the steps of A's
threads only: gRPC runs a handler that can proceed, and each call A makes
carries a deadline (5 s for queries, 1 s for Cancel), after which it returns.
Nothing is assumed of B, C, E, F, of restarts or of clients. `HandleSystem`
assumes the same of A's threads (2 s) and of those of the C++ team leaders, whose
calls have deadlines too; nothing of E, which waits for F without one, and
nothing of the workers. `ChunkManager` assumes that deadlines pass: `wait_until`
has an absolute one, so a thread notified again and again still leaves. It
assumes neither chunks nor notifications. `RangeQuery` is sequential and assumes
its one thread runs on. `AdmissionControl` assumes that a guard alive is
destroyed, for the same reason as A's threads: the block it lives in contains
one call that ends by its deadlines.

**Symmetry** is used over requests, keys, values, threads and message objects,
in runs whose properties are invariants or step properties only; no action or
operator tells these apart. **Deadlock** is not checked where the modelled work
is finite and the system stops when it is done: `QuerySystem` (queries served,
crashes spent, caches empty), `HandleSystem`, `RangeQuery` (one query),
`ChunkManager` (downloads over, or the process dead). The other runs check it.

## 4. Proofs

All for every value of the constants that satisfies the named assumptions:
finitely many threads and requests, a positive quantum, positive capacity and
TTL of the cache, first chunks that are sets of keys, a positive chunk size,
partitions that end before the largest int, retries, slots and pools in Nat.

* **`AdmissionControl_proofs`**: `TypeCorrect`, `NoSlotLost`, `CapacityHolds`,
  `IdleNeverRefused`, `ReleaseReopens`. The invariant `IInv` adds to the
  checked ones `IdleHasCredit`: a team without holders has a deficit of at
  least zero. `IdleTeamAdmitted` alone is not inductive, because a refusal
  depends on `lastServed`; the credit argument is that the deficit never goes
  below minus one quantum, so the one quantum given back by the last release
  brings it to zero or more.
* **`QuerySystem_proofs`**:
  * `TypeCorrect`, from `LocalTypeOK` (the types of everything but the
    scheduler) and, through the refinement, the types of the scheduler.
  * `RefinesAdmission`: every step maps to a step of `AdmissionControl` or a
    stutter, where a request in `call` or `await` is a thread with a guard.
    A's refusal maps to a stutter: that guard is created and destroyed in
    one step of A. `QueriesAdmitted` carries the theorems about
    `AdmissionControl` over to the running leader.
  * `AnswersTruthful`. The invariant adds `GotTruthful`: what A's thread
    holds of a team, when OK, is that team's data and the team was asked for.
    The step lemmas bound what one step adds (`CacheDelta`, `LeadDelta`,
    `TlDelta`, `WkDelta`) and use that a request never changes its range and
    target (`Fixed`), so `Asked` only grows.
  * `CancellationGenuine`. `NoSpuriousCancellation` is not inductive: the worker
    reads its own registry. The invariant `MarkedFromRoot` says that a Cancel
    sent, or a mark set, anywhere below A goes back to a Cancel A accepted, and
    that acceptance is never withdrawn, crash or not.
  * `AnswersMatchTargets`: where the queries of a range agree on their teams,
    an answer holds keys of the teams asked for. It follows from
    `AnswersTruthful`: an entry of A's cache goes back to some query of the
    range, and all of these want the same. So the missing team in A's key is
    the whole of finding `query_target`.
  * `UnmarkedByRetriesOnly`, `CancelSticksWithoutRetries`: a mark is lost only
    with the process or to a second attempt of the same call, hence never where
    nothing is retried: that is the whole of finding `query_recancel`. The
    invariant `TokensInv` says which threads cannot have started yet
    (`CallsFresh`, `CalleesFresh`) and that a node that knows a request has a
    thread that registered it (`Registered`). So the first call to a node finds
    no entry, and who overwrites a mark is a later one.
  * `QueriesProgress`, `CancelsProgress`: the safety halves of `Answered` and
    `CancelAnswered`. Each step of A's thread lowers a rank of at most
    `4 * MaxRetries + 10`, each step of a Cancel at any node lowers a work of at
    most 15, and no other step raises either. What fairness adds is only that
    the steps are taken.
* **`HandleSystem_proofs`**: `TypeCorrect`, `InflightNeverLost`, `LimitHolds`,
  `PoolShieldsGuardAlways`, `AnsweredNotRepeatedAlways`,
  `AnswerMadeOfTeamsAlways`. The counters are counted threads (`SlotStep`: a
  step adds or removes one thread, or none, as it adds one, takes one, or none),
  which needs that a call finds its thread unused: `Called` says which
  attempts A has made, `WkPart` which calls a team leader has. `ServedWithinLimit` is not
  inductive without the counter, as B admits by the counter and not by the
  threads. For E, `TlPart` adds that no Python thread is ever between increment
  and refusal, so its admitted threads are its counted ones and a pool
  smaller than the limit bounds them. For C, a finished or late thread implies an entry
  held or expired. For the answer, what A holds of a team, when OK, is a whole
  contribution of a team that was asked and can answer; `GotInv`, inductive
  beside it, says that A holds something of exactly the teams it has finished
  with (`Heard`), that what is OK was sent by a finished attempt (`Sent`, which
  stays true as no finished thread moves), and that the answer is OK
  exactly when something A holds is (`Assembled`). `RequestsProgress` is
  the safety half of `Answered` and `SlotsReturned`: bounded ranks of A's
  threads and the team leaders', lowered by each of their steps.
* **`ChunkManager_proofs`**: `TypeCorrect`, `NoLostWakeupAlways`,
  `ChunksInPlaceAlways`, `DownloadFaithfulAlways`, `CancelReachesWaitersAlways`.
  The invariant describes a vector (`VectorOK`), a state, a reader and a sleeper
  separately; it adds that a final chunk stored means `complete`, that a source
  in order has stored the vector's length, and that a dangling pointer means the request was
  evicted, which is why the properties except evicted requests.
* **`RangeQuery_proofs`**: `ChunksTileAlways` for every partition, range and
  chunk size; `AnswerIsFirstChunksAlways` for the shipped choice of nodes (a
  hypothesis of the theorem). The loop's invariant is `ChunksTile` itself
  together with the bound of the key, which keeps it an `int`; the answer
  follows because the first chunk, once full, never changes. `TypeCorrect` adds
  that a chunk's sum is at most its number of pairs times the largest value
  (`SumInv`), which keeps it in range. `SumsAgreeAlways`: the code keeps a sum
  beside each list of pairs, in the loop and again in A's merge, and it always
  is the sum of the values listed (`Summed`); that the total of two lists is
  the sum of theirs is proved by induction over sequences. `LoopAlwaysEnds`, the
  safety half of `Answered`: every step lowers the number of steps left,
  bounded by the width of `int`, so the key never steps over its bound.
* **`GeneratedMessage_proofs`**: `HasBitsCoverAlways`, `ConcatIsMergeAlways`,
  `SizeMatchesAlways` and, as refinement of `Message`,
  `MessageImplementedAlways`, for every class whose fields have has-bits and
  numbers of their own (`DistinctBits`, `DistinctNumbers`; without them they are
  false: clearing one field would take the bit of another). `BasecampMessagesCorrect` shows
  both of the twelve classes of this program and draws the four conclusions. The
  invariant (`Sounds`) says that an object has the shape of its class, that the
  bits cover the values, and that contents and unknown records are well formed.
  From there it is induction over the records: parsing what was serialized
  appends to, or overwrites, exactly what the fields written say
  (`ParsedSerialized`), parsing a concatenation is parsing one part after the
  other (`ParsedConcat`), and the sizes, added up by bit in one pass and by
  number in the other, are equal because a sum does not depend on its order
  (`SizesAgree`).
* **`Induction`**: the installed provers cannot instantiate a theorem that takes
  an operator, as the library's induction theorems do. Here what is proved by
  induction is a set, that of the arguments it holds of (`NatSetInduction`,
  `SeqSetInduction`, `FiniteSetInduction`), and a recursion is given by its step
  as a function (`RecursionExists`, `AlongAppend`); `SumOrder` is the
  independence of a sum from its order.
* **`LRUCache_proofs`**: `TypeCorrect`, `RecencyOrderAlways`,
  `WorkingSetAlwaysKept`, and `CacheSound`: both classes implement `Cache`. For
  the refinement it is enough that an entry's timestamp is the time of its last
  Put (`IInv`). For the list, one lemma per operation (`RemoveAtOrdered`,
  `FrontOrdered`, `PushOrdered`, `InOrderOrdered`) says that it keeps a list
  `Ordered`. Of the key at the back of a full list the order says that all
  others held were used after it; with the new key that makes `Capacity`
  (`VictimFollowed`), so whatever is evicted was due.

Only model-checked: the liveness properties (`Answered` of three modules,
`CancelAnswered`, `AlwaysReadmitted`, `SlotsReturned`, `CallsReturn`), which
need fairness and ENABLED, out of the prover's reach. Their safety halves, that
the work left is bounded and each step lowers it, are the theorems on progress
above (for `AlwaysReadmitted` it is `ReleaseReopens`; `CallsReturn` has none, as
a call of `ChunkManager` may be notified any number of times before its
deadline). Every other property of the runs that pass is stated by a theorem.

## 5. Not modelled, and the plan

Not modelled: reading and parsing of the topology files and the start of the
servers (run once, before any thread; what they make of the shipped file is the
instance of `RangeQuery`), `GetChunk` and `Health` (stateless), clients and
scripts (only `ClientSend`, `ClientCancel`, `Ask`), the service stubs (they hand
each call to gRPC), `NeighborClient` (constructed, not used), libprotobuf and
gRPC themselves, the metrics. Link failures show as `UNAVAILABLE` of a node that
is down, or as a deadline. Of the cancellation, a token that does not match,
`Cleanup` (called by nobody) and the Cancel that reaches D, where nothing is ever
registered, are left out.

Done: `AdmissionControl`, `QuerySystem`, `Cache` and `LRUCache`; `HandleSystem`,
`ChunkManager`, `RangeQuery`, `Message` and `GeneratedMessage`; their proofs.
Left:

1. `Cancellation` over the whole overlay with the visited path, D, wrong tokens
   and two requests with one id: propagation ends, each node at most once per path.
2. `ChunkManager` in the place of `GetChunk` and of the workers' results, once
   the server calls it: `QuerySystem` would then compose it at A.

## 6. Where the code and its texts differ

Each of these is a run that TLC refutes, with the text it refutes quoted in
`PROJECT.json`.

* `query_target`: A's cache key has no team: after a PINK query, a GREEN
  query of that range is answered with PINK's keys. By
  `AnswersMatchTargets` only queries of one range for different teams meet this.
* `query_recancel`: `Register` overwrites the entry, so a retried call wipes the
  cancelled mark. By `UnmarkedByRetriesOnly` nothing else does.
* `handle_payload`: E's loop adds the characters of the payload to an int, so
  every PINK request with a payload ends in an exception, and A does not retry
  what it gets.

Observed while modelling, and in the model as the code has it, without a run:

* A team is refused with "team overloaded" by the deficit check
  (`admission_control.cc:19`) as soon as one of its calls is in progress and it
  was the last served, whatever its capacity.
* A confirms a Cancel while it serves the query and answers the query with its
  data: only the worker looks at the flag, once (`handler.cc:376`).
* The merge of the teams that answered is cached as the answer for the range
  (`handler.cc:327`), and later queries get it as complete.
* Of a range with more than 100 keys at a worker the first chunk is returned and
  marked final (`handler.cc:412`), and D, which holds the keys 500 to 749, is
  never asked: its team's leader takes F, the first of its neighbours
  that fits.
* A chunk from the cache carries the request id of the query that filled it
  (`handler.cc:241`).
* Overlapping deliveries of one legacy request both work at C
  (`handler.cc:209`), and F has no idempotency cache.
* `ChunkManager::StoreChunk` fills gaps with default chunks
  (`chunk_manager.cc:109`), which `GetChunk` returns as data.
