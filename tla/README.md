# A verification project for mllm

This directory holds TLA+ specifications of the stateful core of mllm: the parts
of the C++ engine that schedule, allocate and cache (`mllm/engine`,
`mllm/nn/lmcache`, the cache management of the QNN and Ascend backends, the
Qwen3 session of the service) and of the Python serving runtime (`pymllm/`); the
TLC configurations that check them on small instances; and TLAPS proofs of what
holds for all instances. `PROJECT.json` lists every component, which lines each
definition models, and every hazard with the property that covers it or the
reason why none does.

## 1. The system

**C++ engine.** A Go HTTP server calls the service through a C API. A worker
thread of the service takes the request, runs a session (Qwen3) and pushes chunks
of the answer to a pool the HTTP handlers poll. The session looks the
conversation up in its prefix cache, computes the rest on the CPU backend, whose
operators split their loops over a thread pool, and stores the new K and V in
lanes of a file system in memory. Tensors come from a buddy allocator; the Ascend
and QNN backends manage device memory and KV caches of their own.

**pymllm.** A request goes through

    client -> Engine / RequestResponseProcess -> TokenizerProcess
           -> SchedulerProcess (owns ModelRunnerProcess) -> DetokenizerProcess
           -> RequestResponseProcess -> client

with ZMQ sockets between processes. Scheduler, model runner, prefix cache and
memory pools are one thread; what makes them hard is not locks but the length of
the call sequences that share slots.

| component | state | operations | hard part |
|---|---|---|---|
| `HpcThreadPool` | slots with a function and a flag per thread, `available_task_slots_` | push, idle, wakeup, destruction | spinning callers and sleeping workers; a function that refers to the caller's stack; one slot for all callers |
| `Service` | request queue, response queues by id, `running_` | sendRequest, workerLoop, getResponse, stop | two condition variables, one of them shared by clients that wait for different things |
| `BuddyMemPool`, `MemoryManager` | segments, free lists by order, used bytes | alloc, free, grow | split and merge in any order |
| `AscendMemoryPool`, `AscendAllocator` | used and free blocks; map from pointer to block | alloc, free | two locks, alignment after the room check |
| `RadixTree`, `ZenFS`, `TLB` (C++) | tree of token runs with K and V addresses; bitmaps of lanes | search, insert, malloc, free | splits; walking on below a partly matched edge |
| `Qwen3Session` | sequence, addresses, positions | streamGenerate | which lane holds what was computed from which tokens at which position |
| `CpuPrefixCache` | the same tree; lanes of the window | promote, evict | freeing lanes under shared nodes |
| QNN `Runner`, `KVCacheManager` | one buffer, two layouts, masks | prefill, decode, rearrange | in-place moves, a buffer that is never cleared |
| `TokenToKVPoolAllocator` (Python) | `free_slots`, `release_slots`, `_free_group` | alloc, free, groups | lists merged lazily; double frees; a short last page |
| `ReqToTokenPool` | rows | alloc, free, write | rows are recycled and never cleared |
| `RadixCache` | tree, `lock_ref`, size counters | match, insert, evict, lock | splits under locks |
| `ModelRunnerProcess` | row, slots, tokens, lock of each request | extend, decode, release | which of request, tree and free list owns a slot |
| `SchedulerProcess` | queues, running batch, budget | receive, admit, run, account, stream | aborts at any point, liveness |

## 2. The modules

    ThreadPool       HpcThreadPool.cpp, CPUBackend.cpp       MCThreadPool, ThreadPoolProofs
    Service          Service.cpp, handlers.go                MCService, ServiceProofs
    BuddyMemPool     BuddyMemPool.cpp, MemoryManager.cpp     MCMemory (INSTANCE)
    AscendMemoryPool AscendMemoryPool.cpp, AscendAllocator   MCMemory, AscendMemoryPoolProofs
    PrefixTree       prefix_cache/RadixTree.cpp, as operators
    ZenFS            prefix_cache/ZenFS.cpp, TLB.cpp, as operators
    Qwen3Session     EXTENDS PrefixTree, INSTANCE ZenFS      MCQwen3Session, MCCaches (INSTANCE)
    SlidingWindow    EXTENDS PrefixTree, INSTANCE ZenFS      MCCaches (INSTANCE)
    QnnAOTRuntime    backends/qnn/aot_rt                     MCCaches, QnnAOTRuntimeProofs
    KVOwnership      what the Python allocator promises
    KVAllocator      memory_pool.py                          MCKVAllocator, KVAllocatorProofs
    RadixTree        radix_cache.py, as operators
    ModelRunner      EXTENDS RadixTree                       MCModelRunner, ModelRunnerProofs
    Scheduler        scheduler_process.py                    MCScheduler, SchedulerProofs
    DataTheorems     lemmas that several of the proofs use

`MCMemory`, `MCCaches` and `MCKVAllocator` put independent machines side by side;
each behaviour moves only one of them, so the state spaces add up and do not
multiply. In every module an operator introduced by "A mistake:" is a plausible
bug of the definition after it: replacing that definition by it must break a
property.

**ThreadPool.** One action per access to an atomic, per critical section and per
call of a task function. `worker[t].pc` is the place in the two nested loops of a
worker, `submitter[s].pc` that of a thread in `push()`; `done[s]` counts how often
each iteration of the loop at hand ran. The function in a slot is who wrote it
last and that caller's loop, because the lambda in the code holds references to the
caller's stack. Sessions call `wakeup()` and `idle()`, or throw in between.

**Service.** One action per critical section. A session is a worker that emits
chunks, ends, or fails (its exceptions are swallowed). `notify_one` wakes any one
of the sleepers, `notify_all` all. `Poll` is `getResponse()` in the loop of the Go
handler, `Disconnect` what that loop does between two polls.

**BuddyMemPool.** A block is segment, offset and order; `Taken` is the whole
search-and-split, `Released` the whole merge loop. New segments land before or
after the others, since the code walks them by address. **AscendMemoryPool** has
one action per critical section of its two mutexes.

**PrefixTree, ZenFS.** A tree maps the token path of each node to its edge. `Step`
is one turn of the walk both `insert()` and `search()` make; like the code it goes
on below an edge that matched in part. A file system maps blob ids to their free
bits; `Access` and `FreeLane` use the address arithmetic of `TLB.cpp`.

**Qwen3Session.** `lane` is not in the code: it records for each lane what its
content was computed from (kind, tokens up to here, position). `Begin` is the
search, `Forward` the whole forward pass with its allocations, `Token` one turn of
the generation loop with its callback, `Promote` the end of `streamGenerate()`.

**SlidingWindow.** `AddToken` is find, allocate and promote the way the example
`paged_attn_hybrid` uses the cache; `Evict` is `evictSlidingWindowLayerOn()`.

**QnnAOTRuntime.** The flat buffer of one row-wise cache; a cell holds the call,
token and row it was written for. `Rearranged` moves row by row in the code's
order; masks are sets of columns.

**KVAllocator.** The two free lists and the pending group as sets of pages (the
code passes them through `torch.unique`); `held` is who owns what, `answer` the
last result of `alloc`. `KVOwnership` knows only who owns which page.

**RadixTree, ModelRunner.** A tree is a map from token paths to KV indices, the
nodes with their `lock_ref`, and the two counters; which unlocked leaf is the
oldest is left open. One action of ModelRunner is one call of the scheduler.
`cached` chooses between `RadixCache` and `ChunkCache` at the start. `content` is
not in the code: the tokens the KV data of a slot were computed from.

**Scheduler.** `pc` is the place in `event_loop()`; each loop over requests takes
one action per request. The model runner is a call that returns any prefix length
`_allocate_extend` can report and any token, or raises (`pc = "dead"`).

## 3. The runs

| run | shows | result |
|---|---|---|
| `ThreadPool_session` | each iteration once, no dead stack frame, no stale flag; pushes and destructor return | passes |
| `ThreadPool_forks` | `EachTileOnce` with two threads that push | violated |
| `Service_pool` | chunks in order at the right client; requests are taken; `stop()` returns, nobody left asleep | passes |
| `Service_wakeup` | `EveryAnswerArrives` with two clients | violated |
| `Memory` | blocks tile each segment and merge back, `used` is exact; device blocks apart, storages match blocks | passes |
| `Qwen3Session_repeats` | `ReadsOwnPrefix` when a token occurs at two places | violated |
| `Caches` | QNN: each graph sees exactly the past tokens; writes stay inside. Session: attention reads its own prefix; the tree stays valid; search finds the longest prefix. Window: no address given twice while the first bitmap lasts, own window kept | passes |
| `Caches_window` | `WindowAddressesHold` with a window smaller than a word of the bitmap | violated |
| `KVAllocator` | `OneHome`, `NoneMeansExhausted`, implements `KVOwnership`, also with pages | passes |
| `Scheduler_serving` | budget, runner, streams, aborts, liveness | passes |
| `ModelRunner_serving` | `ReadsOwnPrefix`, `OneOwner`, `LocksCounted`, `ProtectedExact` with rows used again and a second turn, where the excess read of a release can do no harm | passes |
| `ModelRunner_rows` | `OneOwner` when rows are used again | violated |

### Bounds, and why they are enough

* ThreadPool: three threads (caller and two workers) and loops of 1, 2, 4 and 3
  iterations: run by the caller alone, one iteration for a part of the threads,
  more iterations than threads, a step above 1. The two-thread pool of the
  violation run is the smallest with a worker.
* Service: two workers and two clients give every race for one queue; two chunks
  before the final one give an order to get wrong. The violation needs only one
  worker.
* Memory: segments of 8 and 16 bytes with blocks from 2 bytes: three levels of
  splitting, a full segment, growth and a merge over all levels; sizes at and
  between powers of two. Device: two threads and three storages, a pool that three
  blocks fill to the last bytes, with starts that need alignment.
* Qwen3Session: bodies of up to three tokens that share one, two or no tokens,
  three requests: split, extension, full hit, and a second blob. In the run `Caches`
  each place has its own tokens (`Placed`), so that the walk's mistake cannot happen;
  `Repeating` drops that.
* Caches: context of 6, chunks of 1, 2, 3 and 6, three rows, two calls: both
  directions of moving rows, a chunk that is not full, a prompt that fills the
  rows, leftovers of a first call. Window of 2 over sequences of up to 4 tokens with
  two branchings: the border of the window falls inside nodes and on shared ones.
  Words of 8 bits for blobs of 2 lanes keep the proportion of the example
  `paged_attn_hybrid` (64 bits, 8 lanes): lanes beyond the blob are handed out, and
  freeing them does nothing.
* KVAllocator: 4 single slots let one list run dry while the other is full; 5 slots
  in pages of 2 give a short last page.
* Scheduler: prompts of 1, 1 and 3 tokens, `max_running_requests` 2,
  `max_prefill_tokens` 3, `max_total_tokens` 6: each limit blocks someone.
  `MaxNewTokens` 0 is the edge at which a request still gets one token.
* ModelRunner: equal prompts (duplicates in a batch), a shared part (split), an
  extension (partial reuse); 8 slots do not hold all four, so eviction, retries and
  failure happen. Three rows serve four requests, the last of them the next turn of
  the first: its prompt is that prompt, the answer and a new token.

### What passing runs assume

* `ModelRunner_serving` checks `CarefulSpec`. It keeps the excess read of
  `_free_rid_resources` (see the findings) and leaves out the steps on which that read
  can do harm (`ExcessReadBites`): the release of a request whose row has, at the
  position of the last token, a slot that an earlier request left, and the start of one
  whose prompt goes on through a path that a release cached without a slot. A later
  request that is longer than those that had its row is within it, and so is a next turn
  whose prompt leaves out the last token that was sampled. `ModelRunner_rows` has all
  steps. With the default `max_running_requests = 1` every request reuses the one row.
* The session of `Caches` has no token at two places; `Qwen3Session_repeats` does.
* `AttendsExactly` speaks of prompts that fit the rows of the prompt graph;
  `WritesStayInside` allows only the write of a longer prompt and the one that fills
  the last place of the context. The code checks neither.
* `ThreadPool_session` has one thread that pushes, the default of
  `startService()`; `ThreadPool_forks` has two.
* The session of `Caches`: the lanes of a blob fill whole words of the bitmap (`LanesFit`),
  as with the default options of the layers with full attention, 4096 lanes. A
  sliding-window layer with fewer than 64 tokens is not so: `SlidingWindow` has no such
  assumption, and `WindowAllocatedOnce` speaks of the time until the first bitmap is
  used up. That addresses lead to a lane at all is what `Caches_window` refutes.
* `BuddyMemPool`: the floating-point logarithm of `_log2_ceil()` is modelled by the exact
  one. They agree for sizes up to 2^49 (the first size that is rounded down is
  2^49 + 1); segments have at most 2^29 bytes. `OrdersFit` states the bound.

### Fairness

* ThreadPool: weak fairness of each worker and of each thread inside `push()`, and
  of the destructor: OS threads that can run do. Nothing makes a thread push, begin
  or end a session.
* Service: weak fairness of each worker, of each polling handler and of `stop()`
  once called. Nothing makes a client send, leave, or anyone call `stop()`. A
  session comes to its end (`MaxChunks`), since `max_length` bounds generation.
* Scheduler: weak fairness of `event_loop` as a whole: a `while True` loop with
  non-blocking receives. `EveryFittingRequestEnds` allows the process to die and
  speaks of requests that fit the limits at all; requests are finitely many.

Deadlock is not checked where the instances send finitely many requests or calls
and then stop, which is every run but `KVAllocator` and `Memory`.

## 4. What is proved

Every theorem below holds for all values of the constants that satisfy the named
assumptions of its module (TLC evaluates these in the runs) and, where one is
mentioned, a hypothesis of its own. Each follows the same argument: an inductive
invariant, checked with TLC on the run's instance first, one lemma per action, and a
last temporal step.

`ServiceProofs`, for any workers, clients and lengths of answers:

* `NobodyIsLeftAsleep`: `Spec => []NobodyLeftAsleep`. The invariant adds to the types
  `Stages`: workers have left their loops before the response pool is shut down,
  and from then on no client goes to sleep, because it looks at `stop_` first.
* `AnswersInOrder`: `DistinctIds => (Spec => []OwnAnswerInOrder)`. That a client got
  its chunks in order says nothing of the next step, so the invariant ties three
  places together: `OnePlace` (a request is unsent, queued once, or with one worker)
  and `Answer(c)` (what the client has, then what is queued for it, are chunks 1, 2,
  ... up to the one its worker sent last). The hypothesis is needed: with one id for
  two requests the clients take each other's chunks.

`ThreadPoolProofs`, for any number of workers and any loops:

* `EachTileAlwaysOnce`, `ClosureAlwaysAlive` and `NeverStaleFlag`, if one thread pushes
  (`OneCaller`, the default of `startService()`); the first also needs that steps
  divide their ranges (`StepsDivide`): the last iteration of any other loop is lost, a
  hazard `PROJECT.json` lists. With two threads that push, the run `ThreadPool_forks`
  refutes it. The invariant `PushInv`
  says what a set flag means at each place of `push()` and of a worker
  (`FlagsMeanWork`, `Progress`): the iterations done so far are exactly the shares of
  the threads whose flag was set and is cleared again. That the shares of the threads
  partition the loop is a lemma about `Share`.
* `PoolAlwaysComesBack`, with one session at a time (`OneSession`), whoever else pushes.

`SchedulerProofs`, for all requests, limits and answers of the runner:

* `RunnerAlwaysMatches` and `RunningAlwaysBounded`; the invariant `LiveInv` adds
  `Phases`, what holds at each `pc`.
* `TypeAlwaysOK`, `AlwaysStreamedInOrder` and the action property `AlwaysSilentAtEnd`;
  the invariant `PlaceInv` says that a request is in one place only (the socket,
  `waiting`, `pending`, live, finished and to be sent, dropped: `Places`), where a request
  that is over may still be (`Marks`), how many tokens it has (`Numbers`) and what was streamed of
  them (`Streams`). None of the three is inductive without the places: a request in two
  queues would be streamed twice.
* `BudgetAlwaysExact`: `used_tokens` is a sum over the live requests; each action adds,
  removes or changes one summand. It needs both invariants above.

`KVAllocatorProofs`, for every pool size, page size, `need_sort` and set of callers:

* `TypeCorrect`, `OneHomeAlways` and the refinement `ImplementsOwnership`. The inductive
  invariant is `TypeOK /\ OneHome`; that an allocation hands out unowned pages rests
  on held pages not being free, which a deferred free keeps only because the pending
  group is disjoint from the lists.
* `NoneAlwaysMeansExhausted`, for pools whose last page is whole (`NoShortPage`, so for
  page size 1, which the model runner uses). With a short last page it is not so:
  `free_slots` may have the pages and not the slots, and is then not merged.

`AscendMemoryPoolProofs`, for any threads, storages, sizes and pool of 32-byte units:
`BlocksAlwaysApart` and `StoragesAlwaysMatchBlocks`. `PoolInv` says that ids are given
in order, that `cur_mem_ptr_` is a multiple of 32 and that every block lies below it;
then aligning the start costs at most 32 bytes, and comparing with `>` leaves that
much. `CallInv` says what each call under way holds between its two mutexes: its
block is used, in no entry of the map and in no other call; entries lead to the
block at their address, so adding one never overwrites another.

`QnnAOTRuntimeProofs`, for every context length, `ar_len`, number of rows and of calls:
`AlwaysAttendsExactly` and `WritesAlwaysStayInside`. The invariant says where the tokens of
the call lie in the flat buffer for the graph that runs next (`Placed`) and what the
masks show (`Masks`). The main lemma, `RowsArrive`, is about `Rearranged`: moving
the rows in the order the code chose never overwrites a row that is still to move,
for growing rows and for shrinking ones.

`ModelRunnerProofs`, for any requests, prompts, batches, rows and slots, with and
without the prefix cache:

* `LocksAlwaysCounted` and `ProtectedAlwaysExact`. The invariant `LockInv` says of the
  tree that its nodes and paths fit together (`Shape`), that a node is locked once for
  each request that reads through it (`Held`) and that `protected` counts the tokens
  of the locked nodes (`Charged`). None is inductive alone: a split copies a lock, an
  eviction must not take a node that somebody holds.
* `ReadsAlwaysOwnPrefix` and `AlwaysOneOwner`, for every behaviour of `CarefulSpec`:
  any finite set of requests on any number of rows, which are used again, and prompts
  with earlier answers in them; only the steps on which the excess read of a release
  (section 5) can do harm are left out, and with them `ModelRunner_rows` refutes
  `AlwaysOneOwner`. So nothing else breaks the ownership of slots. The invariant
  `SlotInv` says where each slot is (`Owned`), what each row holds (`RowInv`: slots with
  the data of the request's own tokens, the tree's slots up to `protected`, anything past
  the written positions), that each free row is no request's (`Spare`), that a live
  request holds its whole prompt (`HoldsPrompt`) and that this is cached with its slots
  (`NoneMissing`). It rests on `LockInv`: what a request reads from the tree is locked, so
  an eviction for somebody else leaves it there. `HoldsPrompt` is needed at a release: the
  path it caches without a slot is new, so it is on no live request's prompt.
  The main lemmas are `AllocHands` (what an allocation with evictions hands out had
  no owner), `SharesDivide` (the new slots of a batch are divided among its requests by
  the running sum of their lengths), `OwnedInsert` (a row is handed to the tree, which
  takes what it lacks, and the rest goes back) and one lemma per action.
* `TypesAlwaysOK`, for the same behaviours: outside them a locked path may have no slot,
  and `protected_size()` then exceeds a small pool. While the process is up, `LockInv` and
  `SlotInv` imply the types; they say nothing once an allocation raised, so the memory
  that an extend or a decode leaves then is looked at step by step: `UnlocksKeep` shows
  that `_unlock_matched_nodes()` takes back what the batch locked, also after evictions
  by the failed attempts. The bound of `protected` needs that tokens of nodes are paths,
  each of one node (`TokensArePaths`), and that a locked path is cached with a slot that
  no other path has (`ProtectedBound`).

`DataTheorems` holds what these share about finite sets, sums and sequences. Its
induction principles (`FiniteInduction`, `NatInductive`) are stated about sets
instead of predicates, so that they can be cited; with them the sums of the
scheduler and the loop of `Rearranged` are within reach.

Only model-checked, on the runs' instances:

* liveness (`PushReturns`, `DestructorReturns`, `RequestIsTaken`, `StopReturns`,
  `EveryFittingRequestEnds`): fairness and ENABLED are outside the prover's reach;
* the buddy pool, the C++ prefix caches and the session;
* `PagedOwnership`, which is `ImplementsOwnership` for the second instance of its run.

## 5. What disagrees with the code's own words

Each has a violation run and an entry under *findings* in `PROJECT.json`.

1. Two threads that push share one task slot; a push returns with iterations not
   run or run twice, although modules may be forked.
2. A chunk may wake the wrong client, and the one it is for sleeps on.
3. The C++ radix tree walks on below an edge that matched only in part: K and V of
   other tokens are reused.
4. A blob of fewer than 64 lanes has a bitmap of 64 bits: the first token beyond a
   sliding window of 8 gets an address in a blob that does not exist.
5. pymllm: a release reads one position too many and caches the index a
   predecessor left in the row.

## 6. Plan

Done: the modules above. Next, in this order:

1. Proofs: the C++ session (`Qwen3Session`), whose tree stops at a branching where that
   of pymllm splits; `Tiled` and `UsedExact` of the buddy pool, by halving blocks.
2. **RequestPipeline** (pymllm): request states, aborts that overtake requests, both
   receive paths, stale cleanup; every caller gets one final answer.
3. **RadixCache at node level** (pymllm): window tombstones, pages above 1.
4. **HybridState**: GDN track slots and the Mamba tree; **CudaIpcPool**.
5. Blobs of ZenFS on disk with `finalize()` and `recover()`.

## 7. Not modelled

Most lines of the C++ library are outside a state machine's reach, so the modules
cover a small share of them however much of the stateful code they model:
vectorised kernels of the CPU, OpenCL, CUDA and Ascend backends, vendored headers
and libraries, Unicode and quantisation tables, model definitions (a list of
operator calls each), the tensor library, the IR and its passes. Their correctness
is about numbers, graphs and layouts of data, where a bounded instance says
nothing and there is no behaviour over time to check.

Of the stateful parts left out: dispatchers and tasks (scheduling is done by the
vendored stdexec), dynamic and static KV caches (one counter each), the small-object
cache of the buddy pool (off), blobs on disk, full-attention layers of
`CpuPrefixCache`, thinking mode of the session, and in pymllm what the plan lists.
Time, sampling, text and images, HTTP formats, statistics and logging are left out
throughout.

## 8. Running the checks

    tlc -workers 2 -config Service_pool.cfg MCService.tla
    tlapm ServiceProofs.tla

Run times: `Scheduler_serving` two to three minutes, `Caches` and
`Service_pool` one to two, all others seconds.
