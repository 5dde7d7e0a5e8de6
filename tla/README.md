# Verification of the LLM serving runtime

TLA+ models of the serving runtime in `src/`: a C++ server that batches the requests of many clients
onto one language model. TLC checks the models on small instances, TLAPS proves the central theorems for every
value of the constants. `PROJECT.json` lists the components, the runs, the hazards with the
properties that cover them, and, for each definition, the source lines it stands for. Paths below
are relative to `src/`.

To repeat the checks: `tlc -config MCEngine.cfg MCEngine` and so on for each configuration;
`tlapm EngineProofs.tla` and so on for each module named `...Proofs`. Every run ends in minutes.

## 1. Inventory

```
 HTTP clients                                       signal / shutdown marker
     |                                                        |
 +---v----------------- http_server.cpp ----------------------v---+
 | handlers (threads of the HTTP library), ResponseDrain, monitor |
 +---+-------------------^----------------------+-----------------+
     | submit, cancel    | events (bounded)     | stop
 +---v-------------------+----------------------v-----------------+
 | engine.cpp: client threads  <- mutexes ->  one worker thread   |
 |   schedule_batch   BlockPool   PrefixIndex   (worker only)     |
 +---+--------------------------------------------------------------+
     | ModelRunner: forward, share_prefix, clear_sequence, token_piece
 +---v-----------+  +---------------------+  +--------------------+
 | MiniRunner    |  | MiniCudaRunner      |  | LlamaRunner        |
 | Runtime       |  | CudaRuntime         |  | (external library) |
 | PagedKV       |  | PageTableState      |  +--------------------+
 | Parallel-     |  | BatchState          |
 | Executor      |  | GPU stream          |
 +---------------+  +---------------------+
```

| Component | State | Operations | What is hard | What makes it correct |
|---|---|---|---|---|
| Engine (`src/engine.cpp`) | request handles with bounded event buffers; `incoming`, `registry` (by id), `stopping`, `failed`; the worker's `waiting`, `active`, free sequences, cache | `submit`, `cancel`, `next`, `stop` by clients; expire, admit, iterate, publish, cache, finish, terminate by the worker | races of submission with stop and failure; reuse of an id; slow clients; a runner that throws at any call | each accepted request gets exactly one terminal event, last; what it held is given back once; the runner's KV is what the Engine believes it to be |
| Scheduler (`src/scheduler.cpp`) | none | `schedule_batch` | one token budget for decodes and prompts; the order of priorities | a batch is never empty nor over budget |
| BlockPool (`src/block_pool.cpp`) | `refs_`, `free_`, `seen_`, `validation_epoch_` | `allocate`, `retain`, `release` | shared blocks, marks that wrap around, calls that throw half way | a block is counted once per owner; a bad table is refused before anything changes |
| PrefixIndex (`src/prefix_index.cpp`) | trie by namespace and token block, owners, uses | `match`, `insert`, `erase`, `least_recently_used` | a match that is stale after an eviction | a match stands for KV of exactly these tokens in this namespace |
| ParallelExecutor (`src/minillm/parallel.cpp`) | generation, remaining, stop under a mutex; an atomic index; a borrowed body | constructor, `run`, destructor | two condition variables, reuse of the range by the next call, exceptions on any thread | the body is called at most once per index, and for each when the call succeeds; nobody uses a call's range after it has returned; calls return |
| CPU runtime (`src/minillm/runtime.cpp`, `paged_kv.cpp`, `src/mini_runner.cpp`) | sequences as page tables, page references, contents | `forward`, `share_prefix`, `clear_sequence` | copy on write of the last shared page; pages counted in advance; parallel stores | what one sequence does is never seen by another |
| GPU runtime (`src/minillm/cuda/{page_table,batch_state,runtime}.cpp`, `src/mini_cuda_runner.cpp`) | lengths, page table with a plan, phases; the device's copy of the table | the same | a stream that runs behind the host, lengths and pages published by two classes, errors before and after the device has started | pages are exclusive, the device uses the table of its forward, an error that may have changed the device poisons the runtime |
| HTTP server (`src/http_server.cpp`) | stopping and active leases of `ResponseDrain`; what each response has sent | completions (plain, streamed), cancellation, stop | clients that leave, a signal at any moment, a bounded wait | accepted requests are answered in full before the server closes, requests are not abandoned, the service stops |
| GPU storage and layers (`src/minillm/cuda/{storage,context,layer,matrix}.cpp`, `ops.cu`, `attention.cu`) | two arenas of regions, the KV buffers, a stream, the host buffer of an upload; a status word | constructors, plan, upload, the kernels of a forward, destructors | a constructor that fails half way; host memory that a copy reads later; scratch regions that many kernels share; sums that wrap around | nothing leaks or is used after it is freed; regions are disjoint; the device holds the file's weights; a forward computes the model's formulas or reports an error |
| Model files (`src/minillm/gguf_model.cpp`, `qwen3_model.cpp`) | a mapped file, tensors by name | open, check, read rows | numbers in the file that nothing vouches for | no row that is read reaches beyond the file |
| Utf8Buffer (`src/utf8.cpp`) | at most three pending bytes | `append`, `flush` | characters split over tokens, malformed bytes | output does not depend on how bytes are split |
| Configuration (`src/config.cpp`, `kv_layout.h`) | none | `validate`, `validate_mini_cuda_config`, the comparison with a runner's capabilities | two checks of one configuration, arithmetic of limits | a configuration that starts satisfies the assumptions of the other parts |
| llama.cpp adapter, tokenizer, CPU kernels, telemetry, programs, scripts | none that the above depends on | | numerical or external | see section 8 |

**Interaction.** The Engine runs on one worker thread; clients meet it only under three kinds of lock: the mutex of
submissions (`incoming`, `registry`, and the change of `stopping`, which is atomic), a mutex for each handle, and that of statistics.
The scheduler, the pool and the index are called by the worker alone and so each call is atomic.
The Engine computes the next position of a sequence from its own counters, and counts block
*credits*, never the runner's physical pages: both are promises that nothing checks at run time, short
of the failure of the whole service, and they are the reason why `Engine` models the runner's KV and
why there is a module `CreditedRuntime`.

The hazards of the code, each at its line and with the properties meant to catch it, are in `PROJECT.json`.

## 2. The modules

| Module | Models | Extends / composes |
|---|---|---|
| `RequestStream` | *abstract*: what a client may rely on | |
| `CreditPool` | *abstract*: a pool of block credits | `BlockCredits` |
| `BlockCredits` | operators on reference counts and tables | |
| `BlockPool` | `block_pool.cpp`: LIFO stack, epochs, misuse | `BlockCredits`; implements `CreditPool` |
| `Scheduler` | `schedule_batch` | |
| `PrefixCache` | operators: what the Engine relies on from `PrefixIndex` | |
| `PrefixCacheSpec` | *abstract*: the same as a component with calls and answers | `PrefixCache` |
| `PrefixIndex` | `prefix_index.cpp`: tries, owners, pruning, clock | implements `PrefixCacheSpec` |
| `Engine` | `engine.cpp` | `Scheduler`, `BlockCredits`, `PrefixCache` |
| `EngineProperties` | its properties | `Engine`; implements `RequestStream` |
| `ParallelFor` | *abstract*: a parallel loop, with how often the body was called for each index | |
| `ParallelExecutor` | `parallel.cpp` | implements `ParallelFor` |
| `KvStore` | *abstract*: a store of sequences, answering from what was appended | |
| `PageTable` | `page_table.cpp` | |
| `CudaRuntime` | `batch_state.cpp`, `runtime.cpp`, runner and stream | `PageTable`; implements `KvStore` |
| `SharedKvStore` | *abstract*: the same with shared prefixes | |
| `PagedKV` | `paged_kv.cpp` | |
| `CpuRuntime` | `runtime.cpp`, `mini_runner.cpp` | `PagedKV`; implements `SharedKvStore` |
| `CreditedRuntime` | the Engine's credits against the runtime's pages | `CpuRuntime` and the credit rules of the Engine |
| `HttpServer` | `http_server.cpp` | relies on the Engine's `AcceptedEnds` |
| `Utf8` | `utf8.cpp`, and the meaning of a byte string by the Unicode table | |
| `TextStream` | the text of a request, token by token | `RequestStream`, `Utf8` |
| `Config` | `config.cpp`, `kv_layout.h`, capabilities | |
| `GgufFile` | the checks of `gguf_model.cpp`, `qwen3_model.cpp` | |
| `MemoryPlan` | `make_memory_plan` of `storage.cpp` | `GgufFile` (for the range of numbers) |
| `CudaStartup` | the life of a `CudaRuntime`: `runtime.cpp`, `storage.cpp`, `context.cpp` | `MemoryPlan`, `Config`, `GgufFile` |
| `DeviceForward` | the kernels of forwards: `layer.cpp`, `matrix.cpp`, `ops.cu`, `attention.cu` | `CudaStartup` |
| `MC...` | instances for TLC | |
| `CommonLemmas` | lemmas: quotients, tables and their concatenation, counting, and induction over numbers, finite sets and sums | |
| `EnginePartsProofs`, `EngineProofs`, `CpuProofs`, `CudaPagesProofs`, `ThreadProofs`, `StartupProofs`, `ForwardProofs` | theorems and lemmas | |

Beside some definitions stands one whose comment begins with "Slip": the same definition with a plausible
mistake in it. None is used by a specification; each was put in place of the right one
once, to see that a property notices.

### Engine

`pc` names the point the worker has reached; a step runs to the next point at which another thread
can see or change something or the backend can fail. `incoming`, `registry`, `stopping`, `failed`
have the source's names; `item[r]` is the `Active` object (sequence,
blocks, processed, generated, done); `events[r]`, `finished[r]`, `cancelled[r]` belong to the
handle, and `late[r]` says that its deadline has passed. `kv` is external: what the runner
holds for each sequence, each cell a token with the namespace it came from.

- *Clients*: `Accept`, `Reject`, `ClientNext`, `Cancel`, `Stop`, and the clock's `late`. A request
  is submitted once, and two requests may carry one id.
- *Worker*: sleeps and wakes, drains submissions, expires, admits (match, evict one entry and match
  again, reserve, share, publish), plans and runs a batch, collects and checks samples, handles them one
  by one (drop, emit, cache the prompt, finish), and, after `stop` or an exception, `terminate_all`,
  which may throw and be started again.
- `terminal()` counts and unregisters a request, then emits the terminal event after the
  mutex is released: `ending` names the request between the two steps, and other threads may run there.
- The order that `stable_sort` leaves depends on the clock, so every order is possible. A runner failure
  is a choice at each call (one choice per step, where several calls fail alike). Sampling an end
  token is a choice. Which free block or sequence is taken matters to no property, so `Engine` takes any
  or the least; the stack itself is in `BlockPool`.
- History only: `published`, the requests that got a token from the current batch.

### Block pool

`Allocate`, `Share` (retain by a second holder) and `Release` are the calls of the Engine;
`Misuse` calls `retain` or `release` with a table that is not valid, among them unknown,
repeated and unused blocks. `Throws` is the loop as it runs, mark by mark, up to where it
throws; `ValidTable` is what it ought to decide. The epoch has a finite width, so that the reset of the marks
on wrap-around is reached.

### Parallel executor

A step is one critical section, an atomic claim (`fetch_add` modulo `Wide`), a notification,
or the body on one chunk. Condition variables may wake spuriously. A body may throw on any
thread. The callers' grains are 16, 1 and 256, far from where the index would wrap around.
`ParallelFor` holds how often the body was called for each index (`times`) and the indices that bodies are at work on (`open`): a body
may only be called for indices for which it was not called before, and a call returns when `open` is empty. Threads go on claiming
after another's body has thrown, as in the code.

### GPU runtime

The host checks a batch, plans pages (`Prepare`), starts the device, enqueues copies and kernels on a
stream, waits, and publishes lengths and pages at once (`Commit`). The device runs behind: it
reads the host's buffers when it *reaches* a copy. `Fail` may come at any point of
enqueueing and waiting. `throughRunner` says whether `MiniCudaRunner` is the caller, which never calls again after an
error; without it the runtime must protect itself.
The table is uploaded when a plan has pages or the table is *dirty*; the second is never needed for a correct answer,
since a sequence that was cleared must get a new page before it is read.

### CPU runtime

`Forward` checks a batch and the pages it will need; `AppendNext` appends position by
position, with `appended to a shared page => copy`; then `Store` steps of the threads in any order; then
attention. `Fail` leaves the KV as far as it had come, as the code does (the Engine then stops for good).
Pages that are freed become `Junk`, which no answer may contain.

### Credits against pages

`CreditedRuntime` drives `CpuRuntime` as the Engine does: reserve credits for a whole request, share whole blocks of
cached prefixes, feed batches, cache, evict, finish. What must never happen is that `forward` would refuse a batch within the limits of its requests (`NeverRefused`).

### HTTP server

`at[r]` is where the handler of `r` is: lease, submit, provider of chunks or collection of events, reply. `gone` holds the
clients that left or read too slowly for the write timeout. Of the HTTP library we use that a
chunked response ends early once the listening socket is closed, and that `listen()` returns when handlers are
over. The monitor refuses leases, stops the engine, waits (for at most 6 s: the wait may run out at any
moment while leases are held), and stops the server.
The tokens of a request are numbered: `given[r]` is how many the Engine has put into the handle, `text[r]` what a handler without
a stream has collected (its response is sent at once, at the end), `sent[r]` what the client was sent. `Complete` asks for the tokens 1 to `given[r]`, in
this order, and the end: a token lost, repeated or out of place on the way from the handle to the client would be seen.

### Prefix index

A node of a trie is named by its namespace and the path that leads to it; `nodes` maps the paths that exist to their
owners. `Insert`, `Erase`, `Match` and `Least` are the calls, `Refuse` the calls of `insert` that throw. `Erase` removes the
owner from its path and prunes bottom-up. The abstract side is the function from sequences to entries, and the
order of use, that `Engine` works with through `PrefixCache`; `answer` holds what a call returned, so that the refinement
compares answers as well as contents.

### Text of a request

`Utf8` is `drain()`, byte by byte. `Meaning` says what a *whole* byte string means, position by position and by the Unicode table of
well-formed sequences, with no loop and no pending bytes; `TextIsExact` compares the two. `TextStream` puts the texts into the
events of `RequestStream`, so that the terminal event takes along what is pending, and a client that is too slow loses an event.

### Start, upload and forwards of the GPU runtime

`pc` names the member that is being constructed. `stack` holds what is complete, and the waits that handlers and destructors owe
(`"finish"`); `held` the resources in our hands (`Parts`), which a constructor takes one by one. `Throw` may happen at every
point: the constructor's own handler gives back its parts, and `Unwind` runs the destructors. The device executes `stream` when it
likes, and reads host memory when it gets there; it may be lost for good at any time (`Lose`), after which nothing on it can be freed.

- *Checks* before construction: `Config` (twice: once by the server for `MiniCudaRunner`, once by the runtime), the bounds of every
  tensor, the shapes and types of those that the model uses, the memory budget.
- *Plan*: `Place` lays an item at the next aligned offset of its arena. `SizeMax`, `ExtentMax` and `DimensionMax` are
  the ranges of `size_t`, of the metadata's extents and of `int`, so that wraps happen on small instances.
- *Upload*: `Decode` fills the host buffer with whole rows, `Copy` enqueues, `Await` waits and moves on. Bytes of buffers
  are modelled one by one, as *whose* byte they are.
- *Forward* (`DeviceForward`): `Work` is the program of kernels that the host enqueues for a batch. A region holds the name of the value
  it was computed to be; `Formulas` states the model's formulas independently of regions and order. A product may overflow anywhere, `bad`
  says which regions are not finite; kernels that watch for it set the status.

## 3. Runs

| Run | Instance | Shows |
|---|---|---|
| `engine_sharing` | 3 requests, two under one id, two namespaces, prompts with a common block; 2 active, queue 2, buffer 1, one cache entry, 5 blocks of 2 tokens, budget 3, `mixed` | registry, block counts and KV stay exact under sharing, eviction and cancellation; an idle pool fits; batches fit the budget |
| `engine_faults` | 2 requests, 6 blocks, budget 4, chunk 2, `prefill_first`, a deadline, a cancellation, the backend fails at any call, under `FairSpec` | exact counters and sequences, no request is lost; implements `RequestStream`; requests end, `stop()` returns |
| `engine_partial_batch` | as `engine_faults` | **violated**, see section 7 |
| `block_pool` | 3 blocks, 3 holders, 2-bit epoch, misuse by tables of up to 2 entries | exact counts and validation; implements `CreditPool` |
| `parallel_executor` | 3 threads; ranges of 0, 1 and 5 indices, grains 0, 1, 2; 2 calls, then the destructor | implements `ParallelFor` (the body is called for no index twice); calls return |
| `cuda_runtime` | 2 sequences of at most 3 tokens, 3 pages of 2, batches of 2 | pages exclusive, lengths and pages agree, device uses the right table; implements `KvStore` |
| `cpu_runtime` | 2 sequences of at most 4 tokens, 3 pages of 2, batches of 3 | page counts exact, pages counted in advance suffice; implements `SharedKvStore` |
| `credited_runtime` | 2 requests, 1 cached prefix, 4 pages and credits, 5 tokens | a batch of admitted requests is never refused |
| `prefix_index` | 3 sequences, 2 namespaces, 4 lists that share, end inside and branch off each other, blocks of 2, 4 uses of the clock | no node without owner; implements `PrefixCacheSpec` |
| `text_stream` | one request, buffer 1, up to 4 bytes in tokens of one or two, one byte from each range that UTF-8 tells apart | the client's text is the meaning of the bytes |
| `cuda_startup` | 14 starts: good files and files with one fault each, F32 and F16, paged and contiguous, configurations that start or do not; `size_t` up to 8191; 2 layers, 2 forwards | nothing leaks, no use after free, disjoint regions, exact upload, exact forwards and status, sound configurations; construction ends |
| `http_server` | one streamed and one plain request, 2 tokens each | complete answers, none abandoned, the drain is final, the service stops |

**Why the bounds are enough to meet the interesting cases.** In `engine_sharing` the pool holds fewer blocks than
the requests need together, so admission waits and evicts; one cache entry forces eviction on the second prompt;
`r2` carries the id of `r1` and may be submitted while that one is being ended; a buffer of one token makes
backpressure an ordinary event; a prompt of three tokens over blocks of two has a shared block and a
rest. In `engine_faults` prompts need two slices, so that failures come half way through a prompt.
A 2-bit epoch wraps around every few calls. Five indices in chunks of two, on three
threads, give a chunk cut short and threads without work; two runs give a helper that is late for the first while the second begins.
In the runtimes three pages for two sequences make pages scarce, and pages of two tokens make both full and partial pages, the latter
shared in `cpu_runtime`. In `prefix_index` a list ends in the middle of another's path, two branch after a common block, and one is no whole number of blocks.
In `text_stream` four bytes hold every longest character and every malformed beginning of it, and tokens of two bytes
cut each of them anywhere. In `cuda_startup` the staging buffer holds one to three rows, so that weights go up in several chunks; one file's offsets and
another's row size wrap around the small `size_t` exactly to values that a careless check would take; two layers and two forwards
reuse every scratch region; one operation in flight suffices, since the host waits for nothing between enqueueing and the end (more would only delay what is executed in order).
Every run exhausts its state space; no state constraint is used. Deadlock is checked everywhere but in
`text_stream`, where clients owe nothing and may stop for good; the terminal states of the other modules are explicit
stuttering actions (`Stopped`, `Gone`, `Served`).

Bounds by name: `MaxRuns` (calls that reach the helpers), `Wide` (for 2^64), `EpochLimit` (for 2^w),
`MaxTokens` in `HttpServer` (tokens the Engine gives to one response), `MaxLen` and `Context` (tokens of a sequence),
`ClockMax` (inserts and matches of a `PrefixIndex`), `BytesMax` (bytes of a request), `ForwardsMax` and `QueuedMax` (forwards of a runtime, operations in flight).
In `Engine` nothing is cut off: requests are finitely many, each submitted once.

**Symmetry** is used in the runtimes, for slots, pages and tokens, which occur symmetrically, and only with safety properties.

## 4. Fairness

- `Engine`: `WF_vars(Worker)`. The worker is a thread the system schedules, calls of the backend return or throw, and its condition variable is
  notified under the guard it waits for. Clients owe nothing: `AcceptedEnds` holds though nobody reads, and this is why events
  are bounded by backpressure.
- `ParallelExecutor`: weak fairness for the caller's own steps inside a call and for each helper. Spurious wakeups are allowed and not relied on; nobody has to call or destroy.
- `HttpServer`: weak fairness for the monitor, for the return of `listen()`, for each handler, and for `EngineEnds`. The last is
  the Engine's `AcceptedEnds`. Clients and signals owe nothing.
- `DeviceForward` (for `CudaStartup`): weak fairness for the host's next step, for the device's next operation, and for a forward's failure. That no step of the host is
  disabled for ever is part of what `StartupEnds` shows; whether somebody destroys the runtime is left open.
- The other modules have no liveness properties.

## 5. What is proved

The theorems hold for every number of requests, blocks and holders, every prompt, id, limit and width, and from
the named assumptions in the modules (`EngineAssumption`, `PoolAssumption`, ...; `NoReason` says that the symbol for "not ended" is none of the reasons to end), which repeat what `EngineConfig::validate` and the
constructors enforce, and which TLC evaluates in the runs.

**`EnginePartsProofs`**, of the pool: `TypeCorrect`, `ReferencesExact`, `ValidationExact`, `PoolImplementsCredits`. The
invariant adds to the exact counts that no mark is greater than the epoch: only then is the next epoch new to every block (`EpochIsNew`), so that the loop throws
exactly on tables that are not valid (`ThrowsIsExact`), also in the first call after a wrap-around and after calls that threw half way.
The counting of holders rests on `OneMore`, `OneLess` and on lemmas about concatenated tables in `CommonLemmas`.
Of the index: `TrieExact`, `MatchLongest`, `UsesDistinct`, `TrieImplementsCache`, for any tokens, lists, namespaces and block size, from `IndexAssumption`. `TrieIsExact` is inductive with no more than the types of the entries. What carries it is that a path which reaches a node has gone through
every node above it (`PathGoesThrough`), and that what is below a node is reached only through it (`BelowMeans`, `PathBelow`): so the nodes of an erased path that have lost their last owner are a tail of the path, the cut takes the whole tail (`EraseKeeps`), and what lies below the cut had
no other owner. For the same reason the nodes that a lookup finds are a beginning of its list, so that the walk may stop at the first one missing (`WalkedIs`), and the last boundary of a block on the way is the longest match (`ReusedIs`, `LongestIs`).
`TrieImplementsCache` refines `PrefixCacheSpec`, the index the Engine relies on. The order of use is the one list of all entries by increasing time (`OneUseOrder`): since every use is later than all before it, an insertion appends to it, an erasure cuts one place out, and a match does both (`UseAdded`, `UseRemoved`).
The count of tokens stays the sum over the entries (`CacheInv`, `TokensAdded`).
Of the text: `TextExact`, for any byte strings as tokens (`TextAssumption`). A round of the decoder's loop takes one character, or one replacement for a malformed piece, and this is what the meaning of the bytes begins with (`FirstIs` against the Unicode table, `BeginsIs` for beginnings
that are still to be completed). Nothing in the meaning reaches across the end of what is taken (`Closed`), so the meaning splits there (`MeaningSplits`), and a round that has enough bytes does the same whatever comes behind them (`Extends`, `MeaningMore`). That the recursive loop
has a value at all is shown from the end of the buffer backwards (`RoundsExist`); then `Delivers` and `Finishes` say what one call of the decoder leaves. The invariant (`TextInv`) compares two byte strings by their meaning before every continuation (`FedAs`): all bytes so far mean what was sent, followed by what is held back.
It quantifies over all strings, so TLC cannot evaluate it; TLC checks `TextIsExact` itself.
Of the scheduler: `PlanIsOne`, `PlanWastesNothing`. The model says what a greedy allotment is; that there is one is shown by the number of prompts looked at (`AllotmentExists`), that there are not two by going along both (`AllotmentsAgree`). So the worker is never without a plan when it runs a batch, since a request that still
prefills has something left of its prompt (`KvInv`).

**`EngineProofs`**: `RegistryExact`, `NoneLost`, `CountersExact`, `EngineStreams`, `TerminalLast`, `BufferBounded`, `SequencesExact`, `BlocksExact`, `IdleFits`, `KvHolds`, `BatchesFit`. Neither `RegistryIsExact` nor `NoRequestIsLost` is inductive. The invariant
`IInv` adds that everything the worker goes through has been accepted (`AcceptedOnly`), that a request that has ended can never be
ended again though it may still be in a list (`EndsOnce`), and that nothing comes in once `terminate_all` has drained (`DrainsLast`). A step of the worker has many
branches, and few of them concern these properties; `StepKinds` shows that each step is one of a handful of kinds: *quiet* (touches none of it), *moves* requests among the collections, *ends* one
request, emits its terminal event, or is a client's. Each kind preserves `IInv`, once and for all. `EngineStreams`
is the refinement: every step maps to a step of `RequestStream` or to a stutter. What `RequestStream` promises (`TerminalLast`, `BufferBounded`) is proved of it, and so holds of the Engine; its invariant says that a stream that is
not closed has at most `Capacity` events in its buffer, so that there is room for the terminal one, and that a terminal event comes last.
The accounts of slots and blocks are proved step by step, from two further invariants. `Exclusive`: the collections stay apart, nobody is admitted or finished twice, the order of use lists every cache entry once,
and a match found earlier in an iteration still names an entry that is there. `Credited`: a running request keeps a table for its whole budget and a cache entry the blocks of its tokens, so what `admit()` shares and
`cache_prompt()` copies is always in the table it is taken from; with the lemmas of `CommonLemmas` the reference counts follow.
`KvHolds` needs to know what the KV cache holds in each phase of an iteration (`KvInv`). A request that is not done is in one of three states: *steady* between batches (its sequence holds the prompt as far as it is processed and
all generated tokens but the last), *sliced* while a batch is planned or running (the slice that is asked for is what its text has next), *sampled* when the batch has come back (the KV is one slice ahead of the
counters until the loop gets to this request). Exempt are those that need not be right any more: a request that expired meanwhile, whose sample is dropped, and all of them after an exception, when nothing is asked of the runner but to
clear. Every cache entry holds its tokens (`EntryWritten`), from the moment `cache_prompt()` shared them until it is evicted; that a match found earlier in the iteration still holds what is then shared is `ReusableMatches` with `EntryWritten`.
`WithinBudget` bounds what is generated, so that no request asks for positions that its credits do not cover.
`BatchesFit` is about sums: the tokens a batch feeds are what the sum of the lengths of all active sequences grows by. A batch makes the sequence of each decode grow by one and the sequence of each prefill by its slice, no sequence twice, so that the
sum has grown by the number of decodes and the sum of the slices (`Grows`, `SumGrows`), and what the scheduler allots is cut to what is left of the budget (`AllotmentFits`, `PlanFits`). That it feeds a token at all takes two more invariants (`Feeds`): a batch is run only when a request is active (`SomeoneActive`), and by `KvInv` an active request decodes or has something left of its prompt. The library's induction takes an operator as its
parameter, which the provers cannot instantiate; `CommonLemmas` does without, by taking the *set* of numbers, or of subsets of a finite set, that are good, and a least one that is not (`AllNumbers`, `AllSubsets`). From that it has that sums exist, and how they change when a term is added, moved or renamed.

**`ThreadProofs`**, of the parallel executor: `NobodyOutlives`, `IsLoop`, for any number of threads, calls, ranges and grains. `NobodyOutlivesTheCall` is proved by an invariant (`Calm`) that counts: while the executor is not
stopping, `remaining` is the number of helpers that owe a report for the current generation. Notifications do not matter to it, only what a
helper finds when it wakes up. `IsLoop` is the refinement of `ParallelFor`; its invariant (`LoopIsCovered`) says that claimed chunks are disjoint, that the body was called once for each index below the shared counter
and for none above it (`CallsAreCounted`; `times` counts the calls), that every index below the counter is done,
in somebody's chunk or abandoned by an error, and that the counter cannot wrap around while anyone may still claim (`NoWrap`, from the bound on grains in `ExecutorAssumption`).
Of the HTTP server: `TypeCorrect`, `Answered`, `NotAbandoned`, `DrainStaysFinal`, for any set of requests, finite or not, and any number of tokens. The invariant counts: `active` is the
number of handlers at a place where they hold a lease (`LeasesAreCounted`), so that a drain that has come to an end means that no handler is inside (`Drained`). For each request it tells the `Story`: where its handler
is (`Stands`), how what was sent and what is still to be given fit together (`Says`: the client or the collecting handler has heard the tokens 1 to *k*, and the handle holds those from *k* + 1 to `given`; once the request has ended the terminal event comes after them, until it is taken), and what a handler that is over
owed its client (`IsAnswered`). A step concerns one request; `Elsewhere` does all the others at once.

**`CudaPagesProofs`**: `PagesStayExact`, `IsStore`, for any number of sequences, pages, tokens of a page and limits of a batch. The invariant relates the committed table, the plan, the free pages and the lengths in each phase:
a plan takes pages from the free ones (`prepared`) that are then no longer free (`executing`), and the table in preparation maps what the committed one maps and the plan (`PlanIsExact`), one page for each block that
the new lengths need (`Covers`, with lemmas about rounding up in `PagesOfLengths`). `PhasesAgree` says that the host and the two classes go through their phases together; it is what makes the branches that poison the table
out of order unreachable in a runtime that is healthy. That as many pages are mapped as places use one follows from a bijection (`OnePlaceEach`).
`IsStore` refines `KvStore`. Its invariant (`StoreInv`) says how far the device has come by what it still has to do, on the stream or not yet enqueued (`ToGo`): once the table is copied it is the plan's, once the inputs are copied they are the batch's, and when
nothing is left each new position is in its cell and the answers were read through the plan's table (`IsComputed`). That the upload of a table that is not dirty may be left out is part of it: between calls the device's table is the committed one unless it is dirty. The plan extends the committed table (`Extends`) and gives every position
a cell of its own (`PlannedCells`), so a kernel that runs, even after its call has failed, writes nothing that a sequence has.

**`CpuProofs`**: `RefsExact`, `Covered`, `IsStore`, `NotRefused`, for any number of sequences, pages, tokens of a page and batches. The invariant of the first two is `PagesExact` (a page's count is the number of sequences that map it; pages with
count zero are free; each length has just the pages it needs) with `Running`: the pages still to be taken by the rest of a batch, one for each position that begins a page and one for each entry whose last page is partly filled and shared, are at most the pages that are free.
`IsStore` refines `SharedKvStore`: a sequence holds in its pages, position by position, what was appended; a store hits only pages that no other sequence maps (copy on write has made them so), and no two positions of a batch share a cell (`InputsApart`), so that the order of the
threads' stores does not matter. `NotRefused` composes this with the Engine's credits. Its invariant `CreditInv` says that credits are exact, that a request's table covers its whole budget, that
prefixes are shared in whole pages only, and that the pages of a sequence belong to blocks of its owner. The pages a batch will take inject into credits that are reserved and not yet backed by a page, and the credits that are
backed cover the pages in use: both by counting arguments over explicit functions.

**`StartupProofs`**: theorems about everything that may be in a file or a configuration, and every size of the machine's numbers.
`ConfigSound`: what the checks accept is what the Engine takes and what the KV cache covers; the arithmetic is in `AcceptedConfig` (pages of 16, at most 4 sequences, products and quotients of limits).
`RegionsDisjoint`: by the invariant that an arena ends where its last item ends, and that `Aligned` rounds up by less than `Alignment`.
`RowsStay`: a tensor that passed `Inside` and `Viewable` has all its rows in the file although `RowBytes` may wrap around, because its columns are at most `ExtentMax * ExtentMax` (`ColumnsAreBounded`), which the shape check of the *model* guarantees and the tensor's own checks do not; the invariant `Checked` says which
checks lie behind each `pc`, and `WeightsAreListed` that the upload's item is a weight of that model.
`NoLeak`: every resource that is held is owed to the constructor at work, to an object on the stack, or to a device that is lost (`HeldIsOwed`).
`MemorySafe`: an invariant (`MemoryInv`) says what exists at which `pc` and how large it is (`Allocated`), and that whenever something is in flight a wait is on top of the stack, or right below the staging buffer's own (`WaitsAreOwed`). The operations of
a forward come from a table (`WorkIn`): each writes a region of the plan or the cache, and a region's name finds the item that was planned under it (`RegionFound`), inside its arena; a chunk of the upload lies inside its item since the rows still to come are never fewer than its own (`CopiedIsInside`).
It assumes that the staging buffer has some size (`StagingAssumption`), not that a row fits into it.
`Loads`: what is uploaded is exact. The invariant (`LoadInv`) speaks of a byte's future: `EndsAs` says what it will hold once the device has done what is in flight. Items before the one at work will end as their tables (`UploadedSoFar`), so will the rows of this one up to the
chunk, and the chunk once it is copied (`ChunkWillBe`), because the staging buffer is filled again only after the device has come to the end (`StagingIsChunk`), and because nothing in flight or done later writes a byte of another item (`RegionsAreApart`); an alias is its first of the same name (`AliasesAreFirst`). That the
bytes of a row follow each other, row by row, needs the place of a byte among those of a table (`PlaceInTable`), found by division.
`OperandsAccepted`: the weights of a plan are listed and have the shapes the model asks for (`WeightsAreMeasured`), and regions with different names lie apart (`RegionsAreApart`, from what `RegionsDisjoint` rests on).
The rest goes through the table of a forward kind by kind (`NormsFit`, `ProductsFit`, ...). The one thing that is not local is the rounded input of a product in F16, which must be the last that was rounded before it, and for the operand
the product names: `Fed` states it for a piece of the table, and is closed under joining pieces and under repeating the layer (`Joined`, `EveryLayerIn`), so no induction over the layers is needed. It assumes that `LayerNames` lists the weights of a layer (`StartsAssumption`).

**`ForwardProofs`**: `ForwardExact` and `StatusExact`, the meaning of a forward. Its operations are a walk from stage to stage (`Edges`: 6 stages of the beginning, 26 of a layer, 7 of the selection), and `WorkWalk` shows that the program the host enqueues for a batch, whatever is asked and in either precision, is such a walk, with no
induction over the layers, since walks can be joined and the walk through a layer ends where the next begins. For each stage, `Lives` says which region holds the value of which formula; a finite table of edges is then checked once (`EdgeGoesOn`): the operands of an operation are alive where it stands, what it makes is what
the formula names, and what it overwrites is not alive behind it. The invariant (`ForwardKnown`) is that the device has reached the stage that belongs to the operations it has done (`OnCourse`), while the host runs ahead of it by what is in the stream, and that between forwards the caches hold the rows of the forwards that are over (`HostKnows`).
For the status there are two more tables: `Carriers`, in which region a number that is not finite is still to be found, and `Witnesses`, where one is that no kernel has recorded yet. Every step hands both on, so that at the end nothing is left to be recorded, and nothing that was has been forgotten.

## 6. What is only model-checked

Liveness under fairness: `AcceptedEnds`, `StopReturns`, `CallsReturn`, `StopIsObeyed` and `StartupEnds`. Every other property of a run that passes is also a theorem. The proofs speak of `ENABLED` nowhere.

## 7. What the work has shown

- **A batch may publish part of its output.** `src/engine.cpp:494` says that the whole batch is validated before any token is published, so
  that a later entry that fails leaks nothing. Samples are validated so; but `token_piece()` (`:559`) and
  `finish()` (`:573`, `:575`, through `require_reusable()`) may throw in the publishing loop, after earlier entries have got their tokens. `engine_partial_batch` shows it.
  The streams remain well formed (`IsRequestStream` holds in the same instance).
- The upload of a table because it is *dirty* is never needed for a correct answer: see section 2, GPU runtime.
- The count of pages in `runtime.cpp:199-214` is conservative: each sharer of a partly filled page counts a copy, and the last needs none. The Engine shares whole blocks only, so it is never refused
  a batch for that.
- The wait for the device at the end of `Runtime`'s life, and the order in which a staging buffer and the handler that waits for it are declared, are what keeps a copy in flight from reading
  freed memory: exchanging two declarations breaks `MemoryIsSafe`, and no test would notice.
- Behaviours that are as the code intends or leaves them, and that no property rules out: an admission that does not succeed in the end has evicted the whole prefix
  cache on the way (`engine.cpp:302`); `cancel()` may answer true for a request that then ends with its last token (`:709`); `statistics()` mixes live counters with the snapshot that the worker
  published last (`:729`); under `prefill_first` decodes wait while prompts keep coming (`scheduler.cpp:36`).

## 8. What is not modelled, and why

- *Arithmetic*: what a kernel or a layer computes is a symbol, and overflow a choice; quantisation and sampling are left out.
- *Clocks, latencies, telemetry, digests, the statistics snapshot*: they change nothing the system does. Deadlines and
  timeouts are modelled by what they cause.
- *Validation of requests and formatting of responses*: sequential and without state; the requests of `Engine` are valid ones.
- *llama.cpp adapter, and the vendored GGUF reader and vocabulary*: wrappers and uses of a library that is not in the repository. `Engine` allows any failure the adapter may have, and `GgufFile` trusts no number the reader returns.
- *Where the pages of a forward are*: `DeviceForward` takes the cache of a layer as one; the pages, the table and its upload are in `CudaRuntime`. That kernels have no races among their own threads is assumed.
- *A signal between the start of the monitor and `listen()`*: what `stop()` does on a server that is not yet listening is a matter of the HTTP library; the model begins when it listens.
- *Programs, benchmarks and scripts*: command lines around the components, and offline analysis of what they measure. They keep no state that the service depends on; they are more than a quarter of the code by lines.

## 9. Order of work

Done, in this order: the Engine with its scheduler, pool and cache, and the abstract stream and pool; their proofs; the
parallel executor; the GPU runtime; the CPU runtime and its composition with the Engine's credits; the HTTP server; the start, upload and destruction of the GPU
runtime with its files and configurations; its forwards; the prefix index; the text of requests; the proofs about the parallel executor, the start, the HTTP server, the GPU's pages and the Engine's sequences and blocks; the CPU runtime's pages, its refinement and the credits; the Engine's KV; memory safety and operands of the GPU's forwards; the GPU runtime's refinement; its upload and its forwards; the trie of prefixes, and that it implements the index; the size of the Engine's batches; the text of requests.

Worth doing next: the read-only endpoints of the HTTP server, and the Engine's index replaced by the trie in one composed module, which the two refinements already justify.
