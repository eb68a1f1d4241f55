# llmpager in TLA+

llmpager runs mixture-of-experts models whose experts do not fit into VRAM: an
expert's weights are paged from a pack file into a slot of device memory when
the router asks for them. This directory holds TLA+ models of the parts of it
that have state worth reasoning about, TLC configurations that check them, and
proofs checked by TLAPS.

## 1. The system

| component | state | operations | interacts with |
|---|---|---|---|
| expert cache (`llmpager-core/src/cache.rs`) | slots (expert, use count, pins, ready), one id-to-slot map and insertion count per partition | `acquire`, `lookup_ready`, `publish`, `release`, `decay_all`, `is_wedged` | called under a mutex by the pager, twice: for device slots and for RAM slabs |
| pager (`llmpager-cuda/src/pager.rs`) | one mutex over cache and `fill`, a condition variable, a job channel, device slots, RAM slabs, the io workers' buffers | `request`, `prefetch`, `wait`, `wait_stream`, `release`, `tick`; workers: receive, RAM get, read, RAM put, copy, publish | decoder thread on one side, io threads on the other |
| pack file (`llmpager-core/src/pack.rs`) | header, index, blobs | create, add, finish; open, read | written by the converter, read by the io workers |
| core file (`llmpager-core/src/st.rs`) | safetensors: a header of names, tensors | open, raw, f32 | written by the converter, read once by a loading decoder |
| converters (`llmpager-convert`) | the checkpoint's tensors, a buffered writer | classify, write core, write pack; `convert_kimi` may compress | rewrite both files in place, also under a server |
| CUDA driver and kernels | streams, events, memory | async copies, events, synchronisation | asynchronous to the host |
| decoder (`llmpager-run/src/decode.rs`, `kimi.rs`) | KV cache by sequence slot, ring of deferred releases, the pager | `step`, `step_multi`, `resize_cache`, `kv_export`, `kv_import` | pager, GPU stream; called by the server under a mutex |
| sessions (`llmpager-serve/src/main.rs`) | parked KV blobs, owners of sequence slots, LRU, byte budget | `acquire`, `claim_slot`, `park`, `commit`, `forget` | decoder's KV export and import |
| registry and generation (`llmpager-serve/src/main.rs`) | engines by model, VRAM budget | rebalance, warm-up, single, session and batch generation, slot endpoint | decoder, sessions |
| HTTP server (`llmpager-serve/src/main.rs`) | the request at hand, one thread and one channel per stream, the registry's mutex | accept, dispatch, respond; threads: generate, send events; `ChannelReader` | registry, client |
| quantisation, kernels, sampling, command line, benchmarks | - | - | - |

What is hard here: the pager drops its lock between claiming a slot and sending
the fetch job, and between a slab's claim and its copy; a handle can hit a slot
whose fill is still in flight; releases are deferred until a GPU event has
passed; a failing io worker ends; several stages give up after a partial
change (`request`, `resize_cache`, `claim_slot`, `rebalance`); the converter
rewrites files that a server may have open; a request lets go of the registry
between choosing a template and generating, and a stream's thread holds on to it
when its client is gone; the registry's mutex holds off this process only, so that
other processes on the card allocate between any two steps of a resize; a decoder may
panic or hang with the lock, and a client may stop half-way through a request.
`PROJECT.json` lists these hazards at their lines.

What makes the components correct:

- cache: maps and slots agree; a pinned slot keeps its expert; an unpublished
  slot has one owner; pins equal outstanding handles; a dead expert leaves;
- pager: a handle that was waited for holds its expert's weights; one fetch per
  slot in flight; pins are accounted for; slabs are not copied while written;
  requests and waits return;
- decoder: kernels read the experts they were launched for; a step never waits
  on pins of its own; a resize keeps the decoder in service;
- sessions: a session continues only on its own KV; a slot has one owner; parked
  bytes stay in the budget;
- files: a read gives the expert that was asked for or an error; a finished pack
  can be read in full; what a failed or killed conversion leaves is not taken for
  a pack; a decoder gets the tensors it names;
- server: a generation runs on the engine its prompt was made for; a client gets
  the whole stream once; a request
  is answered unless a client, a hung generation or a poisoned lock holds it up.

## 2. Modules

| module | models | how |
|---|---|---|
| `ExpertCacheOps` | `cache.rs` | pure operators on a record `cache`: one per method, used by every module that owns a cache |
| `ExpertCache` | the protocol of the cache's API | state machine: users acquire, publish, release, tick |
| `SlotPool` | what the cache promises | policy-free abstract specification, refined by `ExpertCache` |
| `Pager` | `pager.rs` | clients and io workers with program counters; two cache records (device, RAM) |
| `Sessions` | `SessionStore` and generation in `serve/src/main.rs` | one record `store`, the KV rows of the sequence slots, the turn in progress |
| `Decoder` | `decode.rs`, `kimi.rs` | the host thread's program counter, the compute stream as a queue, fetches in flight; the cache record of `ExpertCacheOps`, the pager reduced to its promise |
| `Registry` | `Registry`, completions and the slots endpoint in `serve/src/main.rs`; `resize_cache`, `new` and `drop` of the decoders; the arenas of `Pager::new` | warm engines, device memory, the program counter of the request that holds the lock, and the step that its resize or load has reached |
| `Pack` | `pack.rs`, `st.rs`, `convert`, `convert_kimi`, the loading of a decoder | the two files as sequences of units, the converter behind its `BufWriter`, a server that loads, reads and closes |
| `Serve` | `main`, `handle`, the threads of streams and `ChannelReader` in `serve/src/main.rs` | program counters of the main loop and of a thread per stream, the lock, the events of each channel, text as characters of one to four bytes |
| `MC...` | - | bounds and symmetry sets |
| `SharedProofs` | - | lemmas used by several of the proofs: least elements, sums over finite sets, and what acquire, publish, release and decay of `ExpertCacheOps` do to a slot |
| `ExpertCacheProofs` | - | TLAPS proofs about `ExpertCache` and its refinement of `SlotPool` |
| `PagerProofs` | - | TLAPS proofs about `Pager`; the operator lemmas are used twice, for device slots and for slabs |
| `RegistryProofs` | - | TLAPS proofs about `Registry` |
| `ServeProofs` | - | TLAPS proofs about `Serve` |
| `DecoderProofs` | - | TLAPS proofs about `Decoder`, on the same operator lemmas |
| `SessionsProofs` | - | TLAPS proofs about `Sessions`, on the lemmas about sums |
| `PackProofs` | - | TLAPS proofs about `Pack`: what is on disk, in the buffer and in the server, against the files a conversion ends with |

### ExpertCacheOps, ExpertCache, SlotPool

A slot is an index and a partition owns `SlotsOf(p)`, as in `Partition { base,
len }`. `Parts = 1` is the shared pool, more are per-layer caches. `Acquire` is
the whole of `acquire`: `Pin` on a hit, `Insert` into the `Victim` on a miss,
including the eviction from the map, the insertion count and the decay it may
trigger. `Victim` is the unpinned slot with the least `(freq, occupied)`, the
first on a tie, as the loop's strict comparison chooses. `u32::MAX`, where the
use count saturates, is the constant `MaxFreq`. The hit and miss counters are
metrics and are left out.

`ExpertCache` adds the callers: a *user* is one outstanding pin; `handles` are the
pins, `filling` the handles whose owner has missed and must publish before it
releases, which is what the comments on `Lookup` ask of callers. `Retire` is the
workload: an expert that is not asked for again, to state ageing.

`SlotPool` says what is promised whatever the eviction policy: slots are shared
or claimed, a claim needs an unheld slot of the expert's own and an expert that
is nowhere else, an unfilled slot is not dropped by its last holder.

### Pager

A step is what a thread does between two points where others can run: a
critical section, a channel operation, a copy. `pc` and `wpc` are the program
counters of clients and workers; `request` is `Request`, then per expert
`AcquireHit`, `AcquireMiss` and `SendJob`, or `AcquireStall` and `StallTimeout`;
a worker's loop is `Recv`, `RamGet`, `RamCopy`, `RamRelease` or `ReadBlob`,
`RamPut`, `RamWrite`, `RamPublish`, then `CopyToDevice` and `PublishFill`.
`notify_all` is part of the step that unlocks, since a sleeper takes the lock
again before it does anything. Memory is abstracted to the expert its head and
its tail belong to; head is the stored length of the blob, tail the rest of the
raw blob, so that copying the stored length only is visible. `Die` is an io
worker whose `?` ends it, with the job it holds; the channel goes with the last
receiver, after which `SendJob` panics and `SendPrefetch` loses its job silently.
`Prewarm` is `prewarm`, a whole step: it runs before the first request, when no io
worker has a job.

In the program each pager has one decoder thread, which holds the registry's lock;
that is the one client of the run. The module takes any number.

What the run leaves to read: a worker that dies over a job keeps the slot in flight,
and since `is_wedged` counts such a slot as one that may still be published, a
request that needs it loops on the stall timeout for ever (`JobLost` in
`RequestReturns` and `WaitReturns` excludes that case and no other), although
`pager.rs:435` says that silently hanging the server is the worst failure mode.

### Sessions

A request holds the registry lock from `acquire` to `commit`, so `turn` holds the
one generation in progress and every other operation needs `Idle`. `store` is the
`SessionStore`; `live` are the names in its map, and `before` is the order of their
`last_used` stamps, which are unique: every stamp puts its session behind all others.
`slot = 0` and `parked = <<>>` are `None`. The rounds of `enforce_budget` are counted:
`Drop(st, n)` gives up the `n` least recent parked contexts, and `EnforceBudget` takes
the least `n` that meets the budget, as the loop does.
`AcquireResident` and `Acquire` are `acquire`; the latter's disjuncts are a refused
claim, a restored blob, a fresh start and an import that fails. `ClaimSlot` gives
the set of results of `claim_slot`: the export of the victim may fail. Then come
`Prefill` by chunks, `FeedBack`, and `Finish` (with `commit`) or `Fail`, which may
leave the entries of the step in progress torn. `generate` is the same turn on
slot 0 without a commit; `Batch` is a whole `generate_batch`.

A KV entry is abstracted to the token sequence it was computed from. `Run` gives
an entry that sequence only if all entries before it belong to it; over a row that
mixes contexts the result belongs to none (`<<>>`). That is what the properties
tell apart; a blob is a sequence of entries and its bytes are its length.

A failed `kv_import` leaves the slot's owner set and its session without a slot
(`main.rs:167`): in the model `SlotsExclusive` speaks of sessions that have a slot, and
a state is reachable in which the least recent owner has none, `park` frees nothing
and `claim_slot` refuses every other session.

### Decoder

`kind` chooses the decoder. A call walks the layers: a `Route...` action, one for each
of the four calls, is everything up to the router's output, which the host reads
behind a `sync_stream`; `AcquireNext`,
`StallTimeout` and `Prefetch` are `request` and `prefetch`, one expert at a time;
`Launch` or `LaunchWave` enqueues the kernels once the fills are there. A `step` of `decode.rs` then
defers its release (`DeferRelease`), `step_multi` and both calls of `kimi.rs` sync
and release wave by wave (`EndWave`). What the router picks is arbitrary; Kimi may
drop picks by weight, down to none. A kernel is the set of handles it reads, an
event is its index, and the GPU executes the stream in order at any time. `Claim`
puts the slot's contents in flux at once, the worst moment a fetch may write.
`Fault` is any driver call whose `?` ends the call: its handles are dropped without
a release (`leaked` keeps count), and the ring stays as it is. So does the ring
after a stall that times out. `Resize` is `resize_cache` when it succeeds; one
that fails is in `Registry`. In the default, per-layer cache `tick` does nothing.

### Registry

A request holds the registry's lock from its first step to its last, so one program
counter `pc` serves all requests. The lock holds nobody off but this process:
`Neighbour`, the other processes on the card, takes and gives memory at any step, also
between those of a resize.

A completion is `Touch` when its model is warm, else `WarmUp`, `Evict` until there is
room, a rebalance of the engines that stay, a load (after a failure, `LoadFails`, once
more with every other engine gone), the second rebalance, and `Generate`, which unwraps
the pager. `AdminSlots`, a resize of each engine and `AdminDone` are the slots endpoint.
`at` is the engine that a loop has reached; `SizeFits` passes it by and `Rebalanced`
ends the loop. A failure ends the request where it is and keeps the changes made before
it; the start's ends the server. An eviction writes the statistics of a model that has a
prewarm file, which unwraps its pager (`DropLast`). Memory of a server that is `down` is
not followed.

`step` is where `resize_cache` or `Decoder::new` is: `begin`, `open`, `arenas`, and then
`kv` in a load or `restore` in a resize that has failed. `DropPager` frees the old arenas
(after a sync, `SyncFault`), `OpenPager` reads mem_info and clamps, `AllocArena` takes one
layer's arena, `PagerBuilt` is the return of `Pager::new`; `LoadCore` and `LoadKv` are
what a load does before and after it. `PagerFails` is the other return of `Pager::new`:
the arenas allocated so far are raw pointers that nobody frees, and they are `lost`. In a
load the failure ends it (`LoadStops` for one outside the pager; only the pager has a
destructor that runs when the rest fails); in a resize the previous size follows, without
a reserve, and then, should that fail too, no pager at all. `EndResize` is what rebalance
and the slots endpoint make of the result. An allocation fails when it does not fit;
where `Faulty`, everything else that can fail may (`PagerFault`, `SyncFault`, `LoadStops`).

An engine's and its decoder's reserve are always set together and are one field. `last`
records the last request, `before` what others held or was lost when the old arenas were
freed, `seen` what others held when mem_info was last read: the properties speak of them.

`PreviousFits` says when resize_cache keeps its promise to put the previous size back. It
does not always: the failed build may have lost memory (`registry_resize`), another process
may have taken some meanwhile, and something other than an allocation may fail.
`ReserveHonoured` speaks of the admin's resizes only: at warm-up the pager is clamped
before the KV cache is allocated, which then comes out of the reserve. Nor does the code
promise memory that others take after mem_info was read, and the property gives it to them.
`SizedForCount` allows a model with a reserve to have no cache, which the code does bring
about: a rebalance whose resize fails returns before `cur_slots` is updated
(`main.rs:288`; the slots endpoint does update it, `main.rs:1109`). When the previous cache
could not be restored either, `cur_slots` still has the size of the cache that is gone, and
a later rebalance for which that size is right skips the model (`main.rs:286`): it stays
warm without a cache although the load succeeds, and its next request panics.

### Pack

A unit is a block's worth of meaning: a header, an index entry, a tensor, a seventh of a
blob, a piece of a zstd frame, or zero. `Written` is `write_all` of a `BufWriter` (what
does not fit flushes, what is as large as the buffer bypasses it), so that what has
reached the file at any time, and what has when the converter dies (`Die`), is what the
program's calls have pushed there. The checkpoint's core tensors are a set in
some order (`CoreTensors`), the same for every conversion: its `BTreeMap` sorts them. `Start` classifies the
tensors and truncates the core file; `WriteTensor`, `FlushCore`, `CreatePack`, `AddBlob`
or `BlobMissing`, `FinishHeader` or `MetaTooLarge`, `FinishEntry` and `FinishFlush`
follow in the order of the code. An error (`Bail`) drops the writer, which flushes it.
That a tensor is missing is found out blob by blob, after both files were truncated, not
in the loop under the comment "Sanity: every expert tensor present"
(`convert/src/lib.rs:179`).

The server's `Load`, `OpenCore`, `ReadCore` per tensor and `OpenPack` interleave with
all that; `Fetch` is what `read_blob_into` returns on the file of the moment. An index
entry that was zero when the index was read makes a read of nothing that succeeds,
which `SoundReads` states and `PartialOnlyByCrash` confines to a converter that is in,
or died in, `finish`.

### Serve

`pc` is the main loop: one request at a time, whose body it reads (`ReadBody`) and whose
response it writes to the end. `WarmFirst` chooses the template and drops the lock;
`PlainBegin` and `PlainEnd` generate under it; a stream is `Spawn`, `WriteHeaders`, then
`Read` until `ReadEnd` or `WriteFails`. A client is here, has `left`, or is `stalled`: it
keeps its connection and neither sends nor reads (`Leave`). main reads and writes without
a timeout, so a stalled client holds it up for ever; that a client has left is noticed
only by a write that fails, so a stream's thread runs on and the next request waits for
the lock behind it. When the headers already fail, the next request may take the lock before
the stream's thread does.

`WarmUps` gives the outcomes of `warm_up` (the details are in `Registry`), `Begin`,
`Token`, `StepFails` and `Finish` are the thread. `Decode` folds the tokens, and each
token's bytes (`DecodeToken`), into text as the tokenizer does: a character that is not
complete is U+FFFD, of three bytes. A panic under the lock poisons it, after which the
next `registry.lock().unwrap()` ends the process (`dead`). Besides the slice in `Token`,
where `Faults`, the decoder may panic at any use (`MainPanics`, `ThreadPanics`: the io
workers are gone, a pager is missing) or never return (`MainHangs`, `ThreadHangs`:
`Pager` shows `request` and `wait` to hang once a worker has died over a job).

## 3. Runs

| run | shows |
|---|---|
| `cache_safety` | two layers of two slots, three experts competing for the first, two users: types, map/slot agreement, held experts stay, one fill per slot, pins equal handles, refinement of `SlotPool` |
| `cache_aging` | insertion-counted decay with an interval of at least the layer's slots (the program uses `max(64, 4 * slots)`): a retired expert leaves while its layer keeps missing |
| `pager` | a decoder, two io workers that may die, a RAM tier of one slab that may be prewarmed, a ticked shared pool, prefetches, fairness: handles that were waited for hold their weights, one job per fill, pins have owners, slab coherence; requests and waits return, unless a worker died over a job or none is left |
| `pager_compressed` | counterexample: after a RAM hit on a zstd pack the tail of the slot is stale |
| `sessions` | three sessions, two slots for them, a budget of two positions: a turn attends to its own context, sessions claim only KV they have, slots exclusive, budget, LRU in both tiers; exports, imports and steps fail anywhere |
| `sessions_batch` | counterexample: a batch overwrites slot 1 and its session goes on with the batch's KV |
| `decoder` | two layers of two slots and three experts, a lagging GPU, late fills, one driver failure: kernels read their experts, pins have owners, a request is wedged only after a failed call (and a wave only by pins that call lost), the ring holds one layer at most (in `TypeOK`), every call returns |
| `registry` | three models, two warm at a time, other processes that take and give memory at any step, failures anywhere: at most two engines each once; reported sizes are real; after a load every model has the size for their number, or a reserve and less; an admin's resize with a reserve leaves it free; memory is freed once; a previous cache fits again unless memory went elsewhere |
| `registry_resize` | counterexample, with nobody else on the card: a resize that does not fit leaks arenas, so the previous size cannot be restored and the decoder has no pager |
| `pack` | five models, two conversions of each in place, with damaged checkpoints and deaths anywhere, under a server: reads are right or fail, a finished pack reads in full into the slots sized for it, an index with holes only by a crash in `finish`, a loaded core has the tensors it names |
| `serve` | two models of which one is warm at a time, two requests of every form, clients that leave or stall, failing loads and steps, a decoder that panics or hangs, split characters: engine and template match, streams are well formed and complete and reach the client unit by unit; every request is answered unless the lock is poisoned, a generation hangs under it, or the request's own client stalls |
| `serve_split` | counterexample: a character of four bytes split over two tokens panics the thread under the lock; the stream has no end and the server is lost |

Bounds. Two slots and three experts are the least for which an eviction chooses
and a pool can stall with an expert left over; two users give every
pairwise interleaving of hit, miss, publish and release on one slot. `MaxFreq` is
1 or 2: the saturation must be reachable. `MaxDeaths` is both workers, so that jobs
are lost one by one and the channel closes; a client
that loses handles to a wedged pool goes on once. With a shared pool `BeforeTick`
keeps the insertion count below a small interval, since the code's is `u32::MAX`.
The RAM tier's interval floor of 64 is scaled down.

Registry: sizes are chosen so that two models fit at their shared sizes, the third
forces an eviction, a load can fail in its core, in any arena and in its KV cache,
and a reserve clamps, refuses or does neither. Others hold none of the card (`Shares`),
a little, nearly half or all of it, whatever is free allowing. Memory is finite and lost
memory stays lost, so no further bound is needed. `registry_resize` needs no failure but that
of an allocation (`Faulty` is FALSE), and no neighbour.

Sessions: three positions, so that one token is fed back and one is not at the
boundary; chunks of two, so that a too long prompt fails after its first chunk;
prompts that continue, diverge from and repeat a context. With three names and two
slots two contexts are parked at once only after a failed import, which happens;
a budget of two makes a full context drop itself and two shorter ones compete.
Batches run in `sessions` only while the slots they use have no owner
(`BatchesAvoidSessions`); `sessions_batch` lifts that.

Decoder: two layers, so that a prefetch and a deferred release meet a request of
the next layer; a union of three experts needs two waves, the second evicting what
the first read; `TopK = 2` lets one step pin a whole layer. `RingSize` is 2 for the
code's 8: `TypeOK` shows that one entry is ever used. `MaxLost` stops calls once
two pins are lost; a stall after the failure and one more call still happen.

Pack: `MaxRuns = 2`, a conversion over the files of another one. Two units to a block
and four to a buffer keep the order of 4096 and 8192: a raw blob bypasses the buffer,
a frame goes through it, and header and index do not fit it together, so that a crash
can separate them. Frames differ in length, so that a wrong offset or size is seen.

Serve: `MaxRequests = 2` and `MaxTokens = 2`: a request behind a stream whose client
has left or whose decoder has panicked or hangs, and a character in two tokens. `Faults`
is FALSE in `serve_split`, whose panic is the slice's. Three requests were not needed by any
counterexample of the mutants; a thread takes the lock once, so two contend for it.

Deadlock is checked where the system cannot stop (the cache, the decoder, the
registry; there it says little where other processes can always move). A pager can stop:
clients that failed twice or panicked, or sleep for the fill of a dead worker; so
can a converter after its last run and a server after its last request.

Fairness. `ExpertCache`: users publish and release, the shared pool is ticked.
`Pager`: every io worker runs, a client inside a call goes on (mutex, condition
variable, the stall timer), and a decoder waits for and releases what it
requested. `Decoder`: the host thread inside a call, the GPU with a non-empty stream
and the fetches go on. `Serve`: the main loop and every thread go on when they can; the
mutex is not fair, but a thread takes it once. That a generation returns and that a client
sends, reads or leaves is not assumed: faults and clients are outside of `Fairness`, and
`RequestAnswered` names the three cases in which it gives up (a poisoned lock, a hung
generation, a client that stalls while main is at its request). Nothing obliges a client to
ask, a worker to fail, or a tick to come.

## 4. Proofs

Every theorem holds for all values of the constants that satisfy the module's named
assumption. TLC checked each inductive invariant on the runs' instances before it was
proved.

### ExpertCacheProofs

Assumption: `CacheAssumption` (the constants are positive, as the constructor asserts).

- `Invariance`: `Spec => []IInv`, where `IInv` is the conjunction of `TypeOK`,
  `MapMatchesSlots`, `HandlesStayValid`, `OneFillPerSlot` and `PinsCountHandles`.
  The conjunction is what is inductive: that a victim has no handles needs the
  pins to count them; that its old expert leaves the right map needs experts to
  sit in their own partition and partitions to be disjoint (`PartitionsDisjoint`);
  that publishing leaves a slot with an expert needs handles to be valid.
- `TypeCorrect`, `MapAgreement`, `HeldNeverEvicted`, `SingleFill`, `PinsExact`: its parts.
- `ImplementsPool`: `Spec => PoolPromise`, the refinement of `SlotPool`, one lemma
  per action.

`VictimUnpinned` shows that the victim search finds an unpinned slot when there is
one, by taking the least key and then the least index among the slots with it. The
lemmas about single operators are in `SharedProofs`.

### PagerProofs

Assumptions: `CacheAssumption` and `PagerAssumption`. The latter says that there are
finitely many threads, at least one slab (without a tier it is not used), that a
route names experts of one layer, each once (the top k of a router are distinct
experts), and that a shared pool is one partition.

- `PagerInOrder`: `Spec => []IInv`, for any number of clients, io workers, slots, slabs
  and experts, with and without a tier, compressed or not, workers dying at will.
- `PagerTyped`, `RecordsAgree`, `FillsHaveOneJob`, `PinsHaveOwners`, `SlabsInOrder`: types,
  `FillMatchesCache`, `OneJobPerFill`, `PinsAccounted`, `SlabsCoherent`.
- `HandlesHoldWeights`: `UsableHandlesHoldWeights`, unless the pack is compressed and
  there is a tier. With both it is false: `pager_compressed` shows it.

None of these is inductive alone. That a handle keeps its weights needs its slot not to
be claimed for another expert, so pins must count handles (`PinsOwned`), so a job that is
sent must pass its pin to exactly one handle: the handles of a client are for experts
that it does not still have to acquire (`ClientOK`; were one requested twice, two pins
would stand for one handle). It needs the slot not to be overwritten by a late copy, so
every job anywhere (client, channel, worker) is for a slot in flight that is still
pinned and still claimed for the job's expert (`OneJob`), a job that the failing workers
lost included: its slot stays in flight and pinned by its handle, or by the pin of a
prefetch that nobody can send. And what is copied must be right (`WorkerOK`), which for
the tier means that a published slab holds its expert until its last reader has left
(`SlabOK`), that pins count readers and writers, and that a writer is alone (`UserOK`).
The carriers of jobs are named by their place in the channel, so a receive renames them
all: `JobReceived` shows that every slot keeps the same jobs. `PrewarmKeeps` is an
induction over the fold that loads the tier, done with `LeastNatural` (below).

### DecoderProofs

Assumptions: `CacheAssumption` and `DecoderAssumption` (a layer has at least as many
slots and experts as a token is routed to, as `request` and the model's configuration
ask). Layers, slots, experts, the ring's size and the number of failures are any.

- `DecoderTyped`: `TypeOK`, whose hard part is that the ring holds at most one layer's
  handles: the router's sync lets every event pass before the next layer defers.
- `KernelsSafe`, `PinsHaveOwners`: `KernelsReadTheirExperts`, `PinsOwned`.
- `WedgedByFailureOnly`: `WedgeOnlyAfterFailure`, when the model has more than one layer.
  With one layer it is false of the code: at the layer's next request the ring still has
  the last step's handles, which pin slots of that same layer, and no fetch would free
  one. No model the program runs has a single layer.

`IInv` says what the stream can hold at each place of the host thread (`StreamForm`):
nothing while a layer requests its experts; the kernels of the handles it has; the
deferred layer's kernels and event; or the kernels of a call that failed, whose slots have
leaked. So whatever a queued kernel reads is pinned by a handle, by the ring or by a leak
(`ReadsHeld`), the pins are the sum of exactly these (`PinsCounted`), and a claimed slot
was nobody's (`Claimed`). `FetchesHeld` gives every fetch a holder, so that a fill never
writes a slot that was released and given away. That a wedge takes a failure needs a count:
the handles of the request and what it has still to acquire fit into the layer's slots
(`Requests`), so its own handles cannot pin them all (`HandlesFill`); without a failure
what else is pinned belongs to the layer before (`Unfailed`), and partitions are disjoint.

### SessionsProofs

Assumption: `SessionsAssumption` (finitely many names, positive sizes, prompts and what a
batch leaves are sequences of tokens that the caller has checked). Names, slots,
positions, chunks, the budget and the prompts are any.

- `SessionsTyped`, `OneSessionPerSlot`, `ParkedWithinBudget`: `TypeOK`, `SlotsExclusive`,
  `BudgetKept`, and the two action properties `LeastRecentIsParked` (`ParksLeastRecent`)
  and `OldestIsDropped` (`DropsOldestForBudget`), all of them whatever batches do.
- `SessionsHonest`, `TurnsOnOwnContext`: `ContextsHonest` and `TurnOnOwnContext`, when no
  batch runs while a session owns one of its slots (`BatchesAvoidSessions`). Without that
  hypothesis both are false of the code, which has no such check: `sessions_batch` shows it.

`IInv` adds two things to the properties: a blob is as long as its session's token list
(`Measured`; this is why room is gained by every context that is dropped), and a turn runs
in its session's slot at or behind the end of the tokens the session claims (`TurnHolds`).
The second is what `truncate` in `acquire` is for: a turn writes only at its position and
after it (`TurnWrites`), so a step that fails, or a whole turn, tears nothing that is
claimed. The two honest properties are inductive together (`HInv`): a commit claims the
context the turn ran on, and a turn starts on the prefix that its session claims.

The lemmas follow the functions: `ReuseOf` (a common prefix that leaves one token to run),
`RunHolds` (a chunk that continues a context the row holds is computed over it), `ImportOf`
and `ExportOf`, `EnforceOf` (the budget is met by dropping the least recent, and one of the
dropped was still needed for it), `ParkOf`, `GrantOf` and `ClaimOf` (what every result of
`claim_slot` promises). `EnforceOf` ranks the parked sessions by how many are older
(`RankOf`) and compares sums of blobs with `SharedProofs`.

### RegistryProofs

Assumption: `RegistryAssumption`. `RegistryInOrder` is the inductive invariant; from it
follow `MemoryConserved` (`MemoryAccounted`), `WarmSetBounded` (`WarmBounded`),
`SizesReported` (`SizeReported`), `PreviousCachesFit` (`PreviousFits`),
`ReservesHonoured` (`ReserveHonoured`) and `SizedAfterLoad` (`SizedForCount`).
Since other processes move at any step, the strengthening says of each program counter and
each `step` of a build what the request has achieved and what is held: while
a rebalance walks the engines, those it has passed have the target's size or are kept
smaller by a reserve, and there is room for the engine to come; while a
pager is built, its engine has none, its arenas are in `Unfinished`, and the engines, the
previous pager and `before` fit on the card together (`Sizing`, so that the previous pager
fits unless `taken + lost` has grown); while an admin's resizes go on, what is free and
taken covers what others held when they last looked and the reserve, with the arenas that
are still to come (`Reserved`). A cache that was lost is taken for one of the shared size
only where a reserve has squeezed it (`Squeezed`), which `SizedForCount` rests on.
Memory is a sum over the warm engines (`HeldBy`), so each action is
shown to move as many units as it takes from the free ones, with the lemmas of `SharedProofs`
(a sum changes by what one element changes by, and does not change when the elements
are renamed, as by an eviction that shifts the list of engines).

### ServeProofs

Assumption: `ServeAssumption` (positive bounds, and tokens whose bytes belong to
characters of a known width). Models, requests, tokens and characters are any.

- `EngineSafe` (`EngineMatchesPrompt`): the thread that holds the lock is the one that
  has warmed its model up, and nobody evicts under it.
- `ClientReadsWholeStream` (`ClientGetsStream`): what was read, what is in the reader's
  buffer and what is in the channel, one after the other, is always what the thread has
  sent.
- `StreamsAreWhole` (`StreamsWhole`): as long as no token ends inside a character, the
  deltas make up the text that all tokens decode to, at all times, and a stream ends with
  one `[DONE]` or error. A thread that ends without leaves the lock poisoned: by a panic of
  the decoder, by a token that ends inside a character, or it found it so.

The last one rests on `Decode` growing with its input: a token that leaves no character
begun appends to the text before it (`DecodeGrows`), so the bytes printed so far end
between two characters of the new text, in exactly one place (`CutAfterPrefix`); the
slice cannot panic, and the delta is what was missing. `WholeInv` adds to the property
the text printed so far, which no client sees, and that only the last event ends a
stream. A thread whose slice panics has had a token that was not whole; one that panics
with no token at all found the lock poisoned. The lock's invariant counts a hung
generation among its holders: it keeps the lock, and nobody evicts under it.

### PackProofs

Assumption: `PackAssumption` (a block holds magic and metadata; the converter's names are
those of `kimi.rs`). Models, block and buffer sizes, damage and the number of conversions
are any.

- `ReadsAreSound` (`SoundReads`), `FinishedPacksRead` (`FinishedPackReads`),
  `OnlyCrashesLeavePartial` (`PartialOnlyByCrash`), `CoreIsWhole` (`CoreWhole`).

The argument compares everything with the two files that a conversion of this model ends
with, whatever state it is in: `P`, the pack, whose `k`-th blob lies behind `off[k]` units,
and `C`, the core file (`PackLaid`, `CoreLaid`; `FilesExist` shows that there are such
files, and a step changes none of them, `LaidSame`). `PackInv` says of each place of the
converter how far it is on the way there. While it writes blobs, the file is empty up to
`IndexEnd` and `P` from there on, as far as the buffer has been flushed; what is in the
buffer comes next in `P`, and cursor and index are those of `P` (`Blobs`). While it
finishes, `P` overwrites from its start a file that lacks header and index (`Finishing`).
What a conversion leaves is nothing, a beginning of that file without header and index
(`failed`), a `P` with holes before its first blob (`torn`), or `P` (`Left`). Hence no unit
is ever in a place where `P` has another one, but for holes in header and index
(`PackHoled`), and all that a server has read of header, index and core is `P`'s and `C`'s
(`Server`), at whatever moment and from whichever conversion. `SoundReads` and `CoreWhole`
do not hold step by step without this: the server keeps an index while the next conversion
truncates the file and writes it again, and a read is right only because that conversion
puts the same blob at the same offset or has not reached it.

`WrittenTracks` is the lemma all of this rests on: `write_all` through a `BufWriter` of the
next units of `P` keeps file and buffer on their way to `P`, flush or not, bypass or not.
`PartTracks` does the same for what a killed converter has sent. `TotalsExist` shows by
`LeastNatural` that offsets, a sum over the blobs before, exist, and `BlobsAre` and
`IndexGrows` that `add_blob` adds the next of them.

The inductive invariants of both modules were checked with TLC on the runs' instances;
for `PackInv` with `P` and `C` written out.

### Methods and limits

The provers have no induction theorem they can instantiate. A claim about all sizes of a
finite set is proved by its least counterexample: `LeastNatural` gives every non-empty set
of naturals a least element, from the well-foundedness of `<`. With it, `SharedProofs`
shows that the recursive function inside `MapThenFoldSet` exists, and `PagerProofs` that
folding puts over a set of experts leaves a tier that is in order.

Every invariant and every action property of a passing run is stated by a theorem; the
hypotheses that a few of them have (`HandlesHoldWeights`, `WedgedByFailureOnly`,
`SessionsHonest`, `TurnsOnOwnContext`) are those without which the code breaks them.
Only model-checked is liveness (`RetiredExpertLeaves`, `RequestReturns`, `WaitReturns`,
`CallReturns`, `RequestAnswered`), since fairness and ENABLED are out of reach here. The
theorems are about the models: that a model is the code rests on reading both.

## 5. Plan

1. expert cache, pager, decoder, sessions, registry, HTTP server, files and converter:
   model-checked, and their safety proved;
2. what is left: liveness, and the parts of section 6.

## 6. Not modelled

- Float arithmetic: kernels, quantisation and repacking, softmax, routing and sampling
  probabilities. What is chosen (experts, tokens) is arbitrary in the models.
- The contents of JSON, prompts and templates, the parsing of configurations, and
  checks of shapes; `gguf.rs`, which inspects files of another format.
- Benchmarks and the command line: sequential callers of what is modelled.
- In the pager, counters and latency buckets, and the width of the RAM tier's key: it
  is cast to 16 bits (`pager.rs:115`), which no supported model fills. Of the opt-in
  shared pool `tick` is modelled; how fast it ages is not stated as a property.
- O_DIRECT, which asks for aligned buffers and changes nothing else.
