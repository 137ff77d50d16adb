# GNU Radio 4 core: specifications and proofs

TLA+ modules for GNU Radio 4: the lock-free ring buffers that carry samples and messages between
blocks, the buffers and the packed map that keep their memory themselves, the life cycle of blocks
and schedulers, the handshake by which a thread stops the workers of a hierarchy of schedulers, the
start, stop and restart of a scheduler, the hand-over of blocks between the workers of a running
one, the rewiring of its graph, the thread pool and the timer tasks that run on it, the work loop of a block, its
settings, and the sink that hands a stream to threads outside of the flow graph. TLC
checks small instances; TLAPS proves most of the safety invariants, and that a ring implements what it promises, for
every value of the constants.

File names without a directory are those of `src/core/include/gnuradio-4.0/`, `DataSink.hpp` is in
`src/blocks/basic/include/gnuradio-4.0/basic/`, and `Graph.cpp`, `Settings.cpp`, `Block.cpp` are in `src/core/src/`.

## The system

A *graph* of *blocks* connected by *edges* is run by a *scheduler*. Each edge is a ring buffer
written by one output port and read by any number of input ports. The scheduler deals the blocks
to job lists, and a worker on a thread pool walks each list again and again, calling `work()` of
each block. Blocks, schedulers and clients exchange messages over multi-producer ring buffers. A
block may itself be a scheduler with a graph of its own (a nested scheduler). Messages change the
graph while it runs. Tags travel with the samples and change the settings of the blocks they pass.

| Component | State | Operations | Interacts with |
|---|---|---|---|
| Ring buffer, one producer (`CircularBuffer.hpp`, `ClaimStrategy.hpp`, `Sequence.hpp`) | publish and reserve cursor, one cursor per reader, the shared list of cursors with a generation, the writer's cached copy, the memory in one or two mappings, a reclamation watermark | `tryReserve`/`reserve`, `publish`, `~WriterSpan`, `get`, `tryConsume`, `consume`, `~ReaderSpan`, construction and destruction of a `Reader`, `houseKeeping` | writer and readers share cursors only, without locks |
| Ring buffer, many producers (`ClaimStrategy.hpp`) | reserve and publish cursor, a mark per slot, a shared cached minimum | `next`, `tryNext`, `publish` | the message ports of all blocks |
| Chunk buffer (`ChunkBuffer.hpp`, `ChunkPool.hpp`) | a ring of descriptors, a head chunk, sealed chunks with thresholds, a free list | `storeBlob`, `publish`, `consume`, `houseKeeping` | tags and other values of variable size |
| History buffer (`HistoryBuffer.hpp`) | a ring with its mirror, a count of what the mirror has missed | `push_front`, `push_back`, `pop_*`, `resize`, `get_span` | filters, the data sink |
| Packed map (`ValueMap.hpp`) | header, table of entries, pool of payloads with a free list, in one block of memory | `emplace`, `insert_or_assign`, `erase`, `merge`, `reserve`, `shrink_to_fit`, the `try_...` operations of a view | tags, settings, messages |
| Life cycle (`LifeCycle.hpp`) | one atomic state | `changeStateTo` with its hooks | every block and scheduler |
| Work quiescence (`Scheduler.hpp` 250-363) | a request flag and a counter of workers per scheduler | `WorkGuard`, `WorkQuiescenceGuard`, `blockUntilWorking` | parent and nested schedulers |
| Scheduler run (`Scheduler.hpp` 582-1068) | life-cycle state, `_nRunningJobs`, each worker's view of the state | `runAndWait`, `start`, `waitDone`, `stop`, `pause`, `resume`, `poolWorker` | thread pool, life cycle |
| Block adoption (`Scheduler.hpp` 1070-1926) | execution order, adoption list, moved list, zombie list; a private list per worker | emplace, remove, replace, group, ungroup; `adoptBlocks`, `cleanupRemovedBlocks`, `cleanupZombieBlocks` | messages, work quiescence |
| Ports and graph (`Port.hpp`, `Graph.hpp`, `Graph.cpp`) | edges with their states in each graph, the buffers that ports share | connect, start, pause, restart; emplace and remove edges; remove, replace, group and ungroup blocks | the scheduler's message handlers |
| Thread pool (`thread/thread_pool.hpp`) | task queue, three counters, the threads | `execute`, `worker`, `requestShutdown` | schedulers, blocking blocks |
| Blocking synchronisation (`BlockingSync.hpp`) | two flags, a timer task | the `start` and `stop` hooks, the timer loop | thread pool, life cycle |
| Reader-writer lock (`reader_writer_lock.hpp`) | a signed counter | `lock`, `tryLock`, `unlock` | offered to users of the library, used by none of its own code |
| Block work loop (`Block.hpp`) | port buffers, tags, resampling ratio, stride, end of stream | `workInternal`: `checkLifecycle`, `computeSampleLimits`, `dispatchProcessing`, `finaliseIO` | ring buffers, settings |
| Settings (`Settings.hpp`, `Settings.cpp`) | stored parameters with timed contexts, staged and active ones, which of them tags may change | `set`, `setStaged`, `activateContext`, `removeContext`, `autoUpdate`, `resetDefaults`, `applyStagedParameters` | block work loop, tags, clients |
| Data sink (`DataSink.hpp`) | registry, listeners, history, a poller per client | `getStreamingPoller` and three others, `processBulk`, `stop`, `process` of a poller | clients on threads of their own |

What is hard here: unlocked sharing of cursors and caches of them; several writers finishing out
of order; flags and counters read at a distance from where they are used; hooks that run between
two state changes; blocks that change hands while their old worker still holds a copy of its
list; work that is queued but not started; wake-ups that get lost; edges listed in one place and
buffers shared in another; parameters staged while others are applied; offsets into memory that moves; a sink that
waits for its clients under a lock. `PROJECT.json` lists the hazards, each at its line with the properties aimed at it.

What makes each component correct:

* ring buffers: a reader sees each published sample once, in order, unharmed; writers and readers
  never have a slot open at once; a waiting writer gets the room that is made;
* chunk and history buffers: memory is not reused under a reader; both halves agree where a span is read;
* packed map: what is kept for one entry is not given to another;
* life cycle: hooks come in an order the user of a block can rely on;
* quiescence: while it is held nobody works or rewires below, and it is granted;
* scheduler run: a stopped scheduler loses its workers; a returned `runAndWait()` has none;
* adoption: a block has at most one worker, and every block of a running graph gets one;
* graph: a block reads from those that the graph connects it to, and from no other;
* thread pool and timer: the size stays in bounds, a task that a thread could take is taken, `stop()` leaves no task behind;
* work loop: never more input consumed or output produced than there is, ratio and stride kept,
  each tag forwarded once, end of stream reaches every sink;
* settings: a context is in force as a whole, tags do not change what was set by hand, nothing staged is lost;
* data sink: no uncounted gap in a stream, tags with their samples, windows as they were asked for, and the end reaches
  everyone who polls.

## Modules

| Module | Models | Notes |
|---|---|---|
| `BroadcastStream` | what a ring buffer promises: a private lossless FIFO for every reader | abstract specification |
| `SingleProducerRing` | writer, readers, reader list cache, mirrored memory, reclamation | implements `BroadcastStream` |
| `SingleProducerRingProofs` | five theorems, one of them the refinement of `BroadcastStream` | TLAPS |
| `MultiProducerRing` | `MultiProducerStrategy` with store buffers | |
| `ChunkBuffer` | producer, readers, housekeeping, chunk pool | the ring of descriptors is what `BroadcastStream` promises |
| `HistoryBuffer` | memory, mirror, positions | |
| `BuffersProofs` | two theorems about the multi-producer ring, one about the chunk buffer and one about the history buffer | TLAPS |
| `ValueMap` | one packed map, owned, fixed or seen through a view | what the bytes of a value say is left out |
| `LifeCycle` | `changeStateTo()` | |
| `BlockingSync` | timer task and hooks | extends `LifeCycle` |
| `ThreadPool` | `BasicThreadPool` | |
| `ReaderWriterLock` | the lock, for any number of threads | |
| `ThreadsProofs` | four theorems about pool, timer and lock | TLAPS |
| `WorkQuiescence` | `WorkGuard`, the requesters, start of nested schedulers | |
| `SchedulerRun` | client, controlling thread, workers | uses the life cycle with a whole transition per step |
| `BlockAdoption` | workers, message handler, four lists | uses quiescence as an atomic condition, which `WorkQuiescence` justifies |
| `SchedulerProofs` | two theorems about quiescence, two about adoption, one about a scheduler run | TLAPS |
| `GraphWiring` | edges and buffers of a graph with groups | every handler one step, which `WorkQuiescence` justifies |
| `StructuresProofs` | two theorems about the wiring of a graph, one about the pool of a packed map | TLAPS |
| `BlockWork` | `workInternal` of a block with one synchronous input and output and `processBulk` | streams as counters, which `BroadcastStream` justifies |
| `BlockWorkProofs` | two theorems | TLAPS |
| `Settings` | clients, messages and tags against `work()` | |
| `SettingsProofs` | five theorems | TLAPS |
| `DataSink` | sink, stopping thread, polling clients | rings as sequences, which `BroadcastStream` justifies |
| `DataSinkProofs` | a theorem about the streams of pollers | TLAPS |

Instances for TLC: `MCBlockWork`, `MCBlockAdoption`, `MCSettings` and `MCValueMap` give values to the
constants of one module. `MCSingleProducerRing` (the ring in memory mapped twice and in plain memory), `MCBuffers` (multi-producer ring, chunk and history buffer), `MCScheduler`
(quiescence, run, adoption), `MCThreads` (pool, timer with life cycle, lock), `MCClients` (data sink, settings) and
`MCStructures` (graph, packed map) check several components in one run: a variable `part` (`memory` for the two rings) picks the component of a
behaviour, and the others stay as they are in the beginning. The components of such a module do not interact.

Operators whose comment begins with "Faulty:" are no part of the models: each is a plausible bug
that makes a property fail, and shows that the property depends on the code it is about.

### From code to model

*Single-producer ring.* `wpc` is the position of the writer inside `tryReserve`/`reserve`:
`gen` and `list` are the loads of the generation and of the list in `getMinReaderCursor`, `scan`
the loop over the cursors, one cursor per step, `span` the open `WriterSpan`, `written` the span
after the user filled it. `wphase` says for what the minimum is computed (the claim, the pressure
check before reclaiming, the reclamation or `houseKeeping`). `rpc` is the position of a reader: `added`,
`reread`, `set` while it is constructed (`addSequences` adds the cursor and then corrects it in
two further steps), `idle`, `open` while it has a span, `removed` between the removal of its
cursor and the invalidation of the cache. A sample is its position in the stream, and `data` holds
both halves of the memory, so that mirroring on publication (`Mirror`), reclamation and wrap-around are
visible. `WordMod` is 2^w: the capacity is computed with wrapping subtraction as in the code.

*Multi-producer ring.* Each atomic access is a step. A mark is a release store with no fence after
it: with `StoreBuffers` it waits in `pending[p]` until it drains, the writer sees its own marks, and
its later loads overtake them. A compare-and-set drains the buffer first.

*Life cycle.* Reading the state, validating, storing and running the hook are separate steps; a hook
may throw, which stores `ERROR`.

*Quiescence.* `LoadFlag`, `Register`, `LoadFlagAgain`, `FinishWork`, `Deregister` are the steps of
`WorkGuard`; `StoreFlag`, `Drain`, `Fence`, `Quiescent` those of `requestWorkQuiescence`, in which the flag
sits in a store buffer until the fence. `Spawn`, `EnterRunning`, `BeginRewiring`, `EndRewiring` are the start
of a nested scheduler by a worker of its parent, `BlockUntilWorking` the wait for it.

*Scheduler run.* `client` is the position in `runAndWait()`/`start()`, `job[w]` that of a worker in
`poolWorker()`, `activeState[w]` and `kept[w]` its last view of the state and the passes made with it. `setup` covers a
`singleThreaded` policy (the client is the worker), the number of job lists the pool has
room for, and clients that do not wait.

*Adoption.* `local[r]` is the worker's own list; the shared lists are variables of the same name as
in the code, each accessed in one step since each has a mutex of its own. `pc[r]` follows one pass.

*Thread pool.* `spc[s]` is the position in `execute()`, `pc[w]` in `worker()`. A wait is `idle` (predicate
about to be evaluated), `drowsy` (evaluated, not asleep yet) and `asleep`; a notification reaches `asleep` threads
only, because every thread waits with a mutex of its own. `keepAliveDuration` may be over whenever a thread
has found no task.

*Block work loop.* `pc` is the place in `workInternal()`: `LookAtSamples` fills the port caches (`avail`,
`room`), `LookAtTags` does the rest of `computeSampleLimits()`, skips the rest of a stride and ends the block
or prepares the spans, `Process` is `dispatchProcessing()` and `finaliseIO()`. The block upstream publishes
tags first and their samples afterwards (`PublishTag`, `PublishEnd`, `PublishSamples`), at any moment; the order is
that of `~OutputSpan`. A sample is its position in the stream, a tag the position of its sample. `tags` is
what the tag reader has not consumed; end-of-stream tags are in `eosAt`. `processBulk()` returns any status and may ask to
consume or publish none or one sample. `cfg` is constant during a behaviour. `gap`, `unforwarded`, `repeated`, `asked` and
`refusals` are history.

*Replacement.* `ReplaceBlock` of `BlockAdoption` is `propertyCallbackReplaceBlock()`: the old block becomes a zombie, the new one is put
into the graph and into no list. `GraphWiring` has the same message as seen by edges and ports.

*Chunk buffer.* `wpc` is the place of the producer in `serialiseBlob()`, `hpc` that of `houseKeeping()`, which takes the guard, reads
one reader cursor per step and then, with the guard held throughout, releases sealed chunks, one turn of the loop per step, then the head
and the free chunks. `memory[c]` says which blob each byte of a
chunk belongs to.

*History buffer.* `buffer` is both halves, `dirty` is `_mirrorDirtyCount`; `history` is the ghost sequence that the class promises. Each
operation is a step, since the class is not shared between threads.

*Packed map.* `m` has the header's fields, the entries with the offsets of record and key, and the free list in its order. Sizes
are those of the code: 32 bytes of header, 48 per entry, 8 before a record, alignment 16. `_grow()` and `shrink_to_fit()` rebase all offsets;
`_assignValueAt()` takes the new record first, possibly from a block that has moved, and frees the old one at its new place. A fixed
map (`makeAt()`) never grows and refuses instead; a view appends only. An entry has no value, only the region taken for it.

*Timer.* `hookPc` is the place in `blockingSyncStart()`/`stopTimer()`, `timers` counts the tasks that are queued, in the loop or asleep. The
life cycle around it is that of `LifeCycle`; time is left out, so a sleep may end at any moment.

*Reader-writer lock.* The load and the compare-and-exchange of `lock()` and `tryLock()` are steps of their own.

*Graph.* `edges` has the edges of all graphs with graph, ends and state; an end is the block that the graph sees and the primitive block
whose port it is, since groups export ports of their blocks. `reads[q]` is the output whose buffer the input of `q` reads, the only
thing that makes samples flow. `loose` are the inputs whose wiring the code is known not to keep in step (see below). Which of several edges into one
input wins is a choice (`Connections`).

*Settings.* `s` has the members of `CtxSettingsBase`. `set()`, `setStaged()`, `autoUpdate()` and the locked part of `applyStagedParameters()` are
one step each; what `applyStagedParameters()` and `applyChangedSettings()` do after the unlock (`Clear`, `Unset`, `UnsetAgain`) are further steps, between
which clients and messages come. `phase` is the place in `workInternal()`. `ledger`, `byHand`, `origin`, `raced`, `target` and `tagged` are history.

*Data sink.* `pc` is the place of the block's worker, and of another thread that stops the block, inside `processBulk()` and `stop()`; `lock` is the
mutex of the listeners, held over all waits for room; `registry` that of the registry, held while a poller is made. Counting what a poller has, taking
it, and reading `finished` are steps of the client, publishing tags and publishing samples are steps of the sink. A window keeps the samples
themselves, so that a missing, doubled or displaced one shows. The matcher accepts tags `start`.

## Runs

Runs that pass:

| Run | Instance | Shows |
|---|---|---|
| `ring` | 2 readers, 2 slots, 4 positions, double-mapped | `TypeOK`, `NeverLapped`, `SpansDisjoint`, `WriterProgress`, and that the ring implements `BroadcastStream` (`ImplementsStream`) |
| | plain memory: 1 reader, 4 slots, 5 positions, 2 copies of a span, mirrored by hand, values reclaimed | `SamplesKept`: `UnreadNeverOverwritten` here and in the double-mapped ring |
| `buffers` | 2 writers, 1 reader, 2 slots, 3 positions, store buffers | `UnreadIntact` (with exclusive reservations), `NothingLost`, `CallsReturn` |
| | chunk buffer: 1 reader, 2 descriptors, 2 chunks, 4 blobs of 1 to 3 bytes, 2 fit | `BlobIntact` |
| | history buffer: capacities 1 to 3, rounded up | `SpansHoldHistory` |
| `scheduler` | parent and nested scheduler, 3 workers, 1 requester | `NoWorkWhileHeld`, `NoRewiringWhileHeld`, `RequestGranted` |
| | up to 2 workers, 3 dispatches, 3 control calls, state read every 2nd pass | `SoleWorkerHasLeft`, `StopEndsWorkers` |
| | 3 blocks, 2 workers, 4 messages | `OneUser`, `NoBlockForgotten`, `AddedIsAdopted`, `ZombiesAreDeleted` |
| `threads` | pool: 2 callers, 2 tasks, 3 threads, maximum 2, minimum 1 or 2 | `SizeBounded`, `TaskStarts`, `ShutdownEnds` |
| | a block with a timer, 6 changes of state | `HooksInOrder`, `StopEndsTimer`, `RunningIsWoken` |
| | lock: 3 threads | `ReadersExcludeWriters` |
| `block_work` | 8 kinds of block, 4 samples, 2 tags, output for 2 samples, 1 refusal | `ChunkIsLawful`, `TagsForwardedOnce`, `EndIsPassedOn` |
| `clients` | data sink: 9 cases of one or two clients, 3 or 4 samples in chunks of 1 or 2, up to 2 tags, rings for 2 samples, 2 tags and 1 data set | `StreamsAreWhole`, `WindowsAreWhole`, `EndReachesClients` |
| | settings: 2 parameters, 2 contexts, 3 times, 3 calls, messages or tags, expiry after 2 or never | `LookupsSurviveRemoval`, `ContextInForce`, `ManualIsKept`, `NothingDropped` |
| `structures` | graph: 3 blocks, 2 groups, 2 edges | `WiringMatchesEdges`, `FlowKept` |
| | map: 3 keys, one of them long, 5 kinds of value, 5 operations, 144 bytes | `RegionsApart` |

`CHECK_DEADLOCK FALSE` stands for the end of the bounded calls, messages or positions, or for a system that was stopped.

*Bounds.* The rings go twice around the buffer (double-mapped) or once with spans that wrap
(plain memory, several writers), which is what cursor arithmetic, mirroring and marks of an earlier turn
need. Two readers make "the slowest reader" a question; with two writers the publish cursor can be
moved by another writer than the one whose slots it passes. Two chunks are a head and a sealed one, of which a third blob needs one back; three
bytes are more than a chunk holds. Capacities 1, 2 and 3 in rings of 1, 2 and 4 have and have not spare room between capacity and ring.
Six changes of state are a run, its
stop, and the start of the next run, which is where a timer left behind shows. Quiescence needs a worker that races with the request, one
that starts the nested scheduler, and one inside it. Three dispatches are a run
with two workers and one more run with one, or three runs with one. Four messages are a group and an ungroup
with an addition and a removal around them. Two callers, two tasks and a maximum of two threads
make both overshoot and simultaneous retirement possible. In the work loop four samples are two windows with a gap or an overlap between
them, or two decimated chunks and a rest; with two tags one can begin a chunk or lie in a gap and the other end it; an output of
two samples is full after one interpolated chunk. The requests 1 and unlimited of the scheduler are the two branches of the soft cut. In the sink, a window of two samples
before and two after its trigger begins in one chunk and ends in another, two triggers make windows overlap, and one data set fills the ring. Three calls
are a stored context, a second one, and the tag or message that switches to it. Two edges and two groups are an edge into, out of and within a group,
and a group within a group. Five operations on the map are enough to insert, free, split, reuse and move; 144 bytes hold a long key and
three or more records. Every bound is a constant with `Max` in its name, a set's size, a capacity, or `WordMod`. Blocks and groups of the graph are symmetric.

*Fairness.* All of it is weak fairness of threads that are in the middle of a call: they are
scheduled again, stores leave the store buffer, timed waits end. Calls of users are never forced: no
request, message, task end, pause or end of data is fair. `ring` also assumes that each reader gets what
is available and consumes some of it (strong fairness for `TryConsume`, since the reader may
open and release a span in between without consuming), and that a writer's user
fills and releases an open span: without that, back-pressure rightly stops the writer.
`block_work` assumes that the scheduler calls `work()` again and again, that the block downstream reads on, and that samples whose tag or
end has been announced are published, which the destructor of the same span does.
Adoption has strong fairness for entering a pass, since work quiescence refuses workers in
between but is released again. The timer's task is started by the pool (`TaskStarts`) and its sleep ends. A client of the sink that has a poller
polls again and again until it lets it go; letting go is never forced.

Runs in which the code does not do what a comment or a test says (`PROJECT.json`, findings):

| Run | Violated | Scenario |
|---|---|---|
| `multi_tso` | `NothingLeftBehind` | two writers mark and then look for the mark of the other, both in vain; the slots stay unpublished until the next publish (`NothingLost` shows that then they are found). If they fill the ring there is no next publish: readers see nothing, and writers wait for room for ever, which is why `CallsReturn` excepts slots left behind |
| `run_early_return` | `ReturnMeansQuiet` | `runAndWait()` returns after the first worker has left, the second is still queued in the pool |
| `replaced_idle` | `EveryBlockServed` | the block that a message puts in the place of another is handed to no worker |
| `settings_tags` | `OnlyAutomaticFollowTags` | `set()` drops the entry that says which parameters of the active context tags may change; the next tag makes one with all of them and changes a parameter set by hand |
| `merged_records` | `RecordsApart` | `merge()` packs a string and the next record without padding; a string assigned in place zero-fills the beginning of the next record |

### Limits of what holds

The passing runs state their conditions; without them TLC finds counterexamples.

Rings and buffers:

* A `Reader` constructed while the writer is inside a call is overrun: the cached list lacks it
  (`Sequence.hpp:113`). `ring` with `Quiesced = FALSE`: `NeverLapped` fails.
* Reclamation clears indices modulo the capacity; when its watermark lags by more than the capacity, unread slots are among them
  (`CircularBuffer.hpp:262`, the comment at 250 says otherwise). `UnreadNeverOverwritten` without its alternative for cleared slots fails.
* Writes through `operator[]`, `at()` or an iterator of a history buffer change one half of the memory only; the model has no such write.
* *Packed map.* With `Sources <- AnyRecords`, merged records that do not fill their slots, `RegionsApart` fails as well as `RecordsApart`; merged long
  keys lack the NUL that is freed with them. `RecordsAligned` fails: a record that reuses the rest of a
  freed key, or was merged, starts anywhere, while the comment at `ValueMap.hpp:3090` says that records start at a multiple of 16. `shrink_to_fit()` does not compact
  what comments (310, 1390, 1483) leave to it. A view's `insert_or_assign` of a scalar of another type loses the old record, a failed insertion the bytes of its long key.
  Assigning an empty `Value` changes nothing.

Life cycle, scheduler, pool:

* `changeStateTo()` is no compare-and-set (`LifeCycle.hpp:220-235`): in an instance of `LifeCycle` with two callers
  `HooksInOrder` fails. Its table lets `REQUESTED_PAUSE` go to `PAUSED` only (line 111), while line 129
  documents `stop()` from any active state.
* The quiescence request is a flag, not a count (`Scheduler.hpp:274,282`). `scheduler` with
  `Requesters = {handler, childHandler}`: a nested scheduler that releases its own request lets its
  workers in while the parent holds it, and `NoWorkWhileHeld` fails.
* The flag behind `blockUntilWorking()` survives a stop (`Scheduler.hpp:769,803`). With
  `MaxStarts = 2`, `Workers = {c1}`, `NoRewiringWhileHeld` fails.
* A restart rewires ports before it waits for the workers of the earlier run (`Scheduler.hpp:771`). `SoleWorkerHasLeft`
  fails for a client that does not wait, even with one worker. A worker of the earlier run that does not leave keeps `start()` waiting with
  `_executionOrderMutex` held (781-819).
* `start()` may wait for ever: a worker that counts up and down before the client looks at the counter leaves
  it at 0 (`Scheduler.hpp:836`, "waits until at least one pool worker started"). `run_early_return` with `SPECIFICATION FairSpec` and
  `PROPERTIES StartReturns` shows it.
* A block grouped before its worker has started leaves an entry on the moved list that hits it when
  it comes back (`Scheduler.hpp:1686`). With `LateStart = TRUE`, `First = {b1, b2, b3}`, `NoBlockForgotten` fails.
* A block handed to a worker that has left waits for ever (`Scheduler.hpp:1089`), and a zombie of such a worker
  is never deleted; the liveness properties of adoption except a scheduler one of whose workers has left. A block that came by replacement belongs
  to no worker and stays a zombie when it is removed; `ZombiesAreDeleted` speaks of blocks that had one.
* In a pool that may grow, a thread may retire while a task is queued whose `execute()` has returned because
  the pool was at its maximum; if the other tasks never end, the task waits for ever (`thread/thread_pool.hpp:660`).
  `TaskStarts` without `minThreads = MaxThreads` fails. Pools shut down drop the tasks in their queue.
* The timer leaves its loop at an error or a rate of zero without resetting `timerRunning`, so that a later `start()` starts none
  (`BlockingSync.hpp:277`). `RunningIsWoken` without `left` fails.

Graph:

* `replaceBlock()` leaves edges `Connected` whose new port shares no buffer; removing an edge by its source port cuts the readers of edges that
  another graph lists; several edges may end in one input and the last one wins. `WiringMatchesEdges` excepts these inputs (`loose`, `Contested`).
* Removing or replacing a block whose port a group exports leaves dangling references; the model leaves such messages out (`NotExported`).
* `replaceBlock()` uses an iterator into the vector of blocks after `emplace_back` (`Graph.cpp:33-53`); the model assumes spare room in the vector.
* Grouping and ungrouping set edges back to be connected and lose their memory resources and domains; a new reader starts at the present position.

Work loop and settings:

* A chunk is cut at a tag unless less than the minimum of the *input* port would be left (`Block.hpp:1978`). With a larger minimum
  of the output port and a tag nearer than that, `work()` returns `INSUFFICIENT_OUTPUT_ITEMS` for ever and the end is never
  passed on. `block_work` with `minOut |-> 2` in the plain kind: `EndIsPassedOn` fails.
* When the minimum of the input port is no multiple of the chunk (4 and 3, say), 4 samples before the end are neither a chunk nor
  the end (`Block.hpp:1983`), and the block never stops: `EndIsPassedOn` fails. All kinds in the run fit.
* A tag in the samples between two windows ends the skipping, and a chunk is processed there, too early
  (`Block.hpp:1974`, while `src/docs/USER_API_Block_Development.md:396` says that the input advances "by `N` samples between `processBulk`
  calls"). `KeepsStride` without its second alternative fails. Such a skip also hides the tags behind it, so the
  chunk is not cut at them, the last exception in `StartsAtTag`.
* A block asked to stop between two calls of `work()` becomes `STOPPED` in `checkLifecycle()`, without an end-of-stream tag
  (`Block.hpp:1933`). `EndIsPassedOn` speaks of blocks that were not asked to stop; `asked ~> eosOut` fails.
* `processBulk()` that consumes without publishing loses the tags of its first sample, one that publishes without consuming forwards them
  again, and tags in skipped samples are applied but not forwarded (`Block.hpp:2001`, 2064). `TagsForwardedOnce` excepts these, and with the backward
  policy the tags of samples that are forwarded with a chunk but not consumed with it.
* What is staged between the locked part of `applyStagedParameters()` and the last `setChanged(false)` may be cleared or left unnoticed
  (`Settings.hpp:1208`); `NothingDropped` excepts it (`raced`). Parameters staged again to be forwarded override newer staged ones (`Block.hpp:2088`).
* With an expiry time, the loop that removes entries reads contexts that `remove_if` has moved from (`Settings.cpp:363`), so the parameters that tags may
  change disappear for the wrong contexts; `ManualIsKept` and `ContextInForce` speak of settings that never expire.
* A switch of the context does not overwrite what is staged (`Settings.cpp:159`), `resetDefaults()` does not reset which parameters tags may change,
  `removeContext()` leaves that set behind, and a parameter stored twice for one time keeps the older value. The model has these as they are.

Data sink:

* A client that lets its poller go while the sink waits for its room leaves the sink waiting for ever with the mutex held (`DataSink.hpp:706`);
  `EndReachesClients` excepts it (`Abandoned`). So does a client that asks for another poller meanwhile; in the model a client has one.
* `stop()` in another thread while `processBulk()` is under way lets samples follow the end: clients that have seen it miss them, or the sink waits for
  them. `StreamsAreWhole` and `WindowsAreWhole` except it (`strayStop`).
* Multiplexed and snapshot pollers made directly at a sink that has stopped never finish (`Late`; lines 565-580 against 548 and 558).
* `ensureHistorySize()` reverses the history when it grows (`DataSink.hpp:648`); `WindowsAreWhole` then does not look at the samples (`reversed`).

## Proofs

Each theorem holds for every value of the constants within the assumptions named below. Each module has one lemma per
conjunct of its inductive invariant and in it one step per action; lemmas about indices and sequences come before them.

Assumptions that modules declare, and that TLC evaluates in every run: sizes and capacities are positive, sets of threads, readers and so on
finite where something counts them (`RingAssumption`, `MultiRingAssumption`, `PoolAssumption`, `PartsAssumption`, `RunAssumption`, `AdoptionAssumption`, `HierarchyAssumption`,
`ChunkAssumption`, `GraphAssumption`, by which besides blocks, groups and the graph have names of their own); values are reclaimed in plain memory only (`AllocatorAssumption`); the configuration of a block is one that its constructor or `validateSettings` accepts
(`ConfigsAssumption`); `std::bit_ceil` gives at least its argument (`HistoryAssumption`); a freed long key has room for
the header of a chunk, and lengths are natural numbers (`SizesAssumption`); the run's merged maps are `MergedWhole` (`MapAssumption`).

`SingleProducerRingProofs`, with `WordMod > MaxCursor + Size`, that is, as long as positions do not wrap around 2^w:

* `TypeCorrect`: `Spec => []TypeOK`. The conjuncts that count are those in `Nat`: the unsigned subtractions
  of the code do not go below zero.
* `WriterNeverLapsReader`, `UnreadSurvives`, `SpansNeverOverlap`: if readers are constructed between the writer's calls (`Quiesced`), `NeverLapped`,
  `UnreadNeverOverwritten` and `SpansDisjoint` are invariants. `SamplesKept` of the run is `UnreadNeverOverwritten` in each of the two kinds of memory.
* `ImplementsBroadcast`: if besides nothing is reclaimed (`~Clearable`), `Spec => ImplementsStream`: initial states map to initial states, every
  step to a step of `BroadcastStream` or a stutter.

`NeverLapped` is not inductive: that a reservation fits depends on a minimum taken over a cached list some steps
ago. The invariant adds

* `WriterInv`: `offset`, the span and the two cursors of the writer belong together;
* `ReaderInv`: a reader is listed exactly while it is constructed, and is at or behind the publish cursor;
* `CacheInv`: a cached list whose generation is current lacks only readers under construction, and the list
  being scanned lacks none when no construction happens during a call;
* `CapacityInv`: no reservation is more than the capacity ahead of any listed or cached cursor, and the minimum
  found so far is at most every cursor scanned. Cursors only grow, so it stays a lower bound;
* `DataInv`: from each reader to the publish cursor every slot that was not reclaimed holds its position, in both halves of the memory, and so does
  the span that its user has filled. It rests on positions less than `Size` apart having different slots;
* `QueueInv`: what a reader has not consumed, taken slot by slot, is a run of consecutive positions up to the publish cursor, the queue of the abstract reader.

`BuffersProofs`, multi-producer ring, for executions whose positions stay a capacity below 2^w (`NoWrap`; the bound on the calls leaves each writer one call beyond it, so it is stated of the
execution; 64-bit positions satisfy it for centuries):

* `ReadersSeeWhatWasWritten`: `UnreadIntact`; `MarksSurvive`: `NothingLost`.

All that anybody still needs lies in one window of `Size` positions, from the slowest reader to the reserve cursor (`CursorInv`, `ClaimInv`), in which a slot stands for
one position. `SpanInv`: a position between publish and reserve cursor is in the span of one writer, or written and marked. `MarkInv`: a mark is visible or in
one store buffer, and while it is there the publish cursor has not passed its position. `ScanInv`: what a writer has scanned is marked. `ReadInv`, `NoneForgotten`: what is
published is readable, and a position that nobody has in hand bears its mark. Store buffers drain in any order; nothing depends on when.

`BuffersProofs`, chunk and history buffer:

* `BlobsStay`: `BlobIntact`. A pending blob at position `x` lies (`Lies`) in the head, which was then last written for `x` or a later position, or in a
  sealed chunk whose threshold is beyond `x` (`Kept`); the minimum that the housekeeper has taken so far is behind everything pending of the readers it has seen
  (`Scanned`), so that no chunk it releases holds a pending blob; head, sealed and free chunks are apart (`Apart`); producer and housekeeper
  exclude each other by the guard (`Locked`).
* `SpansStay`: `SpansHoldHistory`. `Mirrored`: the first half of the memory is right at every index of the history, the second from the dirty count on, so that any
  span, also one that crosses the end of the first half, reads right values. The lemmas before it are about indices modulo the ring (`Turn`, `Wraps`).

`SchedulerProofs`, work quiescence, for every hierarchy of schedulers and every finite set of workers:

* `QuiescenceExcludesWork`: `NoWorkWhileHeld`, if the scopes of
  two requesters never overlap (`DisjointScopes`, which the flag being a Boolean makes necessary, see above).
* `QuiescenceExcludesRewiring`: `NoRewiringWhileHeld`, also for overlapping scopes, if every scheduler is started once (`MaxStarts <= 1`, see above).

The argument is Dekker's. `CountInv`: the counter is the number of registered workers. `FlagInv`: after the fence the
flag is visible and stays up while the requester spins, since nobody else in scope clears it (`ScopeInv`).
`HeldInv`: when the requester has seen the counter at 0 nobody was registered, and a worker
registering later looks at the flag again and leaves. `StartInv` and `SeenInv` say what the flag behind `blockUntilWorking()` means: a nested scheduler that was
waited for has no start under way, and none can begin below a request.

`SchedulerProofs`, adoption and runs:

* `BlocksHaveOneUser`: `OneUser`, for any batch, hash and sequence of messages. `Unique`: a block is in one of the shared lists at most; `Follows`: a worker's own copy has
  nothing beyond its shared list, save what the moved list is about to take away.
* `BlocksAreServed`: `NoBlockForgotten`, if messages are handled once all workers have started (`~LateStart`, see above): no message is left in the moved
  list for a block that has come back (`Punctual`), and a block of the running graph is on some list (`Remembered`).
* `ReturnIsQuiet`: `SoleWorkerHasLeft`. `SoleFollows` says for each place of the client what the counter of running jobs and the place of the worker can be.

`ThreadsProofs`:

* `LockExcludes`: `ReadersExcludeWriters`. The counter is the number of readers less that of writers, and an exchange succeeds only from a value of the same sign (`LockCounted`).
* `PoolSize`: `SizeBounded`. Each caller of `execute()` between its look at the size and the new thread may go one beyond the maximum, hence the bound by their number (`PoolInv`).
* `TimerEndsWithStop`, `HooksComeInOrder`: `StopEndsTimer`, an invariant, and `HooksInOrder`, an action property. `SyncPlaced` says which state of the life cycle each place
  in a hook goes with, `HookMemory` what the block remembers of earlier hooks, `TimerInv` that the flag `timerRunning` is up while there is a timer task.

`BlockWorkProofs`, for every set of lawful configurations, every length of the stream and every set of tags:

* `LawfulChunks`: `ChunkIsLawful`. What was counted at the first look is still there at the second, since only `work()` takes input and fills output (`Looked`);
  tags at or behind the position are all unread, so that the nearest unread tag is the nearest tag (`Stream`); the rest of a stride leads to the start of the next chunk (`Due`);
  `Handed` is the conclusion at the second look.
* `TagsPassOnce`: `TagsForwardedOnce`. `TagInv`: what was forwarded is in order, and no tag left to be read lies before the last forwarded one, except where the code is known to repeat. The
  enumeration of tags in order is reasoned about by the least counterexample, since induction over data is out of reach.

`StructuresProofs`, the graph, for every finite set of blocks, every set of groups, and any number of edges:

* `WiringIsKept`: `WiringMatchesEdges`. The invariant, `GInv`, adds `Nested`, that every set of blocks has one that holds none of the others, so that no block is within itself;
  `EdgesSeen`, that both ends of a live edge are ports its graph sees; and `UnusedFresh`, that a block which was never used is empty and unconnected, since `groupBlocks()` and
  `replaceBlock()` take such blocks. What a block contains at any depth (`Within`) and which graphs run (`Reachable`) are recursive functions of where each block is. That they exist for
  nested blocks is shown by what lies in every closed set (`ContentsExist`, `BelowExists`), and what holds of them by a least counterexample, which `Nested` provides. Blocks that run
  descend from the root (`NoIslands`), so no port is in two blocks of one graph (`SiblingsApart`): the edges that go with a removed block are then the only ones to its
  ports. A grouped block keeps what it contains (`ContentsBound`), and one that loses a part loses no more (`ContentsLost`). An input that is not contested has one source (`ContestedIs`),
  which is why it does not matter in which order pending edges are connected.
* `FlowIsKept`: `FlowKept`, an action property. `GroupEdges` and `UngroupEdges` match the live edges before and after a step, port by port; nothing else regroups blocks (`RegroupedNot`).

`StructuresProofs`, packed maps, for every finite set of keys, every set of values and other maps, all sizes, and maps that may or may not grow:

* `RegionsStayApart`: `RegionsApart`, if what is merged fills what is reserved for it and no merged key is long (`MergedWhole`, which the run satisfies and the
  code needs, see above). The invariant, `Good`, is the property itself, pair by pair. The work is in what lies between two good maps: an operator that takes
  bytes returns a good map and a region that this map has for nobody yet (`Holds`, `Takes`), and when the block grows everything that was held
  before moves along (`Follows`), the old record that is freed after the new one was taken, too. A new entry that `Fits` such regions
  gives a good map again (`WithGood`), and an old record that no entry names any more may be freed (`RerecordedGood`). `merge()` is a recursive function over the records of another
  map: that it exists and that each of its values is good follows from the least index where it would not (`StepsExist`, `StepsStay`).

`SettingsProofs`, for every set of contexts, parameters, values and fallbacks, every set of requests and every choice of expiry times (`SettingsConstants`, assumed where the
constants get values):

* `LookupsRight`: `LookupsSurviveRemoval`. `set()` removes what is outdated, and searches rely on the order of what is left. `StoreInv`: the entries of a name are in the *strict*
  order of their times, and of all that was ever stored (`ledger`) a context is missing only when every entry left of its name is later and it has expired or one of them is in
  force (`Removed`). With the strict order the first entry that `removeExpiredStoredParameters()` keeps is the only one that is not in the future
  (`FirstKeptIs`, `Resting`), insertion keeps the order (`Inserting`), and what is found is the right one (`BestMatchIs`, `MatchAgrees`).
* `ManualHolds`: `ManualIsKept`. `AutoInv`: what the auto-update set of a stored context leaves out is what was set by hand for it or for one that it has inherited from;
  without expiry every stored context has such a set, so that removal takes sets and entries away together (`RemoveExpiredKeeps`) and a tag cannot find the default, all parameters.
* `SwitchesWhole`: `ContextInForce`. `SwitchInv`: from the switch on each parameter it decided is staged with the value of the context or has it, and has it behind the step that
  applies what is staged. `Switching` says what `activateContext()` stages, in each of its two cases.
* `ClientsServed`: `NothingDropped`, an action property. `ClientInv`: what waits for a client is announced by `_changed`, and is never staged where it would be cleared without having been applied.
* `TypesHold`: `TypeOK`, with the order of the entries.

`DataSinkProofs`, for every set of clients with any choice of subscriptions, every length of the stream and of its chunks, rings with room for a chunk, for two tags
and for a data set (`CasesAssumption`):

* `StreamsReachPollers`: `StreamsAreWhole`. Clients come, poll and go between the steps of the sink, so the property alone says nothing of what a step finds. `Feed`: what a client has
  received and what waits for it is, with what was dropped, exactly what its listener has been given (`Reached`): all before the input at hand, and that input as well once the
  listener has been served (`Done`). `Turns`: whoever serves holds the mutex, and without a stray stop there is no input while `stop()` runs. `Listed`: a client with a poller has
  one listener, which expires only when the client has let go, and the listener in turn stays one. `Planned`: what was counted for it is what it gets. `Tagged`: tags wait in order
  between the position of the reader and the last sample, the newest one sample ahead while their sample is about to be published (`Between`). `TagsKept`: for a client that
  waits none is missing, and the metadata is pending until it has the first sample. `Ends`: `finished` is seen only after the sink has unregistered, when nothing can follow.

*Only model-checked.* All liveness (`WriterProgress`, `CallsReturn`, `RequestGranted`, `StopEndsWorkers`, `AddedIsAdopted`, `ZombiesAreDeleted`, `TaskStarts`, `ShutdownEnds`,
`RunningIsWoken`, `EndIsPassedOn`, `EndReachesClients`), which the provers cannot do. `WindowsAreWhole` of the data sink, whose windows three kinds of listener keep from chunk to chunk. The findings are
counterexamples, which TLC alone can show.

## Not modelled

Listed with its reason in `PROJECT.json`: property subscriptions and replies between blocks (a table that one thread uses); wait
strategies, logging, profiling, plug-ins and the registry, which keep no protocol state of this kind; value conversion, YAML, compression and
allocators; block library and algorithms, whose numerics are out of reach of model checking. Inside the modelled components: `exchange()`, `waitDone(true)` and
the watchdog of the scheduler, partial publishes (a gap of unmarked slots that no later publish passes) and changing readers of the multi-producer ring, a second
`Writer` of the single-producer ring (it starts at offset 0, `CircularBuffer.hpp:342`) and a ring without readers (its minimum is a default, `ClaimStrategy.hpp:97`);
several, asynchronous and optional ports, `processOne`, `processEpilogue`, `disconnect_on_done` and the contents of tags in the work loop; thread
affinity, `setThreadBounds` and priorities of the pool; `ByteRingBuffer` and `AtomicBitset`; buffer sizes, priming of feedback loops, compile-time merging and the YAML importer of graphs;
validation, callbacks and conversion of settings; copies, `from_blob()` and look-up of packed maps; callbacks, `DataSetSink` and signal names of the data sink; the restart of a sink, which neither
registers again nor resets `_listeners_finished`.

## Plan

1. *Done*: the modules above, their runs, twenty-nine theorems.
2. *Left to prove*: `WindowsAreWhole`, which needs for each kind of listener the window that it keeps, and the history it is cut from.

## Running

`tlc -config ring.cfg MCSingleProducerRing`, and so on for each run of `PROJECT.json`; `tlapm SingleProducerRingProofs.tla`, and so on for the
modules whose names end in `Proofs`. The longest takes eight minutes.
