# TLA+ specifications of the multi-modal framework

These modules specify the concurrent core of the framework under `include/`:
message queues and the threads that poll them, devices, the state machine with
its thread pool, and the lock-free queue library under all of them.  TLC checks
them on small instances; TLAPS proves the results listed under *Proofs* for
every value of the constants.

The framework is a set of C++11 header templates.  There is no daemon and no
persistent state: an application composes queues, readers, pollers, devices and
state machines in one process, and what is hard about it is threads: who may
touch what, in which order, and who is left waiting when something goes away.

## Inventory

| Component | State it keeps | Operations | Interacts with |
|---|---|---|---|
| `Queue<T>` (`queue/queue.h`) | one `ConcurrentQueue`; lives as long as a `shared_ptr` to it | `enqueue`, `dequeue` (hands out `T()` when it finds nothing), `empty` | owned by producers and devices |
| `QueueReader<T>` (`queue/queue_reader.h`) | a `weak_ptr` to a queue | `connect`, `disconnect`, `expired`, `empty`, `dequeue` | pollers, devices |
| `QueuePoller<T>` (`queue/queue_poller.h`) | reader, handler, `mPolling`, `mException` under a mutex, a thread running `poll()` | constructor (spawns), copy, move, destructor (joins), `polling`, `error` | reader, the application's handler |
| `GenericDevice` (`device/device.h`) | four functions and a list of event functions, an output and an event queue, an input reader, `mCurrentState` | `read()`, `read(input)`, `connect`, `disconnect`, move, `swap` | other devices through queues |
| `StateMachine<T>` (`device/state_machine.h`) | state and transition maps, `mIsActive`, handler thread, worker pool, event queue | `addState`, `addTransition`, `setInitialState`, `start`, `stop`, destructor | event queue, the application's predicates and events |
| `ConcurrentQueue` (`internal/concurrentqueue`, vendored) | a list of producers, each with a stream; see the next table | `enqueue`, `try_dequeue`, `size_approx` | wrapped by `Queue<T>` |
| `Event<T>` (`device/event.h`) | a flag and a type; static list of registered types | `registerType`, `registered`, construction (throws), copy | devices publish them |
| `Domain<T>` (`device/domain.h`) | a predicate | call, `+`, `*` | nothing calls it |
| `Experiment` (`experiment/experiment.h`) | state, mode, order, treatment list and queue | `append`, `start`, `next`, `pause`, `resume`, `process`, `reset`, `stop` | does not compile |
| `Observable<T>` (`observer/`), `QueueObserver<T>` (`queue/`) | vector of `weak_ptr` under a mutex; a poller | attach, detach, notify | cannot be instantiated |

Inside `ConcurrentQueue`, from the element outwards:

| Part | State it keeps | Operations |
|---|---|---|
| dequeue protocol of a stream | `tailIndex`, `headIndex`, `dequeueOptimisticCount`, `dequeueOvercommit` | `enqueue`, `dequeue` |
| block index of an implicit stream (a thread without a token) | a ring of `(base, block)` entries shared by a chain of headers | enqueue and dequeue, single and bulk, destructor |
| ring of an explicit stream (a producer token) | a circular list of blocks, a circular index of them | the same |
| pool of blocks | an array, a free list with reference counts, the heap | `requisition_block`, `add_block_to_free_list` |
| producers | the list of all streams, a chain of hash tables from thread to stream, tokens | `get_or_add_implicit_producer`, `recycle_or_create_producer` |
| consumers | the scores of a call, consumer tokens with a place, a quota and a shared offset | `try_dequeue`, `try_dequeue_bulk`, with and without a token |

Vendored json, hidapi and libusb, the pattern sketches in `DP/`, the Android
project and the empty `USBWriter` hold nothing of the framework's own logic.

### What is hard, and what makes each part correct

- **Streams.** Consumers claim elements with an optimistic count before they know
  there is one, and give excess claims back.  Correct: elements come out in
  order, each to one caller; a block is freed exactly when its last element is
  gone; counters may wrap; a consumer left alone finds what is there.
- **Finding a block.** A consumer loads the index, its tail and the base there at
  three moments, while the producer inserts, grows the index and takes entries
  back after a failure.  Correct: it arrives at the block of its element; a call
  that fails leaves nothing behind; the destructor destroys what is left, once.
- **Pool of blocks.** Threads look at nodes that others take and return.  Correct:
  no block has two holders or none that will return it; somebody's call ends.
- **Producers.** Tables are added while threads search and insert in old ones.
  Correct: a thread has one stream for ever; no stream is missing from the list;
  no call waits for ever.
- **Consumers.** The list grows and streams fill and drain while a call goes
  through them.  Correct: who comes back with nothing has overlooked nothing;
  all tokens move on when one has taken its quota.
- **Reader and poller.** `expired()`, `empty()` and `dequeue()` are separate
  looks at a `weak_ptr` and at a queue that others change in between; pollers
  can be copied (two threads on one queue) and moved (the thread keeps using
  the old object).  Correct: at most one handler gets a message, none is lost,
  each producer's order is kept, a stopped poller can say why, destruction
  waits for the thread, and a message is handled if someone keeps polling.
- **Device.** One `read` publishes an output, then events, then changes state,
  and any of the application's functions may throw in between.  Correct: an
  output and its events belong together whatever throws; an output reaches one
  reader.
- **State machine.** `start()` spawns threads that test a flag it raises last;
  `stop()` joins threads that may themselves be calling `stop()`; the pool is
  never cleared; spawning may fail half-way.  Correct: after `stop()` no thread
  runs, an active machine can be stopped, the process does not end in an
  assertion or in `std::terminate`, `stop()` returns and events are run.

`PROJECT.json` lists each hazard at its line, with the properties about it.  A
property that excuses the outcome of a hazard is not listed under it: what the
code does there is in the model, and `excuses`, `cutShort` and `uneven` keep account
of the runs in which it has happened.

## Modules

| Module | Models | Kind |
|---|---|---|
| `StreamPromise` | what one stream of the library promises | abstract |
| `ImplicitStream` | the dequeue protocol of a stream, `Block::set_empty` | detailed, implements `StreamPromise` |
| `ImplicitStream_proof` | proof that it does, and proofs about its blocks | proofs |
| `BlockIndex` | `ImplicitProducer`: index, bulk calls, failures, destructor | detailed |
| `BlockIndex_proof` | proofs about `BlockIndex` | proofs |
| `BlockRing` | `ExplicitProducer`: ring, index, bulk calls, failures, destructor | detailed |
| `BlockRing_proof` | proofs about `BlockRing` | proofs |
| `BlockLedger` | which blocks are held, free, or not yet made | abstract |
| `BlockPool` | initial pool, `FreeList`, `requisition_block` | detailed, implements `BlockLedger` |
| `BlockPool_proof` | proofs about `BlockPool` | proofs |
| `Producers` | the list of producers, the hash of threads, producer tokens | detailed |
| `Producers_proof` | proofs about `Producers` | proofs |
| `Consumers` | the choice among streams, consumer tokens | detailed, on the promise of `StreamPromise` |
| `Consumers_proof` | proofs about `Consumers` | proofs |
| `SharedQueue` | `Queue<T>` and its ownership, on the same promise | operators and state, used by the poller |
| `MessageStream` | what a queue read through pollers promises | abstract |
| `QueuePoller` | `QueuePoller<T>` over `QueueReader<T>` | detailed, implements `MessageStream`; EXTENDS `SharedQueue` |
| `QueuePoller_proof` | proofs about `QueuePoller` | proofs |
| `Device` | a network of `GenericDevice`s with their readers | detailed |
| `StateMachine` | `StateMachine<T>` with its handler thread and pool | detailed |
| `MachineAndDevice_proof` | proofs about `StateMachine` and about `Device` | proofs |
| `MC...` | constants and symmetry for TLC | instances |

In every module one action is one step of the code that other threads can tell
apart: a load, a store or a locked section, or a whole call where nothing it
touches is shared.  Variables and actions are named after the members and
functions they stand for; where a thread is in a function is its `pc`.

The modules of the library stand on each other by what each shows: a claim is
one step in `BlockIndex` and `BlockRing` because `ImplicitStream` implements
`StreamPromise`; blocks are taken and returned in one step there because
`BlockPool` implements `BlockLedger`; leaving a stream is one step in
`Consumers`, and `SharedQueue` has streams of its own, for the first reason.

**Planted faults.** Operators introduced by "Planted fault" are not part of any
next-state relation.  Each is a definition as a plausible bug would have it;
exchanged for the real one, it violates the property named for it among the
mutants in `PROJECT.json`.  They show that the properties can fail.

**Assumed everywhere in the library:** sequentially consistent memory (the code
uses acquire, release and relaxed accesses, so the models have nothing to say of
reorderings those admit) and `NDEBUG`:
the assertion at line 2391 compares wrapping counters with a plain `<=`, and
fails in correct runs once one has wrapped (with 64-bit counters, out of reach).

### ImplicitStream and StreamPromise

Message payloads are the numbers 0, 1, ... in the order they were enqueued.
`EnqueueWrite` constructs an element (starting a block when needed),
`EnqueuePublish` advances `tailIndex`.  A consumer runs `LoadTail`,
`LoadOvercommit`, `CheckCount`, `Claim`, `CheckClaim`, and then either
`GiveBack` or `TakeHead`, `MoveOut`, `Retire`; these are the atomic accesses of
`dequeue()` in program order.  Counters are kept modulo `IndexSize` and
compared by `CircularLessThan`, which is `circular_less_than`.
`NoRivalIsAncient` is a bound: no call sleeps while a quarter turn of claims is
given back; the comment on `index_t` in the traits warns of just that.
`RoomToCompare` is the assumption that goes with it: consumers are at most a
quarter of the counters' range and elements less than half of it, both far out
of reach of 64 bits (the instance has 2 of 4, and 3 of 8).  The
abstract `Excuse` says when a caller may be sent away with nothing: at some
moment of its call the stream was empty or another caller was inside.

### BlockIndex

A block is named by its base, the index of its first element.  The producer goes
through `CheckRoom`, `InsertEntry` (`StoreKey`, `StoreTail`), `RequisitionBlock`,
`StoreValue`, `Construct`, `Publish`; `NewBlockIndex` grows the index.
`Revert` and `Rewind` undo a call for which there is no memory or an element
whose constructor throws; a throwing assignment in `dequeue()` empties and frees
as a normal one does, so `Finish` and `Unset` stand for both.  A consumer goes
through `Claim`, `LoadHeader`, `LoadTail`, `LoadKey` and, for each block of a
bulk call, `LoadValue`, `Finish`, `Unset`.  `EntryOf` divides the difference of
bases as an unsigned number; the code does so too, and modulo the capacity, a
power of two, it comes to the same as a signed one.  `NullIndex` is the first
`enqueue` of a stream whose first index could not be allocated: the constructor
ignores that, and the call follows a null pointer.  `NoBlockIsAncient` bounds how
far a sleeping consumer lags: indices that are compared are less than half a turn
apart.  `MaxBulk` bounds the elements of one call by the same measure.
`SizesDivide` is what matters of all sizes being powers of two, and that a block
is no more than half a turn of the counters.  `Starts` lets a run begin at a quiet
moment of a stream that has been in use for long.

### BlockRing

`emptyFlags` and `slot` keep what a block holds, `allocated` and `next` the ring,
`headers`, `slotsUsed` and `front` the circular index.  The producer takes the
block ahead of the tail if it is empty (`TakeAhead`), or puts a new one there
(`RequisitionBlock`), with a larger index if all entries are in use
(`NewBlockIndex`); bulk calls write the entry of a block before its elements,
single calls after (`WriteEntry`, `StoreFront`).  Which comes first otherwise is
decided at compile time: elements whose constructor may throw are constructed before
the index is written and its front stored (`construct`, `entry`, `front`), others
after that (`enter`, `store`, `place`).  A stream has one or the other; the model
chooses anew in each call, which allows more, and `enqueue` with another kind of
argument does choose anew.  `Undo` restores the producer's
variables and keeps the blocks in the ring, as lines 1933-1937 do.  No call
follows an undone bulk call that kept a block: `pr_blockIndexSlotsUsed` then no
longer counts that block, a later call that reuses it from ahead (line 1699,
relying on line 1704: "guaranteed to be room") does not count it either, and the
check at line 1724 lets one block too many into the index, where it overwrites
the entry of the oldest while consumers still need it.  A constructor that throws
in `enqueue` also leaves its block in the ring, marked full: it is not "available
for next time" (line 1761).  `excuses` records both; `IndexIsRing` and
`DestroysExactly` are about streams without, `LookupSound` only excludes the first.
`Remains` says of a slot of the ring whether the destructor destroys what is in it.

`SizesDivide` is what matters of all sizes being powers of two, and that an index
never has more entries than the counters have blocks.  `MaxBulk` bounds the
elements of one call: they are less than half a turn of the counters, which is
how far the indices that `NotAncient` lets a run compare are apart.
`CountersAreWide` says the same of the blocks: the ring without one of them is no
more than half a turn.  With counters of 64 bits both are far out of reach; where
they fail, `circular_less_than` and the positions of the index tell blocks apart
no longer.

### BlockPool and BlockLedger

`freeListRefs` is a word of a count and a flag (`SHOULD_BE_ON_FREELIST`); the
model keeps the count in `freeListRefs`, the flagged blocks in `flagged`, and
`Word` puts the two together where a whole word is compared.  Getting is
`LoadHead`, `LoadRefs`, `Acquire`, `LoadNext`, `Pop` (the compare-and-swap of the
head), `Take` or `Release`; returning is `Add`, and for the one thread that may
do it `LoadTop`, `Link`, `Expose`, `Push`, `Retract`.  `list` is a history
variable: the blocks reachable from `freeListHead`, in order.  `BlockLedger` has
two operations, taking a block that is free or new and returning one.

### Producers

`implicitProducerHash` is the sequence of tables, the newest last; threads that
found themselves in an older one copy themselves to the newest (`AddLazily`).
`Malloc` may be refused (`MaxHashSize`, `MaxProducers`), which is when
`implicitProducerHashCount` has to be taken back (`Uncount`) and when a thread
finds no room and waits in `CheckRoom` for another's table.  `Link` is a
compare-and-swap on the list.  Implicit producers are never recycled: the release
at the end of a thread depends on thread-local support that is not compiled in.
`TokenUsers` are the threads that enqueue with a token.

### Consumers

Producers are numbered in the order in which they are linked, so `next` of `p` is
`p - 1`.  Entering a stream loads its tail (`seen`), and leaving one and entering
the next are one step, because a call may leave with nothing at any time after.
A call with a token compares the offset, or moves to its place, in a step before it
enters (`TryDequeueToken`, `MoveToken`, then `EnterCurrent`).
`met` are the consumers that met another inside their stream; `owed` is what a
call has to account for, the elements that were there when it began.  A call for
one element compares its count with the quota by `==` (line 1044) and a bulk call
by `>=` (line 1103); a call for one element may be either, so past the quota it may
meet it or miss it (`MeetsQuota`, `MissesQuota`).  A bulk call that finds too little
adds to the count without a look at the quota: a token in `uneven` may therefore
miss it ("every 256 items from one producer, make everyone rotate", line 1030,
"more or less").  A bulk call that asks for nothing (`max` is 0) is left out: it is
promised no element, and past the quota it would advance the offset without having
taken one.

### SharedQueue and QueuePoller

A message is `<<producer, index>>`.  A stream is the pair `head`, `tail`; the
queue exists while it has `owners`, and `Lock` makes a thread inside
`try_dequeue` an owner for the length of the call.  `TryDequeueMiss` and
`SeemsEmpty` are as loose as `StreamPromise` and `size_approx` are: with a
rival inside, a consumer may find nothing although an element is there.

The thread of a poller goes `while` → `empty?` → `empty.lock` → `dequeue?` →
`dequeue.lock` → `try_dequeue` → `handle` → `handling`, or to `catch` and
`lower`.  The points ending in `?` are calls of `expired()`, those ending in
`.lock` the calls through `weak_ptr::lock()`: `ReaderNullCall` is what happens
when the queue died in between.  `Move` begins the move constructor, which takes
one member after the other in the order of their declaration while the thread goes
on (`MovePolling`, `MoveHandler`, and `MoveRest` for the exception and the thread
handle), and leaves the thread on the old object.  `life` of the new object says
which member is next, and `origin` whom it is taken from; nobody copies, moves or
destroys an object that is being moved from (`Free`).

### Device

`Read` goes through the same points as the poller's reader, `Process` through
`input` (domain and resolution function), `output`, `state`, `events`.  An output
is represented by the input it resolves.  `Fail` is any of the application's
functions throwing, or being empty, or a copy that throws, the one into
`mCurrentState` at the end included; `EventRefused` is an event for which the
queue has no memory, which `read` does not notice, and `Output` may be refused
likewise.  `front` and `back` say which functions a device has, since `swap()`
exchanges the domains and the resolution function but exchanges the state function
and the event list with themselves (line 340), so that a moved-to device resolves
inputs and then fails in an empty state function.  Devices are used by one thread
each; `connect`, move and `swap` are called on devices that are not inside
`read()`, because the class locks nothing.  `place` is where a device is in `read`
(a `pc`) and `outcome` what became of the process; names that the state machine
has as well begin with `Net` (`NetInit`, `NetTypeOK`), because one module holds
the proofs about both.  `given` counts the application's inputs up to a bound, and
`cutShort` is a history variable that guards nothing: the inputs that `Fail` or
`EventRefused` left with an output and too few events.  `EventCount` is a length
for each device, since no move and no swap exchanges the event lists (line 341).

### StateMachine

`StartPoints`, `StopPoints` and `RunPoints` list where a thread can be in
`start()`, in `stop()` and in its own loop.  `SpawnFails` is the `catch` of
`start()`; `PushBackFails` is the pool without memory for a thread that was
created, whose destructor then ends the process.  `HandlerEnqueueFails` and
`HandlerEnqueueThrows` are an event the queue refuses, which nobody notices, and
one whose copy throws outside of any `try`.  Predicates and events may throw or
call `stop()`; `HandlerJoinsItself` and `StopPoolThrows` are the
`std::system_error`s that follow.  Here assertions are kept: `AssertFails` is the
abort of a build with them.  Two threads in `stop()` at the same handler or pool
thread are a data race, and `process` becomes "undefined"; so does it when one
clears the handler between the other's two looks at it (`StopCheck`,
`StopJoinable`).  Writing the name of the initial state while the handler copies
it may end as "raced", and running off the end of `setInitialState` as "noReturn":
no property promises anything after these.  `excuses` is the history of the
`Mishaps`, and guards nothing.  Pending events are counted and not told apart.
The runs have one client thread, and the safety properties are about that use: two
clients that call `start()` at once both find `mIsActive` false, in spite of the
comment at line 184, and the second meets the assertion.  `SetInitialState` has
its condition the way round it is in the code, which accepts just the names that
do not exist (line 160).

## Runs

| Run | Question | Instance |
|---|---|---|
| `poller_queue` | are messages handed over once, does the thread stay off gone objects, is it served and joined? | 1 producer, 2 pollers, 2 messages |
| `poller_expiry` | is an expired queue always reported? (violated) | 1 producer, 1 poller |
| `device_fan` | do outputs and events fit together, does an output reach one reader? | 3 devices, two reading the third, 1 input, 1 output each, 2 events of the source and 1 of each reader, moves and swaps of the readers |
| `machine_restart` | is the machine stopped when `stop()` says so, however often it is started? | 1 client, pool of 1, 3 workers in all, a map with a branch, a loop, an end and an unknown name |
| `machine_liveness` | does `stop()` return, are events run? | 1 client, pool of 2, a map with a loop |
| `machine_start` | does `start()` start the machine? (violated) | 1 client, pool of 1, 1 worker |
| `stream_protocol` | does the optimistic protocol keep its promise? | 2 consumers, 3 elements, blocks of 2, counters modulo 16, a fresh stream and one about to wrap |
| `block_index` | is the block of a claimed element found, does a failed call leave nothing? | 2 consumers, 9 elements, blocks of 2, counters modulo 16, index of 2 to 8, bulks of 3, refused memory, throwing constructors |
| `block_ring` | the same for a stream with a token | 2 consumers, 8 elements, blocks of 2, at most 5, counters modulo 16, index of 2 to 8, bulks of 3 |
| `block_pool` | is the free list a ledger of blocks, does some call always end? | 3 threads, 2 blocks, one of them in the initial pool |
| `producers` | has a thread one stream, is none lost from the list, do calls return? | 3 threads with two starting at the same slot, tables of 4 to 16, 3 producers, with and without tokens |
| `consumers` | has a call that comes back empty overlooked a stream, do tokens rotate? | 2 consumers, 3 producers, 2 elements, 2 scored, quota of 2, bulks of 2, offsets modulo 8 from 7 on |

**Why the bounds are enough.**  Two consumers are needed for every race over an
element, a block or a place.  In `stream_protocol` three elements over blocks of
two make a block fill, a second one start and the first be freed while the second
is in use, and the stream that starts at 15 of 16 makes tail, head and optimistic
count wrap, at different moments.  In `block_index` and `block_ring` the index
starts at two entries, so that it is full, grows once and twice, and wraps; bulks
of three over blocks of two need two blocks, the second of which can fail.  In
`block_pool` an ABA needs a block taken, another taken, and the first returned
between two steps of a third thread.  In `producers` three threads in a table of
four make it three quarters full.  In `consumers` two streams are scored where the
code scores three, with three in all: so one is left unscored, as a fourth is in
the code.  Two pollers are a copy, a move, or two rivals, and two messages are
what an order can be broken with.  In `device_fan` the two
events of the source leave room to stop between them or to lose one of them; each
reader has one, or none if it was constructed by a move.  The third worker in
`machine_restart` makes a third start, or a second after one that failed.  `CHECK_DEADLOCK` is off where
the system really stops: the process ended, everything was destroyed, or a bound
on inputs was reached.  Symmetry is used only in runs without liveness, over sets
whose members no constant tells apart.

**Fairness.**  Started threads are scheduled (WF on each thread's steps): they
are ordinary `std::thread`s.  Handlers, predicates and events return or throw:
they are the application's, and a thread inside one that never returns can
neither be joined nor served by.  A predicate or an event calls `stop()` finitely
often, hence SF on its return.  Nothing makes an application send, start, stop or
destroy.  `Producers` has WF on each thread inside a call.  `BlockPool` has WF
only on *some* thread going on: `try_get` may begin again for ever while others
succeed, and `LockFree` is the promise that remains.  Progress of the library
while consumers keep meeting in `try_dequeue` is *not* assumed: `ImplicitStream`
shows that two consumers in lock step, each with an overcommit read before the
other gave its claim back, may hide one element from each other for ever.
`Drains` and `EventsRun` therefore promise service only if such meetings end
(`Contended`), `EventsRun` only if the queue does not refuse events for ever, and `LastOneDrains` is about a consumer left alone.

## Findings

1. `ExpiryIsReported` (`poller_expiry`).  The poller's test expects a dropped
   queue to end the thread with an exception that `error()` reports.  If the
   last owner lets go between `expired()` and `lock()`, the reader calls through
   a null pointer.
2. `StartTakesEffect` (`machine_start`).  `start()` is said to start the machine;
   it raises `mIsActive` after the threads that test it are running, and they may
   have left by then.  The machine is then active, idle, and not startable.

Met while modelling, and described with the modules above, without a run of their
own: the inverted test in `setInitialState()` (`state_machine.h:160`), two
concurrent calls of `start()` (`state_machine.h:184`), the functions `swap()` does
not exchange (`device.h:340`), the undone bulk call (`concurrentqueue.h:1935`),
the block of a throwing constructor (`:1761`), the index the constructor could not
allocate (`:2259`) and the missed quota (`:1044`).

## Proofs

### QueuePoller_proof

For any producers, any finite set of pollers and any number of messages, from the
assumptions named in `SharedQueue` and `QueuePoller` (`MaxSent` is a natural number;
producers, pollers, `Default` and `NoThread` are told apart; a program makes finitely
many pollers, `PollersAreFinite`):

| Theorem | Statement |
|---|---|
| `TypeCorrect` | every variable keeps its type |
| `HandedOnceAlways` | a message is in the hands of one polling thread, once |
| `PhantomNeedsRivalAlways` | `T()` reaches a handler only if a second poller was started |
| `StopExplainedAlways` | `polling()` is false only after `error()` is set |
| `NoThreadOnGonePollerAlways` | no thread runs on a destroyed poller |
| `OrderAlways` | each handler sees each producer's messages in order |
| `NothingDroppedAlways` | a poller that is moved from loses one message at the most |
| `ImplementsStream` | `QueuePoller` implements `MessageStream` |

All rest on one inductive invariant, `Inv`.  The properties are not inductive as
they stand; what is added says what a thread knows at each place in `poll()`:

- `Bounded`: no `head` overtakes its `tail`;
- `HeldTaken`: what a thread holds or handed out has left the queue, so the
  element taken next is new to every thread (for `HandedOnce`);
- `InOrder`: the message in hand comes after those of its producer that the
  thread handed out (for `OrderPerProducer`, and it needs `HeldTaken`);
- `PromiseKept`: a lone thread that saw the queue non-empty will find it so;
  `PhantomHeld`: therefore a lone thread has no `T()` in hand;
- `RecordedFirst`: at `lower` the exception is already recorded;
- `ThreadsKnown`: who owns which thread handle across a move, member by member, which is what the
  join in the destructor relies on.

`NothingDropped` compares two numbers that grow apart from each other: messages
lost, and pollers that were moved from.  What relates them is who lost each message:
by `DroppedInHand` a message that was dropped is still in the hand of a thread that
ended for want of a handler (`Losers`), and such a thread never runs again, so there
are no more lost messages than threads of pollers that were moved from.

`HitStep`, `MissStep`, `CallStep` and `OtherSteps` state once what the steps do
that touch messages; `MessagesNext` and `PhantomNext` use these.

### BlockIndex_proof

For any set of consumers, any sizes, bulks and starts, from the assumptions
named in `BlockIndex` and under its bound `NoBlockIsAncient`:

| Theorem | Statement |
|---|---|
| `TypeCorrect` | every variable keeps its type: headers double, no count passes `BLOCK_SIZE` |
| `LookupSoundAlways` | a consumer finds the block of its element, however old what it read |
| `NothingLeaksAlways` | a stream at rest owns the blocks it needs, and its index holds just those |
| `DestroyedOnceAlways` | the destructor gives back each block once, and no other |

`LookupSound` is not inductive: it says where a lookup arrives, and that depends
on what the entries held when the consumer read the tail, on what has been done to
them since, and on why the block it needs cannot have gone.  As the counters, the
tails of the headers and the positions all wrap, `Inv` says that there are numbers
behind them that do not: the places `t` of the tail, `h` of the head and `f[c]` of
each consumer's next element; the block number `K[e]` of the key of each entry; and
`own`, the numbers of the blocks of the stream.  `Control` says what the producer's
variables mean at each of its points, among them `TailNum`, the block that the tail
of the index stands for.  About the numbers, `Inv` says:

- `Shape`: each header's index is a permutation of entries, so that two positions
  never share one, and each header has twice the entries of the one before;
- `Keys`: in the last header the blocks are less than a turn from the tail
  (`Near`), without a gap from the oldest to the tail; a header that was replaced is
  full, and its positions are its blocks' numbers but for whole turns (`Frozen`);
- `Values`: an entry with a block has the block of its key; a block of the stream is
  in the index or is one the producer has in hand (`Unstored`), and an entry
  without a value is the one it is working on (`InFlight`);
- `Counted`: a block's counter is the number of its `Finished` elements, and the
  one consumer that brings it to `BLOCK_SIZE` is the one that takes the block out;
- `Seen`: the block of each element a consumer still has to fetch stays in the
  header the consumer has loaded, even when the producer has gone on to others.

A lookup steps back from the tail by a difference of block numbers modulo the
capacity.  By `Near` and `Frozen` such a difference is that of the positions,
whichever valid entry it starts from: that is why an outdated tail does no harm
(`PositionIs`, `InLine`).  And the entry it arrives at is still that of the block,
because the block has an unfinished element, the consumer's own (`Counted`,
`Seen`).  There is one lemma per step (`StoreKeyStep`, `NewBlockIndexStep`,
`FinishStep`, ...), and `ConsumeStep` and `ProduceStep` collect them.

### BlockRing_proof

For any set of consumers, any sizes, bulks and number of blocks, from the
assumptions named in `BlockRing` and under its bound `NotAncient`:

| Theorem | Statement |
|---|---|
| `TypeCorrect` | every variable keeps its type: headers double, no position leaves its index |
| `LookupSoundAlways` | a consumer finds the block of its element, however old what it read |
| `IndexIsRingAlways` | the entries in use are the blocks of the ring, in its order |
| `DestroysExactlyAlways` | the destructor destroys the elements that are left, and nothing else |

Here, too, `Inv` speaks of numbers that do not wrap, and says that some exist that
the variables stand for (`Good`): the places `t` of the tail, `h` of the head and
`f[c]` of each consumer's next element; `B[n]`, the block that was number `n` last;
`lo`, the lowest number whose block still has it; `m`, how many blocks the call
under way has used; and `o`, the number that would be at position 0 of the index.
A block keeps its storage and gets a new number each time it is used again, so
that, other than in `BlockIndex`, the block at the end of a lookup can be right
and the element in it another one.  About the numbers, `Good` says:

- `Control` and `Locals`: what the producer's variables mean at each of its points,
  and what `Undo` and a throwing constructor go back to;
- `Chain`: from `B[lo]` the links lead through the numbers to `tailBlock`, and from
  there back to `B[lo]`, unless a call has failed: then the block after the tail is
  none of them, is marked as in use, and is never taken;
- `IndexOK`: the entries in use are those of the last numbers.  In every header,
  the replaced ones included, an entry is for the block that its position says, up
  to whole turns of that header (`Linear`);
- `Claimed`: what consumers have in hand is before the head and disjoint, and all
  that is undone is within half a turn;
- `Elems`: an element that is undone is in its slot of its block, whose number has
  not been given away (`Stored`); there is nothing in any other slot (`NoOther`);
  a flag is up when its element is done with (`Flags`);
- `Seen`: for each block a consumer still has to go to, the header it has loaded
  keeps an entry with that base and that block.

`LookupSound` follows from `Seen` and `Stored`.  What makes `Seen` inductive is that
an entry is overwritten only when its block is used again, which needs all its
flags up, and the consumer's own element is not done with (`TakeAheadStep`,
`WriteEntryStep`); `Linear` is what makes the step from a front and a base to an
entry right in an old header as well (`LoadBaseStep`).  `IndexIsRing` is `Chain` and
`IndexOK` read together.  For `DestroysExactly`, `HalfIs` shows that the search of
the destructor ends at the block of the head: the entries before it are done with,
and since all but one of the blocks are within half a turn (`CountersAreWide`)
`circular_less_than` orders them as their numbers do.  `Types` is what remains
when a bulk call was undone.  There is one lemma per step, and `ConsumeStep`,
`ProduceStep` and `DestroyStep` collect them.

### BlockPool_proof

For any finite set of threads, any number of blocks and any initial pool:

| Theorem | Statement |
|---|---|
| `TypeCorrect` | every variable keeps its type: no count below zero |
| `RefsAlwaysBalance` | the count of a block is the threads that look at it, and one for the list |
| `NeverLost` | when no call is under way, every block is held or on the list |
| `ImplementsLedger` | `BlockPool` implements `BlockLedger` |

The invariant is, besides `TypeOK`: `Chain` (the list is what the links from the
head reach, without repetition), `Locals` (what each thread's variables mean at
each of its points), `OneThread` (a block is being added, or being taken, by one
thread at most), and for every block `OnePlace` (it is held, listed, or with one
thread, and never two of these), `FlaggedZero` (a flagged block has a count of
zero just while the thread that will add it is about to) and `Balanced` (its count is the number of its users and
one if listed).  `OnePlace` is what the ledger needs; it is inductive only with
`Balanced`, because it is the count that keeps a block from coming back with
another link while a thread holds its old one.  There is one lemma per kind of
step (`LookStep`, `AcquireStep`, `PopStep`, ...); `UserJoins`, `UserLeaves` and
`SameUsers` state once how a set of users and its cardinality change.

### ImplicitStream_proof

`KeepsPromise`: `Spec => PromiseSpec`, that is, `ImplicitStream` implements
`StreamPromise`, for any finite set of consumers, any size of counters and blocks,
and wherever the counters start, from the assumptions named in `ImplicitStream`
and under the bound `NoRivalIsAncient`, which is part of its actions.

The counters wrap and say little by themselves, so `Inv` says that there are
numbers behind them that do not wrap: `s`, where the stream started; `o`, how many
claims were given back; and for each consumer `oc`, what it read of `o`, and `m`,
the number of its claim.  The variables hold these modulo `IndexSize`
(`LessMeansLess`: compared by `CircularLessThan`, they are as the numbers
are, if less than half a turn apart).  About the numbers, `Inv` says:

- `InPlace`: element *e* is at place *s + e* until it is moved out, and no two
  consumers move out the same one;
- `Balanced`: claims are numbered one after another, so the optimistic count is
  their number.  `Enough` is what makes the second look right: when the claims a
  consumer knows to be given back leave an element for its own claim, they leave
  one for each consumer that claimed before it and has yet to look.  It is
  inductive because claims given back later only help (`BalancedGivenBack`), and
  a consumer that is granted one is itself among those counted
  (`BalancedGranted`);
- `Excusable`: a caller without an excuse is alone with an element, so all that it
  read is still so, and neither of its looks sends it away.

Each step of `dequeue()` is shown to keep `Inv` and to be a step of
`StreamPromise` or none (`CheckStep`, `TakeStep`, ...).

Two more theorems rest on `Inv`, under one more assumption, that a block is smaller
than a turn of the counters (`BlocksAreCounted`: `BLOCK_SIZE` is a `size_t`, and
`index_t` is no smaller, line 638); a block as large as a turn would meet itself
again when the counters wrap, and `EnqueueWrite` would reset its count:

| Theorem | Statement |
|---|---|
| `TypeCorrect` | every variable keeps its type: no block counts more elements than it has |
| `BlocksReclaimedAlways` | a quiet stream holds the blocks of its elements and of the next one, no other |

`BlockInv` counts in numbers that do not wrap, as `Inv` does.  `Started` are the
bases of the blocks that were ever entered; `Done` are the elements of a block
that were claimed and that nobody is at work on any more.  A block's counter is
the number of its `Done` elements, and the block is there as long as that is not
all of them (`Tallied`); who is at work has an element to itself (`OwnElement`), so
retiring it makes one more `Done` in one block only (`KeptRetired`).  That two
started blocks, or two elements in use, are never taken for each other is `Apart`:
all of them are less than a turn apart.

### Producers_proof

For any finite set of threads, any hash, any sizes of the tables and any number of
producers:

| Theorem | Statement |
|---|---|
| `TypeCorrect` | every variable keeps its type |
| `OneStreamEachAlways` | no thread has two streams, no two tokens have one producer |
| `ListCompleteAlways` | who walks the list meets every producer that was handed out |

`OneStreamEach` needs that a thread without an entry in *any* table has no stream,
and that a search which ends without finding the thread was not one that had
passed its entry.  Neither is in the variables: threads insert in old tables while
others search there, and larger tables come in front.  So `Inv` has:

- `Findable`: a thread with a stream has its key in the table it was inserted in,
  or in a newer one, and on the probe path from its slot to that place no slot is
  empty (`Path`, a set of indexes; slots are never emptied, so it only fills);
- `Searches`: a search for such a thread stands, in some table still to come or in
  this one, before that place.  It therefore cannot meet an empty slot first
  (`NotFound` is then impossible), and a thread is inserted only if it has no
  stream;
- `HashCounted`: the count of the table is that of the threads that have a stream
  or are about to; `Told`: a thread knows only producers that are in the list;
  `Apart`: an inactive producer belongs to no thread, and users of tokens have no
  stream of their own.

`ListComplete` is about what is reachable over `next`.  `Reached` is the least set
with the tail that `next` does not lead out of; `Listed` says that it is just the
producers whose compare-and-swap was made (`Linked`), and `OneAdds` that a producer
whose was not belongs to one thread, so that its `next` is nobody else's to change.

### Consumers_proof

For any finite set of consumers, any bulk sizes, any number of producers, tokens
and elements, from the assumptions named in `Consumers`:

| Theorem | Statement |
|---|---|
| `TypeCorrect` | every variable keeps its type: no stream gives more than it has |
| `EmptyIsTrueAlways` | a call that comes back empty has overlooked no stream |
| `RotatesAtQuotaAlways` | who has taken its quota makes all tokens move on |

For each consumer `Inv` says what its variables mean at each of its points
(`Locals`, `TokenFits`) and keeps account of what it is owed (`OwedIsThere`): it is
still in the streams; where the call is, it is within the tail it has loaded; and
nothing is owed in the streams that it has been at (`Passed`).  When a call comes
back empty, `Passed` is all of the list: for a token this is a walk that starts
in the middle, wraps at the end of the list and stops before where it started.

`RotatesAtQuotaAlways` has the hypothesis `MaxSent < OffsetSize`: the global offset
has 32 bits and is compared by `#`, so a token that sleeps while it goes round
exactly once does not see that it moved.  `RotationInv` bounds how often it can
move: the rotations since a token last looked, and the advances that are due, are
no more than the elements taken since then (`Tracked`), and those are no more than
were enqueued (`Bounded`).

### MachineAndDevice_proof: StateMachine

For any pool, any transition map and any number of starts and stops, from the
assumptions named in `StateMachine` (its threads are told apart, transitions lead
to states of the map, `__null__` is no name):

| Theorem | Statement |
|---|---|
| `TypeCorrect` | every variable keeps its type, for any clients |
| `StopQuiescesAlways` | after a `stop()` that returned true no thread of the machine runs |
| `ActiveIsStoppableAlways` | an active machine has a handler to join |
| `EndsWellAlways` | no failed assertion and no terminate but after a mishap, no race in `stop()` but after one from inside |

The last three are about one client.  `Inv` is what holds whatever the clients
do: `Places` (who can be where; a worker that was joined has exited), `Joining`
(while the handler runs its handle is joinable, and one thread at most is about to
clear it) and `Scanning` (in a predicate there is a transition left, so the next
index is in range).  `OneInv` adds what one client knows: `Quiet` (it waits for the
workers only when the handler has exited, and `mIsActive` is low all through
`stop()`), `StoppedByClient` (as long as no predicate or event stops the machine,
the handler of an active machine is there to be joined) and `CleanlyStopped` (if no
start fails either, nothing is left to join between `stop()` and `start()`).

### MachineAndDevice_proof: Device

For any devices, connections, moves and bounds, from the assumptions named in
`Device` (connections and moves are between devices; the application, `None`,
the devices and `Default` are told apart):

| Theorem | Statement |
|---|---|
| `NetTypeCorrect` | every variable keeps its type |
| `OutputThenEventsAlways` | a published output has its events, or is being worked on, or was cut short or refused one |
| `ReachesOneReaderAlways` | no message is handled by two devices |

The invariant, `NetInv`, adds, for each device: `Connected` (a reader past its first
`expired()` has a source), `Counted` (the events up to `event` are published
while the loop runs, or `cutShort` has the input, or its output was kept back), `Explained` (`OutputThenEvents` by the place of `read`), and
that everything the device has handled is `Old`: the application's count or the
`head` of a queue is already past it.  Two devices can only meet in a message one
of them is handed, and that one is not `Old` yet; `NothingNew` and `HandedNew` say
this once, for the steps that hand over nothing and for the two that do.

### Model-checked only

Liveness: `Drains`, `LastOneDrains`, `StopReturns`, `EventsRun`, `LockFree` and the
others of their kind rest on fairness and ENABLED, which are beyond the prover.
Every invariant that a run checks is proved, and so are the three refinements.
`StopExplained`, `HandedOnce` and `OrderPerProducer` are the other way round:
proved, and so in no run.

## Not modelled

- **Of the queue library:** moves and swaps of a whole queue and of tokens (no
  other call may be under way, and the framework moves none), the memory
  statistics and the other debugging aids that no build here compiles, and weak
  memory.
- **`Event`.** `registerType` reads and grows a static vector without a lock: two
  threads are a data race from the first step, after which nothing follows.
- **`Domain`.** Predicates without state; no other part of the framework calls it.
- **`Experiment`.** The header does not compile (it names members it does not
  declare): there are no states of a running program.
- **`Observable`, `QueueObserver`.** Cannot be instantiated: an override with other
  parameters than what it overrides, a destructor that is not defined, a bind
  without a placeholder.
- **Of what is modelled:** the copy constructor and `combine()` of a device (they
  do not compile when used), readers of a device's outputs that belong to the
  application, `QueuePoller::stop` (declared, not defined), `setFinalState` and
  `getPresentState` of the state machine (their members have no other reader),
  several clients of one state machine, bulk calls on a token that ask for nothing,
  calls after an undone bulk call that kept a block (see *BlockRing*).
- **Vendored libraries** other than the queue, their example programs, `DP/`, the
  Android project.  They are the larger part of the repository's C and C++ lines
  (the json header and the headers of libusb and hidapi alone are a third of
  them), and the framework's own code calls none of them.  What remains of the
  queue's header and of the framework outside the maps in `PROJECT.json` is
  documentation, platform macros, and what this section lists.

## Done and left

Done: every part of the framework that can run, and the queue library under it
down to its atomic accesses, with the two refinements its modules rest on each
other by (`StreamPromise`, `BlockLedger`) and that of the poller
(`MessageStream`), all three also proved.

Left, in the order of what would add most:

1. Consumer and producer tokens that move between threads.
2. The same algorithms under acquire and release ordering instead of sequential
   consistency.
