# TLA+ verification of the BPF arena data structures

The repository puts concurrent data structures into a BPF arena, memory that
kernel programs and a user-space process share, and drives each of them with the
same two-lane relay program.  This directory models the data structures and the
relay in TLA+, checks them with TLC on small instances, and proves the results
that matter most with TLAPS for every value of the constants.

## Inventory

| Component | Source | State | Operations | Hard parts | Status |
|---|---|---|---|---|---|
| Folly SPSC ring | `include/ds_folly_spsc.h` | `records`, `write_idx`, `read_idx` | init, insert, delete/pop, is_empty, is_full, size, verify | publication order, wrap-around, answers from two loads, the one-producer contract | modelled, proved |
| Vyukhov MPMC ring | `include/ds_vyukhov.h` | `enqueue_pos`, `dequeue_pos`, `count`, cells with `sequence` | init, insert, pop, verify, search, iterate | delayed compare-and-swap, a stalled owner being lapped, unsigned statistics | modelled, proved |
| Michael-Scott queue | `include/ds_msqueue.h` | `head`, `tail`, `count`, linked nodes | init, insert, pop, search, verify, iterate | lagging tail, helping, bounded retries, freed nodes | modelled, proved |
| CK FIFO | `include/ds_ck_fifo_spsc.h` | `head`, `tail`, `head_snapshot`, `garbage`, linked entries | init, insert with recycle, pop, isempty, verify | recycling behind a cached head, the head moving before the pair is copied, a tail stored late | modelled, proved |
| CK ring | `include/ds_ck_ring_spsc.h` | `p_tail`, `c_head`, slots | init, insert, delete/pop, size, is_empty, is_full, verify | masked wrap-around, barriers that only bind the compiler, answers from two loads | modelled, proved |
| io_uring style ring | `include/ds_io_uring.h` | `prod.tail`, `cons.head`, `sq_flags`, entries | init, insert, pop, verify | 32-bit wrap-around, a flag that goes stale, verification from two loads | modelled, proved |
| CK stack | `include/ds_ck_stack_upmc.h` | `head`, `count`, linked entries | init, insert, pop, search, verify, stats | ABA, a push that gives up and reports success, unsigned statistics | modelled, proved |
| kcov style buffer | `include/ds_kcov.h` | count word and area | init, insert, pop, verify | plain loads and stores with a single writer assumed, a hook that runs on several CPUs | modelled, proved |
| Arena allocator | `include/libarena_ds.h` | page and offset per CPU; user-space range, lock, page; object counter per page | alloc and free in kernel and user space, set_range | signed/unsigned arithmetic, counters without atomicity, freeing the current page, one arena with two owners | modelled, proved |
| Two-lane relay | `src/skeleton_*.bpf.c`, `src/skeleton_*.c` | two lanes, `initialized_ku`, `stop_test`, `uk_enqueued_count` | inode_create hook, relay thread, consume uprobe, signal handler, main | initialisation on several CPUs, shutdown, drain | modelled, proved |
| Metrics | `include/ds_metrics.h` | sample buffers per operation | record, print | | not modelled |
| API, glue, tests, scripts | `ds_api.h`, `bpf_arena_common.h`, `usertest/`, `scripts/` | none of their own | | compiler-only barriers in BPF code (modelled in SpscRings) | not modelled |

How they interact.  A file creation runs `lsm_inode_create` on the CPU of the
creating process.  It initialises the KU (kernel to user) lane on first use and
inserts a pair into it.  The relay thread in user space waits for the lane to
appear, then pops from KU and inserts into the UK (user to kernel) lane.  After
Ctrl+C main joins the relay thread and calls an empty function under a uprobe;
each call runs the kernel consumer, which pops one pair from UK.  With `-v` main
then runs the structure's verify on both lanes, while the hook is still attached.
A lane is one of the data structures; all skeletons have this shape.  Everything
a structure allocates comes from the arena allocator, kernel and user space each
with their own half of it.

`PROJECT.json` lists the hazards this leaves open to a model checker, each at its
line, with the properties that would catch it.

## Modules

* **FifoQueue**, **LifoStack**: what a lane promises: a bounded first-in first-out
  queue, or a stack, with atomic insert and pop, over the contents and the history
  `delivered`.
* **FollySpsc**: one action per access to shared memory.  A pair is stored and
  loaded as two words, so a torn pair is a state of the model.  `Producer` and
  `Consumer` are sets; the contract is the assumption `Contract` of the proofs, and
  the run with two producers shows what it is needed for.  An *observer* runs
  `ds_spsc_verify` beside the other threads.  The `_lkmm` and `_c` variants of the
  source have the same control flow and are the same actions.
* **Vyukhov**: the same granularity; the three-way test on `dif`, the
  compare-and-swap that may lose, the reload with its retry bound, the two stores
  of the pair, the sequence number and the statistics counter are separate
  actions.  The counter is modelled modulo `CountModulus`, as it is unsigned.
  `ExitSpec` adds what main does at exit: it verifies after the relay thread was
  joined, while inserts go on (`RelayJoined`).
* **RingArith**: facts about `%` that the proofs of the rings, the queue and the
  allocator share.
* **MsQueue**: nodes numbered in allocation order, `next` as a function.  Bounded
  retries, helping a lagging tail and the frees are actions or parts of them.  A pop
  that still holds a node another pop has freed may read anything from it
  (`NextOf`, `DataOf`), as its page may be gone.
  `ds_msqueue_verify` and `ds_msqueue_search` are functions of a state, the
  off-by-one of verify's element count and the cap on the nodes both visit
  (`MaxIterations`) included.
* **CkFifo**: the linked FIFO whose producer takes entries back from behind the
  consumer.  Producer-only fields are folded into the producer's steps; the two
  words of a pair, the payload pointer, the link, the head and the tail are separate
  accesses.  main joins the consumer and then walks the list while the hook still
  inserts.
* **CkStack**: pushes and pops by compare-and-swap on `head`.  `can_loop` ends a
  loop of kernel code after `MaxRounds` rounds and never one of user space, which is
  the only difference between the two variants of the source; a push that runs out of
  rounds is `PushGiveUp`.  An observer verifies beside the other threads.
* **SpscRings**: the CK ring and the io_uring ring, which differ in their indices,
  their test for a full ring and `sq_flags`; the variable `kind`, chosen in the
  initial state, says which one a behaviour is about.  Stores wait in the store
  buffer of their CPU until `DrainProducer` or `DrainConsumer` brings the oldest to
  memory, because the release stores of BPF code are plain stores.  The producer's
  buffer is a sequence of inserts, whose stores reach memory in the order
  `StoreOrder`; `drained` counts those of the oldest insert that have arrived.
* **Kcov**: the words of the area, every load and store of the count and of the pair
  an action of its own.  The history variable `raced` records the first time a call
  used a count that had changed since it was read, or an entry another call was
  working on.
* **ArenaAlloc**: both allocators on the pages of one arena; an object is an interval
  of cells, the last cell of a page is its counter.  In the kernel every load and store
  is a step.  An allocation reads the page (`KernelAllocBegin`), the offset
  (`KernelAllocOffset`) and the counter (`KernelAllocCount`), stores the counter
  (`KernelAllocStore`) and then the offset (`KernelAllocCut`).  A task that finds no page
  may sleep in the page allocator (`KernelRefill`) and then stores the page, the offset
  and the zero counter one by one (`KernelSetPage`, `KernelSetOffset`,
  `KernelSetCount`), whatever other tasks of its CPU do in between; after that it loads
  the offset again or, if the compiler forwards what was just stored, does not.  A free
  loads the counter (`FreeBegin`), stores it (`FreeStore`) and only then gives the page
  back (`FreeRelease`).  In user space the lock leaves only the accesses to the counter
  to interleave.  History variables record, page by page, the accidents the code does
  not prevent.  `torn`: the offset of a CPU lost an update, its page was replaced, or a
  refill stored its offset after another task had cut from the page or had put another
  one in its place.  `skewed`: the counter lost an update, the zero of a refill
  overwrote a count, or a free was charged to another page.  `doubled`: the page was
  given to a second owner, or its counter dropped to zero in a free of the kernel while
  objects were still cut from it (`Current`).  A page is `Trusted` as long as it is
  neither skewed nor doubled.
* **Relay**: the hook per CPU, the relay thread, the signal and main.  Lanes are
  abstract queues, or stacks in the programs of the CK stack and kcov (`lifo`,
  chosen in the initial state), which is what the modules above are shown to
  implement; a call that runs beside others may also fail and change nothing, as a
  Vyukhov pop behind an unpublished cell or an insert without memory does.
* **FollySpscProofs**, **VyukhovProofs**, **MsQueueProofs**, **SpscRingsProofs**,
  **RelayProofs**: theorems about the module each is named after.
* **StackProofs**: theorems about the two stacks, Kcov and CkStack.
* **MemoryProofs**: theorems about memory that is used again, by the allocators of
  ArenaAlloc and by CkFifo, which recycles its entries itself.

StackProofs and MemoryProofs each extend two modules that have no name in common, which
is why the specifications of Kcov and ArenaAlloc are called `KcovSpec` and `ArenaSpec`.

Every action carries the source line it stands for in a comment, and `map` in
`PROJECT.json` gives the lines.  Definitions named `Mutant...` are wrong variants
of the definition that follows them; each property is violated when one of them
takes the place of the definition, which shows that the property can fail.

## Runs

| Run | Configuration | Result |
|---|---|---|
| `folly_ring` | 1 producer, 1 consumer, 1 observer, 3 slots, 5 inserts (the ring wraps) | passes, 136 000 states |
| `folly_two_producers` | 2 producers, 2 inserts | `Lossless` violated: both producers read the same `write_idx`, both report success, one pair is gone |
| `vyukhov_safety` | 2 producers, 2 consumers, 2 cells, 3 inserts (second lap), 2 retries | passes, 1.5 million states |
| `vyukhov_exit` | 2 producers, 1 consumer, main verifying | passes, 59 000 states |
| `msqueue` | 2 producers, 2 consumers, 2 nodes, 2 retries, verify and search visiting 1 node | passes, 297 000 states |
| `ck_fifo` | 3 entries besides the stub, 5 inserts (entries are recycled), main verifying | passes, 169 000 states |
| `ck_stack` | 2 producers and 2 consumers, one of each in the kernel, main verifying, 3 entries, 2 rounds | passes, 746 000 states |
| `spsc_rings` | CK ring of 4 slots, io_uring ring of 2 slots with indices modulo 4, 5 inserts, a verifying thread | passes, 366 000 states |
| `kcov` | 2 writers, 2 poppers, room for 2 entries, 3 inserts | passes, 422 000 states |
| `arena` | 2 kernel tasks on 1 or 2 CPUs, 2 user threads, 4 pages of 3 cells, 2 of them globals, 3 allocations, symmetry | passes, 1.25 million states |
| `arena_spill` | 1 kernel task | `SufficientSpace` violated: the third allocation is cut from below its page |
| `relay` | 2 CPUs, capacities 2, 5 files, queue and stack lanes | passes, 141 000 states |

What the passing runs establish:

* Folly: `RingInv`, with `Lossless` as its main part (accepted pairs = delivered
  pairs followed by the ring's contents), `VerifyNeverCorrupt`, `HonestRefusals`
  (full and empty are reported only when true), `AnswersStayValid` (what is_empty or
  is_full told a thread still holds when that thread acts), `ImplementsFifo`, and
  `EventuallyDelivered`.
* Vyukhov: `RingInv` (sequence numbers give every cell one owner at a time, laps
  included, and claims are served in order), `HonestRefusals` (a refusal has a full or
  empty ring or an unfinished call as its reason), `ImplementsFifo`; at exit
  `CorruptOnlyFromCount` and `EventuallyDelivered`.
* Michael-Scott: `ListInv` (the invariants documented at `struct ds_msqueue`, for a
  tail that lags by at most one node; no node of the list was freed; search finds
  exactly the pairs of the nodes it visits), `Settled` (when no call is in progress the
  counter is exact, the tail is at the end, and verify succeeds unless the queue is
  longer than its loop), `HonestRefusals`, `ImplementsFifo`, `EventuallyDelivered`.
* CK FIFO: `ChainInv` (recyclable, head and queued entries form one list that
  accounts for every entry, and isempty tells whether one is queued), `NoEntryRace`
  (an entry is rewritten only when neither the consumer nor the verification can be
  reading it), `CorruptOnlyFromLag` (the two situations in which verify reports a
  sound list as corrupt), `ImplementsFifo`, `EventuallyDelivered`.
* CK stack: `EntriesAccounted` (every entry is being pushed, linked, popped or given
  up, and only one of these, and the counter is exact when nobody is about to update
  it), `VerifyNeverCorrupt` beside pushes and pops, `ImplementsLifo`, `EventuallyDrained`.  A popped entry is never given back to
  the allocator; the mutant that frees it breaks `ImplementsLifo`, which is the ABA
  problem the code avoids by leaking.
* CK ring and io_uring ring: `SlotPrivate` (a store on its way to memory never aims
  at a slot the consumer may still read), `ImplementsFifo` with stores that arrive
  late, `VerdictsSound` (what verify and size may conclude from two loads, and all
  that `sq_flags` can be used for), `EventuallyDelivered`.
* kcov: `CountBounded` (the documented invariant of `struct ds_kcov_buf`, whatever
  races), `StackUpToFirstRace` (pairs are lost, torn, repeated or overwritten only
  after a race), `EventuallyEmptied` even after races.
* Arena: `UserObjectsDisjoint` (objects of the user-space allocator stay inside their
  page and apart, whatever either side frees), `OverlapsExplained` (two objects
  overlap only through one of the accidents above), `CountersExact` and
  `FreedPagesUnused` on every page no accident has met: nothing is cut from such a page
  between the moment its counter drops to zero and the moment it is given back.
* Relay: `EndToEndOrder` (nothing delivered twice, and queues keep the order), `DrainedAtExit`,
  `VanishOnlyByReinit` (apart from what the UK lane refused, only a second
  initialisation of a lane in use loses an item), `EventuallyExits`.

Every module has a type invariant `TypeOK` (`KcovTypeOK`, `ArenaTypeOK`).  Where it is not an invariant of a run
by itself, it is the first conjunct of the module's structural invariant: `ListInv`,
`ChainInv`, `EntriesAccounted`, `SlotPrivate`, `CountBounded`, `UserObjectsDisjoint`.

### Known deviations

Where the code does not do what its comments or its use ask for, the properties
above say how far the damage goes.

* Two CPUs in the hook break the one-producer contract of the Folly ring, the CK
  ring, the CK FIFO, the io_uring ring and kcov (`folly_two_producers`).
* `libarena_ds.h:183` compares an unsigned difference with 0 (`arena_spill`).  Since a
  CPU then never takes a second page, everything it allocates beyond the first lies
  in pages of others; `OverlapsExplained` lists this with the other causes.
* `skeleton_msqueue.c:74` hands user space a range that starts behind the first page,
  although the globals are longer and the kernel allocates from the same arena.
* `ds_vyukhov.h:314` says "DS_ERROR_NOT_FOUND if queue is empty"; a position that is
  claimed and not yet published hides finished inserts behind it.  `HonestRefusals`
  states both reasons.
* `ds_vyukhov.h:533` compares a counter that may have wrapped below zero with the
  capacity, so verify at exit can report a sound ring as corrupt;
  `CorruptOnlyFromCount` says that nothing else makes it do so.  In the CK FIFO
  `CorruptOnlyFromLag` gives the two situations.
* `skeleton_msqueue.bpf.c:89` tests and sets `initialized_ku` without synchronisation;
  `VanishOnlyByReinit` shows that this is the only way an item is lost from a lane.
* `skeleton_msqueue.c:152` drops an item that the UK lane refuses, and counts it
  nowhere.  The model keeps such items in `dropped`; the properties allow for them.
* `ds_msqueue.h:649` ends the walk of verify after 100000 nodes and line 673 then calls
  a longer queue corrupt, a sound and quiet one too; `ds_msqueue.h:547` lets search miss
  a pair further back.  `Settled` and `ListInv` state both.
* `skeleton_msqueue.c:327` loses a signal that arrives between the test of `stop_test`
  and `pause()`; a second Ctrl+C ends the program (`EventuallyExits`).
* `ds_ck_stack_upmc.h:384` returns DS_SUCCESS for a push that `can_loop` ended.
* `ds_kcov.h` calls its count-first order re-entrant, "never colliding"; that holds
  for an insert that begins after the other has written the count, not in the window
  between its read and its write.

### Bounds

`MaxInserts`, `MaxNodes` and `MaxCalls` bound the calls of a behaviour; each is
large enough for the structure to fill up and go around.  `MaxRetries` is 2
instead of 10 or 100: the loop body runs, is repeated, and gives up.
`CountModulus` stands for 2^64 and only has to exceed what verify compares with.
`MaxIterations` is 1 instead of 100000, so that a queue of two is longer than what
verify and search visit, and one of one is not.
Two nodes let one producer link its node while the other still holds a stale tail,
and let the tail lag behind the head.  In MsQueue and CkStack a pair is named after
the thread that inserts it, which is all that its pairs are told apart by.
`MaxRounds` is 2: a kernel loop is repeated once and then ends.  Three entries let a
pop hold an old head while two others come and go.  The io_uring indices wrap around
once within 5 inserts.  In the kcov run a writer can be overtaken by a complete
insert and a complete pop.  Three cells per page and objects of one or two cells let
a page run out at the second or third object.  Two tasks on one CPU and three
allocations let a refill be overtaken at each of its stores, by another refill or by
cuts from its own page, and let a free be overtaken before it gives the page back.
Only the arena run uses symmetry, in tasks and CPUs,
which are only compared for equality; it checks no liveness.

### Fairness

A call in progress goes on: no operation blocks, and the scheduler runs every
thread.  Consumers poll: the relay loop calls pop again whatever it returned.  A
producer need not call insert again.  In the Folly module the consumer may call
is_empty between two deletes for ever without fairness, so `DeleteBegin` is given
strong fairness: the relay loop calls delete in every round.  In `vyukhov_exit` the
relay thread cannot poll while main verifies, so its fairness is strong as well.
`Relay` assumes weak fairness of both threads; `EventuallyExits` assumes in addition
that the user presses Ctrl+C again as long as the program runs; without it a lost
signal leaves main asleep.  In SpscRings a store does not stay in a buffer for ever.
ArenaAlloc states no fairness: it has no promise that something happens.

## Proofs

All theorems hold for arbitrary constants: any ring size, any number of threads,
CPUs and calls, any retry bound.  Every safety property of the passing runs, every
action property and every refinement is a theorem.

| Module | Theorem | States |
|---|---|---|
| FollySpscProofs | `TypeCorrect`; `RingInvariant`, `NothingLost`, `SlotsDisjoint` | `TypeOK`; `RingInv` and its parts `Lossless`, `NoSlotRace` |
| | `RefusalsHonest`, `AnswersUsable`, `VerifySound` | `HonestRefusals`, `AnswersStayValid`, `VerifyNeverCorrupt` |
| | `Refinement` | `ImplementsFifo` |
| VyukhovProofs | `TypeCorrect`; `RingInvariant`, `CellsDisjoint` | `TypeOK`; `RingInv` and its part `NoCellRace` |
| | `RefusalsHonest`, `CorruptNeedsInsert` | `HonestRefusals`, `CorruptOnlyFromCount` |
| | `Refinement` | `ImplementsFifo` |
| MsQueueProofs | `TypeCorrect`, `ListInvHolds`, `SettledHolds` | `TypeOK`, `ListInv`, `Settled` |
| | `RefusalsHonest`, `ListImplementsFifo` | `HonestRefusals`, `ImplementsFifo` |
| SpscRingsProofs | `TypeCorrect`, `SlotsStayPrivate`, `VerdictsMeanIt` | `TypeOK`, `SlotPrivate`, `VerdictsSound` |
| | `FifoOverBuffers` | `ImplementsFifo` |
| StackProofs, kcov | `CountStaysBounded`, `StackUntilRace` | `CountBounded`, `StackUpToFirstRace` |
| StackProofs, CK stack | `StackInvHolds`; `StackEntriesAccounted` | the inductive `StackInv`; `EntriesAccounted` |
| | `StackVerifySound`, `StackImplementsLifo` | `VerifyNeverCorrupt`, `ImplementsLifo` |
| MemoryProofs, CK FIFO | `FifoInvHolds`; `FifoChain` | the inductive `FifoInv`; `ChainInv` |
| | `FifoNoEntryRace`, `FifoCorruptOnlyFromLag` | `NoEntryRace`, `CorruptOnlyFromLag` |
| | `FifoImplementsQueue` | `ImplementsFifo` |
| MemoryProofs, arena | `UserSpaceDisjoint`, `CountersRight`, `FreedUnused`, `OverlapsOnlyAsListed` | `UserObjectsDisjoint`, `CountersExact`, `FreedPagesUnused`, `OverlapsExplained` |
| RelayProofs | `TypeCorrect`, `DrainInvariant`, `DrainComplete` | `TypeOK`, `DrainInv`, `DrainedAtExit` |
| | `OrderKept`, `NothingVanishes` | `EndToEndOrder`, `VanishOnlyByReinit` |

### The arguments

* **Folly.**  `Lossless` is not inductive: a producer in the middle of a call must
  be known to hold the current `write_idx`, to have seen room that is still there,
  and to have stored its words into the slot just past the contents.  `RingInv` adds
  that, the mirror image for the consumer, and what the observer-style calls
  remember.  The proof treats the contents as a function of the indices and uses
  three lemmas: storing past the contents does not change them, moving `write_idx`
  appends, moving `read_idx` drops the head.  `AnswersUsable` follows from it: only
  the thread that was told could make the answer false.  `TypeCorrect` and
  `VerifySound` need no contract; the others assume `Contract`, one producer and one
  consumer.
* **Vyukhov.**  `RingInv` says for each position between `dequeue_pos` and
  `enqueue_pos`, and for each free one up to the end of the lap, which sequence
  numbers its cell may carry; that owners hold distinct positions; and that a thread
  about to compare-and-swap, if the counter has not moved, still sees the cell as it
  was.  That two positions less than a lap apart use different cells is `OneLap` of
  RingArith.  `RefusalsHonest` needs the converse of ownership, `TurnInv`: an
  unpublished position has a producer that is still inside insert, and a cell not yet
  released has a consumer.  For `CorruptNeedsInsert`, `CountInv` says that the
  counter is what was claimed minus what was taken, less the updates still due; that
  is a statement about the number of threads at two steps, so the thread sets are
  assumed finite.  `VerifyInv` carries it through the loads of verify.
* **Michael-Scott.**  The invariant `Inv` puts every node a thread holds at its
  position in `order`, the linking order.  Positions only grow: that of the head is
  `Popped + 1`, that of the tail is the last one or the last but one, and whatever a
  thread has loaded is at or behind them (`ChainInv`, `TailInv`, `LagInv`,
  `ProducerInv`, `ConsumerInv`).  A compare-and-swap that succeeds therefore finds the
  position unchanged, and with it what was read since, so no ABA can occur although a
  pop may read anything from a freed node.  `FreedInv` and `PrivateInv` keep freed and
  unlinked nodes out of the list.  The functions that walk the list are recursive
  functions; what they return on a list in `order` is shown by taking the least
  position at which they would go wrong.  `Settled` uses `CountInv`, as in the
  Vyukhov ring, and needs `VerifySlack >= 1`: verify counts one element too few, and
  only the slack in its comparison hides that.
* **CK FIFO.**  `ChainInv` describes the list by following `next` and says nothing of
  calls in progress, so it is not inductive.  `FifoInv` says that there is a sequence of
  distinct entries from garbage to the end, with head at a position h and
  head_snapshot at a position n <= h (`ListOf`, `MarksOf`); that the entries behind h
  hold the pairs enqueued last, and h itself one more while the consumer copies it out
  (`PairsOf`); and for each step of a call which position its locals name
  (`ProducerOf`, `ConsumerOf`, `ObserverOf`).  Linking an entry appends to the sequence,
  recycling drops its first element and moves h and n down by one, advancing head
  moves h up.  Recycling stops at n, and the consumer and the verification are at or
  behind h, which gives `NoEntryRace`.  In `ObserverOf` the verification has counted
  the distance of its cursor from h, and its copy of the tail is ahead of the cursor
  unless it had lagged when it was read: hence `CorruptOnlyFromLag`.  `ChainInv` and
  the refinement then need that the recursive function `Hop` computes the sequence,
  which is shown by taking the least position at which it would not.
* **CK stack.**  `StackInv` says that there is a sequence without repetition from head
  to the end whose members are the entries linked and not popped (`ListInv`).  What
  excludes ABA is `TakeInv` with `PushInv`: an entry is written only while its push
  holds it, so a pop that finds its old head again also finds the link it has read, and
  an entry that was popped never becomes the head again.  The counter is the length
  of the sequence, less the pushes and plus the pops that have yet to update it,
  modulo `CountModulus`; that counts threads, so their sets are assumed finite.
  For `VerifyNeverCorrupt` a sequence is not enough, because the cursors of verify may
  stand on entries that have been popped: `WalkInv` gives every entry that was ever
  linked a height, one more than that of its successor.  Heights never change, fast is
  never above slow, and so they cannot meet on an entry after fast has moved further.
  `EntriesAccounted` and the refinement follow the links from head with a recursive
  function; that it computes the sequence is shown as above.
* **CK ring and io_uring ring.**  The argument counts pairs: accepted, visible in
  memory, popped, and popped as far as memory shows it.  These four numbers are
  ordered and never further apart than the capacity (`CountInv`); the masked or
  wrapping indices in memory and in the buffers are these counts modulo the ring's
  size or the index width (`IndexInv`); the n-th pair lives in slot n - 1 modulo the
  size (`SlotInv`).  Two counts inside the window that name the same slot are equal, so
  a buffered store cannot hit a slot that is still to be read.  The index width has to
  be a multiple of the size, which `init` ensures by asking for a power of two.
* **kcov.**  `BoundInv` bounds the count and the position every call has computed from
  it, with races; `StackUntilRace` uses that up to the first race every entry
  nobody is storing holds the pair it was claimed for (`EntryInv`), that two inserts
  never store into one entry (`StoreInv`) and that what a pop has read so far is the pair
  of its entry (`ReadInv`).
* **Arena.**  `UserInv` suffices for user space: one thread is inside the lock, its
  offset is below all objects of the page and the pages of the range are used in
  order.  `CountersRight`, `FreedUnused` and one half of `OverlapsOnlyAsListed` argue
  page by page (`PageInv`): as long as a page is trusted it has one owner, and its
  counter is the number of its objects plus the calls that have counted one and not cut
  it or have taken one back and not discounted it (`PendingOn`).  A call that stores a
  counter it has read too early, or a zero over a count, ends that trust.  The window
  between the zero and bpf_arena_free_pages needs `ReleasedAlone`: a trusted page that a
  free is about to give back is still mapped, has no owner, no pending call and no second
  free.  It holds because a page that somebody can still cut from when its counter drops
  to zero is `doubled` from then on, and nobody becomes the owner of a mapped page.  The
  other half, `TornInv`, says that within a page that is not torn the CPU's offset only
  moves down.  A late offset store raises it, so `TornFresh` remembers the offset the
  page came with: cuts strictly lower it, hence finding it unchanged means that nothing
  has been cut.  `TornOnce` says that only one refill is about to store the offset of a
  page that is not torn, so a second one cannot undo this.  The assumptions say that the
  counters are wide enough for the allocations of a behaviour and that there are
  finitely many tasks.
* **Relay.**  `DrainInv`: every relayed item is in UK or consumed, only the drain
  consumes, and each of its triggers pops one, so the bound on attempts is never what
  ends it.  `OrderInv`: the items are numbered by their insert; those in KU, in the
  relay thread's hand, in UK and consumed are distinct, and with queue lanes ascending
  in that order, which a second initialisation of a lane cannot disturb.  `ReadyInv`:
  a CPU gets to its insert, and an item into KU, only after some CPU has initialised
  the lane, so an initialisation that empties a lane in use is always a second one.

The proofs use the named assumptions of the modules on their constants: bounds are
natural numbers, items are pairs of words, counters are wider than what they count, and
thread sets are finite where threads are counted (the Vyukhov ring, the Michael-Scott
queue, the CK stack, the allocators).  TLC evaluates them in every run.

Only model-checked: liveness (`EventuallyDelivered`, `EventuallyDrained`,
`EventuallyEmptied`, `EventuallyExits`), which rests on fairness and is out of the prover's reach.

## What is not modelled

Memory is sequentially consistent except in SpscRings, where stores are delayed in
order as on x86; what a CPU that reorders stores makes of the compiler barriers in
BPF code is not covered.  The Folly ring, the CK FIFO and the Vyukhov ring publish
with the same kind of store, and are checked without store buffers.

The structures are checked over an allocator that hands out fresh memory, and
ArenaAlloc shows when the real one does not; the two are not composed, because an
overlap would make every structure's property fail at once.  For the same reason
an insert of the Michael-Scott queue that holds a freed tail reads the words that
were there.  Positions and sequence numbers of 64 bits do not wrap within a
behaviour.

In Relay a call on a lane is one step, and so is the initialisation of the KU lane.  A
call that is under way inside the structure while the hook initialises it again, such as
an insert that links to the old dummy, is therefore not modelled: it takes effect before
or after.  Nor is verify of the Michael-Scott queue beside running calls.

search and iterate of the Vyukhov ring and iterate of the Michael-Scott queue only
read and are left out, as are trypush, trypop and stats of the CK stack,
NULL-argument checks, printing and start-up errors.  The metrics are samples that are
only printed: no other part reads them.  The vendored BPF headers and the API header
have no state.

## Plan

1. A composition of the relay with the Vyukhov ring at a coarser grain.
2. Store buffers, as in SpscRings, for the other structures whose BPF code publishes
   with a plain store: the Folly ring, the CK FIFO and the Vyukhov ring.
