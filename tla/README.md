# compiler-rt: a TLA+ verification project

compiler-rt holds the runtime libraries that LLVM links into programs: the
sanitizers, the XRay tracer, libFuzzer, Scudo, the profile runtime and the
arithmetic builtins. Most of it is a library used by many threads at once, in
places (allocation, thread creation, fork, signal handlers) where it cannot rely
on the ordinary synchronisation primitives and brings its own. This project
models the parts whose correctness depends on the order in which threads run.

`PROJECT.json` lists every component with its sources, the runs, the lines each
definition translates, and the hazards of the code with the property that watches
each of them.

## The system and what is modelled

| Part | Sources | Modules | Status |
|---|---|---|---|
| Mutex, Semaphore | `sanitizer_common/sanitizer_mutex.{h,cpp}` | `Mutex`, `Semaphore`, `RWLock`, `MutexProofs` | modelled, proved |
| StackStore | `sanitizer_common/sanitizer_stack_store.{h,cpp}` | `StackStore` | partly |
| StackDepot | `sanitizer_common/sanitizer_stackdepot*.{h,cpp}` | `StackDepot` | partly |
| ThreadRegistry | `sanitizer_common/sanitizer_thread_registry.{h,cpp}` | `ThreadRegistry`, `ThreadRegistryClient`, `ThreadRegistryProofs` | partly, proved |
| Threads under TSan | `tsan/rtl/tsan_rtl_thread.cpp`, `tsan_interceptors_posix.cpp` | `TsanThreads` | partly |
| XRay BufferQueue | `xray/xray_buffer_queue.{h,cpp}` | `BufferQueue` | partly |
| XRay FDR logging | `xray/xray_fdr_logging.cpp`, `xray_log_interface.cpp` | `FdrLogging` | partly |
| XRay FDR controller and log writer | `xray/xray_fdr_controller.h`, `xray_fdr_log_writer.h` | `FdrController` | modelled |
| TSan race detection | `tsan/rtl/tsan_rtl{,_access,_mutex,_report,_thread}.cpp`, `tsan_vector_clock.cpp`, `tsan_shadow.h` | `TsanRaces` | partly |
| ASan heap, Quarantine | `asan/asan_allocator.cpp`, `sanitizer_common/sanitizer_quarantine.h` | `AsanQuarantine` | partly |
| AddrHashMap, LFStack, the two deadlock detectors; GWP-ASan; Scudo; libFuzzer's merge | see `PROJECT.json` | | planned |
| Allocators, stop-the-world, LSan, HWASan's thread list, profile values, ORC, BlocksRuntime | see `PROJECT.json` | | candidates |
| Shadow propagation (MSan, DFSan), interceptors, symbolizer, flags, printing, file formats, builtins, CFI, crt | see `PROJECT.json` | | not modelled |

The last group is left out for three reasons: it is formatting and I/O, or its
state is written by compiler-generated code that is not in this repository, or it
is sequential arithmetic on 32 to 128 bits, which TLC cannot enumerate and which
the repository's exhaustive tests serve better.

How the modelled parts fit together: `Mutex` is what everything in
sanitizer_common locks with, so the other models take a critical section as one
step, and `MutexProofs` is the justification. `StackDepot` stands on `StackStore`,
of which it only needs the block mutex and the fact that a block is full.
`TsanThreads` extends `ThreadRegistry`: an interceptor's step contains the
registry's operation; `TsanRaces` is the other half of a thread under TSan, its clock
and its slot, with the registry reduced to who may join whom. `FdrLogging` extends `BufferQueue`
the same way, and `FdrController` is what a thread writes into the buffer it got. `AsanQuarantine` stands alone.

## Mutex, Semaphore and RWLock

`__sanitizer::Mutex` is one 64-bit word, `state_`, and two futex semaphores. The
six fields of the word are six variables; a step that changes several of them is
one successful compare-and-swap. A failed compare-and-swap only counts a spin
iteration. `Semaphore` has the counter and the kernel's queue of sleepers: the
kernel compares and queues in one step, and a sleeper may be woken spuriously.
Adding the tokens and waking the sleepers are two steps, as in `Post`.

A thread is at one of the locations of its call: `lock`/`rlock` (the loop),
`block`/`rblock` (about to be announced and to wait on the semaphore), `recheck`
(woken, with the spin flag handed to it), `locked`/`rlocked`, and posting. Each
counter of the word counts threads, so it stays far below the 2^20 its field
holds and no field carries into the next one.

`RWLock` says what users rely on: a thread asks and is granted; a writer excludes
everybody. `ImplementsRWLock` maps each location to the abstract mode.

- `HoldersMatchState`: the word agrees with the threads that hold the lock.
- `SpinWaitHasOneOwner`: the writers' spin flag, when set, belongs to one awake thread.
  Unlock wakes nobody while a spin flag is set, so this is what the next property
  rests on.
- `NoLostWakeup`: whenever a thread is counted as waiting, the lock is held or an
  awake thread is responsible for it.
- `WaitersAccounted`, `TokensReachWaiters`: the counters of waiting threads and
  the tokens of the semaphores agree with the threads that block, however the
  steps of unlocking threads interleave.
- `EveryRequestGranted`: with finitely many calls, each of them returns.

A comment of the header says that a non-zero count of waiting readers means a
write-locked mutex (sanitizer_mutex.h:334-335). Unlock with a spin flag set leaves it
unlocked, with the count in place. The code does not rely on the comment.

## StackStore

Writers reserve frames with one `fetch_add` on `total_frames_`, skip the rest of a
block when their trace would straddle its end, create the block's mapping if need
be, copy the trace without a lock, and add what they used to `stored_`. `Pack`
replaces a block whose frames are all stored by a compressed copy; `Load`
unpacks it for good. Mappings are numbered, and a mapping is the set of traces
copied into it. Ids are offsets plus one, converted both ways as in the code. A
compressor is known by the size it achieves, which decides whether Pack keeps the
result.

The properties say that a writer's block stays mapped under it
(`WritersKeepTheirBlock`), that traces can be read back and stay where a caller of Load
saw them (`TracesStayReadable`), that exactly one writer hears that a block is complete
(`CompletionReportedOnce`) and that both running totals are exact (`TotalsExact`).
Running out of blocks ends the program with a CHECK and is
outside the model.

## StackDepot

`Put` looks a trace up without a lock, locks the bucket, looks again if the chain
has changed, and publishes a node. A full block is announced to a compression
thread (or packed in place, according to the flag), which is started on demand, may
fail to start, and is stopped by `Stop` and around `fork()`. `LockAll` takes the
buckets one by one. After `fork()` the model continues either in the parent or in
a child that has only the forking thread.

- `UniqueIds`: a trace has one id, in every interleaving of two Puts.
- `IdsStayValid`: an id that was returned finds its trace from then on.
- `ForkIsClean`: at the fork, every lock of the depot is held by the forking thread,
  so that the child inherits none it cannot release.
- `CallsReturn`: every Put, Stop and fork returns, in parent and child alike. In
  particular LockAndStop joins the compression thread while it holds everything
  else.
- `WorkGetsDone`: a full block is packed as long as the compression thread runs.

The store of a node's link and the store of the bucket's head are two steps. The use
counts are left out; their second-level tables have a mutex which the fork locking does
not take, and nothing here is about it.

## ThreadRegistry and TsanThreads

`ThreadRegistry` has one operator per operation, each of which runs under the
registry's mutex; a CHECK that fails sets `checks` to FALSE. JoinThread is one attempt of
its loop. `ThreadRegistryClient` calls the operations in any order their contract
allows. It checks the counters and the user_id table
(`LiveMatchesContexts`), the quarantine (`Recycling`), and that a waiting join is not
handed a context that meanwhile belongs to another thread (`JoinsTheRightThread`).
Thread names, OS ids and parents are left out.

`TsanThreads` is the registry as ThreadSanitizer uses it: the interceptors of
pthread_create, join, tryjoin, timedjoin and detach, and the start and the end of
a thread. The thread library is external: it gives a pthread_t out again once the
thread was joined, or ended detached, which is before the interceptor that
called it has told the registry. The program can use a pthread_t once pthread_create has
returned it or the thread's own function runs.

- `ChecksHold`, `UserIdsCurrent`: a pthread_t in the table always names the thread
  that has it. The interceptors take the id out of the table before the library
  call, which is what makes it so.
- `ClocksFollowThreads`: the creator's clock is there when the new thread acquires
  it, and nobody frees it before; and a context that is dead or recycled holds no clock,
  also when the thread is detached between the two critical sections of ThreadFinish.
- `CallsReturn`: create and detach return, join does once the thread ends.

A pthread_join that fails (for example on the caller itself) is not modelled; nor
are fibers, Go, and the trace and slots of a thread.

## BufferQueue

A ring of buffers in which only the cursors move under `Mutex`: `getBuffer` is a test
of `Finalizing`, a critical section, the reference count, and the copy of the slot;
`releaseBuffer` a critical section, the filling of the slot, the reference count and
the extents. `init` starts a generation with a store of its own, or fails and
leaves the queue finalized and without buffers. The two control blocks (buffers and
extents) are one store here, and a Buffer is copied in one step: a torn copy would only
add to the overlap described below.

The one assumption about the caller is `Quiet`: init runs when no call is in progress.
That is what the sleep of `grace_period_ms` in fdrLoggingFlush is for. Threads still
hold buffers across init, and return them later.

- `StoresStayAllocated`: no store is freed under a thread that has a buffer in it.
- `SharedOnlyByOverlap`: without two calls at work on one slot at once, no
  buffer is given to two threads.

Both are checked with the queue in use by FdrLogging.

What fails is `BuffersExclusive`: two threads do get the same buffer. Thread 1 is assigned
slot 1 and has not copied it; thread 2 returns its buffer twice, the second time into
slot 1; both end up with thread 2's buffer.

Two more things met while modelling, which no run states. A buffer goes back into the
slot at First, not its own, and its old slot still names it: while another thread holds a
buffer, `apply` visits one buffer twice (xray_buffer_queue.cpp:208); no concurrency is
needed. And for a stale buffer, `Buf = {}` comes before `decRefCount(Buf...)`, so the
reference is never dropped and the old store stays allocated (lines 190-192).

## FdrLogging

A session of FDR mode, over the steps of BufferQueue. Every thread runs handlers
(`Handle` to `Log` or `Drop`), exits and comes back as a new thread, and any thread may
call the interface: `fdrLoggingInit`, `fdrLoggingFinalize` and `fdrLoggingFlush`, each
a sequence of steps under XRayImplMutex. The four handlers differ only in the record they
log; whether a buffer has room is a free choice, since FdrController models the records.
The constructor of the queue is its first `init`. Nothing is assumed of the grace period
when the log is written; only the queue's own init waits for `Quiet`.

- `EventsDroppedWithCause`: a handler drops its event only if the session was not
  INITIALIZED at some moment of its call, or all buffers of the ring were with other
  threads, or lost as described below. So no buffer goes astray through full buffers,
  exits or sessions that end while handlers run.
- `LogIsComplete`: if the other threads have returned their buffers and no two calls
  overlapped on a slot, the flush writes each buffer that was handed out exactly once.

The causes include one that the interface's documentation does not mention. It says of
patching before or after the initialization that "there's no strict ordering to these
operations" (include/xray/xray_log_interface.h), but a handler that runs between the
construction of the queue and pthread_key_create (xray_fdr_logging.cpp:666-700) finds no
key to register its data under. The next handler of that thread builds the data anew,
and the buffer is lost until the next session (`lost`).

Also seen, and stated by no run: when the queue cannot be initialized,
fdrLoggingInit returns UNINITIALIZED but leaves LoggingStatus at INITIALIZING
(lines 669, 675), and no later call leaves that state; a flush that fails to open its
file ends the session like one that succeeds.

Left out: the iterator behind `__xray_log_process_buffers` (whose comment speaks of a mutex
it does not take), flags, selecting a mode, and handlers nested in handlers
(RecursionGuard returns at once).

## FdrController

What one thread writes as its instrumented functions run. Memory is counted in units of
a function record; each operation is one step, from the tests of `finalized()` to the
last write, with the rest of the program acting at most once in the midst of it (it
finalizes the queue, starts a new generation, or holds all buffers). Beside the fields
the code stores, a unit carries the time and the CPU it was written for, so that what a
reader decodes can be compared with them.

- `RecordsWhole`: records are written and taken back whole and within the buffer, and the
  extents, up to which the buffer is read, end behind the last of them. There is one
  exception. writeTypedEvent adds only the payload to the extents
  (xray_fdr_log_writer.h:210), though it says it does "something similar" to
  writeCustomEvent, by which readers "will only ever see the full metadata and custom
  event payload accounted" (lines 168-172, 194-195). Every typed event therefore cuts two
  units, the size of its marker, off the end of the log, which may then end within a
  record; the property states the extents to the unit.
- `TimesDecode`: summing the differences from the last metadata record gives every
  record the time and CPU it was written with, after any taking back, any change of CPU
  and any clock that steps back or jumps further than a difference can hold. Differences
  are narrowed as in the code: to int32_t on the way into the writer, then to the
  uint32_t of a function record, while an event's marker keeps the int32_t. `MaxDelta`
  stands for the largest int32_t. Time stamps themselves stay below 2^64.
- `UndoableEntriesOnTop`: the entries counted as undoable are the last records of the
  log and the innermost calls of the thread.
- `OnlyShortCallsErased`: nothing but the entry of a call below the threshold is erased.

All four say "unless `torn`", a history variable for one case in which they fail:
functionTailExit counts a tail exit as undoable even when recordPreamble has just
written a metadata record in front of it (xray_fdr_controller.h:285), and a later
rewindRecords takes back the two units before its pointer, one of them half of that
record. The loop of rewindRecords takes anything back only in this case: without the
metadata record, the tail exit itself is compared with the threshold and never is below
it.

## TsanRaces

Threads attach to a few slots and lose them to one another; an epoch counts what the
owner of a slot has released; a vector clock has one epoch per slot. When a slot's epochs
are used up it leaves the queue, and when the queue is empty all slots, clocks and the
shadow start over in a new global epoch. An access puts an event into the thread's
trace, then compares the shadow of its cell with its clock, and stores itself; all of it
without a lock. A race is reported only if the other access is found again: the slot's journal
says which thread had the slot in that epoch, and its trace is searched for the event.

What runs under a slot's mutex is one step. An access is two (the snapshot and the trace
event; the comparison and the store), FindSlotAndLock is one step under slot_mtx and
one under the slot's mutex, and a report one that restores and one that prints. The
reset may or may not win against a thread that stores its trace position (`late`), as
the comment in DoResetImpl says. The vectorised and the scalar CheckRaces differ in which
of several cells they store to; the model has the vectorised order.

AcquireGlobal, which Java and Go finalizers begin with, takes over the epoch of every slot;
the model reads them in one step, the code one after the other.

`ideal` and `idealSync` are the reference: vector clocks over threads that are never reset.
For AcquireGlobal it has what tsan_rtl.h (lines 589-594) promises, an edge from what every
thread has done so far. `edges` remembers the epochs that AcquireGlobal has taken over.

- `NoFalseReports`: what is reported is a race by the reference: two conflicting accesses
  of different threads, unordered. Values of before a reset do get into the shadow, and
  appear to race; none survives the search in journal and trace.
- `ClocksBehindSlots`: no clock is ahead of a slot, and the epoch the owner of a slot is in
  is known to nobody else: a race with what it does now can be seen. Two epochs are
  excepted, a slot's last and one in which AcquireGlobal ran. AcquireGlobal does not make
  the owners start a new epoch, so that what they do until their next release counts
  as known too, and a race with it goes unseen: more than the edge "where they happen to
  execute right now" of the comment in tsan_rtl.h.
- `ReplayedTracesIntact`: a journal never leads to a trace whose position a reset has
  moved beyond what was written.

`SpuriousOnlyAfterReset` fails. Attaching records no time event. A thread that was
preempted and attaches anew in an operation that only acquires goes on tracing under
the time of its old slot; RestoreStack looks for the new one and a real race is dropped.

Left out: accesses that share a cell in part, ranges and free memory, ignored accesses,
several parts of a trace and their recycling, fork.

## AsanQuarantine

A chunk is free in the allocator, allocated, or quarantined. Deallocate claims it with
one compare-and-swap, and Put appends it to the batch list of the thread's cache, or of the
shared fallback cache under `fallback_mutex` if the thread has no AsanThread. A cache
above its limit is moved to the global one, and a thread that finds that one above
its limit, and gets `recycle_mutex_` at once, takes the oldest batches out and recycles
them without a lock. CommitBack drains at the end of a thread; Purge empties everything
but other threads' caches, waiting for the mutex. ReInitialize is the one call by
AsanActivate that turns a disabled quarantine on, whatever the threads are doing, and
resets the mutex; a thread that held it then releases whatever lock has been taken since, for
StaticSpinMutex has no owner.

- `QuarantinedOnce`: a quarantined chunk is in one place, and what is in a place is
  quarantined.
- `SizesExact`: the accounted sizes are those of the batches, also after merging.
- `OverLimitOnlyWhenSkipped`: the limit is exceeded only while somebody is on the way to
  recycle, or since a Drain found the mutex taken and left. In that case nobody is
  responsible until the next Drain.
- `OldestFirst`: chunks of one cache are selected for recycling in the order they were
  freed, and one Recycle returns what it selected in that order. It unlocks before it
  returns them, so the chunks of two calls may reach the allocator in any order.
- `PurgeIsComplete`: what was in the caller's, the fallback and the global cache has left
  them when Purge returns. It may still be in the hands of a thread that is recycling.

The stores of Quarantine::Init are one step, and it never meets a held `cache_mutex_`.

## Runs and bounds

| Run | Bounds | Why they are enough |
|---|---|---|
| `mutex_safety` | 4 threads, 1 spin iteration, unlimited calls | two blocked writers, a spinner and an unlocker; or readers and writers on both queues |
| `mutex_liveness` | 3 threads, 1 call each | an unlock that skips the wake-up, with a blocked thread and a spinner |
| `stack_store` | 3 writers, 2 blocks of 4 frames, traces of 2 and 3 frames | every way to hit and to straddle a block's end; packing with and without gain |
| `stack_depot` | 2 threads, 3 traces in 2 buckets, 1 fork, all flag values | a collision, a concurrent duplicate, a fork in the midst of Put, Stop and packing, then parent or child going on |
| `thread_registry` | 4 contexts, quarantine of 1, 2 reuses, 5 creations, 2 user ids | recycling happens twice, and a user id is used again |
| `tsan_threads` | 3 actors, 2 pthread_t, 3 creations | each pthread_t is given out again; joiner, detacher and target differ |
| `fdr_logging` | 2 threads, rings of 1 and 2, 2 generations | a full ring, both overlaps, buffers that come back in another order or a session late, a handler in every place of each interface call |
| `buffer_queue_exclusive` | 2 threads, 1 generation | counterexample |
| `fdr_controller` | 5 calls, depth 2, 2 CPUs, a buffer of 16 units, 2 generations; threshold 2, differences to 4, the clock advances by 1 or 5 or returns to 1 | a buffer fills up, short and long calls nest, the CPU changes within a call, a difference is too large |
| `tsan_races` | 2 threads, 2 slots of 3 epochs, 2 shadow values, 5 operations, 1 flush | a slot is exhausted and changes hands, both kinds of reset meet an access in progress |
| `tsan_races_spurious` | 3 threads on the same 2 slots, no flush | counterexample: the third thread preempts |
| `asan_quarantine` | 3 threads, one without a cache, 3 chunks, batches of 2; disabled or with limits | merging and not merging, a Drain that skips, Purge against Drain, activation in between |

Deadlock is checked except where the model's calls are bounded, or its program
ends, and everything may come to a stop.

**Fairness.** Weak fairness of each thread's steps inside a call, and of the
compression thread: a runnable thread is eventually scheduled. Nothing is assumed
of the calls themselves (a program may stop calling), of interrupted system calls,
or of which contender wins. The mutex lets newcomers overtake, so a thread can
starve while others keep coming; the liveness run therefore bounds the calls. The
bounded spin locks of StackDepot are taken finitely often for the same reason.

## Proofs

The theorems hold for every value of the constants that the named assumptions allow: any
finite number of threads, contexts or user ids, any size of the quarantine and any bound on
the calls. TLC evaluates the assumptions in the runs. `PROJECT.json` lists the theorems with
the property each of them states.

| Module | Theorem | Property | Assumptions |
|---|---|---|---|
| `MutexProofs` | `TypeCorrect`, `Exclusion`, `SpinWaitOwner`, `Wakeups` | `TypeOK`, `HoldersMatchState`, `SpinWaitHasOneOwner`, `NoLostWakeup` | `ThreadsAssumption`, `SpinAssumption` |
| | `WaitersCounted`, `NoSleepOverTokens` | `WaitersAccounted`, `TokensReachWaiters` | |
| | `Refinement` | `ImplementsRWLock` | |
| `ThreadRegistryProofs` | `ChecksNeverFail`, `LiveInverse`, `ContextsRecycled`, `JoinsRight` | `ChecksHold`, `LiveMatchesContexts`, `Recycling`, `JoinsTheRightThread` | `RegistryAssumption` |

Both modules first prove an `Invariance` theorem, `[]IInv` for the inductive invariant, with
a lemma per action, and the listed theorems follow. `CountingLemmas` has what both need:
how the number of elements with a property changes when one element does, and sums as the
size of a set of pairs (`Units`).

**Mutex.** `IInv` is the conjunction of the first four properties: none is inductive
alone. That a writer in its loop may assert its spin flag needs the counting of flag
owners; that no wake-up is lost needs both the ownership of the flag and the agreement
of word and holders. All of them compare a counter with the number of threads at some
locations, and every step moves one thread: `CardinalityStep` counts, `MoveEffect` says what
a move does to all the counts, `QuietPreserves` covers the steps that leave the word
alone, and `StepPreserves` the others, by action. The semaphores have two invariants of
their own, `WriterTokens` and `ReaderTokens`: those who are blocked are as many as the word
counts, plus the tokens that are posted or about to be. A reader's Post adds several tokens,
hence the sums. The refinement needs only `FreeMeansUnheld` besides: a word without holders
means that no thread is in a holding mode.

**ThreadRegistry.** `RInv` is about the registry between operations: the quarantine and the
list of reusable contexts have each tid of the right status once, `live_` is the inverse of
the user ids, the counters count, and no CHECK has failed, including the one in QuarantinePush
on the context that leaves the quarantine. `CInv` is what the client keeps to. Each operation
has a lemma that it keeps `RInv` and leaves the threads of other calls alone.

**Model-checked only.** Liveness (`EveryRequestGranted`, `CallsReturn`, `WorkGetsDone`) is out
of the prover's reach, and so are the folds with operator arguments of `AsanQuarantine` and the
recursive decoding of `FdrController`. `TsanThreads` uses the registry's operations, which the
lemmas on `RInv` cover, but its protocol with the thread library is not proved. Nothing is
proved so far about `StackStore`, `StackDepot`, `BufferQueue`, `FdrLogging` and `TsanRaces`.

## Plan

1. Extend the model, in this order: `AddrHashMap`, `GuardedPool` (GWP-ASan), `LFStack`
   with its counter's width, Scudo's `HybridMutex` and TSD registries, the
   crash-resistant merge of libFuzzer (with worker crashes between and inside
   lines), and `DeadlockDetector`.
2. Abstract specifications: a set of ids for StackDepot, a map for AddrHashMap, a stack
   for LFStack, each refined by the detailed module.
3. Proofs: StoresStayAllocated of FdrLogging; UserIdsCurrent of TsanThreads; QuarantinedOnce
   and SizesExact of AsanQuarantine, with its folds rewritten as recursive functions;
   ClocksBehindSlots of TsanRaces; UniqueIds of StackDepot; TotalsExact and
   WritersKeepTheirBlock of StackStore.
