-------------------------------- MODULE Mutex --------------------------------
(***************************************************************************)
(* __sanitizer::Mutex, the reader-writer mutex of sanitizer_common: one    *)
(* 64-bit word state_ changed by compare-and-swap, and two semaphores on   *)
(* which threads that have spun for too long block.                        *)
(*                                                                         *)
(* The six fields of state_ are six variables, together word; a step that  *)
(* changes several of them is one compare-and-swap.  Each counter counts   *)
(* threads (HoldersMatchState, WaitersAccounted), of which there are fewer *)
(* than 2^20, so a field never carries into the next.                      *)
(*                                                                         *)
(* Every loop computes new_state from a snapshot and publishes it with a   *)
(* compare-and-swap.  A swap that succeeds has found its snapshot in       *)
(* state_, so the iteration is one atomic step on the current state_; one  *)
(* that fails (or fails spuriously) only counts a spin iteration.          *)
(***************************************************************************)
EXTENDS Integers, FiniteSets

CONSTANTS Threads,        \* the threads that use the mutex
          kMaxSpinIters   \* iterations of active spinning before blocking

ASSUME ThreadsAssumption == IsFiniteSet(Threads)
ASSUME SpinAssumption == kMaxSpinIters \in Nat \ {0}

VARIABLES
  readers,                \* kReaderLockMask: readers holding the lock
  waitingReaders,         \* kWaitingReaderMask: readers blocked on readers_
  waitingWriters,         \* kWaitingWriterMask: writers blocked on writers_
  writerLock,             \* kWriterLock
  writerSpinWait,         \* kWriterSpinWait: a writer is awake and spinning
  readerSpinWait,         \* kReaderSpinWait: a reader is awake and spinning
  wsem, wsleep,           \* the semaphore writers_
  rsem, rsleep,           \* the semaphore readers_
  pc,                     \* where each thread is
  spin_iters,             \* its local spin_iters
  masked,                 \* whether its reset_mask clears the spin flag
  wake                    \* the count it is about to Post to readers_

word == <<readers, waitingReaders, waitingWriters,
          writerLock, writerSpinWait, readerSpinWait>>
sems == <<wsem, wsleep, rsem, rsleep>>
locals == <<spin_iters, masked, wake>>
vars == <<word, sems, pc, locals>>

writers_ == INSTANCE Semaphore WITH sem <- wsem, sleepers <- wsleep
readers_ == INSTANCE Semaphore WITH sem <- rsem, sleepers <- rsleep

(* lock, block, recheck: the loop of Lock, the call of writers_.Wait in    *)
(* it, the reload of state_ after it.  post, notify: the two halves of the *)
(* writers_.Post that ends an unlock.  The r-locations are the same for    *)
(* ReadLock and for readers_.Post.                                         *)
PCs == {"idle", "lock", "block", "recheck", "locked", "post", "notify",
        "rlock", "rblock", "rrecheck", "rlocked", "rpost", "rnotify"}

TypeOK ==
  /\ readers \in Nat /\ waitingReaders \in Nat /\ waitingWriters \in Nat
  /\ writerLock \in BOOLEAN
  /\ writerSpinWait \in BOOLEAN /\ readerSpinWait \in BOOLEAN
  /\ writers_!TypeOK
  /\ readers_!TypeOK
  /\ pc \in [Threads -> PCs]
  /\ spin_iters \in [Threads -> 0 .. kMaxSpinIters + 1]
  /\ masked \in [Threads -> BOOLEAN]
  /\ wake \in [Threads -> Nat]

Init ==
  /\ readers = 0 /\ waitingReaders = 0 /\ waitingWriters = 0
  /\ writerLock = FALSE /\ writerSpinWait = FALSE /\ readerSpinWait = FALSE
  /\ writers_!Init
  /\ readers_!Init
  /\ pc = [t \in Threads |-> "idle"]
  /\ spin_iters = [t \in Threads |-> 0]
  /\ masked = [t \in Threads |-> FALSE]
  /\ wake = [t \in Threads |-> 0]

Goto(t, from, to) ==
  /\ pc[t] = from
  /\ pc' = [pc EXCEPT ![t] = to]

SpunEnough(t) == spin_iters[t] > kMaxSpinIters

(* Beyond kMaxSpinIters + 1 the value of spin_iters makes no difference.   *)
CountSpin(t) ==
  spin_iters' = [spin_iters EXCEPT ![t] = IF SpunEnough(t) THEN @ ELSE @ + 1]

(* Mutated: readers do not keep a writer out. *)
LockedIgnoringReaders == writerLock

Locked == writerLock \/ readers > 0

WriterFlag(t) == IF masked[t] THEN FALSE ELSE writerSpinWait

ReaderFlag(t) == IF masked[t] THEN FALSE ELSE readerSpinWait

-----------------------------------------------------------------------------
(* Lock *)

LockCall(t) ==
  /\ Goto(t, "idle", "lock")
  /\ spin_iters' = [spin_iters EXCEPT ![t] = 0]
  /\ masked' = [masked EXCEPT ![t] = FALSE]
  /\ UNCHANGED <<word, sems, wake>>

LockAcquire(t) ==
  /\ Goto(t, "lock", "locked")
  /\ ~Locked
  /\ writerLock' = TRUE
  /\ writerSpinWait' = WriterFlag(t)
  /\ UNCHANGED <<readers, waitingReaders, waitingWriters, readerSpinWait,
                 sems, locals>>

(* Mutated: a writer that blocks leaves its kWriterSpinWait behind. *)
LockBlockKeepsFlag(t) ==
  /\ Goto(t, "lock", "block")
  /\ Locked
  /\ SpunEnough(t)
  /\ waitingWriters' = waitingWriters + 1
  /\ UNCHANGED <<readers, waitingReaders, writerLock, writerSpinWait,
                 readerSpinWait, sems, locals>>

LockBlock(t) ==
  /\ Goto(t, "lock", "block")
  /\ Locked
  /\ SpunEnough(t)
  /\ waitingWriters' = waitingWriters + 1
  /\ writerSpinWait' = WriterFlag(t)
  /\ UNCHANGED <<readers, waitingReaders, writerLock, readerSpinWait, sems,
                 locals>>

LockAnnounce(t) ==
  /\ Goto(t, "lock", "recheck")
  /\ Locked
  /\ ~SpunEnough(t)
  /\ ~writerSpinWait
  /\ writerSpinWait' = TRUE
  /\ masked' = [masked EXCEPT ![t] = TRUE]
  /\ UNCHANGED <<readers, waitingReaders, waitingWriters, writerLock,
                 readerSpinWait, sems, spin_iters, wake>>

(* Active spinning, or a compare-and-swap that failed.                     *)
LockSpin(t) ==
  /\ pc[t] = "lock"
  /\ ~SpunEnough(t)
  /\ CountSpin(t)
  /\ UNCHANGED <<word, sems, pc, masked, wake>>

LockSleep(t) ==
  /\ pc[t] = "block"
  /\ writers_!WaitSleep(t)
  /\ UNCHANGED <<word, rsem, rsleep, pc, locals>>

LockInterrupted(t) ==
  /\ writers_!WaitInterrupted(t)
  /\ UNCHANGED <<word, rsem, rsleep, pc, locals>>

LockUnblock(t) ==
  /\ Goto(t, "block", "recheck")
  /\ writers_!WaitTake(t)
  /\ spin_iters' = [spin_iters EXCEPT ![t] = 0]
  /\ masked' = [masked EXCEPT ![t] = TRUE]
  /\ UNCHANGED <<word, rsem, rsleep, wake>>

(* The reload of state_, where the code asserts kWriterSpinWait, and the   *)
(* increment of the for loop.                                              *)
LockRecheck(t) ==
  /\ Goto(t, "recheck", "lock")
  /\ CountSpin(t)
  /\ UNCHANGED <<word, sems, masked, wake>>

(* Mutated: TryLock looks at the writer bit only. *)
TryLockIgnoringReaders(t) ==
  /\ Goto(t, "idle", "locked")
  /\ ~writerLock
  /\ writerLock' = TRUE
  /\ UNCHANGED <<readers, waitingReaders, waitingWriters, writerSpinWait,
                 readerSpinWait, sems, locals>>

(* A TryLock that fails changes nothing.                                   *)
TryLock(t) ==
  /\ Goto(t, "idle", "locked")
  /\ ~Locked
  /\ writerLock' = TRUE
  /\ UNCHANGED <<readers, waitingReaders, waitingWriters, writerSpinWait,
                 readerSpinWait, sems, locals>>

-----------------------------------------------------------------------------
(* Unlock *)

WakeWriter ==
  /\ ~writerSpinWait
  /\ ~readerSpinWait
  /\ waitingWriters > 0

UnlockWakeWriter(t) ==
  /\ Goto(t, "locked", "post")
  /\ WakeWriter
  /\ writerLock' = FALSE
  /\ waitingWriters' = waitingWriters - 1
  /\ writerSpinWait' = TRUE
  /\ UNCHANGED <<readers, waitingReaders, readerSpinWait, sems, locals>>

(* Mutated: the woken readers stay counted as waiting. *)
UnlockWakeReadersKeepsCount(t) ==
  /\ Goto(t, "locked", "rpost")
  /\ ~WakeWriter
  /\ ~writerSpinWait
  /\ waitingReaders > 0
  /\ wake' = [wake EXCEPT ![t] = waitingReaders]
  /\ writerLock' = FALSE
  /\ readerSpinWait' = TRUE
  /\ UNCHANGED <<readers, waitingReaders, waitingWriters, writerSpinWait,
                 sems, spin_iters, masked>>

UnlockWakeReaders(t) ==
  /\ Goto(t, "locked", "rpost")
  /\ ~WakeWriter
  /\ ~writerSpinWait
  /\ waitingReaders > 0
  /\ wake' = [wake EXCEPT ![t] = waitingReaders]
  /\ writerLock' = FALSE
  /\ waitingReaders' = 0
  /\ readerSpinWait' = TRUE
  /\ UNCHANGED <<readers, waitingWriters, writerSpinWait, sems, spin_iters,
                 masked>>

UnlockQuiet(t) ==
  /\ Goto(t, "locked", "idle")
  /\ ~WakeWriter
  /\ writerSpinWait \/ waitingReaders = 0
  /\ writerLock' = FALSE
  /\ UNCHANGED <<readers, waitingReaders, waitingWriters, writerSpinWait,
                 readerSpinWait, sems, locals>>

PostAdd(t) ==
  /\ Goto(t, "post", "notify")
  /\ writers_!PostAdd(1)
  /\ UNCHANGED <<word, rsem, rsleep, locals>>

PostWake(t) ==
  /\ Goto(t, "notify", "idle")
  /\ writers_!PostWake(1)
  /\ UNCHANGED <<word, rsem, rsleep, locals>>

ReadersPostAdd(t) ==
  /\ Goto(t, "rpost", "rnotify")
  /\ readers_!PostAdd(wake[t])
  /\ UNCHANGED <<word, wsem, wsleep, locals>>

ReadersPostWake(t) ==
  /\ Goto(t, "rnotify", "idle")
  /\ readers_!PostWake(wake[t])
  /\ wake' = [wake EXCEPT ![t] = 0]
  /\ UNCHANGED <<word, wsem, wsleep, spin_iters, masked>>

-----------------------------------------------------------------------------
(* ReadLock *)

ReadLockCall(t) ==
  /\ Goto(t, "idle", "rlock")
  /\ spin_iters' = [spin_iters EXCEPT ![t] = 0]
  /\ masked' = [masked EXCEPT ![t] = FALSE]
  /\ UNCHANGED <<word, sems, wake>>

ReadLockAcquire(t) ==
  /\ Goto(t, "rlock", "rlocked")
  /\ ~writerLock
  /\ readers' = readers + 1
  /\ readerSpinWait' = ReaderFlag(t)
  /\ UNCHANGED <<waitingReaders, waitingWriters, writerLock, writerSpinWait,
                 sems, locals>>

ReadLockBlock(t) ==
  /\ Goto(t, "rlock", "rblock")
  /\ writerLock
  /\ SpunEnough(t)
  /\ waitingReaders' = waitingReaders + 1
  /\ readerSpinWait' = ReaderFlag(t)
  /\ UNCHANGED <<readers, waitingWriters, writerLock, writerSpinWait, sems,
                 locals>>

ReadLockAnnounce(t) ==
  /\ Goto(t, "rlock", "rrecheck")
  /\ writerLock
  /\ ~SpunEnough(t)
  /\ ~readerSpinWait
  /\ readerSpinWait' = TRUE
  /\ masked' = [masked EXCEPT ![t] = TRUE]
  /\ UNCHANGED <<readers, waitingReaders, waitingWriters, writerLock,
                 writerSpinWait, sems, spin_iters, wake>>

ReadLockSpin(t) ==
  /\ pc[t] = "rlock"
  /\ ~SpunEnough(t)
  /\ CountSpin(t)
  /\ UNCHANGED <<word, sems, pc, masked, wake>>

ReadLockSleep(t) ==
  /\ pc[t] = "rblock"
  /\ readers_!WaitSleep(t)
  /\ UNCHANGED <<word, wsem, wsleep, pc, locals>>

ReadLockInterrupted(t) ==
  /\ readers_!WaitInterrupted(t)
  /\ UNCHANGED <<word, wsem, wsleep, pc, locals>>

ReadLockUnblock(t) ==
  /\ Goto(t, "rblock", "rrecheck")
  /\ readers_!WaitTake(t)
  /\ spin_iters' = [spin_iters EXCEPT ![t] = 0]
  /\ masked' = [masked EXCEPT ![t] = TRUE]
  /\ UNCHANGED <<word, wsem, wsleep, wake>>

ReadLockRecheck(t) ==
  /\ Goto(t, "rrecheck", "rlock")
  /\ CountSpin(t)
  /\ UNCHANGED <<word, sems, masked, wake>>

-----------------------------------------------------------------------------
(* ReadUnlock: the wake test reads new_state, with this reader gone.       *)

(* Mutated: the wake test reads the state before the decrement. *)
LastReaderWakesLate == readers = 0 /\ WakeWriter

LastReaderWakes == readers = 1 /\ WakeWriter

ReadUnlockWake(t) ==
  /\ Goto(t, "rlocked", "post")
  /\ LastReaderWakes
  /\ readers' = readers - 1
  /\ waitingWriters' = waitingWriters - 1
  /\ writerSpinWait' = TRUE
  /\ UNCHANGED <<waitingReaders, writerLock, readerSpinWait, sems, locals>>

ReadUnlockQuiet(t) ==
  /\ Goto(t, "rlocked", "idle")
  /\ ~LastReaderWakes
  /\ readers' = readers - 1
  /\ UNCHANGED <<waitingReaders, waitingWriters, writerLock, writerSpinWait,
                 readerSpinWait, sems, locals>>

-----------------------------------------------------------------------------
(* What a thread starts of its own will, what it then goes through, and    *)
(* what the kernel may do to it.                                           *)
Call(t) == LockCall(t) \/ TryLock(t) \/ ReadLockCall(t)

Progress(t) ==
  \/ LockAcquire(t) \/ LockBlock(t) \/ LockAnnounce(t) \/ LockSpin(t)
  \/ LockSleep(t) \/ LockUnblock(t) \/ LockRecheck(t)
  \/ UnlockWakeWriter(t) \/ UnlockWakeReaders(t) \/ UnlockQuiet(t)
  \/ PostAdd(t) \/ PostWake(t) \/ ReadersPostAdd(t) \/ ReadersPostWake(t)
  \/ ReadLockAcquire(t) \/ ReadLockBlock(t) \/ ReadLockAnnounce(t)
  \/ ReadLockSpin(t) \/ ReadLockSleep(t) \/ ReadLockUnblock(t)
  \/ ReadLockRecheck(t)
  \/ ReadUnlockWake(t) \/ ReadUnlockQuiet(t)

Interrupted(t) == LockInterrupted(t) \/ ReadLockInterrupted(t)

Next == \E t \in Threads : Call(t) \/ Progress(t) \/ Interrupted(t)

Spec == Init /\ [][Next]_vars

-----------------------------------------------------------------------------
(* Properties *)

At(locs) == {t \in Threads : pc[t] \in locs}

(* Writers (readers) that are awake in their loop and will reset the spin  *)
(* flag on their next transition.                                          *)
AwakeWriters == {t \in At({"lock", "recheck"}) : masked[t]}
AwakeReaders == {t \in At({"rlock", "rrecheck"}) : masked[t]}

(* The tokens of the readers_.Post calls of the threads at locs, each with *)
(* its thread: the cardinality is the sum of the counts.                   *)
Tokens(locs) == UNION {{t} \X (1 .. wake[t]) : t \in At(locs)}

(* Tokens on their way to blocked readers, over all the unlocking threads. *)
PendingReaders == Cardinality(Tokens({"rpost"}))

(* The word tells the truth about the holders: the reader count is the     *)
(* number of threads between ReadLock and ReadUnlock, the writer bit is    *)
(* set exactly while a thread is between Lock (or TryLock) and Unlock, and *)
(* there is one such thread and no reader.  It is what the assertions at   *)
(* the top of Unlock and ReadUnlock rely on.                               *)
HoldersMatchState ==
  /\ readers = Cardinality(At({"rlocked"}))
  /\ Cardinality(At({"locked"})) = IF writerLock THEN 1 ELSE 0
  /\ writerLock => readers = 0

(* kWriterSpinWait has exactly one owner while it is set: a writer that    *)
(* will clear it, or one wake-up on its way to a blocked writer.  Lock     *)
(* asserts the flag each time it reloads state_ (DCHECK_NE), which would   *)
(* fail if a second writer could clear it in between.                      *)
SpinWaitHasOneOwner ==
  Cardinality(AwakeWriters) + Cardinality(At({"post"})) + wsem
    = IF writerSpinWait THEN 1 ELSE 0

(* "The counter will be decremented by whoever wakes us": every blocked    *)
(* thread is counted once, in state_ or as a token somebody is about to    *)
(* post or has posted.  So no token is ever left over for a later Wait.    *)
WaitersAccounted ==
  /\ Cardinality(At({"block"})) =
       waitingWriters + Cardinality(At({"post"})) + wsem
  /\ Cardinality(At({"rblock"})) =
       waitingReaders + PendingReaders + rsem

(* A thread that blocked on a counter is always somebody's responsibility: *)
(* blocked writers have a holder that will unlock or an awake thread that  *)
(* will lock and unlock, and blocked readers a writer that will.           *)
NoLostWakeup ==
  /\ waitingWriters > 0 =>
       Locked \/ writerSpinWait \/ readerSpinWait
  /\ waitingReaders > 0 =>
       \/ writerLock
       \/ writerSpinWait
       \/ waitingWriters > 0

(* The futex protocol of Semaphore: Wait may go to sleep only when it read *)
(* a zero counter, so tokens that sleepers could take are never more than  *)
(* the waiters that are awake plus the wake-ups still to be issued.        *)
TokensReachWaiters ==
  /\ wsleep # {} =>
       wsem <= Cardinality(At({"block"}) \ wsleep)
                 + Cardinality(At({"notify"}))
  /\ rsleep # {} =>
       rsem <= Cardinality(At({"rblock"}) \ rsleep)
                 + Cardinality(Tokens({"rnotify"}))

(* The mutex implements a reader-writer lock: a thread is granted the lock *)
(* only while nobody holds it in a conflicting mode.                       *)
ModeOf(loc) ==
  CASE loc \in {"lock", "block", "recheck"} -> "wantWrite"
    [] loc \in {"rlock", "rblock", "rrecheck"} -> "wantRead"
    [] loc = "locked" -> "write"
    [] loc = "rlocked" -> "read"
    [] OTHER -> "out"

Abstract == INSTANCE RWLock WITH mode <- [t \in Threads |-> ModeOf(pc[t])]

ImplementsRWLock == Abstract!Spec
=============================================================================
