----------------------------- MODULE MutexProofs -----------------------------
(***************************************************************************)
(* Proofs about Mutex, for any finite set of threads and any spin limit.   *)
(***************************************************************************)
EXTENDS Mutex, CountingLemmas

(* The invariant that is inductive: the safety properties support each     *)
(* other, and need nothing beside the types.                               *)
IInv ==
  /\ TypeOK
  /\ HoldersMatchState
  /\ SpinWaitHasOneOwner
  /\ NoLostWakeup

(* Thread t goes to location q and its reset_mask becomes m. *)
Moves(t, q, m) ==
  /\ pc' = [pc EXCEPT ![t] = q]
  /\ masked' = [masked EXCEPT ![t] = m]

Bit(b) == IF b THEN 1 ELSE 0

WriterAwakeAt(q, m) == q \in {"lock", "recheck"} /\ m

ReadHolders == At({"rlocked"})
WriteHolders == At({"locked"})
Posters == At({"post"})

NReaders == Cardinality(ReadHolders)
NWriters == Cardinality(WriteHolders)
NPosts == Cardinality(Posters)
NAwake == Cardinality(AwakeWriters)

Counts == NReaders \in Nat /\ NWriters \in Nat /\ NPosts \in Nat /\ NAwake \in Nat

(* What a move of t does to the four numbers the invariant counts. *)
Effect(t, q, m) ==
  /\ Counts /\ Counts'
  /\ NReaders' = NReaders + Bit(q = "rlocked") - Bit(pc[t] = "rlocked")
  /\ NWriters' = NWriters + Bit(q = "locked") - Bit(pc[t] = "locked")
  /\ NPosts' = NPosts + Bit(q = "post") - Bit(pc[t] = "post")
  /\ NAwake' = NAwake + Bit(WriterAwakeAt(q, m))
                      - Bit(WriterAwakeAt(pc[t], masked[t]))

(* Every move has that effect. *)
LEMMA MoveEffect ==
  ASSUME TypeOK, NEW t \in Threads, NEW q \in PCs, NEW m \in BOOLEAN,
         Moves(t, q, m)
  PROVE  Effect(t, q, m)
<1>1. /\ IsFiniteSet(ReadHolders) /\ IsFiniteSet(WriteHolders)
      /\ IsFiniteSet(Posters) /\ IsFiniteSet(AwakeWriters)
  BY ThreadsAssumption, FS_Subset, Zenon
     DEF ReadHolders, WriteHolders, Posters, AwakeWriters, At
<1>2. /\ NReaders \in Nat /\ NReaders' \in Nat
      /\ NReaders' = NReaders + Bit(q = "rlocked") - Bit(pc[t] = "rlocked")
  <2>1. ReadHolders' \ {t} = ReadHolders \ {t}
    BY Zenon DEF TypeOK, Moves, ReadHolders, At
  <2>2. /\ (t \in ReadHolders <=> pc[t] = "rlocked")
        /\ (t \in ReadHolders' <=> q = "rlocked")
    BY Zenon DEF TypeOK, Moves, ReadHolders, At, WriterAwakeAt
  <2>3. /\ NReaders \in Nat /\ NReaders' \in Nat
        /\ NReaders' = NReaders + (IF t \in ReadHolders' THEN 1 ELSE 0)
                - (IF t \in ReadHolders THEN 1 ELSE 0)
    BY <1>1, <2>1, CardinalityStep, Zenon DEF NReaders
  <2> QED BY <2>2, <2>3, Zenon DEF Bit
<1>3. /\ NWriters \in Nat /\ NWriters' \in Nat
      /\ NWriters' = NWriters + Bit(q = "locked") - Bit(pc[t] = "locked")
  <2>1. WriteHolders' \ {t} = WriteHolders \ {t}
    BY Zenon DEF TypeOK, Moves, WriteHolders, At
  <2>2. /\ (t \in WriteHolders <=> pc[t] = "locked")
        /\ (t \in WriteHolders' <=> q = "locked")
    BY Zenon DEF TypeOK, Moves, WriteHolders, At, WriterAwakeAt
  <2>3. /\ NWriters \in Nat /\ NWriters' \in Nat
        /\ NWriters' = NWriters + (IF t \in WriteHolders' THEN 1 ELSE 0)
                - (IF t \in WriteHolders THEN 1 ELSE 0)
    BY <1>1, <2>1, CardinalityStep, Zenon DEF NWriters
  <2> QED BY <2>2, <2>3, Zenon DEF Bit
<1>4. /\ NPosts \in Nat /\ NPosts' \in Nat
      /\ NPosts' = NPosts + Bit(q = "post") - Bit(pc[t] = "post")
  <2>1. Posters' \ {t} = Posters \ {t}
    BY Zenon DEF TypeOK, Moves, Posters, At
  <2>2. /\ (t \in Posters <=> pc[t] = "post")
        /\ (t \in Posters' <=> q = "post")
    BY Zenon DEF TypeOK, Moves, Posters, At, WriterAwakeAt
  <2>3. /\ NPosts \in Nat /\ NPosts' \in Nat
        /\ NPosts' = NPosts + (IF t \in Posters' THEN 1 ELSE 0)
                - (IF t \in Posters THEN 1 ELSE 0)
    BY <1>1, <2>1, CardinalityStep, Zenon DEF NPosts
  <2> QED BY <2>2, <2>3, Zenon DEF Bit
<1>5. /\ NAwake \in Nat /\ NAwake' \in Nat
      /\ NAwake' = NAwake + Bit(WriterAwakeAt(q, m))
             - Bit(WriterAwakeAt(pc[t], masked[t]))
  <2>1. AwakeWriters' \ {t} = AwakeWriters \ {t}
    BY Zenon DEF TypeOK, Moves, AwakeWriters, At
  <2>2. /\ (t \in AwakeWriters <=> WriterAwakeAt(pc[t], masked[t]))
        /\ (t \in AwakeWriters' <=> WriterAwakeAt(q, m))
    BY Zenon DEF TypeOK, Moves, AwakeWriters, At, WriterAwakeAt
  <2>3. /\ NAwake \in Nat /\ NAwake' \in Nat
        /\ NAwake' = NAwake + (IF t \in AwakeWriters' THEN 1 ELSE 0)
                - (IF t \in AwakeWriters THEN 1 ELSE 0)
    BY <1>1, <2>1, CardinalityStep, Zenon DEF NAwake
  <2> QED BY <2>2, <2>3, Zenon DEF Bit
<1> QED BY <1>2, <1>3, <1>4, <1>5, Zenon DEF Counts, Effect

CountersOK == readers \in Nat /\ waitingReaders \in Nat /\ waitingWriters \in Nat

FlagsOK ==
  writerLock \in BOOLEAN /\ writerSpinWait \in BOOLEAN /\ readerSpinWait \in BOOLEAN

Counting ==
  /\ readers = NReaders
  /\ NWriters = IF writerLock THEN 1 ELSE 0
  /\ writerLock => readers = 0
  /\ NAwake + NPosts + wsem = IF writerSpinWait THEN 1 ELSE 0

(* The two counting invariants in terms of the four numbers. *)
LEMMA CountingForm ==
  /\ Counting <=> HoldersMatchState /\ SpinWaitHasOneOwner
  /\ Counting' <=> HoldersMatchState' /\ SpinWaitHasOneOwner'
BY Zenon
   DEF Counting, HoldersMatchState, SpinWaitHasOneOwner, NReaders, NWriters,
       NPosts, NAwake, ReadHolders, WriteHolders, Posters

(* No thread holds or awaits the mutex at first.                           *)
LEMMA InitEstablishes == Init => IInv
<1> SUFFICES ASSUME Init PROVE IInv
  BY Zenon
<1>1. TypeOK
  <2>1. writers_!TypeOK /\ readers_!TypeOK
    BY Zenon DEF Init, writers_!Init, readers_!Init, writers_!TypeOK, readers_!TypeOK
  <2>2. spin_iters \in [Threads -> 0 .. kMaxSpinIters + 1]
    BY SpinAssumption DEF Init
  <2>3. pc \in [Threads -> PCs]
    BY Zenon DEF Init, PCs
  <2> QED BY <2>1, <2>2, <2>3, Zenon DEF Init, TypeOK
<1>2. ReadHolders = {} /\ WriteHolders = {} /\ Posters = {} /\ AwakeWriters = {}
  BY Zenon DEF Init, At, ReadHolders, WriteHolders, Posters, AwakeWriters
<1>3. NReaders = 0 /\ NWriters = 0 /\ NPosts = 0 /\ NAwake = 0
  BY <1>2, FS_EmptySet, Zenon DEF NReaders, NWriters, NPosts, NAwake
<1>4. Counting
  BY <1>3 DEF Counting, Init, writers_!Init
<1>5. NoLostWakeup
  BY DEF Init, NoLostWakeup
<1> QED BY <1>1, <1>4, <1>5, CountingForm, Zenon DEF IInv

Counted(q) == q \in {"rlocked", "locked", "post"}

(* A step that leaves the word and the writers' tokens alone, and moves no *)
(* thread in or out of a counted set, preserves what is counted.           *)
LEMMA QuietStep ==
  ASSUME IInv, TypeOK', NEW t \in Threads, NEW q \in PCs, NEW m \in BOOLEAN,
         Moves(t, q, m), UNCHANGED <<word, wsem>>,
         Counted(q) => q = pc[t], Counted(pc[t]) => q = pc[t],
         WriterAwakeAt(q, m) <=> WriterAwakeAt(pc[t], masked[t])
  PROVE  IInv'
<1>1. Effect(t, q, m)
  BY MoveEffect, Zenon DEF IInv
<1>2. Counting'
  BY <1>1, CountingForm, SMTT(60) DEF IInv, Counting, Effect, Counts, Bit, Counted, word
<1>3. NoLostWakeup'
  BY Zenon DEF IInv, NoLostWakeup, Locked, word
<1> QED BY <1>2, <1>3, CountingForm, Zenon DEF IInv

(* The counts of holders, posters and woken writers are natural numbers.   *)
LEMMA CountsNatural == Counts
<1>1. /\ IsFiniteSet(ReadHolders) /\ IsFiniteSet(WriteHolders)
      /\ IsFiniteSet(Posters) /\ IsFiniteSet(AwakeWriters)
  BY ThreadsAssumption, FS_Subset, Zenon
     DEF ReadHolders, WriteHolders, Posters, AwakeWriters, At
<1> QED BY <1>1, FS_CardinalityType, Zenon
           DEF Counts, NReaders, NWriters, NPosts, NAwake

(* A writer that is awake counts for one. *)
LEMMA AwakeCounted ==
  ASSUME NEW t \in Threads, WriterAwakeAt(pc[t], masked[t])
  PROVE  NAwake >= 1
<1> DEFINE rest == AwakeWriters \ {t}
<1>1. IsFiniteSet(AwakeWriters)
  BY ThreadsAssumption, FS_Subset, Zenon DEF AwakeWriters, At
<1>2. t \in AwakeWriters /\ t \notin rest /\ rest \ {t} = AwakeWriters \ {t}
  BY Zenon DEF AwakeWriters, At, WriterAwakeAt
<1> HIDE DEF rest
<1>3. /\ Cardinality(AwakeWriters) \in Nat
      /\ Cardinality(rest) \in Nat
      /\ Cardinality(rest) = Cardinality(AwakeWriters)
           + (IF t \in rest THEN 1 ELSE 0)
           - (IF t \in AwakeWriters THEN 1 ELSE 0)
  BY <1>1, <1>2, CardinalityStep
<1> QED BY <1>2, <1>3 DEF NAwake

(* The steps of a thread that are quiet in that sense. *)
QuietActions(t) ==
  \/ LockCall(t) \/ LockSpin(t) \/ LockSleep(t) \/ LockInterrupted(t)
  \/ LockRecheck(t) \/ PostWake(t) \/ ReadersPostAdd(t) \/ ReadersPostWake(t)
  \/ ReadLockCall(t) \/ ReadLockSpin(t) \/ ReadLockSleep(t) \/ ReadLockInterrupted(t)
  \/ ReadLockUnblock(t) \/ ReadLockRecheck(t)

(* They preserve the invariant: the types do not change, and QuietStep. *)
LEMMA QuietPreserves ==
  ASSUME IInv, NEW t \in Threads, QuietActions(t)
  PROVE  IInv'
<1> USE SpinAssumption DEF Goto, locals, sems, word
<1>0. TypeOK /\ Counting /\ NoLostWakeup /\ Counts
  BY CountingForm, CountsNatural, Zenon DEF IInv
<1>1. CASE LockCall(t)
  <2>1. Moves(t, "lock", FALSE) /\ "lock" \in PCs /\ FALSE \in BOOLEAN
    BY <1>0, <1>1, Zenon DEF LockCall, Moves, TypeOK, PCs
  <2>2. TypeOK'
    BY <1>0, <1>1 DEF LockCall, TypeOK, PCs, writers_!TypeOK, readers_!TypeOK
  <2> QED BY <1>1, <2>1, <2>2, QuietStep, Zenon DEF LockCall, Counted, WriterAwakeAt
<1>2. CASE LockSpin(t)
  <2>1. Moves(t, pc[t], masked[t]) /\ pc[t] \in PCs /\ masked[t] \in BOOLEAN
    BY <1>0, <1>2, Zenon DEF LockSpin, CountSpin, SpunEnough, Moves, TypeOK, PCs
  <2>2. TypeOK'
    BY <1>0, <1>2
       DEF LockSpin, CountSpin, SpunEnough, TypeOK, PCs, writers_!TypeOK,
           readers_!TypeOK
  <2> QED BY <1>2, <2>1, <2>2, QuietStep, Zenon
             DEF LockSpin, CountSpin, SpunEnough, Counted, WriterAwakeAt
<1>3. CASE LockSleep(t)
  <2>1. Moves(t, pc[t], masked[t]) /\ pc[t] \in PCs /\ masked[t] \in BOOLEAN
    BY <1>0, <1>3, Zenon DEF LockSleep, writers_!WaitSleep, Moves, TypeOK, PCs
  <2>2. TypeOK'
    BY <1>0, <1>3, Zenon
       DEF LockSleep, writers_!WaitSleep, TypeOK, PCs, writers_!TypeOK,
           readers_!TypeOK
  <2> QED BY <1>3, <2>1, <2>2, QuietStep, Zenon
             DEF LockSleep, writers_!WaitSleep, Counted, WriterAwakeAt
<1>4. CASE LockInterrupted(t)
  <2>1. Moves(t, pc[t], masked[t]) /\ pc[t] \in PCs /\ masked[t] \in BOOLEAN
    BY <1>0, <1>4, Zenon
       DEF LockInterrupted, writers_!WaitInterrupted, Moves, TypeOK, PCs
  <2>2. TypeOK'
    BY <1>0, <1>4, Zenon
       DEF LockInterrupted, writers_!WaitInterrupted, TypeOK, PCs,
           writers_!TypeOK, readers_!TypeOK
  <2> QED BY <1>4, <2>1, <2>2, QuietStep, Zenon
             DEF LockInterrupted, writers_!WaitInterrupted, Counted,
                 WriterAwakeAt
<1>5. CASE LockRecheck(t)
  <2>1. Moves(t, "lock", masked[t]) /\ "lock" \in PCs /\ masked[t] \in BOOLEAN
    BY <1>0, <1>5, Zenon DEF LockRecheck, CountSpin, SpunEnough, Moves, TypeOK, PCs
  <2>2. TypeOK'
    BY <1>0, <1>5
       DEF LockRecheck, CountSpin, SpunEnough, TypeOK, PCs, writers_!TypeOK,
           readers_!TypeOK
  <2> QED BY <1>5, <2>1, <2>2, QuietStep, Zenon
             DEF LockRecheck, CountSpin, SpunEnough, Counted, WriterAwakeAt
<1>6. CASE PostWake(t)
  <2>1. Moves(t, "idle", masked[t]) /\ "idle" \in PCs /\ masked[t] \in BOOLEAN
    BY <1>0, <1>6, Zenon DEF PostWake, writers_!PostWake, Moves, TypeOK, PCs
  <2>2. TypeOK'
    BY <1>0, <1>6, Zenon
       DEF PostWake, writers_!PostWake, TypeOK, PCs, writers_!TypeOK,
           readers_!TypeOK
  <2> QED BY <1>6, <2>1, <2>2, QuietStep, Zenon
             DEF PostWake, writers_!PostWake, Counted, WriterAwakeAt
<1>7. CASE ReadersPostAdd(t)
  <2>1. Moves(t, "rnotify", masked[t]) /\ "rnotify" \in PCs /\ masked[t] \in BOOLEAN
    BY <1>0, <1>7, Zenon DEF ReadersPostAdd, readers_!PostAdd, Moves, TypeOK, PCs
  <2>2. TypeOK'
    BY <1>0, <1>7
       DEF ReadersPostAdd, readers_!PostAdd, TypeOK, PCs, writers_!TypeOK,
           readers_!TypeOK
  <2> QED BY <1>7, <2>1, <2>2, QuietStep, Zenon
             DEF ReadersPostAdd, readers_!PostAdd, Counted, WriterAwakeAt
<1>8. CASE ReadersPostWake(t)
  <2>1. Moves(t, "idle", masked[t]) /\ "idle" \in PCs /\ masked[t] \in BOOLEAN
    BY <1>0, <1>8, Zenon DEF ReadersPostWake, readers_!PostWake, Moves, TypeOK, PCs
  <2>2. TypeOK'
    BY <1>0, <1>8, Zenon
       DEF ReadersPostWake, readers_!PostWake, TypeOK, PCs, writers_!TypeOK,
           readers_!TypeOK
  <2> QED BY <1>8, <2>1, <2>2, QuietStep, Zenon
             DEF ReadersPostWake, readers_!PostWake, Counted, WriterAwakeAt
<1>9. CASE ReadLockCall(t)
  <2>1. Moves(t, "rlock", FALSE) /\ "rlock" \in PCs /\ FALSE \in BOOLEAN
    BY <1>0, <1>9, Zenon DEF ReadLockCall, Moves, TypeOK, PCs
  <2>2. TypeOK'
    BY <1>0, <1>9
       DEF ReadLockCall, TypeOK, PCs, writers_!TypeOK, readers_!TypeOK
  <2> QED BY <1>9, <2>1, <2>2, QuietStep, Zenon
             DEF ReadLockCall, Counted, WriterAwakeAt
<1>10. CASE ReadLockSpin(t)
  <2>1. Moves(t, pc[t], masked[t]) /\ pc[t] \in PCs /\ masked[t] \in BOOLEAN
    BY <1>0, <1>10, Zenon DEF ReadLockSpin, CountSpin, SpunEnough, Moves, TypeOK, PCs
  <2>2. TypeOK'
    BY <1>0, <1>10
       DEF ReadLockSpin, CountSpin, SpunEnough, TypeOK, PCs, writers_!TypeOK,
           readers_!TypeOK
  <2> QED BY <1>10, <2>1, <2>2, QuietStep, Zenon
             DEF ReadLockSpin, CountSpin, SpunEnough, Counted, WriterAwakeAt
<1>11. CASE ReadLockSleep(t)
  <2>1. Moves(t, pc[t], masked[t]) /\ pc[t] \in PCs /\ masked[t] \in BOOLEAN
    BY <1>0, <1>11, Zenon DEF ReadLockSleep, readers_!WaitSleep, Moves, TypeOK, PCs
  <2>2. TypeOK'
    BY <1>0, <1>11, Zenon
       DEF ReadLockSleep, readers_!WaitSleep, TypeOK, PCs, writers_!TypeOK,
           readers_!TypeOK
  <2> QED BY <1>11, <2>1, <2>2, QuietStep, Zenon
             DEF ReadLockSleep, readers_!WaitSleep, Counted, WriterAwakeAt
<1>12. CASE ReadLockInterrupted(t)
  <2>1. Moves(t, pc[t], masked[t]) /\ pc[t] \in PCs /\ masked[t] \in BOOLEAN
    BY <1>0, <1>12, Zenon
       DEF ReadLockInterrupted, readers_!WaitInterrupted, Moves, TypeOK, PCs
  <2>2. TypeOK'
    BY <1>0, <1>12, Zenon
       DEF ReadLockInterrupted, readers_!WaitInterrupted, TypeOK, PCs,
           writers_!TypeOK, readers_!TypeOK
  <2> QED BY <1>12, <2>1, <2>2, QuietStep, Zenon
             DEF ReadLockInterrupted, readers_!WaitInterrupted, Counted,
                 WriterAwakeAt
<1>13. CASE ReadLockUnblock(t)
  <2>1. Moves(t, "rrecheck", TRUE) /\ "rrecheck" \in PCs /\ TRUE \in BOOLEAN
    BY <1>0, <1>13, Zenon DEF ReadLockUnblock, readers_!WaitTake, Moves, TypeOK, PCs
  <2>2. TypeOK'
    BY <1>0, <1>13
       DEF ReadLockUnblock, readers_!WaitTake, TypeOK, PCs, writers_!TypeOK,
           readers_!TypeOK
  <2> QED BY <1>13, <2>1, <2>2, QuietStep, Zenon
             DEF ReadLockUnblock, readers_!WaitTake, Counted, WriterAwakeAt
<1>14. CASE ReadLockRecheck(t)
  <2>1. Moves(t, "rlock", masked[t]) /\ "rlock" \in PCs /\ masked[t] \in BOOLEAN
    BY <1>0, <1>14, Zenon
       DEF ReadLockRecheck, CountSpin, SpunEnough, Moves, TypeOK, PCs
  <2>2. TypeOK'
    BY <1>0, <1>14
       DEF ReadLockRecheck, CountSpin, SpunEnough, TypeOK, PCs,
           writers_!TypeOK, readers_!TypeOK
  <2> QED BY <1>14, <2>1, <2>2, QuietStep, Zenon
             DEF ReadLockRecheck, CountSpin, SpunEnough, Counted, WriterAwakeAt
<1> QED BY <1>1, <1>2, <1>3, <1>4, <1>5, <1>6, <1>7, <1>8, <1>9, <1>10, <1>11, Zenon,
           <1>12, <1>13, <1>14
           DEF QuietActions

(* Every step of a thread preserves the invariant.  For those that are not *)
(* quiet: where the thread goes, what that does to the four numbers, and   *)
(* then the types, the counting and the wake-ups.                          *)
LEMMA StepPreserves ==
  ASSUME IInv, NEW t \in Threads, Call(t) \/ Progress(t) \/ Interrupted(t)
  PROVE  IInv'
<1> USE SpinAssumption DEF Goto, locals, sems, word
<1>0. TypeOK /\ Counting /\ NoLostWakeup /\ Counts
  BY CountingForm, CountsNatural, Zenon DEF IInv
<1>1. CASE LockAcquire(t)
  <2>1. Moves(t, "locked", masked[t]) /\ "locked" \in PCs /\ masked[t] \in BOOLEAN
    BY <1>0, <1>1, Zenon DEF LockAcquire, Locked, WriterFlag, Moves, TypeOK, PCs
  <2>2. Effect(t, "locked", masked[t])
    BY <1>0, <2>1, MoveEffect, Zenon
  <2>3. TypeOK'
    <3>1. CountersOK'
      BY <1>0, <1>1, Zenon DEF LockAcquire, TypeOK, CountersOK
    <3>2. FlagsOK'
      BY <1>0, <1>1, Zenon DEF LockAcquire, WriterFlag, TypeOK, FlagsOK
    <3> QED BY <1>0, <1>1, <3>1, <3>2, Zenon
               DEF LockAcquire, TypeOK, CountersOK, FlagsOK, PCs,
                   writers_!TypeOK, readers_!TypeOK
  <2>4. Counting'
    BY <1>0, <1>1, <2>2
       DEF LockAcquire, Locked, WriterFlag, Counting, Effect, Counts, Bit,
           WriterAwakeAt, TypeOK, writers_!TypeOK
  <2>5. NoLostWakeup'
    BY <1>0, <1>1, Zenon
       DEF LockAcquire, Locked, WriterFlag, NoLostWakeup, Counting, Counts,
           TypeOK
  <2> QED BY <2>3, <2>4, <2>5, CountingForm, Zenon DEF IInv
<1>2. CASE LockBlock(t)
  <2>1. Moves(t, "block", masked[t]) /\ "block" \in PCs /\ masked[t] \in BOOLEAN
    BY <1>0, <1>2, Zenon
       DEF LockBlock, Locked, WriterFlag, SpunEnough, Moves, TypeOK, PCs
  <2>2. Effect(t, "block", masked[t])
    BY <1>0, <2>1, MoveEffect, Zenon
  <2>3. TypeOK'
    <3>1. CountersOK'
      BY <1>0, <1>2 DEF LockBlock, TypeOK, CountersOK
    <3>2. FlagsOK'
      BY <1>0, <1>2, Zenon DEF LockBlock, WriterFlag, TypeOK, FlagsOK
    <3> QED BY <1>0, <1>2, <3>1, <3>2, Zenon
               DEF LockBlock, TypeOK, CountersOK, FlagsOK, PCs,
                   writers_!TypeOK, readers_!TypeOK
  <2>4. Counting'
    BY <1>0, <1>2, <2>2
       DEF LockBlock, Locked, WriterFlag, SpunEnough, Counting, Effect, Counts,
           Bit, WriterAwakeAt, TypeOK, writers_!TypeOK
  <2>5. NoLostWakeup'
    BY <1>0, <1>2
       DEF LockBlock, Locked, WriterFlag, SpunEnough, NoLostWakeup, Counting,
           Counts, TypeOK
  <2> QED BY <2>3, <2>4, <2>5, CountingForm, Zenon DEF IInv
<1>3. CASE LockAnnounce(t)
  <2>1. Moves(t, "recheck", TRUE) /\ "recheck" \in PCs /\ TRUE \in BOOLEAN
    BY <1>0, <1>3, Zenon DEF LockAnnounce, Locked, SpunEnough, Moves, TypeOK, PCs
  <2>2. Effect(t, "recheck", TRUE)
    BY <1>0, <2>1, MoveEffect, Zenon
  <2>3. TypeOK'
    <3>1. CountersOK'
      BY <1>0, <1>3, Zenon DEF LockAnnounce, TypeOK, CountersOK
    <3>2. FlagsOK'
      BY <1>0, <1>3, Zenon DEF LockAnnounce, TypeOK, FlagsOK
    <3> QED BY <1>0, <1>3, <3>1, <3>2, Zenon
               DEF LockAnnounce, TypeOK, CountersOK, FlagsOK, PCs,
                   writers_!TypeOK, readers_!TypeOK
  <2>4. Counting'
    BY <1>0, <1>3, <2>2, AwakeCounted
       DEF LockAnnounce, Locked, SpunEnough, Counting, Effect, Counts, Bit,
           WriterAwakeAt, TypeOK, writers_!TypeOK
  <2>5. NoLostWakeup'
    BY <1>0, <1>3, Zenon
       DEF LockAnnounce, Locked, SpunEnough, NoLostWakeup, Counting, Counts,
           TypeOK
  <2> QED BY <2>3, <2>4, <2>5, CountingForm, Zenon DEF IInv
<1>4. CASE LockUnblock(t)
  <2>1. Moves(t, "recheck", TRUE) /\ "recheck" \in PCs /\ TRUE \in BOOLEAN
    BY <1>0, <1>4, Zenon DEF LockUnblock, writers_!WaitTake, Moves, TypeOK, PCs
  <2>2. Effect(t, "recheck", TRUE)
    BY <1>0, <2>1, MoveEffect, Zenon
  <2>3. TypeOK'
    <3>1. CountersOK'
      BY <1>0, <1>4, Zenon DEF LockUnblock, TypeOK, CountersOK
    <3>2. FlagsOK'
      BY <1>0, <1>4, Zenon DEF LockUnblock, TypeOK, FlagsOK
    <3> QED BY <1>0, <1>4, <3>1, <3>2
               DEF LockUnblock, writers_!WaitTake, TypeOK, CountersOK, FlagsOK,
                   PCs, writers_!TypeOK, readers_!TypeOK
  <2>4. Counting'
    BY <1>0, <1>4, <2>2
       DEF LockUnblock, writers_!WaitTake, Counting, Effect, Counts, Bit,
           WriterAwakeAt, TypeOK, writers_!TypeOK
  <2>5. NoLostWakeup'
    BY <1>0, <1>4, Zenon
       DEF LockUnblock, writers_!WaitTake, Locked, NoLostWakeup, Counting,
           Counts, TypeOK
  <2> QED BY <2>3, <2>4, <2>5, CountingForm, Zenon DEF IInv
<1>5. CASE TryLock(t)
  <2>1. Moves(t, "locked", masked[t]) /\ "locked" \in PCs /\ masked[t] \in BOOLEAN
    BY <1>0, <1>5, Zenon DEF TryLock, Locked, Moves, TypeOK, PCs
  <2>2. Effect(t, "locked", masked[t])
    BY <1>0, <2>1, MoveEffect, Zenon
  <2>3. TypeOK'
    <3>1. CountersOK'
      BY <1>0, <1>5, Zenon DEF TryLock, TypeOK, CountersOK
    <3>2. FlagsOK'
      BY <1>0, <1>5, Zenon DEF TryLock, TypeOK, FlagsOK
    <3> QED BY <1>0, <1>5, <3>1, <3>2, Zenon
               DEF TryLock, TypeOK, CountersOK, FlagsOK, PCs, writers_!TypeOK,
                   readers_!TypeOK
  <2>4. Counting'
    BY <1>0, <1>5, <2>2, SMTT(60)
       DEF TryLock, Locked, Counting, Effect, Counts, Bit, WriterAwakeAt,
           TypeOK, writers_!TypeOK
  <2>5. NoLostWakeup'
    BY <1>0, <1>5, Zenon DEF TryLock, Locked, NoLostWakeup, Counting, Counts, TypeOK
  <2> QED BY <2>3, <2>4, <2>5, CountingForm, Zenon DEF IInv
<1>6. CASE UnlockWakeWriter(t)
  <2>1. Moves(t, "post", masked[t]) /\ "post" \in PCs /\ masked[t] \in BOOLEAN
    BY <1>0, <1>6, Zenon DEF UnlockWakeWriter, WakeWriter, Moves, TypeOK, PCs
  <2>2. Effect(t, "post", masked[t])
    BY <1>0, <2>1, MoveEffect, Zenon
  <2>3. TypeOK'
    <3>1. CountersOK'
      BY <1>0, <1>6 DEF UnlockWakeWriter, WakeWriter, TypeOK, CountersOK
    <3>2. FlagsOK'
      BY <1>0, <1>6, Zenon DEF UnlockWakeWriter, TypeOK, FlagsOK
    <3> QED BY <1>0, <1>6, <3>1, <3>2, Zenon
               DEF UnlockWakeWriter, TypeOK, CountersOK, FlagsOK, PCs,
                   writers_!TypeOK, readers_!TypeOK
  <2>4. Counting'
    BY <1>0, <1>6, <2>2
       DEF UnlockWakeWriter, WakeWriter, Counting, Effect, Counts, Bit,
           WriterAwakeAt, TypeOK, writers_!TypeOK
  <2>5. NoLostWakeup'
    BY <1>0, <1>6, Zenon
       DEF UnlockWakeWriter, WakeWriter, Locked, NoLostWakeup, Counting,
           Counts, TypeOK
  <2> QED BY <2>3, <2>4, <2>5, CountingForm, Zenon DEF IInv
<1>7. CASE UnlockWakeReaders(t)
  <2>1. Moves(t, "rpost", masked[t]) /\ "rpost" \in PCs /\ masked[t] \in BOOLEAN
    BY <1>0, <1>7, Zenon DEF UnlockWakeReaders, WakeWriter, Moves, TypeOK, PCs
  <2>2. Effect(t, "rpost", masked[t])
    BY <1>0, <2>1, MoveEffect, Zenon
  <2>3. TypeOK'
    <3>1. CountersOK'
      BY <1>0, <1>7, Zenon DEF UnlockWakeReaders, WakeWriter, TypeOK, CountersOK
    <3>2. FlagsOK'
      BY <1>0, <1>7, Zenon DEF UnlockWakeReaders, TypeOK, FlagsOK
    <3> QED BY <1>0, <1>7, <3>1, <3>2, Zenon
               DEF UnlockWakeReaders, TypeOK, CountersOK, FlagsOK, PCs,
                   writers_!TypeOK, readers_!TypeOK
  <2>4. Counting'
    BY <1>0, <1>7, <2>2
       DEF UnlockWakeReaders, WakeWriter, Counting, Effect, Counts, Bit,
           WriterAwakeAt, TypeOK, writers_!TypeOK
  <2>5. NoLostWakeup'
    BY <1>0, <1>7
       DEF UnlockWakeReaders, WakeWriter, Locked, NoLostWakeup, Counting,
           Counts, TypeOK
  <2> QED BY <2>3, <2>4, <2>5, CountingForm, Zenon DEF IInv
<1>8. CASE UnlockQuiet(t)
  <2>1. Moves(t, "idle", masked[t]) /\ "idle" \in PCs /\ masked[t] \in BOOLEAN
    BY <1>0, <1>8, Zenon DEF UnlockQuiet, WakeWriter, Moves, TypeOK, PCs
  <2>2. Effect(t, "idle", masked[t])
    BY <1>0, <2>1, MoveEffect, Zenon
  <2>3. TypeOK'
    <3>1. CountersOK'
      BY <1>0, <1>8, Zenon DEF UnlockQuiet, WakeWriter, TypeOK, CountersOK
    <3>2. FlagsOK'
      BY <1>0, <1>8, Zenon DEF UnlockQuiet, TypeOK, FlagsOK
    <3> QED BY <1>0, <1>8, <3>1, <3>2, Zenon
               DEF UnlockQuiet, TypeOK, CountersOK, FlagsOK, PCs,
                   writers_!TypeOK, readers_!TypeOK
  <2>4. Counting'
    BY <1>0, <1>8, <2>2
       DEF UnlockQuiet, WakeWriter, Counting, Effect, Counts, Bit,
           WriterAwakeAt, TypeOK, writers_!TypeOK
  <2>5. NoLostWakeup'
    BY <1>0, <1>8
       DEF UnlockQuiet, WakeWriter, Locked, NoLostWakeup, Counting, Counts,
           TypeOK
  <2> QED BY <2>3, <2>4, <2>5, CountingForm, Zenon DEF IInv
<1>9. CASE PostAdd(t)
  <2>1. Moves(t, "notify", masked[t]) /\ "notify" \in PCs /\ masked[t] \in BOOLEAN
    BY <1>0, <1>9, Zenon DEF PostAdd, writers_!PostAdd, Moves, TypeOK, PCs
  <2>2. Effect(t, "notify", masked[t])
    BY <1>0, <2>1, MoveEffect, Zenon
  <2>3. TypeOK'
    <3>1. CountersOK'
      BY <1>0, <1>9, Zenon DEF PostAdd, TypeOK, CountersOK
    <3>2. FlagsOK'
      BY <1>0, <1>9, Zenon DEF PostAdd, TypeOK, FlagsOK
    <3> QED BY <1>0, <1>9, <3>1, <3>2
               DEF PostAdd, writers_!PostAdd, TypeOK, CountersOK, FlagsOK, PCs,
                   writers_!TypeOK, readers_!TypeOK
  <2>4. Counting'
    BY <1>0, <1>9, <2>2
       DEF PostAdd, writers_!PostAdd, Counting, Effect, Counts, Bit,
           WriterAwakeAt, TypeOK, writers_!TypeOK
  <2>5. NoLostWakeup'
    BY <1>0, <1>9, Zenon
       DEF PostAdd, writers_!PostAdd, Locked, NoLostWakeup, Counting, Counts,
           TypeOK
  <2> QED BY <2>3, <2>4, <2>5, CountingForm, Zenon DEF IInv
<1>10. CASE ReadLockAcquire(t)
  <2>1. Moves(t, "rlocked", masked[t]) /\ "rlocked" \in PCs /\ masked[t] \in BOOLEAN
    BY <1>0, <1>10, Zenon DEF ReadLockAcquire, ReaderFlag, Moves, TypeOK, PCs
  <2>2. Effect(t, "rlocked", masked[t])
    BY <1>0, <2>1, MoveEffect, Zenon
  <2>3. TypeOK'
    <3>1. CountersOK'
      BY <1>0, <1>10, SMTT(60) DEF ReadLockAcquire, TypeOK, CountersOK
    <3>2. FlagsOK'
      BY <1>0, <1>10, Zenon DEF ReadLockAcquire, ReaderFlag, TypeOK, FlagsOK
    <3> QED BY <1>0, <1>10, <3>1, <3>2, Zenon
               DEF ReadLockAcquire, TypeOK, CountersOK, FlagsOK, PCs,
                   writers_!TypeOK, readers_!TypeOK
  <2>4. Counting'
    BY <1>0, <1>10, <2>2
       DEF ReadLockAcquire, ReaderFlag, Counting, Effect, Counts, Bit,
           WriterAwakeAt, TypeOK, writers_!TypeOK
  <2>5. NoLostWakeup'
    BY <1>0, <1>10
       DEF ReadLockAcquire, ReaderFlag, Locked, NoLostWakeup, Counting, Counts,
           TypeOK
  <2> QED BY <2>3, <2>4, <2>5, CountingForm, Zenon DEF IInv
<1>11. CASE ReadLockBlock(t)
  <2>1. Moves(t, "rblock", masked[t]) /\ "rblock" \in PCs /\ masked[t] \in BOOLEAN
    BY <1>0, <1>11, Zenon
       DEF ReadLockBlock, ReaderFlag, SpunEnough, Moves, TypeOK, PCs
  <2>2. Effect(t, "rblock", masked[t])
    BY <1>0, <2>1, MoveEffect, Zenon
  <2>3. TypeOK'
    <3>1. CountersOK'
      BY <1>0, <1>11 DEF ReadLockBlock, TypeOK, CountersOK
    <3>2. FlagsOK'
      BY <1>0, <1>11, Zenon DEF ReadLockBlock, ReaderFlag, TypeOK, FlagsOK
    <3> QED BY <1>0, <1>11, <3>1, <3>2, Zenon
               DEF ReadLockBlock, TypeOK, CountersOK, FlagsOK, PCs,
                   writers_!TypeOK, readers_!TypeOK
  <2>4. Counting'
    BY <1>0, <1>11, <2>2
       DEF ReadLockBlock, ReaderFlag, SpunEnough, Counting, Effect, Counts,
           Bit, WriterAwakeAt, TypeOK, writers_!TypeOK
  <2>5. NoLostWakeup'
    BY <1>0, <1>11, Zenon
       DEF ReadLockBlock, ReaderFlag, SpunEnough, Locked, NoLostWakeup,
           Counting, Counts, TypeOK
  <2> QED BY <2>3, <2>4, <2>5, CountingForm, Zenon DEF IInv
<1>12. CASE ReadLockAnnounce(t)
  <2>1. Moves(t, "rrecheck", TRUE) /\ "rrecheck" \in PCs /\ TRUE \in BOOLEAN
    BY <1>0, <1>12, Zenon DEF ReadLockAnnounce, SpunEnough, Moves, TypeOK, PCs
  <2>2. Effect(t, "rrecheck", TRUE)
    BY <1>0, <2>1, MoveEffect, Zenon
  <2>3. TypeOK'
    <3>1. CountersOK'
      BY <1>0, <1>12, Zenon DEF ReadLockAnnounce, TypeOK, CountersOK
    <3>2. FlagsOK'
      BY <1>0, <1>12, Zenon DEF ReadLockAnnounce, TypeOK, FlagsOK
    <3> QED BY <1>0, <1>12, <3>1, <3>2, Zenon
               DEF ReadLockAnnounce, TypeOK, CountersOK, FlagsOK, PCs,
                   writers_!TypeOK, readers_!TypeOK
  <2>4. Counting'
    BY <1>0, <1>12, <2>2
       DEF ReadLockAnnounce, SpunEnough, Counting, Effect, Counts, Bit,
           WriterAwakeAt, TypeOK, writers_!TypeOK
  <2>5. NoLostWakeup'
    BY <1>0, <1>12, Zenon
       DEF ReadLockAnnounce, SpunEnough, Locked, NoLostWakeup, Counting,
           Counts, TypeOK
  <2> QED BY <2>3, <2>4, <2>5, CountingForm, Zenon DEF IInv
<1>13. CASE ReadUnlockWake(t)
  <2>1. Moves(t, "post", masked[t]) /\ "post" \in PCs /\ masked[t] \in BOOLEAN
    BY <1>0, <1>13, Zenon
       DEF ReadUnlockWake, LastReaderWakes, WakeWriter, Moves, TypeOK, PCs
  <2>2. Effect(t, "post", masked[t])
    BY <1>0, <2>1, MoveEffect, Zenon
  <2>3. TypeOK'
    <3>1. CountersOK'
      BY <1>0, <1>13, <2>2
         DEF ReadUnlockWake, LastReaderWakes, WakeWriter, TypeOK, CountersOK,
             Counting, Effect, Counts, Bit
    <3>2. FlagsOK'
      BY <1>0, <1>13, Zenon DEF ReadUnlockWake, TypeOK, FlagsOK
    <3> QED BY <1>0, <1>13, <3>1, <3>2, Zenon
               DEF ReadUnlockWake, TypeOK, CountersOK, FlagsOK, PCs,
                   writers_!TypeOK, readers_!TypeOK
  <2>4. Counting'
    <3>1. readers' = NReaders' /\ NReaders' = 0
      <4>1. pc[t] = "rlocked" /\ readers = 1 /\ readers' = readers - 1
        BY <1>13, Zenon DEF ReadUnlockWake, LastReaderWakes
      <4>2. NReaders' = NReaders + Bit("post" = "rlocked") - Bit(pc[t] = "rlocked")
        BY <2>2, Zenon DEF Effect
      <4>3. NReaders = 1
        BY <1>0, <4>1, Zenon DEF Counting
      <4> QED BY <4>1, <4>2, <4>3, SMTT(60) DEF Bit
    <3>4. NWriters' = NWriters /\ writerLock' = writerLock
      BY <1>0, <1>13, <2>2, SMTT(60) DEF ReadUnlockWake, Effect, Counts, Bit
    <3>2. /\ NAwake' = NAwake /\ NPosts' = NPosts + 1 /\ wsem' = wsem
          /\ NAwake + NPosts + wsem = 0
      BY <1>0, <1>13, <2>2
         DEF ReadUnlockWake, LastReaderWakes, WakeWriter, Counting, Effect,
             Counts, Bit, WriterAwakeAt
    <3>3. writerSpinWait' = TRUE
      BY <1>13, Zenon DEF ReadUnlockWake
    <3> QED BY <1>0, <3>1, <3>2, <3>3, <3>4
               DEF Counting, Counts, TypeOK, writers_!TypeOK
  <2>5. NoLostWakeup'
    BY <1>0, <1>13, Zenon
       DEF ReadUnlockWake, LastReaderWakes, WakeWriter, Locked, NoLostWakeup,
           Counting, Counts, TypeOK
  <2> QED BY <2>3, <2>4, <2>5, CountingForm, Zenon DEF IInv
<1>14. CASE ReadUnlockQuiet(t)
  <2>1. Moves(t, "idle", masked[t]) /\ "idle" \in PCs /\ masked[t] \in BOOLEAN
    BY <1>0, <1>14, Zenon
       DEF ReadUnlockQuiet, LastReaderWakes, WakeWriter, Moves, TypeOK, PCs
  <2>2. Effect(t, "idle", masked[t])
    BY <1>0, <2>1, MoveEffect, Zenon
  <2>3. TypeOK'
    <3>1. CountersOK'
      BY <1>0, <1>14, <2>2, SMTT(60)
         DEF ReadUnlockQuiet, LastReaderWakes, WakeWriter, TypeOK, CountersOK,
             Counting, Effect, Counts, Bit
    <3>2. FlagsOK'
      BY <1>0, <1>14, Zenon DEF ReadUnlockQuiet, TypeOK, FlagsOK
    <3> QED BY <1>0, <1>14, <3>1, <3>2, Zenon
               DEF ReadUnlockQuiet, TypeOK, CountersOK, FlagsOK, PCs,
                   writers_!TypeOK, readers_!TypeOK
  <2>4. Counting'
    BY <1>0, <1>14, <2>2, SMTT(60)
       DEF ReadUnlockQuiet, LastReaderWakes, WakeWriter, Counting, Effect,
           Counts, Bit, WriterAwakeAt, TypeOK, writers_!TypeOK
  <2>5. NoLostWakeup'
    BY <1>0, <1>14
       DEF ReadUnlockQuiet, LastReaderWakes, WakeWriter, Locked, NoLostWakeup,
           Counting, Counts, TypeOK
  <2> QED BY <2>3, <2>4, <2>5, CountingForm, Zenon DEF IInv
<1>15. CASE QuietActions(t)
  BY <1>15, QuietPreserves, Zenon
<1> QED BY <1>1, <1>2, <1>3, <1>4, <1>5, <1>6, <1>7, <1>8, <1>9, <1>10, <1>11, Zenon,
           <1>12, <1>13, <1>14, <1>15
           DEF Call, Progress, Interrupted, QuietActions

(* The invariant holds in every state of every behaviour of the mutex.     *)
THEOREM Invariance == Spec => []IInv
<1>1. IInv /\ [Next]_vars => IInv'
  <2> SUFFICES ASSUME IInv, [Next]_vars PROVE IInv'
    BY Zenon
  <2>1. CASE Next
    BY <2>1, StepPreserves, Zenon DEF Next
  <2>2. CASE UNCHANGED vars
    BY <2>2, Zenon
       DEF vars, word, sems, locals, IInv, TypeOK, HoldersMatchState,
           SpinWaitHasOneOwner, NoLostWakeup, Locked, At, AwakeWriters,
           writers_!TypeOK, readers_!TypeOK
  <2> QED BY <2>1, <2>2, Zenon
<1> QED BY InitEstablishes, <1>1, PTL DEF Spec

(* Type correctness.                                                       *)
THEOREM TypeCorrect == Spec => []TypeOK
<1>1. IInv => TypeOK
  BY Zenon DEF IInv
<1> QED BY Invariance, <1>1, PTL

(* The word agrees with the holders: exclusion of writers from readers and *)
(* from each other, and the assertions of Unlock and ReadUnlock.           *)
THEOREM Exclusion == Spec => []HoldersMatchState
<1>1. IInv => HoldersMatchState
  BY Zenon DEF IInv
<1> QED BY Invariance, <1>1, PTL

(* kWriterSpinWait has exactly one owner, which is why the assertion in    *)
(* the loop of Lock cannot fail.                                           *)
THEOREM SpinWaitOwner == Spec => []SpinWaitHasOneOwner
<1>1. IInv => SpinWaitHasOneOwner
  BY Zenon DEF IInv
<1> QED BY Invariance, <1>1, PTL

(* Nobody who is counted as waiting is left without somebody to wake them. *)
THEOREM Wakeups == Spec => []NoLostWakeup
<1>1. IInv => NoLostWakeup
  BY Zenon DEF IInv
<1> QED BY Invariance, <1>1, PTL

-----------------------------------------------------------------------------
(* Refinement *)

(* A free word has no holders, and one without a writer no write holder.   *)
LEMMA FreeMeansUnheld ==
  ASSUME IInv
  PROVE  /\ ~Locked => \A u \in Threads : pc[u] \notin {"locked", "rlocked"}
         /\ ~writerLock => \A u \in Threads : pc[u] # "locked"
<1>1. IsFiniteSet(ReadHolders) /\ IsFiniteSet(WriteHolders)
  BY ThreadsAssumption, FS_Subset, Zenon DEF ReadHolders, WriteHolders, At
<1>2. Counting /\ readers \in Nat
  BY CountingForm, Zenon DEF IInv, TypeOK
<1>3. ASSUME ~writerLock PROVE WriteHolders = {}
  <2>1. NWriters = 0
    BY <1>2, <1>3, Zenon DEF Counting
  <2> QED BY <1>1, <2>1, FS_EmptySet, Zenon DEF NWriters
<1>4. ASSUME ~Locked PROVE ReadHolders = {}
  <2>1. NReaders = 0
    BY <1>2, <1>4 DEF Counting, Locked
  <2> QED BY <1>1, <2>1, FS_EmptySet, Zenon DEF NReaders
<1>5. ~Locked => ~writerLock
  BY Zenon DEF Locked
<1> QED BY <1>3, <1>4, <1>5, Zenon DEF ReadHolders, WriteHolders, At

absMode == [t \in Threads |-> ModeOf(pc[t])]

(* A thread's move changes its own mode, and nobody else's.                *)
LEMMA ModeAfterMove ==
  ASSUME TypeOK, NEW t \in Threads, NEW q \in PCs, pc' = [pc EXCEPT ![t] = q]
  PROVE  /\ absMode' = [absMode EXCEPT ![t] = ModeOf(q)]
         /\ ModeOf(q) = ModeOf(pc[t]) => absMode' = absMode
<1>1. \A u \in Threads : absMode'[u] = IF u = t THEN ModeOf(q) ELSE absMode[u]
  BY Zenon DEF absMode, TypeOK
<1>2. absMode \in [Threads -> {ModeOf(l) : l \in PCs}]
  BY Zenon DEF absMode, TypeOK
<1>3. absMode' = [u \in Threads |-> absMode'[u]]
  BY DEF absMode
<1>4. absMode[t] = ModeOf(pc[t])
  BY Zenon DEF absMode
<1> QED BY <1>1, <1>2, <1>3, <1>4, Zenon

(* The moves inside one mode: spinning, blocking, waking up, posting.      *)
Inside(t) ==
  \/ LockBlock(t) \/ LockAnnounce(t) \/ LockSpin(t) \/ LockSleep(t)
  \/ LockUnblock(t) \/ LockRecheck(t) \/ LockInterrupted(t)
  \/ ReadLockBlock(t) \/ ReadLockAnnounce(t) \/ ReadLockSpin(t)
  \/ ReadLockSleep(t) \/ ReadLockUnblock(t) \/ ReadLockRecheck(t)
  \/ ReadLockInterrupted(t)
  \/ PostAdd(t) \/ PostWake(t) \/ ReadersPostAdd(t) \/ ReadersPostWake(t)

(* The steps inside an operation leave the abstract mode alone.            *)
LEMMA InsideStutters ==
  ASSUME TypeOK, NEW t \in Threads, Inside(t)
  PROVE  absMode' = absMode
<1>1. CASE pc' = pc
  BY <1>1, Zenon DEF absMode
<1>2. CASE pc' # pc
  <2>1. PICK q \in PCs :
          pc' = [pc EXCEPT ![t] = q] /\ ModeOf(q) = ModeOf(pc[t])
    BY <1>2
       DEF Inside, Goto, PCs, ModeOf, LockBlock, LockAnnounce, LockSpin,
           LockSleep, LockUnblock, LockRecheck, LockInterrupted, ReadLockBlock,
           ReadLockAnnounce, ReadLockSpin, ReadLockSleep, ReadLockUnblock,
           ReadLockRecheck, ReadLockInterrupted, PostAdd, PostWake,
           ReadersPostAdd, ReadersPostWake
  <2> QED BY <2>1, ModeAfterMove, Zenon
<1> QED BY <1>1, <1>2, Zenon

(* Every step of the mutex is a step of the reader-writer lock, or none.   *)
LEMMA StepSimulates ==
  ASSUME IInv, NEW t \in Threads, Call(t) \/ Progress(t) \/ Interrupted(t)
  PROVE  Abstract!Next \/ absMode' = absMode
<1>0. TypeOK
  BY Zenon DEF IInv
<1>1. CASE Inside(t)
  BY <1>0, <1>1, InsideStutters, Zenon
<1>2. CASE LockCall(t) \/ ReadLockCall(t)
  <2>1. PICK q \in {"lock", "rlock"} :
          pc[t] = "idle" /\ pc' = [pc EXCEPT ![t] = q]
    BY <1>2, Zenon DEF LockCall, ReadLockCall, Goto
  <2>2. /\ absMode' = [absMode EXCEPT ![t] = ModeOf(q)]
        /\ ModeOf(q) \in {"wantWrite", "wantRead"}
        /\ absMode[t] = "out"
    BY <1>0, <2>1, ModeAfterMove, Zenon DEF PCs, ModeOf, absMode
  <2> QED BY <2>2, Zenon DEF Abstract!Next, Abstract!Ask, absMode
<1>3. CASE LockAcquire(t) \/ TryLock(t)
  <2>1. /\ pc[t] \in {"lock", "idle"} /\ pc' = [pc EXCEPT ![t] = "locked"]
        /\ ~Locked
    BY <1>3, Zenon DEF LockAcquire, TryLock, Goto
  <2>2. /\ absMode' = [absMode EXCEPT ![t] = "write"]
        /\ absMode[t] \in {"out", "wantWrite"}
    BY <1>0, <2>1, ModeAfterMove, Zenon DEF PCs, ModeOf, absMode
  <2>3. \A u \in Threads : absMode[u] \notin {"write", "read"}
    BY <1>0, <2>1, FreeMeansUnheld, Zenon DEF ModeOf, absMode
  <2> QED BY <2>2, <2>3, Zenon DEF Abstract!Next, Abstract!GrantWrite, absMode
<1>4. CASE ReadLockAcquire(t)
  <2>1. /\ pc[t] = "rlock" /\ pc' = [pc EXCEPT ![t] = "rlocked"]
        /\ ~writerLock
    BY <1>4, Zenon DEF ReadLockAcquire, Goto
  <2>2. /\ absMode' = [absMode EXCEPT ![t] = "read"]
        /\ absMode[t] = "wantRead"
    BY <1>0, <2>1, ModeAfterMove, Zenon DEF PCs, ModeOf, absMode
  <2>3. \A u \in Threads : absMode[u] # "write"
    BY <1>0, <2>1, FreeMeansUnheld, Zenon DEF ModeOf, absMode
  <2> QED BY <2>2, <2>3, Zenon DEF Abstract!Next, Abstract!GrantRead, absMode
<1>5. CASE \/ UnlockWakeWriter(t) \/ UnlockWakeReaders(t) \/ UnlockQuiet(t)
           \/ ReadUnlockWake(t) \/ ReadUnlockQuiet(t)
  <2>1. PICK q \in {"post", "rpost", "idle"} :
          pc[t] \in {"locked", "rlocked"} /\ pc' = [pc EXCEPT ![t] = q]
    BY <1>5, Zenon
       DEF UnlockWakeWriter, UnlockWakeReaders, UnlockQuiet, ReadUnlockWake,
           ReadUnlockQuiet, Goto
  <2>2. /\ absMode' = [absMode EXCEPT ![t] = "out"]
        /\ absMode[t] \in {"write", "read"}
    BY <1>0, <2>1, ModeAfterMove, Zenon DEF PCs, ModeOf, absMode
  <2> QED BY <2>2, Zenon DEF Abstract!Next, Abstract!Release, absMode
<1> QED BY <1>1, <1>2, <1>3, <1>4, <1>5, Zenon DEF Call, Progress, Interrupted, Inside

(* The mutex implements the reader-writer lock.                            *)
THEOREM Refinement == Spec => ImplementsRWLock
<1>1. Init => Abstract!Init
  BY Zenon DEF Init, Abstract!Init, ModeOf
<1>2. IInv /\ [Next]_vars => [Abstract!Next]_absMode
  <2> SUFFICES ASSUME IInv, [Next]_vars PROVE Abstract!Next \/ absMode' = absMode
    BY Zenon
  <2>1. CASE Next
    BY <2>1, StepSimulates, Zenon DEF Next
  <2>2. CASE UNCHANGED vars
    BY <2>2, Zenon DEF vars, absMode
  <2> QED BY <2>1, <2>2, Zenon
<1> QED BY Invariance, <1>1, <1>2, PTL
           DEF Spec, ImplementsRWLock, Abstract!Spec, absMode

-----------------------------------------------------------------------------
(* The semaphores *)

(* Everybody blocked on writers_ is counted, sleeps only inside Wait, and  *)
(* is asleep only if the awake waiters and the wake-ups to come are enough *)
(* for the tokens.                                                         *)
Blocked == At({"block"})
Up == Blocked \ wsleep
Notifiers == At({"notify"})

NBlocked == Cardinality(Blocked)
NUp == Cardinality(Up)
NNotifiers == Cardinality(Notifiers)

WriterTokens ==
  /\ wsleep \subseteq Blocked
  /\ NBlocked = waitingWriters + NPosts + wsem
  /\ wsleep # {} => wsem <= NUp + NNotifiers

(* The same for readers_, whose Post adds several tokens at once.          *)
ReadBlocked == At({"rblock"})
ReadUp == ReadBlocked \ rsleep

NReadBlocked == Cardinality(ReadBlocked)
NReadUp == Cardinality(ReadUp)
NPending == Cardinality(Units(At({"rpost"}), wake))
NAnnounced == Cardinality(Units(At({"rnotify"}), wake))

ReaderTokens ==
  /\ rsleep \subseteq ReadBlocked
  /\ NReadBlocked = waitingReaders + NPending + rsem
  /\ rsleep # {} => rsem <= NReadUp + NAnnounced

(* Only t moves.                                                           *)
OnlyMoves(t) == \A u \in Threads \ {t} : pc'[u] = pc[u] /\ wake'[u] = wake[u]

(* What a move of t, in or out of the sleepers too, does to the numbers    *)
(* that are counted for writers_.                                          *)
LEMMA WriterEffect ==
  ASSUME NEW t \in Threads, OnlyMoves(t), wsleep' \ {t} = wsleep \ {t}
  PROVE  /\ NBlocked \in Nat /\ NUp \in Nat /\ NNotifiers \in Nat /\ NPosts \in Nat
         /\ NBlocked' = NBlocked + Bit(pc'[t] = "block") - Bit(pc[t] = "block")
         /\ NPosts' = NPosts + Bit(pc'[t] = "post") - Bit(pc[t] = "post")
         /\ NNotifiers' = NNotifiers + Bit(pc'[t] = "notify") - Bit(pc[t] = "notify")
         /\ NUp' = NUp + Bit(pc'[t] = "block" /\ t \notin wsleep')
                       - Bit(pc[t] = "block" /\ t \notin wsleep)
<1>1. /\ IsFiniteSet(Blocked) /\ IsFiniteSet(Up)
      /\ IsFiniteSet(Notifiers) /\ IsFiniteSet(Posters)
  BY ThreadsAssumption, FS_Subset, Zenon DEF Blocked, Up, Notifiers, Posters, At
<1>2. /\ Blocked' \ {t} = Blocked \ {t} /\ Posters' \ {t} = Posters \ {t}
      /\ Notifiers' \ {t} = Notifiers \ {t}
  BY Zenon DEF OnlyMoves, Blocked, Posters, Notifiers, At
<1>3. Up' \ {t} = Up \ {t}
  BY <1>2, Zenon DEF Up
<1>4. /\ NBlocked \in Nat
      /\ NBlocked' = NBlocked + (IF t \in Blocked' THEN 1 ELSE 0)
                              - (IF t \in Blocked THEN 1 ELSE 0)
  BY <1>1, <1>2, CardinalityStep, Zenon DEF NBlocked
<1>5. /\ NPosts \in Nat
      /\ NPosts' = NPosts + (IF t \in Posters' THEN 1 ELSE 0)
                          - (IF t \in Posters THEN 1 ELSE 0)
  BY <1>1, <1>2, CardinalityStep, Zenon DEF NPosts
<1>6. /\ NNotifiers \in Nat
      /\ NNotifiers' = NNotifiers + (IF t \in Notifiers' THEN 1 ELSE 0)
                                  - (IF t \in Notifiers THEN 1 ELSE 0)
  BY <1>1, <1>2, CardinalityStep, Zenon DEF NNotifiers
<1>7. /\ NUp \in Nat
      /\ NUp' = NUp + (IF t \in Up' THEN 1 ELSE 0) - (IF t \in Up THEN 1 ELSE 0)
  BY <1>1, <1>3, CardinalityStep, Zenon DEF NUp
<1>8. /\ (t \in Blocked <=> pc[t] = "block") /\ (t \in Blocked' <=> pc'[t] = "block")
      /\ (t \in Posters <=> pc[t] = "post") /\ (t \in Posters' <=> pc'[t] = "post")
      /\ (t \in Notifiers <=> pc[t] = "notify")
      /\ (t \in Notifiers' <=> pc'[t] = "notify")
  BY Zenon DEF Blocked, Posters, Notifiers, At
<1>9. /\ (t \in Up <=> pc[t] = "block" /\ t \notin wsleep)
      /\ (t \in Up' <=> pc'[t] = "block" /\ t \notin wsleep')
  BY <1>8, Zenon DEF Up
<1> QED BY <1>4, <1>5, <1>6, <1>7, <1>8, <1>9, Zenon DEF Bit

(* The semaphores count their sleepers as the mutex does.                  *)
LEMMA SameCardinality ==
  ASSUME NEW S
  PROVE  writers_!Cardinality(S) = Cardinality(S) /\ readers_!Cardinality(S) = Cardinality(S)
BY Zenon DEF Cardinality, writers_!Cardinality, readers_!Cardinality

(* Sleepers that are woken join the waiters that are awake.                *)
LEMMA WokenJoin ==
  ASSUME NEW S \in SUBSET Threads, NEW sleepers \in SUBSET S, NEW woken \in SUBSET sleepers
  PROVE  /\ Cardinality(S \ (sleepers \ woken))
              = Cardinality(S \ sleepers) + Cardinality(woken)
         /\ Cardinality(S \ sleepers) \in Nat /\ Cardinality(woken) \in Nat
<1> DEFINE rest == S \ sleepers
           up == S \ (sleepers \ woken)
<1>1. IsFiniteSet(rest) /\ IsFiniteSet(woken)
  BY ThreadsAssumption, FS_Subset, Zenon
<1>2. up = rest \cup woken /\ rest \cap woken = {}
  BY Zenon
<1> HIDE DEF rest, up
<1>3. Cardinality(rest \cap woken) = 0
  BY <1>2, FS_EmptySet, Zenon
<1>4. Cardinality(rest) \in Nat /\ Cardinality(woken) \in Nat
  BY <1>1, FS_CardinalityType, Zenon
<1>5. Cardinality(up) = Cardinality(rest) + Cardinality(woken) - Cardinality(rest \cap woken)
  BY <1>1, <1>2, FS_Union, Zenon
<1>6. Cardinality(up) = Cardinality(rest) + Cardinality(woken)
  BY <1>3, <1>4, <1>5
<1> QED BY <1>4, <1>6, Zenon DEF rest, up

(* A step that leaves the writers' side alone.                             *)
LEMMA WriterQuiet ==
  ASSUME WriterTokens, NEW t \in Threads, OnlyMoves(t),
         UNCHANGED <<waitingWriters, wsem, wsleep>>,
         pc'[t] \in {"block", "post", "notify"} \/ pc[t] \in {"block", "post", "notify"}
           => pc'[t] = pc[t]
  PROVE  WriterTokens'
<1>1. \A u \in Threads : \A l \in {"block", "post", "notify"} : pc'[u] = l <=> pc[u] = l
  BY Zenon DEF OnlyMoves
<1>2. Blocked' = Blocked /\ Posters' = Posters /\ Notifiers' = Notifiers
  BY <1>1, Zenon DEF Blocked, Posters, Notifiers, At
<1> QED BY <1>2, Zenon DEF WriterTokens, NBlocked, NPosts, NNotifiers, NUp, Up

(* The steps of Wait and Post of writers_, and of the compare-and-swaps    *)
(* that hand waiters over to them.                                         *)
WriterWaits(t) ==
  \/ LockBlock(t) \/ LockSleep(t) \/ LockInterrupted(t) \/ LockUnblock(t)
  \/ UnlockWakeWriter(t) \/ ReadUnlockWake(t) \/ PostAdd(t) \/ PostWake(t)

(* They keep the count: each takes a waiter, or a token, from one place to *)
(* another.                                                                *)
LEMMA WriterWaitsKeep ==
  ASSUME TypeOK, WriterTokens, NEW t \in Threads, WriterWaits(t)
  PROVE  WriterTokens'
<1> USE DEF Goto, locals, sems, word
<1>0. waitingWriters \in Nat /\ wsem \in Nat /\ pc \in [Threads -> PCs]
  BY Zenon DEF TypeOK, writers_!TypeOK
<1>1. CASE LockBlock(t)
  <2>1. /\ OnlyMoves(t) /\ wsleep' = wsleep /\ wsem' = wsem
        /\ waitingWriters' = waitingWriters + 1 /\ pc[t] = "lock" /\ pc'[t] = "block"
    BY <1>0, <1>1, Zenon DEF LockBlock, OnlyMoves
  <2>2. wsleep' \subseteq Blocked' /\ t \notin wsleep
    BY <2>1, Zenon DEF WriterTokens, Blocked, At, OnlyMoves
  <2> QED BY <1>0, <2>1, <2>2, WriterEffect DEF WriterTokens, Bit
<1>2. CASE LockSleep(t)
  <2>1. /\ OnlyMoves(t) /\ wsleep' = wsleep \cup {t} /\ wsem' = wsem /\ wsem = 0
        /\ waitingWriters' = waitingWriters /\ pc'[t] = pc[t] /\ pc[t] = "block"
    BY <1>2, Zenon DEF LockSleep, writers_!WaitSleep, OnlyMoves
  <2>2. wsleep' \subseteq Blocked'
    BY <2>1, Zenon DEF WriterTokens, Blocked, At, OnlyMoves
  <2>3. wsleep' \ {t} = wsleep \ {t}
    BY <2>1, Zenon
  <2>4. /\ NBlocked' = NBlocked /\ NPosts' = NPosts
        /\ NUp' \in Nat /\ NNotifiers' \in Nat
    <3>1. Blocked' = Blocked /\ Posters' = Posters
      BY <2>1, Zenon DEF Blocked, Posters, At, OnlyMoves
    <3>2. IsFiniteSet(Up') /\ IsFiniteSet(Notifiers')
      BY ThreadsAssumption, FS_Subset, Zenon DEF Up, Notifiers, Blocked, At
    <3> QED BY <3>1, <3>2, FS_CardinalityType, Zenon DEF NBlocked, NPosts, NUp, NNotifiers
  <2>5. wsem' <= NUp' + NNotifiers'
    <3>1. \A m, n \in Nat : 0 <= m + n
      OBVIOUS
    <3>2. 0 <= NUp' + NNotifiers'
      BY <2>4, <3>1, Zenon
    <3> QED BY <2>1, <3>2, Zenon
  <2>6. NBlocked' = waitingWriters' + NPosts' + wsem'
    BY <2>1, <2>4, Zenon DEF WriterTokens
  <2> QED BY <2>2, <2>5, <2>6, Zenon DEF WriterTokens
<1>3. CASE LockInterrupted(t)
  <2>1. /\ OnlyMoves(t) /\ wsleep' = wsleep \ {t} /\ wsem' = wsem /\ t \in wsleep
        /\ waitingWriters' = waitingWriters /\ pc'[t] = pc[t]
    BY <1>3, Zenon DEF LockInterrupted, writers_!WaitInterrupted, OnlyMoves
  <2>2. wsleep' \subseteq Blocked' /\ pc[t] = "block"
    BY <2>1, Zenon DEF WriterTokens, Blocked, At, OnlyMoves
  <2>3. wsleep' \ {t} = wsleep \ {t}
    BY <2>1, Zenon
  <2> QED BY <1>0, <2>1, <2>2, <2>3, WriterEffect DEF WriterTokens, Bit
<1>4. CASE LockUnblock(t)
  <2>1. /\ OnlyMoves(t) /\ wsleep' = wsleep /\ wsem' = wsem - 1 /\ t \notin wsleep
        /\ waitingWriters' = waitingWriters /\ pc[t] = "block" /\ pc'[t] = "recheck"
    BY <1>0, <1>4, Zenon DEF LockUnblock, writers_!WaitTake, OnlyMoves
  <2>2. wsleep' \subseteq Blocked'
    BY <2>1, Zenon DEF WriterTokens, Blocked, At, OnlyMoves
  <2> QED BY <1>0, <2>1, <2>2, WriterEffect DEF WriterTokens, Bit
<1>5. CASE UnlockWakeWriter(t) \/ ReadUnlockWake(t)
  <2>1. /\ OnlyMoves(t) /\ wsleep' = wsleep /\ wsem' = wsem
        /\ waitingWriters' = waitingWriters - 1
        /\ pc[t] \in {"locked", "rlocked"} /\ pc'[t] = "post"
    BY <1>0, <1>5, Zenon DEF UnlockWakeWriter, ReadUnlockWake, OnlyMoves
  <2>2. wsleep' \subseteq Blocked'
    BY <2>1, Zenon DEF WriterTokens, Blocked, At, OnlyMoves
  <2> QED BY <1>0, <2>1, <2>2, WriterEffect, SMTT(60) DEF WriterTokens, Bit
<1>6. CASE PostAdd(t)
  <2>1. /\ OnlyMoves(t) /\ wsleep' = wsleep /\ wsem' = wsem + 1
        /\ waitingWriters' = waitingWriters /\ pc[t] = "post" /\ pc'[t] = "notify"
    BY <1>0, <1>6, Zenon DEF PostAdd, writers_!PostAdd, OnlyMoves
  <2>2. wsleep' \subseteq Blocked'
    BY <2>1, Zenon DEF WriterTokens, Blocked, At, OnlyMoves
  <2> QED BY <1>0, <2>1, <2>2, WriterEffect DEF WriterTokens, Bit
<1>7. CASE PostWake(t)
  <2>1. PICK woken \in SUBSET wsleep :
          /\ \/ Cardinality(woken) = 1
             \/ Cardinality(woken) < 1 /\ woken = wsleep
          /\ wsleep' = wsleep \ woken
    <3>1. writers_!PostWake(1)
      BY <1>7, Zenon DEF PostWake
    <3> QED BY <3>1, SameCardinality, Zenon DEF writers_!PostWake
  <2>2. /\ wsem' = wsem /\ waitingWriters' = waitingWriters
        /\ pc[t] = "notify" /\ pc'[t] = "idle" /\ \A u \in Threads \ {t} : pc'[u] = pc[u]
    BY <1>0, <1>7, Zenon DEF PostWake, writers_!PostWake
  <2>3. Blocked' = Blocked /\ Posters' = Posters
    BY <2>2, Zenon DEF Blocked, Posters, At
  <2>4. NUp' = NUp + Cardinality(woken)
    <3>1. Blocked \in SUBSET Threads /\ wsleep \in SUBSET Blocked
      BY Zenon DEF WriterTokens, Blocked, At
    <3>2. Up' = Blocked \ (wsleep \ woken)
      BY <2>1, <2>3, Zenon DEF Up
    <3>3. Cardinality(Blocked \ (wsleep \ woken))
            = Cardinality(Blocked \ wsleep) + Cardinality(woken)
      BY <3>1, WokenJoin, ZenonT(60)
    <3> QED BY <3>2, <3>3, Zenon DEF NUp, Up
  <2>5. NNotifiers' = NNotifiers - 1 /\ NNotifiers \in Nat /\ NUp \in Nat
    <3>1. Notifiers' \ {t} = Notifiers \ {t} /\ t \in Notifiers /\ t \notin Notifiers'
      BY <2>2, Zenon DEF Notifiers, At
    <3>2. IsFiniteSet(Notifiers) /\ IsFiniteSet(Up)
      BY ThreadsAssumption, FS_Subset, Zenon DEF Notifiers, Up, Blocked, At
    <3> QED BY <3>1, <3>2, CardinalityStep, FS_CardinalityType DEF NNotifiers, NUp
  <2>6. wsleep' # {} => wsleep # {} /\ Cardinality(woken) = 1
    BY <2>1, Zenon
  <2> QED BY <1>0, <2>1, <2>2, <2>3, <2>4, <2>5, <2>6, SMTT(60) DEF WriterTokens, NBlocked, NPosts
<1> QED BY <1>1, <1>2, <1>3, <1>4, <1>5, <1>6, <1>7, Zenon DEF WriterWaits

(* What a move of t does to the sums over the threads that post.           *)
LEMMA UnitsEffect ==
  ASSUME TypeOK, TypeOK', NEW t \in Threads, OnlyMoves(t)
  PROVE  /\ NPending \in Nat /\ NAnnounced \in Nat /\ NPending' \in Nat /\ NAnnounced' \in Nat
         /\ NPending' = NPending + (IF pc'[t] = "rpost" THEN wake'[t] ELSE 0)
                                 - (IF pc[t] = "rpost" THEN wake[t] ELSE 0)
         /\ NAnnounced' = NAnnounced + (IF pc'[t] = "rnotify" THEN wake'[t] ELSE 0)
                                     - (IF pc[t] = "rnotify" THEN wake[t] ELSE 0)
<1> DEFINE posting == At({"rpost"})
           notifying == At({"rnotify"})
<1>1. IsFiniteSet(posting) /\ IsFiniteSet(notifying)
  BY ThreadsAssumption, FS_Subset, Zenon DEF At
<1>2. posting' \ {t} = posting \ {t} /\ notifying' \ {t} = notifying \ {t}
  BY Zenon DEF OnlyMoves, At
<1>3. /\ \A u \in posting \cup notifying : wake[u] \in Nat
      /\ \A u \in posting' \cup notifying' : wake'[u] \in Nat
      /\ \A u \in (posting \cup notifying) \ {t} : wake'[u] = wake[u]
  BY Zenon DEF TypeOK, At, OnlyMoves
<1>4. /\ (t \in posting <=> pc[t] = "rpost") /\ (t \in posting' <=> pc'[t] = "rpost")
      /\ (t \in notifying <=> pc[t] = "rnotify")
      /\ (t \in notifying' <=> pc'[t] = "rnotify")
  BY Zenon DEF At
<1> HIDE DEF posting, notifying
<1>5. /\ NPending \in Nat /\ NPending' \in Nat
      /\ NPending' = NPending + (IF t \in posting' THEN wake'[t] ELSE 0)
                              - (IF t \in posting THEN wake[t] ELSE 0)
  <2>1. /\ NPending = Cardinality(Units(posting, wake))
        /\ NPending' = Cardinality(Units(posting', wake'))
    BY Zenon DEF NPending, posting
  <2> QED BY <1>1, <1>2, <1>3, <2>1, UnitsStep, SMTT(60)
<1>6. /\ NAnnounced \in Nat /\ NAnnounced' \in Nat
      /\ NAnnounced' = NAnnounced + (IF t \in notifying' THEN wake'[t] ELSE 0)
                                  - (IF t \in notifying THEN wake[t] ELSE 0)
  <2>1. /\ NAnnounced = Cardinality(Units(notifying, wake))
        /\ NAnnounced' = Cardinality(Units(notifying', wake'))
    BY Zenon DEF NAnnounced, notifying
  <2> QED BY <1>1, <1>2, <1>3, <2>1, UnitsStep, SMTT(60)
<1> QED BY <1>4, <1>5, <1>6, Zenon

(* What it does to the numbers of readers that are blocked, and awake.     *)
LEMMA ReaderEffect ==
  ASSUME NEW t \in Threads, OnlyMoves(t), rsleep' \ {t} = rsleep \ {t}
  PROVE  /\ NReadBlocked \in Nat /\ NReadUp \in Nat
         /\ NReadBlocked' = NReadBlocked + Bit(pc'[t] = "rblock") - Bit(pc[t] = "rblock")
         /\ NReadUp' = NReadUp + Bit(pc'[t] = "rblock" /\ t \notin rsleep')
                               - Bit(pc[t] = "rblock" /\ t \notin rsleep)
<1>1. IsFiniteSet(ReadBlocked) /\ IsFiniteSet(ReadUp)
  BY ThreadsAssumption, FS_Subset, Zenon DEF ReadBlocked, ReadUp, At
<1>2. ReadBlocked' \ {t} = ReadBlocked \ {t}
  BY Zenon DEF OnlyMoves, ReadBlocked, At
<1>3. ReadUp' \ {t} = ReadUp \ {t}
  BY <1>2, Zenon DEF ReadUp
<1>4. /\ NReadBlocked \in Nat
      /\ NReadBlocked' = NReadBlocked + (IF t \in ReadBlocked' THEN 1 ELSE 0)
                                      - (IF t \in ReadBlocked THEN 1 ELSE 0)
  BY <1>1, <1>2, CardinalityStep, Zenon DEF NReadBlocked
<1>5. /\ NReadUp \in Nat
      /\ NReadUp' = NReadUp + (IF t \in ReadUp' THEN 1 ELSE 0)
                            - (IF t \in ReadUp THEN 1 ELSE 0)
  BY <1>1, <1>3, CardinalityStep, Zenon DEF NReadUp
<1>6. /\ (t \in ReadBlocked <=> pc[t] = "rblock")
      /\ (t \in ReadBlocked' <=> pc'[t] = "rblock")
  BY Zenon DEF At, ReadBlocked
<1>7. /\ (t \in ReadUp <=> pc[t] = "rblock" /\ t \notin rsleep)
      /\ (t \in ReadUp' <=> pc'[t] = "rblock" /\ t \notin rsleep')
  BY <1>6, Zenon DEF ReadUp
<1> QED BY <1>4, <1>5, <1>6, <1>7, Zenon DEF Bit

(* A step that leaves the readers' side alone.                             *)
LEMMA ReaderQuiet ==
  ASSUME ReaderTokens, NEW t \in Threads, OnlyMoves(t),
         UNCHANGED <<waitingReaders, rsem, rsleep, wake>>,
         pc'[t] \in {"rblock", "rpost", "rnotify"} \/ pc[t] \in {"rblock", "rpost", "rnotify"}
           => pc'[t] = pc[t]
  PROVE  ReaderTokens'
<1>1. \A u \in Threads : \A l \in {"rblock", "rpost", "rnotify"} : pc'[u] = l <=> pc[u] = l
  BY Zenon DEF OnlyMoves
<1>2. /\ ReadBlocked' = ReadBlocked
      /\ At({"rpost"})' = At({"rpost"}) /\ At({"rnotify"})' = At({"rnotify"})
  BY <1>1, Zenon DEF ReadBlocked, At
<1>3. NPending' = NPending /\ NAnnounced' = NAnnounced
  BY <1>2, SMTT(60) DEF NPending, NAnnounced, Units
<1> QED BY <1>2, <1>3, Zenon DEF ReaderTokens, NReadBlocked, NReadUp, ReadUp

(* The steps of Wait and Post of readers_, and of the compare-and-swaps    *)
(* that hand waiters over to them.                                         *)
ReaderWaits(t) ==
  \/ ReadLockBlock(t) \/ ReadLockSleep(t) \/ ReadLockInterrupted(t) \/ ReadLockUnblock(t)
  \/ UnlockWakeReaders(t) \/ ReadersPostAdd(t) \/ ReadersPostWake(t)

(* They keep the count, as those of writers_ do.                           *)
LEMMA ReaderWaitsKeep ==
  ASSUME TypeOK, TypeOK', ReaderTokens, NEW t \in Threads, ReaderWaits(t)
  PROVE  ReaderTokens'
<1> USE DEF Goto, locals, sems, word
<1>0. /\ waitingReaders \in Nat /\ rsem \in Nat /\ rsem' \in Nat
      /\ pc \in [Threads -> PCs] /\ wake \in [Threads -> Nat]
  BY Zenon DEF TypeOK, readers_!TypeOK
<1>1. CASE ReadLockBlock(t)
  <2>1. /\ OnlyMoves(t) /\ rsleep' = rsleep /\ rsem' = rsem
        /\ waitingReaders' = waitingReaders + 1 /\ pc[t] = "rlock" /\ pc'[t] = "rblock"
    BY <1>0, <1>1, Zenon DEF ReadLockBlock, OnlyMoves
  <2>2. rsleep' \subseteq ReadBlocked' /\ t \notin rsleep
    BY <2>1, Zenon DEF ReaderTokens, ReadBlocked, At, OnlyMoves
  <2> QED BY <1>0, <2>1, <2>2, ReaderEffect, UnitsEffect, SMTT(60) DEF ReaderTokens, Bit
<1>2. CASE ReadLockSleep(t)
  <2>1. /\ OnlyMoves(t) /\ rsleep' = rsleep \cup {t} /\ rsem' = rsem /\ rsem = 0
        /\ waitingReaders' = waitingReaders /\ pc'[t] = pc[t] /\ pc[t] = "rblock"
    BY <1>2, Zenon DEF ReadLockSleep, readers_!WaitSleep, OnlyMoves
  <2>2. rsleep' \subseteq ReadBlocked' /\ rsleep' \ {t} = rsleep \ {t}
    BY <2>1, Zenon DEF ReaderTokens, ReadBlocked, At, OnlyMoves
  <2>3. /\ NReadBlocked' = NReadBlocked /\ NPending' = NPending
        /\ NReadUp' \in Nat /\ NAnnounced' \in Nat
    <3>1. NReadBlocked' = NReadBlocked /\ NPending' = NPending /\ NAnnounced' \in Nat
      BY <2>1, <2>2, ReaderEffect, UnitsEffect DEF Bit
    <3>2. IsFiniteSet(ReadUp')
      BY ThreadsAssumption, FS_Subset, Zenon DEF ReadUp, ReadBlocked, At
    <3> QED BY <3>1, <3>2, FS_CardinalityType, Zenon DEF NReadUp
  <2>4. rsem' <= NReadUp' + NAnnounced'
    <3>1. \A m, n \in Nat : 0 <= m + n
      OBVIOUS
    <3>2. 0 <= NReadUp' + NAnnounced'
      BY <2>3, <3>1, Zenon
    <3> QED BY <2>1, <3>2, Zenon
  <2>5. NReadBlocked' = waitingReaders' + NPending' + rsem'
    BY <2>1, <2>3, Zenon DEF ReaderTokens
  <2> QED BY <2>2, <2>4, <2>5, Zenon DEF ReaderTokens
<1>3. CASE ReadLockInterrupted(t)
  <2>1. /\ OnlyMoves(t) /\ rsleep' = rsleep \ {t} /\ rsem' = rsem /\ t \in rsleep
        /\ waitingReaders' = waitingReaders /\ pc'[t] = pc[t]
    BY <1>3, Zenon DEF ReadLockInterrupted, readers_!WaitInterrupted, OnlyMoves
  <2>2. rsleep' \subseteq ReadBlocked' /\ pc[t] = "rblock"
    BY <2>1, Zenon DEF ReaderTokens, ReadBlocked, At, OnlyMoves
  <2>3. rsleep' \ {t} = rsleep \ {t} /\ wake'[t] = wake[t]
    BY <1>3, <2>1, Zenon DEF ReadLockInterrupted
  <2> QED BY <1>0, <2>1, <2>2, <2>3, ReaderEffect, UnitsEffect, SMTT(60) DEF ReaderTokens, Bit
<1>4. CASE ReadLockUnblock(t)
  <2>1. /\ OnlyMoves(t) /\ rsleep' = rsleep /\ rsem' = rsem - 1 /\ t \notin rsleep
        /\ waitingReaders' = waitingReaders /\ pc[t] = "rblock" /\ pc'[t] = "rrecheck"
    BY <1>0, <1>4, Zenon DEF ReadLockUnblock, readers_!WaitTake, OnlyMoves
  <2>2. rsleep' \subseteq ReadBlocked'
    BY <2>1, Zenon DEF ReaderTokens, ReadBlocked, At, OnlyMoves
  <2> QED BY <1>0, <2>1, <2>2, ReaderEffect, UnitsEffect DEF ReaderTokens, Bit
<1>5. CASE UnlockWakeReaders(t)
  <2>1. /\ OnlyMoves(t) /\ rsleep' = rsleep /\ rsem' = rsem
        /\ waitingReaders' = 0 /\ wake'[t] = waitingReaders
        /\ pc[t] = "locked" /\ pc'[t] = "rpost"
    BY <1>0, <1>5, Zenon DEF UnlockWakeReaders, OnlyMoves
  <2>2. rsleep' \subseteq ReadBlocked'
    BY <2>1, Zenon DEF ReaderTokens, ReadBlocked, At, OnlyMoves
  <2> QED BY <1>0, <2>1, <2>2, ReaderEffect, UnitsEffect DEF ReaderTokens, Bit
<1>6. CASE ReadersPostAdd(t)
  <2>1. /\ OnlyMoves(t) /\ rsleep' = rsleep /\ rsem' = rsem + wake[t]
        /\ waitingReaders' = waitingReaders /\ wake'[t] = wake[t] /\ wake[t] \in Nat
        /\ pc[t] = "rpost" /\ pc'[t] = "rnotify"
    BY <1>0, <1>6, Zenon DEF ReadersPostAdd, readers_!PostAdd, OnlyMoves
  <2>2. rsleep' \subseteq ReadBlocked'
    BY <2>1, Zenon DEF ReaderTokens, ReadBlocked, At, OnlyMoves
  <2> QED BY <1>0, <2>1, <2>2, ReaderEffect, UnitsEffect, SMTT(60) DEF ReaderTokens, Bit
<1>7. CASE ReadersPostWake(t)
  <2>1. PICK woken \in SUBSET rsleep :
          /\ \/ Cardinality(woken) = wake[t]
             \/ Cardinality(woken) < wake[t] /\ woken = rsleep
          /\ rsleep' = rsleep \ woken
    <3>1. readers_!PostWake(wake[t])
      BY <1>7, Zenon DEF ReadersPostWake
    <3> QED BY <3>1, SameCardinality, Zenon DEF readers_!PostWake
  <2>2. /\ rsem' = rsem /\ waitingReaders' = waitingReaders
        /\ pc[t] = "rnotify" /\ pc'[t] = "idle" /\ OnlyMoves(t)
    BY <1>0, <1>7, Zenon DEF ReadersPostWake, readers_!PostWake, OnlyMoves
  <2>3. ReadBlocked' = ReadBlocked
    BY <2>2, Zenon DEF ReadBlocked, At, OnlyMoves
  <2>4. NReadUp' = NReadUp + Cardinality(woken) /\ NReadUp \in Nat
    <3>1. ReadBlocked \in SUBSET Threads /\ rsleep \in SUBSET ReadBlocked
      BY Zenon DEF ReaderTokens, ReadBlocked, At
    <3>2. ReadUp' = ReadBlocked \ (rsleep \ woken)
      BY <2>1, <2>3, Zenon DEF ReadUp
    <3>3. /\ Cardinality(ReadBlocked \ (rsleep \ woken))
               = Cardinality(ReadBlocked \ rsleep) + Cardinality(woken)
          /\ Cardinality(ReadBlocked \ rsleep) \in Nat
      BY <3>1, WokenJoin, ZenonT(60)
    <3> QED BY <3>2, <3>3, Zenon DEF NReadUp, ReadUp
  <2>5. /\ NPending' = NPending /\ NAnnounced' = NAnnounced - wake[t]
        /\ NAnnounced \in Nat /\ wake[t] \in Nat
    BY <1>0, <2>2, UnitsEffect
  <2>6. rsleep' # {} => rsleep # {} /\ Cardinality(woken) = wake[t]
    BY <2>1, Zenon
  <2> QED BY <1>0, <2>1, <2>2, <2>3, <2>4, <2>5, <2>6, SMTT(60) DEF ReaderTokens, NReadBlocked
<1> QED BY <1>1, <1>2, <1>3, <1>4, <1>5, <1>6, <1>7, Zenon DEF ReaderWaits

(* The steps that touch neither semaphore nor the counters of waiters.     *)
Elsewhere(t) ==
  \/ LockCall(t) \/ LockAcquire(t) \/ LockAnnounce(t) \/ LockSpin(t) \/ LockRecheck(t)
  \/ TryLock(t) \/ UnlockQuiet(t)
  \/ ReadLockCall(t) \/ ReadLockAcquire(t) \/ ReadLockAnnounce(t) \/ ReadLockSpin(t)
  \/ ReadLockRecheck(t) \/ ReadUnlockQuiet(t)

(* Every step keeps both counts.                                           *)
LEMMA TokensKept ==
  ASSUME TypeOK, TypeOK', WriterTokens, ReaderTokens, NEW t \in Threads,
         Call(t) \/ Progress(t) \/ Interrupted(t)
  PROVE  WriterTokens' /\ ReaderTokens'
<1>0. pc \in [Threads -> PCs] /\ wake \in [Threads -> Nat]
  BY Zenon DEF TypeOK
<1>1. CASE WriterWaits(t)
  <2>1. OnlyMoves(t) /\ UNCHANGED <<waitingReaders, rsem, rsleep, wake>>
    BY <1>0, <1>1, Zenon
       DEF WriterWaits, OnlyMoves, Goto, locals, sems, word, LockBlock, LockSleep,
           LockInterrupted, LockUnblock, UnlockWakeWriter, ReadUnlockWake, PostAdd, PostWake
  <2>2. /\ pc'[t] \notin {"rblock", "rpost", "rnotify"} \/ pc'[t] = pc[t]
        /\ pc[t] \notin {"rblock", "rpost", "rnotify"} \/ pc'[t] = pc[t]
    BY <1>0, <1>1, Zenon
       DEF WriterWaits, Goto, LockBlock, LockSleep, LockInterrupted, LockUnblock,
           UnlockWakeWriter, ReadUnlockWake, PostAdd, PostWake
  <2>3. ReaderTokens'
    BY <2>1, <2>2, ReaderQuiet, Zenon
  <2> QED BY <1>1, <2>3, WriterWaitsKeep, Zenon
<1>2. CASE ReaderWaits(t)
  <2>1. OnlyMoves(t) /\ UNCHANGED <<waitingWriters, wsem, wsleep>>
    BY <1>0, <1>2, Zenon
       DEF ReaderWaits, OnlyMoves, Goto, locals, sems, word, ReadLockBlock, ReadLockSleep,
           ReadLockInterrupted, ReadLockUnblock, UnlockWakeReaders, ReadersPostAdd,
           ReadersPostWake
  <2>2. /\ pc'[t] \notin {"block", "post", "notify"} \/ pc'[t] = pc[t]
        /\ pc[t] \notin {"block", "post", "notify"} \/ pc'[t] = pc[t]
    BY <1>0, <1>2, Zenon
       DEF ReaderWaits, Goto, ReadLockBlock, ReadLockSleep, ReadLockInterrupted,
           ReadLockUnblock, UnlockWakeReaders, ReadersPostAdd, ReadersPostWake
  <2>3. WriterTokens'
    BY <2>1, <2>2, WriterQuiet, Zenon
  <2> QED BY <1>2, <2>3, ReaderWaitsKeep, Zenon
<1>3. CASE Elsewhere(t)
  <2> USE DEF Elsewhere, Goto, LockCall, LockAcquire, LockAnnounce, LockSpin, LockRecheck,
              TryLock, UnlockQuiet, ReadLockCall, ReadLockAcquire, ReadLockAnnounce,
              ReadLockSpin, ReadLockRecheck, ReadUnlockQuiet
  <2>1. OnlyMoves(t) /\ UNCHANGED <<waitingWriters, wsem, wsleep>>
    BY <1>0, <1>3, Zenon DEF OnlyMoves, locals, sems, word
  <2>2. UNCHANGED <<waitingReaders, rsem, rsleep, wake>>
    BY <1>3, Zenon DEF locals, sems, word
  <2>3. pc'[t] \in {"idle", "lock", "recheck", "locked", "rlock", "rrecheck", "rlocked"}
    BY <1>0, <1>3, Zenon
  <2>4. pc[t] \in {"idle", "lock", "recheck", "locked", "rlock", "rrecheck", "rlocked"}
    BY <1>3, Zenon
  <2> QED BY <2>1, <2>2, <2>3, <2>4, WriterQuiet, ReaderQuiet, Zenon
<1> QED BY <1>1, <1>2, <1>3, Zenon
           DEF Call, Progress, Interrupted, WriterWaits, ReaderWaits, Elsewhere

(* The waiters and the tokens of both semaphores match, always.            *)
THEOREM TokensInvariance == Spec => [](WriterTokens /\ ReaderTokens)
<1>1. Init => WriterTokens /\ ReaderTokens
  <2> SUFFICES ASSUME Init PROVE WriterTokens /\ ReaderTokens
    BY Zenon
  <2>1. /\ Blocked = {} /\ Posters = {} /\ ReadBlocked = {}
        /\ Units(At({"rpost"}), wake) = {}
    BY Zenon DEF Init, Blocked, Posters, ReadBlocked, At, Units
  <2>2. NBlocked = 0 /\ NPosts = 0 /\ NReadBlocked = 0 /\ NPending = 0
    BY <2>1, FS_EmptySet, Zenon DEF NBlocked, NPosts, NReadBlocked, NPending
  <2>3. /\ waitingWriters = 0 /\ waitingReaders = 0 /\ wsem = 0 /\ rsem = 0
        /\ wsleep = {} /\ rsleep = {}
    BY Zenon DEF Init, writers_!Init, readers_!Init
  <2> QED BY <2>2, <2>3 DEF WriterTokens, ReaderTokens
<1>2. IInv /\ IInv' /\ WriterTokens /\ ReaderTokens /\ [Next]_vars
        => WriterTokens' /\ ReaderTokens'
  <2> SUFFICES ASSUME TypeOK, TypeOK', WriterTokens, ReaderTokens, [Next]_vars
               PROVE  WriterTokens' /\ ReaderTokens'
    BY Zenon DEF IInv
  <2>1. CASE Next
    BY <2>1, TokensKept, Zenon DEF Next
  <2>2. CASE UNCHANGED vars
    <3>1. \A l : At(l)' = At(l)
      BY <2>2, Zenon DEF At, vars
    <3>2. /\ Blocked' = Blocked /\ Posters' = Posters /\ Notifiers' = Notifiers
          /\ ReadBlocked' = ReadBlocked
      BY <3>1, Zenon DEF Blocked, Posters, Notifiers, ReadBlocked
    <3>3. NPending' = NPending /\ NAnnounced' = NAnnounced
      BY <2>2, <3>1, Zenon DEF NPending, NAnnounced, Units, vars, locals
    <3> QED BY <2>2, <3>2, <3>3, Zenon
               DEF vars, word, sems, WriterTokens, ReaderTokens, NBlocked, NPosts,
                   NUp, Up, NNotifiers, NReadBlocked, NReadUp, ReadUp
  <2> QED BY <2>1, <2>2, Zenon
<1> QED BY Invariance, <1>1, <1>2, PTL DEF Spec

(* Every blocked thread is counted once, in the word or as a token that is *)
(* about to be posted or was posted: "the counter will be decremented by   *)
(* whoever wakes us", and no token is left for a later Wait.               *)
THEOREM WaitersCounted == Spec => []WaitersAccounted
<1>1. WriterTokens /\ ReaderTokens => WaitersAccounted
  BY Zenon DEF WriterTokens, ReaderTokens, WaitersAccounted, PendingReaders, Tokens, NBlocked,
         NPosts, NReadBlocked, NPending, Blocked, Posters, ReadBlocked, Units
<1> QED BY TokensInvariance, <1>1, PTL

(* Tokens never outnumber the waiters that are awake and the wake-ups that *)
(* are still to come while somebody sleeps: Wait's FutexWait misses none.  *)
THEOREM NoSleepOverTokens == Spec => []TokensReachWaiters
<1>1. WriterTokens /\ ReaderTokens => TokensReachWaiters
  BY Zenon DEF WriterTokens, ReaderTokens, TokensReachWaiters, Tokens, NUp, NNotifiers,
         NReadUp, NAnnounced, Up, Blocked, Notifiers, ReadUp, ReadBlocked, Units
<1> QED BY TokensInvariance, <1>1, PTL
=============================================================================
