------------------------------ MODULE TsanRaces ------------------------------
(***************************************************************************)
(* ThreadSanitizer's race detector: vector clocks over a fixed number of   *)
(* slots that threads attach to, lose to one another and reuse, short      *)
(* epochs that run out, the global reset that starts them over, the shadow *)
(* of one memory cell that accesses check and update without a lock, and   *)
(* the journal and trace from which a report restores the other access.    *)
(*                                                                         *)
(* An operation under a slot's mutex is one step; an access is two, for    *)
(* other threads and the reset run between its trace event and its store.  *)
(* A trace fits into one part: parts are never full, so none is recycled.  *)
(*                                                                         *)
(* `ideal' and `idealSync' are the reference: vector clocks over threads,  *)
(* of unbounded size, never reset; `edges' is the epoch of each slot at    *)
(* the last AcquireGlobal since a reset.  The model reads none of them.    *)
(***************************************************************************)
EXTENDS Naturals, Sequences, FiniteSets, FiniteSetsExt

CONSTANTS
  Threads, Main, None,
  Syncs,         \* synchronisation variables
  SyncOps,       \* operations on them: [acq: BOOLEAN, rel: {"none", "merge", "store"}]
  AccessTypes,   \* a subset of [read: BOOLEAN, atomic: BOOLEAN]
  NSlots,        \* kThreadSlotCount - 1
  kEpochLast,
  kShadowCnt,
  MaxOps,        \* bound on the operations of all threads
  MaxFlushes     \* bound on resets not caused by exhausted slots

ASSUME RacesAssumption ==
  /\ Main \in Threads /\ None \notin Threads /\ Syncs \cap Threads = {}
  /\ NSlots \in Nat \ {0} /\ kEpochLast \in Nat \ {0} /\ kShadowCnt \in Nat \ {0}

VARIABLES
  th,            \* ThreadState: at, slot, fast_state, slot_epoch, clock
  slots,         \* TidSlot: epoch, thr, journal
  slot_queue, global_epoch,
  trace,         \* Trace: position, last time event, access events
  shadow, last_spurious_race,
  sync,          \* clocks of SyncVars and of thread contexts, with sync_epoch
  ops, flushes,  \* operations and flushes so far
  ideal, idealSync, edges

reference == <<ideal, idealSync, edges>>
vars == <<th, slots, slot_queue, global_epoch, trace, shadow,
          last_spurious_race, sync, ops, flushes, ideal, idealSync, edges>>

Sids == 0 .. NSlots - 1
Zero == [s \in Sids |-> 0]
Join(c, d) == [i \in DOMAIN c |-> IF c[i] > d[i] THEN c[i] ELSE d[i]]

(* A shadow value; Empty and Rodata intersect no access.                   *)
Shadow(f, typ) == [sid |-> f.sid, epoch |-> f.epoch, typ |-> typ]
Empty == [sid |-> None, epoch |-> 0, typ |-> [read |-> FALSE, atomic |-> FALSE]]
Rodata == [Empty EXCEPT !.typ.read = TRUE]
Cells == 1 .. kShadowCnt
EmptyShadow == [i \in Cells |-> Empty]

NoTrace == [pos |-> "none", time |-> Zero, events |-> {}]
NewSlot == [epoch |-> 0, thr |-> None, journal |-> <<>>]
IdealZero == [t \in Threads |-> 0]

Init ==
  /\ th = [t \in Threads |->
             [at |-> IF t = Main THEN <<"find", <<"start">>>> ELSE <<"none">>,
              slot |-> None, fast |-> [sid |-> 0, epoch |-> 0],
              slot_epoch |-> 0, clock |-> Zero]]
  /\ slots = [s \in Sids |-> NewSlot]
  /\ slot_queue = [i \in 1 .. NSlots |-> i - 1]
  /\ global_epoch = 1
  /\ trace = [t \in Threads |-> NoTrace]
  /\ shadow = EmptyShadow
  /\ last_spurious_race = Empty
  /\ sync = [o \in Syncs \cup Threads |-> [clock |-> Zero, epoch |-> 0]]
  /\ ops = 0
  /\ flushes = 0
  /\ ideal = [t \in Threads |-> [IdealZero EXCEPT ![t] = 1]]
  /\ idealSync = [o \in Syncs \cup Threads |-> IdealZero]
  /\ edges = Zero

At(t) == th[t].at[1]
Owns(t) == th[t].slot # None /\ slots[th[t].slot].thr = t

-----------------------------------------------------------------------------
(* What an operation acquires from and releases to.                        *)

Object(t, op) == IF op[1] \in {"start", "finish"} THEN t ELSE op[2]
Acquires(op) == \/ op[1] \in {"start", "join"}
                \/ op[1] = "sync" /\ op[3].acq
Releases(op) == CASE op[1] \in {"create", "finish"} -> "store"
                  [] op[1] = "sync" -> op[3].rel
                  [] OTHER -> "none"

(* A context's clock counts only in the epoch it was released in; a        *)
(* SyncVar's clock does not outlive a reset.                               *)
Acquired(o) == IF o \in Threads /\ sync[o].epoch # global_epoch
               THEN Zero ELSE sync[o].clock

Released(rel, old, c) == CASE rel = "none" -> old
                           [] rel = "store" -> c
                           [] rel = "merge" -> Join(old, c)

(* EpochInc, not past kEpochLast.                                          *)
IncrementEpoch(me) ==
  IF me.fast.epoch = kEpochLast THEN me
  ELSE [me EXCEPT !.fast.epoch = @ + 1,
                  !.clock[me.fast.sid] = me.fast.epoch + 1]

(* TraceTime, in a part that TraceSwitchPart allocates when there is none; *)
(* that also moves the thread's slot to the back of the queue.             *)
TraceTime(tr, f) == [tr EXCEPT !.pos = "ok", !.time = f]
ToBack(s) == LET others == SelectSeq(slot_queue, LAMBDA q : q # s)
             IN IF Len(others) = Len(slot_queue) THEN slot_queue
                ELSE Append(others, s)

(* The reference for AcquireGlobal: t comes after all that every thread    *)
(* has done, and before nothing that it does next.                         *)
IdealGlobal(t) ==
  [u \in Threads |-> IF u = t THEN [v \in Threads |-> ideal[v][v]]
                     ELSE [ideal[u] EXCEPT ![u] = @ + 1]]

(* Thread t, with state me, slots sl and trace tr, holds its slot's mutex: *)
(* op, and what the thread does next.                                      *)
Perform(t, op, me, sl, tr) ==
  LET o == Object(t, op)
      rel == Releases(op)
      joined == CASE op[1] = "global" ->
                       [me EXCEPT !.clock = [s \in Sids |-> sl[s].epoch]]
                  [] Acquires(op) -> [me EXCEPT !.clock = Join(@, Acquired(o))]
                  [] OTHER -> me
      inc == IF rel = "none" THEN joined ELSE IncrementEpoch(joined)
      done == [inc EXCEPT !.at = IF op[1] = "finish" THEN <<"exit">> ELSE <<"run">>]
  IN /\ th' = CASE op[1] = "create" ->
                     [th EXCEPT ![t] = done, ![o].at = <<"find", <<"start">>>>]
                [] op[1] = "join" -> [th EXCEPT ![t] = done, ![o].at = <<"joined">>]
                [] OTHER -> [th EXCEPT ![t] = done]
     /\ slots' = [sl EXCEPT ![done.fast.sid].epoch = done.fast.epoch]
     /\ IF op[1] = "switch" \/ inc # joined
        THEN /\ trace' = [trace EXCEPT ![t] = TraceTime(tr, done.fast)]
             /\ slot_queue' = IF tr.pos = "ok" THEN slot_queue
                              ELSE ToBack(done.fast.sid)
        ELSE trace' = [trace EXCEPT ![t] = tr] /\ UNCHANGED slot_queue
     /\ CASE op[1] = "switch" -> UNCHANGED <<sync, reference>>
          [] op[1] = "global" ->
               /\ ideal' = IdealGlobal(t)
               /\ edges' = done.clock
               /\ UNCHANGED <<sync, idealSync>>
          [] OTHER ->
               /\ sync' = [sync EXCEPT ![o] =
                    [clock |-> Released(rel, @.clock, me.clock),
                     epoch |-> IF rel # "none" /\ o \in Threads
                               THEN global_epoch ELSE @.epoch]]
               /\ idealSync' = [idealSync EXCEPT ![o] = Released(rel, @, ideal[t])]
               /\ ideal' = [ideal EXCEPT ![t] =
                    LET i == IF Acquires(op) THEN Join(@, idealSync[o]) ELSE @
                    IN [i EXCEPT ![t] = IF rel = "none" THEN @ ELSE @ + 1]]
               /\ UNCHANGED edges

-----------------------------------------------------------------------------
(* Slots.                                                                  *)

(* SlotDetachImpl on the slots and on the trace of t.                      *)
DetachedSlots(t) ==
  IF Owns(t)
  THEN [slots EXCEPT ![th[t].slot].epoch = th[t].fast.epoch,
                     ![th[t].slot].thr = None]
  ELSE slots

(* Mutant: the part from before the reset is not freed.                    *)
KeptTrace(t) == [trace[t] EXCEPT !.pos = IF @ = "end" THEN "none" ELSE @]

DetachedTrace(t) ==
  IF ~Owns(t) /\ th[t].slot_epoch # global_epoch THEN NoTrace ELSE trace[t]

(* SlotLock, then op, when the thread still owns a slot with epochs left;  *)
(* or the detaching before SlotAttachAndLock.                              *)
SlotLock(t, op) ==
  IF Owns(t) /\ th[t].fast.epoch # kEpochLast
  THEN Perform(t, op, th[t], slots, trace[t])
  ELSE /\ th' = [th EXCEPT ![t].slot = None, ![t].at = <<"find", op>>]
       /\ slots' = DetachedSlots(t)
       /\ trace' = [trace EXCEPT ![t] = DetachedTrace(t)]
       /\ UNCHANGED <<slot_queue, sync, reference>>

(* FindSlotAndLock under slot_mtx: the first slot of the queue that is not *)
(* exhausted goes to its end, those before it leave.                       *)
FindSlot(t) ==
  LET live == {i \in DOMAIN slot_queue : slots[slot_queue[i]].epoch # kEpochLast}
  IN /\ At(t) = "find"
     /\ IF live = {}
        THEN /\ slot_queue' = <<>>
             /\ th' = [th EXCEPT ![t].at = <<"reset", @[2], global_epoch>>]
        ELSE LET i == Min(live) IN
             /\ slot_queue' = Append(SubSeq(slot_queue, i + 1, Len(slot_queue)),
                                     slot_queue[i])
             /\ th' = [th EXCEPT ![t].at = <<"lock", @[2], slot_queue[i]>>]
     /\ UNCHANGED <<slots, global_epoch, trace, shadow, last_spurious_race, sync,
                    ops, flushes, reference>>

(* SlotAttachAndLock once the slot is locked: its thread is preempted, the *)
(* clock of a thread from before a reset starts over.                      *)

(* Mutant: clocks keep what they knew before the reset.                    *)
AttachKeepsClock(t, s, e) ==
  [th[t] EXCEPT !.slot = s, !.fast = [sid |-> s, epoch |-> e],
     !.slot_epoch = global_epoch, !.clock[s] = e]

Attach(t, s, e) ==
  [th[t] EXCEPT !.slot = s, !.fast = [sid |-> s, epoch |-> e],
     !.slot_epoch = global_epoch,
     !.clock = [IF th[t].slot_epoch = global_epoch THEN @ ELSE Zero
                  EXCEPT ![s] = e]]

LockSlot(t) ==
  /\ At(t) = "lock"
  /\ LET op == th[t].at[2]
         s == th[t].at[3]
         e == IF slots[s].thr # None THEN th[slots[s].thr].fast.epoch
              ELSE slots[s].epoch
     IN IF e # kEpochLast
        THEN Perform(t, op, Attach(t, s, e + 1),
               [slots EXCEPT ![s] =
                  [epoch |-> e + 1, thr |-> t,
                   journal |-> Append(@.journal, [tid |-> t, epoch |-> e + 1])]],
               trace[t])
        ELSE /\ slots' = [slots EXCEPT ![s].epoch = e, ![s].thr = None]
             /\ slot_queue' = SelectSeq(slot_queue, LAMBDA q : q # s)
             /\ th' = [th EXCEPT ![t].at = <<"find", op>>]
             /\ UNCHANGED <<trace, sync, reference>>
  /\ UNCHANGED <<global_epoch, shadow, last_spurious_race, ops, flushes>>

(* DoResetImpl, with all slots locked.  It moves an attached thread's      *)
(* trace position to the end of its part, but the thread may be storing    *)
(* its own position at that moment.                                        *)
ResetTrace(t, late) ==
  IF th[t].slot = None THEN NoTrace
  ELSE [trace[t] EXCEPT !.pos = IF @ = "ok" /\ t \notin late THEN "end" ELSE @]

(* Mutant: the journals are kept.                                          *)
ResetEpochs == [s \in Sids |-> [NewSlot EXCEPT !.journal = slots[s].journal]]

ResetSlots == [s \in Sids |-> NewSlot]

DoResetImpl ==
  /\ global_epoch' = global_epoch + 1
  /\ \E late \in SUBSET {t \in Threads : At(t) = "run" /\ trace[t].pos = "ok"} :
       trace' = [t \in Threads |-> ResetTrace(t, late)]
  /\ slot_queue' = [i \in 1 .. NSlots |-> i - 1]
  /\ slots' = ResetSlots
  /\ shadow' = EmptyShadow
  /\ sync' = [o \in Syncs \cup Threads |->
                IF o \in Syncs THEN [clock |-> Zero, epoch |-> 0] ELSE sync[o]]
  /\ last_spurious_race' = Empty
  /\ edges' = Zero /\ UNCHANGED <<ideal, idealSync>>

(* DoReset by a thread that found no slot: another may have reset since.   *)
DoReset(t) ==
  /\ At(t) = "reset"
  /\ th' = [th EXCEPT ![t].at = <<"find", @[2]>>]
  /\ IF th[t].at[3] = global_epoch THEN DoResetImpl
     ELSE UNCHANGED <<global_epoch, trace, slot_queue, slots, shadow, sync,
                      last_spurious_race, reference>>
  /\ UNCHANGED <<ops, flushes>>

(* The background thread, or the program, asks for a flush.                *)
FlushShadowMemory ==
  /\ flushes < MaxFlushes
  /\ flushes' = flushes + 1
  /\ DoResetImpl
  /\ UNCHANGED <<th, ops>>

-----------------------------------------------------------------------------
(* Synchronisation.                                                        *)

Begin(t) == At(t) = "run" /\ ops < MaxOps
Count == ops' = ops + 1
MemoryUnchanged == UNCHANGED <<global_epoch, shadow, last_spurious_race, flushes>>

(* Acquire, Release, ReleaseStore, ReleaseAcquire and ReleaseStoreAcquire, *)
(* as mutexes and atomics use them.                                        *)
Synchronize(t) ==
  /\ Begin(t) /\ Count
  /\ \E o \in Syncs, so \in SyncOps : SlotLock(t, <<"sync", o, so>>)
  /\ MemoryUnchanged

(* Every slot's epoch, read without the other slots' mutexes, in one step; *)
(* finalizers of Java and Go programs begin with it.                       *)
AcquireGlobal(t) ==
  /\ Begin(t) /\ Count
  /\ SlotLock(t, <<"global", None>>)
  /\ MemoryUnchanged

(* A thread is created once; the registry lets one thread join it, once it *)
(* has finished.                                                           *)
Pending(op) == \E v \in Threads : At(v) \in {"find", "lock", "reset"} /\ th[v].at[2] = op

ThreadCreate(t) ==
  /\ Begin(t) /\ Count
  /\ \E u \in Threads : /\ At(u) = "none" /\ ~Pending(<<"create", u>>)
                        /\ SlotLock(t, <<"create", u>>)
  /\ MemoryUnchanged

ThreadJoin(t) ==
  /\ Begin(t) /\ Count
  /\ \E u \in Threads : /\ At(u) = "finished" /\ ~Pending(<<"join", u>>)
                        /\ SlotLock(t, <<"join", u>>)
  /\ MemoryUnchanged

ThreadFinish(t) ==
  /\ Begin(t) /\ Count /\ t # Main
  /\ SlotLock(t, <<"finish">>)
  /\ MemoryUnchanged

(* SlotDetach at the end of ThreadFinish.                                  *)
SlotDetach(t) ==
  /\ At(t) = "exit"
  /\ slots' = DetachedSlots(t)
  /\ trace' = [trace EXCEPT ![t] = DetachedTrace(t)]
  /\ th' = [th EXCEPT ![t].slot = None, ![t].at = <<"finished">>]
  /\ MemoryUnchanged /\ UNCHANGED <<slot_queue, sync, ops, reference>>

-----------------------------------------------------------------------------
(* Memory accesses.                                                        *)

BothReadsOrAtomic(a, b) == (a.read /\ b.read) \/ (a.atomic /\ b.atomic)
RWWeakerOrEqual(a, b) == \/ a.atomic /\ ~b.atomic
                         \/ a.atomic = b.atomic /\ (b.read => a.read)

ContainsSameAccess(cur) ==
  \E i \in Cells :
    IF cur.typ.read
    THEN shadow[i] = Rodata \/ [shadow[i] EXCEPT !.typ.read = TRUE] = cur
    ELSE shadow[i] = cur

(* TryTraceMemoryAccess: the event carries no time of its own.  `seg' is   *)
(* its place in the reference.                                             *)
Traced(t, typ) ==
  LET tr == trace[t]
      same(e) == e.time = tr.time /\ e.typ = typ
  IN [tr EXCEPT !.events = {e \in @ : ~same(e)} \cup
        {[time |-> tr.time, typ |-> typ, seg |-> ideal[t][t]]}]

(* MemoryAccess up to CheckRaces; without room in the trace the access     *)
(* starts over after TraceSwitchPart.                                      *)
MemoryAccess(t) ==
  /\ Begin(t)
  /\ \E typ \in AccessTypes :
       /\ ~ContainsSameAccess(Shadow(th[t].fast, typ))
       /\ IF trace[t].pos = "ok"
          THEN /\ Count
               /\ trace' = [trace EXCEPT ![t] = Traced(t, typ)]
               /\ th' = [th EXCEPT ![t].at = <<"check", typ, shadow>>]
               /\ UNCHANGED <<slots, slot_queue, sync, reference>>
          ELSE SlotLock(t, <<"switch", None>>) /\ UNCHANGED ops
  /\ MemoryUnchanged

(* The cells of a snapshot that the access races with.                     *)
Concurrent(t, cur, snap) ==
  {i \in Cells : /\ snap[i].sid \notin {None, cur.sid}
                 /\ ~BothReadsOrAtomic(snap[i].typ, cur.typ)
                 /\ th[t].clock[snap[i].sid] < snap[i].epoch}

(* Where the access is stored: over a weaker one of the same slot, else in *)
(* an empty cell, else anywhere.                                           *)
StoreIndex(cur, snap) ==
  LET rewrite == {i \in Cells : snap[i].sid = cur.sid
                                /\ RWWeakerOrEqual(snap[i].typ, cur.typ)}
      empty == {i \in Cells : snap[i] = Empty}
  IN IF rewrite # {} THEN {Min(rewrite)}
     ELSE IF empty # {} THEN {Min(empty)} ELSE Cells

CheckRaces(t) ==
  /\ At(t) = "check"
  /\ LET typ == th[t].at[2]
         snap == th[t].at[3]
         cur == Shadow(th[t].fast, typ)
         races == Concurrent(t, cur, snap)
     IN IF races = {}
        THEN /\ \E i \in StoreIndex(cur, snap) : shadow' = [shadow EXCEPT ![i] = cur]
             /\ th' = [th EXCEPT ![t].at = <<"run">>]
        ELSE /\ shadow' = [EmptyShadow EXCEPT ![1] = Rodata]
             /\ th' = [th EXCEPT ![t].at = <<"report", typ, snap[Min(races)]>>]
  /\ UNCHANGED <<slots, slot_queue, global_epoch, trace, last_spurious_race, sync,
                 ops, flushes, reference>>

(* RestoreStack: the thread that the journal gives for the epoch, and the  *)
(* event of its trace with that time.                                      *)
JournalTid(s, e) ==
  LET j == slots[s].journal
  IN IF j = <<>> THEN None
     ELSE j[Min({i \in DOMAIN j : i = Len(j) \/ j[i + 1].epoch > e})].tid

RestoreStack(old) ==
  LET u == JournalTid(old.sid, old.epoch)
  IN IF u = None THEN {}
     ELSE {[tid |-> u, typ |-> e.typ, seg |-> e.seg] :
             e \in {x \in trace[u].events :
                      /\ x.time = [sid |-> old.sid, epoch |-> old.epoch]
                      /\ x.typ = old.typ}}

SpuriousRace(old) == /\ last_spurious_race.sid = old.sid
                     /\ last_spurious_race.epoch = old.epoch

ReportRace(t) ==
  /\ At(t) = "report"
  /\ LET typ == th[t].at[2]
         old == th[t].at[3]
         found == RestoreStack(old)
     IN IF SpuriousRace(old) \/ found = {}
        THEN /\ th' = [th EXCEPT ![t].at = <<"run">>]
             /\ last_spurious_race' =
                  IF SpuriousRace(old) THEN last_spurious_race ELSE old
        ELSE /\ \E e \in found : th' = [th EXCEPT ![t].at = <<"output", typ, e>>]
             /\ UNCHANGED last_spurious_race
  /\ UNCHANGED <<slots, slot_queue, global_epoch, trace, shadow, sync, ops, flushes,
                 reference>>

OutputReport(t) ==
  /\ At(t) = "output"
  /\ th' = [th EXCEPT ![t].at = <<"run">>]
  /\ UNCHANGED <<slots, slot_queue, global_epoch, trace, shadow,
                 last_spurious_race, sync, ops, flushes, reference>>

Next ==
  \/ FlushShadowMemory
  \/ \E t \in Threads :
       \/ FindSlot(t) \/ LockSlot(t) \/ DoReset(t)
       \/ Synchronize(t) \/ AcquireGlobal(t) \/ ThreadCreate(t) \/ ThreadJoin(t)
       \/ ThreadFinish(t) \/ SlotDetach(t)
       \/ MemoryAccess(t) \/ CheckRaces(t) \/ ReportRace(t) \/ OutputReport(t)

Spec == Init /\ [][Next]_vars

-----------------------------------------------------------------------------
(* Every race that is output is one: the two accesses conflict, are of     *)
(* different threads, and the reference orders the earlier one before      *)
(* nothing the reporting thread has acquired.  Stale shadow values left by *)
(* accesses that overlap a reset never get this far.                       *)
NoFalseReports ==
  \A t \in Threads : At(t) = "output" =>
    LET e == th[t].at[3]
    IN /\ e.tid # t
       /\ ~BothReadsOrAtomic(e.typ, th[t].at[2])
       /\ ideal[t][e.tid] < e.seg

(* No clock of the current global epoch is ahead of a slot: what a thread  *)
(* or a SyncVar knows of a slot, some owner of the slot has reached (what  *)
(* VectorClock::Set asserts).  And the epoch an attached thread is in is   *)
(* known to no other thread and in no SyncVar, so that a race with what    *)
(* the thread does now is not hidden, with two exceptions: the slot's last *)
(* epoch, and an epoch in which AcquireGlobal ran: it knows of what the    *)
(* owner does until its next release, not only of what it has done         *)
(* ("where they happen to execute right now", tsan_rtl.h).                 *)
KnownEpoch(s, t) ==
  IF /\ \E u \in Threads \ {t} : Owns(u) /\ th[u].slot = s
     /\ slots[s].epoch \notin {edges[s], kEpochLast}
  THEN slots[s].epoch - 1 ELSE slots[s].epoch

ClocksBehindSlots ==
  \A s \in Sids :
    /\ \A t \in Threads : th[t].slot_epoch = global_epoch
                            => th[t].clock[s] <= KnownEpoch(s, t)
    /\ \A o \in DOMAIN sync : Acquired(o)[s] <= KnownEpoch(s, None)

(* A trace that a journal leads to is never one whose position a reset has *)
(* moved to the end of the part, past events nobody wrote.                 *)
ReplayedTracesIntact ==
  \A s \in Sids : \A i \in DOMAIN slots[s].journal :
    trace[slots[s].journal[i].tid].pos # "end"

(* RestoreStack "returns false if the event is not present in the trace".  *)
(* Nothing is evicted here, so it fails only for what an access running    *)
(* concurrently with a reset left in the shadow (the comment on            *)
(* last_spurious_race), and never before the first reset.                  *)
SpuriousOnlyAfterReset == last_spurious_race # Empty => global_epoch > 1
=============================================================================
