---------------------------- MODULE BufferQueue ----------------------------
(***************************************************************************)
(* XRay's BufferQueue (lib/xray/xray_buffer_queue.h and .cpp): a ring of   *)
(* buffers from which threads take (getBuffer) and to which they return    *)
(* (releaseBuffer) a buffer of their own.  Only the ring's cursors are     *)
(* updated under Mutex; a slot is read, or filled, after Mutex is given    *)
(* up.  init starts a new generation of buffers in a new backing store,    *)
(* and threads may still hold buffers of the old ones: every store counts  *)
(* the references to it.                                                   *)
(*                                                                         *)
(* The extents' store is created, counted and freed together with the      *)
(* buffers' store: one store per generation stands for both.  The copy of  *)
(* a Buffer from or to a slot is one step.                                 *)
(***************************************************************************)
EXTENDS Integers, FiniteSets

CONSTANTS
  Threads,
  Counts,         \* the values init may be given for BufferCount
  MaxGenerations  \* bound on the successful calls of init

ASSUME QueueAssumption == Counts \subseteq Nat \ {0} /\ MaxGenerations \in Nat \ {0}

VARIABLES
  Finalizing, BackingStore, BufferCount, Buffers, Next, First, LiveBuffers,
  Generation,
  RefCount,   \* of the store of each generation; 0 once it is deallocated
  pc, B,      \* where a thread is in its call, and the slot it works on if any
  Buf,        \* the Buffer each thread passes to its calls
  ec,         \* the ErrorCode the last call of each thread returned
  given,      \* history: this generation's buffers that were handed out
  overlap     \* history: two calls of this generation worked on a slot at once

cursors == <<BufferCount, Next, First, LiveBuffers>>
queue == <<Finalizing, BackingStore, Generation>>
history == <<given, overlap>>
vars == <<cursors, queue, history, Buffers, RefCount, pc, B, Buf, ec>>

Nothing == 0 - 1
NullBuffer == [Generation |-> 0, Data |-> Nothing, BackingStore |-> 0]

\* The slots of a ring of BC buffers of generation g.
Ring(g, BC) ==
  [i \in 0..(BC - 1) |->
     [Buff |-> [Generation |-> g, Data |-> i, BackingStore |-> g],
      Used |-> FALSE]]

\* The constructor: Finalizing is set, so that its call of init succeeds.
Init ==
  /\ Finalizing = FALSE /\ BackingStore = 1 /\ Generation = 1
  /\ BufferCount \in Counts
  /\ Buffers = Ring(1, BufferCount)
  /\ Next = 0 /\ First = 0 /\ LiveBuffers = 0
  /\ RefCount = [g \in 1..MaxGenerations |-> IF g = 1 THEN 1 ELSE 0]
  /\ pc = [t \in Threads |-> "idle"] /\ B = [t \in Threads |-> Nothing]
  /\ Buf = [t \in Threads |-> NullBuffer]
  /\ ec = [t \in Threads |-> "Ok"]
  /\ given = {} /\ overlap = FALSE

Goto(t, l) == pc' = [pc EXCEPT ![t] = l]
Return(t, code) ==
  /\ Goto(t, "idle")
  /\ B' = [B EXCEPT ![t] = Nothing]
  /\ ec' = [ec EXCEPT ![t] = code]
Advance(cursor) == (cursor + 1) % BufferCount

\* History: a call works on slot s while another one still does.
Reserve(t, s) ==
  /\ B' = [B EXCEPT ![t] = s]
  /\ overlap' = (overlap \/ \E u \in Threads : B[u] = s)
----------------------------------------------------------------------------
(* getBuffer                                                               *)

\* The first test of getBuffer, without Mutex.
GetBuffer(t) ==
  /\ pc[t] = "idle"
  /\ IF Finalizing THEN Return(t, "QueueFinalizing")
                   ELSE Goto(t, "take") /\ UNCHANGED <<B, ec>>
  /\ UNCHANGED <<cursors, queue, history, Buffers, RefCount, Buf>>

\* The critical section of getBuffer.
GetSlot(t) ==
  /\ pc[t] = "take"
  /\ IF LiveBuffers = BufferCount
       THEN Return(t, "NotEnoughMemory") /\ UNCHANGED <<cursors, overlap>>
       ELSE /\ Reserve(t, Next)
            /\ Next' = Advance(Next)
            /\ LiveBuffers' = LiveBuffers + 1
            /\ Goto(t, "addref")
            /\ UNCHANGED <<BufferCount, First, ec>>
  /\ UNCHANGED <<queue, given, Buffers, RefCount, Buf>>

\* Mutated: a buffer does not count as a reference to its store.
incRefCountNot(t) ==
  /\ pc[t] = "addref"
  /\ Goto(t, "copy")
  /\ UNCHANGED <<cursors, queue, history, Buffers, RefCount, B, Buf, ec>>

incRefCount(t) ==
  /\ pc[t] = "addref"
  /\ RefCount' = [RefCount EXCEPT ![BackingStore] = @ + 1]
  /\ Goto(t, "copy")
  /\ UNCHANGED <<cursors, queue, history, Buffers, B, Buf, ec>>

CopyOut(t) ==
  /\ pc[t] = "copy"
  /\ LET Buff == Buffers[B[t]].Buff IN
       /\ Buf' = [Buf EXCEPT ![t] = [Buff EXCEPT !.Generation = Generation]]
       /\ given' = given \cup {Buff.Data}
  /\ Buffers' = [Buffers EXCEPT ![B[t]].Used = TRUE]
  /\ Return(t, "Ok")
  /\ UNCHANGED <<cursors, queue, overlap, RefCount>>
----------------------------------------------------------------------------
(* releaseBuffer                                                           *)

\* The critical section of releaseBuffer.  A buffer of an old generation is
\* forgotten: Buf is cleared first, so decRefCount is given null pointers.  A
\* buffer is recognized when its Data is within the current store.
ReleaseBuffer(t) ==
  /\ pc[t] = "idle"
  /\ CASE Buf[t].Generation # Generation \/ LiveBuffers = 0 ->
            /\ Buf' = [Buf EXCEPT ![t] = NullBuffer]
            /\ Return(t, "Ok")
            /\ UNCHANGED <<cursors, overlap>>
       [] OTHER ->
            IF Buf[t].BackingStore # BackingStore
              THEN Return(t, "UnrecognizedBuffer")
                   /\ UNCHANGED <<cursors, Buf, overlap>>
              ELSE /\ Reserve(t, First)
                   /\ First' = Advance(First)
                   /\ LiveBuffers' = LiveBuffers - 1
                   /\ Goto(t, "store")
                   /\ UNCHANGED <<BufferCount, Next, Buf, ec>>
  /\ UNCHANGED <<queue, given, Buffers, RefCount>>

\* Mutated: the slot keeps the buffer it had.
CopyInNothing(t) ==
  /\ pc[t] = "store"
  /\ Goto(t, "unref")
  /\ UNCHANGED <<cursors, queue, given, overlap, Buffers, RefCount, B, Buf, ec>>

CopyIn(t) ==
  /\ pc[t] = "store"
  /\ Buffers' = [Buffers EXCEPT ![B[t]] = [Buff |-> Buf[t], Used |-> TRUE]]
  /\ Goto(t, "unref")
  /\ UNCHANGED <<cursors, queue, given, overlap, RefCount, B, Buf, ec>>

decRefCount(t) ==
  /\ pc[t] = "unref"
  /\ RefCount' = [RefCount EXCEPT ![Buf[t].BackingStore] = @ - 1]
  /\ Goto(t, "extents")
  /\ UNCHANGED <<cursors, queue, history, Buffers, B, Buf, ec>>

\* The extents, in the store whose reference was just dropped, are copied.
CopyExtents(t) ==
  /\ pc[t] = "extents"
  /\ Buf' = [Buf EXCEPT ![t] = NullBuffer]
  /\ Return(t, "Ok")
  /\ UNCHANGED <<cursors, queue, history, Buffers, RefCount>>
----------------------------------------------------------------------------
(* finalize and init                                                       *)

finalize ==
  /\ Finalizing' = TRUE
  /\ UNCHANGED <<cursors, BackingStore, Generation, history, Buffers, RefCount,
                 pc, B, Buf, ec>>

\* The reference the queue itself holds.
cleanupBuffers ==
  IF BackingStore = 0 THEN RefCount
                      ELSE [RefCount EXCEPT ![BackingStore] = @ - 1]

init(BC) ==
  /\ Finalizing
  /\ BufferCount' = BC
  /\ Generation' = Generation + 1
  /\ BackingStore' = Generation'
  /\ RefCount' = [cleanupBuffers EXCEPT ![Generation'] = 1]
  /\ Buffers' = Ring(Generation', BC)
  /\ Next' = 0 /\ First' = 0 /\ LiveBuffers' = 0
  /\ Finalizing' = FALSE
  /\ given' = {} /\ overlap' = FALSE
  /\ UNCHANGED <<pc, B, Buf, ec>>

\* One of init's three allocations fails: no store, and no slots.
initFails(BC) ==
  /\ Finalizing
  /\ RefCount' = cleanupBuffers
  /\ BackingStore' = 0
  /\ BufferCount' = BC
  /\ Buffers' = << >>
  /\ UNCHANGED <<Finalizing, Generation, Next, First, LiveBuffers, history, pc,
                 B, Buf, ec>>

\* The slots apply visits.
Used == {i \in DOMAIN Buffers : Buffers[i].Used}
----------------------------------------------------------------------------
(* The use of the queue by the flight data recorder: a thread asks for a   *)
(* buffer when it has none, and init waits (grace_period_ms) until the     *)
(* calls that did not see Finalizing have returned.                        *)

Quiet == \A t \in Threads : pc[t] = "idle"

Step(t) ==
  \/ GetSlot(t) \/ incRefCount(t) \/ CopyOut(t)
  \/ CopyIn(t) \/ decRefCount(t) \/ CopyExtents(t)

NextStep ==
  \/ \E t \in Threads : \/ Buf[t] = NullBuffer /\ GetBuffer(t)
                        \/ ReleaseBuffer(t)
                        \/ Step(t)
  \/ finalize
  \/ \E BC \in Counts : Quiet /\ (\/ Generation < MaxGenerations /\ init(BC)
                                  \/ initFails(BC))

Spec == Init /\ [][NextStep]_vars
----------------------------------------------------------------------------
(* Properties                                                              *)

Getting == {"addref", "copy"}
Releasing == {"store", "unref", "extents"}

Holds(t, g) ==
  Buf[t] # NullBuffer /\ Buf[t].BackingStore = g /\ pc[t] \notin Releasing
Holders(g) == {t \in Threads : Holds(t, g)}

\* A store is deallocated only when neither the queue nor a thread refers to
\* it: the memory a thread logs into, or copies extents from, stays allocated
\* however often the queue is finalized and initialized meanwhile.
StoresStayAllocated ==
  \A g \in 1..MaxGenerations :
    /\ RefCount[g] >= Cardinality(Holders(g)) + (IF BackingStore = g THEN 1 ELSE 0)
    /\ \A t \in Threads : Buf[t].BackingStore = g => RefCount[g] > 0

\* Two threads hold the same buffer of the current generation.
Shared ==
  \E t, u \in Threads : /\ t # u /\ Holds(t, Generation) /\ Holds(u, Generation)
                        /\ Buf[t].Data = Buf[u].Data

\* The ring itself never gives a buffer to two threads: that takes two calls
\* that work on the same slot at once, one that fills it after the other has
\* (or before it has) copied it.
SharedOnlyByOverlap == Shared => overlap

----------------------------------------------------------------------------
(* What comments say and the code does not do                              *)

\* fdr_logging.cpp: thread-local data "allow us to implement unsynchronized
\* routines that access resources associated with the thread", so a buffer is
\* one thread's.
BuffersExclusive == ~Shared

============================================================================
