------------------------------ MODULE StackStore ------------------------------
(***************************************************************************)
(* StackStore of sanitizer_common: an append-only store of stack traces in *)
(* blocks.  Writers reserve frames with one fetch_add and copy their trace *)
(* without a lock; a block whose frames have all been stored may be packed *)
(* (replaced by a compressed copy), and is unpacked for good when somebody *)
(* loads a trace from it.                                                  *)
(*                                                                         *)
(* Memory is a list of mappings, numbered as they are made.  A trace is    *)
(* known by the frame it starts at, and a mapping by the traces that were  *)
(* copied into it.                                                         *)
(***************************************************************************)
EXTENDS Integers, Sequences, FiniteSets, FiniteSetsExt

CONSTANTS Threads,
          kBlockSizeFrames,   \* frames in a block
          kBlockCount,        \* blocks in the store
          FrameCounts,        \* the values of h.size + 1
          PackedSizes,        \* sizes a block may compress to, in pages
          BlockPages          \* kBlockSizeBytes, in pages

ASSUME SizesAssumption ==
  /\ kBlockSizeFrames \in Nat \ {0}
  /\ kBlockCount \in Nat \ {0}
  /\ BlockPages \in Nat \ {0}
  /\ FrameCounts \subseteq 2 .. kBlockSizeFrames
  /\ PackedSizes \subseteq 1 .. BlockPages

VARIABLES
  total_frames_,  \* frames handed out
  allocated_,     \* pages mapped, as the store accounts for them
  block,          \* BlockInfo: data_ (0 is null), stored_ and state
  maps,           \* every mapping made, in order
  pc, job,        \* a writer's location and its locals
  ids,            \* what Store has returned
  loaded,         \* StackTraces handed out by Load: a mapping and a start
  reports         \* per block, how many Stored calls found it complete

vars == <<total_frames_, allocated_, block, maps, pc, job, ids, loaded, reports>>
memory == <<allocated_, maps>>

Blocks == 0 .. kBlockCount - 1
NoJob == [count |-> 0, start |-> 0, ptr |-> 0]

GetBlockIdx(frame) == frame \div kBlockSizeFrames
GetInBlockIdx(frame) == frame % kBlockSizeFrames
OffsetToId(offset) == offset + 1    \* zero is the empty trace
IdToOffset(id) == id - 1

Init ==
  /\ total_frames_ = 0
  /\ allocated_ = 0
  /\ block = [b \in Blocks |-> [data_ |-> 0, stored_ |-> 0, state |-> "Storing"]]
  /\ maps = <<>>
  /\ pc = [t \in Threads |-> "idle"]
  /\ job = [t \in Threads |-> NoJob]
  /\ ids = {}
  /\ loaded = {}
  /\ reports = [b \in Blocks |-> 0]

(* A mapping: its size in pages, whether it holds frames or compressed     *)
(* data, whether it can be written, whether it is still mapped, and the    *)
(* starts of the traces whose frames it holds.                             *)
NewMap(size, kind, writable, traces) ==
  [size |-> size, kind |-> kind, writable |-> writable, mapped |-> TRUE,
   traces |-> traces]

-----------------------------------------------------------------------------
(* Store *)

Store(t) ==
  /\ pc[t] = "idle"
  /\ \E n \in FrameCounts : job' = [job EXCEPT ![t] = [NoJob EXCEPT !.count = n]]
  /\ pc' = [pc EXCEPT ![t] = "alloc"]
  /\ UNCHANGED <<total_frames_, memory, block, ids, loaded, reports>>

Fits(start, count) == GetBlockIdx(start) = GetBlockIdx(start + count - 1)

(* The fetch_add of Alloc.  The model stops where the store is full (the   *)
(* code then fails its CHECK).                                             *)
Alloc(t) ==
  LET start == total_frames_
      count == job[t].count
  IN  /\ pc[t] = "alloc"
      /\ start + count <= kBlockSizeFrames * kBlockCount
      /\ total_frames_' = start + count
      /\ job' = [job EXCEPT ![t].start = start]
      /\ pc' = [pc EXCEPT ![t] = IF Fits(start, count) THEN "get" ELSE "tail"]
      /\ UNCHANGED <<memory, block, ids, loaded, reports>>

(* Mutated: completion is tested before the addition. *)
StoredEarly(b, n) ==
  /\ block' = [block EXCEPT ![b].stored_ = @ + n]
  /\ reports' = [reports EXCEPT ![b] =
                   IF block[b].stored_ = kBlockSizeFrames THEN @ + 1 ELSE @]

(* BlockInfo::Stored: add, and report completion to the caller.            *)
Stored(b, n) ==
  /\ block' = [block EXCEPT ![b].stored_ = @ + n]
  /\ reports' = [reports EXCEPT ![b] =
                   IF block[b].stored_ + n = kBlockSizeFrames THEN @ + 1 ELSE @]

(* Mutated: the frames before start instead of those after it. *)
InFirstSwapped(t) == GetInBlockIdx(job[t].start)

(* The range straddles two blocks: both parts count as stored, and Alloc   *)
(* starts over.                                                            *)
InFirst(t) == kBlockSizeFrames - GetInBlockIdx(job[t].start)

StoredTail(t) ==
  /\ pc[t] = "tail"
  /\ Stored(GetBlockIdx(job[t].start), InFirst(t))
  /\ pc' = [pc EXCEPT ![t] = "head"]
  /\ UNCHANGED <<total_frames_, memory, job, ids, loaded>>

StoredHead(t) ==
  /\ pc[t] = "head"
  /\ Stored(GetBlockIdx(job[t].start) + 1, job[t].count - InFirst(t))
  /\ pc' = [pc EXCEPT ![t] = "alloc"]
  /\ UNCHANGED <<total_frames_, memory, job, ids, loaded>>

(* GetOrCreate: a lock-free read of data_, and under mtx_ a second look    *)
(* before a new block is mapped.                                           *)
GetOrCreate(t) ==
  LET b == GetBlockIdx(job[t].start)
  IN  /\ pc[t] = "get"
      /\ pc' = [pc EXCEPT ![t] = IF block[b].data_ = 0 THEN "create" ELSE "copy"]
      /\ job' = [job EXCEPT ![t].ptr = block[b].data_]
      /\ UNCHANGED <<total_frames_, memory, block, ids, loaded, reports>>

(* Mutated: no second look at data_ under the mutex. *)
CreateUnchecked(t) ==
  /\ pc[t] = "create"
  /\ maps' = Append(maps, NewMap(BlockPages, "frames", TRUE, {}))
  /\ allocated_' = allocated_ + BlockPages
  /\ block' = [block EXCEPT ![GetBlockIdx(job[t].start)].data_ = Len(maps) + 1]
  /\ job' = [job EXCEPT ![t].ptr = Len(maps) + 1]
  /\ pc' = [pc EXCEPT ![t] = "copy"]
  /\ UNCHANGED <<total_frames_, ids, loaded, reports>>

Create(t) ==
  LET b == GetBlockIdx(job[t].start)
      r == IF block[b].data_ = 0 THEN Len(maps) + 1 ELSE block[b].data_
  IN  /\ pc[t] = "create"
      /\ IF block[b].data_ = 0
           THEN /\ maps' = Append(maps, NewMap(BlockPages, "frames", TRUE, {}))
                /\ allocated_' = allocated_ + BlockPages
                /\ block' = [block EXCEPT ![b].data_ = r]
           ELSE UNCHANGED <<memory, block>>
      /\ job' = [job EXCEPT ![t].ptr = r]
      /\ pc' = [pc EXCEPT ![t] = "copy"]
      /\ UNCHANGED <<total_frames_, ids, loaded, reports>>

(* The header and the memcpy, through the pointer obtained earlier.        *)
Copy(t) ==
  /\ pc[t] = "copy"
  /\ maps' = [maps EXCEPT ![job[t].ptr].traces = @ \cup {job[t].start}]
  /\ pc' = [pc EXCEPT ![t] = "stored"]
  /\ UNCHANGED <<total_frames_, allocated_, block, job, ids, loaded, reports>>

Return(t) ==
  /\ pc[t] = "stored"
  /\ Stored(GetBlockIdx(job[t].start), job[t].count)
  /\ ids' = ids \cup {OffsetToId(job[t].start)}
  /\ pc' = [pc EXCEPT ![t] = "idle"]
  /\ job' = [job EXCEPT ![t] = NoJob]
  /\ UNCHANGED <<total_frames_, memory, loaded>>

-----------------------------------------------------------------------------
(* Load of a start Store has returned: GetOrUnpack, under mtx_.            *)

(* Mutated: a block that was loaded from can still be packed. *)
LoadStillStoring(id) ==
  LET b == GetBlockIdx(IdToOffset(id))
  IN  /\ id \in ids
      /\ block[b].state \in {"Storing", "Unpacked"}
      /\ loaded' = loaded \cup {[map |-> block[b].data_, start |-> IdToOffset(id)]}
      /\ UNCHANGED <<total_frames_, memory, block, pc, job, ids, reports>>

LoadUnpacked(id) ==
  LET b == GetBlockIdx(IdToOffset(id))
  IN  /\ id \in ids
      /\ block[b].state \in {"Storing", "Unpacked"}
      /\ block' = [block EXCEPT ![b].state = "Unpacked"]
      /\ loaded' = loaded \cup {[map |-> block[b].data_, start |-> IdToOffset(id)]}
      /\ UNCHANGED <<total_frames_, memory, pc, job, ids, reports>>

LoadPacked(id) ==
  LET b == GetBlockIdx(IdToOffset(id))
      old == block[b].data_
      new == Len(maps) + 1
  IN  /\ id \in ids
      /\ block[b].state = "Packed"
      /\ maps' = Append([maps EXCEPT ![old].mapped = FALSE],
                        NewMap(BlockPages, "frames", FALSE, maps[old].traces))
      /\ allocated_' = allocated_ + BlockPages - maps[old].size
      /\ block' = [block EXCEPT ![b].data_ = new, ![b].state = "Unpacked"]
      /\ loaded' = loaded \cup {[map |-> new, start |-> IdToOffset(id)]}
      /\ UNCHANGED <<total_frames_, pc, job, ids, reports>>

-----------------------------------------------------------------------------
(* Pack of one block, under mtx_.  Its two outcomes: the block is kept     *)
(* when packing it would save less than an eighth, and is replaced by the  *)
(* packed copy, cut to size, otherwise.                                    *)

(* Mutated: the block may still have writers. *)
PackableUnfinished(b) == block[b].state = "Storing" /\ block[b].data_ # 0

Packable(b) ==
  /\ block[b].state = "Storing"
  /\ block[b].data_ # 0
  /\ block[b].stored_ = kBlockSizeFrames

WorthPacking(size) == 8 * (BlockPages - size) >= BlockPages

PackUndo(b) ==
  /\ Packable(b)
  /\ \E size \in PackedSizes : ~WorthPacking(size)
  /\ maps' = [maps EXCEPT ![block[b].data_].writable = FALSE]
  /\ block' = [block EXCEPT ![b].state = "Unpacked"]
  /\ UNCHANGED <<total_frames_, allocated_, pc, job, ids, loaded, reports>>

PackReplace(b) ==
  LET old == block[b].data_
      new == Len(maps) + 1
  IN  /\ Packable(b)
      /\ \E size \in PackedSizes :
           /\ WorthPacking(size)
           /\ maps' = Append([maps EXCEPT ![old].mapped = FALSE],
                             NewMap(size, "packed", FALSE, maps[old].traces))
           /\ allocated_' = allocated_ + size - BlockPages
      /\ block' = [block EXCEPT ![b].data_ = new, ![b].state = "Packed"]
      /\ UNCHANGED <<total_frames_, pc, job, ids, loaded, reports>>

-----------------------------------------------------------------------------
Next ==
  \/ \E t \in Threads :
       \/ Store(t) \/ Alloc(t) \/ StoredTail(t) \/ StoredHead(t)
       \/ GetOrCreate(t) \/ Create(t) \/ Copy(t) \/ Return(t)
  \/ \E id \in ids : LoadUnpacked(id) \/ LoadPacked(id)
  \/ \E b \in Blocks : PackUndo(b) \/ PackReplace(b)

Spec == Init /\ [][Next]_vars

-----------------------------------------------------------------------------
(* Properties *)

TypeOK ==
  /\ total_frames_ \in 0 .. kBlockSizeFrames * kBlockCount
  /\ allocated_ \in Nat
  /\ block \in [Blocks -> [data_ : 0 .. Len(maps), stored_ : 0 .. kBlockSizeFrames,
                           state : {"Storing", "Packed", "Unpacked"}]]
  /\ pc \in [Threads -> {"idle", "alloc", "tail", "head", "get", "create",
                         "copy", "stored"}]
  /\ \A t \in Threads : job[t].ptr \in 0 .. Len(maps)

(* The frames of block b that a writer has reserved and not yet counted.   *)
Pending(t, b) ==
  LET first == GetBlockIdx(job[t].start)
  IN  CASE pc[t] \in {"get", "create", "copy", "stored"} /\ b = first -> job[t].count
        [] pc[t] = "tail" /\ b = first -> InFirst(t)
        [] pc[t] \in {"tail", "head"} /\ b = first + 1 -> job[t].count - InFirst(t)
        [] OTHER -> 0

Reserved(b) ==
  Max({0, Min({kBlockSizeFrames, total_frames_ - b * kBlockSizeFrames})})

(* stored_ lags the reservations by exactly what writers still hold, also  *)
(* for ranges that straddled two blocks and were given up.  So a block     *)
(* that counts as full has no writer left in it, which is why Pack may     *)
(* replace it.  And allocated_ is the memory that is really mapped.        *)
TotalsExact ==
  /\ \A b \in Blocks :
       block[b].stored_ + MapThenSumSet(LAMBDA t : Pending(t, b), Threads) = Reserved(b)
  /\ allocated_ = MapThenSumSet(LAMBDA r : maps[r].size,
                                {r \in DOMAIN maps : maps[r].mapped})

(* A writer copies through a pointer it read before, without a lock: the   *)
(* memory behind it is still the block's, mapped and writable.             *)
WritersKeepTheirBlock ==
  \A t \in Threads :
    pc[t] = "copy" =>
      LET m == maps[job[t].ptr]
      IN  /\ job[t].ptr = block[GetBlockIdx(job[t].start)].data_
          /\ m.mapped /\ m.writable /\ m.kind = "frames"

(* Every id Store returned can be read back from its block, whatever       *)
(* packing and unpacking happened to the block since.  Load hands out      *)
(* pointers into the block and nobody tells the store when they are no     *)
(* longer used: the memory behind them stays mapped for ever.              *)
TracesStayReadable ==
  /\ \A id \in ids :
       LET m == maps[block[GetBlockIdx(IdToOffset(id))].data_]
       IN  m.mapped /\ IdToOffset(id) \in m.traces
  /\ \A l \in loaded :
       maps[l.map].mapped /\ maps[l.map].kind = "frames"
         /\ l.start \in maps[l.map].traces

(* Store's pack argument is the "number of blocks completed by this call": *)
(* each block that fills up is reported by one call, and by one only.      *)
CompletionReportedOnce ==
  \A b \in Blocks :
    reports[b] = IF block[b].stored_ = kBlockSizeFrames THEN 1 ELSE 0
=============================================================================
