--------------------------- MODULE FdrController ---------------------------
(***************************************************************************)
(* XRay's FDRController and FDRLogWriter (lib/xray/xray_fdr_controller.h,  *)
(* xray_fdr_log_writer.h): what one thread writes into its buffers as the  *)
(* instrumented functions it runs are entered and left.  A function record *)
(* holds the difference between its time stamp and the previous record's;  *)
(* a metadata record restarts the count when the thread has changed CPU,   *)
(* when the difference does not fit, and at the start of a buffer.  The    *)
(* records of a call shorter than CycleThreshold are taken back.           *)
(*                                                                         *)
(* Memory is counted in units of sizeof(FunctionRecord); a MetadataRecord  *)
(* takes two, an event's payload one.  B.Units is what lies between B.Data *)
(* and the writer's NextRecord.  A unit also carries the time and the CPU  *)
(* it was written for, which the code does not store.                      *)
(***************************************************************************)
EXTENDS Integers, Sequences, FiniteSets

CONSTANTS
  CPUs,
  Steps,           \* by how much the clock may advance between two calls
  CycleThreshold,
  MaxDelta,        \* std::numeric_limits<int32_t>::max()
  BufferSize,      \* B.Size, in units
  MaxCalls,        \* bound on the calls of the controller
  MaxDepth,        \* bound on the depth of the thread's call stack
  MaxGenerations   \* bound on the generations of the buffer queue

\* A new buffer has room for its preamble and for any one record: the code
\* does not test it.
ASSUME ControllerAssumption ==
  /\ Steps \subseteq Nat /\ CycleThreshold \in Nat /\ MaxDelta \in Nat
  /\ BufferSize >= 11 /\ MaxGenerations \in Nat \ {0}

VARIABLES
  BQ,      \* the queue: finalizing() and generation()
  B,       \* TLD.Buffer and what was written into it
  C,       \* the controller's fields
  now, stack, calls,   \* the clock, the functions entered and not left
  torn,    \* history: a tail exit was counted as undoable behind a metadata record
  cut      \* history: the units the last call took back, [unit, at] each

vars == <<BQ, B, C, now, stack, calls, torn, cut>>

\* Zero in the code: the CPU is not looked at while LatestTSC is zero.
NoCPU == "none"
NoBuffer == [Generation |-> 0, Units |-> << >>, Extents |-> 0]
NewController ==
  [First |-> TRUE, LatestTSC |-> 0, LatestCPU |-> NoCPU, LastFunctionEntryTSC |-> 0,
   UndoableFunctionEnters |-> 0, UndoableTailExits |-> 0]

\* setupTLD: a thread gets a buffer before its controller is made.
Init ==
  /\ BQ = [finalizing |-> FALSE, Generation |-> 1]
  /\ B = [NoBuffer EXCEPT !.Generation = 1]
  /\ C = NewController
  /\ now = 1 /\ stack = << >> /\ calls = 0 /\ torn = FALSE /\ cut = << >>
----------------------------------------------------------------------------
(* FDRLogWriter                                                            *)

Half == [kind |-> "half"]
Metadata(kind, TSC, CPU) == <<[kind |-> kind, TSC |-> TSC, CPU |-> CPU], Half>>

\* A difference of times is narrowed to the int32_t Delta of the writer's
\* functions.  A function record keeps it in a uint32_t, an event's marker,
\* which is a metadata record, as it is.
Int32(d) == ((d + MaxDelta + 1) % (2 * (MaxDelta + 1))) - (MaxDelta + 1)
Uint32(d) == d % (2 * (MaxDelta + 1))

Function(kind, id, Delta, TSC, CPU) ==
  <<[kind |-> kind, id |-> id, TSCDelta |-> Uint32(Delta), TSC |-> TSC, CPU |-> CPU]>>
Marker(kind, Delta, TSC, CPU) ==
  <<[kind |-> kind, TSCDelta |-> Delta, TSC |-> TSC, CPU |-> CPU], Half>>
Functions == {"Enter", "Exit", "TailExit", "EnterArg"}
Events == {"CustomEvent", "TypedEvent"}

\* A call in progress: the buffer, the controller and the histories.
Now == [B |-> B, C |-> C, torn |-> torn, cut |-> << >>]

\* The records are copied, then the extents grow by n.
writeRecord(s, units, n) ==
  [s EXCEPT !.B.Units = @ \o units, !.B.Extents = @ + n]

undoWrites(s, n, TSC) ==
  LET kept == Len(s.B.Units) - n IN
  [s EXCEPT !.B.Units = SubSeq(@, 1, kept), !.B.Extents = @ - n,
            !.cut = @ \o [i \in 1..n |-> [unit |-> s.B.Units[kept + i], at |-> TSC]]]

resetRecord(s) == [s EXCEPT !.B.Units = << >>, !.B.Extents = 0]
----------------------------------------------------------------------------
(* The buffer                                                              *)
(*                                                                         *)
(* The rest of the program may act during a call, at most once: e is       *)
(* "start" when the queue is finalized before the call wants a new buffer  *)
(* (the tests in the operation, prepareBuffer and returnBuffer all release *)
(* the buffer and give up), "setup" when setupNewBuffer notices it,        *)
(* "nobuffer" when getBuffer fails, and "regen" when the queue is          *)
(* initialized again before the call compares the generations last.        *)

hasSpace(s, S) ==
  /\ s.B.Generation = BQ.Generation
  /\ Len(s.B.Units) + S <= BufferSize

\* releaseBuffer leaves the thread without a buffer.
returnBuffer(s) == [s EXCEPT !.C.First = TRUE, !.B = NoBuffer]

getNewBuffer(s) ==
  [s EXCEPT !.B = [NoBuffer EXCEPT !.Generation = BQ.Generation],
            !.C = [NewController EXCEPT
                     !.LastFunctionEntryTSC = s.C.LastFunctionEntryTSC]]

setupNewBuffer(s) ==
  writeRecord(s, Metadata("NewBuffer", 0, NoCPU) \o Metadata("WalltimeMarker", 0, NoCPU)
                   \o Metadata("Pid", 0, NoCPU), 6)

\* The state after prepareBuffer(S), and whether it returned true.
prepareBuffer(s, S, e) ==
  LET full == ~hasSpace(s, S)
      fresh == IF full THEN getNewBuffer(returnBuffer(s)) ELSE s
  IN IF full /\ e = "nobuffer"
       THEN [ok |-> FALSE, s |-> returnBuffer(s)]
     ELSE IF ~fresh.C.First THEN [ok |-> TRUE, s |-> fresh]
     ELSE [ok |-> e # "setup",
           s |-> LET r == resetRecord([fresh EXCEPT !.C.First = FALSE])
                 IN IF e = "setup" THEN r ELSE setupNewBuffer(r)]
----------------------------------------------------------------------------
(* The records                                                             *)

\* Mutated: a difference that does not fit is written all the same.
PreambleUnbounded(c, TSC, CPU) ==
  CASE c.LatestCPU # CPU \/ c.LatestTSC = 0 -> "NewCPUId"
    [] OTHER -> IF c.LatestTSC > TSC THEN "TSCWrap" ELSE "NoChange"

\* Which metadata recordPreamble writes, if any.
Preamble(c, TSC, CPU) ==
  CASE c.LatestCPU # CPU \/ c.LatestTSC = 0 -> "NewCPUId"
    [] OTHER -> IF c.LatestTSC > TSC \/ TSC - c.LatestTSC > MaxDelta
                  THEN "TSCWrap" ELSE "NoChange"

recordPreamble(s, TSC, CPU) ==
  LET kind == Preamble(s.C, TSC, CPU)
      t == [s EXCEPT !.C.LatestTSC = TSC, !.C.LatestCPU = CPU]
  IN IF kind = "NoChange" THEN s ELSE writeRecord(t, Metadata(kind, TSC, CPU), 2)

Delta(s, TSC) == Int32(TSC - s.C.LatestTSC)

\* A function record stamped TSC, and units that go with it.
Stamp(s, kind, id, TSC, CPU, more, n) ==
  writeRecord([s EXCEPT !.C.LatestTSC = TSC],
              Function(kind, id, Delta(s, TSC), TSC, CPU) \o more, n)

NotUndoable(s) ==
  [s EXCEPT !.C.UndoableFunctionEnters = 0, !.C.UndoableTailExits = 0]

Last(s) == s.B.Units[Len(s.B.Units)]

\* One turn of the loop of rewindRecords: the tail exit and its entry go when
\* the call they belong to is short.  F is the unit that RewindingRecordPtr
\* points to; one that is no function record stands for whatever its bytes say.
RewindTailExit(s, F, TSC) ==
  LET RewindingTSC == s.C.LatestTSC - (IF F.kind \in Functions THEN F.TSCDelta ELSE 0)
  IN IF TSC - RewindingTSC >= CycleThreshold
       THEN [s EXCEPT !.C.UndoableTailExits = 0]
       ELSE [undoWrites(s, 2, TSC) EXCEPT !.C.UndoableTailExits = @ - 1,
                                          !.C.LatestTSC = RewindingTSC]

\* The loop: every turn moves RewindingRecordPtr back by one record.
RewindTailExits(s, TSC) ==
  LET n == s.C.UndoableTailExits
      turn[i \in 0..n] ==
        IF i = 0 THEN s
        ELSE LET t == turn[i - 1] IN
             IF t.C.UndoableTailExits = 0 THEN t
             ELSE RewindTailExit(t, s.B.Units[Len(s.B.Units) + 1 - i], TSC)
  IN turn[n]

rewindRecords(s, TSC) ==
  LET F == Last(s)
      t == [undoWrites(s, 1, TSC) EXCEPT !.C.LatestTSC = @ - F.TSCDelta,
                                         !.C.UndoableFunctionEnters = @ - 1,
                                         !.C.LastFunctionEntryTSC = @ - F.TSCDelta]
  IN IF t.C.UndoableFunctionEnters # 0
       THEN t
       ELSE RewindTailExits([t EXCEPT !.C.LastFunctionEntryTSC = 0], TSC)
----------------------------------------------------------------------------
(* The controller's operations, each the whole call                        *)

Short(s, kind, TSC) ==
  /\ kind = "NoChange" /\ s.C.UndoableFunctionEnters # 0
  /\ TSC - s.C.LastFunctionEntryTSC < CycleThreshold

\* rewindRecords gives up when the generation changed, after its first undo.
Rewind(s, TSC, e) == IF e = "regen" THEN undoWrites(s, 1, TSC) ELSE rewindRecords(s, TSC)

\* Mutated: the entries before a metadata record stay undoable.
EnterCounted(s, kind, id, TSC, CPU, e) ==
  Stamp([s EXCEPT !.C.UndoableFunctionEnters = @ + 1,
                  !.C.LastFunctionEntryTSC = TSC], "Enter", id, TSC, CPU, << >>, 1)

functionEnter(s, kind, id, TSC, CPU, e) ==
  LET t == IF kind # "NoChange"
             THEN [s EXCEPT !.C.UndoableFunctionEnters = 1, !.C.UndoableTailExits = 0]
             ELSE [s EXCEPT !.C.UndoableFunctionEnters = @ + 1]
  IN Stamp([t EXCEPT !.C.LastFunctionEntryTSC = TSC], "Enter", id, TSC, CPU, << >>, 1)

functionTailExit(s, kind, id, TSC, CPU, e) ==
  LET undoable == s.C.UndoableFunctionEnters # 0
      t == [s EXCEPT !.C.UndoableTailExits = IF undoable THEN @ + 1 ELSE 0,
                     !.C.UndoableFunctionEnters = 0,
                     !.torn = @ \/ (undoable /\ kind # "NoChange")]
  IN IF Short(s, kind, TSC) THEN Rewind(s, TSC, e)
     ELSE Stamp(t, "TailExit", id, TSC, CPU, << >>, 1)

functionEnterArg(s, kind, id, TSC, CPU, e) ==
  Stamp([NotUndoable(s) EXCEPT !.C.LastFunctionEntryTSC = 0],
        "EnterArg", id, TSC, CPU, Metadata("CallArgument", 0, NoCPU), 3)

\* Mutated: a call that takes exactly CycleThreshold is taken back.
ExitInclusive(s, kind, id, TSC, CPU, e) ==
  IF Short(s, kind, TSC - 1)
    THEN Rewind(s, TSC, e)
    ELSE Stamp(NotUndoable(s), "Exit", id, TSC, CPU, << >>, 1)

functionExit(s, kind, id, TSC, CPU, e) ==
  IF Short(s, kind, TSC)
    THEN Rewind(s, TSC, e)
    ELSE Stamp(NotUndoable(s), "Exit", id, TSC, CPU, << >>, 1)

\* An event's marker and payload, of which n units are added to the extents.
Event(s, kind, TSC, CPU, n) ==
  writeRecord([NotUndoable(s) EXCEPT !.C.LatestTSC = TSC],
              Marker(kind, Delta(s, TSC), TSC, CPU) \o <<[kind |-> "payload"]>>, n)

\* Mutated: the extents do not count the marker.
CustomUncounted(s, kind, id, TSC, CPU, e) == Event(s, "CustomEvent", TSC, CPU, 1)

customEvent(s, kind, id, TSC, CPU, e) == Event(s, "CustomEvent", TSC, CPU, 3)

\* writeTypedEvent adds the size of the payload, but not of the marker, to the
\* extents.
typedEvent(s, kind, id, TSC, CPU, e) == Event(s, "TypedEvent", TSC, CPU, 1)

\* What all operations begin with; S is the space they ask prepareBuffer for.
Perform(op(_, _, _, _, _, _), S, id, TSC, CPU, e) ==
  LET p == prepareBuffer(Now, S, e)
      kind == Preamble(p.s.C, TSC, CPU)
  IN CASE e = "start" -> returnBuffer(Now)
       [] e # "start" /\ ~p.ok -> returnBuffer(p.s)
       [] e = "regen" /\ p.ok /\ kind # "NoChange" ->
            returnBuffer([p.s EXCEPT !.C.LatestTSC = TSC, !.C.LatestCPU = CPU])
       [] OTHER -> op(recordPreamble(p.s, TSC, CPU), kind, id, TSC, CPU, e)

\* The thread makes a call: the controller's, and the clock's, the CPU's and
\* the rest of the program's part in it.
Call(op(_, _, _, _, _, _), S, id) ==
  /\ calls < MaxCalls
  /\ \E CPU \in CPUs, TSC \in {now + d : d \in Steps} \cup {1},
        e \in {"start", "setup", "nobuffer", "regen", "never"} :
       /\ BQ.finalizing => e = "start"
       /\ e = "nobuffer" => ~hasSpace(Now, S)
       /\ e = "setup" => C.First \/ ~hasSpace(Now, S)
       /\ e = "regen" => BQ.Generation < MaxGenerations
       /\ LET s == Perform(op, S, id, TSC, CPU, e)
          IN B' = s.B /\ C' = s.C /\ torn' = s.torn /\ cut' = s.cut
       /\ BQ' = [finalizing |-> e \in {"start", "setup"},
                 Generation |-> BQ.Generation + (IF e = "regen" THEN 1 ELSE 0)]
       /\ now' = TSC
  /\ calls' = calls + 1

\* Functions are entered and left last in, first out; a call's number is its id.
Enter(op(_, _, _, _, _, _), S) ==
  /\ Len(stack) < MaxDepth
  /\ Call(op, S, calls + 1)
  /\ stack' = <<calls + 1>> \o stack

Leave(op(_, _, _, _, _, _)) ==
  /\ stack # << >>
  /\ Call(op, 3, Head(stack))
  /\ stack' = Tail(stack)

EnterFunction == Enter(functionEnter, 3)
EnterWithArg == Enter(functionEnterArg, 5)
Exit == Leave(functionExit)
TailExit == Leave(functionTailExit)
CustomEvent == Call(customEvent, 5, 0) /\ UNCHANGED stack
TypedEvent == Call(typedEvent, 5, 0) /\ UNCHANGED stack

flush ==
  /\ B # NoBuffer
  /\ LET s == returnBuffer(Now) IN B' = s.B /\ C' = s.C /\ cut' = << >>
  /\ UNCHANGED <<BQ, now, stack, calls, torn>>

\* BufferQueue::init: a new generation.
Reinit ==
  /\ BQ.finalizing /\ BQ.Generation < MaxGenerations
  /\ BQ' = [finalizing |-> FALSE, Generation |-> BQ.Generation + 1]
  /\ cut' = << >>
  /\ UNCHANGED <<B, C, now, stack, calls, torn>>

Next ==
  \/ EnterFunction \/ EnterWithArg \/ Exit \/ TailExit
  \/ CustomEvent \/ TypedEvent \/ flush \/ Reinit

Spec == Init /\ [][Next]_vars
----------------------------------------------------------------------------
(* Properties                                                              *)

Heads == {"NewBuffer", "WalltimeMarker", "Pid", "NewCPUId", "TSCWrap",
          "CallArgument"} \cup Events

\* The units of B are whole records: two units for a metadata record, and
\* behind an event's marker its payload.
Readable ==
  \A i \in DOMAIN B.Units :
    LET k == B.Units[i].kind
        next == IF i = Len(B.Units) THEN "none" ELSE B.Units[i + 1].kind
    IN /\ k \in Heads <=> next = "half"
       /\ (k = "half" /\ B.Units[i - 1].kind \in Events) <=> next = "payload"

\* What a reader of the log computes: the time and the CPU after i units.
Decoded ==
  LET d[i \in 0..Len(B.Units)] ==
        IF i = 0 THEN [TSC |-> 0, CPU |-> NoCPU]
        ELSE LET u == B.Units[i] IN
             CASE u.kind = "NewCPUId" -> [TSC |-> u.TSC, CPU |-> u.CPU]
               [] u.kind = "TSCWrap" -> [d[i - 1] EXCEPT !.TSC = u.TSC]
               [] u.kind \in Functions \cup Events -> [d[i - 1] EXCEPT !.TSC = @ + u.TSCDelta]
               [] OTHER -> d[i - 1]
  IN d

\* The log stays readable however calls are taken back: records are written,
\* and undone, as a whole, within the buffer, unless a tail exit was counted as
\* undoable behind a metadata record (recordPreamble, rewindRecords).  And the
\* extents, which are what a reader is given of the buffer, end behind the last
\* whole record, unless there are typed events: writeTypedEvent does not count
\* its marker, so that each one puts the end of the log two units further back.
RecordsWhole ==
  ~torn =>
    /\ Readable /\ Len(B.Units) <= BufferSize
    /\ B.Extents = Len(B.Units)
         - 2 * Cardinality({i \in DOMAIN B.Units : B.Units[i].kind = "TypedEvent"})

\* A reader of the units recovers from the 32-bit differences the time and the
\* CPU at which every record that is left was written: no difference is ever
\* narrowed to another one, whatever was taken back before it, and across
\* migrations and clocks that jump ahead or go back (recordPreamble).
TimesDecode ==
  ~torn =>
    LET d == Decoded IN
    \A i \in DOMAIN B.Units :
      B.Units[i].kind \in Functions \cup Events =>
        d[i] = [TSC |-> B.Units[i].TSC, CPU |-> B.Units[i].CPU]

\* The entries that may be taken back are the innermost functions the thread
\* is in, they end the log, and LastFunctionEntryTSC is the innermost one's time
\* (the DCHECKs of rewindRecords on the record it takes back).
UndoableEntriesOnTop ==
  LET n == C.UndoableFunctionEnters
      last == Len(B.Units)
  IN B.Generation = BQ.Generation /\ ~torn =>
       /\ n <= Len(stack) /\ n <= last
       /\ \A i \in 1..n : /\ B.Units[last + 1 - i].kind = "Enter"
                          /\ B.Units[last + 1 - i].id = stack[i]
       /\ n > 0 => C.LastFunctionEntryTSC = B.Units[last].TSC

\* Only what the threshold allows is taken back: a call that lasted at least
\* CycleThreshold keeps its records, and so do arguments and events.
OnlyShortCallsErased ==
  ~torn => \A i \in DOMAIN cut : /\ cut[i].unit.kind = "Enter"
                                 /\ cut[i].at - cut[i].unit.TSC < CycleThreshold
============================================================================
