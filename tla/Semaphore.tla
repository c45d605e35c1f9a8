------------------------------ MODULE Semaphore ------------------------------
(***************************************************************************)
(* The futex-based semaphore of sanitizer_common, as a library of actions. *)
(* A client instantiates it once per semaphore object and conjoins its     *)
(* actions with the client's own control flow.                             *)
(*                                                                         *)
(* sem is the atomic counter, sleepers the threads the kernel has queued   *)
(* in FutexWait on its address.                                            *)
(***************************************************************************)
EXTENDS Integers, FiniteSets

CONSTANT Threads

VARIABLES sem, sleepers

TypeOK ==
  /\ sem \in Nat
  /\ sleepers \in SUBSET Threads

Init ==
  /\ sem = 0
  /\ sleepers = {}

(* Wait: the compare-and-swap of count to count - 1 has succeeded.  One    *)
(* that fails reloads count and starts over, and leaves no trace.          *)
WaitTake(t) ==
  /\ t \notin sleepers
  /\ sem > 0
  /\ sem' = sem - 1
  /\ UNCHANGED sleepers

(* Mutated: a compare and a queueing that are not one step. *)
WaitSleepUnchecked(t) ==
  /\ t \notin sleepers
  /\ sleepers' = sleepers \cup {t}
  /\ UNCHANGED sem

(* Wait: count was 0, so FutexWait(&state_, 0).  The kernel compares and   *)
(* queues atomically; when the counter is no longer 0 it returns at once,  *)
(* and the loop of Wait starts over.                                       *)
WaitSleep(t) ==
  /\ t \notin sleepers
  /\ sem = 0
  /\ sleepers' = sleepers \cup {t}
  /\ UNCHANGED sem

(* FutexWait returns although nobody called FutexWake (a signal).          *)
WaitInterrupted(t) ==
  /\ t \in sleepers
  /\ sleepers' = sleepers \ {t}
  /\ UNCHANGED sem

(* Post, first half: the fetch_add.                                        *)
PostAdd(n) ==
  /\ sem' = sem + n
  /\ UNCHANGED sleepers

(* Mutated: the wake-up is lost. *)
PostWakeNobody(n) == n > 0 /\ UNCHANGED <<sem, sleepers>>

(* Post, second half: FutexWake wakes any n of the sleepers, or all.       *)
PostWake(n) ==
  /\ \E woken \in SUBSET sleepers :
       /\ \/ Cardinality(woken) = n
          \/ Cardinality(woken) < n /\ woken = sleepers
       /\ sleepers' = sleepers \ woken
  /\ UNCHANGED sem
=============================================================================
