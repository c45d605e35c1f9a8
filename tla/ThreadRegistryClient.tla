------------------------- MODULE ThreadRegistryClient -------------------------
(***************************************************************************)
(* A client of ThreadRegistry that keeps to its contract and no more: a    *)
(* user_id names one thread at a time, a thread is started and finished    *)
(* once, and a thread that was started is joined or detached once.         *)
(***************************************************************************)
EXTENDS ThreadRegistry

CONSTANT MaxCreates    \* bound on CreateThread calls

ASSUME MaxCreatesAssumption == MaxCreates \in Nat

VARIABLES
  present,   \* tids of the threads that exist in this process
  open,      \* tids that may still be joined or detached
  joining    \* calls of JoinThread that have not returned

vars == <<registry, present, open, joining>>

ClientInit == Init /\ present = {} /\ open = {} /\ joining = {}

Create ==
  /\ total_threads_ < MaxCreates
  /\ \E user_id \in UserIds \cup {0}, detached \in BOOLEAN :
       /\ user_id # 0 => live_[user_id] = kInvalidTid
       /\ total_threads_ = 0 => detached
       /\ CreateThread(user_id, detached)
  /\ present' = present \cup {NextTid}
  /\ UNCHANGED <<open, joining>>

Start(tid) ==
  /\ Status(tid) = "Created"
  /\ StartThread(tid)
  /\ open' = IF threads_[tid].detached THEN open ELSE open \cup {tid}
  /\ UNCHANGED <<present, joining>>

Finish(tid) ==
  /\ Status(tid) \in {"Created", "Running"}
  /\ FinishThread(tid)
  /\ present' = present \ {tid}
  /\ UNCHANGED <<open, joining>>

Join(tid) ==
  /\ tid \in open
  /\ open' = open \ {tid}
  /\ joining' = joining \cup {[tid |-> tid, unique_id |-> threads_[tid].unique_id]}
  /\ UNCHANGED <<registry, present>>

Joined(call) ==
  /\ JoinThread(call.tid)
  /\ joining' = joining \ {call}
  /\ UNCHANGED <<present, open>>

Detach(tid) ==
  /\ tid \in open
  /\ open' = open \ {tid}
  /\ DetachThread(tid)
  /\ UNCHANGED <<present, joining>>

Consume(tid) ==
  /\ tid \in open
  /\ threads_[tid].user_id # 0
  /\ ConsumeThreadUserId(threads_[tid].user_id)
  /\ UNCHANGED <<present, open, joining>>

SetUserId(tid) ==
  /\ tid \in open
  /\ threads_[tid].user_id = 0
  /\ \E u \in UserIds : live_[u] = kInvalidTid /\ SetThreadUserId(tid, u)
  /\ UNCHANGED <<present, open, joining>>

Fork(tid) ==
  /\ Status(tid) = "Running"
  /\ OnFork(tid)
  /\ present' = {tid}
  /\ open' = {}
  /\ joining' = {}

Next ==
  \/ Create
  \/ \E tid \in present : Start(tid) \/ Finish(tid) \/ Fork(tid)
  \/ \E tid \in open : Join(tid) \/ Detach(tid) \/ Consume(tid) \/ SetUserId(tid)
  \/ \E call \in joining : Joined(call)

Spec == ClientInit /\ [][Next]_vars

-----------------------------------------------------------------------------
(* While JoinThread waits, without the mutex, its tid keeps naming the     *)
(* thread it was called for.                                               *)
JoinsTheRightThread ==
  \A call \in joining :
    /\ threads_[call.tid].unique_id = call.unique_id
    /\ Status(call.tid) \in {"Running", "Finished"}
=============================================================================
