----------------------------- MODULE MCMutexLive -----------------------------
(***************************************************************************)
(* Liveness of Mutex.  The mutex lets newcomers overtake blocked threads   *)
(* ("After wake up both writers and readers compete"), so a thread may     *)
(* starve while others keep coming; what it must not do is hang once they  *)
(* stop.  Each thread therefore makes at most MaxCalls calls.              *)
(***************************************************************************)
EXTENDS Mutex

CONSTANT MaxCalls

VARIABLE calls

LiveInit == Init /\ calls = [t \in Threads |-> 0]

BoundedCall(t) ==
  /\ calls[t] < MaxCalls
  /\ Call(t)
  /\ calls' = [calls EXCEPT ![t] = @ + 1]

Step(t) == Progress(t) /\ UNCHANGED calls

LiveNext ==
  \E t \in Threads :
    BoundedCall(t) \/ Step(t) \/ (Interrupted(t) /\ UNCHANGED calls)

(* A runnable thread is eventually scheduled; nobody has to call, and the  *)
(* kernel has to interrupt nobody.                                         *)
LiveSpec ==
  /\ LiveInit
  /\ [][LiveNext]_<<vars, calls>>
  /\ \A t \in Threads : WF_<<vars, calls>>(Step(t))

(* Every Lock and every ReadLock returns: no interleaving of the unlocks   *)
(* that skip a wake-up because of a spin flag strands a blocked thread.    *)
EveryRequestGranted ==
  \A t \in Threads :
    /\ pc[t] = "lock" ~> pc[t] = "locked"
    /\ pc[t] = "rlock" ~> pc[t] = "rlocked"
=============================================================================
