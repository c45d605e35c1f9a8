------------------------------- MODULE RWLock -------------------------------
(***************************************************************************)
(* What a reader-writer mutex promises its users: while a thread holds it  *)
(* for writing nobody else holds it at all, and any number of threads may  *)
(* hold it for reading together.  A thread asks first, and is granted the  *)
(* lock later; TryLock is granted without having asked.                    *)
(***************************************************************************)
CONSTANT Threads

VARIABLE mode

Modes == {"out", "wantWrite", "wantRead", "write", "read"}

Init == mode = [t \in Threads |-> "out"]

Ask(t) ==
  /\ mode[t] = "out"
  /\ \E m \in {"wantWrite", "wantRead"} : mode' = [mode EXCEPT ![t] = m]

GrantWrite(t) ==
  /\ mode[t] \in {"out", "wantWrite"}
  /\ \A u \in Threads : mode[u] \notin {"write", "read"}
  /\ mode' = [mode EXCEPT ![t] = "write"]

GrantRead(t) ==
  /\ mode[t] = "wantRead"
  /\ \A u \in Threads : mode[u] # "write"
  /\ mode' = [mode EXCEPT ![t] = "read"]

Release(t) ==
  /\ mode[t] \in {"write", "read"}
  /\ mode' = [mode EXCEPT ![t] = "out"]

Next ==
  \E t \in Threads : Ask(t) \/ GrantWrite(t) \/ GrantRead(t) \/ Release(t)

Spec == Init /\ [][Next]_mode
=============================================================================
