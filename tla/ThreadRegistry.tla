---------------------------- MODULE ThreadRegistry ----------------------------
(***************************************************************************)
(* ThreadRegistry of sanitizer_common: the contexts of all threads of the  *)
(* program, dead ones included, and the recycling of contexts through a    *)
(* quarantine.  Every operation runs under mtx_ and is one step; only      *)
(* JoinThread gives the mutex up between its attempts.                     *)
(*                                                                         *)
(* The module has the operations and what holds of the registry between    *)
(* them; ThreadRegistryClient calls them in any order their contract       *)
(* allows, and TsanThreads as the interceptors of ThreadSanitizer do.      *)
(***************************************************************************)
EXTENDS Integers, Sequences, FiniteSets

CONSTANTS max_threads_, thread_quarantine_size_, max_reuse_,
          UserIds        \* the values of pthread_t

(* A quarantine of size zero is outside the contract of FinishThread: it   *)
(* marks a context destroyed that has already been reset.  No tool asks    *)
(* for one.                                                                *)
ASSUME RegistryAssumption ==
  /\ max_threads_ \in Nat \ {0}
  /\ thread_quarantine_size_ \in Nat \ {0}
  /\ max_reuse_ \in Nat
  /\ UserIds \subseteq Nat \ {0}

VARIABLES
  threads_,          \* tid |-> context
  dead_threads_,     \* the quarantine, oldest first
  invalid_threads_,  \* tids to be used again
  live_,             \* user_id |-> tid
  total_threads_, alive_threads_, max_alive_threads_, running_threads_,
  checks             \* no CHECK has failed

registry == <<threads_, dead_threads_, invalid_threads_, live_, total_threads_,
              alive_threads_, max_alive_threads_, running_threads_, checks>>

kMainTid == 0
kInvalidTid == -1

Tids == DOMAIN threads_
Status(tid) == threads_[tid].status

NewContext ==
  [status |-> "Invalid", user_id |-> 0, unique_id |-> 0, reuse_count |-> 0,
   detached |-> FALSE, destroyed |-> FALSE]

Init ==
  /\ threads_ = [tid \in {} |-> NewContext]
  /\ dead_threads_ = <<>>
  /\ invalid_threads_ = <<>>
  /\ live_ = [u \in UserIds |-> kInvalidTid]
  /\ total_threads_ = 0
  /\ alive_threads_ = 0
  /\ max_alive_threads_ = 0
  /\ running_threads_ = 0
  /\ checks = TRUE

Check(condition) == checks' = (checks /\ condition)

Erase(user_id) ==
  live_' = IF user_id = 0 THEN live_ ELSE [live_ EXCEPT ![user_id] = kInvalidTid]

(* SetDead and SetJoined change the context in the same way.               *)
Dead(context) == [context EXCEPT !.status = "Dead", !.user_id = 0]

(* Mutated: the state of the join protocol survives the reset. *)
ResetKeepsDestroyed(context) ==
  [context EXCEPT !.status = "Invalid", !.reuse_count = @ + 1]

Reset(context) ==
  [context EXCEPT !.status = "Invalid", !.destroyed = FALSE, !.reuse_count = @ + 1]

(* QuarantinePush of the dead thread tid, when the contexts are ths: the   *)
(* oldest thread leaves a full quarantine, its context is reset and, if it *)
(* is not worn out, used again.                                            *)
Leaves(tid) ==
  IF tid = kMainTid \/ Len(dead_threads_) < thread_quarantine_size_ THEN {}
  ELSE {Head(Append(dead_threads_, tid))}

AfterPush(ths, tid) ==
  [t \in DOMAIN ths |-> IF t \in Leaves(tid) THEN Reset(ths[t]) ELSE ths[t]]

PushChecked(ths, tid) == \A t \in Leaves(tid) : ths[t].status = "Dead"

(* Mutated: the thread that leaves is not taken out of the list. *)
QuarantinePushKeeps(ths, tid) ==
  /\ dead_threads_' = IF tid = kMainTid THEN dead_threads_
                      ELSE Append(dead_threads_, tid)
  /\ invalid_threads_' = IF Leaves(tid) = {} THEN invalid_threads_
                         ELSE Append(invalid_threads_, Head(dead_threads_))

QuarantinePush(ths, tid) ==
  LET dead == Append(dead_threads_, tid)
      worn(t) == max_reuse_ > 0 /\ ths[t].reuse_count + 1 >= max_reuse_
  IN  /\ dead_threads_' = CASE tid = kMainTid -> dead_threads_
                            [] tid # kMainTid /\ Leaves(tid) = {} -> dead
                            [] OTHER -> Tail(dead)
      /\ invalid_threads_' = IF \E t \in Leaves(tid) : ~worn(t)
                             THEN Append(invalid_threads_, Head(dead))
                             ELSE invalid_threads_

-----------------------------------------------------------------------------
(* Operations *)

(* The tid CreateThread returns.  The program dies when there is none.     *)
NextTid ==
  IF invalid_threads_ # <<>> THEN Head(invalid_threads_) ELSE Cardinality(Tids)

Created(context, user_id, detached) ==
  [context EXCEPT !.status = "Created", !.user_id = user_id,
                  !.unique_id = total_threads_, !.detached = detached]

CreateThread(user_id, detached) ==
  LET tid == NextTid
      old == IF tid \in Tids THEN threads_[tid] ELSE NewContext
  IN  /\ tid < max_threads_
      /\ threads_' = [t \in Tids \cup {tid} |->
                        IF t = tid THEN Created(old, user_id, detached)
                        ELSE threads_[t]]
      /\ invalid_threads_' = IF tid \in Tids THEN Tail(invalid_threads_)
                             ELSE invalid_threads_
      /\ alive_threads_' = alive_threads_ + 1
      /\ max_alive_threads_' = IF max_alive_threads_ < alive_threads_ + 1
                               THEN max_alive_threads_ + 1 ELSE max_alive_threads_
      /\ live_' = IF user_id = 0 THEN live_ ELSE [live_ EXCEPT ![user_id] = tid]
      /\ total_threads_' = total_threads_ + 1
      /\ Check(/\ old.status = "Invalid"
               /\ alive_threads_ + 1 <= max_alive_threads_'
               /\ user_id # 0 => live_[user_id] = kInvalidTid)
      /\ UNCHANGED <<dead_threads_, running_threads_>>

StartThread(tid) ==
  /\ running_threads_' = running_threads_ + 1
  /\ threads_' = [threads_ EXCEPT ![tid].status = "Running"]
  /\ Check(Status(tid) = "Created")
  /\ UNCHANGED <<dead_threads_, invalid_threads_, live_, total_threads_,
                 alive_threads_, max_alive_threads_>>

Buried(tid) == [threads_ EXCEPT ![tid] = Dead(@)]

(* Mutated: the user_id of a finished thread stays in live_. *)
DetachThreadNoErase(tid) ==
  /\ IF Status(tid) = "Finished"
       THEN threads_' = AfterPush(Buried(tid), tid) /\ QuarantinePush(Buried(tid), tid)
       ELSE /\ threads_' = [threads_ EXCEPT ![tid].detached = TRUE]
            /\ UNCHANGED <<dead_threads_, invalid_threads_>>
  /\ UNCHANGED <<live_, total_threads_, alive_threads_, max_alive_threads_,
                 running_threads_, checks>>

DetachThread(tid) ==
  /\ CASE Status(tid) = "Finished" ->
            /\ threads_' = AfterPush(Buried(tid), tid)
            /\ QuarantinePush(Buried(tid), tid)
            /\ Erase(threads_[tid].user_id)
            /\ Check(PushChecked(Buried(tid), tid))
       [] Status(tid) = "Invalid" ->
            UNCHANGED <<threads_, dead_threads_, invalid_threads_, live_, checks>>
       [] OTHER ->
            /\ threads_' = [threads_ EXCEPT ![tid].detached = TRUE]
            /\ UNCHANGED <<dead_threads_, invalid_threads_, live_, checks>>
  /\ UNCHANGED <<total_threads_, alive_threads_, max_alive_threads_,
                 running_threads_>>

(* The attempt of JoinThread that ends its loop: the thread is destroyed,  *)
(* or does not exist (which is reported).                                  *)
JoinThread(tid) ==
  /\ Status(tid) = "Invalid" \/ threads_[tid].destroyed
  /\ IF Status(tid) = "Invalid" THEN UNCHANGED registry
     ELSE /\ threads_' = AfterPush(Buried(tid), tid)
          /\ QuarantinePush(Buried(tid), tid)
          /\ Erase(threads_[tid].user_id)
          /\ Check(/\ ~threads_[tid].detached /\ Status(tid) = "Finished"
                   /\ PushChecked(Buried(tid), tid))
          /\ UNCHANGED <<total_threads_, alive_threads_, max_alive_threads_,
                         running_threads_>>

(* Mutated: a joinable thread is dead when it finishes. *)
FinishThreadDead(tid) ==
  LET wasRunning == Status(tid) = "Running"
  IN  /\ alive_threads_' = alive_threads_ - 1
      /\ running_threads_' = running_threads_ - (IF wasRunning THEN 1 ELSE 0)
      /\ threads_' = [AfterPush(Buried(tid), tid) EXCEPT ![tid].destroyed = TRUE]
      /\ QuarantinePush(Buried(tid), tid)
      /\ Erase(threads_[tid].user_id)
      /\ UNCHANGED <<total_threads_, max_alive_threads_, checks>>

(* FinishThread.  A thread that was never started is dead at once, as a    *)
(* detached one is.  destroyed is set last, after the quarantine.          *)
FinishThread(tid) ==
  LET wasRunning == Status(tid) = "Running"
      dead == threads_[tid].detached \/ ~wasRunning
      finished == IF dead THEN AfterPush(Buried(tid), tid)
                  ELSE [threads_ EXCEPT ![tid].status = "Finished"]
  IN  /\ alive_threads_' = alive_threads_ - 1
      /\ running_threads_' = running_threads_ - (IF wasRunning THEN 1 ELSE 0)
      /\ threads_' = [finished EXCEPT ![tid].destroyed = TRUE]
      /\ IF dead THEN QuarantinePush(Buried(tid), tid) /\ Erase(threads_[tid].user_id)
         ELSE UNCHANGED <<dead_threads_, invalid_threads_, live_>>
      /\ Check(/\ alive_threads_ > 0
               /\ wasRunning => running_threads_ > 0
               /\ ~wasRunning => Status(tid) = "Created"
               /\ dead => PushChecked(Buried(tid), tid))
      /\ UNCHANGED <<total_threads_, max_alive_threads_>>

ConsumeThreadUserId(user_id) ==
  LET tid == live_[user_id]
  IN  /\ live_' = [live_ EXCEPT ![user_id] = kInvalidTid]
      /\ threads_' = IF tid = kInvalidTid THEN threads_
                     ELSE [threads_ EXCEPT ![tid].user_id = 0]
      /\ Check(tid # kInvalidTid /\ threads_[tid].user_id = user_id)
      /\ UNCHANGED <<dead_threads_, invalid_threads_, total_threads_,
                     alive_threads_, max_alive_threads_, running_threads_>>

SetThreadUserId(tid, user_id) ==
  /\ threads_' = [threads_ EXCEPT ![tid].user_id = user_id]
  /\ live_' = [live_ EXCEPT ![user_id] = tid]
  /\ Check(/\ Status(tid) \notin {"Invalid", "Dead"}
           /\ threads_[tid].user_id = 0
           /\ live_[user_id] = kInvalidTid)
  /\ UNCHANGED <<dead_threads_, invalid_threads_, total_threads_,
                 alive_threads_, max_alive_threads_, running_threads_>>

(* In the child process, where only the thread tid exists.                 *)
OnFork(tid) ==
  LET purged == {t \in Tids \ {tid} : threads_[t].user_id # 0}
  IN  /\ threads_' = [t \in Tids |-> IF t \in purged
                                     THEN [threads_[t] EXCEPT !.user_id = 0]
                                     ELSE threads_[t]]
      /\ live_' = [u \in UserIds |-> IF \E t \in purged : threads_[t].user_id = u
                                     THEN kInvalidTid ELSE live_[u]]
      /\ Check(\A t \in purged : live_[threads_[t].user_id] # kInvalidTid)
      /\ UNCHANGED <<dead_threads_, invalid_threads_, total_threads_,
                     alive_threads_, max_alive_threads_, running_threads_>>

-----------------------------------------------------------------------------
(* Properties *)

TypeOK ==
  /\ \A tid \in Tids :
       threads_[tid].status \in {"Invalid", "Created", "Running", "Finished", "Dead"}
  /\ dead_threads_ \in Seq(Tids) /\ invalid_threads_ \in Seq(Tids)
  /\ live_ \in [UserIds -> Tids \cup {kInvalidTid}]
  /\ {total_threads_, alive_threads_, max_alive_threads_, running_threads_} \subseteq Nat

(* The CHECKs of the registry hold for every client that keeps to the      *)
(* contract.                                                               *)
ChecksHold == checks

WithStatus(S) == {tid \in Tids : Status(tid) \in S}

(* live_ and the user_ids of the contexts are inverse to each other, and   *)
(* no dead thread keeps a user_id, which the system may give to a new      *)
(* thread.  alive_threads_ ("Created or running") and running_threads_     *)
(* count the contexts, whichever way each thread went.                     *)
LiveMatchesContexts ==
  /\ \A u \in UserIds :
       live_[u] # kInvalidTid =>
         /\ threads_[live_[u]].user_id = u
         /\ Status(live_[u]) \notin {"Dead", "Invalid"}
  /\ \A tid \in Tids :
       threads_[tid].user_id # 0 => live_[threads_[tid].user_id] = tid
  /\ alive_threads_ = Cardinality(WithStatus({"Created", "Running"}))
  /\ running_threads_ = Cardinality(WithStatus({"Running"}))

(* The dead threads are in quarantine, each of them once and never more    *)
(* than it may hold; a context that was reset is used again or worn out.   *)
Once(list, S) ==
  /\ {list[k] : k \in DOMAIN list} = S
  /\ Len(list) = Cardinality(S)

Recycling ==
  /\ Once(dead_threads_, WithStatus({"Dead"}) \ {kMainTid})
  /\ Len(dead_threads_) <= thread_quarantine_size_
  /\ Once(invalid_threads_,
          {tid \in WithStatus({"Invalid"}) :
             max_reuse_ = 0 \/ threads_[tid].reuse_count < max_reuse_})
=============================================================================
