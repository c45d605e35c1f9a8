------------------------ MODULE ThreadRegistryProofs ------------------------
(***************************************************************************)
(* Proofs about ThreadRegistry and a client that keeps to its contract,    *)
(* for any number of threads, any size of the quarantine and any bound on  *)
(* the reuse of contexts.                                                  *)
(***************************************************************************)
EXTENDS ThreadRegistryClient, CountingLemmas

Statuses == {"Invalid", "Created", "Running", "Finished", "Dead"}

Context ==
  [status : Statuses, user_id : UserIds \cup {0}, unique_id : Nat, reuse_count : Nat,
   detached : BOOLEAN, destroyed : BOOLEAN]

(* The tids in use are the first ones, so Cardinality(Tids) is a new one.  *)
Types ==
  /\ IsFiniteSet(Tids) /\ Tids = 0 .. Cardinality(Tids) - 1
  /\ threads_ \in [Tids -> Context]
  /\ dead_threads_ \in Seq(Tids) /\ invalid_threads_ \in Seq(Tids)
  /\ live_ \in [UserIds -> Tids \cup {kInvalidTid}]
  /\ total_threads_ \in Nat /\ max_alive_threads_ \in Nat

(* list has every element of S in one place, and nothing else.             *)
Listed(list, S) ==
  /\ \A k \in 1 .. Len(list) : list[k] \in S
  /\ \A x \in S : \E k \in 1 .. Len(list) : list[k] = x
  /\ \A j, k \in 1 .. Len(list) : list[j] = list[k] => j = k

Worn(tid) == max_reuse_ # 0 /\ threads_[tid].reuse_count >= max_reuse_

(* The lists of Recycling, and that the thread of a context is over when   *)
(* it is destroyed.                                                        *)
Lists ==
  /\ Listed(dead_threads_, {t \in Tids : Status(t) = "Dead" /\ t # kMainTid})
  /\ Len(dead_threads_) <= thread_quarantine_size_
  /\ Listed(invalid_threads_, {t \in Tids : Status(t) = "Invalid" /\ ~Worn(t)})

Over == \A tid \in Tids : threads_[tid].destroyed <=> Status(tid) \in {"Finished", "Dead"}

Live ==
  /\ \A u \in UserIds :
       live_[u] # kInvalidTid =>
         threads_[live_[u]].user_id = u /\ Status(live_[u]) \notin {"Dead", "Invalid"}
  /\ \A tid \in Tids :
       threads_[tid].user_id # 0 => live_[threads_[tid].user_id] = tid

Alive == WithStatus({"Created", "Running"})
Running == WithStatus({"Running"})

Counted ==
  /\ alive_threads_ = Cardinality(Alive)
  /\ running_threads_ = Cardinality(Running)
  /\ alive_threads_ <= max_alive_threads_

(* The invariant of the registry between its operations.                   *)
RInv == Types /\ Lists /\ Over /\ Live /\ Counted /\ checks = TRUE

(* What the client keeps to: who may be joined or detached is running or   *)
(* finished and joinable, and a join in progress excludes another one.     *)
CInv ==
  /\ present \subseteq Tids /\ open \subseteq Tids
  /\ \A tid \in open :
       Status(tid) \in {"Running", "Finished"} /\ threads_[tid].detached = FALSE
  /\ \A call \in joining :
       /\ call \in [tid : Tids, unique_id : Nat]
       /\ threads_[call.tid].unique_id = call.unique_id
       /\ Status(call.tid) \in {"Running", "Finished"}
       /\ threads_[call.tid].detached = FALSE
       /\ call.tid \notin open

IInv == RInv /\ CInv

-----------------------------------------------------------------------------
(* Lists *)

(* A new element at the end.                                               *)
LEMMA ListedAppend ==
  ASSUME NEW D, NEW list \in Seq(D), NEW S, Listed(list, S), NEW x \in D, x \notin S
  PROVE  Append(list, x) \in Seq(D) /\ Listed(Append(list, x), S \cup {x})
<1> DEFINE longer == Append(list, x)
<1>1. /\ longer \in Seq(D) /\ Len(longer) = Len(list) + 1 /\ Len(list) \in Nat
      /\ \A k \in 1 .. Len(list) : longer[k] = list[k]
      /\ longer[Len(list) + 1] = x
  OBVIOUS
<1> HIDE DEF longer
<1>2. \A k \in 1 .. Len(longer) : longer[k] \in S \cup {x}
  BY <1>1 DEF Listed
<1>3. \A y \in S \cup {x} : \E k \in 1 .. Len(longer) : longer[k] = y
  <2>1. \A y \in S : \E k \in 1 .. Len(longer) : longer[k] = y
    BY <1>1 DEF Listed
  <2> QED BY <1>1, <2>1
<1>4. \A j, k \in 1 .. Len(longer) : longer[j] = longer[k] => j = k
  <2>1. \A k \in 1 .. Len(list) : longer[k] # x
    BY <1>1, Zenon DEF Listed
  <2> QED BY <1>1, <2>1 DEF Listed
<1> QED BY <1>1, <1>2, <1>3, <1>4, Zenon DEF Listed, longer

(* The first element gone.                                                 *)
LEMMA ListedTail ==
  ASSUME NEW D, NEW list \in Seq(D), NEW S, Listed(list, S), list # <<>>
  PROVE  /\ Head(list) \in S /\ Head(list) \in D
         /\ Tail(list) \in Seq(D) /\ Listed(Tail(list), S \ {Head(list)})
<1> DEFINE rest == Tail(list)
<1>1. /\ rest \in Seq(D) /\ Len(rest) = Len(list) - 1 /\ Len(list) \in Nat \ {0}
      /\ \A k \in 1 .. Len(rest) : rest[k] = list[k + 1]
      /\ Head(list) = list[1] /\ list[1] \in D
  OBVIOUS
<1>2. list[1] \in S
  BY <1>1 DEF Listed
<1> HIDE DEF rest
<1>3. \A k \in 1 .. Len(rest) : rest[k] \in S \ {list[1]}
  BY <1>1, SMTT(60) DEF Listed
<1>4. \A y \in S \ {list[1]} : \E k \in 1 .. Len(rest) : rest[k] = y
  <2> SUFFICES ASSUME NEW y \in S \ {list[1]} PROVE \E k \in 1 .. Len(rest) : rest[k] = y
    BY Zenon
  <2>1. PICK k \in 1 .. Len(list) : list[k] = y
    BY Zenon DEF Listed
  <2>2. k # 1 /\ k - 1 \in 1 .. Len(rest) /\ rest[k - 1] = y
    BY <1>1, <2>1
  <2> QED BY <2>2, Zenon
<1>5. \A j, k \in 1 .. Len(rest) : rest[j] = rest[k] => j = k
  BY <1>1 DEF Listed
<1> QED BY <1>1, <1>2, <1>3, <1>4, <1>5, Zenon DEF Listed, rest

(* The length of a list is the number of its elements.                     *)
LEMMA ListedOnce ==
  ASSUME NEW D, NEW list \in Seq(D), NEW S, Listed(list, S)
  PROVE  Once(list, S)
<1>1. Len(list) \in Nat /\ DOMAIN list = 1 .. Len(list) /\ list \in [1 .. Len(list) -> S]
  BY DEF Listed
<1>2. list \in Bijection(1 .. Len(list), S)
  BY <1>1, Zenon DEF Listed, Bijection, Injection, Surjection, IsInjective
<1>3. IsFiniteSet(1 .. Len(list)) /\ Cardinality(1 .. Len(list)) = Len(list)
  BY <1>1, FS_Interval, SMTT(60)
<1>4. Cardinality(S) = Cardinality(1 .. Len(list))
  BY <1>2, <1>3, FS_Bijection, Zenon DEF ExistsBijection
<1>5. {list[k] : k \in DOMAIN list} = S
  BY <1>1 DEF Listed
<1> QED BY <1>3, <1>4, <1>5, Zenon DEF Once

-----------------------------------------------------------------------------
(* A thread dies *)

(* What DetachThread, JoinThread and FinishThread do to a thread that is   *)
(* over for good.                                                          *)
Dies(tid) ==
  /\ QuarantinePush(Buried(tid), tid)
  /\ Erase(threads_[tid].user_id)
  /\ DOMAIN threads_' = Tids
  /\ \A t \in Tids \ {tid} :
       threads_'[t] = IF t \in Leaves(tid) THEN Reset(threads_[t]) ELSE threads_[t]
  /\ threads_'[tid] =
       [threads_[tid] EXCEPT !.status = "Dead", !.user_id = 0, !.destroyed = TRUE]
  /\ threads_' = [t \in Tids |-> threads_'[t]]

(* The thread that leaves the quarantine is dead, and not the main thread. *)
LEMMA LeaverIsDead ==
  ASSUME Types, Lists, NEW tid \in Tids, Status(tid) \notin {"Dead", "Invalid"}
  PROVE  /\ tid \notin Leaves(tid)
         /\ \A t \in Leaves(tid) : t \in Tids /\ Status(t) = "Dead" /\ t # kMainTid
         /\ PushChecked(Buried(tid), tid)
         /\ Leaves(tid) = {} \/ /\ Leaves(tid) = {Head(dead_threads_)}
                                /\ Head(Append(dead_threads_, tid)) = Head(dead_threads_)
                                /\ dead_threads_ # <<>> /\ tid # kMainTid
<1> DEFINE D == {t \in Tids : Status(t) = "Dead" /\ t # kMainTid}
<1>1. dead_threads_ \in Seq(Tids) /\ Listed(dead_threads_, D)
  BY Zenon DEF Types, Lists
<1>2. CASE Leaves(tid) = {}
  BY <1>2, Zenon DEF PushChecked
<1>3. CASE Leaves(tid) # {}
  <2>1. /\ tid # kMainTid /\ Len(dead_threads_) >= thread_quarantine_size_
        /\ Leaves(tid) = {Head(Append(dead_threads_, tid))}
    BY <1>1, <1>3, RegistryAssumption DEF Leaves
  <2>2. dead_threads_ # <<>> /\ Head(Append(dead_threads_, tid)) = Head(dead_threads_)
    BY <1>1, <2>1, RegistryAssumption
  <2>3. Head(dead_threads_) \in D
    BY <1>1, <2>2, ListedTail, Zenon
  <2>4. \A t \in Leaves(tid) : t \in Tids /\ Status(t) = "Dead" /\ t # kMainTid /\ t # tid
    BY <2>1, <2>2, <2>3, Zenon
  <2>5. PushChecked(Buried(tid), tid)
    BY <2>4, Zenon DEF PushChecked, Buried, Status, Tids
  <2> QED BY <2>1, <2>2, <2>4, <2>5, Zenon
<1> QED BY <1>2, <1>3, Zenon

(* A context that dies, field by field.                                    *)
LEMMA ContextDead ==
  ASSUME NEW c \in Context, NEW d,
         d = [c EXCEPT !.status = "Dead", !.user_id = 0, !.destroyed = TRUE]
  PROVE  /\ d \in Context /\ d.status = "Dead" /\ d.user_id = 0 /\ d.destroyed = TRUE
         /\ d.unique_id = c.unique_id /\ d.reuse_count = c.reuse_count
         /\ d.detached = c.detached
<1>1. /\ d.status = "Dead" /\ d.user_id = 0
      /\ d.unique_id = c.unique_id /\ d.reuse_count = c.reuse_count
  BY Zenon DEF Context
<1>2. d.detached = c.detached
  BY Zenon DEF Context
<1>3. d.destroyed = TRUE
  BY Zenon DEF Context
<1>4. d \in Context
  BY Zenon DEF Context, Statuses
<1> QED BY <1>1, <1>2, <1>3, <1>4, Zenon

(* A context that is reset.                                                *)
LEMMA ContextReset ==
  ASSUME NEW c \in Context, NEW d, d = Reset(c)
  PROVE  /\ d \in Context /\ d.status = "Invalid" /\ d.user_id = c.user_id
         /\ d.destroyed = FALSE /\ d.unique_id = c.unique_id
         /\ d.reuse_count = c.reuse_count + 1 /\ d.detached = c.detached
<1>1. /\ d.status = "Invalid" /\ d.user_id = c.user_id
      /\ d.unique_id = c.unique_id /\ d.reuse_count = c.reuse_count + 1
  BY Zenon DEF Context, Reset
<1>2. d.detached = c.detached
  BY Zenon DEF Context, Reset
<1>3. d.destroyed = FALSE
  BY Zenon DEF Context, Reset
<1>4. d \in Context
  <2>1. c.reuse_count + 1 \in Nat
    BY DEF Context
  <2> QED BY <2>1, Zenon DEF Context, Statuses, Reset
<1> QED BY <1>1, <1>2, <1>3, <1>4, Zenon

(* The contexts afterwards.                                                *)
LEMMA DiesShape ==
  ASSUME Types, Lists, NEW tid \in Tids, Status(tid) \notin {"Dead", "Invalid"}, Dies(tid)
  PROVE  /\ Tids' = Tids /\ threads_' \in [Tids -> Context]
         /\ \A t \in Tids :
              /\ Status(t)' = IF t = tid THEN "Dead"
                              ELSE IF t \in Leaves(tid) THEN "Invalid" ELSE Status(t)
              /\ threads_'[t].user_id = IF t = tid THEN 0 ELSE threads_[t].user_id
              /\ threads_'[t].unique_id = threads_[t].unique_id
              /\ threads_'[t].detached = threads_[t].detached
              /\ threads_'[t].reuse_count =
                   threads_[t].reuse_count + (IF t \in Leaves(tid) THEN 1 ELSE 0)
         /\ \A t \in Tids \ (Leaves(tid) \cup {tid}) : threads_'[t] = threads_[t]
         /\ threads_'[tid].destroyed = TRUE
         /\ \A t \in Leaves(tid) : threads_'[t].destroyed = FALSE
<1>0. /\ tid \notin Leaves(tid) /\ Leaves(tid) \subseteq Tids
      /\ threads_ \in [Tids -> Context] /\ Tids' = Tids
  BY LeaverIsDead, Zenon DEF Types, Dies, Tids
<1>1. /\ threads_'[tid] \in Context /\ threads_'[tid].status = "Dead"
      /\ threads_'[tid].user_id = 0 /\ threads_'[tid].unique_id = threads_[tid].unique_id
      /\ threads_'[tid].detached = threads_[tid].detached
      /\ threads_'[tid].reuse_count = threads_[tid].reuse_count
      /\ threads_'[tid].destroyed = TRUE
  <2>1. threads_[tid] \in Context
    BY <1>0, Zenon
  <2> QED BY <2>1, ContextDead, ZenonT(60) DEF Dies
<1>2. ASSUME NEW t \in Leaves(tid)
      PROVE  /\ threads_'[t] \in Context /\ threads_'[t].status = "Invalid"
             /\ threads_'[t].user_id = threads_[t].user_id
             /\ threads_'[t].unique_id = threads_[t].unique_id
             /\ threads_'[t].detached = threads_[t].detached
             /\ threads_'[t].reuse_count = threads_[t].reuse_count + 1
             /\ threads_'[t].destroyed = FALSE
  <2>1. threads_'[t] = Reset(threads_[t]) /\ threads_[t] \in Context
    BY <1>0, <1>2, Zenon DEF Dies
  <2> QED BY <2>1, ContextReset, Zenon
<1>3. \A t \in Tids \ (Leaves(tid) \cup {tid}) :
        threads_'[t] = threads_[t] /\ threads_[t] \in Context
  BY <1>0, Zenon DEF Dies
<1>4. threads_' \in [Tids -> Context]
  <2>1. \A t \in Tids : threads_'[t] \in Context
    BY <1>1, <1>2, <1>3, Zenon
  <2> QED BY <2>1, Zenon DEF Dies
<1>5. ASSUME NEW t \in Tids
      PROVE  /\ threads_'[t].status = IF t = tid THEN "Dead"
                              ELSE IF t \in Leaves(tid) THEN "Invalid" ELSE Status(t)
             /\ threads_'[t].user_id = IF t = tid THEN 0 ELSE threads_[t].user_id
             /\ threads_'[t].unique_id = threads_[t].unique_id
  BY <1>0, <1>1, <1>2, <1>3, Zenon DEF Status
<1>6. ASSUME NEW t \in Tids PROVE threads_'[t].detached = threads_[t].detached
  BY <1>0, <1>1, <1>2, <1>3, Zenon
<1>7. ASSUME NEW t \in Tids
      PROVE  threads_'[t].reuse_count =
               threads_[t].reuse_count + (IF t \in Leaves(tid) THEN 1 ELSE 0)
  <2>1. threads_[t].reuse_count \in Nat
    BY <1>0, Zenon DEF Context
  <2>2. CASE t \in Leaves(tid)
    BY <1>2, <2>2, Zenon
  <2>3. CASE t \notin Leaves(tid)
    <3>1. threads_'[t].reuse_count = threads_[t].reuse_count
      BY <1>1, <1>3, <2>3, Zenon
    <3> QED BY <2>1, <2>3, <3>1
  <2> QED BY <2>2, <2>3, Zenon
<1>8. /\ threads_'[tid].destroyed = TRUE
      /\ \A t \in Leaves(tid) : threads_'[t].destroyed = FALSE
  BY <1>1, <1>2, Zenon
<1> QED BY <1>0, <1>3, <1>4, <1>5, <1>6, <1>7, <1>8, Zenon DEF Status

(* The quarantine takes the thread, and its oldest one is used again.      *)
LEMMA DiesKeepsLists ==
  ASSUME Types, Lists, NEW tid \in Tids, Status(tid) \notin {"Dead", "Invalid"}, Dies(tid)
  PROVE  Lists' /\ dead_threads_' \in Seq(Tids) /\ invalid_threads_' \in Seq(Tids)
<1> DEFINE D == {t \in Tids : Status(t) = "Dead" /\ t # kMainTid}
           I == {t \in Tids : Status(t) = "Invalid" /\ ~Worn(t)}
           dead == Append(dead_threads_, tid)
<1>1. /\ dead_threads_ \in Seq(Tids) /\ Listed(dead_threads_, D)
      /\ invalid_threads_ \in Seq(Tids) /\ Listed(invalid_threads_, I)
      /\ Len(dead_threads_) <= thread_quarantine_size_ /\ Len(dead_threads_) \in Nat
  BY DEF Types, Lists
<1>2. /\ Tids' = Tids
      /\ \A t \in Tids : Status(t)' = IF t = tid THEN "Dead"
                                      ELSE IF t \in Leaves(tid) THEN "Invalid" ELSE Status(t)
      /\ \A t \in Tids : threads_'[t].reuse_count =
                           threads_[t].reuse_count + (IF t \in Leaves(tid) THEN 1 ELSE 0)
      /\ \A t \in Tids : threads_[t].reuse_count \in Nat
  BY DiesShape, ZenonT(60) DEF Types, Context
<1>3. /\ \A t \in Leaves(tid) : t \in Tids /\ Status(t) = "Dead" /\ t # kMainTid
      /\ tid \notin Leaves(tid)
      /\ Leaves(tid) = {} \/ /\ Leaves(tid) = {Head(dead_threads_)}
                             /\ Head(Append(dead_threads_, tid)) = Head(dead_threads_)
                             /\ dead_threads_ # <<>> /\ tid # kMainTid
  BY LeaverIsDead, Zenon
<1>4. D' = (D \cup ({tid} \ {kMainTid})) \ Leaves(tid)
  BY <1>2, <1>3, Zenon
<1>5. /\ Listed(dead_threads_', D') /\ dead_threads_' \in Seq(Tids)
      /\ Len(dead_threads_') <= thread_quarantine_size_
  <2> HIDE DEF D
  <2>1. CASE tid = kMainTid
    <3>1. dead_threads_' = dead_threads_
      BY <2>1, Zenon DEF Dies, QuarantinePush
    <3>2. D' = D
      BY <1>3, <1>4, <2>1, Zenon
    <3> QED BY <1>1, <3>1, <3>2, Zenon
  <2>2. tid \notin D
    BY Zenon DEF D
  <2>3. dead \in Seq(Tids) /\ Listed(dead, D \cup {tid}) /\ Len(dead) = Len(dead_threads_) + 1
    BY <1>1, <2>2, ListedAppend
  <2>4. CASE tid # kMainTid /\ Leaves(tid) = {}
    <3>1. dead_threads_' = dead /\ Len(dead_threads_) < thread_quarantine_size_
      BY <2>4, Zenon DEF Dies, QuarantinePush, Leaves
    <3>2. D' = D \cup {tid}
      BY <1>4, <2>4, Zenon
    <3> QED BY <1>1, <2>3, <3>1, <3>2, RegistryAssumption
  <2>5. CASE tid # kMainTid /\ Leaves(tid) # {}
    <3>1. dead_threads_' = Tail(dead)
      BY <2>5, Zenon DEF Dies, QuarantinePush
    <3>2. Leaves(tid) = {Head(dead)} /\ dead # <<>>
      BY <1>3, <2>3, <2>5
    <3>3. D' = (D \cup {tid}) \ {Head(dead)}
      BY <1>4, <2>5, <3>2, Zenon
    <3>4. Len(Tail(dead)) = Len(dead_threads_)
      BY <1>1, <2>3
    <3> HIDE DEF dead
    <3>5. Tail(dead) \in Seq(Tids) /\ Listed(Tail(dead), (D \cup {tid}) \ {Head(dead)})
      BY <2>3, <3>2, ListedTail, Zenon
    <3> QED BY <1>1, <3>1, <3>3, <3>4, <3>5, Zenon
  <2> QED BY <2>1, <2>4, <2>5, Zenon
<1>6. Listed(invalid_threads_', I') /\ invalid_threads_' \in Seq(Tids)
  <2> DEFINE worn(t) == max_reuse_ > 0 /\ Buried(tid)[t].reuse_count + 1 >= max_reuse_
  <2>1. \A t \in Leaves(tid) : worn(t) <=> Worn(t)'
    <3>1. \A t \in Leaves(tid) : Buried(tid)[t].reuse_count = threads_[t].reuse_count
      BY <1>3, Zenon DEF Buried, Tids
    <3> QED BY <1>2, <1>3, <3>1, RegistryAssumption DEF Worn
  <2>2. \A t \in Tids \ Leaves(tid) : Worn(t)' <=> Worn(t)
    BY <1>2, RegistryAssumption DEF Worn
  <2>3. I' = I \cup {t \in Leaves(tid) : ~worn(t)}
    BY <1>2, <1>3, <2>1, <2>2, Zenon
  <2>4. invalid_threads_' = IF \E t \in Leaves(tid) : ~worn(t)
                            THEN Append(invalid_threads_, Head(dead)) ELSE invalid_threads_
    BY Zenon DEF Dies, QuarantinePush
  <2> HIDE DEF worn, I
  <2>5. CASE \E t \in Leaves(tid) : ~worn(t)
    <3>1. Leaves(tid) = {Head(dead)} /\ ~worn(Head(dead))
      BY <1>3, <2>5, Zenon
    <3>2. I' = I \cup {Head(dead)} /\ invalid_threads_' = Append(invalid_threads_, Head(dead))
      BY <2>3, <2>4, <3>1, Zenon
    <3>3. Head(dead) \notin I /\ Head(dead) \in Tids
      BY <1>3, <3>1, Zenon DEF I
    <3> HIDE DEF dead
    <3> QED BY <1>1, <3>2, <3>3, ListedAppend, Zenon
  <2>6. CASE ~\E t \in Leaves(tid) : ~worn(t)
    <3>1. I' = I /\ invalid_threads_' = invalid_threads_
      BY <2>3, <2>4, <2>6, Zenon
    <3> QED BY <1>1, <3>1, Zenon
  <2> QED BY <2>5, <2>6, Zenon
<1> QED BY <1>5, <1>6, Zenon DEF Lists

(* A thread that dies leaves the registry in order.                        *)
LEMMA DiesKeeps ==
  ASSUME Types, Lists, Over, Live, NEW tid \in Tids, Status(tid) \notin {"Dead", "Invalid"},
         Dies(tid), UNCHANGED <<total_threads_, max_alive_threads_>>
  PROVE  /\ Types' /\ Lists' /\ Over' /\ Live'
         /\ Alive' = Alive \ {tid} /\ Running' = Running \ {tid}
<1>1. /\ Tids' = Tids /\ threads_' \in [Tids -> Context]
      /\ \A t \in Tids :
           /\ Status(t)' = IF t = tid THEN "Dead"
                           ELSE IF t \in Leaves(tid) THEN "Invalid" ELSE Status(t)
           /\ threads_'[t].user_id = IF t = tid THEN 0 ELSE threads_[t].user_id
  BY DiesShape, ZenonT(60)
<1>2. /\ \A t \in Leaves(tid) : t \in Tids /\ Status(t) = "Dead" /\ t # kMainTid
      /\ tid \notin Leaves(tid)
  BY LeaverIsDead, Zenon
<1>3. /\ threads_ \in [Tids -> Context] /\ live_ \in [UserIds -> Tids \cup {kInvalidTid}]
      /\ threads_[tid].user_id \in UserIds \cup {0}
      /\ 0 \notin UserIds /\ kInvalidTid \notin Tids /\ Tids \subseteq Nat
  <2>1. threads_ \in [Tids -> Context] /\ live_ \in [UserIds -> Tids \cup {kInvalidTid}]
    BY Zenon DEF Types
  <2>2. threads_[tid].user_id \in UserIds \cup {0}
    BY <2>1, Zenon DEF Context
  <2>3. Tids \subseteq Nat /\ kInvalidTid \notin Tids
    <3>1. Cardinality(Tids) \in Nat /\ Tids = 0 .. Cardinality(Tids) - 1
      BY FS_CardinalityType, Zenon DEF Types
    <3> QED BY <3>1 DEF kInvalidTid
  <2> QED BY <2>1, <2>2, <2>3, RegistryAssumption, Zenon
<1>4. /\ live_' \in [UserIds -> Tids \cup {kInvalidTid}]
      /\ \A u \in UserIds :
           live_'[u] = IF u = threads_[tid].user_id THEN kInvalidTid ELSE live_[u]
  BY <1>3, Zenon DEF Dies, Erase
<1>5. Types'
  <2>1. dead_threads_' \in Seq(Tids') /\ invalid_threads_' \in Seq(Tids')
    BY <1>1, DiesKeepsLists, Zenon
  <2> QED BY <1>1, <1>4, <2>1, Zenon DEF Types
<1>6. Lists'
  BY DiesKeepsLists, Zenon
<1>7. Over'
  <2> SUFFICES ASSUME NEW t \in Tids
               PROVE  threads_'[t].destroyed <=> Status(t)' \in {"Finished", "Dead"}
    BY <1>1, Zenon DEF Over
  <2>1. CASE t = tid
    BY <1>1, <2>1, DiesShape, Zenon
  <2>2. CASE t \in Leaves(tid)
    BY <1>1, <1>2, <2>2, DiesShape, Zenon
  <2>3. CASE t \notin Leaves(tid) \cup {tid}
    <3>1. threads_'[t] = threads_[t]
      BY <2>3, DiesShape, Zenon
    <3> QED BY <3>1, Zenon DEF Over, Status
  <2> QED BY <2>1, <2>2, <2>3, Zenon
<1>8. Live'
  <2>1. ASSUME NEW u \in UserIds, live_'[u] # kInvalidTid
        PROVE  threads_'[live_'[u]].user_id = u /\ Status(live_[u])' \notin {"Dead", "Invalid"}
    <3>1. /\ u # threads_[tid].user_id /\ live_'[u] = live_[u] /\ live_[u] \in Tids
          /\ threads_[live_[u]].user_id = u /\ Status(live_[u]) \notin {"Dead", "Invalid"}
      BY <1>3, <1>4, <2>1 DEF Live
    <3>2. live_[u] # tid /\ live_[u] \notin Leaves(tid)
      BY <1>2, <3>1, Zenon
    <3>3. threads_'[live_[u]].user_id = u /\ threads_'[live_[u]].status \notin {"Dead", "Invalid"}
      BY <1>1, <3>1, <3>2, Zenon DEF Status
    <3> QED BY <3>1, <3>3, Zenon DEF Status
  <2>2. ASSUME NEW t \in Tids, threads_'[t].user_id # 0
        PROVE  live_'[threads_'[t].user_id] = t
    <3>1. t # tid /\ threads_'[t].user_id = threads_[t].user_id
      BY <1>1, <2>2, Zenon
    <3>2. threads_[t].user_id \in UserIds /\ live_[threads_[t].user_id] = t
      BY <1>3, <2>2, <3>1, Zenon DEF Live, Context
    <3>3. threads_[t].user_id # threads_[tid].user_id
      BY <3>1, <3>2, <2>2, Zenon DEF Live
    <3> QED BY <1>4, <3>1, <3>2, <3>3, Zenon
  <2> QED BY <1>1, <2>1, <2>2, Zenon DEF Live
<1>9. Alive' = Alive \ {tid} /\ Running' = Running \ {tid}
  BY <1>1, <1>2, Zenon DEF Alive, Running, WithStatus
<1> QED BY <1>5, <1>6, <1>7, <1>8, <1>9, Zenon

-----------------------------------------------------------------------------
(* What the operations have in common *)

(* The tids are natural numbers.                                           *)
LEMMA TidNumbers ==
  ASSUME Types
  PROVE  /\ Cardinality(Tids) \in Nat /\ Tids = 0 .. Cardinality(Tids) - 1
         /\ Tids \subseteq Nat /\ kInvalidTid \notin Tids /\ 0 \notin UserIds
         /\ IsFiniteSet(Alive) /\ IsFiniteSet(Running)
<1>1. Cardinality(Tids) \in Nat /\ Tids = 0 .. Cardinality(Tids) - 1
  BY FS_CardinalityType, Zenon DEF Types
<1>2. IsFiniteSet(Alive) /\ IsFiniteSet(Running)
  BY FS_Subset, Zenon DEF Types, Alive, Running, WithStatus
<1> QED BY <1>1, <1>2, RegistryAssumption DEF kInvalidTid

(* The lists stay right when no context becomes dead or invalid, or ceases *)
(* to be.                                                                  *)
LEMMA ListsFrame ==
  ASSUME Types, Lists, threads_' \in [Tids -> Context],
         UNCHANGED <<dead_threads_, invalid_threads_>>,
         \A t \in Tids : threads_'[t].reuse_count = threads_[t].reuse_count,
         \A t \in Tids : \/ threads_'[t].status = Status(t)
                         \/ /\ threads_'[t].status \notin {"Dead", "Invalid"}
                            /\ Status(t) \notin {"Dead", "Invalid"}
  PROVE  Tids' = Tids /\ Lists'
<1>1. Tids' = Tids
  BY Zenon DEF Tids
<1>2. /\ \A t \in Tids : Status(t)' = "Dead" <=> Status(t) = "Dead"
      /\ \A t \in Tids : Status(t)' = "Invalid" <=> Status(t) = "Invalid"
  BY Zenon DEF Status
<1>3. \A t \in Tids : Worn(t)' <=> Worn(t)
  BY Zenon DEF Worn
<1>4. /\ {t \in Tids : Status(t) = "Dead" /\ t # kMainTid}'
           = {t \in Tids : Status(t) = "Dead" /\ t # kMainTid}
      /\ {t \in Tids : Status(t) = "Invalid" /\ ~Worn(t)}'
           = {t \in Tids : Status(t) = "Invalid" /\ ~Worn(t)}
  BY <1>1, <1>2, <1>3, Zenon
<1> QED BY <1>1, <1>4, Zenon DEF Lists

(* How many threads are alive, and how many are running, when one changes. *)
LEMMA CountedStep ==
  ASSUME Types, Counted, NEW tid,
         Alive' \ {tid} = Alive \ {tid}, Running' \ {tid} = Running \ {tid}
  PROVE  /\ alive_threads_ \in Nat /\ running_threads_ \in Nat
         /\ Cardinality(Alive)' = alive_threads_ + (IF tid \in Alive' THEN 1 ELSE 0)
                                                 - (IF tid \in Alive THEN 1 ELSE 0)
         /\ Cardinality(Running)' = running_threads_ + (IF tid \in Running' THEN 1 ELSE 0)
                                                     - (IF tid \in Running THEN 1 ELSE 0)
         /\ tid \in Alive => alive_threads_ > 0
         /\ tid \in Running => running_threads_ > 0
<1>1. IsFiniteSet(Alive) /\ IsFiniteSet(Running)
  BY TidNumbers, Zenon
<1>2. /\ Cardinality(Alive) \in Nat
      /\ Cardinality(Alive)' = Cardinality(Alive) + (IF tid \in Alive' THEN 1 ELSE 0)
                                                  - (IF tid \in Alive THEN 1 ELSE 0)
  BY <1>1, CardinalityStep, Zenon
<1>3. /\ Cardinality(Running) \in Nat
      /\ Cardinality(Running)' = Cardinality(Running) + (IF tid \in Running' THEN 1 ELSE 0)
                                                      - (IF tid \in Running THEN 1 ELSE 0)
  BY <1>1, CardinalityStep, Zenon
<1>4. tid \in Alive => Cardinality(Alive) > 0
  BY <1>1, <1>2, FS_EmptySet
<1>5. tid \in Running => Cardinality(Running) > 0
  BY <1>1, <1>3, FS_EmptySet
<1> QED BY <1>2, <1>3, <1>4, <1>5, Zenon DEF Counted

(* A context with another status.                                          *)
LEMMA ContextStatus ==
  ASSUME NEW c \in Context, NEW s \in Statuses, NEW d, d = [c EXCEPT !.status = s]
  PROVE  /\ d \in Context /\ d.status = s /\ d.user_id = c.user_id
         /\ d.destroyed = c.destroyed /\ d.unique_id = c.unique_id
         /\ d.reuse_count = c.reuse_count /\ d.detached = c.detached
<1>1. /\ d.status = s /\ d.user_id = c.user_id
      /\ d.unique_id = c.unique_id /\ d.reuse_count = c.reuse_count
  BY Zenon DEF Context
<1>2. d.detached = c.detached
  BY Zenon DEF Context
<1>3. d.destroyed = c.destroyed
  BY Zenon DEF Context
<1>4. d \in Context
  BY Zenon DEF Context
<1> QED BY <1>1, <1>2, <1>3, <1>4, Zenon

(* A context with another user_id.                                         *)
LEMMA ContextUser ==
  ASSUME NEW c \in Context, NEW u \in UserIds \cup {0}, NEW d, d = [c EXCEPT !.user_id = u]
  PROVE  /\ d \in Context /\ d.status = c.status /\ d.user_id = u
         /\ d.destroyed = c.destroyed /\ d.unique_id = c.unique_id
         /\ d.reuse_count = c.reuse_count /\ d.detached = c.detached
<1>1. /\ d.status = c.status /\ d.user_id = u
      /\ d.unique_id = c.unique_id /\ d.reuse_count = c.reuse_count
  BY Zenon DEF Context
<1>2. d.detached = c.detached
  BY Zenon DEF Context
<1>3. d.destroyed = c.destroyed
  BY Zenon DEF Context
<1>4. d \in Context
  BY Zenon DEF Context
<1> QED BY <1>1, <1>2, <1>3, <1>4, Zenon

(* A context that is detached.                                             *)
LEMMA ContextDetached ==
  ASSUME NEW c \in Context, NEW d, d = [c EXCEPT !.detached = TRUE]
  PROVE  /\ d \in Context /\ d.status = c.status /\ d.user_id = c.user_id
         /\ d.destroyed = c.destroyed /\ d.unique_id = c.unique_id
         /\ d.reuse_count = c.reuse_count
<1>1. /\ d.status = c.status /\ d.user_id = c.user_id
      /\ d.unique_id = c.unique_id /\ d.reuse_count = c.reuse_count
  BY Zenon DEF Context
<1>2. d.destroyed = c.destroyed
  BY Zenon DEF Context
<1>3. d \in Context
  BY Zenon DEF Context
<1> QED BY <1>1, <1>2, <1>3, Zenon

(* A context whose thread has finished and waits to be joined.             *)
Finishes(c, d) == d = [c EXCEPT !.status = "Finished", !.destroyed = TRUE]
FinishedFrom(c, d) == /\ d \in Context /\ d.status = "Finished" /\ d.user_id = c.user_id
                      /\ d.destroyed = TRUE /\ d.unique_id = c.unique_id
                      /\ d.reuse_count = c.reuse_count /\ d.detached = c.detached

(* Finishing changes the status and nothing that identifies the thread.    *)
LEMMA ContextFinished ==
  ASSUME NEW c \in Context, NEW d, Finishes(c, d)
  PROVE  FinishedFrom(c, d)
<1>0. d = [c EXCEPT !.status = "Finished", !.destroyed = TRUE]
  BY Zenon DEF Finishes
<1>1. /\ d.status = "Finished" /\ d.user_id = c.user_id
      /\ d.unique_id = c.unique_id /\ d.reuse_count = c.reuse_count
  BY <1>0, Zenon DEF Context
<1>2. d.detached = c.detached
  BY <1>0, Zenon DEF Context
<1>3. d.destroyed = TRUE
  BY <1>0, Zenon DEF Context
<1>4. d \in Context
  BY <1>0, Zenon DEF Context, Statuses
<1> QED BY <1>1, <1>2, <1>3, <1>4, Zenon DEF FinishedFrom

(* A context of a new thread.                                              *)
LEMMA ContextCreated ==
  ASSUME NEW c \in Context, NEW u \in UserIds \cup {0}, NEW b \in BOOLEAN,
         total_threads_ \in Nat, NEW d, d = Created(c, u, b)
  PROVE  /\ d \in Context /\ d.status = "Created" /\ d.user_id = u
         /\ d.destroyed = c.destroyed /\ d.unique_id = total_threads_
         /\ d.reuse_count = c.reuse_count
<1>1. /\ d.status = "Created" /\ d.user_id = u
      /\ d.unique_id = total_threads_ /\ d.reuse_count = c.reuse_count
  BY Zenon DEF Context, Created
<1>2. d.destroyed = c.destroyed
  BY Zenon DEF Context, Created
<1>3. d \in Context
  BY Zenon DEF Context, Created, Statuses
<1> QED BY <1>1, <1>2, <1>3, Zenon

-----------------------------------------------------------------------------
(* The operations *)

(* What an operation on tid leaves to the threads that may be joined.      *)
Kept(t) ==
  /\ Status(t)' = Status(t)
  /\ threads_'[t].unique_id = threads_[t].unique_id
  /\ threads_'[t].detached = threads_[t].detached

Spared(tid) ==
  /\ Tids \subseteq Tids'
  /\ \A t \in Tids \ {tid} : Status(t) \in {"Running", "Finished"} => Kept(t)

(* An operation on the context of tid that leaves the lists alone.         *)
LEMMA ContextStep ==
  ASSUME RInv, NEW tid \in Tids, NEW c \in Context, threads_' = [threads_ EXCEPT ![tid] = c],
         UNCHANGED <<dead_threads_, invalid_threads_, total_threads_, max_alive_threads_>>,
         live_' \in [UserIds -> Tids \cup {kInvalidTid}],
         c.reuse_count = threads_[tid].reuse_count,
         c.destroyed <=> c.status \in {"Finished", "Dead"},
         \/ c.status = Status(tid)
         \/ c.status \notin {"Dead", "Invalid"} /\ Status(tid) \notin {"Dead", "Invalid"}
  PROVE  /\ Types' /\ Lists' /\ Over' /\ Tids' = Tids /\ Spared(tid)
         /\ Alive' \ {tid} = Alive \ {tid} /\ Running' \ {tid} = Running \ {tid}
         /\ tid \in Alive' <=> c.status \in {"Created", "Running"}
         /\ tid \in Running' <=> c.status = "Running"
<1>1. threads_ \in [Tids -> Context]
  BY Zenon DEF RInv, Types
<1>2. /\ threads_' \in [Tids -> Context] /\ threads_'[tid] = c
      /\ \A t \in Tids \ {tid} : threads_'[t] = threads_[t]
  BY <1>1, Zenon
<1>3. Tids' = Tids /\ Lists'
  <2>1. \A t \in Tids : threads_'[t].reuse_count = threads_[t].reuse_count
    BY <1>2, Zenon
  <2>2. \A t \in Tids : \/ threads_'[t].status = Status(t)
                        \/ /\ threads_'[t].status \notin {"Dead", "Invalid"}
                           /\ Status(t) \notin {"Dead", "Invalid"}
    BY <1>2, Zenon DEF Status
  <2> QED BY <1>2, <2>1, <2>2, ListsFrame, Zenon DEF RInv
<1>4. Types'
  BY <1>2, <1>3, Zenon DEF RInv, Types
<1>5. Over'
  <2>1. \A t \in Tids \ {tid} :
          threads_'[t].destroyed <=> threads_'[t].status \in {"Finished", "Dead"}
    BY <1>2, Zenon DEF RInv, Over, Status
  <2>2. threads_'[tid].destroyed <=> threads_'[tid].status \in {"Finished", "Dead"}
    BY <1>2, Zenon
  <2> QED BY <1>3, <2>1, <2>2, Zenon DEF Over, Status
<1>6. Spared(tid)
  BY <1>2, <1>3, Zenon DEF Spared, Kept, Status
<1>7. /\ \A t \in Tids \ {tid} : Status(t)' = Status(t)
      /\ Status(tid)' = c.status
  BY <1>2, Zenon DEF Status
<1>8. /\ Alive' \ {tid} = Alive \ {tid} /\ Running' \ {tid} = Running \ {tid}
      /\ tid \in Alive' <=> c.status \in {"Created", "Running"}
      /\ tid \in Running' <=> c.status = "Running"
  BY <1>3, <1>7, Zenon DEF Alive, Running, WithStatus
<1> QED BY <1>3, <1>4, <1>5, <1>6, <1>8, Zenon

(* live_ stays right when no user_id changes and no thread dies.           *)
LEMMA LiveFrame ==
  ASSUME RInv, NEW tid \in Tids, NEW c \in Context, threads_' = [threads_ EXCEPT ![tid] = c],
         UNCHANGED live_, c.user_id = threads_[tid].user_id,
         Status(tid) \in {"Dead", "Invalid"} \/ c.status \notin {"Dead", "Invalid"}
  PROVE  Live'
<1>1. threads_ \in [Tids -> Context] /\ live_ \in [UserIds -> Tids \cup {kInvalidTid}]
  BY Zenon DEF RInv, Types
<1>2. /\ \A t \in Tids : threads_'[t].user_id = threads_[t].user_id
      /\ \A t \in Tids : Status(t) \notin {"Dead", "Invalid"}
                           => threads_'[t].status \notin {"Dead", "Invalid"}
      /\ Tids' = Tids
  BY <1>1, Zenon DEF Status, Tids
<1>3. \A u \in UserIds :
        live_'[u] # kInvalidTid =>
          threads_'[live_'[u]].user_id = u /\ threads_'[live_'[u]].status \notin {"Dead", "Invalid"}
  BY <1>1, <1>2 DEF RInv, Live
<1>4. \A t \in Tids : threads_'[t].user_id # 0 => live_'[threads_'[t].user_id] = t
  BY <1>2, Zenon DEF RInv, Live
<1> QED BY <1>2, <1>3, <1>4, Zenon DEF Live, Status

(* StartThread of a thread that was created.                               *)
LEMMA StartThreadKeeps ==
  ASSUME RInv, NEW tid \in Tids, Status(tid) = "Created", StartThread(tid)
  PROVE  /\ RInv' /\ Spared(tid) /\ Tids' = Tids /\ Status(tid)' = "Running"
         /\ threads_'[tid].detached = threads_[tid].detached
<1> DEFINE c == [threads_[tid] EXCEPT !.status = "Running"]
<1>1. threads_[tid] \in Context /\ threads_ \in [Tids -> Context]
  BY Zenon DEF RInv, Types
<1>2. /\ c \in Context /\ c.status = "Running" /\ c.user_id = threads_[tid].user_id
      /\ c.destroyed = threads_[tid].destroyed /\ c.reuse_count = threads_[tid].reuse_count
      /\ c.detached = threads_[tid].detached
  BY <1>1, ContextStatus DEF Statuses
<1>3. threads_' = [threads_ EXCEPT ![tid] = c]
  BY Zenon DEF StartThread
<1>4. ~threads_[tid].destroyed
  BY Zenon DEF RInv, Over
<1> HIDE DEF c
<1>5. /\ Types' /\ Lists' /\ Over' /\ Tids' = Tids /\ Spared(tid)
      /\ Alive' \ {tid} = Alive \ {tid} /\ Running' \ {tid} = Running \ {tid}
      /\ tid \in Alive' /\ tid \in Running'
  BY <1>2, <1>3, <1>4, ContextStep, ZenonT(60) DEF StartThread, RInv, Types
<1>6. Live'
  BY <1>2, <1>3, LiveFrame, Zenon DEF StartThread
<1>7. Counted'
  <2>1. tid \in Alive /\ tid \notin Running
    BY Zenon DEF Alive, Running, WithStatus
  <2>2. /\ alive_threads_ \in Nat /\ running_threads_ \in Nat
        /\ Cardinality(Alive)' = alive_threads_ + 1 - 1
        /\ Cardinality(Running)' = running_threads_ + 1 - 0
    BY <1>5, <2>1, CountedStep, Zenon DEF RInv
  <2> QED BY <2>2 DEF StartThread, Counted, RInv
<1>8. checks' = TRUE
  BY Zenon DEF StartThread, Check, RInv
<1>9. Status(tid)' = "Running" /\ threads_'[tid].detached = threads_[tid].detached
  BY <1>1, <1>2, <1>3, Zenon DEF Status
<1> QED BY <1>5, <1>6, <1>7, <1>8, <1>9, Zenon DEF RInv

(* The context of a thread that dies when it was finished before.          *)
LEMMA DeadWasDestroyed ==
  ASSUME NEW c \in Context, c.destroyed = TRUE
  PROVE  Dead(c) = [c EXCEPT !.status = "Dead", !.user_id = 0, !.destroyed = TRUE]
BY Zenon DEF Context, Dead

(* DetachThread and JoinThread of a finished thread: it dies.              *)
LEMMA FinishedDies ==
  ASSUME RInv, NEW tid \in Tids, Status(tid) = "Finished",
         threads_' = AfterPush(Buried(tid), tid), QuarantinePush(Buried(tid), tid),
         Erase(threads_[tid].user_id)
  PROVE  Dies(tid)
<1>1. threads_[tid] \in Context /\ threads_ \in [Tids -> Context]
  BY Zenon DEF RInv, Types
<1>2. threads_[tid].destroyed = TRUE
  <2>1. threads_[tid].destroyed \in BOOLEAN /\ threads_[tid].destroyed
    BY <1>1, Zenon DEF RInv, Over, Context
  <2> QED BY <2>1, Zenon
<1>3. tid \notin Leaves(tid)
  BY LeaverIsDead, Zenon DEF RInv
<1>4. /\ DOMAIN Buried(tid) = Tids /\ Buried(tid)[tid] = Dead(threads_[tid])
      /\ \A t \in Tids \ {tid} : Buried(tid)[t] = threads_[t]
  BY <1>1, Zenon DEF Buried
<1>5. /\ DOMAIN threads_' = Tids /\ threads_' = [t \in Tids |-> threads_'[t]]
      /\ threads_'[tid] = Dead(threads_[tid])
      /\ \A t \in Tids \ {tid} :
           threads_'[t] = IF t \in Leaves(tid) THEN Reset(threads_[t]) ELSE threads_[t]
  BY <1>3, <1>4, Zenon DEF AfterPush
<1> QED BY <1>1, <1>2, <1>5, DeadWasDestroyed, Zenon DEF Dies

(* FinishThread of a thread that nobody will join: it dies.                *)
LEMMA UnjoinedDies ==
  ASSUME RInv, NEW tid \in Tids, Status(tid) \in {"Created", "Running"},
         threads_' = [AfterPush(Buried(tid), tid) EXCEPT ![tid].destroyed = TRUE],
         QuarantinePush(Buried(tid), tid), Erase(threads_[tid].user_id)
  PROVE  Dies(tid)
<1>1. threads_[tid] \in Context /\ threads_ \in [Tids -> Context]
  BY Zenon DEF RInv, Types
<1>2. tid \notin Leaves(tid)
  BY LeaverIsDead, Zenon DEF RInv
<1>3. /\ DOMAIN Buried(tid) = Tids /\ Buried(tid)[tid] = Dead(threads_[tid])
      /\ \A t \in Tids \ {tid} : Buried(tid)[t] = threads_[t]
  BY <1>1, Zenon DEF Buried
<1> DEFINE pushed == AfterPush(Buried(tid), tid)
<1>4. /\ DOMAIN pushed = Tids /\ pushed[tid] = Dead(threads_[tid])
      /\ pushed = [t \in Tids |-> pushed[t]]
      /\ \A t \in Tids \ {tid} :
           pushed[t] = IF t \in Leaves(tid) THEN Reset(threads_[t]) ELSE threads_[t]
  BY <1>2, <1>3, Zenon DEF AfterPush
<1>5. threads_' = [pushed EXCEPT ![tid].destroyed = TRUE]
  BY Zenon
<1> HIDE DEF pushed
<1>6. /\ DOMAIN threads_' = Tids /\ threads_' = [t \in Tids |-> threads_'[t]]
      /\ threads_'[tid] = [Dead(threads_[tid]) EXCEPT !.destroyed = TRUE]
      /\ \A t \in Tids \ {tid} : threads_'[t] = pushed[t]
  BY <1>4, <1>5, Zenon
<1>7. [Dead(threads_[tid]) EXCEPT !.destroyed = TRUE]
        = [threads_[tid] EXCEPT !.status = "Dead", !.user_id = 0, !.destroyed = TRUE]
  BY <1>1, Zenon DEF Dead, Context
<1> QED BY <1>4, <1>6, <1>7, Zenon DEF Dies

(* What the death of a thread leaves to the others.                        *)
LEMMA DiesSpares ==
  ASSUME RInv, NEW tid \in Tids, Status(tid) \notin {"Dead", "Invalid"}, Dies(tid),
         UNCHANGED <<total_threads_, max_alive_threads_>>
  PROVE  /\ Types' /\ Lists' /\ Over' /\ Live' /\ Tids' = Tids /\ Spared(tid)
         /\ Alive' = Alive \ {tid} /\ Running' = Running \ {tid}
         /\ PushChecked(Buried(tid), tid)
<1>1. /\ Types' /\ Lists' /\ Over' /\ Live'
      /\ Alive' = Alive \ {tid} /\ Running' = Running \ {tid}
  BY DiesKeeps, Zenon DEF RInv
<1>2. Tids' = Tids /\ \A t \in Tids \ (Leaves(tid) \cup {tid}) : threads_'[t] = threads_[t]
  BY DiesShape, Zenon DEF RInv
<1>3. PushChecked(Buried(tid), tid) /\ \A t \in Leaves(tid) : Status(t) = "Dead"
  BY LeaverIsDead, Zenon DEF RInv
<1>4. Spared(tid)
  BY <1>2, <1>3, Zenon DEF Spared, Kept, Status
<1> QED BY <1>1, <1>2, <1>3, <1>4, Zenon

(* JoinThread of a finished thread.                                        *)
LEMMA JoinThreadKeeps ==
  ASSUME RInv, NEW tid \in Tids, Status(tid) \in {"Running", "Finished"},
         threads_[tid].detached = FALSE, JoinThread(tid)
  PROVE  RInv' /\ Spared(tid) /\ Tids' = Tids
<1>1. Status(tid) = "Finished"
  BY Zenon DEF JoinThread, RInv, Over
<1>2. Dies(tid)
  BY <1>1, FinishedDies, Zenon DEF JoinThread
<1>3. /\ Types' /\ Lists' /\ Over' /\ Live' /\ Tids' = Tids /\ Spared(tid)
      /\ Alive' = Alive \ {tid} /\ Running' = Running \ {tid}
      /\ PushChecked(Buried(tid), tid)
  BY <1>1, <1>2, DiesSpares, Zenon DEF JoinThread
<1>4. Counted'
  <2>1. Alive' = Alive /\ Running' = Running
    BY <1>1, <1>3, Zenon DEF Alive, Running, WithStatus
  <2> QED BY <1>1, <2>1, Zenon DEF JoinThread, Counted, RInv
<1>5. checks' = TRUE
  BY <1>1, <1>3, Zenon DEF JoinThread, Check, RInv
<1> QED BY <1>3, <1>4, <1>5, Zenon DEF RInv

(* DetachThread of a thread that nobody joins.                             *)
LEMMA DetachThreadKeeps ==
  ASSUME RInv, NEW tid \in Tids, Status(tid) \in {"Running", "Finished"}, DetachThread(tid)
  PROVE  RInv' /\ Spared(tid) /\ Tids' = Tids
<1>1. CASE Status(tid) = "Finished"
  <2>1. /\ threads_' = AfterPush(Buried(tid), tid) /\ QuarantinePush(Buried(tid), tid)
        /\ Erase(threads_[tid].user_id) /\ Check(PushChecked(Buried(tid), tid))
        /\ UNCHANGED <<total_threads_, alive_threads_, max_alive_threads_, running_threads_>>
    BY <1>1, Zenon DEF DetachThread
  <2>2. Dies(tid)
    BY <1>1, <2>1, FinishedDies, Zenon
  <2>3. /\ Types' /\ Lists' /\ Over' /\ Live' /\ Tids' = Tids /\ Spared(tid)
        /\ Alive' = Alive \ {tid} /\ Running' = Running \ {tid}
        /\ PushChecked(Buried(tid), tid)
    BY <1>1, <2>1, <2>2, DiesSpares, Zenon
  <2>4. Counted'
    <3>1. Alive' = Alive /\ Running' = Running
      BY <1>1, <2>3, Zenon DEF Alive, Running, WithStatus
    <3> QED BY <2>1, <3>1, Zenon DEF Counted, RInv
  <2>5. checks' = TRUE
    BY <2>1, <2>3, Zenon DEF Check, RInv
  <2> QED BY <2>3, <2>4, <2>5, Zenon DEF RInv
<1>2. CASE Status(tid) = "Running"
  <2> DEFINE c == [threads_[tid] EXCEPT !.detached = TRUE]
  <2>1. /\ threads_' = [threads_ EXCEPT ![tid] = c]
        /\ UNCHANGED <<dead_threads_, invalid_threads_, live_, checks>>
        /\ UNCHANGED <<total_threads_, alive_threads_, max_alive_threads_, running_threads_>>
    BY <1>2, Zenon DEF DetachThread
  <2>2. threads_[tid] \in Context
    BY Zenon DEF RInv, Types
  <2>3. /\ c \in Context /\ c.status = "Running" /\ c.user_id = threads_[tid].user_id
        /\ c.destroyed = threads_[tid].destroyed /\ c.reuse_count = threads_[tid].reuse_count
    BY <1>2, <2>2, ContextDetached, Zenon DEF Status
  <2>4. ~threads_[tid].destroyed
    BY <1>2, Zenon DEF RInv, Over
  <2> HIDE DEF c
  <2>5. /\ Types' /\ Lists' /\ Over' /\ Tids' = Tids /\ Spared(tid)
        /\ Alive' \ {tid} = Alive \ {tid} /\ Running' \ {tid} = Running \ {tid}
        /\ tid \in Alive' /\ tid \in Running'
    BY <1>2, <2>1, <2>3, <2>4, ContextStep, Zenon DEF RInv, Types
  <2>6. Live'
    BY <2>1, <2>3, LiveFrame, Zenon
  <2>7. Counted'
    <3>1. tid \in Alive /\ tid \in Running
      BY <1>2, Zenon DEF Alive, Running, WithStatus
    <3>2. Alive' = Alive /\ Running' = Running
      BY <2>5, <3>1
    <3> QED BY <2>1, <3>2, Zenon DEF Counted, RInv
  <2> QED BY <2>1, <2>5, <2>6, <2>7, Zenon DEF RInv
<1> QED BY <1>1, <1>2, Zenon

(* FinishThread of a thread that was created, started or not.              *)
LEMMA FinishThreadKeeps ==
  ASSUME RInv, NEW tid \in Tids, Status(tid) \in {"Created", "Running"}, FinishThread(tid)
  PROVE  /\ RInv' /\ Spared(tid) /\ Tids' = Tids
         /\ Status(tid) = "Running" /\ threads_[tid].detached = FALSE =>
              /\ Status(tid)' = "Finished" /\ threads_'[tid].detached = FALSE
              /\ threads_'[tid].unique_id = threads_[tid].unique_id
<1> DEFINE dead == threads_[tid].detached \/ Status(tid) # "Running"
<1>1. /\ alive_threads_' = alive_threads_ - 1
      /\ running_threads_' = running_threads_ - (IF Status(tid) = "Running" THEN 1 ELSE 0)
      /\ UNCHANGED <<total_threads_, max_alive_threads_>>
      /\ Check(/\ alive_threads_ > 0
               /\ Status(tid) = "Running" => running_threads_ > 0
               /\ Status(tid) # "Running" => Status(tid) = "Created"
               /\ dead => PushChecked(Buried(tid), tid))
  BY Zenon DEF FinishThread
<1>2. threads_[tid] \in Context /\ threads_ \in [Tids -> Context]
  BY Zenon DEF RInv, Types
<1>3. /\ Types' /\ Lists' /\ Over' /\ Live' /\ Tids' = Tids /\ Spared(tid)
      /\ Alive' = Alive \ {tid} /\ Running' = Running \ {tid}
      /\ dead => PushChecked(Buried(tid), tid)
      /\ ~dead => /\ threads_'[tid].status = "Finished"
                  /\ threads_'[tid].detached = threads_[tid].detached
                  /\ threads_'[tid].unique_id = threads_[tid].unique_id
  <2>1. CASE dead
    <3>1. Dies(tid)
      BY <2>1, UnjoinedDies, Zenon DEF FinishThread
    <3> QED BY <1>1, <2>1, <3>1, DiesSpares, Zenon
  <2>2. CASE ~dead
    <3> DEFINE c == [threads_[tid] EXCEPT !.status = "Finished", !.destroyed = TRUE]
    <3>1. /\ c \in Context /\ c.status = "Finished" /\ c.user_id = threads_[tid].user_id
          /\ c.destroyed = TRUE /\ c.reuse_count = threads_[tid].reuse_count
          /\ c.detached = threads_[tid].detached /\ c.unique_id = threads_[tid].unique_id
      <4>1. Finishes(threads_[tid], c)
        BY Zenon DEF Finishes
      <4> HIDE DEF c
      <4>2. threads_[tid] \in Context
        BY <1>2, Zenon
      <4>3. FinishedFrom(threads_[tid], c)
        BY <4>1, <4>2, ContextFinished, Zenon
      <4> QED BY <4>3, Zenon DEF FinishedFrom
    <3>2. /\ threads_' = [[threads_ EXCEPT ![tid].status = "Finished"]
                            EXCEPT ![tid].destroyed = TRUE]
          /\ UNCHANGED <<dead_threads_, invalid_threads_, live_>>
      BY <2>2, Zenon DEF FinishThread
    <3>3. threads_' = [threads_ EXCEPT ![tid] = c]
      BY <1>2, <3>2, Zenon
    <3> HIDE DEF c
    <3>4. /\ Types' /\ Lists' /\ Over' /\ Tids' = Tids /\ Spared(tid)
          /\ Alive' \ {tid} = Alive \ {tid} /\ Running' \ {tid} = Running \ {tid}
          /\ tid \notin Alive' /\ tid \notin Running'
      <4>1. /\ c.destroyed <=> c.status \in {"Finished", "Dead"}
            /\ c.status \notin {"Dead", "Invalid"} /\ c.status \notin {"Created", "Running"}
        BY <3>1, Zenon
      <4>2. live_' \in [UserIds -> Tids \cup {kInvalidTid}]
        BY <3>2, Zenon DEF RInv, Types
      <4> QED BY <1>1, <3>1, <3>2, <3>3, <4>1, <4>2, ContextStep, ZenonT(60)
    <3>5. Live'
      BY <3>1, <3>2, <3>3, LiveFrame, Zenon
    <3>6. threads_'[tid] = c
      BY <1>2, <3>3, Zenon
    <3> QED BY <2>2, <3>1, <3>4, <3>5, <3>6, Zenon
  <2> QED BY <2>1, <2>2, Zenon
<1>4. Counted' /\ alive_threads_ > 0 /\ (Status(tid) = "Running" => running_threads_ > 0)
  <2>1. tid \in Alive /\ (tid \in Running <=> Status(tid) = "Running")
    BY Zenon DEF Alive, Running, WithStatus
  <2>2. /\ alive_threads_ \in Nat /\ running_threads_ \in Nat
        /\ Cardinality(Alive)' = alive_threads_ + 0 - 1
        /\ Cardinality(Running)'
             = running_threads_ + 0 - (IF Status(tid) = "Running" THEN 1 ELSE 0)
        /\ alive_threads_ > 0 /\ (Status(tid) = "Running" => running_threads_ > 0)
    <3>1. /\ Alive' \ {tid} = Alive \ {tid} /\ Running' \ {tid} = Running \ {tid}
          /\ tid \notin Alive' /\ tid \notin Running'
      BY <1>3, Zenon
    <3> QED BY <2>1, <3>1, CountedStep, Zenon DEF RInv
  <2>3. max_alive_threads_ \in Nat /\ alive_threads_ <= max_alive_threads_
    BY Zenon DEF RInv, Types, Counted
  <2> QED BY <1>1, <2>2, <2>3 DEF Counted
<1>5. checks' = TRUE
  BY <1>1, <1>3, <1>4, Zenon DEF Check, RInv
<1> QED BY <1>3, <1>4, <1>5, Zenon DEF RInv, Status

(* ConsumeThreadUserId of a user_id that names a thread.                   *)
LEMMA ConsumeThreadUserIdKeeps ==
  ASSUME RInv, NEW tid \in Tids, Status(tid) \notin {"Dead", "Invalid"},
         threads_[tid].user_id # 0, ConsumeThreadUserId(threads_[tid].user_id)
  PROVE  RInv' /\ Spared(tid) /\ Kept(tid) /\ Tids' = Tids
<1> DEFINE u == threads_[tid].user_id
           c == [threads_[tid] EXCEPT !.user_id = 0]
<1>1. /\ threads_ \in [Tids -> Context] /\ live_ \in [UserIds -> Tids \cup {kInvalidTid}]
      /\ kInvalidTid \notin Tids
  BY TidNumbers, Zenon DEF RInv, Types
<1>2. threads_[tid] \in Context /\ u \in UserIds
  BY <1>1, Zenon DEF Context
<1>3. live_[u] = tid
  BY Zenon DEF RInv, Live
<1>4. /\ threads_' = [threads_ EXCEPT ![tid] = c]
      /\ live_' = [live_ EXCEPT ![u] = kInvalidTid]
      /\ Check(tid # kInvalidTid /\ threads_[tid].user_id = u)
      /\ UNCHANGED <<dead_threads_, invalid_threads_, total_threads_,
                     alive_threads_, max_alive_threads_, running_threads_>>
  BY <1>1, <1>3, Zenon DEF ConsumeThreadUserId
<1>5. /\ c \in Context /\ c.status = Status(tid) /\ c.user_id = 0
      /\ c.destroyed = threads_[tid].destroyed /\ c.unique_id = threads_[tid].unique_id
      /\ c.reuse_count = threads_[tid].reuse_count /\ c.detached = threads_[tid].detached
  BY <1>2, ContextUser DEF Status
<1>6. live_' \in [UserIds -> Tids \cup {kInvalidTid}] /\ live_'[u] = kInvalidTid
      /\ \A v \in UserIds \ {u} : live_'[v] = live_[v]
  BY <1>1, <1>2, <1>4, Zenon
<1>7. /\ threads_'[tid] = c /\ \A t \in Tids \ {tid} : threads_'[t] = threads_[t]
  BY <1>1, <1>4, Zenon
<1> HIDE DEF c
<1>8. /\ Types' /\ Lists' /\ Over' /\ Tids' = Tids /\ Spared(tid)
      /\ Alive' \ {tid} = Alive \ {tid} /\ Running' \ {tid} = Running \ {tid}
      /\ tid \in Alive' <=> c.status \in {"Created", "Running"}
      /\ tid \in Running' <=> c.status = "Running"
  <2>1. c.destroyed <=> c.status \in {"Finished", "Dead"}
    BY <1>5, Zenon DEF RInv, Over
  <2> QED BY <2>1, <1>4, <1>5, <1>6, ContextStep, Zenon
<1>9. Live'
  <2>1. ASSUME NEW v \in UserIds, live_'[v] # kInvalidTid
        PROVE  threads_'[live_'[v]].user_id = v /\ threads_'[live_'[v]].status \notin {"Dead", "Invalid"}
    <3>1. v # u /\ live_'[v] = live_[v] /\ live_[v] \in Tids
      BY <1>1, <1>6, <2>1, Zenon
    <3>2. threads_[live_[v]].user_id = v /\ Status(live_[v]) \notin {"Dead", "Invalid"}
      BY <2>1, <3>1, Zenon DEF RInv, Live
    <3>3. live_[v] # tid
      BY <3>1, <3>2, Zenon
    <3> QED BY <1>7, <3>1, <3>2, <3>3, Zenon DEF Status
  <2>2. ASSUME NEW t \in Tids, threads_'[t].user_id # 0
        PROVE  live_'[threads_'[t].user_id] = t
    <3>1. t # tid /\ threads_'[t] = threads_[t]
      BY <1>5, <1>7, <2>2, Zenon
    <3>2. threads_[t].user_id \in UserIds /\ live_[threads_[t].user_id] = t
      BY <1>1, <2>2, <3>1 DEF RInv, Live, Context
    <3>3. threads_[t].user_id # u
      BY <1>3, <3>1, <3>2, Zenon
    <3> QED BY <1>6, <3>1, <3>2, <3>3, Zenon
  <2> QED BY <1>8, <2>1, <2>2, Zenon DEF Live, Status
<1>10. Counted'
  <2>1. Alive' = Alive /\ Running' = Running
    BY <1>5, <1>8, Zenon DEF Alive, Running, WithStatus
  <2> QED BY <1>4, <2>1, Zenon DEF Counted, RInv
<1>11. checks' = TRUE
  BY <1>1, <1>4, Zenon DEF Check, RInv
<1>12. Kept(tid)
  BY <1>5, <1>7, Zenon DEF Kept, Status
<1> QED BY <1>8, <1>9, <1>10, <1>11, <1>12, Zenon DEF RInv

(* SetThreadUserId of a thread that has none, to one that names no thread. *)
LEMMA SetThreadUserIdKeeps ==
  ASSUME RInv, NEW tid \in Tids, Status(tid) \notin {"Dead", "Invalid"},
         threads_[tid].user_id = 0, NEW u \in UserIds, live_[u] = kInvalidTid,
         SetThreadUserId(tid, u)
  PROVE  RInv' /\ Spared(tid) /\ Kept(tid) /\ Tids' = Tids
<1> DEFINE c == [threads_[tid] EXCEPT !.user_id = u]
<1>1. /\ threads_ \in [Tids -> Context] /\ live_ \in [UserIds -> Tids \cup {kInvalidTid}]
      /\ kInvalidTid \notin Tids
  BY TidNumbers, Zenon DEF RInv, Types
<1>2. threads_[tid] \in Context
  BY <1>1, Zenon
<1>3. /\ threads_' = [threads_ EXCEPT ![tid] = c]
      /\ live_' = [live_ EXCEPT ![u] = tid]
      /\ checks' = checks
      /\ UNCHANGED <<dead_threads_, invalid_threads_, total_threads_,
                     alive_threads_, max_alive_threads_, running_threads_>>
  BY Zenon DEF SetThreadUserId, Check, RInv
<1>4. /\ c \in Context /\ c.status = Status(tid) /\ c.user_id = u
      /\ c.destroyed = threads_[tid].destroyed /\ c.unique_id = threads_[tid].unique_id
      /\ c.reuse_count = threads_[tid].reuse_count /\ c.detached = threads_[tid].detached
  BY <1>2, ContextUser DEF Status
<1>5. /\ live_' \in [UserIds -> Tids \cup {kInvalidTid}] /\ live_'[u] = tid
      /\ \A v \in UserIds \ {u} : live_'[v] = live_[v]
  BY <1>1, <1>3, Zenon
<1>6. /\ threads_'[tid] = c /\ \A t \in Tids \ {tid} : threads_'[t] = threads_[t]
  BY <1>1, <1>3, Zenon
<1> HIDE DEF c
<1>7. /\ Types' /\ Lists' /\ Over' /\ Tids' = Tids /\ Spared(tid)
      /\ Alive' \ {tid} = Alive \ {tid} /\ Running' \ {tid} = Running \ {tid}
      /\ tid \in Alive' <=> c.status \in {"Created", "Running"}
      /\ tid \in Running' <=> c.status = "Running"
  <2>1. c.destroyed <=> c.status \in {"Finished", "Dead"}
    BY <1>4, Zenon DEF RInv, Over
  <2> QED BY <2>1, <1>3, <1>4, <1>5, ContextStep, Zenon
<1>8. Live'
  <2>1. ASSUME NEW v \in UserIds, live_'[v] # kInvalidTid
        PROVE  threads_'[live_'[v]].user_id = v /\ threads_'[live_'[v]].status \notin {"Dead", "Invalid"}
    <3>1. CASE v = u
      BY <1>4, <1>5, <1>6, <3>1, Zenon
    <3>2. CASE v # u
      <4>1. live_'[v] = live_[v] /\ live_[v] \in Tids
        BY <1>1, <1>5, <2>1, <3>2, Zenon
      <4>2. threads_[live_[v]].user_id = v /\ Status(live_[v]) \notin {"Dead", "Invalid"}
        BY <2>1, <4>1, Zenon DEF RInv, Live
      <4>3. live_[v] # tid
        BY <4>2, RegistryAssumption, Zenon
      <4> QED BY <1>6, <4>1, <4>2, <4>3, Zenon DEF Status
    <3> QED BY <3>1, <3>2, Zenon
  <2>2. ASSUME NEW t \in Tids, threads_'[t].user_id # 0
        PROVE  live_'[threads_'[t].user_id] = t
    <3>1. CASE t = tid
      BY <1>4, <1>5, <1>6, <3>1, Zenon
    <3>2. CASE t # tid
      <4>1. threads_'[t] = threads_[t]
        BY <1>6, <3>2, Zenon
      <4>2. threads_[t].user_id \in UserIds /\ live_[threads_[t].user_id] = t
        BY <1>1, <2>2, <4>1 DEF RInv, Live, Context
      <4>3. threads_[t].user_id # u
        BY <1>1, <4>2, Zenon
      <4> QED BY <1>5, <4>1, <4>2, <4>3, Zenon
    <3> QED BY <3>1, <3>2, Zenon
  <2> QED BY <1>7, <2>1, <2>2, Zenon DEF Live, Status
<1>9. Counted'
  <2>1. Alive' = Alive /\ Running' = Running
    BY <1>4, <1>7, Zenon DEF Alive, Running, WithStatus
  <2> QED BY <1>3, <2>1, Zenon DEF Counted, RInv
<1>10. Kept(tid)
  BY <1>4, <1>6, Zenon DEF Kept, Status
<1> QED BY <1>3, <1>7, <1>8, <1>9, <1>10, Zenon DEF RInv

(* OnFork: the other threads lose their user_ids.                          *)
LEMMA OnForkKeeps ==
  ASSUME RInv, NEW tid \in Tids, OnFork(tid)
  PROVE  RInv' /\ Tids' = Tids
<1> DEFINE purged == {t \in Tids \ {tid} : threads_[t].user_id # 0}
<1>1. /\ threads_ \in [Tids -> Context] /\ live_ \in [UserIds -> Tids \cup {kInvalidTid}]
      /\ kInvalidTid \notin Tids
  BY TidNumbers, Zenon DEF RInv, Types
<1>2. /\ threads_' = [t \in Tids |-> IF t \in purged
                                     THEN [threads_[t] EXCEPT !.user_id = 0]
                                     ELSE threads_[t]]
      /\ live_' = [u \in UserIds |-> IF \E t \in purged : threads_[t].user_id = u
                                     THEN kInvalidTid ELSE live_[u]]
      /\ Check(\A t \in purged : live_[threads_[t].user_id] # kInvalidTid)
      /\ UNCHANGED <<dead_threads_, invalid_threads_, total_threads_,
                     alive_threads_, max_alive_threads_, running_threads_>>
  BY Zenon DEF OnFork
<1>3. \A t \in purged : t \in Tids /\ t # tid /\ threads_[t].user_id \in UserIds
                        /\ live_[threads_[t].user_id] = t
  BY <1>1 DEF RInv, Live, Context
<1>4. ASSUME NEW t \in purged
      PROVE  /\ threads_'[t] \in Context /\ threads_'[t].status = threads_[t].status
             /\ threads_'[t].user_id = 0
             /\ threads_'[t].destroyed = threads_[t].destroyed
             /\ threads_'[t].reuse_count = threads_[t].reuse_count
  <2>1. threads_'[t] = [threads_[t] EXCEPT !.user_id = 0] /\ threads_[t] \in Context
    BY <1>1, <1>2, <1>4, Zenon
  <2> QED BY <2>1, ContextUser
<1>5. \A t \in Tids \ purged :
        /\ threads_'[t] = threads_[t] /\ threads_[t] \in Context
        /\ t = tid \/ threads_[t].user_id = 0
  BY <1>1, <1>2, Zenon
<1>6. \A u \in UserIds : live_'[u] = IF \E t \in purged : threads_[t].user_id = u
                                     THEN kInvalidTid ELSE live_[u]
  BY <1>2, Zenon
<1>7. live_' \in [UserIds -> Tids \cup {kInvalidTid}]
  BY <1>1, <1>2, Zenon
<1>8. purged \subseteq Tids
  BY Zenon
<1>9. threads_' \in [Tids -> Context]
  <2>1. \A t \in Tids : threads_'[t] \in Context
    BY <1>4, <1>5, Zenon
  <2>2. threads_' = [t \in Tids |-> threads_'[t]]
    BY <1>2, Zenon
  <2> QED BY <2>1, <2>2, Zenon
<1> HIDE DEF purged
<1>10. Tids' = Tids /\ Lists'
  <2>1. \A t \in Tids : /\ threads_'[t].reuse_count = threads_[t].reuse_count
                        /\ threads_'[t].status = Status(t)
    BY <1>4, <1>5, Zenon DEF Status
  <2> QED BY <1>2, <1>9, <2>1, ListsFrame, Zenon DEF RInv
<1>11. Types'
  BY <1>2, <1>7, <1>9, <1>10, Zenon DEF RInv, Types
<1>12. Over'
  <2>1. \A t \in Tids : threads_'[t].destroyed <=> threads_'[t].status \in {"Finished", "Dead"}
    BY <1>4, <1>5, Zenon DEF RInv, Over, Status
  <2> QED BY <1>10, <2>1, Zenon DEF Over, Status
<1>13. Live'
  <2>1. ASSUME NEW u \in UserIds, live_'[u] # kInvalidTid
        PROVE  threads_'[live_'[u]].user_id = u /\ threads_'[live_'[u]].status \notin {"Dead", "Invalid"}
    <3>1. /\ live_'[u] = live_[u] /\ live_[u] \in Tids
          /\ ~\E t \in purged : threads_[t].user_id = u
      BY <1>1, <1>6, <2>1, Zenon
    <3>2. threads_[live_[u]].user_id = u /\ Status(live_[u]) \notin {"Dead", "Invalid"}
      BY <2>1, <3>1, Zenon DEF RInv, Live
    <3>3. live_[u] \notin purged
      BY <3>1, <3>2, Zenon
    <3> QED BY <1>5, <3>1, <3>2, <3>3, Zenon DEF Status
  <2>2. ASSUME NEW t \in Tids, threads_'[t].user_id # 0
        PROVE  live_'[threads_'[t].user_id] = t
    <3>1. t \notin purged /\ threads_'[t] = threads_[t] /\ t = tid
      BY <1>4, <1>5, <2>2, Zenon
    <3>2. threads_[t].user_id \in UserIds /\ live_[threads_[t].user_id] = t
      BY <1>1, <2>2, <3>1 DEF RInv, Live, Context
    <3>3. ~\E s \in purged : threads_[s].user_id = threads_[t].user_id
      BY <1>3, <3>1, <3>2, Zenon
    <3> QED BY <1>6, <3>1, <3>2, <3>3, Zenon
  <2> QED BY <1>10, <2>1, <2>2, Zenon DEF Live, Status
<1>14. Counted'
  <2>1. \A t \in Tids : Status(t)' = Status(t)
    BY <1>4, <1>5, Zenon DEF Status
  <2>2. Alive' = Alive /\ Running' = Running
    BY <1>10, <2>1, Zenon DEF Alive, Running, WithStatus
  <2> QED BY <1>2, <2>2, Zenon DEF Counted, RInv
<1>15. checks' = TRUE
  <2>1. \A t \in purged : live_[threads_[t].user_id] # kInvalidTid
    BY <1>1, <1>3, Zenon
  <2> QED BY <1>2, <2>1, Zenon DEF Check, RInv
<1> QED BY <1>10, <1>11, <1>12, <1>13, <1>14, <1>15, Zenon DEF RInv

(* The tid of a new thread: one that waits to be used again, or the next.  *)
LEMMA NextTidIsFree ==
  ASSUME RInv
  PROVE  /\ NextTid \in Nat /\ IsFiniteSet(Tids \cup {NextTid})
         /\ Tids \cup {NextTid} = 0 .. Cardinality(Tids \cup {NextTid}) - 1
         /\ NextTid \in Tids =>
              /\ Status(NextTid) = "Invalid" /\ Tail(invalid_threads_) \in Seq(Tids)
              /\ Listed(Tail(invalid_threads_),
                        {t \in Tids : Status(t) = "Invalid" /\ ~Worn(t)} \ {NextTid})
         /\ NextTid \notin Tids => invalid_threads_ = <<>>
<1> DEFINE I == {t \in Tids : Status(t) = "Invalid" /\ ~Worn(t)}
<1>1. /\ Cardinality(Tids) \in Nat /\ Tids = 0 .. Cardinality(Tids) - 1
      /\ Tids \subseteq Nat /\ IsFiniteSet(Tids)
  BY TidNumbers, Zenon DEF RInv, Types
<1>2. invalid_threads_ \in Seq(Tids) /\ Listed(invalid_threads_, I)
  BY Zenon DEF RInv, Types, Lists
<1>3. CASE invalid_threads_ # <<>>
  <2>1. NextTid = Head(invalid_threads_)
    BY <1>3, Zenon DEF NextTid
  <2> HIDE DEF I
  <2>2. /\ NextTid \in I /\ NextTid \in Tids /\ Tail(invalid_threads_) \in Seq(Tids)
        /\ Listed(Tail(invalid_threads_), I \ {NextTid})
    BY <1>2, <1>3, <2>1, ListedTail, Zenon
  <2>3. Tids \cup {NextTid} = Tids
    BY <2>2, Zenon
  <2> QED BY <1>1, <2>2, <2>3, Zenon DEF I
<1>4. CASE invalid_threads_ = <<>>
  <2>1. NextTid = Cardinality(Tids)
    BY <1>4, Zenon DEF NextTid
  <2>2. NextTid \notin Tids
    BY <1>1, <2>1
  <2>3. /\ IsFiniteSet(Tids \cup {NextTid})
        /\ Cardinality(Tids \cup {NextTid}) = Cardinality(Tids) + 1
    BY <1>1, <2>2, FS_AddElement, Zenon
  <2>4. Tids \cup {NextTid} = 0 .. Cardinality(Tids)
    BY <1>1, <2>1
  <2>5. 0 .. Cardinality(Tids) = 0 .. (Cardinality(Tids) + 1) - 1
    BY <1>1
  <2> QED BY <1>1, <1>4, <2>1, <2>2, <2>3, <2>4, <2>5, Zenon
<1> QED BY <1>3, <1>4, Zenon

(* CreateThread with a user_id that names no thread.                       *)
LEMMA CreateThreadKeeps ==
  ASSUME RInv, NEW u \in UserIds \cup {0}, NEW b \in BOOLEAN,
         u # 0 => live_[u] = kInvalidTid, CreateThread(u, b)
  PROVE  /\ RInv' /\ Spared(NextTid) /\ Tids' = Tids \cup {NextTid}
         /\ NextTid \in Tids => Status(NextTid) = "Invalid"
<1>0. PICK tid : tid = NextTid
  BY Zenon
<1> DEFINE old == IF tid \in Tids THEN threads_[tid] ELSE NewContext
           D == {t \in Tids : Status(t) = "Dead" /\ t # kMainTid}
           I == {t \in Tids : Status(t) = "Invalid" /\ ~Worn(t)}
<1>1. /\ threads_ \in [Tids -> Context] /\ live_ \in [UserIds -> Tids \cup {kInvalidTid}]
      /\ kInvalidTid \notin Tids /\ 0 \notin UserIds /\ total_threads_ \in Nat
      /\ max_alive_threads_ \in Nat
  BY TidNumbers, Zenon DEF RInv, Types
<1>2. /\ tid \in Nat /\ IsFiniteSet(Tids \cup {tid})
      /\ Tids \cup {tid} = 0 .. Cardinality(Tids \cup {tid}) - 1
      /\ tid \in Tids => /\ Status(tid) = "Invalid" /\ Tail(invalid_threads_) \in Seq(Tids)
                         /\ Listed(Tail(invalid_threads_), I \ {tid})
      /\ tid \notin Tids => invalid_threads_ = <<>>
  BY <1>0, NextTidIsFree, Zenon
<1>3. /\ threads_' = [t \in Tids \cup {tid} |-> IF t = tid THEN Created(old, u, b)
                                                ELSE threads_[t]]
      /\ invalid_threads_' = IF tid \in Tids THEN Tail(invalid_threads_)
                             ELSE invalid_threads_
      /\ alive_threads_' = alive_threads_ + 1
      /\ max_alive_threads_' = IF max_alive_threads_ < alive_threads_ + 1
                               THEN max_alive_threads_ + 1 ELSE max_alive_threads_
      /\ live_' = IF u = 0 THEN live_ ELSE [live_ EXCEPT ![u] = tid]
      /\ total_threads_' = total_threads_ + 1
      /\ Check(/\ old.status = "Invalid"
               /\ alive_threads_ + 1 <= max_alive_threads_'
               /\ u # 0 => live_[u] = kInvalidTid)
      /\ UNCHANGED <<dead_threads_, running_threads_>>
  BY <1>0, Zenon DEF CreateThread
<1>4. old \in Context /\ old.status = "Invalid" /\ old.destroyed = FALSE
  <2>1. CASE tid \in Tids
    <3>1. old = threads_[tid] /\ old \in Context /\ old.status = "Invalid"
      BY <1>1, <1>2, <2>1, Zenon DEF Status
    <3>2. old.destroyed \in BOOLEAN /\ ~old.destroyed
      BY <1>2, <2>1, <3>1, Zenon DEF RInv, Over, Context
    <3> QED BY <3>1, <3>2, Zenon
  <2>2. CASE tid \notin Tids
    BY <2>2, Zenon DEF NewContext, Context, Statuses
  <2> QED BY <2>1, <2>2, Zenon
<1> HIDE DEF old
<1>5. /\ threads_'[tid] \in Context /\ threads_'[tid].status = "Created"
      /\ threads_'[tid].user_id = u /\ threads_'[tid].destroyed = FALSE
  <2>1. threads_'[tid] = Created(old, u, b)
    BY <1>3, Zenon
  <2> QED BY <1>1, <1>4, <2>1, ContextCreated, SMTT(60)
<1>6. /\ Tids' = Tids \cup {tid}
      /\ \A t \in Tids \ {tid} : threads_'[t] = threads_[t] /\ threads_[t] \in Context
      /\ threads_' = [t \in Tids \cup {tid} |-> threads_'[t]]
  BY <1>1, <1>3, Zenon DEF Tids
<1>7. threads_' \in [Tids' -> Context]
  <2>1. \A t \in Tids' : threads_'[t] \in Context
    BY <1>5, <1>6, Zenon
  <2> QED BY <1>6, <2>1, Zenon
<1>8. /\ \A t \in Tids \ {tid} : Status(t)' = Status(t)
      /\ Status(tid)' = "Created" /\ (tid \in Tids => Status(tid) = "Invalid")
  BY <1>2, <1>5, <1>6, Zenon DEF Status
<1>9. live_' \in [UserIds -> Tids' \cup {kInvalidTid}]
      /\ \A v \in UserIds : live_'[v] = IF v = u THEN tid ELSE live_[v]
  BY <1>1, <1>3, <1>6, Zenon
<1>10. Lists' /\ dead_threads_' \in Seq(Tids') /\ invalid_threads_' \in Seq(Tids')
  <2>1. D' = D
    BY <1>6, <1>8, Zenon
  <2>2. I' = I \ {tid}
    <3>1. \A t \in Tids \ {tid} : Worn(t)' <=> Worn(t)
      BY <1>6, Zenon DEF Worn
    <3> QED BY <1>6, <1>8, <3>1, Zenon
  <2>3. dead_threads_' \in Seq(Tids')
    BY <1>3, <1>6 DEF RInv, Types
  <2> HIDE DEF D, I
  <2>4. Listed(invalid_threads_', I') /\ invalid_threads_' \in Seq(Tids')
    <3>1. CASE tid \in Tids
      BY <1>2, <1>3, <1>6, <2>2, <3>1, Zenon
    <3>2. CASE tid \notin Tids
      <4>1. Listed(invalid_threads_, I) /\ invalid_threads_ = <<>>
        BY <1>2, <3>2, Zenon DEF RInv, Lists, I
      <4>2. tid \notin I
        BY <3>2, Zenon DEF I
      <4>3. I' = I /\ invalid_threads_' = <<>>
        BY <1>3, <2>2, <3>2, <4>1, <4>2, Zenon
      <4> QED BY <4>1, <4>3
    <3> QED BY <3>1, <3>2, Zenon
  <2>5. Listed(dead_threads_', D') /\ Len(dead_threads_') <= thread_quarantine_size_
    BY <1>3, <2>1, Zenon DEF RInv, Lists, D
  <2> QED BY <2>3, <2>4, <2>5, Zenon DEF Lists, D, I
<1>11. Over'
  <2>1. \A t \in Tids \ {tid} :
          threads_'[t].destroyed <=> threads_'[t].status \in {"Finished", "Dead"}
    BY <1>6, Zenon DEF RInv, Over, Status
  <2>2. threads_'[tid].destroyed <=> threads_'[tid].status \in {"Finished", "Dead"}
    BY <1>5, Zenon
  <2> QED BY <1>6, <2>1, <2>2, Zenon DEF Over, Status
<1>12. Live'
  <2>1. ASSUME NEW v \in UserIds, live_'[v] # kInvalidTid
        PROVE  threads_'[live_'[v]].user_id = v /\ threads_'[live_'[v]].status \notin {"Dead", "Invalid"}
    <3>1. CASE v = u
      BY <1>5, <1>9, <3>1, Zenon
    <3>2. CASE v # u
      <4>1. live_'[v] = live_[v] /\ live_[v] \in Tids
        BY <1>1, <1>9, <2>1, <3>2, Zenon
      <4>2. threads_[live_[v]].user_id = v /\ Status(live_[v]) \notin {"Dead", "Invalid"}
        BY <2>1, <4>1, Zenon DEF RInv, Live
      <4>3. live_[v] # tid
        BY <1>8, <4>1, <4>2, Zenon
      <4> QED BY <1>6, <4>1, <4>2, <4>3, Zenon DEF Status
    <3> QED BY <3>1, <3>2, Zenon
  <2>2. ASSUME NEW t \in Tids', threads_'[t].user_id # 0
        PROVE  live_'[threads_'[t].user_id] = t
    <3>1. CASE t = tid
      BY <1>5, <1>9, <2>2, <3>1, Zenon
    <3>2. CASE t # tid
      <4>1. threads_'[t] = threads_[t] /\ t \in Tids
        BY <1>6, <3>2, Zenon
      <4>2. threads_[t].user_id \in UserIds /\ live_[threads_[t].user_id] = t
        BY <1>1, <2>2, <4>1, SMTT(60) DEF RInv, Live, Context
      <4>3. threads_[t].user_id # u
        BY <1>1, <4>1, <4>2, Zenon
      <4> QED BY <1>9, <4>1, <4>2, <4>3, Zenon
    <3> QED BY <3>1, <3>2, Zenon
  <2> QED BY <2>1, <2>2, Zenon DEF Live, Status
<1>13. Counted' /\ alive_threads_ + 1 <= max_alive_threads_' /\ max_alive_threads_' \in Nat
  <2>1. /\ Alive' \ {tid} = Alive \ {tid} /\ Running' \ {tid} = Running \ {tid}
        /\ tid \in Alive' /\ tid \notin Running' /\ tid \notin Alive /\ tid \notin Running
    BY <1>6, <1>8, Zenon DEF Alive, Running, WithStatus
  <2>2. /\ alive_threads_ \in Nat /\ running_threads_ \in Nat
        /\ Cardinality(Alive)' = alive_threads_ + 1 - 0
        /\ Cardinality(Running)' = running_threads_ + 0 - 0
    BY <2>1, CountedStep, Zenon DEF RInv
  <2>3. alive_threads_ <= max_alive_threads_
    BY Zenon DEF RInv, Counted
  <2>4. alive_threads_ + 1 <= max_alive_threads_' /\ max_alive_threads_' \in Nat
    BY <1>1, <1>3, <2>2, <2>3, SMTT(60)
  <2> QED BY <1>3, <2>2, <2>4, SMTT(60) DEF Counted
<1>14. Types'
  <2>1. IsFiniteSet(Tids') /\ Tids' = 0 .. Cardinality(Tids') - 1
    BY <1>2, <1>6, Zenon
  <2>2. total_threads_' \in Nat
    BY <1>1, <1>3
  <2> QED BY <1>7, <1>9, <1>10, <1>13, <2>1, <2>2, Zenon DEF Types
<1>15. checks' = TRUE
  BY <1>3, <1>4, <1>13, Zenon DEF Check, RInv
<1>16. Spared(tid)
  BY <1>6, Zenon DEF Spared, Kept, Status
<1> QED BY <1>0, <1>6, <1>8, <1>10, <1>11, <1>12, <1>13, <1>14, <1>15, <1>16, Zenon DEF RInv

-----------------------------------------------------------------------------
(* The client *)

(* An operation on tid keeps what the client keeps to when it leaves the   *)
(* others alone and, if tid may still be joined, tid too.                  *)
LEMMA ClientStep ==
  ASSUME CInv, NEW tid, Spared(tid), present' \subseteq Tids',
         open' \subseteq open \cup {tid}, joining' \subseteq joining,
         tid \in open' \/ (\E call \in joining' : call.tid = tid) =>
           /\ tid \in Tids' /\ Status(tid)' \in {"Running", "Finished"}
           /\ threads_'[tid].detached = FALSE,
         (\E call \in joining' : call.tid = tid) =>
           tid \notin open' /\ threads_'[tid].unique_id = threads_[tid].unique_id
  PROVE  CInv'
<1>1. Tids \subseteq Tids'
  BY Zenon DEF Spared
<1>2. \A t \in open \ {tid} : /\ t \in Tids' /\ Status(t)' \in {"Running", "Finished"}
                              /\ threads_'[t].detached = FALSE
  BY <1>1, Zenon DEF CInv, Spared, Kept
<1>3. \A t \in open' : /\ t \in Tids' /\ Status(t)' \in {"Running", "Finished"}
                       /\ threads_'[t].detached = FALSE
  BY <1>2, Zenon
<1>4. ASSUME NEW call \in joining'
      PROVE  /\ call \in [tid : Tids', unique_id : Nat]
             /\ threads_'[call.tid].unique_id = call.unique_id
             /\ Status(call.tid)' \in {"Running", "Finished"}
             /\ threads_'[call.tid].detached = FALSE
             /\ call.tid \notin open'
  <2>1. /\ call \in [tid : Tids, unique_id : Nat] /\ call.tid \in Tids
        /\ threads_[call.tid].unique_id = call.unique_id
        /\ Status(call.tid) \in {"Running", "Finished"}
        /\ threads_[call.tid].detached = FALSE /\ call.tid \notin open
    BY <1>4, Zenon DEF CInv
  <2>2. call \in [tid : Tids', unique_id : Nat]
    BY <1>1, <2>1, Zenon
  <2>3. CASE call.tid = tid
    <3>1. /\ tid \in Tids' /\ Status(tid)' \in {"Running", "Finished"}
          /\ threads_'[tid].detached = FALSE /\ tid \notin open'
          /\ threads_'[tid].unique_id = threads_[tid].unique_id
      BY <1>4, <2>3, Zenon
    <3> QED BY <2>1, <2>2, <2>3, <3>1, Zenon DEF Status
  <2>4. CASE call.tid # tid
    <3>1. Kept(call.tid)
      BY <2>1, <2>4, Zenon DEF Spared
    <3> QED BY <2>1, <2>2, <2>4, <3>1, Zenon DEF Kept, Status
  <2> QED BY <2>3, <2>4, Zenon
<1>5. open' \subseteq Tids'
  BY <1>3, Zenon
<1>6. \A t \in open' : threads_'[t].status \in {"Running", "Finished"}
                       /\ threads_'[t].detached = FALSE
  BY <1>3, Zenon DEF Status
<1>7. \A call \in joining' :
        /\ call \in [tid : Tids', unique_id : Nat]
        /\ threads_'[call.tid].unique_id = call.unique_id
        /\ threads_'[call.tid].status \in {"Running", "Finished"}
        /\ threads_'[call.tid].detached = FALSE
        /\ call.tid \notin open'
  BY <1>4, Zenon DEF Status
<1> QED BY <1>5, <1>6, <1>7, Zenon DEF CInv, Status

(* A thread is created: its tid is none that may be joined.                *)
LEMMA CreateStep == IInv /\ Create => IInv'
<1> SUFFICES ASSUME IInv, Create PROVE IInv'
  BY Zenon
<1>1. PICK u \in UserIds \cup {0}, b \in BOOLEAN :
        (u # 0 => live_[u] = kInvalidTid) /\ CreateThread(u, b)
  BY Zenon DEF Create
<1>2. PICK tid : tid = NextTid
  BY Zenon
<1>3. /\ RInv' /\ Spared(tid) /\ Tids' = Tids \cup {tid}
      /\ tid \in Tids => Status(tid) = "Invalid"
  BY <1>1, <1>2, CreateThreadKeeps, Zenon DEF IInv
<1>4. present' = present \cup {tid} /\ open' = open /\ joining' = joining
  BY <1>2, Zenon DEF Create
<1>5. tid \notin open /\ \A call \in joining : call.tid # tid
  BY <1>3, Zenon DEF IInv, CInv
<1>6. present' \subseteq Tids'
  BY <1>3, <1>4, Zenon DEF IInv, CInv
<1>7. CInv'
  BY <1>3, <1>4, <1>5, <1>6, ClientStep, Zenon DEF IInv
<1> QED BY <1>3, <1>7, Zenon DEF IInv

(* The thread starts, and may be joined if it is not detached.             *)
LEMMA StartStep == ASSUME NEW tid \in present PROVE IInv /\ Start(tid) => IInv'
<1> SUFFICES ASSUME IInv, Start(tid) PROVE IInv'
  BY Zenon
<1>1. tid \in Tids /\ Status(tid) = "Created" /\ threads_[tid].detached \in BOOLEAN
  BY Zenon DEF IInv, CInv, Start, RInv, Types, Context
<1>2. /\ RInv' /\ Spared(tid) /\ Tids' = Tids /\ Status(tid)' = "Running"
      /\ threads_'[tid].detached = threads_[tid].detached
  BY <1>1, StartThreadKeeps, Zenon DEF IInv, Start
<1>3. tid \notin open /\ \A call \in joining : call.tid # tid
  BY <1>1, Zenon DEF IInv, CInv
<1>4. /\ present' \subseteq Tids' /\ joining' = joining /\ open' \subseteq open \cup {tid}
      /\ tid \in open' => threads_[tid].detached = FALSE
  BY <1>1, <1>2, <1>3, Zenon DEF Start, IInv, CInv
<1>5. CInv'
  BY <1>1, <1>2, <1>3, <1>4, ClientStep, Zenon DEF IInv
<1> QED BY <1>2, <1>5, Zenon DEF IInv

(* The thread finishes; if it may be joined, it waits for that.            *)
LEMMA FinishStep == ASSUME NEW tid \in present PROVE IInv /\ Finish(tid) => IInv'
<1> SUFFICES ASSUME IInv, Finish(tid) PROVE IInv'
  BY Zenon
<1>1. tid \in Tids /\ Status(tid) \in {"Created", "Running"}
  BY Zenon DEF IInv, CInv, Finish
<1>2. /\ RInv' /\ Spared(tid) /\ Tids' = Tids
      /\ Status(tid) = "Running" /\ threads_[tid].detached = FALSE =>
           /\ Status(tid)' = "Finished" /\ threads_'[tid].detached = FALSE
           /\ threads_'[tid].unique_id = threads_[tid].unique_id
  BY <1>1, FinishThreadKeeps, Zenon DEF IInv, Finish
<1>3. /\ present' \subseteq Tids' /\ open' = open /\ joining' = joining
  BY <1>2, Zenon DEF Finish, IInv, CInv
<1>4. tid \in open \/ (\E call \in joining : call.tid = tid) =>
        Status(tid) = "Running" /\ threads_[tid].detached = FALSE
  BY <1>1, Zenon DEF IInv, CInv
<1>5. (\E call \in joining : call.tid = tid) => tid \notin open
  BY Zenon DEF IInv, CInv
<1>6. CInv'
  BY <1>1, <1>2, <1>3, <1>4, <1>5, ClientStep, Zenon DEF IInv
<1> QED BY <1>2, <1>6, Zenon DEF IInv

(* JoinThread is called: the thread can be named by no other call.         *)
LEMMA JoinStep == ASSUME NEW tid \in open PROVE IInv /\ Join(tid) => IInv'
<1> SUFFICES ASSUME IInv, Join(tid) PROVE IInv'
  BY Zenon
<1>1. UNCHANGED <<threads_, dead_threads_, invalid_threads_, live_, total_threads_,
                  alive_threads_, max_alive_threads_, running_threads_, checks>>
      /\ present' = present /\ open' = open \ {tid}
  BY Zenon DEF Join, registry
<1>2. RInv'
  BY <1>1 DEF IInv, RInv, Types, Lists, Over, Live, Counted, Alive, Running, WithStatus,
              Worn, Status, Tids
<1>3. /\ tid \in Tids /\ Status(tid) \in {"Running", "Finished"}
      /\ threads_[tid].detached = FALSE /\ threads_[tid].unique_id \in Nat
  BY Zenon DEF IInv, CInv, RInv, Types, Context
<1> DEFINE new == [tid |-> tid, unique_id |-> threads_[tid].unique_id]
<1>4. new \in [tid : Tids, unique_id : Nat] /\ new.tid = tid
      /\ new.unique_id = threads_[tid].unique_id
  BY <1>3, Zenon
<1>5. joining' = joining \cup {new}
  BY Zenon DEF Join
<1> HIDE DEF new
<1>6. \A call \in joining' :
        /\ call \in [tid : Tids, unique_id : Nat]
        /\ threads_[call.tid].unique_id = call.unique_id
        /\ Status(call.tid) \in {"Running", "Finished"}
        /\ threads_[call.tid].detached = FALSE
        /\ call.tid \notin open'
  BY <1>1, <1>3, <1>4, <1>5, Zenon DEF IInv, CInv
<1>7. CInv'
  BY <1>1, <1>6, Zenon DEF IInv, CInv, Status, Tids
<1> QED BY <1>2, <1>7, Zenon DEF IInv

(* JoinThread returns: no other call waits for the same thread.            *)
LEMMA JoinedStep == ASSUME NEW call \in joining PROVE IInv /\ Joined(call) => IInv'
<1> SUFFICES ASSUME IInv, Joined(call) PROVE IInv'
  BY Zenon
<1>0. PICK tid : tid = call.tid
  BY Zenon
<1>1. /\ tid \in Tids /\ Status(tid) \in {"Running", "Finished"}
      /\ threads_[tid].detached = FALSE /\ tid \notin open
  BY <1>0, Zenon DEF IInv, CInv
<1>2. JoinThread(tid) /\ joining' = joining \ {call} /\ present' = present /\ open' = open
  BY <1>0, Zenon DEF Joined
<1>3. RInv' /\ Spared(tid) /\ Tids' = Tids
  BY <1>1, <1>2, JoinThreadKeeps, Zenon DEF IInv
<1>4. \A other \in joining' : other.tid # tid
  <2> SUFFICES ASSUME NEW other \in joining, other.tid = tid PROVE other = call
    BY <1>2, Zenon
  <2>1. /\ other \in [tid : Tids, unique_id : Nat] /\ call \in [tid : Tids, unique_id : Nat]
        /\ other.unique_id = call.unique_id /\ other.tid = call.tid
    BY <1>0 DEF IInv, CInv
  <2> QED BY <2>1
<1>5. present' \subseteq Tids' /\ joining' \subseteq joining /\ open' \subseteq open \cup {tid}
  BY <1>2, <1>3, Zenon DEF IInv, CInv
<1>6. CInv'
  BY <1>1, <1>2, <1>3, <1>4, <1>5, ClientStep, Zenon DEF IInv
<1> QED BY <1>3, <1>6, Zenon DEF IInv

(* DetachThread of a thread that nobody joins.                             *)
LEMMA DetachStep == ASSUME NEW tid \in open PROVE IInv /\ Detach(tid) => IInv'
<1> SUFFICES ASSUME IInv, Detach(tid) PROVE IInv'
  BY Zenon
<1>1. /\ tid \in Tids /\ Status(tid) \in {"Running", "Finished"}
      /\ \A call \in joining : call.tid # tid
  BY Zenon DEF IInv, CInv
<1>2. RInv' /\ Spared(tid) /\ Tids' = Tids
  BY <1>1, DetachThreadKeeps, Zenon DEF IInv, Detach
<1>3. present' = present /\ joining' = joining /\ open' = open \ {tid}
  BY Zenon DEF Detach
<1>4. present' \subseteq Tids'
  BY <1>2, <1>3, Zenon DEF IInv, CInv
<1>5. CInv'
  BY <1>1, <1>2, <1>3, <1>4, ClientStep, Zenon DEF IInv
<1> QED BY <1>2, <1>5, Zenon DEF IInv

(* The user_id of a thread that may be joined is consumed.                 *)
LEMMA ConsumeStep == ASSUME NEW tid \in open PROVE IInv /\ Consume(tid) => IInv'
<1> SUFFICES ASSUME IInv, Consume(tid) PROVE IInv'
  BY Zenon
<1>1. /\ tid \in Tids /\ Status(tid) \in {"Running", "Finished"}
      /\ threads_[tid].detached = FALSE /\ \A call \in joining : call.tid # tid
  BY Zenon DEF IInv, CInv
<1>2. RInv' /\ Spared(tid) /\ Kept(tid) /\ Tids' = Tids
  BY <1>1, ConsumeThreadUserIdKeeps, Zenon DEF IInv, Consume
<1>3. present' = present /\ joining' = joining /\ open' = open
  BY Zenon DEF Consume
<1>4. present' \subseteq Tids'
  BY <1>2, <1>3, Zenon DEF IInv, CInv
<1>5. CInv'
  BY <1>1, <1>2, <1>3, <1>4, ClientStep, Zenon DEF IInv, Kept
<1> QED BY <1>2, <1>5, Zenon DEF IInv

(* A thread that may be joined gets a user_id.                             *)
LEMMA SetUserIdStep == ASSUME NEW tid \in open PROVE IInv /\ SetUserId(tid) => IInv'
<1> SUFFICES ASSUME IInv, SetUserId(tid) PROVE IInv'
  BY Zenon
<1>1. /\ tid \in Tids /\ Status(tid) \in {"Running", "Finished"}
      /\ threads_[tid].detached = FALSE /\ \A call \in joining : call.tid # tid
  BY Zenon DEF IInv, CInv
<1>2. PICK u \in UserIds : live_[u] = kInvalidTid /\ SetThreadUserId(tid, u)
  BY Zenon DEF SetUserId
<1>3. RInv' /\ Spared(tid) /\ Kept(tid) /\ Tids' = Tids
  BY <1>1, <1>2, SetThreadUserIdKeeps, Zenon DEF IInv, SetUserId
<1>4. present' = present /\ joining' = joining /\ open' = open
  BY Zenon DEF SetUserId
<1>5. present' \subseteq Tids'
  BY <1>3, <1>4, Zenon DEF IInv, CInv
<1>6. CInv'
  BY <1>1, <1>3, <1>4, <1>5, ClientStep, Zenon DEF IInv, Kept
<1> QED BY <1>3, <1>6, Zenon DEF IInv

(* The process forks.                                                      *)
LEMMA ForkStep == ASSUME NEW tid \in present PROVE IInv /\ Fork(tid) => IInv'
<1> SUFFICES ASSUME IInv, Fork(tid) PROVE IInv'
  BY Zenon
<1>1. tid \in Tids
  BY Zenon DEF IInv, CInv
<1>2. RInv' /\ Tids' = Tids
  BY <1>1, OnForkKeeps, Zenon DEF IInv, Fork
<1>3. CInv'
  BY <1>1, <1>2, Zenon DEF Fork, CInv
<1> QED BY <1>2, <1>3, Zenon DEF IInv

-----------------------------------------------------------------------------
(* Theorems *)

(* The empty registry.                                                     *)
LEMMA InitKeeps == ClientInit => IInv
<1> SUFFICES ASSUME ClientInit PROVE IInv
  BY Zenon
<1>1. Tids = {} /\ Cardinality(Tids) = 0 /\ IsFiniteSet(Tids)
  BY FS_EmptySet, Zenon DEF ClientInit, Init, Tids
<1>2. Types
  <2>1. Tids = 0 .. Cardinality(Tids) - 1
    BY <1>1
  <2>2. threads_ \in [Tids -> Context]
    BY <1>1, Zenon DEF ClientInit, Init, Tids
  <2>3. live_ \in [UserIds -> Tids \cup {kInvalidTid}]
    BY Zenon DEF ClientInit, Init
  <2>4. /\ dead_threads_ \in Seq(Tids) /\ invalid_threads_ \in Seq(Tids)
        /\ total_threads_ \in Nat /\ max_alive_threads_ \in Nat
    BY DEF ClientInit, Init
  <2> QED BY <1>1, <2>1, <2>2, <2>3, <2>4, Zenon DEF Types
<1>3. Lists
  <2>1. Listed(<<>>, {})
    BY DEF Listed
  <2>2. /\ {t \in Tids : Status(t) = "Dead" /\ t # kMainTid} = {}
        /\ {t \in Tids : Status(t) = "Invalid" /\ ~Worn(t)} = {}
    BY <1>1, Zenon
  <2>3. dead_threads_ = <<>> /\ invalid_threads_ = <<>>
    BY Zenon DEF ClientInit, Init
  <2>4. Len(<<>>) <= thread_quarantine_size_
    BY RegistryAssumption
  <2> QED BY <2>1, <2>2, <2>3, <2>4, Zenon DEF Lists
<1>4. Over
  BY <1>1, Zenon DEF Over
<1>5. Live
  BY <1>1, Zenon DEF Live, ClientInit, Init
<1>6. Counted
  <2>1. Alive = {} /\ Running = {}
    BY <1>1, Zenon DEF Alive, Running, WithStatus
  <2> QED BY <2>1, FS_EmptySet DEF Counted, ClientInit, Init
<1>7. CInv /\ checks = TRUE
  BY Zenon DEF CInv, ClientInit, Init
<1> QED BY <1>2, <1>3, <1>4, <1>5, <1>6, <1>7, Zenon DEF IInv, RInv

(* The invariant of the registry and of its client holds in every          *)
(* behaviour: whatever threads create, finish, join, detach and fork in    *)
(* any order, and however often contexts are used again.                   *)
THEOREM Invariance == Spec => []IInv
<1>1. IInv /\ [Next]_vars => IInv'
  <2> SUFFICES ASSUME IInv, [Next]_vars PROVE IInv'
    BY Zenon
  <2>1. CASE Create
    BY <2>1, CreateStep, Zenon
  <2>2. ASSUME NEW tid \in present, Start(tid) \/ Finish(tid) \/ Fork(tid) PROVE IInv'
    BY <2>2, StartStep, FinishStep, ForkStep, Zenon
  <2>3. ASSUME NEW tid \in open, Join(tid) \/ Detach(tid) \/ Consume(tid) \/ SetUserId(tid)
        PROVE  IInv'
    BY <2>3, JoinStep, DetachStep, ConsumeStep, SetUserIdStep, Zenon
  <2>4. ASSUME NEW call \in joining, Joined(call) PROVE IInv'
    BY <2>4, JoinedStep, Zenon
  <2>5. CASE UNCHANGED vars
    BY <2>5 DEF vars, registry, IInv, RInv, CInv, Types, Lists, Over, Live, Counted, Alive,
                Running, WithStatus, Worn, Status, Tids
  <2> QED BY <2>1, <2>2, <2>3, <2>4, <2>5, Zenon DEF Next
<1> QED BY <1>1, InitKeeps, PTL DEF Spec

(* No CHECK of the registry fails for a client that keeps to the contract. *)
THEOREM ChecksNeverFail == Spec => []ChecksHold
<1>1. IInv => ChecksHold
  BY Zenon DEF IInv, RInv, ChecksHold
<1> QED BY <1>1, Invariance, PTL

(* live_ and the contexts are inverse to each other, and alive_threads_    *)
(* and running_threads_ count them, after any number of threads.           *)
THEOREM LiveInverse == Spec => []LiveMatchesContexts
<1>1. IInv => LiveMatchesContexts
  BY Zenon DEF IInv, RInv, Live, Counted, Alive, Running, LiveMatchesContexts
<1> QED BY <1>1, Invariance, PTL

(* The quarantine holds exactly the dead threads, once each and within its *)
(* size; the contexts to be used again are exactly those that were reset   *)
(* and are not worn out.                                                   *)
THEOREM ContextsRecycled == Spec => []Recycling
<1>1. IInv => Recycling
  <2> SUFFICES ASSUME IInv PROVE Recycling
    BY Zenon
  <2>1. WithStatus({"Dead"}) \ {kMainTid} = {t \in Tids : Status(t) = "Dead" /\ t # kMainTid}
    BY Zenon DEF WithStatus
  <2>2. {tid \in WithStatus({"Invalid"}) :
           max_reuse_ = 0 \/ threads_[tid].reuse_count < max_reuse_}
          = {t \in Tids : Status(t) = "Invalid" /\ ~Worn(t)}
    <3>1. \A t \in Tids : threads_[t].reuse_count \in Nat
      BY Zenon DEF IInv, RInv, Types, Context
    <3> QED BY <3>1, RegistryAssumption DEF WithStatus, Worn
  <2>3. dead_threads_ \in Seq(Tids) /\ invalid_threads_ \in Seq(Tids)
    BY Zenon DEF IInv, RInv, Types
  <2>4. Once(dead_threads_, {t \in Tids : Status(t) = "Dead" /\ t # kMainTid})
    BY <2>3, ListedOnce, Zenon DEF IInv, RInv, Lists
  <2>5. Once(invalid_threads_, {t \in Tids : Status(t) = "Invalid" /\ ~Worn(t)})
    BY <2>3, ListedOnce, Zenon DEF IInv, RInv, Lists
  <2>6. Len(dead_threads_) <= thread_quarantine_size_
    BY Zenon DEF IInv, RInv, Lists
  <2> QED BY <2>1, <2>2, <2>4, <2>5, <2>6, Zenon DEF Recycling
<1> QED BY <1>1, Invariance, PTL

(* While JoinThread waits without the mutex, its tid keeps naming the      *)
(* thread it was called for, which is running or finished.                 *)
THEOREM JoinsRight == Spec => []JoinsTheRightThread
<1>1. IInv => JoinsTheRightThread
  BY Zenon DEF IInv, CInv, JoinsTheRightThread
<1> QED BY <1>1, Invariance, PTL
=============================================================================
