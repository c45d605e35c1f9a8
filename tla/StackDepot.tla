------------------------------ MODULE StackDepot ------------------------------
(***************************************************************************)
(* StackDepot of sanitizer_common: a hash table from stack traces to ids,  *)
(* with one lock bit per bucket, the background thread that packs the      *)
(* store, and the locking of all of it around fork().                      *)
(*                                                                         *)
(* A trace is its 64-bit hash, which is all eq compares.  The store behind *)
(* the nodes is module StackStore; here it is one mutex (a block's mtx_)   *)
(* and a flag saying that a full block has not been packed.                *)
(***************************************************************************)
EXTENDS Integers, Sequences, FiniteSets

CONSTANTS Threads, Traces, NoTrace,
          kTabSize,        \* buckets
          HashOf,          \* trace |-> bucket
          CompressFlags,   \* values of the flag compress_stack_depot
          MaxForks         \* bound on fork() calls

ASSUME DepotAssumption ==
  /\ kTabSize \in Nat \ {0}
  /\ HashOf \in [Traces -> 1 .. kTabSize]
  /\ NoTrace \notin Traces
  /\ CompressFlags \subseteq {-1, 0, 1}
  /\ MaxForks \in Nat

Buckets == 1 .. kTabSize

Nobody == "nobody"
Compressor == "compressor"

VARIABLES
  tab,        \* buckets: the head of the chain and the lock bit
  nodes,      \* nodes[id], for the ids that n_uniq_ids has handed out
  pc, trace, s, id, i, handle,   \* a thread's location and its locals
  returned,   \* what Put has returned
  compress,   \* the flag compress_stack_depot
  state_, thread_, run_, semaphore_, mutex_,   \* CompressThread
  background, \* locations of the threads it started
  mtx_,       \* holder of the store's mutex
  unpacked,   \* a block is full and has not been packed
  forks

locals == <<trace, s, id, i, handle>>
table == <<tab, nodes, returned>>
compressor == <<state_, thread_, run_, semaphore_, mutex_, background>>
store == <<mtx_, unpacked>>
vars == <<table, pc, locals, compress, compressor, store, forks>>

n_uniq_ids == Len(nodes)

Init ==
  /\ tab = [b \in Buckets |-> [head |-> 0, locked |-> FALSE]]
  /\ nodes = <<>>
  /\ pc = [t \in Threads |-> "idle"]
  /\ trace = [t \in Threads |-> NoTrace]
  /\ s = [t \in Threads |-> 0]
  /\ id = [t \in Threads |-> 0]
  /\ i = [t \in Threads |-> 0]
  /\ handle = [t \in Threads |-> 0]
  /\ returned = {}
  /\ compress \in CompressFlags
  /\ state_ = "NotStarted"
  /\ thread_ = 0
  /\ run_ = 0
  /\ semaphore_ = 0
  /\ mutex_ = Nobody
  /\ background = <<>>
  /\ mtx_ = Nobody
  /\ unpacked = FALSE
  /\ forks = 0

Goto(t, l) == pc' = [pc EXCEPT ![t] = l]
From(t, l, m) == pc[t] = l /\ Goto(t, m)

-----------------------------------------------------------------------------
(* Put *)

(* The ids on the chain that starts at head, and the one with hash h.      *)
Chain(head) ==
  LET after[n \in Nat] ==
        IF n = 0 THEN {head} \ {0}
        ELSE after[n - 1] \cup ({nodes[j].link : j \in after[n - 1]} \ {0})
  IN  after[n_uniq_ids]

Find(head, h) ==
  LET found == {j \in Chain(head) : nodes[j].hash = h}
  IN  IF found = {} THEN 0 ELSE CHOOSE j \in found : TRUE

Bucket(t) == HashOf[trace[t]]

Unlock(b, head) == tab' = [tab EXCEPT ![b] = [head |-> head, locked |-> FALSE]]

Answer(t, j) ==
  /\ returned' = returned \cup {[trace |-> trace[t], id |-> j]}
  /\ trace' = [trace EXCEPT ![t] = NoTrace]
  /\ s' = [s EXCEPT ![t] = 0]
  /\ id' = [id EXCEPT ![t] = 0]

(* The look-up without a lock.  Nodes on a chain do not change, so reading *)
(* the head and following the links is one step.                           *)
Put(t) ==
  /\ pc[t] = "idle"
  /\ \E h \in Traces :
       LET head == tab[HashOf[h]].head
           found == Find(head, h)
       IN  IF found # 0
             THEN /\ UNCHANGED trace
                  /\ returned' = returned \cup {[trace |-> h, id |-> found]}
                  /\ UNCHANGED <<pc, s>>
             ELSE /\ trace' = [trace EXCEPT ![t] = h]
                  /\ s' = [s EXCEPT ![t] = head]
                  /\ Goto(t, "lock")
                  /\ UNCHANGED returned
  /\ UNCHANGED <<tab, nodes, id, i, handle, compress, compressor, store, forks>>

(* Mutated: what was inserted before the bucket was locked is not found. *)
PutLockBlind(t) ==
  /\ From(t, "lock", "alloc")
  /\ ~tab[Bucket(t)].locked
  /\ tab' = [tab EXCEPT ![Bucket(t)].locked = TRUE]
  /\ s' = [s EXCEPT ![t] = tab[Bucket(t)].head]
  /\ UNCHANGED <<nodes, returned, trace, id, i, handle, compress, compressor,
                 store, forks>>

(* Mutated: the compare-and-swap goes on with the word read at first. *)
PutLockStale(t) ==
  \/ /\ pc[t] = "lock"
     /\ tab[Bucket(t)].head # s[t]
     /\ UNCHANGED vars
  \/ /\ From(t, "lock", "alloc")
     /\ tab[Bucket(t)] = [head |-> s[t], locked |-> FALSE]
     /\ tab' = [tab EXCEPT ![Bucket(t)].locked = TRUE]
     /\ UNCHANGED <<nodes, returned, locals, compress, compressor, store, forks>>

PutLock(t) ==
  LET s2 == tab[Bucket(t)].head
      found == IF s2 # s[t] THEN Find(s2, trace[t]) ELSE 0
  IN  /\ pc[t] = "lock"
      /\ ~tab[Bucket(t)].locked
      /\ tab' = [tab EXCEPT ![Bucket(t)].locked = TRUE]
      /\ s' = [s EXCEPT ![t] = s2]
      /\ id' = [id EXCEPT ![t] = found]
      /\ Goto(t, IF found # 0 THEN "found" ELSE "alloc")
      /\ UNCHANGED <<nodes, returned, trace, i, handle, compress, compressor,
                     store, forks>>

PutFound(t) ==
  /\ From(t, "found", "idle")
  /\ Unlock(Bucket(t), s[t])
  /\ Answer(t, id[t])
  /\ UNCHANGED <<nodes, i, handle, compress, compressor, store, forks>>

PutAlloc(t) ==
  /\ From(t, "alloc", "store")
  /\ nodes' = Append(nodes, [hash |-> NoTrace, link |-> 0])
  /\ id' = [id EXCEPT ![t] = n_uniq_ids + 1]
  /\ UNCHANGED <<tab, returned, trace, s, i, handle, compress, compressor,
                 store, forks>>

(* StackDepotNode::store: a block may have been completed by it.           *)
PutStore(t) ==
  /\ pc[t] = "store"
  /\ nodes' = [nodes EXCEPT ![id[t]].hash = trace[t]]
  /\ \E pack \in BOOLEAN :
       /\ unpacked' = (unpacked \/ pack)
       /\ Goto(t, CASE ~pack \/ compress = 0 -> "publish"
                    [] pack /\ compress > 0 -> "notify"
                    [] pack /\ compress < 0 -> "pack")
  /\ UNCHANGED <<tab, returned, locals, compress, compressor, mtx_, forks>>

(* Mutated: the node is at the head of the chain before it continues it. *)
PutLinkLate(t) ==
  /\ From(t, "publish", "unlock")
  /\ tab' = [tab EXCEPT ![Bucket(t)].head = id[t]]
  /\ UNCHANGED <<nodes, returned, locals, compress, compressor, store, forks>>

(* The link is stored, then the head: look-ups without a lock run between. *)
PutLink(t) ==
  /\ From(t, "publish", "unlock")
  /\ nodes' = [nodes EXCEPT ![id[t]].link = s[t]]
  /\ UNCHANGED <<tab, returned, locals, compress, compressor, store, forks>>

PutUnlock(t) ==
  /\ From(t, "unlock", "idle")
  /\ Unlock(Bucket(t), id[t])
  /\ Answer(t, id[t])
  /\ UNCHANGED <<nodes, i, handle, compress, compressor, store, forks>>

-----------------------------------------------------------------------------
(* NewWorkNotify, with the bucket still locked.                            *)

NotifyLock(t) ==
  /\ From(t, "notify", IF state_ = "NotStarted" THEN "start" ELSE "post")
  /\ mutex_ = Nobody
  /\ mutex_' = t
  /\ run_' = IF state_ = "NotStarted" THEN 1 ELSE run_
  /\ UNCHANGED <<table, locals, compress, state_, thread_, semaphore_,
                 background, store, forks>>

(* internal_start_thread returns a handle, the number of the thread, or    *)
(* fails.                                                                  *)
NotifyStart(t) ==
  /\ From(t, "start", "post")
  /\ \/ /\ background' = Append(background, "wait")
        /\ thread_' = Len(background) + 1
        /\ state_' = "Started"
     \/ /\ state_' = "Failed"
        /\ UNCHANGED <<background, thread_>>
  /\ UNCHANGED <<table, locals, compress, run_, semaphore_, mutex_, store, forks>>

(* Mutated: a started thread is not woken. *)
NotifyPostNothing(t) ==
  /\ From(t, "post", IF state_ = "Started" THEN "publish" ELSE "pack")
  /\ mutex_' = Nobody
  /\ UNCHANGED <<table, locals, compress, state_, thread_, run_, semaphore_,
                 background, store, forks>>

(* Without a thread the work is done here.  What is completed while the    *)
(* blocks are being packed counts as work left to do.                      *)
NotifyPost(t) ==
  /\ From(t, "post", IF state_ = "Started" THEN "publish" ELSE "pack")
  /\ semaphore_' = semaphore_ + (IF state_ = "Started" THEN 1 ELSE 0)
  /\ mutex_' = Nobody
  /\ UNCHANGED <<table, locals, compress, state_, thread_, run_, background,
                 store, forks>>

Pack(t) ==
  /\ From(t, "pack", "packing")
  /\ mtx_ = Nobody
  /\ mtx_' = t
  /\ unpacked' = FALSE
  /\ UNCHANGED <<table, locals, compress, compressor, forks>>

PackDone(t) ==
  /\ From(t, "packing", "publish")
  /\ mtx_' = Nobody
  /\ UNCHANGED <<table, locals, compress, compressor, unpacked, forks>>

-----------------------------------------------------------------------------
(* Run: the background thread h.                                           *)

Becomes(h, l, m) == background[h] = l /\ background' = [background EXCEPT ![h] = m]

RunWait(h) ==
  /\ Becomes(h, "wait", "woken")
  /\ semaphore_ > 0
  /\ semaphore_' = semaphore_ - 1
  /\ UNCHANGED <<table, pc, locals, compress, state_, thread_, run_, mutex_,
                 store, forks>>

RunWoken(h) ==
  /\ Becomes(h, "woken", IF run_ = 1 THEN "pack" ELSE "done")
  /\ UNCHANGED <<table, pc, locals, compress, state_, thread_, run_, semaphore_,
                 mutex_, store, forks>>

RunPack(h) ==
  /\ Becomes(h, "pack", "packing")
  /\ mtx_ = Nobody
  /\ mtx_' = Compressor
  /\ unpacked' = FALSE
  /\ UNCHANGED <<table, pc, locals, compress, state_, thread_, run_, semaphore_,
                 mutex_, forks>>

RunPackDone(h) ==
  /\ Becomes(h, "packing", "wait")
  /\ mtx_' = Nobody
  /\ UNCHANGED <<table, pc, locals, compress, state_, thread_, run_, semaphore_,
                 mutex_, unpacked, forks>>

-----------------------------------------------------------------------------
(* Stop: mutex_ is held for the test and the change of state only.         *)

Stop(t) ==
  /\ pc[t] = "idle"
  /\ mutex_ = Nobody
  /\ state_ = "Started"
  /\ state_' = "Stopped"
  /\ handle' = [handle EXCEPT ![t] = thread_]
  /\ thread_' = 0
  /\ Goto(t, "stop")
  /\ UNCHANGED <<table, trace, s, id, i, compress, run_, semaphore_, mutex_,
                 background, store, forks>>

StopRun(t) ==
  /\ From(t, "stop", "stoppost")
  /\ run_' = 0
  /\ UNCHANGED <<table, locals, compress, state_, thread_, semaphore_, mutex_,
                 background, store, forks>>

StopPost(t) ==
  /\ From(t, "stoppost", "join")
  /\ semaphore_' = semaphore_ + 1
  /\ UNCHANGED <<table, locals, compress, state_, thread_, run_, mutex_,
                 background, store, forks>>

StopJoin(t) ==
  /\ From(t, "join", "idle")
  /\ background[handle[t]] = "done"
  /\ handle' = [handle EXCEPT ![t] = 0]
  /\ UNCHANGED <<table, trace, s, id, i, compress, compressor, store, forks>>

-----------------------------------------------------------------------------
(* fork(): StackDepotLockAll, the fork, StackDepotUnlockAll in the parent  *)
(* and in the child.                                                       *)

Fork(t) ==
  /\ From(t, "idle", "lockall")
  /\ forks < MaxForks
  /\ forks' = forks + 1
  /\ i' = [i EXCEPT ![t] = 1]
  /\ UNCHANGED <<table, trace, s, id, handle, compress, compressor, store>>

(* Mutated: the last bucket is not locked. *)
LockBucketShort(t) ==
  /\ pc[t] = "lockall"
  /\ ~tab[i[t]].locked
  /\ tab' = [tab EXCEPT ![i[t]].locked = TRUE]
  /\ i' = [i EXCEPT ![t] = IF @ + 1 < kTabSize THEN @ + 1 ELSE 1]
  /\ Goto(t, IF i[t] + 1 < kTabSize THEN "lockall" ELSE "lockcompressor")
  /\ UNCHANGED <<nodes, returned, trace, s, id, handle, compress, compressor,
                 store, forks>>

LockBucket(t) ==
  /\ pc[t] = "lockall"
  /\ ~tab[i[t]].locked
  /\ tab' = [tab EXCEPT ![i[t]].locked = TRUE]
  /\ i' = [i EXCEPT ![t] = IF @ < kTabSize THEN @ + 1 ELSE 1]
  /\ Goto(t, IF i[t] < kTabSize THEN "lockall" ELSE "lockcompressor")
  /\ UNCHANGED <<nodes, returned, trace, s, id, handle, compress, compressor,
                 store, forks>>

(* LockAndStop *)
LockAndStop(t) ==
  /\ From(t, "lockcompressor", IF state_ = "Started" THEN "lockpost" ELSE "lockstore")
  /\ mutex_ = Nobody
  /\ mutex_' = t
  /\ run_' = IF state_ = "Started" THEN 0 ELSE run_
  /\ UNCHANGED <<table, locals, compress, state_, thread_, semaphore_, background,
                 store, forks>>

LockAndStopPost(t) ==
  /\ From(t, "lockpost", "lockjoin")
  /\ semaphore_' = semaphore_ + 1
  /\ UNCHANGED <<table, locals, compress, state_, thread_, run_, mutex_,
                 background, store, forks>>

LockAndStopJoin(t) ==
  /\ From(t, "lockjoin", "lockstore")
  /\ background[thread_] = "done"
  /\ state_' = "NotStarted"
  /\ thread_' = 0
  /\ UNCHANGED <<table, locals, compress, run_, semaphore_, mutex_, background,
                 store, forks>>

LockStore(t) ==
  /\ From(t, "lockstore", "forked")
  /\ mtx_ = Nobody
  /\ mtx_' = t
  /\ UNCHANGED <<table, locals, compress, compressor, unpacked, forks>>

(* The parent goes on with all threads, the child with the caller alone.   *)
Parent(t) ==
  /\ From(t, "forked", "unlockstore")
  /\ UNCHANGED <<table, locals, compress, compressor, store, forks>>

Child(t) ==
  /\ pc[t] = "forked"
  /\ pc' = [u \in Threads |-> IF u = t THEN "unlockstore" ELSE "gone"]
  /\ background' = [h \in DOMAIN background |-> "done"]
  /\ UNCHANGED <<table, locals, compress, state_, thread_, run_, semaphore_,
                 mutex_, store, forks>>

UnlockStore(t) ==
  /\ From(t, "unlockstore", "unlockcompressor")
  /\ mtx_' = Nobody
  /\ UNCHANGED <<table, locals, compress, compressor, unpacked, forks>>

UnlockCompressor(t) ==
  /\ From(t, "unlockcompressor", "unlockall")
  /\ mutex_' = Nobody
  /\ UNCHANGED <<table, locals, compress, state_, thread_, run_, semaphore_,
                 background, store, forks>>

UnlockBucket(t) ==
  /\ pc[t] = "unlockall"
  /\ Unlock(i[t], tab[i[t]].head)
  /\ i' = [i EXCEPT ![t] = IF @ < kTabSize THEN @ + 1 ELSE 0]
  /\ Goto(t, IF i[t] < kTabSize THEN "unlockall" ELSE "idle")
  /\ UNCHANGED <<nodes, returned, trace, s, id, handle, compress, compressor,
                 store, forks>>

-----------------------------------------------------------------------------
Step(t) ==
  \/ PutLock(t) \/ PutFound(t) \/ PutAlloc(t) \/ PutStore(t)
  \/ PutLink(t) \/ PutUnlock(t)
  \/ NotifyLock(t) \/ NotifyStart(t) \/ NotifyPost(t) \/ Pack(t) \/ PackDone(t)
  \/ StopRun(t) \/ StopPost(t) \/ StopJoin(t)
  \/ LockBucket(t) \/ LockAndStop(t) \/ LockAndStopPost(t) \/ LockAndStopJoin(t)
  \/ LockStore(t) \/ Parent(t) \/ Child(t)
  \/ UnlockStore(t) \/ UnlockCompressor(t) \/ UnlockBucket(t)

Run(h) == RunWait(h) \/ RunWoken(h) \/ RunPack(h) \/ RunPackDone(h)

Next ==
  \/ \E t \in Threads : Put(t) \/ Stop(t) \/ Fork(t) \/ Step(t)
  \/ \E h \in DOMAIN background : Run(h)

(* A thread that is inside a call, and the background thread, keep being   *)
(* scheduled; nobody has to make a call.                                   *)
Fairness ==
  /\ \A t \in Threads : WF_vars(Step(t))
  /\ WF_vars(\E h \in DOMAIN background : Run(h))

Spec == Init /\ [][Next]_vars /\ Fairness

-----------------------------------------------------------------------------
(* Properties *)

Inserting == {"alloc", "store", "notify", "start", "post", "pack", "packing",
              "publish", "unlock"}
Forking == {"lockcompressor", "lockpost", "lockjoin", "lockstore", "forked",
            "unlockstore", "unlockcompressor"}

TypeOK ==
  /\ \A b \in Buckets : tab[b].head \in 0 .. n_uniq_ids /\ tab[b].locked \in BOOLEAN
  /\ \A j \in DOMAIN nodes :
       nodes[j].hash \in Traces \cup {NoTrace} /\ nodes[j].link \in 0 .. n_uniq_ids
  /\ pc \in [Threads -> Inserting \cup Forking \cup
              {"idle", "lock", "found", "stop", "stoppost", "join", "lockall",
               "unlockall", "gone"}]
  /\ \A t \in Threads :
       pc[t] \in Inserting \ {"alloc"} => id[t] \in DOMAIN nodes
  /\ semaphore_ \in Nat
  /\ state_ \in {"NotStarted", "Started", "Failed", "Stopped"}

(* A trace has one id ("Maps stack trace to an unique id"), although the   *)
(* look-up of Put runs before the bucket is locked.                        *)
UniqueIds ==
  \A j, k \in DOMAIN nodes :
    nodes[j].hash = nodes[k].hash /\ nodes[j].hash # NoTrace => j = k

(* Every id Put returned still leads to its trace, and its bucket's chain  *)
(* still leads to the id, so that the trace is never inserted again.       *)
IdsStayValid ==
  \A r \in returned :
    /\ nodes[r.id].hash = r.trace
    /\ r.id \in Chain(tab[HashOf[r.trace]].head)

(* When the process forks, no lock that the child needs is held by a       *)
(* thread that will not be there.                                          *)
ForkIsClean ==
  \A t \in Threads :
    pc[t] = "forked" =>
      /\ \A u \in Threads \ {t} : pc[u] \notin Inserting \cup Forking \cup {"found"}
      /\ \A h \in DOMAIN background : background[h] # "packing"
      /\ mutex_ = t /\ mtx_ = t

(* Put, Stop and fork() return: the spin locks and the join cannot wait    *)
(* for each other.                                                         *)
CallsReturn == \A t \in Threads : pc[t] # "idle" ~> pc[t] \in {"idle", "gone"}

(* A full block is packed by the background thread, unless it is told to   *)
(* stop.                                                                   *)
WorkGetsDone ==
  (unpacked /\ state_ = "Started") ~> (~unpacked \/ state_ # "Started")
=============================================================================
