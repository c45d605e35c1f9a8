--------------------------- MODULE AsanQuarantine ---------------------------
(***************************************************************************)
(* The heap of the AddressSanitizer as its chunks see it: Allocate,        *)
(* Deallocate, CommitBack, Purge and ReInitialize of                       *)
(* lib/asan/asan_allocator.cpp over the Quarantine and QuarantineCache of  *)
(* lib/sanitizer_common/sanitizer_quarantine.h.  A freed chunk waits in    *)
(* the cache of the thread that freed it, then in the global cache, until  *)
(* a thread that finds the global cache above its limit recycles the       *)
(* oldest ones.                                                            *)
(*                                                                         *)
(* The underlying allocator is external: it hands out any free chunk.      *)
(* Threads without an AsanThread share a cache, under fallback_mutex.      *)
(* What runs under cache_mutex_ is one step.  Redzones, shadow memory,     *)
(* fill bytes, contexts and statistics are left out.  Reallocate is        *)
(* Allocate followed by Deallocate, and Calloc is Allocate.                *)
(***************************************************************************)
EXTENDS Integers, Sequences, FiniteSets, SequencesExt

CONSTANTS
  Threads,
  Bare,         \* the threads that have no AsanThread
  Chunks,
  None,
  UsedSize, BatchSize,   \* the size of a chunk, and sizeof(QuarantineBatch)
  kSize,        \* chunks in a batch
  Options       \* the sizes the flags may set, [size, cache_size] each

ASSUME QuarantineAssumption ==
  /\ Bare \subseteq Threads /\ None \notin Threads \cup Chunks
  /\ {UsedSize, BatchSize, kSize} \subseteq Nat \ {0}
  \* Quarantine::Init's CHECK.
  /\ \A o \in Options : (o.size = 0 /\ o.cache_size = 0) \/ o.cache_size # 0

VARIABLES
  state,           \* of each chunk: "free" (INVALID, in the allocator), or
                   \* its chunk_state
  caches, tmp,     \* the QuarantineCaches, and the one Recycle fills
  opts,            \* max_size_, max_cache_size_ (min_size_ follows)
  fallback_mutex, recycle_mutex_,
  pc, m,           \* where a thread is, and the chunk it has in hand
  job,             \* "drain" or "purge": Drain or DrainAndRecycle
  cur,             \* the cache it works on
  order,           \* history: the quarantined chunks in the order each cache
                   \* took them in
  skipped,         \* history: since the last Recycle a Drain left it to another
  purge            \* history: what is quarantined since before a Purge began

locks == <<fallback_mutex, recycle_mutex_>>
work == <<job, cur>>
history == <<order, skipped, purge>>
vars == <<state, caches, tmp, opts, locks, pc, m, work, history>>

Own(t) == IF t \in Bare THEN "fallback" ELSE t
Owners == (Threads \ Bare) \cup {"fallback", "global"}
EmptyCache == [list |-> << >>, size |-> 0]
Disabled == [size |-> 0, cache_size |-> 0]

Init ==
  /\ state = [c \in Chunks |-> "free"]
  /\ caches = [o \in Owners |-> EmptyCache] /\ tmp = [t \in Threads |-> EmptyCache]
  /\ opts \in Options \cup {Disabled}
  /\ fallback_mutex = None /\ recycle_mutex_ = None
  /\ pc = [t \in Threads |-> "idle"] /\ m = [t \in Threads |-> None]
  /\ job = [t \in Threads |-> "drain"] /\ cur = [t \in Threads |-> Own(t)]
  /\ order = [o \in Owners |-> << >>] /\ skipped = FALSE
  /\ purge = [t \in Threads |-> {}]

Goto(t, l) == pc' = [pc EXCEPT ![t] = l]
Set(c, s) == state' = [state EXCEPT ![c] = s]
----------------------------------------------------------------------------
(* QuarantineCache                                                         *)

Batch(chunks) == [chunks |-> chunks, size |-> BatchSize + UsedSize * Len(chunks)]

EnqueueBatch(q, b) == [list |-> Append(q.list, b), size |-> q.size + b.size]
DequeueBatch(q) == [list |-> Tail(q.list), size |-> q.size - Head(q.list).size]

Enqueue(q, c) ==
  IF q.list = << >> \/ Len(Last(q.list).chunks) = kSize
    THEN EnqueueBatch(q, Batch(<<c>>))
    ELSE [list |-> [q.list EXCEPT ![Len(q.list)] =
                      [chunks |-> Append(@.chunks, c), size |-> @.size + UsedSize]],
          size |-> q.size + UsedSize]

\* Mutated: the memory of the batches that were emptied stays accounted.
MergeUncounted(q) ==
  LET merged ==
        FoldLeft(LAMBDA l, b :
                   IF l # << >> /\ Len(Last(l).chunks) + Len(b.chunks) <= kSize
                     THEN [l EXCEPT ![Len(l)] = Batch(@.chunks \o b.chunks)]
                     ELSE Append(l, b), << >>, q.list)
  IN [list |-> merged, size |-> q.size]

\* Neighbours that fit into one batch are merged; the emptied batches, which
\* hold no chunks, are left to be deallocated.
MergeBatches(q) ==
  LET merged ==
        FoldLeft(LAMBDA l, b :
                   IF l # << >> /\ Len(Last(l).chunks) + Len(b.chunks) <= kSize
                     THEN [l EXCEPT ![Len(l)] = Batch(@.chunks \o b.chunks)]
                     ELSE Append(l, b), << >>, q.list)
  IN [list |-> merged,
      size |-> q.size - BatchSize * (Len(q.list) - Len(merged))]
----------------------------------------------------------------------------
(* Allocate and Deallocate                                                 *)

\* The block comes from the allocator, with a header that is not valid before
\* the last store.
Allocate(t, c) ==
  /\ pc[t] = "idle" /\ state[c] = "free"
  /\ t \in Bare => fallback_mutex = None
  /\ Set(c, "ALLOCATED")
  /\ UNCHANGED <<caches, tmp, opts, locks, pc, m, work, history>>

\* Mutated: the state is set without comparing it first.
SetQuarantineFlag(t, c) ==
  /\ pc[t] = "idle" /\ state[c] \in {"ALLOCATED", "QUARANTINE"}
  /\ Set(c, "QUARANTINE")
  /\ m' = [m EXCEPT ![t] = c] /\ Goto(t, "put")
  /\ UNCHANGED <<caches, tmp, opts, locks, work, history>>

\* A free of a chunk in another state is reported and changes nothing.
AtomicallySetQuarantineFlagIfAllocated(t, c) ==
  /\ pc[t] = "idle" /\ state[c] = "ALLOCATED"
  /\ Set(c, "QUARANTINE")
  /\ m' = [m EXCEPT ![t] = c] /\ Goto(t, "put")
  /\ UNCHANGED <<caches, tmp, opts, locks, work, history>>

\* The end of Drain and DrainAndRecycle, and of the caller's lock: Purge goes
\* on to the fallback cache after the thread's own.
Finish(t) ==
  IF job[t] = "purge" /\ cur[t] # "fallback"
    THEN Goto(t, "purge") /\ UNCHANGED <<fallback_mutex, work, purge>>
    ELSE /\ Goto(t, "idle")
         /\ fallback_mutex' = IF fallback_mutex = t THEN None ELSE fallback_mutex
         /\ job' = [job EXCEPT ![t] = "drain"] /\ cur' = [cur EXCEPT ![t] = Own(t)]
         /\ purge' = [purge EXCEPT ![t] = {}]

\* QuarantineCallback::Recycle: back to the allocator, whatever the caller.
Returned(c) ==
  /\ Set(c, "free")
  /\ order' = [o \in Owners |-> SelectSeq(order[o], LAMBDA d : d # c)]
  /\ purge' = [t \in Threads |-> purge[t] \ {c}]

\* Put: with a quarantine of size zero the chunk is recycled at once.
Put(t) ==
  LET c == m[t]
      q == IF opts.cache_size = 0 THEN caches[cur[t]] ELSE Enqueue(caches[cur[t]], c)
  IN
  /\ pc[t] = "put"
  /\ t \in Bare => fallback_mutex = None
  /\ caches' = [caches EXCEPT ![cur[t]] = q]
  /\ IF opts.cache_size = 0
       THEN Returned(c)
       ELSE /\ order' = [order EXCEPT ![cur[t]] = Append(@, c)]
            /\ UNCHANGED <<state, purge>>
  /\ m' = [m EXCEPT ![t] = None]
  /\ IF q.size > opts.cache_size
       THEN /\ Goto(t, "transfer")
            /\ fallback_mutex' = IF t \in Bare THEN t ELSE fallback_mutex
       ELSE Goto(t, "idle") /\ UNCHANGED fallback_mutex
  /\ UNCHANGED <<tmp, opts, recycle_mutex_, work, skipped>>
----------------------------------------------------------------------------
(* Quarantine::Drain, DrainAndRecycle and Recycle                          *)

\* Mutated: the batches go in front of the older ones.
TransferFirst(q, from) == [list |-> from.list \o q.list, size |-> q.size + from.size]

\* QuarantineCache::Transfer.
Transfer(q, from) == [list |-> q.list \o from.list, size |-> q.size + from.size]

\* The critical section both begin with.
TransferCache(t) ==
  /\ pc[t] = "transfer"
  /\ caches' = [caches EXCEPT !["global"] = Transfer(@, caches[cur[t]]),
                              ![cur[t]] = EmptyCache]
  /\ Goto(t, IF job[t] = "drain" THEN "check" ELSE "lock")
  /\ UNCHANGED <<state, tmp, opts, locks, m, work, history>>

\* Mutated: the limit itself does not count as reached until it is doubled.
CheckSizeLate(t) ==
  /\ pc[t] = "check"
  /\ IF caches["global"].size > 2 * opts.size
       THEN Goto(t, "try") /\ UNCHANGED <<fallback_mutex, work, purge>>
       ELSE Finish(t)
  /\ UNCHANGED <<state, caches, tmp, opts, recycle_mutex_, m, order, skipped>>

\* Drain reads the size without cache_mutex_.
CheckSize(t) ==
  /\ pc[t] = "check"
  /\ IF caches["global"].size > opts.size
       THEN Goto(t, "try") /\ UNCHANGED <<fallback_mutex, work, purge>>
       ELSE Finish(t)
  /\ UNCHANGED <<state, caches, tmp, opts, recycle_mutex_, m, order, skipped>>

TryLock(t) ==
  /\ pc[t] = "try"
  /\ IF recycle_mutex_ = None
       THEN /\ recycle_mutex_' = t
            /\ Goto(t, "recycle")
            /\ UNCHANGED <<fallback_mutex, work, skipped, purge>>
       ELSE skipped' = TRUE /\ Finish(t) /\ UNCHANGED recycle_mutex_
  /\ UNCHANGED <<state, caches, tmp, opts, m, order>>

\* Mutated: DrainAndRecycle, too, leaves the work to a thread that is recycling.
LockOrLeave(t) ==
  /\ pc[t] = "lock"
  /\ IF recycle_mutex_ = None
       THEN /\ recycle_mutex_' = t
            /\ Goto(t, "recycle") /\ UNCHANGED <<fallback_mutex, work, purge>>
       ELSE Finish(t) /\ UNCHANGED recycle_mutex_
  /\ UNCHANGED <<state, caches, tmp, opts, m, order, skipped>>

Lock(t) ==
  /\ pc[t] = "lock" /\ recycle_mutex_ = None
  /\ recycle_mutex_' = t
  /\ Goto(t, "recycle")
  /\ UNCHANGED <<state, caches, tmp, opts, fallback_mutex, m, work, history>>

\* The batches are merged when their own memory is most of the quarantine's,
\* and the oldest ones taken until min_size is left.
Recycle(t) ==
  LET g == caches["global"]
      overhead == BatchSize * Len(g.list)
      q == IF g.size > overhead /\ overhead * 200 > g.size * 100
             THEN MergeBatches(g) ELSE g
      min_size == IF job[t] = "drain" THEN (opts.size \div 10) * 9 ELSE 0
      taken == FoldLeft(LAMBDA a, b :
                          IF a.rest.size > min_size
                            THEN [rest |-> DequeueBatch(a.rest),
                                  tmp |-> EnqueueBatch(a.tmp, b)]
                            ELSE a,
                        [rest |-> q, tmp |-> EmptyCache], q.list)
  IN
  /\ pc[t] = "recycle"
  /\ caches' = [caches EXCEPT !["global"] = taken.rest]
  /\ tmp' = [tmp EXCEPT ![t] = taken.tmp]
  /\ skipped' = FALSE
  /\ Goto(t, "unlock")
  /\ UNCHANGED <<state, opts, locks, m, work, order, purge>>

\* StaticSpinMutex has no owner: after ReInitialize this may be the lock that
\* another thread has taken since.
Unlock(t) ==
  /\ pc[t] = "unlock"
  /\ recycle_mutex_' = None
  /\ Goto(t, "do")
  /\ UNCHANGED <<state, caches, tmp, opts, fallback_mutex, m, work, history>>

\* DoRecycle: the next chunk, or the end of it.
DoRecycle(t) ==
  /\ pc[t] = "do"
  /\ IF tmp[t].list = << >>
       THEN Finish(t) /\ UNCHANGED <<state, tmp, order>>
       ELSE LET b == Head(tmp[t].list) IN
            /\ Returned(Head(b.chunks))
            /\ tmp' = [tmp EXCEPT ![t] =
                         IF Len(b.chunks) = 1 THEN DequeueBatch(@)
                         ELSE [@ EXCEPT !.list[1].chunks = Tail(@)]]
            /\ UNCHANGED <<fallback_mutex, pc, work>>
  /\ UNCHANGED <<caches, opts, recycle_mutex_, m, skipped>>
----------------------------------------------------------------------------
(* CommitBack, Purge and ReInitialize                                      *)

ChunksOf(q) == FlattenSeq([i \in 1..Len(q.list) |-> q.list[i].chunks])
In(q) == Range(ChunksOf(q))

\* A thread ends, and its AsanThread with it.
CommitBack(t) ==
  /\ pc[t] = "idle" /\ t \notin Bare
  /\ Goto(t, "transfer")
  /\ UNCHANGED <<state, caches, tmp, opts, locks, m, work, history>>

Purge(t) ==
  /\ pc[t] = "idle"
  /\ job' = [job EXCEPT ![t] = "purge"]
  /\ purge' = [purge EXCEPT ![t] =
       UNION {In(caches[o]) : o \in {Own(t), "fallback", "global"}}]
  /\ Goto(t, IF t \in Bare THEN "purge" ELSE "transfer")
  /\ UNCHANGED <<state, caches, tmp, opts, locks, m, cur, order, skipped>>

PurgeFallback(t) ==
  /\ pc[t] = "purge" /\ fallback_mutex = None
  /\ fallback_mutex' = t
  /\ cur' = [cur EXCEPT ![t] = "fallback"] /\ Goto(t, "transfer")
  /\ UNCHANGED <<state, caches, tmp, opts, recycle_mutex_, m, job, history>>

\* AsanActivate, from the __asan_init of a library that is loaded, turns a
\* quarantine on that AsanDeactivate had disabled; Quarantine::Init resets the
\* mutex, held or not.  (It resets cache_mutex_, too, which no step here holds.)
ReInitialize ==
  /\ opts = Disabled
  /\ opts' \in Options
  /\ recycle_mutex_' = None
  /\ UNCHANGED <<state, caches, tmp, fallback_mutex, pc, m, work, history>>

Next ==
  \/ \E t \in Threads :
       \/ \E c \in Chunks : \/ Allocate(t, c)
                           \/ AtomicallySetQuarantineFlagIfAllocated(t, c)
       \/ Put(t) \/ TransferCache(t) \/ CheckSize(t) \/ TryLock(t)
       \/ Lock(t) \/ Recycle(t) \/ Unlock(t) \/ DoRecycle(t)
       \/ CommitBack(t) \/ Purge(t) \/ PurgeFallback(t)
  \/ ReInitialize

Spec == Init /\ [][Next]_vars
----------------------------------------------------------------------------
(* Properties                                                              *)

Waiting == UNION {In(caches[o]) : o \in Owners}
Leaving == UNION {In(tmp[t]) : t \in Threads}

\* A quarantined chunk is in exactly one place, the hand of the thread that is
\* freeing it, one cache or one list being recycled, and every chunk in such a
\* place is quarantined: racing frees, drains and recycles neither lose a chunk
\* nor recycle one twice, and the CHECK_EQ of QuarantineCallback::Recycle holds.
QuarantinedOnce ==
  LET hands == {t \in Threads : pc[t] = "put"}
      Count(q) == Len(ChunksOf(q))
  IN /\ {c \in Chunks : state[c] = "QUARANTINE"} =
          {m[t] : t \in hands} \cup Waiting \cup Leaving
     /\ Cardinality({c \in Chunks : state[c] = "QUARANTINE"}) =
          Cardinality(hands) + MapThenSumSet(LAMBDA o : Count(caches[o]), Owners)
            + MapThenSumSet(LAMBDA t : Count(tmp[t]), Threads)

\* The size of a cache is what its batches hold and take: were it larger,
\* Recycle would go on dequeuing from an empty list; were it smaller, the
\* quarantine would grow beyond its limit.
SizesExact ==
  \A o \in Owners :
    caches[o].size = BatchSize * Len(caches[o].list) + UsedSize * Len(ChunksOf(caches[o]))

\* While the global cache is above its limit, a thread is on its way to recycle
\* it, or a Drain since the last Recycle found recycle_mutex_ taken and left:
\* only that gives up on the limit, and the next Drain makes good for it.
OverLimitOnlyWhenSkipped ==
  caches["global"].size > opts.size =>
    skipped \/ \E t \in Threads : pc[t] \in {"check", "try", "lock", "recycle"}

\* When Purge returns, nothing is left in the quarantine of what was in the
\* caller's cache, the fallback cache and the global cache when it was called,
\* even though other threads drain and recycle meanwhile, and one whose lock
\* ReInitialize has reset may release the lock that this Purge holds.
PurgeIsComplete ==
  [][\A t \in Threads : pc'[t] = "idle" /\ job[t] = "purge" =>
       \A o \in Owners : In(caches[o]) \cap purge[t] = {}]_vars

\* The quarantine is a queue: Recycle selects a chunk only when every chunk that
\* was put into the same cache before it has been selected, and what one Recycle
\* selects it returns in that order.  (Recycle gives up recycle_mutex_ before
\* DoRecycle: what two calls selected may return to the allocator in any order.)
OldestFirst ==
  \A from \in Owners : \A j \in DOMAIN order[from] : \A i \in 1..j - 1 :
    LET older == order[from][i]
        newer == order[from][j]
    IN /\ ~ (older \in Waiting /\ newer \in Leaving)
       /\ \A t \in Threads :
            LET l == ChunksOf(tmp[t]) IN
            \A k \in DOMAIN l : l[k] = older => newer \notin Range(SubSeq(l, 1, k - 1))
=============================================================================
