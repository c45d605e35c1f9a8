----------------------------- MODULE TsanThreads -----------------------------
(***************************************************************************)
(* The life of a thread under ThreadSanitizer: pthread_create, join,       *)
(* tryjoin and detach as their interceptors run them, between the thread   *)
(* library, which gives out a pthread_t again once its thread was joined   *)
(* or has ended detached, and the ThreadRegistry, which knows threads by   *)
(* their pthread_t.                                                        *)
(*                                                                         *)
(* The program joins or detaches each joinable thread once, from when the  *)
(* thread runs.  The thread library is not part of this repository.  A     *)
(* join may return when the thread has left its function, while its        *)
(* finalisation still runs: JoinThread waits for it.                       *)
(***************************************************************************)
EXTENDS ThreadRegistry

CONSTANTS Actors, Main,   \* threads of the program, by their stacks
          MaxCreates      \* bound on pthread_create calls

ASSUME ActorsAssumption == Main \in Actors /\ MaxCreates \in Nat

VARIABLES
  pc, tid,          \* where an actor is, and its tid
  th,               \* its pthread_t, 0 when the library has taken it back
  isDetached,       \* whether the library knows it as detached
  parent,           \* the actor that created it, and waits in pthread_create
  created, started, \* creators whose ThreadParam's semaphores were posted
  target, consumed, \* the actor a call is about, and the tid it consumed
  open,             \* actors the program may still join or detach
  sync              \* tids whose context holds a clock

os == <<th, isDetached>>
param == <<parent, created, started>>
call == <<target, consumed>>
vars == <<registry, pc, tid, os, param, call, open, sync>>

(* Initialize has created and started the main thread, detached and        *)
(* without a pthread_t.                                                    *)
TsanInit ==
  /\ threads_ = [t \in {kMainTid} |->
                   [NewContext EXCEPT !.status = "Running", !.detached = TRUE]]
  /\ dead_threads_ = <<>>
  /\ invalid_threads_ = <<>>
  /\ live_ = [u \in UserIds |-> kInvalidTid]
  /\ total_threads_ = 1
  /\ alive_threads_ = 1
  /\ max_alive_threads_ = 1
  /\ running_threads_ = 1
  /\ checks = TRUE
  /\ pc = [a \in Actors |-> IF a = Main THEN "run" ELSE "none"]
  /\ tid = [a \in Actors |-> kMainTid]
  /\ th = [a \in Actors |-> 0]
  /\ isDetached = [a \in Actors |-> a = Main]
  /\ parent = [a \in Actors |-> Main]
  /\ created = {}
  /\ started = {}
  /\ target = [a \in Actors |-> Main]
  /\ consumed = [a \in Actors |-> kInvalidTid]
  /\ open = {}
  /\ sync = {}

Goto(a, l) == pc' = [pc EXCEPT ![a] = l]
From(a, l, m) == pc[a] = l /\ Goto(a, m)

-----------------------------------------------------------------------------
(* pthread_create by c, of actor a                                         *)

(* The real pthread_create.                                                *)
PthreadCreate(c) ==
  /\ pc[c] = "run"
  /\ total_threads_ < MaxCreates
  /\ \E a \in {b \in Actors : pc[b] = "none"}, detached \in BOOLEAN,
        u \in UserIds \ {th[b] : b \in Actors} :
       /\ pc' = [pc EXCEPT ![c] = "create", ![a] = "born"]
       /\ th' = [th EXCEPT ![a] = u]
       /\ isDetached' = [isDetached EXCEPT ![a] = detached]
       /\ target' = [target EXCEPT ![c] = a]
       /\ parent' = [parent EXCEPT ![a] = c]
       /\ open' = IF detached THEN open ELSE open \cup {a}
  /\ UNCHANGED <<registry, tid, created, started, consumed, sync>>

ThreadCreate(c) ==
  LET a == target[c]
  IN  /\ From(c, "create", "post")
      /\ CreateThread(th[a], isDetached[a])
      /\ tid' = [tid EXCEPT ![a] = NextTid]
      /\ sync' = sync \cup {NextTid}
      /\ UNCHANGED <<os, param, call, open>>

(* Mutated: the new thread is not let go. *)
PostCreatedNothing(c) ==
  /\ From(c, "post", "waitstarted")
  /\ UNCHANGED <<registry, tid, os, param, call, open, sync>>

PostCreated(c) ==
  /\ From(c, "post", "waitstarted")
  /\ created' = created \cup {c}
  /\ UNCHANGED <<registry, tid, os, parent, started, call, open, sync>>

(* Mutated: the creator returns without waiting for the new thread. *)
WaitStartedNot(c) ==
  /\ From(c, "waitstarted", "run")
  /\ started' = started \ {c}
  /\ UNCHANGED <<registry, tid, os, parent, created, call, open, sync>>

WaitStarted(c) ==
  /\ From(c, "waitstarted", "run")
  /\ c \in started
  /\ started' = started \ {c}
  /\ UNCHANGED <<registry, tid, os, parent, created, call, open, sync>>

-----------------------------------------------------------------------------
(* The new thread: __tsan_thread_start_func and ThreadFinish               *)

ThreadStart(a) ==
  /\ From(a, "born", "acquire")
  /\ parent[a] \in created
  /\ created' = created \ {parent[a]}
  /\ StartThread(tid[a])
  /\ UNCHANGED <<tid, os, parent, started, call, open, sync>>

(* The clock of the creator is acquired and freed, without the registry's  *)
(* mutex.                                                                  *)
ThreadStartAcquire(a) ==
  /\ From(a, "acquire", "poststarted")
  /\ sync' = sync \ {tid[a]}
  /\ UNCHANGED <<registry, tid, os, param, call, open>>

PostStarted(a) ==
  /\ From(a, "poststarted", "run")
  /\ started' = started \cup {parent[a]}
  /\ UNCHANGED <<registry, tid, os, parent, created, call, open, sync>>

Exit(a) ==
  /\ a # Main
  /\ From(a, "run", "exit")
  /\ UNCHANGED <<registry, tid, os, param, call, open, sync>>

(* Mutated: the clock is released for a thread nobody will join. *)
ThreadFinishReleaseAlways(a) ==
  /\ From(a, "exit", "finish")
  /\ sync' = sync \cup {tid[a]}
  /\ UNCHANGED <<registry, tid, os, param, call, open>>

(* Under the registry's mutex, which is given up before FinishThread.      *)
ThreadFinishRelease(a) ==
  /\ From(a, "exit", "finish")
  /\ sync' = IF threads_[tid[a]].detached THEN sync ELSE sync \cup {tid[a]}
  /\ UNCHANGED <<registry, tid, os, param, call, open>>

ThreadFinish(a) ==
  /\ From(a, "finish", "over")
  /\ FinishThread(tid[a])
  /\ UNCHANGED <<tid, os, param, call, open, sync>>

(* The library ends the thread, and takes the pthread_t of a detached one  *)
(* back.                                                                   *)
Gone(a) == isDetached[a] \/ th[a] = 0

End(a) ==
  /\ From(a, "over", IF Gone(a) THEN "none" ELSE "zombie")
  /\ th' = [th EXCEPT ![a] = IF isDetached[a] THEN 0 ELSE @]
  /\ UNCHANGED <<registry, tid, isDetached, param, call, open, sync>>

-----------------------------------------------------------------------------
(* pthread_join, pthread_tryjoin_np and pthread_timedjoin_np by b          *)

(* The threads whose pthread_t the program can use: it was returned to the *)
(* creator, or the thread itself has begun to run the program.             *)
Starting == {"born", "acquire", "poststarted"}
Creating == {"create", "post", "waitstarted"}
Known == {a \in open : \/ pc[a] \notin Starting
                       \/ pc[parent[a]] \notin Creating}

(* Mutated: the pthread_t is looked up and stays registered. *)
ConsumeNothing(b, a) ==
  /\ open' = open \ {a}
  /\ target' = [target EXCEPT ![b] = a]
  /\ consumed' = [consumed EXCEPT ![b] = live_[th[a]]]
  /\ UNCHANGED <<registry, tid, os, param, sync>>

Consume(b, a) ==
  /\ open' = open \ {a}
  /\ ConsumeThreadUserId(th[a])
  /\ target' = [target EXCEPT ![b] = a]
  /\ consumed' = [consumed EXCEPT ![b] = live_[th[a]]]
  /\ UNCHANGED <<tid, os, param, sync>>

PthreadJoin(b) ==
  /\ pc[b] = "run"
  /\ \E a \in Known \ {b} : Consume(b, a)
  /\ \E l \in {"join", "tryjoin"} : Goto(b, l)

RealJoin(b) ==
  LET a == target[b]
  IN  /\ pc[b] \in {"join", "tryjoin"}
      /\ pc[a] \in {"exit", "finish", "over", "zombie"}
      /\ pc' = [pc EXCEPT ![b] = "joined", ![a] = IF @ = "zombie" THEN "none" ELSE @]
      /\ th' = [th EXCEPT ![a] = 0]
      /\ UNCHANGED <<registry, tid, isDetached, param, call, open, sync>>

ThreadJoin(b) ==
  /\ From(b, "joined", "run")
  /\ JoinThread(consumed[b])
  /\ sync' = sync \ {consumed[b]}
  /\ UNCHANGED <<tid, os, param, call, open>>

(* The real call returned an error: the thread has not ended.              *)
RealTryjoinFails(b) ==
  /\ From(b, "tryjoin", "notjoined")
  /\ pc[target[b]] # "zombie"
  /\ UNCHANGED <<registry, tid, os, param, call, open, sync>>

ThreadNotJoined(b) ==
  /\ From(b, "notjoined", "run")
  /\ SetThreadUserId(consumed[b], th[target[b]])
  /\ open' = open \cup {target[b]}
  /\ UNCHANGED <<tid, os, param, call, sync>>

-----------------------------------------------------------------------------
(* pthread_detach by b, which may be the thread itself                     *)

PthreadDetach(b) ==
  /\ From(b, "run", "detach")
  /\ \E a \in Known : Consume(b, a)

RealDetach(b) ==
  LET a == target[b]
      zombie == pc[a] = "zombie"
  IN  /\ pc[b] = "detach"
      /\ pc' = [pc EXCEPT ![b] = "detached", ![a] = IF zombie THEN "none"
                                                    ELSE IF a = b THEN "detached" ELSE @]
      /\ isDetached' = [isDetached EXCEPT ![a] = TRUE]
      /\ th' = [th EXCEPT ![a] = IF zombie THEN 0 ELSE @]
      /\ UNCHANGED <<registry, tid, param, call, open, sync>>

ThreadDetach(b) ==
  /\ From(b, "detached", "run")
  /\ DetachThread(consumed[b])
  /\ sync' = IF Status(consumed[b]) = "Invalid" THEN sync ELSE sync \ {consumed[b]}
  /\ UNCHANGED <<tid, os, param, call, open>>

-----------------------------------------------------------------------------
Step(a) ==
  \/ ThreadCreate(a) \/ PostCreated(a) \/ WaitStarted(a)
  \/ ThreadStart(a) \/ ThreadStartAcquire(a) \/ PostStarted(a)
  \/ ThreadFinishRelease(a) \/ ThreadFinish(a) \/ End(a)
  \/ RealJoin(a) \/ ThreadJoin(a) \/ RealTryjoinFails(a) \/ ThreadNotJoined(a)
  \/ RealDetach(a) \/ ThreadDetach(a)

Program(a) == PthreadCreate(a) \/ PthreadJoin(a) \/ PthreadDetach(a) \/ Exit(a)

Next == \E a \in Actors : Step(a) \/ Program(a)

(* A thread inside an interceptor keeps running; the program need not make *)
(* another call, nor end a thread.                                         *)
Spec == TsanInit /\ [][Next]_vars /\ \A a \in Actors : WF_vars(Step(a))

-----------------------------------------------------------------------------
(* Properties, with ChecksHold of the registry                             *)

Joining == {"join", "tryjoin", "joined", "notjoined", "detach", "detached"}

TsanTypeOK ==
  /\ pc \in [Actors -> Joining \cup
               {"none", "born", "acquire", "poststarted", "run", "create", "post",
                "waitstarted", "exit", "finish", "over", "zombie"}]
  /\ \A a \in Actors : tid[a] \in Tids /\ th[a] \in UserIds \cup {0}
  /\ \A a \in Actors : pc[a] \in Joining => consumed[a] \in Tids
  /\ sync \subseteq Tids

(* A registered pthread_t is that of a thread the library still knows, and *)
(* names this thread: when the library gives a pthread_t out again, the    *)
(* registry has forgotten it.                                              *)
UserIdsCurrent ==
  \A u \in UserIds :
    live_[u] # kInvalidTid => \E a \in Actors : th[a] = u /\ tid[a] = live_[u]

(* A dead context holds no clock (the CHECKs of OnDead and OnReset), also  *)
(* when the thread is detached between the two critical sections of        *)
(* ThreadFinish; and the clock a thread acquires when it starts is still   *)
(* there, for nobody could detach the thread before.                       *)
ClocksFollowThreads ==
  /\ \A t \in sync : Status(t) \notin {"Dead", "Invalid"}
  /\ \A a \in Actors : pc[a] = "acquire" => tid[a] \in sync

(* pthread_create and pthread_detach return, and a join does once its      *)
(* thread leaves its function.                                             *)
CallsReturn ==
  \A a \in Actors :
    (pc[a] \in {"create", "detach"} \/ (pc[a] = "join" /\ pc[target[a]] = "exit"))
      ~> pc[a] = "run"
=============================================================================
