----------------------------- MODULE FdrLogging -----------------------------
(***************************************************************************)
(* Flight data recorder mode (lib/xray/xray_fdr_logging.cpp): sessions of  *)
(* logging by all threads of a program over one BufferQueue.  A handler    *)
(* runs in every patched function: it takes a buffer for its thread, logs  *)
(* its event, and changes the buffer when it is full.  __xray_log_init,    *)
(* __xray_log_finalize and __xray_log_flushLog start, stop and write out a *)
(* session; XRayImplMutex serializes them, but not against the handlers.   *)
(*                                                                         *)
(* The calls of the queue are those of BufferQueue, step by step.  What a  *)
(* handler writes into its buffer is the subject of FdrController; here a  *)
(* buffer has room for an event or not.                                    *)
(***************************************************************************)
EXTENDS BufferQueue

VARIABLES
  LoggingStatus, LogFlushStatus,
  BQ,          \* the queue is constructed
  Key,         \* the pthread key for the threads' data is created
  Registered,  \* the threads whose data are registered under Key
  Controller,  \* the threads whose TLD.Controller is not null
  at,          \* where a thread is in its handler or its call of the interface
  Impl,        \* the threads that hold XRayImplMutex: one at most
  file,        \* how often the flush in progress wrote each buffer
  excused,     \* history: the threads whose event may be dropped
  lost         \* history: this generation's buffers that no thread can return

session == <<LoggingStatus, LogFlushStatus, BQ, Key, Impl, file>>
tls == <<Registered, Controller>>
fdrVars == <<vars, session, tls, at, excused, lost>>

\* The places in a handler.
Handling == {"setup", "stale", "get", "returned", "got", "log", "off", "drop"}

\* The constructor of the queue sets Finalizing, and its init does the rest.
FdrInit ==
  /\ LoggingStatus = "UNINITIALIZED" /\ LogFlushStatus = "NOT_FLUSHING"
  /\ BQ = FALSE /\ Key = FALSE
  /\ Registered = {} /\ Controller = {}
  /\ at = [t \in Threads |-> "out"] /\ Impl = {}
  /\ file = << >> /\ excused = {} /\ lost = 0
  /\ Finalizing = TRUE /\ BackingStore = 0 /\ Generation = 0
  /\ BufferCount = 0 /\ Buffers = << >>
  /\ Next = 0 /\ First = 0 /\ LiveBuffers = 0
  /\ RefCount = [g \in 1..MaxGenerations |-> 0]
  /\ pc = [t \in Threads |-> "idle"] /\ B = [t \in Threads |-> Nothing]
  /\ Buf = [t \in Threads |-> NullBuffer]
  /\ ec = [t \in Threads |-> "Ok"]
  /\ given = {} /\ overlap = FALSE

At(t, l) == at[t] = l /\ pc[t] = "idle"
GotoAt(t, l) == at' = [at EXCEPT ![t] = l]

\* The thread's call of getBuffer has counted a buffer as live, and no call of
\* releaseBuffer has counted it as returned.
Claims(t) == pc[t] \in Getting \/ Holds(t, Generation)
----------------------------------------------------------------------------
(* Thread-local data                                                       *)

\* Data that are not registered under Key are constructed anew.
getThreadLocalData(t) ==
  LET fresh == t \notin Registered IN
    /\ Registered' = IF Key THEN Registered \cup {t} ELSE Registered
    /\ Controller' = IF fresh THEN Controller \ {t} ELSE Controller
    /\ Buf' = IF fresh THEN [Buf EXCEPT ![t] = NullBuffer] ELSE Buf
    /\ lost' = IF fresh /\ Claims(t) THEN lost + 1 ELSE lost
    /\ UNCHANGED <<cursors, queue, history, Buffers, RefCount, pc, B, ec>>

\* Controller->flush(): the buffer is returned, whatever the result.
flush(t) ==
  IF t \in Controller THEN ReleaseBuffer(t) ELSE UNCHANGED vars

\* Mutated: the destructor leaves the buffer to its queue.
ThreadExitKeepsBuffer(t) ==
  /\ At(t, "out") /\ t \notin Impl
  /\ t \in Registered
  /\ GotoAt(t, "exit")
  /\ UNCHANGED <<vars, session, tls, excused, lost>>

\* The key's destructor, at the exit of a thread that has data.
ThreadExit(t) ==
  /\ At(t, "out") /\ t \notin Impl
  /\ t \in Registered
  /\ IF Buf[t] # NullBuffer THEN ReleaseBuffer(t) ELSE UNCHANGED vars
  /\ GotoAt(t, "exit")
  /\ UNCHANGED <<session, tls, excused, lost>>

\* The thread's data are gone, and with them a buffer the queue did not take.
ThreadGone(t) ==
  /\ At(t, "exit")
  /\ Buf' = [Buf EXCEPT ![t] = NullBuffer]
  /\ Registered' = Registered \ {t} /\ Controller' = Controller \ {t}
  /\ GotoAt(t, "out")
  /\ UNCHANGED <<cursors, queue, history, Buffers, RefCount, pc, B, ec, session,
                 excused, lost>>
----------------------------------------------------------------------------
(* The handlers: fdrLoggingHandleArg0, HandleArg1, HandleCustomEvent and   *)
(* HandleTypedEvent differ only in the record they log.                    *)

Leave(t) ==
  /\ GotoAt(t, "out")
  /\ excused' = excused \ {t}

\* History: the event may be dropped when it happens outside a session.
Handle(t) ==
  /\ At(t, "out") /\ t \notin Impl
  /\ getThreadLocalData(t)
  /\ GotoAt(t, "setup")
  /\ excused' = IF LoggingStatus = "INITIALIZED" THEN excused ELSE excused \cup {t}
  /\ UNCHANGED session

setupTLD(t) ==
  /\ At(t, "setup")
  /\ IF LoggingStatus \in {"FINALIZING", "FINALIZED"}
       THEN flush(t) /\ GotoAt(t, "off")
       ELSE /\ GotoAt(t, CASE t \in Controller -> "log"
                           [] t \notin Controller /\ ~BQ -> "drop"
                           [] OTHER -> IF Buf[t].Generation # Generation
                                         THEN "stale" ELSE "get")
            /\ UNCHANGED vars
  /\ UNCHANGED <<session, tls, excused, lost>>

\* The rest of setupTLD in a session that ends: the controller is forgotten.
SwitchOff(t) ==
  /\ At(t, "off")
  /\ Controller' = Controller \ {t}
  /\ Leave(t)
  /\ UNCHANGED <<vars, session, Registered, lost>>

\* A buffer of an earlier session goes back to the queue.
ReleaseStale(t) ==
  /\ At(t, "stale")
  /\ ReleaseBuffer(t)
  /\ GotoAt(t, "returned")
  /\ UNCHANGED <<session, tls, excused, lost>>

\* getBuffer, by setupTLD or by getNewBuffer.
getNewBuffer(t) ==
  /\ \/ At(t, "get")
     \/ At(t, "returned") /\ ec[t] = "Ok"
  /\ GetBuffer(t)
  /\ GotoAt(t, "got")
  /\ UNCHANGED <<session, tls, excused, lost>>

\* The thread has a buffer, and a controller.
NewBuffer(t) ==
  /\ At(t, "got") /\ ec[t] = "Ok"
  /\ Controller' = Controller \cup {t}
  /\ GotoAt(t, "log")
  /\ UNCHANGED <<vars, session, Registered, excused, lost>>

\* The queue refused the buffer, or has none.
NoBuffer(t) ==
  /\ at[t] \in {"returned", "got"} /\ pc[t] = "idle" /\ ec[t] # "Ok"
  /\ GotoAt(t, "drop")
  /\ UNCHANGED <<vars, session, tls, excused, lost>>

\* The queue is finalized, as the controller's operation, prepareBuffer or
\* setupNewBuffer sees: the buffer is returned and the event dropped.
ReturnBuffer(t) ==
  /\ At(t, "log") /\ Finalizing
  /\ ReleaseBuffer(t)
  /\ GotoAt(t, "drop")
  /\ UNCHANGED <<session, tls, excused, lost>>

hasSpace(t) == Buf[t] # NullBuffer /\ Buf[t].Generation = Generation

\* prepareBuffer finds no room, or a buffer of an earlier generation.
ChangeBuffer(t) ==
  /\ At(t, "log") /\ ~Finalizing
  /\ ReleaseBuffer(t)
  /\ GotoAt(t, "returned")
  /\ UNCHANGED <<session, tls, excused, lost>>

\* The event is written.
Log(t) ==
  /\ At(t, "log") /\ ~Finalizing /\ hasSpace(t)
  /\ Leave(t)
  /\ UNCHANGED <<vars, session, tls, lost>>

Drop(t) ==
  /\ At(t, "drop")
  /\ Leave(t)
  /\ UNCHANGED <<vars, session, tls, lost>>

\* History: an event may be dropped when all buffers are out of reach.
Crowded(t) ==
  Cardinality({u \in Threads \ {t} : Claims(u)}) + lost = BufferCount

\* The steps of the queue's calls.
QueueStep(t) ==
  /\ Step(t)
  /\ excused' = IF pc[t] = "take" /\ pc'[t] = "idle" /\ Crowded(t)
                  THEN excused \cup {t} ELSE excused
  /\ UNCHANGED <<session, tls, at, lost>>
----------------------------------------------------------------------------
(* The interface: each function holds XRayImplMutex to its end.  A call    *)
(* that finds LoggingStatus in another state returns, and changes nothing. *)

\* History: unless the session is INITIALIZED now, the handlers in progress may
\* drop their events.
SetStatus(status) ==
  /\ LoggingStatus' = status
  /\ excused' = IF status = "INITIALIZED" THEN excused
                  ELSE excused \cup {u \in Threads : at[u] \in Handling}

Lock(t, l) ==
  /\ At(t, "out") /\ Impl = {}
  /\ Impl' = {t}
  /\ GotoAt(t, l)

Unlock(t) ==
  /\ Impl' = {}
  /\ GotoAt(t, "out")

fdrLoggingInit(t) ==
  /\ LoggingStatus = "UNINITIALIZED" /\ Generation < MaxGenerations
  /\ Lock(t, "init")
  /\ SetStatus("INITIALIZING")
  /\ UNCHANGED <<vars, LogFlushStatus, BQ, Key, file, tls, lost>>

\* The queue's constructor, or its init for a later session.
InitQueue(t) ==
  /\ At(t, "init") /\ Quiet
  /\ \E BC \in Counts : init(BC)
  /\ BQ' = TRUE
  /\ lost' = 0
  /\ GotoAt(t, "key")
  /\ UNCHANGED <<LoggingStatus, LogFlushStatus, Key, Impl, file, tls, excused>>

\* There is no memory for the queue.  LoggingStatus stays INITIALIZING.
InitFails(t) ==
  /\ At(t, "init") /\ Quiet
  /\ \E BC \in Counts : initFails(BC)
  /\ BQ' = TRUE
  /\ Unlock(t)
  /\ UNCHANGED <<LoggingStatus, LogFlushStatus, Key, file, tls, excused, lost>>

CreateKey(t) ==
  /\ At(t, "key")
  /\ Key' = TRUE
  /\ GotoAt(t, "publish")
  /\ UNCHANGED <<vars, LoggingStatus, LogFlushStatus, BQ, Impl, file, tls,
                 excused, lost>>

Publish(t) ==
  /\ At(t, "publish")
  /\ SetStatus("INITIALIZED")
  /\ Unlock(t)
  /\ UNCHANGED <<vars, LogFlushStatus, BQ, Key, file, tls, lost>>

fdrLoggingFinalize(t) ==
  /\ LoggingStatus = "INITIALIZED"
  /\ Lock(t, "finalize")
  /\ SetStatus("FINALIZING")
  /\ UNCHANGED <<vars, LogFlushStatus, BQ, Key, file, tls, lost>>

FinalizeQueue(t) ==
  /\ At(t, "finalize")
  /\ finalize
  /\ GotoAt(t, "finalized")
  /\ UNCHANGED <<session, tls, excused, lost>>

Finalized(t) ==
  /\ At(t, "finalized")
  /\ SetStatus("FINALIZED")
  /\ Unlock(t)
  /\ UNCHANGED <<vars, LogFlushStatus, BQ, Key, file, tls, lost>>

\* The flush sleeps for the grace period, which no handler is bound to keep.
fdrLoggingFlush(t) ==
  /\ LoggingStatus = "FINALIZED" /\ LogFlushStatus # "FLUSHING"
  /\ Lock(t, "grace")
  /\ LogFlushStatus' = "FLUSHING"
  /\ UNCHANGED <<vars, LoggingStatus, BQ, Key, file, tls, excused, lost>>

\* With no_file_flush, or when no file can be opened, nothing is written.
FlushWithoutFile(t) ==
  /\ At(t, "grace")
  /\ LogFlushStatus' \in {"FLUSHED", "NOT_FLUSHING"}
  /\ getThreadLocalData(t)
  /\ GotoAt(t, "cleanup")
  /\ UNCHANGED <<LoggingStatus, BQ, Key, Impl, file, excused>>

OpenFile(t) ==
  /\ At(t, "grace")
  /\ getThreadLocalData(t)
  /\ GotoAt(t, "own")
  /\ UNCHANGED <<session, excused>>

\* Mutated: the flushing thread keeps its buffer while the log is written.
FlushOwnNot(t) ==
  /\ At(t, "own")
  /\ GotoAt(t, "apply")
  /\ UNCHANGED <<vars, session, tls, excused, lost>>

FlushOwn(t) ==
  /\ At(t, "own")
  /\ flush(t)
  /\ GotoAt(t, "apply")
  /\ UNCHANGED <<session, tls, excused, lost>>

\* apply, under the queue's Mutex: the buffers of all slots marked as used.
WriteBuffers(t) ==
  /\ At(t, "apply")
  /\ file' = [data \in {Buffers[i].Buff.Data : i \in Used} |->
                Cardinality({i \in Used : Buffers[i].Buff.Data = data})]
  /\ LogFlushStatus' = "FLUSHED"
  /\ GotoAt(t, "cleanup")
  /\ UNCHANGED <<vars, LoggingStatus, BQ, Key, Impl, tls, excused, lost>>

\* At the end of its scope the flush returns its thread's buffer, again.
CleanupBuffers(t) ==
  /\ At(t, "cleanup")
  /\ flush(t)
  /\ GotoAt(t, "reset")
  /\ UNCHANGED <<session, tls, excused, lost>>

ResetToUninitialized(t) ==
  /\ At(t, "reset")
  /\ SetStatus("UNINITIALIZED")
  /\ file' = << >>
  /\ Unlock(t)
  /\ UNCHANGED <<vars, LogFlushStatus, BQ, Key, tls, lost>>
----------------------------------------------------------------------------
Handler(t) ==
  \/ Handle(t) \/ setupTLD(t) \/ SwitchOff(t) \/ ReleaseStale(t)
  \/ getNewBuffer(t) \/ NewBuffer(t) \/ NoBuffer(t)
  \/ ReturnBuffer(t) \/ ChangeBuffer(t) \/ Log(t) \/ Drop(t)

Interface(t) ==
  \/ fdrLoggingInit(t) \/ InitQueue(t) \/ InitFails(t) \/ CreateKey(t) \/ Publish(t)
  \/ fdrLoggingFinalize(t) \/ FinalizeQueue(t) \/ Finalized(t)
  \/ fdrLoggingFlush(t) \/ FlushWithoutFile(t) \/ OpenFile(t) \/ FlushOwn(t)
  \/ WriteBuffers(t) \/ CleanupBuffers(t) \/ ResetToUninitialized(t)

FdrNext ==
  \E t \in Threads :
    Handler(t) \/ Interface(t) \/ QueueStep(t) \/ ThreadExit(t) \/ ThreadGone(t)

FdrSpec == FdrInit /\ [][FdrNext]_fdrVars
----------------------------------------------------------------------------
(* Properties                                                              *)

\* A handler drops its event (setupTLD and prepareBuffer return false) only
\* when the session was not INITIALIZED at some moment of the call, or when
\* getBuffer found every buffer of the ring with another thread, or lost with
\* thread data that were not registered under Key: no buffer goes astray
\* however the threads' returns, exits and sessions interleave.
EventsDroppedWithCause == \A t \in Threads : at[t] \in {"off", "drop"} => t \in excused

\* No other thread has, or returns, a buffer of the session's ring.
Alone(t) ==
  /\ lost = 0
  /\ \A u \in Threads \ {t} : ~Claims(u) /\ pc[u] \notin Releasing

\* The flush writes every buffer that was handed out in the session, and
\* writes it once, when all the other threads have returned theirs and no two
\* calls of the queue overlapped on a slot: the order in which buffers came
\* back, and the buffer the flushing thread still has, do not matter.
LogIsComplete ==
  [][\A t \in Threads :
       WriteBuffers(t) /\ Alone(t) /\ ~overlap =>
         \A data \in given : data \in DOMAIN file' /\ file'[data] = 1]_fdrVars

============================================================================
