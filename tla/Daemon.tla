------------------------------- MODULE Daemon -------------------------------
(***************************************************************************)
(* The whole daemon: main, which accepts connections and then ends the     *)
(* process, the thread that joins dead handlers (the collector), the       *)
(* acquisition thread, and up to Handlers handlers with their senders.     *)
(*                                                                         *)
(* A handler identifier is a pthread_t: it can be given to a new thread    *)
(* once the old one has been joined.                                       *)
(***************************************************************************)
EXTENDS Handler

VARIABLES
  main,        \* where main is
  collector,   \* where dead_handler_thread_main is
  zombie,      \* the handler wait_dead_handler returned, as a set of one
  cancelled    \* pthread_cancel has been called on the collector

mainVars == <<main, collector, zombie, cancelled>>
vars == <<syncVars, niVars, crash, handlerVars, mainVars>>

MainPlaces == {"loop", "poll", "join_ni", "cancel", "join_collector",
               "finish", "finished", "exit"}
CollectorPlaces == {"loop", "wait", "join", "exit"}

Init ==
  /\ SyncInit /\ AcquisitionInit /\ HandlerInit
  /\ main = "loop"
  /\ collector = "loop"
  /\ zombie = {}
  /\ cancelled = FALSE

MainGoto(from, to) == main = from /\ main' = to

-----------------------------------------------------------------------------
\* wait_for_connections: while(running), else close the server socket
MainLoop ==
  /\ MainGoto("loop", IF running THEN "poll" ELSE "join_ni")
  /\ UNCHANGED <<syncVars, niVars, crash, handlerVars, collector, zombie,
                 cancelled>>

\* ppoll returns for its timeout or for the signal ...
MainPollReturns ==
  /\ MainGoto("poll", "loop")
  /\ UNCHANGED <<syncVars, niVars, crash, handlerVars, collector, zombie,
                 cancelled>>

\* ... or because a client connects.  Neither `running' is looked at again nor
\* what accept has returned: with no descriptor left, a handler is started all
\* the same.
MainAccept(h) ==
  /\ MainGoto("poll", "loop")
  /\ \/ StartHandler(h, "request")
     \/ "resources" \in Faults /\ StartHandler(h, "unopened")
  /\ UNCHANGED <<syncVars, niVars, crash, collector, zombie, cancelled>>

\* pthread_create fails, which is asserted away.
MainLaunchAborts ==
  /\ "resources" \in Faults
  /\ main = "poll"
  /\ crash' = "pthread_create"
  /\ UNCHANGED <<syncVars, niVars, handlerVars, mainVars>>

\* main joins the acquisition thread, cancels and joins the collector, frees
\* the sets and returns, which ends every thread that is left.
MainJoinAcquisition ==
  /\ MainGoto("join_ni", "cancel")
  /\ ni = "exit"
  /\ UNCHANGED <<syncVars, niVars, crash, handlerVars, collector, zombie,
                 cancelled>>

\* Mutant: the collector is joined without being cancelled.
MainCancelMissing ==
  /\ MainGoto("cancel", "join_collector")
  /\ UNCHANGED <<syncVars, niVars, crash, handlerVars, collector, zombie,
                 cancelled>>

MainCancel ==
  /\ MainGoto("cancel", "join_collector")
  /\ cancelled' = TRUE
  /\ UNCHANGED <<syncVars, niVars, crash, handlerVars, collector, zombie>>

\* A C library may answer ESRCH for a thread that has ended.
MainCancelAborts ==
  /\ main = "cancel" /\ collector = "exit"
  /\ crash' = "pthread_cancel"
  /\ UNCHANGED <<syncVars, niVars, handlerVars, mainVars>>

MainJoinCollector ==
  /\ MainGoto("join_collector", "finish")
  /\ collector = "exit"
  /\ UNCHANGED <<syncVars, niVars, crash, handlerVars, collector, zombie,
                 cancelled>>

MainFinish ==
  /\ MainGoto("finish", "finished")
  /\ FinishSync
  /\ UNCHANGED <<niVars, crash, handlerVars, collector, zombie, cancelled>>

MainExit ==
  /\ MainGoto("finished", "exit")
  /\ UNCHANGED <<syncVars, niVars, crash, handlerVars, collector, zombie,
                 cancelled>>

\* Waiting for clients and for the other threads: main's steps but accept.
MainStep ==
  \/ MainLoop \/ MainPollReturns \/ MainLaunchAborts \/ MainJoinAcquisition
  \/ MainCancel \/ MainCancelAborts \/ MainJoinCollector
  \/ MainFinish \/ MainExit

-----------------------------------------------------------------------------
\* dead_handler_thread_main: while(running || have_alive_threads()).  The
\* lock is only asked for when `running' is false, which is then final.
CollectorLoop ==
  /\ collector = "loop"
  /\ running \/ LockSets
  /\ collector' = IF running \/ alive # {} THEN "wait" ELSE "exit"
  /\ UNCHANGED <<syncVars, niVars, crash, handlerVars, main, zombie,
                 cancelled>>

CollectorSleep ==
  /\ collector = "wait"
  /\ SleepOnDead
  /\ UNCHANGED <<niVars, crash, handlerVars, mainVars>>

CollectorTakes(h) ==
  /\ collector = "wait"
  /\ TakeDead(h)
  /\ collector' = "join"
  /\ zombie' = {h}
  /\ UNCHANGED <<niVars, crash, handlerVars, main, cancelled>>

CollectorJoins(h) ==
  /\ collector = "join" /\ h \in zombie
  /\ Goto(h, "zombie", "off")
  /\ collector' = "loop"
  /\ zombie' = {}
  /\ UNCHANGED <<syncVars, niVars, crash, senderVars, main, cancelled>>

\* The cancellation is acted upon in pthread_cond_wait, which gives the mutex
\* back to the dying thread, or in pthread_join.
CollectorCancelledAsleep ==
  /\ cancelled /\ collector = "wait"
  /\ OrphanMutex
  /\ collector' = "exit"
  /\ UNCHANGED <<niVars, crash, handlerVars, main, zombie, cancelled>>

CollectorCancelledJoining ==
  /\ cancelled /\ collector = "join"
  /\ collector' = "exit"
  /\ UNCHANGED <<syncVars, niVars, crash, handlerVars, main, zombie,
                 cancelled>>

CollectorStep ==
  \/ CollectorLoop \/ CollectorSleep
  \/ \E h \in Handlers : CollectorTakes(h) \/ CollectorJoins(h)
  \/ CollectorCancelledAsleep \/ CollectorCancelledJoining

-----------------------------------------------------------------------------
\* SIGINT
Interrupt ==
  /\ "interrupt" \in Faults /\ running
  /\ StopRunning
  /\ UNCHANGED <<niVars, crash, handlerVars, mainVars>>

\* The process exists.
Up == crash = "none" /\ main # "exit"

ThreadStep(h) ==
  /\ HandlerStep(h) \/ RequestStep(h) \/ SenderStep(h) \/ WriteStep(h)
        \/ HandlerTimeout(h)
  /\ UNCHANGED mainVars

AcquisitionStep == (NiStep \/ NiTimeout) /\ UNCHANGED <<handlerVars, mainVars>>

Next ==
  \/ Up /\ AcquisitionStep
  \/ Up /\ \E h \in Handlers : ThreadStep(h) \/ MainAccept(h)
  \/ Up /\ (MainStep \/ CollectorStep \/ Interrupt)
  \/ ~Up /\ UNCHANGED vars

\* Every thread that can go on does.  What the daemon waits for from outside
\* (a client that sends its request or reads its data, a timeout that expires)
\* need not happen.
Fairness ==
  /\ WF_vars(Up /\ NiStep /\ UNCHANGED <<handlerVars, mainVars>>)
  /\ \A h \in Handlers : WF_vars(Up /\ HandlerStep(h) /\ UNCHANGED mainVars)
  /\ WF_vars(Up /\ MainStep)
  /\ WF_vars(Up /\ CollectorStep)

Spec == Init /\ [][Next]_vars /\ Fairness

\* As Spec, with the timed waits ending and the clients answering.
Responsive ==
  /\ WF_vars(Up /\ NiTimeout /\ UNCHANGED <<handlerVars, mainVars>>)
  /\ \A h \in Handlers :
       /\ WF_vars(Up /\ RequestStep(h) /\ UNCHANGED mainVars)
       /\ WF_vars(Up /\ SenderStep(h) /\ UNCHANGED mainVars)
       /\ WF_vars(Up /\ WriteStep(h) /\ UNCHANGED mainVars)
       /\ WF_vars(/\ Up /\ DataTimeout(h)
                  /\ UNCHANGED <<niVars, crash, handlerVars, mainVars>>)
       /\ WF_vars(Up /\ BufTimeout(h) /\ UNCHANGED mainVars)

ResponsiveSpec == Spec /\ Responsive

-----------------------------------------------------------------------------
\* Every variable has its type.
DaemonTypeOK ==
  /\ SyncTypeOK /\ AcquisitionTypeOK /\ HandlerTypeOK
  /\ main \in MainPlaces
  /\ collector \in CollectorPlaces
  /\ zombie \subseteq Handlers
  /\ cancelled \in BOOLEAN

\* No chunk is overwritten under a reader: from the moment copy_to_buffer has
\* been entered until set_ready is called, the acquisition thread neither
\* writes to the sample buffers nor to the record, and the record describes
\* what the buffers hold.  (daemon.c:219-239 against handler.c:168-186: the
\* samples have no lock of their own.)
BufferStable ==
  \A h \in Handlers : hpc[h] \in {"copy", "copying"} =>
      /\ ~NiWrites
      /\ h \in pending
      /\ samples = header

\* The chunk the handler put into its buffer last, sent or not.
LastCopied(h) == IF queue[h] # << >> THEN queue[h][Len(queue[h])]
                                     ELSE lastSent[h]

\* What a client is sent is a run of consecutive chunks: the one its sender is
\* writing or wrote last is followed in the buffer by its successors.
GaplessStreams ==
  \A h \in Handlers :
    /\ \A i \in 1 .. Len(queue[h]) - 1 : queue[h][i+1] = Tick(queue[h][i])
    /\ queue[h] # << >> /\ lastSent[h] # NoChunk
         => queue[h][1] = Tick(lastSent[h])

\* set_ready and dec_available_handlers are only called where their assertions
\* (sync.c:233, 237, 325-334) hold.
SyncCallsLegal ==
  \A h \in Handlers : /\ hpc[h] = "ready" => SetReadyAsserts(h)
                      /\ hpc[h] = "leave" => DecAsserts(h)

\* A thread identifier is joined once: while it is in the dead set or being
\* joined it belongs to a handler that has left, it is not in the dead set a
\* second time, and a thread that has yet to register is in no set.
JoinedOnce ==
  /\ \A h \in dead \cup (IF collector = "join" THEN zombie ELSE {}) :
        hpc[h] \in {"left", "stop", "join", "zombie"}
  /\ collector = "join" => zombie \cap dead = {}
  /\ \A h \in Handlers :
        hpc[h] \in {"off", "unopened", "request", "spawn", "register"} =>
           h \notin alive \cup active \cup pending \cup done \cup dead

\* Nobody sleeps through what it waits for: the acquisition thread only sleeps
\* on an open barrier while the handler that opened it is about to broadcast,
\* a handler only sleeps on a chunk it has yet to copy while the chunk is
\* about to be announced, a sender never sleeps on a chunk in its buffer and
\* the collector never on a dead handler.  (The conditions change in one
\* critical section and are mostly broadcast in a second one.)
NoLostWakeup ==
  /\ readBlocked /\ done = active
       => \E h \in Handlers : hpc[h] \in {"readied", "left"}
  /\ dataBlocked \cap pending # {} => ni = "notify"
  /\ \A h \in bufBlocked : queue[h] = << >>
  /\ deadBlocked => dead = {}

\* The daemon is not ended from within while it runs: the barrier's assertions
\* (sync.c:202-203), the cancellation (daemon.c:397), and the use of samples
\* and sets that have been freed (handler.c:177, sync.c:317) need `running' to
\* be false, however threads, timeouts and wake-ups are interleaved.  (What does
\* end a daemon that nobody has stopped comes from outside: a client that cannot
\* be welcomed, handler.c:395; no descriptor left, daemon.c:345 and
\* handler.c:431; no thread left, daemon.c:285 and handler.c:388; no memory
\* left, which is not modelled; a wrong channel that the request's test let
\* through before the first chunk, which is a matter of DataPath.)
FailsFromOutside ==
  crash \in {"wait_read_barrier", "pthread_cancel", "freed_samples",
             "freed_sets"} => ~running

\* A handler that has served a client, that is, has started a sender, does not
\* end without being handed to the collector.  (One that has not is joined by
\* nobody: handler.c:425.)
ServedAreCollected ==
  \A h \in Handlers :
    hpc[h] \in {"left", "stop", "join"} /\ spc[h] # "off"
      => h \in dead \cup zombie

-----------------------------------------------------------------------------
(***************************************************************************)
(* The inductive invariant behind the safety properties.                   *)
(***************************************************************************)

Unregistered == {"off", "unopened", "request", "spawn", "register"}
Registered   == {"registered", "welcome", "loop", "wait", "check", "copy",
                 "copying", "ready", "readied", "leave"}
Departed     == {"left", "stop", "join", "zombie"}

\* Which sets a handler may be in depends on how far it has come.
SetsMatchPlaces ==
  /\ \A h \in alive : hpc[h] \in Registered
  /\ \A h \in Handlers : hpc[h] \in Registered => h \in alive
  /\ \A h \in dead : hpc[h] \in Departed
  /\ collector = "join" => /\ zombie \cap dead = {}
                          /\ \A h \in zombie : hpc[h] \in Departed

\* A handler that copies is pending, and stays so until it calls set_ready.
CopiersPending ==
  \A h \in Handlers :
    /\ hpc[h] \in {"copy", "copying", "ready"} => h \in pending
    /\ hpc[h] = "check" /\ running => h \in pending
    /\ hpc[h] = "copying" => Fits(h)

\* From the barrier to the reset nobody is pending.
BarrierHolds == ni \in {"check", "read", "publish", "reset"} => pending = {}

\* The record lags behind the buffers only between the read and its
\* publication, and describes something once there are active handlers.
HeaderFollows ==
  /\ samples = (IF ni = "publish" THEN Tick(header) ELSE header)
  /\ active # {} \/ ni = "reset" => header # NoChunk

\* How far behind the record a handler's stream is, in terms of the sets.
Lag ==
  \A h \in Handlers :
    /\ hpc[h] \in Unregistered \cup {"zombie"} => LastCopied(h) = NoChunk
    /\ h \in alive /\ h \notin active => LastCopied(h) = NoChunk
    /\ h \in pending /\ hpc[h] # "ready" /\ LastCopied(h) # NoChunk
         => header = Tick(LastCopied(h))
    /\ h \in pending /\ hpc[h] = "ready" => header = LastCopied(h)
    /\ h \in done => header = IF ni = "reset" THEN Tick(LastCopied(h))
                                             ELSE LastCopied(h)

Inv ==
  /\ DaemonTypeOK
  /\ SetsPartition /\ SetsMatchPlaces /\ CopiersPending
  /\ BarrierHolds /\ HeaderFollows /\ Lag
  /\ GaplessStreams /\ NoLostWakeup

-----------------------------------------------------------------------------
\* As long as nobody stops the daemon it goes on acquiring data, whatever the
\* clients do: no wake-up is lost between the barrier and its notifications,
\* and a client that does not read holds nobody up.
AcquisitionProgress == []<>(ni = "read" \/ ~running \/ ~Up)

\* The daemon ends after it has been stopped, if its timed waits end and its
\* clients answer.
ShutdownCompletes == Responsive => (~running ~> ~Up)

-----------------------------------------------------------------------------
\* The daemon as a broadcast: see Broadcast.
Channel == INSTANCE Broadcast WITH
  Subscribers <- Handlers,
  current     <- header,
  fresh       <- ni = "reset",
  subs        <- alive,
  owing       <- {h \in pending : hpc[h] # "ready"},
  got         <- [h \in Handlers |->
                    IF h \in alive THEN LastCopied(h) ELSE NoChunk]

ImplementsBroadcast == Channel!Spec

-----------------------------------------------------------------------------
(***************************************************************************)
(* What comments of the source say, and the daemon does not keep.          *)
(***************************************************************************)

\* sync.c:54-55: a pending handler has "yet to copy the current data", so the
\* data is there to be copied.  The acquisition thread frees it when it leaves
\* its loop.
DataIsThereToCopy ==
  \A h \in Handlers : hpc[h] = "copying" /\ h \in pending => ~BuffersFreed

\* sync.c:58-59: the handlers in the dead set are "pthread_joinable".  One
\* whose sender sleeps on its empty buffer is never joined.
DeadAreJoined ==
  \A h \in Handlers : h \in dead ~> (hpc[h] = "off" \/ ~running \/ ~Up)
=============================================================================
