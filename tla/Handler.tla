------------------------------ MODULE Handler ------------------------------
(***************************************************************************)
(* daemon/handler.c: one handler thread per accepted connection copies     *)
(* every chunk into a bounded buffer of its own, and a sender thread that  *)
(* it starts takes the chunks out again and writes them to the client.     *)
(*                                                                         *)
(* The buffer is the queue of the chunks in it; that the array with a      *)
(* start and a count behaves like a queue of BufSize - 1 places is the     *)
(* subject of SendBuffer.  A sender asleep on the buffer's condition       *)
(* variable is in bufBlocked.                                              *)
(***************************************************************************)
EXTENDS Acquisition, Sequences

CONSTANT BufSize            \* BUF_SIZE, the elements of the buffer's array
ASSUME BufAssumption == BufSize \in Nat \ {0, 1}

VARIABLES
  hpc,             \* where handler_thread_main is, for each handler
  spc,             \* where handler_sender_main is, for each handler's sender
  handlerRunning,  \* the flag the two threads share
  queue,           \* the chunks in the handler's buffer, oldest first
  lastSent,        \* the chunk the sender took last: the one it writes
  bufBlocked       \* the senders asleep on their buffer's condition variable

handlerVars == <<hpc, spc, handlerRunning, queue, lastSent, bufBlocked>>
senderVars  == <<spc, handlerRunning, queue, lastSent, bufBlocked>>

\* At "unopened" the handler's descriptor is -1.
HandlerPlaces == {"off", "unopened", "request", "spawn", "register", "registered",
                  "welcome", "loop", "wait", "check", "copy", "copying",
                  "ready", "readied", "leave", "left", "stop", "join",
                  "zombie"}
SenderPlaces == {"off", "loop", "take", "write", "done", "exit"}

HandlerInit ==
  /\ hpc = [h \in Handlers |-> "off"]
  /\ spc = [h \in Handlers |-> "off"]
  /\ handlerRunning = [h \in Handlers |-> FALSE]
  /\ queue = [h \in Handlers |-> << >>]
  /\ lastSent = [h \in Handlers |-> NoChunk]
  /\ bufBlocked = {}

Goto(h, from, to) == hpc[h] = from /\ hpc' = [hpc EXCEPT ![h] = to]
SenderGoto(h, from, to) == spc[h] = from /\ spc' = [spc EXCEPT ![h] = to]

\* Mutant: the comparison admits the last place of the array.
FitsOffByOne(h) == Len(queue[h]) + 1 <= BufSize

\* An element still fits into the array, if need be after a move to its front.
Fits(h) == Len(queue[h]) + 1 < BufSize

\* The memcpys of copy_to_buffer run with the buffer locked.
BufferLocked(h) == hpc[h] = "copying"

-----------------------------------------------------------------------------
\* Entering handler_thread_main with what accept has returned
StartHandler(h, place) ==
  /\ Goto(h, "off", place)
  /\ handlerRunning' = [handlerRunning EXCEPT ![h] = TRUE]
  /\ queue' = [queue EXCEPT ![h] = << >>]
  /\ UNCHANGED <<spc, lastSent, bufBlocked>>

\* With the descriptor -1 full_read fails, and then the assertion on close.
CloseAborts(h) ==
  /\ hpc[h] = "unopened"
  /\ crash' = "close"
  /\ UNCHANGED <<syncVars, niVars, handlerVars>>

\* The channel list arrives and passes ...
RequestAccepted(h) ==
  /\ Goto(h, "request", "spawn")
  /\ UNCHANGED <<syncVars, niVars, crash, senderVars>>

\* ... or the client hangs up or asks for a wrong channel.  Before the first
\* chunk is published data_info->num_channels has never been written, so any
\* channel may be refused, and a wrong one may pass (what is sent for it: see
\* DataPath).
RequestRefused(h) ==
  /\ "client" \in Faults \/ header = NoChunk
  /\ Goto(h, "request", "stop")
  /\ UNCHANGED <<syncVars, niVars, crash, senderVars>>

SpawnSender(h) ==
  /\ Goto(h, "spawn", "register")
  /\ spc' = [spc EXCEPT ![h] = "loop"]
  /\ UNCHANGED <<syncVars, niVars, crash, handlerRunning, queue, lastSent,
                 bufBlocked>>

\* pthread_create fails, which is asserted away.
SpawnAborts(h) ==
  /\ "resources" \in Faults
  /\ hpc[h] = "spawn"
  /\ crash' = "pthread_create"
  /\ UNCHANGED <<syncVars, niVars, handlerVars>>

\* inc_available_handlers and its notification
Register(h) ==
  /\ Goto(h, "register", "registered")
  /\ IncAvailable(h)
  /\ UNCHANGED <<niVars, crash, senderVars>>

RegisterNotify(h) ==
  /\ Goto(h, "registered", "welcome")
  /\ NotifyReadBarrier
  /\ UNCHANGED <<niVars, crash, senderVars>>

\* The welcome message and the sampling rate are written, or an assertion on
\* the result of full_write ends the daemon.
Welcome(h) ==
  /\ Goto(h, "welcome", "loop")
  /\ UNCHANGED <<syncVars, niVars, crash, senderVars>>

WelcomeAborts(h) ==
  /\ "client" \in Faults
  /\ hpc[h] = "welcome"
  /\ crash' = "welcome"
  /\ UNCHANGED <<syncVars, niVars, handlerVars>>

\* Mutant: the loop's end returns past dec_available_handlers.
HandlerLoopReturns(h) ==
  /\ Goto(h, "loop", IF running /\ handlerRunning[h] THEN "wait" ELSE "stop")
  /\ UNCHANGED <<syncVars, niVars, crash, senderVars>>

\* while(running && handler_running)
HandlerLoop(h) ==
  /\ Goto(h, "loop", IF running /\ handlerRunning[h] THEN "wait" ELSE "leave")
  /\ UNCHANGED <<syncVars, niVars, crash, senderVars>>

HandlerSleep(h) ==
  /\ hpc[h] = "wait"
  /\ SleepOnData(h)
  /\ UNCHANGED <<niVars, crash, handlerVars>>

HandlerWakes(h) ==
  /\ Goto(h, "wait", "check")
  /\ LeaveDataWait(h)
  /\ UNCHANGED <<niVars, crash, senderVars>>

\* if(!running) break
HandlerCheck(h) ==
  /\ Goto(h, "check", IF running THEN "copy" ELSE "leave")
  /\ UNCHANGED <<syncVars, niVars, crash, senderVars>>

-----------------------------------------------------------------------------
\* Mutant: a chunk that does not fit is skipped.
CopyFullSkips(h) ==
  /\ Goto(h, "copy", "ready")
  /\ ~Fits(h)
  /\ bufBlocked' = bufBlocked \ {h}
  /\ UNCHANGED <<syncVars, niVars, crash, spc, handlerRunning, queue, lastSent>>

\* copy_to_buffer: no room (ENOBUFS), or the start and the end of the copy
CopyFull(h) ==
  /\ Goto(h, "copy", "leave")
  /\ ~Fits(h)
  /\ bufBlocked' = bufBlocked \ {h}
  /\ UNCHANGED <<syncVars, niVars, crash, spc, handlerRunning, queue, lastSent>>

CopyStart(h) ==
  /\ Goto(h, "copy", "copying")
  /\ Fits(h)
  /\ UNCHANGED <<syncVars, niVars, crash, senderVars>>

CopyEnd(h) ==
  /\ Goto(h, "copying", "ready")
  /\ ~BuffersFreed
  /\ queue' = [queue EXCEPT ![h] = Append(@, header)]
  /\ bufBlocked' = bufBlocked \ {h}
  /\ UNCHANGED <<syncVars, niVars, crash, spc, handlerRunning, lastSent>>

\* memcpy reads buffers that ni_thread_main has freed
CopyFreed(h) ==
  /\ hpc[h] = "copying"
  /\ BuffersFreed
  /\ crash' = "freed_samples"
  /\ UNCHANGED <<syncVars, niVars, handlerVars>>

\* Mutant: nobody is notified.
ReadySilently(h) ==
  /\ Goto(h, "ready", "loop")
  /\ SetReady(h)
  /\ UNCHANGED <<niVars, crash, senderVars>>

\* set_ready and its notification
Ready(h) ==
  /\ Goto(h, "ready", "readied")
  /\ SetReady(h)
  /\ UNCHANGED <<niVars, crash, senderVars>>

ReadyNotify(h) ==
  /\ Goto(h, "readied", "loop")
  /\ NotifyReadBarrier
  /\ UNCHANGED <<niVars, crash, senderVars>>

\* Mutant: nobody is notified.
LeaveSilently(h) ==
  /\ Goto(h, "leave", "stop")
  /\ DecAvailable(h)
  /\ UNCHANGED <<niVars, crash, senderVars>>

\* dec_available_handlers and its notification
Leave(h) ==
  /\ Goto(h, "leave", "left")
  /\ DecAvailable(h)
  /\ UNCHANGED <<niVars, crash, senderVars>>

LeaveNotify(h) ==
  /\ Goto(h, "left", "stop")
  /\ NotifyReadBarrier
  /\ UNCHANGED <<niVars, crash, senderVars>>

\* The sets are used after finish_sync has freed them.
UsesFreedSets(h) ==
  /\ hpc[h] \in {"register", "ready", "leave"}
  /\ freed /\ ~orphaned
  /\ crash' = "freed_sets"
  /\ UNCHANGED <<syncVars, niVars, handlerVars>>

\* handler_running = false and close(fd)
Stop(h) ==
  /\ Goto(h, "stop", "join")
  /\ handlerRunning' = [handlerRunning EXCEPT ![h] = FALSE]
  /\ UNCHANGED <<syncVars, niVars, crash, spc, queue, lastSent, bufBlocked>>

\* pthread_join on the sender, if there is one; free_buffer; the thread ends
JoinSender(h) ==
  /\ Goto(h, "join", "zombie")
  /\ spc[h] \in {"off", "exit"}
  /\ spc' = [spc EXCEPT ![h] = "off"]
  /\ queue' = [queue EXCEPT ![h] = << >>]
  /\ lastSent' = [lastSent EXCEPT ![h] = NoChunk]
  /\ UNCHANGED <<syncVars, niVars, crash, handlerRunning, bufBlocked>>

-----------------------------------------------------------------------------
\* handler_sender_main: while(*handler_running)
SenderLoop(h) ==
  /\ SenderGoto(h, "loop", IF handlerRunning[h] THEN "take" ELSE "done")
  /\ UNCHANGED <<syncVars, niVars, crash, hpc, handlerRunning, queue,
                 lastSent, bufBlocked>>

\* write_buf_element, with the buffer locked: sleep while it is empty, return
\* when the daemon stops, else take the oldest chunk
SenderSleep(h) ==
  /\ spc[h] = "take"
  /\ ~BufferLocked(h) /\ h \notin bufBlocked
  /\ queue[h] = << >> /\ running
  /\ bufBlocked' = bufBlocked \cup {h}
  /\ UNCHANGED <<syncVars, niVars, crash, hpc, spc, handlerRunning, queue,
                 lastSent>>

SenderReturns(h) ==
  /\ SenderGoto(h, "take", "loop")
  /\ ~BufferLocked(h) /\ h \notin bufBlocked
  /\ ~running
  /\ UNCHANGED <<syncVars, niVars, crash, hpc, handlerRunning, queue,
                 lastSent, bufBlocked>>

SenderTake(h) ==
  /\ SenderGoto(h, "take", "write")
  /\ ~BufferLocked(h) /\ h \notin bufBlocked
  /\ queue[h] # << >> /\ running
  /\ lastSent' = [lastSent EXCEPT ![h] = Head(queue[h])]
  /\ queue' = [queue EXCEPT ![h] = Tail(@)]
  /\ UNCHANGED <<syncVars, niVars, crash, hpc, handlerRunning, bufBlocked>>

\* write_dataset, with nothing locked: it may block for as long as the client
\* does not read; it fails when the client is gone or the descriptor closed
WriteOk(h) ==
  /\ SenderGoto(h, "write", "loop")
  /\ UNCHANGED <<syncVars, niVars, crash, hpc, handlerRunning, queue,
                 lastSent, bufBlocked>>

WriteFails(h) ==
  /\ "client" \in Faults \/ hpc[h] = "join"
  /\ SenderGoto(h, "write", "done")
  /\ UNCHANGED <<syncVars, niVars, crash, hpc, handlerRunning, queue,
                 lastSent, bufBlocked>>

\* *handler_running = false, and the sender ends
SenderDone(h) ==
  /\ SenderGoto(h, "done", "exit")
  /\ handlerRunning' = [handlerRunning EXCEPT ![h] = FALSE]
  /\ UNCHANGED <<syncVars, niVars, crash, hpc, queue, lastSent, bufBlocked>>

BufTimeout(h) ==
  /\ h \in bufBlocked
  /\ bufBlocked' = bufBlocked \ {h}
  /\ UNCHANGED <<syncVars, niVars, crash, hpc, spc, handlerRunning, queue,
                 lastSent>>

-----------------------------------------------------------------------------
\* The steps of a thread that wait for nobody but the daemon's own threads ...
HandlerStep(h) ==
  \/ CloseAborts(h) \/ SpawnSender(h) \/ SpawnAborts(h)
  \/ Register(h) \/ RegisterNotify(h)
  \/ Welcome(h) \/ WelcomeAborts(h) \/ HandlerLoop(h)
  \/ HandlerSleep(h) \/ HandlerWakes(h) \/ HandlerCheck(h)
  \/ CopyFull(h) \/ CopyStart(h) \/ CopyEnd(h) \/ CopyFreed(h)
  \/ Ready(h) \/ ReadyNotify(h) \/ Leave(h) \/ LeaveNotify(h)
  \/ UsesFreedSets(h) \/ Stop(h) \/ JoinSender(h)

SenderStep(h) ==
  SenderLoop(h) \/ SenderSleep(h) \/ SenderReturns(h) \/ SenderTake(h)
    \/ SenderDone(h)

\* ... those that wait for the client, and the expiry of a timed wait.
RequestStep(h) == RequestAccepted(h) \/ RequestRefused(h)
WriteStep(h) == WriteOk(h) \/ WriteFails(h)

HandlerTimeout(h) ==
  \/ DataTimeout(h) /\ UNCHANGED <<niVars, crash, handlerVars>>
  \/ BufTimeout(h)

-----------------------------------------------------------------------------
HandlerTypeOK ==
  /\ hpc \in [Handlers -> HandlerPlaces]
  /\ spc \in [Handlers -> SenderPlaces]
  /\ handlerRunning \in [Handlers -> BOOLEAN]
  /\ queue \in [Handlers -> Seq(Chunks)]
  /\ lastSent \in [Handlers -> Chunks \cup {NoChunk}]
  /\ bufBlocked \subseteq Handlers
  /\ \A h \in Handlers : Len(queue[h]) < BufSize
=============================================================================
