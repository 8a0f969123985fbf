------------------------------- MODULE Server -------------------------------
(***************************************************************************)
(* The daemon's end of the connections: main's accept (daemon/daemon.c),   *)
(* and what each handler and its sender (daemon/handler.c) do with the     *)
(* descriptor they share.                                                  *)
(*                                                                         *)
(* The acquisition thread and the monitor are replaced by the broadcast    *)
(* that Daemon implements: a handler subscribes to it, receives and        *)
(* unsubscribes.  A handler has the name of its connection; NoConn is the  *)
(* handler of an accept that failed.                                       *)
(***************************************************************************)
EXTENDS Sockets

CONSTANTS
  Room,       \* chunks a handler's buffer holds
  MaxChunk    \* chunk numbers in use before they start again at 1

ASSUME RoomAssumption == Room \in Nat /\ MaxChunk \in Nat \ {0}

VARIABLES
  daemon,      \* "running"; after SIGINT "stopping", "leaving" (main has
               \* accepted once more) and "closed" (it accepts no more); then
               \* "exited"; or the assertion that ended it: "welcome", "close"
  current, fresh, subs, owing, got,   \* the broadcast's
  hpc,         \* where handler_thread_main is
  hfd,         \* info->fd
  hrunning,    \* handler_running
  queue,       \* buffer_desc
  spc,         \* where handler_sender_main is: "magic" ... are its writes
  writing      \* the chunk it writes, 0 between two

Chunks == INSTANCE Broadcast WITH Subscribers <- Conns

chunkVars   == <<current, fresh, subs, owing, got>>
handlerVars == <<hpc, hfd>>
senderVars  == <<hrunning, queue, spc, writing>>
serverVars  == <<daemon, chunkVars, handlerVars, senderVars>>

Handlers == Conns \cup {NoConn}

ServerInit ==
  /\ daemon = "running"
  /\ Chunks!Init
  /\ hpc = [h \in Handlers |-> "off"]
  /\ hfd = [h \in Handlers |-> NoFd]
  /\ hrunning = [c \in Conns |-> FALSE]
  /\ queue = [c \in Conns |-> << >>]
  /\ spc = [c \in Conns |-> "off"]
  /\ writing = [c \in Conns |-> 0]

Stopped   == daemon \in {"stopping", "leaving", "closed"}
Listening == daemon \in {"running", "stopping", "leaving"}
Up        == daemon \in {"running", "stopping", "leaving", "closed"}
Goto(h, from, to) == hpc[h] = from /\ hpc' = [hpc EXCEPT ![h] = to]
SenderGoto(c, from, to) == spc[c] = from /\ spc' = [spc EXCEPT ![c] = to]

\* An assertion fails, or main returns.
Ends(how) ==
  /\ daemon' = how
  /\ CloseAll
  /\ UNCHANGED <<chunkVars, handlerVars, senderVars>>

-----------------------------------------------------------------------------
\* main is behind the test of running; when SIGINT comes now it accepts once
\* more.
Accepts ==
  /\ daemon \in {"running", "stopping"}
  /\ daemon' = IF daemon = "running" THEN "running" ELSE "leaving"

\* accept gives the lowest number that is free ...
Accept(c) ==
  /\ Accepts
  /\ link[c] = "queued"
  /\ \E fd \in Fds : /\ LeastFree(fd)
                     /\ table' = [table EXCEPT ![fd] = c]
                     /\ hfd' = [hfd EXCEPT ![c] = fd]
  /\ link' = [link EXCEPT ![c] = "open"]
  /\ Goto(c, "off", "request")
  /\ UNCHANGED <<gone, toServer, toClient, held, chunkVars, senderVars>>

\* ... or -1 when there is none, and a handler is started all the same.
AcceptFails ==
  /\ Accepts
  /\ Free = {} /\ \E c \in Conns : link[c] = "queued"
  /\ Goto(NoConn, "off", "request")
  /\ UNCHANGED <<netVars, fdVars, chunkVars, hfd, senderVars>>

\* The loop ends, and the listening socket is closed.
StopAccepting ==
  /\ daemon \in {"stopping", "leaving"} /\ daemon' = "closed"
  /\ StopListening
  /\ UNCHANGED <<chunkVars, handlerVars, senderVars>>

Interrupt ==
  /\ daemon = "running" /\ daemon' = "stopping"
  /\ UNCHANGED <<netVars, fdVars, chunkVars, handlerVars, senderVars>>

Exit == daemon = "closed" /\ Ends("exited")

\* The acquisition thread reads and announces a chunk.
NewChunk ==
  /\ daemon = "running"
  /\ Chunks!Produce \/ Chunks!Announce
  /\ UNCHANGED <<netVars, fdVars, daemon, handlerVars, senderVars>>

-----------------------------------------------------------------------------
\* The channels are compared with a record that nobody has set before the first
\* chunk: then either kind of list may pass or not (see DataPath).
Unset == current = 0

\* The count and the channels are read and pass; the sender starts, and the
\* handler is available ...
RequestAccepted(c) ==
  /\ request[c] = "good" \/ (request[c] = "wrong" /\ Unset)
  /\ toServer[c] = 2 /\ link[c] # "rst"
  /\ Goto(c, "request", "welcome")
  /\ toServer' = [toServer EXCEPT ![c] = 0]
  /\ hrunning' = [hrunning EXCEPT ![c] = TRUE]
  /\ spc' = [spc EXCEPT ![c] = "loop"]
  /\ Chunks!Subscribe(c)
  /\ UNCHANGED <<link, gone, toClient, fdVars, daemon, hfd, queue, writing>>

\* ... or they do not pass: too many channels are not even read ...
RequestRefused(c) ==
  /\ \/ /\ request[c] = "wrong" \/ (request[c] = "good" /\ Unset)
        /\ toServer[c] = 2
     \/ request[c] = "many" /\ toServer[c] > 0
  /\ Goto(c, "request", "close")
  /\ toServer' = [toServer EXCEPT ![c] = IF request[c] = "many" THEN @ - 1
                                         ELSE 0]
  /\ UNCHANGED <<link, gone, toClient, fdVars, daemon, chunkVars, hfd,
                 senderVars>>

\* Mutant: a request that ends early is waited for.
RequestFailsOnReset(h) ==
  /\ h # NoConn => link[h] = "rst"
  /\ Goto(h, "request", "close")
  /\ UNCHANGED <<netVars, fdVars, daemon, chunkVars, hfd, senderVars>>

\* ... or the reading fails, always so on the descriptor -1.
RequestFails(h) ==
  /\ h # NoConn => (link[h] = "rst" \/ (h \in gone /\ toServer[h] < 2))
  /\ Goto(h, "request", "close")
  /\ UNCHANGED <<netVars, fdVars, daemon, chunkVars, hfd, senderVars>>

\* What the handler writes at its places: the welcome message, the rate
Greeting == [welcome |-> "welcome", rate |-> "rate"]

Greet(c, from, to) ==
  /\ Goto(c, from, to)
  /\ CanWrite(table[hfd[c]])
  /\ UNCHANGED held
  /\ Written(table[hfd[c]], [kind |-> Greeting[from], no |-> 0, from |-> c])
  /\ UNCHANGED <<daemon, chunkVars, hfd, senderVars>>

GreetAborts(c) ==
  /\ hpc[c] \in {"welcome", "rate"}
  /\ WriteRefused(table[hfd[c]])
  /\ Ends("welcome")

\* while(running && handler_running)
Loop(c) ==
  /\ Goto(c, "loop", IF daemon = "running" /\ hrunning[c] THEN "wait"
                                                          ELSE "leave")
  /\ UNCHANGED <<netVars, fdVars, daemon, chunkVars, hfd, senderVars>>

\* Mutant: a chunk for which there is no room is dropped.
CopyDrops(c) ==
  /\ daemon = "running"
  /\ Goto(c, "wait", "loop")
  /\ Chunks!Receive(c)
  /\ queue' = [queue EXCEPT ![c] = IF Len(@) < Room THEN Append(@, current)
                                   ELSE @]
  /\ UNCHANGED <<netVars, fdVars, daemon, hfd, hrunning, spc, writing>>

\* The handler is told of a chunk and copies it into the buffer ...
Copy(c) ==
  /\ daemon = "running" /\ Len(queue[c]) < Room
  /\ Goto(c, "wait", "loop")
  /\ Chunks!Receive(c)
  /\ queue' = [queue EXCEPT ![c] = Append(@, current)]
  /\ UNCHANGED <<netVars, fdVars, daemon, hfd, hrunning, spc, writing>>

\* Mutant: the handler waits until there is room.
LeaveLoopWhenStopped(c) ==
  /\ Stopped
  /\ Goto(c, "wait", "leave")
  /\ UNCHANGED <<netVars, fdVars, daemon, chunkVars, hfd, senderVars>>

\* ... or finds it full, or the daemon stopping.
LeaveLoop(c) ==
  /\ Stopped \/ (c \in owing /\ Len(queue[c]) = Room)
  /\ Goto(c, "wait", "leave")
  /\ UNCHANGED <<netVars, fdVars, daemon, chunkVars, hfd, senderVars>>

Leave(c) ==
  /\ Goto(c, "leave", "close")
  /\ Chunks!Unsubscribe(c)
  /\ UNCHANGED <<netVars, fdVars, daemon, hfd, senderVars>>

\* handler_running = false and close, before the sender is joined
Close(c) ==
  /\ Goto(c, "close", "join")
  /\ CloseFd(hfd[c])
  /\ hrunning' = [hrunning EXCEPT ![c] = FALSE]
  /\ UNCHANGED <<daemon, chunkVars, hfd, queue, spc, writing>>

CloseAborts ==
  /\ hpc[NoConn] = "close"
  /\ Ends("close")

\* Mutant: nobody waits for the sender.
JoinUnwaited(c) ==
  /\ Goto(c, "join", "ended")
  /\ queue' = [queue EXCEPT ![c] = << >>]
  /\ UNCHANGED <<netVars, fdVars, daemon, chunkVars, hfd, hrunning, spc,
                 writing>>

\* pthread_join, free_buffer, free(opaque_info)
Join(c) ==
  /\ spc[c] \in {"off", "ended"}
  /\ Goto(c, "join", "ended")
  /\ hfd' = [hfd EXCEPT ![c] = NoFd]
  /\ queue' = [queue EXCEPT ![c] = << >>]
  /\ UNCHANGED <<netVars, fdVars, daemon, chunkVars, hrunning, spc, writing>>

-----------------------------------------------------------------------------
\* while(*handler_running)
SenderLoop(c) ==
  /\ SenderGoto(c, "loop", IF hrunning[c] THEN "take" ELSE "ended")
  /\ UNCHANGED <<netVars, fdVars, daemon, chunkVars, handlerVars, hrunning,
                 queue, writing>>

\* Mutant: the element stays in the buffer.
SenderTakesAndKeeps(c) ==
  /\ daemon = "running" /\ queue[c] # << >>
  /\ SenderGoto(c, "take", "magic")
  /\ writing' = [writing EXCEPT ![c] = Head(queue[c])]
  /\ UNCHANGED <<netVars, fdVars, daemon, chunkVars, handlerVars, hrunning,
                 queue>>

SenderTakes(c) ==
  /\ daemon = "running" /\ queue[c] # << >>
  /\ SenderGoto(c, "take", "magic")
  /\ writing' = [writing EXCEPT ![c] = Head(queue[c])]
  /\ queue' = [queue EXCEPT ![c] = Tail(@)]
  /\ UNCHANGED <<netVars, fdVars, daemon, chunkVars, handlerVars, hrunning>>

SenderReturns(c) ==
  /\ Stopped
  /\ SenderGoto(c, "take", "loop")
  /\ UNCHANGED <<netVars, fdVars, daemon, chunkVars, handlerVars, hrunning,
                 queue, writing>>

\* The writes of write_dataset, and what follows each
NextWrite == [magic |-> "length", length |-> "body", body |-> "loop"]

\* A write looks its number up when it begins, and nothing looks at
\* handler_running between two of them.
Target(c) == IF held[c] # NoConn THEN held[c] ELSE table[hfd[c]]

\* Mutant: a segment whose write has slept is written again.
SenderWritesAgain(c) ==
  /\ spc[c] \in DOMAIN NextWrite
  /\ CanWrite(Target(c))
  /\ held' = [held EXCEPT ![c] = NoConn]
  /\ Written(Target(c), [kind |-> spc[c], no |-> writing[c], from |-> c])
  /\ spc' = [spc EXCEPT ![c] = IF held[c] = NoConn THEN NextWrite[@] ELSE @]
  /\ writing' = [writing EXCEPT ![c] = IF spc'[c] = "loop" THEN 0 ELSE @]
  /\ UNCHANGED <<daemon, chunkVars, handlerVars, hrunning, queue>>

SenderWrites(c) ==
  /\ spc[c] \in DOMAIN NextWrite
  /\ CanWrite(Target(c))
  /\ held' = [held EXCEPT ![c] = NoConn]
  /\ Written(Target(c), [kind |-> spc[c], no |-> writing[c], from |-> c])
  /\ spc' = [spc EXCEPT ![c] = NextWrite[spc[c]]]
  /\ writing' = [writing EXCEPT ![c] = IF spc[c] = "body" THEN 0 ELSE @]
  /\ UNCHANGED <<daemon, chunkVars, handlerVars, hrunning, queue>>

SenderSleeps(c) ==
  /\ spc[c] \in DOMAIN NextWrite
  /\ held[c] = NoConn /\ WriteSleeps(Target(c))
  /\ held' = [held EXCEPT ![c] = Target(c)]
  /\ UNCHANGED <<netVars, table, daemon, chunkVars, handlerVars, senderVars>>

\* Mutant: the sender closes the descriptor on which it failed.
SenderFailsAndCloses(c) ==
  /\ spc[c] \in DOMAIN NextWrite
  /\ WriteRefused(Target(c))
  /\ held[c] = NoConn
  /\ CloseFd(hfd[c])
  /\ hrunning' = [hrunning EXCEPT ![c] = FALSE]
  /\ spc' = [spc EXCEPT ![c] = "ended"]
  /\ writing' = [writing EXCEPT ![c] = 0]
  /\ UNCHANGED <<daemon, chunkVars, handlerVars, queue>>

\* write_dataset returns an error: the sender tells its handler and ends.
SenderFails(c) ==
  /\ spc[c] \in DOMAIN NextWrite
  /\ WriteRefused(Target(c))
  /\ held' = [held EXCEPT ![c] = NoConn]
  /\ hrunning' = [hrunning EXCEPT ![c] = FALSE]
  /\ spc' = [spc EXCEPT ![c] = "ended"]
  /\ writing' = [writing EXCEPT ![c] = 0]
  /\ UNCHANGED <<netVars, table, daemon, chunkVars, handlerVars, queue>>

-----------------------------------------------------------------------------
MainStep == AcceptFails \/ StopAccepting \/ \E c \in Conns : Accept(c)

HandlerStep(c) ==
  \/ RequestAccepted(c) \/ RequestRefused(c) \/ RequestFails(c)
  \/ Greet(c, "welcome", "rate") \/ Greet(c, "rate", "loop") \/ GreetAborts(c)
  \/ Loop(c) \/ Copy(c) \/ LeaveLoop(c) \/ Leave(c) \/ Close(c) \/ Join(c)

SenderStep(c) ==
  \/ SenderLoop(c) \/ SenderTakes(c) \/ SenderReturns(c)
  \/ SenderWrites(c) \/ SenderSleeps(c) \/ SenderFails(c)
=============================================================================
