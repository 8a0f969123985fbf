------------------------------ MODULE Sockets ------------------------------
(***************************************************************************)
(* What the system does with the daemon's connections, as far as the       *)
(* daemon and its clients rely on it: TCP streams, the daemon's table of   *)
(* descriptors, and the end of the daemon's process.                       *)
(*                                                                         *)
(* A stream carries segments, the units of full_write and full_read, which *)
(* FullIO shows to be transferred as wholes.  A write sleeps while the     *)
(* stream is full; it holds its connection meanwhile, although another     *)
(* thread may close the descriptor.                                        *)
(***************************************************************************)
EXTENDS Naturals, Sequences

CONSTANTS
  Conns,     \* connections, each with the client that makes it
  NoConn,    \* no connection
  Fds,       \* descriptors the daemon has for connections
  NoFd,      \* -1
  Window     \* bound: segments on their way to a client

ASSUME ConnAssumption == NoConn \notin Conns
ASSUME FdAssumption == Fds \subseteq Nat /\ NoFd \notin Fds
ASSUME WindowAssumption == Window \in Nat \ {0}

VARIABLES
  link,       \* "none", "queued" (not accepted), "open", "fin" (the daemon has
              \* closed it in order) or "rst" (it failed)
  gone,       \* connections the client has closed
  request,    \* what its request asks for: "good", "many" or "wrong" channels
  toServer,   \* segments of the request the daemon has yet to read
  toClient,   \* segments the client has yet to read
  table,      \* the connection of each descriptor
  held        \* the connection on which each handler's sender sleeps in write

netVars == <<link, gone, toServer, toClient>>
fdVars  == <<table, held>>

SocketsInit ==
  /\ link = [c \in Conns |-> "none"]
  /\ gone = {}
  /\ toServer = [c \in Conns |-> 0]
  /\ toClient = [c \in Conns |-> << >>]
  /\ table = [fd \in Fds |-> NoConn]
  /\ held = [c \in Conns |-> NoConn]

Free == {fd \in Fds : table[fd] = NoConn}
LeastFree(fd) == fd \in Free /\ \A other \in Free : fd <= other

-----------------------------------------------------------------------------
\* The links when the table and the writes have become tab and hld: a
\* connection nobody refers to is closed, with a reset if part of the request
\* was not read.
LinksWith(tab, hld) ==
  [c \in Conns |->
     IF \/ link[c] # "open"
        \/ \E fd \in Fds : tab[fd] = c
        \/ \E h \in Conns : hld[h] = c
       THEN link[c]
       ELSE IF toServer[c] > 0 THEN "rst" ELSE "fin"]

\* close
CloseFd(fd) ==
  /\ table' = [table EXCEPT ![fd] = NoConn]
  /\ link' = LinksWith(table', held)
  /\ UNCHANGED <<gone, toServer, toClient, held>>

\* The process ends; connections it has not accepted are reset.
CloseAll ==
  /\ table' = [fd \in Fds |-> NoConn]
  /\ held' = [c \in Conns |-> NoConn]
  /\ link' = [c \in Conns |-> IF link[c] = "queued" THEN "rst"
                              ELSE LinksWith(table', held')[c]]
  /\ UNCHANGED <<gone, toServer, toClient>>

\* The listening socket is closed; connections not accepted are reset.
StopListening ==
  /\ link' = [c \in Conns |-> IF link[c] = "queued" THEN "rst" ELSE link[c]]
  /\ UNCHANGED <<gone, toServer, toClient, fdVars>>

\* A write to a client that has closed is taken, and answered with a reset.
CanWrite(c) ==
  /\ c # NoConn
  /\ link[c] = "open"
  /\ c \in gone \/ Len(toClient[c]) < Window

WriteSleeps(c) ==
  c # NoConn /\ link[c] = "open" /\ c \notin gone /\ Len(toClient[c]) = Window

WriteRefused(c) == c # NoConn => link[c] # "open"

\* The link and the stream behind a write that was taken, of a thread that
\* sleeps on nothing any more
Written(c, segment) ==
  /\ toClient' = [toClient EXCEPT ![c] = IF c \in gone THEN << >>
                                         ELSE Append(@, segment)]
  /\ link' = IF c \in gone THEN [link EXCEPT ![c] = "rst"]
             ELSE LinksWith(table, held')
  /\ UNCHANGED <<gone, toServer, table>>

-----------------------------------------------------------------------------
\* connect: the connection waits to be accepted.
Connected(c) ==
  /\ link' = [link EXCEPT ![c] = "queued"]
  /\ UNCHANGED <<gone, toServer, toClient>>

\* A part of the request arrives, or meets a connection that is closed.
RequestSent(c) ==
  /\ IF link[c] = "fin"
       THEN link' = [link EXCEPT ![c] = "rst"] /\ UNCHANGED toServer
       ELSE toServer' = [toServer EXCEPT ![c] = @ + 1] /\ UNCHANGED link
  /\ UNCHANGED <<gone, toClient>>

\* The client closes, or its process ends: a reset if it has left anything
\* unread.
ClientCloses(c) ==
  /\ gone' = gone \cup {c}
  /\ link' = [link EXCEPT ![c] = IF @ = "open" /\ toClient[c] # << >>
                                   THEN "rst" ELSE @]
  /\ toClient' = [toClient EXCEPT ![c] = << >>]
  /\ UNCHANGED toServer

\* The network fails; what has not arrived is lost.
NetworkFails(c) ==
  /\ link[c] \in {"queued", "open"} /\ c \notin gone
  /\ link' = [link EXCEPT ![c] = "rst"]
  /\ \E n \in 0 .. Len(toClient[c]) :
       toClient' = [toClient EXCEPT ![c] = SubSeq(@, 1, n)]
  /\ UNCHANGED <<gone, toServer>>
=============================================================================
