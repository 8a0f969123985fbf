------------------------------ MODULE Session ------------------------------
(***************************************************************************)
(* Clients and daemon together, over connections that may fail.            *)
(***************************************************************************)
EXTENDS Server, Client, FiniteSets

CONSTANT Faults   \* of "network", "client" (leaves) and "interrupt" (SIGINT)
ASSUME FaultAssumption == Faults \subseteq {"network", "client", "interrupt"}

vars == <<netVars, fdVars, serverVars, clientVars>>

Init == SocketsInit /\ ServerInit /\ ClientInit

ByServer(A) == Up /\ A /\ UNCHANGED clientVars
ByClient(A) == A /\ UNCHANGED <<fdVars, serverVars>>

Next ==
  \/ ByServer(MainStep \/ NewChunk)
  \/ ByServer("interrupt" \in Faults /\ (Interrupt \/ Exit))
  \/ ByServer(RequestFails(NoConn) \/ CloseAborts)
  \/ \E c \in Conns :
       \/ ByServer(HandlerStep(c) \/ SenderStep(c))
       \/ ByClient(IF Listening THEN Connect(c) ELSE ConnectRefused(c))
       \/ ByClient(ClientStep(c))
       \/ ByClient("client" \in Faults /\ ClientLeaves(c))
       \/ "network" \in Faults /\ NetworkFails(c)
            /\ UNCHANGED <<fdVars, serverVars, clientVars>>

Spec == Init /\ [][Next]_vars

\* The daemon's threads run, and the device delivers.  Clients need not do
\* anything.
ServerFairness ==
  /\ WF_vars(ByServer(MainStep))
  /\ WF_vars(ByServer(NewChunk))
  /\ \A c \in Conns : /\ WF_vars(ByServer(HandlerStep(c)))
                      /\ WF_vars(ByServer(SenderStep(c)))

ServedSpec == Spec /\ ServerFairness

\* The clients run, too.
ClientsRun == \A c \in Conns : WF_vars(ByClient(ClientStep(c)))

-----------------------------------------------------------------------------
Serving == {"welcome", "rate", "loop", "wait", "leave", "close"}
Owning  == Serving \cup {"request"}

\* A handler's descriptor is its connection's from accept until the handler
\* closes it: neither its own sender, nor another handler, nor an accept in
\* between takes it away.  (handler.c shares info->fd between two threads.)
OwnDescriptor ==
  Up => \A c \in Conns :
          hpc[c] \in Owning => hfd[c] \in Fds /\ table[hfd[c]] = c

\* The handler of h has closed its number and waits for its sender, which is in
\* a write that goes to c.
StaleWriter(h, c) ==
  hpc[h] = "join" /\ spc[h] \in DOMAIN NextWrite /\ Target(h) = c

\* Whatever enters a stream comes from the connection's own handler or sender,
\* or from a sender that looks up a number its handler has closed, or went to
\* sleep on one: a stream can be spoilt then, and at no other time.
OnlyStaleMix ==
  \A c \in Conns :
    Len(toClient'[c]) > Len(toClient[c]) =>
      LET from == toClient'[c][Len(toClient'[c])].from
      IN  from = c \/ StaleWriter(from, c)

OnlyStaleWritersMix == [][OnlyStaleMix]_vars

-----------------------------------------------------------------------------
(***************************************************************************)
(* The inductive invariant behind the two.                                 *)
(***************************************************************************)

Writers == DOMAIN NextWrite
Segment == [kind : {"welcome", "rate"} \cup Writers, no : Nat, from : Conns]

SessionTypeOK ==
  /\ toClient \in [Conns -> Seq(Segment)]
  /\ table \in [Fds -> Conns \cup {NoConn}]
  /\ held \in [Conns -> Conns \cup {NoConn}]
  /\ current \in Nat
  /\ hpc \in [Handlers -> Owning \cup {"off", "join", "ended"}]
  /\ hfd \in [Handlers -> Fds \cup {NoFd}]
  /\ queue \in [Conns -> Seq(Nat)]
  /\ spc \in [Conns -> Writers \cup {"off", "loop", "take", "ended"}]
  /\ writing \in [Conns -> Nat]

\* A sender exists as long as its handler serves or waits for it.
SendersServe ==
  Up => \A c \in Conns :
          spc[c] \notin {"off", "ended"} => hpc[c] \in Serving \cup {"join"}

\* Until its handler closes, a sender sleeps on its own connection only.
SleepersOwn ==
  Up => \A c \in Conns :
          hpc[c] \in Owning \cup {"off"} => held[c] \in {NoConn, c}

\* A handler that waits for its sender still has the number it has closed, and
\* the sender goes on looking it up.
NumberKept ==
  Up => \A c \in Conns : hpc[c] = "join" => hfd[c] \in Fds

SessionInv ==
  SessionTypeOK /\ OwnDescriptor /\ SendersServe /\ SleepersOwn /\ NumberKept

-----------------------------------------------------------------------------
\* The k-th of the numbers in S
Nth(S, k) == CHOOSE i \in S : Cardinality({j \in S : j <= i}) = k

\* The data sets in a stream that have been written as wholes
DataSets(stream) ==
  LET bodies == {i \in DOMAIN stream : stream[i].kind = "body"}
  IN  [k \in 1 .. Cardinality(bodies) |-> stream[Nth(bodies, k)].no]

\* How far the library's caller has come
Stage(c) ==
  CASE at[c] \in {"loop", "magic", "length", "body"} -> "in"
    [] at[c] = "eof" -> "eof"
    [] at[c] \in (Ended \cup {"garbled"}) \ {"eof"} -> "left"
    [] OTHER -> "out"

\* The library's promise: see Feed.
Promise == INSTANCE Feed WITH
  Clients  <- Conns,
  stage    <- [c \in Conns |-> Stage(c)],
  inflight <- [c \in Conns |-> DataSets(toClient[c])],
  cut      <- {c \in Conns : link[c] \in {"fin", "rst"}}

ImplementsFeed == Promise!Spec

\* A number that a handler has closed leads nowhere until its sender has ended.
\* The code does not see to this (handler.c:430 closes, handler.c:434 waits); it
\* is what the promise needs when there are several clients.
NumbersRest ==
  \A h \in Conns :
    hpc[h] = "join" /\ spc[h] \notin {"off", "ended"} => table[hfd[h]] = NoConn

\* What pm_read returns to one caller is a run of chunks without a gap, a
\* repetition or a change of order, whatever happens on the way.
\* (checking_lab_client.sh:22 looks for this in the output of a client.)
ReadsInOrder ==
  [][\A c \in Conns :
       at[c] = "body" /\ at'[c] = "loop" =>
         last[c] = 0 \/ last'[c] = Chunks!Tick(last[c])]_vars

\* A reader never loses its place: the welcome message, the rate and the three
\* segments of each data set come in the order in which pm_connect and pm_read
\* take them, although two threads write them, the second started before the
\* first has written (handler.c:382, :395), and any write may sleep or fail.
InStep ==
  \A c \in Conns :
    Reading(c) /\ toClient[c] # << >> => Head(toClient[c]).kind = at[c]

-----------------------------------------------------------------------------
\* A client that has gone is noticed, at whatever point it goes: its descriptor
\* does not stay in the daemon's table.  (A request that breaks off is an error
\* of full_read; later only the sender's failure, its flag and, at the latest,
\* the buffer that fills up tell the handler.)
GoneClientReleased ==
  \A c \in Conns : c \in gone ~> \A fd \in Fds : table[fd] # c

\* A client that stops reading is not served for ever: its handler leaves the
\* loop, unless the client goes on reading.
IdleClientDropped ==
  \A c \in Conns :
    []<>(Up /\ hpc[c] = "wait") => []<><<ReadSegment(c)>>_toClient

\* When the daemon has hung up a client that goes on reading learns of it,
\* behind all that was sent, although the descriptor may be closed under a
\* sender that sleeps in a write.
HangupReachesClient ==
  ClientsRun => \A c \in Conns : hpc[c] = "join" ~> at[c] \in Ended

-----------------------------------------------------------------------------
(***************************************************************************)
(* What an assertion of the source says, and the programs do not keep.     *)
(***************************************************************************)

\* libpmlab.c:111: what pm_connect reads is the welcome message.  The sender of
\* a handler that has closed the same descriptor may have written before.
WelcomeIsFirst == \A c \in Conns : at[c] # "!welcome"
=============================================================================
