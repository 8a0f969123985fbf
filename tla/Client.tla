------------------------------- MODULE Client -------------------------------
(***************************************************************************)
(* The client's end of a connection: pm_connect, pm_read and pm_close of   *)
(* client/libpmlab.c, called in the order of client/pmlabclient.c's main.  *)
(***************************************************************************)
EXTENDS Sockets

CONSTANT Requests   \* channel lists a client may ask for

VARIABLES
  at,        \* where the client is: the segment it writes or reads next, "loop"
             \* between two calls of pm_read, or how it ended
  last       \* the data set pm_read returned last, 0 before the first

clientVars == <<request, at, last>>

Ended ==
  {"null",       \* pm_connect returned NULL
   "eof",        \* pm_read returned 0
   "left",       \* it closed its connection between two data sets, or died
   "!count", "!welcome", "!read"}   \* an assertion failed

ClientInit ==
  /\ request = [c \in Conns |-> "good"]
  /\ at = [c \in Conns |-> "off"]
  /\ last = [c \in Conns |-> 0]

Goes(c, to) == at' = [at EXCEPT ![c] = to] /\ UNCHANGED <<request, last>>

\* The process of the client ends: main exits after every failure.
Quits(c, how) ==
  /\ at' = [at EXCEPT ![c] = how]
  /\ last' = [last EXCEPT ![c] = 0]
  /\ ClientCloses(c)
  /\ UNCHANGED request

-----------------------------------------------------------------------------
Connect(c) ==
  /\ at[c] = "off" /\ at' = [at EXCEPT ![c] = "count"]
  /\ \E what \in Requests : request' = [request EXCEPT ![c] = what]
  /\ Connected(c)
  /\ UNCHANGED last

ConnectRefused(c) ==
  /\ at[c] = "off" /\ Goes(c, "null")
  /\ UNCHANGED netVars

SendCount(c) ==
  /\ at[c] = "count" /\ link[c] # "rst"
  /\ RequestSent(c)
  /\ Goes(c, "channels")

\* assert(sizeof(num_channels) == err)
SendCountAborts(c) ==
  /\ at[c] = "count" /\ link[c] = "rst"
  /\ Quits(c, "!count")

\* The second result is not looked at.
SendChannels(c) ==
  /\ at[c] = "channels"
  /\ IF link[c] = "rst" THEN UNCHANGED netVars ELSE RequestSent(c)
  /\ Goes(c, "welcome")

-----------------------------------------------------------------------------
\* What is read behind each segment; "loop" is behind a whole call
Behind == [welcome |-> "rate", rate |-> "loop",
           magic |-> "length", length |-> "body", body |-> "loop"]

Reading(c) == at[c] \in DOMAIN Behind

\* while(running)
CallRead(c) ==
  /\ at[c] = "loop" /\ Goes(c, "magic")
  /\ UNCHANGED netVars

Taken(c) ==
  /\ toClient' = [toClient EXCEPT ![c] = Tail(@)]
  /\ UNCHANGED <<link, gone, toServer>>

\* full_read returns the segment that was expected.
ReadSegment(c) ==
  /\ Reading(c) /\ toClient[c] # << >>
  /\ Head(toClient[c]).kind = at[c]
  /\ at' = [at EXCEPT ![c] = Behind[at[c]]]
  /\ last' = IF at[c] = "body" THEN [last EXCEPT ![c] = Head(toClient[c]).no]
                               ELSE last
  /\ Taken(c)
  /\ UNCHANGED request

\* Another one: the two texts are compared, everything else is taken for what
\* it is not, and the reader has lost its place in the stream.
ReadMismatch(c) ==
  /\ Reading(c) /\ toClient[c] # << >>
  /\ Head(toClient[c]).kind # at[c]
  /\ \/ at[c] = "welcome" /\ Quits(c, "!welcome")
     \/ at[c] = "magic"   /\ Quits(c, "!read")
     \/ at[c] \in {"rate", "length", "body"} /\ Goes(c, "garbled") /\ Taken(c)

\* Mutant: the end of the stream in the middle of a data set is not taken for
\* the end.
ReadEndsBetween(c) ==
  /\ Reading(c) /\ toClient[c] = << >> /\ link[c] = "fin"
  /\ at[c] \notin {"length", "body"}
  /\ Quits(c, IF at[c] \in {"welcome", "rate"} THEN "null" ELSE "eof")

\* full_read returns 0: pm_connect returns NULL, pm_read returns 0.
ReadEnds(c) ==
  /\ Reading(c) /\ toClient[c] = << >> /\ link[c] = "fin"
  /\ Quits(c, IF at[c] \in {"welcome", "rate"} THEN "null" ELSE "eof")

\* full_read returns -1: pm_connect returns NULL, an assertion of pm_read fails.
ReadFails(c) ==
  /\ Reading(c) /\ toClient[c] = << >> /\ link[c] = "rst"
  /\ Quits(c, IF at[c] \in {"welcome", "rate"} THEN "null" ELSE "!read")

\* SIGINT ends the loop, and the client calls pm_close; or it is killed.
ClientLeaves(c) ==
  /\ at[c] \notin Ended \cup {"off"}
  /\ Quits(c, "left")

ClientStep(c) ==
  \/ SendCount(c) \/ SendCountAborts(c) \/ SendChannels(c)
  \/ CallRead(c) \/ ReadSegment(c) \/ ReadMismatch(c)
  \/ ReadEnds(c) \/ ReadFails(c)
=============================================================================
