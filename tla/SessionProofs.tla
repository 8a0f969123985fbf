--------------------------- MODULE SessionProofs ---------------------------
(***************************************************************************)
(* Proofs about Session, for any number of connections and descriptors and *)
(* all faults.  A handler's descriptor is its own until it closes it, and  *)
(* only the sender of a handler that has closed can write into a stream    *)
(* that is not its own.  And as long as none does, daemon, connections and *)
(* library together implement module Feed, and every segment is the one    *)
(* that its reader expects.                                                *)
(***************************************************************************)
EXTENDS Session, SequenceTheorems, FiniteSetTheorems, FunctionTheorems, TLAPS

\* What an action that writes to no client does to the streams
Shrinks == /\ toClient' \in [Conns -> Seq(Segment)]
           /\ \A c \in Conns : Len(toClient'[c]) <= Len(toClient[c])

LEMMA ShrinkingMixesNothing ==
  ASSUME SessionTypeOK, Shrinks
  PROVE  OnlyStaleMix
<1> SUFFICES ASSUME NEW c \in Conns, Len(toClient'[c]) > Len(toClient[c])
             PROVE  FALSE
  BY DEF OnlyStaleMix
<1>1. Len(toClient'[c]) \in Nat /\ Len(toClient[c]) \in Nat
  BY DEF SessionTypeOK, Shrinks
<1>2. Len(toClient'[c]) <= Len(toClient[c])
  BY DEF Shrinks
<1> QED
  BY <1>1, <1>2

LEMMA StillShrinks ==
  ASSUME SessionTypeOK, UNCHANGED toClient
  PROVE  Shrinks
BY DEF SessionTypeOK, Shrinks

\* The clients and the network change nothing that SessionInv speaks of but the
\* streams, and those they only shorten.
LEMMA RestKeeps ==
  ASSUME SessionInv, UNCHANGED <<fdVars, serverVars>>,
         toClient' \in [Conns -> Seq(Segment)]
  PROVE  SessionInv'
BY DEF SessionInv, SessionTypeOK, OwnDescriptor, SendersServe, SleepersOwn,
       NumberKept, fdVars, serverVars, chunkVars, handlerVars, senderVars, Up

LEMMA TakenShrinks ==
  ASSUME SessionTypeOK, NEW c \in Conns, toClient[c] # << >>,
         toClient' = [toClient EXCEPT ![c] = Tail(@)]
  PROVE  Shrinks
<1>1. toClient[c] \in Seq(Segment)
  BY DEF SessionTypeOK
<1>2. /\ Tail(toClient[c]) \in Seq(Segment)
      /\ Len(Tail(toClient[c])) = Len(toClient[c]) - 1
      /\ Len(toClient[c]) \in Nat
  BY <1>1, HeadTailProperties
<1> QED
  BY <1>2 DEF SessionTypeOK, Shrinks

LEMMA ClosingShrinks ==
  ASSUME SessionTypeOK, NEW c \in Conns, ClientCloses(c)
  PROVE  Shrinks
<1>1. /\ << >> \in Seq(Segment) /\ Len(<< >>) = 0
      /\ \A d \in Conns : Len(toClient[d]) \in Nat
  BY DEF SessionTypeOK
<1> QED
  BY <1>1 DEF SessionTypeOK, Shrinks, ClientCloses

LEMMA NetworkShrinks ==
  ASSUME SessionTypeOK, NEW c \in Conns, NetworkFails(c)
  PROVE  Shrinks
<1>1. PICK n \in 0 .. Len(toClient[c]) :
        toClient' = [toClient EXCEPT ![c] = SubSeq(@, 1, n)]
  BY DEF NetworkFails
<1>2. toClient[c] \in Seq(Segment) /\ Len(toClient[c]) \in Nat
  BY DEF SessionTypeOK
<1>3. \A i \in 1 .. n : toClient[c][i] \in Segment
  BY <1>1, <1>2, ElementOfSeq
<1>4. /\ SubSeq(toClient[c], 1, n) \in Seq(Segment)
      /\ Len(SubSeq(toClient[c], 1, n)) <= Len(toClient[c])
  BY <1>1, <1>2, <1>3, SubSeqProperties
<1> QED
  BY <1>1, <1>4 DEF SessionTypeOK, Shrinks

LEMMA ClientShrinks ==
  ASSUME SessionTypeOK, NEW c \in Conns,
         \/ Connect(c) \/ ConnectRefused(c) \/ ClientStep(c) \/ ClientLeaves(c)
  PROVE  Shrinks
<1>1. CASE Connect(c) \/ ConnectRefused(c) \/ SendCount(c) \/ SendChannels(c)
           \/ CallRead(c)
  <2>1. UNCHANGED toClient
    BY <1>1 DEF Connect, Connected, ConnectRefused, SendCount, SendChannels,
                RequestSent, CallRead, netVars
  <2> QED
    BY <2>1, StillShrinks
<1>2. CASE SendCountAborts(c) \/ ReadEnds(c) \/ ReadFails(c) \/ ClientLeaves(c)
  BY <1>2, ClosingShrinks
     DEF SendCountAborts, ReadEnds, ReadFails, ClientLeaves, Quits
<1>3. CASE ReadSegment(c)
  BY <1>3, TakenShrinks DEF ReadSegment, Taken
<1>4. CASE ReadMismatch(c)
  BY <1>4, TakenShrinks, ClosingShrinks DEF ReadMismatch, Taken, Quits
<1> QED
  BY <1>1, <1>2, <1>3, <1>4 DEF ClientStep

-----------------------------------------------------------------------------
\* When the process has ended nothing is claimed any more but the types.
LEMMA EndKeeps ==
  ASSUME SessionInv, NEW how \in {"welcome", "close", "exited"}, Ends(how)
  PROVE  SessionInv' /\ UNCHANGED toClient
<1>1. ~Up'
  BY DEF Ends, Up
<1>2. SessionTypeOK'
  BY DEF Ends, CloseAll, SessionInv, SessionTypeOK, chunkVars, handlerVars,
         senderVars
<1> QED
  BY <1>1, <1>2 DEF SessionInv, OwnDescriptor, SendersServe, SleepersOwn,
                    NumberKept, Ends, CloseAll

\* A handler moves on to a place from which it has the same obligations.
LEMMA MoveKeeps ==
  ASSUME SessionInv, Up, NEW h \in Handlers, NEW from, NEW to,
         Goto(h, from, to),
         \/ from \in Serving /\ to \in Serving
         \/ from = "request" /\ to = "close"
         \/ h = NoConn /\ to \in Owning,
         UNCHANGED <<toClient, fdVars, hfd, spc, current, writing>>,
         queue' \in [Conns -> Seq(Nat)]
  PROVE  SessionInv'
<1>1. h = NoConn => h \notin Conns
  BY ConnAssumption
<1>2. (from \in Owning /\ to \in Owning) \/ (h = NoConn /\ to \in Owning)
  BY DEF Owning, Serving
<1>3. hpc' = [hpc EXCEPT ![h] = to] /\ hpc[h] = from
  BY DEF Goto
<1>4. SessionTypeOK'
  BY <1>2, <1>3 DEF SessionInv, SessionTypeOK, fdVars
<1>5. OwnDescriptor' /\ SleepersOwn'
  BY <1>1, <1>2, <1>3 DEF SessionInv, SessionTypeOK, OwnDescriptor,
                          SleepersOwn, fdVars, Handlers
<1>6. SendersServe' /\ NumberKept'
  BY <1>1, <1>2, <1>3 DEF SessionInv, SessionTypeOK, SendersServe, NumberKept,
                          Owning, Serving, Handlers
<1> QED
  BY <1>4, <1>5, <1>6 DEF SessionInv

\* accept gives a free number, so nobody loses the number he has.
LEMMA AcceptKeeps ==
  ASSUME SessionInv, Up, NEW c \in Conns, Accept(c)
  PROVE  SessionInv'
<1>1. PICK fd \in Fds : /\ LeastFree(fd)
                        /\ table' = [table EXCEPT ![fd] = c]
                        /\ hfd' = [hfd EXCEPT ![c] = fd]
  BY DEF Accept
<1>2. table[fd] = NoConn
  BY <1>1 DEF LeastFree, Free
<1>3. hpc' = [hpc EXCEPT ![c] = "request"] /\ hpc[c] = "off"
  BY DEF Accept, Goto
<1>4. UNCHANGED <<toClient, held, chunkVars, senderVars>>
  BY DEF Accept
<1>5. SessionTypeOK'
  BY <1>1, <1>3, <1>4 DEF SessionInv, SessionTypeOK, chunkVars, senderVars,
                          Owning, Serving, Handlers
<1>6. OwnDescriptor'
  BY <1>1, <1>2, <1>3, ConnAssumption
     DEF SessionInv, SessionTypeOK, OwnDescriptor, Owning, Serving, Handlers
<1>7. SendersServe' /\ SleepersOwn'
  BY <1>3, <1>4 DEF SessionInv, SessionTypeOK, SendersServe, SleepersOwn,
                    senderVars, Handlers, Owning, Serving
<1>8. NumberKept'
  BY <1>1, <1>3, <1>4 DEF SessionInv, SessionTypeOK, NumberKept, Handlers
<1> QED
  BY <1>5, <1>6, <1>7, <1>8 DEF SessionInv

LEMMA RequestAcceptedKeeps ==
  ASSUME SessionInv, Up, NEW c \in Conns, RequestAccepted(c)
  PROVE  SessionInv'
<1>1. /\ hpc' = [hpc EXCEPT ![c] = "welcome"] /\ hpc[c] = "request"
      /\ spc' = [spc EXCEPT ![c] = "loop"]
      /\ UNCHANGED <<toClient, fdVars, hfd, queue, writing, current>>
  BY DEF RequestAccepted, Goto, Chunks!Subscribe
<1>2. SessionTypeOK'
  BY <1>1 DEF SessionInv, SessionTypeOK, fdVars, Owning, Serving, Handlers
<1>3. OwnDescriptor' /\ SleepersOwn'
  BY <1>1 DEF SessionInv, SessionTypeOK, OwnDescriptor, SleepersOwn, fdVars,
              Owning, Serving, Handlers
<1>4. SendersServe' /\ NumberKept'
  BY <1>1 DEF SessionInv, SessionTypeOK, SendersServe, NumberKept, Serving,
              Handlers
<1> QED
  BY <1>2, <1>3, <1>4 DEF SessionInv

\* What is written goes to the connection that Written is given.
LEMMA WrittenGoes ==
  ASSUME SessionTypeOK, NEW target \in Conns, NEW segment \in Segment,
         Written(target, segment),
         segment.from = target \/ StaleWriter(segment.from, target)
  PROVE  toClient' \in [Conns -> Seq(Segment)] /\ OnlyStaleMix
<1>1. toClient[target] \in Seq(Segment) /\ << >> \in Seq(Segment)
  BY DEF SessionTypeOK
<1>2. CASE target \in gone
  <2>1. toClient' = [toClient EXCEPT ![target] = << >>]
    BY <1>2 DEF Written
  <2>2. /\ Len(<< >>) = 0
        /\ \A c \in Conns : Len(toClient[c]) \in Nat
    BY DEF SessionTypeOK
  <2>3. Shrinks
    BY <1>1, <2>1, <2>2 DEF Shrinks, SessionTypeOK
  <2> QED
    BY <2>3, ShrinkingMixesNothing DEF Shrinks
<1>3. CASE target \notin gone
  <2>1. toClient' = [toClient EXCEPT ![target] = Append(@, segment)]
    BY <1>3 DEF Written
  <2>2. Append(toClient[target], segment) \in Seq(Segment)
    BY <1>1
  <2>3. Append(toClient[target], segment)
          [Len(Append(toClient[target], segment))] = segment
    BY <1>1
  <2>4. toClient' \in [Conns -> Seq(Segment)]
    BY <2>1, <2>2 DEF SessionTypeOK
  <2>5. ASSUME NEW c \in Conns, Len(toClient'[c]) > Len(toClient[c])
        PROVE  LET from == toClient'[c][Len(toClient'[c])].from
               IN  from = c \/ StaleWriter(from, c)
    <3>1. CASE c = target
      <4>1. toClient'[c] = Append(toClient[target], segment)
        BY <2>1, <3>1 DEF SessionTypeOK
      <4> QED
        BY <4>1, <2>3, <3>1
    <3>2. CASE c # target
      <4>1. toClient'[c] = toClient[c]
        BY <2>1, <3>2 DEF SessionTypeOK
      <4>2. Len(toClient[c]) \in Nat
        BY DEF SessionTypeOK
      <4> QED
        BY <2>5, <4>1, <4>2
    <3> QED
      BY <3>1, <3>2
  <2> QED
    BY <2>4, <2>5 DEF OnlyStaleMix
<1> QED
  BY <1>2, <1>3

LEMMA GreetKeeps ==
  ASSUME SessionInv, Up, NEW c \in Conns,
         NEW from \in {"welcome", "rate"}, NEW to \in Serving,
         Greet(c, from, to)
  PROVE  SessionInv' /\ OnlyStaleMix
<1> DEFINE segment == [kind |-> Greeting[from], no |-> 0, from |-> c]
<1>1. hpc[c] \in Owning /\ hpc[c] = from
  BY DEF Greet, Goto, Owning, Serving
<1>2. table[hfd[c]] = c
  BY <1>1 DEF SessionInv, OwnDescriptor
<1>3. segment \in Segment
  BY DEF Segment, Greeting
<1>4. Written(c, segment)
  BY <1>2 DEF Greet
<1>5. toClient' \in [Conns -> Seq(Segment)] /\ OnlyStaleMix
  <2>1. SessionTypeOK /\ segment.from = c
    BY DEF SessionInv
  <2> HIDE DEF segment
  <2> QED
    BY <1>3, <1>4, <2>1, WrittenGoes
<1>6. /\ hpc' = [hpc EXCEPT ![c] = to]
      /\ UNCHANGED <<fdVars, hfd, chunkVars, senderVars>>
  BY <1>4 DEF Greet, Goto, Written, fdVars
<1>7. SessionTypeOK'
  BY <1>5, <1>6 DEF SessionInv, SessionTypeOK, fdVars, chunkVars, senderVars,
                    Owning, Handlers
<1>8. OwnDescriptor' /\ SendersServe' /\ SleepersOwn' /\ NumberKept'
  BY <1>1, <1>2, <1>6
     DEF SessionInv, SessionTypeOK, OwnDescriptor, SendersServe, SleepersOwn,
         NumberKept, fdVars, senderVars, Owning, Serving, Handlers
<1> QED
  BY <1>5, <1>7, <1>8 DEF SessionInv

\* Closing one's own number leaves every other handler its own.
LEMMA CloseKeeps ==
  ASSUME SessionInv, Up, NEW c \in Conns, Close(c)
  PROVE  SessionInv'
<1>1. hpc[c] = "close" /\ hpc' = [hpc EXCEPT ![c] = "join"]
  BY DEF Close, Goto
<1>2. hfd[c] \in Fds /\ table[hfd[c]] = c
  BY <1>1 DEF SessionInv, OwnDescriptor, Owning, Serving
<1>3. /\ table' = [table EXCEPT ![hfd[c]] = NoConn]
      /\ UNCHANGED <<held, toClient, chunkVars, hfd, queue, spc, writing>>
  BY DEF Close, CloseFd
<1>4. SessionTypeOK'
  BY <1>1, <1>2, <1>3
     DEF SessionInv, SessionTypeOK, chunkVars, Owning, Handlers
<1>5. OwnDescriptor'
  BY <1>1, <1>2, <1>3
     DEF SessionInv, SessionTypeOK, OwnDescriptor, Owning, Serving, Handlers
<1>6. SendersServe' /\ SleepersOwn' /\ NumberKept'
  BY <1>1, <1>2, <1>3
     DEF SessionInv, SessionTypeOK, SendersServe, SleepersOwn, NumberKept,
         Owning, Serving, Handlers
<1> QED
  BY <1>4, <1>5, <1>6 DEF SessionInv

LEMMA JoinKeeps ==
  ASSUME SessionInv, Up, NEW c \in Conns, Join(c)
  PROVE  SessionInv'
<1>1. /\ hpc[c] = "join" /\ hpc' = [hpc EXCEPT ![c] = "ended"]
      /\ spc[c] \in {"off", "ended"}
      /\ hfd' = [hfd EXCEPT ![c] = NoFd]
      /\ queue' = [queue EXCEPT ![c] = << >>]
      /\ UNCHANGED <<toClient, fdVars, current, spc, writing>>
  BY DEF Join, Goto, netVars, chunkVars
<1>2. SessionTypeOK'
  BY <1>1 DEF SessionInv, SessionTypeOK, fdVars, Handlers
<1>3. OwnDescriptor' /\ SendersServe' /\ SleepersOwn' /\ NumberKept'
  BY <1>1 DEF SessionInv, SessionTypeOK, OwnDescriptor, SendersServe,
              SleepersOwn, NumberKept, fdVars, Owning, Serving, Handlers
<1> QED
  BY <1>2, <1>3 DEF SessionInv

\* The other steps of a handler: MoveKeeps.
LEMMA HandlerKeeps ==
  ASSUME SessionInv, Up, NEW c \in Conns, HandlerStep(c)
  PROVE  SessionInv' /\ OnlyStaleMix
<1>0. /\ c \in Handlers /\ SessionTypeOK /\ queue \in [Conns -> Seq(Nat)]
      /\ current \in Nat
  BY DEF SessionInv, SessionTypeOK, Handlers
<1>1. CASE RequestAccepted(c)
  <2>1. UNCHANGED toClient
    BY <1>1 DEF RequestAccepted
  <2> QED
    BY <1>0, <1>1, <2>1, RequestAcceptedKeeps, StillShrinks,
       ShrinkingMixesNothing
<1>2. CASE RequestRefused(c) \/ RequestFails(c)
  <2>1. /\ Goto(c, "request", "close")
        /\ UNCHANGED <<toClient, fdVars, hfd, spc, current, writing, queue>>
    BY <1>2 DEF RequestRefused, RequestFails, chunkVars, senderVars, netVars
  <2>2. SessionInv'
    BY <1>0, <2>1, MoveKeeps
  <2> QED
    BY <1>0, <2>1, <2>2, StillShrinks, ShrinkingMixesNothing
<1>3. CASE Greet(c, "welcome", "rate") \/ Greet(c, "rate", "loop")
  BY <1>3, GreetKeeps DEF Serving
<1>4. CASE GreetAborts(c)
  <2>1. Ends("welcome")
    BY <1>4 DEF GreetAborts
  <2> QED
    BY <1>0, <2>1, EndKeeps, StillShrinks, ShrinkingMixesNothing
<1>5. CASE Loop(c) \/ LeaveLoop(c) \/ Leave(c)
  <2>1. PICK from \in Serving, to \in Serving : Goto(c, from, to)
    BY <1>5 DEF Loop, LeaveLoop, Leave, Goto, Serving
  <2>2. UNCHANGED <<toClient, fdVars, hfd, spc, current, writing, queue>>
    BY <1>5 DEF Loop, LeaveLoop, Leave, chunkVars, senderVars, netVars,
                Chunks!Unsubscribe
  <2>3. SessionInv'
    BY <1>0, <2>1, <2>2, MoveKeeps
  <2> QED
    BY <1>0, <2>2, <2>3, StillShrinks, ShrinkingMixesNothing
<1>6. CASE Copy(c)
  <2>1. /\ Goto(c, "wait", "loop")
        /\ queue' = [queue EXCEPT ![c] = Append(@, current)]
        /\ UNCHANGED <<toClient, fdVars, hfd, spc, current, writing>>
    BY <1>6 DEF Copy, netVars, Chunks!Receive
  <2>2. queue' \in [Conns -> Seq(Nat)]
    BY <1>0, <2>1
  <2>3. SessionInv'
    BY <1>0, <2>1, <2>2, MoveKeeps DEF Serving
  <2> QED
    BY <1>0, <2>1, <2>3, StillShrinks, ShrinkingMixesNothing
<1>7. CASE Close(c)
  <2>1. UNCHANGED toClient
    BY <1>7 DEF Close, CloseFd
  <2> QED
    BY <1>0, <1>7, <2>1, CloseKeeps, StillShrinks, ShrinkingMixesNothing
<1>8. CASE Join(c)
  <2>1. UNCHANGED toClient
    BY <1>8 DEF Join, netVars
  <2> QED
    BY <1>0, <1>8, <2>1, JoinKeeps, StillShrinks, ShrinkingMixesNothing
<1> QED
  BY <1>1, <1>2, <1>3, <1>4, <1>5, <1>6, <1>7, <1>8 DEF HandlerStep

-----------------------------------------------------------------------------
\* While its handler serves, a sender's writes go to its own connection.
LEMMA TargetOwn ==
  ASSUME SessionInv, Up, NEW c \in Conns, spc[c] \in Writers
  PROVE  Target(c) = c \/ hpc[c] = "join"
<1>1. hpc[c] \in Serving \cup {"join"}
  BY DEF SessionInv, SendersServe, Writers, NextWrite
<1>2. CASE hpc[c] \in Serving
  <2>1. table[hfd[c]] = c /\ held[c] \in {NoConn, c}
    BY <1>2 DEF SessionInv, OwnDescriptor, SleepersOwn, Owning
  <2> QED
    BY <2>1 DEF Target
<1> QED
  BY <1>1, <1>2

\* A step of a sender that stays a sender, or ends, and leaves the tables alone.
LEMMA SenderMoves ==
  ASSUME SessionInv, Up, NEW c \in Conns,
         NEW to \in Writers \cup {"loop", "take", "ended"},
         spc[c] \notin {"off", "ended"},
         spc' = [spc EXCEPT ![c] = to],
         held' = held \/ held' = [held EXCEPT ![c] = NoConn],
         UNCHANGED <<table, handlerVars, current>>,
         queue' \in [Conns -> Seq(Nat)], writing' \in [Conns -> Nat],
         toClient' \in [Conns -> Seq(Segment)]
  PROVE  SessionInv'
<1>1. SessionTypeOK'
  BY DEF SessionInv, SessionTypeOK, handlerVars
<1>2. OwnDescriptor'
  BY DEF SessionInv, OwnDescriptor, handlerVars
<1>3. SendersServe' /\ SleepersOwn' /\ NumberKept'
  BY DEF SessionInv, SessionTypeOK, SendersServe, SleepersOwn, NumberKept,
         handlerVars
<1> QED
  BY <1>1, <1>2, <1>3 DEF SessionInv

\* What a write that is taken or sleeps goes to is a connection.
LEMMA TargetIsConn ==
  ASSUME SessionInv, Up, NEW c \in Conns, spc[c] \in Writers,
         Target(c) # NoConn
  PROVE  Target(c) \in Conns
<1>1. hpc[c] \in Serving \cup {"join"}
  BY DEF SessionInv, SendersServe, Writers, NextWrite
<1>2. hfd[c] \in Fds
  BY <1>1 DEF SessionInv, OwnDescriptor, NumberKept, Owning
<1> QED
  BY <1>2 DEF Target, SessionInv, SessionTypeOK

LEMMA SenderWritesKeeps ==
  ASSUME SessionInv, Up, NEW c \in Conns, SenderWrites(c)
  PROVE  SessionInv' /\ OnlyStaleMix
<1> DEFINE segment == [kind |-> spc[c], no |-> writing[c], from |-> c]
<1>1. spc[c] \in Writers
  BY DEF SenderWrites, Writers
<1>2. Target(c) \in Conns
  BY <1>1, TargetIsConn DEF SenderWrites, CanWrite
<1>3. segment \in Segment
  BY <1>1 DEF SessionInv, SessionTypeOK, Segment
<1>4. Written(Target(c), segment)
  BY DEF SenderWrites
<1>5. segment.from = c
  OBVIOUS
<1>6. toClient' \in [Conns -> Seq(Segment)] /\ OnlyStaleMix
  <2>1. SessionTypeOK /\ (segment.from = Target(c)
                          \/ StaleWriter(segment.from, Target(c)))
    BY <1>1, TargetOwn DEF SenderWrites, SessionInv, StaleWriter
  <2> HIDE DEF segment
  <2> QED
    BY <1>2, <1>3, <1>4, <2>1, WrittenGoes
<1>7. PICK to \in Writers \cup {"loop"} : spc' = [spc EXCEPT ![c] = to]
  <2>1. NextWrite[spc[c]] \in Writers \cup {"loop"}
    BY <1>1 DEF NextWrite, Writers
  <2> QED
    BY <2>1 DEF SenderWrites
<1>8. /\ writing' \in [Conns -> Nat] /\ queue' \in [Conns -> Seq(Nat)]
      /\ UNCHANGED <<table, handlerVars, current>>
      /\ held' = [held EXCEPT ![c] = NoConn]
  BY <1>4 DEF SenderWrites, SessionInv, SessionTypeOK, Written, chunkVars
<1>9. SessionInv'
  BY <1>1, <1>6, <1>7, <1>8, SenderMoves DEF Writers, NextWrite
<1> QED
  BY <1>6, <1>9

LEMMA SenderKeeps ==
  ASSUME SessionInv, Up, NEW c \in Conns, SenderStep(c)
  PROVE  SessionInv' /\ OnlyStaleMix
<1>0. /\ SessionTypeOK
      /\ queue \in [Conns -> Seq(Nat)] /\ writing \in [Conns -> Nat]
      /\ toClient \in [Conns -> Seq(Segment)]
  BY DEF SessionInv, SessionTypeOK
<1>1. CASE SenderLoop(c) \/ SenderReturns(c)
  <2>1. PICK to \in {"loop", "take", "ended"} :
          /\ spc' = [spc EXCEPT ![c] = to] /\ spc[c] \in {"loop", "take"}
          /\ UNCHANGED <<fdVars, toClient, handlerVars, current, queue, writing>>
    BY <1>1 DEF SenderLoop, SenderReturns, SenderGoto, netVars, chunkVars
  <2>2. SessionInv'
    BY <1>0, <2>1, SenderMoves DEF fdVars
  <2> QED
    BY <1>0, <2>1, <2>2, StillShrinks, ShrinkingMixesNothing
<1>2. CASE SenderTakes(c)
  <2>1. /\ spc' = [spc EXCEPT ![c] = "magic"] /\ spc[c] = "take"
        /\ writing' = [writing EXCEPT ![c] = Head(queue[c])]
        /\ queue' = [queue EXCEPT ![c] = Tail(@)]
        /\ queue[c] # << >>
        /\ UNCHANGED <<fdVars, toClient, handlerVars, current>>
    BY <1>2 DEF SenderTakes, SenderGoto, netVars, chunkVars
  <2>2. Head(queue[c]) \in Nat /\ Tail(queue[c]) \in Seq(Nat)
    BY <1>0, <2>1, HeadTailProperties
  <2>3. queue' \in [Conns -> Seq(Nat)] /\ writing' \in [Conns -> Nat]
    BY <1>0, <2>1, <2>2
  <2>4. SessionInv'
    BY <1>0, <2>1, <2>3, SenderMoves DEF fdVars, Writers, NextWrite
  <2> QED
    BY <1>0, <2>1, <2>4, StillShrinks, ShrinkingMixesNothing
<1>3. CASE SenderWrites(c)
  BY <1>3, SenderWritesKeeps
<1>4. CASE SenderSleeps(c)
  <2>1. /\ held' = [held EXCEPT ![c] = Target(c)]
        /\ spc[c] \in Writers
        /\ UNCHANGED <<toClient, table, handlerVars, senderVars, current>>
        /\ Target(c) # NoConn
    BY <1>4 DEF SenderSleeps, WriteSleeps, Writers, netVars, chunkVars
  <2>2. Target(c) \in Conns
    BY <2>1, TargetIsConn
  <2>3. SessionTypeOK'
    BY <1>0, <2>1, <2>2 DEF SessionTypeOK, handlerVars, senderVars
  <2>4. OwnDescriptor' /\ SendersServe' /\ NumberKept'
    BY <2>1 DEF SessionInv, OwnDescriptor, SendersServe, NumberKept,
                handlerVars, senderVars
  <2>5. Target(c) = c \/ hpc[c] = "join"
    BY <2>1, TargetOwn
  <2>6. SleepersOwn'
    BY <1>0, <2>1, <2>5 DEF SessionInv, SessionTypeOK, SleepersOwn, Owning,
                            Serving, handlerVars
  <2>7. SessionInv'
    BY <2>3, <2>4, <2>6 DEF SessionInv
  <2> QED
    BY <1>0, <2>1, <2>7, StillShrinks, ShrinkingMixesNothing
<1>5. CASE SenderFails(c)
  <2>1. /\ spc' = [spc EXCEPT ![c] = "ended"] /\ spc[c] \in Writers
        /\ held' = [held EXCEPT ![c] = NoConn]
        /\ writing' = [writing EXCEPT ![c] = 0]
        /\ UNCHANGED <<table, toClient, handlerVars, current, queue>>
    BY <1>5 DEF SenderFails, Writers, netVars, chunkVars
  <2>2. writing' \in [Conns -> Nat]
    BY <1>0, <2>1
  <2>3. SessionInv'
    BY <1>0, <2>1, <2>2, SenderMoves DEF Writers, NextWrite
  <2> QED
    BY <1>0, <2>1, <2>3, StillShrinks, ShrinkingMixesNothing
<1> QED
  BY <1>1, <1>2, <1>3, <1>4, <1>5 DEF SenderStep

-----------------------------------------------------------------------------
LEMMA NewChunkKeeps ==
  ASSUME SessionInv, NewChunk
  PROVE  SessionInv' /\ UNCHANGED toClient
<1>1. UNCHANGED <<netVars, fdVars, daemon, handlerVars, senderVars>>
  BY DEF NewChunk
<1>2. current' \in Nat
  BY RoomAssumption
     DEF NewChunk, Chunks!Produce, Chunks!Announce, Chunks!Tick, SessionInv,
         SessionTypeOK
<1>3. SessionTypeOK'
  BY <1>1, <1>2 DEF SessionInv, SessionTypeOK, netVars, fdVars, handlerVars,
                    senderVars
<1> QED
  BY <1>1, <1>3 DEF SessionInv, OwnDescriptor, SendersServe, SleepersOwn,
                    NumberKept, Up, netVars, fdVars, handlerVars, senderVars

\* accept, also when it fails; the handler of the descriptor -1; SIGINT
LEMMA MainKeeps ==
  ASSUME SessionInv, Up,
         \/ MainStep \/ Interrupt \/ Exit
         \/ RequestFails(NoConn) \/ CloseAborts
  PROVE  SessionInv' /\ UNCHANGED toClient
<1>0. NoConn \in Handlers /\ queue \in [Conns -> Seq(Nat)]
  BY DEF Handlers, SessionInv, SessionTypeOK
<1>1. CASE \E c \in Conns : Accept(c)
  BY <1>1, AcceptKeeps DEF Accept
<1>2. CASE AcceptFails \/ RequestFails(NoConn)
  <2>1. PICK from \in Owning \cup {"off"}, to \in Owning :
          Goto(NoConn, from, to)
    BY <1>2 DEF AcceptFails, RequestFails, Owning, Serving
  <2>2. UNCHANGED <<toClient, fdVars, hfd, spc, current, writing, queue>>
    BY <1>2 DEF AcceptFails, RequestFails, netVars, chunkVars, senderVars
  <2> QED
    BY <1>0, <2>1, <2>2, MoveKeeps
<1>3. CASE Interrupt
  BY <1>3 DEF Interrupt, SessionInv, SessionTypeOK, OwnDescriptor,
              SendersServe, SleepersOwn, NumberKept, Up, netVars, fdVars,
              chunkVars, handlerVars, senderVars
<1>4. CASE Exit \/ CloseAborts
  BY <1>4, EndKeeps DEF Exit, CloseAborts
<1>5. CASE StopAccepting
  <2>1. UNCHANGED <<toClient, fdVars, current, hpc, hfd, queue, spc, writing>>
    BY <1>5 DEF StopAccepting, StopListening, chunkVars, handlerVars, senderVars
  <2>2. Up'
    BY <1>5 DEF StopAccepting, Up
  <2> QED
    BY <2>1, <2>2 DEF SessionInv, SessionTypeOK, OwnDescriptor, SendersServe,
                      SleepersOwn, NumberKept, fdVars
<1> QED
  BY <1>1, <1>2, <1>3, <1>4, <1>5 DEF MainStep

\* The invariant holds at first ...
LEMMA InitInv == Init => SessionInv
<1> SUFFICES ASSUME Init
             PROVE  SessionInv
  OBVIOUS
<1>1. SessionTypeOK
  BY DEF Init, SocketsInit, ServerInit, SessionTypeOK, Chunks!Init,
         Chunks!NoChunk, Handlers, Segment
<1>2. OwnDescriptor /\ SendersServe /\ SleepersOwn /\ NumberKept
  BY DEF Init, SocketsInit, ServerInit, OwnDescriptor, SendersServe,
         SleepersOwn, NumberKept, Owning, Serving, Handlers
<1> QED
  BY <1>1, <1>2 DEF SessionInv

\* ... and behind every step, none of which lets a stranger into a stream.
LEMMA StepInv ==
  ASSUME SessionInv, [Next]_vars
  PROVE  SessionInv' /\ OnlyStaleMix
<1>0. SessionTypeOK
  BY DEF SessionInv
<1>1. CASE ByServer(MainStep \/ NewChunk)
           \/ ByServer("interrupt" \in Faults /\ (Interrupt \/ Exit))
           \/ ByServer(RequestFails(NoConn) \/ CloseAborts)
  <2>1. SessionInv' /\ UNCHANGED toClient
    BY <1>1, MainKeeps, NewChunkKeeps DEF ByServer
  <2> QED
    BY <1>0, <2>1, StillShrinks, ShrinkingMixesNothing
<1>2. CASE \E c \in Conns : ByServer(HandlerStep(c) \/ SenderStep(c))
  BY <1>2, HandlerKeeps, SenderKeeps DEF ByServer
<1>3. ASSUME NEW c \in Conns,
             \/ ByClient(IF Listening THEN Connect(c) ELSE ConnectRefused(c))
             \/ ByClient(ClientStep(c))
             \/ ByClient("client" \in Faults /\ ClientLeaves(c))
      PROVE  SessionInv' /\ OnlyStaleMix
  <2>1. /\ Connect(c) \/ ConnectRefused(c) \/ ClientStep(c) \/ ClientLeaves(c)
        /\ UNCHANGED <<fdVars, serverVars>>
    BY <1>3 DEF ByClient
  <2>2. Shrinks
    BY <1>0, <2>1, ClientShrinks
  <2> QED
    BY <1>0, <2>1, <2>2, RestKeeps, ShrinkingMixesNothing DEF Shrinks
<1>4. ASSUME NEW c \in Conns, NetworkFails(c), UNCHANGED <<fdVars, serverVars>>
      PROVE  SessionInv' /\ OnlyStaleMix
  <2>1. Shrinks
    BY <1>0, <1>4, NetworkShrinks
  <2> QED
    BY <1>0, <1>4, <2>1, RestKeeps, ShrinkingMixesNothing DEF Shrinks
<1>5. CASE UNCHANGED vars
  <2>1. UNCHANGED <<toClient, fdVars, serverVars>>
    BY <1>5 DEF vars, netVars
  <2>2. Shrinks
    BY <1>0, <2>1, StillShrinks
  <2> QED
    BY <1>0, <2>1, <2>2, RestKeeps, ShrinkingMixesNothing DEF Shrinks
<1> QED
  BY <1>1, <1>2, <1>3, <1>4, <1>5 DEF Next

LEMMA InvHolds == Spec => []SessionInv
<1>1. SessionInv /\ [Next]_vars => SessionInv'
  BY StepInv
<1> QED
  BY InitInv, <1>1, PTL DEF Spec

\* The variables keep their types, and the descriptors, threads and segments
\* their relations: what the two theorems below are drawn from.
THEOREM SessionInvariant == Spec => []SessionInv
BY InvHolds

\* From accept to close a handler's descriptor is its own connection's, with
\* any number of connections and of descriptors, whatever clients, network and
\* SIGINT do (main's accept, the handlers' close of handler.c:430).
THEOREM DescriptorsOwned == Spec => []OwnDescriptor
<1>1. SessionInv => OwnDescriptor
  BY DEF SessionInv
<1> QED
  BY InvHolds, <1>1, PTL

\* A stream is written to by its own handler and sender, and otherwise only by
\* the sender of a handler that has called close and not yet returned from
\* pthread_join (handler.c:430 to 434).
THEOREM SpoiltByStaleSendersOnly == Spec => OnlyStaleWritersMix
<1>1. SessionInv /\ [Next]_vars => [OnlyStaleMix]_vars
  BY StepInv
<1> QED
  BY InvHolds, <1>1, PTL DEF Spec, OnlyStaleWritersMix

-----------------------------------------------------------------------------
(***************************************************************************)
(* Places in the stream of a connection: the welcome message, the rate,    *)
(* and then data sets of three segments each.                              *)
(***************************************************************************)

KindAt(p) ==
  CASE p = 1 -> "welcome" [] p = 2 -> "rate"
    [] OTHER -> CASE p % 3 = 0 -> "magic" [] p % 3 = 1 -> "length"
                  [] OTHER -> "body"

\* The segments of s are those at place p and behind it.
Placed(s, p) ==
  s \in Seq(Segment) /\ \A i \in 1 .. Len(s) : s[i].kind = KindAt(p + i - 1)

\* Data sets that end before place t
SetsBefore(t) == IF t < 3 THEN 0 ELSE (t - 3) \div 3

LEMMA SetsBeforeType == \A t \in Nat : SetsBefore(t) \in Nat
BY DEF SetsBefore

\* The k-th of numbers that are three apart
LEMMA NthOfThird ==
  ASSUME NEW f \in Nat, NEW n \in Nat,
         NEW S, S = {f + 3 * (k - 1) : k \in 1 .. n}
  PROVE  /\ Cardinality(S) = n
         /\ \A k \in 1 .. n : Nth(S, k) = f + 3 * (k - 1)
<1> DEFINE Upto(i) == {j \in S : j <= i}
<1>1. ASSUME NEW m \in 0 .. n, NEW T, T = {f + 3 * (k - 1) : k \in 1 .. m}
      PROVE  Cardinality(T) = m
  <2> DEFINE F == [k \in 1 .. m |-> f + 3 * (k - 1)]
  <2>1. F \in [1 .. m -> T]
    BY <1>1
  <2>2. \A a, b \in 1 .. m : F[a] = F[b] => a = b
    OBVIOUS
  <2>3. \A t \in T : \E k \in 1 .. m : F[k] = t
    BY <1>1
  <2>4. F \in Bijection(1 .. m, T)
    BY <2>1, <2>2, <2>3, Fun_IsBij
  <2>5. ExistsBijection(1 .. m, T)
    BY <2>4 DEF ExistsBijection
  <2> QED BY <2>5, FS_CountingElements
<1>2. ASSUME NEW m \in 1 .. n
      PROVE  Cardinality(Upto(f + 3 * (m - 1))) = m
  <2>1. Upto(f + 3 * (m - 1)) = {f + 3 * (k - 1) : k \in 1 .. m}
    OBVIOUS
  <2> QED BY <1>1, <2>1
<1>3. ASSUME NEW k \in 1 .. n
      PROVE  Nth(S, k) = f + 3 * (k - 1)
  <2>1. f + 3 * (k - 1) \in S /\ Cardinality(Upto(f + 3 * (k - 1))) = k
    BY <1>2
  <2>2. \A i \in S : Cardinality(Upto(i)) = k => i = f + 3 * (k - 1)
    <3>1. ASSUME NEW i \in S, Cardinality(Upto(i)) = k
          PROVE  i = f + 3 * (k - 1)
      <4>1. PICK m \in 1 .. n : i = f + 3 * (m - 1)
        OBVIOUS
      <4>2. Cardinality(Upto(f + 3 * (m - 1))) = m
        BY <1>2
      <4> HIDE DEF Upto
      <4>3. m = k
        BY <3>1, <4>1, <4>2
      <4> QED BY <4>1, <4>3
    <3> HIDE DEF Upto
    <3> QED BY <3>1
  <2> HIDE DEF Upto
  <2>3. Nth(S, k) = CHOOSE i \in S : Cardinality(Upto(i)) = k
    BY DEF Nth, Upto
  <2> QED BY <2>1, <2>2, <2>3
<1> QED
  BY <1>1, <1>3

\* The bodies of a stream that begins at place p
LEMMA BodiesAt ==
  ASSUME NEW p \in 1 .. 5, NEW l \in Nat
  PROVE  {i \in 1 .. l : KindAt(p + i - 1) = "body"}
           = {6 - p + 3 * (k - 1) : k \in 1 .. SetsBefore(p + l)}
<1> DEFINE n == SetsBefore(p + l)
<1>1. n \in Nat /\ \A k \in 1 .. n : 6 - p + 3 * (k - 1) <= l
  BY DEF SetsBefore
<1>2. ASSUME NEW k \in 1 .. n
      PROVE  /\ 6 - p + 3 * (k - 1) \in 1 .. l
             /\ KindAt(p + (6 - p + 3 * (k - 1)) - 1) = "body"
  <2>1. p + (6 - p + 3 * (k - 1)) - 1 = 5 + 3 * (k - 1)
    OBVIOUS
  <2>2. (5 + 3 * (k - 1)) % 3 = 2 /\ 5 + 3 * (k - 1) > 2
    OBVIOUS
  <2>3. 6 - p + 3 * (k - 1) \in 1 .. l
    BY <1>1
  <2> QED BY <2>1, <2>2, <2>3 DEF KindAt
<1>3. ASSUME NEW i \in 1 .. l, KindAt(p + i - 1) = "body"
      PROVE  \E k \in 1 .. n : i = 6 - p + 3 * (k - 1)
  <2> DEFINE q == p + i - 1
             k == (q - 5) \div 3 + 1
  <2>1. q \in Nat /\ q >= 3 /\ q % 3 = 2 /\ q < p + l
    BY <1>3 DEF KindAt
  <2>2. q = 5 + 3 * (k - 1) /\ k \in Nat \ {0}
    BY <2>1
  <2>3. p + l - 3 >= 3 * k
    BY <2>1, <2>2
  <2>4. k <= n
    BY <2>2, <2>3 DEF SetsBefore
  <2> QED BY <2>2, <2>4
<1> HIDE DEF n
<1>4. ASSUME NEW i
      PROVE  i \in {j \in 1 .. l : KindAt(p + j - 1) = "body"}
               <=> i \in {6 - p + 3 * (k - 1) : k \in 1 .. n}
  <2>1. ASSUME i \in {6 - p + 3 * (k - 1) : k \in 1 .. n}
        PROVE  i \in 1 .. l /\ KindAt(p + i - 1) = "body"
    <3>1. PICK k \in 1 .. n : i = 6 - p + 3 * (k - 1)
      BY <2>1
    <3> QED BY <1>2, <3>1
  <2> QED BY <1>3, <2>1
<1> QED BY <1>4 DEF n

\* The k-th body of a stream that begins at place p
BodyAt(p, k) == 6 - p + 3 * (k - 1)

LEMMA NextBodyAt ==
  /\ \A p \in 1 .. 5, k \in Nat : BodyAt(p, k) \in Int
  /\ \A p \in 1 .. 4, k \in Nat : BodyAt(p, k) = BodyAt(p + 1, k) + 1
  /\ \A k \in Nat : BodyAt(5, k + 1) = BodyAt(3, k) + 1 /\ BodyAt(3, k) \in Int
  /\ BodyAt(5, 1) = 1
BY DEF BodyAt

\* What DataSets takes out of a stream
LEMMA DataSetsForm ==
  ASSUME NEW p \in 1 .. 5, NEW s, Placed(s, p)
  PROVE  /\ DataSets(s) \in Seq(Nat)
         /\ Len(DataSets(s)) = SetsBefore(p + Len(s))
         /\ \A k \in 1 .. SetsBefore(p + Len(s)) :
              /\ BodyAt(p, k) \in 1 .. Len(s)
              /\ DataSets(s)[k] = s[BodyAt(p, k)].no
<1> DEFINE bodies == {i \in DOMAIN s : s[i].kind = "body"}
           n == SetsBefore(p + Len(s))
<1>1. /\ s \in Seq(Segment) /\ Len(s) \in Nat /\ DOMAIN s = 1 .. Len(s)
      /\ \A i \in 1 .. Len(s) : s[i].kind = KindAt(p + i - 1)
  BY LenProperties DEF Placed
<1>2. bodies = {i \in 1 .. Len(s) : KindAt(p + i - 1) = "body"}
  BY <1>1
<1>3. bodies = {6 - p + 3 * (k - 1) : k \in 1 .. n}
  BY <1>1, <1>2, BodiesAt
<1>4. n \in Nat /\ 6 - p \in Nat
  BY <1>1, SetsBeforeType
<1> HIDE DEF n, bodies
<1>5. /\ Cardinality(bodies) = n
      /\ \A k \in 1 .. n : Nth(bodies, k) = BodyAt(p, k)
  <2>1. /\ Cardinality(bodies) = n
        /\ \A k \in 1 .. n : Nth(bodies, k) = 6 - p + 3 * (k - 1)
    BY <1>3, <1>4, NthOfThird
  <2> QED BY <2>1 DEF BodyAt
<1>6. ASSUME NEW k \in 1 .. n
      PROVE  BodyAt(p, k) \in 1 .. Len(s) /\ s[BodyAt(p, k)].no \in Nat
  <2>1. BodyAt(p, k) \in bodies
    BY <1>3 DEF BodyAt
  <2>2. BodyAt(p, k) \in 1 .. Len(s)
    BY <2>1, <1>2
  <2>3. s[BodyAt(p, k)] \in Segment
    BY <1>1, <2>2, ElementOfSeq
  <2> QED BY <2>2, <2>3 DEF Segment
<1>7. DataSets(s) = [k \in 1 .. n |-> s[Nth(bodies, k)].no]
  BY <1>5 DEF DataSets, bodies
<1>8. DataSets(s) = [k \in 1 .. n |-> s[BodyAt(p, k)].no]
  BY <1>5, <1>7
<1>9. DataSets(s) \in [1 .. n -> Nat]
  BY <1>6, <1>8
<1>10. DataSets(s) \in Seq(Nat) /\ Len(DataSets(s)) = n
  BY <1>4, <1>9, LenProperties, SeqDef
<1> QED BY <1>6, <1>8, <1>10 DEF n

\* That it is these data sets and no others
LEMMA DataSetsAre ==
  ASSUME NEW p \in 1 .. 5, NEW s, Placed(s, p),
         NEW d \in Seq(Nat), Len(d) = SetsBefore(p + Len(s)),
         \A k \in 1 .. Len(d) : d[k] = s[BodyAt(p, k)].no
  PROVE  DataSets(s) = d
<1>1. /\ DataSets(s) \in Seq(Nat) /\ Len(DataSets(s)) = Len(d)
      /\ \A k \in 1 .. Len(d) : DataSets(s)[k] = d[k]
  BY DataSetsForm
<1> QED BY <1>1, SeqEqual

LEMMA SetsStep ==
  \A t \in Nat \ {0} :
    SetsBefore(t + 1) = IF KindAt(t) = "body" THEN SetsBefore(t) + 1
                                              ELSE SetsBefore(t)
BY DEF SetsBefore, KindAt

LEMMA SetsGrow ==
  ASSUME NEW t \in Nat, NEW u \in Nat, t <= u
  PROVE  SetsBefore(t) <= SetsBefore(u)
BY DEF SetsBefore

LEMMA EmptyStream ==
  ASSUME NEW p \in 1 .. 5
  PROVE  Placed(<< >>, p) /\ DataSets(<< >>) = << >>
<1>1. Placed(<< >>, p) /\ Len(<< >>) = 0
  BY DEF Placed
<1>2. SetsBefore(p) = 0
  BY DEF SetsBefore
<1>3. DataSets(<< >>) \in Seq(Nat) /\ Len(DataSets(<< >>)) = 0
  BY <1>1, <1>2, DataSetsForm
<1> QED BY <1>1, <1>3, EmptySeq

\* The tail of a stream
LEMMA TailPlaced ==
  ASSUME NEW p \in 1 .. 5, NEW s, Placed(s, p), s # << >>
  PROVE  /\ Tail(s) \in Seq(Segment) /\ Len(Tail(s)) = Len(s) - 1
         /\ \A i \in 1 .. Len(s) - 1 :
              Tail(s)[i] = s[i + 1] /\ Tail(s)[i].kind = KindAt(p + 1 + i - 1)
         /\ Len(s) \in Nat \ {0} /\ Head(s) = s[1] /\ Head(s).kind = KindAt(p)
<1>1. s \in Seq(Segment) /\ \A i \in 1 .. Len(s) : s[i].kind = KindAt(p + i - 1)
  BY DEF Placed
<1>2. Len(s) \in Nat \ {0} /\ Head(s) = s[1]
  BY <1>1, EmptySeq
<1>3. /\ Tail(s) \in Seq(Segment) /\ Len(Tail(s)) = Len(s) - 1
      /\ \A i \in 1 .. Len(s) - 1 : Tail(s)[i] = s[i + 1]
  BY <1>1, <1>2, HeadTailProperties
<1>4. Head(s).kind = KindAt(p)
  BY <1>1, <1>2
<1>5. ASSUME NEW i \in 1 .. Len(s) - 1
      PROVE  Tail(s)[i].kind = KindAt(p + 1 + i - 1)
  <2>1. i + 1 \in 1 .. Len(s) /\ p + (i + 1) - 1 = p + 1 + i - 1
    BY <1>2
  <2> QED BY <1>1, <1>3, <2>1
<1> QED BY <1>2, <1>3, <1>4, <1>5

\* Reading a segment that is not the end of a data set
LEMMA TailOther ==
  ASSUME NEW p \in 1 .. 4, NEW s, Placed(s, p), s # << >>
  PROVE  Placed(Tail(s), p + 1) /\ DataSets(Tail(s)) = DataSets(s)
<1> DEFINE q == p + 1
           t == Tail(s)
           d == DataSets(s)
<1>1. p \in 1 .. 5 /\ q \in 1 .. 5
  OBVIOUS
<1>2. Placed(t, q)
  BY <1>1, TailPlaced DEF Placed
<1>3. /\ Len(s) \in Nat \ {0} /\ Len(t) = Len(s) - 1
      /\ \A i \in 1 .. Len(s) - 1 : t[i] = s[i + 1]
  BY <1>1, TailPlaced
<1>4. p + Len(s) = q + Len(t)
  BY <1>3
<1>5. /\ d \in Seq(Nat) /\ Len(d) = SetsBefore(q + Len(t))
      /\ \A k \in 1 .. Len(d) :
           BodyAt(p, k) \in 1 .. Len(s) /\ d[k] = s[BodyAt(p, k)].no
  BY <1>1, <1>4, DataSetsForm
<1>6. ASSUME NEW k \in 1 .. Len(d)
      PROVE  d[k] = t[BodyAt(q, k)].no
  <2>0. k \in Nat
    OBVIOUS
  <2>1. BodyAt(p, k) = BodyAt(q, k) + 1 /\ BodyAt(q, k) \in Int
    BY <1>1, <2>0, NextBodyAt
  <2>2. 6 - q + 3 * (k - 1) >= 1
    OBVIOUS
  <2>3. BodyAt(q, k) \in 1 .. Len(s) - 1
    BY <1>3, <1>5, <2>1, <2>2 DEF BodyAt
  <2>4. t[BodyAt(q, k)] = s[BodyAt(p, k)]
    BY <1>3, <2>1, <2>3
  <2> QED BY <1>5, <2>4
<1> HIDE DEF q, t, d
<1>7. DataSets(t) = d
  BY <1>1, <1>2, <1>5, <1>6, DataSetsAre
<1> QED BY <1>2, <1>7 DEF q, t, d

\* Reading the end of one
LEMMA TailBody ==
  ASSUME NEW s, Placed(s, 5), s # << >>
  PROVE  /\ Placed(Tail(s), 3)
         /\ DataSets(s) # << >> /\ Head(DataSets(s)) = Head(s).no
         /\ DataSets(Tail(s)) = Tail(DataSets(s))
<1> DEFINE t == Tail(s)
           d == DataSets(s)
<1>1. /\ Len(s) \in Nat \ {0} /\ Len(t) = Len(s) - 1 /\ Head(s) = s[1]
      /\ t \in Seq(Segment)
      /\ \A i \in 1 .. Len(s) - 1 :
           t[i] = s[i + 1] /\ t[i].kind = KindAt(5 + 1 + i - 1)
  BY TailPlaced
<1>2. \A i \in Nat \ {0} : KindAt(5 + 1 + i - 1) = KindAt(3 + i - 1)
  BY DEF KindAt
<1>3. Placed(t, 3)
  BY <1>1, <1>2 DEF Placed
<1>4. /\ SetsBefore(5 + Len(s)) \in Nat \ {0}
      /\ SetsBefore(3 + Len(t)) = SetsBefore(5 + Len(s)) - 1
  BY <1>1 DEF SetsBefore
<1>5. /\ d \in Seq(Nat) /\ Len(d) = SetsBefore(5 + Len(s))
      /\ \A k \in 1 .. Len(d) :
           BodyAt(5, k) \in 1 .. Len(s) /\ d[k] = s[BodyAt(5, k)].no
  BY DataSetsForm
<1> HIDE DEF t, d
<1>6. d # << >> /\ d[1] = s[1].no /\ Head(d) = d[1]
  <2>1. 1 \in 1 .. Len(d)
    BY <1>4, <1>5
  <2>2. d # << >>
    BY <1>4, <1>5, EmptySeq
  <2>3. d[1] = s[1].no
    BY <1>5, <2>1, NextBodyAt
  <2> QED BY <1>5, <2>2, <2>3
<1>7. /\ Tail(d) \in Seq(Nat) /\ Len(Tail(d)) = Len(d) - 1
      /\ \A k \in 1 .. Len(d) - 1 : Tail(d)[k] = d[k + 1]
  BY <1>5, <1>6, HeadTailProperties
<1>8. ASSUME NEW k \in 1 .. Len(Tail(d))
      PROVE  Tail(d)[k] = t[BodyAt(3, k)].no
  <2>0. k + 1 \in 1 .. Len(d) /\ k \in 1 .. Len(d) - 1 /\ k \in Nat
    BY <1>4, <1>5, <1>7
  <2>1. BodyAt(5, k + 1) = BodyAt(3, k) + 1 /\ BodyAt(3, k) \in Int
    BY <2>0, NextBodyAt
  <2>2. Tail(d)[k] = s[BodyAt(3, k) + 1].no /\ BodyAt(3, k) + 1 \in 1 .. Len(s)
    BY <1>5, <1>7, <2>0, <2>1
  <2>3. 6 - 3 + 3 * (k - 1) >= 1
    BY <2>0
  <2>4. BodyAt(3, k) \in 1 .. Len(s) - 1
    BY <1>1, <2>1, <2>2, <2>3 DEF BodyAt
  <2> QED BY <1>1, <2>2, <2>4
<1>9. DataSets(t) = Tail(d)
  <2>1. Len(Tail(d)) = SetsBefore(3 + Len(t)) /\ 3 \in 1 .. 5
    BY <1>4, <1>5, <1>7
  <2> QED BY <1>3, <1>7, <1>8, <2>1, DataSetsAre
<1> QED BY <1>1, <1>3, <1>6, <1>9 DEF t, d

\* A segment is written behind the others.
LEMMA AppendPlaced ==
  ASSUME NEW p \in 1 .. 5, NEW s, Placed(s, p), NEW segment \in Segment,
         segment.kind = KindAt(p + Len(s))
  PROVE  /\ Placed(Append(s, segment), p)
         /\ segment.kind # "body" => DataSets(Append(s, segment)) = DataSets(s)
         /\ segment.kind = "body" =>
              DataSets(Append(s, segment)) = Append(DataSets(s), segment.no)
<1> DEFINE t == Append(s, segment)
           d == DataSets(s)
           e == Append(d, segment.no)
<1>1. /\ s \in Seq(Segment) /\ Len(s) \in Nat
      /\ \A i \in 1 .. Len(s) : s[i].kind = KindAt(p + i - 1)
  BY LenProperties DEF Placed
<1>2. /\ t \in Seq(Segment) /\ Len(t) = Len(s) + 1
      /\ t[Len(s) + 1] = segment /\ \A i \in 1 .. Len(s) : t[i] = s[i]
  BY <1>1, AppendProperties
<1>3. Placed(t, p)
  <2> SUFFICES ASSUME NEW i \in 1 .. Len(s) + 1
               PROVE  t[i].kind = KindAt(p + i - 1)
    BY <1>2 DEF Placed
  <2>1. CASE i = Len(s) + 1
    <3>1. p + i - 1 = p + Len(s)
      BY <1>1, <2>1
    <3> QED BY <1>2, <2>1, <3>1
  <2>2. CASE i \in 1 .. Len(s)
    BY <1>1, <1>2, <2>2
  <2> QED BY <1>1, <2>1, <2>2
<1>4. /\ d \in Seq(Nat) /\ Len(d) = SetsBefore(p + Len(s)) /\ Len(d) \in Nat
      /\ \A k \in 1 .. Len(d) :
           BodyAt(p, k) \in 1 .. Len(s) /\ d[k] = s[BodyAt(p, k)].no
  <2>1. SetsBefore(p + Len(s)) \in Nat
    BY <1>1, SetsBeforeType
  <2> QED BY <2>1, DataSetsForm
<1>5. SetsBefore(p + Len(t)) = IF segment.kind = "body" THEN Len(d) + 1
                                                        ELSE Len(d)
  <2>1. p + Len(s) \in Nat \ {0} /\ p + Len(t) = p + Len(s) + 1
    BY <1>1, <1>2
  <2> QED BY <1>4, <2>1, SetsStep
<1> HIDE DEF t, d
<1>6. \A k \in 1 .. Len(d) : d[k] = t[BodyAt(p, k)].no
  BY <1>2, <1>4
<1>7. segment.kind # "body" => DataSets(t) = d
  BY <1>3, <1>4, <1>5, <1>6, DataSetsAre
<1>8. ASSUME segment.kind = "body"
      PROVE  DataSets(t) = e
  <2>1. segment.no \in Nat
    BY DEF Segment
  <2>2. /\ e \in Seq(Nat) /\ Len(e) = Len(d) + 1 /\ e[Len(d) + 1] = segment.no
        /\ \A k \in 1 .. Len(d) : e[k] = d[k]
    BY <1>4, <2>1, AppendProperties
  <2> HIDE DEF e
  <2>3. BodyAt(p, Len(d) + 1) = Len(s) + 1
    <3> DEFINE q == p + Len(s)
    <3>1. q \in Nat /\ q >= 3 /\ q % 3 = 2
      BY <1>1, <1>8 DEF KindAt
    <3>2. Len(d) = (q - 3) \div 3
      BY <1>4, <3>1 DEF SetsBefore
    <3> HIDE DEF q
    <3>3. q = 5 + 3 * Len(d)
      BY <3>1, <3>2
    <3>4. p + Len(s) = 5 + 3 * Len(d) /\ Len(d) \in Nat /\ Len(s) \in Nat
      BY <1>1, <1>4, <3>3 DEF q
    <3>5. 6 - p + 3 * (Len(d) + 1 - 1) = Len(s) + 1
      BY <3>4
    <3> QED BY <3>5 DEF BodyAt
  <2>4. ASSUME NEW k \in 1 .. Len(e)
        PROVE  e[k] = t[BodyAt(p, k)].no
    <3>1. CASE k = Len(d) + 1
      BY <1>2, <2>2, <2>3, <3>1
    <3>2. CASE k \in 1 .. Len(d)
      BY <1>6, <2>2, <3>2
    <3> QED BY <1>4, <2>2, <3>1, <3>2
  <2>5. Len(e) = SetsBefore(p + Len(t))
    BY <1>5, <1>8, <2>2
  <2> QED BY <1>3, <2>2, <2>4, <2>5, DataSetsAre
<1> QED BY <1>3, <1>7, <1>8 DEF t, d

\* The newest segments are lost.
LEMMA PrefixPlaced ==
  ASSUME NEW p \in 1 .. 5, NEW s, Placed(s, p), NEW n \in 0 .. Len(s)
  PROVE  /\ Placed(SubSeq(s, 1, n), p)
         /\ \E m \in 0 .. Len(DataSets(s)) :
              DataSets(SubSeq(s, 1, n)) = SubSeq(DataSets(s), 1, m)
<1> DEFINE t == SubSeq(s, 1, n)
           m == SetsBefore(p + n)
           d == DataSets(s)
           e == SubSeq(d, 1, m)
<1>1. /\ s \in Seq(Segment) /\ Len(s) \in Nat
      /\ \A i \in 1 .. Len(s) : s[i].kind = KindAt(p + i - 1)
  BY LenProperties DEF Placed
<1>2. /\ t \in Seq(Segment) /\ Len(t) = n /\ \A i \in 1 .. n : t[i] = s[i]
  <2>1. \A i \in 1 .. n : s[i] \in Segment
    BY <1>1, ElementOfSeq
  <2>2. /\ t \in Seq(Segment) /\ Len(t) = IF 1 <= n THEN n - 1 + 1 ELSE 0
        /\ \A i \in 1 .. n - 1 + 1 : t[i] = s[1 + i - 1]
    BY <2>1, SubSeqProperties
  <2> QED BY <1>1, <2>2
<1>3. Placed(t, p)
  <2>1. \A i \in 1 .. n : i \in 1 .. Len(s) /\ t[i].kind = s[i].kind
    BY <1>1, <1>2
  <2> QED BY <1>1, <1>2, <2>1 DEF Placed
<1>4. /\ d \in Seq(Nat) /\ Len(d) = SetsBefore(p + Len(s))
      /\ \A k \in 1 .. Len(d) : d[k] = s[BodyAt(p, k)].no
  BY DataSetsForm
<1>5. m \in 0 .. Len(d) /\ Len(d) \in Nat
  <2>1. p + n \in Nat /\ p + Len(s) \in Nat /\ p + n <= p + Len(s)
    BY <1>1
  <2>2. m \in Nat /\ SetsBefore(p + Len(s)) \in Nat
    BY <2>1, SetsBeforeType
  <2>3. m <= SetsBefore(p + Len(s))
    BY <2>1, SetsGrow
  <2> QED BY <1>4, <2>2, <2>3
<1> HIDE DEF t, d
<1>6. \A k \in 1 .. m : BodyAt(p, k) \in 1 .. n
  <2>1. m = SetsBefore(p + Len(t))
    BY <1>2
  <2> QED BY <1>2, <1>3, <2>1, DataSetsForm
<1> HIDE DEF m
<1>7. /\ e \in Seq(Nat) /\ Len(e) = m
      /\ \A k \in 1 .. m : e[k] = d[k]
  <2>1. \A k \in 1 .. m : d[k] \in Nat
    BY <1>4, <1>5, ElementOfSeq
  <2>2. /\ e \in Seq(Nat) /\ Len(e) = IF 1 <= m THEN m - 1 + 1 ELSE 0
        /\ \A k \in 1 .. m - 1 + 1 : e[k] = d[1 + k - 1]
    BY <1>5, <2>1, SubSeqProperties
  <2> QED BY <1>5, <2>2
<1> HIDE DEF e
<1>8. ASSUME NEW k \in 1 .. Len(e)
      PROVE  e[k] = t[BodyAt(p, k)].no
  <2>1. k \in 1 .. m /\ k \in 1 .. Len(d)
    BY <1>5, <1>7
  <2> QED BY <1>2, <1>4, <1>6, <1>7, <2>1
<1>9. DataSets(t) = e
  <2>1. Len(e) = SetsBefore(p + Len(t))
    BY <1>2, <1>7 DEF m
  <2> QED BY <1>3, <1>7, <1>8, <2>1, DataSetsAre
<1> QED BY <1>3, <1>5, <1>9 DEF t, d, e

-----------------------------------------------------------------------------
(***************************************************************************)
(* The steps of the library's promise, as steps of the parts it is mapped  *)
(* from                                                                    *)
(***************************************************************************)

InFlight(c) == DataSets(toClient[c])
Closed(c) == link[c] \in {"fin", "rst"}

\* Nothing is seen of the other connections.
OthersStay(c) ==
  \A d \in Conns \ {c} : /\ Stage(d)' = Stage(d)
                         /\ InFlight(d)' = InFlight(d)
                         /\ Closed(d)' <=> Closed(d)

LEMMA PromiseStays ==
  ASSUME UNCHANGED last,
         \A c \in Conns : /\ Stage(c)' = Stage(c)
                          /\ InFlight(c)' = InFlight(c)
                          /\ Closed(c)' <=> Closed(c)
  PROVE  UNCHANGED Promise!vars
BY DEF Promise!vars, InFlight, Closed

LEMMA PromiseHangsUp ==
  ASSUME UNCHANGED last,
         \A c \in Conns : /\ Stage(c)' = Stage(c)
                          /\ InFlight(c)' = InFlight(c)
                          /\ Closed(c) => Closed(c)'
  PROVE  Promise!Next
<1>1. PICK S \in SUBSET Conns : S = {c \in Conns : link'[c] \in {"fin", "rst"}}
  OBVIOUS
<1>2. Promise!HangUp(S)
  <2>1. {c \in Conns : link[c] \in {"fin", "rst"}}'
          = {c \in Conns : link[c] \in {"fin", "rst"}} \cup S
    BY <1>1 DEF Closed
  <2>2. UNCHANGED <<[c \in Conns |-> Stage(c)],
                    [c \in Conns |-> DataSets(toClient[c])], last>>
    BY DEF InFlight
  <2> QED BY <2>1, <2>2 DEF Promise!HangUp
<1> QED BY <1>2 DEF Promise!Next

LEMMA PromiseJoins ==
  ASSUME NEW c \in Conns, OthersStay(c), UNCHANGED last,
         Stage(c) = "out", Stage(c)' = "in",
         InFlight(c)' = InFlight(c), Closed(c)' <=> Closed(c)
  PROVE  Promise!Next
<1>1. Promise!Join(c)
  BY DEF Promise!Join, OthersStay, InFlight, Closed
<1> QED BY <1>1 DEF Promise!Next

LEMMA PromisePuts ==
  ASSUME NEW c \in Conns, OthersStay(c), UNCHANGED last,
         Stage(c) \in {"out", "in"}, Stage(c)' = Stage(c), ~Closed(c),
         NEW n \in 1 .. MaxChunk,
         Promise!Newest(c) # 0 => n = Promise!After(Promise!Newest(c)),
         InFlight(c)' = Append(InFlight(c), n)
  PROVE  Promise!Next
<1>1. Promise!Put(c)
  <2>1. /\ c \notin {d \in Conns : link[d] \in {"fin", "rst"}}
        /\ [d \in Conns |-> Stage(d)][c] \in {"out", "in"}
    BY DEF Closed
  <2>2. [d \in Conns |-> DataSets(toClient[d])]'
          = [[d \in Conns |-> DataSets(toClient[d])]
               EXCEPT ![c] = Append(@, n)]
    BY DEF OthersStay, InFlight
  <2>3. {d \in Conns : link[d] \in {"fin", "rst"}}'
          \in {{d \in Conns : link[d] \in {"fin", "rst"}},
               {d \in Conns : link[d] \in {"fin", "rst"}} \cup {c}}
    BY DEF OthersStay, Closed
  <2>4. UNCHANGED <<[d \in Conns |-> Stage(d)], last>>
    BY DEF OthersStay
  <2> QED BY <2>1, <2>2, <2>3, <2>4 DEF Promise!Put
<1> QED BY <1>1 DEF Promise!Next

LEMMA PromiseGets ==
  ASSUME NEW c \in Conns, OthersStay(c), InFlight(c) # << >>,
         Stage(c) = "in", Stage(c)' = "in", Closed(c)' <=> Closed(c),
         last' = [last EXCEPT ![c] = Head(InFlight(c))],
         InFlight(c)' = Tail(InFlight(c))
  PROVE  Promise!Next
<1>1. Promise!Get(c)
  BY DEF Promise!Get, OthersStay, InFlight, Closed
<1> QED BY <1>1 DEF Promise!Next

LEMMA PromiseCuts ==
  ASSUME NEW c \in Conns, OthersStay(c), UNCHANGED last, Stage(c)' = Stage(c),
         Closed(c)',
         NEW n \in 0 .. Len(InFlight(c)),
         InFlight(c)' = SubSeq(InFlight(c), 1, n)
  PROVE  Promise!Next
<1>1. Promise!Cut(c)
  <2>1. {d \in Conns : link[d] \in {"fin", "rst"}}'
          = {d \in Conns : link[d] \in {"fin", "rst"}} \cup {c}
    BY DEF OthersStay, Closed
  <2>2. [d \in Conns |-> DataSets(toClient[d])]'
          = [[d \in Conns |-> DataSets(toClient[d])]
               EXCEPT ![c] = SubSeq(@, 1, n)]
    BY DEF OthersStay, InFlight
  <2>3. UNCHANGED <<[d \in Conns |-> Stage(d)], last>>
    BY DEF OthersStay
  <2>4. n \in 0 .. Len([d \in Conns |-> DataSets(toClient[d])][c])
    BY DEF InFlight
  <2> QED BY <2>1, <2>2, <2>3, <2>4 DEF Promise!Cut
<1> QED BY <1>1 DEF Promise!Next

LEMMA PromiseEnds ==
  ASSUME NEW c \in Conns, OthersStay(c), Closed(c), Closed(c)',
         Stage(c) = "in", Stage(c)' = "eof",
         InFlight(c) = << >>, InFlight(c)' = << >>,
         last' = [last EXCEPT ![c] = 0]
  PROVE  Promise!Next
<1>1. Promise!End(c)
  BY DEF Promise!End, OthersStay, InFlight, Closed
<1> QED BY <1>1 DEF Promise!Next

LEMMA PromiseLeaves ==
  ASSUME NEW c \in Conns, OthersStay(c), Closed(c) => Closed(c)',
         Stage(c) \in {"out", "in"}, Stage(c)' = "left",
         InFlight(c)' = << >>,
         last' = [last EXCEPT ![c] = 0]
  PROVE  Promise!Next
<1>1. Promise!Leave(c)
  <2>1. {d \in Conns : link[d] \in {"fin", "rst"}}'
          \in {{d \in Conns : link[d] \in {"fin", "rst"}},
               {d \in Conns : link[d] \in {"fin", "rst"}} \cup {c}}
    BY DEF OthersStay, Closed
  <2>2. /\ [d \in Conns |-> DataSets(toClient[d])]'
             = [[d \in Conns |-> DataSets(toClient[d])] EXCEPT ![c] = << >>]
        /\ [d \in Conns |-> Stage(d)]'
             = [[d \in Conns |-> Stage(d)] EXCEPT ![c] = "left"]
    BY DEF OthersStay, InFlight
  <2> QED BY <2>1, <2>2 DEF Promise!Leave
<1> QED BY <1>1 DEF Promise!Next
-----------------------------------------------------------------------------
(***************************************************************************)
(* The inductive invariant behind the promise                              *)
(***************************************************************************)

\* No segment enters a stream but from the stream's own handler or sender.
NoStranger ==
  \A c \in Conns :
    Len(toClient'[c]) > Len(toClient[c]) =>
      toClient'[c][Len(toClient'[c])].from = c

\* Where the client is: the place of the segment it reads next
Phase(where) ==
  CASE where = "rate" -> 2 [] where \in {"loop", "magic"} -> 3
    [] where = "length" -> 4 [] where = "body" -> 5 [] OTHER -> 1

\* The place of the segment that is written next, if the client's is right
Ahead(c) == Phase(at[c]) + Len(toClient[c])

\* A sender's places, as places in the stream modulo 3
SenderPhase == [loop |-> 0, take |-> 0, magic |-> 0, length |-> 1, body |-> 2]

\* A handler and a sender at these places write segment a next.
InTurn(a, h, s) ==
  /\ h \in {"off", "request", "welcome"} => a = 1
  /\ h = "rate" => a = 2
  /\ s \notin {"off", "ended"} /\ h \notin {"welcome", "rate"} =>
       a >= 3 /\ a % 3 = SenderPhase[s]

\* m may come behind n: 0 is the number of no chunk.
Follows(n, m) == n = 0 \/ m = Chunks!Tick(n)

\* What is behind n when w is written, and then what is queued
ChainEnd(n, w, q) ==
  IF q # << >> THEN q[Len(q)] ELSE IF w # 0 THEN w ELSE n

\* From the newest data set in the stream through the one that is written to
\* the queue the numbers go up one by one.
Chain(n, w, q) ==
  /\ w # 0 => Follows(n, w)
  /\ q # << >> => Follows(ChainEnd(n, w, << >>), q[1])
  /\ \A i \in 1 .. Len(q) - 1 : Follows(q[i], q[i + 1])

Newest(c) == IF InFlight(c) = << >> THEN last[c]
                                    ELSE InFlight(c)[Len(InFlight(c))]

\* The sender's writes still reach the client.
Reaches(c) ==
  /\ link[c] = "open" /\ c \notin gone
  /\ hpc[c] \in Owning \cup {"join"} /\ Target(c) = c

Places == Ended \cup DOMAIN Behind
            \cup {"off", "count", "channels", "loop", "garbled"}

FeedTypeOK ==
  /\ link \in [Conns -> {"none", "queued", "open", "fin", "rst"}]
  /\ gone \subseteq Conns
  /\ at \in [Conns -> Places]
  /\ last \in [Conns -> Nat]
  /\ got \in [Conns -> Nat]
  /\ subs \subseteq Conns /\ owing \subseteq subs
  /\ queue \in [Conns -> Seq(1 .. MaxChunk)]
  /\ \A c \in Conns : writing[c] # 0 => writing[c] \in 1 .. MaxChunk

\* The broadcast's invariant
NextIsDue ==
  /\ current # 0 => current \in 1 .. MaxChunk
  /\ fresh => owing = {} /\ current # 0
  /\ owing # {} => ~fresh /\ current # 0
  /\ \A c \in subs : got[c] # 0 =>
       IF c \in owing \/ fresh THEN current = Chunks!Tick(got[c])
                               ELSE current = got[c]
  /\ \A c \in Conns \ subs : got[c] = 0

\* Only the number its handler was given leads to a connection.
TableOwn ==
  \A fd \in Fds : table[fd] # NoConn =>
    hpc[table[fd]] \in Owning /\ hfd[table[fd]] = fd

\* A link is open as long as somebody refers to it, and the daemon is there.
LinksReferred ==
  \A c \in Conns :
    /\ link[c] \in {"queued", "open"} => Up
    /\ link[c] = "open" => \/ \E fd \in Fds : table[fd] = c
                           \/ \E h \in Conns : held[h] = c

\* Before the request has been accepted there is no sender and nothing to send.
ThreadsIdle(c) ==
  /\ link[c] \in {"none", "queued"} => hpc[c] = "off"
  /\ hpc[c] \in {"off", "request"} =>
       c \notin subs /\ spc[c] = "off" /\ queue[c] = << >>
  /\ hpc[c] \in {"welcome", "rate"} =>
       queue[c] = << >> /\ spc[c] \notin Writers
  /\ writing[c] # 0 <=> spc[c] \in Writers

\* A client that has gone reads nothing; one that has not connected neither.
ClientPlace(c) ==
  /\ at[c] # "garbled"
  /\ c \in gone => at[c] \in Ended
  /\ at[c] \in Ended => c \in gone \/ link[c] = "none"
  /\ at[c] = "off" => link[c] = "none"
  /\ link[c] = "none" => at[c] \in Ended \cup {"off"}
  /\ at[c] \in Ended \cup {"off"} => toClient[c] = << >>
  /\ Phase(at[c]) < 3 => last[c] = 0

\* The segments under way are those the client expects.
StreamKinds(c) == Placed(toClient[c], Phase(at[c]))

\* What is written next is what comes behind them.
WriterPlace(c) ==
  (link[c] = "queued" /\ c \notin gone) \/ Reaches(c) =>
    InTurn(Ahead(c), hpc[c], spc[c])

\* From the client through the stream, the sender and its buffer to the
\* broadcast the numbers go up one by one.
NumbersGoUp(c) ==
  Reaches(c) /\ spc[c] \notin {"off", "ended"} =>
    /\ Chain(Newest(c), writing[c], queue[c])
    /\ c \in subs => got[c] = ChainEnd(Newest(c), writing[c], queue[c])

Conversation(c) ==
  /\ ThreadsIdle(c) /\ ClientPlace(c) /\ StreamKinds(c)
  /\ WriterPlace(c) /\ NumbersGoUp(c)

FeedInv ==
  /\ FeedTypeOK /\ NextIsDue /\ TableOwn /\ LinksReferred
  /\ \A c \in Conns : Conversation(c)

-----------------------------------------------------------------------------
\* The sender takes the first of the queue.
LEMMA ChainTakes ==
  ASSUME NEW n \in Nat, NEW q \in Seq(1 .. MaxChunk), q # << >>, Chain(n, 0, q)
  PROVE  /\ Chain(n, Head(q), Tail(q)) /\ Head(q) \in 1 .. MaxChunk
         /\ ChainEnd(n, Head(q), Tail(q)) = ChainEnd(n, 0, q)
<1>1. /\ Len(q) \in Nat \ {0} /\ Head(q) = q[1] /\ Head(q) \in 1 .. MaxChunk
      /\ Tail(q) \in Seq(1 .. MaxChunk) /\ Len(Tail(q)) = Len(q) - 1
      /\ \A i \in 1 .. Len(q) - 1 : Tail(q)[i] = q[i + 1]
  <2>1. Len(q) \in Nat \ {0} /\ Head(q) = q[1] /\ 1 \in 1 .. Len(q)
    BY EmptySeq
  <2>2. q[1] \in 1 .. MaxChunk
    BY <2>1, ElementOfSeq
  <2> QED BY <2>1, <2>2, HeadTailProperties
<1>2. Follows(n, q[1])
  BY DEF Chain, ChainEnd
<1>3. \A i \in 1 .. Len(q) - 1 : Follows(q[i], q[i + 1])
  BY DEF Chain
<1>4. ASSUME Tail(q) # << >>
      PROVE  Follows(q[1], Tail(q)[1]) /\ Tail(q)[Len(Tail(q))] = q[Len(q)]
  <2>1. 1 \in 1 .. Len(q) - 1 /\ Len(q) - 1 \in 1 .. Len(q) - 1
    BY <1>1, <1>4, EmptySeq
  <2> QED BY <1>1, <1>3, <2>1
<1>5. ASSUME NEW i \in 1 .. Len(Tail(q)) - 1
      PROVE  Follows(Tail(q)[i], Tail(q)[i + 1])
  <2>1. /\ i \in 1 .. Len(q) - 1 /\ i + 1 \in 1 .. Len(q) - 1
        /\ Tail(q)[i] = q[i + 1] /\ Tail(q)[i + 1] = q[(i + 1) + 1]
    BY <1>1
  <2> QED BY <1>3, <2>1
<1>6. ASSUME Tail(q) = << >>
      PROVE  q[Len(q)] = q[1]
  <2>1. Len(Tail(q)) = 0
    BY <1>6, EmptySeq
  <2>2. Len(Tail(q)) = Len(q) - 1 /\ Len(q) \in Nat
    BY <1>1
  <2>3. Len(q) = 1
    BY <2>1, <2>2
  <2> QED BY <2>3
<1>7. q[1] # 0
  BY <1>1
<1> QED BY <1>1, <1>2, <1>4, <1>5, <1>6, <1>7 DEF Chain, ChainEnd

\* It is written as a whole, and is the newest in the stream.
LEMMA ChainPuts ==
  ASSUME NEW n \in Nat, NEW w \in Nat \ {0}, NEW q, Chain(n, w, q)
  PROVE  /\ Follows(n, w) /\ Chain(w, 0, q)
         /\ ChainEnd(w, 0, q) = ChainEnd(n, w, q)
BY DEF Chain, ChainEnd

\* The handler receives a chunk and copies it into the queue.
LEMMA ChainCopies ==
  ASSUME NEW n \in Nat, NEW w \in Nat, NEW q \in Seq(1 .. MaxChunk),
         Chain(n, w, q), NEW m \in 1 .. MaxChunk,
         Follows(ChainEnd(n, w, q), m)
  PROVE  /\ Chain(n, w, Append(q, m)) /\ Append(q, m) \in Seq(1 .. MaxChunk)
         /\ ChainEnd(n, w, Append(q, m)) = m
<1> DEFINE r == Append(q, m)
<1>1. /\ Len(q) \in Nat /\ r \in Seq(1 .. MaxChunk) /\ Len(r) = Len(q) + 1
      /\ r[Len(q) + 1] = m /\ \A i \in 1 .. Len(q) : r[i] = q[i]
  BY AppendProperties
<1>2. r # << >> /\ r[Len(r)] = m
  BY <1>1
<1> HIDE DEF r
<1>3. Follows(ChainEnd(n, w, << >>), r[1])
  <2>1. CASE q = << >>
    BY <1>1, <2>1 DEF ChainEnd
  <2>2. CASE q # << >>
    <3>1. 1 \in 1 .. Len(q)
      BY <1>1, <2>2, EmptySeq
    <3> QED BY <1>1, <2>2, <3>1 DEF Chain
  <2> QED BY <2>1, <2>2
<1>4. ASSUME NEW i \in 1 .. Len(r) - 1
      PROVE  Follows(r[i], r[i + 1])
  <2>1. CASE i = Len(q)
    <3>1. q # << >> /\ Follows(q[Len(q)], m) /\ i \in 1 .. Len(q)
      BY <1>1, <2>1 DEF ChainEnd
    <3> QED BY <1>1, <2>1, <3>1
  <2>2. CASE i # Len(q)
    <3>1. i \in 1 .. Len(q) - 1 /\ i \in 1 .. Len(q) /\ i + 1 \in 1 .. Len(q)
      BY <1>1, <2>2
    <3>2. Follows(q[i], q[i + 1])
      BY <3>1 DEF Chain
    <3> QED BY <1>1, <3>1, <3>2
  <2> QED BY <2>1, <2>2
<1>5. Chain(n, w, r)
  BY <1>2, <1>3, <1>4 DEF Chain
<1> QED BY <1>1, <1>2, <1>5 DEF ChainEnd, r

-----------------------------------------------------------------------------
(***************************************************************************)
(* A step of one connection leaves the others alone.                       *)
(***************************************************************************)

\* Nothing of the connection changes, but that the daemon may hang up.
Untouched(c) ==
  /\ at'[c] = at[c] /\ last'[c] = last[c] /\ toClient'[c] = toClient[c]
  /\ hpc'[c] = hpc[c] /\ spc'[c] = spc[c]
  /\ queue'[c] = queue[c] /\ writing'[c] = writing[c] /\ got'[c] = got[c]
  /\ (c \in subs' <=> c \in subs) /\ (c \in gone' <=> c \in gone)
  /\ link'[c] # link[c] =>
       link[c] \in {"queued", "open"} /\ link'[c] \in {"fin", "rst"}
  /\ Reaches(c)' => Reaches(c)

LEMMA UntouchedKeeps ==
  ASSUME NEW c \in Conns, Conversation(c), Untouched(c)
  PROVE  Conversation(c)'
<1>1. ThreadsIdle(c)'
  BY DEF Conversation, ThreadsIdle, Untouched
<1>2. ClientPlace(c)'
  BY DEF Conversation, ClientPlace, Untouched
<1>3. StreamKinds(c)'
  BY DEF Conversation, StreamKinds, Untouched
<1>4. WriterPlace(c)'
  <2>1. Ahead(c)' = Ahead(c)
    BY DEF Ahead, Untouched
  <2>2. (link[c] = "queued" /\ c \notin gone)'
          => link[c] = "queued" /\ c \notin gone
    BY DEF Untouched
  <2> QED BY <2>1, <2>2 DEF Conversation, WriterPlace, Untouched
<1>5. NumbersGoUp(c)'
  <2>1. Newest(c)' = Newest(c)
    BY DEF Newest, InFlight, Untouched
  <2> QED BY <2>1 DEF Conversation, NumbersGoUp, Untouched
<1> QED BY <1>1, <1>2, <1>3, <1>4, <1>5 DEF Conversation

LEMMA UntouchedPromise ==
  ASSUME NEW c \in Conns, Untouched(c)
  PROVE  /\ Stage(c)' = Stage(c) /\ InFlight(c)' = InFlight(c)
         /\ Closed(c) => Closed(c)'
         /\ link'[c] = link[c] => (Closed(c)' <=> Closed(c))
BY DEF Untouched, Stage, InFlight, Closed

\* The invariant behind a step of connection c, from its parts
LEMMA OneKeeps ==
  ASSUME FeedInv, FeedTypeOK', NextIsDue', TableOwn', LinksReferred',
         NEW c \in Conns, Conversation(c)',
         \A d \in Conns \ {c} : Untouched(d)
  PROVE  FeedInv'
<1>1. \A d \in Conns : Conversation(d)'
  BY UntouchedKeeps DEF FeedInv
<1> QED BY <1>1 DEF FeedInv

\* What the daemon does with its chunks
LEMMA ChunksKeep ==
  ASSUME FeedTypeOK, NextIsDue,
         \/ Chunks!Produce \/ Chunks!Announce
         \/ \E c \in Conns : \/ Chunks!Subscribe(c) \/ Chunks!Receive(c)
                             \/ Chunks!Unsubscribe(c)
         \/ UNCHANGED chunkVars
  PROVE  /\ NextIsDue' /\ got' \in [Conns -> Nat]
         /\ subs' \subseteq Conns /\ owing' \subseteq subs'
<1> USE DEF FeedTypeOK, NextIsDue
<1>1. CASE Chunks!Produce
  <2>1. Chunks!Tick(current) \in 1 .. MaxChunk
    BY RoomAssumption DEF Chunks!Tick
  <2> QED BY <1>1, <2>1 DEF Chunks!Produce
<1>2. CASE Chunks!Announce
  BY <1>2 DEF Chunks!Announce
<1>3. ASSUME NEW c \in Conns, Chunks!Subscribe(c)
      PROVE  /\ NextIsDue' /\ got' \in [Conns -> Nat]
             /\ subs' \subseteq Conns /\ owing' \subseteq subs'
  BY <1>3 DEF Chunks!Subscribe
<1>4. ASSUME NEW c \in Conns, Chunks!Receive(c)
      PROVE  /\ NextIsDue' /\ got' \in [Conns -> Nat]
             /\ subs' \subseteq Conns /\ owing' \subseteq subs'
  BY <1>4 DEF Chunks!Receive
<1>5. ASSUME NEW c \in Conns, Chunks!Unsubscribe(c)
      PROVE  /\ NextIsDue' /\ got' \in [Conns -> Nat]
             /\ subs' \subseteq Conns /\ owing' \subseteq subs'
  BY <1>5 DEF Chunks!Unsubscribe, Chunks!NoChunk
<1>6. CASE UNCHANGED chunkVars
  BY <1>6 DEF chunkVars
<1> QED BY <1>1, <1>2, <1>3, <1>4, <1>5, <1>6

-----------------------------------------------------------------------------
(***************************************************************************)
(* Steps of a handler and its sender that the client does not see          *)
(***************************************************************************)

Silent(c) ==
  /\ UNCHANGED <<link, gone, toClient, fdVars, hfd, daemon, at, last>>
  /\ \A d \in Conns \ {c} :
       /\ hpc'[d] = hpc[d] /\ spc'[d] = spc[d] /\ queue'[d] = queue[d]
       /\ writing'[d] = writing[d] /\ got'[d] = got[d]
       /\ (d \in subs' <=> d \in subs)

LEMMA NewestType ==
  ASSUME FeedInv, NEW c \in Conns
  PROVE  /\ Newest(c) \in Nat /\ InFlight(c) \in Seq(Nat)
         /\ Phase(at[c]) \in 1 .. 5
<1>1. Phase(at[c]) \in 1 .. 5 /\ Placed(toClient[c], Phase(at[c]))
  BY DEF Phase, FeedInv, Conversation, StreamKinds
<1>2. InFlight(c) \in Seq(Nat)
  BY <1>1, DataSetsForm DEF InFlight
<1>3. InFlight(c) # << >> => InFlight(c)[Len(InFlight(c))] \in Nat
  BY <1>2, EmptySeq, ElementOfSeq
<1> QED BY <1>1, <1>2, <1>3 DEF Newest, FeedInv, FeedTypeOK

LEMMA SilentViews ==
  ASSUME FeedInv, NEW c \in Conns, Silent(c)
  PROVE  /\ ClientPlace(c)' /\ StreamKinds(c)'
         /\ Ahead(c)' = Ahead(c) /\ Newest(c)' = Newest(c)
         /\ hpc[c] \in Owning \cup {"join"} => (Reaches(c)' => Reaches(c))
         /\ ~ (link'[c] = "queued" /\ hpc[c] # "off")
<1>1. ClientPlace(c) /\ StreamKinds(c) /\ ThreadsIdle(c)
  BY DEF FeedInv, Conversation
<1>2. ClientPlace(c)'
  BY <1>1 DEF ClientPlace, Silent
<1>3. StreamKinds(c)'
  BY <1>1 DEF StreamKinds, Silent
<1>4. Ahead(c)' = Ahead(c) /\ Newest(c)' = Newest(c)
  BY DEF Ahead, Newest, InFlight, Silent
<1>5. Target(c)' = Target(c)
  BY DEF Target, Silent, fdVars
<1>6. hpc[c] \in Owning \cup {"join"} => (Reaches(c)' => Reaches(c))
  BY <1>5 DEF Reaches, Silent
<1>7. ~ (link'[c] = "queued" /\ hpc[c] # "off")
  BY <1>1 DEF ThreadsIdle, Silent
<1> QED BY <1>2, <1>3, <1>4, <1>6, <1>7

LEMMA SilentKeeps ==
  ASSUME FeedInv, NEW c \in Conns, Silent(c),
         SessionTypeOK, hpc[c] \in Owning => hpc'[c] \in Owning,
         \A d \in Conns : writing'[d] # 0 => writing'[d] \in 1 .. MaxChunk,
         queue' \in [Conns -> Seq(1 .. MaxChunk)],
         NextIsDue', got' \in [Conns -> Nat],
         subs' \subseteq Conns, owing' \subseteq subs',
         ThreadsIdle(c)', WriterPlace(c)', NumbersGoUp(c)'
  PROVE  FeedInv' /\ UNCHANGED Promise!vars
<1>1. FeedTypeOK'
  BY DEF FeedInv, FeedTypeOK, Silent
<1>2. TableOwn'
  <2> SUFFICES ASSUME NEW fd \in Fds, table'[fd] # NoConn
               PROVE  hpc'[table'[fd]] \in Owning /\ hfd'[table'[fd]] = fd
    BY DEF TableOwn
  <2>1. table' = table /\ hfd' = hfd
    BY DEF Silent, fdVars
  <2>2. table[fd] \in Conns /\ hpc[table[fd]] \in Owning /\ hfd[table[fd]] = fd
    BY <2>1 DEF FeedInv, TableOwn, SessionTypeOK
  <2>3. CASE table[fd] = c
    BY <2>1, <2>2, <2>3
  <2>4. CASE table[fd] # c
    BY <2>1, <2>2, <2>4 DEF Silent
  <2> QED BY <2>3, <2>4
<1>3. LinksReferred'
  BY DEF FeedInv, LinksReferred, Silent, fdVars, Up
<1>4. Conversation(c)'
  BY SilentViews DEF Conversation
<1>5. ASSUME NEW d \in Conns \ {c}
      PROVE  Untouched(d)
  BY DEF Silent, Untouched, Reaches, Target, fdVars
<1>6. FeedInv'
  BY <1>1, <1>2, <1>3, <1>4, <1>5, OneKeeps
<1>7. UNCHANGED Promise!vars
  <2>1. \A d \in Conns : /\ Stage(d)' = Stage(d) /\ InFlight(d)' = InFlight(d)
                         /\ Closed(d)' <=> Closed(d)
    BY DEF Silent, Stage, InFlight, Closed
  <2> QED BY <2>1, PromiseStays DEF Silent
<1> QED BY <1>6, <1>7

\* The request is accepted: nothing has been written, the client has read
\* nothing, and the first chunk may be any.
LEMMA RequestAcceptedFeeds ==
  ASSUME SessionInv, FeedInv, NEW c \in Conns, RequestAccepted(c),
         UNCHANGED clientVars
  PROVE  FeedInv' /\ UNCHANGED Promise!vars
<1>1. /\ SessionTypeOK /\ FeedTypeOK /\ NextIsDue /\ c \in Handlers
      /\ ThreadsIdle(c) /\ ClientPlace(c) /\ WriterPlace(c)
  BY DEF SessionInv, FeedInv, Conversation, Handlers
<1>2. /\ hpc[c] = "request" /\ hpc' = [hpc EXCEPT ![c] = "welcome"]
      /\ spc' = [spc EXCEPT ![c] = "loop"] /\ subs' = subs \cup {c}
      /\ UNCHANGED <<link, gone, toClient, fdVars, daemon, hfd, queue, writing>>
      /\ Chunks!Subscribe(c) /\ got' = got
  BY DEF RequestAccepted, Goto, Chunks!Subscribe
<1>3. hpc'[c] = "welcome" /\ spc'[c] = "loop"
  BY <1>1, <1>2 DEF SessionTypeOK
<1>4. Silent(c)
  BY <1>1, <1>2 DEF Silent, clientVars, SessionTypeOK
<1>5. /\ NextIsDue' /\ got' \in [Conns -> Nat]
      /\ subs' \subseteq Conns /\ owing' \subseteq subs'
  BY <1>1, <1>2, ChunksKeep
<1>6. c \notin subs /\ spc[c] = "off" /\ queue[c] = << >> /\ writing[c] = 0
  BY <1>1, <1>2 DEF ThreadsIdle, Writers, NextWrite
<1>7. ThreadsIdle(c)'
  BY <1>1, <1>2, <1>3, <1>6 DEF ThreadsIdle, Writers, NextWrite
<1>8. Reaches(c)' => Reaches(c)
  BY <1>2, <1>4, SilentViews DEF Owning
<1>9. ~ (link'[c] = "queued" /\ c \notin gone')
  BY <1>2, <1>4, SilentViews
<1>10. Reaches(c) => Ahead(c) = 1
  BY <1>1, <1>2 DEF WriterPlace, InTurn
<1>11. WriterPlace(c)'
  <2>1. Ahead(c)' = Ahead(c)
    BY <1>4, SilentViews
  <2> QED BY <1>3, <1>8, <1>9, <1>10, <2>1 DEF WriterPlace, InTurn
<1>12. NumbersGoUp(c)'
  <2> SUFFICES ASSUME Reaches(c)'
               PROVE  /\ Chain(Newest(c), writing[c], queue[c])'
                      /\ got'[c] = ChainEnd(Newest(c), writing[c], queue[c])'
    BY DEF NumbersGoUp
  <2>1. Phase(at[c]) + Len(toClient[c]) = 1
    BY <1>8, <1>10 DEF Ahead
  <2>2. toClient[c] \in Seq(Segment) /\ Len(toClient[c]) \in Nat
    BY <1>1 DEF SessionTypeOK
  <2>3. Phase(at[c]) \in 1 .. 5
    BY DEF Phase
  <2>4. Phase(at[c]) = 1 /\ Len(toClient[c]) = 0
    BY <2>1, <2>2, <2>3
  <2>5. toClient[c] = << >> /\ last[c] = 0
    BY <1>1, <2>2, <2>4, EmptySeq DEF ClientPlace
  <2>6. Newest(c) = 0
    BY <2>3, <2>5, EmptyStream DEF Newest, InFlight
  <2>7. Newest(c)' = 0 /\ writing'[c] = 0 /\ queue'[c] = << >>
    BY <1>2, <1>4, <1>6, <2>6, SilentViews
  <2>8. got'[c] = 0
    BY <1>1, <1>2, <1>6 DEF NextIsDue
  <2>9. Chain(0, 0, << >>) /\ ChainEnd(0, 0, << >>) = 0
    BY DEF Chain, ChainEnd
  <2> QED BY <2>7, <2>8, <2>9
<1>13. queue' = queue /\ writing' = writing
  BY <1>2
<1> QED BY <1>1, <1>2, <1>3, <1>4, <1>5, <1>7, <1>11, <1>12, <1>13, SilentKeeps
        DEF FeedTypeOK, Owning, Serving

\* A handler moves on; at most it unsubscribes.
LEMMA MoveFeeds ==
  ASSUME SessionInv, FeedInv, NEW c \in Conns, UNCHANGED clientVars,
         NEW from \in {"request", "loop", "wait", "leave"},
         NEW to \in {"loop", "wait", "leave", "close"}, Goto(c, from, to),
         UNCHANGED <<link, gone, toClient, fdVars, daemon, hfd, spc, queue,
                     writing>>,
         Chunks!Unsubscribe(c) \/ UNCHANGED chunkVars
  PROVE  FeedInv' /\ UNCHANGED Promise!vars
<1>1. /\ SessionTypeOK /\ FeedTypeOK /\ NextIsDue /\ c \in Handlers
      /\ ThreadsIdle(c) /\ ClientPlace(c) /\ WriterPlace(c) /\ NumbersGoUp(c)
  BY DEF SessionInv, FeedInv, Conversation, Handlers
<1>2. hpc' = [hpc EXCEPT ![c] = to] /\ hpc[c] = from /\ hpc'[c] = to
  BY <1>1 DEF Goto, SessionTypeOK
<1>3. /\ \A d \in Conns \ {c} : got'[d] = got[d] /\ (d \in subs' <=> d \in subs)
      /\ c \in subs' => c \in subs /\ got'[c] = got[c]
  BY <1>1 DEF Chunks!Unsubscribe, chunkVars, FeedTypeOK
<1>4. Silent(c)
  BY <1>1, <1>2, <1>3 DEF Silent, clientVars, SessionTypeOK
<1>5. /\ NextIsDue' /\ got' \in [Conns -> Nat]
      /\ subs' \subseteq Conns /\ owing' \subseteq subs'
  BY <1>1, ChunksKeep
<1>6. from \in Owning /\ to \in Owning
  BY DEF Owning, Serving
<1>7. ThreadsIdle(c)'
  BY <1>1, <1>2 DEF ThreadsIdle
<1>8. Reaches(c)' => Reaches(c)
  BY <1>2, <1>4, <1>6, SilentViews
<1>9. ~ (link'[c] = "queued" /\ c \notin gone')
  BY <1>2, <1>4, SilentViews
<1>10. WriterPlace(c)'
  <2>1. Ahead(c)' = Ahead(c) /\ spc'[c] = spc[c]
    BY <1>4, SilentViews
  <2>2. from = "request" => spc[c] = "off"
    BY <1>1, <1>2 DEF ThreadsIdle
  <2> QED BY <1>1, <1>2, <1>8, <1>9, <2>1, <2>2 DEF WriterPlace, InTurn
<1>11. NumbersGoUp(c)'
  <2>1. Newest(c)' = Newest(c)
    BY <1>4, SilentViews
  <2> QED BY <1>1, <1>3, <1>8, <2>1 DEF NumbersGoUp
<1> QED BY <1>1, <1>2, <1>4, <1>5, <1>6, <1>7, <1>10, <1>11, SilentKeeps
        DEF FeedTypeOK

\* The handler copies the chunk behind the last one it has queued.
LEMMA CopyFeeds ==
  ASSUME SessionInv, FeedInv, NEW c \in Conns, Copy(c), UNCHANGED clientVars
  PROVE  FeedInv' /\ UNCHANGED Promise!vars
<1>1. /\ SessionTypeOK /\ FeedTypeOK /\ NextIsDue /\ c \in Handlers
      /\ ThreadsIdle(c) /\ ClientPlace(c) /\ WriterPlace(c) /\ NumbersGoUp(c)
  BY DEF SessionInv, FeedInv, Conversation, Handlers
<1>2. /\ hpc' = [hpc EXCEPT ![c] = "loop"] /\ hpc[c] = "wait"
      /\ queue' = [queue EXCEPT ![c] = Append(@, current)]
      /\ Chunks!Receive(c) /\ subs' = subs /\ c \in owing
      /\ got' = [got EXCEPT ![c] = current]
      /\ UNCHANGED <<link, gone, toClient, fdVars, daemon, hfd, spc, writing>>
  BY DEF Copy, Goto, Chunks!Receive, netVars
<1>3. c \in subs /\ current \in 1 .. MaxChunk /\ ~fresh
  BY <1>1, <1>2 DEF FeedTypeOK, NextIsDue
<1>4. /\ hpc'[c] = "loop" /\ queue'[c] = Append(queue[c], current)
      /\ got'[c] = current
  BY <1>1, <1>2 DEF FeedTypeOK, SessionTypeOK
<1>5. Silent(c)
  BY <1>1, <1>2 DEF Silent, clientVars, FeedTypeOK, SessionTypeOK
<1>6. /\ NextIsDue' /\ got' \in [Conns -> Nat]
      /\ subs' \subseteq Conns /\ owing' \subseteq subs'
  BY <1>1, <1>2, ChunksKeep
<1>7. queue' \in [Conns -> Seq(1 .. MaxChunk)]
  <2>1. queue[c] \in Seq(1 .. MaxChunk)
    BY <1>1 DEF FeedTypeOK
  <2>2. Append(queue[c], current) \in Seq(1 .. MaxChunk)
    BY <1>3, <2>1, AppendProperties
  <2> QED BY <1>1, <1>2, <2>2 DEF FeedTypeOK
<1>8. ThreadsIdle(c)'
  BY <1>1, <1>2, <1>4 DEF ThreadsIdle
<1>9. Reaches(c)' => Reaches(c)
  BY <1>2, <1>5, SilentViews DEF Owning, Serving
<1>10. ~ (link'[c] = "queued" /\ c \notin gone')
  BY <1>2, <1>5, SilentViews
<1>11. WriterPlace(c)'
  <2>1. Ahead(c)' = Ahead(c) /\ spc'[c] = spc[c]
    BY <1>2, <1>5, SilentViews
  <2> QED BY <1>1, <1>2, <1>4, <1>9, <1>10, <2>1 DEF WriterPlace, InTurn
<1>12. NumbersGoUp(c)'
  <2> SUFFICES ASSUME Reaches(c)', spc'[c] \notin {"off", "ended"}
               PROVE  /\ Chain(Newest(c), writing[c], queue[c])'
                      /\ got'[c] = ChainEnd(Newest(c), writing[c], queue[c])'
    BY DEF NumbersGoUp
  <2> DEFINE n == Newest(c)
  <2>1. Newest(c)' = n
    BY <1>5, SilentViews
  <2>2. Chain(n, writing[c], queue[c])
        /\ got[c] = ChainEnd(n, writing[c], queue[c])
    BY <1>1, <1>2, <1>3, <1>9 DEF NumbersGoUp
  <2>3. Follows(got[c], current)
    BY <1>1, <1>2, <1>3 DEF NextIsDue, Follows
  <2>4. n \in Nat /\ writing[c] \in Nat /\ queue[c] \in Seq(1 .. MaxChunk)
    BY <1>1, NewestType DEF FeedTypeOK, SessionTypeOK
  <2> HIDE DEF n
  <2>5. /\ Chain(n, writing[c], Append(queue[c], current))
        /\ ChainEnd(n, writing[c], Append(queue[c], current)) = current
    BY <1>3, <2>2, <2>3, <2>4, ChainCopies
  <2>6. writing'[c] = writing[c]
    BY <1>2
  <2> QED BY <1>4, <2>1, <2>5, <2>6
<1>13. hpc'[c] \in Owning /\ writing' = writing
  BY <1>2, <1>4 DEF Owning, Serving
<1> QED BY <1>1, <1>5, <1>6, <1>7, <1>8, <1>11, <1>12, <1>13, SilentKeeps
        DEF FeedTypeOK

\* while(*handler_running), and the wait for a chunk that never comes
LEMMA SenderMovesFeeds ==
  ASSUME SessionInv, FeedInv, NEW c \in Conns, UNCHANGED clientVars,
         SenderLoop(c) \/ SenderReturns(c)
  PROVE  FeedInv' /\ UNCHANGED Promise!vars
<1>1. /\ SessionTypeOK /\ FeedTypeOK /\ NextIsDue
      /\ ThreadsIdle(c) /\ ClientPlace(c) /\ WriterPlace(c) /\ NumbersGoUp(c)
  BY DEF SessionInv, FeedInv, Conversation
<1>2. /\ spc[c] \in {"loop", "take"} /\ UNCHANGED chunkVars
      /\ UNCHANGED <<link, gone, toClient, fdVars, daemon, hfd, hpc, queue,
                     writing>>
      /\ \E to \in {"loop", "take", "ended"} : spc' = [spc EXCEPT ![c] = to]
  BY DEF SenderLoop, SenderReturns, SenderGoto, netVars, handlerVars
<1>3. spc'[c] \in {"loop", "take", "ended"}
  BY <1>1, <1>2 DEF SessionTypeOK
<1>4. Silent(c)
  BY <1>1, <1>2 DEF Silent, clientVars, chunkVars, SessionTypeOK
<1>5. /\ NextIsDue' /\ got' \in [Conns -> Nat]
      /\ subs' \subseteq Conns /\ owing' \subseteq subs'
  BY <1>1, <1>2, ChunksKeep
<1>6. ThreadsIdle(c)'
  BY <1>1, <1>2, <1>3 DEF ThreadsIdle, Writers, NextWrite, chunkVars
<1>7. Reaches(c)' => Reaches(c)
  BY <1>2 DEF Reaches, Target, fdVars
<1>8. ~ (link'[c] = "queued" /\ c \notin gone')
  BY <1>1, <1>2 DEF ThreadsIdle
<1>9. WriterPlace(c)'
  <2>1. Ahead(c)' = Ahead(c)
    BY <1>4, SilentViews
  <2> QED BY <1>1, <1>2, <1>3, <1>7, <1>8, <2>1
          DEF WriterPlace, InTurn, SenderPhase
<1>10. NumbersGoUp(c)'
  <2>1. Newest(c)' = Newest(c)
    BY <1>4, SilentViews
  <2> QED BY <1>1, <1>2, <1>7, <2>1 DEF NumbersGoUp, chunkVars
<1> QED BY <1>1, <1>2, <1>4, <1>5, <1>6, <1>9, <1>10, SilentKeeps
        DEF FeedTypeOK

\* The sender takes the first chunk of the queue.
LEMMA SenderTakesFeeds ==
  ASSUME SessionInv, FeedInv, NEW c \in Conns, UNCHANGED clientVars,
         SenderTakes(c)
  PROVE  FeedInv' /\ UNCHANGED Promise!vars
<1>1. /\ SessionTypeOK /\ FeedTypeOK /\ NextIsDue
      /\ ThreadsIdle(c) /\ ClientPlace(c) /\ WriterPlace(c) /\ NumbersGoUp(c)
  BY DEF SessionInv, FeedInv, Conversation
<1>2. /\ spc[c] = "take" /\ UNCHANGED chunkVars /\ queue[c] # << >>
      /\ UNCHANGED <<link, gone, toClient, fdVars, daemon, hfd, hpc>>
      /\ spc' = [spc EXCEPT ![c] = "magic"]
      /\ writing' = [writing EXCEPT ![c] = Head(queue[c])]
      /\ queue' = [queue EXCEPT ![c] = Tail(@)]
  BY DEF SenderTakes, SenderGoto, netVars, handlerVars
<1>3. /\ spc'[c] = "magic" /\ writing'[c] = Head(queue[c])
      /\ queue'[c] = Tail(queue[c])
  BY <1>1, <1>2 DEF SessionTypeOK, FeedTypeOK
<1>4. Silent(c)
  BY <1>1, <1>2 DEF Silent, clientVars, chunkVars, SessionTypeOK
<1>5. /\ NextIsDue' /\ got' \in [Conns -> Nat]
      /\ subs' \subseteq Conns /\ owing' \subseteq subs'
  BY <1>1, <1>2, ChunksKeep
<1>6. /\ queue[c] \in Seq(1 .. MaxChunk) /\ writing[c] = 0
      /\ hpc[c] \notin {"off", "request", "welcome", "rate"}
  BY <1>1, <1>2 DEF FeedTypeOK, ThreadsIdle, Writers, NextWrite
<1>7. Head(queue[c]) \in 1 .. MaxChunk /\ Tail(queue[c]) \in Seq(1 .. MaxChunk)
  BY <1>2, <1>6, HeadTailProperties
<1>8. queue' \in [Conns -> Seq(1 .. MaxChunk)]
  BY <1>1, <1>2, <1>7 DEF FeedTypeOK
<1>9. \A d \in Conns : writing'[d] # 0 => writing'[d] \in 1 .. MaxChunk
  BY <1>1, <1>2, <1>7 DEF FeedTypeOK, SessionTypeOK
<1>10. ThreadsIdle(c)'
  <2>1. Head(queue[c]) # 0
    BY <1>7
  <2> QED BY <1>1, <1>2, <1>3, <1>6, <2>1
          DEF ThreadsIdle, Writers, NextWrite
<1>11. Reaches(c)' => Reaches(c)
  BY <1>2 DEF Reaches, Target, fdVars
<1>12. ~ (link'[c] = "queued" /\ c \notin gone')
  BY <1>1, <1>2, <1>6 DEF ThreadsIdle
<1>13. WriterPlace(c)'
  <2>1. Ahead(c)' = Ahead(c)
    BY <1>4, SilentViews
  <2> QED BY <1>1, <1>2, <1>3, <1>6, <1>11, <1>12, <2>1
          DEF WriterPlace, InTurn, SenderPhase
<1>14. NumbersGoUp(c)'
  <2>1. Newest(c)' = Newest(c) /\ Newest(c) \in Nat
    BY <1>4, SilentViews, NewestType
  <2>2. Reaches(c) => /\ Chain(Newest(c), 0, queue[c])
                      /\ c \in subs =>
                           got[c] = ChainEnd(Newest(c), 0, queue[c])
    BY <1>1, <1>2, <1>6 DEF NumbersGoUp
  <2>3. Reaches(c) =>
          /\ Chain(Newest(c), Head(queue[c]), Tail(queue[c]))
          /\ ChainEnd(Newest(c), Head(queue[c]), Tail(queue[c]))
               = ChainEnd(Newest(c), 0, queue[c])
    BY <1>2, <1>6, <2>1, <2>2, ChainTakes
  <2> QED BY <1>2, <1>3, <1>11, <2>1, <2>2, <2>3 DEF NumbersGoUp, chunkVars
<1> QED BY <1>1, <1>2, <1>4, <1>5, <1>8, <1>9, <1>10, <1>13, <1>14, SilentKeeps

-----------------------------------------------------------------------------
(***************************************************************************)
(* Steps of the daemon that concern all connections, or a link             *)
(***************************************************************************)

LEMMA AllKeep ==
  ASSUME FeedInv, FeedTypeOK', NextIsDue', TableOwn', LinksReferred',
         \A d \in Conns : Untouched(d), UNCHANGED last
  PROVE  FeedInv' /\ Promise!Next
<1>1. \A d \in Conns : Conversation(d)'
  BY UntouchedKeeps DEF FeedInv
<1>2. Promise!Next
  BY UntouchedPromise, PromiseHangsUp
<1> QED BY <1>1, <1>2 DEF FeedInv

\* The process ends: the daemon hangs up on everybody.
LEMMA EndFeeds ==
  ASSUME FeedInv, NEW how \in {"welcome", "close", "exited"}, Ends(how),
         UNCHANGED clientVars
  PROVE  FeedInv' /\ Promise!Next
<1>1. ASSUME NEW d \in Conns
      PROVE  /\ link'[d] \notin {"queued", "open"}
             /\ link'[d] # link[d] =>
                  link[d] \in {"queued", "open"} /\ link'[d] \in {"fin", "rst"}
             /\ link'[d] \in {"none", "queued", "open", "fin", "rst"}
  <2>1. NoConn # d
    BY ConnAssumption
  <2>2. /\ \A fd \in Fds : table'[fd] # d
        /\ \A h \in Conns : held'[h] # d
    BY <2>1 DEF Ends, CloseAll
  <2>3. link'[d] = IF link[d] = "queued" THEN "rst"
                   ELSE IF link[d] # "open" THEN link[d]
                   ELSE IF toServer[d] > 0 THEN "rst" ELSE "fin"
    BY <2>2 DEF Ends, CloseAll, LinksWith
  <2>4. link[d] \in {"none", "queued", "open", "fin", "rst"}
    BY DEF FeedInv, FeedTypeOK
  <2> QED BY <2>3, <2>4
<1>2. \A d \in Conns : Untouched(d)
  BY <1>1 DEF Untouched, Reaches, Ends, CloseAll, clientVars, chunkVars,
              handlerVars, senderVars
<1>3. FeedTypeOK'
  <2>1. DOMAIN link' = Conns /\ link' = [d \in Conns |-> link'[d]]
    BY DEF Ends, CloseAll
  <2>2. link' \in [Conns -> {"none", "queued", "open", "fin", "rst"}]
    BY <1>1, <2>1
  <2> QED BY <2>2 DEF FeedInv, FeedTypeOK, Ends, CloseAll, clientVars,
                      chunkVars, senderVars
<1>4. NextIsDue'
  BY ChunksKeep DEF FeedInv, Ends
<1>5. TableOwn' /\ LinksReferred'
  BY <1>1 DEF TableOwn, LinksReferred, Ends, CloseAll
<1> QED BY <1>2, <1>3, <1>4, <1>5, AllKeep DEF clientVars

\* main closes the listening socket: connections not accepted are reset.
LEMMA StopAcceptingFeeds ==
  ASSUME SessionInv, FeedInv, StopAccepting, UNCHANGED clientVars
  PROVE  FeedInv' /\ Promise!Next
<1>1. /\ link' = [d \in Conns |-> IF link[d] = "queued" THEN "rst" ELSE link[d]]
      /\ UNCHANGED <<gone, toServer, toClient, fdVars, chunkVars, handlerVars,
                     senderVars, clientVars>>
      /\ Up'
  BY DEF StopAccepting, StopListening, Up
<1>2. /\ FeedTypeOK /\ NextIsDue /\ TableOwn /\ LinksReferred
  BY DEF FeedInv
<1>3. \A d \in Conns : Untouched(d)
  BY <1>1, <1>2 DEF Untouched, Reaches, Target, FeedTypeOK, fdVars, chunkVars,
                    handlerVars, senderVars, clientVars
<1>4. NextIsDue'
  BY <1>1, <1>2, ChunksKeep
<1>5. FeedTypeOK'
  BY <1>1, <1>2, <1>4 DEF FeedTypeOK, fdVars, chunkVars, handlerVars,
                          senderVars, clientVars
<1>6. TableOwn' /\ LinksReferred'
  BY <1>1, <1>2 DEF TableOwn, LinksReferred, FeedTypeOK, fdVars, handlerVars
<1> QED BY <1>1, <1>2, <1>3, <1>4, <1>5, <1>6, AllKeep DEF clientVars

\* accept fails, SIGINT, a new chunk, the handler of the descriptor -1
LEMMA DaemonFeeds ==
  ASSUME SessionInv, FeedInv, Up, UNCHANGED clientVars,
         \/ AcceptFails \/ Interrupt \/ NewChunk \/ RequestFails(NoConn)
  PROVE  FeedInv' /\ Promise!Next
<1>1. /\ UNCHANGED <<netVars, fdVars, hfd, senderVars>> /\ Up'
      /\ \/ hpc' = hpc
         \/ hpc' = [hpc EXCEPT ![NoConn] = "request"]
         \/ hpc' = [hpc EXCEPT ![NoConn] = "close"]
      /\ Chunks!Produce \/ Chunks!Announce \/ UNCHANGED chunkVars
  <2>1. CASE AcceptFails \/ RequestFails(NoConn)
    BY <2>1 DEF AcceptFails, Accepts, RequestFails, Goto, Up
  <2>2. CASE Interrupt
    BY <2>2 DEF Interrupt, handlerVars, Up
  <2>3. CASE NewChunk
    BY <2>3 DEF NewChunk, handlerVars, Up
  <2> QED BY <2>1, <2>2, <2>3
<1>2. SessionTypeOK /\ FeedTypeOK
  BY DEF SessionInv, FeedInv
<1>3. \A d \in Conns : hpc'[d] = hpc[d]
  BY <1>1, <1>2, ConnAssumption DEF SessionTypeOK, Handlers
<1>4. subs' = subs /\ got' = got
  BY <1>1 DEF Chunks!Produce, Chunks!Announce, chunkVars
<1>5. \A d \in Conns : Untouched(d)
  BY <1>1, <1>3, <1>4 DEF Untouched, Reaches, Target, netVars, fdVars,
                          senderVars, clientVars
<1>6. NextIsDue' /\ owing' \subseteq subs'
  BY <1>1, ChunksKeep DEF FeedInv
<1>7. FeedTypeOK'
  BY <1>1, <1>2, <1>4, <1>6 DEF FeedTypeOK, netVars, senderVars, clientVars
<1>8. TableOwn'
  BY <1>1, <1>2, <1>3 DEF FeedInv, TableOwn, SessionTypeOK, fdVars
<1>9. LinksReferred'
  BY <1>1 DEF FeedInv, LinksReferred, netVars, fdVars
<1> QED BY <1>5, <1>6, <1>7, <1>8, <1>9, AllKeep DEF clientVars

\* The connection is accepted, and its descriptor is new.
LEMMA AcceptFeeds ==
  ASSUME SessionInv, FeedInv, Up, NEW c \in Conns, Accept(c),
         UNCHANGED clientVars
  PROVE  FeedInv' /\ Promise!Next
<1>1. PICK fd \in Fds : /\ table[fd] = NoConn
                        /\ table' = [table EXCEPT ![fd] = c]
                        /\ hfd' = [hfd EXCEPT ![c] = fd]
  BY DEF Accept, LeastFree, Free
<1>2. /\ link[c] = "queued" /\ link' = [link EXCEPT ![c] = "open"]
      /\ hpc[c] = "off" /\ hpc' = [hpc EXCEPT ![c] = "request"]
      /\ UNCHANGED <<gone, toClient, held, chunkVars, senderVars>> /\ Up'
  BY DEF Accept, Accepts, Goto, Up
<1>3. /\ SessionTypeOK /\ FeedTypeOK /\ NextIsDue /\ TableOwn /\ LinksReferred
      /\ ThreadsIdle(c) /\ ClientPlace(c) /\ StreamKinds(c) /\ WriterPlace(c)
      /\ c \in Handlers
  BY DEF SessionInv, FeedInv, Conversation, Handlers
<1>4. /\ hpc'[c] = "request" /\ hfd'[c] = fd /\ table'[fd] = c
      /\ link'[c] = "open" /\ NoConn # c
  BY <1>1, <1>2, <1>3, ConnAssumption DEF SessionTypeOK, FeedTypeOK
<1>5. ASSUME NEW d \in Conns \ {c}
      PROVE  Untouched(d)
  <2>1. /\ hpc'[d] = hpc[d] /\ hfd'[d] = hfd[d] /\ link'[d] = link[d]
        /\ held'[d] = held[d]
    BY <1>1, <1>2, <1>3 DEF SessionTypeOK, FeedTypeOK, Handlers
  <2>2. ASSUME Reaches(d)'
        PROVE  Reaches(d)
    <3>1. hfd[d] \in Fds
      BY <2>1, <2>2 DEF Reaches, SessionInv, OwnDescriptor, NumberKept
    <3>2. table'[hfd[d]] = d => table[hfd[d]] = d
      BY <1>1, <1>3, <3>1 DEF SessionTypeOK
    <3> QED BY <1>2, <2>1, <2>2, <3>2 DEF Reaches, Target
  <2> QED BY <1>2, <2>1, <2>2
          DEF Untouched, chunkVars, senderVars, clientVars
<1>6. FeedTypeOK' /\ NextIsDue'
  <2>1. NextIsDue'
    BY <1>2, <1>3, ChunksKeep
  <2> QED BY <1>2, <1>3, <2>1
          DEF FeedTypeOK, chunkVars, senderVars, clientVars
<1>7. TableOwn'
  <2> SUFFICES ASSUME NEW n \in Fds, table'[n] # NoConn
               PROVE  hpc'[table'[n]] \in Owning /\ hfd'[table'[n]] = n
    BY DEF TableOwn
  <2>1. CASE n = fd
    BY <1>4, <2>1 DEF Owning
  <2>2. CASE n # fd
    <3>1. table'[n] = table[n] /\ table[n] \in Conns
      BY <1>1, <1>3, <2>2 DEF SessionTypeOK
    <3>2. hpc[table[n]] \in Owning /\ hfd[table[n]] = n
      BY <1>3, <3>1 DEF TableOwn
    <3>3. table[n] # c
      BY <1>2, <3>2 DEF Owning, Serving
    <3> QED BY <1>1, <1>2, <1>3, <3>1, <3>2, <3>3 DEF SessionTypeOK, Handlers
  <2> QED BY <2>1, <2>2
<1>8. LinksReferred'
  <2> SUFFICES ASSUME NEW d \in Conns
               PROVE  /\ link'[d] \in {"queued", "open"} => Up'
                      /\ link'[d] = "open" =>
                           \/ \E n \in Fds : table'[n] = d
                           \/ \E h \in Conns : held'[h] = d
    BY DEF LinksReferred
  <2>1. Up'
    BY <1>2
  <2>2. CASE d = c
    BY <1>4, <2>1, <2>2
  <2>3. CASE d # c
    <3>1. link'[d] = link[d]
      BY <1>2, <1>3, <2>3 DEF FeedTypeOK
    <3>2. \A n \in Fds : table[n] = d => table'[n] = d
      BY <1>1, <1>3, ConnAssumption DEF SessionTypeOK
    <3> QED BY <1>2, <1>3, <2>1, <3>1, <3>2 DEF LinksReferred
  <2> QED BY <2>2, <2>3
<1>9. Conversation(c)'
  <2>1. spc[c] = "off" /\ c \notin subs /\ queue[c] = << >>
    BY <1>2, <1>3 DEF ThreadsIdle
  <2>2. ThreadsIdle(c)'
    BY <1>2, <1>3, <1>4, <2>1 DEF ThreadsIdle, chunkVars, senderVars
  <2>3. ClientPlace(c)'
    BY <1>2, <1>3, <1>4 DEF ClientPlace, clientVars
  <2>4. StreamKinds(c)'
    BY <1>2, <1>3 DEF StreamKinds, clientVars
  <2>5. WriterPlace(c)'
    <3>1. c \notin gone => Ahead(c) = 1
      BY <1>2, <1>3 DEF WriterPlace, InTurn
    <3>2. Ahead(c)' = Ahead(c) /\ gone' = gone /\ spc'[c] = "off"
      BY <1>2, <2>1 DEF Ahead, clientVars, senderVars
    <3> QED BY <1>4, <3>1, <3>2 DEF WriterPlace, InTurn, Reaches
  <2>6. NumbersGoUp(c)'
    BY <1>2, <2>1 DEF NumbersGoUp, senderVars
  <2> QED BY <2>2, <2>3, <2>4, <2>5, <2>6 DEF Conversation
<1>10. FeedInv'
  BY <1>3, <1>5, <1>6, <1>7, <1>8, <1>9, OneKeeps
<1>11. Promise!Next
  <2>1. \A d \in Conns : /\ Stage(d)' = Stage(d) /\ InFlight(d)' = InFlight(d)
                         /\ Closed(d) => Closed(d)'
    BY <1>2, <1>3 DEF Stage, InFlight, Closed, clientVars, FeedTypeOK
  <2> QED BY <2>1, PromiseHangsUp DEF clientVars
<1> QED BY <1>10, <1>11

\* The handler closes its descriptor, and the link with it unless its sender
\* sleeps in a write.
LEMMA CloseFeeds ==
  ASSUME SessionInv, FeedInv, Up, NEW c \in Conns, Close(c),
         UNCHANGED clientVars
  PROVE  FeedInv' /\ Promise!Next
<1>1. /\ table' = [table EXCEPT ![hfd[c]] = NoConn]
      /\ link' = LinksWith(table', held)
      /\ hpc[c] = "close" /\ hpc' = [hpc EXCEPT ![c] = "join"]
      /\ UNCHANGED <<gone, toClient, held, daemon, chunkVars, hfd, queue, spc,
                     writing>>
  BY DEF Close, CloseFd, Goto
<1>2. /\ SessionTypeOK /\ FeedTypeOK /\ NextIsDue /\ TableOwn /\ LinksReferred
      /\ ThreadsIdle(c) /\ ClientPlace(c) /\ StreamKinds(c)
      /\ WriterPlace(c) /\ NumbersGoUp(c) /\ c \in Handlers
  BY DEF SessionInv, FeedInv, Conversation, Handlers
<1>3. hpc'[c] = "join" /\ hfd[c] \in Fds /\ table[hfd[c]] = c /\ NoConn # c
  BY <1>1, <1>2, ConnAssumption
     DEF SessionTypeOK, SessionInv, OwnDescriptor, Owning, Serving
<1>4. ASSUME NEW d \in Conns
      PROVE  /\ link'[d] # link[d] => link[d] = "open" /\ link'[d] \in {"fin", "rst"}
             /\ link'[d] \in {"none", "queued", "open", "fin", "rst"}
             /\ link'[d] = "open" => \/ \E fd \in Fds : table'[fd] = d
                                     \/ \E h \in Conns : held'[h] = d
  BY <1>1, <1>2 DEF LinksWith, FeedTypeOK
<1>5. \A d \in Conns : Reaches(d)' => Reaches(d)
  <2> SUFFICES ASSUME NEW d \in Conns, Reaches(d)'
               PROVE  Reaches(d)
    OBVIOUS
  <2>1. hpc[d] \in Owning \cup {"join"}
    BY <1>1, <1>2 DEF Reaches, SessionTypeOK, Owning, Serving
  <2>2. hfd[d] \in Fds
    BY <2>1 DEF SessionInv, OwnDescriptor, NumberKept
  <2>3. table'[hfd[d]] = d => table[hfd[d]] = d
    BY <1>1, <1>2, <2>2, ConnAssumption DEF SessionTypeOK
  <2>4. link[d] = "open"
    BY <1>4 DEF Reaches
  <2> QED BY <1>1, <2>1, <2>3, <2>4 DEF Reaches, Target
<1>6. ASSUME NEW d \in Conns \ {c}
      PROVE  Untouched(d)
  <2>1. hpc'[d] = hpc[d]
    BY <1>1, <1>2 DEF SessionTypeOK, Handlers
  <2> QED BY <1>1, <1>4, <1>5, <2>1 DEF Untouched, chunkVars, clientVars
<1>7. FeedTypeOK' /\ NextIsDue'
  <2>1. link' = [d \in Conns |-> link'[d]]
    BY <1>1 DEF LinksWith
  <2>2. link' \in [Conns -> {"none", "queued", "open", "fin", "rst"}]
    BY <1>4, <2>1
  <2>3. NextIsDue'
    BY <1>1, <1>2, ChunksKeep
  <2> QED BY <1>1, <1>2, <2>2, <2>3 DEF FeedTypeOK, chunkVars, clientVars
<1>8. TableOwn'
  <2> SUFFICES ASSUME NEW fd \in Fds, table'[fd] # NoConn
               PROVE  hpc'[table'[fd]] \in Owning /\ hfd'[table'[fd]] = fd
    BY DEF TableOwn
  <2>1. fd # hfd[c] /\ table'[fd] = table[fd] /\ table[fd] \in Conns
    BY <1>1, <1>2, <1>3 DEF SessionTypeOK
  <2>2. hpc[table[fd]] \in Owning /\ hfd[table[fd]] = fd
    BY <1>2, <2>1 DEF TableOwn
  <2>3. table[fd] # c
    BY <2>1, <2>2
  <2> QED BY <1>1, <1>2, <2>1, <2>2, <2>3 DEF SessionTypeOK, Handlers
<1>9. LinksReferred'
  BY <1>1, <1>2, <1>4 DEF LinksReferred, Up
<1>10. Conversation(c)'
  <2>1. /\ Ahead(c)' = Ahead(c) /\ Newest(c)' = Newest(c)
        /\ StreamKinds(c)'
    BY <1>1, <1>2 DEF Ahead, Newest, InFlight, StreamKinds, clientVars
  <2>2. ThreadsIdle(c)'
    BY <1>1, <1>2, <1>3, <1>4 DEF ThreadsIdle, chunkVars
  <2>3. ClientPlace(c)'
    BY <1>1, <1>2, <1>4 DEF ClientPlace, clientVars
  <2>4. link'[c] # "queued"
    BY <1>1, <1>2, <1>4 DEF ThreadsIdle
  <2>5. WriterPlace(c)'
    BY <1>1, <1>2, <1>3, <1>5, <2>1, <2>4 DEF WriterPlace, InTurn
  <2>6. NumbersGoUp(c)'
    BY <1>1, <1>2, <1>5, <2>1 DEF NumbersGoUp, chunkVars
  <2> QED BY <2>1, <2>2, <2>3, <2>5, <2>6 DEF Conversation
<1>11. FeedInv'
  BY <1>6, <1>7, <1>8, <1>9, <1>10, OneKeeps
<1>12. Promise!Next
  <2>1. \A d \in Conns : /\ Stage(d)' = Stage(d) /\ InFlight(d)' = InFlight(d)
                         /\ Closed(d) => Closed(d)'
    BY <1>1, <1>4 DEF Stage, InFlight, Closed, clientVars
  <2> QED BY <2>1, PromiseHangsUp DEF clientVars
<1> QED BY <1>11, <1>12

\* The sender has been joined; the handler ends.
LEMMA JoinFeeds ==
  ASSUME SessionInv, FeedInv, NEW c \in Conns, Join(c), UNCHANGED clientVars
  PROVE  FeedInv' /\ Promise!Next
<1>1. /\ hpc[c] = "join" /\ hpc' = [hpc EXCEPT ![c] = "ended"]
      /\ hfd' = [hfd EXCEPT ![c] = NoFd]
      /\ queue' = [queue EXCEPT ![c] = << >>]
      /\ UNCHANGED <<netVars, fdVars, daemon, chunkVars, spc, writing>>
  BY DEF Join, Goto
<1>2. /\ SessionTypeOK /\ FeedTypeOK /\ NextIsDue /\ TableOwn /\ LinksReferred
      /\ ThreadsIdle(c) /\ ClientPlace(c) /\ StreamKinds(c) /\ c \in Handlers
  BY DEF SessionInv, FeedInv, Conversation, Handlers
<1>3. hpc'[c] = "ended"
  BY <1>1, <1>2 DEF SessionTypeOK
<1>4. ASSUME NEW d \in Conns \ {c}
      PROVE  Untouched(d)
  <2>1. hpc'[d] = hpc[d] /\ hfd'[d] = hfd[d] /\ queue'[d] = queue[d]
    BY <1>1, <1>2 DEF SessionTypeOK, Handlers
  <2> QED BY <1>1, <2>1 DEF Untouched, Reaches, Target, netVars, fdVars,
                            chunkVars, clientVars
<1>5. FeedTypeOK' /\ NextIsDue'
  <2>1. queue' \in [Conns -> Seq(1 .. MaxChunk)]
    BY <1>1, <1>2 DEF FeedTypeOK
  <2>2. NextIsDue'
    BY <1>1, <1>2, ChunksKeep
  <2> QED BY <1>1, <1>2, <2>1, <2>2
          DEF FeedTypeOK, chunkVars, clientVars, netVars
<1>6. TableOwn'
  <2> SUFFICES ASSUME NEW fd \in Fds, table'[fd] # NoConn
               PROVE  hpc'[table'[fd]] \in Owning /\ hfd'[table'[fd]] = fd
    BY DEF TableOwn
  <2>1. table'[fd] = table[fd] /\ table[fd] \in Conns
    BY <1>1, <1>2 DEF SessionTypeOK, fdVars
  <2>2. hpc[table[fd]] \in Owning /\ hfd[table[fd]] = fd
    BY <1>2, <2>1 DEF TableOwn
  <2>3. table[fd] # c
    BY <1>1, <2>2 DEF Owning, Serving
  <2> QED BY <1>1, <1>2, <2>1, <2>2, <2>3 DEF SessionTypeOK, Handlers
<1>7. LinksReferred'
  BY <1>1, <1>2 DEF LinksReferred, Up, netVars, fdVars
<1>8. Conversation(c)'
  <2>1. StreamKinds(c)' /\ ClientPlace(c)'
    BY <1>1, <1>2 DEF StreamKinds, ClientPlace, clientVars, netVars
  <2>2. ThreadsIdle(c)'
    BY <1>1, <1>2, <1>3 DEF ThreadsIdle, chunkVars, netVars
  <2>3. link'[c] # "queued" /\ ~ Reaches(c)'
    BY <1>1, <1>2, <1>3 DEF ThreadsIdle, Reaches, Owning, Serving, netVars
  <2>4. WriterPlace(c)' /\ NumbersGoUp(c)'
    BY <2>3 DEF WriterPlace, NumbersGoUp
  <2> QED BY <2>1, <2>2, <2>4 DEF Conversation
<1>9. FeedInv'
  BY <1>4, <1>5, <1>6, <1>7, <1>8, OneKeeps
<1>10. Promise!Next
  <2>1. \A d \in Conns : /\ Stage(d)' = Stage(d) /\ InFlight(d)' = InFlight(d)
                         /\ Closed(d) => Closed(d)'
    BY <1>1 DEF Stage, InFlight, Closed, netVars, clientVars
  <2> QED BY <2>1, PromiseHangsUp DEF clientVars
<1> QED BY <1>9, <1>10

-----------------------------------------------------------------------------
(***************************************************************************)
(* Steps that write                                                        *)
(***************************************************************************)

\* The right segment is written behind the others.
LEMMA StreamWritten ==
  ASSUME FeedInv, NEW c \in Conns, NEW segment \in Segment,
         segment.kind = KindAt(Ahead(c)),
         toClient'[c] = Append(toClient[c], segment), UNCHANGED <<at, last>>
  PROVE  /\ StreamKinds(c)' /\ Ahead(c) \in Nat /\ Ahead(c)' = Ahead(c) + 1
         /\ segment.kind # "body" =>
              InFlight(c)' = InFlight(c) /\ Newest(c)' = Newest(c)
         /\ segment.kind = "body" =>
              /\ InFlight(c)' = Append(InFlight(c), segment.no)
              /\ Newest(c)' = segment.no
<1> DEFINE p == Phase(at[c])
           s == toClient[c]
<1>1. p \in 1 .. 5 /\ Placed(s, p) /\ InFlight(c) \in Seq(Nat)
  BY NewestType DEF FeedInv, Conversation, StreamKinds
<1>2. s \in Seq(Segment) /\ Len(s) \in Nat /\ Len(Append(s, segment)) = Len(s) + 1
  BY <1>1, LenProperties, AppendProperties DEF Placed
<1>3. segment.kind = KindAt(p + Len(s))
  BY DEF Ahead
<1>4. p' = p
  OBVIOUS
<1>5. Ahead(c) \in Nat /\ Ahead(c)' = Ahead(c) + 1
  BY <1>1, <1>2, <1>4 DEF Ahead
<1>6. InFlight(c)' = DataSets(Append(s, segment))
  BY DEF InFlight
<1> HIDE DEF p, s
<1>7. /\ Placed(Append(s, segment), p)
      /\ segment.kind # "body" => DataSets(Append(s, segment)) = DataSets(s)
      /\ segment.kind = "body" =>
           DataSets(Append(s, segment)) = Append(DataSets(s), segment.no)
  BY <1>1, <1>3, AppendPlaced
<1>8. StreamKinds(c)'
  BY <1>7 DEF StreamKinds, p, s
<1>9. segment.kind # "body" =>
        InFlight(c)' = InFlight(c) /\ Newest(c)' = Newest(c)
  BY <1>6, <1>7 DEF InFlight, Newest, s
<1>10. ASSUME segment.kind = "body"
       PROVE  /\ InFlight(c)' = Append(InFlight(c), segment.no)
              /\ Newest(c)' = segment.no
  <2>1. InFlight(c)' = Append(InFlight(c), segment.no)
    BY <1>6, <1>7, <1>10 DEF InFlight, s
  <2>2. segment.no \in Nat
    BY DEF Segment
  <2>3. /\ Append(InFlight(c), segment.no) # << >>
        /\ Append(InFlight(c), segment.no)
             [Len(Append(InFlight(c), segment.no))] = segment.no
    BY <1>1, <2>2, AppendProperties
  <2> QED BY <2>1, <2>3 DEF Newest
<1> QED BY <1>5, <1>8, <1>9, <1>10

LEMMA KindsAhead ==
  /\ KindAt(1) = "welcome" /\ KindAt(2) = "rate"
  /\ \A a \in Nat, s \in Writers :
       a >= 3 /\ a % 3 = SenderPhase[s] =>
         KindAt(a) = s /\ (a + 1) % 3 = SenderPhase[NextWrite[s]]
<1>1. KindAt(1) = "welcome" /\ KindAt(2) = "rate"
  BY DEF KindAt
<1>2. ASSUME NEW a \in Nat, NEW s \in Writers, a >= 3, a % 3 = SenderPhase[s]
      PROVE  KindAt(a) = s /\ (a + 1) % 3 = SenderPhase[NextWrite[s]]
  <2>1. CASE s = "magic"
    BY <1>2, <2>1 DEF KindAt, SenderPhase, NextWrite
  <2>2. CASE s = "length"
    BY <1>2, <2>2 DEF KindAt, SenderPhase, NextWrite
  <2>3. CASE s = "body"
    BY <1>2, <2>3 DEF KindAt, SenderPhase, NextWrite
  <2> QED BY <2>1, <2>2, <2>3 DEF Writers, NextWrite
<1> QED BY <1>1, <1>2

\* While the invariant holds no other link is closed by the end of a write.
LEMMA LinksStay ==
  ASSUME FeedTypeOK, LinksReferred, NEW c \in Conns \cup {NoConn},
         \A h \in Conns : held[h] # c => held'[h] = held[h]
  PROVE  \A d \in Conns : LET l == LinksWith(table, held')[d]
                          IN  /\ d # c => l = link[d]
                              /\ l # link[d] =>
                                   link[d] = "open" /\ l \in {"fin", "rst"}
                              /\ l \in {"none", "queued", "open", "fin", "rst"}
                              /\ l = "open" =>
                                   \/ \E fd \in Fds : table[fd] = d
                                   \/ \E h \in Conns : held'[h] = d
<1> SUFFICES ASSUME NEW d \in Conns
             PROVE  LET l == LinksWith(table, held')[d]
                    IN  /\ d # c => l = link[d]
                        /\ l # link[d] =>
                             link[d] = "open" /\ l \in {"fin", "rst"}
                        /\ l \in {"none", "queued", "open", "fin", "rst"}
                        /\ l = "open" =>
                             \/ \E fd \in Fds : table[fd] = d
                             \/ \E h \in Conns : held'[h] = d
  OBVIOUS
<1>1. LinksWith(table, held')[d] =
        IF \/ link[d] # "open"
           \/ \E fd \in Fds : table[fd] = d
           \/ \E h \in Conns : held'[h] = d
          THEN link[d] ELSE IF toServer[d] > 0 THEN "rst" ELSE "fin"
  BY DEF LinksWith
<1>2. link[d] = "open" /\ d # c =>
        \/ \E fd \in Fds : table[fd] = d
        \/ \E h \in Conns : held'[h] = d
  <2>1. \A h \in Conns : held[h] = d /\ d # c => held'[h] = d
    OBVIOUS
  <2> QED BY <2>1 DEF LinksReferred
<1>3. link[d] \in {"none", "queued", "open", "fin", "rst"}
  BY DEF FeedTypeOK
<1> QED BY <1>1, <1>2, <1>3

\* A write to a client that has gone resets the link; the client sees nothing
\* of it.
LEMMA VainWriteFeeds ==
  ASSUME SessionInv, FeedInv, Up, NEW c \in Conns, NEW target \in Conns,
         target \in gone, link[target] = "open", UNCHANGED clientVars,
         toClient' = [toClient EXCEPT ![target] = << >>],
         link' = [link EXCEPT ![target] = "rst"],
         held' = held \/ held' = [held EXCEPT ![c] = NoConn],
         held[c] \in {NoConn, target},
         UNCHANGED <<gone, table, hfd, daemon, chunkVars, queue>>,
         \A d \in Conns \ {c} : /\ hpc'[d] = hpc[d] /\ spc'[d] = spc[d]
                                /\ writing'[d] = writing[d],
         hpc[c] \in Owning => hpc'[c] \in Owning,
         \A d \in Conns : writing'[d] # 0 => writing'[d] \in 1 .. MaxChunk,
         ThreadsIdle(c)', link'[c] # "queued", ~ Reaches(c)'
  PROVE  FeedInv' /\ Promise!Next
<1>1. /\ SessionTypeOK /\ FeedTypeOK /\ NextIsDue /\ TableOwn /\ LinksReferred
      /\ ClientPlace(c) /\ StreamKinds(c) /\ ClientPlace(target)
  BY DEF SessionInv, FeedInv, Conversation
<1>2. toClient' = toClient
  <2>1. toClient[target] = << >>
    BY <1>1 DEF ClientPlace
  <2> QED BY <1>1, <2>1 DEF SessionTypeOK
<1>3. \A d \in Conns : /\ d # target => link'[d] = link[d]
                       /\ link'[d] # link[d] => link[d] = "open" /\ link'[d] = "rst"
  BY <1>1 DEF FeedTypeOK
<1>4. ASSUME NEW d \in Conns \ {c}
      PROVE  Untouched(d)
  <2>1. held'[d] = held[d]
    BY <1>1 DEF SessionTypeOK
  <2> QED BY <1>2, <1>3, <2>1 DEF Untouched, Reaches, Target, chunkVars, clientVars
<1>5. FeedTypeOK' /\ NextIsDue'
  <2>1. link' \in [Conns -> {"none", "queued", "open", "fin", "rst"}]
    BY <1>1 DEF FeedTypeOK
  <2>2. NextIsDue'
    BY <1>1, ChunksKeep
  <2> QED BY <1>1, <2>1, <2>2 DEF FeedTypeOK, chunkVars, clientVars
<1>6. TableOwn'
  <2> SUFFICES ASSUME NEW fd \in Fds, table'[fd] # NoConn
               PROVE  hpc'[table'[fd]] \in Owning /\ hfd'[table'[fd]] = fd
    BY DEF TableOwn
  <2>1. table[fd] \in Conns /\ hpc[table[fd]] \in Owning /\ hfd[table[fd]] = fd
    BY <1>1 DEF TableOwn, SessionTypeOK
  <2> QED BY <2>1
<1>7. LinksReferred'
  <2> SUFFICES ASSUME NEW d \in Conns, link'[d] \in {"queued", "open"}
               PROVE  /\ Up'
                      /\ link'[d] = "open" =>
                           \/ \E n \in Fds : table'[n] = d
                           \/ \E h \in Conns : held'[h] = d
    BY DEF LinksReferred
  <2>1. d # target /\ link[d] = link'[d]
    BY <1>1, <1>3 DEF FeedTypeOK
  <2>2. \A h \in Conns : held[h] = d => held'[h] = d
    BY <1>1, <2>1, ConnAssumption DEF SessionTypeOK
  <2> QED BY <1>1, <2>1, <2>2 DEF LinksReferred, Up
<1>8. Conversation(c)'
  <2>1. StreamKinds(c)' /\ ClientPlace(c)'
    BY <1>1, <1>2, <1>3 DEF StreamKinds, ClientPlace, clientVars
  <2>2. WriterPlace(c)' /\ NumbersGoUp(c)'
    BY DEF WriterPlace, NumbersGoUp
  <2> QED BY <2>1, <2>2 DEF Conversation
<1>9. FeedInv'
  BY <1>4, <1>5, <1>6, <1>7, <1>8, OneKeeps
<1>10. Promise!Next
  <2>1. \A d \in Conns : /\ Stage(d)' = Stage(d) /\ InFlight(d)' = InFlight(d)
                         /\ Closed(d) => Closed(d)'
    BY <1>2, <1>3 DEF Stage, InFlight, Closed, clientVars
  <2> QED BY <2>1, PromiseHangsUp DEF clientVars
<1> QED BY <1>9, <1>10

\* A write to the writer's own client, seen from the other connections
LEMMA OwnWriteKeeps ==
  ASSUME SessionInv, FeedInv, Up, NEW c \in Conns, UNCHANGED clientVars,
         \A d \in Conns \ {c} : toClient'[d] = toClient[d],
         link' = LinksWith(table, held'),
         held' = held \/ held' = [held EXCEPT ![c] = NoConn],
         held[c] \in {NoConn, c},
         UNCHANGED <<gone, table, hfd, daemon, chunkVars, queue>>,
         \A d \in Conns \ {c} : /\ hpc'[d] = hpc[d] /\ spc'[d] = spc[d]
                                /\ writing'[d] = writing[d],
         hpc[c] \in Owning => hpc'[c] \in Owning,
         \A d \in Conns : writing'[d] # 0 => writing'[d] \in 1 .. MaxChunk
  PROVE  /\ Conversation(c)' => FeedInv'
         /\ \A d \in Conns \ {c} : Untouched(d) /\ link'[d] = link[d]
         /\ link'[c] # link[c] => link[c] = "open" /\ link'[c] \in {"fin", "rst"}
<1>1. /\ SessionTypeOK /\ FeedTypeOK /\ NextIsDue /\ TableOwn /\ LinksReferred
  BY DEF SessionInv, FeedInv
<1>2. \A h \in Conns : held[h] # c => held'[h] = held[h]
  BY <1>1 DEF SessionTypeOK
<1>3. \A d \in Conns : /\ d # c => link'[d] = link[d]
                       /\ link'[d] # link[d] =>
                            link[d] = "open" /\ link'[d] \in {"fin", "rst"}
                       /\ link'[d] \in {"none", "queued", "open", "fin", "rst"}
                       /\ link'[d] = "open" =>
                            \/ \E fd \in Fds : table[fd] = d
                            \/ \E h \in Conns : held'[h] = d
  BY <1>1, <1>2, LinksStay
<1>4. ASSUME NEW d \in Conns \ {c}
      PROVE  Untouched(d)
  <2>1. held'[d] = held[d]
    BY <1>1 DEF SessionTypeOK
  <2> QED BY <1>3, <2>1 DEF Untouched, Reaches, Target, chunkVars, clientVars
<1>5. FeedTypeOK' /\ NextIsDue'
  <2>1. link' = [d \in Conns |-> link'[d]]
    BY DEF LinksWith
  <2>2. link' \in [Conns -> {"none", "queued", "open", "fin", "rst"}]
    BY <1>3, <2>1
  <2>3. NextIsDue'
    BY <1>1, ChunksKeep
  <2> QED BY <1>1, <2>2, <2>3 DEF FeedTypeOK, chunkVars, clientVars
<1>6. TableOwn'
  <2> SUFFICES ASSUME NEW fd \in Fds, table'[fd] # NoConn
               PROVE  hpc'[table'[fd]] \in Owning /\ hfd'[table'[fd]] = fd
    BY DEF TableOwn
  <2>1. table[fd] \in Conns /\ hpc[table[fd]] \in Owning /\ hfd[table[fd]] = fd
    BY <1>1 DEF TableOwn, SessionTypeOK
  <2> QED BY <2>1
<1>7. LinksReferred'
  BY <1>1, <1>3 DEF LinksReferred, Up
<1>8. Conversation(c)' => FeedInv'
  BY <1>4, <1>5, <1>6, <1>7, OneKeeps
<1> QED BY <1>3, <1>4, <1>8

\* The welcome message and the rate
LEMMA GreetFeeds ==
  ASSUME SessionInv, FeedInv, Up, NEW c \in Conns, UNCHANGED clientVars,
         Greet(c, "welcome", "rate") \/ Greet(c, "rate", "loop")
  PROVE  FeedInv' /\ Promise!Next
<1>1. /\ SessionTypeOK /\ FeedTypeOK /\ ThreadsIdle(c) /\ ClientPlace(c)
      /\ WriterPlace(c) /\ NumbersGoUp(c) /\ c \in Handlers
  BY DEF SessionInv, FeedInv, Conversation, Handlers
<1>2. PICK to \in {"rate", "loop"} :
        /\ hpc' = [hpc EXCEPT ![c] = to]
        /\ hpc[c] = IF to = "rate" THEN "welcome" ELSE "rate"
  BY DEF Greet, Goto
<1>3. /\ table[hfd[c]] = c /\ held[c] \in {NoConn, c} /\ hfd[c] \in Fds
      /\ Target(c) = c
  BY <1>2 DEF SessionInv, OwnDescriptor, SleepersOwn, Owning, Serving, Target
<1> DEFINE segment == [kind |-> Greeting[hpc[c]], no |-> 0, from |-> c]
<1>4. /\ CanWrite(c) /\ Written(c, segment)
      /\ UNCHANGED <<held, daemon, chunkVars, hfd, senderVars>>
  BY <1>3 DEF Greet, Goto
<1>5. /\ link[c] = "open" /\ UNCHANGED <<gone, table>>
      /\ hpc'[c] = to /\ to \in Owning /\ hpc[c] \in Owning
      /\ \A d \in Conns \ {c} : hpc'[d] = hpc[d]
  BY <1>1, <1>2, <1>4 DEF CanWrite, Written, SessionTypeOK, Handlers, Owning,
                          Serving
<1>6. CASE c \in gone
  <2>1. /\ toClient' = [toClient EXCEPT ![c] = << >>]
        /\ link' = [link EXCEPT ![c] = "rst"]
    BY <1>4, <1>6 DEF Written
  <2>2. link'[c] = "rst"
    BY <1>1, <2>1 DEF FeedTypeOK
  <2>3. ~ Reaches(c)' /\ link'[c] # "queued"
    BY <2>2 DEF Reaches
  <2>4. ThreadsIdle(c)'
    BY <1>1, <1>2, <1>4, <1>5, <2>2 DEF ThreadsIdle, chunkVars, senderVars
  <2> QED BY <1>1, <1>3, <1>4, <1>5, <1>6, <2>1, <2>3, <2>4, VainWriteFeeds
          DEF senderVars, FeedTypeOK
<1>7. CASE c \notin gone
  <2>1. /\ toClient' = [toClient EXCEPT ![c] = Append(@, segment)]
        /\ link' = LinksWith(table, held')
    BY <1>4, <1>7 DEF Written
  <2>2. /\ toClient'[c] = Append(toClient[c], segment)
        /\ \A d \in Conns \ {c} : toClient'[d] = toClient[d]
    BY <1>1, <2>1 DEF SessionTypeOK
  <2>3. /\ Conversation(c)' => FeedInv'
        /\ \A d \in Conns \ {c} : Untouched(d) /\ link'[d] = link[d]
        /\ link'[c] # link[c] => link[c] = "open" /\ link'[c] \in {"fin", "rst"}
    BY <1>1, <1>3, <1>4, <1>5, <2>1, <2>2, OwnWriteKeeps
       DEF senderVars, FeedTypeOK
  <2>4. Reaches(c)
    BY <1>3, <1>5, <1>7 DEF Reaches
  <2>5. Ahead(c) = IF to = "rate" THEN 1 ELSE 2
    BY <1>1, <1>2, <2>4 DEF WriterPlace, InTurn
  <2>6. /\ segment \in Segment /\ segment.kind = KindAt(Ahead(c))
        /\ segment.kind # "body"
    BY <1>2, <2>5, KindsAhead DEF Segment, Greeting
  <2>7. /\ StreamKinds(c)' /\ Ahead(c)' = Ahead(c) + 1
        /\ InFlight(c)' = InFlight(c) /\ Newest(c)' = Newest(c)
    <3> HIDE DEF segment
    <3> QED BY <2>2, <2>6, StreamWritten DEF clientVars
  <2>8. ThreadsIdle(c)'
    BY <1>1, <1>2, <1>4, <1>5, <2>3 DEF ThreadsIdle, chunkVars, senderVars
  <2>9. ClientPlace(c)'
    BY <1>1, <1>5, <1>7, <2>3 DEF ClientPlace, clientVars
  <2>10. WriterPlace(c)'
    <3>1. spc[c] \in {"off", "loop", "take", "ended"} /\ spc' = spc
      BY <1>1, <1>2, <1>4 DEF ThreadsIdle, SessionTypeOK, senderVars
    <3>2. Ahead(c)' = IF to = "rate" THEN 2 ELSE 3
      BY <2>5, <2>7
    <3> QED BY <1>5, <3>1, <3>2 DEF WriterPlace, InTurn, SenderPhase
  <2>11. NumbersGoUp(c)'
    BY <1>1, <1>4, <2>4, <2>7 DEF NumbersGoUp, chunkVars, senderVars
  <2>12. FeedInv'
    BY <2>3, <2>7, <2>8, <2>9, <2>10, <2>11 DEF Conversation
  <2>13. Promise!Next
    <3>1. /\ Stage(c)' = Stage(c)
          /\ Closed(c) => Closed(c)'
      BY <1>5, <2>3 DEF Stage, Closed, clientVars
    <3>2. \A d \in Conns : /\ Stage(d)' = Stage(d) /\ InFlight(d)' = InFlight(d)
                           /\ Closed(d) => Closed(d)'
      BY <2>3, <2>7, <3>1, UntouchedPromise
    <3> QED BY <3>2, PromiseHangsUp DEF clientVars
  <2> QED BY <2>12, <2>13
<1> QED BY <1>6, <1>7

\* What a sender is known to be when it writes
LEMMA WriterFacts ==
  ASSUME SessionInv, FeedInv, Up, NEW c \in Conns, spc[c] \in Writers
  PROVE  /\ writing[c] \in 1 .. MaxChunk /\ writing[c] \in Nat \ {0}
         /\ hpc[c] \in (Serving \cup {"join"}) \ {"welcome", "rate"}
         /\ hfd[c] \in Fds /\ link[c] \notin {"none", "queued"}
         /\ Target(c) # c => hpc[c] = "join" /\ table[hfd[c]] # c
<1>1. /\ FeedTypeOK /\ ThreadsIdle(c) /\ TableOwn /\ SessionTypeOK
  BY DEF SessionInv, FeedInv, Conversation
<1>2. writing[c] \in 1 .. MaxChunk
  BY <1>1 DEF ThreadsIdle, FeedTypeOK
<1>3. hpc[c] \in (Serving \cup {"join"}) \ {"welcome", "rate"}
  <2>1. spc[c] \notin {"off", "ended"}
    BY DEF Writers, NextWrite
  <2>2. hpc[c] \in Serving \cup {"join"}
    BY <2>1 DEF SessionInv, SendersServe
  <2> QED BY <1>1, <2>2 DEF ThreadsIdle
<1>4. hfd[c] \in Fds
  BY <1>3 DEF SessionInv, OwnDescriptor, NumberKept, Owning
<1>5. link[c] \notin {"none", "queued"}
  BY <1>1, <1>3 DEF ThreadsIdle, Serving
<1>6. ASSUME Target(c) # c
      PROVE  hpc[c] = "join" /\ table[hfd[c]] # c
  <2>1. hpc[c] = "join"
    BY <1>6, TargetOwn
  <2>2. table[hfd[c]] = c => hpc[c] \in Owning
    BY <1>1, <1>4, ConnAssumption DEF TableOwn
  <2> QED BY <2>1, <2>2 DEF Owning, Serving
<1>7. writing[c] \in Nat \ {0}
  BY <1>2
<1> QED BY <1>2, <1>3, <1>4, <1>5, <1>6, <1>7

\* A segment of a data set that still reaches the client
LEMMA OwnWriteFeeds ==
  ASSUME SessionInv, FeedInv, Up, NEW c \in Conns, UNCHANGED clientVars,
         SenderWrites(c), Target(c) = c, c \notin gone
  PROVE  FeedInv' /\ Promise!Next
<1> DEFINE segment == [kind |-> spc[c], no |-> writing[c], from |-> c]
<1>1. /\ SessionTypeOK /\ FeedTypeOK /\ ThreadsIdle(c) /\ ClientPlace(c)
      /\ WriterPlace(c) /\ NumbersGoUp(c)
  BY DEF SessionInv, FeedInv, Conversation
<1>2. spc[c] \in Writers
  BY DEF SenderWrites, Writers
<1>3. /\ writing[c] \in 1 .. MaxChunk /\ writing[c] \in Nat \ {0}
      /\ hpc[c] \in (Serving \cup {"join"}) \ {"welcome", "rate"}
  BY <1>2, WriterFacts
<1>4. /\ link[c] = "open" /\ held[c] \in {NoConn, c}
      /\ held' = [held EXCEPT ![c] = NoConn]
      /\ toClient' = [toClient EXCEPT ![c] = Append(@, segment)]
      /\ link' = LinksWith(table, held')
      /\ spc' = [spc EXCEPT ![c] = NextWrite[spc[c]]]
      /\ writing' = [writing EXCEPT ![c] = IF spc[c] = "body" THEN 0 ELSE @]
      /\ UNCHANGED <<gone, table, daemon, chunkVars, handlerVars, queue>>
  BY DEF SenderWrites, CanWrite, Written, Target
<1>5. /\ spc'[c] = NextWrite[spc[c]]
      /\ writing'[c] = IF spc[c] = "body" THEN 0 ELSE writing[c]
      /\ toClient'[c] = Append(toClient[c], segment)
      /\ \A d \in Conns \ {c} : toClient'[d] = toClient[d] /\ hpc'[d] = hpc[d]
                                /\ spc'[d] = spc[d] /\ writing'[d] = writing[d]
  BY <1>1, <1>4 DEF SessionTypeOK, handlerVars
<1>6. \A d \in Conns : writing'[d] # 0 => writing'[d] \in 1 .. MaxChunk
  BY <1>1, <1>3, <1>5 DEF FeedTypeOK
<1>7. /\ Conversation(c)' => FeedInv'
      /\ \A d \in Conns \ {c} : Untouched(d) /\ link'[d] = link[d]
      /\ link'[c] # link[c] => link[c] = "open" /\ link'[c] \in {"fin", "rst"}
  BY <1>4, <1>5, <1>6, OwnWriteKeeps DEF handlerVars
<1>8. Reaches(c)
  BY <1>3, <1>4 DEF Reaches, Owning
<1>9. Ahead(c) >= 3 /\ Ahead(c) % 3 = SenderPhase[spc[c]]
  BY <1>1, <1>2, <1>3, <1>8 DEF WriterPlace, InTurn, Writers, NextWrite
<1>10. Ahead(c) \in Nat
  <2>1. Phase(at[c]) \in 1 .. 5 /\ Len(toClient[c]) \in Nat
    BY <1>1, NewestType DEF SessionTypeOK
  <2> QED BY <2>1 DEF Ahead
<1>11. /\ segment \in Segment /\ segment.kind = KindAt(Ahead(c))
       /\ (Ahead(c) + 1) % 3 = SenderPhase[NextWrite[spc[c]]]
       /\ segment.kind = spc[c] /\ segment.no = writing[c]
  BY <1>2, <1>3, <1>9, <1>10, KindsAhead DEF Segment
<1>12. /\ StreamKinds(c)' /\ Ahead(c)' = Ahead(c) + 1
       /\ spc[c] # "body" =>
            InFlight(c)' = InFlight(c) /\ Newest(c)' = Newest(c)
       /\ spc[c] = "body" =>
            /\ InFlight(c)' = Append(InFlight(c), writing[c])
            /\ Newest(c)' = writing[c]
  <2> HIDE DEF segment
  <2> QED BY <1>5, <1>11, StreamWritten DEF clientVars
<1>13. ThreadsIdle(c)'
  <2>1. IF spc[c] = "body" THEN spc'[c] = "loop" ELSE spc'[c] \in Writers
    BY <1>2, <1>5 DEF Writers, NextWrite
  <2>2. spc'[c] \in Writers <=> spc[c] # "body"
    BY <2>1 DEF Writers, NextWrite
  <2>3. /\ hpc'[c] = hpc[c] /\ link'[c] \notin {"none", "queued"}
        /\ writing'[c] # 0 <=> spc[c] # "body"
    BY <1>3, <1>4, <1>5, <1>7 DEF handlerVars
  <2> QED BY <1>3, <2>2, <2>3 DEF ThreadsIdle, Serving
<1>14. ClientPlace(c)'
  BY <1>1, <1>4, <1>7 DEF ClientPlace, clientVars
<1>15. WriterPlace(c)'
  <2>1. Ahead(c)' >= 3 /\ Ahead(c)' % 3 = SenderPhase[spc'[c]]
    BY <1>5, <1>9, <1>10, <1>11, <1>12
  <2>2. hpc'[c] \notin {"off", "request", "welcome", "rate"}
    BY <1>3, <1>4 DEF handlerVars, Serving
  <2> QED BY <2>1, <2>2 DEF WriterPlace, InTurn
<1>16. NumbersGoUp(c)'
  <2>1. /\ Chain(Newest(c), writing[c], queue[c])
        /\ c \in subs => got[c] = ChainEnd(Newest(c), writing[c], queue[c])
    BY <1>1, <1>2, <1>8 DEF NumbersGoUp, Writers, NextWrite
  <2>2. CASE spc[c] # "body"
    BY <1>4, <1>5, <1>12, <2>1, <2>2 DEF NumbersGoUp, chunkVars
  <2>3. CASE spc[c] = "body"
    <3>1. Newest(c) \in Nat
      BY NewestType
    <3>2. /\ Chain(writing[c], 0, queue[c])
          /\ ChainEnd(writing[c], 0, queue[c])
               = ChainEnd(Newest(c), writing[c], queue[c])
      BY <1>3, <2>1, <3>1, ChainPuts
    <3> QED BY <1>4, <1>5, <1>12, <2>1, <2>3, <3>2 DEF NumbersGoUp, chunkVars
  <2> QED BY <2>2, <2>3
<1>17. FeedInv'
  BY <1>7, <1>12, <1>13, <1>14, <1>15, <1>16 DEF Conversation
<1>18. Stage(c)' = Stage(c) /\ Stage(c) \in {"out", "in"} /\ ~ Closed(c)
  <2>1. at[c] \notin Ended \cup {"garbled"} /\ at'[c] = at[c]
    BY <1>1, <1>4 DEF ClientPlace, clientVars
  <2> QED BY <1>4, <2>1 DEF Stage, Closed, Ended
<1>19. Promise!Next
  <2>1. CASE spc[c] # "body"
    <3>1. \A d \in Conns : /\ Stage(d)' = Stage(d) /\ InFlight(d)' = InFlight(d)
                           /\ Closed(d) => Closed(d)'
      BY <1>7, <1>12, <1>18, <2>1, UntouchedPromise
    <3> QED BY <3>1, PromiseHangsUp DEF clientVars
  <2>2. CASE spc[c] = "body"
    <3>1. OthersStay(c)
      BY <1>7, UntouchedPromise DEF OthersStay
    <3>2. Follows(Newest(c), writing[c])
      BY <1>1, <1>2, <1>3, <1>8 DEF NumbersGoUp, Chain, Writers, NextWrite
    <3>3. Promise!Newest(c) = Newest(c)
      BY DEF Promise!Newest, Newest, InFlight
    <3>4. Promise!Newest(c) # 0 => writing[c] = Promise!After(Promise!Newest(c))
      BY <3>2, <3>3 DEF Follows, Chunks!Tick, Promise!After
    <3> QED BY <1>3, <1>12, <1>18, <2>2, <3>1, <3>4, PromisePuts DEF clientVars
  <2> QED BY <2>1, <2>2
<1> QED BY <1>17, <1>19

\* A sender's write, in a step that spoils no stream
LEMMA SenderWritesFeeds ==
  ASSUME SessionInv, FeedInv, Up, NEW c \in Conns, UNCHANGED clientVars,
         SenderWrites(c), NoStranger
  PROVE  FeedInv' /\ Promise!Next
<1> DEFINE segment == [kind |-> spc[c], no |-> writing[c], from |-> c]
<1>1. SessionTypeOK /\ FeedTypeOK /\ ThreadsIdle(c)
  BY DEF SessionInv, FeedInv, Conversation
<1>2. spc[c] \in Writers
  BY DEF SenderWrites, Writers
<1>3. /\ writing[c] \in 1 .. MaxChunk /\ writing[c] \in Nat \ {0}
      /\ hpc[c] \in (Serving \cup {"join"}) \ {"welcome", "rate"}
      /\ hfd[c] \in Fds /\ link[c] \notin {"none", "queued"}
      /\ Target(c) # c => hpc[c] = "join" /\ table[hfd[c]] # c
  BY <1>2, WriterFacts
<1>4. PICK target \in Conns : target = Target(c)
  BY <1>2, TargetIsConn DEF SenderWrites, CanWrite
<1>5. /\ link[target] = "open" /\ held[c] \in {NoConn, target}
      /\ held' = [held EXCEPT ![c] = NoConn]
      /\ Written(target, segment)
      /\ spc' = [spc EXCEPT ![c] = NextWrite[spc[c]]]
      /\ writing' = [writing EXCEPT ![c] = IF spc[c] = "body" THEN 0 ELSE @]
      /\ UNCHANGED <<gone, table, daemon, chunkVars, handlerVars, queue>>
  BY <1>4 DEF SenderWrites, CanWrite, Written, Target
<1>6. CASE target = c /\ c \notin gone
  BY <1>4, <1>6, OwnWriteFeeds
<1>7. CASE target # c /\ target \notin gone
  <2>1. toClient' = [toClient EXCEPT ![target] = Append(@, segment)]
    BY <1>5, <1>7 DEF Written
  <2>2. toClient[target] \in Seq(Segment) /\ segment \in Segment
    BY <1>1, <1>2, <1>3 DEF SessionTypeOK, Segment
  <2>3. toClient'[target] = Append(toClient[target], segment)
    BY <1>1, <2>1 DEF SessionTypeOK
  <2> HIDE DEF segment
  <2>4. /\ Len(toClient'[target]) > Len(toClient[target])
        /\ toClient'[target][Len(toClient'[target])] = segment
    BY <2>2, <2>3, AppendProperties, LenProperties
  <2>5. segment.from = target
    BY <2>4 DEF NoStranger
  <2> QED BY <1>7, <2>5 DEF segment
<1>8. CASE target \in gone
  <2>1. /\ toClient' = [toClient EXCEPT ![target] = << >>]
        /\ link' = [link EXCEPT ![target] = "rst"]
    BY <1>5, <1>8 DEF Written
  <2>2. /\ spc'[c] = NextWrite[spc[c]]
        /\ writing'[c] = IF spc[c] = "body" THEN 0 ELSE writing[c]
        /\ \A d \in Conns \ {c} : hpc'[d] = hpc[d] /\ spc'[d] = spc[d]
                                  /\ writing'[d] = writing[d]
    BY <1>1, <1>5 DEF SessionTypeOK, handlerVars
  <2>3. \A d \in Conns : writing'[d] # 0 => writing'[d] \in 1 .. MaxChunk
    BY <1>1, <1>3, <2>2 DEF FeedTypeOK
  <2>4. ThreadsIdle(c)'
    <3>1. spc'[c] \in Writers <=> spc[c] # "body"
      BY <1>2, <2>2 DEF Writers, NextWrite
    <3>2. /\ hpc'[c] = hpc[c] /\ link'[c] \notin {"none", "queued"}
          /\ writing'[c] # 0 <=> spc[c] # "body"
      BY <1>1, <1>3, <1>5, <2>1, <2>2 DEF handlerVars, FeedTypeOK
    <3> QED BY <1>3, <3>1, <3>2 DEF ThreadsIdle, Serving
  <2>5. link'[c] # "queued" /\ ~ Reaches(c)'
    <3>1. CASE target = c
      <4>1. link'[c] = "rst"
        BY <1>1, <2>1, <3>1 DEF FeedTypeOK
      <4> QED BY <4>1 DEF Reaches
    <3>2. CASE target # c
      <4>1. table'[hfd'[c]] # c /\ held'[c] = NoConn /\ link'[c] = link[c]
        BY <1>1, <1>3, <1>4, <1>5, <2>1, <3>2
           DEF SessionTypeOK, handlerVars, FeedTypeOK
      <4> QED BY <1>3, <4>1 DEF Reaches, Target
    <3> QED BY <3>1, <3>2
  <2> QED BY <1>5, <1>8, <2>1, <2>2, <2>3, <2>4, <2>5, VainWriteFeeds
          DEF handlerVars
<1> QED BY <1>6, <1>7, <1>8

\* The sender goes to sleep in a write.
LEMMA SenderSleepsFeeds ==
  ASSUME SessionInv, FeedInv, NEW c \in Conns, UNCHANGED clientVars,
         SenderSleeps(c)
  PROVE  FeedInv' /\ Promise!Next
<1>1. SessionTypeOK /\ FeedTypeOK /\ NextIsDue /\ TableOwn /\ LinksReferred
  BY DEF SessionInv, FeedInv
<1>2. /\ held' = [held EXCEPT ![c] = Target(c)] /\ held[c] = NoConn
      /\ Target(c) # NoConn
      /\ UNCHANGED <<netVars, table, daemon, chunkVars, handlerVars, senderVars>>
  BY DEF SenderSleeps, WriteSleeps
<1>3. \A d \in Conns : Target(d)' = Target(d)
  BY <1>1, <1>2 DEF Target, SessionTypeOK, handlerVars
<1>4. \A d \in Conns : Untouched(d)
  BY <1>2, <1>3 DEF Untouched, Reaches, netVars, chunkVars, handlerVars,
                    senderVars, clientVars
<1>5. FeedTypeOK' /\ NextIsDue'
  BY <1>1, <1>2, ChunksKeep
     DEF FeedTypeOK, netVars, chunkVars, senderVars, clientVars
<1>6. TableOwn'
  BY <1>1, <1>2 DEF TableOwn, handlerVars
<1>7. LinksReferred'
  <2>1. \A d, h \in Conns : held[h] = d => held'[h] = d
    BY <1>1, <1>2, ConnAssumption DEF SessionTypeOK
  <2> QED BY <1>1, <1>2, <2>1 DEF LinksReferred, Up, netVars
<1> QED BY <1>4, <1>5, <1>6, <1>7, AllKeep DEF clientVars

\* The sender's write is refused, and it ends.
LEMMA SenderFailsFeeds ==
  ASSUME SessionInv, FeedInv, Up, NEW c \in Conns, UNCHANGED clientVars,
         SenderFails(c)
  PROVE  FeedInv' /\ Promise!Next
<1>1. /\ SessionTypeOK /\ FeedTypeOK /\ NextIsDue /\ TableOwn /\ LinksReferred
      /\ ThreadsIdle(c) /\ ClientPlace(c) /\ StreamKinds(c)
  BY DEF SessionInv, FeedInv, Conversation
<1>2. /\ spc[c] \in Writers /\ spc' = [spc EXCEPT ![c] = "ended"]
      /\ writing' = [writing EXCEPT ![c] = 0]
      /\ held' = [held EXCEPT ![c] = NoConn]
      /\ held[c] # NoConn => link[held[c]] # "open"
      /\ UNCHANGED <<netVars, table, daemon, chunkVars, handlerVars, queue>>
  BY DEF SenderFails, Writers, WriteRefused, Target
<1>3. /\ hpc[c] \in (Serving \cup {"join"}) \ {"welcome", "rate"}
      /\ link[c] \notin {"none", "queued"}
  BY <1>2, WriterFacts
<1>4. /\ spc'[c] = "ended" /\ writing'[c] = 0
      /\ \A d \in Conns \ {c} : spc'[d] = spc[d] /\ writing'[d] = writing[d]
                                /\ held'[d] = held[d]
  BY <1>1, <1>2 DEF SessionTypeOK
<1>5. ASSUME NEW d \in Conns \ {c}
      PROVE  Untouched(d)
  BY <1>2, <1>4 DEF Untouched, Reaches, Target, netVars, chunkVars,
                    handlerVars, clientVars
<1>6. FeedTypeOK' /\ NextIsDue'
  <2>1. \A d \in Conns : writing'[d] # 0 => writing'[d] \in 1 .. MaxChunk
    BY <1>1, <1>4 DEF FeedTypeOK
  <2>2. NextIsDue'
    BY <1>1, <1>2, ChunksKeep
  <2> QED BY <1>1, <1>2, <2>1, <2>2 DEF FeedTypeOK, netVars, chunkVars, clientVars
<1>7. TableOwn'
  BY <1>1, <1>2 DEF TableOwn, handlerVars
<1>8. LinksReferred'
  <2>1. \A d, h \in Conns : link[d] = "open" /\ held[h] = d => held'[h] = d
    BY <1>1, <1>2, <1>4, ConnAssumption
  <2> QED BY <1>1, <1>2, <2>1 DEF LinksReferred, Up, netVars
<1>9. Conversation(c)'
  <2>1. StreamKinds(c)' /\ ClientPlace(c)'
    BY <1>1, <1>2 DEF StreamKinds, ClientPlace, clientVars, netVars
  <2>2. ThreadsIdle(c)'
    BY <1>1, <1>2, <1>3, <1>4
       DEF ThreadsIdle, chunkVars, netVars, handlerVars, Writers, NextWrite,
           Serving
  <2>3. WriterPlace(c)'
    BY <1>2, <1>3, <1>4 DEF WriterPlace, InTurn, handlerVars, Serving
  <2>4. NumbersGoUp(c)'
    BY <1>4 DEF NumbersGoUp
  <2> QED BY <2>1, <2>2, <2>3, <2>4 DEF Conversation
<1>10. FeedInv'
  BY <1>5, <1>6, <1>7, <1>8, <1>9, OneKeeps
<1>11. Promise!Next
  <2>1. \A d \in Conns : /\ Stage(d)' = Stage(d) /\ InFlight(d)' = InFlight(d)
                         /\ Closed(d) => Closed(d)'
    BY <1>2 DEF Stage, InFlight, Closed, netVars, clientVars
  <2> QED BY <2>1, PromiseHangsUp DEF clientVars
<1> QED BY <1>10, <1>11

\* Every step of a handler or a sender that spoils no stream
LEMMA ThreadFeeds ==
  ASSUME SessionInv, FeedInv, Up, NEW c \in Conns, UNCHANGED clientVars,
         HandlerStep(c) \/ SenderStep(c), NoStranger
  PROVE  FeedInv' /\ [Promise!Next]_(Promise!vars)
<1>1. CASE RequestAccepted(c)
  BY <1>1, RequestAcceptedFeeds
<1>2. CASE RequestRefused(c) \/ RequestFails(c)
  <2>1. /\ Goto(c, "request", "close")
        /\ UNCHANGED <<link, gone, toClient, fdVars, daemon, hfd, spc, queue,
                       writing, chunkVars>>
    BY <1>2 DEF RequestRefused, RequestFails, netVars, senderVars
  <2> QED BY <2>1, MoveFeeds
<1>3. CASE Greet(c, "welcome", "rate") \/ Greet(c, "rate", "loop")
  BY <1>3, GreetFeeds
<1>4. CASE GreetAborts(c)
  BY <1>4, EndFeeds DEF GreetAborts
<1>5. CASE Loop(c) \/ LeaveLoop(c)
  <2>1. /\ \E from \in {"loop", "wait"}, to \in {"wait", "leave"} :
             Goto(c, from, to)
        /\ UNCHANGED <<link, gone, toClient, fdVars, daemon, hfd, spc, queue,
                       writing, chunkVars>>
    BY <1>5 DEF Loop, LeaveLoop, netVars, senderVars
  <2> QED BY <2>1, MoveFeeds
<1>6. CASE Leave(c)
  <2>1. /\ Goto(c, "leave", "close") /\ Chunks!Unsubscribe(c)
        /\ UNCHANGED <<link, gone, toClient, fdVars, daemon, hfd, spc, queue,
                       writing>>
    BY <1>6 DEF Leave, netVars, senderVars
  <2> QED BY <2>1, MoveFeeds
<1>7. CASE Copy(c)
  BY <1>7, CopyFeeds
<1>8. CASE Close(c)
  BY <1>8, CloseFeeds
<1>9. CASE Join(c)
  BY <1>9, JoinFeeds
<1>10. CASE SenderLoop(c) \/ SenderReturns(c)
  BY <1>10, SenderMovesFeeds
<1>11. CASE SenderTakes(c)
  BY <1>11, SenderTakesFeeds
<1>12. CASE SenderWrites(c)
  BY <1>12, SenderWritesFeeds
<1>13. CASE SenderSleeps(c)
  BY <1>13, SenderSleepsFeeds
<1>14. CASE SenderFails(c)
  BY <1>14, SenderFailsFeeds
<1> QED BY <1>1, <1>2, <1>3, <1>4, <1>5, <1>6, <1>7, <1>8, <1>9, <1>10, <1>11,
           <1>12, <1>13, <1>14 DEF HandlerStep, SenderStep

-----------------------------------------------------------------------------
(***************************************************************************)
(* Steps of the client and the network                                     *)
(***************************************************************************)

\* What they leave alone
Outside(c) ==
  /\ UNCHANGED <<fdVars, serverVars>>
  /\ \A d \in Conns \ {c} :
       /\ at'[d] = at[d] /\ last'[d] = last[d] /\ toClient'[d] = toClient[d]
       /\ link'[d] = link[d] /\ (d \in gone' <=> d \in gone)
  /\ at' \in [Conns -> Places] /\ last' \in [Conns -> Nat]
  /\ gone' \subseteq Conns
  /\ link' \in [Conns -> {"none", "queued", "open", "fin", "rst"}]
  /\ link'[c] \in {"queued", "open"} => Up
  /\ link'[c] = "open" => link[c] = "open"

LEMMA OutsideKeeps ==
  ASSUME FeedInv, NEW c \in Conns, Outside(c)
  PROVE  /\ Conversation(c)' => FeedInv'
         /\ OthersStay(c)
         /\ c \notin gone => (Reaches(c)' => Reaches(c))
<1>1. /\ UNCHANGED <<table, held, hpc, hfd, daemon, spc, queue, writing>>
      /\ UNCHANGED chunkVars
  BY DEF Outside, fdVars, serverVars, handlerVars, senderVars
<1>2. \A d \in Conns \ {c} : Untouched(d)
  BY <1>1 DEF Outside, Untouched, Reaches, Target, chunkVars
<1>3. FeedTypeOK' /\ NextIsDue'
  <2>1. NextIsDue'
    BY <1>1, ChunksKeep DEF FeedInv
  <2> QED BY <1>1, <2>1 DEF FeedInv, FeedTypeOK, Outside, chunkVars
<1>4. TableOwn'
  BY <1>1 DEF FeedInv, TableOwn
<1>5. LinksReferred'
  <2> SUFFICES ASSUME NEW d \in Conns
               PROVE  /\ link'[d] \in {"queued", "open"} => Up'
                      /\ link'[d] = "open" =>
                           \/ \E fd \in Fds : table'[fd] = d
                           \/ \E h \in Conns : held'[h] = d
    BY DEF LinksReferred
  <2>1. /\ link'[d] \in {"queued", "open"} => Up
        /\ link'[d] = "open" => link[d] = "open"
    BY DEF Outside, FeedInv, LinksReferred
  <2> QED BY <1>1, <2>1 DEF FeedInv, LinksReferred, Up
<1>6. Conversation(c)' => FeedInv'
  BY <1>2, <1>3, <1>4, <1>5, OneKeeps
<1>7. OthersStay(c)
  BY <1>2, UntouchedPromise DEF OthersStay, Outside
<1>8. c \notin gone => (Reaches(c)' => Reaches(c))
  BY <1>1 DEF Reaches, Target, Outside
<1> QED BY <1>6, <1>7, <1>8

\* The request is written, and pm_read called: the client's place in the stream
\* stays where it is.
LEMMA ClientMovesFeeds ==
  ASSUME SessionInv, FeedInv, NEW c \in Conns, UNCHANGED <<fdVars, serverVars>>,
         \/ Connect(c) /\ Up
         \/ SendCount(c) \/ SendChannels(c) \/ CallRead(c)
  PROVE  FeedInv' /\ Promise!Next
<1>1. /\ FeedTypeOK /\ LinksReferred /\ ThreadsIdle(c) /\ ClientPlace(c)
      /\ StreamKinds(c) /\ WriterPlace(c) /\ NumbersGoUp(c)
  BY DEF FeedInv, Conversation
<1>2. PICK from \in {"off", "count", "channels", "loop"},
           to \in {"count", "channels", "welcome", "magic"} :
        /\ at[c] = from /\ at' = [at EXCEPT ![c] = to]
        /\ Phase(from) = Phase(to)
        /\ from \in {"off", "count", "channels"} <=>
             to \in {"count", "channels", "welcome"}
        /\ from = "off" => Connect(c) /\ Up
        /\ from # "off" => SendCount(c) \/ SendChannels(c) \/ CallRead(c)
  BY DEF Connect, SendCount, SendChannels, CallRead, Goes, Phase
<1>3. UNCHANGED <<gone, toClient, last>>
  BY DEF Connect, SendCount, SendChannels, CallRead, Goes, Connected,
         RequestSent, netVars
<1>4. /\ link' = link \/ link' = [link EXCEPT ![c] = link'[c]]
      /\ from = "off" => link[c] = "none" /\ link'[c] = "queued"
      /\ from # "off" =>
           link'[c] = link[c] \/ (link[c] = "fin" /\ link'[c] = "rst")
  <2>1. CASE from = "off"
    BY <1>1, <1>2, <2>1 DEF Connect, Connected, FeedTypeOK, ClientPlace
  <2>2. CASE from # "off"
    BY <1>1, <1>2, <2>2 DEF SendCount, SendChannels, CallRead, RequestSent,
                            netVars, FeedTypeOK
  <2> QED BY <2>1, <2>2
<1>5. /\ at'[c] = to /\ Phase(at'[c]) = Phase(at[c])
      /\ link[c] \in {"none", "queued", "open", "fin", "rst"}
  BY <1>1, <1>2 DEF FeedTypeOK
<1>6. Outside(c)
  <2>1. link'[c] \in {"none", "queued", "open", "fin", "rst"}
    BY <1>4, <1>5
  <2>2. /\ at' \in [Conns -> Places]
        /\ link' \in [Conns -> {"none", "queued", "open", "fin", "rst"}]
    BY <1>1, <1>2, <1>4, <2>1 DEF FeedTypeOK, Places, Behind
  <2>3. link'[c] \in {"queued", "open"} => Up
    BY <1>1, <1>2, <1>4 DEF LinksReferred
  <2> QED BY <1>1, <1>2, <1>3, <1>4, <2>2, <2>3 DEF Outside, FeedTypeOK
<1>7. c \notin gone /\ c \notin gone'
  BY <1>1, <1>2, <1>3 DEF ClientPlace, Ended
<1>8. /\ Ahead(c)' = Ahead(c) /\ Newest(c)' = Newest(c)
      /\ InFlight(c)' = InFlight(c)
  BY <1>3, <1>5 DEF Ahead, Newest, InFlight
<1>9. StreamKinds(c)'
  BY <1>1, <1>3, <1>5 DEF StreamKinds
<1>10. UNCHANGED <<hpc, spc, queue, writing, subs, got>>
  BY DEF serverVars, handlerVars, senderVars, chunkVars
<1>11. ThreadsIdle(c)'
  BY <1>1, <1>4, <1>10 DEF ThreadsIdle
<1>12. ClientPlace(c)'
  <2>1. /\ to \notin Ended \cup {"off", "garbled"}
        /\ from # "off" => link[c] # "none"
    BY <1>1, <1>2 DEF ClientPlace, Ended
  <2>2. link'[c] # "none"
    BY <1>4, <2>1
  <2> QED BY <1>1, <1>3, <1>5, <1>7, <2>1, <2>2 DEF ClientPlace, Ended
<1>13. WriterPlace(c)'
  <2>1. CASE from = "off"
    <3>1. hpc[c] = "off" /\ spc[c] = "off" /\ toClient[c] = << >>
      BY <1>1, <1>2, <1>4, <2>1 DEF ThreadsIdle, ClientPlace
    <3>2. Ahead(c) = 1
      BY <1>2, <2>1, <3>1 DEF Ahead, Phase
    <3> QED BY <1>8, <1>10, <3>1, <3>2 DEF WriterPlace, InTurn
  <2>2. CASE from # "off"
    <3>1. Reaches(c)' => Reaches(c)
      BY <1>6, <1>7, OutsideKeeps
    <3>2. link'[c] = "queued" => link[c] = "queued"
      BY <1>4, <2>2
    <3> QED BY <1>1, <1>7, <1>8, <1>10, <3>1, <3>2 DEF WriterPlace
  <2> QED BY <2>1, <2>2
<1>14. NumbersGoUp(c)'
  <2>1. Reaches(c)' => Reaches(c)
    BY <1>6, <1>7, OutsideKeeps
  <2> QED BY <1>1, <1>8, <1>10, <2>1 DEF NumbersGoUp
<1>15. FeedInv'
  BY <1>6, <1>9, <1>11, <1>12, <1>13, <1>14, OutsideKeeps DEF Conversation
<1>16. Promise!Next
  <2>1. Stage(c)' = Stage(c)
    BY <1>2, <1>5 DEF Stage, Ended
  <2>2. Closed(c) => Closed(c)'
    BY <1>2, <1>4 DEF Closed
  <2>3. OthersStay(c)
    BY <1>6, OutsideKeeps
  <2> QED BY <1>3, <1>8, <2>1, <2>2, <2>3, PromiseHangsUp DEF OthersStay
<1> QED BY <1>15, <1>16

\* The client's process ends or closes the connection.
LEMMA QuitsKeeps ==
  ASSUME SessionInv, FeedInv, NEW c \in Conns, UNCHANGED <<fdVars, serverVars>>,
         at[c] \notin Ended \cup {"off"}, NEW how \in Ended, Quits(c, how)
  PROVE  /\ FeedInv' /\ OthersStay(c) /\ at'[c] = how
         /\ InFlight(c)' = << >> /\ last' = [last EXCEPT ![c] = 0]
         /\ Closed(c) => Closed(c)'
<1>1. /\ SessionTypeOK /\ FeedTypeOK /\ LinksReferred /\ ThreadsIdle(c)
      /\ ClientPlace(c)
  BY DEF SessionInv, FeedInv, Conversation
<1>2. /\ at' = [at EXCEPT ![c] = how] /\ last' = [last EXCEPT ![c] = 0]
      /\ gone' = gone \cup {c} /\ toClient' = [toClient EXCEPT ![c] = << >>]
      /\ link' = [link EXCEPT ![c] = link'[c]]
      /\ link'[c] = link[c] \/ (link[c] = "open" /\ link'[c] = "rst")
  BY <1>1 DEF Quits, ClientCloses, FeedTypeOK
<1>3. /\ at'[c] = how /\ last'[c] = 0 /\ toClient'[c] = << >> /\ c \in gone'
      /\ link[c] \in {"none", "queued", "open", "fin", "rst"}
  BY <1>1, <1>2 DEF FeedTypeOK, SessionTypeOK
<1>4. Phase(how) = 1 /\ 1 \in 1 .. 5
  BY DEF Phase, Ended
<1>5. Outside(c)
  <2>1. link' \in [Conns -> {"none", "queued", "open", "fin", "rst"}]
    BY <1>1, <1>2, <1>3 DEF FeedTypeOK
  <2>2. link'[c] \in {"queued", "open"} => Up
    BY <1>1, <1>2 DEF LinksReferred
  <2>3. /\ at' \in [Conns -> Places] /\ last' \in [Conns -> Nat]
        /\ gone' \subseteq Conns
    BY <1>1, <1>2 DEF FeedTypeOK, Places
  <2> QED BY <1>1, <1>2, <2>1, <2>2, <2>3 DEF Outside, FeedTypeOK, SessionTypeOK
<1>6. StreamKinds(c)' /\ InFlight(c)' = << >>
  BY <1>3, <1>4, EmptyStream DEF StreamKinds, InFlight
<1>7. ThreadsIdle(c)'
  <2>1. UNCHANGED <<hpc, spc, queue, writing, subs>>
    BY DEF serverVars, handlerVars, senderVars, chunkVars
  <2> QED BY <1>1, <1>2, <2>1 DEF ThreadsIdle
<1>8. ClientPlace(c)'
  BY <1>1, <1>3 DEF ClientPlace, Ended
<1>9. WriterPlace(c)' /\ NumbersGoUp(c)'
  BY <1>3 DEF WriterPlace, NumbersGoUp, Reaches
<1>10. Closed(c) => Closed(c)'
  BY <1>2 DEF Closed
<1> QED BY <1>2, <1>3, <1>5, <1>6, <1>7, <1>8, <1>9, <1>10, OutsideKeeps
        DEF Conversation

\* The aborts, the ends of the stream, and the client that leaves
LEMMA ClientEndsFeeds ==
  ASSUME SessionInv, FeedInv, NEW c \in Conns, UNCHANGED <<fdVars, serverVars>>,
         SendCountAborts(c) \/ ReadEnds(c) \/ ReadFails(c) \/ ClientLeaves(c)
  PROVE  FeedInv' /\ Promise!Next
<1>1. FeedTypeOK /\ ClientPlace(c) /\ toClient \in [Conns -> Seq(Segment)]
  BY DEF FeedInv, Conversation, SessionInv, SessionTypeOK
<1>2. at[c] \notin Ended \cup {"off", "garbled"}
  BY <1>1 DEF SendCountAborts, ReadEnds, ReadFails, ClientLeaves, Reading,
              Behind, Ended, ClientPlace
<1>3. PICK how \in Ended :
        /\ Quits(c, how)
        /\ how = "eof" => /\ at[c] \in {"loop", "magic", "length", "body"}
                          /\ toClient[c] = << >> /\ link[c] = "fin"
  BY <1>2 DEF SendCountAborts, ReadEnds, ReadFails, ClientLeaves, Reading,
              Behind, Ended
<1>4. /\ FeedInv' /\ OthersStay(c) /\ at'[c] = how
      /\ InFlight(c)' = << >> /\ last' = [last EXCEPT ![c] = 0]
      /\ Closed(c) => Closed(c)'
  BY <1>2, <1>3, QuitsKeeps
<1>5. CASE how = "eof"
  <2>1. Stage(c) = "in"
    BY <1>3, <1>5 DEF Stage, Ended
  <2>2. Stage(c)' = "eof"
    <3>1. at'[c] = "eof"
      BY <1>4, <1>5
    <3> QED BY <3>1 DEF Stage
  <2>3. InFlight(c) = << >> /\ Closed(c)
    BY <1>3, <1>5, EmptyStream DEF InFlight, Closed
  <2> QED BY <1>4, <2>1, <2>2, <2>3, PromiseEnds
<1>6. CASE how # "eof"
  <2>1. Stage(c) \in {"out", "in"} /\ Stage(c)' = "left"
    BY <1>2, <1>4, <1>6 DEF Stage, Ended
  <2> QED BY <1>4, <2>1, PromiseLeaves
<1> QED BY <1>4, <1>5, <1>6

\* The network fails.
LEMMA NetworkFeeds ==
  ASSUME SessionInv, FeedInv, NEW c \in Conns,
         UNCHANGED <<fdVars, serverVars, clientVars>>, NetworkFails(c)
  PROVE  FeedInv' /\ Promise!Next
<1>1. /\ SessionTypeOK /\ FeedTypeOK /\ ThreadsIdle(c) /\ ClientPlace(c)
      /\ Placed(toClient[c], Phase(at[c])) /\ Phase(at[c]) \in 1 .. 5
  BY NewestType DEF SessionInv, FeedInv, Conversation, StreamKinds
<1>2. PICK n \in 0 .. Len(toClient[c]) :
        toClient' = [toClient EXCEPT ![c] = SubSeq(@, 1, n)]
  BY DEF NetworkFails
<1>3. /\ toClient'[c] = SubSeq(toClient[c], 1, n) /\ link'[c] = "rst"
      /\ link' = [link EXCEPT ![c] = "rst"] /\ UNCHANGED <<gone, at, last>>
      /\ link[c] \in {"queued", "open"} /\ c \notin gone
  BY <1>1, <1>2 DEF NetworkFails, SessionTypeOK, FeedTypeOK, clientVars
<1>4. Outside(c)
  BY <1>1, <1>2, <1>3 DEF Outside, FeedTypeOK, SessionTypeOK
<1>5. /\ Placed(toClient'[c], Phase(at[c]))
      /\ \E m \in 0 .. Len(InFlight(c)) :
           InFlight(c)' = SubSeq(InFlight(c), 1, m)
  BY <1>1, <1>3, PrefixPlaced DEF InFlight
<1>6. StreamKinds(c)'
  BY <1>3, <1>5 DEF StreamKinds
<1>7. ThreadsIdle(c)'
  <2>1. UNCHANGED <<hpc, spc, queue, writing, subs>>
    BY DEF serverVars, handlerVars, senderVars, chunkVars
  <2> QED BY <1>1, <1>3, <2>1 DEF ThreadsIdle
<1>8. ClientPlace(c)'
  BY <1>1, <1>3 DEF ClientPlace
<1>9. WriterPlace(c)' /\ NumbersGoUp(c)'
  BY <1>3 DEF WriterPlace, NumbersGoUp, Reaches
<1>10. FeedInv'
  BY <1>4, <1>6, <1>7, <1>8, <1>9, OutsideKeeps DEF Conversation
<1>11. Promise!Next
  <2>1. OthersStay(c) /\ Stage(c)' = Stage(c) /\ Closed(c)'
    BY <1>3, <1>4, OutsideKeeps DEF Stage, Closed
  <2> QED BY <1>3, <1>5, <2>1, PromiseCuts
<1> QED BY <1>10, <1>11

\* The client expects what is in the stream.
LEMMA NothingGarbled ==
  ASSUME FeedInv, NEW c \in Conns, Reading(c), toClient[c] # << >>
  PROVE  /\ Head(toClient[c]).kind = at[c]
         /\ Head(toClient[c]).no \in Nat
         /\ Len(toClient[c]) \in Nat \ {0} /\ Len(Tail(toClient[c])) = Len(toClient[c]) - 1
<1>1. Placed(toClient[c], Phase(at[c])) /\ Phase(at[c]) \in 1 .. 5
  BY NewestType DEF FeedInv, Conversation, StreamKinds
<1>2. /\ Head(toClient[c]).kind = KindAt(Phase(at[c]))
      /\ Len(toClient[c]) \in Nat \ {0} /\ Head(toClient[c]) = toClient[c][1]
      /\ Len(Tail(toClient[c])) = Len(toClient[c]) - 1
  BY <1>1, TailPlaced
<1>3. KindAt(Phase(at[c])) = at[c]
  <2>1. at[c] \in {"welcome", "rate", "magic", "length", "body"}
    BY DEF Reading, Behind
  <2> QED BY <2>1 DEF KindAt, Phase
<1>4. toClient[c][1] \in Segment
  <2>1. 1 \in 1 .. Len(toClient[c]) /\ toClient[c] \in Seq(Segment)
    BY <1>1, <1>2 DEF Placed
  <2> QED BY <2>1, ElementOfSeq
<1> QED BY <1>2, <1>3, <1>4 DEF Segment

\* full_read returns the segment that was expected.
LEMMA ReadSegmentFeeds ==
  ASSUME SessionInv, FeedInv, NEW c \in Conns, UNCHANGED <<fdVars, serverVars>>,
         ReadSegment(c)
  PROVE  FeedInv' /\ Promise!Next
<1> DEFINE s == toClient[c]
           place == at[c]
<1>1. /\ SessionTypeOK /\ FeedTypeOK /\ LinksReferred /\ ThreadsIdle(c)
      /\ ClientPlace(c) /\ StreamKinds(c) /\ WriterPlace(c) /\ NumbersGoUp(c)
  BY DEF SessionInv, FeedInv, Conversation
<1>2. /\ Head(s).no \in Nat /\ s # << >>
      /\ Len(s) \in Nat \ {0} /\ Len(Tail(s)) = Len(s) - 1
  BY NothingGarbled DEF ReadSegment
<1>3. /\ place \in {"welcome", "rate", "magic", "length", "body"}
      /\ at' = [at EXCEPT ![c] = Behind[place]]
      /\ last' = IF place = "body" THEN [last EXCEPT ![c] = Head(s).no] ELSE last
      /\ toClient' = [toClient EXCEPT ![c] = Tail(@)]
      /\ UNCHANGED <<link, gone>>
  BY DEF ReadSegment, Reading, Behind, Taken
<1>4. /\ Behind[place] \in {"rate", "loop", "length", "body"}
      /\ place = "body" => Behind[place] = "loop"
      /\ Phase(place) \in 1 .. 5 /\ Phase(Behind[place]) \in 1 .. 5
      /\ place = "body" => Phase(place) = 5 /\ Phase(Behind[place]) = 3
      /\ place # "body" => /\ Phase(place) \in 1 .. 4
                           /\ Phase(Behind[place]) = Phase(place) + 1
      /\ Phase(Behind[place]) < 3 => Phase(place) < 3
  BY <1>3 DEF Behind, Phase
<1>5. /\ at'[c] = Behind[place] /\ toClient'[c] = Tail(s)
      /\ last'[c] = IF place = "body" THEN Head(s).no ELSE last[c]
  BY <1>1, <1>3 DEF FeedTypeOK, SessionTypeOK
<1>6. Outside(c)
  <2>1. at' \in [Conns -> Places] /\ last' \in [Conns -> Nat]
    BY <1>1, <1>2, <1>3, <1>4 DEF FeedTypeOK, Places, Behind
  <2>2. link'[c] \in {"queued", "open"} => Up
    BY <1>1, <1>3 DEF LinksReferred
  <2> QED BY <1>1, <1>3, <2>1, <2>2 DEF Outside, FeedTypeOK, SessionTypeOK
<1>7. c \notin gone /\ link[c] # "none"
  BY <1>1, <1>3 DEF ClientPlace, Ended
<1>8. Reaches(c)' => Reaches(c)
  BY <1>6, <1>7, OutsideKeeps
<1>9. UNCHANGED <<hpc, spc, queue, writing, subs, got>>
  BY DEF serverVars, handlerVars, senderVars, chunkVars
<1>10. Placed(s, Phase(place))
  BY <1>1 DEF StreamKinds
<1> HIDE DEF s, place
<1>11. CASE place # "body"
  <2>1. /\ Placed(Tail(s), Phase(place) + 1)
        /\ DataSets(Tail(s)) = DataSets(s)
    BY <1>2, <1>4, <1>10, <1>11, TailOther
  <2>2. StreamKinds(c)'
    BY <1>4, <1>5, <1>11, <2>1 DEF StreamKinds
  <2>3. InFlight(c)' = InFlight(c) /\ Newest(c)' = Newest(c)
    BY <1>5, <1>11, <2>1 DEF InFlight, Newest, s
  <2>4. Ahead(c)' = Ahead(c)
    <3>1. Phase(place) + 1 + (Len(s) - 1) = Phase(place) + Len(s)
      BY <1>2, <1>4
    <3>2. Ahead(c)' = Phase(place) + 1 + (Len(s) - 1)
      BY <1>2, <1>4, <1>5, <1>11 DEF Ahead
    <3> QED BY <3>1, <3>2 DEF Ahead, s, place
  <2>5. WriterPlace(c)' /\ NumbersGoUp(c)'
    BY <1>1, <1>3, <1>8, <1>9, <2>3, <2>4 DEF WriterPlace, NumbersGoUp
  <2>6. ThreadsIdle(c)'
    BY <1>1, <1>3, <1>9 DEF ThreadsIdle
  <2>7. ClientPlace(c)'
    BY <1>1, <1>3, <1>4, <1>5, <1>7, <1>11 DEF ClientPlace, Ended, place
  <2>8. FeedInv'
    BY <1>6, <2>2, <2>5, <2>6, <2>7, OutsideKeeps DEF Conversation
  <2>9. OthersStay(c) /\ UNCHANGED last /\ (Closed(c)' <=> Closed(c))
    BY <1>3, <1>6, <1>11, OutsideKeeps DEF Closed
  <2>10. CASE place = "rate"
    <3>1. Stage(c) = "out" /\ Stage(c)' = "in"
      BY <1>5, <2>10 DEF Stage, Behind, Ended, place
    <3> QED BY <2>3, <2>8, <2>9, <3>1, PromiseJoins
  <2>11. CASE place # "rate"
    <3>1. Stage(c)' = Stage(c)
      BY <1>3, <1>5, <1>11, <2>11 DEF Stage, Behind, Ended, place
    <3>2. \A d \in Conns : /\ Stage(d)' = Stage(d) /\ InFlight(d)' = InFlight(d)
                           /\ Closed(d) => Closed(d)'
      BY <2>3, <2>9, <3>1 DEF OthersStay
    <3> QED BY <2>8, <2>9, <3>2, PromiseHangsUp
  <2> QED BY <2>10, <2>11
<1>12. CASE place = "body"
  <2>1. /\ Placed(Tail(s), 3)
        /\ DataSets(s) # << >> /\ Head(DataSets(s)) = Head(s).no
        /\ DataSets(Tail(s)) = Tail(DataSets(s))
    BY <1>2, <1>4, <1>10, <1>12, TailBody
  <2>2. StreamKinds(c)'
    BY <1>4, <1>5, <1>12, <2>1 DEF StreamKinds
  <2>3. InFlight(c)' = Tail(InFlight(c)) /\ InFlight(c) # << >>
        /\ last'[c] = Head(InFlight(c))
    BY <1>5, <1>12, <2>1 DEF InFlight, s
  <2>4. Newest(c)' = Newest(c)
    <3> DEFINE f == InFlight(c)
    <3>1. f \in Seq(Nat) /\ f # << >>
      BY <2>3, NewestType
    <3>2. /\ Len(f) \in Nat \ {0} /\ Head(f) = f[1] /\ Len(Tail(f)) = Len(f) - 1
          /\ \A i \in 1 .. Len(f) - 1 : Tail(f)[i] = f[i + 1]
      BY <3>1, HeadTailProperties, EmptySeq
    <3>3. Newest(c)' = IF Tail(f) = << >> THEN Head(f)
                                          ELSE Tail(f)[Len(Tail(f))]
      BY <2>3 DEF Newest
    <3>4. Newest(c) = f[Len(f)]
      BY <3>1 DEF Newest
    <3> HIDE DEF f
    <3>5. CASE Tail(f) = << >>
      <4>1. Len(Tail(f)) = 0
        BY <3>5, EmptySeq
      <4>2. Len(Tail(f)) = Len(f) - 1 /\ Len(f) \in Nat
        BY <3>2
      <4>3. Len(f) = 1
        BY <4>1, <4>2
      <4> QED BY <3>2, <3>3, <3>4, <3>5, <4>3
    <3>6. CASE Tail(f) # << >>
      <4>1. Tail(f) \in Seq(Nat)
        BY <3>1, HeadTailProperties
      <4>2. Len(Tail(f)) \in Nat \ {0}
        BY <3>6, <4>1, EmptySeq
      <4>3. Len(f) - 1 \in 1 .. Len(f) - 1 /\ (Len(f) - 1) + 1 = Len(f)
        BY <3>2, <4>2
      <4> QED BY <3>2, <3>3, <3>4, <3>6, <4>3
    <3> QED BY <3>5, <3>6
  <2>5. Ahead(c) = 5 + Len(s) /\ Ahead(c)' = 3 + (Len(s) - 1)
    BY <1>2, <1>4, <1>5, <1>12 DEF Ahead, s, place
  <2>6. WriterPlace(c)'
    <3>1. Ahead(c) \in Nat /\ Ahead(c) >= 6 /\ Ahead(c)' = Ahead(c) - 3
      BY <1>2, <2>5
    <3>2. Ahead(c)' >= 3 /\ Ahead(c)' % 3 = Ahead(c) % 3
      BY <3>1
    <3>3. Ahead(c) # 1 /\ Ahead(c) # 2
      BY <3>1
    <3>4. InTurn(Ahead(c), hpc[c], spc[c]) => InTurn(Ahead(c)', hpc[c], spc[c])
      BY <3>2, <3>3 DEF InTurn
    <3> QED BY <1>1, <1>3, <1>8, <1>9, <3>4 DEF WriterPlace
  <2>7. NumbersGoUp(c)'
    BY <1>1, <1>8, <1>9, <2>4 DEF NumbersGoUp
  <2>8. ThreadsIdle(c)'
    BY <1>1, <1>3, <1>9 DEF ThreadsIdle
  <2>9. ClientPlace(c)'
    BY <1>1, <1>3, <1>4, <1>5, <1>7, <1>12 DEF ClientPlace, Ended, place
  <2>10. FeedInv'
    BY <1>6, <2>2, <2>6, <2>7, <2>8, <2>9, OutsideKeeps DEF Conversation
  <2>11. Promise!Next
    <3>1. OthersStay(c) /\ (Closed(c)' <=> Closed(c))
      BY <1>3, <1>6, OutsideKeeps DEF Closed
    <3>2. Stage(c) = "in" /\ Stage(c)' = "in"
      BY <1>4, <1>5, <1>12 DEF Stage, Ended, place
    <3>3. last' = [last EXCEPT ![c] = Head(InFlight(c))]
      BY <1>3, <1>12, <2>1 DEF InFlight, s
    <3> QED BY <2>3, <3>1, <3>2, <3>3, PromiseGets
  <2> QED BY <2>10, <2>11
<1> QED BY <1>11, <1>12

LEMMA ClientFeeds ==
  ASSUME SessionInv, FeedInv, NEW c \in Conns, UNCHANGED <<fdVars, serverVars>>,
         \/ IF Listening THEN Connect(c) ELSE ConnectRefused(c)
         \/ ClientStep(c) \/ ClientLeaves(c)
  PROVE  FeedInv' /\ [Promise!Next]_(Promise!vars)
<1>1. CASE ConnectRefused(c)
  <2>1. /\ FeedTypeOK /\ LinksReferred /\ ThreadsIdle(c) /\ ClientPlace(c)
        /\ StreamKinds(c) /\ WriterPlace(c) /\ NumbersGoUp(c)
    BY DEF FeedInv, Conversation
  <2>2. /\ at[c] = "off" /\ at' = [at EXCEPT ![c] = "null"]
        /\ UNCHANGED <<link, gone, toClient, last>>
    BY <1>1 DEF ConnectRefused, Goes, netVars
  <2>3. at'[c] = "null" /\ link[c] = "none" /\ toClient[c] = << >> /\ last[c] = 0
    BY <2>1, <2>2 DEF FeedTypeOK, ClientPlace, Phase
  <2>4. Outside(c)
    BY <2>1, <2>2, <2>3 DEF Outside, FeedTypeOK, Places, Ended
  <2>5. UNCHANGED <<hpc, spc, queue, writing, subs>>
    BY DEF serverVars, handlerVars, senderVars, chunkVars
  <2>6. ThreadsIdle(c)' /\ ClientPlace(c)'
    BY <2>1, <2>2, <2>3, <2>5 DEF ThreadsIdle, ClientPlace, Ended
  <2>7. StreamKinds(c)' /\ InFlight(c)' = << >>
    <3>1. toClient'[c] = << >> /\ Phase(at'[c]) = 1 /\ 1 \in 1 .. 5
      BY <2>2, <2>3 DEF Phase
    <3> QED BY <3>1, EmptyStream DEF StreamKinds, InFlight
  <2>8. WriterPlace(c)' /\ NumbersGoUp(c)'
    BY <2>2, <2>3 DEF WriterPlace, NumbersGoUp, Reaches
  <2>9. FeedInv'
    BY <2>4, <2>6, <2>7, <2>8, OutsideKeeps DEF Conversation
  <2>10. Promise!Next
    <3>1. Stage(c) = "out" /\ Stage(c)' = "left"
      BY <2>2, <2>3 DEF Stage, Ended
    <3>2. OthersStay(c) /\ (Closed(c) => Closed(c)')
      BY <2>2, <2>4, OutsideKeeps DEF Closed
    <3>3. last' = [last EXCEPT ![c] = 0]
      BY <2>1, <2>2, <2>3 DEF FeedTypeOK
    <3> QED BY <2>7, <3>1, <3>2, <3>3, PromiseLeaves
  <2> QED BY <2>9, <2>10
<1>2. CASE \/ Listening /\ Connect(c)
           \/ SendCount(c) \/ SendChannels(c) \/ CallRead(c)
  BY <1>2, ClientMovesFeeds DEF Listening, Up
<1>3. CASE SendCountAborts(c) \/ ReadEnds(c) \/ ReadFails(c) \/ ClientLeaves(c)
  BY <1>3, ClientEndsFeeds
<1>4. CASE ReadSegment(c)
  BY <1>4, ReadSegmentFeeds
<1>5. CASE ReadMismatch(c)
  BY <1>5, NothingGarbled DEF ReadMismatch
<1> QED BY <1>1, <1>2, <1>3, <1>4, <1>5 DEF ClientStep

-----------------------------------------------------------------------------
LEMMA InitFeeds == Init => FeedInv /\ Promise!Init
<1> SUFFICES ASSUME Init
             PROVE  FeedInv /\ Promise!Init
  OBVIOUS
<1>1. FeedTypeOK /\ NextIsDue /\ TableOwn /\ LinksReferred
  BY DEF Init, SocketsInit, ServerInit, ClientInit, Chunks!Init,
         Chunks!NoChunk, FeedTypeOK, NextIsDue, TableOwn, LinksReferred, Places
<1>2. ASSUME NEW c \in Conns
      PROVE  /\ Conversation(c) /\ Stage(c) = "out" /\ InFlight(c) = << >>
             /\ link[c] = "none"
  <2>1. /\ link[c] = "none" /\ gone = {} /\ toClient[c] = << >>
        /\ hpc[c] = "off" /\ spc[c] = "off" /\ queue[c] = << >>
        /\ writing[c] = 0 /\ subs = {} /\ at[c] = "off" /\ last[c] = 0
    BY DEF Init, SocketsInit, ServerInit, ClientInit, Chunks!Init, Handlers
  <2>2. ThreadsIdle(c) /\ ClientPlace(c)
    BY <2>1 DEF ThreadsIdle, ClientPlace, Writers, NextWrite, Ended
  <2>3. StreamKinds(c) /\ InFlight(c) = << >>
    <3>1. Phase("off") = 1 /\ 1 \in 1 .. 5
      BY DEF Phase
    <3> QED BY <2>1, <3>1, EmptyStream DEF StreamKinds, InFlight
  <2>4. WriterPlace(c) /\ NumbersGoUp(c)
    BY <2>1 DEF WriterPlace, NumbersGoUp, Reaches
  <2>5. Stage(c) = "out"
    BY <2>1 DEF Stage, Ended
  <2> QED BY <2>1, <2>2, <2>3, <2>4, <2>5 DEF Conversation
<1>3. FeedInv
  BY <1>1, <1>2 DEF FeedInv
<1>4. Promise!Init
  <2>1. last = [c \in Conns |-> 0]
    BY DEF Init, ClientInit
  <2>2. /\ [c \in Conns |-> Stage(c)] = [c \in Conns |-> "out"]
        /\ [c \in Conns |-> DataSets(toClient[c])] = [c \in Conns |-> << >>]
        /\ {c \in Conns : link[c] \in {"fin", "rst"}} = {}
    BY <1>2 DEF InFlight
  <2> QED BY <2>1, <2>2 DEF Promise!Init
<1> QED BY <1>3, <1>4

\* Every step that spoils no stream keeps the invariant and is a step of the
\* promise, or none.
LEMMA StepFeeds ==
  ASSUME SessionInv, FeedInv, [Next]_vars, [NoStranger]_vars
  PROVE  FeedInv' /\ [Promise!Next]_(Promise!vars)
<1>1. CASE UNCHANGED vars
  <2>1. UNCHANGED <<link, gone, toClient, table, held, hpc, hfd, spc, queue,
                    writing, daemon, at, last, current, fresh, subs, owing, got>>
    BY <1>1 DEF vars, netVars, fdVars, serverVars, handlerVars, senderVars,
                chunkVars, clientVars
  <2>2. \A d \in Conns : Untouched(d)
    BY <2>1 DEF Untouched, Reaches, Target
  <2>3. FeedTypeOK' /\ NextIsDue' /\ TableOwn' /\ LinksReferred'
    BY <2>1 DEF FeedInv, FeedTypeOK, NextIsDue, TableOwn, LinksReferred, Up
  <2> QED BY <2>1, <2>2, <2>3, AllKeep
<1>2. ASSUME Next, NoStranger
      PROVE  FeedInv' /\ [Promise!Next]_(Promise!vars)
  <2>1. CASE ByServer(MainStep \/ NewChunk)
             \/ ByServer("interrupt" \in Faults /\ (Interrupt \/ Exit))
             \/ ByServer(RequestFails(NoConn) \/ CloseAborts)
    <3>1. /\ Up /\ UNCHANGED clientVars
          /\ \/ AcceptFails \/ Interrupt \/ NewChunk \/ RequestFails(NoConn)
             \/ \E c \in Conns : Accept(c)
             \/ StopAccepting
             \/ Exit \/ CloseAborts
      BY <2>1 DEF ByServer, MainStep
    <3>2. CASE AcceptFails \/ Interrupt \/ NewChunk \/ RequestFails(NoConn)
      BY <3>1, <3>2, DaemonFeeds
    <3>3. CASE \E c \in Conns : Accept(c)
      BY <3>1, <3>3, AcceptFeeds
    <3>4. CASE Exit \/ CloseAborts
      BY <3>1, <3>4, EndFeeds DEF Exit, CloseAborts
    <3>5. CASE StopAccepting
      BY <3>1, <3>5, StopAcceptingFeeds
    <3> QED BY <3>1, <3>2, <3>3, <3>4, <3>5
  <2>2. CASE \E c \in Conns : ByServer(HandlerStep(c) \/ SenderStep(c))
    BY <1>2, <2>2, ThreadFeeds DEF ByServer
  <2>3. CASE \E c \in Conns :
               \/ ByClient(IF Listening THEN Connect(c) ELSE ConnectRefused(c))
               \/ ByClient(ClientStep(c))
               \/ ByClient("client" \in Faults /\ ClientLeaves(c))
    BY <2>3, ClientFeeds DEF ByClient
  <2>4. CASE \E c \in Conns : NetworkFails(c)
                              /\ UNCHANGED <<fdVars, serverVars, clientVars>>
    BY <2>4, NetworkFeeds
  <2> QED BY <1>2, <2>1, <2>2, <2>3, <2>4 DEF Next
<1> QED BY <1>1, <1>2

LEMMA UnspoiltInv == Spec /\ [][NoStranger]_vars => []FeedInv
<1>1. Init => FeedInv
  BY InitFeeds
<1>2. SessionInv /\ FeedInv /\ [Next]_vars /\ [NoStranger]_vars => FeedInv'
  BY StepFeeds
<1> QED BY <1>1, <1>2, InvHolds, PTL DEF Spec

\* As long as no segment of another connection's thread enters a stream, every
\* client is served what Feed promises, with any number of connections,
\* descriptors and chunks, whatever the other clients, the network and SIGINT
\* do.  (By SpoiltByStaleSendersOnly such a segment can only come from the
\* sender of a handler that has closed its descriptor: handler.c:430.)
THEOREM UnspoiltStreamsAreFeeds ==
  Spec /\ [][NoStranger]_vars => ImplementsFeed
<1>1. Init => FeedInv /\ Promise!Init
  BY InitFeeds
<1>2. SessionInv /\ FeedInv /\ [Next]_vars /\ [NoStranger]_vars
        => FeedInv' /\ [Promise!Next]_(Promise!vars)
  BY StepFeeds
<1>3. Spec => []SessionInv
  BY InvHolds
<1> QED BY <1>1, <1>2, <1>3, PTL DEF Spec, ImplementsFeed, Promise!Spec

\* The last segment of a stream that has become longer is some connection's.
LEMMA LastFrom ==
  ASSUME SessionTypeOK, SessionTypeOK', NEW c \in Conns,
         Len(toClient'[c]) > Len(toClient[c])
  PROVE  toClient'[c][Len(toClient'[c])].from \in Conns
<1>1. /\ toClient'[c] \in Seq(Segment)
      /\ Len(toClient'[c]) \in Nat /\ Len(toClient[c]) \in Nat
  BY DEF SessionTypeOK
<1>2. Len(toClient'[c]) \in 1 .. Len(toClient'[c])
  BY <1>1
<1>3. toClient'[c][Len(toClient'[c])] \in Segment
  BY <1>1, <1>2, ElementOfSeq
<1> QED BY <1>3 DEF Segment

\* Where there is only one connection no other thread can write into it.
LEMMA NoStrangersAlone ==
  ASSUME \A c, d \in Conns : c = d
  PROVE  Spec => [][NoStranger]_vars
<1>1. SessionTypeOK /\ SessionTypeOK' => NoStranger
  BY LastFrom DEF NoStranger
<1>2. SessionInv /\ SessionInv' => [NoStranger]_vars
  BY <1>1 DEF SessionInv
<1>3. Spec => []SessionInv
  BY InvHolds
<1> QED BY <1>2, <1>3, PTL DEF Spec

\* A daemon keeps the promise to the only client of its life.
THEOREM OneClientIsFed ==
  ASSUME \A c, d \in Conns : c = d
  PROVE  Spec => ImplementsFeed
  BY NoStrangersAlone, UnspoiltStreamsAreFeeds

-----------------------------------------------------------------------------
(***************************************************************************)
(* Several clients are served so, too, if no number that a handler has     *)
(* closed is handed out again before its sender has ended: senders sleep   *)
(* on their own connections then, and a number that was closed leads       *)
(* nowhere.                                                                *)
(***************************************************************************)

HeldOwn == \A c \in Conns : held[c] \in {NoConn, c}

LEMMA HeldOwnStep ==
  ASSUME SessionInv, HeldOwn, NumbersRest, [Next]_vars
  PROVE  HeldOwn'
<1> USE DEF HeldOwn
<1>0. held \in [Conns -> Conns \cup {NoConn}]
  BY DEF SessionInv, SessionTypeOK
<1>1. CASE UNCHANGED held
  BY <1>1
<1>2. ASSUME NEW c \in Conns, held' = [held EXCEPT ![c] = NoConn]
      PROVE  HeldOwn'
  BY <1>0, <1>2
<1>3. CASE CloseAll
  BY <1>3 DEF CloseAll
<1>4. ASSUME NEW c \in Conns, Up, SenderSleeps(c)
      PROVE  HeldOwn'
  <2>1. /\ held' = [held EXCEPT ![c] = Target(c)] /\ held[c] = NoConn
        /\ Target(c) # NoConn /\ spc[c] \in Writers
    BY <1>4 DEF SenderSleeps, WriteSleeps, Writers
  <2>2. hpc[c] # "join"
    BY <1>4, <2>1 DEF NumbersRest, Target, Writers, NextWrite
  <2>3. Target(c) = c
    BY <1>4, <2>1, <2>2, TargetOwn
  <2> QED BY <1>0, <2>1, <2>3
<1>5. CASE ByServer(MainStep \/ NewChunk)
           \/ ByServer("interrupt" \in Faults /\ (Interrupt \/ Exit))
           \/ ByServer(RequestFails(NoConn) \/ CloseAborts)
  <2>1. UNCHANGED held \/ CloseAll
    BY <1>5 DEF ByServer, MainStep, AcceptFails, StopAccepting, StopListening,
                Accept, NewChunk, Interrupt, Exit, Ends, RequestFails,
                CloseAborts, fdVars
  <2> QED BY <1>1, <1>3, <2>1
<1>6. ASSUME NEW c \in Conns, Up, HandlerStep(c)
      PROVE  HeldOwn'
  <2>1. UNCHANGED held \/ CloseAll
    BY <1>6 DEF HandlerStep, RequestAccepted, RequestRefused, RequestFails,
                Greet, GreetAborts, Ends, Loop, Copy, LeaveLoop, Leave, Close,
                CloseFd, Join, fdVars
  <2> QED BY <1>1, <1>3, <2>1
<1>7. ASSUME NEW c \in Conns, Up, SenderStep(c)
      PROVE  HeldOwn'
  <2>1. \/ UNCHANGED held \/ held' = [held EXCEPT ![c] = NoConn]
        \/ SenderSleeps(c)
    BY <1>7 DEF SenderStep, SenderLoop, SenderTakes, SenderReturns,
                SenderWrites, SenderFails, fdVars
  <2> QED BY <1>1, <1>2, <1>4, <1>7, <2>1
<1>8. ASSUME UNCHANGED fdVars \/ UNCHANGED vars
      PROVE  HeldOwn'
  BY <1>1, <1>8 DEF fdVars, vars
<1> QED
  BY <1>5, <1>6, <1>7, <1>8 DEF Next, ByServer, ByClient

LEMMA NoStrangersAtRest == Spec /\ []NumbersRest => [][NoStranger]_vars
<1>1. Init => HeldOwn
  BY DEF Init, SocketsInit, HeldOwn
<1>2. ASSUME SessionInv, SessionInv', HeldOwn, NumbersRest, OnlyStaleMix
      PROVE  NoStranger
  <2> SUFFICES ASSUME NEW c \in Conns, Len(toClient'[c]) > Len(toClient[c])
               PROVE  toClient'[c][Len(toClient'[c])].from = c
    BY DEF NoStranger
  <2> DEFINE h == toClient'[c][Len(toClient'[c])].from
  <2>1. h \in Conns
    BY <1>2, LastFrom DEF SessionInv
  <2>2. h = c \/ StaleWriter(h, c)
    BY <1>2 DEF OnlyStaleMix
  <2> HIDE DEF h
  <2>3. ASSUME StaleWriter(h, c), h # c PROVE FALSE
    <3>1. held[h] = NoConn
      BY <1>2, <2>1, <2>3 DEF HeldOwn, StaleWriter, Target
    <3>2. table[hfd[h]] = c
      BY <2>3, <3>1 DEF StaleWriter, Target
    <3>3. table[hfd[h]] = NoConn
      BY <1>2, <2>1, <2>3 DEF NumbersRest, StaleWriter, NextWrite
    <3> QED BY <3>2, <3>3, ConnAssumption
  <2> QED BY <2>2, <2>3 DEF h
<1>3. SessionInv /\ HeldOwn /\ NumbersRest /\ [Next]_vars
        => HeldOwn' /\ [NoStranger]_vars
  BY <1>2, HeldOwnStep, StepInv
<1>4. Spec => []SessionInv
  BY InvHolds
<1> QED BY <1>1, <1>3, <1>4, PTL DEF Spec

\* What the missing order of close and pthread_join costs, and nothing else
\* does: a daemon in which no closed number is handed out before its sender has
\* ended keeps the library's promise to each of any number of clients.
THEOREM RestingNumbersSuffice == Spec /\ []NumbersRest => ImplementsFeed
  BY NoStrangersAtRest, UnspoiltStreamsAreFeeds

-----------------------------------------------------------------------------
(***************************************************************************)
(* What the promise means to a caller, by the theorems about Feed          *)
(***************************************************************************)

Feeding == INSTANCE FeedProofs WITH
  Clients  <- Conns,
  stage    <- [c \in Conns |-> Stage(c)],
  inflight <- [c \in Conns |-> DataSets(toClient[c])],
  cut      <- {c \in Conns : link[c] \in {"fin", "rst"}}

LEMMA FeedRuns ==
  ImplementsFeed => [](\A c \in Conns : Feeding!Runs(c))
<1>1. Promise!Init => Feeding!Init
  BY DEF Promise!Init, Feeding!Init
<1>2. [Promise!Next]_(Promise!vars) => [Feeding!Next]_(Feeding!vars)
  BY DEF Promise!Next, Promise!vars, Promise!Join, Promise!Put, Promise!Get,
         Promise!Cut, Promise!End, Promise!Leave, Promise!HangUp,
         Promise!After, Promise!Newest,
         Feeding!Next, Feeding!vars, Feeding!Join, Feeding!Put, Feeding!Get,
         Feeding!Cut, Feeding!End, Feeding!Leave, Feeding!HangUp,
         Feeding!After, Feeding!Newest
<1>3. Promise!Spec => Feeding!Spec
  BY <1>1, <1>2, PTL DEF Promise!Spec, Feeding!Spec
<1> QED BY <1>3, Feeding!FlightIsARun, PTL DEF ImplementsFeed

\* pm_read returns when the last segment of a data set has been read.
LEMMA OnlyReadsReturn ==
  ASSUME SessionInv, FeedInv, [Next]_vars,
         NEW c \in Conns, at[c] = "body", at'[c] = "loop"
  PROVE  ReadSegment(c)
<1>0. at \in [Conns -> Places]
  BY DEF FeedInv, FeedTypeOK
<1>1. ~ UNCHANGED clientVars
  BY DEF clientVars
<1>2. PICK d \in Conns :
        Connect(d) \/ ConnectRefused(d) \/ ClientStep(d) \/ ClientLeaves(d)
  BY <1>1 DEF Next, ByServer, ByClient, vars
<1>3. d = c
  BY <1>0, <1>2 DEF Connect, ConnectRefused, ClientStep, ClientLeaves, SendCount,
     SendCountAborts, SendChannels, CallRead, ReadSegment, ReadMismatch,
     ReadEnds, ReadFails, Quits, Goes
<1> QED
  BY <1>0, <1>2, <1>3 DEF Connect, ConnectRefused, ClientStep, ClientLeaves,
     SendCount, SendCountAborts, SendChannels, CallRead, ReadMismatch, ReadEnds,
     ReadFails, Quits, Goes, Ended

LEMMA UnspoiltReadsInOrder ==
  Spec /\ [][NoStranger]_vars => ReadsInOrder
<1> DEFINE Ordered ==
      \A c \in Conns :
        at[c] = "body" /\ at'[c] = "loop" =>
          last[c] = 0 \/ last'[c] = Chunks!Tick(last[c])
           Running == \A c \in Conns : Feeding!Runs(c)
<1>1. ASSUME SessionInv, FeedInv, Running, [Next]_vars, NEW c \in Conns,
             at[c] = "body", at'[c] = "loop", last[c] # 0
      PROVE  last'[c] = Chunks!Tick(last[c])
  <2>1. toClient[c] # << >> /\ last' = [last EXCEPT ![c] = Head(toClient[c]).no]
    BY <1>1, OnlyReadsReturn DEF ReadSegment
  <2>2. Placed(toClient[c], 5)
    BY <1>1 DEF FeedInv, Conversation, StreamKinds, Phase
  <2>3. DataSets(toClient[c]) # << >>
        /\ Head(DataSets(toClient[c])) = Head(toClient[c]).no
    BY <2>1, <2>2, TailBody
  <2>4. DataSets(toClient[c]) \in Seq(Nat)
    BY <1>1, NewestType DEF InFlight
  <2>5. Head(DataSets(toClient[c])) = DataSets(toClient[c])[1]
    BY <2>3, <2>4, EmptySeq
  <2>6. DataSets(toClient[c])[1] = Feeding!After(last[c])
    BY <1>1, <2>3 DEF Feeding!Runs
  <2>7. last'[c] = Head(toClient[c]).no
    BY <1>1, <2>1 DEF FeedInv, FeedTypeOK
  <2> QED BY <2>3, <2>5, <2>6, <2>7 DEF Feeding!After, Chunks!Tick
<1>2. SessionInv /\ FeedInv /\ Running /\ [Next]_vars => [Ordered]_vars
  BY <1>1
<1>3. Spec /\ [][NoStranger]_vars => []Running
  BY UnspoiltStreamsAreFeeds, FeedRuns
<1> QED BY <1>2, <1>3, UnspoiltInv, InvHolds, PTL DEF Spec, ReadsInOrder

\* pm_read returns consecutive chunks, to each of any number of clients, unless
\* a closed number is handed out too early.
THEOREM CallersReadInOrder == Spec /\ []NumbersRest => ReadsInOrder
  BY NoStrangersAtRest, UnspoiltReadsInOrder

\* The only client of a daemon reads consecutive chunks without any condition.
THEOREM OneClientReadsInOrder ==
  ASSUME \A c, d \in Conns : c = d
  PROVE  Spec => ReadsInOrder
  BY NoStrangersAlone, UnspoiltReadsInOrder

-----------------------------------------------------------------------------
(***************************************************************************)
(* What the client's library asserts and takes for granted, segment by     *)
(* segment.  UnspoiltStreamsAreFeeds speaks of whole data sets; these are  *)
(* about the segment that a call of full_read finds next.                  *)
(***************************************************************************)

LEMMA UnspoiltInStep == Spec /\ [][NoStranger]_vars => []InStep
<1>1. FeedInv => InStep
  BY NothingGarbled DEF InStep
<1> QED BY <1>1, UnspoiltInv, PTL

\* Every call of full_read finds the segment that its caller expects, at each of
\* any number of clients, unless a closed number is handed out too early: the
\* comparison of the magic number (libpmlab.c:157) fails for no other reason.
THEOREM ReadersKeepStep == Spec /\ []NumbersRest => []InStep
  BY NoStrangersAtRest, UnspoiltInStep

\* The only client of a daemon never loses its place.
THEOREM OneClientKeepsStep ==
  ASSUME \A c, d \in Conns : c = d
  PROVE  Spec => []InStep
  BY NoStrangersAlone, UnspoiltInStep

\* Only a segment that was not expected ends a client at libpmlab.c:111.
LEMMA WelcomeFailsOnMismatch ==
  ASSUME FeedInv, [Next]_vars, WelcomeIsFirst
  PROVE  WelcomeIsFirst'
<1> SUFFICES ASSUME NEW c \in Conns, at'[c] = "!welcome"
             PROVE  FALSE
  BY DEF WelcomeIsFirst
<1>0. at \in [Conns -> Places] /\ at[c] # "!welcome"
  BY DEF FeedInv, FeedTypeOK, WelcomeIsFirst
<1>1. ~ UNCHANGED clientVars
  BY <1>0 DEF clientVars
<1>2. PICK d \in Conns :
        Connect(d) \/ ConnectRefused(d) \/ ClientStep(d) \/ ClientLeaves(d)
  BY <1>1 DEF Next, ByServer, ByClient, vars
<1>3. CASE ReadMismatch(d)
  BY <1>3, NothingGarbled DEF ReadMismatch
<1>4. CASE ReadSegment(d)
  <2>1. Behind[at[d]] \in {"rate", "loop", "length", "body"}
    BY <1>4 DEF ReadSegment, Reading, Behind
  <2> QED BY <1>0, <1>4, <2>1 DEF ReadSegment
<1>5. CASE \/ Connect(d) \/ ConnectRefused(d) \/ ClientLeaves(d)
           \/ SendCount(d) \/ SendCountAborts(d) \/ SendChannels(d)
           \/ CallRead(d) \/ ReadEnds(d) \/ ReadFails(d)
  BY <1>0, <1>5 DEF Connect, ConnectRefused, ClientLeaves, SendCount,
     SendCountAborts, SendChannels, CallRead, ReadEnds, ReadFails, Quits, Goes
<1> QED BY <1>2, <1>3, <1>4, <1>5 DEF ClientStep

LEMMA UnspoiltWelcome == Spec /\ [][NoStranger]_vars => []WelcomeIsFirst
<1>1. Init => WelcomeIsFirst
  BY DEF Init, ClientInit, WelcomeIsFirst
<1> QED BY <1>1, WelcomeFailsOnMismatch, UnspoiltInv, PTL DEF Spec

\* The assertion of libpmlab.c:111, which a run refutes with two clients, fails
\* for one reason only: where no closed number is handed out before its sender
\* has ended, what pm_connect reads first is the welcome message.
THEOREM WelcomeComesFirst == Spec /\ []NumbersRest => []WelcomeIsFirst
  BY NoStrangersAtRest, UnspoiltWelcome

\* To the only client of a daemon it comes first without any condition.
THEOREM OneClientIsWelcome ==
  ASSUME \A c, d \in Conns : c = d
  PROVE  Spec => []WelcomeIsFirst
  BY NoStrangersAlone, UnspoiltWelcome
=============================================================================
