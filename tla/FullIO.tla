------------------------------- MODULE FullIO -------------------------------
(***************************************************************************)
(* common/utils.c: full_write and full_read, called in turn for the        *)
(* segments of a conversation, over system calls that transfer a part,     *)
(* are interrupted by a signal, fail, or (read) meet the end of the        *)
(* stream.                                                                 *)
(*                                                                         *)
(* Byte i of segment m is the pair <<m, i>>: bytes that are lost,          *)
(* repeated or out of order are told apart whatever they contain.          *)
(***************************************************************************)
EXTENDS Naturals, Sequences

CONSTANTS
  Sizes,    \* the length of each segment; a request may list no channel
  Window    \* bytes the kernel holds for the connection

ASSUME SizesAssumption == Sizes \in Seq(Nat)
ASSUME WindowAssumption == Window \in Nat \ {0}

VARIABLES
  wseg, wleft, wbuf,   \* the writer's segment, `size' and `buf' (its offset)
  rseg, rleft, rbuf,   \* the reader's segment, `size', and what it has read
  pipe,                \* the bytes in the kernel
  received,            \* what the calls of full_read have delivered
  writer, reader,      \* how the last call of each end returned
  broken               \* the connection has failed

writeVars == <<wseg, wleft, wbuf, writer>>
readVars  == <<rseg, rleft, rbuf, received, reader>>
vars      == <<writeVars, readVars, pipe, broken>>

Size(m)    == IF m <= Len(Sizes) THEN Sizes[m] ELSE 0
Content(m) == [i \in 1 .. Size(m) |-> <<m, i>>]

Init ==
  /\ wseg = 1 /\ wleft = Size(1) /\ wbuf = 0 /\ writer = "open"
  /\ rseg = 1 /\ rleft = Size(1) /\ rbuf = << >> /\ reader = "open"
  /\ pipe = << >> /\ received = << >>
  /\ broken = FALSE

Writing == writer = "open" /\ wseg <= Len(Sizes)
Reading == reader = "open" /\ rseg <= Len(Sizes)

-----------------------------------------------------------------------------
\* full_write returns `count' and is called for the next segment
WriteReturns ==
  /\ wseg' = wseg + 1
  /\ wleft' = Size(wseg + 1)
  /\ wbuf' = 0

\* Mutant: `buf' stays where it is after a partial write.
WritePartRepeats(n) ==
  /\ Writing /\ ~broken
  /\ n \in 1 .. wleft /\ Len(pipe) + n <= Window
  /\ pipe' = pipe \o SubSeq(Content(wseg), wbuf + 1, wbuf + n)
  /\ \/ n = wleft /\ WriteReturns
     \/ n < wleft /\ wleft' = wleft - n /\ UNCHANGED <<wseg, wbuf>>
  /\ UNCHANGED <<writer, readVars, broken>>

\* write transfers n of the bytes that are left
WritePart(n) ==
  /\ Writing /\ ~broken
  /\ n \in 1 .. wleft /\ Len(pipe) + n <= Window
  /\ pipe' = pipe \o SubSeq(Content(wseg), wbuf + 1, wbuf + n)
  /\ \/ n = wleft /\ WriteReturns
     \/ n < wleft /\ wleft' = wleft - n /\ wbuf' = wbuf + n /\ UNCHANGED wseg
  /\ UNCHANGED <<writer, readVars, broken>>

\* there is nothing to write
WriteNothing ==
  /\ Writing /\ wleft = 0
  /\ WriteReturns
  /\ UNCHANGED <<writer, readVars, pipe, broken>>

WriteInterrupted == Writing /\ wleft > 0 /\ UNCHANGED vars

WriteFails ==
  /\ Writing /\ wleft > 0 /\ broken
  /\ writer' = "failed"
  /\ UNCHANGED <<wseg, wleft, wbuf, readVars, pipe, broken>>

-----------------------------------------------------------------------------
\* full_read returns `count' and is called for the next segment
ReadReturns(segment) ==
  /\ received' = Append(received, segment)
  /\ rseg' = rseg + 1
  /\ rleft' = Size(rseg + 1)
  /\ rbuf' = << >>

\* read transfers n bytes
ReadPart(n) ==
  /\ Reading
  /\ n \in 1 .. rleft /\ n <= Len(pipe)
  /\ LET sofar == rbuf \o SubSeq(pipe, 1, n)
     IN  \/ n = rleft /\ ReadReturns(sofar)
         \/ /\ n < rleft
            /\ rleft' = rleft - n
            /\ rbuf' = sofar
            /\ UNCHANGED <<rseg, received>>
  /\ pipe' = SubSeq(pipe, n + 1, Len(pipe))
  /\ UNCHANGED <<reader, writeVars, broken>>

ReadNothing ==
  /\ Reading /\ rleft = 0
  /\ ReadReturns(<< >>)
  /\ UNCHANGED <<reader, writeVars, pipe, broken>>

\* Mutant: an interrupted read counts as a failed one.
InterruptedReadFails ==
  /\ Reading /\ rleft > 0
  /\ reader' = "failed"
  /\ UNCHANGED <<rseg, rleft, rbuf, received, writeVars, pipe, broken>>

ReadInterrupted == Reading /\ rleft > 0 /\ UNCHANGED vars

\* Mutant: the loop goes on when read returns 0.
EndIgnored ==
  /\ Reading /\ rleft > 0
  /\ writer = "closed" /\ pipe = << >> /\ ~broken
  /\ UNCHANGED vars

\* read returns 0: so does full_read, however much it has read before
ReadEnds ==
  /\ Reading /\ rleft > 0
  /\ writer = "closed" /\ pipe = << >> /\ ~broken
  /\ reader' = "eof"
  /\ UNCHANGED <<rseg, rleft, rbuf, received, writeVars, pipe, broken>>

ReadFails ==
  /\ Reading /\ rleft > 0 /\ broken
  /\ reader' = "failed"
  /\ UNCHANGED <<rseg, rleft, rbuf, received, writeVars, pipe, broken>>

-----------------------------------------------------------------------------
\* The writing end is closed, between two system calls.
Close ==
  /\ writer # "closed"
  /\ writer' = "closed"
  /\ UNCHANGED <<wseg, wleft, wbuf, readVars, pipe, broken>>

\* The connection fails; bytes on their way may be lost.
Break ==
  /\ ~broken
  /\ broken' = TRUE
  /\ pipe' \in {pipe, << >>}
  /\ UNCHANGED <<writeVars, readVars>>

Next ==
  \/ \E n \in 1 .. Window : WritePart(n) \/ ReadPart(n)
  \/ WriteNothing \/ WriteInterrupted \/ WriteFails
  \/ ReadNothing \/ ReadInterrupted \/ ReadEnds \/ ReadFails
  \/ Close \/ Break

Spec == Init /\ [][Next]_vars

\* Both ends go on calling, and system calls return.
FairSpec ==
  /\ Spec
  /\ WF_vars(\E n \in 1 .. Window : WritePart(n))
  /\ WF_vars(WriteNothing \/ WriteFails)
  /\ WF_vars(\E n \in 1 .. Window : ReadPart(n))
  /\ WF_vars(ReadNothing \/ ReadEnds \/ ReadFails)

-----------------------------------------------------------------------------
\* A call of full_read that returns `count' has delivered exactly the bytes
\* that the corresponding call of full_write was given, in order, however both
\* were cut into system calls.
Intact == \A m \in 1 .. Len(received) : received[m] = Content(m)

\* Transfers in parts, retries and interrupted calls do not show: segments are
\* transferred as wholes, a call fails only when the connection has failed,
\* and the end of the stream is met behind all that was written.  A segment
\* that is cut by the end of the stream counts as not written.
Promise == INSTANCE Segments WITH
  Total <- Len(Sizes),
  Empty <- {m \in 1 .. Len(Sizes) : Size(m) = 0},
  sent  <- wseg - 1,
  got   <- Len(received)

ImplementsSegments == Promise!Spec

\* Nobody is stuck in a loop of utils.c: the conversation ends, with all
\* segments delivered or with an end of the connection.
ConversationEnds ==
  <>(\/ reader # "open"
     \/ writer = "failed"
     \/ Len(received) = Len(Sizes))
=============================================================================
