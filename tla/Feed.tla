-------------------------------- MODULE Feed --------------------------------
(***************************************************************************)
(* What the library promises its caller, whatever happens to the daemon,   *)
(* the network and the client: after pm_connect has returned, pm_read      *)
(* returns data sets in order and without a gap, and says that this is     *)
(* the end only behind the last one.  No handler, sender, descriptor or    *)
(* segment appears.                                                        *)
(***************************************************************************)
EXTENDS Naturals, Sequences

CONSTANTS
  Clients,
  MaxChunk    \* chunk numbers in use before they start again at 1

VARIABLES
  stage,      \* "out", "in" (pm_connect has returned), "eof" or "left"
  inflight,   \* data sets that were written as a whole, oldest first
  last,       \* the data set pm_read returned last; 0 before the first and
              \* when the client has gone
  cut         \* clients that nothing more is written to

vars == <<stage, inflight, last, cut>>

After(n) == IF n = MaxChunk THEN 1 ELSE n + 1

Newest(c) == IF inflight[c] = << >> THEN last[c]
                                    ELSE inflight[c][Len(inflight[c])]

Init ==
  /\ stage = [c \in Clients |-> "out"]
  /\ inflight = [c \in Clients |-> << >>]
  /\ last = [c \in Clients |-> 0]
  /\ cut = {}

Join(c) ==
  /\ stage[c] = "out" /\ stage' = [stage EXCEPT ![c] = "in"]
  /\ UNCHANGED <<inflight, last, cut>>

\* The first data set may be any; the daemon has been measuring for a while.
\* It may be the last one as it is put.
Put(c) ==
  /\ c \notin cut /\ stage[c] \in {"out", "in"}
  /\ \E n \in 1 .. MaxChunk :
       /\ Newest(c) # 0 => n = After(Newest(c))
       /\ inflight' = [inflight EXCEPT ![c] = Append(@, n)]
  /\ cut' \in {cut, cut \cup {c}}
  /\ UNCHANGED <<stage, last>>

Get(c) ==
  /\ stage[c] = "in" /\ inflight[c] # << >>
  /\ last' = [last EXCEPT ![c] = Head(inflight[c])]
  /\ inflight' = [inflight EXCEPT ![c] = Tail(@)]
  /\ UNCHANGED <<stage, cut>>

\* The daemon hangs up, on all its clients when it ends.
HangUp(S) ==
  /\ cut' = cut \cup S
  /\ UNCHANGED <<stage, inflight, last>>

\* The connection fails, and the newest data is lost.
Cut(c) ==
  /\ cut' = cut \cup {c}
  /\ \E n \in 0 .. Len(inflight[c]) :
       inflight' = [inflight EXCEPT ![c] = SubSeq(@, 1, n)]
  /\ UNCHANGED <<stage, last>>

End(c) ==
  /\ stage[c] = "in" /\ c \in cut /\ inflight[c] = << >>
  /\ stage' = [stage EXCEPT ![c] = "eof"]
  /\ last' = [last EXCEPT ![c] = 0]
  /\ UNCHANGED <<inflight, cut>>

Leave(c) ==
  /\ stage[c] \in {"out", "in"}
  /\ stage' = [stage EXCEPT ![c] = "left"]
  /\ inflight' = [inflight EXCEPT ![c] = << >>]
  /\ last' = [last EXCEPT ![c] = 0]
  /\ cut' \in {cut, cut \cup {c}}

Next ==
  \/ \E S \in SUBSET Clients : HangUp(S)
  \/ \E c \in Clients :
       Join(c) \/ Put(c) \/ Get(c) \/ Cut(c) \/ End(c) \/ Leave(c)

Spec == Init /\ [][Next]_vars

-----------------------------------------------------------------------------
\* What pm_read returns to one caller is a run of data sets without a gap, a
\* repetition or a change of order.
ReadsInOrder ==
  [][\A c \in Clients : Get(c) => last[c] = 0 \/ last'[c] = After(last[c])]_vars

\* When pm_read has said that this is the end, the daemon has hung up or the
\* connection has failed, and everything that was left of the stream has been
\* read.
EndIsBehind ==
  \A c \in Clients : stage[c] = "eof" => c \in cut /\ inflight[c] = << >>
=============================================================================
