------------------------------ MODULE Segments ------------------------------
(***************************************************************************)
(* What the two ends of a connection rely on when they talk in segments of *)
(* agreed lengths: each call of full_write and full_read transfers one     *)
(* segment as a whole, or fails.  Neither bytes nor system calls appear.   *)
(***************************************************************************)
EXTENDS Naturals

CONSTANTS
  Total,    \* the segments one end wants to send
  Empty     \* those without content: nobody has to wait for them

VARIABLES
  sent,     \* segments that full_write has written
  got,      \* segments that full_read has returned
  writer,   \* "open", "failed" (a call returned an error) or "closed"
  reader,   \* "open", "failed" or "eof"
  broken    \* the connection has failed

vars == <<sent, got, writer, reader, broken>>

Init ==
  /\ sent = 0 /\ got = 0
  /\ writer = "open" /\ reader = "open"
  /\ broken = FALSE

Send ==
  /\ writer = "open" /\ sent < Total
  /\ sent' = sent + 1
  /\ UNCHANGED <<got, writer, reader, broken>>

Deliver ==
  /\ reader = "open"
  /\ got < sent \/ got + 1 \in Empty
  /\ got' = got + 1
  /\ UNCHANGED <<sent, writer, reader, broken>>

SendFails ==
  /\ writer = "open" /\ broken
  /\ writer' = "failed"
  /\ UNCHANGED <<sent, got, reader, broken>>

Close ==
  /\ writer' = "closed"
  /\ UNCHANGED <<sent, got, reader, broken>>

\* The end of the stream is seen only behind everything that was written.
EndOfStream ==
  /\ reader = "open" /\ writer = "closed" /\ got >= sent
  /\ reader' = "eof"
  /\ UNCHANGED <<sent, got, writer, broken>>

DeliveryFails ==
  /\ reader = "open" /\ broken
  /\ reader' = "failed"
  /\ UNCHANGED <<sent, got, writer, broken>>

Break ==
  /\ broken' = TRUE
  /\ UNCHANGED <<sent, got, writer, reader>>

Next == \/ Send \/ Deliver \/ SendFails \/ Close
        \/ EndOfStream \/ DeliveryFails \/ Break

Spec == Init /\ [][Next]_vars
=============================================================================
