---------------------------- MODULE BoundedFifo ----------------------------
(***************************************************************************)
(* A bounded first-in first-out buffer as its two users see it: the writer *)
(* is refused only when Capacity elements are in it.                       *)
(***************************************************************************)
EXTENDS Naturals, Sequences

CONSTANTS Elements, Capacity

VARIABLES
  fifo,      \* the elements, oldest first
  refused    \* the last attempt to put an element was refused

vars == <<fifo, refused>>

Init == fifo = << >> /\ refused = FALSE

Put(e) ==
  /\ Len(fifo) < Capacity
  /\ fifo' = Append(fifo, e)
  /\ refused' = FALSE

Refuse ==
  /\ Len(fifo) = Capacity
  /\ refused' = TRUE
  /\ UNCHANGED fifo

Take ==
  /\ fifo # << >>
  /\ fifo' = Tail(fifo)
  /\ UNCHANGED refused

Clear == fifo' = << >> /\ UNCHANGED refused

Next == (\E e \in Elements : Put(e)) \/ Refuse \/ Take \/ Clear

Spec == Init /\ [][Next]_vars
=============================================================================
