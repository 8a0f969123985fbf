----------------------------- MODULE SendBuffer -----------------------------
(***************************************************************************)
(* The buffer between a handler and its sender in daemon/handler.c: an     *)
(* array of input_data_t with a start and a count, whose elements own the  *)
(* two sample arrays they point to.  Elements are taken at the start and   *)
(* put behind the last one; when the end of the array is reached they are  *)
(* moved to its front.                                                     *)
(*                                                                         *)
(* An element is the block of memory that holds its samples.  The array is *)
(* never cleared: what a slot outside of start .. start+count-1 holds is   *)
(* left over from an element that was taken or moved.                      *)
(***************************************************************************)
EXTENDS Integers, Sequences, FiniteSets

CONSTANTS
  BufSize,   \* BUF_SIZE
  Blocks,    \* blocks malloc may return
  Garbage    \* what malloc leaves in an array that is not initialised

ASSUME SizeAssumption == BufSize \in Nat \ {0, 1}
ASSUME GarbageAssumption == Garbage \notin Blocks

VARIABLES
  slots,       \* buf->buffer
  start,       \* buf->start - buf->buffer
  count,       \* buf->count
  allocated,   \* the blocks that have been malloced and not been freed
  held,        \* the block of the element the sender took and writes, in a set
  refused,     \* copy_to_buffer returned ENOBUFS
  open,        \* the handler is in its loop
  sender,      \* the sender exists
  freedTwice   \* free was called with a block that was not allocated

bufferVars == <<slots, start, count>>
vars == <<bufferVars, allocated, held, refused, open, sender, freedTwice>>

Slots == 0 .. BufSize - 1
Live  == start .. start + count - 1

Init ==
  /\ slots = [i \in Slots |-> Garbage]
  /\ start = 0
  /\ count = 0
  /\ allocated = {}
  /\ held = {}
  /\ refused = FALSE
  /\ open = TRUE
  /\ sender = TRUE
  /\ freedTwice = FALSE

\* Mutant: the last place of the array is used.
FitsAtOffByOne(s) == s + count < BufSize

\* buf->start+buf->count+1 < buf->buffer+buf->max_elems
FitsAt(s) == s + count + 1 < BufSize

\* Mutant: the last element is not moved.
MovedOneTooFew ==
  [i \in Slots |-> IF i < count - 1 THEN slots[start + i] ELSE slots[i]]

\* memmove of the live elements; the slots behind them keep what they held
MovedToFront ==
  [i \in Slots |-> IF i < count THEN slots[start + i] ELSE slots[i]]

Free(blocks) ==
  /\ allocated' = allocated \ blocks
  /\ freedTwice' = (freedTwice \/ ~(blocks \subseteq allocated))

-----------------------------------------------------------------------------
\* copy_to_buffer, one critical section: the element fits, or fits after the
\* move to the front, or does not fit and the handler leaves its loop.
CopyAt(s, array, b) ==
  /\ slots' = [array EXCEPT ![s + count] = b]
  /\ start' = s
  /\ count' = count + 1
  /\ allocated' = allocated \cup {b}
  /\ refused' = FALSE
  /\ UNCHANGED <<held, open, sender, freedTwice>>

Copy(b) ==
  /\ open /\ b \notin allocated
  /\ FitsAt(start)
  /\ CopyAt(start, slots, b)

CopyMoved(b) ==
  /\ open /\ b \notin allocated
  /\ ~FitsAt(start) /\ FitsAt(0)
  /\ CopyAt(0, MovedToFront, b)

\* Mutant: ENOBUFS without a try after moving to the front.
CopyRefusedUnmoved ==
  /\ open
  /\ ~FitsAt(start)
  /\ refused' = TRUE
  /\ open' = FALSE
  /\ UNCHANGED <<bufferVars, allocated, held, sender, freedTwice>>

CopyRefused ==
  /\ open
  /\ ~FitsAt(0)
  /\ slots' = MovedToFront
  /\ start' = 0
  /\ refused' = TRUE
  /\ open' = FALSE
  /\ UNCHANGED <<count, allocated, held, sender, freedTwice>>

\* write_buf_element: take the first element under the lock, write it without
\* and free its samples, written or not
Take ==
  /\ sender /\ held = {}
  /\ count > 0
  /\ held' = {slots[start]}
  /\ count' = count - 1
  /\ start' = start + 1
  /\ UNCHANGED <<slots, allocated, refused, open, sender, freedTwice>>

Written ==
  /\ held # {}
  /\ Free(held)
  /\ held' = {}
  /\ UNCHANGED <<bufferVars, refused, open, sender>>

\* The daemon stops, the write fails, or the handler has left: the sender
\* ends between two elements.
SenderEnds ==
  /\ sender /\ held = {}
  /\ sender' = FALSE
  /\ UNCHANGED <<bufferVars, allocated, held, refused, open, freedTwice>>

\* The handler leaves its loop for another reason than ENOBUFS.
HandlerLeaves ==
  /\ open
  /\ open' = FALSE
  /\ UNCHANGED <<bufferVars, allocated, held, refused, sender, freedTwice>>

\* free_buffer, when the sender has been joined.  The descriptor is a local
\* variable of the handler, which ends: nothing of it is used again.
FreeBuffer ==
  /\ ~open /\ ~sender /\ slots # << >>
  /\ Free({slots[i] : i \in Live})
  /\ slots' = << >>
  /\ count' = 0
  /\ start' = 0
  /\ UNCHANGED <<held, refused, open, sender>>

Next ==
  \/ \E b \in Blocks : Copy(b) \/ CopyMoved(b)
  \/ CopyRefused \/ Take \/ Written
  \/ SenderEnds \/ HandlerLeaves \/ FreeBuffer

Spec == Init /\ [][Next]_vars

-----------------------------------------------------------------------------
\* Every variable has its type, and the live elements lie inside the array
\* (handler.c:160-161 assert less).
TypeOK ==
  /\ slots \in [Slots -> Blocks \cup {Garbage}] \cup {<< >>}
  /\ start \in Nat /\ count \in Nat
  /\ start + count < BufSize
  /\ allocated \subseteq Blocks
  /\ held \subseteq Blocks
  /\ refused \in BOOLEAN /\ open \in BOOLEAN
  /\ sender \in BOOLEAN /\ freedTwice \in BOOLEAN

\* The samples a live element or the sender points to are allocated, each
\* block has one owner, and no block is left without one: nothing is freed
\* twice, used after it was freed, or lost, in whatever order the elements are
\* copied, moved, taken and thrown away.
OneOwner ==
  /\ allocated = {slots[i] : i \in Live} \cup held
  /\ Cardinality(allocated) = count + Cardinality(held)
  /\ ~freedTwice

\* The buffer as a queue: the array, start and count behave as a first-in
\* first-out buffer of BufSize - 1 elements; in particular ENOBUFS, which
\* disconnects the client, is only returned when that many are waiting.
Fifo == INSTANCE BoundedFifo WITH
  Elements <- Blocks,
  Capacity <- BufSize - 1,
  fifo     <- [i \in 1 .. count |-> slots[start + i - 1]]

ImplementsFifo == Fifo!Spec
=============================================================================
