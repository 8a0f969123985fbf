-------------------------- MODULE SendBufferProofs --------------------------
(***************************************************************************)
(* The array between a handler and its sender, of any length and with any  *)
(* set of blocks: its live elements lie inside it, every block has one     *)
(* owner and is freed once, and the whole is a bounded queue.              *)
(***************************************************************************)
EXTENDS SendBuffer, SequenceTheorems, FiniteSetTheorems, TLAPS

\* The blocks the live elements of an array point to
Owned(array, s, n) == {array[i] : i \in s .. s + n - 1}

\* The inductive invariant.  OneOwner counts blocks; that the count survives
\* the next step is due to the live elements being distinct, to the sender
\* holding at most one block, which is not in the array any more, and to the
\* array being thrown away only when handler and sender have ended.
BufInv ==
  /\ TypeOK /\ OneOwner
  /\ IsFiniteSet(allocated)
  /\ \A i, j \in Live : slots[i] = slots[j] => i = j
  /\ \A i \in Live : slots[i] \notin held
  /\ held = {} \/ \E b \in Blocks : held = {b}
  /\ ~sender => held = {}
  /\ slots = << >> => count = 0 /\ ~open /\ ~sender

\* An array that is still there is a function on its indices.
LEMMA ArrayThere ==
  ASSUME BufInv, open \/ sender
  PROVE  slots \in [Slots -> Blocks \cup {Garbage}]
BY DEF BufInv, TypeOK

LEMMA InitBufInv == Init => BufInv
<1> SUFFICES ASSUME Init
             PROVE  BufInv
  OBVIOUS
<1>1. Live = {}
  BY DEF Init, Live
<1>2. IsFiniteSet(allocated) /\ Cardinality(allocated) = 0 /\ Cardinality(held) = 0
  BY FS_EmptySet DEF Init
<1>3. slots # << >>
  BY SizeAssumption DEF Init, Slots
<1>4. TypeOK
  <2>1. /\ refused \in BOOLEAN /\ open \in BOOLEAN
        /\ sender \in BOOLEAN /\ freedTwice \in BOOLEAN
    BY DEF Init
  <2>2. /\ slots \in [Slots -> Blocks \cup {Garbage}]
        /\ start \in Nat /\ count \in Nat /\ start + count < BufSize
        /\ allocated = {} /\ held = {}
    BY SizeAssumption DEF Init
  <2> QED BY <2>1, <2>2 DEF TypeOK
<1>5. OneOwner
  BY <1>1, <1>2 DEF Init, OneOwner
<1> QED
  BY <1>1, <1>2, <1>3, <1>4, <1>5 DEF Init, BufInv

\* Both ways to put an element into the array, with and without the move: a
\* new block goes behind n live elements that start at s.
LEMMA CopyAtKeeps ==
  ASSUME BufInv, open, NEW s \in Nat, NEW array \in [Slots -> Blocks \cup {Garbage}],
         FitsAt(s), NEW b \in Blocks, b \notin allocated,
         \A i \in 0 .. count - 1 : array[s + i] = slots[start + i],
         CopyAt(s, array, b)
  PROVE  BufInv'
<1>1. /\ start \in Nat /\ count \in Nat /\ BufSize \in Nat /\ s + count + 1 < BufSize
      /\ allocated \subseteq Blocks /\ held \subseteq allocated
  BY SizeAssumption DEF BufInv, TypeOK, OneOwner, FitsAt
<1>2. /\ slots' \in [Slots -> Blocks \cup {Garbage}]
      /\ slots'[s + count] = b
      /\ \A i \in 0 .. count - 1 : slots'[s + i] = slots[start + i]
      /\ start' = s /\ count' = count + 1
      /\ allocated' = allocated \cup {b}
      /\ refused' = FALSE
      /\ UNCHANGED <<held, open, sender, freedTwice>>
  <2>1. s + count \in Slots /\ \A i \in 0 .. count - 1 : s + i # s + count
    BY <1>1 DEF Slots
  <2>2. slots' = [array EXCEPT ![s + count] = b]
    BY DEF CopyAt
  <2>3. /\ slots' \in [Slots -> Blocks \cup {Garbage}]
        /\ slots'[s + count] = b
    BY <2>1, <2>2
  <2>4. ASSUME NEW i \in 0 .. count - 1
        PROVE  slots'[s + i] = slots[start + i]
    <3>1. s + i \in Slots
      BY <1>1 DEF Slots
    <3> QED BY <2>1, <2>2, <3>1
  <2> QED
    BY <2>3, <2>4 DEF CopyAt
<1>3. Live' = s .. s + count /\ Live = start .. start + count - 1
  BY <1>1, <1>2 DEF Live
<1>4. \A i \in Live' : \/ i = s + count /\ slots'[i] = b
                       \/ /\ i - s \in 0 .. count - 1
                          /\ start + (i - s) \in Live
                          /\ slots'[i] = slots[start + (i - s)]
  <2> SUFFICES ASSUME NEW i \in s .. s + count, i # s + count
               PROVE  /\ i - s \in 0 .. count - 1
                      /\ start + (i - s) \in Live
                      /\ slots'[i] = slots[start + (i - s)]
    BY <1>2, <1>3
  <2>1. i - s \in 0 .. count - 1 /\ s + (i - s) = i
    BY <1>1
  <2> QED
    BY <1>1, <1>2, <1>3, <2>1, SMTT(30)
<1>5. {slots'[i] : i \in Live'} = {slots[i] : i \in Live} \cup {b}
  <2>1. ASSUME NEW i \in Live
        PROVE  \E k \in Live' : slots'[k] = slots[i]
    <3>1. i - start \in 0 .. count - 1 /\ start + (i - start) = i
      BY <1>1, <1>3
    <3>2. s + (i - start) \in Live' /\ slots'[s + (i - start)] = slots[i]
      BY <1>1, <1>2, <1>3, <3>1
    <3> QED BY <3>2
  <2>2. s + count \in Live' /\ slots'[s + count] = b
    BY <1>1, <1>2, <1>3
  <2> QED BY <1>4, <2>1, <2>2
<1>6. IsFiniteSet(allocated') /\ Cardinality(allocated') = Cardinality(allocated) + 1
  BY <1>2, FS_AddElement DEF BufInv
<1>7. TypeOK'
  <2>1. /\ refused' \in BOOLEAN /\ open' \in BOOLEAN
        /\ sender' \in BOOLEAN /\ freedTwice' \in BOOLEAN
    BY <1>2 DEF BufInv, TypeOK
  <2>2. start' \in Nat /\ count' \in Nat /\ start' + count' < BufSize
    BY <1>1, <1>2
  <2>3. allocated' \subseteq Blocks /\ held' \subseteq Blocks
    BY <1>1, <1>2
  <2> QED BY <1>2, <2>1, <2>2, <2>3 DEF TypeOK
<1>8. held \in SUBSET allocated /\ IsFiniteSet(held) /\ Cardinality(held) \in Nat
  BY <1>1, FS_Subset, FS_CardinalityType DEF BufInv
<1>9. OneOwner'
  <2>1. allocated' = {slots'[i] : i \in Live'} \cup held'
    BY <1>2, <1>5 DEF BufInv, OneOwner
  <2>2. Cardinality(allocated') = count' + Cardinality(held')
    BY <1>1, <1>2, <1>6, <1>8 DEF BufInv, OneOwner
  <2> QED
    BY <1>2, <2>1, <2>2 DEF BufInv, OneOwner
<1>10. \A i, j \in Live' : slots'[i] = slots'[j] => i = j
  <2> SUFFICES ASSUME NEW i \in Live', NEW j \in Live', slots'[i] = slots'[j]
               PROVE  i = j
    OBVIOUS
  <2>1. \A k \in Live : slots[k] # b
    BY DEF BufInv, OneOwner
  <2>2. CASE i = s + count \/ j = s + count
    BY <1>2, <1>4, <2>1, <2>2
  <2>3. CASE i # s + count /\ j # s + count
    <3>1. start + (i - s) = start + (j - s)
      BY <1>4, <2>3 DEF BufInv
    <3> QED BY <1>1, <1>3, <3>1
  <2> QED BY <2>2, <2>3
<1>11. \A i \in Live' : slots'[i] \notin held'
  BY <1>1, <1>2, <1>4 DEF BufInv
<1>12. slots' # << >>
  BY <1>1, <1>2 DEF Slots
<1> QED
  BY <1>2, <1>6, <1>7, <1>9, <1>10, <1>11, <1>12 DEF BufInv

\* memmove keeps the elements, their order and the types.
LEMMA MoveKeepsElements ==
  ASSUME BufInv, open
  PROVE  /\ MovedToFront \in [Slots -> Blocks \cup {Garbage}]
         /\ \A i \in 0 .. count - 1 : MovedToFront[i] = slots[start + i]
<1>1. /\ start \in Nat /\ count \in Nat /\ start + count < BufSize
      /\ slots \in [Slots -> Blocks \cup {Garbage}]
  BY ArrayThere DEF BufInv, TypeOK
<1>2. \A i \in 0 .. count - 1 : i \in Slots /\ start + i \in Slots
  BY <1>1, SizeAssumption DEF Slots
<1>3. \A i \in Slots : i < count => i \in 0 .. count - 1
  BY <1>1 DEF Slots
<1> QED
  BY <1>1, <1>2, <1>3 DEF MovedToFront, Slots

LEMMA CopyKeeps ==
  ASSUME BufInv, NEW b \in Blocks, Copy(b) \/ CopyMoved(b)
  PROVE  BufInv'
<1>1. /\ open /\ b \notin allocated /\ start \in Nat
      /\ slots \in [Slots -> Blocks \cup {Garbage}]
  BY ArrayThere DEF Copy, CopyMoved, BufInv, TypeOK
<1>2. CASE Copy(b)
  BY <1>1, <1>2, CopyAtKeeps DEF Copy
<1>3. CASE CopyMoved(b)
  <2>1. \A i \in 0 .. count - 1 : MovedToFront[0 + i] = slots[start + i]
    BY <1>1, MoveKeepsElements
  <2> QED
    BY <1>1, <1>3, <2>1, MoveKeepsElements, CopyAtKeeps DEF CopyMoved
<1> QED BY <1>2, <1>3

LEMMA RefusedKeeps ==
  ASSUME BufInv, CopyRefused
  PROVE  BufInv'
<1>1. /\ open /\ start \in Nat /\ count \in Nat /\ start + count < BufSize
      /\ BufSize \in Nat
  BY SizeAssumption DEF CopyRefused, BufInv, TypeOK
<1>2. /\ slots' \in [Slots -> Blocks \cup {Garbage}]
      /\ \A i \in 0 .. count - 1 : slots'[i] = slots[start + i]
      /\ start' = 0 /\ refused' = TRUE /\ open' = FALSE
      /\ UNCHANGED <<count, allocated, held, sender, freedTwice>>
  BY <1>1, MoveKeepsElements DEF CopyRefused
<1>3. Live' = 0 .. count - 1 /\ Live = start .. start + count - 1
  BY <1>1, <1>2 DEF Live
<1>4. \A i \in Live' : start + i \in Live /\ slots'[i] = slots[start + i]
  BY <1>1, <1>2, <1>3
<1>5. {slots'[i] : i \in Live'} = {slots[i] : i \in Live}
  <2>1. ASSUME NEW i \in Live
        PROVE  i - start \in Live' /\ slots'[i - start] = slots[i]
    <3>1. i - start \in 0 .. count - 1 /\ start + (i - start) = i
      BY <1>1, <1>3
    <3> QED BY <1>2, <1>3, <3>1
  <2> QED BY <1>4, <2>1
<1>6. TypeOK'
  <2>1. /\ refused' \in BOOLEAN /\ open' \in BOOLEAN
        /\ sender' \in BOOLEAN /\ freedTwice' \in BOOLEAN
    BY <1>2 DEF BufInv, TypeOK
  <2>2. start' \in Nat /\ count' \in Nat /\ start' + count' < BufSize
    BY <1>1, <1>2
  <2> QED BY <1>2, <2>1, <2>2 DEF BufInv, TypeOK
<1>7. OneOwner'
  BY <1>2, <1>5 DEF BufInv, OneOwner
<1>8. /\ \A i, j \in Live' : slots'[i] = slots'[j] => i = j
      /\ \A i \in Live' : slots'[i] \notin held'
  <2>1. ASSUME NEW i \in Live', NEW j \in Live', slots'[i] = slots'[j]
        PROVE  i = j
    <3>1. start + i = start + j
      BY <1>4, <2>1 DEF BufInv
    <3> QED BY <1>1, <1>3, <3>1
  <2> QED BY <1>2, <1>4, <2>1 DEF BufInv
<1>9. slots' # << >>
  BY <1>1, <1>2 DEF Slots
<1> QED
  BY <1>2, <1>6, <1>7, <1>8, <1>9 DEF BufInv

LEMMA TakeKeeps ==
  ASSUME BufInv, Take
  PROVE  BufInv'
<1>1. /\ sender /\ held = {} /\ count > 0
      /\ start \in Nat /\ count \in Nat /\ start + count < BufSize
      /\ BufSize \in Nat
      /\ held' = {slots[start]} /\ count' = count - 1 /\ start' = start + 1
      /\ UNCHANGED <<slots, allocated, refused, open, sender, freedTwice>>
  BY SizeAssumption DEF Take, BufInv, TypeOK
<1>2. start \in Live /\ Live' = Live \ {start}
  BY <1>1 DEF Live
<1>3. allocated = {slots[i] : i \in Live} /\ slots[start] \in Blocks
  BY <1>1, <1>2 DEF BufInv, TypeOK, OneOwner
<1>4. allocated = {slots[i] : i \in Live'} \cup held'
  BY <1>1, <1>2, <1>3
<1>5. Cardinality(held) = 0 /\ Cardinality(held') = 1
  BY <1>1, FS_EmptySet, FS_Singleton
<1>6. TypeOK'
  BY <1>1, <1>3 DEF BufInv, TypeOK
<1>7. OneOwner'
  <2>1. Cardinality(allocated) = count + 0
    BY <1>5 DEF BufInv, OneOwner
  <2>2. count' + Cardinality(held') = count + 0
    BY <1>1, <1>5
  <2> QED
    BY <1>1, <1>4, <2>1, <2>2, ZenonT(60) DEF BufInv, OneOwner
<1>8. /\ \A i, j \in Live' : slots'[i] = slots'[j] => i = j
      /\ \A i \in Live' : slots'[i] \notin held'
  BY <1>1, <1>2 DEF BufInv
<1> QED
  BY <1>1, <1>3, <1>6, <1>7, <1>8 DEF BufInv

LEMMA WrittenKeeps ==
  ASSUME BufInv, Written
  PROVE  BufInv'
<1>1. PICK b \in Blocks : held = {b}
  BY DEF BufInv, Written
<1>2. /\ allocated' = allocated \ {b}
      /\ held' = {} /\ b \in allocated
      /\ freedTwice' = freedTwice
      /\ UNCHANGED <<slots, start, count, refused, open, sender>>
  BY <1>1 DEF Written, Free, BufInv, OneOwner, TypeOK, bufferVars
<1>3. Live' = Live
  BY <1>2 DEF Live
<1>4. allocated' = {slots'[i] : i \in Live'} \cup held'
  BY <1>1, <1>2, <1>3 DEF BufInv, OneOwner
<1>5. IsFiniteSet(allocated') /\ Cardinality(allocated') = Cardinality(allocated) - 1
  BY <1>2, FS_RemoveElement DEF BufInv
<1>6. Cardinality(held) = 1 /\ Cardinality(held') = 0
  BY <1>1, <1>2, FS_EmptySet, FS_Singleton
<1>7. TypeOK'
  BY <1>2 DEF BufInv, TypeOK
<1>8. OneOwner'
  <2>1. count \in Nat
    BY DEF BufInv, TypeOK
  <2> QED BY <1>2, <1>4, <1>5, <1>6, <2>1 DEF BufInv, OneOwner
<1> QED
  BY <1>2, <1>3, <1>5, <1>7, <1>8 DEF BufInv

LEMMA EndsKeep ==
  ASSUME BufInv, SenderEnds \/ HandlerLeaves \/ UNCHANGED vars
  PROVE  BufInv'
<1>1. UNCHANGED <<slots, start, count, allocated, held, refused, freedTwice>>
  BY DEF SenderEnds, HandlerLeaves, vars, bufferVars
<1>2. /\ open' = open \/ ~open'
      /\ sender' = sender \/ (~sender' /\ held = {})
      /\ open' \in BOOLEAN /\ sender' \in BOOLEAN
  BY DEF SenderEnds, HandlerLeaves, vars, BufInv, TypeOK
<1>3. Live' = Live
  BY <1>1 DEF Live
<1>4. TypeOK' /\ OneOwner'
  BY <1>1, <1>2, <1>3 DEF BufInv, TypeOK, OneOwner
<1> QED
  BY <1>1, <1>2, <1>3, <1>4 DEF BufInv

LEMMA FreeBufferKeeps ==
  ASSUME BufInv, FreeBuffer
  PROVE  BufInv'
<1>1. /\ ~open /\ ~sender /\ held = {}
      /\ slots' = << >> /\ count' = 0 /\ start' = 0
      /\ UNCHANGED <<held, refused, open, sender>>
  BY DEF FreeBuffer, BufInv
<1>2. allocated = {slots[i] : i \in Live}
  BY <1>1 DEF BufInv, OneOwner
<1>3. allocated' = {} /\ freedTwice' = freedTwice
  BY <1>2 DEF FreeBuffer, Free, BufInv, TypeOK
<1>4. Live' = {}
  BY <1>1 DEF Live
<1>5. IsFiniteSet(allocated') /\ Cardinality(allocated') = 0 /\ Cardinality(held') = 0
  BY <1>1, <1>3, FS_EmptySet
<1>6. TypeOK'
  BY <1>1, <1>3, SizeAssumption DEF BufInv, TypeOK
<1>7. OneOwner'
  BY <1>1, <1>3, <1>4, <1>5 DEF BufInv, OneOwner
<1> QED
  BY <1>1, <1>4, <1>5, <1>6, <1>7 DEF BufInv

LEMMA BufInvHolds == Spec => []BufInv
<1>1. BufInv /\ [Next]_vars => BufInv'
  BY CopyKeeps, RefusedKeeps, TakeKeeps, WrittenKeeps, EndsKeep,
     FreeBufferKeeps DEF Next
<1> QED
  BY InitBufInv, <1>1, PTL DEF Spec

\* The live elements of an array of any length lie inside it: copy_to_buffer
\* and write_buf_element never touch a place outside.
THEOREM ElementsInside == Spec => []TypeOK
<1>1. BufInv => TypeOK
  BY DEF BufInv
<1> QED
  BY BufInvHolds, <1>1, PTL

\* No block is lost, freed twice, or used after it was freed, however
\* copy_to_buffer, write_buf_element and free_buffer are interleaved.
THEOREM BlocksHaveOneOwner == Spec => []OneOwner
<1>1. BufInv => OneOwner
  BY DEF BufInv
<1> QED
  BY BufInvHolds, <1>1, PTL

-----------------------------------------------------------------------------
(***************************************************************************)
(* The array implements the queue.                                         *)
(***************************************************************************)

\* The fifo of the mapping in SendBuffer
Queue == [i \in 1 .. count |-> slots[start + i - 1]]

LEMMA QueueOf ==
  ASSUME NEW array, NEW s \in Int, NEW n \in Nat,
         \A i \in 1 .. n : array[s + i - 1] \in Blocks
  PROVE  LET q == [i \in 1 .. n |-> array[s + i - 1]]
         IN  /\ q \in Seq(Blocks) /\ Len(q) = n
             /\ \A i \in 1 .. n : q[i] = array[s + i - 1]
<1> DEFINE q == [i \in 1 .. n |-> array[s + i - 1]]
<1>1. q \in [1 .. n -> Blocks]
  OBVIOUS
<1>2. q \in Seq(Blocks)
  BY <1>1, SeqDef
<1>3. Len(q) = n
  BY <1>2, LenProperties
<1> QED
  BY <1>2, <1>3

LEMMA QueueTyped ==
  ASSUME BufInv
  PROVE  /\ Queue \in Seq(Blocks) /\ Len(Queue) = count
         /\ \A i \in 1 .. count : Queue[i] = slots[start + i - 1]
<1>1. start \in Nat /\ count \in Nat
  BY DEF BufInv, TypeOK
<1>2. \A i \in Live : slots[i] \in Blocks
  BY DEF BufInv, TypeOK, OneOwner
<1>3. \A i \in 1 .. count : start + i - 1 \in Live
  BY <1>1 DEF Live
<1> QED
  BY <1>1, <1>2, <1>3, QueueOf DEF Queue

LEMMA InitMaps == Init => Fifo!Init
<1> SUFFICES ASSUME Init
             PROVE  Fifo!Init
  OBVIOUS
<1>1. Queue \in Seq(Blocks) /\ Len(Queue) = 0
  BY InitBufInv, QueueTyped DEF Init
<1>2. Queue = << >>
  BY <1>1, EmptySeq
<1> QED
  BY <1>2 DEF Init, Fifo!Init, Queue

\* A copy, with the move or without, puts the element behind the others.
LEMMA CopyPuts ==
  ASSUME BufInv, NEW b \in Blocks, Copy(b) \/ CopyMoved(b)
  PROVE  Fifo!Put(b)
<1>1. /\ open /\ start \in Nat /\ count \in Nat
      /\ BufSize \in Nat
      /\ slots \in [Slots -> Blocks \cup {Garbage}]
  BY SizeAssumption, ArrayThere DEF Copy, CopyMoved, BufInv, TypeOK
<1>2. PICK s \in Nat, array \in [Slots -> Blocks \cup {Garbage}] :
        /\ s + count + 1 < BufSize
        /\ \A i \in 0 .. count - 1 : array[s + i] = slots[start + i]
        /\ slots' = [array EXCEPT ![s + count] = b]
        /\ start' = s /\ count' = count + 1 /\ refused' = FALSE
  <2>1. CASE Copy(b)
    BY <1>1, <2>1 DEF Copy, CopyAt, FitsAt
  <2>2. CASE CopyMoved(b)
    <3>1. \A i \in 0 .. count - 1 : MovedToFront[0 + i] = slots[start + i]
      BY <1>1, MoveKeepsElements
    <3> QED
      BY <1>1, <2>2, <3>1, MoveKeepsElements DEF CopyMoved, CopyAt, FitsAt
  <2> QED BY <2>1, <2>2
<1>3. /\ Len(Queue) = count /\ Queue \in Seq(Blocks)
      /\ \A i \in 1 .. count : Queue[i] = slots[start + i - 1]
  BY QueueTyped
<1>4. /\ slots'[s + count] = b
      /\ \A i \in 0 .. count - 1 : slots'[s + i] = slots[start + i]
  <2>1. s + count \in Slots /\ \A i \in 0 .. count - 1 :
          s + i \in Slots /\ s + i # s + count
    BY <1>1, <1>2 DEF Slots
  <2> QED BY <1>2, <2>1
<1>5. \A i \in 1 .. count + 1 :
        slots'[s + i - 1] = IF i = count + 1 THEN b ELSE Queue[i]
  <2> SUFFICES ASSUME NEW i \in 1 .. count + 1
               PROVE  slots'[s + i - 1] = IF i = count + 1 THEN b ELSE Queue[i]
    OBVIOUS
  <2>1. CASE i = count + 1
    <3>1. s + i - 1 = s + count
      BY <1>1, <2>1
    <3> QED BY <1>4, <2>1, <3>1
  <2>2. CASE i # count + 1
    <3>1. /\ i - 1 \in 0 .. count - 1 /\ i \in 1 .. count
          /\ s + i - 1 = s + (i - 1) /\ start + i - 1 = start + (i - 1)
      BY <1>1, <2>2
    <3>2. slots'[s + (i - 1)] = slots[start + (i - 1)]
      BY <1>4, <3>1
    <3> QED BY <1>3, <2>2, <3>1, <3>2
  <2> QED BY <2>1, <2>2
<1>6. \A i \in 1 .. count + 1 : slots'[s + i - 1] \in Blocks
  <2>1. \A i \in 1 .. count : Queue[i] \in Blocks
    BY <1>3, ElementOfSeq
  <2>2. \A i \in 1 .. count + 1 : i # count + 1 => i \in 1 .. count
    BY <1>1
  <2> QED BY <1>5, <2>1, <2>2
<1>7. /\ Queue' = [i \in 1 .. count + 1 |-> slots'[s + i - 1]]
      /\ count + 1 \in Nat
  BY <1>1, <1>2 DEF Queue
<1>8. /\ Queue' \in Seq(Blocks) /\ Len(Queue') = count + 1
      /\ \A i \in 1 .. count + 1 : Queue'[i] = slots'[s + i - 1]
  BY <1>6, <1>7, QueueOf
<1>9. Queue' = Append(Queue, b)
  <2>1. /\ Append(Queue, b) \in Seq(Blocks)
        /\ Len(Append(Queue, b)) = count + 1
        /\ \A i \in 1 .. count : Append(Queue, b)[i] = Queue[i]
        /\ Append(Queue, b)[count + 1] = b
    BY <1>3, AppendProperties
  <2>2. \A i \in 1 .. count + 1 : Queue'[i] = Append(Queue, b)[i]
    <3>1. \A i \in 1 .. count + 1 : i # count + 1 => i \in 1 .. count
      BY <1>1
    <3> QED BY <1>5, <1>8, <2>1, <3>1
  <2> QED BY <1>8, <2>1, <2>2, SeqEqual
<1>10. Len(Queue) < BufSize - 1
  BY <1>1, <1>2, <1>3
<1> QED
  BY <1>2, <1>9, <1>10 DEF Fifo!Put, Queue

\* Only a full array is refused: what the move to the front keeps is then
\* BufSize - 1 elements.
LEMMA RefusedRefuses ==
  ASSUME BufInv, CopyRefused
  PROVE  Fifo!Refuse
<1>1. /\ open /\ start \in Nat /\ count \in Nat /\ start + count < BufSize
      /\ BufSize \in Nat /\ count + 1 >= BufSize
  BY SizeAssumption DEF CopyRefused, FitsAt, BufInv, TypeOK
<1>2. Len(Queue) = BufSize - 1
  BY <1>1, QueueTyped
<1>3. \A i \in 1 .. count : slots'[start' + i - 1] = slots[start + i - 1]
  <2> SUFFICES ASSUME NEW i \in 1 .. count
               PROVE  slots'[0 + i - 1] = slots[start + i - 1]
    BY DEF CopyRefused
  <2>1. /\ i - 1 \in 0 .. count - 1 /\ 0 + i - 1 = i - 1
        /\ start + i - 1 = start + (i - 1)
    BY <1>1
  <2> QED
    BY <1>1, <2>1, MoveKeepsElements DEF CopyRefused
<1>4. Queue' = Queue
  BY <1>3 DEF CopyRefused, Queue
<1> QED
  BY <1>2, <1>4 DEF CopyRefused, Fifo!Refuse, Queue

LEMMA TakeTakes ==
  ASSUME BufInv, Take
  PROVE  Fifo!Take
<1>1. /\ start \in Nat /\ count \in Nat /\ count > 0
      /\ start' = start + 1 /\ count' = count - 1 /\ slots' = slots
      /\ refused' = refused
  BY DEF Take, BufInv, TypeOK
<1>2. /\ Queue \in Seq(Blocks) /\ Len(Queue) = count
      /\ \A i \in 1 .. count : Queue[i] = slots[start + i - 1]
  BY QueueTyped
<1>3. Queue # << >>
  BY <1>1, <1>2, EmptySeq
<1>4. /\ Tail(Queue) \in Seq(Blocks) /\ Len(Tail(Queue)) = count - 1
      /\ \A i \in 1 .. count - 1 : Tail(Queue)[i] = Queue[i + 1]
  BY <1>2, <1>3, HeadTailProperties
<1>5. \A i \in 1 .. count - 1 : slots[start + 1 + i - 1] = Tail(Queue)[i]
  <2> SUFFICES ASSUME NEW i \in 1 .. count - 1
               PROVE  slots[start + 1 + i - 1] = Tail(Queue)[i]
    OBVIOUS
  <2>1. i + 1 \in 1 .. count /\ start + 1 + i - 1 = start + (i + 1) - 1
    BY <1>1
  <2> QED BY <1>2, <1>4, <2>1
<1>6. \A i \in 1 .. count - 1 : slots[start + 1 + i - 1] \in Blocks
  BY <1>4, <1>5, ElementOfSeq
<1>7. /\ Queue' = [i \in 1 .. count - 1 |-> slots[start + 1 + i - 1]]
      /\ count - 1 \in Nat /\ start + 1 \in Int
  BY <1>1 DEF Queue
<1>8. /\ Queue' \in Seq(Blocks) /\ Len(Queue') = count - 1
      /\ \A i \in 1 .. count - 1 : Queue'[i] = slots[start + 1 + i - 1]
  BY <1>6, <1>7, QueueOf
<1>9. Queue' = Tail(Queue)
  BY <1>4, <1>5, <1>8, SeqEqual
<1> QED
  BY <1>1, <1>3, <1>9 DEF Fifo!Take, Queue

\* When the buffer is thrown away the queue is cleared.
LEMMA FreeClears ==
  ASSUME FreeBuffer
  PROVE  Fifo!Clear
<1>1. count' = 0 /\ refused' = refused
  BY DEF FreeBuffer
<1>2. Queue' = << >>
  <2>1. Queue' = [i \in 1 .. 0 |-> slots'[start' + i - 1]]
    BY <1>1 DEF Queue
  <2>2. Queue' \in Seq(Blocks) /\ Len(Queue') = 0
    BY <2>1, SeqDef, LenProperties
  <2> QED BY <2>2, EmptySeq
<1> QED
  BY <1>1, <1>2 DEF Fifo!Clear, Queue

\* Nothing else shows.
LEMMA RestStutters ==
  ASSUME Written \/ SenderEnds \/ HandlerLeaves \/ UNCHANGED vars
  PROVE  UNCHANGED Fifo!vars
BY DEF Written, SenderEnds, HandlerLeaves, vars, bufferVars, Fifo!vars

\* The array with start and count is a bounded queue, for any length of the
\* array: elements come out as they went in (copy_to_buffer and
\* write_buf_element), and ENOBUFS is returned only when BUF_SIZE - 1 of them
\* are waiting.
THEOREM ArrayIsAQueue == Spec => ImplementsFifo
<1>1. BufInv /\ BufInv' /\ [Next]_vars => [Fifo!Next]_(Fifo!vars)
  <2> SUFFICES ASSUME BufInv, BufInv', [Next]_vars
               PROVE  [Fifo!Next]_(Fifo!vars)
    OBVIOUS
  <2>1. ASSUME NEW b \in Blocks, Copy(b) \/ CopyMoved(b)
        PROVE  Fifo!Next
    BY <2>1, CopyPuts DEF Fifo!Next
  <2>2. CASE CopyRefused
    BY <2>2, RefusedRefuses DEF Fifo!Next
  <2>3. CASE Take
    BY <2>3, TakeTakes DEF Fifo!Next
  <2>4. CASE FreeBuffer
    BY <2>4, FreeClears DEF Fifo!Next
  <2>5. CASE Written \/ SenderEnds \/ HandlerLeaves \/ UNCHANGED vars
    BY <2>5, RestStutters
  <2> QED
    BY <2>1, <2>2, <2>3, <2>4, <2>5 DEF Next
<1> QED
  BY InitMaps, BufInvHolds, <1>1, PTL DEF Spec, ImplementsFifo, Fifo!Spec
=============================================================================
