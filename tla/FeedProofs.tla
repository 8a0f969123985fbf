----------------------------- MODULE FeedProofs -----------------------------
(***************************************************************************)
(* The abstract feed keeps the library's promise, for any number of        *)
(* clients and of chunks.                                                  *)
(***************************************************************************)
EXTENDS Feed, SequenceTheorems, TLAPS

\* What is in flight goes on behind what was returned last, one by one.
Runs(c) ==
  /\ last[c] # 0 /\ inflight[c] # << >> => inflight[c][1] = After(last[c])
  /\ \A i \in 1 .. Len(inflight[c]) - 1 :
       inflight[c][i + 1] = After(inflight[c][i])

Inv ==
  /\ stage \in [Clients -> {"out", "in", "eof", "left"}]
  /\ inflight \in [Clients -> Seq(1 .. MaxChunk)]
  /\ last \in [Clients -> Nat]
  /\ EndIsBehind
  /\ \A c \in Clients : Runs(c)

\* A client that a step does not touch stays as it is.
LEMMA OtherKeeps ==
  ASSUME NEW c \in Clients, Runs(c),
         last'[c] = last[c], inflight'[c] = inflight[c]
  PROVE  Runs(c)'
  BY DEF Runs

LEMMA PutRuns ==
  ASSUME Inv, NEW c \in Clients, Put(c)
  PROVE  Inv'
<1>1. PICK n \in 1 .. MaxChunk :
        /\ Newest(c) # 0 => n = After(Newest(c))
        /\ inflight' = [inflight EXCEPT ![c] = Append(@, n)]
  BY DEF Put
<1>2. inflight[c] \in Seq(1 .. MaxChunk) /\ Len(inflight[c]) \in Nat
  BY DEF Inv
<1>3. /\ inflight'[c] = Append(inflight[c], n)
      /\ inflight'[c] \in Seq(1 .. MaxChunk)
      /\ Len(inflight'[c]) = Len(inflight[c]) + 1
      /\ \A i \in 1 .. Len(inflight[c]) : inflight'[c][i] = inflight[c][i]
      /\ inflight'[c][Len(inflight[c]) + 1] = n
  BY <1>1, <1>2, AppendProperties DEF Inv
<1>4. Runs(c)'
  <2>1. CASE inflight[c] = << >>
    <3>1. Len(inflight[c]) = 0
      BY <2>1
    <3>2. last'[c] # 0 => inflight'[c][1] = After(last'[c])
      BY <1>1, <1>3, <2>1, <3>1 DEF Put, Newest
    <3> QED BY <1>3, <3>1, <3>2 DEF Runs, After
  <2>2. CASE inflight[c] # << >>
    <3>1. Len(inflight[c]) \in 1 .. Len(inflight[c])
      BY <1>2, <2>2, EmptySeq
    <3>2. inflight[c][Len(inflight[c])] \in 1 .. MaxChunk
      BY <1>2, <3>1, ElementOfSeq
    <3>3. n = After(inflight[c][Len(inflight[c])])
      BY <1>1, <2>2, <3>2 DEF Newest
    <3>4. last'[c] # 0 => inflight'[c][1] = After(last'[c])
      BY <1>2, <1>3, <2>2, <3>1 DEF Put, Inv, Runs, After
    <3>5. ASSUME NEW i \in 1 .. Len(inflight'[c]) - 1
          PROVE  inflight'[c][i + 1] = After(inflight'[c][i])
      <4>1. CASE i = Len(inflight[c])
        BY <1>2, <1>3, <3>1, <3>3, <4>1 DEF After
      <4>2. CASE i # Len(inflight[c])
        <5>1. i \in 1 .. Len(inflight[c]) - 1 /\ i + 1 \in 1 .. Len(inflight[c])
          BY <1>2, <1>3, <4>2
        <5> QED BY <1>2, <1>3, <5>1 DEF Inv, Runs, After
      <4> QED BY <4>1, <4>2
    <3> QED BY <3>4, <3>5 DEF Runs, After
  <2> QED BY <2>1, <2>2
<1>5. ASSUME NEW d \in Clients, d # c PROVE Runs(d)'
  BY <1>1, <1>5, OtherKeeps DEF Inv, Put
<1>6. EndIsBehind'
  BY <1>1 DEF Inv, EndIsBehind, Put
<1>7. inflight' \in [Clients -> Seq(1 .. MaxChunk)]
  BY <1>1, <1>3 DEF Inv
<1> QED BY <1>4, <1>5, <1>6, <1>7 DEF Inv, Put

\* pm_read returns the oldest data set in flight, and by Runs it is the next.
LEMMA GetRuns ==
  ASSUME Inv, NEW c \in Clients, Get(c)
  PROVE  /\ Inv'
         /\ last[c] = 0 \/ last'[c] = After(last[c])
<1>1. inflight[c] \in Seq(1 .. MaxChunk) /\ inflight[c] # << >>
  BY DEF Inv, Get
<1>0. /\ last[c] # 0 => inflight[c][1] = After(last[c])
      /\ \A i \in 1 .. Len(inflight[c]) - 1 :
           inflight[c][i + 1] = After(inflight[c][i])
  BY <1>1 DEF Inv, Runs
<1>2. /\ Len(inflight[c]) \in Nat \ {0} /\ 1 \in 1 .. Len(inflight[c])
      /\ Head(inflight[c]) = inflight[c][1]
  BY <1>1, EmptySeq
<1>3. inflight[c][1] \in 1 .. MaxChunk
  BY <1>1, <1>2, ElementOfSeq
<1>4. /\ inflight'[c] \in Seq(1 .. MaxChunk)
      /\ Len(inflight'[c]) = Len(inflight[c]) - 1
      /\ \A i \in 1 .. Len(inflight[c]) - 1 : inflight'[c][i] = inflight[c][i + 1]
      /\ last'[c] = inflight[c][1]
  BY <1>1, <1>2, HeadTailProperties DEF Inv, Get
<1>5. Runs(c)'
  <2>1. inflight'[c] # << >> => inflight'[c][1] = After(last'[c])
    <3> SUFFICES ASSUME inflight'[c] # << >>
                 PROVE  inflight'[c][1] = After(last'[c])
      OBVIOUS
    <3>1. 1 \in 1 .. Len(inflight[c]) - 1
      BY <1>2, <1>4, EmptySeq
    <3>2. inflight[c][1 + 1] = After(inflight[c][1])
      BY <1>0, <3>1
    <3>3. inflight'[c][1] = inflight[c][1 + 1]
      BY <1>4, <3>1
    <3> QED BY <1>4, <3>2, <3>3
  <2>2. ASSUME NEW i \in 1 .. Len(inflight'[c]) - 1
        PROVE  inflight'[c][i + 1] = After(inflight'[c][i])
    <3>1. i \in 1 .. Len(inflight[c]) - 1 /\ i + 1 \in 1 .. Len(inflight[c]) - 1
      BY <1>2, <1>4
    <3>2. inflight[c][i + 1 + 1] = After(inflight[c][i + 1])
      BY <1>0, <3>1
    <3>3. /\ inflight'[c][i] = inflight[c][i + 1]
          /\ inflight'[c][i + 1] = inflight[c][i + 1 + 1]
      BY <1>4, <3>1
    <3> QED BY <3>2, <3>3
  <2> QED BY <2>1, <2>2 DEF Runs, After
<1>6. ASSUME NEW d \in Clients, d # c PROVE Runs(d)'
  BY <1>6, OtherKeeps DEF Inv, Get
<1>7. Inv'
  BY <1>3, <1>4, <1>5, <1>6 DEF Inv, Get, EndIsBehind
<1> QED BY <1>0, <1>4, <1>7

\* What a connection that fails leaves is the older part of the run.
LEMMA CutRuns ==
  ASSUME Inv, NEW c \in Clients, Cut(c)
  PROVE  Inv'
<1>1. PICK n \in 0 .. Len(inflight[c]) :
        inflight' = [inflight EXCEPT ![c] = SubSeq(@, 1, n)]
  BY DEF Cut
<1>2. inflight[c] \in Seq(1 .. MaxChunk) /\ Len(inflight[c]) \in Nat
  BY DEF Inv
<1>3. \A i \in 1 .. n : inflight[c][i] \in 1 .. MaxChunk
  <2>1. \A i \in 1 .. n : i \in 1 .. Len(inflight[c])
    BY <1>2
  <2> QED BY <1>2, <2>1, ElementOfSeq
<1>4. /\ inflight'[c] \in Seq(1 .. MaxChunk) /\ Len(inflight'[c]) = n
      /\ \A i \in 1 .. n : inflight'[c][i] = inflight[c][i]
  <2>1. inflight'[c] = SubSeq(inflight[c], 1, n)
    BY <1>1 DEF Inv
  <2>2. n \in Nat /\ 1 .. n \subseteq 1 .. Len(inflight[c])
    BY <1>2
  <2>3. /\ SubSeq(inflight[c], 1, n) \in Seq(1 .. MaxChunk)
        /\ Len(SubSeq(inflight[c], 1, n)) = n
        /\ \A i \in 1 .. n : SubSeq(inflight[c], 1, n)[i] = inflight[c][i]
    BY <1>2, <1>3, <2>2
  <2> QED BY <2>1, <2>3
<1>5. Runs(c)'
  <2>1. inflight'[c] # << >> => n # 0 /\ inflight[c] # << >>
    BY <1>2, <1>4, EmptySeq
  <2>2. last'[c] # 0 /\ inflight'[c] # << >> => inflight'[c][1] = After(last'[c])
    BY <1>4, <2>1 DEF Inv, Runs, After, Cut
  <2>3. ASSUME NEW i \in 1 .. Len(inflight'[c]) - 1
        PROVE  inflight'[c][i + 1] = After(inflight'[c][i])
    <3>1. i \in 1 .. Len(inflight[c]) - 1 /\ i \in 1 .. n /\ i + 1 \in 1 .. n
      BY <1>2, <1>4
    <3>2. inflight[c][i + 1] = After(inflight[c][i])
      BY <3>1 DEF Inv, Runs
    <3>3. /\ inflight'[c][i] = inflight[c][i]
          /\ inflight'[c][i + 1] = inflight[c][i + 1]
      BY <1>4, <3>1
    <3> QED BY <3>2, <3>3
  <2> QED BY <2>2, <2>3 DEF Runs, After
<1>6. ASSUME NEW d \in Clients, d # c PROVE Runs(d)'
  BY <1>1, <1>6, OtherKeeps DEF Inv, Cut
<1>7. EndIsBehind'
  <2>1. inflight[c] = << >> => inflight'[c] = << >>
    BY <1>2, <1>4, EmptySeq
  <2> QED BY <1>1, <2>1 DEF Inv, EndIsBehind, Cut
<1> QED BY <1>1, <1>4, <1>5, <1>6, <1>7 DEF Inv, Cut

\* Every step keeps the invariant.
LEMMA InvStep ==
  ASSUME Inv, [Next]_vars
  PROVE  Inv'
<1>1. ASSUME NEW S \in SUBSET Clients, HangUp(S) PROVE Inv'
  BY <1>1 DEF HangUp, Inv, Runs, EndIsBehind
<1>2. ASSUME NEW c \in Clients, Join(c) PROVE Inv'
  BY <1>2 DEF Join, Inv, Runs, EndIsBehind
<1>3. ASSUME NEW c \in Clients, End(c) PROVE Inv'
  BY <1>3 DEF End, Inv, Runs, EndIsBehind
<1>4. ASSUME NEW c \in Clients, Leave(c) PROVE Inv'
  <2>1. Runs(c)'
    BY <1>4 DEF Leave, Inv, Runs
  <2>2. ASSUME NEW d \in Clients, d # c PROVE Runs(d)'
    BY <1>4, <2>2, OtherKeeps DEF Inv, Leave
  <2> QED BY <1>4, <2>1, <2>2 DEF Leave, Inv, EndIsBehind
<1>5. CASE UNCHANGED vars
  BY <1>5 DEF vars, Inv, Runs, EndIsBehind
<1> QED
  BY <1>1, <1>2, <1>3, <1>4, <1>5, PutRuns, GetRuns, CutRuns DEF Next

\* The invariant holds in every state.
LEMMA InvHolds == Spec => []Inv
<1>1. Init => Inv
  BY DEF Init, Inv, Runs, EndIsBehind
<1> QED BY <1>1, InvStep, PTL DEF Spec

\* What is in flight is a run that goes on where the caller is.
THEOREM FlightIsARun == Spec => [](\A c \in Clients : Runs(c))
<1>1. Inv => \A c \in Clients : Runs(c)
  BY DEF Inv
<1> QED BY <1>1, InvHolds, PTL

\* A caller of pm_read is returned a run of data sets.
THEOREM ReadsAreARun == Spec => ReadsInOrder
<1> DEFINE Ordered ==
      \A c \in Clients : Get(c) => last[c] = 0 \/ last'[c] = After(last[c])
<1>1. Inv /\ [Next]_vars => [Ordered]_vars
  BY GetRuns
<1> QED BY <1>1, InvHolds, PTL DEF Spec, ReadsInOrder

\* The end is reported behind everything that was left of the stream.
THEOREM EndComesLast == Spec => []EndIsBehind
<1>1. Inv => EndIsBehind
  BY DEF Inv
<1> QED BY <1>1, InvHolds, PTL
=============================================================================
