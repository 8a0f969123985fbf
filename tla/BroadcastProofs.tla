-------------------------- MODULE BroadcastProofs --------------------------
(***************************************************************************)
(* The abstract broadcast keeps its promise to each subscriber, for any    *)
(* number of subscribers and chunks.                                       *)
(***************************************************************************)
EXTENDS Broadcast, TLAPS

\* What NeverBehind needs to be inductive: nobody owes a look at a chunk that
\* has not been announced, and who is not subscribed has received nothing.
Inv ==
  /\ TypeOK
  /\ NeverBehind
  /\ fresh => owing = {}
  /\ \A h \in Subscribers \ subs : got[h] = NoChunk

\* The next number is a number of a chunk.
LEMMA TickType == \A c \in Chunks \cup {NoChunk} : Tick(c) \in Chunks
  BY BroadcastAssumption DEF Tick, Chunks, NoChunk

\* Every step keeps the invariant.
LEMMA InvStep == Inv /\ [Next]_vars => Inv'
<1> SUFFICES ASSUME Inv, [Next]_vars PROVE Inv'
  OBVIOUS
<1> USE DEF Inv, TypeOK, NeverBehind, IsAnnounced
<1>1. CASE Produce
  BY <1>1, TickType DEF Produce
<1>2. CASE Announce
  BY <1>2 DEF Announce
<1>3. ASSUME NEW h \in Subscribers, Subscribe(h) PROVE Inv'
  BY <1>3 DEF Subscribe
<1>4. ASSUME NEW h \in Subscribers, Receive(h) PROVE Inv'
  BY <1>4 DEF Receive
<1>5. ASSUME NEW h \in Subscribers, Unsubscribe(h) PROVE Inv'
  BY <1>5 DEF Unsubscribe
<1>6. CASE UNCHANGED vars
  BY <1>6 DEF vars
<1> QED BY <1>1, <1>2, <1>3, <1>4, <1>5, <1>6 DEF Next

\* The invariant holds in every state.
LEMMA InvHolds == Spec => []Inv
<1>1. Init => Inv
  BY DEF Init, Inv, TypeOK, NeverBehind
<1> QED BY <1>1, InvStep, PTL DEF Spec

\* A subscriber is at most one chunk behind what was announced, and not at all
\* when it owes nothing.
THEOREM SubscribersKeepUp == Spec => []NeverBehind
<1>1. Inv => NeverBehind
  BY DEF Inv
<1> QED BY <1>1, InvHolds, PTL

\* Each subscriber receives a run of chunks.  Only Receive hands out a chunk,
\* and by NeverBehind it is the one after the last.
THEOREM DeliveryInOrder == Spec => InOrder
<1> DEFINE Ordered ==
      \A h \in Subscribers :
        got'[h] # got[h] =>
          got[h] = NoChunk \/ got'[h] = NoChunk \/ got'[h] = Tick(got[h])
<1>1. Inv /\ [Next]_vars => [Ordered]_vars
  <2> SUFFICES ASSUME Inv, Next PROVE Ordered
    OBVIOUS
  <2>1. CASE Produce \/ Announce
    BY <2>1 DEF Produce, Announce
  <2>2. ASSUME NEW h \in Subscribers, Subscribe(h) PROVE Ordered
    BY <2>2 DEF Subscribe
  <2>3. ASSUME NEW h \in Subscribers, Receive(h) PROVE Ordered
    BY <2>3 DEF Receive, Inv, TypeOK, NeverBehind
  <2>4. ASSUME NEW h \in Subscribers, Unsubscribe(h) PROVE Ordered
    BY <2>4 DEF Unsubscribe, Inv, TypeOK
  <2> QED BY <2>1, <2>2, <2>3, <2>4 DEF Next
<1> QED BY <1>1, InvHolds, PTL DEF Spec, InOrder
=============================================================================
