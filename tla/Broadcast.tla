----------------------------- MODULE Broadcast -----------------------------
(***************************************************************************)
(* What the acquisition thread and the handlers promise together, without  *)
(* threads, locks or buffers: a slot that is filled anew only when nobody  *)
(* owes it a look, and subscribers that each see every chunk announced     *)
(* while they are subscribed, exactly once and in order.                   *)
(*                                                                         *)
(* Daemon implements this specification; see the refinement there.         *)
(***************************************************************************)
EXTENDS Naturals

CONSTANTS
  Subscribers,   \* those that may subscribe
  MaxChunk       \* chunk numbers in use before they start again at 1

ASSUME BroadcastAssumption == MaxChunk \in Nat \ {0, 1}

NoChunk == 0
Chunks  == 1 .. MaxChunk
Tick(c) == IF c = MaxChunk THEN 1 ELSE c + 1

VARIABLES
  current,   \* the chunk in the slot
  fresh,     \* it has not been announced yet
  subs,      \* the subscribers
  owing,     \* those that have yet to receive the chunk
  got        \* the last chunk each subscriber received

vars == <<current, fresh, subs, owing, got>>

Init ==
  /\ current = NoChunk
  /\ fresh = FALSE
  /\ subs = {}
  /\ owing = {}
  /\ got = [h \in Subscribers |-> NoChunk]

Subscribe(h) ==
  /\ h \notin subs
  /\ subs' = subs \cup {h}
  /\ UNCHANGED <<current, fresh, owing, got>>

\* Mutant: the slot is overwritten while somebody has yet to receive it.
ProduceUnasked ==
  /\ ~fresh
  /\ current' = Tick(current)
  /\ fresh' = TRUE
  /\ UNCHANGED <<subs, owing, got>>

Produce ==
  /\ ~fresh /\ owing = {}
  /\ current' = Tick(current)
  /\ fresh' = TRUE
  /\ UNCHANGED <<subs, owing, got>>

Announce ==
  /\ fresh
  /\ fresh' = FALSE
  /\ owing' = subs
  /\ UNCHANGED <<current, subs, got>>

Receive(h) ==
  /\ h \in owing
  /\ owing' = owing \ {h}
  /\ got' = [got EXCEPT ![h] = current]
  /\ UNCHANGED <<current, fresh, subs>>

\* Mutant: what was received is remembered until the next subscription.
UnsubscribeRemembers(h) ==
  /\ h \in subs
  /\ subs' = subs \ {h}
  /\ owing' = owing \ {h}
  /\ UNCHANGED <<current, fresh, got>>

Unsubscribe(h) ==
  /\ h \in subs
  /\ subs' = subs \ {h}
  /\ owing' = owing \ {h}
  /\ got' = [got EXCEPT ![h] = NoChunk]
  /\ UNCHANGED <<current, fresh>>

Next ==
  \/ Produce \/ Announce
  \/ \E h \in Subscribers : Subscribe(h) \/ Receive(h) \/ Unsubscribe(h)

Spec == Init /\ [][Next]_vars

-----------------------------------------------------------------------------
\* Every variable has its type.
TypeOK ==
  /\ current \in Chunks \cup {NoChunk}
  /\ fresh \in BOOLEAN
  /\ subs \subseteq Subscribers
  /\ owing \subseteq subs
  /\ got \in [Subscribers -> Chunks \cup {NoChunk}]

\* The chunk that was announced last: the slot's, or the one before it while
\* the slot's is fresh.  (Nothing has been announced before the first.)
IsAnnounced(c) == IF fresh THEN current = Tick(c) ELSE current = c

\* A subscriber that has received anything is at most one chunk behind: at the
\* announced one when it owes nothing, at the one before it when it does.
NeverBehind ==
  \A h \in subs : got[h] # NoChunk =>
      IF h \in owing THEN ~fresh /\ current = Tick(got[h])
                     ELSE IsAnnounced(got[h])

\* What one subscriber receives is a run of chunks without a gap, a repetition
\* or a change of order.
InOrder ==
  [][\A h \in Subscribers :
       got'[h] # got[h] =>
         got[h] = NoChunk \/ got'[h] = NoChunk \/ got'[h] = Tick(got[h])]_vars
=============================================================================
