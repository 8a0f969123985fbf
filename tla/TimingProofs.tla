---------------------------- MODULE TimingProofs ----------------------------
(***************************************************************************)
(* Proofs about Timing, for every length of a second, every timeout that   *)
(* the assumption WaitAssumption admits, and every width of the integers.  *)
(***************************************************************************)
EXTENDS Timing, TLAPS

\* A time is its seconds and a rest below one second.
LEMMA TimespecParts ==
  ASSUME NEW t \in Nat
  PROVE  /\ Timespec(t).sec \in Nat
         /\ Timespec(t).nsec \in 0 .. Second - 1
         /\ Nanos(Timespec(t)) = t
  BY SecondAssumption DEF Timespec, Nanos

\* Numbers that fit into an unsigned long keep their value in it, negative
\* ones wrap once.
LEMMA ULongSmall ==
  ASSUME NEW x \in 0 .. Width - 1
  PROVE  ULong(x) = x
  BY WidthAssumption DEF ULong

LEMMA ULongNegative ==
  ASSUME NEW x \in Int, -Width <= x, x < 0
  PROVE  ULong(x) = x + Width
  BY WidthAssumption DEF ULong

\* What abs_wait_timeout returns: a valid time, WAIT_TIMEOUT from now, and its
\* assertion holds.  Behind a carry nsec has become t.nsec + WaitNsec - Second,
\* which is at most WaitNsec - 1; adding WaitNsec again stays below a second
\* just because 2 * WaitNsec <= Second.
LEMMA TimeoutSum ==
  ASSUME NEW t \in [sec : Nat, nsec : 0 .. Second - 1]
  PROVE  /\ AbsWaitTimeout(t).sec \in Nat
         /\ AbsWaitTimeout(t).nsec \in 0 .. Second - 1
         /\ Nanos(AbsWaitTimeout(t)) = Nanos(t) + WaitSec * Second + WaitNsec
         /\ AssertsTimeout(t)
<1> DEFINE n == t.nsec
<1>0. /\ t.sec \in Nat /\ n \in Nat /\ n < Second
      /\ Second \in Nat /\ Width \in Nat /\ WaitSec \in Nat /\ WaitNsec \in Nat
      /\ 2 * WaitNsec <= Second /\ Second > 0 /\ Width > 2 * Second
  BY SecondAssumption, WaitAssumption, WidthAssumption
<1>1. ULong(n + WaitNsec) = n + WaitNsec
  BY <1>0, ULongSmall
<1>2. CASE n + WaitNsec >= Second
  <2>1. ULong(WaitNsec - Second) = WaitNsec - Second + Width
    BY <1>0, ULongNegative
  <2>2. ULong(n) = n
    BY <1>0, ULongSmall
  <2>3. ULong(n + (WaitNsec - Second + Width)) = n + WaitNsec - Second
    <3> DEFINE r == n + WaitNsec - Second
    <3>1. r \in 0 .. Width - 1
      BY <1>0, <1>2
    <3>2. (r + Width) % Width = r
      BY <3>1, <1>0
    <3> QED
      BY <3>2, <1>0 DEF ULong
  <2>4. Long(n + WaitNsec - Second) = n + WaitNsec - Second
    BY <1>0, <1>2, WidthAssumption DEF Long
  <2>5. AbsWaitTimeout(t) = [sec  |-> t.sec + WaitSec + 1,
                             nsec |-> n + WaitNsec - Second]
    BY <1>1, <1>2, <2>1, <2>2, <2>3, <2>4 DEF AbsWaitTimeout
  <2>6. ULong(n + WaitNsec - Second + WaitNsec) < Second
    <3>1. n + WaitNsec - Second + WaitNsec \in 0 .. Second - 1
      BY <1>0, <1>2
    <3> QED
      BY <1>0, <3>1, ULongSmall
  <2> QED
    BY <1>0, <1>2, <2>5, <2>6 DEF Nanos, AssertsTimeout
<1>3. CASE n + WaitNsec < Second
  <2>1. AbsWaitTimeout(t) = [sec |-> t.sec + WaitSec, nsec |-> n + WaitNsec]
    BY <1>0, <1>1, <1>3 DEF AbsWaitTimeout
  <2> QED
    BY <1>0, <1>1, <1>3, <2>1 DEF Nanos, AssertsTimeout
<1> QED
  BY <1>0, <1>2, <1>3

-----------------------------------------------------------------------------
\* The timed waits of sync.c get a valid timeout, WAIT_TIMEOUT from the moment
\* it was computed, whatever the clock shows.
TimeoutInv == now \in Nat /\ DeadlineExact

THEOREM TimeoutsExact == Spec => []DeadlineExact
<1>1. Init => TimeoutInv
  BY SecondAssumption DEF Init, TimeoutInv, DeadlineExact
<1>2. TimeoutInv /\ [Next]_vars => TimeoutInv'
  <2> SUFFICES ASSUME TimeoutInv, [Next]_vars PROVE TimeoutInv'
    OBVIOUS
  <2> USE DEF TimeoutInv
  <2>1. CASE BarrierSleeps
    <3>1. Timespec(now) \in [sec : Nat, nsec : 0 .. Second - 1]
      BY TimespecParts DEF Timespec
    <3>2. /\ AbsWaitTimeout(Timespec(now)).nsec \in 0 .. Second - 1
          /\ Nanos(AbsWaitTimeout(Timespec(now)))
               = now + WaitSec * Second + WaitNsec
          /\ AssertsTimeout(Timespec(now))
      BY <3>1, TimeoutSum, TimespecParts
    <3>3. slept' = now /\ deadline' = AbsWaitTimeout(Timespec(now)) /\ now' = now
      BY <2>1 DEF BarrierSleeps
    <3>4. DeadlineExact'
      BY <3>2, <3>3 DEF DeadlineExact, AssertsTimeout, AbsWaitTimeout, Timespec,
                        Nanos, ULong, Long
    <3> QED
      BY <3>3, <3>4
  <2>2. CASE TimePasses \/ BarrierWakes \/ UNCHANGED vars
    BY <2>2 DEF TimePasses, BarrierWakes, vars, waitVars, DeadlineExact,
                Nanos,                 AssertsTimeout
  <2>3. CASE BarrierOpens \/ DummyReadSleeps \/ DummyReadReturns
               \/ \E n \in Points : NiReadReturns(n)
    BY <2>3 DEF BarrierOpens, DummyReadSleeps, DummyReadReturns, NiReadReturns,
                DeadlineExact
  <2> QED
    BY <2>1, <2>2, <2>3 DEF Next
<1>3. TimeoutInv => DeadlineExact
  BY DEF TimeoutInv
<1> QED
  BY <1>1, <1>2, <1>3, PTL DEF Spec

-----------------------------------------------------------------------------
Records == [timestamp : Nat, points : Nat, total : Nat, chunks : Nat]

\* Dividing keeps all but a rest smaller than the divisor.
LEMMA DivisionRest ==
  ASSUME NEW a \in Nat, NEW b \in Nat \ {0}
  PROVE  /\ a \div b \in Nat
         /\ (a \div b) * b <= a
         /\ a - (a \div b) * b <= b - 1
  OBVIOUS

LEMMA Distributes ==
  ASSUME NEW x \in Int, NEW y \in Int, NEW z \in Int
  PROVE  (x + y) * z = x * z + y * z
  OBVIOUS

\* A product with a positive factor is at least the other factor.
LEMMA ProductMonotone ==
  ASSUME NEW x \in Nat \ {0}, NEW z \in Nat
  PROVE  x * z \in Nat /\ x * z >= z
  OBVIOUS

\* What one chunk adds to the timestamp, times Rate, falls short of the time of
\* its samples by less than Rate.
LEMMA ChunkTruncates ==
  ASSUME NEW n \in Nat \ {0}
  PROVE  LET q == (Second * n) \div Rate
         IN  /\ q \in Nat /\ q * Rate <= Second * n
             /\ Second * n - q * Rate <= Rate - 1
<1>1. Second * n \in Nat /\ Rate \in Nat \ {0}
  BY SecondAssumption, RateAssumption, ProductMonotone
<1> QED BY <1>1, DivisionRest

\* Per chunk less than a nanosecond is lost, whatever the sizes of the chunks.
TruncationInv == record \in Records /\ TruncationBounded

LEMMA PublishTruncates ==
  ASSUME TruncationInv, NEW n \in Nat \ {0}, Publish(n)
  PROVE  TruncationInv'
<1> DEFINE q == (Second * n) \div Rate
           ts == record.timestamp
           tot == record.total
           no == record.chunks
<1>0. /\ ts \in Nat /\ tot \in Nat /\ no \in Nat
      /\ Rate \in Nat \ {0} /\ Second \in Nat \ {0}
  BY SecondAssumption, RateAssumption DEF TruncationInv, Records
<1>1. q \in Nat /\ q * Rate <= Second * n /\ Second * n - q * Rate <= Rate - 1
  BY ChunkTruncates
<1>2. /\ record' \in Records
      /\ record'.timestamp = ts + q
      /\ record'.total = tot + n
      /\ record'.chunks = no + 1
  BY <1>0, <1>1 DEF Publish, Records, TruncationInv
<1>3. /\ ts \in Int /\ q \in Int /\ tot \in Int /\ n \in Int /\ no \in Int
      /\ Rate \in Int /\ Second \in Int /\ Rate - 1 \in Int
  BY <1>0, <1>1
<1>4. /\ ts * Rate <= tot * Second
      /\ tot * Second - ts * Rate <= no * (Rate - 1)
  BY DEF TruncationInv, TruncationBounded
<1>5. /\ (ts + q) * Rate <= (tot + n) * Second
      /\ (tot + n) * Second - (ts + q) * Rate <= (no + 1) * (Rate - 1)
  <2> HIDE DEF q, ts, tot, no
  <2>1. (ts + q) * Rate = ts * Rate + q * Rate
    BY <1>3, Distributes
  <2>2. (tot + n) * Second = tot * Second + Second * n
    <3>1. n * Second = Second * n
      BY <1>3
    <3> QED BY <1>3, <3>1, Distributes
  <2>3. (no + 1) * (Rate - 1) = no * (Rate - 1) + (Rate - 1)
    <3>1. 1 * (Rate - 1) = Rate - 1
      BY <1>3
    <3> QED BY <1>3, <3>1, Distributes
  <2>4. /\ ts * Rate \in Int /\ tot * Second \in Int /\ q * Rate \in Int
        /\ no * (Rate - 1) \in Int /\ Second * n \in Int
    BY <1>3
  <2> QED
    BY <1>1, <1>3, <1>4, <2>1, <2>2, <2>3, <2>4
<1> QED
  BY <1>2, <1>5 DEF TruncationInv, TruncationBounded

\* However many chunks there have been and however long they were, the
\* timestamp is behind their samples by less than a nanosecond for each.
THEOREM TruncationStaysBounded == Spec => []TruncationBounded
<1>1. Init => TruncationInv
  <2> SUFFICES ASSUME Init PROVE TruncationInv
    OBVIOUS
  <2>1. record \in Records /\ record.timestamp = 0 /\ record.total = 0
          /\ record.chunks = 0
    BY DEF Init, Records
  <2>2. 0 * Second = 0 /\ 0 * Rate = 0 /\ 0 * (Rate - 1) = 0
    BY SecondAssumption, RateAssumption
  <2> QED
    BY <2>1, <2>2 DEF TruncationInv, TruncationBounded
<1>2. TruncationInv /\ [Next]_vars => TruncationInv'
  <2> SUFFICES ASSUME TruncationInv, [Next]_vars PROVE TruncationInv'
    OBVIOUS
  <2>1. CASE DummyReadReturns
    BY <2>1, PublishTruncates, RateAssumption DEF DummyReadReturns
  <2>2. ASSUME NEW n \in Points, NiReadReturns(n) PROVE TruncationInv'
    BY <2>2, PublishTruncates, RateAssumption DEF NiReadReturns
  <2>3. CASE record' = record
    BY <2>3 DEF TruncationInv, TruncationBounded
  <2> QED
    BY <2>1, <2>2, <2>3 DEF Next, vars, waitVars, BarrierSleeps, BarrierWakes,
       BarrierOpens, DummyReadSleeps, TimePasses
<1>3. TruncationInv => TruncationBounded
  BY DEF TruncationInv
<1> QED
  BY <1>1, <1>2, <1>3, PTL DEF Spec

-----------------------------------------------------------------------------
\* The schedule of the test device and the timestamps stay together.
ScheduleInv ==
  /\ now \in Nat /\ now >= Second
  /\ begun \in Nat /\ record \in Records
  /\ tnext \in [sec : Nat, nsec : Nat]
  /\ ScheduleMatches
  /\ device = "dummy" /\ tnext.sec = 0 => place # "sleeping" /\ record.timestamp = 0

LEMMA SecondOfData == (Second * Rate) \div Rate = Second
  BY SecondAssumption, RateAssumption

THEOREM ScheduleHolds == Spec => []ScheduleMatches
<1>1. Init => ScheduleInv
  BY SecondAssumption
     DEF Init, ScheduleInv, ScheduleMatches, Timespec, Records
<1>2. ScheduleInv /\ [Next]_vars => ScheduleInv'
  <2> SUFFICES ASSUME ScheduleInv, [Next]_vars PROVE ScheduleInv'
    OBVIOUS
  <2> USE DEF ScheduleInv
  <2>0. Second \in Nat \ {0}
    BY SecondAssumption
  <2>1. CASE DummyReadSleeps
    <3> DEFINE from == IF tnext.sec = 0 THEN Timespec(now) ELSE tnext
    <3>1. from \in [sec : Nat, nsec : Nat] /\ from.sec # 0
      <4>1. Timespec(now) \in [sec : Nat, nsec : Nat]
        BY TimespecParts, <2>0 DEF Timespec
      <4>2. now \div Second # 0
        BY <2>0
      <4> QED
        BY <4>1, <4>2 DEF Timespec
    <3>2. /\ tnext' = [sec |-> from.sec + 1, nsec |-> from.nsec]
          /\ begun' = IF tnext.sec = 0 THEN now ELSE begun
          /\ place = "read" /\ place' = "sleeping" /\ device = "dummy"
          /\ UNCHANGED <<device, now, record>>
      BY <2>1 DEF DummyReadSleeps
    <3>3. Nanos(from) = begun' + record.timestamp
      <4>1. CASE tnext.sec = 0
        BY <4>1, <3>2, TimespecParts DEF Records
      <4>2. CASE tnext.sec # 0
        BY <4>2, <3>2 DEF ScheduleMatches, Records
      <4> QED
        BY <4>1, <4>2
    <3>4. Nanos(tnext') = Nanos(from) + Second
      <4> HIDE DEF from
      <4> QED
        BY <2>0, <3>1, <3>2 DEF Nanos
    <3> HIDE DEF from
    <3>5. /\ begun' \in Nat /\ tnext' \in [sec : Nat, nsec : Nat]
          /\ tnext'.sec # 0
      BY <3>1, <3>2
    <3>6. Nanos(tnext') = begun' + record'.timestamp + Second
      BY <3>2, <3>3, <3>4
    <3>7. ScheduleMatches'
      BY <3>2, <3>6 DEF ScheduleMatches, Nanos
    <3> QED
      BY <3>2, <3>5, <3>7
  <2>2. CASE DummyReadReturns
    <3>1. /\ record'.timestamp = record.timestamp + Second
          /\ record' \in Records
      BY <2>2, SecondOfData, RateAssumption, <2>0
         DEF DummyReadReturns, Publish, Records
    <3>2. /\ place = "sleeping" /\ place' = "barrier" /\ now >= Nanos(tnext)
          /\ UNCHANGED <<device, now, tnext, begun>>
      BY <2>2 DEF DummyReadReturns
    <3>3. device = "dummy" => Nanos(tnext) = begun + record.timestamp + Second
      BY <3>2 DEF ScheduleMatches
    <3>4. ScheduleMatches'
      BY <3>1, <3>2, <3>3, <2>0 DEF ScheduleMatches, Nanos, Records
    <3> QED
      BY <3>1, <3>2, <3>4
  <2>3. ASSUME NEW n \in Points, NiReadReturns(n) PROVE ScheduleInv'
    <3>1. record' \in Records
      <4>1. n \in Nat \ {0} /\ (Second * n) \div Rate \in Nat
        BY RateAssumption, <2>0, DivisionRest, ProductMonotone
      <4> QED
        BY <2>3, <4>1 DEF NiReadReturns, Publish, Records
    <3> QED
      BY <2>3, <3>1 DEF NiReadReturns, ScheduleMatches
  <2>4. CASE TimePasses
    BY <2>4, <2>0 DEF TimePasses, ScheduleMatches, Nanos, Records
  <2>5. CASE BarrierSleeps \/ BarrierWakes \/ BarrierOpens \/ UNCHANGED vars
    BY <2>5 DEF BarrierSleeps, BarrierWakes, BarrierOpens, vars,
                waitVars, ScheduleMatches, Nanos
  <2> QED
    BY <2>1, <2>2, <2>3, <2>4, <2>5 DEF Next
<1>3. ScheduleInv => ScheduleMatches
  BY DEF ScheduleInv
<1> QED
  BY <1>1, <1>2, <1>3, PTL DEF Spec

-----------------------------------------------------------------------------
\* Every chunk of the built-in device is a second of samples.
RowsInv ==
  /\ record \in Records
  /\ device = "dummy" => record.points \in {0, Rate}

\* A chunk that continues another one.  Its first row is as far behind the last
\* row of the other as q * Rate is behind the time of its own samples.
LEMMA PublishSpaces ==
  ASSUME record \in Records, NEW n \in Nat \ {0}, Publish(n)
  PROVE  LET q    == (Second * n) \div Rate
             gap  == RowTime(record', 0) - RowTime(record, record.points - 1)
             even == Second + (record'.points - record.points) * Second
         IN  /\ record' \in Records /\ record'.points = n
             /\ gap \in Int /\ even \in Int
             /\ even - gap = Second * n - q * Rate
<1> DEFINE q == (Second * n) \div Rate
           ts == record.timestamp
           p == record.points
<1>1. q \in Nat
  BY ChunkTruncates
<1>2. /\ record' \in Records
      /\ record'.timestamp = ts + q /\ record'.points = n
  BY <1>1 DEF Publish, Records
<1>3. /\ ts \in Int /\ q \in Int /\ p \in Int /\ n \in Int
      /\ Rate \in Int /\ Second \in Int /\ p - 1 \in Int /\ n - p \in Int
  BY <1>1, SecondAssumption, RateAssumption DEF Records
<1>4. /\ RowTime(record', 0) = (ts + q) * Rate + 0 * Second
      /\ RowTime(record, record.points - 1) = ts * Rate + (p - 1) * Second
  BY <1>2 DEF RowTime
<1> HIDE DEF q, ts, p
<1>5. (ts + q) * Rate = ts * Rate + q * Rate
  BY <1>3, Distributes
<1>6. Second * n = (n - p) * Second + (p - 1) * Second + Second
  <2>1. ((n - p) + (p - 1)) * Second = (n - p) * Second + (p - 1) * Second
    BY <1>3, Distributes
  <2>2. ((n - 1) + 1) * Second = (n - 1) * Second + 1 * Second
    BY <1>3, Distributes
  <2>3. (n - p) + (p - 1) = n - 1 /\ (n - 1) + 1 = n /\ 1 * Second = Second
          /\ n * Second = Second * n
    BY <1>3
  <2> QED BY <1>3, <2>1, <2>2, <2>3
<1>7. /\ ts * Rate \in Int /\ q * Rate \in Int /\ (p - 1) * Second \in Int
      /\ (n - p) * Second \in Int /\ Second * n \in Int
      /\ 0 * Second = 0 /\ (ts + q) * Rate \in Int
  BY <1>3
<1>8. LET gap  == RowTime(record', 0) - RowTime(record, record.points - 1)
          even == Second + (n - p) * Second
      IN  gap \in Int /\ even \in Int /\ even - gap = Second * n - q * Rate
  BY <1>3, <1>4, <1>5, <1>6, <1>7
<1> QED BY <1>2, <1>8 DEF q, p

\* The rows of the output go on one sample apart across chunks of the same
\* length, whichever device there is and whatever the rate.
THEOREM RowsStayEven == Spec => RowsEvenlySpaced
<1> DEFINE gap  == RowTime(record', 0) - RowTime(record, record.points - 1)
           even == Second + (record'.points - record.points) * Second
           Spaced == record.points > 0 /\ record' # record =>
                       /\ gap <= even
                       /\ even - gap <= (IF device = "dummy" THEN 0 ELSE Rate - 1)
<1>1. Init => RowsInv
  BY DEF Init, RowsInv, Records
<1>2. RowsInv /\ [Next]_vars => RowsInv' /\ Spaced
  <2> SUFFICES ASSUME RowsInv, [Next]_vars PROVE RowsInv' /\ Spaced
    OBVIOUS
  <2>0. record \in Records /\ Rate \in Nat \ {0}
    BY RateAssumption DEF RowsInv
  <2>1. CASE DummyReadReturns
    <3>1. Publish(Rate) /\ device' = device
      BY <2>1 DEF DummyReadReturns
    <3>2. /\ record' \in Records /\ record'.points = Rate
          /\ gap \in Int /\ even \in Int
          /\ even - gap = Second * Rate - ((Second * Rate) \div Rate) * Rate
      BY <2>0, <3>1, PublishSpaces
    <3>3. Second * Rate - ((Second * Rate) \div Rate) * Rate = 0
      BY SecondOfData, SecondAssumption, RateAssumption
    <3> HIDE DEF gap, even
    <3> QED
      BY <2>0, <3>1, <3>2, <3>3 DEF RowsInv
  <2>2. ASSUME NEW n \in Points, NiReadReturns(n) PROVE RowsInv' /\ Spaced
    <3>1. Publish(n) /\ device = "card" /\ device' = device
            /\ n \in Nat \ {0}
      BY <2>2, RateAssumption DEF NiReadReturns
    <3>2. /\ record' \in Records
          /\ gap \in Int /\ even \in Int
          /\ even - gap = Second * n - ((Second * n) \div Rate) * Rate
      BY <2>0, <3>1, PublishSpaces
    <3>3. /\ Second * n - ((Second * n) \div Rate) * Rate \in 0 .. Rate - 1
      <4> DEFINE q == (Second * n) \div Rate
      <4>1. /\ q \in Nat /\ q * Rate <= Second * n
            /\ Second * n - q * Rate <= Rate - 1
        BY <3>1, ChunkTruncates
      <4>2. Second * n \in Int /\ q * Rate \in Int
        BY <3>1, <4>1, SecondAssumption, RateAssumption
      <4> HIDE DEF q
      <4>3. Second * n - q * Rate \in 0 .. Rate - 1
        BY <2>0, <4>1, <4>2
      <4> QED BY <4>3 DEF q
    <3> HIDE DEF gap, even
    <3> QED
      BY <2>0, <3>1, <3>2, <3>3 DEF RowsInv
  <2>3. CASE record' = record /\ device' = device
    BY <2>3 DEF RowsInv
  <2> QED
    BY <2>1, <2>2, <2>3 DEF Next, vars, waitVars, BarrierSleeps, BarrierWakes,
       BarrierOpens, DummyReadSleeps, TimePasses
<1>3. Spec => [][Spaced]_vars
  BY <1>1, <1>2, PTL DEF Spec
<1> QED
  BY <1>3 DEF RowsEvenlySpaced
=============================================================================
