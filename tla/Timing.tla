------------------------------- MODULE Timing -------------------------------
(***************************************************************************)
(* The times the daemon computes: the absolute timeout of its timed waits  *)
(* (abs_wait_timeout of daemon/sync.c), the schedule of the built-in test  *)
(* device (read_dummy of daemon/daemon.c) and the timestamp of a chunk     *)
(* (ni_thread_main), which the client turns into the time of each row.     *)
(*                                                                         *)
(* now is CLOCK_REALTIME in nanoseconds, of which Second make a second.    *)
(* unsigned long has the values 0 .. Width-1.                              *)
(***************************************************************************)
EXTENDS Integers

CONSTANTS
  Second,    \* TIME_S
  WaitSec,   \* WAIT_TIMEOUT.tv_sec
  WaitNsec,  \* WAIT_TIMEOUT.tv_nsec
  Width,     \* 2^64
  Rate,      \* SAMPLING_RATE
  Points,    \* samples per channel a read of the device may return
  MaxTime,   \* bound: the clock stops here
  MaxTotal   \* bound: samples read from the measuring card

ASSUME SecondAssumption == Second \in Nat \ {0}
\* WAIT_TIMEOUT is 1.5 s: half a second is as much as the assertion at
\* sync.c:167 admits.
ASSUME WaitAssumption == /\ WaitSec \in Nat /\ WaitNsec \in Nat
                         /\ 2 * WaitNsec <= Second
ASSUME WidthAssumption == Width \in Nat /\ Width % 2 = 0 /\ Width > 2 * Second
ASSUME RateAssumption == Rate \in Nat \ {0} /\ Points \subseteq Nat \ {0}

VARIABLES
  device,     \* "card" if the build has the measuring card (WITH_NI), else
              \* "dummy"; it never changes
  now,        \* the clock
  place,      \* where the acquisition thread is
  slept,      \* when it entered the timed wait
  deadline,   \* abs_timeout
  tnext,      \* t_next: the end of the read, second 0 before the first one
  begun,      \* when the first read was entered
  record      \* the published chunk: timestamp, points, and (not in the code)
              \* the numbers of the samples and of the chunks up to its end

waitVars == <<slept, deadline>>
vars == <<device, now, place, waitVars, tnext, begun, record>>

Timespec(t) == [sec |-> t \div Second, nsec |-> t % Second]
Nanos(ts)   == ts.sec * Second + ts.nsec

ULong(x) == x % Width
Long(u)  == IF u < Width \div 2 THEN u ELSE u - Width

Init ==
  /\ device \in {"card", "dummy"}
  /\ now \in Second .. 2 * Second - 1
  /\ place = "barrier"
  /\ slept = 0 /\ deadline = Timespec(0)
  /\ tnext = Timespec(0) /\ begun = 0
  /\ record = [timestamp |-> 0, points |-> 0, total |-> 0, chunks |-> 0]

-----------------------------------------------------------------------------
\* Mutant: the carry is taken only above one second.
AbsWaitTimeoutOffByOne(t) ==
  IF ULong(t.nsec + WaitNsec) > Second
    THEN [sec  |-> t.sec + WaitSec + 1,
          nsec |-> Long(ULong(ULong(t.nsec) + ULong(WaitNsec - Second)))]
    ELSE [sec  |-> t.sec + WaitSec, nsec |-> t.nsec + WaitNsec]

\* abs_wait_timeout.  TIME_S is an unsigned long, so the comparison and the
\* subtraction are unsigned.
AbsWaitTimeout(t) ==
  IF ULong(t.nsec + WaitNsec) >= Second
    THEN [sec  |-> t.sec + WaitSec + 1,
          nsec |-> Long(ULong(ULong(t.nsec) + ULong(WaitNsec - Second)))]
    ELSE [sec  |-> t.sec + WaitSec, nsec |-> t.nsec + WaitNsec]

\* The assertion in it, which is made only behind a carry
AssertsTimeout(t) ==
  ULong(t.nsec + WaitNsec) >= Second
    => ULong(AbsWaitTimeout(t).nsec + WaitNsec) < Second

BarrierSleeps ==
  /\ place = "barrier" /\ place' = "asleep"
  /\ slept' = now
  /\ deadline' = AbsWaitTimeout(Timespec(now))
  /\ UNCHANGED <<device, now, tnext, begun, record>>

\* ETIMEDOUT, or a broadcast: the condition is tested again.
BarrierWakes ==
  /\ place = "asleep" /\ place' = "barrier"
  /\ UNCHANGED <<device, now, waitVars, tnext, begun, record>>

BarrierOpens ==
  /\ place = "barrier" /\ place' = "read"
  /\ UNCHANGED <<device, now, waitVars, tnext, begun, record>>

-----------------------------------------------------------------------------
\* Mutant: the next read ends one second after this call.
DummyReadSleepsRelative ==
  /\ device = "dummy"
  /\ place = "read" /\ place' = "sleeping"
  /\ begun' = IF tnext.sec = 0 THEN now ELSE begun
  /\ tnext' = Timespec(now + Second)
  /\ UNCHANGED <<device, now, waitVars, record>>

\* read_dummy: t_next is static and set at the first call; one second later is
\* the end of the read.
DummyReadSleeps ==
  /\ device = "dummy"
  /\ place = "read" /\ place' = "sleeping"
  /\ begun' = IF tnext.sec = 0 THEN now ELSE begun
  /\ tnext' = LET from == IF tnext.sec = 0 THEN Timespec(now) ELSE tnext
              IN  [sec |-> from.sec + 1, nsec |-> from.nsec]
  /\ UNCHANGED <<device, now, waitVars, record>>

\* Mutant: the points of all channels are published as those of one.
PublishAllChannels(n) ==
  record' = [timestamp |-> record.timestamp + (Second * n) \div Rate,
             points    |-> 2 * n,
             total     |-> record.total + n,
             chunks    |-> record.chunks + 1]

\* Mutant: the division comes first, sample by sample.
PublishPerSample(n) ==
  record' = [timestamp |-> record.timestamp + (Second \div Rate) * n,
             points    |-> n,
             total     |-> record.total + n,
             chunks    |-> record.chunks + 1]

\* The timestamp is advanced and published with the chunk.
Publish(n) ==
  record' = [timestamp |-> record.timestamp + (Second * n) \div Rate,
             points    |-> n,
             total     |-> record.total + n,
             chunks    |-> record.chunks + 1]

\* clock_nanosleep returns no earlier than t_next; the table of test data has
\* a second's samples.
DummyReadReturns ==
  /\ place = "sleeping" /\ place' = "barrier"
  /\ now >= Nanos(tnext)
  /\ Publish(Rate)
  /\ UNCHANGED <<device, now, waitVars, tnext, begun>>

\* DAQmxBaseReadAnalogF64 says how many samples it has read; it was asked for a
\* second's.
NiReadReturns(n) ==
  /\ device = "card"
  /\ place = "read" /\ place' = "barrier"
  /\ record.total + n <= MaxTotal
  /\ Publish(n)
  /\ UNCHANGED <<device, now, waitVars, tnext, begun>>

TimePasses ==
  /\ now < MaxTime /\ now' = now + 1
  /\ UNCHANGED <<device, place, waitVars, tnext, begun, record>>

Next ==
  \/ BarrierSleeps \/ BarrierWakes \/ BarrierOpens
  \/ DummyReadSleeps \/ DummyReadReturns
  \/ \E n \in Points : NiReadReturns(n)
  \/ TimePasses

Spec == Init /\ [][Next]_vars

-----------------------------------------------------------------------------
\* The timeout given to pthread_cond_timedwait is a valid time (otherwise the
\* call returns EINVAL and sync.c:195 ends the daemon), it is exactly
\* WAIT_TIMEOUT after the call, and the assertion at sync.c:167 held.
DeadlineExact ==
  place = "asleep" =>
    /\ deadline.nsec \in 0 .. Second - 1
    /\ Nanos(deadline) = slept + WaitSec * Second + WaitNsec
    /\ AssertsTimeout(Timespec(slept))

\* Two clocks that nobody compares: the timestamps, which add up chunks, and
\* the schedule of read_dummy, which adds up seconds, stay together however
\* late the thread is, and the data of a chunk is never newer than the clock.
ScheduleMatches ==
  device = "dummy" /\ tnext.sec # 0 =>
    /\ Nanos(tnext) = begun + record.timestamp
                       + (IF place = "sleeping" THEN Second ELSE 0)
    /\ place # "sleeping" => begun + record.timestamp <= now

\* The time the client prints with row i of a chunk, times Rate
\* (pmlabclient.c:185-186)
RowTime(r, i) == r.timestamp * Rate + i * Second

\* The rows of the client's output go on one sample apart across chunks of the
\* same length, exactly so with the built-in device, whose chunks are a second
\* long, and but for less than a nanosecond with the card.  When the length
\* changes they jump by the difference: the timestamp is that of a chunk's end,
\* not of its first sample (libpmlab.h:63).  (The daemon's timestamp, the points
\* of a chunk and the rate that was sent with the welcome message have to
\* agree.)
RowsEvenlySpaced ==
  [][record.points > 0 /\ record' # record =>
       LET gap  == RowTime(record', 0) - RowTime(record, record.points - 1)
           even == Second + (record'.points - record.points) * Second
       IN  /\ gap <= even
           /\ even - gap <= (IF device = "dummy" THEN 0 ELSE Rate - 1)]_vars

\* Dividing chunk by chunk (daemon.c:228-230) loses less than a nanosecond with
\* each of them, whatever their lengths: the timestamp is never ahead of the
\* end of the chunk's samples, and behind it by less than a nanosecond for
\* every chunk so far.  (A nanosecond, times Rate, is Rate.)
TruncationBounded ==
  LET exact == record.total * Second
      kept  == record.timestamp * Rate
  IN  /\ kept <= exact
      /\ exact - kept <= record.chunks * (Rate - 1)
=============================================================================
