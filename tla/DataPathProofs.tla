--------------------------- MODULE DataPathProofs ---------------------------
(***************************************************************************)
(* Column j of the client's output is the j-th channel asked for, for any  *)
(* device, any list of channels and chunks of any length: the places that  *)
(* compute an offset into the samples agree.  And only a channel that was  *)
(* compared before the first chunk can print what nobody has measured.     *)
(***************************************************************************)
EXTENDS DataPath, SequenceTheorems, TLAPS

Stages == {"parse", "crashed", "request", "checking", "accepted", "refused",
           "sent", "read", "printed"}

\* What is stored is what was asked for, as long as the array is not exceeded.
PathTypeOK ==
  /\ stage \in Stages
  /\ wanted \in Seq(Nat) /\ chosen \in Seq(Nat) /\ Len(chosen) = Len(wanted)
  /\ Len(wanted) <= ArraySize => chosen = wanted
  /\ chunk \in [no : Nat, len : Nat]
  /\ DOMAIN buffer = 0 .. BufferSizes - 1

\* From the first chunk on the record is one that the device has filled in.
Acquired == chunk.no > 0 => chunk.len \in Lens /\ numChannels = DeviceChannels

\* The early channels come first; those that were compared with a record that
\* the device has filled in are channels of the device.
Tested ==
  /\ checked \in Nat /\ early \in Nat /\ early <= checked
  /\ chunk.no = 0 => early = checked
  /\ stage \in {"parse", "crashed", "request"} => checked = 0
  /\ \A j \in 1 .. Len(wanted) :
       early < j /\ j <= checked => chosen[j] \in Device

\* A list that is longer than allowed gets no further than to the count, and
\* one that is not no further than to the test until all channels have passed.
Admitted ==
  /\ stage \in {"checking", "accepted", "sent", "read", "printed"}
       => Len(wanted) <= MaxChannels
  /\ stage \in {"accepted", "sent", "read", "printed"}
       => checked = Len(wanted)

\* The data set on its way is one of the chunk in the record.
OnTheWay ==
  stage \in {"sent", "read"} =>
    /\ chunk.no > 0
    /\ message = [j \in 1 .. Len(chosen) |-> Encoded(j)]

\* pm_read has put sample i of channel j where the client looks for it.
InBuffer ==
  stage = "read" =>
    \A j \in 1 .. Len(wanted), i \in 1 .. chunk.len :
      wanted[j] \in Device =>
        buffer[(i - 1) + (j - 1) * chunk.len] = <<wanted[j], i - 1, chunk.no>>

\* What the client has printed, until it prints the next data set
Printed ==
  stage = "printed" =>
    \E n \in 1 .. chunk.no :
      \A i \in 1 .. Len(rows), j \in 1 .. Len(wanted) :
        wanted[j] \in Device => rows[i][j] = <<wanted[j], i - 1, n>>

PathInv ==
  PathTypeOK /\ Acquired /\ Tested /\ Admitted /\ OnTheWay /\ InBuffer
    /\ Printed

-----------------------------------------------------------------------------
(***************************************************************************)
(* Offsets into samples that are grouped by channel                        *)
(***************************************************************************)

\* Channel and index are recovered from an offset.
LEMMA OffsetParts ==
  ASSUME NEW c \in Nat, NEW l \in Nat \ {0}, NEW i \in 0 .. l - 1
  PROVE  (c * l + i) \div l = c /\ (c * l + i) % l = i
<1>1. (c * l + i) \div l = c
  BY SMT
<1>2. (c * l + i) % l = i
  BY SMT
<1> QED BY <1>1, <1>2

\* The samples of a channel lie before those of the next ones.
LEMMA OffsetBelow ==
  ASSUME NEW c \in Nat, NEW l \in Nat \ {0}, NEW i \in 0 .. l - 1,
         NEW d \in Nat, c < d
  PROVE  c * l + i \in 0 .. d * l - 1
<1>1. d = c + 1 + (d - c - 1) /\ d - c - 1 \in Nat
  OBVIOUS
<1>2. \A e \in Nat : (c + 1 + e) * l = c * l + l + e * l /\ e * l \in Nat
  OBVIOUS
<1>3. d * l = c * l + l + (d - c - 1) * l
  BY <1>1, <1>2
<1>4. c * l \in Nat /\ (d - c - 1) * l \in Nat
  BY <1>1, <1>2
<1>5. 0 <= c * l + i /\ c * l + i < d * l
  BY <1>3, <1>4
<1>6. d * l \in Nat /\ c * l + i \in Nat
  BY <1>4
<1> QED BY <1>5, <1>6

LEMMA FewerFit ==
  ASSUME NEW a \in Nat, NEW b \in Nat, NEW l \in Nat, a <= b
  PROVE  a * l <= b * l
<1>1. b = a + (b - a) /\ b - a \in Nat
  OBVIOUS
<1>2. \A e \in Nat : (a + e) * l = a * l + e * l /\ e * l \in Nat
  OBVIOUS
<1>3. b * l = a * l + (b - a) * l /\ (b - a) * l \in Nat /\ a * l \in Nat
  BY <1>1, <1>2
<1> QED BY <1>3

\* An array that is written down element by element
LEMMA ListLength ==
  ASSUME NEW n \in Nat, NEW f, f = [j \in 1 .. n |-> f[j]]
  PROVE  Len(f) = n /\ (f = << >> <=> n = 0)
<1> DEFINE S == {f[j] : j \in 1 .. n}
<1>1. f \in [1 .. n -> S]
  OBVIOUS
<1>2. f \in Seq(S)
  BY <1>1, SeqDef
<1>3. Len(f) = n
  BY <1>1, <1>2, LenProperties
<1> QED BY <1>2, <1>3, EmptySeq

\* A data point that the sender takes is the sample of its channel.
LEMMA DataPointIsSample ==
  ASSUME PathInv, chunk.no > 0, NEW c \in Device, NEW k \in 1 .. chunk.len
  PROVE  AnalogData(c * chunk.len + k - 1) = <<c, k - 1, chunk.no>>
<1>1. /\ chunk.len \in Nat \ {0} /\ c \in Nat /\ k - 1 \in 0 .. chunk.len - 1
      /\ DeviceChannels \in Nat /\ c < DeviceChannels
  BY CountsAssumption DEF PathInv, PathTypeOK, Device
<1>2. c * chunk.len \in Nat
  BY <1>1
<1>3. c * chunk.len + k - 1 = c * chunk.len + (k - 1)
  BY <1>1, <1>2
<1>4. c * chunk.len + (k - 1) \in 0 .. DeviceChannels * chunk.len - 1
  BY <1>1, OffsetBelow
<1>5. /\ (c * chunk.len + (k - 1)) \div chunk.len = c
      /\ (c * chunk.len + (k - 1)) % chunk.len = k - 1
  BY <1>1, OffsetParts
<1> HIDE DEF Device
<1> QED BY <1>3, <1>4, <1>5 DEF AnalogData

\* Two facts of order, applied to products as if they were names
LEMMA AtMostTransitive ==
  ASSUME NEW a \in Nat, NEW b \in Nat, NEW c \in Nat, a <= b, b <= c
  PROVE  a <= c
OBVIOUS

LEMMA WithinRange ==
  ASSUME NEW a \in Nat, NEW b \in Nat, NEW y \in 0 .. a - 1, a <= b
  PROVE  y \in 0 .. b - 1 /\ y < a
OBVIOUS

\* A list that has passed the test of its length is the list asked for.
LEMMA AdmittedIsWanted ==
  ASSUME PathInv,
         stage \in {"checking", "accepted", "sent", "read", "printed"}
  PROVE  chosen = wanted /\ Len(wanted) <= ArraySize
BY LenProperties, CountsAssumption, ArrayAssumption
   DEF PathInv, PathTypeOK, Admitted

\* The data set on its way, and how much room it takes
LEMMA MessageShape ==
  ASSUME PathInv, stage \in {"sent", "read"}
  PROVE  /\ Len(message) = Len(wanted)
         /\ \A j \in 1 .. Len(wanted) : message[j] = Encoded(j)
         /\ SamplesRead = IF Len(wanted) = 0 THEN 0 ELSE chunk.len
         /\ PmReadFits
<1>1. /\ wanted \in Seq(Nat) /\ chosen = wanted /\ Len(wanted) \in Nat
      /\ chunk.no > 0 /\ chunk.len \in Nat /\ chunk.len \in Lens
      /\ message = [j \in 1 .. Len(wanted) |-> Encoded(j)]
      /\ Len(wanted) <= MaxChannels /\ MaxChannels \in Nat
  BY AdmittedIsWanted, LenProperties, CountsAssumption
     DEF PathInv, PathTypeOK, Acquired, Admitted, OnTheWay
<1>2. \A j \in 1 .. Len(wanted) : message[j] = Encoded(j)
  BY <1>1
<1>3. Len(message) = Len(wanted) /\ (message = << >> <=> Len(wanted) = 0)
  <2>1. message = [j \in 1 .. Len(wanted) |-> message[j]]
    BY <1>1, <1>2
  <2> QED BY <1>1, <2>1, ListLength
<1>4. Len(wanted) # 0 => Len(message[1]) = chunk.len
  <2> SUFFICES ASSUME Len(wanted) # 0
               PROVE  Len(message[1]) = chunk.len
    OBVIOUS
  <2>1. message[1] = Encoded(1)
    BY <1>1, <1>2
  <2>2. Encoded(1) = [k \in 1 .. chunk.len |-> Encoded(1)[k]]
    BY DEF Encoded
  <2> QED BY <1>1, <2>1, <2>2, ListLength
<1>5. SamplesRead = IF Len(wanted) = 0 THEN 0 ELSE chunk.len
  BY <1>3, <1>4 DEF SamplesRead
<1>6. PmReadFits
  <2>1. Len(wanted) * chunk.len <= MaxChannels * chunk.len
    BY <1>1, FewerFit
  <2>2. MaxChannels * chunk.len <= BufferSizes
    BY <1>1, LensAssumption
  <2>3. /\ Len(wanted) * chunk.len \in Nat /\ MaxChannels * chunk.len \in Nat
        /\ BufferSizes \in Nat
    BY <1>1, CountsAssumption
  <2>4. Len(wanted) * SamplesRead <= BufferSizes
    <3>1. CASE Len(wanted) = 0
      <4>1. Len(wanted) * SamplesRead = 0
        BY <1>5, <3>1
      <4> QED BY <2>3, <4>1
    <3>2. CASE Len(wanted) # 0
      <4>1. Len(wanted) * chunk.len <= BufferSizes
        BY <2>1, <2>2, <2>3, AtMostTransitive, Zenon
      <4> QED BY <1>5, <3>2, <4>1, Zenon
    <3> QED BY <3>1, <3>2
  <2> QED BY <1>3, <2>4 DEF PmReadFits
<1> QED BY <1>2, <1>3, <1>5, <1>6

-----------------------------------------------------------------------------
(***************************************************************************)
(* The invariant                                                           *)
(***************************************************************************)
LEMMA InitPathInv == Init => PathInv
<1> SUFFICES ASSUME Init PROVE PathInv
  OBVIOUS
<1>1. /\ wanted \in Seq(Nat) /\ stage \in {"parse", "request"}
      /\ chosen = wanted /\ checked = 0 /\ early = 0
  BY ListsAssumption, EmptySeq DEF Init
<1>2. chunk \in [no : Nat, len : Nat] /\ Acquired
  BY LensAssumption DEF Init, Acquired
<1>3. PathTypeOK
  BY <1>1, <1>2 DEF Init, PathTypeOK, Stages
<1>4. Tested
  BY <1>1, LenProperties DEF Tested
<1> QED
  BY <1>1, <1>2, <1>3, <1>4
     DEF PathInv, Admitted, OnTheWay, InBuffer, Printed

LEMMA AcquirePathInv ==
  ASSUME PathInv, NEW len \in Lens, Acquire(len)
  PROVE  PathInv'
<1>1. /\ chunk' = [no |-> chunk.no + 1, len |-> len] /\ len \in Nat
      /\ chunk.no \in Nat /\ stage \notin {"sent", "read"}
      /\ numChannels' = DeviceChannels
      /\ UNCHANGED <<stage, args, wanted, chosen, checked, early, message,
                     buffer, rows>>
  BY LensAssumption DEF Acquire, request, test, output, PathInv, PathTypeOK
<1>2. PathTypeOK' /\ Acquired'
  BY <1>1 DEF PathInv, PathTypeOK, Acquired
<1>3. Tested' /\ Admitted' /\ OnTheWay' /\ InBuffer'
  BY <1>1 DEF PathInv, Tested, Device, Admitted, OnTheWay, InBuffer
<1>4. Printed'
  <2>1. \A n \in 1 .. chunk.no : n \in 1 .. chunk'.no
    BY <1>1
  <2> QED BY <1>1, <2>1 DEF PathInv, Printed, Device
<1> QED BY <1>2, <1>3, <1>4 DEF PathInv

\* Two lists with one more channel each
LEMMA ListsGrow ==
  ASSUME NEW s \in Seq(Nat), NEW t \in Seq(Nat), Len(s) = Len(t),
         NEW c \in Nat, NEW d \in Nat
  PROVE  /\ Append(s, c) \in Seq(Nat) /\ Append(t, d) \in Seq(Nat)
         /\ Len(Append(s, c)) = Len(Append(t, d))
         /\ Len(Append(t, d)) = Len(t) + 1
BY AppendProperties

\* The command line: names, `all' and words that are none
LEMMA ParsePathInv ==
  ASSUME PathInv, NEW w, \/ ParseName(w) \/ ParseBehind(w) \/ ParseOther(w)
                         \/ ParseAll \/ ParseEnds
  PROVE  PathInv'
<1>1. /\ stage = "parse" /\ stage' \in {"parse", "request", "crashed"}
      /\ UNCHANGED <<numChannels, chunk, checked, early, message, buffer, rows>>
  BY DEF ParseName, ParseBehind, ParseAll, ParseOther, ParseEnds, Parsing,
         record, test, output
<1>2. /\ chosen' \in Seq(Nat) /\ wanted' \in Seq(Nat)
      /\ Len(chosen') = Len(wanted')
      /\ Len(wanted') <= ArraySize => chosen' = wanted'
  <2>1. /\ wanted \in Seq(Nat) /\ chosen \in Seq(Nat)
        /\ Len(chosen) = Len(wanted) /\ Len(wanted) \in Nat
        /\ Len(wanted) <= ArraySize => chosen = wanted
    BY LenProperties DEF PathInv, PathTypeOK
  <2>2. w \in DOMAIN ChannelOf => ChannelOf[w] \in Nat
    BY DEF ChannelOf
  <2>3. CASE ParseName(w)
    <3>1. chosen = wanted
      BY <2>1, <2>3, CountsAssumption DEF ParseName
    <3> QED BY <2>1, <2>2, <2>3, <3>1, ListsGrow DEF ParseName
  <2>4. CASE ParseBehind(w)
    <3>1. PICK c \in {ChannelOf[w]} \cup Leftover : chosen' = Append(chosen, c)
      BY <2>4 DEF ParseBehind
    <3>2. /\ c \in Nat /\ ChannelOf[w] \in Nat /\ Len(wanted) = ArraySize
          /\ wanted' = Append(wanted, ChannelOf[w])
      BY <2>1, <2>2, <2>4, <3>1, CountsAssumption DEF ParseBehind
    <3>3. /\ chosen' \in Seq(Nat) /\ wanted' \in Seq(Nat)
          /\ Len(chosen') = Len(wanted') /\ Len(wanted') = ArraySize + 1
      BY <2>1, <3>1, <3>2, ListsGrow
    <3> QED BY <3>3, CountsAssumption
  <2>5. CASE ParseAll
    <3>1. AllChannels \in [1 .. ArraySize -> Nat]
      BY CountsAssumption DEF AllChannels
    <3>2. AllChannels \in Seq(Nat)
      BY <3>1, CountsAssumption, SeqDef
    <3> QED BY <2>5, <3>2 DEF ParseAll
  <2>6. CASE ParseOther(w) \/ ParseEnds
    BY <2>1, <2>6 DEF ParseOther, ParseEnds, request
  <2> QED BY <2>3, <2>4, <2>5, <2>6
<1>3. PathTypeOK' /\ Acquired'
  BY <1>1, <1>2 DEF PathInv, PathTypeOK, Acquired, Stages
<1>4. Tested'
  <2>1. checked = 0 /\ early \in Nat
    BY <1>1 DEF PathInv, Tested
  <2>2. \A j \in 1 .. Len(wanted') : ~(j <= checked)
    BY <1>2, <2>1, LenProperties
  <2> QED BY <1>1, <2>1, <2>2 DEF PathInv, Tested
<1> QED
  BY <1>1, <1>3, <1>4 DEF PathInv, Admitted, OnTheWay, InBuffer, Printed

\* The handler reads the list and tests it, channel by channel.
LEMMA RequestPathInv ==
  ASSUME PathInv,
         \/ RequestTooLong \/ RequestRead
         \/ ChannelPasses \/ ChannelFails \/ CheckEnds
  PROVE  PathInv'
<1>1. /\ stage \in {"request", "checking"}
      /\ stage' \in {"checking", "accepted", "refused"}
      /\ stage' = "checking" =>
           Len(chosen) <= MaxChannels \/ stage = "checking"
      /\ stage' = "accepted" =>
           stage = "checking" /\ checked' = Len(chosen)
      /\ UNCHANGED <<args, wanted, chosen, numChannels, chunk, message, buffer,
                     rows>>
  BY DEF RequestTooLong, RequestRead, ChannelPasses, ChannelFails, CheckEnds,
         request, record, test, output
<1>2. PathTypeOK' /\ Acquired'
  BY <1>1 DEF PathInv, PathTypeOK, Acquired, Stages
<1>3. Admitted'
  BY <1>1 DEF Admitted, PathInv, PathTypeOK
<1>4. Tested'
  <2>1. CASE UNCHANGED test
    BY <1>1, <2>1 DEF test, PathInv, Tested
  <2>2. CASE ChannelPasses
    <3>1. /\ checked' = checked + 1 /\ checked < Len(chosen)
          /\ early' = IF chunk.no = 0 THEN early + 1 ELSE early
          /\ chosen[checked + 1] < numChannels /\ stage = "checking"
      BY <2>2 DEF ChannelPasses, NextChannelFits
    <3>2. /\ chosen = wanted /\ chosen \in Seq(Nat) /\ Len(chosen) \in Nat
          /\ checked \in Nat /\ early \in Nat /\ early <= checked
          /\ chunk.no \in Nat /\ DeviceChannels \in Nat
      BY <3>1, AdmittedIsWanted, LenProperties, CountsAssumption
         DEF PathInv, PathTypeOK, Tested
    <3>3. chosen[checked + 1] \in Nat
      BY <3>1, <3>2, ElementOfSeq
    <3>4. CASE chunk.no = 0
      BY <1>1, <3>1, <3>2, <3>4 DEF PathInv, Tested
    <3>5. CASE chunk.no > 0
      <4>1. chosen[checked + 1] \in Device
        BY <3>1, <3>2, <3>3, <3>5 DEF PathInv, Acquired, Device
      <4> QED BY <1>1, <3>1, <3>2, <3>5, <4>1 DEF PathInv, Tested
    <3> QED BY <3>2, <3>4, <3>5
  <2> QED
    BY <2>1, <2>2 DEF RequestTooLong, RequestRead, ChannelFails, CheckEnds
<1> QED
  BY <1>1, <1>2, <1>3, <1>4 DEF PathInv, OnTheWay, InBuffer, Printed

LEMMA WriteDatasetPathInv ==
  ASSUME PathInv, WriteDataset
  PROVE  PathInv'
<1>1. /\ stage \in {"accepted", "printed"} /\ chunk.no > 0 /\ stage' = "sent"
      /\ message' = [j \in 1 .. Len(chosen) |-> Encoded(j)]
      /\ UNCHANGED <<args, wanted, chosen, checked, early, numChannels, chunk,
                     buffer, rows>>
  BY DEF WriteDataset, request, record, test
<1>2. PathTypeOK' /\ Acquired' /\ Tested' /\ Admitted'
  BY <1>1 DEF PathInv, PathTypeOK, Acquired, Tested, Admitted, Stages
<1>3. OnTheWay'
  BY <1>1 DEF OnTheWay, Encoded, AnalogData
<1> QED BY <1>1, <1>2, <1>3 DEF PathInv, InBuffer, Printed

LEMMA PmReadPathInv ==
  ASSUME PathInv, PmRead
  PROVE  PathInv'
<1> DEFINE J == Len(wanted)
           S == chunk.len
<1>1. /\ stage = "sent" /\ stage' = "read" /\ PmReadFits
      /\ UNCHANGED <<args, wanted, chosen, checked, early, numChannels, chunk,
                     message, rows>>
  BY DEF PmRead, request, record, test
<1>2. /\ buffer' = [x \in DOMAIN buffer |->
                     IF x < Len(message) * SamplesRead
                       THEN message[(x \div SamplesRead) + 1]
                                   [(x % SamplesRead) + 1]
                       ELSE buffer[x]]
  BY DEF PmRead
<1>3. PathTypeOK' /\ Acquired' /\ Tested' /\ Admitted'
  BY <1>1, <1>2 DEF PathInv, PathTypeOK, Acquired, Tested, Admitted, Stages
<1>4. OnTheWay'
  BY <1>1 DEF PathInv, OnTheWay, Encoded, AnalogData
<1>5. InBuffer'
  <2> SUFFICES ASSUME NEW j \in 1 .. J, NEW i \in 1 .. S, wanted[j] \in Device
               PROVE  buffer'[(i - 1) + (j - 1) * S]
                        = <<wanted[j], i - 1, chunk.no>>
    BY <1>1 DEF InBuffer, Device
  <2> DEFINE x == (j - 1) * S + (i - 1)
  <2>1. /\ J \in Nat /\ S \in Nat /\ chunk.no > 0 /\ chosen = wanted
        /\ DOMAIN buffer = 0 .. BufferSizes - 1 /\ BufferSizes \in Nat
    BY <1>1, AdmittedIsWanted, LenProperties, CountsAssumption
       DEF PathInv, PathTypeOK, OnTheWay
  <2>2. /\ S \in Nat \ {0} /\ j - 1 \in Nat /\ i - 1 \in 0 .. S - 1
        /\ j - 1 < J
    BY <2>1
  <2>3. Len(message) = J /\ SamplesRead = S /\ message[j] = Encoded(j)
    BY <1>1, <2>1, MessageShape
  <2>4. x \in 0 .. J * S - 1 /\ (i - 1) + (j - 1) * S = x
    <3>1. x \in 0 .. J * S - 1
      BY <2>1, <2>2, OffsetBelow
    <3>2. (j - 1) * S \in Nat
      BY <2>2
    <3> QED BY <3>1, <3>2
  <2>5. x \div S = j - 1 /\ x % S = i - 1
    BY <2>2, OffsetParts
  <2>6. x \in DOMAIN buffer /\ x < J * S
    <3>1. J * S <= BufferSizes /\ J * S \in Nat
      BY <1>1, <2>1, <2>3 DEF PmReadFits
    <3> HIDE DEF x
    <3> QED BY <2>1, <2>4, <3>1, WithinRange, Zenon
  <2> HIDE DEF x
  <2>7. (x \div S) + 1 = j /\ (x % S) + 1 = i
    BY <2>1, <2>5
  <2>8. buffer'[x] = message[j][i]
    BY <1>2, <2>3, <2>6, <2>7
  <2>9. message[j][i] = AnalogData(wanted[j] * S + i - 1)
    BY <2>1, <2>3 DEF Encoded
  <2>10. AnalogData(wanted[j] * S + i - 1) = <<wanted[j], i - 1, chunk.no>>
    BY <2>1, DataPointIsSample
  <2> QED BY <2>4, <2>8, <2>9, <2>10
<1> QED BY <1>1, <1>3, <1>4, <1>5 DEF PathInv, Printed

LEMMA OutputPathInv ==
  ASSUME PathInv, Output
  PROVE  PathInv'
<1> DEFINE J == Len(wanted)
           S == SamplesRead
<1>1. /\ stage = "read" /\ stage' = "printed"
      /\ UNCHANGED <<args, wanted, chosen, checked, early, numChannels, chunk,
                     message, buffer>>
      /\ rows' = [i \in 1 .. S |->
                   [j \in 1 .. Len(chosen) |-> buffer[(i - 1) + (j - 1) * S]]]
  BY DEF Output, request, record, test
<1>2. PathTypeOK' /\ Acquired' /\ Tested' /\ Admitted'
  BY <1>1 DEF PathInv, PathTypeOK, Acquired, Tested, Admitted, Stages
<1>3. Printed'
  <2>1. /\ J \in Nat /\ chunk.len \in Nat /\ chosen = wanted
        /\ chunk.no \in Nat /\ chunk.no > 0
    BY <1>1, AdmittedIsWanted, LenProperties
       DEF PathInv, PathTypeOK, OnTheWay
  <2>2. S = IF J = 0 THEN 0 ELSE chunk.len
    BY <1>1, MessageShape
  <2> HIDE DEF S
  <2>3. S \in Nat
    BY <2>1, <2>2
  <2>4. Len(rows') = S
    <3>1. rows' = [i \in 1 .. S |-> rows'[i]]
      BY <1>1
    <3> QED BY <2>3, <3>1, ListLength
  <2>5. ASSUME NEW i \in 1 .. S, NEW j \in 1 .. J, wanted[j] \in Device
        PROVE  rows'[i][j] = <<wanted[j], i - 1, chunk.no>>
    <3>1. S = chunk.len
      BY <2>1, <2>2
    <3>2. buffer[(i - 1) + (j - 1) * S] = <<wanted[j], i - 1, chunk.no>>
      BY <1>1, <2>5, <3>1 DEF PathInv, InBuffer
    <3>3. rows'[i] = [k \in 1 .. J |-> buffer[(i - 1) + (k - 1) * S]]
      BY <1>1, <2>1
    <3> QED BY <3>2, <3>3
  <2>6. chunk.no \in 1 .. chunk.no
    BY <2>1
  <2> QED BY <1>1, <2>4, <2>5, <2>6 DEF Printed, Device
<1> QED BY <1>1, <1>2, <1>3 DEF PathInv, OnTheWay, InBuffer

LEMMA NextPathInv == PathInv /\ [Next]_vars => PathInv'
<1> SUFFICES ASSUME PathInv, [Next]_vars PROVE PathInv'
  OBVIOUS
<1>1. ASSUME NEW len \in Lens, Acquire(len) PROVE PathInv'
  BY <1>1, AcquirePathInv
<1>2. ASSUME NEW w \in Words, ParseName(w) \/ ParseBehind(w) \/ ParseOther(w)
      PROVE  PathInv'
  BY <1>2, ParsePathInv
<1>3. CASE ParseAll \/ ParseEnds
  BY <1>3, ParsePathInv
<1>4. CASE \/ RequestTooLong \/ RequestRead
           \/ ChannelPasses \/ ChannelFails \/ CheckEnds
  BY <1>4, RequestPathInv
<1>5. CASE WriteDataset
  BY <1>5, WriteDatasetPathInv
<1>6. CASE PmRead
  BY <1>6, PmReadPathInv
<1>7. CASE Output
  BY <1>7, OutputPathInv
<1>8. CASE UNCHANGED vars
  BY <1>8 DEF vars, record, request, test, output, PathInv, PathTypeOK,
              Acquired, Tested, Admitted, OnTheWay, InBuffer, Printed, Device,
              Encoded, AnalogData
<1> QED
  BY <1>1, <1>2, <1>3, <1>4, <1>5, <1>6, <1>7, <1>8 DEF Next

LEMMA PathInvHolds == Spec => []PathInv
<1>1. Init => PathInv
  BY InitPathInv
<1>2. PathInv /\ [Next]_vars => PathInv'
  BY NextPathInv
<1> QED BY <1>1, <1>2, PTL DEF Spec

-----------------------------------------------------------------------------
\* handler.c:100, libpmlab.c:189 and 198, pmlabclient.c:189: column j of what
\* the client prints is the j-th channel asked for, row i its i-th sample, and
\* all are of one chunk, also when chunks differ in length; and the assertion
\* at libpmlab.c:186 never ends the client.
THEOREM OutputIsWhatWasAsked == Spec => []ColumnsAreChannels
<1>1. PathInv => ColumnsAreChannels
  <2> SUFFICES ASSUME PathInv PROVE ColumnsAreChannels
    OBVIOUS
  <2>1. stage = "sent" => PmReadFits
    BY MessageShape
  <2> QED BY <2>1 DEF ColumnsAreChannels, PathInv, Printed
<1> QED BY <1>1, PathInvHolds, PTL

\* handler.c:345-376, pmlabclient.c:50: what a client prints is a sample of the
\* device, in every column that was compared with a record the device has filled
\* in, whatever the record becomes between the comparisons; and a list stored
\* behind the client's array gets no answer.
THEOREM PrintedWasMeasured == Spec => []PrintedIsMeasured
<1>1. PathInv => PrintedIsMeasured
  <2> SUFFICES ASSUME PathInv, stage = "printed"
               PROVE  /\ Len(wanted) <= ArraySize
                      /\ \A i \in 1 .. Len(rows), j \in 1 .. Len(wanted) :
                           rows[i][j] = Nothing => j <= early
    BY DEF PrintedIsMeasured
  <2>1. /\ chosen = wanted /\ Len(wanted) <= ArraySize /\ wanted \in Seq(Nat)
        /\ checked = Len(wanted) /\ early \in Nat /\ Len(wanted) \in Nat
    BY AdmittedIsWanted, LenProperties
       DEF PathInv, PathTypeOK, Tested, Admitted
  <2>2. ASSUME NEW i \in 1 .. Len(rows), NEW j \in 1 .. Len(wanted), j > early
        PROVE  rows[i][j] # Nothing
    <3>1. wanted[j] \in Device /\ wanted[j] \in Nat
      BY <2>1, <2>2, ElementOfSeq DEF PathInv, Tested
    <3>2. PICK n \in 1 .. chunk.no : rows[i][j] = <<wanted[j], i - 1, n>>
      BY <3>1 DEF PathInv, Printed
    <3> QED BY <3>1, <3>2 DEF Nothing
  <2> QED BY <2>1, <2>2
<1> QED BY <1>1, PathInvHolds, PTL
=============================================================================
