---------------------------- MODULE FullIOProofs ----------------------------
(***************************************************************************)
(* full_write and full_read for conversations of any segments over a       *)
(* kernel of any size: what a call of full_read delivers is what a call of *)
(* full_write was given, and both behave as if segments were transferred   *)
(* as wholes.                                                              *)
(*                                                                         *)
(* Where a byte stands in the stream would be a sum over the segments      *)
(* before it.  The invariant does without: it relates the bytes in the     *)
(* kernel to each other, the first of them to the reader and the last of   *)
(* them to the writer.                                                     *)
(***************************************************************************)
EXTENDS FullIO, SequenceTheorems, TLAPS

Byte == (Nat \ {0}) \X Nat

\* No byte lies between offset o of segment m and offset k of segment n: they
\* are the same place, or all there is between them are empty segments.
Joined(m, o, n, k) ==
  \/ m = n /\ o = k
  \/ m < n /\ o = Size(m) /\ k = 0 /\ \A s \in m + 1 .. n - 1 : Size(s) = 0

\* One of the two may be ahead of the other by empty segments.
Near(m, o, n, k) == Joined(m, o, n, k) \/ Joined(n, k, m, o)

\* Bytes of segments, each the one behind its predecessor; and as long as a
\* segment lasts they are numbered one by one.
InStream(p) ==
  /\ p \in Seq(Byte)
  /\ \A k \in 1 .. Len(p) : p[k][2] >= 1 /\ p[k][2] <= Size(p[k][1])
  /\ \A k \in 1 .. Len(p) - 1 :
       Joined(p[k][1], p[k][2], p[k + 1][1], p[k + 1][2] - 1)
  /\ \A j, k \in 1 .. Len(p) :
       j <= k /\ p[j][2] + (k - j) <= Size(p[j][1])
         => p[k] = <<p[j][1], p[j][2] + (k - j)>>

IOTypeOK ==
  /\ wseg \in Nat \ {0} /\ wleft \in Nat /\ wbuf \in Nat
  /\ rseg \in Nat \ {0} /\ rleft \in Nat /\ rbuf \in Seq(Byte)
  /\ received \in Seq(Seq(Byte))

\* Both loops know how much of their segment is left, and go on to the next
\* one when nothing is.
Counted ==
  /\ wleft + wbuf = Size(wseg) /\ (wleft = 0 => wbuf = 0)
  /\ rleft + Len(rbuf) = Size(rseg) /\ (rleft = 0 => rbuf = << >>)
  /\ Len(received) = rseg - 1

\* What the reader has of its segment
PartRead == \A i \in 1 .. Len(rbuf) : rbuf[i] = <<rseg, i>>

\* The first byte in the kernel is the one the reader wants next.
ReaderNext ==
  pipe # << >> => Joined(rseg, Len(rbuf), pipe[1][1], pipe[1][2] - 1)

\* The last one is what the writer wrote last; when there is none, the two
\* ends are at the same place, or one is ahead by empty segments.
WriterLast ==
  ~broken =>
    IF pipe # << >>
      THEN Joined(pipe[Len(pipe)][1], pipe[Len(pipe)][2], wseg, wbuf)
      ELSE Near(rseg, Len(rbuf), wseg, wbuf)

\* Nothing is read that was not written, also when the connection has failed.
Written ==
  \A k \in 1 .. Len(pipe) :
    pipe[k][1] < wseg \/ (pipe[k][1] = wseg /\ pipe[k][2] <= wbuf)

IOInv ==
  /\ IOTypeOK /\ Counted /\ InStream(pipe) /\ Intact
  /\ PartRead /\ ReaderNext /\ WriterLast /\ Written

-----------------------------------------------------------------------------
LEMMA SizeType == \A m \in Nat \ {0} : Size(m) \in Nat
BY SizesAssumption, LenProperties DEF Size

LEMMA ByteType ==
  \A b \in Byte : b[1] \in Nat \ {0} /\ b[2] \in Nat /\ b = <<b[1], b[2]>>
BY DEF Byte

\* A piece of a segment
LEMMA PieceType ==
  ASSUME NEW m \in Nat \ {0}, NEW o \in Nat, NEW n \in Nat, o + n <= Size(m)
  PROVE  LET piece == SubSeq(Content(m), o + 1, o + n)
         IN  /\ piece \in Seq(Byte) /\ Len(piece) = n
             /\ \A t \in 1 .. n : piece[t] = <<m, o + t>>
<1> DEFINE piece == SubSeq(Content(m), o + 1, o + n)
<1>1. Size(m) \in Nat
  BY SizeType
<1>2. \A i \in o + 1 .. o + n : Content(m)[i] = <<m, i>> /\ <<m, i>> \in Byte
  BY <1>1 DEF Content, Byte
<1>3. /\ piece \in Seq(Byte)
      /\ Len(piece) = IF o + 1 <= o + n THEN o + n - (o + 1) + 1 ELSE 0
      /\ \A t \in 1 .. o + n - (o + 1) + 1 : piece[t] = Content(m)[o + 1 + t - 1]
  <2>1. o + 1 \in Int /\ o + n \in Int
    OBVIOUS
  <2>2. \A i \in o + 1 .. o + n : Content(m)[i] \in Byte
    BY <1>2
  <2> HIDE DEF Content, Byte
  <2> QED BY <2>1, <2>2, SubSeqProperties
<1>4. ASSUME NEW t \in 1 .. n
      PROVE  piece[t] = <<m, o + t>>
  <2>1. t \in 1 .. o + n - (o + 1) + 1 /\ o + 1 + t - 1 = o + t
        /\ o + t \in o + 1 .. o + n
    OBVIOUS
  <2> QED BY <1>2, <1>3, <2>1
<1> QED
  BY <1>3, <1>4

LEMMA ContentType ==
  ASSUME NEW m \in Nat \ {0}
  PROVE  /\ Content(m) \in Seq(Byte) /\ Len(Content(m)) = Size(m)
         /\ \A i \in 1 .. Size(m) : Content(m)[i] = <<m, i>>
<1>1. Size(m) \in Nat
  BY SizeType
<1>2. Content(m) \in [1 .. Size(m) -> Byte]
  BY <1>1 DEF Content, Byte
<1>3. Content(m) \in Seq(Byte)
  BY <1>1, <1>2, SeqDef
<1> QED
  BY <1>1, <1>3, LenProperties DEF Content

-----------------------------------------------------------------------------
(***************************************************************************)
(* The bytes in the kernel                                                 *)
(***************************************************************************)

\* The byte j - i places behind offset x, when one behind it at k still fits
LEMMA Below ==
  ASSUME NEW x \in Nat, NEW y \in Nat, NEW i \in Nat, NEW j \in Nat,
         NEW k \in Nat, j < k, x + (k - i) <= y
  PROVE  x + (j - i) <= y /\ x + (j - i) # y
OBVIOUS

\* A piece of a segment that goes on where p ends
LEMMA AppendKeepsStream ==
  ASSUME NEW p, InStream(p), NEW m \in Nat \ {0}, NEW o \in Nat,
         p # << >> => Joined(p[Len(p)][1], p[Len(p)][2], m, o),
         NEW piece \in Seq(Byte), o + Len(piece) <= Size(m),
         \A t \in 1 .. Len(piece) : piece[t] = <<m, o + t>>
  PROVE  /\ InStream(p \o piece)
         /\ Len(p \o piece) = Len(p) + Len(piece)
         /\ \A k \in 1 .. Len(p) : (p \o piece)[k] = p[k]
         /\ \A t \in 1 .. Len(piece) :
              (p \o piece)[Len(p) + t] = <<m, o + t>>
<1> DEFINE q == p \o piece
           L == Len(p)
           n == Len(piece)
<1>1. /\ p \in Seq(Byte) /\ L \in Nat
      /\ \A k \in 1 .. L : p[k] \in Byte
  BY LenProperties, ElementOfSeq DEF InStream
<1>2. n \in Nat /\ Size(m) \in Nat
  BY SizeType, LenProperties
<1>3. /\ q \in Seq(Byte) /\ Len(q) = L + n
      /\ \A k \in 1 .. L + n : q[k] = IF k <= L THEN p[k] ELSE piece[k - L]
  BY <1>1, <1>2, ConcatProperties
<1>4. \A k \in 1 .. L : q[k] = p[k]
  BY <1>1, <1>3
<1>5. \A t \in 1 .. n : q[L + t] = <<m, o + t>>
  <2> SUFFICES ASSUME NEW t \in 1 .. n
               PROVE  q[L + t] = <<m, o + t>>
    OBVIOUS
  <2>1. L + t \in 1 .. L + n /\ ~(L + t <= L) /\ L + t - L = t
    BY <1>1, <1>2
  <2>2. q[L + t] = piece[L + t - L]
    BY <1>3, <2>1
  <2> QED BY <2>1, <2>2
<1> HIDE DEF q, L, n
<1>6. ASSUME NEW k \in 1 .. L + n, k \notin 1 .. L
      PROVE  /\ k - L \in 1 .. n
             /\ q[k] = <<m, o + (k - L)>> /\ q[k][1] = m
             /\ q[k][2] = o + (k - L)
  <2>1. k - L \in 1 .. n /\ L + (k - L) = k
    BY <1>1, <1>2, <1>6
  <2>2. q[k] = <<m, o + (k - L)>>
    BY <1>5, <2>1
  <2> QED BY <2>1, <2>2
<1>7. \A k \in 1 .. L + n : q[k][2] >= 1 /\ q[k][2] <= Size(q[k][1])
  <2> SUFFICES ASSUME NEW k \in 1 .. L + n
               PROVE  q[k][2] >= 1 /\ q[k][2] <= Size(q[k][1])
    OBVIOUS
  <2>1. CASE k \in 1 .. L
    <3>1. p[k][2] >= 1 /\ p[k][2] <= Size(p[k][1])
      BY <2>1 DEF InStream, L
    <3> QED BY <1>4, <2>1, <3>1
  <2>2. CASE k \notin 1 .. L
    <3>1. k - L \in 1 .. n /\ q[k][1] = m /\ q[k][2] = o + (k - L)
      BY <1>6, <2>2
    <3>2. o + n <= Size(m)
      BY DEF n
    <3> QED BY <1>1, <1>2, <3>1, <3>2
  <2> QED BY <2>1, <2>2
<1>8. ASSUME NEW k \in 1 .. L + n - 1
      PROVE  Joined(q[k][1], q[k][2], q[k + 1][1], q[k + 1][2] - 1)
  <2>1. CASE k \in 1 .. L - 1
    <3>1. k \in 1 .. L /\ k + 1 \in 1 .. L
      BY <1>1, <2>1
    <3>2. Joined(p[k][1], p[k][2], p[k + 1][1], p[k + 1][2] - 1)
      BY <2>1 DEF InStream, L
    <3> QED BY <1>4, <3>1, <3>2
  <2>2. CASE k = L
    <3>1. k \in 1 .. L /\ p # << >>
      BY <1>1, <2>2, EmptySeq DEF L
    <3>2. 1 \in 1 .. n
      BY <1>1, <1>2, <2>2
    <3>3. q[k + 1] = <<m, o + 1>>
      BY <1>5, <2>2, <3>2
    <3>4. q[k + 1][1] = m /\ q[k + 1][2] - 1 = o
      BY <3>3
    <3>5. Joined(p[k][1], p[k][2], m, o)
      BY <2>2, <3>1 DEF L
    <3> QED BY <1>4, <3>1, <3>4, <3>5
  <2>3. CASE k > L
    <3>1. /\ k \in 1 .. L + n /\ k \notin 1 .. L
          /\ k + 1 \in 1 .. L + n /\ k + 1 \notin 1 .. L
      BY <1>1, <1>2, <2>3
    <3>2. q[k][1] = m /\ q[k][2] = o + (k - L)
      BY <1>6, <3>1
    <3>3. ASSUME NEW i \in 1 .. L + n, i \notin 1 .. L, i = k + 1
          PROVE  q[i][1] = m /\ q[i][2] - 1 = o + (k - L)
      <4>1. q[i][1] = m /\ q[i][2] = o + (i - L)
        BY <1>6, <3>3
      <4>2. o + (i - L) - 1 = o + (k - L)
        BY <1>1, <1>2, <3>3
      <4>3. q[i][2] - 1 = o + (i - L) - 1
        BY <1>1, <1>2, <4>1
      <4> QED BY <4>1, <4>2, <4>3
    <3>4. q[k + 1][1] = m /\ q[k + 1][2] - 1 = o + (k - L)
      BY <3>1, <3>3
    <3> QED BY <3>2, <3>4 DEF Joined
  <2> QED BY <1>1, <1>2, <2>1, <2>2, <2>3
<1>9. ASSUME NEW j \in 1 .. L + n, NEW k \in 1 .. L + n,
             j <= k, q[j][2] + (k - j) <= Size(q[j][1])
      PROVE  q[k] = <<q[j][1], q[j][2] + (k - j)>>
  <2>1. CASE k \in 1 .. L
    <3>1. j \in 1 .. L
      BY <1>1, <1>2, <1>9, <2>1
    <3>2. q[j] = p[j] /\ q[k] = p[k]
      BY <1>4, <2>1, <3>1
    <3>3. p[j][2] + (k - j) <= Size(p[j][1])
      BY <1>9, <3>2
    <3>4. p[k] = <<p[j][1], p[j][2] + (k - j)>>
      BY <1>9, <2>1, <3>1, <3>3 DEF InStream, L
    <3> QED BY <3>2, <3>4
  <2>2. CASE j \notin 1 .. L
    <3>1. k \notin 1 .. L
      BY <1>1, <1>2, <1>9, <2>2
    <3>2. q[j][1] = m /\ q[j][2] = o + (j - L) /\ q[k] = <<m, o + (k - L)>>
      BY <1>6, <2>2, <3>1
    <3>3. o + (k - L) = o + (j - L) + (k - j)
      BY <1>1, <1>2
    <3> QED BY <3>2, <3>3
  <2>3. CASE j \in 1 .. L /\ k \notin 1 .. L
    \* the last byte of p is of the same segment, and not its end
    <3>1. /\ p # << >> /\ L \in 1 .. L /\ j <= L /\ k > L
      BY <1>1, <1>2, <2>3, EmptySeq DEF L
    <3>2. /\ q[j] = p[j] /\ p[j][1] \in Nat \ {0} /\ p[j][2] \in Nat
          /\ Size(p[j][1]) \in Nat
      BY <1>1, <1>4, <2>3, ByteType, SizeType
    <3>3. p[j][2] + (k - j) <= Size(p[j][1])
      BY <1>9, <3>2
    <3>4. /\ p[j][2] + (L - j) <= Size(p[j][1])
          /\ p[j][2] + (L - j) # Size(p[j][1])
      <4>1. j \in Nat /\ k \in Nat /\ L \in Nat /\ L < k
        BY <1>1, <1>2, <3>1
      <4>2. p[j][2] \in Nat /\ Size(p[j][1]) \in Nat
        BY <3>2
      <4> HIDE DEF L
      <4> QED BY <3>3, <4>1, <4>2, Below, Zenon
    <3>5. p[j][2] + (L - j) <= Size(p[j][1])
      BY <3>4
    <3>6. p[L] = <<p[j][1], p[j][2] + (L - j)>>
      BY <2>3, <3>1, <3>5 DEF InStream, L
    <3>7. p[L][1] = p[j][1] /\ p[L][2] = p[j][2] + (L - j)
      BY <3>6
    <3>8. Joined(p[L][1], p[L][2], m, o)
      BY <3>1 DEF L
    <3>9. m = p[j][1] /\ o = p[j][2] + (L - j)
      BY <3>4, <3>7, <3>8 DEF Joined
    <3>10. q[k] = <<m, o + (k - L)>>
      BY <1>6, <2>3
    <3>11. o + (k - L) = p[j][2] + (k - j)
      <4>1. j \in Nat /\ k \in Nat /\ L \in Nat
        BY <1>1, <1>2
      <4>2. p[j][2] \in Nat
        BY <3>2
      <4> HIDE DEF L
      <4>3. p[j][2] + (L - j) + (k - L) = p[j][2] + (k - j)
        BY <4>1, <4>2, SMTT(30)
      <4> QED BY <3>9, <4>3, Zenon
    <3> QED BY <3>2, <3>9, <3>10, <3>11
  <2> QED BY <2>1, <2>2, <2>3
<1>10. InStream(q)
  <2>1. Len(q) = L + n /\ q \in Seq(Byte)
    BY <1>3
  <2>2. \A k \in 1 .. Len(q) : q[k][2] >= 1 /\ q[k][2] <= Size(q[k][1])
    BY <1>7, <2>1
  <2>3. \A k \in 1 .. Len(q) - 1 :
          Joined(q[k][1], q[k][2], q[k + 1][1], q[k + 1][2] - 1)
    <3> SUFFICES ASSUME NEW k \in 1 .. Len(q) - 1
                 PROVE  Joined(q[k][1], q[k][2], q[k + 1][1], q[k + 1][2] - 1)
      OBVIOUS
    <3>1. k \in 1 .. L + n - 1
      BY <1>1, <1>2, <2>1
    <3> QED BY <1>8, <3>1
  <2>4. \A j, k \in 1 .. Len(q) :
          j <= k /\ q[j][2] + (k - j) <= Size(q[j][1])
            => q[k] = <<q[j][1], q[j][2] + (k - j)>>
    BY <1>9, <2>1
  <2> HIDE DEF q
  <2> QED BY <2>1, <2>2, <2>3, <2>4 DEF InStream
<1> QED
  BY <1>3, <1>4, <1>5, <1>10 DEF q, L, n

\* What is left when the first n bytes have been read
LEMMA DropKeepsStream ==
  ASSUME NEW p, InStream(p), NEW n \in Nat, n <= Len(p)
  PROVE  LET q == SubSeq(p, n + 1, Len(p))
         IN  /\ InStream(q) /\ Len(q) = Len(p) - n
             /\ \A k \in 1 .. Len(p) - n : q[k] = p[n + k]
<1> DEFINE q == SubSeq(p, n + 1, Len(p))
           L == Len(p)
<1>1. /\ p \in Seq(Byte) /\ L \in Nat
      /\ \A k \in n + 1 .. L : p[k] \in Byte
  BY LenProperties, ElementOfSeq DEF InStream
<1>2. /\ q \in Seq(Byte)
      /\ Len(q) = IF n + 1 <= L THEN L - (n + 1) + 1 ELSE 0
      /\ \A k \in 1 .. L - (n + 1) + 1 : q[k] = p[n + 1 + k - 1]
  BY <1>1, SubSeqProperties
<1>3. /\ Len(q) = L - n
      /\ \A k \in 1 .. L - n : q[k] = p[n + k]
  <2> SUFFICES ASSUME NEW k \in 1 .. L - n
               PROVE  q[k] = p[n + k]
    BY <1>1, <1>2
  <2>1. k \in 1 .. L - (n + 1) + 1 /\ n + 1 + k - 1 = n + k
    BY <1>1
  <2> QED BY <1>2, <2>1
<1> HIDE DEF q
<1>4. \A k \in 1 .. L - n : q[k][2] >= 1 /\ q[k][2] <= Size(q[k][1])
  <2>1. \A k \in 1 .. L - n : n + k \in 1 .. L
    BY <1>1
  <2> QED BY <1>3, <2>1 DEF InStream
<1>5. \A k \in 1 .. L - n - 1 :
        Joined(q[k][1], q[k][2], q[k + 1][1], q[k + 1][2] - 1)
  <2> SUFFICES ASSUME NEW k \in 1 .. L - n - 1
               PROVE  Joined(q[k][1], q[k][2], q[k + 1][1], q[k + 1][2] - 1)
    OBVIOUS
  <2>1. /\ n + k \in 1 .. L - 1 /\ n + (k + 1) = (n + k) + 1
        /\ k \in 1 .. L - n /\ k + 1 \in 1 .. L - n
    BY <1>1
  <2> QED BY <1>3, <2>1 DEF InStream
<1>6. \A j, k \in 1 .. L - n :
        j <= k /\ q[j][2] + (k - j) <= Size(q[j][1])
          => q[k] = <<q[j][1], q[j][2] + (k - j)>>
  <2> SUFFICES ASSUME NEW j \in 1 .. L - n, NEW k \in 1 .. L - n,
                      j <= k, q[j][2] + (k - j) <= Size(q[j][1])
               PROVE  q[k] = <<q[j][1], q[j][2] + (k - j)>>
    OBVIOUS
  <2>1. /\ n + j \in 1 .. L /\ n + k \in 1 .. L /\ n + j <= n + k
        /\ (n + k) - (n + j) = k - j
    BY <1>1
  <2>2. p[n + k] = <<p[n + j][1], p[n + j][2] + ((n + k) - (n + j))>>
    BY <1>3, <2>1 DEF InStream
  <2> QED BY <1>3, <2>1, <2>2
<1> QED
  BY <1>2, <1>3, <1>4, <1>5, <1>6 DEF InStream, q

LEMMA EmptyIsStream == InStream(<< >>)
BY EmptySeq DEF InStream

-----------------------------------------------------------------------------
(***************************************************************************)
(* Going on to the next segment                                            *)
(***************************************************************************)
LEMMA JoinedOn ==
  ASSUME NEW m \in Nat \ {0}, NEW o \in Nat, NEW n \in Nat \ {0},
         Joined(m, o, n, Size(n))
  PROVE  Joined(m, o, n + 1, 0)
<1>1. CASE m = n /\ o = Size(n)
  BY <1>1 DEF Joined
<1>2. CASE ~(m = n /\ o = Size(n))
  <2>1. /\ m < n /\ o = Size(m) /\ Size(n) = 0
        /\ \A s \in m + 1 .. n - 1 : Size(s) = 0
    BY <1>2 DEF Joined
  <2>2. \A s \in m + 1 .. (n + 1) - 1 : s \in m + 1 .. n - 1 \/ s = n
    OBVIOUS
  <2>3. \A s \in m + 1 .. (n + 1) - 1 : Size(s) = 0
    BY <2>1, <2>2
  <2> QED BY <2>1, <2>3 DEF Joined
<1> QED BY <1>1, <1>2

LEMMA JoinedFrom ==
  ASSUME NEW m \in Nat \ {0}, NEW n \in Nat \ {0}, NEW k \in Nat,
         Joined(m, Size(m), n, k)
  PROVE  Joined(m + 1, 0, n, k) \/ (n = m /\ k = Size(m))
<1> SUFFICES ASSUME ~(n = m /\ k = Size(m))
             PROVE  Joined(m + 1, 0, n, k)
  OBVIOUS
<1>1. m < n /\ k = 0 /\ \A s \in m + 1 .. n - 1 : Size(s) = 0
  BY DEF Joined
<1>2. CASE n = m + 1
  BY <1>1, <1>2 DEF Joined
<1>3. CASE n # m + 1
  <2>1. m + 1 < n /\ m + 1 \in m + 1 .. n - 1
    BY <1>1, <1>3
  <2>2. Size(m + 1) = 0
    BY <1>1, <2>1
  <2>3. \A s \in (m + 1) + 1 .. n - 1 : s \in m + 1 .. n - 1
    OBVIOUS
  <2> QED BY <1>1, <2>1, <2>2, <2>3 DEF Joined
<1> QED BY <1>2, <1>3

LEMMA NearOn ==
  ASSUME NEW m \in Nat \ {0}, NEW o \in Nat, NEW n \in Nat \ {0},
         Near(m, o, n, Size(n))
  PROVE  Near(m, o, n + 1, 0) /\ Near(n + 1, 0, m, o)
<1>1. CASE Joined(m, o, n, Size(n))
  BY <1>1, JoinedOn DEF Near
<1>2. CASE Joined(n, Size(n), m, o)
  <2>1. CASE m = n /\ o = Size(n)
    BY <1>1, <2>1 DEF Joined
  <2>2. CASE ~(m = n /\ o = Size(n))
    BY <1>2, <2>2, JoinedFrom DEF Near
  <2> QED BY <2>1, <2>2
<1> QED BY <1>1, <1>2 DEF Near

-----------------------------------------------------------------------------
(***************************************************************************)
(* The invariant                                                           *)
(***************************************************************************)
LEMMA InitIOInv == Init => IOInv
<1> SUFFICES ASSUME Init PROVE IOInv
  OBVIOUS
<1> USE DEF Init
<1>1. << >> \in Seq(Byte) /\ << >> \in Seq(Seq(Byte)) /\ Len(<< >>) = 0
  BY EmptySeq
<1>2. Size(1) \in Nat
  BY SizeType
<1>3. IOTypeOK
  BY <1>1, <1>2 DEF IOTypeOK
<1>4. Counted
  BY <1>1, <1>2 DEF Counted
<1>5. InStream(pipe)
  BY EmptyIsStream
<1>6. Intact /\ PartRead /\ Written
  BY <1>1 DEF Intact, PartRead, Written
<1>7. ReaderNext /\ WriterLast
  BY <1>1 DEF ReaderNext, WriterLast, Near, Joined
<1> QED BY <1>3, <1>4, <1>5, <1>6, <1>7 DEF IOInv

\* What the writer may rely on when it has something to write: it goes on
\* where the bytes in the kernel end, and where the reader is if there are none.
LEMMA WriterPlace ==
  ASSUME IOInv, ~broken, wleft > 0
  PROVE  /\ wbuf < Size(wseg)
         /\ pipe # << >> =>
              Joined(pipe[Len(pipe)][1], pipe[Len(pipe)][2], wseg, wbuf)
         /\ pipe = << >> => Joined(rseg, Len(rbuf), wseg, wbuf)
<1>1. wbuf < Size(wseg)
  BY SizeType DEF IOInv, IOTypeOK, Counted
<1>2. pipe = << >> => Near(rseg, Len(rbuf), wseg, wbuf)
  BY DEF IOInv, WriterLast
<1>3. Joined(wseg, wbuf, rseg, Len(rbuf)) => rseg = wseg /\ Len(rbuf) = wbuf
  BY <1>1 DEF Joined, IOInv, IOTypeOK
<1>4. pipe = << >> => Joined(rseg, Len(rbuf), wseg, wbuf)
  BY <1>2, <1>3 DEF Near, Joined
<1> QED BY <1>1, <1>4 DEF IOInv, WriterLast

LEMMA WritePartIOInv ==
  ASSUME IOInv, NEW n \in Nat, WritePart(n)
  PROVE  IOInv'
<1> DEFINE piece == SubSeq(Content(wseg), wbuf + 1, wbuf + n)
           L     == Len(pipe)
<1>1. /\ wseg \in Nat \ {0} /\ wleft \in Nat /\ wbuf \in Nat
      /\ rseg \in Nat \ {0} /\ rleft \in Nat /\ rbuf \in Seq(Byte)
      /\ received \in Seq(Seq(Byte)) /\ L \in Nat /\ Len(rbuf) \in Nat
      /\ Size(wseg) \in Nat /\ Size(wseg + 1) \in Nat /\ pipe \in Seq(Byte)
  BY SizeType, LenProperties DEF IOInv, IOTypeOK, InStream
<1>2. /\ n \in Nat \ {0} /\ n <= wleft /\ wleft > 0 /\ ~broken
      /\ pipe' = pipe \o piece
      /\ UNCHANGED <<writer, readVars, broken>>
  BY <1>1 DEF WritePart
<1>3. wleft + wbuf = Size(wseg)
  BY DEF IOInv, Counted
<1>4. wbuf + n <= Size(wseg)
  BY <1>1, <1>2, <1>3
<1>5. /\ InStream(pipe') /\ Len(pipe') = L + n
      /\ \A k \in 1 .. L : pipe'[k] = pipe[k]
      /\ \A t \in 1 .. n : pipe'[L + t] = <<wseg, wbuf + t>>
  <2>1. pipe # << >> => Joined(pipe[L][1], pipe[L][2], wseg, wbuf)
    BY <1>2, WriterPlace
  <2>2. InStream(pipe)
    BY DEF IOInv
  <2>3. n \in Nat \ {0} /\ pipe' = pipe \o piece
    BY <1>2
  <2>4. /\ InStream(pipe \o piece)
        /\ Len(pipe \o piece) = L + n
        /\ \A k \in 1 .. L : (pipe \o piece)[k] = pipe[k]
        /\ \A t \in 1 .. n : (pipe \o piece)[L + t] = <<wseg, wbuf + t>>
    <3>1. /\ piece \in Seq(Byte) /\ Len(piece) = n
          /\ \A t \in 1 .. n : piece[t] = <<wseg, wbuf + t>>
      BY <1>1, <1>2, <1>4, PieceType
    <3>2. /\ wseg \in Nat \ {0} /\ wbuf \in Nat
          /\ wbuf + Len(piece) <= Size(wseg)
      BY <1>1, <1>4, <3>1
    <3>3. /\ pipe # << >> => Joined(pipe[Len(pipe)][1], pipe[Len(pipe)][2], wseg, wbuf)
          /\ \A t \in 1 .. Len(piece) : piece[t] = <<wseg, wbuf + t>>
      BY <2>1, <3>1
    <3> HIDE DEF piece
    <3>4. /\ InStream(pipe \o piece)
          /\ Len(pipe \o piece) = Len(pipe) + Len(piece)
          /\ \A k \in 1 .. Len(pipe) : (pipe \o piece)[k] = pipe[k]
          /\ \A t \in 1 .. Len(piece) :
               (pipe \o piece)[Len(pipe) + t] = <<wseg, wbuf + t>>
      <4> HIDE DEF L
      <4>1. piece \in Seq(Byte)
        BY <3>1
      <4> QED BY <2>2, <3>2, <3>3, <4>1, AppendKeepsStream, ZenonT(60)
    <3> QED BY <3>1, <3>4
  <2> QED BY <2>3, <2>4
<1> HIDE DEF piece
<1>6. \/ n = wleft /\ wseg' = wseg + 1 /\ wleft' = Size(wseg + 1) /\ wbuf' = 0
      \/ n < wleft /\ wseg' = wseg /\ wleft' = wleft - n /\ wbuf' = wbuf + n
  BY DEF WritePart, WriteReturns
<1>7. UNCHANGED <<rseg, rleft, rbuf, received, broken>>
  BY <1>2 DEF readVars
<1>8. IOTypeOK'
  BY <1>1, <1>2, <1>6, <1>7 DEF IOTypeOK
<1>9. Counted'
  <2>1. wleft' + wbuf' = Size(wseg') /\ (wleft' = 0 => wbuf' = 0)
    BY <1>1, <1>2, <1>3, <1>6
  <2> QED BY <1>7, <2>1 DEF IOInv, Counted
<1>10. Intact' /\ PartRead'
  BY <1>7 DEF IOInv, Intact, PartRead, Content
<1>11. ReaderNext'
  <2>1. CASE pipe # << >>
    <3>1. L # 0 /\ 1 \in 1 .. L
      BY <1>1, <2>1, EmptySeq
    <3>2. pipe'[1] = pipe[1]
      BY <1>5, <3>1
    <3> QED BY <1>7, <2>1, <3>2 DEF IOInv, ReaderNext
  <2>2. CASE pipe = << >>
    <3>1. L = 0 /\ 1 \in 1 .. n /\ L + 1 = 1
      BY <1>2, <2>2, EmptySeq
    <3>2. pipe'[1] = <<wseg, wbuf + 1>>
      BY <1>5, <3>1
    <3>3. pipe'[1][1] = wseg /\ pipe'[1][2] - 1 = wbuf
      BY <1>1, <3>2
    <3>4. Joined(rseg, Len(rbuf), wseg, wbuf)
      BY <1>2, <2>2, WriterPlace
    <3> QED BY <1>7, <3>3, <3>4 DEF ReaderNext
  <2> QED BY <2>1, <2>2
<1>12. WriterLast'
  <2>1. L + n \in Nat \ {0} /\ pipe' # << >> /\ n \in 1 .. n
    BY <1>1, <1>2, <1>5, EmptySeq
  <2>2. pipe'[Len(pipe')] = <<wseg, wbuf + n>>
    BY <1>5, <2>1
  <2>3. pipe'[Len(pipe')][1] = wseg /\ pipe'[Len(pipe')][2] = wbuf + n
    BY <2>2
  <2>4. CASE n < wleft
    BY <1>6, <2>1, <2>3, <2>4 DEF WriterLast, Joined
  <2>5. CASE ~(n < wleft)
    <3>1. n = wleft /\ wseg' = wseg + 1 /\ wbuf' = 0
      BY <1>6, <2>5
    <3>2. wbuf + n = Size(wseg)
      BY <1>1, <1>3, <3>1
    <3>3. Joined(wseg, wbuf + n, wseg, Size(wseg))
      BY <3>2 DEF Joined
    <3>4. Joined(wseg, wbuf + n, wseg + 1, 0)
      BY <1>1, <1>2, <3>3, JoinedOn
    <3> QED BY <2>1, <2>3, <3>1, <3>4 DEF WriterLast
  <2> QED BY <2>4, <2>5
<1>13. Written'
  <2> SUFFICES ASSUME NEW k \in 1 .. L + n
               PROVE  \/ pipe'[k][1] < wseg'
                      \/ pipe'[k][1] = wseg' /\ pipe'[k][2] <= wbuf'
    BY <1>5 DEF Written
  <2>1. CASE k \in 1 .. L
    <3>1. pipe'[k] = pipe[k] /\ pipe[k][1] \in Nat /\ pipe[k][2] \in Nat
      BY <1>1, <1>5, <2>1, ElementOfSeq, ByteType
    <3>2. pipe[k][1] < wseg \/ (pipe[k][1] = wseg /\ pipe[k][2] <= wbuf)
      BY <2>1 DEF IOInv, Written
    <3>3. pipe'[k][1] < wseg \/ (pipe'[k][1] = wseg /\ pipe'[k][2] <= wbuf)
      BY <3>1, <3>2
    <3>4. pipe'[k][1] \in Nat /\ pipe'[k][2] \in Nat
      BY <3>1
    <3>5. CASE wseg' = wseg + 1
      BY <1>1, <3>3, <3>4, <3>5
    <3>6. CASE wseg' = wseg /\ wbuf' = wbuf + n
      BY <1>1, <3>3, <3>4, <3>6, SMTT(30)
    <3> QED BY <1>6, <3>5, <3>6
  <2>2. CASE k \notin 1 .. L
    <3>1. k - L \in 1 .. n /\ L + (k - L) = k
      BY <1>1, <2>2
    <3>2. pipe'[k] = <<wseg, wbuf + (k - L)>>
      BY <1>5, <3>1
    <3>3. pipe'[k][1] = wseg /\ pipe'[k][2] = wbuf + (k - L)
      BY <3>2
    <3>4. wbuf + (k - L) <= wbuf + n /\ wbuf + (k - L) \in Nat
      BY <1>1, <3>1
    <3>5. CASE wseg' = wseg + 1
      <4>1. wseg < wseg + 1
        BY <1>1
      <4> QED BY <3>3, <3>5, <4>1, Zenon
    <3>6. CASE wseg' = wseg /\ wbuf' = wbuf + n
      BY <3>3, <3>4, <3>6, Zenon
    <3> QED BY <1>6, <3>5, <3>6, Zenon
  <2> QED BY <2>1, <2>2
<1> QED BY <1>5, <1>8, <1>9, <1>10, <1>11, <1>12, <1>13 DEF IOInv

LEMMA WriteNothingIOInv ==
  ASSUME IOInv, WriteNothing
  PROVE  IOInv'
<1>1. /\ wseg \in Nat \ {0} /\ rseg \in Nat \ {0} /\ Len(rbuf) \in Nat
      /\ Size(wseg + 1) \in Nat
  BY SizeType, LenProperties DEF IOInv, IOTypeOK
<1>2. /\ Size(wseg) = 0 /\ wbuf = 0
      /\ wseg' = wseg + 1 /\ wleft' = Size(wseg + 1) /\ wbuf' = 0
  BY DEF IOInv, IOTypeOK, Counted, WriteNothing, WriteReturns
<1>3. UNCHANGED <<rseg, rleft, rbuf, received, pipe, broken>>
  BY DEF WriteNothing, readVars
<1>4. IOTypeOK'
  BY <1>1, <1>2, <1>3 DEF IOInv, IOTypeOK
<1>5. Counted'
  BY <1>1, <1>2, <1>3 DEF IOInv, Counted
<1>6. InStream(pipe)' /\ Intact' /\ PartRead' /\ ReaderNext'
  BY <1>3 DEF IOInv, InStream, Intact, PartRead, ReaderNext, Content
<1>7. WriterLast'
  <2> SUFFICES ASSUME ~broken
               PROVE  WriterLast'
    BY <1>3 DEF WriterLast
  <2>1. CASE pipe # << >>
    <3>1. Len(pipe) \in 1 .. Len(pipe) /\ pipe \in Seq(Byte)
      BY <2>1, EmptySeq, LenProperties DEF IOInv, InStream
    <3>2. pipe[Len(pipe)][1] \in Nat \ {0} /\ pipe[Len(pipe)][2] \in Nat
      BY <3>1, ElementOfSeq, ByteType
    <3>3. Joined(pipe[Len(pipe)][1], pipe[Len(pipe)][2], wseg, Size(wseg))
      BY <1>2, <2>1 DEF IOInv, WriterLast
    <3>4. Joined(pipe[Len(pipe)][1], pipe[Len(pipe)][2], wseg + 1, 0)
      BY <1>1, <3>2, <3>3, JoinedOn
    <3> QED BY <1>2, <1>3, <2>1, <3>4 DEF WriterLast
  <2>2. CASE pipe = << >>
    <3>1. Near(rseg, Len(rbuf), wseg, Size(wseg))
      BY <1>2, <2>2 DEF IOInv, WriterLast
    <3>2. Near(rseg, Len(rbuf), wseg + 1, 0)
      BY <1>1, <3>1, NearOn
    <3> QED BY <1>2, <1>3, <2>2, <3>2 DEF WriterLast
  <2> QED BY <2>1, <2>2
<1>8. Written'
  <2> SUFFICES ASSUME NEW k \in 1 .. Len(pipe)
               PROVE  pipe[k][1] < wseg + 1
    BY <1>2, <1>3 DEF Written
  <2>1. pipe[k][1] \in Nat
    BY ElementOfSeq, ByteType DEF IOInv, InStream
  <2>2. pipe[k][1] < wseg \/ pipe[k][1] = wseg
    BY DEF IOInv, Written
  <2> QED BY <1>1, <2>1, <2>2
<1> QED BY <1>4, <1>5, <1>6, <1>7, <1>8 DEF IOInv

\* What a read of n bytes finds: they go on where the reader is, and they are
\* all of its segment.
LEMMA ReaderPlace ==
  ASSUME IOInv, NEW n \in Nat \ {0}, n <= rleft, n <= Len(pipe)
  PROVE  /\ Len(rbuf) + n <= Size(rseg)
         /\ \A k \in 1 .. n : pipe[k] = <<rseg, Len(rbuf) + k>>
<1>1. /\ rseg \in Nat \ {0} /\ rleft \in Nat /\ Len(rbuf) \in Nat
      /\ Size(rseg) \in Nat /\ rleft + Len(rbuf) = Size(rseg)
      /\ pipe \in Seq(Byte) /\ Len(pipe) \in Nat
  BY SizeType, LenProperties DEF IOInv, IOTypeOK, Counted, InStream
<1>2. Len(rbuf) + n <= Size(rseg) /\ Len(rbuf) < Size(rseg)
  BY <1>1
<1>3. pipe # << >> /\ 1 \in 1 .. Len(pipe)
  BY <1>1, EmptySeq
<1>4. pipe[1] = <<rseg, Len(rbuf) + 1>>
  <2>1. /\ pipe[1][2] \in Nat
        /\ pipe[1] = <<pipe[1][1], pipe[1][2]>>
    BY <1>1, <1>3, ElementOfSeq, ByteType
  <2>2. Joined(rseg, Len(rbuf), pipe[1][1], pipe[1][2] - 1)
    BY <1>3 DEF IOInv, ReaderNext
  <2>3. pipe[1][1] = rseg /\ pipe[1][2] - 1 = Len(rbuf)
    BY <1>1, <1>2, <2>2 DEF Joined
  <2>4. pipe[1][2] = Len(rbuf) + 1
    BY <1>1, <2>1, <2>3
  <2> QED BY <2>1, <2>3, <2>4
<1>5. ASSUME NEW k \in 1 .. n
      PROVE  pipe[k] = <<rseg, Len(rbuf) + k>>
  <2>1. /\ k \in 1 .. Len(pipe) /\ 1 <= k
        /\ Len(rbuf) + 1 + (k - 1) = Len(rbuf) + k
        /\ Len(rbuf) + k <= Size(rseg)
    BY <1>1, <1>2
  <2>2. pipe[1][1] = rseg /\ pipe[1][2] = Len(rbuf) + 1
    BY <1>4
  <2>3. pipe[1][2] + (k - 1) <= Size(pipe[1][1])
    BY <2>1, <2>2
  <2>4. pipe[k] = <<pipe[1][1], pipe[1][2] + (k - 1)>>
    BY <1>3, <2>1, <2>3 DEF IOInv, InStream
  <2> QED BY <2>1, <2>2, <2>4
<1> QED BY <1>2, <1>5

\* What full_read has then: the first bytes of its segment
LEMMA ReadSoFar ==
  ASSUME IOInv, NEW n \in Nat \ {0}, n <= rleft, n <= Len(pipe)
  PROVE  LET sofar == rbuf \o SubSeq(pipe, 1, n)
         IN  /\ sofar \in Seq(Byte) /\ Len(sofar) = Len(rbuf) + n
             /\ \A i \in 1 .. Len(rbuf) + n : sofar[i] = <<rseg, i>>
<1> DEFINE part  == SubSeq(pipe, 1, n)
           sofar == rbuf \o part
           L     == Len(rbuf)
<1>1. /\ rbuf \in Seq(Byte) /\ L \in Nat /\ pipe \in Seq(Byte)
      /\ Len(pipe) \in Nat
  BY LenProperties DEF IOInv, IOTypeOK, InStream
<1>2. \A i \in 1 .. n : pipe[i] \in Byte
  BY <1>1, ElementOfSeq
<1>3. /\ part \in Seq(Byte)
      /\ Len(part) = IF 1 <= n THEN n - 1 + 1 ELSE 0
      /\ \A i \in 1 .. n - 1 + 1 : part[i] = pipe[1 + i - 1]
  BY <1>2, SubSeqProperties
<1>4. Len(part) = n /\ \A i \in 1 .. n : part[i] = pipe[i]
  <2> SUFFICES ASSUME NEW i \in 1 .. n
               PROVE  part[i] = pipe[i]
    BY <1>3
  <2>1. i \in 1 .. n - 1 + 1 /\ 1 + i - 1 = i
    OBVIOUS
  <2> QED BY <1>3, <2>1
<1>5. /\ sofar \in Seq(Byte) /\ Len(sofar) = L + n
      /\ \A i \in 1 .. L + n : sofar[i] = IF i <= L THEN rbuf[i]
                                                    ELSE part[i - L]
  BY <1>1, <1>3, <1>4, ConcatProperties
<1>6. ASSUME NEW i \in 1 .. L + n
      PROVE  sofar[i] = <<rseg, i>>
  <2>1. CASE i <= L
    <3>1. i \in 1 .. L
      BY <1>1, <2>1
    <3> QED BY <1>5, <2>1, <3>1 DEF IOInv, PartRead
  <2>2. CASE ~(i <= L)
    <3>1. i - L \in 1 .. n /\ L + (i - L) = i
      BY <1>1, <2>2
    <3>2. pipe[i - L] = <<rseg, L + (i - L)>>
      BY <3>1, ReaderPlace
    <3>3. sofar[i] = part[i - L]
      BY <1>5, <2>2
    <3> QED BY <1>4, <3>1, <3>2, <3>3
  <2> QED BY <2>1, <2>2
<1> QED BY <1>5, <1>6

\* The reader's call returns and has delivered the next segment.
LEMMA ReturnKeepsIntact ==
  ASSUME IOInv, NEW segment \in Seq(Byte), Len(segment) = Size(rseg),
         \A i \in 1 .. Size(rseg) : segment[i] = <<rseg, i>>,
         ReadReturns(segment)
  PROVE  Intact' /\ received' \in Seq(Seq(Byte)) /\ Len(received') = rseg
<1>1. /\ received \in Seq(Seq(Byte)) /\ Len(received) = rseg - 1
      /\ rseg \in Nat \ {0}
      /\ received' = Append(received, segment)
  BY DEF IOInv, IOTypeOK, Counted, ReadReturns
<1>2. /\ received' \in Seq(Seq(Byte)) /\ Len(received') = rseg
      /\ \A m \in 1 .. rseg - 1 : received'[m] = received[m]
      /\ received'[rseg] = segment
  <2>1. /\ received' \in Seq(Seq(Byte)) /\ Len(received') = Len(received) + 1
        /\ \A m \in 1 .. Len(received) : received'[m] = received[m]
        /\ received'[Len(received) + 1] = segment
    BY <1>1, AppendProperties
  <2>2. Len(received) + 1 = rseg
    BY <1>1
  <2> QED BY <1>1, <2>1, <2>2
<1>3. segment = Content(rseg)
  <2>1. /\ Content(rseg) \in Seq(Byte) /\ Len(Content(rseg)) = Size(rseg)
        /\ \A i \in 1 .. Size(rseg) : Content(rseg)[i] = <<rseg, i>>
    BY <1>1, ContentType
  <2> QED BY <2>1, SeqEqual
<1>4. \A m \in 1 .. rseg : m = rseg \/ m \in 1 .. rseg - 1
  BY <1>1
<1>5. \A m \in 1 .. rseg - 1 : received[m] = Content(m)
  BY <1>1 DEF IOInv, Intact
<1>6. \A m \in 1 .. rseg : received'[m] = Content(m)
  BY <1>2, <1>3, <1>4, <1>5
<1>7. Intact'
  BY <1>2, <1>6 DEF Intact, Content
<1> QED BY <1>2, <1>7

LEMMA ReadNothingIOInv ==
  ASSUME IOInv, ReadNothing
  PROVE  IOInv'
<1>1. /\ wseg \in Nat \ {0} /\ rseg \in Nat \ {0} /\ wbuf \in Nat
      /\ Size(rseg + 1) \in Nat /\ << >> \in Seq(Byte) /\ Len(<< >>) = 0
  BY SizeType, EmptySeq DEF IOInv, IOTypeOK
<1>2. /\ Size(rseg) = 0 /\ rbuf = << >>
      /\ rseg' = rseg + 1 /\ rleft' = Size(rseg + 1) /\ rbuf' = << >>
      /\ ReadReturns(<< >>)
  BY <1>1 DEF IOInv, IOTypeOK, Counted, ReadNothing, ReadReturns
<1>3. UNCHANGED <<wseg, wleft, wbuf, pipe, broken>>
  BY DEF ReadNothing, writeVars
<1>4. Intact' /\ received' \in Seq(Seq(Byte)) /\ Len(received') = rseg
  <2>1. Len(<< >>) = Size(rseg) /\ \A i \in 1 .. Size(rseg) : FALSE
    BY <1>1, <1>2
  <2> QED BY <1>1, <1>2, <2>1, ReturnKeepsIntact, Zenon
<1>5. IOTypeOK'
  BY <1>1, <1>2, <1>3, <1>4 DEF IOInv, IOTypeOK
<1>6. Counted'
  BY <1>1, <1>2, <1>3, <1>4 DEF IOInv, Counted
<1>7. InStream(pipe)' /\ PartRead' /\ Written'
  BY <1>1, <1>2, <1>3 DEF IOInv, InStream, PartRead, Written
<1>8. ReaderNext'
  <2> SUFFICES ASSUME pipe # << >>
               PROVE  Joined(rseg + 1, 0, pipe[1][1], pipe[1][2] - 1)
    BY <1>1, <1>2, <1>3 DEF ReaderNext
  <2>1. 1 \in 1 .. Len(pipe)
    BY EmptySeq, LenProperties DEF IOInv, InStream
  <2>2. /\ pipe[1][1] \in Nat \ {0} /\ pipe[1][2] \in Nat
        /\ pipe[1][2] >= 1 /\ pipe[1][2] <= Size(pipe[1][1])
    BY <2>1, ElementOfSeq, ByteType DEF IOInv, InStream
  <2>3. Joined(rseg, Size(rseg), pipe[1][1], pipe[1][2] - 1)
    BY <1>1, <1>2 DEF IOInv, ReaderNext
  <2>4. ~(pipe[1][1] = rseg /\ pipe[1][2] - 1 = Size(rseg))
    BY <1>2, <2>2
  <2>5. pipe[1][2] - 1 \in Nat
    BY <2>2
  <2> QED BY <1>1, <2>2, <2>3, <2>4, <2>5, JoinedFrom
<1>9. WriterLast'
  <2> SUFFICES ASSUME ~broken
               PROVE  WriterLast'
    BY <1>3 DEF WriterLast
  <2>1. CASE pipe # << >>
    BY <1>3, <2>1 DEF IOInv, WriterLast
  <2>2. CASE pipe = << >>
    <3>1. Near(wseg, wbuf, rseg, Size(rseg))
      BY <1>1, <1>2, <2>2 DEF IOInv, WriterLast, Near
    <3>2. Near(rseg + 1, 0, wseg, wbuf)
      BY <1>1, <3>1, NearOn
    <3> QED BY <1>1, <1>2, <1>3, <2>2, <3>2 DEF WriterLast
  <2> QED BY <2>1, <2>2
<1> QED BY <1>4, <1>5, <1>6, <1>7, <1>8, <1>9 DEF IOInv

LEMMA ReadPartIOInv ==
  ASSUME IOInv, NEW n \in Nat, ReadPart(n)
  PROVE  IOInv'
<1> DEFINE sofar == rbuf \o SubSeq(pipe, 1, n)
           P     == Len(pipe)
           L     == Len(rbuf)
<1>1. /\ wseg \in Nat \ {0} /\ wleft \in Nat /\ wbuf \in Nat
      /\ rseg \in Nat \ {0} /\ rleft \in Nat /\ L \in Nat
      /\ received \in Seq(Seq(Byte)) /\ P \in Nat /\ pipe \in Seq(Byte)
      /\ Size(rseg) \in Nat /\ Size(rseg + 1) \in Nat
      /\ << >> \in Seq(Byte) /\ Len(<< >>) = 0
  BY SizeType, LenProperties, EmptySeq DEF IOInv, IOTypeOK, InStream
<1>2. /\ n \in Nat \ {0} /\ n <= rleft /\ n <= P
      /\ pipe' = SubSeq(pipe, n + 1, P)
  BY <1>1 DEF ReadPart
<1>3. UNCHANGED <<wseg, wleft, wbuf, broken>>
  BY DEF ReadPart, writeVars
<1>4. rleft + L = Size(rseg) /\ Len(received) = rseg - 1
  BY DEF IOInv, Counted
<1>5. /\ sofar \in Seq(Byte) /\ Len(sofar) = L + n
      /\ \A i \in 1 .. L + n : sofar[i] = <<rseg, i>>
  BY <1>2, ReadSoFar, Zenon
<1>6. \A k \in 1 .. n : pipe[k] = <<rseg, L + k>>
  BY <1>2, ReaderPlace
<1>7. InStream(pipe') /\ Len(pipe') = P - n
      /\ \A k \in 1 .. P - n : pipe'[k] = pipe[n + k]
  <2>1. /\ InStream(SubSeq(pipe, n + 1, P))
        /\ Len(SubSeq(pipe, n + 1, P)) = P - n
        /\ \A k \in 1 .. P - n : SubSeq(pipe, n + 1, P)[k] = pipe[n + k]
    <3>1. InStream(pipe) /\ n \in Nat /\ n <= P
      BY <1>2 DEF IOInv
    <3> QED BY <3>1, DropKeepsStream, Zenon
  <2> QED BY <1>2, <2>1
<1>8. \/ n = rleft /\ ReadReturns(sofar)
      \/ /\ n < rleft /\ rleft' = rleft - n /\ rbuf' = sofar
         /\ UNCHANGED <<rseg, received>>
  BY DEF ReadPart
<1> HIDE DEF sofar
\* either the loop goes on in the segment, or it is complete
<1>9. \/ /\ n < rleft /\ rleft' = rleft - n /\ rbuf' = sofar
         /\ rseg' = rseg /\ received' = received /\ Len(rbuf') = L + n
      \/ /\ n = rleft /\ L + n = Size(rseg) /\ rbuf' = << >>
         /\ rseg' = rseg + 1 /\ rleft' = Size(rseg + 1) /\ Len(rbuf') = 0
         /\ ReadReturns(sofar)
  <2>1. CASE n = rleft /\ ReadReturns(sofar)
    <3>1. L + n = Size(rseg)
      BY <1>1, <1>4, <2>1
    <3>2. rseg' = rseg + 1 /\ rleft' = Size(rseg + 1) /\ rbuf' = << >>
      BY <2>1 DEF ReadReturns
    <3> QED BY <1>1, <2>1, <3>1, <3>2
  <2>2. CASE /\ n < rleft /\ rleft' = rleft - n /\ rbuf' = sofar
             /\ UNCHANGED <<rseg, received>>
    BY <1>5, <2>2
  <2> QED BY <1>8, <2>1, <2>2
<1>10. Intact' /\ received' \in Seq(Seq(Byte)) /\ Len(received') = rseg' - 1
  <2>1. CASE received' = received /\ rseg' = rseg
    BY <1>1, <1>4, <2>1 DEF IOInv, Intact, Content
  <2>2. CASE L + n = Size(rseg) /\ rseg' = rseg + 1 /\ ReadReturns(sofar)
    <3>1. Intact' /\ received' \in Seq(Seq(Byte)) /\ Len(received') = rseg
      BY <1>5, <2>2, ReturnKeepsIntact
    <3> QED BY <1>1, <2>2, <3>1
  <2> QED BY <1>9, <2>1, <2>2
<1>11. IOTypeOK'
  <2>1. wseg' \in Nat \ {0} /\ wleft' \in Nat /\ wbuf' \in Nat
    BY <1>1, <1>3
  <2>2. rseg' \in Nat \ {0} /\ rleft' \in Nat
    BY <1>1, <1>2, <1>9
  <2>3. rbuf' \in Seq(Byte)
    BY <1>1, <1>5, <1>9
  <2> QED BY <1>10, <2>1, <2>2, <2>3 DEF IOTypeOK
<1>12. Counted'
  <2>1. wleft' + wbuf' = Size(wseg') /\ (wleft' = 0 => wbuf' = 0)
    BY <1>3 DEF IOInv, Counted
  <2>2. rleft' + Len(rbuf') = Size(rseg')
    <3>1. CASE rleft' = rleft - n /\ rseg' = rseg /\ Len(rbuf') = L + n
      BY <1>1, <1>2, <1>4, <3>1
    <3>2. CASE rseg' = rseg + 1 /\ rleft' = Size(rseg + 1) /\ Len(rbuf') = 0
      BY <1>1, <3>2
    <3> QED BY <1>9, <3>1, <3>2
  <2>3. rleft' = 0 => rbuf' = << >>
    BY <1>1, <1>2, <1>9
  <2> QED BY <1>10, <2>1, <2>2, <2>3 DEF Counted
<1>13. PartRead'
  BY <1>1, <1>5, <1>9 DEF PartRead
<1>14. ReaderNext'
  <2> SUFFICES ASSUME pipe' # << >>
               PROVE  Joined(rseg', Len(rbuf'), pipe'[1][1], pipe'[1][2] - 1)
    BY DEF ReaderNext
  <2>1. P - n # 0 /\ n \in 1 .. P - 1 /\ 1 \in 1 .. P - n /\ n + 1 \in 1 .. P
        /\ n \in 1 .. n
    BY <1>1, <1>2, <1>7, EmptySeq
  <2>2. pipe'[1] = pipe[n + 1]
    BY <1>7, <2>1
  <2>3. /\ pipe[n + 1][1] \in Nat \ {0} /\ pipe[n + 1][2] \in Nat
        /\ pipe[n + 1][2] >= 1 /\ pipe[n + 1][2] <= Size(pipe[n + 1][1])
    <3>1. pipe[n + 1] \in Byte
      BY <1>1, <2>1, ElementOfSeq
    <3>2. pipe[n + 1][2] >= 1 /\ pipe[n + 1][2] <= Size(pipe[n + 1][1])
      BY <2>1 DEF IOInv, InStream
    <3> QED BY <3>1, <3>2, ByteType
  <2>4. pipe[n][1] = rseg /\ pipe[n][2] = L + n
    BY <1>6, <2>1
  <2>5. Joined(rseg, L + n, pipe[n + 1][1], pipe[n + 1][2] - 1)
    BY <2>1, <2>4 DEF IOInv, InStream
  <2>6. CASE rseg' = rseg /\ Len(rbuf') = L + n
    BY <2>2, <2>5, <2>6
  <2>7. CASE L + n = Size(rseg) /\ rseg' = rseg + 1 /\ Len(rbuf') = 0
    <3>1. Joined(rseg, Size(rseg), pipe[n + 1][1], pipe[n + 1][2] - 1)
      BY <2>5, <2>7
    <3>2. ~(pipe[n + 1][1] = rseg /\ pipe[n + 1][2] - 1 = Size(rseg))
      BY <2>3
    <3>3. pipe[n + 1][2] - 1 \in Nat
      BY <2>3
    <3>4. Joined(rseg + 1, 0, pipe[n + 1][1], pipe[n + 1][2] - 1)
      <4>1. rseg \in Nat \ {0} /\ pipe[n + 1][1] \in Nat \ {0}
        BY <1>1, <2>3
      <4> QED BY <3>1, <3>2, <3>3, <4>1, JoinedFrom
    <3> QED BY <2>2, <2>7, <3>4
  <2> QED BY <1>9, <2>6, <2>7
<1>15. WriterLast'
  <2> SUFFICES ASSUME ~broken
               PROVE  WriterLast'
    BY <1>3 DEF WriterLast
  <2>1. P \in 1 .. P /\ pipe # << >> /\ n \in 1 .. n
    BY <1>1, <1>2, EmptySeq
  <2>2. Joined(pipe[P][1], pipe[P][2], wseg, wbuf)
    BY <2>1 DEF IOInv, WriterLast
  <2>3. CASE pipe' # << >>
    <3>1. P - n \in 1 .. P - n /\ n + (P - n) = P
      BY <1>1, <1>2, <1>7, <2>3, EmptySeq
    <3>2. pipe'[Len(pipe')] = pipe[P]
      BY <1>7, <3>1
    <3> QED BY <1>3, <2>2, <2>3, <3>2 DEF WriterLast
  <2>4. CASE pipe' = << >>
    <3>1. n = P
      <4>1. Len(pipe') = P - n /\ Len(pipe') = 0
        BY <1>7, <2>4, EmptySeq
      <4> QED BY <1>1, <1>2, <4>1
    <3>2. pipe[P][1] = rseg /\ pipe[P][2] = L + n
      BY <1>6, <2>1, <3>1
    <3>3. Joined(rseg, L + n, wseg, wbuf)
      BY <2>2, <3>2
    <3>4. Near(rseg', Len(rbuf'), wseg, wbuf)
      <4>1. CASE rseg' = rseg /\ Len(rbuf') = L + n
        BY <3>3, <4>1 DEF Near
      <4>2. CASE L + n = Size(rseg) /\ rseg' = rseg + 1 /\ Len(rbuf') = 0
        <5>1. Near(wseg, wbuf, rseg, Size(rseg))
          BY <3>3, <4>2 DEF Near
        <5>2. Near(rseg + 1, 0, wseg, wbuf)
          BY <1>1, <5>1, NearOn
        <5> QED BY <4>2, <5>2
      <4> QED BY <1>9, <4>1, <4>2
    <3> QED BY <1>3, <2>4, <3>4 DEF WriterLast
  <2> QED BY <2>3, <2>4
<1>16. Written'
  <2> SUFFICES ASSUME NEW k \in 1 .. P - n
               PROVE  \/ pipe'[k][1] < wseg
                      \/ pipe'[k][1] = wseg /\ pipe'[k][2] <= wbuf
    BY <1>3, <1>7 DEF Written
  <2>1. n + k \in 1 .. P
    BY <1>1, <1>2
  <2> QED BY <1>7, <2>1 DEF IOInv, Written
<1> QED
  BY <1>7, <1>10, <1>11, <1>12, <1>13, <1>14, <1>15, <1>16 DEF IOInv

LEMMA BreakIOInv ==
  ASSUME IOInv, Break
  PROVE  IOInv'
<1>1. /\ pipe' = pipe \/ pipe' = << >>
      /\ broken' = TRUE
      /\ UNCHANGED <<wseg, wleft, wbuf, rseg, rleft, rbuf, received>>
  BY DEF Break, writeVars, readVars
<1>2. InStream(pipe')
  BY <1>1, EmptyIsStream DEF IOInv
<1>3. ReaderNext' /\ Written'
  BY <1>1, EmptySeq DEF IOInv, ReaderNext, Written
<1>4. WriterLast'
  BY <1>1 DEF WriterLast
<1>5. IOTypeOK' /\ Counted' /\ Intact' /\ PartRead'
  BY <1>1 DEF IOInv, IOTypeOK, Counted, Intact, PartRead, Content
<1> QED BY <1>2, <1>3, <1>4, <1>5 DEF IOInv

\* The other steps, and those that change no variable
LEMMA QuietIOInv ==
  ASSUME IOInv,
         UNCHANGED <<wseg, wleft, wbuf, rseg, rleft, rbuf, pipe, received,
                     broken>>
  PROVE  IOInv'
BY DEF IOInv, IOTypeOK, Counted, InStream, Intact, PartRead, ReaderNext,
       WriterLast, Written, Content

LEMMA NextIOInv == IOInv /\ [Next]_vars => IOInv'
<1> SUFFICES ASSUME IOInv, [Next]_vars PROVE IOInv'
  OBVIOUS
<1>1. 1 .. Window \subseteq Nat
  BY WindowAssumption
<1>2. CASE \E n \in 1 .. Window : WritePart(n)
  BY <1>1, <1>2, WritePartIOInv
<1>3. CASE \E n \in 1 .. Window : ReadPart(n)
  BY <1>1, <1>3, ReadPartIOInv
<1>4. CASE WriteNothing
  BY <1>4, WriteNothingIOInv
<1>5. CASE ReadNothing
  BY <1>5, ReadNothingIOInv
<1>6. CASE Break
  BY <1>6, BreakIOInv
<1>7. CASE WriteFails \/ ReadEnds \/ ReadFails \/ Close
  BY <1>7, QuietIOInv
     DEF WriteFails, ReadEnds, ReadFails, Close, writeVars, readVars
<1>8. CASE WriteInterrupted \/ ReadInterrupted \/ UNCHANGED vars
  BY <1>8, QuietIOInv
     DEF WriteInterrupted, ReadInterrupted, vars, writeVars, readVars
<1> QED
  BY <1>2, <1>3, <1>4, <1>5, <1>6, <1>7, <1>8 DEF Next

LEMMA IOInvHolds == Spec => []IOInv
<1>1. Init => IOInv
  BY InitIOInv
<1>2. IOInv /\ [Next]_vars => IOInv'
  BY NextIOInv
<1> QED BY <1>1, <1>2, PTL DEF Spec

-----------------------------------------------------------------------------
\* utils.c:26 and utils.c:56: a call of full_read that returns `count' has
\* delivered, byte for byte, what the corresponding call of full_write was
\* given: for any segments, any room in the kernel and any way in which both
\* are cut into system calls, and also when the connection fails in between.
THEOREM SegmentsArriveIntact == Spec => []Intact
<1>1. IOInv => Intact
  BY DEF IOInv
<1> QED BY <1>1, IOInvHolds, PTL

-----------------------------------------------------------------------------
(***************************************************************************)
(* The refinement                                                          *)
(***************************************************************************)
LEMMA InitPromise == Init => Promise!Init
BY EmptySeq DEF Init, Promise!Init

LEMMA WritePartSends ==
  ASSUME IOInv, NEW n \in Nat, WritePart(n)
  PROVE  Promise!Next \/ UNCHANGED Promise!vars
<1>1. /\ wseg \in Nat /\ writer = "open" /\ wseg <= Len(Sizes)
      /\ Len(Sizes) \in Nat
      /\ UNCHANGED <<received, writer, reader, broken>>
  BY SizesAssumption, LenProperties
     DEF IOInv, IOTypeOK, WritePart, Writing, readVars
<1>2. CASE wseg' = wseg + 1
  <2>1. wseg - 1 < Len(Sizes) /\ wseg' - 1 = wseg - 1 + 1
    BY <1>1, <1>2
  <2>2. Promise!Send
    BY <1>1, <2>1 DEF Promise!Send
  <2> QED BY <2>2 DEF Promise!Next
<1>3. CASE wseg' = wseg
  BY <1>1, <1>3 DEF Promise!vars
<1> QED BY <1>2, <1>3 DEF WritePart, WriteReturns

LEMMA WriteNothingSends ==
  ASSUME IOInv, WriteNothing
  PROVE  Promise!Next
<1>1. /\ wseg \in Nat /\ writer = "open" /\ wseg <= Len(Sizes)
      /\ Len(Sizes) \in Nat
      /\ UNCHANGED <<received, writer, reader, broken>>
      /\ wseg' = wseg + 1
  BY SizesAssumption, LenProperties
     DEF IOInv, IOTypeOK, WriteNothing, WriteReturns, Writing, readVars
<1>2. wseg - 1 < Len(Sizes) /\ wseg' - 1 = wseg - 1 + 1
  BY <1>1
<1>3. Promise!Send
  BY <1>1, <1>2 DEF Promise!Send
<1> QED BY <1>3 DEF Promise!Next

\* A segment is complete only when it has been written: its last byte was in
\* the kernel, and the writer goes on with the next segment when that is there.
LEMMA ReadPartDelivers ==
  ASSUME IOInv, NEW n \in Nat, ReadPart(n)
  PROVE  Promise!Next \/ UNCHANGED Promise!vars
<1>1. /\ n \in Nat \ {0} /\ n <= rleft /\ n <= Len(pipe) /\ reader = "open"
      /\ UNCHANGED <<wseg, writer, reader, broken>>
  BY DEF ReadPart, Reading, writeVars
<1>2. /\ rseg \in Nat \ {0} /\ wseg \in Nat \ {0} /\ rleft \in Nat
      /\ wleft \in Nat /\ wbuf \in Nat
      /\ received \in Seq(Seq(Byte)) /\ Len(received) = rseg - 1
      /\ Len(rbuf) \in Nat /\ rleft + Len(rbuf) = Size(rseg)
      /\ wleft + wbuf = Size(wseg) /\ (wleft = 0 => wbuf = 0)
      /\ Len(pipe) \in Nat
  BY LenProperties DEF IOInv, IOTypeOK, Counted, InStream
<1>3. CASE n < rleft
  <2>1. received' = received
    BY <1>2, <1>3 DEF ReadPart
  <2> QED BY <1>1, <2>1 DEF Promise!vars
<1>4. CASE n = rleft
  <2>1. PICK segment : received' = Append(received, segment)
    BY <1>2, <1>4 DEF ReadPart, ReadReturns
  <2>2. Len(received') = Len(received) + 1
    BY <2>1 DEF IOInv, IOTypeOK
  <2>3. n \in 1 .. n /\ n \in 1 .. Len(pipe)
    BY <1>1, <1>2
  <2>4. pipe[n] = <<rseg, Len(rbuf) + n>>
    BY <1>1, <2>3, ReaderPlace
  <2>5. pipe[n][1] = rseg /\ pipe[n][2] = Size(rseg) /\ Size(rseg) # 0
    BY <1>1, <1>2, <1>4, <2>4
  <2>6. rseg < wseg \/ (rseg = wseg /\ Size(rseg) <= wbuf)
    BY <2>3, <2>5 DEF IOInv, Written
  <2>7. rseg < wseg
    BY <1>2, <2>5, <2>6
  <2>8. Len(received) < wseg - 1
    BY <1>2, <2>7
  <2>9. Promise!Deliver
    BY <1>1, <2>2, <2>8 DEF Promise!Deliver
  <2> QED BY <2>9 DEF Promise!Next
<1> QED BY <1>1, <1>2, <1>3, <1>4

LEMMA ReadNothingDelivers ==
  ASSUME IOInv, ReadNothing
  PROVE  Promise!Next
<1>1. /\ rseg \in Nat \ {0} /\ rseg <= Len(Sizes) /\ reader = "open"
      /\ rleft = 0 /\ Len(rbuf) \in Nat /\ Len(Sizes) \in Nat
      /\ rleft + Len(rbuf) = Size(rseg) /\ (rleft = 0 => rbuf = << >>)
      /\ received \in Seq(Seq(Byte)) /\ Len(received) = rseg - 1
      /\ received' = Append(received, << >>)
      /\ UNCHANGED <<wseg, writer, reader, broken>>
  BY SizesAssumption, LenProperties
     DEF IOInv, IOTypeOK, Counted, ReadNothing, Reading, ReadReturns, writeVars
<1>2. Size(rseg) = 0
  BY <1>1, EmptySeq
<1>3. Len(received') = Len(received) + 1
  BY <1>1
<1>4. rseg \in {m \in 1 .. Len(Sizes) : Size(m) = 0} /\ Len(received) + 1 = rseg
  BY <1>1, <1>2
<1>5. Promise!Deliver
  BY <1>1, <1>3, <1>4 DEF Promise!Deliver
<1> QED BY <1>5 DEF Promise!Next

\* The end of the stream lies behind everything that was written: with nothing
\* left in the kernel the reader is where the writer is.
LEMMA ReadEndsIsEndOfStream ==
  ASSUME IOInv, ReadEnds
  PROVE  Promise!Next
<1>1. /\ rleft > 0 /\ writer = "closed" /\ pipe = << >> /\ ~broken
      /\ reader = "open" /\ reader' = "eof"
      /\ UNCHANGED <<received, wseg, writer, broken>>
  BY DEF ReadEnds, Reading, writeVars
<1>2. /\ rseg \in Nat \ {0} /\ wseg \in Nat \ {0} /\ rleft \in Nat
      /\ Len(rbuf) \in Nat /\ rleft + Len(rbuf) = Size(rseg)
      /\ Len(received) = rseg - 1
  BY LenProperties DEF IOInv, IOTypeOK, Counted
<1>3. Len(rbuf) # Size(rseg)
  BY <1>1, <1>2
<1>4. Near(rseg, Len(rbuf), wseg, wbuf)
  BY <1>1 DEF IOInv, WriterLast
<1>5. rseg = wseg \/ wseg < rseg
  BY <1>3, <1>4 DEF Near, Joined
<1>6. Len(received) >= wseg - 1
  BY <1>2, <1>5
<1>7. Promise!EndOfStream
  BY <1>1, <1>6 DEF Promise!EndOfStream
<1> QED BY <1>7 DEF Promise!Next

LEMMA NextPromise == IOInv /\ [Next]_vars => [Promise!Next]_Promise!vars
<1> SUFFICES ASSUME IOInv, [Next]_vars
             PROVE  Promise!Next \/ UNCHANGED Promise!vars
  OBVIOUS
<1>1. 1 .. Window \subseteq Nat
  BY WindowAssumption
<1>2. CASE \E n \in 1 .. Window : WritePart(n)
  BY <1>1, <1>2, WritePartSends
<1>3. CASE \E n \in 1 .. Window : ReadPart(n)
  BY <1>1, <1>3, ReadPartDelivers
<1>4. CASE WriteNothing
  BY <1>4, WriteNothingSends
<1>5. CASE ReadNothing
  BY <1>5, ReadNothingDelivers
<1>6. CASE ReadEnds
  BY <1>6, ReadEndsIsEndOfStream
<1>7. CASE WriteFails
  BY <1>7 DEF WriteFails, Writing, readVars, Promise!Next, Promise!SendFails
<1>8. CASE ReadFails
  BY <1>8 DEF ReadFails, Reading, writeVars, Promise!Next,
              Promise!DeliveryFails
<1>9. CASE Close
  BY <1>9 DEF Close, readVars, Promise!Next, Promise!Close
<1>10. CASE Break
  BY <1>10 DEF Break, writeVars, readVars, Promise!Next, Promise!Break
<1>11. CASE WriteInterrupted \/ ReadInterrupted \/ UNCHANGED vars
  BY <1>11 DEF WriteInterrupted, ReadInterrupted, vars, writeVars, readVars,
               Promise!vars
<1> QED
  BY <1>2, <1>3, <1>4, <1>5, <1>6, <1>7, <1>8, <1>9, <1>10, <1>11 DEF Next

\* What the callers of utils.c rely on: segments are transferred as wholes, in
\* turn; a segment is delivered only when it has been written; a call fails
\* only when the connection has, and the end of the stream is met only behind
\* all that was written.
THEOREM CallsTransferSegments == Spec => ImplementsSegments
<1>1. Init => Promise!Init
  BY InitPromise
<1>2. IOInv /\ [Next]_vars => [Promise!Next]_Promise!vars
  BY NextPromise
<1> QED BY <1>1, <1>2, IOInvHolds, PTL DEF Spec, ImplementsSegments, Promise!Spec
=============================================================================
