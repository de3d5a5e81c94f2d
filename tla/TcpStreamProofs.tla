---------------------------- MODULE TcpStreamProofs ----------------------------
(****************************************************************************)
(* Theorems about TcpStream, for any segment size, buffers, amount of data  *)
(* and number of losses, duplicates and early timeouts.  Until the peer     *)
(* closes its own direction the unsent and the unacked queue hold what is   *)
(* not acknowledged, once and in order; nothing but a window probe is sent  *)
(* past the window; and the connection implements ByteStream.  When the     *)
(* peer closes behind the server, it does so to its end, and one that ends  *)
(* with its queues empty was read to the end.                               *)
(*                                                                          *)
(* When the peer has closed, acknowledgements of two sequence numbers are   *)
(* on the way, and snd_wl1 lets an older one take the window back.  If the  *)
(* server still writes, the queues get out of order; so the theorems end    *)
(* there when the peer is the first to close.  First come lemmas about      *)
(* lines of segments, then one for each function of the code, then one for  *)
(* each action; and at the end those behind the peer's close.               *)
(****************************************************************************)
EXTENDS TcpStream, FiniteSetTheorems, SequenceTheorems, TLAPS

(* A set of numbers has a least one.                                        *)
LEMMA LeastNat ==
  ASSUME NEW T, T \subseteq Nat, T # {}
  PROVE  \E x \in T : \A y \in T : x <= y
  <1> DEFINE R == OpToRel(<, Nat)
  <1>1. \E x \in T : \A y \in T : ~ (<<y, x>> \in R)
    BY NatLessThanWellFounded, WFMin
  <1>2. \A x, y \in Nat : x < y => <<x, y>> \in R
    BY DEF OpToRel
  <1> HIDE DEF R
  <1>3. PICK x \in T : \A y \in T : ~ (<<y, x>> \in R)
    BY <1>1
  <1>4. ASSUME NEW y \in T PROVE x <= y
    <2>1. x \in Nat /\ y \in Nat /\ ~ (<<y, x>> \in R)
      BY <1>3
    <2> QED
      BY <2>1, <1>2
  <1> QED
    BY <1>4

(* What holds of 0, and of n + 1 when it holds of n, holds up to N.         *)
LEMMA Upward ==
  ASSUME NEW N \in Nat, NEW S, 0 \in S,
         \A n \in 0 .. (N - 1) : n \in S => n + 1 \in S
  PROVE  \A n \in 0 .. N : n \in S
  <1> DEFINE T == {n \in 0 .. N : n \notin S}
  <1> SUFFICES ASSUME T # {} PROVE FALSE
    OBVIOUS
  <1>1. PICK x \in T : \A y \in T : x <= y
    <2>1. T \subseteq Nat
      OBVIOUS
    <2> HIDE DEF T
    <2> QED
      BY <2>1, LeastNat
  <1>2. x # 0 /\ x \in 0 .. N
    BY <1>1
  <1>3. x - 1 \in 0 .. (N - 1) /\ x - 1 \notin T
    BY <1>1, <1>2
  <1> QED
    BY <1>1, <1>2, <1>3

\* Min of two numbers.
LEMMA MinOfTwo ==
  ASSUME NEW a \in Int, NEW b \in Int
  PROVE  Min({a, b}) = IF a <= b THEN a ELSE b
  <1>1. \E x \in {a, b} : \A y \in {a, b} : x <= y
    OBVIOUS
  <1>2. Min({a, b}) \in {a, b} /\ \A y \in {a, b} : Min({a, b}) <= y
    BY <1>1 DEF Min
  <1> QED
    BY <1>2

\* Max of two numbers.
LEMMA MaxOfTwo ==
  ASSUME NEW a \in Int, NEW b \in Int
  PROVE  Max({a, b}) = IF a <= b THEN b ELSE a
  <1>1. \E x \in {a, b} : \A y \in {a, b} : x >= y
    OBVIOUS
  <1>2. Max({a, b}) \in {a, b} /\ \A y \in {a, b} : Max({a, b}) >= y
    BY <1>1 DEF Max
  <1> QED
    BY <1>2

(* A set of numbers from 1 to n without gaps is the numbers up to its size. *)
LEMMA WithoutGaps ==
  ASSUME NEW n \in Nat, NEW D, D \subseteq 1 .. n,
         \A i \in D : \A j \in 1 .. n : j <= i => j \in D
  PROVE  Cardinality(D) \in 0 .. n /\ D = 1 .. Cardinality(D)
  <1> DEFINE T == {x \in 1 .. (n + 1) : x \notin D}
  <1>1. T \subseteq Nat /\ n + 1 \in T
    OBVIOUS
  <1> HIDE DEF T
  <1>2. PICK x \in T : \A y \in T : x <= y
    BY <1>1, LeastNat
  <1>3. x \in 1 .. (n + 1) /\ x \notin D
    BY <1>2 DEF T
  <1>4. D = 1 .. (x - 1)
    <2>1. ASSUME NEW j \in 1 .. (x - 1) PROVE j \in D
      BY <1>2, <1>3 DEF T
    <2>2. ASSUME NEW j \in D PROVE j \in 1 .. (x - 1)
      <3>1. j \in 1 .. n
        OBVIOUS
      <3>2. CASE x <= j
        BY <1>3, <3>1, <3>2
      <3> QED
        BY <1>3, <3>1, <3>2
    <2> QED
      BY <2>1, <2>2
  <1>5. Cardinality(1 .. (x - 1)) = x - 1
    <2>1. x - 1 \in Nat /\ 1 \in Int /\ x - 1 \in Int
      BY <1>3
    <2>2. Cardinality(1 .. (x - 1)) = IF 1 > x - 1 THEN 0 ELSE (x - 1) - 1 + 1
      BY <2>1, FS_Interval
    <2> QED
      BY <2>1, <2>2
  <1> QED
    BY <1>3, <1>4, <1>5

(* How many segments of at most M units d units take.                       *)
LEMMA Pieces ==
  ASSUME NEW d \in Nat \ {0}, NEW M \in Nat \ {0}
  PROVE  LET N == (d + M - 1) \div M IN
         N \in Nat \ {0} /\ (N - 1) * M < d /\ d <= N * M
  OBVIOUS

\* Multiples of the segment size rise with the factor.
LEMMA Multiples ==
  ASSUME NEW M \in Nat, NEW j \in Nat, NEW k \in Nat, j <= k
  PROVE  j * M <= k * M /\ k * M \in Nat /\ (k + 1) * M = k * M + M
  OBVIOUS

-----------------------------------------------------------------------------
(* Segments, and lines of them. *)

\* Unit k of a stream of w units.
Unit(k, w) == IF k < w THEN k + 1 ELSE Fin
Total(w, f) == w + (IF f THEN 1 ELSE 0)

\* The segments that tcp_write and tcp_close make of w units, and of the FIN.
Bare == [seq : Nat, data : Seq(Nat)]
Packets(w, f) ==
    {s \in Bare :
        /\ s.data # <<>> /\ DataLen(s) <= Mss
        /\ s.seq + Len(s.data) <= Total(w, f)
        /\ \A i \in 1 .. Len(s.data) : s.data[i] = Unit(s.seq + i - 1, w)}

\* Where a packet of the stream begins and ends, and whether it has the FIN.
LEMMA PacketFacts ==
  ASSUME NEW w \in Nat, NEW f \in BOOLEAN, NEW s \in Packets(w, f)
  PROVE  /\ s \in Bare /\ s.seq \in Nat /\ End(s) \in Nat /\ Len(s.data) \in Nat \ {0}
         /\ s.seq < End(s) /\ End(s) <= Total(w, f) /\ End(s) = s.seq + Len(s.data)
         /\ HasFin(s) <=> End(s) = w + 1
         /\ DataLen(s) \in Nat /\ s.seq + DataLen(s) = IF End(s) <= w THEN End(s) ELSE w
         /\ DataLen(s) <= Len(s.data) /\ Len(s.data) <= DataLen(s) + 1 /\ DataLen(s) <= Mss
  <1>1. /\ s \in Bare /\ s.data # <<>> /\ s.data \in Seq(Nat) /\ s.seq \in Nat
        /\ s.seq + Len(s.data) <= Total(w, f) /\ DataLen(s) <= Mss
        /\ \A i \in 1 .. Len(s.data) : s.data[i] = Unit(s.seq + i - 1, w)
    BY DEF Packets, Bare
  <1>2. Len(s.data) \in Nat \ {0} /\ Len(s.data) \in 1 .. Len(s.data)
    BY <1>1
  <1>3. End(s) = s.seq + Len(s.data)
    BY DEF End
  <1>4. s.data[Len(s.data)] = Unit(End(s) - 1, w) /\ End(s) <= w + 1
    <2>1. s.data[Len(s.data)] = Unit(s.seq + Len(s.data) - 1, w)
      BY <1>1, <1>2
    <2>2. Total(w, f) <= w + 1 /\ Total(w, f) \in Nat
      BY DEF Total
    <2> QED
      BY <1>1, <1>2, <1>3, <2>1, <2>2
  <1>5. HasFin(s) <=> End(s) = w + 1
    <2>1. End(s) - 1 \in Nat /\ End(s) \in Nat
      BY <1>1, <1>2, <1>3
    <2>2. HasFin(s) <=> s.data[Len(s.data)] = 0
      BY <1>1 DEF HasFin, Fin
    <2>3. Unit(End(s) - 1, w) = IF End(s) - 1 < w THEN (End(s) - 1) + 1 ELSE 0
      BY DEF Unit, Fin
    <2> QED
      BY <1>4, <2>1, <2>2, <2>3
  <1>6. DataLen(s) = IF End(s) = w + 1 THEN Len(s.data) - 1 ELSE Len(s.data)
    BY <1>5 DEF DataLen
  <1> DEFINE a == s.seq
             l == Len(s.data)
             z == End(s)
             d == DataLen(s)
  <1>7. a \in Nat /\ l \in Nat \ {0} /\ z = a + l /\ z <= w + 1 /\ d = IF z = w + 1 THEN l - 1 ELSE l
    BY <1>1, <1>2, <1>3, <1>4, <1>6
  <1>8. /\ z \in Nat /\ a < z /\ d \in Nat /\ a + d = (IF z <= w THEN z ELSE w)
        /\ d <= l /\ l <= d + 1
    <2> HIDE DEF a, l, z, d
    <2> QED
      BY <1>7
  <1> QED
    BY <1>1, <1>3, <1>5, <1>7, <1>8

(* A segment stays one when more is written, or the stream is closed.       *)
LEMMA PacketsGrow ==
  ASSUME NEW w \in Nat, NEW f \in BOOLEAN, NEW w2 \in Nat, NEW f2 \in BOOLEAN,
         w <= w2, f => f2 /\ w2 = w
  PROVE  Packets(w, f) \subseteq Packets(w2, f2)
  <1> SUFFICES ASSUME NEW s \in Packets(w, f) PROVE s \in Packets(w2, f2)
    OBVIOUS
  <1>1. /\ s \in Bare /\ s.data # <<>> /\ s.data \in Seq(Nat) /\ s.seq \in Nat
        /\ s.seq + Len(s.data) <= Total(w, f) /\ DataLen(s) <= Mss
        /\ \A i \in 1 .. Len(s.data) : s.data[i] = Unit(s.seq + i - 1, w)
    BY DEF Packets, Bare
  <1>2. Total(w, f) <= Total(w2, f2)
    BY DEF Total
  <1>3. ASSUME NEW i \in 1 .. Len(s.data) PROVE s.data[i] = Unit(s.seq + i - 1, w2)
    <2>1. Len(s.data) \in Nat /\ s.seq + i - 1 < Total(w, f)
      BY <1>1 DEF Total
    <2>2. Unit(s.seq + i - 1, w) = Unit(s.seq + i - 1, w2)
      BY <1>1, <2>1 DEF Unit, Total
    <2> QED
      BY <1>1, <2>2
  <1>4. s.seq + Len(s.data) <= Total(w2, f2)
    BY <1>1, <1>2 DEF Total
  <1> QED
    BY <1>1, <1>3, <1>4 DEF Packets

\* A sequence over a set is one over a larger set.
LEMMA SeqsGrow ==
  ASSUME NEW S, NEW T, S \subseteq T, NEW q \in Seq(S)
  PROVE  q \in Seq(T)
  OBVIOUS

(* A line: segments that follow each other without gaps, from a to b.       *)
Line(q, a, b) ==
    IF q = <<>> THEN a = b
    ELSE /\ q[1].seq = a /\ End(q[Len(q)]) = b
         /\ \A i \in 1 .. Len(q) - 1 : End(q[i]) = q[i+1].seq

\* Where the first k segments of a line from a end.
Cut(q, k, a) == IF k = 0 THEN a ELSE End(q[k])

Shaped(q) == \A i \in 1 .. Len(q) : q[i].seq \in Nat /\ End(q[i]) \in Nat /\ q[i].seq < End(q[i])

\* Packets have a length that is not zero.
LEMMA PacketsShaped ==
  ASSUME NEW w \in Nat, NEW f \in BOOLEAN, NEW q \in Seq(Packets(w, f))
  PROVE  Shaped(q)
  BY PacketFacts DEF Shaped

\* The segments of a line are in order and inside it.
LEMMA LineRises ==
  ASSUME NEW S, NEW q \in Seq(S), Shaped(q), NEW a \in Nat, NEW b \in Nat, Line(q, a, b)
  PROVE  /\ a <= b /\ (q # <<>> => a < b)
         /\ \A i \in 1 .. Len(q) : a <= q[i].seq /\ End(q[i]) <= b
         /\ \A i, j \in 1 .. Len(q) : i < j => End(q[i]) <= q[j].seq
  <1> DEFINE N == Len(q)
  <1>1. N \in Nat
    OBVIOUS
  <1>2. CASE q = <<>>
    BY <1>2 DEF Line
  <1>3. CASE q # <<>>
    <2>1. N \in Nat \ {0} /\ q[1].seq = a /\ End(q[N]) = b
          /\ \A i \in 1 .. N - 1 : End(q[i]) = q[i+1].seq
      BY <1>3 DEF Line
    <2>2. \A i \in 1 .. N : q[i].seq \in Nat /\ End(q[i]) \in Nat /\ q[i].seq < End(q[i])
      BY DEF Shaped
    <2> HIDE DEF N
    <2>3. ASSUME NEW i \in 1 .. N PROVE \A d \in 0 .. (N - i) : d > 0 => End(q[i]) <= q[i + d].seq
      <3> DEFINE S2 == {d \in 0 .. (N - i) : d > 0 => End(q[i]) <= q[i + d].seq}
      <3>1. N - i \in Nat /\ 0 \in S2
        BY <2>1
      <3>2. ASSUME NEW d \in 0 .. (N - i - 1), d \in S2 PROVE d + 1 \in S2
        <4>1. i + d \in 1 .. N - 1 /\ i + d \in 1 .. N /\ i + d + 1 \in 1 .. N /\ i + (d + 1) = i + d + 1
          BY <2>1
        <4>2. End(q[i + d]) = q[i + d + 1].seq
          BY <2>1, <4>1
        <4>3. CASE d = 0
          BY <2>1, <2>2, <4>1, <4>2, <4>3
        <4>4. CASE d > 0
          <5>1. End(q[i]) <= q[i + d].seq /\ q[i + d].seq < End(q[i + d])
            BY <2>2, <3>2, <4>1, <4>4
          <5> QED
            <6>1. /\ End(q[i]) \in Nat /\ q[i + d].seq \in Nat /\ End(q[i + d]) \in Nat
                  /\ q[i + (d + 1)].seq = End(q[i + d])
              BY <2>2, <4>1, <4>2
            <6>2. End(q[i]) <= q[i + (d + 1)].seq
              BY <5>1, <6>1
            <6>3. d + 1 \in 0 .. (N - i)
              BY <2>1
            <6> QED
              BY <6>2, <6>3
        <4> QED
          BY <4>3, <4>4
      <3> HIDE DEF S2
      <3>3. \A d \in 0 .. (N - i) : d \in S2
        <4>1. \A d \in 0 .. ((N - i) - 1) : d \in S2 => d + 1 \in S2
          BY <3>1, <3>2
        <4> QED
          BY <3>1, <4>1, Upward
      <3> QED
        BY <3>3 DEF S2
    <2>4. ASSUME NEW i \in 1 .. N, NEW j \in 1 .. N, i < j PROVE End(q[i]) <= q[j].seq
      <3>1. j - i \in 0 .. (N - i) /\ j - i > 0 /\ i + (j - i) = j
        BY <2>1, <2>4
      <3> QED
        BY <2>3, <3>1
    <2>5. ASSUME NEW i \in 1 .. N PROVE a <= q[i].seq /\ End(q[i]) <= b
      <3>1. 1 \in 1 .. N /\ N \in 1 .. N
        BY <2>1
      <3>2. CASE i = 1 /\ i = N
        BY <2>1, <2>2, <3>2
      <3>3. CASE i = 1 /\ i < N
        <4>1. End(q[1]) <= q[N].seq
          BY <2>4, <3>1, <3>3
        <4> QED
          BY <2>1, <2>2, <3>1, <3>3, <4>1
      <3>4. CASE i > 1 /\ i = N
        BY <2>1, <2>2, <2>4, <3>1, <3>4
      <3>5. CASE i > 1 /\ i < N
        <4>1. End(q[1]) <= q[i].seq /\ End(q[i]) <= q[N].seq
          BY <2>4, <3>1, <3>5
        <4> DEFINE c == q[i].seq
                   d == End(q[i])
                   x == End(q[1])
                   y == q[N].seq
        <4>2. c \in Nat /\ d \in Nat /\ x \in Nat /\ y \in Nat /\ a < x /\ x <= c /\ d <= y /\ y < b
          BY <2>1, <2>2, <3>1, <4>1
        <4>3. a <= c /\ d <= b
          <5> HIDE DEF c, d, x, y
          <5> QED
            BY <4>2
        <4> QED
          BY <4>3
      <3> QED
        BY <2>1, <3>2, <3>3, <3>4, <3>5
    <2>6. a < b
      <3>1. 1 \in 1 .. N /\ q[1].seq < End(q[1]) /\ End(q[1]) <= b
        BY <2>1, <2>2, <2>5
      <3> QED
        BY <2>1, <2>2, <3>1
    <2> QED
      BY <2>4, <2>5, <2>6 DEF N
  <1> QED
    BY <1>2, <1>3

\* Two lines, one behind the other, are a line.
LEMMA LineJoin ==
  ASSUME NEW S, NEW q \in Seq(S), NEW r \in Seq(S), NEW a, NEW b, NEW c,
         Line(q, a, b), Line(r, b, c)
  PROVE  Line(q \o r, a, c)
  <1>1. CASE q = <<>>
    <2>1. q \o r = r
      BY <1>1
    <2> QED
      BY <1>1, <2>1 DEF Line
  <1>2. CASE r = <<>>
    <2>1. q \o r = q
      BY <1>2
    <2> QED
      BY <1>2, <2>1 DEF Line
  <1>3. CASE q # <<>> /\ r # <<>>
    <2> DEFINE x == q \o r
    <2>1. /\ Len(x) = Len(q) + Len(r) /\ Len(q) \in Nat \ {0} /\ Len(r) \in Nat \ {0}
          /\ \A i \in 1 .. Len(x) : x[i] = IF i <= Len(q) THEN q[i] ELSE r[i - Len(q)]
      BY <1>3, ConcatProperties
    <2>2. x # <<>>
      BY <2>1
    <2>3. q[1].seq = a /\ End(q[Len(q)]) = b /\ \A i \in 1 .. Len(q) - 1 : End(q[i]) = q[i+1].seq
      BY <1>3 DEF Line
    <2>4. r[1].seq = b /\ End(r[Len(r)]) = c /\ \A i \in 1 .. Len(r) - 1 : End(r[i]) = r[i+1].seq
      BY <1>3 DEF Line
    <2> HIDE DEF x
    <2>5. x[1].seq = a /\ End(x[Len(x)]) = c
      <3>1. x[1] = q[1]
        BY <2>1
      <3>2. x[Len(x)] = r[Len(r)]
        <4>1. Len(x) - Len(q) = Len(r) /\ ~(Len(x) <= Len(q)) /\ Len(x) \in 1 .. Len(x)
          BY <2>1
        <4> QED
          BY <2>1, <4>1
      <3> QED
        BY <2>3, <2>4, <3>1, <3>2
    <2>6. ASSUME NEW i \in 1 .. Len(x) - 1 PROVE End(x[i]) = x[i+1].seq
      <3>1. CASE i < Len(q)
        <4>1. x[i] = q[i] /\ x[i+1] = q[i+1] /\ i \in 1 .. Len(q) - 1
          BY <2>1, <3>1
        <4> QED
          BY <2>3, <4>1
      <3>2. CASE i = Len(q)
        <4>1. x[i] = q[Len(q)] /\ x[i+1] = r[1]
          BY <2>1, <3>2
        <4> QED
          BY <2>3, <2>4, <4>1
      <3>3. CASE i > Len(q)
        <4>1. i - Len(q) \in 1 .. Len(r) - 1 /\ (i + 1) - Len(q) = (i - Len(q)) + 1
          BY <2>1, <3>3
        <4>2. x[i] = r[i - Len(q)] /\ x[i+1] = r[(i - Len(q)) + 1]
          BY <2>1, <3>3, <4>1
        <4> QED
          BY <2>4, <4>1, <4>2
      <3> QED
        BY <2>1, <3>1, <3>2, <3>3
    <2> QED
      BY <2>2, <2>5, <2>6 DEF Line, x
  <1> QED
    BY <1>1, <1>2, <1>3

\* A line cut behind its k-th segment is two lines.
LEMMA LineCut ==
  ASSUME NEW S, NEW q \in Seq(S), NEW a, NEW c, Line(q, a, c), NEW k \in 0 .. Len(q)
  PROVE  /\ SubSeq(q, 1, k) \in Seq(S) /\ Len(SubSeq(q, 1, k)) = k
         /\ \A i \in 1 .. k : SubSeq(q, 1, k)[i] = q[i]
         /\ SubSeq(q, k + 1, Len(q)) \in Seq(S) /\ Len(SubSeq(q, k + 1, Len(q))) = Len(q) - k
         /\ \A i \in 1 .. Len(q) - k : SubSeq(q, k + 1, Len(q))[i] = q[k + i]
         /\ Line(SubSeq(q, 1, k), a, Cut(q, k, a))
         /\ Line(SubSeq(q, k + 1, Len(q)), Cut(q, k, a), c)
  <1> DEFINE x == SubSeq(q, 1, k)
             y == SubSeq(q, k + 1, Len(q))
  <1>1. Len(q) \in Nat /\ k \in Nat /\ k <= Len(q)
    OBVIOUS
  <1>2. x \in Seq(S) /\ Len(x) = k /\ \A i \in 1 .. k : x[i] = q[i]
    <2>1. \A i \in 1 .. k : q[i] \in S
      BY <1>1
    <2> QED
      BY <1>1, <2>1, SubSeqProperties
  <1>3. y \in Seq(S) /\ Len(y) = Len(q) - k /\ \A i \in 1 .. Len(q) - k : y[i] = q[k + i]
    <2>1. \A i \in (k+1) .. Len(q) : q[i] \in S
      BY <1>1
    <2>2. /\ y \in Seq(S) /\ Len(y) = IF k + 1 <= Len(q) THEN Len(q) - (k + 1) + 1 ELSE 0
          /\ \A i \in 1 .. Len(q) - (k + 1) + 1 : y[i] = q[(k + 1) + i - 1]
      BY <1>1, <2>1, SubSeqProperties
    <2> HIDE DEF y
    <2>3. ASSUME NEW i \in 1 .. Len(q) - k PROVE y[i] = q[k + i]
      <3>1. i \in 1 .. Len(q) - (k + 1) + 1 /\ (k + 1) + i - 1 = k + i
        BY <1>1
      <3>2. y[i] = q[(k + 1) + i - 1]
        BY <2>2, <3>1
      <3> QED
        BY <3>1, <3>2
    <2>4. Len(y) = Len(q) - k
      BY <1>1, <2>2
    <2> QED
      BY <2>2, <2>3, <2>4
  <1> HIDE DEF x, y
  <1>4. Line(x, a, Cut(q, k, a))
    <2>1. CASE k = 0
      BY <1>2, <2>1 DEF Line, Cut
    <2>2. CASE k > 0
      <3>1. q # <<>> /\ x # <<>>
        BY <1>1, <1>2, <2>2
      <3>2. q[1].seq = a /\ \A i \in 1 .. Len(q) - 1 : End(q[i]) = q[i+1].seq
        BY <3>1 DEF Line
      <3>3. x[1] = q[1] /\ x[k] = q[k]
        BY <1>1, <1>2, <2>2
      <3>4. ASSUME NEW i \in 1 .. k - 1 PROVE End(x[i]) = x[i+1].seq
        <4>1. x[i] = q[i] /\ x[i+1] = q[i+1] /\ i \in 1 .. Len(q) - 1
          BY <1>1, <1>2
        <4> QED
          BY <3>2, <4>1
      <3> QED
        BY <1>1, <1>2, <2>2, <3>1, <3>2, <3>3, <3>4 DEF Line, Cut
    <2> QED
      BY <1>1, <2>1, <2>2
  <1>5. Line(y, Cut(q, k, a), c)
    <2>1. CASE k = Len(q)
      <3>1. y = <<>>
        BY <1>1, <1>3, <2>1
      <3>2. CASE q = <<>>
        BY <2>1, <3>1, <3>2 DEF Line, Cut
      <3>3. CASE q # <<>>
        <4>1. Len(q) # 0
          BY <3>3
        <4> QED
          BY <2>1, <3>1, <3>3, <4>1 DEF Line, Cut
      <3> QED
        BY <3>2, <3>3
    <2>2. CASE k < Len(q)
      <3>1. q # <<>> /\ y # <<>>
        BY <1>1, <1>3, <2>2
      <3>2. q[1].seq = a /\ End(q[Len(q)]) = c /\ \A i \in 1 .. Len(q) - 1 : End(q[i]) = q[i+1].seq
        BY <3>1 DEF Line
      <3>3. y[1] = q[k+1] /\ y[Len(y)] = q[Len(q)]
        <4>1. 1 \in 1 .. Len(q) - k /\ Len(y) \in 1 .. Len(q) - k /\ k + Len(y) = Len(q)
          BY <1>1, <1>3, <2>2
        <4> QED
          BY <1>3, <4>1
      <3>4. y[1].seq = Cut(q, k, a)
        <4>1. CASE k = 0
          BY <3>2, <3>3, <4>1 DEF Cut
        <4>2. CASE k > 0
          <5>1. k \in 1 .. Len(q) - 1
            BY <1>1, <2>2, <4>2
          <5> QED
            BY <3>2, <3>3, <4>2, <5>1 DEF Cut
        <4> QED
          BY <1>1, <4>1, <4>2
      <3>5. ASSUME NEW i \in 1 .. Len(y) - 1 PROVE End(y[i]) = y[i+1].seq
        <4>1. /\ i \in 1 .. Len(q) - k /\ i + 1 \in 1 .. Len(q) - k /\ k + i \in 1 .. Len(q) - 1
              /\ k + (i + 1) = (k + i) + 1
          BY <1>1, <1>3
        <4> QED
          BY <1>3, <3>2, <4>1
      <3> QED
        BY <3>1, <3>2, <3>3, <3>4, <3>5 DEF Line
    <2> QED
      BY <1>1, <2>1, <2>2
  <1> QED
    BY <1>2, <1>3, <1>4, <1>5 DEF x, y

(* The segments at the head of a queue that an acknowledgement covers.      *)
LEMMA UnackedIsCut ==
  ASSUME NEW S, NEW q \in Seq(S), Shaped(q), NEW ack \in Nat
  PROVE  \E k \in 0 .. Len(q) :
            /\ Unacked(q, ack) = SubSeq(q, k + 1, Len(q))
            /\ \A i \in 1 .. k : End(q[i]) <= ack
            /\ k < Len(q) => End(q[k + 1]) > ack
  <1> DEFINE D == {n \in DOMAIN q : \A i \in 1 .. n : End(q[i]) <= ack}
             k == Cardinality(D)
  <1>1. Len(q) \in Nat /\ DOMAIN q = 1 .. Len(q)
    OBVIOUS
  <1>2. D \subseteq 1 .. Len(q) /\ \A i \in D : \A j \in 1 .. Len(q) : j <= i => j \in D
    <2>1. ASSUME NEW i \in D, NEW j \in 1 .. Len(q), j <= i PROVE j \in D
      <3>1. \A x \in 1 .. j : x \in 1 .. i
        BY <1>1, <2>1
      <3> QED
        BY <1>1, <2>1, <3>1
    <2> QED
      BY <1>1, <2>1
  <1> HIDE DEF D
  <1>3. k \in 0 .. Len(q) /\ D = 1 .. k
    BY <1>1, <1>2, WithoutGaps
  <1>4. Unacked(q, ack) = SubSeq(q, 1 + k, Len(q)) /\ 1 + k = k + 1
    BY <1>3 DEF Unacked, D
  <1> HIDE DEF k
  <1>5. ASSUME NEW i \in 1 .. k PROVE End(q[i]) <= ack
    BY <1>1, <1>3 DEF D
  <1>6. ASSUME k < Len(q) PROVE End(q[k + 1]) > ack
    <2>1. k + 1 \in 1 .. Len(q) /\ k + 1 \notin D
      BY <1>1, <1>3, <1>6
    <2>2. PICK i \in 1 .. (k + 1) : ~ (End(q[i]) <= ack)
      BY <1>1, <2>1 DEF D
    <2>3. i = k + 1
      BY <1>3, <1>5, <2>2
    <2>4. End(q[k + 1]) \in Nat
      BY <2>1 DEF Shaped
    <2> QED
      BY <2>2, <2>3, <2>4
  <1> QED
    BY <1>3, <1>4, <1>5, <1>6

-----------------------------------------------------------------------------
(* tcp_output. *)

Pcbs == [state : States, lbb : Nat, nxt : Nat, lastack : Nat,
         unsent : Seq(Bare), unacked : Seq(Bare), wnd : Nat, wl1 : Nat, wl2 : Nat,
         persist : BOOLEAN, nrtx : Nat, inFr : BOOLEAN, fin : BOOLEAN,
         rcv : Nat, ackNow : BOOLEAN]

\* What waits to be sent, with a acknowledged; what was sent up to n in a window of x.
Waiting(w, f, a) == {s \in Packets(w, f) : End(s) > a}
Flying(w, f, a, x, n) ==
    {s \in Waiting(w, f, a) : End(s) <= n /\ s.seq + DataLen(s) <= a + x}

(* The two queues of a pcb, with w units written: one line to the end of    *)
(* the stream that begins no later than what is not acknowledged.           *)
Kept(p, w) ==
    /\ p.unacked \in Seq(Flying(w, p.fin, p.lastack, p.wnd, p.nxt))
    /\ p.unsent \in Seq(Waiting(w, p.fin, p.lastack))
    /\ p.lastack <= p.nxt /\ p.nxt <= Total(w, p.fin)
    /\ \E a, m \in Nat : /\ a <= p.lastack
                         /\ Line(p.unacked, a, m) /\ Line(p.unsent, m, Total(w, p.fin))

(* How far units have gone: no farther than snd_nxt, but for the one of a   *)
(* window probe when nothing else is on the way.                            *)
Reaches(x, p) ==
    \/ x <= p.nxt
    \/ p.unacked = <<>> /\ p.unsent # <<>> /\ x <= p.unsent[1].seq + 1

WaitingFacts ==
  \A w \in Nat, f \in BOOLEAN, a \in Nat, x \in Nat, n \in Nat :
     /\ Flying(w, f, a, x, n) \subseteq Waiting(w, f, a)
     /\ Waiting(w, f, a) \subseteq Packets(w, f)
     /\ Waiting(w, f, a) \subseteq Bare

\* What waits is a packet, whether it was sent or not.
LEMMA WaitingArePackets == WaitingFacts
  BY DEF WaitingFacts, Waiting, Flying, Packets

\* A wider window and a later snd_nxt hold what a narrower one held.
LEMMA FlyingGrow ==
  ASSUME NEW w \in Nat, NEW f \in BOOLEAN, NEW a \in Nat, NEW x \in Nat, NEW n \in Nat,
         NEW x2 \in Nat, NEW n2 \in Nat, x <= x2, n <= n2
  PROVE  Flying(w, f, a, x, n) \subseteq Flying(w, f, a, x2, n2)
  <1> SUFFICES ASSUME NEW s \in Flying(w, f, a, x, n) PROVE s \in Flying(w, f, a, x2, n2)
    OBVIOUS
  <1>1. s \in Waiting(w, f, a) /\ s \in Packets(w, f) /\ End(s) <= n /\ s.seq + DataLen(s) <= a + x
    BY DEF Flying, Waiting
  <1>2. s.seq \in Nat /\ DataLen(s) \in Nat /\ End(s) \in Nat
    BY <1>1, PacketFacts
  <1> QED
    BY <1>1, <1>2 DEF Flying

\* A segment that follows the unacked queue goes behind it.
LEMMA InsertLast ==
  ASSUME NEW S, NEW q \in Seq(S), Shaped(q), NEW a \in Nat, NEW m \in Nat, Line(q, a, m),
         NEW s \in S, s.seq = m, End(s) \in Nat
  PROVE  /\ Insert(q, s) \in Seq(S) /\ Line(Insert(q, s), a, End(s)) /\ Insert(q, s) # <<>>
         /\ Insert(q, s) = Append(q, s)
  <1>1. Insert(q, s) = Append(q, s)
    <2>1. CASE q # <<>>
      <3>1. Len(q) \in 1 .. Len(q) /\ End(q[Len(q)]) = m
        BY <2>1 DEF Line
      <3>2. q[Len(q)].seq < m /\ q[Len(q)].seq \in Nat
        BY <3>1 DEF Shaped
      <3>3. ~(s.seq < q[Len(q)].seq)
        BY <3>2
      <3> QED
        BY <3>3 DEF Insert
    <2> QED
      BY <2>1 DEF Insert
  <1>2. Append(q, s) = q \o <<s>> /\ <<s>> \in Seq(S)
    OBVIOUS
  <1>3. Line(<<s>>, m, End(s))
    BY DEF Line
  <1>4. Line(q \o <<s>>, a, End(s))
    BY <1>2, <1>3, LineJoin
  <1> QED
    BY <1>1, <1>2, <1>4

(* One that comes just before the unacked queue, as after tcp_rexmit, goes  *)
(* to its head.                                                             *)
LEMMA InsertFirst ==
  ASSUME NEW S, NEW q \in Seq(S), Shaped(q), NEW a \in Nat, NEW m \in Nat, Line(q, a, m),
         NEW s \in S, s.seq \in Nat, End(s) = a, s.seq < End(s)
  PROVE  Insert(q, s) = <<s>> \o q
  <1>1. CASE q = <<>>
    BY <1>1 DEF Insert
  <1>2. CASE q # <<>>
    <2>1. \A i \in 1 .. Len(q) : a <= q[i].seq /\ q[i].seq \in Nat
      BY LineRises DEF Shaped
    <2>2. Len(q) \in 1 .. Len(q) /\ DOMAIN q = 1 .. Len(q)
      BY <1>2
    <2>3. s.seq < q[Len(q)].seq
      BY <2>1, <2>2
    <2>4. {i \in DOMAIN q : q[i].seq < s.seq} = {}
      BY <2>1, <2>2
    <2>5. Cardinality({i \in DOMAIN q : q[i].seq < s.seq}) = 0
      BY <2>4, FS_EmptySet
    <2>6. Insert(q, s) = SubSeq(q, 1, 0) \o <<s>> \o SubSeq(q, 0 + 1, Len(q))
      BY <1>2, <2>3, <2>5 DEF Insert
    <2>7. SubSeq(q, 1, 0) = <<>> /\ SubSeq(q, 0 + 1, Len(q)) = q
      OBVIOUS
    <2> QED
      BY <2>6, <2>7
  <1> QED
    BY <1>1, <1>2

(* The recursive definition of SendUp has a solution.                       *)
LEMMA SendUpTurns ==
  ASSUME NEW p, Len(p.unsent) \in Nat
  PROVE  /\ SendUp(p, 0) = [unacked |-> p.unacked, nxt |-> p.nxt]
         /\ \A k \in 1 .. Len(p.unsent) : SendUp(p, k) = SendOne(SendUp(p, k - 1), p.unsent[k])
  <1> DEFINE N == Len(p.unsent)
             first == [unacked |-> p.unacked, nxt |-> p.nxt]
             Sends(g, n) == g = [k \in 0 .. n |-> IF k = 0 THEN first ELSE SendOne(g[k-1], p.unsent[k])]
             S == {n \in 0 .. N : \E g : Sends(g, n)}
             d == CHOOSE g : Sends(g, N)
  <1>0. N \in Nat
    OBVIOUS
  <1>1. \A i : SendUp(p, i) = d[i]
    BY DEF SendUp
  <1> HIDE DEF first, N
  <1>2. 0 \in S
    <2>1. Sends([k \in 0 .. 0 |-> first], 0) /\ 0 \in 0 .. N
      BY <1>0
    <2> HIDE DEF Sends
    <2> QED
      BY <2>1
  <1>3. ASSUME NEW n \in 0 .. (N - 1), n \in S
        PROVE  n + 1 \in S
    <2>1. PICK g : Sends(g, n)
      BY <1>3
    <2>2. Sends([k \in 0 .. (n + 1) |-> IF k <= n THEN g[k] ELSE SendOne(g[n], p.unsent[n+1])], n + 1)
      BY <1>0, <2>1
    <2>3. n + 1 \in 0 .. N
      BY <1>0
    <2> HIDE DEF Sends
    <2> QED
      BY <2>2, <2>3
  <1>4. N \in S
    <2> HIDE DEF S, Sends
    <2>2. \A n \in 0 .. N : n \in S
      BY <1>0, <1>2, <1>3, Upward
    <2> QED
      BY <1>0, <2>2
  <1>5. Sends(d, N)
    <2>1. PICK g : Sends(g, N)
      BY <1>4
    <2> HIDE DEF Sends
    <2> QED
      BY <2>1
  <1>6. d[0] = first /\ \A i \in 1 .. N : d[i] = SendOne(d[i-1], p.unsent[i])
    <2> HIDE DEF d
    <2> QED
      BY <1>0, <1>5
  <1> QED
    BY <1>1, <1>6 DEF first, N

\* So it has for every pcb.
LEMMA SendUpStep ==
  ASSUME NEW p \in Pcbs
  PROVE  /\ SendUp(p, 0) = [unacked |-> p.unacked, nxt |-> p.nxt]
         /\ \A k \in 1 .. Len(p.unsent) : SendUp(p, k) = SendOne(SendUp(p, k - 1), p.unsent[k])
  <1>1. p.unsent \in Seq(Bare)
    BY DEF Pcbs
  <1>2. Len(p.unsent) \in Nat
    BY <1>1
  <1> QED
    BY <1>2, SendUpTurns

(* From the j-th segment on the queues are a line: so they stay, up to any  *)
(* segment that fits into the window.                                       *)
InLine(w, f, a, x, p, j, k, b, m, n) ==
    /\ w \in Nat /\ f \in BOOLEAN /\ a \in Nat /\ x \in Nat /\ p \in Pcbs
    /\ p.unsent \in Seq(Waiting(w, f, a)) /\ j \in 0 .. Len(p.unsent) /\ k \in j .. Len(p.unsent)
    /\ b \in Nat /\ m \in Nat /\ n \in Nat
    /\ SendUp(p, j).nxt = n /\ n <= Total(w, f)
    /\ SendUp(p, j).unacked \in Seq(Flying(w, f, a, x, n))
    /\ Line(SendUp(p, j).unacked, b, m)
    /\ j < Len(p.unsent) => p.unsent[j+1].seq = m
    /\ \A i \in j+1 .. Len(p.unsent) - 1 : End(p.unsent[i]) = p.unsent[i+1].seq
    /\ \A i \in j+1 .. k : p.unsent[i].seq + DataLen(p.unsent[i]) <= a + x

LineSent(w, f, a, x, p, j, k, b, m, n) ==
    /\ SendUp(p, k).nxt \in Nat /\ n <= SendUp(p, k).nxt /\ SendUp(p, k).nxt <= Total(w, f)
    /\ SendUp(p, k).unacked \in Seq(Flying(w, f, a, x, SendUp(p, k).nxt))
    /\ Line(SendUp(p, k).unacked, b, IF k = j THEN m ELSE End(p.unsent[k]))
    /\ k > j => SendUp(p, k).unacked # <<>>
    /\ \A i \in j+1 .. k : End(p.unsent[i]) <= SendUp(p, k).nxt

(* The turns of the loop of tcp_output, one after the other: what was sent  *)
(* is one line with the unacked queue.                                      *)
LEMMA SendsInLine ==
  ASSUME NEW w, NEW f, NEW a, NEW x, NEW p, NEW j, NEW k, NEW b, NEW m, NEW n,
         InLine(w, f, a, x, p, j, k, b, m, n)
  PROVE  LineSent(w, f, a, x, p, j, k, b, m, n)
  <1> SUFFICES
        ASSUME w \in Nat, f \in BOOLEAN, a \in Nat, x \in Nat, p \in Pcbs,
               p.unsent \in Seq(Waiting(w, f, a)),
               j \in 0 .. Len(p.unsent), k \in j .. Len(p.unsent),
               b \in Nat, m \in Nat, n \in Nat,
               SendUp(p, j).nxt = n, n <= Total(w, f),
               SendUp(p, j).unacked \in Seq(Flying(w, f, a, x, n)),
               Line(SendUp(p, j).unacked, b, m),
               j < Len(p.unsent) => p.unsent[j+1].seq = m,
               \A i \in j+1 .. Len(p.unsent) - 1 : End(p.unsent[i]) = p.unsent[i+1].seq,
               \A i \in j+1 .. k : p.unsent[i].seq + DataLen(p.unsent[i]) <= a + x
        PROVE  LineSent(w, f, a, x, p, j, k, b, m, n)
    BY DEF InLine
  <1> DEFINE u == p.unsent
             N == k - j
             M(i) == IF i = j THEN m ELSE End(u[i])
             Good(i) ==
               /\ SendUp(p, i).nxt \in Nat /\ n <= SendUp(p, i).nxt /\ SendUp(p, i).nxt <= Total(w, f)
               /\ SendUp(p, i).unacked \in Seq(Flying(w, f, a, x, SendUp(p, i).nxt))
               /\ Line(SendUp(p, i).unacked, b, M(i))
               /\ i > j => SendUp(p, i).unacked # <<>>
               /\ \A l \in j+1 .. i : End(u[l]) <= SendUp(p, i).nxt
             S == {d \in 0 .. N : Good(j + d)}
  <1>0. /\ N \in Nat /\ j \in Nat /\ k \in Nat /\ Len(u) \in Nat /\ j + 0 = j /\ k <= Len(u)
        /\ Total(w, f) \in Nat /\ \A i \in j+1 .. k : i \in 1 .. Len(u)
    BY DEF Total
  <1>1. \A i \in 1 .. Len(u) : u[i] \in Waiting(w, f, a)
    OBVIOUS
  <1>2. \A i \in 1 .. Len(u) : /\ u[i] \in Packets(w, f) /\ u[i].seq \in Nat /\ End(u[i]) \in Nat
                               /\ End(u[i]) <= Total(w, f) /\ u[i].seq < End(u[i])
    <2>1. ASSUME NEW i \in 1 .. Len(u)
          PROVE  /\ u[i] \in Packets(w, f) /\ u[i].seq \in Nat /\ End(u[i]) \in Nat
                 /\ End(u[i]) <= Total(w, f) /\ u[i].seq < End(u[i])
      <3>1. u[i] \in Packets(w, f)
        BY <1>1 DEF Waiting
      <3> HIDE DEF u
      <3> QED
        BY <3>1, PacketFacts
    <2> QED
      BY <2>1
  <1>3. 0 \in S
    <2>1. Good(j)
      BY <1>0
    <2> HIDE DEF Good
    <2> QED
      BY <1>0, <2>1
  <1>4. ASSUME NEW d \in 0 .. (N - 1), d \in S PROVE d + 1 \in S
    <2> DEFINE i == j + d
               q == SendUp(p, i)
               s == u[i + 1]
               n2 == Max({q.nxt, End(s)})
               r == SendUp(p, i + 1)
    <2>1. i \in j .. k - 1 /\ i + 1 \in j+1 .. k /\ i + 1 \in 1 .. Len(u) /\ (i + 1) - 1 = i
          /\ j + (d + 1) = i + 1 /\ i + 1 > j /\ d + 1 \in 0 .. N /\ i \in Nat
      BY <1>0
    <2>2. Good(i)
      BY <1>4
    <2>3. r = SendOne(q, s)
      <3> HIDE DEF i
      <3> QED
        BY <2>1, SendUpStep
    <2>4. s.seq = M(i)
      <3>1. CASE d = 0
        <4>1. i = j /\ j < Len(u)
          BY <1>0, <2>1, <3>1
        <4> QED
          BY <4>1
      <3>2. CASE d > 0
        <4>1. i # j /\ i \in j+1 .. Len(u) - 1
          BY <1>0, <2>1, <3>2
        <4> HIDE DEF i
        <4>2. End(u[i]) = u[i+1].seq
          BY <4>1
        <4> QED
          BY <4>1, <4>2
      <3> QED
        BY <3>1, <3>2
    <2>5. s \in Waiting(w, f, a) /\ End(s) \in Nat /\ End(s) <= Total(w, f) /\ s.seq \in Nat
      <3> HIDE DEF i
      <3> QED
        BY <1>1, <1>2, <2>1
    <2>6. s.seq + DataLen(s) <= a + x
      <3> HIDE DEF i
      <3> QED
        BY <2>1
    <2>7. M(i) \in Nat
      BY <2>4, <2>5
    <2> HIDE DEF i, M, s
    <2>8. /\ q.nxt \in Nat /\ n <= q.nxt /\ q.nxt <= Total(w, f)
          /\ q.unacked \in Seq(Flying(w, f, a, x, q.nxt))
          /\ Line(q.unacked, b, M(i))
          /\ \A l \in j+1 .. i : End(u[l]) <= q.nxt
      BY <2>2
    <2> HIDE DEF q, Good
    <2>9. n2 \in Nat /\ q.nxt <= n2 /\ End(s) <= n2 /\ n2 <= Total(w, f)
      <3>1. q.nxt \in Int /\ End(s) \in Int
        BY <2>5, <2>8
      <3>2. n2 = IF q.nxt <= End(s) THEN End(s) ELSE q.nxt
        BY <3>1, MaxOfTwo
      <3> DEFINE z == End(s)
                 y == q.nxt
                 t == Total(w, f)
      <3>3. z \in Nat /\ y \in Nat /\ z <= t /\ y <= t /\ n2 = IF y <= z THEN z ELSE y
        BY <2>5, <2>8, <3>2
      <3> HIDE DEF n2, z, y, t
      <3>4. n2 \in Nat /\ y <= n2 /\ z <= n2 /\ n2 <= t
        BY <3>3
      <3> QED
        BY <3>4 DEF z, y, t
    <2> HIDE DEF n2
    <2>10. s \in Flying(w, f, a, x, n2)
      BY <2>5, <2>6, <2>9 DEF Flying
    <2>11. q.unacked \in Seq(Flying(w, f, a, x, n2))
      <3>1. Flying(w, f, a, x, q.nxt) \subseteq Flying(w, f, a, x, n2)
        <4>1. x <= x /\ q.nxt \in Nat /\ q.nxt <= n2 /\ n2 \in Nat
          BY <2>8, <2>9
        <4> QED
          BY <4>1, FlyingGrow
      <3> QED
        BY <2>8, <3>1, SeqsGrow
    <2>12. Shaped(q.unacked)
      <3>1. Flying(w, f, a, x, n2) \subseteq Packets(w, f)
        BY <2>9, WaitingArePackets DEF WaitingFacts
      <3>2. q.unacked \in Seq(Packets(w, f))
        BY <2>11, <3>1, SeqsGrow
      <3> QED
        BY <3>2, PacketsShaped
    <2>13. /\ Insert(q.unacked, s) \in Seq(Flying(w, f, a, x, n2))
           /\ Line(Insert(q.unacked, s), b, End(s)) /\ Insert(q.unacked, s) # <<>>
      BY <2>4, <2>5, <2>7, <2>8, <2>10, <2>11, <2>12, InsertLast
    <2>14. r.unacked = Insert(q.unacked, s) /\ r.nxt = n2
      <3>1. SendOne(q, s) = [unacked |-> Insert(q.unacked, s), nxt |-> Max({q.nxt, End(s)})]
        BY DEF SendOne
      <3>2. SendOne(q, s).unacked = Insert(q.unacked, s) /\ SendOne(q, s).nxt = Max({q.nxt, End(s)})
        BY <3>1
      <3> QED
        BY <2>3, <3>2 DEF n2
    <2> HIDE DEF r
    <2>15. M(i + 1) = End(s)
      BY <2>1 DEF M, s
    <2>16. \A l \in j+1 .. i + 1 : End(u[l]) <= n2
      <3>1. ASSUME NEW l \in j+1 .. i + 1 PROVE End(u[l]) <= n2
        <4>1. CASE l = i + 1
          BY <2>9, <4>1 DEF s
        <4>2. CASE l \in j+1 .. i
          <5>1. End(u[l]) <= q.nxt /\ End(u[l]) \in Nat
            <6>1. l \in j+1 .. k
              BY <1>0, <2>1, <4>2
            <6>2. l \in 1 .. Len(u)
              BY <1>0, <6>1
            <6>3. End(u[l]) \in Nat
              BY <1>2, <6>2
            <6>4. End(u[l]) <= q.nxt
              BY <2>8, <4>2
            <6> QED
              BY <6>3, <6>4
          <5> QED
            BY <2>8, <2>9, <5>1
        <4> QED
          BY <2>1, <4>1, <4>2
      <3> QED
        BY <3>1
    <2>17. r.nxt \in Nat /\ n <= r.nxt /\ r.nxt <= Total(w, f)
      BY <2>8, <2>9, <2>14
    <2>18. Good(i + 1)
      BY <2>13, <2>14, <2>15, <2>16, <2>17 DEF Good, r
    <2> QED
      BY <2>1, <2>18
  <1> HIDE DEF S, Good
  <1>5. \A d \in 0 .. N : d \in S
    BY <1>0, <1>3, <1>4, Upward
  <1>6. Good(k)
    <2>1. N \in S /\ j + N = k
      BY <1>0, <1>5
    <2> QED
      BY <2>1 DEF S
  <1> QED
    BY <1>6 DEF Good, LineSent

(* What tcp_output leaves alone.                                            *)
Alike(p, q) ==
    /\ q.state = p.state /\ q.lbb = p.lbb /\ q.lastack = p.lastack /\ q.fin = p.fin
    /\ q.wnd = p.wnd /\ q.wl1 = p.wl1 /\ q.wl2 = p.wl2 /\ q.rcv = p.rcv /\ ~q.ackNow

\* A segment on its way that p may have sent.
Sendable(m, w, p) ==
    /\ ~m.rst /\ [seq |-> m.seq, data |-> m.data] \in Packets(w, p.fin)
    /\ m.seq + DataLen(m) <= p.lastack + p.wnd
    /\ End(m) \in Nat /\ End(m) <= p.nxt

\* What tcp_output makes of p.
Sends(p, o, w) ==
    /\ o.pcb \in Pcbs /\ Alike(p, o.pcb) /\ Kept(o.pcb, w)
    /\ \A x \in Nat : Reaches(x, p) => Reaches(x, o.pcb)
    /\ \A m \in o.out : Sendable(m, w, o.pcb)

\* A segment on its way has the numbers and the data of the one on the queue.
LEMMA SegmentLike ==
  ASSUME NEW p, NEW s \in Bare
  PROVE  LET m == Segment(p, s) IN
         /\ ~m.rst /\ m.seq = s.seq /\ m.data = s.data /\ End(m) = End(s) /\ DataLen(m) = DataLen(s)
         /\ [seq |-> m.seq, data |-> m.data] = s
  <1> DEFINE m == Segment(p, s)
  <1>1. ~m.rst /\ m.seq = s.seq /\ m.data = s.data
    BY DEF Segment
  <1>2. s = [seq |-> s.seq, data |-> s.data]
    BY DEF Bare
  <1> HIDE DEF m
  <1>3. HasFin(m) <=> HasFin(s)
    BY <1>1 DEF HasFin
  <1> QED
    BY <1>1, <1>2, <1>3 DEF m, End, DataLen

(* The first k segments can go: what they leave is one line, broken at m.   *)
CanSend(w, p, k, b, m) ==
    /\ k \in 0 .. Len(p.unsent) /\ ~p.ackNow
    /\ b \in Nat /\ b <= p.lastack /\ m \in Nat /\ p.lastack <= p.nxt
    /\ p.unsent \in Seq(Waiting(w, p.fin, p.lastack))
    /\ SendUp(p, k).nxt \in Nat /\ p.nxt <= SendUp(p, k).nxt
    /\ SendUp(p, k).nxt <= Total(w, p.fin)
    /\ SendUp(p, k).unacked \in Seq(Flying(w, p.fin, p.lastack, p.wnd, SendUp(p, k).nxt))
    /\ Line(SendUp(p, k).unacked, b, m)
    /\ Line(SubSeq(p.unsent, k + 1, Len(p.unsent)), m, Total(w, p.fin))
    /\ \A i \in 1 .. k : End(p.unsent[i]) <= SendUp(p, k).nxt
    /\ \A i \in 1 .. k : p.unsent[i].seq + DataLen(p.unsent[i]) <= p.lastack + p.wnd

SentAll(w, p, k) ==
    /\ Sent(p, k).pcb \in Pcbs /\ Alike(p, Sent(p, k).pcb) /\ Kept(Sent(p, k).pcb, w)
    /\ Sent(p, k).pcb.unacked = SendUp(p, k).unacked /\ Sent(p, k).pcb.nxt = SendUp(p, k).nxt
    /\ Sent(p, k).pcb.unsent = SubSeq(p.unsent, k + 1, Len(p.unsent))
    /\ \A x \in Sent(p, k).out : Sendable(x, w, Sent(p, k).pcb)

\* tcp_output sends the first k segments: the two queues are one line again.
LEMMA SentKeeps ==
  ASSUME NEW w \in Nat, NEW p \in Pcbs, NEW k, NEW b, NEW m, CanSend(w, p, k, b, m)
  PROVE  SentAll(w, p, k)
  <1> SUFFICES
        ASSUME k \in 0 .. Len(p.unsent), ~p.ackNow,
               b \in Nat, b <= p.lastack, m \in Nat, p.lastack <= p.nxt,
               p.unsent \in Seq(Waiting(w, p.fin, p.lastack)),
               SendUp(p, k).nxt \in Nat, p.nxt <= SendUp(p, k).nxt,
               SendUp(p, k).nxt <= Total(w, p.fin),
               SendUp(p, k).unacked \in Seq(Flying(w, p.fin, p.lastack, p.wnd, SendUp(p, k).nxt)),
               Line(SendUp(p, k).unacked, b, m),
               Line(SubSeq(p.unsent, k + 1, Len(p.unsent)), m, Total(w, p.fin)),
               \A i \in 1 .. k : End(p.unsent[i]) <= SendUp(p, k).nxt,
               \A i \in 1 .. k : p.unsent[i].seq + DataLen(p.unsent[i]) <= p.lastack + p.wnd
        PROVE  SentAll(w, p, k)
    BY DEF CanSend
  <1> DEFINE u == SendUp(p, k).unacked
             n == SendUp(p, k).nxt
             rest == SubSeq(p.unsent, k + 1, Len(p.unsent))
             r == Sent(p, k).pcb
             f == p.fin
             a == p.lastack
             x == p.wnd
  <1>1. r = [p EXCEPT !.unsent = rest, !.unacked = u, !.nxt = n, !.ackNow = p.ackNow /\ k = 0]
    BY DEF Sent
  <1>2. Sent(p, k).out = {Segment(p, p.unsent[i]) : i \in 1..k}
    BY DEF Sent
  <1>t. /\ f \in BOOLEAN /\ a \in Nat /\ x \in Nat /\ Len(p.unsent) \in Nat /\ p.nxt \in Nat
        /\ p.unsent \in Seq(Bare)
    BY DEF Pcbs
  <1>w. /\ Flying(w, f, a, x, n) \subseteq Waiting(w, f, a) /\ Waiting(w, f, a) \subseteq Packets(w, f)
        /\ Waiting(w, f, a) \subseteq Bare
    BY <1>t, WaitingArePackets DEF WaitingFacts
  <1>3. rest \in Seq(Waiting(w, f, a))
    <2>1. \A i \in (k+1) .. Len(p.unsent) : p.unsent[i] \in Waiting(w, f, a)
      BY <1>t
    <2> HIDE DEF f, a
    <2>2. k + 1 \in 1 .. (Len(p.unsent) + 1) /\ Len(p.unsent) \in (k+1) - 1 .. Len(p.unsent)
      BY <1>t
    <2> QED
      BY <1>t, <2>1, <2>2, SubSeqProperties
  <1>4. u \in Seq(Bare) /\ rest \in Seq(Bare)
    <2>1. Flying(w, f, a, x, n) \subseteq Bare
      BY <1>w
    <2>2. u \in Seq(Flying(w, f, a, x, n))
      OBVIOUS
    <2> HIDE DEF u, rest, f, a, x, n
    <2> QED
      BY <1>w, <1>3, <2>1, <2>2, SeqsGrow
  <1>5. /\ r.unsent = rest /\ r.unacked = u /\ r.nxt = n /\ r.fin = f /\ r.lastack = a /\ r.wnd = x
        /\ ~r.ackNow /\ r.state = p.state /\ r.lbb = p.lbb /\ r.wl1 = p.wl1 /\ r.wl2 = p.wl2 /\ r.rcv = p.rcv
    <2> HIDE DEF u, rest, n, r
    <2> QED
      BY <1>1 DEF Pcbs
  <1>6. r \in Pcbs
    <2>1. n \in Nat
      OBVIOUS
    <2> HIDE DEF u, rest, n, r
    <2> QED
      BY <1>1, <1>4, <2>1 DEF Pcbs
  <1>7. Kept(r, w)
    <2>1. /\ u \in Seq(Flying(w, f, a, x, n)) /\ rest \in Seq(Waiting(w, f, a))
          /\ a <= n /\ n <= Total(w, f) /\ Line(u, b, m) /\ Line(rest, m, Total(w, f)) /\ b <= a
      BY <1>t, <1>3
    <2> HIDE DEF u, rest, n, r, f, a, x
    <2> QED
      BY <1>5, <2>1 DEF Kept
  <1>8. Alike(p, r)
    BY <1>5 DEF Alike
  <1>9. ASSUME NEW i \in 1 .. k PROVE Sendable(Segment(p, p.unsent[i]), w, r)
    <2> DEFINE s == p.unsent[i]
    <2>1. i \in 1 .. Len(p.unsent) /\ s \in Waiting(w, f, a)
      BY <1>t
    <2>2. s \in Packets(w, f) /\ s \in Bare
      BY <1>w, <2>1
    <2>3. End(s) \in Nat /\ End(s) <= n /\ s.seq + DataLen(s) <= a + x
      BY <1>t, <2>2, PacketFacts
    <2> DEFINE y == Segment(p, s)
    <2>4. /\ ~y.rst /\ y.seq = s.seq /\ y.data = s.data /\ End(y) = End(s) /\ DataLen(y) = DataLen(s)
          /\ [seq |-> y.seq, data |-> y.data] = s
      BY <2>2, SegmentLike
    <2>5. r.fin = f /\ r.lastack = a /\ r.wnd = x /\ r.nxt = n
      BY <1>5
    <2> HIDE DEF s, f, a, x, n, r, y
    <2>6. Sendable(y, w, r)
      BY <2>2, <2>3, <2>4, <2>5 DEF Sendable
    <2> QED
      BY <2>6 DEF y, s, r
  <1> QED
    BY <1>2, <1>5, <1>6, <1>7, <1>8, <1>9 DEF SentAll

(* What tcp_output may do when nothing is to be acknowledged.               *)
LEMMA OutputIsSent ==
  ASSUME NEW p, ~p.ackNow, NEW o \in Output(p)
  PROVE  \E k \in 0 .. Len(p.unsent) :
            /\ o = Sent(p, k) /\ \A i \in 1..k : Fits(p, i)
            /\ k < Len(p.unsent) => ~Fits(p, k + 1) \/ Congested(p, k + 1) \/ Nagle(p, k + 1)
  BY DEF Output

\* The window test of tcp_output, in sequence numbers.
LEMMA FitsMeans ==
  ASSUME NEW w \in Nat, NEW p \in Pcbs, p.unsent \in Seq(Packets(w, p.fin)),
         NEW i \in 1 .. Len(p.unsent)
  PROVE  Fits(p, i) <=> p.unsent[i].seq + DataLen(p.unsent[i]) <= p.lastack + p.wnd
  <1>1. p.unsent[i].seq \in Nat /\ DataLen(p.unsent[i]) \in Nat
    <2>1. p.unsent[i] \in Packets(w, p.fin) /\ p.fin \in BOOLEAN
      BY DEF Pcbs
    <2> QED
      BY <2>1, PacketFacts
  <1>2. p.lastack \in Nat /\ p.wnd \in Nat
    BY DEF Pcbs
  <1> QED
    BY <1>1, <1>2 DEF Fits

(* Whatever tcp_output sends, the queues stay one line, nothing leaves the  *)
(* window, and what was reached is reached.                                 *)
LEMMA OutputKeeps ==
  ASSUME NEW w \in Nat, NEW p \in Pcbs, Kept(p, w), ~p.ackNow, NEW o \in Output(p)
  PROVE  Sends(p, o, w)
  <1> DEFINE f == p.fin
             a == p.lastack
             x == p.wnd
             u == p.unsent
  <1>1. PICK k \in 0 .. Len(u) : o = Sent(p, k) /\ \A i \in 1..k : Fits(p, i)
    BY OutputIsSent
  <1>2. /\ f \in BOOLEAN /\ a \in Nat /\ x \in Nat /\ Len(u) \in Nat /\ p.nxt \in Nat
        /\ u \in Seq(Bare) /\ k \in Nat /\ k <= Len(u) /\ Total(w, f) \in Nat
    BY DEF Pcbs, Total
  <1>3. PICK b, m \in Nat : b <= a /\ Line(p.unacked, b, m) /\ Line(u, m, Total(w, f))
    BY DEF Kept
  <1>4. /\ p.unacked \in Seq(Flying(w, f, a, x, p.nxt)) /\ u \in Seq(Waiting(w, f, a))
        /\ a <= p.nxt /\ p.nxt <= Total(w, f)
    BY DEF Kept
  <1>5. u \in Seq(Packets(w, f)) /\ \A i \in 1 .. Len(u) : u[i] \in Packets(w, f)
    <2>1. Waiting(w, f, a) \subseteq Packets(w, f)
      BY DEF Waiting
    <2> HIDE DEF u
    <2> QED
      BY <1>4, <2>1, SeqsGrow
  <1>6. \A i \in 1 .. k : u[i].seq + DataLen(u[i]) <= a + x
    BY <1>1, <1>2, <1>5, FitsMeans
  <1>7. SendUp(p, 0) = [unacked |-> p.unacked, nxt |-> p.nxt]
    BY SendUpStep
  <1>8. Line(SubSeq(u, k + 1, Len(u)), Cut(u, k, m), Total(w, f))
    <2> DEFINE t == Total(w, f)
    <2>1. u \in Seq(Bare) /\ Line(u, m, t) /\ k \in 0 .. Len(u)
      BY <1>2, <1>3
    <2> HIDE DEF u, t
    <2>2. Line(SubSeq(u, k + 1, Len(u)), Cut(u, k, m), t)
      BY <2>1, LineCut
    <2> QED
      BY <2>2 DEF t
  <1>8a. u # <<>> => u[1].seq = m /\ \A i \in 1 .. Len(u) - 1 : End(u[i]) = u[i+1].seq
    <2>1. Line(u, m, Total(w, f))
      BY <1>3
    <2> HIDE DEF u
    <2> QED
      BY <2>1 DEF Line
  <1>9. /\ SendUp(p, k).nxt \in Nat /\ p.nxt <= SendUp(p, k).nxt /\ SendUp(p, k).nxt <= Total(w, f)
        /\ SendUp(p, k).unacked \in Seq(Flying(w, f, a, x, SendUp(p, k).nxt))
        /\ Line(SendUp(p, k).unacked, b, Cut(u, k, m))
        /\ k > 0 => SendUp(p, k).unacked # <<>>
        /\ \A i \in 1 .. k : End(u[i]) <= SendUp(p, k).nxt
    <2>1. 0 \in 0 .. Len(u) /\ k \in 0 .. Len(u)
      BY <1>2
    <2>2. SendUp(p, 0).nxt = p.nxt /\ SendUp(p, 0).unacked = p.unacked
      BY <1>7
    <2>3. 0 < Len(u) => u[0 + 1].seq = m
      <3>1. Len(u) > 0 => u # <<>>
        OBVIOUS
      <3> QED
        BY <1>2, <1>8a, <3>1
    <2>5. \A i \in 0+1 .. Len(u) - 1 : End(u[i]) = u[i+1].seq
      <3>1. \A i \in 0+1 .. Len(u) - 1 : u # <<>> /\ i \in 1 .. Len(u) - 1
        BY <1>2
      <3> HIDE DEF u
      <3> QED
        BY <1>8a, <3>1
    <2>6. \A i \in 0+1 .. k : u[i].seq + DataLen(u[i]) <= a + x
      <3> HIDE DEF u, a, x
      <3> QED
        BY <1>2, <1>6
    <2>7. /\ p.nxt \in Nat /\ SendUp(p, 0).nxt = p.nxt /\ p.nxt <= Total(w, f)
          /\ SendUp(p, 0).unacked \in Seq(Flying(w, f, a, x, p.nxt))
          /\ Line(SendUp(p, 0).unacked, b, m)
          /\ u \in Seq(Waiting(w, f, a)) /\ f \in BOOLEAN /\ a \in Nat /\ x \in Nat
      BY <1>2, <1>3, <1>4, <2>2
    <2>8. InLine(w, f, a, x, p, 0, k, b, m, p.nxt)
      BY <1>2, <2>1, <2>3, <2>5, <2>6, <2>7 DEF InLine
    <2>9. LineSent(w, f, a, x, p, 0, k, b, m, p.nxt)
      BY <2>8, SendsInLine
    <2>4. /\ SendUp(p, k).nxt \in Nat /\ p.nxt <= SendUp(p, k).nxt /\ SendUp(p, k).nxt <= Total(w, f)
          /\ SendUp(p, k).unacked \in Seq(Flying(w, f, a, x, SendUp(p, k).nxt))
          /\ Line(SendUp(p, k).unacked, b, IF k = 0 THEN m ELSE End(u[k]))
          /\ k > 0 => SendUp(p, k).unacked # <<>>
          /\ \A i \in 0+1 .. k : End(u[i]) <= SendUp(p, k).nxt
      BY <2>9 DEF LineSent
    <2> QED
      BY <2>4 DEF Cut
  <1>10. Cut(u, k, m) \in Nat
    <2>1. k > 0 => u[k] \in Packets(w, f)
      BY <1>2, <1>5
    <2>2. f \in BOOLEAN
      BY <1>2
    <2> HIDE DEF u, f
    <2> QED
      BY <2>1, <2>2, PacketFacts DEF Cut
  <1>11. /\ Sent(p, k).pcb \in Pcbs /\ Alike(p, Sent(p, k).pcb) /\ Kept(Sent(p, k).pcb, w)
         /\ Sent(p, k).pcb.unacked = SendUp(p, k).unacked /\ Sent(p, k).pcb.nxt = SendUp(p, k).nxt
         /\ Sent(p, k).pcb.unsent = SubSeq(u, k + 1, Len(u))
         /\ \A y \in Sent(p, k).out : Sendable(y, w, Sent(p, k).pcb)
    <2>1. CanSend(w, p, k, b, Cut(u, k, m))
      BY <1>2, <1>3, <1>4, <1>6, <1>8, <1>9, <1>10 DEF CanSend
    <2>2. SentAll(w, p, k)
      BY <2>1, SentKeeps
    <2> QED
      BY <2>2 DEF SentAll
  <1>12. ASSUME NEW y \in Nat, Reaches(y, p) PROVE Reaches(y, Sent(p, k).pcb)
    <2>1. CASE k = 0
      <3>1. SubSeq(u, 0 + 1, Len(u)) = u
        BY <1>2
      <3>2. /\ Sent(p, k).pcb.unacked = p.unacked /\ Sent(p, k).pcb.nxt = p.nxt
            /\ Sent(p, k).pcb.unsent = p.unsent
        BY <1>7, <1>11, <2>1, <3>1
      <3> QED
        BY <1>12, <3>2 DEF Reaches
    <2>2. CASE k > 0
      <3>1. 1 \in 1 .. k /\ 1 \in 1 .. Len(u)
        BY <1>2, <2>2
      <3>2. u[1].seq \in Nat /\ End(u[1]) \in Nat /\ u[1].seq < End(u[1]) /\ End(u[1]) <= SendUp(p, k).nxt
        <4> DEFINE s == u[1]
        <4>1. s \in Packets(w, f) /\ f \in BOOLEAN /\ End(s) <= SendUp(p, k).nxt
          BY <1>2, <1>5, <1>9, <3>1
        <4>2. s.seq \in Nat /\ End(s) \in Nat /\ s.seq < End(s)
          <5> HIDE DEF f, s
          <5> QED
            BY <4>1, PacketFacts
        <4> QED
          BY <4>1, <4>2
      <3>3. y <= SendUp(p, k).nxt
        <4> DEFINE c == u[1].seq
                   z == End(u[1])
                   t == SendUp(p, k).nxt
                   v == p.nxt
        <4>1. c \in Nat /\ z \in Nat /\ c < z /\ z <= t /\ t \in Nat /\ v <= t /\ v \in Nat
          BY <1>2, <1>9, <3>2 DEF Pcbs
        <4>2. y <= v \/ y <= c + 1
          BY <1>12 DEF Reaches
        <4>3. y <= t
          <5> HIDE DEF c, z, t, v
          <5> QED
            BY <1>12, <4>1, <4>2
        <4> QED
          BY <4>3
      <3> QED
        BY <1>11, <3>3 DEF Reaches
    <2> QED
      BY <1>2, <2>1, <2>2
  <1> QED
    BY <1>1, <1>11, <1>12 DEF Sends

-----------------------------------------------------------------------------
(* Retransmission. *)

(* Everything that was sent and not acknowledged goes back on the unsent    *)
(* queue.                                                                   *)
LEMMA RequeueKeeps ==
  ASSUME NEW w \in Nat, NEW p \in Pcbs, Kept(p, w), ~p.ackNow, p.unacked # <<>>
  PROVE  LET r == [p EXCEPT !.unsent = p.unacked \o @, !.unacked = <<>>, !.nrtx = @ + 1] IN
         /\ r \in Pcbs /\ Kept(r, w) /\ Alike(p, r)
         /\ \A x \in Nat : Reaches(x, p) => Reaches(x, r)
  <1> DEFINE f == p.fin
             a == p.lastack
             x == p.wnd
             u == p.unacked
             v == p.unsent
             r == [p EXCEPT !.unsent = u \o v, !.unacked = <<>>, !.nrtx = p.nrtx + 1]
  <1>1. /\ f \in BOOLEAN /\ a \in Nat /\ x \in Nat /\ p.nxt \in Nat /\ p.nrtx + 1 \in Nat
        /\ u \in Seq(Bare) /\ v \in Seq(Bare)
    BY DEF Pcbs
  <1>2. u \o v \in Seq(Bare)
    <2> HIDE DEF u, v
    <2> QED
      BY <1>1
  <1>3. /\ r.unsent = u \o v /\ r.unacked = <<>> /\ r.nxt = p.nxt /\ r.fin = f /\ r.lastack = a
        /\ r.wnd = x /\ ~r.ackNow /\ r.state = p.state /\ r.lbb = p.lbb /\ r.wl1 = p.wl1
        /\ r.wl2 = p.wl2 /\ r.rcv = p.rcv
    <2> HIDE DEF u, v
    <2> QED
      BY DEF Pcbs
  <1>4. r \in Pcbs
    <2> DEFINE e == <<>>
               n == p.nrtx + 1
               c == u \o v
    <2>1. e \in Seq(Bare) /\ n \in Nat /\ c \in Seq(Bare)
      BY <1>1, <1>2
    <2>2. r = [p EXCEPT !.unsent = c, !.unacked = e, !.nrtx = n]
      OBVIOUS
    <2> HIDE DEF e, n, c, r
    <2> QED
      BY <2>1, <2>2 DEF Pcbs
  <1> HIDE DEF r
  <1>5. Kept(r, w)
    <2>1. PICK b, m \in Nat : b <= a /\ Line(u, b, m) /\ Line(v, m, Total(w, f))
      BY DEF Kept
    <2>2. /\ u \in Seq(Flying(w, f, a, x, p.nxt)) /\ v \in Seq(Waiting(w, f, a))
          /\ a <= p.nxt /\ p.nxt <= Total(w, f)
      BY DEF Kept
    <2>3. u \in Seq(Waiting(w, f, a))
      <3>1. Flying(w, f, a, x, p.nxt) \subseteq Waiting(w, f, a)
        BY <1>1, WaitingArePackets DEF WaitingFacts
      <3> HIDE DEF u, f, a, x
      <3> QED
        BY <2>2, <3>1, SeqsGrow
    <2> HIDE DEF u, v, f, a, x
    <2>4. Line(u \o v, b, Total(w, f))
      BY <2>1, <2>2, <2>3, LineJoin
    <2>5. u \o v \in Seq(Waiting(w, f, a))
      BY <2>2, <2>3
    <2>6. Line(<<>>, b, b)
      BY DEF Line
    <2>7. <<>> \in Seq(Flying(w, f, a, x, p.nxt))
      OBVIOUS
    <2> QED
      BY <1>3, <2>1, <2>2, <2>4, <2>5, <2>6, <2>7 DEF Kept
  <1>6. Alike(p, r)
    BY <1>3 DEF Alike
  <1>7. ASSUME NEW y \in Nat, Reaches(y, p) PROVE Reaches(y, r)
    BY <1>3, <1>7 DEF Reaches
  <1> QED
    BY <1>4, <1>5, <1>6, <1>7 DEF r

(* tcp_rexmit, and tcp_output behind it: the first unacknowledged segment   *)
(* is sent before any other, and is back in its place.                      *)
Resent(p, r) ==
    /\ r.unacked = Tail(p.unacked) /\ r.unsent = <<Head(p.unacked)>> \o p.unsent
    /\ r.inFr /\ ~r.ackNow /\ r.nxt = p.nxt /\ r.lastack = p.lastack /\ r.wnd = p.wnd
    /\ r.fin = p.fin

\* A line without its first segment.
LEMMA TailOfLine ==
  ASSUME NEW S, NEW q \in Seq(S), q # <<>>, NEW b, NEW m, Line(q, b, m)
  PROVE  /\ Head(q) \in S /\ Head(q) = q[1] /\ Head(q).seq = b /\ Tail(q) \in Seq(S)
         /\ Line(Tail(q), End(Head(q)), m) /\ q = <<Head(q)>> \o Tail(q)
  <1>1. Len(q) \in Nat \ {0} /\ 1 \in 1 .. Len(q) /\ Head(q) = q[1] /\ q[1].seq = b
        /\ Tail(q) \in Seq(S) /\ q = <<Head(q)>> \o Tail(q) /\ Head(q) \in S
    BY DEF Line
  <1>2. Tail(q) = SubSeq(q, 1 + 1, Len(q))
    OBVIOUS
  <1>3. Line(SubSeq(q, 1 + 1, Len(q)), Cut(q, 1, b), m)
    <2>1. 1 \in 0 .. Len(q)
      BY <1>1
    <2> QED
      BY <2>1, LineCut
  <1>4. Cut(q, 1, b) = End(Head(q))
    BY <1>1 DEF Cut
  <1>5. Line(Tail(q), End(Head(q)), m)
    BY <1>2, <1>3, <1>4
  <1> QED
    BY <1>1, <1>5

\* A queue with a segment put before it.
LEMMA BehindFirst ==
  ASSUME NEW S, NEW s \in S, NEW q \in Seq(S), NEW k \in 1 .. Len(q) + 1
  PROVE  LET t == <<s>> \o q IN
         /\ t \in Seq(S) /\ Len(t) = Len(q) + 1 /\ t[1] = s
         /\ \A i \in 2 .. Len(t) : i - 1 \in 1 .. Len(q) /\ t[i] = q[i - 1]
         /\ SubSeq(t, k + 1, Len(t)) = SubSeq(q, (k - 1) + 1, Len(q))
  <1> DEFINE t == <<s>> \o q
  <1>1. /\ t \in Seq(S) /\ Len(t) = Len(q) + 1 /\ t[1] = s /\ Len(q) \in Nat
        /\ \A i \in 2 .. Len(t) : i - 1 \in 1 .. Len(q) /\ t[i] = q[i - 1]
    OBVIOUS
  <1> HIDE DEF t
  <1>2. SubSeq(t, k + 1, Len(t)) = SubSeq(q, (k - 1) + 1, Len(q))
    <2> DEFINE x == SubSeq(t, k + 1, Len(t))
               y == SubSeq(q, (k - 1) + 1, Len(q))
    <2>1. x \in Seq(S) /\ Len(x) = Len(t) - k /\ \A i \in 1 .. Len(t) - k : x[i] = t[k + i]
      BY <1>1
    <2>2. y \in Seq(S) /\ Len(y) = Len(t) - k /\ \A i \in 1 .. Len(t) - k : y[i] = q[k - 1 + i]
      BY <1>1
    <2>3. \A i \in 1 .. Len(t) - k : t[k + i] = q[k - 1 + i]
      BY <1>1
    <2> HIDE DEF x, y
    <2>4. Len(x) = Len(y) /\ \A i \in 1 .. Len(x) : x[i] = y[i]
      BY <2>1, <2>2, <2>3
    <2>5. x = y
      BY <2>1, <2>2, <2>4, SeqEqual
    <2> QED
      BY <2>5 DEF x, y
  <1> QED
    BY <1>1, <1>2 DEF t

\* With the congestion window at no less than one MSS the first segment goes.
LEMMA FirstGoes ==
  ASSUME NEW w \in Nat, NEW p \in Pcbs, Kept(p, w), p.unacked # <<>>,
         NEW r \in Pcbs, Resent(p, r), NEW o \in Output(r)
  PROVE  \E k \in 1 .. Len(r.unsent) : o = Sent(r, k) /\ \A i \in 1..k : Fits(r, i)
  <1> DEFINE s == Head(p.unacked)
             f == p.fin
             a == p.lastack
             x == p.wnd
  <1>1. /\ f \in BOOLEAN /\ a \in Nat /\ x \in Nat /\ p.nxt \in Nat /\ p.unsent \in Seq(Bare)
    BY DEF Pcbs
  <1>2. /\ r.unsent = <<s>> \o p.unsent /\ r.inFr /\ ~r.ackNow /\ r.lastack = a /\ r.wnd = x
        /\ r.fin = f
    BY DEF Resent
  <1>3. PICK b, m \in Nat : b <= a /\ Line(p.unacked, b, m)
    BY DEF Kept
  <1>4. p.unacked \in Seq(Flying(w, f, a, x, p.nxt))
    BY DEF Kept
  <1>5. s \in Flying(w, f, a, x, p.nxt) /\ s.seq = b
    <2> DEFINE F == Flying(w, f, a, x, p.nxt)
    <2>1. p.unacked \in Seq(F)
      BY <1>4
    <2> HIDE DEF F, f, a, x
    <2>2. s \in F /\ s.seq = b
      BY <1>3, <2>1, TailOfLine
    <2> QED
      BY <2>2 DEF F
  <1>6. s \in Packets(w, f) /\ s \in Bare /\ s.seq + DataLen(s) <= a + x
    <2> HIDE DEF s, f, a, x
    <2> QED
      BY <1>1, <1>5, WaitingArePackets DEF WaitingFacts, Flying
  <1>7. s.seq \in Nat /\ DataLen(s) \in Nat /\ DataLen(s) <= Mss
    <2> HIDE DEF s, f
    <2> QED
      BY <1>1, <1>6, PacketFacts
  <1>8. Len(r.unsent) \in Nat \ {0} /\ r.unsent[1] = s
    <2> HIDE DEF s
    <2>1. 1 \in 1 .. Len(p.unsent) + 1
      BY <1>1
    <2> DEFINE t == <<s>> \o p.unsent
    <2>2. Len(t) = Len(p.unsent) + 1 /\ t[1] = s
      BY <1>1, <1>6, <2>1, BehindFirst
    <2> HIDE DEF t
    <2>3. Len(p.unsent) \in Nat
      BY <1>1
    <2>4. r.unsent = t
      BY <1>2 DEF t
    <2> QED
      BY <2>2, <2>3, <2>4
  <1> HIDE DEF s, f, a, x
  <1>9. Fits(r, 1) /\ ~Congested(r, 1) /\ ~Nagle(r, 1)
    <2>1. Mss \in Nat
      BY StreamAssumption
    <2>2. Fits(r, 1)
      BY <1>1, <1>2, <1>6, <1>7, <1>8 DEF Fits
    <2>3. ~Congested(r, 1)
      BY <1>1, <1>2, <1>3, <1>5, <1>7, <1>8, <2>1 DEF Congested
    <2>4. ~Nagle(r, 1)
      BY <1>2 DEF Nagle
    <2> QED
      BY <2>2, <2>3, <2>4
  <1>10. PICK k \in 0 .. Len(r.unsent) :
            /\ o = Sent(r, k) /\ \A i \in 1..k : Fits(r, i)
            /\ k < Len(r.unsent) => ~Fits(r, k + 1) \/ Congested(r, k + 1) \/ Nagle(r, k + 1)
    BY <1>2, OutputIsSent
  <1>11. k # 0
    BY <1>8, <1>9, <1>10
  <1> QED
    BY <1>8, <1>10, <1>11

(* Behind tcp_rexmit, tcp_output sends the segment taken back, and the      *)
(* queues are one line again.                                               *)
LEMMA RexmitKeeps ==
  ASSUME NEW w \in Nat, NEW p \in Pcbs, Kept(p, w), p.unacked # <<>>,
         NEW r \in Pcbs, Resent(p, r), NEW o \in Output(r)
  PROVE  /\ o.pcb \in Pcbs /\ Alike(r, o.pcb) /\ Kept(o.pcb, w)
         /\ \A y \in Nat : Reaches(y, p) => Reaches(y, o.pcb)
         /\ \A y \in o.out : Sendable(y, w, o.pcb)
  <1> DEFINE s == Head(p.unacked)
             f == p.fin
             a == p.lastack
             x == p.wnd
             u == p.unsent
             g == p.nxt
             W == Waiting(w, f, a)
             F == Flying(w, f, a, x, g)
             T == Total(w, f)
  <1>1. PICK k \in 1 .. Len(r.unsent) : o = Sent(r, k) /\ \A i \in 1..k : Fits(r, i)
    BY FirstGoes
  <1>2. /\ f \in BOOLEAN /\ a \in Nat /\ x \in Nat /\ g \in Nat /\ u \in Seq(Bare) /\ Len(u) \in Nat
    BY DEF Pcbs
  <1>3. /\ r.unacked = Tail(p.unacked) /\ r.unsent = <<s>> \o u /\ ~r.ackNow
        /\ r.nxt = g /\ r.lastack = a /\ r.wnd = x /\ r.fin = f
    BY DEF Resent
  <1>4. PICK b, m \in Nat : b <= a /\ Line(p.unacked, b, m) /\ Line(u, m, T)
    BY DEF Kept
  <1>5. p.unacked \in Seq(F) /\ u \in Seq(W) /\ a <= g /\ g <= T
    BY DEF Kept
  <1>6. F \subseteq W /\ W \subseteq Packets(w, f) /\ W \subseteq Bare
    <2> HIDE DEF f, a, x, g
    <2> QED
      BY <1>2, WaitingArePackets DEF WaitingFacts
  <1>7. T \in Nat
    BY <1>2 DEF Total
  <1>8. Shaped(p.unacked)
    <2> HIDE DEF F, W, f
    <2>1. p.unacked \in Seq(Packets(w, f))
      <3>1. F \subseteq Packets(w, f)
        BY <1>6
      <3> QED
        BY <1>5, <3>1, SeqsGrow
    <2> QED
      BY <1>2, <2>1, PacketsShaped
  <1>9. /\ s \in F /\ s.seq = b /\ Tail(p.unacked) \in Seq(F) /\ Line(Tail(p.unacked), End(s), m)
        /\ p.unacked = <<s>> \o Tail(p.unacked) /\ s = p.unacked[1] /\ Len(p.unacked) \in Nat \ {0}
    <2> HIDE DEF F
    <2> QED
      BY <1>4, <1>5, TailOfLine
  <1>10. /\ s.seq < End(s) /\ End(s) \in Nat /\ s.seq + DataLen(s) <= a + x /\ End(s) <= g
         /\ s \in W
    <2>1. s.seq + DataLen(s) <= a + x /\ End(s) <= g /\ s \in W
      BY <1>9 DEF Flying
    <2> QED
      BY <1>8, <1>9, <2>1 DEF Shaped
  <1>11. SendUp(r, 1).unacked = p.unacked /\ SendUp(r, 1).nxt = g
    <2>1. Shaped(Tail(p.unacked))
      <3> DEFINE t == Tail(p.unacked)
      <3>1. t \in Seq(Packets(w, f))
        <4> HIDE DEF f, F, W, t
        <4>1. F \subseteq Packets(w, f) /\ t \in Seq(F)
          BY <1>6, <1>9 DEF t
        <4> QED
          BY <4>1, SeqsGrow
      <3> HIDE DEF t, f
      <3> QED
        BY <1>2, <3>1, PacketsShaped DEF t
    <2>2. r.unsent[1] = s /\ 1 \in 1 .. Len(r.unsent)
      <3> HIDE DEF s, u
      <3>1. (<<s>> \o u)[1] = s
        BY <1>2
      <3> QED
        BY <1>1, <1>3, <3>1
    <2>3. SendUp(r, 0) = [unacked |-> r.unacked, nxt |-> r.nxt]
          /\ SendUp(r, 1) = SendOne(SendUp(r, 1 - 1), r.unsent[1])
      BY <2>2, SendUpStep
    <2>4. SendUp(r, 1) = SendOne([unacked |-> Tail(p.unacked), nxt |-> g], s)
      <3>1. SendUp(r, 0) = [unacked |-> Tail(p.unacked), nxt |-> g]
        BY <1>3, <2>3
      <3>2. SendUp(r, 1 - 1) = SendUp(r, 0)
        <4>1. 1 - 1 = 0
          OBVIOUS
        <4> QED
          BY <4>1
      <3> QED
        BY <2>2, <2>3, <3>1, <3>2
    <2>5. Insert(Tail(p.unacked), s) = <<s>> \o Tail(p.unacked)
      <3> DEFINE t == Tail(p.unacked)
      <3>1. t \in Seq(F) /\ Shaped(t) /\ End(s) \in Nat /\ Line(t, End(s), m) /\ s \in F /\ s.seq \in Nat
            /\ s.seq < End(s)
        BY <1>4, <1>9, <1>10, <2>1
      <3> HIDE DEF t, F, s
      <3> QED
        BY <3>1, InsertFirst DEF t
    <2>6. Max({g, End(s)}) = g
      <3>1. g \in Int /\ End(s) \in Int /\ End(s) <= g
        BY <1>2, <1>10
      <3>2. Max({g, End(s)}) = IF g <= End(s) THEN End(s) ELSE g
        BY <3>1, MaxOfTwo
      <3> QED
        BY <3>1, <3>2
    <2> DEFINE q == [unacked |-> Tail(p.unacked), nxt |-> g]
    <2>7. q.unacked = Tail(p.unacked) /\ q.nxt = g
      OBVIOUS
    <2> HIDE DEF q, g, s
    <2>8. SendOne(q, s) = [unacked |-> p.unacked, nxt |-> g]
      BY <1>9, <2>5, <2>6, <2>7 DEF SendOne
    <2> QED
      BY <2>4, <2>8 DEF q
  <1>12. /\ r.unsent \in Seq(W) /\ Len(r.unsent) = Len(u) + 1 /\ r.unsent[1] = s
         /\ \A i \in 2 .. Len(r.unsent) : i - 1 \in 1 .. Len(u) /\ r.unsent[i] = u[i - 1]
         /\ SubSeq(r.unsent, k + 1, Len(r.unsent)) = SubSeq(u, (k - 1) + 1, Len(u))
         /\ k - 1 \in 0 .. Len(u) /\ k \in Nat \ {0}
    <2> DEFINE t == <<s>> \o u
    <2>1. k \in 1 .. Len(u) + 1 /\ s \in W /\ u \in Seq(W) /\ r.unsent = t
      <3> HIDE DEF s, u
      <3>1. Len(<<s>> \o u) = Len(u) + 1
        BY <1>2
      <3> QED
        BY <1>1, <1>3, <1>5, <1>10, <3>1
    <2> HIDE DEF s, u, W
    <2>2. /\ t \in Seq(W) /\ Len(t) = Len(u) + 1 /\ t[1] = s
          /\ \A i \in 2 .. Len(t) : i - 1 \in 1 .. Len(u) /\ t[i] = u[i - 1]
          /\ SubSeq(t, k + 1, Len(t)) = SubSeq(u, (k - 1) + 1, Len(u))
      BY <2>1, BehindFirst
    <2>3. k - 1 \in 0 .. Len(u) /\ k \in Nat \ {0}
      BY <1>2, <2>1
    <2> QED
      BY <2>1, <2>2, <2>3
  <1>13. \A i \in 1 .. k : r.unsent[i].seq + DataLen(r.unsent[i]) <= a + x
    <2>1. r.unsent \in Seq(Packets(w, r.fin))
      <3> HIDE DEF W, f
      <3> QED
        BY <1>3, <1>6, <1>12, SeqsGrow
    <2>2. \A i \in 1 .. k : i \in 1 .. Len(r.unsent)
      BY <1>1, <1>2, <1>12
    <2> QED
      BY <1>1, <1>3, <2>1, <2>2, FitsMeans
  <1> DEFINE mk == IF k = 1 THEN m ELSE End(r.unsent[k])
  <1>14. Line(SubSeq(r.unsent, k + 1, Len(r.unsent)), mk, T) /\ mk \in Nat
    <2>1. Line(SubSeq(u, (k - 1) + 1, Len(u)), Cut(u, k - 1, m), T)
      <3> DEFINE l == k - 1
      <3>1. l \in 0 .. Len(u) /\ u \in Seq(W) /\ Line(u, m, T)
        BY <1>4, <1>5, <1>12
      <3> HIDE DEF l, u, W, T
      <3>2. Line(SubSeq(u, l + 1, Len(u)), Cut(u, l, m), T)
        BY <3>1, LineCut
      <3> QED
        BY <3>2 DEF l
    <2>2. k # 1 => r.unsent[k] = u[k - 1] /\ k - 1 \in 1 .. Len(u)
      <3>1. k # 1 => k \in 2 .. Len(r.unsent)
        BY <1>1, <1>12
      <3> QED
        BY <1>12, <3>1
    <2>3. Cut(u, k - 1, m) = mk
      <3>1. k = 1 => k - 1 = 0
        BY <1>12
      <3>2. k # 1 => k - 1 # 0
        BY <1>12
      <3> QED
        BY <2>2, <3>1, <3>2 DEF Cut
    <2>4. mk \in Nat
      <3>1. \A i \in 1 .. Len(u) : u[i] \in W
        BY <1>5
      <3>2. k # 1 => u[k - 1] \in Packets(w, f)
        <4> HIDE DEF u, W, f
        <4> QED
          BY <1>6, <2>2, <3>1
      <3>3. k # 1 => End(u[k - 1]) \in Nat
        <4> HIDE DEF u, f
        <4> QED
          BY <1>2, <3>2, PacketFacts
      <3> QED
        BY <2>2, <3>3
    <2> HIDE DEF mk
    <2> QED
      BY <1>12, <2>1, <2>3, <2>4
  <1>15. InLine(w, f, a, x, r, 1, k, b, m, g)
    <2>1. 1 < Len(r.unsent) => r.unsent[1 + 1].seq = m
      <3>1. 1 < Len(r.unsent) => u # <<>> /\ r.unsent[1 + 1] = u[1]
        <4>1. 1 < Len(r.unsent) => 2 \in 2 .. Len(r.unsent)
          BY <1>2, <1>12
        <4>2. 1 < Len(r.unsent) => r.unsent[2] = u[2 - 1] /\ 2 - 1 \in 1 .. Len(u)
          BY <1>12, <4>1
        <4> QED
          BY <4>2
      <3> HIDE DEF u
      <3> QED
        BY <1>4, <3>1 DEF Line
    <2>2. \A i \in 1+1 .. Len(r.unsent) - 1 : End(r.unsent[i]) = r.unsent[i+1].seq
      <3>1. ASSUME NEW i \in 1+1 .. Len(r.unsent) - 1 PROVE End(r.unsent[i]) = r.unsent[i+1].seq
        <4>1. i \in 2 .. Len(r.unsent) /\ i + 1 \in 2 .. Len(r.unsent) /\ (i + 1) - 1 = (i - 1) + 1
              /\ i - 1 \in 1 .. Len(u) - 1 /\ Len(u) # 0
          BY <1>2, <1>12
        <4>2. r.unsent[i] = u[i - 1] /\ r.unsent[i + 1] = u[(i - 1) + 1]
          BY <1>12, <4>1
        <4> DEFINE l == i - 1
        <4>3. l \in 1 .. Len(u) - 1 /\ u # <<>>
          BY <4>1
        <4> HIDE DEF u, l
        <4>4. End(u[l]) = u[l + 1].seq
          BY <1>4, <4>3 DEF Line
        <4> QED
          BY <4>2, <4>4 DEF l
      <3> QED
        BY <3>1
    <2>3. \A i \in 1+1 .. k : r.unsent[i].seq + DataLen(r.unsent[i]) <= a + x
      <3>1. \A i \in 1+1 .. k : i \in 1 .. k
        OBVIOUS
      <3> QED
        BY <1>13, <3>1
    <2>4. 1 \in 0 .. Len(r.unsent) /\ k \in 1 .. Len(r.unsent)
      BY <1>1, <1>2, <1>12
    <2>5. /\ SendUp(r, 1).nxt = g /\ g <= Total(w, f) /\ SendUp(r, 1).unacked \in Seq(Flying(w, f, a, x, g))
          /\ Line(SendUp(r, 1).unacked, b, m)
      BY <1>4, <1>5, <1>11
    <2>6. r.unsent \in Seq(Waiting(w, f, a))
      BY <1>12
    <2> HIDE DEF f, a, x, g
    <2> QED
      BY <1>2, <2>1, <2>2, <2>3, <2>4, <2>5, <2>6 DEF InLine
  <1>16. LineSent(w, f, a, x, r, 1, k, b, m, g)
    BY <1>15, SendsInLine
  <1>17. CanSend(w, r, k, b, mk)
    <2>1. \A i \in 1 .. k : End(r.unsent[i]) <= SendUp(r, k).nxt
      <3>1. SendUp(r, k).nxt \in Nat /\ g <= SendUp(r, k).nxt
        BY <1>16 DEF LineSent
      <3>2. End(r.unsent[1]) <= SendUp(r, k).nxt
        BY <1>2, <1>10, <1>12, <3>1
      <3>3. \A i \in 1+1 .. k : End(r.unsent[i]) <= SendUp(r, k).nxt
        BY <1>16 DEF LineSent
      <3>4. \A i \in 1 .. k : i = 1 \/ i \in 1+1 .. k
        BY <1>12
      <3> QED
        BY <3>2, <3>3, <3>4
    <2>2. /\ SendUp(r, k).nxt \in Nat /\ g <= SendUp(r, k).nxt /\ SendUp(r, k).nxt <= Total(w, f)
          /\ SendUp(r, k).unacked \in Seq(Flying(w, f, a, x, SendUp(r, k).nxt))
          /\ Line(SendUp(r, k).unacked, b, mk)
      BY <1>16 DEF LineSent
    <2>3. k \in 0 .. Len(r.unsent)
      BY <1>1
    <2>4. r.unsent \in Seq(Waiting(w, f, a))
      BY <1>12
    <2> HIDE DEF f, a, x, g, mk
    <2> QED
      BY <1>3, <1>4, <1>5, <1>13, <1>14, <2>1, <2>2, <2>3, <2>4 DEF CanSend
  <1>18. SentAll(w, r, k)
    BY <1>17, SentKeeps
  <1>19. ASSUME NEW y \in Nat, Reaches(y, p) PROVE Reaches(y, o.pcb)
    <2>1. y <= g /\ g <= o.pcb.nxt /\ o.pcb.nxt \in Nat
      BY <1>1, <1>16, <1>18, <1>19 DEF SentAll, LineSent, Reaches
    <2> QED
      BY <1>2, <2>1 DEF Reaches
  <1> QED
    BY <1>1, <1>18, <1>19 DEF SentAll

-----------------------------------------------------------------------------
(* Acknowledgements. *)

(* What an acknowledgement leaves of a line is a line.                      *)
LEMMA AckLine ==
  ASSUME NEW S, NEW q \in Seq(S), Shaped(q), NEW a \in Nat, NEW b \in Nat, Line(q, a, b),
         NEW ack \in Nat
  PROVE  \E c \in Nat :
            /\ Unacked(q, ack) \in Seq(S) /\ Line(Unacked(q, ack), c, b)
            /\ \A i \in 1 .. Len(Unacked(q, ack)) : End(Unacked(q, ack)[i]) > ack
            /\ a <= ack => c <= ack
            /\ ack <= a => Unacked(q, ack) = q /\ c = a
  <1>1. PICK k \in 0 .. Len(q) :
            /\ Unacked(q, ack) = SubSeq(q, k + 1, Len(q))
            /\ \A i \in 1 .. k : End(q[i]) <= ack
            /\ k < Len(q) => End(q[k + 1]) > ack
    BY UnackedIsCut
  <1> DEFINE t == Unacked(q, ack)
             c == Cut(q, k, a)
  <1>2. Len(q) \in Nat /\ k \in Nat /\ k <= Len(q)
    OBVIOUS
  <1>3. /\ t \in Seq(S) /\ Len(t) = Len(q) - k /\ \A i \in 1 .. Len(q) - k : t[i] = q[k + i]
        /\ Line(t, c, b)
    BY <1>1, LineCut
  <1>4. \A i \in 1 .. Len(q) : q[i].seq \in Nat /\ End(q[i]) \in Nat /\ q[i].seq < End(q[i])
    BY DEF Shaped
  <1>5. /\ \A i \in 1 .. Len(q) : a <= q[i].seq /\ End(q[i]) <= b
        /\ \A i, j \in 1 .. Len(q) : i < j => End(q[i]) <= q[j].seq
    BY LineRises
  <1>6. c \in Nat
    BY <1>2, <1>4 DEF Cut
  <1>7. a <= ack => c <= ack
    BY <1>1, <1>2 DEF Cut
  <1>8. ack <= a => t = q /\ c = a
    <2>1. ASSUME ack <= a PROVE k = 0
      <3>1. CASE k > 0
        <4>1. 1 \in 1 .. k /\ 1 \in 1 .. Len(q)
          BY <1>2, <3>1
        <4>2. End(q[1]) <= ack /\ a <= q[1].seq /\ q[1].seq < End(q[1]) /\ q[1].seq \in Nat /\ End(q[1]) \in Nat
          BY <1>1, <1>4, <1>5, <4>1
        <4> QED
          BY <2>1, <4>2
      <3> QED
        BY <1>2, <3>1
    <2>2. SubSeq(q, 0 + 1, Len(q)) = q
      OBVIOUS
    <2> QED
      BY <1>1, <2>1, <2>2 DEF Cut
  <1> HIDE DEF t, c
  <1>9. ASSUME NEW i \in 1 .. Len(t) PROVE End(t[i]) > ack
    <2>1. k < Len(q) /\ k + i \in 1 .. Len(q) /\ k + 1 \in 1 .. Len(q) /\ t[i] = q[k + i]
      BY <1>2, <1>3
    <2>2. End(q[k + 1]) > ack /\ End(q[k + 1]) \in Nat
      BY <1>1, <1>4, <2>1
    <2>3. CASE i = 1
      BY <2>1, <2>2, <2>3
    <2>4. CASE i > 1
      <3>1. End(q[k + 1]) <= q[k + i].seq
        BY <1>2, <1>5, <2>1, <2>4
      <3>2. q[k + i].seq \in Nat /\ End(q[k + i]) \in Nat /\ q[k + i].seq < End(q[k + i])
        BY <1>4, <2>1
      <3> DEFINE z == q[k + i].seq
                 d == End(q[k + i])
                 y == End(q[k + 1])
      <3>3. z \in Nat /\ d \in Nat /\ y \in Nat /\ z < d /\ y <= z /\ y > ack
        BY <2>2, <3>1, <3>2
      <3>4. d > ack
        <4> HIDE DEF z, d, y
        <4> QED
          BY <3>3
      <3> QED
        BY <2>1, <3>4
    <2> QED
      BY <1>3, <2>3, <2>4
  <1> QED
    BY <1>3, <1>6, <1>7, <1>8, <1>9 DEF t

\* What Kept says of every segment of the two queues.
LEMMA KeptShaped ==
  ASSUME NEW w \in Nat, NEW p \in Pcbs, Kept(p, w)
  PROVE  /\ Shaped(p.unacked) /\ Shaped(p.unsent)
         /\ p.unacked \in Seq(Packets(w, p.fin)) /\ p.unsent \in Seq(Packets(w, p.fin))
         /\ p.unacked \in Seq(Waiting(w, p.fin, p.lastack))
  <1> DEFINE f == p.fin
             a == p.lastack
             x == p.wnd
             n == p.nxt
  <1>1. f \in BOOLEAN /\ a \in Nat /\ x \in Nat /\ n \in Nat
    BY DEF Pcbs
  <1>2. p.unacked \in Seq(Flying(w, f, a, x, n)) /\ p.unsent \in Seq(Waiting(w, f, a))
    BY DEF Kept
  <1> HIDE DEF f, a, x, n
  <1>3. /\ Flying(w, f, a, x, n) \subseteq Waiting(w, f, a) /\ Waiting(w, f, a) \subseteq Packets(w, f)
        /\ Flying(w, f, a, x, n) \subseteq Packets(w, f)
    BY <1>1, WaitingArePackets DEF WaitingFacts
  <1>4. /\ p.unacked \in Seq(Packets(w, f)) /\ p.unsent \in Seq(Packets(w, f))
        /\ p.unacked \in Seq(Waiting(w, f, a))
    BY <1>2, <1>3, SeqsGrow
  <1>5. Shaped(p.unacked) /\ Shaped(p.unsent)
    BY <1>1, <1>4, PacketsShaped
  <1> QED
    BY <1>4, <1>5 DEF f, a

\* An old acknowledgement covers nothing of the unsent queue.
LEMMA NoneAcked ==
  ASSUME NEW w \in Nat, NEW p \in Pcbs, Kept(p, w), NEW ack \in Nat, ack <= p.lastack
  PROVE  Unacked(p.unsent, ack) = p.unsent
  <1>1. Shaped(p.unsent) /\ p.unsent \in Seq(Bare) /\ p.lastack \in Nat
        /\ p.unsent \in Seq(Waiting(w, p.fin, p.lastack))
    BY KeptShaped DEF Pcbs, Kept
  <1>2. PICK k \in 0 .. Len(p.unsent) :
            /\ Unacked(p.unsent, ack) = SubSeq(p.unsent, k + 1, Len(p.unsent))
            /\ \A i \in 1 .. k : End(p.unsent[i]) <= ack
    BY <1>1, UnackedIsCut
  <1>3. k = 0
    <2>1. CASE k > 0
      <3>1. 1 \in 1 .. k /\ 1 \in 1 .. Len(p.unsent)
        BY <1>1, <2>1
      <3>2. End(p.unsent[1]) <= ack /\ End(p.unsent[1]) > p.lastack /\ End(p.unsent[1]) \in Nat
        BY <1>1, <1>2, <3>1 DEF Waiting, Shaped
      <3> QED
        BY <1>1, <3>2
    <2> QED
      BY <1>1, <2>1
  <1>4. SubSeq(p.unsent, 0 + 1, Len(p.unsent)) = p.unsent
    BY <1>1
  <1> QED
    BY <1>2, <1>3, <1>4

(* What tcp_receive does of an acknowledgement up to ack, and of the window *)
(* that came with it.                                                       *)
Cleared(p, r, ack) ==
    /\ r.unacked = Unacked(p.unacked, ack) /\ r.unsent = Unacked(p.unsent, ack)
    /\ r.nxt = p.nxt /\ r.lastack = ack /\ r.fin = p.fin
    /\ p.lastack + p.wnd <= ack + r.wnd

(* An acknowledgement takes off the segments it covers, and the line begins *)
(* later.                                                                   *)
LEMMA AckKeeps ==
  ASSUME NEW w \in Nat, NEW p \in Pcbs, Kept(p, w), NEW ack \in Nat,
         p.lastack <= ack, ack <= p.nxt, NEW r \in Pcbs, Cleared(p, r, ack)
  PROVE  Kept(r, w) /\ \A x \in Nat : Reaches(x, p) => Reaches(x, r)
  <1> DEFINE f == p.fin
             a == p.lastack
             x == p.wnd
             n == p.nxt
             y == r.wnd
             u == Unacked(p.unacked, ack)
             v == Unacked(p.unsent, ack)
             T == Total(w, f)
  <1>1. f \in BOOLEAN /\ a \in Nat /\ x \in Nat /\ n \in Nat /\ y \in Nat /\ T \in Nat
    BY DEF Pcbs, Total
  <1>2. /\ r.unacked = u /\ r.unsent = v /\ r.nxt = n /\ r.lastack = ack /\ r.fin = f
        /\ a + x <= ack + y
    BY DEF Cleared
  <1>3. PICK b, m \in Nat : b <= a /\ Line(p.unacked, b, m) /\ Line(p.unsent, m, T)
    BY DEF Kept
  <1>4. /\ p.unacked \in Seq(Flying(w, f, a, x, n)) /\ p.unsent \in Seq(Waiting(w, f, a)) /\ n <= T
    BY DEF Kept
  <1>5. Shaped(p.unacked) /\ Shaped(p.unsent)
    BY KeptShaped
  <1> HIDE DEF f, a, x, n, y, T
  <1>6. PICK c1 \in Nat :
            /\ u \in Seq(Flying(w, f, a, x, n)) /\ Line(u, c1, m)
            /\ \A i \in 1 .. Len(u) : End(u[i]) > ack
            /\ b <= ack => c1 <= ack
    BY <1>3, <1>4, <1>5, AckLine
  <1>7. PICK c2 \in Nat :
            /\ v \in Seq(Waiting(w, f, a)) /\ Line(v, c2, T)
            /\ \A i \in 1 .. Len(v) : End(v[i]) > ack
            /\ m <= ack => c2 <= ack
            /\ ack <= m => v = p.unsent /\ c2 = m
    BY <1>1, <1>3, <1>4, <1>5, AckLine
  <1>8. c1 <= ack
    BY <1>1, <1>3, <1>6 DEF a
  <1> HIDE DEF u, v
  <1>9. u \in Seq(Flying(w, f, ack, y, n))
    <2>1. ASSUME NEW i \in 1 .. Len(u) PROVE u[i] \in Flying(w, f, ack, y, n)
      <3>1. u[i] \in Flying(w, f, a, x, n) /\ End(u[i]) > ack
        BY <1>6
      <3>2. /\ u[i] \in Packets(w, f) /\ End(u[i]) <= n /\ u[i].seq + DataLen(u[i]) <= a + x
        BY <3>1 DEF Flying, Waiting
      <3> DEFINE s == u[i]
      <3>3. s.seq \in Nat /\ DataLen(s) \in Nat
        <4>1. s \in Packets(w, f)
          BY <3>2
        <4> HIDE DEF s
        <4> QED
          BY <1>1, <4>1, PacketFacts
      <3>4. s.seq + DataLen(s) <= ack + y
        <4>1. s.seq + DataLen(s) <= a + x
          BY <3>2
        <4> HIDE DEF s
        <4> QED
          BY <1>1, <1>2, <3>3, <4>1
      <3> QED
        BY <3>1, <3>2, <3>4 DEF Flying, Waiting
    <2> DEFINE F1 == Flying(w, f, a, x, n)
               F2 == Flying(w, f, ack, y, n)
    <2>2. u \in Seq(F1) /\ \A i \in 1 .. Len(u) : u[i] \in F2
      BY <1>6, <2>1
    <2> HIDE DEF F1, F2
    <2>3. u \in Seq(F2)
      BY <2>2
    <2> QED
      BY <2>3 DEF F2
  <1>10. v \in Seq(Waiting(w, f, ack))
    <2>1. ASSUME NEW i \in 1 .. Len(v) PROVE v[i] \in Waiting(w, f, ack)
      BY <1>7 DEF Waiting
    <2> DEFINE F1 == Waiting(w, f, a)
               F2 == Waiting(w, f, ack)
    <2>2. v \in Seq(F1) /\ \A i \in 1 .. Len(v) : v[i] \in F2
      BY <1>7, <2>1
    <2> HIDE DEF F1, F2
    <2>3. v \in Seq(F2)
      BY <2>2
    <2> QED
      BY <2>3 DEF F2
  <1>11. \E b2, m2 \in Nat : b2 <= ack /\ Line(u, b2, m2) /\ Line(v, m2, T)
    <2>1. CASE u = <<>>
      <3>1. c1 = m /\ Line(u, c2, c2)
        BY <1>6, <2>1 DEF Line
      <3> QED
        BY <1>7, <1>8, <3>1
    <2>2. CASE u # <<>>
      <3>1. Len(u) \in 1 .. Len(u) /\ End(u[Len(u)]) = m
        BY <1>6, <2>2 DEF Line
      <3>2. ack <= m
        BY <1>6, <3>1
      <3> QED
        BY <1>6, <1>7, <1>8, <3>2
    <2> QED
      BY <2>1, <2>2
  <1>12. Kept(r, w)
    <2>1. ack <= n
      BY DEF n
    <2> QED
      BY <1>2, <1>4, <1>9, <1>10, <1>11, <2>1 DEF Kept, T, y
  <1>13. ASSUME NEW z \in Nat, Reaches(z, p) PROVE Reaches(z, r)
    <2>1. CASE z <= n
      BY <1>2, <2>1 DEF Reaches
    <2>2. CASE p.unacked = <<>> /\ p.unsent # <<>> /\ z <= p.unsent[1].seq + 1 /\ ~(z <= n)
      <3>1. p.unsent[1].seq = m
        BY <1>3, <2>2 DEF Line
      <3>2. ack <= m
        BY <1>1, <2>2, <3>1 DEF n
      <3>3. v = p.unsent
        BY <1>7, <3>2
      <3>4. u = <<>>
        <4>1. DOMAIN p.unacked = {}
          BY <2>2
        <4>2. Unacked(<<>>, ack) = <<>>
          <5>1. PICK k \in 0 .. Len(<<>>) : Unacked(<<>>, ack) = SubSeq(<<>>, k + 1, Len(<<>>))
            <6>1. <<>> \in Seq(Nat) /\ Shaped(<<>>)
              BY DEF Shaped
            <6> QED
              BY <6>1, UnackedIsCut
          <5> QED
            BY <5>1
        <4> QED
          BY <2>2, <4>2 DEF u
      <3> QED
        BY <1>2, <2>2, <3>3, <3>4 DEF Reaches
    <2> QED
      BY <1>13, <2>1, <2>2 DEF Reaches, n
  <1> QED
    BY <1>12, <1>13

(* A window alone: taken back only when nothing is on the way.              *)
SameQueues(p, r) ==
    /\ r.unacked = p.unacked /\ r.unsent = p.unsent
    /\ r.nxt = p.nxt /\ r.lastack = p.lastack /\ r.fin = p.fin

(* A window that does not shrink, or with nothing on its way, leaves the    *)
(* queues as they should be.                                                *)
LEMMA WindowKeeps ==
  ASSUME NEW w \in Nat, NEW p \in Pcbs, Kept(p, w), NEW r \in Pcbs, SameQueues(p, r),
         p.wnd <= r.wnd \/ p.unacked = <<>>
  PROVE  Kept(r, w) /\ \A x \in Nat : Reaches(x, p) => Reaches(x, r)
  <1>1. /\ p.fin \in BOOLEAN /\ p.lastack \in Nat /\ p.nxt \in Nat /\ p.wnd \in Nat /\ r.wnd \in Nat
    BY DEF Pcbs
  <1>2. p.unacked \in Seq(Flying(w, p.fin, p.lastack, r.wnd, p.nxt))
    <2>1. CASE p.unacked = <<>>
      BY <2>1
    <2>2. CASE p.wnd <= r.wnd
      <3>1. p.nxt <= p.nxt
        BY <1>1
      <3>2. Flying(w, p.fin, p.lastack, p.wnd, p.nxt) \subseteq Flying(w, p.fin, p.lastack, r.wnd, p.nxt)
        BY <1>1, <2>2, <3>1, FlyingGrow
      <3>3. p.unacked \in Seq(Flying(w, p.fin, p.lastack, p.wnd, p.nxt))
        BY DEF Kept
      <3> QED
        BY <3>2, <3>3, SeqsGrow
    <2> QED
      BY <2>1, <2>2
  <1> QED
    BY <1>2 DEF Kept, SameQueues, Reaches

(* The rest of what holds of a pcb that is active, when w units are written *)
(* and the peer, who has read n of them, offers to take all before e.       *)
Within(x, e, n) == x <= e \/ x <= n

Rest(p, w, e, n) ==
    /\ p.wl1 = 0 /\ p.rcv = 0 /\ ~p.ackNow
    /\ p.state \in {"ESTABLISHED", "FIN_WAIT_1", "FIN_WAIT_2"}
    /\ p.state = "ESTABLISHED" => ~p.fin /\ p.lbb = w
    /\ p.state # "ESTABLISHED" => p.fin
    /\ p.lbb <= w + 1
    /\ p.lastack <= p.wl2 /\ p.wl2 <= n /\ Within(p.wl2 + p.wnd, e, n) /\ p.wnd <= Buf

Live(p, w, e, n) == p \in Pcbs /\ Kept(p, w) /\ Rest(p, w, e, n)

\* A message of a peer that has not closed.
Offer(m, e, n) ==
    /\ m.seq = 0 /\ ~m.fin /\ m.ack \in Nat /\ m.wnd \in Nat
    /\ m.ack <= n /\ Within(m.ack + m.wnd, e, n) /\ m.wnd <= Buf

\* One that acknowledges more takes nothing of the window back.
Newer(m, a, x) == a < m.ack => a + x <= m.ack + m.wnd

\* The window that a segment brings is taken only if none of it is taken back.
LEMMA WindowTaken ==
  ASSUME NEW w \in Nat, NEW e \in Nat, NEW n \in Nat, NEW p \in Pcbs, Rest(p, w, e, n),
         NEW m, Offer(m, e, n), Newer(m, p.wl2, p.wnd)
  PROVE  LET q == Window(p, m) IN
         /\ q \in Pcbs /\ SameQueues(p, q) /\ Rest(q, w, e, n)
         /\ q.state = p.state /\ q.lbb = p.lbb
         /\ \/ q.wl2 = p.wl2 /\ q.wnd = p.wnd /\ m.ack <= p.wl2
            \/ q.wl2 = m.ack /\ q.wnd = m.wnd /\ p.wl2 < m.ack /\ p.wl2 + p.wnd <= m.ack + m.wnd
            \/ q.wl2 = m.ack /\ q.wnd = m.wnd /\ p.wl2 = m.ack /\ p.wnd < m.wnd
  <1> DEFINE q == Window(p, m)
             N == [p EXCEPT !.wnd = m.wnd, !.wl1 = m.seq, !.wl2 = m.ack, !.persist = m.wnd = 0]
  <1>1. /\ m.seq = 0 /\ ~m.fin /\ m.ack \in Nat /\ m.wnd \in Nat
        /\ m.ack <= n /\ Within(m.ack + m.wnd, e, n) /\ m.wnd <= Buf
    BY DEF Offer
  <1>2. p.wl1 = 0 /\ p.wl2 \in Nat /\ p.wnd \in Nat /\ p.lastack \in Nat /\ p.lastack <= p.wl2
    BY DEF Rest, Pcbs
  <1>3. CASE NewWindow(p, m)
    <2>1. q = N
      BY <1>3 DEF Window
    <2>2. /\ N \in Pcbs /\ N.wl1 = 0 /\ N.wl2 = m.ack /\ N.wnd = m.wnd /\ SameQueues(p, N)
          /\ N.state = p.state /\ N.lbb = p.lbb /\ N.rcv = p.rcv /\ N.ackNow = p.ackNow
          /\ N.fin = p.fin /\ N.lastack = p.lastack
      <3> DEFINE x == m.wnd
                 y == m.seq
                 z == m.ack
                 t == m.wnd = 0
      <3>1. x \in Nat /\ y \in Nat /\ z \in Nat /\ t \in BOOLEAN /\ y = 0
        BY <1>1
      <3>2. N = [p EXCEPT !.wnd = x, !.wl1 = y, !.wl2 = z, !.persist = t]
        OBVIOUS
      <3> HIDE DEF x, y, z, t, N
      <3>3. N \in Pcbs
        BY <3>1, <3>2 DEF Pcbs
      <3>4. /\ N.wl1 = y /\ N.wl2 = z /\ N.wnd = x /\ SameQueues(p, N)
            /\ N.state = p.state /\ N.lbb = p.lbb /\ N.rcv = p.rcv /\ N.ackNow = p.ackNow
            /\ N.fin = p.fin /\ N.lastack = p.lastack
        BY <3>2 DEF Pcbs, SameQueues
      <3> QED
        BY <3>1, <3>3, <3>4 DEF x, z
    <2> HIDE DEF q, N
    <2>3. \/ p.wl2 < m.ack /\ p.wl2 + p.wnd <= m.ack + m.wnd
          \/ p.wl2 = m.ack /\ p.wnd < m.wnd
      BY <1>1, <1>2, <1>3 DEF NewWindow, Newer
    <2>4. Rest(N, w, e, n)
      BY <1>1, <1>2, <2>2, <2>3 DEF Rest
    <2> QED
      BY <2>1, <2>2, <2>3, <2>4 DEF q
  <1>4. CASE ~NewWindow(p, m)
    <2>1. q = p
      BY <1>4 DEF Window
    <2>2. m.ack <= p.wl2
      BY <1>1, <1>2, <1>4 DEF NewWindow
    <2> QED
      BY <2>1, <2>2 DEF SameQueues
  <1> QED
    BY <1>3, <1>4

\* The first unacknowledged segment goes before all that is unsent.
LEMMA RexmitFirst ==
  ASSUME NEW w \in Nat, NEW p \in Pcbs, Kept(p, w), p.unacked # <<>>
  PROVE  Rexmit(p) = [p EXCEPT !.unacked = Tail(@), !.nrtx = @ + 1,
                               !.unsent = <<Head(p.unacked)>> \o p.unsent]
  <1> DEFINE s == Head(p.unacked)
             u == p.unsent
             D == {i \in DOMAIN u : u[i].seq < s.seq}
             T == Total(w, p.fin)
  <1>1. p.unacked \in Seq(Bare) /\ u \in Seq(Bare) /\ p.fin \in BOOLEAN
    BY DEF Pcbs
  <1>2. PICK b, m \in Nat : Line(p.unacked, b, m) /\ Line(u, m, T)
    BY DEF Kept
  <1>3. Shaped(p.unacked) /\ Shaped(u)
    BY KeptShaped
  <1>4. T \in Nat
    BY <1>1 DEF Total
  <1>5. s.seq \in Nat /\ s.seq < m
    <2>1. Head(p.unacked) = p.unacked[1] /\ 1 \in 1 .. Len(p.unacked) /\ p.unacked[1].seq = b
      BY <1>1, <1>2 DEF Line
    <2>2. b < m
      BY <1>1, <1>2, <1>3, LineRises
    <2> QED
      BY <2>1, <2>2
  <1>6. \A i \in 1 .. Len(u) : m <= u[i].seq /\ u[i].seq \in Nat
    <2> HIDE DEF u, T
    <2>1. \A i \in 1 .. Len(u) : m <= u[i].seq
      BY <1>1, <1>2, <1>3, <1>4, LineRises
    <2> QED
      BY <1>3, <2>1 DEF Shaped
  <1>7. Cardinality(D) = 0
    <2>1. D = {}
      <3> HIDE DEF u, s
      <3> QED
        BY <1>1, <1>5, <1>6
    <2> HIDE DEF D
    <2> QED
      BY <2>1, FS_EmptySet
  <1>8. SubSeq(u, 1, 0) = <<>> /\ SubSeq(u, 0 + 1, Len(u)) = u
    <2> HIDE DEF u
    <2> QED
      BY <1>1
  <1>9. SubSeq(u, 1, 0) \o <<s>> \o SubSeq(u, 0 + 1, Len(u)) = <<s>> \o u
    <2> HIDE DEF u, s
    <2>1. <<>> \o <<s>> = <<s>>
      OBVIOUS
    <2> QED
      BY <1>8, <2>1
  <1>10. Rexmit(p) = [p EXCEPT !.unacked = Tail(@), !.nrtx = @ + 1,
                      !.unsent = SubSeq(u, 1, 0) \o <<s>> \o SubSeq(u, 0 + 1, Len(u))]
    BY <1>7 DEF Rexmit
  <1> QED
    BY <1>9, <1>10

(* What tcp_receive may make of p: its queues are one line again, or will   *)
(* be when tcp_output has sent the segment that tcp_rexmit took.            *)
Answered(p, q, m, w, e, n) ==
    /\ q \in Pcbs /\ Rest(q, w, e, n)
    /\ q.state = p.state /\ q.fin = p.fin /\ q.lbb = p.lbb
    /\ (q.wl2 = p.wl2 /\ q.wnd = p.wnd) \/ (q.wl2 = m.ack /\ q.wnd = m.wnd)
    /\ \/ /\ Kept(q, w)
          /\ \A x \in Nat : Reaches(x, p) => Reaches(x, q)
       \/ /\ q.lastack = p.lastack
          /\ \E r \in Pcbs : /\ Kept(r, w) /\ r.unacked # <<>> /\ Resent(r, q)
                             /\ \A x \in Nat : Reaches(x, p) => Reaches(x, r)

\* tcp_receive, new data acknowledged.
LEMMA AckedKeeps ==
  ASSUME NEW w \in Nat, NEW e \in Nat, NEW n \in Nat, NEW p, Live(p, w, e, n),
         NEW m, Offer(m, e, n), Newer(m, p.wl2, p.wnd), m.ack \in p.lastack + 1 .. p.nxt,
         NEW r, r = [Acked(Window(p, m), m.ack) EXCEPT !.unsent = Unacked(@, m.ack)]
  PROVE  Answered(p, r, m, w, e, n)
  <1> DEFINE q == Window(p, m)
             u == Unacked(q.unacked, m.ack)
             v == Unacked(q.unsent, m.ack)
             k == m.ack
             R == [q EXCEPT !.inFr = FALSE, !.nrtx = 0, !.lastack = k, !.unacked = u, !.unsent = v]
  <1>1. p \in Pcbs /\ Kept(p, w) /\ Rest(p, w, e, n)
    BY DEF Live
  <1>2. /\ q \in Pcbs /\ SameQueues(p, q) /\ Rest(q, w, e, n)
        /\ q.state = p.state /\ q.lbb = p.lbb
        /\ \/ q.wl2 = p.wl2 /\ q.wnd = p.wnd /\ k <= p.wl2
           \/ q.wl2 = k /\ q.wnd = m.wnd /\ p.wl2 < k /\ p.wl2 + p.wnd <= k + m.wnd
           \/ q.wl2 = k /\ q.wnd = m.wnd /\ p.wl2 = k /\ p.wnd < m.wnd
    BY <1>1, WindowTaken
  <1>3. /\ p.wl2 \in Nat /\ p.wnd \in Nat /\ p.lastack \in Nat /\ p.lastack <= p.wl2 /\ p.nxt \in Nat
        /\ k \in Nat /\ m.wnd \in Nat /\ p.lastack < k /\ k <= p.nxt
    BY <1>1 DEF Rest, Pcbs, Offer
  <1>4. r = R
    <2> HIDE DEF q, k
    <2>1. r = [Acked(q, k) EXCEPT !.unsent = Unacked(@, k)]
      BY DEF q, k
    <2> DEFINE A == [q EXCEPT !.inFr = FALSE, !.nrtx = 0, !.lastack = k, !.unacked = u]
    <2>2. Acked(q, k) = A
      BY <1>2 DEF Acked, Pcbs, k
    <2>3. A.unsent = q.unsent
      <3> HIDE DEF u
      <3> QED
        BY <1>2 DEF Pcbs
    <2>4. r = [A EXCEPT !.unsent = v]
      <3>1. v = Unacked(q.unsent, k)
        BY DEF k
      <3> HIDE DEF A, v
      <3> QED
        BY <2>1, <2>2, <2>3, <3>1
    <2> HIDE DEF u, v
    <2> QED
      BY <1>2, <2>4 DEF Pcbs
  <1>5. u \in Seq(Bare) /\ v \in Seq(Bare)
    <2>1. /\ q.unacked = p.unacked /\ q.unsent = p.unsent /\ Shaped(p.unacked) /\ Shaped(p.unsent)
          /\ p.unacked \in Seq(Bare) /\ p.unsent \in Seq(Bare)
      BY <1>1, <1>2, KeptShaped DEF SameQueues, Pcbs
    <2>2. PICK b, c \in Nat : Line(p.unacked, b, c) /\ Line(p.unsent, c, Total(w, p.fin))
      BY <1>1 DEF Kept
    <2>3. Total(w, p.fin) \in Nat
      BY DEF Total
    <2>4. Unacked(p.unacked, k) \in Seq(Bare)
      BY <1>3, <2>1, <2>2, AckLine
    <2>5. Unacked(p.unsent, k) \in Seq(Bare)
      <3> DEFINE T == Total(w, p.fin)
      <3>1. T \in Nat /\ Line(p.unsent, c, T)
        BY <2>2, <2>3
      <3> HIDE DEF T
      <3> QED
        BY <1>3, <2>1, <3>1, AckLine
    <2> QED
      BY <2>1, <2>4, <2>5
  <1> HIDE DEF q, u, v, k
  <1>6. R \in Pcbs
    BY <1>2, <1>3, <1>5 DEF Pcbs
  <1>7. /\ R.unacked = u /\ R.unsent = v /\ R.nxt = q.nxt /\ R.lastack = k /\ R.fin = q.fin
        /\ R.wnd = q.wnd /\ R.wl1 = q.wl1 /\ R.wl2 = q.wl2 /\ R.state = q.state /\ R.lbb = q.lbb
        /\ R.rcv = q.rcv /\ R.ackNow = q.ackNow
    BY <1>2 DEF Pcbs
  <1> HIDE DEF R
  <1>8. /\ q.unacked = p.unacked /\ q.unsent = p.unsent /\ q.nxt = p.nxt /\ q.lastack = p.lastack
        /\ q.fin = p.fin
    BY <1>2 DEF SameQueues
  <1>9. k <= R.wl2 /\ p.lastack + p.wnd <= k + R.wnd /\ R.wl2 \in Nat /\ R.wnd \in Nat
    <2>1. R.wl2 = q.wl2 /\ R.wnd = q.wnd
      BY <1>7
    <2>2. R.wl2 \in Nat /\ R.wnd \in Nat
      BY <1>6 DEF Pcbs
    <2> QED
      BY <1>2, <1>3, <2>1, <2>2
  <1>10. Rest(R, w, e, n)
    BY <1>2, <1>7, <1>9 DEF Rest
  <1>11. Cleared(p, R, k)
    <2>1. u = Unacked(p.unacked, k) /\ v = Unacked(p.unsent, k)
      BY <1>8 DEF u, v, k
    <2> QED
      BY <1>7, <1>8, <1>9, <2>1 DEF Cleared
  <1>12. Kept(R, w) /\ \A x \in Nat : Reaches(x, p) => Reaches(x, R)
    BY <1>1, <1>3, <1>6, <1>11, AckKeeps
  <1> QED
    BY <1>2, <1>4, <1>6, <1>7, <1>8, <1>10, <1>12 DEF Answered, k

(* tcp_receive, any segment of a peer that has not closed: a new            *)
(* acknowledgement, a duplicate or neither.                                 *)
LEMMA AckPartKeeps ==
  ASSUME NEW w \in Nat, NEW e \in Nat, NEW n \in Nat, NEW p, Live(p, w, e, n), Reaches(n, p),
         NEW m, Offer(m, e, n), Newer(m, p.wl2, p.wnd), NEW r \in AckPart(p, m)
  PROVE  Answered(p, r, m, w, e, n)
  <1> DEFINE q == Window(p, m)
             k == m.ack
             unqueued(t) == IF k <= p.nxt THEN [t EXCEPT !.unsent = Unacked(@, k)] ELSE t
  <1>1. p \in Pcbs /\ Kept(p, w) /\ Rest(p, w, e, n)
    BY DEF Live
  <1>2. /\ q \in Pcbs /\ SameQueues(p, q) /\ Rest(q, w, e, n)
        /\ q.state = p.state /\ q.lbb = p.lbb
        /\ \/ q.wl2 = p.wl2 /\ q.wnd = p.wnd /\ k <= p.wl2
           \/ q.wl2 = k /\ q.wnd = m.wnd /\ p.wl2 < k /\ p.wl2 + p.wnd <= k + m.wnd
           \/ q.wl2 = k /\ q.wnd = m.wnd /\ p.wl2 = k /\ p.wnd < m.wnd
    BY <1>1, WindowTaken
  <1>3. /\ p.wl2 \in Nat /\ p.wnd \in Nat /\ p.lastack \in Nat /\ p.lastack <= p.wl2 /\ p.nxt \in Nat
        /\ k \in Nat /\ m.wnd \in Nat /\ k <= n /\ p.lastack <= p.nxt
    BY <1>1 DEF Rest, Pcbs, Offer, Kept
  <1>4. /\ q.unacked = p.unacked /\ q.unsent = p.unsent /\ q.nxt = p.nxt /\ q.lastack = p.lastack
        /\ q.fin = p.fin
    BY <1>2 DEF SameQueues
  <1>5. CASE k \in p.lastack + 1 .. p.nxt
    <2>3. k <= p.nxt
      BY <1>3, <1>5
    <2>4. AckPart(p, m) = {unqueued(Acked(q, k))}
      <3>1. ~Duplicate(p, q, m)
        BY <1>3, <1>5 DEF Duplicate
      <3> QED
        BY <1>5, <3>1 DEF AckPart
    <2>1. r = unqueued(Acked(q, k)) /\ k <= p.nxt
      BY <2>3, <2>4
    <2>2. r = [Acked(q, k) EXCEPT !.unsent = Unacked(@, k)]
      BY <2>1
    <2> QED
      BY <1>5, <2>2, AckedKeeps
  <1>6. CASE ~(k \in p.lastack + 1 .. p.nxt)
    <2>1. k <= p.lastack \/ p.nxt < k
      BY <1>3, <1>6
    <2>2. p.wnd <= q.wnd \/ p.unacked = <<>>
      <3>1. CASE k <= p.lastack
        BY <1>2, <1>3, <3>1
      <3>2. CASE p.nxt < k
        BY <1>3, <3>2 DEF Reaches
      <3> QED
        BY <2>1, <3>1, <3>2
    <2>3. Kept(q, w) /\ \A x \in Nat : Reaches(x, p) => Reaches(x, q)
      <3> HIDE DEF q
      <3> QED
        BY <1>1, <1>2, <2>2, WindowKeeps
    <2>4. k <= p.nxt => Unacked(q.unsent, k) = q.unsent
      <3>1. k <= p.nxt => k <= q.lastack
        BY <1>3, <1>4, <2>1
      <3> HIDE DEF q, k
      <3> QED
        BY <1>2, <1>3, <2>3, <3>1, NoneAcked
    <2>5. unqueued(q) = q
      <3> HIDE DEF q, k
      <3> QED
        BY <1>2, <2>4 DEF Pcbs
    <2>6. Answered(p, q, m, w, e, n)
      <3> HIDE DEF q
      <3> QED
        BY <1>2, <1>4, <2>3 DEF Answered, k
    <2>7. CASE r = unqueued(q)
      BY <2>5, <2>6, <2>7
    <2>8. CASE Duplicate(p, q, m) /\ r = unqueued([Rexmit(q) EXCEPT !.inFr = TRUE])
      <3> DEFINE u == <<Head(q.unacked)>> \o q.unsent
                 v == Tail(q.unacked)
                 t == [q EXCEPT !.unacked = v, !.nrtx = @ + 1, !.unsent = u, !.inFr = TRUE]
      <3>1. k = p.lastack /\ q.unacked # <<>> /\ k <= p.nxt
        BY <1>3, <1>4, <2>8 DEF Duplicate
      <3>2. Rexmit(q) = [q EXCEPT !.unacked = v, !.nrtx = @ + 1, !.unsent = u]
        <4> HIDE DEF q
        <4> QED
          BY <1>2, <2>3, <3>1, RexmitFirst
      <3>3. [Rexmit(q) EXCEPT !.inFr = TRUE] = t
        <4> HIDE DEF u, v, q
        <4> QED
          BY <1>2, <3>2 DEF Pcbs
      <3>4. r = [t EXCEPT !.unsent = Unacked(@, k)]
        <4> HIDE DEF u, v, t, q
        <4> QED
          BY <2>8, <3>1, <3>3
      <3>5. Head(q.unacked) \in Bare /\ v \in Seq(Bare) /\ u \in Seq(Bare) /\ q.unsent \in Seq(Bare)
        <4>1. q.unacked \in Seq(Bare) /\ q.unsent \in Seq(Bare)
          BY <1>2 DEF Pcbs
        <4>2. Head(q.unacked) \in Bare /\ v \in Seq(Bare)
          <5> HIDE DEF q
          <5> QED
            BY <3>1, <4>1
        <4> HIDE DEF q
        <4> QED
          BY <4>1, <4>2
      <3>6. Unacked(u, k) = u
        <4> HIDE DEF q
        <4>1. Kept(q, w) /\ q \in Pcbs /\ q.unacked # <<>> /\ q.lastack = k
          BY <1>2, <1>4, <2>3, <3>1
        <4>2. Shaped(q.unacked) /\ Shaped(q.unsent)
          BY <4>1, KeptShaped
        <4>3. PICK b, c \in Nat : Line(q.unacked, b, c)
          BY <4>1 DEF Kept
        <4>4. /\ q.unacked \in Seq(Waiting(w, q.fin, k)) /\ q.unsent \in Seq(Waiting(w, q.fin, k))
          BY <4>1, KeptShaped DEF Kept
        <4>5. Head(q.unacked) = q.unacked[1] /\ 1 \in 1 .. Len(q.unacked)
          BY <3>5, <4>1, <4>4
        <4>6. End(Head(q.unacked)) > k
          BY <4>4, <4>5 DEF Waiting
        <4> DEFINE h == Head(q.unacked)
        <4>7. u[1] = h /\ u \in Seq(Bare) /\ Len(u) \in Nat \ {0}
          <5> HIDE DEF h
          <5>1. u = <<h>> \o q.unsent
            BY DEF h
          <5>2. h \in Bare /\ q.unsent \in Seq(Bare)
            BY <3>5 DEF h
          <5> HIDE DEF u
          <5>3. (<<h>> \o q.unsent)[1] = h /\ Len(<<h>> \o q.unsent) = Len(q.unsent) + 1
            BY <5>2
          <5>4. Len(q.unsent) \in Nat
            BY <5>2
          <5> QED
            BY <3>5, <5>1, <5>3, <5>4
        <4> HIDE DEF u, h
        <4> DEFINE D == {i \in DOMAIN u : \A j \in 1 .. i : End(u[j]) <= k}
        <4>8. D = {}
          <5>1. ASSUME NEW i \in D PROVE FALSE
            <6>1. i \in 1 .. Len(u) /\ \A j \in 1 .. i : End(u[j]) <= k
              BY <4>7
            <6>2. 1 \in 1 .. i
              BY <4>7, <6>1
            <6>3. End(h) <= k /\ End(h) > k /\ End(h) \in Nat
              <7>1. End(h) \in Nat
                BY <4>2, <4>5 DEF Shaped, h
              <7> QED
                BY <4>6, <4>7, <6>1, <6>2, <7>1 DEF h
            <6> QED
              BY <1>3, <6>3
          <5> QED
            BY <5>1
        <4>9. Cardinality(D) = 0
          <5> HIDE DEF D
          <5> QED
            BY <4>8, FS_EmptySet
        <4>10. Unacked(u, k) = SubSeq(u, 1 + 0, Len(u))
          BY <4>9 DEF Unacked
        <4>11. SubSeq(u, 1 + 0, Len(u)) = u
          BY <4>7
        <4> QED
          BY <4>10, <4>11
      <3>7. /\ t \in Pcbs /\ t.unacked = v /\ t.unsent = u /\ t.inFr /\ t.ackNow = q.ackNow
            /\ t.nxt = q.nxt /\ t.lastack = q.lastack /\ t.wnd = q.wnd /\ t.fin = q.fin
            /\ t.wl1 = q.wl1 /\ t.wl2 = q.wl2 /\ t.state = q.state /\ t.lbb = q.lbb /\ t.rcv = q.rcv
        <4> HIDE DEF u, v, q
        <4>1. q.nrtx + 1 \in Nat
          BY <1>2 DEF Pcbs
        <4> QED
          BY <1>2, <3>5, <4>1 DEF Pcbs
      <3>8. r = t
        <4> HIDE DEF u, v, t, q
        <4> QED
          BY <3>4, <3>6, <3>7 DEF Pcbs
      <3> HIDE DEF t
      <3>9. Resent(q, t)
        BY <1>2, <3>7 DEF Resent, Rest
      <3>10. Rest(t, w, e, n)
        <4> HIDE DEF q
        <4> QED
          BY <1>2, <3>7 DEF Rest
      <3> HIDE DEF q, u, v
      <3> QED
        BY <1>2, <1>4, <2>3, <3>1, <3>7, <3>8, <3>9, <3>10 DEF Answered, k
    <2> QED
      BY <1>6, <2>7, <2>8 DEF AckPart
  <1> QED
    BY <1>5, <1>6

-----------------------------------------------------------------------------
(* The application: tcp_write and tcp_close. *)

\* x is the line q but for its last segment, which is t, of the same sequence number.
LastIs(q, x, t, S, T) ==
    /\ q \in Seq(S) /\ q # <<>> /\ S \subseteq T /\ t \in T /\ t.seq = q[Len(q)].seq
    /\ x = [q EXCEPT ![Len(q)] = t]

LastBecomes(q, x, t, a, T) ==
    x \in Seq(T) /\ x # <<>> /\ Line(x, a, End(t)) /\ x[1].seq = q[1].seq

\* A line whose last segment is replaced by one that begins where it did.
LEMMA LastReplaced ==
  ASSUME NEW S, NEW q, NEW a, NEW b, Line(q, a, b), NEW T, NEW t, NEW x, LastIs(q, x, t, S, T)
  PROVE  LastBecomes(q, x, t, a, T)
  <1>0. /\ q \in Seq(S) /\ q # <<>> /\ S \subseteq T /\ t \in T /\ t.seq = q[Len(q)].seq
        /\ x = [q EXCEPT ![Len(q)] = t]
    BY DEF LastIs
  <1> DEFINE N == Len(q)
  <1>1. N \in Nat \ {0} /\ DOMAIN q = 1 .. N /\ \A i \in 1 .. N : q[i] \in S
    BY <1>0
  <1>2. q[1].seq = a /\ \A i \in 1 .. N - 1 : End(q[i]) = q[i+1].seq
    BY <1>0 DEF Line
  <1>3. /\ DOMAIN x = 1 .. N /\ x[N] = t /\ \A i \in 1 .. N : i # N => x[i] = q[i]
        /\ x = [i \in 1 .. N |-> x[i]]
    <2>1. x = [q EXCEPT ![N] = t] /\ N \in 1 .. N
      BY <1>0, <1>1
    <2> HIDE DEF N
    <2>2. x = [i \in DOMAIN q |-> IF i = N THEN t ELSE q[i]]
      BY <2>1
    <2> QED
      BY <1>1, <2>1, <2>2
  <1>4. x \in Seq(T) /\ Len(x) = N /\ x # <<>>
    <2>1. \A i \in 1 .. N : x[i] \in T
      <3> HIDE DEF N
      <3> QED
        BY <1>0, <1>1, <1>3
    <2>2. x \in [1 .. N -> T]
      <3> QED
        BY <1>3, <2>1
    <2> HIDE DEF N
    <2> QED
      BY <1>1, <2>2
  <1> HIDE DEF N
  <1>5. \A i \in 1 .. N : x[i].seq = q[i].seq
    BY <1>0, <1>3 DEF N
  <1>6. \A i \in 1 .. N - 1 : End(x[i]) = x[i+1].seq
    <2>1. ASSUME NEW i \in 1 .. N - 1 PROVE End(x[i]) = x[i+1].seq
      <3>1. i \in 1 .. N /\ i + 1 \in 1 .. N /\ i # N
        BY <1>1
      <3>2. x[i] = q[i] /\ x[i+1].seq = q[i+1].seq
        BY <1>3, <1>5, <3>1
      <3> QED
        BY <1>2, <3>2
    <2> QED
      BY <2>1
  <1>7. x[1].seq = q[1].seq
    BY <1>1, <1>5
  <1> QED
    BY <1>2, <1>3, <1>4, <1>6, <1>7 DEF Line, N, LastBecomes

(* New segments make a line, of packets.                                    *)
LEMMA SegmentsLine ==
  ASSUME NEW w \in Nat, NEW a \in Nat, a <= w
  PROVE  Segments(a, w) \in Seq({s \in Packets(w, FALSE) : End(s) > a}) /\ Line(Segments(a, w), a, w)
  <1> DEFINE d == w - a
             N == (w - a + Mss - 1) \div Mss
             z == Segments(a, w)
             at(j) == a + (j - 1) * Mss
             len(j) == Min({Mss, w - a - (j - 1) * Mss})
             P == {s \in Packets(w, FALSE) : End(s) > a}
  <1>0. Mss \in Nat \ {0} /\ d \in Nat
    BY StreamAssumption
  <1>1. z = [j \in 1 .. N |-> [seq |-> at(j), data |-> [i \in 1 .. len(j) |-> at(j) + i]]]
    BY DEF Segments
  <1>2. CASE d = 0
    <2>1. N = 0
      <3>1. w - a + Mss - 1 = Mss - 1
        BY <1>0, <1>2
      <3>2. (Mss - 1) \div Mss = 0
        BY <1>0
      <3> QED
        BY <3>1, <3>2
    <2> HIDE DEF z, N, at, len
    <2>2. z = <<>> /\ a = w
      BY <1>0, <1>1, <1>2, <2>1
    <2> QED
      BY <2>2 DEF Line, z
  <1>3. CASE d # 0
    <2>1. N \in Nat \ {0} /\ (N - 1) * Mss < d /\ d <= N * Mss
      <3>1. d \in Nat \ {0} /\ N = (d + Mss - 1) \div Mss
        BY <1>0, <1>3
      <3> HIDE DEF d, N
      <3> QED
        BY <1>0, <3>1, Pieces
    <2>2. ASSUME NEW j \in 1 .. N
          PROVE  /\ (j - 1) * Mss \in Nat /\ (j - 1) * Mss < d /\ at(j) \in Nat /\ a <= at(j)
                 /\ len(j) \in Nat \ {0} /\ len(j) <= Mss /\ at(j) + len(j) <= w
                 /\ j < N => at(j) + len(j) = at(j + 1)
                 /\ j = N => at(j) + len(j) = w
      <3> HIDE DEF N
      <3>1. j - 1 \in Nat /\ N - 1 \in Nat /\ j - 1 <= N - 1 /\ Mss \in Nat /\ j \in Nat
        BY <1>0, <2>1
      <3>2. (j - 1) * Mss <= (N - 1) * Mss /\ (j - 1) * Mss \in Nat
        BY <3>1, Multiples
      <3>3. (N - 1) * Mss \in Nat /\ ((N - 1) + 1) * Mss = (N - 1) * Mss + Mss /\ (N - 1) + 1 = N
        BY <2>1, <3>1, Multiples
      <3>4. ((j - 1) + 1) * Mss = (j - 1) * Mss + Mss /\ (j - 1) + 1 = j
        BY <3>1, Multiples
      <3>5. j < N => j * Mss <= (N - 1) * Mss
        <4>1. j < N => j <= N - 1
          BY <2>1, <3>1
        <4> QED
          BY <3>1, <4>1, Multiples
      <3> DEFINE x == (j - 1) * Mss
                 y == (N - 1) * Mss
      <3>6. x \in Nat /\ y \in Nat /\ x <= y /\ y < d /\ d <= y + Mss /\ j * Mss = x + Mss
            /\ (j < N => x + Mss <= y) /\ (j = N => x = y)
        BY <2>1, <3>2, <3>3, <3>4, <3>5
      <3>7. len(j) = IF Mss <= d - x THEN Mss ELSE d - x
        <4>1. d - x \in Int /\ Mss \in Int
          BY <1>0, <3>6
        <4> HIDE DEF x, d
        <4>2. Min({Mss, d - x}) = IF Mss <= d - x THEN Mss ELSE d - x
          BY <4>1, MinOfTwo
        <4> QED
          BY <4>2 DEF x, d
      <3>8. at(j) = a + x /\ at(j + 1) = a + (x + Mss)
        <4>1. (j + 1) - 1 = j
          BY <3>1
        <4>2. at(j + 1) = a + j * Mss
          BY <4>1
        <4> HIDE DEF x
        <4> QED
          BY <3>6, <4>2 DEF x
      <3>9. w = a + d
        BY <1>0
      <3> HIDE DEF x, y, d, at, len
      <3>10. x < d
        BY <1>0, <3>6
      <3> QED
        BY <1>0, <3>1, <3>6, <3>7, <3>8, <3>9, <3>10 DEF x
    <2> HIDE DEF N, d, at, len
    <2>3. ASSUME NEW j \in 1 .. N
          PROVE  z[j] \in P /\ z[j].seq = at(j) /\ End(z[j]) = at(j) + len(j)
      <3> DEFINE l == len(j)
                 c == at(j)
                 D == [i \in 1 .. l |-> c + i]
      <3>1. l \in Nat \ {0} /\ l <= Mss /\ c \in Nat /\ c + l <= w /\ a <= c
        BY <2>2
      <3>2. z[j] = [seq |-> c, data |-> D]
        <4> HIDE DEF z
        <4> QED
          BY <1>1
      <3> HIDE DEF l, c, z
      <3>3. D \in Seq(Nat) /\ Len(D) = l /\ D # <<>> /\ \A i \in 1 .. l : D[i] = c + i
        BY <3>1
      <3> HIDE DEF D
      <3> DEFINE s == z[j]
      <3>4. s.seq = c /\ s.data = D /\ End(s) = c + l /\ s \in Bare
        <4>1. s.seq = c /\ s.data = D
          BY <3>2
        <4> HIDE DEF s
        <4>2. End(s) = c + l
          BY <3>3, <4>1 DEF End
        <4>3. s \in Bare
          BY <3>1, <3>2, <3>3 DEF Bare, s
        <4> QED
          BY <4>1, <4>2, <4>3
      <3>5. ASSUME NEW i \in 1 .. Len(s.data) PROVE s.data[i] = Unit(s.seq + i - 1, w)
        <4>1. i \in 1 .. l /\ s.data[i] = c + i /\ s.seq = c
          BY <3>3, <3>4
        <4>2. c + i - 1 < w /\ (c + i - 1) + 1 = c + i
          BY <3>1, <4>1
        <4> QED
          BY <4>1, <4>2 DEF Unit
      <3>6. DataLen(s) <= Mss
        <4>1. Mss \in Nat
          BY <1>0
        <4> QED
          BY <3>1, <3>3, <3>4, <4>1 DEF DataLen
      <3>7. s.seq + Len(s.data) <= Total(w, FALSE)
        BY <3>1, <3>3, <3>4 DEF Total
      <3> HIDE DEF s
      <3>8. s \in Packets(w, FALSE)
        BY <3>3, <3>4, <3>5, <3>6, <3>7 DEF Packets
      <3>9. End(s) > a
        BY <3>1, <3>4
      <3> QED
        BY <3>4, <3>8, <3>9 DEF s, c, l
    <2>4. z \in Seq(P) /\ Len(z) = N /\ z # <<>>
      <3>1. z \in [1 .. N -> P]
        <4>1. DOMAIN z = 1 .. N /\ z = [j \in 1 .. N |-> z[j]]
          <5> HIDE DEF z
          <5> QED
            BY <1>1
        <4> HIDE DEF z, P
        <4> QED
          BY <2>3, <4>1
      <3> HIDE DEF z, P
      <3> QED
        BY <2>1, <3>1
    <2>5. Line(z, a, w)
      <3>1. 1 \in 1 .. N /\ N \in 1 .. N
        BY <2>1
      <3>2. at(1) = a
        <4>1. (1 - 1) * Mss = 0
          BY <1>0
        <4> QED
          BY <4>1 DEF at
      <3>3. z[1].seq = a /\ End(z[Len(z)]) = w
        BY <2>2, <2>3, <2>4, <3>1, <3>2
      <3>4. ASSUME NEW i \in 1 .. Len(z) - 1 PROVE End(z[i]) = z[i+1].seq
        <4>1. i \in 1 .. N /\ i + 1 \in 1 .. N /\ i < N
          BY <2>1, <2>4
        <4> HIDE DEF z, P
        <4> QED
          BY <2>2, <2>3, <4>1
      <3> HIDE DEF z
      <3> QED
        BY <2>4, <3>3, <3>4 DEF Line
    <2> QED
      BY <2>4, <2>5
  <1> QED
    BY <1>2, <1>3

\* What waits goes on waiting when more is written, or the FIN is queued.
LEMMA WaitingGrow ==
  ASSUME NEW w \in Nat, NEW f \in BOOLEAN, NEW w2 \in Nat, NEW f2 \in BOOLEAN,
         w <= w2, f => f2 /\ w2 = w, NEW a, NEW x, NEW n
  PROVE  /\ Waiting(w, f, a) \subseteq Waiting(w2, f2, a)
         /\ Flying(w, f, a, x, n) \subseteq Flying(w2, f2, a, x, n)
  <1>1. Packets(w, f) \subseteq Packets(w2, f2)
    BY PacketsGrow
  <1> QED
    BY <1>1 DEF Waiting, Flying

\* A packet of a stream that is not closed, with more behind it.
LongerBy(s, x, w, k, more) ==
    /\ s \in Packets(w, FALSE) /\ End(s) = w
    /\ more \in Nat /\ more <= k /\ Len(s.data) + more <= Mss
    /\ x = [s EXCEPT !.data = @ \o [i \in 1 .. more |-> w + i]]

LongerIs(s, x, w, k, more) ==
    x \in Packets(w + k, FALSE) /\ x.seq = s.seq /\ End(x) = w + more

\* tcp_write fills a segment up: it is a packet of the longer stream.
LEMMA Extended ==
  ASSUME NEW w \in Nat, NEW k \in Nat, NEW s, NEW x, NEW more, LongerBy(s, x, w, k, more)
  PROVE  LongerIs(s, x, w, k, more)
  <1> DEFINE E == [i \in 1 .. more |-> w + i]
  <1>0. /\ s \in Packets(w, FALSE) /\ End(s) = w
        /\ more \in Nat /\ more <= k /\ Len(s.data) + more <= Mss
        /\ x = [s EXCEPT !.data = @ \o E]
    BY DEF LongerBy
  <1> DEFINE D == s.data \o E
             t == [s EXCEPT !.data = D]
             l == Len(s.data)
  <1>1. /\ s \in Bare /\ s.data \in Seq(Nat) /\ s.seq \in Nat /\ l \in Nat \ {0}
        /\ s.seq + l = w
    <2>1. s \in Bare /\ l \in Nat \ {0} /\ s.seq \in Nat /\ End(s) = s.seq + l
      BY <1>0, PacketFacts
    <2> QED
      BY <1>0, <2>1 DEF Bare
  <1>2. s \in Packets(w + k, FALSE)
    <2>1. w <= w + k /\ w + k \in Nat
      OBVIOUS
    <2> QED
      BY <1>0, <2>1, PacketsGrow
  <1>3. \A i \in 1 .. l : s.data[i] = Unit(s.seq + i - 1, w + k)
    BY <1>2 DEF Packets
  <1>4. E \in Seq(Nat) /\ Len(E) = more /\ \A i \in 1 .. more : E[i] = w + i
    BY <1>0
  <1>5. /\ D \in Seq(Nat) /\ Len(D) = l + more
        /\ \A i \in 1 .. l + more : D[i] = IF i <= l THEN s.data[i] ELSE E[i - l]
    <2> DEFINE d == s.data
    <2>1. d \in Seq(Nat)
      BY <1>1
    <2> HIDE DEF d
    <2>2. d \o E \in Seq(Nat) /\ Len(d \o E) = Len(d) + Len(E)
          /\ \A i \in 1 .. Len(d) + Len(E) : (d \o E)[i] = IF i <= Len(d) THEN d[i] ELSE E[i - Len(d)]
      BY <1>4, <2>1, ConcatProperties
    <2> QED
      BY <1>4, <2>2 DEF d
  <1> HIDE DEF D
  <1>6. t.seq = s.seq /\ t.data = D /\ t \in Bare
    BY <1>1, <1>5 DEF Bare
  <1>t. t = x
    BY <1>0 DEF D
  <1> HIDE DEF t, l
  <1>7. End(t) = w + more
    <2>1. t.seq = s.seq /\ Len(t.data) = l + more
      BY <1>5, <1>6
    <2>2. s.seq \in Nat /\ l \in Nat /\ s.seq + l = w /\ more \in Nat
      BY <1>0, <1>1 DEF l
    <2> HIDE DEF E
    <2> QED
      BY <2>1, <2>2 DEF End
  <1>8. ASSUME NEW i \in 1 .. Len(t.data) PROVE t.data[i] = Unit(t.seq + i - 1, w + k)
    <2>1. i \in 1 .. l + more
      BY <1>5, <1>6
    <2>2. CASE i <= l
      <3>1. i \in 1 .. l
        BY <1>1, <2>1, <2>2
      <3> QED
        BY <1>3, <1>5, <1>6, <2>1, <2>2, <3>1
    <2>3. CASE ~(i <= l)
      <3>1. i - l \in 1 .. more
        <4>1. more \in Nat /\ l \in Nat
          BY <1>0, <1>1 DEF l
        <4> QED
          BY <4>1, <2>1, <2>3
      <3>2. D[i] = w + (i - l)
        BY <1>4, <1>5, <2>1, <2>3, <3>1
      <3> HIDE DEF E
      <3>3. t.seq + i - 1 < w + k /\ (t.seq + i - 1) + 1 = w + (i - l)
        <4>1. t.seq = s.seq /\ s.seq \in Nat /\ l \in Nat /\ s.seq + l = w /\ i \in Nat
          BY <1>1, <1>6, <2>1 DEF l
        <4>2. i - l \in Nat /\ i - l <= k
          BY <1>0, <3>1
        <4> DEFINE c == t.seq
        <4>3. c \in Nat /\ c + l = w
          BY <4>1
        <4> HIDE DEF D, c
        <4>4. c + i - 1 < w + k /\ (c + i - 1) + 1 = w + (i - l)
          BY <4>1, <4>2, <4>3
        <4> QED
          BY <4>4 DEF c
      <3> QED
        BY <1>6, <3>2, <3>3 DEF Unit
    <2> QED
      BY <2>2, <2>3
  <1>9. DataLen(t) <= Mss
    <2>1. Mss \in Nat /\ Len(t.data) = l + more
      BY <1>5, <1>6, StreamAssumption
    <2> QED
      BY <1>0, <1>1, <2>1 DEF DataLen, l
  <1>10. t.seq + Len(t.data) <= Total(w + k, FALSE) /\ t.data # <<>>
    BY <1>0, <1>1, <1>5, <1>6 DEF Total
  <1> QED
    BY <1>6, <1>7, <1>8, <1>9, <1>10, <1>t DEF Packets, LongerIs

\* q holds all that waits of a stream of w units, la of them acknowledged.
Queue(q, m, w, la) ==
    /\ w \in Nat /\ la \in Nat /\ la <= w /\ m \in Nat
    /\ q \in Seq(Waiting(w, FALSE, la)) /\ Line(q, m, w)

SameHead(q, x) == q # <<>> => x # <<>> /\ x[1].seq = q[1].seq

(* tcp_write, the last segment filled up and new ones behind it: still one  *)
(* line, to its new end.                                                    *)
LEMMA QueuedLine ==
  ASSUME NEW w, NEW k \in Nat, NEW la, NEW q, NEW m, Queue(q, m, w, la)
  PROVE  Queue(Queued(q, w, w + k), m, w + k, la) /\ SameHead(q, Queued(q, w, w + k))
  <1> SUFFICES
        ASSUME w \in Nat, la \in Nat, la <= w, m \in Nat, q \in Seq(Waiting(w, FALSE, la)),
               Line(q, m, w)
        PROVE  LET x == Queued(q, w, w + k) IN
               /\ x \in Seq(Waiting(w + k, FALSE, la)) /\ Line(x, m, w + k)
               /\ q # <<>> => x # <<>> /\ x[1].seq = q[1].seq
    <2>1. w \in Nat /\ la \in Nat /\ la <= w => w + k \in Nat /\ la <= w + k
      OBVIOUS
    <2> QED
      BY <2>1 DEF Queue, SameHead
  <1> DEFINE space == IF q = <<>> THEN 0 ELSE Mss - Len(q[Len(q)].data)
             more == Min({space, (w + k) - w})
             last == q[Len(q)]
             E == [i \in 1 .. more |-> w + i]
             t == [last EXCEPT !.data = @ \o E]
             y == IF more = 0 THEN q ELSE [q EXCEPT ![Len(q)] = t]
             z == Segments(w + more, w + k)
             A == Waiting(w, FALSE, la)
             B == Waiting(w + k, FALSE, la)
  <1>1. Queued(q, w, w + k) = y \o z
    BY DEF Queued
  <1>2. A \subseteq B /\ w + k \in Nat
    <2>1. w + k \in Nat /\ w <= w + k
      OBVIOUS
    <2> QED
      BY <2>1, WaitingGrow
  <1>3. q # <<>> => /\ last \in A /\ last \in Packets(w, FALSE) /\ End(last) = w
                    /\ Len(last.data) \in Nat \ {0} /\ Len(last.data) <= Mss
    <2>1. ASSUME q # <<>>
          PROVE  /\ last \in A /\ last \in Packets(w, FALSE) /\ End(last) = w
                 /\ Len(last.data) \in Nat \ {0} /\ Len(last.data) <= Mss
      <3>1. last \in A /\ End(last) = w
        <4>1. Len(q) \in 1 .. Len(q)
          BY <2>1
        <4>2. q[Len(q)] \in A
          <5>1. q \in Seq(A)
            OBVIOUS
          <5> HIDE DEF A
          <5> QED
            BY <4>1, <5>1
        <4> QED
          BY <2>1, <4>2 DEF Line
      <3>2. last \in Packets(w, FALSE)
        BY <3>1 DEF Waiting
      <3> HIDE DEF last
      <3>3. Len(last.data) \in Nat \ {0} /\ ~HasFin(last) /\ DataLen(last) <= Mss
        <4>1. /\ Len(last.data) \in Nat \ {0} /\ (HasFin(last) <=> End(last) = w + 1)
              /\ DataLen(last) <= Mss
          BY <3>2, PacketFacts
        <4> QED
          BY <3>1, <4>1
      <3> QED
        BY <3>1, <3>2, <3>3 DEF DataLen
    <2> QED
      BY <2>1
  <1>4. space \in Nat /\ (w + k) - w = k /\ Mss \in Nat
    <2>1. Mss \in Nat
      BY StreamAssumption
    <2>2. q # <<>> => Len(q[Len(q)].data) \in Nat /\ Len(q[Len(q)].data) <= Mss
      BY <1>3
    <2> QED
      BY <2>1, <2>2
  <1>5. more \in Nat /\ more <= k /\ more <= space
    <2> HIDE DEF space
    <2>1. Min({space, (w + k) - w}) = IF space <= (w + k) - w THEN space ELSE (w + k) - w
      <3>1. space \in Int /\ (w + k) - w \in Int
        BY <1>4
      <3> QED
        BY <3>1, MinOfTwo
    <2> QED
      BY <1>4, <2>1
  <1> HIDE DEF more
  <1>6. /\ y \in Seq(B) /\ Line(y, m, w + more)
        /\ q # <<>> => y # <<>> /\ y[1].seq = q[1].seq
    <2>1. CASE more = 0
      <3>1. q \in Seq(B)
        <4> HIDE DEF A, B
        <4>1. q \in Seq(A)
          BY DEF A
        <4> QED
          BY <1>2, <4>1, SeqsGrow
      <3>2. w + more = w /\ y = q
        BY <2>1
      <3> HIDE DEF y
      <3> QED
        BY <3>1, <3>2
    <2>2. CASE more # 0
      <3>1. q # <<>>
        BY <1>5, <2>2
      <3>2. Len(last.data) + more <= Mss
        BY <1>3, <1>4, <1>5, <3>1
      <3>3. t \in Packets(w + k, FALSE) /\ t.seq = last.seq /\ End(t) = w + more
        <4>1. last \in Packets(w, FALSE) /\ End(last) = w
          BY <1>3, <3>1
        <4>2. LongerBy(last, t, w, k, more)
          <5> HIDE DEF last
          <5> QED
            BY <1>5, <3>2, <4>1 DEF LongerBy, t
        <4>3. LongerIs(last, t, w, k, more)
          <5> HIDE DEF last, t
          <5> QED
            BY <4>2, Extended
        <4> QED
          BY <4>3 DEF LongerIs
      <3> HIDE DEF t, space
      <3>4. t \in B
        <4>1. End(t) > la
          BY <1>5, <2>2, <3>3
        <4> QED
          BY <3>3, <4>1 DEF Waiting
      <3>5. y = [q EXCEPT ![Len(q)] = t]
        BY <2>2
      <3> DEFINE v == [q EXCEPT ![Len(q)] = t]
      <3>6. v \in Seq(B) /\ v # <<>> /\ Line(v, m, End(t)) /\ v[1].seq = q[1].seq
        <4>1. q \in Seq(A) /\ t.seq = q[Len(q)].seq /\ Line(q, m, w)
          BY <3>3
        <4>2. LastIs(q, v, t, A, B)
          <5> HIDE DEF A, B
          <5> QED
            BY <1>2, <3>1, <3>4, <4>1 DEF LastIs
        <4>3. LastBecomes(q, v, t, m, B)
          <5> HIDE DEF A, B, v, last
          <5> QED
            BY <4>1, <4>2, LastReplaced
        <4> HIDE DEF v, B
        <4> QED
          BY <4>3 DEF LastBecomes
      <3> HIDE DEF v, y
      <3> QED
        BY <3>3, <3>5, <3>6 DEF v
    <2> QED
      BY <2>1, <2>2
  <1>7. z \in Seq(B) /\ Line(z, w + more, w + k)
    <2> DEFINE P == {s \in Packets(w + k, FALSE) : End(s) > w + more}
    <2>1. w + more \in Nat /\ w + more <= w + k
      BY <1>5
    <2>2. z \in Seq(P) /\ Line(z, w + more, w + k)
      BY <1>2, <2>1, SegmentsLine
    <2>3. P \subseteq B
      <3>1. ASSUME NEW s \in P PROVE s \in B
        <4>1. s \in Packets(w + k, FALSE) /\ End(s) > w + more
          OBVIOUS
        <4>2. End(s) \in Nat
          BY <1>2, <4>1, PacketFacts
        <4>3. End(s) > la
          BY <1>5, <4>1, <4>2
        <4> QED
          BY <4>1, <4>3 DEF Waiting
      <3> QED
        BY <3>1
    <2> HIDE DEF P, B, z
    <2> QED
      BY <2>2, <2>3, SeqsGrow
  <1> HIDE DEF y, z
  <1>8. y \o z \in Seq(B) /\ Line(y \o z, m, w + k)
    <2> HIDE DEF B
    <2> QED
      BY <1>6, <1>7, LineJoin
  <1>9. q # <<>> => y \o z # <<>> /\ (y \o z)[1] = y[1]
    <2>1. ASSUME q # <<>> PROVE y \o z # <<>> /\ (y \o z)[1] = y[1]
      <3> HIDE DEF B
      <3>1. Len(y) \in Nat \ {0} /\ Len(z) \in Nat
        BY <1>6, <1>7, <2>1
      <3>2. Len(y \o z) = Len(y) + Len(z) /\ (y \o z)[1] = y[1]
        BY <1>6, <1>7, <3>1
      <3>3. Len(y \o z) # 0
        BY <3>1, <3>2
      <3> QED
        BY <3>2, <3>3
    <2> QED
      BY <2>1
  <1> QED
    BY <1>1, <1>6, <1>8, <1>9

\* What a call leaves alone, and how far it lets units have gone.
Called(p, q) ==
    /\ q.lastack = p.lastack /\ q.wl2 = p.wl2 /\ q.wnd = p.wnd
    /\ \A y \in Nat : Reaches(y, p) => Reaches(y, q)

\* tcp_write leaves a pcb as it should be.
LEMMA WriteKeeps ==
  ASSUME NEW w \in Nat, NEW e \in Nat, NEW n \in Nat, NEW p, Live(p, w, e, n),
         p.state = "ESTABLISHED", NEW k \in Nat
  PROVE  LET q == TcpWrite(p, k) IN
         Live(q, w + k, e, n) /\ Called(p, q) /\ q.state = p.state /\ q.fin = p.fin
  <1> DEFINE v == Queued(p.unsent, w, w + k)
             l == w + k
             q == [p EXCEPT !.unsent = v, !.lbb = l]
             a == p.lastack
  <1>1. p \in Pcbs /\ Kept(p, w) /\ Rest(p, w, e, n)
    BY DEF Live
  <1>2. p.lbb = w /\ p.fin = FALSE
    BY <1>1 DEF Rest, Pcbs
  <1>3. TcpWrite(p, k) = q
    BY <1>2 DEF TcpWrite
  <1>4. a \in Nat /\ p.wnd \in Nat /\ p.nxt \in Nat /\ p.unsent \in Seq(Bare)
        /\ p.unacked \in Seq(Bare) /\ l \in Nat
    BY <1>1 DEF Pcbs
  <1>5. Total(w, FALSE) = w /\ Total(l, FALSE) = l
    BY <1>4 DEF Total
  <1>6. PICK b, m \in Nat : b <= a /\ Line(p.unacked, b, m) /\ Line(p.unsent, m, w)
    BY <1>1, <1>2, <1>5 DEF Kept
  <1>7. /\ p.unacked \in Seq(Flying(w, FALSE, a, p.wnd, p.nxt))
        /\ p.unsent \in Seq(Waiting(w, FALSE, a)) /\ a <= p.nxt /\ p.nxt <= w /\ a <= w
    <2>1. /\ p.unacked \in Seq(Flying(w, FALSE, a, p.wnd, p.nxt))
          /\ p.unsent \in Seq(Waiting(w, FALSE, a)) /\ a <= p.nxt /\ p.nxt <= w
      BY <1>1, <1>2, <1>5 DEF Kept
    <2>2. a <= w
      <3> HIDE DEF a
      <3> QED
        BY <1>4, <2>1
    <2> QED
      BY <2>1, <2>2
  <1>8. /\ v \in Seq(Waiting(l, FALSE, a)) /\ Line(v, m, l)
        /\ p.unsent # <<>> => v # <<>> /\ v[1].seq = p.unsent[1].seq
    <2>1. Queue(p.unsent, m, w, a)
      BY <1>4, <1>6, <1>7 DEF Queue
    <2>2. Queue(v, m, l, a) /\ SameHead(p.unsent, v)
      <3> HIDE DEF a
      <3> QED
        BY <2>1, QueuedLine
    <2> HIDE DEF v, l, a
    <2> QED
      BY <2>2 DEF Queue, SameHead
  <1> HIDE DEF a
  <1> HIDE DEF v
  <1>9. p.unacked \in Seq(Flying(l, FALSE, a, p.wnd, p.nxt))
    <2>1. w <= l
      BY <1>4
    <2> HIDE DEF l
    <2>2. Flying(w, FALSE, a, p.wnd, p.nxt) \subseteq Flying(l, FALSE, a, p.wnd, p.nxt)
      <3> DEFINE f == FALSE
      <3>1. f \in BOOLEAN /\ ~f
        OBVIOUS
      <3> HIDE DEF f
      <3>2. Flying(w, f, a, p.wnd, p.nxt) \subseteq Flying(l, f, a, p.wnd, p.nxt)
        BY <1>4, <2>1, <3>1, WaitingGrow
      <3> QED
        BY <3>2 DEF f
    <2> DEFINE F1 == Flying(w, FALSE, a, p.wnd, p.nxt)
               F2 == Flying(l, FALSE, a, p.wnd, p.nxt)
    <2>3. p.unacked \in Seq(F1) /\ F1 \subseteq F2
      BY <1>7, <2>2 DEF a
    <2> HIDE DEF F1, F2
    <2>4. p.unacked \in Seq(F2)
      BY <2>3, SeqsGrow
    <2> QED
      BY <2>4 DEF F2
  <1>10. v \in Seq(Bare)
    <2>1. Waiting(l, FALSE, a) \subseteq Bare
      BY <1>4 DEF Waiting, Packets, a
    <2> HIDE DEF l
    <2> QED
      BY <1>8, <2>1, SeqsGrow
  <1>11. q \in Pcbs
    <2> HIDE DEF l
    <2> QED
      BY <1>1, <1>4, <1>10 DEF Pcbs
  <1>12. /\ q.unsent = v /\ q.unacked = p.unacked /\ q.lbb = l /\ q.nxt = p.nxt /\ q.lastack = p.lastack
         /\ q.fin = p.fin /\ q.wnd = p.wnd /\ q.wl1 = p.wl1 /\ q.wl2 = p.wl2 /\ q.state = p.state
         /\ q.rcv = p.rcv /\ q.ackNow = p.ackNow
    BY <1>1 DEF Pcbs
  <1> HIDE DEF q
  <1>13. Kept(q, l)
    <2>1. p.nxt <= l
      BY <1>4, <1>7
    <2> QED
      BY <1>2, <1>5, <1>6, <1>7, <1>8, <1>9, <1>12, <2>1 DEF Kept, a
  <1>14. Rest(q, l, e, n)
    <2>1. l <= l + 1
      BY <1>4
    <2> HIDE DEF l
    <2> QED
      BY <1>1, <1>2, <1>12, <2>1 DEF Rest
  <1>15. ASSUME NEW y \in Nat, Reaches(y, p) PROVE Reaches(y, q)
    <2> QED
      BY <1>8, <1>12, <1>15 DEF Reaches
  <1> QED
    BY <1>3, <1>11, <1>12, <1>13, <1>14, <1>15 DEF Live, Called

\* A segment that ends where the stream does takes the FIN.
LEMMA WithFin ==
  ASSUME NEW w \in Nat, NEW s \in Packets(w, FALSE), End(s) = w,
         NEW x, x = [s EXCEPT !.data = Append(@, Fin)]
  PROVE  x \in Packets(w, TRUE) /\ x.seq = s.seq /\ End(x) = w + 1
  <1> DEFINE d == Append(s.data, 0)
             l == Len(s.data)
  <1>1. /\ s \in Bare /\ s.data \in Seq(Nat) /\ s.seq \in Nat /\ l \in Nat \ {0} /\ s.seq + l = w
        /\ ~HasFin(s) /\ DataLen(s) <= Mss
    <2>1. /\ s \in Bare /\ l \in Nat \ {0} /\ s.seq \in Nat /\ End(s) = s.seq + l
          /\ (HasFin(s) <=> End(s) = w + 1) /\ DataLen(s) <= Mss
      BY PacketFacts
    <2> QED
      BY <2>1 DEF Bare
  <1>2. \A i \in 1 .. l : s.data[i] = Unit(s.seq + i - 1, w)
    BY DEF Packets
  <1>3. d \in Seq(Nat) /\ Len(d) = l + 1 /\ d[l + 1] = 0 /\ \A i \in 1 .. l : d[i] = s.data[i]
    BY <1>1
  <1>4. x.seq = s.seq /\ x.data = d /\ x \in Bare
    BY <1>1, <1>3 DEF Bare, Fin
  <1> HIDE DEF d, l
  <1>5. ASSUME NEW i \in 1 .. l + 1 PROVE d[i] = Unit(s.seq + i - 1, w)
    <2>1. CASE i = l + 1
      <3>1. ~(s.seq + i - 1 < w)
        BY <1>1, <2>1
      <3> QED
        BY <1>3, <2>1, <3>1 DEF Unit, Fin
    <2>2. CASE i # l + 1
      <3>1. i \in 1 .. l
        BY <1>1, <2>2
      <3> QED
        BY <1>2, <1>3, <3>1
    <2> QED
      BY <2>1, <2>2
  <1>6. DataLen(x) <= Mss
    <2>1. HasFin(x)
      <3>1. x.data # <<>>
        BY <1>1, <1>3, <1>4
      <3> QED
        BY <1>3, <1>4, <3>1 DEF HasFin, Fin
    <2>2. DataLen(s) = l
      BY <1>1 DEF DataLen, l
    <2>3. Len(x.data) - 1 = l
      BY <1>1, <1>3, <1>4
    <2> QED
      BY <1>1, <2>1, <2>2, <2>3 DEF DataLen
  <1>7. End(x) = w + 1 /\ x.seq + Len(x.data) <= Total(w, TRUE) /\ x.data # <<>>
    <2>1. x.data # <<>> /\ Len(x.data) = l + 1
      BY <1>1, <1>3, <1>4
    <2>2. x.seq + Len(x.data) = s.seq + (l + 1)
      BY <1>4, <2>1
    <2>3. s.seq + (l + 1) = w + 1
      <3> DEFINE b == s.seq
      <3>1. b \in Nat /\ l \in Nat /\ b + l = w
        BY <1>1
      <3> HIDE DEF b
      <3>2. b + (l + 1) = w + 1
        BY <3>1
      <3> QED
        BY <3>2 DEF b
    <2>4. Total(w, TRUE) = w + 1 /\ w + 1 <= w + 1
      BY DEF Total
    <2> QED
      BY <2>1, <2>2, <2>3, <2>4 DEF End
  <1> QED
    BY <1>3, <1>4, <1>5, <1>6, <1>7 DEF Packets

\* A segment of the FIN alone.
LEMMA OnlyFin ==
  ASSUME NEW w \in Nat, NEW x, x = [seq |-> w, data |-> <<Fin>>]
  PROVE  x \in Packets(w, TRUE) /\ x.seq = w /\ End(x) = w + 1
  <1>1. x.seq = w /\ x.data = <<0>> /\ Len(x.data) = 1 /\ x.data[1] = 0 /\ x \in Bare
    BY DEF Bare, Fin
  <1>2. DataLen(x) = 0 /\ Mss \in Nat \ {0}
    BY <1>1, StreamAssumption DEF DataLen, HasFin, Fin
  <1>3. \A i \in 1 .. 1 : x.data[i] = Unit(x.seq + i - 1, w)
    BY <1>1 DEF Unit, Fin
  <1>4. End(x) = w + 1 /\ x.seq + Len(x.data) <= Total(w, TRUE)
    BY <1>1 DEF End, Total
  <1>5. x.data # <<>> /\ DataLen(x) <= Mss
    BY <1>1, <1>2
  <1> QED
    BY <1>1, <1>3, <1>4, <1>5 DEF Packets

\* The segments of a closed stream are those of an open one, and more.
LEMMA FinGrows ==
  ASSUME NEW w \in Nat, NEW a, NEW x, NEW n
  PROVE  /\ Waiting(w, FALSE, a) \subseteq Waiting(w, TRUE, a)
         /\ Flying(w, FALSE, a, x, n) \subseteq Flying(w, TRUE, a, x, n)
  <1> DEFINE f == FALSE
             t == TRUE
  <1>1. f \in BOOLEAN /\ ~f /\ t \in BOOLEAN /\ w <= w
    OBVIOUS
  <1> HIDE DEF f, t
  <1>2. /\ Waiting(w, f, a) \subseteq Waiting(w, t, a)
        /\ Flying(w, f, a, x, n) \subseteq Flying(w, t, a, x, n)
    BY <1>1, WaitingGrow
  <1> QED
    BY <1>2 DEF f, t

(* What tcp_send_fin makes of the unsent queue.                             *)
Finished(p, v, w) ==
    /\ v \in Seq(Waiting(w, TRUE, p.lastack))
    /\ \A m \in Nat : Line(p.unsent, m, w) => Line(v, m, w + 1)
    /\ SameHead(p.unsent, v)

\* A line with the FIN at its end is as it should be, in FIN_WAIT_1.
LEMMA FinishedKeeps ==
  ASSUME NEW w \in Nat, NEW e \in Nat, NEW n \in Nat, NEW p, Live(p, w, e, n),
         p.state = "ESTABLISHED", NEW v, Finished(p, v, w), NEW l \in w .. w + 1,
         NEW q, q = [p EXCEPT !.unsent = v, !.lbb = l, !.fin = TRUE, !.state = "FIN_WAIT_1"]
  PROVE  Live(q, w, e, n) /\ Called(p, q) /\ q.fin
  <1> DEFINE a == p.lastack
  <1>1. p \in Pcbs /\ Kept(p, w) /\ Rest(p, w, e, n)
    BY DEF Live
  <1>2. p.fin = FALSE
    BY <1>1 DEF Rest, Pcbs
  <1>3. a \in Nat /\ p.wnd \in Nat /\ p.nxt \in Nat /\ l \in Nat /\ l <= w + 1
    BY <1>1 DEF Pcbs
  <1>4. Total(w, FALSE) = w /\ Total(w, TRUE) = w + 1
    BY DEF Total
  <1>5. PICK b, m \in Nat : b <= a /\ Line(p.unacked, b, m) /\ Line(p.unsent, m, w)
    BY <1>1, <1>2, <1>4 DEF Kept
  <1>6. v \in Seq(Waiting(w, TRUE, a)) /\ Line(v, m, w + 1) /\ SameHead(p.unsent, v)
    BY <1>5 DEF Finished
  <1>7. p.unacked \in Seq(Flying(w, TRUE, a, p.wnd, p.nxt))
    <2> DEFINE F1 == Flying(w, FALSE, a, p.wnd, p.nxt)
               F2 == Flying(w, TRUE, a, p.wnd, p.nxt)
    <2>1. p.unacked \in Seq(F1)
      BY <1>1, <1>2 DEF Kept
    <2>2. F1 \subseteq F2
      BY FinGrows
    <2> HIDE DEF F1, F2
    <2>3. p.unacked \in Seq(F2)
      BY <2>1, <2>2, SeqsGrow
    <2> QED
      BY <2>3 DEF F2
  <1>8. v \in Seq(Bare)
    <2> DEFINE F == Waiting(w, TRUE, a)
    <2>1. F \subseteq Bare /\ v \in Seq(F)
      BY <1>6 DEF Waiting, Packets
    <2> HIDE DEF F
    <2> QED
      BY <2>1, SeqsGrow
  <1>9. q \in Pcbs
    BY <1>1, <1>3, <1>8 DEF Pcbs, States
  <1>10. /\ q.unsent = v /\ q.unacked = p.unacked /\ q.lbb = l /\ q.nxt = p.nxt
         /\ q.lastack = p.lastack /\ q.fin = TRUE /\ q.wnd = p.wnd /\ q.wl1 = p.wl1
         /\ q.wl2 = p.wl2 /\ q.state = "FIN_WAIT_1" /\ q.rcv = p.rcv /\ q.ackNow = p.ackNow
    BY <1>1 DEF Pcbs
  <1>11. Kept(q, w)
    <2>1. a <= p.nxt /\ p.nxt <= w + 1
      <3>1. a <= p.nxt /\ p.nxt <= w
        BY <1>1, <1>2, <1>4 DEF Kept
      <3> QED
        BY <1>3, <3>1
    <2> QED
      BY <1>4, <1>5, <1>6, <1>7, <1>10, <2>1 DEF Kept
  <1>12. Rest(q, w, e, n)
    BY <1>1, <1>3, <1>10 DEF Rest
  <1>13. ASSUME NEW y \in Nat, Reaches(y, p) PROVE Reaches(y, q)
    BY <1>6, <1>10, <1>13 DEF Reaches, SameHead
  <1> QED
    BY <1>9, <1>10, <1>11, <1>12, <1>13 DEF Live, Called

(* Both ways of tcp_send_fin, on the last segment or one of its own, put    *)
(* the FIN at the end of the line.                                          *)
LEMMA FinishedSegment ==
  ASSUME NEW w \in Nat, NEW p \in Pcbs, p.lastack <= w,
         p.unsent \in Seq(Waiting(w, FALSE, p.lastack)),
         NEW m \in Nat, Line(p.unsent, m, w)
  PROVE  LET u == p.unsent
             x == [u EXCEPT ![Len(u)].data = Append(@, Fin)]
         IN /\ u # <<>> => Finished(p, x, w)
            /\ Finished(p, Append(u, [seq |-> w, data |-> <<Fin>>]), w)
  <1> DEFINE a == p.lastack
             u == p.unsent
             A == Waiting(w, FALSE, a)
             B == Waiting(w, TRUE, a)
  <1>1. A \subseteq B /\ u \in Seq(A) /\ u \in Seq(Bare) /\ a \in Nat /\ a < w + 1
    <2>1. A \subseteq B
      BY FinGrows
    <2>2. p.lastack \in Nat /\ p.unsent \in Seq(Bare)
      BY DEF Pcbs
    <2>3. a \in Nat /\ a <= w
      BY <2>2
    <2>4. a < w + 1
      <3> HIDE DEF a
      <3> QED
        BY <2>3
    <2> QED
      BY <2>1, <2>2, <2>4
  <1>2. ASSUME u # <<>> PROVE Finished(p, [u EXCEPT ![Len(u)].data = Append(@, Fin)], w)
    <2> DEFINE s == u[Len(u)]
               t == [s EXCEPT !.data = Append(@, Fin)]
               x == [u EXCEPT ![Len(u)] = t]
    <2>1. s \in A /\ s \in Packets(w, FALSE) /\ End(s) = w
      <3>1. Len(u) \in 1 .. Len(u)
        BY <1>1, <1>2
      <3>2. s \in A
        <4> HIDE DEF A, u
        <4> QED
          BY <1>1, <3>1
      <3>3. End(s) = w
        BY <1>2 DEF Line
      <3> QED
        BY <3>2, <3>3 DEF Waiting
    <2>2. t \in Packets(w, TRUE) /\ t.seq = s.seq /\ End(t) = w + 1
      <3> HIDE DEF s
      <3> QED
        BY <2>1, WithFin
    <2> HIDE DEF t
    <2>3. t \in B
      BY <1>1, <2>2 DEF Waiting
    <2>4. LastIs(u, x, t, A, B)
      <3> HIDE DEF A, B
      <3> QED
        BY <1>1, <1>2, <2>2, <2>3 DEF LastIs
    <2> HIDE DEF x
    <2>5. ASSUME NEW c \in Nat, Line(u, c, w)
          PROVE  x \in Seq(B) /\ Line(x, c, w + 1) /\ SameHead(u, x)
      <3>1. LastBecomes(u, x, t, c, B)
        <4> HIDE DEF A, B, u
        <4> QED
          BY <2>4, <2>5, LastReplaced
      <3> HIDE DEF B
      <3> QED
        BY <2>2, <3>1 DEF LastBecomes, SameHead
    <2>6. x \in Seq(B) /\ SameHead(u, x)
      BY <2>5
    <2>7. Finished(p, x, w)
      BY <2>5, <2>6 DEF Finished
    <2> QED
      BY <2>7 DEF x, t
  <1>3. Finished(p, Append(u, [seq |-> w, data |-> <<Fin>>]), w)
    <2> DEFINE s == [seq |-> w, data |-> <<Fin>>]
    <2>1. s \in Packets(w, TRUE) /\ s.seq = w /\ End(s) = w + 1
      BY OnlyFin
    <2> HIDE DEF s
    <2>2. s \in B
      BY <1>1, <2>1 DEF Waiting
    <2>3. u \in Seq(B) /\ <<s>> \in Seq(B)
      <3> HIDE DEF A, B, u
      <3> QED
        BY <1>1, <2>2, SeqsGrow
    <2>4. Append(u, s) = u \o <<s>>
      <3> HIDE DEF A, B, u
      <3> QED
        BY <2>3
    <2>5. Line(<<s>>, w, w + 1)
      BY <2>1 DEF Line
    <2>6. ASSUME NEW c \in Nat, Line(u, c, w) PROVE Line(Append(u, s), c, w + 1)
      <3> HIDE DEF A, B, u
      <3> QED
        BY <2>3, <2>4, <2>5, <2>6, LineJoin
    <2>7. Append(u, s) \in Seq(B) /\ SameHead(u, Append(u, s))
      <3> HIDE DEF A, B, u
      <3>1. Append(u, s) \in Seq(B)
        BY <2>2, <2>3
      <3>2. ASSUME u # <<>> PROVE Append(u, s) # <<>> /\ Append(u, s)[1].seq = u[1].seq
        <4>1. Append(u, s)[1] = u[1] /\ Len(Append(u, s)) = Len(u) + 1 /\ Len(u) \in Nat
          BY <2>2, <2>3, <3>2
        <4> QED
          BY <4>1
      <3> QED
        BY <3>1, <3>2 DEF SameHead
    <2>8. Finished(p, Append(u, s), w)
      <3> HIDE DEF s
      <3> QED
        BY <2>6, <2>7 DEF Finished
    <2> QED
      BY <2>8 DEF s
  <1> QED
    BY <1>2, <1>3

\* tcp_close leaves a pcb as it should be.
LEMMA FinKeeps ==
  ASSUME NEW w \in Nat, NEW e \in Nat, NEW n \in Nat, NEW p, Live(p, w, e, n),
         p.state = "ESTABLISHED", NEW q \in TcpClose(p)
  PROVE  Live(q, w, e, n) /\ Called(p, q) /\ q.fin
  <1> DEFINE u == p.unsent
             N == Len(u)
             v1 == [u EXCEPT ![N].data = Append(@, Fin)]
             v2 == Append(u, [seq |-> w, data |-> <<Fin>>])
  <1>1. p \in Pcbs /\ Kept(p, w) /\ Rest(p, w, e, n)
    BY DEF Live
  <1>2. p.fin = FALSE /\ p.lbb = w /\ u \in Seq(Bare)
    BY <1>1 DEF Rest, Pcbs
  <1>3. (u # <<>> => Finished(p, v1, w)) /\ Finished(p, v2, w)
    <2>1. PICK m \in Nat : Line(u, m, Total(w, FALSE))
      BY <1>1, <1>2 DEF Kept
    <2>2. Total(w, FALSE) = w
      BY DEF Total
    <2>3. p.unsent \in Seq(Waiting(w, FALSE, p.lastack)) /\ p.lastack <= w
      <3>1. /\ p.unsent \in Seq(Waiting(w, FALSE, p.lastack))
            /\ p.lastack <= p.nxt /\ p.nxt <= w /\ p.lastack \in Nat /\ p.nxt \in Nat
        BY <1>1, <1>2, <2>2 DEF Kept, Pcbs
      <3> DEFINE a == p.lastack
                 x == p.nxt
      <3>2. a \in Nat /\ x \in Nat /\ a <= x /\ x <= w
        BY <3>1
      <3>3. a <= w
        <4> HIDE DEF a, x
        <4> QED
          BY <3>2
      <3> QED
        BY <3>1, <3>3
    <2>4. Line(p.unsent, m, w)
      BY <2>1, <2>2
    <2> QED
      BY <1>1, <2>3, <2>4, FinishedSegment
  <1>4. PICK r \in SendFin(p) :
           q = [r EXCEPT !.state = IF @ = "ESTABLISHED" THEN "FIN_WAIT_1" ELSE "LAST_ACK"]
    BY DEF TcpClose
  <1>5. CASE N > 0 /\ ~HasFin(u[N])
    <2>1. r = [p EXCEPT !.unsent[N].data = Append(@, Fin), !.fin = TRUE]
      BY <1>4, <1>5 DEF SendFin
    <2>2. q = [p EXCEPT !.unsent = v1, !.lbb = w, !.fin = TRUE, !.state = "FIN_WAIT_1"]
      <3>1. r = [p EXCEPT !.unsent = v1, !.fin = TRUE]
        BY <2>1
      <3> HIDE DEF v1
      <3>2. r.state = "ESTABLISHED"
        BY <1>1, <3>1 DEF Pcbs
      <3> QED
        BY <1>1, <1>2, <1>4, <3>1, <3>2 DEF Pcbs
    <2>3. Finished(p, v1, w) /\ w \in w .. w + 1
      BY <1>2, <1>3, <1>5
    <2> HIDE DEF v1
    <2> QED
      BY <2>2, <2>3, FinishedKeeps
  <1>6. CASE ~(N > 0 /\ ~HasFin(u[N]))
    <2>1. r = [p EXCEPT !.unsent = v2, !.lbb = w + 1, !.fin = TRUE]
      BY <1>2, <1>4, <1>6 DEF SendFin
    <2> HIDE DEF v2
    <2>2. q = [p EXCEPT !.unsent = v2, !.lbb = w + 1, !.fin = TRUE, !.state = "FIN_WAIT_1"]
      <3>1. r.state = "ESTABLISHED"
        BY <1>1, <2>1 DEF Pcbs
      <3> QED
        BY <1>1, <1>4, <2>1, <3>1 DEF Pcbs
    <2>3. w + 1 \in w .. w + 1
      OBVIOUS
    <2> QED
      BY <1>3, <2>2, <2>3, FinishedKeeps
  <1> QED
    BY <1>5, <1>6

(* What a callback may make of p, with w units written.                     *)
Asked(p, c, w, e, n) ==
    /\ c.n \in Nat /\ w + c.n <= MaxData
    /\ Live(c.pcb, w + c.n, e, n) /\ Called(p, c.pcb)
    /\ p.fin => c.pcb.fin /\ c.n = 0

\* Whatever a callback asks for.
LEMMA CallsKeep ==
  ASSUME written \in 0 .. MaxData, NEW e \in Nat, NEW n \in Nat, NEW p, Live(p, written, e, n),
         NEW c \in Calls(p)
  PROVE  Asked(p, c, written, e, n)
  <1>0. written \in Nat /\ MaxData \in Nat /\ written <= MaxData
    BY StreamAssumption
  <1>1. p \in Pcbs /\ Kept(p, written) /\ Rest(p, written, e, n)
    BY DEF Live
  <1>2. CASE Open(p)
    <2>1. p.state = "ESTABLISHED" /\ ~p.fin /\ p.lbb = written
      BY <1>1, <1>2 DEF Open, Rest
    <2>2. PICK k \in 0 .. Min({SndBufLeft(p), MaxData - written}) :
             \E q \in {TcpWrite(p, k)} \cup TcpClose(TcpWrite(p, k)) : c = [pcb |-> q, n |-> k]
      BY <1>2 DEF Calls
    <2>3. PICK q \in {TcpWrite(p, k)} \cup TcpClose(TcpWrite(p, k)) : c = [pcb |-> q, n |-> k]
      BY <2>2
    <2>4. k \in Nat /\ written + k <= MaxData
      <3> DEFINE b == SndBufLeft(p)
                 d == MaxData - written
      <3>1. b \in Int /\ d \in Int
        <4>1. p.lbb \in Nat /\ p.lastack \in Nat
          BY <1>1 DEF Pcbs
        <4>2. b \in Int
          BY <4>1, StreamAssumption DEF SndBufLeft
        <4> QED
          BY <1>0, <4>2
      <3> HIDE DEF b, d
      <3>2. Min({b, d}) = IF b <= d THEN b ELSE d
        BY <3>1, MinOfTwo
      <3>3. k \in 0 .. Min({b, d})
        BY DEF b, d
      <3>4. k \in Nat /\ k <= d
        BY <3>1, <3>2, <3>3
      <3> QED
        BY <1>0, <3>4 DEF d
    <2> DEFINE x == TcpWrite(p, k)
               l == written + k
    <2>5. Live(x, l, e, n) /\ Called(p, x) /\ x.state = "ESTABLISHED"
      BY <1>0, <2>1, <2>4, WriteKeeps
    <2>6. l \in Nat
      BY <1>0, <2>4
    <2>7. Live(q, l, e, n) /\ Called(p, q)
      <3> HIDE DEF x, l
      <3>1. q = x \/ q \in TcpClose(x)
        BY <2>3 DEF x
      <3>2. q \in TcpClose(x) => Live(q, l, e, n) /\ Called(x, q)
        BY <2>5, <2>6, FinKeeps
      <3> QED
        BY <2>5, <3>1, <3>2 DEF Called
    <2> QED
      BY <2>1, <2>3, <2>4, <2>7 DEF Asked
  <1>3. CASE ~Open(p)
    <2>1. c = [pcb |-> p, n |-> 0]
      BY <1>3 DEF Calls
    <2>2. written + 0 = written
      BY <1>0
    <2> QED
      BY <1>0, <2>1, <2>2 DEF Asked, Called
  <1> QED
    BY <1>2, <1>3

-----------------------------------------------------------------------------
(* The steps of the board. *)

(* What o makes of p, when w2 units are written behind it.                  *)
Follows(p, o, w, w2, e, n) ==
    /\ w2 \in Nat /\ w <= w2 /\ w2 <= MaxData
    /\ Live(o.pcb, w2, e, n)
    /\ \A y \in Nat : Reaches(y, p) => Reaches(y, o.pcb)
    /\ \A s \in o.out : Sendable(s, w2, o.pcb)
    /\ p.fin => o.pcb.fin /\ w2 = w

SameWindow(p, q) == q.wl2 = p.wl2 /\ q.wnd = p.wnd

\* tcp_output leaves what holds of every pcb as it was.
LEMMA AlikeRest ==
  ASSUME NEW w, NEW e, NEW n, NEW p, NEW q, Rest(p, w, e, n), Alike(p, q)
  PROVE  Rest(q, w, e, n) /\ SameWindow(p, q) /\ q.fin = p.fin
  BY DEF Rest, Alike, SameWindow

\* What a callback asks for, and tcp_output behind it.
LEMMA AskedFollows ==
  ASSUME NEW w \in Nat, NEW e \in Nat, NEW n \in Nat, NEW p, NEW c, Asked(p, c, w, e, n),
         NEW o \in Output(c.pcb)
  PROVE  Follows(p, o, w, w + c.n, e, n) /\ SameWindow(p, o.pcb)
  <1> DEFINE q == c.pcb
             l == w + c.n
  <1>1. c.n \in Nat /\ l <= MaxData /\ Live(q, l, e, n) /\ Called(p, q)
        /\ (p.fin => q.fin /\ c.n = 0)
    BY DEF Asked
  <1>2. l \in Nat /\ w <= l /\ (c.n = 0 => l = w)
    BY <1>1
  <1>3. q \in Pcbs /\ Kept(q, l) /\ Rest(q, l, e, n) /\ ~q.ackNow
    BY <1>1 DEF Live, Rest
  <1>4. Sends(q, o, l)
    <2> HIDE DEF q, l
    <2>1. o \in Output(q)
      BY DEF q
    <2> QED
      BY <1>2, <1>3, <2>1, OutputKeeps
  <1> HIDE DEF q, l
  <1>5. /\ o.pcb \in Pcbs /\ Alike(q, o.pcb) /\ Kept(o.pcb, l)
        /\ \A x \in Nat : Reaches(x, q) => Reaches(x, o.pcb)
        /\ \A m \in o.out : Sendable(m, l, o.pcb)
    BY <1>4 DEF Sends
  <1>6. Rest(o.pcb, l, e, n) /\ SameWindow(q, o.pcb) /\ o.pcb.fin = q.fin
    BY <1>3, <1>5, AlikeRest
  <1>7. Follows(p, o, w, l, e, n)
    BY <1>1, <1>2, <1>5, <1>6 DEF Follows, Live, Called
  <1> QED
    BY <1>1, <1>6, <1>7 DEF SameWindow, Called, l

(* tcp_process of a segment without a FIN: only FIN_WAIT_1 may be left, for *)
(* FIN_WAIT_2.                                                              *)
LEMMA ProcessKeeps ==
  ASSUME NEW w, NEW e, NEW n, NEW q \in Pcbs, Rest(q, w, e, n), NEW m, m.seq = 0, ~m.fin
  PROVE  /\ FinPart(q, m) = q
         /\ \/ Process(q, m) = q
            \/ q.state = "FIN_WAIT_1" /\ Process(q, m) = [q EXCEPT !.state = "FIN_WAIT_2"]
  <1>1. q.rcv = 0 /\ q.state \in {"ESTABLISHED", "FIN_WAIT_1", "FIN_WAIT_2"}
    BY DEF Rest
  <1>2. FinPart(q, m) = q
    <2>1. ~GotFin(q, m) /\ ~(m.seq < q.rcv)
      BY <1>1 DEF GotFin
    <2> QED
      BY <2>1 DEF FinPart
  <1>3. CASE q.state = "FIN_WAIT_1" /\ AllAcked(q, m)
    BY <1>1, <1>2, <1>3 DEF Process
  <1>4. CASE ~(q.state = "FIN_WAIT_1" /\ AllAcked(q, m))
    BY <1>1, <1>2, <1>4 DEF Process
  <1> QED
    BY <1>3, <1>4

\* The step of tcp_process to FIN_WAIT_2.
LEMMA FinWait2 ==
  ASSUME NEW w, NEW e, NEW n, NEW q \in Pcbs, Rest(q, w, e, n), q.state = "FIN_WAIT_1",
         NEW x, x = [q EXCEPT !.state = "FIN_WAIT_2"]
  PROVE  /\ x \in Pcbs /\ Rest(x, w, e, n) /\ x.state = "FIN_WAIT_2"
         /\ x.unsent = q.unsent /\ x.unacked = q.unacked /\ x.nxt = q.nxt
         /\ x.lastack = q.lastack /\ x.fin = q.fin /\ x.wnd = q.wnd /\ x.wl2 = q.wl2
         /\ x.inFr = q.inFr /\ x.ackNow = q.ackNow
  <1>1. x \in Pcbs
    BY DEF Pcbs, States
  <1>2. /\ x.unsent = q.unsent /\ x.unacked = q.unacked /\ x.nxt = q.nxt /\ x.lbb = q.lbb
        /\ x.lastack = q.lastack /\ x.fin = q.fin /\ x.wnd = q.wnd /\ x.wl2 = q.wl2
        /\ x.inFr = q.inFr /\ x.ackNow = q.ackNow /\ x.wl1 = q.wl1 /\ x.rcv = q.rcv
        /\ x.state = "FIN_WAIT_2"
    BY DEF Pcbs
  <1>3. Rest(x, w, e, n)
    BY <1>2 DEF Rest
  <1> QED
    BY <1>1, <1>2, <1>3

(* The queues of x are whole, or will be when tcp_output is done.           *)
Settled(p, x, w) ==
    /\ Kept(x, w)
    /\ \A y \in Nat : Reaches(y, p) => Reaches(y, x)

Unsettled(p, x, w) ==
    \E r \in Pcbs : /\ Kept(r, w) /\ r.unacked # <<>> /\ Resent(r, x)
                    /\ \A y \in Nat : Reaches(y, p) => Reaches(y, r)

Processed(p, q, x, w, e, n) ==
    /\ x \in Pcbs /\ Rest(x, w, e, n) /\ SameWindow(q, x) /\ x.fin = p.fin
    /\ x.state \notin {"CLOSED", "TIME_WAIT"}
    /\ Settled(p, x, w) \/ (q.lastack = p.lastack /\ Unsettled(p, x, w))

(* tcp_process behind a segment of a peer that has not closed: only         *)
(* FIN_WAIT_2 can be reached.                                               *)
LEMMA ProcessedKeeps ==
  ASSUME NEW w \in Nat, NEW e \in Nat, NEW n \in Nat, NEW p, NEW m, m.seq = 0, ~m.fin,
         NEW q, Answered(p, q, m, w, e, n)
  PROVE  FinPart(q, m) = q /\ Processed(p, q, Process(q, m), w, e, n)
  <1> DEFINE x == Process(q, m)
  <1>1. /\ q \in Pcbs /\ Rest(q, w, e, n) /\ q.fin = p.fin
        /\ Settled(p, q, w) \/ (q.lastack = p.lastack /\ Unsettled(p, q, w))
    BY DEF Answered, Settled, Unsettled
  <1>2. q.state \in {"ESTABLISHED", "FIN_WAIT_1", "FIN_WAIT_2"}
    BY <1>1 DEF Rest
  <1>3. /\ FinPart(q, m) = q
        /\ x = q \/ (q.state = "FIN_WAIT_1" /\ x = [q EXCEPT !.state = "FIN_WAIT_2"])
    BY <1>1, ProcessKeeps
  <1> HIDE DEF x
  <1>4. CASE x = q
    <2>1. Processed(p, q, q, w, e, n)
      BY <1>1, <1>2 DEF Processed, SameWindow
    <2> QED
      BY <1>3, <1>4, <2>1 DEF x
  <1>5. CASE q.state = "FIN_WAIT_1" /\ x = [q EXCEPT !.state = "FIN_WAIT_2"]
    <2>1. /\ x \in Pcbs /\ Rest(x, w, e, n) /\ x.state = "FIN_WAIT_2"
          /\ x.unsent = q.unsent /\ x.unacked = q.unacked /\ x.nxt = q.nxt
          /\ x.lastack = q.lastack /\ x.fin = q.fin /\ x.wnd = q.wnd /\ x.wl2 = q.wl2
          /\ x.inFr = q.inFr /\ x.ackNow = q.ackNow
      BY <1>1, <1>5, FinWait2
    <2>2. Settled(p, q, w) => Settled(p, x, w)
      BY <2>1 DEF Settled, Kept, Reaches
    <2>3. Unsettled(p, q, w) => Unsettled(p, x, w)
      <3>1. \A r : Resent(r, q) => Resent(r, x)
        BY <2>1 DEF Resent
      <3> QED
        BY <3>1 DEF Unsettled
    <2>4. Processed(p, q, x, w, e, n)
      BY <1>1, <2>1, <2>2, <2>3 DEF Processed, SameWindow
    <2> QED
      BY <1>3, <2>4 DEF x
  <1> QED
    BY <1>3, <1>4, <1>5

\* The callbacks, or none, and tcp_output behind them.
LEMMA ProcessedFollows ==
  ASSUME written \in 0 .. MaxData, NEW e \in Nat, NEW n \in Nat, NEW p, p \in Pcbs,
         NEW q, NEW x, Processed(p, q, x, written, e, n),
         NEW c \in (IF q.lastack > p.lastack THEN Calls(x) ELSE {[pcb |-> x, n |-> 0]}),
         NEW o \in Output(c.pcb)
  PROVE  Follows(p, o, written, written + c.n, e, n) /\ SameWindow(q, o.pcb)
  <1>0. written \in Nat /\ MaxData \in Nat /\ written <= MaxData /\ written + 0 = written
    BY StreamAssumption
  <1>1. /\ x \in Pcbs /\ Rest(x, written, e, n) /\ SameWindow(q, x) /\ x.fin = p.fin
        /\ Settled(p, x, written) \/ (q.lastack = p.lastack /\ Unsettled(p, x, written))
    BY DEF Processed
  <1>2. CASE Settled(p, x, written)
    <2>1. Live(x, written, e, n) /\ \A y \in Nat : Reaches(y, p) => Reaches(y, x)
      BY <1>1, <1>2 DEF Settled, Live
    <2>2. Asked(x, c, written, e, n)
      <3>1. CASE q.lastack > p.lastack
        BY <2>1, <3>1, CallsKeep
      <3>2. CASE ~(q.lastack > p.lastack)
        <4>1. c = [pcb |-> x, n |-> 0]
          BY <3>2
        <4> QED
          BY <1>0, <2>1, <4>1 DEF Asked, Called
      <3> QED
        BY <3>1, <3>2
    <2>3. Follows(x, o, written, written + c.n, e, n) /\ SameWindow(x, o.pcb)
      BY <1>0, <2>2, AskedFollows
    <2> QED
      BY <1>1, <2>1, <2>3 DEF Follows, SameWindow
  <1>3. CASE q.lastack = p.lastack /\ Unsettled(p, x, written)
    <2>1. PICK r \in Pcbs : /\ Kept(r, written) /\ r.unacked # <<>> /\ Resent(r, x)
                            /\ \A y \in Nat : Reaches(y, p) => Reaches(y, r)
      BY <1>3 DEF Unsettled
    <2>2. c = [pcb |-> x, n |-> 0]
      <3>1. ~(q.lastack > p.lastack)
        <4>1. p.lastack \in Nat
          BY DEF Pcbs
        <4> QED
          BY <1>3, <4>1
      <3> QED
        BY <3>1
    <2>3. o \in Output(x) /\ c.n = 0
      BY <2>2
    <2>4. /\ o.pcb \in Pcbs /\ Alike(x, o.pcb) /\ Kept(o.pcb, written)
          /\ \A y \in Nat : Reaches(y, r) => Reaches(y, o.pcb)
          /\ \A y \in o.out : Sendable(y, written, o.pcb)
      BY <1>0, <1>1, <2>1, <2>3, RexmitKeeps
    <2>5. Rest(o.pcb, written, e, n) /\ SameWindow(x, o.pcb) /\ o.pcb.fin = x.fin
      BY <1>1, <2>4, AlikeRest
    <2>6. Follows(p, o, written, written, e, n)
      BY <1>0, <1>1, <2>1, <2>4, <2>5 DEF Follows, Live
    <2> QED
      BY <1>0, <1>1, <2>3, <2>5, <2>6 DEF SameWindow
  <1> QED
    BY <1>1, <1>2, <1>3

(* A step of the board that has the pcb follow itself.                      *)
BoardStep(e, n) ==
    \E o : /\ pcb' = o.pcb /\ toPeer' = toPeer \cup o.out
           /\ Follows(pcb, o, written, written', e, n)

\* tcp_input, with tcp_receive, tcp_process, the callbacks and tcp_output.
LEMMA InputKeeps ==
  ASSUME written \in 0 .. MaxData, NEW e \in Nat, NEW n \in Nat, Live(pcb, written, e, n),
         Reaches(n, pcb), NEW m, Offer(m, e, n), Newer(m, pcb.wl2, pcb.wnd), Process_Input(m)
  PROVE  /\ BoardStep(e, n) /\ over' = over
         /\ \/ SameWindow(pcb, pcb')
            \/ pcb'.wl2 = m.ack /\ pcb'.wnd = m.wnd
  <1>1. m.seq = 0 /\ ~m.fin /\ written \in Nat /\ pcb \in Pcbs /\ Rest(pcb, written, e, n)
    BY StreamAssumption DEF Offer, Live
  <1>2. PICK q \in AckPart(pcb, m) :
           LET r == FinPart(q, m)
               p == Process(r, m)
               called == q.lastack > pcb.lastack \/ r.rcv > pcb.rcv
           IN IF p.state = "CLOSED"
              THEN /\ pcb' = p
                   /\ over' = Ending(r)
                   /\ UNCHANGED <<written, toPeer>>
              ELSE \E c \in IF called THEN Calls(p) ELSE {[pcb |-> p, n |-> 0]} :
                   \E o \in Output(c.pcb) :
                      /\ pcb' = o.pcb
                      /\ written' = written + c.n
                      /\ toPeer' = toPeer \cup o.out
                      /\ over' = IF p.state = "TIME_WAIT" THEN Ending(r) ELSE over
    BY DEF Process_Input
  <1> DEFINE x == Process(q, m)
  <1>3. Answered(pcb, q, m, written, e, n)
    BY <1>1, AckPartKeeps
  <1>4. FinPart(q, m) = q /\ Processed(pcb, q, x, written, e, n)
    BY <1>1, <1>3, ProcessedKeeps
  <1>5. x.state # "CLOSED" /\ x.state # "TIME_WAIT"
    BY <1>4 DEF Processed
  <1>6. ~(q.rcv > pcb.rcv)
    <2>1. q.rcv = 0 /\ pcb.rcv = 0
      BY <1>1, <1>3 DEF Answered, Rest
    <2> QED
      BY <2>1
  <1> HIDE DEF x
  <1>7. PICK c \in (IF q.lastack > pcb.lastack THEN Calls(x) ELSE {[pcb |-> x, n |-> 0]}) :
          \E o \in Output(c.pcb) :
             pcb' = o.pcb /\ written' = written + c.n /\ toPeer' = toPeer \cup o.out /\ over' = over
    BY <1>2, <1>4, <1>5, <1>6 DEF x
  <1>8. PICK o \in Output(c.pcb) :
             pcb' = o.pcb /\ written' = written + c.n /\ toPeer' = toPeer \cup o.out /\ over' = over
    BY <1>7
  <1>9. Follows(pcb, o, written, written + c.n, e, n) /\ SameWindow(q, o.pcb)
    BY <1>1, <1>4, ProcessedFollows
  <1>10. SameWindow(pcb, q) \/ (q.wl2 = m.ack /\ q.wnd = m.wnd)
    BY <1>3 DEF Answered, SameWindow
  <1> QED
    BY <1>8, <1>9, <1>10 DEF BoardStep, SameWindow

\* The poll callback of tcp_slowtmr.
LEMMA PollKeeps ==
  ASSUME written \in 0 .. MaxData, NEW e \in Nat, NEW n \in Nat, Live(pcb, written, e, n), Poll
  PROVE  BoardStep(e, n) /\ SameWindow(pcb, pcb')
  <1>1. PICK c \in Calls(pcb) : \E o \in Output(c.pcb) :
           pcb' = o.pcb /\ written' = written + c.n /\ toPeer' = toPeer \cup o.out
    BY DEF Poll
  <1>2. PICK o \in Output(c.pcb) :
           pcb' = o.pcb /\ written' = written + c.n /\ toPeer' = toPeer \cup o.out
    BY <1>1
  <1>3. Asked(pcb, c, written, e, n)
    BY CallsKeep
  <1>4. Follows(pcb, o, written, written + c.n, e, n) /\ SameWindow(pcb, o.pcb)
    BY <1>3, StreamAssumption, AskedFollows
  <1> QED
    BY <1>2, <1>4 DEF BoardStep

(* tcp_rexmit_rto: the unacked queue before the unsent one is one line, and *)
(* goes out again.                                                          *)
LEMMA RetransmitKeeps ==
  ASSUME written \in 0 .. MaxData, NEW e \in Nat, NEW n \in Nat, Live(pcb, written, e, n), Retransmit
  PROVE  BoardStep(e, n) /\ SameWindow(pcb, pcb')
  <1> DEFINE r == [pcb EXCEPT !.unsent = pcb.unacked \o @, !.unacked = <<>>, !.nrtx = @ + 1]
  <1>0. written \in Nat /\ MaxData \in Nat /\ written <= MaxData /\ written' = written
    BY StreamAssumption DEF Retransmit
  <1>1. PICK o \in Output(r) : pcb' = o.pcb /\ toPeer' = toPeer \cup o.out
    BY DEF Retransmit
  <1>2. pcb \in Pcbs /\ Kept(pcb, written) /\ Rest(pcb, written, e, n) /\ ~pcb.ackNow
        /\ pcb.unacked # <<>>
    BY DEF Live, Rest, Retransmit
  <1>3. /\ r \in Pcbs /\ Kept(r, written) /\ Alike(pcb, r)
        /\ \A x \in Nat : Reaches(x, pcb) => Reaches(x, r)
    BY <1>0, <1>2, RequeueKeeps
  <1> HIDE DEF r
  <1>4. Rest(r, written, e, n) /\ SameWindow(pcb, r) /\ r.fin = pcb.fin /\ ~r.ackNow
    BY <1>2, <1>3, AlikeRest DEF Alike
  <1>5. Sends(r, o, written)
    BY <1>0, <1>3, <1>4, OutputKeeps
  <1>6. /\ o.pcb \in Pcbs /\ Alike(r, o.pcb) /\ Kept(o.pcb, written)
        /\ \A x \in Nat : Reaches(x, r) => Reaches(x, o.pcb)
        /\ \A m \in o.out : Sendable(m, written, o.pcb)
    BY <1>5 DEF Sends
  <1>7. Rest(o.pcb, written, e, n) /\ SameWindow(r, o.pcb) /\ o.pcb.fin = r.fin
    BY <1>4, <1>6, AlikeRest
  <1>8. Follows(pcb, o, written, written, e, n)
    BY <1>0, <1>3, <1>4, <1>6, <1>7 DEF Follows, Live
  <1> QED
    BY <1>0, <1>1, <1>4, <1>7, <1>8 DEF BoardStep, SameWindow

-----------------------------------------------------------------------------
(* The invariant, until the peer closes. *)

\* Rst, or one that carries a packet of the stream within the window, or one unit.
Carries(m, w, f, e) ==
    \/ m = Rst
    \/ /\ ~m.rst /\ [seq |-> m.seq, data |-> m.data] \in Packets(w, f)
       /\ m.seq + DataLen(m) <= e \/ Len(m.data) <= 1

\* The first x units are in a window that ends at e, but for the FIN at its end.
InWindow(x, w, f, e) == x <= e \/ (f /\ w <= e)

\* A unit that has arrived.
Arrived(u, w, f, e) ==
    /\ u[1] \in Nat /\ u[1] < Total(w, f) /\ u[2] = Unit(u[1], w)
    /\ InWindow(u[1] + 1, w, f, e)

Peers == [read : Seq(Nat), early : SUBSET (Nat \X Nat), edge : Nat,
          closed : BOOLEAN, acked : BOOLEAN, reset : BOOLEAN]

\* What has arrived at the peer is what was written.
PeerHas(q, w, f) ==
    /\ q \in Peers /\ q.edge <= Len(q.read) + Buf
    /\ Len(q.read) <= Total(w, f) /\ \A i \in 1 .. Len(q.read) : q.read[i] = Unit(i - 1, w)
    /\ InWindow(Len(q.read), w, f, q.edge)
    /\ \A u \in q.early : Arrived(u, w, f, q.edge)

\* Acknowledgements of a peer that has not closed.
Answers(net, e, n) ==
    /\ \A m \in net : Offer(m, e, n)
    /\ \A m1, m2 \in net : Newer(m2, m1.ack, m1.wnd)

\* A pcb that was given back.
Gone(p) ==
    /\ p.state = "CLOSED" /\ p.fin \in BOOLEAN /\ p.unsent = <<>> /\ p.unacked = <<>>
    /\ p.lbb = 0 /\ p.nxt = 0 /\ p.lastack = 0 /\ p.wnd = 0 /\ p.nrtx = 0 /\ p.rcv = 0

\* No unit is farther than the pcb has sent any.
Behind(p, q, net) ==
    /\ Reaches(Len(q.read), p)
    /\ \A u \in q.early : Reaches(u[1] + 1, p)
    /\ \A m \in net : m = Rst \/ Reaches(End(m), p)

Connected ==
    /\ Live(pcb, written, peer.edge, Len(peer.read))
    /\ Behind(pcb, peer, toPeer)
    /\ \A m \in toBoard : Newer(m, pcb.wl2, pcb.wnd)

OpenInv ==
    /\ written \in 0 .. MaxData /\ faults \in 0 .. MaxFaults /\ over \in {"no", "dropped"}
    /\ PeerHas(peer, written, pcb.fin)
    /\ \A m \in toPeer : Carries(m, written, pcb.fin, peer.edge)
    /\ Answers(toBoard, peer.edge, Len(peer.read))
    /\ Gone(pcb) \/ Connected

\* The fields of the peer.
Whole(q) ==
    q = [read |-> q.read, early |-> q.early, edge |-> q.edge, closed |-> q.closed,
         acked |-> q.acked, reset |-> q.reset]

IInv == Whole(peer) /\ (peer.closed \/ OpenInv)

(* What holds of a stream holds when more is written, or it is closed.      *)
Longer(w, f, w2, f2) ==
    /\ w \in Nat /\ f \in BOOLEAN /\ w2 \in Nat /\ f2 \in BOOLEAN
    /\ w <= w2 /\ (f => f2 /\ w2 = w)

\* What was written is not changed by what is written behind it.
LEMMA UnitsStay ==
  ASSUME NEW w, NEW f, NEW w2, NEW f2, Longer(w, f, w2, f2)
  PROVE  /\ Total(w, f) <= Total(w2, f2) /\ Total(w, f) \in Nat /\ Total(w2, f2) \in Nat
         /\ \A k \in Nat : k < Total(w, f) => Unit(k, w2) = Unit(k, w)
  <1>1. /\ w \in Nat /\ f \in BOOLEAN /\ w2 \in Nat /\ f2 \in BOOLEAN
        /\ w <= w2 /\ (f => f2 /\ w2 = w)
    BY DEF Longer
  <1>2. CASE f
    <2>1. f2 /\ w2 = w
      BY <1>1, <1>2
    <2> QED
      BY <1>1, <1>2, <2>1 DEF Total
  <1>3. CASE ~f
    <2>1. Total(w, f) = w /\ (Total(w2, f2) = w2 \/ Total(w2, f2) = w2 + 1)
      BY <1>1, <1>3 DEF Total
    <2>2. \A k \in Nat : k < w => k < w2
      BY <1>1
    <2>3. \A k \in Nat : k < w => Unit(k, w2) = Unit(k, w)
      BY <2>2 DEF Unit
    <2> QED
      BY <1>1, <2>1, <2>3
  <1> QED
    BY <1>1, <1>2, <1>3

\* What is on its way or has arrived is so of the longer stream.
LEMMA StreamGrows ==
  ASSUME NEW w, NEW f, NEW w2, NEW f2, Longer(w, f, w2, f2)
  PROVE  /\ \A x, e : InWindow(x, w, f, e) => InWindow(x, w2, f2, e)
         /\ \A q : PeerHas(q, w, f) => PeerHas(q, w2, f2)
         /\ \A m, e : Carries(m, w, f, e) => Carries(m, w2, f2, e)
  <1>1. /\ w \in Nat /\ f \in BOOLEAN /\ w2 \in Nat /\ f2 \in BOOLEAN
        /\ w <= w2 /\ (f => f2 /\ w2 = w)
    BY DEF Longer
  <1>2. /\ Total(w, f) <= Total(w2, f2) /\ Total(w, f) \in Nat /\ Total(w2, f2) \in Nat
        /\ \A k \in Nat : k < Total(w, f) => Unit(k, w2) = Unit(k, w)
    BY UnitsStay
  <1>3. \A x, e : InWindow(x, w, f, e) => InWindow(x, w2, f2, e)
    BY <1>1 DEF InWindow
  <1>4. \A x \in Nat : (x < Total(w, f) => x < Total(w2, f2)) /\ (x <= Total(w, f) => x <= Total(w2, f2))
    BY <1>2
  <1>5. \A u, e : Arrived(u, w, f, e) => Arrived(u, w2, f2, e)
    BY <1>2, <1>3, <1>4 DEF Arrived
  <1>6. ASSUME NEW q, PeerHas(q, w, f) PROVE PeerHas(q, w2, f2)
    <2>1. q.read \in Seq(Nat) /\ Len(q.read) \in Nat /\ Len(q.read) <= Total(w, f)
          /\ \A i \in 1 .. Len(q.read) : q.read[i] = Unit(i - 1, w)
      BY <1>6 DEF PeerHas, Peers
    <2>2. ASSUME NEW i \in 1 .. Len(q.read) PROVE q.read[i] = Unit(i - 1, w2)
      <3>1. i - 1 \in Nat /\ i - 1 < Total(w, f)
        BY <1>2, <2>1
      <3> QED
        BY <1>2, <2>1, <3>1
    <2>3. Len(q.read) <= Total(w2, f2)
      BY <1>4, <2>1
    <2> QED
      BY <1>3, <1>5, <1>6, <2>2, <2>3 DEF PeerHas
  <1>7. Packets(w, f) \subseteq Packets(w2, f2)
    BY <1>1, PacketsGrow
  <1>8. \A m, e : Carries(m, w, f, e) => Carries(m, w2, f2, e)
    BY <1>7 DEF Carries
  <1> QED
    BY <1>3, <1>6, <1>8

(* And when the peer reads on, and opens its window.                        *)
LEMMA WindowGrows ==
  ASSUME NEW e \in Nat, NEW n \in Nat, NEW e2 \in Nat, NEW n2 \in Nat, e <= e2, n <= n2
  PROVE  /\ \A x \in Nat : Within(x, e, n) => Within(x, e2, n2)
         /\ \A m : Offer(m, e, n) => Offer(m, e2, n2)
         /\ \A p \in Pcbs : \A w : Rest(p, w, e, n) => Rest(p, w, e2, n2)
         /\ \A w, x \in Nat : \A f : InWindow(x, w, f, e) => InWindow(x, w, f, e2)
         /\ \A w \in Nat, f \in BOOLEAN : \A m : Carries(m, w, f, e) => Carries(m, w, f, e2)
  <1>1. \A x \in Nat : (x <= e => x <= e2) /\ (x <= n => x <= n2)
    OBVIOUS
  <1>2. \A x \in Nat : Within(x, e, n) => Within(x, e2, n2)
    BY <1>1 DEF Within
  <1>3. ASSUME NEW m, Offer(m, e, n) PROVE Offer(m, e2, n2)
    <2>1. m.ack \in Nat /\ m.wnd \in Nat /\ m.ack + m.wnd \in Nat
      BY <1>3 DEF Offer
    <2> QED
      BY <1>1, <1>2, <1>3, <2>1 DEF Offer
  <1>4. ASSUME NEW p \in Pcbs, NEW w, Rest(p, w, e, n) PROVE Rest(p, w, e2, n2)
    <2>1. p.wl2 \in Nat /\ p.wnd \in Nat /\ p.wl2 + p.wnd \in Nat
      BY DEF Pcbs
    <2> QED
      BY <1>1, <1>2, <1>4, <2>1 DEF Rest
  <1>5. \A w, x \in Nat : \A f : InWindow(x, w, f, e) => InWindow(x, w, f, e2)
    BY <1>1 DEF InWindow
  <1>6. ASSUME NEW m, NEW w \in Nat, NEW f \in BOOLEAN, Carries(m, w, f, e) PROVE Carries(m, w, f, e2)
    <2>1. CASE m = Rst
      BY <2>1 DEF Carries
    <2>2. CASE m # Rst
      <3> DEFINE s == [seq |-> m.seq, data |-> m.data]
      <3>1. s \in Packets(w, f)
        BY <1>6, <2>2 DEF Carries
      <3>2. s.seq = m.seq /\ DataLen(s) = DataLen(m)
        BY DEF DataLen, HasFin
      <3>3. s.seq \in Nat /\ DataLen(s) \in Nat
        <4> HIDE DEF s
        <4> QED
          BY <3>1, PacketFacts
      <3>4. m.seq + DataLen(m) \in Nat
        BY <3>2, <3>3
      <3> QED
        BY <1>1, <1>6, <2>2, <3>4 DEF Carries
    <2> QED
      BY <2>1, <2>2
  <1> QED
    BY <1>2, <1>3, <1>4, <1>5, <1>6

\* What is nearer is reached as well.
LEMMA Nearer ==
  ASSUME NEW p \in Pcbs, NEW x \in Nat, NEW y \in Nat, x <= y, Reaches(y, p)
  PROVE  Reaches(x, p)
  <1>1. p.nxt \in Nat /\ p.unsent \in Seq(Bare)
    BY DEF Pcbs
  <1>2. p.unsent # <<>> => p.unsent[1].seq \in Nat
    <2>1. \A q \in Seq(Bare) : q # <<>> => q[1] \in Bare
      OBVIOUS
    <2> QED
      BY <1>1, <2>1 DEF Bare
  <1> DEFINE a == p.nxt
             b == p.unsent[1].seq + 1
  <1>3. y <= a => x <= a
    <2> HIDE DEF a
    <2> QED
      BY <1>1 DEF a
  <1>4. p.unsent # <<>> /\ y <= b => x <= b
    <2>1. p.unsent # <<>> => b \in Nat
      BY <1>2
    <2> HIDE DEF b
    <2> QED
      BY <2>1
  <1> QED
    BY <1>3, <1>4 DEF Reaches

-----------------------------------------------------------------------------
(* The peer. *)

\* A part of a .. b with no gap before any of it.
LEMMA WithoutGap ==
  ASSUME NEW a \in Nat, NEW b \in Nat, NEW S, S \subseteq a .. b,
         \A i \in S : \A j \in a .. i : j \in S
  PROVE  Cardinality(S) \in Nat /\ S = a .. a + Cardinality(S) - 1
  <1> DEFINE T == {x \in Nat : a <= x /\ x \notin S}
  <1>1. PICK x \in T : \A y \in T : x <= y
    <2>1. a + b + 1 \in T
      OBVIOUS
    <2>2. T \subseteq Nat /\ T # {}
      BY <2>1
    <2> HIDE DEF T
    <2> QED
      BY <2>2, LeastNat
  <1>2. x \in Nat /\ a <= x /\ x \notin S
    BY <1>1
  <1>3. S = a .. x - 1
    <2>1. ASSUME NEW i \in S PROVE i \in a .. x - 1
      <3>1. i \in a .. b /\ i \in Nat
        OBVIOUS
      <3>2. ~(x <= i)
        <4>1. x <= i => x \in a .. i
          BY <1>2, <3>1
        <4> QED
          BY <1>2, <4>1
      <3> QED
        BY <1>2, <3>1, <3>2
    <2>2. ASSUME NEW j \in a .. x - 1 PROVE j \in S
      <3>1. j \in Nat /\ a <= j /\ ~(x <= j)
        BY <1>2
      <3> QED
        BY <1>1, <3>1
    <2> QED
      BY <2>1, <2>2
  <1>4. Cardinality(a .. x - 1) = x - a
    <2>1. x - 1 \in Int /\ a \in Int
      BY <1>2
    <2>2. Cardinality(a .. x - 1) = IF a > x - 1 THEN 0 ELSE (x - 1) - a + 1
      BY <2>1, FS_Interval
    <2> QED
      BY <1>2, <2>2
  <1>5. x - a \in Nat /\ a + (x - a) - 1 = x - 1
    BY <1>2
  <1> QED
    BY <1>3, <1>4, <1>5

(* What the peer has when got arrives.                                      *)
GathersTo(read, got, w, r) ==
    /\ r \in Seq(Nat) /\ Len(read) <= Len(r)
    /\ \A i \in 1 .. Len(r) : r[i] = IF i <= Len(read) THEN read[i] ELSE Unit(i - 1, w)
    /\ Len(r) = Len(read) \/ \E u \in got : u[1] + 1 = Len(r)

\* The peer takes the units that follow what it has read, in order.
LEMMA GatheredIs ==
  ASSUME NEW w \in Nat, NEW read \in Seq(Nat), NEW got,
         \A u \in got : u[1] \in Nat /\ u[2] = Unit(u[1], w)
  PROVE  GathersTo(read, got, w, Gathered(read, got))
  <1> DEFINE n == Len(read)
             next == {i \in n .. MaxData + 1 : \A j \in n .. i : \E u \in got : u[1] = j}
             c == Cardinality(next)
             unit(i) == (CHOOSE u \in got : u[1] = n + i - 1)[2]
             more == [i \in 1 .. c |-> unit(i)]
  <1>1. Gathered(read, got) = read \o more
    BY DEF Gathered
  <1>2. n \in Nat /\ MaxData + 1 \in Nat
    BY StreamAssumption
  <1>3. c \in Nat /\ next = n .. n + c - 1
    <2>1. next \subseteq n .. MaxData + 1
      OBVIOUS
    <2>2. ASSUME NEW i \in next, NEW j \in n .. i PROVE j \in next
      <3>1. i \in n .. MaxData + 1 /\ \A k \in n .. i : \E u \in got : u[1] = k
        OBVIOUS
      <3>2. j \in n .. MaxData + 1 /\ \A k \in n .. j : k \in n .. i
        BY <1>2, <3>1
      <3> QED
        BY <3>1, <3>2
    <2> HIDE DEF next, n
    <2> QED
      BY <1>2, <2>1, <2>2, WithoutGap
  <1>4. \A k \in n .. n + c - 1 : \E u \in got : u[1] = k
    <2>1. ASSUME NEW k \in n .. n + c - 1 PROVE \E u \in got : u[1] = k
      <3>1. k \in next
        BY <1>3
      <3>2. k \in n .. k
        <4> HIDE DEF next, n, c
        <4> QED
          BY <1>2, <1>3
      <3> QED
        BY <3>1, <3>2
    <2> QED
      BY <2>1
  <1> HIDE DEF next, c
  <1>5. \A i \in 1 .. c : unit(i) = Unit(n + i - 1, w) /\ unit(i) \in Nat
    <2>1. ASSUME NEW i \in 1 .. c PROVE unit(i) = Unit(n + i - 1, w) /\ unit(i) \in Nat
      <3> DEFINE k == n + i - 1
      <3>1. k \in n .. n + c - 1 /\ k \in Nat
        <4> HIDE DEF n
        <4> QED
          BY <1>2, <1>3
      <3> HIDE DEF k
      <3>2. PICK u \in got : u[1] = k
        BY <1>4, <3>1
      <3> DEFINE v == CHOOSE x \in got : x[1] = k
      <3>3. v \in got /\ v[1] = k
        BY <3>2
      <3> HIDE DEF v
      <3>4. v[2] = Unit(k, w)
        BY <3>3
      <3>5. Unit(k, w) \in Nat
        BY <3>1 DEF Unit, Fin
      <3> QED
        BY <3>4, <3>5 DEF v, k
    <2> QED
      BY <2>1
  <1> HIDE DEF unit
  <1>6. more \in Seq(Nat) /\ Len(more) = c /\ \A i \in 1 .. c : more[i] = unit(i)
    BY <1>3, <1>5
  <1> HIDE DEF more
  <1> DEFINE r == read \o more
  <1>7. /\ r \in Seq(Nat) /\ Len(r) = n + c
        /\ \A i \in 1 .. n + c : r[i] = IF i <= n THEN read[i] ELSE more[i - n]
    <2>1. /\ read \o more \in Seq(Nat) /\ Len(read \o more) = Len(read) + Len(more)
          /\ \A i \in 1 .. Len(read) + Len(more) :
                (read \o more)[i] = IF i <= Len(read) THEN read[i] ELSE more[i - Len(read)]
      BY <1>6, ConcatProperties
    <2> QED
      BY <1>6, <2>1
  <1> HIDE DEF r, n
  <1>8. ASSUME NEW i \in 1 .. Len(r) PROVE r[i] = IF i <= n THEN read[i] ELSE Unit(i - 1, w)
    <2>1. i \in 1 .. n + c
      BY <1>7
    <2>2. CASE i <= n
      BY <1>7, <2>1, <2>2
    <2>3. CASE ~(i <= n)
      <3>1. i - n \in 1 .. c /\ n + (i - n) - 1 = i - 1
        BY <1>2, <1>3, <2>1, <2>3
      <3> QED
        BY <1>5, <1>6, <1>7, <2>1, <2>3, <3>1
    <2> QED
      BY <2>2, <2>3
  <1>9. n <= Len(r) /\ (Len(r) = n \/ \E u \in got : u[1] + 1 = Len(r))
    <2>1. n <= Len(r)
      BY <1>2, <1>3, <1>7
    <2>2. CASE c = 0
      BY <1>2, <1>7, <2>1, <2>2
    <2>3. CASE c # 0
      <3>1. n + c - 1 \in n .. n + c - 1 /\ (n + c - 1) + 1 = n + c
        BY <1>2, <1>3, <2>3
      <3> QED
        BY <1>4, <1>7, <2>1, <3>1
    <2> QED
      BY <2>2, <2>3
  <1> QED
    BY <1>1, <1>7, <1>8, <1>9 DEF GathersTo, r, n

(* What the peer takes of a packet.                                         *)
LEMMA TakenArrives ==
  ASSUME NEW w \in Nat, NEW f \in BOOLEAN, NEW e \in Nat, NEW m,
         [seq |-> m.seq, data |-> m.data] \in Packets(w, f),
         NEW j \in DOMAIN m.data,
         m.seq + j - 1 < e \/ (m.data[j] = Fin /\ m.seq + j - 1 = e),
         NEW u, u = <<m.seq + j - 1, m.data[j]>>
  PROVE  u \in Nat \X Nat /\ Arrived(u, w, f, e) /\ u[1] + 1 <= End(m) /\ End(m) \in Nat
  <1> DEFINE s == [seq |-> m.seq, data |-> m.data]
  <1>1. s.seq = m.seq /\ s.data = m.data
    OBVIOUS
  <1> HIDE DEF s
  <1>2. /\ s \in Bare /\ s.seq \in Nat /\ Len(s.data) \in Nat /\ s.seq + Len(s.data) <= Total(w, f)
        /\ \A i \in 1 .. Len(s.data) : s.data[i] = Unit(s.seq + i - 1, w)
    <2>1. s \in Packets(w, f)
      BY DEF s
    <2>2. s \in Bare /\ s.seq \in Nat /\ Len(s.data) \in Nat
      BY <2>1, PacketFacts
    <2> QED
      BY <2>1, <2>2 DEF Packets
  <1>3. m.data \in Seq(Nat) /\ j \in 1 .. Len(m.data)
    BY <1>1, <1>2 DEF Bare
  <1> DEFINE a == m.seq
             l == Len(m.data)
             k == a + j - 1
  <1>4. a \in Nat /\ l \in Nat /\ a + l <= Total(w, f) /\ Total(w, f) \in Nat
    BY <1>1, <1>2 DEF Total
  <1>5. k \in Nat /\ k < Total(w, f) /\ k + 1 <= a + l
    <2> HIDE DEF a, l
    <2>1. j \in 1 .. l
      BY <1>3 DEF l
    <2> QED
      BY <1>4, <2>1
  <1>6. m.data[j] = Unit(k, w)
    BY <1>1, <1>2, <1>3
  <1>7. u[1] = k /\ u[2] = Unit(k, w)
    BY <1>6
  <1>8. (m.data[j] = Fin /\ k = e) \/ k < e
    OBVIOUS
  <1>9. End(m) = a + l
    BY DEF End
  <1> HIDE DEF a, l, k
  <1>10. InWindow(k + 1, w, f, e)
    <2>1. CASE k < e
      BY <1>5, <2>1 DEF InWindow
    <2>2. CASE m.data[j] = Fin /\ k = e
      <3>1. Unit(k, w) = 0
        BY <1>6, <2>2 DEF Fin
      <3>2. ~(k < w)
        BY <1>5, <3>1 DEF Unit
      <3>3. f
        BY <1>5, <3>2 DEF Total
      <3> QED
        BY <1>5, <2>2, <3>2, <3>3 DEF InWindow
    <2> QED
      BY <1>8, <2>1, <2>2
  <1>11. u \in Nat \X Nat
    <2>1. Unit(k, w) \in Nat
      BY <1>5 DEF Unit, Fin
    <2>2. u = <<k, Unit(k, w)>>
      BY <1>6 DEF k, a
    <2> QED
      BY <1>5, <2>1, <2>2
  <1>12. u[1] + 1 <= End(m) /\ End(m) \in Nat
    BY <1>4, <1>5, <1>7, <1>9
  <1> QED
    BY <1>5, <1>7, <1>10, <1>11, <1>12 DEF Arrived

(* The acknowledgement of a peer that has not closed takes nothing back,    *)
(* and none takes back what it gives.                                       *)
LEMMA AckOffers ==
  ASSUME NEW q \in Peers, ~q.closed, q.edge <= Len(q.read) + Buf
  PROVE  LET n == Len(q.read) IN
         /\ Offer(Ack(q), q.edge, n) /\ Ack(q).ack = n
         /\ \A a, x \in Nat : Within(a + x, q.edge, n) => Newer(Ack(q), a, x)
         /\ \A m : Offer(m, q.edge, n) => Newer(m, Ack(q).ack, Ack(q).wnd)
  <1> DEFINE n == Len(q.read)
             e == q.edge
             a0 == Ack(q)
  <1>1. n \in Nat /\ e \in Nat /\ Buf \in Nat
    BY StreamAssumption DEF Peers
  <1>2. a0.seq = 0 /\ ~a0.fin /\ a0.ack = n /\ a0.wnd = Max({0, e - n})
    BY DEF Ack
  <1> HIDE DEF a0
  <1>3. e <= n + Buf
    OBVIOUS
  <1> HIDE DEF n, e
  <1>4. a0.wnd = IF 0 <= e - n THEN e - n ELSE 0
    BY <1>1, <1>2, MaxOfTwo
  <1>5. a0.wnd \in Nat /\ a0.wnd <= Buf /\ (n + a0.wnd = e \/ (n + a0.wnd = n /\ e <= n)) /\ e <= n + a0.wnd
    BY <1>1, <1>3, <1>4
  <1>6. Offer(a0, e, n)
    BY <1>1, <1>2, <1>5 DEF Offer, Within
  <1>7. \A a, x \in Nat : Within(a + x, e, n) => Newer(a0, a, x)
    <2>1. ASSUME NEW a \in Nat, NEW x \in Nat, Within(a + x, e, n) PROVE a + x <= n + a0.wnd
      BY <1>1, <1>5, <2>1 DEF Within
    <2> QED
      BY <1>2, <2>1 DEF Newer
  <1>8. \A m : Offer(m, e, n) => Newer(m, a0.ack, a0.wnd)
    <2>1. ASSUME NEW m, Offer(m, e, n) PROVE ~(a0.ack < m.ack)
      BY <1>1, <1>2, <2>1 DEF Offer
    <2> QED
      BY <2>1 DEF Newer
  <1> QED
    BY <1>2, <1>6, <1>7, <1>8 DEF a0, e, n

-----------------------------------------------------------------------------
(* The invariant is kept. *)

\* When the handshake is done.
LEMMA InitOpen == Init => OpenInv
  <1> SUFFICES ASSUME Init PROVE OpenInv
    OBVIOUS
  <1>1. written = 0 /\ over = "no" /\ toPeer = {} /\ toBoard = {} /\ faults = MaxFaults
        /\ MaxData \in Nat /\ MaxFaults \in Nat /\ Buf \in Nat
    BY StreamAssumption DEF Init
  <1>2. pcb = [state |-> "ESTABLISHED", lbb |-> 0, nxt |-> 0, lastack |-> 0,
               unsent |-> <<>>, unacked |-> <<>>, wnd |-> Buf, wl1 |-> 0, wl2 |-> 0,
               persist |-> FALSE, nrtx |-> 0, inFr |-> FALSE, fin |-> FALSE,
               rcv |-> 0, ackNow |-> FALSE]
    BY DEF Init
  <1>3. pcb \in Pcbs
    BY <1>1, <1>2 DEF Pcbs, States
  <1>4. /\ pcb.state = "ESTABLISHED" /\ pcb.lbb = 0 /\ pcb.nxt = 0 /\ pcb.lastack = 0
        /\ pcb.unsent = <<>> /\ pcb.unacked = <<>> /\ pcb.wnd = Buf /\ pcb.wl1 = 0 /\ pcb.wl2 = 0
        /\ ~pcb.fin /\ pcb.rcv = 0 /\ ~pcb.ackNow
    BY <1>2
  <1>5. peer \in Peers /\ peer.read = <<>> /\ peer.early = {} /\ peer.edge = Buf
    BY <1>1 DEF Init, Peers
  <1>6. Len(peer.read) = 0
    BY <1>5
  <1>7. Kept(pcb, 0)
    <2>1. Line(<<>>, 0, 0) /\ Total(0, pcb.fin) = 0
      BY <1>4 DEF Line, Total
    <2>2. \A S : <<>> \in Seq(S)
      OBVIOUS
    <2> QED
      BY <1>4, <2>1, <2>2 DEF Kept
  <1>8. Live(pcb, 0, Buf, 0)
    BY <1>1, <1>3, <1>4, <1>7 DEF Live, Rest, Within
  <1>9. PeerHas(peer, 0, pcb.fin)
    BY <1>1, <1>4, <1>5, <1>6 DEF PeerHas, Total, InWindow
  <1>10. Behind(pcb, peer, toPeer)
    BY <1>1, <1>4, <1>5, <1>6 DEF Behind, Reaches
  <1>11. Connected
    BY <1>1, <1>5, <1>6, <1>8, <1>10 DEF Connected
  <1> QED
    BY <1>1, <1>9, <1>11 DEF OpenInv, Answers

(* A step of the peer, or of the network on its way to it.                  *)
LEMMA PeerMoves ==
  ASSUME OpenInv, UNCHANGED <<pcb, written, over>>, faults' \in 0 .. MaxFaults,
         PeerHas(peer', written, pcb.fin), ~peer'.closed,
         peer.edge <= peer'.edge, Len(peer.read) <= Len(peer'.read),
         toPeer' \subseteq toPeer, toBoard' \subseteq toBoard \cup {Ack(peer')},
         Connected => Behind(pcb, peer', toPeer')
  PROVE  OpenInv'
  <1> DEFINE e == peer.edge
             n == Len(peer.read)
             e2 == peer'.edge
             n2 == Len(peer'.read)
  <1>1. /\ written \in Nat /\ pcb.fin \in BOOLEAN /\ e \in Nat /\ n \in Nat /\ e2 \in Nat /\ n2 \in Nat
        /\ peer' \in Peers /\ e2 <= n2 + Buf
    <2>1. written \in Nat
      BY StreamAssumption DEF OpenInv
    <2>2. pcb.fin \in BOOLEAN
      BY DEF OpenInv, Gone, Connected, Live, Pcbs
    <2>3. e \in Nat /\ n \in Nat
      BY DEF OpenInv, PeerHas, Peers
    <2>4. peer' \in Peers /\ e2 <= n2 + Buf
      BY DEF PeerHas
    <2>5. e2 \in Nat /\ n2 \in Nat
      BY <2>4 DEF Peers
    <2> QED
      BY <2>1, <2>2, <2>3, <2>4, <2>5
  <1>2. e <= e2 /\ n <= n2
    OBVIOUS
  <1>3. ASSUME NEW m \in toPeer' PROVE Carries(m, written', pcb'.fin, e2)
    <2>1. Carries(m, written, pcb.fin, e)
      BY DEF OpenInv
    <2> DEFINE f == pcb.fin
    <2>2. Carries(m, written, f, e) /\ f \in BOOLEAN
      BY <1>1, <2>1
    <2> HIDE DEF e, e2, n, n2, f
    <2>3. Carries(m, written, f, e2)
      BY <1>1, <1>2, <2>2, WindowGrows
    <2> QED
      BY <2>3 DEF f
  <1>4. /\ Offer(Ack(peer'), e2, n2)
        /\ \A a, x \in Nat : Within(a + x, e2, n2) => Newer(Ack(peer'), a, x)
        /\ \A m : Offer(m, e2, n2) => Newer(m, Ack(peer').ack, Ack(peer').wnd)
    <2> DEFINE q == peer'
    <2>1. q \in Peers /\ ~q.closed /\ q.edge <= Len(q.read) + Buf
      BY <1>1
    <2> HIDE DEF q
    <2>2. /\ Offer(Ack(q), q.edge, Len(q.read))
          /\ \A a, x \in Nat : Within(a + x, q.edge, Len(q.read)) => Newer(Ack(q), a, x)
          /\ \A m : Offer(m, q.edge, Len(q.read)) => Newer(m, Ack(q).ack, Ack(q).wnd)
      BY <2>1, AckOffers
    <2> QED
      BY <2>2 DEF q
  <1>5. \A m \in toBoard : Offer(m, e2, n2)
    <2>1. \A m \in toBoard : Offer(m, e, n)
      BY DEF OpenInv, Answers
    <2> HIDE DEF e, e2, n, n2
    <2> QED
      BY <1>1, <1>2, <2>1, WindowGrows
  <1> HIDE DEF e2, n2
  <1>6. Answers(toBoard', e2, n2)
    <2>1. \A m \in toBoard' : Offer(m, e2, n2)
      BY <1>4, <1>5
    <2>2. ASSUME NEW m1 \in toBoard', NEW m2 \in toBoard' PROVE Newer(m2, m1.ack, m1.wnd)
      <3>1. Offer(m1, e2, n2) /\ Offer(m2, e2, n2)
        BY <2>1
      <3>2. CASE m1 = Ack(peer')
        BY <1>4, <3>1, <3>2
      <3>3. CASE m2 = Ack(peer')
        BY <1>4, <3>1, <3>3 DEF Offer
      <3>4. CASE m1 \in toBoard /\ m2 \in toBoard
        BY <3>4 DEF OpenInv, Answers
      <3> QED
        BY <3>2, <3>3, <3>4
    <2> QED
      BY <2>1, <2>2 DEF Answers
  <1>7. ASSUME Connected PROVE Connected'
    <2>1. pcb \in Pcbs /\ Kept(pcb, written) /\ Rest(pcb, written, e, n)
      BY <1>7 DEF Connected, Live
    <2>2. Rest(pcb, written, e2, n2)
      <3> HIDE DEF e, n
      <3> QED
        BY <1>1, <1>2, <2>1, WindowGrows
    <2>3. Live(pcb, written, e2, n2)
      BY <2>1, <2>2 DEF Live
    <2>4. ASSUME NEW m \in toBoard' PROVE Newer(m, pcb.wl2, pcb.wnd)
      <3>1. CASE m \in toBoard
        BY <1>7, <3>1 DEF Connected
      <3>2. CASE m = Ack(peer')
        <4>1. pcb.wl2 \in Nat /\ pcb.wnd \in Nat /\ Within(pcb.wl2 + pcb.wnd, e2, n2)
          BY <2>1, <2>2 DEF Pcbs, Rest
        <4> QED
          BY <1>4, <3>2, <4>1
      <3> QED
        BY <3>1, <3>2
    <2>5. Behind(pcb, peer', toPeer')
      BY <1>7, <2>1
    <2> QED
      BY <2>3, <2>4, <2>5 DEF Connected, e2, n2
  <1>8. Gone(pcb) => Gone(pcb')
    OBVIOUS
  <1>9. (Gone(pcb) \/ Connected)'
    BY <1>7, <1>8 DEF OpenInv
  <1> QED
    BY <1>3, <1>6, <1>9 DEF OpenInv, e2, n2

(* A step of the board, or of the network on its way to it.                 *)
LEMMA BoardMoves ==
  ASSUME OpenInv, UNCHANGED peer, faults' \in 0 .. MaxFaults, over' \in {"no", "dropped"},
         toBoard' \subseteq toBoard,
         Longer(written, pcb.fin, written', pcb'.fin), written' <= MaxData,
         \A m \in toPeer' : m \in toPeer \/ Carries(m, written', pcb'.fin, peer.edge),
         (Gone(pcb) \/ Connected)'
  PROVE  OpenInv'
  <1>1. PeerHas(peer, written', pcb'.fin)
    BY StreamGrows DEF OpenInv
  <1>2. \A m \in toPeer' : Carries(m, written', pcb'.fin, peer.edge)
    BY StreamGrows DEF OpenInv
  <1>3. Answers(toBoard', peer.edge, Len(peer.read))
    BY DEF OpenInv, Answers
  <1>4. written' \in 0 .. MaxData
    BY StreamAssumption DEF Longer
  <1> QED
    BY <1>1, <1>2, <1>3, <1>4 DEF OpenInv

\* What may be sent is within the window.
LEMMA SendableCarries ==
  ASSUME NEW w \in Nat, NEW w2 \in Nat, NEW e \in Nat, NEW n \in Nat, NEW f \in BOOLEAN, NEW p,
         Live(p, w2, e, n), Longer(w, f, w2, p.fin), InWindow(n, w, f, e),
         NEW m, Sendable(m, w2, p)
  PROVE  Carries(m, w2, p.fin, e) /\ Reaches(End(m), p)
  <1> DEFINE s == [seq |-> m.seq, data |-> m.data]
             x == m.seq + DataLen(m)
  <1>1. /\ ~m.rst /\ s \in Packets(w2, p.fin) /\ x <= p.lastack + p.wnd
        /\ End(m) \in Nat /\ End(m) <= p.nxt
    BY DEF Sendable
  <1>2. /\ p \in Pcbs /\ p.lastack <= p.wl2 /\ Within(p.wl2 + p.wnd, e, n)
        /\ p.wl2 \in Nat /\ p.wnd \in Nat /\ p.lastack \in Nat /\ p.nxt \in Nat /\ p.fin \in BOOLEAN
    BY DEF Live, Rest, Pcbs
  <1>3. x \in Nat /\ x <= w2
    <2>1. s.seq = m.seq /\ DataLen(s) = DataLen(m)
      BY DEF DataLen, HasFin
    <2>2. s.seq \in Nat /\ DataLen(s) \in Nat /\ End(s) \in Nat
          /\ s.seq + DataLen(s) = IF End(s) <= w2 THEN End(s) ELSE w2
      <3> HIDE DEF s
      <3> QED
        BY <1>1, <1>2, PacketFacts
    <2> HIDE DEF s
    <2>3. s.seq + DataLen(s) \in Nat /\ s.seq + DataLen(s) <= w2
      BY <2>2
    <2> QED
      BY <2>1, <2>3
  <1>4. x <= e
    <2> DEFINE y == p.wl2 + p.wnd
    <2>1. y \in Nat /\ x <= y
      <3> HIDE DEF x
      <3> QED
        BY <1>1, <1>2, <1>3
    <2> HIDE DEF x, y
    <2>2. CASE y <= e
      BY <1>3, <2>1, <2>2
    <2>3. CASE y <= n /\ n <= e
      BY <1>3, <2>1, <2>3
    <2>4. CASE f /\ w <= e
      <3>1. w2 = w
        BY <2>4 DEF Longer
      <3> QED
        BY <1>3, <2>4, <3>1
    <2>5. y <= e \/ y <= n
      BY <1>2 DEF Within, y
    <2> QED
      BY <2>2, <2>3, <2>4, <2>5 DEF InWindow
  <1> QED
    BY <1>1, <1>4 DEF Carries, Reaches

(* A step of the board that leaves its pcb as it should be leaves all as it *)
(* should be.                                                               *)
LEMMA BoardKeeps ==
  ASSUME OpenInv, Connected, UNCHANGED peer, BoardStep(peer.edge, Len(peer.read)),
         faults' \in 0 .. MaxFaults, over' = over, toBoard' \subseteq toBoard,
         \A m \in toBoard' : Newer(m, pcb'.wl2, pcb'.wnd)
  PROVE  OpenInv' /\ Longer(written, pcb.fin, written', pcb'.fin)
  <1> DEFINE e == peer.edge
             n == Len(peer.read)
             w == written
             f == pcb.fin
  <1>1. PICK o : /\ pcb' = o.pcb /\ toPeer' = toPeer \cup o.out
                 /\ Follows(pcb, o, w, written', e, n)
    BY DEF BoardStep
  <1>2. /\ w \in Nat /\ f \in BOOLEAN /\ e \in Nat /\ n \in Nat /\ InWindow(n, w, f, e)
        /\ pcb \in Pcbs
    BY StreamAssumption DEF OpenInv, PeerHas, Peers, Connected, Live, Pcbs
  <1>3. /\ written' \in Nat /\ w <= written' /\ written' <= MaxData /\ Live(pcb', written', e, n)
        /\ \A y \in Nat : Reaches(y, pcb) => Reaches(y, pcb')
        /\ \A s \in o.out : Sendable(s, written', pcb')
        /\ f => pcb'.fin /\ written' = w
    BY <1>1 DEF Follows
  <1>4. pcb'.fin \in BOOLEAN
    BY <1>3 DEF Live, Pcbs
  <1>5. Longer(w, f, written', pcb'.fin)
    BY <1>2, <1>3, <1>4 DEF Longer
  <1>6. \A s \in o.out : Carries(s, written', pcb'.fin, e) /\ Reaches(End(s), pcb')
    <2> HIDE DEF e, n, w, f
    <2> QED
      BY <1>2, <1>3, <1>5, SendableCarries
  <1>7. Behind(pcb', peer, toPeer')
    <2>1. Behind(pcb, peer, toPeer)
      BY DEF Connected
    <2>2. Reaches(n, pcb')
      BY <1>2, <1>3, <2>1 DEF Behind
    <2>3. ASSUME NEW u \in peer.early PROVE Reaches(u[1] + 1, pcb')
      <3>1. u[1] + 1 \in Nat
        BY DEF OpenInv, PeerHas, Arrived
      <3> QED
        BY <1>3, <2>1, <3>1 DEF Behind
    <2>4. ASSUME NEW m \in toPeer' PROVE m = Rst \/ Reaches(End(m), pcb')
      <3>1. CASE m \in o.out
        BY <1>6, <3>1
      <3>2. CASE m \in toPeer /\ m # Rst
        <4> DEFINE s == [seq |-> m.seq, data |-> m.data]
        <4>1. s \in Packets(w, f)
          BY <3>2 DEF OpenInv, Carries
        <4>2. End(s) = End(m)
          BY DEF End
        <4>3. End(s) \in Nat
          <5> HIDE DEF s, w, f
          <5> QED
            BY <1>2, <4>1, PacketFacts
        <4> QED
          BY <1>3, <2>1, <3>2, <4>2, <4>3 DEF Behind
      <3> QED
        BY <1>1, <3>1, <3>2
    <2> QED
      BY <2>2, <2>3, <2>4 DEF Behind
  <1>8. (Gone(pcb) \/ Connected)'
    BY <1>3, <1>7 DEF Connected
  <1>9. \A m \in toPeer' : m \in toPeer \/ Carries(m, written', pcb'.fin, peer.edge)
    BY <1>1, <1>6
  <1>10. over' \in {"no", "dropped"}
    BY DEF OpenInv
  <1> QED
    BY <1>3, <1>5, <1>8, <1>9, <1>10, BoardMoves

\* What a step makes of the faults left.
LEMMA FaultsLeft ==
  ASSUME faults \in 0 .. MaxFaults, NEW net, NEW net2, NEW m \in net,
         net2 \in Left(net, m), Spent(net, net2)
  PROVE  faults' \in 0 .. MaxFaults /\ net2 \subseteq net
  <1>1. MaxFaults \in Nat /\ faults \in Nat
    BY StreamAssumption
  <1>2. CASE net2 = net
    <2>1. faults > 0
      BY <1>2 DEF Left
    <2> QED
      BY <1>1, <1>2, <2>1 DEF Spent
  <1>3. CASE net2 # net
    BY <1>1, <1>3 DEF Spent, Left
  <1> QED
    BY <1>2, <1>3

\* A timeout leaves no less than no faults.
LEMMA Expired ==
  ASSUME faults \in 0 .. MaxFaults, Expires
  PROVE  faults' \in 0 .. MaxFaults
  <1>1. MaxFaults \in Nat /\ faults \in Nat
    BY StreamAssumption
  <1> QED
    BY <1>1 DEF Expires

\* The stream as it is, is one it may have become.
LEMMA SameLonger ==
  ASSUME OpenInv PROVE Longer(written, pcb.fin, written, pcb.fin) /\ written <= MaxData
  BY StreamAssumption DEF OpenInv, Longer, Gone, Connected, Live, Pcbs

(* tcp_input: on a pcb that is active, or for one that is gone, answered by *)
(* a RST.                                                                   *)
LEMMA ReceiveKeeps ==
  ASSUME OpenInv, Receive
  PROVE  OpenInv' /\ Longer(written, pcb.fin, written', pcb'.fin)
  <1> DEFINE e == peer.edge
             n == Len(peer.read)
  <1>1. PICK m \in toBoard : Input(m)
    BY DEF Receive
  <1>2. toBoard' \in Left(toBoard, m) /\ Spent(toBoard, toBoard') /\ UNCHANGED peer
    BY <1>1 DEF Input
  <1>3. faults' \in 0 .. MaxFaults /\ toBoard' \subseteq toBoard
    BY <1>2, FaultsLeft DEF OpenInv
  <1>4. CASE Gone(pcb)
    <2>1. toPeer' = toPeer \cup {Rst} /\ UNCHANGED <<pcb, written, over>>
      BY <1>1, <1>4 DEF Input, Gone
    <2>2. \A x \in toPeer' : x \in toPeer \/ Carries(x, written', pcb'.fin, peer.edge)
      BY <2>1 DEF Carries
    <2>3. Longer(written, pcb.fin, written', pcb'.fin) /\ written' <= MaxData
      BY <2>1, SameLonger
    <2>4. (Gone(pcb) \/ Connected)' /\ over' \in {"no", "dropped"}
      BY <1>4, <2>1 DEF OpenInv, Gone
    <2> QED
      BY <1>2, <1>3, <2>2, <2>3, <2>4, BoardMoves
  <1>5. CASE Connected
    <2>1. /\ Live(pcb, written, e, n) /\ Reaches(n, pcb) /\ Offer(m, e, n)
          /\ Newer(m, pcb.wl2, pcb.wnd) /\ e \in Nat /\ n \in Nat /\ written \in 0 .. MaxData
      BY <1>5 DEF Connected, Behind, OpenInv, Answers, PeerHas, Peers
    <2>2. pcb.state # "CLOSED" /\ pcb.state # "TIME_WAIT"
      BY <2>1 DEF Live, Rest
    <2>3. Process_Input(m)
      BY <1>1, <2>2 DEF Input
    <2>4. /\ BoardStep(e, n) /\ over' = over
          /\ SameWindow(pcb, pcb') \/ (pcb'.wl2 = m.ack /\ pcb'.wnd = m.wnd)
      <3> HIDE DEF e, n
      <3> QED
        BY <2>1, <2>3, InputKeeps
    <2>5. \A x \in toBoard' : Newer(x, pcb'.wl2, pcb'.wnd)
      <3>1. CASE SameWindow(pcb, pcb')
        BY <1>3, <1>5, <3>1 DEF Connected, SameWindow
      <3>2. CASE pcb'.wl2 = m.ack /\ pcb'.wnd = m.wnd
        BY <1>3, <3>2 DEF OpenInv, Answers
      <3> QED
        BY <2>4, <3>1, <3>2
    <2> QED
      BY <1>2, <1>3, <1>5, <2>4, <2>5, BoardKeeps
  <1> QED
    BY <1>4, <1>5 DEF OpenInv

\* A timer runs for a pcb that is active.
LEMMA ActiveConnected ==
  ASSUME OpenInv, Active
  PROVE  /\ Connected /\ Live(pcb, written, peer.edge, Len(peer.read)) /\ peer.edge \in Nat
         /\ Len(peer.read) \in Nat /\ written \in 0 .. MaxData /\ faults \in 0 .. MaxFaults
  BY DEF OpenInv, Active, Gone, Connected, PeerHas, Peers

\* tcp_slowtmr: the poll and the retransmission timer.
LEMMA TimersKeep ==
  ASSUME OpenInv, Poll \/ Retransmit
  PROVE  OpenInv' /\ Longer(written, pcb.fin, written', pcb'.fin)
  <1>1. /\ Connected /\ Live(pcb, written, peer.edge, Len(peer.read)) /\ peer.edge \in Nat
        /\ Len(peer.read) \in Nat /\ written \in 0 .. MaxData /\ faults \in 0 .. MaxFaults
    BY ActiveConnected DEF Poll, Retransmit
  <1>2. BoardStep(peer.edge, Len(peer.read)) /\ SameWindow(pcb, pcb')
    <2>1. CASE Poll
      BY <1>1, <2>1, PollKeeps
    <2>2. CASE Retransmit
      BY <1>1, <2>2, RetransmitKeeps
    <2> QED
      BY <2>1, <2>2
  <1>3. UNCHANGED <<over, toBoard, peer>>
    BY DEF Poll, Retransmit
  <1>4. faults' \in 0 .. MaxFaults
    BY <1>1, Expired DEF Poll, Retransmit
  <1>5. \A m \in toBoard' : Newer(m, pcb'.wl2, pcb'.wnd)
    BY <1>1, <1>2, <1>3 DEF Connected, SameWindow
  <1> QED
    BY <1>1, <1>2, <1>3, <1>4, <1>5, BoardKeeps

\* The first segment of two queues, one behind the other.
LEMMA HeadOfTwo ==
  ASSUME NEW S, NEW a \in Seq(S), NEW b \in Seq(S), a \o b # <<>>
  PROVE  /\ Head(a \o b) \in S
         /\ a # <<>> => Head(a \o b) = a[1]
         /\ a = <<>> => b # <<>> /\ Head(a \o b) = b[1]
  <1>1. a = <<>> => a \o b = b
    OBVIOUS
  <1>2. a \o b \in Seq(S) /\ Len(a \o b) = Len(a) + Len(b) /\ Head(a \o b) = (a \o b)[1]
        /\ Len(a) \in Nat
    OBVIOUS
  <1>3. a # <<>> => (a \o b)[1] = a[1]
    OBVIOUS
  <1> QED
    BY <1>1, <1>2, <1>3

\* The first unit of a segment alone is one too.
LEMMA FirstUnit ==
  ASSUME NEW w \in Nat, NEW f \in BOOLEAN, NEW h \in Packets(w, f),
         NEW s, s = [seq |-> h.seq, data |-> <<Head(h.data)>>]
  PROVE  s \in Packets(w, f) /\ Len(s.data) = 1 /\ End(s) = h.seq + 1 /\ End(s) <= End(h)
  <1>1. /\ h \in Bare /\ h.seq \in Nat /\ Len(h.data) \in Nat \ {0} /\ End(h) \in Nat
        /\ h.seq < End(h) /\ h.data \in Seq(Nat) /\ End(h) <= Total(w, f)
    <2>1. /\ h \in Bare /\ h.seq \in Nat /\ Len(h.data) \in Nat \ {0} /\ End(h) \in Nat
          /\ h.seq < End(h) /\ End(h) <= Total(w, f)
      BY PacketFacts
    <2> QED
      BY <2>1 DEF Bare
  <1>2. Head(h.data) = Unit(h.seq, w)
    <2>1. Head(h.data) = h.data[1] /\ 1 \in 1 .. Len(h.data)
      BY <1>1
    <2>2. h.data[1] = Unit(h.seq + 1 - 1, w)
      BY <2>1 DEF Packets
    <2>3. h.seq + 1 - 1 = h.seq
      BY <1>1
    <2> QED
      BY <2>1, <2>2, <2>3
  <1>3. /\ s.seq = h.seq /\ s.data = <<Unit(h.seq, w)>> /\ s \in Bare
    <2>1. Unit(h.seq, w) \in Nat
      BY <1>1 DEF Unit, Fin
    <2> QED
      BY <1>1, <1>2, <2>1 DEF Bare
  <1>4. /\ Len(s.data) = 1 /\ s.data # <<>> /\ s.data[1] = Unit(h.seq, w)
    BY <1>3
  <1>5. DataLen(s) <= Mss
    <2>1. DataLen(s) <= 1
      BY <1>4 DEF DataLen
    <2> QED
      BY <2>1, <1>4, StreamAssumption DEF DataLen
  <1>6. End(s) = h.seq + 1 /\ End(s) <= Total(w, f) /\ End(s) <= End(h)
    <2>1. Total(w, f) \in Nat
      BY DEF Total
    <2>2. End(s) = h.seq + 1
      BY <1>3, <1>4 DEF End
    <2> DEFINE a == h.seq
               b == End(h)
               t == Total(w, f)
    <2>3. a + 1 <= t /\ a + 1 <= b
      <3>1. a \in Nat /\ b \in Nat /\ t \in Nat /\ a < b /\ b <= t
        BY <1>1, <2>1
      <3> HIDE DEF a, b, t
      <3> QED
        BY <3>1
    <2> QED
      BY <2>2, <2>3
  <1>7. s \in Packets(w, f)
    <2>1. ASSUME NEW i \in 1 .. Len(s.data) PROVE s.data[i] = Unit(s.seq + i - 1, w)
      <3>1. i = 1 /\ s.seq + i - 1 = h.seq
        BY <1>1, <1>3, <1>4
      <3> QED
        BY <1>4, <3>1
    <2> QED
      BY <1>3, <1>4, <1>5, <1>6, <2>1 DEF Packets, End
  <1> QED
    BY <1>4, <1>6, <1>7

\* The segment of a window probe.
LEMMA ProbeSegment ==
  ASSUME NEW w \in Nat, NEW p \in Pcbs, Kept(p, w), p.unacked \o p.unsent # <<>>,
         NEW m, m = Segment(p, [seq |-> Head(p.unacked \o p.unsent).seq,
                                data |-> <<Head(Head(p.unacked \o p.unsent).data)>>]),
         NEW e
  PROVE  Carries(m, w, p.fin, e) /\ Reaches(End(m), p)
  <1> DEFINE f == p.fin
             h == Head(p.unacked \o p.unsent)
             s == [seq |-> h.seq, data |-> <<Head(h.data)>>]
  <1>1. /\ p.unacked \in Seq(Packets(w, f)) /\ p.unsent \in Seq(Packets(w, f)) /\ f \in BOOLEAN
        /\ p.nxt \in Nat
    BY KeptShaped DEF Pcbs
  <1>2. /\ h \in Packets(w, f)
        /\ p.unacked # <<>> => h = p.unacked[1]
        /\ p.unacked = <<>> => p.unsent # <<>> /\ h = p.unsent[1]
    <2> DEFINE S == Packets(w, f)
    <2>1. p.unacked \in Seq(S) /\ p.unsent \in Seq(S)
      BY <1>1
    <2> HIDE DEF S
    <2> QED
      BY <2>1, HeadOfTwo DEF S
  <1>3. h \in Bare /\ h.seq \in Nat /\ End(h) \in Nat
    <2> HIDE DEF f, h
    <2> QED
      BY <1>1, <1>2, PacketFacts
  <1>4. /\ s \in Packets(w, f) /\ Len(s.data) = 1 /\ End(s) = h.seq + 1 /\ End(s) <= End(h)
    <2> HIDE DEF f, h
    <2> QED
      BY <1>1, <1>2, FirstUnit
  <1>5. s \in Bare /\ m = Segment(p, s)
    BY <1>4 DEF Packets
  <1> HIDE DEF s, h
  <1>6. /\ ~m.rst /\ m.seq = s.seq /\ m.data = s.data /\ End(m) = End(s)
         /\ [seq |-> m.seq, data |-> m.data] = s
    BY <1>5, SegmentLike
  <1>7. Carries(m, w, f, e)
    <2>1. Len(m.data) <= 1
      <3>1. m.data = s.data
        BY <1>6
      <3> DEFINE l == Len(m.data)
      <3>2. l = 1
        BY <1>4, <3>1
      <3> HIDE DEF l
      <3>3. l <= 1
        BY <3>2
      <3> QED
        BY <3>3 DEF l
    <2>2. ~m.rst /\ [seq |-> m.seq, data |-> m.data] \in Packets(w, f)
      BY <1>4, <1>6
    <2> HIDE DEF f
    <2> QED
      BY <2>1, <2>2 DEF Carries
  <1>8. Reaches(End(s), p)
    <2>1. CASE p.unacked # <<>>
      <3>1. h \in Flying(w, f, p.lastack, p.wnd, p.nxt)
        <4> DEFINE F == Flying(w, f, p.lastack, p.wnd, p.nxt)
        <4>1. p.unacked \in Seq(F)
          BY DEF Kept
        <4> HIDE DEF F
        <4>2. p.unacked[1] \in F
          BY <2>1, <4>1
        <4> QED
          BY <1>2, <2>1, <4>2 DEF F
      <3>2. End(h) <= p.nxt
        BY <3>1 DEF Flying
      <3> DEFINE a == End(s)
                 b == End(h)
      <3>3. a <= p.nxt
        <4>1. a \in Nat /\ b \in Nat /\ a <= b /\ b <= p.nxt
          BY <1>3, <1>4, <3>2
        <4> HIDE DEF a, b
        <4> QED
          BY <1>1, <4>1
      <3> QED
        BY <3>3 DEF Reaches
    <2>2. CASE p.unacked = <<>>
      <3>1. p.unsent # <<>> /\ h = p.unsent[1]
        BY <1>2, <2>2
      <3>2. End(s) <= p.unsent[1].seq + 1
        BY <1>3, <1>4, <3>1
      <3> QED
        BY <2>2, <3>1, <3>2 DEF Reaches
    <2> QED
      BY <2>1, <2>2
  <1> QED
    BY <1>6, <1>7, <1>8

\* tcp_zero_window_probe sends one unit, of the first segment that waits.
LEMMA ProbeKeeps ==
  ASSUME OpenInv, Probe
  PROVE  OpenInv' /\ Longer(written, pcb.fin, written', pcb'.fin)
  <1> DEFINE m == Segment(pcb, [seq |-> Head(pcb.unacked \o pcb.unsent).seq,
                                data |-> <<Head(Head(pcb.unacked \o pcb.unsent).data)>>])
  <1>1. /\ Connected /\ Live(pcb, written, peer.edge, Len(peer.read))
        /\ written \in Nat /\ faults \in 0 .. MaxFaults
    BY ActiveConnected, StreamAssumption DEF Probe
  <1>2. /\ pcb.unacked \o pcb.unsent # <<>> /\ toPeer' = toPeer \cup {m}
        /\ UNCHANGED <<pcb, written, over, toBoard, peer>> /\ Expires
    BY DEF Probe
  <1>3. pcb \in Pcbs /\ Kept(pcb, written)
    BY <1>1 DEF Live
  <1>4. Carries(m, written, pcb.fin, peer.edge) /\ Reaches(End(m), pcb)
    BY <1>1, <1>2, <1>3, ProbeSegment
  <1> HIDE DEF m
  <1>5. Connected'
    <2>1. Behind(pcb, peer, toPeer')
      BY <1>1, <1>2, <1>4 DEF Connected, Behind
    <2> QED
      BY <1>1, <1>2, <2>1 DEF Connected
  <1>6. faults' \in 0 .. MaxFaults
    BY <1>1, <1>2, Expired
  <1>7. Longer(written, pcb.fin, written', pcb'.fin) /\ written' <= MaxData
    BY <1>2, SameLonger
  <1>8. \A x \in toPeer' : x \in toPeer \/ Carries(x, written', pcb'.fin, peer.edge)
    BY <1>2, <1>4
  <1>9. over' \in {"no", "dropped"}
    BY <1>2 DEF OpenInv
  <1> QED
    BY <1>2, <1>5, <1>6, <1>7, <1>8, <1>9, BoardMoves

\* tcp_slowtmr gives up.
LEMMA DropKeeps ==
  ASSUME OpenInv, Drop
  PROVE  OpenInv' /\ Longer(written, pcb.fin, written', pcb'.fin)
  <1>1. pcb \in Pcbs /\ faults \in 0 .. MaxFaults
    BY ActiveConnected DEF Drop, Live
  <1>2. /\ pcb' = Freed(pcb) /\ over' = "dropped"
        /\ UNCHANGED <<written, toPeer, toBoard, peer, faults>>
    BY DEF Drop
  <1>3. Gone(pcb') /\ pcb'.fin = pcb.fin
    BY <1>1, <1>2 DEF Gone, Freed, Purged, Pcbs
  <1>4. Longer(written, pcb.fin, written', pcb'.fin) /\ written' <= MaxData
    BY <1>2, <1>3, SameLonger
  <1>5. (Gone(pcb) \/ Connected)'
    BY <1>3
  <1> QED
    BY <1>1, <1>2, <1>4, <1>5, BoardMoves

\* A message is lost.
LEMMA LoseKeeps ==
  ASSUME OpenInv, ~peer.closed, Lose
  PROVE  OpenInv'
  <1>1. /\ toPeer' \subseteq toPeer /\ toBoard' \subseteq toBoard
        /\ UNCHANGED <<pcb, written, over, peer>> /\ faults > 0 /\ faults' = faults - 1
    BY DEF Lose
  <1>2. faults' \in 0 .. MaxFaults
    BY <1>1, StreamAssumption DEF OpenInv
  <1>3. PeerHas(peer, written, pcb.fin) /\ peer.edge \in Nat /\ Len(peer.read) \in Nat
    <2>1. PeerHas(peer, written, pcb.fin)
      BY DEF OpenInv
    <2>2. peer \in Peers
      BY <2>1 DEF PeerHas
    <2> QED
      BY <2>1, <2>2 DEF Peers
  <1>4. Connected => Behind(pcb, peer, toPeer')
    BY <1>1 DEF Connected, Behind
  <1> QED
    BY <1>1, <1>2, <1>3, <1>4, PeerMoves

\* A wider window has what a narrower one had.
LEMMA WiderPeer ==
  ASSUME NEW q, NEW w \in Nat, NEW f \in BOOLEAN, PeerHas(q, w, f),
         NEW e2 \in Nat, q.edge <= e2, e2 <= Len(q.read) + Buf,
         NEW q2, q2 = [q EXCEPT !.edge = e2]
  PROVE  /\ PeerHas(q2, w, f) /\ q2 \in Peers /\ q2.read = q.read /\ q2.early = q.early
         /\ q2.edge = e2 /\ q2.closed = q.closed
  <1> DEFINE e == q.edge
  <1>1. q \in Peers /\ e \in Nat /\ Len(q.read) \in Nat
    BY DEF PeerHas, Peers
  <1>2. /\ q2 \in Peers /\ q2.read = q.read /\ q2.early = q.early
        /\ q2.edge = e2 /\ q2.closed = q.closed
    BY <1>1 DEF Peers
  <1>3. \A x \in Nat : InWindow(x, w, f, e) => InWindow(x, w, f, e2)
    BY <1>1, WindowGrows
  <1>4. ASSUME NEW u \in q.early PROVE Arrived(u, w, f, e2)
    <2>1. Arrived(u, w, f, e)
      BY DEF PeerHas
    <2>2. u[1] + 1 \in Nat
      BY <2>1 DEF Arrived
    <2> QED
      BY <1>3, <2>1, <2>2 DEF Arrived
  <1>5. InWindow(Len(q.read), w, f, e2)
    BY <1>1, <1>3 DEF PeerHas
  <1> QED
    BY <1>2, <1>4, <1>5 DEF PeerHas

\* The peer opens its window.
LEMMA PeerReadsKeeps ==
  ASSUME OpenInv, ~peer.closed, PeerReads
  PROVE  OpenInv'
  <1>1. PICK k \in Steps : /\ peer.edge + k <= Len(peer.read) + Buf
                           /\ peer' = [peer EXCEPT !.edge = @ + k]
    BY DEF PeerReads
  <1>2. toBoard' = toBoard \cup {Ack(peer')} /\ UNCHANGED <<pcb, written, over, toPeer, faults>>
    BY DEF PeerReads
  <1> DEFINE e == peer.edge
             e2 == peer.edge + k
  <1>3. /\ PeerHas(peer, written, pcb.fin) /\ e \in Nat /\ k \in Nat /\ written \in Nat
        /\ pcb.fin \in BOOLEAN /\ Len(peer.read) \in Nat
    BY StreamAssumption DEF OpenInv, PeerHas, Peers, Gone, Connected, Live, Pcbs
  <1>4. e2 \in Nat /\ e <= e2
    <2> HIDE DEF e
    <2>1. e + k \in Nat /\ e <= e + k
      BY <1>3
    <2> QED
      BY <2>1 DEF e
  <1> HIDE DEF e2
  <1>5. peer' = [peer EXCEPT !.edge = e2] /\ e2 <= Len(peer.read) + Buf
    BY <1>1 DEF e2
  <1>6. /\ PeerHas(peer', written, pcb.fin) /\ peer'.read = peer.read /\ peer'.early = peer.early
        /\ peer'.edge = e2 /\ peer'.closed = peer.closed
    BY <1>3, <1>4, <1>5, WiderPeer
  <1>7. Connected => Behind(pcb, peer', toPeer')
    BY <1>2, <1>6 DEF Connected, Behind
  <1>8. faults' \in 0 .. MaxFaults
    BY <1>2 DEF OpenInv
  <1>9. /\ peer.edge <= peer'.edge /\ Len(peer.read) <= Len(peer'.read) /\ ~peer'.closed
        /\ toPeer' \subseteq toPeer /\ toBoard' \subseteq toBoard \cup {Ack(peer')}
    BY <1>2, <1>3, <1>4, <1>6
  <1> QED
    BY <1>2, <1>6, <1>7, <1>8, <1>9, PeerMoves

\* A segment the peer may be sent: a RST, an empty one, or one of the stream.
Honest(m, w, f) ==
    \/ m.rst
    \/ m.data = <<>>
    \/ [seq |-> m.seq, data |-> m.data] \in Packets(w, f)

\* What is on its way before the peer closes is one.
LEMMA CarriesHonest ==
  ASSUME NEW m, NEW w, NEW f, NEW e, Carries(m, w, f, e)
  PROVE  Honest(m, w, f)
  BY DEF Carries, Honest, Rst

\* What the peer has when m arrives goes no farther than it went, or than m.
Further(q, q2, m) ==
    /\ Len(q.read) <= Len(q2.read)
    /\ \/ Len(q2.read) = Len(q.read)
       \/ \E u \in q.early : u[1] + 1 = Len(q2.read)
       \/ m # Rst /\ End(m) \in Nat /\ Len(q2.read) <= End(m)
    /\ \A u \in q2.early : u \in q.early \/ (m # Rst /\ End(m) \in Nat /\ u[1] + 1 <= End(m))

\* A segment arrives at the peer: what it reads is what was written.
LEMMA PeerTakes ==
  ASSUME NEW w \in Nat, NEW f \in BOOLEAN, PeerHas(peer, w, f),
         NEW m, Honest(m, w, f), PeerReceive(m)
  PROVE  /\ PeerHas(peer', w, f) /\ peer'.edge = peer.edge /\ peer'.closed = peer.closed
         /\ Further(peer, peer', m)
         /\ toBoard' \subseteq toBoard \cup {Ack(peer')}
  <1> DEFINE n == Len(peer.read)
             e == peer.edge
  <1>1. peer \in Peers /\ e \in Nat /\ n \in Nat
    BY DEF PeerHas, Peers
  <1>2. CASE peer.reset
    <2>1. UNCHANGED <<peer, toBoard>>
      BY <1>2 DEF PeerReceive
    <2> QED
      BY <1>1, <2>1 DEF Further
  <1>3. CASE ~peer.reset /\ m.rst
    <2>1. peer' = [peer EXCEPT !.reset = TRUE] /\ UNCHANGED toBoard
      BY <1>3 DEF PeerReceive
    <2>2. /\ peer' \in Peers /\ peer'.read = peer.read /\ peer'.early = peer.early
          /\ peer'.edge = peer.edge /\ peer'.closed = peer.closed
      BY <1>1, <2>1 DEF Peers
    <2> QED
      BY <1>1, <2>1, <2>2 DEF PeerHas, Further
  <1>4. CASE ~peer.reset /\ ~m.rst
    <2> DEFINE taken == {<<m.seq + i - 1, m.data[i]>> : i \in
                           {j \in DOMAIN m.data :
                              \/ m.seq + j - 1 < e
                              \/ m.data[j] = Fin /\ m.seq + j - 1 = e}}
               got == peer.early \cup taken
               r == Gathered(peer.read, got)
               n2 == Len(r)
               early == {u \in got : u[1] >= n2}
    <2>1. /\ peer' = [peer EXCEPT !.read = r, !.acked = @ \/ m.ack = 1, !.early = early]
          /\ toBoard' = toBoard \cup (IF m.data = <<>> THEN {} ELSE {Ack(peer')})
      BY <1>4 DEF PeerReceive
    <2>2. \A u \in taken : /\ u \in Nat \X Nat /\ Arrived(u, w, f, e)
                           /\ m # Rst /\ u[1] + 1 <= End(m) /\ End(m) \in Nat
      <3>1. ASSUME NEW u \in taken
            PROVE  /\ u \in Nat \X Nat /\ Arrived(u, w, f, e)
                   /\ m # Rst /\ u[1] + 1 <= End(m) /\ End(m) \in Nat
        <4>1. PICK j \in DOMAIN m.data : /\ m.seq + j - 1 < e \/ (m.data[j] = Fin /\ m.seq + j - 1 = e)
                                         /\ u = <<m.seq + j - 1, m.data[j]>>
          OBVIOUS
        <4>2. m # Rst
          BY <1>4 DEF Rst
        <4>3. m.data # <<>>
          BY <4>1
        <4>4. [seq |-> m.seq, data |-> m.data] \in Packets(w, f)
          BY <1>4, <4>3 DEF Honest
        <4> HIDE DEF taken, e
        <4> QED
          BY <1>1, <4>1, <4>2, <4>4, TakenArrives
      <3> QED
        BY <3>1
    <2> HIDE DEF taken
    <2>3. \A u \in got : u \in Nat \X Nat /\ Arrived(u, w, f, e)
      <3>1. peer.early \subseteq Nat \X Nat /\ \A u \in peer.early : Arrived(u, w, f, e)
        BY <1>1 DEF Peers, PeerHas
      <3> QED
        BY <2>2, <3>1
    <2>4. \A u \in got : u \in peer.early \/ (m # Rst /\ u[1] + 1 <= End(m) /\ End(m) \in Nat)
      BY <2>2
    <2> HIDE DEF got
    <2>5. GathersTo(peer.read, got, w, r)
      <3>1. \A u \in got : u[1] \in Nat /\ u[2] = Unit(u[1], w)
        BY <2>3 DEF Arrived
      <3>2. peer.read \in Seq(Nat)
        BY <1>1 DEF Peers
      <3> QED
        BY <3>1, <3>2, GatheredIs
    <2> HIDE DEF r
    <2>6. /\ r \in Seq(Nat) /\ n <= n2 /\ n2 \in Nat
          /\ \A i \in 1 .. n2 : r[i] = IF i <= n THEN peer.read[i] ELSE Unit(i - 1, w)
          /\ n2 = n \/ \E u \in got : u[1] + 1 = n2
      BY <2>5 DEF GathersTo
    <2> HIDE DEF n2
    <2>7. /\ peer' \in Peers /\ peer'.read = r /\ peer'.early = early
          /\ peer'.edge = e /\ peer'.closed = peer.closed
      <3> DEFINE a == peer.acked \/ m.ack = 1
      <3>1. peer' = [peer EXCEPT !.read = r, !.acked = a, !.early = early] /\ a \in BOOLEAN
        BY <2>1
      <3>2. early \in SUBSET (Nat \X Nat)
        BY <2>3
      <3> HIDE DEF a, early
      <3> QED
        BY <1>1, <2>6, <3>1, <3>2 DEF Peers
    <2>8. n2 <= Total(w, f) /\ InWindow(n2, w, f, e)
      <3>1. CASE n2 = n
        BY <1>1, <3>1 DEF PeerHas
      <3>2. CASE n2 # n
        <4>1. PICK u \in got : u[1] + 1 = n2
          BY <2>6, <3>2
        <4>2. u[1] \in Nat /\ u[1] < Total(w, f) /\ InWindow(n2, w, f, e) /\ Total(w, f) \in Nat
          BY <1>1, <2>3, <4>1 DEF Arrived, Total
        <4> DEFINE k == u[1]
                   t == Total(w, f)
        <4>3. k + 1 <= t
          <5> HIDE DEF k, t
          <5>1. k \in Nat /\ t \in Nat /\ k < t
            BY <4>2 DEF k, t
          <5> QED
            BY <5>1
        <4> QED
          BY <4>1, <4>2, <4>3
      <3> QED
        BY <3>1, <3>2
    <2>9. PeerHas(peer', w, f)
      <3>1. \A i \in 1 .. n2 : r[i] = Unit(i - 1, w)
        <4>1. ASSUME NEW i \in 1 .. n2 PROVE r[i] = Unit(i - 1, w)
          <5>1. CASE i <= n
            <6>1. i \in 1 .. n
              BY <2>6, <5>1
            <6> QED
              BY <1>1, <2>6, <5>1, <6>1 DEF PeerHas
          <5>2. CASE ~(i <= n)
            BY <2>6, <5>2
          <5> QED
            BY <5>1, <5>2
        <4> QED
          BY <4>1
      <3>2. e <= n2 + Buf
        <4>1. e <= n + Buf
          BY <1>1 DEF PeerHas
        <4> HIDE DEF n, e
        <4> QED
          BY <1>1, <2>6, <4>1, StreamAssumption
      <3>3. \A u \in early : Arrived(u, w, f, e)
        BY <2>3
      <3> HIDE DEF early
      <3> QED
        BY <2>7, <2>8, <3>1, <3>2, <3>3 DEF PeerHas, n2
    <2>10. Further(peer, peer', m)
      <3>1. n2 = n \/ (\E u \in peer.early : u[1] + 1 = n2) \/ (m # Rst /\ End(m) \in Nat /\ n2 <= End(m))
        BY <2>4, <2>6
      <3>2. \A u \in early : u \in peer.early \/ (m # Rst /\ End(m) \in Nat /\ u[1] + 1 <= End(m))
        BY <2>4
      <3> HIDE DEF early
      <3> QED
        BY <2>6, <2>7, <3>1, <3>2 DEF Further, n2
    <2> QED
      BY <2>1, <2>7, <2>9, <2>10
  <1> QED
    BY <1>2, <1>3, <1>4

\* Before the peer closes, the invariant is kept.
LEMMA PeerReceiveKeeps ==
  ASSUME OpenInv, ~peer.closed, NEW m \in toPeer, PeerReceive(m)
  PROVE  OpenInv' /\ UNCHANGED <<pcb, written>> /\ Len(peer.read) <= Len(peer'.read)
  <1> DEFINE w == written
             f == pcb.fin
  <1>1. w \in Nat /\ f \in BOOLEAN /\ PeerHas(peer, w, f)
    BY StreamAssumption DEF OpenInv, Gone, Connected, Live, Pcbs
  <1>2. /\ toPeer' \in Left(toPeer, m) /\ Spent(toPeer, toPeer') /\ UNCHANGED <<pcb, written, over>>
    BY DEF PeerReceive
  <1>3. faults' \in 0 .. MaxFaults /\ toPeer' \subseteq toPeer
    BY <1>2, FaultsLeft DEF OpenInv
  <1>4. Honest(m, w, f)
    <2>1. Carries(m, w, f, peer.edge)
      BY DEF OpenInv
    <2> QED
      BY <2>1, CarriesHonest
  <1>5. /\ PeerHas(peer', w, f) /\ peer'.edge = peer.edge /\ peer'.closed = peer.closed
        /\ Further(peer, peer', m)
        /\ toBoard' \subseteq toBoard \cup {Ack(peer')}
    <2> HIDE DEF w, f
    <2> QED
      BY <1>1, <1>4, PeerTakes
  <1>6. /\ peer.edge \in Nat /\ Len(peer'.read) \in Nat
        /\ \A u \in peer'.early : u[1] + 1 \in Nat
    BY <1>1, <1>5 DEF PeerHas, Peers
  <1>7. ASSUME Connected PROVE Behind(pcb, peer', toPeer')
    <2>1. pcb \in Pcbs /\ Reaches(Len(peer.read), pcb)
          /\ (\A u \in peer.early : Reaches(u[1] + 1, pcb))
          /\ (\A x \in toPeer : x = Rst \/ Reaches(End(x), pcb))
      BY <1>7 DEF Connected, Behind, Live
    <2>2. m # Rst => \A x \in Nat : End(m) \in Nat /\ x <= End(m) => Reaches(x, pcb)
      BY <2>1, Nearer
    <2>3. Reaches(Len(peer'.read), pcb)
      BY <1>5, <1>6, <2>1, <2>2 DEF Further
    <2>4. \A u \in peer'.early : Reaches(u[1] + 1, pcb)
      BY <1>5, <1>6, <2>1, <2>2 DEF Further
    <2> QED
      BY <1>3, <2>1, <2>3, <2>4 DEF Behind
  <1>8. Len(peer.read) <= Len(peer'.read) /\ peer.edge <= peer'.edge
    BY <1>5, <1>6 DEF Further
  <1> QED
    BY <1>1, <1>2, <1>3, <1>5, <1>7, <1>8, PeerMoves

\* What a step of the peer may change; once closed it stays so.
LEMMA WholeStays ==
  ASSUME Whole(peer), [Next]_vars
  PROVE  Whole(peer') /\ (peer.closed => peer'.closed)
  <1>1. CASE UNCHANGED peer
    BY <1>1
  <1>2. ASSUME NEW m \in toPeer, PeerReceive(m)
        PROVE  Whole(peer') /\ (peer.closed => peer'.closed)
    <2>1. CASE peer.reset
      BY <1>2, <2>1 DEF PeerReceive
    <2>2. CASE ~peer.reset /\ m.rst
      <3>1. peer' = [peer EXCEPT !.reset = TRUE]
        BY <1>2, <2>2 DEF PeerReceive
      <3> QED
        BY <3>1 DEF Whole
    <2>3. CASE ~peer.reset /\ ~m.rst
      <3> DEFINE taken == {<<m.seq + i - 1, m.data[i]>> : i \in
                             {j \in DOMAIN m.data :
                                \/ m.seq + j - 1 < peer.edge
                                \/ m.data[j] = Fin /\ m.seq + j - 1 = peer.edge}}
                 r == Gathered(peer.read, peer.early \cup taken)
                 a == peer.acked \/ m.ack = 1
                 x == {u \in peer.early \cup taken : u[1] >= Len(r)}
      <3>1. peer' = [peer EXCEPT !.read = r, !.acked = a, !.early = x]
        BY <1>2, <2>3 DEF PeerReceive
      <3> HIDE DEF r, a, x
      <3> QED
        BY <3>1 DEF Whole
    <2> QED
      BY <2>1, <2>2, <2>3
  <1>3. CASE PeerReads
    <2>1. \E x : peer' = [peer EXCEPT !.edge = x]
      BY <1>3 DEF PeerReads
    <2> QED
      BY <2>1 DEF Whole
  <1>4. CASE PeerCloses
    <2>1. peer' = [peer EXCEPT !.closed = TRUE]
      BY <1>4 DEF PeerCloses
    <2> QED
      BY <2>1 DEF Whole
  <1>5. CASE UNCHANGED vars
    BY <1>5 DEF vars
  <1> QED
    BY <1>1, <1>2, <1>3, <1>4, <1>5
    DEF Next, PeerStep, Receive, Input, Poll, Retransmit, Probe, Drop, TimeWaitOver, PeerRepeats, Lose

\* A step of the board.
BoardActs == Receive \/ Poll \/ Retransmit \/ Probe \/ Drop

(* No step of the board ends the invariant, takes back what was written, or *)
(* touches the peer.                                                        *)
LEMMA BoardActsKeep ==
  ASSUME OpenInv, BoardActs
  PROVE  OpenInv' /\ Longer(written, pcb.fin, written', pcb'.fin) /\ UNCHANGED peer
  <1>1. UNCHANGED peer
    BY DEF BoardActs, Receive, Input, Poll, Retransmit, Probe, Drop
  <1> QED
    BY <1>1, ReceiveKeeps, TimersKeep, ProbeKeeps, DropKeeps DEF BoardActs

\* A step of the peer that does not close it, or of the network.
PeerActs == Lose \/ PeerReads \/ (\E m \in toPeer : PeerReceive(m))

\* Nor does one of the peer or of the network, before the peer closes.
LEMMA PeerActsKeep ==
  ASSUME OpenInv, ~peer.closed, PeerActs
  PROVE  OpenInv' /\ UNCHANGED <<pcb, written>> /\ Len(peer.read) <= Len(peer'.read)
  <1>0. peer \in Peers /\ Len(peer.read) \in Nat
    BY DEF OpenInv, PeerHas, Peers
  <1>1. CASE Lose
    BY <1>0, <1>1, LoseKeeps DEF Lose
  <1>2. CASE PeerReads
    <2>1. peer'.read = peer.read
      BY <1>0, <1>2 DEF PeerReads, Peers
    <2> QED
      BY <1>0, <1>2, <2>1, PeerReadsKeeps DEF PeerReads
  <1>3. ASSUME NEW m \in toPeer, PeerReceive(m)
        PROVE  OpenInv' /\ UNCHANGED <<pcb, written>> /\ Len(peer.read) <= Len(peer'.read)
    BY <1>3, PeerReceiveKeeps
  <1> QED
    BY <1>1, <1>2, <1>3 DEF PeerActs

\* While the peer has not closed there are no other steps.
LEMMA OpenSteps ==
  ASSUME OpenInv, ~peer.closed, Next
  PROVE  BoardActs \/ PeerActs \/ PeerCloses
  <1>1. ~TimeWaitOver
    BY DEF OpenInv, TimeWaitOver, Gone, Connected, Live, Rest
  <1>2. ~PeerRepeats
    BY DEF PeerRepeats
  <1> QED
    BY <1>1, <1>2 DEF Next, PeerStep, BoardActs, PeerActs

\* The invariant begins.
LEMMA InvInit == Init => IInv
  <1> SUFFICES ASSUME Init PROVE IInv
    OBVIOUS
  <1>1. Whole(peer)
    BY DEF Init, Whole
  <1> QED
    BY <1>1, InitOpen DEF IInv

\* And it is inductive: once the peer has closed it says no more of the pcb.
LEMMA InvNext == IInv /\ [Next]_vars => IInv'
  <1> SUFFICES ASSUME IInv, [Next]_vars PROVE IInv'
    OBVIOUS
  <1>1. Whole(peer') /\ (peer.closed => peer'.closed)
    BY WholeStays DEF IInv
  <1>2. CASE peer.closed
    BY <1>1, <1>2 DEF IInv
  <1>3. CASE ~peer.closed /\ UNCHANGED vars
    <2>1. OpenInv
      BY <1>3 DEF IInv
    <2>2. OpenInv'
      BY <1>3, <2>1
      DEF vars, OpenInv, Answers, Gone, Connected, Behind
    <2> QED
      BY <1>1, <2>2 DEF IInv
  <1>4. CASE ~peer.closed /\ Next
    <2>1. OpenInv
      BY <1>4 DEF IInv
    <2>2. CASE BoardActs
      BY <1>1, <2>1, <2>2, BoardActsKeep DEF IInv
    <2>3. CASE PeerActs
      BY <1>1, <1>4, <2>1, <2>3, PeerActsKeep DEF IInv
    <2>4. CASE PeerCloses
      <3>1. peer'.closed
        <4>1. peer' = [peer EXCEPT !.closed = TRUE] /\ Whole(peer)
          BY <2>4 DEF PeerCloses, IInv
        <4> QED
          BY <4>1 DEF Whole
      <3> QED
        BY <1>1, <3>1 DEF IInv
    <2> QED
      BY <1>4, <2>1, <2>2, <2>3, <2>4, OpenSteps
  <1> QED
    BY <1>2, <1>3, <1>4

(* Until the peer closes its own direction, the two queues of the pcb are   *)
(* one line of segments (Kept) that reaches from what is acknowledged, or   *)
(* before, to the end of what tcp_write and tcp_close queued; windows and   *)
(* acknowledgements never go back; and what is on its way, or has arrived,  *)
(* is what was written.                                                     *)
THEOREM InvariantUntilClosed == Spec => []IInv
  BY InvInit, InvNext, PTL DEF Spec

-----------------------------------------------------------------------------
(* What follows from it. *)

(* Until then tcp_output sends nothing past what the peer has offered,      *)
(* whatever tcp_rexmit and tcp_rexmit_rto put back on the unsent queue;     *)
(* only tcp_zero_window_probe does, with one unit.                          *)
THEOREM WindowIsKept == Spec => []WindowKept
  <1>1. IInv => WindowKept
    <2> SUFFICES ASSUME IInv, ~peer.closed, NEW m \in toPeer
                 PROVE  m.seq + DataLen(m) <= peer.edge \/ Len(m.data) <= 1
      BY DEF WindowKept
    <2>1. Carries(m, written, pcb.fin, peer.edge)
      BY DEF IInv, OpenInv
    <2>2. CASE m = Rst
      <3>1. Len(m.data) = 0
        BY <2>2 DEF Rst
      <3> DEFINE l == Len(m.data)
      <3>2. l = 0
        BY <3>1
      <3> HIDE DEF l
      <3>3. l <= 1
        BY <3>2
      <3> QED
        BY <3>3 DEF l
    <2> QED
      BY <2>1, <2>2 DEF Carries
  <1> QED
    BY <1>1, InvariantUntilClosed, PTL

(* The segments of a line cover all from its one end to the other.          *)
LEMMA LineCovers ==
  ASSUME NEW S, NEW q \in Seq(S), Shaped(q), NEW a \in Nat, NEW b \in Nat, Line(q, a, b)
  PROVE  Positions(q) = a .. b - 1 /\ Ascending(q)
  <1>1. /\ DOMAIN q = 1 .. Len(q) /\ Len(q) \in Nat
        /\ \A i \in 1 .. Len(q) : q[i].seq \in Nat /\ End(q[i]) \in Nat /\ q[i].seq < End(q[i])
    BY DEF Shaped
  <1>2. /\ \A i \in 1 .. Len(q) : a <= q[i].seq /\ End(q[i]) <= b
        /\ (q # <<>> => a < b)
    BY LineRises
  <1>3. q # <<>> => /\ q[1].seq = a /\ End(q[Len(q)]) = b
                    /\ \A i \in 1 .. Len(q) - 1 : End(q[i]) = q[i+1].seq
    BY DEF Line
  <1>4. q = <<>> => a = b
    BY DEF Line
  <1>5. ASSUME NEW x \in Positions(q) PROVE x \in a .. b - 1
    <2>1. PICK i \in 1 .. Len(q) : x \in q[i].seq .. End(q[i]) - 1
      BY <1>1 DEF Positions
    <2>2. /\ q[i].seq \in Nat /\ End(q[i]) \in Nat /\ a <= q[i].seq /\ End(q[i]) <= b
      BY <1>1, <1>2
    <2> DEFINE c == q[i].seq
               d == End(q[i])
    <2>3. x \in c .. d - 1 /\ c \in Nat /\ d \in Nat /\ a <= c /\ d <= b
      BY <2>1, <2>2
    <2> HIDE DEF c, d
    <2> QED
      BY <2>3
  <1>6. ASSUME NEW x \in a .. b - 1 PROVE x \in Positions(q)
    <2>0. x \in Nat /\ a <= x /\ x < b
      OBVIOUS
    <2> DEFINE T == {i \in 1 .. Len(q) : x < End(q[i])}
    <2>1. q # <<>> /\ Len(q) \in 1 .. Len(q)
      <3>1. q # <<>>
        BY <1>4, <2>0
      <3> QED
        BY <1>1, <3>1
    <2>2. Len(q) \in T
      BY <1>3, <2>0, <2>1
    <2>3. PICK i \in T : \A j \in T : i <= j
      <3>1. T \subseteq Nat /\ T # {}
        BY <2>2
      <3> HIDE DEF T
      <3> QED
        BY <3>1, LeastNat
    <2>4. i \in 1 .. Len(q) /\ x < End(q[i])
      BY <2>3
    <2>5. q[i].seq <= x
      <3>1. CASE i = 1
        BY <1>3, <2>0, <2>1, <3>1
      <3>2. CASE i # 1
        <4>1. i - 1 \in 1 .. Len(q) - 1 /\ i - 1 \in 1 .. Len(q) /\ ~(i <= i - 1) /\ (i - 1) + 1 = i
          BY <1>1, <2>4, <3>2
        <4>2. ~(x < End(q[i - 1]))
          BY <2>3, <4>1
        <4>3. End(q[i - 1]) = q[i].seq
          BY <1>3, <2>1, <4>1
        <4>4. q[i].seq \in Nat
          BY <1>1, <2>4
        <4> DEFINE c == q[i].seq
        <4>5. c \in Nat /\ ~(x < c)
          BY <4>2, <4>3, <4>4
        <4> HIDE DEF c
        <4>6. c <= x
          BY <2>0, <4>5
        <4> QED
          BY <4>6 DEF c
      <3> QED
        BY <3>1, <3>2
    <2>6. x \in q[i].seq .. End(q[i]) - 1
      <3> DEFINE c == q[i].seq
                 d == End(q[i])
      <3>1. c \in Nat /\ d \in Nat /\ c <= x /\ x < d
        BY <1>1, <2>4, <2>5
      <3>2. x \in c .. d - 1
        <4> HIDE DEF c, d
        <4> QED
          BY <2>0, <3>1
      <3> QED
        BY <3>2
    <2> QED
      BY <1>1, <2>4, <2>6 DEF Positions
  <1>7. Ascending(q)
    <2>1. ASSUME NEW i \in 1 .. Len(q) - 1 PROVE End(q[i]) <= q[i + 1].seq
      <3>1. q # <<>> /\ i \in 1 .. Len(q)
        BY <1>1
      <3>2. End(q[i]) \in Nat /\ End(q[i]) = q[i+1].seq
        BY <1>1, <1>3, <3>1
      <3> DEFINE c == End(q[i])
                 d == q[i+1].seq
      <3>3. c \in Nat /\ c = d
        BY <3>2
      <3>4. c <= d
        <4> HIDE DEF c, d
        <4> QED
          BY <3>3
      <3> QED
        BY <3>4
    <2> QED
      BY <2>1 DEF Ascending
  <1> QED
    BY <1>5, <1>6, <1>7

\* What a segment may be.
LEMMA PacketTyped ==
  ASSUME NEW w \in 0 .. MaxData, NEW f \in BOOLEAN, NEW s \in Packets(w, f)
  PROVE  s \in Segs /\ DataLen(s) <= Mss
  <1> DEFINE l == Len(s.data)
             a == s.seq
  <1>1. MaxData \in Nat /\ Mss \in Nat /\ w \in Nat
    BY StreamAssumption
  <1>2. /\ s \in Bare /\ a \in Nat /\ l \in Nat \ {0} /\ a + l = End(s) /\ End(s) <= Total(w, f)
        /\ l <= DataLen(s) + 1 /\ DataLen(s) <= Mss /\ DataLen(s) \in Nat
    BY <1>1, PacketFacts
  <1>3. \A i \in 1 .. l : s.data[i] = Unit(a + i - 1, w)
    BY DEF Packets
  <1>4. a + l <= MaxData + 1
    <2>1. Total(w, f) <= MaxData + 1 /\ Total(w, f) \in Nat
      BY <1>1 DEF Total
    <2> DEFINE t == Total(w, f)
    <2>2. a + l <= t
      BY <1>2
    <2> HIDE DEF a, l, t
    <2> QED
      BY <1>1, <1>2, <2>1, <2>2 DEF t
  <1> DEFINE dl == DataLen(s)
  <1>5. l <= Mss + 1
    <2> HIDE DEF l, dl
    <2> QED
      BY <1>1, <1>2 DEF dl
  <1> HIDE DEF l, a
  <1>6. a \in Seqno
    BY <1>1, <1>2, <1>4 DEF Seqno
  <1>7. ASSUME NEW i \in 1 .. l PROVE s.data[i] \in Units \cup {Fin}
    <2> DEFINE k == a + i - 1
    <2>1. k \in Nat
      BY <1>2
    <2>2. s.data[i] = Unit(k, w)
      BY <1>3
    <2> HIDE DEF k
    <2>3. CASE k < w
      BY <1>1, <2>1, <2>2, <2>3 DEF Unit, Units
    <2>4. CASE ~(k < w)
      BY <2>2, <2>4 DEF Unit
    <2> QED
      BY <2>3, <2>4
  <1>8. s.data \in [1 .. l -> Units \cup {Fin}]
    <2>1. s.data \in Seq(Nat)
      BY <1>2 DEF Bare
    <2>2. s.data = [i \in 1 .. l |-> s.data[i]]
      BY <2>1 DEF l
    <2> DEFINE d == s.data
               R == Units \cup {Fin}
    <2>3. d = [i \in 1 .. l |-> d[i]] /\ \A i \in 1 .. l : d[i] \in R
      BY <1>7, <2>2
    <2> HIDE DEF d, R
    <2>4. d \in [1 .. l -> R]
      BY <2>3
    <2> QED
      BY <2>4 DEF d, R
  <1>9. l \in 0 .. Mss + 1
    BY <1>1, <1>2, <1>5
  <1>10. s \in Segs
    <2> DEFINE D == UNION {[1 .. n -> Units \cup {Fin}] : n \in 0 .. Mss + 1}
    <2>1. s.data \in D
      BY <1>8, <1>9
    <2>2. Segs = [seq : Seqno, data : D]
      BY DEF Segs
    <2> HIDE DEF D
    <2>3. s = [seq |-> s.seq, data |-> s.data]
      BY <1>2 DEF Bare
    <2> QED
      BY <1>6, <2>1, <2>2, <2>3 DEF a
  <1> QED
    BY <1>2, <1>10

(* The two queues of an active pcb hold what is not acknowledged, once and  *)
(* in order.                                                                *)
LEMMA LiveCovers ==
  ASSUME written \in 0 .. MaxData, NEW e, NEW n, Live(pcb, written, e, n)
  PROVE  /\ \A s \in ToSet(pcb.unsent \o pcb.unacked) : s \in Segs /\ DataLen(s) <= Mss
         /\ Ascending(pcb.unsent) /\ Ascending(pcb.unacked)
         /\ Positions(pcb.unsent) \cap Positions(pcb.unacked) = {}
         /\ pcb.lastack .. written - (IF pcb.fin THEN 0 ELSE 1)
               \subseteq Positions(pcb.unsent) \cup Positions(pcb.unacked)
  <1> DEFINE w == written
             f == pcb.fin
             T == Total(w, f)
  <1>1. /\ w \in Nat /\ f \in BOOLEAN /\ pcb \in Pcbs /\ Kept(pcb, w)
        /\ pcb.lastack \in Nat
    BY StreamAssumption DEF Live, Pcbs
  <1>2. /\ Shaped(pcb.unacked) /\ Shaped(pcb.unsent)
        /\ pcb.unacked \in Seq(Packets(w, f)) /\ pcb.unsent \in Seq(Packets(w, f))
    BY <1>1, KeptShaped
  <1>3. PICK b, m \in Nat : b <= pcb.lastack /\ Line(pcb.unacked, b, m) /\ Line(pcb.unsent, m, T)
    BY <1>1 DEF Kept
  <1>4. T \in Nat /\ T - 1 = w - (IF f THEN 0 ELSE 1)
    BY <1>1 DEF Total
  <1>5. \A s \in ToSet(pcb.unsent \o pcb.unacked) : s \in Segs /\ DataLen(s) <= Mss
    <2> DEFINE P == Packets(w, f)
               u == pcb.unsent
               v == pcb.unacked
    <2>1. u \in Seq(P) /\ v \in Seq(P)
      BY <1>2
    <2>2. ASSUME NEW s \in ToSet(u \o v) PROVE s \in P
      <3> HIDE DEF P, u, v
      <3>1. u \o v \in Seq(P)
        BY <2>1
      <3> QED
        BY <2>2, <3>1 DEF ToSet
    <2>3. ASSUME NEW s \in P PROVE s \in Segs /\ DataLen(s) <= Mss
      <3> HIDE DEF f
      <3>1. s \in Packets(w, f)
        OBVIOUS
      <3> QED
        BY <1>1, <3>1, PacketTyped
    <2> HIDE DEF P
    <2> QED
      BY <2>2, <2>3
  <1> HIDE DEF T, w, f
  <1>6. Positions(pcb.unacked) = b .. m - 1 /\ Ascending(pcb.unacked)
    BY <1>2, <1>3, LineCovers
  <1>7. Positions(pcb.unsent) = m .. T - 1 /\ Ascending(pcb.unsent)
    BY <1>2, <1>3, <1>4, LineCovers
  <1>8. (m .. T - 1) \cap (b .. m - 1) = {}
    BY <1>3, <1>4
  <1>9. ASSUME NEW x \in pcb.lastack .. T - 1 PROVE x \in (m .. T - 1) \cup (b .. m - 1)
    <2> DEFINE a == pcb.lastack
    <2>1. a \in Nat /\ b <= a /\ x \in a .. T - 1
      BY <1>1, <1>3
    <2> HIDE DEF a
    <2> QED
      BY <1>4, <2>1
  <1> QED
    BY <1>4, <1>5, <1>6, <1>7, <1>8, <1>9 DEF w, f

(* Until then the unsent and the unacked queue hold, once and in order, all *)
(* that was written and is not acknowledged, so that tcp_output,            *)
(* tcp_receive, tcp_rexmit and tcp_rexmit_rto lose and double nothing that  *)
(* they move.                                                               *)
THEOREM QueuesCoverUntilClosed == Spec => [](peer.closed \/ QueuesCover)
  <1>1. IInv => peer.closed \/ QueuesCover
    <2> SUFFICES ASSUME OpenInv PROVE QueuesCover
      BY DEF IInv
    <2>1. /\ written \in 0 .. MaxData /\ faults \in 0 .. MaxFaults /\ over \in {"no", "dropped"}
          /\ MaxData \in Nat /\ Buf \in Nat
      BY StreamAssumption DEF OpenInv
    <2>2. CASE Gone(pcb)
      <3>1. ToSet(pcb.unsent \o pcb.unacked) = {}
        <4>1. pcb.unsent \o pcb.unacked = <<>>
          BY <2>2 DEF Gone
        <4> QED
          BY <4>1 DEF ToSet
      <3>2. TypeOK
        BY <2>1, <2>2, <3>1 DEF TypeOK, Gone, Seqno, States
      <3> QED
        BY <2>2, <3>2 DEF QueuesCover, Active, Gone
    <2>3. CASE Connected
      <3>1. Live(pcb, written, peer.edge, Len(peer.read))
        BY <2>3 DEF Connected
      <3>2. /\ \A s \in ToSet(pcb.unsent \o pcb.unacked) : s \in Segs /\ DataLen(s) <= Mss
            /\ Ascending(pcb.unsent) /\ Ascending(pcb.unacked)
            /\ Positions(pcb.unsent) \cap Positions(pcb.unacked) = {}
            /\ pcb.lastack .. written - (IF pcb.fin THEN 0 ELSE 1)
                  \subseteq Positions(pcb.unsent) \cup Positions(pcb.unacked)
        BY <2>1, <3>1, LiveCovers
      <3>3. /\ pcb.state \in States /\ pcb.lbb \in Nat /\ pcb.nxt \in Nat /\ pcb.lastack \in Nat
            /\ pcb.nrtx \in Nat /\ pcb.wnd \in Nat /\ pcb.wnd <= Buf /\ pcb.rcv = 0
            /\ pcb.lbb <= written + 1 /\ pcb.lastack <= pcb.nxt /\ pcb.nxt <= Total(written, pcb.fin)
        BY <3>1 DEF Live, Pcbs, Rest, Kept
      <3> DEFINE a == pcb.lastack
                 x == pcb.nxt
                 l == pcb.lbb
      <3>4. {l, x, a} \subseteq Seqno
        <4>1. Total(written, pcb.fin) <= written + 1 /\ Total(written, pcb.fin) \in Nat
          BY <2>1 DEF Total
        <4>2. a \in Nat /\ x \in Nat /\ l \in Nat /\ l <= written + 1 /\ a <= x /\ x <= Total(written, pcb.fin)
          BY <3>3
        <4> DEFINE t == Total(written, pcb.fin)
        <4> HIDE DEF a, x, l, t
        <4>3. x <= t /\ t <= written + 1 /\ t \in Nat
          BY <4>1, <4>2 DEF t
        <4>4. l <= MaxData + 1 /\ x <= MaxData + 1 /\ a <= MaxData + 1
          BY <2>1, <4>2, <4>3
        <4> QED
          BY <2>1, <4>2, <4>4 DEF Seqno
      <3>5. TypeOK
        <4>1. pcb.wnd \in 0 .. Buf /\ pcb.rcv \in 0 .. 1
          BY <2>1, <3>3
        <4> QED
          BY <2>1, <3>2, <3>3, <3>4, <4>1 DEF TypeOK
      <3> QED
        BY <3>2, <3>5 DEF QueuesCover
    <2> QED
      BY <2>2, <2>3 DEF OpenInv
  <1> QED
    BY <1>1, InvariantUntilClosed, PTL

-----------------------------------------------------------------------------
(* The byte stream. *)

\* The first k units.
First(k) == [i \in 1 .. k |-> i]

\* The first units are a prefix of more of them.
LEMMA FirstPrefix ==
  ASSUME NEW j \in Nat, NEW k \in Nat, j <= k
  PROVE  Stream!IsPrefix(First(j), First(k))
  <1>1. Len(First(j)) = j /\ Len(First(k)) = k
    BY DEF First
  <1>2. SubSeq(First(j), 1, j) = SubSeq(First(k), 1, j)
    BY DEF First
  <1> QED
    BY <1>1, <1>2 DEF Stream!IsPrefix

\* How far the peer has read, and whether it has seen the end.
LEMMA ReadIs ==
  ASSUME NEW q, NEW w \in Nat, NEW f \in BOOLEAN, PeerHas(q, w, f)
  PROVE  /\ Len(q.read) \in Nat
         /\ Len(q.read) <= w => ~Eof(q) /\ DataRead(q) = First(Len(q.read))
         /\ Len(q.read) > w => f /\ Eof(q) /\ DataRead(q) = First(w)
  <1> DEFINE r == q.read
             l == Len(r)
  <1>1. r \in Seq(Nat) /\ l \in Nat /\ l <= Total(w, f)
        /\ \A i \in 1 .. l : r[i] = Unit(i - 1, w)
    BY DEF PeerHas, Peers
  <1>2. /\ Eof(q) <=> r # <<>> /\ r[l] = Fin
        /\ DataRead(q) = IF Eof(q) THEN SubSeq(r, 1, l - 1) ELSE r
    BY DEF Eof, DataRead
  <1>3. \A i \in 1 .. l : i <= w => r[i] = i
    BY <1>1 DEF Unit
  <1> HIDE DEF r
  <1>4. CASE l <= w
    <2>1. r = First(l)
      <3>1. \A i \in 1 .. l : r[i] = i
        BY <1>1, <1>3, <1>4
      <3> QED
        BY <1>1, <3>1 DEF First
    <2>2. ~Eof(q)
      <3>1. CASE r = <<>>
        BY <1>2, <3>1
      <3>2. CASE r # <<>>
        <4>1. l \in 1 .. l
          BY <1>1, <3>2
        <4>2. r[l] = l
          BY <1>3, <1>4, <4>1
        <4> QED
          BY <1>2, <4>1, <4>2 DEF Fin
      <3> QED
        BY <3>1, <3>2
    <2> QED
      BY <1>1, <1>2, <1>4, <2>1, <2>2 DEF r
  <1>5. CASE l > w
    <2>1. f /\ l = w + 1
      BY <1>1, <1>5 DEF Total
    <2>2. l \in 1 .. l /\ r # <<>>
      BY <1>1, <2>1
    <2>3. r[l] = Fin
      <3>1. ~(l - 1 < w)
        BY <2>1
      <3> QED
        BY <1>1, <2>2, <3>1 DEF Unit
    <2>4. Eof(q) /\ DataRead(q) = SubSeq(r, 1, w)
      BY <1>2, <2>1, <2>2, <2>3
    <2>5. SubSeq(r, 1, w) = First(w)
      <3>1. \A i \in 1 .. w : r[i] = i
        BY <1>3, <2>1
      <3>2. w <= l
        BY <2>1
      <3>3. SubSeq(r, 1, w) = [i \in 1 .. w |-> r[i]]
        BY <1>1, <3>2
      <3> QED
        BY <3>1, <3>3 DEF First
    <2> QED
      BY <1>1, <1>5, <2>1, <2>4, <2>5 DEF r
  <1> QED
    BY <1>1, <1>4, <1>5 DEF r

\* A step of the board writes, closes, or does not show.
LEMMA BoardSends ==
  ASSUME Longer(written, pcb.fin, written', pcb'.fin), UNCHANGED peer
  PROVE  [Stream!Send \/ Stream!Receive]_(Stream!vars)
  <1>1. /\ written \in Nat /\ pcb.fin \in BOOLEAN /\ written' \in Nat /\ pcb'.fin \in BOOLEAN
        /\ written <= written' /\ (pcb.fin => pcb'.fin /\ written' = written)
    BY DEF Longer
  <1>2. DataRead(peer') = DataRead(peer) /\ Eof(peer') = Eof(peer)
    OBVIOUS
  <1>3. CASE pcb.fin
    BY <1>1, <1>2, <1>3 DEF Stream!vars
  <1>4. CASE ~pcb.fin
    <2>1. Stream!IsPrefix(First(written), First(written'))
      BY <1>1, FirstPrefix
    <2> QED
      BY <1>1, <1>2, <1>4, <2>1 DEF Stream!Send, First
  <1> QED
    BY <1>1, <1>3, <1>4

\* A step of the peer or of the network reads, or does not show.
LEMMA PeerReceives ==
  ASSUME written \in Nat, pcb.fin \in BOOLEAN, PeerHas(peer, written, pcb.fin),
         PeerHas(peer', written, pcb.fin),
         UNCHANGED <<pcb, written>>, Len(peer.read) <= Len(peer'.read)
  PROVE  [Stream!Send \/ Stream!Receive]_(Stream!vars)
  <1> DEFINE n == Len(peer.read)
             n2 == Len(peer'.read)
             w == written
  <1>1. /\ w \in Nat /\ pcb.fin \in BOOLEAN
        /\ PeerHas(peer, w, pcb.fin) /\ PeerHas(peer', w, pcb.fin)
    OBVIOUS
  <1>2. /\ n \in Nat
        /\ n <= w => ~Eof(peer) /\ DataRead(peer) = First(n)
        /\ n > w => pcb.fin /\ Eof(peer) /\ DataRead(peer) = First(w)
    BY <1>1, ReadIs
  <1>3. /\ n2 \in Nat
        /\ n2 <= w => ~Eof(peer') /\ DataRead(peer') = First(n2)
        /\ n2 > w => pcb.fin /\ Eof(peer') /\ DataRead(peer') = First(w)
    BY <1>1, ReadIs
  <1>4. n <= n2
    OBVIOUS
  <1>5. UNCHANGED <<pcb.fin, First(w)>>
    BY DEF First
  <1> HIDE DEF n, n2
  <1>6. CASE n > w
    <2>1. n2 > w
      BY <1>1, <1>2, <1>3, <1>4, <1>6
    <2>2. DataRead(peer') = DataRead(peer) /\ Eof(peer) = TRUE /\ Eof(peer') = TRUE
      <3>1. Eof(peer) \in BOOLEAN /\ Eof(peer') \in BOOLEAN
        BY DEF Eof
      <3> QED
        BY <1>2, <1>3, <1>6, <2>1, <3>1
    <2> QED
      BY <1>5, <2>2 DEF Stream!vars, First
  <1>7. CASE n <= w /\ n2 > w
    <2>1. /\ ~Eof(peer) /\ Eof(peer') /\ pcb.fin
          /\ DataRead(peer) = First(n) /\ DataRead(peer') = First(w)
      BY <1>2, <1>3, <1>7
    <2>2. Stream!IsPrefix(First(n), First(w)) /\ Stream!IsPrefix(First(w), First(w))
      BY <1>1, <1>2, <1>7, FirstPrefix
    <2>3. Eof(peer') = (pcb.fin /\ DataRead(peer') = First(w))
      <3>1. Eof(peer') \in BOOLEAN
        BY DEF Eof
      <3> QED
        BY <2>1, <3>1
    <2> QED
      BY <1>5, <2>1, <2>2, <2>3 DEF Stream!Receive, First
  <1>8. CASE n <= w /\ n2 <= w
    <2>1. ~Eof(peer) /\ ~Eof(peer') /\ DataRead(peer) = First(n) /\ DataRead(peer') = First(n2)
      BY <1>2, <1>3, <1>8
    <2>2. Stream!IsPrefix(First(n), First(n2)) /\ Stream!IsPrefix(First(n2), First(w))
      BY <1>1, <1>2, <1>3, <1>4, <1>8, FirstPrefix
    <2>3. Eof(peer') = FALSE
      <3>1. Eof(peer') \in BOOLEAN
        BY DEF Eof
      <3> QED
        BY <2>1, <3>1
    <2> QED
      BY <1>5, <2>1, <2>2, <2>3 DEF Stream!Receive, First
  <1> QED
    BY <1>1, <1>2, <1>3, <1>6, <1>7, <1>8

\* Until the peer closes each step is one of the stream.
LEMMA StreamStep ==
  ASSUME IInv, ~peer.closed, [Next]_vars
  PROVE  [Stream!Send \/ Stream!Receive]_(Stream!vars)
  <1>1. OpenInv
    BY DEF IInv
  <1>2. CASE BoardActs
    BY <1>1, <1>2, BoardActsKeep, BoardSends
  <1>3. CASE PeerActs
    <2>1. OpenInv' /\ UNCHANGED <<pcb, written>> /\ Len(peer.read) <= Len(peer'.read)
      BY <1>1, <1>3, PeerActsKeep
    <2>2. written \in Nat /\ pcb.fin \in BOOLEAN /\ PeerHas(peer, written, pcb.fin)
      BY <1>1, StreamAssumption DEF OpenInv, Gone, Connected, Live, Pcbs
    <2>3. PeerHas(peer', written, pcb.fin)
      BY <2>1 DEF OpenInv
    <2> QED
      BY <2>1, <2>2, <2>3, PeerReceives
  <1>4. CASE PeerCloses
    <2>1. peer' = [peer EXCEPT !.closed = TRUE] /\ UNCHANGED <<pcb, written>>
      BY <1>4 DEF PeerCloses
    <2>2. peer'.read = peer.read
      BY <1>1, <2>1 DEF OpenInv, PeerHas, Peers
    <2> QED
      BY <2>1, <2>2 DEF Stream!vars, DataRead, Eof
  <1>5. CASE UNCHANGED vars
    BY <1>5 DEF vars, Stream!vars
  <1> QED
    BY <1>1, <1>2, <1>3, <1>4, <1>5, OpenSteps

\* The stream begins empty.
LEMMA StreamInit == Init => Stream!Init
  BY DEF Init, Stream!Init, DataRead, Eof

(* Until the peer closes, and when it does, every step of tcp_write,        *)
(* tcp_close, tcp_output, tcp_input and tcp_slowtmr, and whatever the       *)
(* network loses, doubles and reorders, is a step of a byte stream or does  *)
(* not show: what the peer reads is what was written, in order, and the end *)
(* behind all of it.                                                        *)
THEOREM StreamUntilClosed ==
  Spec => Stream!Init /\ [][~peer.closed => [Stream!Send \/ Stream!Receive]_(Stream!vars)]_vars
  <1>1. IInv /\ [Next]_vars => (~peer.closed => [Stream!Send \/ Stream!Receive]_(Stream!vars))
    BY StreamStep
  <1> QED
    BY <1>1, StreamInit, InvariantUntilClosed, PTL DEF Spec

(* A connection whose peer does not close implements ByteStream, however    *)
(* much is written and whatever is lost, doubled and reordered on the way.  *)
THEOREM OpenImplements == Spec /\ []~peer.closed => ImplementsByteStream
  <1>1. IInv /\ ~peer.closed /\ [Next]_vars => [Stream!Send \/ Stream!Receive]_(Stream!vars)
    BY StreamStep
  <1> QED
    BY <1>1, StreamInit, InvariantUntilClosed, PTL DEF Spec, ImplementsByteStream, Stream!Spec

-----------------------------------------------------------------------------
(* When the peer closes behind the server.  The order of the queues and the *)
(* windows need not be what they were, but the segments stay the ones that  *)
(* were made, and one leaves the queues only when the peer has read it.     *)

\* The fields of a pcb.
Fields(p) ==
    p = [state |-> p.state, lbb |-> p.lbb, nxt |-> p.nxt, lastack |-> p.lastack,
         unsent |-> p.unsent, unacked |-> p.unacked, wnd |-> p.wnd, wl1 |-> p.wl1,
         wl2 |-> p.wl2, persist |-> p.persist, nrtx |-> p.nrtx, inFr |-> p.inFr,
         fin |-> p.fin, rcv |-> p.rcv, ackNow |-> p.ackNow]

OnQueue(p) == ToSet(p.unsent) \cup ToSet(p.unacked)

\* The queues have segments of the stream, in any order.
Packed(p, w, f) ==
    /\ Fields(p)
    /\ p.unsent \in Seq(Packets(w, f)) /\ p.unacked \in Seq(Packets(w, f))

\* What a function leaves that takes off only segments that end before n.
Leaves(p, r, w, f, n) ==
    /\ Packed(r, w, f) /\ r.state = p.state /\ r.fin = p.fin
    /\ \A s \in OnQueue(p) : s \in OnQueue(r) \/ End(s) <= n

\* Of all units and the FIN, what the peer has not read is on the queues.
Holds(p, w, n) ==
    \A i \in 0 .. w : i < n \/ \E s \in OnQueue(p) : s.seq <= i /\ i < End(s)

\* A pcb on which tcp_close was called, and one that needs no more.
Shut(p, w, n) ==
    /\ Packed(p, w, TRUE) /\ p.fin = TRUE /\ Holds(p, w, n)
    /\ p.state \in {"FIN_WAIT_1", "FIN_WAIT_2", "CLOSING", "LAST_ACK"}
Parted(p, w) ==
    /\ p.fin \in BOOLEAN
    /\ p.state = "CLOSED" \/ (p.state = "TIME_WAIT" /\ Packed(p, w, p.fin))

\* A number of places in a queue is one of its places, or 0.
LEMMA PlaceIn ==
  ASSUME NEW S, NEW q \in Seq(S), NEW D, D \subseteq DOMAIN q
  PROVE  Cardinality(D) \in 0 .. Len(q)
  <1>1. Len(q) \in Nat /\ DOMAIN q = 1 .. Len(q)
    OBVIOUS
  <1> DEFINE l == Len(q)
  <1>2. D \in SUBSET (1 .. l) /\ l \in Nat
    BY <1>1
  <1> HIDE DEF l
  <1>3. IsFiniteSet(1 .. l) /\ Cardinality(1 .. l) = l
    <2>1. IsFiniteSet(1 .. l) /\ Cardinality(1 .. l) = IF 1 > l THEN 0 ELSE l - 1 + 1
      BY <1>2, FS_Interval
    <2> QED
      BY <1>2, <2>1
  <1>4. IsFiniteSet(D) /\ Cardinality(D) <= l
    BY <1>2, <1>3, FS_Subset
  <1>5. Cardinality(D) \in Nat
    BY <1>4, FS_CardinalityType
  <1> QED
    BY <1>2, <1>4, <1>5 DEF l

\* A segment put anywhere into a queue leaves the others on it.
LEMMA PutInto ==
  ASSUME NEW S, NEW q \in Seq(S), NEW s \in S, NEW n \in 0 .. Len(q)
  PROVE  /\ SubSeq(q, 1, n) \o <<s>> \o SubSeq(q, n + 1, Len(q)) \in Seq(S)
         /\ ToSet(q) \cup {s} \subseteq ToSet(SubSeq(q, 1, n) \o <<s>> \o SubSeq(q, n + 1, Len(q)))
  <1> DEFINE l == Len(q)
             a == SubSeq(q, 1, n)
             b == SubSeq(q, n + 1, l)
             r == a \o <<s>> \o b
  <1>1. l \in Nat /\ n \in Nat /\ n <= l /\ DOMAIN q = 1 .. l
    OBVIOUS
  <1>2. a \in Seq(S) /\ Len(a) = n /\ \A i \in 1 .. n : a[i] = q[i]
    OBVIOUS
  <1>3. b \in Seq(S) /\ Len(b) = l - n /\ \A i \in 1 .. l - n : b[i] = q[n + i]
    OBVIOUS
  <1> HIDE DEF a, b, l
  <1>4. /\ r \in Seq(S) /\ Len(r) = l + 1 /\ r[n + 1] = s
        /\ \A i \in 1 .. n : r[i] = a[i]
        /\ \A i \in 1 .. l - n : r[n + 1 + i] = b[i]
    <2> DEFINE c == a \o <<s>>
    <2>1. /\ c \in Seq(S) /\ Len(c) = n + 1 /\ c[n + 1] = s
          /\ \A i \in 1 .. n : c[i] = a[i]
      <3> DEFINE t == <<s>>
      <3>1. t \in Seq(S) /\ Len(t) = 1 /\ t[1] = s
        OBVIOUS
      <3> HIDE DEF t
      <3>2. /\ a \o t \in Seq(S) /\ Len(a \o t) = n + 1
            /\ \A i \in 1 .. n + 1 : (a \o t)[i] = IF i <= n THEN a[i] ELSE t[i - n]
        <4>1. a \in Seq(S) /\ t \in Seq(S)
          BY <1>2, <3>1
        <4>2. /\ a \o t \in Seq(S) /\ Len(a \o t) = Len(a) + Len(t)
              /\ \A i \in 1 .. Len(a) + Len(t) : (a \o t)[i] = IF i <= Len(a) THEN a[i] ELSE t[i - Len(a)]
          BY <4>1, ConcatProperties
        <4> QED
          BY <1>2, <3>1, <4>2
      <3>3. n + 1 \in 1 .. n + 1 /\ ~(n + 1 <= n) /\ (n + 1) - n = 1 /\ \A i \in 1 .. n : i \in 1 .. n + 1 /\ i <= n
        BY <1>1
      <3> QED
        BY <3>1, <3>2, <3>3 DEF t
    <2>2. r = c \o b
      OBVIOUS
    <2> HIDE DEF c, r
    <2>3. /\ r \in Seq(S) /\ Len(r) = (n + 1) + (l - n)
          /\ \A i \in 1 .. (n + 1) + (l - n) : r[i] = IF i <= n + 1 THEN c[i] ELSE b[i - (n + 1)]
      <3>1. c \in Seq(S) /\ b \in Seq(S)
        BY <1>3, <2>1
      <3>2. /\ c \o b \in Seq(S) /\ Len(c \o b) = Len(c) + Len(b)
            /\ \A i \in 1 .. Len(c) + Len(b) : (c \o b)[i] = IF i <= Len(c) THEN c[i] ELSE b[i - Len(c)]
        BY <3>1, ConcatProperties
      <3> QED
        BY <1>3, <2>1, <2>2, <3>2
    <2>4. (n + 1) + (l - n) = l + 1
      BY <1>1
    <2>5. \A i \in 1 .. n : r[i] = a[i]
      BY <1>1, <2>1, <2>3
    <2>6. r[n + 1] = s
      BY <1>1, <2>1, <2>3
    <2>7. ASSUME NEW i \in 1 .. l - n PROVE r[n + 1 + i] = b[i]
      <3>1. n + 1 + i \in 1 .. (n + 1) + (l - n) /\ ~(n + 1 + i <= n + 1) /\ (n + 1 + i) - (n + 1) = i
        BY <1>1
      <3> QED
        BY <2>3, <3>1
    <2> QED
      BY <2>3, <2>4, <2>5, <2>6, <2>7
  <1> HIDE DEF r
  <1>5. DOMAIN r = 1 .. l + 1
    BY <1>4
  <1>6. s \in ToSet(r)
    BY <1>1, <1>4, <1>5 DEF ToSet
  <1>7. ASSUME NEW x \in ToSet(q) PROVE x \in ToSet(r)
    <2>1. PICK i \in 1 .. l : x = q[i]
      BY <1>1 DEF ToSet
    <2>2. CASE i <= n
      <3>1. i \in 1 .. n /\ i \in 1 .. l + 1 /\ r[i] = x
        BY <1>1, <1>2, <1>4, <2>1, <2>2
      <3> QED
        BY <1>5, <3>1 DEF ToSet
    <2>3. CASE ~(i <= n)
      <3>1. i - n \in 1 .. l - n /\ n + (i - n) = i /\ n + 1 + (i - n) \in 1 .. l + 1
        BY <1>1, <2>3
      <3>2. r[n + 1 + (i - n)] = x
        BY <1>3, <1>4, <2>1, <3>1
      <3> QED
        BY <1>5, <3>1, <3>2 DEF ToSet
    <2> QED
      BY <2>2, <2>3
  <1> QED
    BY <1>4, <1>6, <1>7 DEF r, a, b, l

\* tcp_output_segment puts the segment on the unacked queue, wherever.
LEMMA InsertHolds ==
  ASSUME NEW S, NEW q \in Seq(S), NEW s \in S
  PROVE  Insert(q, s) \in Seq(S) /\ ToSet(q) \cup {s} \subseteq ToSet(Insert(q, s))
  <1> DEFINE D == {i \in DOMAIN q : q[i].seq < s.seq}
             n == Cardinality(D)
  <1>1. n \in 0 .. Len(q)
    <2>1. D \subseteq DOMAIN q
      OBVIOUS
    <2> HIDE DEF D
    <2> QED
      BY <2>1, PlaceIn
  <1>2. CASE q # <<>> /\ s.seq < q[Len(q)].seq
    <2>1. Insert(q, s) = SubSeq(q, 1, n) \o <<s>> \o SubSeq(q, n + 1, Len(q))
      BY <1>2 DEF Insert
    <2> HIDE DEF n
    <2> QED
      BY <1>1, <2>1, PutInto
  <1>3. CASE ~(q # <<>> /\ s.seq < q[Len(q)].seq)
    <2>1. Insert(q, s) = Append(q, s)
      BY <1>3 DEF Insert
    <2>2. /\ Append(q, s) \in Seq(S) /\ DOMAIN Append(q, s) = 1 .. Len(q) + 1
          /\ Append(q, s)[Len(q) + 1] = s /\ \A i \in 1 .. Len(q) : Append(q, s)[i] = q[i]
          /\ DOMAIN q = 1 .. Len(q) /\ Len(q) \in Nat
      OBVIOUS
    <2>3. s \in ToSet(Append(q, s))
      <3>1. Len(q) + 1 \in 1 .. Len(q) + 1
        BY <2>2
      <3> QED
        BY <2>2, <3>1 DEF ToSet
    <2>4. ToSet(q) \subseteq ToSet(Append(q, s))
      <3>1. ASSUME NEW i \in 1 .. Len(q) PROVE i \in 1 .. Len(q) + 1
        BY <2>2
      <3> QED
        BY <2>2, <3>1 DEF ToSet
    <2> QED
      BY <2>1, <2>2, <2>3, <2>4
  <1> QED
    BY <1>2, <1>3

\* The queue that the first k segments are sent to has them, and what it had.
SentTo(p, S, k) ==
    /\ SendUp(p, k).unacked \in Seq(S)
    /\ ToSet(p.unacked) \subseteq ToSet(SendUp(p, k).unacked)
    /\ \A i \in 1 .. k : p.unsent[i] \in ToSet(SendUp(p, k).unacked)

LEMMA SendUpHolds ==
  ASSUME NEW S, NEW p, p.unsent \in Seq(S), p.unacked \in Seq(S)
  PROVE  \A k \in 0 .. Len(p.unsent) : SentTo(p, S, k)
  <1>1. /\ Len(p.unsent) \in Nat
        /\ SendUp(p, 0) = [unacked |-> p.unacked, nxt |-> p.nxt]
        /\ \A k \in 1 .. Len(p.unsent) : SendUp(p, k) = SendOne(SendUp(p, k - 1), p.unsent[k])
    BY SendUpTurns
  <1> DEFINE N == Len(p.unsent)
             T == {k \in 0 .. N : SentTo(p, S, k)}
  <1>2. 0 \in T
    <2>1. 0 \in 0 .. N /\ \A i \in 1 .. 0 : FALSE
      BY <1>1
    <2>2. SendUp(p, 0).unacked = p.unacked
      BY <1>1
    <2> HIDE DEF N
    <2> QED
      BY <2>1, <2>2 DEF SentTo
  <1>3. ASSUME NEW k \in 0 .. (N - 1), k \in T PROVE k + 1 \in T
    <2> DEFINE q == SendUp(p, k).unacked
               r == SendUp(p, k + 1).unacked
               s == p.unsent[k + 1]
    <2>1. k + 1 \in 1 .. N /\ (k + 1) - 1 = k /\ k \in Nat /\ s \in S
      BY <1>1
    <2>2. r = Insert(q, s)
      <3>1. SendUp(p, k + 1) = SendOne(SendUp(p, (k + 1) - 1), p.unsent[k + 1])
        BY <1>1, <2>1
      <3>2. SendUp(p, k + 1) = SendOne(SendUp(p, k), s)
        BY <2>1, <3>1
      <3> QED
        BY <3>2 DEF SendOne
    <2>3. q \in Seq(S) /\ ToSet(p.unacked) \subseteq ToSet(q) /\ \A i \in 1 .. k : p.unsent[i] \in ToSet(q)
      BY <1>3 DEF SentTo
    <2> HIDE DEF q, r, N
    <2>4. r \in Seq(S) /\ ToSet(q) \subseteq ToSet(r) /\ s \in ToSet(r)
      BY <2>1, <2>2, <2>3, InsertHolds
    <2>5. \A i \in 1 .. k + 1 : i \in 1 .. k \/ i = k + 1
      BY <2>1
    <2>6. \A i \in 1 .. k + 1 : p.unsent[i] \in ToSet(r)
      BY <2>3, <2>4, <2>5 DEF s
    <2>7. k + 1 \in 0 .. N
      BY <2>1
    <2> QED
      BY <2>3, <2>4, <2>6, <2>7 DEF SentTo, r
  <1> HIDE DEF T
  <1>4. \A k \in 0 .. N : k \in T
    BY <1>1, <1>2, <1>3, Upward
  <1> QED
    BY <1>4 DEF T

\* What is left of a queue without its first k has all the others.
LEMMA TailHas ==
  ASSUME NEW S, NEW q \in Seq(S), NEW k \in 0 .. Len(q)
  PROVE  /\ SubSeq(q, k + 1, Len(q)) \in Seq(S)
         /\ \A i \in 1 .. Len(q) : i <= k \/ q[i] \in ToSet(SubSeq(q, k + 1, Len(q)))
  <1> DEFINE l == Len(q)
             r == SubSeq(q, k + 1, l)
  <1>1. l \in Nat /\ k \in Nat /\ k <= l
    OBVIOUS
  <1>2. r \in Seq(S) /\ Len(r) = l - k /\ DOMAIN r = 1 .. l - k /\ \A i \in 1 .. l - k : r[i] = q[k + i]
    OBVIOUS
  <1> HIDE DEF l, r
  <1>3. ASSUME NEW i \in 1 .. l, ~(i <= k) PROVE q[i] \in ToSet(r)
    <2>1. i - k \in 1 .. l - k /\ k + (i - k) = i
      BY <1>1, <1>3
    <2>2. r[i - k] = q[i]
      BY <1>2, <2>1
    <2> QED
      BY <1>2, <2>1, <2>2 DEF ToSet
  <1> QED
    BY <1>2, <1>3 DEF l, r

\* The elements of a sequence over a set are in it.
LEMMA Elements ==
  ASSUME NEW S, NEW q \in Seq(S)
  PROVE  ToSet(q) \subseteq S /\ \A x \in ToSet(q) : \E i \in 1 .. Len(q) : x = q[i]
  BY DEF ToSet

\* What is not read stays on the queues.
LEMMA HoldsOn ==
  ASSUME NEW w \in Nat, NEW n \in Nat, NEW m \in Nat, n <= m, NEW p, NEW r,
         Packed(p, w, TRUE), Holds(p, w, n), \A s \in OnQueue(p) : s \in OnQueue(r) \/ End(s) <= m
  PROVE  Holds(r, w, m)
  <1> SUFFICES ASSUME NEW i \in 0 .. w, ~(i < m)
               PROVE  \E s \in OnQueue(r) : s.seq <= i /\ i < End(s)
    BY DEF Holds
  <1>1. ~(i < n)
    OBVIOUS
  <1>2. PICK s \in OnQueue(p) : s.seq <= i /\ i < End(s)
    BY <1>1 DEF Holds
  <1>3. s \in Packets(w, TRUE)
    <2> DEFINE S == Packets(w, TRUE)
    <2>1. p.unsent \in Seq(S) /\ p.unacked \in Seq(S)
      BY DEF Packed
    <2> HIDE DEF S
    <2>2. ToSet(p.unsent) \subseteq S /\ ToSet(p.unacked) \subseteq S
      BY <2>1, Elements
    <2> QED
      BY <2>2 DEF OnQueue, S
  <1>4. End(s) \in Nat
    BY <1>3, PacketFacts
  <1>5. ~(End(s) <= m)
    BY <1>2, <1>4
  <1> QED
    BY <1>2, <1>5

(* tcp_output moves segments from one queue to the other, and what it sends *)
(* is of the stream.                                                        *)
LEMMA OutputHolds ==
  ASSUME NEW w \in Nat, NEW f \in BOOLEAN, NEW p, Packed(p, w, f), NEW n \in Nat, NEW o \in Output(p)
  PROVE  Leaves(p, o.pcb, w, f, n) /\ \A m \in o.out : Honest(m, w, f)
  <1> DEFINE S == Packets(w, f)
  <1>1. p.unsent \in Seq(S) /\ p.unacked \in Seq(S) /\ Fields(p)
    BY DEF Packed
  <1>2. CASE o = EmptyAck(p)
    <2>1. o.pcb = [p EXCEPT !.ackNow = FALSE] /\ \A m \in o.out : m.data = <<>>
      BY <1>2 DEF EmptyAck, Segment
    <2>2. /\ Fields(o.pcb) /\ o.pcb.state = p.state /\ o.pcb.fin = p.fin
          /\ o.pcb.unsent = p.unsent /\ o.pcb.unacked = p.unacked
      BY <1>1, <2>1 DEF Fields
    <2> QED
      BY <1>1, <2>1, <2>2 DEF Leaves, Packed, OnQueue, Honest
  <1>3. ASSUME NEW k \in 0 .. Len(p.unsent), o = Sent(p, k)
        PROVE  Leaves(p, o.pcb, w, f, n) /\ \A m \in o.out : Honest(m, w, f)
    <2> DEFINE u == SubSeq(p.unsent, k + 1, Len(p.unsent))
               v == SendUp(p, k).unacked
               x == SendUp(p, k).nxt
               a == p.ackNow /\ k = 0
    <2>1. /\ o.pcb = [p EXCEPT !.unsent = u, !.unacked = v, !.nxt = x, !.ackNow = a]
          /\ o.out = {Segment(p, p.unsent[i]) : i \in 1 .. k}
      BY <1>3 DEF Sent
    <2>2. v \in Seq(S) /\ ToSet(p.unacked) \subseteq ToSet(v) /\ \A i \in 1 .. k : p.unsent[i] \in ToSet(v)
      <3>1. SentTo(p, S, k)
        <4> HIDE DEF S
        <4> QED
          BY <1>1, SendUpHolds
      <3> QED
        BY <3>1 DEF SentTo
    <2>3. u \in Seq(S) /\ \A i \in 1 .. Len(p.unsent) : i <= k \/ p.unsent[i] \in ToSet(u)
      <3> HIDE DEF S
      <3> QED
        BY <1>1, TailHas
    <2> HIDE DEF u, v, x, a
    <2>4. /\ Fields(o.pcb) /\ o.pcb.state = p.state /\ o.pcb.fin = p.fin
          /\ o.pcb.unsent = u /\ o.pcb.unacked = v
      BY <1>1, <2>1 DEF Fields
    <2>5. ASSUME NEW s \in OnQueue(p) PROVE s \in ToSet(u) \cup ToSet(v)
      <3>1. CASE s \in ToSet(p.unacked)
        BY <2>2, <3>1
      <3>2. CASE s \in ToSet(p.unsent)
        <4>1. PICK i \in 1 .. Len(p.unsent) : s = p.unsent[i]
          BY <1>1, <3>2 DEF ToSet
        <4>2. i <= k => i \in 1 .. k
          BY <1>1
        <4> QED
          BY <2>2, <2>3, <4>1, <4>2
      <3> QED
        BY <3>1, <3>2 DEF OnQueue
    <2>6. ASSUME NEW m \in o.out PROVE Honest(m, w, f)
      <3>1. PICK i \in 1 .. k : m = Segment(p, p.unsent[i])
        BY <2>1
      <3>2. p.unsent[i] \in S
        <4>1. i \in 1 .. Len(p.unsent)
          BY <1>1
        <4> QED
          BY <1>1, <4>1
      <3>3. p.unsent[i] \in Bare
        BY <3>2 DEF Packets
      <3> QED
        BY <3>1, <3>2, <3>3, SegmentLike DEF Honest
    <2> QED
      BY <2>2, <2>3, <2>4, <2>5, <2>6 DEF Leaves, Packed, OnQueue
  <1> QED
    BY <1>2, <1>3 DEF Output

\* An acknowledgement takes off segments that it covers.
LEMMA UnackedHolds ==
  ASSUME NEW w \in Nat, NEW f \in BOOLEAN, NEW q \in Seq(Packets(w, f)), NEW ack \in Nat
  PROVE  /\ Unacked(q, ack) \in Seq(Packets(w, f))
         /\ \A s \in ToSet(q) : s \in ToSet(Unacked(q, ack)) \/ End(s) <= ack
  <1> DEFINE S == Packets(w, f)
  <1>1. Shaped(q)
    BY PacketsShaped
  <1>2. q \in Seq(S)
    OBVIOUS
  <1> HIDE DEF S
  <1>3. PICK k \in 0 .. Len(q) : /\ Unacked(q, ack) = SubSeq(q, k + 1, Len(q))
                                 /\ \A i \in 1 .. k : End(q[i]) <= ack
    BY <1>1, <1>2, UnackedIsCut
  <1>4. /\ Unacked(q, ack) \in Seq(S)
        /\ \A i \in 1 .. Len(q) : i <= k \/ q[i] \in ToSet(Unacked(q, ack))
    BY <1>2, <1>3, TailHas
  <1>5. ASSUME NEW s \in ToSet(q) PROVE s \in ToSet(Unacked(q, ack)) \/ End(s) <= ack
    <2>1. PICK i \in 1 .. Len(q) : s = q[i]
      BY <1>2, Elements
    <2>2. i <= k => i \in 1 .. k
      BY <1>2
    <2> QED
      BY <1>3, <1>4, <2>1, <2>2
  <1> QED
    BY <1>4, <1>5 DEF S

\* What leaves both only leaves the first and then the second.
LEMMA LeavesTwice ==
  ASSUME NEW w, NEW f, NEW n, NEW p, NEW q, NEW r, Leaves(p, q, w, f, n), Leaves(q, r, w, f, n)
  PROVE  Leaves(p, r, w, f, n)
  BY DEF Leaves

\* A change of other fields leaves all.
LEMMA SameLeaves ==
  ASSUME NEW w, NEW f, NEW n, NEW p, Packed(p, w, f), NEW r, Fields(r),
         r.state = p.state, r.fin = p.fin, r.unsent = p.unsent, r.unacked = p.unacked
  PROVE  Leaves(p, r, w, f, n)
  BY DEF Leaves, Packed, OnQueue

\* tcp_rexmit puts a segment back.
LEMMA RexmitHolds ==
  ASSUME NEW w, NEW f, NEW n, NEW p, Packed(p, w, f), p.unacked # <<>>
  PROVE  Leaves(p, Rexmit(p), w, f, n)
  <1> DEFINE S == Packets(w, f)
             s == Head(p.unacked)
             D == {i \in DOMAIN p.unsent : p.unsent[i].seq < s.seq}
             k == Cardinality(D)
             u == SubSeq(p.unsent, 1, k) \o <<s>> \o SubSeq(p.unsent, k + 1, Len(p.unsent))
             v == Tail(p.unacked)
             x == p.nrtx + 1
             r == Rexmit(p)
  <1>1. p.unsent \in Seq(S) /\ p.unacked \in Seq(S) /\ Fields(p)
    BY DEF Packed
  <1>2. r = [p EXCEPT !.unacked = v, !.nrtx = x, !.unsent = u]
    BY DEF Rexmit
  <1> HIDE DEF S, r
  <1>3. s \in S /\ v \in Seq(S) /\ \A y \in ToSet(p.unacked) : y = s \/ y \in ToSet(v)
    <2> DEFINE q == p.unacked
    <2>1. /\ q \in Seq(S) /\ q # <<>> /\ Len(q) \in Nat \ {0} /\ s = q[1] /\ s \in S
          /\ v \in Seq(S) /\ v = SubSeq(q, 2, Len(q))
      BY <1>1
    <2>2. 1 \in 0 .. Len(q) /\ 1 + 1 = 2
      BY <2>1
    <2> HIDE DEF q, v
    <2>3. \A i \in 1 .. Len(q) : i <= 1 \/ q[i] \in ToSet(v)
      BY <2>1, <2>2, TailHas
    <2>4. \A i \in 1 .. Len(q) : i <= 1 => i = 1
      BY <2>1
    <2>5. \A y \in ToSet(q) : y = s \/ y \in ToSet(v)
      BY <2>1, <2>3, <2>4, Elements
    <2> QED
      BY <2>1, <2>5 DEF q
  <1>4. k \in 0 .. Len(p.unsent)
    <2>1. D \subseteq DOMAIN p.unsent
      OBVIOUS
    <2> HIDE DEF D
    <2> QED
      BY <1>1, <2>1, PlaceIn
  <1> HIDE DEF s, k, v
  <1>5. u \in Seq(S) /\ ToSet(p.unsent) \cup {s} \subseteq ToSet(u)
    BY <1>1, <1>3, <1>4, PutInto
  <1> HIDE DEF u, x
  <1>6. Fields(r) /\ r.state = p.state /\ r.fin = p.fin /\ r.unsent = u /\ r.unacked = v
    BY <1>1, <1>2 DEF Fields
  <1>7. \A y \in OnQueue(p) : y \in OnQueue(r)
    BY <1>3, <1>5, <1>6 DEF OnQueue
  <1> QED
    BY <1>3, <1>5, <1>6, <1>7 DEF Leaves, Packed, S, r

\* What tcp_receive takes off the unsent queue.
LEMMA UnsentHolds ==
  ASSUME NEW w \in Nat, NEW f \in BOOLEAN, NEW n \in Nat, NEW p, Packed(p, w, f), NEW ack \in 0 .. n
  PROVE  Leaves(p, [p EXCEPT !.unsent = Unacked(@, ack)], w, f, n)
  <1> DEFINE u == Unacked(p.unsent, ack)
             r == [p EXCEPT !.unsent = u]
  <1>1. /\ u \in Seq(Packets(w, f)) /\ \A s \in ToSet(p.unsent) : s \in ToSet(u) \/ End(s) <= ack
        /\ \A s \in ToSet(p.unsent) : End(s) \in Nat
    <2>1. p.unsent \in Seq(Packets(w, f))
      BY DEF Packed
    <2>2. ToSet(p.unsent) \subseteq Packets(w, f)
      <3> DEFINE S == Packets(w, f)
      <3> HIDE DEF S
      <3>1. p.unsent \in Seq(S)
        BY <2>1 DEF S
      <3>2. ToSet(p.unsent) \subseteq S
        BY <3>1, Elements
      <3> QED
        BY <3>2 DEF S
    <2>3. \A s \in ToSet(p.unsent) : End(s) \in Nat
      BY <2>2, PacketFacts
    <2>4. ack \in Nat
      OBVIOUS
    <2> QED
      BY <2>1, <2>3, <2>4, UnackedHolds
  <1> HIDE DEF u
  <1>2. /\ Fields(r) /\ r.state = p.state /\ r.fin = p.fin /\ r.unsent = u /\ r.unacked = p.unacked
    BY DEF Packed, Fields
  <1>3. \A s \in OnQueue(p) : s \in OnQueue(r) \/ End(s) <= n
    BY <1>1, <1>2 DEF OnQueue
  <1>4. Leaves(p, r, w, f, n)
    BY <1>1, <1>2, <1>3 DEF Leaves, Packed
  <1> QED
    BY <1>4 DEF u, r

\* And what off the unacked queue.
LEMMA AckedHolds ==
  ASSUME NEW w \in Nat, NEW f \in BOOLEAN, NEW n \in Nat, NEW p, Packed(p, w, f), NEW ack \in 0 .. n
  PROVE  Leaves(p, Acked(p, ack), w, f, n)
  <1> DEFINE u == Unacked(p.unacked, ack)
             r == Acked(p, ack)
  <1>0. r = [p EXCEPT !.inFr = FALSE, !.nrtx = 0, !.lastack = ack, !.unacked = u]
    BY DEF Acked
  <1>1. /\ u \in Seq(Packets(w, f)) /\ \A s \in ToSet(p.unacked) : s \in ToSet(u) \/ End(s) <= ack
        /\ \A s \in ToSet(p.unacked) : End(s) \in Nat
    <2>1. p.unacked \in Seq(Packets(w, f))
      BY DEF Packed
    <2>2. ToSet(p.unacked) \subseteq Packets(w, f)
      <3> DEFINE S == Packets(w, f)
      <3> HIDE DEF S
      <3>1. p.unacked \in Seq(S)
        BY <2>1 DEF S
      <3>2. ToSet(p.unacked) \subseteq S
        BY <3>1, Elements
      <3> QED
        BY <3>2 DEF S
    <2>3. \A s \in ToSet(p.unacked) : End(s) \in Nat
      BY <2>2, PacketFacts
    <2>4. ack \in Nat
      OBVIOUS
    <2> QED
      BY <2>1, <2>3, <2>4, UnackedHolds
  <1> HIDE DEF u, r
  <1>2. /\ Fields(r) /\ r.state = p.state /\ r.fin = p.fin /\ r.unsent = p.unsent /\ r.unacked = u
    BY <1>0 DEF Packed, Fields
  <1>3. \A s \in OnQueue(p) : s \in OnQueue(r) \/ End(s) <= n
    BY <1>1, <1>2 DEF OnQueue
  <1> QED
    BY <1>1, <1>2, <1>3 DEF Leaves, Packed, r

\* A new window leaves all.
LEMMA WindowHolds ==
  ASSUME NEW w, NEW f, NEW n, NEW p, Packed(p, w, f), NEW m
  PROVE  Leaves(p, Window(p, m), w, f, n) /\ Window(p, m).unacked = p.unacked
  <1> DEFINE r == Window(p, m)
             z == m.wnd = 0
  <1>1. r = p \/ r = [p EXCEPT !.wnd = m.wnd, !.wl1 = m.seq, !.wl2 = m.ack, !.persist = z]
    BY DEF Window
  <1> HIDE DEF r, z
  <1>2. Fields(p)
    BY DEF Packed
  <1>3. /\ Fields(r) /\ r.state = p.state /\ r.fin = p.fin /\ r.unsent = p.unsent
        /\ r.unacked = p.unacked
    BY <1>1, <1>2 DEF Fields
  <1> QED
    BY <1>3, SameLeaves DEF r

\* TF_INFR alone.
LEMMA FastSet ==
  ASSUME NEW y, Fields(y), NEW z, z = [y EXCEPT !.inFr = TRUE]
  PROVE  /\ Fields(z) /\ z.state = y.state /\ z.fin = y.fin
         /\ z.unsent = y.unsent /\ z.unacked = y.unacked
  BY DEF Fields

(* tcp_receive takes off what is acknowledged, with a fast retransmission   *)
(* or without.                                                              *)
LEMMA AckPartHolds ==
  ASSUME NEW w \in Nat, NEW f \in BOOLEAN, NEW n \in Nat, NEW p, Packed(p, w, f),
         NEW m, m.ack \in 0 .. n, NEW q \in AckPart(p, m)
  PROVE  Leaves(p, q, w, f, n)
  <1> DEFINE x == Window(p, m)
             unqueued(r) == IF m.ack <= p.nxt THEN [r EXCEPT !.unsent = Unacked(@, m.ack)] ELSE r
  <1>1. Leaves(p, x, w, f, n) /\ x.unacked = p.unacked
    BY WindowHolds
  <1>2. \/ q = unqueued(Acked(x, m.ack))
        \/ q = unqueued(x)
        \/ Duplicate(p, x, m) /\ q = unqueued([Rexmit(x) EXCEPT !.inFr = TRUE])
    BY DEF AckPart
  <1> HIDE DEF x
  <1>3. ASSUME NEW r, Leaves(p, r, w, f, n) PROVE Leaves(p, unqueued(r), w, f, n)
    <2>1. Packed(r, w, f)
      BY <1>3 DEF Leaves
    <2>2. Leaves(r, [r EXCEPT !.unsent = Unacked(@, m.ack)], w, f, n)
      BY <2>1, UnsentHolds
    <2> QED
      BY <1>3, <2>2, LeavesTwice
  <1>4. Packed(x, w, f)
    BY <1>1 DEF Leaves
  <1>5. Leaves(p, Acked(x, m.ack), w, f, n)
    <2>1. Leaves(x, Acked(x, m.ack), w, f, n)
      BY <1>4, AckedHolds
    <2> QED
      BY <1>1, <2>1, LeavesTwice
  <1>6. ASSUME Duplicate(p, x, m) PROVE Leaves(p, [Rexmit(x) EXCEPT !.inFr = TRUE], w, f, n)
    <2> DEFINE y == Rexmit(x)
               z == [y EXCEPT !.inFr = TRUE]
    <2>1. Leaves(x, y, w, f, n)
      <3>1. x.unacked # <<>>
        BY <1>1, <1>6 DEF Duplicate
      <3> QED
        BY <1>4, <3>1, RexmitHolds
    <2> HIDE DEF y
    <2>2. Packed(y, w, f) /\ Fields(y)
      BY <2>1 DEF Leaves, Packed
    <2>3. Fields(z) /\ z.state = y.state /\ z.fin = y.fin /\ z.unsent = y.unsent /\ z.unacked = y.unacked
      BY <2>2, FastSet
    <2> HIDE DEF z
    <2>4. Leaves(y, z, w, f, n)
      BY <2>2, <2>3, SameLeaves
    <2>5. Leaves(p, z, w, f, n)
      BY <1>1, <2>1, <2>4, LeavesTwice
    <2> QED
      BY <2>5 DEF z, y
  <1> HIDE DEF unqueued
  <1> QED
    BY <1>1, <1>2, <1>3, <1>5, <1>6

\* The FIN of the peer leaves the queues.
LEMMA FinPartHolds ==
  ASSUME NEW w, NEW f, NEW n, NEW p, Packed(p, w, f), NEW m
  PROVE  Leaves(p, FinPart(p, m), w, f, n)
  <1> DEFINE r == FinPart(p, m)
  <1>1. r = p \/ r = [p EXCEPT !.rcv = 1, !.ackNow = TRUE] \/ r = [p EXCEPT !.ackNow = TRUE]
    BY DEF FinPart
  <1> HIDE DEF r
  <1>2. Fields(p)
    BY DEF Packed
  <1>3. /\ Fields(r) /\ r.state = p.state /\ r.fin = p.fin /\ r.unsent = p.unsent
        /\ r.unacked = p.unacked
    BY <1>1, <1>2 DEF Fields
  <1> QED
    BY <1>3, SameLeaves DEF r

\* A pcb that is closed stays so.
LEMMA ShutStays ==
  ASSUME NEW w \in Nat, NEW n \in Nat, NEW p, Shut(p, w, n), NEW r, Leaves(p, r, w, TRUE, n)
  PROVE  Shut(r, w, n)
  <1>1. Holds(r, w, n)
    <2>1. n <= n
      OBVIOUS
    <2>2. Packed(p, w, TRUE) /\ Holds(p, w, n) /\ \A s \in OnQueue(p) : s \in OnQueue(r) \/ End(s) <= n
      BY DEF Shut, Leaves
    <2> QED
      BY <2>1, <2>2, HoldsOn
  <1> QED
    BY <1>1 DEF Shut, Leaves

\* Purged and freed.
LEMMA FreedParts ==
  ASSUME NEW w, NEW p, Fields(p), p.fin \in BOOLEAN
  PROVE  Parted(Freed(p), w) /\ Freed(p).fin = p.fin /\ Freed(p).state = "CLOSED"
  <1> DEFINE r == Freed(p)
  <1>1. r.state = "CLOSED" /\ r.fin = p.fin
    BY DEF Freed, Purged, Fields
  <1> QED
    BY <1>1 DEF Parted

LEMMA PurgedWaits ==
  ASSUME NEW w, NEW p, Fields(p), p.fin \in BOOLEAN,
         NEW r, r = [Purged(p) EXCEPT !.state = "TIME_WAIT"]
  PROVE  Parted(r, w) /\ r.fin = p.fin /\ r.state = "TIME_WAIT"
  <1>1. /\ Fields(r) /\ r.state = "TIME_WAIT" /\ r.fin = p.fin
        /\ r.unsent = <<>> /\ r.unacked = <<>>
    BY DEF Purged, Fields
  <1>2. \A S : <<>> \in Seq(S)
    OBVIOUS
  <1>3. Packed(r, w, p.fin)
    BY <1>1, <1>2 DEF Packed
  <1> QED
    BY <1>1, <1>3 DEF Parted

\* tcp_process on a pcb that is closed: the next state, or the end.
LEMMA ProcessHolds ==
  ASSUME NEW w \in Nat, NEW n \in Nat, NEW p, Shut(p, w, n), NEW m
  PROVE  LET r == Process(p, m) IN
         /\ r.fin = TRUE
         /\ \/ Shut(r, w, n)
            \/ Parted(r, w)
         /\ r.state \in {"CLOSED", "TIME_WAIT"} => Parted(r, w)
         /\ r.state \notin {"CLOSED", "TIME_WAIT"} => Shut(r, w, n)
  <1> DEFINE r == Process(p, m)
             to(s) == [p EXCEPT !.state = s]
  <1>1. /\ p.state \in {"FIN_WAIT_1", "FIN_WAIT_2", "CLOSING", "LAST_ACK"}
        /\ p.fin = TRUE /\ Fields(p) /\ Packed(p, w, TRUE)
    BY DEF Shut, Packed
  <1>2. \/ r = [Purged(p) EXCEPT !.state = "TIME_WAIT"]
        \/ r = Freed(p)
        \/ \E s \in {"CLOSING", "FIN_WAIT_2"} : r = to(s)
        \/ r = p
    BY <1>1 DEF Process
  <1> HIDE DEF r
  <1>3. CASE r = [Purged(p) EXCEPT !.state = "TIME_WAIT"]
    BY <1>1, <1>3, PurgedWaits DEF r
  <1>4. CASE r = Freed(p)
    BY <1>1, <1>4, FreedParts DEF r
  <1>5. ASSUME NEW s \in {"CLOSING", "FIN_WAIT_2"}, r = to(s)
        PROVE  r.fin = TRUE /\ Shut(r, w, n) /\ r.state \notin {"CLOSED", "TIME_WAIT"}
    <2>1. /\ Fields(r) /\ r.state = s /\ r.fin = p.fin
          /\ r.unsent = p.unsent /\ r.unacked = p.unacked
      BY <1>1, <1>5 DEF Fields
    <2>2. Holds(r, w, n)
      BY <2>1 DEF Shut, Holds, OnQueue
    <2> QED
      BY <1>1, <2>1, <2>2 DEF Shut, Packed
  <1>6. CASE r = p
    BY <1>1, <1>6 DEF r
  <1> QED
    BY <1>2, <1>3, <1>4, <1>5, <1>6 DEF r

-----------------------------------------------------------------------------
(* The invariant behind the peer's close. *)

(* The peer closes its direction only when the server can write no more.    *)
ClosesSecond == peer.closed => ~Open(pcb)

(* What arrives is what was written, the queues hold what was not read, and *)
(* a connection that is done was read to its end.                           *)
AfterInv ==
    /\ written \in 0 .. MaxData /\ pcb.fin \in BOOLEAN
    /\ PeerHas(peer, written, pcb.fin)
    /\ \A m \in toPeer : Honest(m, written, pcb.fin)
    /\ \A m \in toBoard : m.ack \in 0 .. Len(peer.read)
    /\ over = "done" => pcb.fin /\ Len(peer.read) > written
    /\ Parted(pcb, written) \/ Shut(pcb, written, Len(peer.read))

\* Queues that are empty hold nothing, so all was read.
LEMMA DoneWasRead ==
  ASSUME NEW w \in Nat, NEW n \in Nat, NEW p, Shut(p, w, n), Ending(p) = "done"
  PROVE  n > w
  <1>1. p.unsent = <<>> /\ p.unacked = <<>>
    <2> DEFINE S == Packets(w, TRUE)
               a == p.unsent
               b == p.unacked
    <2>1. a \in Seq(S) /\ b \in Seq(S)
      BY DEF Shut, Packed
    <2>2. a \o b = <<>>
      BY DEF Ending
    <2> HIDE DEF S, a, b
    <2>3. a = <<>> /\ b = <<>>
      BY <2>1, <2>2
    <2> QED
      BY <2>3 DEF a, b
  <1>2. OnQueue(p) = {}
    BY <1>1 DEF OnQueue, ToSet
  <1>3. w \in 0 .. w
    OBVIOUS
  <1>4. w < n
    BY <1>2, <1>3 DEF Shut, Holds
  <1> QED
    BY <1>4

\* A step of the board, behind the peer's close.
LEMMA AfterBoard ==
  ASSUME AfterInv, UNCHANGED <<written, peer>>, toBoard' \subseteq toBoard, pcb'.fin = pcb.fin,
         \A m \in toPeer' : m \in toPeer \/ Honest(m, written, pcb.fin),
         over' = over \/ (over' = "done" => pcb.fin /\ Len(peer.read) > written),
         Parted(pcb', written) \/ Shut(pcb', written, Len(peer.read))
  PROVE  AfterInv' /\ UNCHANGED <<written, pcb.fin, peer>>
  BY DEF AfterInv

\* What is left of a network has nothing new.
LEMMA LeftOf ==
  ASSUME NEW net, NEW m, NEW net2 \in Left(net, m)
  PROVE  net2 \subseteq net
  BY DEF Left

\* What is sent from a pcb, closed or parted, and what it becomes.
LEMMA SendsOn ==
  ASSUME NEW w \in Nat, NEW n \in Nat, NEW p, NEW o \in Output(p),
         Shut(p, w, n) \/ (Parted(p, w) /\ p.state = "TIME_WAIT")
  PROVE  /\ o.pcb.fin = p.fin /\ \A m \in o.out : Honest(m, w, p.fin)
         /\ Shut(o.pcb, w, n) \/ Parted(o.pcb, w)
  <1>1. p.fin \in BOOLEAN /\ Packed(p, w, p.fin)
    BY DEF Shut, Parted
  <1>2. Leaves(p, o.pcb, w, p.fin, n) /\ \A m \in o.out : Honest(m, w, p.fin)
    BY <1>1, OutputHolds
  <1>3. CASE Shut(p, w, n)
    <2>1. Leaves(p, o.pcb, w, TRUE, n)
      BY <1>2, <1>3 DEF Shut
    <2>2. Shut(o.pcb, w, n)
      BY <1>3, <2>1, ShutStays
    <2> QED
      BY <1>2, <2>2 DEF Leaves
  <1>4. CASE Parted(p, w) /\ p.state = "TIME_WAIT"
    <2>1. o.pcb.fin = p.fin /\ o.pcb.state = "TIME_WAIT" /\ Packed(o.pcb, w, p.fin)
      BY <1>2, <1>4 DEF Leaves
    <2> QED
      BY <1>1, <1>2, <2>1 DEF Parted
  <1> QED
    BY <1>3, <1>4

\* tcp_input on a pcb that is closed: the application is not asked.
LEMMA AfterProcess ==
  ASSUME NEW w \in Nat, w = written, NEW n \in Nat, Shut(pcb, w, n), NEW m, m.ack \in 0 .. n, Process_Input(m)
  PROVE  /\ pcb'.fin = pcb.fin /\ written' = written
         /\ \A x \in toPeer' : x \in toPeer \/ Honest(x, w, pcb.fin)
         /\ over' = over \/ (over' = "done" => pcb.fin /\ n > w)
         /\ Parted(pcb', w) \/ Shut(pcb', w, n)
  <1>1. PICK q \in AckPart(pcb, m) :
           LET r == FinPart(q, m)
               p == Process(r, m)
               called == q.lastack > pcb.lastack \/ r.rcv > pcb.rcv
           IN IF p.state = "CLOSED"
              THEN /\ pcb' = p
                   /\ over' = Ending(r)
                   /\ UNCHANGED <<written, toPeer>>
              ELSE \E c \in IF called THEN Calls(p) ELSE {[pcb |-> p, n |-> 0]} :
                   \E o \in Output(c.pcb) :
                      /\ pcb' = o.pcb
                      /\ written' = written + c.n
                      /\ toPeer' = toPeer \cup o.out
                      /\ over' = IF p.state = "TIME_WAIT" THEN Ending(r) ELSE over
    BY DEF Process_Input
  <1> DEFINE r == FinPart(q, m)
             p == Process(r, m)
             called == q.lastack > pcb.lastack \/ r.rcv > pcb.rcv
  <1>2. pcb.fin = TRUE /\ Packed(pcb, w, TRUE)
    BY DEF Shut
  <1>3. Leaves(pcb, q, w, TRUE, n)
    BY <1>2, AckPartHolds
  <1>4. Leaves(q, r, w, TRUE, n)
    <2>1. Packed(q, w, TRUE)
      BY <1>3 DEF Leaves
    <2> QED
      BY <2>1, FinPartHolds
  <1>5. Shut(r, w, n)
    BY <1>3, <1>4, ShutStays
  <1>6. Ending(r) = "done" => n > w
    BY <1>5, DoneWasRead
  <1>7. /\ p.fin = TRUE
        /\ p.state \in {"CLOSED", "TIME_WAIT"} => Parted(p, w)
        /\ p.state \notin {"CLOSED", "TIME_WAIT"} => Shut(p, w, n)
    BY <1>5, ProcessHolds
  <1> HIDE DEF r, p, called
  <1>8. CASE p.state = "CLOSED"
    <2>1. pcb' = p /\ over' = Ending(r) /\ UNCHANGED <<written, toPeer>>
      BY <1>1, <1>8 DEF r, p
    <2> QED
      BY <1>2, <1>6, <1>7, <1>8, <2>1
  <1>9. CASE p.state # "CLOSED"
    <2>1. PICK c \in IF called THEN Calls(p) ELSE {[pcb |-> p, n |-> 0]} :
             \E o \in Output(c.pcb) :
                /\ pcb' = o.pcb
                /\ written' = written + c.n
                /\ toPeer' = toPeer \cup o.out
                /\ over' = IF p.state = "TIME_WAIT" THEN Ending(r) ELSE over
      BY <1>1, <1>9 DEF r, p, called
    <2>2. ~Open(p)
      BY <1>7, <1>9 DEF Shut, Open
    <2>3. c = [pcb |-> p, n |-> 0]
      BY <2>1, <2>2 DEF Calls
    <2>4. c.pcb = p /\ c.n = 0
      BY <2>3
    <2>5. PICK o \in Output(p) : /\ pcb' = o.pcb /\ written' = written + 0
                                 /\ toPeer' = toPeer \cup o.out
                                 /\ over' = IF p.state = "TIME_WAIT" THEN Ending(r) ELSE over
      BY <2>1, <2>4
    <2>6. /\ o.pcb.fin = p.fin /\ \A x \in o.out : Honest(x, w, p.fin)
          /\ Shut(o.pcb, w, n) \/ Parted(o.pcb, w)
      BY <1>7, <1>9, SendsOn
    <2>7. written' = written
      BY <2>5
    <2>8. pcb' = o.pcb /\ pcb'.fin = pcb.fin
      BY <1>2, <1>7, <2>5, <2>6
    <2>9. \A x \in toPeer' : x \in toPeer \/ Honest(x, w, pcb.fin)
      <3>1. toPeer' = toPeer \cup o.out /\ pcb.fin = p.fin
        BY <1>2, <1>7, <2>5
      <3> QED
        BY <2>6, <3>1
    <2>10. over' = over \/ (over' = "done" => pcb.fin /\ n > w)
      BY <1>2, <1>6, <2>5
    <2>11. Parted(pcb', w) \/ Shut(pcb', w, n)
      BY <2>6, <2>8
    <2> QED
      BY <2>7, <2>8, <2>9, <2>10, <2>11
  <1> QED
    BY <1>8, <1>9

\* tcp_input, behind the peer's close.
LEMMA AfterReceive ==
  ASSUME AfterInv, Receive
  PROVE  AfterInv' /\ UNCHANGED <<written, pcb.fin, peer>>
  <1> DEFINE w == written
             n == Len(peer.read)
  <1>1. w \in Nat /\ n \in Nat
    BY StreamAssumption DEF AfterInv, PeerHas, Peers
  <1>2. PICK m \in toBoard : Input(m)
    BY DEF Receive
  <1>3. toBoard' \subseteq toBoard /\ UNCHANGED peer /\ m.ack \in 0 .. n
    BY <1>2, LeftOf DEF Input, AfterInv
  <1>4. CASE pcb.state = "CLOSED"
    <2>1. toPeer' = toPeer \cup {Rst} /\ UNCHANGED <<pcb, written, over>>
      BY <1>2, <1>4 DEF Input
    <2>2. Honest(Rst, written, pcb.fin)
      BY DEF Honest, Rst
    <2>3. Parted(pcb, written)
      BY <1>4 DEF AfterInv, Shut
    <2>4. \A x \in toPeer' : x \in toPeer \/ Honest(x, written, pcb.fin)
      BY <2>1, <2>2
    <2>5. pcb' = pcb /\ written' = written /\ over' = over
      BY <2>1
    <2> QED
      BY <1>3, <2>3, <2>4, <2>5, AfterBoard
  <1>5. CASE pcb.state = "TIME_WAIT"
    <2>1. /\ toPeer' = toPeer \cup (IF m.fin THEN EmptyAck(pcb).out ELSE {})
          /\ UNCHANGED <<pcb, written, over>>
      BY <1>2, <1>5 DEF Input
    <2>2. \A x \in EmptyAck(pcb).out : Honest(x, written, pcb.fin)
      BY DEF Honest, EmptyAck, Segment
    <2>3. Parted(pcb, written)
      BY <1>5 DEF AfterInv, Shut
    <2>4. \A x \in toPeer' : x \in toPeer \/ Honest(x, written, pcb.fin)
      BY <2>1, <2>2
    <2>5. pcb' = pcb /\ written' = written /\ over' = over
      BY <2>1
    <2> QED
      BY <1>3, <2>3, <2>4, <2>5, AfterBoard
  <1>6. CASE pcb.state # "CLOSED" /\ pcb.state # "TIME_WAIT"
    <2>1. Process_Input(m)
      BY <1>2, <1>6 DEF Input
    <2>2. Shut(pcb, w, n)
      BY <1>6 DEF AfterInv, Parted
    <2>3. /\ pcb'.fin = pcb.fin /\ written' = written
          /\ \A x \in toPeer' : x \in toPeer \/ Honest(x, w, pcb.fin)
          /\ over' = over \/ (over' = "done" => pcb.fin /\ n > w)
          /\ Parted(pcb', w) \/ Shut(pcb', w, n)
      <3>1. w = written
        OBVIOUS
      <3> HIDE DEF w, n
      <3> QED
        BY <1>1, <1>3, <2>1, <2>2, <3>1, AfterProcess
    <2> QED
      BY <1>3, <2>3, AfterBoard
  <1> QED
    BY <1>4, <1>5, <1>6

\* A pcb that is active is one on which tcp_close was called.
LEMMA ActiveShut ==
  ASSUME AfterInv, Active
  PROVE  /\ written \in Nat /\ Len(peer.read) \in Nat /\ pcb.fin = TRUE
         /\ Shut(pcb, written, Len(peer.read)) /\ Packed(pcb, written, TRUE) /\ ~Open(pcb)
  <1>1. written \in Nat /\ Len(peer.read) \in Nat
    BY StreamAssumption DEF AfterInv, PeerHas, Peers
  <1>2. Shut(pcb, written, Len(peer.read))
    BY DEF AfterInv, Active, Parted
  <1> QED
    BY <1>1, <1>2 DEF Shut, Open

\* What is sent from a closed pcb, or one that leaves all it has.
LEMMA AfterOutput ==
  ASSUME AfterInv, Active, NEW p, Leaves(pcb, p, written, TRUE, Len(peer.read)),
         NEW o \in Output(p), pcb' = o.pcb, toPeer' = toPeer \cup o.out,
         UNCHANGED <<written, over, toBoard, peer>>
  PROVE  AfterInv' /\ UNCHANGED <<written, pcb.fin, peer>>
  <1> DEFINE w == written
             n == Len(peer.read)
  <1>1. w \in Nat /\ n \in Nat /\ pcb.fin = TRUE /\ Shut(pcb, w, n)
    BY ActiveShut
  <1>2. Leaves(pcb, p, w, TRUE, n)
    OBVIOUS
  <1>3. /\ p.fin = TRUE
        /\ o.pcb.fin = p.fin /\ \A m \in o.out : Honest(m, w, p.fin)
        /\ Shut(o.pcb, w, n) \/ Parted(o.pcb, w)
    <2> HIDE DEF w, n
    <2>1. Shut(p, w, n)
      BY <1>1, <1>2, ShutStays
    <2>2. p.fin = TRUE
      BY <2>1 DEF Shut
    <2> QED
      BY <1>1, <2>1, <2>2, SendsOn
  <1>4. \A m \in toPeer' : m \in toPeer \/ Honest(m, written, pcb.fin)
    BY <1>1, <1>3
  <1>5. pcb'.fin = pcb.fin
    BY <1>1, <1>3
  <1>6. Parted(pcb', written) \/ Shut(pcb', written, Len(peer.read))
    BY <1>3
  <1>7. toBoard' \subseteq toBoard /\ over' = over /\ UNCHANGED <<written, peer>>
    OBVIOUS
  <1> QED
    BY <1>4, <1>5, <1>6, <1>7, AfterBoard

\* The poll, behind the peer's close: tcp_output alone.
LEMMA AfterPoll ==
  ASSUME AfterInv, Poll
  PROVE  AfterInv' /\ UNCHANGED <<written, pcb.fin, peer>>
  <1>1. Active /\ UNCHANGED <<over, toBoard, peer>>
    BY DEF Poll
  <1>2. /\ written \in Nat /\ Len(peer.read) \in Nat
        /\ Packed(pcb, written, TRUE) /\ ~Open(pcb)
    BY <1>1, ActiveShut
  <1>3. PICK c \in Calls(pcb) : \E o \in Output(c.pcb) :
           pcb' = o.pcb /\ written' = written + c.n /\ toPeer' = toPeer \cup o.out
    BY DEF Poll
  <1>4. c = [pcb |-> pcb, n |-> 0]
    BY <1>2, <1>3 DEF Calls
  <1>5. c.pcb = pcb /\ c.n = 0
    BY <1>4
  <1>6. PICK o \in Output(pcb) : pcb' = o.pcb /\ written' = written + 0 /\ toPeer' = toPeer \cup o.out
    BY <1>3, <1>5
  <1>7. UNCHANGED written
    BY <1>2, <1>6
  <1>8. Leaves(pcb, pcb, written, TRUE, Len(peer.read))
    BY <1>2 DEF Leaves
  <1> QED
    BY <1>1, <1>6, <1>7, <1>8, AfterOutput

\* Both queues, one behind the other, have what each of them has.
LEMMA BothHave ==
  ASSUME NEW S, NEW a \in Seq(S), NEW b \in Seq(S)
  PROVE  a \o b \in Seq(S) /\ ToSet(a) \cup ToSet(b) \subseteq ToSet(a \o b)
  <1> DEFINE c == a \o b
             k == Len(a)
             l == Len(b)
  <1>1. /\ c \in Seq(S) /\ Len(c) = k + l /\ k \in Nat /\ l \in Nat
        /\ \A i \in 1 .. k + l : c[i] = IF i <= k THEN a[i] ELSE b[i - k]
    <2>1. /\ a \o b \in Seq(S) /\ Len(a \o b) = Len(a) + Len(b)
          /\ \A i \in 1 .. Len(a) + Len(b) : (a \o b)[i] = IF i <= Len(a) THEN a[i] ELSE b[i - Len(a)]
      BY ConcatProperties
    <2> QED
      BY <2>1
  <1>2. DOMAIN c = 1 .. k + l /\ DOMAIN a = 1 .. k /\ DOMAIN b = 1 .. l
    <2>1. DOMAIN a = 1 .. k /\ DOMAIN b = 1 .. l
      OBVIOUS
    <2> HIDE DEF c, k, l
    <2> QED
      BY <1>1, <2>1
  <1> HIDE DEF c, k, l
  <1>3. ASSUME NEW i \in 1 .. k PROVE i \in 1 .. k + l /\ c[i] = a[i]
    BY <1>1
  <1>4. ASSUME NEW i \in 1 .. l PROVE k + i \in 1 .. k + l /\ c[k + i] = b[i]
    <2>1. k + i \in 1 .. k + l /\ ~(k + i <= k) /\ (k + i) - k = i
      BY <1>1
    <2> QED
      BY <1>1, <2>1
  <1>5. ASSUME NEW x \in ToSet(a) \cup ToSet(b) PROVE x \in ToSet(c)
    BY <1>2, <1>3, <1>4 DEF ToSet
  <1> QED
    BY <1>1, <1>5 DEF c

\* tcp_rexmit_rto puts all back, so nothing is lost from the queues.
LEMMA RequeueHolds ==
  ASSUME NEW w, NEW f, NEW n, NEW p, Packed(p, w, f),
         NEW r, r = [p EXCEPT !.unsent = p.unacked \o @, !.unacked = <<>>, !.nrtx = @ + 1]
  PROVE  Leaves(p, r, w, f, n)
  <1> DEFINE S == Packets(w, f)
             u == p.unacked \o p.unsent
             k == p.nrtx + 1
  <1>1. p.unsent \in Seq(S) /\ p.unacked \in Seq(S) /\ Fields(p)
    BY DEF Packed
  <1>2. u \in Seq(S) /\ ToSet(p.unacked) \cup ToSet(p.unsent) \subseteq ToSet(u)
    <2> HIDE DEF S
    <2> QED
      BY <1>1, BothHave
  <1>3. r = [p EXCEPT !.unsent = u, !.unacked = <<>>, !.nrtx = k]
    BY <1>1 DEF Fields
  <1> HIDE DEF u, k
  <1>4. /\ Fields(r) /\ r.state = p.state /\ r.fin = p.fin
        /\ r.unsent = u /\ r.unacked = <<>>
    BY <1>1, <1>3 DEF Fields
  <1>5. Packed(r, w, f)
    <2>1. <<>> \in Seq(S)
      OBVIOUS
    <2> QED
      BY <1>2, <1>4, <2>1 DEF Packed
  <1>6. OnQueue(p) \subseteq OnQueue(r)
    BY <1>2, <1>4 DEF OnQueue
  <1> QED
    BY <1>4, <1>5, <1>6 DEF Leaves

\* The retransmission timer, behind the peer's close.
LEMMA AfterRetransmit ==
  ASSUME AfterInv, Retransmit
  PROVE  AfterInv' /\ UNCHANGED <<written, pcb.fin, peer>>
  <1> DEFINE p == [pcb EXCEPT !.unsent = pcb.unacked \o @, !.unacked = <<>>, !.nrtx = @ + 1]
  <1>1. Active /\ UNCHANGED <<written, over, toBoard, peer>>
    BY DEF Retransmit
  <1>2. Packed(pcb, written, TRUE)
    BY <1>1, ActiveShut
  <1>3. PICK o \in Output(p) : pcb' = o.pcb /\ toPeer' = toPeer \cup o.out
    BY DEF Retransmit
  <1> HIDE DEF p
  <1>4. Leaves(pcb, p, written, TRUE, Len(peer.read))
    BY <1>2, RequeueHolds DEF p
  <1> QED
    BY <1>1, <1>3, <1>4, AfterOutput

\* The persist timer, behind the peer's close.
LEMMA AfterProbe ==
  ASSUME AfterInv, Probe
  PROVE  AfterInv' /\ UNCHANGED <<written, pcb.fin, peer>>
  <1> DEFINE w == written
             u == pcb.unacked \o pcb.unsent
             s == [seq |-> Head(u).seq, data |-> <<Head(Head(u).data)>>]
             m == Segment(pcb, s)
  <1>1. Active /\ u # <<>> /\ toPeer' = toPeer \cup {m} /\ UNCHANGED <<pcb, written, over, toBoard, peer>>
    BY DEF Probe
  <1>2. /\ w \in Nat /\ pcb.fin = TRUE /\ Packed(pcb, w, TRUE)
        /\ Shut(pcb, written, Len(peer.read))
    BY <1>1, ActiveShut
  <1>3. Head(u) \in Packets(w, TRUE)
    <2> DEFINE S == Packets(w, TRUE)
    <2>1. pcb.unsent \in Seq(S) /\ pcb.unacked \in Seq(S)
      BY <1>2 DEF Packed
    <2> HIDE DEF S
    <2>2. Head(u) \in S
      BY <1>1, <2>1, HeadOfTwo
    <2> QED
      BY <2>2 DEF S
  <1>4. s \in Packets(w, TRUE)
    <2> HIDE DEF u, w
    <2> QED
      BY <1>2, <1>3, FirstUnit
  <1> HIDE DEF s
  <1>5. [seq |-> m.seq, data |-> m.data] = s
    <2>1. s \in Bare
      BY <1>4 DEF Packets
    <2> QED
      BY <2>1, SegmentLike
  <1>6. Honest(m, written, pcb.fin)
    <2> HIDE DEF m
    <2> QED
      BY <1>2, <1>4, <1>5 DEF Honest, w
  <1> HIDE DEF m
  <1>7. \A x \in toPeer' : x \in toPeer \/ Honest(x, written, pcb.fin)
    BY <1>1, <1>6
  <1>8. /\ pcb'.fin = pcb.fin /\ toBoard' \subseteq toBoard /\ over' = over /\ UNCHANGED <<written, peer>>
        /\ Shut(pcb', written, Len(peer.read))
    BY <1>1, <1>2
  <1> QED
    BY <1>7, <1>8, AfterBoard

\* The pcb is given back, behind the peer's close.
LEMMA AfterFreed ==
  ASSUME AfterInv, Drop \/ TimeWaitOver
  PROVE  AfterInv' /\ UNCHANGED <<written, pcb.fin, peer>>
  <1>1. /\ pcb' = Freed(pcb) /\ UNCHANGED <<written, toPeer, toBoard, peer>>
        /\ over' = over \/ over' = "dropped"
    BY DEF Drop, TimeWaitOver
  <1>2. Fields(pcb) /\ pcb.fin \in BOOLEAN
    BY DEF AfterInv, Drop, TimeWaitOver, Active, Parted, Shut, Packed
  <1>3. Parted(pcb', written) /\ pcb'.fin = pcb.fin
    BY <1>1, <1>2, FreedParts
  <1>4. over' = over \/ (over' = "done" => pcb.fin /\ Len(peer.read) > written)
    BY <1>1
  <1>5. toBoard' \subseteq toBoard /\ \A m \in toPeer' : m \in toPeer \/ Honest(m, written, pcb.fin)
    BY <1>1
  <1> QED
    BY <1>1, <1>3, <1>4, <1>5, AfterBoard

\* A step of the board, of which the application writes nothing.
LEMMA BoardGoesOn ==
  ASSUME AfterInv, BoardActs \/ TimeWaitOver
  PROVE  AfterInv' /\ Longer(written, pcb.fin, written', pcb'.fin) /\ UNCHANGED peer
  <1>1. AfterInv' /\ UNCHANGED <<written, pcb.fin, peer>>
    <2>1. CASE Receive
      BY <2>1, AfterReceive
    <2>2. CASE Poll
      BY <2>2, AfterPoll
    <2>3. CASE Retransmit
      BY <2>3, AfterRetransmit
    <2>4. CASE Probe
      BY <2>4, AfterProbe
    <2>5. CASE Drop \/ TimeWaitOver
      BY <2>5, AfterFreed
    <2> QED
      BY <2>1, <2>2, <2>3, <2>4, <2>5 DEF BoardActs
  <1>2. written \in Nat /\ pcb.fin \in BOOLEAN
    BY StreamAssumption DEF AfterInv
  <1> QED
    BY <1>1, <1>2 DEF Longer

-----------------------------------------------------------------------------
(* The peer, behind its close. *)

\* What a step of the peer or of the network keeps.
LEMMA AfterPeer ==
  ASSUME AfterInv, UNCHANGED <<pcb, written, over>>, toPeer' \subseteq toPeer,
         PeerHas(peer', written, pcb.fin), Len(peer.read) <= Len(peer'.read),
         \A m \in toBoard' : m \in toBoard \/ m.ack = Len(peer'.read)
  PROVE  AfterInv' /\ UNCHANGED <<pcb, written>> /\ Len(peer.read) <= Len(peer'.read)
  <1> DEFINE w == written
             n == Len(peer.read)
             n2 == Len(peer'.read)
  <1>1. w \in Nat /\ n \in Nat /\ n2 \in Nat /\ n <= n2
    BY StreamAssumption DEF AfterInv, PeerHas, Peers
  <1>2. \A m \in toBoard' : m.ack \in 0 .. n2
    <2>1. ASSUME NEW m \in toBoard' PROVE m.ack \in 0 .. n2
      <3>1. m.ack \in 0 .. n \/ m.ack = n2
        BY DEF AfterInv
      <3> HIDE DEF n, n2
      <3> QED
        BY <1>1, <3>1
    <2> QED
      BY <2>1
  <1>3. Shut(pcb, w, n) => Shut(pcb, w, n2)
    <2> HIDE DEF w, n, n2
    <2> SUFFICES ASSUME Shut(pcb, w, n) PROVE Shut(pcb, w, n2)
      OBVIOUS
    <2>1. Packed(pcb, w, TRUE) /\ Holds(pcb, w, n) /\ \A s \in OnQueue(pcb) : s \in OnQueue(pcb) \/ End(s) <= n2
      BY DEF Shut
    <2>2. Holds(pcb, w, n2)
      BY <1>1, <2>1, HoldsOn
    <2> QED
      BY <2>2 DEF Shut
  <1>4. over = "done" => n2 > w
    <2>1. over = "done" => n > w
      BY DEF AfterInv
    <2> HIDE DEF w, n, n2
    <2> QED
      BY <1>1, <2>1
  <1>5. AfterInv'
    <2>1. /\ written' = written /\ pcb' = pcb /\ over' = over
          /\ written \in 0 .. MaxData /\ pcb.fin \in BOOLEAN
          /\ over = "done" => pcb.fin
      BY DEF AfterInv
    <2>2. \A m \in toPeer' : Honest(m, written, pcb.fin)
      BY DEF AfterInv
    <2>3. Parted(pcb, written) \/ Shut(pcb, written, n2)
      BY <1>3 DEF AfterInv
    <2> QED
      BY <1>2, <1>4, <2>1, <2>2, <2>3 DEF AfterInv
  <1> QED
    BY <1>5

\* A segment arrives at the peer.
LEMMA AfterPeerReceive ==
  ASSUME AfterInv, NEW m \in toPeer, PeerReceive(m)
  PROVE  AfterInv' /\ UNCHANGED <<pcb, written>> /\ Len(peer.read) <= Len(peer'.read)
  <1> DEFINE w == written
             f == pcb.fin
  <1>1. w \in Nat /\ f \in BOOLEAN /\ PeerHas(peer, w, f) /\ Honest(m, w, f)
    BY StreamAssumption DEF AfterInv
  <1>2. toPeer' \in Left(toPeer, m) /\ UNCHANGED <<pcb, written, over>>
    BY DEF PeerReceive
  <1>3. toPeer' \subseteq toPeer
    BY <1>2, LeftOf
  <1>4. /\ PeerHas(peer', w, f) /\ Further(peer, peer', m)
        /\ toBoard' \subseteq toBoard \cup {Ack(peer')}
    <2> HIDE DEF w, f
    <2> QED
      BY <1>1, PeerTakes
  <1>5. Len(peer.read) <= Len(peer'.read)
    BY <1>4 DEF Further
  <1>6. \A x \in toBoard' : x \in toBoard \/ x.ack = Len(peer'.read)
    BY <1>4 DEF Ack
  <1> QED
    BY <1>2, <1>3, <1>4, <1>5, <1>6, AfterPeer

\* The peer opens its window.
LEMMA AfterPeerReads ==
  ASSUME AfterInv, PeerReads
  PROVE  AfterInv' /\ UNCHANGED <<pcb, written>> /\ Len(peer.read) <= Len(peer'.read)
  <1>1. PICK k \in Steps : /\ peer.edge + k <= Len(peer.read) + Buf
                           /\ peer' = [peer EXCEPT !.edge = @ + k]
    BY DEF PeerReads
  <1>2. toBoard' = toBoard \cup {Ack(peer')} /\ UNCHANGED <<pcb, written, over, toPeer>>
    BY DEF PeerReads
  <1> DEFINE e == peer.edge
             e2 == peer.edge + k
  <1>3. /\ PeerHas(peer, written, pcb.fin) /\ peer \in Peers /\ e \in Nat /\ k \in Nat
        /\ written \in Nat /\ pcb.fin \in BOOLEAN /\ Len(peer.read) \in Nat
    BY StreamAssumption DEF AfterInv, PeerHas, Peers
  <1>4. e2 \in Nat /\ e <= e2
    <2> HIDE DEF e
    <2>1. e + k \in Nat /\ e <= e + k
      BY <1>3
    <2> QED
      BY <2>1 DEF e
  <1> HIDE DEF e2
  <1>5. peer' = [peer EXCEPT !.edge = e2] /\ e2 <= Len(peer.read) + Buf
    BY <1>1 DEF e2
  <1>6. PeerHas(peer', written, pcb.fin) /\ peer'.read = peer.read
    BY <1>3, <1>4, <1>5, WiderPeer
  <1>7. Len(peer.read) <= Len(peer'.read)
    BY <1>3, <1>6
  <1>8. \A x \in toBoard' : x \in toBoard \/ x.ack = Len(peer'.read)
    BY <1>2 DEF Ack
  <1> QED
    BY <1>2, <1>6, <1>7, <1>8, AfterPeer

\* A message is lost, or the peer sends its FIN again.
LEMMA AfterLose ==
  ASSUME AfterInv, Lose \/ PeerRepeats
  PROVE  AfterInv' /\ UNCHANGED <<pcb, written>> /\ Len(peer.read) <= Len(peer'.read)
  <1>1. /\ UNCHANGED <<pcb, written, over, peer>> /\ toPeer' \subseteq toPeer
        /\ toBoard' \subseteq toBoard \cup {PeerFin(peer)}
    BY DEF Lose, PeerRepeats
  <1>2. PeerFin(peer).ack = Len(peer'.read)
    BY <1>1 DEF PeerFin, Ack
  <1>3. PeerHas(peer', written, pcb.fin) /\ Len(peer.read) <= Len(peer'.read)
    BY <1>1 DEF AfterInv, PeerHas, Peers
  <1>4. \A x \in toBoard' : x \in toBoard \/ x.ack = Len(peer'.read)
    BY <1>1, <1>2
  <1> QED
    BY <1>1, <1>3, <1>4, AfterPeer

\* No other step is left, and each keeps the invariant and is one of the stream.
LEMMA AfterSteps ==
  ASSUME AfterInv, peer.closed, Next
  PROVE  AfterInv' /\ [Stream!Send \/ Stream!Receive]_(Stream!vars)
  <1>1. CASE BoardActs \/ TimeWaitOver
    BY <1>1, BoardGoesOn, BoardSends
  <1>2. CASE PeerRepeats \/ PeerActs
    <2>1. AfterInv' /\ UNCHANGED <<pcb, written>> /\ Len(peer.read) <= Len(peer'.read)
      BY <1>2, AfterPeerReceive, AfterPeerReads, AfterLose DEF PeerActs
    <2>2. written \in Nat /\ pcb.fin \in BOOLEAN /\ PeerHas(peer, written, pcb.fin)
      BY StreamAssumption DEF AfterInv
    <2>3. PeerHas(peer', written, pcb.fin)
      BY <2>1 DEF AfterInv
    <2> QED
      BY <2>1, <2>2, <2>3, PeerReceives
  <1>3. ~PeerCloses
    BY DEF PeerCloses
  <1> QED
    BY <1>1, <1>2, <1>3 DEF Next, PeerStep, BoardActs, PeerActs

-----------------------------------------------------------------------------
(* When the peer closes, and the theorems. *)

\* A place in the queues is in a segment of theirs.
LEMMA PlaceHeld ==
  ASSUME NEW S, NEW q \in Seq(S), Shaped(q), NEW i \in Positions(q)
  PROVE  \E s \in ToSet(q) : s.seq <= i /\ i < End(s)
  <1>1. DOMAIN q = 1 .. Len(q)
    OBVIOUS
  <1>2. PICK k \in 1 .. Len(q) : i \in q[k].seq .. End(q[k]) - 1
    BY <1>1 DEF Positions
  <1>3. q[k].seq \in Nat /\ End(q[k]) \in Nat
    BY <1>2 DEF Shaped
  <1>4. q[k].seq <= i /\ i < End(q[k])
    BY <1>2, <1>3
  <1>5. q[k] \in ToSet(q)
    BY <1>1, <1>2 DEF ToSet
  <1> QED
    BY <1>4, <1>5

\* A pcb whose queues are in order, and which was closed, holds all it has to.
LEMMA LiveShut ==
  ASSUME written \in 0 .. MaxData, NEW e, NEW n \in Nat, Live(pcb, written, e, n), ~Open(pcb)
  PROVE  Shut(pcb, written, n)
  <1> DEFINE w == written
             a == pcb.lastack
  <1>1. /\ w \in Nat /\ pcb \in Pcbs /\ Kept(pcb, w) /\ a \in Nat
    BY StreamAssumption DEF Live, Pcbs
  <1>2. /\ pcb.fin = TRUE /\ pcb.state \in {"FIN_WAIT_1", "FIN_WAIT_2"} /\ a <= n
    <2>1. pcb.state \in {"FIN_WAIT_1", "FIN_WAIT_2"} /\ pcb.fin /\ pcb.fin \in BOOLEAN
      BY DEF Live, Rest, Open, Pcbs
    <2>2. a <= pcb.wl2 /\ pcb.wl2 <= n /\ pcb.wl2 \in Nat
      BY DEF Live, Rest, Pcbs
    <2> HIDE DEF a
    <2> QED
      BY <1>1, <2>1, <2>2
  <1>3. Packed(pcb, w, TRUE)
    <2>1. /\ pcb.unacked \in Seq(Packets(w, pcb.fin)) /\ pcb.unsent \in Seq(Packets(w, pcb.fin))
      BY <1>1, KeptShaped
    <2>2. Fields(pcb)
      BY <1>1 DEF Fields, Pcbs
    <2> QED
      BY <1>2, <2>1, <2>2 DEF Packed
  <1>4. Shaped(pcb.unacked) /\ Shaped(pcb.unsent)
    BY <1>1, KeptShaped
  <1>5. a .. w \subseteq Positions(pcb.unsent) \cup Positions(pcb.unacked)
    <2>1. a .. w - (IF pcb.fin THEN 0 ELSE 1) \subseteq Positions(pcb.unsent) \cup Positions(pcb.unacked)
      BY LiveCovers
    <2>2. w - (IF pcb.fin THEN 0 ELSE 1) = w
      BY <1>1, <1>2
    <2> QED
      BY <2>1, <2>2
  <1>6. Holds(pcb, w, n)
    <2> SUFFICES ASSUME NEW i \in 0 .. w, ~(i < n)
                 PROVE  \E s \in OnQueue(pcb) : s.seq <= i /\ i < End(s)
      BY DEF Holds
    <2>1. i \in Positions(pcb.unsent) \cup Positions(pcb.unacked)
      <3>1. i \in a .. w
        BY <1>1, <1>2
      <3> QED
        BY <1>5, <3>1
    <2> DEFINE S == Packets(w, TRUE)
    <2>2. pcb.unsent \in Seq(S) /\ pcb.unacked \in Seq(S)
      BY <1>3 DEF Packed
    <2> HIDE DEF S
    <2>3. \E s \in ToSet(pcb.unsent) \cup ToSet(pcb.unacked) : s.seq <= i /\ i < End(s)
      BY <1>4, <2>1, <2>2, PlaceHeld
    <2> QED
      BY <2>3 DEF OnQueue
  <1> QED
    BY <1>2, <1>3, <1>6 DEF Shut

\* The peer closes when the server can write no more.
LEMMA CloseEnters ==
  ASSUME OpenInv, PeerCloses, ~Open(pcb)'
  PROVE  AfterInv' /\ UNCHANGED <<pcb, written>> /\ peer'.read = peer.read
  <1> DEFINE n == Len(peer.read)
  <1>1. /\ peer' = [peer EXCEPT !.closed = TRUE] /\ toBoard' = toBoard \cup {PeerFin(peer)}
        /\ pcb' = pcb /\ written' = written /\ over' = over /\ toPeer' = toPeer
    BY DEF PeerCloses
  <1>2. PeerHas(peer, written, pcb.fin) /\ peer \in Peers /\ n \in Nat
    BY DEF OpenInv, PeerHas, Peers
  <1>3. /\ peer' \in Peers /\ peer'.read = peer.read /\ peer'.early = peer.early
        /\ peer'.edge = peer.edge
    BY <1>1, <1>2 DEF Peers
  <1>4. PeerHas(peer', written, pcb.fin)
    BY <1>2, <1>3 DEF PeerHas
  <1>5. \A m \in toPeer : Honest(m, written, pcb.fin)
    BY CarriesHonest DEF OpenInv
  <1>6. \A m \in toBoard' : m.ack \in 0 .. n
    <2>1. ASSUME NEW m \in toBoard' PROVE m.ack \in 0 .. n
      <3>1. CASE m = PeerFin(peer)
        <4>1. m.ack = n
          BY <3>1 DEF PeerFin, Ack
        <4> HIDE DEF n
        <4> QED
          BY <1>2, <4>1
      <3>2. CASE m \in toBoard
        <4>1. m.ack \in Nat /\ m.ack <= n
          BY <3>2 DEF OpenInv, Answers, Offer
        <4> HIDE DEF n
        <4> QED
          BY <1>2, <4>1
      <3> QED
        BY <1>1, <3>1, <3>2
    <2> QED
      BY <2>1
  <1>7. Parted(pcb, written) \/ Shut(pcb, written, n)
    <2>1. CASE Gone(pcb)
      BY <2>1 DEF Gone, Parted
    <2>2. CASE Connected
      <3>1. Live(pcb, written, peer.edge, n) /\ written \in 0 .. MaxData /\ ~Open(pcb)
        BY <1>1, <2>2 DEF OpenInv, Connected
      <3> HIDE DEF n
      <3> QED
        BY <1>2, <3>1, LiveShut
    <2> QED
      BY <2>1, <2>2 DEF OpenInv
  <1>8. over # "done" /\ written \in 0 .. MaxData /\ pcb.fin \in BOOLEAN
    BY <1>7 DEF OpenInv, Parted, Shut
  <1> QED
    BY <1>1, <1>3, <1>4, <1>5, <1>6, <1>7, <1>8 DEF AfterInv

\* Only PeerCloses closes the peer.
LEMMA PeerActsSame ==
  ASSUME OpenInv, Whole(peer), PeerActs
  PROVE  peer'.closed = peer.closed
  <1>1. CASE UNCHANGED peer
    BY <1>1
  <1>2. CASE PeerReads
    <2>1. \E x : peer' = [peer EXCEPT !.edge = x]
      BY <1>2 DEF PeerReads
    <2> QED
      BY <2>1 DEF Whole
  <1>3. ASSUME NEW m \in toPeer, PeerReceive(m)
        PROVE  peer'.closed = peer.closed
    <2>1. written \in Nat /\ pcb.fin \in BOOLEAN
      BY SameLonger DEF Longer
    <2>2. PeerHas(peer, written, pcb.fin) /\ Honest(m, written, pcb.fin)
      BY CarriesHonest DEF OpenInv
    <2> QED
      BY <1>3, <2>1, <2>2, PeerTakes
  <1> QED
    BY <1>1, <1>2, <1>3 DEF PeerActs, Lose

\* The invariant before the peer closes, and the one behind it.
BothInv == IInv /\ (peer.closed => AfterInv)

LEMMA BothInit == Init => BothInv
  BY InvInit DEF Init, BothInv

\* It is inductive while the peer closes only behind the server.
LEMMA BothNext ==
  ASSUME BothInv, ClosesSecond', [Next]_vars
  PROVE  BothInv' /\ [Stream!Send \/ Stream!Receive]_(Stream!vars)
  <1>1. IInv' /\ Whole(peer) /\ (peer.closed => peer'.closed)
    BY InvNext, WholeStays DEF BothInv, IInv
  <1>2. CASE UNCHANGED vars
    <2>1. peer.closed => AfterInv'
      BY <1>2 DEF BothInv, AfterInv, vars
    <2> QED
      BY <1>1, <1>2, <2>1 DEF BothInv, vars, Stream!vars
  <1>3. CASE peer.closed /\ Next
    <2>1. AfterInv
      BY <1>3 DEF BothInv
    <2> QED
      BY <1>1, <1>3, <2>1, AfterSteps DEF BothInv
  <1>4. CASE ~peer.closed /\ Next
    <2>1. IInv /\ OpenInv
      BY <1>4 DEF BothInv, IInv
    <2>2. [Stream!Send \/ Stream!Receive]_(Stream!vars)
      BY <1>4, <2>1, StreamStep
    <2>3. CASE PeerCloses
      <3>1. peer'.closed
        <4>1. peer' = [peer EXCEPT !.closed = TRUE]
          BY <2>3 DEF PeerCloses
        <4> QED
          BY <1>1, <4>1 DEF Whole
      <3>2. ~Open(pcb)'
        BY <3>1 DEF ClosesSecond
      <3> QED
        BY <1>1, <2>1, <2>2, <2>3, <3>2, CloseEnters DEF BothInv
    <2>4. CASE ~PeerCloses
      <3>1. peer'.closed = peer.closed
        BY <1>1, <1>4, <2>1, <2>4, OpenSteps, BoardActsKeep, PeerActsSame
      <3> QED
        BY <1>1, <1>4, <2>2, <3>1 DEF BothInv
    <2> QED
      BY <2>3, <2>4
  <1> QED
    BY <1>2, <1>3, <1>4

\* What is read to its end has all that was written.
LEMMA BothRead == BothInv => DoneMeansRead
  <1> SUFFICES ASSUME BothInv, over = "done"
               PROVE  Eof(peer) /\ Len(DataRead(peer)) = written
    BY DEF DoneMeansRead
  <1>1. AfterInv
    BY DEF BothInv, IInv, OpenInv
  <1>2. /\ written \in Nat /\ pcb.fin \in BOOLEAN /\ PeerHas(peer, written, pcb.fin)
        /\ Len(peer.read) > written
    BY <1>1, StreamAssumption DEF AfterInv
  <1>3. Eof(peer) /\ DataRead(peer) = First(written)
    BY <1>2, ReadIs
  <1>4. Len(First(written)) = written
    BY <1>2 DEF First
  <1> QED
    BY <1>3, <1>4

\* The invariant, when the peer is second to close.
LEMMA BothHold == Spec /\ []ClosesSecond => []BothInv
  <1>1. BothInv /\ ClosesSecond' /\ [Next]_vars => BothInv'
    BY BothNext
  <1> QED
    BY <1>1, BothInit, PTL DEF Spec

(* When tcp_close was called before the peer closes, or the pcb is gone by  *)
(* then, a connection that reaches TIME_WAIT with its queues empty has      *)
(* brought the peer everything and the end of it, whatever tcp_rexmit and   *)
(* tcp_rexmit_rto do and the network loses, doubles and reorders.           *)
THEOREM DoneIsRead == Spec /\ []ClosesSecond => []DoneMeansRead
  BY BothHold, BothRead, PTL

(* And such a connection implements ByteStream to its end: tcp_receive      *)
(* takes no segment off a queue before the peer has read it.                *)
THEOREM SecondImplements == Spec /\ []ClosesSecond => ImplementsByteStream
  <1>1. BothInv /\ ClosesSecond' /\ [Next]_vars => [Stream!Send \/ Stream!Receive]_(Stream!vars)
    BY BothNext
  <1> QED
    BY <1>1, StreamInit, BothHold, PTL DEF Spec, ImplementsByteStream, Stream!Spec
================================================================================
