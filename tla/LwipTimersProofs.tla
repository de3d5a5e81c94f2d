--------------------------- MODULE LwipTimersProofs ---------------------------
(****************************************************************************)
(* Theorems about LwipTimers, for any periods, any width of the clock and   *)
(* any pool that holds the timeouts of boot and one more: no timeout of a   *)
(* periodic handler is lost and none is kept twice, the pool suffices; and, *)
(* when the input side is polled, a registered connection is timed and the  *)
(* list of differences implements the list of distances.                    *)
(****************************************************************************)
EXTENDS LwipTimers, FiniteSetTheorems, SequenceTheorems, TLAPS

-----------------------------------------------------------------------------
(* Induction over the numbers of a sequence's entries. *)

(* A set of numbers has a least one.                                        *)
LEMMA LeastNat ==
  ASSUME NEW T, T \subseteq Nat, T # {}
  PROVE  \E x \in T : \A y \in T : x <= y
  <1> DEFINE R == OpToRel(<, Nat)
  <1>1. \E x \in T : \A y \in T : ~ (<<y, x>> \in R)
    BY NatLessThanWellFounded, WFMin
  <1>2. \A x, y \in Nat : x < y => <<x, y>> \in R
    BY DEF OpToRel
  <1> HIDE DEF R
  <1>3. PICK x \in T : \A y \in T : ~ (<<y, x>> \in R)
    BY <1>1
  <1>4. ASSUME NEW y \in T PROVE x <= y
    <2>1. x \in Nat /\ y \in Nat /\ ~ (<<y, x>> \in R)
      BY <1>3
    <2> QED
      BY <2>1, <1>2
  <1> QED
    BY <1>4

(* What holds of 0, and of n + 1 when it holds of n, holds up to N.         *)
LEMMA Upward ==
  ASSUME NEW N \in Nat, NEW S, 0 \in S,
         \A n \in 0 .. (N - 1) : n \in S => n + 1 \in S
  PROVE  \A n \in 0 .. N : n \in S
  <1> DEFINE T == {n \in 0 .. N : n \notin S}
  <1> SUFFICES ASSUME T # {} PROVE FALSE
    OBVIOUS
  <1>1. PICK x \in T : \A y \in T : x <= y
    <2>1. T \subseteq Nat
      OBVIOUS
    <2> HIDE DEF T
    <2> QED
      BY <2>1, LeastNat
  <1>2. x # 0 /\ x \in 0 .. N
    BY <1>1
  <1>3. x - 1 \in 0 .. (N - 1) /\ x - 1 \notin T
    BY <1>1, <1>2
  <1> QED
    BY <1>1, <1>2, <1>3

(* A remainder of a number that is in range is the number.                  *)
LEMMA InRange == \A x \in 0 .. (TimeMod - 1) : x % TimeMod = x
  BY TimeAssumption

LEMMA Remainder == \A x \in Int : x % TimeMod \in 0 .. (TimeMod - 1)
  BY TimeAssumption

LEMMA Intervals == \A h \in Handlers : Interval[h] \in 0 .. (TimeMod - 1) /\ Interval[h] > 0
  BY TimeAssumption, IntervalsAssumption DEF Interval, Handlers, Periodic

-----------------------------------------------------------------------------
(* When the entries of a list are due. *)

(* The recursive definition of Due has a solution, which is built up one    *)
(* entry at a time.                                                         *)
LEMMA DueStep ==
  ASSUME NEW q \in Seq(Timeout)
  PROVE  /\ Due(q, 0) = 0
         /\ \A i \in 1 .. Len(q) : Due(q, i) = Due(q, i - 1) + q[i].time
  <1> DEFINE Sums(f, n) == f = [k \in 0 .. n |-> IF k = 0 THEN 0 ELSE f[k-1] + q[k].time]
             S == {n \in 0 .. Len(q) : \E f : Sums(f, n)}
             d == CHOOSE f : Sums(f, Len(q))
  <1>1. 0 \in S
    <2>1. Sums([k \in 0 .. 0 |-> 0], 0) /\ 0 \in 0 .. Len(q)
      OBVIOUS
    <2> HIDE DEF Sums
    <2> QED
      BY <2>1
  <1>2. ASSUME NEW n \in 0 .. (Len(q) - 1), n \in S
        PROVE  n + 1 \in S
    <2>1. PICK f : Sums(f, n)
      BY <1>2
    <2>2. Sums([k \in 0 .. (n + 1) |-> IF k <= n THEN f[k] ELSE f[n] + q[n+1].time], n + 1)
      BY <2>1
    <2>3. n + 1 \in 0 .. Len(q)
      OBVIOUS
    <2> HIDE DEF Sums
    <2> QED
      BY <2>2, <2>3
  <1>3. Len(q) \in S
    <2>1. Len(q) \in Nat
      OBVIOUS
    <2> HIDE DEF S, Sums
    <2>2. \A n \in 0 .. Len(q) : n \in S
      BY <2>1, <1>1, <1>2, Upward
    <2> QED
      BY <2>1, <2>2
  <1>4. Sums(d, Len(q))
    <2>1. PICK f : Sums(f, Len(q))
      BY <1>3
    <2> QED
      BY <2>1
  <1>5. \A i : Due(q, i) = d[i]
    BY DEF Due
  <1>6. d[0] = 0 /\ \A i \in 1 .. Len(q) : d[i] = d[i-1] + q[i].time
    <2> HIDE DEF d
    <2>1. Len(q) \in Nat
      OBVIOUS
    <2> QED
      BY <1>4, <2>1
  <1> QED
    BY <1>5, <1>6

LEMMA TimesNat ==
  ASSUME NEW q \in Seq(Timeout), NEW i \in 1 .. Len(q)
  PROVE  q[i] \in Timeout /\ q[i].time \in 0 .. (TimeMod - 1) /\ q[i].h \in Handlers
  <1>1. q[i] \in Timeout
    OBVIOUS
  <1> QED
    BY <1>1 DEF Timeout

(* Distances are natural numbers, and grow along the list.                  *)
LEMMA DueNat ==
  ASSUME NEW q \in Seq(Timeout)
  PROVE  \A i \in 0 .. Len(q) : Due(q, i) \in Nat
  <1> DEFINE S == {i \in 0 .. Len(q) : Due(q, i) \in Nat}
  <1>1. 0 \in S
    BY DueStep
  <1>2. ASSUME NEW n \in 0 .. (Len(q) - 1), n \in S PROVE n + 1 \in S
    <2>1. Due(q, n + 1) = Due(q, n) + q[n+1].time
      BY DueStep
    <2> QED
      BY <1>2, <2>1, TimesNat, TimeAssumption
  <1> HIDE DEF S
  <1>3. \A n \in 0 .. Len(q) : n \in S
    BY <1>1, <1>2, Upward
  <1> QED
    BY <1>3 DEF S

LEMMA DueGrows ==
  ASSUME NEW q \in Seq(Timeout), NEW i \in 1 .. Len(q)
  PROVE  Due(q, i - 1) <= Due(q, i)
  BY DueStep, DueNat, TimesNat, TimeAssumption

-----------------------------------------------------------------------------
(* The walk of sys_timeout and the links it sets. *)

LEMMA PlaceIsFirst ==
  ASSUME NEW q \in Seq(Timeout), NEW ms \in 0 .. (TimeMod - 1)
  PROVE  LET p == Place(q, ms) IN
         /\ p \in 0 .. Len(q)
         /\ p = Len(q) \/ Due(q, p + 1) > ms
         /\ \A i \in 0 .. p : Due(q, i) <= ms
         /\ Rest(q, ms) = ms - Due(q, p) /\ Rest(q, ms) \in 0 .. ms
         /\ p = Len(q) \/ q[p+1].time > Rest(q, ms)
  <1> DEFINE T == {i \in 0 .. Len(q) : i = Len(q) \/ q[i+1].time > ms - Due(q, i)}
             p == Place(q, ms)
  <1>1. p \in T /\ \A y \in T : p <= y
    <2>1. T # {} /\ T \subseteq Nat
      OBVIOUS
    <2>2. p = CHOOSE x \in T : \A y \in T : x <= y
      BY DEF Place, Min
    <2> HIDE DEF T, p
    <2> QED
      BY <2>1, <2>2, LeastNat
  <1>2. p \in 0 .. Len(q)
    BY <1>1
  <1> DEFINE S == {i \in 0 .. p : Due(q, i) <= ms}
  <1>3. \A i \in 0 .. p : i \in S
    <2>1. 0 \in S
      BY <1>2, DueStep
    <2>2. ASSUME NEW n \in 0 .. (p - 1), n \in S PROVE n + 1 \in S
      <3>1. n \notin T /\ n \in 0 .. (Len(q) - 1)
        BY <1>1, <1>2
      <3>2. ~(q[n+1].time > ms - Due(q, n))
        BY <3>1
      <3>3. Due(q, n + 1) = Due(q, n) + q[n+1].time
        BY <3>1, DueStep
      <3>4. q[n+1].time \in Nat /\ Due(q, n) \in Nat /\ ms \in Nat
        BY <3>1, TimesNat, DueNat, TimeAssumption
      <3> QED
        BY <3>2, <3>3, <3>4, <1>2
    <2> HIDE DEF S, p
    <2> QED
      BY <2>1, <2>2, <1>2, Upward
  <1>4. Rest(q, ms) = ms - Due(q, p)
    BY DEF Rest
  <1>5. Rest(q, ms) \in 0 .. ms
    BY <1>3, <1>4, <1>2, DueNat, TimeAssumption
  <1>6. p = Len(q) \/ q[p+1].time > Rest(q, ms)
    BY <1>1, <1>4
  <1>7. p = Len(q) \/ Due(q, p + 1) > ms
    <2> SUFFICES ASSUME p # Len(q) PROVE Due(q, p + 1) > ms
      OBVIOUS
    <2> HIDE DEF p
    <2>1. Due(q, p + 1) = Due(q, p) + q[p+1].time
      BY <1>2, DueStep
    <2> QED
      BY <2>1, <1>2, <1>4, <1>6, TimesNat, DueNat, TimeAssumption
  <1> QED
    BY <1>2, <1>3, <1>4, <1>5, <1>6, <1>7

(* What a list is with an entry linked in.                                  *)
LEMMA LinkShape ==
  ASSUME NEW q \in Seq(Timeout), NEW at \in 0 .. Len(q), NEW e \in Timeout
  PROVE  LET r == Link(q, at, e) IN
         /\ r \in Seq(Timeout)
         /\ Len(r) = Len(q) + 1
         /\ \A k \in 1 .. at : r[k] = q[k]
         /\ r[at+1] = e
         /\ at < Len(q) => r[at+2] = [q[at+1] EXCEPT !.time = (@ - e.time) % TimeMod]
         /\ \A k \in at+2 .. Len(q) : r[k+1] = q[k]
  <1> DEFINE tail == SubSeq(q, at + 1, Len(q))
             moved == [i \in 1 .. Len(tail) |->
                        IF i = 1 THEN [tail[1] EXCEPT !.time = (@ - e.time) % TimeMod]
                                 ELSE tail[i]]
             front == SubSeq(q, 1, at)
             r == Link(q, at, e)
  <1>1. r = front \o <<e>> \o moved
    BY DEF Link
  <1>2. /\ front \in Seq(Timeout) /\ Len(front) = at
        /\ \A k \in 1 .. at : front[k] = q[k]
    OBVIOUS
  <1>3. /\ tail \in Seq(Timeout) /\ Len(tail) = Len(q) - at
        /\ \A i \in 1 .. Len(tail) : tail[i] = q[at + i]
    OBVIOUS
  <1>4. /\ moved \in Seq(Timeout) /\ Len(moved) = Len(q) - at
        /\ \A i \in 2 .. Len(moved) : moved[i] = q[at + i]
        /\ Len(moved) > 0 => moved[1] = [q[at+1] EXCEPT !.time = (@ - e.time) % TimeMod]
    <2> HIDE DEF tail
    <2>1. ASSUME NEW i \in 1 .. Len(tail) PROVE moved[i] \in Timeout
      <3>1. tail[i] \in Timeout
        BY <1>3
      <3>2. tail[i].time \in Int /\ e.time \in Int
        BY <3>1, TimeAssumption DEF Timeout
      <3>3. (tail[i].time - e.time) % TimeMod \in 0 .. (TimeMod - 1)
        <4> DEFINE x == tail[i].time - e.time
        <4>1. x \in Int
          BY <3>2
        <4> HIDE DEF x
        <4>2. x % TimeMod \in 0 .. (TimeMod - 1)
          BY <4>1, Remainder
        <4> QED
          BY <4>2 DEF x
      <3>4. [tail[i] EXCEPT !.time = (@ - e.time) % TimeMod] \in Timeout
        BY <3>1, <3>3 DEF Timeout
      <3> QED
        BY <3>1, <3>4
    <2>2. Len(tail) \in Nat
      BY <1>3
    <2>3. moved \in Seq(Timeout) /\ Len(moved) = Len(tail)
      <3>1. moved \in [1 .. Len(tail) -> Timeout]
        BY <2>1
      <3> HIDE DEF moved
      <3> QED
        BY <3>1, <2>2
    <2>4. \A i \in 2 .. Len(moved) : moved[i] = q[at + i]
      BY <2>3, <2>2, <1>3
    <2>5. Len(moved) > 0 => moved[1] = [tail[1] EXCEPT !.time = (@ - e.time) % TimeMod]
      BY <2>3, <2>2
    <2>6. Len(moved) > 0 => tail[1] = q[at+1]
      BY <2>3, <1>3
    <2>7. moved \in Seq(Timeout) /\ Len(moved) = Len(q) - at
      BY <2>3, <1>3
    <2> HIDE DEF moved
    <2> QED
      BY <2>4, <2>5, <2>6, <2>7
  <1> HIDE DEF tail, moved, front, r
  <1>5. r \in Seq(Timeout) /\ Len(r) = Len(q) + 1
    <2> DEFINE first == front \o <<e>>
    <2>1. first \in Seq(Timeout) /\ Len(first) = at + 1
      BY <1>2
    <2>2. r = first \o moved
      BY <1>1
    <2> HIDE DEF first
    <2>3. moved \in Seq(Timeout) /\ Len(moved) = Len(q) - at
      BY <1>4
    <2>4. r \in Seq(Timeout)
      BY <2>1, <2>2, <2>3
    <2>5. Len(r) = Len(first) + Len(moved)
      BY <2>1, <2>2, <2>3, ConcatProperties
    <2> QED
      BY <2>1, <2>3, <2>4, <2>5
  <1>6. (\A k \in 1 .. at : r[k] = q[k]) /\ r[at+1] = e
    BY <1>1, <1>2, <1>4
  <1>7. \A i \in 1 .. Len(moved) : r[at + 1 + i] = moved[i]
    BY <1>1, <1>2, <1>4
  <1>8. at < Len(q) => r[at+2] = [q[at+1] EXCEPT !.time = (@ - e.time) % TimeMod]
    BY <1>4, <1>7
  <1>9. ASSUME NEW k \in at+2 .. Len(q) PROVE r[k+1] = q[k]
    <2>1. k - at \in 2 .. Len(moved)
      BY <1>4
    <2> QED
      BY <2>1, <1>4, <1>7
  <1> QED
    BY <1>5, <1>6, <1>8, <1>9 DEF r

-----------------------------------------------------------------------------
(* How many timeouts of a handler a list holds. *)

Of(q, h) == {i \in 1 .. Len(q) : q[i].h = h}
Count(q, h) == Cardinality(Of(q, h))

LEMMA CountNat ==
  ASSUME NEW q \in Seq(Timeout), NEW h
  PROVE  IsFiniteSet(Of(q, h)) /\ Count(q, h) \in Nat
  <1>1. Len(q) \in Nat /\ Of(q, h) \in SUBSET (1 .. Len(q))
    BY DEF Of
  <1>2. IsFiniteSet(1 .. Len(q))
    BY <1>1, FS_Interval
  <1> QED
    BY <1>1, <1>2, FS_Subset, FS_CardinalityType DEF Count

(* One entry more, wherever it is put.                                      *)
LEMMA CountInserted ==
  ASSUME NEW q \in Seq(Timeout), NEW r \in Seq(Timeout), NEW n \in 0 .. Len(q),
         Len(r) = Len(q) + 1,
         \A k \in 1 .. n : r[k].h = q[k].h,
         \A k \in n+1 .. Len(q) : r[k+1].h = q[k].h,
         NEW h
  PROVE  Count(r, h) = Count(q, h) + (IF r[n+1].h = h THEN 1 ELSE 0)
  <1> DEFINE Q == Of(q, h)
             R == Of(r, h)
             f == [i \in Q |-> IF i <= n THEN i ELSE i + 1]
  <1>0. n \in Nat /\ Len(q) \in Nat
    OBVIOUS
  <1>1. f \in [Q -> R \ {n+1}]
    BY DEF Of
  <1>2. \A i, j \in Q : f[i] = f[j] => i = j
    BY <1>0 DEF Of
  <1>3. ASSUME NEW k \in R \ {n+1} PROVE \E i \in Q : f[i] = k
    <2>1. CASE k <= n
      <3>1. k \in Q /\ f[k] = k
        BY <1>0, <2>1 DEF Of
      <3> QED
        BY <3>1
    <2>2. CASE k > n
      <3>1. k - 1 \in Q /\ f[k-1] = k
        BY <1>0, <2>2 DEF Of
      <3> QED
        BY <3>1
    <2>3. k \in Nat
      BY DEF Of
    <2> QED
      BY <1>0, <2>1, <2>2, <2>3
  <1>4. f \in Bijection(Q, R \ {n+1})
    <2> HIDE DEF f, Q, R
    <2> QED
      BY <1>1, <1>2, <1>3 DEF Bijection, Injection, Surjection, IsInjective
  <1>5. Cardinality(R \ {n+1}) = Cardinality(Q)
    <2>1. ExistsBijection(Q, R \ {n+1})
      BY <1>4 DEF ExistsBijection
    <2> HIDE DEF Q, R
    <2> QED
      BY <2>1, CountNat, FS_Bijection DEF Q
  <1>6. Cardinality(R \ {n+1}) = IF n + 1 \in R THEN Cardinality(R) - 1 ELSE Cardinality(R)
    BY CountNat, FS_RemoveElement
  <1>7. n + 1 \in R <=> r[n+1].h = h
    BY <1>0 DEF Of
  <1>8. Count(q, h) = Cardinality(Q) /\ Count(r, h) = Cardinality(R)
    BY DEF Count
  <1>9. Count(q, h) \in Nat /\ Count(r, h) \in Nat
    BY CountNat
  <1> HIDE DEF Q, R
  <1> QED
    BY <1>5, <1>6, <1>7, <1>8, <1>9

LEMMA CountLinked ==
  ASSUME NEW q \in Seq(Timeout), NEW at \in 0 .. Len(q), NEW e \in Timeout, NEW h
  PROVE  Count(Link(q, at, e), h) = Count(q, h) + (IF e.h = h THEN 1 ELSE 0)
  <1> DEFINE r == Link(q, at, e)
  <1>1. /\ r \in Seq(Timeout)
        /\ Len(r) = Len(q) + 1
        /\ \A k \in 1 .. at : r[k] = q[k]
        /\ r[at+1] = e
        /\ at < Len(q) => r[at+2] = [q[at+1] EXCEPT !.time = (@ - e.time) % TimeMod]
        /\ \A k \in at+2 .. Len(q) : r[k+1] = q[k]
    BY LinkShape
  <1> HIDE DEF r
  <1>2. ASSUME NEW k \in at+1 .. Len(q) PROVE r[k+1].h = q[k].h
    <2>1. CASE k = at + 1
      <3>1. q[at+1] \in Timeout /\ at < Len(q)
        BY <2>1
      <3>2. r[at+2].h = q[at+1].h
        BY <1>1, <3>1 DEF Timeout
      <3> QED
        BY <2>1, <3>2
    <2>2. CASE k # at + 1
      BY <1>1, <2>2
    <2> QED
      BY <2>1, <2>2
  <1>3. \A k \in 1 .. at : r[k].h = q[k].h
    BY <1>1
  <1>4. Count(r, h) = Count(q, h) + (IF r[at+1].h = h THEN 1 ELSE 0)
    <2>1. r \in Seq(Timeout) /\ Len(r) = Len(q) + 1
      BY <1>1
    <2>2. at \in 0 .. Len(q) /\ \A k \in at+1 .. Len(q) : r[k+1].h = q[k].h
      BY <1>2
    <2> QED
      BY <1>3, <2>1, <2>2, CountInserted
  <1> QED
    BY <1>1, <1>4 DEF r

LEMMA TailShape ==
  ASSUME NEW q \in Seq(Timeout), q # <<>>
  PROVE  LET r == SubSeq(q, 2, Len(q)) IN
         /\ r \in Seq(Timeout)
         /\ Len(q) = Len(r) + 1
         /\ \A k \in 1 .. Len(r) : q[k+1] = r[k]
  <1>1. Len(q) \in Nat /\ Len(q) > 0
    OBVIOUS
  <1>2. SubSeq(q, 2, Len(q)) = [k \in 1 .. (Len(q) - 1) |-> q[k+1]]
    BY <1>1
  <1>3. \A k \in 1 .. (Len(q) - 1) : q[k+1] \in Timeout
    BY <1>1
  <1> DEFINE r == SubSeq(q, 2, Len(q))
  <1> HIDE DEF r
  <1>4. r \in [1 .. (Len(q) - 1) -> Timeout]
    BY <1>2, <1>3 DEF r
  <1>5. r \in Seq(Timeout) /\ Len(r) = Len(q) - 1
    BY <1>1, <1>4
  <1> QED
    BY <1>1, <1>2, <1>5 DEF r

LEMMA CountTail ==
  ASSUME NEW q \in Seq(Timeout), q # <<>>, NEW h
  PROVE  Count(q, h) = Count(SubSeq(q, 2, Len(q)), h) + (IF q[1].h = h THEN 1 ELSE 0)
  <1> DEFINE r == SubSeq(q, 2, Len(q))
  <1>1. r \in Seq(Timeout) /\ Len(q) = Len(r) + 1 /\ \A k \in 1 .. Len(r) : q[k+1] = r[k]
    BY TailShape
  <1> HIDE DEF r
  <1>2. Count(q, h) = Count(r, h) + (IF q[0+1].h = h THEN 1 ELSE 0)
    <2>1. 0 \in 0 .. Len(r)
      BY <1>1
    <2>2. \A k \in 1 .. 0 : q[k].h = r[k].h
      OBVIOUS
    <2>3. \A k \in 0+1 .. Len(r) : q[k+1].h = r[k].h
      BY <1>1
    <2> QED
      BY <1>1, <2>1, <2>2, <2>3, CountInserted
  <1> QED
    BY <1>2 DEF r

-----------------------------------------------------------------------------
(* The type invariant. *)

LEMMA NewTyped ==
  ASSUME NEW q \in Seq(Timeout), NEW h \in Handlers
  PROVE  /\ Place(q, Interval[h]) \in 0 .. Len(q)
         /\ Rest(q, Interval[h]) \in 0 .. (TimeMod - 1)
         /\ New(h, Rest(q, Interval[h])) \in Timeout
  <1>1. Interval[h] \in 0 .. (TimeMod - 1)
    BY Intervals
  <1> DEFINE ms == Interval[h]
  <1> HIDE DEF ms
  <1>2. Place(q, ms) \in 0 .. Len(q) /\ Rest(q, ms) \in 0 .. ms /\ ms \in 0 .. (TimeMod - 1)
    BY <1>1, PlaceIsFirst DEF ms
  <1>3. Rest(q, ms) \in 0 .. (TimeMod - 1)
    BY <1>2, TimeAssumption
  <1> QED
    BY <1>2, <1>3 DEF ms, New, Timeout

LEMMA ScheduledShape ==
  ASSUME NEW q \in Seq(Timeout), NEW h \in Handlers
  PROVE  /\ Scheduled(q, h) \in Seq(Timeout)
         /\ Len(Scheduled(q, h)) = Len(q) + 1
         /\ \A x : Count(Scheduled(q, h), x) = Count(q, x) + (IF h = x THEN 1 ELSE 0)
  <1> DEFINE at == Place(q, Interval[h])
             e == New(h, Rest(q, Interval[h]))
  <1>1. at \in 0 .. Len(q) /\ e \in Timeout
    BY NewTyped
  <1>2. e.h = h
    BY DEF New
  <1>3. Scheduled(q, h) = Link(q, at, e)
    BY DEF Scheduled
  <1> HIDE DEF at, e
  <1>4. Link(q, at, e) \in Seq(Timeout) /\ Len(Link(q, at, e)) = Len(q) + 1
    BY <1>1, LinkShape
  <1>5. \A x : Count(Link(q, at, e), x) = Count(q, x) + (IF e.h = x THEN 1 ELSE 0)
    BY <1>1, CountLinked
  <1> QED
    BY <1>2, <1>3, <1>4, <1>5

(* The timeouts of boot.                                                    *)
LEMMA Boot ==
  ASSUME Init
  PROVE  /\ timers \in Seq(Timeout)
         /\ Len(timers) = 5
         /\ \A h \in Handlers : Count(timers, h) = 1
  <1> DEFINE q0 == <<>>
             q1 == Scheduled(q0, "ip")
             q2 == Scheduled(q1, "arp")
             q3 == Scheduled(q2, "coarse")
             q4 == Scheduled(q3, "fine")
             q5 == Scheduled(q4, "tcp")
  <1>0. q0 \in Seq(Timeout) /\ Len(q0) = 0 /\ \A x : Count(q0, x) = 0
    <2>1. \A x : Of(<<>>, x) = {}
      BY DEF Of
    <2> QED
      BY <2>1, FS_EmptySet DEF Count
  <1>h. {"ip", "arp", "coarse", "fine", "tcp"} = Handlers
    BY DEF Handlers, Periodic
  <1> HIDE DEF q0
  <1>1. /\ q1 \in Seq(Timeout) /\ Len(q1) = 1
        /\ \A x : Count(q1, x) = IF "ip" = x THEN 1 ELSE 0
    <2>1. "ip" \in Handlers /\ q0 \in Seq(Timeout)
      BY <1>0, <1>h
    <2>2. q1 \in Seq(Timeout) /\ Len(q1) = Len(q0) + 1
      BY <2>1, ScheduledShape
    <2>3. \A x : Count(q1, x) = Count(q0, x) + (IF "ip" = x THEN 1 ELSE 0)
      BY <2>1, ScheduledShape
    <2> HIDE DEF q1
    <2> QED
      BY <1>0, <2>2, <2>3
  <1> HIDE DEF q1
  <1>2. /\ q2 \in Seq(Timeout) /\ Len(q2) = 2
        /\ \A x : Count(q2, x) = IF x \in {"ip", "arp"} THEN 1 ELSE 0
    <2>1. "arp" \in Handlers /\ q1 \in Seq(Timeout)
      BY <1>1, <1>h
    <2>2. q2 \in Seq(Timeout) /\ Len(q2) = Len(q1) + 1
      BY <2>1, ScheduledShape
    <2>3. \A x : Count(q2, x) = Count(q1, x) + (IF "arp" = x THEN 1 ELSE 0)
      BY <2>1, ScheduledShape
    <2> HIDE DEF q2
    <2> QED
      BY <1>1, <2>2, <2>3
  <1> HIDE DEF q2
  <1>3. /\ q3 \in Seq(Timeout) /\ Len(q3) = 3
        /\ \A x : Count(q3, x) = IF x \in {"ip", "arp", "coarse"} THEN 1 ELSE 0
    <2>1. "coarse" \in Handlers /\ q2 \in Seq(Timeout)
      BY <1>2, <1>h
    <2>2. q3 \in Seq(Timeout) /\ Len(q3) = Len(q2) + 1
      BY <2>1, ScheduledShape
    <2>3. \A x : Count(q3, x) = Count(q2, x) + (IF "coarse" = x THEN 1 ELSE 0)
      BY <2>1, ScheduledShape
    <2> HIDE DEF q3
    <2> QED
      BY <1>2, <2>2, <2>3
  <1> HIDE DEF q3
  <1>4. /\ q4 \in Seq(Timeout) /\ Len(q4) = 4
        /\ \A x : Count(q4, x) = IF x \in {"ip", "arp", "coarse", "fine"} THEN 1 ELSE 0
    <2>1. "fine" \in Handlers /\ q3 \in Seq(Timeout)
      BY <1>3, <1>h
    <2>2. q4 \in Seq(Timeout) /\ Len(q4) = Len(q3) + 1
      BY <2>1, ScheduledShape
    <2>3. \A x : Count(q4, x) = Count(q3, x) + (IF "fine" = x THEN 1 ELSE 0)
      BY <2>1, ScheduledShape
    <2> HIDE DEF q4
    <2> QED
      BY <1>3, <2>2, <2>3
  <1> HIDE DEF q4
  <1>5. /\ q5 \in Seq(Timeout) /\ Len(q5) = 5
        /\ \A x : Count(q5, x) = IF x \in {"ip", "arp", "coarse", "fine", "tcp"} THEN 1 ELSE 0
    <2>1. "tcp" \in Handlers /\ q4 \in Seq(Timeout)
      BY <1>4, <1>h
    <2>2. q5 \in Seq(Timeout) /\ Len(q5) = Len(q4) + 1
      BY <2>1, ScheduledShape
    <2>3. \A x : Count(q5, x) = Count(q4, x) + (IF "tcp" = x THEN 1 ELSE 0)
      BY <2>1, ScheduledShape
    <2> HIDE DEF q5
    <2> QED
      BY <1>4, <2>2, <2>3
  <1>6. timers = q5
    BY DEF Init, q0, q1, q2, q3, q4
  <1> HIDE DEF q5
  <1> QED
    BY <1>5, <1>6, <1>h

(* A handler that holds an element of the pool finds it counted.            *)
LinkRoom == main.pc = "link" => Len(timers) < PoolSize

LEMMA InitTyped == Init => TypeOK /\ LinkRoom
  <1> SUFFICES ASSUME Init PROVE TypeOK /\ LinkRoom
    OBVIOUS
  <1>1. timers \in Seq(Timeout) /\ Len(timers) = 5
    BY Boot
  <1>2. Idle \in Locals
    BY TimeAssumption, PoolAssumption DEF Idle, Locals, Handlers, Periodic
  <1>3. Idle.pc = "idle" /\ 0 \in 0 .. (TimeMod - 1)
    BY TimeAssumption DEF Idle
  <1> QED
    BY <1>1, <1>2, <1>3, PoolAssumption DEF Init, TypeOK, LinkRoom

LEMMA IdleTyped ==
  /\ Idle \in Locals
  /\ \A m \in Locals : Again(m) \in Locals /\ Again(m).pc = "loop"
  <1>1. 0 \in 0 .. (TimeMod - 1) /\ 0 \in 0 .. PoolSize /\ "ip" \in Handlers
    BY TimeAssumption, PoolAssumption DEF Handlers, Periodic
  <1> QED
    BY <1>1 DEF Idle, Locals, Again

(* What sys_timeout does to the types, whoever calls it.                    *)
LEMMA ScheduleTyped ==
  ASSUME TypeOK, LinkRoom, NEW h \in Handlers, Schedule(h)
  PROVE  /\ timers' \in Seq(Timeout) /\ Len(timers') <= PoolSize
         /\ main' \in Locals
         /\ main'.pc \in {"unlink", "link"} => main'.at <= Len(timers')
         /\ LinkRoom'
  <1>1. CASE Full
    BY <1>1 DEF Schedule, TypeOK, Stopped, Locals, LinkRoom
  <1>2. CASE ~Full
    <2>1. timers' \in Seq(Timeout) /\ Len(timers') = Len(timers) + 1
      BY <1>2, ScheduledShape DEF Schedule, TypeOK
    <2>2. /\ main' \in [pc : {main.pc}, now : {main.now}, diff : {main.diff}, h : {main.h},
                        at : {main.at, main.at + 1}, rest : {main.rest}]
          /\ main'.at = main.at + 1 => main.at < PoolSize /\ main.pc \in {"unlink", "link"}
      <3>1. main \in Locals /\ Len(timers) < PoolSize
        BY <1>2, PoolAssumption DEF Full, TypeOK
      <3>2. CASE main' = main
        BY <3>1, <3>2 DEF Locals
      <3>3. CASE main.pc \in {"unlink", "link"} /\ main' = [main EXCEPT !.at = @ + 1]
        <4>1. main.at \in Nat /\ main.at <= Len(timers) /\ Len(timers) \in Nat
          BY <3>1, <3>3 DEF Locals, TypeOK
        <4>2. main.at < PoolSize
          BY <3>1, <4>1, PoolAssumption
        <4> QED
          BY <3>1, <3>3, <4>2 DEF Locals
      <3> QED
        BY <1>2, <3>2, <3>3 DEF Schedule
    <2>3. Len(timers) + (IF main.pc = "link" THEN 1 ELSE 0) < PoolSize /\ Len(timers) \in Nat
      BY <1>2, PoolAssumption DEF Full, TypeOK
    <2>4. main \in Locals /\ (main.pc \in {"unlink", "link"} => main.at <= Len(timers))
      BY DEF TypeOK
    <2>5. main' \in Locals
      BY <2>2, <2>4, PoolAssumption DEF Locals
    <2> QED
      BY <2>1, <2>2, <2>3, <2>4, <2>5, PoolAssumption DEF Locals, LinkRoom
  <1> QED
    BY <1>1, <1>2

LEMMA StepTyped == TypeOK /\ LinkRoom /\ [Next]_vars => TypeOK' /\ LinkRoom'
  <1> SUFFICES ASSUME TypeOK, LinkRoom, [Next]_vars PROVE TypeOK' /\ LinkRoom'
    OBVIOUS
  <1>0. main \in Locals /\ timers \in Seq(Timeout) /\ Len(timers) \in Nat
    BY DEF TypeOK
  <1>1. CASE Check
    <2>1. (clock - last) % TimeMod \in 0 .. (TimeMod - 1)
      <3> DEFINE x == clock - last
      <3>1. x \in Int
        BY TimeAssumption DEF TypeOK
      <3> HIDE DEF x
      <3>2. x % TimeMod \in 0 .. (TimeMod - 1)
        BY <3>1, Remainder
      <3> QED
        BY <3>2 DEF x
    <2> DEFINE y == (clock - last) % TimeMod
    <2>2. main' = [main EXCEPT !.pc = "loop", !.now = clock, !.diff = y]
      BY <1>1 DEF Check
    <2> HIDE DEF y
    <2>3. main' \in Locals /\ main'.pc = "loop"
      BY <2>1, <2>2 DEF TypeOK, Locals, y
    <2> QED
      BY <1>1, <2>3 DEF Check, TypeOK, LinkRoom
  <1>2. CASE Expire
    <2>1. timers[1] \in Timeout /\ Len(timers) >= 1
      BY <1>0, <1>2 DEF Expire
    <2>2. timers[1].h \in Handlers /\ timers[1].time \in Nat
      BY <2>1, TimeAssumption DEF Timeout
    <2>3. main' \in Locals /\ main'.pc = "unlink" /\ main'.at = 1
      <3>1. main.diff - timers[1].time \in 0 .. (TimeMod - 1)
        BY <1>2, <2>2, <1>0, TimeAssumption DEF Expire, Locals
      <3> DEFINE d == main.diff - timers[1].time
                 h == timers[1].h
      <3>2. main' = [main EXCEPT !.pc = "unlink", !.diff = d, !.h = h, !.at = 1]
        BY <1>2 DEF Expire
      <3>3. d \in 0 .. (TimeMod - 1) /\ h \in Handlers /\ 1 \in 0 .. PoolSize
        BY <2>2, <3>1, PoolAssumption
      <3> HIDE DEF d, h
      <3> QED
        BY <1>0, <3>2, <3>3 DEF Locals
    <2> QED
      BY <1>2, <2>1, <2>3 DEF Expire, TypeOK, LinkRoom, Locals
  <1>3. CASE Leave
    BY <1>3, IdleTyped DEF Leave, TypeOK, LinkRoom, Idle
  <1>4. CASE Unlink
    <2>1. main.at \in 0 .. Len(timers)
      BY <1>0, <1>4 DEF Unlink, TypeOK, Locals
    <2>2. timers' \in Seq(Timeout) /\ Len(timers') <= Len(timers)
      BY <1>4, <1>0, <2>1 DEF Unlink
    <2>3. main' \in Locals /\ main'.pc \in {"tmr", "start"}
      <3>1. 0 \in 0 .. PoolSize
        BY PoolAssumption
      <3> QED
        BY <1>4, <1>0, <3>1 DEF Unlink, Locals
    <2> QED
      BY <1>4, <2>2, <2>3, PoolAssumption DEF Unlink, TypeOK, LinkRoom
  <1>5. CASE TcpTimer
    BY <1>5 DEF TcpTimer, TypeOK, LinkRoom, Locals
  <1>6. CASE Disable
    BY <1>6, IdleTyped DEF Disable, TypeOK, LinkRoom
  <1>7. CASE Find
    <2>1. CASE Full
      BY <1>7, <2>1 DEF Find, Stopped, TypeOK, LinkRoom, Locals
    <2>2. CASE ~Full
      <3> DEFINE at == Place(timers, Interval[main.h])
                 rest == Rest(timers, Interval[main.h])
      <3>1. at \in 0 .. Len(timers) /\ rest \in 0 .. (TimeMod - 1)
        BY <1>0, NewTyped DEF Locals
      <3>2. main' = [main EXCEPT !.pc = "link", !.at = at, !.rest = rest]
        BY <1>7, <2>2 DEF Find
      <3>3. Len(timers) < PoolSize
        BY <1>7, <2>2, <1>0, PoolAssumption DEF Find, Full
      <3> HIDE DEF at, rest
      <3>4. main' \in Locals /\ main'.at <= Len(timers)
        <4>1. at \in 0 .. PoolSize
          BY <1>0, <3>1, <3>3, PoolAssumption
        <4>2. main' \in Locals /\ main'.at = at
          BY <1>0, <3>1, <3>2, <4>1 DEF Locals
        <4> QED
          BY <1>0, <3>1, <4>2
      <3> QED
        BY <1>7, <3>3, <3>4 DEF Find, TypeOK, LinkRoom
    <2> QED
      BY <2>1, <2>2
  <1>8. CASE Insert
    <2>1. main.at \in 0 .. Len(timers) /\ New(main.h, main.rest) \in Timeout
      BY <1>0, <1>8 DEF Insert, TypeOK, Locals, New, Timeout
    <2>2. timers' \in Seq(Timeout) /\ Len(timers') = Len(timers) + 1
      BY <1>0, <1>8, <2>1, LinkShape DEF Insert
    <2> QED
      BY <1>8, <1>0, <2>2, IdleTyped, PoolAssumption DEF Insert, TypeOK, LinkRoom
  <1>9. CASE Connect
    <2>1. CASE active
      BY <1>9, <2>1 DEF Connect, TypeOK, LinkRoom
    <2>2. CASE ~active
      <3>1. Schedule("tcp") /\ "tcp" \in Handlers
        BY <1>9, <2>2 DEF Connect, Handlers
      <3> QED
        BY <1>9, <3>1, ScheduleTyped DEF Connect, TypeOK
    <2> QED
      BY <2>1, <2>2
  <1>10. CASE Disconnect
    BY <1>10 DEF Disconnect, TypeOK, LinkRoom
  <1>11. CASE Pit3
    <2>1. (clock + 1) % TimeMod \in 0 .. (TimeMod - 1)
      <3>1. clock + 1 \in Int
        BY TimeAssumption DEF TypeOK
      <3> DEFINE x == clock + 1
      <3> HIDE DEF x
      <3>2. x % TimeMod \in 0 .. (TimeMod - 1)
        BY <3>1, Remainder DEF x
      <3> QED
        BY <3>2 DEF x
    <2> QED
      BY <1>11, <2>1 DEF Pit3, TypeOK, LinkRoom
  <1>12. CASE UNCHANGED vars
    BY <1>12 DEF vars, TypeOK, LinkRoom
  <1> QED
    BY <1>1, <1>2, <1>3, <1>4, <1>5, <1>6, <1>7, <1>8, <1>9, <1>10, <1>11, <1>12
    DEF Next, MainStep

(* The type invariant (the pool is never overrun, the place the main loop   *)
(* holds stays in the list, and the differences of times stay in range), in *)
(* both builds.                                                             *)
THEOREM TimersTyped == Spec => []TypeOK
  <1>1. Spec => [](TypeOK /\ LinkRoom)
    BY InitTyped, StepTyped, PTL DEF Spec
  <1> QED
    BY <1>1, PTL

-----------------------------------------------------------------------------
(* No timeout of a periodic handler is lost, and the pool suffices, in both *)
(* builds.                                                                  *)

\* The element of the pool that a handler holds, or is about to ask for.
Held == IF main.pc \in {"tmr", "start", "link"} THEN 1 ELSE 0
HeldBy(h) == IF main.h = h THEN Held ELSE 0

(* The list holds what was started at boot, and at most one more: a chain   *)
(* of the TCP timer that tcpip_tcp_timer_active knows of.                   *)
PoolInv ==
    /\ TypeOK /\ LinkRoom
    /\ main.pc # "assert"
    /\ PeriodicKept
    /\ Len(timers) + Held = 4 + Chains("tcp")
    /\ Chains("tcp") <= (IF active THEN 2 ELSE 1) - (IF main.pc = "stop" THEN 1 ELSE 0)
    /\ main.pc \in {"tmr", "stop"} => main.h = "tcp"
    /\ main.pc = "unlink" => /\ main.at \in {1, 2}
                             /\ timers[main.at].h = main.h
                             /\ main.at = 2 => active /\ timers[1].h = "tcp"

LEMMA ChainsCounted == \A h : Chains(h) = Count(timers, h) + HeldBy(h)
  BY DEF Chains, Count, Of, HeldBy, Held

LEMMA HandlersSplit ==
  /\ Handlers = {"ip", "arp", "coarse", "fine", "tcp"}
  /\ Periodic \subseteq Handlers /\ "tcp" \in Handlers /\ "tcp" \notin Periodic
  BY DEF Handlers, Periodic

(* A step that leaves the list, the flag and what the handler holds alone.  *)
LEMMA ChainsKept ==
  ASSUME PoolInv, TypeOK', LinkRoom', UNCHANGED <<timers, active>>,
         main'.pc # "assert", main.pc # "stop", main'.pc # "stop", main'.pc # "unlink",
         Held' = Held, Held = 1 => main'.h = main.h,
         main'.pc = "tmr" => main'.h = "tcp"
  PROVE  PoolInv'
  <1>1. \A h : Chains(h)' = Chains(h)
    <2>1. \A h : HeldBy(h)' = HeldBy(h)
      BY DEF HeldBy, Held
    <2>2. \A h : Chains(h)' = Count(timers, h) + HeldBy(h)'
      BY DEF Chains, Count, Of, HeldBy, Held
    <2> QED
      BY <2>1, <2>2, ChainsCounted
  <1> QED
    BY <1>1 DEF PoolInv, PeriodicKept

LEMMA UnlinkKeepsChains ==
  ASSUME PoolInv, TypeOK', LinkRoom', Unlink
  PROVE  PoolInv'
  <1> DEFINE q1 == SubSeq(timers, 2, Len(timers))
  <1>1. timers \in Seq(Timeout) /\ Len(timers) \in Nat /\ main.at <= Len(timers)
    BY DEF PoolInv, TypeOK, Unlink
  <1>2. main.at \in {1, 2} /\ timers[main.at].h = main.h
    BY DEF PoolInv, Unlink
  <1>3. timers # <<>>
    BY <1>1, <1>2
  <1>4. q1 \in Seq(Timeout) /\ Len(timers) = Len(q1) + 1 /\ \A k \in 1 .. Len(q1) : timers[k+1] = q1[k]
    BY <1>1, <1>3, TailShape
  <1>5. \A h : Count(timers, h) = Count(q1, h) + (IF timers[1].h = h THEN 1 ELSE 0)
    BY <1>1, <1>3, CountTail
  <1>6. /\ main'.h = main.h /\ Held = 0 /\ Held' = 1
        /\ main'.pc \in {"tmr", "start"} /\ (main'.pc = "tmr" => main.h = "tcp")
        /\ active' = active /\ main.pc = "unlink"
    BY DEF Unlink, TypeOK, PoolInv, Locals, Held
  <1>7. /\ \A h : Chains(h)' = Count(timers', h) + (IF main.h = h THEN 1 ELSE 0)
        /\ \A h : Chains(h) = Count(timers, h)
        /\ \A h : Count(timers', h) \in Nat /\ Count(q1, h) \in Nat
    <2>1. \A h : Chains(h)' = Count(timers', h) + HeldBy(h)'
      BY DEF Chains, Count, Of, HeldBy, Held
    <2>2. timers' \in Seq(Timeout)
      BY DEF TypeOK
    <2>3. \A h : Count(timers', h) \in Nat /\ Count(q1, h) \in Nat
      BY <1>4, <2>2, CountNat
    <2>4. \A h : Count(timers, h) \in Nat
      BY <1>1, CountNat
    <2> QED
      BY <1>6, <2>1, <2>3, <2>4, ChainsCounted DEF HeldBy
  <1> HIDE DEF q1
  <1>8. CASE main.at = 1
    <2>1. timers' = q1
      BY <1>8 DEF Unlink, q1
    <2>2. \A h : Chains(h)' = Chains(h)
      BY <1>2, <1>5, <1>7, <1>8, <2>1
    <2>3. Len(timers') + Held' = Len(timers) + Held
      BY <1>4, <1>6, <2>1
    <2> QED
      BY <1>6, <2>2, <2>3 DEF PoolInv, PeriodicKept
  <1>9. CASE main.at = 2
    <2>1. timers[1].h = "tcp"
      BY <1>9 DEF PoolInv, Unlink
    <2>2. q1 # <<>> /\ q1[1].h = main.h
      BY <1>1, <1>2, <1>4, <1>9
    <2>3. timers' = SubSeq(q1, 2, Len(q1))
      BY <1>1, <1>4, <1>9 DEF Unlink, q1
    <2>4. \A h : Count(q1, h) = Count(timers', h) + (IF main.h = h THEN 1 ELSE 0)
      BY <1>4, <2>2, <2>3, CountTail
    <2>5. Len(q1) = Len(timers') + 1
      BY <1>4, <2>2, <2>3, TailShape
    <2>6. \A h : Chains(h)' = Chains(h) - (IF h = "tcp" THEN 1 ELSE 0)
      BY <1>5, <1>7, <2>1, <2>4
    <2>7. Chains("tcp") \in Nat /\ Chains("tcp")' = Chains("tcp") - 1
      BY <1>1, <1>7, <2>6, CountNat
    <2>8. \A h \in Periodic : Chains(h)' = 1
      BY <2>6, HandlersSplit, CountNat, <1>1, <1>7 DEF PoolInv, PeriodicKept
    <2>9. Len(timers') + Held' = Len(timers) + Held - 1
      BY <1>4, <1>6, <2>5
    <2> QED
      BY <1>6, <2>7, <2>8, <2>9 DEF PoolInv, PeriodicKept
  <1> QED
    BY <1>2, <1>8, <1>9

(* sys_timeout, in the main loop or in the interrupt, brings a timeout more.*)
LEMMA InsertKeepsChains ==
  ASSUME PoolInv, TypeOK', LinkRoom', Insert
  PROVE  PoolInv'
  <1> DEFINE e == New(main.h, main.rest)
  <1>1. timers \in Seq(Timeout) /\ main.at \in 0 .. Len(timers) /\ e \in Timeout /\ e.h = main.h
    BY DEF PoolInv, TypeOK, Insert, Locals, New, Timeout
  <1>2. timers' = Link(timers, main.at, e)
    BY DEF Insert
  <1> HIDE DEF e
  <1>3. Len(timers') = Len(timers) + 1
    BY <1>1, <1>2, LinkShape
  <1>4. \A h : Count(timers', h) = Count(timers, h) + (IF main.h = h THEN 1 ELSE 0)
    BY <1>1, <1>2, CountLinked
  <1>5. Held = 1 /\ Held' = 0 /\ main'.pc = "loop" /\ active' = active /\ main.pc = "link"
    BY DEF Insert, Again, TypeOK, PoolInv, Locals, Held
  <1>6. \A h : Chains(h)' = Chains(h)
    <2>1. \A h : Chains(h)' = Count(timers', h) + HeldBy(h)'
      BY DEF Chains, Count, Of, HeldBy, Held
    <2>2. \A h : Count(timers, h) \in Nat
      BY <1>1, CountNat
    <2> QED
      BY <1>4, <1>5, <2>1, <2>2, ChainsCounted DEF HeldBy
  <1>7. Len(timers') + Held' = Len(timers) + Held
    BY <1>1, <1>3, <1>5
  <1> QED
    BY <1>5, <1>6, <1>7 DEF PoolInv, PeriodicKept

LEMMA ConnectKeepsChains ==
  ASSUME PoolSize >= 6, PoolInv, TypeOK', LinkRoom', Connect
  PROVE  PoolInv'
  <1>1. CASE active
    <2>1. UNCHANGED <<timers, active, main>>
      BY <1>1 DEF Connect
    <2> QED
      BY <2>1 DEF PoolInv, PeriodicKept, Chains, Held, TypeOK
  <1>2. CASE ~active
    <2>1. /\ timers \in Seq(Timeout) /\ Len(timers) \in Nat /\ "tcp" \in Handlers
          /\ main \in Locals /\ Schedule("tcp") /\ active' /\ main.pc # "assert"
      BY <1>2 DEF Connect, PoolInv, TypeOK, Handlers
    <2>2. Chains("tcp") \in Nat /\ Chains("tcp") <= 1 - (IF main.pc = "stop" THEN 1 ELSE 0)
      <3>1. Count(timers, "tcp") \in Nat /\ HeldBy("tcp") \in Nat
        BY <2>1, CountNat DEF HeldBy, Held
      <3> QED
        BY <1>2, <3>1, ChainsCounted DEF PoolInv
    <2>3. ~Full
      BY <2>1, <2>2, PoolAssumption DEF Full, PoolInv, Held
    <2>4. /\ timers' = Scheduled(timers, "tcp")
          /\ Len(timers') = Len(timers) + 1
          /\ \A h : Count(timers', h) = Count(timers, h) + (IF h = "tcp" THEN 1 ELSE 0)
      BY <2>1, <2>3, ScheduledShape DEF Schedule
    <2>5. /\ main'.pc = main.pc /\ main'.h = main.h
          /\ main'.at = IF /\ main.pc \in {"unlink", "link"}
                           /\ Place(timers, Interval["tcp"]) < main.at
                        THEN main.at + 1 ELSE main.at
      BY <2>1, <2>3 DEF Schedule, Locals
    <2>6. Held' = Held /\ \A h : HeldBy(h)' = HeldBy(h)
      BY <2>5 DEF Held, HeldBy
    <2>7. \A h : Chains(h)' = Chains(h) + (IF h = "tcp" THEN 1 ELSE 0)
      <3>1. \A h : Chains(h)' = Count(timers', h) + HeldBy(h)'
        BY DEF Chains, Count, Of, HeldBy, Held
      <3>2. \A h : Count(timers, h) \in Nat
        BY <2>1, CountNat
      <3> QED
        BY <2>4, <2>6, <3>1, <3>2, ChainsCounted DEF HeldBy, Held
    <2>8. \A h \in Periodic : Chains(h)' = 1
      BY <2>7, HandlersSplit DEF PoolInv, PeriodicKept
    <2>9. Chains("tcp")' = Chains("tcp") + 1
      BY <2>7
    <2>10. main.pc = "unlink" => /\ main'.at \in {1, 2}
                                 /\ timers'[main'.at].h = main'.h
                                 /\ main'.at = 2 => active' /\ timers'[1].h = "tcp"
      <3> SUFFICES ASSUME main.pc = "unlink"
                   PROVE  /\ main'.at \in {1, 2}
                          /\ timers'[main'.at].h = main'.h
                          /\ main'.at = 2 => active' /\ timers'[1].h = "tcp"
        OBVIOUS
      <3> DEFINE p == Place(timers, Interval["tcp"])
                 e == New("tcp", Rest(timers, Interval["tcp"]))
      <3>1. main.at = 1 /\ timers[1].h = main.h /\ 1 <= Len(timers)
        BY <1>2 DEF PoolInv, TypeOK
      <3>2. p \in 0 .. Len(timers) /\ e \in Timeout /\ e.h = "tcp"
        BY <2>1, NewTyped DEF New
      <3>3. timers' = Link(timers, p, e)
        BY <2>4 DEF Scheduled
      <3>4. main'.at = IF p < 1 THEN 2 ELSE 1
        BY <2>5, <3>1
      <3> HIDE DEF p, e
      <3>5. CASE p < 1
        <4>1. p = 0 /\ p < Len(timers)
          BY <3>1, <3>2, <3>5
        <4>2. timers'[p+1] = e /\ timers'[p+2] = [timers[p+1] EXCEPT !.time = (@ - e.time) % TimeMod]
          BY <2>1, <3>2, <3>3, <4>1, LinkShape
        <4>3. timers'[1] = e /\ timers'[2] = [timers[1] EXCEPT !.time = (@ - e.time) % TimeMod]
          BY <4>1, <4>2
        <4>4. timers'[2].h = timers[1].h
          BY <2>1, <3>1, <4>3, TimesNat DEF Timeout
        <4> QED
          BY <2>1, <2>5, <3>1, <3>2, <3>4, <3>5, <4>3, <4>4
      <3>6. CASE ~(p < 1)
        <4>1. timers'[1] = timers[1]
          <5>1. 1 \in 1 .. p
            BY <3>2, <3>6
          <5>2. \A k \in 1 .. p : Link(timers, p, e)[k] = timers[k]
            BY <2>1, <3>2, LinkShape
          <5> QED
            BY <3>3, <5>1, <5>2
        <4> QED
          BY <2>5, <3>1, <3>4, <3>6, <4>1
      <3> QED
        BY <3>5, <3>6
    <2>11. Len(timers') + Held' = 4 + Chains("tcp")'
      BY <2>1, <2>2, <2>4, <2>6, <2>9 DEF PoolInv, Held
    <2>12. Chains("tcp")' <= 2 - (IF main'.pc = "stop" THEN 1 ELSE 0)
      BY <2>2, <2>5, <2>9
    <2> QED
      BY <2>1, <2>5, <2>8, <2>10, <2>11, <2>12 DEF PoolInv, PeriodicKept
  <1> QED
    BY <1>1, <1>2

LEMMA TcpTimerKeepsChains ==
  ASSUME PoolInv, TypeOK', LinkRoom', TcpTimer
  PROVE  PoolInv'
  <1>1. /\ UNCHANGED <<timers, active>> /\ main.pc = "tmr" /\ main.h = "tcp" /\ main'.h = main.h
        /\ main'.pc \in {"start", "stop"} /\ timers \in Seq(Timeout) /\ Len(timers) \in Nat
    BY DEF TcpTimer, PoolInv, TypeOK, Locals
  <1>2. CASE main'.pc = "start"
    BY <1>1, <1>2, ChainsKept DEF Held
  <1>3. CASE main'.pc = "stop"
    <2>1. \A h : Chains(h)' = Count(timers, h)
      <3>1. \A h : Chains(h)' = Count(timers, h) + HeldBy(h)'
        BY <1>1 DEF Chains, Count, Of, HeldBy, Held
      <3>2. \A h : Count(timers, h) \in Nat
        BY <1>1, CountNat
      <3> QED
        BY <1>3, <3>1, <3>2 DEF HeldBy, Held
    <2>2. \A h : Chains(h) = Count(timers, h) + (IF h = "tcp" THEN 1 ELSE 0)
      BY <1>1, ChainsCounted DEF HeldBy, Held
    <2>3. Count(timers, "tcp") \in Nat /\ \A h : Count(timers, h) \in Nat
      BY <1>1, CountNat
    <2>4. Held = 1 /\ Held' = 0
      BY <1>1, <1>3 DEF Held
    <2>5. \A h \in Periodic : Chains(h)' = 1
      BY <2>1, <2>2, <2>3, HandlersSplit DEF PoolInv, PeriodicKept
    <2>6. Chains("tcp") = Chains("tcp")' + 1 /\ Chains("tcp")' \in Nat
      BY <2>1, <2>2, <2>3
    <2>7. Len(timers) + 0 = 4 + Chains("tcp")'
      BY <1>1, <2>4, <2>6 DEF PoolInv
    <2>8. Chains("tcp")' <= (IF active THEN 2 ELSE 1) - 1
      BY <1>1, <2>6 DEF PoolInv
    <2> QED
      BY <1>1, <1>3, <2>4, <2>5, <2>7, <2>8 DEF PoolInv, PeriodicKept
  <1> QED
    BY <1>1, <1>2, <1>3

LEMMA DisableKeepsChains ==
  ASSUME PoolInv, TypeOK', LinkRoom', Disable
  PROVE  PoolInv'
  <1>1. /\ UNCHANGED timers /\ main.pc = "stop" /\ main'.pc = "loop" /\ ~active'
        /\ timers \in Seq(Timeout) /\ Len(timers) \in Nat /\ active \in BOOLEAN
    BY DEF Disable, PoolInv, TypeOK, Again, Locals
  <1>2. Held = 0 /\ Held' = 0 /\ \A h : HeldBy(h) = 0 /\ HeldBy(h)' = 0
    BY <1>1 DEF Held, HeldBy
  <1>3. \A h : Chains(h)' = Chains(h)
    <2>1. \A h : Chains(h)' = Count(timers, h) + HeldBy(h)'
      BY <1>1 DEF Chains, Count, Of, HeldBy, Held
    <2> QED
      BY <1>2, <2>1, ChainsCounted
  <1>4. Chains("tcp") \in Nat
    BY <1>1, <1>2, ChainsCounted, CountNat
  <1>5. Chains("tcp") <= 1
    BY <1>1, <1>4 DEF PoolInv
  <1> QED
    BY <1>1, <1>2, <1>3, <1>4, <1>5 DEF PoolInv, PeriodicKept

LEMMA StepKeepsChains ==
  ASSUME PoolSize >= 6, PoolInv, [Next]_vars
  PROVE  PoolInv'
  <1>0. TypeOK' /\ LinkRoom' /\ main \in Locals /\ timers \in Seq(Timeout) /\ Len(timers) \in Nat
    BY StepTyped DEF PoolInv, TypeOK
  <1>1. CASE Check
    BY <1>0, <1>1, ChainsKept DEF Check, Held, Locals
  <1>2. CASE Expire
    <2>1. /\ main.pc = "loop" /\ main'.pc = "unlink" /\ main'.at = 1 /\ main'.h = timers[1].h
          /\ UNCHANGED <<timers, active>>
      BY <1>0, <1>2 DEF Expire, Locals
    <2>2. \A h : Chains(h)' = Chains(h)
      BY <2>1 DEF Chains
    <2> QED
      BY <1>0, <2>1, <2>2 DEF PoolInv, PeriodicKept, Held
  <1>3. CASE Leave
    BY <1>0, <1>3, ChainsKept DEF Leave, Held, Idle
  <1>4. CASE Unlink
    BY <1>0, <1>4, UnlinkKeepsChains
  <1>5. CASE TcpTimer
    BY <1>0, <1>5, TcpTimerKeepsChains
  <1>6. CASE Disable
    BY <1>0, <1>6, DisableKeepsChains
  <1>7. CASE Find
    <2>1. Chains("tcp") \in Nat /\ Chains("tcp") <= 2
      <3>1. Count(timers, "tcp") \in Nat /\ HeldBy("tcp") \in Nat
        BY <1>0, CountNat DEF HeldBy, Held
      <3>2. Chains("tcp") \in Nat
        BY <3>1, ChainsCounted
      <3> QED
        BY <3>2 DEF PoolInv
    <2>2. main.pc = "start" /\ Held = 1
      BY <1>7 DEF Find, Held
    <2>3. Len(timers) < PoolSize
      BY <1>0, <2>1, <2>2, PoolAssumption DEF PoolInv
    <2>4. ~Full
      BY <1>0, <2>2, <2>3, PoolAssumption DEF Full
    <2>5. main'.pc = "link" /\ main'.h = main.h /\ UNCHANGED <<timers, active>>
      BY <1>0, <1>7, <2>4 DEF Find, Locals
    <2> QED
      BY <1>0, <2>2, <2>5, ChainsKept DEF Held
  <1>8. CASE Insert
    BY <1>0, <1>8, InsertKeepsChains
  <1>9. CASE Connect
    BY <1>0, <1>9, ConnectKeepsChains
  <1>10. CASE UNCHANGED <<timers, active, main>>
    BY <1>0, <1>10 DEF PoolInv, PeriodicKept, Chains, Held
  <1>11. CASE Disconnect
    BY <1>10, <1>11 DEF Disconnect
  <1>12. CASE Pit3
    BY <1>10, <1>12 DEF Pit3
  <1>13. CASE UNCHANGED vars
    BY <1>10, <1>13 DEF vars
  <1> QED
    BY <1>1, <1>2, <1>3, <1>4, <1>5, <1>6, <1>7, <1>8, <1>9, <1>11, <1>12, <1>13
    DEF Next, MainStep

LEMMA InitChains == Init => PoolInv
  <1> SUFFICES ASSUME Init PROVE PoolInv
    OBVIOUS
  <1>1. timers \in Seq(Timeout) /\ Len(timers) = 5 /\ \A h \in Handlers : Count(timers, h) = 1
    BY Boot
  <1>2. main.pc = "idle" /\ ~active
    BY DEF Init, Idle
  <1>3. Held = 0 /\ \A h : HeldBy(h) = 0
    BY <1>2 DEF Held, HeldBy
  <1>4. \A h \in Handlers : Chains(h) = 1
    BY <1>1, <1>3, ChainsCounted
  <1> QED
    BY <1>1, <1>2, <1>3, <1>4, InitTyped, HandlersSplit DEF PoolInv, PeriodicKept

LEMMA PoolIsKept ==
  ASSUME PoolSize >= 6
  PROVE  Spec => []PoolInv
  <1>1. PoolInv /\ [Next]_vars => PoolInv'
    BY StepKeepsChains
  <1> QED
    BY InitChains, <1>1, PTL DEF Spec

(* Every periodic handler has exactly one timeout, whatever connections do  *)
(* to the list, in the polled build and in the one with the interrupt.      *)
THEOREM PeriodicTimersKept ==
  ASSUME PoolSize >= 6
  PROVE  Spec => []PeriodicKept
  <1>1. PoolInv => PeriodicKept
    BY DEF PoolInv
  <1> QED
    BY PoolIsKept, <1>1, PTL

(* Six elements suffice, in both builds: sys_timeout never runs into its    *)
(* assertion.                                                               *)
THEOREM PoolIsLargeEnough ==
  ASSUME PoolSize >= 6
  PROVE  Spec => []PoolSuffices
  <1>1. PoolInv => PoolSuffices
    BY DEF PoolInv, PoolSuffices
  <1> QED
    BY PoolIsKept, <1>1, PTL

-----------------------------------------------------------------------------
(* The polled build: the input side runs between two calls of the loop.     *)

(* A connection is registered only with the flag set, the flag only with a  *)
(* chain of the TCP timer, but for the step before the flag is cleared; and *)
(* what the main loop holds of the list is still so when it is used.        *)
PolledInv ==
    /\ pcbs => active
    /\ active /\ main.pc # "stop" => Chains("tcp") > 0
    /\ main.pc = "stop" => ~pcbs
    /\ main.pc = "unlink" => main.at = 1
    /\ main.pc = "link" => /\ main.at = Place(timers, Interval[main.h])
                           /\ main.rest = Rest(timers, Interval[main.h])

LEMMA ChainsNat == TypeOK => \A h : Chains(h) \in Nat
  BY ChainsCounted, CountNat DEF TypeOK, HeldBy, Held

(* Steps that take nothing out of the list and out of a handler's hands.    *)
LEMMA StaysTimed ==
  ASSUME TypeOK, TypeOK', UNCHANGED timers, UNCHANGED active,
         Held' = Held, Held = 1 => main'.h = main.h
  PROVE  Chains("tcp")' = Chains("tcp")
  <1>1. HeldBy("tcp")' = HeldBy("tcp")
    BY DEF HeldBy, Held
  <1>2. Chains("tcp")' = Count(timers, "tcp") + HeldBy("tcp")'
    BY DEF Chains, Count, Of, HeldBy, Held
  <1> QED
    BY <1>1, <1>2, ChainsCounted

LEMMA StepPolled ==
  ASSUME ~ReceiveInterrupt, PoolInv, PoolInv', PolledInv, [Next]_vars
  PROVE  PolledInv'
  <1>0. /\ TypeOK /\ TypeOK' /\ main \in Locals /\ timers \in Seq(Timeout) /\ Len(timers) \in Nat
        /\ Chains("tcp") \in Nat /\ Chains("tcp")' \in Nat /\ pcbs \in BOOLEAN /\ active \in BOOLEAN
    <2>1. TypeOK /\ TypeOK'
      BY DEF PoolInv
    <2>2. Chains("tcp") \in Nat
      BY <2>1, ChainsNat
    <2>3. Count(timers', "tcp") \in Nat
      BY <2>1, CountNat DEF TypeOK
    <2>4. Chains("tcp")' \in Nat
      <3>1. Chains("tcp")' = Count(timers', "tcp") + HeldBy("tcp")'
        BY DEF Chains, Count, Of, HeldBy, Held
      <3> QED
        BY <2>3, <3>1 DEF HeldBy, Held
    <2> QED
      BY <2>1, <2>2, <2>4 DEF TypeOK
  <1>1. CASE Check
    <2>1. main'.pc = "loop" /\ main.pc = "idle" /\ UNCHANGED <<timers, active, pcbs>>
      BY <1>0, <1>1 DEF Check, Locals
    <2> QED
      BY <1>0, <2>1, StaysTimed DEF Held, PolledInv
  <1>2. CASE Expire
    <2>1. main'.pc = "unlink" /\ main'.at = 1 /\ main.pc = "loop" /\ UNCHANGED <<timers, active, pcbs>>
      BY <1>0, <1>2 DEF Expire, Locals
    <2> QED
      BY <1>0, <2>1, StaysTimed DEF Held, PolledInv
  <1>3. CASE Leave
    <2>1. main'.pc = "idle" /\ main.pc = "loop" /\ UNCHANGED <<timers, active, pcbs>>
      BY <1>3 DEF Leave, Idle
    <2> QED
      BY <1>0, <2>1, StaysTimed DEF Held, PolledInv
  <1>4. CASE Unlink
    <2>1. /\ main.pc = "unlink" /\ main'.pc \in {"tmr", "start"} /\ UNCHANGED <<active, pcbs>>
          /\ main.at = 1 /\ main'.h = main.h /\ timers[1].h = main.h /\ 1 <= Len(timers)
          /\ timers' = SubSeq(timers, 2, Len(timers))
      <3>1. main.pc = "unlink" /\ UNCHANGED <<active, pcbs>>
        BY <1>4 DEF Unlink
      <3>2. main'.pc \in {"tmr", "start"} /\ main'.h = main.h
        BY <1>0, <1>4 DEF Unlink, Locals
      <3>3. main.at = 1 /\ timers[1].h = main.h /\ 1 <= Len(timers)
        BY <1>0, <3>1 DEF PolledInv, PoolInv, TypeOK
      <3>4. timers' = SubSeq(timers, 2, Len(timers))
        BY <1>0, <1>4, <3>3 DEF Unlink
      <3> QED
        BY <3>1, <3>2, <3>3, <3>4
    <2>2. Count(timers, "tcp") = Count(timers', "tcp") + (IF main.h = "tcp" THEN 1 ELSE 0)
      BY <1>0, <2>1, CountTail
    <2>3. Chains("tcp") = Count(timers, "tcp") + HeldBy("tcp") /\ HeldBy("tcp") = 0
      BY <2>1, ChainsCounted DEF HeldBy, Held
    <2>4. Chains("tcp")' = Count(timers', "tcp") + (IF main.h = "tcp" THEN 1 ELSE 0)
      BY <2>1 DEF Chains, Count, Of
    <2>5. Chains("tcp")' = Chains("tcp")
      BY <1>0, <2>2, <2>3, <2>4
    <2> QED
      BY <1>0, <2>1, <2>5 DEF PolledInv
  <1>5. CASE TcpTimer
    <2>1. /\ main.pc = "tmr" /\ main'.pc = (IF pcbs' THEN "start" ELSE "stop") /\ main'.h = main.h
          /\ UNCHANGED <<timers, active>> /\ pcbs' \in {pcbs, FALSE}
      BY <1>0, <1>5 DEF TcpTimer, Locals
    <2>2. CASE pcbs'
      BY <1>0, <2>1, <2>2, StaysTimed DEF Held, PolledInv
    <2>3. CASE ~pcbs'
      BY <1>0, <2>1, <2>3 DEF PolledInv
    <2> QED
      BY <2>2, <2>3
  <1>6. CASE Disable
    <2>1. main.pc = "stop" /\ main'.pc = "loop" /\ ~active' /\ pcbs' = pcbs
      BY <1>0, <1>6 DEF Disable, Again, Locals
    <2> QED
      BY <2>1 DEF PolledInv
  <1>7. CASE Find
    <2>1. ~Full
      <3>1. main'.pc # "assert" /\ Stopped(main).pc = "assert"
        BY <1>0 DEF PoolInv, Stopped, Locals
      <3> QED
        BY <1>7, <3>1 DEF Find
    <2>2. /\ main.pc = "start" /\ main'.pc = "link" /\ main'.h = main.h
          /\ UNCHANGED <<timers, active, pcbs>>
          /\ main'.at = Place(timers, Interval[main.h])
          /\ main'.rest = Rest(timers, Interval[main.h])
      BY <1>0, <1>7, <2>1 DEF Find, Locals
    <2>3. Chains("tcp")' = Chains("tcp")
      BY <1>0, <2>2, StaysTimed DEF Held
    <2> QED
      BY <1>0, <2>2, <2>3 DEF PolledInv
  <1>8. CASE Insert
    <2> DEFINE e == New(main.h, main.rest)
    <2>1. main.pc = "link" /\ main'.pc = "loop" /\ UNCHANGED <<active, pcbs>>
      BY <1>0, <1>8 DEF Insert, Again, Locals
    <2>2. main.at \in 0 .. Len(timers) /\ e \in Timeout /\ e.h = main.h
      BY <1>0, <1>8 DEF Insert, TypeOK, Locals, New, Timeout
    <2>3. timers' = Link(timers, main.at, e)
      BY <1>8 DEF Insert
    <2> HIDE DEF e
    <2>4. Count(timers', "tcp") = Count(timers, "tcp") + (IF main.h = "tcp" THEN 1 ELSE 0)
      BY <1>0, <2>2, <2>3, CountLinked
    <2>5. Chains("tcp") = Count(timers, "tcp") + (IF main.h = "tcp" THEN 1 ELSE 0)
      BY <2>1, ChainsCounted DEF HeldBy, Held
    <2>6. Chains("tcp")' = Count(timers', "tcp") + 0
      BY <2>1 DEF Chains, Count, Of
    <2>7. Chains("tcp")' = Chains("tcp")
      <3>1. Count(timers, "tcp") \in Nat
        BY <1>0, CountNat
      <3> QED
        BY <2>4, <2>5, <2>6, <3>1
    <2> QED
      BY <1>0, <2>1, <2>7 DEF PolledInv
  <1>9. CASE Connect
    <2>1. main.pc = "idle" /\ pcbs' /\ active'
      BY <1>9 DEF Connect, MayReceive
    <2>2. CASE active
      <3>1. UNCHANGED <<timers, active, main>>
        BY <1>9, <2>1, <2>2 DEF Connect
      <3> QED
        BY <1>0, <2>1, <2>2, <3>1, StaysTimed DEF PolledInv, Held
    <2>3. CASE ~active
      <3>1. Schedule("tcp") /\ "tcp" \in Handlers
        BY <1>9, <2>3 DEF Connect, Handlers
      <3>2. ~Full
        <4>1. main'.pc # "assert" /\ Stopped(main).pc = "assert"
          BY <1>0 DEF PoolInv, Stopped, Locals
        <4> QED
          BY <3>1, <4>1 DEF Schedule
      <3>3. timers' = Scheduled(timers, "tcp") /\ main' = main
        BY <2>1, <3>1, <3>2 DEF Schedule
      <3>4. Count(timers', "tcp") = Count(timers, "tcp") + 1 /\ Count(timers, "tcp") \in Nat
        BY <1>0, <3>1, <3>3, ScheduledShape, CountNat
      <3>5. Chains("tcp")' = Count(timers', "tcp") + 0
        BY <2>1, <3>3 DEF Chains, Count, Of
      <3> QED
        BY <2>1, <3>3, <3>4, <3>5 DEF PolledInv
    <2> QED
      BY <2>2, <2>3
  <1>10. CASE Disconnect
    <2>1. main.pc = "idle" /\ UNCHANGED <<timers, active, main>> /\ ~pcbs'
      BY <1>10 DEF Disconnect, MayReceive
    <2> QED
      BY <1>0, <2>1, StaysTimed DEF PolledInv, Held
  <1>11. CASE UNCHANGED <<timers, active, pcbs, main>>
    BY <1>0, <1>11, StaysTimed DEF PolledInv, Held
  <1>12. CASE Pit3
    BY <1>11, <1>12 DEF Pit3
  <1>13. CASE UNCHANGED vars
    BY <1>11, <1>13 DEF vars
  <1> QED
    BY <1>1, <1>2, <1>3, <1>4, <1>5, <1>6, <1>7, <1>8, <1>9, <1>10, <1>12, <1>13
    DEF Next, MainStep

LEMMA InitPolled == Init => PolledInv
  BY DEF Init, PolledInv, Idle

LEMMA PolledIsKept ==
  ASSUME ~ReceiveInterrupt, PoolSize >= 6
  PROVE  Spec => [](PoolInv /\ PolledInv)
  <1>1. PoolInv /\ PoolInv' /\ PolledInv /\ [Next]_vars => PolledInv'
    BY StepPolled
  <1> QED
    BY PoolIsKept, InitPolled, <1>1, PTL DEF Spec

(* A registered connection is timed when the input side is polled.  (With   *)
(* the interrupt it may not be: the flag is cleared behind its back.)       *)
THEOREM ConnectionsAreTimed ==
  ASSUME ~ReceiveInterrupt, PoolSize >= 6
  PROVE  Spec => []TcpTimerAlive
  <1>1. PoolInv /\ PolledInv => TcpTimerAlive
    BY DEF PolledInv, TcpTimerAlive
  <1> QED
    BY PolledIsKept, <1>1, PTL

-----------------------------------------------------------------------------
(* The list of differences implements the list of distances. *)

\* What Distances sees of a list.
Pending(q) == [i \in 1 .. Len(q) |-> [h |-> q[i].h, due |-> Due(q, i)]]

(* The first entry gone, the others are due that much earlier.              *)
LEMMA DueTail ==
  ASSUME NEW q \in Seq(Timeout), q # <<>>
  PROVE  \A i \in 0 .. (Len(q) - 1) : Due(SubSeq(q, 2, Len(q)), i) = Due(q, i + 1) - q[1].time
  <1> DEFINE r == SubSeq(q, 2, Len(q))
             S == {i \in 0 .. Len(r) : Due(r, i) = Due(q, i + 1) - q[1].time}
  <1>1. r \in Seq(Timeout) /\ Len(q) = Len(r) + 1 /\ \A k \in 1 .. Len(r) : q[k+1] = r[k]
    BY TailShape
  <1>2. Len(r) \in Nat /\ 1 \in 1 .. Len(q)
    BY <1>1
  <1> HIDE DEF r
  <1>3. 0 \in S
    <2>1. Due(q, 1) = Due(q, 0) + q[1].time /\ Due(q, 0) = 0 /\ Due(r, 0) = 0
      BY <1>1, <1>2, DueStep
    <2>2. q[1].time \in Nat
      BY <1>2, TimesNat, TimeAssumption
    <2> QED
      BY <1>2, <2>1, <2>2
  <1>4. ASSUME NEW n \in 0 .. (Len(r) - 1), n \in S PROVE n + 1 \in S
    <2>1. n + 1 \in 1 .. Len(r) /\ n + 2 \in 1 .. Len(q) /\ n + 1 \in 0 .. Len(q)
      BY <1>1, <1>2
    <2>2. Due(r, n + 1) = Due(r, n) + r[n+1].time
      BY <1>1, <2>1, DueStep
    <2>3. Due(q, n + 2) = Due(q, n + 1) + q[n+2].time
      BY <2>1, DueStep
    <2>4. q[n+2] = r[n+1]
      BY <1>1, <2>1
    <2>5. /\ Due(q, n + 1) \in Nat /\ q[n+2].time \in Nat /\ q[1].time \in Nat
      BY <1>2, <2>1, DueNat, TimesNat, TimeAssumption
    <2> QED
      BY <1>2, <1>4, <2>1, <2>2, <2>3, <2>4, <2>5
  <1>5. \A n \in 0 .. Len(r) : n \in S
    <2> HIDE DEF S
    <2> QED
      BY <1>2, <1>3, <1>4, Upward
  <1> QED
    BY <1>1, <1>5 DEF r

(* An entry linked in at its place is due after its interval, all others    *)
(* are due when they were.                                                  *)
LEMMA DueLinked ==
  ASSUME NEW q \in Seq(Timeout), NEW p \in 0 .. Len(q), NEW e \in Timeout,
         NEW ms \in 0 .. (TimeMod - 1),
         e.time = ms - Due(q, p), p = Len(q) \/ q[p+1].time > e.time
  PROVE  LET r == Link(q, p, e) IN
         /\ \A k \in 0 .. p : Due(r, k) = Due(q, k)
         /\ Due(r, p + 1) = ms
         /\ \A k \in p+1 .. Len(q) : Due(r, k + 1) = Due(q, k)
  <1> DEFINE r == Link(q, p, e)
  <1>1. /\ p \in 0 .. Len(q) /\ e \in Timeout /\ ms \in 0 .. (TimeMod - 1) /\ Len(q) \in Nat
        /\ e.time = ms - Due(q, p) /\ e.time \in Nat
        /\ p = Len(q) \/ q[p+1].time > e.time
    BY TimeAssumption DEF Timeout
  <1>3. /\ r \in Seq(Timeout) /\ Len(r) = Len(q) + 1
        /\ \A k \in 1 .. p : r[k] = q[k]
        /\ r[p+1] = e
        /\ p < Len(q) => r[p+2] = [q[p+1] EXCEPT !.time = (@ - e.time) % TimeMod]
        /\ \A k \in p+2 .. Len(q) : r[k+1] = q[k]
    BY LinkShape
  <1> HIDE DEF r
  <1>4. /\ Due(q, 0) = 0 /\ Due(r, 0) = 0
        /\ \A i \in 1 .. Len(q) : Due(q, i) = Due(q, i - 1) + q[i].time
        /\ \A i \in 1 .. Len(r) : Due(r, i) = Due(r, i - 1) + r[i].time
    BY <1>3, DueStep
  <1>5. \A k \in 0 .. p : Due(r, k) = Due(q, k)
    <2> DEFINE S == {k \in 0 .. p : Due(r, k) = Due(q, k)}
    <2>1. 0 \in S
      BY <1>1, <1>4
    <2>2. ASSUME NEW n \in 0 .. (p - 1), n \in S PROVE n + 1 \in S
      <3>1. n + 1 \in 1 .. p /\ n + 1 \in 1 .. Len(q) /\ n + 1 \in 1 .. Len(r) /\ (n + 1) - 1 = n
        <4>1. p \in Nat /\ p <= Len(q) /\ Len(q) \in Nat /\ Len(r) = Len(q) + 1
          BY <1>1, <1>3
        <4>2. n \in Nat /\ n < p
          BY <4>1
        <4> QED
          BY <4>1, <4>2
      <3>2. Due(q, n + 1) = Due(q, n) + q[n+1].time /\ Due(r, n + 1) = Due(r, n) + r[n+1].time
        BY <1>4, <3>1
      <3>3. r[n+1] = q[n+1]
        BY <1>3, <3>1
      <3> QED
        BY <2>2, <3>1, <3>2, <3>3
    <2>3. p \in Nat
      BY <1>1
    <2> HIDE DEF S
    <2>4. \A n \in 0 .. p : n \in S
      BY <2>1, <2>2, <2>3, Upward
    <2> QED
      BY <2>4 DEF S
  <1>6. Due(r, p + 1) = ms
    <2>1. p + 1 \in 1 .. Len(r) /\ (p + 1) - 1 = p /\ p \in 0 .. p
      BY <1>1, <1>3
    <2>2. Due(r, p + 1) = Due(q, p) + e.time
      BY <1>3, <1>4, <1>5, <2>1
    <2>3. Due(q, p) \in Nat
      BY <1>1, DueNat
    <2> QED
      BY <1>1, <2>2, <2>3, TimeAssumption
  <1>7. ASSUME p < Len(q) PROVE Due(r, p + 2) = Due(q, p + 1)
    <2>1. p + 2 \in 1 .. Len(r) /\ (p + 2) - 1 = p + 1 /\ p + 1 \in 1 .. Len(q) /\ (p + 1) - 1 = p
      BY <1>1, <1>3, <1>7
    <2> DEFINE x == q[p+1].time - e.time
    <2>2. q[p+1] \in Timeout /\ q[p+1].time \in 0 .. (TimeMod - 1)
      BY <2>1, TimesNat
    <2>3. x \in 0 .. (TimeMod - 1)
      BY <1>1, <1>7, <2>2, TimeAssumption
    <2>4. x % TimeMod = x
      <3> HIDE DEF x
      <3> QED
        BY <2>3, InRange
    <2>5. r[p+2].time = x
      BY <1>3, <1>7, <2>2, <2>4 DEF Timeout
    <2>6. Due(r, p + 2) = ms + x
      BY <1>4, <1>6, <2>1, <2>5
    <2>7. Due(q, p + 1) = Due(q, p) + q[p+1].time
      BY <1>4, <2>1
    <2>8. Due(q, p) \in Nat
      BY <1>1, DueNat
    <2> QED
      BY <1>1, <2>2, <2>6, <2>7, <2>8, TimeAssumption
  <1>8. \A k \in p+1 .. Len(q) : Due(r, k + 1) = Due(q, k)
    <2> DEFINE N == Len(q) - (p + 1)
               S == {n \in 0 .. N : Due(r, p + 1 + n + 1) = Due(q, p + 1 + n)}
    <2> SUFFICES ASSUME p < Len(q) PROVE \A k \in p+1 .. Len(q) : Due(r, k + 1) = Due(q, k)
      BY <1>1
    <2>0. N \in Nat
      BY <1>1
    <2>1. 0 \in S
      BY <1>1, <1>7, <2>0
    <2>2. ASSUME NEW n \in 0 .. (N - 1), n \in S PROVE n + 1 \in S
      <3> DEFINE k == p + 1 + n
      <3>1. /\ k \in Nat /\ k + 1 \in p+2 .. Len(q) /\ k + 1 \in 1 .. Len(q) /\ k + 2 \in 1 .. Len(r)
            /\ (k + 1) - 1 = k /\ (k + 2) - 1 = k + 1 /\ (k + 1) + 1 = k + 2
        <4>1. p \in Nat /\ Len(q) \in Nat /\ Len(r) = Len(q) + 1 /\ n \in Nat
          BY <1>1, <1>3
        <4>2. n < Len(q) - (p + 1)
          BY <2>0, <4>1
        <4> QED
          BY <4>1, <4>2
      <3>2. Due(r, k + 1) = Due(q, k)
        BY <2>2
      <3>3. p + 1 + (n + 1) + 1 = k + 2 /\ p + 1 + (n + 1) = k + 1
        BY <1>1, <2>0
      <3>4. n + 1 \in 0 .. N
        BY <2>0
      <3> HIDE DEF k, N
      <3>5. Due(q, k + 1) = Due(q, k) + q[k+1].time
        BY <1>4, <3>1
      <3>6. Due(r, k + 2) = Due(r, k + 1) + r[k+2].time
        BY <1>4, <3>1
      <3>7. r[k+2] = q[k+1]
        BY <1>3, <3>1
      <3> QED
        BY <3>2, <3>3, <3>4, <3>5, <3>6, <3>7
    <2>3. \A n \in 0 .. N : n \in S
      <3> HIDE DEF S, N
      <3> QED
        BY <2>0, <2>1, <2>2, Upward
    <2>4. ASSUME NEW k \in p+1 .. Len(q) PROVE Due(r, k + 1) = Due(q, k)
      <3>1. k - (p + 1) \in 0 .. N /\ p + 1 + (k - (p + 1)) = k
        BY <1>1
      <3> QED
        BY <2>3, <3>1
    <2> QED
      BY <2>4
  <1> QED
    BY <1>5, <1>6, <1>8 DEF r

LEMMA PendingTail ==
  ASSUME NEW q \in Seq(Timeout), q # <<>>
  PROVE  /\ Pending(q) # <<>>
         /\ Pending(SubSeq(q, 2, Len(q))) =
              [i \in 1 .. (Len(Pending(q)) - 1) |->
                 [Pending(q)[i+1] EXCEPT !.due = @ - Pending(q)[1].due]]
  <1> DEFINE r == SubSeq(q, 2, Len(q))
             P == Pending(q)
  <1>1. r \in Seq(Timeout) /\ Len(q) = Len(r) + 1 /\ \A k \in 1 .. Len(r) : q[k+1] = r[k]
    BY TailShape
  <1>2. Len(r) \in Nat /\ 1 \in 1 .. Len(q)
    BY <1>1
  <1>3. \A i \in 0 .. (Len(q) - 1) : Due(r, i) = Due(q, i + 1) - q[1].time
    BY DueTail
  <1>4. Len(P) = Len(q) /\ \A i \in 1 .. Len(q) : P[i] = [h |-> q[i].h, due |-> Due(q, i)]
    BY <1>2 DEF Pending
  <1>5. P[1].due = q[1].time
    <2>1. Due(q, 1) = Due(q, 0) + q[1].time /\ Due(q, 0) = 0
      BY <1>2, DueStep
    <2>2. q[1].time \in Nat
      BY <1>2, TimesNat, TimeAssumption
    <2>3. P[1] = [h |-> q[1].h, due |-> Due(q, 1)]
      BY <1>2, <1>4
    <2>4. P[1].due = Due(q, 1)
      BY <2>3
    <2> QED
      BY <2>1, <2>2, <2>4
  <1>6. P # <<>>
    BY <1>2, <1>4
  <1>7. Pending(r) = [i \in 1 .. Len(r) |-> [h |-> r[i].h, due |-> Due(r, i)]]
    BY DEF Pending
  <1> HIDE DEF P, r
  <1>8. ASSUME NEW i \in 1 .. Len(r)
        PROVE  [h |-> r[i].h, due |-> Due(r, i)] = [P[i+1] EXCEPT !.due = @ - P[1].due]
    <2>1. i + 1 \in 1 .. Len(q) /\ i \in 0 .. (Len(q) - 1)
      BY <1>1, <1>2
    <2>2. Due(r, i) = Due(q, i + 1) - q[1].time /\ r[i].h = q[i+1].h
      BY <1>1, <1>3, <2>1
    <2>3. P[i+1] = [h |-> q[i+1].h, due |-> Due(q, i + 1)]
      BY <1>4, <2>1
    <2> QED
      BY <1>5, <2>2, <2>3
  <1>9. Len(P) - 1 = Len(r)
    BY <1>1, <1>2, <1>4
  <1> QED
    BY <1>6, <1>7, <1>8, <1>9 DEF P, r

(* A timeout started: what the list is then, and what Distances sees.       *)
LEMMA PendingScheduled ==
  ASSUME NEW q \in Seq(Timeout), NEW h \in Handlers
  PROVE  LET P == Pending(q)
             n == Place(q, Interval[h])
         IN  /\ Len(P) = Len(q) /\ n \in 0 .. Len(P)
             /\ \A i \in 1 .. n : P[i].due <= Interval[h]
             /\ \A i \in n+1 .. Len(P) : P[i].due > Interval[h]
             /\ Pending(Scheduled(q, h)) =
                  SubSeq(P, 1, n) \o <<[h |-> h, due |-> Interval[h]]>> \o SubSeq(P, n + 1, Len(P))
  <1>p1. PICK d \in 0 .. (TimeMod - 1) : d = Interval[h]
    BY Intervals
  <1>p2. Place(q, d) \in 0 .. Len(q) /\ New(h, Rest(q, d)) \in Timeout
    BY <1>p1, NewTyped
  <1>p3. PICK n \in 0 .. Len(q) : n = Place(q, d)
    BY <1>p2
  <1>p4. PICK e \in Timeout : e = New(h, Rest(q, d))
    BY <1>p2
  <1>p5. e.h = h /\ e.time = Rest(q, d)
    BY <1>p4 DEF New
  <1>p6. Scheduled(q, h) = Link(q, n, e)
    BY <1>p1, <1>p3, <1>p4 DEF Scheduled
  <1>p7. /\ n = Len(q) \/ Due(q, n + 1) > d
         /\ \A i \in 0 .. n : Due(q, i) <= d
         /\ Rest(q, d) = d - Due(q, n)
         /\ n = Len(q) \/ q[n+1].time > Rest(q, d)
    BY <1>p3, PlaceIsFirst
  <1>p8. e.time = d - Due(q, n) /\ (n = Len(q) \/ q[n+1].time > e.time)
    BY <1>p5, <1>p7
  <1> SUFFICES ASSUME n \in 0 .. Len(q), e \in Timeout, d \in 0 .. (TimeMod - 1), e.h = h,
                      e.time = d - Due(q, n), n = Len(q) \/ q[n+1].time > e.time,
                      \A i \in 0 .. n : Due(q, i) <= d,
                      n = Len(q) \/ Due(q, n + 1) > d
               PROVE  LET P == Pending(q) IN
                      /\ Len(P) = Len(q)
                      /\ \A i \in 1 .. n : P[i].due <= d
                      /\ \A i \in n+1 .. Len(P) : P[i].due > d
                      /\ Pending(Link(q, n, e)) =
                           SubSeq(P, 1, n) \o <<[h |-> h, due |-> d]>> \o SubSeq(P, n + 1, Len(P))
    BY <1>p1, <1>p3, <1>p4, <1>p5, <1>p6, <1>p7, <1>p8
  <1> DEFINE P == Pending(q)
             r == Link(q, n, e)
             E == [h : Handlers, due : Nat]
             started == SubSeq(P, 1, n) \o <<[h |-> h, due |-> d]>> \o SubSeq(P, n + 1, Len(P))
  <1>1. n \in 0 .. Len(q) /\ Len(q) \in Nat /\ d \in Nat /\ e \in Timeout /\ e.h = h
    BY TimeAssumption
  <1>2. P \in Seq(E) /\ Len(P) = Len(q) /\ \A i \in 1 .. Len(q) : P[i] = [h |-> q[i].h, due |-> Due(q, i)]
    <2>1. \A i \in 1 .. Len(q) : q[i].h \in Handlers /\ Due(q, i) \in Nat
      BY TimesNat, DueNat
    <2>2. P = [i \in 1 .. Len(q) |-> [h |-> q[i].h, due |-> Due(q, i)]]
      BY DEF Pending
    <2> HIDE DEF P
    <2>3. P \in [1 .. Len(q) -> E]
      BY <2>1, <2>2
    <2>4. P \in Seq(E) /\ Len(P) = Len(q)
      <3> HIDE DEF E
      <3> QED
        BY <1>1, <2>3
    <2> QED
      BY <2>2, <2>4
  <1>3. \A i \in 1 .. Len(q) : P[i] \in E /\ P[i].due = Due(q, i)
    <2> SUFFICES ASSUME NEW i \in 1 .. Len(q) PROVE P[i] \in E /\ P[i].due = Due(q, i)
      OBVIOUS
    <2>1. P[i] = [h |-> q[i].h, due |-> Due(q, i)]
      BY <1>2
    <2>2. q[i].h \in Handlers /\ Due(q, i) \in Nat
      BY TimesNat, DueNat
    <2> HIDE DEF P
    <2> QED
      BY <2>1, <2>2
  <1>4. \A i \in 1 .. n : P[i].due <= d
    <2> HIDE DEF P
    <2>2. ASSUME NEW i \in 1 .. n PROVE P[i].due <= d
      <3>1. i \in 1 .. Len(q) /\ i \in 0 .. n
        BY <1>1
      <3> QED
        BY <1>3, <3>1
    <2> QED
      BY <2>2
  <1>5. \A i \in n+1 .. Len(P) : P[i].due > d
    <2>2. CASE n = Len(q)
      BY <1>1, <1>2, <2>2
    <2>3. CASE n # Len(q)
      <3> DEFINE N == Len(q) - (n + 1)
                 S == {k \in 0 .. N : Due(q, n + 1 + k) > d}
      <3>1. N \in Nat
        BY <1>1, <2>3
      <3>2. 0 \in S
        BY <1>1, <2>3, <3>1
      <3>3. ASSUME NEW k \in 0 .. (N - 1), k \in S PROVE k + 1 \in S
        <4>1. n + 1 + (k + 1) \in 1 .. Len(q) /\ n + 1 + (k + 1) - 1 = n + 1 + k
              /\ n + 1 + k \in 0 .. Len(q)
          BY <1>1, <3>1
        <4>2. Due(q, n + 1 + k) <= Due(q, n + 1 + (k + 1))
          <5> DEFINE j == n + 1 + (k + 1)
          <5>1. j \in 1 .. Len(q) /\ j - 1 = n + 1 + k
            BY <4>1
          <5> HIDE DEF j
          <5>2. Due(q, j - 1) <= Due(q, j)
            BY <5>1, DueGrows
          <5> QED
            BY <5>1, <5>2 DEF j
        <4>3. Due(q, n + 1 + k) \in Nat /\ Due(q, n + 1 + (k + 1)) \in Nat
          BY <4>1, DueNat
        <4> QED
          BY <1>1, <3>1, <3>3, <4>2, <4>3
      <3>4. \A k \in 0 .. N : k \in S
        <4> HIDE DEF S, N
        <4> QED
          BY <3>1, <3>2, <3>3, Upward
      <3>5. ASSUME NEW i \in n+1 .. Len(P) PROVE P[i].due > d
        <4>1. i - (n + 1) \in 0 .. N /\ n + 1 + (i - (n + 1)) = i /\ i \in 1 .. Len(q)
          BY <1>1, <1>2
        <4>2. Due(q, i) > d
          BY <3>4, <4>1
        <4> HIDE DEF P
        <4> QED
          BY <1>3, <4>1, <4>2
      <3> QED
        BY <3>5
    <2> QED
      BY <2>2, <2>3
  <1>6. Pending(r) = started
    <2>1. /\ \A k \in 0 .. n : Due(r, k) = Due(q, k)
          /\ Due(r, n + 1) = d
          /\ \A k \in n+1 .. Len(q) : Due(r, k + 1) = Due(q, k)
      BY DueLinked
    <2>3. /\ r \in Seq(Timeout) /\ Len(r) = Len(q) + 1
          /\ \A k \in 1 .. n : r[k] = q[k]
          /\ r[n+1] = e
          /\ n < Len(q) => r[n+2] = [q[n+1] EXCEPT !.time = (@ - e.time) % TimeMod]
          /\ \A k \in n+2 .. Len(q) : r[k+1] = q[k]
      BY LinkShape
    <2> HIDE DEF r, P
    <2>4. \A k \in n+1 .. Len(q) : r[k+1].h = q[k].h
      <3> SUFFICES ASSUME NEW k \in n+1 .. Len(q) PROVE r[k+1].h = q[k].h
        OBVIOUS
      <3>1. CASE k = n + 1
        <4>1. q[n+1] \in Timeout /\ n < Len(q)
          BY <1>1, <3>1
        <4>2. r[n+2].h = q[n+1].h
          BY <2>3, <4>1 DEF Timeout
        <4> QED
          BY <1>1, <3>1, <4>2
      <3>2. CASE k # n + 1
        <4>1. k \in n+2 .. Len(q)
          BY <1>1, <3>2
        <4> QED
          BY <2>3, <4>1
      <3> QED
        BY <3>1, <3>2
    <2>5. Pending(r) = [k \in 1 .. (Len(q) + 1) |-> [h |-> r[k].h, due |-> Due(r, k)]]
      BY <2>3 DEF Pending
    <2> DEFINE x == [h |-> h, due |-> d]
               front == SubSeq(P, 1, n)
               back == SubSeq(P, n + 1, Len(P))
    <2>6. x \in E
      BY <1>1
    <2>7. front \in Seq(E) /\ Len(front) = n /\ \A k \in 1 .. n : front[k] = P[k]
      <3>1. \A i \in 1 .. n : P[i] \in E
        BY <1>1, <1>3
      <3> HIDE DEF E
      <3> QED
        BY <1>1, <3>1, SubSeqProperties
    <2>8. back \in Seq(E) /\ Len(back) = Len(q) - n /\ \A k \in 1 .. (Len(q) - n) : back[k] = P[n + k]
      <3>1. (\A i \in n+1 .. Len(P) : P[i] \in E) /\ Len(P) = Len(q)
        BY <1>1, <1>2, <1>3
      <3> HIDE DEF E
      <3>2. /\ back \in Seq(E) /\ Len(back) = IF n + 1 <= Len(P) THEN Len(P) - (n + 1) + 1 ELSE 0
            /\ \A k \in 1 .. Len(P) - (n + 1) + 1 : back[k] = P[(n + 1) + k - 1]
        BY <1>1, <3>1, SubSeqProperties
      <3>3. Len(P) - (n + 1) + 1 = Len(q) - n /\ \A k \in Nat : (n + 1) + k - 1 = n + k
        BY <1>1, <3>1
      <3>4. Len(back) = Len(q) - n
        BY <1>1, <3>1, <3>2
      <3> HIDE DEF back
      <3> QED
        BY <1>1, <3>2, <3>3, <3>4
    <2> HIDE DEF x, front, back, E
    <2> DEFINE first == front \o <<x>>
    <2>9. /\ first \in Seq(E) /\ Len(first) = n + 1
          /\ \A k \in 1 .. n : first[k] = P[k]
          /\ first[n+1] = x
      BY <1>1, <2>6, <2>7
    <2>10. started = first \o back
      BY DEF x, front, back
    <2> HIDE DEF first, started
    <2>11. /\ started \in Seq(E) /\ Len(started) = Len(first) + Len(back)
           /\ \A k \in 1 .. Len(first) + Len(back) : started[k] =
                 IF k <= Len(first) THEN first[k] ELSE back[k - Len(first)]
      <3>1. first \in Seq(E) /\ back \in Seq(E)
        BY <2>8, <2>9
      <3> QED
        BY <2>10, <3>1, ConcatProperties
    <2>12. Len(started) = Len(q) + 1 /\ started = [k \in 1 .. (Len(q) + 1) |-> started[k]]
      BY <1>1, <2>8, <2>9, <2>11
    <2>13. ASSUME NEW k \in 1 .. (Len(q) + 1) PROVE started[k] = [h |-> r[k].h, due |-> Due(r, k)]
      <3>0. k \in 1 .. Len(first) + Len(back) /\ Len(first) = n + 1
        BY <1>1, <2>8, <2>9
      <3>1. CASE k \in 1 .. n
        <4>1. started[k] = P[k]
          <5>1. k <= Len(first)
            BY <1>1, <3>0, <3>1
          <5>2. started[k] = first[k]
            BY <2>11, <3>0, <5>1
          <5> QED
            BY <2>9, <3>1, <5>2
        <4>2. P[k] = [h |-> q[k].h, due |-> Due(q, k)]
          BY <1>1, <1>2, <3>1
        <4>3. r[k] = q[k] /\ Due(r, k) = Due(q, k)
          BY <1>1, <2>1, <2>3, <3>1
        <4> QED
          BY <4>1, <4>2, <4>3
      <3>2. CASE k = n + 1
        <4>1. started[k] = x
          BY <1>1, <2>9, <2>11, <3>0, <3>2
        <4> QED
          BY <1>1, <2>1, <2>3, <3>2, <4>1 DEF x
      <3>3. CASE k > n + 1
        <4>1. k - (n + 1) \in 1 .. (Len(q) - n) /\ n + (k - (n + 1)) = k - 1 /\ k - 1 \in n+1 .. Len(q)
              /\ k - 1 \in 1 .. Len(q) /\ (k - 1) + 1 = k
          BY <1>1, <3>3
        <4>2. started[k] = P[k - 1]
          BY <1>1, <2>8, <2>11, <3>0, <3>3, <4>1
        <4>3. P[k - 1] = [h |-> q[k - 1].h, due |-> Due(q, k - 1)]
          BY <1>2, <4>1
        <4>4. r[k].h = q[k - 1].h /\ Due(r, k) = Due(q, k - 1)
          BY <2>1, <2>4, <4>1
        <4> QED
          BY <4>2, <4>3, <4>4
      <3> QED
        BY <1>1, <3>1, <3>2, <3>3
    <2> QED
      BY <2>5, <2>12, <2>13
  <1> QED
    BY <1>2, <1>4, <1>5, <1>6

(* The timeouts of boot wait for their whole intervals.                     *)
LEMMA DueScheduled ==
  ASSUME NEW q \in Seq(Timeout), NEW h \in Handlers,
         \A i \in 1 .. Len(q) : Due(q, i) = Interval[q[i].h]
  PROVE  LET r == Scheduled(q, h) IN
         \A i \in 1 .. Len(r) : Due(r, i) = Interval[r[i].h]
  <1> DEFINE P == Pending(q)
             d == Interval[h]
             x == [h |-> h, due |-> d]
             n == Place(q, d)
             r == Scheduled(q, h)
             front == SubSeq(P, 1, n)
             back == SubSeq(P, n + 1, Len(P))
             F == {e \in [h : Handlers, due : Nat] : e.due = Interval[e.h]}
  <1>1. /\ Len(P) = Len(q) /\ n \in 0 .. Len(P) /\ Len(q) \in Nat
        /\ Pending(r) = front \o <<x>> \o back
    <2>1. Len(q) \in Nat
      OBVIOUS
    <2> QED
      BY <2>1, PendingScheduled
  <1>2. ASSUME NEW i \in 1 .. Len(q) PROVE P[i] \in F
    <2>1. P[i] = [h |-> q[i].h, due |-> Due(q, i)]
      BY DEF Pending
    <2>2. q[i].h \in Handlers /\ Due(q, i) \in Nat
      BY TimesNat, DueNat
    <2> HIDE DEF P
    <2> QED
      BY <2>1, <2>2
  <1>3. x \in F
    BY Intervals, TimeAssumption
  <1>4. r \in Seq(Timeout) /\ Len(r) \in Nat
    BY ScheduledShape
  <1>5. Pending(r) = [i \in 1 .. Len(r) |-> [h |-> r[i].h, due |-> Due(r, i)]]
    BY DEF Pending
  <1> HIDE DEF P, d, x, n, r, F
  <1>6. front \in Seq(F)
    <2>1. \A i \in 1 .. n : P[i] \in F
      BY <1>1, <1>2
    <2> QED
      BY <1>1, <2>1, SubSeqProperties
  <1>7. back \in Seq(F)
    <2>1. \A i \in n+1 .. Len(P) : P[i] \in F
      BY <1>1, <1>2
    <2> QED
      BY <1>1, <2>1, SubSeqProperties
  <1> HIDE DEF front, back
  <1>8. Pending(r) \in Seq(F)
    <2>1. front \o <<x>> \in Seq(F)
      BY <1>3, <1>6
    <2> QED
      BY <1>1, <1>7, <2>1, ConcatProperties
  <1>9. ASSUME NEW i \in 1 .. Len(r) PROVE Due(r, i) = Interval[r[i].h]
    <2>1. Len(Pending(r)) = Len(r)
      BY <1>4, <1>5
    <2>2. Pending(r)[i] \in F
      BY <1>8, <2>1
    <2>3. Pending(r)[i] = [h |-> r[i].h, due |-> Due(r, i)]
      BY <1>5
    <2> QED
      BY <2>2, <2>3 DEF F
  <1> QED
    BY <1>9 DEF r

LEMMA FiveHandlers == Cardinality(Handlers) = 5
  <1>1. Cardinality({"ip"}) = 1 /\ IsFiniteSet({"ip"})
    BY FS_Singleton
  <1>2. Cardinality({"ip"} \cup {"arp"}) = 2 /\ IsFiniteSet({"ip"} \cup {"arp"})
    BY <1>1, FS_AddElement
  <1>3. /\ Cardinality(({"ip"} \cup {"arp"}) \cup {"coarse"}) = 3
        /\ IsFiniteSet(({"ip"} \cup {"arp"}) \cup {"coarse"})
    BY <1>2, FS_AddElement
  <1>4. /\ Cardinality((({"ip"} \cup {"arp"}) \cup {"coarse"}) \cup {"fine"}) = 4
        /\ IsFiniteSet((({"ip"} \cup {"arp"}) \cup {"coarse"}) \cup {"fine"})
    BY <1>3, FS_AddElement
  <1>5. Cardinality(((({"ip"} \cup {"arp"}) \cup {"coarse"}) \cup {"fine"}) \cup {"tcp"}) = 5
    BY <1>4, FS_AddElement
  <1>6. Handlers = ((({"ip"} \cup {"arp"}) \cup {"coarse"}) \cup {"fine"}) \cup {"tcp"}
    BY HandlersSplit
  <1> QED
    BY <1>5, <1>6

(* The list of boot is what the list of distances starts with.              *)
LEMMA BootDue ==
  ASSUME Init
  PROVE  \A i \in 1 .. Len(timers) : Due(timers, i) = Interval[timers[i].h]
  <1> DEFINE Whole(q) == q \in Seq(Timeout) /\ \A i \in 1 .. Len(q) : Due(q, i) = Interval[q[i].h]
  <1>1. Whole(<<>>)
    OBVIOUS
  <1>2. ASSUME NEW q, Whole(q), NEW h \in Handlers PROVE Whole(Scheduled(q, h))
    <2>1. q \in Seq(Timeout) /\ \A i \in 1 .. Len(q) : Due(q, i) = Interval[q[i].h]
      BY <1>2
    <2>2. Scheduled(q, h) \in Seq(Timeout)
      BY <2>1, ScheduledShape
    <2>3. \A i \in 1 .. Len(Scheduled(q, h)) : Due(Scheduled(q, h), i) = Interval[Scheduled(q, h)[i].h]
      BY <2>1, DueScheduled
    <2> QED
      BY <2>2, <2>3
  <1> DEFINE q1 == Scheduled(<<>>, "ip")
             q2 == Scheduled(q1, "arp")
             q3 == Scheduled(q2, "coarse")
             q4 == Scheduled(q3, "fine")
  <1>3. timers = Scheduled(q4, "tcp")
    BY DEF Init
  <1> HIDE DEF Whole
  <1>4. Whole(q1)
    BY <1>1, <1>2, HandlersSplit
  <1> HIDE DEF q1
  <1>5. Whole(q2)
    BY <1>2, <1>4, HandlersSplit
  <1> HIDE DEF q2
  <1>6. Whole(q3)
    BY <1>2, <1>5, HandlersSplit
  <1> HIDE DEF q3
  <1>7. Whole(q4)
    BY <1>2, <1>6, HandlersSplit
  <1> HIDE DEF q4
  <1>8. Whole(timers)
    BY <1>2, <1>3, <1>7, HandlersSplit
  <1> QED
    BY <1>8 DEF Whole

LEMMA InitMaps == Init => Distances!Init
  <1> SUFFICES ASSUME Init PROVE Distances!Init
    OBVIOUS
  <1> DEFINE P == [i \in 1 .. Len(timers) |-> [h |-> timers[i].h, due |-> Due(timers, i)]]
  <1>1. timers \in Seq(Timeout) /\ Len(timers) = 5 /\ \A h \in Handlers : Count(timers, h) = 1
    BY Boot
  <1>2. DOMAIN Interval = Handlers
    BY HandlersSplit DEF Interval
  <1>3. Cardinality(DOMAIN Interval) = 5
    BY <1>2, FiveHandlers
  <1>4. Len(P) = 5
    BY <1>1
  <1>5. \A i \in 1 .. 5 : P[i].h = timers[i].h /\ P[i].due = Due(timers, i)
    BY <1>1
  <1>6. \A i \in 1 .. 5 : timers[i].h \in Handlers
    BY <1>1, TimesNat
  <1>7. ASSUME NEW h \in Handlers PROVE \E i \in 1 .. 5 : timers[i].h = h
    <2>1. Of(timers, h) # {}
      <3>1. Cardinality(Of(timers, h)) = 1
        BY <1>1 DEF Count
      <3>2. Cardinality({}) = 0
        BY FS_EmptySet
      <3> QED
        BY <3>1, <3>2
    <2> QED
      BY <1>1, <2>1 DEF Of
  <1>8. \A i \in 1 .. 5 : Due(timers, i) = Interval[timers[i].h]
    BY <1>1, BootDue
  <1>9. \A i \in 1 .. 4 : Due(timers, i) <= Due(timers, i + 1)
    <2>1. ASSUME NEW i \in 1 .. 4 PROVE Due(timers, i) <= Due(timers, i + 1)
      <3>1. i + 1 \in 1 .. Len(timers) /\ (i + 1) - 1 = i
        BY <1>1
      <3> DEFINE j == i + 1
      <3> HIDE DEF j
      <3>2. j \in 1 .. Len(timers) /\ j - 1 = i
        BY <3>1 DEF j
      <3>3. Due(timers, j - 1) <= Due(timers, j)
        BY <1>1, <3>2, DueGrows
      <3> QED
        BY <3>2, <3>3 DEF j
    <2> QED
      BY <2>1
  <1> HIDE DEF P
  <1>10. {P[i].h : i \in 1 .. 5} = Handlers
    BY <1>5, <1>6, <1>7
  <1>11. \A i \in 1 .. 5 : P[i].due = Interval[P[i].h]
    BY <1>5, <1>8
  <1>12. \A i \in 1 .. 4 : P[i].due <= P[i+1].due
    <2>1. \A i \in 1 .. 4 : i \in 1 .. 5 /\ i + 1 \in 1 .. 5
      OBVIOUS
    <2> QED
      BY <1>5, <1>9, <2>1
  <1>13. LET n == Cardinality(DOMAIN Interval)
         IN  /\ Len(P) = n
             /\ {P[i].h : i \in 1 .. n} = DOMAIN Interval
             /\ \A i \in 1 .. n : P[i].due = Interval[P[i].h]
             /\ \A i \in 1 .. (n - 1) : P[i].due <= P[i+1].due
    <2>1. 5 - 1 = 4
      OBVIOUS
    <2> QED
      BY <1>2, <1>3, <1>4, <1>10, <1>11, <1>12, <2>1
  <1> QED
    BY <1>13 DEF Distances!Init, P, Distances!Cardinality, Cardinality

(* A timeout started, and the head unlinked, as Distances sees them.        *)
LEMMA StartMaps ==
  ASSUME TypeOK, NEW h \in Handlers, timers' = Scheduled(timers, h)
  PROVE  Distances!Start(h)
  <1> DEFINE P == Pending(timers)
             n == Place(timers, Interval[h])
  <1>1. timers \in Seq(Timeout)
    BY DEF TypeOK
  <1>2. /\ n \in 0 .. Len(P)
        /\ \A i \in 1 .. n : P[i].due <= Interval[h]
        /\ \A i \in n+1 .. Len(P) : P[i].due > Interval[h]
        /\ Pending(timers') =
             SubSeq(P, 1, n) \o <<[h |-> h, due |-> Interval[h]]>> \o SubSeq(P, n + 1, Len(P))
    BY <1>1, PendingScheduled
  <1> HIDE DEF n
  <1> QED
    BY <1>2 DEF Distances!Start, Pending

LEMMA ExpireMaps ==
  ASSUME TypeOK, timers # <<>>, timers' = SubSeq(timers, 2, Len(timers))
  PROVE  Distances!Expire
  <1>1. timers \in Seq(Timeout)
    BY DEF TypeOK
  <1>2. /\ Pending(timers) # <<>>
        /\ Pending(timers') =
              [i \in 1 .. (Len(Pending(timers)) - 1) |->
                 [Pending(timers)[i+1] EXCEPT !.due = @ - Pending(timers)[1].due]]
    BY <1>1, PendingTail
  <1> QED
    BY <1>2 DEF Distances!Expire, Pending

LEMMA StepMaps ==
  ASSUME ~ReceiveInterrupt, PoolInv, PoolInv', PolledInv, [Next]_vars
  PROVE  Distances!Next \/ UNCHANGED timers
  <1>0. TypeOK /\ main \in Locals /\ timers \in Seq(Timeout) /\ Len(timers) \in Nat
    BY DEF PoolInv, TypeOK
  <1>d. DOMAIN Interval = Handlers
    BY HandlersSplit DEF Interval
  <1>1. CASE Unlink
    <2>1. main.pc = "unlink" /\ main.at = 1 /\ 1 <= Len(timers)
      BY <1>0, <1>1 DEF Unlink, PolledInv, TypeOK
    <2>2. timers' = SubSeq(timers, 2, Len(timers))
      BY <1>0, <1>1, <2>1 DEF Unlink
    <2>3. timers # <<>>
      BY <2>1
    <2> QED
      BY <1>0, <2>2, <2>3, ExpireMaps DEF Distances!Next
  <1>2. CASE Insert
    <2>1. main.at = Place(timers, Interval[main.h]) /\ main.rest = Rest(timers, Interval[main.h])
          /\ main.h \in Handlers
      BY <1>0, <1>2 DEF Insert, PolledInv, Locals
    <2>2. timers' = Scheduled(timers, main.h)
      BY <1>2, <2>1 DEF Insert, Scheduled
    <2> QED
      BY <1>0, <1>d, <2>1, <2>2, StartMaps DEF Distances!Next
  <1>3. CASE Connect
    <2>1. main.pc = "idle"
      BY <1>3 DEF Connect, MayReceive
    <2>2. CASE active
      BY <1>3, <2>2 DEF Connect
    <2>3. CASE ~active
      <3>1. Schedule("tcp") /\ "tcp" \in Handlers
        BY <1>3, <2>3 DEF Connect, Handlers
      <3>2. ~Full
        <4>1. main'.pc # "assert" /\ Stopped(main).pc = "assert"
          BY <1>0 DEF PoolInv, Stopped, Locals
        <4> QED
          BY <3>1, <4>1 DEF Schedule
      <3>3. timers' = Scheduled(timers, "tcp")
        BY <3>1, <3>2 DEF Schedule
      <3> QED
        BY <1>0, <1>d, <3>1, <3>3, StartMaps DEF Distances!Next
    <2> QED
      BY <2>2, <2>3
  <1> QED
    BY <1>1, <1>2, <1>3
    DEF Next, MainStep, vars, Check, Expire, Leave, TcpTimer, Disable, Find, Disconnect, Pit3

(* In the build that polls the driver the list of differences implements    *)
(* the list of distances: each timeout expires after its whole interval, in *)
(* the order of the deadlines, and one sys_timeout never shifts another.    *)
THEOREM ListOfDistances ==
  ASSUME ~ReceiveInterrupt, PoolSize >= 6
  PROVE  Spec => ImplementsTimerList
  <1>1. PoolInv /\ PoolInv' /\ PolledInv /\ [Next]_vars
        => [Distances!Next]_([i \in 1 .. Len(timers) |-> [h |-> timers[i].h, due |-> Due(timers, i)]])
    BY StepMaps
  <1> QED
    BY InitMaps, PolledIsKept, <1>1, PTL DEF Spec, ImplementsTimerList, Distances!Spec

===============================================================================
