---------------------------- MODULE EnetRingProofs -----------------------------
(****************************************************************************)
(* Theorems about EnetRing, for rings of any size and any set of frames:    *)
(* every pointer stays in its ring, frames are left behind only by damage,  *)
(* the receive ring implements FrameFifo, and as long as the main loop is   *)
(* not interrupted while it sends, so does the transmit ring, of which only *)
(* the oldest frame can be overwritten, when it is full.                    *)
(****************************************************************************)
EXTENDS EnetRing, TLAPS

(* Each step has one action.                                                *)
Step ==
    \/ \E f \in Received : MacReceive(f)
    \/ MacRxStops \/ MacTransmit \/ MacTxStops
    \/ RxIrq \/ RxTest \/ RxEmpty \/ RxRead \/ RxDiscard \/ InputReturns
    \/ TxIrq \/ TxTest \/ TxClean \/ TxCleaned
    \/ \E c \in Contexts, f \in Frames : Output(c, f)
    \/ \E c \in Contexts : \/ Copy(c) \/ TestFull(c) \/ SetReady(c)
                           \/ Advance(c) \/ Compare(c) \/ StoreFull(c)
                           \/ Activate(c)

LEMMA NextIsStep == Next => Step
  BY DEF Next, Step, Receiving, Cleaning, Sending

LEMMA NextInRing ==
  /\ \A i \in RxBds : NextRx(i) \in RxBds
  /\ \A i \in TxBds : NextTx(i) \in TxBds
  BY RingsAssumption DEF NextRx, NextTx, RxBds, TxBds

-----------------------------------------------------------------------------
(* The type invariant. *)

LEMMA InitTyped == Init => TypeOK
  BY RingsAssumption
  DEF Init, TypeOK, RxBds, TxBds, Pointers, MacState, IrqState, Call, NoCall

LEMMA StepTyped == TypeOK /\ [Next]_vars => TypeOK'
  <1> SUFFICES ASSUME TypeOK, [Next]_vars PROVE TypeOK'
    OBVIOUS
  <1> USE DEF TypeOK
  <1>1. ASSUME NEW f \in Received, MacReceive(f) PROVE TypeOK'
    BY <1>1, NextInRing DEF MacReceive, MacState
  <1>2. CASE MacRxStops
    BY <1>2 DEF MacRxStops, MacState
  <1>3. CASE MacTransmit
    BY <1>3, NextInRing DEF MacTransmit, MacState
  <1>4. CASE MacTxStops
    BY <1>4 DEF MacTxStops, MacState
  <1>5. CASE RxIrq
    BY <1>5 DEF RxIrq, IrqState
  <1>6. CASE RxTest
    BY <1>6 DEF RxTest, IrqState, MacState
  <1>7. CASE RxEmpty
    BY <1>7 DEF RxEmpty, IrqState
  <1>8. CASE RxRead
    <2>1. ctx.rxCur \in RxBds
      BY DEF Pointers
    <2>2. ctx' \in Pointers
      BY <1>8, <2>1, NextInRing DEF RxRead, Pointers
    <2>3. read' \in Received
      BY <1>8, <2>1 DEF RxRead
    <2>4. irq' \in IrqState
      BY <1>8 DEF RxRead, IrqState
    <2> QED
      BY <1>8, <2>2, <2>3, <2>4 DEF RxRead
  <1>9. ASSUME UpdateRx
        PROVE  /\ rx' \in [RxBds -> Received \cup {NoFrame}]
               /\ ctx' \in Pointers
               /\ mac' \in MacState
    BY <1>9, NextInRing DEF UpdateRx, Pointers, MacState
  <1>10. CASE RxDiscard
    BY <1>9, <1>10 DEF RxDiscard, IrqState
  <1>11. CASE InputReturns
    BY <1>9, <1>11 DEF InputReturns, IrqState
  <1>12. CASE TxIrq
    BY <1>12 DEF TxIrq, IrqState
  <1>13. CASE TxTest
    BY <1>13 DEF TxTest, IrqState, MacState
  <1>14. CASE TxClean
    BY <1>14, NextInRing DEF TxClean, Pointers
  <1>15. CASE TxCleaned
    BY <1>15 DEF TxCleaned, IrqState
  <1>16. ASSUME NEW c \in Contexts, NEW f \in Frames, Output(c, f) PROVE TypeOK'
    <2>1. [NoCall EXCEPT !.pc = "copy", !.frame = f, !.bd = ctx.txCur] \in Call
      BY DEF Pointers, Call, NoCall
    <2> QED
      BY <1>16, <2>1 DEF Output
  <1>17. ASSUME NEW c \in Contexts, Copy(c) PROVE TypeOK'
    BY <1>17 DEF Copy, Call
  <1>18. NoCall \in Call
    BY RingsAssumption DEF NoCall, Call, TxBds
  <1>19. ASSUME NEW c \in Contexts, TestFull(c) PROVE TypeOK'
    <2>1. [call[c] EXCEPT !.pc = "ready", !.bd = ctx.txCur] \in Call
      BY DEF Pointers, Call
    <2> QED
      BY <1>18, <1>19, <2>1 DEF TestFull
  <1>20. ASSUME NEW c \in Contexts, SetReady(c) PROVE TypeOK'
    BY <1>20 DEF SetReady, Call
  <1>21. ASSUME NEW c \in Contexts, Advance(c) PROVE TypeOK'
    BY <1>21, NextInRing DEF Advance, Call, Pointers
  <1>22. ASSUME NEW c \in Contexts, Compare(c) PROVE TypeOK'
    <2>1. [call[c] EXCEPT !.pc = "store", !.full = (ctx.txCur = ctx.txDirty)]
            \in Call
      BY DEF Call
    <2> QED
      BY <1>22, <2>1 DEF Compare
  <1>23. ASSUME NEW c \in Contexts, StoreFull(c) PROVE TypeOK'
    BY <1>23 DEF StoreFull, Call, Pointers
  <1>24. ASSUME NEW c \in Contexts, Activate(c) PROVE TypeOK'
    BY <1>18, <1>24 DEF Activate, MacState
  <1>25. CASE UNCHANGED vars
    BY <1>25 DEF vars
  <1> QED
    BY NextIsStep, <1>1, <1>2, <1>3, <1>4, <1>5, <1>6, <1>7, <1>8, <1>10,
       <1>11, <1>12, <1>13, <1>14, <1>15, <1>16, <1>17, <1>19, <1>20, <1>21,
       <1>22, <1>23, <1>24, <1>25
    DEF Step

(* The pointers of driver and MAC stay inside their rings, whatever the     *)
(* interrupts do in between.                                                *)
THEOREM RingsTyped == Spec => []TypeOK
  BY InitTyped, StepTyped, PTL DEF Spec

-----------------------------------------------------------------------------
(* What the receive handler leaves behind. *)

\* A frame without an event is being dealt with, or was left by a damaged one.
LeftInv ==
    rx[ctx.rxCur] # NoFrame /\ ~mac.rxf
      => irq.pc \in {"rxread", "input", "discard"} \/ irq.result = "error"

LEMMA InitLeft == Init => LeftInv /\ ReceiverRestarted
  BY RingsAssumption DEF Init, LeftInv, ReceiverRestarted, RxBds

LEMMA StepLeft ==
  TypeOK /\ LeftInv /\ ReceiverRestarted /\ [Next]_vars
    => LeftInv' /\ ReceiverRestarted'
  <1> SUFFICES ASSUME TypeOK, LeftInv, ReceiverRestarted, [Next]_vars
               PROVE  LeftInv' /\ ReceiverRestarted'
    OBVIOUS
  <1> USE DEF LeftInv, ReceiverRestarted
  <1>0. mac \in MacState /\ ctx \in Pointers /\ irq \in IrqState
    BY DEF TypeOK
  <1>1. ASSUME NEW f \in Received, MacReceive(f)
        PROVE  LeftInv' /\ ReceiverRestarted'
    BY <1>0, <1>1 DEF MacReceive, MacState
  <1>2. CASE MacRxStops
    BY <1>0, <1>2 DEF MacRxStops, MacState
  <1>3. CASE MacTransmit
    BY <1>0, <1>3 DEF MacTransmit, MacState
  <1>4. CASE MacTxStops
    BY <1>0, <1>4 DEF MacTxStops, MacState
  <1>5. CASE RxIrq
    BY <1>0, <1>5 DEF RxIrq, IrqState
  <1>6. CASE RxTest
    BY <1>0, <1>6 DEF RxTest, IrqState, MacState
  <1>7. CASE RxEmpty
    BY <1>0, <1>7 DEF RxEmpty, IrqState
  <1>8. CASE RxRead
    BY <1>0, <1>8 DEF RxRead, IrqState
  <1>9. CASE RxDiscard
    BY <1>0, <1>9 DEF RxDiscard, UpdateRx, IrqState, MacState
  <1>10. CASE InputReturns
    BY <1>0, <1>10 DEF InputReturns, UpdateRx, IrqState, MacState
  <1>11. CASE TxIrq
    BY <1>0, <1>11 DEF TxIrq, Interruptible, IrqState
  <1>12. CASE TxTest
    BY <1>0, <1>12 DEF TxTest, IrqState, MacState
  <1>13. CASE TxClean
    BY <1>0, <1>13 DEF TxClean, Pointers
  <1>14. CASE TxCleaned
    BY <1>0, <1>14 DEF TxCleaned, IrqState
  <1>15. ASSUME NEW c \in Contexts, NEW f \in Frames, Output(c, f)
         PROVE  LeftInv' /\ ReceiverRestarted'
    BY <1>15 DEF Output
  <1>16. ASSUME NEW c \in Contexts,
                Copy(c) \/ TestFull(c) \/ SetReady(c) \/ Compare(c)
         PROVE  LeftInv' /\ ReceiverRestarted'
    BY <1>16 DEF Copy, TestFull, SetReady, Compare
  <1>17. ASSUME NEW c \in Contexts, Advance(c) \/ StoreFull(c)
         PROVE  LeftInv' /\ ReceiverRestarted'
    BY <1>0, <1>17 DEF Advance, StoreFull, Pointers
  <1>18. ASSUME NEW c \in Contexts, Activate(c)
         PROVE  LeftInv' /\ ReceiverRestarted'
    BY <1>0, <1>18 DEF Activate, MacState
  <1>19. CASE UNCHANGED vars
    BY <1>19 DEF vars
  <1> QED
    BY NextIsStep, <1>1, <1>2, <1>3, <1>4, <1>5, <1>6, <1>7, <1>8, <1>9, <1>10,
       <1>11, <1>12, <1>13, <1>14, <1>15, <1>16, <1>17, <1>18, <1>19
    DEF Step

(* Whatever arrives while the handler runs, it leaves a frame without a     *)
(* pending event only behind a damaged one.                                 *)
THEOREM FramesLeftByDamage == Spec => []LeftOnlyByDamage
  <1>1. LeftInv => LeftOnlyByDamage
    BY DEF LeftInv, LeftOnlyByDamage
  <1> QED
    BY <1>1, InitLeft, StepLeft, RingsTyped, PTL DEF Spec

\* A receiver that stopped is started again by the next descriptor given back.
THEOREM ReceiverIsRestarted == Spec => []ReceiverRestarted
  BY InitLeft, StepLeft, RingsTyped, PTL DEF Spec

-----------------------------------------------------------------------------
(* A ring of size N that holds n frames from descriptor a on.               *)

Offset(a, i, size) == IF a <= i THEN i - a ELSE i - a + size

Holds(ring, a, n, size) ==
    \A i \in 0..(size - 1) : ring[i] # NoFrame <=> Offset(a, i, size) < n

LEMMA OffsetOfPlus ==
  ASSUME NEW N \in Nat \ {0}, NEW a \in 0..(N-1), NEW k \in 0..(N-1)
  PROVE  /\ Plus(a, k, N) \in 0..(N-1)
         /\ Offset(a, Plus(a, k, N), N) = k
  BY DEF Plus, Offset

LEMMA PlusOfOffset ==
  ASSUME NEW N \in Nat \ {0}, NEW a \in 0..(N-1), NEW i \in 0..(N-1)
  PROVE  /\ Offset(a, i, N) \in 0..(N-1)
         /\ Plus(a, Offset(a, i, N), N) = i
  BY DEF Plus, Offset

IsRing(ring, S, size) == ring \in [0..(size - 1) -> S]
Changed(new, ring, b, v) == new = [ring EXCEPT ![b] = v]

\* The count is what lies between the first frame and the end, where the h
\* descriptors before the first frame are still to be given back.
LEMMA CountOfRing ==
  ASSUME NEW N \in Nat \ {0}, NEW a \in 0..(N-1), NEW h \in 0..1, NEW k \in h..N,
         NEW ring, Holds(ring, a, k, N),
         NEW b, b = Plus(a, h, N), NEW e, e = Plus(a, k, N)
  PROVE  (IF ring[b] = NoFrame \/ (h = 1 /\ N = 1) THEN 0 ELSE Distance(b, e, N))
           = k - h
  <1>1. b \in 0..(N-1)
    BY DEF Plus
  <1>2. CASE h = 1 /\ N = 1
    BY <1>2
  <1>3. CASE ~(h = 1 /\ N = 1)
    <2>1. Offset(a, b, N) = h
      BY <1>3 DEF Plus, Offset
    <2>2. ring[b] # NoFrame <=> h < k
      BY <1>1, <2>1 DEF Holds
    <2>3. k > h => Distance(b, e, N) = k - h
      BY <1>3 DEF Plus, Distance
    <2> QED
      BY <1>3, <2>2, <2>3
  <1> QED
    BY <1>2, <1>3

\* The descriptor behind the last frame is filled.
LEMMA FillHolds ==
  ASSUME NEW N \in Nat \ {0}, NEW a \in 0..(N-1), NEW n \in 0..(N-1),
         NEW S, NEW ring, IsRing(ring, S, N), Holds(ring, a, n, N),
         NEW b, b = Plus(a, n, N), NEW f, f # NoFrame,
         NEW new, Changed(new, ring, b, f)
  PROVE  Holds(new, a, n + 1, N)
  <1>1. b \in 0..(N-1) /\ Offset(a, b, N) = n
    BY OffsetOfPlus
  <1>2. ASSUME NEW i \in 0..(N-1)
        PROVE  new[i] # NoFrame <=> Offset(a, i, N) < n + 1
    <2>1. Offset(a, i, N) \in 0..(N-1) /\ (Offset(a, i, N) = n => i = b)
      BY PlusOfOffset
    <2>2. CASE i = b
      BY <1>1, <2>2 DEF IsRing, Changed
    <2>3. CASE i # b
      BY <1>1, <2>1, <2>3 DEF Holds, IsRing, Changed
    <2> QED
      BY <2>2, <2>3
  <1> QED
    BY <1>2 DEF Holds

\* The descriptor m behind the first one is none of the first n.
LEMMA OtherDescriptor ==
  ASSUME NEW N \in Nat \ {0}, NEW a \in 0..(N-1), NEW n \in 0..(N-1),
         NEW b, b = Plus(a, n, N), NEW k \in 1..n
  PROVE  Plus(a, k - 1, N) \in 0..(N-1) /\ Plus(a, k - 1, N) # b
  BY DEF Plus

LEMMA ContentsTyped ==
  ASSUME NEW N \in Nat \ {0}, NEW a \in 0..(N-1), NEW n \in 0..N,
         NEW S, NEW ring, IsRing(ring, S, N)
  PROVE  /\ Contents(ring, a, n, N) \in Seq(S)
         /\ Len(Contents(ring, a, n, N)) = n
  <1>1. ASSUME NEW k \in 1..n PROVE ring[Plus(a, k - 1, N)] \in S
    <2>1. k - 1 \in 0..(N-1)
      OBVIOUS
    <2>2. Plus(a, k - 1, N) \in 0..(N-1)
      BY <2>1, OffsetOfPlus
    <2> QED
      BY <2>2 DEF IsRing
  <1> QED
    BY <1>1 DEF Contents

Appended(new, ring, a, n, f, size) ==
    Contents(new, a, n + 1, size) = Append(Contents(ring, a, n, size), f)

LEMMA FillContents ==
  ASSUME NEW N \in Nat \ {0}, NEW a \in 0..(N-1), NEW n \in 0..(N-1),
         NEW S, NEW ring, IsRing(ring, S, N), NEW f \in S,
         NEW b, b = Plus(a, n, N), NEW new, Changed(new, ring, b, f)
  PROVE  Appended(new, ring, a, n, f, N)
  <1>1. b \in 0..(N-1)
    BY OffsetOfPlus
  <1>2. ASSUME NEW k \in 1..n PROVE new[Plus(a, k - 1, N)] = ring[Plus(a, k - 1, N)]
    BY OtherDescriptor DEF IsRing, Changed
  <1>3. /\ Contents(ring, a, n, N) \in Seq(S)
        /\ Len(Contents(ring, a, n, N)) = n
    BY ContentsTyped
  <1>4. Append(Contents(ring, a, n, N), f)
          = [k \in 1..(n + 1) |-> IF k <= n THEN ring[Plus(a, k - 1, N)] ELSE f]
    BY <1>3 DEF Contents
  <1>5. new[Plus(a, n, N)] = f
    BY <1>1 DEF IsRing, Changed
  <1>6. ASSUME NEW k \in 1..(n + 1)
        PROVE  new[Plus(a, k - 1, N)] = IF k <= n THEN ring[Plus(a, k - 1, N)] ELSE f
    <2>1. CASE k <= n
      BY <1>2, <2>1
    <2>2. CASE k = n + 1
      BY <1>5, <2>2
    <2> QED
      BY <2>1, <2>2
  <1> QED
    BY <1>4, <1>6 DEF Contents, Appended

\* A descriptor behind the n frames is changed.
LEMMA OutsideContents ==
  ASSUME NEW N \in Nat \ {0}, NEW a \in 0..(N-1), NEW n \in 0..(N-1),
         NEW m \in n..(N-1), NEW S, NEW ring, IsRing(ring, S, N), NEW v,
         NEW b, b = Plus(a, m, N), NEW new, Changed(new, ring, b, v)
  PROVE  Contents(new, a, n, N) = Contents(ring, a, n, N)
  <1>1. ASSUME NEW k \in 1..n PROVE new[Plus(a, k - 1, N)] = ring[Plus(a, k - 1, N)]
    BY DEF Plus, IsRing, Changed
  <1> QED
    BY <1>1 DEF Contents

\* The first descriptor is passed, whether it keeps its frame or not.
LEMMA PassFirst ==
  ASSUME NEW N \in Nat \ {0}, NEW a \in 0..(N-1), NEW n \in 1..N,
         NEW S, NEW ring, IsRing(ring, S, N), NEW v,
         NEW b, b = Plus(a, 1, N),
         NEW new, Changed(new, ring, a, v)
  PROVE  /\ Contents(ring, a, n, N) # <<>>
         /\ Contents(new, b, n - 1, N) = Tail(Contents(ring, a, n, N))
         /\ Head(Contents(ring, a, n, N)) = ring[a]
  <1>1. /\ Contents(ring, a, n, N) \in Seq(S)
        /\ Len(Contents(ring, a, n, N)) = n
    BY ContentsTyped
  <1>2. Contents(ring, a, n, N)[1] = ring[a]
    BY DEF Contents, Plus
  <1>3. Tail(Contents(ring, a, n, N)) = [k \in 1..(n - 1) |-> ring[Plus(a, k, N)]]
    BY <1>1 DEF Contents
  <1>4. ASSUME NEW k \in 1..(n - 1) PROVE new[Plus(b, k - 1, N)] = ring[Plus(a, k, N)]
    <2>1. Plus(b, k - 1, N) = Plus(a, k, N)
      BY DEF Plus
    <2>2. Plus(a, k, N) \in 0..(N-1) /\ Plus(a, k, N) # a
      BY DEF Plus
    <2> QED
      BY <2>1, <2>2 DEF IsRing, Changed
  <1>5. Contents(new, b, n - 1, N) = Tail(Contents(ring, a, n, N))
    BY <1>3, <1>4 DEF Contents
  <1> QED
    BY <1>1, <1>2, <1>5

\* The first frame is removed.
LEMMA EmptyFirst ==
  ASSUME NEW N \in Nat \ {0}, NEW a \in 0..(N-1), NEW n \in 1..N,
         NEW S, NEW ring, IsRing(ring, S, N), Holds(ring, a, n, N),
         NEW b, b = Plus(a, 1, N), NEW new, Changed(new, ring, a, NoFrame)
  PROVE  Holds(new, b, n - 1, N)
  <1> SUFFICES ASSUME NEW i \in 0..(N-1)
               PROVE  new[i] # NoFrame <=> Offset(b, i, N) < n - 1
    BY DEF Holds
  <1>1. CASE i = a
    <2>1. Offset(b, a, N) = N - 1
      BY DEF Offset, Plus
    <2> QED
      BY <1>1, <2>1 DEF IsRing, Changed
  <1>2. CASE i # a
    <2>1. Offset(b, i, N) = Offset(a, i, N) - 1 /\ Offset(a, i, N) \in Int
      BY <1>2 DEF Offset, Plus
    <2>2. new[i] = ring[i]
      BY <1>2 DEF IsRing, Changed
    <2> QED
      BY <2>1, <2>2 DEF Holds
  <1> QED
    BY <1>1, <1>2

LEMMA PlusPlus ==
  ASSUME NEW N \in Nat \ {0}, NEW a \in 0..(N-1), NEW j \in 0..N, NEW k \in 0..N,
         j + k <= N
  PROVE  /\ Plus(Plus(a, j, N), k, N) = Plus(a, j + k, N)
         /\ Plus(a, 0, N) = a
         /\ Plus(Plus(a, 1, N), N - 1, N) = a
  BY DEF Plus

LEMMA NextIsPlus ==
  /\ \A i \in RxBds : NextRx(i) = Plus(i, 1, RxSize)
  /\ \A i \in TxBds : NextTx(i) = Plus(i, 1, TxSize)
  BY RingsAssumption DEF NextRx, NextTx, RxBds, TxBds, Plus

-----------------------------------------------------------------------------
(* The receive ring.  Behind rxDirty there is the descriptor that the       *)
(* handler has read and not given back, and then those it has not read.     *)

RxHeld == IF irq.pc \in {"input", "discard"} THEN 1 ELSE 0

RxShape(n) ==
    /\ n \in Nat
    /\ n + RxHeld <= RxSize
    /\ ctx.rxCur = Plus(ctx.rxDirty, RxHeld, RxSize)
    /\ mac.rx = Plus(ctx.rxDirty, n + RxHeld, RxSize)
    /\ ctx.rxFull <=> RxHeld = 1 /\ RxSize = 1
    /\ Holds(rx, ctx.rxDirty, n + RxHeld, RxSize)

RxInv == RxShape(RxCount)

RxSame == /\ rx' = rx /\ read' = read /\ RxHeld' = RxHeld
          /\ ctx'.rxCur = ctx.rxCur /\ ctx'.rxDirty = ctx.rxDirty
          /\ ctx'.rxFull = ctx.rxFull /\ mac'.rx = mac.rx

LEMMA RxCounted ==
  \A n : TypeOK /\ RxShape(n) => RxCount = n
  <1> SUFFICES ASSUME NEW n, TypeOK, RxShape(n) PROVE RxCount = n
    OBVIOUS
  <1>1. RxHeld \in 0..1 /\ ctx.rxDirty \in 0..(RxSize - 1)
    BY DEF TypeOK, Pointers, RxBds, RxHeld
  <1>2. n \in Nat /\ n + RxHeld \in RxHeld..RxSize /\ n + RxHeld - RxHeld = n
    BY <1>1, RingsAssumption DEF RxShape
  <1>3. (IF rx[ctx.rxCur] = NoFrame \/ (RxHeld = 1 /\ RxSize = 1) THEN 0
         ELSE Distance(ctx.rxCur, mac.rx, RxSize)) = n + RxHeld - RxHeld
    BY <1>1, <1>2, RingsAssumption, CountOfRing DEF RxShape
  <1> QED
    BY <1>2, <1>3 DEF RxShape, RxCount

LEMMA RxCountedNext == (\A n : TypeOK /\ RxShape(n) => RxCount = n)'
  BY RxCounted, PTL

LEMMA StepRx ==
  TypeOK /\ TypeOK' /\ RxInv /\ [Next]_vars
    => RxInv' /\ [RxFifo!Next]_<<RxQueue, read>>
  <1> SUFFICES ASSUME TypeOK, TypeOK', RxInv, [Next]_vars
               PROVE  RxInv' /\ [RxFifo!Next]_<<RxQueue, read>>
    OBVIOUS
  <1> PICK n : n = RxCount
    OBVIOUS
  <1> DEFINE N == RxSize
             Goal == RxInv' /\ [RxFifo!Next]_<<RxQueue, read>>
  <1>0. /\ N \in Nat \ {0} /\ RxBds = 0..(N-1)
        /\ ctx.rxCur \in 0..(N-1) /\ ctx.rxDirty \in 0..(N-1) /\ mac.rx \in 0..(N-1)
        /\ ctx \in Pointers /\ mac \in MacState /\ irq \in IrqState
        /\ IsRing(rx, Received \cup {NoFrame}, N)
        /\ RxHeld \in 0..1
        /\ NoFrame \notin Received
    BY RingsAssumption, FramesAssumption
    DEF TypeOK, Pointers, MacState, RxBds, RxHeld, Received, IsRing
  <1>R. N \in Nat \ {0}
    BY <1>0
  <1>D. ctx.rxDirty \in 0..(N-1)
    BY <1>0
  <1>C. ctx.rxCur \in 0..(N-1)
    BY <1>0
  <1> PICK S : S = Received \cup {NoFrame}
    OBVIOUS
  <1>000. IsRing(rx, S, N) /\ Received \subseteq S
    BY <1>0
  <1>00. RxShape(n) /\ RxQueue = Contents(rx, ctx.rxCur, n, N)
    BY DEF RxInv, RxQueue
  <1>01. ASSUME NEW m, RxShape(m)'
         PROVE  RxInv' /\ RxQueue' = Contents(rx', ctx'.rxCur, m, N)
    <2>1. RxCount' = m
      BY <1>01, RxCountedNext
    <2> QED
      BY <1>01, <2>1 DEF RxInv, RxQueue
  <1>1. ASSUME RxSame PROVE Goal
    <2>1. RxShape(n)'
      BY <1>00, <1>1 DEF RxShape, RxSame
    <2>2. RxQueue' = RxQueue
      BY <1>00, <1>01, <1>1, <2>1 DEF RxSame
    <2> QED
      BY <1>01, <1>1, <2>1, <2>2 DEF RxSame
  <1>2. ASSUME NEW f \in Received, MacReceive(f) PROVE Goal
    <2>1. /\ Changed(rx', rx, mac.rx, f)
          /\ ctx' = ctx /\ irq' = irq /\ read' = read /\ RxHeld' = RxHeld
          /\ mac'.rx = NextRx(mac.rx)
          /\ rx[mac.rx] = NoFrame
      BY <1>0, <1>2 DEF MacReceive, MacState, RxHeld, Changed
    <2>2. n + RxHeld \in 0..(N-1) /\ n \in 0..(N-1)
      <3>1. CASE n + RxHeld = N
        <4>1. Offset(ctx.rxDirty, mac.rx, N) = 0 /\ 0 < n + RxHeld
          BY <1>0, <1>00, <3>1 DEF RxShape, Plus, Offset
        <4> QED
          BY <1>0, <1>00, <2>1, <4>1 DEF RxShape, Holds
      <3> QED
        BY <1>0, <1>00, <3>1 DEF RxShape
    <2>3. Holds(rx', ctx.rxDirty, n + RxHeld + 1, N)
      BY <1>0, <1>00, <2>1, <2>2, FillHolds DEF RxShape
    <2>4. mac'.rx = Plus(ctx.rxDirty, n + RxHeld + 1, N) /\ mac.rx = Plus(ctx.rxCur, n, N)
      <3>1. /\ n + RxHeld + 1 \in 0..N /\ n + RxHeld \in 0..N /\ 1 \in 0..N
            /\ n \in 0..N /\ RxHeld \in 0..N /\ RxHeld + n = n + RxHeld
        BY <1>0, <2>2
      <3>2. Plus(Plus(ctx.rxDirty, n + RxHeld, N), 1, N)
              = Plus(ctx.rxDirty, n + RxHeld + 1, N)
        BY <1>0, <2>2, <3>1 DEF Plus
      <3>3. Plus(Plus(ctx.rxDirty, RxHeld, N), n, N)
              = Plus(ctx.rxDirty, RxHeld + n, N)
        BY <1>R, <1>D, <2>2, <3>1 DEF Plus
      <3> QED
        BY <1>0, <1>00, <2>1, <3>1, <3>2, <3>3, NextIsPlus DEF RxShape
    <2>5. RxShape(n + 1)'
      BY <1>0, <1>00, <2>1, <2>2, <2>3, <2>4 DEF RxShape
    <2>6. Contents(rx', ctx.rxCur, n + 1, N) = Append(Contents(rx, ctx.rxCur, n, N), f)
      <3>1. f \in S
        BY <1>000
      <3>4. mac.rx = Plus(ctx.rxCur, n, N)
        BY <2>4
      <3>2. Changed(rx', rx, mac.rx, f)
        BY <2>1
      <3>3. n \in 0..(N-1)
        BY <2>2
      <3>5. Appended(rx', rx, ctx.rxCur, n, f, N)
        BY <1>R, <1>C, <1>000, <3>1, <3>2, <3>3, <3>4, FillContents
      <3> QED
        BY <3>5 DEF Appended
    <2>7. RxQueue' = Append(RxQueue, f)
      BY <1>00, <1>01, <2>1, <2>5, <2>6
    <2>8. Len(RxQueue) < N
      <3>1. n \in 0..N /\ n < N
        BY <1>0, <2>2
      <3>2. Len(Contents(rx, ctx.rxCur, n, N)) = n
        BY <1>R, <1>C, <1>000, <3>1, ContentsTyped
      <3> QED
        BY <1>00, <3>1, <3>2
    <2>9. RxFifo!Put(f)
      BY <2>1, <2>7, <2>8 DEF RxFifo!Put
    <2> QED
      BY <1>01, <2>5, <2>9 DEF RxFifo!Next
  <1>3. CASE RxRead
    <2>1. /\ rx' = rx /\ Changed(rx, rx, ctx.rxCur, rx[ctx.rxCur])
          /\ mac' = mac /\ RxHeld = 0 /\ RxHeld' = 1
          /\ ctx'.rxCur = NextRx(ctx.rxCur) /\ ctx'.rxDirty = ctx.rxDirty
          /\ ctx'.rxFull = (NextRx(ctx.rxCur) = ctx.rxDirty)
          /\ read' = rx[ctx.rxCur] /\ rx[ctx.rxCur] # NoFrame
      BY <1>0, <1>3 DEF RxRead, Pointers, IrqState, RxHeld, IsRing, Changed
    <2>2. ctx.rxCur = ctx.rxDirty /\ n \in 1..N
      <3>1. ctx.rxCur = ctx.rxDirty
        BY <1>0, <1>00, <2>1 DEF RxShape, Plus
      <3>2. Offset(ctx.rxDirty, ctx.rxDirty, N) = 0
        BY <1>0 DEF Offset
      <3> QED
        BY <1>0, <1>00, <2>1, <3>1, <3>2 DEF RxShape, Holds
    <2>3. RxShape(n - 1)'
      <3>1. /\ n - 1 \in Nat /\ n - 1 + 1 = n /\ n + RxHeld = n
        BY <2>1, <2>2
      <3>2. NextRx(ctx.rxDirty) = Plus(ctx.rxDirty, 1, N)
            /\ (NextRx(ctx.rxDirty) = ctx.rxDirty <=> N = 1)
        BY <1>0 DEF NextRx, Plus
      <3> QED
        BY <1>0, <1>00, <2>1, <2>2, <3>1, <3>2 DEF RxShape
    <2>4. /\ RxQueue # <<>>
          /\ Contents(rx, NextRx(ctx.rxCur), n - 1, N) = Tail(RxQueue)
          /\ Head(RxQueue) = rx[ctx.rxCur]
      BY <1>0, <1>00, <2>1, <2>2, PassFirst, NextIsPlus
    <2>5. RxQueue' = Tail(RxQueue)
      BY <1>00, <1>01, <2>1, <2>3, <2>4
    <2>6. RxFifo!Take
      BY <2>1, <2>4, <2>5 DEF RxFifo!Take
    <2> QED
      BY <1>01, <2>3, <2>6 DEF RxFifo!Next
  <1>4. ASSUME UpdateRx, RxHeld = 1, RxHeld' = 0, read' = read PROVE Goal
    <2>1. /\ Changed(rx', rx, ctx.rxDirty, NoFrame)
          /\ ctx'.rxCur = ctx.rxCur /\ ctx'.rxDirty = NextRx(ctx.rxDirty)
          /\ ctx'.rxFull = FALSE /\ mac'.rx = mac.rx
      BY <1>0, <1>4 DEF UpdateRx, Pointers, MacState, Changed
    <2>2. n \in 0..(N-1) /\ n + RxHeld = n + 1 /\ n + 1 \in 1..N /\ n + 1 - 1 = n
      BY <1>0, <1>00, <1>4 DEF RxShape
    <2>3. Holds(rx', NextRx(ctx.rxDirty), n, N)
      <3>1. Holds(rx, ctx.rxDirty, n + 1, N)
        BY <1>00, <2>2 DEF RxShape
      <3>2. Holds(rx', NextRx(ctx.rxDirty), n + 1 - 1, N)
        BY <1>0, <2>1, <2>2, <3>1, EmptyFirst, NextIsPlus
      <3> QED
        BY <2>2, <3>2
    <2>4. /\ ctx.rxCur = Plus(NextRx(ctx.rxDirty), 0, N)
          /\ mac.rx = Plus(NextRx(ctx.rxDirty), n, N)
          /\ ctx.rxDirty = Plus(ctx.rxCur, N - 1, N)
      <3>1. /\ NextRx(ctx.rxDirty) = Plus(ctx.rxDirty, 1, N)
            /\ Plus(ctx.rxDirty, 1, N) \in 0..(N-1)
        BY <1>0, NextIsPlus DEF Plus
      <3>2. /\ 1 \in 0..N /\ n \in 0..N /\ 1 + n <= N /\ 1 + n = n + RxHeld
        BY <1>0, <1>4, <2>2
      <3>3. Plus(Plus(ctx.rxDirty, 1, N), n, N) = Plus(ctx.rxDirty, 1 + n, N)
        BY <1>0, <3>2, PlusPlus
      <3>4. Plus(Plus(ctx.rxDirty, 1, N), 0, N) = Plus(ctx.rxDirty, 1, N)
        BY <1>0, <3>1 DEF Plus
      <3>5. Plus(Plus(ctx.rxDirty, 1, N), N - 1, N) = ctx.rxDirty
        BY <1>0, <3>2 DEF Plus
      <3> QED
        BY <1>00, <1>4, <3>1, <3>2, <3>3, <3>4, <3>5 DEF RxShape
    <2>5. RxShape(n)'
      BY <1>0, <1>4, <2>1, <2>2, <2>3, <2>4 DEF RxShape
    <2>6. Contents(rx', ctx.rxCur, n, N) = Contents(rx, ctx.rxCur, n, N)
      BY <1>0, <2>1, <2>2, <2>4, OutsideContents
    <2>7. RxQueue' = RxQueue
      BY <1>00, <1>01, <2>1, <2>5, <2>6
    <2> QED
      BY <1>01, <1>4, <2>5, <2>7
  <1>5. CASE RxDiscard \/ InputReturns
    BY <1>0, <1>4, <1>5 DEF RxDiscard, InputReturns, RxHeld, IrqState
  <1>6. CASE RxIrq \/ RxTest \/ RxEmpty \/ TxIrq \/ TxTest \/ TxCleaned
    <2>1. RxSame
      <3>1. CASE RxIrq \/ TxIrq
        BY <1>0, <3>1 DEF RxIrq, TxIrq, Interruptible, RxSame, RxHeld, IrqState
      <3>2. CASE RxTest \/ RxEmpty
        BY <1>0, <3>2 DEF RxTest, RxEmpty, RxSame, RxHeld, IrqState, MacState
      <3>3. CASE TxTest
        BY <1>0, <3>3 DEF TxTest, RxSame, RxHeld, IrqState, MacState
      <3>4. CASE TxCleaned
        BY <1>0, <3>4 DEF TxCleaned, RxSame, RxHeld, IrqState
      <3> QED
        BY <1>6, <3>1, <3>2, <3>3, <3>4
    <2> QED
      BY <1>1, <2>1
  <1>7. CASE MacRxStops \/ MacTransmit \/ MacTxStops \/ TxClean
    <2>1. RxSame
      BY <1>0, <1>7 DEF MacRxStops, MacTransmit, MacTxStops, TxClean,
                        RxSame, RxHeld, Pointers, MacState
    <2> QED
      BY <1>1, <2>1
  <1>8. ASSUME NEW c \in Contexts, (\E f \in Frames : Output(c, f)) \/ Sending(c)
        PROVE  Goal
    <2>1. RxSame
      BY <1>0, <1>8
      DEF Output, Sending, Copy, TestFull, SetReady, Advance, Compare, StoreFull,
          Activate, RxSame, RxHeld, Pointers, MacState
    <2> QED
      BY <1>1, <2>1
  <1>9. CASE UNCHANGED vars
    <2>1. RxSame
      BY <1>9 DEF vars, RxSame, RxHeld
    <2> QED
      BY <1>1, <2>1
  <1> QED
    BY <1>2, <1>3, <1>5, <1>6, <1>7, <1>8, <1>9 DEF Next, Receiving, Cleaning

LEMMA InitRx == Init => RxInv /\ RxFifo!Init
  <1> SUFFICES ASSUME Init PROVE RxInv /\ RxFifo!Init
    OBVIOUS
  <1>1. RxCount = 0 /\ RxHeld = 0
    BY RingsAssumption DEF Init, RxCount, RxHeld, RxBds
  <1>2. Holds(rx, 0, 0, RxSize)
    BY RingsAssumption DEF Init, RxBds, Holds, Offset
  <1>3. RxInv
    BY <1>1, <1>2, RingsAssumption DEF Init, RxInv, RxShape, Plus
  <1>4. RxQueue = <<>>
    BY <1>1 DEF RxQueue, Contents
  <1> QED
    BY <1>3, <1>4 DEF RxFifo!Init

(* The receive ring implements a queue: no frame is lost, doubled or read   *)
(* out of order between the MAC and the driver.                             *)
THEOREM ReceiveRingIsFifo == Spec => ReceivesInOrder
  BY InitRx, StepRx, RingsTyped, PTL DEF Spec, ReceivesInOrder, RxFifo!Spec

-----------------------------------------------------------------------------
(* The transmit ring, as long as the main loop is not interrupted while it  *)
(* sends: then one call at most is in progress, and no clean-up meanwhile.  *)

CallInv ==
    /\ \A c \in Contexts : call[c].pc # "idle" => call[c].frame \in Frames
    /\ call["irq"].pc # "idle" => irq.pc = "input"
    /\ irq.pc # "idle" => call["main"].pc = "idle"

LEMMA InitCall == Init => CallInv
  BY DEF Init, CallInv, Contexts, NoCall

LEMMA StepCall ==
  ~Preempted /\ TypeOK /\ TypeOK' /\ CallInv /\ [Next]_vars => CallInv'
  <1> SUFFICES ASSUME ~Preempted, TypeOK, TypeOK', CallInv, [Next]_vars PROVE CallInv'
    OBVIOUS
  <1> USE DEF CallInv
  <1>0. call \in [Contexts -> Call] /\ irq \in IrqState /\ "main" \in Contexts
        /\ "irq" \in Contexts
    BY DEF TypeOK, Contexts
  <1>1. CASE \/ \E f \in Received : MacReceive(f)
             \/ MacRxStops \/ MacTransmit \/ MacTxStops \/ TxClean
    BY <1>1 DEF MacReceive, MacRxStops, MacTransmit, MacTxStops, TxClean
  <1>2. CASE RxIrq \/ TxIrq
    BY <1>0, <1>2 DEF RxIrq, TxIrq, Interruptible, IrqState
  <1>3. CASE RxTest \/ RxEmpty \/ RxRead \/ RxDiscard \/ InputReturns
    BY <1>0, <1>3 DEF RxTest, RxEmpty, RxRead, RxDiscard, InputReturns, IrqState
  <1>4. CASE TxTest \/ TxCleaned
    BY <1>0, <1>4 DEF TxTest, TxCleaned, IrqState
  <1>5. ASSUME NEW c \in Contexts, (\E f \in Frames : Output(c, f)) \/ Sending(c)
        PROVE  CallInv'
    <2>1. /\ irq' = irq /\ MayRun(c)
          /\ \A e \in Contexts \ {c} : call'[e] = call[e]
          /\ call'[c].pc # "idle" => call'[c].frame \in Frames
      <3>1. ASSUME NEW f \in Frames, Output(c, f)
            PROVE  /\ irq' = irq /\ MayRun(c)
                   /\ \A e \in Contexts \ {c} : call'[e] = call[e]
                   /\ call'[c].frame \in Frames
        BY <1>0, <3>1 DEF Output, NoCall, At
      <3>2. CASE Copy(c) \/ SetReady(c) \/ Advance(c) \/ StoreFull(c)
        BY <1>0, <3>2 DEF Copy, SetReady, Advance, StoreFull, At, Call
      <3>3. CASE Compare(c)
        BY <1>0, <3>3 DEF Compare, At, Call
      <3>4. CASE TestFull(c)
        <4>1. NoCall.pc = "idle"
          BY DEF NoCall
        <4> QED
          BY <1>0, <3>4, <4>1 DEF TestFull, At, Call
      <3>5. CASE Activate(c)
        <4>1. NoCall.pc = "idle"
          BY DEF NoCall
        <4> QED
          BY <1>0, <3>5, <4>1 DEF Activate, At, Call
      <3> QED
        BY <1>5, <3>1, <3>2, <3>3, <3>4, <3>5 DEF Sending
    <2>2. c = "main" => irq.pc = "idle"
      BY <2>1 DEF MayRun, MainRuns
    <2>3. c # "main" => c = "irq" /\ irq.pc = "input"
      BY <2>1 DEF MayRun, Contexts
    <2> QED
      BY <1>0, <2>1, <2>2, <2>3
  <1>6. CASE UNCHANGED vars
    BY <1>6 DEF vars
  <1> QED
    BY <1>1, <1>2, <1>3, <1>4, <1>5, <1>6 DEF Next, Receiving, Cleaning

(* d descriptors are sent and not cleaned up, and then n wait to be sent.   *)
TxShape(d, n) ==
    /\ d \in Nat /\ n \in Nat
    /\ d + n <= TxSize
    /\ mac.tx = Plus(ctx.txDirty, d, TxSize)
    /\ TxEnd = Plus(ctx.txDirty, d + n, TxSize)
    /\ Holds(tx, mac.tx, n, TxSize)

(* isTxBdFull says that all k = TxSize descriptors are in use, except while *)
(* ENET_DRV_SendData has used one more and not looked yet.                  *)
FullInv(k) ==
    /\ (\A c \in Contexts : call[c].pc \notin {"advance", "compare", "store"})
         => (ctx.txFull <=> k = TxSize)
    /\ \A c \in Contexts :
         /\ call[c].pc \in {"advance", "compare", "store"} => ~ctx.txFull /\ k >= 1
         /\ call[c].pc = "ready" => ~ctx.txFull /\ call[c].bd = ctx.txCur
         /\ call[c].pc = "store" => (call[c].full <=> ctx.txCur = ctx.txDirty)

TxInv == CallInv /\ \E d : TxShape(d, TxCount) /\ FullInv(d + TxCount)

LEMMA TxCounted == \A d, n : TypeOK /\ TxShape(d, n) => TxCount = n
  <1> SUFFICES ASSUME NEW d, NEW n, TypeOK, TxShape(d, n) PROVE TxCount = n
    OBVIOUS
  <1>1. TxSize \in Nat \ {0} /\ mac.tx \in 0..(TxSize - 1)
        /\ ctx.txDirty \in 0..(TxSize - 1)
    BY RingsAssumption DEF TypeOK, MacState, Pointers, TxBds
  <1>2. d \in Nat /\ n \in 0..TxSize /\ d + n <= TxSize
    BY <1>1 DEF TxShape
  <1>3. Offset(mac.tx, mac.tx, TxSize) = 0
    BY <1>1 DEF Offset
  <1>4. tx[mac.tx] # NoFrame <=> 0 < n
    BY <1>1, <1>3 DEF TxShape, Holds
  <1>5. n > 0 => Distance(mac.tx, TxEnd, TxSize) = n
    BY <1>1, <1>2 DEF TxShape, Plus, Distance
  <1> QED
    BY <1>2, <1>4, <1>5 DEF TxCount

LEMMA TxCountedNext == (\A d, n : TypeOK /\ TxShape(d, n) => TxCount = n)'
  BY TxCounted, PTL

LEMMA StepTx ==
  ~Preempted /\ TypeOK /\ TypeOK' /\ TxInv /\ CallInv' /\ [Next]_vars
    => TxInv' /\ [TxFifo!Next]_<<TxQueue, wire.frame>>
  <1> SUFFICES ASSUME ~Preempted, TypeOK, TypeOK', TxInv, CallInv', [Next]_vars
               PROVE  TxInv' /\ [TxFifo!Next]_<<TxQueue, wire.frame>>
    OBVIOUS
  <1> PICK d : TxShape(d, TxCount) /\ FullInv(d + TxCount)
    BY DEF TxInv
  <1> PICK n : n = TxCount
    OBVIOUS
  <1> DEFINE N == TxSize
             Goal == TxInv' /\ [TxFifo!Next]_<<TxQueue, wire.frame>>
             OneCall(c) == \A e \in Contexts \ {c} : call[e].pc = "idle"
                                                     /\ call'[e] = call[e]
  <1>00. TxShape(d, n) /\ FullInv(d + n) /\ CallInv
         /\ TxQueue = Contents(tx, mac.tx, n, N)
    BY DEF TxInv, TxQueue
  <1>R. N \in Nat \ {0}
    BY RingsAssumption
  <1>D. ctx.txDirty \in 0..(N-1)
    BY DEF TypeOK, Pointers, TxBds
  <1>M. mac.tx \in 0..(N-1)
    BY DEF TypeOK, MacState, TxBds
  <1>C. ctx.txCur \in 0..(N-1)
    BY DEF TypeOK, Pointers, TxBds
  <1>N. d \in 0..N /\ n \in 0..N /\ d + n \in 0..N
    BY <1>00, <1>R DEF TxShape
  <1>0. /\ ctx \in Pointers /\ mac \in MacState /\ irq \in IrqState
        /\ call \in [Contexts -> Call] /\ TxBds = 0..(N-1)
        /\ NoFrame \notin Frames
    BY FramesAssumption DEF TypeOK, TxBds
  <1> PICK S : S = Frames \cup {NoFrame}
    OBVIOUS
  <1>S. IsRing(tx, S, N) /\ Frames \subseteq S
    BY DEF TypeOK, IsRing, TxBds
  <1>01. ASSUME NEW e, NEW m, TxShape(e, m)'
         PROVE  /\ FullInv(e + m)' => TxInv'
                /\ TxQueue' = Contents(tx', mac'.tx, m, N)
    <2>1. TxCount' = m
      BY <1>01, TxCountedNext
    <2> QED
      BY <1>01, <2>1 DEF TxInv, TxQueue
  <1>1. ASSUME /\ tx' = tx /\ wire' = wire /\ TxEnd' = TxEnd
               /\ mac'.tx = mac.tx /\ ctx'.txDirty = ctx.txDirty
               /\ FullInv(d + n)'
        PROVE  Goal
    <2>1. TxShape(d, n)'
      BY <1>00, <1>1 DEF TxShape
    <2> QED
      BY <1>00, <1>01, <1>1, <2>1
  <1>2. ASSUME /\ tx' = tx /\ wire' = wire /\ call' = call
               /\ mac'.tx = mac.tx /\ ctx'.txDirty = ctx.txDirty
               /\ ctx'.txCur = ctx.txCur /\ ctx'.txFull = ctx.txFull
        PROVE  Goal
    <2>1. TxEnd' = TxEnd
      BY <1>2 DEF TxEnd
    <2>2. FullInv(d + n)'
      BY <1>00, <1>2 DEF FullInv
    <2> QED
      BY <1>1, <1>2, <2>1, <2>2
  <1>3. CASE \/ \E f \in Received : MacReceive(f)
             \/ MacRxStops \/ MacTxStops
             \/ RxIrq \/ Receiving \/ TxIrq \/ TxTest \/ TxCleaned
             \/ UNCHANGED vars
    <2>1. CASE (\E f \in Received : MacReceive(f)) \/ MacRxStops \/ MacTxStops
      BY <1>0, <1>2, <2>1 DEF MacReceive, MacRxStops, MacTxStops, MacState
    <2>2. CASE RxIrq \/ TxIrq \/ TxCleaned \/ UNCHANGED vars
      BY <1>2, <2>2 DEF RxIrq, TxIrq, TxCleaned, vars
    <2>3. CASE RxTest \/ RxEmpty \/ RxRead
      BY <1>0, <1>2, <2>3 DEF RxTest, RxEmpty, RxRead, MacState, Pointers
    <2>4. CASE RxDiscard \/ InputReturns
      BY <1>0, <1>2, <2>4
      DEF RxDiscard, InputReturns, UpdateRx, MacState, Pointers
    <2>5. CASE TxTest
      BY <1>0, <1>2, <2>5 DEF TxTest, MacState
    <2> QED
      BY <1>3, <2>1, <2>2, <2>3, <2>4, <2>5 DEF Receiving
  <1>4. CASE MacTransmit
    <2>1. /\ Changed(tx', tx, mac.tx, NoFrame) /\ ctx' = ctx /\ call' = call
          /\ mac'.tx = NextTx(mac.tx) /\ wire'.frame = tx[mac.tx]
          /\ tx[mac.tx] # NoFrame /\ TxEnd' = TxEnd
      BY <1>0, <1>4 DEF MacTransmit, MacState, Changed, TxEnd
    <2>2. n \in 1..N
      <3>1. Offset(mac.tx, mac.tx, N) = 0
        BY <1>M DEF Offset
      <3> QED
        BY <1>00, <1>M, <1>N, <2>1, <3>1 DEF TxShape, Holds
    <2>3. NextTx(mac.tx) = Plus(mac.tx, 1, N)
      BY <1>0, <1>M, NextIsPlus
    <2>4. Plus(Plus(ctx.txDirty, d, N), 1, N) = Plus(ctx.txDirty, d + 1, N)
      BY <1>D, <1>N, <1>R, <1>00, <2>2 DEF TxShape, Plus
    <2>5. Holds(tx', NextTx(mac.tx), n - 1, N)
      <3>1. Holds(tx, mac.tx, n, N) /\ Changed(tx', tx, mac.tx, NoFrame)
        BY <1>00, <2>1 DEF TxShape
      <3> QED
        BY <1>M, <1>R, <1>S, <2>2, <2>3, <3>1, EmptyFirst
    <2>6. d + 1 + (n - 1) = d + n /\ d + 1 \in Nat /\ n - 1 \in Nat
      BY <1>N, <2>2
    <2>7. TxShape(d + 1, n - 1)'
      BY <1>00, <2>1, <2>3, <2>4, <2>5, <2>6 DEF TxShape
    <2>8. FullInv(d + 1 + (n - 1))'
      BY <1>00, <2>1, <2>6 DEF FullInv
    <2>9. /\ TxQueue # <<>> /\ Head(TxQueue) = tx[mac.tx]
          /\ Contents(tx', NextTx(mac.tx), n - 1, N) = Tail(TxQueue)
      <3>1. Changed(tx', tx, mac.tx, NoFrame)
        BY <2>1
      <3> QED
        BY <1>00, <1>M, <1>R, <1>S, <2>2, <2>3, <3>1, PassFirst
    <2>10. TxQueue' = Tail(TxQueue)
      BY <1>01, <2>1, <2>7, <2>9
    <2>11. TxFifo!Take
      BY <2>1, <2>9, <2>10 DEF TxFifo!Take
    <2> QED
      BY <1>01, <2>7, <2>8, <2>11 DEF TxFifo!Next
  <1>5. CASE TxClean
    <2>1. /\ tx' = tx /\ mac' = mac /\ wire' = wire /\ call' = call
          /\ ctx'.txDirty = NextTx(ctx.txDirty) /\ ctx'.txFull = FALSE
          /\ ctx'.txCur = ctx.txCur /\ Done /\ irq.pc = "txclean"
      BY <1>0, <1>5 DEF TxClean, Pointers
    <2>2. \A c \in Contexts : call[c].pc = "idle"
      BY <1>00, <2>1 DEF CallInv, Contexts
    <2>3. TxEnd = ctx.txCur /\ TxEnd' = TxEnd /\ (ctx.txFull <=> d + n = N)
      BY <1>00, <2>1, <2>2 DEF FullInv, TxEnd
    <2>4. d >= 1
      <3>1. d + n >= 1
        BY <1>R, <1>00, <1>N, <1>D, <2>1, <2>3 DEF TxShape, Done, Plus
      <3>2. CASE d = 0
        <4>1. mac.tx = ctx.txDirty /\ Offset(mac.tx, mac.tx, N) = 0 /\ 0 < n
          BY <1>R, <1>00, <1>D, <1>M, <1>N, <3>1, <3>2 DEF TxShape, Plus, Offset
        <4>2. tx[mac.tx] # NoFrame
          BY <1>00, <1>M, <4>1 DEF TxShape, Holds
        <4> QED
          BY <2>1, <4>1, <4>2 DEF Done
      <3> QED
        BY <1>N, <3>2
    <2>5. /\ Plus(Plus(ctx.txDirty, 1, N), d - 1, N) = Plus(ctx.txDirty, d, N)
          /\ Plus(Plus(ctx.txDirty, 1, N), d - 1 + n, N) = Plus(ctx.txDirty, d + n, N)
      BY <1>D, <1>N, <1>R, <2>4 DEF Plus
    <2>6. NextTx(ctx.txDirty) = Plus(ctx.txDirty, 1, N)
      BY <1>0, <1>D, NextIsPlus
    <2>7. d - 1 \in Nat /\ n \in Nat /\ d - 1 + n < N
      BY <1>R, <1>N, <2>4
    <2>8. TxShape(d - 1, n)'
      BY <1>R, <1>00, <2>1, <2>3, <2>5, <2>6, <2>7 DEF TxShape
    <2>9. FullInv(d - 1 + n)'
      BY <1>N, <2>1, <2>2, <2>7 DEF FullInv
    <2>10. TxQueue' = TxQueue
      BY <1>00, <1>01, <2>1, <2>8
    <2> QED
      BY <1>01, <2>1, <2>8, <2>9, <2>10
  <1>6. ASSUME NEW c \in Contexts, (\E f \in Frames : Output(c, f)) \/ Sending(c)
        PROVE  \A e \in Contexts \ {c} : call[e].pc = "idle" /\ call'[e] = call[e]
    <2>1. /\ \A e \in Contexts \ {c} : call'[e] = call[e]
          /\ MayRun(c)
      BY <1>0, <1>6 DEF Output, Sending, Copy, TestFull, SetReady, Advance, Compare,
                        StoreFull, Activate, At
    <2>2. c = "main" => irq.pc = "idle"
      BY <2>1 DEF MayRun, MainRuns
    <2>3. c # "main" => c = "irq" /\ irq.pc = "input"
      BY <2>1 DEF MayRun, Contexts
    <2>4. Contexts = {"main", "irq"}
      BY DEF Contexts
    <2> QED
      BY <1>00, <2>1, <2>2, <2>3, <2>4 DEF CallInv
  \* A step that changes only the call: only where it stands matters.
  <1>7. ASSUME NEW c \in Contexts,
               \A e \in Contexts \ {c} : call[e].pc = "idle" /\ call'[e] = call[e],
               call[c].pc # "advance" <=> call'[c].pc # "advance",
               tx' = tx, wire' = wire, mac' = mac, ctx' = ctx
        PROVE  /\ FullInv(d + n)' => Goal
               /\ TxEnd = IF call[c].pc = "advance" THEN NextTx(ctx.txCur)
                          ELSE ctx.txCur
    <2>1. (\E e \in Contexts : call[e].pc = "advance") <=> call[c].pc = "advance"
      BY <1>7
    <2>2. (\E e \in Contexts : call'[e].pc = "advance") <=> call'[c].pc = "advance"
      BY <1>7
    <2>3. TxEnd' = TxEnd
      BY <1>7, <2>1, <2>2 DEF TxEnd
    <2> QED
      BY <1>1, <1>7, <2>1, <2>3 DEF TxEnd
  <1>8. ASSUME NEW c \in Contexts, NEW f \in Frames, Output(c, f) PROVE Goal
    <2>1. call[c].pc = "idle" /\ call'[c].pc = "copy"
      BY <1>0, <1>8 DEF Output, At, NoCall
    <2>2. FullInv(d + n)'
      BY <1>00, <1>6, <1>8, <2>1 DEF FullInv, Output
    <2> QED
      BY <1>6, <1>7, <1>8, <2>1, <2>2 DEF Output
  <1>9. ASSUME NEW c \in Contexts, Copy(c) PROVE Goal
    <2>1. call[c].pc = "copy" /\ call'[c].pc = "test"
      BY <1>0, <1>9 DEF Copy, At, Call
    <2>2. FullInv(d + n)'
      BY <1>00, <1>6, <1>9, <2>1 DEF FullInv, Copy, Sending
    <2> QED
      BY <1>6, <1>7, <1>9, <2>1, <2>2 DEF Copy, Sending
  <1>10. ASSUME NEW c \in Contexts, TestFull(c) PROVE Goal
    <2>1. /\ call[c].pc = "test" /\ ctx' = ctx
          /\ ctx.txFull => call'[c].pc = "idle"
          /\ ~ctx.txFull => call'[c].pc = "ready" /\ call'[c].bd = ctx.txCur
      BY <1>0, <1>10 DEF TestFull, At, Call, NoCall
    <2>2. FullInv(d + n)'
      BY <1>00, <1>6, <1>10, <2>1 DEF FullInv, TestFull, Sending
    <2>3. call'[c].pc # "advance"
      BY <2>1
    <2> QED
      BY <1>6, <1>7, <1>10, <2>1, <2>2, <2>3 DEF TestFull, Sending
  <1>11. ASSUME NEW c \in Contexts, SetReady(c) PROVE Goal
    <2>1. /\ call[c].pc = "ready" /\ call'[c].pc = "advance"
          /\ call[c].bd = ctx.txCur /\ ~ctx.txFull /\ call[c].frame \in Frames
          /\ ctx' = ctx /\ mac' = mac /\ wire' = wire
          /\ Changed(tx', tx, ctx.txCur, call[c].frame)
      BY <1>0, <1>00, <1>11 DEF SetReady, At, Call, FullInv, CallInv, Changed
    <2>2. TxEnd = ctx.txCur /\ TxEnd' = NextTx(ctx.txCur) /\ d + n # N
      BY <1>00, <1>6, <1>11, <2>1 DEF FullInv, TxEnd, Sending
    <2>3. d + n \in 0..(N-1) /\ n \in 0..(N-1) /\ d + (n + 1) = d + n + 1
      BY <1>R, <1>N, <2>2
    <2>4. /\ Plus(Plus(ctx.txDirty, d, N), n, N) = Plus(ctx.txDirty, d + n, N)
          /\ Plus(Plus(ctx.txDirty, d + n, N), 1, N) = Plus(ctx.txDirty, d + n + 1, N)
      BY <1>D, <1>N, <1>R, <2>3 DEF Plus
    <2>5. ctx.txCur = Plus(mac.tx, n, N) /\ NextTx(ctx.txCur) = Plus(ctx.txCur, 1, N)
      BY <1>0, <1>00, <1>C, <2>2, <2>4, NextIsPlus DEF TxShape
    <2>6. Holds(tx', mac.tx, n + 1, N)
      <3>1. Holds(tx, mac.tx, n, N) /\ call[c].frame # NoFrame
        BY <1>0, <1>00, <2>1 DEF TxShape
      <3>2. Changed(tx', tx, ctx.txCur, call[c].frame) /\ n \in 0..(N-1)
        BY <2>1, <2>3
      <3> QED
        BY <1>M, <1>R, <1>S, <2>5, <3>1, <3>2, FillHolds
    <2>7. n + 1 \in Nat /\ d \in Nat /\ d + (n + 1) <= N
      BY <1>R, <1>N, <2>3
    <2>8. TxShape(d, n + 1)'
      BY <1>00, <2>1, <2>2, <2>3, <2>4, <2>5, <2>6, <2>7 DEF TxShape
    <2>9. FullInv(d + (n + 1))'
      <3>1. d + (n + 1) >= 1
        BY <1>N
      <3> QED
        BY <1>6, <1>11, <2>1, <3>1 DEF FullInv, Sending
    <2>10. Contents(tx', mac.tx, n + 1, N)
             = Append(Contents(tx, mac.tx, n, N), call[c].frame)
      <3>1. call[c].frame \in S
        BY <1>S, <2>1
      <3>2. Changed(tx', tx, ctx.txCur, call[c].frame)
        BY <2>1
      <3>3. n \in 0..(N-1)
        BY <2>3
      <3>4. ctx.txCur = Plus(mac.tx, n, N)
        BY <2>5
      <3>5. Appended(tx', tx, mac.tx, n, call[c].frame, N)
        BY <1>R, <1>M, <1>S, <3>1, <3>2, <3>3, <3>4, FillContents
      <3> QED
        BY <3>5 DEF Appended
    <2>11. TxQueue' = Append(TxQueue, call[c].frame)
      BY <1>00, <1>01, <2>1, <2>8, <2>10
    <2>12. Len(TxQueue) < N
      <3>1. n \in 0..N /\ n < N
        BY <1>R, <2>3
      <3>2. Len(Contents(tx, mac.tx, n, N)) = n
        BY <1>R, <1>M, <1>S, <3>1, ContentsTyped
      <3> QED
        BY <1>00, <3>1, <3>2
    <2>13. TxFifo!Put(call[c].frame)
      BY <2>1, <2>11, <2>12 DEF TxFifo!Put
    <2> QED
      BY <1>01, <2>1, <2>8, <2>9, <2>13 DEF TxFifo!Next
  <1>12. ASSUME NEW c \in Contexts, Advance(c) PROVE Goal
    <2>1. /\ call[c].pc = "advance" /\ call'[c].pc = "compare"
          /\ tx' = tx /\ mac' = mac /\ wire' = wire
          /\ ctx'.txDirty = ctx.txDirty /\ ctx'.txFull = ctx.txFull
          /\ ctx'.txCur = NextTx(ctx.txCur)
      BY <1>0, <1>12 DEF Advance, At, Call, Pointers
    <2>2. TxEnd' = TxEnd
      BY <1>6, <1>12, <2>1 DEF TxEnd, Sending
    <2>3. FullInv(d + n)'
      BY <1>00, <1>6, <1>12, <2>1 DEF FullInv, Sending
    <2> QED
      BY <1>1, <2>1, <2>2, <2>3
  <1>13. ASSUME NEW c \in Contexts, Compare(c) PROVE Goal
    <2>1. /\ call[c].pc = "compare" /\ call'[c].pc = "store" /\ ctx' = ctx
          /\ call'[c].full = (ctx.txCur = ctx.txDirty)
      BY <1>0, <1>13 DEF Compare, At, Call
    <2>2. FullInv(d + n)'
      BY <1>00, <1>6, <1>13, <2>1 DEF FullInv, Compare, Sending
    <2> QED
      BY <1>6, <1>7, <1>13, <2>1, <2>2 DEF Compare, Sending
  <1>14. ASSUME NEW c \in Contexts, StoreFull(c) PROVE Goal
    <2>1. /\ call[c].pc = "store" /\ call'[c].pc = "activate"
          /\ tx' = tx /\ mac' = mac /\ wire' = wire
          /\ ctx'.txDirty = ctx.txDirty /\ ctx'.txCur = ctx.txCur
          /\ ctx'.txFull = call[c].full
          /\ (call[c].full <=> ctx.txCur = ctx.txDirty) /\ d + n >= 1
      BY <1>0, <1>00, <1>14 DEF StoreFull, At, Call, Pointers, FullInv
    <2>2. TxEnd = ctx.txCur /\ TxEnd' = TxEnd
      BY <1>6, <1>14, <2>1 DEF TxEnd, Sending
    <2>3. ctx.txCur = ctx.txDirty <=> d + n = N
      BY <1>R, <1>00, <1>N, <1>D, <2>1, <2>2 DEF TxShape, Plus
    <2>4. FullInv(d + n)'
      BY <1>6, <1>14, <2>1, <2>3 DEF FullInv, Sending
    <2> QED
      BY <1>1, <2>1, <2>2, <2>4
  <1>15. ASSUME NEW c \in Contexts, Activate(c) PROVE Goal
    <2>1. /\ call[c].pc = "activate" /\ call'[c].pc = "idle" /\ ctx' = ctx
          /\ tx' = tx /\ wire' = wire /\ mac'.tx = mac.tx
      BY <1>0, <1>15 DEF Activate, At, Call, NoCall, MacState
    <2>2. TxEnd' = TxEnd
      BY <1>6, <1>15, <2>1 DEF TxEnd, Sending
    <2>3. FullInv(d + n)'
      BY <1>00, <1>6, <1>15, <2>1 DEF FullInv, Sending
    <2> QED
      BY <1>1, <2>1, <2>2, <2>3
  <1> QED
    BY <1>3, <1>4, <1>5, <1>8, <1>9, <1>10, <1>11, <1>12, <1>13, <1>14, <1>15
    DEF Next, Cleaning, Sending

LEMMA InitTx == Init => TxInv /\ TxFifo!Init
  <1> SUFFICES ASSUME Init PROVE TxInv /\ TxFifo!Init
    OBVIOUS
  <1>1. TxCount = 0 /\ TxEnd = 0
    BY RingsAssumption DEF Init, TxCount, TxEnd, TxBds, NoCall
  <1>2. Holds(tx, 0, 0, TxSize)
    BY RingsAssumption DEF Init, TxBds, Holds, Offset
  <1>3. TxShape(0, 0)
    BY <1>1, <1>2, RingsAssumption DEF Init, TxShape, Plus
  <1>4. FullInv(0)
    BY RingsAssumption DEF Init, FullInv, NoCall
  <1>5. TxQueue = <<>>
    BY <1>1 DEF TxQueue, Contents
  <1>6. TxShape(0, TxCount) /\ FullInv(0 + TxCount)
    BY <1>1, <1>3, <1>4
  <1> QED
    BY <1>5, <1>6, InitCall DEF TxInv, TxFifo!Init

(* As long as the main loop is not interrupted while it sends, the transmit *)
(* ring implements a queue: isTxBdFull tells full from empty, and no frame  *)
(* is overwritten, sent twice or sent out of order.                         *)
THEOREM TransmitRingIsFifo == ~Preempted => (Spec => SendsInOrder)
  <1> SUFFICES ASSUME ~Preempted PROVE Spec => SendsInOrder
    OBVIOUS
  <1>1. TypeOK /\ TypeOK' /\ TxInv /\ [Next]_vars
          => TxInv' /\ [TxFifo!Next]_<<TxQueue, wire.frame>>
    <2>1. TxInv => CallInv
      BY DEF TxInv
    <2> QED
      BY <2>1, StepCall, StepTx
  <1> QED
    BY <1>1, InitTx, RingsTyped, PTL DEF Spec, SendsInOrder, TxFifo!Spec

-----------------------------------------------------------------------------
(* What the transmit buffers hold.                                          *)

\* The frame that is being sent is copied to the buffer it is made ready in.
SpoilInv ==
    /\ SpoiltOnlyWhenFull
    /\ \A c \in Contexts :
         /\ call[c].pc \in {"copy", "test"} => call[c].bd = ctx.txCur
         /\ call[c].pc \in {"test", "ready"} => data[call[c].bd] = call[c].frame

LEMMA InitSpoil == Init => SpoilInv
  BY DEF Init, SpoilInv, SpoiltOnlyWhenFull, NoCall

LEMMA OffsetBetween ==
  ASSUME NEW N \in Nat \ {0}, NEW a \in 0..(N-1), NEW d \in Nat, NEW n \in Nat,
         d + n \in 0..(N-1)
  PROVE  Offset(Plus(a, d, N), Plus(a, d + n, N), N) = n
  BY DEF Plus, Offset

\* A full ring begins and ends at txCur, which is free in any other.
LEMMA CurrentIsFree ==
  ASSUME TypeOK, TxInv,
         \A c \in Contexts : call[c].pc \notin {"advance", "compare", "store"}
  PROVE  /\ ctx.txFull => ctx.txDirty = ctx.txCur
         /\ ~ctx.txFull => tx[ctx.txCur] = NoFrame
  <1> PICK d : TxShape(d, TxCount) /\ FullInv(d + TxCount)
    BY DEF TxInv
  <1> PICK n : n = TxCount
    OBVIOUS
  <1>1. TxSize \in Nat \ {0} /\ mac.tx \in 0..(TxSize - 1)
        /\ ctx.txDirty \in 0..(TxSize - 1) /\ ctx.txCur \in 0..(TxSize - 1)
    BY RingsAssumption DEF TypeOK, MacState, Pointers, TxBds
  <1>2. d \in Nat /\ n \in Nat /\ d + n <= TxSize
    BY DEF TxShape
  <1>3. TxEnd = ctx.txCur
    BY DEF TxEnd
  <1>4. ctx.txFull <=> d + n = TxSize
    BY DEF FullInv
  <1>5. ctx.txCur = Plus(ctx.txDirty, d + n, TxSize)
        /\ mac.tx = Plus(ctx.txDirty, d, TxSize)
    BY <1>3 DEF TxShape
  <1>6. ctx.txFull => ctx.txDirty = ctx.txCur
    BY <1>1, <1>2, <1>4, <1>5 DEF Plus
  <1>7. ASSUME ~ctx.txFull PROVE tx[ctx.txCur] = NoFrame
    <2>1. Offset(mac.tx, ctx.txCur, TxSize) = n
      <3>1. d + n \in 0..(TxSize - 1)
        BY <1>1, <1>2, <1>4, <1>7
      <3> QED
        BY <1>1, <1>2, <1>5, <3>1, OffsetBetween
    <2>2. Holds(tx, mac.tx, n, TxSize)
      BY DEF TxShape
    <2> QED
      BY <1>1, <1>2, <2>1, <2>2 DEF Holds
  <1> QED
    BY <1>6, <1>7

LEMMA StepSpoil ==
  ~Preempted /\ TypeOK /\ TxInv /\ SpoilInv /\ [Next]_vars => SpoilInv'
  <1> SUFFICES ASSUME ~Preempted, TypeOK, TxInv, SpoilInv, [Next]_vars
               PROVE  SpoilInv'
    OBVIOUS
  <1> USE DEF SpoilInv, SpoiltOnlyWhenFull
  <1>0. /\ ctx \in Pointers /\ mac \in MacState /\ irq \in IrqState
        /\ call \in [Contexts -> Call]
        /\ tx \in [TxBds -> Frames \cup {NoFrame}]
        /\ data \in [TxBds -> Frames \cup {NoFrame}]
    BY DEF TypeOK
  <1>00. CallInv /\ \E k : FullInv(k)
    BY DEF TxInv
  \* A step that leaves the frames and the pointers of the transmit ring alone.
  <1>1. ASSUME tx' = tx, data' = data, call' = call,
               ctx'.txCur = ctx.txCur, ctx'.txFull = ctx.txFull
        PROVE  SpoilInv'
    BY <1>1
  <1>2. CASE \/ \E f \in Received : MacReceive(f)
             \/ MacRxStops \/ MacTxStops \/ RxIrq \/ TxIrq \/ TxTest \/ TxCleaned
             \/ UNCHANGED vars
    BY <1>1, <1>2
    DEF MacReceive, MacRxStops, MacTxStops, RxIrq, TxIrq, TxTest, TxCleaned, vars
  <1>3. CASE Receiving
    <2>1. CASE RxTest \/ RxEmpty \/ RxRead
      BY <1>0, <1>1, <2>1 DEF RxTest, RxEmpty, RxRead, Pointers
    <2>2. CASE RxDiscard \/ InputReturns
      BY <1>0, <1>1, <2>2 DEF RxDiscard, InputReturns, UpdateRx, Pointers
    <2> QED
      BY <1>3, <2>1, <2>2 DEF Receiving
  <1>4. CASE MacTransmit
    BY <1>0, <1>4 DEF MacTransmit
  <1>5. CASE TxClean
    <2>1. /\ tx' = tx /\ data' = data /\ call' = call
          /\ irq.pc = "txclean" /\ tx[ctx.txDirty] = NoFrame
      BY <1>5 DEF TxClean, Done
    <2>2. \A c \in Contexts : call[c].pc = "idle"
      BY <1>00, <2>1 DEF CallInv, Contexts
    <2>3. ctx.txFull => tx[ctx.txCur] = NoFrame
      BY <2>1, <2>2, CurrentIsFree
    <2> QED
      BY <2>1, <2>2, <2>3
  <1>6. ASSUME NEW c \in Contexts, (\E f \in Frames : Output(c, f)) \/ Sending(c)
        PROVE  \A e \in Contexts \ {c} : call[e].pc = "idle" /\ call'[e] = call[e]
    <2>1. /\ \A e \in Contexts \ {c} : call'[e] = call[e]
          /\ MayRun(c)
      BY <1>0, <1>6 DEF Output, Sending, Copy, TestFull, SetReady, Advance, Compare,
                        StoreFull, Activate, At
    <2>2. c = "main" => irq.pc = "idle"
      BY <2>1 DEF MayRun, MainRuns
    <2>3. c # "main" => c = "irq" /\ irq.pc = "input"
      BY <2>1 DEF MayRun, Contexts
    <2>4. Contexts = {"main", "irq"}
      BY DEF Contexts
    <2> QED
      BY <1>00, <2>1, <2>2, <2>3, <2>4 DEF CallInv
  <1>7. ASSUME NEW c \in Contexts, NEW f \in Frames, Output(c, f) PROVE SpoilInv'
    BY <1>0, <1>6, <1>7 DEF Output, NoCall
  <1>8. ASSUME NEW c \in Contexts, Copy(c) PROVE SpoilInv'
    <2>1. /\ tx' = tx /\ ctx' = ctx /\ call[c].pc = "copy"
          /\ call[c].bd = ctx.txCur /\ ctx.txCur \in TxBds
          /\ data' = [data EXCEPT ![ctx.txCur] = call[c].frame]
          /\ call'[c].pc = "test" /\ call'[c].bd = ctx.txCur
          /\ call'[c].frame = call[c].frame
      BY <1>0, <1>8 DEF Copy, At, Call, Pointers
    <2>2. ~ctx.txFull => tx[ctx.txCur] = NoFrame
      BY <1>6, <1>8, <2>1, CurrentIsFree DEF Sending
    <2>3. data'[ctx.txCur] = call[c].frame
      BY <1>0, <2>1
    <2> QED
      BY <1>0, <1>6, <1>8, <2>1, <2>2, <2>3 DEF Sending
  <1>9. ASSUME NEW c \in Contexts, TestFull(c) PROVE SpoilInv'
    <2>1. /\ tx' = tx /\ ctx' = ctx /\ data' = data /\ call[c].pc = "test"
          /\ call'[c].pc = "idle" \/ /\ call'[c].pc = "ready"
                                     /\ call'[c].bd = call[c].bd
                                     /\ call'[c].frame = call[c].frame
      BY <1>0, <1>9 DEF TestFull, At, Call, NoCall
    <2> QED
      BY <1>6, <1>9, <2>1 DEF Sending
  <1>10. ASSUME NEW c \in Contexts, SetReady(c) PROVE SpoilInv'
    <2>1. /\ tx' = [tx EXCEPT ![ctx.txCur] = call[c].frame]
          /\ ctx' = ctx /\ data' = data /\ ~ctx.txFull
          /\ data[ctx.txCur] = call[c].frame /\ call'[c].pc = "advance"
      BY <1>0, <1>00, <1>10 DEF SetReady, At, Call, FullInv
    <2> QED
      BY <1>0, <1>6, <1>10, <2>1 DEF Sending
  <1>11. ASSUME NEW c \in Contexts, Advance(c) \/ Compare(c) \/ StoreFull(c)
         PROVE  SpoilInv'
    <2>1. tx' = tx /\ data' = data
      BY <1>11 DEF Advance, Compare, StoreFull
    <2>2. call[c].pc \in {"advance", "compare", "store"}
      BY <1>11 DEF Advance, Compare, StoreFull, At
    <2>3. ~ctx.txFull
      BY <1>00, <2>2 DEF FullInv
    <2>4. call'[c].pc \in {"compare", "store", "activate"}
      <3>1. CASE Advance(c)
        BY <1>0, <3>1 DEF Advance, Call
      <3>2. CASE Compare(c)
        BY <1>0, <3>2 DEF Compare, Call
      <3>3. CASE StoreFull(c)
        BY <1>0, <3>3 DEF StoreFull, Call
      <3> QED
        BY <1>11, <3>1, <3>2, <3>3
    <2> QED
      BY <1>6, <1>11, <2>1, <2>3, <2>4 DEF Sending
  <1>12. ASSUME NEW c \in Contexts, Activate(c) PROVE SpoilInv'
    <2>1. /\ tx' = tx /\ ctx' = ctx /\ data' = data /\ call'[c].pc = "idle"
      BY <1>0, <1>12 DEF Activate, NoCall
    <2> QED
      BY <1>6, <1>12, <2>1 DEF Sending
  <1> QED
    BY <1>2, <1>3, <1>4, <1>5, <1>7, <1>8, <1>9, <1>10, <1>11, <1>12
    DEF Next, Cleaning, Sending

(* As long as the main loop is not interrupted while it sends, the only     *)
(* frame that low_level_output can overwrite is the oldest of a full ring.  *)
THEOREM OnlyFullRingsSpoil == ~Preempted => (Spec => []SpoiltOnlyWhenFull)
  <1> SUFFICES ASSUME ~Preempted PROVE Spec => []SpoiltOnlyWhenFull
    OBVIOUS
  <1>1. TypeOK /\ TypeOK' /\ TxInv /\ SpoilInv /\ [Next]_vars => TxInv' /\ SpoilInv'
    <2>1. TxInv => CallInv
      BY DEF TxInv
    <2> QED
      BY <2>1, StepCall, StepTx, StepSpoil
  <1>2. SpoilInv => SpoiltOnlyWhenFull
    BY DEF SpoilInv
  <1> QED
    BY <1>1, <1>2, InitTx, InitSpoil, RingsTyped, PTL DEF Spec
================================================================================
