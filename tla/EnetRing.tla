------------------------------- MODULE EnetRing --------------------------------
(****************************************************************************)
(* The receive and the transmit ring of the Ethernet driver.  The MAC fills *)
(* and empties descriptors on its own; its two interrupts hand received     *)
(* frames to lwIP (ENET_RECEIVE_ALL_INTERRUPT) and clean up sent ones;      *)
(* frames are sent by lwIP from the receive interrupt and from the main     *)
(* loop (TCP timer, ARP timer).  A frame takes one descriptor, since the    *)
(* buffers hold a frame of the greatest size.                               *)
(*                                                                          *)
(* A step of a context is one access to what it shares with the MAC or the  *)
(* other context.  Both interrupts have the same priority: one runs at a    *)
(* time, and the main loop only when none does.                             *)
(****************************************************************************)
EXTENDS Integers, Sequences

CONSTANTS
    RxSize,      \* ENET_RXBD_NUM
    TxSize,      \* ENET_TXBD_NUM
    Frames,      \* the frames that lwIP sends
    Good,        \* the frames that arrive undamaged,
    Damaged,     \* and those with an error flag: CRC, overrun, truncated, ...
    NoFrame,
    Preempted    \* the interrupts may come while the main loop sends

ASSUME RingsAssumption == /\ RxSize \in Nat \ {0}
                          /\ TxSize \in Nat \ {0}
ASSUME FramesAssumption == /\ Good \cap Damaged = {}
                           /\ NoFrame \notin Frames \cup Good \cup Damaged
ASSUME PreemptionAssumption == Preempted \in BOOLEAN

VARIABLES
    rx,      \* the receive descriptors: NoFrame in an empty one
    tx,      \* the transmit descriptors: NoFrame in one that is not ready
    data,    \* what is in the transmit buffers
    ctx,     \* enet_bd_context_t: the driver's pointers into the rings
    mac,     \* the MAC's own pointers and flags
    irq,     \* where the interrupt handlers are
    call,    \* per context, the locals of low_level_output and below
    read,    \* the received frame that the driver read last
    wire     \* the frame sent last: the one it was made ready for, the data

vars == <<rx, tx, data, ctx, mac, irq, call, read, wire>>

-----------------------------------------------------------------------------
RxBds == 0..(RxSize - 1)
TxBds == 0..(TxSize - 1)
Contexts == {"main", "irq"}

Received == Good \cup Damaged

Pointers == [rxCur : RxBds, rxDirty : RxBds, rxFull : BOOLEAN,
             txCur : TxBds, txDirty : TxBds, txFull : BOOLEAN]

\* rxf, txf: the events in EIR; rdar, tdar: the rings are being polled.
MacState == [rx : RxBds, tx : TxBds, rxf : BOOLEAN, txf : BOOLEAN,
             rdar : BOOLEAN, tdar : BOOLEAN]

\* result: what ENET_DRV_ReceiveData returned last.
IrqState == [pc : {"idle", "rxtest", "rxread", "input", "discard", "txtest",
                   "txclean"},
             result : {"success", "error"}]

Call == [pc : {"idle", "copy", "test", "ready", "advance", "compare", "store",
               "activate"},
         frame : Frames \cup {NoFrame}, bd : TxBds, full : BOOLEAN]

NoCall == [pc |-> "idle", frame |-> NoFrame, bd |-> 0, full |-> FALSE]

(* ENET_DRV_IncrRxBuffDescripIndex, ENET_DRV_IncrTxBuffDescripIndex: the    *)
(* last descriptor has the wrap flag.                                       *)
NextRx(i) == IF i = RxSize - 1 THEN 0 ELSE i + 1

NextTx(i) == IF i = TxSize - 1 THEN 0 ELSE i + 1

Init ==
    /\ rx = [i \in RxBds |-> NoFrame]
    /\ tx = [i \in TxBds |-> NoFrame]
    /\ data = [i \in TxBds |-> NoFrame]
    /\ ctx = [rxCur |-> 0, rxDirty |-> 0, rxFull |-> FALSE,
              txCur |-> 0, txDirty |-> 0, txFull |-> FALSE]
    /\ mac = [rx |-> 0, tx |-> 0, rxf |-> FALSE, txf |-> FALSE,
              rdar |-> TRUE, tdar |-> FALSE]
    /\ irq = [pc |-> "idle", result |-> "success"]
    /\ call = [c \in Contexts |-> NoCall]
    /\ read = NoFrame
    /\ wire = [frame |-> NoFrame, data |-> NoFrame]

-----------------------------------------------------------------------------
(* The MAC. *)

\* A frame arrives, and the next descriptor is free.
MacReceive(f) ==
    /\ mac.rdar
    /\ rx[mac.rx] = NoFrame
    /\ rx' = [rx EXCEPT ![mac.rx] = f]
    /\ mac' = [mac EXCEPT !.rx = NextRx(@), !.rxf = TRUE]
    /\ UNCHANGED <<tx, data, ctx, irq, call, read, wire>>

\* It is not: the MAC waits for RDAR, and what arrives meanwhile is lost.
MacRxStops ==
    /\ mac.rdar
    /\ rx[mac.rx] # NoFrame
    /\ mac' = [mac EXCEPT !.rdar = FALSE]
    /\ UNCHANGED <<rx, tx, data, ctx, irq, call, read, wire>>

MacTransmit ==
    /\ mac.tdar
    /\ tx[mac.tx] # NoFrame
    /\ wire' = [frame |-> tx[mac.tx], data |-> data[mac.tx]]
    /\ tx' = [tx EXCEPT ![mac.tx] = NoFrame]
    /\ mac' = [mac EXCEPT !.tx = NextTx(@), !.txf = TRUE]
    /\ UNCHANGED <<rx, data, ctx, irq, call, read>>

MacTxStops ==
    /\ mac.tdar
    /\ tx[mac.tx] = NoFrame
    /\ mac' = [mac EXCEPT !.tdar = FALSE]
    /\ UNCHANGED <<rx, tx, data, ctx, irq, call, read, wire>>

-----------------------------------------------------------------------------
(* Who runs.  The transmit interrupt has the lower number, and goes first   *)
(* when both are pending.                                                   *)

Interruptible == irq.pc = "idle" /\ (Preempted \/ call["main"].pc = "idle")
MainRuns == irq.pc = "idle" /\ ~(Interruptible /\ (mac.rxf \/ mac.txf))

-----------------------------------------------------------------------------
(* The receive interrupt. *)

\* ENET_DRV_RxIRQHandler is entered.
RxIrq ==
    /\ Interruptible
    /\ mac.rxf /\ ~mac.txf
    /\ irq' = [irq EXCEPT !.pc = "rxtest"]
    /\ UNCHANGED <<rx, tx, data, ctx, mac, call, read, wire>>

\* The flags are tested and cleared, and ENET_DRV_ReceiveData is called.
RxTest ==
    /\ irq.pc = "rxtest"
    /\ irq' = [irq EXCEPT !.pc = IF mac.rxf THEN "rxread" ELSE "idle"]
    /\ mac' = [mac EXCEPT !.rxf = FALSE]
    /\ UNCHANGED <<rx, tx, data, ctx, call, read, wire>>

\* The current descriptor is empty, and ENET_DRV_ReceiveData returns.
RxEmpty ==
    /\ irq.pc = "rxread"
    /\ rx[ctx.rxCur] = NoFrame
    /\ irq' = [pc |-> "rxtest", result |-> "success"]
    /\ UNCHANGED <<rx, tx, data, ctx, mac, call, read, wire>>

\* It holds a frame, and the pointer moves on; lwIP is given a good one.
RxRead ==
    /\ irq.pc = "rxread"
    /\ rx[ctx.rxCur] # NoFrame
    /\ read' = rx[ctx.rxCur]
    /\ ctx' = [ctx EXCEPT !.rxCur = NextRx(@),
                          !.rxFull = NextRx(ctx.rxCur) = ctx.rxDirty]
    /\ irq' = [irq EXCEPT !.pc = IF read' \in Good THEN "input" ELSE "discard"]
    /\ UNCHANGED <<rx, tx, data, mac, call, wire>>

\* Mutant: RDAR is not written.
UpdateRx_Inactive ==
    /\ rx' = [rx EXCEPT ![ctx.rxDirty] = NoFrame]
    /\ ctx' = [ctx EXCEPT !.rxDirty = NextRx(@), !.rxFull = FALSE]
    /\ mac' = mac

\* Mutant: the descriptor that will be read next is cleared.
UpdateRx_Current ==
    /\ rx' = [rx EXCEPT ![ctx.rxCur] = NoFrame]
    /\ ctx' = [ctx EXCEPT !.rxDirty = NextRx(@), !.rxFull = FALSE]
    /\ mac' = [mac EXCEPT !.rdar = TRUE]

(* ENET_DRV_UpdateRxBuffDescrip: the descriptor that was read becomes empty *)
(* and the ring active.  There is one: it is called for every frame.        *)
UpdateRx ==
    /\ rx' = [rx EXCEPT ![ctx.rxDirty] = NoFrame]
    /\ ctx' = [ctx EXCEPT !.rxDirty = NextRx(@), !.rxFull = FALSE]
    /\ mac' = [mac EXCEPT !.rdar = TRUE]

\* A damaged frame: ENET_DRV_ReceiveData gives it back and returns.
RxDiscard ==
    /\ irq.pc = "discard"
    /\ UpdateRx
    /\ irq' = [pc |-> "rxtest", result |-> "error"]
    /\ UNCHANGED <<tx, data, call, read, wire>>

\* Mutant: one frame per interrupt.
InputReturns_OneFrame ==
    /\ irq.pc = "input"
    /\ call["irq"].pc = "idle"
    /\ UpdateRx
    /\ irq' = [pc |-> "rxtest", result |-> "success"]
    /\ UNCHANGED <<tx, data, call, read, wire>>

\* lwIP has returned from ethernetif_input, and the loop goes on.
InputReturns ==
    /\ irq.pc = "input"
    /\ call["irq"].pc = "idle"
    /\ UpdateRx
    /\ irq' = [irq EXCEPT !.pc = "rxread"]
    /\ UNCHANGED <<tx, data, call, read, wire>>

-----------------------------------------------------------------------------
(* The transmit interrupt. *)

TxIrq ==
    /\ Interruptible
    /\ mac.txf
    /\ irq' = [irq EXCEPT !.pc = "txtest"]
    /\ UNCHANGED <<rx, tx, data, ctx, mac, call, read, wire>>

\* The flags are tested and cleared; at the end the ring is activated again.
TxTest ==
    /\ irq.pc = "txtest"
    /\ irq' = [irq EXCEPT !.pc = IF mac.txf THEN "txclean" ELSE "idle"]
    /\ mac' = [mac EXCEPT !.txf = FALSE, !.tdar = @ \/ ~mac.txf]
    /\ UNCHANGED <<rx, tx, data, ctx, call, read, wire>>

\* There is a descriptor that was filled and that the MAC is done with.
Done ==
    /\ ctx.txDirty # ctx.txCur \/ ctx.txFull
    /\ tx[ctx.txDirty] = NoFrame

\* Mutant: the ring stays marked full.
TxClean_StaysFull ==
    /\ irq.pc = "txclean"
    /\ Done
    /\ ctx' = [ctx EXCEPT !.txDirty = NextTx(@)]
    /\ UNCHANGED <<rx, tx, data, mac, irq, call, read, wire>>

\* ENET_DRV_CleanupTxBuffDescrip: one turn of its loop,
TxClean ==
    /\ irq.pc = "txclean"
    /\ Done
    /\ ctx' = [ctx EXCEPT !.txDirty = NextTx(@), !.txFull = FALSE]
    /\ UNCHANGED <<rx, tx, data, mac, irq, call, read, wire>>

\* and its end.
TxCleaned ==
    /\ irq.pc = "txclean"
    /\ ~Done
    /\ irq' = [irq EXCEPT !.pc = "txtest"]
    /\ UNCHANGED <<rx, tx, data, ctx, mac, call, read, wire>>

-----------------------------------------------------------------------------
(* low_level_output and ENET_DRV_SendData, in either context. *)

\* lwIP sends from the main loop, or while it handles a received frame.
MayRun(c) == IF c = "main" THEN MainRuns ELSE irq.pc = "input"

At(c, pc) == MayRun(c) /\ call[c].pc = pc

\* Mutant: the buffer of the descriptor that is cleaned up next.
Output_Dirty(c, f) ==
    /\ At(c, "idle")
    /\ call' = [call EXCEPT ![c] = [NoCall EXCEPT !.pc = "copy", !.frame = f,
                                                  !.bd = ctx.txDirty]]
    /\ UNCHANGED <<rx, tx, data, ctx, mac, irq, read, wire>>

\* "Get the current transmit data buffer in buffer descriptor"
Output(c, f) ==
    /\ At(c, "idle")
    /\ call' = [call EXCEPT ![c] = [NoCall EXCEPT !.pc = "copy", !.frame = f,
                                                  !.bd = ctx.txCur]]
    /\ UNCHANGED <<rx, tx, data, ctx, mac, irq, read, wire>>

\* The pbufs are copied into it.
Copy(c) ==
    /\ At(c, "copy")
    /\ data' = [data EXCEPT ![call[c].bd] = call[c].frame]
    /\ call' = [call EXCEPT ![c].pc = "test"]
    /\ UNCHANGED <<rx, tx, ctx, mac, irq, read, wire>>

\* Mutant: ENET_DRV_SendData does not look whether the ring is full.
TestFull_Never(c) ==
    /\ At(c, "test")
    /\ call' = [call EXCEPT ![c] = [@ EXCEPT !.pc = "ready", !.bd = ctx.txCur]]
    /\ UNCHANGED <<rx, tx, data, ctx, mac, irq, read, wire>>

\* kStatus_ENET_TxbdFull, or the descriptor is taken from the context again.
TestFull(c) ==
    /\ At(c, "test")
    /\ call' = [call EXCEPT ![c] = IF ctx.txFull
                                   THEN NoCall
                                   ELSE [@ EXCEPT !.pc = "ready", !.bd = ctx.txCur]]
    /\ UNCHANGED <<rx, tx, data, ctx, mac, irq, read, wire>>

\* ENET_HAL_SetTxBdBeforeSend
SetReady(c) ==
    /\ At(c, "ready")
    /\ tx' = [tx EXCEPT ![call[c].bd] = call[c].frame]
    /\ call' = [call EXCEPT ![c].pc = "advance"]
    /\ UNCHANGED <<rx, data, ctx, mac, irq, read, wire>>

Advance(c) ==
    /\ At(c, "advance")
    /\ ctx' = [ctx EXCEPT !.txCur = NextTx(@)]
    /\ call' = [call EXCEPT ![c].pc = "compare"]
    /\ UNCHANGED <<rx, tx, data, mac, irq, read, wire>>

\* "Return if the transmit buffer ring is full": looked at,
Compare(c) ==
    /\ At(c, "compare")
    /\ call' = [call EXCEPT ![c] = [@ EXCEPT !.pc = "store",
                                             !.full = (ctx.txCur = ctx.txDirty)]]
    /\ UNCHANGED <<rx, tx, data, ctx, mac, irq, read, wire>>

\* and stored.
StoreFull(c) ==
    /\ At(c, "store")
    /\ ctx' = [ctx EXCEPT !.txFull = call[c].full]
    /\ call' = [call EXCEPT ![c].pc = "activate"]
    /\ UNCHANGED <<rx, tx, data, mac, irq, read, wire>>

\* ENET_HAL_SetTxBdActive
Activate(c) ==
    /\ At(c, "activate")
    /\ mac' = [mac EXCEPT !.tdar = TRUE]
    /\ call' = [call EXCEPT ![c] = NoCall]
    /\ UNCHANGED <<rx, tx, data, ctx, irq, read, wire>>

Sending(c) == \/ Copy(c) \/ TestFull(c) \/ SetReady(c) \/ Advance(c)
              \/ Compare(c) \/ StoreFull(c) \/ Activate(c)

-----------------------------------------------------------------------------
Receiving == RxTest \/ RxEmpty \/ RxRead \/ RxDiscard \/ InputReturns
Cleaning == TxTest \/ TxClean \/ TxCleaned

Next ==
    \/ \E f \in Received : MacReceive(f)
    \/ MacRxStops
    \/ MacTransmit
    \/ MacTxStops
    \/ RxIrq
    \/ Receiving
    \/ TxIrq
    \/ Cleaning
    \/ \E c \in Contexts, f \in Frames : Output(c, f)
    \/ \E c \in Contexts : Sending(c)

(* Interrupts are taken, a handler or a call that has begun goes on, and    *)
(* the MAC sends what is ready.  Nothing is assumed of the frames that      *)
(* arrive and of those that lwIP wants to send.                             *)
Fairness ==
    /\ WF_vars(RxIrq) /\ WF_vars(Receiving)
    /\ WF_vars(TxIrq) /\ WF_vars(Cleaning)
    /\ WF_vars(MacTransmit)
    /\ \A c \in Contexts : WF_vars(Sending(c))

Spec == Init /\ [][Next]_vars
FairSpec == Spec /\ Fairness

-----------------------------------------------------------------------------
(* Properties. *)

\* The type invariant: every pointer of driver and MAC is inside its ring.
TypeOK ==
    /\ rx \in [RxBds -> Received \cup {NoFrame}]
    /\ tx \in [TxBds -> Frames \cup {NoFrame}]
    /\ data \in [TxBds -> Frames \cup {NoFrame}]
    /\ ctx \in Pointers
    /\ mac \in MacState
    /\ irq \in IrqState
    /\ call \in [Contexts -> Call]
    /\ read \in Received \cup {NoFrame}
    /\ wire \in [frame : Frames \cup {NoFrame}, data : Frames \cup {NoFrame}]

(* Where the frames are.  The received ones the driver has not read begin   *)
(* at rxCur and end before the MAC's pointer; the ones to be sent begin at  *)
(* the MAC's pointer and end before txCur, which lags behind the descriptor *)
(* that ENET_DRV_SendData has just made ready.                              *)
Plus(i, k, size) == IF i + k < size THEN i + k ELSE i + k - size
Distance(i, j, size) == IF i < j THEN j - i ELSE j - i + size

TxEnd == IF \E c \in Contexts : call[c].pc = "advance"
         THEN NextTx(ctx.txCur) ELSE ctx.txCur

RxCount == IF rx[ctx.rxCur] = NoFrame \/ ctx.rxFull
           THEN 0 ELSE Distance(ctx.rxCur, mac.rx, RxSize)
TxCount == IF tx[mac.tx] = NoFrame THEN 0 ELSE Distance(mac.tx, TxEnd, TxSize)

Contents(ring, from, count, size) ==
    [k \in 1..count |-> ring[Plus(from, k - 1, size)]]

RxQueue == Contents(rx, ctx.rxCur, RxCount, RxSize)
TxQueue == Contents(tx, mac.tx, TxCount, TxSize)

RxFifo == INSTANCE FrameFifo WITH Frames <- Received, Size <- RxSize,
                                  queue <- RxQueue, out <- read
TxFifo == INSTANCE FrameFifo WITH Size <- TxSize, queue <- TxQueue,
                                  out <- wire.frame

(* Received frames reach the driver one by one in the order of their        *)
(* arrival: none is read twice, and none is overwritten before it is read,  *)
(* although the MAC fills descriptors while the driver reads them.          *)
ReceivesInOrder == RxFifo!Spec

(* What ENET_DRV_SendData has put into the ring is sent once and in the     *)
(* order it was put in, from whichever context it came, and the ring holds  *)
(* no more than its descriptors: isTxBdFull tells a full ring from an empty *)
(* one, in which the two pointers are equal as well.                        *)
SendsInOrder == TxFifo!Spec

(* The handler leaves frames in the ring, with no event pending that would  *)
(* call it again, only after it met a damaged one: the loop returns there,  *)
(* and what is behind waits for the next frame to arrive.                   *)
LeftOnlyByDamage ==
    irq.pc = "idle" /\ ~mac.rxf /\ rx[ctx.rxCur] # NoFrame => irq.result = "error"

(* The MAC that found no empty descriptor is started again: it stands still *)
(* only in front of a descriptor that holds a frame.                        *)
ReceiverRestarted == ~mac.rdar => rx[mac.rx] # NoFrame

(* A full ring is cleaned up: ENET_DRV_SendData does not refuse frames for  *)
(* ever.  The receive handler, which runs as long as frames keep arriving,  *)
(* must return now and then for that.                                       *)
FullRingDrains ==
    []<>(irq.pc \notin {"rxtest", "rxread", "input", "discard"})
      => (ctx.txFull ~> ~ctx.txFull)

(* low_level_output writes into the buffer at txCur before                  *)
(* ENET_DRV_SendData has told it that the ring is full: the one frame it    *)
(* can spoil is the oldest of a full ring.  Every other frame goes out as   *)
(* lwIP gave it.                                                            *)
SpoiltOnlyWhenFull ==
    \A i \in TxBds :
        tx[i] \notin {NoFrame, data[i]} => ctx.txFull /\ i = ctx.txCur
================================================================================
