------------------------------ MODULE SdRequest ------------------------------
(****************************************************************************)
(* One blocking SDHC request.  The main loop submits it, polls the          *)
(* semaphore and cleans up (SDHC_DRV_IssueRequestBlocking); the SDHC        *)
(* interrupt records errors, moves PIO blocks and posts the semaphore       *)
(* (SDHC_DRV_DoIrq, CmdIrq, DataIrq).  The host controller and the card are *)
(* external: they answer the command, move the data and raise the flags.    *)
(*                                                                          *)
(* The interrupt preempts the main loop and is never preempted by it, and a *)
(* pending flag is served before the main loop's next step, so a main step  *)
(* needs Quiet.  The timeout argument appears nowhere: OSA_SemaWait of this *)
(* build (FSL_OSA_BM_TIMER_NONE) reads no clock, and answers                *)
(* kStatus_OSA_Idle, on which the loop polls again, until a post.           *)
(****************************************************************************)
EXTENDS Integers

CONSTANTS
    MaxBlocks,  \* blocks of the longest transfer
    Faults      \* what the card or the controller may do wrong

(* "command": no good response, a CMD_ERR flag; "data": a DATA_ERR or       *)
(* DMA_ERR flag ends the transfer; "stop": the automatic CMD12 failed;      *)
(* "status": the R1 response of a command without data has error bits;      *)
(* "dataStatus": that of a command with data has them.                      *)
FaultKinds == {"command", "data", "stop", "status", "dataStatus"}

ASSUME BlocksAssumption == MaxBlocks \in Nat \ {0}
ASSUME FaultsAssumption == Faults \subseteq FaultKinds

VARIABLES
    pc,         \* where the main loop is in SDHC_DRV_IssueRequestBlocking
    req,        \* *req: the request on the caller's stack
    current,    \* host->currentReq # 0
    flags,      \* IRQSTAT
    isr,        \* where SDHC_DRV_DoIrq is, and the flags it has read
    hw          \* the command and the transfer on the bus

vars == <<pc, req, current, flags, isr, hw>>

-----------------------------------------------------------------------------
(* State. *)

Flags == {"CMD_COMPLETE", "CMD_ERR", "AUTO_CMD12_ERR",
          "BUF_READY", "DATA_COMPLETE", "DATA_ERR"}
CmdAll  == {"CMD_COMPLETE", "CMD_ERR", "AUTO_CMD12_ERR"}
DataAll == {"BUF_READY", "DATA_COMPLETE", "DATA_ERR"}

\* The counter of the semaphore is a byte that OSA_SemaPost never wraps.
SemaMax == 255

Request == [data : BOOLEAN, dma : BOOLEAN, total : 0..MaxBlocks,
            error : SUBSET {"command", "data"}, cardErr : BOOLEAN,
            complete : BOOLEAN, sem : 0..SemaMax,
            result : {"none", "ok", "failed"}]

Bus == [cmd : BOOLEAN, status : BOOLEAN,
        data : {"none", "armed", "active"}, dma : BOOLEAN,
        left : 0..MaxBlocks, buf : BOOLEAN, moved : 0..MaxBlocks]

Isr == [at : {"out", "pio", "clear", "fault"}, seen : SUBSET Flags,
        blocks : 0..MaxBlocks]

Fresh == [data |-> FALSE, dma |-> FALSE, total |-> 0, error |-> {},
          cardErr |-> FALSE, complete |-> FALSE, sem |-> 0, result |-> "none"]
IdleBus == [cmd |-> FALSE, status |-> FALSE,
            data |-> "none", dma |-> FALSE, left |-> 0, buf |-> FALSE,
            moved |-> 0]
Out == [at |-> "out", seen |-> {}, blocks |-> 0]

Init == /\ pc = "idle"
        /\ req = Fresh
        /\ current = FALSE
        /\ flags = {}
        /\ isr = Out
        /\ hw = IdleBus

-----------------------------------------------------------------------------
(* The main loop. *)

Quiet == flags = {} /\ isr.at = "out"

\* A request is built, its semaphore created and currentReq set.  PrepareData
\* refuses a buffer that is not word aligned: the transfer is then PIO.
Submit(data, dma, total) ==
    /\ pc = "idle" /\ Quiet /\ ~current
    /\ data <=> total > 0
    /\ dma => data
    /\ req' = [Fresh EXCEPT !.data = data, !.dma = dma, !.total = total,
                            !.complete = TRUE]
    /\ current' = TRUE
    /\ pc' = "send"
    /\ UNCHANGED <<flags, isr, hw>>

\* SDHC_DRV_SendCommand, past its waits on the inhibit bits.
Send ==
    /\ pc = "send" /\ Quiet
    /\ ~hw.cmd
    /\ req.data => hw.data = "none"
    /\ hw' = IF req.data
             THEN [IdleBus EXCEPT !.cmd = TRUE, !.data = "armed",
                                  !.dma = req.dma, !.left = req.total]
             ELSE [hw EXCEPT !.cmd = TRUE, !.status = FALSE]
    /\ pc' = "wait"
    /\ UNCHANGED <<req, current, flags, isr>>

\* Mutant: the timeout is a data error.
Wait_TimesOut ==
    /\ pc = "wait" /\ Quiet
    /\ req' = IF req.sem > 0 THEN [req EXCEPT !.sem = @ - 1]
              ELSE [req EXCEPT !.error = {"data"}]
    /\ pc' = "woken"
    /\ UNCHANGED <<current, flags, isr, hw>>

\* OSA_SemaWait returned kStatus_OSA_Success.
Wait ==
    /\ pc = "wait" /\ Quiet
    /\ req.sem > 0
    /\ req' = [req EXCEPT !.sem = @ - 1]
    /\ pc' = "woken"
    /\ UNCHANGED <<current, flags, isr, hw>>

\* OSA_SemaWait returned kStatus_OSA_Idle, on which the loop calls it again.
Poll ==
    /\ pc = "wait" /\ Quiet
    /\ req.sem = 0
    /\ UNCHANGED vars

\* OSA_SemaDestroy; req->complete = 0.
Destroy ==
    /\ pc = "woken" /\ Quiet
    /\ req' = [req EXCEPT !.complete = FALSE]
    /\ pc' = "result"
    /\ UNCHANGED <<current, flags, isr, hw>>

Result(r) == IF r.cardErr \/ r.error # {} THEN "failed" ELSE "ok"

\* The errors are looked at, and currentReq is given back.
Return ==
    /\ pc = "result" /\ Quiet
    /\ req' = [req EXCEPT !.result = Result(req)]
    /\ current' = FALSE
    /\ pc' = "idle"
    /\ UNCHANGED <<flags, isr, hw>>

\* sdcard_disk_initialize: SDHC_DRV_Shutdown, then SDHC_DRV_Init resets the
\* controller and the host structure.  The last request is history.
Initialize ==
    /\ pc = "idle" /\ Quiet
    /\ current' = FALSE
    /\ req' = Fresh
    /\ hw' = IdleBus
    /\ UNCHANGED <<pc, flags, isr>>

-----------------------------------------------------------------------------
(* The interrupt. *)

SemaPost(r) == [r EXCEPT !.sem = IF @ = SemaMax THEN @ ELSE @ + 1]

\* Mutant: a command with an error is not completed either.
CmdIrq_DataOnly(r, seen) ==
    LET s == IF "CMD_ERR" \in seen
             THEN [r EXCEPT !.error = @ \cup {"command"}]
             ELSE [r EXCEPT !.cardErr = hw.status]
    IN  IF (~s.data /\ s.error = {}) \/ s.cardErr THEN SemaPost(s) ELSE s

\* Every response is an R1 or R1b: the other kinds only fill req->response.
CmdIrq(r, seen) ==
    LET s == IF "CMD_ERR" \in seen
             THEN [r EXCEPT !.error = @ \cup {"command"}]
             ELSE IF "CMD_COMPLETE" \in seen
             THEN [r EXCEPT !.cardErr = hw.status]
             ELSE r
    IN  IF ~s.data \/ s.cardErr THEN SemaPost(s) ELSE s

\* Mutant: a DATA_ERR completes the request without an error.
DataIrq_ErrorLost(r, seen) ==
    IF seen \cap {"DATA_ERR", "DATA_COMPLETE"} # {} THEN SemaPost(r) ELSE r

\* A BUF_READY flag moves blocks and hides a DATA_COMPLETE read with it.
DataIrq(r, seen) ==
    IF "DATA_ERR" \in seen
    THEN SemaPost([r EXCEPT !.error = @ \cup {"data"}])
    ELSE IF "BUF_READY" \notin seen /\ "DATA_COMPLETE" \in seen
    THEN SemaPost(r)
    ELSE r

\* The handlers find no request, no data or no semaphore to post.
Faulty(seen) ==
    \/ ~current
    \/ ~req.complete
    \/ seen \cap DataAll # {} /\ ~req.data

Served(r, seen) ==
    LET c == IF seen \cap CmdAll # {} THEN CmdIrq(r, seen) ELSE r
    IN  IF seen \cap DataAll # {} THEN DataIrq(c, seen) ELSE c

Moves(seen) == "BUF_READY" \in seen /\ "DATA_ERR" \notin seen

\* SDHC_DRV_DoIrq up to the PIO loop.
EnterIrq ==
    /\ isr.at = "out" /\ flags # {}
    /\ IF Faulty(flags)
       THEN /\ isr' = [Out EXCEPT !.at = "fault"]
            /\ UNCHANGED req
       ELSE /\ req' = Served(req, flags)
            /\ isr' = [at |-> IF Moves(flags) THEN "pio" ELSE "clear",
                       seen |-> flags, blocks |-> req.total]
    /\ UNCHANGED <<pc, current, flags, hw>>

\* One turn of the loop of SDHC_DRV_PioReadBlock or PioWriteBlock.
PioBlock ==
    /\ isr.at = "pio" /\ hw.buf /\ isr.blocks > 0
    /\ hw' = [hw EXCEPT !.buf = FALSE, !.moved = @ + 1]
    /\ isr' = [isr EXCEPT !.blocks = @ - 1]
    /\ UNCHANGED <<pc, req, current, flags>>

PioEnd ==
    /\ isr.at = "pio" /\ (~hw.buf \/ isr.blocks = 0)
    /\ isr' = [isr EXCEPT !.at = "clear"]
    /\ UNCHANGED <<pc, req, current, flags, hw>>

\* SDHC_HAL_ClearIntFlags clears what was read, also if raised again since.
ClearIrq ==
    /\ isr.at = "clear"
    /\ flags' = flags \ isr.seen
    /\ isr' = Out
    /\ UNCHANGED <<pc, req, current, hw>>

-----------------------------------------------------------------------------
(* The host controller and the card (external). *)

Raise(f) == flags' = flags \cup f

\* A command ends; if its response is good the armed transfer begins.
Answer ==
    /\ hw.cmd
    /\ \/ /\ hw' = [hw EXCEPT !.cmd = FALSE, !.status = FALSE,
                    !.data = IF @ = "armed" THEN "active" ELSE @]
          /\ Raise({"CMD_COMPLETE"})
       \/ /\ (IF hw.data = "armed" THEN "dataStatus" ELSE "status") \in Faults
          /\ hw' = [hw EXCEPT !.cmd = FALSE, !.status = TRUE,
                    !.data = IF @ = "armed" THEN "active" ELSE @]
          /\ Raise({"CMD_COMPLETE"})
       \/ /\ "command" \in Faults
          /\ hw' = [hw EXCEPT !.cmd = FALSE,
                    !.data = IF @ = "armed" THEN "none" ELSE @]
          /\ Raise({"CMD_ERR"})
    /\ UNCHANGED <<pc, req, current, isr>>

\* After the last block the transfer is complete; the CMD12 the controller
\* sends after several blocks may have failed.
Completes(bus) ==
    \E stop \in SUBSET {"AUTO_CMD12_ERR"} :
        /\ stop # {} => "stop" \in Faults /\ bus.moved > 1
        /\ hw' = [bus EXCEPT !.data = "none"]
        /\ Raise({"DATA_COMPLETE"} \cup stop)

DmaBlock ==
    /\ hw.data = "active" /\ hw.dma
    /\ LET bus == [hw EXCEPT !.left = @ - 1, !.moved = @ + 1]
       IN  IF hw.left = 1 THEN Completes(bus)
           ELSE hw' = bus /\ UNCHANGED flags
    /\ UNCHANGED <<pc, req, current, isr>>

\* The buffer has a block to read, or room for one to write.
BufferReady ==
    /\ hw.data = "active" /\ ~hw.dma /\ ~hw.buf /\ hw.left > 0
    /\ hw' = [hw EXCEPT !.buf = TRUE, !.left = @ - 1]
    /\ Raise({"BUF_READY"})
    /\ UNCHANGED <<pc, req, current, isr>>

PioComplete ==
    /\ hw.data = "active" /\ ~hw.dma /\ ~hw.buf /\ hw.left = 0
    /\ Completes(hw)
    /\ UNCHANGED <<pc, req, current, isr>>

TransferFails ==
    /\ "data" \in Faults /\ hw.data = "active"
    /\ hw' = [hw EXCEPT !.data = "none", !.buf = FALSE]
    /\ Raise({"DATA_ERR"})
    /\ UNCHANGED <<pc, req, current, isr>>

-----------------------------------------------------------------------------
MainStep == Send \/ Wait \/ Destroy \/ Return
IrqStep  == EnterIrq \/ PioBlock \/ PioEnd \/ ClearIrq
BusStep  == Answer \/ DmaBlock \/ BufferReady \/ PioComplete

Next == \/ \E data, dma \in BOOLEAN, total \in 0..MaxBlocks :
               Submit(data, dma, total)
        \/ MainStep
        \/ Poll
        \/ Initialize
        \/ IrqStep
        \/ BusStep
        \/ TransferFails

Spec == Init /\ [][Next]_vars
             /\ WF_vars(MainStep) /\ WF_vars(IrqStep) /\ WF_vars(BusStep)

-----------------------------------------------------------------------------
(* Properties. *)

\* Every variable stays in its type; the semaphore never goes below zero.
TypeOK ==
    /\ pc \in {"idle", "send", "wait", "woken", "result"}
    /\ req \in Request
    /\ current \in BOOLEAN
    /\ flags \subseteq Flags
    /\ isr \in Isr
    /\ hw \in Bus

\* The assertions of DataIrq and of OSA_SemaPost: an interrupt always finds
\* the request it belongs to, with its data and its semaphore.  One request is
\* completed exactly once, by its last interrupt.
RequestPresent == isr.at # "fault"

\* A request that returns kStatus_SDHC_NoError has moved all of its blocks.
SuccessMeansMoved ==
    req.result = "ok" /\ req.data => hw.moved = req.total

\* A request without data, and a DMA transfer whose command is answered,
\* return whatever else the card does.
OtherRequestsReturn ==
    pc = "wait" /\ (req.data => req.dma)
        ~> pc = "idle" \/ (req.data /\ "command" \in req.error)

\* What the interface promises: the request returns, at the latest with a
\* timeout.  Not so after a command error of a request with data, nor after
\* a buffer that becomes ready between the end of a PIO loop and the clearing
\* of the flag.
RequestReturns == pc = "wait" ~> pc = "idle"

-----------------------------------------------------------------------------
(* The inductive invariant behind RequestPresent and SuccessMeansMoved, when *)
(* no R1 response to a data command has error bits: a waiting request is in *)
(* one of five phases, and its semaphore is posted in the fourth only.      *)

Unserved == flags \ isr.seen

Clean == req.sem = 0 /\ req.error = {} /\ ~req.cardErr

\* What the result will be computed from is true.
Truthful == req.data /\ req.error = {} /\ ~req.cardErr => hw.moved = req.total

Silent == ~hw.cmd /\ hw.data = "none" /\ ~hw.buf

\* The command has been sent and is not answered yet.
Commanded ==
    /\ hw.cmd /\ Clean /\ Quiet /\ ~hw.buf
    /\ hw.data = IF req.data THEN "armed" ELSE "none"
    /\ req.data => hw.moved = 0 /\ hw.left = req.total

\* Blocks are moving; a raised BUF_READY means a block waits in the buffer.
Transferring ==
    /\ ~hw.cmd /\ hw.data = "active" /\ ~hw.status /\ Clean /\ req.data
    /\ flags \subseteq {"CMD_COMPLETE", "BUF_READY"}
    /\ "BUF_READY" \in Unserved => hw.buf
    /\ hw.moved + hw.left + (IF hw.buf THEN 1 ELSE 0) = req.total
    /\ hw.dma => hw.left > 0 /\ ~hw.buf /\ "BUF_READY" \notin flags

\* The last flag of the request is raised and not served.
Ended ==
    /\ Silent /\ Clean
    /\ \/ /\ ~req.data /\ isr.at = "out"
          /\ flags \in {{"CMD_COMPLETE"}, {"CMD_ERR"}}
       \/ /\ req.data /\ isr.at = "out"
          /\ flags = {"CMD_ERR"}
       \/ /\ req.data /\ ~hw.status
          /\ flags \subseteq {"CMD_COMPLETE", "BUF_READY", "DATA_ERR"}
          /\ "DATA_ERR" \in Unserved
       \/ /\ req.data /\ ~hw.status
          /\ flags \subseteq Flags \ {"CMD_ERR", "DATA_ERR"}
          /\ "DATA_COMPLETE" \in Unserved /\ "BUF_READY" \notin Unserved
          /\ hw.moved = req.total

\* It has been served: the semaphore is posted, or the request is a data
\* request whose command failed, and nobody will post it.
Posted ==
    /\ Silent /\ Truthful /\ Unserved = {} /\ isr.at # "pio"
    /\ req.sem = 1
Stuck ==
    /\ Silent /\ Unserved = {} /\ isr.at # "pio"
    /\ req.sem = 0 /\ req.data /\ req.error = {"command"}

InterruptSound ==
    /\ isr.at # "fault"
    /\ isr.seen \subseteq flags
    /\ isr.at = "out" => isr.seen = {}
    /\ isr.at = "pio" => "BUF_READY" \in isr.seen

CallSound ==
    /\ req.data <=> req.total > 0
    /\ current <=> pc # "idle"
    /\ req.complete <=> pc \in {"send", "wait", "woken"}
    /\ pc # "wait" => Quiet /\ Silent
    /\ pc # "idle" => req.result = "none"

RequestIInv ==
    /\ TypeOK
    /\ InterruptSound
    /\ CallSound
    /\ pc = "send" => Clean
    /\ pc = "wait" => Commanded \/ Transferring \/ Ended \/ Posted \/ Stuck
    /\ pc \in {"woken", "result"} => req.sem = 0 /\ Truthful
    /\ SuccessMeansMoved

=============================================================================
