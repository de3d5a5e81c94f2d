------------------------------ MODULE CardLog ------------------------------
(***************************************************************************)
(* The SD-card event log of the board: the flags the CGI handler raises    *)
(* inside the Ethernet interrupt, the main loop that turns every raised    *)
(* flag into one line of /httpd.log, the card-detect interrupt and the     *)
(* slot itself (Sources/httpd.c, Sources/Events.c, Sources/sdcard.c).      *)
(*                                                                         *)
(* Three contexts run on the one core.  The Ethernet interrupt (priority   *)
(* 0) preempts everything and runs a handler to its end: one action.  The  *)
(* card-detect interrupt (priority 9) preempts the main loop only, and its *)
(* debounce loop can itself be preempted: one action per sample.  The main *)
(* loop runs when no interrupt does: one action per test, assignment and   *)
(* file operation.                                                         *)
(***************************************************************************)
EXTENDS Naturals

CONSTANTS
  MaxEdges,      \* bound: level changes of the card-detect pin
  MaxRequests    \* bound: CGI requests that find cardInserted set

ASSUME BoundAssumption == MaxEdges \in Nat /\ MaxRequests \in Nat

(* cartaoCGI, cartaoSSI and cartaoRELAY, in the order the loop tests them. *)
Flags == {"CGI", "SSI", "RELAY"}

(* The jobs of append(): a flag's line, or the line written at start-up.   *)
Jobs  == Flags \cup {"start"}

VARIABLES
  pin,           \* level of SD_CARD_DETECT: 0 when a card closes the switch
  edges,         \* level changes so far
  pending,       \* PORTE interrupt pending in the NVIC
  porte,         \* where PORTE_IRQHandler is, and its local "state"
  cardInserted,  \* the global of that name
  flag,          \* the three request flags
  pc, turn, job, \* the main loop: its place, the flag it tests, its append
  session,       \* the card identified by the running append is still in
  written,       \* the running append's f_write succeeded
  log,           \* lines committed to /httpd.log, by job
  accepted,      \* history: requests that raised a flag
  uncovered      \* history: flags raised since the last append for them began

slot  == <<pin, edges, session>>
isr   == <<pending, porte>>
loop  == <<pc, turn, job>>
hist  == <<accepted, uncovered>>
vars  == <<slot, isr, cardInserted, flag, loop, written, log, hist>>

PorteAt  == {"idle", "first", "again", "done"}
MainAt   == {"sample", "absent", "present", "test", "clear",
             "open", "mount", "write", "close", "hung"}
InAppend == pc \in {"open", "mount", "write", "close", "hung"}

TypeOK ==
  /\ pin \in 0..1 /\ edges \in 0..MaxEdges /\ session \in BOOLEAN
  /\ pending \in BOOLEAN
  /\ porte \in [at : PorteAt, state : 0..1]
  /\ cardInserted \in BOOLEAN
  /\ flag \in [Flags -> BOOLEAN]
  /\ pc \in MainAt /\ turn \in Flags /\ job \in Jobs
  /\ written \in BOOLEAN
  /\ log \in [Jobs -> Nat]
  /\ accepted \in [Flags -> 0..MaxRequests]
  /\ uncovered \in SUBSET Flags

(* The state httpd_server_init is in once cgi_init and ssi_init returned.  *)
Init ==
  /\ pin \in 0..1 /\ edges = 0 /\ session = FALSE
  /\ pending = FALSE /\ porte = [at |-> "idle", state |-> 0]
  /\ cardInserted = FALSE
  /\ flag = [f \in Flags |-> FALSE]
  /\ pc = "sample" /\ turn = "CGI" /\ job = "start"
  /\ written = FALSE
  /\ log = [j \in Jobs |-> 0]
  /\ accepted = [f \in Flags |-> 0]
  /\ uncovered = {}

-----------------------------------------------------------------------------
(* The slot.  The pin is pulled up and raises PORTE on either edge; pulling *)
(* the card ends whatever session the driver had with it.                  *)
PinChange ==
  /\ edges < MaxEdges
  /\ pin' = 1 - pin
  /\ edges' = edges + 1
  /\ pending' = TRUE
  /\ session' = (session /\ pin' = 0)
  /\ UNCHANGED <<porte, cardInserted, flag, loop, written, log, hist>>

(* PORTE_IRQHandler: clear the flag, then look at the pin once to decide   *)
(* whether check_card_inserted is called at all.                           *)
PorteEnter ==
  /\ porte.at = "idle" /\ pending
  /\ pending' = FALSE
  /\ porte' = [porte EXCEPT !.at = IF pin = 0 THEN "first" ELSE "done"]
  /\ UNCHANGED <<slot, cardInserted, flag, loop, written, log, hist>>

(* check_card_inserted: the sample taken before the debounce loop.         *)
PorteFirst ==
  /\ porte.at = "first"
  /\ porte' = [at |-> "again", state |-> pin]
  /\ UNCHANGED <<slot, pending, cardInserted, flag, loop, written, log, hist>>

(* One turn of the debounce loop: two equal samples in a row end it, and   *)
(* cardInserted becomes (state == 1).                                      *)
PorteAgain ==
  /\ porte.at = "again"
  /\ IF pin = porte.state
       THEN /\ porte' = [porte EXCEPT !.at = "done"]
            /\ cardInserted' = (pin = 1)
       ELSE /\ porte' = [porte EXCEPT !.state = pin]
            /\ UNCHANGED cardInserted
  /\ UNCHANGED <<slot, pending, flag, loop, written, log, hist>>

PorteReturn ==
  /\ porte.at = "done"
  /\ porte' = [porte EXCEPT !.at = "idle"]
  /\ UNCHANGED <<slot, pending, cardInserted, flag, loop, written, log, hist>>

-----------------------------------------------------------------------------
(* The flags a CGI handler raises: rele.cgi (index 0) raises two, data.cgi *)
(* and hora.cgi one.                                                       *)
Raised(iIndex) == IF iIndex = 0 THEN {"RELAY", "CGI"} ELSE {"CGI"}

(* processaCGI, run to completion inside the Ethernet receive interrupt.   *)
ProcessaCGI(iIndex) ==
  LET up == IF cardInserted THEN Raised(iIndex) ELSE {}
  IN /\ \A f \in up : accepted[f] < MaxRequests
     /\ flag' = [f \in Flags |-> flag[f] \/ f \in up]
     /\ accepted' = [f \in Flags |-> IF f \in up THEN accepted[f] + 1 ELSE accepted[f]]
     /\ uncovered' = uncovered \cup up
     /\ UNCHANGED <<slot, isr, cardInserted, loop, written, log>>

-----------------------------------------------------------------------------
(* The main loop, which no interrupt of a lower level may overtake.        *)
Runs(at) == porte.at = "idle" /\ pc = at

BootSample ==
  /\ Runs("sample")
  /\ pc' = IF pin = 1 THEN "absent" ELSE "present"
  /\ UNCHANGED <<slot, isr, cardInserted, flag, turn, job, written, log, hist>>

BootSet ==
  /\ Runs("absent") \/ Runs("present")
  /\ cardInserted' = (pc = "present")
  /\ pc' = IF pc = "present" THEN "open" ELSE "test"
  /\ UNCHANGED <<slot, isr, flag, turn, job, written, log, hist>>

(* Mutant: a loop that skips RELAY.                                        *)
After_NoRelay(f) == IF f = "CGI" THEN "SSI" ELSE "CGI"

(* The flag tested after this one; the loop closes on itself.              *)
After(f) == CASE f = "CGI" -> "SSI" [] f = "SSI" -> "RELAY" [] OTHER -> "CGI"

Test ==
  /\ Runs("test")
  /\ IF flag[turn] THEN pc' = "clear" /\ UNCHANGED turn
                   ELSE pc' = "test" /\ turn' = After(turn)
  /\ UNCHANGED <<slot, isr, cardInserted, flag, job, written, log, hist>>

(* Mutant: the flag stays up.                                              *)
Clear_Kept ==
  /\ Runs("clear")
  /\ job' = turn /\ pc' = "open"
  /\ UNCHANGED <<slot, isr, cardInserted, flag, turn, written, log, hist>>

(* The flag is cleared before the line is formatted and appended.          *)
Clear ==
  /\ Runs("clear")
  /\ flag' = [flag EXCEPT ![turn] = FALSE]
  /\ job' = turn
  /\ pc' = "open"
  /\ UNCHANGED <<slot, isr, cardInserted, turn, written, log, hist>>

(* The loop goes on behind the flag it served; start-up goes to the first. *)
LeaveAppend ==
  /\ pc' = "test"
  /\ turn' = IF job = "start" THEN turn ELSE After(turn)
  /\ UNCHANGED job

(* A request of the card driver that carries data and whose command fails  *)
(* never returns: SDHC_DRV_CmdIrq posts no completion for it, and the bare *)
(* metal OSA_SemaWait answers kStatus_OSA_Idle for ever (SdRequest.tla).   *)
Hang == pc' = "hung" /\ UNCHANGED <<turn, job>>

(* append: f_mount and f_chdrive only register; f_open initialises the     *)
(* card, which only one in the slot answers.  A failed open leaves a file  *)
(* object f_close rejects, and the volume is unmounted.                    *)
AppendOpen ==
  /\ Runs("open")
  /\ uncovered' = uncovered \ {job}
  /\ \/ /\ pin = 0
        /\ session' = TRUE
        /\ pc' = "mount"
        /\ UNCHANGED <<turn, job>>
     \/ /\ session' = FALSE
        /\ LeaveAppend
  /\ UNCHANGED <<pin, edges, isr, cardInserted, flag, written, log, accepted>>

(* The rest of f_open reads the card: registers, volume, directory entry.   *)
AppendMount ==
  /\ Runs("mount")
  /\ \/ session /\ pc' = "write" /\ UNCHANGED <<turn, job>>
     \/ LeaveAppend
     \/ Hang
  /\ UNCHANGED <<slot, isr, cardInserted, flag, written, log, hist>>

(* f_lseek to the end, then f_write into the cached sector; append does    *)
(* not look at the result, so the file is closed in either case.           *)
AppendWrite ==
  /\ Runs("write")
  /\ \/ written' \in BOOLEAN /\ pc' = "close" /\ UNCHANGED <<turn, job>>
     \/ UNCHANGED written /\ Hang
  /\ UNCHANGED <<slot, isr, cardInserted, flag, log, hist>>

(* Mutant: the flag is taken down once more when the line is in the file.  *)
AppendClose_ClearAgain ==
  /\ Runs("close")
  /\ LeaveAppend
  /\ flag' = [flag EXCEPT ![turn] = FALSE]
  /\ session' = FALSE /\ written' = FALSE
  /\ UNCHANGED <<pin, edges, isr, cardInserted, log, hist>>

(* f_close writes the sector and the directory entry that make the line    *)
(* part of the file, then f_mount(NULL).                                   *)
AppendClose ==
  /\ Runs("close")
  /\ \/ /\ session /\ written
        /\ log' = [log EXCEPT ![job] = @ + 1]
        /\ LeaveAppend
     \/ UNCHANGED log /\ LeaveAppend
     \/ UNCHANGED log /\ Hang
  /\ session' = FALSE
  /\ written' = FALSE
  /\ UNCHANGED <<pin, edges, isr, cardInserted, flag, hist>>

(* The wait that never ends: Idle, and ask again.                          *)
Poll == Runs("hung") /\ UNCHANGED vars

-----------------------------------------------------------------------------
Porte == PorteEnter \/ PorteFirst \/ PorteAgain \/ PorteReturn
Main  == \/ BootSample \/ BootSet \/ Test \/ Clear
         \/ AppendOpen \/ AppendMount \/ AppendWrite \/ AppendClose \/ Poll
Next  == PinChange \/ Porte \/ Main \/ \E iIndex \in 0..2 : ProcessaCGI(iIndex)

(* The core executes whichever context is entitled to run; nobody owes the *)
(* board a request or a card.                                              *)
Spec == Init /\ [][Next]_vars /\ WF_vars(Porte) /\ WF_vars(Main)

-----------------------------------------------------------------------------
(* A request that raised a flag is never forgotten: until an append for it *)
(* begins, its flag is still up or the loop has just taken it down to run  *)
(* that append (httpd.c clears each flag before append, not after).        *)
RequestCovered ==
  \A f \in uncovered : flag[f] \/ (pc = "open" /\ job = f)

(* The log never holds a line nobody asked for: committed lines, the line  *)
(* being appended and the raised flag together never exceed the requests.  *)
NoPhantomLine ==
  \A f \in Flags :
    log[f] + (IF InAppend /\ job = f THEN 1 ELSE 0)
           + (IF flag[f] THEN 1 ELSE 0) <= accepted[f]

(* Every accepted request is followed by an append for its flag, whatever  *)
(* the card does meanwhile, unless the card driver holds the loop.         *)
RequestServed ==
  \A f \in Flags : (f \in uncovered) ~> (f \notin uncovered \/ pc = "hung")
=============================================================================
