-------------------------- MODULE SdRequestProofs ---------------------------
(****************************************************************************)
(* RequestPresent and SuccessMeansMoved for transfers of any length and any *)
(* faults of the card but one: error bits in the R1 response of a command   *)
(* with data.  Both need the four phases of RequestIInv: an interrupt that  *)
(* finds no request is one raised after the phase in which the semaphore    *)
(* was posted, and that phase is reached only when nothing is left to raise *)
(* a flag.                                                                  *)
(****************************************************************************)
EXTENDS SdRequest, TLAPS

(* The assumption of the theorems about the card. *)
NoDataStatus == "dataStatus" \notin Faults

-----------------------------------------------------------------------------
(* Lemmas about the records. *)

(* A request stays one when a field is given a value of the field's type. *)
LEMMA RequestField ==
    ASSUME NEW r \in Request
    PROVE  /\ \A v \in 0..SemaMax : [r EXCEPT !.sem = v] \in Request
           /\ \A v \in SUBSET {"command", "data"} :
                 [r EXCEPT !.error = v] \in Request
           /\ \A v \in BOOLEAN : [r EXCEPT !.complete = v] \in Request
           /\ \A v \in BOOLEAN : [r EXCEPT !.cardErr = v] \in Request
           /\ \A v \in {"none", "ok", "failed"} :
                 [r EXCEPT !.result = v] \in Request
BY DEF Request

(* So does the state of the bus. *)
LEMMA BusField ==
    ASSUME NEW b \in Bus
    PROVE  /\ \A v \in BOOLEAN : /\ [b EXCEPT !.cmd = v] \in Bus
                                 /\ [b EXCEPT !.status = v] \in Bus
                                 /\ [b EXCEPT !.dma = v] \in Bus
                                 /\ [b EXCEPT !.buf = v] \in Bus
           /\ \A v \in {"none", "armed", "active"} :
                 [b EXCEPT !.data = v] \in Bus
           /\ \A v \in 0..MaxBlocks : /\ [b EXCEPT !.left = v] \in Bus
                                      /\ [b EXCEPT !.moved = v] \in Bus
BY DEF Bus

(* The byte of the semaphore is never wrapped by a post. *)
LEMMA PostType ==
    ASSUME NEW r \in Request
    PROVE  SemaPost(r) \in Request
<1>1. (IF r.sem = SemaMax THEN r.sem ELSE r.sem + 1) \in 0..SemaMax
  BY DEF Request, SemaMax
<1> QED BY <1>1, RequestField DEF SemaPost

(* The handlers keep the type of the request. *)
LEMMA ServedType ==
    ASSUME NEW r \in Request, NEW seen \in SUBSET Flags, hw \in Bus
    PROVE  Served(r, seen) \in Request
<1>1. /\ [r EXCEPT !.error = r.error \cup {"command"}] \in Request
      /\ [r EXCEPT !.error = r.error \cup {"data"}] \in Request
      /\ [r EXCEPT !.cardErr = hw.status] \in Request
  <2>1. r.error \cup {"command"} \in SUBSET {"command", "data"}
    BY DEF Request
  <2>2. r.error \cup {"data"} \in SUBSET {"command", "data"}
    BY DEF Request
  <2>3. hw.status \in BOOLEAN
    BY DEF Bus
  <2> QED BY <2>1, <2>2, <2>3, RequestField
<1>2. CmdIrq(r, seen) \in Request
  BY <1>1, PostType DEF CmdIrq
<1>3. \A s \in Request : DataIrq(s, seen) \in Request
  <2> TAKE s \in Request
  <2>1. [s EXCEPT !.error = s.error \cup {"data"}] \in Request
    <3>1. s.error \cup {"data"} \in SUBSET {"command", "data"}
      BY DEF Request
    <3> QED BY <3>1, RequestField
  <2> QED BY <2>1, PostType DEF DataIrq
<1> QED BY <1>2, <1>3 DEF Served

-----------------------------------------------------------------------------
(* The steps of the main loop: none of them runs while a flag is raised.    *)

LEMMA InitInv == Init => RequestIInv
<1> SUFFICES ASSUME Init PROVE RequestIInv
  OBVIOUS
<1> USE BlocksAssumption
<1>1. Fresh \in Request /\ IdleBus \in Bus /\ Out \in Isr
  BY DEF Fresh, Request, IdleBus, Bus, Out, Isr, SemaMax
<1>2. TypeOK
  BY <1>1 DEF Init, TypeOK
<1> QED BY <1>2 DEF Init, RequestIInv, InterruptSound, CallSound, Quiet,
                    Silent, SuccessMeansMoved, Fresh, IdleBus, Out

LEMMA SubmitInv ==
    ASSUME RequestIInv, NEW data \in BOOLEAN, NEW dma \in BOOLEAN,
           NEW total \in 0..MaxBlocks, Submit(data, dma, total)
    PROVE  RequestIInv'
<1>1. req' \in Request
  <2>1. Fresh \in Request
    BY BlocksAssumption DEF Fresh, Request, SemaMax
  <2>2. [Fresh EXCEPT !.data = data, !.dma = dma, !.total = total,
                      !.complete = TRUE] \in Request
    BY <2>1 DEF Request
  <2> QED BY <2>2 DEF Submit
<1>2. /\ req'.data = data /\ req'.total = total /\ req'.error = {}
      /\ ~req'.cardErr /\ req'.complete /\ req'.sem = 0
      /\ req'.result = "none"
  BY DEF Submit, Fresh
<1>3. TypeOK'
  BY <1>1 DEF Submit, RequestIInv, TypeOK
<1>4. CallSound'
  BY <1>2 DEF Submit, RequestIInv, CallSound, Quiet, Silent
<1>5. Clean' /\ SuccessMeansMoved'
  BY <1>2 DEF Clean, SuccessMeansMoved
<1>6. InterruptSound'
  BY DEF Submit, RequestIInv, InterruptSound
<1>7. pc' = "send"
  BY DEF Submit
<1> QED BY <1>3, <1>4, <1>5, <1>6, <1>7 DEF RequestIInv

LEMMA SendInv ==
    ASSUME RequestIInv, Send
    PROVE  RequestIInv'
<1>1. req \in Request /\ hw \in Bus
  BY DEF RequestIInv, TypeOK
<1>2. hw' \in Bus
  <2>1. CASE req.data
    <3>1. IdleBus \in Bus /\ req.dma \in BOOLEAN /\ req.total \in 0..MaxBlocks
      BY <1>1, BlocksAssumption DEF IdleBus, Bus, Request
    <3>2. [IdleBus EXCEPT !.cmd = TRUE, !.data = "armed", !.dma = req.dma,
                          !.left = req.total] \in Bus
      BY <3>1 DEF Bus
    <3> QED BY <2>1, <3>2 DEF Send
  <2>2. CASE ~req.data
    <3>1. [hw EXCEPT !.cmd = TRUE, !.status = FALSE] \in Bus
      BY <1>1 DEF Bus
    <3> QED BY <2>2, <3>1 DEF Send
  <2> QED BY <2>1, <2>2
<1>3. TypeOK'
  BY <1>2 DEF Send, RequestIInv, TypeOK
<1>4. Commanded'
  <2>1. Clean' /\ Quiet'
    BY DEF Send, RequestIInv, Clean, Quiet
  <2>2. CASE req.data
    BY <1>1, <2>1, <2>2 DEF Send, Commanded, IdleBus, Bus
  <2>3. CASE ~req.data
    BY <1>1, <2>1, <2>3 DEF Send, Commanded, RequestIInv, CallSound, Silent, Bus
  <2> QED BY <2>2, <2>3
<1> QED BY <1>3, <1>4 DEF Send, RequestIInv, InterruptSound, CallSound,
                          SuccessMeansMoved

(* A semaphore that can be taken was posted by the last interrupt.          *)
LEMMA WaitInv ==
    ASSUME RequestIInv, Wait
    PROVE  RequestIInv'
<1>1. req \in Request /\ hw \in Bus
  BY DEF RequestIInv, TypeOK
<1>2. Posted
  BY DEF Wait, RequestIInv, Commanded, Transferring, Ended, Stuck, Clean
<1>3. req' = [req EXCEPT !.sem = 0]
  BY <1>2 DEF Wait, Posted
<1>4. req' \in Request
  <2>1. 0 \in 0..SemaMax
    BY DEF SemaMax
  <2> QED BY <1>1, <1>3, <2>1, RequestField
<1>5. TypeOK'
  BY <1>4 DEF Wait, RequestIInv, TypeOK
<1>6. /\ req'.sem = 0 /\ req'.data = req.data /\ req'.error = req.error
      /\ req'.cardErr = req.cardErr /\ req'.total = req.total
      /\ req'.result = req.result /\ req'.complete = req.complete
  BY <1>1, <1>3 DEF Request
<1>7. Truthful' /\ Silent'
  BY <1>2, <1>6 DEF Wait, Posted, Truthful, Silent
<1> QED BY <1>5, <1>6, <1>7 DEF Wait, RequestIInv, InterruptSound, CallSound,
                                Quiet, SuccessMeansMoved

LEMMA DestroyInv ==
    ASSUME RequestIInv, Destroy
    PROVE  RequestIInv'
<1>1. req \in Request
  BY DEF RequestIInv, TypeOK
<1>2. req' \in Request
  BY <1>1, RequestField DEF Destroy
<1>3. TypeOK'
  BY <1>2 DEF Destroy, RequestIInv, TypeOK
<1>4. /\ req'.sem = req.sem /\ req'.data = req.data /\ req'.error = req.error
      /\ req'.cardErr = req.cardErr /\ req'.total = req.total
      /\ req'.result = req.result /\ ~req'.complete
  BY <1>1 DEF Destroy, Request
<1>5. Truthful' /\ Silent'
  BY <1>4 DEF Destroy, RequestIInv, CallSound, Truthful, Silent
<1> QED BY <1>3, <1>4, <1>5 DEF Destroy, RequestIInv, InterruptSound,
                                CallSound, Quiet, SuccessMeansMoved

LEMMA ReturnInv ==
    ASSUME RequestIInv, Return
    PROVE  RequestIInv'
<1>1. req \in Request
  BY DEF RequestIInv, TypeOK
<1>2. req' \in Request
  BY <1>1, RequestField DEF Return, Result
<1>3. TypeOK'
  BY <1>2 DEF Return, RequestIInv, TypeOK
<1>4. /\ req'.sem = req.sem /\ req'.data = req.data /\ req'.error = req.error
      /\ req'.cardErr = req.cardErr /\ req'.total = req.total
      /\ req'.result = Result(req) /\ req'.complete = req.complete
  BY <1>1 DEF Return, Request
<1>5. Truthful /\ Silent'
  BY DEF Return, RequestIInv, CallSound, Silent
<1>6. SuccessMeansMoved'
  BY <1>4, <1>5 DEF Return, Result, Truthful, SuccessMeansMoved
<1> QED BY <1>3, <1>4, <1>5, <1>6 DEF Return, RequestIInv, InterruptSound,
                                      CallSound, Quiet

LEMMA InitializeInv ==
    ASSUME RequestIInv, Initialize
    PROVE  RequestIInv'
<1> USE BlocksAssumption
<1>1. Fresh \in Request /\ IdleBus \in Bus
  BY DEF Fresh, Request, IdleBus, Bus, SemaMax
<1>2. TypeOK'
  BY <1>1 DEF Initialize, RequestIInv, TypeOK
<1> QED BY <1>2 DEF Initialize, RequestIInv, InterruptSound, CallSound, Quiet,
                    Silent, SuccessMeansMoved, Fresh, IdleBus

-----------------------------------------------------------------------------
(* The steps of the interrupt: the call is in its wait.                     *)

(* The handlers find the request they belong to.                            *)
LEMMA NotFaulty ==
    ASSUME RequestIInv, isr.at = "out", flags # {}
    PROVE  /\ pc = "wait" /\ ~Faulty(flags)
           /\ Commanded \/ Transferring \/ Ended
<1>1. pc = "wait"
  BY DEF RequestIInv, CallSound, Quiet
<1>2. isr.seen = {} /\ Unserved = flags
  BY DEF RequestIInv, InterruptSound, Unserved
<1>3. Commanded \/ Transferring \/ Ended
  BY <1>1, <1>2 DEF RequestIInv, Posted, Stuck
<1>4. ~Commanded
  BY DEF Commanded, Quiet
<1>5. flags \cap DataAll # {} => req.data
  BY <1>3, <1>4 DEF Transferring, Ended, DataAll
<1> QED BY <1>1, <1>3, <1>5 DEF Faulty, RequestIInv, CallSound

(* Two requests that differ in what the interrupt writes at most.           *)
Same(r, s) == /\ s.data = r.data /\ s.dma = r.dma /\ s.total = r.total
              /\ s.complete = r.complete /\ s.result = r.result

LEMMA PostFields ==
    ASSUME NEW r \in Request, r.sem = 0
    PROVE  /\ SemaPost(r).sem = 1 /\ Same(r, SemaPost(r))
           /\ SemaPost(r).error = r.error
           /\ SemaPost(r).cardErr = r.cardErr
BY DEF SemaPost, SemaMax, Request, Same

(* What CmdIrq makes of a request that nothing has happened to.             *)
LEMMA CmdIrqFields ==
    ASSUME NEW r \in Request, NEW seen \in SUBSET Flags, hw \in Bus,
           r.sem = 0, r.error = {}, ~r.cardErr
    PROVE  LET c == CmdIrq(r, seen)
           IN  /\ Same(r, c)
               /\ ~r.data => c.sem = 1
               /\ r.data /\ "CMD_ERR" \in seen =>
                     c.sem = 0 /\ c.error = {"command"}
               /\ r.data /\ "CMD_ERR" \notin seen /\ ~hw.status =>
                     c.sem = 0 /\ c.error = {} /\ ~c.cardErr
<1> DEFINE e == [r EXCEPT !.error = r.error \cup {"command"}]
           g == [r EXCEPT !.cardErr = hw.status]
<1>1. e \in Request /\ g \in Request
  <2>1. r.error \cup {"command"} \in SUBSET {"command", "data"}
    BY DEF Request
  <2>2. hw.status \in BOOLEAN
    BY DEF Bus
  <2> QED BY <2>1, <2>2, RequestField
<1>2. /\ Same(r, e) /\ e.sem = 0 /\ e.error = {"command"} /\ ~e.cardErr
      /\ Same(r, g) /\ g.sem = 0 /\ g.error = {} /\ (g.cardErr <=> hw.status)
  BY DEF Request, Same
<1> HIDE DEF e, g
<1>3. CmdIrq(r, seen) = LET s == IF "CMD_ERR" \in seen THEN e
                                 ELSE IF "CMD_COMPLETE" \in seen THEN g ELSE r
                        IN  IF ~s.data \/ s.cardErr THEN SemaPost(s) ELSE s
  BY DEF CmdIrq, e, g
<1>4. CASE "CMD_ERR" \in seen
  BY <1>1, <1>2, <1>3, <1>4, PostFields DEF Same
<1>5. CASE "CMD_ERR" \notin seen /\ "CMD_COMPLETE" \in seen
  BY <1>1, <1>2, <1>3, <1>5, PostFields DEF Same
<1>6. CASE "CMD_ERR" \notin seen /\ "CMD_COMPLETE" \notin seen
  BY <1>3, <1>6, PostFields DEF Same
<1> QED BY <1>4, <1>5, <1>6

(* The sets of flags of a data request that goes on, fails and completes.   *)
Progress == {"CMD_COMPLETE", "BUF_READY"}
EndsBadly(seen) == "DATA_ERR" \in seen /\ "CMD_ERR" \notin seen
EndsWell(seen) == /\ "DATA_COMPLETE" \in seen
                  /\ seen \cap {"CMD_ERR", "DATA_ERR", "BUF_READY"} = {}

(* And what both handlers make of it, for each set of flags it can meet.    *)
LEMMA ServedFields ==
    ASSUME NEW r \in Request, NEW seen \in SUBSET Flags, hw \in Bus,
           r.sem = 0, r.error = {}, ~r.cardErr
    PROVE  LET s == Served(r, seen)
           IN  /\ Same(r, s)
               /\ ~r.data /\ seen \in {{"CMD_COMPLETE"}, {"CMD_ERR"}} => s.sem = 1
               /\ r.data /\ seen = {"CMD_ERR"} =>
                     s.sem = 0 /\ s.error = {"command"}
               /\ r.data /\ ~hw.status /\ seen \subseteq Progress =>
                     s.sem = 0 /\ s.error = {} /\ ~s.cardErr
               /\ r.data /\ ~hw.status /\ EndsBadly(seen) =>
                     s.sem = 1 /\ s.error # {}
               /\ r.data /\ ~hw.status /\ EndsWell(seen) =>
                     s.sem = 1 /\ s.error = {} /\ ~s.cardErr
<1> DEFINE c == IF seen \cap CmdAll # {} THEN CmdIrq(r, seen) ELSE r
           e == [c EXCEPT !.error = c.error \cup {"data"}]
<1>1. c \in Request /\ Same(r, c)
  <2>1. CmdIrq(r, seen) \in Request
    <3>1. Served(r, seen \cap CmdAll) \in Request
      BY ServedType
    <3>2. /\ (seen \cap CmdAll) \cap DataAll = {}
          /\ CmdIrq(r, seen \cap CmdAll) = CmdIrq(r, seen)
      BY DEF CmdAll, DataAll, CmdIrq
    <3>3. CASE seen \cap CmdAll = {}
      BY <3>3, PostType DEF CmdIrq, CmdAll
    <3>4. CASE seen \cap CmdAll # {}
      BY <3>1, <3>2, <3>4 DEF Served
    <3> QED BY <3>3, <3>4
  <2> QED BY <2>1, CmdIrqFields DEF Same
<1>2. /\ ~r.data /\ seen \in {{"CMD_COMPLETE"}, {"CMD_ERR"}} => c.sem = 1
      /\ r.data /\ "CMD_ERR" \in seen => c.sem = 0 /\ c.error = {"command"}
      /\ r.data /\ "CMD_ERR" \notin seen /\ ~hw.status =>
            c.sem = 0 /\ c.error = {} /\ ~c.cardErr
  BY CmdIrqFields DEF CmdAll
<1> HIDE DEF c
<1>3. e \in Request
  <2>1. c.error \cup {"data"} \in SUBSET {"command", "data"}
    BY <1>1 DEF Request
  <2> QED BY <1>1, <2>1, RequestField
<1>4. Same(c, e) /\ e.sem = c.sem /\ e.error # {}
  BY <1>1 DEF Request, Same
<1> HIDE DEF e
<1>5. Served(r, seen) = IF seen \cap DataAll = {} THEN c
                        ELSE IF "DATA_ERR" \in seen THEN SemaPost(e)
                        ELSE IF "BUF_READY" \notin seen /\ "DATA_COMPLETE" \in seen
                        THEN SemaPost(c) ELSE c
  BY DEF Served, DataIrq, c, e
<1>6. Same(r, Served(r, seen))
  <2>1. \A s \in Request : Same(s, SemaPost(s))
    BY DEF SemaPost, Request, Same
  <2> QED BY <1>1, <1>3, <1>4, <1>5, <2>1 DEF Same
<1>7. ~r.data /\ seen \in {{"CMD_COMPLETE"}, {"CMD_ERR"}} =>
         Served(r, seen).sem = 1
  <2> HAVE ~r.data /\ seen \in {{"CMD_COMPLETE"}, {"CMD_ERR"}}
  <2>1. seen \cap DataAll = {}
    BY DEF DataAll
  <2> QED BY <1>2, <1>5, <2>1
<1>8. r.data /\ seen = {"CMD_ERR"} =>
         Served(r, seen).sem = 0 /\ Served(r, seen).error = {"command"}
  <2> HAVE r.data /\ seen = {"CMD_ERR"}
  <2>1. seen \cap DataAll = {} /\ "CMD_ERR" \in seen
    BY DEF DataAll
  <2> QED BY <1>2, <1>5, <2>1
<1>9. r.data /\ ~hw.status /\ seen \subseteq Progress =>
         /\ Served(r, seen).sem = 0 /\ Served(r, seen).error = {}
         /\ ~Served(r, seen).cardErr
  <2> HAVE r.data /\ ~hw.status /\ seen \subseteq Progress
  <2>1. "CMD_ERR" \notin seen /\ "DATA_ERR" \notin seen
        /\ "DATA_COMPLETE" \notin seen
    BY DEF Progress
  <2>2. Served(r, seen) = c
    BY <1>5, <2>1
  <2> QED BY <1>2, <2>1, <2>2
<1>10. r.data /\ ~hw.status /\ EndsBadly(seen) =>
          Served(r, seen).sem = 1 /\ Served(r, seen).error # {}
  <2> HAVE r.data /\ ~hw.status /\ EndsBadly(seen)
  <2>1. seen \cap DataAll # {} /\ "DATA_ERR" \in seen /\ "CMD_ERR" \notin seen
    BY DEF DataAll, EndsBadly
  <2>2. Served(r, seen) = SemaPost(e)
    BY <1>5, <2>1
  <2>3. e.sem = 0
    BY <1>2, <1>4
  <2>4. SemaPost(e).sem = 1 /\ SemaPost(e).error = e.error
    BY <1>3, <2>3, PostFields
  <2> QED BY <1>4, <2>2, <2>4
<1>11. r.data /\ ~hw.status /\ EndsWell(seen) =>
          /\ Served(r, seen).sem = 1 /\ Served(r, seen).error = {}
          /\ ~Served(r, seen).cardErr
  <2> HAVE r.data /\ ~hw.status /\ EndsWell(seen)
  <2>1. seen \cap DataAll # {} /\ "DATA_ERR" \notin seen
        /\ "BUF_READY" \notin seen /\ "CMD_ERR" \notin seen
        /\ "DATA_COMPLETE" \in seen
    BY DEF DataAll, EndsWell
  <2>2. Served(r, seen) = SemaPost(c)
    BY <1>5, <2>1
  <2>3. c.sem = 0 /\ c.error = {} /\ ~c.cardErr
    BY <1>2, <2>1
  <2>4. /\ SemaPost(c).sem = 1 /\ SemaPost(c).error = c.error
        /\ SemaPost(c).cardErr = c.cardErr
    BY <1>1, <2>3, PostFields
  <2> QED BY <2>2, <2>3, <2>4
<1> QED BY <1>6, <1>7, <1>8, <1>9, <1>10, <1>11

(* A raised flag is served: the request goes on, or it has been completed.  *)
LEMMA EnterIrqInv ==
    ASSUME RequestIInv, EnterIrq
    PROVE  RequestIInv'
<1>1. req \in Request /\ hw \in Bus /\ flags \in SUBSET Flags
  BY DEF RequestIInv, TypeOK
<1>2. pc = "wait" /\ (Commanded \/ Transferring \/ Ended) /\ ~Faulty(flags)
  BY NotFaulty DEF EnterIrq
<1>3. /\ req' = Served(req, flags)
      /\ isr' = [at |-> IF Moves(flags) THEN "pio" ELSE "clear",
                 seen |-> flags, blocks |-> req.total]
      /\ UNCHANGED <<pc, current, flags, hw>>
  BY <1>2 DEF EnterIrq
<1>4. TypeOK'
  <2>1. req' \in Request
    BY <1>1, <1>3, ServedType
  <2>2. isr' \in Isr
    BY <1>1, <1>3 DEF Isr, Request
  <2> QED BY <1>3, <2>1, <2>2 DEF RequestIInv, TypeOK
<1>5. /\ isr'.at = IF Moves(flags) THEN "pio" ELSE "clear"
      /\ isr'.seen = flags /\ Unserved' = {}
  BY <1>3 DEF Unserved
<1>6. InterruptSound'
  BY <1>3, <1>5 DEF InterruptSound, Moves
<1>7. Clean /\ isr.at = "out" /\ isr.seen = {} /\ Unserved = flags
  BY <1>2 DEF EnterIrq, Commanded, Transferring, Ended, RequestIInv,
              InterruptSound, Unserved
<1>8. ~Commanded
  BY DEF EnterIrq, Commanded, Quiet
<1>9. Same(req, req')
  BY <1>1, <1>3, <1>7, ServedFields DEF Clean
<1>10. CallSound' /\ SuccessMeansMoved'
  BY <1>2, <1>3, <1>9 DEF RequestIInv, CallSound, Same, SuccessMeansMoved
<1>11. Transferring' \/ Posted' \/ Stuck'
  <2>1. CASE Transferring
    <3>1. ~hw.status /\ flags \subseteq Progress /\ req.data
      BY <2>1 DEF Transferring, Progress
    <3>2. Clean'
      BY <1>1, <1>3, <1>7, <3>1, ServedFields DEF Clean
    <3>3. Transferring'
      BY <1>3, <1>5, <1>9, <2>1, <3>2 DEF Transferring, Same
    <3> QED BY <3>3
  <2>2. CASE Ended
    <3>1. Silent'
      BY <1>3, <2>2 DEF Ended, Silent
    <3>2. CASE ~req.data
      <4>1. flags \in {{"CMD_COMPLETE"}, {"CMD_ERR"}}
        BY <2>2, <3>2 DEF Ended
      <4>2. req'.sem = 1 /\ ~req'.data
        BY <1>1, <1>3, <1>7, <1>9, <3>2, <4>1, ServedFields DEF Clean, Same
      <4>3. isr'.at # "pio"
        BY <1>5, <4>1 DEF Moves
      <4> QED BY <1>5, <3>1, <4>2, <4>3 DEF Posted, Truthful
    <3>3. CASE req.data /\ flags = {"CMD_ERR"}
      <4>1. req'.sem = 0 /\ req'.error = {"command"} /\ req'.data
        BY <1>1, <1>3, <1>7, <1>9, <3>3, ServedFields DEF Clean, Same
      <4>2. isr'.at # "pio"
        BY <1>5, <3>3 DEF Moves
      <4> QED BY <1>5, <3>1, <4>1, <4>2 DEF Stuck
    <3>4. CASE req.data /\ ~hw.status /\ EndsBadly(flags)
      <4>1. req'.sem = 1 /\ req'.error # {}
        BY <1>1, <1>3, <1>7, <3>4, ServedFields DEF Clean
      <4>2. isr'.at # "pio"
        BY <1>5, <3>4 DEF Moves, EndsBadly
      <4> QED BY <1>5, <3>1, <4>1, <4>2 DEF Posted, Truthful
    <3>5. CASE /\ req.data /\ ~hw.status /\ EndsWell(flags)
               /\ hw.moved = req.total
      <4>1. req'.sem = 1
        BY <1>1, <1>3, <1>7, <3>5, ServedFields DEF Clean
      <4>2. isr'.at # "pio"
        BY <1>5, <3>5 DEF Moves, EndsWell
      <4>3. hw'.moved = req'.total
        BY <1>3, <1>9, <3>5 DEF Same
      <4> QED BY <1>5, <3>1, <4>1, <4>2, <4>3 DEF Posted, Truthful
    <3> QED BY <1>7, <2>2, <3>2, <3>3, <3>4, <3>5 DEF Ended, EndsBadly, EndsWell
  <2> QED BY <1>2, <1>8, <2>1, <2>2
<1> QED BY <1>2, <1>3, <1>4, <1>6, <1>10, <1>11 DEF RequestIInv

(* The loop takes a block only out of a transfer that is under way.         *)
LEMMA PioBlockInv ==
    ASSUME RequestIInv, PioBlock
    PROVE  RequestIInv'
<1>1. req \in Request /\ hw \in Bus /\ isr \in Isr
  BY DEF RequestIInv, TypeOK
<1>2. pc = "wait" /\ Transferring
  BY DEF PioBlock, RequestIInv, CallSound, Quiet, Commanded, Ended, Silent,
         Posted, Stuck
<1>3. hw.moved + 1 \in 0..MaxBlocks /\ hw.moved + 1 + hw.left = req.total
  BY <1>1, <1>2, BlocksAssumption DEF PioBlock, Transferring, Bus, Request
<1>4. TypeOK'
  <2>1. hw' \in Bus
    BY <1>1, <1>3 DEF PioBlock, Bus
  <2>2. isr' \in Isr
    <3>1. isr.blocks - 1 \in 0..MaxBlocks
      BY <1>1, BlocksAssumption DEF PioBlock, Isr
    <3> QED BY <1>1, <3>1 DEF PioBlock, Isr
  <2> QED BY <2>1, <2>2 DEF PioBlock, RequestIInv, TypeOK
<1>5. isr'.at = "pio" /\ isr'.seen = isr.seen /\ "BUF_READY" \in isr.seen
  BY <1>1 DEF PioBlock, Isr, RequestIInv, InterruptSound
<1>6. /\ hw'.cmd = hw.cmd /\ hw'.data = hw.data /\ hw'.status = hw.status
      /\ hw'.dma = hw.dma /\ hw'.left = hw.left /\ hw'.moved = hw.moved + 1
      /\ ~hw'.buf
  BY <1>1 DEF PioBlock, Bus
<1>7. Transferring'
  <2>1. ~hw.dma
    BY <1>2 DEF PioBlock, Transferring
  <2>2. hw'.moved + hw'.left + 0 = req.total
    BY <1>1, <1>3, <1>6 DEF Bus
  <2> QED BY <1>2, <1>5, <1>6, <2>1, <2>2 DEF PioBlock, Transferring, Clean, Unserved
<1> QED BY <1>2, <1>4, <1>5, <1>7 DEF PioBlock, RequestIInv, InterruptSound,
           CallSound, SuccessMeansMoved

LEMMA PioEndInv ==
    ASSUME RequestIInv, PioEnd
    PROVE  RequestIInv'
<1>1. isr \in Isr
  BY DEF RequestIInv, TypeOK
<1>2. isr' \in Isr /\ isr'.at = "clear" /\ isr'.seen = isr.seen
  BY <1>1 DEF PioEnd, Isr
<1>3. TypeOK' /\ InterruptSound' /\ Unserved' = Unserved
  BY <1>2 DEF PioEnd, RequestIInv, TypeOK, InterruptSound, Unserved
<1>4. pc = "wait" /\ (Transferring \/ Ended)
  BY DEF PioEnd, RequestIInv, CallSound, Quiet, Commanded, Posted, Stuck
<1>5. Transferring' \/ Ended'
  BY <1>3, <1>4 DEF PioEnd, Transferring, Ended, Silent, Clean
<1> QED BY <1>3, <1>4, <1>5 DEF PioEnd, RequestIInv, CallSound, SuccessMeansMoved

LEMMA ClearIrqInv ==
    ASSUME RequestIInv, ClearIrq
    PROVE  RequestIInv'
<1>1. isr' = Out /\ isr' \in Isr /\ isr'.at = "out" /\ isr'.seen = {}
  BY BlocksAssumption DEF ClearIrq, Out, Isr
<1>2. TypeOK' /\ InterruptSound'
  BY <1>1 DEF ClearIrq, RequestIInv, TypeOK, InterruptSound
<1>3. flags' = Unserved /\ Unserved' = Unserved
  BY <1>1 DEF ClearIrq, Unserved
<1>4. pc = "wait" /\ ~Commanded
  BY DEF ClearIrq, RequestIInv, CallSound, Quiet, Commanded
<1>5. Transferring => Transferring'
  BY <1>3 DEF ClearIrq, Transferring, Clean, Unserved
<1>6. Ended => Ended'
  BY <1>1, <1>3 DEF ClearIrq, Ended, Silent, Clean, Unserved
<1>7. (Posted => Posted') /\ (Stuck => Stuck')
  BY <1>1, <1>3 DEF ClearIrq, Posted, Stuck, Silent, Truthful
<1> QED BY <1>2, <1>4, <1>5, <1>6, <1>7 DEF ClearIrq, RequestIInv, CallSound,
                                            SuccessMeansMoved

-----------------------------------------------------------------------------
(* The steps of the controller and the card.                                *)

(* A good response starts the transfer, a bad one ends the request.         *)
LEMMA AnswerInv ==
    ASSUME RequestIInv, NoDataStatus, Answer
    PROVE  RequestIInv'
<1>1. hw \in Bus
  BY DEF RequestIInv, TypeOK
<1>2. pc = "wait" /\ Commanded /\ Quiet /\ isr.seen = {}
  BY DEF Answer, RequestIInv, CallSound, InterruptSound, Silent, Transferring,
         Ended, Posted, Stuck, Commanded, Quiet
<1>3. /\ hw' \in Bus /\ ~hw'.cmd /\ ~hw'.buf /\ hw'.left = hw.left
      /\ hw'.moved = hw.moved
      /\ \/ /\ flags' = {"CMD_COMPLETE"} /\ ~hw'.status
            /\ hw'.data = IF req.data THEN "active" ELSE "none"
         \/ /\ flags' = {"CMD_COMPLETE"} /\ ~req.data /\ hw'.data = "none"
         \/ /\ flags' = {"CMD_ERR"} /\ hw'.data = "none"
  <2>1. hw.data = (IF req.data THEN "armed" ELSE "none") /\ ~hw.buf /\ flags = {}
    BY <1>2 DEF Commanded, Quiet
  <2>2. CASE /\ hw' = [hw EXCEPT !.cmd = FALSE, !.status = FALSE,
                       !.data = IF @ = "armed" THEN "active" ELSE @]
             /\ Raise({"CMD_COMPLETE"})
    <3>1. hw' \in Bus
      BY <1>1, <2>2 DEF Bus
    <3>2. /\ ~hw'.cmd /\ ~hw'.buf /\ hw'.left = hw.left /\ ~hw'.status
          /\ hw'.moved = hw.moved
          /\ hw'.data = IF req.data THEN "active" ELSE "none"
      BY <1>1, <2>1, <2>2 DEF Bus
    <3> QED BY <2>1, <2>2, <3>1, <3>2 DEF Raise
  <2>3. CASE /\ (IF hw.data = "armed" THEN "dataStatus" ELSE "status") \in Faults
             /\ hw' = [hw EXCEPT !.cmd = FALSE, !.status = TRUE,
                       !.data = IF @ = "armed" THEN "active" ELSE @]
             /\ Raise({"CMD_COMPLETE"})
    <3>1. ~req.data
      BY <2>1, <2>3 DEF NoDataStatus
    <3>2. hw' \in Bus
      BY <1>1, <2>3 DEF Bus
    <3>3. /\ ~hw'.cmd /\ ~hw'.buf /\ hw'.left = hw.left /\ hw'.data = "none"
          /\ hw'.moved = hw.moved
      BY <1>1, <2>1, <2>3, <3>1 DEF Bus
    <3> QED BY <2>1, <2>3, <3>1, <3>2, <3>3 DEF Raise
  <2>4. CASE /\ hw' = [hw EXCEPT !.cmd = FALSE,
                       !.data = IF @ = "armed" THEN "none" ELSE @]
             /\ Raise({"CMD_ERR"})
    <3>1. hw' \in Bus
      BY <1>1, <2>4 DEF Bus
    <3>2. /\ ~hw'.cmd /\ ~hw'.buf /\ hw'.left = hw.left /\ hw'.data = "none"
          /\ hw'.moved = hw.moved
      BY <1>1, <2>1, <2>4 DEF Bus
    <3> QED BY <2>1, <2>4, <3>1, <3>2 DEF Raise
  <2> QED BY <2>2, <2>3, <2>4 DEF Answer
<1>4. UNCHANGED <<pc, req, current, isr>>
  BY DEF Answer
<1>5. TypeOK' /\ InterruptSound'
  BY <1>2, <1>3, <1>4 DEF RequestIInv, TypeOK, InterruptSound, Flags
<1>6. Clean' /\ isr'.at = "out" /\ Unserved' = flags'
  BY <1>2, <1>4 DEF Commanded, Clean, Quiet, Unserved
<1>7. Transferring' \/ Ended'
  <2>1. CASE hw'.data = "active"
    <3>1. req.data /\ flags' = {"CMD_COMPLETE"} /\ ~hw'.status
      BY <1>3, <2>1
    <3>2. hw'.moved = 0 /\ hw'.left = req.total /\ req.total \in Nat /\ req.total > 0
      BY <1>2, <1>3, <3>1, BlocksAssumption
         DEF Commanded, RequestIInv, CallSound, TypeOK, Request
    <3>3. hw'.moved + hw'.left + 0 = req.total
      BY <3>2
    <3> QED BY <1>3, <1>4, <1>6, <2>1, <3>1, <3>2, <3>3 DEF Transferring
  <2>2. CASE hw'.data # "active"
    <3>1. Silent'
      BY <1>3, <2>2 DEF Silent
    <3>2. \/ ~req.data /\ flags' \in {{"CMD_COMPLETE"}, {"CMD_ERR"}}
          \/ req.data /\ flags' = {"CMD_ERR"}
      BY <1>3, <2>2
    <3> QED BY <1>4, <1>6, <3>1, <3>2 DEF Ended
  <2> QED BY <2>1, <2>2
<1> QED BY <1>2, <1>4, <1>5, <1>7 DEF RequestIInv, CallSound, SuccessMeansMoved

(* Blocks move only for the request that waits for them.                    *)
LEMMA ActiveTransfer ==
    ASSUME RequestIInv, hw.data = "active"
    PROVE  pc = "wait" /\ Transferring
BY DEF RequestIInv, CallSound, Silent, Commanded, Ended, Posted, Stuck

(* When the last block has moved, the flag that completes the request is    *)
(* raised and nothing else is to be served but what came before it.         *)
LEMMA CompletesInv ==
    ASSUME RequestIInv, Transferring, pc = "wait",
           NEW bus \in Bus, ~bus.cmd, ~bus.buf, ~bus.status,
           bus.moved = req.total, "BUF_READY" \notin Unserved,
           Completes(bus), UNCHANGED <<pc, req, current, isr>>
    PROVE  RequestIInv'
<1>1. PICK stop \in SUBSET {"AUTO_CMD12_ERR"} :
         /\ hw' = [bus EXCEPT !.data = "none"]
         /\ flags' = flags \cup ({"DATA_COMPLETE"} \cup stop)
  BY DEF Completes, Raise
<1>2. hw' \in Bus /\ Silent' /\ ~hw'.status /\ hw'.moved = req.total
  <2>1. hw' \in Bus
    BY <1>1 DEF Bus
  <2> QED BY <1>1, <2>1 DEF Bus, Silent
<1>3. flags' \subseteq Flags
  BY <1>1 DEF Flags, RequestIInv, TypeOK
<1>4. TypeOK' /\ InterruptSound'
  BY <1>1, <1>2, <1>3 DEF RequestIInv, TypeOK, InterruptSound
<1>5. Ended'
  <2>1. flags' \subseteq Flags \ {"CMD_ERR", "DATA_ERR"}
    BY <1>1, <1>3 DEF Transferring
  <2>2. "DATA_COMPLETE" \in Unserved'
    BY <1>1 DEF Unserved, Transferring, RequestIInv, InterruptSound
  <2>3. "BUF_READY" \notin Unserved'
    BY <1>1 DEF Unserved
  <2> QED BY <1>2, <2>1, <2>2, <2>3 DEF Transferring, Clean, Ended
<1> QED BY <1>4, <1>5 DEF RequestIInv, CallSound, SuccessMeansMoved

LEMMA DmaBlockInv ==
    ASSUME RequestIInv, DmaBlock
    PROVE  RequestIInv'
<1> DEFINE bus == [hw EXCEPT !.left = @ - 1, !.moved = @ + 1]
<1>1. req \in Request /\ hw \in Bus
  BY DEF RequestIInv, TypeOK
<1>2. pc = "wait" /\ Transferring
  BY ActiveTransfer DEF DmaBlock
<1>3. hw.left > 0 /\ ~hw.buf /\ "BUF_READY" \notin flags
  BY <1>2 DEF DmaBlock, Transferring
<1>4. /\ hw.left - 1 \in 0..MaxBlocks /\ hw.moved + 1 \in 0..MaxBlocks
      /\ (hw.moved + 1) + (hw.left - 1) = req.total
  BY <1>1, <1>2, <1>3, BlocksAssumption DEF Transferring, Bus, Request
<1>5. bus \in Bus
  BY <1>1, <1>4 DEF Bus
<1>6. /\ bus.cmd = hw.cmd /\ bus.data = hw.data /\ bus.status = hw.status
      /\ bus.dma = hw.dma /\ bus.left = hw.left - 1
      /\ bus.moved = hw.moved + 1 /\ bus.buf = hw.buf
  BY <1>1 DEF Bus
<1> HIDE DEF bus
<1>7. CASE hw.left = 1
  <2>1. Completes(bus) /\ UNCHANGED <<pc, req, current, isr>>
    BY <1>7 DEF DmaBlock, bus
  <2>2. bus.moved = req.total /\ ~bus.cmd /\ ~bus.buf /\ ~bus.status
    BY <1>1, <1>2, <1>3, <1>4, <1>6, <1>7 DEF Transferring, Bus, Request
  <2>3. "BUF_READY" \notin Unserved
    BY <1>3 DEF Unserved
  <2> QED BY <1>2, <1>5, <2>1, <2>2, <2>3, CompletesInv
<1>8. CASE hw.left # 1
  <2>1. hw' = bus /\ UNCHANGED <<pc, req, current, isr, flags>>
    BY <1>8 DEF DmaBlock, bus
  <2>2. TypeOK'
    BY <1>5, <2>1 DEF RequestIInv, TypeOK
  <2>3. bus.left > 0 /\ bus.moved + bus.left + 0 = req.total
    BY <1>1, <1>3, <1>4, <1>6, <1>8 DEF Bus
  <2>4. Transferring'
    BY <1>2, <1>3, <1>6, <2>1, <2>3 DEF Transferring, Clean, Unserved
  <2> QED BY <1>2, <2>1, <2>2, <2>4
          DEF RequestIInv, InterruptSound, CallSound, SuccessMeansMoved
<1> QED BY <1>7, <1>8

LEMMA BufferReadyInv ==
    ASSUME RequestIInv, BufferReady
    PROVE  RequestIInv'
<1>1. req \in Request /\ hw \in Bus
  BY DEF RequestIInv, TypeOK
<1>2. pc = "wait" /\ Transferring
  BY ActiveTransfer DEF BufferReady
<1>3. hw.left - 1 \in 0..MaxBlocks
  BY <1>1, BlocksAssumption DEF BufferReady, Bus
<1>4. hw' \in Bus
  BY <1>1, <1>3 DEF BufferReady, Bus
<1>5. /\ hw'.cmd = hw.cmd /\ hw'.data = hw.data /\ hw'.status = hw.status
      /\ hw'.dma = hw.dma /\ hw'.left = hw.left - 1
      /\ hw'.moved = hw.moved /\ hw'.buf
  BY <1>1 DEF BufferReady, Bus
<1>6. TypeOK' /\ InterruptSound'
  BY <1>4 DEF BufferReady, Raise, RequestIInv, TypeOK, InterruptSound, Flags
<1>7. hw'.moved + hw'.left + 1 = req.total
  BY <1>1, <1>2, <1>5 DEF BufferReady, Transferring, Bus, Request
<1>8. Transferring'
  BY <1>2, <1>5, <1>7 DEF BufferReady, Raise, Transferring, Clean
<1> QED BY <1>2, <1>6, <1>8 DEF BufferReady, RequestIInv, CallSound,
                                SuccessMeansMoved

LEMMA PioCompleteInv ==
    ASSUME RequestIInv, PioComplete
    PROVE  RequestIInv'
<1>1. req \in Request /\ hw \in Bus
  BY DEF RequestIInv, TypeOK
<1>2. pc = "wait" /\ Transferring
  BY ActiveTransfer DEF PioComplete
<1>3. hw.moved = req.total
  BY <1>1, <1>2 DEF PioComplete, Transferring, Bus, Request
<1>4. "BUF_READY" \notin Unserved
  BY <1>2 DEF PioComplete, Transferring
<1>5. ~hw.cmd /\ ~hw.buf /\ ~hw.status
  BY <1>2 DEF PioComplete, Transferring
<1> QED BY <1>1, <1>2, <1>3, <1>4, <1>5, CompletesInv DEF PioComplete

LEMMA TransferFailsInv ==
    ASSUME RequestIInv, TransferFails
    PROVE  RequestIInv'
<1>1. hw \in Bus
  BY DEF RequestIInv, TypeOK
<1>2. pc = "wait" /\ Transferring
  BY ActiveTransfer DEF TransferFails
<1>3. hw' \in Bus /\ Silent' /\ hw'.status = hw.status
  BY <1>1, <1>2 DEF TransferFails, Bus, Silent, Transferring
<1>4. TypeOK' /\ InterruptSound'
  BY <1>3 DEF TransferFails, Raise, RequestIInv, TypeOK, InterruptSound, Flags
<1>5. flags' = flags \cup {"DATA_ERR"} /\ "DATA_ERR" \in Unserved'
  BY <1>2 DEF TransferFails, Raise, Unserved, Transferring, RequestIInv,
              InterruptSound
<1>6. Ended'
  BY <1>2, <1>3, <1>5 DEF TransferFails, Transferring, Ended, Clean
<1> QED BY <1>2, <1>4, <1>6 DEF TransferFails, RequestIInv, CallSound,
                                SuccessMeansMoved

-----------------------------------------------------------------------------
LEMMA StutterInv ==
    ASSUME RequestIInv, UNCHANGED vars
    PROVE  RequestIInv'
BY DEF vars, RequestIInv, TypeOK, InterruptSound, CallSound, Quiet, Silent,
       Clean, Truthful, Commanded, Transferring, Ended, Posted, Stuck,
       Unserved, SuccessMeansMoved

(* The phases hold forever: one lemma per action.                           *)
LEMMA RequestInvariant ==
    ASSUME NoDataStatus
    PROVE  Spec => []RequestIInv
<1>1. Init => RequestIInv
  BY InitInv
<1>2. RequestIInv /\ [Next]_vars => RequestIInv'
  <2> SUFFICES ASSUME RequestIInv, [Next]_vars
               PROVE  RequestIInv'
    OBVIOUS
  <2>1. CASE \E data, dma \in BOOLEAN, total \in 0..MaxBlocks :
                Submit(data, dma, total)
    BY <2>1, SubmitInv
  <2>2. CASE MainStep
    BY <2>2, SendInv, WaitInv, DestroyInv, ReturnInv DEF MainStep
  <2>3. CASE Poll \/ UNCHANGED vars
    BY <2>3, StutterInv DEF Poll
  <2>4. CASE Initialize
    BY <2>4, InitializeInv
  <2>5. CASE IrqStep
    BY <2>5, EnterIrqInv, PioBlockInv, PioEndInv, ClearIrqInv DEF IrqStep
  <2>6. CASE BusStep
    BY <2>6, AnswerInv, DmaBlockInv, BufferReadyInv, PioCompleteInv DEF BusStep
  <2>7. CASE TransferFails
    BY <2>7, TransferFailsInv
  <2> QED BY <2>1, <2>2, <2>3, <2>4, <2>5, <2>6, <2>7 DEF Next
<1> QED BY <1>1, <1>2, PTL DEF Spec

(* An SDHC interrupt always finds the request it belongs to                 *)
(* (SDHC_DRV_DataIrq's assertions), unless the card answers a command with  *)
(* data with error bits: a request is completed by its last interrupt.      *)
THEOREM InterruptsFindTheirRequest ==
    ASSUME NoDataStatus
    PROVE  Spec => []RequestPresent
<1>1. RequestIInv => RequestPresent
  BY DEF RequestIInv, InterruptSound, RequestPresent
<1> QED BY <1>1, RequestInvariant, PTL

(* SDHC_DRV_IssueRequestBlocking returns kStatus_SDHC_NoError only for a    *)
(* transfer that has moved every block, by DMA or by PIO.                   *)
THEOREM SuccessIsHonest ==
    ASSUME NoDataStatus
    PROVE  Spec => []SuccessMeansMoved
<1>1. RequestIInv => SuccessMeansMoved
  BY DEF RequestIInv
<1> QED BY <1>1, RequestInvariant, PTL

(* The types of the request, the interrupt and the bus: in particular the   *)
(* PIO loop never runs past the blocks of the buffer.                       *)
THEOREM RequestTyped ==
    ASSUME NoDataStatus
    PROVE  Spec => []TypeOK
<1>1. RequestIInv => TypeOK
  BY DEF RequestIInv
<1> QED BY <1>1, RequestInvariant, PTL

=============================================================================
