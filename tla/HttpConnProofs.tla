--------------------------- MODULE HttpConnProofs ---------------------------
(***************************************************************************)
(* The ownership of a connection's http_state (StateOwned) and the types   *)
(* of the connection record, for every number of pcbs, page length, send   *)
(* buffer, queue length and retry limit.  A handler maps a sound record to *)
(* a sound record, which is one lemma per handler; a step changes one      *)
(* record by one handler.                                                  *)
(***************************************************************************)
EXTENDS HttpConn, TLAPS

Good(s) == s \in Connection /\ Sound(s)

(* The send buffer and the page are counted in natural numbers.            *)
LEMMA Numbers ==
  /\ FileLen \in Nat /\ FileLen > 0 /\ SndBuf \in Nat /\ SndBuf > 0
  /\ QueueLen \in Nat /\ QueueLen > 0 /\ MaxRetries \in Nat /\ MaxRetries > 0
  BY ConstantAssumption

(* Assigning a field a value of its type keeps a record a Connection.      *)
LEMMA Assign ==
  ASSUME NEW s \in Connection
  PROVE  /\ \A v \in PcbState : [s EXCEPT !.st = v] \in Connection
         /\ \A v \in BOOLEAN : [s EXCEPT !.up = v] \in Connection
         /\ \A v \in BOOLEAN : [s EXCEPT !.poll = v] \in Connection
         /\ \A v \in BOOLEAN : [s EXCEPT !.rx = v] \in Connection
         /\ \A v \in 0..FileLen : [s EXCEPT !.queued = v] \in Connection
         /\ \A v \in 0..SndBuf : [s EXCEPT !.unacked = v] \in Connection
         /\ \A v \in BOOLEAN : [s EXCEPT !.live = v] \in Connection
         /\ \A v \in BOOLEAN : [s EXCEPT !.page = v] \in Connection
         /\ \A v \in 0..FileLen : [s EXCEPT !.left = v] \in Connection
         /\ \A v \in 0..QueueLen : [s EXCEPT !.req = v] \in Connection
         /\ \A v \in 0..MaxRetries-1 : [s EXCEPT !.retries = v] \in Connection
         /\ \A v \in Nat : [s EXCEPT !.held = v] \in Connection
  BY DEF Connection

(* Zero, TRUE and FALSE are values of every field they are assigned to.    *)
LEMMA Zero ==
  /\ 0 \in 0..FileLen /\ 0 \in 0..SndBuf /\ 0 \in 0..QueueLen /\ 0 \in 0..MaxRetries-1
  /\ \A x \in {"none", "TIME_WAIT", "FIN_WAIT_1", "LAST_ACK", "SYN_RCVD"} : x \in PcbState
  BY Numbers DEF PcbState

(* http_state_free keeps the record's type and changes no field of the pcb. *)
LEMMA FreeStateType ==
  ASSUME NEW s \in Connection
  PROVE  /\ FreeState(s) \in Connection
         /\ ~FreeState(s).live /\ ~FreeState(s).page /\ FreeState(s).left = 0
         /\ FreeState(s).req = 0 /\ FreeState(s).retries = 0
         /\ FreeState(s).st = s.st /\ FreeState(s).held = s.held
<1>1. FreeState(s) \in Connection
  BY Assign, Zero DEF FreeState
<1> QED BY <1>1 DEF FreeState, Connection

(* A pcb that goes back to its pool.                                       *)
LEMMA GoneType ==
  ASSUME NEW s \in Connection
  PROVE  /\ Gone(s) \in Connection
         /\ Gone(s).st = "none" /\ ~Gone(s).up /\ ~Gone(s).poll /\ ~Gone(s).rx
         /\ Gone(s).queued = 0 /\ Gone(s).unacked = 0
         /\ Gone(s).live = s.live /\ Gone(s).page = s.page /\ Gone(s).left = s.left
         /\ Gone(s).req = s.req /\ Gone(s).retries = s.retries /\ Gone(s).held = s.held
<1>1. Gone(s) \in Connection
  BY Assign, Zero DEF Gone
<1> QED BY <1>1 DEF Gone, Connection

(* Without a state it leaves a sound record.                               *)
LEMMA GoneGood ==
  ASSUME NEW s \in Connection, ~s.live, ~s.page, s.left = 0, s.req = 0, s.retries = 0
  PROVE  Good(Gone(s))
<1>1. s.held \in Nat
  BY DEF Connection
<1> QED BY <1>1, GoneType DEF Good, Sound, Owned, Blank, Open

(* http_err is always called for the state of a sound connection.          *)
LEMMA HttpErrGood ==
  ASSUME NEW s, Good(s)
  PROVE  Good(HttpErr(s)) /\ HttpErr(s).st = "none"
<1>0. s \in Connection
  BY DEF Good
<1>1. CASE s.up
  BY <1>0, <1>1, FreeStateType, GoneGood, GoneType DEF HttpErr
<1>2. CASE ~s.up
  <2>1. ~s.live /\ ~s.page /\ s.req = 0 /\ s.left = 0 /\ s.retries = 0
    BY <1>2 DEF Good, Sound, Owned
  <2> QED BY <1>0, <1>2, <2>1, GoneGood, GoneType DEF HttpErr
<1> QED BY <1>1, <1>2

(* tcp_close ends httpd's interest in the pcb, whatever the close comes to. *)
LEMMA CloseConnGood ==
  ASSUME NEW s \in Connection, s.st \in Open,
         NEW win \in Windows, NEW mem \in BOOLEAN
  PROVE  /\ Good(CloseConn(s, win, mem))
         /\ ~CloseConn(s, win, mem).up
         /\ CloseConn(s, win, mem).rx \/ CloseConn(s, win, mem).st = "none"
<1> DEFINE f == FreeState(s)
           d == [f EXCEPT !.up = FALSE, !.poll = FALSE, !.rx = TRUE]
           r == CloseConn(s, win, mem)
<1>1. f \in Connection
  BY FreeStateType DEF Connection
<1>2. d \in Connection
  BY <1>1, Assign
<1>3. /\ ~d.up /\ ~d.poll /\ d.rx /\ ~d.live /\ ~d.page
      /\ d.left = 0 /\ d.req = 0 /\ d.retries = 0 /\ d.st = s.st /\ d.held \in Nat
  BY <1>1, FreeStateType DEF Connection
<1> HIDE DEF d
<1>4. CASE win # "full" /\ s.st = "ESTABLISHED"
  <2>1. r = [d EXCEPT !.st = "TIME_WAIT", !.unacked = 0]
    BY <1>4 DEF CloseConn, CloseWith, d
  <2>a. "TIME_WAIT" \in PcbState /\ 0 \in 0..SndBuf
    BY Zero
  <2>b. [d EXCEPT !.st = "TIME_WAIT"] \in Connection
    BY <2>a, <1>2, Assign
  <2>2. r \in Connection
    BY <2>1, <2>a, <2>b, Assign
  <2>3. /\ ~r.up /\ r.rx /\ ~r.live /\ ~r.page /\ r.st = "TIME_WAIT"
        /\ r.left = 0 /\ r.req = 0 /\ r.retries = 0 /\ r.held \in Nat
    BY <2>1, <1>2, <1>3 DEF Connection
  <2> QED BY <2>2, <2>3 DEF Good, Sound, Owned, Open
<1>5. CASE win # "full" /\ s.st # "ESTABLISHED"
  <2>1. r = Gone(d)
    BY <1>5 DEF CloseConn, CloseWith, d
  <2> QED BY <2>1, <1>2, <1>3, GoneGood, GoneType
<1>6. CASE win = "full" /\ mem
  <2> DEFINE st == IF s.st = "ESTABLISHED" THEN "FIN_WAIT_1" ELSE "LAST_ACK"
  <2>1. r = [d EXCEPT !.st = st]
    BY <1>6, <1>2, <1>3 DEF CloseConn, CloseWith, d, Connection
  <2>a. st \in PcbState
    BY Zero
  <2> HIDE DEF st
  <2>2. r \in Connection
    BY <2>1, <2>a, <1>2, Assign
  <2>3. /\ ~r.up /\ r.rx /\ ~r.live /\ ~r.page /\ r.st \in {"FIN_WAIT_1", "LAST_ACK"}
        /\ r.left = 0 /\ r.req = 0 /\ r.retries = 0 /\ r.held \in Nat
    BY <2>1, <1>2, <1>3 DEF Connection, st
  <2> QED BY <2>2, <2>3 DEF Good, Sound, Owned, Open
<1>7. CASE win = "full" /\ ~mem
  <2>1. r = [d EXCEPT !.poll = TRUE]
    BY <1>7 DEF CloseConn, CloseWith, d
  <2>2. r \in Connection
    BY <2>1, <1>2, Assign
  <2>3. /\ ~r.up /\ r.rx /\ ~r.live /\ ~r.page /\ r.st \in Open /\ r.poll
        /\ r.left = 0 /\ r.req = 0 /\ r.retries = 0 /\ r.held \in Nat
    BY <2>1, <1>2, <1>3 DEF Connection
  <2> QED BY <2>2, <2>3 DEF Good, Sound, Owned, Open
<1> QED BY <1>4, <1>5, <1>6, <1>7 DEF Windows

(* http_send moves what tcp_write took from hs->left to the send queue.    *)
LEMMA HttpSendGood ==
  ASSUME NEW s, Good(s), s.page,
         NEW win \in Windows, NEW w \in 0..SndBuf, NEW mem \in BOOLEAN
  PROVE  /\ Good(HttpSend(s, win, w, mem))
         /\ HttpSend(s, win, w, mem).up \/ HttpSend(s, win, w, mem).rx
              \/ HttpSend(s, win, w, mem).st = "none"
<1> DEFINE n == Least(w, Least(s.left, SndBuf - s.unacked))
           t == [s EXCEPT !.left = @ - n, !.queued = @ + n, !.unacked = @ + n]
<1>1. /\ s \in Connection /\ s.live /\ s.up /\ s.st \in Open /\ s.poll /\ ~s.rx
      /\ s.req = 0 /\ s.held \in Nat
  BY DEF Good, Sound, Owned, Connection
<1>2. /\ s.left \in 0..FileLen /\ s.queued \in 0..FileLen /\ s.unacked \in 0..SndBuf
      /\ s.queued + s.left = FileLen
  BY DEF Good, Sound, Connection
<1>3. n \in Nat /\ n <= s.left /\ n <= SndBuf - s.unacked
  BY <1>2, Numbers DEF Least
<1>4. s.left - n \in 0..FileLen /\ s.queued + n \in 0..FileLen /\ s.unacked + n \in 0..SndBuf
  BY <1>2, <1>3, Numbers
<1> HIDE DEF n
<1>5. t = [[[s EXCEPT !.left = s.left - n] EXCEPT !.queued = s.queued + n]
             EXCEPT !.unacked = s.unacked + n]
  BY <1>1 DEF Connection
<1>6. t \in Connection
  BY <1>1, <1>4, <1>5, Assign
<1>7. /\ t.left = s.left - n /\ t.queued = s.queued + n /\ t.st = s.st /\ t.live /\ t.up
      /\ t.page /\ t.poll /\ ~t.rx /\ t.req = 0 /\ t.held = s.held
  BY <1>1, <1>5 DEF Connection
<1>8. HttpSend(s, win, w, mem) = IF t.left = 0 THEN CloseConn(t, win, mem) ELSE t
  BY DEF HttpSend, n
<1> HIDE DEF t
<1>9. CASE t.left = 0
  BY <1>9, <1>8, <1>6, <1>7, <1>1, CloseConnGood
<1>10. CASE t.left # 0
  <2>1. t.left > 0 /\ t.queued + t.left = FileLen
    BY <1>10, <1>7, <1>2, <1>3, <1>4
  <2> QED BY <1>10, <2>1, <1>8, <1>6, <1>7, <1>1 DEF Good, Sound, Owned, Open
<1> QED BY <1>9, <1>10

(* http_recv takes a pbuf and, at most, opens the page or closes.          *)
LEMMA HttpRecvGood ==
  ASSUME NEW s, Good(s), s.up,
         NEW win \in Windows, NEW parsed \in Parses, NEW w \in 0..SndBuf, NEW mem \in BOOLEAN
  PROVE  Good(HttpRecv(s, win, parsed, w, mem))
<1> DEFINE got  == [s EXCEPT !.held = @ + 1]
           done == [s EXCEPT !.held = @ - s.req, !.req = 0]
           r    == HttpRecv(s, win, parsed, w, mem)
<1>1. /\ s \in Connection /\ s.live /\ s.st \in Open /\ s.poll /\ ~s.rx
      /\ s.req <= s.held /\ s.held \in Nat /\ s.req \in 0..QueueLen
  BY DEF Good, Sound, Owned, Connection
<1>2. got = [s EXCEPT !.held = s.held + 1] /\ got \in Connection
  BY <1>1, Assign
<1>6. /\ got.st = s.st /\ got.live /\ got.up /\ got.poll /\ ~got.rx /\ got.page = s.page
      /\ got.left = s.left /\ got.queued = s.queued /\ got.unacked = s.unacked
      /\ got.req = s.req /\ got.held = s.held + 1
  BY <1>1, <1>2 DEF Connection
<1>3. s.held - s.req \in Nat
  BY <1>1, Numbers
<1>4. done = [[s EXCEPT !.held = s.held - s.req] EXCEPT !.req = 0]
  BY <1>1 DEF Connection
<1>5. done \in Connection
  BY <1>1, <1>3, <1>4, Assign, Zero
<1>7. /\ done.st = s.st /\ done.live /\ done.up /\ done.poll /\ ~done.rx
      /\ done.queued = s.queued /\ done.req = 0 /\ done.held \in Nat
  BY <1>1, <1>3, <1>4 DEF Connection
<1>8. CASE s.page
  <2>1. r = got
    BY <1>8 DEF HttpRecv
  <2>2. s.req = 0 /\ s.left > 0 /\ s.queued + s.left = FileLen
    BY <1>8 DEF Good, Sound, Owned
  <2> QED BY <1>8, <2>1, <2>2, <1>1, <1>2, <1>6 DEF Good, Sound, Owned, Open
<1>9. CASE ~s.page /\ parsed = "OK"
  <2> DEFINE p == [done EXCEPT !.page = TRUE, !.left = FileLen, !.retries = 0]
  <2>1. r = HttpSend(p, win, w, mem)
    BY <1>9 DEF HttpRecv, Parses
  <2>2. FileLen \in 0..FileLen /\ s.queued = 0
    BY <1>9, <1>1, Numbers DEF Good, Sound
  <2>3. p \in Connection
    BY <1>5, <2>2, Zero, Assign
  <2>4. /\ p.st = s.st /\ p.live /\ p.up /\ p.poll /\ ~p.rx /\ p.page /\ p.left = FileLen
        /\ p.queued = 0 /\ p.req = 0 /\ p.held \in Nat
    BY <1>5, <1>7, <2>2 DEF Connection
  <2>5. Good(p)
    BY <2>3, <2>4, <1>1, Numbers DEF Good, Sound, Owned, Open
  <2> HIDE DEF p
  <2> QED BY <2>1, <2>4, <2>5, HttpSendGood
<1>10. CASE ~s.page /\ parsed = "INPROGRESS" /\ s.req < QueueLen
  <2> DEFINE q == [got EXCEPT !.req = s.req + 1]
  <2>1. r = q
    BY <1>10, <1>1, <1>6, Numbers DEF HttpRecv
  <2>2. s.req + 1 \in 0..QueueLen
    BY <1>10, <1>1, Numbers
  <2>3. q \in Connection
    BY <2>2, <1>2, Assign
  <2>4. /\ q.st = s.st /\ q.live /\ q.up /\ q.poll /\ ~q.rx /\ ~q.page /\ q.left = s.left
        /\ q.queued = s.queued /\ q.unacked = s.unacked
        /\ q.req = s.req + 1 /\ q.held = s.held + 1
    BY <1>10, <1>2, <1>6 DEF Connection
  <2>5. s.queued = 0 /\ s.unacked = 0 /\ s.left = 0
    BY <1>10, <1>1 DEF Good, Sound
  <2> HIDE DEF q
  <2> QED BY <2>1, <2>3, <2>4, <2>5, <1>1 DEF Good, Sound, Owned, Open
<1>11. CASE ~s.page /\ (parsed = "ARG" \/ (parsed = "INPROGRESS" /\ s.req >= QueueLen))
  <2>1. r = CloseConn(done, win, mem)
    BY <1>11, <1>1, Numbers DEF HttpRecv
  <2> QED BY <2>1, <1>1, <1>5, <1>7, CloseConnGood
<1>12. s.req < QueueLen \/ s.req >= QueueLen
  BY <1>1, Numbers
<1> QED BY <1>8, <1>9, <1>10, <1>11, <1>12 DEF Parses

(* http_sent resets the retries and sends.                                 *)
LEMMA HttpSentGood ==
  ASSUME NEW s, Good(s), s.up => s.page,
         NEW win \in Windows, NEW w \in 0..SndBuf, NEW mem \in BOOLEAN
  PROVE  /\ Good(HttpSent(s, win, w, mem))
         /\ \/ ~s.up /\ HttpSent(s, win, w, mem) = s
            \/ HttpSent(s, win, w, mem).up
            \/ HttpSent(s, win, w, mem).rx
            \/ HttpSent(s, win, w, mem).st = "none"
<1> DEFINE z == [s EXCEPT !.retries = 0]
<1>1. CASE s.up
  <2>1. s \in Connection /\ s.page
    BY <1>1 DEF Good
  <2>2. z \in Connection
    BY <2>1, Assign, Zero
  <2>3. /\ z.st = s.st /\ z.live = s.live /\ z.up = s.up /\ z.poll = s.poll /\ z.rx = s.rx
        /\ z.page = s.page /\ z.left = s.left /\ z.queued = s.queued /\ z.unacked = s.unacked
        /\ z.req = s.req /\ z.held = s.held
    BY <2>1 DEF Connection
  <2> HIDE DEF z
  <2>4. Good(z)
    BY <2>1, <2>2, <2>3, <1>1 DEF Good, Sound, Owned, Open
  <2>5. HttpSent(s, win, w, mem) = HttpSend(z, win, w, mem)
    BY <1>1 DEF HttpSent, z
  <2> QED BY <2>1, <2>3, <2>4, <2>5, HttpSendGood
<1>2. CASE ~s.up
  BY <1>2 DEF HttpSent
<1> QED BY <1>1, <1>2

(* tcp_process moves an open connection to an open state and a closed one  *)
(* to a closed one, and touches nothing that httpd owns.                   *)
LEMMA TcpProcessType ==
  ASSUME NEW s \in Connection, s.st \notin {"none", "TIME_WAIT"}, NEW seg \in Arriving(s)
  PROVE  LET p == TcpProcess(s, seg) IN
         /\ p \in Connection
         /\ p.st = NextState(s.st, seg)
         /\ p.up = s.up /\ p.poll = s.poll /\ p.rx = s.rx /\ p.queued = s.queued
         /\ p.live = s.live /\ p.page = s.page /\ p.left = s.left
         /\ p.req = s.req /\ p.retries = s.retries /\ p.held = s.held
         /\ p.st \in Open <=> s.st \in Open \cup {"SYN_RCVD"}
         /\ p.st \notin {"none", "SYN_RCVD"}
         /\ p.st \in Open => p.unacked = s.unacked - seg.acked
<1> DEFINE p  == TcpProcess(s, seg)
           to == NextState(s.st, seg)
           u  == IF to = "TIME_WAIT" THEN 0 ELSE s.unacked - seg.acked
<1>1. /\ seg \in Segment /\ seg.acked \in 0..SndBuf /\ seg.acked <= s.unacked
      /\ s.unacked \in 0..SndBuf /\ s.st \in PcbState
  BY DEF Arriving, Segment, Connection
<1>2. /\ to \in PcbState /\ to \notin {"none", "SYN_RCVD"}
      /\ to \in Open <=> s.st \in Open \cup {"SYN_RCVD"}
  BY <1>1 DEF NextState, PcbState, Open
<1>3. u \in 0..SndBuf
  BY <1>1, Numbers
<1>4. p = [[s EXCEPT !.st = to] EXCEPT !.unacked = u]
  BY DEF TcpProcess, Connection
<1>5. to \in Open => u = s.unacked - seg.acked
  BY DEF Open
<1> HIDE DEF to, u
<1>a. [s EXCEPT !.st = to] \in Connection
  BY <1>2, Assign
<1>b. [[s EXCEPT !.st = to] EXCEPT !.unacked = u] \in Connection
  BY <1>a, <1>3, Assign
<1>6. p \in Connection
  BY <1>b, <1>4
<1>7. /\ p.st = to /\ p.unacked = u /\ p.up = s.up /\ p.poll = s.poll /\ p.rx = s.rx
      /\ p.queued = s.queued /\ p.live = s.live /\ p.page = s.page /\ p.left = s.left
      /\ p.req = s.req /\ p.retries = s.retries /\ p.held = s.held
  BY <1>4 DEF Connection
<1> QED BY <1>2, <1>5, <1>6, <1>7 DEF to

(* The events of one segment, each on what the one before it has left.     *)
LEMMA TcpEventsGood ==
  ASSUME NEW s, Good(s), s.st # "none", s.st # "SYN_RCVD", NEW seg \in Segment,
         seg.acked > 0 /\ s.up => s.page,
         NEW parsed \in Parses, NEW w \in 0..SndBuf, NEW mem \in BOOLEAN
  PROVE  Good(TcpEvents(s, seg, parsed, w, mem))
<1> DEFINE fin == IF seg.fin THEN "short" ELSE "full"
           win == IF seg.data THEN "short" ELSE fin
           a == IF seg.acked > 0 THEN HttpSent(s, win, w, mem) ELSE s
           d == IF seg.data /\ a.st # "none" THEN HttpRecv(a, fin, parsed, w, mem) ELSE a
           f == IF seg.fin /\ d.up THEN CloseConn(d, "full", mem) ELSE d
           r == TcpEvents(s, seg, parsed, w, mem)
<1>1. fin \in Windows /\ win \in Windows /\ "full" \in Windows
  BY DEF Windows
<1>2. r = IF seg.data /\ a.rx THEN Gone(a) ELSE f
  BY DEF TcpEvents
<1> HIDE DEF fin, win, r
<1>3. Good(a)
  BY <1>1, HttpSentGood
<1>4. a.up \/ a.rx \/ a.st = "none"
  <2>1. s.up \/ s.rx
    BY DEF Good, Sound, Owned
  <2> QED BY <2>1, <1>1, HttpSentGood
<1> HIDE DEF a
<1>5. CASE seg.data /\ a.rx
  <2>1. /\ a \in Connection /\ ~a.live /\ ~a.page /\ a.left = 0 /\ a.req = 0 /\ a.retries = 0
    BY <1>3, <1>5 DEF Good, Sound, Owned
  <2> QED BY <1>5, <1>2, <2>1, GoneGood DEF r
<1>6. CASE ~(seg.data /\ a.rx)
  <2>1. Good(d)
    BY <1>1, <1>3, <1>4, <1>6, HttpRecvGood
  <2> HIDE DEF d
  <2>2. d.up => d \in Connection /\ d.st \in Open
    BY <2>1 DEF Good, Sound, Owned
  <2>3. Good(f)
    BY <1>1, <2>1, <2>2, CloseConnGood
  <2> HIDE DEF f
  <2>4. r = f
    BY <1>2, <1>6
  <2> QED BY <2>3, <2>4 DEF r
<1> QED BY <1>5, <1>6

(* The state allocated by http_accept for a connection just established.   *)
LEMMA AcceptGood ==
  ASSUME NEW s, Good(s), s.st = "SYN_RCVD", NEW seg \in Arriving(s)
  PROVE  LET h == HttpAccept(TcpProcess(s, seg)) IN
         Good(h) /\ h.st \in Open /\ seg.acked = 0
<1> DEFINE p == TcpProcess(s, seg)
           h == HttpAccept(p)
<1>1. s \in Connection /\ Blank(s) /\ s.held \in Nat /\ s.req <= s.held
  BY DEF Good, Sound, Connection
<1>2. seg.acked = 0
  <2>1. seg.acked \in 0..SndBuf /\ seg.acked <= s.unacked
    BY DEF Arriving, Segment
  <2> QED BY <2>1, <1>1, Numbers DEF Blank
<1>3. /\ p \in Connection /\ p.st \in Open /\ ~p.rx /\ ~p.page
      /\ p.queued = 0 /\ p.unacked = 0 /\ p.left = 0 /\ p.req = 0 /\ p.held \in Nat
  BY <1>1, <1>2, TcpProcessType DEF Blank
<1> HIDE DEF p
<1>4. h \in Connection
  BY <1>3, Assign DEF HttpAccept
<1>5. /\ h.st = p.st /\ h.up /\ h.live /\ h.poll /\ ~h.rx /\ ~h.page
      /\ h.queued = 0 /\ h.unacked = 0 /\ h.left = 0 /\ h.req = 0 /\ h.held \in Nat
  BY <1>3 DEF HttpAccept, Connection
<1> HIDE DEF h
<1>6. Good(h)
  BY <1>3, <1>4, <1>5 DEF Good, Sound, Owned, Blank, Open
<1> QED BY <1>2, <1>3, <1>5, <1>6 DEF h, p

(* A segment for a connection that is past its handshake.                  *)
LEMMA InputGood ==
  ASSUME NEW s, Good(s), s.st \notin {"none", "SYN_RCVD", "TIME_WAIT"}, NEW seg \in Arriving(s)
  PROVE  LET p == TcpProcess(s, seg) IN
         /\ Good(p) /\ p.st # "none" /\ p.st # "SYN_RCVD"
         /\ seg.acked > 0 /\ p.up => p.page
<1> DEFINE p == TcpProcess(s, seg)
<1>1. s \in Connection /\ s.unacked \in 0..SndBuf /\ seg.acked \in 0..SndBuf
      /\ seg.acked <= s.unacked
  BY DEF Good, Connection, Arriving, Segment
<1>2. /\ p \in Connection /\ p.st = NextState(s.st, seg)
      /\ p.up = s.up /\ p.poll = s.poll /\ p.rx = s.rx /\ p.queued = s.queued
      /\ p.live = s.live /\ p.page = s.page /\ p.left = s.left
      /\ p.req = s.req /\ p.retries = s.retries /\ p.held = s.held
      /\ p.st \in Open <=> s.st \in Open
      /\ p.st \notin {"none", "SYN_RCVD"}
      /\ p.st \in Open => p.unacked = s.unacked - seg.acked
  BY <1>1, TcpProcessType
<1> HIDE DEF p
<1>3. s.live /\ ~s.page => s.unacked = 0 /\ seg.acked = 0 /\ s.st \in Open
  BY <1>1, Numbers DEF Good, Sound, Owned
<1>4. seg.acked > 0 /\ p.up => p.page
  BY <1>1, <1>2, <1>3 DEF Good, Sound, Owned
<1>5. Good(p)
  BY <1>1, <1>2, <1>3 DEF Good, Sound, Owned, Open
<1> QED BY <1>2, <1>4, <1>5 DEF p

(* http_poll counts, sends, closes or aborts.                              *)
LEMMA HttpPollGood ==
  ASSUME NEW s, Good(s), s.st \in Open, NEW w \in 0..SndBuf, NEW mem \in BOOLEAN
  PROVE  Good(HttpPoll(s, w, mem))
<1> DEFINE t == [s EXCEPT !.retries = s.retries + 1]
           r == HttpPoll(s, w, mem)
<1>0. s \in Connection /\ "full" \in Windows /\ s.retries \in 0..MaxRetries-1
  BY DEF Good, Windows, Connection
<1>1. CASE ~s.up
  <2>1. ~s.live /\ ~s.page /\ s.left = 0 /\ s.req = 0 /\ s.retries = 0
    BY <1>1 DEF Good, Sound, Owned
  <2>2. r = IF mem THEN CloseConn(s, "full", mem) ELSE Gone(s)
    BY <1>1 DEF HttpPoll
  <2> QED BY <2>1, <2>2, <1>0, CloseConnGood, GoneGood
<1>2. CASE s.up /\ s.retries + 1 = MaxRetries
  <2>1. r = CloseConn(s, "full", mem)
    BY <1>2 DEF HttpPoll
  <2> QED BY <2>1, <1>0, CloseConnGood
<1>3. CASE s.up /\ s.retries + 1 # MaxRetries
  <2>1. s.retries + 1 \in 0..MaxRetries-1
    BY <1>3, <1>0, Numbers
  <2>2. t \in Connection
    BY <2>1, <1>0, Assign
  <2>3. /\ t.st = s.st /\ t.live = s.live /\ t.up = s.up /\ t.poll = s.poll /\ t.rx = s.rx
        /\ t.page = s.page /\ t.left = s.left /\ t.queued = s.queued /\ t.unacked = s.unacked
        /\ t.req = s.req /\ t.held = s.held
    BY <1>0 DEF Connection
  <2>4. r = IF s.page THEN HttpSend(t, "full", w, mem) ELSE t
    BY <1>3 DEF HttpPoll
  <2> HIDE DEF t
  <2>5. Good(t)
    BY <2>2, <2>3, <1>3 DEF Good, Sound, Owned, Open
  <2> QED BY <2>3, <2>4, <2>5, <1>0, HttpSendGood
<1> QED BY <1>1, <1>2, <1>3

(* Replacing one connection's record by a good one keeps all of them good. *)
LEMMA BecomesGood ==
  ASSUME conn \in [Conns -> Connection], ConnIInv, NEW c \in Conns, NEW s, Good(s), Becomes(c, s)
  PROVE  conn' \in [Conns -> Connection] /\ ConnIInv'
<1>1. s \in Connection /\ Sound(s)
  BY DEF Good
<1>2. conn' \in [Conns -> Connection]
  BY <1>1 DEF Becomes
<1>3. \A x \in Conns : conn'[x] = IF x = c THEN s ELSE conn[x]
  BY DEF Becomes
<1>4. \A x \in Conns : conn'[x] \in Connection /\ Sound(conn'[x])
  BY <1>1, <1>3 DEF ConnIInv
<1> QED BY <1>2, <1>4 DEF ConnIInv

LEMMA ConnInductive ==
  ASSUME conn \in [Conns -> Connection], ConnIInv, [Next]_vars
  PROVE  conn' \in [Conns -> Connection] /\ ConnIInv'
<1>0. \A c \in Conns : Good(conn[c])
  BY DEF ConnIInv, Good
<1>1. ASSUME NEW c \in Conns, Syn(c) PROVE conn' \in [Conns -> Connection] /\ ConnIInv'
  <2> DEFINE e == HttpErr(conn[c])
             s == [e EXCEPT !.st = "SYN_RCVD"]
  <2>1. Good(e) /\ e.st = "none" /\ e \in Connection /\ Blank(e) /\ e.held \in Nat
    BY <1>0, HttpErrGood DEF Good, Sound, Connection
  <2> HIDE DEF e
  <2>2. s \in Connection
    BY <2>1, Assign, Zero
  <2>3. s.st = "SYN_RCVD" /\ Blank(s) /\ s.held \in Nat
    BY <2>1 DEF Blank, Connection
  <2>4. Becomes(c, s)
    BY <1>1 DEF Syn, e
  <2> HIDE DEF s
  <2>5. Good(s)
    BY <2>2, <2>3 DEF Good, Sound, Owned, Blank, Open
  <2> QED BY <2>4, <2>5, BecomesGood
<1>2. ASSUME NEW c \in Conns, Accept(c) PROVE conn' \in [Conns -> Connection] /\ ConnIInv'
  <2>1. PICK seg \in Arriving(conn[c]), parsed \in Parses, w \in 0..SndBuf,
             mem \in BOOLEAN, alloc \in BOOLEAN :
          Becomes(c, IF alloc
                  THEN TcpEvents(HttpAccept(TcpProcess(conn[c], seg)), seg, parsed, w, mem)
                  ELSE Gone(conn[c]))
    BY <1>2 DEF Accept
  <2> DEFINE h == HttpAccept(TcpProcess(conn[c], seg))
             e == TcpEvents(h, seg, parsed, w, mem)
  <2>2. conn[c].st = "SYN_RCVD" /\ seg \in Segment
    BY <1>2 DEF Accept, Arriving
  <2>3. Good(h) /\ h.st \in Open /\ seg.acked = 0
    BY <1>0, <2>2, AcceptGood
  <2> HIDE DEF h
  <2>4. Good(e)
    <3>1. h.st # "none" /\ h.st # "SYN_RCVD" /\ ~(seg.acked > 0)
      BY <2>3 DEF Open
    <3> QED BY <2>2, <2>3, <3>1, TcpEventsGood
  <2>5. Good(Gone(conn[c]))
    <3>1. conn[c] \in Connection /\ Blank(conn[c])
      BY <2>2 DEF ConnIInv, Sound
    <3> QED BY <3>1, GoneGood DEF Blank
  <2> HIDE DEF e
  <2>6. Becomes(c, IF alloc THEN e ELSE Gone(conn[c]))
    BY <2>1 DEF e, h
  <2>7. CASE alloc
    BY <2>4, <2>6, <2>7, BecomesGood
  <2>8. CASE ~alloc
    BY <2>5, <2>6, <2>8, BecomesGood
  <2> QED BY <2>7, <2>8
<1>3. ASSUME NEW c \in Conns, Input(c) PROVE conn' \in [Conns -> Connection] /\ ConnIInv'
  <2>1. PICK seg \in Arriving(conn[c]), parsed \in Parses, w \in 0..SndBuf, mem \in BOOLEAN :
          Becomes(c, TcpEvents(TcpProcess(conn[c], seg), seg, parsed, w, mem))
    BY <1>3 DEF Input
  <2>2. conn[c].st \notin {"none", "SYN_RCVD", "TIME_WAIT"} /\ seg \in Segment
    BY <1>3 DEF Input, Arriving
  <2> DEFINE p == TcpProcess(conn[c], seg)
  <2>3. Good(p) /\ p.st # "none" /\ p.st # "SYN_RCVD" /\ (seg.acked > 0 /\ p.up => p.page)
    BY <1>0, <2>2, InputGood
  <2> HIDE DEF p
  <2>4. Good(TcpEvents(p, seg, parsed, w, mem))
    BY <2>2, <2>3, TcpEventsGood
  <2> QED BY <2>1, <2>4, BecomesGood DEF p
<1>4. ASSUME NEW c \in Conns, LastAck(c) PROVE conn' \in [Conns -> Connection] /\ ConnIInv'
  <2>1. conn[c].st = "LAST_ACK" /\ Becomes(c, Gone(conn[c]))
    BY <1>4 DEF LastAck
  <2>2. conn[c] \in Connection /\ Sound(conn[c])
    BY DEF ConnIInv
  <2>3. /\ ~conn[c].live /\ ~conn[c].page /\ conn[c].left = 0
        /\ conn[c].req = 0 /\ conn[c].retries = 0
    BY <2>1, <2>2 DEF Sound, Owned, Open
  <2> QED BY <2>1, <2>2, <2>3, GoneGood, BecomesGood
<1>5. ASSUME NEW c \in Conns, Reset(c) \/ Drop(c) PROVE conn' \in [Conns -> Connection] /\ ConnIInv'
  <2>1. Becomes(c, HttpErr(conn[c]))
    BY <1>5 DEF Reset, Drop
  <2> QED BY <1>0, <2>1, HttpErrGood, BecomesGood
<1>6. ASSUME NEW c \in Conns, Poll(c) PROVE conn' \in [Conns -> Connection] /\ ConnIInv'
  <2>1. PICK w \in 0..SndBuf, mem \in BOOLEAN : Becomes(c, HttpPoll(conn[c], w, mem))
    BY <1>6 DEF Poll
  <2>2. conn[c].st \in Open
    BY <1>6 DEF Poll
  <2> QED BY <1>0, <2>1, <2>2, HttpPollGood, BecomesGood
<1>7. ASSUME NEW c \in Conns, Expire(c) PROVE conn' \in [Conns -> Connection] /\ ConnIInv'
  <2>1. conn[c].st = "TIME_WAIT" /\ Becomes(c, Gone(conn[c]))
    BY <1>7 DEF Expire
  <2>2. conn[c] \in Connection /\ Sound(conn[c])
    BY DEF ConnIInv
  <2>3. /\ ~conn[c].live /\ ~conn[c].page /\ conn[c].left = 0
        /\ conn[c].req = 0 /\ conn[c].retries = 0
    BY <2>1, <2>2 DEF Sound, Owned, Open
  <2> QED BY <2>1, <2>2, <2>3, GoneGood, BecomesGood
<1>8. CASE FrameLost \/ UNCHANGED vars
  BY <1>8 DEF FrameLost, vars, ConnIInv
<1> QED BY <1>1, <1>2, <1>3, <1>4, <1>5, <1>6, <1>7, <1>8 DEF Next

(* Every record of every connection keeps its type and what it owns.       *)
LEMMA ConnInvariant == Spec => [](conn \in [Conns -> Connection] /\ ConnIInv)
<1>1. Init => conn \in [Conns -> Connection] /\ ConnIInv
  <2>1. Fresh \in Connection
    BY Zero DEF Fresh, Connection
  <2>2. Sound(Fresh)
    BY DEF Fresh, Sound, Owned, Blank, Open
  <2> QED BY <2>1, <2>2 DEF Init, ConnIInv
<1>2. conn \in [Conns -> Connection] /\ ConnIInv /\ [Next]_vars
        => (conn \in [Conns -> Connection] /\ ConnIInv)'
  BY ConnInductive
<1> QED BY <1>1, <1>2, PTL DEF Spec

(* The connection record is well typed for any number of pcbs: hs->left    *)
(* never passes the file, the unacknowledged data never passes the send    *)
(* buffer, the request chain never passes its limit and the retries never  *)
(* reach HTTPD_MAX_RETRIES (http_send, http_parse_request, http_poll).     *)
THEOREM ConnectionsTyped == Spec => []TypeOK
  BY ConnInvariant, PTL DEF TypeOK

(* An http_state lives exactly as long as an open pcb hands it to httpd's  *)
(* callbacks: http_accept, the three callbacks, http_poll and http_err     *)
(* leave none behind and none dangling, whatever the segments carry.       *)
THEOREM StatesOwned == Spec => []StateOwned
<1>1. ConnIInv => StateOwned
  BY DEF ConnIInv, StateOwned, Sound
<1> QED BY <1>1, ConnInvariant, PTL

-----------------------------------------------------------------------------
(* What a step may never do to a connection: each handler is looked at    *)
(* once, for what it does to the pbufs of a state that outlives it and to *)
(* the page of a pcb it puts in FIN_WAIT_1.                               *)

\* The record t comes of s: what stays of a state that is still allocated,
Keeps(s, t) == t.live => s.live /\ t.held = s.held /\ t.req = s.req /\ t.page = s.page

\* and what has been queued before the FIN of the server.
Whole(t) == t.st = "FIN_WAIT_1" => t.queued = FileLen

(* A close leaves no state, and queues its FIN behind what is queued.      *)
LEMMA CloseConnStep ==
  ASSUME NEW s \in Connection, s.st \in Open,
         NEW win \in Windows, NEW mem \in BOOLEAN
  PROVE  LET r == CloseConn(s, win, mem) IN
         /\ ~r.live /\ ~r.up /\ r.held = s.held
         /\ r.st = "FIN_WAIT_1" => r.queued = s.queued /\ s.st = "ESTABLISHED"
<1> DEFINE f == FreeState(s)
           d == [f EXCEPT !.up = FALSE, !.poll = FALSE, !.rx = TRUE]
           r == CloseConn(s, win, mem)
<1>1. d \in Connection
  BY FreeStateType, Assign
<1>2. /\ ~d.live /\ ~d.up /\ d.held = s.held /\ d.queued = s.queued /\ d.st = s.st
  BY FreeStateType DEF Connection, FreeState
<1>3. d = [FreeState(s) EXCEPT !.up = FALSE, !.poll = FALSE, !.rx = TRUE]
  OBVIOUS
<1> HIDE DEF d
<1>4. CASE win # "full" /\ s.st = "ESTABLISHED"
  <2>1. r = [d EXCEPT !.st = "TIME_WAIT", !.unacked = 0]
    BY <1>3, <1>4 DEF CloseConn, CloseWith
  <2> QED BY <2>1, <1>1, <1>2 DEF Connection
<1>5. CASE win # "full" /\ s.st # "ESTABLISHED"
  <2>1. r = Gone(d)
    BY <1>3, <1>5 DEF CloseConn, CloseWith
  <2> QED BY <2>1, <1>1, <1>2, GoneType
<1>6. CASE win = "full" /\ mem
  <2>1. r = [d EXCEPT !.st = IF s.st = "ESTABLISHED" THEN "FIN_WAIT_1" ELSE "LAST_ACK"]
    BY <1>3, <1>6, <1>1, <1>2 DEF CloseConn, CloseWith, Connection
  <2> QED BY <2>1, <1>1, <1>2 DEF Connection
<1>7. CASE win = "full" /\ ~mem
  <2>1. r = [d EXCEPT !.poll = TRUE]
    BY <1>3, <1>7 DEF CloseConn, CloseWith
  <2> QED BY <2>1, <1>1, <1>2 DEF Connection, Open
<1> QED BY <1>4, <1>5, <1>6, <1>7 DEF Windows

(* http_send closes only behind the whole page.                            *)
LEMMA HttpSendStep ==
  ASSUME NEW s, Good(s), s.page,
         NEW win \in Windows, NEW w \in 0..SndBuf, NEW mem \in BOOLEAN
  PROVE  LET r == HttpSend(s, win, w, mem) IN
         /\ Keeps(s, r) /\ Whole(r)
         /\ r.live => r.st = s.st
         /\ r.up => r.live
<1> DEFINE n == Least(w, Least(s.left, SndBuf - s.unacked))
           t == [s EXCEPT !.left = @ - n, !.queued = @ + n, !.unacked = @ + n]
           r == HttpSend(s, win, w, mem)
<1>1. s \in Connection /\ s.live /\ s.up /\ s.st \in Open
  BY DEF Good, Sound, Owned
<1>2. /\ s.left \in 0..FileLen /\ s.queued \in 0..FileLen /\ s.unacked \in 0..SndBuf
      /\ s.queued + s.left = FileLen
  BY DEF Good, Sound, Connection
<1>3. n \in Nat /\ n <= s.left /\ n <= SndBuf - s.unacked
  BY <1>2, Numbers DEF Least
<1>4. s.left - n \in 0..FileLen /\ s.queued + n \in 0..FileLen /\ s.unacked + n \in 0..SndBuf
  BY <1>2, <1>3, Numbers
<1>5. r = IF t.left = 0 THEN CloseConn(t, win, mem) ELSE t
  BY DEF HttpSend
<1> HIDE DEF n, r
<1>6. t = [[[s EXCEPT !.left = s.left - n] EXCEPT !.queued = s.queued + n]
             EXCEPT !.unacked = s.unacked + n]
  BY <1>1 DEF Connection
<1>7. t \in Connection
  BY <1>1, <1>4, <1>6, Assign
<1>8. /\ t.left = s.left - n /\ t.queued = s.queued + n /\ t.st = s.st /\ t.live
      /\ t.up /\ t.page = s.page /\ t.req = s.req /\ t.held = s.held
  BY <1>1, <1>6 DEF Connection
<1> HIDE DEF t
<1>9. CASE t.left = 0
  <2>1. t.queued = FileLen
    BY <1>2, <1>3, <1>8, <1>9, Numbers
  <2>2. /\ ~r.live /\ ~r.up
        /\ r.st = "FIN_WAIT_1" => r.queued = t.queued
    BY <1>1, <1>5, <1>7, <1>8, <1>9, CloseConnStep
  <2> QED BY <2>1, <2>2 DEF Keeps, Whole, r
<1>10. CASE t.left # 0
  <2>1. r = t
    BY <1>5, <1>10
  <2> QED BY <2>1, <1>1, <1>8 DEF Keeps, Whole, Open, r
<1> QED BY <1>9, <1>10

(* So does http_sent, which without a state does nothing.                  *)
LEMMA HttpSentStep ==
  ASSUME NEW s, Good(s), s.up => s.page,
         NEW win \in Windows, NEW w \in 0..SndBuf, NEW mem \in BOOLEAN
  PROVE  LET r == HttpSent(s, win, w, mem) IN
         /\ Keeps(s, r)
         /\ s.up => Whole(r)
         /\ r.live => r.st = s.st
<1> DEFINE z == [s EXCEPT !.retries = 0]
<1>1. CASE s.up
  <2>1. s \in Connection /\ s.page
    BY <1>1 DEF Good
  <2>2. z \in Connection
    BY <2>1, Assign, Zero
  <2>3. /\ z.st = s.st /\ z.live = s.live /\ z.up = s.up /\ z.poll = s.poll /\ z.rx = s.rx
        /\ z.page = s.page /\ z.left = s.left /\ z.queued = s.queued /\ z.unacked = s.unacked
        /\ z.req = s.req /\ z.held = s.held /\ z.retries = 0
    BY <2>1 DEF Connection
  <2>4. HttpSent(s, win, w, mem) = HttpSend(z, win, w, mem)
    BY <1>1 DEF HttpSent
  <2> HIDE DEF z
  <2>5. Good(z)
    BY <2>1, <2>2, <2>3, <1>1 DEF Good, Sound, Owned, Open
  <2>6. LET r == HttpSend(z, win, w, mem) IN
        Keeps(z, r) /\ Whole(r) /\ (r.live => r.st = z.st)
    BY <2>1, <2>3, <2>5, HttpSendStep
  <2> QED BY <2>3, <2>4, <2>6 DEF Keeps
<1>2. CASE ~s.up
  <2>1. HttpSent(s, win, w, mem) = s
    BY <1>2 DEF HttpSent
  <2> QED BY <2>1, <1>2 DEF Keeps
<1> QED BY <1>1, <1>2

(* http_recv loses a pbuf only while a page is sent.                       *)
LEMMA HttpRecvStep ==
  ASSUME NEW s, Good(s), s.up,
         NEW win \in Windows, NEW parsed \in Parses, NEW w \in 0..SndBuf, NEW mem \in BOOLEAN
  PROVE  LET r == HttpRecv(s, win, parsed, w, mem) IN
         /\ r.live /\ ~s.page => Lost(r) <= Lost(s)
         /\ s.page => r.st = s.st
<1> DEFINE got  == [s EXCEPT !.held = @ + 1]
           done == [s EXCEPT !.held = @ - s.req, !.req = 0]
           r    == HttpRecv(s, win, parsed, w, mem)
<1>1. /\ s \in Connection /\ s.live /\ s.st \in Open /\ s.poll /\ ~s.rx
      /\ s.req <= s.held /\ s.held \in Nat /\ s.req \in 0..QueueLen
  BY DEF Good, Sound, Owned, Connection
<1>2. /\ got.st = s.st /\ got.req = s.req /\ got.held = s.held + 1
  BY <1>1 DEF Connection
<1>3. s.held - s.req \in Nat
  BY <1>1, Numbers
<1>4. done = [[s EXCEPT !.held = s.held - s.req] EXCEPT !.req = 0]
  BY <1>1 DEF Connection
<1>5. done \in Connection
  BY <1>1, <1>3, <1>4, Assign, Zero
<1>6. /\ done.st = s.st /\ done.live /\ done.up /\ done.poll /\ ~done.rx
      /\ done.queued = s.queued /\ done.req = 0 /\ done.held = s.held - s.req
  BY <1>1, <1>3, <1>4 DEF Connection
<1>7. CASE s.page
  <2>1. r = got
    BY <1>7 DEF HttpRecv
  <2> QED BY <2>1, <1>2, <1>7
<1>8. CASE ~s.page /\ parsed = "OK"
  <2> DEFINE p == [done EXCEPT !.page = TRUE, !.left = FileLen, !.retries = 0]
  <2>1. r = HttpSend(p, win, w, mem)
    BY <1>8 DEF HttpRecv, Parses
  <2>2. FileLen \in 0..FileLen /\ s.queued = 0
    BY <1>8, <1>1, Numbers DEF Good, Sound
  <2>3. p \in Connection
    BY <1>5, <2>2, Zero, Assign
  <2>4. /\ p.st = s.st /\ p.live /\ p.up /\ p.poll /\ ~p.rx /\ p.page /\ p.left = FileLen
        /\ p.queued = 0 /\ p.req = 0 /\ p.held = s.held - s.req
    BY <1>5, <1>6, <2>2 DEF Connection
  <2> HIDE DEF p, r
  <2>5. Good(p)
    BY <2>3, <2>4, <1>1, <1>3, Numbers DEF Good, Sound, Owned, Open
  <2>6. Keeps(p, r)
    BY <2>1, <2>4, <2>5, HttpSendStep
  <2>7. r.live => r.held = s.held - s.req /\ r.req = 0
    BY <2>4, <2>6 DEF Keeps
  <2>8. r.live => Lost(r) <= Lost(s)
    BY <2>7, <1>1, <1>3, Numbers DEF Lost
  <2> QED BY <1>8, <2>8 DEF r
<1>9. CASE ~s.page /\ parsed = "INPROGRESS" /\ s.req < QueueLen
  <2>1. r = [got EXCEPT !.req = s.req + 1]
    BY <1>9, <1>1, <1>2, Numbers DEF HttpRecv
  <2>2. r.req = s.req + 1 /\ r.held = s.held + 1
    BY <2>1, <1>1, <1>2 DEF Connection
  <2> HIDE DEF r
  <2>3. Lost(r) <= Lost(s)
    BY <2>2, <1>1, Numbers DEF Lost
  <2> QED BY <1>9, <2>3 DEF r
<1>10. CASE ~s.page /\ (parsed = "ARG" \/ (parsed = "INPROGRESS" /\ s.req >= QueueLen))
  <2>1. r = CloseConn(done, win, mem)
    BY <1>10, <1>1, Numbers DEF HttpRecv
  <2> QED BY <2>1, <1>1, <1>5, <1>6, <1>10, CloseConnStep
<1>11. s.req < QueueLen \/ s.req >= QueueLen
  BY <1>1, Numbers
<1> QED BY <1>7, <1>8, <1>9, <1>10, <1>11 DEF Parses

(* What a step of one connection never does: lose a pbuf of a state that    *)
(* goes on reading, and close before the page is whole.                     *)
Frees(s, t) == Lost(t) > Lost(s) => s.page \/ ~t.live

Closes(s, t) ==
  s.page /\ t.st = "FIN_WAIT_1" => t.queued = FileLen \/ s.retries = MaxRetries - 1

(* The events of one segment.  After a FIN of the peer the server's close   *)
(* leads to LAST_ACK.                                                       *)
LEMMA TcpEventsStep ==
  ASSUME NEW s, Good(s), s.st # "none", s.st # "SYN_RCVD", NEW seg \in Segment,
         seg.acked > 0 /\ s.up => s.page, seg.fin /\ s.up => s.st = "CLOSE_WAIT",
         NEW parsed \in Parses, NEW w \in 0..SndBuf, NEW mem \in BOOLEAN
  PROVE  LET r == TcpEvents(s, seg, parsed, w, mem) IN Frees(s, r) /\ Closes(s, r)
<1> DEFINE fin == IF seg.fin THEN "short" ELSE "full"
           win == IF seg.data THEN "short" ELSE fin
           a == IF seg.acked > 0 THEN HttpSent(s, win, w, mem) ELSE s
           d == IF seg.data /\ a.st # "none" THEN HttpRecv(a, fin, parsed, w, mem) ELSE a
           f == IF seg.fin /\ d.up THEN CloseConn(d, "full", mem) ELSE d
           r == TcpEvents(s, seg, parsed, w, mem)
<1>1. fin \in Windows /\ win \in Windows /\ "full" \in Windows
  BY DEF Windows
<1>2. r = IF seg.data /\ a.rx THEN Gone(a) ELSE f
  BY DEF TcpEvents
<1>3. s.page => s.up /\ s.st \in Open
  BY DEF Good, Sound, Owned
<1> HIDE DEF fin, win, r
<1>4. Good(a) /\ (a.up \/ a.rx \/ a.st = "none")
  <2>1. s.up \/ s.rx
    BY DEF Good, Sound, Owned
  <2> QED BY <2>1, <1>1, HttpSentGood
<1>5. Keeps(s, a) /\ (s.page => Whole(a)) /\ (a.live => a.st = s.st)
  <2>1. CASE seg.acked > 0
    BY <1>1, <1>3, <2>1, HttpSentStep
  <2>2. CASE ~(seg.acked > 0)
    BY <1>3, <2>2 DEF Keeps, Whole, Open
  <2> QED BY <2>1, <2>2
<1> HIDE DEF a
<1>6. /\ a \in Connection
      /\ a.live <=> a.up
      /\ a.live => a.st \in Open /\ ~a.rx
  BY <1>4 DEF Good, Sound, Owned
<1>7. CASE seg.data /\ a.rx
  <2>1. ~Gone(a).live /\ Gone(a).st = "none"
    BY <1>6, <1>7, GoneType
  <2> QED BY <2>1, <1>2, <1>7 DEF Frees, Closes, r
<1>8. CASE ~(seg.data /\ a.rx)
  <2>1. Good(d)
    BY <1>1, <1>4, <1>8, HttpRecvGood
  <2>2. /\ d.live /\ ~s.page => Lost(d) <= Lost(s)
        /\ s.page => Whole(d)
        /\ d.live /\ s.page => d.st = s.st
    <3>1. CASE seg.data /\ a.st # "none"
      <4>1. a.up
        BY <1>4, <1>8, <3>1
      <4>2. /\ d.live /\ ~a.page => Lost(d) <= Lost(a)
            /\ a.page => d.st = a.st
        BY <1>1, <1>4, <3>1, <4>1, HttpRecvStep
      <4>3. a.page = s.page /\ Lost(a) = Lost(s)
        BY <4>1, <1>5, <1>6 DEF Keeps, Lost
      <4> QED BY <4>1, <4>2, <4>3, <1>5, <1>6 DEF Whole, Open
    <3>2. CASE ~(seg.data /\ a.st # "none")
      <4>1. d = a
        BY <3>2
      <4>2. a.held \in Nat /\ a.req \in Nat
        BY <1>6, Numbers DEF Connection
      <4> QED BY <4>1, <4>2, <1>5 DEF Keeps, Lost
    <3> QED BY <3>1, <3>2
  <2>3. /\ d \in Connection
        /\ d.live <=> d.up
        /\ d.live => d.st \in Open
    BY <2>1 DEF Good, Sound, Owned
  <2> HIDE DEF d
  <2>4. r = f
    BY <1>2, <1>8
  <2>5. CASE seg.fin /\ d.up
    <3>1. ~f.live /\ (f.st = "FIN_WAIT_1" => d.st = "ESTABLISHED")
      BY <1>1, <2>3, <2>5, CloseConnStep
    <3>2. s.page => d.st = "CLOSE_WAIT"
      BY <1>3, <2>2, <2>3, <2>5
    <3> QED BY <3>1, <3>2, <2>4 DEF Frees, Closes, r
  <2>6. CASE ~(seg.fin /\ d.up)
    <3>1. r = d
      BY <2>4, <2>6
    <3>2. Lost(d) \in Int /\ Lost(s) \in Int
      BY <2>3, Numbers DEF Good, Connection, Lost
    <3> QED BY <3>1, <3>2, <2>2 DEF Frees, Closes, Whole, r
  <2> QED BY <2>5, <2>6
<1> QED BY <1>7, <1>8

(* A segment is read when tcp_process has moved the pcb, which leaves the   *)
(* pbufs and the page alone.                                               *)
LEMMA InputStep ==
  ASSUME NEW s, Good(s), s.st \notin {"none", "SYN_RCVD", "TIME_WAIT"}, NEW seg \in Arriving(s),
         NEW parsed \in Parses, NEW w \in 0..SndBuf, NEW mem \in BOOLEAN
  PROVE  LET r == TcpEvents(TcpProcess(s, seg), seg, parsed, w, mem) IN
         Frees(s, r) /\ Closes(s, r)
<1> DEFINE p == TcpProcess(s, seg)
           r == TcpEvents(p, seg, parsed, w, mem)
<1>1. s \in Connection /\ seg \in Segment
  BY DEF Good, Arriving
<1>2. /\ Good(p) /\ p.st # "none" /\ p.st # "SYN_RCVD"
      /\ seg.acked > 0 /\ p.up => p.page
  BY InputGood
<1>3. /\ p.st = NextState(s.st, seg) /\ p.up = s.up /\ p.page = s.page
      /\ p.req = s.req /\ p.held = s.held /\ p.retries = s.retries
  BY <1>1, TcpProcessType
<1>4. seg.fin /\ p.up => p.st = "CLOSE_WAIT"
  <2>1. p.up => s.st \in Open
    BY <1>3 DEF Good, Sound, Owned
  <2>2. s.st = "ESTABLISHED" => (seg.fin => NextState(s.st, seg) = "CLOSE_WAIT")
    BY DEF NextState
  <2>3. s.st = "CLOSE_WAIT" => NextState(s.st, seg) = "CLOSE_WAIT"
    BY DEF NextState
  <2> QED BY <2>1, <2>2, <2>3, <1>3 DEF Open
<1> HIDE DEF p
<1>5. Frees(p, r) /\ Closes(p, r)
  BY <1>1, <1>2, <1>4, TcpEventsStep
<1>6. Frees(s, r) /\ Closes(s, r)
  BY <1>3, <1>5 DEF Frees, Closes, Lost
<1> QED BY <1>6 DEF p

(* The first segment of a connection, which http_accept has just taken.    *)
LEMMA AcceptStep ==
  ASSUME NEW s, Good(s), s.st = "SYN_RCVD", NEW seg \in Arriving(s),
         NEW parsed \in Parses, NEW w \in 0..SndBuf, NEW mem \in BOOLEAN
  PROVE  LET r == TcpEvents(HttpAccept(TcpProcess(s, seg)), seg, parsed, w, mem) IN
         Frees(s, r) /\ Closes(s, r)
<1> DEFINE p == TcpProcess(s, seg)
           h == HttpAccept(p)
           r == TcpEvents(h, seg, parsed, w, mem)
<1>1. s \in Connection /\ seg \in Segment /\ ~s.page
  BY DEF Good, Sound, Blank, Arriving
<1>2. Good(h) /\ h.st \in Open /\ seg.acked = 0
  BY AcceptGood
<1>3. /\ p \in Connection /\ p.st = NextState(s.st, seg) /\ p.page = s.page
      /\ p.req = s.req /\ p.held = s.held /\ p.retries = s.retries
  BY <1>1, TcpProcessType
<1> HIDE DEF p
<1>4. /\ h.st = p.st /\ h.page = s.page /\ h.req = s.req /\ h.held = s.held
      /\ h.retries = s.retries
  BY <1>3 DEF HttpAccept, Connection
<1>5. seg.fin => h.st = "CLOSE_WAIT"
  BY <1>3, <1>4 DEF NextState
<1> HIDE DEF h
<1>6. Frees(h, r) /\ Closes(h, r)
  <2>1. h.st # "none" /\ h.st # "SYN_RCVD" /\ ~(seg.acked > 0)
    BY <1>2 DEF Open
  <2> QED BY <1>1, <1>2, <1>5, <2>1, TcpEventsStep
<1>7. Frees(s, r) /\ Closes(s, r)
  BY <1>4, <1>6 DEF Frees, Closes, Lost
<1> QED BY <1>7 DEF h, p

(* A pcb that goes, with its state or after it.                            *)
LEMMA GoneStep ==
  ASSUME NEW s, Good(s)
  PROVE  Frees(s, Gone(s)) /\ Closes(s, Gone(s))
<1>1. s \in Connection /\ s.held - s.req \in Int
  BY Numbers DEF Good, Connection
<1>2. Lost(Gone(s)) = Lost(s) /\ Gone(s).st = "none"
  BY <1>1, GoneType DEF Lost
<1> QED BY <1>1, <1>2 DEF Frees, Closes, Lost

LEMMA HttpErrStep ==
  ASSUME NEW s, Good(s)
  PROVE  LET r == HttpErr(s) IN ~r.live /\ r.st = "none"
<1>1. s \in Connection /\ (s.live <=> s.up)
  BY DEF Good, Sound, Owned
<1>2. CASE s.up
  BY <1>1, <1>2, FreeStateType, GoneType DEF HttpErr
<1>3. CASE ~s.up
  BY <1>1, <1>3, GoneType DEF HttpErr
<1> QED BY <1>2, <1>3

(* http_poll closes at the limit of its count, or as http_send does.       *)
LEMMA HttpPollStep ==
  ASSUME NEW s, Good(s), s.st \in Open, NEW w \in 0..SndBuf, NEW mem \in BOOLEAN
  PROVE  LET r == HttpPoll(s, w, mem) IN Frees(s, r) /\ Closes(s, r)
<1> DEFINE t == [s EXCEPT !.retries = s.retries + 1]
           r == HttpPoll(s, w, mem)
<1>0. /\ s \in Connection /\ "full" \in Windows /\ s.retries \in 0..MaxRetries-1
      /\ s.held - s.req \in Int
      /\ s.page => s.up
  BY Numbers DEF Good, Windows, Connection, Sound, Owned
<1>1. CASE ~s.up
  <2>1. r = IF mem THEN CloseConn(s, "full", mem) ELSE Gone(s)
    BY <1>1 DEF HttpPoll
  <2>2. ~r.live \/ r = Gone(s)
    BY <2>1, <1>0, CloseConnStep
  <2>3. Frees(s, r)
    BY <2>2, GoneStep DEF Frees
  <2> QED BY <2>3, <1>0, <1>1 DEF Closes
<1>2. CASE s.up /\ s.retries + 1 = MaxRetries
  <2>1. r = CloseConn(s, "full", mem)
    BY <1>2 DEF HttpPoll
  <2>2. ~r.live /\ s.retries = MaxRetries - 1
    BY <2>1, <1>0, <1>2, CloseConnStep, Numbers
  <2> QED BY <2>2 DEF Frees, Closes
<1>3. CASE s.up /\ s.retries + 1 # MaxRetries
  <2>1. s.retries + 1 \in 0..MaxRetries-1
    BY <1>3, <1>0, Numbers
  <2>2. t \in Connection
    BY <2>1, <1>0, Assign
  <2>3. /\ t.st = s.st /\ t.live = s.live /\ t.up = s.up /\ t.poll = s.poll /\ t.rx = s.rx
        /\ t.page = s.page /\ t.left = s.left /\ t.queued = s.queued /\ t.unacked = s.unacked
        /\ t.req = s.req /\ t.held = s.held
    BY <1>0 DEF Connection
  <2>4. r = IF s.page THEN HttpSend(t, "full", w, mem) ELSE t
    BY <1>3 DEF HttpPoll
  <2> HIDE DEF t, r
  <2>5. Good(t)
    BY <2>2, <2>3, <1>3 DEF Good, Sound, Owned, Open
  <2>6. CASE s.page
    <3>1. Whole(r)
      BY <2>3, <2>4, <2>5, <2>6, <1>0, HttpSendStep
    <3> QED BY <3>1, <2>6 DEF Whole, Frees, Closes, r
  <2>7. CASE ~s.page
    <3>1. Lost(r) = Lost(s)
      BY <2>3, <2>4, <2>7 DEF Lost
    <3> QED BY <3>1, <2>7, <1>0 DEF Frees, Closes, Lost, r
  <2> QED BY <2>6, <2>7
<1> QED BY <1>1, <1>2, <1>3

(* One connection is replaced, the others stay as they are.                *)
LEMMA BecomesStep ==
  ASSUME conn \in [Conns -> Connection], ConnIInv, NEW c \in Conns, NEW s,
         Frees(conn[c], s), Closes(conn[c], s), Becomes(c, s)
  PROVE  \A x \in Conns : Frees(conn[x], conn'[x]) /\ Closes(conn[x], conn'[x])
<1>1. \A x \in Conns : conn'[x] = IF x = c THEN s ELSE conn[x]
  BY DEF Becomes
<1>2. \A x \in Conns : /\ Lost(conn[x]) \in Int
                       /\ conn[x].page => conn[x].st \in Open
  BY Numbers DEF ConnIInv, Connection, Sound, Owned, Lost
<1> QED BY <1>1, <1>2 DEF Frees, Closes, Open

LEMMA StepOfConnections ==
  ASSUME conn \in [Conns -> Connection], ConnIInv, [Next]_vars
  PROVE  \A x \in Conns : Frees(conn[x], conn'[x]) /\ Closes(conn[x], conn'[x])
<1> DEFINE Goal == \A x \in Conns : Frees(conn[x], conn'[x]) /\ Closes(conn[x], conn'[x])
<1>0. \A c \in Conns : Good(conn[c])
  BY DEF ConnIInv, Good
<1>1. ASSUME NEW c \in Conns, Syn(c) PROVE Goal
  <2> DEFINE e == HttpErr(conn[c])
             s == [e EXCEPT !.st = "SYN_RCVD"]
  <2>1. e \in Connection /\ ~e.live
    BY <1>0, HttpErrGood, HttpErrStep DEF Good
  <2>2. Becomes(c, s)
    BY <1>1 DEF Syn
  <2> HIDE DEF e
  <2>3. ~s.live /\ s.st = "SYN_RCVD"
    BY <2>1 DEF Connection
  <2> HIDE DEF s
  <2>4. Frees(conn[c], s) /\ Closes(conn[c], s)
    BY <2>3 DEF Frees, Closes
  <2> QED BY <2>2, <2>4, BecomesStep
<1>2. ASSUME NEW c \in Conns, Accept(c) PROVE Goal
  <2>1. PICK seg \in Arriving(conn[c]), parsed \in Parses, w \in 0..SndBuf,
             mem \in BOOLEAN, alloc \in BOOLEAN :
          Becomes(c, IF alloc
                  THEN TcpEvents(HttpAccept(TcpProcess(conn[c], seg)), seg, parsed, w, mem)
                  ELSE Gone(conn[c]))
    BY <1>2 DEF Accept
  <2> DEFINE e == TcpEvents(HttpAccept(TcpProcess(conn[c], seg)), seg, parsed, w, mem)
  <2>2. Frees(conn[c], e) /\ Closes(conn[c], e)
    BY <1>0, <1>2, AcceptStep DEF Accept
  <2>3. Frees(conn[c], Gone(conn[c])) /\ Closes(conn[c], Gone(conn[c]))
    BY <1>0, GoneStep
  <2>4. Becomes(c, IF alloc THEN e ELSE Gone(conn[c]))
    BY <2>1
  <2> HIDE DEF e
  <2>5. CASE alloc
    BY <2>2, <2>4, <2>5, BecomesStep
  <2>6. CASE ~alloc
    BY <2>3, <2>4, <2>6, BecomesStep
  <2> QED BY <2>5, <2>6
<1>3. ASSUME NEW c \in Conns, Input(c) PROVE Goal
  <2>1. PICK seg \in Arriving(conn[c]), parsed \in Parses, w \in 0..SndBuf, mem \in BOOLEAN :
          Becomes(c, TcpEvents(TcpProcess(conn[c], seg), seg, parsed, w, mem))
    BY <1>3 DEF Input
  <2> DEFINE e == TcpEvents(TcpProcess(conn[c], seg), seg, parsed, w, mem)
  <2>2. Frees(conn[c], e) /\ Closes(conn[c], e)
    BY <1>0, <1>3, InputStep DEF Input
  <2>3. Becomes(c, e)
    BY <2>1
  <2> HIDE DEF e
  <2> QED BY <2>2, <2>3, BecomesStep
<1>4. ASSUME NEW c \in Conns, LastAck(c) \/ Expire(c) PROVE Goal
  <2>1. Becomes(c, Gone(conn[c]))
    BY <1>4 DEF LastAck, Expire
  <2> QED BY <1>0, <2>1, GoneStep, BecomesStep
<1>5. ASSUME NEW c \in Conns, Reset(c) \/ Drop(c) PROVE Goal
  <2>1. Becomes(c, HttpErr(conn[c]))
    BY <1>5 DEF Reset, Drop
  <2>2. Frees(conn[c], HttpErr(conn[c])) /\ Closes(conn[c], HttpErr(conn[c]))
    BY <1>0, HttpErrStep DEF Frees, Closes
  <2> QED BY <2>1, <2>2, BecomesStep
<1>6. ASSUME NEW c \in Conns, Poll(c) PROVE Goal
  <2>1. PICK w \in 0..SndBuf, mem \in BOOLEAN : Becomes(c, HttpPoll(conn[c], w, mem))
    BY <1>6 DEF Poll
  <2>2. conn[c].st \in Open
    BY <1>6 DEF Poll
  <2>3. Frees(conn[c], HttpPoll(conn[c], w, mem)) /\ Closes(conn[c], HttpPoll(conn[c], w, mem))
    BY <1>0, <2>2, HttpPollStep
  <2> QED BY <2>1, <2>3, BecomesStep
<1>7. CASE FrameLost \/ UNCHANGED vars
  <2>1. \A x \in Conns : /\ Lost(conn[x]) \in Int
                         /\ conn[x].page => conn[x].st \in Open
    BY Numbers DEF ConnIInv, Connection, Sound, Owned, Lost
  <2> QED BY <1>7, <2>1 DEF FrameLost, vars, Frees, Closes, Open
<1> QED BY <1>1, <1>2, <1>3, <1>4, <1>5, <1>6, <1>7 DEF Next

(* http_close_conn after the last byte, or http_poll at HTTPD_MAX_RETRIES:  *)
(* nothing else ends a page with a FIN of the server, whatever segments and *)
(* polls come in between, for pages and send buffers of any size.          *)
THEOREM PagesBeforeFins == Spec => PageBeforeFin
<1>1. ConnIInv /\ conn \in [Conns -> Connection] /\ [Next]_vars
        => [\A c \in Conns : conn[c].page /\ conn'[c].st = "FIN_WAIT_1"
              => conn'[c].queued = FileLen \/ conn[c].retries = MaxRetries - 1]_vars
  BY StepOfConnections DEF Closes
<1> QED BY <1>1, ConnInvariant, PTL DEF Spec, PageBeforeFin

(* http_recv frees what it is given, or keeps it where http_state_free      *)
(* still finds it, but in the two known ways, for any number of pcbs and    *)
(* any length of the request chain.                                        *)
THEOREM PbufsAreFreed == Spec => PbufsFreed
<1>1. ConnIInv /\ conn \in [Conns -> Connection] /\ [Next]_vars
        => [\A c \in Conns : Lost(conn'[c]) > Lost(conn[c])
              => conn[c].page \/ ~conn'[c].live]_vars
  BY StepOfConnections DEF Frees
<1> QED BY <1>1, ConnInvariant, PTL DEF Spec, PbufsFreed

=============================================================================
