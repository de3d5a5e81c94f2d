------------------------------ MODULE HttpConn ------------------------------
(***************************************************************************)
(* A connection of the web server: the raw lwIP callbacks of               *)
(* Sources/httpd.c and the part of lwIP's tcp_input, tcp_close and         *)
(* tcp_slowtmr that calls them.                                            *)
(*                                                                         *)
(* Every segment is handled to its end inside the Ethernet interrupt, so   *)
(* one segment is one action; within it tcp_input raises up to three       *)
(* events in turn (sent, recv, closed) and any of them may close the       *)
(* connection under the next.  A handler is an operator from the record of *)
(* the connection before it to the record after it.  File data is counted  *)
(* in segments of one MSS; every segment received takes one pool pbuf.     *)
(***************************************************************************)
EXTENDS Naturals, FiniteSets, FiniteSetsExt

CONSTANTS
  Conns,        \* the pcbs of MEMP_TCP_PCB
  FileLen,      \* bound: length of the page sent, in MSS
  SndBuf,       \* TCP_SND_BUF, in MSS
  QueueLen,     \* LWIP_HTTPD_REQ_QUEUELEN
  MaxRetries,   \* HTTPD_MAX_RETRIES
  PoolSize,     \* PBUF_POOL_SIZE
  TimersRun     \* tcp_slowtmr is called (LwipTimers: not without a clock)

ASSUME ConstantAssumption ==
  /\ {FileLen, SndBuf, QueueLen, MaxRetries, PoolSize} \subseteq Nat \ {0}
  /\ TimersRun \in BOOLEAN

VARIABLE conn
vars == <<conn>>

Open    == {"ESTABLISHED", "CLOSE_WAIT"}
PcbState == Open \cup {"none", "SYN_RCVD", "FIN_WAIT_1", "FIN_WAIT_2",
                       "CLOSING", "LAST_ACK", "TIME_WAIT"}
(* States in which the peer has not sent its FIN yet.                      *)
PeerOpen == {"SYN_RCVD", "ESTABLISHED", "FIN_WAIT_1", "FIN_WAIT_2"}

(* st..unacked belong to the pcb, live..retries to its http_state.         *)
Connection == [
  st      : PcbState,
  up      : BOOLEAN,        \* arg, recv, sent and err are httpd's
  poll    : BOOLEAN,        \* http_poll is registered
  rx      : BOOLEAN,        \* TF_RXCLOSED
  queued  : 0..FileLen,     \* what tcp_write accepted
  unacked : 0..SndBuf,      \* of that, not acknowledged
  live    : BOOLEAN,        \* an http_state is allocated
  page    : BOOLEAN,        \* hs->handle # NULL
  left    : 0..FileLen,     \* hs->left
  req     : 0..QueueLen,    \* pbufs chained from hs->req
  retries : 0..MaxRetries-1,
  held    : Nat]            \* pbufs taken for this slot and not freed

Fresh == [st |-> "none", up |-> FALSE, poll |-> FALSE, rx |-> FALSE,
          queued |-> 0, unacked |-> 0, live |-> FALSE, page |-> FALSE,
          left |-> 0, req |-> 0, retries |-> 0, held |-> 0]

Init == conn = [c \in Conns |-> Fresh]

TypeOK == conn \in [Conns -> Connection]

Least(a, b) == IF a <= b THEN a ELSE b

PoolFree == PoolSize > MapThenSumSet(LAMBDA c : conn[c].held, Conns)

-----------------------------------------------------------------------------
(* http_state_free: the file is closed and the structure given back; the   *)
(* pbufs still chained from hs->req are not.                               *)
FreeState(s) ==
  [s EXCEPT !.live = FALSE, !.page = FALSE, !.left = 0, !.req = 0, !.retries = 0]

(* The pcb goes back to its pool.                                          *)
Gone(s) ==
  [s EXCEPT !.st = "none", !.up = FALSE, !.poll = FALSE, !.rx = FALSE,
            !.queued = 0, !.unacked = 0]

(* http_err, called for a pcb that is already deallocated.  Mutant: it     *)
(* leaves the state allocated.                                             *)
HttpErr_Forgets(s) == Gone(s)
HttpErr(s) == Gone(IF s.up THEN FreeState(s) ELSE s)

(* The receive window: full, or short of unread data or of the FIN alone.   *)
Windows == {"full", "short"}

(* http_close_or_abort_conn and the tcp_close it ends with.  A receive     *)
(* window that is not full makes tcp_close answer with a RST; otherwise it *)
(* queues a FIN, for which there may be no memory, and in that case leaves *)
(* the pcb to http_poll.                                                   *)
CloseWith(s, win, mem, retry) ==
  LET d == [FreeState(s) EXCEPT !.up = FALSE, !.poll = FALSE, !.rx = TRUE]
  IN CASE win # "full" /\ s.st = "ESTABLISHED" ->
            [d EXCEPT !.st = "TIME_WAIT", !.unacked = 0]
       [] win # "full" /\ s.st # "ESTABLISHED" -> Gone(d)
       [] win = "full" /\ mem ->
            [d EXCEPT !.st = IF @ = "ESTABLISHED" THEN "FIN_WAIT_1" ELSE "LAST_ACK"]
       [] win = "full" /\ ~mem -> [d EXCEPT !.poll = retry]

(* Mutant: the failed close is not handed to http_poll.                    *)
CloseConn_NoRetry(s, win, mem) == CloseWith(s, win, mem, FALSE)
CloseConn(s, win, mem) == CloseWith(s, win, mem, TRUE)

(* http_send: tcp_write takes what fits (or nothing), and the end of the   *)
(* page closes the connection.  Mutant: the page ends one MSS early.       *)
HttpSend_Early(s, win, w, mem) ==
  LET n == Least(w, Least(s.left, SndBuf - s.unacked))
      t == [s EXCEPT !.left = @ - n, !.queued = @ + n, !.unacked = @ + n]
  IN IF t.left <= 1 THEN CloseConn(t, win, mem) ELSE t
HttpSend(s, win, w, mem) ==
  LET n == Least(w, Least(s.left, SndBuf - s.unacked))
      t == [s EXCEPT !.left = @ - n, !.queued = @ + n, !.unacked = @ + n]
  IN IF t.left = 0 THEN CloseConn(t, win, mem) ELSE t

(* http_sent                                                               *)
HttpSent(s, win, w, mem) ==
  IF s.up THEN HttpSend([s EXCEPT !.retries = 0], win, w, mem) ELSE s

(* Mutant: an answered request keeps its chain.                            *)
HttpRecv_KeepsChain(s, win, parsed, w, mem) ==
  LET got  == [s EXCEPT !.held = @ + 1]
      done == [s EXCEPT !.req = 0]
  IN CASE s.page -> got
       [] ~s.page /\ parsed = "OK" ->
            HttpSend([done EXCEPT !.page = TRUE, !.left = FileLen, !.retries = 0],
                     win, w, mem)
       [] ~s.page /\ parsed = "INPROGRESS" /\ s.req < QueueLen ->
            [got EXCEPT !.req = @ + 1]
       [] ~s.page /\ (parsed = "ARG" \/ (parsed = "INPROGRESS" /\ s.req >= QueueLen)) ->
            CloseConn(done, win, mem)

(* http_recv with data.  While a page is being sent the pbuf is neither    *)
(* kept nor freed; otherwise it joins hs->req and the request is parsed.   *)
HttpRecv(s, win, parsed, w, mem) ==
  LET got  == [s EXCEPT !.held = @ + 1]
      done == [s EXCEPT !.held = @ - s.req, !.req = 0]   \* the chain and this one
  IN CASE s.page -> got
       [] ~s.page /\ parsed = "OK" ->
            HttpSend([done EXCEPT !.page = TRUE, !.left = FileLen, !.retries = 0],
                     win, w, mem)
       [] ~s.page /\ parsed = "INPROGRESS" /\ s.req < QueueLen ->
            [got EXCEPT !.req = @ + 1]
       [] ~s.page /\ (parsed = "ARG" \/ (parsed = "INPROGRESS" /\ s.req >= QueueLen)) ->
            CloseConn(done, win, mem)

(* http_accept, for which tcp_process has just left SYN_RCVD.              *)
HttpAccept(s) == [s EXCEPT !.live = TRUE, !.up = TRUE, !.poll = TRUE]

-----------------------------------------------------------------------------
(* What a segment may carry: an acknowledgement of n MSS, or of everything *)
(* and our FIN, data, and the peer's FIN.                                  *)
Segment == [acked : 0..SndBuf, all : BOOLEAN, data : BOOLEAN, fin : BOOLEAN]

Arriving(s) == {seg \in Segment :
  /\ seg.acked <= s.unacked
  /\ seg.data \/ seg.fin => s.st \in PeerOpen
  /\ seg.all => s.st \in {"FIN_WAIT_1", "CLOSING"} /\ seg.acked = s.unacked}

(* tcp_process: the state the segment leads to.                            *)
NextState(st, seg) ==
  CASE st \in {"SYN_RCVD", "ESTABLISHED"} ->
         IF seg.fin THEN "CLOSE_WAIT" ELSE "ESTABLISHED"
    [] st = "FIN_WAIT_1" /\ seg.fin  -> IF seg.all THEN "TIME_WAIT" ELSE "CLOSING"
    [] st = "FIN_WAIT_1" /\ ~seg.fin -> IF seg.all THEN "FIN_WAIT_2" ELSE st
    [] st = "FIN_WAIT_2" -> IF seg.fin THEN "TIME_WAIT" ELSE st
    [] st = "CLOSING"    -> IF seg.all THEN "TIME_WAIT" ELSE st
    [] OTHER             -> st

TcpProcess(s, seg) ==
  LET to == NextState(s.st, seg)
  IN [s EXCEPT !.st = to, !.unacked = IF to = "TIME_WAIT" THEN 0 ELSE @ - seg.acked]

(* tcp_input after tcp_process: sent, recv and closed events in this order. *)
(* The window stays short of the data until http_recv took it, and of the  *)
(* FIN until just before the closed event.  Data for a pcb closed for      *)
(* reading aborts it; a pcb a callback has freed is used all the same.     *)
TcpEvents(s, seg, parsed, w, mem) ==
  LET fin == IF seg.fin THEN "short" ELSE "full"
      a == IF seg.acked > 0
             THEN HttpSent(s, IF seg.data THEN "short" ELSE fin, w, mem) ELSE s
      d == IF seg.data /\ a.st # "none" THEN HttpRecv(a, fin, parsed, w, mem) ELSE a
      f == IF seg.fin /\ d.up THEN CloseConn(d, "full", mem) ELSE d
  IN IF seg.data /\ a.rx THEN Gone(a) ELSE f

Parses == {"OK", "INPROGRESS", "ARG"}

Becomes(c, s) == conn' = [conn EXCEPT ![c] = s]

-----------------------------------------------------------------------------
(* A SYN for the listening pcb: tcp_alloc takes a free pcb, or else kills  *)
(* one in TIME_WAIT, or else an active one (all have TCP_PRIO_MIN).        *)
Syn(c) ==
  LET s == conn[c]
      spare == \E x \in Conns : conn[x].st = "none"
      idle  == \E x \in Conns : conn[x].st = "TIME_WAIT"
  IN /\ PoolFree
     /\ spare => s.st = "none"
     /\ ~spare /\ idle => s.st = "TIME_WAIT"
     /\ Becomes(c, [HttpErr(s) EXCEPT !.st = "SYN_RCVD"])

(* The ACK that completes the handshake; the state may find no memory, and *)
(* the error makes tcp_process abort the pcb.                              *)
Accept(c) ==
  /\ conn[c].st = "SYN_RCVD" /\ PoolFree
  /\ \E seg \in Arriving(conn[c]), parsed \in Parses, w \in 0..SndBuf, mem, alloc \in BOOLEAN :
       Becomes(c, IF alloc
                  THEN TcpEvents(HttpAccept(TcpProcess(conn[c], seg)), seg, parsed, w, mem)
                  ELSE Gone(conn[c]))

(* Any later segment of the connection.                                    *)
Input(c) ==
  /\ conn[c].st \notin {"none", "SYN_RCVD", "TIME_WAIT"} /\ PoolFree
  /\ \E seg \in Arriving(conn[c]), parsed \in Parses, w \in 0..SndBuf, mem \in BOOLEAN :
       Becomes(c, TcpEvents(TcpProcess(conn[c], seg), seg, parsed, w, mem))

(* The acknowledgement of our FIN in LAST_ACK: TF_CLOSED, no callback.     *)
LastAck(c) ==
  /\ conn[c].st = "LAST_ACK" /\ PoolFree
  /\ Becomes(c, Gone(conn[c]))

(* An acceptable RST of the peer.                                          *)
Reset(c) ==
  /\ conn[c].st \notin {"none", "TIME_WAIT"} /\ PoolFree
  /\ Becomes(c, HttpErr(conn[c]))

-----------------------------------------------------------------------------
(* http_poll, called by tcp_slowtmr.  Without a state it closes again, and *)
(* aborts when even that finds no memory.  Mutant: the retries are never   *)
(* counted.                                                                *)
HttpPoll_NoCount(s, w, mem) ==
  IF s.up THEN (IF s.page THEN HttpSend(s, "full", w, mem) ELSE s)
  ELSE IF mem THEN CloseConn(s, "full", mem) ELSE Gone(s)

HttpPoll(s, w, mem) ==
  LET t == [s EXCEPT !.retries = @ + 1]
  IN CASE ~s.up -> IF mem THEN CloseConn(s, "full", mem) ELSE Gone(s)
       [] s.up /\ s.retries + 1 = MaxRetries -> CloseConn(s, "full", mem)
       [] s.up /\ s.retries + 1 # MaxRetries ->
            IF s.page THEN HttpSend(t, "full", w, mem) ELSE t

Poll(c) ==
  /\ TimersRun
  /\ conn[c].st \in Open /\ conn[c].poll
  /\ \E w \in 0..SndBuf, mem \in BOOLEAN : Becomes(c, HttpPoll(conn[c], w, mem))

(* tcp_slowtmr removes a pcb: too many retransmissions, or too long in     *)
(* SYN_RCVD, FIN_WAIT_2 or LAST_ACK.                                       *)
Drop(c) ==
  /\ TimersRun
  /\ \/ conn[c].unacked > 0
     \/ conn[c].st \in {"SYN_RCVD", "FIN_WAIT_1", "FIN_WAIT_2", "CLOSING", "LAST_ACK"}
  /\ Becomes(c, HttpErr(conn[c]))

Expire(c) ==
  /\ TimersRun
  /\ conn[c].st = "TIME_WAIT"
  /\ Becomes(c, Gone(conn[c]))

(* With the pool exhausted low_level_input drops every frame.              *)
FrameLost == ~PoolFree /\ UNCHANGED vars

Next == \/ FrameLost
        \/ \E c \in Conns : Syn(c) \/ Accept(c) \/ Input(c) \/ LastAck(c)
                            \/ Reset(c) \/ Poll(c) \/ Drop(c) \/ Expire(c)

(* tcp_slowtmr polls every registered pcb, one interval after another.     *)
Spec == Init /\ [][Next]_vars /\ \A c \in Conns : WF_vars(Poll(c))

-----------------------------------------------------------------------------
(* An http_state lives exactly as long as an open pcb passes it to httpd's *)
(* callbacks: none is leaked, none is reachable after http_state_free, and *)
(* a file is open only in a live state whose request has been let go       *)
(* (http_accept, http_state_free and every path that frees a pcb).         *)
Owned(s) ==
  /\ s.live <=> s.up
  /\ s.live => s.st \in Open /\ s.poll /\ ~s.rx
  /\ s.page => s.live /\ s.req = 0 /\ s.left > 0
  /\ ~s.live => s.req = 0 /\ s.left = 0 /\ s.retries = 0
  /\ s.st \in Open /\ ~s.live => s.poll /\ s.rx
StateOwned == \A c \in Conns : Owned(conn[c])

(* What Owned rests on: the page is split between hs->left and what was    *)
(* queued, a pcb that httpd closed is closed for reading, and one that it  *)
(* has not accepted is blank.                                              *)
Blank(s) ==
  /\ ~s.up /\ ~s.poll /\ ~s.rx /\ ~s.live /\ ~s.page
  /\ s.queued = 0 /\ s.unacked = 0 /\ s.left = 0 /\ s.req = 0 /\ s.retries = 0
Sound(s) ==
  /\ Owned(s)
  /\ s.page => s.queued + s.left = FileLen
  /\ s.live /\ ~s.page => s.queued = 0 /\ s.unacked = 0 /\ s.left = 0
  /\ s.req <= s.held
  /\ s.st \in {"none", "SYN_RCVD"} => Blank(s)
  /\ s.st \notin Open \cup {"none", "SYN_RCVD"} => s.rx /\ ~s.up
ConnIInv == \A c \in Conns : conn[c] \in Connection /\ Sound(conn[c])

(* The server queues its FIN for a connection whose page it opened only    *)
(* after the last byte of the page, or once http_poll has counted to       *)
(* HTTPD_MAX_RETRIES; before that only the peer ends the page.             *)
PageBeforeFin ==
  [][\A c \in Conns :
       conn[c].page /\ conn'[c].st = "FIN_WAIT_1"
         => conn'[c].queued = FileLen \/ conn[c].retries = MaxRetries - 1]_vars

(* Whatever the peer sends or does not send, a connection the server has   *)
(* accepted gives its http_state back: http_poll counts the silence.       *)
StateReturned == \A c \in Conns : conn[c].live ~> ~conn[c].live

(* A close that found no memory for its FIN is tried again until the pcb   *)
(* has left the open states (http_poll with a NULL argument).              *)
CloseCompleted ==
  \A c \in Conns : (conn[c].st \in Open /\ conn[c].rx) ~> conn[c].st \notin Open

(* The pbufs of a connection that no http_state leads to any more.         *)
Lost(s) == s.held - s.req

(* A pbuf that http_recv is given is freed, with the chain it has joined,  *)
(* when the request is answered or refused (pbuf_free of hs->req); it is   *)
(* lost only when it comes while a page is sent, or is chained from a      *)
(* request that is given up with its connection.                           *)
PbufsFreed ==
  [][\A c \in Conns :
       Lost(conn'[c]) > Lost(conn[c]) => conn[c].page \/ ~conn'[c].live]_vars
=============================================================================
