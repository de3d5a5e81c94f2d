------------------------------- MODULE TcpStream -------------------------------
(****************************************************************************)
(* The sending side of one established TCP connection: tcp_write and        *)
(* tcp_close by the web server, tcp_output, the acknowledgements that       *)
(* tcp_input takes, retransmission, the persist timer, and the end of the   *)
(* connection.  The peer and the network are external: segments and         *)
(* acknowledgements are reordered at will, and MaxFaults of them are lost   *)
(* or arrive twice, or a timer expires while there are some on the way.     *)
(*                                                                          *)
(* Data is counted in units: unit k is the k-th one written, and its        *)
(* sequence number is k - 1.  The FIN is the last unit of its segment, so   *)
(* Len(data) is TCP_TCPLEN.  What the peer sends is its FIN, of sequence    *)
(* number 0.  Handlers do not interrupt each other: tcp_input runs in the   *)
(* Ethernet interrupt, and the timers are taken to be masked by it.         *)
(****************************************************************************)
EXTENDS Integers, Sequences, FiniteSets, SequencesExt

CONSTANTS
    MaxData,    \* bound: units the server writes
    Mss,        \* pcb->mss
    SndBuf,     \* TCP_SND_BUF
    MaxRtx,     \* TCP_MAXRTX
    Buf,        \* the receive buffer of the peer
    Steps,      \* by how much the peer may open its window
    MaxFaults   \* bound on losses, duplicates and early timeouts

ASSUME StreamAssumption ==
    /\ {MaxData, MaxRtx, MaxFaults} \subseteq Nat
    /\ {Mss, SndBuf, Buf} \subseteq Nat \ {0}
    /\ Steps \subseteq Nat \ {0}

VARIABLES
    pcb,        \* struct tcp_pcb
    written,    \* units taken by tcp_write
    over,       \* how the connection ended
    toPeer,     \* segments on their way to the peer
    toBoard,    \* and to the board
    peer,       \* the peer
    faults      \* faults left

vars == <<pcb, written, over, toPeer, toBoard, peer, faults>>

Fin == 0
Units == 1 .. MaxData
Seqno == 0 .. MaxData + 1

States == {"ESTABLISHED", "FIN_WAIT_1", "FIN_WAIT_2", "CLOSE_WAIT", "CLOSING",
           "LAST_ACK", "TIME_WAIT", "CLOSED"}

HasFin(s) == s.data # <<>> /\ s.data[Len(s.data)] = Fin
DataLen(s) == IF HasFin(s) THEN Len(s.data) - 1 ELSE Len(s.data)
End(s) == s.seq + Len(s.data)

(* pcb, when the handshake is done.  wl1 and wl2 are snd_wl1 and snd_wl2,   *)
(* persist is persist_backoff > 0, inFr TF_INFR, fin TF_FIN, and rcv what   *)
(* rcv_nxt counts of the peer's FIN.                                        *)
Init ==
    /\ pcb = [state |-> "ESTABLISHED", lbb |-> 0, nxt |-> 0, lastack |-> 0,
              unsent |-> <<>>, unacked |-> <<>>, wnd |-> Buf, wl1 |-> 0, wl2 |-> 0,
              persist |-> FALSE, nrtx |-> 0, inFr |-> FALSE, fin |-> FALSE,
              rcv |-> 0, ackNow |-> FALSE]
    /\ written = 0
    /\ over = "no"
    /\ toPeer = {} /\ toBoard = {}
    /\ peer = [read |-> <<>>, early |-> {}, edge |-> Buf, closed |-> FALSE,
               acked |-> FALSE, reset |-> FALSE]
    /\ faults = MaxFaults

-----------------------------------------------------------------------------
(* tcp_output. *)

\* The segment and all before it, against snd_wnd.
Fits(p, i) == p.unsent[i].seq - p.lastack + DataLen(p.unsent[i]) <= p.wnd

\* cwnd is never less than one MSS, and nothing else is said of it.
Congested(p, i) == p.unsent[i].seq - p.lastack + DataLen(p.unsent[i]) > Mss

SndBufLeft(p) == SndBuf - (p.lbb - p.lastack)

\* tcp_do_output_nagle; a tcp_write that failed lifts it (TF_NAGLEMEMERR).
Nagle(p, i) ==
    /\ p.unacked # <<>> \/ i > 1
    /\ i = Len(p.unsent) /\ DataLen(p.unsent[i]) < Mss
    /\ ~p.inFr /\ ~p.fin /\ SndBufLeft(p) > 0

Segment(p, s) == [seq |-> s.seq, data |-> s.data, ack |-> p.rcv, rst |-> FALSE]

\* Mutant: always behind the last one.
Insert_Tail(q, s) == Append(q, s)

(* The place of a segment just sent on the unacked queue. *)
Insert(q, s) ==
    IF q # <<>> /\ s.seq < q[Len(q)].seq
    THEN LET n == Cardinality({i \in DOMAIN q : q[i].seq < s.seq})
         IN SubSeq(q, 1, n) \o <<s>> \o SubSeq(q, n + 1, Len(q))
    ELSE Append(q, s)

(* One segment sent after another: the unacked queue and snd_nxt behind the *)
(* first k.                                                                 *)
SendOne(q, s) == [unacked |-> Insert(q.unacked, s), nxt |-> Max({q.nxt, End(s)})]

SendUp(p, k) ==
    LET sent[n \in 0 .. Len(p.unsent)] ==
          IF n = 0 THEN [unacked |-> p.unacked, nxt |-> p.nxt]
                   ELSE SendOne(sent[n-1], p.unsent[n])
    IN  sent[k]

\* The first k segments are sent.
Sent(p, k) ==
    LET queue == SendUp(p, k)
    IN [pcb |-> [p EXCEPT !.unsent = SubSeq(@, k + 1, Len(@)),
                          !.unacked = queue.unacked,
                          !.nxt = queue.nxt,
                          !.ackNow = @ /\ k = 0],
        out |-> {Segment(p, p.unsent[i]) : i \in 1..k}]

\* tcp_send_empty_ack
EmptyAck(p) == [pcb |-> [p EXCEPT !.ackNow = FALSE],
                out |-> {Segment(p, [seq |-> p.nxt, data |-> <<>>])}]

\* What tcp_output may do.
Output(p) ==
    IF p.ackNow /\ (p.unsent = <<>> \/ ~Fits(p, 1))
    THEN {EmptyAck(p)}
    ELSE {Sent(p, k) : k \in {n \in 0 .. Len(p.unsent) :
            /\ \A i \in 1..n : Fits(p, i)
            /\ n < Len(p.unsent) => \/ ~Fits(p, n + 1)
                                    \/ Congested(p, n + 1)
                                    \/ Nagle(p, n + 1)}}

-----------------------------------------------------------------------------
(* The application: tcp_write and tcp_close. *)

Open(p) == p.state \in {"ESTABLISHED", "CLOSE_WAIT"}

\* New segments for the units behind a up to b.
Segments(a, b) ==
    [k \in 1 .. (b - a + Mss - 1) \div Mss |->
        [seq |-> a + (k - 1) * Mss,
         data |-> [i \in 1 .. Min({Mss, b - a - (k - 1) * Mss}) |-> a + (k - 1) * Mss + i]]]

\* Mutant: what is added to a segment goes before what it has.
Queued_Before(q, a, b) ==
    LET space == IF q = <<>> THEN 0 ELSE Mss - Len(q[Len(q)].data)
        more == Min({space, b - a})
    IN (IF more = 0 THEN q
        ELSE [q EXCEPT ![Len(q)].data = [i \in 1..more |-> a + i] \o @])
       \o Segments(a + more, b)

\* Units behind a up to b go on the unsent queue, its last segment first.
Queued(q, a, b) ==
    LET space == IF q = <<>> THEN 0 ELSE Mss - Len(q[Len(q)].data)
        more == Min({space, b - a})
    IN (IF more = 0 THEN q
        ELSE [q EXCEPT ![Len(q)].data = @ \o [i \in 1..more |-> a + i]])
       \o Segments(a + more, b)

TcpWrite(p, n) == [p EXCEPT !.unsent = Queued(@, p.lbb, p.lbb + n), !.lbb = @ + n]

\* tcp_send_fin, with tcp_enqueue_flags.
SendFin(p) ==
    LET last == Len(p.unsent) IN
    IF last > 0 /\ ~HasFin(p.unsent[last])
    THEN {[p EXCEPT !.unsent[last].data = Append(@, Fin), !.fin = TRUE]}
    ELSE {[p EXCEPT !.unsent = Append(@, [seq |-> p.lbb, data |-> <<Fin>>]),
                    !.lbb = @ + 1, !.fin = TRUE] : n \in {1} \cap 1..SndBufLeft(p)}

TcpClose(p) ==
    {[q EXCEPT !.state = IF @ = "ESTABLISHED" THEN "FIN_WAIT_1" ELSE "LAST_ACK"] :
        q \in SendFin(p)}

(* What a callback may do: write n units, close or not.  A close without    *)
(* memory for the FIN changes nothing.                                      *)
Calls(p) ==
    IF Open(p)
    THEN UNION {{[pcb |-> q, n |-> n] : q \in {TcpWrite(p, n)} \cup TcpClose(TcpWrite(p, n))} :
                  n \in 0 .. Min({SndBufLeft(p), MaxData - written})}
    ELSE {[pcb |-> p, n |-> 0]}

-----------------------------------------------------------------------------
(* tcp_receive. *)

\* Mutant: the window of any segment is taken.
NewWindow_Any(p, m) == TRUE

\* The segment is newer than the one the window was taken from.
NewWindow(p, m) ==
    \/ p.wl1 < m.seq
    \/ p.wl1 = m.seq /\ p.wl2 < m.ack
    \/ p.wl2 = m.ack /\ m.wnd > p.wnd

\* Mutant: the persist timer is not started.
Window_NoPersist(p, m) ==
    IF NewWindow(p, m)
    THEN [p EXCEPT !.wnd = m.wnd, !.wl1 = m.seq, !.wl2 = m.ack]
    ELSE p

Window(p, m) ==
    IF NewWindow(p, m)
    THEN [p EXCEPT !.wnd = m.wnd, !.wl1 = m.seq, !.wl2 = m.ack, !.persist = m.wnd = 0]
    ELSE p

\* Mutant: a segment acknowledged but for its last unit is taken off.
Unacked_Partly(q, ack) ==
    SubSeq(q, 1 + Cardinality({n \in DOMAIN q : \A i \in 1..n : End(q[i]) <= ack + 1}), Len(q))

\* The queue without the segments at its head that ack covers.
Unacked(q, ack) ==
    SubSeq(q, 1 + Cardinality({n \in DOMAIN q : \A i \in 1..n : End(q[i]) <= ack}), Len(q))

\* tcp_rexmit: the first unacknowledged segment goes back, in its place.
Rexmit(p) ==
    LET s == Head(p.unacked)
        n == Cardinality({i \in DOMAIN p.unsent : p.unsent[i].seq < s.seq})
    IN [p EXCEPT !.unacked = Tail(@), !.nrtx = @ + 1,
                 !.unsent = SubSeq(@, 1, n) \o <<s>> \o SubSeq(@, n + 1, Len(@))]

(* A duplicate acknowledgement; as the count of them is left out, any may   *)
(* be the third.                                                            *)
Duplicate(p, q, m) ==
    /\ ~m.fin /\ m.ack = p.lastack
    /\ q.wl2 + q.wnd = p.wl2 + p.wnd
    /\ p.unacked # <<>> /\ ~p.inFr

Acked(p, ack) ==
    [p EXCEPT !.inFr = FALSE, !.nrtx = 0, !.lastack = ack, !.unacked = Unacked(@, ack)]

AckPart(p, m) ==
    LET q == Window(p, m)
        unqueued(r) == IF m.ack <= p.nxt
                       THEN [r EXCEPT !.unsent = Unacked(@, m.ack)] ELSE r
    IN CASE m.ack \in p.lastack + 1 .. p.nxt -> {unqueued(Acked(q, m.ack))}
         [] Duplicate(p, q, m) -> {unqueued(q), unqueued([Rexmit(q) EXCEPT !.inFr = TRUE])}
         [] OTHER -> {unqueued(q)}

GotFin(p, m) ==
    m.fin /\ p.rcv = 0 /\ p.state \in {"ESTABLISHED", "FIN_WAIT_1", "FIN_WAIT_2"}

\* What was received before is acknowledged again.
FinPart(p, m) ==
    CASE GotFin(p, m) -> [p EXCEPT !.rcv = 1, !.ackNow = TRUE]
      [] m.seq < p.rcv -> [p EXCEPT !.ackNow = TRUE]
      [] OTHER -> p

-----------------------------------------------------------------------------
(* tcp_process: the state behind the segment, and whether the pcb is done   *)
(* with.  "ackno == snd_nxt" is taken for the acknowledgement of the FIN.   *)

\* tcp_pcb_purge; what it leaves of the pcb is not looked at again.
Purged(p) == [p EXCEPT !.unsent = <<>>, !.unacked = <<>>, !.wnd = 0, !.wl1 = 0, !.wl2 = 0,
                       !.persist = FALSE, !.nrtx = 0, !.inFr = FALSE]

\* Purged and given back to the pool: only that it was closed is remembered.
Freed(p) == [Purged(p) EXCEPT !.state = "CLOSED", !.lbb = 0, !.nxt = 0, !.lastack = 0,
                              !.rcv = 0, !.ackNow = FALSE]

AllAcked(p, m) == m.ack = p.nxt

Process(p, m) ==
    LET to(s) == [p EXCEPT !.state = s]
        wait == [Purged(p) EXCEPT !.state = "TIME_WAIT"]
    IN CASE p.state = "ESTABLISHED" /\ p.rcv = 1 -> to("CLOSE_WAIT")
         [] p.state = "FIN_WAIT_1" /\ p.rcv = 1 ->
              IF AllAcked(p, m) THEN wait ELSE to("CLOSING")
         [] p.state = "FIN_WAIT_1" /\ p.rcv = 0 /\ AllAcked(p, m) -> to("FIN_WAIT_2")
         [] p.state = "FIN_WAIT_2" /\ p.rcv = 1 -> wait
         [] p.state = "CLOSING" /\ AllAcked(p, m) -> wait
         [] p.state = "LAST_ACK" /\ AllAcked(p, m) -> Freed(p)
         [] OTHER -> p

\* How a connection ends: "cut" when its queues are not empty.
Ending(p) == IF p.unsent \o p.unacked = <<>> THEN "done" ELSE "cut"

-----------------------------------------------------------------------------
(* The network.  A message is taken off when it arrives, unless it arrives  *)
(* twice.                                                                   *)

\* What is left of a network that m arrives from.
Left(net, m) == {net \ {m}} \cup (IF faults > 0 THEN {net} ELSE {})

Spent(net, net2) == faults' = IF net2 = net THEN faults - 1 ELSE faults

Lose ==
    /\ faults > 0 /\ faults' = faults - 1
    /\ \/ \E m \in toPeer : toPeer' = toPeer \ {m} /\ UNCHANGED toBoard
       \/ \E m \in toBoard : toBoard' = toBoard \ {m} /\ UNCHANGED toPeer
    /\ UNCHANGED <<pcb, written, over, peer>>

Quiet == toPeer = {} /\ toBoard = {}

(* A timer expires when nothing is on the way any more, or too early.       *)
Expires == IF Quiet THEN UNCHANGED faults
           ELSE faults > 0 /\ faults' = faults - 1

-----------------------------------------------------------------------------
(* tcp_input.  Behind tcp_process come the callbacks, for data acknowledged *)
(* or for the FIN, and tcp_output.                                          *)

Rst == [seq |-> 0, data |-> <<>>, ack |-> 0, rst |-> TRUE]

Process_Input(m) ==
    \E q \in AckPart(pcb, m) :
    LET r == FinPart(q, m)
        p == Process(r, m)
        called == q.lastack > pcb.lastack \/ r.rcv > pcb.rcv
    IN IF p.state = "CLOSED"
       THEN /\ pcb' = p
            /\ over' = Ending(r)
            /\ UNCHANGED <<written, toPeer>>
       ELSE \E c \in IF called THEN Calls(p) ELSE {[pcb |-> p, n |-> 0]} :
            \E o \in Output(c.pcb) :
               /\ pcb' = o.pcb
               /\ written' = written + c.n
               /\ toPeer' = toPeer \cup o.out
               /\ over' = IF p.state = "TIME_WAIT" THEN Ending(r) ELSE over

Input(m) ==
    /\ CASE pcb.state = "CLOSED" ->
              toPeer' = toPeer \cup {Rst} /\ UNCHANGED <<pcb, written, over>>
         [] pcb.state = "TIME_WAIT" ->
              /\ toPeer' = toPeer \cup (IF m.fin THEN EmptyAck(pcb).out ELSE {})
              /\ UNCHANGED <<pcb, written, over>>
         [] OTHER -> Process_Input(m)
    /\ toBoard' \in Left(toBoard, m)
    /\ Spent(toBoard, toBoard')
    /\ UNCHANGED peer

Receive == \E m \in toBoard : Input(m)

-----------------------------------------------------------------------------
(* tcp_slowtmr. *)

Active == pcb.state \notin {"TIME_WAIT", "CLOSED"}

\* The poll callback, and tcp_output behind it.
Poll ==
    /\ Active
    /\ \E c \in Calls(pcb) : \E o \in Output(c.pcb) :
          /\ pcb' = o.pcb
          /\ written' = written + c.n
          /\ toPeer' = toPeer \cup o.out
    /\ UNCHANGED <<over, toBoard, peer, faults>>

\* The retransmission timer, with tcp_rexmit_rto.
Retransmit ==
    /\ Active /\ pcb.nrtx # MaxRtx
    /\ ~pcb.persist /\ pcb.unacked # <<>>
    /\ Expires
    /\ \E o \in Output([pcb EXCEPT !.unsent = pcb.unacked \o @, !.unacked = <<>>,
                                   !.nrtx = @ + 1]) :
          pcb' = o.pcb /\ toPeer' = toPeer \cup o.out
    /\ UNCHANGED <<written, over, toBoard, peer>>

\* The persist timer, with tcp_zero_window_probe: one unit, or the FIN.
Probe ==
    /\ Active /\ pcb.nrtx # MaxRtx
    /\ pcb.persist
    /\ Expires
    /\ LET queue == pcb.unacked \o pcb.unsent
       IN /\ queue # <<>>
          /\ toPeer' = toPeer \cup {Segment(pcb, [seq |-> Head(queue).seq,
                                                  data |-> <<Head(Head(queue).data)>>])}
    /\ UNCHANGED <<pcb, written, over, toBoard, peer>>

\* MaxRtx retransmissions, or too long in FIN_WAIT_2 or LAST_ACK.
Drop ==
    /\ Active
    /\ pcb.nrtx = MaxRtx \/ pcb.state \in {"FIN_WAIT_2", "LAST_ACK"}
    /\ pcb' = Freed(pcb)
    /\ over' = "dropped"
    /\ UNCHANGED <<written, toPeer, toBoard, peer, faults>>

TimeWaitOver ==
    /\ pcb.state = "TIME_WAIT"
    /\ pcb' = Freed(pcb)
    /\ UNCHANGED <<written, over, toPeer, toBoard, peer, faults>>

-----------------------------------------------------------------------------
(* The peer: it keeps what arrives in its window, acknowledges every        *)
(* segment that is not empty, opens its window without ever taking any of   *)
(* it back, and closes its own direction when it likes.                     *)

\* What was read, with the units of got that follow it.
Gathered(read, got) ==
    LET next == {i \in Len(read) .. MaxData + 1 :
                    \A j \in Len(read) .. i : \E u \in got : u[1] = j}
    IN read \o [i \in 1 .. Cardinality(next) |->
                    (CHOOSE u \in got : u[1] = Len(read) + i - 1)[2]]

Eof(q) == q.read # <<>> /\ q.read[Len(q.read)] = Fin
DataRead(q) == IF Eof(q) THEN SubSeq(q.read, 1, Len(q.read) - 1) ELSE q.read

Ack(q) == [seq |-> IF q.closed THEN 1 ELSE 0, fin |-> FALSE, ack |-> Len(q.read),
           wnd |-> Max({0, q.edge - Len(q.read)})]
PeerFin(q) == [Ack(q) EXCEPT !.seq = 0, !.fin = TRUE]

PeerReceive(m) ==
    /\ IF peer.reset THEN UNCHANGED <<peer, toBoard>>
       ELSE IF m.rst THEN peer' = [peer EXCEPT !.reset = TRUE] /\ UNCHANGED toBoard
       ELSE LET taken == {<<m.seq + i - 1, m.data[i]>> : i \in
                            {j \in DOMAIN m.data :
                               \/ m.seq + j - 1 < peer.edge
                               \/ m.data[j] = Fin /\ m.seq + j - 1 = peer.edge}}
                read == Gathered(peer.read, peer.early \cup taken)
            IN /\ peer' = [peer EXCEPT !.read = read, !.acked = @ \/ m.ack = 1,
                             !.early = {u \in @ \cup taken : u[1] >= Len(read)}]
               /\ toBoard' = toBoard \cup (IF m.data = <<>> THEN {} ELSE {Ack(peer')})
    /\ toPeer' \in Left(toPeer, m)
    /\ Spent(toPeer, toPeer')
    /\ UNCHANGED <<pcb, written, over>>

PeerReads ==
    /\ ~peer.reset /\ ~Eof(peer)
    /\ \E n \in Steps :
          /\ peer.edge + n <= Len(peer.read) + Buf
          /\ peer' = [peer EXCEPT !.edge = @ + n]
    /\ toBoard' = toBoard \cup {Ack(peer')}
    /\ UNCHANGED <<pcb, written, over, toPeer, faults>>

PeerCloses ==
    /\ ~peer.reset /\ ~peer.closed
    /\ peer' = [peer EXCEPT !.closed = TRUE]
    /\ toBoard' = toBoard \cup {PeerFin(peer)}
    /\ UNCHANGED <<pcb, written, over, toPeer, faults>>

PeerRepeats ==
    /\ ~peer.reset /\ peer.closed /\ ~peer.acked
    /\ Expires
    /\ toBoard' = toBoard \cup {PeerFin(peer)}
    /\ UNCHANGED <<pcb, written, over, toPeer, peer>>

PeerStep == (\E m \in toPeer : PeerReceive(m)) \/ PeerReads \/ PeerCloses \/ PeerRepeats

Next == \/ Receive \/ Poll \/ Retransmit \/ Probe \/ Drop \/ TimeWaitOver
        \/ PeerStep \/ Lose

Spec == Init /\ [][Next]_vars

\* What tcp_slowtmr does of its own.
Slowtmr == Retransmit \/ Probe \/ (pcb.nrtx = MaxRtx /\ Drop)

\* When Slowtmr is enabled.
TimerDue ==
    /\ Active
    /\ \/ pcb.nrtx = MaxRtx
       \/ /\ Quiet \/ faults > 0
          /\ pcb.unacked # <<>> \/ (pcb.persist /\ pcb.unsent # <<>>)

MessageLeaves == ~(toPeer \subseteq toPeer' /\ toBoard \subseteq toBoard')

(* What is on its way arrives, the TCP timer runs whenever it is quiet, and *)
(* the peer reads.  The first is weak fairness of Receive and PeerReceive,  *)
(* said by what these steps do: a message leaves the network.  So it does   *)
(* when it is lost, but not for ever (MaxFaults).  The second is strong     *)
(* fairness of Slowtmr, with TimerDue for ENABLED.                          *)
FairSpec ==
    /\ Spec
    /\ []<>Quiet \/ []<><<MessageLeaves>>_vars
    /\ <>[]~TimerDue \/ []<><<Slowtmr>>_vars
    /\ WF_vars(PeerReads)

-----------------------------------------------------------------------------
Segs == [seq : Seqno, data : UNION {[1..n -> Units \cup {Fin}] : n \in 0 .. Mss + 1}]

(* Every variable has its type; snd_nxt never lags behind lastack, which    *)
(* never passes what was queued.                                            *)
TypeOK ==
    /\ pcb.state \in States
    /\ {pcb.lbb, pcb.nxt, pcb.lastack} \subseteq Seqno
    /\ pcb.lastack <= pcb.nxt /\ pcb.nrtx \in Nat
    /\ pcb.wnd \in 0 .. Buf /\ pcb.rcv \in 0..1
    /\ \A s \in ToSet(pcb.unsent \o pcb.unacked) : s \in Segs /\ DataLen(s) <= Mss
    /\ written \in 0 .. MaxData /\ faults \in 0 .. MaxFaults
    /\ over \in {"no", "done", "cut", "dropped"}

Ascending(q) == \A i \in 1 .. Len(q) - 1 : End(q[i]) <= q[i + 1].seq
Positions(q) == UNION {q[i].seq .. End(q[i]) - 1 : i \in DOMAIN q}

(* While the connection is active the two queues hold everything that was   *)
(* written and is not acknowledged, once and in order, whatever fast and    *)
(* slow retransmissions and late acknowledgements have moved between them;  *)
(* numbers and windows stay in their ranges.                                *)
QueuesCover ==
    /\ TypeOK
    /\ Active =>
        /\ Ascending(pcb.unsent) /\ Ascending(pcb.unacked)
        /\ Positions(pcb.unsent) \cap Positions(pcb.unacked) = {}
        /\ pcb.lastack .. written - (IF pcb.fin THEN 0 ELSE 1)
              \subseteq Positions(pcb.unsent) \cup Positions(pcb.unacked)

(* Until the peer has closed, nothing but a window probe goes past what it  *)
(* has offered, whatever order its window updates arrive in.                *)
WindowKept ==
    ~peer.closed => \A m \in toPeer : m.seq + DataLen(m) <= peer.edge \/ Len(m.data) <= 1

(* A connection that ended with nothing left on its queues has brought the  *)
(* peer everything, and the end of it.                                      *)
DoneMeansRead ==
    over = "done" => Eof(peer) /\ Len(DataRead(peer)) = written

Stream == INSTANCE ByteStream WITH
    written <- [i \in 1 .. written |-> i], closed <- pcb.fin,
    read <- DataRead(peer), eof <- Eof(peer)

(* Through losses, reordering and retransmissions the connection is a       *)
(* stream of bytes.                                                         *)
ImplementsByteStream == Stream!Spec

Over == over \in {"cut", "dropped"} \/ peer.reset
CaughtUp == Len(DataRead(peer)) = written /\ (pcb.fin => Eof(peer))

\* The window is open, but too small for the segment that waits.
SmallWindow == /\ pcb.unacked = <<>> /\ pcb.unsent # <<>>
               /\ pcb.wnd > 0 /\ ~Fits(pcb, 1)

(* Everything written reaches the peer in the end unless the connection is  *)
(* dropped, or waits for a window that opened by too little.                *)
Progress == <>[](CaughtUp \/ Over \/ SmallWindow)
================================================================================
