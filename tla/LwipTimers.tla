------------------------------ MODULE LwipTimers ------------------------------
(****************************************************************************)
(* The clock and the timeout list of lwIP: sys_now counts the interrupts of *)
(* PIT channel 3, the main loop of httpd_server_init calls                  *)
(* sys_check_timeouts, and a TCP connection that is opened starts the TCP   *)
(* timer (TCP_REG, tcp_timer_needed).  The list holds differences: an entry *)
(* is due when its own time and those of all the entries before it passed.  *)
(*                                                                          *)
(* Each step of the main loop is one access to what the input side shares   *)
(* with it: the list and tcpip_tcp_timer_active.                            *)
(****************************************************************************)
EXTENDS Integers, Sequences, FiniteSetsExt

CONSTANTS
    TcpInterval,        \* TCP_TMR_INTERVAL
    IpInterval,         \* IP_TMR_INTERVAL
    ArpInterval,        \* ARP_TMR_INTERVAL
    CoarseInterval,     \* DHCP_COARSE_TIMER_MSECS
    FineInterval,       \* DHCP_FINE_TIMER_MSECS
    TimeMod,            \* u32_t: a time is a number modulo TimeMod
    MaxLag,             \* bound: how late the main loop looks at the list
    PoolSize,           \* MEMP_NUM_SYS_TIMEOUT
    ReceiveInterrupt,   \* ENET_RECEIVE_ALL_INTERRUPT: input in the ENET ISR
    PitHandler          \* which PIT3_IRQHandler the program is linked with

ASSUME IntervalsAssumption ==
    /\ TcpInterval \in Nat \ {0}
    /\ IpInterval \in Nat \ {0}
    /\ ArpInterval \in Nat \ {0}
    /\ CoarseInterval \in Nat \ {0}
    /\ FineInterval \in Nat \ {0}
ASSUME TimeAssumption ==
    /\ TimeMod \in Nat /\ MaxLag \in 1..(TimeMod - 1)
    /\ \A i \in {TcpInterval, IpInterval, ArpInterval,
                 CoarseInterval, FineInterval} : i < TimeMod
ASSUME PoolAssumption == PoolSize \in Nat /\ PoolSize >= 5
ASSUME BuildAssumption == /\ ReceiveInterrupt \in BOOLEAN
                          /\ PitHandler \in {"Events.c", "hwtimer"}

VARIABLES
    timers,   \* next_timeout: the list, the nearest timeout first
    active,   \* tcpip_tcp_timer_active
    pcbs,     \* tcp_active_pcbs or tcp_tw_pcbs is not empty
    clock,    \* time_now
    last,     \* timeouts_last_time
    main      \* the locals of sys_check_timeouts and of the handler it calls

vars == <<timers, active, pcbs, clock, last, main>>

-----------------------------------------------------------------------------
(* The list. *)

\* The timers that run for ever.
Periodic == {"ip", "arp", "coarse", "fine"}
Handlers == Periodic \union {"tcp"}
Interval == [ip |-> IpInterval, arp |-> ArpInterval, coarse |-> CoarseInterval,
             fine |-> FineInterval, tcp |-> TcpInterval]

Timeout == [h : Handlers, time : 0..(TimeMod - 1)]

\* When the i-th entry of q is due, counted from the last expiry.
Due(q, i) ==
    LET d[k \in 0..Len(q)] == IF k = 0 THEN 0 ELSE d[k-1] + q[k].time
    IN  d[i]

(* The walk of sys_timeout: how many entries stay before a new timeout of   *)
(* ms, and the difference to store in it.                                   *)
Place(q, ms) ==
    Min({i \in 0..Len(q) : i = Len(q) \/ q[i+1].time > ms - Due(q, i)})

Rest(q, ms) == ms - Due(q, Place(q, ms))

\* The links are set: the entry behind the new one is due that much later.
Link(q, at, e) ==
    LET tail == SubSeq(q, at + 1, Len(q))
    IN  SubSeq(q, 1, at) \o <<e>> \o
          [i \in 1..Len(tail) |->
             IF i = 1 THEN [tail[1] EXCEPT !.time = (@ - e.time) % TimeMod]
                      ELSE tail[i]]

New(h, rest) == [h |-> h, time |-> rest]

\* sys_timeout with nothing in between.
Scheduled(q, h) == Link(q, Place(q, Interval[h]), New(h, Rest(q, Interval[h])))

-----------------------------------------------------------------------------
(* sys_check_timeouts and the handlers, in the main loop. *)

Locals == [pc : {"idle", "loop", "unlink", "tmr", "stop", "start", "link",
                 "assert"},
           now : 0..(TimeMod - 1), diff : 0..(TimeMod - 1),
           h : Handlers, at : 0..PoolSize, rest : 0..(TimeMod - 1)]

Idle == [pc |-> "idle", now |-> 0, diff |-> 0,
         h |-> "ip", at |-> 0, rest |-> 0]

\* The handler has returned, and the loop looks at the list again.
Again(m) == [m EXCEPT !.pc = "loop", !.h = "ip", !.at = 0, !.rest = 0]

\* No element left in the pool: sys_assert disables interrupts and loops.
Full == Len(timers) + (IF main.pc = "link" THEN 1 ELSE 0) >= PoolSize
Stopped(m) == [m EXCEPT !.pc = "assert"]

(* sys_timeouts_init starts the periodic timers and the one of TCP, and     *)
(* leaves tcpip_tcp_timer_active alone.                                     *)
Init ==
    /\ timers = LET q1 == Scheduled(<<>>, "ip")
                    q2 == Scheduled(q1, "arp")
                    q3 == Scheduled(q2, "coarse")
                    q4 == Scheduled(q3, "fine")
                IN  Scheduled(q4, "tcp")
    /\ active = FALSE
    /\ pcbs = FALSE
    /\ clock = 0
    /\ last = 0
    /\ main = Idle

\* sys_check_timeouts is entered and reads the clock.
Check ==
    /\ main.pc = "idle"
    /\ timers # <<>>
    /\ main' = [main EXCEPT !.pc = "loop", !.now = clock,
                            !.diff = (clock - last) % TimeMod]
    /\ UNCHANGED <<timers, active, pcbs, clock, last>>

\* The head of the list has expired.
Expire ==
    /\ main.pc = "loop"
    /\ timers # <<>>
    /\ timers[1].time <= main.diff
    /\ last' = main.now
    /\ main' = [main EXCEPT !.pc = "unlink", !.diff = @ - timers[1].time,
                            !.h = timers[1].h, !.at = 1]
    /\ UNCHANGED <<timers, active, pcbs, clock>>

\* Mutant: timeouts_last_time is set on every call, expired or not.
Leave_AlwaysLast ==
    /\ main.pc = "loop"
    /\ timers # <<>> => timers[1].time > main.diff
    /\ last' = main.now
    /\ main' = Idle
    /\ UNCHANGED <<timers, active, pcbs, clock>>

\* It has not: what is left of diff is forgotten.
Leave ==
    /\ main.pc = "loop"
    /\ timers # <<>> => timers[1].time > main.diff
    /\ main' = Idle
    /\ UNCHANGED <<timers, active, pcbs, clock, last>>

\* Mutant: every timer runs only while a connection is registered.
Unlink_AllStop ==
    /\ main.pc = "unlink"
    /\ timers' = SubSeq(timers, main.at + 1, Len(timers))
    /\ main' = [main EXCEPT !.pc = "tmr", !.at = 0]
    /\ UNCHANGED <<active, pcbs, clock, last>>

\* next_timeout = tmptimeout->next, then the handler is called.
Unlink ==
    /\ main.pc = "unlink"
    /\ timers' = SubSeq(timers, main.at + 1, Len(timers))
    /\ main' = [main EXCEPT !.pc = IF main.h = "tcp" THEN "tmr" ELSE "start",
                            !.at = 0]
    /\ UNCHANGED <<active, pcbs, clock, last>>

(* tcpip_tcp_timer: tcp_tmr, which may give up the last connection, and the *)
(* question whether any is left.                                            *)
TcpTimer ==
    /\ main.pc = "tmr"
    /\ pcbs' \in {pcbs, FALSE}
    /\ main' = [main EXCEPT !.pc = IF pcbs' THEN "start" ELSE "stop"]
    /\ UNCHANGED <<timers, active, clock, last>>

\* Mutant: the flag is not cleared with the last connection.
Disable_KeepsFlag ==
    /\ main.pc = "stop"
    /\ main' = Again(main)
    /\ UNCHANGED <<timers, active, pcbs, clock, last>>

\* "disable timer"
Disable ==
    /\ main.pc = "stop"
    /\ active' = FALSE
    /\ main' = Again(main)
    /\ UNCHANGED <<timers, pcbs, clock, last>>

\* Mutant: the differences passed on the walk are not subtracted.
Find_WholeInterval ==
    /\ main.pc = "start"
    /\ main' = IF Full
               THEN Stopped(main)
               ELSE [main EXCEPT !.pc = "link",
                                 !.at = Place(timers, Interval[main.h]),
                                 !.rest = Interval[main.h]]
    /\ UNCHANGED <<timers, active, pcbs, clock, last>>

\* sys_timeout of the handler finds the place of the new timeout,
Find ==
    /\ main.pc = "start"
    /\ main' = IF Full
               THEN Stopped(main)
               ELSE [main EXCEPT !.pc = "link",
                                 !.at = Place(timers, Interval[main.h]),
                                 !.rest = Rest(timers, Interval[main.h])]
    /\ UNCHANGED <<timers, active, pcbs, clock, last>>

\* and links it in.
Insert ==
    /\ main.pc = "link"
    /\ timers' = Link(timers, main.at, New(main.h, main.rest))
    /\ main' = Again(main)
    /\ UNCHANGED <<active, pcbs, clock, last>>

MainStep == \/ Check \/ Expire \/ Leave \/ Unlink \/ TcpTimer \/ Disable
            \/ Find \/ Insert

-----------------------------------------------------------------------------
(* The input side.  It runs in the ENET interrupt, or between two calls of  *)
(* sys_check_timeouts in the build that polls the driver (ENET_receive).    *)

MayReceive == /\ main.pc # "assert"
              /\ ReceiveInterrupt \/ main.pc = "idle"

(* sys_timeout called there.  The place the main loop holds is a pointer:   *)
(* it moves with an entry inserted before it.                               *)
Schedule(h) ==
    IF Full
    THEN /\ main' = Stopped(main)
         /\ UNCHANGED timers
    ELSE /\ timers' = Scheduled(timers, h)
         /\ main' = IF /\ main.pc \in {"unlink", "link"}
                       /\ Place(timers, Interval[h]) < main.at
                    THEN [main EXCEPT !.at = @ + 1]
                    ELSE main

\* Mutant: the TCP timer is started for every connection.
Connect_Always ==
    /\ MayReceive
    /\ pcbs' = TRUE
    /\ active' = TRUE
    /\ Schedule("tcp")
    /\ UNCHANGED <<clock, last>>

\* A connection is registered.
Connect ==
    /\ MayReceive
    /\ pcbs' = TRUE
    /\ active' = TRUE
    /\ IF active THEN UNCHANGED <<timers, main>> ELSE Schedule("tcp")
    /\ UNCHANGED <<clock, last>>

\* A segment removes the last connection.
Disconnect ==
    /\ MayReceive
    /\ pcbs
    /\ pcbs' = FALSE
    /\ UNCHANGED <<timers, active, clock, last, main>>

(* PIT channel 3 interrupts every millisecond.  The handler of the hwtimer  *)
(* driver calls hwtimer_callback; the one of Events.c only clears the flag. *)
Lag == (clock - last) % TimeMod

\* Bound: the main loop is MaxLag behind the head of the list at most.
InTime == /\ Lag < TimeMod - 1
          /\ timers # <<>> => Lag < timers[1].time + MaxLag

Pit3 ==
    /\ PitHandler = "hwtimer" /\ main.pc # "assert"
    /\ InTime
    /\ clock' = (clock + 1) % TimeMod
    /\ UNCHANGED <<timers, active, pcbs, last, main>>

Next == MainStep \/ Connect \/ Disconnect \/ Pit3

Spec == Init /\ [][Next]_vars /\ WF_vars(MainStep) /\ WF_vars(Pit3)

-----------------------------------------------------------------------------
(* Properties. *)

(* Type invariant: in particular the subtraction of the two clocks and the  *)
(* place the main loop holds while it changes the list stay in range.       *)
TypeOK ==
    /\ timers \in Seq(Timeout)
    /\ Len(timers) <= PoolSize
    /\ active \in BOOLEAN
    /\ pcbs \in BOOLEAN
    /\ clock \in 0..(TimeMod - 1)
    /\ last \in 0..(TimeMod - 1)
    /\ main \in Locals
    /\ main.pc \in {"unlink", "link"} => main.at <= Len(timers)

\* The timeouts of h that are in the list or in the hands of their handler.
Chains(h) ==
    Cardinality({i \in 1..Len(timers) : timers[i].h = h})
      + (IF main.h = h /\ main.pc \in {"tmr", "start", "link"} THEN 1 ELSE 0)

(* The IP reassembly and the ARP timer reschedule themselves for ever: each *)
(* has exactly one timeout, in the list or on its way back to it, whatever  *)
(* the input side does to the list meanwhile.                               *)
PeriodicKept == \A h \in Periodic : Chains(h) = 1

(* While a connection is registered, the timer that retransmits for it and  *)
(* gives it up is scheduled.                                                *)
TcpTimerAlive == pcbs => Chains("tcp") > 0

(* sys_timeouts_init starts a TCP timer that tcpip_tcp_timer_active does    *)
(* not know of, so a second chain may run beside the one that a connection  *)
(* starts, but never a third: the pool of timeouts is not exhausted, and    *)
(* the links that a handler keeps while others are inserted stay in it.     *)
PoolSuffices == TypeOK /\ main.pc # "assert"

(* The list of differences implements the list of distances: every timeout  *)
(* expires after its whole interval, counted from the expiry it was started *)
(* at, in the order of their deadlines, and equals first come first served. *)
Distances == INSTANCE TimerList
    WITH pending <- [i \in 1..Len(timers) |->
                       [h |-> timers[i].h, due |-> Due(timers, i)]]

ImplementsTimerList == Distances!Spec

(* The periodic handlers run for ever (the ARP table is aged), and so does  *)
(* tcp_tmr while a connection stays: the time that sys_check_timeouts forgets when it leaves  *)
(* never starves the farthest timeout of the list.                          *)
NoneStarves ==
    /\ \A h \in Periodic : []<>(main.pc = "start" /\ main.h = h)
    /\ []<>(~pcbs \/ main.pc = "tmr")

-----------------------------------------------------------------------------
(* What comments of the code say, and the code does not do. *)

(* sys_arch.c: sys_now "returns the current time in milliseconds".  Then a  *)
(* list that is never empty has a timeout expire again and again.           *)
TimeoutsExpire == []<>(main.pc = "unlink")

=============================================================================
