------------------------------ MODULE TimerList ------------------------------
(****************************************************************************)
(* What the timeout list of lwIP promises: every pending timeout is kept    *)
(* with its own distance to the last expiry, the nearest one expires first, *)
(* equals in the order they were started, and expiring one brings all the   *)
(* others nearer by the time that passed.  LwipTimers implements it with    *)
(* one list of differences.                                                 *)
(****************************************************************************)
EXTENDS Integers, Sequences, FiniteSets

CONSTANT Interval   \* the period each timeout handler asks for

VARIABLE pending    \* the pending timeouts, nearest first

\* Starting h puts it behind every timeout that is due no later.
Start(h) ==
    \E n \in 0..Len(pending) :
       /\ \A i \in 1..n : pending[i].due <= Interval[h]
       /\ \A i \in n+1 .. Len(pending) : pending[i].due > Interval[h]
       /\ pending' = SubSeq(pending, 1, n) \o <<[h |-> h, due |-> Interval[h]]>>
                        \o SubSeq(pending, n + 1, Len(pending))

Expire ==
    /\ pending # <<>>
    /\ pending' = [i \in 1..(Len(pending) - 1) |->
                     [pending[i+1] EXCEPT !.due = @ - pending[1].due]]

\* The boot code starts one timeout per handler, in any order.
Init ==
    LET n == Cardinality(DOMAIN Interval)
    IN  /\ Len(pending) = n
        /\ {pending[i].h : i \in 1..n} = DOMAIN Interval
        /\ \A i \in 1..n : pending[i].due = Interval[pending[i].h]
        /\ \A i \in 1..(n - 1) : pending[i].due <= pending[i+1].due

Next == Expire \/ \E h \in DOMAIN Interval : Start(h)

Spec == Init /\ [][Next]_pending

=============================================================================
