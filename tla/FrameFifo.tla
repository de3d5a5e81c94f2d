------------------------------- MODULE FrameFifo -------------------------------
(****************************************************************************)
(* What a descriptor ring promises: the frames put into it come out of it   *)
(* one by one, in the order they were put in, and never more than Size of   *)
(* them wait.                                                               *)
(****************************************************************************)
EXTENDS Naturals, Sequences

CONSTANTS Frames, Size

VARIABLES
    queue,   \* the frames that wait
    out      \* the frame taken last

Init == queue = <<>>

Put(f) ==
    /\ Len(queue) < Size
    /\ queue' = Append(queue, f)
    /\ UNCHANGED out

Take ==
    /\ queue # <<>>
    /\ out' = Head(queue)
    /\ queue' = Tail(queue)

Next == (\E f \in Frames : Put(f)) \/ Take

Spec == Init /\ [][Next]_<<queue, out>>
================================================================================
