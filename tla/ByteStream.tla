------------------------------ MODULE ByteStream -------------------------------
(****************************************************************************)
(* What a TCP connection promises in one direction: what one side wrote is  *)
(* read by the other in order, without gaps and without repetition, and the *)
(* end of the stream is seen behind all of it and not before.               *)
(****************************************************************************)
EXTENDS Sequences, SequencesExt

VARIABLES
    written,    \* what the sender has written
    closed,     \* the sender has closed the stream
    read,       \* what the receiver has of it
    eof         \* the receiver has seen the end

vars == <<written, closed, read, eof>>

Init == written = <<>> /\ read = <<>> /\ closed = FALSE /\ eof = FALSE

\* Something is written, the stream is closed, or both.
Send ==
    /\ ~closed
    /\ IsPrefix(written, written')
    /\ closed' \in BOOLEAN
    /\ UNCHANGED <<read, eof>>

\* Nothing is read that was not written, and nothing behind the end.
Receive ==
    /\ ~eof
    /\ IsPrefix(read, read') /\ IsPrefix(read', written)
    /\ eof' \in {FALSE, closed /\ read' = written}
    /\ UNCHANGED <<written, closed>>

Spec == Init /\ [][Send \/ Receive]_vars
================================================================================
