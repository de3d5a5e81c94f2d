------------------------------- MODULE SsiSend -------------------------------
(****************************************************************************)
(* A page on its way into the send buffer of its connection: http_send and  *)
(* http_send_data_ssi of Sources/httpd.c, which look for the tags of a page *)
(* and send an insert string behind each, in as many calls as the send      *)
(* buffer and the heap demand.                                              *)
(*                                                                          *)
(* Every turn of the parsing loop is a step.  What tcp_write takes is the   *)
(* choice of the environment, which calls http_send again when the peer has *)
(* acknowledged something (http_sent) or when it has been silent for a      *)
(* while (http_poll).                                                       *)
(****************************************************************************)
EXTENDS Integers, Sequences, FiniteSetsExt, SequencesExt

CONSTANTS
    Chars,      \* the characters that pages and inserts are made of
    Pages,      \* the pages: file data, its header, and what the peer is to read
    Inserts,    \* g_ppcTags and what g_pfnSSIHandler writes for each of them
    MaxName,    \* LWIP_HTTPD_MAX_TAG_NAME_LEN
    SndBuf,     \* TCP_SND_BUF
    MaxSend     \* 2 * tcp_mss(pcb), for the mss the peer announced

ASSUME PagesAssumption ==
    \A p \in Pages : /\ p.text \in Seq(Chars)
                     /\ p.header \in 0..(Len(p.text) - 1)
ASSUME InsertsAssumption ==
    "*" \in Chars /\ \A name \in DOMAIN Inserts : Inserts[name] \in Seq(Chars)
ASSUME SizesAssumption == {MaxName, SndBuf, MaxSend} \subseteq Nat \ {0}

VARIABLES
    page,     \* hs->handle: the page that is sent
    hs,       \* the http_state: file, left, and whether it has an ssi state
    ssi,      \* the http_ssi_state
    call,     \* the call of http_send: where it is, its len, and its err
    sndbuf,   \* tcp_sndbuf(pcb)
    sent      \* history: what tcp_write took

vars == <<page, hs, ssi, call, sndbuf, sent>>

-----------------------------------------------------------------------------
(* State. *)

LeadIn  == <<"<", "!", "-", "-", "#">>
LeadOut == <<"-", "-", ">">>

\* One for the four blanks of the code: space, tab and both line ends.
Blank == {"sp"}

TagState == {"NONE", "LEADIN", "FOUND", "LEADOUT", "SENDING"}

At == {"plain", "resume", "loop", "final", "check", "idle", "eof"}

Text == page.text

\* file and parsed are offsets into the page; skipped is where file began.
HttpState == [file : 0..Len(Text), left : 0..Len(Text), ssi : BOOLEAN,
              skipped : {0, page.header}]

SsiState == [state : TagState, parsed : 0..Len(Text), parse_left : 0..Len(Text),
             index : Nat, end : 0..Len(Text), name : Seq(Chars), insert : Seq(Chars)]

\* The tag checker of a page just opened.
Opened(text) ==
    [state |-> "NONE", parsed |-> 0, parse_left |-> Len(text),
     index |-> 0, end |-> 0, name |-> <<>>, insert |-> <<>>]

(* http_init_file: the state of a page just opened.  An HTTP/0.9 request    *)
(* skips the header, in hs alone; without memory for an http_ssi_state the  *)
(* page is sent as it is.                                                   *)
Init ==
    /\ page \in Pages
    /\ \E skip \in {0, page.header}, tags \in BOOLEAN :
          /\ hs = [file |-> skip, left |-> Len(Text) - skip, ssi |-> tags,
                   skipped |-> skip]
          /\ call = [at |-> IF tags THEN "resume" ELSE "plain",
                     len |-> SndBuf, ok |-> TRUE]
    /\ ssi = Opened(Text)
    /\ sndbuf = SndBuf
    /\ sent = <<>>

-----------------------------------------------------------------------------
(* http_write: tcp_write is tried with len, and with half of it as long as  *)
(* there is no memory and more than one byte to try.                        *)

Tried(len) == {n \in 1..len : \/ n = len
                              \/ n > 1 /\ \E k \in 1..len : n = len \div 2^k}

Outcomes(len) ==
    IF len = 0 THEN {[ok |-> TRUE, n |-> 0]}
    ELSE {[ok |-> TRUE, n |-> n] : n \in {m \in Tried(len) : m <= sndbuf}}
           \cup {[ok |-> FALSE, n |-> 0]}

Written(data, w) ==
    /\ sent' = sent \o SubSeq(data, 1, w.n)
    /\ sndbuf' = sndbuf - w.n

\* w bytes of the page, from hs->file on.
FileWritten(w) ==
    /\ Written(SubSeq(Text, hs.file + 1, Len(Text)), w)
    /\ hs' = [hs EXCEPT !.file = @ + w.n, !.left = @ - w.n]

Goes(at, w) == call' = [at |-> at, len |-> w.n, ok |-> w.ok]

Parsed == ssi.parsed > hs.file

\* What may be sent of the parsed data.
Room == Min({sndbuf, ssi.parsed - hs.file, MaxSend})

-----------------------------------------------------------------------------
(* http_send_data_ssi. *)

\* The data parsed in an earlier call goes first.
Resume ==
    /\ call.at = "resume"
    /\ IF Parsed
       THEN \E w \in Outcomes(Room) :
               /\ FileWritten(w)
               /\ Goes(IF sndbuf' = 0 THEN "check" ELSE "loop", w)
       ELSE /\ call' = [call EXCEPT !.at = "loop"]
            /\ UNCHANGED <<hs, sndbuf, sent>>
    /\ UNCHANGED <<page, ssi>>

\* The loop goes on: a character is left, room to send, and no error.
Looping == call.at = "loop" /\ ssi.parse_left > 0 /\ call.ok /\ call.len > 0

\* Mutant: nothing is sent behind the loop.
LeaveLoop_Unsent ==
    /\ call.at = "loop" /\ ~(ssi.parse_left > 0 /\ call.ok)
    /\ call' = [call EXCEPT !.at = "check"]
    /\ UNCHANGED <<page, hs, ssi, sndbuf, sent>>

LeaveLoop ==
    /\ call.at = "loop" /\ ~(ssi.parse_left > 0 /\ call.ok)
    /\ call' = [call EXCEPT !.at = "final"]
    /\ UNCHANGED <<page, hs, ssi, sndbuf, sent>>

NoRoom ==
    /\ call.at = "loop" /\ ssi.parse_left > 0 /\ call.ok /\ call.len = 0
    /\ call' = [call EXCEPT !.at = "check"]
    /\ UNCHANGED <<page, hs, ssi, sndbuf, sent>>

\* On to the next character.
Consumed(s) == [s EXCEPT !.parsed = @ + 1, !.parse_left = @ - 1]

\* One turn of the tag checker in each of its states, for the character c.
ScanStep(s, c) ==
    IF c = LeadIn[1] THEN [Consumed(s) EXCEPT !.state = "LEADIN", !.index = 1]
    ELSE Consumed(s)

LeadInStep(s, c) ==
    CASE s.index = Len(LeadIn) -> [s EXCEPT !.state = "FOUND", !.index = 0]
      [] s.index # Len(LeadIn) /\ c = LeadIn[s.index + 1] ->
            [Consumed(s) EXCEPT !.index = @ + 1]
      [] OTHER -> [Consumed(s) EXCEPT !.state = "NONE"]

EndsName(c) == c \in Blank \cup {LeadOut[1]}

NameStep(s, c) ==
    CASE s.index = 0 /\ c \in Blank -> Consumed(s)
      [] s.index = 0 /\ c = LeadOut[1] -> [Consumed(s) EXCEPT !.state = "NONE"]
      [] s.index > 0 /\ EndsName(c) ->
            [Consumed(s) EXCEPT !.state = "LEADOUT",
                                !.index = IF c = LeadOut[1] THEN 1 ELSE 0]
      [] ~EndsName(c) /\ s.index < MaxName ->
            [Consumed(s) EXCEPT !.index = @ + 1,
                                !.name = Append(SubSeq(@, 1, s.index), c)]
      [] OTHER -> [Consumed(s) EXCEPT !.state = "NONE"]

LeadOutStep(s, c) ==
    CASE s.index = 0 /\ c \in Blank -> Consumed(s)
      [] c = LeadOut[s.index + 1] -> [Consumed(s) EXCEPT !.index = @ + 1]
      [] OTHER -> [Consumed(s) EXCEPT !.state = "NONE"]

Step(s, c) == CASE s.state = "NONE"    -> ScanStep(s, c)
                [] s.state = "LEADIN"  -> LeadInStep(s, c)
                [] s.state = "FOUND"   -> NameStep(s, c)
                [] s.state = "LEADOUT" -> LeadOutStep(s, c)

EndsTag(s, c) ==
    s.state = "LEADOUT" /\ s.index = Len(LeadOut) - 1 /\ c = LeadOut[Len(LeadOut)]

Here == Text[ssi.parsed + 1]

\* The character at parsed is the last one of a tag.
Closes == EndsTag(ssi, Here)

Parse ==
    /\ Looping /\ ssi.state # "SENDING" /\ ~Closes
    /\ ssi' = Step(ssi, Here)
    /\ UNCHANGED <<page, hs, call, sndbuf, sent>>

\* get_tag_insert: an unknown tag is echoed between error marks.
TagInsert(name) ==
    IF name \in DOMAIN Inserts THEN Inserts[name] ELSE <<"*">> \o name \o <<"*">>

\* Mutant: len is not cut at the end of the tag.
Up_PastTag(n) == Min({call.len, hs.left})

\* What len leaves of the data up to n.
Up(n) == Min({call.len, n - hs.file})

\* The checker behind a tag, whose insert is fetched.
Fetched(s) == [Consumed(s) EXCEPT !.state = "SENDING", !.index = 0,
                                  !.end = s.parsed + 1,
                                  !.insert = TagInsert(s.name)]

\* A tag ends here: its insert is fetched, and what is before it is sent.
TagFound ==
    /\ Looping /\ ssi.state # "SENDING" /\ Closes
    /\ ssi' = Fetched(ssi)
    /\ IF ssi'.end > hs.file
       THEN \E w \in Outcomes(Up(ssi'.end)) : FileWritten(w) /\ Goes("loop", w)
       ELSE UNCHANGED <<hs, call, sndbuf, sent>>
    /\ UNCHANGED page

\* The rest of what is before the insert.
SendBefore ==
    /\ Looping /\ ssi.state = "SENDING" /\ ssi.end > hs.file
    /\ \E w \in Outcomes(Up(ssi.end)) : FileWritten(w) /\ Goes("loop", w)
    /\ UNCHANGED <<page, ssi>>

\* The insert, or as much of it as is taken.
SendInsert ==
    /\ Looping /\ ssi.state = "SENDING" /\ ssi.end <= hs.file
    /\ ssi.index < Len(ssi.insert)
    /\ \E w \in Outcomes(Min({call.len, Len(ssi.insert) - ssi.index})) :
          /\ Written(SubSeq(ssi.insert, ssi.index + 1, Len(ssi.insert)), w)
          /\ Goes("loop", w)
          /\ ssi' = [ssi EXCEPT !.index = @ + w.n]
    /\ UNCHANGED <<page, hs>>

\* The checker goes on when the insert is sent.
GoesOn(s) == [s EXCEPT !.state = "NONE", !.index = 0]

\* Mutant: the checker stays with a tag whose insert is sent.
InsertSent_Stays ==
    /\ Looping /\ ssi.state = "SENDING" /\ ssi.end <= hs.file
    /\ ssi.index >= Len(ssi.insert)
    /\ ssi' = [ssi EXCEPT !.index = Len(ssi.insert)]
    /\ UNCHANGED <<page, hs, call, sndbuf, sent>>

InsertSent ==
    /\ Looping /\ ssi.state = "SENDING" /\ ssi.end <= hs.file
    /\ ssi.index >= Len(ssi.insert)
    /\ ssi' = GoesOn(ssi)
    /\ UNCHANGED <<page, hs, call, sndbuf, sent>>

\* Behind the loop: parsed data that no tag holds back.
Final ==
    /\ call.at = "final"
    /\ IF ssi.state # "SENDING" /\ Parsed
       THEN \E w \in Outcomes(Room) : FileWritten(w) /\ Goes("check", w)
       ELSE call' = [call EXCEPT !.at = "check"] /\ UNCHANGED <<hs, sndbuf, sent>>
    /\ UNCHANGED <<page, ssi>>

-----------------------------------------------------------------------------
(* http_send. *)

\* http_send_data_nonssi
Plain ==
    /\ call.at = "plain"
    /\ \E w \in Outcomes(Min({sndbuf, hs.left, MaxSend})) :
          FileWritten(w) /\ Goes("check", w)
    /\ UNCHANGED <<page, ssi>>

\* Mutant: the page is taken to be sent when it is parsed.
Check_Parsed ==
    /\ call.at = "check"
    /\ call' = [call EXCEPT !.at = IF ssi.parse_left = 0 THEN "eof" ELSE "idle"]
    /\ UNCHANGED <<page, hs, ssi, sndbuf, sent>>

\* The end of the page closes the connection (http_eof).
Check ==
    /\ call.at = "check"
    /\ call' = [call EXCEPT !.at = IF hs.left = 0 THEN "eof" ELSE "idle"]
    /\ UNCHANGED <<page, hs, ssi, sndbuf, sent>>

\* http_send is called again, by http_poll or, with n bytes acknowledged, by
\* http_sent.
Send(n) ==
    /\ call.at = "idle"
    /\ sndbuf' = sndbuf + n
    /\ call' = [at |-> IF hs.ssi THEN "resume" ELSE "plain", len |-> sndbuf', ok |-> TRUE]
    /\ UNCHANGED <<page, hs, ssi, sent>>

Called == \E n \in 0..(SndBuf - sndbuf) : Send(n)

Running == \/ Resume \/ LeaveLoop \/ NoRoom \/ Parse \/ TagFound \/ SendBefore
           \/ SendInsert \/ InsertSent \/ Final \/ Plain \/ Check

Next == Running \/ Called

Spec == Init /\ [][Next]_vars /\ WF_vars(Running)

-----------------------------------------------------------------------------
(* Properties. *)

\* The index of the tag checker stays inside what it counts in: the two marks,
\* the buffer of the name, the insert.
IndexOK(s) ==
    /\ s.state = "LEADIN"  => s.index \in 1..Len(LeadIn)
    /\ s.state = "FOUND"   => s.index \in 0..MaxName /\ s.index <= Len(s.name)
    /\ s.state = "LEADOUT" => s.index \in 0..(Len(LeadOut) - 1)
    /\ s.state = "SENDING" => s.index \in 0..Len(s.insert)

(* Type invariant: no pointer leaves the page, no count goes below zero, and *)
(* no index leaves its buffer.                                              *)
TypeOK ==
    /\ page \in Pages
    /\ hs \in HttpState
    /\ ssi \in SsiState
    /\ IndexOK(ssi)
    /\ call \in [at : At, len : 0..SndBuf, ok : BOOLEAN]
    /\ sndbuf \in 0..SndBuf
    /\ sent \in Seq(Chars)

\* What TypeOK rests on: a page is split at hs->file and at ssi->parsed, and the
\* tag that is being sent ends where parsing stopped.
Balanced ==
    /\ hs.left = Len(Text) - hs.file
    /\ ssi.parse_left = Len(Text) - ssi.parsed
    /\ ssi.end <= ssi.parsed
    /\ call.at \in {"resume", "loop", "final"} => hs.ssi
SendIInv == TypeOK /\ Balanced

(* The page read in one go, without a send buffer: after n turns of the     *)
(* checker, where it is and what has been read with the inserts.            *)
Turn(r, text) ==
    LET c == text[r.at.parsed + 1]
        next == Step(r.at, c)
    IN  IF r.at.parse_left = 0 THEN r
        ELSE IF EndsTag(r.at, c)
             THEN [at |-> GoesOn(Fetched(r.at)), read |-> r.read \o <<c>> \o TagInsert(r.at.name)]
             ELSE [at |-> next, read |-> r.read \o SubSeq(text, r.at.parsed + 1, next.parsed)]

\* No turn is spent on a character but the one that ends a lead-in.
Turns(text) == 2 * Len(text)

Reading(text) ==
    LET reading[n \in 0..Turns(text)] ==
          IF n = 0 THEN [at |-> Opened(text), read |-> <<>>]
                   ELSE Turn(reading[n-1], text)
    IN  reading

(* The pages are read so, and have no tag in the header or at their end, as *)
(* those of fsdata.c.                                                       *)
ASSUME ExpectedAssumption ==
    \A p \in Pages :
       LET reading == Reading(p.text)
           last == reading[Turns(p.text)]
       IN  /\ p.expected = last.read
           /\ last.at.end < Len(p.text)
           /\ \A n \in 0..Turns(p.text) :
                 reading[n].at.parsed <= p.header => reading[n].at.end = 0

\* What the peer is to read: the page with its inserts, or just as it is.
Expected ==
    LET all == IF hs.ssi THEN page.expected ELSE Text
    IN  SubSeq(all, hs.skipped + 1, Len(all))

(* Whatever tcp_write takes, and in however many calls, the peer reads the  *)
(* page in its order, with every insert right behind its tag, whole and     *)
(* once (http_send_data_ssi).                                               *)
SentIsPrefix == IsPrefix(sent, Expected)

(* The connection is closed when all of that has been sent, and not before  *)
(* (http_send: "We reached the end of the file so this request is done").   *)
ClosedWhenSent == call.at = "eof" => sent = Expected

(* A call that leaves nothing in the send buffer for the peer to            *)
(* acknowledge, so that http_sent will not call again, was out of memory.   *)
NoStall == call.at = "idle" /\ sndbuf = SndBuf => ~call.ok

(* Every call of http_send returns: it runs in the Ethernet interrupt.      *)
CallReturns == call.at # "idle" ~> call.at \in {"idle", "eof"}

=============================================================================
