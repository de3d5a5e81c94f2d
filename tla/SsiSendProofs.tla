---------------------------- MODULE SsiSendProofs ----------------------------
(****************************************************************************)
(* Proofs about the sending of a page: for every page, every set of inserts *)
(* and every size, the pointers stay inside the page and the indices inside *)
(* their buffers; a call that leaves nothing to wait for was refused        *)
(* memory; and a page, with tags or without, reaches the peer from its      *)
(* first byte to its last with each insert behind its tag.                  *)
(****************************************************************************)
EXTENDS SsiSend, SequenceTheorems, WellFoundedInduction, TLAPS

-----------------------------------------------------------------------------
(* The sizes and the pages. *)

LEMMA Sizes == MaxName \in Nat \ {0} /\ SndBuf \in Nat \ {0} /\ MaxSend \in Nat \ {0}
  BY SizesAssumption

LEMMA PageType ==
  ASSUME NEW p \in Pages
  PROVE  p.text \in Seq(Chars) /\ Len(p.text) \in Nat /\ p.header \in 0..Len(p.text)
<1>1. p.text \in Seq(Chars) /\ p.header \in 0..(Len(p.text) - 1)
  BY PagesAssumption
<1> QED BY <1>1, LenProperties

-----------------------------------------------------------------------------
(* Helpers. *)

(* The least of two or of three numbers is one of them, and no greater than *)
(* any: what cuts the length of a write (http_send_data_ssi).               *)
LEMMA MinOfTwo ==
  ASSUME NEW a \in Nat, NEW b \in Nat
  PROVE  Min({a, b}) \in Nat /\ Min({a, b}) <= a /\ Min({a, b}) <= b
<1>1. \E x \in {a, b} : \A y \in {a, b} : x =< y
  BY SMT
<1> QED BY <1>1 DEF Min

LEMMA MinOfThree ==
  ASSUME NEW a \in Nat, NEW b \in Nat, NEW c \in Nat
  PROVE  /\ Min({a, b, c}) \in Nat
         /\ Min({a, b, c}) <= a /\ Min({a, b, c}) <= b /\ Min({a, b, c}) <= c
<1>1. \E x \in {a, b, c} : \A y \in {a, b, c} : x =< y
  BY SMT
<1> QED BY <1>1 DEF Min

(* tcp_write takes no more than it was offered and has room for.            *)
LEMMA OutcomeBound ==
  ASSUME NEW len \in Nat, sndbuf \in Nat, NEW w \in Outcomes(len)
  PROVE  w.n \in 0..len /\ w.n <= sndbuf /\ w.ok \in BOOLEAN
<1>1. Tried(len) \subseteq 1..len
  BY DEF Tried
<1>2. CASE len = 0
  <2>1. w = [ok |-> TRUE, n |-> 0]
    BY <1>2, Zenon DEF Outcomes
  <2> QED BY <2>1
<1>3. CASE len # 0 /\ \E n \in Tried(len) : n <= sndbuf /\ w = [ok |-> TRUE, n |-> n]
  <2>1. PICK n \in Tried(len) : n <= sndbuf /\ w = [ok |-> TRUE, n |-> n]
    BY <1>3
  <2>2. n \in 0..len
    BY <1>1, <2>1
  <2> QED BY <2>1, <2>2
<1>4. CASE len # 0 /\ w = [ok |-> FALSE, n |-> 0]
  BY <1>4
<1>5. len # 0 => w \in {[ok |-> TRUE, n |-> n] : n \in {m \in Tried(len) : m <= sndbuf}}
                      \/ w = [ok |-> FALSE, n |-> 0]
  BY ZenonT(30) DEF Outcomes
<1> QED BY <1>2, <1>3, <1>4, <1>5

(* What is written is data, and leaves the send buffer within its size.     *)
LEMMA WrittenType ==
  ASSUME sent \in Seq(Chars), sndbuf \in 0..SndBuf,
         NEW data \in Seq(Chars), NEW w, w.n \in 0..Len(data), w.n <= sndbuf,
         Written(data, w)
  PROVE  sent' \in Seq(Chars) /\ sndbuf' \in 0..SndBuf
<1>1. \A i \in 1..w.n : data[i] \in Chars
  BY ElementOfSeq, LenProperties
<1>2. SubSeq(data, 1, w.n) \in Seq(Chars)
  BY <1>1, SubSeqProperties
<1>3. sent' = sent \o SubSeq(data, 1, w.n) /\ sndbuf' = sndbuf - w.n
  BY DEF Written
<1>4. sent' \in Seq(Chars)
  BY <1>2, <1>3, ConcatProperties
<1>5. sndbuf' \in 0..SndBuf
  BY <1>3, Sizes, LenProperties
<1> QED BY <1>4, <1>5

(* The rest of the page behind hs->file.                                    *)
LEMMA RestType ==
  ASSUME NEW t \in Seq(Chars), NEW n \in 0..Len(t)
  PROVE  /\ SubSeq(t, n + 1, Len(t)) \in Seq(Chars)
         /\ Len(SubSeq(t, n + 1, Len(t))) = Len(t) - n
<1>1. Len(t) \in Nat /\ \A i \in (n + 1)..Len(t) : t[i] \in Chars
  BY ElementOfSeq, LenProperties
<1>2. n + 1 \in Int /\ Len(t) \in Int
  BY <1>1
<1> QED BY <1>1, <1>2, SubSeqProperties

-----------------------------------------------------------------------------
(* The tag checker. *)

\* A checker state of its type, with parsed and parse_left in step.
Checker(s) ==
    /\ s \in SsiState /\ IndexOK(s)
    /\ s.parse_left = Len(Text) - s.parsed /\ s.end <= s.parsed

(* A turn of the loop in a state other than TAG_SENDING keeps the checker's *)
(* pointers and indices where they belong.                                  *)
LEMMA ConsumedType ==
  ASSUME Text \in Seq(Chars), NEW s, Checker(s), s.parse_left > 0
  PROVE  /\ Consumed(s) \in SsiState
         /\ Consumed(s).parse_left = Len(Text) - Consumed(s).parsed
         /\ Consumed(s).end = s.end /\ s.end <= Consumed(s).parsed
         /\ Consumed(s).parsed = s.parsed + 1 /\ Consumed(s).index = s.index
         /\ Consumed(s).name = s.name /\ Consumed(s).insert = s.insert
         /\ Consumed(s).state = s.state
<1>1. Len(Text) \in Nat
  BY LenProperties
<1>2. s.parsed \in Nat /\ s.parse_left \in Nat /\ s.parsed + 1 \in 0..Len(Text)
      /\ s.parse_left - 1 \in 0..Len(Text)
  BY <1>1 DEF Checker, SsiState
<1>3. Consumed(s) \in SsiState
  BY <1>2 DEF Checker, Consumed, SsiState
<1>4. /\ Consumed(s).parsed = s.parsed + 1 /\ Consumed(s).parse_left = s.parse_left - 1
      /\ Consumed(s).end = s.end /\ Consumed(s).index = s.index
      /\ Consumed(s).name = s.name /\ Consumed(s).insert = s.insert
      /\ Consumed(s).state = s.state
  BY DEF Checker, Consumed, SsiState
<1>5. s.end \in Nat /\ s.end <= s.parsed /\ s.parse_left = Len(Text) - s.parsed
  BY DEF Checker, SsiState
<1> QED BY <1>1, <1>2, <1>3, <1>4, <1>5

(* The fields a turn of the loop assigns keep the type of the checker.      *)
LEMMA Moved ==
  ASSUME NEW s \in SsiState
  PROVE  /\ \A state \in TagState : [s EXCEPT !.state = state] \in SsiState
         /\ \A index \in Nat : [s EXCEPT !.index = index] \in SsiState
  BY DEF SsiState

LEMMA StepType ==
  ASSUME Text \in Seq(Chars), NEW s, Checker(s), s.parse_left > 0,
         s.state # "SENDING", NEW c \in Chars,
         ~(s.state = "LEADOUT" /\ s.index = Len(LeadOut) - 1 /\ c = LeadOut[Len(LeadOut)])
  PROVE  Checker(Step(s, c))
<1> DEFINE n == Consumed(s)
<1>1. /\ n \in SsiState /\ n.parse_left = Len(Text) - n.parsed
      /\ n.end <= n.parsed /\ n.index = s.index /\ n.state = s.state
      /\ n.name = s.name
  BY ConsumedType
<1>2. s \in SsiState /\ s.index \in Nat /\ s.name \in Seq(Chars) /\ s.state \in TagState
  BY DEF Checker, SsiState
<1>3. /\ "NONE" \in TagState /\ "LEADIN" \in TagState
      /\ "FOUND" \in TagState /\ "LEADOUT" \in TagState
      /\ 0 \in Nat /\ 1 \in Nat /\ s.index + 1 \in Nat
  BY <1>2 DEF TagState
<1>4. Len(LeadIn) = 5 /\ Len(LeadOut) = 3
  BY DEF LeadIn, LeadOut
<1>5. Checker([n EXCEPT !.state = "NONE"])
  <2>1. [n EXCEPT !.state = "NONE"] \in SsiState
    BY <1>1, <1>3, Moved
  <2> QED BY <2>1, <1>1 DEF Checker, IndexOK, SsiState
<1> HIDE DEF n
<1>6. CASE s.state = "NONE"
  <2>1. CASE c = LeadIn[1]
    <3>1. Step(s, c) = [n EXCEPT !.state = "LEADIN", !.index = 1]
      BY <1>6, <2>1 DEF Step, ScanStep, n
    <3>2. Step(s, c) \in SsiState
      BY <3>1, <1>1, <1>3 DEF SsiState
    <3> QED BY <3>1, <3>2, <1>1, <1>4 DEF Checker, IndexOK, SsiState
  <2>2. CASE c # LeadIn[1]
    <3>1. Step(s, c) = n
      BY <1>6, <2>2 DEF Step, ScanStep, n
    <3> QED BY <3>1, <1>1, <1>6 DEF Checker, IndexOK
  <2> QED BY <2>1, <2>2
<1>7. CASE s.state = "LEADIN"
  <2>0. Step(s, c) = LeadInStep(s, c) /\ s.index \in 1..5
    BY <1>7, <1>4 DEF Step, Checker, IndexOK
  <2>1. CASE s.index = 5
    <3>1. Step(s, c) = [s EXCEPT !.state = "FOUND", !.index = 0]
      BY <2>0, <2>1, <1>4 DEF LeadInStep
    <3>2. Step(s, c) \in SsiState
      BY <3>1, <1>2, <1>3 DEF SsiState
    <3>3. Len(s.name) \in Nat
      BY <1>2, LenProperties
    <3> QED BY <3>1, <3>2, <3>3, <1>2, Sizes DEF Checker, IndexOK, SsiState
  <2>2. CASE s.index # 5 /\ c = LeadIn[s.index + 1]
    <3>1. Step(s, c) = [n EXCEPT !.index = s.index + 1]
      BY <2>0, <2>2, <1>1, <1>4 DEF LeadInStep, n, SsiState
    <3>2. Step(s, c) \in SsiState
      BY <3>1, <1>1, <1>2, <1>3, Moved
    <3>3. /\ Step(s, c).index = s.index + 1 /\ Step(s, c).state = "LEADIN"
          /\ Step(s, c).parse_left = n.parse_left /\ Step(s, c).parsed = n.parsed
          /\ Step(s, c).end = n.end
      BY <3>1, <1>1, <1>7 DEF SsiState
    <3>4. s.index + 1 \in 1..5
      BY <2>0, <2>2
    <3> QED BY <3>2, <3>3, <3>4, <1>1, <1>4 DEF Checker, IndexOK
  <2>3. CASE s.index # 5 /\ c # LeadIn[s.index + 1]
    <3>1. Step(s, c) = [n EXCEPT !.state = "NONE"]
      BY <2>0, <2>3, <1>4 DEF LeadInStep, n
    <3> QED BY <3>1, <1>5
  <2> QED BY <2>1, <2>2, <2>3
<1>8. CASE s.state = "FOUND"
  <2>0. Step(s, c) = NameStep(s, c) /\ s.index \in 0..MaxName /\ s.index <= Len(s.name)
    BY <1>8 DEF Step, Checker, IndexOK
  <2>1. CASE s.index = 0 /\ c \in Blank
    <3>1. Step(s, c) = n
      BY <2>0, <2>1 DEF NameStep, EndsName, Blank, LeadOut, n
    <3> QED BY <3>1, <2>0, <1>1, <1>8 DEF Checker, IndexOK
  <2>2. CASE s.index > 0 /\ EndsName(c)
    <3> DEFINE i == IF c = LeadOut[1] THEN 1 ELSE 0
    <3>1. Step(s, c) = [n EXCEPT !.state = "LEADOUT", !.index = i]
      BY <2>0, <2>2 DEF NameStep, n
    <3>2. i \in 0..1 /\ i \in Nat
      OBVIOUS
    <3> HIDE DEF i
    <3>3. Step(s, c) \in SsiState
      BY <3>1, <3>2, <1>1, <1>3 DEF SsiState
    <3> QED BY <3>1, <3>2, <3>3, <1>1, <1>4 DEF Checker, IndexOK, SsiState
  <2>3. CASE ~EndsName(c) /\ s.index < MaxName
    <3> DEFINE name == Append(SubSeq(s.name, 1, s.index), c)
    <3>1. /\ SubSeq(s.name, 1, s.index) \in Seq(Chars)
          /\ Len(SubSeq(s.name, 1, s.index)) = s.index
      <4>1. \A i \in 1..s.index : s.name[i] \in Chars
        BY <2>0, <1>2, ElementOfSeq, LenProperties
      <4> QED BY <4>1, <1>2, SubSeqProperties
    <3>2. name \in Seq(Chars) /\ Len(name) = s.index + 1
      BY <3>1, AppendProperties
    <3>3. Step(s, c) = [n EXCEPT !.index = s.index + 1, !.name = name]
      BY <2>0, <2>3, <1>1 DEF NameStep, EndsName, n, SsiState
    <3> HIDE DEF name
    <3>4. Step(s, c) \in SsiState
      BY <3>2, <3>3, <1>1, <1>2, <1>3 DEF SsiState
    <3>5. /\ Step(s, c).index = s.index + 1 /\ Step(s, c).state = "FOUND"
          /\ Step(s, c).parse_left = n.parse_left /\ Step(s, c).parsed = n.parsed
          /\ Step(s, c).end = n.end /\ Step(s, c).name = name
      BY <3>3, <1>1, <1>8 DEF SsiState
    <3>6. s.index + 1 \in 0..MaxName /\ s.index + 1 <= Len(name)
      BY <3>2, <2>0, <2>3, Sizes
    <3> QED BY <3>4, <3>5, <3>6, <1>1 DEF Checker, IndexOK
  <2>4. CASE \/ s.index = 0 /\ c = LeadOut[1]
             \/ ~EndsName(c) /\ s.index >= MaxName
    <3>1. Step(s, c) = [n EXCEPT !.state = "NONE"]
      BY <2>0, <2>4, Sizes DEF NameStep, EndsName, Blank, LeadOut, n
    <3> QED BY <3>1, <1>5
  <2>5. EndsName(c) => c \in Blank \/ c = LeadOut[1]
    BY DEF EndsName
  <2> QED BY <2>0, <2>1, <2>2, <2>3, <2>4, <2>5, Sizes
<1>9. CASE s.state = "LEADOUT"
  <2>0. Step(s, c) = LeadOutStep(s, c) /\ s.index \in 0..2
    BY <1>9, <1>4 DEF Step, Checker, IndexOK
  <2>1. CASE s.index = 0 /\ c \in Blank
    <3>1. Step(s, c) = n
      BY <2>0, <2>1 DEF LeadOutStep, n, Blank, LeadOut
    <3> QED BY <3>1, <2>0, <1>1, <1>4, <1>9 DEF Checker, IndexOK
  <2>2. CASE ~(s.index = 0 /\ c \in Blank) /\ c = LeadOut[s.index + 1]
    <3>1. Step(s, c) = [n EXCEPT !.index = s.index + 1]
      BY <2>0, <2>2, <1>1 DEF LeadOutStep, n, SsiState
    <3>2. s.index # 2
      BY <2>2, <1>4, <1>9
    <3>3. Step(s, c) \in SsiState
      BY <3>1, <1>1, <1>2, <1>3, Moved
    <3>4. /\ Step(s, c).index = s.index + 1 /\ Step(s, c).state = "LEADOUT"
          /\ Step(s, c).parse_left = n.parse_left /\ Step(s, c).parsed = n.parsed
          /\ Step(s, c).end = n.end
      BY <3>1, <1>1, <1>9 DEF SsiState
    <3>5. s.index + 1 \in 0..2
      BY <2>0, <3>2
    <3> QED BY <3>3, <3>4, <3>5, <1>1, <1>4 DEF Checker, IndexOK
  <2>3. CASE ~(s.index = 0 /\ c \in Blank) /\ c # LeadOut[s.index + 1]
    <3>1. Step(s, c) = [n EXCEPT !.state = "NONE"]
      BY <2>0, <2>3 DEF LeadOutStep, n
    <3> QED BY <3>1, <1>5
  <2> QED BY <2>1, <2>2, <2>3
<1> QED BY <1>2, <1>6, <1>7, <1>8, <1>9 DEF TagState

-----------------------------------------------------------------------------
(* The invariant. *)

(* The invariant, read off the new values while the page stays.             *)
LEMMA NewState ==
  ASSUME SendIInv, page' = page,
         hs' \in HttpState, hs'.left = Len(Text) - hs'.file,
         Checker(ssi'),
         call' \in [at : At, len : 0..SndBuf, ok : BOOLEAN],
         call'.at \in {"resume", "loop", "final"} => hs'.ssi,
         sndbuf' \in 0..SndBuf, sent' \in Seq(Chars)
  PROVE  SendIInv'
<1>1. Text' = Text
  BY DEF Text
<1>2. hs' \in HttpState' /\ page' \in Pages
  BY <1>1 DEF HttpState, SendIInv, TypeOK
<1>3. ssi' \in SsiState' /\ IndexOK(ssi')
  BY <1>1 DEF Checker, SsiState
<1>4. TypeOK'
  BY <1>2, <1>3 DEF TypeOK, IndexOK
<1>5. Balanced'
  BY <1>1 DEF Balanced, Checker
<1> QED BY <1>4, <1>5 DEF SendIInv

(* What the invariant says of the page, of what is left, and of a call.     *)
LEMMA Facts ==
  ASSUME SendIInv
  PROVE  /\ page \in Pages /\ Text \in Seq(Chars) /\ Len(Text) \in Nat
         /\ hs \in HttpState /\ hs.left = Len(Text) - hs.file
         /\ hs.file \in 0..Len(Text) /\ hs.left \in 0..Len(Text)
         /\ Checker(ssi) /\ ssi \in SsiState
         /\ ssi.parsed \in 0..Len(Text) /\ ssi.end \in 0..Len(Text)
         /\ ssi.end <= ssi.parsed /\ ssi.parse_left = Len(Text) - ssi.parsed
         /\ call \in [at : At, len : 0..SndBuf, ok : BOOLEAN] /\ call.len \in Nat
         /\ call.at \in {"resume", "loop", "final"} => hs.ssi
         /\ sndbuf \in 0..SndBuf /\ sndbuf \in Nat /\ sent \in Seq(Chars)
<1>1. page \in Pages /\ Text \in Seq(Chars) /\ Len(Text) \in Nat
  BY PageType DEF SendIInv, TypeOK, Text
<1>2. hs \in HttpState /\ hs.left = Len(Text) - hs.file
  BY DEF SendIInv, TypeOK, Balanced
<1>3. hs.file \in 0..Len(Text) /\ hs.left \in 0..Len(Text)
  BY <1>2 DEF HttpState
<1>4. Checker(ssi) /\ ssi \in SsiState
  BY DEF SendIInv, TypeOK, Balanced, Checker
<1>5. /\ ssi.parsed \in 0..Len(Text) /\ ssi.end \in 0..Len(Text)
      /\ ssi.end <= ssi.parsed /\ ssi.parse_left = Len(Text) - ssi.parsed
  BY <1>4 DEF Checker, SsiState
<1>6. /\ call \in [at : At, len : 0..SndBuf, ok : BOOLEAN]
      /\ call.at \in {"resume", "loop", "final"} => hs.ssi
      /\ sndbuf \in 0..SndBuf /\ sent \in Seq(Chars)
  BY DEF SendIInv, TypeOK, Balanced
<1>7. call.len \in Nat /\ sndbuf \in Nat
  BY <1>6, Sizes
<1> QED BY <1>1, <1>2, <1>3, <1>4, <1>5, <1>6, <1>7

(* A write from the page: any that takes no more than is left of it.        *)
LEMMA FileWrittenGood ==
  ASSUME SendIInv, NEW len \in Nat, len <= hs.left, NEW w \in Outcomes(len),
         FileWritten(w), NEW at \in At, Goes(at, w), hs.ssi \/ at = "check",
         page' = page, Checker(ssi')
  PROVE  SendIInv'
<1>1. w.n \in 0..len /\ w.n <= sndbuf /\ w.ok \in BOOLEAN
  BY Facts, OutcomeBound
<1>2. w.n \in 0..hs.left
  BY <1>1, Facts
<1> DEFINE rest == SubSeq(Text, hs.file + 1, Len(Text))
<1>3. rest \in Seq(Chars) /\ Len(rest) = hs.left
  BY Facts, RestType
<1>4. Written(rest, w) /\ hs' = [hs EXCEPT !.file = hs.file + w.n, !.left = hs.left - w.n]
  BY Facts DEF FileWritten, HttpState
<1> HIDE DEF rest
<1>5. sent' \in Seq(Chars) /\ sndbuf' \in 0..SndBuf
  BY <1>1, <1>2, <1>3, <1>4, WrittenType, Facts
<1>6. hs.file + w.n \in 0..Len(Text) /\ hs.left - w.n \in 0..Len(Text)
  <2>1. /\ hs.left = Len(Text) - hs.file /\ hs.file \in 0..Len(Text)
        /\ Len(Text) \in Nat
    BY Facts
  <2> QED BY <1>2, <2>1
<1>7. hs' \in HttpState /\ hs'.left = Len(Text) - hs'.file /\ hs'.ssi = hs.ssi
  <2>1. hs \in HttpState /\ hs.left = Len(Text) - hs.file
    BY Facts
  <2>2. hs' \in HttpState
    BY <1>4, <1>6, <2>1 DEF HttpState
  <2>3. hs'.file = hs.file + w.n /\ hs'.left = hs.left - w.n /\ hs'.ssi = hs.ssi
    BY <1>4, <2>1 DEF HttpState
  <2>4. w.n \in Nat /\ hs.file \in Nat /\ Len(Text) \in Nat
    BY <1>2, Facts
  <2> QED BY <2>1, <2>2, <2>3, <2>4
<1>8. w.n \in 0..SndBuf
  BY <1>1, Sizes, Facts
<1>9. /\ call' \in [at : At, len : 0..SndBuf, ok : BOOLEAN]
      /\ call'.at \in {"resume", "loop", "final"} => hs'.ssi
  BY <1>1, <1>7, <1>8 DEF Goes
<1> QED BY <1>5, <1>7, <1>9, NewState

(* A step that only goes on in the code.                                    *)
LEMMA MovesOn ==
  ASSUME SendIInv, NEW at \in At, hs.ssi \/ at \in {"check", "idle", "eof"},
         call' = [call EXCEPT !.at = at],
         UNCHANGED <<page, hs, ssi, sndbuf, sent>>
  PROVE  SendIInv'
<1>1. call' \in [at : At, len : 0..SndBuf, ok : BOOLEAN] /\ call'.at = at
  BY Facts
<1>2. Checker(ssi')
  BY Facts DEF Checker, IndexOK
<1> QED BY <1>1, <1>2, Facts, NewState

(* The cut of a length leaves no more than there is of the page.            *)
LEMMA RoomBound ==
  ASSUME SendIInv, Parsed
  PROVE  Room \in Nat /\ Room <= hs.left
<1>1. /\ sndbuf \in Nat /\ ssi.parsed - hs.file \in Nat /\ MaxSend \in Nat
      /\ ssi.parsed - hs.file <= hs.left
  BY Facts, Sizes DEF Parsed
<1> DEFINE k == ssi.parsed - hs.file
<1> HIDE DEF k
<1>2. Min({sndbuf, k, MaxSend}) \in Nat /\ Min({sndbuf, k, MaxSend}) <= k
  BY <1>1, MinOfThree DEF k
<1>3. Room = Min({sndbuf, k, MaxSend}) /\ k \in Nat /\ k <= hs.left /\ hs.left \in Nat
  BY <1>1, Facts DEF Room, k
<1> QED BY <1>2, <1>3

LEMMA UpBound ==
  ASSUME SendIInv, NEW n \in 0..Len(Text), n > hs.file
  PROVE  Up(n) \in Nat /\ Up(n) <= hs.left
<1>1. call.len \in Nat /\ n - hs.file \in Nat /\ n - hs.file <= hs.left
  BY Facts
<1> DEFINE k == n - hs.file
<1> HIDE DEF k
<1>2. Min({call.len, k}) \in Nat /\ Min({call.len, k}) <= k
  BY <1>1, MinOfTwo DEF k
<1>3. Up(n) = Min({call.len, k}) /\ k \in Nat /\ k <= hs.left /\ hs.left \in Nat
  BY <1>1, Facts DEF Up, k
<1> QED BY <1>2, <1>3

(* The states the loop may be in.                                           *)
LEMMA LoopFacts ==
  ASSUME SendIInv, Looping
  PROVE  /\ hs.ssi /\ ssi.parse_left > 0 /\ ssi.parsed + 1 \in 1..Len(Text)
         /\ Here \in Chars
<1>1. hs.ssi /\ ssi.parse_left > 0 /\ ssi.parsed + 1 \in 1..Len(Text)
  BY Facts DEF Looping
<1>2. Here \in Chars
  BY <1>1, Facts, ElementOfSeq DEF Here
<1> QED BY <1>1, <1>2

(* One lemma for each action.                                              *)
LEMMA ResumeGood == ASSUME SendIInv, Resume PROVE SendIInv'
<1>1. hs.ssi /\ page' = page /\ ssi' = ssi /\ Checker(ssi)
  BY Facts DEF Resume
<1>2. CASE Parsed
  <2>1. PICK w \in Outcomes(Room) :
          FileWritten(w) /\ Goes(IF sndbuf' = 0 THEN "check" ELSE "loop", w)
    BY <1>2 DEF Resume
  <2> DEFINE at == IF sndbuf' = 0 THEN "check" ELSE "loop"
  <2>2. at \in At
    BY DEF At
  <2>3. Goes(at, w)
    BY <2>1
  <2> HIDE DEF at
  <2> QED BY <2>1, <2>2, <2>3, <1>1, <1>2, RoomBound, FileWrittenGood
<1>3. CASE ~Parsed
  <2>1. call' = [call EXCEPT !.at = "loop"] /\ UNCHANGED <<page, hs, ssi, sndbuf, sent>>
    BY <1>3 DEF Resume
  <2>2. "loop" \in At
    BY DEF At
  <2> QED BY <2>1, <2>2, <1>1, MovesOn
<1> QED BY <1>2, <1>3

LEMMA ParseGood == ASSUME SendIInv, Parse PROVE SendIInv'
<1>1. ssi' = Step(ssi, Here) /\ UNCHANGED <<page, hs, call, sndbuf, sent>>
  BY DEF Parse
<1>2. /\ ssi.parse_left > 0 /\ Here \in Chars /\ ssi.state # "SENDING" /\ Checker(ssi)
      /\ Text \in Seq(Chars)
  BY LoopFacts, Facts DEF Parse
<1>3. ~(ssi.state = "LEADOUT" /\ ssi.index = Len(LeadOut) - 1 /\ Here = LeadOut[Len(LeadOut)])
  BY DEF Parse, Closes, EndsTag
<1>4. Checker(ssi')
  BY <1>1, <1>2, <1>3, StepType
<1> QED BY <1>1, <1>4, Facts, NewState

(* The insert of a tag is data, whether the tag is known or not.            *)
LEMMA InsertType ==
  ASSUME NEW name \in Seq(Chars)
  PROVE  TagInsert(name) \in Seq(Chars)
<1>1. CASE name \in DOMAIN Inserts
  BY <1>1, InsertsAssumption DEF TagInsert
<1>2. CASE name \notin DOMAIN Inserts
  <2>1. <<"*">> \in Seq(Chars)
    BY InsertsAssumption
  <2>2. <<"*">> \o name \in Seq(Chars)
    BY <2>1, ConcatProperties
  <2>3. (<<"*">> \o name) \o <<"*">> \in Seq(Chars)
    BY <2>1, <2>2, ConcatProperties
  <2> QED BY <1>2, <2>3 DEF TagInsert
<1> QED BY <1>1, <1>2

LEMMA TagFoundGood == ASSUME SendIInv, TagFound PROVE SendIInv'
<1> DEFINE n == Consumed(ssi)
           i == TagInsert(ssi.name)
<1>1. /\ ssi' = [n EXCEPT !.state = "SENDING", !.index = 0,
                          !.end = ssi.parsed + 1, !.insert = i]
      /\ page' = page
  BY DEF TagFound, Fetched
<1>2. /\ n \in SsiState /\ n.parse_left = Len(Text) - n.parsed /\ n.parsed = ssi.parsed + 1
      /\ ssi.parsed + 1 \in 0..Len(Text) /\ hs.ssi /\ Checker(ssi)
  BY LoopFacts, Facts, ConsumedType DEF TagFound
<1>3. i \in Seq(Chars)
  BY InsertType DEF SendIInv, TypeOK, SsiState
<1>4. Len(i) \in Nat
  BY <1>3, LenProperties
<1> HIDE DEF n, i
<1>5. /\ ssi' \in SsiState /\ ssi'.end = ssi.parsed + 1 /\ ssi'.parsed = n.parsed
      /\ ssi'.parse_left = n.parse_left /\ ssi'.state = "SENDING" /\ ssi'.index = 0
      /\ ssi'.insert = i
  BY <1>1, <1>2, <1>3 DEF SsiState, TagState
<1>6. Checker(ssi')
  BY <1>2, <1>4, <1>5 DEF Checker, IndexOK
<1>7. CASE ssi'.end > hs.file
  <2>1. PICK w \in Outcomes(Up(ssi'.end)) : FileWritten(w) /\ Goes("loop", w)
    BY <1>7 DEF TagFound
  <2>2. ssi'.end \in 0..Len(Text)
    BY <1>2, <1>5
  <2>3. Up(ssi'.end) \in Nat /\ Up(ssi'.end) <= hs.left
    BY <1>7, <2>2, UpBound
  <2>4. "loop" \in At
    BY DEF At
  <2> QED BY <1>1, <1>2, <1>6, <2>1, <2>3, <2>4, FileWrittenGood
<1>8. CASE ~(ssi'.end > hs.file)
  <2>1. UNCHANGED <<hs, call, sndbuf, sent>>
    BY <1>8 DEF TagFound
  <2> QED BY <2>1, <1>1, <1>6, Facts, NewState
<1> QED BY <1>7, <1>8

LEMMA SendBeforeGood == ASSUME SendIInv, SendBefore PROVE SendIInv'
<1>1. PICK w \in Outcomes(Up(ssi.end)) : FileWritten(w) /\ Goes("loop", w)
  BY DEF SendBefore
<1>2. ssi' = ssi /\ page' = page /\ hs.ssi /\ ssi.end > hs.file
  BY LoopFacts DEF SendBefore
<1>3. Up(ssi.end) \in Nat /\ Up(ssi.end) <= hs.left
  BY <1>2, Facts, UpBound
<1>4. "loop" \in At /\ Checker(ssi')
  BY <1>2, Facts DEF At
<1> QED BY <1>1, <1>2, <1>3, <1>4, FileWrittenGood

LEMMA SendInsertGood == ASSUME SendIInv, SendInsert PROVE SendIInv'
<1> DEFINE len == Min({call.len, Len(ssi.insert) - ssi.index})
           rest == SubSeq(ssi.insert, ssi.index + 1, Len(ssi.insert))
<1>1. PICK w \in Outcomes(len) :
        Written(rest, w) /\ Goes("loop", w) /\ ssi' = [ssi EXCEPT !.index = @ + w.n]
  BY DEF SendInsert
<1>2. /\ page' = page /\ hs' = hs /\ hs.ssi
      /\ ssi.state = "SENDING" /\ ssi.index < Len(ssi.insert)
  BY LoopFacts DEF SendInsert
<1>3. ssi.insert \in Seq(Chars) /\ ssi.index \in Nat /\ ssi.index \in 0..Len(ssi.insert)
  BY <1>2, Facts DEF Checker, IndexOK, SsiState
<1>4. Len(ssi.insert) \in Nat
  BY <1>3, LenProperties
<1>5. len \in Nat /\ len <= Len(ssi.insert) - ssi.index
  <2>1. call.len \in Nat /\ Len(ssi.insert) - ssi.index \in Nat
    BY <1>2, <1>3, <1>4, Facts
  <2> HIDE DEF len
  <2>2. ASSUME NEW k \in Nat, k = Len(ssi.insert) - ssi.index, len = Min({call.len, k})
        PROVE  len \in Nat /\ len <= k
    BY <2>1, <2>2, MinOfTwo
  <2> QED BY <2>1, <2>2 DEF len
<1>6. rest \in Seq(Chars) /\ Len(rest) = Len(ssi.insert) - ssi.index
  BY <1>3, RestType
<1> HIDE DEF len, rest
<1>7. w.n \in 0..len /\ w.n <= sndbuf /\ w.ok \in BOOLEAN
  BY <1>5, Facts, OutcomeBound
<1>8. w.n \in 0..Len(rest)
  BY <1>4, <1>3, <1>5, <1>6, <1>7
<1>9. sent' \in Seq(Chars) /\ sndbuf' \in 0..SndBuf
  BY <1>1, <1>6, <1>7, <1>8, WrittenType, Facts
<1>10. w.n \in 0..SndBuf /\ ssi.index + w.n \in 0..Len(ssi.insert)
  <2>1. w.n \in Nat /\ w.n <= len /\ w.n <= sndbuf /\ sndbuf \in 0..SndBuf
    BY <1>5, <1>7, Facts
  <2>2. w.n \in 0..SndBuf
    BY <2>1, Sizes
  <2>3. ssi.index + w.n \in 0..Len(ssi.insert)
    BY <2>1, <1>3, <1>4, <1>5
  <2> QED BY <2>2, <2>3
<1>11. Checker(ssi')
  <2>1. ssi' = [ssi EXCEPT !.index = ssi.index + w.n] /\ ssi \in SsiState
    BY <1>1, Facts DEF SsiState
  <2>2. /\ ssi' \in SsiState /\ ssi'.state = "SENDING" /\ ssi'.index = ssi.index + w.n
        /\ ssi'.insert = ssi.insert /\ ssi'.parsed = ssi.parsed
        /\ ssi'.parse_left = ssi.parse_left /\ ssi'.end = ssi.end
    <3>1. ssi.index + w.n \in Nat
      BY <1>10, <1>4
    <3> QED BY <2>1, <1>2, <3>1 DEF SsiState
  <2> QED BY <2>2, <1>10, Facts DEF Checker, IndexOK
<1>12. call' \in [at : At, len : 0..SndBuf, ok : BOOLEAN]
  BY <1>1, <1>7, <1>10 DEF Goes, At
<1> QED BY <1>2, <1>9, <1>11, <1>12, Facts, NewState

LEMMA InsertSentGood == ASSUME SendIInv, InsertSent PROVE SendIInv'
<1>1. /\ ssi' = [ssi EXCEPT !.state = "NONE", !.index = 0]
      /\ UNCHANGED <<page, hs, call, sndbuf, sent>>
  BY DEF InsertSent, GoesOn
<1>2. /\ ssi' \in SsiState /\ ssi'.state = "NONE" /\ ssi'.parsed = ssi.parsed
      /\ ssi'.parse_left = ssi.parse_left /\ ssi'.end = ssi.end
  BY <1>1, Facts DEF SsiState, TagState
<1>3. Checker(ssi')
  BY <1>2, Facts DEF Checker, IndexOK
<1> QED BY <1>1, <1>3, Facts, NewState

LEMMA FinalGood == ASSUME SendIInv, Final PROVE SendIInv'
<1>1. hs.ssi /\ page' = page /\ ssi' = ssi /\ Checker(ssi) /\ "check" \in At
  BY Facts DEF Final, At
<1>2. CASE ssi.state # "SENDING" /\ Parsed
  <2>1. PICK w \in Outcomes(Room) : FileWritten(w) /\ Goes("check", w)
    BY <1>2 DEF Final
  <2> QED BY <2>1, <1>1, <1>2, RoomBound, FileWrittenGood
<1>3. CASE ~(ssi.state # "SENDING" /\ Parsed)
  <2>1. call' = [call EXCEPT !.at = "check"] /\ UNCHANGED <<page, hs, ssi, sndbuf, sent>>
    BY <1>3 DEF Final
  <2> QED BY <2>1, <1>1, MovesOn
<1> QED BY <1>2, <1>3

LEMMA PlainGood == ASSUME SendIInv, Plain PROVE SendIInv'
<1> DEFINE len == Min({sndbuf, hs.left, MaxSend})
<1>1. PICK w \in Outcomes(len) : FileWritten(w) /\ Goes("check", w)
  BY DEF Plain
<1>2. page' = page /\ ssi' = ssi /\ Checker(ssi) /\ "check" \in At
  BY Facts DEF Plain, At
<1>3. len \in Nat /\ len <= hs.left
  <2>1. sndbuf \in Nat /\ hs.left \in Nat /\ MaxSend \in Nat
    BY Facts, Sizes
  <2> QED BY <2>1, MinOfThree
<1> HIDE DEF len
<1> QED BY <1>1, <1>2, <1>3, FileWrittenGood

LEMMA SendGood ==
  ASSUME SendIInv, NEW n \in 0..(SndBuf - sndbuf), Send(n)
  PROVE  SendIInv'
<1> DEFINE at == IF hs.ssi THEN "resume" ELSE "plain"
<1>1. /\ sndbuf' = sndbuf + n /\ UNCHANGED <<page, hs, ssi, sent>>
      /\ call' = [at |-> at, len |-> sndbuf', ok |-> TRUE]
  BY DEF Send
<1>2. sndbuf' \in 0..SndBuf
  <2>1. sndbuf \in Nat /\ SndBuf \in Nat
    BY Facts, Sizes
  <2> QED BY <1>1, <2>1
<1>3. call' \in [at : At, len : 0..SndBuf, ok : BOOLEAN]
  BY <1>1, <1>2 DEF At
<1>4. call'.at \in {"resume", "loop", "final"} => hs'.ssi
  BY <1>1
<1>5. Checker(ssi')
  BY <1>1, Facts
<1> QED BY <1>1, <1>2, <1>3, <1>4, <1>5, Facts, NewState

LEMMA InitGood == ASSUME Init PROVE SendIInv
<1>1. PICK skip \in {0, page.header}, tags \in BOOLEAN :
        /\ hs = [file |-> skip, left |-> Len(Text) - skip, ssi |-> tags, skipped |-> skip]
        /\ call = [at |-> IF tags THEN "resume" ELSE "plain", len |-> SndBuf, ok |-> TRUE]
  BY DEF Init
<1>2. /\ page \in Pages /\ sndbuf = SndBuf /\ sent = <<>>
      /\ ssi = [state |-> "NONE", parsed |-> 0, parse_left |-> Len(Text),
                index |-> 0, end |-> 0, name |-> <<>>, insert |-> <<>>]
  BY DEF Init, Opened
<1>3. Text \in Seq(Chars) /\ Len(Text) \in Nat /\ page.header \in 0..Len(Text)
  BY <1>2, PageType DEF Text
<1>4. skip \in 0..Len(Text) /\ Len(Text) - skip \in 0..Len(Text)
  BY <1>3
<1>5. hs \in HttpState /\ hs.left = Len(Text) - hs.file /\ hs.ssi = tags
  BY <1>1, <1>4 DEF HttpState
<1>6. ssi \in SsiState /\ IndexOK(ssi)
  BY <1>2, <1>3, EmptySeq DEF SsiState, IndexOK, TagState
<1>7. ssi.parse_left = Len(Text) - ssi.parsed /\ ssi.end <= ssi.parsed
  BY <1>2, <1>3
<1>8. call \in [at : At, len : 0..SndBuf, ok : BOOLEAN]
  BY <1>1, Sizes DEF At
<1>9. sndbuf \in 0..SndBuf /\ sent \in Seq(Chars)
  BY <1>2, Sizes, EmptySeq
<1>10. call.at \in {"resume", "loop", "final"} => hs.ssi
  BY <1>1, <1>5
<1> QED BY <1>2, <1>5, <1>6, <1>7, <1>8, <1>9, <1>10 DEF SendIInv, TypeOK, Balanced

LEMMA SendInductive == ASSUME SendIInv, [Next]_vars PROVE SendIInv'
<1>1. CASE Resume       BY <1>1, ResumeGood
<1>2. CASE LeaveLoop
  <2>1. "final" \in At /\ hs.ssi
    BY <1>2, Facts DEF LeaveLoop, At
  <2> QED BY <2>1, <1>2, MovesOn DEF LeaveLoop
<1>3. CASE NoRoom
  <2>1. "check" \in At
    BY DEF At
  <2> QED BY <2>1, <1>3, MovesOn DEF NoRoom
<1>4. CASE Parse        BY <1>4, ParseGood
<1>5. CASE TagFound     BY <1>5, TagFoundGood
<1>6. CASE SendBefore   BY <1>6, SendBeforeGood
<1>7. CASE SendInsert   BY <1>7, SendInsertGood
<1>8. CASE InsertSent   BY <1>8, InsertSentGood
<1>9. CASE Final        BY <1>9, FinalGood
<1>10. CASE Plain       BY <1>10, PlainGood
<1>11. CASE Check
  <2> DEFINE at == IF hs.left = 0 THEN "eof" ELSE "idle"
  <2>1. at \in At /\ at \in {"check", "idle", "eof"}
    BY DEF At
  <2>2. call' = [call EXCEPT !.at = at] /\ UNCHANGED <<page, hs, ssi, sndbuf, sent>>
    BY <1>11 DEF Check
  <2> HIDE DEF at
  <2> QED BY <2>1, <2>2, MovesOn
<1>12. CASE Called
  BY <1>12, SendGood DEF Called
<1>13. CASE UNCHANGED vars
  BY <1>13 DEF vars, SendIInv, TypeOK, Balanced, IndexOK, HttpState, SsiState, Text
<1> QED
  BY <1>1, <1>2, <1>3, <1>4, <1>5, <1>6, <1>7, <1>8, <1>9, <1>10, <1>11, <1>12, <1>13
     DEF Next, Running

(* For every page, all inserts and all sizes: no pointer of http_state or   *)
(* http_ssi_state leaves the page, and no index of the tag checker leaves   *)
(* the buffer it counts in, whatever tcp_write takes.                       *)
THEOREM PointersStayInside == Spec => []TypeOK
<1>1. Init => SendIInv
  BY InitGood
<1>2. SendIInv /\ [Next]_vars => SendIInv'
  BY SendInductive
<1>3. SendIInv => TypeOK
  BY DEF SendIInv
<1> QED BY <1>1, <1>2, <1>3, PTL DEF Spec

-----------------------------------------------------------------------------
(* A page that is sent as it is. *)

\* What has been sent of a page without an http_ssi_state is what lies between
\* the place it was begun at and hs->file; nothing is left when it is closed.
PlainSent ==
    /\ ~hs.ssi => hs.skipped <= hs.file /\ sent = SubSeq(Text, hs.skipped + 1, hs.file)
    /\ call.at = "eof" => hs.left = 0
PlainIInv == SendIInv /\ PlainSent

LEMMA SkippedType ==
  ASSUME SendIInv
  PROVE  hs.skipped \in 0..Len(Text)
<1>1. hs.skipped \in {0, page.header} /\ page.header \in 0..Len(Text)
  BY Facts, PageType DEF HttpState, Text
<1> QED BY <1>1

(* What a write adds continues what was sent.                               *)
LEMMA Continued ==
  ASSUME NEW t \in Seq(Chars), NEW k \in 0..Len(t), NEW f \in k..Len(t),
         NEW n \in 0..(Len(t) - f)
  PROVE  SubSeq(t, k + 1, f) \o SubSeq(SubSeq(t, f + 1, Len(t)), 1, n)
           = SubSeq(t, k + 1, f + n)
<1>1. Len(t) \in Nat
  BY LenProperties
<1>2. CASE n = 0
  <2>1. SubSeq(SubSeq(t, f + 1, Len(t)), 1, n) = <<>>
    BY <1>2, SubSeqEmpty
  <2>2. SubSeq(t, k + 1, f) \in Seq(Chars)
    <3>1. \A i \in (k + 1)..f : t[i] \in Chars
      BY <1>1, ElementOfSeq
    <3>2. k + 1 \in Int /\ f \in Int
      BY <1>1
    <3> QED BY <3>1, <3>2, SubSeqProperties
  <2>3. f + n = f
    BY <1>1, <1>2
  <2> QED BY <2>1, <2>2, <2>3, ConcatEmptySeq
<1>3. CASE n > 0
  <2>1. SubSeq(SubSeq(t, f + 1, Len(t)), 1, n) = SubSeq(t, f + 1, f + n)
    <3>1. /\ f + 1 \in 1..Len(t) /\ Len(t) \in 1..Len(t)
          /\ 1 \in 1..(Len(t) - (f + 1) + 1) /\ n \in 1..(Len(t) - (f + 1) + 1)
      BY <1>1, <1>3
    <3>2. SubSeq(SubSeq(t, f + 1, Len(t)), 1, n) = SubSeq(t, (f + 1) + 1 - 1, (f + 1) + n - 1)
      BY <3>1, SubSeqOfSubSeq
    <3>3. (f + 1) + 1 - 1 = f + 1 /\ (f + 1) + n - 1 = f + n
      BY <1>1
    <3> QED BY <3>2, <3>3
  <2>2. /\ k + 1 \in 1..(Len(t) + 1) /\ f \in ((k + 1) - 1)..Len(t)
        /\ f + n \in f..Len(t)
    BY <1>1, <1>3
  <2>3. SubSeq(t, k + 1, f) \o SubSeq(t, f + 1, f + n) = SubSeq(t, k + 1, f + n)
    BY <2>2, ConcatAdjacentSubSeq
  <2> QED BY <2>1, <2>3
<1> QED BY <1>1, <1>2, <1>3

LEMMA PlainContinues ==
  ASSUME PlainIInv, ~hs.ssi, Plain
  PROVE  PlainSent'
<1> DEFINE len == Min({sndbuf, hs.left, MaxSend})
<1>1. PICK w \in Outcomes(len) : FileWritten(w) /\ Goes("check", w)
  BY DEF Plain
<1>2. SendIInv /\ hs.skipped <= hs.file /\ sent = SubSeq(Text, hs.skipped + 1, hs.file)
  BY DEF PlainIInv, PlainSent
<1>3. len \in Nat /\ len <= hs.left
  <2>1. sndbuf \in Nat /\ hs.left \in Nat /\ MaxSend \in Nat
    BY <1>2, Facts, Sizes
  <2> QED BY <2>1, MinOfThree
<1> HIDE DEF len
<1>4. w.n \in 0..(Len(Text) - hs.file)
  <2>1. w.n \in 0..len
    BY <1>2, <1>3, Facts, OutcomeBound
  <2> QED BY <2>1, <1>2, <1>3, Facts
<1>5. hs.skipped \in 0..Len(Text) /\ hs.file \in hs.skipped..Len(Text) /\ Text \in Seq(Chars)
  BY <1>2, Facts, SkippedType
<1>6. sent' = SubSeq(Text, hs.skipped + 1, hs.file + w.n)
  BY <1>1, <1>2, <1>4, <1>5, Continued DEF FileWritten, Written
<1>7. hs \in HttpState
  BY <1>2, Facts
<1>8. hs'.file = hs.file + w.n /\ hs'.skipped = hs.skipped /\ call'.at = "check" /\ Text' = Text
  BY <1>1, <1>7 DEF FileWritten, Goes, HttpState, Plain, Text
<1>9. hs.skipped <= hs.file + w.n
  BY <1>2, <1>4, <1>5, Facts
<1> QED BY <1>6, <1>8, <1>9 DEF PlainSent

(* The actions of http_send_data_ssi are those of a page with a tag state,  *)
(* and do not end the page themselves.                                      *)
LEMMA TagsOnly ==
  ASSUME SendIInv,
         \/ Resume \/ LeaveLoop \/ NoRoom \/ Parse \/ TagFound
         \/ SendBefore \/ SendInsert \/ InsertSent \/ Final
  PROVE  hs.ssi /\ hs'.ssi = hs.ssi /\ call'.at \notin {"eof", "plain"}
<1>0. hs \in HttpState /\ (call.at \in {"resume", "loop", "final"} => hs.ssi)
      /\ call \in [at : At, len : 0..SndBuf, ok : BOOLEAN]
  BY Facts
<1>a. ASSUME NEW w, NEW at, FileWritten(w), Goes(at, w)
      PROVE  hs'.ssi = hs.ssi /\ call'.at = at
  BY <1>0, <1>a DEF FileWritten, Goes, HttpState
<1>1. CASE Resume
  <2>1. CASE Parsed
    <3>1. PICK w \in Outcomes(Room) :
            FileWritten(w) /\ Goes(IF sndbuf' = 0 THEN "check" ELSE "loop", w)
      BY <1>1, <2>1 DEF Resume
    <3>2. hs'.ssi = hs.ssi /\ call'.at = IF sndbuf' = 0 THEN "check" ELSE "loop"
      BY <1>a, <3>1
    <3> QED BY <1>0, <1>1, <3>2 DEF Resume
  <2>2. CASE ~Parsed
    BY <1>0, <1>1, <2>2 DEF Resume
  <2> QED BY <2>1, <2>2
<1>2. CASE LeaveLoop   BY <1>0, <1>2 DEF LeaveLoop
<1>3. CASE NoRoom      BY <1>0, <1>3 DEF NoRoom
<1>4. CASE Parse       BY <1>0, <1>4 DEF Parse, Looping
<1>5. CASE TagFound
  <2>1. call.at = "loop"
    BY <1>5 DEF TagFound, Looping
  <2>2. \/ \E w \in Outcomes(Up(ssi'.end)) : FileWritten(w) /\ Goes("loop", w)
        \/ UNCHANGED <<hs, call>>
    BY <1>5 DEF TagFound
  <2>3. CASE UNCHANGED <<hs, call>>
    BY <1>0, <2>1, <2>3
  <2>4. CASE \E w \in Outcomes(Up(ssi'.end)) : FileWritten(w) /\ Goes("loop", w)
    <3>1. hs'.ssi = hs.ssi /\ call'.at = "loop"
      BY <1>a, <2>4
    <3> QED BY <1>0, <2>1, <3>1
  <2> QED BY <2>2, <2>3, <2>4
<1>6. CASE SendBefore
  <2>1. PICK w \in Outcomes(Up(ssi.end)) : FileWritten(w) /\ Goes("loop", w)
    BY <1>6 DEF SendBefore
  <2>2. hs'.ssi = hs.ssi /\ call'.at = "loop" /\ call.at = "loop"
    BY <1>a, <1>6, <2>1 DEF SendBefore, Looping
  <2> QED BY <1>0, <2>2
<1>7. CASE SendInsert  BY <1>0, <1>7 DEF SendInsert, Looping, Goes
<1>8. CASE InsertSent  BY <1>0, <1>8 DEF InsertSent, Looping
<1>9. CASE Final
  <2>1. CASE ssi.state # "SENDING" /\ Parsed
    <3>1. PICK w \in Outcomes(Room) : FileWritten(w) /\ Goes("check", w)
      BY <1>9, <2>1 DEF Final
    <3>2. hs'.ssi = hs.ssi /\ call'.at = "check"
      BY <1>a, <3>1
    <3> QED BY <1>0, <1>9, <3>2 DEF Final
  <2>2. CASE ~(ssi.state # "SENDING" /\ Parsed)
    BY <1>0, <1>9, <2>2 DEF Final
  <2> QED BY <2>1, <2>2
<1> QED BY <1>1, <1>2, <1>3, <1>4, <1>5, <1>6, <1>7, <1>8, <1>9

LEMMA PlainInductive == ASSUME PlainIInv, [Next]_vars PROVE PlainSent'
<1>0. SendIInv /\ PlainSent
  BY DEF PlainIInv
<1>1. CASE Resume \/ LeaveLoop \/ NoRoom \/ Parse \/ TagFound
           \/ SendBefore \/ SendInsert \/ InsertSent \/ Final
  <2>1. hs.ssi /\ hs'.ssi = hs.ssi /\ call'.at \notin {"eof", "plain"}
    BY <1>0, <1>1, TagsOnly
  <2> QED BY <2>1 DEF PlainSent
<1>2. CASE Plain
  <2>1. CASE ~hs.ssi
    BY <1>2, <2>1, PlainContinues
  <2>2. CASE hs.ssi
    <3>1. hs \in HttpState
      BY <1>0, Facts
    <3>2. hs'.ssi = hs.ssi /\ call'.at = "check"
      BY <1>2, <3>1 DEF Plain, FileWritten, Goes, HttpState
    <3> QED BY <2>2, <3>2 DEF PlainSent
  <2> QED BY <2>1, <2>2
<1>3. CASE Check
  <2>1. UNCHANGED <<hs, sent>> /\ Text' = Text
    BY <1>3 DEF Check, Text
  <2>2. call'.at = "eof" => hs.left = 0
    BY <1>0, <1>3, Facts DEF Check
  <2> QED BY <1>0, <2>1, <2>2 DEF PlainSent
<1>4. CASE Called
  <2>1. UNCHANGED <<hs, sent>> /\ Text' = Text /\ call'.at # "eof"
    BY <1>4 DEF Called, Send, Text
  <2> QED BY <1>0, <2>1 DEF PlainSent
<1>5. CASE UNCHANGED vars
  BY <1>0, <1>5 DEF vars, PlainSent, Text
<1> QED BY <1>1, <1>2, <1>3, <1>4, <1>5 DEF Next, Running

LEMMA PlainInit == ASSUME Init PROVE PlainIInv
<1>1. SendIInv
  BY InitGood
<1>2. PICK skip \in {0, page.header}, tags \in BOOLEAN :
        /\ hs = [file |-> skip, left |-> Len(Text) - skip, ssi |-> tags, skipped |-> skip]
        /\ call = [at |-> IF tags THEN "resume" ELSE "plain", len |-> SndBuf, ok |-> TRUE]
  BY DEF Init
<1>3. hs.skipped = skip /\ hs.file = skip /\ call.at # "eof" /\ sent = <<>>
  BY <1>2 DEF Init
<1>4. skip \in Nat
  BY <1>1, <1>3, Facts
<1>5. SubSeq(Text, skip + 1, skip) = <<>>
  BY <1>4, SubSeqEmpty
<1> QED BY <1>1, <1>3, <1>4, <1>5 DEF PlainIInv, PlainSent

(* A page sent without looking for tags (http_send_data_nonssi, and any     *)
(* page for whose tag state there was no memory) reaches the peer in its    *)
(* order, and the connection is closed only behind its last byte.           *)
THEOREM PlainPagesWhole == Spec => [](~hs.ssi => SentIsPrefix /\ ClosedWhenSent)
<1>1. Init => PlainIInv
  BY PlainInit
<1>2. PlainIInv /\ [Next]_vars => PlainIInv'
  BY PlainInductive, SendInductive DEF PlainIInv
<1>3. PlainIInv => (~hs.ssi => SentIsPrefix /\ ClosedWhenSent)
  <2> SUFFICES ASSUME PlainIInv, ~hs.ssi PROVE SentIsPrefix /\ ClosedWhenSent
    OBVIOUS
  <2> DEFINE k == hs.skipped
             f == hs.file
             t == Text
  <2>1. /\ SendIInv /\ k <= f /\ sent = SubSeq(t, k + 1, f)
        /\ call.at = "eof" => hs.left = 0
    BY DEF PlainIInv, PlainSent
  <2>2. /\ t \in Seq(Chars) /\ Len(t) \in Nat /\ k \in 0..Len(t) /\ f \in k..Len(t)
        /\ hs.left = Len(t) - f /\ sent \in Seq(Chars)
    BY <2>1, Facts, SkippedType
  <2>3. Expected = SubSeq(t, k + 1, Len(t))
    BY DEF Expected
  <2> HIDE DEF k, f, t
  <2>4. Len(sent) = f - k /\ Len(Expected) = Len(t) - k
    <3>1. \A i \in (k + 1)..f : t[i] \in Chars
      BY <2>2, ElementOfSeq
    <3>2. k + 1 \in Int /\ f \in Int /\ Len(t) \in Int
      BY <2>2
    <3>3. Len(SubSeq(t, k + 1, f)) = f - k
      BY <3>1, <3>2, <2>2, SubSeqProperties
    <3>4. Len(SubSeq(t, k + 1, Len(t))) = Len(t) - k
      BY <2>2, RestType
    <3> QED BY <3>3, <3>4, <2>1, <2>3
  <2>5. SubSeq(sent, 1, Len(sent)) = sent
    BY <2>2, SubSeqFull
  <2>6. SubSeq(Expected, 1, f - k) = sent
    <3>1. SubSeq(t, k + 1, k) = <<>>
      BY <2>2, SubSeqEmpty
    <3>2. f - k \in 0..(Len(t) - k) /\ k \in k..Len(t) /\ k + (f - k) = f
      BY <2>2
    <3>3. SubSeq(t, k + 1, k) \o SubSeq(SubSeq(t, k + 1, Len(t)), 1, f - k)
            = SubSeq(t, k + 1, k + (f - k))
      BY <3>2, <2>2, Continued
    <3>4. SubSeq(SubSeq(t, k + 1, Len(t)), 1, f - k) \in Seq(Chars)
      <4>1. SubSeq(t, k + 1, Len(t)) \in Seq(Chars) /\ Len(SubSeq(t, k + 1, Len(t))) = Len(t) - k
        BY <2>2, RestType
      <4>2. \A i \in 1..(f - k) : SubSeq(t, k + 1, Len(t))[i] \in Chars
        BY <4>1, <3>2, <2>2, ElementOfSeq
      <4> QED BY <4>2, <3>2, SubSeqProperties
    <3> QED BY <3>1, <3>2, <3>3, <3>4, <2>1, <2>3, ConcatEmptySeq
  <2>7. SentIsPrefix
    BY <2>2, <2>4, <2>5, <2>6 DEF SentIsPrefix, IsPrefix
  <2>8. ClosedWhenSent
    <3> SUFFICES ASSUME call.at = "eof" PROVE sent = Expected
      BY DEF ClosedWhenSent
    <3>1. f = Len(t)
      BY <2>1, <2>2
    <3> QED BY <3>1, <2>1, <2>3
  <2> QED BY <2>7, <2>8
<1> QED BY <1>1, <1>2, <1>3, PTL DEF Spec

-----------------------------------------------------------------------------
(* Nobody waits in vain. *)

\* Nothing is left for the peer to acknowledge, and memory has not run out.
Fresh == sndbuf = SndBuf /\ call.ok

\* What NoStall rests on: while nothing has been sent there is something left
\* of the page and room for it, and no step leaves the call without sending.
StallInv ==
    /\ call.at \in {"resume", "plain"} => call.ok
    /\ call.at = "idle" => hs.left > 0
    /\ Fresh =>
        /\ call.at \in {"resume", "plain", "loop", "final"}
        /\ hs.left > 0
        /\ call.at \in {"resume", "plain", "loop"} => call.len > 0
        /\ call.at \in {"loop", "final"} /\ ssi.state = "SENDING" => ~Parsed
        /\ call.at = "final" => ssi.parse_left = 0

(* A write that is taken takes something, if something was offered: a send  *)
(* buffer that is still empty behind it has refused it.                     *)
LEMMA TakenOrRefused ==
  ASSUME SendIInv, NEW len \in Nat, NEW w \in Outcomes(len), w.ok,
         sndbuf = SndBuf => len > 0,
         sndbuf' = sndbuf - w.n
  PROVE  sndbuf' # SndBuf
<1>1. sndbuf \in 0..SndBuf /\ SndBuf \in Nat
  BY Facts, Sizes
<1>2. w.n \in 0..len
  BY <1>1, OutcomeBound
<1>3. CASE len = 0
  BY <1>1, <1>2, <1>3
<1>4. CASE len # 0
  <2>1. w \in {[ok |-> TRUE, n |-> n] : n \in {m \in Tried(len) : m <= sndbuf}}
          \/ w = [ok |-> FALSE, n |-> 0]
    BY <1>4, Zenon DEF Outcomes
  <2>2. w # [ok |-> FALSE, n |-> 0]
    OBVIOUS
  <2>3. PICK n \in Tried(len) : w = [ok |-> TRUE, n |-> n]
    BY <2>1, <2>2
  <2>4. n \in 1..len
    BY DEF Tried
  <2> QED BY <1>1, <2>3, <2>4
<1> QED BY <1>3, <1>4

(* Least of three again: positive when they are.                            *)
LEMMA MinPositive ==
  ASSUME NEW a \in Nat \ {0}, NEW b \in Nat \ {0}, NEW c \in Nat \ {0}
  PROVE  Min({a, b, c}) > 0 /\ Min({a, b}) > 0
<1>1. \E x \in {a, b, c} : \A y \in {a, b, c} : x =< y
  BY SMT
<1>2. Min({a, b, c}) \in {a, b, c}
  BY <1>1 DEF Min
<1>3. \E x \in {a, b} : \A y \in {a, b} : x =< y
  BY SMT
<1>4. Min({a, b}) \in {a, b}
  BY <1>3 DEF Min
<1> QED BY <1>2, <1>4

(* Behind a write of the loop or of the end of a call: not fresh, in any    *)
(* place.                                                                   *)
LEMMA WriteStalls ==
  ASSUME SendIInv, NEW len \in Nat, sndbuf = SndBuf => len > 0, NEW w \in Outcomes(len),
         NEW data, Written(data, w), NEW at \in {"check", "loop"}, Goes(at, w)
  PROVE  StallInv'
<1>1. sndbuf' = sndbuf - w.n /\ call' = [at |-> at, len |-> w.n, ok |-> w.ok]
  BY DEF Written, Goes
<1>2. w.ok => sndbuf' # SndBuf
  BY <1>1, TakenOrRefused
<1>3. ~Fresh'
  BY <1>1, <1>2 DEF Fresh
<1> QED BY <1>1, <1>3 DEF StallInv

(* The lengths offered are positive when the send buffer is empty.          *)
LEMMA RoomPositive ==
  ASSUME SendIInv, Parsed
  PROVE  Room \in Nat /\ (sndbuf = SndBuf => Room > 0)
<1> DEFINE k == ssi.parsed - hs.file
<1>1. k \in Nat \ {0} /\ sndbuf \in Nat /\ MaxSend \in Nat \ {0} /\ SndBuf \in Nat \ {0}
  BY Facts, Sizes DEF Parsed
<1>2. Room = Min({sndbuf, k, MaxSend})
  BY DEF Room
<1> HIDE DEF k
<1>3. sndbuf = SndBuf => Min({sndbuf, k, MaxSend}) > 0
  BY <1>1, MinPositive
<1>4. Room \in Nat
  BY RoomBound
<1> QED BY <1>2, <1>3, <1>4

LEMMA UpPositive ==
  ASSUME SendIInv, Looping, NEW n \in 0..Len(Text), n > hs.file
  PROVE  Up(n) \in Nat /\ Up(n) > 0
<1> DEFINE k == n - hs.file
<1>1. k \in Nat \ {0} /\ call.len \in Nat \ {0}
  <2>1. hs.file \in 0..Len(Text) /\ Len(Text) \in Nat
    BY Facts
  <2>2. call.len \in Nat \ {0}
    BY Facts DEF Looping
  <2> QED BY <2>1, <2>2
<1>2. Up(n) = Min({call.len, k}) /\ Up(n) \in Nat
  BY UpBound DEF Up
<1> HIDE DEF k
<1>3. Min({call.len, k}) > 0
  BY <1>1, MinPositive
<1> QED BY <1>2, <1>3

LEMMA StallStep ==
  ASSUME SendIInv, StallInv, [Next]_vars
  PROVE  StallInv'
<1> USE DEF Fresh
<1>0. /\ hs \in HttpState /\ hs.left = Len(Text) - hs.file /\ Len(Text) \in Nat
      /\ hs.file \in 0..Len(Text) /\ ssi.parsed \in 0..Len(Text) /\ ssi \in SsiState
      /\ ssi.parse_left = Len(Text) - ssi.parsed
      /\ call \in [at : At, len : 0..SndBuf, ok : BOOLEAN]
  BY Facts
<1>1. CASE Resume
  <2>1. CASE Parsed
    <3>1. PICK w \in Outcomes(Room) :
            FileWritten(w) /\ Goes(IF sndbuf' = 0 THEN "check" ELSE "loop", w)
      BY <1>1, <2>1 DEF Resume
    <3> DEFINE at == IF sndbuf' = 0 THEN "check" ELSE "loop"
    <3>2. at \in {"check", "loop"} /\ Goes(at, w)
      BY <3>1
    <3> HIDE DEF at
    <3>3. Written(SubSeq(Text, hs.file + 1, Len(Text)), w)
      BY <3>1 DEF FileWritten
    <3> QED BY <2>1, <3>2, <3>3, RoomPositive, WriteStalls
  <2>2. CASE ~Parsed
    <3>1. call' = [call EXCEPT !.at = "loop"] /\ UNCHANGED <<page, hs, ssi, sndbuf, sent>>
          /\ call.at = "resume"
      BY <1>1, <2>2 DEF Resume
    <3>2. ~Parsed'
      BY <2>2, <3>1 DEF Parsed
    <3> QED BY <1>0, <3>1, <3>2 DEF StallInv
  <2> QED BY <2>1, <2>2
<1>2. CASE LeaveLoop
  <2>1. /\ call.at = "loop" /\ ~(ssi.parse_left > 0 /\ call.ok)
        /\ call' = [call EXCEPT !.at = "final"]
        /\ UNCHANGED <<page, hs, ssi, sndbuf, sent>>
    BY <1>2 DEF LeaveLoop
  <2>2. Parsed' = Parsed /\ call'.at = "final" /\ call'.ok = call.ok
    BY <1>0, <2>1 DEF Parsed
  <2>3. call.ok => ssi.parse_left = 0
    BY <1>0, <2>1
  <2> QED BY <2>1, <2>2, <2>3 DEF StallInv
<1>3. CASE NoRoom
  <2>1. /\ call.at = "loop" /\ call.len = 0 /\ call' = [call EXCEPT !.at = "check"]
        /\ UNCHANGED <<hs, ssi, sndbuf>>
    BY <1>3 DEF NoRoom
  <2>2. ~Fresh
    BY <2>1 DEF StallInv
  <2> QED BY <1>0, <2>1, <2>2 DEF StallInv
<1>4. CASE Parse
  <2>1. /\ call.at = "loop" /\ ssi.state # "SENDING" /\ UNCHANGED <<page, hs, call, sndbuf, sent>>
        /\ ssi' = Step(ssi, Here)
    BY <1>4 DEF Parse, Looping
  <2>2. ssi'.state # "SENDING"
    BY <2>1, <1>0 DEF Step, ScanStep, LeadInStep, NameStep, LeadOutStep, Consumed, SsiState, TagState
  <2> QED BY <2>1, <2>2 DEF StallInv
<1>5. CASE TagFound
  <2>0. Looping /\ call.at = "loop" /\ page' = page /\ ssi' = Fetched(ssi)
    BY <1>5 DEF TagFound, Looping
  <2>1. ssi'.end = ssi.parsed + 1 /\ ssi'.parsed = ssi.parsed + 1
    BY <2>0, <1>0 DEF Fetched, Consumed, SsiState
  <2>2. CASE ssi'.end > hs.file
    <3>1. PICK w \in Outcomes(Up(ssi'.end)) : FileWritten(w) /\ Goes("loop", w)
      BY <1>5, <2>2 DEF TagFound
    <3>2. ssi'.end \in 0..Len(Text)
      BY <2>0, <2>1, LoopFacts
    <3>3. Up(ssi'.end) \in Nat /\ Up(ssi'.end) > 0
      BY <2>0, <2>2, <3>2, UpPositive
    <3>4. Written(SubSeq(Text, hs.file + 1, Len(Text)), w)
      BY <3>1 DEF FileWritten
    <3> QED BY <3>1, <3>3, <3>4, WriteStalls
  <2>3. CASE ~(ssi'.end > hs.file)
    <3>1. UNCHANGED <<hs, call, sndbuf, sent>>
      BY <1>5, <2>3 DEF TagFound
    <3>2. ~Parsed'
      BY <1>0, <2>1, <2>3, <3>1 DEF Parsed
    <3> QED BY <2>0, <3>1, <3>2 DEF StallInv
  <2> QED BY <2>2, <2>3
<1>6. CASE SendBefore
  <2>1. PICK w \in Outcomes(Up(ssi.end)) : FileWritten(w) /\ Goes("loop", w)
    BY <1>6 DEF SendBefore
  <2>2. Looping /\ ssi.end > hs.file /\ ssi.end \in 0..Len(Text)
    BY <1>6, Facts DEF SendBefore
  <2>3. Up(ssi.end) \in Nat /\ Up(ssi.end) > 0
    BY <2>2, UpPositive
  <2>4. Written(SubSeq(Text, hs.file + 1, Len(Text)), w)
    BY <2>1 DEF FileWritten
  <2> QED BY <2>1, <2>3, <2>4, WriteStalls
<1>7. CASE SendInsert
  <2> DEFINE k == Len(ssi.insert) - ssi.index
             rest == SubSeq(ssi.insert, ssi.index + 1, Len(ssi.insert))
  <2>1. PICK w \in Outcomes(Min({call.len, k})) : Written(rest, w) /\ Goes("loop", w)
    BY <1>7 DEF SendInsert
  <2>2. call.len \in Nat \ {0} /\ k \in Nat \ {0}
    <3>1. Len(ssi.insert) \in Nat /\ ssi.index \in Nat
      BY <1>0, LenProperties DEF SsiState
    <3>2. ssi.index < Len(ssi.insert) /\ call.len > 0 /\ call.len \in Nat
      BY <1>7, Facts DEF SendInsert, Looping
    <3> QED BY <3>1, <3>2
  <2> HIDE DEF k, rest
  <2>3. Min({call.len, k}) \in Nat /\ Min({call.len, k}) > 0
    BY <2>2, MinPositive, MinOfTwo
  <2> QED BY <2>1, <2>3, WriteStalls
<1>8. CASE InsertSent
  <2>1. /\ call.at = "loop" /\ UNCHANGED <<page, hs, call, sndbuf, sent>>
        /\ ssi' = GoesOn(ssi)
    BY <1>8 DEF InsertSent, Looping
  <2>2. ssi'.state = "NONE"
    BY <2>1, <1>0 DEF GoesOn, SsiState
  <2> QED BY <2>1, <2>2 DEF StallInv
<1>9. CASE Final
  <2>1. CASE ssi.state # "SENDING" /\ Parsed
    <3>1. PICK w \in Outcomes(Room) : FileWritten(w) /\ Goes("check", w)
      BY <1>9, <2>1 DEF Final
    <3>2. Written(SubSeq(Text, hs.file + 1, Len(Text)), w)
      BY <3>1 DEF FileWritten
    <3> QED BY <2>1, <3>1, <3>2, RoomPositive, WriteStalls
  <2>2. CASE ~(ssi.state # "SENDING" /\ Parsed)
    <3>1. /\ call.at = "final" /\ call' = [call EXCEPT !.at = "check"]
          /\ UNCHANGED <<hs, sndbuf, ssi>>
      BY <1>9, <2>2 DEF Final
    <3>2. ~Fresh
      BY <1>0, <2>2, <3>1 DEF StallInv, Parsed
    <3> QED BY <1>0, <3>1, <3>2 DEF StallInv
  <2> QED BY <2>1, <2>2
<1>10. CASE Plain
  <2> DEFINE len == Min({sndbuf, hs.left, MaxSend})
  <2>1. PICK w \in Outcomes(len) : FileWritten(w) /\ Goes("check", w)
    BY <1>10 DEF Plain
  <2>2. call.at = "plain"
    BY <1>10 DEF Plain
  <2>3. len \in Nat
    <3>1. sndbuf \in Nat /\ hs.left \in Nat /\ MaxSend \in Nat
      BY Facts, Sizes
    <3> QED BY <3>1, MinOfThree
  <2>4. sndbuf = SndBuf => len > 0
    <3>1. sndbuf = SndBuf => hs.left \in Nat \ {0}
      BY <2>2, Facts DEF StallInv
    <3>2. MaxSend \in Nat \ {0} /\ SndBuf \in Nat \ {0}
      BY Sizes
    <3> QED BY <3>1, <3>2, MinPositive
  <2> HIDE DEF len
  <2>5. Written(SubSeq(Text, hs.file + 1, Len(Text)), w)
    BY <2>1 DEF FileWritten
  <2> QED BY <2>1, <2>3, <2>4, <2>5, WriteStalls
<1>11. CASE Check
  <2>1. /\ call.at = "check" /\ UNCHANGED <<hs, sndbuf, ssi>>
        /\ call' = [call EXCEPT !.at = IF hs.left = 0 THEN "eof" ELSE "idle"]
    BY <1>11 DEF Check
  <2>2. ~Fresh
    BY <2>1 DEF StallInv
  <2> QED BY <1>0, <2>1, <2>2 DEF StallInv
<1>12. CASE Called
  <2>1. PICK n \in 0..(SndBuf - sndbuf) : Send(n)
    BY <1>12 DEF Called
  <2>2. /\ call.at = "idle" /\ UNCHANGED <<hs, ssi>>
        /\ call' = [at |-> IF hs.ssi THEN "resume" ELSE "plain", len |-> sndbuf', ok |-> TRUE]
    BY <2>1 DEF Send
  <2>3. hs.left > 0
    BY <2>2 DEF StallInv
  <2> QED BY <2>2, <2>3, Sizes DEF StallInv
<1>13. CASE UNCHANGED vars
  BY <1>13 DEF vars, StallInv, Parsed
<1> QED
  BY <1>1, <1>2, <1>3, <1>4, <1>5, <1>6, <1>7, <1>8, <1>9, <1>10, <1>11, <1>12, <1>13
     DEF Next, Running

LEMMA StallInit == ASSUME Init PROVE StallInv
<1>1. SendIInv
  BY InitGood
<1>2. PICK skip \in {0, page.header}, tags \in BOOLEAN :
        /\ hs = [file |-> skip, left |-> Len(Text) - skip, ssi |-> tags, skipped |-> skip]
        /\ call = [at |-> IF tags THEN "resume" ELSE "plain", len |-> SndBuf, ok |-> TRUE]
  BY DEF Init
<1>3. Len(Text) - skip > 0
  <2>1. page \in Pages
    BY DEF Init
  <2>2. page.header \in 0..(Len(Text) - 1) /\ Len(Text) \in Nat
    BY <2>1, PagesAssumption, LenProperties DEF Text
  <2> QED BY <2>2
<1> QED BY <1>2, <1>3, Sizes DEF StallInv, Fresh

(* A call that leaves the send buffer empty, so that http_sent will not     *)
(* call again, was refused memory; http_poll tries again then (http_poll).  *)
THEOREM NobodyWaitsInVain == Spec => []NoStall
<1>1. Init => SendIInv /\ StallInv
  BY InitGood, StallInit
<1>2. SendIInv /\ StallInv /\ [Next]_vars => (SendIInv /\ StallInv)'
  BY SendInductive, StallStep
<1>3. SendIInv /\ StallInv => NoStall
  BY DEF StallInv, Fresh, NoStall
<1> QED BY <1>1, <1>2, <1>3, PTL DEF Spec

-----------------------------------------------------------------------------
(* A page read in one go. *)

(* A set of numbers has a least one.                                        *)
LEMMA LeastNat ==
  ASSUME NEW T, T \subseteq Nat, T # {}
  PROVE  \E x \in T : \A y \in T : x <= y
<1> DEFINE R == OpToRel(<, Nat)
<1>1. \E x \in T : \A y \in T : ~ (<<y, x>> \in R)
  BY NatLessThanWellFounded, WFMin, Zenon
<1>2. \A x, y \in Nat : x < y => <<x, y>> \in R
  BY DEF OpToRel
<1> HIDE DEF R
<1>3. PICK x \in T : \A y \in T : ~ (<<y, x>> \in R)
  BY <1>1
<1>4. ASSUME NEW y \in T PROVE x <= y
  <2>1. x \in Nat /\ y \in Nat /\ ~ (<<y, x>> \in R)
    BY <1>3
  <2> QED BY <2>1, <1>2
<1> QED BY <1>4

(* What holds of 0, and of n + 1 when it holds of n, holds up to N.         *)
LEMMA Upward ==
  ASSUME NEW N \in Nat, NEW S, 0 \in S,
         \A n \in 0..(N - 1) : n \in S => n + 1 \in S
  PROVE  \A n \in 0..N : n \in S
<1> DEFINE T == {n \in 0..N : n \notin S}
<1> SUFFICES ASSUME T # {} PROVE FALSE
  OBVIOUS
<1>1. PICK x \in T : \A y \in T : x <= y
  <2>1. T \subseteq Nat
    OBVIOUS
  <2> HIDE DEF T
  <2> QED BY <2>1, LeastNat
<1>2. x # 0 /\ x \in 0..N
  BY <1>1
<1>3. x - 1 \in 0..(N - 1) /\ x - 1 \notin T
  BY <1>1, <1>2
<1> QED BY <1>1, <1>2, <1>3

(* The recursive definition of Reading has a solution.                      *)
LEMMA ReadingIs ==
  ASSUME NEW t \in Seq(Chars)
  PROVE  /\ Turns(t) \in Nat
         /\ Reading(t)[0] = [at |-> Opened(t), read |-> <<>>]
         /\ \A n \in 1..Turns(t) : Reading(t)[n] = Turn(Reading(t)[n-1], t)
<1> DEFINE N == Turns(t)
           first == [at |-> Opened(t), read |-> <<>>]
           Reads(g, n) == g = [k \in 0..n |-> IF k = 0 THEN first ELSE Turn(g[k-1], t)]
           S == {n \in 0..N : \E g : Reads(g, n)}
           d == CHOOSE g : Reads(g, N)
<1>0. N \in Nat
  <2>1. Len(t) \in Nat
    BY LenProperties
  <2> QED BY <2>1 DEF Turns
<1>1. Reading(t) = d
  BY DEF Reading
<1> HIDE DEF first, N
<1>2. 0 \in S
  <2>1. Reads([k \in 0..0 |-> first], 0) /\ 0 \in 0..N
    BY <1>0
  <2> HIDE DEF Reads
  <2> QED BY <2>1
<1>3. ASSUME NEW n \in 0..(N - 1), n \in S
      PROVE  n + 1 \in S
  <2>1. PICK g : Reads(g, n)
    BY <1>3
  <2>2. Reads([k \in 0..(n + 1) |-> IF k <= n THEN g[k] ELSE Turn(g[n], t)], n + 1)
    BY <1>0, <2>1
  <2>3. n + 1 \in 0..N
    BY <1>0
  <2> HIDE DEF Reads
  <2> QED BY <2>2, <2>3
<1>4. N \in S
  <2> HIDE DEF S, Reads
  <2>1. \A n \in 0..N : n \in S
    BY <1>0, <1>2, <1>3, Upward
  <2> QED BY <1>0, <2>1
<1>5. Reads(d, N)
  <2>1. PICK g : Reads(g, N)
    BY <1>4
  <2> HIDE DEF Reads
  <2> QED BY <2>1
<1>6. d[0] = first /\ \A i \in 1..N : d[i] = Turn(d[i-1], t)
  <2> HIDE DEF d
  <2> QED BY <1>0, <1>5
<1> QED BY <1>0, <1>1, <1>6 DEF first, N

(* A turn takes one character, but for the one that ends a lead-in.         *)
LEMMA StepMoves ==
  ASSUME Text \in Seq(Chars), NEW s, Checker(s), s.parse_left > 0, s.state # "SENDING", NEW c
  PROVE  /\ Step(s, c).state # "SENDING"
         /\ \/ Step(s, c).parsed = s.parsed + 1
            \/ /\ Step(s, c).parsed = s.parsed
               /\ s.state = "LEADIN" /\ Step(s, c).state = "FOUND"
<1>1. s \in SsiState /\ s.state \in TagState \ {"SENDING"}
  BY DEF Checker, SsiState
<1> DEFINE n == Consumed(s)
<1>2. n \in SsiState /\ n.parsed = s.parsed + 1 /\ n.state = s.state
  BY ConsumedType
<1> HIDE DEF n
<1>3. CASE s.state = "NONE"
  BY <1>2, <1>3 DEF Step, ScanStep, n, SsiState
<1>4. CASE s.state = "LEADIN"
  <2>1. Step(s, c) = LeadInStep(s, c)
    BY <1>4 DEF Step
  <2>2. CASE s.index = Len(LeadIn)
    BY <1>1, <1>4, <2>1, <2>2 DEF LeadInStep, SsiState
  <2>3. CASE s.index # Len(LeadIn)
    BY <1>2, <1>4, <2>1, <2>3 DEF LeadInStep, n, SsiState
  <2> QED BY <2>2, <2>3
<1>5. CASE s.state = "FOUND"
  <2>1. Step(s, c) = NameStep(s, c)
    BY <1>5 DEF Step
  <2>2. \/ NameStep(s, c) = n
        \/ NameStep(s, c) = [n EXCEPT !.state = "NONE"]
        \/ \E i : NameStep(s, c) = [n EXCEPT !.state = "LEADOUT", !.index = i]
        \/ \E i, m : NameStep(s, c) = [n EXCEPT !.index = i, !.name = m]
    <3>1. NameStep(s, c) =
            CASE s.index = 0 /\ c \in Blank -> n
              [] s.index = 0 /\ c = LeadOut[1] -> [n EXCEPT !.state = "NONE"]
              [] s.index > 0 /\ EndsName(c) ->
                    [n EXCEPT !.state = "LEADOUT", !.index = IF c = LeadOut[1] THEN 1 ELSE 0]
              [] ~EndsName(c) /\ s.index < MaxName ->
                    [n EXCEPT !.index = n.index + 1, !.name = Append(SubSeq(n.name, 1, s.index), c)]
              [] OTHER -> [n EXCEPT !.state = "NONE"]
      BY <1>2 DEF NameStep, n, SsiState
    <3> QED BY <3>1
  <2> QED BY <1>2, <1>5, <2>1, <2>2 DEF SsiState
<1>6. CASE s.state = "LEADOUT"
  <2>1. Step(s, c) = LeadOutStep(s, c)
    BY <1>6 DEF Step
  <2> QED BY <1>2, <1>6, <2>1 DEF LeadOutStep, n, SsiState
<1> QED BY <1>1, <1>3, <1>4, <1>5, <1>6 DEF TagState

(* A checker behind a tag: as TAG_SENDING leaves it, and when the insert is *)
(* sent.                                                                    *)
LEMMA FetchedType ==
  ASSUME SendIInv, NEW s, Checker(s), s.parse_left > 0
  PROVE  /\ Checker(Fetched(s)) /\ Fetched(s).state = "SENDING"
         /\ Fetched(s).index = 0 /\ Fetched(s).insert = TagInsert(s.name)
         /\ Fetched(s).parsed = s.parsed + 1 /\ Fetched(s).end = s.parsed + 1
         /\ TagInsert(s.name) \in Seq(Chars)
         /\ Checker(GoesOn(Fetched(s))) /\ GoesOn(Fetched(s)).state = "NONE"
         /\ GoesOn(Fetched(s)).parsed = s.parsed + 1 /\ GoesOn(Fetched(s)).end = s.parsed + 1
<1> DEFINE n == Consumed(s)
           i == TagInsert(s.name)
           f == Fetched(s)
<1>1. Text \in Seq(Chars) /\ Len(Text) \in Nat
  BY Facts
<1>2. n \in SsiState /\ n.parse_left = Len(Text) - n.parsed /\ n.parsed = s.parsed + 1
  BY <1>1, ConsumedType
<1>3. i \in Seq(Chars) /\ s.parsed + 1 \in 0..Len(Text)
  <2>1. s \in SsiState
    BY DEF Checker
  <2> QED BY <1>1, <2>1, InsertType DEF SsiState, Checker
<1>4. f = [n EXCEPT !.state = "SENDING", !.index = 0, !.end = s.parsed + 1, !.insert = i]
  BY DEF Fetched
<1> HIDE DEF n, i
<1>5. /\ f \in SsiState /\ f.state = "SENDING" /\ f.index = 0 /\ f.insert = i
      /\ f.parsed = s.parsed + 1 /\ f.end = s.parsed + 1 /\ f.parse_left = n.parse_left
  <2> HIDE DEF f
  <2> QED BY <1>2, <1>3, <1>4 DEF SsiState, TagState
<1>6. GoesOn(f) = [f EXCEPT !.state = "NONE", !.index = 0]
  BY DEF GoesOn
<1> HIDE DEF f
<1>7. /\ GoesOn(f) \in SsiState /\ GoesOn(f).state = "NONE" /\ GoesOn(f).parsed = f.parsed
      /\ GoesOn(f).end = f.end /\ GoesOn(f).parse_left = f.parse_left
  BY <1>5, <1>6 DEF SsiState, TagState
<1>8. Checker(GoesOn(f))
  BY <1>2, <1>3, <1>5, <1>7 DEF Checker, IndexOK
<1>9. Checker(f)
  <2>1. Len(f.insert) \in Nat
    BY <1>3, <1>5, LenProperties
  <2> QED BY <1>1, <1>2, <1>3, <1>5, <2>1 DEF Checker, IndexOK
<1> QED BY <1>3, <1>5, <1>7, <1>8, <1>9 DEF f, i

\* How far a checker is, in turns.
Named(s) == IF s.state = "FOUND" THEN 1 ELSE 0
Gone(s) == 2 * s.parsed + Named(s)

LEMMA GoneIs ==
  ASSUME NEW s, s.parsed \in Nat
  PROVE  /\ Gone(s) \in Nat /\ Gone(s) >= 2 * s.parsed /\ Gone(s) <= 2 * s.parsed + 1
         /\ s.state = "FOUND" => Gone(s) = 2 * s.parsed + 1
         /\ s.state # "FOUND" => Gone(s) = 2 * s.parsed
<1>1. CASE s.state = "FOUND"
  <2>1. Gone(s) = 2 * s.parsed + 1
    BY <1>1 DEF Gone, Named
  <2> QED BY <1>1, <2>1
<1>2. CASE s.state # "FOUND"
  <2>1. Gone(s) = 2 * s.parsed + 0
    BY <1>2 DEF Gone, Named
  <2> QED BY <1>2, <2>1
<1> QED BY <1>1, <1>2

(* Data behind data is data, however it is put together.                    *)
LEMMA Join ==
  ASSUME NEW a \in Seq(Chars), NEW b \in Seq(Chars)
  PROVE  a \o b \in Seq(Chars)
  BY ConcatProperties

LEMMA Regroup ==
  ASSUME NEW a \in Seq(Chars), NEW b \in Seq(Chars), NEW c \in Seq(Chars)
  PROVE  (a \o b) \o c = a \o (b \o c)
  BY ConcatAssociative

\* What has been read is data, by a checker of its type.
Reader(r) == Checker(r.at) /\ r.at.state # "SENDING" /\ r.read \in Seq(Chars)

LEMMA ReaderFacts ==
  ASSUME NEW r, Reader(r)
  PROVE  /\ r.at.parse_left \in Nat /\ r.at.parsed \in Nat /\ r.read \in Seq(Chars)
         /\ r.at.parse_left = Len(Text) - r.at.parsed
         /\ Gone(r.at) \in Nat /\ Gone(r.at) <= 2 * r.at.parsed + 1
<1>1. /\ r.at.parse_left \in Nat /\ r.at.parsed \in Nat /\ r.read \in Seq(Chars)
      /\ r.at.parse_left = Len(Text) - r.at.parsed
  BY DEF Reader, Checker, SsiState
<1> QED BY <1>1, GoneIs

(* A turn takes a reader on: what it has read only grows.                   *)
LEMMA TurnReads ==
  ASSUME SendIInv, NEW r, Reader(r), r.at.parse_left > 0
  PROVE  LET q == Turn(r, Text)
         IN  /\ Reader(q) /\ Gone(q.at) >= Gone(r.at) + 1
             /\ \E x \in Seq(Chars) : q.read = r.read \o x
<1> DEFINE a == r.at
           c == Text[a.parsed + 1]
           q == Turn(r, Text)
<1>1. /\ Text \in Seq(Chars) /\ Len(Text) \in Nat /\ Checker(a) /\ a.state # "SENDING"
      /\ r.read \in Seq(Chars) /\ a \in SsiState
  BY Facts DEF Reader, Checker
<1>2. a.parsed \in Nat /\ a.parsed + 1 \in 1..Len(Text)
  BY <1>1 DEF Checker, SsiState
<1>3. c \in Chars
  BY <1>1, <1>2, ElementOfSeq
<1>4. CASE EndsTag(a, c)
  <2>1. q = [at |-> GoesOn(Fetched(a)), read |-> (r.read \o <<c>>) \o TagInsert(a.name)]
    BY <1>1, <1>2, <1>4 DEF Turn
  <2>2. /\ Checker(GoesOn(Fetched(a))) /\ GoesOn(Fetched(a)).state = "NONE"
        /\ GoesOn(Fetched(a)).parsed = a.parsed + 1 /\ TagInsert(a.name) \in Seq(Chars)
    BY <1>1, FetchedType
  <2> DEFINE i == TagInsert(a.name)
             g == GoesOn(Fetched(a))
  <2> HIDE DEF q, i, g, c
  <2>3. <<c>> \in Seq(Chars) /\ i \in Seq(Chars)
    BY <1>3, <2>2 DEF i
  <2>4. <<c>> \o i \in Seq(Chars)
    BY <2>3, Join
  <2>5. (r.read \o <<c>>) \o i = r.read \o (<<c>> \o i) /\ r.read \o (<<c>> \o i) \in Seq(Chars)
    <3>1. r.read \o (<<c>> \o i) \in Seq(Chars)
      BY <1>1, <2>4, Join
    <3>2. (r.read \o <<c>>) \o i = r.read \o (<<c>> \o i)
      BY <1>1, <2>3, Regroup
    <3> QED BY <3>1, <3>2
  <2>6. Gone(g) >= Gone(a) + 1
    <3>1. g.state = "NONE" /\ g.parsed = a.parsed + 1 /\ a.parsed + 1 \in Nat
      BY <1>2, <2>2 DEF g
    <3>2. Gone(g) = 2 * (a.parsed + 1)
      BY <3>1, GoneIs
    <3>3. Gone(a) \in Nat /\ Gone(a) <= 2 * a.parsed + 1
      BY <1>2, GoneIs
    <3> QED BY <1>2, <3>2, <3>3
  <2>7. q.at = g /\ q.read = r.read \o (<<c>> \o i) /\ Checker(g) /\ g.state # "SENDING"
    BY <2>1, <2>2, <2>5 DEF g, i
  <2> QED BY <2>4, <2>5, <2>6, <2>7 DEF Reader, q
<1>5. CASE ~EndsTag(a, c)
  <2> DEFINE n == Step(a, c)
             x == SubSeq(Text, a.parsed + 1, n.parsed)
  <2>1. q = [at |-> n, read |-> r.read \o x]
    BY <1>1, <1>2, <1>5 DEF Turn
  <2>2. Checker(n)
    BY <1>1, <1>3, <1>5, StepType DEF EndsTag
  <2>3. /\ n.state # "SENDING"
        /\ \/ n.parsed = a.parsed + 1
           \/ n.parsed = a.parsed /\ a.state = "LEADIN" /\ n.state = "FOUND"
    BY <1>1, StepMoves
  <2> HIDE DEF n
  <2>4. x \in Seq(Chars)
    <3>1. \A i \in (a.parsed + 1)..n.parsed : Text[i] \in Chars
      BY <1>1, <1>2, <2>3, ElementOfSeq
    <3>2. a.parsed + 1 \in Int /\ n.parsed \in Int
      BY <1>2, <2>3
    <3> QED BY <3>1, <3>2, SubSeqProperties
  <2> HIDE DEF x
  <2>5. q.read \in Seq(Chars) /\ q.read = r.read \o x
    BY <1>1, <2>1, <2>4, ConcatProperties
  <2>6. Gone(n) >= Gone(a) + 1
    BY <1>2, <2>3 DEF Gone, Named
  <2> QED BY <2>1, <2>2, <2>3, <2>4, <2>5, <2>6 DEF Reader
<1> QED BY <1>4, <1>5

(* Every turn of a reading is one of a reader, and they suffice.            *)
LEMMA ReadingTyped ==
  ASSUME SendIInv
  PROVE  LET R == Reading(Text)
         IN  /\ \A n \in 0..Turns(Text) : Reader(R[n])
             /\ R[Turns(Text)].at.parse_left = 0
<1> DEFINE N == Turns(Text)
           R == Reading(Text)
           S == {n \in 0..N : Reader(R[n]) /\ (R[n].at.parse_left > 0 => Gone(R[n].at) >= n)}
<1>1. /\ Text \in Seq(Chars) /\ Len(Text) \in Nat /\ N = 2 * Len(Text)
  BY Facts DEF Turns
<1>2. /\ N \in Nat /\ R[0] = [at |-> Opened(Text), read |-> <<>>]
      /\ \A n \in 1..N : R[n] = Turn(R[n-1], Text)
  BY <1>1, ReadingIs
<1> HIDE DEF N, R
<1>3. 0 \in S
  <2>1. Opened(Text) \in SsiState /\ IndexOK(Opened(Text))
    BY <1>1, EmptySeq DEF Opened, SsiState, IndexOK, TagState
  <2>2. Checker(Opened(Text)) /\ Opened(Text).state = "NONE" /\ Gone(Opened(Text)) = 0
    BY <1>1, <2>1 DEF Checker, Opened, Gone, Named
  <2>3. Reader(R[0])
    BY <1>2, <2>2, EmptySeq DEF Reader
  <2> QED BY <1>2, <2>2, <2>3
<1>4. ASSUME NEW n \in 0..(N - 1), n \in S
      PROVE  n + 1 \in S
  <2>1. n + 1 \in 1..N /\ n + 1 \in 0..N /\ (n + 1) - 1 = n
    BY <1>2
  <2>2. R[n + 1] = Turn(R[n], Text)
    BY <1>2, <2>1
  <2>3. Reader(R[n]) /\ (R[n].at.parse_left > 0 => Gone(R[n].at) >= n)
    BY <1>4
  <2>4. R[n].at.parse_left \in Nat /\ Gone(R[n].at) \in Nat
    BY <2>3, ReaderFacts
  <2>5. CASE R[n].at.parse_left = 0
    <3>1. R[n + 1] = R[n]
      BY <2>2, <2>5 DEF Turn
    <3> QED BY <2>1, <2>3, <2>5, <3>1
  <2>6. CASE R[n].at.parse_left > 0
    <3>1. Reader(R[n+1]) /\ Gone(R[n+1].at) >= Gone(R[n].at) + 1
      BY <2>2, <2>3, <2>6, TurnReads
    <3>2. Gone(R[n+1].at) \in Nat
      <4>1. R[n+1].at.parsed \in Nat
        BY <3>1 DEF Reader, Checker, SsiState
      <4> QED BY <4>1, GoneIs
    <3> QED BY <2>1, <2>3, <2>4, <2>6, <3>1, <3>2
  <2> QED BY <2>4, <2>5, <2>6
<1>5. \A n \in 0..N : n \in S
  <2> HIDE DEF S
  <2> QED BY <1>2, <1>3, <1>4, Upward
<1>6. \A n \in 0..N : Reader(R[n])
  BY <1>5
<1>7. R[N].at.parse_left = 0
  <2>1. N \in S
    BY <1>2, <1>5
  <2>2. Reader(R[N]) /\ (R[N].at.parse_left > 0 => Gone(R[N].at) >= N)
    BY <2>1
  <2> DEFINE left == R[N].at.parse_left
             at == R[N].at.parsed
             gone == Gone(R[N].at)
  <2>3. /\ left \in Nat /\ at \in Nat /\ left = Len(Text) - at
        /\ gone \in Nat /\ gone <= 2 * at + 1
    BY <2>2, ReaderFacts
  <2>4. left > 0 => gone >= N
    BY <2>2
  <2> HIDE DEF S, left, at, gone
  <2>5. left = 0
    BY <1>1, <2>3, <2>4
  <2> QED BY <2>5 DEF left
<1> QED BY <1>6, <1>7 DEF N, R

(* What has been read at some turn is the beginning of all that is read,    *)
(* and all of it when the page is at its end.                               *)
LEMMA ReadingGrows ==
  ASSUME SendIInv, NEW n \in 0..Turns(Text)
  PROVE  LET R == Reading(Text)
             N == Turns(Text)
         IN  /\ \E x \in Seq(Chars) : R[N].read = R[n].read \o x
             /\ R[n].at.parse_left = 0 => R[N] = R[n]
<1> DEFINE N == Turns(Text)
           R == Reading(Text)
           Grown(k) == /\ \E x \in Seq(Chars) : R[n + k].read = R[n].read \o x
                       /\ R[n].at.parse_left = 0 => R[n + k] = R[n]
           S == {k \in 0..(N - n) : Grown(k)}
<1>1. Text \in Seq(Chars)
  BY Facts
<1>2. /\ N \in Nat /\ N - n \in Nat
      /\ \A m \in 1..N : R[m] = Turn(R[m-1], Text)
  <2>1. N \in Nat /\ \A m \in 1..N : R[m] = Turn(R[m-1], Text)
    BY <1>1, ReadingIs
  <2> QED BY <2>1
<1>3. \A m \in 0..N : Reader(R[m])
  BY ReadingTyped, Zenon
<1> HIDE DEF N, R
<1>4. 0 \in S
  <2>1. R[n].read \in Seq(Chars) /\ n + 0 = n
    BY <1>2, <1>3 DEF Reader, N
  <2>2. <<>> \in Seq(Chars) /\ R[n].read = R[n].read \o <<>>
    BY <2>1, EmptySeq, ConcatEmptySeq
  <2>3. Grown(0)
    BY <2>1, <2>2
  <2> QED BY <1>2, <2>3
<1>5. ASSUME NEW k \in 0..((N - n) - 1), k \in S
      PROVE  k + 1 \in S
  <2>1. /\ n + k \in 0..N /\ n + (k + 1) \in 1..N /\ (n + (k + 1)) - 1 = n + k
        /\ k + 1 \in 0..(N - n)
    BY <1>2 DEF N
  <2>2. R[n + (k + 1)] = Turn(R[n + k], Text)
    BY <1>2, <2>1
  <2>3. Grown(k) /\ Reader(R[n + k]) /\ R[n].read \in Seq(Chars)
    BY <1>3, <1>5, <2>1 DEF Reader, N
  <2>4. PICK x \in Seq(Chars) : R[n + k].read = R[n].read \o x
    BY <2>3
  <2>5. CASE R[n + k].at.parse_left = 0
    <3>1. R[n + (k + 1)] = R[n + k]
      BY <2>2, <2>5 DEF Turn
    <3> QED BY <2>1, <2>3, <3>1
  <2>6. CASE R[n + k].at.parse_left # 0
    <3>1. R[n + k].at.parse_left > 0
      <4>1. R[n + k].at.parse_left \in Nat
        BY <2>3, ReaderFacts
      <4> QED BY <2>6, <4>1
    <3>2. PICK y \in Seq(Chars) : R[n + (k + 1)].read = R[n + k].read \o y
      BY <2>2, <2>3, <3>1, TurnReads
    <3>3. R[n + (k + 1)].read = R[n].read \o (x \o y) /\ x \o y \in Seq(Chars)
      <4> DEFINE z == R[n].read
      <4>0. z \in Seq(Chars)
        BY <2>3
      <4> HIDE DEF z
      <4>1. x \o y \in Seq(Chars) /\ (z \o x) \o y = z \o (x \o y)
        BY <4>0, Join, Regroup, Zenon
      <4> USE DEF z
      <4> QED BY <2>4, <3>2, <4>1
    <3>4. R[n].at.parse_left # 0
      BY <2>3, <2>6
    <3> QED BY <2>1, <3>3, <3>4
  <2> QED BY <2>5, <2>6
<1>6. N - n \in S
  <2> HIDE DEF S
  <2>1. \A k \in 0..(N - n) : k \in S
    BY <1>2, <1>4, <1>5, Upward
  <2> QED BY <1>2, <2>1
<1>7. n + (N - n) = N
  BY <1>2 DEF N
<1> QED BY <1>6, <1>7 DEF N, R

-----------------------------------------------------------------------------
(* Pieces of a page. *)

LEMMA Piece ==
  ASSUME NEW t \in Seq(Chars), NEW i \in 0..Len(t), NEW j \in 0..Len(t)
  PROVE  /\ SubSeq(t, i + 1, j) \in Seq(Chars)
         /\ i <= j => Len(SubSeq(t, i + 1, j)) = j - i
         /\ j <= i => SubSeq(t, i + 1, j) = <<>>
<1>1. Len(t) \in Nat /\ i + 1 \in Int /\ j \in Int
  BY LenProperties
<1>2. \A x \in (i + 1)..j : t[x] \in Chars
  BY <1>1, ElementOfSeq
<1>3. /\ SubSeq(t, i + 1, j) \in Seq(Chars)
      /\ Len(SubSeq(t, i + 1, j)) = IF i + 1 <= j THEN j - (i + 1) + 1 ELSE 0
  BY <1>1, <1>2, SubSeqProperties
<1>4. j <= i => SubSeq(t, i + 1, j) = <<>>
  BY <1>1, <1>3, EmptySeq
<1> QED BY <1>1, <1>3, <1>4

LEMMA Pieces ==
  ASSUME NEW t \in Seq(Chars), NEW i \in 0..Len(t), NEW j \in i..Len(t), NEW k \in j..Len(t)
  PROVE  SubSeq(t, i + 1, j) \o SubSeq(t, j + 1, k) = SubSeq(t, i + 1, k)
<1>1. Len(t) \in Nat
  BY LenProperties
<1>2. i + 1 \in 1..(Len(t) + 1) /\ j \in ((i + 1) - 1)..Len(t)
  BY <1>1
<1> QED BY <1>2, ConcatAdjacentSubSeq

(* The first m of what lies behind i.                                       *)
LEMMA FirstOfRest ==
  ASSUME NEW t \in Seq(Chars), NEW i \in 0..Len(t), NEW m \in 0..(Len(t) - i)
  PROVE  SubSeq(SubSeq(t, i + 1, Len(t)), 1, m) = SubSeq(t, i + 1, i + m)
<1> DEFINE a == SubSeq(SubSeq(t, i + 1, Len(t)), 1, m)
<1>1. Len(t) \in Nat /\ i \in i..Len(t)
  BY LenProperties
<1>2. SubSeq(t, i + 1, i) \o a = SubSeq(t, i + 1, i + m)
  BY <1>1, Continued
<1>3. SubSeq(t, i + 1, i) = <<>>
  BY <1>1, Piece
<1>4. a \in Seq(Chars)
  <2>1. SubSeq(t, i + 1, Len(t)) \in Seq(Chars) /\ Len(SubSeq(t, i + 1, Len(t))) = Len(t) - i
    BY <1>1, Piece
  <2> DEFINE b == SubSeq(t, i + 1, Len(t))
  <2> HIDE DEF b
  <2>2. 0 \in 0..Len(b) /\ m \in 0..Len(b)
    BY <1>1, <2>1 DEF b
  <2>3. SubSeq(b, 0 + 1, m) \in Seq(Chars)
    BY <2>1, <2>2, Piece DEF b
  <2> QED BY <2>3 DEF b
<1> HIDE DEF a
<1>5. <<>> \o a = a
  BY <1>4, ConcatEmptySeq
<1> QED BY <1>2, <1>3, <1>5 DEF a

(* Data in front of data, taken off again.                                  *)
LEMMA Behind ==
  ASSUME NEW a \in Seq(Chars), NEW b \in Seq(Chars)
  PROVE  SubSeq(a \o b, Len(a) + 1, Len(a \o b)) = b
<1> DEFINE c == a \o b
           d == SubSeq(c, Len(a) + 1, Len(c))
<1>1. /\ c \in Seq(Chars) /\ Len(c) = Len(a) + Len(b) /\ Len(a) \in Nat /\ Len(b) \in Nat
      /\ \A i \in 1..(Len(a) + Len(b)) : c[i] = IF i <= Len(a) THEN a[i] ELSE b[i - Len(a)]
  BY ConcatProperties, LenProperties
<1> HIDE DEF c
<1>2. /\ d \in Seq(Chars) /\ Len(d) = Len(b)
      /\ \A i \in 1..Len(b) : d[i] = c[Len(a) + i]
  <2>1. Len(a) + 1 \in Int /\ Len(c) \in Int /\ \A i \in (Len(a) + 1)..Len(c) : c[i] \in Chars
    BY <1>1, ElementOfSeq
  <2>2. /\ d \in Seq(Chars)
        /\ Len(d) = IF Len(a) + 1 <= Len(c) THEN Len(c) - (Len(a) + 1) + 1 ELSE 0
        /\ \A i \in 1..(Len(c) - (Len(a) + 1) + 1) : d[i] = c[(Len(a) + 1) + i - 1]
    BY <2>1, SubSeqProperties
  <2> HIDE DEF d
  <2>3. Len(c) - (Len(a) + 1) + 1 = Len(b)
    BY <1>1
  <2>4. Len(d) = Len(b)
    BY <1>1, <2>2
  <2>5. ASSUME NEW i \in 1..Len(b) PROVE d[i] = c[Len(a) + i]
    <3>1. (Len(a) + 1) + i - 1 = Len(a) + i /\ i \in 1..(Len(c) - (Len(a) + 1) + 1)
      BY <1>1, <2>3
    <3>2. d[i] = c[(Len(a) + 1) + i - 1]
      BY <2>2, <3>1
    <3> QED BY <3>1, <3>2
  <2> QED BY <2>2, <2>4, <2>5
<1> HIDE DEF d
<1>3. ASSUME NEW i \in 1..Len(b) PROVE d[i] = b[i]
  <2>1. /\ Len(a) + i \in 1..(Len(a) + Len(b)) /\ ~(Len(a) + i <= Len(a))
        /\ (Len(a) + i) - Len(a) = i
    BY <1>1
  <2>2. c[Len(a) + i] = b[(Len(a) + i) - Len(a)]
    BY <1>1, <2>1
  <2> QED BY <1>2, <2>1, <2>2
<1>4. d = b
  BY <1>2, <1>3, SeqEqual
<1> QED BY <1>4 DEF c, d

LEMMA Beginning ==
  ASSUME NEW a \in Seq(Chars), NEW b \in Seq(Chars)
  PROVE  IsPrefix(a, a \o b)
<1> DEFINE c == a \o b
           d == SubSeq(c, 1, Len(a))
<1>1. /\ c \in Seq(Chars) /\ Len(c) = Len(a) + Len(b) /\ Len(a) \in Nat /\ Len(b) \in Nat
      /\ \A i \in 1..(Len(a) + Len(b)) : c[i] = IF i <= Len(a) THEN a[i] ELSE b[i - Len(a)]
  BY ConcatProperties, LenProperties
<1> HIDE DEF c
<1>2. /\ d \in Seq(Chars) /\ Len(d) = Len(a)
      /\ \A i \in 1..Len(a) : d[i] = c[i]
  <2>1. Len(a) \in Int /\ \A i \in 1..Len(a) : c[i] \in Chars
    BY <1>1, ElementOfSeq
  <2>2. /\ d \in Seq(Chars)
        /\ Len(d) = IF 1 <= Len(a) THEN Len(a) - 1 + 1 ELSE 0
        /\ \A i \in 1..(Len(a) - 1 + 1) : d[i] = c[1 + i - 1]
    BY <2>1, SubSeqProperties
  <2> HIDE DEF d
  <2>3. Len(a) - 1 + 1 = Len(a) /\ \A i \in 1..Len(a) : 1 + i - 1 = i
    BY <1>1
  <2> QED BY <1>1, <2>2, <2>3
<1> HIDE DEF d
<1>3. \A i \in 1..Len(a) : d[i] = a[i]
  BY <1>1, <1>2
<1>4. d = a
  BY <1>2, <1>3, SeqEqual
<1>5. SubSeq(a, 1, Len(a)) = a
  BY SubSeqFull
<1>6. Len(a) <= Len(c) /\ SubSeq(c, 1, Len(a)) = SubSeq(a, 1, Len(a))
  BY <1>1, <1>4, <1>5 DEF d
<1> QED BY <1>6 DEF IsPrefix, c

-----------------------------------------------------------------------------
(* A page with tags. *)

\* The checker as it is when the insert it sends has been sent.
Settled(s) == IF s.state = "SENDING" THEN GoesOn(s) ELSE s

\* What is left of the insert.
InsertRest(s) ==
    IF s.state = "SENDING" THEN SubSeq(s.insert, s.index + 1, Len(s.insert)) ELSE <<>>

\* A reader of the page is where the checker s is after n turns.  What it has
\* read is the skipped header, what has been sent, what is parsed and not sent,
\* and the rest of the insert; as long as the checker is in a header that was
\* skipped nothing is sent.
SentAt(t, n, h, s, out) ==
    LET r == Reading(t)[n]
    IN  /\ Settled(s) = r.at /\ h.skipped <= h.file
        /\ s.state = "SENDING" => s.end = s.parsed /\ h.file <= s.parsed
        /\ IF h.file <= s.parsed
           THEN r.read = (SubSeq(t, 1, h.skipped) \o out)
                            \o (SubSeq(t, h.file + 1, s.parsed) \o InsertRest(s))
           ELSE h.file = h.skipped /\ out = <<>> /\ r.read = SubSeq(t, 1, s.parsed)

TagSent ==
    /\ hs.ssi => \E n \in 0..Turns(Text) : SentAt(Text, n, hs, ssi, sent)
    /\ call.at = "plain" => ~hs.ssi
TagIInv == PlainIInv /\ TagSent

(* A reader that is not at the end of the page has another turn.            *)
LEMMA TurnOf ==
  ASSUME SendIInv, NEW n \in 0..Turns(Text), Reading(Text)[n].at.parse_left > 0
  PROVE  /\ n + 1 \in 0..Turns(Text)
         /\ Reading(Text)[n + 1] = Turn(Reading(Text)[n], Text)
<1> DEFINE R == Reading(Text)
           N == Turns(Text)
<1>1. Text \in Seq(Chars)
  BY Facts
<1>2. N \in Nat /\ \A m \in 1..N : R[m] = Turn(R[m-1], Text)
  BY <1>1, ReadingIs
<1>3. R[N].at.parse_left = 0
  BY ReadingTyped, Zenon
<1>4. R[n].at.parse_left > 0
  OBVIOUS
<1> HIDE DEF R
<1>5. n # N
  BY <1>3, <1>4
<1>6. n + 1 \in 1..N /\ (n + 1) - 1 = n
  BY <1>2, <1>5
<1>7. R[n + 1] = Turn(R[n], Text)
  BY <1>2, <1>6
<1> QED BY <1>6, <1>7 DEF R

(* What the pages are said to be: of the page at hand.                      *)
LEMMA OnThisPage ==
  ASSUME SendIInv
  PROVE  /\ page.expected = Reading(Text)[Turns(Text)].read
         /\ Reading(Text)[Turns(Text)].at.end < Len(Text)
         /\ page.header \in 0..(Len(Text) - 1) /\ hs.skipped \in 0..page.header
         /\ \A n \in 0..Turns(Text) :
               Reading(Text)[n].at.parsed <= page.header => Reading(Text)[n].at.end = 0
<1>1. page \in Pages /\ hs \in HttpState
  BY Facts
<1>2. /\ page.expected = Reading(Text)[Turns(Text)].read
      /\ Reading(Text)[Turns(Text)].at.end < Len(Text)
      /\ \A n \in 0..Turns(Text) :
            Reading(Text)[n].at.parsed <= page.header => Reading(Text)[n].at.end = 0
  BY <1>1, ExpectedAssumption, Zenon DEF Text
<1>3. page.header \in 0..(Len(Text) - 1)
  BY <1>1, PagesAssumption DEF Text
<1>4. hs.skipped \in 0..page.header
  BY <1>1, <1>3 DEF HttpState
<1> QED BY <1>2, <1>3, <1>4

LEMMA InsertRestType ==
  ASSUME NEW s, Checker(s)
  PROVE  /\ InsertRest(s) \in Seq(Chars)
         /\ s.state # "SENDING" => InsertRest(s) = <<>>
<1>1. CASE s.state = "SENDING"
  <2>1. s.insert \in Seq(Chars) /\ s.index \in 0..Len(s.insert) /\ Len(s.insert) \in Nat
    BY <1>1, LenProperties DEF Checker, SsiState, IndexOK
  <2>2. Len(s.insert) \in 0..Len(s.insert)
    BY <2>1
  <2>3. SubSeq(s.insert, s.index + 1, Len(s.insert)) \in Seq(Chars)
    BY <2>1, <2>2, Piece
  <2> QED BY <1>1, <2>3 DEF InsertRest
<1>2. CASE s.state # "SENDING"
  BY <1>2, EmptySeq DEF InsertRest
<1> QED BY <1>1, <1>2

(* The beginning of what was not sent becomes the end of what was.          *)
Shifts(h, o, a, d) == (h \o o) \o (a \o d) = (h \o (o \o a)) \o d

\* The two ways to put three sequences together are one.
Regrouped(a, b, c) == (a \o b) \o c = a \o (b \o c)

LEMMA Regroups ==
  ASSUME NEW a \in Seq(Chars), NEW b \in Seq(Chars), NEW c \in Seq(Chars)
  PROVE  Regrouped(a, b, c)
  BY ConcatAssociative DEF Regrouped
LEMMA ShiftNamed ==
  ASSUME NEW h \in Seq(Chars), NEW o \in Seq(Chars), NEW a \in Seq(Chars),
         NEW d \in Seq(Chars), NEW e \in Seq(Chars), NEW g \in Seq(Chars)
  PROVE  Regrouped(h, o, g) /\ Regrouped(h, e, d) /\ Regrouped(o, a, d)
  BY Regroups

LEMMA Shift ==
  ASSUME NEW h \in Seq(Chars), NEW o \in Seq(Chars), NEW a \in Seq(Chars),
         NEW d \in Seq(Chars)
  PROVE  Shifts(h, o, a, d)
<1> DEFINE e == o \o a
           g == a \o d
<1>1. e \in Seq(Chars) /\ g \in Seq(Chars)
  BY Join
<1> HIDE DEF e, g
<1>2. Regrouped(h, o, g) /\ Regrouped(h, e, d) /\ Regrouped(o, a, d)
  BY <1>1, ShiftNamed
<1>3. e \o d = o \o g
  BY <1>2, Zenon DEF Regrouped, e, g
<1>4. (h \o o) \o g = h \o (o \o g) /\ (h \o e) \o d = h \o (e \o d)
  BY <1>2, Zenon DEF Regrouped
<1>5. (h \o o) \o g = (h \o e) \o d
  BY <1>3, <1>4, Zenon
<1> QED BY <1>5, Zenon DEF e, g, Shifts

(* A write from the page of no more than is parsed.                         *)
LEMMA WriteKeeps ==
  ASSUME SendIInv, NEW n \in 0..Turns(Text), NEW s, Checker(s),
         SentAt(Text, n, hs, s, sent),
         NEW w, w.n \in Nat, hs.file + w.n <= s.parsed, FileWritten(w)
  PROVE  SentAt(Text, n, hs', s, sent') /\ hs'.ssi = hs.ssi
<1> DEFINE t == Text
           k == hs.skipped
           f == hs.file
           m == w.n
           p == s.parsed
           r == Reading(t)[n]
           h == SubSeq(t, 1, k)
           a == SubSeq(t, f + 1, f + m)
           b == SubSeq(t, (f + m) + 1, p)
           c == InsertRest(s)
<1>1. /\ t \in Seq(Chars) /\ Len(t) \in Nat /\ hs \in HttpState /\ sent \in Seq(Chars)
      /\ k \in 0..Len(t) /\ f \in 0..Len(t) /\ p \in 0..Len(t) /\ m \in 0..(Len(t) - f)
      /\ f + m \in f..Len(t) /\ p \in (f + m)..Len(t) /\ f + m \in 0..Len(t) /\ 0 \in 0..Len(t)
  <2>1. /\ t \in Seq(Chars) /\ Len(t) \in Nat /\ hs \in HttpState /\ sent \in Seq(Chars)
        /\ k \in 0..Len(t) /\ f \in 0..Len(t)
    BY Facts, SkippedType
  <2>2. p \in 0..Len(t)
    BY DEF Checker, SsiState
  <2>3. m \in Nat /\ f + m <= p
    OBVIOUS
  <2> HIDE DEF t, k, f, m, p
  <2> QED BY <2>1, <2>2, <2>3
<1>2. /\ Settled(s) = r.at /\ k <= f /\ (s.state = "SENDING" => s.end = p)
      /\ r.read = (h \o sent) \o (SubSeq(t, f + 1, p) \o c)
  <2>1. f <= p
    <3> HIDE DEF t, k, f, m, p
    <3> QED BY <1>1
  <2> QED BY <2>1 DEF SentAt
<1>3. /\ hs'.file = f + m /\ hs'.skipped = k /\ hs'.ssi = hs.ssi
      /\ sent' = sent \o SubSeq(SubSeq(t, f + 1, Len(t)), 1, m)
  BY <1>1 DEF FileWritten, Written, HttpState
<1>4. h \in Seq(Chars) /\ a \in Seq(Chars) /\ b \in Seq(Chars) /\ c \in Seq(Chars)
  <2> HIDE DEF t, k, f, m, p
  <2>1. SubSeq(t, 0 + 1, k) \in Seq(Chars) /\ a \in Seq(Chars) /\ b \in Seq(Chars)
    BY <1>1, Piece
  <2> QED BY <2>1, InsertRestType
<1> HIDE DEF t, k, f, m, p, r, c
<1>5. SubSeq(SubSeq(t, f + 1, Len(t)), 1, m) = a /\ SubSeq(t, f + 1, p) = a \o b
  BY <1>1, FirstOfRest, Pieces
<1> HIDE DEF h, a, b
<1>6. r.read = (h \o (sent \o a)) \o (b \o c)
  <2> DEFINE d == b \o c
  <2>1. (a \o b) \o c = a \o d /\ d \in Seq(Chars) /\ sent \in Seq(Chars)
    <3>1. (a \o b) \o c = a \o (b \o c)
      BY <1>4, Regroup
    <3>2. b \o c \in Seq(Chars)
      BY <1>4, Join
    <3> QED BY <1>1, <3>1, <3>2
  <2>2. r.read = (h \o sent) \o ((a \o b) \o c)
    BY <1>2, <1>5
  <2> HIDE DEF d
  <2>3. Shifts(h, sent, a, d)
    BY <2>1, <1>4, Shift
  <2> QED BY <2>1, <2>2, <2>3 DEF d, Shifts
<1>7. k <= f + m /\ f + m <= p
  BY <1>1, <1>2
<1>8. sent' = sent \o a
  BY <1>3, <1>5
<1> QED BY <1>2, <1>3, <1>6, <1>7, <1>8 DEF SentAt, t, k, f, m, p, r, c, h, b

(* A reader goes on from p to q.                                            *)
LEMMA ReadOn ==
  ASSUME NEW t \in Seq(Chars), NEW g \in Seq(Chars),
         NEW f \in 0..Len(t), NEW p \in f..Len(t), NEW q \in p..Len(t)
  PROVE  (g \o (SubSeq(t, f + 1, p) \o <<>>)) \o SubSeq(t, p + 1, q)
            = g \o SubSeq(t, f + 1, q)
<1> DEFINE a == SubSeq(t, f + 1, p)
           b == SubSeq(t, p + 1, q)
<1>1. p \in 0..Len(t) /\ q \in 0..Len(t)
  <2>1. Len(t) \in Nat
    BY LenProperties
  <2> QED BY <2>1
<1>2. a \in Seq(Chars) /\ b \in Seq(Chars)
  BY <1>1, Piece
<1>3. a \o b = SubSeq(t, f + 1, q)
  BY Pieces
<1> HIDE DEF a, b
<1>4. a \o <<>> = a
  BY <1>2, ConcatEmptySeq
<1>5. (g \o a) \o b = g \o (a \o b)
  BY <1>2, Regroup
<1> QED BY <1>3, <1>4, <1>5 DEF a, b

(* The reader beside a checker that is not in an insert: it takes the turn  *)
(* the checker takes.                                                       *)
LEMMA Beside ==
  ASSUME SendIInv, Looping, ssi.state # "SENDING", NEW n \in 0..Turns(Text),
         SentAt(Text, n, hs, ssi, sent)
  PROVE  LET r == Reading(Text)[n]
         IN  /\ r.at = ssi /\ n + 1 \in 0..Turns(Text)
             /\ Reading(Text)[n + 1] = Turn(r, Text)
             /\ InsertRest(ssi) = <<>>
<1> DEFINE r == Reading(Text)[n]
<1>1. r.at = ssi
  BY DEF SentAt, Settled
<1>2. r.at.parse_left > 0
  BY <1>1, LoopFacts
<1>3. n + 1 \in 0..Turns(Text) /\ Reading(Text)[n + 1] = Turn(r, Text)
  BY <1>2, TurnOf
<1>4. InsertRest(ssi) = <<>>
  BY DEF InsertRest
<1> QED BY <1>1, <1>3, <1>4

(* One lemma for each action of http_send_data_ssi.                         *)
LEMMA ParseKeeps ==
  ASSUME SendIInv, Parse, NEW n \in 0..Turns(Text), SentAt(Text, n, hs, ssi, sent)
  PROVE  n + 1 \in 0..Turns(Text) /\ SentAt(Text, n + 1, hs, ssi', sent)
<1> DEFINE t == Text
           R == Reading(t)
           k == hs.skipped
           f == hs.file
           p == ssi.parsed
           q == ssi'.parsed
           g == SubSeq(t, 1, k) \o sent
           x == SubSeq(t, p + 1, q)
<1>1. Looping /\ ssi.state # "SENDING" /\ ~Closes /\ ssi' = Step(ssi, Here)
  BY DEF Parse
<1>2. /\ R[n].at = ssi /\ n + 1 \in 0..Turns(t) /\ R[n + 1] = Turn(R[n], t)
      /\ InsertRest(ssi) = <<>>
  BY <1>1, Beside
<1>3. /\ t \in Seq(Chars) /\ Len(t) \in Nat /\ sent \in Seq(Chars) /\ Checker(ssi)
      /\ k \in 0..Len(t) /\ f \in 0..Len(t) /\ p \in 0..Len(t) /\ ssi.parse_left > 0
      /\ p + 1 \in 1..Len(t) /\ Here \in Chars
  BY <1>1, Facts, SkippedType, LoopFacts
<1>4. R[n + 1].at = ssi' /\ R[n + 1].read = R[n].read \o x
  <2>1. Here = t[R[n].at.parsed + 1] /\ ~EndsTag(R[n].at, Here) /\ R[n].at.parse_left # 0
    BY <1>1, <1>2, <1>3 DEF Here, Closes
  <2> HIDE DEF R
  <2>2. Turn(R[n], t) = [at |-> Step(ssi, Here), read |-> R[n].read \o SubSeq(t, p + 1, Step(ssi, Here).parsed)]
    BY <1>2, <2>1 DEF Turn
  <2> DEFINE u == Step(ssi, Here)
  <2>3. ssi' = u /\ x = SubSeq(t, p + 1, u.parsed)
    BY <1>1
  <2> DEFINE y == R[n].read \o x
  <2>4. Turn(R[n], t) = [at |-> u, read |-> y]
    <3>1. R[n].read \o SubSeq(t, p + 1, u.parsed) = y
      BY <2>3
    <3>2. Turn(R[n], t) = [at |-> u, read |-> R[n].read \o SubSeq(t, p + 1, u.parsed)]
      BY <2>2
    <3> HIDE DEF u, y, t, p
    <3> QED BY <3>1, <3>2
  <2>5. R[n + 1] = Turn(R[n], t)
    BY <1>2
  <2>6. R[n + 1].at = u /\ R[n + 1].read = y
    <3> HIDE DEF u, y, t
    <3> QED BY <2>4, <2>5
  <2> HIDE DEF u
  <2> QED BY <2>3, <2>6
<1>5. Checker(ssi')
  BY <1>1, <1>3, StepType DEF Closes, EndsTag
<1>6. ssi'.state # "SENDING" /\ (q = p + 1 \/ q = p)
  BY <1>1, <1>3, StepMoves
<1>7. /\ InsertRest(ssi') = <<>> /\ Settled(ssi') = ssi' /\ Settled(ssi) = ssi
      /\ k <= f
  BY <1>1, <1>5, <1>6, InsertRestType DEF Settled, SentAt
<1>8. q \in p..Len(t) /\ q \in 0..Len(t)
  BY <1>3, <1>6
<1>9. CASE f <= p
  <2>1. R[n].read = g \o (SubSeq(t, f + 1, p) \o <<>>)
    BY <1>2, <1>9 DEF SentAt
  <2>2. g \in Seq(Chars) /\ p \in f..Len(t)
    <3>1. 0 \in 0..Len(t)
      BY <1>3
    <3>2. SubSeq(t, 0 + 1, k) \in Seq(Chars)
      BY <1>3, <3>1, Piece
    <3>3. SubSeq(t, 1, k) \in Seq(Chars)
      BY <3>2
    <3> QED BY <1>3, <1>9, <3>3, Join
  <2>3. f <= q /\ f \in 0..Len(t) /\ SubSeq(t, f + 1, q) \o <<>> = SubSeq(t, f + 1, q)
    <3>1. SubSeq(t, f + 1, q) \in Seq(Chars)
      BY <1>3, <1>8, Piece
    <3> QED BY <1>3, <1>8, <1>9, <3>1, ConcatEmptySeq
  <2> HIDE DEF g, t, R, k, f, p, q
  <2>4. (g \o (SubSeq(t, f + 1, p) \o <<>>)) \o x = g \o SubSeq(t, f + 1, q)
    BY <1>3, <1>8, <2>2, ReadOn
  <2>5. R[n + 1].read = g \o (SubSeq(t, f + 1, q) \o InsertRest(ssi'))
    BY <1>4, <1>7, <2>1, <2>3, <2>4
  <2> QED BY <1>2, <1>4, <1>6, <1>7, <2>3, <2>5 DEF SentAt, g, t, R, k, f, q
<1>10. CASE ~(f <= p)
  <2>1. f = k /\ sent = <<>> /\ R[n].read = SubSeq(t, 1, p)
    BY <1>10 DEF SentAt
  <2>2. q <= f /\ R[n + 1].read = SubSeq(t, 1, q)
    <3>1. 0 \in 0..Len(t) /\ p \in 0..Len(t)
      BY <1>3
    <3>2. SubSeq(t, 0 + 1, p) \o SubSeq(t, p + 1, q) = SubSeq(t, 0 + 1, q)
      BY <1>3, <1>8, <3>1, Pieces
    <3>3. SubSeq(t, 1, p) \o SubSeq(t, p + 1, q) = SubSeq(t, 1, q)
      <4>1. 0 + 1 = 1
        OBVIOUS
      <4> HIDE DEF t, p, q
      <4> QED BY <3>2, <4>1, Zenon
    <3>4. R[n + 1].read = SubSeq(t, 1, p) \o x
      BY <1>4, <2>1
    <3>5. q <= f
      <4> HIDE DEF t, f, p, q
      <4> QED BY <1>3, <1>6, <1>10
    <3> HIDE DEF R, t, p, q, f
    <3> QED BY <3>3, <3>4, <3>5
  <2>3. CASE ~(f <= q)
    BY <1>2, <1>4, <1>6, <1>7, <2>1, <2>2, <2>3 DEF SentAt
  <2>4. CASE f <= q
    <3>1. q = f
      BY <1>3, <1>8, <2>2, <2>4
    <3>2. SubSeq(t, f + 1, f) = <<>>
      BY <1>3, Piece
    <3>3. SubSeq(t, 1, k) \in Seq(Chars)
      <4>1. 0 \in 0..Len(t)
        BY <1>3
      <4>2. SubSeq(t, 0 + 1, k) \in Seq(Chars)
        BY <1>3, <4>1, Piece
      <4> QED BY <4>2
    <3> DEFINE h == SubSeq(t, 1, k)
    <3>4. h \o <<>> = h /\ <<>> \o <<>> = <<>>
      <4> HIDE DEF h
      <4> QED BY <3>3, EmptySeq, ConcatEmptySeq DEF h
    <3>5. R[n + 1].read = (h \o sent) \o (SubSeq(t, f + 1, q) \o InsertRest(ssi'))
      BY <1>7, <2>1, <2>2, <3>1, <3>2, <3>4
    <3> HIDE DEF h, t, R, k, f, p, q
    <3> QED BY <1>2, <1>4, <1>6, <1>7, <2>4, <3>5 DEF SentAt, h, t, R, k, f, q
  <2> QED BY <2>3, <2>4
<1> QED BY <1>9, <1>10

(* A write takes no more than what it was offered.                          *)
LEMMA UpTo ==
  ASSUME SendIInv, NEW e \in 0..Len(Text), e > hs.file, NEW w \in Outcomes(Up(e))
  PROVE  w.n \in Nat /\ hs.file + w.n <= e
<1> DEFINE k == e - hs.file
<1>1. call.len \in Nat /\ k \in Nat /\ sndbuf \in Nat /\ hs.file \in Nat /\ e \in Nat
  BY Facts
<1>2. Up(e) = Min({call.len, k})
  BY DEF Up
<1> HIDE DEF k
<1>3. Min({call.len, k}) \in Nat /\ Min({call.len, k}) <= k
  BY <1>1, MinOfTwo
<1>4. w.n \in 0..Up(e) /\ Up(e) <= k /\ Up(e) \in Nat
  BY <1>1, <1>2, <1>3, OutcomeBound
<1> QED BY <1>1, <1>4 DEF k

LEMMA RoomTo ==
  ASSUME SendIInv, Parsed, NEW w \in Outcomes(Room)
  PROVE  w.n \in Nat /\ hs.file + w.n <= ssi.parsed
<1> DEFINE k == ssi.parsed - hs.file
<1>1. k \in Nat /\ sndbuf \in Nat /\ hs.file \in Nat /\ ssi.parsed \in Nat /\ MaxSend \in Nat
  BY Facts, Sizes DEF Parsed
<1>2. Room = Min({sndbuf, k, MaxSend})
  BY DEF Room
<1> HIDE DEF k
<1>3. Min({sndbuf, k, MaxSend}) \in Nat /\ Min({sndbuf, k, MaxSend}) <= k
  BY <1>1, MinOfThree
<1>4. w.n \in 0..Room /\ Room <= k /\ Room \in Nat
  BY <1>1, <1>2, <1>3, OutcomeBound
<1> QED BY <1>1, <1>4 DEF k

LEMMA ResumeKeeps ==
  ASSUME SendIInv, Resume \/ Final, NEW n \in 0..Turns(Text), SentAt(Text, n, hs, ssi, sent)
  PROVE  SentAt(Text, n, hs', ssi', sent')
<1>1. ssi' = ssi /\ Checker(ssi)
  BY Facts DEF Resume, Final
<1>2. CASE UNCHANGED <<hs, sent>>
  BY <1>1, <1>2
<1>3. CASE Parsed /\ \E w \in Outcomes(Room) : FileWritten(w)
  <2>1. PICK w \in Outcomes(Room) : FileWritten(w)
    BY <1>3
  <2>2. w.n \in Nat /\ hs.file + w.n <= ssi.parsed
    BY <1>3, RoomTo
  <2>3. SentAt(Text, n, hs', ssi, sent')
    BY <1>1, <2>1, <2>2, WriteKeeps
  <2> QED BY <1>1, <2>3
<1> QED BY <1>2, <1>3 DEF Resume, Final

LEMMA SendBeforeKeeps ==
  ASSUME SendIInv, SendBefore, NEW n \in 0..Turns(Text), SentAt(Text, n, hs, ssi, sent)
  PROVE  SentAt(Text, n, hs', ssi', sent')
<1>1. ssi' = ssi /\ Checker(ssi) /\ ssi.end > hs.file /\ ssi.end \in 0..Len(Text)
  BY Facts DEF SendBefore
<1>2. ssi.end <= ssi.parsed /\ hs.file \in Nat /\ ssi.parsed \in Nat
  BY Facts
<1>3. PICK w \in Outcomes(Up(ssi.end)) : FileWritten(w)
  BY DEF SendBefore
<1>4. w.n \in Nat /\ hs.file + w.n <= ssi.end
  BY <1>1, UpTo
<1>5. hs.file + w.n <= ssi.parsed
  BY <1>1, <1>2, <1>4
<1>6. SentAt(Text, n, hs', ssi, sent')
  BY <1>1, <1>3, <1>4, <1>5, WriteKeeps
<1> QED BY <1>1, <1>6

(* A tag ends: the reader reads its last character and its insert.          *)
LEMMA TagFoundKeeps ==
  ASSUME SendIInv, TagFound, NEW n \in 0..Turns(Text), SentAt(Text, n, hs, ssi, sent)
  PROVE  n + 1 \in 0..Turns(Text) /\ SentAt(Text, n + 1, hs', ssi', sent')
<1> DEFINE t == Text
           R == Reading(t)
           k == hs.skipped
           f == hs.file
           p == ssi.parsed
           u == Fetched(ssi)
           i == TagInsert(ssi.name)
           g == SubSeq(t, 1, k) \o sent
<1>1. Looping /\ ssi.state # "SENDING" /\ Closes /\ ssi' = u
  BY DEF TagFound
<1>2. /\ R[n].at = ssi /\ n + 1 \in 0..Turns(t) /\ R[n + 1] = Turn(R[n], t)
      /\ InsertRest(ssi) = <<>>
  BY <1>1, Beside
<1>3. /\ t \in Seq(Chars) /\ Len(t) \in Nat /\ sent \in Seq(Chars) /\ Checker(ssi)
      /\ k \in 0..Len(t) /\ f \in 0..Len(t) /\ p \in 0..Len(t) /\ ssi.parse_left > 0
      /\ p + 1 \in 1..Len(t) /\ Here \in Chars
  BY <1>1, Facts, SkippedType, LoopFacts
<1>4. /\ Checker(u) /\ u.state = "SENDING" /\ u.index = 0 /\ u.insert = i
      /\ u.parsed = p + 1 /\ u.end = p + 1 /\ i \in Seq(Chars)
      /\ GoesOn(u).parsed = p + 1 /\ GoesOn(u).end = p + 1
  BY <1>3, FetchedType
<1>5. R[n + 1].at = GoesOn(u) /\ R[n + 1].read = (R[n].read \o <<Here>>) \o i
  <2>1. Here = t[R[n].at.parsed + 1] /\ EndsTag(R[n].at, Here) /\ R[n].at.parse_left # 0
    BY <1>1, <1>2, <1>3 DEF Here, Closes
  <2> DEFINE y == (R[n].read \o <<Here>>) \o i
  <2> HIDE DEF R, t
  <2>2. Turn(R[n], t) = [at |-> GoesOn(u), read |-> y]
    BY <1>2, <2>1 DEF Turn
  <2>3. R[n + 1] = Turn(R[n], t)
    BY <1>2
  <2> HIDE DEF y, u
  <2>4. R[n + 1].at = GoesOn(u) /\ R[n + 1].read = y
    BY <2>2, <2>3
  <2> QED BY <2>4 DEF y
<1> HIDE DEF u, i
<1>6. f <= p
  <2>1. R[n + 1].at.end # 0 /\ R[n + 1].at.parsed = p + 1
    BY <1>3, <1>4, <1>5
  <2>2. ~(p + 1 <= page.header)
    BY <1>2, <2>1, OnThisPage
  <2>3. page.header \in Nat /\ k \in Nat /\ k <= page.header
    BY OnThisPage
  <2>4. f <= p \/ f = k
    BY DEF SentAt
  <2> HIDE DEF f, p, k, t
  <2> QED BY <1>3, <2>2, <2>3, <2>4
<1>7. R[n].read = g \o (SubSeq(t, f + 1, p) \o <<>>) /\ k <= f
  BY <1>2, <1>6 DEF SentAt
<1>8. SubSeq(t, 1, k) \in Seq(Chars) /\ g \in Seq(Chars)
  <2>1. 0 \in 0..Len(t) /\ 0 + 1 = 1
    BY <1>3
  <2>2. SubSeq(t, 0 + 1, k) \in Seq(Chars)
    BY <1>3, <2>1, Piece
  <2>3. SubSeq(t, 1, k) \in Seq(Chars)
    BY <2>1, <2>2
  <2> QED BY <1>3, <2>3, Join
<1> HIDE DEF R, t, k, f, p, g
<1>9. R[n + 1].read = g \o (SubSeq(t, f + 1, p + 1) \o i)
  <2> DEFINE a == SubSeq(t, f + 1, p + 1)
             b == SubSeq(t, p + 1, p + 1)
  <2>1. p \in f..Len(t) /\ p + 1 \in p..Len(t) /\ p + 1 \in 0..Len(t)
    BY <1>3, <1>6
  <2>2. b = <<Here>>
    <3>1. b = <<t[p + 1]>> \o SubSeq(t, (p + 1) + 1, p + 1)
      BY <1>3, SubSeqRecursiveFirst
    <3>2. SubSeq(t, (p + 1) + 1, p + 1) = <<>>
      BY <1>3, <2>1, Piece
    <3>3. <<t[p + 1]>> \o <<>> = <<t[p + 1]>>
      <4>1. <<t[p + 1]>> \in Seq(Chars)
        BY <1>3 DEF Here, t, p
      <4> DEFINE z == <<t[p + 1]>>
      <4> HIDE DEF z
      <4> QED BY <4>1, ConcatEmptySeq DEF z
    <3>4. Here = t[p + 1]
      BY DEF Here, t, p
    <3> HIDE DEF b
    <3> QED BY <3>1, <3>2, <3>3, <3>4
  <2>3. (g \o (SubSeq(t, f + 1, p) \o <<>>)) \o b = g \o a
    BY <1>3, <1>8, <2>1, ReadOn
  <2>4. a \in Seq(Chars)
    BY <1>3, <2>1, Piece
  <2> HIDE DEF a, b
  <2>5. (g \o a) \o i = g \o (a \o i)
    BY <1>4, <1>8, <2>4, Regroup
  <2>6. R[n].read \o <<Here>> = g \o a
    BY <1>7, <2>2, <2>3
  <2> QED BY <1>5, <2>5, <2>6 DEF a
<1>10. InsertRest(u) = i
  <2>1. SubSeq(i, 0 + 1, Len(i)) = i
    BY <1>4, SubSeqFull
  <2> QED BY <1>4, <2>1 DEF InsertRest
<1>11. SentAt(Text, n + 1, hs, u, sent)
  <2>1. Settled(u) = GoesOn(u) /\ f <= p + 1
    BY <1>3, <1>4, <1>6 DEF Settled
  <2> QED BY <1>4, <1>5, <1>7, <1>9, <1>10, <2>1 DEF SentAt, R, t, k, f, g
<1>12. p + 1 > hs.file /\ p + 1 \in 0..Len(Text)
  BY <1>3, <1>6 DEF f, t
<1>13. PICK w \in Outcomes(Up(p + 1)) : FileWritten(w)
  BY <1>1, <1>4, <1>12 DEF TagFound
<1>14. w.n \in Nat /\ hs.file + w.n <= u.parsed
  BY <1>4, <1>12, UpTo
<1>15. SentAt(Text, n + 1, hs', u, sent')
  BY <1>2, <1>4, <1>11, <1>13, <1>14, WriteKeeps DEF t
<1> QED BY <1>1, <1>2, <1>15 DEF t

(* Where the checker goes on does not depend on how much is sent.           *)
LEMMA GoesOnFrom ==
  ASSUME NEW s \in SsiState, NEW m
  PROVE  GoesOn([s EXCEPT !.index = m]) = GoesOn(s)
  BY DEF GoesOn, SsiState

(* A part of the insert is sent: the end of the tag has been.               *)
LEMMA SendInsertKeeps ==
  ASSUME SendIInv, SendInsert, NEW n \in 0..Turns(Text), SentAt(Text, n, hs, ssi, sent)
  PROVE  SentAt(Text, n, hs', ssi', sent')
<1> DEFINE t == Text
           R == Reading(t)
           k == hs.skipped
           f == hs.file
           p == ssi.parsed
           i == ssi.insert
           j == ssi.index
           h == SubSeq(t, 1, k)
           rest == SubSeq(i, j + 1, Len(i))
           len == Min({call.len, Len(i) - j})
<1>1. /\ ssi.state = "SENDING" /\ ssi.end <= hs.file /\ j < Len(i) /\ UNCHANGED <<page, hs>>
  BY DEF SendInsert
<1>2. PICK w \in Outcomes(len) :
        Written(rest, w) /\ ssi' = [ssi EXCEPT !.index = @ + w.n]
  BY DEF SendInsert
<1>3. /\ t \in Seq(Chars) /\ Len(t) \in Nat /\ sent \in Seq(Chars) /\ ssi \in SsiState
      /\ k \in 0..Len(t) /\ f \in 0..Len(t) /\ p \in 0..Len(t) /\ call.len \in Nat
      /\ sndbuf \in Nat
  BY Facts, SkippedType
<1>4. i \in Seq(Chars) /\ Len(i) \in Nat /\ j \in 0..Len(i) /\ j \in Nat
  BY <1>1, <1>3, LenProperties DEF SsiState
<1>5. f = p /\ ssi.end = p
  <2>1. ssi.end = p /\ f <= p
    BY <1>1 DEF SentAt
  <2> QED BY <1>1, <1>3, <2>1
<1>6. w.n \in 0..(Len(i) - j)
  <2> DEFINE m == Len(i) - j
  <2>1. m \in Nat
    BY <1>1, <1>4
  <2> HIDE DEF m
  <2>2. Min({call.len, m}) \in Nat /\ Min({call.len, m}) <= m
    BY <1>3, <2>1, MinOfTwo
  <2>3. w.n \in 0..len /\ len = Min({call.len, m})
    BY <1>2, <1>3, <2>2, OutcomeBound DEF m
  <2> HIDE DEF len
  <2> QED BY <2>1, <2>2, <2>3 DEF m
<1> HIDE DEF len
<1> DEFINE a == SubSeq(i, j + 1, j + w.n)
           b == SubSeq(i, (j + w.n) + 1, Len(i))
<1>7. /\ ssi'.state = "SENDING" /\ ssi'.index = j + w.n /\ ssi'.insert = i
      /\ ssi'.parsed = p /\ ssi'.end = ssi.end /\ GoesOn(ssi') = GoesOn(ssi)
  <2> DEFINE m == j + w.n
  <2>1. ssi' = [ssi EXCEPT !.index = m] /\ m \in Nat
    BY <1>2, <1>4, <1>6
  <2> HIDE DEF m
  <2>2. /\ ssi'.state = ssi.state /\ ssi'.index = m /\ ssi'.insert = ssi.insert
        /\ ssi'.parsed = ssi.parsed /\ ssi'.end = ssi.end
    BY <1>3, <2>1 DEF SsiState
  <2>3. GoesOn(ssi') = GoesOn(ssi)
    BY <1>3, <2>1, GoesOnFrom
  <2> QED BY <1>1, <2>2, <2>3 DEF m
<1>8. InsertRest(ssi) = rest /\ InsertRest(ssi') = b
  BY <1>1, <1>7 DEF InsertRest
<1>9. rest = a \o b /\ SubSeq(rest, 1, w.n) = a /\ a \in Seq(Chars) /\ b \in Seq(Chars)
  <2>1. /\ j + w.n \in j..Len(i) /\ Len(i) \in (j + w.n)..Len(i) /\ j + w.n \in 0..Len(i)
        /\ Len(i) \in 0..Len(i)
    BY <1>4, <1>6
  <2> HIDE DEF i, j
  <2> QED BY <1>4, <1>6, <2>1, Piece, Pieces, FirstOfRest
<1>10. sent' = sent \o a
  <2> HIDE DEF rest, a
  <2> QED BY <1>2, <1>9 DEF Written
<1>11. SubSeq(t, f + 1, p) = <<>>
  BY <1>3, <1>5, Piece
<1>12. h \in Seq(Chars)
  <2>1. 0 \in 0..Len(t) /\ 0 + 1 = 1
    BY <1>3
  <2>2. SubSeq(t, 0 + 1, k) \in Seq(Chars)
    BY <1>3, <2>1, Piece
  <2> QED BY <2>1, <2>2
<1>13. /\ R[n].read = (h \o sent) \o (SubSeq(t, f + 1, p) \o rest)
       /\ Settled(ssi) = R[n].at /\ k <= f
  <2>1. f <= p
    BY <1>3, <1>5
  <2> QED BY <1>8, <2>1 DEF SentAt
<1> HIDE DEF a, b, rest, h
<1>14. R[n].read = (h \o (sent \o a)) \o (SubSeq(t, f + 1, p) \o b)
  <2>1. <<>> \o (a \o b) = a \o b /\ <<>> \o b = b
    <3>1. a \o b \in Seq(Chars)
      BY <1>9, Join
    <3> DEFINE z == a \o b
    <3> HIDE DEF z
    <3> QED BY <1>9, <3>1, ConcatEmptySeq DEF z
  <2>2. Shifts(h, sent, a, b)
    BY <1>3, <1>9, <1>12, Shift
  <2> DEFINE v == SubSeq(t, f + 1, p)
  <2>3. v = <<>> /\ R[n].read = (h \o sent) \o (v \o rest)
    BY <1>11, <1>13
  <2> HIDE DEF v, R
  <2>4. R[n].read = (h \o (sent \o a)) \o (v \o b)
    BY <1>9, <2>1, <2>2, <2>3 DEF Shifts
  <2> QED BY <2>4 DEF v, R
<1>15. Settled(ssi') = R[n].at
  BY <1>1, <1>7, <1>13 DEF Settled
<1> HIDE DEF t, R, k, f, p
<1>16. hs'.skipped = k /\ hs'.file = f /\ f <= p
  BY <1>1, <1>3, <1>5 DEF k, f
<1> QED BY <1>5, <1>7, <1>8, <1>10, <1>13, <1>14, <1>15, <1>16 DEF SentAt, t, R, k, f, p, h

(* The insert is sent: the checker settles.                                 *)
LEMMA InsertSentKeeps ==
  ASSUME SendIInv, InsertSent, NEW n \in 0..Turns(Text), SentAt(Text, n, hs, ssi, sent)
  PROVE  SentAt(Text, n, hs', ssi', sent')
<1>1. /\ ssi.state = "SENDING" /\ ssi' = GoesOn(ssi) /\ UNCHANGED <<hs, sent>>
      /\ ssi.index >= Len(ssi.insert) /\ ssi \in SsiState
  BY Facts DEF InsertSent
<1>2. ssi'.state = "NONE" /\ ssi'.parsed = ssi.parsed
  BY <1>1 DEF GoesOn, SsiState
<1>3. Settled(ssi') = Settled(ssi)
  BY <1>1, <1>2 DEF Settled
<1>4. InsertRest(ssi) = <<>> /\ InsertRest(ssi') = <<>>
  <2>1. ssi.insert \in Seq(Chars) /\ Len(ssi.insert) \in Nat /\ ssi.index \in 0..Len(ssi.insert)
    <3>1. Checker(ssi)
      BY Facts
    <3> QED BY <1>1, <3>1, LenProperties DEF Checker, SsiState, IndexOK
  <2>2. Len(ssi.insert) \in 0..Len(ssi.insert) /\ Len(ssi.insert) <= ssi.index
    BY <1>1, <2>1
  <2>3. SubSeq(ssi.insert, ssi.index + 1, Len(ssi.insert)) = <<>>
    BY <2>1, <2>2, Piece
  <2> QED BY <1>1, <1>2, <2>3 DEF InsertRest
<1> QED BY <1>1, <1>2, <1>3, <1>4 DEF SentAt

LEMMA TagStep == ASSUME TagIInv, [Next]_vars PROVE TagSent'
<1>0. SendIInv /\ TagSent /\ hs \in HttpState
  BY Facts DEF TagIInv, PlainIInv
<1>1. CASE \/ Resume \/ LeaveLoop \/ NoRoom \/ Parse \/ TagFound
           \/ SendBefore \/ SendInsert \/ InsertSent \/ Final
  <2>1. hs.ssi /\ hs'.ssi = hs.ssi /\ call'.at \notin {"eof", "plain"}
    BY <1>0, <1>1, TagsOnly
  <2>2. Text' = Text
    BY <1>1 DEF Text, Resume, LeaveLoop, NoRoom, Parse, TagFound,
                SendBefore, SendInsert, InsertSent, Final
  <2>3. PICK n \in 0..Turns(Text) : SentAt(Text, n, hs, ssi, sent)
    BY <1>0, <2>1 DEF TagSent
  <2>4. \E m \in 0..Turns(Text) : SentAt(Text, m, hs', ssi', sent')
    <3>1. CASE Resume \/ Final
      BY <1>0, <2>3, <3>1, ResumeKeeps
    <3>2. CASE LeaveLoop \/ NoRoom
      <4>1. UNCHANGED <<hs, ssi, sent>>
        BY <3>2 DEF LeaveLoop, NoRoom
      <4> QED BY <2>3, <4>1
    <3>3. CASE Parse
      <4>1. /\ n + 1 \in 0..Turns(Text) /\ SentAt(Text, n + 1, hs, ssi', sent)
            /\ hs' = hs /\ sent' = sent
        BY <1>0, <2>3, <3>3, ParseKeeps DEF Parse
      <4> QED BY <4>1
    <3>4. CASE TagFound
      BY <1>0, <2>3, <3>4, TagFoundKeeps
    <3>5. CASE SendBefore
      BY <1>0, <2>3, <3>5, SendBeforeKeeps
    <3>6. CASE SendInsert
      BY <1>0, <2>3, <3>6, SendInsertKeeps
    <3>7. CASE InsertSent
      BY <1>0, <2>3, <3>7, InsertSentKeeps
    <3> QED BY <1>1, <3>1, <3>2, <3>3, <3>4, <3>5, <3>6, <3>7
  <2>5. \E m \in 0..Turns(Text') : SentAt(Text', m, hs', ssi', sent')
    BY <2>2, <2>4
  <2> QED BY <2>1, <2>5 DEF TagSent
<1>2. CASE Plain
  <2>1. ~hs.ssi
    BY <1>0, <1>2 DEF Plain, TagSent
  <2>2. hs'.ssi = hs.ssi
    BY <1>0, <1>2 DEF Plain, FileWritten, HttpState
  <2> QED BY <2>1, <2>2 DEF TagSent
<1>3. CASE Check \/ Called \/ UNCHANGED vars
  <2>1. UNCHANGED <<page, hs, ssi, sent>> /\ Text' = Text
    BY <1>3 DEF Check, Called, Send, vars, Text
  <2>2. call'.at = "plain" => ~hs.ssi
    <3>1. CASE Check
      <4>1. call \in [at : At, len : 0..SndBuf, ok : BOOLEAN]
        BY <1>0, Facts
      <4> QED BY <3>1, <4>1 DEF Check
    <3>2. CASE Called
      BY <3>2 DEF Called, Send
    <3>3. CASE UNCHANGED vars
      BY <1>0, <3>3 DEF vars, TagSent
    <3> QED BY <1>3, <3>1, <3>2, <3>3
  <2>3. hs'.ssi => \E n \in 0..Turns(Text') : SentAt(Text', n, hs', ssi', sent')
    BY <1>0, <2>1 DEF TagSent
  <2> QED BY <2>1, <2>2, <2>3 DEF TagSent
<1> QED BY <1>1, <1>2, <1>3 DEF Next, Running

LEMMA TagInit == ASSUME Init PROVE TagIInv
<1>1. SendIInv /\ PlainIInv
  BY PlainInit DEF PlainIInv
<1>2. PICK skip \in {0, page.header}, tags \in BOOLEAN :
        /\ hs = [file |-> skip, left |-> Len(Text) - skip, ssi |-> tags, skipped |-> skip]
        /\ call = [at |-> IF tags THEN "resume" ELSE "plain", len |-> SndBuf, ok |-> TRUE]
  BY DEF Init
<1>3. /\ hs.skipped = skip /\ hs.file = skip /\ sent = <<>> /\ hs.ssi = tags
      /\ call.at = (IF tags THEN "resume" ELSE "plain")
  BY <1>2 DEF Init
<1>4. /\ ssi.state = "NONE" /\ ssi.parsed = 0 /\ ssi = Opened(Text)
  BY DEF Init, Opened
<1>5. /\ Text \in Seq(Chars) /\ skip \in 0..Len(Text) /\ Len(Text) \in Nat
      /\ 0 \in 0..Len(Text)
  <2>1. Text \in Seq(Chars) /\ hs.file \in 0..Len(Text) /\ Len(Text) \in Nat
    BY <1>1, Facts
  <2> QED BY <1>3, <2>1
<1>6. /\ 0 \in 0..Turns(Text)
      /\ Reading(Text)[0].at = Opened(Text) /\ Reading(Text)[0].read = <<>>
  <2> DEFINE r == Reading(Text)[0]
  <2>1. Turns(Text) \in Nat /\ r = [at |-> Opened(Text), read |-> <<>>]
    BY <1>5, ReadingIs, Zenon
  <2> HIDE DEF r
  <2>2. 0 \in 0..Turns(Text) /\ r.at = Opened(Text) /\ r.read = <<>>
    BY <2>1
  <2> QED BY <2>2 DEF r
<1>7. Settled(ssi) = Opened(Text) /\ InsertRest(ssi) = <<>>
  BY <1>4 DEF Settled, InsertRest
<1>8. SubSeq(Text, 1, 0) = <<>> /\ <<>> \o <<>> = <<>>
  <2>1. SubSeq(Text, 0 + 1, 0) = <<>> /\ 0 + 1 = 1
    BY <1>5, Piece
  <2>2. <<>> \in Seq(Chars)
    BY EmptySeq
  <2> QED BY <2>1, <2>2, ConcatEmptySeq
<1>9. SentAt(Text, 0, hs, ssi, sent)
  <2>1. CASE skip = 0
    <3>1. SubSeq(Text, 1, hs.skipped) = <<>> /\ SubSeq(Text, hs.file + 1, ssi.parsed) = <<>>
      BY <1>3, <1>4, <1>8, <2>1
    <3> QED BY <1>3, <1>4, <1>6, <1>7, <1>8, <2>1, <3>1 DEF SentAt
  <2>2. CASE skip # 0
    <3>1. ~(hs.file <= ssi.parsed)
      BY <1>3, <1>4, <1>5, <2>2
    <3>2. hs.skipped <= hs.file
      BY <1>3, <1>5
    <3> QED BY <1>3, <1>4, <1>6, <1>7, <1>8, <3>1, <3>2 DEF SentAt
  <2> QED BY <2>1, <2>2
<1>10. call.at = "plain" => ~hs.ssi
  BY <1>3
<1> QED BY <1>1, <1>6, <1>9, <1>10 DEF TagIInv, TagSent

(* What has been sent begins what the peer is to read, and is all of it at  *)
(* the end of the page.                                                     *)
LEMMA TaggedWhole ==
  ASSUME TagIInv, hs.ssi
  PROVE  SentIsPrefix /\ ClosedWhenSent
<1> DEFINE t == Text
           R == Reading(t)
           N == Turns(t)
           k == hs.skipped
           f == hs.file
           p == ssi.parsed
           e == page.expected
           h == SubSeq(t, 1, k)
           v == SubSeq(t, f + 1, p)
           c == InsertRest(ssi)
<1>0. SendIInv /\ PlainSent
  BY DEF TagIInv, PlainIInv
<1>1. PICK n \in 0..N : SentAt(t, n, hs, ssi, sent)
  BY DEF TagIInv, TagSent
<1>2. /\ t \in Seq(Chars) /\ Len(t) \in Nat /\ sent \in Seq(Chars)
      /\ k \in 0..Len(t) /\ f \in 0..Len(t) /\ p \in 0..Len(t) /\ 0 \in 0..Len(t)
      /\ hs.left = Len(t) - f /\ ssi.parse_left = Len(t) - p
  BY <1>0, Facts, SkippedType
<1>3. /\ e = R[N].read /\ R[N].at.end < Len(t)
      /\ page.header \in 0..(Len(t) - 1) /\ k \in 0..page.header
  BY <1>0, OnThisPage, Zenon
<1>4. Expected = SubSeq(e, k + 1, Len(e))
  BY DEF Expected
<1>5. /\ R[N].read \in Seq(Chars) /\ \E x \in Seq(Chars) : R[N].read = R[n].read \o x
      /\ R[n].at.parse_left = 0 => R[N] = R[n]
  <2>1. N \in Nat
    BY <1>2, ReadingIs
  <2>2. N \in 0..N
    BY <2>1
  <2>3. Reader(R[N])
    BY <1>0, <2>2, ReadingTyped, Zenon
  <2>4. /\ \E x \in Seq(Chars) : R[N].read = R[n].read \o x
        /\ R[n].at.parse_left = 0 => R[N] = R[n]
    BY <1>0, <1>1, ReadingGrows, Zenon
  <2> QED BY <2>3, <2>4 DEF Reader
<1>6. h \in Seq(Chars) /\ Len(h) = k /\ v \in Seq(Chars) /\ c \in Seq(Chars)
  <2>1. SubSeq(t, 0 + 1, k) \in Seq(Chars) /\ Len(SubSeq(t, 0 + 1, k)) = k - 0 /\ 0 + 1 = 1
    BY <1>2, Piece
  <2>2. v \in Seq(Chars)
    BY <1>2, Piece
  <2>3. Checker(ssi)
    BY <1>0, Facts
  <2> HIDE DEF v, c
  <2> QED BY <1>2, <2>1, <2>2, <2>3, InsertRestType DEF c
<1>7. f <= p => R[n].read = (h \o sent) \o (v \o c)
  BY <1>1 DEF SentAt
<1>8. f <= p \/ (f = k /\ sent = <<>>)
  BY <1>1 DEF SentAt
<1> HIDE DEF t, R, N, k, f, p, e, h, v, c
<1>9. ASSUME NEW y \in Seq(Chars), e = h \o y
      PROVE  Expected = y
  BY <1>4, <1>6, <1>9, Behind
<1>10. SentIsPrefix
  <2>1. CASE f <= p
    <3>1. PICK x \in Seq(Chars) : e = ((h \o sent) \o (v \o c)) \o x
      BY <1>3, <1>5, <1>7, <2>1
    <3> DEFINE y == v \o c
               z == y \o x
               g == h \o sent
    <3>2. y \in Seq(Chars) /\ g \in Seq(Chars)
      BY <1>2, <1>6, Join
    <3>3. z \in Seq(Chars) /\ (g \o y) \o x = g \o z
      <4> HIDE DEF y, g
      <4> QED BY <3>2, Join, Regroup
    <3> HIDE DEF z
    <3>4. g \o z = h \o (sent \o z) /\ sent \o z \in Seq(Chars)
      <4>1. (h \o sent) \o z = h \o (sent \o z)
        <5>1. h \in Seq(Chars) /\ sent \in Seq(Chars) /\ z \in Seq(Chars)
          BY <1>2, <1>6, <3>3
        <5> QED BY <5>1, Regroup
      <4>2. sent \o z \in Seq(Chars)
        BY <1>2, <3>3, Join
      <4> QED BY <4>1, <4>2
    <3> DEFINE m == sent \o z
    <3>5. e = h \o m /\ m \in Seq(Chars)
      <4>1. e = g \o z
        BY <3>1, <3>3
      <4> HIDE DEF g
      <4> QED BY <3>4, <4>1
    <3> HIDE DEF m
    <3>6. Expected = m
      BY <3>5, <1>9
    <3>7. IsPrefix(sent, m)
      BY <1>2, <3>3, Beginning DEF m
    <3> QED BY <3>6, <3>7 DEF SentIsPrefix
  <2>2. CASE sent = <<>>
    <3>1. Expected \in Seq(Chars)
      <4>1. e \in Seq(Chars) /\ Len(e) \in Nat
        BY <1>3, <1>5, LenProperties
      <4>2. k + 1 \in Int /\ Len(e) \in Int /\ \A i \in (k + 1)..Len(e) : e[i] \in Chars
        BY <1>2, <4>1, ElementOfSeq
      <4> QED BY <1>4, <4>2, SubSeqProperties
    <3>2. sent \o Expected = Expected
      BY <2>2, <3>1, ConcatEmptySeq
    <3>3. IsPrefix(sent, sent \o Expected)
      BY <1>2, <3>1, Beginning
    <3> QED BY <3>2, <3>3 DEF SentIsPrefix
  <2> QED BY <1>8, <2>1, <2>2
<1>11. ASSUME call.at = "eof" PROVE sent = Expected
  <2>1. f = Len(t)
    BY <1>0, <1>2, <1>11 DEF PlainSent
  <2>2. f <= p /\ p = Len(t)
    BY <1>2, <1>3, <1>8, <2>1
  <2>3. ssi.parse_left = 0
    BY <1>2, <2>2
  <2>4. Settled(ssi).parse_left = 0 /\ Settled(ssi) = R[n].at
    <3>1. Settled(ssi) = R[n].at
      BY <1>1 DEF SentAt, R, t
    <3>2. ssi \in SsiState
      BY <1>0, Facts
    <3>3. GoesOn(ssi).parse_left = ssi.parse_left
      BY <3>2 DEF GoesOn, SsiState
    <3> QED BY <2>3, <3>1, <3>3 DEF Settled
  <2>5. R[N] = R[n]
    BY <1>5, <2>4
  <2>6. ssi.state # "SENDING"
    <3> SUFFICES ASSUME ssi.state = "SENDING" PROVE FALSE
      OBVIOUS
    <3>1. ssi.end = p
      BY <1>1 DEF SentAt, p
    <3>2. ssi \in SsiState
      BY <1>0, Facts
    <3>3. GoesOn(ssi).end = ssi.end
      BY <3>2 DEF GoesOn, SsiState
    <3>4. R[n].at.end = Len(t)
      BY <2>2, <2>4, <3>1, <3>3 DEF Settled
    <3> QED BY <1>2, <1>3, <2>5, <3>4
  <2>7. v = <<>> /\ c = <<>>
    <3>1. v = <<>>
      BY <1>2, <2>1, <2>2, Piece DEF v
    <3>2. c = <<>>
      BY <2>6 DEF c, InsertRest
    <3> QED BY <3>1, <3>2
  <2>8. e = h \o sent
    <3>1. e = (h \o sent) \o (<<>> \o <<>>)
      BY <1>3, <1>7, <2>2, <2>5, <2>7
    <3>2. <<>> \o <<>> = <<>>
      <4>1. <<>> \in Seq(Chars)
        BY EmptySeq
      <4> QED BY <4>1, ConcatEmptySeq
    <3> DEFINE g == h \o sent
    <3>3. g \in Seq(Chars)
      BY <1>2, <1>6, Join
    <3> HIDE DEF g
    <3>4. g \o <<>> = g
      BY <3>3, ConcatEmptySeq
    <3>5. e = g \o <<>>
      BY <3>1, <3>2 DEF g
    <3> QED BY <3>4, <3>5 DEF g
  <2> QED BY <1>2, <1>9, <2>8
<1> QED BY <1>10, <1>11 DEF ClosedWhenSent

(* A page that is looked through for tags (http_send_data_ssi), for every   *)
(* text, every set of inserts, every size of the send buffer.               *)
THEOREM TaggedPagesWhole == Spec => [](hs.ssi => SentIsPrefix /\ ClosedWhenSent)
<1>1. Init => TagIInv
  BY TagInit
<1>2. TagIInv /\ [Next]_vars => TagIInv'
  BY TagStep, PlainInductive, SendInductive DEF TagIInv, PlainIInv
<1>3. TagIInv => (hs.ssi => SentIsPrefix /\ ClosedWhenSent)
  BY TaggedWhole
<1> QED BY <1>1, <1>2, <1>3, PTL DEF Spec

(* Whatever tcp_write takes, and in however many calls, the peer reads the  *)
(* page in its order with every insert right behind its tag, whole and once *)
(* (http_send_data_ssi).                                                    *)
THEOREM PagesArriveInOrder == Spec => []SentIsPrefix
  BY PlainPagesWhole, TaggedPagesWhole, PTL

(* The connection is closed when all of that has been sent, and not before  *)
(* (http_send, at the end of the page).                                     *)
THEOREM ClosedBehindTheEnd == Spec => []ClosedWhenSent
  BY PlainPagesWhole, TaggedPagesWhole, PTL

=============================================================================
