------------------------------ MODULE MCSsiSend ------------------------------
(****************************************************************************)
(* The pages SsiSend is checked on, written as sequences of pieces: plain   *)
(* text, and tags.  What the peer is to read is defined on the pieces and   *)
(* knows nothing of how they are found again in the text.                   *)
(****************************************************************************)
EXTENDS SsiSend

\* A piece of text, or a tag with blanks around its name.
Plainly(s) == [name |-> <<>>, text |-> s]
Tag(name, before, after) ==
    [name |-> name, text |-> LeadIn \o before \o name \o after \o LeadOut]

\* A tag stays in the page, and its insert follows it.
Shown(piece) ==
    IF piece.name = <<>> THEN piece.text
    ELSE piece.text \o (IF piece.name \in DOMAIN Inserts
                        THEN Inserts[piece.name] ELSE <<"*">> \o piece.name \o <<"*">>)

\* The page of a header and pieces.
Page(header, pieces) ==
    [text     |-> header \o FlattenSeq([i \in DOMAIN pieces |-> pieces[i].text]),
     header   |-> Len(header),
     expected |-> header \o FlattenSeq([i \in DOMAIN pieces |-> Shown(pieces[i])])]

Header == <<"h", "h">>
Sp     == <<"sp">>

MCInserts == [n \in {<<"t">>, <<"t", "u">>} |->
                 IF n = <<"t">> THEN <<"1", "2", "3">> ELSE <<>>]

MCPages == {
    \* text, a tag, and text behind it
    Page(Header, <<Plainly(<<"a", "<", "p">>), Tag(<<"t">>, <<>>, <<>>),
                   Plainly(<<"b", ">">>)>>),
    \* two tags in a row, the first with an empty insert
    Page(Header, <<Tag(<<"t", "u">>, <<>>, Sp), Tag(<<"t">>, Sp, <<>>),
                   Plainly(<<"b">>)>>),
    \* a tag nobody has registered, and a comment that is none
    Page(Header, <<Tag(<<"v">>, <<>>, Sp), Plainly(<<"<", "!", "-", "-", "sp", "-", ">">>)>>),
    \* a name too long, a tag without a name, and a broken end
    Page(Header, <<Plainly(LeadIn \o <<"t", "u", "v">> \o LeadOut),
                   Plainly(LeadIn \o LeadOut),
                   Plainly(LeadIn \o <<"t">> \o <<"-", ">">>)>>) }

MCChars == UNION {Range(p.text) \cup Range(p.expected) : p \in MCPages}

=============================================================================
