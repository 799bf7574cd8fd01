--------------------------- MODULE StatementTexts ---------------------------
(***************************************************************************)
(* Programs and their texts, as the examples write them, and what the      *)
(* parser makes of the text of a program.                                   *)
(***************************************************************************)
EXTENDS StatementParser, SequencesExt

CONSTANTS
    Statements, \* those of the programs, those in their lists included
    Depth,      \* of a statement: more than that of any in its lists
    Sources     \* the programs: paragraphs [stmts, ends], with a period behind
                \* the statements whose place is in "ends"

----------------------------------------------------------------------------
(* Statements with the given lists.  A STRING has one of its phrases: ON     *)
(* OVERFLOW would swallow NOT ON OVERFLOW.                                   *)

OneOf(lists) == [1..1 -> lists]
TwoOf(lists) == [1..2 -> lists]

StatementsOver(lists) ==
         [stmt : Simple, parts : {<<>>}]
    \cup [stmt : {"DISPLAY"}, parts : OneOf(Seq({Leaf("NAME")}))]
    \cup [stmt : {"PERFORM"}, parts : OneOf(lists)]
    \cup [stmt : {"IF"} \cup HttpVerbs, parts : TwoOf(lists)]
    \cup [stmt : {"STRING"}, parts : {p \in TwoOf(lists) : p[1] = <<>> \/ p[2] = <<>>}]
    \cup [stmt : {"EVALUATE"}, parts : Seq([stmt : {"WHEN"}, parts : OneOf(lists)]) \X lists]

ListsOf(s) ==
    CASE s.stmt \in Simple \cup {"DISPLAY"} -> {}
      [] s.stmt = "EVALUATE" -> {s.parts[1][i].parts[1] : i \in DOMAIN s.parts[1]} \cup {s.parts[2]}
      [] OTHER -> {s.parts[i] : i \in DOMAIN s.parts}

\* Statements are finite trees.
ASSUME StatementsAssumption ==
    /\ Statements \subseteq StatementsOver(Seq(Statements))
    /\ Depth \in [Statements -> Nat]
    /\ \A s \in Statements : \A list \in ListsOf(s) :
          list \in Seq(Statements) /\ \A i \in DOMAIN list : Depth[list[i]] < Depth[s]

\* A paragraph has statements, and ends with a period.
ASSUME SourcesAssumption ==
    \A src \in Sources :
        /\ src \in Seq([stmts : Seq(Statements), ends : SUBSET Nat])
        /\ \A i \in DOMAIN src : src[i].stmts # <<>> /\ Len(src[i].stmts) \in src[i].ends

----------------------------------------------------------------------------
(* The text of a statement, from the texts of those in its lists.            *)

Period(i, ends) == IF i \in ends THEN <<"PERIOD">> ELSE <<>>

ListText(list, ends, text) ==
    FlattenSeq([i \in DOMAIN list |-> text[list[i]] \o Period(i, ends)])

\* A list behind the words that announce it; neither for an empty one.
Phrase(words, list, text) ==
    IF list = <<>> THEN <<>> ELSE words \o ListText(list, {}, text)

WhenText(when, text) == <<"WHEN">> \o ListText(when.parts[1], {}, text)

OnException == <<"ON", "EXCEPTION">>
NotException == <<"NOT", "EXCEPTION">>
NotOnException == <<"NOT", "ON", "EXCEPTION">>

\* HTTP-GET has NOT EXCEPTION behind ON EXCEPTION, the others NOT ON EXCEPTION
\* before it.
GetText(parts, text) ==
    IF parts = <<<<>>, <<>>>> THEN <<>>
    ELSE OnException \o (ListText(parts[1], {}, text) \o Phrase(NotException, parts[2], text))

\* What is between the word a statement begins with and the one that closes it.
Inside(s, text) ==
    CASE s.stmt \in Simple -> <<>>
      [] s.stmt = "DISPLAY" -> [i \in DOMAIN s.parts[1] |-> "NAME"]
      [] s.stmt = "PERFORM" -> ListText(s.parts[1], {}, text)
      [] s.stmt = "IF" ->
            ListText(s.parts[1], {}, text) \o Phrase(<<"ELSE">>, s.parts[2], text)
      [] s.stmt = "STRING" ->
            Phrase(OverflowPhrase(1), s.parts[1], text)
            \o Phrase(OverflowPhrase(2), s.parts[2], text)
      [] s.stmt = "EVALUATE" ->
            FlattenSeq([i \in DOMAIN s.parts[1] |-> WhenText(s.parts[1][i], text)])
            \o Phrase(<<"WHEN-OTHER">>, s.parts[2], text)
      [] s.stmt = "HTTP-GET" -> GetText(s.parts, text)
      [] s.stmt \in HttpVerbs \ {"HTTP-GET"} ->
            Phrase(NotOnException, s.parts[2], text) \o Phrase(OnException, s.parts[1], text)

Closing(kind) ==
    CASE kind = "PERFORM" -> <<"END-PERFORM">>
      [] kind = "IF" -> <<"END-IF">>
      [] kind = "STRING" -> <<"END-STRING">>
      [] kind = "EVALUATE" -> <<"END-EVALUATE">>
      [] kind \in HttpVerbs -> <<"END-HTTP">>
      [] OTHER -> <<>>

OneText(s, text) == <<s.stmt>> \o (Inside(s, text) \o Closing(s.stmt))

Text[s \in Statements] == OneText(s, Text)

----------------------------------------------------------------------------
(* Programs.                                                                 *)

ParagraphText(paragraph, text) ==
    <<"NAME", "PERIOD">> \o ListText(paragraph.stmts, paragraph.ends, text)

ProgramText(src, text) == FlattenSeq([i \in DOMAIN src |-> ParagraphText(src[i], text)])

AstOf(src) == [i \in DOMAIN src |-> Node("PARAGRAPH", <<src[i].stmts>>)]

\* Each program, with its text.
Written == LET text == Text IN {<<ProgramText(src, text), AstOf(src)>> : src \in Sources}
WellFormed == {program[1] : program \in Written}

\* From the text of a program the parser makes that program, without an error:
\* every statement ends its lists itself, takes all of its own phrases and none
\* of those of the statement it is in.
RoundTrip ==
    pc = "done" /\ tokens \in WellFormed =>
        /\ errs = 0
        /\ <<tokens, Ast>> \in Written
=============================================================================
