------------------------- MODULE MCStatementParser -------------------------
(* Token streams for StatementParser: the text of well-formed programs, and  *)
(* every stream over a few tokens.                                           *)
EXTENDS StatementTexts

----------------------------------------------------------------------------
(* Well-formed programs: statements nested two deep, two paragraphs.         *)

Item == Node("DISPLAY", <<<<Leaf("NAME"), Leaf("NAME")>>>>)

\* Every statement with the given lists, an empty one where a phrase may be
\* missing.
StatementsWith(lists) ==
    LET optional == lists \cup {<<>>} IN
         {Node("IF", <<a, b>>) : a \in lists, b \in optional}
    \cup {Node("PERFORM", <<a>>) : a \in lists}
    \cup {Node("EVALUATE", <<<<Node("WHEN", <<a>>), Node("WHEN", <<<<Leaf("STOP")>>>>)>>, b>>) :
             a \in lists, b \in optional}
    \cup {Node(kind, <<a, b>>) : kind \in HttpVerbs, a \in optional, b \in optional}
    \cup {Node("STRING", <<a, <<>>>>) : a \in optional}
    \cup {Node("STRING", <<<<>>, b>>) : b \in lists}

Leaves == {Leaf(kind) : kind \in Simple} \cup {Item}
Inner == StatementsWith({<<Leaf("MOVE")>>})
Lists1 == {<<Leaf("MOVE")>>, <<Leaf("COMPUTE"), Leaf("MOVE")>>}
          \cup {<<a>> : a \in {Item} \cup Inner}
Outer == StatementsWith(Lists1)

MCStatements == Leaves \cup Inner \cup Outer
MCDepth == [s \in MCStatements |-> IF s \in Leaves THEN 0 ELSE IF s \in Inner THEN 1 ELSE 2]

\* Two statements, with a period behind each or only behind the last one, and
\* another paragraph.
MCSources ==
    {<<[stmts |-> <<a, b>>, ends |-> ends], [stmts |-> <<Leaf("STOP")>>, ends |-> {1}]>> :
        a \in Outer, b \in {Leaf("COMPUTE"), Item}, ends \in {{1, 2}, {2}}}

\* The text of what has been parsed.
RECURSIVE TextOf(_)
TextOf(node) ==
    LET text == [m \in UNION {Range(list) : list \in ListsOf(node)} |-> TextOf(m)]
    IN  CASE node.stmt = "PARAGRAPH" -> <<"NAME", "PERIOD">> \o ListText(node.parts[1], {}, text)
          [] node.stmt = "ANONYMOUS" -> ListText(node.parts[1], {}, text)
          [] OTHER -> OneText(node, text)
AstText == FlattenSeq([i \in DOMAIN Ast |-> TextOf(Ast[i])])

----------------------------------------------------------------------------
(* Every stream of a few tokens.                                             *)

\* The longest stream, behind the name of the paragraph.
MaxTokens == 5

StreamsOver(words, max) ==
    {<<"NAME", "PERIOD">> \o s : s \in UNION {[1..n -> words] : n \in 0..max}}

IfTokens == {"MOVE", "IF", "ELSE", "END-IF", "PERFORM", "END-PERFORM", "PERIOD"}
NameTokens == {"MOVE", "NAME", "PERIOD", "DISPLAY", "PERFORM", "END-PERFORM"}

AnyStreams == StreamsOver(IfTokens, MaxTokens) \cup StreamsOver(NameTokens, MaxTokens)

\* What may be left out without changing the tree.
EmptyElse(s, i) == i < Len(s) /\ s[i] = "ELSE" /\ s[i + 1] = "END-IF"
Essential(s) ==
    SelectSeq([i \in DOMAIN s |-> IF EmptyElse(s, i) THEN "PERIOD" ELSE s[i]],
              LAMBDA t : t \notin {"PERIOD", "END-PERFORM"})

\* The streams with a statement whose phrases come in any order, or break off.
RespondTokens == {"MOVE", "HTTP-RESPOND", "ON", "NOT", "EXCEPTION", "END-HTTP", "PERIOD"}
OverflowTokens == {"MOVE", "STRING", "ON", "NOT", "OVERFLOW", "END-STRING", "PERIOD"}
EvaluateTokens == {"MOVE", "EVALUATE", "WHEN", "WHEN-OTHER", "END-EVALUATE", "PERIOD"}

PhraseStreams == StreamsOver(RespondTokens, MaxTokens - 1) \cup StreamsOver(OverflowTokens, MaxTokens - 1)
                 \cup StreamsOver(EvaluateTokens, MaxTokens - 1)
                 \cup {<<"HTTP-RESPOND">> \o s :
                           s \in {<<"NOT", "ON", "EXCEPTION", "MOVE", "ON", "EXCEPTION">>,
                                  <<"ON", "EXCEPTION", "MOVE", "NOT", "EXCEPTION", "MOVE">>,
                                  <<"ON", "EXCEPTION", "MOVE", "NOT", "EXCEPTION", "MOVE",
                                    "END-HTTP", "MOVE">>}}

\* The streams on which the parser comes to an end.
WellNested == WellFormed \cup PhraseStreams

Occurrences(word, s) == Len(SelectSeq(s, LAMBDA t : t = word))

\* A repeated phrase replaces the one before, and EVALUATE skips what is between
\* its clauses.
KeepsStatements == Occurrences("EVALUATE", tokens) = 0 /\ Occurrences("EXCEPTION", tokens) <= 2

\* A stream that is accepted without an error was the text of the program it
\* was parsed to, but for periods, END-PERFORM and an empty ELSE: no statement
\* is lost, duplicated, or moved into another list.  Where the same phrases may
\* come in several orders, each statement is there once.
AcceptedIsParsed ==
    pc = "done" /\ errs = 0 =>
        /\ tokens \in AnyStreams => Essential(AstText) = Essential(tokens)
        /\ KeepsStatements =>
              Occurrences("MOVE", AstText) = Occurrences("MOVE", tokens)

\* The text of a program and the streams of phrases come to an end: no loop
\* over statements waits for a token it does not take.
WellNestedReturns == tokens \in WellNested => <>(pc = "done")

AllStreams == AnyStreams \cup WellNested

\* An END-IF is missing.
MissingEndIf == {<<"NAME", "PERIOD", "PERFORM", "IF", "MOVE", "END-PERFORM">>}
=============================================================================
