-------------------------- MODULE StatementParser --------------------------
(***************************************************************************)
(* The recursive descent of src/parser/parser.go through the PROCEDURE     *)
(* DIVISION: paragraphs, statement lists and the statements that contain    *)
(* others.  A call of one of its functions is a frame of the stack.         *)
(*                                                                         *)
(* A token stands for everything up to the next token the structure         *)
(* depends on: "MOVE" is a complete simple statement, "IF" and "PERFORM"   *)
(* come with their condition, "WHEN" with its value, "STRING" with its     *)
(* fields, an HTTP verb with the clauses before its exception phrases.      *)
(* A parsed statement is a node: its kind and the lists it contains.        *)
(***************************************************************************)
EXTENDS Naturals, Sequences

CONSTANT Streams        \* the token sequences that may be parsed

Simple == {"MOVE", "COMPUTE", "STOP"}
HttpVerbs == {"HTTP-GET", "HTTP-LISTEN", "HTTP-RESPOND"}
Blocks == {"IF", "PERFORM", "EVALUATE", "STRING"} \cup HttpVerbs

\* isScopeTerminator
ScopeTerminators ==
    {"ELSE", "END-IF", "WHEN", "WHEN-OTHER", "END-EVALUATE", "END-HTTP",
     "END-PERFORM", "END-STRING"}

Tokens ==
    Simple \cup Blocks \cup ScopeTerminators
    \cup {"DISPLAY", "NAME", "PERIOD", "ON", "NOT", "OVERFLOW", "EXCEPTION"}

ASSUME StreamAssumption == Streams \subseteq Seq(Tokens)

VARIABLES
    tokens,     \* the tokens of the PROCEDURE DIVISION
    pos,        \* the next one
    stack,      \* the calls under way, stack[1] is parseProcedureDivision
    errs,       \* number of errors reported
    pc          \* "parse", "junk" in the rest of Parse, "done"

vars == <<tokens, pos, stack, errs, pc>>

AtEnd == pos > Len(tokens)
TokenAt(i) == IF i <= Len(tokens) THEN tokens[i] ELSE "EOF"
Token == TokenAt(pos)

\* How many of the expected tokens come next.
Matched(expected) ==
    CHOOSE n \in 0..Len(expected) :
        /\ \A i \in 1..n : TokenAt(pos + i - 1) = expected[i]
        /\ n = Len(expected) \/ TokenAt(pos + n) # expected[n + 1]

AtParagraphName == Matched(<<"NAME", "PERIOD">>) = 2

Node(kind, parts) == [stmt |-> kind, parts |-> parts]
Leaf(kind) == Node(kind, <<>>)

\* A call: where it is, the list it reads (with the tokens that end it) and
\* the lists it has read.
Frame(kind, at, stop, parts) ==
    [kind |-> kind, at |-> at, part |-> 1, stop |-> stop, body |-> <<>>, parts |-> parts]

Top == stack[Len(stack)]
SetTop(f) == [stack EXCEPT ![Len(stack)] = f]
Pop == SubSeq(stack, 1, Len(stack) - 1)

\* The statement that has been read joins the list of the caller.
AddTo(calls, node) ==
    [calls EXCEPT ![Len(calls)].body = Append(@, node), ![Len(calls)].at = "after"]

StartList(part, stop) ==
    SetTop([Top EXCEPT !.at = "loop", !.part = part, !.stop = stop, !.body = <<>>])

StoreList(at) ==
    SetTop([Top EXCEPT !.at = at, !.parts[Top.part] = Top.body])

Consume(n) == pos' = pos + n
Report(n) == errs' = errs + n

\* A call that returns its node and, unless the closing token is there,
\* reports it.
Close(node, closing) ==
    /\ stack' = AddTo(Pop, node)
    /\ IF Token = closing THEN Consume(1) /\ Report(0) ELSE Consume(0) /\ Report(1)

Init ==
    /\ tokens \in Streams
    /\ pos = 1
    /\ stack = <<Frame("DIVISION", "clauses", {}, <<>>)>>
    /\ errs = 0
    /\ pc = "parse"

At(kinds, at) == pc = "parse" /\ Top.kind \in kinds /\ Top.at = at


----------------------------------------------------------------------------
(* parseProcedureDivision, parseParagraph, and the end of Parse.             *)

ParagraphStart ==
    /\ At({"DIVISION"}, "clauses")
    /\ ~AtEnd
    /\ stack' = Append(stack, Frame(IF AtParagraphName THEN "PARAGRAPH" ELSE "ANONYMOUS",
                                    "loop", ScopeTerminators, <<<<>>>>))
    /\ Consume(IF AtParagraphName THEN 2 ELSE 0)
    /\ UNCHANGED <<tokens, errs, pc>>

\* Mutant: the call does not return.
ParagraphEndKeepsCall ==
    /\ At({"PARAGRAPH", "ANONYMOUS"}, "end")
    /\ IF Top.kind = "ANONYMOUS" /\ Top.body = <<>>
       THEN pc' = "junk" /\ UNCHANGED stack
       ELSE /\ stack' = [AddTo(Pop, Node(Top.kind, <<Top.body>>)) EXCEPT ![1].at = "clauses"]
            /\ UNCHANGED pc
    /\ UNCHANGED <<tokens, pos, errs>>

\* A list without statements and without a name is no paragraph.
ParagraphEnd ==
    /\ At({"PARAGRAPH", "ANONYMOUS"}, "end")
    /\ IF Top.kind = "ANONYMOUS" /\ Top.body = <<>>
       THEN stack' = Pop /\ pc' = "junk"
       ELSE /\ stack' = [AddTo(Pop, Node(Top.kind, <<Top.body>>)) EXCEPT ![1].at = "clauses"]
            /\ UNCHANGED pc
    /\ UNCHANGED <<tokens, pos, errs>>

DivisionEnd ==
    /\ At({"DIVISION"}, "clauses")
    /\ AtEnd
    /\ pc' = "junk"
    /\ UNCHANGED <<tokens, pos, stack, errs>>

\* Parse reports every token that is left over.
Junk ==
    /\ pc = "junk"
    /\ IF AtEnd
       THEN pc' = "done" /\ UNCHANGED <<pos, errs>>
       ELSE Consume(1) /\ Report(1) /\ UNCHANGED pc
    /\ UNCHANGED <<tokens, stack>>

----------------------------------------------------------------------------
(* parseStatements, parseStatementsUntil, parsePerformBody: reading a list.  *)

Lists == {"PARAGRAPH", "ANONYMOUS"} \cup Blocks

InList == At(Lists, "loop") /\ ~(AtEnd \/ Token = "PERIOD" \/ Token \in Top.stop)

\* Only a loop body takes its terminator here.
ListEnd ==
    /\ At(Lists, "loop")
    /\ AtEnd \/ Token = "PERIOD" \/ Token \in Top.stop
    /\ stack' = SetTop([Top EXCEPT !.at = "end"])
    /\ Consume(IF Top.kind = "PERFORM" /\ Token = "END-PERFORM" THEN 1 ELSE 0)
    /\ UNCHANGED <<tokens, errs, pc>>

SimpleStatement ==
    /\ InList
    /\ Token \in Simple
    /\ stack' = AddTo(stack, Leaf(Token))
    /\ Consume(1)
    /\ UNCHANGED <<tokens, errs, pc>>

\* DISPLAY takes every word that follows as an item.
DisplayStatement ==
    /\ InList
    /\ Token = "DISPLAY"
    /\ \E n \in 0..Len(tokens) :
          /\ \A i \in 1..n : TokenAt(pos + i) = "NAME"
          /\ TokenAt(pos + n + 1) # "NAME"
          /\ stack' = AddTo(stack, Node("DISPLAY", <<[i \in 1..n |-> Leaf("NAME")]>>))
          /\ Consume(n + 1)
    /\ UNCHANGED <<tokens, errs, pc>>

\* Mutant: the token is reported and stays.
UnexpectedTokenStays ==
    /\ InList
    /\ Token \notin Simple \cup Blocks \cup ScopeTerminators \cup {"DISPLAY"}
    /\ stack' = SetTop([Top EXCEPT !.at = IF Top.kind = "PERFORM" THEN "end" ELSE "after"])
    /\ Report(1)
    /\ UNCHANGED <<tokens, pos, pc>>

\* What else the parser meets is reported and skipped; in a loop body it is
\* also the end of the body.
UnexpectedToken ==
    /\ InList
    /\ Token \notin Simple \cup Blocks \cup ScopeTerminators \cup {"DISPLAY"}
    /\ stack' = SetTop([Top EXCEPT !.at = IF Top.kind = "PERFORM" THEN "end" ELSE "after"])
    /\ Consume(1)
    /\ Report(1)
    /\ UNCHANGED <<tokens, pc>>

\* parseStatement returns nil for the terminator of another statement and
\* parseStatementsUntil tries again.
OtherTerminator ==
    /\ InList
    /\ Token \in ScopeTerminators
    /\ UNCHANGED vars

\* A period after a statement ends a list; a paragraph goes on after it
\* until the name of the next one.
AfterStatement ==
    /\ At(Lists, "after")
    /\ LET nextIsName == TokenAt(pos + 1) = "NAME" /\ TokenAt(pos + 2) = "PERIOD"
           ends == /\ Token = "PERIOD"
                   /\ \/ Top.kind \notin {"PARAGRAPH", "ANONYMOUS"}
                      \/ nextIsName
                      \/ pos >= Len(tokens)
       IN  stack' = SetTop([Top EXCEPT !.at = IF ends THEN "end" ELSE "loop"])
    /\ Consume(IF Token = "PERIOD" THEN 1 ELSE 0)
    /\ UNCHANGED <<tokens, errs, pc>>


----------------------------------------------------------------------------
(* IF, PERFORM and EVALUATE.                                                 *)

\* Mutant: the first list of an IF is read over its ELSE.
BlockStartOverElse ==
    /\ InList
    /\ Token \in Blocks
    /\ stack' = Append(stack,
                 CASE Token = "IF" -> Frame("IF", "loop", {"END-IF"}, <<<<>>, <<>>>>)
                   [] Token = "PERFORM" -> Frame("PERFORM", "loop", ScopeTerminators, <<<<>>>>)
                   [] OTHER -> [Frame(Token, "clauses", {}, <<<<>>, <<>>>>) EXCEPT !.part = 0])
    /\ Consume(1)
    /\ UNCHANGED <<tokens, errs, pc>>

\* The call of the function for a statement that contains others.
BlockStart ==
    /\ InList
    /\ Token \in Blocks
    /\ stack' = Append(stack,
                 CASE Token = "IF" -> Frame("IF", "loop", {"ELSE", "END-IF"}, <<<<>>, <<>>>>)
                   [] Token = "PERFORM" -> Frame("PERFORM", "loop", ScopeTerminators, <<<<>>>>)
                   [] OTHER -> [Frame(Token, "clauses", {}, <<<<>>, <<>>>>) EXCEPT !.part = 0])
    /\ Consume(1)
    /\ UNCHANGED <<tokens, errs, pc>>

\* Mutant: the list of the ELSE replaces the one before it.
IfElseForgetsThen ==
    /\ At({"IF"}, "end")
    /\ Top.part = 1 /\ Token = "ELSE"
    /\ stack' = StartList(2, {"END-IF"})
    /\ Consume(1)
    /\ UNCHANGED <<tokens, errs, pc>>

IfElse ==
    /\ At({"IF"}, "end")
    /\ Top.part = 1 /\ Token = "ELSE"
    /\ stack' = SetTop([Frame("IF", "loop", {"END-IF"}, <<Top.body, <<>>>>) EXCEPT !.part = 2])
    /\ Consume(1)
    /\ UNCHANGED <<tokens, errs, pc>>

IfEnd ==
    /\ At({"IF"}, "end")
    /\ ~(Top.part = 1 /\ Token = "ELSE")
    /\ Close(Node("IF", [Top.parts EXCEPT ![Top.part] = Top.body]), "END-IF")
    /\ UNCHANGED <<tokens, pc>>

\* END-PERFORM, a period, an unexpected token or the terminator of another
\* statement ended the loop.
PerformEnd ==
    /\ At({"PERFORM"}, "end")
    /\ stack' = AddTo(Pop, Node("PERFORM", <<Top.body>>))
    /\ UNCHANGED <<tokens, pos, errs, pc>>

EvaluateWhen ==
    /\ At({"EVALUATE"}, "clauses")
    /\ Token \in {"WHEN", "WHEN-OTHER"}
    /\ stack' = StartList(IF Token = "WHEN" THEN 1 ELSE 2,
                          {"WHEN", "WHEN-OTHER", "END-EVALUATE"})
    /\ Consume(1)
    /\ UNCHANGED <<tokens, errs, pc>>

EvaluateBodyEnd ==
    /\ At({"EVALUATE"}, "end")
    /\ stack' = IF Top.part = 1
                THEN SetTop([Top EXCEPT !.at = "clauses",
                                        !.parts[1] = Append(@, Node("WHEN", <<Top.body>>))])
                ELSE StoreList("clauses")
    /\ UNCHANGED <<tokens, pos, errs, pc>>

\* What is between the clauses, after a period in one of them, is skipped.
EvaluateSkip ==
    /\ At({"EVALUATE"}, "clauses")
    /\ ~AtEnd /\ Token \notin {"WHEN", "WHEN-OTHER", "END-EVALUATE"}
    /\ Consume(1)
    /\ UNCHANGED <<tokens, stack, errs, pc>>

EvaluateEnd ==
    /\ At({"EVALUATE"}, "clauses")
    /\ AtEnd \/ Token = "END-EVALUATE"
    /\ Close(Node("EVALUATE", Top.parts), "END-EVALUATE")
    /\ UNCHANGED <<tokens, pc>>

----------------------------------------------------------------------------
(* The phrases at the end of STRING and UNSTRING, in this order only.        *)

\* ON OVERFLOW is part 1, NOT ON OVERFLOW part 2; a phrase that breaks off is
\* skipped.
OverflowPhrase(part) == IF part = 1 THEN <<"ON", "OVERFLOW">> ELSE <<"NOT", "ON", "OVERFLOW">>

StringPhrase ==
    /\ At({"STRING"}, "clauses")
    /\ Top.part < 2
    /\ LET phrase == OverflowPhrase(Top.part + 1)
           n == Matched(phrase)
       IN  /\ stack' = IF n = Len(phrase)
                       THEN StartList(Top.part + 1, {"END-STRING"})
                       ELSE SetTop([Top EXCEPT !.part = @ + 1])
           /\ Consume(n)
    /\ UNCHANGED <<tokens, errs, pc>>

StringBodyEnd ==
    /\ At({"STRING"}, "end")
    /\ stack' = StoreList("clauses")
    /\ UNCHANGED <<tokens, pos, errs, pc>>

StringEnd ==
    /\ At({"STRING"}, "clauses")
    /\ Top.part = 2
    /\ Close(Node("STRING", Top.parts), "END-STRING")
    /\ UNCHANGED <<tokens, pc>>


----------------------------------------------------------------------------
(* The exception phrases of the HTTP verbs: part 1 is ON EXCEPTION, part 2   *)
(* NOT EXCEPTION behind it, or NOT ON EXCEPTION before it.                   *)

HttpOn ==
    /\ At(HttpVerbs, "clauses")
    /\ Token = "ON"
    /\ LET n == Matched(<<"ON", "EXCEPTION">>) IN
          /\ stack' = IF n = 2 THEN StartList(1, {"NOT", "END-HTTP"})
                      ELSE SetTop([Top EXCEPT !.at = "not"])
          /\ Consume(n)
    /\ UNCHANGED <<tokens, errs, pc>>

HttpNot ==
    /\ At(HttpVerbs, "not")
    /\ LET n == Matched(<<"NOT", "EXCEPTION">>)
           stop == IF Top.kind = "HTTP-RESPOND" THEN {"ON", "END-HTTP"} ELSE {"END-HTTP"}
       IN  /\ stack' = IF n = 2 THEN StartList(2, stop)
                       ELSE SetTop([Top EXCEPT !.at = "clauses"])
           /\ Consume(n)
    /\ UNCHANGED <<tokens, errs, pc>>

HttpNotFirst ==
    /\ At(HttpVerbs \ {"HTTP-GET"}, "clauses")
    /\ Token = "NOT"
    /\ LET n == Matched(<<"NOT", "ON", "EXCEPTION">>) IN
          /\ stack' = IF n = 3 THEN StartList(2, {"ON", "END-HTTP"}) ELSE stack
          /\ Consume(n)
    /\ UNCHANGED <<tokens, errs, pc>>

\* Mutant: both lists are stored as that of ON EXCEPTION.
HttpBodyEndOneList ==
    /\ At(HttpVerbs, "end")
    /\ stack' = SetTop([Top EXCEPT !.at = IF Top.part = 1 THEN "not" ELSE "clauses",
                                   !.parts[1] = Top.body])
    /\ UNCHANGED <<tokens, pos, errs, pc>>

\* Behind ON EXCEPTION a NOT may follow.
HttpBodyEnd ==
    /\ At(HttpVerbs, "end")
    /\ stack' = StoreList(IF Top.part = 1 THEN "not" ELSE "clauses")
    /\ UNCHANGED <<tokens, pos, errs, pc>>

\* Any other token ends the statement without END-HTTP.
HttpEnd ==
    /\ At(HttpVerbs, "clauses")
    /\ Token # "ON"
    /\ Token # "NOT" \/ Top.kind = "HTTP-GET"
    /\ stack' = AddTo(Pop, Node(Top.kind, Top.parts))
    /\ Consume(IF Token = "END-HTTP" THEN 1 ELSE 0)
    /\ UNCHANGED <<tokens, errs, pc>>

----------------------------------------------------------------------------
Paragraphs == ParagraphStart \/ ParagraphEnd \/ DivisionEnd \/ Junk

StatementList ==
    \/ ListEnd \/ SimpleStatement \/ DisplayStatement \/ BlockStart
    \/ UnexpectedToken \/ OtherTerminator \/ AfterStatement

BlockStep ==
    \/ IfElse \/ IfEnd \/ PerformEnd
    \/ EvaluateWhen \/ EvaluateBodyEnd \/ EvaluateSkip \/ EvaluateEnd
    \/ StringPhrase \/ StringBodyEnd \/ StringEnd
    \/ HttpOn \/ HttpNot \/ HttpNotFirst \/ HttpBodyEnd \/ HttpEnd

\* The compiler goes on with the program it got.
Done == pc = "done" /\ UNCHANGED vars

Next == Paragraphs \/ StatementList \/ BlockStep \/ Done

Spec == Init /\ [][Next]_vars

\* The parser is a sequential program.
FairSpec == Spec /\ WF_vars(Next)

----------------------------------------------------------------------------
\* What Parse returns.
Ast == stack[1].body

Kinds == {"DIVISION", "PARAGRAPH", "ANONYMOUS"} \cup Blocks

\* Every variable has its type, the parser never goes behind EOF, and the calls
\* are nested as in the code: the division calls a paragraph, which calls
\* statements, each of them from its loop over a list.
TypeOK ==
    /\ tokens \in Seq(Tokens)
    /\ pos \in 1..(Len(tokens) + 1)
    /\ errs \in Nat
    /\ pc \in {"parse", "junk", "done"}
    /\ stack # <<>>
    /\ \A i \in DOMAIN stack :
          /\ stack[i].kind \in Kinds
          /\ stack[i].at \in {"loop", "after", "end", "clauses", "not"}
          /\ stack[i].part \in 0..2
          /\ stack[i].stop \subseteq Tokens
          /\ i = 1 <=> stack[i].kind = "DIVISION"
          /\ i = 2 <=> stack[i].kind \in {"PARAGRAPH", "ANONYMOUS"}
          /\ i < Len(stack) => stack[i].at = IF i = 1 THEN "clauses" ELSE "loop"
    /\ pc # "parse" => Len(stack) = 1

\* What a call may still do before it takes a token or returns.
ListWork(at) == CASE at = "after" -> 3 [] at = "loop" -> 2 [] at = "end" -> 1
ParagraphWork(f) == ListWork(f.at) + IF f.kind = "ANONYMOUS" /\ f.body = <<>> THEN 0 ELSE 4
BlockWork(f) ==
    CASE f.at = "clauses" -> 8 - f.part
      [] f.at = "not" -> 9
      [] f.at \in {"loop", "after", "end"} -> 9 + ListWork(f.at)

\* All calls but the last one are at "loop".
CallWork ==
    CASE Len(stack) = 1 -> 4
      [] Len(stack) = 2 -> ParagraphWork(stack[2])
      [] Len(stack) > 2 -> ParagraphWork(stack[2]) + BlockWork(Top)
                           + (Len(stack) - 3) * (9 + ListWork("loop"))

PhaseWork == CASE pc = "parse" -> 5 [] pc = "junk" -> 1 [] pc = "done" -> 0

\* A token is worth more than all that can happen before the next one is taken.
Work == 12 * (Len(tokens) + 1 - pos) + PhaseWork + CallWork

\* Nothing the parser does brings it back to where it was: whatever the stream,
\* however it calls itself, and although it goes on after an error, it takes a
\* token, or comes nearer to taking one or to the end.  So the only loop without
\* an end is the one that waits for the terminator of another statement to go
\* away (OtherTerminator, which changes nothing).
Progress == [][Work' < Work]_vars

\* Every stream is parsed to its end.
ParserReturns == <>(pc = "done")
=============================================================================
