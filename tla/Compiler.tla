------------------------------ MODULE Compiler ------------------------------
(***************************************************************************)
(* main.go: the phases of a compilation, from the characters of a program  *)
(* to an executable.                                                       *)
(*                                                                         *)
(* The text is the WORKING-STORAGE of a program and, behind its items, the *)
(* condition of an IF, if there is one: headers of divisions are left out, *)
(* and how statements are read is the matter of StatementParser.  Bodies   *)
(* gives the statements of the one paragraph, around that condition.       *)
(***************************************************************************)
EXTENDS RuntimeLinking

CONSTANT Bodies(_, _)   \* lists of statements for a text and its condition

VARIABLES
    phase,
    condition,      \* what was parsed: [next, expr, errs]
    program,        \* the statements of the paragraph
    target          \* what is built: "hosted", "wasm" or "bare"

compilerVars == <<lexVars, hierarchyVars, at, inItem, dataErrs, phase, condition, program, target>>

Targets == {"hosted", "wasm", "bare"}
NoCondition == [next |-> 1, expr |-> Nil, errs |-> 0]

Init ==
    /\ LexInit /\ StartItems /\ StartHierarchy
    /\ phase = "lex"
    /\ condition = NoCondition
    /\ program = <<>>
    /\ target = "none"

Tokenize ==
    /\ phase = "lex"
    /\ LexNext
    /\ phase' = IF mode' = "done" THEN "items" ELSE "lex"
    /\ UNCHANGED <<hierarchyVars, at, inItem, dataErrs, condition, program, target>>

ParseItems ==
    /\ phase = "items"
    /\ \/ ItemStep /\ UNCHANGED phase
       \/ /\ ItemsEnd
          /\ phase' = "hierarchy"
          /\ UNCHANGED <<items, at, inItem, dataErrs>>
       \/ InvalidLevel /\ phase' = "hierarchy"
    /\ UNCHANGED <<lexVars, next, stack, parent, condition, program, target>>

BuildHierarchy ==
    /\ phase = "hierarchy"
    /\ HierarchyNext
    /\ UNCHANGED <<lexVars, at, inItem, dataErrs, phase, condition, program, target>>

\* The errors of all divisions are counted together at the end.
ParseProcedure ==
    /\ phase = "hierarchy" /\ next > Len(items)
    /\ condition' = IF Type(at) = "IF" THEN ParseExpression(at + 1) ELSE NoCondition
    /\ program' \in Bodies(text, condition'.expr) \cap Seq(Statements)
    /\ phase' = IF dataErrs + condition'.errs > 0 THEN "rejected" ELSE "parsed"
    /\ UNCHANGED <<lexVars, hierarchyVars, at, inItem, dataErrs, target>>

CheckTypes ==
    /\ phase = "parsed"
    /\ phase' = IF Check(program) THEN "accepted" ELSE "rejected"
    /\ UNCHANGED <<lexVars, hierarchyVars, at, inItem, dataErrs, condition, program, target>>

\* The text for llc, and llc itself.
Generate ==
    /\ phase = "accepted"
    /\ target' \in Targets
    /\ phase' = IF ~Generates(program, target') THEN "panicked"
                ELSE IF ~Assembles(program, target') THEN "not assembled"
                ELSE "assembled"
    /\ UNCHANGED <<lexVars, hierarchyVars, at, inItem, dataErrs, condition, program>>

Link ==
    /\ phase = "assembled"
    /\ phase' = IF Links(program, target) THEN "built" ELSE "not linked"
    /\ UNCHANGED <<lexVars, hierarchyVars, at, inItem, dataErrs, condition, program, target>>

Next ==
    \/ Tokenize \/ ParseItems \/ BuildHierarchy \/ ParseProcedure
    \/ CheckTypes \/ Generate \/ Link

Spec == Init /\ [][Next]_compilerVars

----------------------------------------------------------------------------
\* Types and ranges of the variables that the phases add to those of the lexer:
\* the parser never goes behind EOF.
TypeOK ==
    /\ phase \in {"lex", "items", "hierarchy", "parsed", "rejected", "accepted", "panicked",
                  "not assembled", "assembled", "not linked", "built"}
    /\ target \in Targets \cup {"none"}
    /\ inItem \in BOOLEAN /\ dataErrs \in 0..(2 * at)
    /\ phase # "lex" => at \in 1..Len(tokens) /\ condition.next \in 1..Len(tokens)
    /\ Len(parent) <= Len(items) /\ Len(items) <= Len(tokens)

Parsed1 == phase \notin {"lex", "items", "hierarchy"}
Accepted == Parsed1 /\ phase \notin {"parsed", "rejected"}

\* The condition stands from token at + 1 to the token before EOF.
ConditionEnd == Len(tokens) - 1

\* A condition that is put together from operands, operators and parentheses
\* as it should be is read to its end, without an error, as the tree that the
\* precedences of the operators and the parentheses give it.  The operators
\* ">=", "<=" and "<>" are left out: the parser looks at the token before the
\* next one, when the operand is behind it already, and reads ">" and "<".
ExpressionExact ==
    Parsed1 /\ Type(at) = "IF" /\ Complete(at + 1, ConditionEnd) =>
        \/ \E k \in (at + 1)..ConditionEnd :
              Literal(k) \in {<<">", "=">>, <<"<", "=">>, <<"<", ">">>}
        \/ /\ condition.expr = Meaning[<<at + 1, ConditionEnd>>]
           /\ condition.next = ConditionEnd + 1
           /\ condition.errs = 0

\* Statements that the checker comes to.
Visited[s \in Statements] ==
    IF s.kind \in {"perform-until"} \cup Hardware THEN {}
    ELSE {s} \cup UNION {Visited[t] : t \in Nested(s)}

\* What SENDING refers to is not looked up.
Sent(s) == IF "sending" \in DOMAIN s.exprs THEN NamesIn[s.exprs.sending] ELSE {}

\* The code of an accepted program refers to declared items only, in every
\* phrase and however deep the statement is nested: the checker and the code
\* generator each go over the statements on their own, and for an item that is
\* unknown to codegen llc rejects the program, with a message about a global
\* that the programmer never wrote.  (PERFORM UNTIL, the hardware and SENDING
\* are not looked at, and a group has no global: AcceptedAssembles.)
AcceptedResolves ==
    Accepted =>
        \A i \in DOMAIN program : \A s \in Visited[program[i]] :
            References(s) \ Sent(s) \subseteq Names

\* An accepted program gets past llc.
AcceptedAssembles == phase # "not assembled"

ComparesLiteral(s) ==
    \/ s.kind = "if" /\ s.exprs.condition.op = "="
          /\ "STRING" \in {s.exprs.condition.left.op, s.exprs.condition.right.op}
    \/ StringEvaluate(s) /\ s.exprs.when.op = "STRING"

\* A program that has an HTTP verb, STRING or UNSTRING, or an IF or EVALUATE
\* that compares with a literal, is linked with the runtime, in whatever lists
\* the statement stands: main.go decides it by three walks of its own.  (It
\* overlooks the comparisons of PERFORM and COMPUTE, and of two items of groups.)
CallsAreLinked ==
    phase = "not linked" /\ target = "hosted" =>
        \A i \in DOMAIN AllStatements(program) :
            LET s == AllStatements(program)[i]
            IN  RuntimeCalls(s, target) \subseteq {"picx_eq"} /\ ~ComparesLiteral(s)
=============================================================================
