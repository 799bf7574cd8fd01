--------------------------- MODULE RuntimeLinking ---------------------------
(***************************************************************************)
(* What the code that codegen.go generates for a list of statements refers *)
(* to, and how main.go decides whether the runtime is linked to it.        *)
(***************************************************************************)
EXTENDS TypeChecker, SequencesExt

----------------------------------------------------------------------------
(* codegen.go: expressions.                                                 *)

Picture(name) == IF name \in Names THEN items[Symbol(name)].pic.kind ELSE "none"

\* Only an item with a picture becomes a global: a group does not.
Globals == {name \in Names : Picture(name) # "none"}

\* Whatever is no PIC 9 item is compared as a string, a group, too.
IsStringExpr(e) == e.op = "STRING" \/ (e.op = "IDENTIFIER" /\ Picture(e.literal) # "9")
StringEquality(e) == e.op = "=" /\ (IsStringExpr(e.left) \/ IsStringExpr(e.right))

\* emitExprPtr: an operand in memory, null for an operator.
Pointed(e) == IF e.op = "IDENTIFIER" THEN {e.literal} ELSE {}

\* emitExpr: the items the value of e is computed from.
Loaded[e \in Expressions] ==
    IF e.op \in Leaves THEN Pointed(e)
    ELSE IF StringEquality(e) THEN Pointed(e.left) \cup Pointed(e.right)
    ELSE Loaded[e.left] \cup Loaded[e.right]

ComparesStrings[e \in Expressions] ==
    /\ e.op \notin Leaves
    /\ StringEquality(e) \/ ComparesStrings[e.left] \/ ComparesStrings[e.right]

----------------------------------------------------------------------------
(* codegen.go: statements.                                                  *)

\* The phrases whose expression is computed, whose expression is passed as a
\* pointer, and whose item is written.  Nothing is generated for COUNT IN, for
\* HEADERS of a request, or for MAPPING of HTTP-RESPOND.
LoadedPhrases == {"condition", "start", "by", "until", "result", "address", "byte"}
PointedPhrases == {"from", "item", "source", "delimited", "url", "sending", "body", "content"}
WrittenPhrases ==
    {"to", "accept", "initialize", "target", "varying", "into", "pointer", "word",
     "delimiter", "tallying", "giving", "status", "read"}

StringEvaluate(s) == s.kind = "evaluate" /\ IsStringExpr(s.exprs.subject)

\* MOVE of an operator, or of nothing, generates nothing.
Empty(s) == s.kind = "move" /\ s.exprs.from.op \notin Operands

\* The items a statement refers to, those in its lists left out.
References(s) ==
    IF Empty(s) THEN {}
    ELSE {s.names[p] : p \in DOMAIN s.names \cap WrittenPhrases}
         \cup (UNION {Loaded[s.exprs[p]] : p \in DOMAIN s.exprs \cap LoadedPhrases})
         \cup (UNION {Pointed(s.exprs[p]) : p \in DOMAIN s.exprs \cap PointedPhrases})
         \cup (UNION {IF StringEvaluate(s) THEN Pointed(s.exprs[p]) ELSE Loaded[s.exprs[p]] :
                         p \in DOMAIN s.exprs \cap {"subject", "when"}})

\* Local values whose name is fixed, not made up from a counter.
FixedNames(s) ==
    LET branches == \E i \in DOMAIN s.lists : s.lists[i] # <<>>
    IN  CASE s.kind = "move" /\ s.exprs.from.op = "IDENTIFIER" -> {"tmp"}
          [] s.kind \in {"perform-until", "perform-varying"} -> {"perf_done"}
          [] s.kind = "evaluate" -> {"cmp0"}
          [] s.kind \in {"string", "unstring"} /\ branches -> {"ovf"}
          [] s.kind \in HttpVerbs /\ branches -> {"is_ok"}
          [] OTHER -> {}

\* The functions of the runtime that a statement calls; STRING and UNSTRING are
\* code of their own for wasm.
RuntimeCalls(s, target) ==
    (IF s.kind \in HttpVerbs THEN {"http"} ELSE {})
    \cup (IF s.kind \in {"string", "unstring"} /\ target # "wasm" THEN {"string"} ELSE {})
    \cup (IF \/ \E p \in DOMAIN s.exprs \cap LoadedPhrases : ComparesStrings[s.exprs[p]]
             \/ StringEvaluate(s)
             \/ s.kind = "evaluate"
                   /\ (ComparesStrings[s.exprs.subject] \/ ComparesStrings[s.exprs.when])
          THEN {"picx_eq"} ELSE {})

\* A statement and those in its lists, one behind another.
Flattened[s \in Statements] ==
    <<s>> \o FlattenSeq([i \in DOMAIN s.lists |->
                 FlattenSeq([j \in DOMAIN s.lists[i] |-> Flattened[s.lists[i][j]]])])

AllStatements(list) == FlattenSeq([i \in DOMAIN list |-> Flattened[list[i]]])

\* Only the code for bare metal has the hardware at hand; codegen panics.
Generates(list, target) ==
    LET all == AllStatements(list)
    IN  \A i \in DOMAIN all : all[i].kind \in Hardware => target = "bare"

\* llc takes a text in which everything that is used is defined, and every
\* local value of a function once.  The functions of HTTP and STRING are not
\* declared on bare metal, and the delimiter of UNSTRING, unless it is SPACE,
\* gets a "%" too many.
Assembles(list, target) ==
    LET all == AllStatements(list)
    IN  /\ \A i \in DOMAIN all :
              /\ References(all[i]) \subseteq Globals
              /\ target = "bare" => RuntimeCalls(all[i], target) \subseteq {"picx_eq"}
              /\ ~(target = "hosted" /\ all[i].kind = "unstring" /\ "delimited" \in DOMAIN all[i].exprs)
        /\ \A i, j \in DOMAIN all :
              i # j => FixedNames(all[i]) \cap FixedNames(all[j]) = {}

----------------------------------------------------------------------------
(* main.go.                                                                 *)

\* Each walk over a program goes into the lists of all statements but those of
\* HTTP verbs, with which the runtime is linked anyway.
UsesHttp[s \in Statements] ==
    \/ s.kind \in HttpVerbs
    \/ s.kind \in WithLists /\ \E t \in Nested(s) : UsesHttp[t]

UsesString[s \in Statements] ==
    \/ s.kind \in {"string", "unstring"}
    \/ s.kind \in WithLists /\ \E t \in Nested(s) : UsesString[t]

\* A literal, or an item of level 1; the items of groups are not looked at.
IsStringField(e) ==
    \/ e.op = "STRING"
    \/ /\ e.op = "IDENTIFIER" /\ e.literal \in Names
       /\ Symbol(e.literal) \in Records /\ Picture(e.literal) = "x"

ExprUsesComparison[e \in Expressions] ==
    /\ e.op \notin Leaves
    /\ IF e.op = "=" THEN IsStringField(e.left) \/ IsStringField(e.right)
       ELSE ExprUsesComparison[e.left] \/ ExprUsesComparison[e.right]

\* The conditions of IF and the operands of EVALUATE.
Compares(s) ==
    \/ s.kind = "if" /\ ExprUsesComparison[s.exprs.condition]
    \/ s.kind = "evaluate" /\ (IsStringField(s.exprs.subject) \/ IsStringField(s.exprs.when))

\* Mutant: the list of ELSE is not looked at.
ComparesInFirstList(s, uses) ==
    \/ Compares(s)
    \/ s.kind \in WithLists /\ \E j \in DOMAIN s.lists[1] : uses[s.lists[1][j]]

ComparesInLists(s, uses) ==
    \/ Compares(s)
    \/ s.kind \in WithLists /\ \E t \in Nested(s) : uses[t]

UsesComparison[s \in Statements] == ComparesInLists(s, UsesComparison)

\* Whether libruntime is linked to a program for the host.
NeedsRuntime(list) ==
    \E i \in DOMAIN list :
        UsesHttp[list[i]] \/ UsesString[list[i]] \/ UsesComparison[list[i]]

\* Whether the linker finds what is called; bare metal is not linked here.
Links(list, target) ==
    LET all == AllStatements(list)
        calls == UNION {RuntimeCalls(all[i], target) : i \in DOMAIN all}
    IN  CASE target = "hosted" -> calls = {} \/ NeedsRuntime(list)
          [] target = "wasm" -> (\A i \in DOMAIN list : ~UsesHttp[list[i]]) /\ calls = {}
          [] target = "bare" -> TRUE
=============================================================================
