-------------------------- MODULE MCGeneratedCode --------------------------
(* Programs for GeneratedCode: statements nested in each other, in two      *)
(* paragraphs; a STOP RUN in a performed one; the kernel of the design.     *)
EXTENDS GeneratedCode

When(cond, body) == [cond |-> cond, body |-> body]

\* Every statement with one of the given lists in one place and something
\* simple, or nothing where a phrase may be missing, in the others.
StatementsWith(lists) ==
    LET simple == <<Act("simple")>>
        others == {<<>>, simple}
        pairs == (lists \X others) \cup ({simple} \X lists)
    IN   {If("if", p[1], p[2]) : p \in pairs}
    \cup {Until("until", a) : a \in lists}
    \cup {Varying("past", "start", "step", a) : a \in lists}
    \cup {Evaluate(<<When("when1", p[1]), When("when2", simple)>>, p[2]) : p \in pairs}
    \cup {Call("call", p[1], p[2]) : p \in pairs \cup (others \X lists) \cup {<<<<>>, <<>>>>}}

Lists == {<<Act("a")>>, <<Act("a"), Stop>>, <<Perform("SUB")>>}
         \cup {<<s, Act("b")>> : s \in StatementsWith({<<Act("inner")>>})}
         \cup {<<s>> : s \in StatementsWith({<<Perform("SUB")>>})}

Sub == [name |-> "SUB", body |-> <<Until("sub", <<If("subif", <<Act("x")>>, <<Act("y")>>)>>)>>]

Nested == {<<[name |-> "MAIN", body |-> <<s, Act("last"), Stop>>], Sub>> :
              s \in StatementsWith(Lists)}

\* SUB is performed and stops the run.
StopInSub ==
    {<<[name |-> "MAIN", body |-> <<Perform("SUB"), Act("a")>>],
       [name |-> "SUB", body |-> <<If("if", <<Stop>>, <<>>)>>]>>}

----------------------------------------------------------------------------
\* The statements of the programs, and how deep they are nested.
RECURSIVE Parts(_), DepthOf(_)
Parts(s) ==
    {s} \cup (IF s.op = "varying" THEN {VaryingLoop(s)} ELSE {})
        \cup UNION {UNION {Parts(list[i]) : i \in DOMAIN list} : list \in ListsOf(s)}
DepthOf(s) ==
    LET inner == UNION {{DepthOf(list[i]) : i \in DOMAIN list} : list \in ListsOf(s)}
    IN  IF inner = {} THEN 0 ELSE Max(inner) + 1

StatementsOf(programs) ==
    UNION {UNION {UNION {Parts(p[i].body[j]) : j \in DOMAIN p[i].body} : i \in DOMAIN p} : p \in programs}
MCStatements == StatementsOf(Nested \cup StopInSub)
MCDepth == [s \in MCStatements |-> DepthOf(s)]
=============================================================================
