----------------------------- MODULE MCCompiler -----------------------------
(* Texts that bring out every phase, in families. *)
EXTENDS Compiler

MCNewline == "newline"
MCLetters == {"A", "B", "C", "D", "E", "F", "G", "I", "L", "M", "N", "O", "P", "R", "S",
              "T", "U", "V", "X", "a", "x"}
MCDigits == {"0", "1", "2", "3", "9"}
MCHexDigits == MCDigits \cup {"A", "a"}
MCUpper == [c \in MCLetters \cup MCDigits \cup {"-"} |->
               IF c = "a" THEN "A" ELSE IF c = "x" THEN "X" ELSE c]
MCChars == MCLetters \cup MCDigits \cup Special \cup {MCNewline, "?"}

IfWord == <<"I", "F">>
PicWord == <<"P", "I", "C">>
CompWord == <<"C", "O", "M", "P">>
OccursWord == <<"O", "C", "C", "U", "R", "S">>
TimesWord == <<"T", "I", "M", "E", "S">>
ValueWord == <<"V", "A", "L", "U", "E">>
MCKeywords ==
    IfWord :> "IF" @@ PicWord :> "PIC" @@ CompWord :> "COMP" @@ OccursWord :> "OCCURS"
    @@ TimesWord :> "TIMES" @@ ValueWord :> "VALUE"

\* Numbers of up to two digits; more are too large.
MCMaxInt == 99
Value(d) == CASE d = "0" -> 0 [] d = "1" -> 1 [] d = "2" -> 2 [] d = "3" -> 3 [] d = "9" -> 9
MCNumeral ==
    [s \in UNION {[1..n -> MCDigits] : n \in 1..2} |->
        IF Len(s) = 1 THEN Value(s[1]) ELSE 10 * Value(s[1]) + Value(s[2])]

Strings(S, n) == UNION {[1..k -> S] : k \in 0..n}

----------------------------------------------------------------------------
\* Behind a word that ends WORKING-STORAGE: comments, strings, hexadecimal
\* numbers, ends of lines, and characters that no token begins with.
Marginal == {"A", "0", "x", "-", "*", ">", "=", "'", "\"", "newline", "?"}
LexicalTexts == {<<"B", " ">> \o s : s \in Strings(Marginal, 4)} \cup Strings({"B", "-"}, 2)

\* Every condition of five tokens, and some of six.
ConditionTexts ==
    {IfWord \o <<" ">> \o s :
        s \in Strings({"A", "(", ")", "+", "*", "="}, 5) \cup Strings({"A", ">", "=", " "}, 4)
              \cup [1..6 -> {"A", "+", "="}]}

\* Every sequence of up to four level numbers.
ItemNames == <<"A", "B", "C", "D">>
LevelTexts ==
    {FlattenSeq([i \in DOMAIN levels |-> <<levels[i], " ", ItemNames[i], ".">>]) :
        levels \in Strings({"0", "1", "2", "3"}, 4)}

\* Clauses of an item in every order.
Pieces == {<<" ", "X">>, <<" ", "9">>, <<"(">>, <<" ", "2">>, <<")">>, <<" ">> \o CompWord,
           <<" ">> \o ValueWord, <<" ">> \o OccursWord, <<" ">> \o TimesWord, <<"'", "a", "'">>,
           <<".">>, <<" ">> \o PicWord}
PictureTexts ==
    {<<"1", " ", "A", " ">> \o PicWord \o FlattenSeq(s) :
        s \in Strings(Pieces, 3) \cup {<<<<" ", c>>, <<"(">>, <<"2">>, <<")">>, p>> :
                                          c \in {"X", "9"}, p \in Pieces}
                             \cup {<<<<" ", "X">>, <<"(", "9", "9", "9", ")">>>>}}

\* Level numbers that are too large.
LargeTexts ==
    {<<"1", " ", "A">> \o s \o <<"2", " ", "B", ".">> : s \in {<<".", "9", "9", "9", " ", "C", ".">>, <<" ", "9", "9", "9", ".">>}}

----------------------------------------------------------------------------
\* A PIC X, a PIC 9 COMP and a PIC 9 item, a group with two items, and an item
\* without a picture.
Item(level, name, clauses) == <<level, " ", name>> \o clauses \o <<".">>
Pic(c) == <<" ">> \o PicWord \o <<" ", c>>
Data ==
    Item("1", "A", Pic("X") \o <<"(", "3", ")">>)
    \o Item("1", "N", Pic("9") \o <<" ">> \o CompWord)
    \o Item("1", "M", Pic("9"))
    \o Item("1", "G", <<>>) \o Item("2", "C", Pic("X")) \o Item("2", "D", Pic("9"))
    \o Item("1", "E", <<>>)

Conditions ==
    {<<"N", "=", "1">>, <<"A", "=", "'", "a", "'">>, <<"C", "=", "'", "a", "'">>,
     <<"A", "=", "C">>, <<"C", "=", "C">>, <<"U", "=", "1">>,
     <<"(", "A", "=", "'", "a", "'", ")", "=", "1">>, <<"A", "+", "1", "=", "N">>}
ProgramTexts == {Data \o IfWord \o <<" ">> \o c : c \in Conditions}

\* Statements, U is not declared.
Name(n) == Leaf("IDENTIFIER", <<n>>)
Text == Leaf("STRING", <<"a">>)
Number == Leaf("INTEGER", <<"1">>)
None == <<>>        \* no phrases, no lists
Alone(kind, exprs, names) == Statement(kind, exprs, names, <<>>)

Moves ==
    {Alone("move", [from |-> e], [to |-> <<n>>]) :
        e \in {Text, Number, Name("A"), Name("G"), Name("U"), Binary("+", Number, Name("N")), Nil,
               Leaf("STRING", <<"a", "a", "a", "a">>)},
        n \in {"A", "N", "C", "G", "U"}}
Computes ==
    {Alone("compute", [result |-> e], [target |-> <<n>>]) :
        e \in {Number, Name("A"), Binary("+", Name("A"), Number), Binary("=", Name("C"), Text)},
        n \in {"A", "N", "D", "G", "U"}}
Displays == {Alone("display", [item |-> e], None) : e \in {Text, Name("C"), Name("E"), Name("U")}}
Items1(kind) == {Alone(kind, None, kind :> <<n>>) : n \in {"A", "N", "G", "E", "U"}}

Strings1 ==
    {Statement("string", [source |-> e, delimited |-> Text], [into |-> <<n>>, pointer |-> <<p>>], <<>>) :
        e \in {Name("A"), Name("U")}, n \in {"A", "N", "U"}, p \in {"N", "M", "U"}}
Unstrings ==
    {Statement("unstring", [source |-> Name("A")], [word |-> <<n>>, tallying |-> <<p>>], <<>>) :
        n \in {"C", "M", "N", "U"}, p \in {"N", "A", "U"}}
    \cup {Alone("unstring", [source |-> Name("A"), delimited |-> Text],
                [word |-> <<"C">>, delimiter |-> <<n>>, count |-> <<"N">>]) : n \in {"C", "N"}}

Calls ==
    {Alone("http-get", [url |-> e], names) :
        e \in {Text, Name("U")},
        names \in {None, [giving |-> <<"A">>], [giving |-> <<"U">>], [mapping |-> <<"G">>],
                   [mapping |-> <<"A">>], [giving |-> <<"A">>, mapping |-> <<"G">>],
                   [status |-> <<"N">>], [status |-> <<"M">>], [headers |-> <<"U">>]}}
    \cup {Alone("http-post", [url |-> Text, sending |-> e], names) :
        e \in {Text, Name("A"), Name("U")}, names \in {None, [mapping |-> <<"G">>]}}
    \cup {Alone("http-listen", None, names) :
        names \in {None, [mapping |-> <<"G">>, listed |-> <<"U">>], [status |-> <<"U">>]}}
    \cup {Alone("http-respond", [body |-> e, content |-> Text], names) :
        e \in {Name("C"), Name("U")}, names \in {None, [headers |-> <<"G">>]}}

Others ==
    {Alone("stop-run", None, None),
     Alone("peek", [address |-> Name("U")], [read |-> <<"U">>]),
     Alone("peek", [address |-> Number], [read |-> <<"N">>]),
     Alone("port-out", [address |-> Number, byte |-> Name("N")], None)}

Simple ==
    Moves \cup Computes \cup Displays \cup Items1("accept") \cup Items1("initialize")
    \cup Strings1 \cup Unstrings \cup Calls \cup Others

\* A statement in each list that a statement can have, n tells which.
Lists == 1..8
Around(n, cond, list) ==
    CASE n = 1 -> Statement("if", [condition |-> cond], None, <<list, <<>>>>)
      [] n = 2 -> Statement("if", [condition |-> cond], None, <<<<>>, list>>)
      [] n = 3 -> Statement("evaluate", [subject |-> Name("A"), when |-> Text], None, <<list, <<>>>>)
      [] n = 4 -> Statement("evaluate", [subject |-> Name("N"), when |-> Number], None, <<<<>>, list>>)
      [] n = 5 -> Statement("perform-until", [until |-> cond], None, <<list>>)
      [] n = 6 -> Statement("perform-varying", [start |-> Number, by |-> Number, until |-> cond],
                            [varying |-> <<"N">>], <<list>>)
      [] n = 7 -> Statement("string", [source |-> Text], [into |-> <<"A">>], <<<<>>, list>>)
      [] n = 8 -> Statement("http-get", [url |-> Text], None, <<<<>>, list>>)

\* What the conditions are read as.
ConditionTrees ==
    {Binary("=", Name("N"), Number), Binary("=", Name("A"), Text), Binary("=", Name("C"), Text),
     Binary("=", Name("A"), Name("C")), Binary("=", Name("C"), Name("C")),
     Binary("=", Name("U"), Number), Binary("=", Binary("=", Name("A"), Text), Number),
     Binary("=", Binary("+", Name("A"), Number), Name("N"))}

MCBodies(t, cond) ==
    IF t \notin ProgramTexts THEN {<<>>}
    ELSE {<<s>> : s \in Simple}
         \cup {<<Around(n, cond, <<s>>)>> : n \in Lists, s \in Simple}
         \cup {<<Around(n, cond, <<Around(m, cond, <<>>)>>)>> : n \in Lists, m \in Lists}
         \cup {<<Alone("move", [from |-> Name("C")], [to |-> <<"A">>]), s>> : s \in Moves}

\* Two statements that are allowed by themselves.
TwoMoves ==
    <<Alone("move", [from |-> Name("M")], [to |-> <<"N">>]),
      Alone("move", [from |-> Name("N")], [to |-> <<"D">>])>>
MovesOfItems(t, cond) == {TwoMoves}

Programs ==
    Simple \cup Range(TwoMoves)
    \cup {Around(n, cond, <<>>) : n \in Lists, cond \in ConditionTrees}
    \cup {Around(n, cond, <<s>>) : n \in Lists, cond \in ConditionTrees, s \in Simple}
    \cup {Around(n, cond, <<Around(m, cond, <<>>)>>) :
              n \in Lists, m \in Lists, cond \in ConditionTrees}

ConditionOperands == UNION {{e.left, e.right} : e \in {f \in ConditionTrees : f.op \notin Leaves}}
AllExpressions ==
    ConditionTrees \cup ConditionOperands \cup {Text, Number, Name("A"), Name("N")}
    \cup UNION {Range(s.exprs) : s \in Simple \cup Range(TwoMoves)}

RECURSIVE HeightOf(_)
HeightOf(e) == IF e.op \in Leaves THEN 0 ELSE 1 + Max({HeightOf(e.left), HeightOf(e.right)})

RECURSIVE Nesting(_)
Nesting(s) == IF Nested(s) = {} THEN 0 ELSE 1 + Max({Nesting(t) : t \in Nested(s)})

Heights ==
    [e \in AllExpressions |-> HeightOf(e)] @@ [s \in Programs |-> Nesting(s)]

\* (TLC computes the value of a constant each time, that of a definition once.)
MCStatements == Programs
MCExpressions == AllExpressions
MCHeight == Heights

MCTexts == LexicalTexts \cup ConditionTexts \cup LevelTexts \cup PictureTexts \cup LargeTexts \cup ProgramTexts
=============================================================================
