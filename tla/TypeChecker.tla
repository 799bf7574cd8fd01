---------------------------- MODULE TypeChecker ----------------------------
(***************************************************************************)
(* typeck.go: whether a program whose items are arranged is accepted.      *)
(*                                                                         *)
(* A statement has a kind, expressions and names, each for a phrase of it, *)
(* and lists of statements.  Of a phrase that can be repeated (the items   *)
(* of DISPLAY, the WHENs of EVALUATE) there is one.                        *)
(***************************************************************************)
EXTENDS ExpressionParser

CONSTANTS
    Expressions,    \* those of the programs, with all their operands
    Statements,     \* those of the programs, with all that are nested in them
    Height          \* how deep an expression or a statement is

Statement(kind, exprs, names, lists) ==
    [kind |-> kind, exprs |-> exprs, names |-> names, lists |-> lists]

HttpCalls == {"http-get", "http-post", "http-put", "http-patch", "http-delete"}
Hardware == {"peek", "poke", "port-in", "port-out"}
HttpVerbs == HttpCalls \cup {"http-listen", "http-respond"}

\* The other statements that have lists, and that the walks of main.go enter.
WithLists == {"perform-until", "perform-varying", "if", "evaluate", "string", "unstring"}

\* The statements in the lists of s.
Nested(s) == UNION {{s.lists[i][j] : j \in DOMAIN s.lists[i]} : i \in DOMAIN s.lists}

Leaves == Operands \cup {"nil"}

\* Expressions and statements are finite trees.
ASSUME TreesAssumption ==
    /\ \A e \in Expressions :
          /\ Height[e] \in Nat
          /\ e.op \notin Leaves =>
                /\ e.left \in Expressions /\ Height[e.left] < Height[e]
                /\ e.right \in Expressions /\ Height[e.right] < Height[e]
    /\ \A s \in Statements :
          /\ Height[s] \in Nat
          /\ \A p \in DOMAIN s.exprs : s.exprs[p] \in Expressions
          /\ s.lists \in Seq(Seq(Statements))
          /\ \A t \in Nested(s) : Height[t] < Height[s]

\* The phrases that ast.go gives to each kind of statement, as far as the walks
\* over them rely on it.
ASSUME PhrasesAssumption ==
    \A s \in Statements :
        /\ s.lists # <<>> => s.kind \in WithLists \cup HttpVerbs
        /\ "read" \in DOMAIN s.names => s.kind \in Hardware
        /\ s.kind = "move" => "from" \in DOMAIN s.exprs /\ "to" \in DOMAIN s.names
        /\ s.kind = "if" => "condition" \in DOMAIN s.exprs
        /\ s.kind = "evaluate" => {"subject", "when"} \subseteq DOMAIN s.exprs

----------------------------------------------------------------------------
(* The symbol table.                                                        *)

Children(i) == {j \in DOMAIN parent : parent[j] = i}

\* An item is found if it is in a record of level 1.
InRecord[i \in Int] == i > Root /\ (Level(i) = 1 \/ InRecord[parent[i]])
Declared == {i \in DOMAIN parent : InRecord[i]}

Names == {items[i].name : i \in Declared}
Duplicates == \E i, j \in Declared : i # j /\ items[i].name = items[j].name
Symbol(name) == CHOOSE i \in Declared : items[i].name = name

ItemType(i) ==
    CASE Children(i) # {} -> "group"
      [] Children(i) = {} /\ items[i].pic.kind = "9" ->
            IF items[i].pic.comp THEN "comp" ELSE "numeric"
      [] Children(i) = {} /\ items[i].pic.kind # "9" -> "alphanumeric"

ItemSize(i) == IF Children(i) = {} THEN items[i].pic.size ELSE 0

TypeOf(name) == IF name \in Names THEN ItemType(Symbol(name)) ELSE "none"

----------------------------------------------------------------------------
(* Expressions.                                                             *)

NamesIn[e \in Expressions] ==
    IF e.op = "IDENTIFIER" THEN {e.literal}
    ELSE IF e.op \in Leaves THEN {}
    ELSE NamesIn[e.left] \cup NamesIn[e.right]

ExprType[e \in Expressions] ==
    CASE e.op = "STRING" -> "alphanumeric"
      [] e.op = "INTEGER" -> "numeric"
      [] e.op = "IDENTIFIER" -> TypeOf(e.literal)
      [] e.op = "nil" -> "none"
      [] e.op \notin Leaves ->
            IF "none" \in {ExprType[e.left], ExprType[e.right]} THEN "none" ELSE "numeric"

ExprSize(e) ==
    CASE e.op = "STRING" -> Len(e.literal)
      [] e.op = "IDENTIFIER" /\ e.literal \in Names -> ItemSize(Symbol(e.literal))
      [] OTHER -> 0

\* Arithmetic is not done with alphanumeric operands.
ArithmeticOk[e \in Expressions] ==
    e.op \notin Leaves =>
        /\ ArithmeticOk[e.left] /\ ArithmeticOk[e.right]
        /\ e.op \in {"+", "-", "*", "/"} /\ ExprType[e] # "none" =>
              "alphanumeric" \notin {ExprType[e.left], ExprType[e.right]}

ExprOk(e) == NamesIn[e] \subseteq Names /\ ArithmeticOk[e]

----------------------------------------------------------------------------
(* Statements.                                                              *)

Types == {"alphanumeric", "numeric", "comp", "group"}

\* The types an item may have in a phrase.  The other phrases are not looked
\* up: the paragraph of a PERFORM, and HEADERS of HTTP-LISTEN.
Accepts == [
    to |-> Types, accept |-> Types, initialize |-> Types, giving |-> Types, headers |-> Types,
    count |-> {"numeric", "comp"}, tallying |-> {"numeric", "comp"},
    target |-> {"numeric", "comp"}, varying |-> Types \ {"alphanumeric"},
    into |-> {"alphanumeric"}, pointer |-> {"comp"},
    word |-> {"alphanumeric", "numeric"}, delimiter |-> {"alphanumeric"},
    mapping |-> {"group"}, status |-> {"comp"}]

\* The expressions that nobody checks: what a request SENDs, and the source of
\* a MOVE, of which only the names and the type are looked at.
Unchecked(kind) ==
    IF kind \in HttpCalls THEN {"sending"}
    ELSE IF kind = "move" THEN {"from"}
    ELSE {}

\* An alphanumeric or numeric item takes anything but a group, and nothing that
\* is more than twice as long.
MoveOk(from, to) ==
    /\ NamesIn[from] \subseteq Names
    /\ TypeOf(to) # "group" /\ ExprType[from] # "none" =>
          /\ ExprType[from] # "group"
          /\ ExprSize(from) > 0 /\ ItemSize(Symbol(to)) > 0 =>
                ExprSize(from) <= 2 * ItemSize(Symbol(to))

\* GIVING, or SENDING, and MAPPING exclude each other.
HttpOk(s) ==
    CASE s.kind \in {"http-get", "http-delete"} -> ~({"giving", "mapping"} \subseteq DOMAIN s.names)
      [] s.kind \in {"http-post", "http-put", "http-patch"} ->
            ~("sending" \in DOMAIN s.exprs /\ "mapping" \in DOMAIN s.names)
      [] OTHER -> TRUE

\* What the check of a statement says of its own phrases.
PhrasesOk(s) ==
    /\ \A phrase \in DOMAIN s.names \cap DOMAIN Accepts :
          TypeOf(s.names[phrase]) \in Accepts[phrase]
    /\ \A phrase \in DOMAIN s.exprs \ Unchecked(s.kind) : ExprOk(s.exprs[phrase])
    /\ s.kind = "move" => MoveOk(s.exprs.from, s.names.to)
    /\ HttpOk(s)

\* Mutant: only the first list of a statement is checked.
CheckFirstList(s, ok) ==
    \/ s.kind \in {"perform-until"} \cup Hardware
    \/ /\ PhrasesOk(s)
       /\ s.lists = <<>> \/ \A j \in DOMAIN s.lists[1] : ok[s.lists[1][j]]

\* Nobody looks at PERFORM UNTIL, neither at its condition nor at its
\* statements, nor at PEEK, POKE and the ports.
CheckStatement(s, ok) ==
    \/ s.kind \in {"perform-until"} \cup Hardware
    \/ PhrasesOk(s) /\ \A t \in Nested(s) : ok[t]

StatementOk[s \in Statements] == CheckStatement(s, StatementOk)

Check(statements) ==
    /\ ~Duplicates
    /\ \A i \in DOMAIN statements : StatementOk[statements[i]]
=============================================================================
