-------------------------- MODULE ExpressionParser --------------------------
(***************************************************************************)
(* parseExpression of parser.go: recursive descent over the tokens.  What  *)
(* is read is a tree, the token behind it, and a number of errors.         *)
(***************************************************************************)
EXTENDS DataItems

\* The trees: literals and names, and an operator between two trees.  Nil is
\* what parsePrimary returns, without an error, when there is no operand.
Nil == [op |-> "nil"]
Leaf(kind, literal) == [op |-> kind, literal |-> literal]
Binary(op, left, right) == [op |-> op, left |-> left, right |-> right]

Operands == {"INTEGER", "STRING", "IDENTIFIER"}

\* The operators of parseComparison, parseAddSub and parseMulDiv.
OperatorsOf == <<{">", "<", "="}, {"+", "-"}, {"*", "/"}>>

\* The operator of the token at i, when its right operand ends before behind:
\* for ">" and "<" the literal of the last token of that operand decides.
BinaryOperator(i, behind) ==
    IF Type(i) = ">" /\ Literal(behind - 1) = <<">", "=">> THEN ">="
    ELSE IF Type(i) = "<" /\ Literal(behind - 1) = <<"<", "=">> THEN "<="
    ELSE Type(i)

\* A number, a string, a name, or an expression in parentheses, which "parsed"
\* reads.
Primary(i, parsed) ==
    IF Type(i) \in Operands
    THEN [next |-> i + 1, expr |-> Leaf(Type(i), Literal(i)), errs |-> 0]
    ELSE IF Type(i) = "("
    THEN LET inner == parsed[<<1, i + 1>>]
             close == Taken(inner.next, ")")
         IN  [next |-> inner.next + close, expr |-> inner.expr,
              errs |-> inner.errs + 1 - close]
    ELSE [next |-> i, expr |-> Nil, errs |-> 0]

\* What was read on the left, the operator behind it, and what follows.
Joined(left, right) ==
    [next |-> right.next,
     expr |-> Binary(BinaryOperator(left.next, right.next), left.expr, right.expr),
     errs |-> left.errs + right.errs]

\* Mutant: a chain of operators is read from the right.
ChainFromRight(level, first, parsed) ==
    IF Type(first.next) \notin OperatorsOf[level] THEN first
    ELSE Joined(first, parsed[<<level, first.next + 1>>])

\* The loop of a level goes round, if there is one more operator.
Round(level, left, parsed) ==
    IF Type(left.next) \notin OperatorsOf[level] THEN left
    ELSE Joined(left, parsed[<<level + 1, left.next + 1>>])

\* Operators of one level, from the left: the loop goes round once for each of
\* them, so no more often than there are tokens left.
Chain(level, first, parsed) ==
    LET rounds == Len(tokens) - first.next
        chain[n \in 0..rounds] ==
            IF n = 0 THEN first ELSE Round(level, chain[n - 1], parsed)
    IN  chain[rounds]

\* The levels of the operators, and that of the operands.
Levels == 1..(Len(OperatorsOf) + 1)

Parsed[from \in Levels \X (1..Len(tokens))] ==
    IF from[1] > Len(OperatorsOf) THEN Primary(from[2], Parsed)
    ELSE Chain(from[1], Parsed[<<from[1] + 1, from[2]>>], Parsed)

ParseExpression(i) == Parsed[<<1, i>>]

----------------------------------------------------------------------------
(* What the tokens from i to j mean, whatever way they are read.            *)

\* How many parentheses are open behind token k.
Open(i, k) == Cardinality({m \in i..k : Type(m) = "("}) - Cardinality({m \in i..k : Type(m) = ")"})

\* The operators of the level outside of all parentheses.
Outer(level, i, j) == {k \in i..j : Type(k) \in OperatorsOf[level] /\ Open(i, k) = 0}

Rightmost(S) == CHOOSE k \in S : \A m \in S : m <= k

\* The level of the operators that bind least, and the last one of them.
Loosest(i, j) ==
    CHOOSE l \in 1..3 : Outer(l, i, j) # {} /\ \A m \in 1..(l - 1) : Outer(m, i, j) = {}
Splitter(i, j) == Rightmost(Outer(Loosest(i, j), i, j))

\* That operator splits the tokens.  What is in parentheses means the same
\* without them.
Meaning[span \in (1..(Len(tokens) + 1)) \X (0..Len(tokens))] ==
    LET i == span[1]
        j == span[2]
        k == Splitter(i, j)
    IN  IF \E level \in 1..3 : Outer(level, i, j) # {}
        THEN Binary(Type(k), Meaning[<<i, k - 1>>], Meaning[<<k + 1, j>>])
        ELSE IF i >= j THEN Leaf(Type(i), Literal(i))
        ELSE Meaning[<<i + 1, j - 1>>]

\* Operands and operators take turns, and parentheses are closed.
Operators == UNION {OperatorsOf[level] : level \in 1..3}
Complete(i, j) ==
    /\ i <= j
    /\ \A k \in i..j :
          /\ Type(k) \in Operands \cup Operators \cup {"(", ")"}
          /\ Open(i, k) >= 0
          /\ (Type(k) \in Operands \cup {")"}) = (k = j \/ Type(k + 1) \in Operators \cup {")"})
          /\ (Type(k) \in Operands \cup {"("}) = (k = i \/ Type(k - 1) \in Operators \cup {"("})
    /\ Open(i, j) = 0
=============================================================================
