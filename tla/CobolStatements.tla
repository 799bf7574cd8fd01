-------------------------- MODULE CobolStatements --------------------------
(* The statements of a PROCEDURE DIVISION as far as control goes, and the    *)
(* events their execution is observed by.                                    *)
EXTENDS Naturals, Sequences

\* The statements.  An action stands for MOVE, COMPUTE, DISPLAY and the like;
\* a call for an HTTP verb, STRING or UNSTRING, with the lists for its failure
\* and its success.
Act(name) == [op |-> "act", name |-> name]
Stop == [op |-> "stop"]
Perform(name) == [op |-> "perform", name |-> name]
If(cond, then, else) == [op |-> "if", cond |-> cond, then |-> then, else |-> else]
Until(cond, body) == [op |-> "until", cond |-> cond, body |-> body]
Varying(cond, init, step, body) ==
    [op |-> "varying", cond |-> cond, init |-> init, step |-> step, body |-> body]
Evaluate(whens, other) == [op |-> "evaluate", whens |-> whens, other |-> other]
Call(name, failed, done) == [op |-> "call", name |-> name, failed |-> failed, done |-> done]

\* Statements with such lists of statements in them.
StatementsOver(lists) ==
         [op : {"act", "perform"}, name : STRING]
    \cup [op : {"stop"}]
    \cup [op : {"if"}, cond : STRING, then : lists, else : lists]
    \cup [op : {"until"}, cond : STRING, body : lists]
    \cup [op : {"varying"}, cond : STRING, init : STRING, step : STRING, body : lists]
    \cup [op : {"evaluate"}, whens : Seq([cond : STRING, body : lists]), other : lists]
    \cup [op : {"call"}, name : STRING, failed : lists, done : lists]

\* PERFORM VARYING is a loop that counts at the end of its body.
VaryingLoop(s) == Until(s.cond, Append(s.body, Act(s.step)))

\* The choice behind a call, if it has any phrase.
Phrases(s) ==
    IF s.failed = <<>> /\ s.done = <<>> THEN <<>>
    ELSE <<If("ok", s.done, s.failed)>>

Nothing == [event |-> "none"]
Done(name) == [event |-> "done", name |-> name]
Tested(cond, value) == [event |-> "tested", cond |-> cond, value |-> value]
=============================================================================
