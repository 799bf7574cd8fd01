--------------------------- MODULE SourceProgram ---------------------------
(***************************************************************************)
(* What the statements of a PROCEDURE DIVISION do, as the programs under   *)
(* src/examples expect it: the statements still to be executed, one at a    *)
(* time.  The values of fields are abstracted away: a condition may be true *)
(* or false whenever it is tested.                                          *)
(***************************************************************************)
EXTENDS CobolStatements

CONSTANT Programs       \* sequences of paragraphs [name, body]

VARIABLES
    program,    \* the one that runs
    todo,       \* statements to be executed
    out         \* the last thing that was done or tested

vars == <<program, todo, out>>

Init ==
    /\ program \in Programs
    /\ todo = program[1].body
    /\ out = Nothing

Is(op) == todo # <<>> /\ Head(todo).op = op
Then(list) == todo' = list \o Tail(todo)

Acts ==
    /\ Is("act")
    /\ out' = Done(Head(todo).name)
    /\ Then(<<>>)
    /\ UNCHANGED program

Stops ==
    /\ Is("stop")
    /\ todo' = <<>>
    /\ UNCHANGED <<program, out>>

Performs ==
    /\ Is("perform")
    /\ \E i \in DOMAIN program :
          program[i].name = Head(todo).name /\ Then(program[i].body)
    /\ UNCHANGED <<program, out>>

Chooses ==
    /\ Is("if")
    /\ \E b \in BOOLEAN :
          /\ out' = Tested(Head(todo).cond, b)
          /\ Then(IF b THEN Head(todo).then ELSE Head(todo).else)
    /\ UNCHANGED program

Loops ==
    /\ Is("until")
    /\ \E b \in BOOLEAN :
          /\ out' = Tested(Head(todo).cond, b)
          /\ Then(IF b THEN <<>> ELSE Append(Head(todo).body, Head(todo)))
    /\ UNCHANGED program

Counts ==
    /\ Is("varying")
    /\ out' = Done(Head(todo).init)
    /\ Then(<<VaryingLoop(Head(todo))>>)
    /\ UNCHANGED program

Evaluates ==
    /\ Is("evaluate")
    /\ LET s == Head(todo) IN
          \/ /\ s.whens = <<>>
             /\ Then(s.other)
             /\ UNCHANGED out
          \/ /\ s.whens # <<>>
             /\ \E b \in BOOLEAN :
                   /\ out' = Tested(Head(s.whens).cond, b)
                   /\ Then(IF b THEN Head(s.whens).body
                           ELSE <<Evaluate(Tail(s.whens), s.other)>>)
    /\ UNCHANGED program

Calls ==
    /\ Is("call")
    /\ out' = Done(Head(todo).name)
    /\ Then(Phrases(Head(todo)))
    /\ UNCHANGED program

Next ==
    \/ Acts \/ Stops \/ Performs \/ Chooses \/ Loops \/ Counts
    \/ Evaluates \/ Calls

\* The program goes on as long as it has something to do.
Spec == Init /\ [][Next]_vars /\ WF_vars(Next)
=============================================================================
