--------------------------- MODULE GeneratedCode ---------------------------
(***************************************************************************)
(* The LLVM IR that src/codegen/codegen.go generates for the statements of  *)
(* the PROCEDURE DIVISION, as far as control goes: one function for each    *)
(* paragraph, in it labels, branches, calls and returns; and the execution  *)
(* of that code.  It implements SourceProgram.                              *)
(*                                                                         *)
(* An instruction has the statements that are to be executed from it to the *)
(* end of the paragraph as "rest"; the code does not depend on them.        *)
(***************************************************************************)
EXTENDS CobolStatements, SequencesExt

CONSTANTS
    Statements, \* those of the programs, those in their lists included
    Depth,      \* of a statement: more than that of any in its lists
    Programs,   \* sequences of paragraphs [name, body]
    MaxCalls    \* a bound on the functions under way

\* The lists of statements that are part of the code of a statement.
ListsOf(s) ==
    CASE s.op = "if" -> {s.then, s.else}
      [] s.op = "until" -> {s.body}
      [] s.op = "varying" -> {VaryingLoop(s).body}
      [] s.op = "evaluate" -> {s.whens[i].body : i \in DOMAIN s.whens} \cup {s.other}
      [] s.op = "call" -> {s.failed, s.done}
      [] OTHER -> {}

\* Statements are finite trees.  An EVALUATE without WHEN has the code of its
\* WHEN OTHER and stands for these statements.
ASSUME StatementsAssumption ==
    /\ Statements \subseteq StatementsOver(Seq(Statements))
    /\ Depth \in [Statements -> Nat]
    /\ \A s \in Statements :
          /\ \A list \in ListsOf(s) :
                list \in Seq(Statements) /\ \A i \in DOMAIN list : Depth[list[i]] < Depth[s]
          /\ s.op = "varying" => VaryingLoop(s) \in Statements
          /\ s.op = "evaluate" => s.whens # <<>>
ASSUME ProgramsAssumption ==
    \A p \in Programs : p \in Seq([name : STRING, body : Seq(Statements)]) /\ p # <<>>
ASSUME CallsAssumption == MaxCalls \in Nat \ {0}

VARIABLES
    program,    \* the source
    frames,     \* the functions under way: paragraph and next instruction
    out         \* the last thing that was done or tested

vars == <<program, frames, out>>

----------------------------------------------------------------------------
(* The instructions.                                                         *)

Do(name, rest) == [ins |-> "do", name |-> name, rest |-> rest]
Label(label, rest) == [ins |-> "label", label |-> label, rest |-> rest]
Br(label, rest) == [ins |-> "br", label |-> label, rest |-> rest]
CondBr(cond, yes, no, rest) ==
    [ins |-> "condbr", cond |-> cond, yes |-> yes, no |-> no, rest |-> rest]
CallTo(name, rest) == [ins |-> "call", name |-> name, rest |-> rest]
Ret(rest) == [ins |-> "ret", rest |-> rest]

\* nextLabel: the labels of two statements differ.  The number of a label is
\* given here by the place of its statement, a path in the paragraph.
NextLabel(kind, part, path) == <<kind, part, path>>

----------------------------------------------------------------------------
(* Generation: the code of a statement at a path, k is to be executed behind *)
(* it.  The code of the statements in its lists is taken from "emit".        *)

EmitStatements(list, path, k, emit) ==
    FlattenSeq([i \in DOMAIN list |->
        emit[<<list[i], Append(path, i), SubSeq(list, i + 1, Len(list)) \o k>>]])

\* The two branches of IF, HTTP verbs, STRING and UNSTRING, and where they
\* meet.
EmitBranches(kind, s, path, k, emit) ==
    LET yes == NextLabel(kind, "then", path)
        no == NextLabel(kind, "else", path)
        merge == NextLabel(kind, "end", path)
    IN  <<CondBr(s.cond, yes, no, <<s>> \o k), Label(yes, s.then \o k)>>
        \o EmitStatements(s.then, Append(path, 1), k, emit)
        \o <<Br(merge, k), Label(no, s.else \o k)>>
        \o EmitStatements(s.else, Append(path, 2), k, emit)
        \o <<Br(merge, k), Label(merge, k)>>

\* Mutant: the body falls through to the end of the loop.
EmitPerformUntilOnce(s, path, k, emit) ==
    LET again == <<s>> \o k
        cond == NextLabel("perf", "cond", path)
        body == NextLabel("perf", "body", path)
        end == NextLabel("perf", "end", path)
    IN  <<Br(cond, again), Label(cond, again), CondBr(s.cond, end, body, again),
          Label(body, s.body \o again)>>
        \o EmitStatements(s.body, Append(path, 1), again, emit)
        \o <<Br(end, again), Label(end, k)>>

EmitPerformUntil(s, path, k, emit) ==
    LET again == <<s>> \o k
        cond == NextLabel("perf", "cond", path)
        body == NextLabel("perf", "body", path)
        end == NextLabel("perf", "end", path)
    IN  <<Br(cond, again), Label(cond, again), CondBr(s.cond, end, body, again),
          Label(body, s.body \o again)>>
        \o EmitStatements(s.body, Append(path, 1), again, emit)
        \o <<Br(cond, again), Label(end, k)>>

\* The counter is initialised before the loop and stepped at the end of its
\* body.
EmitPerformVarying(s, path, k, emit) ==
    <<Do(s.init, <<s>> \o k)>> \o EmitPerformUntil(VaryingLoop(s), path, k, emit)

\* What is to be done of an EVALUATE from its i-th clause on.
WhensFrom(s, i) == Evaluate(SubSeq(s.whens, i, Len(s.whens)), s.other)

\* A clause of an EVALUATE.
EmitWhen(s, i, path, k, emit) ==
    LET when == s.whens[i]
        body == NextLabel("eval", "body", Append(path, i))
        next == NextLabel("eval", "next", Append(path, i))
    IN  <<CondBr(when.cond, body, next, <<WhensFrom(s, i)>> \o k), Label(body, when.body \o k)>>
        \o EmitStatements(when.body, Append(path, i), k, emit)
        \o <<Br(NextLabel("eval", "end", path), k), Label(next, <<WhensFrom(s, i + 1)>> \o k)>>

EmitEvaluate(s, path, k, emit) ==
    LET end == NextLabel("eval", "end", path)
    IN  FlattenSeq([i \in DOMAIN s.whens |-> EmitWhen(s, i, path, k, emit)])
        \o EmitStatements(s.other, Append(path, 0), k, emit)
        \o <<Br(end, k), Label(end, k)>>

\* The call of the runtime; the branch only if there is a phrase.
EmitCall(s, path, k, emit) ==
    LET phrases == Phrases(s)
    IN  <<Do(s.name, <<s>> \o k)>>
        \o IF phrases = <<>> THEN <<>> ELSE EmitBranches("http", phrases[1], path, k, emit)

\* A statement, whatever its op.
EmitOneStatement(s, path, k, emit) ==
    CASE s.op = "act" -> <<Do(s.name, <<s>> \o k)>>
      [] s.op = "stop" -> <<Ret(<<s>> \o k)>>
      [] s.op = "perform" -> <<CallTo(s.name, <<s>> \o k)>>
      [] s.op = "if" -> EmitBranches("if", s, path, k, emit)
      [] s.op = "until" -> EmitPerformUntil(s, path, k, emit)
      [] s.op = "varying" -> EmitPerformVarying(s, path, k, emit)
      [] s.op = "evaluate" -> EmitEvaluate(s, path, k, emit)
      [] s.op = "call" -> EmitCall(s, path, k, emit)

EmitStatement[at \in Statements \X Seq(Nat) \X Seq(Statements)] ==
    EmitOneStatement(at[1], at[2], at[3], EmitStatement)

\* Mutant: nothing returns at the end.
EmitParagraphOpen(paragraph) == EmitStatements(paragraph.body, <<>>, <<>>, EmitStatement)

\* Behind its last statement a paragraph returns; it does not fall through to
\* the next one.
EmitParagraph(paragraph) ==
    Append(EmitStatements(paragraph.body, <<>>, <<>>, EmitStatement), Ret(<<>>))

Codes == [p \in Programs |-> [i \in DOMAIN p |-> EmitParagraph(p[i])]]

----------------------------------------------------------------------------
(* Execution.                                                                *)

\* main calls the first paragraph.
Init ==
    /\ program \in Programs
    /\ frames = <<[para |-> 1, pc |-> 1]>>
    /\ out = Nothing

code == Codes[program]
Top == frames[Len(frames)]
Instr == code[Top.para][Top.pc]
Running(ins) == frames # <<>> /\ Instr.ins = ins

Goto(pc) == frames' = [frames EXCEPT ![Len(frames)].pc = pc]
JumpTo(label) ==
    \E pc \in DOMAIN code[Top.para] :
        /\ code[Top.para][pc].ins = "label" /\ code[Top.para][pc].label = label
        /\ Goto(pc)

DoStep ==
    /\ Running("do")
    /\ out' = Done(Instr.name)
    /\ Goto(Top.pc + 1)
    /\ UNCHANGED program

LabelStep ==
    /\ Running("label")
    /\ Goto(Top.pc + 1)
    /\ UNCHANGED <<program, out>>

BrStep ==
    /\ Running("br")
    /\ JumpTo(Instr.label)
    /\ UNCHANGED <<program, out>>

CondBrStep ==
    /\ Running("condbr")
    /\ \E b \in BOOLEAN :
          /\ out' = Tested(Instr.cond, b)
          /\ JumpTo(IF b THEN Instr.yes ELSE Instr.no)
    /\ UNCHANGED program

CallStep ==
    /\ Running("call")
    /\ Len(frames) < MaxCalls
    /\ \E i \in DOMAIN program :
          /\ program[i].name = Instr.name
          /\ frames' = Append([frames EXCEPT ![Len(frames)].pc = @ + 1],
                              [para |-> i, pc |-> 1])
    /\ UNCHANGED <<program, out>>

RetStep ==
    /\ Running("ret")
    /\ frames' = SubSeq(frames, 1, Len(frames) - 1)
    /\ UNCHANGED <<program, out>>

Next == DoStep \/ LabelStep \/ BrStep \/ CondBrStep \/ CallStep \/ RetStep

\* The processor executes the code.
Spec == Init /\ [][Next]_vars /\ WF_vars(Next)

----------------------------------------------------------------------------
\* Every variable has its type; a frame is at an instruction of its function.
TypeOK ==
    /\ program \in Programs
    /\ Len(frames) <= MaxCalls
    /\ \A i \in DOMAIN frames :
          frames[i].para \in DOMAIN code /\ frames[i].pc \in DOMAIN code[frames[i].para]
    /\ out.event \in {"none", "done", "tested"}

\* What the functions under way have still to execute, the last one called
\* first.
Todo ==
    FlattenSeq(Reverse([i \in DOMAIN frames |-> code[frames[i].para][frames[i].pc].rest]))

\* The generated code does what the statements say: the same actions and
\* tests in the same order with the same outcomes, to the end of the program
\* and no further; and it does not stay in its labels and branches for ever.
Source == INSTANCE SourceProgram WITH todo <- Todo
ImplementsSource == Source!Spec

\* STOP RUN ends the program.
StopRunStops ==
    [][Running("ret") /\ Instr.rest # <<>> => frames' = <<>>]_vars
=============================================================================
