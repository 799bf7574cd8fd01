------------------------ MODULE GeneratedCodeProofs ------------------------
(***************************************************************************)
(* The generated code does what the statements say, for all programs.      *)
(***************************************************************************)
EXTENDS GeneratedCode, NaturalLemmas, SequenceTheorems, TLAPS

----------------------------------------------------------------------------
(* What the instructions are, and what makes a piece of code right.          *)

\* What a list of statements consists of while it is executed: statements,
\* what is left of an EVALUATE, and the choice behind a call.
Steps ==
    Statements
    \cup {WhensFrom(s, i) : s \in {t \in Statements : t.op = "evaluate"}, i \in Nat \ {0}}
    \cup {If("ok", s.done, s.failed) : s \in {t \in Statements : t.op = "call"}}
Kinds == {"if", "http", "perf", "eval"}
Parts == {"then", "else", "end", "cond", "body", "next"}
Labels == Kinds \X Parts \X Seq(Nat)
Conditions == STRING \cup {"ok"}
Instructions ==
         [ins : {"do", "call"}, name : STRING, rest : Seq(Steps)]
    \cup [ins : {"label", "br"}, label : Labels, rest : Seq(Steps)]
    \cup [ins : {"condbr"}, cond : Conditions, yes : Labels, no : Labels, rest : Seq(Steps)]
    \cup [ins : {"ret"}, rest : Seq(Steps)]
Code == Seq(Instructions)

\* What is to be executed behind a condition that is b.
Condition(s) == IF s.op = "evaluate" THEN Head(s.whens).cond ELSE s.cond
Outcome(list, b) ==
    LET s == Head(list) IN
    CASE s.op = "if" -> (IF b THEN s.then ELSE s.else) \o Tail(list)
      [] s.op = "until" -> (IF b THEN <<>> ELSE Append(s.body, s)) \o Tail(list)
      [] OTHER -> (IF b THEN Head(s.whens).body
                   ELSE <<Evaluate(Tail(s.whens), s.other)>>) \o Tail(list)

\* An instruction is at the statement it belongs to.
AtItsStatement(c) ==
    /\ c.ins = "condbr" =>
          /\ c.rest # <<>> /\ c.cond = Condition(Head(c.rest))
          /\ Head(c.rest).op \in {"if", "until", "evaluate"}
          /\ Head(c.rest).op = "evaluate" => Head(c.rest).whens # <<>>
    /\ c.ins = "ret" => c.rest = <<>> \/ Head(c.rest).op = "stop"

\* What is to be executed behind an instruction follows from its statement.
FallsTo(c, next) ==
    LET s == Head(c.rest)
        others == Tail(c.rest)
    IN
    /\ c.ins = "do" =>
          /\ c.rest # <<>>
          /\ \/ s.op = "act" /\ c.name = s.name /\ next = others
             \/ s.op = "varying" /\ c.name = s.init /\ next = <<VaryingLoop(s)>> \o others
             \/ s.op = "call" /\ c.name = s.name /\ next = Phrases(s) \o others
    /\ c.ins = "label" =>
          \/ next = c.rest
          \/ c.rest # <<>> /\ s.op = "evaluate" /\ s.whens = <<>> /\ next = s.other \o others
    /\ c.ins = "call" =>
          c.rest # <<>> /\ s.op = "perform" /\ c.name = s.name /\ next = others

\* In a piece of code each instruction is at its statement and followed by
\* the right one, z being executed behind the piece.
Entry(c, z) == IF c = <<>> THEN z ELSE c[1].rest
After(c, i, z) == IF i < Len(c) THEN c[i + 1].rest ELSE z
Flows(c, z) == \A i \in DOMAIN c : AtItsStatement(c[i]) /\ FallsTo(c[i], After(c, i, z))

\* Its labels, each with what is to be executed from it.
Places(c) == {<<c[i].label, c[i].rest>> : i \in {j \in DOMAIN c : c[j].ins = "label"}}
LabelsOf(c) == {c[i].label : i \in {j \in DOMAIN c : c[j].ins = "label"}}
UniqueLabels(c) ==
    \A i, j \in DOMAIN c :
        c[i].ins = "label" /\ c[j].ins = "label" /\ c[i].label = c[j].label => i = j

\* The labels it branches to, each with what is to be executed from there.
TargetsOf(c) ==
         (IF c.ins = "br" THEN {<<c.label, c.rest>>} ELSE {})
    \cup (IF c.ins = "condbr" THEN {<<c.yes, Outcome(c.rest, TRUE)>>, <<c.no, Outcome(c.rest, FALSE)>>}
          ELSE {})
Targets(c) == UNION {TargetsOf(c[i]) : i \in DOMAIN c}

\* Code for entry, with k behind it, that has no other labels than these.
Block(c, entry, k, labels, places, targets) ==
    /\ c \in Code
    /\ Flows(c, k) /\ Entry(c, k) = entry
    /\ UniqueLabels(c) /\ LabelsOf(c) \subseteq labels
    /\ Places(c) = places /\ Targets(c) = targets

\* One piece behind another, and pieces that the code consists of.
Cat(c, d) == c \o d
BrLabel(to, k, l, r) == <<Br(to, k), Label(l, r)>>
CondBrLabel(cond, yes, no, list, l, r) == <<CondBr(cond, yes, no, list), Label(l, r)>>

LEMMA Join ==
  ASSUME NEW c, NEW d, NEW e, NEW m, NEW z,
         NEW P, NEW Q, NEW Pc, NEW Pd, NEW Tc, NEW Td,
         Block(c, e, m, P, Pc, Tc), Block(d, m, z, Q, Pd, Td), P \cap Q = {}
  PROVE  Block(Cat(c, d), e, z, P \cup Q, Pc \cup Pd, Tc \cup Td)
<1> DEFINE b == c \o d
<1>0. c \in Code /\ d \in Code
  BY DEF Block
<1>1. /\ b \in Code /\ Len(b) = Len(c) + Len(d) /\ Len(c) \in Nat /\ Len(d) \in Nat
      /\ DOMAIN b = 1..(Len(c) + Len(d)) /\ DOMAIN c = 1..Len(c) /\ DOMAIN d = 1..Len(d)
      /\ \A i \in 1..(Len(c) + Len(d)) : b[i] = IF i <= Len(c) THEN c[i] ELSE d[i - Len(c)]
  BY <1>0, ConcatProperties, LenProperties DEF Code
<1> HIDE DEF b
<1>2. /\ \A i \in DOMAIN c : i \in DOMAIN b /\ b[i] = c[i]
      /\ \A i \in DOMAIN d : i + Len(c) \in DOMAIN b /\ b[i + Len(c)] = d[i]
  BY <1>1
<1>3. ASSUME NEW i \in DOMAIN b
      PROVE  \/ i \in DOMAIN c
             \/ i - Len(c) \in DOMAIN d /\ (i - Len(c)) + Len(c) = i
  BY <1>1
<1>4. c = <<>> <=> Len(c) = 0
  BY <1>0 DEF Code
<1>5. d = <<>> <=> Len(d) = 0
  BY <1>0 DEF Code
<1>6. b = <<>> <=> Len(b) = 0
  BY <1>1 DEF Code
<1>7. Entry(b, z) = e
  <2>1. Entry(c, m) = e /\ Entry(d, z) = m
    BY DEF Block
  <2>2. CASE Len(c) = 0
    <3>1. CASE Len(d) = 0
      BY <1>1, <1>4, <1>5, <1>6, <2>1, <2>2, <3>1 DEF Entry
    <3>2. CASE Len(d) # 0
      <4>1. b[1] = d[1] /\ Len(b) # 0
        BY <1>1, <2>2, <3>2
      <4> QED
        BY <1>4, <1>5, <1>6, <2>1, <2>2, <3>2, <4>1 DEF Entry
    <3> QED
      BY <3>1, <3>2
  <2>3. CASE Len(c) # 0
    <3>1. b[1] = c[1] /\ Len(b) # 0
      BY <1>1, <2>3
    <3> QED
      BY <1>4, <1>6, <2>1, <2>3, <3>1 DEF Entry
  <2> QED
    BY <2>2, <2>3
<1>8. ASSUME NEW i \in DOMAIN c
      PROVE  After(b, i, z) = After(c, i, m)
  <2>1. Entry(d, z) = m
    BY DEF Block
  <2>2. CASE i < Len(c)
    BY <1>1, <2>2 DEF After
  <2>3. CASE i = Len(c) /\ Len(d) = 0
    BY <1>1, <1>5, <2>1, <2>3 DEF After, Entry
  <2>4. CASE i = Len(c) /\ Len(d) # 0
    <3>1. b[i + 1] = d[1]
      BY <1>1, <2>4
    <3> QED
      BY <1>1, <1>5, <2>1, <2>4, <3>1 DEF After, Entry
  <2> QED
    BY <1>1, <2>2, <2>3, <2>4
<1>9. ASSUME NEW i \in DOMAIN d
      PROVE  After(b, i + Len(c), z) = After(d, i, z)
  <2>1. CASE i < Len(d)
    <3>1. i + 1 \in DOMAIN d /\ (i + 1) + Len(c) = (i + Len(c)) + 1
      BY <1>1, <2>1
    <3>2. b[(i + Len(c)) + 1] = d[i + 1]
      BY <1>2, <3>1
    <3> QED
      BY <1>1, <2>1, <3>2 DEF After
  <2>2. CASE ~(i < Len(d))
    BY <1>1, <2>2 DEF After
  <2> QED
    BY <2>1, <2>2
<1>10. Flows(b, z)
  <2> SUFFICES ASSUME NEW i \in DOMAIN b
               PROVE  AtItsStatement(b[i]) /\ FallsTo(b[i], After(b, i, z))
    BY DEF Flows
  <2>1. CASE i \in DOMAIN c
    <3>1. Flows(c, m)
      BY DEF Block
    <3> QED
      BY <1>2, <1>8, <2>1, <3>1 DEF Flows
  <2>2. CASE i - Len(c) \in DOMAIN d /\ (i - Len(c)) + Len(c) = i
    <3>1. Flows(d, z)
      BY DEF Block
    <3> DEFINE j == i - Len(c)
    <3>2. j \in DOMAIN d /\ j + Len(c) = i
      BY <2>2
    <3> HIDE DEF j
    <3> QED
      BY <1>2, <1>9, <3>1, <3>2 DEF Flows
  <2> QED
    BY <1>3, <2>1, <2>2
<1>11. UniqueLabels(b)
  <2> SUFFICES ASSUME NEW i \in DOMAIN b, NEW j \in DOMAIN b,
                      b[i].ins = "label", b[j].ins = "label", b[i].label = b[j].label
               PROVE  i = j
    BY DEF UniqueLabels
  <2>1. ASSUME NEW n \in DOMAIN c, b[n].ins = "label"
        PROVE  b[n].label \in P
    BY <1>2, <2>1 DEF Block, LabelsOf
  <2>2. ASSUME NEW n \in DOMAIN d, b[n + Len(c)].ins = "label"
        PROVE  b[n + Len(c)].label \in Q
    BY <1>2, <2>2 DEF Block, LabelsOf
  <2>3. UniqueLabels(c) /\ UniqueLabels(d)
    BY DEF Block
  <2> DEFINE x == i - Len(c)
             y == j - Len(c)
  <2>4. \/ i \in DOMAIN c
        \/ x \in DOMAIN d /\ x + Len(c) = i
    BY <1>3
  <2>5. \/ j \in DOMAIN c
        \/ y \in DOMAIN d /\ y + Len(c) = j
    BY <1>3
  <2> HIDE DEF x, y
  <2>6. CASE i \in DOMAIN c /\ j \in DOMAIN c
    BY <1>2, <2>3, <2>6 DEF UniqueLabels
  <2>7. CASE i \in DOMAIN c /\ y \in DOMAIN d /\ y + Len(c) = j
    BY <2>1, <2>2, <2>7
  <2>8. CASE j \in DOMAIN c /\ x \in DOMAIN d /\ x + Len(c) = i
    BY <2>1, <2>2, <2>8
  <2>9. CASE x \in DOMAIN d /\ x + Len(c) = i /\ y \in DOMAIN d /\ y + Len(c) = j
    <3>1. x = y
      BY <1>2, <2>3, <2>9 DEF UniqueLabels
    <3> QED
      BY <2>9, <3>1
  <2> QED
    BY <2>4, <2>5, <2>6, <2>7, <2>8, <2>9
<1>12. Places(b) = Pc \cup Pd /\ LabelsOf(b) = LabelsOf(c) \cup LabelsOf(d)
  <2>1. Places(b) = Places(c) \cup Places(d) /\ LabelsOf(b) = LabelsOf(c) \cup LabelsOf(d)
    BY <1>2, <1>3 DEF Places, LabelsOf
  <2> QED
    BY <2>1 DEF Block
<1>13. Targets(b) = Tc \cup Td
  <2>1. Targets(b) = Targets(c) \cup Targets(d)
    BY <1>2, <1>3 DEF Targets
  <2> QED
    BY <2>1 DEF Block
<1>14. LabelsOf(b) \subseteq P \cup Q
  BY <1>12 DEF Block
<1> QED
  BY <1>1, <1>7, <1>10, <1>11, <1>12, <1>13, <1>14 DEF b, Cat, Block

\* No code.
LEMMA NoCode ==
  ASSUME NEW z
  PROVE  Block(<<>>, z, z, {}, {}, {})
<1>1. <<>> \in Code /\ DOMAIN <<>> = {}
  BY DEF Code
<1> QED
  BY <1>1 DEF Block, Flows, Entry, UniqueLabels, LabelsOf, Places, Targets

\* One instruction.
LEMMA OneInstruction ==
  ASSUME NEW a \in Instructions, NEW z, a.ins \in {"do", "call", "ret"},
         AtItsStatement(a), FallsTo(a, z)
  PROVE  Block(<<a>>, a.rest, z, {}, {}, {})
<1> DEFINE c == <<a>>
<1>1. c \in Code /\ Len(c) = 1 /\ DOMAIN c = {1} /\ c[1] = a /\ c # <<>>
  BY DEF Code
<1> HIDE DEF c
<1>2. After(c, 1, z) = z
  BY <1>1 DEF After
<1>3. a.ins # "label" /\ a.ins # "br" /\ a.ins # "condbr"
  OBVIOUS
<1>4. Flows(c, z) /\ Entry(c, z) = a.rest
  BY <1>1, <1>2, Zenon DEF Flows, Entry
<1>5. UniqueLabels(c) /\ LabelsOf(c) = {} /\ Places(c) = {}
  BY <1>1, <1>3, Zenon DEF UniqueLabels, LabelsOf, Places
<1>6. TargetsOf(a) = {}
  BY <1>3 DEF TargetsOf
<1>7. Targets(c) = {}
  BY <1>1, <1>6 DEF Targets
<1> QED
  BY <1>1, <1>4, <1>5, <1>7 DEF Block, c

\* A branch and the label behind it.
LEMMA BranchAndLabel ==
  ASSUME NEW a \in Instructions, a.ins \in {"br", "condbr"}, AtItsStatement(a),
         NEW l \in Labels, NEW r \in Seq(Steps), NEW z, FallsTo(Label(l, r), z)
  PROVE  Block(<<a, Label(l, r)>>, a.rest, z, {l}, {<<l, r>>}, TargetsOf(a))
<1> DEFINE b == Label(l, r)
           c == <<a, b>>
<1>1. b \in Instructions /\ b.ins = "label" /\ b.label = l /\ b.rest = r
  BY DEF Label, Instructions
<1>2. FallsTo(b, z)
  OBVIOUS
<1> HIDE DEF b
<1>3. c \in Code /\ Len(c) = 2 /\ DOMAIN c = {1, 2} /\ c[1] = a /\ c[2] = b /\ c # <<>>
  BY <1>1 DEF Code
<1> HIDE DEF c
<1>4. After(c, 1, z) = r /\ After(c, 2, z) = z
  BY <1>1, <1>3 DEF After
<1>5. a.ins # "label" /\ a.ins # "do" /\ a.ins # "call"
  OBVIOUS
<1>6. FallsTo(a, r)
  BY <1>5, Zenon DEF FallsTo
<1>7. AtItsStatement(b)
  BY <1>1 DEF AtItsStatement
<1>8. Flows(c, z) /\ Entry(c, z) = a.rest
  BY <1>2, <1>3, <1>4, <1>6, <1>7, Zenon DEF Flows, Entry
<1>9. UniqueLabels(c) /\ LabelsOf(c) = {l} /\ Places(c) = {<<l, r>>}
  BY <1>1, <1>3, <1>5 DEF UniqueLabels, LabelsOf, Places
<1>10. TargetsOf(b) = {}
  BY <1>1 DEF TargetsOf
<1>11. Targets(c) = TargetsOf(a)
  BY <1>3, <1>10 DEF Targets
<1> QED
  BY <1>3, <1>8, <1>9, <1>11 DEF Block, c, b

\* The same for the branches as they are generated.
LEMMA BrAndLabel ==
  ASSUME NEW to \in Labels, NEW k \in Seq(Steps),
         NEW l \in Labels, NEW r \in Seq(Steps), NEW z, FallsTo(Label(l, r), z)
  PROVE  Block(BrLabel(to, k, l, r), k, z, {l}, {<<l, r>>}, {<<to, k>>})
<1> DEFINE a == Br(to, k)
<1>1. a \in Instructions /\ a.ins = "br" /\ a.label = to /\ a.rest = k
  BY DEF Br, Instructions
<1> HIDE DEF a
<1>2. AtItsStatement(a) /\ TargetsOf(a) = {<<to, k>>} /\ a.ins \in {"br", "condbr"}
  BY <1>1 DEF AtItsStatement, TargetsOf
<1>3. Block(<<a, Label(l, r)>>, a.rest, z, {l}, {<<l, r>>}, TargetsOf(a))
  BY <1>1, <1>2, BranchAndLabel
<1> QED
  BY <1>1, <1>2, <1>3 DEF a, BrLabel

LEMMA CondBrAndLabel ==
  ASSUME NEW s, NEW list \in Seq(Steps), list # <<>>, Head(list) = s,
         s.op \in {"if", "until", "evaluate"}, s.op = "evaluate" => s.whens # <<>>,
         NEW cond \in Conditions, cond = Condition(s),
         NEW yes \in Labels, NEW no \in Labels,
         NEW l \in Labels, NEW r \in Seq(Steps), NEW z, FallsTo(Label(l, r), z)
  PROVE  Block(CondBrLabel(cond, yes, no, list, l, r), list, z, {l}, {<<l, r>>},
               {<<yes, Outcome(list, TRUE)>>, <<no, Outcome(list, FALSE)>>})
<1> DEFINE a == CondBr(cond, yes, no, list)
<1>1. /\ a \in Instructions /\ a.ins = "condbr" /\ a.cond = cond
      /\ a.yes = yes /\ a.no = no /\ a.rest = list
  BY DEF CondBr, Instructions
<1> HIDE DEF a
<1>2. AtItsStatement(a) /\ a.ins \in {"br", "condbr"}
  BY <1>1 DEF AtItsStatement
<1>3. TargetsOf(a) = {<<yes, Outcome(list, TRUE)>>, <<no, Outcome(list, FALSE)>>}
  BY <1>1 DEF TargetsOf
<1>4. Block(<<a, Label(l, r)>>, a.rest, z, {l}, {<<l, r>>}, TargetsOf(a))
  BY <1>1, <1>2, BranchAndLabel
<1> QED
  BY <1>1, <1>3, <1>4 DEF a, CondBrLabel

LEMMA LabelFalls ==
  \A l, r : FallsTo(Label(l, r), r)
  BY DEF FallsTo, Label

\* Several pieces, ks being what is to be executed between them.
Upto(f, n) == UNION {f[i] : i \in 1..n}

LEMMA FlattenedBlocks ==
  ASSUME NEW ss \in Seq(Code), NEW ks, NEW P, NEW Ps, NEW Ts,
         \A i \in 1..Len(ss) : Block(ss[i], ks[i - 1], ks[i], P[i], Ps[i], Ts[i]),
         \A i, j \in 1..Len(ss) : i # j => P[i] \cap P[j] = {}
  PROVE  Block(FlattenSeq(ss), ks[0], ks[Len(ss)],
               Upto(P, Len(ss)), Upto(Ps, Len(ss)), Upto(Ts, Len(ss)))
<1>0. Len(ss) \in Nat
  OBVIOUS
<1>1. PICK flat : IsFlattening(flat, ss, Instructions)
  BY Flattening DEF Code
<1> DEFINE Joined(n) == Block(flat[n], ks[0], ks[n], Upto(P, n), Upto(Ps, n), Upto(Ts, n))
           T == {n \in Nat : n <= Len(ss) => Joined(n)}
<1>2. 0 \in T
  <2>1. flat[0] = <<>> /\ \A f : Upto(f, 0) = {}
    BY <1>1 DEF IsFlattening, Upto
  <2>2. Joined(0)
    BY <2>1, NoCode, Zenon
  <2> QED
    BY <2>2
<1>3. ASSUME NEW n \in Nat, n \in T
      PROVE  n + 1 \in T
  <2> SUFFICES ASSUME n + 1 <= Len(ss)
               PROVE  Joined(n + 1)
    OBVIOUS
  <2>1. Joined(n)
    BY <1>0, <1>3
  <2>2. /\ n + 1 \in 1..Len(ss) /\ (n + 1) - 1 = n
        /\ \A i \in 1..n : i \in 1..Len(ss) /\ i # n + 1
        /\ 1..(n + 1) = (1..n) \cup {n + 1}
    BY <1>0
  <2>3. flat[n + 1] = Cat(flat[n], ss[n + 1])
    BY <1>1, <2>2 DEF IsFlattening, Cat
  <2>4. Block(ss[n + 1], ks[n], ks[n + 1], P[n + 1], Ps[n + 1], Ts[n + 1])
    <3>1. Block(ss[n + 1], ks[(n + 1) - 1], ks[n + 1], P[n + 1], Ps[n + 1], Ts[n + 1])
      BY <2>2, Zenon
    <3> QED
      BY <2>2, <3>1, Zenon
  <2>5. Upto(P, n) \cap P[n + 1] = {}
    BY <2>2 DEF Upto
  <2>6. \A f : Upto(f, n + 1) = Upto(f, n) \cup f[n + 1]
    BY <2>2 DEF Upto
  <2>7. Block(Cat(flat[n], ss[n + 1]), ks[0], ks[n + 1], Upto(P, n) \cup P[n + 1],
              Upto(Ps, n) \cup Ps[n + 1], Upto(Ts, n) \cup Ts[n + 1])
    BY <2>1, <2>4, <2>5, Join, Zenon
  <2> QED
    BY <2>3, <2>6, <2>7, Zenon
<1>4. Len(ss) \in T
  <2> HIDE DEF T
  <2> QED
    BY <1>0, <1>2, <1>3, Induction
<1>5. Joined(Len(ss)) /\ FlattenSeq(ss) = flat[Len(ss)]
  BY <1>0, <1>1, <1>4 DEF IsFlattening
<1> QED
  BY <1>5

----------------------------------------------------------------------------
(* The labels of a statement have its path, or one behind it.                *)

From(path) ==
    {l \in Labels : Len(path) <= Len(l[3]) /\ \A i \in 1..Len(path) : l[3][i] = path[i]}
Behind(path) == {l \in From(path) : Len(path) < Len(l[3])}

\* Paths that go on differently have different labels behind them.
LEMMA PathsSeparate ==
  ASSUME NEW path \in Seq(Nat), NEW m \in Nat, NEW n \in Nat
  PROVE  /\ Append(path, m) \in Seq(Nat)
         /\ From(Append(path, m)) \subseteq Behind(path)
         /\ Behind(Append(path, m)) \subseteq From(Append(path, m))
         /\ m # n => From(Append(path, m)) \cap From(Append(path, n)) = {}
<1> DEFINE p == Append(path, m)
           q == Append(path, n)
<1>1. /\ p \in Seq(Nat) /\ Len(p) = Len(path) + 1 /\ p[Len(path) + 1] = m
      /\ \A i \in 1..Len(path) : p[i] = path[i]
      /\ Len(q) = Len(path) + 1 /\ q[Len(path) + 1] = n
      /\ Len(path) \in Nat
  BY AppendProperties, LenProperties
<1> HIDE DEF p, q
<1>2. ASSUME NEW l \in From(p)
      PROVE  l \in Behind(path)
  <2>1. l \in Labels /\ Len(l[3]) \in Nat
    BY DEF From, Labels
  <2>2. Len(p) <= Len(l[3]) /\ \A i \in 1..Len(p) : l[3][i] = p[i]
    BY DEF From
  <2>3. Len(path) < Len(l[3])
    BY <1>1, <2>1, <2>2
  <2>4. \A i \in 1..Len(path) : i \in 1..Len(p)
    BY <1>1
  <2>5. \A i \in 1..Len(path) : l[3][i] = path[i]
    BY <1>1, <2>2, <2>4
  <2> QED
    BY <1>1, <2>1, <2>3, <2>5 DEF From, Behind
<1>3. ASSUME m # n, NEW l \in From(p), l \in From(q)
      PROVE  FALSE
  <2>1. Len(path) + 1 \in 1..Len(p) /\ Len(path) + 1 \in 1..Len(q)
    BY <1>1
  <2>2. l[3][Len(path) + 1] = m /\ l[3][Len(path) + 1] = n
    BY <1>1, <1>3, <2>1, Zenon DEF From
  <2> QED
    BY <1>3, <2>2
<1>4. Behind(p) \subseteq From(p)
  BY DEF Behind
<1> QED
  BY <1>1, <1>2, <1>3, <1>4 DEF p, q

\* The labels of the statement itself.
IsOwnLabel(l, path) == l \in Labels /\ l \in From(path) /\ l \notin Behind(path)

LEMMA OwnLabel ==
  ASSUME NEW kind \in Kinds, NEW part \in Parts, NEW path \in Seq(Nat)
  PROVE  IsOwnLabel(NextLabel(kind, part, path), path)
<1> DEFINE l == NextLabel(kind, part, path)
<1>1. l \in Labels /\ l[3] = path
  BY DEF NextLabel, Labels
<1>2. Len(path) \in Nat
  OBVIOUS
<1> HIDE DEF l
<1>3. l \in From(path)
  BY <1>1, <1>2 DEF From
<1>4. l \notin Behind(path)
  BY <1>1, <1>2 DEF Behind
<1> QED
  BY <1>1, <1>3, <1>4 DEF IsOwnLabel, l

----------------------------------------------------------------------------
(* The code of lists of statements.                                          *)

Associative(a, b, c) == (a \o b) \o c = a \o (b \o c)

LEMMA Regroup ==
  \A a, b, c \in Seq(Steps) : Associative(a, b, c)
  BY ConcatAssociative DEF Associative

LEMMA StatementsAreSteps ==
  Statements \subseteq Steps /\ \A list \in Seq(Statements) : list \in Seq(Steps)
<1>1. Statements \subseteq Steps
  BY DEF Steps
<1> QED
  BY <1>1

\* Code for a list or a statement: entry is to be executed, k behind it; it
\* branches to labels of its own.
Right(c, entry, k, labels) ==
    Block(c, entry, k, labels, Places(c), Targets(c)) /\ Targets(c) \subseteq Places(c)

RightFor(s, emit) ==
    \A path \in Seq(Nat), k \in Seq(Statements) :
        Right(emit[<<s, path, k>>], <<s>> \o k, k, From(path))

LEMMA ListCode ==
  ASSUME NEW emit, NEW list \in Seq(Statements), NEW path \in Seq(Nat), NEW k \in Seq(Statements),
         \A i \in DOMAIN list : RightFor(list[i], emit)
  PROVE  Right(EmitStatements(list, path, k, emit), list \o k, k, Behind(path))
<1> DEFINE n == Len(list)
           rest(i) == SubSeq(list, i + 1, n) \o k
           ss == [i \in DOMAIN list |-> emit[list[i], Append(path, i), rest(i)]]
           ks == [i \in 0..n |-> rest(i)]
           P == [i \in 1..n |-> From(Append(path, i))]
           Ps == [i \in 1..n |-> Places(ss[i])]
           Ts == [i \in 1..n |-> Targets(ss[i])]
<1>1. n \in Nat /\ DOMAIN list = 1..n /\ \A i \in 1..n : list[i] \in Statements
  OBVIOUS
<1>2. ASSUME NEW i \in 0..n
      PROVE  SubSeq(list, i + 1, n) \in Seq(Statements) /\ rest(i) \in Seq(Statements)
  <2>1. \A j \in (i + 1)..n : list[j] \in Statements
    BY <1>1
  <2>2. SubSeq(list, i + 1, n) \in Seq(Statements)
    <3> HIDE DEF n
    <3> QED
      BY <1>1, <2>1, SubSeqProperties
  <2> QED
    BY <2>2
<1>3. \A i \in 0..n : ks[i] = rest(i)
  BY Zenon
<1>4. ASSUME NEW i \in 1..n
      PROVE  Right(ss[i], <<list[i]>> \o rest(i), rest(i), P[i])
  <2>1. i \in 0..n /\ Append(path, i) \in Seq(Nat)
    BY <1>1
  <2>2. rest(i) \in Seq(Statements) /\ RightFor(list[i], emit)
    BY <1>1, <1>2, <2>1
  <2>3. ss[i] = emit[<<list[i], Append(path, i), rest(i)>>] /\ P[i] = From(Append(path, i))
    BY <1>1, Zenon
  <2> HIDE DEF rest, ss, P
  <2> QED
    BY <2>1, <2>2, <2>3, Zenon DEF RightFor
<1>5. ASSUME NEW i \in 1..n
      PROVE  <<list[i]>> \o rest(i) = rest(i - 1)
  <2>1. i \in 0..n /\ i - 1 \in 0..n /\ (i - 1) + 1 = i /\ i \in 1..Len(list) /\ Len(list) \in i..Len(list)
    BY <1>1
  <2>2. SubSeq(list, i, n) = <<list[i]>> \o SubSeq(list, i + 1, n)
    BY <2>1, SubSeqRecursiveFirst
  <2>3. <<list[i]>> \in Seq(Statements) /\ SubSeq(list, i + 1, n) \in Seq(Statements)
    BY <1>1, <1>2, <2>1
  <2>4. (<<list[i]>> \o SubSeq(list, i + 1, n)) \o k = <<list[i]>> \o (SubSeq(list, i + 1, n) \o k)
    <3>1. /\ <<list[i]>> \in Seq(Steps) /\ SubSeq(list, i + 1, n) \in Seq(Steps)
          /\ k \in Seq(Steps)
      BY <2>3, StatementsAreSteps
    <3>2. Associative(<<list[i]>>, SubSeq(list, i + 1, n), k)
      BY <3>1, Regroup, Zenon
    <3> QED
      BY <3>2 DEF Associative
  <2> QED
    BY <2>1, <2>2, <2>4, Zenon
<1>6. rest(0) = list \o k /\ rest(n) = k
  <2>1. SubSeq(list, 0 + 1, n) = list
    BY SubSeqFull
  <2>2. SubSeq(list, n + 1, n) = <<>>
    <3> HIDE DEF n
    <3>1. n < n + 1 /\ n \in Int /\ n + 1 \in Int
      BY <1>1
    <3> QED
      BY <3>1, SubSeqEmpty
  <2> QED
    BY <2>1, <2>2, ConcatEmptySeq
<1>7. \A i, j \in 1..n : i # j => P[i] \cap P[j] = {}
  <2> SUFFICES ASSUME NEW i \in 1..n, NEW j \in 1..n, i # j
               PROVE  P[i] \cap P[j] = {}
    OBVIOUS
  <2>1. i \in Nat /\ j \in Nat
    BY <1>1
  <2>2. P[i] = From(Append(path, i)) /\ P[j] = From(Append(path, j))
    BY Zenon
  <2> QED
    BY <2>1, <2>2, PathsSeparate
<1>8. ss \in Seq(Code) /\ Len(ss) = n
  <2>1. ss = [i \in 1..n |-> ss[i]]
    BY <1>1
  <2>2. \A i \in 1..n : ss[i] \in Code
    BY <1>4, Zenon DEF Right, Block
  <2> HIDE DEF ss
  <2> QED
    BY <1>1, <2>1, <2>2
<1>9. ASSUME NEW i \in 1..n
      PROVE  Block(ss[i], ks[i - 1], ks[i], P[i], Ps[i], Ts[i])
  <2>1. i \in 0..n /\ i - 1 \in 0..n
    BY <1>1
  <2> HIDE DEF ss
  <2>0. Ps[i] = Places(ss[i]) /\ Ts[i] = Targets(ss[i])
    OBVIOUS
  <2> HIDE DEF ks, P, rest, Ps, Ts
  <2>2. ks[i] = rest(i) /\ ks[i - 1] = rest(i - 1)
    BY <1>3, <2>1
  <2> QED
    BY <1>4, <1>5, <2>0, <2>2, Zenon DEF Right
<1>10. EmitStatements(list, path, k, emit) = FlattenSeq(ss)
  BY DEF EmitStatements
<1>11. ASSUME NEW i \in 1..n
       PROVE  P[i] \subseteq Behind(path)
  <2>1. i \in Nat /\ P[i] = From(Append(path, i))
    BY <1>1
  <2> QED
    BY <2>1, PathsSeparate
<1>12. ks[0] = list \o k /\ ks[n] = k
  <2>1. 0 \in 0..n /\ n \in 0..n
    BY <1>1
  <2> HIDE DEF ks, rest
  <2> QED
    BY <1>3, <1>6, <2>1
<1> HIDE DEF ss
<1>13. \A i \in 1..n : Ts[i] \subseteq Ps[i]
  <2> SUFFICES ASSUME NEW i \in 1..n
               PROVE  Ts[i] \subseteq Ps[i]
    OBVIOUS
  <2>1. Ps[i] = Places(ss[i]) /\ Ts[i] = Targets(ss[i])
    OBVIOUS
  <2> HIDE DEF P, ks, rest, Ps, Ts
  <2> QED
    BY <1>4, <2>1, Zenon DEF Right
<1> HIDE DEF ks, P, n, rest, Ps, Ts
<1>14. Block(FlattenSeq(ss), ks[0], ks[n], Upto(P, n), Upto(Ps, n), Upto(Ts, n))
  <2>1. /\ ss \in Seq(Code)
        /\ \A i \in 1..Len(ss) : Block(ss[i], ks[i - 1], ks[i], P[i], Ps[i], Ts[i])
        /\ \A i, j \in 1..Len(ss) : i # j => P[i] \cap P[j] = {}
    BY <1>7, <1>8, <1>9, Zenon
  <2>2. Block(FlattenSeq(ss), ks[0], ks[Len(ss)],
              Upto(P, Len(ss)), Upto(Ps, Len(ss)), Upto(Ts, Len(ss)))
    BY <2>1, FlattenedBlocks
  <2> QED
    BY <1>8, <2>2, Zenon
<1>15. Upto(P, n) \subseteq Behind(path) /\ Upto(Ts, n) \subseteq Upto(Ps, n)
  BY <1>11, <1>13 DEF Upto
<1> QED
  BY <1>10, <1>12, <1>14, <1>15, Zenon DEF Right, Block

----------------------------------------------------------------------------
(* The code of each statement, when that of the statements in it is right.   *)

Clauses == [cond : STRING, body : Seq(Statements)]

\* The parts of a statement.
LEMMA PartsOf ==
  ASSUME NEW s \in Statements
  PROVE  /\ s.op \in {"act", "stop", "perform", "if", "until", "varying", "evaluate", "call"}
         /\ s.op \in {"act", "perform", "call"} => s.name \in STRING
         /\ s.op \in {"if", "until", "varying"} => s.cond \in STRING
         /\ s.op = "if" => s.then \in Seq(Statements) /\ s.else \in Seq(Statements)
         /\ s.op = "until" => s.body \in Seq(Statements)
         /\ s.op = "varying" => s.init \in STRING /\ VaryingLoop(s) \in Statements
         /\ s.op = "evaluate" => /\ s.whens \in Seq(Clauses) /\ s.whens # <<>>
                                 /\ s.other \in Seq(Statements)
                                 /\ s = Evaluate(s.whens, s.other)
         /\ s.op = "call" => s.failed \in Seq(Statements) /\ s.done \in Seq(Statements)
<1>1. s \in StatementsOver(Seq(Statements))
  BY StatementsAssumption
<1>2. s.op = "varying" => VaryingLoop(s) \in Statements
  BY StatementsAssumption
<1>3. s.op = "evaluate" => s.whens # <<>>
  BY StatementsAssumption
<1>4. CASE s \in [op : {"act", "perform"}, name : STRING] \cup [op : {"stop"}]
  BY <1>4
<1>5. CASE s \in [op : {"if"}, cond : STRING, then : Seq(Statements), else : Seq(Statements)]
  BY <1>5
<1>6. CASE s \in [op : {"until"}, cond : STRING, body : Seq(Statements)]
  BY <1>6
<1>7. CASE s \in [op : {"varying"}, cond : STRING, init : STRING, step : STRING, body : Seq(Statements)]
  BY <1>2, <1>7
<1>8. CASE s \in [op : {"evaluate"}, whens : Seq(Clauses), other : Seq(Statements)]
  BY <1>3, <1>8 DEF Evaluate
<1>9. CASE s \in [op : {"call"}, name : STRING, failed : Seq(Statements), done : Seq(Statements)]
  BY <1>9
<1> QED
  BY <1>1, <1>4, <1>5, <1>6, <1>7, <1>8, <1>9 DEF StatementsOver, Clauses

\* A statement before others.
LEMMA FirstStatement ==
  ASSUME NEW s \in Steps, NEW k \in Seq(Steps)
  PROVE  /\ <<s>> \o k \in Seq(Steps) /\ <<s>> \o k # <<>>
         /\ Head(<<s>> \o k) = s /\ Tail(<<s>> \o k) = k
<1> DEFINE one == <<s>>
           b == one \o k
<1>1. one \in Seq(Steps) /\ Len(one) = 1 /\ one[1] = s
  OBVIOUS
<1> HIDE DEF one
<1>2. /\ b \in Seq(Steps) /\ Len(b) = 1 + Len(k) /\ Len(k) \in Nat
      /\ \A i \in 1..(1 + Len(k)) : b[i] = IF i <= 1 THEN one[i] ELSE k[i - 1]
  <2>1. /\ b \in Seq(Steps) /\ Len(b) = Len(one) + Len(k)
        /\ \A i \in 1..(Len(one) + Len(k)) : b[i] = IF i <= Len(one) THEN one[i] ELSE k[i - Len(one)]
    BY <1>1, ConcatProperties, Zenon
  <2>2. Len(k) \in Nat
    OBVIOUS
  <2> HIDE DEF b
  <2> QED
    BY ONLY <1>1, <2>1, <2>2
<1> HIDE DEF b
<1>3. b # <<>>
  BY <1>2
<1>4. b[1] = s
  BY <1>1, <1>2
<1>5. Head(b) = s
  BY <1>4
<1>6. /\ Tail(b) \in Seq(Steps) /\ Len(Tail(b)) = Len(b) - 1
      /\ \A i \in 1..Len(Tail(b)) : Tail(b)[i] = b[i + 1]
  BY <1>2, <1>3, HeadTailProperties
<1>7. Len(Tail(b)) = Len(k) /\ \A i \in 1..Len(k) : Tail(b)[i] = k[i]
  BY <1>2, <1>6
<1>8. Tail(b) = k
  BY <1>6, <1>7, SeqEqual
<1> QED
  BY <1>2, <1>3, <1>5, <1>8 DEF b, one

RightIn(list, emit) == \A i \in DOMAIN list : RightFor(list[i], emit)

LEMMA Branches ==
  ASSUME NEW emit, NEW kind \in Kinds, NEW s \in Steps, NEW path \in Seq(Nat),
         NEW k \in Seq(Statements),
         s.op = "if", s.cond \in Conditions, s.then \in Seq(Statements), s.else \in Seq(Statements),
         RightIn(s.then, emit), RightIn(s.else, emit)
  PROVE  Right(EmitBranches(kind, s, path, k, emit), <<s>> \o k, k, From(path))
<1> DEFINE again == <<s>> \o k
           yes == NextLabel(kind, "then", path)
           no == NextLabel(kind, "else", path)
           merge == NextLabel(kind, "end", path)
           then == s.then \o k
           else == s.else \o k
           c1 == CondBrLabel(s.cond, yes, no, again, yes, then)
           c2 == EmitStatements(s.then, Append(path, 1), k, emit)
           c3 == BrLabel(merge, k, no, else)
           c4 == EmitStatements(s.else, Append(path, 2), k, emit)
           c5 == BrLabel(merge, k, merge, k)
           L1 == Behind(Append(path, 1))
           L2 == Behind(Append(path, 2))
<1>1. /\ k \in Seq(Steps) /\ then \in Seq(Steps) /\ else \in Seq(Steps)
      /\ Append(path, 1) \in Seq(Nat) /\ Append(path, 2) \in Seq(Nat)
  BY StatementsAreSteps, PathsSeparate
<1>2. again \in Seq(Steps) /\ again # <<>> /\ Head(again) = s /\ Tail(again) = k
  BY <1>1, FirstStatement
<1>3. /\ yes \in From(path) /\ no \in From(path) /\ merge \in From(path)
      /\ yes \in Labels /\ no \in Labels /\ merge \in Labels
      /\ yes \notin Behind(path) /\ no \notin Behind(path) /\ merge \notin Behind(path)
  <2>1. IsOwnLabel(yes, path) /\ IsOwnLabel(no, path) /\ IsOwnLabel(merge, path)
    BY OwnLabel, Zenon DEF Parts
  <2> QED
    BY <2>1, Zenon DEF IsOwnLabel
<1>4. yes # no /\ yes # merge /\ no # merge
  BY DEF NextLabel
<1>5. /\ L1 \subseteq Behind(path) /\ L2 \subseteq Behind(path)
      /\ L1 \cap L2 = {} /\ Behind(path) \subseteq From(path)
  <2>1. Behind(path) \subseteq From(path)
    BY DEF Behind
  <2> QED
    BY <2>1, PathsSeparate
<1>6. Right(c2, then, k, L1) /\ Right(c4, else, k, L2)
  BY <1>1, ListCode DEF RightIn
<1>7. EmitBranches(kind, s, path, k, emit) = Cat(Cat(Cat(Cat(c1, c2), c3), c4), c5)
  BY DEF EmitBranches, Cat, BrLabel, CondBrLabel
<1>8. Outcome(again, TRUE) = then /\ Outcome(again, FALSE) = else
  <2> HIDE DEF again
  <2> QED
    BY <1>2 DEF Outcome
<1> HIDE DEF L1, L2, c2, c4, yes, no, merge, again, then, else
<1>9. Condition(s) = s.cond
  BY DEF Condition
<1>10. Block(c1, again, then, {yes}, {<<yes, then>>}, {<<yes, then>>, <<no, else>>})
  <2>1. s.op \in {"if", "until", "evaluate"} /\ (s.op = "evaluate" => s.whens # <<>>)
    OBVIOUS
  <2> QED
    BY <1>1, <1>2, <1>3, <1>8, <1>9, <2>1, LabelFalls, CondBrAndLabel
<1>11. Block(c3, k, else, {no}, {<<no, else>>}, {<<merge, k>>})
  BY <1>1, <1>3, LabelFalls, BrAndLabel
<1>12. Block(c5, k, k, {merge}, {<<merge, k>>}, {<<merge, k>>})
  BY <1>1, <1>3, LabelFalls, BrAndLabel
<1> HIDE DEF c1, c3, c5
<1> DEFINE P2 == Places(c2)
           P4 == Places(c4)
           T2 == Targets(c2)
           T4 == Targets(c4)
           T1 == {<<yes, then>>, <<no, else>>}
<1>13. Block(c2, then, k, L1, P2, T2) /\ T2 \subseteq P2 /\ Block(c4, else, k, L2, P4, T4) /\ T4 \subseteq P4
  BY <1>6 DEF Right
<1> HIDE DEF P2, P4, T2, T4
<1>14. /\ {yes} \cap L1 = {} /\ ({yes} \cup L1) \cap {no} = {}
       /\ (({yes} \cup L1) \cup {no}) \cap L2 = {}
       /\ ((({yes} \cup L1) \cup {no}) \cup L2) \cap {merge} = {}
  BY <1>3, <1>4, <1>5
<1>15. Block(Cat(c1, c2), again, k, {yes} \cup L1, {<<yes, then>>} \cup P2, T1 \cup T2)
  BY <1>10, <1>13, <1>14, Join, Zenon
<1>16. Block(Cat(Cat(c1, c2), c3), again, else, ({yes} \cup L1) \cup {no},
             ({<<yes, then>>} \cup P2) \cup {<<no, else>>}, (T1 \cup T2) \cup {<<merge, k>>})
  BY <1>11, <1>14, <1>15, Join, Zenon
<1>17. Block(Cat(Cat(Cat(c1, c2), c3), c4), again, k, (({yes} \cup L1) \cup {no}) \cup L2,
             (({<<yes, then>>} \cup P2) \cup {<<no, else>>}) \cup P4,
             ((T1 \cup T2) \cup {<<merge, k>>}) \cup T4)
  BY <1>13, <1>14, <1>16, Join, Zenon
<1> DEFINE c == Cat(Cat(Cat(Cat(c1, c2), c3), c4), c5)
           L == ((({yes} \cup L1) \cup {no}) \cup L2) \cup {merge}
           P == ((({<<yes, then>>} \cup P2) \cup {<<no, else>>}) \cup P4) \cup {<<merge, k>>}
           T == (((T1 \cup T2) \cup {<<merge, k>>}) \cup T4) \cup {<<merge, k>>}
<1>18. Block(c, again, k, L, P, T)
  BY <1>12, <1>14, <1>17, Join, Zenon
<1>19. L \subseteq From(path) /\ T \subseteq P
  BY <1>3, <1>5, <1>13
<1> HIDE DEF L, P, T
<1>20. Right(c, again, k, From(path))
  BY <1>18, <1>19, Zenon DEF Right, Block
<1> QED
  BY <1>7, <1>20 DEF again

InTwoPairs(a, b, c, d) == <<a, b, c, d>> = <<a, b>> \o <<c, d>>

LEMMA FourInstructions ==
  \A a, b, c, d : InTwoPairs(a, b, c, d)
  BY DEF InTwoPairs

LEMMA Loops ==
  ASSUME NEW emit, NEW s \in Statements, NEW path \in Seq(Nat), NEW k \in Seq(Statements),
         s.op = "until", s.cond \in Conditions, s.body \in Seq(Statements), RightIn(s.body, emit)
  PROVE  Right(EmitPerformUntil(s, path, k, emit), <<s>> \o k, k, From(path))
<1> DEFINE again == <<s>> \o k
           cond == NextLabel("perf", "cond", path)
           body == NextLabel("perf", "body", path)
           end == NextLabel("perf", "end", path)
           rest == s.body \o again
           c1 == BrLabel(cond, again, cond, again)
           c2 == CondBrLabel(s.cond, end, body, again, body, rest)
           c3 == EmitStatements(s.body, Append(path, 1), again, emit)
           c4 == BrLabel(cond, again, end, k)
           L3 == Behind(Append(path, 1))
<1>1. /\ again \in Seq(Statements) /\ again \in Seq(Steps) /\ k \in Seq(Steps)
      /\ s.body \in Seq(Steps) /\ s \in Steps /\ <<s>> \in Seq(Steps)
      /\ rest \in Seq(Steps) /\ Append(path, 1) \in Seq(Nat)
  <2>1. <<s>> \in Seq(Statements) /\ again \in Seq(Statements) /\ rest \in Seq(Statements)
    OBVIOUS
  <2> QED
    BY <2>1, StatementsAreSteps, PathsSeparate
<1>2. again # <<>> /\ Head(again) = s /\ Tail(again) = k
  BY <1>1, FirstStatement
<1>3. /\ cond \in From(path) /\ body \in From(path) /\ end \in From(path)
      /\ cond \in Labels /\ body \in Labels /\ end \in Labels
      /\ cond \notin Behind(path) /\ body \notin Behind(path) /\ end \notin Behind(path)
  <2>1. IsOwnLabel(cond, path) /\ IsOwnLabel(body, path) /\ IsOwnLabel(end, path)
    BY OwnLabel, Zenon DEF Parts, Kinds
  <2> QED
    BY <2>1, Zenon DEF IsOwnLabel
<1>4. cond # body /\ cond # end /\ body # end
  BY DEF NextLabel
<1>5. L3 \subseteq Behind(path) /\ Behind(path) \subseteq From(path)
  <2>1. Behind(path) \subseteq From(path)
    BY DEF Behind
  <2> QED
    BY <2>1, PathsSeparate
<1>6. Right(c3, rest, again, L3)
  BY <1>1, ListCode DEF RightIn
<1>7. EmitPerformUntil(s, path, k, emit) = Cat(Cat(Cat(c1, c2), c3), c4)
  <2>1. Cat(c1, c2) = <<Br(cond, again), Label(cond, again),
                        CondBr(s.cond, end, body, again), Label(body, rest)>>
    <3> DEFINE i1 == Br(cond, again)
               i2 == Label(cond, again)
               i3 == CondBr(s.cond, end, body, again)
               i4 == Label(body, rest)
    <3>1. Cat(c1, c2) = <<i1, i2>> \o <<i3, i4>>
      BY DEF Cat, BrLabel, CondBrLabel
    <3> HIDE DEF i1, i2, i3, i4, c1, c2
    <3>2. InTwoPairs(i1, i2, i3, i4)
      BY FourInstructions, Zenon
    <3>3. Cat(c1, c2) = <<i1, i2, i3, i4>>
      BY <3>1, <3>2, Zenon DEF InTwoPairs
    <3> QED
      BY <3>3 DEF i1, i2, i3, i4
  <2> QED
    BY <2>1 DEF EmitPerformUntil, Cat, BrLabel
<1>8. Outcome(again, TRUE) = k /\ Outcome(again, FALSE) = rest
  <2>1. Append(s.body, s) \o k = rest
    <3>1. Append(s.body, s) = s.body \o <<s>>
      BY AppendIsConcat
    <3>2. Associative(s.body, <<s>>, k)
      BY <1>1, Regroup, Zenon
    <3> QED
      BY <3>1, <3>2 DEF Associative
  <2>2. <<>> \o k = k
    BY ConcatEmptySeq
  <2> HIDE DEF again, rest
  <2> QED
    BY <1>2, <2>1, <2>2 DEF Outcome
<1> HIDE DEF L3, c3, cond, body, end, again, rest
<1>9. Condition(s) = s.cond
  BY DEF Condition
<1>10. Block(c1, again, again, {cond}, {<<cond, again>>}, {<<cond, again>>})
  BY <1>1, <1>3, LabelFalls, BrAndLabel
<1>11. Block(c2, again, rest, {body}, {<<body, rest>>}, {<<end, k>>, <<body, rest>>})
  <2>1. s.op \in {"if", "until", "evaluate"} /\ (s.op = "evaluate" => s.whens # <<>>)
    OBVIOUS
  <2> QED
    BY <1>1, <1>2, <1>3, <1>8, <1>9, <2>1, LabelFalls, CondBrAndLabel
<1>12. Block(c4, again, k, {end}, {<<end, k>>}, {<<cond, again>>})
  BY <1>1, <1>3, LabelFalls, BrAndLabel
<1> HIDE DEF c1, c2, c4
<1> DEFINE P3 == Places(c3)
           T3 == Targets(c3)
           T2 == {<<end, k>>, <<body, rest>>}
<1>13. Block(c3, rest, again, L3, P3, T3) /\ T3 \subseteq P3
  BY <1>6 DEF Right
<1> HIDE DEF P3, T3
<1>14. /\ {cond} \cap {body} = {} /\ ({cond} \cup {body}) \cap L3 = {}
       /\ (({cond} \cup {body}) \cup L3) \cap {end} = {}
  BY <1>3, <1>4, <1>5
<1>15. Block(Cat(c1, c2), again, rest, {cond} \cup {body},
             {<<cond, again>>} \cup {<<body, rest>>}, {<<cond, again>>} \cup T2)
  BY <1>10, <1>11, <1>14, Join, Zenon
<1>16. Block(Cat(Cat(c1, c2), c3), again, again, ({cond} \cup {body}) \cup L3,
             ({<<cond, again>>} \cup {<<body, rest>>}) \cup P3, ({<<cond, again>>} \cup T2) \cup T3)
  BY <1>13, <1>14, <1>15, Join, Zenon
<1> DEFINE c == Cat(Cat(Cat(c1, c2), c3), c4)
           L == (({cond} \cup {body}) \cup L3) \cup {end}
           P == (({<<cond, again>>} \cup {<<body, rest>>}) \cup P3) \cup {<<end, k>>}
           T == (({<<cond, again>>} \cup T2) \cup T3) \cup {<<cond, again>>}
<1>17. Block(c, again, k, L, P, T)
  BY <1>12, <1>14, <1>16, Join, Zenon
<1>18. L \subseteq From(path) /\ T \subseteq P
  BY <1>3, <1>5, <1>13
<1> HIDE DEF L, P, T
<1>19. Right(c, again, k, From(path))
  BY <1>17, <1>18, Zenon DEF Right, Block
<1> QED
  BY <1>7, <1>19 DEF again

\* An instruction, and code behind it.
LEMMA InstructionFirst ==
  ASSUME NEW a \in Instructions, NEW c, NEW m, NEW k, NEW labels,
         a.ins \in {"do", "call", "ret"}, AtItsStatement(a), FallsTo(a, m), Right(c, m, k, labels)
  PROVE  Right(Cat(<<a>>, c), a.rest, k, labels)
<1>1. Block(<<a>>, a.rest, m, {}, {}, {})
  BY OneInstruction
<1>2. Block(c, m, k, labels, Places(c), Targets(c)) /\ Targets(c) \subseteq Places(c)
  BY DEF Right
<1>3. {} \cap labels = {} /\ \A S : {} \cup S = S
  OBVIOUS
<1>4. Block(Cat(<<a>>, c), a.rest, k, {} \cup labels, {} \cup Places(c), {} \cup Targets(c))
  BY <1>1, <1>2, <1>3, Join, Zenon
<1>5. Block(Cat(<<a>>, c), a.rest, k, labels, Places(c), Targets(c))
  BY <1>3, <1>4, Zenon
<1> QED
  BY <1>2, <1>5, Zenon DEF Right, Block

\* One instruction is all.
LEMMA InstructionAlone ==
  ASSUME NEW a \in Instructions, NEW k, NEW labels,
         a.ins \in {"do", "call", "ret"}, AtItsStatement(a), FallsTo(a, k)
  PROVE  Right(<<a>>, a.rest, k, labels)
<1>1. Block(<<a>>, a.rest, k, {}, {}, {})
  BY OneInstruction
<1>2. {} \subseteq labels
  OBVIOUS
<1> QED
  BY <1>1, <1>2, Zenon DEF Right, Block

LEMMA CountingLoops ==
  ASSUME NEW emit, NEW s \in Statements, NEW path \in Seq(Nat), NEW k \in Seq(Statements),
         s.op = "varying", RightIn(VaryingLoop(s).body, emit)
  PROVE  Right(EmitPerformVarying(s, path, k, emit), <<s>> \o k, k, From(path))
<1> DEFINE again == <<s>> \o k
           loop == VaryingLoop(s)
           first == Do(s.init, again)
           c == EmitPerformUntil(loop, path, k, emit)
<1>1. s.init \in STRING /\ loop \in Statements /\ k \in Seq(Steps) /\ s \in Steps /\ loop.op = "until"
  BY PartsOf, StatementsAreSteps DEF VaryingLoop, Until
<1>2. loop.cond \in Conditions /\ loop.body \in Seq(Statements)
  BY <1>1, PartsOf DEF Conditions
<1>3. again \in Seq(Steps) /\ again # <<>> /\ Head(again) = s /\ Tail(again) = k
  BY <1>1, FirstStatement
<1>4. RightIn(loop.body, emit)
  OBVIOUS
<1>5. EmitPerformVarying(s, path, k, emit) = Cat(<<first>>, c)
  BY DEF EmitPerformVarying, Cat
<1> HIDE DEF again, loop
<1>6. Right(c, <<loop>> \o k, k, From(path))
  BY <1>1, <1>2, <1>4, Loops
<1>7. /\ first \in Instructions /\ first.ins = "do" /\ first.rest = again
      /\ AtItsStatement(first) /\ FallsTo(first, <<loop>> \o k)
  <2>1. first \in Instructions /\ first.ins = "do" /\ first.rest = again /\ first.name = s.init
    BY <1>1, <1>3 DEF Do, Instructions
  <2> HIDE DEF first
  <2>2. AtItsStatement(first)
    BY <2>1 DEF AtItsStatement
  <2>3. FallsTo(first, <<loop>> \o k)
    BY <1>3, <2>1 DEF FallsTo, loop
  <2> QED
    BY <2>1, <2>2, <2>3
<1> HIDE DEF first, c
<1>8. Right(Cat(<<first>>, c), first.rest, k, From(path))
  <2>1. first.ins \in {"do", "call", "ret"}
    BY <1>7
  <2> QED
    BY <1>6, <1>7, <2>1, InstructionFirst
<1> QED
  BY <1>5, <1>7, <1>8 DEF again

LEMMA CallsWithPhrases ==
  ASSUME NEW emit, NEW s \in Statements, NEW path \in Seq(Nat), NEW k \in Seq(Statements),
         s.op = "call", RightIn(s.failed, emit), RightIn(s.done, emit)
  PROVE  Right(EmitCall(s, path, k, emit), <<s>> \o k, k, From(path))
<1> DEFINE again == <<s>> \o k
           first == Do(s.name, again)
           choice == If("ok", s.done, s.failed)
<1>1. /\ s.name \in STRING /\ s.failed \in Seq(Statements) /\ s.done \in Seq(Statements)
      /\ k \in Seq(Steps) /\ s \in Steps
  BY PartsOf, StatementsAreSteps
<1>2. again \in Seq(Steps) /\ again # <<>> /\ Head(again) = s /\ Tail(again) = k
  BY <1>1, FirstStatement
<1>3. /\ choice \in Steps /\ choice.op = "if" /\ choice.cond \in Conditions
      /\ choice.then = s.done /\ choice.else = s.failed
  BY DEF Steps, If, Conditions
<1> HIDE DEF again, choice
<1>4. /\ first \in Instructions /\ first.ins = "do" /\ first.rest = again
      /\ AtItsStatement(first) /\ FallsTo(first, Phrases(s) \o k)
  <2>1. first \in Instructions /\ first.ins = "do" /\ first.rest = again /\ first.name = s.name
    BY <1>1, <1>2 DEF Do, Instructions
  <2> HIDE DEF first
  <2>2. AtItsStatement(first)
    BY <2>1 DEF AtItsStatement
  <2>3. FallsTo(first, Phrases(s) \o k)
    BY <1>2, <2>1 DEF FallsTo
  <2> QED
    BY <2>1, <2>2, <2>3
<1>5. first.ins \in {"do", "call", "ret"}
  BY <1>4
<1>6. CASE Phrases(s) = <<>>
  <2>1. Phrases(s) \o k = k
    BY <1>6, ConcatEmptySeq
  <2>2. EmitCall(s, path, k, emit) = <<first>>
    <3> DEFINE one == <<first>>
    <3>1. EmitCall(s, path, k, emit) = one \o <<>>
      BY <1>6 DEF EmitCall, again
    <3>2. one \in Seq(Instructions)
      BY <1>4
    <3> HIDE DEF one
    <3>3. one \o <<>> = one
      BY <3>2, ConcatEmptySeq
    <3> QED
      BY <3>1, <3>3 DEF one
  <2> HIDE DEF first
  <2>3. Right(<<first>>, first.rest, k, From(path))
    BY <1>4, <1>5, <2>1, InstructionAlone
  <2> QED
    BY <1>4, <2>2, <2>3 DEF again
<1>7. CASE Phrases(s) # <<>>
  <2> DEFINE c == EmitBranches("http", choice, path, k, emit)
  <2>1. Phrases(s) = <<choice>>
    BY <1>7 DEF Phrases, choice
  <2>2. EmitCall(s, path, k, emit) = Cat(<<first>>, c)
    <3>1. <<choice>>[1] = choice
      OBVIOUS
    <3> QED
      BY <1>7, <2>1, <3>1, Zenon DEF EmitCall, Cat, again
  <2>3. Right(c, <<choice>> \o k, k, From(path))
    BY <1>1, <1>3, Branches DEF Kinds
  <2> HIDE DEF first, c
  <2>4. Right(Cat(<<first>>, c), first.rest, k, From(path))
    <3>1. FallsTo(first, <<choice>> \o k)
      BY <1>4, <2>1
    <3> QED
      BY <1>4, <1>5, <2>3, <3>1, InstructionFirst
  <2> QED
    BY <1>4, <2>2, <2>4 DEF again
<1> QED
  BY <1>6, <1>7

\* What is left of an EVALUATE.
LEMMA LeftOfEvaluate ==
  ASSUME NEW s \in Statements, s.op = "evaluate"
  PROVE  /\ WhensFrom(s, 1) = s
         /\ \A i \in 1..(Len(s.whens) + 1) :
               WhensFrom(s, i) \in Steps /\ WhensFrom(s, i).op = "evaluate" /\ WhensFrom(s, i).other = s.other
         /\ \A i \in 1..Len(s.whens) :
               /\ WhensFrom(s, i).whens # <<>>
               /\ Head(WhensFrom(s, i).whens) = s.whens[i]
               /\ Evaluate(Tail(WhensFrom(s, i).whens), WhensFrom(s, i).other) = WhensFrom(s, i + 1)
         /\ WhensFrom(s, Len(s.whens) + 1).whens = <<>>
<1> DEFINE w == s.whens
           n == Len(w)
<1>1. w \in Seq(Clauses) /\ n \in Nat /\ w # <<>> /\ s = Evaluate(w, s.other)
  BY PartsOf
<1>2. \A i \in Nat : /\ WhensFrom(s, i).op = "evaluate" /\ WhensFrom(s, i).other = s.other
                     /\ WhensFrom(s, i).whens = SubSeq(w, i, n)
  BY DEF WhensFrom, Evaluate
<1>3. \A i \in Nat \ {0} : WhensFrom(s, i) \in Steps
  BY DEF Steps
<1>4. SubSeq(w, 1, n) = w
  BY <1>1, SubSeqFull
<1>5. WhensFrom(s, 1) = s
  BY <1>1, <1>4, Zenon DEF WhensFrom
<1>6. ASSUME NEW i \in 1..n
      PROVE  /\ SubSeq(w, i, n) # <<>> /\ Head(SubSeq(w, i, n)) = w[i]
             /\ Tail(SubSeq(w, i, n)) = SubSeq(w, i + 1, n)
  <2>1. i \in 1..Len(w) /\ n \in i..Len(w)
    BY <1>1
  <2>2. /\ Head(SubSeq(w, i, n)) = w[i]
        /\ Tail(SubSeq(w, i, n)) = SubSeq(w, i + 1, n)
    <3> HIDE DEF n, w
    <3> QED
      BY <1>1, <2>1, HeadTailOfSubSeq, Zenon
  <2>3. SubSeq(w, i, n) # <<>>
    <3>1. \A j \in i..n : w[j] \in Clauses
      BY <1>1, <2>1
    <3>2. i \in Int /\ n \in Int /\ i <= n
      BY <1>1
    <3>3. Len(SubSeq(w, i, n)) = (n - i) + 1
      <4> HIDE DEF n, w
      <4> QED
        BY <3>1, <3>2, SubSeqProperties
    <3>4. (n - i) + 1 # 0 /\ Len(<<>>) = 0
      BY <3>2
    <3> HIDE DEF n, w
    <3> QED
      BY <3>3, <3>4
  <2> QED
    BY <2>2, <2>3
<1>7. ASSUME NEW i \in 1..n
      PROVE  /\ WhensFrom(s, i).whens # <<>>
             /\ Head(WhensFrom(s, i).whens) = s.whens[i]
             /\ Evaluate(Tail(WhensFrom(s, i).whens), WhensFrom(s, i).other) = WhensFrom(s, i + 1)
  <2>1. i \in Nat
    BY <1>1
  <2>2. Evaluate(SubSeq(w, i + 1, n), s.other) = WhensFrom(s, i + 1)
    BY DEF WhensFrom
  <2> QED
    BY <1>2, <1>6, <2>1, <2>2, Zenon
<1>8. WhensFrom(s, n + 1).whens = <<>>
  <2>1. n + 1 \in Nat /\ n \in Int /\ n + 1 \in Int /\ n < n + 1
    BY <1>1
  <2>2. SubSeq(w, n + 1, n) = <<>>
    <3> HIDE DEF n, w
    <3> QED
      BY <2>1, SubSeqEmpty
  <2> QED
    BY <1>2, <2>1, <2>2, Zenon
<1>9. \A i \in 1..(n + 1) : i \in Nat /\ i \in Nat \ {0}
  BY <1>1
<1> QED
  BY <1>2, <1>3, <1>5, <1>7, <1>8, <1>9, Zenon

\* One WHEN; z is executed if its condition is false.
LEMMA WhenClause ==
  ASSUME NEW emit, NEW s \in Statements, NEW i \in 1..Len(s.whens),
         NEW path \in Seq(Nat), NEW k \in Seq(Statements),
         s.op = "evaluate", RightIn(s.whens[i].body, emit),
         NEW z, FallsTo(Label(NextLabel("eval", "next", Append(path, i)), <<WhensFrom(s, i + 1)>> \o k), z)
  PROVE  LET c == EmitWhen(s, i, path, k, emit) IN
         /\ Block(c, <<WhensFrom(s, i)>> \o k, z, From(Append(path, i)), Places(c), Targets(c))
         /\ Targets(c) \subseteq Places(c) \cup {<<NextLabel("eval", "end", path), k>>}
<1> DEFINE place == Append(path, i)
           body == NextLabel("eval", "body", place)
           next == NextLabel("eval", "next", place)
           end == NextLabel("eval", "end", path)
           when == s.whens[i]
           this == WhensFrom(s, i)
           again == <<this>> \o k
           after == <<WhensFrom(s, i + 1)>> \o k
           rest == when.body \o k
           c1 == CondBrLabel(when.cond, body, next, again, body, rest)
           c2 == EmitStatements(when.body, place, k, emit)
           c3 == BrLabel(end, k, next, after)
           L2 == Behind(place)
<1>0. Len(s.whens) \in Nat /\ i \in Nat
  BY PartsOf
<1>1. when.cond \in Conditions /\ when.body \in Seq(Statements) /\ place \in Seq(Nat)
  <2>1. s.whens \in Seq(Clauses)
    BY PartsOf
  <2>2. when \in Clauses
    BY <2>1
  <2> HIDE DEF when
  <2>3. when.cond \in STRING /\ when.body \in Seq(Statements)
    BY <2>2 DEF Clauses
  <2> QED
    BY <1>0, <2>3, PathsSeparate DEF Conditions
<1>2. k \in Seq(Steps) /\ rest \in Seq(Steps)
  <2>1. rest \in Seq(Statements)
    BY <1>1
  <2> QED
    BY <2>1, StatementsAreSteps
<1>3. /\ this \in Steps /\ this.op = "evaluate" /\ this.whens # <<>> /\ Head(this.whens) = when
      /\ Evaluate(Tail(this.whens), this.other) = WhensFrom(s, i + 1)
      /\ WhensFrom(s, i + 1) \in Steps
  <2>1. i \in 1..(Len(s.whens) + 1) /\ i + 1 \in 1..(Len(s.whens) + 1)
    BY <1>0
  <2> QED
    BY <2>1, LeftOfEvaluate, Zenon
<1>4. /\ again \in Seq(Steps) /\ again # <<>> /\ Head(again) = this /\ Tail(again) = k
      /\ after \in Seq(Steps)
  BY <1>2, <1>3, FirstStatement
<1>5. /\ body \in From(place) /\ next \in From(place) /\ body \in Labels /\ next \in Labels
      /\ body \notin L2 /\ next \notin L2 /\ end \in Labels
  <2>1. IsOwnLabel(body, place) /\ IsOwnLabel(next, place) /\ IsOwnLabel(end, path)
    BY <1>1, OwnLabel, Zenon DEF Parts, Kinds
  <2> QED
    BY <2>1, Zenon DEF IsOwnLabel
<1>6. body # next
  BY DEF NextLabel
<1>7. L2 \subseteq From(place)
  BY DEF Behind
<1>8. Right(c2, rest, k, L2)
  BY <1>1, ListCode DEF RightIn
<1>9. EmitWhen(s, i, path, k, emit) = Cat(Cat(c1, c2), c3)
  BY DEF EmitWhen, Cat, BrLabel, CondBrLabel
<1>10. Outcome(again, TRUE) = rest /\ Outcome(again, FALSE) = after
  <2> HIDE DEF again, this
  <2> QED
    BY <1>3, <1>4 DEF Outcome
<1>11. FallsTo(Label(next, after), z)
  OBVIOUS
<1>12. Condition(this) = when.cond
  BY <1>3, Zenon DEF Condition
<1> HIDE DEF L2, c2, place, body, next, end, again, after, rest, this, when
<1>13. Block(c1, again, rest, {body}, {<<body, rest>>}, {<<body, rest>>, <<next, after>>})
  <2>1. this.op \in {"if", "until", "evaluate"} /\ (this.op = "evaluate" => this.whens # <<>>)
    BY <1>3
  <2> QED
    BY <1>1, <1>2, <1>4, <1>5, <1>10, <1>12, <2>1, LabelFalls, CondBrAndLabel
<1>14. Block(c3, k, z, {next}, {<<next, after>>}, {<<end, k>>})
  BY <1>2, <1>4, <1>5, <1>11, BrAndLabel
<1> HIDE DEF c1, c3
<1> DEFINE P2 == Places(c2)
           T2 == Targets(c2)
           T1 == {<<body, rest>>, <<next, after>>}
<1>15. Block(c2, rest, k, L2, P2, T2) /\ T2 \subseteq P2
  BY <1>8 DEF Right
<1> HIDE DEF P2, T2
<1>16. {body} \cap L2 = {} /\ ({body} \cup L2) \cap {next} = {}
  BY <1>5, <1>6
<1>17. Block(Cat(c1, c2), again, k, {body} \cup L2, {<<body, rest>>} \cup P2, T1 \cup T2)
  BY <1>13, <1>15, <1>16, Join, Zenon
<1> DEFINE c == Cat(Cat(c1, c2), c3)
           L == ({body} \cup L2) \cup {next}
           P == ({<<body, rest>>} \cup P2) \cup {<<next, after>>}
           T == (T1 \cup T2) \cup {<<end, k>>}
<1>18. Block(c, again, z, L, P, T)
  BY <1>14, <1>16, <1>17, Join, Zenon
<1>19. L \subseteq From(place) /\ T \subseteq P \cup {<<end, k>>}
  BY <1>5, <1>7, <1>15
<1> HIDE DEF L, P, T, c
<1>20. Places(c) = P /\ Targets(c) = T
  BY <1>18 DEF Block
<1>21. Block(c, again, z, From(place), P, T)
  BY <1>18, <1>19, Zenon DEF Block
<1>22. EmitWhen(s, i, path, k, emit) = c
  BY <1>9 DEF c
<1> QED
  BY <1>19, <1>20, <1>21, <1>22, Zenon DEF again, this, place, end

LEMMA SequenceOf ==
  ASSUME NEW S, NEW n \in Nat, NEW ss, ss = [i \in 1..n |-> ss[i]], \A i \in 1..n : ss[i] \in S
  PROVE  ss \in Seq(S) /\ Len(ss) = n
<1>1. ss \in [1..n -> S]
  BY Zenon
<1> QED
  BY <1>1, LenProperties

LEMMA Evaluations ==
  ASSUME NEW emit, NEW s \in Statements, NEW path \in Seq(Nat), NEW k \in Seq(Statements),
         s.op = "evaluate", \A i \in DOMAIN s.whens : RightIn(s.whens[i].body, emit),
         RightIn(s.other, emit)
  PROVE  Right(EmitEvaluate(s, path, k, emit), <<s>> \o k, k, From(path))
<1> DEFINE n == Len(s.whens)
           end == NextLabel("eval", "end", path)
           other == s.other \o k
           left(i) == <<WhensFrom(s, i)>> \o k
           ss == [i \in DOMAIN s.whens |-> EmitWhen(s, i, path, k, emit)]
           ks == [i \in 0..n |-> IF i = n THEN other ELSE left(i + 1)]
           Q == [i \in 1..n |-> From(Append(path, i))]
           Ps == [i \in 1..n |-> Places(ss[i])]
           Ts == [i \in 1..n |-> Targets(ss[i])]
           c1 == FlattenSeq(ss)
           c2 == EmitStatements(s.other, Append(path, 0), k, emit)
           c3 == BrLabel(end, k, end, k)
           L2 == Behind(Append(path, 0))
<1>1. /\ s.whens \in Seq(Clauses) /\ s.whens # <<>> /\ s.other \in Seq(Statements)
      /\ n \in Nat /\ n # 0 /\ DOMAIN s.whens = 1..n
  <2>1. s.whens \in Seq(Clauses) /\ s.whens # <<>> /\ s.other \in Seq(Statements)
    BY PartsOf
  <2> QED
    BY <2>1
<1>2. k \in Seq(Steps) /\ Append(path, 0) \in Seq(Nat)
  BY StatementsAreSteps, PathsSeparate
<1>3. end \in From(path) /\ end \in Labels /\ end \notin Behind(path)
  <2>1. IsOwnLabel(end, path)
    BY OwnLabel, Zenon DEF Parts, Kinds
  <2> QED
    BY <2>1, Zenon DEF IsOwnLabel
<1>4. \A i \in 0..n : ks[i] = IF i = n THEN other ELSE left(i + 1)
  BY Zenon
<1>5. ks[0] = <<s>> \o k /\ ks[n] = other
  <2>1. 0 \in 0..n /\ n \in 0..n /\ 0 # n /\ 0 + 1 = 1
    BY <1>1
  <2>2. left(1) = <<s>> \o k
    BY LeftOfEvaluate, Zenon
  <2> HIDE DEF ks, left, other
  <2> QED
    BY <1>4, <2>1, <2>2, Zenon
<1>6. ASSUME NEW i \in 1..n
      PROVE  /\ ss[i] = EmitWhen(s, i, path, k, emit)
             /\ Block(ss[i], ks[i - 1], ks[i], Q[i], Ps[i], Ts[i])
             /\ Ts[i] \subseteq Ps[i] \cup {<<end, k>>}
  <2> DEFINE next == Label(NextLabel("eval", "next", Append(path, i)), left(i + 1))
             c == EmitWhen(s, i, path, k, emit)
  <2>1. /\ i - 1 \in 0..n /\ i \in 0..n /\ i - 1 # n /\ (i - 1) + 1 = i
        /\ i + 1 \in 1..(n + 1) /\ i \in Nat
    BY <1>1
  <2>2. /\ ss[i] = c /\ Q[i] = From(Append(path, i))
        /\ Ps[i] = Places(ss[i]) /\ Ts[i] = Targets(ss[i])
    <3> HIDE DEF c
    <3> QED
      BY <1>1 DEF c
  <2>3. ks[i - 1] = left(i)
    <3> HIDE DEF ks, left, other
    <3> QED
      BY <1>4, <2>1
  <2>4. FallsTo(next, ks[i])
    <3>1. CASE i = n
      <4> DEFINE w == WhensFrom(s, i + 1)
                 list == <<w>> \o k
      <4>1. ks[i] = other
        BY <1>5, <3>1
      <4>2. w \in Steps /\ w.op = "evaluate" /\ w.whens = <<>> /\ w.other = s.other
        BY <2>1, <3>1, LeftOfEvaluate, Zenon
      <4> HIDE DEF w
      <4>3. list \in Seq(Steps) /\ list # <<>> /\ Head(list) = w /\ Tail(list) = k
        BY <1>2, <4>2, FirstStatement
      <4>4. next.ins = "label" /\ next.rest = list
        BY DEF Label, w
      <4> HIDE DEF list, next
      <4>5. FallsTo(next, s.other \o k)
        BY <4>2, <4>3, <4>4 DEF FallsTo
      <4> QED
        BY <4>1, <4>5
    <3>2. CASE i # n
      <4>1. ks[i] = left(i + 1)
        <5> HIDE DEF ks, left, other
        <5> QED
          BY <1>4, <2>1, <3>2
      <4> QED
        BY <4>1, LabelFalls, Zenon
    <3> QED
      BY <3>1, <3>2
  <2>5. RightIn(s.whens[i].body, emit)
    BY <1>1
  <2>6. /\ Block(c, left(i), ks[i], From(Append(path, i)), Places(c), Targets(c))
        /\ Targets(c) \subseteq Places(c) \cup {<<end, k>>}
    <3> DEFINE z == ks[i]
    <3>1. FallsTo(next, z)
      BY <2>4
    <3> HIDE DEF z
    <3>2. /\ Block(c, left(i), z, From(Append(path, i)), Places(c), Targets(c))
          /\ Targets(c) \subseteq Places(c) \cup {<<end, k>>}
      BY <2>5, <3>1, WhenClause
    <3> QED
      BY <3>2 DEF z
  <2> HIDE DEF ss, ks, Q, Ps, Ts, c, end, left, other
  <2> QED
    BY <2>2, <2>3, <2>6, Zenon DEF c
<1>7. ss \in Seq(Code) /\ Len(ss) = n
  <2>1. ss = [i \in 1..n |-> ss[i]]
    BY <1>1
  <2>2. \A i \in 1..n : ss[i] \in Code
    BY <1>6, Zenon DEF Block
  <2> DEFINE m == Len(s.whens)
  <2>3. m \in Nat
    BY <1>1
  <2> HIDE DEF ss, m
  <2> QED
    BY <2>1, <2>2, <2>3, SequenceOf, Zenon DEF m
<1>8. \A i, j \in 1..n : i # j => Q[i] \cap Q[j] = {}
  <2> SUFFICES ASSUME NEW i \in 1..n, NEW j \in 1..n, i # j
               PROVE  Q[i] \cap Q[j] = {}
    OBVIOUS
  <2>1. i \in Nat /\ j \in Nat
    BY <1>1
  <2>2. Q[i] = From(Append(path, i)) /\ Q[j] = From(Append(path, j))
    BY Zenon
  <2> QED
    BY <2>1, <2>2, PathsSeparate
<1>9. \A i \in 1..n : Q[i] \subseteq Behind(path) /\ Q[i] \cap L2 = {}
  <2> SUFFICES ASSUME NEW i \in 1..n
               PROVE  Q[i] \subseteq Behind(path) /\ Q[i] \cap L2 = {}
    OBVIOUS
  <2>1. i \in Nat /\ 0 \in Nat /\ i # 0
    BY <1>1
  <2>2. Q[i] = From(Append(path, i))
    BY Zenon
  <2> QED
    BY <2>1, <2>2, PathsSeparate
<1>10. L2 \subseteq Behind(path) /\ Behind(path) \subseteq From(path)
  <2>1. Behind(path) \subseteq From(path)
    BY DEF Behind
  <2> QED
    BY <2>1, PathsSeparate
<1>11. Right(c2, other, k, L2)
  BY <1>1, <1>2, ListCode DEF RightIn
<1>12. EmitEvaluate(s, path, k, emit) = Cat(Cat(c1, c2), c3)
  BY DEF EmitEvaluate, Cat, BrLabel
<1> HIDE DEF ss, ks, Q, Ps, Ts, L2, c2, end, other, n
<1>13. Block(c1, ks[0], ks[n], Upto(Q, n), Upto(Ps, n), Upto(Ts, n))
  <2>1. /\ ss \in Seq(Code)
        /\ \A i \in 1..Len(ss) : Block(ss[i], ks[i - 1], ks[i], Q[i], Ps[i], Ts[i])
        /\ \A i, j \in 1..Len(ss) : i # j => Q[i] \cap Q[j] = {}
    BY <1>6, <1>7, <1>8, Zenon
  <2>2. Block(c1, ks[0], ks[Len(ss)], Upto(Q, Len(ss)), Upto(Ps, Len(ss)), Upto(Ts, Len(ss)))
    BY <2>1, FlattenedBlocks
  <2> QED
    BY <1>7, <2>2, Zenon
<1>14. Block(c3, k, k, {end}, {<<end, k>>}, {<<end, k>>})
  BY <1>2, <1>3, LabelFalls, BrAndLabel
<1> HIDE DEF c1, c3
<1> DEFINE P1 == Upto(Ps, n)
           T1 == Upto(Ts, n)
           L1 == Upto(Q, n)
           P2 == Places(c2)
           T2 == Targets(c2)
<1>15. L1 \subseteq Behind(path) /\ L1 \cap L2 = {} /\ T1 \subseteq P1 \cup {<<end, k>>}
  BY <1>6, <1>9 DEF Upto
<1>16. Block(c2, other, k, L2, P2, T2) /\ T2 \subseteq P2
  BY <1>11 DEF Right
<1>17. Block(c1, <<s>> \o k, other, L1, P1, T1)
  BY <1>5, <1>13, Zenon
<1> HIDE DEF P1, T1, L1, P2, T2
<1>18. (L1 \cup L2) \cap {end} = {}
  BY <1>3, <1>10, <1>15
<1>19. Block(Cat(c1, c2), <<s>> \o k, k, L1 \cup L2, P1 \cup P2, T1 \cup T2)
  BY <1>15, <1>16, <1>17, Join, Zenon
<1> DEFINE c == Cat(Cat(c1, c2), c3)
           L == (L1 \cup L2) \cup {end}
           P == (P1 \cup P2) \cup {<<end, k>>}
           T == (T1 \cup T2) \cup {<<end, k>>}
<1>20. Block(c, <<s>> \o k, k, L, P, T)
  BY <1>14, <1>18, <1>19, Join, Zenon
<1>21. L \subseteq From(path) /\ T \subseteq P
  BY <1>3, <1>10, <1>15, <1>16
<1> HIDE DEF L, P, T
<1>22. Right(c, <<s>> \o k, k, From(path))
  BY <1>20, <1>21, Zenon DEF Right, Block
<1> QED
  BY <1>12, <1>22

\* The code of a statement is right if that of the lists in it is.
RightInLists(s, emit) == \A list \in ListsOf(s) : RightIn(list, emit)

LEMMA StatementCode ==
  ASSUME NEW emit, NEW s \in Statements, NEW path \in Seq(Nat), NEW k \in Seq(Statements),
         RightInLists(s, emit)
  PROVE  Right(EmitOneStatement(s, path, k, emit), <<s>> \o k, k, From(path))
<1> DEFINE again == <<s>> \o k
<1>1. k \in Seq(Steps) /\ s \in Steps
  BY StatementsAreSteps
<1>2. again \in Seq(Steps) /\ again # <<>> /\ Head(again) = s /\ Tail(again) = k
  BY <1>1, FirstStatement
<1>3. \A list \in ListsOf(s) : RightIn(list, emit)
  BY DEF RightInLists
<1> HIDE DEF again
<1>4. CASE s.op = "act"
  <2> DEFINE a == Do(s.name, again)
  <2>1. a \in Instructions /\ a.ins = "do" /\ a.rest = again /\ a.name = s.name
    BY <1>2, <1>4, PartsOf DEF Do, Instructions
  <2>2. EmitOneStatement(s, path, k, emit) = <<a>>
    BY <1>4 DEF EmitOneStatement, again
  <2> HIDE DEF a
  <2>3. AtItsStatement(a)
    BY <2>1 DEF AtItsStatement
  <2>4. FallsTo(a, k)
    BY <1>2, <1>4, <2>1 DEF FallsTo
  <2>5. a.ins \in {"do", "call", "ret"}
    BY <2>1
  <2>6. Right(<<a>>, a.rest, k, From(path))
    <3>1. a \in Instructions
      BY <2>1
    <3> QED
      BY <3>1, <2>3, <2>4, <2>5, InstructionAlone
  <2> QED
    BY <2>1, <2>2, <2>6, Zenon DEF again
<1>5. CASE s.op = "stop"
  <2> DEFINE a == Ret(again)
  <2>1. a \in Instructions /\ a.ins = "ret" /\ a.rest = again
    BY <1>2 DEF Ret, Instructions
  <2>2. EmitOneStatement(s, path, k, emit) = <<a>>
    BY <1>5 DEF EmitOneStatement, again
  <2> HIDE DEF a
  <2>3. AtItsStatement(a)
    BY <1>2, <1>5, <2>1 DEF AtItsStatement
  <2>4. FallsTo(a, k)
    BY <2>1 DEF FallsTo
  <2>5. a.ins \in {"do", "call", "ret"}
    BY <2>1
  <2>6. Right(<<a>>, a.rest, k, From(path))
    <3>1. a \in Instructions
      BY <2>1
    <3> QED
      BY <3>1, <2>3, <2>4, <2>5, InstructionAlone
  <2> QED
    BY <2>1, <2>2, <2>6, Zenon DEF again
<1>6. CASE s.op = "perform"
  <2> DEFINE a == CallTo(s.name, again)
  <2>1. a \in Instructions /\ a.ins = "call" /\ a.rest = again /\ a.name = s.name
    BY <1>2, <1>6, PartsOf DEF CallTo, Instructions
  <2>2. EmitOneStatement(s, path, k, emit) = <<a>>
    BY <1>6 DEF EmitOneStatement, again
  <2> HIDE DEF a
  <2>3. AtItsStatement(a)
    BY <2>1 DEF AtItsStatement
  <2>4. FallsTo(a, k)
    BY <1>2, <1>6, <2>1 DEF FallsTo
  <2>5. a.ins \in {"do", "call", "ret"}
    BY <2>1
  <2>6. Right(<<a>>, a.rest, k, From(path))
    <3>1. a \in Instructions
      BY <2>1
    <3> QED
      BY <3>1, <2>3, <2>4, <2>5, InstructionAlone
  <2> QED
    BY <2>1, <2>2, <2>6, Zenon DEF again
<1>7. CASE s.op = "if"
  <2>1. RightIn(s.then, emit) /\ RightIn(s.else, emit)
    <3>1. ListsOf(s) = {s.then, s.else}
      BY <1>7 DEF ListsOf
    <3> QED
      BY <1>3, <3>1
  <2>2. s.cond \in Conditions /\ s.then \in Seq(Statements) /\ s.else \in Seq(Statements)
    BY <1>7, PartsOf DEF Conditions
  <2>3. EmitOneStatement(s, path, k, emit) = EmitBranches("if", s, path, k, emit)
    BY <1>7 DEF EmitOneStatement
  <2>4. Right(EmitBranches("if", s, path, k, emit), <<s>> \o k, k, From(path))
    <3>1. "if" \in Kinds
      BY DEF Kinds
    <3> QED
      BY <1>1, <1>7, <2>1, <2>2, <3>1, Branches
  <2> QED
    BY <2>3, <2>4, Zenon DEF again
<1>8. CASE s.op = "until"
  <2>1. RightIn(s.body, emit)
    <3>1. ListsOf(s) = {s.body}
      BY <1>8 DEF ListsOf
    <3> QED
      BY <1>3, <3>1
  <2>2. s.cond \in Conditions /\ s.body \in Seq(Statements)
    BY <1>8, PartsOf DEF Conditions
  <2>3. EmitOneStatement(s, path, k, emit) = EmitPerformUntil(s, path, k, emit)
    BY <1>8 DEF EmitOneStatement
  <2>4. Right(EmitPerformUntil(s, path, k, emit), <<s>> \o k, k, From(path))
    BY <1>8, <2>1, <2>2, Loops
  <2> QED
    BY <2>3, <2>4, Zenon DEF again
<1>9. CASE s.op = "varying"
  <2>1. RightIn(VaryingLoop(s).body, emit)
    <3>1. ListsOf(s) = {VaryingLoop(s).body}
      BY <1>9 DEF ListsOf
    <3> QED
      BY <1>3, <3>1
  <2>2. EmitOneStatement(s, path, k, emit) = EmitPerformVarying(s, path, k, emit)
    BY <1>9 DEF EmitOneStatement
  <2>3. Right(EmitPerformVarying(s, path, k, emit), <<s>> \o k, k, From(path))
    BY <1>9, <2>1, CountingLoops
  <2> QED
    BY <2>2, <2>3, Zenon DEF again
<1>10. CASE s.op = "evaluate"
  <2>1. (\A i \in DOMAIN s.whens : RightIn(s.whens[i].body, emit)) /\ RightIn(s.other, emit)
    <3>1. ListsOf(s) = {s.whens[i].body : i \in DOMAIN s.whens} \cup {s.other}
      BY <1>10 DEF ListsOf
    <3> QED
      BY <1>3, <3>1
  <2>2. EmitOneStatement(s, path, k, emit) = EmitEvaluate(s, path, k, emit)
    BY <1>10 DEF EmitOneStatement
  <2>3. Right(EmitEvaluate(s, path, k, emit), <<s>> \o k, k, From(path))
    BY <1>10, <2>1, Evaluations
  <2> QED
    BY <2>2, <2>3, Zenon DEF again
<1>11. CASE s.op = "call"
  <2>1. RightIn(s.failed, emit) /\ RightIn(s.done, emit)
    <3>1. ListsOf(s) = {s.failed, s.done}
      BY <1>11 DEF ListsOf
    <3> QED
      BY <1>3, <3>1
  <2>2. EmitOneStatement(s, path, k, emit) = EmitCall(s, path, k, emit)
    BY <1>11 DEF EmitOneStatement
  <2>3. Right(EmitCall(s, path, k, emit), <<s>> \o k, k, From(path))
    BY <1>11, <2>1, CallsWithPhrases
  <2> QED
    BY <2>2, <2>3, Zenon DEF again
<1>12. s.op \in {"act", "stop", "perform", "if", "until", "varying", "evaluate", "call"}
  BY PartsOf
<1>13. \/ s.op = "act" \/ s.op = "stop" \/ s.op = "perform" \/ s.op = "if"
       \/ s.op = "until" \/ s.op = "varying" \/ s.op = "evaluate" \/ s.op = "call"
  BY <1>12
<1> QED
  BY <1>4, <1>5, <1>6, <1>7, <1>8, <1>9, <1>10, <1>11, <1>13, Zenon

----------------------------------------------------------------------------
(* The code of a statement depends on that of the statements in its lists.   *)

Agree(e, f, s) == \A path \in Seq(Nat), k \in Seq(Statements) : e[<<s, path, k>>] = f[<<s, path, k>>]
AgreeIn(e, f, list) == \A i \in DOMAIN list : Agree(e, f, list[i])
AgreeInLists(e, f, s) == \A list \in ListsOf(s) : AgreeIn(e, f, list)
SameCodeOf(list, path, k, e, f) == EmitStatements(list, path, k, e) = EmitStatements(list, path, k, f)

LEMMA SameList ==
  ASSUME NEW e, NEW f, NEW list \in Seq(Statements), NEW path \in Seq(Nat),
         NEW k \in Seq(Statements), AgreeIn(e, f, list)
  PROVE  SameCodeOf(list, path, k, e, f)
<1> DEFINE tail(i) == SubSeq(list, i + 1, Len(list)) \o k
<1>1. ASSUME NEW i \in DOMAIN list
      PROVE  e[<<list[i], Append(path, i), tail(i)>>] = f[<<list[i], Append(path, i), tail(i)>>]
  <2>1. i \in Nat /\ i \in 1..Len(list)
    OBVIOUS
  <2>2. Append(path, i) \in Seq(Nat)
    BY <2>1
  <2>3. tail(i) \in Seq(Statements)
    <3>1. SubSeq(list, i + 1, Len(list)) \in Seq(Statements)
      BY <2>1
    <3> QED
      BY <3>1, ConcatProperties
  <2>4. Agree(e, f, list[i])
    BY DEF AgreeIn
  <2> HIDE DEF tail
  <2> QED
    BY <2>2, <2>3, <2>4 DEF Agree
<1>2. [i \in DOMAIN list |-> e[list[i], Append(path, i), tail(i)]]
      = [i \in DOMAIN list |-> f[list[i], Append(path, i), tail(i)]]
  <2> HIDE DEF tail
  <2> QED
    BY <1>1, Zenon
<1> QED
  BY <1>2, Zenon DEF EmitStatements, SameCodeOf

LEMMA SameBranches ==
  ASSUME NEW e, NEW f, NEW kind, NEW s, NEW path \in Seq(Nat), NEW k \in Seq(Statements),
         s.then \in Seq(Statements), s.else \in Seq(Statements),
         AgreeIn(e, f, s.then), AgreeIn(e, f, s.else)
  PROVE  EmitBranches(kind, s, path, k, e) = EmitBranches(kind, s, path, k, f)
<1>1. Append(path, 1) \in Seq(Nat) /\ Append(path, 2) \in Seq(Nat)
  OBVIOUS
<1>2. SameCodeOf(s.then, Append(path, 1), k, e, f)
  BY <1>1, SameList, Zenon
<1>3. SameCodeOf(s.else, Append(path, 2), k, e, f)
  BY <1>1, SameList, Zenon
<1> QED
  BY <1>2, <1>3, Zenon DEF EmitBranches, SameCodeOf

LEMMA SameLoop ==
  ASSUME NEW e, NEW f, NEW s \in Statements, NEW path \in Seq(Nat), NEW k \in Seq(Statements),
         s.body \in Seq(Statements), AgreeIn(e, f, s.body)
  PROVE  EmitPerformUntil(s, path, k, e) = EmitPerformUntil(s, path, k, f)
<1> DEFINE again == <<s>> \o k
<1>1. Append(path, 1) \in Seq(Nat)
  OBVIOUS
<1>2. again \in Seq(Statements)
  OBVIOUS
<1> HIDE DEF again
<1>3. SameCodeOf(s.body, Append(path, 1), again, e, f)
  BY <1>1, <1>2, SameList, Zenon
<1> QED
  BY <1>3, Zenon DEF EmitPerformUntil, SameCodeOf, again

LEMMA SameClauses ==
  ASSUME NEW e, NEW f, NEW s \in Statements, NEW path \in Seq(Nat), NEW k \in Seq(Statements),
         s.op = "evaluate", \A i \in DOMAIN s.whens : AgreeIn(e, f, s.whens[i].body),
         AgreeIn(e, f, s.other)
  PROVE  EmitEvaluate(s, path, k, e) = EmitEvaluate(s, path, k, f)
<1>1. s.whens \in Seq(Clauses) /\ s.other \in Seq(Statements)
  BY PartsOf
<1>2. ASSUME NEW i \in DOMAIN s.whens
      PROVE  EmitWhen(s, i, path, k, e) = EmitWhen(s, i, path, k, f)
  <2>1. i \in Nat /\ s.whens[i] \in Clauses
    BY <1>1
  <2>2. Append(path, i) \in Seq(Nat) /\ s.whens[i].body \in Seq(Statements)
    BY <2>1 DEF Clauses
  <2>3. SameCodeOf(s.whens[i].body, Append(path, i), k, e, f)
    BY <2>2, SameList
  <2> QED
    BY <2>3, Zenon DEF EmitWhen, SameCodeOf
<1>3. [i \in DOMAIN s.whens |-> EmitWhen(s, i, path, k, e)]
      = [i \in DOMAIN s.whens |-> EmitWhen(s, i, path, k, f)]
  BY <1>2, Zenon
<1>4. SameCodeOf(s.other, Append(path, 0), k, e, f)
  <2>1. Append(path, 0) \in Seq(Nat)
    OBVIOUS
  <2> QED
    BY <1>1, <2>1, SameList
<1> QED
  BY <1>3, <1>4, Zenon DEF EmitEvaluate, SameCodeOf

LEMMA SameCode ==
  ASSUME NEW e, NEW f, NEW s \in Statements, NEW path \in Seq(Nat), NEW k \in Seq(Statements),
         AgreeInLists(e, f, s)
  PROVE  EmitOneStatement(s, path, k, e) = EmitOneStatement(s, path, k, f)
<1>1. \A list \in ListsOf(s) : AgreeIn(e, f, list)
  BY DEF AgreeInLists
<1>2. CASE s.op \in {"act", "stop", "perform"}
  BY <1>2 DEF EmitOneStatement
<1>3. CASE s.op = "if"
  <2>1. AgreeIn(e, f, s.then) /\ AgreeIn(e, f, s.else)
    <3>1. ListsOf(s) = {s.then, s.else}
      BY <1>3 DEF ListsOf
    <3> QED
      BY <1>1, <3>1
  <2>2. EmitBranches("if", s, path, k, e) = EmitBranches("if", s, path, k, f)
    BY <1>3, <2>1, PartsOf, SameBranches
  <2> QED
    BY <1>3, <2>2 DEF EmitOneStatement
<1>4. CASE s.op = "until"
  <2>1. AgreeIn(e, f, s.body)
    <3>1. ListsOf(s) = {s.body}
      BY <1>4 DEF ListsOf
    <3> QED
      BY <1>1, <3>1
  <2>2. EmitPerformUntil(s, path, k, e) = EmitPerformUntil(s, path, k, f)
    BY <1>4, <2>1, PartsOf, SameLoop
  <2> QED
    BY <1>4, <2>2 DEF EmitOneStatement
<1>5. CASE s.op = "varying"
  <2> DEFINE loop == VaryingLoop(s)
  <2>1. AgreeIn(e, f, loop.body)
    <3>1. ListsOf(s) = {loop.body}
      BY <1>5 DEF ListsOf
    <3> QED
      BY <1>1, <3>1
  <2>2. loop \in Statements /\ loop.op = "until"
    BY <1>5, PartsOf DEF VaryingLoop, Until
  <2>3. EmitOneStatement(s, path, k, e) = EmitPerformVarying(s, path, k, e)
    BY <1>5 DEF EmitOneStatement
  <2>4. EmitOneStatement(s, path, k, f) = EmitPerformVarying(s, path, k, f)
    BY <1>5 DEF EmitOneStatement
  <2> HIDE DEF loop
  <2>5. loop.body \in Seq(Statements)
    BY <2>2, PartsOf
  <2>6. EmitPerformUntil(loop, path, k, e) = EmitPerformUntil(loop, path, k, f)
    BY <2>1, <2>2, <2>5, SameLoop
  <2> QED
    BY <2>3, <2>4, <2>6, Zenon DEF EmitPerformVarying, loop
<1>6. CASE s.op = "evaluate"
  <2>1. (\A i \in DOMAIN s.whens : AgreeIn(e, f, s.whens[i].body)) /\ AgreeIn(e, f, s.other)
    <3>1. ListsOf(s) = {s.whens[i].body : i \in DOMAIN s.whens} \cup {s.other}
      BY <1>6 DEF ListsOf
    <3> QED
      BY <1>1, <3>1
  <2>2. EmitEvaluate(s, path, k, e) = EmitEvaluate(s, path, k, f)
    BY <1>6, <2>1, SameClauses
  <2> QED
    BY <1>6, <2>2 DEF EmitOneStatement
<1>7. CASE s.op = "call"
  <2> DEFINE choice == If("ok", s.done, s.failed)
  <2>1. AgreeIn(e, f, s.failed) /\ AgreeIn(e, f, s.done)
    <3>1. ListsOf(s) = {s.failed, s.done}
      BY <1>7 DEF ListsOf
    <3> QED
      BY <1>1, <3>1
  <2>2. choice.then = s.done /\ choice.else = s.failed
    BY DEF If
  <2>3. s.done \in Seq(Statements) /\ s.failed \in Seq(Statements)
    BY <1>7, PartsOf
  <2>4. Phrases(s) # <<>> => Phrases(s)[1] = choice
    BY DEF Phrases
  <2>5. EmitOneStatement(s, path, k, e) = EmitCall(s, path, k, e)
    BY <1>7 DEF EmitOneStatement
  <2>6. EmitOneStatement(s, path, k, f) = EmitCall(s, path, k, f)
    BY <1>7 DEF EmitOneStatement
  <2> HIDE DEF choice
  <2>7. EmitBranches("http", choice, path, k, e) = EmitBranches("http", choice, path, k, f)
    BY <2>1, <2>2, <2>3, SameBranches
  <2>8. EmitCall(s, path, k, e) = EmitCall(s, path, k, f)
    <3>1. CASE Phrases(s) = <<>>
      BY <3>1 DEF EmitCall
    <3>2. CASE Phrases(s) # <<>>
      BY <2>4, <2>7, <3>2, Zenon DEF EmitCall
    <3> QED
      BY <3>1, <3>2
  <2> QED
    BY <2>5, <2>6, <2>8, Zenon
<1> QED
  BY <1>2, <1>3, <1>4, <1>5, <1>6, <1>7, PartsOf

----------------------------------------------------------------------------
(* The code of the statements is defined: a statement's lists are less deep  *)
(* than it is.                                                               *)

Emits(e, s) ==
    \A path \in Seq(Nat), k \in Seq(Statements) : e[<<s, path, k>>] = EmitOneStatement(s, path, k, e)
Domain == Statements \X Seq(Nat) \X Seq(Statements)
EmitsBelow(e, n) == \A s \in Statements : Depth[s] < n => Emits(e, s)

LEMMA ListsAreLessDeep ==
  ASSUME NEW s \in Statements, NEW list \in ListsOf(s), NEW i \in DOMAIN list
  PROVE  /\ list[i] \in Statements /\ Depth[s] \in Nat /\ Depth[list[i]] \in Nat
         /\ Depth[list[i]] < Depth[s]
<1>1. list \in Seq(Statements) /\ Depth[list[i]] < Depth[s]
  BY StatementsAssumption
<1>2. list[i] \in Statements
  BY <1>1
<1>3. Depth \in [Statements -> Nat]
  BY StatementsAssumption
<1> QED
  BY <1>1, <1>2, <1>3

LEMMA CodeBelow ==
  ASSUME NEW n \in Nat
  PROVE  \E e : EmitsBelow(e, n)
<1> DEFINE S == {m \in Nat : \E e : EmitsBelow(e, m)}
<1>1. 0 \in S
  <2>1. \A s \in Statements : ~(Depth[s] < 0)
    BY StatementsAssumption
  <2>2. EmitsBelow(<<>>, 0)
    BY <2>1, Zenon DEF EmitsBelow
  <2> QED
    BY <2>2
<1>2. ASSUME NEW m \in Nat, m \in S
      PROVE  m + 1 \in S
  <2>1. PICK e : EmitsBelow(e, m)
    BY <1>2
  <2> DEFINE f == [at \in Domain |-> EmitOneStatement(at[1], at[2], at[3], e)]
  <2>2. ASSUME NEW s \in Statements, NEW path \in Seq(Nat), NEW k \in Seq(Statements)
        PROVE  f[<<s, path, k>>] = EmitOneStatement(s, path, k, e)
    BY DEF Domain
  <2> HIDE DEF f
  <2>3. ASSUME NEW s \in Statements, Depth[s] < m
        PROVE  Agree(e, f, s)
    BY <2>1, <2>2, <2>3, Zenon DEF Agree, Emits, EmitsBelow
  <2>4. ASSUME NEW s \in Statements, Depth[s] < m + 1
        PROVE  Emits(f, s)
    <3>1. ASSUME NEW list \in ListsOf(s), NEW i \in DOMAIN list
          PROVE  Agree(e, f, list[i])
      <4>1. list[i] \in Statements /\ Depth[list[i]] < m
        BY <2>4, ListsAreLessDeep
      <4> QED
        BY <2>3, <4>1
    <3>2. AgreeInLists(e, f, s)
      BY <3>1 DEF AgreeInLists, AgreeIn
    <3>3. ASSUME NEW path \in Seq(Nat), NEW k \in Seq(Statements)
          PROVE  f[<<s, path, k>>] = EmitOneStatement(s, path, k, f)
      <4>1. EmitOneStatement(s, path, k, e) = EmitOneStatement(s, path, k, f)
        BY <3>2, SameCode
      <4> QED
        BY <2>2, <4>1
    <3> QED
      BY <3>3 DEF Emits
  <2>5. EmitsBelow(f, m + 1)
    BY <2>4 DEF EmitsBelow
  <2> QED
    BY <2>5
<1> HIDE DEF S
<1>3. Nat \subseteq S
  BY <1>1, <1>2, Induction
<1> QED
  BY <1>3 DEF S

\* There is only one.
LEMMA CodeUnique ==
  ASSUME NEW e, NEW f, NEW n \in Nat, EmitsBelow(e, n), EmitsBelow(f, n),
         NEW s \in Statements, Depth[s] < n
  PROVE  Agree(e, f, s)
<1> DEFINE S == {m \in Nat : \A t \in Statements : Depth[t] = m /\ m < n => Agree(e, f, t)}
<1>1. ASSUME NEW m \in Nat, \A l \in 0..(m - 1) : l \in S
      PROVE  m \in S
  <2> SUFFICES ASSUME NEW t \in Statements, Depth[t] = m, m < n
               PROVE  Agree(e, f, t)
    OBVIOUS
  <2>1. ASSUME NEW list \in ListsOf(t), NEW i \in DOMAIN list
        PROVE  Agree(e, f, list[i])
    <3>1. list[i] \in Statements /\ Depth[list[i]] \in 0..(m - 1) /\ Depth[list[i]] < n
      BY ListsAreLessDeep
    <3> QED
      BY <1>1, <3>1
  <2>2. AgreeInLists(e, f, t)
    BY <2>1 DEF AgreeInLists, AgreeIn
  <2>3. Emits(e, t) /\ Emits(f, t)
    BY DEF EmitsBelow
  <2>4. ASSUME NEW path \in Seq(Nat), NEW k \in Seq(Statements)
        PROVE  e[<<t, path, k>>] = f[<<t, path, k>>]
    <3>1. EmitOneStatement(t, path, k, e) = EmitOneStatement(t, path, k, f)
      BY <2>2, SameCode
    <3> QED
      BY <2>3, <3>1 DEF Emits
  <2> QED
    BY <2>4 DEF Agree
<1> HIDE DEF S
<1>2. Nat \subseteq S
  BY <1>1, StrongInduction
<1>3. Depth[s] \in Nat
  BY StatementsAssumption
<1> QED
  BY <1>2, <1>3 DEF S

LEMMA EmitStatementIsDefined ==
  \A s \in Statements : Emits(EmitStatement, s)
<1> DEFINE Part(n) == CHOOSE e : EmitsBelow(e, n)
           whole == [at \in Domain |-> Part(Depth[at[1]] + 1)[at]]
           Body(g) == [at \in Domain |-> EmitOneStatement(at[1], at[2], at[3], g)]
<1>1. \A n \in Nat : EmitsBelow(Part(n), n)
  BY CodeBelow, Zenon
<1> HIDE DEF Part
<1>2. ASSUME NEW s \in Statements
      PROVE  Depth[s] \in Nat /\ Depth[s] + 1 \in Nat /\ Depth[s] < Depth[s] + 1
  BY StatementsAssumption
<1>3. ASSUME NEW s \in Statements
      PROVE  Agree(Part(Depth[s] + 1), whole, s)
  <2>1. ASSUME NEW path \in Seq(Nat), NEW k \in Seq(Statements)
        PROVE  whole[<<s, path, k>>] = Part(Depth[s] + 1)[<<s, path, k>>]
    BY DEF Domain
  <2> HIDE DEF whole
  <2> QED
    BY <2>1 DEF Agree
<1> HIDE DEF whole
<1>4. ASSUME NEW s \in Statements
      PROVE  Emits(whole, s)
  <2> DEFINE e == Part(Depth[s] + 1)
  <2>1. EmitsBelow(e, Depth[s] + 1)
    BY <1>1, <1>2
  <2>2. ASSUME NEW list \in ListsOf(s), NEW i \in DOMAIN list
        PROVE  Agree(e, whole, list[i])
    <3> DEFINE t == list[i]
               f == Part(Depth[t] + 1)
    <3>1. t \in Statements /\ Depth[t] \in Nat /\ Depth[s] \in Nat /\ Depth[t] < Depth[s]
      BY ListsAreLessDeep
    <3>2. EmitsBelow(f, Depth[t] + 1)
      BY <1>1, <1>2, <3>1
    <3>3. EmitsBelow(e, Depth[t] + 1)
      <4> HIDE DEF e, t
      <4>1. \A u \in Statements : Depth[u] < Depth[t] + 1 => Depth[u] < Depth[s] + 1
        BY <1>2, <3>1
      <4> QED
        BY <2>1, <4>1, Zenon DEF EmitsBelow
    <3>4. Agree(f, whole, t)
      BY <1>3, <3>1
    <3> HIDE DEF t, f, e
    <3>5. Agree(e, f, t)
      BY <1>2, <3>1, <3>2, <3>3, CodeUnique
    <3> QED
      BY <3>4, <3>5, Zenon DEF Agree, t
  <2>3. AgreeInLists(e, whole, s)
    <3> HIDE DEF e
    <3> QED
      BY <2>2 DEF AgreeInLists, AgreeIn
  <2>4. Emits(e, s) /\ Agree(e, whole, s)
    <3>1. Agree(e, whole, s)
      BY <1>3
    <3> HIDE DEF e
    <3> QED
      BY <1>2, <2>1, <3>1 DEF EmitsBelow
  <2> HIDE DEF e
  <2>5. ASSUME NEW path \in Seq(Nat), NEW k \in Seq(Statements)
        PROVE  whole[<<s, path, k>>] = EmitOneStatement(s, path, k, whole)
    <3>1. EmitOneStatement(s, path, k, e) = EmitOneStatement(s, path, k, whole)
      BY <2>3, SameCode
    <3>2. e[<<s, path, k>>] = EmitOneStatement(s, path, k, e)
      BY <2>4 DEF Emits
    <3>3. e[<<s, path, k>>] = whole[<<s, path, k>>]
      BY <2>4 DEF Agree
    <3> QED
      BY <3>1, <3>2, <3>3, Zenon
  <2> QED
    BY <2>5 DEF Emits
<1>5. whole = Body(whole)
  <2>1. whole = [at \in Domain |-> whole[at]]
    BY DEF whole
  <2>2. ASSUME NEW at \in Domain
        PROVE  whole[at] = EmitOneStatement(at[1], at[2], at[3], whole)
    <3>1. /\ at[1] \in Statements /\ at[2] \in Seq(Nat) /\ at[3] \in Seq(Statements)
          /\ at = <<at[1], at[2], at[3]>>
      BY DEF Domain
    <3>2. whole[<<at[1], at[2], at[3]>>] = EmitOneStatement(at[1], at[2], at[3], whole)
      BY <1>4, <3>1, Zenon DEF Emits
    <3> QED
      BY <3>1, <3>2
  <2> QED
    BY <2>1, <2>2, Zenon
<1>6. EmitStatement = Body(EmitStatement)
  <2>1. EmitStatement = CHOOSE g : g = Body(g)
    BY Zenon DEF EmitStatement, Domain
  <2> HIDE DEF Body
  <2> QED
    BY <1>5, <2>1, Zenon
<1> HIDE DEF Body
<1>7. ASSUME NEW s \in Statements, NEW path \in Seq(Nat), NEW k \in Seq(Statements)
      PROVE  EmitStatement[<<s, path, k>>] = EmitOneStatement(s, path, k, EmitStatement)
  <2>1. \A g : Body(g)[<<s, path, k>>] = EmitOneStatement(s, path, k, g)
    BY DEF Body, Domain
  <2> QED
    BY <1>6, <2>1, Zenon
<1> QED
  BY <1>7 DEF Emits

\* So it is right for every statement.
LEMMA StatementsRight ==
  \A s \in Statements : RightFor(s, EmitStatement)
<1> DEFINE S == {m \in Nat : \A s \in Statements : Depth[s] = m => RightFor(s, EmitStatement)}
<1>1. ASSUME NEW m \in Nat, \A l \in 0..(m - 1) : l \in S
      PROVE  m \in S
  <2> SUFFICES ASSUME NEW s \in Statements, Depth[s] = m
               PROVE  RightFor(s, EmitStatement)
    OBVIOUS
  <2>1. ASSUME NEW list \in ListsOf(s), NEW i \in DOMAIN list
        PROVE  RightFor(list[i], EmitStatement)
    <3>1. list[i] \in Statements /\ Depth[list[i]] \in 0..(m - 1)
      BY ListsAreLessDeep
    <3> QED
      BY <1>1, <3>1
  <2>2. RightInLists(s, EmitStatement)
    BY <2>1 DEF RightInLists, RightIn
  <2>3. Emits(EmitStatement, s)
    BY EmitStatementIsDefined
  <2>4. ASSUME NEW path \in Seq(Nat), NEW k \in Seq(Statements)
        PROVE  Right(EmitStatement[<<s, path, k>>], <<s>> \o k, k, From(path))
    <3>1. Right(EmitOneStatement(s, path, k, EmitStatement), <<s>> \o k, k, From(path))
      BY <2>2, StatementCode
    <3> QED
      BY <2>3, <3>1 DEF Emits
  <2> QED
    BY <2>4 DEF RightFor
<1> HIDE DEF S
<1>2. Nat \subseteq S
  BY <1>1, StrongInduction
<1>3. \A s \in Statements : Depth[s] \in Nat
  BY StatementsAssumption
<1> QED
  BY <1>2, <1>3, Zenon DEF S

----------------------------------------------------------------------------
(* The code of a paragraph.                                                  *)

\* It ends with a return; each label is there once, and with it what is to be
\* executed from it, for each branch to it.
IsCodeFor(c, body) ==
    /\ c \in Code /\ c # <<>>
    /\ c[1].rest = body /\ c[Len(c)].ins = "ret"
    /\ Flows(c, <<>>)
    /\ UniqueLabels(c) /\ Targets(c) \subseteq Places(c)

LEMMA ParagraphCode ==
  ASSUME NEW paragraph, paragraph.body \in Seq(Statements)
  PROVE  IsCodeFor(EmitParagraph(paragraph), paragraph.body)
<1> DEFINE body == paragraph.body
           c == EmitStatements(body, <<>>, <<>>, EmitStatement)
           a == Ret(<<>>)
           d == EmitParagraph(paragraph)
           L == Behind(<<>>)
           P == Places(c)
           T == Targets(c)
<1>1. Right(c, body \o <<>>, <<>>, L)
  <2>1. body \in Seq(Statements) /\ <<>> \in Seq(Nat) /\ <<>> \in Seq(Statements)
    OBVIOUS
  <2>2. \A i \in DOMAIN body : RightFor(body[i], EmitStatement)
    <3>1. \A i \in DOMAIN body : body[i] \in Statements
      BY <2>1
    <3> QED
      BY <3>1, StatementsRight, Zenon
  <2> HIDE DEF body
  <2> QED
    BY <2>1, <2>2, ListCode
<1>2. body \o <<>> = body /\ body \in Seq(Steps)
  <2>1. body \in Seq(Steps)
    BY StatementsAreSteps
  <2> QED
    BY <2>1, ConcatEmptySeq
<1>3. a \in Instructions /\ a.ins = "ret" /\ a.rest = <<>>
  BY DEF Ret, Instructions
<1>4. d = Append(c, a)
  BY DEF EmitParagraph
<1> HIDE DEF body, c, a, d, L
<1>5. Block(c, body, <<>>, L, P, T) /\ T \subseteq P
  BY <1>1, <1>2, Zenon DEF Right
<1>6. Block(<<a>>, a.rest, <<>>, {}, {}, {})
  <2>1. AtItsStatement(a)
    BY <1>3 DEF AtItsStatement
  <2>2. FallsTo(a, <<>>)
    BY <1>3 DEF FallsTo
  <2>3. a.ins \in {"do", "call", "ret"}
    BY <1>3
  <2>4. a \in Instructions
    BY <1>3
  <2> QED
    BY <2>1, <2>2, <2>3, <2>4, OneInstruction
<1> HIDE DEF P, T
<1>7. Block(Cat(c, <<a>>), body, <<>>, L \cup {}, P \cup {}, T \cup {})
  <2>1. Block(<<a>>, <<>>, <<>>, {}, {}, {})
    BY <1>3, <1>6
  <2> QED
    BY <1>5, <2>1, Join, Zenon
<1>8. c \in Code /\ Append(c, a) \in Code /\ Append(c, a) # <<>>
      /\ Append(c, a)[Len(Append(c, a))] = a /\ Append(c, a) = c \o <<a>>
  <2>1. c \in Seq(Instructions)
    BY <1>5 DEF Block, Code
  <2>2. a \in Instructions
    BY <1>3
  <2> QED
    BY <2>1, <2>2, AppendProperties, AppendIsConcat DEF Code
<1>9. d = Cat(c, <<a>>) /\ d \in Code /\ d # <<>> /\ d[Len(d)].ins = "ret"
  BY <1>3, <1>4, <1>8 DEF Cat
<1>10. Block(d, body, <<>>, L \cup {}, P \cup {}, T \cup {})
  BY <1>7, <1>9
<1>11. d[1].rest = body
  BY <1>9, <1>10 DEF Block, Entry
<1>12. Flows(d, <<>>) /\ UniqueLabels(d) /\ Targets(d) \subseteq Places(d)
  BY <1>5, <1>10 DEF Block
<1> QED
  BY <1>9, <1>11, <1>12 DEF IsCodeFor, d, body

LEMMA FunctionsRight ==
  ASSUME NEW p \in Programs, NEW i \in DOMAIN p
  PROVE  IsCodeFor(Codes[p][i], p[i].body) /\ p[i].body \in Seq(Statements) /\ p[i].name \in STRING
<1> DEFINE R == [name : STRING, body : Seq(Statements)]
<1>1. p[i] \in R
  <2>1. p \in Seq(R)
    BY ProgramsAssumption
  <2> HIDE DEF R
  <2> QED
    BY <2>1
<1>2. p[i].body \in Seq(Statements) /\ p[i].name \in STRING
  BY <1>1
<1>3. Codes[p][i] = EmitParagraph(p[i])
  BY Zenon DEF Codes
<1>4. IsCodeFor(EmitParagraph(p[i]), p[i].body)
  BY <1>2, ParagraphCode
<1> QED
  BY <1>2, <1>3, <1>4, Zenon

\* Only a return has no instruction behind it.
LEMMA GoesOn ==
  ASSUME NEW c, NEW body, IsCodeFor(c, body), NEW pc \in DOMAIN c
  PROVE  /\ c[pc] \in Instructions /\ AtItsStatement(c[pc]) /\ DOMAIN c \subseteq Nat
         /\ 1 \in DOMAIN c
         /\ c[pc].ins # "ret" => pc + 1 \in DOMAIN c /\ FallsTo(c[pc], c[pc + 1].rest)
<1>1. c \in Seq(Instructions) /\ c # <<>> /\ c[Len(c)].ins = "ret"
  BY DEF IsCodeFor, Code
<1>2. DOMAIN c = 1..Len(c) /\ Len(c) \in Nat /\ Len(c) # 0 /\ c[pc] \in Instructions
  BY <1>1
<1>3. AtItsStatement(c[pc]) /\ FallsTo(c[pc], After(c, pc, <<>>))
  BY DEF IsCodeFor, Flows
<1>4. ASSUME c[pc].ins # "ret"
      PROVE  pc + 1 \in DOMAIN c /\ FallsTo(c[pc], c[pc + 1].rest)
  <2>1. pc < Len(c) /\ pc + 1 \in DOMAIN c
    BY <1>1, <1>2, <1>4
  <2> QED
    BY <1>3, <2>1 DEF After
<1> QED
  BY <1>2, <1>3, <1>4

\* A branch leads to where it should.
LEMMA BranchesThere ==
  ASSUME NEW c, NEW body, IsCodeFor(c, body), NEW pc \in DOMAIN c, NEW label, NEW list,
         <<label, list>> \in TargetsOf(c[pc]), NEW to \in DOMAIN c,
         c[to].ins = "label", c[to].label = label
  PROVE  c[to].rest = list
<1>1. <<label, list>> \in Places(c)
  BY DEF IsCodeFor, Targets
<1>2. PICK i \in DOMAIN c : c[i].ins = "label" /\ <<label, list>> = <<c[i].label, c[i].rest>>
  BY <1>1 DEF Places
<1>3. c[i].label = label /\ c[i].rest = list
  BY <1>2
<1>4. i = to
  BY <1>2, <1>3 DEF IsCodeFor, UniqueLabels
<1> QED
  BY <1>3, <1>4

----------------------------------------------------------------------------
(* What the functions under way have still to execute.                       *)

\* An element before others.
LEMMA Before ==
  ASSUME NEW S, NEW x \in S, NEW list \in Seq(S)
  PROVE  /\ <<x>> \o list \in Seq(S) /\ Len(<<x>> \o list) = Len(list) + 1
         /\ (<<x>> \o list)[1] = x
         /\ \A i \in 1..Len(list) : (<<x>> \o list)[i + 1] = list[i]
<1> DEFINE one == <<x>>
<1>1. one \in Seq(S) /\ Len(one) = 1 /\ one[1] = x /\ Len(list) \in Nat
  OBVIOUS
<1> HIDE DEF one
<1>2. /\ one \o list \in Seq(S) /\ Len(one \o list) = Len(one) + Len(list)
      /\ \A i \in 1..(Len(one) + Len(list)) :
            (one \o list)[i] = IF i <= Len(one) THEN one[i] ELSE list[i - Len(one)]
  BY <1>1, ConcatProperties
<1> DEFINE cat == one \o list
<1>3. /\ cat \in Seq(S) /\ Len(cat) = 1 + Len(list)
      /\ \A i \in 1..(1 + Len(list)) : cat[i] = IF i <= 1 THEN one[i] ELSE list[i - 1]
  <2> HIDE DEF cat
  <2> QED
    BY <1>1, <1>2 DEF cat
<1> HIDE DEF cat
<1>4. cat[1] = x
  BY <1>1, <1>3
<1>5. \A i \in 1..Len(list) : cat[i + 1] = list[i]
  BY <1>1, <1>3
<1> QED
  BY <1>1, <1>3, <1>4, <1>5 DEF cat, one

LEMMA RegroupIn ==
  ASSUME NEW S
  PROVE  \A a, b, c \in Seq(S) : Associative(a, b, c)
  BY ConcatAssociative DEF Associative

LEMMA FlattenFirst ==
  ASSUME NEW S, NEW a \in Seq(S), NEW ss \in Seq(Seq(S))
  PROVE  /\ FlattenSeq(<<a>> \o ss) = a \o FlattenSeq(ss)
         /\ FlattenSeq(ss) \in Seq(S)
<1> DEFINE ts == <<a>> \o ss
           n == Len(ss)
<1>1. /\ n \in Nat /\ ss \in [1..n -> Seq(S)]
      /\ ts \in Seq(Seq(S)) /\ Len(ts) = n + 1 /\ ts[1] = a
      /\ \A i \in 1..n : ts[i + 1] = ss[i]
  <2> DEFINE R == Seq(S)
  <2>1. a \in R /\ ss \in Seq(R) /\ n \in Nat /\ ss \in [1..n -> R]
    OBVIOUS
  <2> HIDE DEF R
  <2>2. /\ ts \in Seq(R) /\ Len(ts) = n + 1 /\ ts[1] = a
        /\ \A i \in 1..n : ts[i + 1] = ss[i]
    BY <2>1, Before
  <2> QED
    BY <2>1, <2>2 DEF R
<1> HIDE DEF ts
<1>2. PICK f : IsFlattening(f, ss, S)
  BY Flattening
<1>3. PICK g : IsFlattening(g, ts, S)
  BY <1>1, Flattening
<1>4. /\ f \in [0..n -> Seq(S)] /\ f[0] = <<>> /\ FlattenSeq(ss) = f[n]
      /\ \A i \in 1..n : f[i] = f[i - 1] \o ss[i]
  BY <1>2 DEF IsFlattening
<1>5. /\ g[0] = <<>> /\ FlattenSeq(ts) = g[n + 1]
      /\ \A i \in 1..(n + 1) : g[i] = g[i - 1] \o ts[i]
  BY <1>1, <1>3 DEF IsFlattening
<1> HIDE DEF n
<1> DEFINE T == {i \in Nat : i <= n => g[i + 1] = a \o f[i]}
<1>6. 0 \in T
  <2>1. g[1] = <<>> \o a
    <3>1. 1 \in 1..(n + 1) /\ 1 - 1 = 0
      BY <1>1
    <3> QED
      BY <1>1, <1>5, <3>1
  <2>2. <<>> \o a = a /\ a \o <<>> = a
    BY ConcatEmptySeq
  <2> QED
    BY <1>4, <2>1, <2>2
<1>7. ASSUME NEW i \in Nat, i \in T
      PROVE  i + 1 \in T
  <2> SUFFICES ASSUME i + 1 <= n
               PROVE  g[(i + 1) + 1] = a \o f[i + 1]
    OBVIOUS
  <2>1. /\ i + 1 \in 1..n /\ (i + 1) + 1 \in 1..(n + 1) /\ i \in 0..n
        /\ ((i + 1) + 1) - 1 = i + 1 /\ (i + 1) - 1 = i /\ i <= n
    BY <1>1
  <2>2. g[(i + 1) + 1] = g[i + 1] \o ss[i + 1]
    BY <1>1, <1>5, <2>1
  <2>3. g[i + 1] = a \o f[i]
    BY <1>7, <2>1
  <2>4. f[i + 1] = f[i] \o ss[i + 1]
    BY <1>4, <2>1
  <2>5. f[i] \in Seq(S) /\ ss[i + 1] \in Seq(S)
    BY <1>1, <1>4, <2>1
  <2>6. (a \o f[i]) \o ss[i + 1] = a \o (f[i] \o ss[i + 1])
    <3>1. Associative(a, f[i], ss[i + 1])
      BY <2>5, RegroupIn
    <3> QED
      BY <3>1, Zenon DEF Associative
  <2> QED
    BY <2>2, <2>3, <2>4, <2>6
<1> HIDE DEF T
<1>8. n \in T
  BY <1>1, <1>6, <1>7, Induction
<1>9. g[n + 1] = a \o f[n]
  BY <1>1, <1>8 DEF T
<1>10. f[n] \in Seq(S)
  BY <1>1, <1>4
<1> QED
  BY <1>4, <1>5, <1>9, <1>10 DEF ts

LEMMA ReverseAppend ==
  ASSUME NEW S, NEW rs \in Seq(S), NEW x \in S
  PROVE  /\ Reverse(Append(rs, x)) = <<x>> \o Reverse(rs)
         /\ Reverse(rs) \in Seq(S)
<1> DEFINE n == Len(rs)
           all == Append(rs, x)
           back == Reverse(rs)
           one == <<x>>
<1>1. /\ n \in Nat /\ all \in Seq(S) /\ Len(all) = n + 1 /\ all[n + 1] = x
      /\ \A i \in 1..n : all[i] = rs[i] /\ rs[i] \in S
  <2>1. n \in Nat /\ \A i \in 1..n : rs[i] \in S
    OBVIOUS
  <2> QED
    BY <2>1, AppendProperties
<1> HIDE DEF all
<1>2. back = [i \in 1..n |-> rs[(n - i) + 1]]
  BY DEF Reverse
<1>3. Reverse(all) = [i \in 1..(n + 1) |-> all[((n + 1) - i) + 1]]
  BY <1>1 DEF Reverse
<1> HIDE DEF n, back
<1>4. back \in Seq(S) /\ Len(back) = n /\ \A i \in 1..n : back[i] = rs[(n - i) + 1]
  <2>1. \A i \in 1..n : (n - i) + 1 \in 1..n
    BY <1>1
  <2>2. \A i \in 1..n : back[i] = rs[(n - i) + 1]
    BY <1>2
  <2>3. \A i \in 1..n : back[i] \in S
    BY <1>1, <2>1, <2>2
  <2>4. back = [i \in 1..n |-> back[i]]
    BY <1>2
  <2> QED
    BY <1>1, <2>2, <2>3, <2>4, SequenceOf
<1>5. /\ one \o back \in Seq(S) /\ Len(one \o back) = n + 1 /\ (one \o back)[1] = x
      /\ \A i \in 1..n : (one \o back)[i + 1] = back[i]
  BY <1>4, Before
<1> DEFINE cat == one \o back
<1>6. /\ cat \in Seq(S) /\ Len(cat) = n + 1 /\ cat[1] = x
      /\ \A i \in 1..n : cat[i + 1] = back[i]
  BY <1>5
<1> HIDE DEF one, cat
<1>7. ASSUME NEW i \in 1..(n + 1)
      PROVE  all[((n + 1) - i) + 1] = cat[i]
  <2>1. CASE i = 1
    BY <1>1, <1>6, <2>1
  <2>2. CASE i # 1
    <3>1. i - 1 \in 1..n /\ ((n + 1) - i) + 1 \in 1..n /\ (n - (i - 1)) + 1 = ((n + 1) - i) + 1
      BY <1>1, <2>2
    <3>2. cat[i] = back[i - 1]
      <4>1. (i - 1) + 1 = i
        BY <1>1
      <4> QED
        BY <1>6, <3>1, <4>1
    <3> QED
      BY <1>1, <1>4, <3>1, <3>2
  <2> QED
    BY <2>1, <2>2
<1>8. Reverse(all) = [i \in 1..(n + 1) |-> cat[i]]
  BY <1>3, <1>7
<1>9. cat = [i \in 1..(n + 1) |-> cat[i]]
  BY <1>1, <1>6
<1> QED
  BY <1>4, <1>8, <1>9 DEF all, back, cat, one

\* The frames of a program, and what they have still to execute.
At(p) ==
    {f \in [para : Nat, pc : Nat] : f.para \in DOMAIN p /\ f.pc \in DOMAIN Codes[p][f.para]}
Rest(p, f) == Codes[p][f.para][f.pc].rest
Rests(p, fs) == [i \in DOMAIN fs |-> Rest(p, fs[i])]
TodoOf(p, fs) == FlattenSeq(Reverse(Rests(p, fs)))

LEMMA RestIsAList ==
  ASSUME NEW p \in Programs, NEW f \in At(p)
  PROVE  Rest(p, f) \in Seq(Steps)
<1>1. f.para \in DOMAIN p /\ f.pc \in DOMAIN Codes[p][f.para]
  BY DEF At
<1>2. IsCodeFor(Codes[p][f.para], p[f.para].body)
  BY <1>1, FunctionsRight
<1>3. Codes[p][f.para][f.pc] \in Instructions
  BY <1>1, <1>2, GoesOn
<1> DEFINE c == Codes[p][f.para][f.pc]
<1>4. c \in Instructions
  BY <1>3
<1> HIDE DEF c
<1>5. c.rest \in Seq(Steps)
  BY <1>4 DEF Instructions
<1> QED
  BY <1>5 DEF Rest, c

LEMMA RestsAreLists ==
  ASSUME NEW p \in Programs, NEW fs \in Seq(At(p))
  PROVE  Rests(p, fs) \in Seq(Seq(Steps)) /\ Len(Rests(p, fs)) = Len(fs)
<1> DEFINE n == Len(fs)
           rs == Rests(p, fs)
<1>1. n \in Nat /\ DOMAIN fs = 1..n /\ \A i \in 1..n : fs[i] \in At(p)
  OBVIOUS
<1>2. rs = [i \in 1..n |-> Rest(p, fs[i])]
  BY <1>1 DEF Rests
<1> HIDE DEF n, rs
<1>3. rs = [i \in 1..n |-> rs[i]] /\ \A i \in 1..n : rs[i] = Rest(p, fs[i])
  BY <1>2
<1>4. \A i \in 1..n : rs[i] \in Seq(Steps)
  BY <1>1, <1>3, RestIsAList
<1> QED
  BY <1>1, <1>3, <1>4, SequenceOf DEF n, rs

LEMMA NothingToDo ==
  ASSUME NEW p
  PROVE  TodoOf(p, <<>>) = <<>>
<1>1. Rests(p, <<>>) = <<>>
  BY DEF Rests
<1>2. Reverse(<<>>) = <<>>
  BY DEF Reverse
<1>3. FlattenSeq(<<>>) = <<>>
  BY DEF FlattenSeq
<1> QED
  BY <1>1, <1>2, <1>3, Zenon DEF TodoOf

\* The last function called comes first.
LEMMA TodoOfLast ==
  ASSUME NEW p \in Programs, NEW fs \in Seq(At(p)), NEW f \in At(p)
  PROVE  /\ TodoOf(p, Append(fs, f)) = Rest(p, f) \o TodoOf(p, fs)
         /\ TodoOf(p, fs) \in Seq(Steps) /\ Rest(p, f) \in Seq(Steps)
<1> DEFINE rs == Rests(p, fs)
           x == Rest(p, f)
           all == Append(fs, f)
           n == Len(fs)
<1>1. rs \in Seq(Seq(Steps)) /\ x \in Seq(Steps) /\ Len(rs) = n
  BY RestIsAList, RestsAreLists
<1>2. Rests(p, all) = Append(rs, x)
  <2>1. /\ n \in Nat /\ DOMAIN fs = 1..n /\ DOMAIN all = 1..(n + 1)
        /\ all[n + 1] = f /\ \A i \in 1..n : all[i] = fs[i]
    OBVIOUS
  <2>2. Rests(p, all) = [i \in 1..(n + 1) |-> Rest(p, all[i])]
    BY <2>1 DEF Rests
  <2>3. \A i \in 1..n : rs[i] = Rest(p, fs[i])
    BY <2>1 DEF Rests
  <2> DEFINE S == Seq(Steps)
             bs == Append(rs, x)
  <2>4. rs \in Seq(S) /\ x \in S
    BY <1>1
  <2> HIDE DEF S, rs, x
  <2>5. /\ bs \in Seq(S) /\ Len(bs) = n + 1 /\ bs[n + 1] = x
        /\ \A i \in 1..n : bs[i] = rs[i]
    BY <1>1, <2>4, AppendProperties
  <2> HIDE DEF bs, all, n
  <2>6. bs = [i \in 1..(n + 1) |-> bs[i]]
    BY <2>1, <2>5
  <2>7. ASSUME NEW i \in 1..(n + 1)
        PROVE  Rest(p, all[i]) = bs[i]
    <3>1. CASE i = n + 1
      BY <2>1, <2>5, <3>1 DEF x
    <3>2. CASE i # n + 1
      <4>1. i \in 1..n
        BY <2>1, <3>2
      <4> QED
        BY <2>1, <2>3, <2>5, <4>1
    <3> QED
      BY <3>1, <3>2
  <2> QED
    BY <2>2, <2>6, <2>7, Zenon DEF bs
<1> HIDE DEF rs, x, all, n
<1>3. Reverse(Append(rs, x)) = <<x>> \o Reverse(rs) /\ Reverse(rs) \in Seq(Seq(Steps))
  <2> DEFINE S == Seq(Steps)
  <2>1. rs \in Seq(S) /\ x \in S
    BY <1>1
  <2> HIDE DEF S
  <2>2. Reverse(Append(rs, x)) = <<x>> \o Reverse(rs) /\ Reverse(rs) \in Seq(S)
    BY <2>1, ReverseAppend
  <2> QED
    BY <2>2 DEF S
<1>4. /\ FlattenSeq(<<x>> \o Reverse(rs)) = x \o FlattenSeq(Reverse(rs))
      /\ FlattenSeq(Reverse(rs)) \in Seq(Steps)
  BY <1>1, <1>3, FlattenFirst
<1> QED
  BY <1>1, <1>2, <1>3, <1>4, Zenon DEF TodoOf, rs, x, all

----------------------------------------------------------------------------
(* The steps of the code.                                                    *)

LEMMA StepParts ==
  ASSUME NEW s \in Steps
  PROVE  /\ s.op = "if" => s.then \in Seq(Steps) /\ s.else \in Seq(Steps)
         /\ s.op = "until" => s.body \in Seq(Steps)
         /\ s.op = "varying" => VaryingLoop(s) \in Steps
         /\ s.op = "evaluate" =>
               /\ s.other \in Seq(Steps)
               /\ s.whens # <<>> => /\ Head(s.whens).body \in Seq(Steps)
                                    /\ Evaluate(Tail(s.whens), s.other) \in Steps
         /\ s.op = "call" => Phrases(s) \in Seq(Steps)
<1>0. Statements \subseteq Steps /\ \A list \in Seq(Statements) : list \in Seq(Steps)
  BY StatementsAreSteps
<1>1. CASE s \in Statements
  <2>1. s.op = "if" => s.then \in Seq(Steps) /\ s.else \in Seq(Steps)
    BY <1>0, <1>1, PartsOf
  <2>2. s.op = "until" => s.body \in Seq(Steps)
    BY <1>0, <1>1, PartsOf
  <2>3. s.op = "varying" => VaryingLoop(s) \in Steps
    BY <1>0, <1>1, PartsOf
  <2>4. ASSUME s.op = "evaluate"
        PROVE  /\ s.other \in Seq(Steps) /\ Head(s.whens).body \in Seq(Steps)
               /\ Evaluate(Tail(s.whens), s.other) \in Steps
    <3>1. s.whens \in Seq(Clauses) /\ s.whens # <<>> /\ s.other \in Seq(Statements)
      BY <1>1, <2>4, PartsOf
    <3>2. Head(s.whens) \in Clauses /\ 1 \in 1..Len(s.whens) /\ 2 \in 1..(Len(s.whens) + 1)
      BY <3>1
    <3>3. Head(s.whens).body \in Seq(Statements)
      BY <3>2 DEF Clauses
    <3>4. WhensFrom(s, 1) = s /\ WhensFrom(s, 1 + 1) \in Steps
          /\ Evaluate(Tail(WhensFrom(s, 1).whens), WhensFrom(s, 1).other) = WhensFrom(s, 1 + 1)
      BY <1>1, <2>4, <3>2, 1 + 1 = 2, LeftOfEvaluate
    <3> QED
      BY <1>0, <3>1, <3>3, <3>4, Zenon
  <2>5. ASSUME s.op = "call"
        PROVE  Phrases(s) \in Seq(Steps)
    <3> DEFINE choice == If("ok", s.done, s.failed)
    <3>1. choice \in Steps
      BY <1>1, <2>5 DEF Steps
    <3> HIDE DEF choice
    <3>2. <<choice>> \in Seq(Steps) /\ <<>> \in Seq(Steps)
      BY <3>1
    <3> QED
      BY <3>2, Zenon DEF Phrases, choice
  <2> QED
    BY <2>1, <2>2, <2>3, <2>4, <2>5
<1>2. ASSUME NEW t \in Statements, t.op = "evaluate", NEW i \in Nat \ {0}, s = WhensFrom(t, i)
      PROVE  /\ s.op = "evaluate" /\ s.other \in Seq(Steps)
             /\ s.whens # <<>> => /\ Head(s.whens).body \in Seq(Steps)
                                  /\ Evaluate(Tail(s.whens), s.other) \in Steps
  <2> DEFINE n == Len(t.whens)
  <2>1. t.whens \in Seq(Clauses) /\ t.other \in Seq(Statements) /\ n \in Nat
    BY <1>2, PartsOf
  <2>2. s.op = "evaluate" /\ s.other = t.other /\ s.whens = SubSeq(t.whens, i, n)
    BY <1>2 DEF WhensFrom, Evaluate
  <2>3. ASSUME s.whens # <<>>
        PROVE  /\ Head(s.whens).body \in Seq(Steps)
               /\ Evaluate(Tail(s.whens), s.other) \in Steps
    <3>1. i \in 1..n
      <4>1. CASE n < i
        <5>1. n \in Int /\ i \in Int
          BY <2>1
        <5> HIDE DEF n
        <5>2. SubSeq(t.whens, i, n) = <<>>
          BY <4>1, <5>1, SubSeqEmpty
        <5> QED
          BY <2>2, <2>3, <5>2
      <4> QED
        BY <2>1, <4>1
    <3>2. Head(s.whens) = t.whens[i] /\ Evaluate(Tail(s.whens), s.other) = WhensFrom(t, i + 1)
      BY <1>2, <3>1, LeftOfEvaluate, Zenon
    <3>3. i + 1 \in 1..(n + 1) /\ t.whens[i] \in Clauses
      BY <2>1, <3>1
    <3>4. WhensFrom(t, i + 1) \in Steps
      BY <1>2, <3>3, LeftOfEvaluate
    <3>5. t.whens[i].body \in Seq(Statements)
      BY <3>3 DEF Clauses
    <3> QED
      BY <1>0, <3>2, <3>4, <3>5, Zenon
  <2> QED
    BY <1>0, <2>1, <2>2, <2>3
<1>3. ASSUME NEW t \in Statements, t.op = "call", s = If("ok", t.done, t.failed)
      PROVE  s.op = "if" /\ s.then \in Seq(Steps) /\ s.else \in Seq(Steps)
  <2>1. t.done \in Seq(Statements) /\ t.failed \in Seq(Statements)
    BY <1>3, PartsOf
  <2>2. s.op = "if" /\ s.then = t.done /\ s.else = t.failed
    BY <1>3 DEF If
  <2> QED
    BY <1>0, <2>1, <2>2
<1>4. \/ s \in Statements
      \/ \E t \in Statements : \E i \in Nat \ {0} : t.op = "evaluate" /\ s = WhensFrom(t, i)
      \/ \E t \in Statements : t.op = "call" /\ s = If("ok", t.done, t.failed)
  BY DEF Steps
<1>5. CASE \E t \in Statements : \E i \in Nat \ {0} : t.op = "evaluate" /\ s = WhensFrom(t, i)
  BY <1>2, <1>5
<1>6. CASE \E t \in Statements : t.op = "call" /\ s = If("ok", t.done, t.failed)
  BY <1>3, <1>6
<1> QED
  BY <1>1, <1>4, <1>5, <1>6

\* The inductive invariant: every function under way is at an instruction.
IInv ==
    /\ program \in Programs
    /\ frames \in Seq(At(program))
    /\ Len(frames) <= MaxCalls
    /\ out.event \in {"none", "done", "tested"}

\* The functions below the top one, and the top one at another instruction.
Others == SubSeq(frames, 1, Len(frames) - 1)
TopAt(pc) == [Top EXCEPT !.pc = pc]

LEMMA FramesShape ==
  ASSUME IInv, frames # <<>>
  PROVE  /\ Others \in Seq(At(program)) /\ Top \in At(program)
         /\ Len(frames) \in Nat /\ Len(frames) = Len(Others) + 1
         /\ frames = Append(Others, Top)
         /\ \A pc : [frames EXCEPT ![Len(frames)].pc = pc] = Append(Others, TopAt(pc))
<1> DEFINE S == At(program)
           n == Len(frames)
<1>1. frames \in Seq(S) /\ n \in Nat /\ n # 0 /\ n \in 1..n /\ Top = frames[n]
  BY DEF IInv, Top
<1>0. n \in Nat
  BY <1>1
<1> HIDE DEF S
<1>2. frames[n] \in S
  BY <1>1
<1>3. frames = [i \in 1..n |-> frames[i]]
  BY <1>1
<1>4. Others \in Seq(S) /\ Len(Others) = n - 1 /\ \A i \in 1..(n - 1) : Others[i] = frames[i]
  <2>1. 1 \in Int /\ n - 1 \in Int /\ \A i \in 1..(n - 1) : frames[i] \in S
    BY <1>1
  <2> DEFINE m == n - 1
  <2>4. Others = SubSeq(frames, 1, m) /\ m \in Nat
    BY <1>1 DEF Others
  <2>5. \A i \in 1..m : frames[i] \in S
    BY <2>1
  <2> HIDE DEF m
  <2>6. /\ Others \in Seq(S) /\ Len(Others) = IF 1 <= m THEN (m - 1) + 1 ELSE 0
        /\ \A i \in 1..((m - 1) + 1) : Others[i] = frames[(1 + i) - 1]
    BY <2>4, <2>5, SubSeqProperties
  <2>7. /\ Len(Others) = m
        /\ \A i \in 1..m : Others[i] = frames[i]
    BY <2>4, <2>6
  <2> QED
    BY <2>6, <2>7 DEF m
<1> HIDE DEF Others, Top
<1>5. ASSUME NEW f
      PROVE  /\ Append(Others, f) = [i \in 1..n |-> Append(Others, f)[i]]
             /\ Append(Others, f)[n] = f
             /\ \A i \in 1..(n - 1) : Append(Others, f)[i] = frames[i]
  <2>1. Others \in Seq(S \cup {f}) /\ f \in S \cup {f}
    BY <1>4
  <2> DEFINE all == Append(Others, f)
             R == S \cup {f}
  <2> HIDE DEF R
  <2>2. /\ all \in Seq(R) /\ Len(all) = (n - 1) + 1 /\ all[(n - 1) + 1] = f
        /\ \A i \in 1..(n - 1) : all[i] = Others[i]
    BY <1>4, <2>1, AppendProperties DEF R
  <2> HIDE DEF all, n
  <2>3. (n - 1) + 1 = n
    BY <1>1
  <2>4. all = [i \in 1..n |-> all[i]]
    BY <2>2, <2>3
  <2> QED
    BY <1>4, <2>2, <2>3, <2>4 DEF all
<1> HIDE DEF n
<1>6. frames = Append(Others, Top)
  <2> DEFINE all == Append(Others, Top)
  <2>1. /\ all = [i \in 1..n |-> all[i]] /\ all[n] = frames[n]
        /\ \A i \in 1..(n - 1) : all[i] = frames[i]
    BY <1>1, <1>5
  <2> HIDE DEF all
  <2>2. ASSUME NEW i \in 1..n
        PROVE  all[i] = frames[i]
    <3>1. i = n \/ i \in 1..(n - 1)
      BY <1>0
    <3> QED
      BY <2>1, <3>1, Zenon
  <2> QED
    BY <1>3, <2>1, <2>2 DEF all
<1>7. ASSUME NEW pc
      PROVE  [frames EXCEPT ![n].pc = pc] = Append(Others, TopAt(pc))
  <2> DEFINE all == Append(Others, TopAt(pc))
             next == [frames EXCEPT ![n].pc = pc]
  <2>1. /\ all = [i \in 1..n |-> all[i]] /\ all[n] = TopAt(pc)
        /\ \A i \in 1..(n - 1) : all[i] = frames[i]
    BY <1>5
  <2>2. next = [i \in 1..n |-> IF i = n THEN [frames[n] EXCEPT !.pc = pc] ELSE frames[i]]
    BY <1>1, <1>3
  <2>3. TopAt(pc) = [frames[n] EXCEPT !.pc = pc]
    BY <1>1 DEF TopAt
  <2> HIDE DEF all, next
  <2> DEFINE top == [frames[n] EXCEPT !.pc = pc]
  <2> HIDE DEF top
  <2>4. ASSUME NEW i \in 1..n
        PROVE  all[i] = IF i = n THEN top ELSE frames[i]
    <3>1. i = n \/ (i # n /\ i \in 1..(n - 1))
      BY <1>0
    <3> QED
      BY <2>1, <2>3, <3>1, Zenon DEF top
  <2>5. all = [i \in 1..n |-> IF i = n THEN top ELSE frames[i]]
    BY <2>1, <2>4, Zenon
  <2> QED
    BY <2>2, <2>5, Zenon DEF all, next, top
<1>8. n = Len(Others) + 1
  BY <1>1, <1>4
<1> QED
  BY <1>1, <1>2, <1>4, <1>6, <1>7, <1>8 DEF S, n

\* The top function: its instruction, its code, and where it can go.
Function == Codes[program][Top.para]

LEMMA TopFunction ==
  ASSUME IInv, frames # <<>>
  PROVE  /\ program \in Programs /\ Top.para \in DOMAIN program /\ Top.pc \in DOMAIN Function
         /\ IsCodeFor(Function, program[Top.para].body)
         /\ Instr = Function[Top.pc] /\ code[Top.para] = Function
         /\ \A pc \in DOMAIN Function :
               /\ TopAt(pc) \in At(program)
               /\ Rest(program, TopAt(pc)) = Function[pc].rest
<1>1. Top \in At(program) /\ program \in Programs
  BY FramesShape DEF IInv
<1>2. /\ Top \in [para : Nat, pc : Nat] /\ Top.para \in DOMAIN program
      /\ Top.pc \in DOMAIN Function
  BY <1>1 DEF At, Function
<1>3. IsCodeFor(Function, program[Top.para].body)
  BY <1>1, <1>2, FunctionsRight DEF Function
<1>4. Instr = Function[Top.pc] /\ code[Top.para] = Function
  BY Zenon DEF Instr, code, Function
<1>5. ASSUME NEW pc \in DOMAIN Function
      PROVE  TopAt(pc) \in At(program) /\ Rest(program, TopAt(pc)) = Function[pc].rest
  <2>1. pc \in Nat
    BY <1>3, GoesOn
  <2>2. /\ TopAt(pc) \in [para : Nat, pc : Nat]
        /\ TopAt(pc).para = Top.para /\ TopAt(pc).pc = pc
    BY <1>2, <2>1 DEF TopAt
  <2> HIDE DEF Top
  <2> QED
    BY <1>2, <2>2 DEF At, Rest, Function
<1> QED
  BY <1>1, <1>2, <1>3, <1>4, <1>5

TodoBelow == TodoOf(program, Others)

LEMMA TodoNow ==
  ASSUME IInv, frames # <<>>
  PROVE  /\ Todo = Instr.rest \o TodoBelow
         /\ Instr.rest \in Seq(Steps) /\ TodoBelow \in Seq(Steps)
<1>1. Others \in Seq(At(program)) /\ Top \in At(program) /\ frames = Append(Others, Top)
  BY FramesShape
<1>2. program \in Programs
  BY DEF IInv
<1>3. Todo = TodoOf(program, frames)
  BY Zenon DEF Todo, TodoOf, Rests, Rest, code
<1>4. Instr.rest = Rest(program, Top)
  BY Zenon DEF Instr, Rest, code
<1>5. /\ TodoOf(program, Append(Others, Top)) = Rest(program, Top) \o TodoOf(program, Others)
      /\ TodoOf(program, Others) \in Seq(Steps) /\ Rest(program, Top) \in Seq(Steps)
  BY <1>1, <1>2, TodoOfLast
<1> QED
  BY <1>1, <1>3, <1>4, <1>5, Zenon DEF TodoBelow

\* The top function goes on at another instruction.
LEMMA GoesTo ==
  ASSUME IInv, frames # <<>>, NEW pc \in DOMAIN Function, Goto(pc), program' = program
  PROVE  /\ frames' \in Seq(At(program)) /\ Len(frames') = Len(frames)
         /\ Todo' = Function[pc].rest \o TodoBelow
<1>1. /\ Others \in Seq(At(program)) /\ Len(frames) \in Nat /\ Len(frames) = Len(Others) + 1
      /\ frames' = Append(Others, TopAt(pc))
  BY FramesShape, Zenon DEF Goto
<1>2. program \in Programs /\ TopAt(pc) \in At(program) /\ Rest(program, TopAt(pc)) = Function[pc].rest
  BY TopFunction
<1>3. Todo' = TodoOf(program', frames')
  BY Zenon DEF Todo, TodoOf, Rests, Rest, code
<1>4. TodoOf(program, Append(Others, TopAt(pc))) = Rest(program, TopAt(pc)) \o TodoOf(program, Others)
  BY <1>1, <1>2, TodoOfLast
<1> DEFINE S == At(program)
           top == TopAt(pc)
<1>5. Others \in Seq(S) /\ top \in S
  BY <1>1, <1>2
<1>6. Append(Others, top) \in Seq(S) /\ Len(Append(Others, top)) = Len(Others) + 1
  <2> HIDE DEF S, top, Others
  <2> QED
    BY <1>5, AppendProperties
<1> QED
  BY <1>1, <1>2, <1>3, <1>4, <1>6, Zenon DEF TodoBelow

\* It calls another one.
LEMMA Calls ==
  ASSUME IInv, frames # <<>>, NEW pc \in DOMAIN Function, NEW i \in DOMAIN program,
         frames' = Append([frames EXCEPT ![Len(frames)].pc = pc], [para |-> i, pc |-> 1]),
         program' = program
  PROVE  /\ frames' \in Seq(At(program)) /\ Len(frames') = Len(frames) + 1
         /\ Todo' = program[i].body \o (Function[pc].rest \o TodoBelow)
<1> DEFINE S == At(program)
           top == TopAt(pc)
           new == [para |-> i, pc |-> 1]
           below == Append(Others, top)
<1>1. /\ Others \in Seq(S) /\ Len(frames) \in Nat /\ Len(frames) = Len(Others) + 1
      /\ frames' = Append(below, new)
  BY FramesShape, Zenon
<1>2. program \in Programs /\ top \in S /\ Rest(program, top) = Function[pc].rest
  BY TopFunction
<1>3. new \in S /\ Rest(program, new) = program[i].body
  <2> DEFINE c == Codes[program][i]
  <2>1. IsCodeFor(c, program[i].body)
    BY <1>2, FunctionsRight
  <2>2. 1 \in DOMAIN c
    <3> HIDE DEF c
    <3>1. PICK l \in DOMAIN c : TRUE
      BY <2>1 DEF IsCodeFor, Code
    <3> QED
      BY <2>1, GoesOn
  <2>3. c[1].rest = program[i].body
    BY <2>1 DEF IsCodeFor
  <2>4. i \in Nat
    <3>1. program \in Seq([name : STRING, body : Seq(Statements)])
      BY <1>2, ProgramsAssumption
    <3> QED
      BY <3>1
  <2>5. new \in [para : Nat, pc : Nat] /\ new.para = i /\ new.pc = 1
    BY <2>4
  <2> HIDE DEF new
  <2> QED
    BY <2>2, <2>3, <2>5 DEF At, Rest
<1>4. Todo' = TodoOf(program', frames')
  BY Zenon DEF Todo, TodoOf, Rests, Rest, code
<1> HIDE DEF S, new, top
<1>5. below \in Seq(S) /\ Len(below) = Len(Others) + 1
  <2> HIDE DEF Others
  <2> QED
    BY <1>1, <1>2, AppendProperties
<1> HIDE DEF below
<1>6. Append(below, new) \in Seq(S) /\ Len(Append(below, new)) = Len(below) + 1
  BY <1>3, <1>5, AppendProperties
<1>7. TodoOf(program, Append(below, new)) = Rest(program, new) \o TodoOf(program, below)
  BY <1>2, <1>3, <1>5, TodoOfLast DEF S
<1>8. TodoOf(program, below) = Rest(program, top) \o TodoOf(program, Others)
  BY <1>1, <1>2, TodoOfLast DEF S, below
<1>9. Todo' = Rest(program, new) \o (Rest(program, top) \o TodoBelow)
  BY <1>1, <1>4, <1>7, <1>8, Zenon DEF TodoBelow
<1>10. Len(frames') = Len(frames) + 1
  BY <1>1, <1>5, <1>6
<1> QED
  BY <1>1, <1>2, <1>3, <1>6, <1>9, <1>10, Zenon DEF S

\* It returns.
LEMMA Returns ==
  ASSUME IInv, frames # <<>>, frames' = SubSeq(frames, 1, Len(frames) - 1), program' = program
  PROVE  /\ frames' \in Seq(At(program)) /\ Len(frames') <= Len(frames)
         /\ Todo' = TodoBelow
         /\ Len(frames) = 1 => TodoBelow = <<>>
<1>1. /\ Others \in Seq(At(program)) /\ Len(frames) \in Nat /\ Len(frames) = Len(Others) + 1
      /\ frames' = Others
  BY FramesShape DEF Others
<1>2. Todo' = TodoOf(program', frames')
  BY Zenon DEF Todo, TodoOf, Rests, Rest, code
<1>3. Todo' = TodoBelow
  BY <1>1, <1>2, Zenon DEF TodoBelow
<1> HIDE DEF Others
<1>4. Len(Others) \in Nat /\ (Len(Others) = 0 => Others = <<>>)
  BY <1>1
<1>5. Len(frames') <= Len(frames)
  BY <1>1, <1>4
<1>6. ASSUME Len(frames) = 1
      PROVE  TodoBelow = <<>>
  <2>1. Others = <<>>
    <3>1. Len(frames) = Len(Others) + 1
      BY <1>1
    <3> QED
      BY <1>4, <1>6, <3>1
  <2>2. TodoOf(program, <<>>) = <<>>
    BY NothingToDo
  <2> QED
    BY <2>1, <2>2, Zenon DEF TodoBelow
<1> QED
  BY <1>1, <1>3, <1>5, <1>6

\* It branches to a label.
LEMMA Jumps ==
  ASSUME IInv, frames # <<>>, NEW label, NEW list, <<label, list>> \in TargetsOf(Instr),
         JumpTo(label), program' = program
  PROVE  /\ frames' \in Seq(At(program)) /\ Len(frames') = Len(frames)
         /\ Todo' = list \o TodoBelow
<1>1. /\ IsCodeFor(Function, program[Top.para].body) /\ Top.pc \in DOMAIN Function
      /\ Instr = Function[Top.pc] /\ code[Top.para] = Function
  BY TopFunction
<1>2. PICK to \in DOMAIN Function :
         Function[to].ins = "label" /\ Function[to].label = label /\ Goto(to)
  BY <1>1, Zenon DEF JumpTo
<1>3. Function[to].rest = list
  <2>1. <<label, list>> \in TargetsOf(Function[Top.pc])
    BY <1>1
  <2> QED
    BY <1>1, <1>2, <2>1, BranchesThere
<1>4. /\ frames' \in Seq(At(program)) /\ Len(frames') = Len(frames)
      /\ Todo' = Function[to].rest \o TodoBelow
  BY <1>2, GoesTo
<1> QED
  BY <1>3, <1>4

\* The instruction behind it, and what is to be executed from there.
LEMMA FallsThrough ==
  ASSUME IInv, frames # <<>>, Instr.ins # "ret"
  PROVE  /\ Top.pc + 1 \in DOMAIN Function
         /\ FallsTo(Instr, Function[Top.pc + 1].rest)
<1>1. /\ IsCodeFor(Function, program[Top.para].body) /\ Top.pc \in DOMAIN Function
      /\ Instr = Function[Top.pc]
  BY TopFunction
<1> QED
  BY <1>1, GoesOn

LEMMA IsAtItsStatement ==
  ASSUME IInv, frames # <<>>
  PROVE  AtItsStatement(Instr) /\ Instr \in Instructions
<1>1. /\ IsCodeFor(Function, program[Top.para].body) /\ Top.pc \in DOMAIN Function
      /\ Instr = Function[Top.pc]
  BY TopFunction
<1> QED
  BY <1>1, GoesOn

\* The first statement is executed: list takes its place.
LEMMA FirstReplaced ==
  ASSUME IInv, frames # <<>>, Instr.rest # <<>>, NEW list \in Seq(Steps),
         Todo' = (list \o Tail(Instr.rest)) \o TodoBelow
  PROVE  /\ Todo # <<>> /\ Head(Todo) = Head(Instr.rest) /\ Head(Instr.rest) \in Steps
         /\ Source!Then(list)
<1> DEFINE rest == Instr.rest
           below == TodoBelow
           others == Tail(rest)
           s == Head(rest)
<1>1. Todo = rest \o below /\ rest \in Seq(Steps) /\ below \in Seq(Steps) /\ rest # <<>>
  BY TodoNow
<1> HIDE DEF rest, below
<1>2. s \in Steps /\ others \in Seq(Steps) /\ rest = <<s>> \o others
  BY <1>1
<1> HIDE DEF s, others
<1>3. rest \o below = <<s>> \o (others \o below)
  <2>1. <<s>> \in Seq(Steps)
    BY <1>2
  <2>2. Associative(<<s>>, others, below)
    BY <1>1, <1>2, <2>1, Regroup
  <2> QED
    BY <1>2, <2>2, Zenon DEF Associative
<1> DEFINE later == others \o below
<1>4. later \in Seq(Steps)
  BY <1>1, <1>2, ConcatProperties
<1> HIDE DEF later
<1>5. <<s>> \o later # <<>> /\ Head(<<s>> \o later) = s /\ Tail(<<s>> \o later) = later
  BY <1>2, <1>4, FirstStatement
<1>6. Todo # <<>> /\ Head(Todo) = s /\ Tail(Todo) = later
  BY <1>1, <1>3, <1>5 DEF later
<1>7. (list \o others) \o below = list \o later
  <2>1. Associative(list, others, below)
    BY <1>1, <1>2, Regroup
  <2> QED
    BY <2>1, Zenon DEF Associative, later
<1>8. Todo' = list \o Tail(Todo)
  BY <1>6, <1>7, Zenon DEF others, below, rest
<1> QED
  BY <1>2, <1>6, <1>8, Zenon DEF Source!Then, s, rest

\* The same if nothing takes its place.
LEMMA FirstDone ==
  ASSUME IInv, frames # <<>>, Instr.rest # <<>>, Todo' = Tail(Instr.rest) \o TodoBelow
  PROVE  /\ Todo # <<>> /\ Head(Todo) = Head(Instr.rest) /\ Head(Instr.rest) \in Steps
         /\ Source!Then(<<>>)
<1>1. Tail(Instr.rest) \in Seq(Steps)
  BY TodoNow
<1>2. <<>> \o Tail(Instr.rest) = Tail(Instr.rest) /\ <<>> \in Seq(Steps)
  BY <1>1, ConcatEmptySeq
<1>3. Todo' = (<<>> \o Tail(Instr.rest)) \o TodoBelow
  BY <1>2
<1> QED
  BY <1>2, <1>3, FirstReplaced

SourceStep == Source!Next \/ UNCHANGED Source!vars

LEMMA DoStepRight ==
  ASSUME IInv, DoStep
  PROVE  IInv' /\ SourceStep
<1> DEFINE rest == Instr.rest
           s == Head(rest)
           others == Tail(rest)
           to == Function[Top.pc + 1].rest
<1>1. /\ frames # <<>> /\ Instr.ins = "do" /\ Instr.ins # "ret" /\ out' = Done(Instr.name)
      /\ Goto(Top.pc + 1) /\ program' = program
  BY DEF DoStep, Running
<1>2. Top.pc + 1 \in DOMAIN Function /\ FallsTo(Instr, to)
  BY <1>1, FallsThrough
<1>3. /\ frames' \in Seq(At(program)) /\ Len(frames') = Len(frames)
      /\ Todo' = to \o TodoBelow
  BY <1>1, <1>2, GoesTo
<1>4. IInv'
  BY <1>1, <1>3 DEF IInv, Done
<1>5. /\ rest # <<>>
      /\ \/ s.op = "act" /\ Instr.name = s.name /\ to = others
         \/ s.op = "varying" /\ Instr.name = s.init /\ to = <<VaryingLoop(s)>> \o others
         \/ s.op = "call" /\ Instr.name = s.name /\ to = Phrases(s) \o others
  <2> HIDE DEF to
  <2> QED
    BY <1>1, <1>2 DEF FallsTo
<1> HIDE DEF to
<1>6. s \in Steps
  BY <1>1, <1>5, TodoNow
<1>7. CASE s.op = "act" /\ Instr.name = s.name /\ to = others
  <2>1. Todo # <<>> /\ Head(Todo) = s /\ Source!Then(<<>>)
    BY <1>1, <1>3, <1>5, <1>7, FirstDone
  <2>2. Source!Acts
    BY <1>1, <1>7, <2>1, Zenon DEF Source!Acts, Source!Is, Source!Done, Done
  <2> QED
    BY <1>4, <2>2 DEF SourceStep, Source!Next
<1>8. CASE s.op = "varying" /\ Instr.name = s.init /\ to = <<VaryingLoop(s)>> \o others
  <2> DEFINE list == <<VaryingLoop(s)>>
  <2>1. VaryingLoop(s) \in Steps
    BY <1>6, <1>8, StepParts
  <2>2. list \in Seq(Steps)
    BY <2>1
  <2>3. Todo' = (list \o others) \o TodoBelow
    BY <1>3, <1>8
  <2> HIDE DEF list
  <2>4. Todo # <<>> /\ Head(Todo) = s /\ Source!Then(list)
    BY <1>1, <1>5, <2>2, <2>3, FirstReplaced
  <2>5. Source!Counts
    BY <1>1, <1>8, <2>4, Zenon DEF Source!Counts, Source!Is, Source!Done, Done, list,
           Source!VaryingLoop, VaryingLoop, Source!Until, Until, Source!Act, Act
  <2> QED
    BY <1>4, <2>5 DEF SourceStep, Source!Next
<1>9. CASE s.op = "call" /\ Instr.name = s.name /\ to = Phrases(s) \o others
  <2>1. Phrases(s) \in Seq(Steps)
    BY <1>6, <1>9, StepParts
  <2>2. Todo' = (Phrases(s) \o others) \o TodoBelow
    BY <1>3, <1>9
  <2>3. Todo # <<>> /\ Head(Todo) = s /\ Source!Then(Phrases(s))
    BY <1>1, <1>5, <2>1, <2>2, FirstReplaced
  <2>4. Source!Calls
    BY <1>1, <1>9, <2>3, Zenon DEF Source!Calls, Source!Is, Source!Done, Done,
           Source!Phrases, Phrases, Source!If, If
  <2> QED
    BY <1>4, <2>4 DEF SourceStep, Source!Next
<1> QED
  BY <1>4, <1>5, <1>7, <1>8, <1>9

LEMMA LabelStepRight ==
  ASSUME IInv, LabelStep
  PROVE  IInv' /\ SourceStep
<1> DEFINE rest == Instr.rest
           s == Head(rest)
           others == Tail(rest)
           to == Function[Top.pc + 1].rest
<1>1. /\ frames # <<>> /\ Instr.ins = "label" /\ Instr.ins # "ret" /\ out' = out
      /\ Goto(Top.pc + 1) /\ program' = program
  BY DEF LabelStep, Running
<1>2. Top.pc + 1 \in DOMAIN Function /\ FallsTo(Instr, to)
  BY <1>1, FallsThrough
<1>3. /\ frames' \in Seq(At(program)) /\ Len(frames') = Len(frames)
      /\ Todo' = to \o TodoBelow
  BY <1>1, <1>2, GoesTo
<1>4. IInv'
  BY <1>1, <1>3 DEF IInv
<1>5. \/ to = rest
      \/ rest # <<>> /\ s.op = "evaluate" /\ s.whens = <<>> /\ to = s.other \o others
  <2> HIDE DEF to
  <2> QED
    BY <1>1, <1>2 DEF FallsTo
<1> HIDE DEF to
<1>6. CASE to = rest
  <2>1. Todo' = Todo
    BY <1>1, <1>3, <1>6, TodoNow
  <2> QED
    BY <1>1, <1>4, <2>1 DEF SourceStep, Source!vars
<1>7. CASE rest # <<>> /\ s.op = "evaluate" /\ s.whens = <<>> /\ to = s.other \o others
  <2>1. s \in Steps
    BY <1>1, <1>7, TodoNow
  <2>2. s.other \in Seq(Steps)
    BY <1>7, <2>1, StepParts
  <2>3. Todo' = (s.other \o others) \o TodoBelow
    BY <1>3, <1>7
  <2>4. Todo # <<>> /\ Head(Todo) = s /\ Source!Then(s.other)
    BY <1>1, <1>7, <2>2, <2>3, FirstReplaced
  <2>5. Source!Evaluates
    BY <1>1, <1>7, <2>4, Zenon DEF Source!Evaluates, Source!Is,
           Source!Tested, Tested, Source!Evaluate, Evaluate
  <2> QED
    BY <1>4, <2>5 DEF SourceStep, Source!Next
<1> QED
  BY <1>4, <1>5, <1>6, <1>7

LEMMA BrStepRight ==
  ASSUME IInv, BrStep
  PROVE  IInv' /\ SourceStep
<1>1. /\ frames # <<>> /\ Instr.ins = "br" /\ out' = out
      /\ JumpTo(Instr.label) /\ program' = program
  BY DEF BrStep, Running
<1>2. <<Instr.label, Instr.rest>> \in TargetsOf(Instr)
  BY <1>1, Zenon DEF TargetsOf
<1>3. /\ frames' \in Seq(At(program)) /\ Len(frames') = Len(frames)
      /\ Todo' = Instr.rest \o TodoBelow
  BY <1>1, <1>2, Jumps
<1>4. IInv'
  BY <1>1, <1>3 DEF IInv
<1>5. Todo' = Todo
  BY <1>1, <1>3, TodoNow
<1> QED
  BY <1>1, <1>4, <1>5 DEF SourceStep, Source!vars

LEMMA CondBrStepRight ==
  ASSUME IInv, CondBrStep
  PROVE  IInv' /\ SourceStep
<1> DEFINE rest == Instr.rest
           s == Head(rest)
           others == Tail(rest)
<1>1. frames # <<>> /\ Instr.ins = "condbr" /\ program' = program
  BY DEF CondBrStep, Running
<1>2. PICK b \in BOOLEAN :
         out' = Tested(Instr.cond, b) /\ JumpTo(IF b THEN Instr.yes ELSE Instr.no)
  BY DEF CondBrStep
<1> DEFINE label == IF b THEN Instr.yes ELSE Instr.no
           to == Outcome(rest, b)
<1>3. <<label, to>> \in TargetsOf(Instr)
  <2>1. CASE b = TRUE
    BY <1>1, <2>1, Zenon DEF TargetsOf
  <2>2. CASE b = FALSE
    BY <1>1, <2>2, Zenon DEF TargetsOf
  <2> QED
    BY <2>1, <2>2
<1>4. /\ frames' \in Seq(At(program)) /\ Len(frames') = Len(frames)
      /\ Todo' = to \o TodoBelow
  <2> HIDE DEF to
  <2>1. JumpTo(label)
    BY <1>2
  <2> HIDE DEF label
  <2> QED
    BY <1>1, <1>3, <2>1, Jumps
<1>5. IInv'
  BY <1>1, <1>2, <1>4 DEF IInv, Tested
<1>6. /\ rest # <<>> /\ Instr.cond = Condition(s) /\ s.op \in {"if", "until", "evaluate"}
      /\ s.op = "evaluate" => s.whens # <<>>
  BY <1>1, IsAtItsStatement DEF AtItsStatement
<1>7. s \in Steps
  BY <1>1, <1>6, TodoNow
<1> HIDE DEF rest, s, others, to
<1> DEFINE first ==
      CASE s.op = "if" -> (IF b THEN s.then ELSE s.else)
        [] s.op = "until" -> (IF b THEN <<>> ELSE Append(s.body, s))
        [] OTHER -> (IF b THEN Head(s.whens).body ELSE <<Evaluate(Tail(s.whens), s.other)>>)
<1>8. to = first \o others
  BY <1>6 DEF to, Outcome, s, others
<1>9. first \in Seq(Steps)
  <2>1. CASE s.op = "if"
    <3>1. s.then \in Seq(Steps) /\ s.else \in Seq(Steps)
      BY <1>7, <2>1, StepParts
    <3> QED
      BY <2>1, <3>1
  <2>2. CASE s.op = "until"
    <3>1. s.body \in Seq(Steps)
      BY <1>7, <2>2, StepParts
    <3>2. Append(s.body, s) \in Seq(Steps) /\ <<>> \in Seq(Steps)
      BY <1>7, <3>1
    <3> QED
      BY <2>2, <3>2
  <2>3. CASE s.op = "evaluate"
    <3>1. Head(s.whens).body \in Seq(Steps) /\ Evaluate(Tail(s.whens), s.other) \in Steps
      BY <1>6, <1>7, <2>3, StepParts
    <3>2. <<Evaluate(Tail(s.whens), s.other)>> \in Seq(Steps)
      BY <3>1
    <3> QED
      BY <2>3, <3>1, <3>2
  <2> QED
    BY <1>6, <2>1, <2>2, <2>3
<1>10. Todo # <<>> /\ Head(Todo) = s /\ Source!Then(first)
  <2> HIDE DEF first
  <2> QED
    BY <1>1, <1>4, <1>6, <1>8, <1>9, FirstReplaced DEF rest, s, others
<1>11. CASE s.op = "if"
  <2>1. first = IF b THEN s.then ELSE s.else
    BY <1>11
  <2>2. Instr.cond = s.cond
    BY <1>6, <1>11 DEF Condition
  <2> HIDE DEF first
  <2>3. Source!Chooses
    BY <1>1, <1>2, <1>10, <1>11, <2>1, <2>2, Zenon DEF Source!Chooses, Source!Is, Source!Tested, Tested
  <2> QED
    BY <1>5, <2>3 DEF SourceStep, Source!Next
<1>12. CASE s.op = "until"
  <2>1. first = IF b THEN <<>> ELSE Append(s.body, s)
    BY <1>12
  <2>2. Instr.cond = s.cond
    BY <1>6, <1>12 DEF Condition
  <2> HIDE DEF first
  <2>3. Source!Loops
    BY <1>1, <1>2, <1>10, <1>12, <2>1, <2>2, Zenon DEF Source!Loops, Source!Is, Source!Tested, Tested
  <2> QED
    BY <1>5, <2>3 DEF SourceStep, Source!Next
<1>13. CASE s.op = "evaluate"
  <2>1. first = IF b THEN Head(s.whens).body ELSE <<Evaluate(Tail(s.whens), s.other)>>
    BY <1>13
  <2>2. Instr.cond = Head(s.whens).cond /\ s.whens # <<>>
    BY <1>6, <1>13 DEF Condition
  <2> HIDE DEF first
  <2>3. Source!Evaluates
    BY <1>1, <1>2, <1>10, <1>13, <2>1, <2>2, Zenon DEF Source!Evaluates, Source!Is,
           Source!Tested, Tested, Source!Evaluate, Evaluate
  <2> QED
    BY <1>5, <2>3 DEF SourceStep, Source!Next
<1> QED
  BY <1>6, <1>11, <1>12, <1>13

LEMMA CallStepRight ==
  ASSUME IInv, CallStep
  PROVE  IInv' /\ SourceStep
<1> DEFINE rest == Instr.rest
           s == Head(rest)
           others == Tail(rest)
           to == Function[Top.pc + 1].rest
<1>1. /\ frames # <<>> /\ Instr.ins = "call" /\ Instr.ins # "ret" /\ out' = out
      /\ Len(frames) < MaxCalls /\ program' = program
  BY DEF CallStep, Running
<1>2. PICK i \in DOMAIN program :
         /\ program[i].name = Instr.name
         /\ frames' = Append([frames EXCEPT ![Len(frames)].pc = @ + 1], [para |-> i, pc |-> 1])
  BY DEF CallStep
<1>3. Top.pc + 1 \in DOMAIN Function /\ FallsTo(Instr, to)
  BY <1>1, FallsThrough
<1> HIDE DEF to
<1>4. frames' = Append([frames EXCEPT ![Len(frames)].pc = Top.pc + 1], [para |-> i, pc |-> 1])
  <2>1. [frames EXCEPT ![Len(frames)].pc = @ + 1] = [frames EXCEPT ![Len(frames)].pc = Top.pc + 1]
    BY DEF Top
  <2> QED
    BY <1>2, <2>1
<1>5. /\ frames' \in Seq(At(program)) /\ Len(frames') = Len(frames) + 1
      /\ Todo' = program[i].body \o (to \o TodoBelow)
  BY <1>1, <1>3, <1>4, Calls DEF to
<1>6. IInv'
  <2>1. Len(frames) \in Nat /\ MaxCalls \in Nat
    BY CallsAssumption DEF IInv
  <2>2. Len(frames') <= MaxCalls
    BY <1>1, <1>5, <2>1
  <2> QED
    BY <1>1, <1>5, <2>2 DEF IInv
<1>7. rest # <<>> /\ s.op = "perform" /\ Instr.name = s.name /\ to = others
  BY <1>1, <1>3 DEF FallsTo
<1>8. rest \in Seq(Steps) /\ TodoBelow \in Seq(Steps) /\ others \in Seq(Steps)
  <2>1. rest \in Seq(Steps) /\ TodoBelow \in Seq(Steps)
    BY <1>1, TodoNow
  <2> HIDE DEF rest
  <2> QED
    BY <1>7, <2>1
<1> DEFINE body == program[i].body
<1>9. body \in Seq(Steps)
  <2>1. program \in Programs
    BY DEF IInv
  <2> QED
    BY <2>1, FunctionsRight, StatementsAreSteps
<1> HIDE DEF body
<1>10. Todo' = (body \o others) \o TodoBelow
  <2>1. Associative(body, others, TodoBelow)
    BY <1>8, <1>9, Regroup
  <2> QED
    BY <1>5, <1>7, <2>1, Zenon DEF Associative, body
<1>11. Todo # <<>> /\ Head(Todo) = s /\ Source!Then(body)
  BY <1>1, <1>7, <1>9, <1>10, FirstReplaced
<1>12. Source!Performs
  BY <1>1, <1>2, <1>7, <1>11, Zenon DEF Source!Performs, Source!Is, body
<1> QED
  BY <1>6, <1>12 DEF SourceStep, Source!Next

\* A STOP RUN that ends a paragraph performed by another one, and not the
\* program.
StopGoesOn == RetStep /\ Instr.rest # <<>> /\ Len(frames) > 1

LEMMA RetStepRight ==
  ASSUME IInv, RetStep
  PROVE  IInv' /\ (SourceStep \/ StopGoesOn)
<1> DEFINE rest == Instr.rest
           s == Head(rest)
<1>1. /\ frames # <<>> /\ Instr.ins = "ret" /\ out' = out /\ program' = program
      /\ frames' = SubSeq(frames, 1, Len(frames) - 1)
  BY DEF RetStep, Running
<1>2. /\ frames' \in Seq(At(program)) /\ Len(frames') <= Len(frames)
      /\ Todo' = TodoBelow
      /\ Len(frames) = 1 => TodoBelow = <<>>
  BY <1>1, Returns
<1>3. IInv'
  <2>1. Len(frames) \in Nat /\ Len(frames') \in Nat /\ MaxCalls \in Nat
    BY <1>2, CallsAssumption DEF IInv
  <2>2. Len(frames') <= MaxCalls
    BY <1>2, <2>1 DEF IInv
  <2> QED
    BY <1>1, <1>2, <2>2 DEF IInv
<1>4. rest = <<>> \/ s.op = "stop"
  BY <1>1, IsAtItsStatement DEF AtItsStatement
<1>5. Todo = rest \o TodoBelow /\ rest \in Seq(Steps) /\ TodoBelow \in Seq(Steps)
  BY <1>1, TodoNow
<1>6. Len(frames) \in Nat /\ Len(frames) # 0
  BY <1>1 DEF IInv
<1> HIDE DEF rest
<1>7. CASE rest = <<>>
  <2>1. Todo = TodoBelow
    BY <1>5, <1>7, ConcatEmptySeq
  <2>2. UNCHANGED Source!vars
    BY <1>1, <1>2, <2>1 DEF Source!vars
  <2> QED
    BY <1>3, <2>2 DEF SourceStep
<1>8. CASE rest # <<>> /\ Len(frames) = 1
  <2>1. Todo = rest /\ Todo' = <<>>
    BY <1>2, <1>5, <1>8, ConcatEmptySeq
  <2>2. Source!Stops
    BY <1>1, <1>4, <1>8, <2>1, Zenon DEF Source!Stops, Source!Is
  <2> QED
    BY <1>3, <2>2 DEF SourceStep, Source!Next
<1>9. CASE rest # <<>> /\ Len(frames) > 1
  BY <1>3, <1>9 DEF StopGoesOn, rest
<1>10. Len(frames) = 1 \/ Len(frames) > 1
  <2> DEFINE n == Len(frames)
  <2>1. n \in Nat /\ n # 0
    BY <1>6
  <2> HIDE DEF n
  <2>2. n = 1 \/ n > 1
    BY <2>1
  <2> QED
    BY <2>2, Zenon DEF n
<1> QED
  BY <1>7, <1>8, <1>9, <1>10, Zenon

----------------------------------------------------------------------------
(* The theorems.                                                             *)

LEMMA InitRight ==
  ASSUME Init
  PROVE  IInv /\ Source!Init
<1> DEFINE f == [para |-> 1, pc |-> 1]
           c == Codes[program][1]
<1>1. program \in Programs /\ frames = <<f>> /\ out = Nothing
  BY DEF Init
<1>2. 1 \in DOMAIN program
  <2> DEFINE R == [name : STRING, body : Seq(Statements)]
  <2>1. program \in Seq(R) /\ program # <<>>
    BY <1>1, ProgramsAssumption
  <2> HIDE DEF R
  <2> QED
    BY <2>1
<1>3. IsCodeFor(c, program[1].body)
  BY <1>1, <1>2, FunctionsRight
<1>4. 1 \in DOMAIN c /\ c[1].rest = program[1].body
  <2> HIDE DEF c
  <2>1. PICK l \in DOMAIN c : TRUE
    BY <1>3 DEF IsCodeFor, Code
  <2>2. 1 \in DOMAIN c
    BY <1>3, <2>1, GoesOn
  <2> QED
    BY <1>3, <2>2 DEF IsCodeFor
<1>5. f \in At(program) /\ Rest(program, f) = program[1].body
  <2>1. f \in [para : Nat, pc : Nat] /\ f.para = 1 /\ f.pc = 1
    OBVIOUS
  <2> HIDE DEF f
  <2> QED
    BY <1>2, <1>4, <2>1 DEF At, Rest
<1> HIDE DEF f, c
<1>6. frames \in Seq(At(program)) /\ Len(frames) = 1 /\ frames = Append(<<>>, f)
  BY <1>1, <1>5
<1>7. IInv
  <2>1. 1 <= MaxCalls
    BY CallsAssumption
  <2> QED
    BY <1>1, <1>6, <2>1 DEF IInv, Nothing
<1>8. Todo = program[1].body
  <2>1. Todo = TodoOf(program, frames)
    BY Zenon DEF Todo, TodoOf, Rests, Rest, code
  <2>2. <<>> \in Seq(At(program))
    OBVIOUS
  <2>3. /\ TodoOf(program, Append(<<>>, f)) = Rest(program, f) \o TodoOf(program, <<>>)
        /\ Rest(program, f) \in Seq(Steps)
    BY <1>1, <1>5, <2>2, TodoOfLast
  <2>4. TodoOf(program, <<>>) = <<>>
    BY NothingToDo
  <2>5. Rest(program, f) \o <<>> = Rest(program, f)
    BY <2>3, ConcatEmptySeq
  <2> QED
    BY <1>5, <1>6, <2>1, <2>3, <2>4, <2>5, Zenon
<1> QED
  BY <1>1, <1>7, <1>8 DEF Source!Init, Source!Nothing, Nothing

LEMMA NextRight ==
  ASSUME IInv, [Next]_vars
  PROVE  IInv' /\ (SourceStep \/ StopGoesOn)
<1>1. CASE DoStep
  BY <1>1, DoStepRight
<1>2. CASE LabelStep
  BY <1>2, LabelStepRight
<1>3. CASE BrStep
  BY <1>3, BrStepRight
<1>4. CASE CondBrStep
  BY <1>4, CondBrStepRight
<1>5. CASE CallStep
  BY <1>5, CallStepRight
<1>6. CASE RetStep
  BY <1>6, RetStepRight
<1>7. CASE UNCHANGED vars
  <2>1. program' = program /\ frames' = frames /\ out' = out
    BY <1>7 DEF vars
  <2>2. Todo' = Todo
    BY <2>1, Zenon DEF Todo, code
  <2>3. IInv'
    BY <2>1 DEF IInv
  <2> QED
    BY <2>1, <2>2, <2>3 DEF SourceStep, Source!vars
<1> QED
  BY <1>1, <1>2, <1>3, <1>4, <1>5, <1>6, <1>7 DEF Next

LEMMA IInvHolds == Spec => []IInv
<1>1. Init => IInv
  BY InitRight
<1>2. IInv /\ [Next]_vars => IInv'
  BY NextRight
<1> QED
  BY <1>1, <1>2, PTL DEF Spec

\* However control goes, the next instruction is one of the function: none
\* falls through behind its last one.
THEOREM TypesHold == Spec => []TypeOK
<1>1. ASSUME IInv
      PROVE  TypeOK
  <2>1. program \in Programs /\ Len(frames) <= MaxCalls /\ out.event \in {"none", "done", "tested"}
    BY <1>1 DEF IInv
  <2>2. ASSUME NEW i \in DOMAIN frames
        PROVE  frames[i].para \in DOMAIN code /\ frames[i].pc \in DOMAIN code[frames[i].para]
    <3>1. frames[i] \in At(program)
      BY <1>1 DEF IInv
    <3>2. frames[i].para \in DOMAIN program /\ frames[i].pc \in DOMAIN Codes[program][frames[i].para]
      BY <3>1 DEF At
    <3>3. DOMAIN code = DOMAIN program
      BY <2>1 DEF code, Codes
    <3> QED
      BY <3>2, <3>3, Zenon DEF code
  <2> QED
    BY <2>1, <2>2 DEF TypeOK
<1> QED
  BY <1>1, IInvHolds, PTL

\* A label a branch goes to is in the code of the paragraph, and only once.
THEOREM OneLabelForEachBranch ==
  ASSUME NEW p \in Programs, NEW i \in DOMAIN p, NEW pc \in DOMAIN Codes[p][i], NEW label,
         LET c == Codes[p][i][pc] IN
         \/ c.ins = "br" /\ label = c.label
         \/ c.ins = "condbr" /\ label \in {c.yes, c.no}
  PROVE  LET c == Codes[p][i] IN
         \E to \in DOMAIN c : \A l \in DOMAIN c : c[l].ins = "label" /\ c[l].label = label <=> l = to
<1> DEFINE c == Codes[p][i]
<1>1. IsCodeFor(c, p[i].body)
  BY FunctionsRight
<1>2. \E list : <<label, list>> \in TargetsOf(c[pc])
  BY Zenon DEF TargetsOf
<1>3. pc \in DOMAIN c
  OBVIOUS
<1> HIDE DEF c
<1>4. PICK list : <<label, list>> \in Places(c)
  BY <1>1, <1>2, <1>3 DEF IsCodeFor, Targets
<1>5. PICK to \in DOMAIN c : c[to].ins = "label" /\ c[to].label = label
  BY <1>4 DEF Places
<1>6. \A l \in DOMAIN c : c[l].ins = "label" /\ c[l].label = label <=> l = to
  BY <1>1, <1>5 DEF IsCodeFor, UniqueLabels
<1> QED
  BY <1>6 DEF c

\* The generated code does what the statements say, and nothing else, but for
\* the STOP RUN of a performed paragraph.
THEOREM CodeImplementsStatements ==
  Spec => Source!Init /\ [][Source!Next \/ StopGoesOn]_(Source!vars)
<1>1. Init => Source!Init
  BY InitRight
<1>2. IInv /\ [Next]_vars => [Source!Next \/ StopGoesOn]_(Source!vars)
  BY NextRight DEF SourceStep
<1> QED
  BY <1>1, <1>2, IInvHolds, PTL DEF Spec
=============================================================================
