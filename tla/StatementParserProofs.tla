----------------------- MODULE StatementParserProofs -----------------------
(***************************************************************************)
(* The parser of the PROCEDURE DIVISION, for every stream of tokens: its    *)
(* calls are nested as they should be, it never goes behind EOF, and with   *)
(* each step it comes nearer to its end.  And for the text of every program *)
(* as the examples write them: what it makes of it is that program.         *)
(***************************************************************************)
EXTENDS StatementTexts, NaturalLemmas, TLAPS

----------------------------------------------------------------------------
(* The stack of calls.                                                      *)

\* A sequence, of whatever.
IsSeq(s) == s \in Seq({s[i] : i \in DOMAIN s})

LEMMA SeqIs ==
  ASSUME NEW S, NEW s \in Seq(S)
  PROVE  IsSeq(s) /\ Len(s) \in Nat
  BY DEF IsSeq

LEMMA AppendSeq ==
  ASSUME NEW s, IsSeq(s), NEW e
  PROVE  /\ IsSeq(Append(s, e)) /\ Len(s) \in Nat /\ Len(Append(s, e)) = Len(s) + 1
         /\ Append(s, e)[Len(s) + 1] = e /\ Append(s, e) # <<>>
         /\ \A i \in 1..Len(s) : Append(s, e)[i] = s[i]
<1> DEFINE S == {s[i] : i \in DOMAIN s} \cup {e}
<1>1. s \in Seq(S)
  BY DEF IsSeq
<1>2. e \in S
  OBVIOUS
<1> HIDE DEF S
<1>3. /\ Append(s, e) \in Seq(S) /\ Len(Append(s, e)) = Len(s) + 1
      /\ \A i \in 1..Len(s) : Append(s, e)[i] = s[i]
      /\ Append(s, e)[Len(s) + 1] = e /\ Append(s, e) # <<>>
  BY <1>1, <1>2, AppendProperties
<1>4. Len(s) \in Nat /\ IsSeq(Append(s, e))
  BY <1>1, <1>3, SeqIs
<1> QED
  BY ONLY <1>3, <1>4

LEMMA SubSeqSeq ==
  ASSUME NEW s, IsSeq(s), Len(s) > 0
  PROVE  /\ IsSeq(SubSeq(s, 1, Len(s) - 1)) /\ Len(SubSeq(s, 1, Len(s) - 1)) = Len(s) - 1
         /\ \A i \in 1..(Len(s) - 1) : SubSeq(s, 1, Len(s) - 1)[i] = s[i]
<1> DEFINE S == {s[i] : i \in DOMAIN s}
<1>1. s \in Seq(S)
  BY DEF IsSeq
<1> HIDE DEF S
<1>2. Len(s) \in Nat /\ \A i \in 1..Len(s) : s[i] \in S
  BY <1>1
<1>3. PICK n \in Nat : n = Len(s) - 1
  BY <1>2
<1>4. \A i \in 1..n : s[i] \in S
  BY <1>2, <1>3
<1>5. SubSeq(s, 1, n) \in Seq(S) /\ Len(SubSeq(s, 1, n)) = n
      /\ \A i \in 1..n : SubSeq(s, 1, n)[i] = s[i]
  BY <1>4, SubSeqProperties
<1> QED
  BY <1>3, <1>5, SeqIs

LEMMA ExceptLast ==
  ASSUME NEW s, IsSeq(s), Len(s) > 0, NEW e
  PROVE  /\ IsSeq([s EXCEPT ![Len(s)] = e]) /\ Len([s EXCEPT ![Len(s)] = e]) = Len(s)
         /\ [s EXCEPT ![Len(s)] = e][Len(s)] = e
         /\ \A i \in 1..(Len(s) - 1) : [s EXCEPT ![Len(s)] = e][i] = s[i]
<1> DEFINE S == {s[i] : i \in DOMAIN s} \cup {e}
<1>1. s \in Seq(S) /\ e \in S
  BY DEF IsSeq
<1> HIDE DEF S
<1>2. PICK n \in 1..Len(s) : n = Len(s)
  BY <1>1
<1>3. /\ [s EXCEPT ![n] = e] \in Seq(S) /\ Len([s EXCEPT ![n] = e]) = n
      /\ \A j \in 1..n : [s EXCEPT ![n] = e][j] = IF j = n THEN e ELSE s[j]
  BY <1>1, <1>2, ExceptSeq
<1>4. IsSeq([s EXCEPT ![n] = e]) /\ \A i \in 1..(n - 1) : [s EXCEPT ![n] = e][i] = s[i]
      /\ [s EXCEPT ![n] = e][n] = e
  <2>1. IsSeq([s EXCEPT ![n] = e])
    BY <1>3, SeqIs
  <2>2. Len(s) \in Nat
    BY <1>1
  <2>3. n \in Int /\ n \in 1..n /\ \A i \in 1..(n - 1) : i \in 1..n /\ i # n
    BY ONLY <1>2, <2>2
  <2> QED
    BY ONLY <1>3, <2>1, <2>3
<1> QED
  BY ONLY <1>2, <1>3, <1>4

\* Where a call of each kind may be, and which calls stand where.
PlacesOf(kind) ==
    IF kind = "DIVISION" THEN {"clauses"}
    ELSE {"loop", "after", "end"}
         \cup (IF kind \in {"EVALUATE", "STRING"} \cup HttpVerbs THEN {"clauses"} ELSE {})
         \cup (IF kind \in HttpVerbs THEN {"not"} ELSE {})
KindsAt(i) ==
    IF i = 1 THEN {"DIVISION"} ELSE IF i = 2 THEN {"PARAGRAPH", "ANONYMOUS"} ELSE Blocks

Fields(kind, at, part, stop, body, parts) ==
    [kind |-> kind, at |-> at, part |-> part, stop |-> stop, body |-> body, parts |-> parts]

IsFrame(f) ==
    /\ f = Fields(f.kind, f.at, f.part, f.stop, f.body, f.parts)
    /\ f.kind \in Kinds /\ f.at \in PlacesOf(f.kind) /\ f.part \in 0..2
    /\ f.stop \subseteq Tokens /\ IsSeq(f.body)

AreCalls(s) ==
    /\ IsSeq(s) /\ Len(s) > 0
    /\ \A i \in 1..Len(s) : IsFrame(s[i]) /\ s[i].kind \in KindsAt(i)
    /\ \A i \in 2..(Len(s) - 1) : s[i].at = "loop"

LEMMA OneTwoMore ==
  \A n \in Nat : (n > 0 => n = 1 \/ n = 2 \/ n > 2) /\ (n > 1 => n # 1 /\ (n = 2 \/ n > 2))
               /\ (n > 2 => n > 1 /\ n # 2) /\ (n > 0 => n = 1 \/ n > 1)
  OBVIOUS

LEMMA KindsDiffer ==
  /\ \A i \in Int : KindsAt(i) \subseteq Kinds
  /\ "DIVISION" \notin Lists /\ Kinds = Lists \cup {"DIVISION"}
  /\ "PARAGRAPH" \notin Blocks /\ "ANONYMOUS" \notin Blocks /\ "DIVISION" \notin Blocks
  /\ HttpVerbs \subseteq Blocks /\ {"IF", "PERFORM", "EVALUATE", "STRING"} \subseteq Blocks
  BY DEF KindsAt, Kinds, Lists, Blocks, HttpVerbs

LEMMA TopIs ==
  ASSUME AreCalls(stack)
  PROVE  /\ Len(stack) \in Nat /\ Len(stack) > 0 /\ Top = stack[Len(stack)]
         /\ IsFrame(Top) /\ Top.kind \in KindsAt(Len(stack))
         /\ Top.kind = "DIVISION" <=> Len(stack) = 1
         /\ Top.kind \in {"PARAGRAPH", "ANONYMOUS"} <=> Len(stack) = 2
         /\ Top.kind \in Blocks <=> Len(stack) > 2
<1>1. Len(stack) \in Nat /\ Len(stack) > 0
  BY SeqIs DEF AreCalls, IsSeq
<1>2. Top = stack[Len(stack)] /\ IsFrame(Top) /\ Top.kind \in KindsAt(Len(stack))
  BY <1>1 DEF AreCalls, Top
<1>3. CASE Len(stack) = 1
  BY <1>1, <1>2, <1>3 DEF KindsAt, Blocks, HttpVerbs
<1>4. CASE Len(stack) = 2
  BY <1>1, <1>2, <1>4 DEF KindsAt, Blocks, HttpVerbs
<1>5. CASE Len(stack) > 2
  BY <1>1, <1>2, <1>5 DEF KindsAt, Blocks, HttpVerbs
<1>6. Len(stack) = 1 \/ Len(stack) = 2 \/ Len(stack) > 2
  BY ONLY <1>1, OneTwoMore
<1> QED
  BY <1>1, <1>2, <1>3, <1>4, <1>5, <1>6

----------------------------------------------------------------------------
(* What a step may do to the stack, and how much work is left after it.     *)

FrameWork(f) == IF f.kind \in Blocks THEN BlockWork(f) ELSE ParagraphWork(f)

WorkOf(s) ==
    IF Len(s) = 1 THEN 4
    ELSE IF Len(s) = 2 THEN ParagraphWork(s[2])
    ELSE ParagraphWork(s[2]) + BlockWork(s[Len(s)]) + (Len(s) - 3) * 11

CallsWorked == AreCalls(stack) => CallWork = WorkOf(stack)

LEMMA CallWorkIs == CallsWorked
<1> SUFFICES ASSUME AreCalls(stack) PROVE CallWork = WorkOf(stack)
  BY DEF CallsWorked
<1>1. Len(stack) \in Nat /\ Len(stack) > 0
  BY TopIs
<1>2. 9 + ListWork("loop") = 11
  BY DEF ListWork
<1>3. CASE Len(stack) = 1
  BY <1>3 DEF CallWork, WorkOf
<1>4. CASE Len(stack) = 2
  BY <1>4 DEF CallWork, WorkOf
<1>5. CASE Len(stack) > 2
  BY <1>1, <1>2, <1>5 DEF CallWork, WorkOf, Top
<1>6. Len(stack) = 1 \/ Len(stack) = 2 \/ Len(stack) > 2
  BY ONLY <1>1, OneTwoMore
<1> QED
  BY <1>3, <1>4, <1>5, <1>6

LEMMA CallWorkNext == CallsWorked'
  BY CallWorkIs, PTL

LEMMA ListWorkIs ==
  ListWork("after") = 3 /\ ListWork("loop") = 2 /\ ListWork("end") = 1
  BY DEF ListWork

\* Between 1 and 7 for a paragraph, and 6 and 12 for a statement.
LEMMA FrameWorkIs ==
  ASSUME NEW f, IsFrame(f), f.kind # "DIVISION"
  PROVE  /\ f.kind \notin Blocks /\ ~(f.kind = "ANONYMOUS" /\ f.body = <<>>)
              => FrameWork(f) = ListWork(f.at) + 4
         /\ f.kind \notin Blocks /\ f.kind = "ANONYMOUS" /\ f.body = <<>>
              => FrameWork(f) = ListWork(f.at)
         /\ f.kind \in Blocks /\ f.at \in {"loop", "after", "end"}
              => FrameWork(f) = 9 + ListWork(f.at)
         /\ f.kind \in Blocks /\ f.at = "clauses" => FrameWork(f) = 8 - f.part
         /\ f.kind \in Blocks /\ f.at = "not" => FrameWork(f) = 9
         /\ f.kind \notin Blocks => f.at \in {"loop", "after", "end"} /\ FrameWork(f) \in 1..7
         /\ f.kind \in Blocks => FrameWork(f) \in 6..12
<1>1. f.at \in {"loop", "after", "end", "clauses", "not"} /\ f.part \in 0..2
  BY DEF IsFrame, PlacesOf
<1>2. CASE f.kind \in Blocks
  BY <1>1, <1>2, ListWorkIs DEF FrameWork, BlockWork
<1>3. CASE f.kind \notin Blocks
  <2>1. f.at \in {"loop", "after", "end"}
    BY <1>3 DEF IsFrame, PlacesOf, Blocks
  <2> QED
    BY <1>3, <2>1, ListWorkIs DEF FrameWork, ParagraphWork
<1> QED
  BY <1>2, <1>3

\* The call on top goes on: to another place, list or clause of it.
LEMMA GoesOn ==
  ASSUME AreCalls(stack), Len(stack) > 1, NEW f, IsFrame(f), f.kind = Top.kind,
         stack' = SetTop(f)
  PROVE  /\ AreCalls(stack') /\ Len(stack') = Len(stack) /\ CallWork \in Int
         /\ CallWork' = CallWork - FrameWork(Top) + FrameWork(f)
<1>1. /\ Len(stack) \in Nat /\ Top = stack[Len(stack)] /\ IsFrame(Top)
      /\ Top.kind \in KindsAt(Len(stack)) /\ Top.kind # "DIVISION"
      /\ Top.kind \in {"PARAGRAPH", "ANONYMOUS"} <=> Len(stack) = 2
      /\ Top.kind \in Blocks <=> Len(stack) > 2
  BY TopIs
<1>2. /\ IsSeq(stack') /\ Len(stack') = Len(stack) /\ stack'[Len(stack)] = f
      /\ \A i \in 1..(Len(stack) - 1) : stack'[i] = stack[i]
  <2>1. IsSeq(stack) /\ Len(stack) > 0 /\ stack' = [stack EXCEPT ![Len(stack)] = f]
    BY DEF AreCalls, SetTop
  <2>2. /\ IsSeq([stack EXCEPT ![Len(stack)] = f]) /\ Len([stack EXCEPT ![Len(stack)] = f]) = Len(stack)
        /\ [stack EXCEPT ![Len(stack)] = f][Len(stack)] = f
        /\ \A i \in 1..(Len(stack) - 1) : [stack EXCEPT ![Len(stack)] = f][i] = stack[i]
    BY ONLY <2>1, ExceptLast, Zenon
  <2> QED
    BY ONLY <2>1, <2>2, Zenon
<1>3. \A i \in 1..Len(stack) : IsFrame(stack'[i]) /\ stack'[i].kind \in KindsAt(i)
  <2>1. \A i \in 1..Len(stack) : i = Len(stack) \/ i \in 1..(Len(stack) - 1)
    BY <1>1
  <2> QED
    BY <1>1, <1>2, <2>1 DEF AreCalls
<1>4. \A i \in 2..(Len(stack') - 1) : stack'[i].at = "loop"
  <2>1. \A i \in 2..(Len(stack) - 1) : i \in 1..(Len(stack) - 1)
    BY <1>1
  <2> QED
    BY <1>2, <2>1 DEF AreCalls
<1>5. AreCalls(stack')
  BY <1>1, <1>2, <1>3, <1>4 DEF AreCalls
<1>6. CallWork = WorkOf(stack) /\ CallWork' = WorkOf(stack')
  BY <1>5, CallWorkIs, CallWorkNext DEF CallsWorked
<1>7. FrameWork(Top) \in Int /\ FrameWork(f) \in Int
  BY <1>1, FrameWorkIs
<1>8. CASE Len(stack) = 2
  <2>1. Top.kind \notin Blocks
    BY <1>1, <1>8
  <2> QED
    BY <1>1, <1>2, <1>5, <1>6, <1>7, <1>8, <2>1 DEF WorkOf, FrameWork
<1>9. CASE Len(stack) > 2
  <2>1. 2 \in 1..(Len(stack) - 1) /\ Len(stack) # 1 /\ Len(stack) # 2
    BY <1>1, <1>9
  <2>2. stack'[2] = stack[2] /\ ParagraphWork(stack[2]) \in Int
    <3>1. IsFrame(stack[2]) /\ stack[2].kind \in {"PARAGRAPH", "ANONYMOUS"}
      BY <1>1, <2>1 DEF AreCalls, KindsAt
    <3>2. stack[2].kind \notin Blocks /\ stack[2].kind # "DIVISION"
      BY <3>1, KindsDiffer
    <3>3. FrameWork(stack[2]) \in Int
      BY <3>1, <3>2, FrameWorkIs
    <3> QED
      BY <1>2, <2>1, <3>2, <3>3 DEF FrameWork
  <2>3. /\ CallWork = ParagraphWork(stack[2]) + FrameWork(Top) + (Len(stack) - 3) * 11
        /\ CallWork' = ParagraphWork(stack[2]) + FrameWork(f) + (Len(stack) - 3) * 11
    BY <1>1, <1>2, <1>6, <1>9, <2>1, <2>2 DEF WorkOf, FrameWork
  <2> QED
    BY <1>1, <1>2, <1>5, <1>7, <2>2, <2>3
<1>10. Len(stack) = 2 \/ Len(stack) > 2
  BY ONLY <1>1, Len(stack) > 1, OneTwoMore
<1> QED
  BY <1>8, <1>9, <1>10

\* A paragraph, or a statement in a list, is called.
LEMMA Calls ==
  ASSUME AreCalls(stack), NEW f, IsFrame(f), f.kind \in KindsAt(Len(stack) + 1),
         stack' = Append(stack, f), Len(stack) > 1 => Top.at = "loop"
  PROVE  /\ AreCalls(stack') /\ Len(stack') = Len(stack) + 1 /\ CallWork \in Int
         /\ CallWork' = CallWork + FrameWork(f) - (IF Len(stack) = 1 THEN 4 ELSE 0)
<1>1. /\ Len(stack) \in Nat /\ Len(stack) > 0 /\ Top = stack[Len(stack)] /\ IsFrame(Top)
      /\ Top.kind = "DIVISION" <=> Len(stack) = 1
      /\ Top.kind \in Blocks <=> Len(stack) > 2
  BY TopIs
<1>2. /\ IsSeq(stack') /\ Len(stack') = Len(stack) + 1 /\ stack'[Len(stack) + 1] = f
      /\ \A i \in 1..Len(stack) : stack'[i] = stack[i]
  BY AppendSeq DEF AreCalls
<1>3. \A i \in 1..(Len(stack) + 1) : IsFrame(stack'[i]) /\ stack'[i].kind \in KindsAt(i)
  <2>1. \A i \in 1..(Len(stack) + 1) : i = Len(stack) + 1 \/ i \in 1..Len(stack)
    BY <1>1
  <2> QED
    BY <1>2, <2>1 DEF AreCalls
<1>4. \A i \in 2..Len(stack) : stack'[i].at = "loop"
  <2>1. \A i \in 2..Len(stack) : /\ i \in 1..Len(stack) /\ Len(stack) > 1
                                 /\ i = Len(stack) \/ i \in 2..(Len(stack) - 1)
    BY <1>1
  <2> QED
    BY <1>1, <1>2, <2>1 DEF AreCalls
<1>5. AreCalls(stack')
  <2>1. Len(stack) + 1 > 0 /\ Len(stack) + 1 - 1 = Len(stack)
    BY <1>1
  <2> QED
    BY ONLY <1>2, <1>3, <1>4, <2>1 DEF AreCalls
<1>6. CallWork = WorkOf(stack) /\ CallWork' = WorkOf(stack')
  BY <1>5, CallWorkIs, CallWorkNext DEF CallsWorked
<1>7. FrameWork(f) \in Int /\ (Len(stack) = 1 => f.kind \notin Blocks)
      /\ (Len(stack) > 1 => f.kind \in Blocks)
  <2>1. (Len(stack) = 1 => f.kind \notin Blocks) /\ (Len(stack) > 1 => f.kind \in Blocks)
        /\ f.kind # "DIVISION"
    BY <1>1, KindsDiffer DEF KindsAt, Blocks, HttpVerbs
  <2> QED
    BY <2>1, FrameWorkIs
<1>8. CASE Len(stack) = 1
  BY <1>2, <1>5, <1>6, <1>7, <1>8 DEF WorkOf, FrameWork
<1>9. CASE Len(stack) > 1
  <2>1. 2 \in 1..Len(stack)
    BY <1>1, <1>9
  <2>2. stack'[2] = stack[2] /\ ParagraphWork(stack[2]) \in Int
    <3>1. IsFrame(stack[2]) /\ stack[2].kind \in {"PARAGRAPH", "ANONYMOUS"}
      BY <1>1, <2>1 DEF AreCalls, KindsAt
    <3>2. stack[2].kind \notin Blocks /\ stack[2].kind # "DIVISION"
      BY <3>1, KindsDiffer
    <3>3. FrameWork(stack[2]) \in Int
      BY <3>1, <3>2, FrameWorkIs
    <3> QED
      BY <1>2, <2>1, <3>2, <3>3 DEF FrameWork
  <2>3. CallWork' = ParagraphWork(stack[2]) + FrameWork(f) + (Len(stack) + 1 - 3) * 11
    <3>1. Len(stack) + 1 # 1 /\ Len(stack) + 1 # 2
      BY <1>1, <1>9
    <3> QED
      BY ONLY <1>2, <1>6, <1>7, <1>9, <2>2, <3>1 DEF WorkOf, FrameWork
  <2>4. CASE Len(stack) = 2
    BY <1>2, <1>5, <1>6, <1>7, <2>2, <2>3, <2>4 DEF WorkOf
  <2>5. CASE Len(stack) > 2
    <3>1. Top.kind \in Blocks /\ Top.at = "loop" /\ Top.kind # "DIVISION"
      BY <1>1, <1>9, <2>5, KindsDiffer
    <3>2. FrameWork(Top) = 11
      BY <1>1, <3>1, FrameWorkIs, ListWorkIs
    <3>3. BlockWork(Top) = 11
      BY <3>1, <3>2 DEF FrameWork
    <3>4. CallWork = ParagraphWork(stack[2]) + 11 + (Len(stack) - 3) * 11
      BY <1>1, <1>6, <2>5, <3>3 DEF WorkOf
    <3> QED
      BY <1>1, <1>2, <1>5, <1>7, <2>2, <2>3, <2>5, <3>4
  <2>6. Len(stack) = 2 \/ Len(stack) > 2
    BY ONLY <1>1, <1>9, OneTwoMore
  <2> QED
    BY <2>4, <2>5, <2>6
<1>10. Len(stack) = 1 \/ Len(stack) > 1
  BY ONLY <1>1, OneTwoMore
<1> QED
  BY <1>8, <1>9, <1>10

\* A frame whose list has got one more statement.
Added(f, node) == Fields(f.kind, "after", f.part, f.stop, Append(f.body, node), f.parts)

LEMMA AddedIs ==
  ASSUME NEW f, IsFrame(f), f.kind # "DIVISION", NEW node
  PROVE  /\ IsFrame(Added(f, node)) /\ Added(f, node).kind = f.kind
         /\ Added(f, node).at = "after" /\ Added(f, node).body # <<>>
         /\ f.at = "loop" => FrameWork(Added(f, node)) <= FrameWork(f) + 5
<1> DEFINE g == Added(f, node)
<1>1. /\ g.kind = f.kind /\ g.at = "after" /\ g.part = f.part /\ g.stop = f.stop
      /\ g.body = Append(f.body, node) /\ g.parts = f.parts
  BY DEF Added, Fields
<1>2. g = Fields(g.kind, g.at, g.part, g.stop, g.body, g.parts)
  BY <1>1 DEF Added
<1>3. IsSeq(g.body) /\ g.body # <<>>
  BY <1>1, AppendSeq DEF IsFrame
<1> HIDE DEF g
<1>4. IsFrame(g)
  <2>1. "after" \in PlacesOf(f.kind)
    BY DEF PlacesOf
  <2> QED
    BY <1>1, <1>2, <1>3, <2>1 DEF IsFrame
<1>5. FrameWork(g) = IF f.kind \in Blocks THEN 12 ELSE 7
  BY <1>1, <1>3, <1>4, FrameWorkIs, ListWorkIs
<1>6. f.at = "loop" => FrameWork(f) \in (IF f.kind \in Blocks THEN {11} ELSE {2, 6})
  BY FrameWorkIs, ListWorkIs
<1>7. f.at = "loop" => FrameWork(g) <= FrameWork(f) + 5
  BY <1>5, <1>6
<1> QED
  BY <1>1, <1>3, <1>4, <1>7 DEF g

LEMMA AddToIs ==
  ASSUME NEW s, IsSeq(s), Len(s) > 0, NEW node, IsFrame(s[Len(s)])
  PROVE  AddTo(s, node) = [s EXCEPT ![Len(s)] = Added(s[Len(s)], node)]
<1>1. s \in Seq({s[i] : i \in DOMAIN s}) /\ Len(s) \in DOMAIN s
  BY DEF IsSeq
<1> DEFINE f == s[Len(s)]
<1>2. f = Fields(f.kind, f.at, f.part, f.stop, f.body, f.parts)
  BY DEF IsFrame
<1>3. [f EXCEPT !.body = Append(f.body, node), !.at = "after"] = Added(f, node)
  <2> DEFINE body == Append(f.body, node)
  <2>1. PICK kind, at, part, stop, b, parts : f = Fields(kind, at, part, stop, b, parts)
    BY <1>2
  <2>2. /\ f.kind = kind /\ f.part = part /\ f.stop = stop /\ f.parts = parts
    BY <2>1 DEF Fields
  <2> HIDE DEF f, body
  <2>3. [f EXCEPT !.body = body] = Fields(kind, at, part, stop, body, parts)
    BY ONLY <2>1, SMT DEF Fields
  <2>4. PICK g : g = [f EXCEPT !.body = body]
    OBVIOUS
  <2>5. [f EXCEPT !.body = body, !.at = "after"] = [g EXCEPT !.at = "after"]
    BY <2>4, Zenon
  <2>6. g = Fields(kind, at, part, stop, body, parts)
    BY ONLY <2>3, <2>4
  <2>7. [g EXCEPT !.at = "after"] = Fields(kind, "after", part, stop, body, parts)
    BY ONLY <2>6, SMT DEF Fields
  <2> QED
    BY ONLY <2>2, <2>5, <2>7 DEF Added, body
<1>4. AddTo(s, node) = [s EXCEPT ![Len(s)] = [f EXCEPT !.body = Append(f.body, node), !.at = "after"]]
  BY <1>1 DEF AddTo
<1> QED
  BY <1>3, <1>4

\* A call returns, and its statement is added to the list of the caller.
LEMMA Returns ==
  ASSUME AreCalls(stack), Len(stack) > 1, NEW node,
         LET s == AddTo(Pop, node)
         IN  stack' = IF Len(stack) = 2 THEN [s EXCEPT ![1].at = "clauses"] ELSE s
  PROVE  /\ AreCalls(stack') /\ Len(stack') = Len(stack) - 1 /\ CallWork \in Int
         /\ CallWork' <= CallWork - FrameWork(Top) + (IF Len(stack) = 2 THEN 4 ELSE 5)
<1> DEFINE n == Len(stack) - 1
           f == stack[n]
           g == IF n = 1 THEN Fields("DIVISION", "clauses", f.part, f.stop, Append(f.body, node), f.parts)
                ELSE Added(f, node)
<1>1. /\ Len(stack) \in Nat /\ Top = stack[Len(stack)] /\ IsFrame(Top)
      /\ Top.kind # "DIVISION" /\ Top.kind \in KindsAt(Len(stack))
      /\ Top.kind \in Blocks <=> Len(stack) > 2
  BY TopIs
<1>2. n \in 1..Len(stack) /\ n \in Nat /\ n > 0 /\ Len(stack) = n + 1 /\ Len(stack) > 0
  BY <1>1
<1>3. IsFrame(f) /\ f.kind \in KindsAt(n) /\ (n = 1 <=> f.kind = "DIVISION")
      /\ (n > 1 => f.at = "loop")
  <2>1. IsFrame(f) /\ f.kind \in KindsAt(n)
    BY <1>2 DEF AreCalls
  <2>2. n = 1 <=> f.kind = "DIVISION"
    BY <1>2, <2>1, KindsDiffer DEF KindsAt, Lists
  <2>3. n > 1 => n \in 2..(Len(stack) - 1)
    BY <1>2
  <2> QED
    BY <2>1, <2>2, <2>3 DEF AreCalls
<1>4. /\ IsSeq(Pop) /\ Len(Pop) = n /\ \A i \in 1..n : Pop[i] = stack[i]
  BY <1>2, SubSeqSeq DEF AreCalls, Pop
<1>5. AddTo(Pop, node) = [Pop EXCEPT ![n] = Added(f, node)]
  <2>1. Pop[n] = f /\ Len(Pop) > 0 /\ n \in 1..n
    BY <1>2, <1>4
  <2> QED
    BY ONLY <1>3, <1>4, <2>1, AddToIs
<1> HIDE DEF n, f
<1>6. stack' = [Pop EXCEPT ![n] = g]
  <2>1. CASE n = 1
    <3> DEFINE a == Added(f, node)
               s == [Pop EXCEPT ![1] = a]
    <3>1. stack' = [s EXCEPT ![1].at = "clauses"]
      BY <1>2, <1>5, <2>1
    <3>2. s[1] = a
      <4>1. Pop \in Seq({Pop[i] : i \in DOMAIN Pop}) /\ Len(Pop) = 1
        BY <1>4, <2>1 DEF IsSeq
      <4> QED
        BY <4>1
    <3>3. stack' = [s EXCEPT ![1] = [a EXCEPT !.at = "clauses"]]
      BY <3>1, <3>2
    <3>4. stack' = [Pop EXCEPT ![1] = [a EXCEPT !.at = "clauses"]]
      BY <3>3
    <3>5. PICK kind, at, part, stop, body, parts : a = Fields(kind, at, part, stop, body, parts)
      BY DEF Added
    <3>6. [a EXCEPT !.at = "clauses"] = Fields(kind, "clauses", part, stop, body, parts)
      <4> HIDE DEF a
      <4> QED
        BY ONLY <3>5, SMT DEF Fields
    <3>7. kind = "DIVISION" /\ part = f.part /\ stop = f.stop /\ body = Append(f.body, node)
          /\ parts = f.parts
      BY <1>3, <2>1, <3>5 DEF Added, Fields
    <3> HIDE DEF a
    <3> QED
      BY ONLY <2>1, <3>4, <3>6, <3>7
  <2>2. CASE n # 1
    BY <1>2, <1>5, <2>2
  <2> QED
    BY <2>1, <2>2
<1>7. IsFrame(g) /\ g.kind \in KindsAt(n) /\ (n > 1 => g = Added(f, node))
  <2>1. CASE n = 1
    <3>1. /\ g.kind = "DIVISION" /\ g.at = "clauses" /\ g.part = f.part /\ g.stop = f.stop
          /\ g.body = Append(f.body, node) /\ g.parts = f.parts
      BY <2>1 DEF Fields
    <3>2. g = Fields(g.kind, g.at, g.part, g.stop, g.body, g.parts)
      BY <2>1, <3>1
    <3>3. IsSeq(g.body)
      <4>1. IsSeq(f.body)
        BY <1>3 DEF IsFrame
      <4>2. IsSeq(Append(f.body, node))
        BY ONLY <4>1, AppendSeq
      <4> QED
        BY ONLY <3>1, <4>2
    <3> HIDE DEF g
    <3> QED
      BY <1>3, <2>1, <3>1, <3>2, <3>3 DEF IsFrame, PlacesOf, KindsAt, Kinds
  <2>2. CASE n # 1
    BY <1>2, <1>3, <2>2, AddedIs
  <2> QED
    BY <1>2, <2>1, <2>2
<1> HIDE DEF g
<1>8. /\ IsSeq(stack') /\ Len(stack') = n /\ stack'[n] = g
      /\ \A i \in 1..(n - 1) : stack'[i] = stack[i]
  <2>1. /\ IsSeq(stack') /\ Len(stack') = n /\ stack'[n] = g
        /\ \A i \in 1..(n - 1) : stack'[i] = Pop[i]
    <3>1. stack' = [Pop EXCEPT ![Len(Pop)] = g] /\ Len(Pop) > 0
      BY <1>2, <1>4, <1>6
    <3>2. /\ IsSeq(stack') /\ Len(stack') = Len(Pop) /\ stack'[Len(Pop)] = g
          /\ \A i \in 1..(Len(Pop) - 1) : stack'[i] = Pop[i]
      <4>1. PICK s : s = Pop
        OBVIOUS
      <4>2. IsSeq(s) /\ Len(s) > 0 /\ stack' = [s EXCEPT ![Len(s)] = g]
        BY ONLY <1>4, <3>1, <4>1
      <4>3. /\ IsSeq(stack') /\ Len(stack') = Len(s) /\ stack'[Len(s)] = g
            /\ \A i \in 1..(Len(s) - 1) : stack'[i] = s[i]
        <5>1. /\ IsSeq([s EXCEPT ![Len(s)] = g]) /\ Len([s EXCEPT ![Len(s)] = g]) = Len(s)
              /\ [s EXCEPT ![Len(s)] = g][Len(s)] = g
              /\ \A i \in 1..(Len(s) - 1) : [s EXCEPT ![Len(s)] = g][i] = s[i]
          BY ONLY <4>2, ExceptLast, Zenon
        <5> QED
          BY ONLY <4>2, <5>1, Zenon
      <4> QED
        BY ONLY <4>1, <4>3
    <3> QED
      BY ONLY <1>4, <3>2
  <2>2. \A i \in 1..(n - 1) : i \in 1..n
    BY <1>2
  <2> QED
    BY <1>4, <2>1, <2>2
<1>9. AreCalls(stack')
  <2>1. \A i \in 1..n : (i = n \/ i \in 1..(n - 1)) /\ i \in 1..Len(stack)
    BY <1>2
  <2>2. \A i \in 1..n : IsFrame(stack'[i]) /\ stack'[i].kind \in KindsAt(i)
    BY <1>7, <1>8, <2>1 DEF AreCalls
  <2>3. \A i \in 2..(n - 1) : i \in 1..(n - 1) /\ i \in 2..(Len(stack) - 1)
    BY <1>2
  <2>4. \A i \in 2..(n - 1) : stack'[i].at = "loop"
    BY <1>8, <2>3 DEF AreCalls
  <2> QED
    BY <1>2, <1>8, <2>2, <2>4 DEF AreCalls
<1>10. CallWork = WorkOf(stack) /\ CallWork' = WorkOf(stack')
  BY <1>9, CallWorkIs, CallWorkNext DEF CallsWorked
<1>11. FrameWork(Top) \in Int
  BY <1>1, FrameWorkIs
<1>12. CASE n = 1
  <2>1. Len(stack) = 2 /\ Top.kind \notin Blocks
    BY <1>1, <1>2, <1>12
  <2>2. CallWork = FrameWork(Top) /\ CallWork' = 4
    BY <1>1, <1>8, <1>10, <1>12, <2>1 DEF WorkOf, FrameWork
  <2> QED
    BY <1>2, <1>8, <1>9, <1>11, <2>1, <2>2
<1>13. CASE n > 1
  <2>1. Len(stack) > 2 /\ Len(stack) # 2 /\ Len(stack) # 1 /\ Top.kind \in Blocks
    BY <1>1, <1>2, <1>13
  <2>2. f.kind # "DIVISION" /\ f.at = "loop" /\ FrameWork(g) <= FrameWork(f) + 5
        /\ FrameWork(g) \in Int /\ FrameWork(f) \in Int /\ g.kind = f.kind
    <3>1. f.kind # "DIVISION" /\ f.at = "loop" /\ g.kind = f.kind
      BY <1>2, <1>3, <1>7, <1>13, AddedIs
    <3> QED
      BY <1>3, <1>7, <1>13, <3>1, AddedIs, FrameWorkIs
  <2>3. CallWork = ParagraphWork(stack[2]) + FrameWork(Top) + (Len(stack) - 3) * 11
    BY <1>1, <1>10, <2>1 DEF WorkOf, FrameWork
  <2>4. CASE n = 2
    <3>1. f.kind \notin Blocks /\ stack[2] = f
      BY <1>3, <2>4, KindsDiffer DEF KindsAt, f
    <3>2. CallWork = FrameWork(f) + FrameWork(Top)
      BY <1>2, <1>11, <2>2, <2>3, <2>4, <3>1 DEF FrameWork
    <3>3. CallWork' = FrameWork(g)
      BY <1>8, <1>10, <2>2, <2>4, <3>1 DEF WorkOf, FrameWork
    <3> QED
      BY <1>2, <1>8, <1>9, <1>11, <2>1, <2>2, <3>2, <3>3
  <2>5. CASE n > 2
    <3>1. 2 \in 1..(n - 1) /\ 2 \in 1..Len(stack) /\ n # 1 /\ n # 2
      BY <1>2, <2>5
    <3>2. f.kind \in Blocks
      BY <1>3, <3>1 DEF KindsAt
    <3>3. ParagraphWork(stack[2]) \in Int /\ stack'[2] = stack[2]
      <4>1. IsFrame(stack[2]) /\ stack[2].kind \in {"PARAGRAPH", "ANONYMOUS"}
        BY <3>1 DEF AreCalls, KindsAt
      <4>2. stack[2].kind \notin Blocks /\ stack[2].kind # "DIVISION"
        BY <4>1, KindsDiffer
      <4>3. FrameWork(stack[2]) \in Int
        BY <4>1, <4>2, FrameWorkIs
      <4> QED
        BY <1>8, <3>1, <4>2, <4>3 DEF FrameWork
    <3>4. FrameWork(f) = 11
      BY <1>3, <2>2, <3>2, FrameWorkIs, ListWorkIs
    <3>5. CallWork' = ParagraphWork(stack[2]) + FrameWork(g) + (n - 3) * 11
      BY <1>8, <1>10, <2>2, <3>1, <3>2, <3>3 DEF WorkOf, FrameWork
    <3>6. CallWork \in Int /\ CallWork' <= CallWork - FrameWork(Top) + 5
      <4>1. PICK p \in Int, w \in Int : p = ParagraphWork(stack[2]) /\ w = FrameWork(Top)
        BY <1>11, <3>3
      <4>2. CallWork = p + w + (n + 1 - 3) * 11 /\ CallWork' = p + FrameWork(g) + (n - 3) * 11
        BY ONLY <1>2, <2>3, <3>5, <4>1
      <4>3. PICK m \in Int : m = (n - 3) * 11 /\ (n + 1 - 3) * 11 = m + 11
        BY ONLY <1>2
      <4>4. CallWork = p + w + (m + 11) /\ CallWork' = p + FrameWork(g) + m
        BY ONLY <4>2, <4>3
      <4>5. FrameWork(g) \in Int /\ FrameWork(g) <= 16 /\ w = FrameWork(Top)
        BY ONLY <2>2, <3>4, <4>1
      <4> QED
        BY ONLY <4>4, <4>5, p \in Int, w \in Int, m \in Int
    <3> QED
      BY <1>2, <1>8, <1>9, <2>1, <3>6
  <2> QED
    BY ONLY <1>2, <1>13, <2>4, <2>5, OneTwoMore
<1> QED
  BY ONLY <1>2, <1>12, <1>13, OneTwoMore

\* A list without statements and without a name is given up.
LEMMA GivenUp ==
  ASSUME AreCalls(stack), Len(stack) = 2, stack' = Pop
  PROVE  AreCalls(stack') /\ Len(stack') = 1 /\ CallWork' = 4 /\ CallWork = FrameWork(Top)
<1>1. Top = stack[2] /\ Top.kind \notin Blocks
  BY TopIs
<1>2. IsSeq(stack') /\ Len(stack') = 1 /\ stack'[1] = stack[1]
  <2>1. /\ IsSeq(Pop) /\ Len(Pop) = Len(stack) - 1
        /\ \A i \in 1..(Len(stack) - 1) : Pop[i] = stack[i]
    BY SubSeqSeq DEF AreCalls, Pop
  <2>2. Len(stack) - 1 = 1 /\ 1 \in 1..1
    OBVIOUS
  <2> QED
    BY ONLY <2>1, <2>2, stack' = Pop
<1>3. AreCalls(stack')
  <2>1. \A i \in 1..1 : i = 1 /\ i \in 1..Len(stack)
    OBVIOUS
  <2>2. 2..(1 - 1) = {}
    OBVIOUS
  <2> QED
    BY <1>2, <2>1, <2>2 DEF AreCalls
<1>4. CallWork = WorkOf(stack) /\ CallWork' = WorkOf(stack')
  BY <1>3, CallWorkIs, CallWorkNext DEF CallsWorked
<1> QED
  BY <1>1, <1>2, <1>3, <1>4 DEF WorkOf, FrameWork

LEMMA WorkOfType ==
  ASSUME NEW s, AreCalls(s)
  PROVE  WorkOf(s) \in Int
<1>0. Len(s) \in Nat /\ Len(s) > 0
  BY SeqIs DEF AreCalls, IsSeq
<1>1. PICK n \in Nat : n = Len(s) /\ n > 0
  BY ONLY <1>0
<1>2. CASE n = 1
  BY <1>1, <1>2 DEF WorkOf
<1>3. CASE n > 1
  <2>1. 2 \in 1..n /\ n \in 1..n /\ n # 1
    BY ONLY <1>1, <1>3
  <2>2. /\ IsFrame(s[2]) /\ s[2].kind \in KindsAt(2)
        /\ IsFrame(s[n]) /\ s[n].kind \in KindsAt(n)
    BY <1>1, <2>1 DEF AreCalls
  <2>3. s[2].kind \notin Blocks /\ s[2].kind # "DIVISION"
    BY <2>2, KindsDiffer DEF KindsAt
  <2>4. ParagraphWork(s[2]) \in Int
    BY <2>2, <2>3, FrameWorkIs DEF FrameWork
  <2>5. CASE n = 2
    BY <1>1, <2>4, <2>5 DEF WorkOf
  <2>6. CASE n > 2
    <3>1. n # 2 /\ (n - 3) * 11 \in Int
      BY ONLY <1>1, <2>6
    <3>2. s[n].kind \in Blocks /\ s[n].kind # "DIVISION"
      BY ONLY <1>1, <2>1, <2>2, <3>1, KindsDiffer DEF KindsAt
    <3>3. BlockWork(s[n]) \in Int
      BY <2>2, <3>2, FrameWorkIs DEF FrameWork
    <3>4. WorkOf(s) = ParagraphWork(s[2]) + BlockWork(s[n]) + (n - 3) * 11
      BY <1>1, <2>1, <3>1 DEF WorkOf
    <3> QED
      BY ONLY <2>4, <3>1, <3>3, <3>4
  <2> QED
    BY ONLY <1>1, <1>3, <2>5, <2>6, OneTwoMore
<1> QED
  BY ONLY <1>1, <1>2, <1>3, OneTwoMore

LEMMA CallWorkType ==
  /\ AreCalls(stack) => CallWork \in Int
  /\ AreCalls(stack') => CallWork' \in Int
  BY WorkOfType, CallWorkIs, CallWorkNext DEF CallsWorked

----------------------------------------------------------------------------
(* The invariant, and what a step comes to.                                 *)

ParseInv ==
    /\ tokens \in Seq(Tokens) /\ pos \in 1..(Len(tokens) + 1)
    /\ errs \in Nat /\ pc \in {"parse", "junk", "done"}
    /\ AreCalls(stack) /\ (pc # "parse" => Len(stack) = 1)

Closer == ParseInv' /\ Work' < Work

\* Some tokens are taken, and the calls change.
LEMMA StepOk ==
  ASSUME ParseInv, pc = "parse", pc' = pc, tokens' = tokens, errs' \in Nat, AreCalls(stack'),
         NEW k \in Nat, pos' = pos + k, pos + k <= Len(tokens) + 1, CallWork' < CallWork + 12 * k
  PROVE  Closer
<1>1. CallWork \in Int /\ CallWork' \in Int /\ PhaseWork = 5 /\ PhaseWork' = 5
  BY CallWorkType DEF ParseInv, PhaseWork
<1>2. Len(tokens) \in Nat /\ pos \in 1..(Len(tokens) + 1)
  BY DEF ParseInv
<1>3. /\ Work = 12 * (Len(tokens) + 1 - pos) + 5 + CallWork
      /\ Work' = 12 * (Len(tokens) + 1 - (pos + k)) + 5 + CallWork'
  BY <1>1 DEF Work
<1>4. Work' < Work
  <2>1. PICK left \in Int : left = Len(tokens) + 1 - pos
    BY <1>2
  <2>2. Len(tokens) + 1 - (pos + k) = left - k
    BY <1>2, <2>1
  <2> QED
    BY ONLY <1>1, <1>3, <2>1, <2>2, k \in Nat, CallWork' < CallWork + 12 * k
<1>5. ParseInv'
  BY <1>2 DEF ParseInv
<1> QED
  BY <1>4, <1>5 DEF Closer

\* The call on top goes on.
LEMMA GoesOnOk ==
  ASSUME ParseInv, pc = "parse", pc' = pc, tokens' = tokens, errs' \in Nat, Len(stack) > 1,
         NEW f, IsFrame(f), f.kind = Top.kind, stack' = SetTop(f),
         NEW k \in Nat, pos' = pos + k, pos + k <= Len(tokens) + 1,
         k > 0 \/ FrameWork(f) < FrameWork(Top)
  PROVE  Closer
<1>1. /\ AreCalls(stack') /\ CallWork \in Int
      /\ CallWork' = CallWork - FrameWork(Top) + FrameWork(f)
  BY GoesOn DEF ParseInv
<1>2. /\ FrameWork(f) \in Int /\ FrameWork(Top) \in Int
      /\ FrameWork(f) < FrameWork(Top) + 12
  <2>1. IsFrame(Top) /\ Top.kind # "DIVISION"
    BY TopIs DEF ParseInv
  <2> QED
    BY <2>1, FrameWorkIs
<1>3. CallWork' < CallWork + 12 * k
  <2>1. CASE k > 0
    BY ONLY <1>1, <1>2, <2>1, k \in Nat
  <2>2. CASE k = 0
    BY ONLY <1>1, <1>2, <2>2, k > 0 \/ FrameWork(f) < FrameWork(Top)
  <2> QED
    BY <2>1, <2>2
<1> QED
  BY <1>1, <1>3, StepOk

\* A statement ends.
LEMMA ReturnOk ==
  ASSUME ParseInv, pc = "parse", pc' = pc, tokens' = tokens, errs' \in Nat, Top.kind \in Blocks,
         NEW node, stack' = AddTo(Pop, node),
         NEW k \in Nat, pos' = pos + k, pos + k <= Len(tokens) + 1
  PROVE  Closer
<1>1. AreCalls(stack) /\ Len(stack) > 2 /\ Len(stack) \in Nat /\ IsFrame(Top)
      /\ Top.kind # "DIVISION"
  BY TopIs DEF ParseInv
<1>2. Len(stack) > 1 /\ Len(stack) # 2
  BY ONLY <1>1, OneTwoMore
<1>3. /\ AreCalls(stack') /\ CallWork \in Int
      /\ CallWork' <= CallWork - FrameWork(Top) + 5
  BY <1>1, <1>2, Returns
<1>4. FrameWork(Top) \in 6..12
  BY <1>1, FrameWorkIs
<1>5. CallWork' \in Int
  BY <1>3, CallWorkType
<1>6. CallWork' < CallWork + 12 * k
  BY ONLY <1>3, <1>4, <1>5, k \in Nat
<1> QED
  BY <1>3, <1>6, StepOk

\* A statement begins in a list.
LEMMA CallOk ==
  ASSUME ParseInv, pc = "parse", pc' = pc, tokens' = tokens, errs' \in Nat, Len(stack) > 1,
         Top.at = "loop", NEW f, IsFrame(f), f.kind \in Blocks, f.at # "after",
         stack' = Append(stack, f), pos' = pos + 1, pos <= Len(tokens)
  PROVE  Closer
<1>1. Len(stack) \in Nat /\ f.kind \in KindsAt(Len(stack) + 1) /\ f.kind # "DIVISION"
  <2>1. Len(stack) \in Nat /\ Len(stack) + 1 # 1 /\ Len(stack) + 1 # 2
    <3>1. Len(stack) \in Nat
      BY TopIs DEF ParseInv
    <3> QED
      BY ONLY <3>1, Len(stack) > 1
  <2> QED
    BY <2>1, KindsDiffer DEF KindsAt
<1>2. Len(stack) # 1
  BY ONLY <1>1, Len(stack) > 1, OneTwoMore
<1>3. AreCalls(stack') /\ CallWork \in Int /\ CallWork' = CallWork + FrameWork(f) - 0
  BY <1>1, <1>2, Calls DEF ParseInv
<1>4. FrameWork(f) \in Int /\ FrameWork(f) < 12
  <2>1. f.at \in {"loop", "end", "clauses", "not"} /\ f.part \in 0..2
    BY DEF IsFrame, PlacesOf
  <2> QED
    BY <1>1, <2>1, FrameWorkIs, ListWorkIs
<1>5. CallWork' < CallWork + 12 * 1
  BY ONLY <1>3, <1>4
<1>6. pos + 1 <= Len(tokens) + 1
  BY DEF ParseInv
<1> QED
  BY <1>3, <1>5, <1>6, StepOk

\* Tokens are taken, and nothing else happens.
LEMMA SkipOk ==
  ASSUME ParseInv, pc = "parse", pc' = pc, tokens' = tokens, errs' \in Nat, stack' = stack,
         NEW k \in Nat, k > 0, pos' = pos + k, pos + k <= Len(tokens) + 1
  PROVE  Closer
<1>1. AreCalls(stack') /\ CallWork' = CallWork
  BY DEF ParseInv, CallWork, Top
<1>2. CallWork \in Int
  BY CallWorkType DEF ParseInv
<1>3. CallWork' < CallWork + 12 * k
  BY ONLY <1>1, <1>2, k \in Nat, k > 0
<1> QED
  BY <1>1, <1>3, StepOk

----------------------------------------------------------------------------
(* Frames after a change, and the tokens that are taken.                    *)

LEMMA FieldsAre ==
  ASSUME NEW kind, NEW at, NEW part, NEW stop, NEW body, NEW parts,
         kind \in Kinds, at \in PlacesOf(kind), part \in 0..2, stop \subseteq Tokens, IsSeq(body)
  PROVE  LET f == Fields(kind, at, part, stop, body, parts)
         IN  /\ IsFrame(f) /\ f.kind = kind /\ f.at = at /\ f.part = part /\ f.body = body
<1> DEFINE f == Fields(kind, at, part, stop, body, parts)
<1>1. /\ f.kind = kind /\ f.at = at /\ f.part = part /\ f.stop = stop /\ f.body = body
      /\ f.parts = parts
  BY DEF Fields
<1> HIDE DEF f
<1>2. f = Fields(f.kind, f.at, f.part, f.stop, f.body, f.parts)
  BY <1>1 DEF f
<1>3. IsFrame(f)
  BY ONLY <1>1, <1>2, kind \in Kinds, at \in PlacesOf(kind), part \in 0..2, stop \subseteq Tokens,
     IsSeq(body) DEF IsFrame
<1> QED
  BY <1>1, <1>3 DEF f

LEMMA EmptyList == IsSeq(<<>>)
  BY DEF IsSeq

LEMMA AtSet ==
  ASSUME NEW f, IsFrame(f), NEW at, at \in PlacesOf(f.kind)
  PROVE  LET g == [f EXCEPT !.at = at]
         IN  IsFrame(g) /\ g.kind = f.kind /\ g.at = at /\ g.part = f.part /\ g.body = f.body
<1>1. [f EXCEPT !.at = at] = Fields(f.kind, at, f.part, f.stop, f.body, f.parts)
  <2>1. PICK kind, a, part, stop, body, parts :
           /\ f = Fields(kind, a, part, stop, body, parts)
           /\ f.kind = kind /\ f.part = part /\ f.stop = stop /\ f.body = body /\ f.parts = parts
    BY DEF IsFrame
  <2>2. [f EXCEPT !.at = at] = Fields(kind, at, part, stop, body, parts)
    BY ONLY <2>1, SMT DEF Fields
  <2> QED
    BY ONLY <2>1, <2>2
<1> QED
  BY <1>1, FieldsAre DEF IsFrame

LEMMA PartSet ==
  ASSUME NEW f, IsFrame(f), NEW part \in 0..2
  PROVE  LET g == [f EXCEPT !.part = part]
         IN  IsFrame(g) /\ g.kind = f.kind /\ g.at = f.at /\ g.part = part /\ g.body = f.body
<1>1. [f EXCEPT !.part = part] = Fields(f.kind, f.at, part, f.stop, f.body, f.parts)
  <2>1. PICK kind, at, p, stop, body, parts :
           /\ f = Fields(kind, at, p, stop, body, parts)
           /\ f.kind = kind /\ f.at = at /\ f.stop = stop /\ f.body = body /\ f.parts = parts
    BY DEF IsFrame
  <2>2. [f EXCEPT !.part = part] = Fields(kind, at, part, stop, body, parts)
    BY ONLY <2>1, SMT DEF Fields
  <2> QED
    BY ONLY <2>1, <2>2
<1> QED
  BY <1>1, FieldsAre DEF IsFrame

LEMMA PartsSet ==
  ASSUME NEW f, IsFrame(f), NEW parts
  PROVE  LET g == [f EXCEPT !.parts = parts]
         IN  IsFrame(g) /\ g.kind = f.kind /\ g.at = f.at /\ g.part = f.part /\ g.body = f.body
<1>1. [f EXCEPT !.parts = parts] = Fields(f.kind, f.at, f.part, f.stop, f.body, parts)
  <2>1. PICK kind, at, part, stop, body, p :
           /\ f = Fields(kind, at, part, stop, body, p)
           /\ f.kind = kind /\ f.at = at /\ f.part = part /\ f.stop = stop /\ f.body = body
    BY DEF IsFrame
  <2>2. [f EXCEPT !.parts = parts] = Fields(kind, at, part, stop, body, parts)
    BY ONLY <2>1, SMT DEF Fields
  <2> QED
    BY ONLY <2>1, <2>2
<1> QED
  BY <1>1, FieldsAre DEF IsFrame

\* A list begins, or is stored.
LEMMA ListBegins ==
  ASSUME NEW f, IsFrame(f), f.kind \in Blocks, NEW part \in 0..2, NEW stop \in SUBSET Tokens
  PROVE  LET g == [f EXCEPT !.at = "loop", !.part = part, !.stop = stop, !.body = <<>>]
         IN  IsFrame(g) /\ g.kind = f.kind
<1>1. PICK g1 : g1 = [f EXCEPT !.at = "loop"]
  OBVIOUS
<1>2. PICK g2 : g2 = [g1 EXCEPT !.part = part]
  OBVIOUS
<1>3. PICK g3 : g3 = [g2 EXCEPT !.stop = stop]
  OBVIOUS
<1>4. PICK g4 : g4 = [g3 EXCEPT !.body = <<>>]
  OBVIOUS
<1>5. [f EXCEPT !.at = "loop", !.part = part, !.stop = stop, !.body = <<>>] = g4
  BY <1>1, <1>2, <1>3, <1>4, Zenon
<1>6. "loop" \in PlacesOf(f.kind)
  BY KindsDiffer DEF PlacesOf
<1>7. IsFrame(g2) /\ g2.kind = f.kind
  <2>1. IsFrame(g1) /\ g1.kind = f.kind
    BY <1>1, <1>6, AtSet
  <2> QED
    BY <1>2, <2>1, PartSet
<1>8. PICK kind, at, p, s, body, parts :
         /\ g2 = Fields(kind, at, p, s, body, parts)
         /\ g2.kind = kind /\ kind \in Kinds /\ at \in PlacesOf(kind) /\ p \in 0..2
  BY <1>7 DEF IsFrame
<1>9. g3 = Fields(kind, at, p, stop, body, parts)
  BY ONLY <1>3, <1>8, SMT DEF Fields
<1>10. g4 = Fields(kind, at, p, stop, <<>>, parts)
  BY ONLY <1>4, <1>9, SMT DEF Fields
<1>11. IsFrame(g4) /\ g4.kind = kind
  BY <1>8, <1>10, EmptyList, FieldsAre
<1> QED
  BY <1>5, <1>7, <1>8, <1>11

\* Only a token stands where the stream has not ended.
LEMMA TokenThere ==
  ASSUME ParseInv, NEW i \in Nat, TokenAt(i) # "EOF"
  PROVE  i <= Len(tokens) /\ i + 1 <= Len(tokens) + 1 /\ Len(tokens) \in Nat
  BY DEF ParseInv, TokenAt

LEMMA MatchedIs ==
  ASSUME ParseInv, NEW expected, Len(expected) \in Nat,
         \A i \in 1..Len(expected) : expected[i] # "EOF"
  PROVE  /\ Matched(expected) \in Nat /\ pos + Matched(expected) <= Len(tokens) + 1
         /\ Len(expected) > 0 /\ Token = expected[1] => Matched(expected) > 0
<1> DEFINE Stops(n) == n = Len(expected) \/ TokenAt(pos + n) # expected[n + 1]
           Matches(n) == \A i \in 1..n : TokenAt(pos + i - 1) = expected[i]
           S == {n \in 0..Len(expected) : Stops(n)}
           m == Matched(expected)
<1>1. \E n \in 0..Len(expected) : Matches(n) /\ Stops(n)
  <2>1. S \in SUBSET Nat /\ Len(expected) \in S
    OBVIOUS
  <2>2. PICK n \in S : \A k \in S : n <= k
    BY <2>1, LeastNumber
  <2>3. n \in 0..Len(expected) /\ Stops(n)
    BY <2>2
  <2>4. ASSUME NEW i \in 1..n PROVE TokenAt(pos + i - 1) = expected[i]
    <3>1. i - 1 \in 0..Len(expected) /\ ~(n <= i - 1) /\ i - 1 + 1 = i
      BY <2>3
    <3>2. i - 1 \notin S
      BY <2>2, <3>1
    <3>3. ~Stops(i - 1)
      BY <3>1, <3>2
    <3>4. pos + (i - 1) = pos + i - 1
      BY DEF ParseInv
    <3> QED
      BY <3>1, <3>3, <3>4
  <2> QED
    BY <2>3, <2>4
<1>2. m \in 0..Len(expected) /\ Matches(m) /\ Stops(m)
  BY <1>1, Zenon DEF Matched
<1> HIDE DEF m
<1>3. pos \in Nat /\ Len(tokens) \in Nat /\ pos <= Len(tokens) + 1
  BY DEF ParseInv
<1>4. pos + m <= Len(tokens) + 1
  <2>1. CASE m = 0
    BY <1>3, <2>1
  <2>2. CASE m > 0
    <3>1. m \in 1..m /\ m \in 1..Len(expected) /\ pos + m - 1 \in Nat
      BY <1>2, <1>3, <2>2
    <3>2. TokenAt(pos + m - 1) # "EOF"
      BY <1>2, <3>1
    <3>3. pos + m - 1 <= Len(tokens)
      BY <3>1, <3>2, TokenThere
    <3> QED
      BY <1>2, <1>3, <3>3
  <2> QED
    BY <1>2, <2>1, <2>2
<1>5. Len(expected) > 0 /\ Token = expected[1] => m > 0
  <2> SUFFICES ASSUME Len(expected) > 0, Token = expected[1], m = 0 PROVE FALSE
    BY <1>2
  <2>1. TokenAt(pos) = expected[1] /\ pos + 0 = pos /\ 0 + 1 = 1
    BY <1>3 DEF Token
  <2> QED
    BY <1>2, <2>1
<1> QED
  BY <1>2, <1>4, <1>5 DEF m

----------------------------------------------------------------------------
(* One lemma for each action.                                               *)

LEMMA AtIs ==
  ASSUME ParseInv, NEW kinds, NEW at, At(kinds, at), "DIVISION" \notin kinds
  PROVE  /\ pc = "parse" /\ Top.kind \in kinds /\ Top.at = at /\ IsFrame(Top)
         /\ Top.kind # "DIVISION" /\ AreCalls(stack) /\ Len(stack) \in Nat /\ Len(stack) > 1
         /\ pos \in Nat /\ errs \in Nat /\ Len(tokens) \in Nat /\ pos <= Len(tokens) + 1
<1>1. /\ Len(stack) \in Nat /\ Len(stack) > 0 /\ Len(stack) # 1 /\ IsFrame(Top)
      /\ Top.kind # "DIVISION"
  BY TopIs DEF ParseInv, At
<1>2. Len(stack) > 1
  <2>1. PICK n \in Nat : n = Len(stack)
    BY <1>1
  <2> QED
    BY ONLY <1>1, <2>1
<1> QED
  BY <1>1, <1>2 DEF At, ParseInv

\* The next token, if it is one of those, can be taken.
LEMMA TokenTaken ==
  ASSUME ParseInv, Token # "EOF"
  PROVE  pos + 1 <= Len(tokens) + 1 /\ pos <= Len(tokens)
<1>1. pos \in Nat /\ TokenAt(pos) # "EOF"
  BY DEF ParseInv, Token
<1> QED
  BY <1>1, TokenThere

LEMMA ListsAre ==
  /\ Lists = {"PARAGRAPH", "ANONYMOUS", "IF", "PERFORM", "EVALUATE", "STRING",
              "HTTP-GET", "HTTP-LISTEN", "HTTP-RESPOND"}
  /\ Blocks = {"IF", "PERFORM", "EVALUATE", "STRING",
               "HTTP-GET", "HTTP-LISTEN", "HTTP-RESPOND"}
  /\ HttpVerbs = {"HTTP-GET", "HTTP-LISTEN", "HTTP-RESPOND"}
  /\ "DIVISION" \notin Lists
  BY DEF Lists, Blocks, HttpVerbs

\* Where a list is read, stored and begun.
LEMMA ListPlaces ==
  ASSUME NEW f, IsFrame(f), f.kind # "DIVISION"
  PROVE  {"loop", "after", "end"} \subseteq PlacesOf(f.kind)
  BY DEF PlacesOf

LEMMA ListEndStep ==
  ASSUME ParseInv, ListEnd
  PROVE  Closer
<1> DEFINE k == IF Top.kind = "PERFORM" /\ Token = "END-PERFORM" THEN 1 ELSE 0
           f == [Top EXCEPT !.at = "end"]
<1>1. /\ pc = "parse" /\ Top.at = "loop" /\ IsFrame(Top) /\ Top.kind # "DIVISION"
      /\ Len(stack) > 1 /\ errs \in Nat /\ pos \in Nat /\ pos <= Len(tokens) + 1 
      /\ Len(tokens) \in Nat
  BY AtIs, ListsAre DEF ListEnd
<1>2. IsFrame(f) /\ f.kind = Top.kind /\ f.at = "end" /\ f.body = Top.body
  BY <1>1, ListPlaces, AtSet
<1>3. stack' = SetTop(f) /\ pos' = pos + k /\ errs' = errs /\ pc' = pc /\ tokens' = tokens
  BY DEF ListEnd, Consume
<1>4. k \in Nat /\ pos + k <= Len(tokens) + 1
  BY <1>1, TokenTaken
<1> HIDE DEF f, k
<1>5. FrameWork(f) < FrameWork(Top)
  BY <1>1, <1>2, FrameWorkIs, ListWorkIs
<1> QED
  BY <1>1, <1>2, <1>3, <1>4, <1>5, GoesOnOk

\* A statement that calls nothing is added to the list.
LEMMA StatementAdded ==
  ASSUME ParseInv, InList, NEW node, stack' = AddTo(stack, node), errs' \in Nat, pc' = pc,
         tokens' = tokens, NEW k \in Nat, k > 0, pos' = pos + k, pos + k <= Len(tokens) + 1
  PROVE  Closer
<1>1. /\ pc = "parse" /\ Top.at = "loop" /\ IsFrame(Top) /\ Top.kind # "DIVISION"
      /\ Len(stack) > 1 /\ AreCalls(stack)
  BY AtIs, ListsAre DEF InList
<1>2. stack' = SetTop(Added(Top, node))
  <2>1. IsSeq(stack) /\ Len(stack) > 0 /\ IsFrame(stack[Len(stack)]) /\ Top = stack[Len(stack)]
    BY <1>1, TopIs DEF AreCalls
  <2> QED
    BY <2>1, AddToIs DEF SetTop
<1>3. IsFrame(Added(Top, node)) /\ Added(Top, node).kind = Top.kind
  BY <1>1, AddedIs
<1> QED
  BY <1>1, <1>2, <1>3, GoesOnOk

LEMMA SimpleStatementStep ==
  ASSUME ParseInv, SimpleStatement
  PROVE  Closer
<1>1. InList /\ stack' = AddTo(stack, Leaf(Token)) /\ pos' = pos + 1 /\ Token # "EOF"
      /\ errs' = errs /\ pc' = pc /\ tokens' = tokens
  BY DEF SimpleStatement, Simple, Consume
<1>2. pos + 1 <= Len(tokens) + 1 /\ errs' \in Nat
  BY <1>1, TokenTaken DEF ParseInv
<1> QED
  BY <1>1, <1>2, StatementAdded

LEMMA DisplayStatementStep ==
  ASSUME ParseInv, DisplayStatement
  PROVE  Closer
<1>1. PICK n \in 0..Len(tokens) :
         /\ \A i \in 1..n : TokenAt(pos + i) = "NAME"
         /\ stack' = AddTo(stack, Node("DISPLAY", <<[i \in 1..n |-> Leaf("NAME")]>>))
         /\ pos' = pos + (n + 1)
  BY DEF DisplayStatement, Consume
<1>2. /\ InList /\ Token # "EOF" /\ errs' = errs /\ pc' = pc /\ tokens' = tokens
      /\ pos \in Nat /\ Len(tokens) \in Nat /\ errs \in Nat
  BY DEF DisplayStatement, ParseInv
<1>3. n + 1 \in Nat /\ n + 1 > 0 /\ n \in Nat
  BY <1>2
<1>4. pos + (n + 1) <= Len(tokens) + 1
  <2>1. CASE n = 0
    BY <1>2, <2>1, TokenTaken
  <2>2. CASE n > 0
    <3>1. n \in 1..n /\ pos + n \in Nat
      BY <1>2, <1>3, <2>2
    <3>2. pos + n <= Len(tokens)
      BY <1>1, <3>1, TokenThere
    <3> QED
      BY <1>2, <1>3, <3>2
  <2> QED
    BY <1>3, <2>1, <2>2
<1> QED
  BY <1>1, <1>2, <1>3, <1>4, StatementAdded

LEMMA UnexpectedTokenStep ==
  ASSUME ParseInv, UnexpectedToken
  PROVE  Closer
<1>1. /\ pc = "parse" /\ Top.at = "loop" /\ IsFrame(Top) /\ Top.kind # "DIVISION"
      /\ Len(stack) > 1 /\ errs \in Nat /\ pos \in Nat /\ Len(tokens) \in Nat
  BY AtIs, ListsAre DEF UnexpectedToken, InList
<1>2. PICK at \in {"end", "after"} : stack' = SetTop([Top EXCEPT !.at = at])
  BY Zenon DEF UnexpectedToken
<1>3. PICK f : f = [Top EXCEPT !.at = at]
  OBVIOUS
<1>4. IsFrame(f) /\ f.kind = Top.kind
  <2>1. at \in PlacesOf(Top.kind)
    BY <1>1, ListPlaces
  <2> QED
    BY ONLY <1>1, <1>3, <2>1, AtSet
<1>5. /\ stack' = SetTop(f) /\ pos' = pos + 1 /\ errs' = errs + 1 /\ pc' = pc /\ tokens' = tokens
      /\ ~(pos > Len(tokens))
  BY <1>2, <1>3 DEF UnexpectedToken, InList, Consume, Report, AtEnd
<1>6. errs' \in Nat /\ pos + 1 <= Len(tokens) + 1 /\ 1 \in Nat /\ 1 > 0
  BY <1>1, <1>5
<1> QED
  BY <1>1, <1>4, <1>5, <1>6, GoesOnOk

LEMMA AfterStatementStep ==
  ASSUME ParseInv, AfterStatement
  PROVE  Closer
<1> DEFINE k == IF Token = "PERIOD" THEN 1 ELSE 0
<1>1. /\ pc = "parse" /\ Top.at = "after" /\ IsFrame(Top) /\ Top.kind # "DIVISION"
      /\ Len(stack) > 1 /\ errs \in Nat /\ pos \in Nat /\ pos <= Len(tokens) + 1
      /\ Len(tokens) \in Nat
  BY AtIs, ListsAre DEF AfterStatement
<1>2. PICK at \in {"loop", "end"} : stack' = SetTop([Top EXCEPT !.at = at])
  BY Zenon DEF AfterStatement
<1>3. PICK f : f = [Top EXCEPT !.at = at]
  OBVIOUS
<1>4. IsFrame(f) /\ f.kind = Top.kind /\ f.at = at /\ f.body = Top.body
  <2>1. at \in PlacesOf(Top.kind)
    BY <1>1, ListPlaces
  <2> QED
    BY ONLY <1>1, <1>3, <2>1, AtSet
<1>5. FrameWork(f) < FrameWork(Top)
  BY <1>1, <1>4, FrameWorkIs, ListWorkIs
<1>6. stack' = SetTop(f) /\ pos' = pos + k /\ errs' = errs /\ pc' = pc /\ tokens' = tokens
  BY <1>2, <1>3 DEF AfterStatement, Consume
<1>7. k \in Nat /\ pos + k <= Len(tokens) + 1
  BY <1>1, TokenTaken
<1> HIDE DEF k
<1> QED
  BY <1>1, <1>4, <1>5, <1>6, <1>7, GoesOnOk

LEMMA BlockStartStep ==
  ASSUME ParseInv, BlockStart
  PROVE  Closer
<1>1. /\ pc = "parse" /\ Top.at = "loop" /\ Len(stack) > 1 /\ errs \in Nat
      /\ Token \in Blocks /\ Token # "EOF"
  BY AtIs, ListsAre DEF BlockStart, InList
<1>2. /\ pos' = pos + 1 /\ errs' = errs /\ pc' = pc /\ tokens' = tokens
      /\ stack' = Append(stack,
           CASE Token = "IF" -> Frame("IF", "loop", {"ELSE", "END-IF"}, <<<<>>, <<>>>>)
             [] Token = "PERFORM" -> Frame("PERFORM", "loop", ScopeTerminators, <<<<>>>>)
             [] OTHER -> [Frame(Token, "clauses", {}, <<<<>>, <<>>>>) EXCEPT !.part = 0])
  BY DEF BlockStart, Consume
<1>3. pos <= Len(tokens)
  BY <1>1, TokenTaken
<1>4. \E f : stack' = Append(stack, f) /\ IsFrame(f) /\ f.kind \in Blocks /\ f.at # "after"
  <2>1. CASE Token = "IF"
    <3>1. PICK f : f = Fields("IF", "loop", 1, {"ELSE", "END-IF"}, <<>>, <<<<>>, <<>>>>)
      OBVIOUS
    <3>2. {"ELSE", "END-IF"} \subseteq Tokens
      BY DEF Tokens, ScopeTerminators
    <3>3. IsFrame(f) /\ f.kind = "IF" /\ f.at = "loop"
      BY <3>1, <3>2, FieldsAre, EmptyList, KindsDiffer, ListsAre DEF PlacesOf
    <3>4. stack' = Append(stack, f)
      BY <1>2, <2>1, <3>1 DEF Frame, Fields
    <3> QED
      BY <3>3, <3>4, ListsAre
  <2>2. CASE Token = "PERFORM"
    <3>1. PICK f : f = Fields("PERFORM", "loop", 1, ScopeTerminators, <<>>, <<<<>>>>)
      OBVIOUS
    <3>2. ScopeTerminators \subseteq Tokens
      BY DEF Tokens
    <3>3. IsFrame(f) /\ f.kind = "PERFORM" /\ f.at = "loop"
      BY <3>1, <3>2, FieldsAre, EmptyList, KindsDiffer, ListsAre DEF PlacesOf
    <3>4. stack' = Append(stack, f)
      BY <1>2, <2>2, <3>1 DEF Frame, Fields
    <3> QED
      BY <3>3, <3>4, ListsAre
  <2>3. CASE Token \notin {"IF", "PERFORM"}
    <3>1. PICK g : g = Fields(Token, "clauses", 1, {}, <<>>, <<<<>>, <<>>>>)
      OBVIOUS
    <3>2. PICK f : f = [g EXCEPT !.part = 0]
      OBVIOUS
    <3>3. Token \in Kinds /\ "clauses" \in PlacesOf(Token)
      BY <1>1, <2>3, KindsDiffer, ListsAre DEF PlacesOf
    <3>4. IsFrame(g) /\ g.kind = Token /\ g.at = "clauses"
      <4>1. 1 \in 0..2 /\ {} \subseteq Tokens
        OBVIOUS
      <4>2. PICK kind : kind = Token
        OBVIOUS
      <4>3. kind \in Kinds /\ "clauses" \in PlacesOf(kind)
        BY ONLY <3>3, <4>2
      <4>4. g = Fields(kind, "clauses", 1, {}, <<>>, <<<<>>, <<>>>>)
        BY ONLY <3>1, <4>2
      <4>5. IsFrame(g) /\ g.kind = kind /\ g.at = "clauses"
        BY ONLY <4>1, <4>3, <4>4, FieldsAre, EmptyList
      <4> QED
        BY ONLY <4>2, <4>5
    <3>5. IsFrame(f) /\ f.kind = Token /\ f.at = "clauses"
      <4>1. 0 \in 0..2
        OBVIOUS
      <4> QED
        BY ONLY <3>2, <3>4, <4>1, PartSet
    <3>6. g = Frame(Token, "clauses", {}, <<<<>>, <<>>>>)
      BY <3>1 DEF Frame, Fields
    <3>7. stack' = Append(stack, [Frame(Token, "clauses", {}, <<<<>>, <<>>>>) EXCEPT !.part = 0])
      BY <1>2, <2>3
    <3>8. stack' = Append(stack, f)
      BY ONLY <3>2, <3>6, <3>7
    <3> QED
      BY <1>1, <3>5, <3>8
  <2> QED
    BY <2>1, <2>2, <2>3
<1> QED
  BY <1>1, <1>2, <1>3, <1>4, CallOk

\* A call that returns, with or without its closing token.
LEMMA CloseOk ==
  ASSUME ParseInv, pc = "parse", pc' = pc, tokens' = tokens, Top.kind \in Blocks,
         NEW node, NEW closing, closing # "EOF", Close(node, closing)
  PROVE  Closer
<1>1. errs \in Nat /\ pos \in Nat /\ pos <= Len(tokens) + 1 /\ Len(tokens) \in Nat
  BY DEF ParseInv
<1>2. stack' = AddTo(Pop, node)
  BY DEF Close
<1>3. CASE Token = closing
  <2>1. pos' = pos + 1 /\ errs' \in Nat /\ pos + 1 <= Len(tokens) + 1
    BY <1>1, <1>3, TokenTaken DEF Close, Consume, Report
  <2> QED
    BY <1>2, <2>1, ReturnOk
<1>4. CASE Token # closing
  <2>1. pos' = pos + 0 /\ errs' \in Nat /\ pos + 0 <= Len(tokens) + 1
    BY <1>1, <1>4 DEF Close, Consume, Report
  <2> QED
    BY <1>2, <2>1, ReturnOk
<1> QED
  BY <1>3, <1>4

LEMMA IfEndStep ==
  ASSUME ParseInv, IfEnd
  PROVE  Closer
<1>1. pc = "parse" /\ Top.kind \in Blocks
  BY ListsAre DEF IfEnd, At
<1>2. PICK node : Close(node, "END-IF") /\ pc' = pc /\ tokens' = tokens
  BY DEF IfEnd
<1> QED
  BY <1>1, <1>2, CloseOk

LEMMA EvaluateEndStep ==
  ASSUME ParseInv, EvaluateEnd
  PROVE  Closer
<1>1. pc = "parse" /\ Top.kind \in Blocks
  BY ListsAre DEF EvaluateEnd, At
<1>2. PICK node : Close(node, "END-EVALUATE") /\ pc' = pc /\ tokens' = tokens
  BY DEF EvaluateEnd
<1> QED
  BY <1>1, <1>2, CloseOk

LEMMA StringEndStep ==
  ASSUME ParseInv, StringEnd
  PROVE  Closer
<1>1. pc = "parse" /\ Top.kind \in Blocks
  BY ListsAre DEF StringEnd, At
<1>2. PICK node : Close(node, "END-STRING") /\ pc' = pc /\ tokens' = tokens
  BY DEF StringEnd
<1> QED
  BY <1>1, <1>2, CloseOk

LEMMA PerformEndStep ==
  ASSUME ParseInv, PerformEnd
  PROVE  Closer
<1>1. pc = "parse" /\ Top.kind \in Blocks
  BY ListsAre DEF PerformEnd, At
<1>2. errs' \in Nat /\ pos' = pos + 0 /\ pos + 0 <= Len(tokens) + 1
  BY DEF PerformEnd, ParseInv
<1>3. PICK node : stack' = AddTo(Pop, node) /\ pc' = pc /\ tokens' = tokens
  BY DEF PerformEnd
<1> QED
  BY <1>1, <1>2, <1>3, ReturnOk

LEMMA HttpEndStep ==
  ASSUME ParseInv, HttpEnd
  PROVE  Closer
<1> DEFINE k == IF Token = "END-HTTP" THEN 1 ELSE 0
<1>1. pc = "parse" /\ Top.kind \in Blocks /\ errs' \in Nat
  BY KindsDiffer DEF HttpEnd, At, ParseInv
<1>2. k \in Nat /\ pos' = pos + k /\ pos + k <= Len(tokens) + 1
  BY TokenTaken DEF HttpEnd, Consume, ParseInv
<1>3. PICK node : stack' = AddTo(Pop, node) /\ pc' = pc /\ tokens' = tokens
  BY DEF HttpEnd
<1> HIDE DEF k
<1> QED
  BY <1>1, <1>2, <1>3, ReturnOk

\* The next list of the call on top begins.
LEMMA NextListOk ==
  ASSUME ParseInv, pc = "parse", pc' = pc, tokens' = tokens, errs' = errs, Top.kind \in Blocks,
         NEW part \in 0..2, NEW stop \in SUBSET Tokens, stack' = StartList(part, stop),
         NEW k \in Nat, k > 0, pos' = pos + k, pos + k <= Len(tokens) + 1
  PROVE  Closer
<1>1. IsFrame(Top) /\ Len(stack) > 1 /\ errs' \in Nat
  <2>1. /\ Len(stack) \in Nat /\ Len(stack) > 2 /\ IsFrame(Top) /\ errs' \in Nat
    BY TopIs DEF ParseInv
  <2>2. Len(stack) > 1
    BY ONLY <2>1, OneTwoMore
  <2> QED
    BY ONLY <2>1, <2>2
<1>2. PICK f : f = [Top EXCEPT !.at = "loop", !.part = part, !.stop = stop, !.body = <<>>]
  OBVIOUS
<1>3. IsFrame(f) /\ f.kind = Top.kind
  BY ONLY <1>1, <1>2, ListBegins, Top.kind \in Blocks, part \in 0..2, stop \in SUBSET Tokens
<1>4. stack' = SetTop(f)
  BY <1>2 DEF StartList
<1> QED
  BY <1>1, <1>3, <1>4, GoesOnOk

LEMMA EvaluateWhenStep ==
  ASSUME ParseInv, EvaluateWhen
  PROVE  Closer
<1> DEFINE part == IF Token = "WHEN" THEN 1 ELSE 2
           stop == {"WHEN", "WHEN-OTHER", "END-EVALUATE"}
<1>1. /\ pc = "parse" /\ Top.kind \in Blocks /\ Token # "EOF"
      /\ pc' = pc /\ tokens' = tokens /\ errs' = errs /\ pos' = pos + 1
      /\ stack' = StartList(part, stop)
  BY ListsAre DEF EvaluateWhen, At, Consume
<1>2. pos + 1 <= Len(tokens) + 1 /\ 1 \in Nat /\ 1 > 0
  BY <1>1, TokenTaken
<1>3. part \in 0..2 /\ stop \in SUBSET Tokens
  BY DEF Tokens, ScopeTerminators
<1> HIDE DEF part, stop
<1> QED
  BY <1>1, <1>2, <1>3, NextListOk

LEMMA IfElseStep ==
  ASSUME ParseInv, IfElse
  PROVE  Closer
<1>1. /\ pc = "parse" /\ Top.kind = "IF" /\ Token = "ELSE" /\ Len(stack) > 1 /\ errs \in Nat
  BY AtIs DEF IfElse, At
<1>2. /\ pc' = pc /\ tokens' = tokens /\ errs' = errs /\ pos' = pos + 1
      /\ stack' = SetTop([Frame("IF", "loop", {"END-IF"}, <<Top.body, <<>>>>) EXCEPT !.part = 2])
  BY DEF IfElse, Consume
<1>3. pos + 1 <= Len(tokens) + 1 /\ 1 \in Nat /\ 1 > 0 /\ errs' \in Nat
  BY <1>1, <1>2, TokenTaken
<1>4. PICK parts : parts = <<Top.body, <<>>>>
  OBVIOUS
<1>5. PICK g : g = Fields("IF", "loop", 1, {"END-IF"}, <<>>, parts)
  OBVIOUS
<1>6. PICK f : f = [g EXCEPT !.part = 2]
  OBVIOUS
<1>7. /\ "IF" \in Kinds /\ "loop" \in PlacesOf("IF") /\ {"END-IF"} \subseteq Tokens
      /\ 1 \in 0..2 /\ 2 \in 0..2
  BY KindsDiffer, ListsAre DEF PlacesOf, Tokens, ScopeTerminators
<1>8. IsFrame(g) /\ g.kind = "IF"
  BY ONLY <1>5, <1>7, FieldsAre, EmptyList
<1>9. IsFrame(f) /\ f.kind = "IF"
  BY ONLY <1>6, <1>7, <1>8, PartSet
<1>10. g = Frame("IF", "loop", {"END-IF"}, <<Top.body, <<>>>>)
  BY ONLY <1>4, <1>5 DEF Frame, Fields
<1>11. stack' = SetTop(f)
  BY ONLY <1>2, <1>6, <1>10
<1> QED
  BY <1>1, <1>2, <1>3, <1>9, <1>11, GoesOnOk

\* A list is stored, and the call goes on behind it.
LEMMA StoredOk ==
  ASSUME ParseInv, pc = "parse", pc' = pc, tokens' = tokens, errs' = errs, pos' = pos,
         Top.kind \in Blocks, Top.at = "end",
         NEW at \in {"clauses", "not"}, at \in PlacesOf(Top.kind), NEW g, NEW parts,
         g = [Top EXCEPT !.at = at], stack' = SetTop([g EXCEPT !.parts = parts])
  PROVE  Closer
<1>1. IsFrame(Top) /\ Len(stack) > 1 /\ errs' \in Nat /\ pos' = pos + 0
      /\ pos + 0 <= Len(tokens) + 1 /\ Top.kind # "DIVISION"
  <2>1. /\ Len(stack) \in Nat /\ Len(stack) > 2 /\ IsFrame(Top) /\ Top.kind # "DIVISION"
    BY TopIs DEF ParseInv
  <2>2. Len(stack) > 1
    BY ONLY <2>1, OneTwoMore
  <2> QED
    BY <2>1, <2>2 DEF ParseInv
<1>2. IsFrame(g) /\ g.kind = Top.kind /\ g.at = at
  BY ONLY <1>1, AtSet, at \in PlacesOf(Top.kind), g = [Top EXCEPT !.at = at]
<1>3. PICK f : f = [g EXCEPT !.parts = parts]
  OBVIOUS
<1>4. IsFrame(f) /\ f.kind = Top.kind /\ f.at = at
  BY ONLY <1>2, <1>3, PartsSet
<1>5. FrameWork(f) < FrameWork(Top)
  <2>1. FrameWork(Top) = 10
    BY <1>1, FrameWorkIs, ListWorkIs
  <2>2. f.part \in 0..2 /\ f.kind \in Blocks /\ f.kind # "DIVISION"
    BY <1>1, <1>4 DEF IsFrame
  <2>3. at = "clauses" => FrameWork(f) = 8 - f.part
    BY <1>4, <2>2, FrameWorkIs
  <2>4. at = "not" => FrameWork(f) = 9
    BY <1>4, <2>2, FrameWorkIs
  <2> QED
    BY <2>1, <2>2, <2>3, <2>4
<1>6. stack' = SetTop(f)
  BY <1>3
<1> QED
  BY ONLY <1>1, <1>4, <1>5, <1>6, GoesOnOk, ParseInv, pc = "parse", pc' = pc, tokens' = tokens

LEMMA EvaluateBodyEndStep ==
  ASSUME ParseInv, EvaluateBodyEnd
  PROVE  Closer
<1>1. /\ pc = "parse" /\ Top.kind \in Blocks /\ Top.at = "end" /\ "clauses" \in PlacesOf(Top.kind)
      /\ pc' = pc /\ tokens' = tokens /\ errs' = errs /\ pos' = pos
  BY ListsAre DEF EvaluateBodyEnd, At, PlacesOf
<1>2. PICK g : g = [Top EXCEPT !.at = "clauses"]
  OBVIOUS
<1>3. \E parts : stack' = SetTop([g EXCEPT !.parts = parts])
  <2>1. CASE Top.part = 1
    <3>1. stack' = SetTop([Top EXCEPT !.at = "clauses",
                                      !.parts[1] = Append(@, Node("WHEN", <<Top.body>>))])
      BY <2>1 DEF EvaluateBodyEnd
    <3> QED
      BY ONLY <1>2, <3>1
  <2>2. CASE Top.part # 1
    <3>1. stack' = SetTop([Top EXCEPT !.at = "clauses", !.parts[Top.part] = Top.body])
      BY <2>2 DEF EvaluateBodyEnd, StoreList
    <3> QED
      BY ONLY <1>2, <3>1
  <2> QED
    BY <2>1, <2>2
<1> QED
  BY <1>1, <1>2, <1>3, StoredOk

LEMMA StringBodyEndStep ==
  ASSUME ParseInv, StringBodyEnd
  PROVE  Closer
<1>1. /\ pc = "parse" /\ Top.kind \in Blocks /\ Top.at = "end" /\ "clauses" \in PlacesOf(Top.kind)
      /\ pc' = pc /\ tokens' = tokens /\ errs' = errs /\ pos' = pos
  BY ListsAre DEF StringBodyEnd, At, PlacesOf
<1>2. PICK g : g = [Top EXCEPT !.at = "clauses"]
  OBVIOUS
<1>3. \E parts : stack' = SetTop([g EXCEPT !.parts = parts])
  <2>1. stack' = SetTop([Top EXCEPT !.at = "clauses", !.parts[Top.part] = Top.body])
    BY DEF StringBodyEnd, StoreList
  <2> QED
    BY ONLY <1>2, <2>1
<1> QED
  BY <1>1, <1>2, <1>3, StoredOk

LEMMA HttpBodyEndStep ==
  ASSUME ParseInv, HttpBodyEnd
  PROVE  Closer
<1>1. /\ pc = "parse" /\ Top.kind \in Blocks /\ Top.at = "end"
      /\ "clauses" \in PlacesOf(Top.kind) /\ "not" \in PlacesOf(Top.kind)
      /\ pc' = pc /\ tokens' = tokens /\ errs' = errs /\ pos' = pos
  BY ListsAre DEF HttpBodyEnd, At, PlacesOf
<1>2. PICK at \in {"clauses", "not"} : at \in PlacesOf(Top.kind) /\ stack' = StoreList(at)
  BY <1>1, Zenon DEF HttpBodyEnd
<1>3. PICK g : g = [Top EXCEPT !.at = at]
  OBVIOUS
<1>4. \E parts : stack' = SetTop([g EXCEPT !.parts = parts])
  <2>1. stack' = SetTop([Top EXCEPT !.at = at, !.parts[Top.part] = Top.body])
    BY <1>2 DEF StoreList
  <2> QED
    BY ONLY <1>3, <2>1
<1> QED
  BY <1>1, <1>2, <1>3, <1>4, StoredOk

LEMMA EvaluateSkipStep ==
  ASSUME ParseInv, EvaluateSkip
  PROVE  Closer
<1>1. /\ pc = "parse" /\ pc' = pc /\ tokens' = tokens /\ errs' = errs /\ stack' = stack
      /\ pos' = pos + 1 /\ ~(pos > Len(tokens))
  BY DEF EvaluateSkip, At, Consume, AtEnd
<1>2. errs' \in Nat /\ 1 \in Nat /\ 1 > 0 /\ pos + 1 <= Len(tokens) + 1
  BY <1>1 DEF ParseInv
<1> QED
  BY <1>1, <1>2, SkipOk

LEMMA StringPhraseStep ==
  ASSUME ParseInv, StringPhrase
  PROVE  Closer
<1>1. /\ pc = "parse" /\ Top.kind = "STRING" /\ Top.at = "clauses" /\ Top.part < 2
      /\ IsFrame(Top) /\ Top.kind # "DIVISION" /\ Top.kind \in Blocks /\ Len(stack) > 1 /\ errs \in Nat
      /\ pc' = pc /\ tokens' = tokens /\ errs' = errs
  BY AtIs, ListsAre DEF StringPhrase, At
<1>2. Top.part \in 0..2
  BY <1>1 DEF IsFrame
<1>3. PICK part : part = Top.part + 1
  OBVIOUS
<1>4. part \in 1..2 /\ part \in 0..2
  BY <1>1, <1>2, <1>3
<1>5. PICK phrase : phrase = OverflowPhrase(part)
  OBVIOUS
<1>6. Len(phrase) \in Nat /\ Len(phrase) > 0 /\ \A i \in 1..Len(phrase) : phrase[i] # "EOF"
  BY ONLY <1>4, <1>5 DEF OverflowPhrase
<1>7. PICK n : n = Matched(phrase)
  OBVIOUS
<1>8. n \in Nat /\ pos + n <= Len(tokens) + 1
  BY ONLY <1>6, <1>7, MatchedIs, ParseInv
<1>9. /\ pos' = pos + n
      /\ stack' = IF n = Len(phrase) THEN StartList(part, {"END-STRING"})
                  ELSE SetTop([Top EXCEPT !.part = part])
  BY <1>3, <1>5, <1>7 DEF StringPhrase, Consume
<1>10. CASE n = Len(phrase)
  <2>1. stack' = StartList(part, {"END-STRING"}) /\ n > 0
    BY ONLY <1>6, <1>9, <1>10
  <2>2. {"END-STRING"} \in SUBSET Tokens
    BY DEF Tokens, ScopeTerminators
  <2> QED
    BY <1>1, <1>4, <1>8, <1>9, <2>1, <2>2, NextListOk
<1>11. CASE n # Len(phrase)
  <2>1. PICK f : f = [Top EXCEPT !.part = part]
    OBVIOUS
  <2>2. IsFrame(f) /\ f.kind = Top.kind /\ f.at = Top.at /\ f.part = part
    BY ONLY <1>1, <1>4, <2>1, PartSet
  <2>3. FrameWork(f) < FrameWork(Top)
    <3>1. FrameWork(f) = 8 - f.part /\ FrameWork(Top) = 8 - Top.part
      BY <1>1, <2>2, FrameWorkIs
    <3> QED
      BY ONLY <1>2, <1>3, <2>2, <3>1
  <2>4. stack' = SetTop(f)
    BY <1>9, <1>11, <2>1
  <2> QED
    BY <1>1, <1>8, <1>9, <2>2, <2>3, <2>4, GoesOnOk
<1> QED
  BY <1>10, <1>11

LEMMA HttpOnStep ==
  ASSUME ParseInv, HttpOn
  PROVE  Closer
<1>1. /\ pc = "parse" /\ Top.kind \in HttpVerbs /\ Top.at = "clauses" /\ Token = "ON"
      /\ IsFrame(Top) /\ Top.kind # "DIVISION" /\ Top.kind \in Blocks /\ Len(stack) > 1 /\ errs \in Nat
      /\ pc' = pc /\ tokens' = tokens /\ errs' = errs
  BY AtIs, ListsAre DEF HttpOn, At
<1>2. PICK phrase : phrase = <<"ON", "EXCEPTION">>
  OBVIOUS
<1>3. /\ Len(phrase) \in Nat /\ Len(phrase) > 0 /\ \A i \in 1..Len(phrase) : phrase[i] # "EOF"
      /\ Token = phrase[1]
  BY ONLY <1>1, <1>2
<1>4. PICK n : n = Matched(phrase)
  OBVIOUS
<1>5. n \in Nat /\ pos + n <= Len(tokens) + 1 /\ n > 0
  BY ONLY <1>3, <1>4, MatchedIs, ParseInv
<1>6. /\ pos' = pos + n
      /\ stack' = IF n = 2 THEN StartList(1, {"NOT", "END-HTTP"})
                  ELSE SetTop([Top EXCEPT !.at = "not"])
  BY <1>2, <1>4 DEF HttpOn, Consume
<1>7. CASE n = 2
  <2>1. {"NOT", "END-HTTP"} \in SUBSET Tokens /\ 1 \in 0..2
    BY DEF Tokens, ScopeTerminators
  <2>2. stack' = StartList(1, {"NOT", "END-HTTP"})
    BY <1>6, <1>7
  <2> QED
    BY <1>1, <1>5, <1>6, <2>1, <2>2, NextListOk
<1>8. CASE n # 2
  <2>1. PICK f : f = [Top EXCEPT !.at = "not"]
    OBVIOUS
  <2>2. "not" \in PlacesOf(Top.kind)
    BY <1>1 DEF PlacesOf
  <2>3. IsFrame(f) /\ f.kind = Top.kind
    BY ONLY <1>1, <2>1, <2>2, AtSet
  <2>4. stack' = SetTop(f)
    BY <1>6, <1>8, <2>1
  <2> QED
    BY <1>1, <1>5, <1>6, <2>3, <2>4, GoesOnOk
<1> QED
  BY <1>7, <1>8

LEMMA HttpNotStep ==
  ASSUME ParseInv, HttpNot
  PROVE  Closer
<1>1. /\ pc = "parse" /\ Top.kind \in HttpVerbs /\ Top.at = "not"
      /\ IsFrame(Top) /\ Top.kind # "DIVISION" /\ Top.kind \in Blocks /\ Len(stack) > 1 /\ errs \in Nat
      /\ pc' = pc /\ tokens' = tokens /\ errs' = errs
  BY AtIs, ListsAre DEF HttpNot, At
<1>2. PICK phrase : phrase = <<"NOT", "EXCEPTION">>
  OBVIOUS
<1>3. Len(phrase) \in Nat /\ \A i \in 1..Len(phrase) : phrase[i] # "EOF"
  BY ONLY <1>2
<1>4. PICK n : n = Matched(phrase)
  OBVIOUS
<1>5. n \in Nat /\ pos + n <= Len(tokens) + 1
  BY ONLY <1>3, <1>4, MatchedIs, ParseInv
<1>6. PICK stop : stop = IF Top.kind = "HTTP-RESPOND" THEN {"ON", "END-HTTP"} ELSE {"END-HTTP"}
  OBVIOUS
<1>7. /\ pos' = pos + n
      /\ stack' = IF n = 2 THEN StartList(2, stop) ELSE SetTop([Top EXCEPT !.at = "clauses"])
  BY <1>2, <1>4, <1>6 DEF HttpNot, Consume
<1>8. CASE n = 2
  <2>1. stop \in SUBSET Tokens /\ 2 \in 0..2 /\ n > 0
    BY <1>6, <1>8 DEF Tokens, ScopeTerminators
  <2>2. stack' = StartList(2, stop)
    BY <1>7, <1>8
  <2> QED
    BY <1>1, <1>5, <1>7, <2>1, <2>2, NextListOk
<1>9. CASE n # 2
  <2>1. PICK f : f = [Top EXCEPT !.at = "clauses"]
    OBVIOUS
  <2>2. "clauses" \in PlacesOf(Top.kind)
    BY <1>1 DEF PlacesOf
  <2>3. IsFrame(f) /\ f.kind = Top.kind /\ f.at = "clauses"
    BY ONLY <1>1, <2>1, <2>2, AtSet
  <2>4. FrameWork(f) < FrameWork(Top)
    <3>1. FrameWork(f) = 8 - f.part /\ FrameWork(Top) = 9
      BY <1>1, <2>3, FrameWorkIs
    <3>2. f.part \in 0..2
      BY <2>3 DEF IsFrame
    <3> QED
      BY ONLY <3>1, <3>2
  <2>5. stack' = SetTop(f)
    BY <1>7, <1>9, <2>1
  <2> QED
    BY <1>1, <1>5, <1>7, <2>3, <2>4, <2>5, GoesOnOk
<1> QED
  BY <1>8, <1>9

LEMMA HttpNotFirstStep ==
  ASSUME ParseInv, HttpNotFirst
  PROVE  Closer
<1>1. /\ pc = "parse" /\ Top.kind \in Blocks /\ Token = "NOT" /\ errs' \in Nat
      /\ pc' = pc /\ tokens' = tokens /\ errs' = errs
  BY KindsDiffer DEF HttpNotFirst, At, ParseInv
<1>2. PICK phrase : phrase = <<"NOT", "ON", "EXCEPTION">>
  OBVIOUS
<1>3. /\ Len(phrase) \in Nat /\ Len(phrase) > 0 /\ \A i \in 1..Len(phrase) : phrase[i] # "EOF"
      /\ Token = phrase[1]
  BY ONLY <1>1, <1>2
<1>4. PICK n : n = Matched(phrase)
  OBVIOUS
<1>5. n \in Nat /\ pos + n <= Len(tokens) + 1 /\ n > 0
  BY ONLY <1>3, <1>4, MatchedIs, ParseInv
<1>6. /\ pos' = pos + n
      /\ stack' = IF n = 3 THEN StartList(2, {"ON", "END-HTTP"}) ELSE stack
  BY <1>2, <1>4 DEF HttpNotFirst, Consume
<1>7. CASE n = 3
  <2>1. {"ON", "END-HTTP"} \in SUBSET Tokens /\ 2 \in 0..2
    BY DEF Tokens, ScopeTerminators
  <2>2. stack' = StartList(2, {"ON", "END-HTTP"})
    BY <1>6, <1>7
  <2> QED
    BY <1>1, <1>5, <1>6, <2>1, <2>2, NextListOk
<1>8. CASE n # 3
  BY <1>1, <1>5, <1>6, <1>8, SkipOk
<1> QED
  BY <1>7, <1>8

LEMMA ParagraphStartStep ==
  ASSUME ParseInv, ParagraphStart
  PROVE  Closer
<1>1. /\ pc = "parse" /\ Len(stack) = 1 /\ AreCalls(stack) /\ errs' \in Nat /\ CallWork \in Int
      /\ pc' = pc /\ tokens' = tokens /\ pos \in Nat /\ pos <= Len(tokens) + 1
      /\ Len(tokens) \in Nat
  BY TopIs, CallWorkType DEF ParagraphStart, At, ParseInv
<1>2. PICK kind \in {"PARAGRAPH", "ANONYMOUS"}, k \in Nat :
         /\ k = IF kind = "PARAGRAPH" THEN 2 ELSE 0
         /\ pos' = pos + k /\ pos + k <= Len(tokens) + 1
         /\ stack' = Append(stack, Frame(kind, "loop", ScopeTerminators, <<<<>>>>))
  <2>1. CASE AtParagraphName
    <3>1. PICK phrase : phrase = <<"NAME", "PERIOD">>
      OBVIOUS
    <3>2. Len(phrase) \in Nat /\ \A i \in 1..Len(phrase) : phrase[i] # "EOF"
      BY ONLY <3>1
    <3>3. pos + Matched(phrase) <= Len(tokens) + 1 /\ Matched(phrase) = 2
      <4>1. pos + Matched(phrase) <= Len(tokens) + 1
        BY ONLY <3>2, MatchedIs, ParseInv
      <4> QED
        BY ONLY <2>1, <3>1, <4>1 DEF AtParagraphName
    <3>4. pos + 2 <= Len(tokens) + 1 /\ pos' = pos + 2
          /\ stack' = Append(stack, Frame("PARAGRAPH", "loop", ScopeTerminators, <<<<>>>>))
      BY <2>1, <3>3 DEF ParagraphStart, Consume
    <3> QED
      BY <3>4
  <2>2. CASE ~AtParagraphName
    <3>1. pos + 0 <= Len(tokens) + 1 /\ pos' = pos + 0
          /\ stack' = Append(stack, Frame("ANONYMOUS", "loop", ScopeTerminators, <<<<>>>>))
      BY <1>1, <2>2 DEF ParagraphStart, Consume
    <3> QED
      BY <3>1
  <2> QED
    BY <2>1, <2>2
<1>3. PICK f : f = Fields(kind, "loop", 1, ScopeTerminators, <<>>, <<<<>>>>)
  OBVIOUS
<1>4. stack' = Append(stack, f)
  BY <1>2, <1>3 DEF Frame, Fields
<1>5. IsFrame(f) /\ f.kind = kind /\ f.at = "loop" /\ f.body = <<>>
  <2>1. /\ kind \in Kinds /\ "loop" \in PlacesOf(kind) /\ ScopeTerminators \subseteq Tokens
        /\ 1 \in 0..2
    BY <1>2 DEF Kinds, PlacesOf, Tokens
  <2> QED
    BY ONLY <1>3, <2>1, FieldsAre, EmptyList
<1>6. f.kind \in KindsAt(Len(stack) + 1) /\ f.kind \notin Blocks /\ f.kind # "DIVISION"
  BY <1>1, <1>2, <1>5, KindsDiffer DEF KindsAt
<1>7. AreCalls(stack') /\ CallWork' = CallWork + FrameWork(f) - 4
  BY <1>1, <1>4, <1>5, <1>6, Calls
<1>8. FrameWork(f) = IF kind = "PARAGRAPH" THEN 6 ELSE 2
  BY <1>2, <1>5, <1>6, FrameWorkIs, ListWorkIs
<1>9. CallWork' < CallWork + 12 * k
  BY ONLY <1>1, <1>2, <1>7, <1>8
<1> QED
  BY <1>1, <1>2, <1>7, <1>9, StepOk

LEMMA ParagraphEndStep ==
  ASSUME ParseInv, ParagraphEnd
  PROVE  Closer
<1>1. /\ pc = "parse" /\ Len(stack) = 2 /\ AreCalls(stack) /\ errs' \in Nat /\ errs' = errs
      /\ CallWork \in Int /\ tokens' = tokens /\ pos' = pos /\ IsFrame(Top)
      /\ Top.kind \in {"PARAGRAPH", "ANONYMOUS"} /\ Top.at = "end"
  BY TopIs, CallWorkType DEF ParagraphEnd, At, ParseInv
<1>2. Top.kind \notin Blocks /\ Top.kind # "DIVISION"
  BY <1>1, KindsDiffer
<1>3. CASE Top.kind = "ANONYMOUS" /\ Top.body = <<>>
  <2>1. stack' = Pop /\ pc' = "junk"
    BY <1>3 DEF ParagraphEnd
  <2>2. AreCalls(stack') /\ Len(stack') = 1 /\ CallWork' = 4 /\ CallWork = FrameWork(Top)
    BY <1>1, <2>1, GivenUp
  <2>3. FrameWork(Top) = 1
    BY <1>1, <1>2, <1>3, FrameWorkIs, ListWorkIs
  <2>4. PhaseWork = 5 /\ PhaseWork' = 1
    BY <1>1, <2>1 DEF PhaseWork
  <2>5. Len(tokens) \in Nat /\ pos \in Nat
    BY DEF ParseInv
  <2>6. Work' < Work
    BY <1>1, <2>2, <2>3, <2>4, <2>5 DEF Work
  <2> QED
    BY <1>1, <2>1, <2>2, <2>6 DEF Closer, ParseInv
<1>4. CASE ~(Top.kind = "ANONYMOUS" /\ Top.body = <<>>)
  <2>1. PICK node : stack' = [AddTo(Pop, node) EXCEPT ![1].at = "clauses"]
    BY <1>4 DEF ParagraphEnd
  <2>2. pc' = pc
    BY <1>4 DEF ParagraphEnd
  <2>3. AreCalls(stack') /\ CallWork' <= CallWork - FrameWork(Top) + 4
    <3>1. LET s == AddTo(Pop, node)
          IN  stack' = IF Len(stack) = 2 THEN [s EXCEPT ![1].at = "clauses"] ELSE s
      BY <1>1, <2>1
    <3>2. Len(stack) > 1
      BY <1>1
    <3>3. /\ AreCalls(stack')
          /\ CallWork' <= CallWork - FrameWork(Top) + (IF Len(stack) = 2 THEN 4 ELSE 5)
      BY ONLY <1>1, <3>1, <3>2, Returns
    <3> QED
      BY ONLY <1>1, <3>3
  <2>4. FrameWork(Top) = 5
    BY <1>1, <1>2, <1>4, FrameWorkIs, ListWorkIs
  <2>5. CallWork' \in Int
    BY <2>3, CallWorkType
  <2>6. CallWork' < CallWork + 12 * 0
    BY ONLY <1>1, <2>3, <2>4, <2>5
  <2>7. pos' = pos + 0 /\ pos + 0 <= Len(tokens) + 1 /\ 0 \in Nat
    BY <1>1 DEF ParseInv
  <2> QED
    BY <1>1, <2>2, <2>3, <2>6, <2>7, StepOk
<1> QED
  BY <1>3, <1>4

LEMMA DivisionEndStep ==
  ASSUME ParseInv, DivisionEnd
  PROVE  Closer
<1>1. /\ pc = "parse" /\ pc' = "junk" /\ Len(stack) = 1 /\ AreCalls(stack)
      /\ UNCHANGED <<tokens, pos, stack, errs>>
  BY TopIs DEF DivisionEnd, At, ParseInv
<1>2. PhaseWork = 5 /\ PhaseWork' = 1 /\ CallWork' = CallWork /\ CallWork \in Int
  BY <1>1, CallWorkType DEF PhaseWork, CallWork, Top
<1>3. Len(tokens) \in Nat /\ pos \in Nat
  BY DEF ParseInv
<1>4. Work' < Work
  BY <1>1, <1>2, <1>3 DEF Work
<1> QED
  BY <1>1, <1>4 DEF Closer, ParseInv

LEMMA JunkStep ==
  ASSUME ParseInv, Junk
  PROVE  Closer
<1>1. /\ pc = "junk" /\ Len(stack) = 1 /\ AreCalls(stack) /\ UNCHANGED <<tokens, stack>>
      /\ Len(tokens) \in Nat /\ pos \in Nat /\ pos <= Len(tokens) + 1 /\ errs \in Nat
  BY DEF Junk, ParseInv
<1>2. CallWork' = CallWork /\ CallWork \in Int /\ PhaseWork = 1
  BY <1>1, CallWorkType DEF PhaseWork, CallWork, Top
<1>3. CASE AtEnd
  <2>1. pc' = "done" /\ pos' = pos /\ errs' = errs
    BY <1>3 DEF Junk
  <2>2. PhaseWork' = 0
    BY <2>1 DEF PhaseWork
  <2>3. Work' < Work
    BY <1>1, <1>2, <2>1, <2>2 DEF Work
  <2> QED
    BY <1>1, <2>1, <2>3 DEF Closer, ParseInv
<1>4. CASE ~AtEnd
  <2>1. pc' = pc /\ pos' = pos + 1 /\ errs' = errs + 1 /\ ~(pos > Len(tokens))
    BY <1>4 DEF Junk, Consume, Report, AtEnd
  <2>2. PhaseWork' = 1
    BY <1>1, <2>1 DEF PhaseWork
  <2>3. Work' < Work
    BY <1>1, <1>2, <2>1, <2>2 DEF Work
  <2>4. pos' \in 1..(Len(tokens') + 1) /\ errs' \in Nat
    BY <1>1, <2>1 DEF ParseInv
  <2> QED
    BY <1>1, <2>1, <2>3, <2>4 DEF Closer, ParseInv
<1> QED
  BY <1>3, <1>4

----------------------------------------------------------------------------
(* The theorems.                                                            *)

LEMMA InitOk ==
  ASSUME Init
  PROVE  ParseInv
<1>1. tokens \in Seq(Tokens) /\ pos \in 1..(Len(tokens) + 1) /\ errs \in Nat /\ pc = "parse"
  <2>1. tokens \in Seq(Tokens) /\ pos = 1 /\ errs = 0 /\ pc = "parse"
    BY StreamAssumption DEF Init
  <2>2. Len(tokens) \in Nat
    BY <2>1
  <2> QED
    BY <2>1, <2>2
<1>2. PICK f : f = Fields("DIVISION", "clauses", 1, {}, <<>>, <<>>)
  OBVIOUS
<1>3. IsFrame(f) /\ f.kind = "DIVISION"
  <2>1. "DIVISION" \in Kinds /\ "clauses" \in PlacesOf("DIVISION") /\ 1 \in 0..2
        /\ {} \subseteq Tokens
    BY DEF Kinds, PlacesOf
  <2> QED
    BY ONLY <1>2, <2>1, FieldsAre, EmptyList
<1>4. stack = <<f>>
  BY <1>2 DEF Init, Frame, Fields
<1>5. IsSeq(stack) /\ Len(stack) = 1 /\ stack[1] = f
  BY <1>4 DEF IsSeq
<1>6. AreCalls(stack)
  <2>1. \A i \in 1..1 : i = 1
    OBVIOUS
  <2>2. 2..(1 - 1) = {}
    OBVIOUS
  <2> QED
    BY <1>3, <1>5, <2>1, <2>2 DEF AreCalls, KindsAt
<1> QED
  BY <1>1, <1>6 DEF ParseInv

LEMMA StutterOk ==
  ASSUME ParseInv, UNCHANGED vars
  PROVE  ParseInv'
  BY DEF ParseInv, AreCalls, vars

\* Every step comes nearer to the end, but for those that change nothing.
LEMMA NextOk ==
  ASSUME ParseInv, Next
  PROVE  Closer \/ UNCHANGED vars
<1>1. CASE Paragraphs
  BY <1>1, ParagraphStartStep, ParagraphEndStep, DivisionEndStep, JunkStep DEF Paragraphs
<1>2. CASE StatementList
  <2>1. OtherTerminator => UNCHANGED vars
    BY DEF OtherTerminator
  <2> QED
    BY <1>2, <2>1, ListEndStep, SimpleStatementStep, DisplayStatementStep, BlockStartStep,
       UnexpectedTokenStep, AfterStatementStep DEF StatementList
<1>3. CASE BlockStep
  BY <1>3, IfElseStep, IfEndStep, PerformEndStep, EvaluateWhenStep, EvaluateBodyEndStep,
     EvaluateSkipStep, EvaluateEndStep, StringPhraseStep, StringBodyEndStep, StringEndStep,
     HttpOnStep, HttpNotStep, HttpNotFirstStep, HttpBodyEndStep, HttpEndStep DEF BlockStep
<1>4. CASE Done
  BY <1>4 DEF Done
<1> QED
  BY <1>1, <1>2, <1>3, <1>4 DEF Next

\* The stack is always one of calls that can be under way together.
THEOREM ParseInvHolds == Spec => []ParseInv
<1>1. Init => ParseInv
  BY InitOk
<1>2. ParseInv /\ [Next]_vars => ParseInv'
  BY NextOk, StutterOk DEF Closer
<1> QED
  BY <1>1, <1>2, PTL DEF Spec

\* The parser does not go behind EOF, and whatever the stream its calls are
\* nested as those of parseProcedureDivision, parseParagraph and the functions
\* of the statements, each of them in its loop over a list.
THEOREM TypesHold == Spec => []TypeOK
<1>1. ParseInv => TypeOK
  <2> SUFFICES ASSUME ParseInv PROVE TypeOK
    OBVIOUS
  <2>1. PICK n \in Nat : n = Len(stack) /\ n > 0
    BY TopIs DEF ParseInv
  <2>2. stack # <<>> /\ DOMAIN stack = 1..n
    <3>1. stack \in Seq({stack[i] : i \in DOMAIN stack})
      BY DEF ParseInv, AreCalls, IsSeq
    <3> QED
      BY <2>1, <3>1
  <2>3. ASSUME NEW i \in 1..n
        PROVE  /\ stack[i].kind \in Kinds
               /\ stack[i].at \in {"loop", "after", "end", "clauses", "not"}
               /\ stack[i].part \in 0..2
               /\ stack[i].stop \subseteq Tokens
               /\ i = 1 <=> stack[i].kind = "DIVISION"
               /\ i = 2 <=> stack[i].kind \in {"PARAGRAPH", "ANONYMOUS"}
               /\ i < n => stack[i].at = IF i = 1 THEN "clauses" ELSE "loop"
    <3>1. IsFrame(stack[i]) /\ stack[i].kind \in KindsAt(i)
      BY <2>1 DEF ParseInv, AreCalls
    <3>2. i = 1 <=> stack[i].kind = "DIVISION"
      BY <3>1, KindsDiffer DEF KindsAt
    <3>3. i = 2 <=> stack[i].kind \in {"PARAGRAPH", "ANONYMOUS"}
      BY <3>1, KindsDiffer DEF KindsAt
    <3>4. i < n => stack[i].at = IF i = 1 THEN "clauses" ELSE "loop"
      <4>1. CASE i = 1
        BY <3>1, <3>2, <4>1 DEF IsFrame, PlacesOf
      <4>2. CASE i # 1
        <5>1. i < n => i \in 2..(n - 1)
          BY ONLY <4>2, i \in 1..n, n \in Nat
        <5> QED
          BY <2>1, <4>2, <5>1 DEF ParseInv, AreCalls
      <4> QED
        BY <4>1, <4>2
    <3>5. stack[i].at \in {"loop", "after", "end", "clauses", "not"}
      BY <3>1 DEF IsFrame, PlacesOf
    <3> QED
      BY <3>1, <3>2, <3>3, <3>4, <3>5 DEF IsFrame
  <2> QED
    BY <2>1, <2>2, <2>3 DEF TypeOK, ParseInv
<1> QED
  BY <1>1, ParseInvHolds, PTL

\* Whatever the stream, every step of the parser takes a token or comes nearer
\* to taking one, to returning or to the end of Parse; only OtherTerminator, the
\* loop of parseStatementsUntil over the terminator of another statement, does
\* not.
THEOREM ProgressHolds == Spec => Progress
<1>1. ParseInv /\ [Next]_vars => [Work' < Work]_vars
  BY NextOk DEF Closer
<1> QED
  BY <1>1, ParseInvHolds, PTL DEF Spec, Progress

----------------------------------------------------------------------------
(* The texts of statements.                                                  *)

Texts == [Statements -> Seq(Tokens)]
WhensOver(lists) == [stmt : {"WHEN"}, parts : OneOf(lists)]

LEMMA WordsAre ==
  /\ Simple \subseteq Tokens /\ Blocks \subseteq Tokens /\ ScopeTerminators \subseteq Tokens
  /\ {"DISPLAY", "NAME", "PERIOD", "ON", "NOT", "OVERFLOW", "EXCEPTION"} \subseteq Tokens
  /\ {"ELSE", "END-IF", "WHEN", "WHEN-OTHER", "END-EVALUATE", "END-HTTP", "END-PERFORM",
      "END-STRING"} \subseteq Tokens
  BY DEF Tokens, ScopeTerminators

LEMMA StatementIs ==
  ASSUME NEW s \in Statements
  PROVE  /\ s = Node(s.stmt, s.parts)
         /\ s.stmt \in Simple \cup Blocks \cup {"DISPLAY"}
         /\ s.stmt \in Simple => s.parts = <<>>
         /\ s.stmt = "DISPLAY" => s.parts \in OneOf(Seq({Leaf("NAME")}))
         /\ s.stmt = "PERFORM" => s.parts \in OneOf(Seq(Statements))
         /\ s.stmt \in {"IF", "STRING"} \cup HttpVerbs => s.parts \in TwoOf(Seq(Statements))
         /\ s.stmt = "STRING" => s.parts[1] = <<>> \/ s.parts[2] = <<>>
         /\ s.stmt = "EVALUATE" => s.parts \in Seq(WhensOver(Seq(Statements))) \X Seq(Statements)
<1> DEFINE L == Seq(Statements)
<1>1. s \in StatementsOver(L)
  BY StatementsAssumption
<1> HIDE DEF L
<1>2. CASE s \in [stmt : Simple, parts : {<<>>}]
  BY <1>2 DEF Node, Simple, HttpVerbs
<1>3. CASE s \in [stmt : {"DISPLAY"}, parts : OneOf(Seq({Leaf("NAME")}))]
  BY <1>3 DEF Node, Simple, HttpVerbs
<1>4. CASE s \in [stmt : {"PERFORM"}, parts : OneOf(L)]
  BY <1>4 DEF Node, Simple, HttpVerbs, Blocks, L
<1>5. CASE s \in [stmt : {"IF"} \cup HttpVerbs, parts : TwoOf(L)]
  BY <1>5 DEF Node, Simple, HttpVerbs, Blocks, L
<1>6. CASE s \in [stmt : {"STRING"}, parts : {p \in TwoOf(L) : p[1] = <<>> \/ p[2] = <<>>}]
  BY <1>6 DEF Node, Simple, HttpVerbs, Blocks, L
<1>7. CASE s \in [stmt : {"EVALUATE"}, parts : Seq([stmt : {"WHEN"}, parts : OneOf(L)]) \X L]
  BY <1>7 DEF Node, Simple, HttpVerbs, Blocks, L, WhensOver
<1> QED
  BY <1>1, <1>2, <1>3, <1>4, <1>5, <1>6, <1>7, Zenon DEF StatementsOver

\* The texts of the statements of a list, each with its period.
Pieces(list, ends, text) == [i \in DOMAIN list |-> text[list[i]] \o Period(i, ends)]

LEMMA PiecesType ==
  ASSUME NEW list \in Seq(Statements), NEW ends, NEW text \in Texts
  PROVE  /\ Pieces(list, ends, text) \in Seq(Seq(Tokens))
         /\ Len(Pieces(list, ends, text)) = Len(list)
         /\ ListText(list, ends, text) = FlattenSeq(Pieces(list, ends, text))
         /\ ListText(list, ends, text) \in Seq(Tokens)
<1>1. ASSUME NEW i \in DOMAIN list
      PROVE  text[list[i]] \o Period(i, ends) \in Seq(Tokens)
  <2>1. text[list[i]] \in Seq(Tokens)
    BY <1>1 DEF Texts
  <2>2. Period(i, ends) \in Seq(Tokens)
    BY WordsAre DEF Period
  <2> QED
    BY ONLY <2>1, <2>2, ConcatProperties
<1>2. Pieces(list, ends, text) \in Seq(Seq(Tokens)) /\ Len(Pieces(list, ends, text)) = Len(list)
  <2>1. PICK n \in Nat : n = Len(list) /\ DOMAIN list = 1..n
    OBVIOUS
  <2> QED
    BY <1>1, <2>1 DEF Pieces
<1>3. ListText(list, ends, text) = FlattenSeq(Pieces(list, ends, text))
  BY DEF ListText, Pieces
<1> QED
  BY <1>2, <1>3, FlattenedType

\* The text of a list depends on the texts of its statements only.
LEMMA SameListText ==
  ASSUME NEW list \in Seq(Statements), NEW ends, NEW g, NEW h,
         \A i \in DOMAIN list : g[list[i]] = h[list[i]]
  PROVE  ListText(list, ends, g) = ListText(list, ends, h)
<1>1. Pieces(list, ends, g) = Pieces(list, ends, h)
  BY Zenon DEF Pieces
<1> QED
  BY <1>1, Zenon DEF ListText, Pieces

LEMMA PhraseType ==
  ASSUME NEW words \in Seq(Tokens), NEW list \in Seq(Statements), NEW text \in Texts
  PROVE  Phrase(words, list, text) \in Seq(Tokens)
<1>1. ListText(list, {}, text) \in Seq(Tokens) /\ <<>> \in Seq(Tokens)
  BY PiecesType
<1>2. words \o ListText(list, {}, text) \in Seq(Tokens)
  BY ONLY <1>1, words \in Seq(Tokens), ConcatProperties
<1> QED
  BY <1>1, <1>2, Zenon DEF Phrase

LEMMA PhrasesAre ==
  /\ <<"ELSE">> \in Seq(Tokens) /\ <<"WHEN">> \in Seq(Tokens) /\ <<"WHEN-OTHER">> \in Seq(Tokens)
  /\ OverflowPhrase(1) = <<"ON", "OVERFLOW">> /\ OverflowPhrase(1) \in Seq(Tokens)
  /\ OverflowPhrase(2) = <<"NOT", "ON", "OVERFLOW">> /\ OverflowPhrase(2) \in Seq(Tokens)
  /\ OnException \in Seq(Tokens) /\ NotException \in Seq(Tokens) /\ NotOnException \in Seq(Tokens)
  /\ <<"NAME", "PERIOD">> \in Seq(Tokens)
  BY WordsAre DEF OverflowPhrase, OnException, NotException, NotOnException

\* The texts of the clauses of an EVALUATE.
WhenTexts(whens, text) == [i \in DOMAIN whens |-> WhenText(whens[i], text)]

LEMMA WhensType ==
  ASSUME NEW whens \in Seq(WhensOver(Seq(Statements))), NEW text \in Texts
  PROVE  /\ WhenTexts(whens, text) \in Seq(Seq(Tokens))
         /\ Len(WhenTexts(whens, text)) = Len(whens)
         /\ FlattenSeq(WhenTexts(whens, text)) \in Seq(Tokens)
         /\ \A i \in DOMAIN whens : /\ whens[i].parts[1] \in Seq(Statements)
                                    /\ whens[i] = Node("WHEN", <<whens[i].parts[1]>>)
                                    /\ ListText(whens[i].parts[1], {}, text) \in Seq(Tokens)
<1> DEFINE L == Seq(Statements)
           W == WhensOver(L)
<1>1. \A w \in W : w.parts[1] \in L /\ w = Node("WHEN", <<w.parts[1]>>)
  BY DEF WhensOver, OneOf, Node
<1> HIDE DEF L, W
<1>2. PICK n \in Nat : n = Len(whens) /\ DOMAIN whens = 1..n /\ \A i \in 1..n : whens[i] \in W
  BY DEF W, L
<1>3. ASSUME NEW i \in 1..n
      PROVE  /\ whens[i].parts[1] \in Seq(Statements)
             /\ whens[i] = Node("WHEN", <<whens[i].parts[1]>>)
             /\ ListText(whens[i].parts[1], {}, text) \in Seq(Tokens)
             /\ WhenText(whens[i], text) \in Seq(Tokens)
  <2>1. whens[i].parts[1] \in Seq(Statements) /\ whens[i] = Node("WHEN", <<whens[i].parts[1]>>)
    BY <1>1, <1>2 DEF L
  <2>2. ListText(whens[i].parts[1], {}, text) \in Seq(Tokens)
    BY <2>1, PiecesType
  <2>3. WhenText(whens[i], text) \in Seq(Tokens)
    BY <2>2, PhrasesAre, ConcatProperties, Zenon DEF WhenText
  <2> QED
    BY <2>1, <2>2, <2>3
<1>4. WhenTexts(whens, text) \in Seq(Seq(Tokens)) /\ Len(WhenTexts(whens, text)) = Len(whens)
  <2>1. WhenTexts(whens, text) = [i \in 1..n |-> WhenText(whens[i], text)]
    BY <1>2 DEF WhenTexts
  <2>2. \A i \in 1..n : WhenText(whens[i], text) \in Seq(Tokens)
    BY <1>3
  <2>3. WhenTexts(whens, text) \in [1..n -> Seq(Tokens)]
    BY ONLY <2>1, <2>2
  <2> QED
    BY ONLY <1>2, <2>3
<1>5. FlattenSeq(WhenTexts(whens, text)) \in Seq(Tokens)
  BY <1>4, FlattenedType
<1> QED
  BY <1>2, <1>3, <1>4, <1>5

LEMMA PartsAre ==
  ASSUME NEW parts, NEW S
  PROVE  /\ parts \in OneOf(S) => parts[1] \in S /\ parts = <<parts[1]>>
         /\ parts \in TwoOf(S) => parts[1] \in S /\ parts[2] \in S /\ parts = <<parts[1], parts[2]>>
  BY DEF OneOf, TwoOf

LEMMA KindsOfStatements ==
  /\ Simple = {"MOVE", "COMPUTE", "STOP"}
  /\ \A kind \in Simple \cup Blocks \cup {"DISPLAY"} :
        \/ kind \in Simple \/ kind = "DISPLAY" \/ kind = "PERFORM" \/ kind = "IF"
        \/ kind = "STRING" \/ kind = "EVALUATE" \/ kind = "HTTP-GET"
        \/ kind \in HttpVerbs \ {"HTTP-GET"}
  BY ListsAre DEF Simple

LEMMA InsideIs ==
  ASSUME NEW s, NEW text
  PROVE  /\ s.stmt \in Simple => Inside(s, text) = <<>>
         /\ s.stmt = "DISPLAY" => Inside(s, text) = [i \in DOMAIN s.parts[1] |-> "NAME"]
         /\ s.stmt = "PERFORM" => Inside(s, text) = ListText(s.parts[1], {}, text)
         /\ s.stmt = "IF" =>
               Inside(s, text) = ListText(s.parts[1], {}, text) \o Phrase(<<"ELSE">>, s.parts[2], text)
         /\ s.stmt = "STRING" =>
               Inside(s, text) = Phrase(OverflowPhrase(1), s.parts[1], text)
                                 \o Phrase(OverflowPhrase(2), s.parts[2], text)
         /\ s.stmt = "EVALUATE" =>
               Inside(s, text) = FlattenSeq(WhenTexts(s.parts[1], text))
                                 \o Phrase(<<"WHEN-OTHER">>, s.parts[2], text)
         /\ s.stmt = "HTTP-GET" => Inside(s, text) = GetText(s.parts, text)
         /\ s.stmt \in HttpVerbs \ {"HTTP-GET"} =>
               Inside(s, text) = Phrase(NotOnException, s.parts[2], text)
                                 \o Phrase(OnException, s.parts[1], text)
<1>1. Simple = {"MOVE", "COMPUTE", "STOP"} /\ HttpVerbs = {"HTTP-GET", "HTTP-LISTEN", "HTTP-RESPOND"}
  BY KindsOfStatements, ListsAre
<1>2. CASE s.stmt \in Simple
  BY ONLY <1>1, <1>2 DEF Inside
<1>3. CASE s.stmt = "DISPLAY"
  BY ONLY <1>1, <1>3 DEF Inside
<1>4. CASE s.stmt = "PERFORM"
  BY ONLY <1>1, <1>4 DEF Inside
<1>5. CASE s.stmt = "IF"
  BY ONLY <1>1, <1>5 DEF Inside
<1>6. CASE s.stmt = "STRING"
  BY ONLY <1>1, <1>6 DEF Inside
<1>7. CASE s.stmt = "EVALUATE"
  BY ONLY <1>1, <1>7 DEF Inside, WhenTexts
<1>8. CASE s.stmt = "HTTP-GET"
  BY ONLY <1>1, <1>8 DEF Inside
<1>9. CASE s.stmt \in HttpVerbs \ {"HTTP-GET"}
  BY ONLY <1>1, <1>9 DEF Inside
<1> QED
  BY <1>2, <1>3, <1>4, <1>5, <1>6, <1>7, <1>8, <1>9

\* The text of a statement consists of tokens, if those of the inner ones do.
LEMMA OneTextType ==
  ASSUME NEW s \in Statements, NEW text \in Texts
  PROVE  /\ Inside(s, text) \in Seq(Tokens) /\ Closing(s.stmt) \in Seq(Tokens)
         /\ Inside(s, text) \o Closing(s.stmt) \in Seq(Tokens)
         /\ <<s.stmt>> \in Seq(Tokens) /\ OneText(s, text) \in Seq(Tokens)
<1>1. Closing(s.stmt) \in Seq(Tokens)
  BY WordsAre, ListsAre DEF Closing
<1>2. <<s.stmt>> \in Seq(Tokens)
  BY WordsAre, StatementIs
<1>3. Inside(s, text) \in Seq(Tokens)
  <2> USE PhrasesAre
  <2>1. CASE s.stmt \in Simple
    <3>1. Inside(s, text) = <<>>
      BY <2>1, InsideIs, Zenon
    <3>2. <<>> \in Seq(Tokens)
      OBVIOUS
    <3> QED
      BY ONLY <3>1, <3>2
  <2>2. CASE s.stmt = "DISPLAY"
    <3>1. Inside(s, text) = [i \in DOMAIN s.parts[1] |-> "NAME"]
      BY <2>2, InsideIs
    <3>2. PICK n \in Nat : DOMAIN s.parts[1] = 1..n
      BY <2>2, StatementIs DEF OneOf
    <3> QED
      BY <3>1, <3>2, WordsAre
  <2>3. CASE s.stmt = "PERFORM"
    <3>1. Inside(s, text) = ListText(s.parts[1], {}, text)
      BY <2>3, InsideIs
    <3>2. s.parts[1] \in Seq(Statements)
      BY <2>3, StatementIs, PartsAre
    <3> QED
      BY <3>1, <3>2, PiecesType
  <2>4. CASE s.stmt = "IF"
    <3>1. Inside(s, text) = ListText(s.parts[1], {}, text) \o Phrase(<<"ELSE">>, s.parts[2], text)
      BY <2>4, InsideIs
    <3>2. s.parts[1] \in Seq(Statements) /\ s.parts[2] \in Seq(Statements)
      BY <2>4, StatementIs, PartsAre
    <3>3. ListText(s.parts[1], {}, text) \in Seq(Tokens)
          /\ Phrase(<<"ELSE">>, s.parts[2], text) \in Seq(Tokens)
      BY <3>2, PiecesType, PhraseType
    <3> QED
      BY ONLY <3>1, <3>3, ConcatProperties
  <2>5. CASE s.stmt = "STRING"
    <3>1. Inside(s, text) = Phrase(OverflowPhrase(1), s.parts[1], text)
                            \o Phrase(OverflowPhrase(2), s.parts[2], text)
      BY <2>5, InsideIs
    <3>2. s.parts[1] \in Seq(Statements) /\ s.parts[2] \in Seq(Statements)
      BY <2>5, StatementIs, PartsAre
    <3>3. Phrase(OverflowPhrase(1), s.parts[1], text) \in Seq(Tokens)
          /\ Phrase(OverflowPhrase(2), s.parts[2], text) \in Seq(Tokens)
      BY <3>2, PhraseType
    <3> QED
      BY ONLY <3>1, <3>3, ConcatProperties
  <2>6. CASE s.stmt = "EVALUATE"
    <3>1. Inside(s, text) = FlattenSeq(WhenTexts(s.parts[1], text))
                            \o Phrase(<<"WHEN-OTHER">>, s.parts[2], text)
      BY <2>6, InsideIs
    <3>2. s.parts[1] \in Seq(WhensOver(Seq(Statements))) /\ s.parts[2] \in Seq(Statements)
      BY <2>6, StatementIs
    <3>3. FlattenSeq(WhenTexts(s.parts[1], text)) \in Seq(Tokens)
          /\ Phrase(<<"WHEN-OTHER">>, s.parts[2], text) \in Seq(Tokens)
      BY <3>2, WhensType, PhraseType
    <3> QED
      BY ONLY <3>1, <3>3, ConcatProperties
  <2>7. CASE s.stmt = "HTTP-GET"
    <3>1. Inside(s, text) = GetText(s.parts, text)
      BY <2>7, InsideIs
    <3>2. s.parts[1] \in Seq(Statements) /\ s.parts[2] \in Seq(Statements)
      BY <2>7, StatementIs, PartsAre, ListsAre
    <3>3. ListText(s.parts[1], {}, text) \in Seq(Tokens)
          /\ Phrase(NotException, s.parts[2], text) \in Seq(Tokens)
      BY <3>2, PiecesType, PhraseType
    <3>4. ListText(s.parts[1], {}, text) \o Phrase(NotException, s.parts[2], text) \in Seq(Tokens)
      BY ONLY <3>3, ConcatProperties
    <3>5. OnException \o (ListText(s.parts[1], {}, text) \o Phrase(NotException, s.parts[2], text))
            \in Seq(Tokens)
      BY <3>4, ConcatProperties
    <3> QED
      BY <3>1, <3>5, EmptySeq, Zenon DEF GetText
  <2>8. CASE s.stmt \in HttpVerbs \ {"HTTP-GET"}
    <3>1. Inside(s, text) = Phrase(NotOnException, s.parts[2], text)
                            \o Phrase(OnException, s.parts[1], text)
      BY <2>8, InsideIs
    <3>2. s.parts[1] \in Seq(Statements) /\ s.parts[2] \in Seq(Statements)
      BY <2>8, StatementIs, PartsAre, ListsAre
    <3>3. Phrase(NotOnException, s.parts[2], text) \in Seq(Tokens)
          /\ Phrase(OnException, s.parts[1], text) \in Seq(Tokens)
      BY <3>2, PhraseType
    <3> QED
      BY ONLY <3>1, <3>3, ConcatProperties
  <2> QED
    BY <2>1, <2>2, <2>3, <2>4, <2>5, <2>6, <2>7, <2>8, StatementIs, KindsOfStatements
<1>4. Inside(s, text) \o Closing(s.stmt) \in Seq(Tokens)
  BY ONLY <1>1, <1>3, ConcatProperties
<1>5. <<s.stmt>> \o (Inside(s, text) \o Closing(s.stmt)) \in Seq(Tokens)
  BY ONLY <1>2, <1>4, ConcatProperties
<1> QED
  BY <1>1, <1>2, <1>3, <1>4, <1>5, Zenon DEF OneText

\* The lists of a statement, and what is in them.
LEMMA ListsOfIs ==
  ASSUME NEW s \in Statements
  PROVE  /\ s.stmt \in {"PERFORM", "IF", "STRING"} \cup HttpVerbs => s.parts[1] \in ListsOf(s)
         /\ s.stmt \in {"IF", "STRING"} \cup HttpVerbs => s.parts[2] \in ListsOf(s)
         /\ s.stmt = "EVALUATE" =>
               s.parts[2] \in ListsOf(s) /\ \A i \in DOMAIN s.parts[1] : s.parts[1][i].parts[1] \in ListsOf(s)
<1>1. Simple = {"MOVE", "COMPUTE", "STOP"} /\ HttpVerbs = {"HTTP-GET", "HTTP-LISTEN", "HTTP-RESPOND"}
  BY KindsOfStatements, ListsAre
<1>2. s.stmt = "EVALUATE" =>
        ListsOf(s) = {s.parts[1][i].parts[1] : i \in DOMAIN s.parts[1]} \cup {s.parts[2]}
  BY ONLY <1>1 DEF ListsOf
<1>3. s.stmt \in {"PERFORM", "IF", "STRING"} \cup HttpVerbs =>
        ListsOf(s) = {s.parts[i] : i \in DOMAIN s.parts}
  BY ONLY <1>1 DEF ListsOf
<1>4. s.stmt = "PERFORM" => 1 \in DOMAIN s.parts
  BY StatementIs DEF OneOf
<1>5. s.stmt \in {"IF", "STRING"} \cup HttpVerbs => 1 \in DOMAIN s.parts /\ 2 \in DOMAIN s.parts
  BY StatementIs DEF TwoOf
<1> QED
  BY <1>2, <1>3, <1>4, <1>5

\* The text of a statement depends on the texts of lower ones only.
LEMMA SameOneText ==
  ASSUME NEW s \in Statements, NEW g, NEW h,
         \A y \in Statements : Depth[y] < Depth[s] => g[y] = h[y]
  PROVE  OneText(s, g) = OneText(s, h)
<1>1. ASSUME NEW list \in ListsOf(s), NEW ends
      PROVE  ListText(list, ends, g) = ListText(list, ends, h)
  <2>1. list \in Seq(Statements) /\ \A i \in DOMAIN list : Depth[list[i]] < Depth[s]
    BY StatementsAssumption
  <2>2. \A i \in DOMAIN list : list[i] \in Statements
    BY <2>1
  <2> QED
    BY <2>1, <2>2, SameListText
<1>2. ASSUME NEW list \in ListsOf(s), NEW words
      PROVE  Phrase(words, list, g) = Phrase(words, list, h)
  BY <1>1, Zenon DEF Phrase
<1>3. Inside(s, g) = Inside(s, h)
  <2>1. CASE s.stmt \in Simple \cup {"DISPLAY"}
    BY <2>1, InsideIs
  <2>2. CASE s.stmt = "PERFORM"
    <3>1. Inside(s, g) = ListText(s.parts[1], {}, g) /\ Inside(s, h) = ListText(s.parts[1], {}, h)
      BY <2>2, InsideIs, Zenon
    <3>2. ListText(s.parts[1], {}, g) = ListText(s.parts[1], {}, h)
      BY <1>1, <2>2, ListsOfIs
    <3> QED
      BY ONLY <3>1, <3>2
  <2>3. CASE s.stmt = "IF"
    <3>1. \A t \in {g, h} : Inside(s, t) = ListText(s.parts[1], {}, t)
                                           \o Phrase(<<"ELSE">>, s.parts[2], t)
      BY <2>3, InsideIs, Zenon
    <3>2. ListText(s.parts[1], {}, g) = ListText(s.parts[1], {}, h)
      BY <1>1, <2>3, ListsOfIs
    <3>3. Phrase(<<"ELSE">>, s.parts[2], g) = Phrase(<<"ELSE">>, s.parts[2], h)
      BY <1>2, <2>3, ListsOfIs
    <3> QED
      BY ONLY <3>1, <3>2, <3>3, Zenon
  <2>4. CASE s.stmt = "STRING"
    <3>1. \A t \in {g, h} : Inside(s, t) = Phrase(OverflowPhrase(1), s.parts[1], t)
                                           \o Phrase(OverflowPhrase(2), s.parts[2], t)
      BY <2>4, InsideIs, Zenon
    <3>2. Phrase(OverflowPhrase(1), s.parts[1], g) = Phrase(OverflowPhrase(1), s.parts[1], h)
      BY <1>2, <2>4, ListsOfIs
    <3>3. Phrase(OverflowPhrase(2), s.parts[2], g) = Phrase(OverflowPhrase(2), s.parts[2], h)
      BY <1>2, <2>4, ListsOfIs
    <3> QED
      BY ONLY <3>1, <3>2, <3>3
  <2>5. CASE s.stmt = "EVALUATE"
    <3>1. WhenTexts(s.parts[1], g) = WhenTexts(s.parts[1], h)
      <4>1. \A i \in DOMAIN s.parts[1] :
               ListText(s.parts[1][i].parts[1], {}, g) = ListText(s.parts[1][i].parts[1], {}, h)
        BY <1>1, <2>5, ListsOfIs
      <4> QED
        BY <4>1, Zenon DEF WhenTexts, WhenText
    <3>2. Phrase(<<"WHEN-OTHER">>, s.parts[2], g) = Phrase(<<"WHEN-OTHER">>, s.parts[2], h)
      BY <1>2, <2>5, ListsOfIs
    <3>3. \A t \in {g, h} : Inside(s, t) = FlattenSeq(WhenTexts(s.parts[1], t))
                                           \o Phrase(<<"WHEN-OTHER">>, s.parts[2], t)
      BY <2>5, InsideIs, Zenon
    <3> QED
      BY ONLY <3>1, <3>2, <3>3
  <2>6. CASE s.stmt = "HTTP-GET"
    <3>1. GetText(s.parts, g) = GetText(s.parts, h)
      <4>1. ListText(s.parts[1], {}, g) = ListText(s.parts[1], {}, h)
            /\ Phrase(NotException, s.parts[2], g) = Phrase(NotException, s.parts[2], h)
        BY <1>1, <1>2, <2>6, ListsOfIs, ListsAre
      <4> QED
        BY <4>1, Zenon DEF GetText
    <3>2. \A t \in {g, h} : Inside(s, t) = GetText(s.parts, t)
      BY <2>6, InsideIs, Zenon
    <3> QED
      BY ONLY <3>1, <3>2, Zenon
  <2>7. CASE s.stmt \in HttpVerbs \ {"HTTP-GET"}
    <3>1. \A t \in {g, h} : Inside(s, t) = Phrase(NotOnException, s.parts[2], t)
                                           \o Phrase(OnException, s.parts[1], t)
      BY <2>7, InsideIs, Zenon
    <3>2. s.parts[1] \in ListsOf(s) /\ s.parts[2] \in ListsOf(s)
      BY <2>7, ListsOfIs
    <3>3. Phrase(OnException, s.parts[1], g) = Phrase(OnException, s.parts[1], h)
          /\ Phrase(NotOnException, s.parts[2], g) = Phrase(NotOnException, s.parts[2], h)
      BY <1>2, <3>2
    <3> QED
      BY ONLY <3>1, <3>3
  <2> QED
    BY <2>1, <2>2, <2>3, <2>4, <2>5, <2>6, <2>7, StatementIs, KindsOfStatements
<1> QED
  BY <1>3, Zenon DEF OneText

\* Every statement has a text: its recursive definition has a solution.
LEMMA TextDefined ==
  Text \in Texts /\ \A s \in Statements : Text[s] = OneText(s, Text)
<1> DEFINE V == Seq(Tokens)
           G == [Statements -> V]
           step == [a \in Statements \X G |-> OneText(a[1], a[2])]
           Body(g) == [s \in Statements |-> OneText(s, g)]
<1>0. G = Texts
  BY DEF Texts
<1>1. ASSUME NEW s \in Statements, NEW g \in G
      PROVE  step[<<s, g>>] = OneText(s, g) /\ OneText(s, g) \in V
  <2>1. step[<<s, g>>] = OneText(s, g)
    OBVIOUS
  <2>2. OneText(s, g) \in V
    BY <1>0, OneTextType
  <2> QED
    BY <2>1, <2>2
<1>2. step \in [Statements \X G -> V]
  <2> SUFFICES ASSUME NEW a \in Statements \X G
               PROVE  OneText(a[1], a[2]) \in V
    OBVIOUS
  <2> QED
    BY <1>1
<1>3. ASSUME NEW s \in Statements, NEW g \in G, NEW h \in G,
             \A y \in Statements : Depth[y] < Depth[s] => g[y] = h[y]
      PROVE  step[<<s, g>>] = step[<<s, h>>]
  <2>1. OneText(s, g) = OneText(s, h)
    BY <1>0, <1>3, SameOneText
  <2> QED
    BY <1>1, <2>1
<1> HIDE DEF step
<1>4. IsTreeStep(Statements, Depth, V, step)
  <2>1. \A s \in Statements : \A g, h \in [Statements -> V] :
          (\A y \in Statements : Depth[y] < Depth[s] => g[y] = h[y]) => step[<<s, g>>] = step[<<s, h>>]
    BY <1>3
  <2>2. Depth \in [Statements -> Nat]
    BY StatementsAssumption
  <2>3. step \in [Statements \X [Statements -> V] -> V]
    BY <1>2
  <2> HIDE DEF V, G
  <2> QED
    BY ONLY <2>1, <2>2, <2>3, Zenon DEF IsTreeStep
<1>5. V # {}
  <2>1. <<>> \in V
    OBVIOUS
  <2> QED
    BY <2>1
<1>6. PICK f \in G : \A s \in Statements : f[s] = step[<<s, f>>]
  <2> HIDE DEF V
  <2> QED
    BY <1>4, <1>5, TreeRecursion
<1>7. f = Body(f)
  BY <1>1, <1>6
<1>8. Text = CHOOSE g : g = Body(g)
  BY Zenon DEF Text
<1> HIDE DEF Body
<1>9. Text = Body(Text)
  BY <1>7, <1>8, Zenon
<1>10. Text = [s \in Statements |-> OneText(s, Text)]
  BY <1>9, Zenon DEF Body
<1>11. \A s \in Statements : Text[s] = OneText(s, Text)
  BY <1>10, Zenon
<1>12. Text \in G
  <2> DEFINE S == {s \in Statements : Text[s] = f[s]}
  <2>1. ASSUME NEW s \in Statements, \A y \in Statements : Depth[y] < Depth[s] => y \in S
        PROVE  s \in S
    <3>1. OneText(s, Text) = OneText(s, f)
      BY <2>1, SameOneText
    <3>2. f[s] = OneText(s, f)
      BY <1>1, <1>6
    <3> QED
      BY <1>11, <3>1, <3>2
  <2>2. Statements \subseteq S
    <3> HIDE DEF S
    <3> QED
      BY <2>1, StatementsAssumption, TreeInduction
  <2>3. Text = [s \in Statements |-> f[s]]
    <3>1. [s \in Statements |-> OneText(s, Text)] = [s \in Statements |-> f[s]]
      BY <1>11, <2>2
    <3> QED
      BY <1>10, <3>1, Zenon
  <2> QED
    BY <2>3
<1> QED
  BY <1>0, <1>11, <1>12

----------------------------------------------------------------------------
(* Where a text stands in another one.                                      *)

WordAt(t, i) == IF i <= Len(t) THEN t[i] ELSE "EOF"

\* The words of s stand in t from p up to q.
Span(t, s, p, q) ==
    /\ t \in Seq(Tokens) /\ s \in Seq(Tokens)
    /\ p \in Nat \ {0} /\ q \in Nat \ {0} /\ q = p + Len(s) /\ q <= Len(t) + 1
    /\ \A i \in 1..Len(s) : t[p + i - 1] = s[i]

LEMMA SpanSplit ==
  ASSUME NEW t, NEW a \in Seq(Tokens), NEW b \in Seq(Tokens), NEW p, NEW q, Span(t, a \o b, p, q)
  PROVE  \E m : Span(t, a, p, m) /\ Span(t, b, m, q)
<1>1. /\ a \o b \in Seq(Tokens) /\ Len(a \o b) = Len(a) + Len(b)
      /\ Len(a) \in Nat /\ Len(b) \in Nat
      /\ \A i \in 1..Len(a \o b) : (a \o b)[i] = IF i <= Len(a) THEN a[i] ELSE b[i - Len(a)]
  BY ConcatProperties
<1>2. PICK k, l \in Nat : k = Len(a) /\ l = Len(b)
  BY <1>1
<1>3. PICK c : c = a \o b
  OBVIOUS
<1>4. /\ t \in Seq(Tokens) /\ p \in Nat \ {0} /\ q = p + (k + l) /\ q <= Len(t) + 1 /\ Len(t) \in Nat
      /\ \A i \in 1..(k + l) : t[p + i - 1] = c[i]
  BY <1>1, <1>2, <1>3 DEF Span
<1>5. \A i \in 1..(k + l) : c[i] = IF i <= k THEN a[i] ELSE b[i - k]
  BY <1>1, <1>2, <1>3
<1>6. Span(t, a, p, p + k)
  <2>1. \A i \in 1..k : i \in 1..(k + l) /\ i <= k
    BY ONLY k \in Nat, l \in Nat
  <2>2. \A i \in 1..k : t[p + i - 1] = a[i]
    BY ONLY <1>4, <1>5, <2>1
  <2>3. p + k \in Nat \ {0} /\ p + k <= Len(t) + 1
    BY ONLY <1>4, k \in Nat, l \in Nat
  <2> QED
    BY <1>2, <1>4, <2>2, <2>3 DEF Span
<1>7. Span(t, b, p + k, q)
  <2>1. \A i \in 1..l : k + i \in 1..(k + l) /\ ~(k + i <= k) /\ k + i - k = i
                        /\ p + (k + i) - 1 = p + k + i - 1
    BY ONLY k \in Nat, l \in Nat, <1>4
  <2>2. \A i \in 1..l : t[p + k + i - 1] = b[i]
    <3> SUFFICES ASSUME NEW i \in 1..l PROVE t[p + k + i - 1] = b[i]
      OBVIOUS
    <3>1. PICK j : j = k + i
      OBVIOUS
    <3>2. j \in 1..(k + l) /\ ~(j <= k) /\ j - k = i /\ p + j - 1 = p + k + i - 1
      BY ONLY <2>1, <3>1, i \in 1..l
    <3>3. t[p + j - 1] = c[j] /\ c[j] = b[j - k]
      BY ONLY <1>4, <1>5, <3>2
    <3> QED
      BY ONLY <3>2, <3>3
  <2>3. p + k \in Nat \ {0} /\ q \in Nat \ {0} /\ q = p + k + l
    BY ONLY <1>4, k \in Nat, l \in Nat
  <2> QED
    BY <1>2, <1>4, <2>2, <2>3 DEF Span
<1> QED
  BY <1>6, <1>7

LEMMA SpanIs ==
  ASSUME NEW t, NEW s, NEW p, NEW q, Span(t, s, p, q)
  PROVE  /\ p \in Nat \ {0} /\ q \in Nat \ {0} /\ Len(s) \in Nat /\ Len(t) \in Nat
         /\ t \in Seq(Tokens) /\ s \in Seq(Tokens)
         /\ s = <<>> => p = q
         /\ s # <<>> => p <= Len(t) /\ WordAt(t, p) = s[1]
  BY DEF Span, WordAt

LEMMA SpanWords ==
  ASSUME NEW t, NEW p, NEW q, NEW u, NEW v, NEW w
  PROVE  /\ Span(t, <<u>>, p, q) => p \in Nat /\ q = p + 1 /\ p <= Len(t) /\ WordAt(t, p) = u
         /\ Span(t, <<u, v>>, p, q) => /\ p \in Nat /\ q = p + 2 /\ p + 1 <= Len(t)
                                       /\ WordAt(t, p) = u /\ WordAt(t, p + 1) = v
         /\ Span(t, <<u, v, w>>, p, q) => /\ p \in Nat /\ q = p + 3 /\ p + 2 <= Len(t)
                                          /\ WordAt(t, p) = u /\ WordAt(t, p + 1) = v
                                          /\ WordAt(t, p + 2) = w
<1>1. ASSUME Span(t, <<u>>, p, q)
      PROVE  p \in Nat /\ q = p + 1 /\ p <= Len(t) /\ WordAt(t, p) = u
  <2>1. 1 \in 1..Len(<<u>>) /\ Len(<<u>>) = 1
    OBVIOUS
  <2> QED
    BY <1>1, <2>1 DEF Span, WordAt
<1>2. ASSUME Span(t, <<u, v>>, p, q)
      PROVE  /\ p \in Nat /\ q = p + 2 /\ p + 1 <= Len(t)
             /\ WordAt(t, p) = u /\ WordAt(t, p + 1) = v
  <2>1. 1 \in 1..Len(<<u, v>>) /\ 2 \in 1..Len(<<u, v>>) /\ Len(<<u, v>>) = 2
    OBVIOUS
  <2>2. t[p + 1 - 1] = u /\ t[p + 2 - 1] = v
    BY <1>2, <2>1 DEF Span
  <2> QED
    BY <1>2, <2>1, <2>2 DEF Span, WordAt
<1>3. ASSUME Span(t, <<u, v, w>>, p, q)
      PROVE  /\ p \in Nat /\ q = p + 3 /\ p + 2 <= Len(t)
             /\ WordAt(t, p) = u /\ WordAt(t, p + 1) = v /\ WordAt(t, p + 2) = w
  <2>1. /\ 1 \in 1..Len(<<u, v, w>>) /\ 2 \in 1..Len(<<u, v, w>>) /\ 3 \in 1..Len(<<u, v, w>>)
        /\ Len(<<u, v, w>>) = 3
    OBVIOUS
  <2>2. t[p + 1 - 1] = u /\ t[p + 2 - 1] = v /\ t[p + 3 - 1] = w
    BY <1>3, <2>1 DEF Span
  <2> QED
    BY <1>3, <2>1, <2>2 DEF Span, WordAt
<1> QED
  BY <1>1, <1>2, <1>3

\* The texts of ss from the j-th one on stand in t, one behind the other, from
\* p up to r.
Row(t, ss, j, p, r) ==
    /\ p \in Nat \ {0} /\ ss \in Seq(Seq(Tokens)) /\ j \in 1..(Len(ss) + 1)
    /\ \E c : /\ c[j] = p /\ c[Len(ss) + 1] = r
              /\ \A m \in j..Len(ss) : Span(t, ss[m], c[m], c[m + 1])

LEMMA RowEnd ==
  ASSUME NEW t, NEW ss, NEW j, NEW p, NEW r, Row(t, ss, j, p, r), j = Len(ss) + 1
  PROVE  p = r
  BY DEF Row

LEMMA RowFirst ==
  ASSUME NEW t, NEW ss, NEW j, NEW p, NEW r, Row(t, ss, j, p, r), j <= Len(ss)
  PROVE  \E m : Span(t, ss[j], p, m) /\ Row(t, ss, j + 1, m, r)
<1>1. PICK c : /\ c[j] = p /\ c[Len(ss) + 1] = r
               /\ \A m \in j..Len(ss) : Span(t, ss[m], c[m], c[m + 1])
  BY DEF Row
<1>2. ss \in Seq(Seq(Tokens)) /\ j \in Nat /\ j \in 1..Len(ss) /\ Len(ss) \in Nat
  BY DEF Row
<1>3. j \in j..Len(ss) /\ j + 1 \in 1..(Len(ss) + 1) /\ \A m \in (j + 1)..Len(ss) : m \in j..Len(ss)
  BY <1>2
<1>4. Span(t, ss[j], p, c[j + 1])
  BY <1>1, <1>3
<1>5. c[j + 1] \in Nat \ {0}
  BY <1>4, SpanIs
<1>6. Row(t, ss, j + 1, c[j + 1], r)
  BY <1>1, <1>2, <1>3, <1>5, Zenon DEF Row
<1> QED
  BY <1>4, <1>6

LEMMA RowOf ==
  ASSUME NEW t, NEW ss \in Seq(Seq(Tokens)), NEW p, NEW r, Span(t, FlattenSeq(ss), p, r)
  PROVE  Row(t, ss, 1, p, r)
<1>1. PICK flat : IsFlattening(flat, ss, Tokens)
  BY Flattening
<1>2. PICK n \in Nat : n = Len(ss) /\ \A i \in 1..n : ss[i] \in Seq(Tokens)
  OBVIOUS
<1>3. /\ \A i \in 0..n : flat[i] \in Seq(Tokens)
      /\ flat[0] = <<>> /\ \A i \in 1..n : flat[i] = flat[i - 1] \o ss[i]
      /\ FlattenSeq(ss) = flat[n]
  BY <1>1, <1>2 DEF IsFlattening
<1> DEFINE Place(i) == p + Len(flat[i])
<1>4. ASSUME NEW i \in 1..n, Span(t, flat[i], p, Place(i))
      PROVE  Span(t, flat[i - 1], p, Place(i - 1)) /\ Span(t, ss[i], Place(i - 1), Place(i))
  <2>1. i - 1 \in 0..n
    BY <1>2
  <2>2. flat[i - 1] \in Seq(Tokens) /\ ss[i] \in Seq(Tokens) /\ flat[i] = flat[i - 1] \o ss[i]
    BY <1>2, <1>3, <2>1
  <2>3. PICK m : Span(t, flat[i - 1], p, m) /\ Span(t, ss[i], m, Place(i))
    BY <1>4, <2>2, SpanSplit
  <2>4. m = Place(i - 1)
    BY <2>3 DEF Span
  <2> QED
    BY <2>3, <2>4
<1> DEFINE S == {k \in Nat : k <= n => Span(t, flat[n - k], p, Place(n - k))}
<1>5. 0 \in S
  <2>1. n - 0 = n
    BY <1>2
  <2>2. r = Place(n) /\ Span(t, flat[n], p, r)
    BY <1>3 DEF Span
  <2> QED
    BY <2>1, <2>2
<1>6. ASSUME NEW k \in Nat, k \in S PROVE k + 1 \in S
  <2> SUFFICES ASSUME k + 1 <= n PROVE Span(t, flat[n - (k + 1)], p, Place(n - (k + 1)))
    OBVIOUS
  <2>1. PICK i : i = n - k
    OBVIOUS
  <2>2. i \in 1..n /\ n - (k + 1) = i - 1 /\ k <= n
    BY <1>2, <2>1
  <2>3. Span(t, flat[i], p, Place(i))
    BY <1>6, <2>1, <2>2
  <2> QED
    BY <1>4, <2>2, <2>3
<1>7. Nat \subseteq S
  <2> HIDE DEF S
  <2> QED
    BY <1>5, <1>6, Induction
<1>8. \A i \in 0..n : Span(t, flat[i], p, Place(i))
  <2> SUFFICES ASSUME NEW i \in 0..n PROVE Span(t, flat[i], p, Place(i))
    OBVIOUS
  <2>1. n - i \in Nat /\ n - (n - i) = i /\ n - i <= n
    BY ONLY n \in Nat, i \in 0..n
  <2>2. n - i \in S
    BY <1>7, <2>1
  <2> QED
    BY <2>1, <2>2
<1>9. PICK c : c = [i \in 1..(n + 1) |-> Place(i - 1)]
  OBVIOUS
<1>10. \A m \in 1..n : Span(t, ss[m], c[m], c[m + 1])
  <2> SUFFICES ASSUME NEW m \in 1..n PROVE Span(t, ss[m], c[m], c[m + 1])
    OBVIOUS
  <2>1. m \in 0..n /\ m \in 1..(n + 1) /\ m + 1 \in 1..(n + 1) /\ m + 1 - 1 = m
    BY <1>2
  <2>2. c[m] = Place(m - 1) /\ c[m + 1] = Place(m)
    <3> HIDE DEF Place
    <3> QED
      BY ONLY <1>9, <2>1
  <2>3. Span(t, ss[m], Place(m - 1), Place(m))
    BY <1>4, <1>8, <2>1
  <2> QED
    BY <2>2, <2>3
<1>11. c[1] = p /\ c[n + 1] = r
  <2>1. 1 \in 1..(n + 1) /\ n + 1 \in 1..(n + 1) /\ 1 - 1 = 0 /\ n + 1 - 1 = n
    BY <1>2
  <2>2. c[1] = Place(0) /\ c[n + 1] = Place(n)
    <3> HIDE DEF Place
    <3> QED
      BY ONLY <1>9, <2>1
  <2>3. Place(0) = p /\ Place(n) = r
    <3>1. Len(flat[0]) = 0 /\ p \in Nat /\ r = p + Len(flat[n])
      BY <1>3 DEF Span
    <3> QED
      BY <3>1
  <2> QED
    BY <2>2, <2>3
<1>12. p \in Nat \ {0} /\ 1 \in 1..(n + 1)
  BY <1>2 DEF Span
<1> QED
  BY <1>2, <1>10, <1>11, <1>12, Zenon DEF Row

\* The first elements of a sequence.
Prefix(s, list) ==
    /\ IsSeq(s) /\ IsSeq(list) /\ Len(s) \in Nat /\ Len(list) \in Nat /\ Len(s) <= Len(list)
    /\ \A i \in 1..Len(s) : s[i] = list[i]

LEMMA PrefixGrows ==
  ASSUME NEW s, NEW list, Prefix(s, list), Len(s) < Len(list), NEW e, e = list[Len(s) + 1]
  PROVE  Prefix(Append(s, e), list) /\ Len(Append(s, e)) = Len(s) + 1
<1>1. PICK n, l \in Nat : n = Len(s) /\ l = Len(list) /\ n < l /\ \A i \in 1..n : s[i] = list[i]
  BY DEF Prefix
<1>2. PICK a : a = Append(s, e)
  OBVIOUS
<1>3. IsSeq(a) /\ Len(a) = n + 1 /\ a[n + 1] = e /\ \A i \in 1..n : a[i] = s[i]
  BY <1>1, <1>2, AppendSeq DEF Prefix
<1>4. \A i \in 1..(n + 1) : a[i] = list[i]
  <2>1. \A i \in 1..(n + 1) : i \in 1..n \/ i = n + 1
    BY ONLY n \in Nat
  <2> QED
    BY <1>1, <1>3, <2>1
<1>5. IsSeq(list) /\ n + 1 <= l /\ n + 1 \in Nat
  BY <1>1 DEF Prefix
<1> QED
  BY <1>1, <1>2, <1>3, <1>4, <1>5 DEF Prefix

LEMMA PrefixFull ==
  ASSUME NEW s, NEW list, Prefix(s, list), ~(Len(s) < Len(list))
  PROVE  s = list
<1>1. PICK n \in Nat : n = Len(s) /\ n = Len(list) /\ \A i \in 1..n : s[i] = list[i]
  BY DEF Prefix
<1>2. s = [i \in 1..n |-> s[i]] /\ list = [i \in 1..n |-> list[i]]
  <2>1. ASSUME NEW A, NEW a \in Seq(A), Len(a) = n
        PROVE  a = [i \in 1..n |-> a[i]]
    BY <2>1
  <2>2. s \in Seq({s[i] : i \in DOMAIN s}) /\ list \in Seq({list[i] : i \in DOMAIN list})
    BY DEF Prefix, IsSeq
  <2> QED
    BY ONLY <1>1, <2>1, <2>2
<1>3. [i \in 1..n |-> s[i]] = [i \in 1..n |-> list[i]]
  BY <1>1, Zenon
<1> QED
  BY ONLY <1>2, <1>3

LEMMA PrefixStart ==
  ASSUME NEW list, IsSeq(list)
  PROVE  Prefix(<<>>, list)
<1>1. Len(list) \in Nat
  BY AppendSeq
<1> QED
  BY <1>1, EmptyList DEF Prefix

----------------------------------------------------------------------------
(* A list in the text of a program, and how much of it has been read.        *)

Words == Simple \cup Blocks \cup {"DISPLAY"}

\* Up to p a call has read the statements of body from a list, whose text ends
\* at r.
Reads(t, at, body, list, ends, p, r) ==
    /\ list \in Seq(Statements) /\ Prefix(body, list)
    /\ \/ at = "end" /\ body = list /\ p = r
       \/ /\ at = "loop" /\ Row(t, Pieces(list, ends, Text), Len(body) + 1, p, r)
          /\ Len(list) \in ends => Len(body) < Len(list)
       \/ /\ at = "after" /\ body # <<>>
          /\ \E m : /\ Span(t, Period(Len(body), ends), p, m)
                    /\ Row(t, Pieces(list, ends, Text), Len(body) + 1, m, r)

LEMMA SequenceOfStatements ==
  ASSUME NEW list \in Seq(Statements)
  PROVE  /\ IsSeq(list) /\ Len(list) \in Nat /\ (list = <<>> <=> Len(list) = 0)
         /\ \A i \in 1..Len(list) : list[i] \in Statements
  BY SeqIs

LEMMA ReadingStarts ==
  ASSUME NEW list \in Seq(Statements), NEW ends, Len(list) \in ends => list # <<>>,
         NEW t, NEW p, NEW r, Span(t, ListText(list, ends, Text), p, r)
  PROVE  Reads(t, "loop", <<>>, list, ends, p, r)
<1>1. /\ Pieces(list, ends, Text) \in Seq(Seq(Tokens)) /\ Len(Pieces(list, ends, Text)) = Len(list)
      /\ ListText(list, ends, Text) = FlattenSeq(Pieces(list, ends, Text))
  BY TextDefined, PiecesType
<1>2. Row(t, Pieces(list, ends, Text), 1, p, r)
  BY <1>1, RowOf
<1>3. Prefix(<<>>, list) /\ Len(<<>>) + 1 = 1 /\ (Len(list) \in ends => Len(<<>>) < Len(list))
  <2>1. IsSeq(list) /\ Len(list) \in Nat /\ (list = <<>> <=> Len(list) = 0)
    BY SequenceOfStatements
  <2> QED
    BY <2>1, PrefixStart
<1> QED
  BY ONLY <1>2, <1>3, list \in Seq(Statements) DEF Reads

\* The text of a statement.
LEMMA StatementBegins ==
  ASSUME NEW s \in Statements, NEW t, NEW p, NEW m, Span(t, Text[s], p, m)
  PROVE  /\ WordAt(t, p) = s.stmt /\ s.stmt \in Words /\ p \in Nat /\ p <= Len(t)
         /\ Span(t, Inside(s, Text) \o Closing(s.stmt), p + 1, m)
<1>1. /\ Text[s] = <<s.stmt>> \o (Inside(s, Text) \o Closing(s.stmt))
      /\ <<s.stmt>> \in Seq(Tokens) /\ Inside(s, Text) \o Closing(s.stmt) \in Seq(Tokens)
  BY TextDefined, OneTextType DEF OneText
<1>2. PICK k : Span(t, <<s.stmt>>, p, k) /\ Span(t, Inside(s, Text) \o Closing(s.stmt), k, m)
  BY <1>1, SpanSplit
<1>3. k = p + 1 /\ p \in Nat /\ p <= Len(t) /\ WordAt(t, p) = s.stmt
  BY <1>2, SpanWords
<1> QED
  BY <1>2, <1>3, StatementIs DEF Words

\* The next statement of a list.
LEMMA NextRead ==
  ASSUME NEW t, NEW body, NEW list, NEW ends, NEW p, NEW r,
         Reads(t, "loop", body, list, ends, p, r), Len(body) < Len(list)
  PROVE  \E m : /\ list[Len(body) + 1] \in Statements
                /\ Span(t, Text[list[Len(body) + 1]], p, m)
                /\ Reads(t, "after", Append(body, list[Len(body) + 1]), list, ends, m, r)
<1>1. /\ list \in Seq(Statements) /\ Prefix(body, list)
      /\ Row(t, Pieces(list, ends, Text), Len(body) + 1, p, r)
  BY DEF Reads
<1>2. PICK n, l \in Nat : n = Len(body) /\ l = Len(list) /\ n < l
  BY <1>1 DEF Prefix
<1>3. PICK s : s = list[n + 1]
  OBVIOUS
<1>4. s \in Statements /\ n + 1 \in DOMAIN list
  BY <1>1, <1>2, <1>3
<1>5. Text[s] \in Seq(Tokens) /\ Period(n + 1, ends) \in Seq(Tokens)
  BY <1>4, TextDefined, WordsAre DEF Texts, Period
<1>6. PICK pieces : /\ pieces = Pieces(list, ends, Text) /\ Len(pieces) = l
                    /\ pieces[n + 1] = Text[s] \o Period(n + 1, ends)
  <2>1. Len(Pieces(list, ends, Text)) = Len(list)
    BY <1>1, TextDefined, PiecesType
  <2>2. Pieces(list, ends, Text)[n + 1] = Text[s] \o Period(n + 1, ends)
    BY <1>3, <1>4 DEF Pieces
  <2> QED
    BY <1>2, <2>1, <2>2
<1>7. PICK k : Span(t, pieces[n + 1], p, k) /\ Row(t, pieces, n + 1 + 1, k, r)
  <2>1. Row(t, pieces, n + 1, p, r) /\ n + 1 <= Len(pieces)
    BY <1>1, <1>2, <1>6
  <2> QED
    BY <2>1, RowFirst
<1>8. PICK m : Span(t, Text[s], p, m) /\ Span(t, Period(n + 1, ends), m, k)
  <2>1. Span(t, Text[s] \o Period(n + 1, ends), p, k)
    BY <1>6, <1>7
  <2> QED
    BY <1>5, <2>1, SpanSplit
<1>9. PICK longer : longer = Append(body, s)
  OBVIOUS
<1>10. Prefix(longer, list) /\ Len(longer) = n + 1 /\ longer # <<>>
  <2>1. Prefix(longer, list) /\ Len(longer) = n + 1
    BY <1>1, <1>2, <1>3, <1>9, PrefixGrows
  <2> QED
    BY <1>1, <1>9, <2>1, AppendSeq DEF Prefix
<1>11. Reads(t, "after", longer, list, ends, m, r)
  <2>1. \E b : Span(t, Period(Len(longer), ends), m, b) /\ Row(t, pieces, Len(longer) + 1, b, r)
    BY ONLY <1>7, <1>8, <1>10
  <2> QED
    BY ONLY <1>1, <1>6, <1>10, <2>1 DEF Reads
<1> QED
  BY <1>2, <1>3, <1>4, <1>8, <1>9, <1>11

LEMMA LoopWord ==
  ASSUME NEW t, NEW body, NEW list, NEW ends, NEW p, NEW r,
         Reads(t, "loop", body, list, ends, p, r)
  PROVE  \/ Len(body) < Len(list) /\ WordAt(t, p) \in Words /\ p <= Len(t)
         \/ body = list /\ p = r /\ Len(list) \notin ends
<1>1. CASE Len(body) < Len(list)
  <2>1. PICK s, m : s \in Statements /\ Span(t, Text[s], p, m)
    BY <1>1, NextRead
  <2> QED
    BY <1>1, <2>1, StatementBegins
<1>2. CASE ~(Len(body) < Len(list))
  <2>1. /\ list \in Seq(Statements) /\ Prefix(body, list) /\ Len(list) \notin ends
        /\ Row(t, Pieces(list, ends, Text), Len(body) + 1, p, r)
    BY <1>2 DEF Reads
  <2>2. body = list /\ Len(Pieces(list, ends, Text)) = Len(list)
    BY <1>2, <2>1, PrefixFull, TextDefined, PiecesType
  <2>3. p = r
    BY <2>1, <2>2, RowEnd
  <2> QED
    BY <2>1, <2>2, <2>3
<1> QED
  BY <1>1, <1>2

\* What comes behind a statement: its period, if it has one, and then what
\* comes next in the list.
LEMMA AfterRead ==
  ASSUME NEW t, NEW body, NEW list, NEW ends, NEW p, NEW r,
         Reads(t, "after", body, list, ends, p, r)
  PROVE  /\ Len(body) \in ends =>
              /\ WordAt(t, p) = "PERIOD" /\ p \in Nat /\ p <= Len(t)
              /\ \/ body = list /\ p + 1 = r
                 \/ /\ Reads(t, "loop", body, list, ends, p + 1, r)
                    /\ WordAt(t, p + 1) \in Words /\ p + 1 <= Len(t)
         /\ Len(body) \notin ends =>
              /\ Reads(t, "loop", body, list, ends, p, r)
              /\ WordAt(t, p) \in Words \/ (body = list /\ p = r)
<1>1. PICK m : /\ list \in Seq(Statements) /\ Prefix(body, list)
               /\ Span(t, Period(Len(body), ends), p, m)
               /\ Row(t, Pieces(list, ends, Text), Len(body) + 1, m, r)
  BY DEF Reads
<1>2. CASE Len(body) \in ends
  <2>1. Span(t, <<"PERIOD">>, p, m)
    BY <1>1, <1>2 DEF Period
  <2>2. WordAt(t, p) = "PERIOD" /\ p \in Nat /\ p <= Len(t) /\ m = p + 1
    BY <2>1, SpanWords
  <2>3. CASE Len(body) < Len(list)
    <3>1. Reads(t, "loop", body, list, ends, m, r)
      BY ONLY <1>1, <2>3 DEF Reads
    <3>2. (Len(body) < Len(list) /\ WordAt(t, m) \in Words /\ m <= Len(t)) \/ body = list
      BY <3>1, LoopWord
    <3>3. body # list
      BY <1>1, <2>3 DEF Prefix
    <3> QED
      BY <1>2, <2>2, <3>1, <3>2, <3>3
  <2>4. CASE ~(Len(body) < Len(list))
    <3>1. body = list
      BY <1>1, <2>4, PrefixFull
    <3>2. m = r
      BY <1>1, <3>1, RowEnd, TextDefined, PiecesType
    <3> QED
      BY <1>2, <2>2, <3>1, <3>2
  <2> QED
    BY <2>3, <2>4
<1>3. CASE Len(body) \notin ends
  <2>1. Span(t, <<>>, p, m)
    BY <1>1, <1>3 DEF Period
  <2>2. p = m
    BY <2>1, SpanIs
  <2>3. Len(list) \in ends => Len(body) < Len(list)
    <3>1. CASE Len(body) < Len(list)
      BY <3>1
    <3>2. CASE ~(Len(body) < Len(list))
      BY <1>1, <1>3, <3>2, PrefixFull
    <3> QED
      BY <3>1, <3>2
  <2>4. Reads(t, "loop", body, list, ends, p, r)
    BY ONLY <1>1, <2>2, <2>3 DEF Reads
  <2> QED
    BY <1>3, <2>4, LoopWord
<1> QED
  BY <1>2, <1>3

----------------------------------------------------------------------------
(* What is left of a statement behind one of its lists.                     *)

\* A text, and the word that closes the statement.
Ends(t, s, closing, p, q) == \E m : Span(t, s, p, m) /\ Span(t, <<closing>>, m, q)

\* The clauses of an EVALUATE from the k-th one on, and its end.
Clauses(t, n, k, p, q) ==
    \E m : /\ Row(t, WhenTexts(n.parts[1], Text), k, p, m)
           /\ Ends(t, Phrase(<<"WHEN-OTHER">>, n.parts[2], Text), "END-EVALUATE", m, q)

LEMMA NothingLeft ==
  ASSUME NEW t, NEW closing, NEW p, NEW q, Ends(t, <<>>, closing, p, q)
  PROVE  p \in Nat /\ q = p + 1 /\ p <= Len(t) /\ WordAt(t, p) = closing
<1>1. PICK m : Span(t, <<>>, p, m) /\ Span(t, <<closing>>, m, q)
  BY DEF Ends
<1>2. p = m
  BY <1>1, SpanIs
<1>3. m \in Nat /\ q = m + 1 /\ m <= Len(t) /\ WordAt(t, m) = closing
  BY <1>1, SpanWords
<1> QED
  BY ONLY <1>2, <1>3

LEMMA EndsSplit ==
  ASSUME NEW t, NEW a \in Seq(Tokens), NEW b \in Seq(Tokens), NEW closing, NEW p, NEW q,
         Ends(t, a \o b, closing, p, q)
  PROVE  \E m : Span(t, a, p, m) /\ Ends(t, b, closing, m, q)
<1>1. PICK m : Span(t, a \o b, p, m) /\ Span(t, <<closing>>, m, q)
  BY DEF Ends
<1> QED
  BY <1>1, SpanSplit DEF Ends

\* Behind a phrase, whose list may be empty, comes a text, then the end.
LEMMA PhraseThere ==
  ASSUME NEW t, NEW words \in Seq(Tokens), NEW list \in Seq(Statements), NEW p, NEW m,
         Span(t, Phrase(words, list, Text), p, m)
  PROVE  \/ list = <<>> /\ p = m
         \/ list # <<>> /\ \E k : /\ Span(t, words, p, k)
                                  /\ Reads(t, "loop", <<>>, list, {}, k, m)
<1>1. CASE list = <<>>
  <2>1. Phrase(words, list, Text) = <<>>
    BY <1>1 DEF Phrase
  <2> QED
    BY <1>1, <2>1, SpanIs
<1>2. CASE list # <<>>
  <2>1. Phrase(words, list, Text) = words \o ListText(list, {}, Text)
    BY <1>2 DEF Phrase
  <2>2. ListText(list, {}, Text) \in Seq(Tokens)
    BY TextDefined, PiecesType
  <2>3. PICK k : Span(t, words, p, k) /\ Span(t, ListText(list, {}, Text), k, m)
    BY <2>1, <2>2, SpanSplit
  <2>4. Reads(t, "loop", <<>>, list, {}, k, m)
    BY <2>3, ReadingStarts
  <2> QED
    BY <1>2, <2>3, <2>4
<1> QED
  BY <1>1, <1>2

LEMMA SpanNothing ==
  ASSUME NEW t, NEW s, NEW p, NEW q, Span(t, s, p, q)
  PROVE  Span(t, <<>>, p, p) /\ Span(t, <<>>, q, q)
  BY DEF Span

LEMMA NoPhraseLeft ==
  ASSUME NEW t, NEW words, NEW closing, NEW p, NEW q,
         Ends(t, Phrase(words, <<>>, Text), closing, p, q)
  PROVE  Ends(t, <<>>, closing, p, q) /\ WordAt(t, p) = closing
<1>1. Ends(t, <<>>, closing, p, q)
  BY DEF Phrase
<1> QED
  BY <1>1, NothingLeft

LEMMA PhraseLeft ==
  ASSUME NEW t, NEW words \in Seq(Tokens), NEW list \in Seq(Statements), words # <<>>, list # <<>>,
         NEW closing, NEW p, NEW q, Ends(t, Phrase(words, list, Text), closing, p, q)
  PROVE  /\ WordAt(t, p) = words[1]
         /\ \E k, r : /\ Span(t, words, p, k) /\ Reads(t, "loop", <<>>, list, {}, k, r)
                      /\ Ends(t, <<>>, closing, r, q) /\ WordAt(t, r) = closing
<1>1. PICK m : Span(t, Phrase(words, list, Text), p, m) /\ Span(t, <<closing>>, m, q)
  BY DEF Ends
<1>2. Ends(t, <<>>, closing, m, q) /\ WordAt(t, m) = closing
  BY <1>1, SpanNothing, SpanWords DEF Ends
<1>3. PICK k : Span(t, words, p, k) /\ Reads(t, "loop", <<>>, list, {}, k, m)
  BY <1>1, PhraseThere
<1>4. WordAt(t, p) = words[1]
  BY <1>3, SpanIs
<1> QED
  BY <1>2, <1>3, <1>4

LEMMA PhraseWord ==
  ASSUME NEW t, NEW words \in Seq(Tokens), NEW list \in Seq(Statements), words # <<>>,
         NEW closing, NEW p, NEW q, Ends(t, Phrase(words, list, Text), closing, p, q)
  PROVE  WordAt(t, p) = closing \/ WordAt(t, p) = words[1]
<1>1. CASE list = <<>>
  BY <1>1, NoPhraseLeft
<1>2. CASE list # <<>>
  BY <1>2, PhraseLeft
<1> QED
  BY <1>1, <1>2

LEMMA ClausesLeft ==
  ASSUME NEW n \in Statements, n.stmt = "EVALUATE", NEW t, NEW k, NEW p, NEW q,
         Clauses(t, n, k, p, q)
  PROVE  /\ k \in Nat
         /\ \/ /\ k <= Len(n.parts[1]) /\ WordAt(t, p) = "WHEN" /\ p \in Nat /\ p <= Len(t)
               /\ n.parts[1][k] = Node("WHEN", <<n.parts[1][k].parts[1]>>)
               /\ \E r : /\ Reads(t, "loop", <<>>, n.parts[1][k].parts[1], {}, p + 1, r)
                         /\ Clauses(t, n, k + 1, r, q)
            \/ /\ k = Len(n.parts[1]) + 1
               /\ Ends(t, Phrase(<<"WHEN-OTHER">>, n.parts[2], Text), "END-EVALUATE", p, q)
<1>1. n.parts[1] \in Seq(WhensOver(Seq(Statements))) /\ Text \in Texts
  BY StatementIs, TextDefined
<1>2. PICK texts : /\ texts = WhenTexts(n.parts[1], Text) /\ texts \in Seq(Seq(Tokens))
                   /\ Len(texts) = Len(n.parts[1])
  BY <1>1, WhensType
<1>3. PICK m : /\ Row(t, texts, k, p, m)
               /\ Ends(t, Phrase(<<"WHEN-OTHER">>, n.parts[2], Text), "END-EVALUATE", m, q)
  BY <1>2 DEF Clauses
<1>4. k \in 1..(Len(texts) + 1) /\ Len(texts) \in Nat
  BY <1>2, <1>3 DEF Row
<1>5. CASE k = Len(texts) + 1
  <2>1. p = m
    BY <1>3, <1>5, RowEnd
  <2> QED
    BY <1>2, <1>3, <1>4, <1>5, <2>1
<1>6. CASE k <= Len(texts)
  <2>1. PICK x : Span(t, texts[k], p, x) /\ Row(t, texts, k + 1, x, m)
    BY <1>3, <1>6, RowFirst
  <2>2. k \in DOMAIN n.parts[1]
    BY <1>1, <1>2, <1>4, <1>6
  <2>3. PICK when, list : when = n.parts[1][k] /\ list = when.parts[1]
    OBVIOUS
  <2>4. /\ list \in Seq(Statements) /\ when = Node("WHEN", <<list>>)
        /\ ListText(list, {}, Text) \in Seq(Tokens)
    BY <1>1, <2>2, <2>3, WhensType
  <2>5. texts[k] = <<"WHEN">> \o ListText(list, {}, Text)
    BY <1>2, <2>2, <2>3 DEF WhenTexts, WhenText
  <2>6. PICK y : Span(t, <<"WHEN">>, p, y) /\ Span(t, ListText(list, {}, Text), y, x)
    BY <2>1, <2>4, <2>5, SpanSplit, PhrasesAre
  <2>7. y = p + 1 /\ p \in Nat /\ p <= Len(t) /\ WordAt(t, p) = "WHEN"
    BY <2>6, SpanWords
  <2>8. Reads(t, "loop", <<>>, list, {}, p + 1, x)
    BY <2>4, <2>6, <2>7, ReadingStarts
  <2>9. Clauses(t, n, k + 1, x, q)
    BY <1>2, <1>3, <2>1 DEF Clauses
  <2>10. k \in Nat /\ k <= Len(n.parts[1])
    BY <1>2, <1>4, <1>6
  <2> QED
    BY ONLY <2>3, <2>4, <2>7, <2>8, <2>9, <2>10
<1> QED
  BY <1>2, <1>4, <1>5, <1>6

----------------------------------------------------------------------------
(* A call, the statement it will return, and what of its text is to come.   *)

NoLists == <<<<>>, <<>>>>
WhenStop == {"WHEN", "WHEN-OTHER", "END-EVALUATE"}

\* A call of each kind reads a list of statement n, and from r up to q is what
\* comes behind it.
ParagraphBehind(t, stop, list, ends, n, r, q) ==
    /\ stop = ScopeTerminators
    /\ list = n.stmts /\ ends = n.ends /\ list # <<>> /\ Len(list) \in ends /\ q = r
    /\ \/ r = Len(t) + 1
       \/ WordAt(t, r) = "NAME" /\ WordAt(t, r + 1) = "PERIOD" /\ r < Len(t)

IfBehind(t, part, stop, parts, list, n, r, q) ==
    \/ /\ part = 1 /\ stop = {"ELSE", "END-IF"} /\ parts = NoLists /\ list = n.parts[1]
       /\ Ends(t, Phrase(<<"ELSE">>, n.parts[2], Text), "END-IF", r, q)
    \/ /\ part = 2 /\ stop = {"END-IF"} /\ parts = <<n.parts[1], <<>>>> /\ list = n.parts[2]
       /\ Ends(t, <<>>, "END-IF", r, q)

LoopBehind(t, stop, list, n, r, q) ==
    /\ stop = ScopeTerminators /\ list = n.parts[1]
    /\ Ends(t, <<>>, "END-PERFORM", r, q)

EvaluateBehind(t, part, stop, parts, list, n, r, q) ==
    /\ stop = WhenStop
    /\ \/ /\ part = 1
          /\ \E whens : /\ parts = <<whens, <<>>>> /\ Prefix(whens, n.parts[1])
                        /\ Len(whens) < Len(n.parts[1])
                        /\ list = n.parts[1][Len(whens) + 1].parts[1]
                        /\ Clauses(t, n, Len(whens) + 1 + 1, r, q)
       \/ /\ part = 2 /\ parts = <<n.parts[1], <<>>>> /\ list = n.parts[2]
          /\ Ends(t, <<>>, "END-EVALUATE", r, q)

StringBehind(t, part, stop, parts, list, n, r, q) ==
    /\ stop = {"END-STRING"} /\ Ends(t, <<>>, "END-STRING", r, q)
    /\ \/ part = 1 /\ parts = NoLists /\ list = n.parts[1] /\ n.parts[2] = <<>>
       \/ part = 2 /\ parts = <<n.parts[1], <<>>>> /\ list = n.parts[2]

GetBehind(t, part, stop, parts, list, n, r, q) ==
    \/ /\ part = 1 /\ stop = {"NOT", "END-HTTP"} /\ parts = NoLists /\ list = n.parts[1]
       /\ Ends(t, Phrase(NotException, n.parts[2], Text), "END-HTTP", r, q)
    \/ /\ part = 2 /\ stop = {"END-HTTP"} /\ parts = <<n.parts[1], <<>>>> /\ list = n.parts[2]
       /\ Ends(t, <<>>, "END-HTTP", r, q)

OtherHttpBehind(t, part, stop, parts, list, n, r, q) ==
    \/ /\ part = 2 /\ stop = {"ON", "END-HTTP"} /\ parts = NoLists /\ list = n.parts[2]
       /\ Ends(t, Phrase(OnException, n.parts[1], Text), "END-HTTP", r, q)
    \/ /\ part = 1 /\ stop = {"NOT", "END-HTTP"} /\ parts = <<<<>>, n.parts[2]>>
       /\ list = n.parts[1] /\ Ends(t, <<>>, "END-HTTP", r, q)

BlockBehind(t, kind, part, stop, parts, list, n, r, q) ==
    \/ kind = "IF" /\ IfBehind(t, part, stop, parts, list, n, r, q)
    \/ kind = "PERFORM" /\ LoopBehind(t, stop, list, n, r, q)
    \/ kind = "EVALUATE" /\ EvaluateBehind(t, part, stop, parts, list, n, r, q)
    \/ kind = "STRING" /\ StringBehind(t, part, stop, parts, list, n, r, q)
    \/ kind = "HTTP-GET" /\ GetBehind(t, part, stop, parts, list, n, r, q)
    \/ kind \in HttpVerbs \ {"HTTP-GET"} /\ OtherHttpBehind(t, part, stop, parts, list, n, r, q)

Behind(t, kind, part, stop, parts, list, ends, n, r, q) ==
    \/ kind = "PARAGRAPH" /\ ParagraphBehind(t, stop, list, ends, n, r, q)
    \/ /\ ends = {} /\ n.stmt = kind /\ WordAt(t, r) \in stop
       /\ BlockBehind(t, kind, part, stop, parts, list, n, r, q)

\* A call of each kind is between two lists of n, or behind the last one.
EvaluateBetween(t, parts, n, p, q) ==
    \/ \E whens : /\ parts = <<whens, <<>>>> /\ Prefix(whens, n.parts[1])
                  /\ Clauses(t, n, Len(whens) + 1, p, q)
    \/ parts = n.parts /\ Ends(t, <<>>, "END-EVALUATE", p, q)

StringBetween(t, part, parts, n, p, q) ==
    \/ /\ part = 0 /\ parts = NoLists
       /\ Ends(t, Phrase(OverflowPhrase(1), n.parts[1], Text)
                  \o Phrase(OverflowPhrase(2), n.parts[2], Text), "END-STRING", p, q)
    \/ /\ part = 1 /\ parts = <<n.parts[1], <<>>>>
       /\ Ends(t, Phrase(OverflowPhrase(2), n.parts[2], Text), "END-STRING", p, q)
    \/ part = 2 /\ parts = n.parts /\ Ends(t, <<>>, "END-STRING", p, q)

GetBetween(t, at, parts, n, p, q) ==
    \/ at = "clauses" /\ parts = NoLists /\ Ends(t, GetText(n.parts, Text), "END-HTTP", p, q)
    \/ /\ at = "not" /\ parts = <<n.parts[1], <<>>>>
       /\ Ends(t, Phrase(NotException, n.parts[2], Text), "END-HTTP", p, q)
    \/ at = "clauses" /\ parts = n.parts /\ Ends(t, <<>>, "END-HTTP", p, q)

OtherHttpBetween(t, at, parts, n, p, q) ==
    \/ /\ at = "clauses" /\ parts = NoLists
       /\ Ends(t, Phrase(NotOnException, n.parts[2], Text)
                  \o Phrase(OnException, n.parts[1], Text), "END-HTTP", p, q)
    \/ /\ at = "clauses" /\ parts = <<<<>>, n.parts[2]>>
       /\ Ends(t, Phrase(OnException, n.parts[1], Text), "END-HTTP", p, q)
    \/ at \in {"not", "clauses"} /\ parts = n.parts /\ Ends(t, <<>>, "END-HTTP", p, q)

Between(t, kind, at, part, body, parts, n, p, q) ==
    /\ n.stmt = kind
    /\ \/ kind = "PERFORM" /\ at = "end" /\ body = n.parts[1] /\ p = q
       \/ kind = "EVALUATE" /\ at = "clauses" /\ EvaluateBetween(t, parts, n, p, q)
       \/ kind = "STRING" /\ at = "clauses" /\ StringBetween(t, part, parts, n, p, q)
       \/ kind = "HTTP-GET" /\ GetBetween(t, at, parts, n, p, q)
       \/ kind \in HttpVerbs \ {"HTTP-GET"} /\ OtherHttpBetween(t, at, parts, n, p, q)

\* The call f has read n, a statement or a paragraph, up to p, and n ends at q.
InListOf(t, f, n, p, q) ==
    /\ ~(f.kind = "PERFORM" /\ f.at = "end")
    /\ \E list, ends, r : /\ Reads(t, f.at, f.body, list, ends, p, r)
                          /\ Behind(t, f.kind, f.part, f.stop, f.parts, list, ends, n, r, q)
Reading(t, f, n, p, q) ==
    \/ InListOf(t, f, n, p, q)
    \/ Between(t, f.kind, f.at, f.part, f.body, f.parts, n, p, q)

----------------------------------------------------------------------------
(* All calls that are under way.                                            *)

ParagraphTexts(src) == [i \in DOMAIN src |-> ParagraphText(src[i], Text)]

\* Each call but the last one goes on behind the statement that is being read
\* in its list.
Chain(t, s, nodes, fins, p) ==
    /\ \A i \in 2..(Len(s) - 1) :
          Reading(t, Added(s[i], nodes[i + 1]), nodes[i], fins[i + 1], fins[i])
    /\ \A i \in 3..Len(s) : nodes[i] \in Statements
    /\ Reading(t, s[Len(s)], nodes[Len(s)], p, fins[Len(s)])

InParagraph(t, src, s, p) ==
    \E nodes, fins :
        /\ Chain(t, s, nodes, fins, p)
        /\ Len(s[1].body) < Len(src) /\ nodes[2] = src[Len(s[1].body) + 1]
        /\ Row(t, ParagraphTexts(src), Len(s[1].body) + 2, fins[2], Len(t) + 1)

\* The parser has read the text t of the program src up to p.
Follows(t, src, s, p, e, c) ==
    /\ e = 0 /\ Prefix(s[1].body, AstOf(src))
    /\ c = "parse" /\ Len(s) = 1 => Row(t, ParagraphTexts(src), Len(s[1].body) + 1, p, Len(t) + 1)
    /\ c = "parse" /\ Len(s) > 1 => InParagraph(t, src, s, p)
    /\ c # "parse" => p = Len(t) + 1 /\ s[1].body = AstOf(src)

\* What a step of the call on top, which reads n up to q, may do.
MayGoOn(t, src, s, n, q) ==
    \A f, p : Reading(t, f, n, p, q) =>
        Follows(t, src, [s EXCEPT ![Len(s)] = f], p, 0, "parse")
MayCall(t, src, s, n, q) ==
    \A f, p, inner, m :
        inner \in Statements /\ Reading(t, Added(s[Len(s)], inner), n, m, q)
        /\ Reading(t, f, inner, p, m) => Follows(t, src, Append(s, f), p, 0, "parse")
MayReturn(t, src, s, n, q) ==
    Len(s) > 2 => n \in Statements
                  /\ Follows(t, src, AddTo(SubSeq(s, 1, Len(s) - 1), n), q, 0, "parse")

LEMMA ChainFollows ==
  ASSUME NEW t, NEW src, NEW s, NEW p, NEW nodes, NEW fins, Chain(t, s, nodes, fins, p),
         NEW body, s[1].body = body, Len(s) > 1, Len(s) # 1, Prefix(body, AstOf(src)),
         Len(body) < Len(src), nodes[2] = src[Len(body) + 1],
         Row(t, ParagraphTexts(src), Len(body) + 2, fins[2], Len(t) + 1)
  PROVE  Follows(t, src, s, p, 0, "parse")
<1>1. InParagraph(t, src, s, p)
  BY Zenon DEF InParagraph
<1> QED
  BY ONLY <1>1, s[1].body = body, Len(s) # 1, Prefix(body, AstOf(src)) DEF Follows

LEMMA OnTop ==
  ASSUME NEW t, NEW src, NEW s, AreCalls(s), Len(s) > 1, NEW p, Follows(t, src, s, p, 0, "parse")
  PROVE  \E n, q : /\ Reading(t, s[Len(s)], n, p, q)
                   /\ MayGoOn(t, src, s, n, q) /\ MayCall(t, src, s, n, q)
                   /\ MayReturn(t, src, s, n, q)
<1>1. PICK l \in Nat : l = Len(s) /\ l > 1
  BY SeqIs DEF AreCalls, IsSeq
<1>2. InParagraph(t, src, s, p)
  BY Zenon DEF Follows
<1>3. PICK nodes, fins, body :
        /\ Chain(t, s, nodes, fins, p) /\ body = s[1].body
        /\ Len(body) < Len(src) /\ nodes[2] = src[Len(body) + 1]
        /\ Row(t, ParagraphTexts(src), Len(body) + 2, fins[2], Len(t) + 1)
  BY <1>2, Zenon DEF InParagraph
<1>4. Prefix(body, AstOf(src))
  BY <1>3, Zenon DEF Follows
<1>5. /\ \A i \in 2..(l - 1) :
            Reading(t, Added(s[i], nodes[i + 1]), nodes[i], fins[i + 1], fins[i])
      /\ \A i \in 3..l : nodes[i] \in Statements
      /\ Reading(t, s[l], nodes[l], p, fins[l])
  BY ONLY <1>1, <1>3 DEF Chain
<1>6. IsSeq(s) /\ Len(s) > 0
  BY DEF AreCalls
<1>7. MayGoOn(t, src, s, nodes[l], fins[l])
  <2> SUFFICES ASSUME NEW f, NEW p2, Reading(t, f, nodes[l], p2, fins[l])
               PROVE  Follows(t, src, [s EXCEPT ![l] = f], p2, 0, "parse")
    BY <1>1 DEF MayGoOn
  <2>1. PICK s2 : s2 = [s EXCEPT ![l] = f]
    OBVIOUS
  <2>2. Len(s2) = l /\ s2[l] = f /\ \A i \in 1..(l - 1) : s2[i] = s[i]
    BY <1>1, <1>6, <2>1, ExceptLast
  <2>3. \A i \in 2..(l - 1) : i \in 1..(l - 1)
    BY ONLY l \in Nat
  <2>4. Chain(t, s2, nodes, fins, p2)
    <3>1. \A i \in 2..(l - 1) :
             Reading(t, Added(s2[i], nodes[i + 1]), nodes[i], fins[i + 1], fins[i])
      BY ONLY <1>5, <2>2, <2>3
    <3>2. Reading(t, s2[l], nodes[l], p2, fins[l])
      BY <2>2
    <3> QED
      BY ONLY <1>5, <2>2, <3>1, <3>2 DEF Chain
  <2>5. s2[1].body = body /\ Len(s2) > 1 /\ Len(s2) # 1
    <3>1. 1 \in 1..(l - 1) /\ l # 1
      BY ONLY <1>1
    <3> QED
      BY ONLY <1>1, <1>3, <2>2, <3>1
  <2> QED
    BY <1>3, <1>4, <2>1, <2>4, <2>5, ChainFollows
<1>8. MayCall(t, src, s, nodes[l], fins[l])
  <2> SUFFICES ASSUME NEW f, NEW p2, NEW inner, NEW m, inner \in Statements,
                      Reading(t, Added(s[l], inner), nodes[l], m, fins[l]),
                      Reading(t, f, inner, p2, m)
               PROVE  Follows(t, src, Append(s, f), p2, 0, "parse")
    BY <1>1 DEF MayCall
  <2>1. PICK s2 : s2 = Append(s, f)
    OBVIOUS
  <2>2. Len(s2) = l + 1 /\ s2[l + 1] = f /\ \A i \in 1..l : s2[i] = s[i]
    BY <1>1, <1>6, <2>1, AppendSeq
  <2>3. PICK nodes2, fins2 : /\ nodes2 = [i \in 2..(l + 1) |-> IF i = l + 1 THEN inner ELSE nodes[i]]
                             /\ fins2 = [i \in 2..(l + 1) |-> IF i = l + 1 THEN m ELSE fins[i]]
    OBVIOUS
  <2>4. \A i \in 2..l : nodes2[i] = nodes[i] /\ fins2[i] = fins[i]
    BY ONLY <2>3, l \in Nat
  <2>5. nodes2[l + 1] = inner /\ fins2[l + 1] = m
    <3>1. l + 1 \in 2..(l + 1)
      BY ONLY <1>1
    <3> QED
      BY ONLY <2>3, <3>1
  <2>6. Chain(t, s2, nodes2, fins2, p2)
    <3>1. ASSUME NEW i \in 2..l
          PROVE  Reading(t, Added(s2[i], nodes2[i + 1]), nodes2[i], fins2[i + 1], fins2[i])
      <4>1. CASE i = l
        <5>1. l \in 2..l /\ l \in 1..l
          BY ONLY <1>1
        <5> QED
          BY ONLY <2>2, <2>4, <2>5, <4>1, <5>1, Reading(t, Added(s[l], inner), nodes[l], m, fins[l])
      <4>2. CASE i # l
        <5>1. i \in 2..(l - 1) /\ i + 1 \in 2..l /\ i \in 1..l
          BY ONLY <4>2, l \in Nat, i \in 2..l
        <5> QED
          BY ONLY <1>5, <2>2, <2>4, <5>1, i \in 2..l
      <4> QED
        BY <4>1, <4>2
    <3>2. \A i \in 3..(l + 1) : nodes2[i] \in Statements
      <4>1. \A i \in 3..(l + 1) : i = l + 1 \/ (i \in 3..l /\ i \in 2..l)
        BY ONLY l \in Nat
      <4> QED
        BY ONLY <1>5, <2>4, <2>5, <4>1, inner \in Statements
    <3>3. Reading(t, s2[l + 1], nodes2[l + 1], p2, fins2[l + 1])
      BY <2>2, <2>5
    <3>4. l + 1 - 1 = l
      OBVIOUS
    <3> QED
      BY ONLY <2>2, <3>1, <3>2, <3>3, <3>4 DEF Chain
  <2>7. s2[1].body = body /\ Len(s2) > 1 /\ Len(s2) # 1 /\ nodes2[2] = nodes[2] /\ fins2[2] = fins[2]
    <3>1. 1 \in 1..l /\ l + 1 # 1 /\ l + 1 > 1 /\ 2 \in 2..l
      BY ONLY <1>1
    <3> QED
      BY ONLY <1>3, <2>2, <2>4, <3>1
  <2> QED
    BY <1>3, <1>4, <2>1, <2>6, <2>7, ChainFollows
<1>9. MayReturn(t, src, s, nodes[l], fins[l])
  <2> SUFFICES ASSUME l > 2
               PROVE  nodes[l] \in Statements
                      /\ Follows(t, src, AddTo(SubSeq(s, 1, l - 1), nodes[l]), fins[l], 0, "parse")
    BY <1>1 DEF MayReturn
  <2>1. PICK k \in Nat : k = l - 1 /\ l = k + 1 /\ k > 1 /\ k > 0 /\ k # 1
    BY ONLY <1>1, l > 2
  <2>2. PICK pop : pop = SubSeq(s, 1, l - 1)
    OBVIOUS
  <2>3. IsSeq(pop) /\ Len(pop) = k /\ \A i \in 1..k : pop[i] = s[i]
    BY <1>1, <1>6, <2>1, <2>2, SubSeqSeq
  <2>4. pop[k] = s[k] /\ IsFrame(s[k])
    <3>1. k \in 1..k /\ k \in 1..l
      BY ONLY <2>1
    <3> QED
      BY <1>1, <2>3, <3>1 DEF AreCalls
  <2>5. PICK s2 : s2 = AddTo(pop, nodes[l])
    OBVIOUS
  <2>6. s2 = [pop EXCEPT ![k] = Added(s[k], nodes[l])]
    BY <2>1, <2>3, <2>4, <2>5, AddToIs
  <2>7. Len(s2) = k /\ s2[k] = Added(s[k], nodes[l]) /\ \A i \in 1..(k - 1) : s2[i] = s[i]
    <3>1. \A i \in 1..(k - 1) : i \in 1..k
      BY ONLY k \in Nat
    <3>2. PICK added : added = Added(s[k], nodes[l])
      OBVIOUS
    <3>3. s2 = [pop EXCEPT ![Len(pop)] = added] /\ IsSeq(pop) /\ Len(pop) > 0
      BY <2>1, <2>3, <2>6, <3>2
    <3>4. Len(s2) = Len(pop) /\ s2[Len(pop)] = added /\ \A i \in 1..(Len(pop) - 1) : s2[i] = pop[i]
      BY ONLY <3>3, ExceptLast
    <3> QED
      BY ONLY <2>3, <3>1, <3>2, <3>4
  <2>8. Chain(t, s2, nodes, fins, fins[l])
    <3>1. \A i \in 2..(k - 1) :
             Reading(t, Added(s2[i], nodes[i + 1]), nodes[i], fins[i + 1], fins[i])
      <4>1. \A i \in 2..(k - 1) : i \in 2..(l - 1) /\ i \in 1..(k - 1)
        BY ONLY <2>1, k \in Nat
      <4> QED
        BY ONLY <1>5, <2>7, <4>1
    <3>2. \A i \in 3..k : i \in 3..l
      BY ONLY <2>1, k \in Nat
    <3>3. Reading(t, s2[k], nodes[k], fins[l], fins[k])
      <4>1. k \in 2..(l - 1)
        BY ONLY <2>1
      <4> QED
        BY ONLY <1>5, <2>1, <2>7, <4>1
    <3> QED
      BY ONLY <1>5, <2>7, <3>1, <3>2, <3>3 DEF Chain
  <2>9. s2[1].body = body /\ Len(s2) > 1 /\ Len(s2) # 1
    <3>1. 1 \in 1..(k - 1)
      BY ONLY <2>1
    <3> QED
      BY ONLY <1>3, <2>1, <2>7, <3>1
  <2>10. l \in 3..l
    BY ONLY l \in Nat, l > 2
  <2> QED
    BY <1>3, <1>4, <1>5, <2>2, <2>5, <2>8, <2>9, <2>10, ChainFollows
<1> QED
  BY <1>1, <1>5, <1>7, <1>8, <1>9

----------------------------------------------------------------------------
(* A call begins.                                                           *)

LEMMA FieldsOf ==
  ASSUME NEW kind, NEW at, NEW part, NEW stop, NEW body, NEW parts
  PROVE  LET f == Fields(kind, at, part, stop, body, parts)
         IN  /\ f.kind = kind /\ f.at = at /\ f.part = part /\ f.stop = stop
             /\ f.body = body /\ f.parts = parts
  BY DEF Fields

LEMMA InListReads ==
  ASSUME NEW kind, NEW at, NEW part, NEW stop, NEW body, NEW parts, NEW t, NEW list, NEW ends,
         NEW n, NEW p, NEW r, NEW q, ~(kind = "PERFORM" /\ at = "end"),
         Reads(t, at, body, list, ends, p, r),
         Behind(t, kind, part, stop, parts, list, ends, n, r, q)
  PROVE  Reading(t, Fields(kind, at, part, stop, body, parts), n, p, q)
<1>1. PICK f : f = Fields(kind, at, part, stop, body, parts)
  OBVIOUS
<1>2. /\ f.kind = kind /\ f.at = at /\ f.part = part /\ f.stop = stop
      /\ f.body = body /\ f.parts = parts
  BY <1>1, FieldsOf
<1>3. /\ Reads(t, f.at, f.body, list, ends, p, r)
      /\ Behind(t, f.kind, f.part, f.stop, f.parts, list, ends, n, r, q)
  BY <1>2
<1>4. InListOf(t, f, n, p, q)
  BY <1>2, <1>3, Zenon DEF InListOf
<1> QED
  BY <1>1, <1>4 DEF Reading

LEMMA BetweenReads ==
  ASSUME NEW kind, NEW at, NEW part, NEW stop, NEW body, NEW parts, NEW t, NEW n, NEW p, NEW q,
         Between(t, kind, at, part, body, parts, n, p, q)
  PROVE  Reading(t, Fields(kind, at, part, stop, body, parts), n, p, q)
<1>1. PICK f : f = Fields(kind, at, part, stop, body, parts)
  OBVIOUS
<1>2. /\ f.kind = kind /\ f.at = at /\ f.part = part /\ f.stop = stop
      /\ f.body = body /\ f.parts = parts
  BY <1>1, FieldsOf
<1>3. Between(t, f.kind, f.at, f.part, f.body, f.parts, n, p, q)
  BY <1>2
<1> QED
  BY <1>1, <1>3 DEF Reading

\* In the text of a statement, what is behind its first word.
LEMMA InsideText ==
  ASSUME NEW s \in Statements, NEW t, NEW p, NEW m, Span(t, Text[s], p, m),
         NEW closing \in Tokens, Closing(s.stmt) = <<closing>>
  PROVE  Ends(t, Inside(s, Text), closing, p + 1, m)
<1>1. Span(t, Inside(s, Text) \o Closing(s.stmt), p + 1, m)
  BY StatementBegins
<1>2. Inside(s, Text) \in Seq(Tokens) /\ Closing(s.stmt) \in Seq(Tokens)
  BY OneTextType, TextDefined
<1> QED
  BY <1>1, <1>2, SpanSplit DEF Ends

LEMMA ClosingsAre ==
  /\ Closing("IF") = <<"END-IF">> /\ Closing("PERFORM") = <<"END-PERFORM">>
  /\ Closing("EVALUATE") = <<"END-EVALUATE">> /\ Closing("STRING") = <<"END-STRING">>
  /\ \A kind \in HttpVerbs : Closing(kind) = <<"END-HTTP">>
  BY ListsAre DEF Closing

LEMMA ListsOfBlock ==
  ASSUME NEW s \in Statements
  PROVE  /\ s.stmt \in {"PERFORM", "IF", "STRING"} \cup HttpVerbs => s.parts[1] \in Seq(Statements)
         /\ s.stmt \in {"IF", "STRING", "EVALUATE"} \cup HttpVerbs => s.parts[2] \in Seq(Statements)
         /\ s.stmt \in {"IF", "STRING", "EVALUATE"} \cup HttpVerbs =>
               s.parts = <<s.parts[1], s.parts[2]>>
         /\ s.stmt = "PERFORM" => s.parts = <<s.parts[1]>>
         /\ s = Node(s.stmt, s.parts)
<1>1. CASE s.stmt = "PERFORM"
  BY <1>1, StatementIs, PartsAre, ListsAre
<1>2. CASE s.stmt \in {"IF", "STRING"} \cup HttpVerbs
  <2>1. s.parts \in TwoOf(Seq(Statements)) /\ s = Node(s.stmt, s.parts)
    BY <1>2, StatementIs
  <2>2. /\ s.parts[1] \in Seq(Statements) /\ s.parts[2] \in Seq(Statements)
        /\ s.parts = <<s.parts[1], s.parts[2]>>
    BY <2>1, PartsAre
  <2>3. s.stmt # "PERFORM"
    BY <1>2, ListsAre
  <2> QED
    BY ONLY <2>1, <2>2, <2>3
<1>3. CASE s.stmt = "EVALUATE"
  BY <1>3, StatementIs, ListsAre
<1> QED
  BY <1>1, <1>2, <1>3, StatementIs

LEMMA IfBegins ==
  ASSUME NEW s \in Statements, s.stmt = "IF", NEW t, NEW p, NEW m, Span(t, Text[s], p, m)
  PROVE  Reading(t, Fields("IF", "loop", 1, {"ELSE", "END-IF"}, <<>>, NoLists), s, p + 1, m)
<1>1. s.parts[1] \in Seq(Statements) /\ s.parts[2] \in Seq(Statements)
  BY ListsOfBlock
<1>2. PICK then, else : /\ then = ListText(s.parts[1], {}, Text)
                        /\ else = Phrase(<<"ELSE">>, s.parts[2], Text)
  OBVIOUS
<1>3. then \in Seq(Tokens) /\ else \in Seq(Tokens)
  BY <1>1, <1>2, PiecesType, PhraseType, PhrasesAre, TextDefined
<1>4. Inside(s, Text) = then \o else
  BY <1>2, InsideIs
<1>5. Ends(t, then \o else, "END-IF", p + 1, m)
  BY <1>4, ClosingsAre, InsideText, WordsAre
<1>6. PICK r : Span(t, then, p + 1, r) /\ Ends(t, else, "END-IF", r, m)
  BY <1>3, <1>5, EndsSplit
<1>7. Reads(t, "loop", <<>>, s.parts[1], {}, p + 1, r)
  BY <1>1, <1>2, <1>6, ReadingStarts
<1>8. WordAt(t, r) \in {"ELSE", "END-IF"}
  <2>1. <<"ELSE">>[1] = "ELSE" /\ <<"ELSE">> # <<>>
    OBVIOUS
  <2>2. Ends(t, Phrase(<<"ELSE">>, s.parts[2], Text), "END-IF", r, m)
    BY <1>2, <1>6
  <2>3. WordAt(t, r) = "END-IF" \/ WordAt(t, r) = <<"ELSE">>[1]
    BY <1>1, <2>1, <2>2, PhraseWord, PhrasesAre
  <2> QED
    BY ONLY <2>1, <2>3
<1>9. IfBehind(t, 1, {"ELSE", "END-IF"}, NoLists, s.parts[1], s, r, m)
  BY <1>2, <1>6 DEF IfBehind
<1>10. Behind(t, "IF", 1, {"ELSE", "END-IF"}, NoLists, s.parts[1], {}, s, r, m)
  BY <1>8, <1>9 DEF Behind, BlockBehind
<1> QED
  BY <1>7, <1>10, InListReads

LEMMA LoopBegins ==
  ASSUME NEW s \in Statements, s.stmt = "PERFORM", NEW t, NEW p, NEW m, Span(t, Text[s], p, m)
  PROVE  Reading(t, Fields("PERFORM", "loop", 1, ScopeTerminators, <<>>, <<<<>>>>), s, p + 1, m)
<1>1. s.parts[1] \in Seq(Statements)
  BY ListsOfBlock
<1>2. Inside(s, Text) = ListText(s.parts[1], {}, Text)
  BY InsideIs
<1>3. Ends(t, ListText(s.parts[1], {}, Text), "END-PERFORM", p + 1, m)
  BY <1>2, ClosingsAre, InsideText, WordsAre
<1>4. PICK r : Span(t, ListText(s.parts[1], {}, Text), p + 1, r) /\ Span(t, <<"END-PERFORM">>, r, m)
  BY <1>3 DEF Ends
<1>5. Reads(t, "loop", <<>>, s.parts[1], {}, p + 1, r)
  BY <1>1, <1>4, ReadingStarts
<1>6. WordAt(t, r) \in ScopeTerminators
  BY <1>4, SpanWords DEF ScopeTerminators
<1>7. LoopBehind(t, ScopeTerminators, s.parts[1], s, r, m)
  <2>1. Span(t, <<>>, r, r)
    BY <1>4, SpanNothing
  <2> QED
    BY <1>4, <2>1 DEF LoopBehind, Ends
<1>8. Behind(t, "PERFORM", 1, ScopeTerminators, <<<<>>>>, s.parts[1], {}, s, r, m)
  BY <1>6, <1>7 DEF Behind, BlockBehind
<1> QED
  BY <1>5, <1>8, InListReads

LEMMA EvaluateBegins ==
  ASSUME NEW s \in Statements, s.stmt = "EVALUATE", NEW t, NEW p, NEW m, Span(t, Text[s], p, m)
  PROVE  Reading(t, Fields("EVALUATE", "clauses", 0, {}, <<>>, NoLists), s, p + 1, m)
<1>1. /\ s.parts[1] \in Seq(WhensOver(Seq(Statements))) /\ s.parts[2] \in Seq(Statements)
      /\ Text \in Texts
  BY StatementIs, TextDefined
<1>2. PICK whens, other : /\ whens = WhenTexts(s.parts[1], Text)
                          /\ other = Phrase(<<"WHEN-OTHER">>, s.parts[2], Text)
  OBVIOUS
<1>3. whens \in Seq(Seq(Tokens)) /\ FlattenSeq(whens) \in Seq(Tokens) /\ other \in Seq(Tokens)
  BY <1>1, <1>2, WhensType, PhraseType, PhrasesAre
<1>4. Inside(s, Text) = FlattenSeq(whens) \o other
  BY <1>2, InsideIs
<1>5. Ends(t, FlattenSeq(whens) \o other, "END-EVALUATE", p + 1, m)
  BY <1>4, ClosingsAre, InsideText, WordsAre
<1>6. PICK r : Span(t, FlattenSeq(whens), p + 1, r) /\ Ends(t, other, "END-EVALUATE", r, m)
  BY <1>3, <1>5, EndsSplit
<1>7. Row(t, whens, 1, p + 1, r)
  BY <1>3, <1>6, RowOf
<1>8. Clauses(t, s, 1, p + 1, m)
  BY <1>2, <1>6, <1>7 DEF Clauses
<1>9. Prefix(<<>>, s.parts[1]) /\ Len(<<>>) + 1 = 1
  BY <1>1, SeqIs, PrefixStart
<1>10. EvaluateBetween(t, NoLists, s, p + 1, m)
  BY <1>8, <1>9 DEF EvaluateBetween, NoLists
<1>11. Between(t, "EVALUATE", "clauses", 0, <<>>, NoLists, s, p + 1, m)
  BY <1>10 DEF Between
<1> QED
  BY <1>11, BetweenReads

LEMMA StringBegins ==
  ASSUME NEW s \in Statements, s.stmt = "STRING", NEW t, NEW p, NEW m, Span(t, Text[s], p, m)
  PROVE  Reading(t, Fields("STRING", "clauses", 0, {}, <<>>, NoLists), s, p + 1, m)
<1>1. Ends(t, Inside(s, Text), "END-STRING", p + 1, m)
  BY ClosingsAre, InsideText, WordsAre
<1>2. Inside(s, Text) = Phrase(OverflowPhrase(1), s.parts[1], Text)
                        \o Phrase(OverflowPhrase(2), s.parts[2], Text)
  BY InsideIs
<1>3. StringBetween(t, 0, NoLists, s, p + 1, m)
  BY <1>1, <1>2 DEF StringBetween
<1>4. Between(t, "STRING", "clauses", 0, <<>>, NoLists, s, p + 1, m)
  BY <1>3 DEF Between
<1> QED
  BY <1>4, BetweenReads

LEMMA GetBegins ==
  ASSUME NEW s \in Statements, s.stmt = "HTTP-GET", NEW t, NEW p, NEW m, Span(t, Text[s], p, m)
  PROVE  Reading(t, Fields("HTTP-GET", "clauses", 0, {}, <<>>, NoLists), s, p + 1, m)
<1>1. Ends(t, Inside(s, Text), "END-HTTP", p + 1, m)
  BY ClosingsAre, InsideText, WordsAre, ListsAre
<1>2. Inside(s, Text) = GetText(s.parts, Text)
  BY InsideIs
<1>3. GetBetween(t, "clauses", NoLists, s, p + 1, m)
  BY <1>1, <1>2 DEF GetBetween
<1>4. Between(t, "HTTP-GET", "clauses", 0, <<>>, NoLists, s, p + 1, m)
  BY <1>3 DEF Between
<1> QED
  BY <1>4, BetweenReads

LEMMA OtherHttpBegins ==
  ASSUME NEW s \in Statements, NEW kind \in HttpVerbs \ {"HTTP-GET"}, s.stmt = kind,
         NEW t, NEW p, NEW m, Span(t, Text[s], p, m)
  PROVE  Reading(t, Fields(kind, "clauses", 0, {}, <<>>, NoLists), s, p + 1, m)
<1>1. Ends(t, Inside(s, Text), "END-HTTP", p + 1, m)
  BY ClosingsAre, InsideText, WordsAre, ListsAre
<1>2. Inside(s, Text) = Phrase(NotOnException, s.parts[2], Text)
                        \o Phrase(OnException, s.parts[1], Text)
  BY InsideIs
<1>3. OtherHttpBetween(t, "clauses", NoLists, s, p + 1, m)
  BY <1>1, <1>2 DEF OtherHttpBetween
<1>4. Between(t, kind, "clauses", 0, <<>>, NoLists, s, p + 1, m)
  BY <1>3 DEF Between
<1> QED
  BY <1>4, BetweenReads

\* The call for a statement begins as its text does.
BlockFrame(kind) ==
    CASE kind = "IF" -> Frame("IF", "loop", {"ELSE", "END-IF"}, <<<<>>, <<>>>>)
      [] kind = "PERFORM" -> Frame("PERFORM", "loop", ScopeTerminators, <<<<>>>>)
      [] OTHER -> [Frame(kind, "clauses", {}, <<<<>>, <<>>>>) EXCEPT !.part = 0]

LEMMA BlockFrames ==
  /\ BlockFrame("IF") = Fields("IF", "loop", 1, {"ELSE", "END-IF"}, <<>>, NoLists)
  /\ BlockFrame("PERFORM") = Fields("PERFORM", "loop", 1, ScopeTerminators, <<>>, <<<<>>>>)
  /\ \A kind \in Blocks \ {"IF", "PERFORM"} :
        BlockFrame(kind) = Fields(kind, "clauses", 0, {}, <<>>, NoLists)
<1>1. BlockFrame("IF") = Fields("IF", "loop", 1, {"ELSE", "END-IF"}, <<>>, NoLists)
  BY DEF BlockFrame, Frame, Fields, NoLists
<1>2. BlockFrame("PERFORM") = Fields("PERFORM", "loop", 1, ScopeTerminators, <<>>, <<<<>>>>)
  BY DEF BlockFrame, Frame, Fields
<1>3. ASSUME NEW kind \in Blocks \ {"IF", "PERFORM"}
      PROVE  BlockFrame(kind) = Fields(kind, "clauses", 0, {}, <<>>, NoLists)
  BY <1>3 DEF BlockFrame, Frame, Fields, NoLists
<1> QED
  BY <1>1, <1>2, <1>3

LEMMA BlockBegins ==
  ASSUME NEW s \in Statements, s.stmt \in Blocks, NEW t, NEW p, NEW m, Span(t, Text[s], p, m)
  PROVE  Reading(t, BlockFrame(s.stmt), s, p + 1, m)
<1>1. CASE s.stmt = "IF"
  BY <1>1, IfBegins, BlockFrames
<1>2. CASE s.stmt = "PERFORM"
  BY <1>2, LoopBegins, BlockFrames
<1>3. CASE s.stmt \in Blocks \ {"IF", "PERFORM"}
  <2>1. BlockFrame(s.stmt) = Fields(s.stmt, "clauses", 0, {}, <<>>, NoLists)
    BY <1>3, BlockFrames
  <2>2. CASE s.stmt = "EVALUATE"
    BY <2>1, <2>2, EvaluateBegins
  <2>3. CASE s.stmt = "STRING"
    BY <2>1, <2>3, StringBegins
  <2>4. CASE s.stmt = "HTTP-GET"
    BY <2>1, <2>4, GetBegins
  <2>5. CASE s.stmt \in HttpVerbs \ {"HTTP-GET"}
    BY <2>1, <2>5, OtherHttpBegins
  <2> QED
    BY <1>3, <2>2, <2>3, <2>4, <2>5, ListsAre
<1> QED
  BY <1>1, <1>2, <1>3

----------------------------------------------------------------------------
(* Reading the statements of a list.                                        *)

Situation(t, src) ==
    ParseInv /\ tokens = t /\ Follows(t, src, stack, pos, errs, pc)

LEMMA WordsDiffer ==
  /\ \A w \in Words : w \notin ScopeTerminators \cup {"ON", "NOT", "NAME", "PERIOD", "EOF"}
  /\ \A w \in ScopeTerminators \cup {"ON", "NOT"} : w # "NAME" /\ w # "PERIOD" /\ w # "EOF"
  BY ListsAre DEF Words, ScopeTerminators, Simple

\* The top call, and the statement it reads.
LEMMA TopReads ==
  ASSUME NEW t, NEW src, Situation(t, src), NEW kinds, NEW at, At(kinds, at),
         "DIVISION" \notin kinds
  PROVE  /\ pc = "parse" /\ Top.kind \in kinds /\ Top.at = at /\ IsFrame(Top)
         /\ Top = Fields(Top.kind, Top.at, Top.part, Top.stop, Top.body, Top.parts)
         /\ AreCalls(stack) /\ Len(stack) \in Nat /\ Len(stack) > 1 /\ errs = 0
         /\ pos \in Nat /\ t \in Seq(Tokens) /\ \A i \in Nat : TokenAt(i) = WordAt(t, i)
         /\ Token = WordAt(t, pos)
         /\ \E n, q : /\ Reading(t, Top, n, pos, q) /\ MayGoOn(t, src, stack, n, q)
                      /\ MayCall(t, src, stack, n, q) /\ MayReturn(t, src, stack, n, q)
<1>1. /\ pc = "parse" /\ Top.kind \in kinds /\ Top.at = at /\ IsFrame(Top)
      /\ AreCalls(stack) /\ Len(stack) \in Nat /\ Len(stack) > 1 /\ pos \in Nat
  BY AtIs DEF Situation
<1>2. Top = Fields(Top.kind, Top.at, Top.part, Top.stop, Top.body, Top.parts)
  BY <1>1 DEF IsFrame
<1>3. errs = 0 /\ Follows(t, src, stack, pos, 0, "parse")
  BY <1>1 DEF Situation, Follows
<1>4. /\ t \in Seq(Tokens) /\ \A i \in Nat : TokenAt(i) = WordAt(t, i)
      /\ Token = WordAt(t, pos)
  BY <1>1 DEF Situation, ParseInv, TokenAt, WordAt, Token
<1>5. PICK n, q : /\ Reading(t, stack[Len(stack)], n, pos, q) /\ MayGoOn(t, src, stack, n, q)
                  /\ MayCall(t, src, stack, n, q) /\ MayReturn(t, src, stack, n, q)
  BY <1>1, <1>3, OnTop
<1>6. Reading(t, Top, n, pos, q)
  BY <1>5 DEF Top
<1> QED
  BY <1>1, <1>2, <1>3, <1>4, <1>5, <1>6

\* It is in a list.
LEMMA InListIs ==
  ASSUME NEW t, NEW f, NEW n, NEW p, NEW q, Reading(t, f, n, p, q),
         f.at \in {"loop", "after"} \/ (f.at = "end" /\ f.kind # "PERFORM")
  PROVE  \E list, ends, r : /\ Reads(t, f.at, f.body, list, ends, p, r)
                            /\ Behind(t, f.kind, f.part, f.stop, f.parts, list, ends, n, r, q)
<1>1. ~Between(t, f.kind, f.at, f.part, f.body, f.parts, n, p, q)
  BY ListsAre DEF Between, GetBetween, OtherHttpBetween
<1> QED
  BY <1>1 DEF Reading, InListOf

LEMMA BehindIs ==
  ASSUME NEW t, NEW kind, NEW part, NEW stop, NEW parts, NEW list, NEW ends, NEW n, NEW r, NEW q,
         Behind(t, kind, part, stop, parts, list, ends, n, r, q)
  PROVE  /\ stop \subseteq ScopeTerminators \cup {"ON", "NOT"}
         /\ \/ /\ kind = "PARAGRAPH" /\ ParagraphBehind(t, stop, list, ends, n, r, q)
               /\ Len(list) \in ends
            \/ /\ kind \in Blocks /\ ends = {} /\ WordAt(t, r) \in stop
               /\ n.stmt = kind /\ BlockBehind(t, kind, part, stop, parts, list, n, r, q)
<1>1. CASE kind = "PARAGRAPH" /\ ParagraphBehind(t, stop, list, ends, n, r, q)
  BY <1>1 DEF ParagraphBehind
<1>2. CASE /\ ends = {} /\ n.stmt = kind /\ WordAt(t, r) \in stop
           /\ BlockBehind(t, kind, part, stop, parts, list, n, r, q)
  <2>1. kind \in Blocks
    BY <1>2, ListsAre DEF BlockBehind
  <2>2. stop \subseteq ScopeTerminators \cup {"ON", "NOT"}
    <3>1. CASE kind = "IF" /\ IfBehind(t, part, stop, parts, list, n, r, q)
      BY <3>1 DEF IfBehind, ScopeTerminators
    <3>2. CASE kind = "PERFORM" /\ LoopBehind(t, stop, list, n, r, q)
      BY <3>2 DEF LoopBehind
    <3>3. CASE kind = "EVALUATE" /\ EvaluateBehind(t, part, stop, parts, list, n, r, q)
      BY <3>3 DEF EvaluateBehind, WhenStop, ScopeTerminators
    <3>4. CASE kind = "STRING" /\ StringBehind(t, part, stop, parts, list, n, r, q)
      BY <3>4 DEF StringBehind, ScopeTerminators
    <3>5. CASE kind = "HTTP-GET" /\ GetBehind(t, part, stop, parts, list, n, r, q)
      BY <3>5 DEF GetBehind, ScopeTerminators
    <3>6. CASE kind \in HttpVerbs \ {"HTTP-GET"}
               /\ OtherHttpBehind(t, part, stop, parts, list, n, r, q)
      BY <3>6 DEF OtherHttpBehind, ScopeTerminators
    <3> QED
      BY <1>2, <3>1, <3>2, <3>3, <3>4, <3>5, <3>6, Zenon DEF BlockBehind
  <2> QED
    BY <1>2, <2>1, <2>2
<1> QED
  BY <1>1, <1>2, Zenon DEF Behind

\* What comes behind a statement is no name: DISPLAY takes no more than its own.
LEMMA NoNameAfter ==
  ASSUME NEW t, NEW f, f.at = "after", NEW n, NEW p, NEW q, Reading(t, f, n, p, q)
  PROVE  WordAt(t, p) # "NAME"
<1>1. PICK list, ends, r : /\ Reads(t, "after", f.body, list, ends, p, r)
                           /\ Behind(t, f.kind, f.part, f.stop, f.parts, list, ends, n, r, q)
  BY InListIs
<1>2. CASE Len(f.body) \in ends
  BY <1>1, <1>2, AfterRead
<1>3. CASE Len(f.body) \notin ends
  <2>1. WordAt(t, p) \in Words \/ (f.body = list /\ p = r)
    BY <1>1, <1>3, AfterRead
  <2>2. CASE WordAt(t, p) \in Words
    BY <2>2, WordsDiffer
  <2>3. CASE f.body = list /\ p = r
    <3>1. WordAt(t, r) \in f.stop /\ f.stop \subseteq ScopeTerminators \cup {"ON", "NOT"}
      BY <1>1, <1>3, <2>3, BehindIs
    <3> QED
      BY <2>3, <3>1, WordsDiffer
  <2> QED
    BY <2>1, <2>2, <2>3
<1> QED
  BY <1>2, <1>3

\* A call in the midst of its list meets the next statement of it.
LEMMA NextStatement ==
  ASSUME NEW t, NEW src, Situation(t, src), InList
  PROVE  /\ Token \in Words
         /\ \E n, q, s, m : /\ s \in Statements /\ s.stmt = Token /\ Span(t, Text[s], pos, m)
                            /\ Reading(t, Added(Top, s), n, m, q)
                            /\ MayGoOn(t, src, stack, n, q) /\ MayCall(t, src, stack, n, q)
<1>1. /\ Top.at = "loop" /\ Token = WordAt(t, pos) /\ Token \notin Top.stop
      /\ IsFrame(Top) /\ Top = Fields(Top.kind, Top.at, Top.part, Top.stop, Top.body, Top.parts)
  BY ListsAre, TopReads DEF InList
<1>2. PICK n, q : /\ Reading(t, Top, n, pos, q)
                  /\ MayGoOn(t, src, stack, n, q) /\ MayCall(t, src, stack, n, q)
  BY ListsAre, TopReads DEF InList
<1>3. PICK list, ends, r : 
        /\ Reads(t, "loop", Top.body, list, ends, pos, r)
        /\ Behind(t, Top.kind, Top.part, Top.stop, Top.parts, list, ends, n, r, q)
  BY <1>1, <1>2, InListIs
<1>4. Len(Top.body) < Len(list) /\ Token \in Words
  <2>1. CASE Top.body = list /\ pos = r /\ Len(list) \notin ends
    BY <1>1, <1>3, <2>1, BehindIs
  <2> QED
    BY <1>1, <1>3, <2>1, LoopWord
<1>5. PICK s, m : /\ s \in Statements /\ Span(t, Text[s], pos, m)
                  /\ Reads(t, "after", Append(Top.body, s), list, ends, m, r)
  BY <1>3, <1>4, NextRead
<1>6. s.stmt = Token
  BY <1>1, <1>5, StatementBegins
<1>7. Reading(t, Added(Top, s), n, m, q)
  BY <1>3, <1>5, InListReads DEF Added
<1> QED
  BY <1>2, <1>4, <1>5, <1>6, <1>7

\* What a step has to keep.
Keeps(t, src) == Follows(t, src, stack', pos', errs', pc')

LEMMA KeepsGoing ==
  ASSUME NEW t, NEW src, Situation(t, src), NEW n, NEW q, MayGoOn(t, src, stack, n, q),
         NEW f, NEW p, Reading(t, f, n, p, q),
         stack' = SetTop(f), pos' = p, errs' = 0, pc' = "parse"
  PROVE  Keeps(t, src)
  BY DEF Keeps, MayGoOn, SetTop

LEMMA SimpleText ==
  ASSUME NEW s \in Statements, s.stmt \in Simple, NEW t, NEW p, NEW m, Span(t, Text[s], p, m)
  PROVE  s = Leaf(s.stmt) /\ m = p + 1
<1>1. s = Leaf(s.stmt)
  BY StatementIs DEF Leaf
<1>2. Inside(s, Text) = <<>> /\ Closing(s.stmt) = <<>>
  BY InsideIs, KindsOfStatements, ListsAre DEF Closing
<1>3. Span(t, <<>> \o <<>>, p + 1, m)
  BY <1>2, StatementBegins
<1>4. <<>> \o <<>> = <<>>
  OBVIOUS
<1>5. p + 1 = m
  BY <1>3, <1>4, SpanIs
<1> QED
  BY <1>1, <1>5

LEMMA ReadsSimple ==
  ASSUME NEW t, NEW src, Situation(t, src), SimpleStatement
  PROVE  Keeps(t, src)
<1>1. InList /\ Token \in Simple /\ stack' = AddTo(stack, Leaf(Token)) /\ pos' = pos + 1
      /\ errs' = errs /\ pc' = pc
  BY DEF SimpleStatement, Consume
<1>2. PICK n, q, s, m : /\ s \in Statements /\ s.stmt = Token /\ Span(t, Text[s], pos, m)
                        /\ Reading(t, Added(Top, s), n, m, q) /\ MayGoOn(t, src, stack, n, q)
  BY <1>1, NextStatement
<1>3. s = Leaf(Token) /\ m = pos + 1
  BY <1>1, <1>2, SimpleText
<1>4. pc = "parse" /\ errs = 0 /\ AreCalls(stack) /\ IsFrame(Top)
  BY <1>1, ListsAre, TopReads DEF InList
<1>5. stack' = SetTop(Added(Top, s))
  BY <1>1, <1>3, <1>4, AddToIs, TopIs DEF SetTop, AreCalls
<1> QED
  BY <1>1, <1>2, <1>3, <1>4, <1>5, KeepsGoing

DisplayOf(k) == Node("DISPLAY", <<[i \in 1..k |-> Leaf("NAME")]>>)

\* DISPLAY at p, and k words behind it.
ItemsUpTo(t, p, k, m) ==
    /\ m = p + 1 + k /\ p \in Nat /\ m <= Len(t) + 1 /\ Len(t) \in Nat
    /\ \A i \in 1..k : WordAt(t, p + i) = "NAME"

LEMMA DisplayText ==
  ASSUME NEW s \in Statements, s.stmt = "DISPLAY", NEW t, NEW p, NEW m, Span(t, Text[s], p, m)
  PROVE  \E k \in Nat : s = DisplayOf(k) /\ ItemsUpTo(t, p, k, m)
<1>1. s = Node("DISPLAY", s.parts) /\ s.parts \in OneOf(Seq({Leaf("NAME")}))
  BY StatementIs
<1>2. PICK items \in Seq({Leaf("NAME")}) : s.parts = <<items>> /\ s.parts[1] = items
  BY <1>1, PartsAre
<1>3. PICK k \in Nat : /\ k = Len(items) /\ DOMAIN items = 1..k
                       /\ items = [i \in 1..k |-> items[i]]
                       /\ \A i \in 1..k : items[i] = Leaf("NAME")
  <2>1. ASSUME NEW A, NEW a \in Seq(A)
        PROVE  \E k \in Nat : /\ k = Len(a) /\ DOMAIN a = 1..k /\ a = [i \in 1..k |-> a[i]]
                              /\ \A i \in 1..k : a[i] \in A
    OBVIOUS
  <2>2. PICK A : A = {Leaf("NAME")}
    OBVIOUS
  <2>3. PICK k \in Nat : /\ k = Len(items) /\ DOMAIN items = 1..k
                         /\ items = [i \in 1..k |-> items[i]] /\ \A i \in 1..k : items[i] \in A
    BY <2>1, <2>2
  <2> QED
    BY <2>2, <2>3
<1>4. s = DisplayOf(k)
  <2>1. items = [i \in 1..k |-> Leaf("NAME")]
    BY <1>3, Zenon
  <2> QED
    BY <1>1, <1>2, <2>1 DEF DisplayOf
<1>5. PICK names : names = [i \in 1..k |-> "NAME"]
  OBVIOUS
<1>6. names \in Seq(Tokens) /\ Len(names) = k /\ \A i \in 1..k : names[i] = "NAME"
  BY <1>5, WordsAre
<1>7. Inside(s, Text) = names /\ Closing(s.stmt) = <<>>
  <2>1. Inside(s, Text) = [i \in DOMAIN s.parts[1] |-> "NAME"]
    BY InsideIs
  <2>2. DOMAIN s.parts[1] = 1..k
    BY <1>2, <1>3
  <2>3. Closing(s.stmt) = <<>>
    BY ListsAre DEF Closing
  <2> QED
    BY <1>5, <2>1, <2>2, <2>3
<1>8. p \in Nat /\ Span(t, names \o <<>>, p + 1, m)
  BY <1>7, StatementBegins
<1>9. names \o <<>> = names
  BY <1>6
<1>10. Span(t, names, p + 1, m)
  BY <1>8, <1>9
<1>11. /\ m = p + 1 + k /\ m <= Len(t) + 1 /\ Len(t) \in Nat
       /\ \A i \in 1..k : t[p + 1 + i - 1] = "NAME"
  <2>1. /\ m = p + 1 + Len(names) /\ m <= Len(t) + 1 /\ t \in Seq(Tokens)
        /\ \A i \in 1..Len(names) : t[p + 1 + i - 1] = names[i]
    BY ONLY <1>10 DEF Span
  <2>2. Len(names) = k /\ Len(t) \in Nat
    BY <1>6, <2>1
  <2>3. \A i \in 1..k : t[p + 1 + i - 1] = names[i] /\ names[i] = "NAME"
    BY ONLY <1>6, <2>1, <2>2
  <2> QED
    BY ONLY <2>1, <2>2, <2>3
<1>12. ASSUME NEW i \in 1..k PROVE WordAt(t, p + i) = "NAME"
  <2>1. p + 1 + i - 1 = p + i /\ p + i <= Len(t)
    BY ONLY <1>8, <1>11, k \in Nat, i \in 1..k
  <2> QED
    BY <1>11, <2>1 DEF WordAt
<1>13. ItemsUpTo(t, p, k, m)
  BY ONLY <1>8, <1>11, <1>12 DEF ItemsUpTo
<1> QED
  BY <1>4, <1>13

LEMMA ReadsDisplay ==
  ASSUME NEW t, NEW src, Situation(t, src), DisplayStatement
  PROVE  Keeps(t, src)
<1>1. InList /\ Token = "DISPLAY" /\ errs' = errs /\ pc' = pc
  BY DEF DisplayStatement
<1>2. PICK n, q, s, m : /\ s \in Statements /\ s.stmt = Token /\ Span(t, Text[s], pos, m)
                        /\ Reading(t, Added(Top, s), n, m, q) /\ MayGoOn(t, src, stack, n, q)
  BY <1>1, NextStatement
<1>3. PICK k \in Nat : /\ s = DisplayOf(k)
                       /\ m = pos + 1 + k /\ pos \in Nat /\ m <= Len(t) + 1 /\ Len(t) \in Nat
                       /\ \A i \in 1..k : WordAt(t, pos + i) = "NAME"
  <2>1. s.stmt = "DISPLAY" /\ s \in Statements /\ Span(t, Text[s], pos, m)
    BY <1>1, <1>2
  <2>2. PICK k \in Nat : s = DisplayOf(k) /\ ItemsUpTo(t, pos, k, m)
    BY ONLY <2>1, DisplayText
  <2> QED
    BY ONLY <2>2, Zenon DEF ItemsUpTo
<1>4. /\ pc = "parse" /\ errs = 0 /\ AreCalls(stack) /\ IsFrame(Top)
      /\ \A i \in Nat : TokenAt(i) = WordAt(t, i)
  BY <1>1, ListsAre, TopReads DEF InList
<1>5. WordAt(t, m) # "NAME"
  <2>1. Added(Top, s).at = "after"
    BY DEF Added, Fields
  <2> QED
    BY <1>2, <2>1, NoNameAfter
<1>6. PICK l \in 0..Len(tokens) :
          /\ \A i \in 1..l : TokenAt(pos + i) = "NAME"
          /\ TokenAt(pos + l + 1) # "NAME"
          /\ stack' = AddTo(stack, DisplayOf(l))
          /\ pos' = pos + (l + 1)
  BY Zenon DEF DisplayStatement, Consume, DisplayOf
<1>7. l \in Nat
  BY <1>6
<1>8. ~(k < l)
  <2> SUFFICES ASSUME k < l PROVE FALSE
    OBVIOUS
  <2>1. k + 1 \in 1..l /\ pos + (k + 1) = m /\ m \in Nat
    BY ONLY <1>3, <1>7, k < l
  <2>2. TokenAt(m) = "NAME"
    BY <1>6, <2>1
  <2> QED
    BY <1>4, <1>5, <2>1, <2>2
<1>9. ~(l < k)
  <2> SUFFICES ASSUME l < k PROVE FALSE
    OBVIOUS
  <2>1. l + 1 \in 1..k /\ pos + l + 1 = pos + (l + 1) /\ pos + (l + 1) \in Nat
    BY ONLY <1>3, <1>7, l < k
  <2>2. WordAt(t, pos + (l + 1)) = "NAME"
    BY <1>3, <2>1
  <2> QED
    BY <1>4, <1>6, <2>1, <2>2
<1>10. l = k /\ pos + (l + 1) = m
  BY ONLY <1>3, <1>7, <1>8, <1>9
<1>11. stack' = SetTop(Added(Top, s))
  <2>1. stack' = AddTo(stack, s)
    BY <1>3, <1>6, <1>10
  <2> QED
    BY <1>4, <2>1, AddToIs, TopIs DEF SetTop, AreCalls
<1> QED
  BY <1>1, <1>2, <1>4, <1>6, <1>10, <1>11, KeepsGoing

LEMMA ReadsBlockStart ==
  ASSUME NEW t, NEW src, Situation(t, src), BlockStart
  PROVE  Keeps(t, src)
<1>1. InList /\ Token \in Blocks /\ errs' = errs /\ pc' = pc /\ pos' = pos + 1
  BY DEF BlockStart, Consume
<1>2. PICK n, q, s, m : /\ s \in Statements /\ s.stmt = Token /\ Span(t, Text[s], pos, m)
                        /\ Reading(t, Added(Top, s), n, m, q) /\ MayCall(t, src, stack, n, q)
  BY <1>1, NextStatement
<1>3. Reading(t, BlockFrame(Token), s, pos + 1, m)
  BY <1>1, <1>2, BlockBegins
<1>4. stack' = Append(stack, BlockFrame(Token))
  BY Zenon DEF BlockStart, BlockFrame
<1>5. pc = "parse" /\ errs = 0 /\ Top = stack[Len(stack)]
  BY <1>1, ListsAre, TopReads DEF InList, Top
<1>6. Follows(t, src, Append(stack, BlockFrame(Token)), pos + 1, 0, "parse")
  BY <1>2, <1>3, <1>5, Zenon DEF MayCall
<1> QED
  BY <1>1, <1>4, <1>5, <1>6 DEF Keeps

\* There is nothing in such a text that the parser does not expect.
LEMMA ReadsNothingElse ==
  ASSUME NEW t, NEW src, Situation(t, src)
  PROVE  ~UnexpectedToken /\ ~OtherTerminator
<1>1. ASSUME InList
      PROVE  Token \in Simple \cup Blocks \cup {"DISPLAY"} /\ Token \notin ScopeTerminators
  BY <1>1, NextStatement, WordsDiffer DEF Words
<1> QED
  BY <1>1 DEF UnexpectedToken, OtherTerminator

LEMMA AtIsSet ==
  ASSUME NEW f, IsFrame(f), NEW at
  PROVE  [f EXCEPT !.at = at] = Fields(f.kind, at, f.part, f.stop, f.body, f.parts)
<1>1. PICK kind, a, part, stop, body, parts :
         /\ f = Fields(kind, a, part, stop, body, parts)
         /\ f.kind = kind /\ f.part = part /\ f.stop = stop /\ f.body = body /\ f.parts = parts
  BY DEF IsFrame
<1>2. [f EXCEPT !.at = at] = Fields(kind, at, part, stop, body, parts)
  BY ONLY <1>1, SMT DEF Fields
<1> QED
  BY ONLY <1>1, <1>2

LEMMA ReadsListEnd ==
  ASSUME NEW t, NEW src, Situation(t, src), ListEnd
  PROVE  Keeps(t, src)
<1>1. /\ At(Lists, "loop") /\ errs' = errs /\ pc' = pc
      /\ AtEnd \/ Token = "PERIOD" \/ Token \in Top.stop
      /\ stack' = SetTop([Top EXCEPT !.at = "end"])
      /\ pos' = pos + (IF Top.kind = "PERFORM" /\ Token = "END-PERFORM" THEN 1 ELSE 0)
  BY DEF ListEnd, Consume
<1>2. /\ pc = "parse" /\ errs = 0 /\ Top.at = "loop" /\ Token = WordAt(t, pos)
      /\ IsFrame(Top) /\ pos \in Nat
  BY <1>1, ListsAre, TopReads
<1>3. PICK n, q : Reading(t, Top, n, pos, q) /\ MayGoOn(t, src, stack, n, q)
  BY <1>1, ListsAre, TopReads
<1>4. PICK list, ends, r :
        /\ Reads(t, "loop", Top.body, list, ends, pos, r)
        /\ Behind(t, Top.kind, Top.part, Top.stop, Top.parts, list, ends, n, r, q)
  BY <1>2, <1>3, InListIs
<1>5. Top.body = list /\ pos = r /\ Len(list) \notin ends
  <2>1. CASE Len(Top.body) < Len(list) /\ WordAt(t, pos) \in Words /\ pos <= Len(t)
    <3>1. Token \notin Top.stop /\ Token # "PERIOD"
      BY <1>2, <1>4, <2>1, BehindIs, WordsDiffer
    <3>2. ~AtEnd
      BY <1>2, <2>1 DEF AtEnd, Situation, ParseInv
    <3> QED
      BY <1>1, <3>1, <3>2
  <2> QED
    BY <1>4, <2>1, LoopWord
<1>6. Top.kind \in Blocks /\ n.stmt = Top.kind
      /\ BlockBehind(t, Top.kind, Top.part, Top.stop, Top.parts, list, n, r, q)
  BY <1>4, <1>5, BehindIs
<1>7. stack' = SetTop(Fields(Top.kind, "end", Top.part, Top.stop, Top.body, Top.parts))
  BY <1>1, <1>2, AtIsSet
<1>8. CASE Top.kind # "PERFORM"
  <2>1. Reads(t, "end", Top.body, list, ends, pos, r)
    BY <1>4, <1>5 DEF Reads
  <2>2. Reading(t, Fields(Top.kind, "end", Top.part, Top.stop, Top.body, Top.parts), n, pos, q)
    BY <1>4, <1>8, <2>1, InListReads
  <2>3. pos' = pos
    BY <1>1, <1>2, <1>8
  <2> QED
    BY <1>1, <1>2, <1>3, <1>7, <2>2, <2>3, KeepsGoing
<1>9. CASE Top.kind = "PERFORM"
  <2>1. LoopBehind(t, Top.stop, list, n, r, q)
    BY <1>6, <1>9, ListsAre DEF BlockBehind
  <2>2. list = n.parts[1] /\ Ends(t, <<>>, "END-PERFORM", r, q)
    BY <2>1 DEF LoopBehind
  <2>3. q = pos + 1 /\ Token = "END-PERFORM"
    BY <1>2, <1>5, <2>2, NothingLeft
  <2>4. Between(t, Top.kind, "end", Top.part, Top.body, Top.parts, n, q, q)
    BY <1>5, <1>6, <1>9, <2>2 DEF Between
  <2>5. Reading(t, Fields(Top.kind, "end", Top.part, Top.stop, Top.body, Top.parts), n, q, q)
    BY <2>4, BetweenReads
  <2>6. pos' = q
    BY <1>1, <1>9, <2>3
  <2> QED
    BY <1>1, <1>2, <1>3, <1>7, <2>5, <2>6, KeepsGoing
<1> QED
  BY <1>8, <1>9

LEMMA ReadsAfterStatement ==
  ASSUME NEW t, NEW src, Situation(t, src), AfterStatement
  PROVE  Keeps(t, src)
<1> DEFINE nextIsName == TokenAt(pos + 1) = "NAME" /\ TokenAt(pos + 2) = "PERIOD"
           over == /\ Token = "PERIOD"
                   /\ \/ Top.kind \notin {"PARAGRAPH", "ANONYMOUS"}
                      \/ nextIsName
                      \/ pos >= Len(tokens)
<1>1. /\ At(Lists, "after") /\ errs' = errs /\ pc' = pc
      /\ stack' = SetTop([Top EXCEPT !.at = IF over THEN "end" ELSE "loop"])
      /\ pos' = pos + (IF Token = "PERIOD" THEN 1 ELSE 0)
  BY Zenon DEF AfterStatement, Consume
<1>2. /\ pc = "parse" /\ errs = 0 /\ Top.at = "after" /\ Token = WordAt(t, pos)
      /\ IsFrame(Top) /\ pos \in Nat /\ Len(t) \in Nat /\ tokens = t
      /\ TokenAt(pos + 1) = WordAt(t, pos + 1) /\ TokenAt(pos + 2) = WordAt(t, pos + 2)
  <2>1. /\ pc = "parse" /\ errs = 0 /\ Top.at = "after" /\ Token = WordAt(t, pos)
        /\ IsFrame(Top) /\ pos \in Nat /\ \A i \in Nat : TokenAt(i) = WordAt(t, i)
        /\ t \in Seq(Tokens)
    BY <1>1, ListsAre, TopReads
  <2> QED
    BY <2>1 DEF Situation
<1>3. PICK n, q : Reading(t, Top, n, pos, q) /\ MayGoOn(t, src, stack, n, q)
  BY <1>1, ListsAre, TopReads
<1>4. PICK list, ends, r :
        /\ Reads(t, "after", Top.body, list, ends, pos, r)
        /\ Behind(t, Top.kind, Top.part, Top.stop, Top.parts, list, ends, n, r, q)
  BY <1>2, <1>3, InListIs
<1>5. ASSUME NEW at \in {"loop", "end"}, NEW p, at = "end" => Top.kind # "PERFORM",
             Reads(t, at, Top.body, list, ends, p, r), pos' = p,
             at = IF over THEN "end" ELSE "loop"
      PROVE  Keeps(t, src)
  <2>1. stack' = SetTop(Fields(Top.kind, at, Top.part, Top.stop, Top.body, Top.parts))
    <3>1. stack' = SetTop([Top EXCEPT !.at = at])
      BY ONLY <1>1, <1>5
    <3> QED
      BY <1>2, <3>1, AtIsSet
  <2>2. Reading(t, Fields(Top.kind, at, Top.part, Top.stop, Top.body, Top.parts), n, p, q)
    BY <1>4, <1>5, InListReads
  <2> QED
    BY <1>1, <1>2, <1>3, <1>5, <2>1, <2>2, KeepsGoing
<1>6. CASE Len(Top.body) \in ends
  <2>1. Top.kind = "PARAGRAPH" /\ ParagraphBehind(t, Top.stop, list, ends, n, r, q)
    BY <1>4, <1>6, BehindIs
  <2>2. Token = "PERIOD" /\ pos <= Len(t) /\ pos' = pos + 1
    BY <1>1, <1>2, <1>4, <1>6, AfterRead
  <2>3. CASE Top.body = list /\ pos + 1 = r
    <3>1. nextIsName \/ pos >= Len(tokens)
      <4>1. r = Len(t) + 1 \/ (WordAt(t, r) = "NAME" /\ WordAt(t, r + 1) = "PERIOD")
        BY <2>1 DEF ParagraphBehind
      <4>2. r + 1 = pos + 2
        BY <1>2, <2>3
      <4> QED
        BY <1>2, <2>3, <4>1, <4>2
    <3>2. over
      BY <2>2, <3>1
    <3>3. Reads(t, "end", Top.body, list, ends, pos + 1, r)
      BY <1>4, <2>3 DEF Reads
    <3> HIDE DEF over
    <3> QED
      BY <1>5, <2>1, <2>2, <3>2, <3>3
  <2>4. CASE /\ Reads(t, "loop", Top.body, list, ends, pos + 1, r)
             /\ WordAt(t, pos + 1) \in Words /\ pos + 1 <= Len(t)
    <3>1. ~over
      BY <1>2, <2>1, <2>4, WordsDiffer
    <3> HIDE DEF over
    <3> QED
      BY <1>5, <2>2, <2>4, <3>1
  <2> QED
    BY <1>4, <1>6, <2>3, <2>4, AfterRead
<1>7. CASE Len(Top.body) \notin ends
  <2>1. /\ Reads(t, "loop", Top.body, list, ends, pos, r)
        /\ WordAt(t, pos) \in Words \/ (Top.body = list /\ pos = r)
    BY <1>4, <1>7, AfterRead
  <2>2. Token # "PERIOD"
    <3>1. CASE WordAt(t, pos) \in Words
      BY <1>2, <3>1, WordsDiffer
    <3>2. CASE Top.body = list /\ pos = r
      <4>1. WordAt(t, r) \in Top.stop /\ Top.stop \subseteq ScopeTerminators \cup {"ON", "NOT"}
        BY <1>4, <1>7, <3>2, BehindIs
      <4> QED
        BY <1>2, <3>2, <4>1, WordsDiffer
    <3> QED
      BY <2>1, <3>1, <3>2
  <2>3. ~over /\ pos' = pos
    BY <1>1, <1>2, <2>2
  <2> HIDE DEF over
  <2> QED
    BY <1>5, <2>1, <2>3
<1> QED
  BY <1>6, <1>7

----------------------------------------------------------------------------
(* Behind a list, between two lists, and at the end of a statement.         *)

LEMMA MatchesAll ==
  ASSUME NEW expected, Len(expected) \in Nat,
         \A i \in 1..Len(expected) : TokenAt(pos + i - 1) = expected[i], pos \in Nat
  PROVE  Matched(expected) = Len(expected)
<1> DEFINE P(n) == /\ \A i \in 1..n : TokenAt(pos + i - 1) = expected[i]
                   /\ n = Len(expected) \/ TokenAt(pos + n) # expected[n + 1]
           m == Matched(expected)
<1>1. \E n \in 0..Len(expected) : P(n)
  <2>1. Len(expected) \in 0..Len(expected)
    OBVIOUS
  <2> QED
    BY <2>1
<1>2. m \in 0..Len(expected) /\ P(m)
  BY <1>1, Zenon DEF Matched
<1> HIDE DEF m
<1>3. CASE m < Len(expected)
  <2>1. m + 1 \in 1..Len(expected) /\ pos + (m + 1) - 1 = pos + m
    BY <1>2, <1>3
  <2> QED
    BY <1>2, <1>3, <2>1
<1> QED
  BY <1>2, <1>3 DEF m

LEMMA MatchesNothing ==
  ASSUME NEW expected, Len(expected) \in Nat, Len(expected) > 0, pos \in Nat, Token # expected[1]
  PROVE  Matched(expected) = 0
<1> DEFINE P(n) == /\ \A i \in 1..n : TokenAt(pos + i - 1) = expected[i]
                   /\ n = Len(expected) \/ TokenAt(pos + n) # expected[n + 1]
           m == Matched(expected)
<1>1. \E n \in 0..Len(expected) : P(n)
  <2>1. 0 \in 0..Len(expected) /\ pos + 0 = pos /\ 0 + 1 = 1 /\ 1..0 = {}
    OBVIOUS
  <2> QED
    BY <2>1 DEF Token
<1>2. m \in 0..Len(expected) /\ P(m)
  BY <1>1, Zenon DEF Matched
<1> HIDE DEF m
<1>3. CASE m > 0
  <2>1. 1 \in 1..m /\ pos + 1 - 1 = pos
    BY <1>2, <1>3
  <2> QED
    BY <1>2, <2>1 DEF Token
<1> QED
  BY <1>2, <1>3 DEF m

\* The words of a phrase stand at pos.
LEMMA MatchesSpan ==
  ASSUME NEW t, NEW src, Situation(t, src), NEW words, NEW k, Span(t, words, pos, k)
  PROVE  Matched(words) = Len(words) /\ k = pos + Matched(words)
<1>1. /\ words \in Seq(Tokens) /\ pos \in Nat /\ t = tokens /\ t \in Seq(Tokens)
      /\ k = pos + Len(words) /\ k <= Len(t) + 1 /\ Len(words) \in Nat /\ Len(t) \in Nat
      /\ \A i \in 1..Len(words) : t[pos + i - 1] = words[i]
  BY DEF Span, Situation
<1>2. ASSUME NEW i \in 1..Len(words) PROVE TokenAt(pos + i - 1) = words[i]
  <2>1. pos + i - 1 <= Len(t)
    BY ONLY <1>1, i \in 1..Len(words)
  <2> QED
    BY <1>1, <2>1 DEF TokenAt
<1> QED
  BY <1>1, <1>2, MatchesAll

LEMMA BehindList ==
  ASSUME NEW t, NEW src, Situation(t, src), NEW kinds, At(kinds, "end"),
         kinds \subseteq Blocks \ {"PERFORM"}
  PROVE  \E n, q : /\ n \in Statements /\ n.stmt = Top.kind
                   /\ BlockBehind(t, Top.kind, Top.part, Top.stop, Top.parts, Top.body, n, pos, q)
                   /\ MayGoOn(t, src, stack, n, q) /\ MayReturn(t, src, stack, n, q)
<1>1. "DIVISION" \notin kinds
  BY KindsDiffer
<1>2. /\ Top.kind \in Blocks /\ Top.kind # "PERFORM" /\ Top.at = "end" /\ AreCalls(stack)
      /\ Top.kind # "PARAGRAPH"
  BY <1>1, TopReads, KindsDiffer
<1>3. PICK n, q : /\ Reading(t, Top, n, pos, q) /\ MayGoOn(t, src, stack, n, q)
                  /\ MayReturn(t, src, stack, n, q)
  BY <1>1, TopReads
<1>4. PICK list, ends, r :
        /\ Reads(t, "end", Top.body, list, ends, pos, r)
        /\ Behind(t, Top.kind, Top.part, Top.stop, Top.parts, list, ends, n, r, q)
  BY <1>2, <1>3, InListIs
<1>5. Top.body = list /\ pos = r
  BY <1>4 DEF Reads
<1>6. n.stmt = Top.kind /\ BlockBehind(t, Top.kind, Top.part, Top.stop, Top.parts, list, n, r, q)
  BY <1>2, <1>4, BehindIs
<1>7. n \in Statements
  BY <1>2, <1>3, TopIs DEF MayReturn
<1> QED
  BY <1>3, <1>5, <1>6, <1>7

LEMMA BetweenLists ==
  ASSUME NEW t, NEW src, Situation(t, src), NEW kinds, NEW at, At(kinds, at),
         kinds \subseteq Blocks,
         at \in {"clauses", "not"} \/ (at = "end" /\ kinds = {"PERFORM"})
  PROVE  \E n, q : /\ n \in Statements /\ n.stmt = Top.kind
                   /\ Between(t, Top.kind, at, Top.part, Top.body, Top.parts, n, pos, q)
                   /\ MayGoOn(t, src, stack, n, q) /\ MayReturn(t, src, stack, n, q)
<1>1. "DIVISION" \notin kinds
  BY KindsDiffer
<1>2. Top.kind \in Blocks /\ Top.at = at /\ AreCalls(stack) /\ Top.kind \in kinds
  BY <1>1, TopReads
<1>3. PICK n, q : /\ Reading(t, Top, n, pos, q) /\ MayGoOn(t, src, stack, n, q)
                  /\ MayReturn(t, src, stack, n, q)
  BY <1>1, TopReads
<1>4. ~InListOf(t, Top, n, pos, q)
  BY <1>2 DEF InListOf, Reads
<1>5. Between(t, Top.kind, at, Top.part, Top.body, Top.parts, n, pos, q)
  BY <1>2, <1>3, <1>4 DEF Reading
<1>6. n.stmt = Top.kind
  BY <1>5 DEF Between
<1>7. n \in Statements
  BY <1>2, <1>3, TopIs DEF MayReturn
<1> QED
  BY <1>3, <1>5, <1>6, <1>7

\* A statement ends: its closing word is taken, and no error is reported.
LEMMA KeepsReturning ==
  ASSUME NEW t, NEW src, Situation(t, src), Top.kind \in Blocks, NEW n, NEW q,
         MayReturn(t, src, stack, n, q),
         stack' = AddTo(Pop, n), pos' = q, errs' = 0, pc' = "parse"
  PROVE  Keeps(t, src)
<1>1. Len(stack) > 2
  BY TopIs DEF Situation, ParseInv
<1> QED
  BY <1>1 DEF Keeps, MayReturn, Pop

LEMMA KeepsClosing ==
  ASSUME NEW t, NEW src, Situation(t, src), Top.kind \in Blocks, pc = "parse", NEW n, NEW q,
         MayReturn(t, src, stack, n, q), NEW closing, Close(n, closing),
         Ends(t, <<>>, closing, pos, q), pc' = pc
  PROVE  Keeps(t, src)
<1>1. errs = 0
  BY DEF Situation, Follows
<1>2. q = pos + 1 /\ Token = closing
  BY NothingLeft DEF Situation, ParseInv, Token, TokenAt, WordAt
<1>3. stack' = AddTo(Pop, n) /\ pos' = pos + 1 /\ errs' = errs + 0
  BY <1>2 DEF Close, Consume, Report
<1> QED
  BY <1>1, <1>2, <1>3, KeepsReturning

LEMMA ListBeginsIs ==
  ASSUME NEW f, IsFrame(f), NEW part, NEW stop
  PROVE  [f EXCEPT !.at = "loop", !.part = part, !.stop = stop, !.body = <<>>]
           = Fields(f.kind, "loop", part, stop, <<>>, f.parts)
<1>1. PICK kind, a, b, c, body, parts :
         /\ f = Fields(kind, a, b, c, body, parts) /\ f.kind = kind /\ f.parts = parts
  BY DEF IsFrame
<1>2. PICK g1 : g1 = [f EXCEPT !.at = "loop"]
  OBVIOUS
<1>3. PICK g2 : g2 = [g1 EXCEPT !.part = part]
  OBVIOUS
<1>4. PICK g3 : g3 = [g2 EXCEPT !.stop = stop]
  OBVIOUS
<1>5. PICK g4 : g4 = [g3 EXCEPT !.body = <<>>]
  OBVIOUS
<1>6. [f EXCEPT !.at = "loop", !.part = part, !.stop = stop, !.body = <<>>] = g4
  BY <1>2, <1>3, <1>4, <1>5, Zenon
<1>7. g1 = Fields(kind, "loop", b, c, body, parts)
  BY ONLY <1>1, <1>2, SMT DEF Fields
<1>8. g2 = Fields(kind, "loop", part, c, body, parts)
  BY ONLY <1>3, <1>7, SMT DEF Fields
<1>9. g3 = Fields(kind, "loop", part, stop, body, parts)
  BY ONLY <1>4, <1>8, SMT DEF Fields
<1>10. g4 = Fields(kind, "loop", part, stop, <<>>, parts)
  BY ONLY <1>5, <1>9, SMT DEF Fields
<1> QED
  BY ONLY <1>1, <1>6, <1>10

LEMMA StoredIs ==
  ASSUME NEW f, IsFrame(f), NEW at
  PROVE  [f EXCEPT !.at = at, !.parts[f.part] = f.body]
           = Fields(f.kind, at, f.part, f.stop, f.body, [f.parts EXCEPT ![f.part] = f.body])
<1>1. PICK kind, a, part, stop, body, parts :
         /\ f = Fields(kind, a, part, stop, body, parts) /\ f.kind = kind /\ f.part = part
         /\ f.stop = stop /\ f.body = body /\ f.parts = parts
  BY DEF IsFrame
<1>2. PICK g1 : g1 = [f EXCEPT !.at = at]
  OBVIOUS
<1>3. PICK stored : stored = [parts EXCEPT ![part] = body]
  OBVIOUS
<1>4. PICK g2 : g2 = [g1 EXCEPT !.parts = stored]
  OBVIOUS
<1>5. g1 = Fields(kind, at, part, stop, body, parts) /\ g1.parts = parts
  BY ONLY <1>1, <1>2, SMT DEF Fields
<1>6. g2 = Fields(kind, at, part, stop, body, stored)
  BY ONLY <1>4, <1>5, SMT DEF Fields
<1>7. [f EXCEPT !.at = at, !.parts[f.part] = f.body] = [g1 EXCEPT !.parts[part] = body]
  BY <1>1, <1>2, Zenon
<1>8. [g1 EXCEPT !.parts[part] = body] = [g1 EXCEPT !.parts = [g1.parts EXCEPT ![part] = body]]
  BY Zenon
<1> QED
  BY ONLY <1>1, <1>3, <1>4, <1>5, <1>6, <1>7, <1>8, Zenon

LEMMA PartIsSet ==
  ASSUME NEW f, IsFrame(f), NEW part
  PROVE  [f EXCEPT !.part = part] = Fields(f.kind, f.at, part, f.stop, f.body, f.parts)
<1>1. PICK kind, at, b, stop, body, parts :
         /\ f = Fields(kind, at, b, stop, body, parts)
         /\ f.kind = kind /\ f.at = at /\ f.stop = stop /\ f.body = body /\ f.parts = parts
  BY DEF IsFrame
<1>2. [f EXCEPT !.part = part] = Fields(kind, at, part, stop, body, parts)
  BY ONLY <1>1, SMT DEF Fields
<1> QED
  BY ONLY <1>1, <1>2

LEMMA PairsSet ==
  ASSUME NEW a, NEW b, NEW c
  PROVE  /\ [<<a, b>> EXCEPT ![1] = c] = <<c, b>> /\ [<<a, b>> EXCEPT ![2] = c] = <<a, c>>
         /\ <<a, b>>[1] = a /\ <<a, b>>[2] = b
  OBVIOUS

\* The call on top begins with another list of its statement.
LEMMA KeepsReading ==
  ASSUME NEW t, NEW src, Situation(t, src), NEW n, NEW q, MayGoOn(t, src, stack, n, q),
         NEW kind \in Blocks, n.stmt = kind, NEW part, NEW stop, NEW parts, NEW list, NEW p, NEW r,
         Reads(t, "loop", <<>>, list, {}, p, r), WordAt(t, r) \in stop,
         BlockBehind(t, kind, part, stop, parts, list, n, r, q),
         stack' = SetTop(Fields(kind, "loop", part, stop, <<>>, parts)),
         pos' = p, errs' = 0, pc' = "parse"
  PROVE  Keeps(t, src)
<1>1. Behind(t, kind, part, stop, parts, list, {}, n, r, q)
  BY Zenon DEF Behind
<1>2. Reading(t, Fields(kind, "loop", part, stop, <<>>, parts), n, p, q)
  BY <1>1, InListReads
<1> QED
  BY <1>2, KeepsGoing

LEMMA KeepsStarting ==
  ASSUME NEW t, NEW src, Situation(t, src), NEW n, NEW q, MayGoOn(t, src, stack, n, q),
         Top.kind \in Blocks, n.stmt = Top.kind, IsFrame(Top),
         NEW part, NEW stop, NEW list, NEW p, NEW r,
         Reads(t, "loop", <<>>, list, {}, p, r), WordAt(t, r) \in stop,
         BlockBehind(t, Top.kind, part, stop, Top.parts, list, n, r, q),
         stack' = StartList(part, stop), pos' = p, errs' = 0, pc' = "parse"
  PROVE  Keeps(t, src)
<1>1. stack' = SetTop(Fields(Top.kind, "loop", part, stop, <<>>, Top.parts))
  BY ListBeginsIs, Zenon DEF StartList
<1> QED
  BY <1>1, KeepsReading

\* It is between its lists.
LEMMA KeepsBetween ==
  ASSUME NEW t, NEW src, Situation(t, src), NEW n, NEW q, MayGoOn(t, src, stack, n, q),
         NEW kind, NEW at, NEW part, NEW stop, NEW body, NEW parts, NEW p,
         Between(t, kind, at, part, body, parts, n, p, q),
         stack' = SetTop(Fields(kind, at, part, stop, body, parts)),
         pos' = p, errs' = 0, pc' = "parse"
  PROVE  Keeps(t, src)
<1>1. Reading(t, Fields(kind, at, part, stop, body, parts), n, p, q)
  BY BetweenReads
<1> QED
  BY <1>1, KeepsGoing

\* The list it has read is stored.
LEMMA KeepsStoring ==
  ASSUME NEW t, NEW src, Situation(t, src), NEW n, NEW q, MayGoOn(t, src, stack, n, q),
         IsFrame(Top), NEW at, NEW parts, [Top.parts EXCEPT ![Top.part] = Top.body] = parts,
         Between(t, Top.kind, at, Top.part, Top.body, parts, n, pos, q),
         stack' = StoreList(at), pos' = pos, errs' = 0, pc' = "parse"
  PROVE  Keeps(t, src)
<1>1. stack' = SetTop(Fields(Top.kind, at, Top.part, Top.stop, Top.body, parts))
  BY StoredIs, Zenon DEF StoreList
<1> QED
  BY <1>1, KeepsBetween

----------------------------------------------------------------------------
(* IF and PERFORM.                                                          *)

LEMMA ReadsIfElse ==
  ASSUME NEW t, NEW src, Situation(t, src), IfElse
  PROVE  Keeps(t, src)
<1>1. /\ At({"IF"}, "end") /\ Top.part = 1 /\ Token = "ELSE" /\ pos' = pos + 1
      /\ stack' = SetTop([Frame("IF", "loop", {"END-IF"}, <<Top.body, <<>>>>) EXCEPT !.part = 2])
      /\ errs' = errs /\ pc' = pc
  BY DEF IfElse, Consume
<1>2. {"IF"} \subseteq Blocks \ {"PERFORM"} /\ "DIVISION" \notin {"IF"}
  BY ListsAre
<1>3. PICK n, q : /\ n \in Statements /\ n.stmt = Top.kind
                  /\ BlockBehind(t, Top.kind, Top.part, Top.stop, Top.parts, Top.body, n, pos, q)
                  /\ MayGoOn(t, src, stack, n, q)
  BY <1>1, <1>2, BehindList
<1>4. Top.kind = "IF" /\ pc = "parse" /\ errs = 0 /\ Token = WordAt(t, pos)
  BY <1>1, <1>2, TopReads
<1>5. Top.body = n.parts[1] /\ Ends(t, Phrase(<<"ELSE">>, n.parts[2], Text), "END-IF", pos, q)
  BY <1>1, <1>3, <1>4, ListsAre DEF BlockBehind, IfBehind
<1>6. n.parts[2] \in Seq(Statements) /\ <<"ELSE">> \in Seq(Tokens) /\ <<"ELSE">> # <<>>
  BY <1>3, <1>4, ListsOfBlock, PhrasesAre
<1>7. n.parts[2] # <<>>
  BY <1>1, <1>4, <1>5, NoPhraseLeft
<1>8. PICK k, r : /\ Span(t, <<"ELSE">>, pos, k)
                  /\ Reads(t, "loop", <<>>, n.parts[2], {}, k, r)
                  /\ Ends(t, <<>>, "END-IF", r, q) /\ WordAt(t, r) = "END-IF"
  <2>1. PICK words, list : words = <<"ELSE">> /\ list = n.parts[2]
    OBVIOUS
  <2>2. /\ words \in Seq(Tokens) /\ list \in Seq(Statements) /\ words # <<>> /\ list # <<>>
        /\ Ends(t, Phrase(words, list, Text), "END-IF", pos, q)
    BY <1>5, <1>6, <1>7, <2>1
  <2>3. \E k, r : /\ Span(t, words, pos, k) /\ Reads(t, "loop", <<>>, list, {}, k, r)
                  /\ Ends(t, <<>>, "END-IF", r, q) /\ WordAt(t, r) = "END-IF"
    BY ONLY <2>2, PhraseLeft
  <2> QED
    BY ONLY <2>1, <2>3
<1>9. k = pos + 1
  BY <1>8, SpanWords
<1>10. BlockBehind(t, "IF", 2, {"END-IF"}, <<n.parts[1], <<>>>>, n.parts[2], n, r, q)
  BY <1>8 DEF BlockBehind, IfBehind
<1>11. stack' = SetTop(Fields("IF", "loop", 2, {"END-IF"}, <<>>, <<n.parts[1], <<>>>>))
  <2>1. PICK parts : parts = <<Top.body, <<>>>>
    OBVIOUS
  <2>2. [Frame("IF", "loop", {"END-IF"}, parts) EXCEPT !.part = 2]
          = Fields("IF", "loop", 2, {"END-IF"}, <<>>, parts)
    <3>1. PICK f : f = Frame("IF", "loop", {"END-IF"}, parts)
      OBVIOUS
    <3>2. f = Fields("IF", "loop", 1, {"END-IF"}, <<>>, parts)
      BY <3>1 DEF Frame, Fields
    <3>3. PICK kind, at, a, stop, body : /\ f = Fields(kind, at, a, stop, body, parts)
                                         /\ kind = "IF" /\ at = "loop" /\ a = 1
                                         /\ stop = {"END-IF"} /\ body = <<>>
      BY <3>2
    <3>4. PICK b : b = 2
      OBVIOUS
    <3>5. f = Fields(kind, at, a, stop, body, parts)
      BY <3>3
    <3>6. [f EXCEPT !.part = b] = Fields(kind, at, b, stop, body, parts)
      BY ONLY <3>5, SMT DEF Fields
    <3> QED
      BY <3>1, <3>3, <3>4, <3>6
  <2> QED
    BY <1>1, <1>5, <2>1, <2>2
<1>12. "IF" \in Blocks /\ WordAt(t, r) \in {"END-IF"} /\ n.stmt = "IF"
  BY <1>2, <1>3, <1>4, <1>8
<1>13. pos' = k /\ errs' = 0 /\ pc' = "parse"
  BY <1>1, <1>4, <1>9
<1> QED
  BY <1>3, <1>8, <1>10, <1>11, <1>12, <1>13, KeepsReading

LEMMA ReadsIfEnd ==
  ASSUME NEW t, NEW src, Situation(t, src), IfEnd
  PROVE  Keeps(t, src)
<1>1. /\ At({"IF"}, "end") /\ ~(Top.part = 1 /\ Token = "ELSE")
      /\ Close(Node("IF", [Top.parts EXCEPT ![Top.part] = Top.body]), "END-IF") /\ pc' = pc
  BY DEF IfEnd
<1>2. {"IF"} \subseteq Blocks \ {"PERFORM"} /\ "DIVISION" \notin {"IF"}
  BY ListsAre
<1>3. PICK n, q : /\ n \in Statements /\ n.stmt = Top.kind
                  /\ BlockBehind(t, Top.kind, Top.part, Top.stop, Top.parts, Top.body, n, pos, q)
                  /\ MayReturn(t, src, stack, n, q)
  BY <1>1, <1>2, BehindList
<1>4. Top.kind = "IF" /\ pc = "parse" /\ Token = WordAt(t, pos) /\ Top.kind \in Blocks
  BY <1>1, <1>2, TopReads
<1>5. IfBehind(t, Top.part, Top.stop, Top.parts, Top.body, n, pos, q)
  BY <1>3, <1>4, ListsAre DEF BlockBehind
<1>6. /\ n = Node("IF", <<n.parts[1], n.parts[2]>>) /\ n.parts[2] \in Seq(Statements)
      /\ <<"ELSE">> \in Seq(Tokens) /\ <<"ELSE">> # <<>> /\ <<"ELSE">>[1] = "ELSE"
  BY <1>3, <1>4, ListsOfBlock, PhrasesAre
<1>7. CASE /\ Top.part = 1 /\ Top.parts = NoLists /\ Top.body = n.parts[1]
           /\ Ends(t, Phrase(<<"ELSE">>, n.parts[2], Text), "END-IF", pos, q)
  <2>1. n.parts[2] = <<>>
    <3>1. PICK words, list : words = <<"ELSE">> /\ list = n.parts[2]
      OBVIOUS
    <3>2. /\ words \in Seq(Tokens) /\ list \in Seq(Statements) /\ words # <<>>
          /\ words[1] = "ELSE" /\ WordAt(t, pos) # "ELSE"
          /\ Ends(t, Phrase(words, list, Text), "END-IF", pos, q)
      BY <1>1, <1>4, <1>6, <1>7, <3>1
    <3>3. list = <<>>
      BY ONLY <3>2, PhraseLeft
    <3> QED
      BY <3>1, <3>3
  <2>2. Ends(t, <<>>, "END-IF", pos, q)
    BY <1>7, <2>1, NoPhraseLeft
  <2>3. [Top.parts EXCEPT ![Top.part] = Top.body] = <<n.parts[1], n.parts[2]>>
    BY <1>7, <2>1, PairsSet DEF NoLists
  <2> QED
    BY <1>1, <1>3, <1>4, <1>6, <2>2, <2>3, KeepsClosing
<1>8. CASE /\ Top.part = 2 /\ Top.parts = <<n.parts[1], <<>>>> /\ Top.body = n.parts[2]
           /\ Ends(t, <<>>, "END-IF", pos, q)
  <2>1. [Top.parts EXCEPT ![Top.part] = Top.body] = <<n.parts[1], n.parts[2]>>
    BY <1>8, PairsSet
  <2> QED
    BY <1>1, <1>3, <1>4, <1>6, <1>8, <2>1, KeepsClosing
<1> QED
  BY <1>5, <1>7, <1>8 DEF IfBehind

LEMMA ReadsPerformEnd ==
  ASSUME NEW t, NEW src, Situation(t, src), PerformEnd
  PROVE  Keeps(t, src)
<1>1. /\ At({"PERFORM"}, "end") /\ stack' = AddTo(Pop, Node("PERFORM", <<Top.body>>))
      /\ pos' = pos /\ errs' = errs /\ pc' = pc
  BY DEF PerformEnd
<1>2. {"PERFORM"} \subseteq Blocks /\ "DIVISION" \notin {"PERFORM"}
  BY ListsAre
<1>3. PICK n, q : /\ n \in Statements /\ n.stmt = Top.kind
                  /\ Between(t, Top.kind, "end", Top.part, Top.body, Top.parts, n, pos, q)
                  /\ MayReturn(t, src, stack, n, q)
  BY <1>1, <1>2, BetweenLists
<1>4. Top.kind = "PERFORM" /\ pc = "parse" /\ errs = 0 /\ Top.kind \in Blocks
  BY <1>1, <1>2, TopReads
<1>5. Top.body = n.parts[1] /\ pos = q
  BY <1>3, <1>4, ListsAre DEF Between
<1>6. n = Node("PERFORM", <<n.parts[1]>>)
  BY <1>3, <1>4, ListsOfBlock
<1> QED
  BY <1>1, <1>3, <1>4, <1>5, <1>6, KeepsReturning

----------------------------------------------------------------------------
(* EVALUATE.                                                                *)

\* The next clause with a value.
WhenAdded(f, at, node) == [f EXCEPT !.at = at, !.parts[1] = Append(@, node)]

LEMMA AppendedIs ==
  ASSUME NEW f, IsFrame(f), NEW at, NEW node, NEW last, last = Append(f.parts[1], node),
         NEW g, g = WhenAdded(f, at, node)
  PROVE  g = Fields(f.kind, at, f.part, f.stop, f.body, [f.parts EXCEPT ![1] = last])
<1>1. PICK kind, a, part, stop, body, parts :
         /\ f = Fields(kind, a, part, stop, body, parts) /\ f.kind = kind /\ f.part = part
         /\ f.stop = stop /\ f.body = body /\ f.parts = parts
  BY DEF IsFrame
<1>2. PICK g1 : g1 = [f EXCEPT !.at = at]
  OBVIOUS
<1>3. PICK longer : longer = [parts EXCEPT ![1] = last]
  OBVIOUS
<1>4. PICK g2 : g2 = [g1 EXCEPT !.parts = longer]
  OBVIOUS
<1>5. g1 = Fields(kind, at, part, stop, body, parts) /\ g1.parts = parts
  BY ONLY <1>1, <1>2, SMT DEF Fields
<1>6. g2 = Fields(kind, at, part, stop, body, longer)
  BY ONLY <1>4, <1>5, SMT DEF Fields
<1>7. [f EXCEPT !.at = at, !.parts[1] = Append(@, node)] = [g1 EXCEPT !.parts[1] = Append(@, node)]
  BY <1>2, Zenon
<1>8. [g1 EXCEPT !.parts[1] = Append(@, node)]
        = [g1 EXCEPT !.parts = [g1.parts EXCEPT ![1] = Append(@, node)]]
  BY Zenon
<1>9. [g1.parts EXCEPT ![1] = Append(@, node)] = longer
  BY <1>1, <1>3, <1>5, Zenon
<1>10. g = g2
  BY <1>4, <1>7, <1>8, <1>9, Zenon DEF WhenAdded
<1> QED
  BY ONLY <1>1, <1>3, <1>6, <1>10, Zenon

\* A phrase that begins with one word.
LEMMA WordLeft ==
  ASSUME NEW t, NEW word, <<word>> \in Seq(Tokens), NEW list \in Seq(Statements),
         NEW closing, NEW p, NEW q, Ends(t, Phrase(<<word>>, list, Text), closing, p, q)
  PROVE  \/ list = <<>> /\ Ends(t, <<>>, closing, p, q) /\ WordAt(t, p) = closing
         \/ /\ list # <<>> /\ WordAt(t, p) = word
            /\ \E r : /\ Reads(t, "loop", <<>>, list, {}, p + 1, r)
                      /\ Ends(t, <<>>, closing, r, q) /\ WordAt(t, r) = closing
<1>1. CASE list = <<>>
  BY <1>1, NoPhraseLeft
<1>2. CASE list # <<>>
  <2>1. PICK words : words = <<word>>
    OBVIOUS
  <2>2. /\ words \in Seq(Tokens) /\ words # <<>> /\ Ends(t, Phrase(words, list, Text), closing, p, q)
    BY <2>1
  <2>3. PICK k, r : /\ Span(t, words, p, k) /\ Reads(t, "loop", <<>>, list, {}, k, r)
                    /\ Ends(t, <<>>, closing, r, q) /\ WordAt(t, r) = closing
    BY ONLY <1>2, <2>2, list \in Seq(Statements), PhraseLeft
  <2>4. k = p + 1 /\ WordAt(t, p) = word
    <3>1. Span(t, <<word>>, p, k)
      BY <2>1, <2>3
    <3> QED
      BY <3>1, SpanWords
  <2> QED
    BY <1>2, <2>3, <2>4
<1> QED
  BY <1>1, <1>2

LEMMA ClausesWord ==
  ASSUME NEW n \in Statements, n.stmt = "EVALUATE", NEW t, NEW k, NEW p, NEW q,
         Clauses(t, n, k, p, q)
  PROVE  WordAt(t, p) \in WhenStop
<1>1. n.parts[2] \in Seq(Statements)
  BY ListsOfBlock
<1>2. \/ WordAt(t, p) = "WHEN"
      \/ Ends(t, Phrase(<<"WHEN-OTHER">>, n.parts[2], Text), "END-EVALUATE", p, q)
  BY ClausesLeft
<1>3. ASSUME Ends(t, Phrase(<<"WHEN-OTHER">>, n.parts[2], Text), "END-EVALUATE", p, q)
      PROVE  WordAt(t, p) = "END-EVALUATE" \/ WordAt(t, p) = "WHEN-OTHER"
  BY <1>1, <1>3, WordLeft, PhrasesAre
<1> QED
  BY <1>2, <1>3 DEF WhenStop

\* Between the clauses of an EVALUATE.
LEMMA AtClauses ==
  ASSUME NEW t, NEW src, Situation(t, src), At({"EVALUATE"}, "clauses")
  PROVE  /\ pc = "parse" /\ errs = 0 /\ IsFrame(Top) /\ Top.kind = "EVALUATE"
         /\ Token = WordAt(t, pos)
         /\ \E n, q : /\ n \in Statements /\ n.stmt = "EVALUATE"
                      /\ EvaluateBetween(t, Top.parts, n, pos, q)
                      /\ MayGoOn(t, src, stack, n, q) /\ MayReturn(t, src, stack, n, q)
<1>1. {"EVALUATE"} \subseteq Blocks /\ "DIVISION" \notin {"EVALUATE"}
  BY ListsAre
<1>2. /\ pc = "parse" /\ errs = 0 /\ IsFrame(Top) /\ Top.kind = "EVALUATE"
      /\ Token = WordAt(t, pos)
  BY <1>1, TopReads
<1>3. PICK n, q : /\ n \in Statements /\ n.stmt = Top.kind
                  /\ Between(t, Top.kind, "clauses", Top.part, Top.body, Top.parts, n, pos, q)
                  /\ MayGoOn(t, src, stack, n, q) /\ MayReturn(t, src, stack, n, q)
  BY <1>1, BetweenLists
<1>4. EvaluateBetween(t, Top.parts, n, pos, q)
  BY <1>2, <1>3, ListsAre DEF Between
<1> QED
  BY <1>2, <1>3, <1>4

LEMMA ReadsEvaluateWhen ==
  ASSUME NEW t, NEW src, Situation(t, src), EvaluateWhen
  PROVE  Keeps(t, src)
<1>1. /\ At({"EVALUATE"}, "clauses") /\ Token \in {"WHEN", "WHEN-OTHER"}
      /\ stack' = StartList(IF Token = "WHEN" THEN 1 ELSE 2, WhenStop)
      /\ pos' = pos + 1 /\ errs' = errs /\ pc' = pc
  BY Zenon DEF EvaluateWhen, WhenStop, Consume
<1>2. /\ pc = "parse" /\ errs = 0 /\ IsFrame(Top) /\ Top.kind = "EVALUATE"
      /\ Token = WordAt(t, pos) /\ Top.kind \in Blocks
  BY <1>1, AtClauses, ListsAre
<1>3. PICK n, q : /\ n \in Statements /\ n.stmt = "EVALUATE"
                  /\ EvaluateBetween(t, Top.parts, n, pos, q) /\ MayGoOn(t, src, stack, n, q)
  BY <1>1, AtClauses
<1>4. n.parts[2] \in Seq(Statements)
  BY <1>3, ListsOfBlock
<1>5. PICK whens : /\ Top.parts = <<whens, <<>>>> /\ Prefix(whens, n.parts[1])
                   /\ Clauses(t, n, Len(whens) + 1, pos, q)
  <2>1. ~Ends(t, <<>>, "END-EVALUATE", pos, q)
    BY <1>1, <1>2, NothingLeft
  <2> QED
    BY <1>3, <2>1 DEF EvaluateBetween
<1>6. PICK w, l \in Nat : w = Len(whens) /\ l = Len(n.parts[1]) /\ w <= l
  BY <1>5 DEF Prefix
<1>7. CASE w + 1 <= l
  <2>1. PICK k : k = Len(whens) + 1
    OBVIOUS
  <2>2. k <= Len(n.parts[1]) /\ k # Len(n.parts[1]) + 1 /\ w < l
    BY <1>6, <1>7, <2>1
  <2>3. Clauses(t, n, k, pos, q)
    BY <1>5, <2>1
  <2>4. PICK list, r : /\ list = n.parts[1][k].parts[1] /\ Token = "WHEN"
                       /\ Reads(t, "loop", <<>>, list, {}, pos + 1, r)
                       /\ Clauses(t, n, k + 1, r, q)
    BY <1>2, <1>3, <2>2, <2>3, ClausesLeft
  <2>5. EvaluateBehind(t, 1, WhenStop, Top.parts, list, n, r, q)
    <3>1. /\ Top.parts = <<whens, <<>>>> /\ Prefix(whens, n.parts[1])
          /\ Len(whens) < Len(n.parts[1]) /\ list = n.parts[1][Len(whens) + 1].parts[1]
          /\ Clauses(t, n, Len(whens) + 1 + 1, r, q)
      BY ONLY <1>5, <1>6, <2>1, <2>2, <2>4
    <3> QED
      BY <3>1, Zenon DEF EvaluateBehind
  <2>6. BlockBehind(t, Top.kind, 1, WhenStop, Top.parts, list, n, r, q)
    BY <1>2, <2>5 DEF BlockBehind
  <2>7. WordAt(t, r) \in WhenStop
    BY <1>3, <2>4, ClausesWord
  <2>8. stack' = StartList(1, WhenStop) /\ errs' = 0 /\ pc' = "parse"
    BY <1>1, <1>2, <2>4, Zenon
  <2> QED
    BY <1>1, <1>2, <1>3, <2>4, <2>6, <2>7, <2>8, KeepsStarting
<1>8. CASE ~(w + 1 <= l)
  <2>1. whens = n.parts[1]
    BY <1>5, <1>6, <1>8, PrefixFull
  <2>2. PICK k : k = Len(whens) + 1 /\ ~(k <= Len(n.parts[1]))
    BY <1>6, <1>8
  <2>3. Clauses(t, n, k, pos, q)
    BY <1>5, <2>2
  <2>4. Ends(t, Phrase(<<"WHEN-OTHER">>, n.parts[2], Text), "END-EVALUATE", pos, q)
    BY <1>3, <2>2, <2>3, ClausesLeft
  <2>5. /\ Token = "WHEN-OTHER"
        /\ \E r : /\ Reads(t, "loop", <<>>, n.parts[2], {}, pos + 1, r)
                  /\ Ends(t, <<>>, "END-EVALUATE", r, q) /\ WordAt(t, r) = "END-EVALUATE"
    BY <1>1, <1>2, <1>4, <2>4, WordLeft, PhrasesAre
  <2>6. PICK r : /\ Reads(t, "loop", <<>>, n.parts[2], {}, pos + 1, r)
                 /\ Ends(t, <<>>, "END-EVALUATE", r, q) /\ WordAt(t, r) = "END-EVALUATE"
    BY <2>5
  <2>7. BlockBehind(t, Top.kind, 2, WhenStop, Top.parts, n.parts[2], n, r, q)
    BY <1>2, <1>5, <2>1, <2>6 DEF BlockBehind, EvaluateBehind
  <2>8. WordAt(t, r) \in WhenStop
    BY <2>6 DEF WhenStop
  <2>9. stack' = StartList(2, WhenStop) /\ errs' = 0 /\ pc' = "parse"
    <3>1. Token # "WHEN"
      BY <2>5
    <3> QED
      BY <1>1, <1>2, <3>1, Zenon
  <2> QED
    BY <1>1, <1>2, <1>3, <2>6, <2>7, <2>8, <2>9, KeepsStarting
<1> QED
  BY <1>7, <1>8

LEMMA ReadsEvaluateBodyEnd ==
  ASSUME NEW t, NEW src, Situation(t, src), EvaluateBodyEnd
  PROVE  Keeps(t, src)
<1>1. /\ At({"EVALUATE"}, "end") /\ pos' = pos /\ errs' = errs /\ pc' = pc
  BY DEF EvaluateBodyEnd
<1>2. {"EVALUATE"} \subseteq Blocks \ {"PERFORM"} /\ "DIVISION" \notin {"EVALUATE"}
  BY ListsAre
<1>3. PICK n, q : /\ n \in Statements /\ n.stmt = Top.kind
                  /\ BlockBehind(t, Top.kind, Top.part, Top.stop, Top.parts, Top.body, n, pos, q)
                  /\ MayGoOn(t, src, stack, n, q)
  BY <1>1, <1>2, BehindList
<1>4. Top.kind = "EVALUATE" /\ pc = "parse" /\ errs = 0 /\ IsFrame(Top)
  BY <1>1, <1>2, TopReads
<1>5. EvaluateBehind(t, Top.part, Top.stop, Top.parts, Top.body, n, pos, q)
  BY <1>3, <1>4, ListsAre DEF BlockBehind
<1>6. ASSUME Top.part = 1,
             NEW whens, Top.parts = <<whens, <<>>>>, Prefix(whens, n.parts[1]),
             Len(whens) < Len(n.parts[1]), Top.body = n.parts[1][Len(whens) + 1].parts[1],
             Clauses(t, n, Len(whens) + 1 + 1, pos, q)
      PROVE  Keeps(t, src)
  <2>1. PICK k : k = Len(whens) + 1
    OBVIOUS
  <2>2. PICK node : node = Node("WHEN", <<Top.body>>)
    OBVIOUS
  <2>3. n.parts[1] \in Seq(WhensOver(Seq(Statements))) /\ Text \in Texts
    BY <1>3, <1>4, StatementIs, TextDefined
  <2>4. k \in DOMAIN n.parts[1]
    <3>1. PICK w, l \in Nat : w = Len(whens) /\ l = Len(n.parts[1]) /\ w < l
      BY <1>6 DEF Prefix
    <3>2. k \in 1..l /\ DOMAIN n.parts[1] = 1..l
      BY <2>1, <2>3, <3>1
    <3> QED
      BY <3>2
  <2>5. n.parts[1][k] = node
    BY <1>6, <2>1, <2>2, <2>3, <2>4, WhensType
  <2>6. PICK longer : longer = Append(whens, node)
    OBVIOUS
  <2>7. Prefix(longer, n.parts[1]) /\ Len(longer) = k
    BY <1>6, <2>1, <2>5, <2>6, PrefixGrows
  <2>8. stack' = SetTop(Fields("EVALUATE", "clauses", Top.part, Top.stop, Top.body, <<longer, <<>>>>))
    <3>1. stack' = SetTop(WhenAdded(Top, "clauses", node))
      BY <1>6, <2>2, Zenon DEF EvaluateBodyEnd, WhenAdded
    <3>2. longer = Append(Top.parts[1], node) /\ [Top.parts EXCEPT ![1] = longer] = <<longer, <<>>>>
      BY ONLY <1>6, <2>6, PairsSet
    <3>3. PICK g : g = WhenAdded(Top, "clauses", node)
      OBVIOUS
    <3>4. g = Fields("EVALUATE", "clauses", Top.part, Top.stop, Top.body, <<longer, <<>>>>)
      <4>1. g = Fields(Top.kind, "clauses", Top.part, Top.stop, Top.body,
                       [Top.parts EXCEPT ![1] = longer])
        <5>1. IsFrame(Top) /\ longer = Append(Top.parts[1], node)
          BY <1>4, <3>2
        <5> QED
          BY ONLY <3>3, <5>1, AppendedIs, Zenon
      <4> QED
        BY ONLY <1>4, <3>2, <4>1, Zenon
    <3> QED
      BY <3>1, <3>3, <3>4, Zenon
  <2>9. EvaluateBetween(t, <<longer, <<>>>>, n, pos, q)
    <3>1. Clauses(t, n, Len(longer) + 1, pos, q)
      BY <1>6, <2>1, <2>7
    <3> QED
      BY <2>7, <3>1, Zenon DEF EvaluateBetween
  <2>10. Between(t, "EVALUATE", "clauses", Top.part, Top.body, <<longer, <<>>>>, n, pos, q)
    BY <1>3, <1>4, <2>9 DEF Between
  <2> QED
    BY <1>1, <1>3, <1>4, <2>8, <2>10, KeepsBetween
<1>7. CASE /\ Top.part = 2 /\ Top.parts = <<n.parts[1], <<>>>> /\ Top.body = n.parts[2]
           /\ Ends(t, <<>>, "END-EVALUATE", pos, q)
  <2>1. stack' = StoreList("clauses")
    BY <1>7 DEF EvaluateBodyEnd
  <2>2. [Top.parts EXCEPT ![Top.part] = Top.body] = n.parts
    <3>1. n.parts = <<n.parts[1], n.parts[2]>>
      BY <1>3, <1>4, ListsOfBlock
    <3> QED
      BY <1>7, <3>1, PairsSet
  <2>3. Between(t, Top.kind, "clauses", Top.part, Top.body, n.parts, n, pos, q)
    BY <1>3, <1>4, <1>7 DEF Between, EvaluateBetween
  <2> QED
    BY <1>1, <1>3, <1>4, <2>1, <2>2, <2>3, KeepsStoring
<1> QED
  BY <1>5, <1>6, <1>7 DEF EvaluateBehind

\* Nothing is skipped between its clauses, and its end is found.
LEMMA ReadsEvaluateEnd ==
  ASSUME NEW t, NEW src, Situation(t, src)
  PROVE  ~EvaluateSkip /\ (EvaluateEnd => Keeps(t, src))
<1> SUFFICES ASSUME At({"EVALUATE"}, "clauses") PROVE ~EvaluateSkip /\ (EvaluateEnd => Keeps(t, src))
  BY DEF EvaluateSkip, EvaluateEnd
<1>1. /\ pc = "parse" /\ errs = 0 /\ IsFrame(Top) /\ Top.kind = "EVALUATE"
      /\ Token = WordAt(t, pos) /\ Top.kind \in Blocks
  BY AtClauses, ListsAre
<1>2. PICK n, q : /\ n \in Statements /\ n.stmt = "EVALUATE"
                  /\ EvaluateBetween(t, Top.parts, n, pos, q) /\ MayReturn(t, src, stack, n, q)
  BY AtClauses
<1>3. n.parts = <<n.parts[1], n.parts[2]>> /\ n = Node("EVALUATE", n.parts) /\ n.parts[2] \in Seq(Statements)
  BY <1>2, ListsOfBlock
<1>4. Token \in WhenStop
  <2>1. CASE Ends(t, <<>>, "END-EVALUATE", pos, q)
    BY <1>1, <2>1, NothingLeft DEF WhenStop
  <2>2. CASE ~Ends(t, <<>>, "END-EVALUATE", pos, q)
    <3>1. \E k : Clauses(t, n, k, pos, q)
      BY <1>2, <2>2, Zenon DEF EvaluateBetween
    <3> QED
      BY <1>1, <1>2, <3>1, ClausesWord
  <2> QED
    BY <2>1, <2>2
<1>5. ~AtEnd
  BY <1>4 DEF WhenStop, Token, TokenAt, AtEnd, Situation, ParseInv
<1>6. ASSUME EvaluateEnd PROVE Keeps(t, src)
  <2>1. Token = "END-EVALUATE" /\ Close(Node("EVALUATE", Top.parts), "END-EVALUATE") /\ pc' = pc
    BY <1>5, <1>6 DEF EvaluateEnd
  <2>2. CASE Top.parts = n.parts /\ Ends(t, <<>>, "END-EVALUATE", pos, q)
    BY <1>1, <1>2, <1>3, <2>1, <2>2, KeepsClosing
  <2>3. ASSUME NEW whens, Top.parts = <<whens, <<>>>>, Prefix(whens, n.parts[1]),
               Clauses(t, n, Len(whens) + 1, pos, q)
        PROVE  Keeps(t, src)
    <3>1. PICK k : k = Len(whens) + 1
      OBVIOUS
    <3>2. Clauses(t, n, k, pos, q)
      BY <2>3, <3>1
    <3>3. /\ k = Len(n.parts[1]) + 1
          /\ Ends(t, Phrase(<<"WHEN-OTHER">>, n.parts[2], Text), "END-EVALUATE", pos, q)
      BY <1>1, <1>2, <2>1, <3>2, ClausesLeft
    <3>4. n.parts[2] = <<>> /\ Ends(t, <<>>, "END-EVALUATE", pos, q)
      <4>1. WordAt(t, pos) # "WHEN-OTHER"
        BY <1>1, <2>1
      <4>2. /\ <<"WHEN-OTHER">> \in Seq(Tokens) /\ n.parts[2] \in Seq(Statements)
            /\ Ends(t, Phrase(<<"WHEN-OTHER">>, n.parts[2], Text), "END-EVALUATE", pos, q)
        BY <1>3, <3>3, PhrasesAre
      <4> QED
        BY ONLY <4>1, <4>2, WordLeft
    <3>5. whens = n.parts[1]
      <4>1. ~(Len(whens) < Len(n.parts[1]))
        BY <2>3, <3>1, <3>3 DEF Prefix
      <4> QED
        BY <2>3, <4>1, PrefixFull
    <3>6. Node("EVALUATE", Top.parts) = n
      BY <1>3, <2>3, <3>4, <3>5
    <3> QED
      BY <1>1, <1>2, <2>1, <3>4, <3>6, KeepsClosing
  <2> QED
    BY <1>2, <2>2, <2>3 DEF EvaluateBetween
<1> QED
  BY <1>4, <1>5, <1>6 DEF WhenStop, EvaluateSkip

----------------------------------------------------------------------------
(* The phrases of STRING and of the HTTP verbs.                             *)

\* At the phrase of a list, all of its words come next, or none of them.
LEMMA PhraseRead ==
  ASSUME NEW t, NEW src, Situation(t, src), NEW words \in Seq(Tokens), words # <<>>,
         NEW list \in Seq(Statements), NEW closing, NEW q,
         Ends(t, Phrase(words, list, Text), closing, pos, q)
  PROVE  \/ list = <<>> /\ Token = closing /\ Ends(t, <<>>, closing, pos, q)
         \/ /\ list # <<>> /\ Token = words[1] /\ Matched(words) = Len(words)
            /\ \E r : /\ Reads(t, "loop", <<>>, list, {}, pos + Matched(words), r)
                      /\ Ends(t, <<>>, closing, r, q) /\ WordAt(t, r) = closing
<1>1. Token = WordAt(t, pos)
  BY DEF Situation, ParseInv, Token, TokenAt, WordAt
<1>2. CASE list = <<>>
  BY <1>1, <1>2, NoPhraseLeft
<1>3. CASE list # <<>>
  <2>1. WordAt(t, pos) = words[1]
    BY <1>3, PhraseLeft
  <2>2. PICK k, r : /\ Span(t, words, pos, k) /\ Reads(t, "loop", <<>>, list, {}, k, r)
                    /\ Ends(t, <<>>, closing, r, q) /\ WordAt(t, r) = closing
    BY <1>3, PhraseLeft
  <2>3. Matched(words) = Len(words) /\ k = pos + Matched(words)
    BY <2>2, MatchesSpan
  <2> QED
    BY <1>1, <1>3, <2>1, <2>2, <2>3
<1> QED
  BY <1>2, <1>3

LEMMA NoPhrase ==
  ASSUME NEW words, NEW text, NEW other, other \in Seq(Tokens)
  PROVE  /\ Phrase(words, <<>>, text) = <<>> /\ <<>> \o other = other /\ other \o <<>> = other
  BY DEF Phrase

LEMMA PhraseWords ==
  /\ OverflowPhrase(1) # <<>> /\ Len(OverflowPhrase(1)) = 2 /\ OverflowPhrase(1)[1] = "ON"
  /\ OverflowPhrase(2) # <<>> /\ Len(OverflowPhrase(2)) = 3 /\ OverflowPhrase(2)[1] = "NOT"
  /\ OnException # <<>> /\ Len(OnException) = 2 /\ OnException[1] = "ON"
  /\ NotException # <<>> /\ Len(NotException) = 2 /\ NotException[1] = "NOT"
  /\ NotOnException # <<>> /\ Len(NotOnException) = 3 /\ NotOnException[1] = "NOT"
  BY DEF OverflowPhrase, OnException, NotException, NotOnException

\* Between the lists of a STRING.
LEMMA AtOverflow ==
  ASSUME NEW t, NEW src, Situation(t, src), At({"STRING"}, "clauses")
  PROVE  /\ pc = "parse" /\ errs = 0 /\ pos \in Nat /\ IsFrame(Top) /\ Top.kind = "STRING"
         /\ Top.at = "clauses" /\ Top.kind \in Blocks
         /\ \E n, q : /\ n \in Statements /\ n.stmt = "STRING"
                      /\ StringBetween(t, Top.part, Top.parts, n, pos, q)
                      /\ MayGoOn(t, src, stack, n, q) /\ MayReturn(t, src, stack, n, q)
<1>1. {"STRING"} \subseteq Blocks /\ "DIVISION" \notin {"STRING"}
  BY ListsAre
<1>2. /\ pc = "parse" /\ errs = 0 /\ pos \in Nat /\ IsFrame(Top) /\ Top.kind = "STRING"
      /\ Top.at = "clauses"
  BY <1>1, TopReads
<1>3. PICK n, q : /\ n \in Statements /\ n.stmt = Top.kind
                  /\ Between(t, Top.kind, "clauses", Top.part, Top.body, Top.parts, n, pos, q)
                  /\ MayGoOn(t, src, stack, n, q) /\ MayReturn(t, src, stack, n, q)
  BY <1>1, BetweenLists
<1>4. StringBetween(t, Top.part, Top.parts, n, pos, q)
  BY <1>2, <1>3, ListsAre DEF Between
<1> QED
  BY <1>1, <1>2, <1>3, <1>4

\* The phrase for a part is not there.
LEMMA StringSkips ==
  ASSUME NEW t, NEW src, Situation(t, src), StringPhrase, NEW phrase,
         phrase = OverflowPhrase(Top.part + 1), Matched(phrase) = 0, Len(phrase) # 0,
         NEW n, n.stmt = "STRING", NEW q, MayGoOn(t, src, stack, n, q),
         StringBetween(t, Top.part + 1, Top.parts, n, pos, q)
  PROVE  Keeps(t, src)
<1>1. /\ pc = "parse" /\ errs = 0 /\ pos \in Nat /\ IsFrame(Top) /\ Top.kind = "STRING"
      /\ Top.at = "clauses"
  BY AtOverflow DEF StringPhrase
<1>2. /\ stack' = SetTop([Top EXCEPT !.part = @ + 1]) /\ pos' = pos + 0
      /\ errs' = errs /\ pc' = pc
  BY Zenon DEF StringPhrase, Consume
<1>3. stack' = SetTop(Fields("STRING", "clauses", Top.part + 1, Top.stop, Top.body, Top.parts))
  BY <1>1, <1>2, PartIsSet, Zenon
<1>4. Between(t, "STRING", "clauses", Top.part + 1, Top.body, Top.parts, n, pos, q)
  BY DEF Between
<1>5. pos' = pos /\ errs' = 0 /\ pc' = "parse"
  BY <1>1, <1>2
<1> QED
  BY <1>3, <1>4, <1>5, KeepsBetween

\* It is there.
LEMMA StringReads ==
  ASSUME NEW t, NEW src, Situation(t, src), StringPhrase, NEW phrase,
         phrase = OverflowPhrase(Top.part + 1), Matched(phrase) = Len(phrase),
         NEW n, n.stmt = "STRING", NEW q, MayGoOn(t, src, stack, n, q), NEW list, NEW r,
         Reads(t, "loop", <<>>, list, {}, pos + Matched(phrase), r), WordAt(t, r) = "END-STRING",
         StringBehind(t, Top.part + 1, {"END-STRING"}, Top.parts, list, n, r, q)
  PROVE  Keeps(t, src)
<1>1. /\ pc = "parse" /\ errs = 0 /\ IsFrame(Top) /\ Top.kind = "STRING" /\ Top.kind \in Blocks
  BY AtOverflow DEF StringPhrase
<1>2. /\ stack' = StartList(Top.part + 1, {"END-STRING"}) /\ pos' = pos + Matched(phrase)
      /\ errs' = errs /\ pc' = pc
  BY Zenon DEF StringPhrase, Consume
<1>3. BlockBehind(t, Top.kind, Top.part + 1, {"END-STRING"}, Top.parts, list, n, r, q)
  BY <1>1 DEF BlockBehind
<1>4. WordAt(t, r) \in {"END-STRING"} /\ errs' = 0 /\ pc' = "parse"
  BY <1>1, <1>2
<1> QED
  BY <1>1, <1>2, <1>3, <1>4, KeepsStarting

LEMMA ReadsStringPhrase ==
  ASSUME NEW t, NEW src, Situation(t, src), StringPhrase
  PROVE  Keeps(t, src)
<1>1. pos \in Nat /\ Top.part < 2 /\ At({"STRING"}, "clauses")
  BY AtOverflow DEF StringPhrase
<1>2. PICK n, q : /\ n \in Statements /\ n.stmt = "STRING"
                  /\ StringBetween(t, Top.part, Top.parts, n, pos, q)
                  /\ MayGoOn(t, src, stack, n, q)
  BY <1>1, AtOverflow
<1>3. PICK p1, p2 \in Seq(Statements) : p1 = n.parts[1] /\ p2 = n.parts[2]
  BY <1>2, ListsOfBlock
<1>4. n.parts = <<p1, p2>> /\ (p1 = <<>> \/ p2 = <<>>)
  BY <1>2, <1>3, ListsOfBlock, StatementIs
<1>5. PICK on, noton \in Seq(Tokens) :
         /\ on = OverflowPhrase(1) /\ noton = OverflowPhrase(2)
         /\ on # <<>> /\ Len(on) = 2 /\ on[1] = "ON"
         /\ noton # <<>> /\ Len(noton) = 3 /\ noton[1] = "NOT"
  BY PhrasesAre, PhraseWords
<1>6. /\ Phrase(on, p1, Text) \in Seq(Tokens) /\ Phrase(noton, p2, Text) \in Seq(Tokens)
  BY PhraseType, TextDefined
<1>7. CASE /\ Top.part = 0 /\ Top.parts = NoLists
           /\ Ends(t, Phrase(on, p1, Text) \o Phrase(noton, p2, Text), "END-STRING", pos, q)
  <2>1. CASE p1 = <<>>
    <3>1. Ends(t, Phrase(noton, p2, Text), "END-STRING", pos, q)
      BY <1>6, <1>7, <2>1, NoPhrase
    <3>2. Token = "END-STRING" \/ Token = "NOT"
      BY <1>5, <3>1, PhraseRead
    <3>3. Matched(on) = 0
      BY <1>1, <1>5, <3>2, MatchesNothing
    <3>4. StringBetween(t, Top.part + 1, Top.parts, n, pos, q)
      BY <1>3, <1>5, <1>7, <2>1, <3>1 DEF StringBetween, NoLists
    <3> QED
      BY <1>2, <1>5, <1>7, <3>3, <3>4, StringSkips
  <2>2. CASE p1 # <<>>
    <3>1. p2 = <<>>
      BY <1>4, <2>2
    <3>2. Ends(t, Phrase(on, p1, Text), "END-STRING", pos, q)
      BY <1>6, <1>7, <3>1, NoPhrase
    <3>3. Matched(on) = Len(on)
      BY <1>5, <2>2, <3>2, PhraseRead
    <3>4. PICK r : /\ Reads(t, "loop", <<>>, p1, {}, pos + Matched(on), r)
                   /\ Ends(t, <<>>, "END-STRING", r, q) /\ WordAt(t, r) = "END-STRING"
      BY <1>5, <2>2, <3>2, PhraseRead
    <3>5. StringBehind(t, Top.part + 1, {"END-STRING"}, Top.parts, p1, n, r, q)
      BY <1>3, <1>7, <3>1, <3>4 DEF StringBehind
    <3> QED
      BY <1>2, <1>5, <1>7, <3>3, <3>4, <3>5, StringReads
  <2> QED
    BY <2>1, <2>2
<1>8. CASE /\ Top.part = 1 /\ Top.parts = <<p1, <<>>>>
           /\ Ends(t, Phrase(noton, p2, Text), "END-STRING", pos, q)
  <2>1. CASE p2 = <<>>
    <3>1. Token = "END-STRING" /\ Ends(t, <<>>, "END-STRING", pos, q)
      BY <1>5, <1>8, <2>1, PhraseRead
    <3>2. Matched(noton) = 0
      BY <1>1, <1>5, <3>1, MatchesNothing
    <3>3. StringBetween(t, Top.part + 1, Top.parts, n, pos, q)
      BY <1>4, <1>8, <2>1, <3>1 DEF StringBetween
    <3> QED
      <4>1. noton = OverflowPhrase(Top.part + 1) /\ Len(noton) # 0
        BY <1>5, <1>8
      <4> QED
        BY <1>2, <3>2, <3>3, <4>1, StringSkips
  <2>2. CASE p2 # <<>>
    <3>1. Matched(noton) = Len(noton)
      BY <1>5, <1>8, <2>2, PhraseRead
    <3>2. PICK r : /\ Reads(t, "loop", <<>>, p2, {}, pos + Matched(noton), r)
                   /\ Ends(t, <<>>, "END-STRING", r, q) /\ WordAt(t, r) = "END-STRING"
      BY <1>5, <1>8, <2>2, PhraseRead
    <3>3. StringBehind(t, Top.part + 1, {"END-STRING"}, Top.parts, p2, n, r, q)
      BY <1>3, <1>8, <3>2 DEF StringBehind
    <3> QED
      BY <1>2, <1>5, <1>8, <3>1, <3>2, <3>3, StringReads
  <2> QED
    BY <2>1, <2>2
<1> QED
  BY <1>1, <1>2, <1>3, <1>5, <1>7, <1>8 DEF StringBetween

LEMMA ReadsStringBodyEnd ==
  ASSUME NEW t, NEW src, Situation(t, src), StringBodyEnd
  PROVE  Keeps(t, src)
<1>1. /\ At({"STRING"}, "end") /\ stack' = StoreList("clauses")
      /\ pos' = pos /\ errs' = errs /\ pc' = pc
  BY DEF StringBodyEnd
<1>2. {"STRING"} \subseteq Blocks \ {"PERFORM"} /\ "DIVISION" \notin {"STRING"}
  BY ListsAre
<1>3. PICK n, q : /\ n \in Statements /\ n.stmt = Top.kind
                  /\ BlockBehind(t, Top.kind, Top.part, Top.stop, Top.parts, Top.body, n, pos, q)
                  /\ MayGoOn(t, src, stack, n, q)
  BY <1>1, <1>2, BehindList
<1>4. Top.kind = "STRING" /\ pc = "parse" /\ errs = 0 /\ IsFrame(Top)
  BY <1>1, <1>2, TopReads
<1>5. StringBehind(t, Top.part, Top.stop, Top.parts, Top.body, n, pos, q)
  BY <1>3, <1>4, ListsAre DEF BlockBehind
<1>6. n.parts = <<n.parts[1], n.parts[2]>> /\ Ends(t, <<>>, "END-STRING", pos, q)
  BY <1>3, <1>4, <1>5, ListsOfBlock DEF StringBehind
<1>7. CASE Top.part = 1 /\ Top.parts = NoLists /\ Top.body = n.parts[1] /\ n.parts[2] = <<>>
  <2>1. [Top.parts EXCEPT ![Top.part] = Top.body] = <<n.parts[1], <<>>>>
    BY <1>7, PairsSet DEF NoLists
  <2>2. Ends(t, Phrase(OverflowPhrase(2), n.parts[2], Text), "END-STRING", pos, q)
    BY <1>6, <1>7 DEF Phrase
  <2>3. Between(t, Top.kind, "clauses", Top.part, Top.body, <<n.parts[1], <<>>>>, n, pos, q)
    BY <1>3, <1>4, <1>7, <2>2 DEF Between, StringBetween
  <2> QED
    BY <1>1, <1>3, <1>4, <2>1, <2>3, KeepsStoring
<1>8. CASE Top.part = 2 /\ Top.parts = <<n.parts[1], <<>>>> /\ Top.body = n.parts[2]
  <2>1. [Top.parts EXCEPT ![Top.part] = Top.body] = n.parts
    BY <1>6, <1>8, PairsSet
  <2>2. Between(t, Top.kind, "clauses", Top.part, Top.body, n.parts, n, pos, q)
    BY <1>3, <1>4, <1>6, <1>8 DEF Between, StringBetween
  <2> QED
    BY <1>1, <1>3, <1>4, <2>1, <2>2, KeepsStoring
<1> QED
  BY <1>5, <1>7, <1>8 DEF StringBehind

LEMMA ReadsStringEnd ==
  ASSUME NEW t, NEW src, Situation(t, src), StringEnd
  PROVE  Keeps(t, src)
<1>1. /\ At({"STRING"}, "clauses") /\ Top.part = 2 /\ Close(Node("STRING", Top.parts), "END-STRING")
      /\ pc' = pc
  BY DEF StringEnd
<1>2. pc = "parse" /\ Top.kind \in Blocks
  BY <1>1, AtOverflow
<1>3. PICK n, q : /\ n \in Statements /\ n.stmt = "STRING"
                  /\ StringBetween(t, Top.part, Top.parts, n, pos, q)
                  /\ MayReturn(t, src, stack, n, q)
  BY <1>1, AtOverflow
<1>4. Top.parts = n.parts /\ Ends(t, <<>>, "END-STRING", pos, q)
  BY <1>1, <1>3 DEF StringBetween
<1>5. n = Node("STRING", Top.parts)
  BY <1>3, <1>4, ListsOfBlock
<1> QED
  BY <1>1, <1>2, <1>3, <1>4, <1>5, KeepsClosing

\* The phrases of HTTP-GET.
LEMMA GetPhrases ==
  ASSUME NEW t, NEW src, Situation(t, src), NEW n \in Statements, n.stmt = "HTTP-GET", NEW q,
         Ends(t, GetText(n.parts, Text), "END-HTTP", pos, q)
  PROVE  \/ n.parts = NoLists /\ Ends(t, <<>>, "END-HTTP", pos, q)
         \/ /\ Token = "ON" /\ Matched(OnException) = 2
            /\ \E r : /\ Reads(t, "loop", <<>>, n.parts[1], {}, pos + Matched(OnException), r)
                      /\ Ends(t, Phrase(NotException, n.parts[2], Text), "END-HTTP", r, q)
<1>1. CASE n.parts = NoLists
  <2>1. GetText(n.parts, Text) = <<>>
    BY <1>1 DEF GetText, NoLists
  <2> QED
    BY <1>1, <2>1
<1>2. CASE n.parts # NoLists
  <2>1. PICK p1, p2 \in Seq(Statements) : p1 = n.parts[1] /\ p2 = n.parts[2]
    BY ListsOfBlock, ListsAre
  <2>2. PICK first, second \in Seq(Tokens) : /\ first = ListText(p1, {}, Text)
                                             /\ second = Phrase(NotException, p2, Text)
    BY PiecesType, PhraseType, PhrasesAre, TextDefined
  <2>3. GetText(n.parts, Text) = OnException \o (first \o second)
    BY <1>2, <2>1, <2>2 DEF GetText, NoLists
  <2>4. first \o second \in Seq(Tokens) /\ OnException \in Seq(Tokens)
    BY <2>2, PhrasesAre, ConcatProperties
  <2>5. PICK k : Span(t, OnException, pos, k) /\ Ends(t, first \o second, "END-HTTP", k, q)
    BY <2>3, <2>4, EndsSplit
  <2>6. PICK r : Span(t, first, k, r) /\ Ends(t, second, "END-HTTP", r, q)
    BY <2>2, <2>5, EndsSplit
  <2>7. Reads(t, "loop", <<>>, p1, {}, k, r)
    BY <2>2, <2>6, ReadingStarts
  <2>8. Matched(OnException) = 2 /\ k = pos + Matched(OnException)
    BY <2>5, MatchesSpan, PhraseWords
  <2>9. Token = "ON"
    <3>1. WordAt(t, pos) = "ON"
      BY <2>5, SpanIs, PhraseWords
    <3> QED
      BY <3>1 DEF Situation, Token, TokenAt, WordAt
  <2> QED
    BY <2>1, <2>2, <2>6, <2>7, <2>8, <2>9
<1> QED
  BY <1>1, <1>2

\* The phrases of HTTP-LISTEN and HTTP-RESPOND.
LEMMA OtherPhrases ==
  ASSUME NEW t, NEW src, Situation(t, src), NEW p1 \in Seq(Statements), NEW p2 \in Seq(Statements),
         NEW q, Ends(t, Phrase(NotOnException, p2, Text) \o Phrase(OnException, p1, Text),
                     "END-HTTP", pos, q)
  PROVE  \/ p2 = <<>> /\ Ends(t, Phrase(OnException, p1, Text), "END-HTTP", pos, q)
         \/ /\ Token = "NOT" /\ Matched(NotOnException) = 3
            /\ \E r : /\ Reads(t, "loop", <<>>, p2, {}, pos + Matched(NotOnException), r)
                      /\ Ends(t, Phrase(OnException, p1, Text), "END-HTTP", r, q)
<1>1. PICK first, second \in Seq(Tokens) : /\ first = Phrase(NotOnException, p2, Text)
                                           /\ second = Phrase(OnException, p1, Text)
  BY PhraseType, PhrasesAre, TextDefined
<1>2. PICK r : Span(t, first, pos, r) /\ Ends(t, second, "END-HTTP", r, q)
  BY <1>1, EndsSplit
<1>3. CASE p2 = <<>>
  <2>1. first = <<>>
    BY <1>1, <1>3 DEF Phrase
  <2>2. pos = r
    BY <1>2, <2>1, SpanIs
  <2> QED
    BY <1>1, <1>2, <1>3, <2>2
<1>4. CASE p2 # <<>>
  <2>1. NotOnException \in Seq(Tokens) /\ Span(t, Phrase(NotOnException, p2, Text), pos, r)
    BY <1>1, <1>2, PhrasesAre
  <2>2. PICK k : Span(t, NotOnException, pos, k) /\ Reads(t, "loop", <<>>, p2, {}, k, r)
    BY <1>4, <2>1, PhraseThere
  <2>3. Matched(NotOnException) = 3 /\ k = pos + Matched(NotOnException)
    BY <2>2, MatchesSpan, PhraseWords
  <2>4. Token = "NOT"
    <3>1. WordAt(t, pos) = "NOT"
      BY <2>2, SpanIs, PhraseWords
    <3> QED
      BY <3>1 DEF Situation, Token, TokenAt, WordAt
  <2> QED
    BY <1>1, <1>2, <2>2, <2>3, <2>4
<1> QED
  BY <1>3, <1>4

\* Between the lists of an HTTP verb.
LEMMA AtException ==
  ASSUME NEW t, NEW src, Situation(t, src), NEW kinds \in SUBSET HttpVerbs,
         NEW at \in {"clauses", "not"}, At(kinds, at)
  PROVE  /\ pc = "parse" /\ errs = 0 /\ pos \in Nat /\ IsFrame(Top) /\ Top.kind \in kinds
         /\ Top.at = at /\ Top.kind \in Blocks
         /\ \E n, q : /\ n \in Statements /\ n.stmt = Top.kind
                      /\ \/ Top.kind = "HTTP-GET" /\ GetBetween(t, at, Top.parts, n, pos, q)
                         \/ Top.kind # "HTTP-GET" /\ OtherHttpBetween(t, at, Top.parts, n, pos, q)
                      /\ MayGoOn(t, src, stack, n, q) /\ MayReturn(t, src, stack, n, q)
<1>1. kinds \subseteq Blocks /\ "DIVISION" \notin kinds
  BY ListsAre
<1>2. /\ pc = "parse" /\ errs = 0 /\ pos \in Nat /\ IsFrame(Top) /\ Top.kind \in kinds
      /\ Top.at = at
  BY <1>1, TopReads
<1>3. PICK n, q : /\ n \in Statements /\ n.stmt = Top.kind
                  /\ Between(t, Top.kind, at, Top.part, Top.body, Top.parts, n, pos, q)
                  /\ MayGoOn(t, src, stack, n, q) /\ MayReturn(t, src, stack, n, q)
  BY <1>1, BetweenLists
<1>4. Top.kind \in HttpVerbs
  BY <1>2
<1>5. \/ Top.kind = "HTTP-GET" /\ GetBetween(t, at, Top.parts, n, pos, q)
      \/ Top.kind # "HTTP-GET" /\ OtherHttpBetween(t, at, Top.parts, n, pos, q)
  BY <1>3, <1>4, ListsAre DEF Between
<1> QED
  BY <1>1, <1>2, <1>3, <1>5

LEMMA ReadsHttpOn ==
  ASSUME NEW t, NEW src, Situation(t, src), HttpOn
  PROVE  Keeps(t, src)
<1>1. /\ At(HttpVerbs, "clauses") /\ Token = "ON" /\ pos' = pos + Matched(OnException)
      /\ Matched(OnException) = 2 => stack' = StartList(1, {"NOT", "END-HTTP"})
      /\ errs' = errs /\ pc' = pc
  BY Zenon DEF HttpOn, Consume, OnException
<1>2. HttpVerbs \in SUBSET HttpVerbs /\ "clauses" \in {"clauses", "not"}
  OBVIOUS
<1>3. pc = "parse" /\ errs = 0 /\ IsFrame(Top) /\ Top.kind \in HttpVerbs /\ Top.kind \in Blocks
  BY <1>1, <1>2, AtException
<1>4. PICK n, q : /\ n \in Statements /\ n.stmt = Top.kind
                  /\ \/ Top.kind = "HTTP-GET" /\ GetBetween(t, "clauses", Top.parts, n, pos, q)
                     \/ /\ Top.kind # "HTTP-GET"
                        /\ OtherHttpBetween(t, "clauses", Top.parts, n, pos, q)
                  /\ MayGoOn(t, src, stack, n, q)
  BY <1>1, <1>2, AtException
<1>5. PICK p1, p2 \in Seq(Statements) : p1 = n.parts[1] /\ p2 = n.parts[2]
  BY <1>3, <1>4, ListsOfBlock
<1>6. ~Ends(t, <<>>, "END-HTTP", pos, q)
  <2>1. Token = WordAt(t, pos)
    BY DEF Situation, ParseInv, Token, TokenAt, WordAt
  <2> QED
    BY <1>1, <2>1, NothingLeft
<1>7. ASSUME Matched(OnException) = 2, NEW r,
             Reads(t, "loop", <<>>, p1, {}, pos + Matched(OnException), r),
             WordAt(t, r) \in {"NOT", "END-HTTP"},
             BlockBehind(t, Top.kind, 1, {"NOT", "END-HTTP"}, Top.parts, p1, n, r, q)
      PROVE  Keeps(t, src)
  <2>1. stack' = StartList(1, {"NOT", "END-HTTP"}) /\ errs' = 0 /\ pc' = "parse"
    BY <1>1, <1>3, <1>7
  <2> QED
    BY <1>1, <1>3, <1>4, <1>7, <2>1, KeepsStarting
<1>8. CASE Top.kind = "HTTP-GET" /\ GetBetween(t, "clauses", Top.parts, n, pos, q)
  <2>1. Top.parts = NoLists /\ Ends(t, GetText(n.parts, Text), "END-HTTP", pos, q)
    BY <1>6, <1>8 DEF GetBetween
  <2>2. /\ Matched(OnException) = 2
        /\ \E r : /\ Reads(t, "loop", <<>>, n.parts[1], {}, pos + Matched(OnException), r)
                  /\ Ends(t, Phrase(NotException, n.parts[2], Text), "END-HTTP", r, q)
    BY <1>4, <1>6, <1>8, <2>1, GetPhrases
  <2>3. PICK r : /\ Reads(t, "loop", <<>>, p1, {}, pos + Matched(OnException), r)
                 /\ Ends(t, Phrase(NotException, p2, Text), "END-HTTP", r, q)
    BY <1>5, <2>2
  <2>4. WordAt(t, r) \in {"NOT", "END-HTTP"}
    BY <2>3, PhraseWord, PhrasesAre, PhraseWords
  <2>5. BlockBehind(t, Top.kind, 1, {"NOT", "END-HTTP"}, Top.parts, p1, n, r, q)
    BY <1>5, <1>8, <2>1, <2>3 DEF BlockBehind, GetBehind
  <2> QED
    BY <1>7, <2>2, <2>3, <2>4, <2>5
<1>9. CASE Top.kind # "HTTP-GET" /\ OtherHttpBetween(t, "clauses", Top.parts, n, pos, q)
  <2>1. Top.parts = <<<<>>, p2>> /\ Ends(t, Phrase(OnException, p1, Text), "END-HTTP", pos, q)
    <3>1. CASE /\ Top.parts = NoLists
               /\ Ends(t, Phrase(NotOnException, p2, Text) \o Phrase(OnException, p1, Text),
                       "END-HTTP", pos, q)
      BY <1>1, <3>1, OtherPhrases DEF NoLists
    <3> QED
      BY <1>5, <1>6, <1>9, <3>1 DEF OtherHttpBetween
  <2>2. /\ Matched(OnException) = Len(OnException)
        /\ \E r : /\ Reads(t, "loop", <<>>, p1, {}, pos + Matched(OnException), r)
                  /\ Ends(t, <<>>, "END-HTTP", r, q) /\ WordAt(t, r) = "END-HTTP"
    <3>1. OnException \in Seq(Tokens) /\ OnException # <<>>
      BY PhrasesAre, PhraseWords
    <3> QED
      BY <1>6, <2>1, <3>1, PhraseRead
  <2>3. PICK r : /\ Reads(t, "loop", <<>>, p1, {}, pos + Matched(OnException), r)
                 /\ Ends(t, <<>>, "END-HTTP", r, q) /\ WordAt(t, r) = "END-HTTP"
    BY <2>2
  <2>4. BlockBehind(t, Top.kind, 1, {"NOT", "END-HTTP"}, Top.parts, p1, n, r, q)
    BY <1>3, <1>5, <1>9, <2>1, <2>3 DEF BlockBehind, OtherHttpBehind
  <2> QED
    BY <1>7, <2>2, <2>3, <2>4, PhraseWords
<1> QED
  BY <1>4, <1>8, <1>9

LEMMA ReadsHttpNot ==
  ASSUME NEW t, NEW src, Situation(t, src), HttpNot
  PROVE  Keeps(t, src)
<1>1. /\ At(HttpVerbs, "not") /\ pos' = pos + Matched(NotException)
      /\ Matched(NotException) = 2 /\ Top.kind = "HTTP-GET" => stack' = StartList(2, {"END-HTTP"})
      /\ Matched(NotException) # 2 => stack' = SetTop([Top EXCEPT !.at = "clauses"])
      /\ errs' = errs /\ pc' = pc
  BY Zenon DEF HttpNot, Consume, NotException
<1>2. HttpVerbs \in SUBSET HttpVerbs /\ "not" \in {"clauses", "not"}
  OBVIOUS
<1>3. /\ pc = "parse" /\ errs = 0 /\ pos \in Nat /\ IsFrame(Top) /\ Top.kind \in HttpVerbs
      /\ Top.kind \in Blocks
  BY <1>1, <1>2, AtException
<1>4. PICK n, q : /\ n \in Statements /\ n.stmt = Top.kind
                  /\ \/ Top.kind = "HTTP-GET" /\ GetBetween(t, "not", Top.parts, n, pos, q)
                     \/ /\ Top.kind # "HTTP-GET"
                        /\ OtherHttpBetween(t, "not", Top.parts, n, pos, q)
                  /\ MayGoOn(t, src, stack, n, q)
  BY <1>1, <1>2, AtException
<1>5. PICK p1, p2 \in Seq(Statements) : p1 = n.parts[1] /\ p2 = n.parts[2]
  BY <1>3, <1>4, ListsOfBlock
<1>6. n.parts = <<p1, p2>>
  BY <1>3, <1>4, <1>5, ListsOfBlock
<1>7. ASSUME Token = "END-HTTP", Ends(t, <<>>, "END-HTTP", pos, q), Top.parts = n.parts
      PROVE  Keeps(t, src)
  <2>1. Matched(NotException) = 0
    BY <1>3, <1>7, MatchesNothing, PhraseWords
  <2>2. stack' = SetTop(Fields(Top.kind, "clauses", Top.part, Top.stop, Top.body, Top.parts))
    <3>1. stack' = SetTop([Top EXCEPT !.at = "clauses"])
      BY <1>1, <2>1
    <3> QED
      BY <1>3, <3>1, AtIsSet, Zenon
  <2>3. pos' = pos /\ errs' = 0 /\ pc' = "parse"
    BY <1>1, <1>3, <2>1
  <2>4. Between(t, Top.kind, "clauses", Top.part, Top.body, Top.parts, n, pos, q)
    BY <1>3, <1>4, <1>7 DEF Between, GetBetween, OtherHttpBetween
  <2> QED
    BY <1>4, <2>2, <2>3, <2>4, KeepsBetween
<1>8. CASE Top.kind = "HTTP-GET" /\ GetBetween(t, "not", Top.parts, n, pos, q)
  <2>1. Top.parts = <<p1, <<>>>> /\ Ends(t, Phrase(NotException, p2, Text), "END-HTTP", pos, q)
    BY <1>5, <1>8 DEF GetBetween
  <2>2. NotException \in Seq(Tokens) /\ NotException # <<>> /\ Len(NotException) = 2
    BY PhrasesAre, PhraseWords
  <2>3. CASE p2 = <<>>
    BY <1>6, <1>7, <2>1, <2>2, <2>3, PhraseRead
  <2>4. CASE p2 # <<>>
    <3>1. Matched(NotException) = 2
      BY <2>1, <2>2, <2>4, PhraseRead
    <3>2. PICK r : /\ Reads(t, "loop", <<>>, p2, {}, pos + Matched(NotException), r)
                   /\ Ends(t, <<>>, "END-HTTP", r, q) /\ WordAt(t, r) = "END-HTTP"
      BY <2>1, <2>2, <2>4, PhraseRead
    <3>3. BlockBehind(t, Top.kind, 2, {"END-HTTP"}, Top.parts, p2, n, r, q)
      BY <1>5, <1>8, <2>1, <3>2 DEF BlockBehind, GetBehind
    <3>4. /\ stack' = StartList(2, {"END-HTTP"}) /\ errs' = 0 /\ pc' = "parse"
          /\ WordAt(t, r) \in {"END-HTTP"}
      BY <1>1, <1>3, <1>8, <3>1, <3>2
    <3> QED
      BY <1>1, <1>3, <1>4, <3>2, <3>3, <3>4, KeepsStarting
  <2> QED
    BY <2>3, <2>4
<1>9. CASE Top.kind # "HTTP-GET" /\ OtherHttpBetween(t, "not", Top.parts, n, pos, q)
  <2>1. Top.parts = n.parts /\ Ends(t, <<>>, "END-HTTP", pos, q)
    BY <1>9 DEF OtherHttpBetween
  <2>2. Token = WordAt(t, pos)
    BY DEF Situation, ParseInv, Token, TokenAt, WordAt
  <2> QED
    BY <1>7, <2>1, <2>2, NothingLeft
<1> QED
  BY <1>4, <1>8, <1>9

LEMMA ReadsHttpNotFirst ==
  ASSUME NEW t, NEW src, Situation(t, src), HttpNotFirst
  PROVE  Keeps(t, src)
<1> DEFINE verbs == HttpVerbs \ {"HTTP-GET"}
<1>1. /\ At(verbs, "clauses") /\ Token = "NOT" /\ pos' = pos + Matched(NotOnException)
      /\ Matched(NotOnException) = 3 => stack' = StartList(2, {"ON", "END-HTTP"})
      /\ errs' = errs /\ pc' = pc
  BY Zenon DEF HttpNotFirst, Consume, NotOnException
<1>2. verbs \in SUBSET HttpVerbs /\ "clauses" \in {"clauses", "not"}
  OBVIOUS
<1>3. pc = "parse" /\ errs = 0 /\ IsFrame(Top) /\ Top.kind \in verbs /\ Top.kind \in Blocks
  BY <1>1, <1>2, AtException
<1>4. PICK n, q : /\ n \in Statements /\ n.stmt = Top.kind
                  /\ OtherHttpBetween(t, "clauses", Top.parts, n, pos, q)
                  /\ MayGoOn(t, src, stack, n, q)
  <2> HIDE DEF verbs
  <2>1. PICK n, q : /\ n \in Statements /\ n.stmt = Top.kind
                    /\ \/ Top.kind = "HTTP-GET"
                       \/ OtherHttpBetween(t, "clauses", Top.parts, n, pos, q)
                    /\ MayGoOn(t, src, stack, n, q)
    BY <1>1, <1>2, AtException
  <2> QED
    BY <1>3, <2>1 DEF verbs
<1>5. PICK p1, p2 \in Seq(Statements) : p1 = n.parts[1] /\ p2 = n.parts[2]
  BY <1>3, <1>4, ListsOfBlock
<1>6. Token = WordAt(t, pos)
  BY DEF Situation, ParseInv, Token, TokenAt, WordAt
<1>7. ~Ends(t, <<>>, "END-HTTP", pos, q)
  BY <1>1, <1>6, NothingLeft
<1>8. ~Ends(t, Phrase(OnException, p1, Text), "END-HTTP", pos, q)
  <2>1. OnException \in Seq(Tokens) /\ OnException # <<>> /\ OnException[1] = "ON"
    BY PhrasesAre, PhraseWords
  <2> QED
    BY <1>1, <1>6, <2>1, PhraseWord
<1>9. /\ Top.parts = NoLists
      /\ Ends(t, Phrase(NotOnException, p2, Text) \o Phrase(OnException, p1, Text), "END-HTTP",
              pos, q)
  BY <1>4, <1>5, <1>7, <1>8 DEF OtherHttpBetween
<1>10. /\ Matched(NotOnException) = 3
       /\ \E r : /\ Reads(t, "loop", <<>>, p2, {}, pos + Matched(NotOnException), r)
                 /\ Ends(t, Phrase(OnException, p1, Text), "END-HTTP", r, q)
  BY <1>8, <1>9, OtherPhrases
<1>11. PICK r : /\ Reads(t, "loop", <<>>, p2, {}, pos + Matched(NotOnException), r)
                /\ Ends(t, Phrase(OnException, p1, Text), "END-HTTP", r, q)
  BY <1>10
<1>12. WordAt(t, r) \in {"ON", "END-HTTP"}
  BY <1>11, PhraseWord, PhrasesAre, PhraseWords
<1>13. BlockBehind(t, Top.kind, 2, {"ON", "END-HTTP"}, Top.parts, p2, n, r, q)
  BY <1>3, <1>5, <1>9, <1>11 DEF BlockBehind, OtherHttpBehind
<1>14. stack' = StartList(2, {"ON", "END-HTTP"}) /\ errs' = 0 /\ pc' = "parse"
  BY <1>1, <1>3, <1>10
<1> QED
  BY <1>1, <1>3, <1>4, <1>11, <1>12, <1>13, <1>14, KeepsStarting

LEMMA ReadsHttpBodyEnd ==
  ASSUME NEW t, NEW src, Situation(t, src), HttpBodyEnd
  PROVE  Keeps(t, src)
<1>1. /\ At(HttpVerbs, "end") /\ pos' = pos /\ errs' = errs /\ pc' = pc
      /\ Top.part = 1 => stack' = StoreList("not")
      /\ Top.part = 2 => stack' = StoreList("clauses")
  BY DEF HttpBodyEnd
<1>2. HttpVerbs \subseteq Blocks \ {"PERFORM"} /\ "DIVISION" \notin HttpVerbs
  BY ListsAre
<1>3. PICK n, q : /\ n \in Statements /\ n.stmt = Top.kind
                  /\ BlockBehind(t, Top.kind, Top.part, Top.stop, Top.parts, Top.body, n, pos, q)
                  /\ MayGoOn(t, src, stack, n, q)
  BY <1>1, <1>2, BehindList
<1>4. Top.kind \in HttpVerbs /\ pc = "parse" /\ errs = 0 /\ IsFrame(Top)
  BY <1>1, <1>2, TopReads
<1>5. PICK p1, p2 : p1 = n.parts[1] /\ p2 = n.parts[2] /\ n.parts = <<p1, p2>>
  BY <1>3, <1>4, ListsOfBlock
<1>6. ASSUME NEW at, stack' = StoreList(at), NEW parts,
             [Top.parts EXCEPT ![Top.part] = Top.body] = parts,
             Between(t, Top.kind, at, Top.part, Top.body, parts, n, pos, q)
      PROVE  Keeps(t, src)
  BY <1>1, <1>3, <1>4, <1>6, KeepsStoring
<1>7. CASE Top.kind = "HTTP-GET"
  <2>1. GetBehind(t, Top.part, Top.stop, Top.parts, Top.body, n, pos, q)
    BY <1>3, <1>7, ListsAre DEF BlockBehind
  <2>2. CASE /\ Top.part = 1 /\ Top.parts = NoLists /\ Top.body = p1
             /\ Ends(t, Phrase(NotException, n.parts[2], Text), "END-HTTP", pos, q)
    <3>1. [Top.parts EXCEPT ![Top.part] = Top.body] = <<p1, <<>>>>
      BY <2>2, PairsSet DEF NoLists
    <3>2. Between(t, Top.kind, "not", Top.part, Top.body, <<p1, <<>>>>, n, pos, q)
      BY <1>3, <1>5, <1>7, <2>2 DEF Between, GetBetween
    <3> QED
      BY <1>1, <1>6, <2>2, <3>1, <3>2
  <2>3. CASE /\ Top.part = 2 /\ Top.parts = <<p1, <<>>>> /\ Top.body = p2
             /\ Ends(t, <<>>, "END-HTTP", pos, q)
    <3>1. [Top.parts EXCEPT ![Top.part] = Top.body] = n.parts
      BY <1>5, <2>3, PairsSet
    <3>2. Between(t, Top.kind, "clauses", Top.part, Top.body, n.parts, n, pos, q)
      BY <1>3, <1>7, <2>3 DEF Between, GetBetween
    <3> QED
      BY <1>1, <1>6, <2>3, <3>1, <3>2
  <2> QED
    BY <1>5, <2>1, <2>2, <2>3 DEF GetBehind
<1>8. CASE Top.kind # "HTTP-GET"
  <2>1. OtherHttpBehind(t, Top.part, Top.stop, Top.parts, Top.body, n, pos, q)
    BY <1>3, <1>4, <1>8, ListsAre DEF BlockBehind
  <2>2. CASE /\ Top.part = 2 /\ Top.parts = NoLists /\ Top.body = p2
             /\ Ends(t, Phrase(OnException, n.parts[1], Text), "END-HTTP", pos, q)
    <3>1. [Top.parts EXCEPT ![Top.part] = Top.body] = <<<<>>, p2>>
      BY <2>2, PairsSet DEF NoLists
    <3>2. Between(t, Top.kind, "clauses", Top.part, Top.body, <<<<>>, p2>>, n, pos, q)
      BY <1>3, <1>4, <1>5, <1>8, <2>2 DEF Between, OtherHttpBetween
    <3> QED
      BY <1>1, <1>6, <2>2, <3>1, <3>2
  <2>3. CASE /\ Top.part = 1 /\ Top.parts = <<<<>>, p2>> /\ Top.body = p1
             /\ Ends(t, <<>>, "END-HTTP", pos, q)
    <3>1. [Top.parts EXCEPT ![Top.part] = Top.body] = n.parts
      BY <1>5, <2>3, PairsSet
    <3>2. Between(t, Top.kind, "not", Top.part, Top.body, n.parts, n, pos, q)
      BY <1>3, <1>4, <1>8, <2>3 DEF Between, OtherHttpBetween
    <3> QED
      BY <1>1, <1>6, <2>3, <3>1, <3>2
  <2> QED
    BY <1>5, <2>1, <2>2, <2>3 DEF OtherHttpBehind
<1> QED
  BY <1>7, <1>8

LEMMA ReadsHttpEnd ==
  ASSUME NEW t, NEW src, Situation(t, src), HttpEnd
  PROVE  Keeps(t, src)
<1>1. /\ At(HttpVerbs, "clauses") /\ Token # "ON" /\ (Token # "NOT" \/ Top.kind = "HTTP-GET")
      /\ stack' = AddTo(Pop, Node(Top.kind, Top.parts))
      /\ Token = "END-HTTP" => pos' = pos + 1
      /\ errs' = errs /\ pc' = pc
  BY DEF HttpEnd, Consume
<1>2. HttpVerbs \in SUBSET HttpVerbs /\ "clauses" \in {"clauses", "not"}
  OBVIOUS
<1>3. pc = "parse" /\ errs = 0 /\ Top.kind \in HttpVerbs /\ Top.kind \in Blocks
  BY <1>1, <1>2, AtException
<1>4. PICK n, q : /\ n \in Statements /\ n.stmt = Top.kind
                  /\ \/ Top.kind = "HTTP-GET" /\ GetBetween(t, "clauses", Top.parts, n, pos, q)
                     \/ /\ Top.kind # "HTTP-GET"
                        /\ OtherHttpBetween(t, "clauses", Top.parts, n, pos, q)
                  /\ MayReturn(t, src, stack, n, q)
  BY <1>1, <1>2, AtException
<1>5. PICK p1, p2 \in Seq(Statements) : p1 = n.parts[1] /\ p2 = n.parts[2]
  BY <1>3, <1>4, ListsOfBlock
<1>6. n.parts = <<p1, p2>> /\ n = Node(Top.kind, n.parts)
  BY <1>3, <1>4, <1>5, ListsOfBlock
<1>7. Top.parts = n.parts /\ Ends(t, <<>>, "END-HTTP", pos, q)
  <2>1. CASE Top.kind = "HTTP-GET" /\ GetBetween(t, "clauses", Top.parts, n, pos, q)
    <3>1. CASE Top.parts = NoLists /\ Ends(t, GetText(n.parts, Text), "END-HTTP", pos, q)
      BY <1>1, <1>4, <2>1, <3>1, GetPhrases
    <3> QED
      BY <2>1, <3>1 DEF GetBetween
  <2>2. CASE Top.kind # "HTTP-GET" /\ OtherHttpBetween(t, "clauses", Top.parts, n, pos, q)
    <3>1. ASSUME Top.parts = <<<<>>, p2>>, Ends(t, Phrase(OnException, p1, Text), "END-HTTP", pos, q)
          PROVE  Top.parts = n.parts /\ Ends(t, <<>>, "END-HTTP", pos, q)
      <4>1. p1 = <<>> /\ Ends(t, <<>>, "END-HTTP", pos, q)
        BY <1>1, <3>1, PhraseRead, PhrasesAre, PhraseWords
      <4> QED
        BY <1>6, <3>1, <4>1
    <3>2. CASE /\ Top.parts = NoLists
               /\ Ends(t, Phrase(NotOnException, p2, Text) \o Phrase(OnException, p1, Text),
                       "END-HTTP", pos, q)
      <4>1. p2 = <<>> /\ Ends(t, Phrase(OnException, p1, Text), "END-HTTP", pos, q)
        BY <1>1, <2>2, <3>2, OtherPhrases
      <4> QED
        BY <3>1, <3>2, <4>1 DEF NoLists
    <3> QED
      BY <1>5, <2>2, <3>1, <3>2 DEF OtherHttpBetween
  <2> QED
    BY <1>4, <2>1, <2>2
<1>8. q = pos + 1 /\ Token = "END-HTTP"
  <2>1. Token = WordAt(t, pos)
    BY DEF Situation, ParseInv, Token, TokenAt, WordAt
  <2> QED
    BY <1>7, <2>1, NothingLeft
<1> QED
  BY <1>1, <1>3, <1>4, <1>6, <1>7, <1>8, KeepsReturning

----------------------------------------------------------------------------
(* The paragraphs of a program.                                             *)

LEMMA ParagraphIs ==
  ASSUME NEW src \in Sources, NEW i \in 1..Len(src)
  PROVE  /\ src[i].stmts \in Seq(Statements) /\ src[i].stmts # <<>>
         /\ Len(src[i].stmts) \in src[i].ends
         /\ ListText(src[i].stmts, src[i].ends, Text) \in Seq(Tokens)
         /\ ParagraphText(src[i], Text) \in Seq(Tokens)
<1> DEFINE Paragraph == [stmts : Seq(Statements), ends : SUBSET Nat]
<1>1. src \in Seq(Paragraph) /\ \A k \in DOMAIN src : src[k].stmts # <<>> /\ Len(src[k].stmts) \in src[k].ends
  BY SourcesAssumption
<1>2. PICK stmts, ends : stmts = src[i].stmts /\ ends = src[i].ends
  OBVIOUS
<1>3. stmts \in Seq(Statements) /\ stmts # <<>> /\ Len(stmts) \in ends
  <2>1. i \in DOMAIN src /\ src[i] \in Paragraph
    <3> HIDE DEF Paragraph
    <3> QED
      BY <1>1
  <2>2. src[i].stmts \in Seq(Statements)
    BY <2>1
  <2> QED
    BY <1>1, <1>2, <2>1, <2>2
<1>4. ListText(stmts, ends, Text) \in Seq(Tokens)
  BY <1>3, TextDefined, PiecesType
<1>5. PICK name : name = <<"NAME", "PERIOD">> /\ name \in Seq(Tokens)
  BY PhrasesAre
<1>6. name \o ListText(stmts, ends, Text) \in Seq(Tokens)
  BY ONLY <1>4, <1>5, ConcatProperties
<1>7. ParagraphText(src[i], Text) = name \o ListText(stmts, ends, Text)
  BY <1>2, <1>5, Zenon DEF ParagraphText
<1> QED
  BY <1>2, <1>3, <1>4, <1>6, <1>7

LEMMA ProgramIs ==
  ASSUME NEW src \in Sources
  PROVE  /\ Len(src) \in Nat
         /\ ParagraphTexts(src) \in Seq(Seq(Tokens)) /\ Len(ParagraphTexts(src)) = Len(src)
         /\ \A i \in 1..Len(src) : ParagraphTexts(src)[i] = ParagraphText(src[i], Text)
         /\ ProgramText(src, Text) = FlattenSeq(ParagraphTexts(src))
         /\ ProgramText(src, Text) \in Seq(Tokens)
         /\ IsSeq(AstOf(src)) /\ Len(AstOf(src)) = Len(src)
         /\ \A i \in 1..Len(src) : AstOf(src)[i] = Node("PARAGRAPH", <<src[i].stmts>>)
<1>1. PICK n \in Nat : n = Len(src) /\ DOMAIN src = 1..n
  BY SourcesAssumption
<1>2. ParagraphTexts(src) \in [1..n -> Seq(Tokens)]
  <2>1. \A i \in 1..n : ParagraphText(src[i], Text) \in Seq(Tokens)
    BY <1>1, ParagraphIs
  <2> QED
    BY <1>1, <2>1, Zenon DEF ParagraphTexts
<1>3. ParagraphTexts(src) \in Seq(Seq(Tokens)) /\ Len(ParagraphTexts(src)) = n
  BY ONLY <1>2, n \in Nat
<1>4. \A i \in 1..n : ParagraphTexts(src)[i] = ParagraphText(src[i], Text)
  BY <1>1, Zenon DEF ParagraphTexts
<1>5. ProgramText(src, Text) = FlattenSeq(ParagraphTexts(src))
  BY Zenon DEF ProgramText, ParagraphTexts
<1>6. ProgramText(src, Text) \in Seq(Tokens)
  BY <1>3, <1>5, FlattenedType
<1>7. PICK ast : ast = AstOf(src) /\ ast = [i \in 1..n |-> Node("PARAGRAPH", <<src[i].stmts>>)]
  BY <1>1 DEF AstOf
<1>8. \A i \in 1..n : ast[i] = Node("PARAGRAPH", <<src[i].stmts>>)
  BY <1>7, Zenon
<1>9. IsSeq(ast) /\ Len(ast) = n
  <2>1. DOMAIN ast = 1..n
    BY <1>7, Zenon
  <2>2. PICK S : S = {ast[i] : i \in 1..n}
    OBVIOUS
  <2>3. ast \in [1..n -> S]
    BY <1>7, <1>8, <2>2, Zenon
  <2>4. ast \in Seq(S) /\ Len(ast) = n
    BY ONLY <2>3, n \in Nat
  <2> QED
    BY <2>1, <2>2, <2>4 DEF IsSeq
<1> QED
  BY <1>1, <1>3, <1>4, <1>5, <1>6, <1>7, <1>8, <1>9

\* The next paragraph, and what comes behind it.
LEMMA ParagraphBegins ==
  ASSUME NEW t, NEW src \in Sources, NEW j, NEW p, j <= Len(src),
         Row(t, ParagraphTexts(src), j, p, Len(t) + 1)
  PROVE  /\ j \in 1..Len(src)
         /\ \E m : /\ Span(t, <<"NAME", "PERIOD">>, p, p + 2)
                   /\ Reads(t, "loop", <<>>, src[j].stmts, src[j].ends, p + 2, m)
                   /\ Row(t, ParagraphTexts(src), j + 1, m, Len(t) + 1)
<1>1. PICK n \in Nat : n = Len(src) /\ n = Len(ParagraphTexts(src))
  BY ProgramIs
<1>2. j \in 1..n
  BY <1>1 DEF Row
<1>3. PICK m : /\ Span(t, ParagraphTexts(src)[j], p, m)
               /\ Row(t, ParagraphTexts(src), j + 1, m, Len(t) + 1)
  BY <1>1, RowFirst
<1>4. PICK stmts, ends, name :
        stmts = src[j].stmts /\ ends = src[j].ends /\ name = <<"NAME", "PERIOD">>
  OBVIOUS
<1>5. /\ stmts \in Seq(Statements) /\ stmts # <<>> /\ name \in Seq(Tokens)
      /\ ListText(stmts, ends, Text) \in Seq(Tokens)
  BY <1>1, <1>2, <1>4, ParagraphIs, PhrasesAre
<1>6. Span(t, name \o ListText(stmts, ends, Text), p, m)
  BY <1>1, <1>2, <1>3, <1>4, ProgramIs DEF ParagraphText
<1>7. PICK k : Span(t, name, p, k) /\ Span(t, ListText(stmts, ends, Text), k, m)
  BY ONLY <1>5, <1>6, SpanSplit
<1>8. k = p + 2
  BY <1>4, <1>7, SpanWords
<1>9. Reads(t, "loop", <<>>, stmts, ends, p + 2, m)
  BY <1>5, <1>7, <1>8, ReadingStarts
<1> QED
  BY <1>1, <1>2, <1>3, <1>4, <1>7, <1>8, <1>9

LEMMA BehindParagraph ==
  ASSUME NEW t \in Seq(Tokens), NEW src \in Sources, NEW j \in 1..Len(src), NEW m,
         Row(t, ParagraphTexts(src), j + 1, m, Len(t) + 1)
  PROVE  ParagraphBehind(t, ScopeTerminators, src[j].stmts, src[j].ends, src[j], m, m)
<1>1. PICK n \in Nat : n = Len(src) /\ n = Len(ParagraphTexts(src))
  BY ProgramIs
<1>2. m = Len(t) + 1 \/ (WordAt(t, m) = "NAME" /\ WordAt(t, m + 1) = "PERIOD" /\ m < Len(t))
  <2>1. CASE j = n
    BY <1>1, <2>1, RowEnd
  <2>2. CASE j # n
    <3>1. j + 1 <= n
      BY <1>1, <2>2
    <3>2. Span(t, <<"NAME", "PERIOD">>, m, m + 2)
      BY <1>1, <3>1, ParagraphBegins
    <3>3. PICK u, v, k : u = "NAME" /\ v = "PERIOD" /\ Span(t, <<u, v>>, m, k)
      BY <3>2
    <3>4. m \in Nat /\ m + 1 <= Len(t) /\ WordAt(t, m) = u /\ WordAt(t, m + 1) = v
      BY ONLY <3>3, SpanWords
    <3>5. Len(t) \in Nat
      OBVIOUS
    <3> QED
      BY ONLY <3>3, <3>4, <3>5
  <2> QED
    BY <2>1, <2>2
<1>3. src[j].stmts # <<>> /\ Len(src[j].stmts) \in src[j].ends
  BY ParagraphIs
<1> QED
  BY <1>2, <1>3 DEF ParagraphBehind

----------------------------------------------------------------------------
(* parseProcedureDivision and parseParagraph.                                *)

\* Between two paragraphs.
LEMMA InDivision ==
  ASSUME NEW t, NEW src \in Sources, Situation(t, src), At({"DIVISION"}, "clauses")
  PROVE  /\ pc = "parse" /\ errs = 0 /\ Len(stack) = 1 /\ AreCalls(stack)
         /\ pos \in Nat /\ t = tokens /\ t \in Seq(Tokens)
         /\ Prefix(stack[1].body, AstOf(src)) /\ Len(stack[1].body) \in Nat
         /\ Row(t, ParagraphTexts(src), Len(stack[1].body) + 1, pos, Len(t) + 1)
         /\ AtEnd <=> ~(Len(stack[1].body) < Len(src))
<1>1. /\ pc = "parse" /\ Len(stack) = 1 /\ AreCalls(stack) /\ pos \in Nat /\ t = tokens
      /\ t \in Seq(Tokens)
  BY TopIs DEF At, Situation, ParseInv
<1>2. PICK body : body = stack[1].body
  OBVIOUS
<1>3. errs = 0 /\ Prefix(body, AstOf(src)) /\ Row(t, ParagraphTexts(src), Len(body) + 1, pos, Len(t) + 1)
  BY <1>1, <1>2 DEF Situation, Follows
<1>4. PICK n, l \in Nat : n = Len(body) /\ l = Len(src) /\ n <= l /\ Len(ParagraphTexts(src)) = l
  BY <1>3, ProgramIs DEF Prefix
<1>5. CASE n < l
  <2>1. Span(t, <<"NAME", "PERIOD">>, pos, pos + 2)
    <3>1. PICK j : j = n + 1 /\ j <= Len(src) /\ Row(t, ParagraphTexts(src), j, pos, Len(t) + 1)
      BY <1>3, <1>4, <1>5
    <3> QED
      BY <3>1, ParagraphBegins
  <2>2. PICK u, v, k : u = "NAME" /\ v = "PERIOD" /\ Span(t, <<u, v>>, pos, k)
    BY <2>1
  <2>3. pos + 1 <= Len(t)
    BY ONLY <2>2, SpanWords
  <2>4. ~AtEnd
    BY <1>1, <2>3 DEF AtEnd
  <2> QED
    BY <1>1, <1>2, <1>3, <1>4, <1>5, <2>4
<1>6. CASE ~(n < l)
  <2>1. pos = Len(t) + 1
    BY <1>3, <1>4, <1>6, RowEnd
  <2>2. AtEnd
    BY <1>1, <2>1 DEF AtEnd
  <2> QED
    BY <1>1, <1>2, <1>3, <1>4, <1>6, <2>2
<1> QED
  BY <1>5, <1>6

LEMMA ReadsParagraphStart ==
  ASSUME NEW t, NEW src \in Sources, Situation(t, src), ParagraphStart
  PROVE  Keeps(t, src)
<1>1. At({"DIVISION"}, "clauses") /\ ~AtEnd /\ errs' = errs /\ pc' = pc
  BY DEF ParagraphStart
<1>2. PICK body : body = stack[1].body
  OBVIOUS
<1> DEFINE n == Len(body)
<1>3. /\ pc = "parse" /\ errs = 0 /\ Len(stack) = 1 /\ AreCalls(stack) /\ pos \in Nat
      /\ t \in Seq(Tokens) /\ Prefix(body, AstOf(src)) /\ n \in Nat /\ n < Len(src)
      /\ Row(t, ParagraphTexts(src), n + 1, pos, Len(t) + 1)
  BY <1>1, <1>2, InDivision
<1> HIDE DEF n
<1>4. PICK j, m :
        /\ j = n + 1 /\ j \in 1..Len(src)
        /\ Span(t, <<"NAME", "PERIOD">>, pos, pos + 2)
        /\ Reads(t, "loop", <<>>, src[j].stmts, src[j].ends, pos + 2, m)
        /\ Row(t, ParagraphTexts(src), j + 1, m, Len(t) + 1)
  <2>1. Len(src) \in Nat
    BY ProgramIs
  <2>2. PICK j : j = n + 1 /\ j <= Len(src) /\ Row(t, ParagraphTexts(src), j, pos, Len(t) + 1)
    BY <1>3, <2>1
  <2> QED
    BY <2>2, ParagraphBegins
<1>5. AtParagraphName
  <2>1. PICK words : words = <<"NAME", "PERIOD">>
    OBVIOUS
  <2>2. Matched(words) = Len(words)
    BY <1>4, <2>1, MatchesSpan
  <2> QED
    BY ONLY <2>1, <2>2 DEF AtParagraphName
<1>6. PICK f : f = Fields("PARAGRAPH", "loop", 1, ScopeTerminators, <<>>, <<<<>>>>)
  OBVIOUS
<1>7. stack' = Append(stack, f) /\ pos' = pos + 2
  BY <1>5, <1>6 DEF ParagraphStart, Consume, Frame, Fields
<1>8. Reading(t, f, src[j], pos + 2, m)
  <2>1. Behind(t, "PARAGRAPH", 1, ScopeTerminators, <<<<>>>>, src[j].stmts, src[j].ends, src[j], m, m)
    BY <1>3, <1>4, BehindParagraph DEF Behind
  <2> QED
    BY <1>4, <1>6, <2>1, InListReads
<1>9. Len(stack') = 2 /\ stack'[2] = f /\ stack'[1] = stack[1]
  <2>1. IsSeq(stack) /\ Len(stack) = 1
    BY <1>3 DEF AreCalls
  <2>2. PICK s : s = Append(stack, f)
    OBVIOUS
  <2>3. /\ Len(s) = Len(stack) + 1 /\ s[Len(stack) + 1] = f
        /\ \A i \in 1..Len(stack) : s[i] = stack[i]
    BY ONLY <2>1, <2>2, AppendSeq
  <2>4. Len(s) = 2 /\ s[2] = f /\ s[1] = stack[1]
    BY ONLY <2>1, <2>3
  <2> QED
    BY ONLY <1>7, <2>2, <2>4
<1>10. PICK nodes, fins : nodes = [i \in {2} |-> src[j]] /\ fins = [i \in {2} |-> m]
  OBVIOUS
<1>11. nodes[2] = src[j] /\ fins[2] = m
  BY <1>10
<1>12. Chain(t, stack', nodes, fins, pos + 2)
  <2>1. 2..(2 - 1) = {} /\ 3..2 = {}
    OBVIOUS
  <2> QED
    BY ONLY <1>8, <1>9, <1>11, <2>1 DEF Chain
<1>13. Row(t, ParagraphTexts(src), n + 2, m, Len(t) + 1)
  <2>1. j + 1 = n + 2
    BY <1>3, <1>4
  <2> QED
    BY <1>4, <2>1
<1>14. Follows(t, src, stack', pos + 2, 0, "parse")
  <2>1. stack'[1].body = body /\ Len(stack') > 1 /\ Len(stack') # 1
    BY <1>2, <1>9
  <2> QED
    BY <1>2, <1>3, <1>4, <1>11, <1>12, <1>13, <2>1, ChainFollows DEF n
<1> QED
  BY <1>1, <1>3, <1>7, <1>14 DEF Keeps

LEMMA ReadsParagraphEnd ==
  ASSUME NEW t, NEW src \in Sources, Situation(t, src), ParagraphEnd
  PROVE  Keeps(t, src)
<1>1. At({"PARAGRAPH", "ANONYMOUS"}, "end") /\ errs' = errs /\ pos' = pos
  BY DEF ParagraphEnd
<1>2. /\ pc = "parse" /\ Top.kind \in {"PARAGRAPH", "ANONYMOUS"} /\ Top.at = "end"
      /\ IsFrame(Top) /\ AreCalls(stack) /\ errs = 0
  <2>1. "DIVISION" \notin {"PARAGRAPH", "ANONYMOUS"}
    OBVIOUS
  <2> QED
    BY <1>1, <2>1, TopReads
<1>3. Len(stack) = 2 /\ Top = stack[2] /\ Top.kind \notin Blocks /\ Top.kind # "PERFORM"
  BY <1>2, TopIs, KindsDiffer
<1>4. PICK body : body = stack[1].body
  OBVIOUS
<1>5. PICK nodes, fins :
        /\ Reading(t, Top, nodes[2], pos, fins[2])
        /\ Len(body) < Len(src) /\ nodes[2] = src[Len(body) + 1]
        /\ Row(t, ParagraphTexts(src), Len(body) + 2, fins[2], Len(t) + 1)
        /\ Prefix(body, AstOf(src))
  <2>1. InParagraph(t, src, stack, pos) /\ Prefix(body, AstOf(src))
    BY <1>2, <1>3, <1>4 DEF Situation, Follows
  <2>2. PICK nodes, fins :
          /\ Chain(t, stack, nodes, fins, pos)
          /\ Len(body) < Len(src) /\ nodes[2] = src[Len(body) + 1]
          /\ Row(t, ParagraphTexts(src), Len(body) + 2, fins[2], Len(t) + 1)
    BY <1>4, <2>1, Zenon DEF InParagraph
  <2>3. Reading(t, Top, nodes[2], pos, fins[2])
    BY ONLY <1>3, <2>2 DEF Chain
  <2> QED
    BY <2>1, <2>2, <2>3
<1>6. PICK n, m : n = nodes[2] /\ m = fins[2]
  OBVIOUS
<1>7. PICK list, ends, r :
        /\ Reads(t, "end", Top.body, list, ends, pos, r)
        /\ Behind(t, Top.kind, Top.part, Top.stop, Top.parts, list, ends, n, r, m)
  <2>1. Reading(t, Top, n, pos, m)
    BY <1>5, <1>6
  <2> QED
    BY <1>2, <1>3, <2>1, InListIs
<1>8. /\ Top.body = n.stmts /\ n.stmts # <<>> /\ m = pos /\ Top.kind = "PARAGRAPH"
  <2>1. Top.body = list /\ pos = r
    BY <1>7 DEF Reads
  <2>2. Top.kind = "PARAGRAPH" /\ ParagraphBehind(t, Top.stop, list, ends, n, r, m)
    BY <1>3, <1>7, BehindIs
  <2> QED
    BY <2>1, <2>2 DEF ParagraphBehind
<1>9. PICK k, l \in Nat : k = Len(body) /\ l = Len(src) /\ k < l
  BY <1>5, ProgramIs DEF Prefix
<1>10. PICK node : node = Node("PARAGRAPH", <<n.stmts>>) /\ node = AstOf(src)[k + 1]
  <2>1. k + 1 \in 1..l
    BY <1>9
  <2> QED
    BY <1>5, <1>6, <1>9, <2>1, ProgramIs
<1>11. pc' = pc /\ stack' = [AddTo(Pop, node) EXCEPT ![1].at = "clauses"]
  <2>1. pc' = pc /\ stack' = [AddTo(Pop, Node(Top.kind, <<Top.body>>)) EXCEPT ![1].at = "clauses"]
    BY <1>3, <1>8 DEF ParagraphEnd
  <2> QED
    BY <1>8, <1>10, <2>1
<1>12. Len(stack') = 1 /\ stack'[1].body = Append(body, node)
  <2>1. PICK f : f = stack[1] /\ IsFrame(f) /\ f.body = body
    BY <1>2, <1>3, <1>4 DEF AreCalls
  <2>2. IsSeq(Pop) /\ Len(Pop) = 1 /\ Pop[1] = f
    <3>1. /\ IsSeq(Pop) /\ Len(Pop) = Len(stack) - 1
          /\ \A i \in 1..(Len(stack) - 1) : Pop[i] = stack[i]
      BY <1>2, SubSeqSeq DEF AreCalls, Pop
    <3> QED
      BY ONLY <1>3, <2>1, <3>1
  <2>3. PICK a : a = Added(f, node)
    OBVIOUS
  <2>4. AddTo(Pop, node) = [Pop EXCEPT ![1] = a]
    <3>1. PICK s : s = Pop /\ IsSeq(s) /\ Len(s) = 1 /\ s[1] = f
      BY <2>2
    <3>2. Len(s) > 0 /\ IsFrame(s[Len(s)])
      BY <2>1, <3>1
    <3>3. AddTo(s, node) = [s EXCEPT ![Len(s)] = Added(s[Len(s)], node)]
      BY ONLY <3>1, <3>2, AddToIs
    <3> QED
      BY ONLY <2>3, <3>1, <3>3
  <2>5. PICK s : s = AddTo(Pop, node) /\ IsSeq(s) /\ Len(s) = 1 /\ s[1] = a
    <3>1. PICK s : s = Pop /\ IsSeq(s) /\ Len(s) = 1 /\ Len(s) > 0
      BY <2>2
    <3>2. IsSeq([s EXCEPT ![Len(s)] = a]) /\ Len([s EXCEPT ![Len(s)] = a]) = Len(s)
          /\ [s EXCEPT ![Len(s)] = a][Len(s)] = a
      BY ONLY <3>1, ExceptLast
    <3> QED
      BY ONLY <2>4, <3>1, <3>2
  <2>6. PICK b : b = [a EXCEPT !.at = "clauses"]
    OBVIOUS
  <2>7. stack' = [s EXCEPT ![1] = b]
    BY <1>11, <2>5, <2>6
  <2>8. Len(stack') = 1 /\ stack'[1] = b
    <3>1. Len([s EXCEPT ![Len(s)] = b]) = Len(s) /\ [s EXCEPT ![Len(s)] = b][Len(s)] = b
      <4>1. Len(s) > 0
        BY ONLY <2>5
      <4> QED
        BY ONLY <2>5, <4>1, ExceptLast
    <3> QED
      BY ONLY <2>5, <2>7, <3>1
  <2>9. b.body = Append(body, node)
    <3>1. PICK kind, at, part, stop, grown, parts : a = Fields(kind, at, part, stop, grown, parts)
      BY <2>1, <2>3 DEF Added
    <3>2. grown = Append(body, node)
      BY <2>1, <2>3, <3>1 DEF Added, Fields
    <3>3. [a EXCEPT !.at = "clauses"] = Fields(kind, "clauses", part, stop, grown, parts)
      BY ONLY <3>1, SMT DEF Fields
    <3> QED
      BY ONLY <2>6, <3>2, <3>3 DEF Fields
  <2> QED
    BY <2>8, <2>9
<1>13. PICK longer : longer = stack'[1].body /\ Prefix(longer, AstOf(src)) /\ Len(longer) = k + 1
  BY <1>5, <1>9, <1>10, <1>12, ProgramIs, PrefixGrows
<1>14. Row(t, ParagraphTexts(src), Len(longer) + 1, pos, Len(t) + 1)
  <2>1. Len(longer) + 1 = Len(body) + 2
    BY <1>9, <1>13
  <2> QED
    BY <1>5, <1>6, <1>8, <2>1
<1>15. Follows(t, src, stack', pos, 0, "parse")
  <2>1. Len(stack') = 1 /\ ~(Len(stack') > 1)
    BY <1>12
  <2>2. Prefix(stack'[1].body, AstOf(src))
        /\ Row(t, ParagraphTexts(src), Len(stack'[1].body) + 1, pos, Len(t) + 1)
    BY ONLY <1>13, <1>14
  <2> QED
    BY ONLY <2>1, <2>2 DEF Follows
<1> QED
  BY <1>1, <1>2, <1>11, <1>15 DEF Keeps

LEMMA ReadsDivisionEnd ==
  ASSUME NEW t, NEW src \in Sources, Situation(t, src), DivisionEnd
  PROVE  Keeps(t, src)
<1>1. At({"DIVISION"}, "clauses") /\ AtEnd /\ pc' = "junk" /\ UNCHANGED <<pos, stack, errs>>
  BY DEF DivisionEnd
<1>2. PICK body : body = stack[1].body
  OBVIOUS
<1>3. /\ errs = 0 /\ t = tokens /\ Prefix(body, AstOf(src)) /\ ~(Len(body) < Len(src))
      /\ Row(t, ParagraphTexts(src), Len(body) + 1, pos, Len(t) + 1)
  BY <1>1, <1>2, InDivision
<1>4. body = AstOf(src)
  BY <1>3, ProgramIs, PrefixFull
<1>5. pos = Len(t) + 1
  BY <1>3, <1>4, ProgramIs, RowEnd
<1>6. Follows(t, src, stack, pos, 0, "junk")
  BY <1>2, <1>3, <1>4, <1>5 DEF Follows
<1> QED
  BY <1>1, <1>3, <1>6 DEF Keeps

\* Nothing is left over.
LEMMA ReadsJunk ==
  ASSUME NEW t, NEW src, Situation(t, src), Junk
  PROVE  Keeps(t, src)
<1>1. /\ errs = 0 /\ pos = Len(t) + 1 /\ tokens = t /\ stack[1].body = AstOf(src)
      /\ Prefix(stack[1].body, AstOf(src)) /\ t \in Seq(Tokens)
  BY DEF Situation, Follows, ParseInv, Junk
<1>2. AtEnd
  BY <1>1 DEF AtEnd
<1>3. pc' = "done" /\ UNCHANGED <<pos, stack, errs>>
  BY <1>2 DEF Junk
<1>4. Follows(t, src, stack, pos, 0, "done")
  BY <1>1 DEF Follows
<1> QED
  BY <1>1, <1>3, <1>4 DEF Keeps

LEMMA ReadsNothing ==
  ASSUME NEW t, NEW src, Situation(t, src), UNCHANGED vars
  PROVE  Keeps(t, src)
<1>1. stack' = stack /\ pos' = pos /\ errs' = errs /\ pc' = pc
  BY DEF vars
<1> QED
  BY <1>1, Zenon DEF Situation, Keeps

LEMMA ReadsFromTheStart ==
  ASSUME NEW src \in Sources, Init, tokens = ProgramText(src, Text)
  PROVE  Follows(ProgramText(src, Text), src, stack, pos, errs, pc)
<1>1. PICK t : t = ProgramText(src, Text)
  OBVIOUS
<1>2. PICK texts : texts = ParagraphTexts(src) /\ texts \in Seq(Seq(Tokens)) /\ t = FlattenSeq(texts)
  BY <1>1, ProgramIs
<1>3. t \in Seq(Tokens) /\ Len(t) \in Nat
  BY <1>1, ProgramIs
<1>4. Span(t, t, 1, Len(t) + 1)
  BY <1>3 DEF Span
<1>5. Row(t, texts, 1, 1, Len(t) + 1)
  BY <1>2, <1>4, RowOf
<1>6. PICK s : s = stack /\ Len(s) = 1 /\ s[1].body = <<>>
  BY DEF Init, Frame
<1>7. errs = 0 /\ pos = 1 /\ pc = "parse"
  BY DEF Init
<1>8. Prefix(<<>>, AstOf(src)) /\ Len(<<>>) + 1 = 1
  BY ProgramIs, PrefixStart
<1>9. Follows(t, src, s, 1, 0, "parse")
  BY ONLY <1>2, <1>5, <1>6, <1>8 DEF Follows
<1> QED
  BY <1>1, <1>6, <1>7, <1>9

\* No step leaves the text.
LEMMA NextReads ==
  ASSUME NEW t, NEW src \in Sources, Situation(t, src), Next
  PROVE  Keeps(t, src)
<1>1. CASE Paragraphs
  BY <1>1, ReadsParagraphStart, ReadsParagraphEnd, ReadsDivisionEnd, ReadsJunk DEF Paragraphs
<1>2. CASE StatementList
  BY <1>2, ReadsListEnd, ReadsSimple, ReadsDisplay, ReadsBlockStart, ReadsNothingElse,
     ReadsAfterStatement DEF StatementList
<1>3. CASE BlockStep
  BY <1>3, ReadsIfElse, ReadsIfEnd, ReadsPerformEnd, ReadsEvaluateWhen, ReadsEvaluateBodyEnd,
     ReadsEvaluateEnd, ReadsStringPhrase, ReadsStringBodyEnd, ReadsStringEnd,
     ReadsHttpOn, ReadsHttpNot, ReadsHttpNotFirst, ReadsHttpBodyEnd, ReadsHttpEnd DEF BlockStep
<1>4. CASE Done
  BY <1>4, ReadsNothing DEF Done
<1> QED
  BY <1>1, <1>2, <1>3, <1>4 DEF Next

----------------------------------------------------------------------------
(* What the parser makes of a program.                                      *)

\* Whichever program the text is of, the calls that are under way are reading it.
ReadInv ==
    \A src \in Sources :
        tokens = ProgramText(src, Text) => Follows(tokens, src, stack, pos, errs, pc)

LEMMA ReadInvStep ==
  ASSUME ParseInv, ReadInv, [Next]_vars
  PROVE  ReadInv'
<1> SUFFICES ASSUME NEW src \in Sources, tokens' = ProgramText(src, Text)
             PROVE  Follows(tokens', src, stack', pos', errs', pc')
  BY DEF ReadInv
<1>1. tokens' = tokens
  <2>1. CASE Paragraphs
    BY <2>1 DEF Paragraphs, ParagraphStart, ParagraphEnd, DivisionEnd, Junk
  <2>2. CASE StatementList
    BY <2>2 DEF StatementList, ListEnd, SimpleStatement, DisplayStatement, BlockStart,
       UnexpectedToken, OtherTerminator, AfterStatement, vars
  <2>3. CASE BlockStep
    BY <2>3 DEF BlockStep, IfElse, IfEnd, PerformEnd, EvaluateWhen, EvaluateBodyEnd,
       EvaluateSkip, EvaluateEnd, StringPhrase, StringBodyEnd, StringEnd,
       HttpOn, HttpNot, HttpNotFirst, HttpBodyEnd, HttpEnd
  <2> QED
    BY <2>1, <2>2, <2>3 DEF Next, Done, vars
<1>2. Situation(tokens, src)
  BY <1>1 DEF Situation, ReadInv
<1>3. Keeps(tokens, src)
  BY <1>2, NextReads, ReadsNothing
<1> QED
  BY <1>1, <1>3 DEF Keeps

\* For the text of a program, the stack is always the way to the place reached in it.
THEOREM ReadInvHolds == Spec => [](ParseInv /\ ReadInv)
<1>1. Init => ReadInv
  BY ReadsFromTheStart DEF ReadInv
<1>2. ParseInv /\ ReadInv /\ [Next]_vars => ReadInv'
  BY ReadInvStep
<1> QED
  BY <1>1, <1>2, ParseInvHolds, PTL DEF Spec

\* A program of any length whose statements are nested to any depth comes out
\* of the parser as it was written, without an error: each statement is in the
\* list it was written in, behind and before the same others, and every list
\* has the clause of its statement it was written under.
LEMMA ReadAsWritten ==
  ASSUME NEW src \in Sources, ParseInv, ReadInv, pc = "done", tokens = ProgramText(src, Text)
  PROVE  errs = 0 /\ Ast = AstOf(src)
<1>1. Follows(tokens, src, stack, pos, errs, "done")
  BY DEF ReadInv
<1> QED
  BY <1>1 DEF Follows, Ast

\* The same of the specification: each text of a program, read to its end, has
\* given that program.
THEOREM RoundTripHolds == Spec => []RoundTrip
<1>1. ParseInv /\ ReadInv => RoundTrip
  <2> SUFFICES ASSUME ParseInv, ReadInv, pc = "done", tokens \in WellFormed
               PROVE  errs = 0 /\ <<tokens, Ast>> \in Written
    BY DEF RoundTrip
  <2>1. PICK src \in Sources : tokens = ProgramText(src, Text)
    BY DEF WellFormed, Written
  <2>2. errs = 0 /\ Ast = AstOf(src)
    BY <2>1, ReadAsWritten
  <2>3. <<tokens, Ast>> = <<ProgramText(src, Text), AstOf(src)>>
    BY <2>1, <2>2
  <2> QED
    BY <2>2, <2>3, Zenon DEF Written
<1> QED
  BY <1>1, ReadInvHolds, PTL

\* In the text of a program a loop over statements always meets one.  So the
\* only step that changes nothing, OtherTerminator, is never taken there: with
\* Progress, each step until the program is read comes nearer to the end.
THEOREM LoopsMeetStatements ==
  Spec => [](tokens \in WellFormed /\ InList => Token \in Words)
<1>1. ParseInv /\ ReadInv => (tokens \in WellFormed /\ InList => Token \in Words)
  <2> SUFFICES ASSUME ParseInv, ReadInv, tokens \in WellFormed, InList PROVE Token \in Words
    OBVIOUS
  <2>1. PICK src \in Sources : tokens = ProgramText(src, Text)
    BY DEF WellFormed, Written
  <2>2. Situation(tokens, src)
    BY <2>1 DEF Situation, ReadInv
  <2> QED
    BY <2>2, NextStatement
<1> QED
  BY <1>1, ReadInvHolds, PTL
============================================================================
