------------------------- MODULE BareConsoleProofs -------------------------
(***************************************************************************)
(* Theorems about BareConsole for every size of the screen and of the      *)
(* field, as long as what is displayed and typed at once fits into a row.  *)
(***************************************************************************)
EXTENDS BareConsole, NaturalLemmas, SequenceTheorems, TLAPS

USE ScreenAssumption, CharAssumption, TextAssumption, NumberAssumption

\* No text, number or typed line is wider than the screen, and no number
\* needs the cases of cob_bare_print_int that set the cursor wrongly.
FitsRow ==
    /\ \A text \in Texts : Len(text) <= Cols
    /\ \A n \in Numbers : n > 0 /\ Len(Digits[n]) <= Cols
    /\ FieldSize - 1 <= Cols

BlankFrom(v, c) == \A i \in Memory : i >= c => v[i] = Blank

AtRow(c) == \E k \in 0..(Rows - 1) : c = k * Cols

----------------------------------------------------------------------------
(* The digits of a number.                                                  *)

\* Every number has digits: the division by 10 of cob_utoa ends.
LEMMA DigitsOf ==
  /\ Digits = [n \in Nat |-> IF n < 10 THEN <<Digit[n]>>
                             ELSE Append(Digits[n \div 10], Digit[n % 10])]
<1> DEFINE Body(f) == [n \in Nat |-> IF n < 10 THEN <<Digit[n]>>
                                     ELSE Append(f[n \div 10], Digit[n % 10])]
           base == [n \in 0..(10 - 1) |-> <<Digit[n]>>]
           down == [n \in Nat |-> n \div 10]
           step == [p \in Nat \X Seq(Chars) |-> Append(p[2], Digit[p[1] % 10])]
<1>1. base \in [0..(10 - 1) -> Seq(Chars)]
  OBVIOUS
<1>2. down \in [Nat -> Nat] /\ \A n \in Nat : n >= 10 => down[n] < n
  OBVIOUS
<1>3. step \in [Nat \X Seq(Chars) -> Seq(Chars)]
  <2> SUFFICES ASSUME NEW n \in Nat, NEW t \in Seq(Chars)
               PROVE  Append(t, Digit[n % 10]) \in Seq(Chars)
    OBVIOUS
  <2>1. Digit[n % 10] \in Chars
    OBVIOUS
  <2> QED
    BY <2>1
<1> HIDE DEF base, down, step
<1>4. IsRecursion(Seq(Chars), 10, base, down, step)
  BY <1>1, <1>2, <1>3 DEF IsRecursion
<1>5. PICK f \in [Nat -> Seq(Chars)] : \A n \in Nat : Recursive(f, n, 10, base, down, step)
  BY <1>4, Recursion
<1>6. ASSUME NEW n \in Nat
      PROVE  f[n] = IF n < 10 THEN <<Digit[n]>> ELSE Append(f[n \div 10], Digit[n % 10])
  <2>0. Recursive(f, n, 10, base, down, step)
    BY <1>5
  <2>1. CASE n < 10
    <3>1. base[n] = <<Digit[n]>>
      <4>1. n \in 0..(10 - 1)
        BY <2>1
      <4> QED
        BY <4>1, Zenon DEF base
    <3> QED
      BY ONLY <2>0, <2>1, <3>1 DEF Recursive
  <2>2. CASE ~(n < 10)
    <3>1. n \div 10 \in Nat /\ down[n] = n \div 10
      BY DEF down
    <3>2. f[n \div 10] \in Seq(Chars)
      BY <3>1
    <3>3. step[<<n, f[n \div 10]>>] = Append(f[n \div 10], Digit[n % 10])
      BY <3>2 DEF step
    <3>4. f[n] = step[<<n, f[n \div 10]>>]
      BY <2>0, <2>2, <3>1 DEF Recursive
    <3> QED
      BY ONLY <2>2, <3>3, <3>4
  <2> QED
    BY <2>1, <2>2
<1>7. f = Body(f)
  BY <1>6
<1>8. Digits = CHOOSE g : g = Body(g)
  BY DEF Digits
<1> HIDE DEF Body
<1>9. Digits = Body(Digits)
  BY <1>7, <1>8, Zenon
<1> QED
  BY <1>9 DEF Body

LEMMA DigitsType == \A n \in Nat : Digits[n] \in Seq(Chars) /\ Len(Digits[n]) > 0
<1> DEFINE S == {n \in Nat : Digits[n] \in Seq(Chars) /\ Len(Digits[n]) > 0}
<1>1. ASSUME NEW n \in Nat, \A m \in 0..(n - 1) : m \in S
      PROVE  n \in S
  <2>1. Digits[n] = IF n < 10 THEN <<Digit[n]>> ELSE Append(Digits[n \div 10], Digit[n % 10])
    BY DigitsOf
  <2>2. CASE n < 10
    <3>1. Digit[n] \in Chars
      BY <2>2
    <3>2. <<Digit[n]>> \in Seq(Chars) /\ Len(<<Digit[n]>>) > 0
      BY <3>1
    <3> QED
      BY <2>1, <2>2, <3>2
  <2>3. CASE ~(n < 10)
    <3>1. n \div 10 \in 0..(n - 1) /\ Digit[n % 10] \in Chars
      BY <2>3
    <3>2. Digits[n \div 10] \in Seq(Chars)
      BY <1>1, <3>1
    <3>3. Append(Digits[n \div 10], Digit[n % 10]) \in Seq(Chars)
          /\ Len(Append(Digits[n \div 10], Digit[n % 10])) > 0
      BY <3>1, <3>2
    <3> QED
      BY <2>1, <2>3, <3>3
  <2> QED
    BY <2>2, <2>3
<1> HIDE DEF S
<1>2. Nat \subseteq S
  BY <1>1, StrongInduction
<1> QED
  BY <1>2 DEF S

----------------------------------------------------------------------------
(* Arithmetic of rows.                                                      *)

\* Row k starts and ends on the screen, the last row at LastRow.
LEMMA RowBounds ==
  ASSUME NEW k \in 0..(Rows - 1)
  PROVE  /\ k * Cols \in Nat /\ k * Cols <= LastRow
         /\ k * Cols + Cols <= Screen
         /\ LastRow \in Nat /\ Screen = LastRow + Cols
<1>1. (Rows - 1 - k) * Cols >= 0
  OBVIOUS
<1>2. (Rows - 1 - k) * Cols = LastRow - k * Cols /\ Screen = LastRow + Cols
  BY DEF LastRow, Screen
<1> QED
  BY <1>1, <1>2 DEF LastRow

\* The row of a cell in it.
LEMMA RowOf ==
  ASSUME NEW k \in Nat, NEW d \in 0..(Cols - 1)
  PROVE  (k * Cols + d) \div Cols = k
  OBVIOUS

\* The first cell of a row.
LEMMA RowStart ==
  ASSUME NEW k \in Nat
  PROVE  (k * Cols) % Cols = 0
  OBVIOUS

\* The row after one that is filled up to its end.
LEMMA RowAfter ==
  ASSUME NEW k \in Nat
  PROVE  (k * Cols + Cols) \div Cols = k + 1 /\ (k + 1) * Cols = k * Cols + Cols
<1>1. (k + 1) * Cols = k * Cols + Cols
  OBVIOUS
<1>2. ((k + 1) * Cols + 0) \div Cols = k + 1
  BY RowOf
<1> QED
  BY <1>1, <1>2

\* A cursor at the start of a row has the row's cells before it.
LEMMA RowFacts ==
  ASSUME NEW c, AtRow(c)
  PROVE  /\ c \in Nat /\ c + Cols <= Screen /\ c <= Screen
         /\ c <= LastRow /\ c % Cols = 0 /\ Screen \in Nat
<1>1. PICK k \in 0..(Rows - 1) : c = k * Cols
  BY DEF AtRow
<1>2. c \in Nat /\ c <= LastRow /\ c + Cols <= Screen /\ Screen = LastRow + Cols /\ LastRow \in Nat
  BY <1>1, RowBounds
<1>3. c % Cols = 0
  BY <1>1, RowStart
<1> QED
  BY <1>2, <1>3

\* The cells of a row are cells of the memory.
LEMMA RowCells ==
  ASSUME NEW c, AtRow(c), NEW i \in 1..Cols
  PROVE  c + i - 1 \in Memory
<1>1. c \in Nat /\ c + Cols <= Screen /\ Screen \in Nat
  BY RowFacts
<1> QED
  BY <1>1 DEF Memory

----------------------------------------------------------------------------
(* What writing and ending a line do to the memory.                         *)

\* A text that is written into blank memory leaves the rest of it blank.
LEMMA WriteBlank ==
  ASSUME NEW v \in [Memory -> AnyChar], NEW c \in Nat, BlankFrom(v, c),
         NEW text \in Seq(AnyChar)
  PROVE  /\ Write(v, c, text) \in [Memory -> AnyChar]
         /\ BlankFrom(Write(v, c, text), c + Len(text))
<1>1. \A i \in Memory : i - c + 1 \in 1..Len(text) => text[i - c + 1] \in AnyChar
  OBVIOUS
<1>2. Write(v, c, text) \in [Memory -> AnyChar]
  BY <1>1 DEF Write
<1>3. \A i \in Memory : i >= c + Len(text) => i - c + 1 \notin 1..Len(text)
  BY DEF Memory, Screen
<1> QED
  BY <1>2, <1>3 DEF Write, BlankFrom, Memory, Screen

\* A newline at the end of a text that starts a row goes to the start of a
\* blank row.
LEMMA NewlineBlank ==
  ASSUME NEW v \in [Memory -> AnyChar],
         NEW k \in 0..(Rows - 1), NEW d \in 0..Cols,
         BlankFrom(v, k * Cols + d)
  PROVE  /\ Newline(Console(v, k * Cols + d)).vga \in [Memory -> AnyChar]
         /\ AtRow(Newline(Console(v, k * Cols + d)).col)
         /\ BlankFrom(Newline(Console(v, k * Cols + d)).vga,
                      Newline(Console(v, k * Cols + d)).col)
<1> DEFINE c == k * Cols + d
           next == c \div Cols + 1
<1>1. c \in Nat /\ c <= Screen /\ LastRow \in Nat /\ Screen = LastRow + Cols
  BY RowBounds
<1>2. next \in Nat /\ next \in {k + 1, k + 2} /\ next * Cols >= c
  <2>1. CASE d < Cols
    <3>1. next = k + 1
      <4>1. k \in Nat /\ d \in 0..(Cols - 1)
        BY ONLY <2>1, k \in 0..(Rows - 1), d \in 0..Cols, ScreenAssumption
      <4>2. (k * Cols + d) \div Cols = k
        BY <4>1, RowOf, Zenon
      <4> QED
        BY <4>2, Zenon
    <3> HIDE DEF next
    <3>2. (k + 1) * Cols = k * Cols + Cols
      BY RowAfter
    <3> QED
      BY <2>1, <3>1, <3>2
  <2>2. CASE d = Cols
    <3>1. next = k + 2
      <4>1. k \in Nat /\ (k + 1) + 1 = k + 2
        BY ONLY k \in 0..(Rows - 1), ScreenAssumption
      <4>2. (k * Cols + Cols) \div Cols = k + 1
        BY <4>1, RowAfter, Zenon
      <4> QED
        BY <2>2, <4>1, <4>2, Zenon
    <3> HIDE DEF next
    <3>2. (k + 2) * Cols = k * Cols + Cols + Cols
      OBVIOUS
    <3> QED
      BY <2>2, <3>1, <3>2
  <2> QED
    BY <2>1, <2>2
<1>3. CASE next >= Rows
  <2> DEFINE w == [i \in Memory |-> IF i < LastRow THEN v[i + Cols]
                                    ELSE IF i < Screen THEN Blank ELSE v[i]]
  <2>1. Newline(Console(v, c)) = Console(w, LastRow)
    BY <1>3 DEF Newline, Console
  <2>2. w \in [Memory -> AnyChar]
    <3> SUFFICES ASSUME NEW i \in Memory
                 PROVE  w[i] \in AnyChar
      OBVIOUS
    <3>1. i < LastRow => i + Cols \in Memory
      BY <1>1 DEF Memory
    <3> QED
      BY <3>1 DEF AnyChar
  <2>3. BlankFrom(w, LastRow)
    BY <1>1 DEF BlankFrom, Memory, Screen
  <2>4. AtRow(LastRow)
    <3>1. LastRow = (Rows - 1) * Cols /\ Rows - 1 \in 0..(Rows - 1)
      BY DEF LastRow
    <3> QED
      BY <3>1 DEF AtRow
  <2>5. Newline(Console(v, c)).vga = w /\ Newline(Console(v, c)).col = LastRow
    BY <2>1 DEF Console
  <2> QED
    BY <2>2, <2>3, <2>4, <2>5
<1>4. CASE next < Rows
  <2>1. Newline(Console(v, c)) = Console(v, next * Cols)
    BY <1>2, <1>4 DEF Newline, Console
  <2>2. AtRow(next * Cols)
    <3>1. next \in 0..(Rows - 1)
      BY <1>2, <1>4
    <3> QED
      BY <3>1, Zenon DEF AtRow
  <2>3. BlankFrom(v, next * Cols)
    BY <1>1, <1>2 DEF BlankFrom, Memory, Screen
  <2>4. Newline(Console(v, c)).vga = v /\ Newline(Console(v, c)).col = next * Cols
    BY <2>1 DEF Console
  <2> QED
    BY <2>2, <2>3, <2>4
<1> QED
  BY <1>2, <1>3, <1>4

----------------------------------------------------------------------------
(* The invariant.  While a line is typed the cursor of the console stays at *)
(* the start of its row and vgaPos moves along the row.                      *)

ConsoleInv ==
    /\ TypeOK
    /\ AtRow(col)
    /\ pc = "run" => BlankFrom(vga, col) /\ bufPos = 0
    /\ pc = "accept" =>
          /\ vgaPos = col + bufPos
          /\ \A i \in 1..bufPos : vga[col + i - 1] = field[i]
          /\ BlankFrom(vga, vgaPos)

\* What a DISPLAY item or an Enter needs: the text just written ends in its row.
LEMMA LineStep ==
  ASSUME TypeOK, AtRow(col),
         NEW v \in [Memory -> AnyChar], NEW d \in 0..Cols,
         BlankFrom(v, col + d),
         Becomes(Newline(Console(v, col + d)))
  PROVE  vga' \in [Memory -> AnyChar] /\ col' \in Nat /\ AtRow(col') /\ BlankFrom(vga', col')
<1>1. PICK k \in 0..(Rows - 1) : col = k * Cols
  BY DEF AtRow
<1>2. /\ vga' = Newline(Console(v, k * Cols + d)).vga
      /\ col' = Newline(Console(v, k * Cols + d)).col
  BY <1>1 DEF Becomes
<1>3. vga' \in [Memory -> AnyChar] /\ AtRow(col') /\ BlankFrom(vga', col')
  BY <1>1, <1>2, NewlineBlank
<1>4. col' \in Nat
  <2>1. PICK j \in 0..(Rows - 1) : col' = j * Cols
    BY <1>3 DEF AtRow
  <2> QED
    BY <2>1, RowBounds
<1> QED
  BY <1>3, <1>4

\* DISPLAY, of texts and numbers that fit, preserves the invariant.
LEMMA DisplayStep ==
  ASSUME FitsRow, ConsoleInv, Display
  PROVE  ConsoleInv'
<1>1. ASSUME NEW text \in Seq(AnyChar), Len(text) <= Cols, pc = "run",
             Becomes(Newline(PrintStr(vga, col, text))),
             UNCHANGED <<pc, acceptVars>>
      PROVE  ConsoleInv'
  <2> DEFINE v == Write(vga, col, text)
  <2>1. v \in [Memory -> AnyChar] /\ BlankFrom(v, col + Len(text))
    BY <1>1, WriteBlank DEF ConsoleInv, TypeOK
  <2>2. Becomes(Newline(Console(v, col + Len(text)))) /\ Len(text) \in 0..Cols
    BY <1>1 DEF PrintStr
  <2>3. vga' \in [Memory -> AnyChar] /\ col' \in Nat /\ AtRow(col') /\ BlankFrom(vga', col')
    <3> HIDE DEF v
    <3> QED
      BY <2>1, <2>2, LineStep DEF ConsoleInv
  <2> QED
    BY <1>1, <2>3 DEF ConsoleInv, TypeOK, acceptVars, AtRow, BlankFrom
<1>2. ASSUME NEW text \in Texts, DisplayText(text)
      PROVE  ConsoleInv'
  BY <1>1, <1>2 DEF DisplayText, FitsRow
<1>3. ASSUME NEW n \in Numbers, DisplayNumber(n)
      PROVE  ConsoleInv'
  <2>1. PrintInt(vga, col, n) = PrintStr(vga, col, Digits[n])
    BY DEF PrintInt, PrintStr, FitsRow
  <2>2. n \in Nat /\ Len(Digits[n]) <= Cols
    BY DEF FitsRow
  <2>3. Digits[n] \in Seq(AnyChar)
    <3>1. Digits[n] \in Seq(Chars) /\ Chars \subseteq AnyChar
      BY <2>2, DigitsType DEF AnyChar
    <3> QED
      BY <3>1
  <2> QED
    BY <1>1, <1>3, <2>1, <2>2, <2>3 DEF DisplayNumber
<1> QED
  BY <1>2, <1>3 DEF Display

\* ACCEPT preserves the invariant.
LEMMA AcceptStep ==
  ASSUME FitsRow, ConsoleInv, Accept
  PROVE  ConsoleInv'
<1> USE DEF ConsoleInv, TypeOK, acceptVars
<1>0. /\ col \in Nat /\ bufPos \in Nat /\ FieldSize \in Nat /\ bufPos <= FieldSize - 1
      /\ AtRow(col) /\ FieldSize - 1 <= Cols
  BY DEF FitsRow
<1>1. CASE AcceptStart
  BY <1>1 DEF AcceptStart, BlankFrom, AtRow
<1>2. ASSUME NEW ch \in AnyChar, AcceptChar(ch)
      PROVE  ConsoleInv'
  <2>1. /\ Write(vga, vgaPos, <<ch>>) \in [Memory -> AnyChar]
        /\ BlankFrom(Write(vga, vgaPos, <<ch>>), vgaPos + 1)
    <3>1. <<ch>> \in Seq(AnyChar) /\ Len(<<ch>>) = 1
      OBVIOUS
    <3> QED
      BY <1>2, <3>1, WriteBlank DEF AcceptChar
  <2>2. \A i \in 1..(bufPos + 1) : vga'[col + i - 1] = field'[i]
    <3> SUFFICES ASSUME NEW i \in 1..(bufPos + 1)
                 PROVE  vga'[col + i - 1] = field'[i]
      OBVIOUS
    <3>1. col + i - 1 \in Memory
      <4>1. i \in 1..Cols
        BY <1>0, <1>2 DEF AcceptChar
      <4> QED
        BY <1>0, <4>1, RowCells
    <3>2. CASE i = bufPos + 1
      BY <1>2, <3>1, <3>2 DEF AcceptChar, Write
    <3>3. CASE i < bufPos + 1
      BY <1>2, <3>1, <3>3 DEF AcceptChar, Write
    <3> QED
      BY <3>2, <3>3
  <2>3. TypeOK'
    BY <1>2, <2>1 DEF AcceptChar
  <2>4. AtRow(col)'
    BY <1>0, <1>2 DEF AcceptChar, AtRow
  <2>5. BlankFrom(vga, vgaPos)'
    BY <1>2, <2>1 DEF AcceptChar, BlankFrom
  <2>6. /\ pc = "accept" /\ vgaPos = col + bufPos /\ pc' = "accept"
        /\ bufPos' = bufPos + 1 /\ col' = col /\ vgaPos' = vgaPos + 1
    BY <1>2 DEF AcceptChar
  <2>7. vgaPos' = col' + bufPos'
    BY <1>0, <2>6
  <2>8. \A i \in 1..bufPos' : vga'[col' + i - 1] = field'[i]
    BY ONLY <2>2, <2>6
  <2> QED
    BY <2>3, <2>4, <2>5, <2>6, <2>7, <2>8
<1>3. CASE AcceptIgnored
  BY <1>3 DEF AcceptIgnored, vars, BlankFrom, AtRow
<1>4. CASE AcceptBackspace
  <2>1. Write(vga, vgaPos - 1, <<Blank>>) \in [Memory -> AnyChar]
    BY DEF Write, AnyChar
  <2>2. BlankFrom(Write(vga, vgaPos - 1, <<Blank>>), vgaPos - 1)
    BY <1>4 DEF AcceptBackspace, Write, BlankFrom, Memory, Screen
  <2>3. \A i \in 1..(bufPos - 1) : vga'[col + i - 1] = field[i]
    <3> SUFFICES ASSUME NEW i \in 1..(bufPos - 1)
                 PROVE  vga'[col + i - 1] = field[i]
      OBVIOUS
    <3>1. col + i - 1 \in Memory
      <4>1. i \in 1..Cols
        BY <1>0
      <4> QED
        BY <1>0, <4>1, RowCells
    <3> QED
      BY <1>4, <3>1 DEF AcceptBackspace, Write
  <2>4. TypeOK'
    BY <1>4, <2>1 DEF AcceptBackspace
  <2>5. AtRow(col)'
    BY <1>0, <1>4 DEF AcceptBackspace, AtRow
  <2>6. BlankFrom(vga, vgaPos)'
    BY <1>4, <2>2 DEF AcceptBackspace, BlankFrom
  <2>7. /\ pc = "accept" /\ vgaPos = col + bufPos /\ pc' = "accept"
        /\ bufPos' = bufPos - 1 /\ col' = col /\ vgaPos' = vgaPos - 1 /\ field' = field
    BY <1>4 DEF AcceptBackspace
  <2>8. vgaPos' = col' + bufPos'
    BY <1>0, <2>7
  <2>9. \A i \in 1..bufPos' : vga'[col' + i - 1] = field'[i]
    BY ONLY <2>3, <2>7
  <2> QED
    BY <2>4, <2>5, <2>6, <2>7, <2>8, <2>9
<1>5. CASE AcceptEnter
  <2>1. bufPos \in 0..Cols /\ vgaPos = col + bufPos /\ BlankFrom(vga, col + bufPos)
    BY <1>0, <1>5 DEF AcceptEnter
  <2>2. /\ pc' = "run" /\ bufPos' = 0 /\ vgaPos' = 0
        /\ Becomes(Newline(Console(vga, col + bufPos)))
    BY <1>5, <2>1 DEF AcceptEnter
  <2>3. vga' \in [Memory -> AnyChar] /\ col' \in Nat /\ AtRow(col') /\ BlankFrom(vga', col')
    BY <1>0, <2>1, <2>2, LineStep
  <2>4. field' \in [1..FieldSize -> AnyChar]
    BY <1>5 DEF AcceptEnter, AnyChar
  <2>5. TypeOK'
    BY <1>0, <2>2, <2>3, <2>4
  <2>6. AtRow(col)' /\ BlankFrom(vga, col)'
    BY <2>3 DEF AtRow, BlankFrom
  <2> QED
    BY <2>2, <2>5, <2>6
<1> QED
  BY <1>1, <1>2, <1>3, <1>4, <1>5 DEF Accept

\* The console stays usable for ever: as long as every text, number and typed
\* line fits into a row, every DISPLAY and ACCEPT finds the cursor at the
\* start of a blank row of the screen.
THEOREM ConsoleInvariant ==
  ASSUME FitsRow
  PROVE  Spec => []ConsoleInv
<1>1. Init => ConsoleInv
  <2>1. 0 = 0 * Cols /\ 0 \in 0..(Rows - 1)
    OBVIOUS
  <2>2. AtRow(0)
    BY <2>1, Zenon DEF AtRow
  <2> QED
    BY <2>2 DEF Init, ConsoleInv, TypeOK, BlankFrom, AnyChar
<1>2. ConsoleInv /\ [Next]_vars => ConsoleInv'
  <2> SUFFICES ASSUME ConsoleInv, [Next]_vars
               PROVE  ConsoleInv'
    OBVIOUS
  <2>1. CASE Next
    BY <2>1, DisplayStep, AcceptStep DEF Next
  <2>2. CASE UNCHANGED vars
    BY <2>2 DEF ConsoleInv, TypeOK, AtRow, BlankFrom, vars, acceptVars
  <2> QED
    BY <2>1, <2>2
<1> QED
  BY <1>1, <1>2, PTL DEF Spec

\* Then nothing is ever written behind the screen.
THEOREM StaysOnScreen ==
  ASSUME FitsRow
  PROVE  Spec => []OnScreen
<1>1. ConsoleInv => OnScreen
  <2> SUFFICES ASSUME ConsoleInv
               PROVE  OnScreen
    OBVIOUS
  <2>2. /\ col \in Nat /\ Screen \in Nat /\ col + Cols <= Screen /\ col <= Screen
    BY RowFacts DEF ConsoleInv
  <2>3. CASE pc = "run"
    BY <2>2, <2>3 DEF ConsoleInv, OnScreen, BlankFrom, Memory
  <2>4. CASE pc = "accept"
    <3>1. vgaPos = col + bufPos /\ bufPos \in Nat /\ bufPos <= FieldSize - 1 /\ FieldSize - 1 <= Cols
      BY <2>4 DEF ConsoleInv, TypeOK, FitsRow
    <3>2. vgaPos <= Screen
      BY <2>2, <3>1
    <3> QED
      BY <2>2, <2>4, <3>2 DEF ConsoleInv, TypeOK, OnScreen, BlankFrom, Memory
  <2> QED
    BY <2>3, <2>4 DEF ConsoleInv, TypeOK
<1> QED
  BY <1>1, ConsoleInvariant, PTL

\* Every DISPLAY and ACCEPT finds a blank row, and the row of the line being
\* typed shows the field.
THEOREM LinesReady ==
  ASSUME FitsRow
  PROVE  Spec => []ReadyForLine
<1>1. ASSUME ConsoleInv, pc = "run"
      PROVE  /\ col % Cols = 0 /\ col <= LastRow
             /\ \A i \in col..(Screen - 1) : vga[i] = Blank
  <2>1. col % Cols = 0 /\ col <= LastRow
    BY <1>1, RowFacts DEF ConsoleInv
  <2> QED
    BY <1>1, <2>1 DEF ConsoleInv, TypeOK, BlankFrom, Memory, Screen
<1>2. ASSUME ConsoleInv, pc = "accept"
      PROVE  /\ vgaPos = col + bufPos
             /\ \A i \in 1..bufPos : vga[col + i - 1] = field[i]
             /\ \A i \in vgaPos..(Screen - 1) : vga[i] = Blank
  BY <1>2 DEF ConsoleInv, TypeOK, BlankFrom, Memory, Screen
<1>3. ConsoleInv => ReadyForLine
  BY <1>1, <1>2 DEF ReadyForLine
<1> QED
  BY <1>3, ConsoleInvariant, PTL

----------------------------------------------------------------------------
(* The types hold whatever is displayed and typed, on the screen or behind   *)
(* it.  ACCEPT counts bytes and cells apart, but together.                   *)

TypesInv == TypeOK /\ (pc = "accept" => vgaPos = col + bufPos)

\* Writing keeps a memory a memory, wherever the text goes.
LEMMA WriteType ==
  ASSUME NEW v \in [Memory -> AnyChar], NEW c \in Int, NEW text \in Seq(AnyChar)
  PROVE  Write(v, c, text) \in [Memory -> AnyChar]
<1>1. \A i \in Memory : i - c + 1 \in 1..Len(text) => text[i - c + 1] \in AnyChar
  OBVIOUS
<1> QED
  BY <1>1 DEF Write

LEMMA NewlineType ==
  ASSUME NEW v \in [Memory -> AnyChar], NEW c \in Nat
  PROVE  /\ Newline(Console(v, c)).vga \in [Memory -> AnyChar]
         /\ Newline(Console(v, c)).col \in Nat
<1> DEFINE next == c \div Cols + 1
           w == [i \in Memory |-> IF i < LastRow THEN v[i + Cols]
                                  ELSE IF i < Screen THEN Blank ELSE v[i]]
<1>1. LastRow \in Nat /\ Screen = LastRow + Cols
  <2>1. Rows - 1 \in 0..(Rows - 1)
    OBVIOUS
  <2> QED
    BY <2>1, RowBounds
<1>2. next \in Nat
  OBVIOUS
<1> HIDE DEF next
<1>3. next * Cols \in Nat
  BY <1>2
<1>4. w \in [Memory -> AnyChar]
  <2> SUFFICES ASSUME NEW i \in Memory
               PROVE  w[i] \in AnyChar
    OBVIOUS
  <2>1. i < LastRow => i + Cols \in Memory
    BY <1>1 DEF Memory
  <2> QED
    BY <2>1 DEF AnyChar
<1> HIDE DEF w
<1>5. CASE next >= Rows
  <2>1. Newline(Console(v, c)) = Console(w, LastRow)
    BY <1>5 DEF Newline, Console, next, w
  <2> QED
    BY <1>1, <1>4, <2>1 DEF Console
<1>6. CASE ~(next >= Rows)
  <2>1. Newline(Console(v, c)) = Console(v, next * Cols)
    BY <1>6 DEF Newline, Console, next
  <2> QED
    BY <1>3, <2>1 DEF Console
<1> QED
  BY <1>5, <1>6

\* A number writes characters, and moves the cursor to a cell.
LEMMA PrintIntType ==
  ASSUME NEW v \in [Memory -> AnyChar], NEW c \in Nat, NEW n \in Int
  PROVE  \E w \in [Memory -> AnyChar], d \in Nat : PrintInt(v, c, n) = Console(w, d)
<1>1. \A k \in Nat : Digits[k] \in Seq(AnyChar) /\ Len(Digits[k]) \in Nat
  <2> TAKE k \in Nat
  <2>1. Digits[k] \in Seq(Chars) /\ Chars \subseteq AnyChar
    BY DigitsType DEF AnyChar
  <2> QED
    BY <2>1
<1>2. c \in Int
  OBVIOUS
<1>3. CASE n = 0
  <2>1. PrintInt(v, c, n) = Console(Write(v, c, Digits[0]), 2)
    BY <1>3, Zenon DEF PrintInt
  <2>2. Digits[0] \in Seq(AnyChar) /\ 2 \in Nat
    BY <1>1
  <2>3. Write(v, c, Digits[0]) \in [Memory -> AnyChar]
    BY <1>2, <2>2, WriteType, Zenon
  <2> QED
    BY <2>1, <2>2, <2>3, Zenon
<1>4. CASE n < 0
  <2> DEFINE m == -n
  <2>1. n # 0 /\ m \in Nat
    BY <1>4
  <2>2. PrintInt(v, c, n) =
          Console(Write(Write(v, c, <<Minus>>), c, Digits[m]), c + 1 + Len(Digits[m]))
    BY <1>4, <2>1, Zenon DEF PrintInt
  <2> HIDE DEF m
  <2>3. <<Minus>> \in Seq(AnyChar)
    BY DEF AnyChar
  <2>4. Write(v, c, <<Minus>>) \in [Memory -> AnyChar]
    BY <1>2, <2>3, WriteType, Zenon
  <2>5. Write(Write(v, c, <<Minus>>), c, Digits[m]) \in [Memory -> AnyChar]
    BY <1>1, <1>2, <2>1, <2>4, WriteType, Zenon
  <2>6. c + 1 + Len(Digits[m]) \in Nat
    <3> DEFINE length == Len(Digits[m])
    <3>1. length \in Nat
      BY <1>1, <2>1, Zenon
    <3> HIDE DEF length
    <3>2. c + 1 + length \in Nat
      BY <3>1
    <3> QED
      BY <3>2 DEF length
  <2> QED
    BY <2>2, <2>5, <2>6, Zenon
<1>5. CASE n > 0
  <2>1. n # 0 /\ ~(n < 0) /\ n \in Nat
    BY <1>5
  <2>2. PrintInt(v, c, n) = Console(Write(v, c, Digits[n]), c + Len(Digits[n]))
    BY <2>1, Zenon DEF PrintInt
  <2>3. Write(v, c, Digits[n]) \in [Memory -> AnyChar]
    BY <1>1, <1>2, <2>1, WriteType, Zenon
  <2>4. c + Len(Digits[n]) \in Nat
    BY <1>1, <2>1
  <2> QED
    BY <2>2, <2>3, <2>4, Zenon
<1> QED
  BY <1>3, <1>4, <1>5

\* The types of the console's state, for every text, number and key.
THEOREM ConsoleTypes == Spec => []TypeOK
<1>1. Init => TypesInv
  BY DEF Init, TypesInv, TypeOK, AnyChar
<1>2. TypesInv /\ [Next]_vars => TypesInv'
  <2> SUFFICES ASSUME TypesInv, [Next]_vars
               PROVE  TypesInv'
    OBVIOUS
  <2>0. /\ vga \in [Memory -> AnyChar] /\ col \in Nat /\ pc \in {"run", "accept"}
        /\ field \in [1..FieldSize -> AnyChar] /\ bufPos \in 0..(FieldSize - 1)
        /\ vgaPos \in Nat /\ (pc = "accept" => vgaPos = col + bufPos)
    BY DEF TypesInv, TypeOK
  <2>1. CASE \E text \in Texts : DisplayText(text)
    <3>1. PICK text \in Texts : DisplayText(text)
      BY <2>1
    <3>2. Write(vga, col, text) \in [Memory -> AnyChar] /\ col + Len(text) \in Nat
      BY <2>0, WriteType
    <3>3. vga' \in [Memory -> AnyChar] /\ col' \in Nat
      BY <3>1, <3>2, NewlineType DEF DisplayText, PrintStr, Becomes
    <3> QED
      BY <2>0, <3>1, <3>3 DEF DisplayText, TypesInv, TypeOK, acceptVars
  <2>2. CASE \E n \in Numbers : DisplayNumber(n)
    <3>1. PICK n \in Numbers : DisplayNumber(n)
      BY <2>2
    <3>2. PICK w \in [Memory -> AnyChar], d \in Nat : PrintInt(vga, col, n) = Console(w, d)
      BY <2>0, PrintIntType
    <3>3. vga' \in [Memory -> AnyChar] /\ col' \in Nat
      BY <3>1, <3>2, NewlineType DEF DisplayNumber, Becomes
    <3> QED
      BY <2>0, <3>1, <3>3 DEF DisplayNumber, TypesInv, TypeOK, acceptVars
  <2>3. CASE AcceptStart
    BY <2>0, <2>3 DEF AcceptStart, TypesInv, TypeOK
  <2>4. CASE \E ch \in AnyChar : AcceptChar(ch)
    <3>1. PICK ch \in AnyChar : AcceptChar(ch)
      BY <2>4
    <3>2. Write(vga, vgaPos, <<ch>>) \in [Memory -> AnyChar]
      <4>1. <<ch>> \in Seq(AnyChar) /\ vgaPos \in Int
        BY <2>0
      <4> QED
        BY <2>0, <4>1, WriteType, Zenon
    <3> QED
      BY <2>0, <3>1, <3>2 DEF AcceptChar, TypesInv, TypeOK
  <2>5. CASE AcceptIgnored \/ UNCHANGED vars
    BY <2>0, <2>5 DEF AcceptIgnored, vars, acceptVars, TypesInv, TypeOK
  <2>6. CASE AcceptBackspace
    <3>1. Write(vga, vgaPos - 1, <<Blank>>) \in [Memory -> AnyChar]
      <4>1. <<Blank>> \in Seq(AnyChar) /\ vgaPos - 1 \in Int
        BY <2>0 DEF AnyChar
      <4> QED
        BY <2>0, <4>1, WriteType
    <3> QED
      BY <2>0, <2>6, <3>1 DEF AcceptBackspace, TypesInv, TypeOK
  <2>7. CASE AcceptEnter
    <3>1. vga' \in [Memory -> AnyChar] /\ col' \in Nat
      BY <2>0, <2>7, NewlineType DEF AcceptEnter, Becomes
    <3>2. field' \in [1..FieldSize -> AnyChar]
      BY <2>0, <2>7 DEF AcceptEnter, AnyChar
    <3> QED
      BY <2>7, <3>1, <3>2 DEF AcceptEnter, TypesInv, TypeOK
  <2> QED
    BY <2>1, <2>2, <2>3, <2>4, <2>5, <2>6, <2>7 DEF Next, Display, Accept
<1>3. TypesInv => TypeOK
  BY DEF TypesInv
<1> QED
  BY <1>1, <1>2, <1>3, PTL DEF Spec

----------------------------------------------------------------------------
(* Lines shorter than a row.  One that fills its row makes the newline skip  *)
(* the next.                                                                *)

ShorterThanRow ==
    /\ \A text \in Texts : Len(text) < Cols
    /\ \A n \in Numbers : n > 0 /\ Len(Digits[n]) < Cols
    /\ FieldSize - 1 < Cols

\* The memory after everything has moved up one row.
MovedUp(v) == [i \in Memory |-> IF i < LastRow THEN v[i + Cols]
                                ELSE IF i < Screen THEN Blank ELSE v[i]]

LEMMA ShorterFits == ShorterThanRow => FitsRow
<1> SUFFICES ASSUME ShorterThanRow
             PROVE  FitsRow
  OBVIOUS
<1>1. \A text \in Texts : Len(text) <= Cols
  <2> TAKE text \in Texts
  <2>1. Len(text) \in Nat /\ Len(text) < Cols
    BY DEF ShorterThanRow
  <2> QED
    BY <2>1
<1>2. \A n \in Numbers : n > 0 /\ Len(Digits[n]) <= Cols
  <2> TAKE n \in Numbers
  <2>1. n > 0 /\ Len(Digits[n]) < Cols /\ n \in Nat
    BY DEF ShorterThanRow
  <2>2. Len(Digits[n]) \in Nat
    BY <2>1, DigitsType
  <2> QED
    BY <2>1, <2>2
<1>3. FieldSize - 1 <= Cols
  BY DEF ShorterThanRow
<1> QED
  BY <1>1, <1>2, <1>3 DEF FitsRow

\* The end of a line that does not fill its row.
LEMMA NewlineInRow ==
  ASSUME NEW v, NEW k \in 0..(Rows - 1), NEW d \in 0..(Cols - 1)
  PROVE  /\ k + 1 = Rows => Newline(Console(v, k * Cols + d)) = Console(MovedUp(v), k * Cols)
         /\ k + 1 # Rows => Newline(Console(v, k * Cols + d)) = Console(v, (k + 1) * Cols)
<1> DEFINE c == k * Cols + d
           next == c \div Cols + 1
<1>1. next = k + 1
  BY RowOf
<1> HIDE DEF next
<1>2. ASSUME k + 1 = Rows
      PROVE  Newline(Console(v, c)) = Console(MovedUp(v), k * Cols)
  <2>1. next >= Rows
    BY <1>1, <1>2
  <2>2. k * Cols = LastRow
    <3>1. k = Rows - 1
      BY <1>2
    <3>2. Cols * (Rows - 1) = (Rows - 1) * Cols
      OBVIOUS
    <3> QED
      BY <3>1, <3>2 DEF LastRow
  <2> QED
    BY <2>1, <2>2 DEF Newline, Console, MovedUp, next
<1>3. ASSUME k + 1 # Rows
      PROVE  Newline(Console(v, c)) = Console(v, (k + 1) * Cols)
  <2>1. ~(next >= Rows)
    BY <1>1, <1>3
  <2> QED
    BY <1>1, <2>1 DEF Newline, Console, next
<1> QED
  BY <1>2, <1>3

\* "newline sets cursor to next row start": no DISPLAY and no ACCEPT leaves a
\* row out, as long as no line fills its row.
THEOREM NextRow ==
  ASSUME ShorterThanRow
  PROVE  Spec => NextRowStart
<1> DEFINE Down == col' # col => col' = (col \div Cols + 1) * Cols
<1>1. ASSUME AtRow(col), NEW v, NEW d \in 0..(Cols - 1),
             Becomes(Newline(Console(v, col + d)))
      PROVE  Down
  <2>1. PICK k \in 0..(Rows - 1) : col = k * Cols
    BY <1>1 DEF AtRow
  <2>2. col \div Cols = k
    <3>1. (k * Cols + 0) \div Cols = k
      BY RowOf
    <3> QED
      BY <2>1, <3>1
  <2> DEFINE s == Newline(Console(v, k * Cols + d))
  <2>3. col' = s.col
    BY <1>1, <2>1 DEF Becomes
  <2>4. /\ k + 1 = Rows => s = Console(MovedUp(v), k * Cols)
        /\ k + 1 # Rows => s = Console(v, (k + 1) * Cols)
    BY NewlineInRow
  <2> HIDE DEF s
  <2>5. CASE k + 1 = Rows
    <3>1. col' = k * Cols
      BY <2>5, <2>3, <2>4 DEF Console
    <3> QED
      BY <2>1, <3>1
  <2>6. CASE k + 1 # Rows
    <3>1. col' = (k + 1) * Cols
      BY <2>6, <2>3, <2>4 DEF Console
    <3> QED
      BY <2>2, <3>1
  <2> QED
    BY <2>5, <2>6
<1>2. ASSUME ConsoleInv, Next
      PROVE  Down
  <2>0. AtRow(col) /\ col \in Nat /\ bufPos \in Nat /\ bufPos < Cols
    BY <1>2 DEF ConsoleInv, TypeOK, ShorterThanRow
  <2>1. ASSUME NEW text \in Texts, DisplayText(text)
        PROVE  Down
    <3>1. Len(text) \in 0..(Cols - 1)
      BY DEF ShorterThanRow
    <3> QED
      BY <1>1, <2>0, <2>1, <3>1 DEF DisplayText, PrintStr
  <2>2. ASSUME NEW n \in Numbers, DisplayNumber(n)
        PROVE  Down
    <3>1. n > 0 /\ n \in Nat
      BY DEF ShorterThanRow
    <3>2. PrintInt(vga, col, n) = Console(Write(vga, col, Digits[n]), col + Len(Digits[n]))
      BY <3>1 DEF PrintInt
    <3>3. Len(Digits[n]) \in 0..(Cols - 1)
      BY <3>1, DigitsType DEF ShorterThanRow
    <3> QED
      BY <1>1, <2>0, <2>2, <3>2, <3>3 DEF DisplayNumber
  <2>3. CASE AcceptEnter
    <3>1. Becomes(Newline(Console(vga, col + bufPos))) /\ bufPos \in 0..(Cols - 1)
      BY <1>2, <2>0, <2>3 DEF AcceptEnter, ConsoleInv
    <3> QED
      BY <1>1, <2>0, <3>1
  <2>4. CASE \/ AcceptStart \/ AcceptIgnored \/ AcceptBackspace
             \/ \E ch \in AnyChar : AcceptChar(ch)
    BY <2>4 DEF AcceptStart, AcceptIgnored, AcceptBackspace, AcceptChar, vars
  <2> QED
    BY <1>2, <2>1, <2>2, <2>3, <2>4 DEF Next, Display, Accept
<1>3. ConsoleInv /\ [Next]_vars => [Down]_vars
  BY <1>2
<1>4. Spec => []ConsoleInv
  BY ShorterFits, ConsoleInvariant
<1> QED
  BY <1>3, <1>4, PTL DEF Spec, NextRowStart

----------------------------------------------------------------------------
(* The screen as a terminal: the rows above the cursor are lines.            *)

RowOfCells(v, r) == [i \in 1..Cols |-> v[(r - 1) * Cols + i - 1]]
LinesOf(v, c) == [r \in 1..(c \div Cols) |-> RowOfCells(v, r)]
PaddedRow(text) == [i \in 1..Cols |-> IF i <= Len(text) THEN text[i] ELSE Blank]
ScrolledBy(ls, text) ==
    LET all == Append(ls, PaddedRow(text)) IN IF Len(all) = Rows THEN Tail(all) ELSE all
RowType == [1..Cols -> AnyChar]

\* The cells of row r, and where they go when everything moves up.
LEMMA CellOfRow ==
  ASSUME NEW r \in 1..Rows, NEW i \in 1..Cols
  PROVE  /\ (r - 1) * Cols + i - 1 \in Memory
         /\ (r - 1) * Cols + i - 1 < r * Cols
         /\ r < Rows => /\ (r - 1) * Cols + i - 1 < LastRow
                        /\ (r - 1) * Cols + i - 1 + Cols = r * Cols + i - 1
<1>1. /\ (r - 1) * Cols \in Nat /\ (r - 1) * Cols + Cols <= Screen
      /\ LastRow \in Nat /\ Screen = LastRow + Cols
  <2>1. r - 1 \in 0..(Rows - 1)
    OBVIOUS
  <2> QED
    BY <2>1, RowBounds
<1>2. (r - 1) * Cols + Cols = r * Cols
  OBVIOUS
<1>3. r < Rows => r * Cols <= LastRow
  BY RowBounds
<1> QED
  BY <1>1, <1>2, <1>3 DEF Memory

LEMMA LinesType ==
  ASSUME NEW v \in [Memory -> AnyChar], NEW k \in 0..(Rows - 1)
  PROVE  /\ LinesOf(v, k * Cols) = [r \in 1..k |-> RowOfCells(v, r)]
         /\ \A r \in 1..Rows : RowOfCells(v, r) \in RowType
<1>1. (k * Cols) \div Cols = k
  <2>1. (k * Cols + 0) \div Cols = k
    BY RowOf
  <2> QED
    BY <2>1
<1>2. \A r \in 1..Rows : RowOfCells(v, r) \in RowType
  <2> SUFFICES ASSUME NEW r \in 1..Rows, NEW i \in 1..Cols
               PROVE  v[(r - 1) * Cols + i - 1] \in AnyChar
    BY DEF RowOfCells, RowType
  <2>1. (r - 1) * Cols + i - 1 \in Memory
    BY CellOfRow
  <2> QED
    BY <2>1
<1> QED
  BY <1>1, <1>2, Zenon DEF LinesOf

\* The end of a line makes it the last of the lines.
LEMMA LineScrolls ==
  ASSUME NEW v \in [Memory -> AnyChar], NEW k \in 0..(Rows - 1), NEW d \in 0..(Cols - 1),
         NEW text, RowOfCells(v, k + 1) = PaddedRow(text)
  PROVE  LET s == Newline(Console(v, k * Cols + d)) IN
           LinesOf(s.vga, s.col) = ScrolledBy(LinesOf(v, k * Cols), text)
<1> DEFINE s == Newline(Console(v, k * Cols + d))
           ls == LinesOf(v, k * Cols)
           all == Append(ls, PaddedRow(text))
<1>1. ls = [r \in 1..k |-> RowOfCells(v, r)] /\ k \in Nat /\ k + 1 \in 1..Rows
  BY LinesType
<1>2. \A r \in 1..Rows : RowOfCells(v, r) \in RowType
  BY LinesType
<1>3. PaddedRow(text) = RowOfCells(v, k + 1)
  OBVIOUS
<1>4. /\ all \in Seq(RowType) /\ Len(all) = k + 1
      /\ \A r \in 1..(k + 1) : all[r] = RowOfCells(v, r)
  <2> DEFINE row(r) == RowOfCells(v, r)
  <2> HIDE DEF ls
  <2>1. ls = [r \in 1..k |-> row(r)] /\ \A r \in 1..(k + 1) : row(r) \in RowType
    BY <1>1, <1>2
  <2>2. PaddedRow(text) = row(k + 1)
    BY <1>3
  <2> HIDE DEF row
  <2>3. ls \in Seq(RowType) /\ Len(ls) = k
    BY <1>1, <2>1
  <2>4. row(k + 1) \in RowType
    BY <1>1, <2>1
  <2>5. /\ Append(ls, row(k + 1)) \in Seq(RowType)
        /\ Len(Append(ls, row(k + 1))) = k + 1
        /\ \A r \in 1..(k + 1) : Append(ls, row(k + 1))[r] = row(r)
    BY <1>1, <2>1, <2>3, <2>4
  <2> QED
    BY <2>2, <2>5 DEF row
<1> HIDE DEF ls, all
<1>5. CASE k + 1 = Rows
  <2>1. s = Console(MovedUp(v), k * Cols)
    BY <1>5, NewlineInRow
  <2>2. \A r \in 1..k : RowOfCells(MovedUp(v), r) = RowOfCells(v, r + 1)
    <3> TAKE r \in 1..k
    <3>1. r \in 1..Rows /\ r < Rows /\ (r + 1) - 1 = r
      BY <1>5
    <3>2. ASSUME NEW i \in 1..Cols
          PROVE  MovedUp(v)[(r - 1) * Cols + i - 1] = v[r * Cols + i - 1]
      <4> DEFINE cell == (r - 1) * Cols + i - 1
      <4>1. cell \in Memory /\ cell < LastRow /\ cell + Cols = r * Cols + i - 1
        BY <3>1, CellOfRow
      <4> HIDE DEF cell
      <4>2. MovedUp(v)[cell] = v[cell + Cols]
        BY <4>1 DEF MovedUp
      <4> QED
        BY <4>1, <4>2 DEF cell
    <3> QED
      BY <3>1, <3>2, Zenon DEF RowOfCells
  <2>3. LinesOf(MovedUp(v), k * Cols) = [r \in 1..k |-> RowOfCells(v, r + 1)]
    <3>1. (k * Cols) \div Cols = k
      <4>1. (k * Cols + 0) \div Cols = k
        BY RowOf
      <4> QED
        BY <4>1
    <3> QED
      BY <2>2, <3>1, Zenon DEF LinesOf
  <2>4. Tail(all) = [r \in 1..k |-> RowOfCells(v, r + 1)]
    <3> DEFINE row(r) == RowOfCells(v, r)
    <3>1. all # <<>>
      BY <1>1, <1>4
    <3>2. /\ Tail(all) \in Seq(RowType) /\ Len(Tail(all)) = k
          /\ \A r \in 1..k : Tail(all)[r] = all[r + 1]
      BY <1>1, <1>4, <3>1, HeadTailProperties
    <3>3. \A r \in 1..k : r + 1 \in 1..(k + 1)
      BY <1>1
    <3>4. \A r \in 1..k : Tail(all)[r] = row(r + 1)
      BY <1>4, <3>2, <3>3
    <3>5. Tail(all) \in [1..k -> RowType]
      BY <3>2, LenProperties
    <3> HIDE DEF row
    <3>6. Tail(all) = [r \in 1..k |-> row(r + 1)]
      BY <3>4, <3>5
    <3> QED
      BY <3>6 DEF row
  <2>5. ScrolledBy(ls, text) = Tail(all)
    BY <1>4, <1>5 DEF ScrolledBy, all
  <2>6. s.vga = MovedUp(v) /\ s.col = k * Cols
    BY <2>1 DEF Console
  <2> QED
    BY <2>3, <2>4, <2>5, <2>6, Zenon DEF ls
<1>6. CASE k + 1 # Rows
  <2>1. s = Console(v, (k + 1) * Cols)
    BY <1>6, NewlineInRow
  <2>2. k + 1 \in 0..(Rows - 1)
    BY <1>6
  <2>3. LinesOf(v, (k + 1) * Cols) = [r \in 1..(k + 1) |-> RowOfCells(v, r)]
    BY <2>2, LinesType
  <2>4. all = [r \in 1..(k + 1) |-> RowOfCells(v, r)]
    <3> DEFINE row(r) == RowOfCells(v, r)
    <3>1. all \in [1..(k + 1) -> RowType] /\ \A r \in 1..(k + 1) : all[r] = row(r)
      BY <1>4, LenProperties
    <3> HIDE DEF row
    <3>2. all = [r \in 1..(k + 1) |-> row(r)]
      BY <3>1
    <3> QED
      BY <3>2 DEF row
  <2>5. ScrolledBy(ls, text) = all
    BY <1>4, <1>6 DEF ScrolledBy, all
  <2>6. s.vga = v /\ s.col = (k + 1) * Cols
    BY <2>1 DEF Console
  <2> QED
    BY <2>3, <2>4, <2>5, <2>6, Zenon DEF ls
<1> QED
  BY <1>5, <1>6 DEF ls

\* Cells behind the lines are not part of them.
LEMMA SameLines ==
  ASSUME NEW v \in [Memory -> AnyChar], NEW w \in [Memory -> AnyChar],
         NEW k \in 0..(Rows - 1),
         \A i \in Memory : i < k * Cols => w[i] = v[i]
  PROVE  LinesOf(w, k * Cols) = LinesOf(v, k * Cols)
<1>1. ASSUME NEW r \in 1..k
      PROVE  RowOfCells(w, r) = RowOfCells(v, r)
  <2> SUFFICES ASSUME NEW i \in 1..Cols
               PROVE  w[(r - 1) * Cols + i - 1] = v[(r - 1) * Cols + i - 1]
    BY DEF RowOfCells
  <2> DEFINE cell == (r - 1) * Cols + i - 1
  <2>1. r \in 1..Rows
    OBVIOUS
  <2>2. cell \in Memory /\ cell < r * Cols
    BY <2>1, CellOfRow
  <2>3. r * Cols <= k * Cols /\ r * Cols \in Nat /\ k * Cols \in Nat
    <3>1. k - r \in Nat /\ k \in Nat /\ r \in Nat
      OBVIOUS
    <3>2. (k - r) * Cols \in Nat
      BY ONLY <3>1, ScreenAssumption
    <3>3. (k - r) * Cols = k * Cols - r * Cols /\ r * Cols \in Nat /\ k * Cols \in Nat
      BY ONLY <3>1, ScreenAssumption
    <3> QED
      BY ONLY <3>2, <3>3
  <2>4. cell \in Nat
    BY <2>2 DEF Memory
  <2> HIDE DEF cell
  <2>5. cell < k * Cols
    BY <2>2, <2>3, <2>4
  <2>6. w[cell] = v[cell]
    BY <2>2, <2>5
  <2> QED
    BY <2>6 DEF cell
<1>2. /\ LinesOf(v, k * Cols) = [r \in 1..k |-> RowOfCells(v, r)]
      /\ LinesOf(w, k * Cols) = [r \in 1..k |-> RowOfCells(w, r)]
  BY LinesType
<1> QED
  BY <1>1, <1>2, Zenon

\* A text written into the blank row at the cursor is that row.
LEMMA WrittenRow ==
  ASSUME NEW v \in [Memory -> AnyChar], NEW k \in 0..(Rows - 1), BlankFrom(v, k * Cols),
         NEW text \in Seq(AnyChar)
  PROVE  /\ RowOfCells(Write(v, k * Cols, text), k + 1) = PaddedRow(text)
         /\ \A i \in Memory : i < k * Cols => Write(v, k * Cols, text)[i] = v[i]
<1> DEFINE c == k * Cols
<1>1. c \in Nat /\ k + 1 \in 1..Rows /\ (k + 1) - 1 = k
  OBVIOUS
<1>2. ASSUME NEW i \in 1..Cols
      PROVE  /\ c + i - 1 \in Memory /\ c + i - 1 >= c /\ (c + i - 1) - c + 1 = i
  <2>1. c + i - 1 \in Memory
    BY <1>1, CellOfRow
  <2> HIDE DEF c
  <2> QED
    BY <1>1, <2>1
<1> HIDE DEF c
<1>3. ASSUME NEW i \in 1..Cols
      PROVE  Write(v, c, text)[c + i - 1] = IF i <= Len(text) THEN text[i] ELSE Blank
  <2> DEFINE cell == c + i - 1
  <2>1. cell \in Memory /\ cell >= c /\ cell - c + 1 = i
    BY <1>2
  <2> HIDE DEF cell
  <2>2. Write(v, c, text)[cell] = IF i \in 1..Len(text) THEN text[i] ELSE v[cell]
    BY <2>1 DEF Write
  <2>3. v[cell] = Blank
    BY <2>1 DEF BlankFrom, c
  <2>4. i \in 1..Len(text) <=> i <= Len(text)
    OBVIOUS
  <2> QED
    BY <2>2, <2>3, <2>4 DEF cell
<1>4. RowOfCells(Write(v, c, text), k + 1) = PaddedRow(text)
  <2>1. ((k + 1) - 1) * Cols = c
    BY <1>1 DEF c
  <2> QED
    BY <1>3, <2>1, Zenon DEF RowOfCells, PaddedRow
<1>5. \A i \in Memory : i < c => Write(v, c, text)[i] = v[i]
  <2> TAKE i \in Memory
  <2> HAVE i < c
  <2>1. i - c + 1 \notin 1..Len(text)
    BY <1>1 DEF Memory
  <2> QED
    BY <2>1 DEF Write
<1> QED
  BY <1>4, <1>5 DEF c

----------------------------------------------------------------------------
(* The steps of the terminal.                                               *)

TypedLine == [i \in 1..bufPos |-> field[i]]

\* The end of the line text in the row at the cursor, whose cells v shows.
LEMMA LineEnds ==
  ASSUME ConsoleInv, NEW v \in [Memory -> AnyChar], NEW text, NEW d \in 0..(Cols - 1),
         \A k \in 0..(Rows - 1) : col = k * Cols =>
            /\ RowOfCells(v, k + 1) = PaddedRow(text)
            /\ \A i \in Memory : i < k * Cols => v[i] = vga[i],
         Becomes(Newline(Console(v, col + d)))
  PROVE  LinesOf(vga', col') = ScrolledBy(LinesOf(vga, col), text)
<1>1. PICK k \in 0..(Rows - 1) : col = k * Cols
  BY DEF ConsoleInv, AtRow
<1>2. /\ RowOfCells(v, k + 1) = PaddedRow(text)
      /\ \A i \in Memory : i < k * Cols => v[i] = vga[i]
  BY <1>1
<1>3. vga \in [Memory -> AnyChar]
  BY DEF ConsoleInv, TypeOK
<1>4. LinesOf(v, k * Cols) = LinesOf(vga, k * Cols)
  BY <1>2, <1>3, SameLines
<1> DEFINE s == Newline(Console(v, k * Cols + d))
<1>5. LinesOf(s.vga, s.col) = ScrolledBy(LinesOf(v, k * Cols), text)
  BY <1>2, LineScrolls
<1>6. vga' = s.vga /\ col' = s.col
  BY <1>1 DEF Becomes
<1> HIDE DEF s
<1> QED
  BY <1>1, <1>4, <1>5, <1>6, Zenon

\* The lines that are shown, and the new ones.
LEMMA Shown ==
  /\ [r \in 1..(col \div Cols) |-> RowAt((r - 1) * Cols)] = LinesOf(vga, col)
  /\ [r \in 1..(col' \div Cols) |-> RowAt((r - 1) * Cols)'] = LinesOf(vga', col')
  BY DEF RowAt, LinesOf, RowOfCells

\* DISPLAY prints a line.
LEMMA TextPrinted ==
  ASSUME ConsoleInv, pc = "run",
         NEW text \in Seq(AnyChar), Len(text) < Cols,
         Becomes(Newline(PrintStr(vga, col, text))),
         UNCHANGED <<pc, acceptVars>>
  PROVE  Term!PrintLine(text)
<1>1. vga \in [Memory -> AnyChar] /\ col \in Nat /\ BlankFrom(vga, col)
  BY DEF ConsoleInv, TypeOK
<1>2. Write(vga, col, text) \in [Memory -> AnyChar]
  BY <1>1, WriteBlank
<1>3. Becomes(Newline(Console(Write(vga, col, text), col + Len(text))))
      /\ Len(text) \in 0..(Cols - 1)
  BY DEF PrintStr
<1>4. ASSUME NEW k \in 0..(Rows - 1), col = k * Cols
      PROVE  /\ RowOfCells(Write(vga, col, text), k + 1) = PaddedRow(text)
             /\ \A i \in Memory : i < k * Cols => Write(vga, col, text)[i] = vga[i]
  BY <1>1, <1>4, WrittenRow
<1>5. LinesOf(vga', col') = ScrolledBy(LinesOf(vga, col), text)
  BY <1>2, <1>3, <1>4, LineEnds
<1>6. /\ ~(pc = "accept") /\ pc' = pc /\ bufPos' = bufPos /\ field' = field
  BY DEF acceptVars
<1> QED
  BY <1>5, <1>6, Shown DEF Term!PrintLine, Term!Scrolled, Term!Padded, ScrolledBy, PaddedRow

LEMMA DisplayPrints ==
  ASSUME ShorterThanRow, ConsoleInv, Display
  PROVE  Term!Next
<1>1. ASSUME NEW text \in Texts, DisplayText(text)
      PROVE  Term!Next
  <2>1. text \in Seq(AnyChar) /\ Len(text) < Cols
    BY DEF ShorterThanRow
  <2>2. Term!PrintLine(text)
    BY <1>1, <2>1, TextPrinted DEF DisplayText
  <2> QED
    BY <2>2 DEF Term!Next
<1>2. ASSUME NEW n \in Numbers, DisplayNumber(n)
      PROVE  Term!Next
  <2>1. n > 0 /\ n \in Nat /\ Len(Digits[n]) < Cols
    BY DEF ShorterThanRow
  <2>2. PrintInt(vga, col, n) = PrintStr(vga, col, Digits[n])
    BY <2>1 DEF PrintInt, PrintStr
  <2>3. Digits[n] \in Seq(AnyChar)
    <3>1. Digits[n] \in Seq(Chars) /\ Chars \subseteq AnyChar
      BY <2>1, DigitsType DEF AnyChar
    <3> QED
      BY <3>1
  <2>4. Term!PrintLine(Digits[n])
    BY <1>2, <2>1, <2>2, <2>3, TextPrinted DEF DisplayNumber
  <2> QED
    BY <2>4 DEF Term!Next
<1> QED
  BY <1>1, <1>2 DEF Display

\* The line that is typed.
LEMMA TypedLineType ==
  ASSUME TypeOK
  PROVE  /\ TypedLine \in Seq(AnyChar) /\ Len(TypedLine) = bufPos
         /\ \A i \in 1..bufPos : TypedLine[i] = field[i]
<1>1. bufPos \in Nat /\ \A i \in 1..bufPos : field[i] \in AnyChar
  BY DEF TypeOK
<1> QED
  BY <1>1 DEF TypedLine

\* The rows above the one that is typed in stay.
LEMMA LinesStay ==
  ASSUME ConsoleInv, NEW c \in Nat, c >= col, NEW ch \in AnyChar,
         vga' = Write(vga, c, <<ch>>), col' = col
  PROVE  LinesOf(vga', col') = LinesOf(vga, col)
<1>1. PICK k \in 0..(Rows - 1) : col = k * Cols
  BY DEF ConsoleInv, AtRow
<1>2. vga \in [Memory -> AnyChar] /\ col \in Nat
  BY DEF ConsoleInv, TypeOK
<1>3. vga' \in [Memory -> AnyChar]
  <2>1. c \in Int /\ <<ch>> \in Seq(AnyChar)
    OBVIOUS
  <2>2. Write(vga, c, <<ch>>) \in [Memory -> AnyChar]
    BY <1>2, <2>1, WriteType, Zenon
  <2> QED
    BY <2>2
<1>4. ASSUME NEW i \in Memory, i < col
      PROVE  vga'[i] = vga[i]
  <2>1. i - c + 1 \notin 1..Len(<<ch>>)
    BY <1>2, <1>4 DEF Memory
  <2> QED
    BY <2>1 DEF Write
<1> QED
  BY <1>1, <1>2, <1>3, <1>4, SameLines

LEMMA StartBegins ==
  ASSUME ConsoleInv, AcceptStart
  PROVE  Term!Begin
<1>1. /\ pc = "run" /\ pc' = "accept" /\ bufPos' = 0 /\ bufPos = 0
      /\ vga' = vga /\ col' = col /\ field' = field
  BY DEF AcceptStart, ConsoleInv
<1> QED
  BY <1>1 DEF Term!Begin, RowAt

LEMMA CharTypes ==
  ASSUME ConsoleInv, NEW ch \in AnyChar, AcceptChar(ch)
  PROVE  Term!Type(ch)
<1>1. /\ pc = "accept" /\ pc' = "accept" /\ bufPos' = bufPos + 1 /\ bufPos < FieldSize - 1
      /\ field' = [field EXCEPT ![bufPos + 1] = ch] /\ col' = col
      /\ vga' = Write(vga, vgaPos, <<ch>>)
  BY DEF AcceptChar
<1>2. /\ vgaPos \in Nat /\ vgaPos >= col /\ bufPos \in Nat
      /\ field \in [1..FieldSize -> AnyChar]
  BY <1>1 DEF ConsoleInv, TypeOK
<1>3. LinesOf(vga', col') = LinesOf(vga, col)
  BY <1>1, <1>2, LinesStay
<1>4. TypedLine \in Seq(AnyChar) /\ Len(TypedLine) = bufPos
      /\ \A i \in 1..bufPos : TypedLine[i] = field[i]
  BY TypedLineType DEF ConsoleInv
<1>5. TypedLine' = Append(TypedLine, ch)
  <2>1. TypedLine' = [i \in 1..(bufPos + 1) |-> IF i = bufPos + 1 THEN ch ELSE field[i]]
    BY <1>1, <1>2 DEF TypedLine
  <2>2. \A i \in 1..(bufPos + 1) : Append(TypedLine, ch)[i] = IF i = bufPos + 1 THEN ch ELSE field[i]
    BY <1>2, <1>4
  <2>3. Append(TypedLine, ch) \in [1..(bufPos + 1) -> AnyChar]
    <3>1. Append(TypedLine, ch) \in Seq(AnyChar) /\ Len(Append(TypedLine, ch)) = bufPos + 1
      BY <1>4
    <3> QED
      BY <3>1, LenProperties
  <2> QED
    BY <2>1, <2>2, <2>3
<1>6. Len(TypedLine) < FieldSize - 1
  BY <1>1, <1>4
<1> QED
  BY <1>1, <1>3, <1>5, <1>6, Shown DEF Term!Type, TypedLine

LEMMA BackspaceErases ==
  ASSUME ConsoleInv, AcceptBackspace
  PROVE  Term!Erase
<1>1. /\ pc = "accept" /\ pc' = "accept" /\ bufPos' = bufPos - 1 /\ bufPos > 0
      /\ field' = field /\ col' = col /\ vga' = Write(vga, vgaPos - 1, <<Blank>>)
  BY DEF AcceptBackspace
<1>2. /\ vgaPos - 1 \in Nat /\ vgaPos - 1 >= col /\ bufPos \in Nat /\ Blank \in AnyChar
      /\ field \in [1..FieldSize -> AnyChar]
  BY <1>1 DEF ConsoleInv, TypeOK, AnyChar
<1>3. LinesOf(vga', col') = LinesOf(vga, col)
  BY <1>1, <1>2, LinesStay
<1>4. TypedLine \in Seq(AnyChar) /\ Len(TypedLine) = bufPos
      /\ \A i \in 1..bufPos : TypedLine[i] = field[i]
  BY TypedLineType DEF ConsoleInv
<1>5. TypedLine' = SubSeq(TypedLine, 1, Len(TypedLine) - 1)
  <2>1. TypedLine' = [i \in 1..(bufPos - 1) |-> field[i]]
    BY <1>1 DEF TypedLine
  <2>2. \A i \in 1..(bufPos - 1) : TypedLine[i] \in AnyChar /\ TypedLine[i] = field[i]
    BY <1>2, <1>4
  <2>3. /\ SubSeq(TypedLine, 1, bufPos - 1) \in Seq(AnyChar)
        /\ Len(SubSeq(TypedLine, 1, bufPos - 1)) = bufPos - 1
        /\ \A i \in 1..(bufPos - 1) : SubSeq(TypedLine, 1, bufPos - 1)[i] = TypedLine[i]
    BY <1>1, <1>2, <1>4
  <2>4. SubSeq(TypedLine, 1, bufPos - 1) \in [1..(bufPos - 1) -> AnyChar]
    BY <2>3, LenProperties
  <2> QED
    BY <1>4, <2>1, <2>2, <2>3, <2>4
<1>6. TypedLine # <<>>
  BY <1>1, <1>4
<1> QED
  BY <1>1, <1>3, <1>5, <1>6, Shown DEF Term!Erase, TypedLine

LEMMA EnterEnds ==
  ASSUME ShorterThanRow, ConsoleInv, AcceptEnter
  PROVE  Term!End
<1>1. /\ pc = "accept" /\ pc' = "run" /\ bufPos' = 0
      /\ field' = [i \in 1..FieldSize |-> IF i > bufPos THEN Blank ELSE field[i]]
  BY DEF AcceptEnter
<1>2. /\ col \in Nat /\ bufPos \in 0..(Cols - 1) /\ bufPos \in 0..(FieldSize - 1)
      /\ vgaPos = col + bufPos /\ vga \in [Memory -> AnyChar]
      /\ \A i \in 1..bufPos : vga[col + i - 1] = field[i]
      /\ BlankFrom(vga, col + bufPos)
  BY <1>1 DEF ConsoleInv, TypeOK, ShorterThanRow
<1>3. Becomes(Newline(Console(vga, col + bufPos)))
  BY <1>2 DEF AcceptEnter
<1>4. TypedLine \in Seq(AnyChar) /\ Len(TypedLine) = bufPos
      /\ \A i \in 1..bufPos : TypedLine[i] = field[i]
  BY TypedLineType DEF ConsoleInv
<1>5. ASSUME NEW k \in 0..(Rows - 1), col = k * Cols
      PROVE  RowOfCells(vga, k + 1) = PaddedRow(TypedLine)
  <2>1. ((k + 1) - 1) * Cols = col /\ k + 1 \in 1..Rows
    BY <1>5
  <2>2. ASSUME NEW i \in 1..Cols
        PROVE  vga[col + i - 1] = IF i <= bufPos THEN TypedLine[i] ELSE Blank
    <3>1. col + i - 1 \in Memory
      BY <2>1, CellOfRow
    <3>2. CASE i <= bufPos
      <4>1. i \in 1..bufPos
        BY <1>2, <3>2
      <4>2. vga[col + i - 1] = TypedLine[i]
        BY <1>2, <1>4, <4>1, Zenon
      <4> QED
        BY <3>2, <4>2, Zenon
    <3>3. CASE ~(i <= bufPos)
      <4>1. col + i - 1 >= col + bufPos
        BY <1>2, <3>3
      <4> QED
        BY <1>2, <3>1, <3>3, <4>1 DEF BlankFrom
    <3> QED
      BY <3>2, <3>3
  <2> QED
    BY <1>4, <2>1, <2>2, Zenon DEF RowOfCells, PaddedRow
<1>6. LinesOf(vga', col') = ScrolledBy(LinesOf(vga, col), TypedLine)
  BY <1>2, <1>3, <1>5, LineEnds
<1>7. field' = [i \in 1..((FieldSize - 1) + 1) |->
                   IF i <= Len(TypedLine) THEN TypedLine[i] ELSE Blank]
  <2>1. (FieldSize - 1) + 1 = FieldSize
    OBVIOUS
  <2>2. \A i \in 1..FieldSize : (IF i > bufPos THEN Blank ELSE field[i])
                                 = IF i <= Len(TypedLine) THEN TypedLine[i] ELSE Blank
    BY <1>2, <1>4
  <2> QED
    BY <1>1, <2>1, <2>2
<1>8. TypedLine' = <<>>
  BY <1>1 DEF TypedLine
<1> QED
  BY <1>1, <1>6, <1>7, <1>8, Shown
  DEF Term!End, Term!Scrolled, Term!Padded, ScrolledBy, PaddedRow, TypedLine

\* What is shown when nothing changes.
LEMMA StutterShown ==
  ASSUME UNCHANGED vars
  PROVE  UNCHANGED Term!vars
  BY DEF vars, acceptVars, Term!vars, RowAt

LEMMA TerminalInit == Init => Term!Init
<1> SUFFICES ASSUME Init PROVE Term!Init
  OBVIOUS
<1>1. 0 \div Cols = 0
  <2>1. (0 * Cols + 0) \div Cols = 0
    BY RowOf
  <2> QED
    BY <2>1
<1>2. [r \in 1..(col \div Cols) |-> RowAt((r - 1) * Cols)] = <<>>
  BY <1>1 DEF Init
<1>3. [i \in 1..bufPos |-> field[i]] = <<>>
  BY DEF Init
<1>4. (FieldSize - 1) + 1 = FieldSize
  OBVIOUS
<1>5. field = [i \in 1..((FieldSize - 1) + 1) |-> IF i <= Len(<<>>) THEN <<>>[i] ELSE Blank]
  BY <1>4 DEF Init
<1> QED
  BY <1>2, <1>3, <1>5 DEF Init, Term!Init, Term!Padded

\* The screen is a terminal: as long as every line is shorter than a row, it
\* shows the last lines that were displayed and typed, whatever the order, and
\* ACCEPT returns the line as it was edited.
THEOREM TerminalImplemented ==
  ASSUME ShorterThanRow
  PROVE  Spec => ImplementsTerminal
<1>1. ConsoleInv /\ [Next]_vars => [Term!Next]_(Term!vars)
  <2> SUFFICES ASSUME ConsoleInv, [Next]_vars
               PROVE  [Term!Next]_(Term!vars)
    OBVIOUS
  <2>1. CASE Display
    BY <2>1, DisplayPrints
  <2>2. CASE AcceptStart
    BY <2>2, StartBegins DEF Term!Next
  <2>3. ASSUME NEW ch \in AnyChar, AcceptChar(ch)
        PROVE  Term!Next
    BY <2>3, CharTypes DEF Term!Next, AnyChar
  <2>4. CASE AcceptBackspace
    BY <2>4, BackspaceErases DEF Term!Next
  <2>5. CASE AcceptEnter
    BY <2>5, EnterEnds DEF Term!Next
  <2>6. CASE AcceptIgnored \/ UNCHANGED vars
    BY <2>6, StutterShown DEF AcceptIgnored
  <2> QED
    BY <2>1, <2>2, <2>3, <2>4, <2>5, <2>6 DEF Next, Accept
<1>2. Spec => []ConsoleInv
  BY ShorterFits, ConsoleInvariant
<1> QED
  BY <1>1, <1>2, TerminalInit, PTL DEF Spec, ImplementsTerminal, Term!Spec
=============================================================================
