---------------------------- MODULE BareConsole ----------------------------
(***************************************************************************)
(* DISPLAY and ACCEPT of a bare metal kernel: the LLVM IR helpers that     *)
(* src/codegen/codegen.go adds to every program compiled for x86-bare.     *)
(* They write the cells of VGA text memory from a cursor, @cob.vga.col,    *)
(* that counts cells from the upper left corner, and poll the keyboard.    *)
(* A cell is its character; the attribute byte is always 7.  Of the text   *)
(* memory behind the screen the first Behind cells are modelled.           *)
(***************************************************************************)
EXTENDS Integers, Sequences

CONSTANTS
    Cols, Rows,     \* the size of the screen, 80 x 25
    Behind,         \* bound: modelled cells of text memory behind the screen
    Chars,          \* the printable characters, without the blank
    Blank,          \* the space
    Texts,          \* what PIC X items and literals display
    Numbers,        \* what PIC 9 items display
    Digit,          \* Digit[d] is the character of 0 <= d <= 9
    Minus,          \* the character '-'
    FieldSize       \* size of the PIC X field that ACCEPT fills

ASSUME ScreenAssumption ==
    /\ Cols \in Nat \ {0}
    /\ Rows \in Nat \ {0, 1}
    /\ Behind \in Nat
    /\ FieldSize \in Nat \ {0}

ASSUME CharAssumption ==
    /\ Digit \in [0..9 -> Chars]
    /\ Minus \in Chars
    /\ Blank \notin Chars

AnyChar == Chars \cup {Blank}

ASSUME TextAssumption == Texts \subseteq Seq(AnyChar)
ASSUME NumberAssumption == Numbers \subseteq Int

Screen == Cols * Rows           \* number of cells on the screen
LastRow == Cols * (Rows - 1)    \* first cell of the last row
Memory == 0..(Screen + Behind - 1)

VARIABLES
    vga,        \* text memory
    col,        \* @cob.vga.col
    pc,         \* "run", or "accept" while ACCEPT polls the keyboard
    field,      \* the bytes of the field
    bufPos,     \* buf_pos of cob_bare_accept
    vgaPos      \* vga_pos of cob_bare_accept, in cells

acceptVars == <<field, bufPos, vgaPos>>
vars == <<vga, col, pc, acceptVars>>

\* boot.S clears the screen before it calls the program.
Init ==
    /\ vga = [i \in Memory |-> Blank]
    /\ col = 0
    /\ pc = "run"
    /\ field = [i \in 1..FieldSize |-> Blank]
    /\ bufPos = 0
    /\ vgaPos = 0

----------------------------------------------------------------------------
(* cob_bare_print_str, cob_bare_print_int, cob_bare_newline: what each makes *)
(* of the text memory v and the cursor c.                                    *)

Console(v, c) == [vga |-> v, col |-> c]

\* No cell is out of reach of the pointer arithmetic.
Write(v, c, text) ==
    [i \in Memory |-> IF i - c + 1 \in 1..Len(text) THEN text[i - c + 1] ELSE v[i]]

PrintStr(v, c, text) == Console(Write(v, c, text), c + Len(text))

\* cob_utoa divides by 10 until nothing is left and reverses the remainders.
Digits[n \in Nat] ==
    IF n < 10 THEN <<Digit[n]>> ELSE Append(Digits[n \div 10], Digit[n % 10])

\* A zero sets the cursor to 2, and the digits of a negative number go where
\* its sign is, although the cursor counts the sign.
PrintInt(v, c, n) ==
    IF n = 0 THEN Console(Write(v, c, Digits[0]), 2)
    ELSE IF n < 0
         THEN Console(Write(Write(v, c, <<Minus>>), c, Digits[-n]), c + 1 + Len(Digits[-n]))
         ELSE Console(Write(v, c, Digits[n]), c + Len(Digits[n]))

\* Mutant: scrolls one row too late.
NewlineScrollsLate(s) ==
    LET next == s.col \div Cols + 1 IN
    IF next > Rows
    THEN Console([i \in Memory |-> IF i < LastRow THEN s.vga[i + Cols]
                                   ELSE IF i < Screen THEN Blank ELSE s.vga[i]],
                 LastRow)
    ELSE Console(s.vga, next * Cols)

\* Mutant: the last row is not cleared.
NewlineKeepsLastRow(s) ==
    LET next == s.col \div Cols + 1 IN
    IF next >= Rows
    THEN Console([i \in Memory |-> IF i < LastRow THEN s.vga[i + Cols] ELSE s.vga[i]],
                 LastRow)
    ELSE Console(s.vga, next * Cols)

\* To the start of the next row; after the last one everything moves up.
Newline(s) ==
    LET next == s.col \div Cols + 1 IN
    IF next >= Rows
    THEN Console([i \in Memory |-> IF i < LastRow THEN s.vga[i + Cols]
                                   ELSE IF i < Screen THEN Blank ELSE s.vga[i]],
                 LastRow)
    ELSE Console(s.vga, next * Cols)

Becomes(s) == vga' = s.vga /\ col' = s.col

----------------------------------------------------------------------------
\* One item of a DISPLAY and the newline after it.
DisplayText(text) ==
    /\ pc = "run"
    /\ Becomes(Newline(PrintStr(vga, col, text)))
    /\ UNCHANGED <<pc, acceptVars>>

DisplayNumber(n) ==
    /\ pc = "run"
    /\ Becomes(Newline(PrintInt(vga, col, n)))
    /\ UNCHANGED <<pc, acceptVars>>

AcceptStart ==
    /\ pc = "run"
    /\ pc' = "accept"
    /\ bufPos' = 0
    /\ vgaPos' = col
    /\ UNCHANGED <<vga, col, field>>

\* Mutant: no byte is left over.
AcceptCharFillsField(ch) ==
    /\ pc = "accept"
    /\ bufPos < FieldSize
    /\ field' = [field EXCEPT ![bufPos + 1] = ch]
    /\ vga' = Write(vga, vgaPos, <<ch>>)
    /\ bufPos' = bufPos + 1
    /\ vgaPos' = vgaPos + 1
    /\ UNCHANGED <<col, pc>>

\* A printable key is stored and echoed if it leaves the field's last byte.
AcceptChar(ch) ==
    /\ pc = "accept"
    /\ bufPos < FieldSize - 1
    /\ field' = [field EXCEPT ![bufPos + 1] = ch]
    /\ vga' = Write(vga, vgaPos, <<ch>>)
    /\ bufPos' = bufPos + 1
    /\ vgaPos' = vgaPos + 1
    /\ UNCHANGED <<col, pc>>

\* A break code, a key without character, a character without room or a
\* backspace in an empty line: the loop polls on.
AcceptIgnored ==
    /\ pc = "accept"
    /\ UNCHANGED vars

\* Mutant: the character before the cursor stays on the screen.
AcceptBackspaceKeepsEcho ==
    /\ pc = "accept"
    /\ bufPos > 0
    /\ bufPos' = bufPos - 1
    /\ vgaPos' = vgaPos - 1
    /\ UNCHANGED <<vga, col, pc, field>>

AcceptBackspace ==
    /\ pc = "accept"
    /\ bufPos > 0
    /\ bufPos' = bufPos - 1
    /\ vgaPos' = vgaPos - 1
    /\ vga' = Write(vga, vgaPos - 1, <<Blank>>)
    /\ UNCHANGED <<col, pc, field>>

\* Enter pads the field with spaces and ends the line.
AcceptEnter ==
    /\ pc = "accept"
    /\ field' = [i \in 1..FieldSize |-> IF i > bufPos THEN Blank ELSE field[i]]
    /\ Becomes(Newline(Console(vga, vgaPos)))
    /\ pc' = "run"
    /\ bufPos' = 0
    /\ vgaPos' = 0

Accept ==
    \/ AcceptStart
    \/ \E ch \in AnyChar : AcceptChar(ch)
    \/ AcceptIgnored
    \/ AcceptBackspace
    \/ AcceptEnter

Display ==
    \/ \E text \in Texts : DisplayText(text)
    \/ \E n \in Numbers : DisplayNumber(n)

Next == Display \/ Accept

Spec == Init /\ [][Next]_vars

----------------------------------------------------------------------------
\* Every variable has its type.
TypeOK ==
    /\ vga \in [Memory -> AnyChar]
    /\ col \in Nat
    /\ pc \in {"run", "accept"}
    /\ field \in [1..FieldSize -> AnyChar]
    /\ bufPos \in 0..(FieldSize - 1)
    /\ vgaPos \in Nat

\* Nothing is written to the text memory behind the screen, however many
\* lines are displayed and typed.
OnScreen == \A i \in Memory : i >= Screen => vga[i] = Blank

\* Every DISPLAY and ACCEPT finds the cursor at the start of a row of the
\* screen, and nothing on that row or below it.  While a line is typed its row
\* shows the characters stored in the field and nothing behind them: ACCEPT
\* counts bytes of the screen and of the field separately.
ReadyForLine ==
    /\ pc = "run" =>
          /\ col % Cols = 0
          /\ col <= LastRow
          /\ \A i \in col..(Screen - 1) : vga[i] = Blank
    /\ pc = "accept" =>
          /\ vgaPos = col + bufPos
          /\ \A i \in 1..bufPos : vga[col + i - 1] = field[i]
          /\ \A i \in vgaPos..(Screen - 1) : vga[i] = Blank

\* "newline sets cursor to next row start" (src/DESIGN_HARDWARE.md:505): a
\* DISPLAY or ACCEPT that moves the cursor moves it one row down.
NextRowStart == [][col' # col => col' = (col \div Cols + 1) * Cols]_vars

----------------------------------------------------------------------------
(* The terminal it implements, for texts shorter than a row.                 *)

RowAt(c) == [i \in 1..Cols |-> vga[c + i - 1]]

Term == INSTANCE Terminal
    WITH Texts <- Texts \cup {Digits[n] : n \in Numbers},
         MaxLine <- FieldSize - 1,
         lines <- [r \in 1..(col \div Cols) |-> RowAt((r - 1) * Cols)],
         line <- [i \in 1..bufPos |-> field[i]],
         reading <- (pc = "accept"),
         input <- IF pc = "accept" THEN <<>> ELSE field

\* The screen shows the last lines displayed and typed, and ACCEPT returns
\* the line as it was edited, padded with spaces.
ImplementsTerminal == Term!Spec
=============================================================================
