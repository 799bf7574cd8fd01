------------------------------ MODULE Terminal ------------------------------
(***************************************************************************)
(* What the bare metal console promises: a screen that shows the last      *)
(* lines that were printed or typed, one row each, and a line being typed  *)
(* in the row below them, which becomes the input of the program.          *)
(***************************************************************************)
EXTENDS Naturals, Sequences

CONSTANTS
    Cols, Rows,
    Chars, Blank,
    Texts,          \* the lines the program prints
    MaxLine         \* the longest line that can be typed

VARIABLES
    lines,          \* the rows above the cursor
    line,           \* the characters typed so far
    reading,        \* whether a line is being typed
    input           \* the last line typed; unknown while another one is

vars == <<lines, line, reading, input>>

Padded(text, n) == [i \in 1..n |-> IF i <= Len(text) THEN text[i] ELSE Blank]

\* A new row, and one row less at the top when the screen is full.
Scrolled(text) ==
    LET all == Append(lines, Padded(text, Cols)) IN
    IF Len(all) = Rows THEN Tail(all) ELSE all

Init ==
    /\ lines = <<>>
    /\ line = <<>>
    /\ reading = FALSE
    /\ input = Padded(<<>>, MaxLine + 1)

PrintLine(text) ==
    /\ ~reading
    /\ lines' = Scrolled(text)
    /\ UNCHANGED <<line, reading, input>>

Begin ==
    /\ ~reading
    /\ reading' = TRUE
    /\ input' = <<>>
    /\ UNCHANGED <<lines, line>>

Type(ch) ==
    /\ reading
    /\ Len(line) < MaxLine
    /\ line' = Append(line, ch)
    /\ UNCHANGED <<lines, reading, input>>

Erase ==
    /\ reading
    /\ line # <<>>
    /\ line' = SubSeq(line, 1, Len(line) - 1)
    /\ UNCHANGED <<lines, reading, input>>

End ==
    /\ reading
    /\ reading' = FALSE
    /\ lines' = Scrolled(line)
    /\ input' = Padded(line, MaxLine + 1)
    /\ line' = <<>>

Next ==
    \/ \E text \in Texts : PrintLine(text)
    \/ Begin
    \/ \E ch \in Chars \cup {Blank} : Type(ch)
    \/ Erase
    \/ End

Spec == Init /\ [][Next]_vars
=============================================================================
