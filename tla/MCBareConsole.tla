--------------------------- MODULE MCBareConsole ---------------------------
(* Small screens for BareConsole: one character besides the digits and the  *)
(* sign, texts shorter than a row.                                            *)
EXTENDS BareConsole

CONSTANTS X, Sign, Zero, Digit1

SmallChars == {X, Sign, Zero, Digit1}

\* The digits other than 0 look alike.
SmallDigits == [d \in 0..9 |-> IF d = 0 THEN Zero ELSE Digit1]

ShortTexts == {<<X>>, <<X, Blank>>}
Positive == {7, 10}
ZeroOnly == {0}
=============================================================================
