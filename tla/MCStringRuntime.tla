-------------------------- MODULE MCStringRuntime --------------------------
(* A field of three bytes, items of up to two, so that an item can end in,   *)
(* at and behind the last byte; one delimiter of two bytes, of which an item *)
(* may end with the first.                                                   *)
EXTENDS StringRuntime

CONSTANTS A, C

TwoBytes == {A, C, Blank}
SmallSources == {<<A>>, <<A, C>>, <<Blank, A>>}
SmallDelims == {<<Blank>>, <<C, A>>, <<A, C>>}
SmallWords == {0, 1}
SmallPointers == {0, 1, 3, 4}
=============================================================================
