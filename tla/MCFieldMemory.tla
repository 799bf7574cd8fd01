--------------------------- MODULE MCFieldMemory ---------------------------
(* Two PIC X items with a PIC 9 item between them: of the sizes that MOVE, a *)
(* literal and GIVING store behind; texts of every length.                   *)
EXTENDS FieldMemory, TLC

MCTextItems == {"F", "G"}
MCNumberItems == {"N"}
MCSize == "F" :> 1 @@ "N" :> 4 @@ "G" :> 3
MCBase == "F" :> 0 @@ "N" :> 2 @@ "G" :> 6
MCTop == 11

MCChars == {"a", " "}
MCByte == MCChars \cup {"nul", "nl"}
MCLiterals == {<<"a">>, <<"a", " ", "a", "a">>}
MCIntegers == {<<"a", "nul", "nul", "a">>}
MCLines == {<<"a">>}

Body == <<"a", "a">>
LongBody == <<"a", "nl", "a", "a", "a">>
MCTexts == {Body, LongBody}
MCObjects ==
    Body :> ("G" :> {<<"a", "nul", "a">>} @@ "N" :> MCIntegers)
    @@ LongBody :> ("G" :> {<<"a">>} @@ "N" :> {})
MCGroup == {"G", "N"}

MCCalls ==
    {[giving |-> "N", mapping |-> FALSE, status |-> None],
     [giving |-> "G", mapping |-> TRUE, status |-> "N"],
     [giving |-> None, mapping |-> TRUE, status |-> None]}
=============================================================================
