------------------------------ MODULE DataItems ------------------------------
(***************************************************************************)
(* parseWorkingStorageItems of parser.go: the items of WORKING-STORAGE are *)
(* read from the tokens, one clause at a time.                             *)
(***************************************************************************)
EXTENDS Lexer, DataHierarchy

CONSTANTS
    Numeral,    \* strconv.Atoi: the value of each number that is an int
    MaxInt      \* what it makes of a larger one, besides an error

ASSUME NumeralAssumption ==
    /\ MaxInt \in Nat
    /\ \A digits \in DOMAIN Numeral : Numeral[digits] \in Int

VARIABLES
    at,         \* Parser.pos
    inItem,     \* an item is being read, its level number and name are known
    dataErrs    \* the parse errors

itemVars == <<items, at, inItem, dataErrs>>

NoPicture == [kind |-> "none", size |-> 0, comp |-> FALSE]

StartItems ==
    /\ items = <<>>
    /\ at = 1
    /\ inItem = FALSE
    /\ dataErrs = 0

----------------------------------------------------------------------------
\* The tokens from p.pos on; behind the end there is only EOF.
Type(i) == IF i <= Len(tokens) THEN tokens[i].type ELSE "EOF"
Literal(i) ==
    LET t == tokens[i]
        quoted == At(t.first, Quotes)
    IN  IF quoted THEN SubSeq(text, t.first + 1, t.last - 1) ELSE SubSeq(text, t.first, t.last)

\* The end of WORKING-STORAGE: the first token that is no level number.
ItemsEnd == ~inItem /\ Type(at) # "INTEGER"

\* A reserved word is a name, too, and so is a string that begins with a letter.
IsName(i) ==
    Type(i) \notin {"INTEGER", ".", "EOF"}
    /\ LET l == Literal(i) IN l # <<>> /\ l[1] \in Letters

\* A level number that is no int ends WORKING-STORAGE, too.
InvalidLevel ==
    /\ ~inItem /\ Type(at) = "INTEGER" /\ Literal(at) \notin DOMAIN Numeral
    /\ at' = at + 1
    /\ dataErrs' = dataErrs + 1
    /\ UNCHANGED <<items, inItem>>

LevelNumber ==
    /\ ~inItem /\ Type(at) = "INTEGER" /\ Literal(at) \in DOMAIN Numeral
    /\ LET item(name) == [level |-> Numeral[Literal(at)], name |-> name, pic |-> NoPicture]
       IN  \/ /\ IsName(at + 1)
              /\ items' = Append(items, item(Literal(at + 1)))
              /\ at' = at + 2
              /\ inItem' = TRUE
              /\ UNCHANGED dataErrs
           \/ /\ ~IsName(at + 1)
              /\ items' = Append(items, item(<<>>))
              /\ at' = at + 1
              /\ dataErrs' = dataErrs + 1
              /\ UNCHANGED inItem

\* A period ends an item; so does the level number of the next one, without it.
ItemEnd ==
    /\ inItem /\ Type(at) \in {".", "INTEGER", "EOF"}
    /\ inItem' = FALSE
    /\ at' = IF Type(at) = "." THEN at + 1 ELSE at
    /\ UNCHANGED <<items, dataErrs>>

\* X and 9 only: "XX" and "999" are other tokens.
PictureKind(i) ==
    IF Type(i) = "IDENTIFIER" /\ Literal(i) = <<"X">> THEN "x"
    ELSE IF Type(i) = "INTEGER" /\ Literal(i) = <<"9">> THEN "9"
    ELSE "none"

\* One token of the type, if it is there.
Taken(i, type) == IF Type(i) = type THEN 1 ELSE 0

\* The error is overlooked.
Size(i) == IF Literal(i) \in DOMAIN Numeral THEN Numeral[Literal(i)] ELSE MaxInt

\* X or 9, an optional size in parentheses, and optional COMP.
PictureClause ==
    /\ inItem /\ Type(at) = "PIC" /\ PictureKind(at + 1) # "none"
    /\ LET sized == Type(at + 2) = "("
           number == Taken(at + 3, "INTEGER")
           close == Taken(at + 3 + number, ")")
           end == IF sized THEN at + 3 + number + close ELSE at + 2
           size == IF ~sized THEN 1 ELSE IF number = 1 THEN Size(at + 3) ELSE 0
       IN  /\ items' = [items EXCEPT ![Len(items)].pic =
                           [kind |-> PictureKind(at + 1), size |-> size,
                            comp |-> Type(end) = "COMP"]]
           /\ at' = end + Taken(end, "COMP")
           /\ dataErrs' = IF sized THEN dataErrs + 2 - number - close ELSE dataErrs
    /\ UNCHANGED inItem

\* The item has an empty picture then, which is one of kind X.
NoPictureCharacter ==
    /\ inItem /\ Type(at) = "PIC" /\ PictureKind(at + 1) = "none"
    /\ items' = [items EXCEPT ![Len(items)].pic = [kind |-> "x", size |-> 0, comp |-> FALSE]]
    /\ at' = at + 1
    /\ dataErrs' = dataErrs + 1
    /\ UNCHANGED inItem

\* Mutant: whatever stands behind VALUE is taken.
ValueClauseAny ==
    /\ inItem /\ Type(at) = "VALUE"
    /\ at' = at + 2
    /\ UNCHANGED <<items, inItem, dataErrs>>

\* OCCURS and VALUE, of which nothing depends on here.
OccursClause ==
    /\ inItem /\ Type(at) = "OCCURS"
    /\ LET number == Taken(at + 1, "INTEGER")
       IN  at' = at + 1 + number + Taken(at + 1 + number, "TIMES")
    /\ UNCHANGED <<items, inItem, dataErrs>>

ValueClause ==
    /\ inItem /\ Type(at) = "VALUE"
    /\ LET value == Taken(at + 1, "STRING") + Taken(at + 1, "INTEGER")
       IN  /\ at' = at + 1 + value
           /\ dataErrs' = dataErrs + 1 - value
    /\ UNCHANGED <<items, inItem>>

\* Any other token in an item is skipped without a word.
UnknownClause ==
    /\ inItem /\ Type(at) \notin {".", "INTEGER", "EOF", "PIC", "OCCURS", "VALUE"}
    /\ at' = at + 1
    /\ UNCHANGED <<items, inItem, dataErrs>>

ItemStep ==
    \/ LevelNumber \/ ItemEnd \/ PictureClause \/ NoPictureCharacter
    \/ OccursClause \/ ValueClause \/ UnknownClause
=============================================================================
