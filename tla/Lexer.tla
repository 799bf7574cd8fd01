------------------------------- MODULE Lexer -------------------------------
(***************************************************************************)
(* lexer.go: a text is read character by character and cut into tokens.    *)
(* A token is a span of the text; its literal is the text in the span, but *)
(* for the quotes of a string and the digits of a hexadecimal number.      *)
(***************************************************************************)
EXTENDS Naturals, Sequences, FiniteSets

CONSTANTS
    Chars,          \* the characters of programs
    Texts,          \* the programs, sequences of characters
    Letters, Digits, HexDigits,
    Upper,          \* strings.ToUpper, for each character of a word
    Keywords,       \* Lexer.keywords: the type of each keyword, in upper case
    Newline

\* Characters that the lexer looks for by themselves.
Quotes == {"'", "\""}
Special == {" ", ".", "(", ")", ",", "=", "+", "-", "*", "/", ">", "<"} \cup Quotes

ASSUME TextAssumption == Texts \subseteq Seq(Chars)

\* Letters, digits, the others and the end of a line are told apart.
ASSUME CharacterAssumption ==
    /\ Newline \notin Special \cup Letters \cup Digits \cup {"0", "x", "X"}
    /\ (Letters \cup Digits) \cap Special = {}

\* No keyword has the type of a literal: "STRING" is that of a string in
\* quotes, not of the verb.
ASSUME KeywordAssumption ==
    \A w \in DOMAIN Keywords : Keywords[w] \notin {"STRING", "INTEGER", "ILLEGAL"}

VARIABLES
    text,
    pos,            \* the next character
    line, col,      \* its place, as an error message names it
    mode,           \* the function that reads: "next" is Next, "done" the end
    start,          \* where the token under way began: [first, line, col]
    tokens

lexVars == <<text, pos, line, col, mode, start, tokens>>

Blanks == {" ", Newline}        \* tabs and carriage returns are blanks
Marks == {".", "(", ")", ",", "=", "+", "/"}
WordChars == Letters \cup Digits \cup {"-"}

Beginning == [first |-> 1, line |-> 1, col |-> 1]

LexInit ==
    /\ text \in Texts
    /\ pos = 1 /\ line = 1 /\ col = 1
    /\ mode = "next"
    /\ start = Beginning
    /\ tokens = <<>>

At(i, chars) == i <= Len(text) /\ text[i] \in chars
Here == [first |-> pos, line |-> line, col |-> col]

\* Mutant: the column goes on behind the end of a line.
ReadSameColumn ==
    /\ pos' = pos + 1
    /\ line' = IF text[pos] = Newline THEN line + 1 ELSE line
    /\ col' = col + 1

\* The next character.
Read ==
    /\ pos' = pos + 1
    /\ line' = IF text[pos] = Newline THEN line + 1 ELSE line
    /\ col' = IF text[pos] = Newline THEN 1 ELSE col + 1

\* The next two characters, which are not the end of a line.
ReadTwo == pos' = pos + 2 /\ col' = col + 2 /\ UNCHANGED line

Stay == UNCHANGED <<pos, line, col>>

Emit(type, from) ==
    /\ tokens' = Append(tokens, [type |-> type, first |-> from.first, last |-> pos' - 1,
                                 line |-> from.line, col |-> from.col])
    /\ mode' = "next"

----------------------------------------------------------------------------
(* Next: the first character of a token.                                    *)

SkipWhitespace ==
    /\ mode = "next" /\ At(pos, Blanks)
    /\ Read
    /\ UNCHANGED <<text, mode, start, tokens>>

EndOfText ==
    /\ mode = "next" /\ pos > Len(text)
    /\ Stay
    /\ tokens' = Append(tokens, [type |-> "EOF", first |-> pos, last |-> pos - 1,
                                 line |-> line, col |-> col])
    /\ mode' = "done"
    /\ UNCHANGED <<text, start>>

Mark ==
    /\ mode = "next" /\ At(pos, Marks)
    /\ Read
    /\ Emit(text[pos], Here)
    /\ UNCHANGED <<text, start>>

\* "*>" and "->" begin a comment.
Comment ==
    /\ mode = "next" /\ At(pos, {"-", "*"}) /\ At(pos + 1, {">"})
    /\ ReadTwo
    /\ mode' = "comment"
    /\ UNCHANGED <<text, start, tokens>>

MinusOrMultiply ==
    /\ mode = "next" /\ At(pos, {"-", "*"}) /\ ~At(pos + 1, {">"})
    /\ Read
    /\ Emit(text[pos], Here)
    /\ UNCHANGED <<text, start>>

\* ">=" and "<=" and "<>" are the tokens GREATER and LESS with a longer
\* literal.
Angle ==
    /\ mode = "next" /\ At(pos, {">", "<"})
    /\ IF At(pos + 1, IF text[pos] = ">" THEN {"="} ELSE {"=", ">"})
       THEN ReadTwo ELSE Read
    /\ Emit(text[pos], Here)
    /\ UNCHANGED <<text, start>>

Illegal ==
    /\ mode = "next" /\ pos <= Len(text)
    /\ ~At(pos, Blanks \cup Marks \cup {"-", "*", ">", "<"} \cup Quotes \cup Digits \cup Letters)
    /\ Read
    /\ Emit("ILLEGAL", Here)
    /\ UNCHANGED <<text, start>>

\* A string, a word or a number begins; "0x" begins a hexadecimal one.
Begin(chars, function) ==
    /\ mode = "next" /\ At(pos, chars)
    /\ start' = Here
    /\ mode' = function
    /\ UNCHANGED <<text, tokens>>

ReadString == Begin(Quotes, "string") /\ Read
ReadWord == Begin(Letters, "word") /\ Read
ReadNumber == Begin(Digits, "number") /\ ~(text[pos] = "0" /\ At(pos + 1, {"x", "X"})) /\ Read
ReadHex == Begin({"0"}, "hex") /\ At(pos + 1, {"x", "X"}) /\ ReadTwo

----------------------------------------------------------------------------
(* The loops inside a token.                                                *)

\* skipToEndOfLine takes the end of the line with it.
InComment ==
    /\ mode = "comment"
    /\ IF pos > Len(text) THEN Stay ELSE Read
    /\ mode' = IF At(pos, {Newline}) \/ pos > Len(text) THEN "next" ELSE "comment"
    /\ UNCHANGED <<text, start, tokens>>

\* Mutant: either quote ends a string.
InStringAnyQuote ==
    /\ mode = "string"
    /\ IF pos > Len(text) THEN Stay ELSE Read
    /\ \/ pos > Len(text) /\ Emit("ILLEGAL", start)
       \/ At(pos, Quotes) /\ Emit("STRING", start)
       \/ At(pos, {Newline}) /\ Emit("ILLEGAL", start)
       \/ pos <= Len(text) /\ ~At(pos, Quotes \cup {Newline}) /\ UNCHANGED <<tokens, mode>>
    /\ UNCHANGED <<text, start>>

\* A string ends with the quote it began with; the end of the line, or of the
\* text, makes it illegal.
InString ==
    /\ mode = "string"
    /\ IF pos > Len(text) THEN Stay ELSE Read
    /\ LET quote == text[start.first] IN
          \/ pos > Len(text) /\ Emit("ILLEGAL", start)
          \/ At(pos, {quote}) /\ Emit("STRING", start)
          \/ At(pos, {Newline}) /\ Emit("ILLEGAL", start)
          \/ pos <= Len(text) /\ ~At(pos, {quote, Newline}) /\ UNCHANGED <<tokens, mode>>
    /\ UNCHANGED <<text, start>>

\* A word or a number goes on as long as its characters do.
InRun(function, chars, type) ==
    /\ mode = function
    /\ \/ At(pos, chars) /\ Read /\ UNCHANGED <<tokens, mode>>
       \/ ~At(pos, chars) /\ Stay /\ Emit(type, start)
    /\ UNCHANGED <<text, start>>

\* A keyword is its own type, in any case; every other word is an identifier.
WordType ==
    LET word == [i \in 1..(pos - start.first) |-> Upper[text[start.first + i - 1]]]
    IN  IF word \in DOMAIN Keywords THEN Keywords[word] ELSE "IDENTIFIER"

InWord == InRun("word", WordChars, WordType)
InNumber == InRun("number", Digits, "INTEGER")
InHex == InRun("hex", HexDigits, "INTEGER")

LexNext ==
    \/ SkipWhitespace \/ EndOfText \/ Mark \/ Comment \/ MinusOrMultiply \/ Angle \/ Illegal
    \/ ReadString \/ ReadWord \/ ReadNumber \/ ReadHex
    \/ InComment \/ InString \/ InWord \/ InNumber \/ InHex

LexSpec == LexInit /\ [][LexNext]_lexVars

----------------------------------------------------------------------------
Newlines(i) == {k \in 1..(i - 1) : text[k] = Newline}

\* Line l and column c are the place of character i: one line for every end
\* of line before it, one column for every character since the last of them.
Place(i, l, c) ==
    /\ l = 1 + Cardinality(Newlines(i))
    /\ c \in 1..i
    /\ c = i \/ text[i - c] = Newline
    /\ \A k \in (i - c + 1)..(i - 1) : text[k] # Newline

Placed(ts) == \A n \in DOMAIN ts : Place(ts[n].first, ts[n].line, ts[n].col)

\* Every token names the place in the text it was read from, whatever strings,
\* comments and ends of lines come before: the places of all error messages of
\* the parser and the type checker are taken from here.  The lexer counts
\* them character by character, in eight loops.
PositionsExact == Placed(tokens)

\* A word, a number or the like from i to j, that does not go on behind it.
Run(i, j, chars) == (\A k \in i..j : text[k] \in chars) /\ ~At(j + 1, chars)

\* A string from i up to j - 1 that has not ended yet.
OpenString(i, j) ==
    At(i, Quotes) /\ \A k \in (i + 1)..(j - 1) : text[k] \notin {text[i], Newline}

Hexadecimal(i) == At(i, {"0"}) /\ At(i + 1, {"x", "X"})

\* The token is a lexeme of its type, and as long as it can be.
Lexeme(t) ==
    LET i == t.first
        j == t.last
    IN  \/ t.type \in Marks /\ i = j /\ text[i] = t.type
        \/ t.type \in {"-", "*"} /\ i = j /\ text[i] = t.type /\ ~At(i + 1, {">"})
        \/ t.type = ">" /\ text[i] = ">" /\ j = IF At(i + 1, {"="}) THEN i + 1 ELSE i
        \/ t.type = "<" /\ text[i] = "<" /\ j = IF At(i + 1, {"=", ">"}) THEN i + 1 ELSE i
        \/ t.type = "STRING" /\ j > i /\ OpenString(i, j) /\ text[j] = text[i]
        \/ t.type = "ILLEGAL" /\ OpenString(i, j) /\ (At(j, {Newline}) \/ j = Len(text))
        \/ t.type = "ILLEGAL" /\ i = j
              /\ text[i] \notin Blanks \cup Special \cup Digits \cup Letters
        \/ t.type = "INTEGER" /\ At(i, Digits) /\ Run(i, j, Digits) /\ ~Hexadecimal(i)
        \/ t.type = "INTEGER" /\ Hexadecimal(i) /\ Run(i + 2, j, HexDigits)
        \/ t.type \notin {"STRING", "INTEGER", "ILLEGAL"}
              /\ At(i, Letters) /\ Run(i, j, WordChars)

\* Character k, in a gap between tokens that begins at i, is a blank or part
\* of a comment, which lasts until the end of its line.
Skipped(i, k) ==
    \/ text[k] \in Blanks
    \/ \E c \in i..k : /\ At(c, {"-", "*"}) /\ At(c + 1, {">"})
                       /\ \A j \in c..(k - 1) : text[j] # Newline

\* When the text is read, it is cut into lexemes with nothing but blanks and
\* comments between them: no character is lost or read twice, and a comment
\* does not begin or end in the wrong place.
TokensExact ==
    mode = "done" =>
        /\ \A n \in DOMAIN tokens :
              LET i == IF n = 1 THEN 1 ELSE tokens[n - 1].last + 1
              IN  /\ i <= tokens[n].first
                  /\ \A k \in i..(tokens[n].first - 1) : Skipped(i, k)
                  /\ n < Len(tokens) => Lexeme(tokens[n])
        /\ tokens[Len(tokens)].type = "EOF"
        /\ tokens[Len(tokens)].first = Len(text) + 1
=============================================================================
