--------------------------- MODULE CompilerProofs ---------------------------
(***************************************************************************)
(* The compiler, for every text and every program: the lexer cuts the text *)
(* and places its tokens where they stand, the items of a DATA DIVISION    *)
(* are arranged in groups by their levels, the parser stays in front of    *)
(* EOF and reads a condition as what its tokens mean, what the checker     *)
(* accepts codegen can resolve, and main.go links the runtime to what      *)
(* calls it.                                                               *)
(*                                                                         *)
(* Expressions and statements are trees of any height: the recursive       *)
(* definitions of the model are shown to have solutions first, by the      *)
(* lemmas about trees of NaturalLemmas.                                    *)
(***************************************************************************)
EXTENDS Compiler, NaturalLemmas, FiniteSetTheorems, TLAPS

----------------------------------------------------------------------------
(* The lexer: the places of tokens and how the text is cut, for every text.  *)

TokenTypes ==
    Chars \cup {Keywords[w] : w \in DOMAIN Keywords}
    \cup {"EOF", "ILLEGAL", "STRING", "INTEGER", "IDENTIFIER"}
Spot == [first : Nat, line : Nat, col : Nat]
Token == [type : TokenTypes, first : Nat, last : Nat, line : Nat, col : Nat]

\* What is counted for a character of the text is its place.
Counted(p, l, c) == p \in Nat \ {0} /\ l \in Nat /\ c \in Nat /\ Place(p, l, c)

\* What the lexer counts is the place of the next character, and of the first
\* of the token it reads.
PosInv == Counted(pos, line, col)
StartInv == start \in Spot /\ Place(start.first, start.line, start.col)
TokensInv == tokens \in Seq(Token) /\ Placed(tokens)

LexInv == text \in Seq(Chars) /\ PosInv /\ StartInv /\ TokensInv

----------------------------------------------------------------------------
LEMMA NewlinesFinite ==
    ASSUME NEW i \in Nat
    PROVE  IsFiniteSet(Newlines(i)) /\ Cardinality(Newlines(i)) \in Nat
<1>1. IsFiniteSet(1..(i - 1))
  BY FS_Interval
<1>2. Newlines(i) \subseteq 1..(i - 1)
  BY DEF Newlines
<1>3. IsFiniteSet(Newlines(i))
  BY <1>1, <1>2, FS_Subset
<1> QED
  BY <1>3, FS_CardinalityType

\* The first character has the first place.
LEMMA FirstPlace == Place(1, 1, 1)
<1>1. Newlines(1) = {}
  BY DEF Newlines
<1>2. Cardinality(Newlines(1)) = 0
  BY <1>1, FS_EmptySet
<1> QED
  BY <1>2 DEF Place

\* The place of the character behind an end of line.
LEMMA PlaceBehindNewline ==
    ASSUME NEW i \in Nat \ {0}, NEW l \in Nat, NEW c \in Nat,
           Place(i, l, c), text[i] = Newline
    PROVE  Place(i + 1, l + 1, 1)
<1>1. Newlines(i + 1) = Newlines(i) \cup {i}
  BY DEF Newlines
<1>2. i \notin Newlines(i)
  BY DEF Newlines
<1>3. Cardinality(Newlines(i + 1)) = Cardinality(Newlines(i)) + 1
  BY <1>1, <1>2, NewlinesFinite, FS_AddElement
<1>4. l + 1 = 1 + Cardinality(Newlines(i + 1))
  BY <1>3, NewlinesFinite DEF Place
<1> QED
  BY <1>4 DEF Place

\* The place of the character behind any other.
LEMMA PlaceBehindOther ==
    ASSUME NEW i \in Nat \ {0}, NEW l \in Nat, NEW c \in Nat,
           Place(i, l, c), text[i] # Newline
    PROVE  Place(i + 1, l, c + 1)
<1>1. Newlines(i + 1) = Newlines(i)
  BY DEF Newlines
<1>2. l = 1 + Cardinality(Newlines(i + 1))
  BY <1>1 DEF Place
<1>3. c + 1 \in 1..(i + 1) /\ (c + 1 = i + 1 \/ text[i + 1 - (c + 1)] = Newline)
  BY DEF Place
<1>4. \A k \in (i + 1 - (c + 1) + 1)..(i + 1 - 1) : text[k] # Newline
  BY DEF Place
<1> QED
  BY <1>2, <1>3, <1>4 DEF Place

\* Tokens at exact places stay so when one more is emitted.
LEMMA AppendPlaced ==
    ASSUME NEW ts \in Seq(Token), NEW t \in Token,
           Placed(ts), Place(t.first, t.line, t.col)
    PROVE  Append(ts, t) \in Seq(Token) /\ Placed(Append(ts, t))
<1>1. ASSUME NEW n \in DOMAIN Append(ts, t)
      PROVE  Place(Append(ts, t)[n].first, Append(ts, t)[n].line, Append(ts, t)[n].col)
  <2>1. CASE n = Len(ts) + 1
    BY <2>1
  <2>2. CASE n # Len(ts) + 1
    <3>1. n \in DOMAIN ts /\ Append(ts, t)[n] = ts[n]
      BY <2>2
    <3> QED
      BY <3>1 DEF Placed
  <2> QED
    BY <2>1, <2>2
<1> QED
  BY <1>1 DEF Placed

----------------------------------------------------------------------------
(* One step of the lexer.  The text does not change, so a place that is      *)
(* exact for it is exact afterwards.                                         *)

LEMMA ReadCounted ==
    ASSUME Counted(pos, line, col), Read
    PROVE  Counted(pos', line', col')
<1>1. CASE text[pos] = Newline
  <2>1. Counted(pos + 1, line + 1, 1)
    BY <1>1, PlaceBehindNewline DEF Counted
  <2> QED
    BY <1>1, <2>1 DEF Read
<1>2. CASE text[pos] # Newline
  <2>1. Counted(pos + 1, line, col + 1)
    BY <1>2, PlaceBehindOther DEF Counted
  <2> QED
    BY <1>2, <2>1 DEF Read
<1> QED
  BY <1>1, <1>2

LEMMA ReadTwoCounted ==
    ASSUME Counted(pos, line, col), ReadTwo,
           text[pos] # Newline, text[pos + 1] # Newline
    PROVE  Counted(pos', line', col')
<1>1. Counted(pos + 1, line, col + 1)
  BY PlaceBehindOther DEF Counted
<1>2. Counted(pos + 1 + 1, line, col + 1 + 1)
  BY <1>1, PlaceBehindOther DEF Counted
<1>3. pos \in Nat /\ col \in Nat
  BY DEF Counted
<1>4. pos + 1 + 1 = pos + 2 /\ col + 1 + 1 = col + 2
  BY <1>3
<1>5. Counted(pos + 2, line, col + 2)
  BY <1>2, <1>4
<1> QED
  BY <1>5 DEF ReadTwo

LEMMA StayCounted ==
    ASSUME Counted(pos, line, col), Stay
    PROVE  Counted(pos', line', col')
  BY DEF Stay

\* A token is emitted with the place it was given.
LEMMA EmitPlaced ==
    ASSUME NEW ts \in Seq(Token), Placed(ts), NEW type \in TokenTypes,
           NEW from \in Spot, Place(from.first, from.line, from.col), NEW p \in Nat \ {0}
    PROVE  LET t == [type |-> type, first |-> from.first, last |-> p - 1,
                     line |-> from.line, col |-> from.col]
           IN  Append(ts, t) \in Seq(Token) /\ Placed(Append(ts, t))
<1> DEFINE t == [type |-> type, first |-> from.first, last |-> p - 1,
                 line |-> from.line, col |-> from.col]
<1>1. t \in Token
  BY DEF Token, Spot
<1>2. Place(t.first, t.line, t.col)
  OBVIOUS
<1> HIDE DEF t
<1>3. Append(ts, t) \in Seq(Token) /\ Placed(Append(ts, t))
  BY <1>1, <1>2, AppendPlaced
<1> QED
  BY <1>3 DEF t

\* Places in the text stay what they are.
LEMMA SameText ==
    ASSUME LexInv, text' = text, Counted(pos', line', col'),
           start' \in Spot, Place(start'.first, start'.line, start'.col),
           tokens' \in Seq(Token), Placed(tokens')
    PROVE  LexInv'
<1>1. PosInv'
  BY DEF PosInv, Counted, Place, Newlines
<1>2. StartInv'
  BY DEF StartInv, Place, Newlines
<1>3. TokensInv'
  BY DEF TokensInv, Placed, Place, Newlines
<1> QED
  BY <1>1, <1>2, <1>3 DEF LexInv

\* A step that emits nothing.
LEMMA SilentStep ==
    ASSUME LexInv, text' = text, Counted(pos', line', col'), tokens' = tokens,
           start' = start \/ start' = Here
    PROVE  LexInv'
<1>1. start' \in Spot /\ Place(start'.first, start'.line, start'.col)
  <2>1. CASE start' = start
    BY <2>1 DEF LexInv, StartInv
  <2>2. CASE start' = Here
    BY <2>2 DEF LexInv, PosInv, Counted, Here, Spot
  <2> QED
    BY <2>1, <2>2
<1>2. tokens' \in Seq(Token) /\ Placed(tokens')
  BY DEF LexInv, TokensInv
<1> QED
  BY <1>1, <1>2, SameText

\* A step that emits a token.
LEMMA EmitStep ==
    ASSUME LexInv, text' = text, Counted(pos', line', col'), start' = start,
           NEW type \in TokenTypes, NEW from \in Spot, Place(from.first, from.line, from.col),
           tokens' = Append(tokens, [type |-> type, first |-> from.first, last |-> pos' - 1,
                                     line |-> from.line, col |-> from.col])
    PROVE  LexInv'
<1>1. start' \in Spot /\ Place(start'.first, start'.line, start'.col)
  BY DEF LexInv, StartInv
<1>2. pos' \in Nat \ {0}
  BY DEF Counted
<1>3. tokens' \in Seq(Token) /\ Placed(tokens')
  BY <1>2, EmitPlaced DEF LexInv, TokensInv
<1> QED
  BY <1>1, <1>3, SameText

\* The character a token may begin at.
LEMMA HereIsPlace ==
    ASSUME LexInv
    PROVE  /\ Here \in Spot /\ Place(Here.first, Here.line, Here.col)
           /\ \A chars : At(pos, chars) => text[pos] \in Chars /\ text[pos] \in chars
           /\ Counted(pos, line, col)
  BY DEF LexInv, PosInv, Counted, Here, Spot, At

LEMMA LexStep ==
    LexInv /\ LexNext => LexInv'
<1> SUFFICES ASSUME LexInv, LexNext PROVE LexInv'
  OBVIOUS
<1> USE HereIsPlace
<1>1. CASE SkipWhitespace
  BY <1>1, ReadCounted, SilentStep DEF SkipWhitespace
<1>2. CASE EndOfText
  <2>1. Counted(pos', line', col') /\ pos' = pos
    BY <1>2, StayCounted DEF EndOfText, Stay
  <2>2. tokens' = Append(tokens, [type |-> "EOF", first |-> Here.first, last |-> pos' - 1,
                                  line |-> Here.line, col |-> Here.col])
    BY <1>2, <2>1 DEF EndOfText, Here
  <2>3. "EOF" \in TokenTypes /\ text' = text /\ start' = start
    BY <1>2 DEF EndOfText, TokenTypes
  <2> QED
    BY <2>1, <2>2, <2>3, EmitStep
<1>3. CASE Mark
  <2>1. Counted(pos', line', col') /\ text' = text /\ start' = start /\ text[pos] \in TokenTypes
    BY <1>3, ReadCounted DEF Mark, TokenTypes
  <2> QED
    BY <1>3, <2>1, EmitStep DEF Mark, Emit
<1>4. CASE Comment
  <2>1. text[pos] # Newline /\ text[pos + 1] # Newline
    BY <1>4, CharacterAssumption DEF Comment, At, Special
  <2> QED
    BY <1>4, <2>1, ReadTwoCounted, SilentStep DEF Comment
<1>5. CASE MinusOrMultiply
  <2>1. Counted(pos', line', col') /\ text' = text /\ start' = start /\ text[pos] \in TokenTypes
    BY <1>5, ReadCounted DEF MinusOrMultiply, TokenTypes
  <2> QED
    BY <1>5, <2>1, EmitStep DEF MinusOrMultiply, Emit
<1>6. CASE Angle
  <2>1. Counted(pos', line', col')
    <3>1. CASE At(pos + 1, IF text[pos] = ">" THEN {"="} ELSE {"=", ">"})
      <4>1. text[pos] # Newline /\ text[pos + 1] # Newline
        BY <1>6, <3>1, CharacterAssumption DEF Angle, At, Special
      <4> QED
        BY <1>6, <3>1, <4>1, ReadTwoCounted DEF Angle
    <3>2. CASE ~At(pos + 1, IF text[pos] = ">" THEN {"="} ELSE {"=", ">"})
      BY <1>6, <3>2, ReadCounted DEF Angle
    <3> QED
      BY <3>1, <3>2
  <2>2. text' = text /\ start' = start /\ text[pos] \in TokenTypes
    BY <1>6 DEF Angle, TokenTypes
  <2> QED
    BY <1>6, <2>1, <2>2, EmitStep DEF Angle, Emit
<1>7. CASE Illegal
  <2>1. Counted(pos', line', col') /\ text' = text /\ start' = start /\ "ILLEGAL" \in TokenTypes
    BY <1>7, ReadCounted DEF Illegal, TokenTypes
  <2> QED
    BY <1>7, <2>1, EmitStep DEF Illegal, Emit
<1>8. CASE ReadString
  BY <1>8, ReadCounted, SilentStep DEF ReadString, Begin
<1>9. CASE ReadWord
  BY <1>9, ReadCounted, SilentStep DEF ReadWord, Begin
<1>10. CASE ReadNumber
  BY <1>10, ReadCounted, SilentStep DEF ReadNumber, Begin
<1>11. CASE ReadHex
  <2>1. text[pos] # Newline /\ text[pos + 1] # Newline
    BY <1>11, CharacterAssumption DEF ReadHex, Begin, At
  <2> QED
    BY <1>11, <2>1, ReadTwoCounted, SilentStep DEF ReadHex, Begin
<1>12. CASE InComment
  <2>1. Counted(pos', line', col')
    BY <1>12, ReadCounted, StayCounted DEF InComment
  <2> QED
    BY <1>12, <2>1, SilentStep DEF InComment
<1>13. ASSUME NEW type \in TokenTypes, text' = text, start' = start,
              Counted(pos', line', col'), Emit(type, start)
       PROVE  LexInv'
  BY <1>13, EmitStep DEF Emit, LexInv, StartInv
<1>14. CASE InString
  <2>1. Counted(pos', line', col')
    BY <1>14, ReadCounted, StayCounted DEF InString
  <2>2. text' = text /\ start' = start /\ {"STRING", "ILLEGAL"} \subseteq TokenTypes
    BY <1>14 DEF InString, TokenTypes
  <2>3. Emit("STRING", start) \/ Emit("ILLEGAL", start) \/ tokens' = tokens
    BY <1>14 DEF InString
  <2> QED
    BY <2>1, <2>2, <2>3, <1>13, SilentStep
<1>15. ASSUME NEW function, NEW chars, NEW type \in TokenTypes, InRun(function, chars, type)
       PROVE  LexInv'
  <2>1. Counted(pos', line', col')
    BY <1>15, ReadCounted, StayCounted DEF InRun
  <2>2. text' = text /\ start' = start
    BY <1>15 DEF InRun
  <2>3. Emit(type, start) \/ tokens' = tokens
    BY <1>15 DEF InRun
  <2> QED
    BY <2>1, <2>2, <2>3, <1>13, SilentStep
<1>16. WordType \in TokenTypes /\ "INTEGER" \in TokenTypes
  BY DEF WordType, TokenTypes
<1>17. CASE InWord
  BY <1>15, <1>16, <1>17 DEF InWord
<1>18. CASE InNumber \/ InHex
  BY <1>15, <1>16, <1>18 DEF InNumber, InHex
<1> QED
  BY <1>1, <1>2, <1>3, <1>4, <1>5, <1>6, <1>7, <1>8, <1>9, <1>10, <1>11, <1>12, <1>14,
     <1>17, <1>18 DEF LexNext

LEMMA LexInitInv == LexInit => LexInv
<1>1. SUFFICES ASSUME LexInit PROVE LexInv
  OBVIOUS
<1>2. text \in Seq(Chars) /\ PosInv
  BY <1>1, FirstPlace, TextAssumption DEF LexInit, PosInv, Counted
<1>3. StartInv
  BY <1>1, FirstPlace DEF LexInit, StartInv, Beginning, Spot
<1>4. TokensInv
  BY <1>1 DEF LexInit, TokensInv, Placed
<1> QED
  BY <1>2, <1>3, <1>4 DEF LexInv

LEMMA LexInvStutter == LexInv /\ UNCHANGED lexVars => LexInv'
<1>1. SUFFICES ASSUME LexInv, UNCHANGED lexVars PROVE LexInv'
  OBVIOUS
<1>2. Counted(pos', line', col')
  BY <1>1 DEF LexInv, PosInv, lexVars
<1> QED
  BY <1>1, <1>2, SilentStep DEF lexVars

\* The places of all tokens are exact, for every text.
THEOREM PositionsExactHolds == LexSpec => []PositionsExact
<1>1. LexInv => PositionsExact
  BY DEF LexInv, TokensInv, PositionsExact
<1> QED
  BY <1>1, LexInitInv, LexInvStutter, LexStep, PTL DEF LexSpec

----------------------------------------------------------------------------
(* The text is cut into lexemes.  What the loops have read so far is kept     *)
(* with the token under way; between tokens it is blanks and comments.       *)

\* Where the gap begins that token n follows.
GapBefore(ts, n) == IF n = 1 THEN 1 ELSE ts[n - 1].last + 1

\* Only blanks and comments from the last token up to character p.
Gap(ts, p) ==
    LET i == GapBefore(ts, Len(ts) + 1)
    IN  i <= p /\ \A k \in i..(p - 1) : Skipped(i, k)

\* What lies before a token is skipped, and the token is a lexeme.
CutAt(ts, n) ==
    LET i == GapBefore(ts, n)
    IN  /\ i <= ts[n].first /\ (\A k \in i..(ts[n].first - 1) : Skipped(i, k))
        /\ Lexeme(ts[n])

Cut(ts) == \A n \in DOMAIN ts : CutAt(ts, n)

\* A comment that has not ended at character p.
OpenComment(ts, p) ==
    \E c \in GapBefore(ts, Len(ts) + 1)..(p - 1) :
        /\ At(c, {"-", "*"}) /\ At(c + 1, {">"})
        /\ \A j \in c..(p - 1) : text[j] # Newline

\* A run from character i that goes on up to character p.
OpenRun(i, p, chars) == i <= p /\ \A k \in i..(p - 1) : text[k] \in chars

\* What has been read of a token that began at i.
Reading(m, i, p) ==
    \/ m = "string" /\ OpenString(i, p)
    \/ m = "word" /\ At(i, Letters) /\ OpenRun(i, p, WordChars)
    \/ m = "number" /\ At(i, Digits) /\ ~Hexadecimal(i) /\ OpenRun(i, p, Digits)
    \/ m = "hex" /\ Hexadecimal(i) /\ OpenRun(i + 2, p, HexDigits)

\* All of the text has been read.
CutUp(ts) ==
    /\ ts # <<>> /\ ts[Len(ts)].type = "EOF" /\ ts[Len(ts)].first = Len(text) + 1
    /\ \A n \in DOMAIN ts :
          LET i == GapBefore(ts, n)
          IN  /\ i <= ts[n].first /\ \A k \in i..(ts[n].first - 1) : Skipped(i, k)
              /\ n < Len(ts) => Lexeme(ts[n])

\* Where the lexer is in the text, with tokens ts, at character p, in a token
\* that began at i.
Cutting(ts, p, m, i) ==
    \/ m = "done" /\ CutUp(ts)
    \/ /\ Cut(ts) /\ p <= Len(text) + 1
       /\ \/ m = "next" /\ Gap(ts, p)
          \/ m = "comment" /\ Gap(ts, p) /\ OpenComment(ts, p)
          \/ Reading(m, i, p) /\ i < p /\ Gap(ts, i)

CutInv == Cutting(tokens, pos, mode, start.first)

\* The gap behind a token is a place in the text.
LEMMA GapBeforeType ==
    ASSUME NEW ts \in Seq(Token), NEW n \in 1..(Len(ts) + 1)
    PROVE  GapBefore(ts, n) \in Nat
<1>1. CASE n = 1
  BY <1>1 DEF GapBefore
<1>2. CASE n # 1
  <2>1. n - 1 \in DOMAIN ts /\ ts[n - 1] \in Token
    BY <1>2
  <2> QED
    BY <1>2, <2>1 DEF GapBefore, Token
<1> QED
  BY <1>1, <1>2

\* A gap goes on with a blank or another character of a comment.
LEMMA GapGrows ==
    ASSUME NEW ts \in Seq(Token), NEW p \in Nat,
           Gap(ts, p), Skipped(GapBefore(ts, Len(ts) + 1), p)
    PROVE  Gap(ts, p + 1)
<1> DEFINE i == GapBefore(ts, Len(ts) + 1)
<1>1. i \in Nat
  BY GapBeforeType
<1>2. i <= p /\ \A k \in i..(p - 1) : Skipped(i, k)
  BY DEF Gap
<1>3. Skipped(i, p)
  OBVIOUS
<1> HIDE DEF i
<1>4. \A k \in i..p : k = p \/ k \in i..(p - 1)
  BY <1>1
<1>5. i <= p + 1 /\ \A k \in i..(p + 1 - 1) : Skipped(i, k)
  BY <1>1, <1>2, <1>3, <1>4
<1> QED
  BY <1>5 DEF Gap, i

\* The places before tokens do not change when one more is emitted.
LEMMA AppendGaps ==
    ASSUME NEW ts \in Seq(Token), NEW t \in Token
    PROVE  /\ Append(ts, t) \in Seq(Token) /\ Len(Append(ts, t)) = Len(ts) + 1
           /\ \A n \in 1..Len(ts) : Append(ts, t)[n] = ts[n]
           /\ Append(ts, t)[Len(ts) + 1] = t
           /\ \A n \in 1..(Len(ts) + 1) : GapBefore(Append(ts, t), n) = GapBefore(ts, n)
           /\ GapBefore(Append(ts, t), Len(ts) + 2) = t.last + 1
<1>1. /\ Append(ts, t) \in Seq(Token) /\ Len(Append(ts, t)) = Len(ts) + 1
      /\ \A n \in 1..Len(ts) : Append(ts, t)[n] = ts[n]
      /\ Append(ts, t)[Len(ts) + 1] = t
  OBVIOUS
<1>2. \A n \in 1..(Len(ts) + 1) : n # 1 => n - 1 \in 1..Len(ts)
  OBVIOUS
<1>3. Len(ts) + 2 # 1 /\ Len(ts) + 2 - 1 = Len(ts) + 1
  OBVIOUS
<1> QED
  BY <1>1, <1>2, <1>3 DEF GapBefore

\* A lexeme behind a gap keeps the text cut.
LEMMA AppendCut ==
    ASSUME NEW ts \in Seq(Token), NEW t \in Token,
           Cut(ts), Gap(ts, t.first), Lexeme(t)
    PROVE  Cut(Append(ts, t)) /\ Gap(Append(ts, t), t.last + 1)
<1> DEFINE all == Append(ts, t)
<1>1. /\ all \in Seq(Token) /\ Len(all) = Len(ts) + 1
      /\ \A n \in 1..Len(ts) : all[n] = ts[n]
      /\ all[Len(ts) + 1] = t
      /\ \A n \in 1..(Len(ts) + 1) : GapBefore(all, n) = GapBefore(ts, n)
      /\ GapBefore(all, Len(ts) + 2) = t.last + 1
  BY AppendGaps
<1> HIDE DEF all
<1>2. ASSUME NEW n \in 1..Len(ts)
      PROVE  CutAt(all, n)
  <2>1. CutAt(ts, n)
    BY DEF Cut
  <2>2. all[n] = ts[n] /\ GapBefore(all, n) = GapBefore(ts, n)
    BY <1>1
  <2> QED
    BY <2>1, <2>2 DEF CutAt
<1>3. CutAt(all, Len(ts) + 1)
  BY <1>1 DEF CutAt, Gap
<1>4. Cut(all)
  BY <1>1, <1>2, <1>3 DEF Cut
<1>5. Len(all) + 1 = Len(ts) + 2 /\ t.last \in Nat
  BY <1>1 DEF Token
<1>6. Gap(all, t.last + 1)
  BY <1>1, <1>5 DEF Gap
<1> QED
  BY <1>4, <1>6 DEF all

----------------------------------------------------------------------------
(* The steps, while the text does not change.                               *)

\* Between tokens.
LEMMA BetweenTokens ==
    ASSUME LexInv, CutInv, mode = "next"
    PROVE  /\ Cut(tokens) /\ Gap(tokens, pos) /\ pos <= Len(text) + 1
           /\ pos \in Nat \ {0} /\ tokens \in Seq(Token) /\ text \in Seq(Chars)
           /\ Len(text) \in Nat
  BY DEF LexInv, PosInv, Counted, TokensInv, CutInv, Cutting, Reading

\* In a token.
LEMMA InToken ==
    ASSUME LexInv, CutInv, mode \in {"string", "word", "number", "hex"}
    PROVE  /\ Cut(tokens) /\ Gap(tokens, start.first) /\ pos <= Len(text) + 1
           /\ Reading(mode, start.first, pos) /\ start.first < pos
           /\ pos \in Nat \ {0} /\ tokens \in Seq(Token) /\ text \in Seq(Chars)
           /\ Len(text) \in Nat /\ start \in Spot /\ start.first \in Nat
  BY DEF LexInv, PosInv, Counted, TokensInv, StartInv, CutInv, Cutting, Spot

LEMMA CharacterBefore == \A n \in Nat \ {0} : n - 1 \in Nat /\ n - 1 + 1 = n
  OBVIOUS

\* A token is emitted, and it is a lexeme.
LEMMA EmitCut ==
    ASSUME tokens \in Seq(Token), NEW type \in TokenTypes, NEW from \in Spot, Emit(type, from),
           Cut(tokens), Gap(tokens, from.first),
           pos' \in Nat \ {0}, pos' <= Len(text) + 1,
           Lexeme([type |-> type, first |-> from.first, last |-> pos' - 1,
                   line |-> from.line, col |-> from.col]),
           NEW i
    PROVE  Cutting(tokens', pos', mode', i)
<1> DEFINE t == [type |-> type, first |-> from.first, last |-> pos' - 1,
                 line |-> from.line, col |-> from.col]
<1>1. t \in Token /\ t.first = from.first /\ t.last + 1 = pos'
  <2>1. pos' - 1 \in Nat /\ pos' - 1 + 1 = pos'
    BY CharacterBefore
  <2>2. from.first \in Nat /\ from.line \in Nat /\ from.col \in Nat
    BY DEF Spot
  <2> QED
    BY <2>1, <2>2 DEF Token
<1>2. tokens' = Append(tokens, t) /\ mode' = "next"
  BY DEF Emit
<1>3. Lexeme(t)
  OBVIOUS
<1> HIDE DEF t
<1>4. Cut(tokens') /\ Gap(tokens', pos')
  BY <1>1, <1>2, <1>3, AppendCut
<1> QED
  BY <1>2, <1>4 DEF Cutting

\* Blanks, and the ends of comments.
LEMMA SkipCut ==
    ASSUME LexInv, CutInv, SkipWhitespace
    PROVE  Cutting(tokens', pos', mode', start'.first)
<1>1. /\ Cut(tokens) /\ Gap(tokens, pos) /\ pos < Len(text) + 1
      /\ pos \in Nat \ {0} /\ tokens \in Seq(Token) /\ Len(text) \in Nat
      /\ text[pos] \in Blanks
  BY BetweenTokens DEF SkipWhitespace, At
<1>2. pos' = pos + 1 /\ tokens' = tokens /\ mode' = "next"
  BY DEF SkipWhitespace, Read
<1>3. Gap(tokens, pos + 1)
  BY <1>1, GapGrows DEF Skipped
<1> QED
  BY <1>1, <1>2, <1>3 DEF Cutting

\* A comment begins.
LEMMA CommentCut ==
    ASSUME LexInv, CutInv, Comment
    PROVE  Cutting(tokens', pos', mode', start'.first)
<1> DEFINE i == GapBefore(tokens, Len(tokens) + 1)
<1>1. /\ Cut(tokens) /\ Gap(tokens, pos) /\ pos + 1 <= Len(text)
      /\ pos \in Nat \ {0} /\ tokens \in Seq(Token) /\ Len(text) \in Nat
      /\ At(pos, {"-", "*"}) /\ At(pos + 1, {">"}) /\ text[pos] # Newline /\ text[pos + 1] # Newline
  BY BetweenTokens, CharacterAssumption DEF Comment, At, Special
<1>2. pos' = pos + 2 /\ tokens' = tokens /\ mode' = "comment"
  BY DEF Comment, ReadTwo
<1>3. i \in Nat /\ i <= pos
  BY <1>1, GapBeforeType DEF Gap
<1> HIDE DEF i
<1>4. Skipped(i, pos)
  BY <1>1, <1>3 DEF Skipped
<1>5. Skipped(i, pos + 1)
  <2>1. pos \in i..(pos + 1) /\ \A j \in pos..(pos + 1 - 1) : text[j] # Newline
    BY <1>1, <1>3
  <2> QED
    BY <1>1, <2>1 DEF Skipped
<1>6. Gap(tokens, pos + 1)
  BY <1>1, <1>4, GapGrows DEF i
<1>7. Gap(tokens, pos + 1 + 1)
  <2>1. pos + 1 \in Nat
    BY <1>1
  <2> QED
    BY <1>1, <1>5, <1>6, <2>1, GapGrows DEF i
<1>8. pos + 1 + 1 = pos + 2
  BY <1>1
<1>9. OpenComment(tokens, pos + 2)
  <2>1. pos \in i..(pos + 2 - 1) /\ \A j \in pos..(pos + 2 - 1) : text[j] # Newline
    BY <1>1, <1>3
  <2> QED
    BY <1>1, <2>1 DEF OpenComment, i
<1> QED
  BY <1>1, <1>2, <1>7, <1>8, <1>9 DEF Cutting

\* A comment goes on, or ends with its line or the text.
LEMMA InCommentCut ==
    ASSUME LexInv, CutInv, InComment
    PROVE  Cutting(tokens', pos', mode', start'.first)
<1> DEFINE i == GapBefore(tokens, Len(tokens) + 1)
<1>1. /\ Cut(tokens) /\ Gap(tokens, pos) /\ pos <= Len(text) + 1 /\ OpenComment(tokens, pos)
      /\ pos \in Nat \ {0} /\ tokens \in Seq(Token) /\ Len(text) \in Nat
  BY DEF LexInv, PosInv, Counted, TokensInv, CutInv, Cutting, Reading, InComment
<1>2. PICK c \in i..(pos - 1) : /\ At(c, {"-", "*"}) /\ At(c + 1, {">"})
                                /\ \A j \in c..(pos - 1) : text[j] # Newline
  BY <1>1 DEF OpenComment
<1>3. i \in Nat /\ c \in Nat /\ i <= c /\ c <= pos - 1
  BY <1>1, GapBeforeType
<1> HIDE DEF i
<1>4. CASE pos > Len(text)
  BY <1>1, <1>4 DEF InComment, Stay, At, Cutting
<1>5. CASE pos <= Len(text)
  <2>1. pos' = pos + 1 /\ tokens' = tokens
        /\ mode' = IF text[pos] = Newline THEN "next" ELSE "comment"
    BY <1>1, <1>5 DEF InComment, Read, At
  <2>2. Skipped(i, pos)
    <3>1. c \in i..pos
      BY <1>1, <1>3
    <3> QED
      BY <1>2, <3>1 DEF Skipped
  <2>3. Gap(tokens, pos + 1)
    BY <1>1, <2>2, GapGrows DEF i
  <2>4. text[pos] # Newline => OpenComment(tokens, pos + 1)
    <3>1. SUFFICES ASSUME text[pos] # Newline PROVE OpenComment(tokens, pos + 1)
      OBVIOUS
    <3>2. c \in i..((pos + 1) - 1) /\ \A j \in c..((pos + 1) - 1) : j = pos \/ j \in c..(pos - 1)
      BY <1>1, <1>3
    <3>3. \A j \in c..((pos + 1) - 1) : text[j] # Newline
      BY <1>2, <3>1, <3>2
    <3> QED
      BY <1>2, <3>2, <3>3, Zenon DEF OpenComment, i
  <2> QED
    BY <1>1, <1>5, <2>1, <2>3, <2>4 DEF Cutting
<1> QED
  BY <1>1, <1>4, <1>5

\* The tokens of one or two characters.
LEMMA ShortTokenCut ==
    ASSUME LexInv, CutInv, Mark \/ MinusOrMultiply \/ Angle \/ Illegal
    PROVE  Cutting(tokens', pos', mode', start'.first)
<1>1. /\ Cut(tokens) /\ Gap(tokens, pos) /\ pos <= Len(text)
      /\ pos \in Nat \ {0} /\ tokens \in Seq(Token) /\ Len(text) \in Nat
      /\ Here \in Spot /\ Here.first = pos /\ text[pos] \in TokenTypes
  BY BetweenTokens, HereIsPlace
  DEF Mark, MinusOrMultiply, Angle, Illegal, At, Here, TokenTypes
<1>2. "ILLEGAL" \in TokenTypes
  BY DEF TokenTypes
<1>3. CASE Mark \/ MinusOrMultiply \/ Illegal
  <2>1. pos' = pos + 1
    BY <1>3 DEF Mark, MinusOrMultiply, Illegal, Read
  <2> DEFINE type == IF Illegal THEN "ILLEGAL" ELSE text[pos]
             t == [type |-> type, first |-> Here.first, last |-> pos' - 1,
                   line |-> Here.line, col |-> Here.col]
  <2>2. t.type = type /\ t.first = pos /\ t.last = pos
    BY <1>1, <2>1
  <2> HIDE DEF t
  <2>3. Lexeme(t)
    <3>1. CASE Mark
      <4>1. text[pos] \in Marks /\ ~Illegal
        BY <3>1 DEF Mark, Illegal, At
      <4> QED
        BY <2>2, <4>1 DEF Lexeme
    <3>2. CASE MinusOrMultiply
      <4>1. text[pos] \in {"-", "*"} /\ ~At(pos + 1, {">"}) /\ ~Illegal
        BY <3>2 DEF MinusOrMultiply, Illegal, At
      <4> QED
        BY <2>2, <4>1 DEF Lexeme
    <3>3. CASE Illegal
      <4>1. text[pos] \notin Blanks \cup Special \cup Digits \cup Letters
        BY <1>1, <3>3 DEF Illegal, At, Blanks, Marks, Special
      <4> QED
        BY <2>2, <3>3, <4>1 DEF Lexeme
    <3> QED
      BY <1>3, <3>1, <3>2, <3>3
  <2>4. Emit(type, Here) /\ type \in TokenTypes
    BY <1>1, <1>2, <1>3 DEF Mark, MinusOrMultiply, Illegal, At
  <2>5. pos' \in Nat \ {0} /\ pos' <= Len(text) + 1
    BY <1>1, <2>1
  <2> HIDE DEF type
  <2> QED
    BY <1>1, <2>3, <2>4, <2>5, EmitCut DEF t
<1>4. CASE Angle
  <2> DEFINE long == At(pos + 1, IF text[pos] = ">" THEN {"="} ELSE {"=", ">"})
             t == [type |-> text[pos], first |-> Here.first, last |-> pos' - 1,
                   line |-> Here.line, col |-> Here.col]
  <2>1. /\ text[pos] \in {">", "<"} /\ Emit(text[pos], Here)
        /\ pos' = IF long THEN pos + 2 ELSE pos + 1
        /\ long => pos + 1 <= Len(text)
    BY <1>4 DEF Angle, At, Read, ReadTwo
  <2>2. t.type = text[pos] /\ t.first = pos /\ t.last = IF long THEN pos + 1 ELSE pos
    BY <1>1, <2>1
  <2> HIDE DEF t
  <2>3. Lexeme(t)
    <3>1. CASE text[pos] = ">"
      BY <2>2, <3>1 DEF Lexeme
    <3>2. CASE text[pos] = "<"
      BY <2>2, <3>2 DEF Lexeme
    <3> QED
      BY <2>1, <3>1, <3>2
  <2>4. pos' \in Nat \ {0} /\ pos' <= Len(text) + 1
    BY <1>1, <2>1
  <2> QED
    BY <1>1, <2>1, <2>3, <2>4, EmitCut DEF t
<1> QED
  BY <1>3, <1>4

\* A string, a word or a number begins.
LEMMA BeginCut ==
    ASSUME LexInv, CutInv, ReadString \/ ReadWord \/ ReadNumber \/ ReadHex
    PROVE  Cutting(tokens', pos', mode', start'.first)
<1>1. /\ Cut(tokens) /\ Gap(tokens, pos) /\ pos <= Len(text)
      /\ pos \in Nat \ {0} /\ tokens \in Seq(Token) /\ Len(text) \in Nat
      /\ tokens' = tokens /\ start'.first = pos
  <2>1. /\ mode = "next" /\ pos <= Len(text) /\ tokens' = tokens /\ start' = Here
    BY DEF ReadString, ReadWord, ReadNumber, ReadHex, Begin, At
  <2> QED
    BY <2>1, BetweenTokens DEF Here
<1>2. SUFFICES Reading(mode', pos, pos') /\ pos < pos' /\ pos' <= Len(text) + 1
  BY <1>1 DEF Cutting
<1>3. CASE ReadString
  <2>1. mode' = "string" /\ pos' = pos + 1 /\ At(pos, Quotes)
    BY <1>3 DEF ReadString, Begin, Read
  <2>2. OpenString(pos, pos + 1)
    BY <1>1, <2>1 DEF OpenString
  <2> QED
    BY <1>1, <2>1, <2>2 DEF Reading
<1>4. CASE ReadWord
  <2>1. mode' = "word" /\ pos' = pos + 1 /\ At(pos, Letters)
    BY <1>4 DEF ReadWord, Begin, Read
  <2>2. OpenRun(pos, pos + 1, WordChars)
    BY <1>1, <2>1 DEF OpenRun, At, WordChars
  <2> QED
    BY <1>1, <2>1, <2>2 DEF Reading
<1>5. CASE ReadNumber
  <2>1. mode' = "number" /\ pos' = pos + 1 /\ At(pos, Digits) /\ ~Hexadecimal(pos)
    BY <1>5 DEF ReadNumber, Begin, Read, Hexadecimal, At
  <2>2. OpenRun(pos, pos + 1, Digits)
    BY <1>1, <2>1 DEF OpenRun, At
  <2> QED
    BY <1>1, <2>1, <2>2 DEF Reading
<1>6. CASE ReadHex
  <2>1. mode' = "hex" /\ pos' = pos + 2 /\ Hexadecimal(pos) /\ pos + 1 <= Len(text)
    BY <1>6 DEF ReadHex, Begin, ReadTwo, Hexadecimal, At
  <2>2. OpenRun(pos + 2, pos + 2, HexDigits)
    BY <1>1 DEF OpenRun
  <2> QED
    BY <1>1, <2>1, <2>2 DEF Reading
<1> QED
  BY <1>3, <1>4, <1>5, <1>6

\* A string goes on or ends.
LEMMA InStringCut ==
    ASSUME LexInv, CutInv, InString
    PROVE  Cutting(tokens', pos', mode', start'.first)
<1> DEFINE i == start.first
           quote == text[i]
<1>1. /\ Cut(tokens) /\ Gap(tokens, i) /\ pos <= Len(text) + 1
      /\ OpenString(i, pos) /\ i < pos /\ i \in Nat /\ start \in Spot
      /\ pos \in Nat \ {0} /\ tokens \in Seq(Token) /\ Len(text) \in Nat
      /\ start' = start
  BY InToken DEF InString, Reading
<1>2. "STRING" \in TokenTypes /\ "ILLEGAL" \in TokenTypes
  BY DEF TokenTypes
<1>3. ASSUME NEW type \in {"STRING", "ILLEGAL"}, NEW j \in Nat, j = pos' - 1,
             pos' \in Nat \ {0}, pos' <= Len(text) + 1, Emit(type, start),
             OpenString(i, j), type = "STRING" => j > i /\ text[j] = quote,
             type = "ILLEGAL" => At(j, {Newline}) \/ j = Len(text)
      PROVE  Cutting(tokens', pos', mode', start'.first)
  <2> DEFINE t == [type |-> type, first |-> i, last |-> pos' - 1,
                   line |-> start.line, col |-> start.col]
  <2>1. t.type = type /\ t.first = i /\ t.last = j
    BY <1>3
  <2> HIDE DEF t
  <2>2. Lexeme(t)
    BY <1>3, <2>1 DEF Lexeme
  <2> QED
    BY <1>1, <1>2, <1>3, <2>2, EmitCut DEF t
<1>4. CASE pos > Len(text)
  <2>1. pos' = pos /\ Emit("ILLEGAL", start) /\ pos - 1 = Len(text)
    BY <1>1, <1>4 DEF InString, Stay, At
  <2>2. OpenString(i, pos - 1)
    BY <1>1 DEF OpenString
  <2>3. pos - 1 \in Nat
    BY <1>1
  <2> QED
    BY <1>1, <1>3, <2>1, <2>2, <2>3
<1>5. CASE pos <= Len(text)
  <2>1. pos' = pos + 1 /\ pos' - 1 = pos
    BY <1>1, <1>5 DEF InString, Read
  <2>2. CASE At(pos, {quote}) /\ Emit("STRING", start)
    <3>1. text[pos] = quote /\ pos > i
      BY <1>1, <2>2 DEF At
    <3> QED
      BY <1>1, <1>3, <1>5, <2>1, <2>2, <3>1
  <2>3. CASE At(pos, {Newline}) /\ Emit("ILLEGAL", start)
    BY <1>1, <1>3, <1>5, <2>1, <2>3
  <2>4. CASE ~At(pos, {quote, Newline}) /\ UNCHANGED <<tokens, mode>>
    <3>1. text[pos] \notin {text[i], Newline}
      BY <1>5, <2>4 DEF At
    <3>2. \A k \in (i + 1)..(pos + 1 - 1) : k = pos \/ k \in (i + 1)..(pos - 1)
      BY <1>1
    <3>3. OpenString(i, pos + 1)
      BY <1>1, <3>1, <3>2 DEF OpenString
    <3> QED
      BY <1>1, <1>5, <2>1, <2>4, <3>3 DEF InString, Cutting, Reading
  <2>5. ~(pos > Len(text))
    BY <1>1, <1>5
  <2> QED
    BY <2>2, <2>3, <2>4, <2>5, Zenon DEF InString
<1> QED
  BY <1>1, <1>4, <1>5

\* A word or a number goes on or ends: f is where the run of chars began.
LEMMA InRunCut ==
    ASSUME LexInv, CutInv, NEW chars, NEW type \in TokenTypes,
           mode \in {"word", "number", "hex"}, InRun(mode, chars, type),
           NEW f \in Nat, OpenRun(f, pos, chars),
           OpenRun(f, pos + 1, chars) => Reading(mode, start.first, pos + 1),
           Run(f, pos - 1, chars) =>
              Lexeme([type |-> type, first |-> start.first, last |-> pos - 1,
                      line |-> start.line, col |-> start.col])
    PROVE  Cutting(tokens', pos', mode', start'.first)
<1>1. /\ Cut(tokens) /\ Gap(tokens, start.first) /\ pos <= Len(text) + 1
      /\ start.first < pos /\ start.first \in Nat /\ start \in Spot
      /\ pos \in Nat \ {0} /\ tokens \in Seq(Token) /\ Len(text) \in Nat
      /\ start' = start
  BY InToken DEF InRun
<1>2. CASE At(pos, chars) /\ Read /\ UNCHANGED <<tokens, mode>>
  <2>1. \A k \in f..(pos + 1 - 1) : k = pos \/ k \in f..(pos - 1)
    BY <1>1
  <2>2. OpenRun(f, pos + 1, chars) /\ pos <= Len(text) /\ pos' = pos + 1
    BY <1>1, <1>2, <2>1 DEF OpenRun, At, Read
  <2> QED
    BY <1>1, <1>2, <2>2 DEF Cutting
<1>3. CASE ~At(pos, chars) /\ Stay /\ Emit(type, start)
  <2>1. pos' = pos /\ pos - 1 + 1 = pos
    BY <1>1, <1>3 DEF Stay
  <2>2. Run(f, pos - 1, chars)
    BY <1>3, <2>1 DEF Run, OpenRun
  <2> QED
    BY <1>1, <1>3, <2>1, <2>2, EmitCut
<1> QED
  BY <1>2, <1>3 DEF InRun

LEMMA InWordCut ==
    ASSUME LexInv, CutInv, InWord \/ InNumber \/ InHex
    PROVE  Cutting(tokens', pos', mode', start'.first)
<1> DEFINE i == start.first
           T(type) == [type |-> type, first |-> i, last |-> pos - 1,
                       line |-> start.line, col |-> start.col]
<1>1. mode \in {"word", "number", "hex"} /\ i \in Nat /\ Reading(mode, i, pos) /\ pos \in Nat
  BY InToken DEF InWord, InNumber, InHex, InRun
<1>2. WordType \in TokenTypes /\ "INTEGER" \in TokenTypes
  BY DEF WordType, TokenTypes
<1>3. ASSUME NEW type
      PROVE  T(type).type = type /\ T(type).first = i /\ T(type).last = pos - 1
  OBVIOUS
<1> HIDE DEF T
<1>4. CASE InWord
  <2>1. mode = "word" /\ At(i, Letters) /\ OpenRun(i, pos, WordChars) /\ InRun("word", WordChars, WordType)
    BY <1>1, <1>4 DEF InWord, InRun, Reading
  <2>2. OpenRun(i, pos + 1, WordChars) => Reading("word", i, pos + 1)
    BY <2>1 DEF Reading
  <2>3. WordType \notin {"STRING", "INTEGER", "ILLEGAL"}
    BY KeywordAssumption DEF WordType
  <2>4. Run(i, pos - 1, WordChars) => Lexeme(T(WordType))
    BY <1>3, <2>1, <2>3 DEF Lexeme
  <2> QED
    BY <1>1, <1>2, <2>1, <2>2, <2>4, InRunCut DEF T
<1>5. CASE InNumber
  <2>1. mode = "number" /\ At(i, Digits) /\ ~Hexadecimal(i) /\ OpenRun(i, pos, Digits)
        /\ InRun("number", Digits, "INTEGER")
    BY <1>1, <1>5 DEF InNumber, InRun, Reading
  <2>2. OpenRun(i, pos + 1, Digits) => Reading("number", i, pos + 1)
    BY <2>1 DEF Reading
  <2>3. Run(i, pos - 1, Digits) => Lexeme(T("INTEGER"))
    BY <1>3, <2>1 DEF Lexeme
  <2> QED
    BY <1>1, <1>2, <2>1, <2>2, <2>3, InRunCut DEF T
<1>6. CASE InHex
  <2>1. mode = "hex" /\ Hexadecimal(i) /\ OpenRun(i + 2, pos, HexDigits)
        /\ InRun("hex", HexDigits, "INTEGER")
    BY <1>1, <1>6 DEF InHex, InRun, Reading
  <2>2. OpenRun(i + 2, pos + 1, HexDigits) => Reading("hex", i, pos + 1)
    BY <2>1 DEF Reading
  <2>3. Run(i + 2, pos - 1, HexDigits) => Lexeme(T("INTEGER"))
    BY <1>3, <2>1 DEF Lexeme
  <2> QED
    BY <1>1, <1>2, <2>1, <2>2, <2>3, InRunCut DEF T
<1> QED
  BY <1>4, <1>5, <1>6

\* Nothing is left of the text.
LEMMA EndCut ==
    ASSUME LexInv, CutInv, EndOfText
    PROVE  Cutting(tokens', pos', mode', start'.first)
<1> DEFINE t == [type |-> "EOF", first |-> pos, last |-> pos - 1, line |-> line, col |-> col]
<1>1. /\ Cut(tokens) /\ Gap(tokens, pos) /\ pos = Len(text) + 1
      /\ pos \in Nat \ {0} /\ tokens \in Seq(Token)
      /\ tokens' = Append(tokens, t) /\ mode' = "done"
  BY BetweenTokens DEF EndOfText
<1>2. t \in Token /\ t.first = pos /\ t.type = "EOF"
  BY <1>1 DEF Token, TokenTypes, LexInv, PosInv, Counted
<1> HIDE DEF t
<1>3. /\ Len(tokens') = Len(tokens) + 1 /\ tokens' # <<>>
      /\ \A n \in 1..Len(tokens) : tokens'[n] = tokens[n]
      /\ tokens'[Len(tokens) + 1] = t
      /\ \A n \in 1..(Len(tokens) + 1) : GapBefore(tokens', n) = GapBefore(tokens, n)
      /\ DOMAIN tokens' = 1..(Len(tokens) + 1)
  BY <1>1, <1>2, AppendGaps
<1>4. ASSUME NEW n \in 1..(Len(tokens) + 1)
      PROVE  LET i == GapBefore(tokens', n)
             IN  /\ i <= tokens'[n].first
                 /\ \A k \in i..(tokens'[n].first - 1) : Skipped(i, k)
                 /\ n < Len(tokens') => Lexeme(tokens'[n])
  <2>1. CASE n = Len(tokens) + 1
    BY <1>1, <1>2, <1>3, <2>1 DEF Gap
  <2>2. CASE n \in 1..Len(tokens)
    <3>1. CutAt(tokens, n)
      BY <1>1, <2>2 DEF Cut
    <3> QED
      BY <1>3, <2>2, <3>1 DEF CutAt
  <2> QED
    BY <2>1, <2>2
<1>5. CutUp(tokens')
  BY <1>1, <1>2, <1>3, <1>4 DEF CutUp
<1> QED
  BY <1>1, <1>5 DEF Cutting

\* The same characters at the same places.
LEMMA SameCut ==
    ASSUME text' = text, Cutting(tokens', pos', mode', start'.first)
    PROVE  CutInv'
<1>1. \A i, chars : At(i, chars)' <=> At(i, chars)
  BY DEF At
<1>2. \A i, j : OpenString(i, j)' <=> OpenString(i, j)
  BY <1>1 DEF OpenString
<1>3. \A i, j, chars : Run(i, j, chars)' <=> Run(i, j, chars)
  BY <1>1 DEF Run
<1>4. \A i, j, chars : OpenRun(i, j, chars)' <=> OpenRun(i, j, chars)
  BY DEF OpenRun
<1>5. \A i : Hexadecimal(i)' <=> Hexadecimal(i)
  BY <1>1 DEF Hexadecimal
<1>6. \A t : Lexeme(t)' <=> Lexeme(t)
  BY <1>1, <1>2, <1>3, <1>5 DEF Lexeme
<1>7. \A i, k : Skipped(i, k)' <=> Skipped(i, k)
  BY <1>1 DEF Skipped
<1>8. Cut(tokens)' <=> Cut(tokens')
  BY <1>6, <1>7 DEF Cut, CutAt, GapBefore
<1>9. CutUp(tokens)' <=> CutUp(tokens')
  BY <1>6, <1>7 DEF CutUp, GapBefore
<1> QED
  BY <1>2, <1>4, <1>1, <1>5, <1>7, <1>8, <1>9
  DEF CutInv, Cutting, Gap, GapBefore, OpenComment, Reading

LEMMA CutInit == LexInit => CutInv
<1>1. SUFFICES ASSUME LexInit PROVE CutInv
  OBVIOUS
<1>2. text \in Seq(Chars) /\ tokens = <<>> /\ Len(tokens) + 1 = 1 /\ pos = 1 /\ mode = "next"
  BY <1>1, TextAssumption DEF LexInit
<1>3. Cut(tokens)
  BY <1>2 DEF Cut
<1>4. Gap(tokens, 1) /\ 1 <= Len(text) + 1
  BY <1>2 DEF Gap, GapBefore
<1> QED
  BY <1>2, <1>3, <1>4 DEF CutInv, Cutting

LEMMA CutStep == LexInv /\ CutInv /\ LexNext => CutInv'
<1>1. SUFFICES ASSUME LexInv, CutInv, LexNext
               PROVE  text' = text /\ Cutting(tokens', pos', mode', start'.first)
  BY SameCut
<1>2. text' = text
  BY <1>1 DEF LexNext, SkipWhitespace, EndOfText, Mark, Comment, MinusOrMultiply, Angle,
     Illegal, ReadString, ReadWord, ReadNumber, ReadHex, Begin, InComment, InString,
     InWord, InNumber, InHex, InRun
<1> QED
  BY <1>1, <1>2, SkipCut, CommentCut, InCommentCut, ShortTokenCut, BeginCut, InStringCut,
     InWordCut, EndCut DEF LexNext

LEMMA CutStutter == CutInv /\ UNCHANGED lexVars => CutInv'
  BY SameCut DEF CutInv, lexVars

LEMMA CutIsExact == CutInv => TokensExact
  BY DEF CutInv, Cutting, CutUp, GapBefore, TokensExact, Reading

\* For every text, the lexer cuts it into lexemes, with nothing but blanks and
\* comments between them.
THEOREM TokensExactHolds == LexSpec => []TokensExact
  BY LexInitInv, LexStep, LexInvStutter, CutInit, CutStep, CutStutter, CutIsExact, PTL DEF LexSpec

----------------------------------------------------------------------------
(* The arrangement of data items, for every list of items.                  *)

HierarchyTypeOK ==
    /\ Leveled(items)
    /\ Len(items) \in Nat
    /\ next \in 1..(Len(items) + 1)
    /\ stack \in Seq(0..(next - 1))
    /\ parent \in Seq(Int)
    /\ Len(parent) = next - 1

\* What lies under the k-th open group.
Under(k) == IF k = 1 THEN Nobody ELSE stack[k - 1]

\* Between two open groups there are only items that are not lower than the
\* second: they are closed, and no item behind it can belong to them.
StackInv ==
    \A k \in 1..Len(stack) :
        \A j \in (Under(k) + 1)..(stack[k] - 1) : Level(j) >= Level(stack[k])

\* The items behind the last open group are not lower than the next item.
TopInv ==
    next <= Len(items) => \A j \in (Top(stack) + 1)..(next - 1) : Level(j) >= Level(next)

HierarchyInv == HierarchyTypeOK /\ StackInv /\ TopInv /\ HierarchyExact

LEMMA LevelType ==
    ASSUME HierarchyTypeOK, NEW i \in 0..Len(items)
    PROVE  Level(i) \in Int
<1>1. CASE i = 0
  BY <1>1 DEF Level, Root
<1>2. CASE i # 0
  <2>1. i \in DOMAIN items
    BY <1>2 DEF HierarchyTypeOK, Leveled
  <2> QED
    BY <1>2, <2>1 DEF HierarchyTypeOK, Leveled, Level, Root
<1> QED
  BY <1>1, <1>2

\* A sequence without its last element.
LEMMA RestOf ==
    ASSUME NEW S, NEW s \in Seq(S), Len(s) > 0
    PROVE  /\ Rest(s) \in Seq(S) /\ Len(Rest(s)) = Len(s) - 1
           /\ \A k \in 1..(Len(s) - 1) : Rest(s)[k] = s[k]
<1>1. Len(s) - 1 \in Int /\ 1 \in Int /\ \A i \in 1..(Len(s) - 1) : s[i] \in S
  OBVIOUS
<1>2. PICK m \in Nat : m = Len(s) - 1
  OBVIOUS
<1>3. /\ Rest(s) \in Seq(S)
      /\ Len(Rest(s)) = IF 1 <= m THEN m - 1 + 1 ELSE 0
      /\ \A i \in 1..(m - 1 + 1) : Rest(s)[i] = s[1 + i - 1]
  BY <1>1, <1>2, SubSeqProperties DEF Rest
<1>4. m - 1 + 1 = m /\ (1 <= m \/ m = 0) /\ \A i \in 1..m : 1 + i - 1 = i
  OBVIOUS
<1> QED
  BY <1>2, <1>3, <1>4

LEMMA Before ==
    ASSUME NEW n \in Nat \ {0}, n # 1
    PROVE  n - 1 \in 1..n
  OBVIOUS

LEMMA ElementOf ==
    ASSUME NEW S, NEW s \in Seq(S), NEW k \in 1..Len(s)
    PROVE  s[k] \in S
  OBVIOUS

LEMMA PopKeepsInv ==
    ASSUME HierarchyInv, Pop
    PROVE  HierarchyInv'
<1> DEFINE n == Len(stack)
<1> USE DEF HierarchyInv
<1>0. /\ n \in Nat \ {0} /\ stack[n] \in 0..(next - 1) /\ Top(stack) = stack[n]
      /\ next \in 1..Len(items) /\ Level(stack[n]) >= Level(next)
  BY DEF Pop, Ends, Top, HierarchyTypeOK
<1>1. /\ stack' \in Seq(0..(next - 1)) /\ Len(stack') = n - 1
      /\ \A k \in 1..(n - 1) : stack'[k] = stack[k]
  <2>1. stack \in Seq(0..(next - 1)) /\ Len(stack) > 0 /\ stack' = Rest(stack)
    BY <1>0 DEF Pop, HierarchyTypeOK
  <2> QED
    BY <2>1, RestOf
<1>2. items' = items /\ next' = next /\ parent' = parent
  BY DEF Pop
<1>3. HierarchyTypeOK'
  BY <1>1, <1>2 DEF HierarchyTypeOK, Leveled
<1>4. \A i : Level(i)' = Level(i)
  BY <1>2 DEF Level
<1>5. StackInv'
  <2>1. ASSUME NEW k \in 1..Len(stack'), NEW j \in (Under(k)' + 1)..(stack'[k] - 1)
        PROVE  Level(j) >= Level(stack'[k])
    <3>1. k \in 1..n /\ stack'[k] = stack[k] /\ Under(k)' = Under(k)
      BY <1>0, <1>1 DEF Under
    <3> QED
      BY <2>1, <3>1 DEF StackInv
  <2> QED
    BY <2>1, <1>4 DEF StackInv
<1>6. TopInv'
  <2>1. Top(stack') = Under(n)
    <3>0. n \in Nat \ {0} /\ Len(stack') = n - 1 /\ stack' \in Seq(0..(next - 1))
      BY <1>0, <1>1
    <3> HIDE DEF n
    <3>1. /\ n = 1 => stack' = <<>>
          /\ n # 1 => n - 1 \in 1..(n - 1) /\ stack' # <<>> /\ Len(stack') = n - 1
      BY ONLY <3>0
    <3>2. n # 1 => stack'[n - 1] = stack[n - 1]
      BY <1>1, <3>1, Zenon
    <3> QED
      BY <3>1, <3>2, Zenon DEF Top, Under
  <2>2. ASSUME NEW j \in (Under(n) + 1)..(next - 1)
        PROVE  Level(j) >= Level(next)
    <3>0. /\ Under(n) \in Int /\ Under(n) >= -1 /\ j \in 0..Len(items)
          /\ Level(j) \in Int /\ Level(next) \in Int /\ Level(stack[n]) \in Int
      <4>1. Under(n) \in Int /\ Under(n) >= -1
        <5>1. CASE n = 1
          BY <5>1 DEF Under, Nobody
        <5>2. CASE n # 1
          <6>0. n \in Nat \ {0}
            BY <1>0
          <6>1. n - 1 \in 1..n
            BY <5>2, <6>0, Before
          <6>2. stack[n - 1] \in 0..(next - 1)
            BY <6>1, ElementOf DEF HierarchyTypeOK
          <6> QED
            BY <5>2, <6>2 DEF Under
        <5> QED
          BY <5>1, <5>2
      <4>2. j \in 0..Len(items)
        BY <4>1, <1>0
      <4>3. next \in 0..Len(items) /\ stack[n] \in 0..Len(items)
        BY <1>0
      <4> QED
        BY <4>1, <4>2, <4>3, LevelType
    <3>1. CASE j < stack[n]
      <4>1. j \in (Under(n) + 1)..(stack[n] - 1)
        BY <3>1, <3>0, <1>0
      <4>2. Level(j) >= Level(stack[n])
        BY <4>1, <1>0 DEF StackInv
      <4> QED
        BY <4>2, <3>0, <1>0
    <3>2. CASE j = stack[n]
      BY <3>2, <1>0
    <3>3. CASE j > stack[n]
      BY <3>3, <3>0, <1>0 DEF TopInv
    <3> QED
      BY <3>0, <3>1, <3>2, <3>3, <1>0
  <2> QED
    BY <2>1, <2>2, <1>2, <1>4 DEF TopInv
<1>7. HierarchyExact'
  BY <1>2, <1>4 DEF HierarchyExact, Nearest
<1> QED
  BY <1>3, <1>5, <1>6, <1>7

LEMMA AddItemKeepsInv ==
    ASSUME HierarchyInv, AddItem
    PROVE  HierarchyInv'
<1> DEFINE n == Len(stack)
<1> USE DEF HierarchyInv
<1>0. n \in Nat /\ next \in 1..Len(items) /\ Len(parent) = next - 1
  BY DEF AddItem, HierarchyTypeOK
<1>1. /\ items' = items /\ next' = next + 1
      /\ parent' = Append(parent, Top(stack)) /\ stack' = Append(stack, next)
  BY DEF AddItem
<1>2. /\ Top(stack) \in -1..(next - 1)
      /\ Top(stack) # Nobody => Level(Top(stack)) < Level(next)
  <2>1. CASE stack = <<>>
    BY <2>1, <1>0 DEF Top, Nobody
  <2>2. CASE stack # <<>>
    <3>1. n \in 1..n /\ Top(stack) = stack[n]
      BY <2>2, <1>0 DEF Top, HierarchyTypeOK
    <3>2. Top(stack) \in 0..(next - 1)
      BY <3>1, ElementOf DEF HierarchyTypeOK
    <3>3. Top(stack) \in 0..Len(items) /\ next \in 0..Len(items)
      BY <3>2, <1>0
    <3>4. Level(Top(stack)) \in Int /\ Level(next) \in Int
      BY <3>3, LevelType
    <3>5. ~(Level(Top(stack)) >= Level(next))
      BY <2>2 DEF AddItem, Ends
    <3> QED
      BY <3>2, <3>4, <3>5, <1>0
  <2> QED
    BY <2>1, <2>2
<1>3. HierarchyTypeOK'
  <2>1. stack \in Seq(0..next) /\ next \in 0..next
    BY <1>0 DEF HierarchyTypeOK
  <2>2. stack' \in Seq(0..next)
    BY <1>1, <2>1
  <2>3. next + 1 - 1 = next
    BY <1>0
  <2>4. parent' \in Seq(Int) /\ Len(parent') = next
    BY <1>0, <1>1, <1>2 DEF HierarchyTypeOK
  <2> QED
    BY <1>0, <1>1, <2>2, <2>3, <2>4 DEF HierarchyTypeOK, Leveled
<1>4. \A i : Level(i)' = Level(i)
  BY <1>1 DEF Level
<1>5. /\ Len(stack') = n + 1 /\ stack'[n + 1] = next
      /\ \A k \in 1..n : stack'[k] = stack[k]
  BY <1>1, <1>0 DEF HierarchyTypeOK
<1>6. StackInv'
  <2>1. ASSUME NEW k \in 1..Len(stack'), NEW j \in (Under(k)' + 1)..(stack'[k] - 1)
        PROVE  Level(j) >= Level(stack'[k])
    <3>1. CASE k = n + 1
      <4>1. Under(k)' = Top(stack)
        <5>1. (n + 1) - 1 = n /\ (k = 1 <=> n = 0) /\ (n # 0 => n \in 1..n)
          BY <3>1, <1>0 DEF HierarchyTypeOK
        <5>2. n # 0 => stack'[n] = stack[n]
          BY <1>5, <5>1, Zenon
        <5> QED
          BY <3>1, <1>0, <1>5, <5>1, <5>2 DEF Under, Top
      <4> QED
        BY <4>1, <3>1, <1>5, <1>0, <2>1 DEF TopInv
    <3>2. CASE k # n + 1
      <4>1. k \in 1..n /\ stack'[k] = stack[k] /\ Under(k)' = Under(k)
        BY <3>2, <1>0, <1>5 DEF Under
      <4> QED
        BY <4>1, <2>1 DEF StackInv
    <3> QED
      BY <3>1, <3>2
  <2> QED
    BY <2>1, <1>4 DEF StackInv
<1>7. TopInv'
  <2>1. Top(stack') = next
    BY <1>0, <1>5 DEF Top
  <2>2. (next + 1)..(next + 1 - 1) = {}
    BY <1>0
  <2> QED
    BY <2>1, <2>2, <1>1 DEF TopInv
<1>8. HierarchyExact'
  <2>1. Nearest(next, Top(stack))
    BY <1>2, <1>0 DEF Nearest, Nobody, TopInv
  <2>2. ASSUME NEW i \in DOMAIN parent'
        PROVE  Nearest(i, parent'[i])
    <3>1. CASE i = next
      <4>1. parent'[i] = Top(stack)
        BY <3>1, <1>0, <1>1, <1>2 DEF HierarchyTypeOK
      <4> QED
        BY <4>1, <3>1, <2>1
    <3>2. CASE i # next
      <4>1. i \in DOMAIN parent /\ parent'[i] = parent[i]
        BY <3>2, <1>0, <1>1, <1>2 DEF HierarchyTypeOK
      <4> QED
        BY <4>1 DEF HierarchyExact
    <3> QED
      BY <3>1, <3>2
  <2> QED
    BY <2>2, <1>4 DEF HierarchyExact, Nearest
<1> QED
  BY <1>3, <1>6, <1>7, <1>8

LEMMA HierarchyStartInv == Leveled(items) /\ StartHierarchy => HierarchyInv
<1> SUFFICES ASSUME Leveled(items), StartHierarchy PROVE HierarchyInv
  OBVIOUS
<1>1. Len(items) \in Nat
  BY DEF Leveled
<1>2. Len(items) \in Nat /\ Len(stack) = 1 /\ stack[1] = 0 /\ next = 1 /\ parent = <<>>
  BY <1>1 DEF StartHierarchy, Root
<1>3. HierarchyTypeOK
  BY <1>2 DEF StartHierarchy, HierarchyTypeOK, Root
<1>4. StackInv
  BY <1>2 DEF StackInv, Under, Nobody
<1>5. TopInv
  BY <1>2 DEF TopInv, Top, StartHierarchy, Root
<1>6. HierarchyExact
  BY <1>2 DEF HierarchyExact
<1> QED
  BY <1>3, <1>4, <1>5, <1>6 DEF HierarchyInv

LEMMA HierarchyStartNext == (Leveled(items) /\ StartHierarchy)' => HierarchyInv'
  BY HierarchyStartInv, PTL

LEMMA HierarchyStep == HierarchyInv /\ HierarchyNext => HierarchyInv'
  BY PopKeepsInv, AddItemKeepsInv DEF HierarchyNext

LEMMA HierarchyStutter == HierarchyInv /\ UNCHANGED hierarchyVars => HierarchyInv'
  BY DEF HierarchyInv, HierarchyTypeOK, StackInv, TopInv, HierarchyExact, Nearest, Level, Leveled,
     Under, Top, hierarchyVars

\* Every item goes to the nearest item before it with a lower level, for every
\* list of level numbers.
THEOREM ListsAreArranged == HierarchySpec => []HierarchyExact
<1>1. HierarchyInit => HierarchyInv
  BY HierarchyStartInv DEF HierarchyInit
<1>2. HierarchyInv => HierarchyExact
  BY DEF HierarchyInv
<1> QED
  BY <1>1, <1>2, HierarchyStep, HierarchyStutter, PTL DEF HierarchySpec

----------------------------------------------------------------------------
(* Expressions and statements are trees.                                    *)

Low == [e \in Expressions |-> Height[e]]       \* the heights, as functions
Deep == [s \in Statements |-> Height[s]]

LEMMA Heights ==
  /\ Low \in [Expressions -> Nat]
  /\ Deep \in [Statements -> Nat]
  BY TreesAssumption DEF Low, Deep

LEMMA OperandsAreLower ==
  ASSUME NEW e \in Expressions, e.op \notin Leaves
  PROVE  /\ e.left \in Expressions /\ Low[e.left] < Low[e]
         /\ e.right \in Expressions /\ Low[e.right] < Low[e]
  BY TreesAssumption DEF Low

LEMMA NestedAreLower ==
  ASSUME NEW s \in Statements, NEW t \in Nested(s)
  PROVE  t \in Statements /\ Deep[t] < Deep[s]
<1>1. s.lists \in Seq(Seq(Statements)) /\ Height[t] < Height[s]
  BY TreesAssumption
<1>2. PICK i \in DOMAIN s.lists : \E j \in DOMAIN s.lists[i] : t = s.lists[i][j]
  BY DEF Nested
<1>3. s.lists[i] \in Seq(Statements)
  BY <1>1
<1>4. t \in Statements
  BY <1>2, <1>3
<1> QED
  BY <1>1, <1>4 DEF Deep

Literals == {e.literal : e \in Expressions}

----------------------------------------------------------------------------
(* The recursive definitions have a solution.                               *)

NamesOf(e, names) ==
    IF e.op = "IDENTIFIER" THEN {e.literal}
    ELSE IF e.op \in Leaves THEN {}
    ELSE names[e.left] \cup names[e.right]

LEMMA NamesInDefined ==
  \A e \in Expressions : NamesIn[e] = NamesOf(e, NamesIn)
<1> DEFINE V == SUBSET Literals
           G == [Expressions -> V]
           step == [a \in Expressions \X G |-> NamesOf(a[1], a[2])]
           Body(g) == [e \in Expressions |-> NamesOf(e, g)]
<1>1. ASSUME NEW e \in Expressions, NEW g \in G
      PROVE  step[<<e, g>>] = NamesOf(e, g) /\ NamesOf(e, g) \in V
  <2>1. step[<<e, g>>] = NamesOf(e, g)
    OBVIOUS
  <2>2. NamesOf(e, g) \in V
    BY OperandsAreLower DEF NamesOf, Literals
  <2> QED
    BY <2>1, <2>2
<1>2. step \in [Expressions \X G -> V]
  <2> SUFFICES ASSUME NEW a \in Expressions \X G
               PROVE  NamesOf(a[1], a[2]) \in V
    OBVIOUS
  <2> QED
    BY <1>1
<1>3. ASSUME NEW e \in Expressions, NEW g \in G, NEW h \in G,
             \A y \in Expressions : Low[y] < Low[e] => g[y] = h[y]
      PROVE  step[<<e, g>>] = step[<<e, h>>]
  <2>1. NamesOf(e, g) = NamesOf(e, h)
    BY <1>3, OperandsAreLower DEF NamesOf
  <2> QED
    BY <1>1, <2>1
<1> HIDE DEF step
<1>4. IsTreeStep(Expressions, Low, V, step)
  BY <1>2, <1>3, Heights DEF IsTreeStep
<1>5. PICK f \in G : \A e \in Expressions : f[e] = step[<<e, f>>]
  BY <1>4, TreeRecursion
<1>6. f = Body(f)
  BY <1>1, <1>5
<1>7. NamesIn = CHOOSE g : g = Body(g)
  BY Zenon DEF NamesIn, NamesOf
<1> HIDE DEF Body
<1>8. NamesIn = Body(NamesIn)
  BY <1>6, <1>7, Zenon
<1> QED
  BY <1>8, Zenon DEF Body

LoadedOf(e, loaded) ==
    IF e.op \in Leaves THEN Pointed(e)
    ELSE IF StringEquality(e) THEN Pointed(e.left) \cup Pointed(e.right)
    ELSE loaded[e.left] \cup loaded[e.right]

LEMMA LoadedDefined ==
  \A e \in Expressions : Loaded[e] = LoadedOf(e, Loaded)
<1> DEFINE V == SUBSET Literals
           G == [Expressions -> V]
           step == [a \in Expressions \X G |-> LoadedOf(a[1], a[2])]
           Body(g) == [e \in Expressions |-> LoadedOf(e, g)]
<1>1. ASSUME NEW e \in Expressions, NEW g \in G
      PROVE  step[<<e, g>>] = LoadedOf(e, g) /\ LoadedOf(e, g) \in V
  <2>1. step[<<e, g>>] = LoadedOf(e, g)
    OBVIOUS
  <2>2. LoadedOf(e, g) \in V
    BY OperandsAreLower DEF LoadedOf, Literals, Pointed
  <2> QED
    BY <2>1, <2>2
<1>2. step \in [Expressions \X G -> V]
  <2> SUFFICES ASSUME NEW a \in Expressions \X G
               PROVE  LoadedOf(a[1], a[2]) \in V
    OBVIOUS
  <2> QED
    BY <1>1
<1>3. ASSUME NEW e \in Expressions, NEW g \in G, NEW h \in G,
             \A y \in Expressions : Low[y] < Low[e] => g[y] = h[y]
      PROVE  step[<<e, g>>] = step[<<e, h>>]
  <2>1. LoadedOf(e, g) = LoadedOf(e, h)
    BY <1>3, OperandsAreLower DEF LoadedOf
  <2> QED
    BY <1>1, <2>1
<1> HIDE DEF step
<1>4. IsTreeStep(Expressions, Low, V, step)
  BY <1>2, <1>3, Heights, Zenon DEF IsTreeStep
<1>5. V # {}
  OBVIOUS
<1>6. PICK f \in G : \A e \in Expressions : f[e] = step[<<e, f>>]
  <2> HIDE DEF V
  <2> QED
    BY <1>4, <1>5, TreeRecursion
<1>7. f = Body(f)
  BY <1>1, <1>6
<1>8. Loaded = CHOOSE g : g = Body(g)
  BY Zenon DEF Loaded, LoadedOf
<1> HIDE DEF Body
<1>9. Loaded = Body(Loaded)
  BY <1>7, <1>8, Zenon
<1> QED
  BY <1>9, Zenon DEF Body

ComparisonIn(e, uses) ==
    /\ e.op \notin Leaves
    /\ IF e.op = "=" THEN IsStringField(e.left) \/ IsStringField(e.right)
       ELSE uses[e.left] \/ uses[e.right]

LEMMA ExprUsesComparisonDefined ==
  \A e \in Expressions : ExprUsesComparison[e] = ComparisonIn(e, ExprUsesComparison)
<1> DEFINE V == BOOLEAN
           G == [Expressions -> V]
           step == [a \in Expressions \X G |-> ComparisonIn(a[1], a[2])]
           Body(g) == [e \in Expressions |-> ComparisonIn(e, g)]
<1>1. ASSUME NEW e \in Expressions, NEW g \in G
      PROVE  step[<<e, g>>] = ComparisonIn(e, g) /\ ComparisonIn(e, g) \in V
  <2>1. step[<<e, g>>] = ComparisonIn(e, g)
    OBVIOUS
  <2>2. ComparisonIn(e, g) \in V
    BY Zenon DEF ComparisonIn
  <2> QED
    BY <2>1, <2>2
<1>2. step \in [Expressions \X G -> V]
  <2> SUFFICES ASSUME NEW a \in Expressions \X G
               PROVE  ComparisonIn(a[1], a[2]) \in V
    OBVIOUS
  <2> QED
    BY <1>1
<1>3. ASSUME NEW e \in Expressions, NEW g \in G, NEW h \in G,
             \A y \in Expressions : Low[y] < Low[e] => g[y] = h[y]
      PROVE  step[<<e, g>>] = step[<<e, h>>]
  <2>1. ComparisonIn(e, g) = ComparisonIn(e, h)
    BY <1>3, OperandsAreLower, Zenon DEF ComparisonIn
  <2> QED
    BY <1>1, <2>1
<1> HIDE DEF step
<1>4. IsTreeStep(Expressions, Low, V, step)
  BY <1>2, <1>3, Heights, Zenon DEF IsTreeStep
<1>5. V # {}
  OBVIOUS
<1>6. PICK f \in G : \A e \in Expressions : f[e] = step[<<e, f>>]
  <2> HIDE DEF V
  <2> QED
    BY <1>4, <1>5, TreeRecursion
<1>7. f = Body(f)
  BY <1>1, <1>6
<1>8. ExprUsesComparison = CHOOSE g : g = Body(g)
  BY Zenon DEF ExprUsesComparison, ComparisonIn
<1> HIDE DEF Body
<1>9. ExprUsesComparison = Body(ExprUsesComparison)
  BY <1>7, <1>8, Zenon
<1> QED
  BY <1>9, Zenon DEF Body

LEMMA StatementOkDefined ==
  \A s \in Statements : StatementOk[s] = CheckStatement(s, StatementOk)
<1> DEFINE V == BOOLEAN
           G == [Statements -> V]
           step == [a \in Statements \X G |-> CheckStatement(a[1], a[2])]
           Body(g) == [s \in Statements |-> CheckStatement(s, g)]
<1>1. ASSUME NEW s \in Statements, NEW g \in G
      PROVE  step[<<s, g>>] = CheckStatement(s, g) /\ CheckStatement(s, g) \in V
  <2>1. step[<<s, g>>] = CheckStatement(s, g)
    OBVIOUS
  <2>2. CheckStatement(s, g) \in V
    BY Zenon DEF CheckStatement
  <2> QED
    BY <2>1, <2>2
<1>2. step \in [Statements \X G -> V]
  <2> SUFFICES ASSUME NEW a \in Statements \X G
               PROVE  CheckStatement(a[1], a[2]) \in V
    OBVIOUS
  <2> QED
    BY <1>1
<1>3. ASSUME NEW s \in Statements, NEW g \in G, NEW h \in G,
             \A y \in Statements : Deep[y] < Deep[s] => g[y] = h[y]
      PROVE  step[<<s, g>>] = step[<<s, h>>]
  <2>1. CheckStatement(s, g) = CheckStatement(s, h)
    BY <1>3, NestedAreLower, Zenon DEF CheckStatement
  <2> QED
    BY <1>1, <2>1
<1> HIDE DEF step
<1>4. IsTreeStep(Statements, Deep, V, step)
  BY <1>2, <1>3, Heights, Zenon DEF IsTreeStep
<1>5. V # {}
  OBVIOUS
<1>6. PICK f \in G : \A s \in Statements : f[s] = step[<<s, f>>]
  <2> HIDE DEF V
  <2> QED
    BY <1>4, <1>5, TreeRecursion
<1>7. f = Body(f)
  BY <1>1, <1>6
<1>8. StatementOk = CHOOSE g : g = Body(g)
  BY Zenon DEF StatementOk
<1> HIDE DEF Body
<1>9. StatementOk = Body(StatementOk)
  BY <1>7, <1>8, Zenon
<1> QED
  BY <1>9, Zenon DEF Body

VisitedFrom(s, visited) ==
    IF s.kind \in {"perform-until"} \cup Hardware THEN {}
    ELSE {s} \cup UNION {visited[t] : t \in Nested(s)}

LEMMA VisitedDefined ==
  \A s \in Statements : Visited[s] = VisitedFrom(s, Visited)
<1> DEFINE V == SUBSET Statements
           G == [Statements -> V]
           step == [a \in Statements \X G |-> VisitedFrom(a[1], a[2])]
           Body(g) == [s \in Statements |-> VisitedFrom(s, g)]
<1>1. ASSUME NEW s \in Statements, NEW g \in G
      PROVE  step[<<s, g>>] = VisitedFrom(s, g) /\ VisitedFrom(s, g) \in V
  <2>1. step[<<s, g>>] = VisitedFrom(s, g)
    OBVIOUS
  <2>2. VisitedFrom(s, g) \in V
    BY NestedAreLower DEF VisitedFrom
  <2> QED
    BY <2>1, <2>2
<1>2. step \in [Statements \X G -> V]
  <2> SUFFICES ASSUME NEW a \in Statements \X G
               PROVE  VisitedFrom(a[1], a[2]) \in V
    OBVIOUS
  <2> QED
    BY <1>1
<1>3. ASSUME NEW s \in Statements, NEW g \in G, NEW h \in G,
             \A y \in Statements : Deep[y] < Deep[s] => g[y] = h[y]
      PROVE  step[<<s, g>>] = step[<<s, h>>]
  <2>1. VisitedFrom(s, g) = VisitedFrom(s, h)
    BY <1>3, NestedAreLower, Zenon DEF VisitedFrom
  <2> QED
    BY <1>1, <2>1
<1> HIDE DEF step
<1>4. IsTreeStep(Statements, Deep, V, step)
  BY <1>2, <1>3, Heights, Zenon DEF IsTreeStep
<1>5. V # {}
  OBVIOUS
<1>6. PICK f \in G : \A s \in Statements : f[s] = step[<<s, f>>]
  <2> HIDE DEF V
  <2> QED
    BY <1>4, <1>5, TreeRecursion
<1>7. f = Body(f)
  BY <1>1, <1>6
<1>8. Visited = CHOOSE g : g = Body(g)
  BY Zenon DEF Visited, VisitedFrom
<1> HIDE DEF Body
<1>9. Visited = Body(Visited)
  BY <1>7, <1>8, Zenon
<1> QED
  BY <1>9, Zenon DEF Body

HttpIn(s, uses) ==
    \/ s.kind \in HttpVerbs
    \/ s.kind \in WithLists /\ \E t \in Nested(s) : uses[t]

LEMMA UsesHttpDefined ==
  \A s \in Statements : UsesHttp[s] = HttpIn(s, UsesHttp)
<1> DEFINE V == BOOLEAN
           G == [Statements -> V]
           step == [a \in Statements \X G |-> HttpIn(a[1], a[2])]
           Body(g) == [s \in Statements |-> HttpIn(s, g)]
<1>1. ASSUME NEW s \in Statements, NEW g \in G
      PROVE  step[<<s, g>>] = HttpIn(s, g) /\ HttpIn(s, g) \in V
  <2>1. step[<<s, g>>] = HttpIn(s, g)
    OBVIOUS
  <2>2. HttpIn(s, g) \in V
    BY Zenon DEF HttpIn
  <2> QED
    BY <2>1, <2>2
<1>2. step \in [Statements \X G -> V]
  <2> SUFFICES ASSUME NEW a \in Statements \X G
               PROVE  HttpIn(a[1], a[2]) \in V
    OBVIOUS
  <2> QED
    BY <1>1
<1>3. ASSUME NEW s \in Statements, NEW g \in G, NEW h \in G,
             \A y \in Statements : Deep[y] < Deep[s] => g[y] = h[y]
      PROVE  step[<<s, g>>] = step[<<s, h>>]
  <2>1. HttpIn(s, g) = HttpIn(s, h)
    BY <1>3, NestedAreLower, Zenon DEF HttpIn
  <2> QED
    BY <1>1, <2>1
<1> HIDE DEF step
<1>4. IsTreeStep(Statements, Deep, V, step)
  BY <1>2, <1>3, Heights, Zenon DEF IsTreeStep
<1>5. V # {}
  OBVIOUS
<1>6. PICK f \in G : \A s \in Statements : f[s] = step[<<s, f>>]
  <2> HIDE DEF V
  <2> QED
    BY <1>4, <1>5, TreeRecursion
<1>7. f = Body(f)
  BY <1>1, <1>6
<1>8. UsesHttp = CHOOSE g : g = Body(g)
  BY Zenon DEF UsesHttp, HttpIn
<1> HIDE DEF Body
<1>9. UsesHttp = Body(UsesHttp)
  BY <1>7, <1>8, Zenon
<1> QED
  BY <1>9, Zenon DEF Body

StringIn(s, uses) ==
    \/ s.kind \in {"string", "unstring"}
    \/ s.kind \in WithLists /\ \E t \in Nested(s) : uses[t]

LEMMA UsesStringDefined ==
  \A s \in Statements : UsesString[s] = StringIn(s, UsesString)
<1> DEFINE V == BOOLEAN
           G == [Statements -> V]
           step == [a \in Statements \X G |-> StringIn(a[1], a[2])]
           Body(g) == [s \in Statements |-> StringIn(s, g)]
<1>1. ASSUME NEW s \in Statements, NEW g \in G
      PROVE  step[<<s, g>>] = StringIn(s, g) /\ StringIn(s, g) \in V
  <2>1. step[<<s, g>>] = StringIn(s, g)
    OBVIOUS
  <2>2. StringIn(s, g) \in V
    BY Zenon DEF StringIn
  <2> QED
    BY <2>1, <2>2
<1>2. step \in [Statements \X G -> V]
  <2> SUFFICES ASSUME NEW a \in Statements \X G
               PROVE  StringIn(a[1], a[2]) \in V
    OBVIOUS
  <2> QED
    BY <1>1
<1>3. ASSUME NEW s \in Statements, NEW g \in G, NEW h \in G,
             \A y \in Statements : Deep[y] < Deep[s] => g[y] = h[y]
      PROVE  step[<<s, g>>] = step[<<s, h>>]
  <2>1. StringIn(s, g) = StringIn(s, h)
    BY <1>3, NestedAreLower, Zenon DEF StringIn
  <2> QED
    BY <1>1, <2>1
<1> HIDE DEF step
<1>4. IsTreeStep(Statements, Deep, V, step)
  BY <1>2, <1>3, Heights, Zenon DEF IsTreeStep
<1>5. V # {}
  OBVIOUS
<1>6. PICK f \in G : \A s \in Statements : f[s] = step[<<s, f>>]
  <2> HIDE DEF V
  <2> QED
    BY <1>4, <1>5, TreeRecursion
<1>7. f = Body(f)
  BY <1>1, <1>6
<1>8. UsesString = CHOOSE g : g = Body(g)
  BY Zenon DEF UsesString, StringIn
<1> HIDE DEF Body
<1>9. UsesString = Body(UsesString)
  BY <1>7, <1>8, Zenon
<1> QED
  BY <1>9, Zenon DEF Body

LEMMA UsesComparisonDefined ==
  \A s \in Statements : UsesComparison[s] = ComparesInLists(s, UsesComparison)
<1> DEFINE V == BOOLEAN
           G == [Statements -> V]
           step == [a \in Statements \X G |-> ComparesInLists(a[1], a[2])]
           Body(g) == [s \in Statements |-> ComparesInLists(s, g)]
<1>1. ASSUME NEW s \in Statements, NEW g \in G
      PROVE  step[<<s, g>>] = ComparesInLists(s, g) /\ ComparesInLists(s, g) \in V
  <2>1. step[<<s, g>>] = ComparesInLists(s, g)
    OBVIOUS
  <2>2. ComparesInLists(s, g) \in V
    BY Zenon DEF ComparesInLists
  <2> QED
    BY <2>1, <2>2
<1>2. step \in [Statements \X G -> V]
  <2> SUFFICES ASSUME NEW a \in Statements \X G
               PROVE  ComparesInLists(a[1], a[2]) \in V
    OBVIOUS
  <2> QED
    BY <1>1
<1>3. ASSUME NEW s \in Statements, NEW g \in G, NEW h \in G,
             \A y \in Statements : Deep[y] < Deep[s] => g[y] = h[y]
      PROVE  step[<<s, g>>] = step[<<s, h>>]
  <2>1. ComparesInLists(s, g) = ComparesInLists(s, h)
    BY <1>3, NestedAreLower, Zenon DEF ComparesInLists
  <2> QED
    BY <1>1, <2>1
<1> HIDE DEF step
<1>4. IsTreeStep(Statements, Deep, V, step)
  BY <1>2, <1>3, Heights, Zenon DEF IsTreeStep
<1>5. V # {}
  OBVIOUS
<1>6. PICK f \in G : \A s \in Statements : f[s] = step[<<s, f>>]
  <2> HIDE DEF V
  <2> QED
    BY <1>4, <1>5, TreeRecursion
<1>7. f = Body(f)
  BY <1>1, <1>6
<1>8. UsesComparison = CHOOSE g : g = Body(g)
  BY Zenon DEF UsesComparison
<1> HIDE DEF Body
<1>9. UsesComparison = Body(UsesComparison)
  BY <1>7, <1>8, Zenon
<1> QED
  BY <1>9, Zenon DEF Body

FlattenedLists(s, flat) ==
    [i \in DOMAIN s.lists |-> FlattenSeq([j \in DOMAIN s.lists[i] |-> flat[s.lists[i][j]]])]
FlattenedFrom(s, flat) == <<s>> \o FlattenSeq(FlattenedLists(s, flat))

\* If the pieces for the nested statements consist of S, so does all of it.
LEMMA FlattenedOf ==
  ASSUME NEW s \in Statements, NEW S, s \in S, NEW flat,
         \A t \in Nested(s) : flat[t] \in Seq(S)
  PROVE  FlattenedFrom(s, flat) \in Seq(S)
<1>1. s.lists \in Seq(Seq(Statements))
  BY TreesAssumption
<1>2. ASSUME NEW i \in DOMAIN s.lists
      PROVE  FlattenSeq([j \in DOMAIN s.lists[i] |-> flat[s.lists[i][j]]]) \in Seq(S)
  <2> DEFINE list == s.lists[i]
             pieces == [j \in DOMAIN list |-> flat[list[j]]]
  <2>1. list \in Seq(Statements)
    BY <1>1
  <2>2. \A j \in DOMAIN list : list[j] \in Nested(s)
    BY DEF Nested
  <2> HIDE DEF list
  <2>3. DOMAIN list = 1..Len(list) /\ Len(list) \in Nat
    BY <2>1
  <2>4. pieces \in Seq(Seq(S))
    BY <2>2, <2>3
  <2>5. FlattenSeq(pieces) \in Seq(S)
    <3> HIDE DEF pieces
    <3> QED
      BY <2>4, FlattenedType
  <2> QED
    BY <2>5 DEF list
<1>3. DOMAIN s.lists = 1..Len(s.lists) /\ Len(s.lists) \in Nat
  BY <1>1
<1>4. FlattenedLists(s, flat) \in Seq(Seq(S))
  BY <1>2, <1>3 DEF FlattenedLists
<1>5. FlattenSeq(FlattenedLists(s, flat)) \in Seq(S)
  BY <1>4, FlattenedType
<1> QED
  BY <1>5 DEF FlattenedFrom

LEMMA FlattenedSame ==
  ASSUME NEW s \in Statements, NEW f, NEW g, \A t \in Nested(s) : f[t] = g[t]
  PROVE  FlattenedFrom(s, f) = FlattenedFrom(s, g)
<1>1. ASSUME NEW i \in DOMAIN s.lists
      PROVE  [j \in DOMAIN s.lists[i] |-> f[s.lists[i][j]]] =
             [j \in DOMAIN s.lists[i] |-> g[s.lists[i][j]]]
  BY DEF Nested
<1>2. FlattenedLists(s, f) = FlattenedLists(s, g)
  BY <1>1, Zenon DEF FlattenedLists
<1> QED
  BY <1>2, Zenon DEF FlattenedFrom

LEMMA FlattenedDefined ==
  \A s \in Statements : Flattened[s] = FlattenedFrom(s, Flattened)
<1> DEFINE V == Seq(Statements)
           G == [Statements -> V]
           step == [a \in Statements \X G |-> FlattenedFrom(a[1], a[2])]
           Body(g) == [s \in Statements |-> FlattenedFrom(s, g)]
<1>1. ASSUME NEW s \in Statements, NEW g \in G
      PROVE  step[<<s, g>>] = FlattenedFrom(s, g) /\ FlattenedFrom(s, g) \in V
  <2>1. step[<<s, g>>] = FlattenedFrom(s, g)
    OBVIOUS
  <2>2. FlattenedFrom(s, g) \in V
    BY NestedAreLower, FlattenedOf
  <2> QED
    BY <2>1, <2>2
<1>2. step \in [Statements \X G -> V]
  <2> SUFFICES ASSUME NEW a \in Statements \X G
               PROVE  FlattenedFrom(a[1], a[2]) \in V
    OBVIOUS
  <2> QED
    BY <1>1
<1>3. ASSUME NEW s \in Statements, NEW g \in G, NEW h \in G,
             \A y \in Statements : Deep[y] < Deep[s] => g[y] = h[y]
      PROVE  step[<<s, g>>] = step[<<s, h>>]
  <2>1. FlattenedFrom(s, g) = FlattenedFrom(s, h)
    BY <1>3, NestedAreLower, FlattenedSame
  <2> QED
    BY <1>1, <2>1
<1> HIDE DEF step
<1>4. IsTreeStep(Statements, Deep, V, step)
  BY <1>2, <1>3, Heights, Zenon DEF IsTreeStep
<1>5. V # {}
  <2>1. <<>> \in V
    OBVIOUS
  <2> QED
    BY <2>1
<1>6. PICK f \in G : \A s \in Statements : f[s] = step[<<s, f>>]
  <2> HIDE DEF V
  <2> QED
    BY <1>4, <1>5, TreeRecursion
<1>7. f = Body(f)
  BY <1>1, <1>6
<1>8. Flattened = CHOOSE g : g = Body(g)
  BY Zenon DEF Flattened, FlattenedFrom, FlattenedLists
<1> HIDE DEF Body
<1>9. Flattened = Body(Flattened)
  BY <1>7, <1>8, Zenon
<1> QED
  BY <1>9, Zenon DEF Body

----------------------------------------------------------------------------
(* The names of an accepted program.                                        *)

\* Whatever an expression is computed from is looked up.
LEMMA LoadedNames ==
  \A e \in Expressions : Loaded[e] \subseteq NamesIn[e] /\ Pointed(e) \subseteq NamesIn[e]
<1> DEFINE S == {e \in Expressions : Loaded[e] \subseteq NamesIn[e] /\ Pointed(e) \subseteq NamesIn[e]}
<1>1. ASSUME NEW e \in Expressions, \A y \in Expressions : Low[y] < Low[e] => y \in S
      PROVE  e \in S
  <2>1. NamesIn[e] = NamesOf(e, NamesIn) /\ Loaded[e] = LoadedOf(e, Loaded)
    BY NamesInDefined, LoadedDefined
  <2>2. CASE e.op \in Leaves
    BY <2>1, <2>2 DEF NamesOf, LoadedOf, Pointed
  <2>3. CASE e.op \notin Leaves
    <3>1. e.left \in S /\ e.right \in S
      BY <1>1, <2>3, OperandsAreLower
    <3>2. e.op # "IDENTIFIER"
      BY <2>3 DEF Leaves, Operands
    <3>3. NamesIn[e] = NamesIn[e.left] \cup NamesIn[e.right] /\ Pointed(e) = {}
      BY <2>1, <2>3, <3>2 DEF NamesOf, Pointed
    <3>4. \/ Loaded[e] = Pointed(e.left) \cup Pointed(e.right)
          \/ Loaded[e] = Loaded[e.left] \cup Loaded[e.right]
      BY <2>1, <2>3 DEF LoadedOf
    <3> QED
      BY <3>1, <3>3, <3>4
  <2> QED
    BY <2>2, <2>3
<1> HIDE DEF S
<1>2. Expressions \subseteq S
  BY <1>1, Heights, TreeInduction
<1> QED
  BY <1>2 DEF S

\* Statements that are skipped by the checker.
NotChecked == {"perform-until"} \cup Hardware

\* The type of what is declared in no record is none of those that are accepted.
LEMMA AcceptedIsDeclared ==
  ASSUME NEW phrase \in DOMAIN Accepts, NEW name, TypeOf(name) \in Accepts[phrase]
  PROVE  name \in Names
<1>1. Accepts[phrase] \subseteq Types
  BY DEF Accepts, Types
<1> QED
  BY <1>1 DEF TypeOf, Types

\* Every phrase of a statement that codegen refers to is one that is checked.
LEMMA ReferencesDeclared ==
  ASSUME NEW s \in Statements, PhrasesOk(s), s.kind \notin NotChecked
  PROVE  References(s) \ Sent(s) \subseteq Names
<1>1. ASSUME NEW p \in DOMAIN s.names \cap WrittenPhrases
      PROVE  s.names[p] \in Names
  <2>1. p # "read"
    BY PhrasesAssumption DEF NotChecked
  <2>2. p \in DOMAIN Accepts
    BY <2>1 DEF WrittenPhrases, Accepts
  <2> QED
    BY <2>2, AcceptedIsDeclared DEF PhrasesOk
<1>2. ASSUME NEW p \in DOMAIN s.exprs
      PROVE  \/ NamesIn[s.exprs[p]] \subseteq Names
             \/ p = "sending" /\ NamesIn[s.exprs[p]] = Sent(s)
  <2>1. CASE p \notin Unchecked(s.kind)
    BY <2>1 DEF PhrasesOk, ExprOk
  <2>2. CASE p \in Unchecked(s.kind)
    <3>1. p = "sending" \/ (p = "from" /\ s.kind = "move")
      BY <2>2 DEF Unchecked
    <3>2. CASE p = "sending"
      BY <3>2 DEF Sent
    <3>3. CASE p = "from" /\ s.kind = "move"
      BY <3>3 DEF PhrasesOk, MoveOk
    <3> QED
      BY <3>1, <3>2, <3>3
  <2> QED
    BY <2>1, <2>2
<1>3. ASSUME NEW p \in DOMAIN s.exprs
      PROVE  /\ Loaded[s.exprs[p]] \ Sent(s) \subseteq Names
             /\ Pointed(s.exprs[p]) \ Sent(s) \subseteq Names
  <2>1. s.exprs[p] \in Expressions
    BY TreesAssumption
  <2>2. Loaded[s.exprs[p]] \subseteq NamesIn[s.exprs[p]] /\ Pointed(s.exprs[p]) \subseteq NamesIn[s.exprs[p]]
    BY <2>1, LoadedNames
  <2>3. NamesIn[s.exprs[p]] \subseteq Names \/ NamesIn[s.exprs[p]] = Sent(s)
    BY <1>2
  <2> QED
    BY <2>2, <2>3
<1> SUFFICES ASSUME NEW x \in References(s), x \notin Sent(s)
             PROVE  x \in Names
  OBVIOUS
<1>4. \/ \E p \in DOMAIN s.names \cap WrittenPhrases : x = s.names[p]
      \/ \E p \in DOMAIN s.exprs : x \in Loaded[s.exprs[p]] \/ x \in Pointed(s.exprs[p])
  <2> DEFINE Written == {s.names[p] : p \in DOMAIN s.names \cap WrittenPhrases}
             Computed == UNION {Loaded[s.exprs[p]] : p \in DOMAIN s.exprs \cap LoadedPhrases}
             Passed == UNION {Pointed(s.exprs[p]) : p \in DOMAIN s.exprs \cap PointedPhrases}
             Compared == UNION {IF StringEvaluate(s) THEN Pointed(s.exprs[p]) ELSE Loaded[s.exprs[p]] :
                                   p \in DOMAIN s.exprs \cap {"subject", "when"}}
  <2>1. References(s) = IF Empty(s) THEN {} ELSE Written \cup Computed \cup Passed \cup Compared
    BY Zenon DEF References
  <2>2. CASE x \in Written
    BY <2>2, Zenon
  <2>3. CASE x \in Computed
    BY <2>3, Zenon
  <2>4. CASE x \in Passed
    BY <2>4, Zenon
  <2>5. CASE x \in Compared
    <3>1. PICK p \in DOMAIN s.exprs \cap {"subject", "when"} :
             x \in (IF StringEvaluate(s) THEN Pointed(s.exprs[p]) ELSE Loaded[s.exprs[p]])
      BY <2>5, Zenon
    <3>2. x \in Loaded[s.exprs[p]] \/ x \in Pointed(s.exprs[p])
      BY <3>1, Zenon
    <3> QED
      BY <3>2, Zenon
  <2> HIDE DEF Written, Computed, Passed, Compared
  <2>6. x \in Written \cup Computed \cup Passed \cup Compared
    BY <2>1
  <2> QED
    BY <2>2, <2>3, <2>4, <2>5, <2>6
<1> QED
  BY <1>1, <1>3, <1>4

\* All statements that the checker comes to are as it wants them.
LEMMA VisitedAreChecked ==
  \A s \in Statements : StatementOk[s] =>
     \A t \in Visited[s] : t \in Statements /\ PhrasesOk(t) /\ t.kind \notin NotChecked
<1> DEFINE Good(t) == t \in Statements /\ PhrasesOk(t) /\ t.kind \notin NotChecked
           S == {s \in Statements : StatementOk[s] => \A t \in Visited[s] : Good(t)}
<1>1. ASSUME NEW s \in Statements, \A y \in Statements : Deep[y] < Deep[s] => y \in S
      PROVE  s \in S
  <2> SUFFICES ASSUME StatementOk[s], NEW t \in Visited[s]
               PROVE  Good(t)
    OBVIOUS
  <2>1. CheckStatement(s, StatementOk)
    BY StatementOkDefined, Zenon
  <2>2. Visited[s] = VisitedFrom(s, Visited)
    BY VisitedDefined
  <2>3. s.kind \notin NotChecked
    BY <2>2 DEF VisitedFrom, NotChecked
  <2>4. PhrasesOk(s) /\ \A u \in Nested(s) : StatementOk[u]
    BY <2>1, <2>3, Zenon DEF CheckStatement, NotChecked
  <2>5. t = s \/ \E u \in Nested(s) : t \in Visited[u]
    BY <2>2, <2>3 DEF VisitedFrom, NotChecked
  <2>6. CASE t = s
    BY <2>3, <2>4, <2>6
  <2>7. ASSUME NEW u \in Nested(s), t \in Visited[u]
        PROVE  Good(t)
    <3>1. u \in Statements /\ Deep[u] < Deep[s]
      BY NestedAreLower
    <3>2. u \in S
      BY <1>1, <3>1
    <3> HIDE DEF Good
    <3> QED
      BY <2>4, <2>7, <3>2, Zenon
  <2> QED
    BY <2>5, <2>6, <2>7
<1> HIDE DEF S
<1>2. Statements \subseteq S
  BY <1>1, Heights, TreeInduction
<1> QED
  BY <1>2 DEF S

LEMMA CheckedResolves ==
  ASSUME program \in Seq(Statements), Check(program)
  PROVE  \A i \in DOMAIN program : \A s \in Visited[program[i]] :
            References(s) \ Sent(s) \subseteq Names
<1> SUFFICES ASSUME NEW i \in DOMAIN program, NEW s \in Visited[program[i]]
             PROVE  References(s) \ Sent(s) \subseteq Names
  OBVIOUS
<1>1. program[i] \in Statements
  OBVIOUS
<1>2. StatementOk[program[i]]
  BY DEF Check
<1>3. s \in Statements /\ PhrasesOk(s) /\ s.kind \notin NotChecked
  BY <1>1, <1>2, VisitedAreChecked, Zenon
<1> QED
  BY <1>3, ReferencesDeclared

----------------------------------------------------------------------------
(* What is linked.                                                          *)

\* Statements that call nothing of the runtime, or only the comparison that
\* main.go overlooks.
Quiet == {s \in Statements : s.kind \notin HttpVerbs \cup {"string", "unstring"} /\ ~ComparesLiteral(s)}

LEMMA LiteralsAreFound ==
  ASSUME NEW s \in Statements, ComparesLiteral(s)
  PROVE  UsesComparison[s]
<1>1. CASE /\ s.kind = "if" /\ s.exprs.condition.op = "="
           /\ "STRING" \in {s.exprs.condition.left.op, s.exprs.condition.right.op}
  <2>1. s.exprs.condition \in Expressions
    BY <1>1, TreesAssumption, PhrasesAssumption
  <2>2. IsStringField(s.exprs.condition.left) \/ IsStringField(s.exprs.condition.right)
    BY <1>1 DEF IsStringField
  <2>3. "=" \notin Leaves
    BY DEF Leaves, Operands
  <2>4. ExprUsesComparison[s.exprs.condition]
    BY <1>1, <2>1, <2>2, <2>3, ExprUsesComparisonDefined, Zenon DEF ComparisonIn
  <2> QED
    BY <1>1, <2>4, UsesComparisonDefined, Zenon DEF ComparesInLists, Compares
<1>2. CASE StringEvaluate(s) /\ s.exprs.when.op = "STRING"
  BY <1>2, UsesComparisonDefined, Zenon DEF ComparesInLists, Compares, StringEvaluate, IsStringField
<1> QED
  BY <1>1, <1>2, Zenon DEF ComparesLiteral

\* No walk of main.go finds anything in s.
Overlooked(s) == ~UsesHttp[s] /\ ~UsesString[s] /\ ~UsesComparison[s]

LEMMA OverlookedNested ==
  ASSUME NEW s \in Statements, Overlooked(s), NEW t \in Nested(s)
  PROVE  Overlooked(t)
<1>1. s.kind \notin HttpVerbs
  BY UsesHttpDefined, Zenon DEF Overlooked, HttpIn
<1>2. s.lists # <<>>
  BY DEF Nested
<1>3. s.kind \in WithLists
  BY <1>1, <1>2, PhrasesAssumption
<1>4. ~UsesHttp[t]
  BY <1>3, UsesHttpDefined, Zenon DEF Overlooked, HttpIn
<1>5. ~UsesString[t]
  BY <1>3, UsesStringDefined, Zenon DEF Overlooked, StringIn
<1>6. ~UsesComparison[t]
  BY <1>3, UsesComparisonDefined, Zenon DEF Overlooked, ComparesInLists
<1> QED
  BY <1>4, <1>5, <1>6 DEF Overlooked

LEMMA OverlookedIsQuiet ==
  ASSUME NEW s \in Statements, Overlooked(s)
  PROVE  s \in Quiet
<1>1. s.kind \notin HttpVerbs
  BY UsesHttpDefined, Zenon DEF Overlooked, HttpIn
<1>2. s.kind \notin {"string", "unstring"}
  BY UsesStringDefined, Zenon DEF Overlooked, StringIn
<1>3. ~ComparesLiteral(s)
  BY LiteralsAreFound DEF Overlooked
<1> QED
  BY <1>1, <1>2, <1>3 DEF Quiet

\* The walks come to every statement that codegen generates code for.
LEMMA OverlookedFlat ==
  \A s \in Statements : Overlooked(s) => Flattened[s] \in Seq(Quiet)
<1> DEFINE S == {s \in Statements : Overlooked(s) => Flattened[s] \in Seq(Quiet)}
<1>1. ASSUME NEW s \in Statements, \A y \in Statements : Deep[y] < Deep[s] => y \in S
      PROVE  s \in S
  <2> SUFFICES ASSUME Overlooked(s)
               PROVE  Flattened[s] \in Seq(Quiet)
    OBVIOUS
  <2>1. \A t \in Nested(s) : Flattened[t] \in Seq(Quiet)
    <3> TAKE t \in Nested(s)
    <3>1. t \in S
      BY <1>1, NestedAreLower
    <3> QED
      BY <3>1, OverlookedNested
  <2>2. FlattenedFrom(s, Flattened) \in Seq(Quiet)
    BY <2>1, OverlookedIsQuiet, FlattenedOf
  <2> QED
    BY <2>2, FlattenedDefined
<1> HIDE DEF S
<1>2. Statements \subseteq S
  BY <1>1, Heights, TreeInduction
<1> QED
  BY <1>2 DEF S

\* A program with which the runtime is not linked.
LEMMA NotLinkedIsQuiet ==
  ASSUME program \in Seq(Statements), ~NeedsRuntime(program)
  PROVE  \A i \in DOMAIN AllStatements(program) : AllStatements(program)[i] \in Quiet
<1> DEFINE pieces == [i \in DOMAIN program |-> Flattened[program[i]]]
<1>1. ASSUME NEW i \in DOMAIN program
      PROVE  Flattened[program[i]] \in Seq(Quiet)
  <2>1. program[i] \in Statements
    OBVIOUS
  <2>2. Overlooked(program[i])
    BY Zenon DEF NeedsRuntime, Overlooked
  <2> QED
    BY <2>1, <2>2, OverlookedFlat
<1>2. DOMAIN program = 1..Len(program) /\ Len(program) \in Nat
  OBVIOUS
<1>3. pieces \in Seq(Seq(Quiet))
  BY <1>1, <1>2
<1>4. AllStatements(program) = FlattenSeq(pieces)
  BY Zenon DEF AllStatements
<1> HIDE DEF pieces
<1>5. AllStatements(program) \in Seq(Quiet)
  BY <1>3, <1>4, FlattenedType
<1> HIDE DEF Quiet
<1> QED
  BY <1>5

LEMMA QuietCalls ==
  ASSUME NEW s \in Quiet, NEW t
  PROVE  RuntimeCalls(s, t) \subseteq {"picx_eq"} /\ ~ComparesLiteral(s)
<1>1. s.kind \notin HttpVerbs /\ s.kind \notin {"string", "unstring"} /\ ~ComparesLiteral(s)
  BY DEF Quiet
<1> QED
  BY <1>1 DEF RuntimeCalls

----------------------------------------------------------------------------
(* The phases.                                                              *)

\* What the checker and the linker look at, apart from the program, are the
\* items and how they are arranged.
LEMMA StatementOkKept ==
  ASSUME items' = items, parent' = parent
  PROVE  StatementOk' = StatementOk
  BY SMT DEF StatementOk, CheckStatement, PhrasesOk, HttpOk, MoveOk, ExprOk, ArithmeticOk, ExprSize,
    ExprType, TypeOf, Names, Declared, ItemType, ItemSize, Symbol, InRecord, Children, Level

LEMMA CheckKept ==
  ASSUME items' = items, parent' = parent, program' = program, Check(program)
  PROVE  Check(program)'
<1>1. StatementOk' = StatementOk
  BY StatementOkKept
<1>2. Duplicates' = Duplicates
  BY SMT DEF Duplicates, Declared, InRecord, Level
<1> QED
  BY <1>1, <1>2 DEF Check

LEMMA NeedsRuntimeKept ==
  ASSUME items' = items, parent' = parent, program' = program, NeedsRuntime(program)'
  PROVE  NeedsRuntime(program)
<1>1. UsesComparison' = UsesComparison
  BY SMT DEF UsesComparison, ComparesInLists, Compares, ExprUsesComparison, IsStringField, Picture,
    Names, Declared, Symbol, InRecord, Level, Records
<1> QED
  BY <1>1 DEF NeedsRuntime

ProgramInv == program \in Seq(Statements)
CheckedInv == Accepted => Check(program)
LinkedInv == phase = "not linked" /\ target = "hosted" => ~NeedsRuntime(program)

BuildInv == ProgramInv /\ CheckedInv /\ LinkedInv

\* Before the check, and when it fails.
LEMMA NotAccepted ==
  ASSUME phase' \in {"lex", "items", "hierarchy", "parsed", "rejected"}, program' \in Seq(Statements)
  PROVE  BuildInv'
  BY DEF BuildInv, ProgramInv, CheckedInv, LinkedInv, Accepted, Parsed1

LEMMA BuildInvStep ==
  ASSUME BuildInv, [Next]_compilerVars
  PROVE  BuildInv'
<1>1. CASE Tokenize
  BY <1>1, NotAccepted DEF Tokenize, BuildInv, ProgramInv
<1>2. CASE ParseItems
  BY <1>2, NotAccepted DEF ParseItems, BuildInv, ProgramInv
<1>3. CASE BuildHierarchy
  BY <1>3, NotAccepted DEF BuildHierarchy, BuildInv, ProgramInv
<1>4. CASE ParseProcedure
  BY <1>4, NotAccepted DEF ParseProcedure
<1>5. CASE CheckTypes
  <2>1. items' = items /\ parent' = parent /\ program' = program
    BY <1>5 DEF CheckTypes, hierarchyVars
  <2>2. CASE Check(program)
    BY <1>5, <2>1, <2>2, CheckKept DEF CheckTypes, BuildInv, ProgramInv, CheckedInv, LinkedInv
  <2>3. CASE ~Check(program)
    BY <1>5, <2>1, <2>3, NotAccepted DEF CheckTypes, BuildInv, ProgramInv
  <2> QED
    BY <2>2, <2>3
<1>6. CASE Generate
  <2>1. items' = items /\ parent' = parent /\ program' = program /\ phase' # "not linked"
    BY <1>6 DEF Generate, hierarchyVars
  <2>2. Check(program)
    BY <1>6 DEF Generate, BuildInv, CheckedInv, Accepted, Parsed1
  <2>3. Check(program)'
    BY <2>1, <2>2, CheckKept
  <2> QED
    BY <2>1, <2>3 DEF BuildInv, ProgramInv, CheckedInv, LinkedInv
<1>7. CASE Link
  <2>1. items' = items /\ parent' = parent /\ program' = program /\ target' = target
    BY <1>7 DEF Link, hierarchyVars
  <2>2. Check(program)
    BY <1>7 DEF Link, BuildInv, CheckedInv, Accepted, Parsed1
  <2>3. Check(program)'
    BY <2>1, <2>2, CheckKept
  <2>4. phase' = "not linked" /\ target = "hosted" => ~NeedsRuntime(program)
    BY <1>7 DEF Link, Links
  <2>5. NeedsRuntime(program)' => NeedsRuntime(program)
    BY <2>1, NeedsRuntimeKept
  <2> QED
    BY <2>1, <2>3, <2>4, <2>5 DEF BuildInv, ProgramInv, CheckedInv, LinkedInv
<1>8. CASE UNCHANGED compilerVars
  <2>1. /\ items' = items /\ parent' = parent /\ program' = program
        /\ phase' = phase /\ target' = target
    BY <1>8 DEF compilerVars, hierarchyVars
  <2>2. Check(program) => Check(program)'
    BY <2>1, CheckKept
  <2>3. NeedsRuntime(program)' => NeedsRuntime(program)
    BY <2>1, NeedsRuntimeKept
  <2> QED
    BY <2>1, <2>2, <2>3 DEF BuildInv, ProgramInv, CheckedInv, LinkedInv, Accepted, Parsed1
<1> QED
  BY <1>1, <1>2, <1>3, <1>4, <1>5, <1>6, <1>7, <1>8 DEF Next

LEMMA BuildInvHolds == Spec => []BuildInv
<1>1. Init => BuildInv
  <2> SUFFICES ASSUME Init PROVE BuildInv
    OBVIOUS
  <2>1. program \in Seq(Statements)
    BY DEF Init
  <2> QED
    BY <2>1 DEF Init, BuildInv, ProgramInv, CheckedInv, LinkedInv, Accepted, Parsed1
<1> QED
  BY <1>1, BuildInvStep, PTL DEF Spec

\* The code of an accepted program refers to declared items only, whatever its
\* statements are and however they are nested.
THEOREM AcceptedResolvesHolds == Spec => []AcceptedResolves
<1>1. BuildInv => AcceptedResolves
  BY CheckedResolves, Zenon DEF BuildInv, ProgramInv, CheckedInv, AcceptedResolves
<1> QED
  BY <1>1, BuildInvHolds, PTL

\* What the linker misses is the comparison of strings at most, and that of no
\* literal of an IF or an EVALUATE.
THEOREM CallsAreLinkedHolds == Spec => []CallsAreLinked
<1>1. BuildInv => CallsAreLinked
  <2> SUFFICES ASSUME BuildInv, phase = "not linked", target = "hosted",
                      NEW i \in DOMAIN AllStatements(program)
               PROVE  /\ RuntimeCalls(AllStatements(program)[i], target) \subseteq {"picx_eq"}
                      /\ ~ComparesLiteral(AllStatements(program)[i])
    BY DEF CallsAreLinked
  <2>1. AllStatements(program)[i] \in Quiet
    BY NotLinkedIsQuiet DEF BuildInv, ProgramInv, LinkedInv
  <2> QED
    BY <2>1, QuietCalls
<1> QED
  BY <1>1, BuildInvHolds, PTL

----------------------------------------------------------------------------
(* The lexer and the DATA DIVISION.                                         *)

\* The parser is at a token, and has not taken fewer of them than it has items.
ItemsInv ==
    /\ at \in Nat \ {0} /\ inItem \in BOOLEAN /\ dataErrs \in 0..(2 * at)
    /\ Len(items) < at /\ (inItem => Len(items) > 0)
    /\ phase = "lex" => at = 1
    /\ phase # "lex" => mode = "done" /\ at <= Len(tokens)

ArrangedInv == HierarchyInv /\ (phase \in {"lex", "items"} => StartHierarchy)

FrontInv == LexInv /\ CutInv /\ ArrangedInv /\ ItemsInv

\* The parser ends at EOF.
Ended == tokens \in Seq(Token) /\ tokens # <<>> /\ Type(Len(tokens)) = "EOF"

LEMMA DoneIsEnded ==
  ASSUME LexInv, CutInv, mode = "done"
  PROVE  Ended
<1>1. tokens \in Seq(Token)
  BY DEF LexInv, TokensInv
<1>2. tokens # <<>> /\ tokens[Len(tokens)].type = "EOF"
  BY DEF CutInv, Cutting, CutUp, Reading
<1> QED
  BY <1>1, <1>2 DEF Ended, Type

LEMMA NotAtEnd ==
  ASSUME Ended, NEW i \in 1..Len(tokens), Type(i) # "EOF"
  PROVE  i + 1 \in 1..Len(tokens)
  BY DEF Ended

LEMMA TakenOne ==
  ASSUME Ended, NEW i \in 1..Len(tokens), NEW type, type # "EOF"
  PROVE  /\ Taken(i, type) \in {0, 1}
         /\ i + Taken(i, type) \in i..Len(tokens)
<1>1. CASE Type(i) = type
  BY <1>1, NotAtEnd DEF Taken
<1>2. CASE Type(i) # type
  BY <1>2 DEF Taken
<1> QED
  BY <1>1, <1>2

\* A sequence is one of its own elements.
LEMMA Elements ==
  ASSUME NEW S, NEW s \in Seq(S)
  PROVE  s \in Seq({s[i] : i \in DOMAIN s})
  OBVIOUS

LEMMA LeveledAppend ==
  ASSUME NEW list, Leveled(list), NEW e, e.level \in Int
  PROVE  Leveled(Append(list, e)) /\ Len(Append(list, e)) = Len(list) + 1
<1> DEFINE S == {list[i] : i \in DOMAIN list}
           T == S \cup {e}
           all == Append(list, e)
<1>1. list \in Seq(S) /\ \A i \in DOMAIN list : list[i].level \in Int
  BY DEF Leveled
<1> HIDE DEF S
<1>2. list \in Seq(T) /\ e \in T
  BY <1>1
<1> HIDE DEF T
<1>3. /\ all \in Seq(T) /\ Len(all) = Len(list) + 1
      /\ \A i \in DOMAIN all : (i \in DOMAIN list /\ all[i] = list[i]) \/ all[i] = e
  BY <1>2
<1> HIDE DEF all
<1>4. all \in Seq({all[i] : i \in DOMAIN all})
  BY <1>3, Elements
<1>5. \A i \in DOMAIN all : all[i].level \in Int
  BY <1>1, <1>3
<1> QED
  BY <1>3, <1>4, <1>5 DEF Leveled, all

LEMMA LeveledPicture ==
  ASSUME NEW list, Leveled(list), NEW n \in DOMAIN list, NEW pic
  PROVE  LET changed == [list EXCEPT ![n].pic = pic]
         IN  Leveled(changed) /\ Len(changed) = Len(list)
<1> DEFINE S == {list[i] : i \in DOMAIN list}
           e == [list[n] EXCEPT !.pic = pic]
           T == S \cup {e}
           changed == [list EXCEPT ![n].pic = pic]
<1>1. list \in Seq(S) /\ \A i \in DOMAIN list : list[i].level \in Int
  BY DEF Leveled
<1>2. changed = [list EXCEPT ![n] = e]
  OBVIOUS
<1>3. e.level = list[n].level
  OBVIOUS
<1> HIDE DEF S, e, changed
<1>4. list \in Seq(T) /\ e \in T
  BY <1>1
<1> HIDE DEF T
<1>5. /\ changed \in Seq(T) /\ Len(changed) = Len(list) /\ DOMAIN changed = DOMAIN list
      /\ \A i \in DOMAIN list : changed[i] = list[i] \/ (i = n /\ changed[i] = e)
  BY <1>2, <1>4
<1>6. changed \in Seq({changed[i] : i \in DOMAIN changed})
  BY <1>5, Elements
<1>7. \A i \in DOMAIN changed : changed[i].level \in Int
  BY <1>1, <1>3, <1>5
<1> QED
  BY <1>5, <1>6, <1>7 DEF Leveled, changed

\* Two errors at most for each token.
LEMMA ErrorsBound ==
  ASSUME NEW i \in Nat \ {0}, NEW n \in Nat, NEW j \in i..n,
         NEW errs \in 0..(2 * i), NEW more \in 0..2, more > 0 => j > i
  PROVE  j \in Nat \ {0} /\ errs + more \in 0..(2 * j)
<1>1. i \in Int /\ j \in Int /\ errs \in Nat /\ errs <= 2 * i /\ i <= j
  OBVIOUS
<1>2. 2 * i <= 2 * j /\ (j > i => 2 * i + 2 <= 2 * j)
  BY ONLY <1>1
<1>3. errs + more <= 2 * j
  BY <1>1, <1>2
<1> QED
  BY <1>1, <1>3

\* An item is begun, or none is.
LEMMA ItemBegun ==
  ASSUME Ended, HierarchyInv, StartHierarchy, ItemsInv, phase = "items",
         LevelNumber, UNCHANGED <<lexVars, next, stack, parent>>, UNCHANGED phase
  PROVE  HierarchyInv' /\ StartHierarchy' /\ ItemsInv'
<1>1. at \in 1..Len(tokens) /\ Type(at) # "EOF" /\ Numeral[Literal(at)] \in Int
  BY NumeralAssumption DEF ItemsInv, LevelNumber
<1>2. Leveled(items) /\ Len(items) \in Nat
  BY DEF HierarchyInv, HierarchyTypeOK
<1>3. ASSUME NEW name,
             items' = Append(items, [level |-> Numeral[Literal(at)], name |-> name, pic |-> NoPicture])
      PROVE  Leveled(items') /\ Len(items') = Len(items) + 1
  BY <1>1, <1>2, <1>3, LeveledAppend
<1>4. Leveled(items') /\ Len(items') = Len(items) + 1
  BY <1>3, Zenon DEF LevelNumber
<1>5. StartHierarchy'
  BY DEF StartHierarchy
<1>6. HierarchyInv'
  BY <1>4, <1>5, HierarchyStartNext
<1>7. at + 1 \in 1..Len(tokens)
  BY <1>1, NotAtEnd
<1>8. /\ mode' = mode /\ tokens' = tokens /\ phase' = phase
      /\ \/ at' = at + 2 /\ inItem' = TRUE /\ dataErrs' = dataErrs /\ at + 2 <= Len(tokens)
         \/ at' = at + 1 /\ inItem' = inItem /\ dataErrs' = dataErrs + 1
  <2>1. CASE IsName(at + 1)
    <3>1. at + 1 + 1 \in 1..Len(tokens)
      BY <1>7, <2>1, NotAtEnd DEF IsName
    <3> QED
      BY <1>1, <2>1, <3>1 DEF LevelNumber, lexVars
  <2>2. CASE ~IsName(at + 1)
    BY <2>2 DEF LevelNumber, lexVars
  <2> QED
    BY <2>1, <2>2
<1>9. at' \in Nat \ {0} /\ inItem' \in BOOLEAN /\ dataErrs' \in 0..(2 * at')
  <2>1. at \in Nat \ {0} /\ inItem \in BOOLEAN /\ dataErrs \in 0..(2 * at)
    BY DEF ItemsInv
  <2>2. CASE at' = at + 2 /\ inItem' = TRUE /\ dataErrs' = dataErrs
    <3>1. dataErrs \in 0..(2 * (at + 2))
      BY <2>1
    <3> QED
      BY <2>1, <2>2, <3>1
  <2>3. CASE at' = at + 1 /\ inItem' = inItem /\ dataErrs' = dataErrs + 1
    <3>1. dataErrs + 1 \in 0..(2 * (at + 1))
      BY <2>1
    <3> QED
      BY <2>1, <2>3, <3>1
  <2> QED
    BY <1>8, <2>2, <2>3
<1>10. Len(items') < at' /\ (inItem' => Len(items') > 0)
  BY <1>2, <1>4, <1>7, <1>8 DEF ItemsInv
<1>11. phase' # "lex" /\ mode' = "done" /\ at' <= Len(tokens')
  BY <1>7, <1>8 DEF ItemsInv
<1>12. ItemsInv'
  BY <1>9, <1>10, <1>11 DEF ItemsInv
<1> QED
  BY <1>5, <1>6, <1>12

\* A clause takes tokens that are there, and reports no more than two errors.
LEMMA Forward ==
  ASSUME Ended, ItemsInv, phase # "lex", phase' # "lex", UNCHANGED lexVars,
         at' \in at..Len(tokens), inItem' \in BOOLEAN, Len(items) \in Nat, Len(items') = Len(items),
         inItem' => inItem,
         NEW errs \in 0..2, dataErrs' = dataErrs + errs, errs > 0 => at' > at
  PROVE  ItemsInv'
<1>1. mode' = mode /\ tokens' = tokens
  BY DEF lexVars
<1>2. at \in Nat \ {0} /\ dataErrs \in 0..(2 * at) /\ Len(tokens) \in Nat
  <2>1. tokens \in Seq(Token)
    BY DEF Ended
  <2>2. at \in Nat \ {0} /\ dataErrs \in 0..(2 * at)
    BY Zenon DEF ItemsInv
  <2> QED
    BY ONLY <2>1, <2>2
<1>3. at' \in Nat \ {0} /\ dataErrs' \in 0..(2 * at')
  <2>1. /\ at' \in at..Len(tokens) /\ errs \in 0..2 /\ (errs > 0 => at' > at)
        /\ dataErrs' = dataErrs + errs
    OBVIOUS
  <2> QED
    BY ONLY <1>2, <2>1, ErrorsBound
<1>4. Len(items') < at' /\ (inItem' => Len(items') > 0)
  BY <1>2 DEF ItemsInv
<1>5. phase' # "lex" /\ mode' = "done" /\ at' <= Len(tokens')
  BY <1>1, <1>2 DEF ItemsInv
<1> QED
  BY <1>3, <1>4, <1>5 DEF ItemsInv

LEMMA SameItems ==
  ASSUME HierarchyInv, StartHierarchy, UNCHANGED <<items, next, stack, parent>>
  PROVE  HierarchyInv' /\ StartHierarchy' /\ Len(items') = Len(items)
<1>1. Leveled(items')
  BY DEF HierarchyInv, HierarchyTypeOK
<1>2. StartHierarchy'
  BY DEF StartHierarchy
<1> QED
  BY <1>1, <1>2, HierarchyStartNext

\* Actions that take tokens and leave the list of items alone.
LEMMA ItemGoesOn ==
  ASSUME Ended, HierarchyInv, StartHierarchy, ItemsInv, phase = "items",
         ItemEnd \/ OccursClause \/ ValueClause \/ UnknownClause \/ InvalidLevel,
         UNCHANGED <<lexVars, next, stack, parent>>, phase' # "lex"
  PROVE  HierarchyInv' /\ StartHierarchy' /\ ItemsInv'
<1>1. at \in 1..Len(tokens) /\ inItem \in BOOLEAN /\ Len(tokens) \in Nat /\ dataErrs \in Nat
  BY DEF ItemsInv, Ended
<1>2. items' = items
  BY DEF ItemEnd, OccursClause, ValueClause, UnknownClause, InvalidLevel
<1>3. HierarchyInv' /\ StartHierarchy' /\ Len(items') = Len(items)
  BY <1>2, SameItems
<1>4. Len(items) \in Nat
  BY DEF HierarchyInv, HierarchyTypeOK
<1>5. ASSUME NEW j \in at..Len(tokens), NEW errs \in 0..1, at' = j, dataErrs' = dataErrs + errs,
             errs > 0 => j > at, inItem' \in BOOLEAN, inItem' => inItem
      PROVE  ItemsInv'
  BY <1>1, <1>3, <1>4, <1>5, Forward DEF ItemsInv
<1>6. CASE ItemEnd
  <2>1. Type(at) = "." => at + 1 \in 1..Len(tokens)
    BY <1>1, NotAtEnd
  <2>2. at' = IF Type(at) = "." THEN at + 1 ELSE at
    BY <1>6 DEF ItemEnd
  <2>3. at' \in at..Len(tokens)
    <3>1. at \in Nat /\ at <= Len(tokens) /\ Len(tokens) \in Nat
      BY ONLY <1>1
    <3>2. at' = at \/ (at' = at + 1 /\ at + 1 <= Len(tokens))
      BY <2>1, <2>2
    <3> QED
      BY ONLY <3>1, <3>2
  <2>4. dataErrs' = dataErrs + 0 /\ inItem' = FALSE
    BY <1>1, <1>6 DEF ItemEnd
  <2>5. 0 \in 0..1 /\ ~(0 > 0)
    OBVIOUS
  <2>6. inItem' \in BOOLEAN /\ (inItem' => inItem)
    BY <2>4, Zenon
  <2> QED
    BY <1>3, <1>5, <2>3, <2>4, <2>5, <2>6, Zenon
<1>7. CASE OccursClause
  <2>1. at + 1 \in 1..Len(tokens)
    BY <1>1, <1>7, NotAtEnd DEF OccursClause
  <2>2. at + 1 + Taken(at + 1, "INTEGER") \in (at + 1)..Len(tokens)
    BY <2>1, TakenOne
  <2>3. at' \in (at + 1 + Taken(at + 1, "INTEGER"))..Len(tokens)
    BY <1>1, <1>7, <2>1, <2>2, TakenOne DEF OccursClause
  <2>4. at' \in at..Len(tokens)
    BY <1>1, <2>2, <2>3
  <2> QED
    BY <1>1, <1>3, <1>5, <1>7, <2>4 DEF OccursClause
<1>8. CASE ValueClause
  <2>1. at + 1 \in 1..Len(tokens)
    BY <1>1, <1>8, NotAtEnd DEF ValueClause
  <2> DEFINE value == Taken(at + 1, "STRING") + Taken(at + 1, "INTEGER")
  <2>2. value \in {0, 1} /\ at + 1 + value \in (at + 1)..Len(tokens)
    <3>1. Taken(at + 1, "STRING") = 0 \/ Taken(at + 1, "INTEGER") = 0
      BY DEF Taken
    <3> QED
      BY <1>1, <2>1, <3>1, TakenOne
  <2>3. at' = at + 1 + value /\ dataErrs' = dataErrs + (1 - value) /\ inItem' = inItem
    BY <1>1, <1>8, <2>2 DEF ValueClause
  <2> HIDE DEF value
  <2>4. at' \in at..Len(tokens) /\ 1 - value \in 0..1 /\ at' > at
    BY <1>1, <2>2, <2>3
  <2> QED
    BY <1>1, <1>3, <1>5, <2>3, <2>4
<1>9. CASE UnknownClause
  <2>1. at + 1 \in 1..Len(tokens)
    BY <1>1, <1>9, NotAtEnd DEF UnknownClause
  <2> QED
    BY <1>1, <1>3, <1>5, <1>9, <2>1 DEF UnknownClause
<1>10. CASE InvalidLevel
  <2>1. at + 1 \in 1..Len(tokens)
    BY <1>1, <1>10, NotAtEnd DEF InvalidLevel
  <2> QED
    BY <1>1, <1>3, <1>5, <1>10, <2>1 DEF InvalidLevel
<1> QED
  BY <1>3, <1>6, <1>7, <1>8, <1>9, <1>10

\* The picture of the last item is set.
LEMMA PictureSet ==
  ASSUME HierarchyInv, StartHierarchy, Len(items) > 0, NEW pic,
         items' = [items EXCEPT ![Len(items)].pic = pic], UNCHANGED <<next, stack, parent>>
  PROVE  HierarchyInv' /\ StartHierarchy' /\ Len(items') = Len(items)
<1>1. Leveled(items) /\ Len(items) \in DOMAIN items
  BY DEF HierarchyInv, HierarchyTypeOK, Leveled
<1>2. Leveled(items') /\ Len(items') = Len(items)
  BY <1>1, LeveledPicture
<1>3. StartHierarchy'
  BY DEF StartHierarchy
<1> QED
  BY <1>2, <1>3, HierarchyStartNext

LEMMA ItemHasPicture ==
  ASSUME Ended, HierarchyInv, StartHierarchy, ItemsInv, phase = "items",
         PictureClause \/ NoPictureCharacter,
         UNCHANGED <<lexVars, next, stack, parent>>, phase' # "lex"
  PROVE  HierarchyInv' /\ StartHierarchy' /\ ItemsInv'
<1>1. at \in 1..Len(tokens) /\ inItem = TRUE /\ Len(tokens) \in Nat /\ dataErrs \in Nat
      /\ Len(items) > 0 /\ Len(items) \in Nat /\ inItem' = inItem /\ Type(at) = "PIC"
  BY DEF ItemsInv, Ended, PictureClause, NoPictureCharacter, HierarchyInv, HierarchyTypeOK
<1>2. \E pic : items' = [items EXCEPT ![Len(items)].pic = pic]
  BY Zenon DEF PictureClause, NoPictureCharacter
<1>3. HierarchyInv' /\ StartHierarchy' /\ Len(items') = Len(items)
  BY <1>1, <1>2, PictureSet
<1>4. at + 1 \in 1..Len(tokens)
  BY <1>1, NotAtEnd
<1>5. CASE NoPictureCharacter
  BY <1>1, <1>3, <1>4, <1>5, Forward DEF NoPictureCharacter
<1>6. CASE PictureClause
  <2> DEFINE sized == Type(at + 2) = "("
             number == Taken(at + 3, "INTEGER")
             close == Taken(at + 3 + number, ")")
             end == IF sized THEN at + 3 + number + close ELSE at + 2
  <2>1. at + 2 \in 1..Len(tokens)
    <3>1. Type(at + 1) # "EOF"
      BY <1>6 DEF PictureClause, PictureKind
    <3>2. at + 1 + 1 \in 1..Len(tokens)
      BY <1>4, <3>1, NotAtEnd
    <3> QED
      BY <1>1, <3>2
  <2>2. sized => /\ number \in {0, 1} /\ close \in {0, 1}
                 /\ at + 3 + number + close \in (at + 3)..Len(tokens)
    <3> SUFFICES ASSUME sized
                 PROVE  /\ number \in {0, 1} /\ close \in {0, 1}
                        /\ at + 3 + number + close \in (at + 3)..Len(tokens)
      OBVIOUS
    <3>1. at + 2 + 1 \in 1..Len(tokens)
      BY <2>1, NotAtEnd
    <3>2. at + 3 \in 1..Len(tokens)
      BY <1>1, <3>1
    <3>3. number \in {0, 1} /\ at + 3 + number \in (at + 3)..Len(tokens)
      BY <3>2, TakenOne
    <3> HIDE DEF number
    <3>4. at + 3 + number \in 1..Len(tokens)
      BY <1>1, <3>3
    <3>5. close \in {0, 1} /\ at + 3 + number + close \in (at + 3 + number)..Len(tokens)
      BY <3>4, TakenOne
    <3> HIDE DEF close
    <3> QED
      BY <1>1, <3>3, <3>5
  <2>3. /\ at' = end + Taken(end, "COMP")
        /\ dataErrs' = IF sized THEN dataErrs + 2 - number - close ELSE dataErrs
    BY <1>6, Zenon DEF PictureClause
  <2> HIDE DEF number, close, sized
  <2>4. end \in (at + 2)..Len(tokens) /\ end \in 1..Len(tokens)
    BY <1>1, <2>1, <2>2
  <2> HIDE DEF end
  <2>5. end + Taken(end, "COMP") \in end..Len(tokens)
    BY <2>4, TakenOne
  <2>6. at' \in (at + 2)..Len(tokens)
    BY <1>1, <2>3, <2>4, <2>5
  <2>7. PICK errs \in 0..2 : dataErrs' = dataErrs + errs
    <3>1. CASE sized
      <4>1. 2 - number - close \in 0..2
        BY <2>2, <3>1
      <4>2. dataErrs' = dataErrs + (2 - number - close)
        BY <1>1, <2>2, <2>3, <3>1
      <4> QED
        BY <4>1, <4>2
    <3>2. CASE ~sized
      BY <1>1, <2>3, <3>2
    <3> QED
      BY <3>1, <3>2
  <2>8. at' \in at..Len(tokens) /\ at' > at
    <3>1. at \in Nat /\ Len(tokens) \in Nat
      BY ONLY <1>1
    <3> QED
      BY ONLY <2>6, <3>1
  <2>9. inItem' \in BOOLEAN /\ (inItem' => inItem)
    BY <1>1
  <2> HIDE DEF end
  <2> QED
    BY <1>1, <1>3, <2>7, <2>8, <2>9, Forward
<1> QED
  BY <1>3, <1>5, <1>6

----------------------------------------------------------------------------
(* Expressions end behind the token they begin with, and in front of EOF.   *)
(* The recursion of the parser is solved for the tokens that are nearest to *)
(* the end first, then for those before them.                               *)

Places == 1..Len(tokens)
Below(n) == {x \in Levels \X Places : 4 * (Len(tokens) - x[2]) + 4 - x[1] < n}

\* What is read from x, when f tells what is read behind it.
ParseOf(x, f) ==
    IF x[1] > Len(OperatorsOf) THEN Primary(x[2], f)
    ELSE Chain(x[1], f[<<x[1] + 1, x[2]>>], f)

\* f tells what is read from the places in S.
Solved(f, S) == \A x \in S : f[x] = ParseOf(x, f)

\* What is read from the places in S ends behind them.
Ahead(f, S) == \A x \in S : f[x].next \in x[2]..Len(tokens)

Same(f, g, S) == \A x \in S : f[x] = g[x]

\* The loop of a level, up to n rounds.
IsLoop(c, n, level, first, parsed) ==
    c = [k \in 0..n |-> IF k = 0 THEN first ELSE Round(level, c[k - 1], parsed)]

LEMMA LoopExists ==
  ASSUME NEW n \in Nat, NEW level, NEW first, NEW parsed
  PROVE  \E c : IsLoop(c, n, level, first, parsed)
<1> DEFINE S == {k \in Nat : \E c : IsLoop(c, k, level, first, parsed)}
<1>1. 0 \in S
  <2> DEFINE c == [k \in 0..0 |-> first]
  <2>1. c = [k \in 0..0 |-> IF k = 0 THEN first ELSE Round(level, c[k - 1], parsed)]
    <3>1. \A k \in 0..0 : k = 0
      OBVIOUS
    <3> QED
      BY <3>1, Zenon
  <2>2. IsLoop(c, 0, level, first, parsed)
    BY <2>1, Zenon DEF IsLoop
  <2> QED
    BY <2>2
<1>2. ASSUME NEW k \in Nat, k \in S
      PROVE  k + 1 \in S
  <2>1. PICK c : IsLoop(c, k, level, first, parsed)
    BY <1>2
  <2> DEFINE d == [m \in 0..(k + 1) |-> IF m = 0 THEN first ELSE Round(level, c[m - 1], parsed)]
  <2>2. \A m \in 0..k : d[m] = c[m]
    <3>1. \A m \in 0..k : m \in 0..(k + 1)
      OBVIOUS
    <3>2. \A m \in 0..k : c[m] = IF m = 0 THEN first ELSE Round(level, c[m - 1], parsed)
      BY <2>1, Zenon DEF IsLoop
    <3> QED
      BY <3>1, <3>2, Zenon
  <2>3. \A m \in 0..(k + 1) : m # 0 => m - 1 \in 0..k
    OBVIOUS
  <2>4. d = [m \in 0..(k + 1) |-> IF m = 0 THEN first ELSE Round(level, d[m - 1], parsed)]
    BY <2>2, <2>3, Zenon
  <2>5. IsLoop(d, k + 1, level, first, parsed)
    BY <2>4, Zenon DEF IsLoop
  <2> QED
    BY <2>5
<1> HIDE DEF S
<1>3. Nat \subseteq S
  BY <1>1, <1>2, Induction
<1> QED
  BY <1>3 DEF S

LEMMA ChainOf ==
  ASSUME NEW level, NEW first, NEW parsed, first.next \in 0..Len(tokens), Len(tokens) \in Nat
  PROVE  \E c : /\ IsLoop(c, Len(tokens) - first.next, level, first, parsed)
                /\ Chain(level, first, parsed) = c[Len(tokens) - first.next]
<1> DEFINE rounds == Len(tokens) - first.next
           loop == CHOOSE c : c = [k \in 0..rounds |->
                       IF k = 0 THEN first ELSE Round(level, c[k - 1], parsed)]
<1>1. rounds \in Nat
  OBVIOUS
<1>2. \E c : c = [k \in 0..rounds |-> IF k = 0 THEN first ELSE Round(level, c[k - 1], parsed)]
  <2>1. \E c : IsLoop(c, rounds, level, first, parsed)
    BY <1>1, LoopExists
  <2> QED
    BY <2>1, Zenon DEF IsLoop
<1>3. IsLoop(loop, rounds, level, first, parsed)
  BY <1>2, Zenon DEF IsLoop
<1>4. Chain(level, first, parsed) = loop[rounds]
  BY Zenon DEF Chain
<1> QED
  BY <1>3, <1>4, Zenon

\* No token that ends an expression is an operator.
LEMMA NoOperator == \A level \in 1..3 : "EOF" \notin OperatorsOf[level]
  BY DEF OperatorsOf

\* A round depends on what is read behind the operator only, and goes ahead.
LEMMA RoundAhead ==
  ASSUME Ended, NEW level \in 1..3, NEW i \in Places, NEW left, left.next \in i..Len(tokens),
         NEW f, NEW g,
         \A j \in Places : j > i => /\ f[<<level + 1, j>>] = g[<<level + 1, j>>]
                                    /\ f[<<level + 1, j>>].next \in j..Len(tokens)
  PROVE  /\ Round(level, left, f) = Round(level, left, g)
         /\ Round(level, left, f).next \in i..Len(tokens)
<1>0. Len(tokens) \in Nat
  BY DEF Ended
<1>1. CASE Type(left.next) \notin OperatorsOf[level]
  BY <1>1 DEF Round
<1>2. CASE Type(left.next) \in OperatorsOf[level]
  <2>1. left.next \in Places
    BY <1>0 DEF Places
  <2>2. Type(left.next) # "EOF"
    BY <1>2, NoOperator, Zenon
  <2>3. left.next + 1 \in Places /\ left.next + 1 > i
    BY <1>0, <2>1, <2>2, NotAtEnd DEF Places
  <2>4. f[<<level + 1, left.next + 1>>] = g[<<level + 1, left.next + 1>>]
    BY <2>3, Zenon
  <2>5. f[<<level + 1, left.next + 1>>].next \in (left.next + 1)..Len(tokens)
    BY <2>3, Zenon
  <2>6. /\ Round(level, left, f) = Joined(left, f[<<level + 1, left.next + 1>>])
        /\ Round(level, left, g) = Joined(left, g[<<level + 1, left.next + 1>>])
    BY <1>2, Zenon DEF Round
  <2>7. Round(level, left, f).next = f[<<level + 1, left.next + 1>>].next
    BY <2>6 DEF Joined
  <2>8. f[<<level + 1, left.next + 1>>].next \in i..Len(tokens)
    BY <1>0, <2>1, <2>3, <2>5 DEF Places
  <2> QED
    BY <2>4, <2>6, <2>7, <2>8
<1> QED
  BY <1>1, <1>2

\* So does the loop.
LEMMA ChainAhead ==
  ASSUME Ended, NEW level \in 1..3, NEW i \in Places, NEW first, first.next \in i..Len(tokens),
         NEW f, NEW g,
         \A j \in Places : j > i => /\ f[<<level + 1, j>>] = g[<<level + 1, j>>]
                                    /\ f[<<level + 1, j>>].next \in j..Len(tokens)
  PROVE  /\ Chain(level, first, f) = Chain(level, first, g)
         /\ Chain(level, first, f).next \in i..Len(tokens)
<1> DEFINE rounds == Len(tokens) - first.next
<1>0. Len(tokens) \in Nat /\ rounds \in Nat /\ first.next \in 0..Len(tokens)
  BY DEF Ended, Places
<1>1. PICK c : IsLoop(c, rounds, level, first, f) /\ Chain(level, first, f) = c[rounds]
  BY <1>0, ChainOf, Zenon
<1>2. PICK d : IsLoop(d, rounds, level, first, g) /\ Chain(level, first, g) = d[rounds]
  BY <1>0, ChainOf, Zenon
<1> HIDE DEF rounds
<1> DEFINE S == {k \in Nat : k <= rounds => c[k] = d[k] /\ c[k].next \in i..Len(tokens)}
<1>3. 0 \in S
  <2>1. 0 \in 0..rounds
    BY <1>0
  <2>2. c[0] = first /\ d[0] = first
    BY <1>1, <1>2, <2>1, Zenon DEF IsLoop
  <2> QED
    BY <2>2
<1>4. ASSUME NEW k \in Nat, k \in S
      PROVE  k + 1 \in S
  <2> SUFFICES ASSUME k + 1 <= rounds
               PROVE  c[k + 1] = d[k + 1] /\ c[k + 1].next \in i..Len(tokens)
    OBVIOUS
  <2>1. c[k] = d[k] /\ c[k].next \in i..Len(tokens)
    BY <1>0, <1>4
  <2>2. k + 1 \in 0..rounds /\ k + 1 # 0 /\ k + 1 - 1 = k
    BY <1>0
  <2>3. c[k + 1] = Round(level, c[k], f) /\ d[k + 1] = Round(level, d[k], g)
    <3>1. \A m \in 0..rounds : m # 0 => /\ c[m] = Round(level, c[m - 1], f)
                                       /\ d[m] = Round(level, d[m - 1], g)
      BY <1>1, <1>2, Zenon DEF IsLoop
    <3>2. /\ c[k + 1] = Round(level, c[k + 1 - 1], f)
          /\ d[k + 1] = Round(level, d[k + 1 - 1], g)
      BY ONLY <2>2, <3>1
    <3> QED
      BY ONLY <2>2, <3>2
  <2>4. /\ Round(level, c[k], f) = Round(level, c[k], g)
        /\ Round(level, c[k], f).next \in i..Len(tokens)
    BY <2>1, RoundAhead
  <2> QED
    BY <2>1, <2>3, <2>4
<1> HIDE DEF S
<1>5. Nat \subseteq S
  BY <1>3, <1>4, Induction
<1>6. c[rounds] = d[rounds] /\ c[rounds].next \in i..Len(tokens)
  BY <1>0, <1>5 DEF S
<1> QED
  BY <1>1, <1>2, <1>6

\* An operand depends on what is read behind the parenthesis only.
LEMMA PrimaryAhead ==
  ASSUME Ended, NEW i \in Places, NEW f, NEW g,
         \A j \in Places : j > i => /\ f[<<1, j>>] = g[<<1, j>>]
                                    /\ f[<<1, j>>].next \in j..Len(tokens)
  PROVE  Primary(i, f) = Primary(i, g) /\ Primary(i, f).next \in i..Len(tokens)
<1>0. Len(tokens) \in Nat
  BY DEF Ended
<1>1. CASE Type(i) \in Operands
  <2>1. Type(i) # "EOF"
    BY <1>1 DEF Operands
  <2>2. i + 1 \in Places
    BY <2>1, NotAtEnd DEF Places
  <2>3. i + 1 \in i..Len(tokens)
    BY <2>2 DEF Places
  <2> QED
    BY <1>1, <2>3 DEF Primary
<1>2. CASE Type(i) \notin Operands /\ Type(i) = "("
  <2>1. i + 1 \in Places /\ i + 1 > i
    BY <1>2, NotAtEnd DEF Places
  <2>2. f[<<1, i + 1>>] = g[<<1, i + 1>>]
    BY <2>1, Zenon
  <2>3. f[<<1, i + 1>>].next \in (i + 1)..Len(tokens)
    BY <2>1, Zenon
  <2> DEFINE inner == f[<<1, i + 1>>]
             close == Taken(inner.next, ")")
  <2>4. inner.next \in Places
    BY <1>0, <2>1, <2>3 DEF Places
  <2>5. inner.next + close \in inner.next..Len(tokens)
    BY <2>4, TakenOne DEF Places
  <2>6. /\ Primary(i, f) = [next |-> inner.next + close, expr |-> inner.expr,
                            errs |-> inner.errs + 1 - close]
        /\ Primary(i, g) = [next |-> inner.next + close, expr |-> inner.expr,
                            errs |-> inner.errs + 1 - close]
    BY <1>2, <2>2, Zenon DEF Primary
  <2> HIDE DEF close, inner
  <2>7. inner.next + close \in i..Len(tokens)
    BY <1>0, <2>3, <2>4, <2>5 DEF Places, inner
  <2> QED
    BY <2>6, <2>7
<1>3. CASE Type(i) \notin Operands /\ Type(i) # "("
  BY <1>3 DEF Primary, Places
<1> QED
  BY <1>1, <1>2, <1>3

\* What is read from a place depends on what is read from those below it only.
LEMMA ParseAhead ==
  ASSUME Ended, NEW n \in Nat, NEW x \in Below(n + 1), NEW f, NEW g,
         Same(f, g, Below(n)), Ahead(f, Below(n))
  PROVE  ParseOf(x, f) = ParseOf(x, g) /\ ParseOf(x, f).next \in x[2]..Len(tokens)
<1> DEFINE level == x[1]
           i == x[2]
<1>0. Len(tokens) \in Nat /\ Len(OperatorsOf) = 3 /\ Levels = 1..4
  BY DEF Ended, OperatorsOf, Levels
<1>1. /\ level \in 1..4 /\ i \in Places /\ i \in 1..Len(tokens)
      /\ 4 * (Len(tokens) - i) + 4 - level <= n
  BY <1>0 DEF Below, Places
<1> HIDE DEF level, i
<1>2. ASSUME NEW l \in 1..4, NEW j \in Places, j > i \/ (j = i /\ l > level)
      PROVE  f[<<l, j>>] = g[<<l, j>>] /\ f[<<l, j>>].next \in j..Len(tokens)
  <2>1. 4 * (Len(tokens) - j) + 4 - l < n
    BY <1>0, <1>1, <1>2 DEF Places
  <2>2. <<l, j>> \in Below(n)
    BY <1>0, <2>1 DEF Below
  <2> QED
    BY <2>2 DEF Same, Ahead
<1>3. CASE level > 3
  <2>1. \A j \in Places : j > i => /\ f[<<1, j>>] = g[<<1, j>>]
                                   /\ f[<<1, j>>].next \in j..Len(tokens)
    BY <1>2
  <2>2. Primary(i, f) = Primary(i, g) /\ Primary(i, f).next \in i..Len(tokens)
    BY <1>1, <2>1, PrimaryAhead
  <2>3. ParseOf(x, f) = Primary(i, f) /\ ParseOf(x, g) = Primary(i, g)
    BY <1>0, <1>3 DEF ParseOf, level, i
  <2> QED
    BY <2>2, <2>3 DEF i
<1>4. CASE ~(level > 3)
  <2>1. level \in 1..3 /\ level + 1 \in 1..4 /\ level + 1 > level
    BY <1>1, <1>4
  <2>2. \A j \in Places : j > i => /\ f[<<level + 1, j>>] = g[<<level + 1, j>>]
                                   /\ f[<<level + 1, j>>].next \in j..Len(tokens)
    BY <1>2, <2>1
  <2>3. /\ f[<<level + 1, i>>] = g[<<level + 1, i>>]
        /\ f[<<level + 1, i>>].next \in i..Len(tokens)
    BY <1>1, <1>2, <2>1
  <2> DEFINE first == f[<<level + 1, i>>]
  <2>4. first.next \in i..Len(tokens)
    BY <2>3
  <2>5. /\ ParseOf(x, f) = Chain(level, first, f)
        /\ ParseOf(x, g) = Chain(level, first, g)
    BY <1>0, <1>4, <2>3 DEF ParseOf, level, i
  <2> HIDE DEF first
  <2>6. /\ Chain(level, first, f) = Chain(level, first, g)
        /\ Chain(level, first, f).next \in i..Len(tokens)
    <3>1. level \in 1..3 /\ i \in Places
      BY <1>1, <2>1
    <3> QED
      BY <2>2, <2>4, <3>1, ChainAhead
  <2> QED
    BY <2>5, <2>6 DEF i
<1> QED
  BY <1>3, <1>4

LEMMA BelowNext ==
  ASSUME Ended, NEW n \in Nat
  PROVE  Below(n) \subseteq Below(n + 1)
<1>1. Len(tokens) \in Nat
  BY DEF Ended
<1> QED
  BY <1>1 DEF Below, Levels, OperatorsOf, Places

LEMMA BelowAll ==
  ASSUME Ended
  PROVE  \E n \in Nat : Below(n) = Levels \X Places
<1>1. Len(tokens) \in Nat
  BY DEF Ended
<1>2. 4 * Len(tokens) + 4 \in Nat
  BY <1>1
<1>3. \A x \in Levels \X Places : x[1] \in 1..4 /\ x[2] \in 1..Len(tokens)
  BY DEF Levels, OperatorsOf, Places
<1>4. \A x \in Levels \X Places : 4 * (Len(tokens) - x[2]) + 4 - x[1] < 4 * Len(tokens) + 4
  BY <1>1, <1>3
<1>5. Below(4 * Len(tokens) + 4) = Levels \X Places
  BY <1>4 DEF Below
<1> QED
  BY <1>2, <1>5

LEMMA NothingBelow ==
  ASSUME Ended
  PROVE  Below(0) = {}
<1>1. Len(tokens) \in Nat
  BY DEF Ended
<1>2. \A x \in Levels \X Places : x[1] \in 1..4 /\ x[2] \in 1..Len(tokens)
  BY DEF Levels, OperatorsOf, Places
<1>3. \A x \in Levels \X Places : ~(4 * (Len(tokens) - x[2]) + 4 - x[1] < 0)
  BY <1>1, <1>2
<1> QED
  BY <1>3 DEF Below

LEMMA SolvedAhead ==
  ASSUME Ended, NEW n \in Nat, NEW f, Solved(f, Below(n))
  PROVE  Ahead(f, Below(n))
<1> DEFINE S == {k \in Nat : k <= n => Solved(f, Below(k)) /\ Ahead(f, Below(k))}
<1>0. Len(tokens) \in Nat
  BY DEF Ended
<1>1. \A k \in Nat : k <= n => Below(k) \subseteq Below(n)
  BY <1>0 DEF Below, Levels, OperatorsOf, Places
<1>2. \A k \in Nat : k <= n => Solved(f, Below(k))
  BY <1>1 DEF Solved
<1>3. 0 \in S
  BY <1>2, NothingBelow DEF Ahead
<1>4. ASSUME NEW k \in Nat, k \in S
      PROVE  k + 1 \in S
  <2> SUFFICES ASSUME k + 1 <= n
               PROVE  Ahead(f, Below(k + 1))
    BY <1>2
  <2>1. Ahead(f, Below(k)) /\ Solved(f, Below(k + 1))
    BY <1>2, <1>4
  <2>2. Same(f, f, Below(k))
    BY DEF Same
  <2>3. \A x \in Below(k + 1) : ParseOf(x, f).next \in x[2]..Len(tokens)
    BY <2>1, <2>2, ParseAhead
  <2> QED
    BY <2>1, <2>3 DEF Solved, Ahead
<1> HIDE DEF S
<1>5. Nat \subseteq S
  BY <1>3, <1>4, Induction
<1> QED
  BY <1>5 DEF S

LEMMA SolutionExists ==
  ASSUME Ended, NEW n \in Nat
  PROVE  \E f : f = [x \in Below(n) |-> ParseOf(x, f)]
<1> DEFINE S == {k \in Nat : \E f : f = [x \in Below(k) |-> ParseOf(x, f)]}
<1>1. 0 \in S
  <2> DEFINE f == [x \in Below(0) |-> ParseOf(x, <<>>)]
  <2>1. f = [x \in Below(0) |-> ParseOf(x, f)]
    BY NothingBelow
  <2> QED
    BY <2>1
<1>2. ASSUME NEW k \in Nat, k \in S
      PROVE  k + 1 \in S
  <2>1. PICK f : f = [x \in Below(k) |-> ParseOf(x, f)]
    BY <1>2
  <2> DEFINE g == [x \in Below(k + 1) |-> ParseOf(x, f)]
  <2>2. Solved(f, Below(k))
    BY <2>1, Zenon DEF Solved
  <2>3. Ahead(f, Below(k))
    BY <2>2, SolvedAhead
  <2>4. Same(f, g, Below(k))
    BY <2>2, BelowNext, Zenon DEF Solved, Same
  <2>5. \A x \in Below(k + 1) : ParseOf(x, f) = ParseOf(x, g)
    <3> HIDE DEF g
    <3> QED
      BY <2>3, <2>4, ParseAhead
  <2>6. g = [x \in Below(k + 1) |-> ParseOf(x, g)]
    BY <2>5, Zenon
  <2>7. k + 1 \in Nat
    OBVIOUS
  <2> HIDE DEF g
  <2> QED
    BY <2>6, <2>7, Zenon
<1> HIDE DEF S
<1>3. Nat \subseteq S
  BY <1>1, <1>2, Induction
<1> QED
  BY <1>3 DEF S

\* The functions of the parser.
LEMMA ParsedSolved ==
  ASSUME Ended
  PROVE  Solved(Parsed, Levels \X Places) /\ Ahead(Parsed, Levels \X Places)
<1>1. PICK n \in Nat : Below(n) = Levels \X Places
  BY BelowAll
<1>2. \E f : f = [x \in Levels \X Places |-> ParseOf(x, f)]
  BY <1>1, SolutionExists
<1>3. Parsed = [x \in Levels \X Places |-> ParseOf(x, Parsed)]
  BY <1>2, Zenon DEF Parsed, ParseOf, Places
<1>4. Solved(Parsed, Levels \X Places)
  BY <1>3, Zenon DEF Solved
<1> QED
  BY <1>1, <1>4, SolvedAhead

\* The parser does not go behind EOF.
LEMMA ExpressionAhead ==
  ASSUME Ended, NEW i \in 1..Len(tokens)
  PROVE  ParseExpression(i).next \in i..Len(tokens)
<1>1. <<1, i>> \in Levels \X Places
  BY DEF Levels, OperatorsOf, Places
<1>2. ParseExpression(i).next \in <<1, i>>[2]..Len(tokens)
  BY <1>1, ParsedSolved DEF Ahead, ParseExpression
<1> QED
  BY <1>2

----------------------------------------------------------------------------
(* Parentheses, and the parts of an expression.                             *)

Count(type, i, k) == Cardinality({m \in i..k : Type(m) = type})

LEMMA CountType ==
  ASSUME NEW type, NEW i \in Int, NEW k \in Int
  PROVE  /\ IsFiniteSet({m \in i..k : Type(m) = type})
         /\ Count(type, i, k) \in Nat
<1>1. IsFiniteSet(i..k)
  BY FS_Interval
<1>2. {m \in i..k : Type(m) = type} \in SUBSET (i..k)
  OBVIOUS
<1>3. IsFiniteSet({m \in i..k : Type(m) = type})
  BY <1>1, <1>2, FS_Subset
<1> QED
  BY <1>3, FS_CardinalityType DEF Count

LEMMA CountSplit ==
  ASSUME NEW type, NEW i \in Int, NEW p \in Int, NEW k \in Int, i <= p + 1, p <= k
  PROVE  Count(type, i, k) = Count(type, i, p) + Count(type, p + 1, k)
<1> DEFINE A == {m \in i..p : Type(m) = type}
           B == {m \in (p + 1)..k : Type(m) = type}
<1>0. p + 1 \in Int
  OBVIOUS
<1>1. IsFiniteSet(A) /\ IsFiniteSet(B)
  BY <1>0, CountType
<1>2. {m \in i..k : Type(m) = type} = A \cup B
  OBVIOUS
<1>3. A \cap B = {}
  OBVIOUS
<1>4. Count(type, i, p) \in Nat /\ Count(type, p + 1, k) \in Nat
  BY <1>0, CountType
<1>5. Cardinality(A) = Count(type, i, p) /\ Cardinality(B) = Count(type, p + 1, k)
  BY DEF Count
<1>6. Count(type, i, k) = Cardinality(A \cup B)
  BY <1>2 DEF Count
<1> HIDE DEF A, B
<1>7. Cardinality(A \cup B) = Cardinality(A) + Cardinality(B) - Cardinality(A \cap B)
  BY <1>1, FS_Union
<1>8. Cardinality(A \cap B) = 0
  BY <1>3, FS_EmptySet
<1> QED
  BY <1>4, <1>5, <1>6, <1>7, <1>8

LEMMA CountOne ==
  ASSUME NEW type, NEW k \in Int
  PROVE  Count(type, k, k) = IF Type(k) = type THEN 1 ELSE 0
<1>1. {m \in k..k : Type(m) = type} = IF Type(k) = type THEN {k} ELSE {}
  OBVIOUS
<1> QED
  BY <1>1, FS_Singleton, FS_EmptySet DEF Count

LEMMA OpenSplit ==
  ASSUME NEW i \in Int, NEW p \in Int, NEW k \in Int, i <= p + 1, p <= k
  PROVE  /\ Open(i, k) = Open(i, p) + Open(p + 1, k)
         /\ Open(i, k) \in Int /\ Open(i, p) \in Int /\ Open(p + 1, k) \in Int
<1>1. \A type : Count(type, i, k) = Count(type, i, p) + Count(type, p + 1, k)
  BY CountSplit
<1>2. p + 1 \in Int
  OBVIOUS
<1>3. \A type : /\ Count(type, i, k) \in Nat /\ Count(type, i, p) \in Nat
                /\ Count(type, p + 1, k) \in Nat
  BY <1>2, CountType
<1>4. \A m, n : Open(m, n) = Count("(", m, n) - Count(")", m, n)
  BY DEF Open, Count
<1> QED
  BY <1>1, <1>3, <1>4

\* What a token adds to the parentheses that are open.
Opens(k) == IF Type(k) = "(" THEN 1 ELSE IF Type(k) = ")" THEN 0 - 1 ELSE 0

LEMMA OpenOne ==
  ASSUME NEW k \in Int
  PROVE  Open(k, k) = Opens(k)
<1>1. \A type : Count(type, k, k) = IF Type(k) = type THEN 1 ELSE 0
  BY CountOne
<1>2. Open(k, k) = Count("(", k, k) - Count(")", k, k)
  BY DEF Open, Count
<1> QED
  BY <1>1, <1>2 DEF Opens

LEMMA OpenNone ==
  ASSUME NEW i \in Int
  PROVE  Open(i, i - 1) = 0
<1>1. /\ Open(i, i - 1) = Open(i, i - 1) + Open(i - 1 + 1, i - 1)
      /\ Open(i, i - 1) \in Int
  BY OpenSplit
<1>2. Open(i - 1 + 1, i - 1) = Open(i, i - 1)
  OBVIOUS
<1>3. PICK none \in Int : none = Open(i, i - 1)
  BY <1>1
<1>4. none = none + none
  BY <1>1, <1>2, <1>3
<1>5. none = 0
  BY <1>4
<1> QED
  BY <1>3, <1>5

LEMMA OpenNext ==
  ASSUME NEW i \in Int, NEW k \in Int, i <= k
  PROVE  Open(i, k) = Open(i, k - 1) + Opens(k) /\ Open(i, k - 1) \in Int
<1>1. /\ Open(i, k) = Open(i, k - 1) + Open(k - 1 + 1, k)
      /\ Open(i, k - 1) \in Int
  BY OpenSplit
<1>2. k - 1 + 1 = k
  OBVIOUS
<1> QED
  BY <1>1, <1>2, OpenOne

\* Operators of different levels differ, and differ from the other tokens.
LEMMA OperatorTypes ==
  /\ \A l \in 1..3 : OperatorsOf[l] \subseteq Operators
  /\ \A type \in Operators : \E l \in 1..3 : type \in OperatorsOf[l]
  /\ \A l, m \in 1..3 : l # m => OperatorsOf[l] \cap OperatorsOf[m] = {}
  /\ Operands \cap Operators = {}
  /\ "(" \notin Operands \cup Operators /\ ")" \notin Operands \cup Operators
<1>1. /\ OperatorsOf[1] = {">", "<", "="} /\ OperatorsOf[2] = {"+", "-"}
      /\ OperatorsOf[3] = {"*", "/"}
  BY DEF OperatorsOf
<1>2. 1..3 = {1, 2, 3}
  OBVIOUS
<1>3. Operators = {">", "<", "=", "+", "-", "*", "/"}
  BY <1>1, <1>2 DEF Operators
<1>4. \A l, m \in 1..3 : l # m => OperatorsOf[l] \cap OperatorsOf[m] = {}
  BY <1>1, <1>2
<1>5. /\ \A l \in 1..3 : OperatorsOf[l] \subseteq Operators
      /\ \A type \in Operators : \E l \in 1..3 : type \in OperatorsOf[l]
  BY <1>2 DEF Operators
<1> QED
  BY <1>3, <1>4, <1>5 DEF Operands

LEMMA OperatorOpens ==
  ASSUME NEW l \in 1..3, NEW k, Type(k) \in OperatorsOf[l]
  PROVE  Type(k) \in Operators /\ Opens(k) = 0 /\ Type(k) \notin Operands \cup {"(", ")"}
  BY OperatorTypes DEF Opens

\* What Complete says of one token.
LEMMA CompleteAt ==
  ASSUME NEW i, NEW j, Complete(i, j), NEW k \in i..j
  PROVE  /\ Type(k) \in Operands \cup Operators \cup {"(", ")"}
         /\ Open(i, k) >= 0
         /\ Type(k) \in Operands \cup {")"} <=> k = j \/ Type(k + 1) \in Operators \cup {")"}
         /\ Type(k) \in Operands \cup {"("} <=> k = i \/ Type(k - 1) \in Operators \cup {"("}
  BY Zenon DEF Complete

\* A part between operators or parentheses, in which no parenthesis is closed
\* that is not opened in it.
LEMMA PartComplete ==
  ASSUME NEW i \in Int, NEW j \in Int, Complete(i, j), NEW p \in i..j, NEW q \in p..j,
         p = i \/ Type(p - 1) \in Operators \cup {"("},
         q = j \/ Type(q + 1) \in Operators \cup {")"},
         \A k \in p..q : Open(p, k) >= 0, Open(p, q) = 0
  PROVE  Complete(p, q)
<1>1. ASSUME NEW k \in p..q
      PROVE  /\ Type(k) \in Operands \cup Operators \cup {"(", ")"}
             /\ (Type(k) \in Operands \cup {")"}) = (k = q \/ Type(k + 1) \in Operators \cup {")"})
             /\ (Type(k) \in Operands \cup {"("}) = (k = p \/ Type(k - 1) \in Operators \cup {"("})
  <2>1. k \in i..j /\ (k = j => q = j) /\ (k = i => p = i)
    OBVIOUS
  <2>2. /\ Type(k) \in Operands \cup Operators \cup {"(", ")"}
        /\ Type(k) \in Operands \cup {")"} <=> k = j \/ Type(k + 1) \in Operators \cup {")"}
        /\ Type(k) \in Operands \cup {"("} <=> k = i \/ Type(k - 1) \in Operators \cup {"("}
    BY <2>1, CompleteAt
  <2>3. Type(k) \in Operands \cup {")"} <=> k = q \/ Type(k + 1) \in Operators \cup {")"}
    BY <2>1, <2>2, Zenon
  <2>4. Type(k) \in Operands \cup {"("} <=> k = p \/ Type(k - 1) \in Operators \cup {"("}
    BY <2>1, <2>2, Zenon
  <2>5. (Type(k) \in Operands \cup {")"}) = (k = q \/ Type(k + 1) \in Operators \cup {")"})
    BY ONLY <2>3
  <2>6. (Type(k) \in Operands \cup {"("}) = (k = p \/ Type(k - 1) \in Operators \cup {"("})
    BY ONLY <2>4
  <2> QED
    BY <2>2, <2>5, <2>6
<1>2. p <= q
  OBVIOUS
<1> QED
  BY <1>1, <1>2, Zenon DEF Complete

\* The tokens on both sides of an operator outside of parentheses.
LEMMA SidesComplete ==
  ASSUME NEW i \in Int, NEW j \in Int, Complete(i, j), NEW l \in 1..3, NEW k \in Outer(l, i, j)
  PROVE  /\ k \in (i + 1)..(j - 1)
         /\ Open(i, k - 1) = 0
         /\ Complete(i, k - 1) /\ Complete(k + 1, j)
<1>1. k \in i..j /\ Type(k) \in OperatorsOf[l] /\ Open(i, k) = 0
  BY DEF Outer
<1>2. Type(k) \in Operators /\ Opens(k) = 0 /\ Type(k) \notin Operands \cup {"(", ")"}
  BY <1>1, OperatorOpens
<1>3. k # i /\ k # j
  BY <1>1, <1>2, CompleteAt, Zenon
<1>4. k \in (i + 1)..(j - 1)
  BY <1>1, <1>3
<1>5. Open(i, k - 1) = 0
  BY <1>1, <1>2, OpenNext
<1>6. Complete(i, k - 1)
  <2>1. k - 1 \in i..j /\ i \in i..j /\ k - 1 + 1 = k
    BY <1>4
  <2>2. \A m \in i..(k - 1) : m \in i..j
    BY <1>4
  <2>3. \A m \in i..(k - 1) : Open(i, m) >= 0
    BY <2>2, CompleteAt
  <2> QED
    BY <1>2, <1>5, <2>1, <2>3, PartComplete
<1>7. Complete(k + 1, j)
  <2>1. k + 1 \in i..j /\ j \in (k + 1)..j /\ k + 1 - 1 = k
    BY <1>4
  <2>2. \A m \in (k + 1)..j : m \in i..j /\ Open(k + 1, m) = Open(i, m)
    <3> SUFFICES ASSUME NEW m \in (k + 1)..j
                 PROVE  m \in i..j /\ Open(k + 1, m) = Open(i, m)
      OBVIOUS
    <3>1. Open(i, m) = Open(i, k) + Open(k + 1, m) /\ Open(k + 1, m) \in Int
      BY <1>4, OpenSplit
    <3> QED
      BY <1>1, <1>4, <3>1
  <2>3. \A m \in (k + 1)..j : Open(k + 1, m) >= 0
    BY <2>2, CompleteAt
  <2>4. Open(k + 1, j) = 0
    BY <2>1, <2>2 DEF Complete
  <2>5. PICK p \in i..j : p = k + 1
    BY <2>1
  <2>6. Type(p - 1) \in Operators \cup {"("} /\ j \in p..j
    <3>1. p - 1 = k
      BY <1>4, <2>5
    <3> QED
      BY <1>2, <2>1, <2>5, <3>1
  <2>7. (\A m \in p..j : Open(p, m) >= 0) /\ Open(p, j) = 0
    BY <2>3, <2>4, <2>5
  <2>8. Complete(p, j)
    BY ONLY <2>6, <2>7, i \in Int, j \in Int, Complete(i, j), p \in i..j, PartComplete
  <2> QED
    BY <2>5, <2>8
<1> QED
  BY <1>4, <1>5, <1>6, <1>7

\* The operators in a part are those of the whole.
LEMMA OuterPart ==
  ASSUME NEW i \in Int, NEW j \in Int, NEW p \in i..j, NEW q \in Int, q <= j,
         Open(i, p - 1) = 0, NEW l
  PROVE  Outer(l, p, q) = Outer(l, i, j) \cap (p..q)
<1>1. ASSUME NEW k \in p..q
      PROVE  k \in i..j /\ Open(i, k) = Open(p, k)
  <2>1. p - 1 + 1 = p
    OBVIOUS
  <2>2. Open(i, k) = Open(i, p - 1) + Open(p - 1 + 1, k) /\ Open(p - 1 + 1, k) \in Int
    BY OpenSplit
  <2> QED
    BY <2>1, <2>2
<1> QED
  BY <1>1 DEF Outer

\* An expression without operators outside of parentheses is an operand, or
\* all of it is in parentheses.
LEMMA OperandOrParentheses ==
  ASSUME NEW i \in Int, NEW j \in Int, Complete(i, j), \A l \in 1..3 : Outer(l, i, j) = {}
  PROVE  \/ i = j /\ Type(i) \in Operands
         \/ i < j /\ Type(i) = "(" /\ Type(j) = ")" /\ Complete(i + 1, j - 1)
<1>0. i <= j /\ i \in i..j /\ j \in i..j
  BY DEF Complete
<1>1. Type(i) \in Operands \cup {"("}
  BY <1>0, CompleteAt
<1>2. \A k \in i..j : Open(i, k) = 0 => Type(k) \notin Operators
  BY OperatorTypes DEF Outer
<1>3. \A k \in i..j : k < j /\ Open(i, k) = 0 => Type(k) \notin Operands \cup {")"}
  <2> SUFFICES ASSUME NEW k \in i..j, k < j, Open(i, k) = 0, Type(k) \in Operands \cup {")"}
               PROVE  FALSE
    OBVIOUS
  <2>1. k + 1 \in i..j /\ k # j /\ k + 1 - 1 = k
    OBVIOUS
  <2>2. Type(k + 1) \in Operators \cup {")"}
    BY <2>1, CompleteAt
  <2>3. Open(i, k + 1) = Open(i, k) + Opens(k + 1) /\ Open(i, k + 1) >= 0
    <3>1. Open(i, k + 1) >= 0
      BY <2>1, CompleteAt
    <3>2. Open(i, k + 1) = Open(i, k + 1 - 1) + Opens(k + 1)
      BY <2>1, OpenNext
    <3>3. Open(i, k + 1 - 1) = Open(i, k)
      BY <2>1
    <3> QED
      BY <3>1, <3>2, <3>3
  <2>4. CASE Type(k + 1) \in Operators
    <3>1. Opens(k + 1) = 0
      BY <2>4, OperatorTypes DEF Opens
    <3> QED
      BY <1>2, <2>1, <2>3, <2>4, <3>1
  <2>5. CASE Type(k + 1) = ")"
    BY <2>3, <2>5 DEF Opens
  <2> QED
    BY <2>2, <2>4, <2>5
<1>4. Open(i, i) = Opens(i)
  BY OpenOne
<1>5. CASE Type(i) \in Operands
  <2>1. Opens(i) = 0
    BY <1>5, OperatorTypes DEF Opens
  <2>2. ~(i < j)
    BY <1>0, <1>3, <1>4, <1>5, <2>1
  <2> QED
    BY <1>0, <1>5, <2>2
<1>6. CASE Type(i) = "("
  <2>1. Opens(i) = 1
    BY <1>6 DEF Opens
  <2>2. i < j
    <3>1. Open(i, j) = 0
      BY DEF Complete
    <3> QED
      BY <1>0, <1>4, <2>1, <3>1
  <2>3. Type(j) = ")"
    <3>1. Type(j) \in Operands \cup {")"}
      BY <1>0, CompleteAt
    <3>2. j - 1 \in i..j /\ j - 1 < j /\ Open(i, j) = 0
      BY <2>2 DEF Complete
    <3>3. Open(i, j) = Open(i, j - 1) + Opens(j) /\ Open(i, j - 1) \in Int
      BY <1>0, OpenNext
    <3>4. ASSUME Type(j) \in Operands PROVE FALSE
      <4>1. Open(i, j - 1) = 0
        BY <3>2, <3>3, <3>4, OperatorTypes DEF Opens
      <4>2. Type(j - 1) \notin Operands \cup {")"} \cup Operators
        BY <1>2, <1>3, <3>2, <4>1
      <4>3. Type(j - 1) = "("
        BY <3>2, <4>2, CompleteAt
      <4>4. Opens(j - 1) = 1 /\ Open(i, j - 1) = Open(i, j - 1 - 1) + Opens(j - 1)
            /\ Open(i, j - 1 - 1) \in Int
        BY <2>2, <4>3, OpenNext DEF Opens
      <4>5. Open(i, j - 1 - 1) < 0
        BY <4>1, <4>4
      <4>6. CASE j - 1 = i
        BY <1>4, <2>1, <4>1, <4>6
      <4>7. CASE j - 1 # i
        <5>1. j - 1 - 1 \in i..j
          BY <2>2, <4>7
        <5>2. Open(i, j - 1 - 1) >= 0
          BY <5>1, CompleteAt
        <5> QED
          BY <4>4, <4>5, <5>2
      <4> QED
        BY <4>6, <4>7
    <3> QED
      BY <3>1, <3>4
  <2>4. i + 1 # j
    BY <1>0, <1>6, <2>2, <2>3, OperatorTypes, CompleteAt
  <2>5. i + 1 \in i..j /\ j - 1 \in (i + 1)..j /\ i + 1 - 1 = i /\ j - 1 + 1 = j
    BY <2>2, <2>4
  <2>6. \A k \in (i + 1)..(j - 1) : k \in i..j /\ k < j /\ Open(i + 1, k) = Open(i, k) - 1
                                    /\ Open(i, k) \in Int
    <3> SUFFICES ASSUME NEW k \in (i + 1)..(j - 1)
                 PROVE  k \in i..j /\ k < j /\ Open(i + 1, k) = Open(i, k) - 1 /\ Open(i, k) \in Int
      OBVIOUS
    <3>1. Open(i, k) = Open(i, i) + Open(i + 1, k) /\ Open(i + 1, k) \in Int /\ Open(i, k) \in Int
      BY OpenSplit
    <3> QED
      BY <1>4, <2>1, <3>1
  <2>7. \A k \in (i + 1)..(j - 1) : Open(i, k) # 0
    <3> SUFFICES ASSUME NEW k \in (i + 1)..(j - 1), Open(i, k) = 0
                 PROVE  FALSE
      OBVIOUS
    <3>1. k \in i..j /\ k < j /\ i <= k
      BY <2>6
    <3>2. Type(k) \notin Operands \cup {")"} \cup Operators
      BY <1>2, <1>3, <3>1
    <3>3. Type(k) = "("
      BY <3>1, <3>2, CompleteAt
    <3>4. Open(i, k) = Open(i, k - 1) + 1 /\ Open(i, k - 1) \in Int
      BY <3>1, <3>3, OpenNext DEF Opens
    <3>5. k - 1 \in i..j
      OBVIOUS
    <3>6. Open(i, k - 1) >= 0
      BY <3>5, CompleteAt
    <3> QED
      BY <3>4, <3>6
  <2>8. \A k \in (i + 1)..(j - 1) : Open(i + 1, k) >= 0
    BY <2>6, <2>7, CompleteAt
  <2>9. Open(i + 1, j - 1) = 0
    <3>1. Open(i, j) = 0 /\ Opens(j) = 0 - 1
      BY <2>3 DEF Opens, Complete
    <3>2. Open(i, j) = Open(i, j - 1) + Opens(j) /\ Open(i, j - 1) \in Int
      BY <1>0, OpenNext
    <3>3. j - 1 \in (i + 1)..(j - 1)
      BY <2>5
    <3> QED
      BY <2>6, <3>1, <3>2, <3>3
  <2>10. Complete(i + 1, j - 1)
    BY <1>6, <2>3, <2>5, <2>8, <2>9, PartComplete
  <2> QED
    BY <1>6, <2>2, <2>3, <2>10
<1> QED
  BY <1>1, <1>5, <1>6

----------------------------------------------------------------------------
(* What the tokens mean.                                                    *)

Spans == (1..(Len(tokens) + 1)) \X (0..Len(tokens))

\* What a span means, when f tells what shorter ones mean.
MeaningOf(span, f) ==
    IF \E level \in 1..3 : Outer(level, span[1], span[2]) # {}
    THEN Binary(Type(Splitter(span[1], span[2])),
                f[<<span[1], Splitter(span[1], span[2]) - 1>>],
                f[<<Splitter(span[1], span[2]) + 1, span[2]>>])
    ELSE IF span[1] >= span[2] THEN Leaf(Type(span[1]), Literal(span[1]))
    ELSE f[<<span[1] + 1, span[2] - 1>>]

\* A set of places that is not empty has a last one.
LEMMA LastPlace ==
  ASSUME NEW i \in Nat, NEW j \in Nat, NEW S \in SUBSET (i..j), S # {}
  PROVE  Rightmost(S) \in S /\ \A m \in S : m <= Rightmost(S)
<1> DEFINE T == {n \in Nat : \E k \in S : n = j - k}
<1>1. \A k \in S : k \in Nat /\ k <= j /\ j - k \in T
  OBVIOUS
<1>2. T \in SUBSET Nat /\ T # {}
  BY <1>1
<1>3. PICK n \in T : \A m \in T : n <= m
  BY <1>2, LeastNumber
<1>4. PICK k \in S : n = j - k
  BY <1>3
<1> HIDE DEF T
<1>5. \A m \in S : m <= k
  BY <1>1, <1>3, <1>4
<1>6. \E last \in S : \A m \in S : m <= last
  BY <1>5
<1> QED
  BY <1>6, Zenon DEF Rightmost

\* The operator that splits a span is in it.
LEMMA SplitterIn ==
  ASSUME NEW i \in Nat, NEW j \in Nat, \E level \in 1..3 : Outer(level, i, j) # {}
  PROVE  Splitter(i, j) \in i..j
<1> DEFINE Lacks(l) == Outer(l, i, j) = {}
<1>1. \E l \in 1..3 : ~Lacks(l) /\ \A m \in 1..(l - 1) : Lacks(m)
  <2>1. ~Lacks(1) \/ ~Lacks(2) \/ ~Lacks(3)
    <3> HIDE DEF Lacks
    <3>1. \E level \in 1..3 : ~Lacks(level)
      BY DEF Lacks
    <3> QED
      BY <3>1
  <2> HIDE DEF Lacks
  <2>2. CASE ~Lacks(1)
    BY <2>2
  <2>3. CASE Lacks(1) /\ ~Lacks(2)
    BY <2>3
  <2>4. CASE Lacks(1) /\ Lacks(2) /\ ~Lacks(3)
    BY <2>4
  <2> QED
    BY <2>1, <2>2, <2>3, <2>4
<1>2. Outer(Loosest(i, j), i, j) # {}
  BY <1>1, Zenon DEF Loosest
<1>3. Outer(Loosest(i, j), i, j) \in SUBSET (i..j)
  BY DEF Outer
<1> QED
  BY <1>2, <1>3, LastPlace DEF Splitter

\* The operator of the loosest level, the last one of them, is the one.
LEMMA SplitterIs ==
  ASSUME NEW i \in Nat, NEW j \in Nat, NEW l \in 1..3, NEW k \in Outer(l, i, j),
         \A m \in 1..(l - 1) : Outer(m, i, j) = {}, \A m \in Outer(l, i, j) : m <= k
  PROVE  Splitter(i, j) = k
<1> DEFINE L == Loosest(i, j)
<1>1. \E n \in 1..3 : Outer(n, i, j) # {} /\ \A m \in 1..(n - 1) : Outer(m, i, j) = {}
  OBVIOUS
<1>2. L \in 1..3 /\ Outer(L, i, j) # {} /\ \A m \in 1..(L - 1) : Outer(m, i, j) = {}
  BY <1>1, Zenon DEF Loosest
<1> HIDE DEF L
<1>3. ~(L < l) /\ ~(l < L)
  <2>1. l < L => l \in 1..(L - 1)
    BY <1>2
  <2>2. L < l => L \in 1..(l - 1)
    BY <1>2
  <2> QED
    BY <1>2, <2>1, <2>2
<1>4. L = l
  BY <1>2, <1>3
<1>5. Outer(l, i, j) \in SUBSET (i..j) /\ Outer(l, i, j) # {}
  BY DEF Outer
<1>6. Rightmost(Outer(l, i, j)) \in Outer(l, i, j)
      /\ \A m \in Outer(l, i, j) : m <= Rightmost(Outer(l, i, j))
  BY <1>5, LastPlace
<1>7. Rightmost(Outer(l, i, j)) \in Int /\ k \in Int
  BY <1>5, <1>6
<1>8. Rightmost(Outer(l, i, j)) = k
  BY <1>6, <1>7
<1> QED
  BY <1>4, <1>8 DEF Splitter, L

Short(n) == {span \in Spans : span[2] - span[1] + 1 < n}

LEMMA MeaningSame ==
  ASSUME Len(tokens) \in Nat, NEW n \in Nat, NEW span \in Short(n + 1), NEW f, NEW g,
         Same(f, g, Short(n))
  PROVE  MeaningOf(span, f) = MeaningOf(span, g)
<1> DEFINE i == span[1]
           j == span[2]
<1>1. i \in 1..(Len(tokens) + 1) /\ j \in 0..Len(tokens) /\ j - i + 1 <= n
  BY DEF Short, Spans
<1> HIDE DEF i, j
<1>2. ASSUME NEW p \in 1..(Len(tokens) + 1), NEW q \in 0..Len(tokens), q - p < j - i, j - i >= 0
      PROVE  f[<<p, q>>] = g[<<p, q>>]
  <2>1. <<p, q>> \in Short(n)
    BY <1>1, <1>2 DEF Short, Spans
  <2> QED
    BY <2>1 DEF Same
<1>3. CASE \E level \in 1..3 : Outer(level, i, j) # {}
  <2> DEFINE k == Splitter(i, j)
  <2>1. k \in i..j
    BY <1>1, <1>3, SplitterIn
  <2> HIDE DEF k
  <2>2. f[<<i, k - 1>>] = g[<<i, k - 1>>]
    <3>1. k - 1 \in 0..Len(tokens) /\ k - 1 - i < j - i /\ j - i >= 0
      BY <1>1, <2>1
    <3> QED
      BY <1>1, <1>2, <3>1
  <2>3. f[<<k + 1, j>>] = g[<<k + 1, j>>]
    <3>1. k + 1 \in 1..(Len(tokens) + 1) /\ j - (k + 1) < j - i /\ j - i >= 0
      BY <1>1, <2>1
    <3> QED
      BY <1>1, <1>2, <3>1
  <2>4. /\ MeaningOf(span, f) = Binary(Type(k), f[<<i, k - 1>>], f[<<k + 1, j>>])
        /\ MeaningOf(span, g) = Binary(Type(k), g[<<i, k - 1>>], g[<<k + 1, j>>])
    BY <1>3, Zenon DEF MeaningOf, i, j, k
  <2> QED
    BY <2>2, <2>3, <2>4
<1>4. CASE ~(\E level \in 1..3 : Outer(level, i, j) # {}) /\ i >= j
  BY <1>4, Zenon DEF MeaningOf, i, j
<1>5. CASE ~(\E level \in 1..3 : Outer(level, i, j) # {}) /\ ~(i >= j)
  <2>1. i + 1 \in 1..(Len(tokens) + 1) /\ j - 1 \in 0..Len(tokens)
        /\ j - 1 - (i + 1) < j - i /\ j - i >= 0
    BY <1>1, <1>5
  <2>2. f[<<i + 1, j - 1>>] = g[<<i + 1, j - 1>>]
    BY <1>2, <2>1
  <2>3. MeaningOf(span, f) = f[<<i + 1, j - 1>>] /\ MeaningOf(span, g) = g[<<i + 1, j - 1>>]
    BY <1>5, Zenon DEF MeaningOf, i, j
  <2> QED
    BY <2>2, <2>3
<1> QED
  BY <1>3, <1>4, <1>5

LEMMA MeaningExists ==
  ASSUME Len(tokens) \in Nat, NEW n \in Nat
  PROVE  \E f : f = [span \in Short(n) |-> MeaningOf(span, f)]
<1> DEFINE S == {k \in Nat : \E f : f = [span \in Short(k) |-> MeaningOf(span, f)]}
<1>1. 0 \in S
  <2> DEFINE f == [span \in Short(0) |-> MeaningOf(span, <<>>)]
  <2>1. \A span \in Short(0) : MeaningOf(span, <<>>) = MeaningOf(span, f)
    <3> SUFFICES ASSUME NEW span \in Short(0)
                 PROVE  MeaningOf(span, <<>>) = MeaningOf(span, f)
      OBVIOUS
    <3>1. span[1] \in Int /\ span[2] \in Int /\ span[1] > span[2]
      BY DEF Short, Spans
    <3>2. \A level \in 1..3 : Outer(level, span[1], span[2]) = {}
      BY <3>1 DEF Outer
    <3>3. span[1] >= span[2]
      BY <3>1
    <3> HIDE DEF f
    <3> QED
      BY <3>2, <3>3, Zenon DEF MeaningOf
  <2>2. f = [span \in Short(0) |-> MeaningOf(span, f)]
    BY <2>1, Zenon
  <2> HIDE DEF f
  <2> QED
    BY <2>2
<1>2. ASSUME NEW k \in Nat, k \in S
      PROVE  k + 1 \in S
  <2>1. PICK f : f = [span \in Short(k) |-> MeaningOf(span, f)]
    BY <1>2
  <2> DEFINE g == [span \in Short(k + 1) |-> MeaningOf(span, f)]
  <2>2. Short(k) \subseteq Short(k + 1)
    BY DEF Short, Spans
  <2>3. Same(f, g, Short(k))
    BY <2>1, <2>2, Zenon DEF Same
  <2>4. \A span \in Short(k + 1) : MeaningOf(span, f) = MeaningOf(span, g)
    <3> HIDE DEF g
    <3> QED
      BY <2>3, MeaningSame
  <2>5. g = [span \in Short(k + 1) |-> MeaningOf(span, g)]
    BY <2>4, Zenon
  <2>6. k + 1 \in Nat
    OBVIOUS
  <2> HIDE DEF g
  <2> QED
    BY <2>5, <2>6, Zenon
<1> HIDE DEF S
<1>3. Nat \subseteq S
  BY <1>1, <1>2, Induction
<1> QED
  BY <1>3 DEF S

LEMMA MeaningSolved ==
  ASSUME Len(tokens) \in Nat
  PROVE  \A span \in Spans : Meaning[span] = MeaningOf(span, Meaning)
<1>1. Len(tokens) + 1 \in Nat
  OBVIOUS
<1>2. \A span \in Spans : span[2] - span[1] + 1 < Len(tokens) + 1
  BY DEF Spans
<1>3. Short(Len(tokens) + 1) = Spans
  BY <1>2 DEF Short
<1>4. \E f : f = [span \in Spans |-> MeaningOf(span, f)]
  BY <1>1, <1>3, MeaningExists
<1>5. Meaning = [span \in Spans |-> MeaningOf(span, Meaning)]
  BY <1>4, Zenon DEF Meaning, MeaningOf, Spans
<1> QED
  BY <1>5, Zenon

\* Three ways to take a complete expression apart.
LEMMA MeaningOfOperator ==
  ASSUME Len(tokens) \in Nat, NEW i \in Places, NEW j \in Places, NEW l \in 1..3,
         NEW k \in Outer(l, i, j),
         \A m \in 1..(l - 1) : Outer(m, i, j) = {}, \A m \in Outer(l, i, j) : m <= k
  PROVE  Meaning[<<i, j>>] = Binary(Type(k), Meaning[<<i, k - 1>>], Meaning[<<k + 1, j>>])
<1>1. i \in Nat /\ j \in Nat /\ <<i, j>> \in Spans
  BY DEF Places, Spans
<1>2. Splitter(i, j) = k
  BY <1>1, SplitterIs
<1>3. \E level \in 1..3 : Outer(level, i, j) # {}
  OBVIOUS
<1>4. MeaningOf(<<i, j>>, Meaning) = Binary(Type(k), Meaning[<<i, k - 1>>], Meaning[<<k + 1, j>>])
  BY <1>2, <1>3 DEF MeaningOf
<1> QED
  BY <1>1, <1>4, MeaningSolved

LEMMA MeaningOfOperand ==
  ASSUME Len(tokens) \in Nat, NEW i \in Places, \A l \in 1..3 : Outer(l, i, i) = {}
  PROVE  Meaning[<<i, i>>] = Leaf(Type(i), Literal(i))
<1>1. <<i, i>> \in Spans /\ i >= i
  BY DEF Places, Spans
<1>2. MeaningOf(<<i, i>>, Meaning) = Leaf(Type(i), Literal(i))
  BY <1>1 DEF MeaningOf
<1> QED
  BY <1>1, <1>2, MeaningSolved

LEMMA MeaningOfParentheses ==
  ASSUME Len(tokens) \in Nat, NEW i \in Places, NEW j \in Places, i < j,
         \A l \in 1..3 : Outer(l, i, j) = {}
  PROVE  Meaning[<<i, j>>] = Meaning[<<i + 1, j - 1>>]
<1>1. <<i, j>> \in Spans /\ ~(i >= j)
  BY DEF Places, Spans
<1>2. MeaningOf(<<i, j>>, Meaning) = Meaning[<<i + 1, j - 1>>]
  BY <1>1 DEF MeaningOf
<1> QED
  BY <1>1, <1>2, MeaningSolved

----------------------------------------------------------------------------
(* What the parser reads is what the tokens mean.                           *)

\* The words for which the parser takes another operator.
Mistaken == {<<">", "=">>, <<"<", "=">>, <<"<", ">">>}

\* The tokens from i to the one before "end" are an expression for a level:
\* looser operators are in parentheses only, and none that it takes follows.
Suits(level, i, end) ==
    /\ i \in Places /\ end \in Places /\ i < end
    /\ Complete(i, end - 1)
    /\ \A l \in 1..(level - 1) : Outer(l, i, end - 1) = {}
    /\ \A l \in level..3 : Type(end) \notin OperatorsOf[l]
    /\ \A k \in i..(end - 1) : Literal(k) \notin Mistaken

AsMeant(i, end) == [next |-> end, expr |-> Meaning[<<i, end - 1>>], errs |-> 0]

\* It is read to its end, as what it means.
IsReadAs(level, i, end) == Parsed[<<level, i>>] = AsMeant(i, end)

\* From the beginning, or from behind an operator of the level, to the next one.
LEMMA NextPart ==
  ASSUME Len(tokens) \in Nat, NEW l \in 1..3, NEW i, NEW end, Suits(l, i, end),
         NEW p \in i..(end - 1), p = i \/ p - 1 \in Outer(l, i, end - 1)
  PROVE  \E q \in (p + 1)..end :
            /\ Suits(l + 1, p, q)
            /\ q = end \/ q \in Outer(l, i, end - 1)
            /\ \A m \in Outer(l, i, end - 1) : m < p \/ m >= q
<1>1. PICK j \in Int : j = end - 1
  BY DEF Suits, Places
<1>2. i \in Int /\ i \in 1..Len(tokens) /\ end \in 1..Len(tokens) /\ j \in i..Len(tokens)
      /\ Complete(i, j) /\ p \in i..j /\ end = j + 1
  BY <1>1 DEF Suits, Places
<1>3. Open(i, p - 1) = 0 /\ Complete(p, j)
  <2>1. CASE p = i
    BY <1>2, <2>1, OpenNone
  <2>2. CASE p - 1 \in Outer(l, i, j)
    <3>1. Complete(p - 1 + 1, j)
      BY <1>2, <2>2, SidesComplete
    <3>2. p - 1 + 1 = p
      BY <1>2
    <3> QED
      BY <2>2, <3>1, <3>2 DEF Outer
  <2> QED
    BY <1>1, <2>1, <2>2
<1>4. ASSUME NEW q \in Int, q <= j, NEW m
      PROVE  Outer(m, p, q) = Outer(m, i, j) \cap (p..q)
  BY <1>2, <1>3, <1>4, OuterPart
<1>5. PICK q \in (p + 1)..end : /\ q = end \/ q \in Outer(l, p, j)
                                /\ \A m \in Outer(l, p, j) : m >= q
  <2> DEFINE S == Outer(l, p, j)
  <2>1. CASE S = {}
    <3>1. end \in (p + 1)..end
      BY <1>2
    <3> QED
      BY <2>1, <3>1
  <2>2. CASE S # {}
    <3>1. S \in SUBSET Nat
      BY <1>2 DEF Outer
    <3> HIDE DEF S
    <3>2. PICK q \in S : \A m \in S : q <= m
      BY <2>2, <3>1, LeastNumber
    <3>3. q \in (p + 1)..(j - 1)
      <4>1. q \in Outer(l, p, j)
        BY <3>2 DEF S
      <4>2. p \in Int
        BY <1>2
      <4> QED
        BY <1>1, <1>3, <4>1, <4>2, SidesComplete
    <3>4. q \in (p + 1)..end /\ \A m \in S : m >= q
      BY <1>2, <3>1, <3>2, <3>3
    <3> QED
      BY <3>2, <3>4 DEF S
  <2> QED
    BY <2>1, <2>2
<1>6. q \in Int /\ q - 1 \in Int /\ q - 1 <= j /\ p < q /\ q \in Places /\ p \in Places
  BY <1>2, <1>5 DEF Places
<1>7. Outer(l, p, j) = Outer(l, i, j) \cap (p..j)
  BY <1>4
<1>8. \A m \in Outer(l, i, j) : m < p \/ m >= q
  <2> SUFFICES ASSUME NEW m \in Outer(l, i, j), ~(m < p)
               PROVE  m >= q
    OBVIOUS
  <2>1. m \in i..j
    BY DEF Outer
  <2>2. m \in p..j
    BY <1>2, <2>1
  <2> QED
    BY <1>5, <1>7, <2>2
<1>9. Complete(p, q - 1)
  <2>1. CASE q = end
    <3>1. q - 1 = j
      BY <1>2, <2>1
    <3> QED
      BY <1>3, <3>1
  <2>2. CASE q \in Outer(l, p, j)
    <3>1. p \in Int
      BY <1>2
    <3> QED
      BY <1>3, <2>2, <3>1, SidesComplete
  <2> QED
    BY <1>5, <2>1, <2>2
<1>10. \A m \in 1..(l + 1 - 1) : Outer(m, p, q - 1) = {}
  <2> SUFFICES ASSUME NEW m \in 1..l
               PROVE  Outer(m, p, q - 1) = {}
    OBVIOUS
  <2>1. Outer(m, p, q - 1) = Outer(m, i, j) \cap (p..(q - 1))
    BY <1>4, <1>6
  <2>2. CASE m = l
    <3>1. \A n \in p..(q - 1) : ~(n < p) /\ ~(n >= q)
      BY <1>6
    <3> QED
      BY <1>8, <2>1, <2>2, <3>1
  <2>3. CASE m # l
    <3>1. m \in 1..(l - 1)
      BY <2>3
    <3>2. Outer(m, i, j) = {}
      BY <1>1, <3>1 DEF Suits
    <3> QED
      BY <2>1, <3>2
  <2> QED
    BY <2>2, <2>3
<1>11. \A m \in (l + 1)..3 : Type(q) \notin OperatorsOf[m]
  <2> SUFFICES ASSUME NEW m \in (l + 1)..3
               PROVE  Type(q) \notin OperatorsOf[m]
    OBVIOUS
  <2>1. m \in l..3 /\ m \in 1..3 /\ m # l
    OBVIOUS
  <2>2. CASE q = end
    BY <2>1, <2>2 DEF Suits
  <2>3. CASE q \in Outer(l, p, j)
    <3>1. Type(q) \in OperatorsOf[l]
      BY <2>3 DEF Outer
    <3>2. OperatorsOf[l] \cap OperatorsOf[m] = {}
      BY <2>1, OperatorTypes
    <3> QED
      BY <3>1, <3>2
  <2> QED
    BY <1>5, <2>2, <2>3
<1>12. \A k \in p..(q - 1) : Literal(k) \notin Mistaken
  <2>1. \A k \in p..(q - 1) : k \in i..(end - 1)
    BY <1>2, <1>6
  <2> QED
    BY <2>1 DEF Suits
<1>13. Suits(l + 1, p, q)
  <2> DEFINE level == l + 1
  <2>1. /\ \A m \in 1..(level - 1) : Outer(m, p, q - 1) = {}
        /\ \A m \in level..3 : Type(q) \notin OperatorsOf[m]
    BY ONLY <1>10, <1>11
  <2> HIDE DEF level
  <2>2. Suits(level, p, q)
    BY ONLY <1>6, <1>9, <1>12, <2>1, Zenon DEF Suits
  <2> QED
    BY ONLY <2>2 DEF level
<1>14. q = end \/ q \in Outer(l, i, end - 1)
  BY <1>1, <1>5, <1>7
<1> QED
  BY <1>1, <1>5, <1>8, <1>13, <1>14

\* An operator and its right operand are added to what was read before.
LEMMA RoundAsMeant ==
  ASSUME Len(tokens) \in Nat, NEW l \in 1..3, NEW i, NEW end, Suits(l, i, end),
         NEW p \in Outer(l, i, end - 1), NEW q \in (p + 2)..end,
         \A m \in Outer(l, i, end - 1) : m < p + 1 \/ m >= q,
         IsReadAs(l + 1, p + 1, q)
  PROVE  Round(l, AsMeant(i, p), Parsed) = AsMeant(i, q)
<1>1. PICK j \in Int : j = end - 1
  BY DEF Suits, Places
<1>2. i \in Int /\ i \in 1..Len(tokens) /\ end \in 1..Len(tokens) /\ j \in i..Len(tokens)
      /\ end = j + 1 /\ p \in i..j /\ Type(p) \in OperatorsOf[l]
  BY <1>1 DEF Suits, Places, Outer
<1>3. Round(l, AsMeant(i, p), Parsed) = Joined(AsMeant(i, p), Parsed[<<l + 1, p + 1>>])
  BY <1>2 DEF Round, AsMeant
<1>4. Round(l, AsMeant(i, p), Parsed) = Joined(AsMeant(i, p), AsMeant(p + 1, q))
  BY <1>3 DEF IsReadAs
<1>5. BinaryOperator(p, q) = Type(p)
  <2>1. q - 1 \in i..(end - 1)
    BY <1>2
  <2>2. Literal(q - 1) \notin Mistaken
    BY <2>1 DEF Suits
  <2> QED
    BY <2>2 DEF BinaryOperator, Mistaken
<1>6. Round(l, AsMeant(i, p), Parsed)
         = [next |-> q, errs |-> 0,
            expr |-> Binary(Type(p), Meaning[<<i, p - 1>>], Meaning[<<p + 1, q - 1>>])]
  BY <1>4, <1>5 DEF Joined, AsMeant
<1>7. \A m : Outer(m, i, q - 1) = Outer(m, i, j) \cap (i..(q - 1))
  <2>1. q - 1 \in Int /\ q - 1 <= j /\ i \in i..j /\ i \in Int /\ j \in Int
    BY <1>1, <1>2
  <2>2. Open(i, i - 1) = 0
    BY ONLY <2>1, OpenNone
  <2>3. PICK b \in Int : b = q - 1
    BY ONLY <2>1
  <2>4. \A m : Outer(m, i, b) = Outer(m, i, j) \cap (i..b)
    BY ONLY <2>1, <2>2, <2>3, OuterPart
  <2> QED
    BY ONLY <2>3, <2>4
<1>8. p \in Outer(l, i, q - 1)
  <2>1. p \in i..(q - 1)
    BY <1>2
  <2> QED
    BY <1>1, <1>7, <2>1
<1>9. \A m \in 1..(l - 1) : Outer(m, i, q - 1) = {}
  BY <1>1, <1>7 DEF Suits
<1>10. \A m \in Outer(l, i, q - 1) : m <= p
  <2> SUFFICES ASSUME NEW m \in Outer(l, i, q - 1)
               PROVE  m <= p
    OBVIOUS
  <2>1. m \in Outer(l, i, j) /\ m \in i..(q - 1)
    BY <1>7
  <2>2. m < p + 1 \/ m >= q
    BY <1>1, <2>1
  <2> QED
    BY <1>2, <2>1, <2>2
<1>11. i \in Places /\ q - 1 \in Places
  BY <1>2 DEF Places
<1>12. Meaning[<<i, q - 1>>] = Binary(Type(p), Meaning[<<i, p - 1>>], Meaning[<<p + 1, q - 1>>])
  BY <1>8, <1>9, <1>10, <1>11, MeaningOfOperator
<1> QED
  BY <1>6, <1>12 DEF AsMeant

\* The loop of a level reads what it should, if the calls in it do.
LEMMA LevelAsMeant ==
  ASSUME Ended, NEW l \in 1..3, NEW i, NEW end, Suits(l, i, end),
         \A p \in i..(end - 1), q \in i..end : Suits(l + 1, p, q) => IsReadAs(l + 1, p, q)
  PROVE  IsReadAs(l, i, end)
<1> DEFINE Ops == Outer(l, i, end - 1)
<1>0. Len(tokens) \in Nat
  BY DEF Ended
<1>1. i \in 1..Len(tokens) /\ end \in (i + 1)..Len(tokens) /\ i \in i..(end - 1)
  BY <1>0 DEF Suits, Places
<1>2. \A k \in Ops : k \in (i + 1)..(end - 2) /\ Type(k) \in OperatorsOf[l]
  <2> SUFFICES ASSUME NEW k \in Ops
               PROVE  k \in (i + 1)..(end - 2) /\ Type(k) \in OperatorsOf[l]
    OBVIOUS
  <2>1. i \in Int /\ end - 1 \in Int /\ Complete(i, end - 1)
    BY <1>1 DEF Suits
  <2>2. k \in (i + 1)..(end - 1 - 1)
    BY <2>1, SidesComplete
  <2> QED
    BY <1>1, <2>2 DEF Outer
<1>3. PICK q \in (i + 1)..end : Suits(l + 1, i, q) /\ (q = end \/ q \in Ops)
  BY <1>0, <1>1, NextPart
<1>4. Parsed[<<l + 1, i>>] = AsMeant(i, q)
  BY <1>1, <1>3 DEF IsReadAs
<1>5. Parsed[<<l, i>>] = Chain(l, AsMeant(i, q), Parsed)
  <2>1. <<l, i>> \in Levels \X Places /\ Len(OperatorsOf) = 3
    BY <1>1 DEF Levels, Places, OperatorsOf
  <2>2. Parsed[<<l, i>>] = ParseOf(<<l, i>>, Parsed)
    BY <2>1, ParsedSolved DEF Solved
  <2> QED
    BY <1>4, <2>1, <2>2 DEF ParseOf
<1> DEFINE first == AsMeant(i, q)
           rounds == Len(tokens) - first.next
<1>6. first.next = q
  BY DEF AsMeant
<1>7. rounds \in Nat /\ rounds = Len(tokens) - q /\ first.next \in 0..Len(tokens)
  BY <1>0, <1>1, <1>6
<1> HIDE DEF first, Ops
<1>8. PICK c : IsLoop(c, rounds, l, first, Parsed) /\ Chain(l, first, Parsed) = c[rounds]
  BY <1>0, <1>7, ChainOf, Zenon
<1> HIDE DEF rounds
<1> DEFINE IsRead(n, p) == /\ p = end \/ p \in Ops
                           /\ c[n] = AsMeant(i, p)
                           /\ p = end \/ p >= q + n
           S == {n \in Nat : n <= rounds => \E p : IsRead(n, p)}
<1>9. 0 \in S
  <2>1. 0 \in 0..rounds
    BY <1>7
  <2>2. c[0] = first
    BY <1>8, <2>1, Zenon DEF IsLoop
  <2>3. IsRead(0, q)
    BY <1>1, <1>3, <2>2 DEF first
  <2> HIDE DEF IsRead
  <2> QED
    BY <2>3
<1>10. ASSUME NEW n \in Nat, n \in S
       PROVE  n + 1 \in S
  <2> SUFFICES ASSUME n + 1 <= rounds
               PROVE  \E p : IsRead(n + 1, p)
    OBVIOUS
  <2>1. n <= rounds
    BY <1>7
  <2>2. PICK p : IsRead(n, p)
    BY <1>10, <2>1
  <2>3. c[n + 1] = Round(l, c[n], Parsed)
    <3>1. \A m \in 0..rounds : m # 0 => c[m] = Round(l, c[m - 1], Parsed)
      BY <1>8, Zenon DEF IsLoop
    <3>2. n + 1 \in 0..rounds /\ n + 1 # 0 /\ n + 1 - 1 = n
      BY <1>7
    <3>3. c[n + 1] = Round(l, c[n + 1 - 1], Parsed)
      BY ONLY <3>1, <3>2
    <3> QED
      BY ONLY <3>2, <3>3
  <2>4. CASE p = end
    <3>1. Type(end) \notin OperatorsOf[l]
      BY DEF Suits
    <3>2. Round(l, AsMeant(i, end), Parsed) = AsMeant(i, end)
      BY <3>1 DEF Round, AsMeant
    <3>3. IsRead(n + 1, end)
      BY <2>2, <2>3, <2>4, <3>2
    <3> HIDE DEF IsRead
    <3> QED
      BY <3>3
  <2>5. CASE p \in Ops
    <3>1. p \in (i + 1)..(end - 2) /\ c[n] = AsMeant(i, p) /\ (p = end \/ p >= q + n)
      BY <1>2, <2>2, <2>5
    <3>2. p + 1 \in i..(end - 1) /\ p + 1 - 1 = p /\ p # end /\ p \in Int
      BY <1>1, <3>1
    <3>3. PICK r \in (p + 1 + 1)..end : /\ Suits(l + 1, p + 1, r)
                                        /\ r = end \/ r \in Ops
                                        /\ \A m \in Ops : m < p + 1 \/ m >= r
      <4> DEFINE s == p + 1
      <4>0. s \in i..(end - 1)
        BY ONLY <3>2, Zenon DEF s
      <4>1. s - 1 = p
        <5>1. p \in Int
          BY <3>2
        <5> QED
          BY ONLY <5>1, SMT
      <4> HIDE DEF s
      <4>2. s - 1 \in Outer(l, i, end - 1)
        BY <2>5, <4>1 DEF Ops
      <4>3. \E r \in (s + 1)..end : /\ Suits(l + 1, s, r)
                                    /\ r = end \/ r \in Ops
                                    /\ \A m \in Ops : m < s \/ m >= r
        BY <1>0, <4>0, <4>2, NextPart DEF Ops
      <4> QED
        BY <4>3 DEF s
    <3>4. r \in i..end /\ r \in (p + 2)..end
      BY <1>1, <3>1
    <3>5. IsReadAs(l + 1, p + 1, r)
      BY <3>2, <3>3, <3>4
    <3>6. Round(l, AsMeant(i, p), Parsed) = AsMeant(i, r)
      BY <1>0, <2>5, <3>3, <3>4, <3>5, RoundAsMeant DEF Ops
    <3>7. r >= q + (n + 1)
      BY <1>3, <3>1, <3>2, <3>4
    <3>8. IsRead(n + 1, r)
      BY <2>3, <3>1, <3>3, <3>6, <3>7
    <3> HIDE DEF IsRead
    <3> QED
      BY <3>8
  <2> QED
    BY <2>2, <2>4, <2>5
<1> HIDE DEF S
<1>11. Nat \subseteq S
  BY <1>9, <1>10, Induction
<1>12. PICK p : IsRead(rounds, p)
  BY <1>7, <1>11 DEF S
<1>13. p = end
  <2>1. CASE p \in Ops
    <3>1. p \in (i + 1)..(end - 2)
      BY <1>2, <2>1
    <3>2. p >= q + rounds
      BY <1>1, <1>12, <3>1
    <3> QED
      BY <1>0, <1>1, <1>3, <1>7, <3>1, <3>2
  <2> QED
    BY <1>12, <2>1
<1> QED
  BY <1>5, <1>8, <1>12, <1>13 DEF IsReadAs, first

\* An operand, or an expression in parentheses.
LEMMA PrimaryAsMeant ==
  ASSUME Ended, NEW i, NEW end, Suits(4, i, end),
         \A p \in (i + 1)..(end - 1), q \in (i + 1)..(end - 1) : Suits(1, p, q) => IsReadAs(1, p, q)
  PROVE  IsReadAs(4, i, end)
<1>0. Len(tokens) \in Nat
  BY DEF Ended
<1>1. i \in 1..Len(tokens) /\ end \in (i + 1)..Len(tokens) /\ i \in Int /\ end - 1 \in Int
      /\ Complete(i, end - 1) /\ \A l \in 1..3 : Outer(l, i, end - 1) = {}
  BY <1>0 DEF Suits, Places
<1>2. Parsed[<<4, i>>] = Primary(i, Parsed)
  <2>1. <<4, i>> \in Levels \X Places /\ Len(OperatorsOf) = 3
    BY <1>1 DEF Levels, Places, OperatorsOf
  <2>2. Parsed[<<4, i>>] = ParseOf(<<4, i>>, Parsed)
    BY <2>1, ParsedSolved DEF Solved
  <2> QED
    BY <2>1, <2>2 DEF ParseOf
<1>3. CASE i = end - 1 /\ Type(i) \in Operands
  <2>1. Primary(i, Parsed) = [next |-> i + 1, expr |-> Leaf(Type(i), Literal(i)), errs |-> 0]
    BY <1>3 DEF Primary
  <2>2. Meaning[<<i, i>>] = Leaf(Type(i), Literal(i))
    <3>1. i \in Places /\ \A l \in 1..3 : Outer(l, i, i) = {}
      BY <1>1, <1>3 DEF Places
    <3> QED
      BY <1>0, <3>1, MeaningOfOperand
  <2>3. i + 1 = end
    BY <1>1, <1>3
  <2> QED
    BY <1>2, <1>3, <2>1, <2>2, <2>3 DEF IsReadAs, AsMeant
<1>4. CASE i < end - 1 /\ Type(i) = "(" /\ Type(end - 1) = ")" /\ Complete(i + 1, end - 1 - 1)
  <2>1. i + 1 \in (i + 1)..(end - 1) /\ end - 1 \in (i + 1)..(end - 1) /\ i + 1 < end - 1
    <3>1. i + 1 <= end - 1 - 1
      BY <1>4 DEF Complete
    <3> QED
      BY <1>1, <3>1
  <2>2. Suits(1, i + 1, end - 1)
    <3>1. i + 1 \in Places /\ end - 1 \in Places
      BY <1>1, <2>1 DEF Places
    <3>2. \A l \in 1..(1 - 1) : Outer(l, i + 1, end - 1 - 1) = {}
      OBVIOUS
    <3>3. \A l \in 1..3 : Type(end - 1) \notin OperatorsOf[l]
      BY <1>4, OperatorTypes
    <3>4. \A k \in (i + 1)..(end - 1 - 1) : Literal(k) \notin Mistaken
      <4>1. \A k \in (i + 1)..(end - 1 - 1) : k \in i..(end - 1)
        BY <1>1
      <4> QED
        BY <4>1 DEF Suits
    <3> QED
      BY <1>4, <2>1, <3>1, <3>2, <3>3, <3>4 DEF Suits
  <2>3. Parsed[<<1, i + 1>>] = AsMeant(i + 1, end - 1)
    BY <2>1, <2>2 DEF IsReadAs
  <2>4. Type(i) \notin Operands
    BY <1>4 DEF Operands
  <2>5. Primary(i, Parsed) = [next |-> end - 1 + 1, expr |-> Meaning[<<i + 1, end - 1 - 1>>],
                              errs |-> 0 + 1 - 1]
    BY <1>4, <2>3, <2>4 DEF Primary, AsMeant, Taken
  <2>6. Meaning[<<i, end - 1>>] = Meaning[<<i + 1, end - 1 - 1>>]
    <3>1. i \in Places /\ end - 1 \in Places /\ i < end - 1
      BY <1>1, <1>4 DEF Places
    <3> QED
      BY <1>0, <1>1, <3>1, MeaningOfParentheses
  <2>7. end - 1 + 1 = end /\ 0 + 1 - 1 = 0
    BY <1>1
  <2> QED
    BY <1>2, <2>5, <2>6, <2>7 DEF IsReadAs, AsMeant
<1> QED
  BY <1>1, <1>3, <1>4, OperandOrParentheses

\* Shorter expressions first, and operands before operators.
LEMMA ReadAsMeant ==
  ASSUME Ended, NEW level \in 1..4, NEW i, NEW end, Suits(level, i, end)
  PROVE  IsReadAs(level, i, end)
<1> DEFINE S == {n \in Nat : \A l \in 1..4, p \in Places, q \in Places :
                    4 * (q - p) + 4 - l < n /\ Suits(l, p, q) => IsReadAs(l, p, q)}
<1>0. Len(tokens) \in Nat
  BY DEF Ended
<1>1. 0 \in S
  <2> SUFFICES ASSUME NEW l \in 1..4, NEW p \in Places, NEW q \in Places,
                      4 * (q - p) + 4 - l < 0, Suits(l, p, q)
               PROVE  FALSE
    OBVIOUS
  <2>1. p \in Int /\ q \in Int /\ p < q
    BY DEF Suits, Places
  <2> QED
    BY <2>1
<1>2. ASSUME NEW n \in Nat, n \in S
      PROVE  n + 1 \in S
  <2> SUFFICES ASSUME NEW l \in 1..4, NEW p \in Places, NEW q \in Places,
                      4 * (q - p) + 4 - l < n + 1, Suits(l, p, q)
               PROVE  IsReadAs(l, p, q)
    OBVIOUS
  <2>1. p \in Int /\ q \in Int /\ p < q /\ 4 * (q - p) + 4 - l <= n
    BY DEF Suits, Places
  <2>2. \A m \in 1..4, a \in Places, b \in Places :
           4 * (b - a) + 4 - m < n /\ Suits(m, a, b) => IsReadAs(m, a, b)
    BY <1>2
  <2>3. CASE l = 4
    <3>1. ASSUME NEW a \in (p + 1)..(q - 1), NEW b \in (p + 1)..(q - 1), Suits(1, a, b)
          PROVE  IsReadAs(1, a, b)
      <4>1. a \in Places /\ b \in Places
        BY <3>1 DEF Suits
      <4>2. 4 * (b - a) + 4 - 1 < n
        BY <2>1, <2>3
      <4> QED
        BY <2>2, <3>1, <4>1, <4>2
    <3> QED
      BY <2>3, <3>1, PrimaryAsMeant
  <2>4. CASE l \in 1..3
    <3>1. ASSUME NEW a \in p..(q - 1), NEW b \in p..q, Suits(l + 1, a, b)
          PROVE  IsReadAs(l + 1, a, b)
      <4>1. a \in Places /\ b \in Places /\ l + 1 \in 1..4
        BY <2>4, <3>1 DEF Suits
      <4>2. 4 * (b - a) + 4 - (l + 1) < n
        BY <2>1, <2>4
      <4> QED
        BY <2>2, <3>1, <4>1, <4>2
    <3> QED
      BY <2>4, <3>1, LevelAsMeant
  <2> QED
    BY <2>3, <2>4
<1> HIDE DEF S
<1>3. Nat \subseteq S
  BY <1>1, <1>2, Induction
<1>4. i \in Places /\ end \in Places /\ i < end
  BY DEF Suits
<1>5. 4 * (end - i) + 4 - level + 1 \in Nat
  BY <1>4 DEF Places
<1>6. 4 * (end - i) + 4 - level < 4 * (end - i) + 4 - level + 1
  BY <1>4 DEF Places
<1> QED
  BY <1>3, <1>4, <1>5, <1>6 DEF S

----------------------------------------------------------------------------
(* The phases.                                                              *)

\* The phases behind the DATA DIVISION leave all this as it is.
LEMMA FrontKept ==
  ASSUME FrontInv, phase \notin {"lex", "items"}, phase' \notin {"lex", "items"},
         UNCHANGED <<lexVars, hierarchyVars, at, inItem, dataErrs>>
  PROVE  FrontInv'
<1>1. LexInv'
  BY LexInvStutter DEF FrontInv
<1>2. CutInv'
  BY CutStutter DEF FrontInv
<1>3. HierarchyInv'
  BY HierarchyStutter DEF FrontInv, ArrangedInv
<1>4. ItemsInv'
  BY DEF FrontInv, ItemsInv, lexVars, hierarchyVars
<1> QED
  BY <1>1, <1>2, <1>3, <1>4 DEF FrontInv, ArrangedInv

LEMMA FrontStep ==
  ASSUME FrontInv, [Next]_compilerVars
  PROVE  FrontInv'
<1> USE DEF FrontInv, ArrangedInv
<1>1. CASE Tokenize
  <2>1. LexInv' /\ CutInv'
    BY <1>1, LexStep, CutStep DEF Tokenize
  <2>2. StartHierarchy' /\ HierarchyInv'
    BY <1>1, HierarchyStutter DEF Tokenize, hierarchyVars, StartHierarchy
  <2>3. mode' = "done" => tokens' # <<>> /\ tokens' \in Seq(Token)
    BY <2>1 DEF CutInv, Cutting, CutUp, Reading, LexInv, TokensInv
  <2>4. mode' = "done" => 1 <= Len(tokens')
    BY <2>3
  <2>5. /\ at' = at /\ inItem' = inItem /\ dataErrs' = dataErrs /\ items' = items /\ at = 1
        /\ phase' = IF mode' = "done" THEN "items" ELSE "lex"
    BY <1>1 DEF Tokenize, ItemsInv, hierarchyVars
  <2>6. ItemsInv'
    BY <2>4, <2>5 DEF ItemsInv
  <2> QED
    BY <2>1, <2>2, <2>6
<1>2. CASE ParseItems
  <2>1. LexInv' /\ CutInv'
    BY <1>2, LexInvStutter, CutStutter DEF ParseItems
  <2>2. Ended /\ phase = "items" /\ UNCHANGED <<lexVars, next, stack, parent>>
    BY <1>2, DoneIsEnded DEF ParseItems, ItemsInv
  <2>3. CASE LevelNumber /\ UNCHANGED phase
    BY <2>1, <2>2, <2>3, ItemBegun
  <2>4. CASE (PictureClause \/ NoPictureCharacter) /\ UNCHANGED phase
    BY <2>1, <2>2, <2>4, ItemHasPicture
  <2>5. CASE (ItemEnd \/ OccursClause \/ ValueClause \/ UnknownClause) /\ UNCHANGED phase
    BY <2>1, <2>2, <2>5, ItemGoesOn
  <2>6. CASE InvalidLevel /\ phase' = "hierarchy"
    BY <2>1, <2>2, <2>6, ItemGoesOn
  <2>7. CASE ItemsEnd /\ phase' = "hierarchy" /\ UNCHANGED <<items, at, inItem, dataErrs>>
    <3>1. HierarchyInv'
      BY <2>2, <2>7, SameItems
    <3>2. ItemsInv'
      BY <2>2, <2>7 DEF ItemsInv, lexVars
    <3> QED
      BY <2>1, <2>7, <3>1, <3>2
  <2> QED
    BY <1>2, <2>3, <2>4, <2>5, <2>6, <2>7 DEF ParseItems, ItemStep
<1>3. CASE BuildHierarchy
  <2>1. LexInv' /\ CutInv'
    BY <1>3, LexInvStutter, CutStutter DEF BuildHierarchy
  <2>2. HierarchyInv' /\ phase' = phase /\ phase = "hierarchy"
    BY <1>3, HierarchyStep DEF BuildHierarchy
  <2>3. items' = items
    BY <1>3 DEF BuildHierarchy, HierarchyNext, Pop, AddItem
  <2>4. ItemsInv'
    BY <1>3, <2>3 DEF BuildHierarchy, ItemsInv, lexVars
  <2> QED
    BY <2>1, <2>2, <2>4
<1>4. CASE ParseProcedure
  BY <1>4, FrontKept DEF ParseProcedure
<1>5. CASE CheckTypes
  BY <1>5, FrontKept DEF CheckTypes
<1>6. CASE Generate
  BY <1>6, FrontKept DEF Generate
<1>7. CASE Link
  BY <1>7, FrontKept DEF Link
<1>8. CASE UNCHANGED compilerVars
  <2>1. LexInv' /\ CutInv' /\ HierarchyInv'
    BY <1>8, LexInvStutter, CutStutter, HierarchyStutter DEF compilerVars
  <2>2. ItemsInv'
    BY <1>8 DEF compilerVars, ItemsInv, lexVars, hierarchyVars
  <2>3. phase' \in {"lex", "items"} => StartHierarchy'
    BY <1>8 DEF compilerVars, hierarchyVars, StartHierarchy
  <2> QED
    BY <2>1, <2>2, <2>3
<1> QED
  BY <1>1, <1>2, <1>3, <1>4, <1>5, <1>6, <1>7, <1>8 DEF Next

LEMMA FrontHolds == Spec => []FrontInv
<1>1. Init => FrontInv
  <2> SUFFICES ASSUME Init PROVE FrontInv
    OBVIOUS
  <2>1. LexInv /\ CutInv
    BY LexInitInv, CutInit DEF Init
  <2>2. Leveled(items) /\ StartHierarchy
    BY DEF Init, StartItems, Leveled
  <2>3. HierarchyInv
    BY <2>2, HierarchyStartInv
  <2>4. ItemsInv
    <3>1. at = 1 /\ inItem = FALSE /\ dataErrs = 0 /\ Len(items) = 0 /\ phase = "lex"
      BY DEF Init, StartItems
    <3>2. inItem \in BOOLEAN
      BY <3>1, Zenon
    <3>3. at \in Nat \ {0} /\ dataErrs \in 0..(2 * at) /\ Len(items) < at
      BY <3>1
    <3> QED
      BY <3>1, <3>2, <3>3, Zenon DEF ItemsInv
  <2> QED
    BY <2>1, <2>2, <2>3, <2>4 DEF FrontInv, ArrangedInv
<1> QED
  BY <1>1, FrontStep, PTL DEF Spec

\* What the phases add: where the condition ends.
ReadInv ==
    /\ phase \in {"lex", "items", "hierarchy", "parsed", "rejected", "accepted", "panicked",
                  "not assembled", "assembled", "not linked", "built"}
    /\ target \in Targets \cup {"none"}
    /\ phase \in {"lex", "items", "hierarchy"} => condition = NoCondition
    /\ phase # "lex" => condition.next \in 1..Len(tokens)

LEMMA ReadStep ==
  ASSUME ReadInv, FrontInv, FrontInv', [Next]_compilerVars
  PROVE  ReadInv'
<1>0. NoCondition.next = 1
  BY DEF NoCondition
<1>1. CASE Tokenize
  <2>1. condition' = NoCondition /\ target' = target /\ phase' \in {"lex", "items"}
    BY <1>1 DEF Tokenize, ReadInv
  <2>2. phase' # "lex" => 1 \in 1..Len(tokens')
    BY DEF FrontInv, ItemsInv
  <2> QED
    BY <1>0, <2>1, <2>2 DEF ReadInv
<1>2. CASE ParseItems
  <2>1. /\ condition' = condition /\ target' = target /\ tokens' = tokens
        /\ phase = "items" /\ phase' \in {"items", "hierarchy"}
    BY <1>2 DEF ParseItems, lexVars
  <2> QED
    BY <2>1 DEF ReadInv
<1>3. CASE BuildHierarchy
  <2>1. /\ condition' = condition /\ target' = target /\ tokens' = tokens /\ phase' = phase
    BY <1>3 DEF BuildHierarchy, lexVars
  <2> QED
    BY <2>1 DEF ReadInv
<1>4. CASE ParseProcedure
  <2>1. /\ tokens' = tokens /\ target' = target /\ phase' \in {"rejected", "parsed"}
        /\ condition' = IF Type(at) = "IF" THEN ParseExpression(at + 1) ELSE NoCondition
    BY <1>4 DEF ParseProcedure, lexVars
  <2>2. Ended /\ at \in 1..Len(tokens)
    BY <1>4, DoneIsEnded DEF ParseProcedure, FrontInv, ItemsInv
  <2>3. condition'.next \in 1..Len(tokens)
    <3>1. CASE Type(at) = "IF"
      <4>1. at + 1 \in 1..Len(tokens)
        BY <2>2, <3>1, NotAtEnd
      <4>2. ParseExpression(at + 1).next \in (at + 1)..Len(tokens)
        BY <2>2, <4>1, ExpressionAhead
      <4>3. at \in Int /\ Len(tokens) \in Int
        BY <2>2 DEF Ended
      <4>4. ParseExpression(at + 1).next \in 1..Len(tokens)
        BY ONLY <4>1, <4>2, <4>3
      <4> QED
        BY <2>1, <3>1, <4>4
    <3>2. CASE Type(at) # "IF"
      BY <1>0, <2>1, <2>2, <3>2
    <3> QED
      BY <3>1, <3>2
  <2> QED
    BY <2>1, <2>3 DEF ReadInv
<1>5. CASE CheckTypes
  BY <1>5 DEF CheckTypes, ReadInv, lexVars
<1>6. CASE Generate
  BY <1>6 DEF Generate, ReadInv, lexVars
<1>7. CASE Link
  BY <1>7 DEF Link, ReadInv, lexVars
<1>8. CASE UNCHANGED compilerVars
  BY <1>8 DEF compilerVars, ReadInv, lexVars
<1> QED
  BY <1>1, <1>2, <1>3, <1>4, <1>5, <1>6, <1>7, <1>8 DEF Next

\* For every text the parser stays in front of EOF, in items, groups and the
\* condition, and has reported no more than two errors for each token it is past.
THEOREM TypesHold == Spec => []TypeOK
<1>1. Init => ReadInv
  BY DEF Init, ReadInv
<1>2. FrontInv /\ ReadInv /\ FrontInv' /\ [Next]_compilerVars => ReadInv'
  BY ReadStep
<1>3. FrontInv /\ ReadInv => TypeOK
  <2> SUFFICES ASSUME FrontInv, ReadInv PROVE TypeOK
    OBVIOUS
  <2>1. inItem \in BOOLEAN /\ dataErrs \in 0..(2 * at)
    BY Zenon DEF FrontInv, ItemsInv
  <2>2. phase # "lex" => at \in 1..Len(tokens)
    BY DEF FrontInv, ItemsInv
  <2>3. Len(parent) <= Len(items)
    BY DEF FrontInv, ArrangedInv, HierarchyInv, HierarchyTypeOK
  <2>4. Len(items) <= Len(tokens)
    <3>1. Len(items) \in Nat /\ tokens \in Seq(Token) /\ Len(tokens) \in Nat
      BY DEF FrontInv, ArrangedInv, HierarchyInv, HierarchyTypeOK, LexInv, TokensInv
    <3>2. Len(items) < at /\ at \in Nat /\ (at = 1 \/ at <= Len(tokens))
      BY DEF FrontInv, ItemsInv
    <3> QED
      BY <3>1, <3>2
  <2> QED
    BY <2>1, <2>2, <2>3, <2>4, Zenon DEF TypeOK, ReadInv
<1> QED
  BY <1>1, <1>2, <1>3, FrontHolds, PTL DEF Spec

\* Whatever the text: each token, and each message about it, has the place of
\* its first character,
THEOREM PlacesHold == Spec => []PositionsExact
<1>1. FrontInv => PositionsExact
  BY DEF FrontInv, LexInv, TokensInv, PositionsExact
<1> QED
  BY <1>1, FrontHolds, PTL

\* the tokens are the lexemes of the text,
THEOREM TextIsCut == Spec => []TokensExact
<1>1. FrontInv => TokensExact
  BY CutIsExact DEF FrontInv
<1> QED
  BY <1>1, FrontHolds, PTL

\* and each item that is read from them goes to the nearest item before it with
\* a lower level.
THEOREM HierarchyExactHolds == Spec => []HierarchyExact
<1>1. FrontInv => HierarchyExact
  BY DEF FrontInv, ArrangedInv, HierarchyInv
<1> QED
  BY <1>1, FrontHolds, PTL

\* A condition is what the parser read behind the items, and stays it.
ConditionInv ==
    Parsed1 => condition = IF Type(at) = "IF" THEN ParseExpression(at + 1) ELSE NoCondition

LEMMA ParsedKept ==
  ASSUME tokens' = tokens, text' = text, at' = at
  PROVE  (IF Type(at) = "IF" THEN ParseExpression(at + 1) ELSE NoCondition)'
           = IF Type(at) = "IF" THEN ParseExpression(at + 1) ELSE NoCondition
<1>1. Parsed' = Parsed
  BY SMT DEF Parsed, Primary, Chain, Round, Joined, BinaryOperator, Levels, Taken, Type, Literal, At
<1>2. Type(at)' = Type(at)
  BY DEF Type
<1>3. ParseExpression(at + 1)' = ParseExpression(at + 1)
  BY <1>1 DEF ParseExpression
<1> QED
  BY <1>2, <1>3 DEF NoCondition

LEMMA ConditionStep ==
  ASSUME ConditionInv, [Next]_compilerVars
  PROVE  ConditionInv'
<1>1. CASE Tokenize
  BY <1>1 DEF Tokenize, ConditionInv, Parsed1
<1>2. CASE ParseItems
  BY <1>2 DEF ParseItems, ConditionInv, Parsed1
<1>3. CASE BuildHierarchy
  BY <1>3 DEF BuildHierarchy, ConditionInv, Parsed1
<1>4. CASE ParseProcedure
  <2>1. /\ condition' = IF Type(at) = "IF" THEN ParseExpression(at + 1) ELSE NoCondition
        /\ tokens' = tokens /\ text' = text /\ at' = at
    BY <1>4 DEF ParseProcedure, lexVars
  <2> QED
    BY <2>1, ParsedKept DEF ConditionInv
<1>5. CASE \/ CheckTypes \/ Generate \/ Link \/ UNCHANGED compilerVars
  <2>1. /\ condition' = condition /\ tokens' = tokens /\ text' = text /\ at' = at
        /\ Parsed1' => Parsed1
    BY <1>5 DEF CheckTypes, Generate, Link, compilerVars, lexVars, Parsed1
  <2> QED
    BY <2>1, ParsedKept DEF ConditionInv
<1> QED
  BY <1>1, <1>2, <1>3, <1>4, <1>5 DEF Next

\* The condition is read as what its tokens mean, however long it is and however
\* deep its parentheses are.
THEOREM ExpressionExactHolds == Spec => []ExpressionExact
<1>1. Init => ConditionInv
  BY DEF Init, ConditionInv, Parsed1
<1>2. FrontInv /\ ConditionInv => ExpressionExact
  <2> SUFFICES ASSUME FrontInv, ConditionInv, Parsed1, Type(at) = "IF",
                      Complete(at + 1, ConditionEnd),
                      ~ \E k \in (at + 1)..ConditionEnd :
                           Literal(k) \in {<<">", "=">>, <<"<", "=">>, <<"<", ">">>}
               PROVE  /\ condition.expr = Meaning[<<at + 1, ConditionEnd>>]
                      /\ condition.next = ConditionEnd + 1
                      /\ condition.errs = 0
    BY DEF ExpressionExact
  <2> DEFINE i == at + 1
             end == Len(tokens)
  <2>1. Ended /\ at \in 1..Len(tokens)
    BY DoneIsEnded DEF FrontInv, ItemsInv, Parsed1
  <2>2. /\ end \in Nat /\ ConditionEnd = end - 1 /\ end - 1 + 1 = end
        /\ i \in Places /\ end \in Places /\ i < end
    <3>1. at + 1 <= ConditionEnd
      BY DEF Complete
    <3> QED
      BY <2>1, <3>1 DEF Ended, ConditionEnd, Places
  <2>3. \A l \in 1..3 : Type(end) \notin OperatorsOf[l]
    BY <2>1, NoOperator DEF Ended
  <2>4. condition = Parsed[<<1, i>>]
    BY DEF ConditionInv, ParseExpression
  <2> HIDE DEF i, end
  <2>5. Suits(1, i, end)
    <3>1. Complete(i, end - 1)
      BY <2>2 DEF i
    <3>2. \A l \in 1..(1 - 1) : Outer(l, i, end - 1) = {}
      OBVIOUS
    <3>3. \A k \in i..(end - 1) : Literal(k) \notin Mistaken
      BY <2>2 DEF i, Mistaken
    <3> QED
      BY <2>2, <2>3, <3>1, <3>2, <3>3 DEF Suits
  <2>6. condition = AsMeant(i, end)
    BY <2>1, <2>4, <2>5, ReadAsMeant DEF IsReadAs
  <2> QED
    BY <2>2, <2>6 DEF AsMeant, i
<1> QED
  BY <1>1, <1>2, ConditionStep, FrontHolds, PTL DEF Spec
=============================================================================
