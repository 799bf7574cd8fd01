------------------------ MODULE StringRuntimeProofs ------------------------
(***************************************************************************)
(* Theorems about StringRuntime for every size of the field, every sending *)
(* item and delimiter, every POINTER, and whatever lies behind it.         *)
(***************************************************************************)
EXTENDS StringRuntime, NaturalLemmas, TLAPS

USE SizeAssumption, ByteAssumption, PointerAssumption

\* No more words are taken than items were tried.
TallyInv == pc = "unstring" => item <= Receivers /\ tally <= item

\* A STRING has overflowed exactly if what it was given goes on behind the field.
PositionInv ==
    pc = "string" =>
        /\ overflow <=> given # <<>> /\ start + Len(given) - 1 > Size
        /\ ~overflow => pos = start + Len(given)

IInv == TypeOK /\ TallyInv /\ FieldIsConcatenation /\ PositionInv

----------------------------------------------------------------------------
(* The operators the actions are built from.                                *)

\* The low half of a C.long is an i32.
LEMMA LowHalf ==
  ASSUME NEW p \in Nat
  PROVE  p % Word \in 0..(Word - 1)
  OBVIOUS

\* A delimiter is looked for in the item only.
LEMMA UntilDelimiterType ==
  ASSUME NEW src \in Seq(Bytes), NEW delim
  PROVE  UntilDelimiter(src, delim) \in 0..Len(src)
<1> DEFINE S == {i \in 1..Len(src) : \A j \in 1..i : ~DelimiterAt(src, delim, j)}
<1>1. IsFiniteSet(1..Len(src)) /\ Cardinality(1..Len(src)) = Len(src)
  BY FS_Interval
<1>2. S \subseteq 1..Len(src)
  OBVIOUS
<1>3. IsFiniteSet(S) /\ Cardinality(S) <= Len(src)
  BY <1>1, <1>2, FS_Subset
<1>4. Cardinality(S) \in Nat
  BY <1>3, FS_CardinalityType
<1> QED
  BY <1>3, <1>4 DEF UntilDelimiter

\* What an item gives is made of bytes.
LEMMA BeforeType ==
  ASSUME NEW src \in Seq(Bytes), NEW delim
  PROVE  Before(src, delim) \in Seq(Bytes)
  BY UntilDelimiterType DEF Before

\* A word ends in the field.
LEMMA WordLengthType ==
  ASSUME pos \in Nat, pos <= Size
  PROVE  WordLength \in 0..(Size - pos + 1)
<1> DEFINE S == {i \in pos..Size : \A j \in pos..i : ~(delimited /\ memory[j] = Blank)}
<1>1. IsFiniteSet(pos..Size) /\ Cardinality(pos..Size) = Size - pos + 1
  BY FS_Interval
<1>2. S \subseteq pos..Size
  OBVIOUS
<1>3. IsFiniteSet(S) /\ Cardinality(S) <= Size - pos + 1
  BY <1>1, <1>2, FS_Subset
<1>4. Cardinality(S) \in Nat
  BY <1>3, FS_CardinalityType
<1> QED
  BY <1>3, <1>4 DEF WordLength

----------------------------------------------------------------------------
(* Every statement preserves the invariant.                                 *)

LEMMA InitInv == Init => IInv
  BY DEF Init, IInv, TypeOK, TallyInv, FieldIsConcatenation, PositionInv,
         Around, AnyByte, Text, Untouched

\* A statement begins anywhere: at 1, or where the C.long of the POINTER says.
LEMMA BeginInv ==
  ASSUME TypeOK, NEW s, NEW p \in BOOLEAN, Begin(s, p)
  PROVE  /\ pos' \in Nat /\ start' = pos' /\ overflow' = FALSE /\ item' = 0
         /\ pc' = s /\ pointed' = p
<1>1. PICK high \in HighWords : pos' = IF p THEN ptr + high * Word ELSE 1
  BY DEF Begin
<1> DEFINE above == high * Word
<1>2. above \in Nat
  BY <1>1
<1>3. pos' = IF p THEN ptr + above ELSE 1
  BY <1>1
<1> HIDE DEF above
<1>4. ptr \in Nat
  BY DEF TypeOK
<1>5. pos' \in Nat
  BY ONLY <1>2, <1>3, <1>4
<1> QED
  BY <1>5 DEF Begin

\* Nothing given yet.
LEMMA NothingGiven ==
  ASSUME NEW s \in Nat, NEW g, Len(g) = 0
  PROVE  s + Len(g) = s /\ (s..(s + Len(g) - 1)) = {}
  OBVIOUS

LEMMA StringInitInv ==
  ASSUME IInv, NEW p \in BOOLEAN, StringInit(p)
  PROVE  IInv'
<1>1. /\ pos' \in Nat /\ start' = pos' /\ overflow' = FALSE /\ item' = 0
      /\ pc' = "string" /\ pointed' = p
  BY BeginInv DEF StringInit, IInv
<1>2. /\ before' = memory /\ given' = <<>>
      /\ UNCHANGED <<memory, ptr, unstringVars>>
  BY DEF StringInit
<1>3. TypeOK'
  <2>1. overflow' \in BOOLEAN /\ pointed' \in BOOLEAN
    BY <1>1
  <2>2. UNCHANGED <<delimited, received, tally, tallyItem>>
    BY <1>2 DEF unstringVars
  <2> QED
    BY <1>1, <1>2, <2>1, <2>2 DEF IInv, TypeOK
<1>4. FieldIsConcatenation' /\ PositionInv' /\ TallyInv'
  <2>1. Len(given') = 0 /\ given' = <<>>
    BY <1>2
  <2>2. FieldIsConcatenation'
    <3> SUFFICES ASSUME NEW i \in Around
                 PROVE  i \notin start'..(start' + Len(given') - 1)
      BY <1>1, <1>2 DEF FieldIsConcatenation
    <3>1. start' \in Nat
      BY <1>1
    <3> QED
      BY <2>1, <3>1, NothingGiven
  <2>3. PositionInv'
    <3>1. start' \in Nat
      BY <1>1
    <3>2. start' + Len(given') = start'
      BY <2>1, <3>1, NothingGiven
    <3>3. ~overflow' /\ pos' = start' + Len(given')
      BY <1>1, <3>2
    <3> QED
      BY <2>1, <3>3 DEF PositionInv
  <2>4. TallyInv'
    BY <1>1 DEF TallyInv
  <2> QED
    BY <2>2, <2>3, <2>4
<1> QED
  BY <1>3, <1>4 DEF IInv

LEMMA UnstringInitInv ==
  ASSUME IInv, NEW p \in BOOLEAN, NEW d \in BOOLEAN, UnstringInit(p, d)
  PROVE  IInv'
<1>1. /\ pos' \in Nat /\ start' = pos' /\ overflow' = FALSE /\ item' = 0
      /\ pc' = "unstring" /\ pointed' = p
  BY BeginInv DEF UnstringInit, IInv
<1>2. /\ delimited' = d /\ tally' = 0
      /\ UNCHANGED <<memory, ptr, received, tallyItem, stringVars>>
  BY DEF UnstringInit
<1>3. TypeOK'
  <2>1. overflow' \in BOOLEAN /\ pointed' \in BOOLEAN /\ delimited' \in BOOLEAN
    BY <1>1, <1>2
  <2>2. UNCHANGED <<before, given>>
    BY <1>2 DEF stringVars
  <2> QED
    BY <1>1, <1>2, <2>1, <2>2 DEF IInv, TypeOK
<1>4. FieldIsConcatenation' /\ PositionInv' /\ TallyInv'
  BY <1>1, <1>2 DEF FieldIsConcatenation, PositionInv, TallyInv
<1> QED
  BY <1>3, <1>4 DEF IInv

\* An item that fits, fits in part, or finds the field full.
LEMMA AddBytesInv ==
  ASSUME IInv, pc = "string", ~overflow,
         NEW bytes \in Seq(Bytes), NEW skipped \in Nat,
         AddBytes(bytes, skipped), given' = given \o bytes,
         UNCHANGED <<pc, start, before>>
  PROVE  /\ memory' \in [Around -> AnyByte] /\ overflow' \in BOOLEAN /\ pos' \in Nat
         /\ FieldIsConcatenation' /\ PositionInv'
<1> DEFINE n == IF Len(bytes) <= Room THEN Len(bytes) ELSE Room
<1>1. /\ pos = start + Len(given) /\ start \in Nat /\ given \in Seq(Bytes)
      /\ memory \in [Around -> AnyByte] /\ pos \in Nat
  BY DEF IInv, TypeOK, PositionInv
<1>2. /\ memory' = [i \in Around |-> IF i \in pos..(pos + n - 1)
                                     THEN bytes[i - pos + 1] ELSE memory[i]]
      /\ overflow' = (n < Len(bytes))
      /\ pos' = IF n < Len(bytes) THEN pos + n + skipped ELSE pos + n
  BY DEF AddBytes
<1>3. Room \in Nat /\ (pos <= Size => Room = Size - pos + 1) /\ (pos > Size => Room = 0)
  BY <1>1 DEF Room
<1>4. n \in 0..Len(bytes) /\ n <= Room /\ (n < Len(bytes) => n = Room)
  BY <1>3
<1> HIDE DEF n
<1>5. /\ given' \in Seq(Bytes) /\ Len(given') = Len(given) + Len(bytes)
      /\ \A k \in 1..Len(given) : given'[k] = given[k]
      /\ \A k \in 1..Len(bytes) : given'[Len(given) + k] = bytes[k]
  BY <1>1
<1>6. memory' \in [Around -> AnyByte]
  <2> SUFFICES ASSUME NEW i \in Around
               PROVE  (IF i \in pos..(pos + n - 1) THEN bytes[i - pos + 1] ELSE memory[i]) \in AnyByte
    BY <1>2
  <2>1. CASE i \in pos..(pos + n - 1)
    <3>1. i - pos + 1 \in 1..Len(bytes)
      BY <2>1, <1>1, <1>4 DEF Around
    <3> QED
      BY <2>1, <3>1 DEF AnyByte
  <2>2. CASE i \notin pos..(pos + n - 1)
    BY <2>2, <1>1
  <2> QED
    BY <2>1, <2>2
<1>7. FieldIsConcatenation'
  <2> SUFFICES ASSUME NEW i \in Around
               PROVE  memory'[i] =
                        IF i \in start..(start + Len(given') - 1) /\ i <= Size
                        THEN given'[i - start + 1] ELSE before[i]
    BY DEF FieldIsConcatenation
  <2>1. memory[i] = IF i \in start..(start + Len(given) - 1) /\ i <= Size
                    THEN given[i - start + 1] ELSE before[i]
    BY DEF IInv, FieldIsConcatenation
  <2>5. memory'[i] = IF i \in pos..(pos + n - 1) THEN bytes[i - pos + 1] ELSE memory[i]
    BY <1>2
  <2>2. CASE i \in pos..(pos + n - 1)
    <3>3. i <= Size
      BY <2>2, <1>1, <1>3, <1>4 DEF Around
    <3>4. i - pos + 1 \in 1..Len(bytes)
      BY <2>2, <1>1, <1>4 DEF Around
    <3>5. i \in Nat /\ start \in Nat /\ Len(given) \in Nat /\ Len(bytes) \in Nat
          /\ pos = start + Len(given) /\ Len(given') = Len(given) + Len(bytes)
      BY <1>1, <1>5 DEF Around
    <3>6. i - start + 1 = Len(given) + (i - pos + 1)
      BY ONLY <3>5
    <3>1. i \in start..(start + Len(given') - 1)
      BY ONLY <3>4, <3>5
    <3>2. given'[i - start + 1] = bytes[i - pos + 1]
      BY <3>4, <3>6, <1>5
    <3> QED
      BY <2>2, <2>5, <3>1, <3>2, <3>3
  <2>3. CASE i \notin pos..(pos + n - 1) /\ i < pos
    <3>1. /\ i \in start..(start + Len(given) - 1) <=> i \in start..(start + Len(given') - 1)
          /\ i \in start..(start + Len(given) - 1) => i - start + 1 \in 1..Len(given)
      BY <2>3, <1>1, <1>5 DEF Around
    <3> QED
      BY <2>1, <2>3, <2>5, <3>1, <1>5
  <2>4. CASE i \notin pos..(pos + n - 1) /\ i >= pos
    <3>1. ~(i \in start..(start + Len(given') - 1) /\ i <= Size)
      BY <2>4, <1>1, <1>3, <1>4, <1>5 DEF Around
    <3>2. i \notin start..(start + Len(given) - 1)
      BY <2>4, <1>1 DEF Around
    <3> QED
      BY <2>1, <2>4, <2>5, <3>1, <3>2
  <2> QED
    BY <1>1, <2>2, <2>3, <2>4 DEF Around
<1>8. PositionInv'
  <2>1. n < Len(bytes) <=> given' # <<>> /\ start + Len(given') - 1 > Size
    <3>1. n < Len(bytes) <=> Len(bytes) > Room
      BY <1>3 DEF n
    <3>2. given' # <<>> <=> Len(given') > 0
      BY <1>5
    <3>3. given # <<>> /\ start + Len(given) - 1 > Size => FALSE
      BY DEF IInv, PositionInv
    <3>4. Len(given) > 0 => pos <= Size + 1
      BY <3>3, <1>1
    <3> QED
      BY <3>1, <3>2, <3>4, <1>1, <1>3, <1>5
  <2>2. ~(n < Len(bytes)) => pos + n = start + Len(given')
    <3>1. SUFFICES ASSUME ~(n < Len(bytes))
                   PROVE  pos + n = start + Len(given')
      OBVIOUS
    <3>2. n = Len(bytes)
      BY <3>1, <1>4
    <3>3. Len(given) \in Nat /\ Len(bytes) \in Nat /\ start \in Nat
      BY <1>1
    <3>4. start + Len(given) + Len(bytes) = start + (Len(given) + Len(bytes))
      BY <3>3
    <3> QED
      BY <3>2, <3>4, <1>1, <1>5
  <2> QED
    BY <1>2, <2>1, <2>2 DEF PositionInv
<1>9. overflow' \in BOOLEAN /\ pos' \in Nat
  BY <1>1, <1>2, <1>4
<1> QED
  BY <1>6, <1>7, <1>8, <1>9

\* After an overflow the field is full and stays as it is.
LEMMA SkipItemInv ==
  ASSUME IInv, pc = "string", overflow,
         NEW src \in Seq(Bytes), NEW bytes \in Seq(Bytes),
         SkipItem(src), given' = given \o bytes,
         UNCHANGED <<pc, start, before>>
  PROVE  /\ memory' \in [Around -> AnyByte] /\ overflow' \in BOOLEAN /\ pos' \in Nat
         /\ FieldIsConcatenation' /\ PositionInv'
<1>1. /\ memory' = memory /\ overflow' = overflow /\ pos' = pos + Len(src)
      /\ start \in Nat /\ given \in Seq(Bytes) /\ pos \in Nat
      /\ start + Len(given) - 1 > Size
      /\ memory \in [Around -> AnyByte] /\ overflow \in BOOLEAN
  BY DEF IInv, TypeOK, PositionInv, SkipItem
<1>2. /\ given' \in Seq(Bytes) /\ Len(given') = Len(given) + Len(bytes)
      /\ \A k \in 1..Len(given) : given'[k] = given[k]
  BY <1>1
<1>3. FieldIsConcatenation'
  <2> SUFFICES ASSUME NEW i \in Around
               PROVE  memory[i] =
                        IF i \in start..(start + Len(given') - 1) /\ i <= Size
                        THEN given'[i - start + 1] ELSE before[i]
    BY <1>1 DEF FieldIsConcatenation
  <2>1. memory[i] = IF i \in start..(start + Len(given) - 1) /\ i <= Size
                    THEN given[i - start + 1] ELSE before[i]
    BY DEF IInv, FieldIsConcatenation
  <2>2. CASE i \in start..Size
    <3>1. /\ i \in start..(start + Len(given) - 1) /\ i \in start..(start + Len(given') - 1)
          /\ i <= Size /\ i - start + 1 \in 1..Len(given)
      BY <2>2, <1>1, <1>2
    <3> QED
      BY <2>1, <3>1, <1>2
  <2>3. CASE i \notin start..Size
    BY <2>1, <2>3, <1>1, <1>2 DEF Around
  <2> QED
    BY <2>2, <2>3
<1>4. PositionInv'
  <2>1. given' # <<>> /\ start + Len(given') - 1 > Size
    <3>1. Len(given) > 0
      BY <1>1 DEF IInv, PositionInv
    <3> QED
      BY <3>1, <1>1, <1>2
  <2> QED
    BY <2>1, <1>1 DEF PositionInv
<1> QED
  BY <1>1, <1>3, <1>4

LEMMA StringAddInv ==
  ASSUME IInv, NEW src \in Seq(Bytes), NEW bytes \in Seq(Bytes), NEW skipped \in Nat,
         StringAdd(src, bytes, skipped)
  PROVE  IInv'
<1>1. /\ pc = "string" /\ given' = given \o bytes /\ item' = item + 1
      /\ UNCHANGED <<ptr, pc, pointed, start, before, unstringVars>>
      /\ (overflow /\ SkipItem(src)) \/ (~overflow /\ AddBytes(bytes, skipped))
  BY DEF StringAdd
<1>2. /\ memory' \in [Around -> AnyByte] /\ overflow' \in BOOLEAN /\ pos' \in Nat
      /\ FieldIsConcatenation' /\ PositionInv'
  <2>1. CASE overflow /\ SkipItem(src)
    BY <1>1, <2>1, SkipItemInv
  <2>2. CASE ~overflow /\ AddBytes(bytes, skipped)
    BY <1>1, <2>2, AddBytesInv
  <2> QED
    BY <1>1, <2>1, <2>2
<1>3. TypeOK' /\ TallyInv'
  BY <1>1, <1>2 DEF IInv, TypeOK, TallyInv, unstringVars
<1> QED
  BY <1>2, <1>3 DEF IInv

LEMMA UnstringExtractInv ==
  ASSUME IInv, UnstringExtract
  PROVE  IInv'
<1>1. TypeOK
  BY DEF IInv
<1>2. /\ pc = "unstring" /\ item < Receivers /\ item' = item + 1
      /\ UNCHANGED <<memory, ptr, pc, pointed, start, stringVars, delimited, tallyItem>>
  BY DEF UnstringExtract
<1>3. /\ received' \in [1..Receivers -> [text : Text, delimiter : {Old, Blank}]]
      /\ pos' \in Nat /\ overflow' \in BOOLEAN /\ tally' \in Nat /\ tally' <= item'
  <2>1. CASE ExtractNothing
    BY <1>1, <1>2, <2>1 DEF TypeOK, ExtractNothing, IInv, TallyInv
  <2>2. CASE pos <= Size /\ ExtractWord(item + 1)
    <3> DEFINE length == WordLength
               found == pos + length <= Size
    <3>1. length \in 0..(Size - pos + 1) /\ pos \in Nat /\ pos <= Size
      BY <1>1, <2>2, WordLengthType DEF TypeOK
    <3> HIDE DEF length
    <3>2. pos' = (IF found THEN pos + length + 1 ELSE pos + length)
          /\ tally' = tally + 1 /\ overflow' = overflow
          /\ received' = [received EXCEPT ![item + 1] =
                            [text |-> Fit(pos, length),
                             delimiter |-> IF found THEN Blank ELSE @.delimiter]]
      BY <2>2 DEF ExtractWord, length
    <3>3. Fit(pos, length) \in Text
      <4> SUFFICES ASSUME NEW j \in 1..FieldSize, j <= length
                   PROVE  memory[pos + j - 1] \in AnyByte
        BY DEF Fit, Text, AnyByte
      <4>1. pos + j - 1 \in Around
        BY <3>1 DEF Around
      <4> QED
        BY <1>1, <4>1 DEF TypeOK
    <3>4. item + 1 \in 1..Receivers
      BY <1>1, <1>2 DEF TypeOK
    <3> QED
      BY <3>1, <3>2, <3>3, <3>4, <1>1, <1>2 DEF TypeOK, IInv, TallyInv
  <2> QED
    BY <2>1, <2>2 DEF UnstringExtract
<1>4. TypeOK' /\ TallyInv'
  BY <1>1, <1>2, <1>3 DEF TypeOK, TallyInv, stringVars
<1>5. FieldIsConcatenation' /\ PositionInv'
  BY <1>2 DEF FieldIsConcatenation, PositionInv
<1> QED
  BY <1>4, <1>5 DEF IInv

\* The steps between statements.
LEMMA FinishInv ==
  ASSUME IInv,
         \/ \E n \in Pointers : MovePointer(n)
         \/ StringFinish
         \/ \E t, o \in BOOLEAN : UnstringFinish(t, o)
  PROVE  IInv'
<1>1. StoredPointer \in 0..(Word - 1)
  BY LowHalf DEF StoredPointer, IInv, TypeOK
<1>2. TypeOK'
  <2>1. CASE \E n \in Pointers : MovePointer(n)
    BY <2>1 DEF IInv, TypeOK, MovePointer, stringVars, unstringVars
  <2>2. CASE StringFinish
    BY <2>2, <1>1 DEF IInv, TypeOK, StringFinish, unstringVars
  <2>3. CASE \E t, o \in BOOLEAN : UnstringFinish(t, o)
    BY <2>3, <1>1 DEF IInv, TypeOK, UnstringFinish, stringVars, Text, Untouched
  <2> QED
    BY <2>1, <2>2, <2>3
<1>3. pc' = "idle"
  BY DEF MovePointer, StringFinish, UnstringFinish
<1> QED
  BY <1>2, <1>3 DEF IInv, TallyInv, FieldIsConcatenation, PositionInv

LEMMA NextInv == IInv /\ [Next]_vars => IInv'
<1> SUFFICES ASSUME IInv, [Next]_vars PROVE IInv'
  OBVIOUS
<1>1. CASE \E p \in BOOLEAN : StringInit(p)
  BY <1>1, StringInitInv
<1>2. CASE \E src \in Sources : StringAddSize(src)
  BY <1>2, StringAddInv DEF StringAddSize
<1>3. CASE \E src \in Sources, delim \in Delims : StringAddUntil(src, delim)
  BY <1>3, StringAddInv, BeforeType DEF StringAddUntil
<1>4. CASE \E p, d \in BOOLEAN : UnstringInit(p, d)
  BY <1>4, UnstringInitInv
<1>5. CASE UnstringExtract
  BY <1>5, UnstringExtractInv
<1>6. CASE UNCHANGED vars
  BY <1>6 DEF vars, stringVars, unstringVars, IInv, TypeOK, TallyInv,
              FieldIsConcatenation, PositionInv
<1>7. CASE \/ \E n \in Pointers : MovePointer(n)
           \/ StringFinish
           \/ \E t, o \in BOOLEAN : UnstringFinish(t, o)
  BY <1>7, FinishInv
<1> QED
  BY <1>1, <1>2, <1>3, <1>4, <1>5, <1>6, <1>7 DEF Next

----------------------------------------------------------------------------
\* The types of all that STRING and UNSTRING use and leave behind, and the
\* position they keep for one another.
THEOREM StringInvariant == Spec => []IInv
  BY InitInv, NextInv, PTL DEF Spec

\* The POINTER item stays an i32 and the tally a number of receiving items.
THEOREM StringTypes == Spec => []TypeOK
<1>1. IInv => TypeOK
  BY DEF IInv
<1> QED
  BY <1>1, StringInvariant, PTL

\* Whatever the POINTER is and however the items end, STRING writes what they
\* give, in order, from there to the end of the field, and nothing else.
THEOREM StringConcatenates == Spec => []FieldIsConcatenation
<1>1. IInv => FieldIsConcatenation
  BY DEF IInv
<1> QED
  BY <1>1, StringInvariant, PTL

\* The bytes that do not get into the field are those behind it, and the one
\* that a POINTER of 0 sends before it.
LEMMA LostBytes ==
  ASSUME TypeOK
  PROVE  (\E i \in DOMAIN given : ~InField(i) /\ ~StoredBefore(i))
            <=> given # <<>> /\ start + Len(given) - 1 > Size
<1>1. /\ start \in Nat /\ Size \in Nat /\ Len(given) \in Nat
      /\ DOMAIN given = 1..Len(given) /\ (given # <<>> <=> Len(given) > 0)
  BY DEF TypeOK
<1>2. \A i \in 1..Len(given) : ~InField(i) /\ ~StoredBefore(i) <=> start + i - 1 > Size
  BY <1>1 DEF InField, StoredBefore
<1>3. ASSUME Len(given) > 0, start + Len(given) - 1 > Size
      PROVE  \E i \in 1..Len(given) : start + i - 1 > Size
  BY <1>1, <1>3
<1>4. ASSUME NEW i \in 1..Len(given), start + i - 1 > Size
      PROVE  Len(given) > 0 /\ start + Len(given) - 1 > Size
  BY <1>1, <1>4
<1> QED
  BY <1>1, <1>2, <1>3, <1>4

\* ON OVERFLOW is taken if and only if a byte of an item is not in the field,
\* but for the byte that a POINTER of 0 sends before the field.
THEOREM StringOverflows == Spec => []OverflowExact
<1>1. IInv => OverflowExact
  BY LostBytes DEF IInv, PositionInv, OverflowExact
<1> QED
  BY <1>1, StringInvariant, PTL

----------------------------------------------------------------------------
(* The words of an UNSTRING.  The position is the start of the next word as *)
(* long as one is left, and as many blanks lie before it as there were      *)
(* words; that says which word of the source each receiving item holds.     *)

BlanksBefore(p) == {x \in Blanks : x < p}
WordOf(k) == [text |-> Fit(StartOf(k), EndOf(k) - StartOf(k)),
              delimiter |-> IF EndOf(k) <= Size THEN Blank ELSE Old]

\* The word after the first t starts at p.
StartsAt(p, t) ==
    /\ start <= p
    /\ t = Cardinality(BlanksBefore(p))
    /\ p = StartOf(t + 1)

\* Every receiving item has its word, and none an early one.
WordInv ==
    IF pc = "unstring"
    THEN /\ tally <= item /\ item <= Receivers
         /\ overflow => tally < item /\ pos > Size
         /\ ~overflow => tally = item
         /\ pos > Size => tally = Words
         /\ pos <= Size => StartsAt(pos, tally)
         /\ \A k \in 1..Receivers :
                received[k] = IF k <= tally THEN WordOf(k) ELSE Untouched
    ELSE received = [k \in 1..Receivers |-> Untouched]

\* The blanks are a finite set of positions in the field.
LEMMA BlanksType ==
  ASSUME TypeOK
  PROVE  /\ Blanks \in SUBSET (start..Size) /\ IsFiniteSet(Blanks)
         /\ Ends \in SUBSET Nat /\ IsFiniteSet(Ends)
         /\ \A p : BlanksBefore(p) \in SUBSET Blanks /\ IsFiniteSet(BlanksBefore(p))
<1>1. start \in Nat /\ Size \in Nat
  BY DEF TypeOK
<1>2. Blanks \in SUBSET (start..Size)
  BY DEF Blanks
<1>3. IsFiniteSet(start..Size)
  BY <1>1, FS_Interval
<1>4. IsFiniteSet(Blanks)
  BY <1>2, <1>3, FS_Subset
<1>5. IsFiniteSet(Ends)
  BY <1>4, FS_AddElement DEF Ends
<1>6. Ends \in SUBSET Nat
  BY <1>1, <1>2 DEF Ends
<1>7. \A p : BlanksBefore(p) \in SUBSET Blanks
  BY DEF BlanksBefore
<1>8. \A p : IsFiniteSet(BlanksBefore(p))
  BY <1>4, <1>7, FS_Subset
<1> QED
  BY <1>2, <1>4, <1>5, <1>6, <1>7, <1>8

\* The blanks before an end say which end it is.
LEMMA EndOfUnique ==
  ASSUME TypeOK, NEW e \in Ends
  PROVE  EndOf(Cardinality(BlanksBefore(e)) + 1) = e
<1> DEFINE k == Cardinality(BlanksBefore(e)) + 1
           Below(x) == {y \in Ends : y < x}
<1>1. \A x \in Ends : Below(x) = BlanksBefore(x)
  <2> SUFFICES ASSUME NEW x \in Ends
               PROVE  Below(x) = BlanksBefore(x)
    OBVIOUS
  <2>1. x <= Size + 1 /\ x \in Nat
    BY BlanksType DEF Ends, TypeOK
  <2> QED
    BY <2>1 DEF BlanksBefore, Ends
<1>2. k - 1 = Cardinality(BlanksBefore(e))
  BY BlanksType, FS_CardinalityType
<1>3. Cardinality(Below(e)) = k - 1
  BY <1>1, <1>2
<1>4. \A x \in Ends : Cardinality(Below(x)) = k - 1 => x = e
  <2> TAKE x \in Ends
  <2> HAVE Cardinality(Below(x)) = k - 1
  <2>1. Cardinality(Below(x)) = Cardinality(Below(e))
    BY <1>3
  <2> QED
    BY <2>1, BlanksType, RankUnique
<1> HIDE DEF k
<1>5. EndOf(k) = CHOOSE x \in Ends : Cardinality(Below(x)) = k - 1
  BY DEF EndOf
<1>6. EndOf(k) = e
  BY <1>3, <1>4, <1>5
<1> QED
  BY <1>6 DEF k

\* A word that begins in the field ends at the next end.
LEMMA NextEnd ==
  ASSUME TypeOK, start <= pos, pos <= Size
  PROVE  /\ pos + WordLength \in Ends
         /\ pos <= pos + WordLength
         /\ BlanksBefore(pos + WordLength) = BlanksBefore(pos)
<1> DEFINE Later == {x \in Ends : pos <= x}
<1>1. pos \in Nat /\ start \in Nat /\ Size \in Nat
  BY DEF TypeOK
<1>2. Size + 1 \in Later
  BY <1>1 DEF Ends
<1>3. Later \in SUBSET Nat
  BY BlanksType
<1>4. PICK m \in Later : \A n \in Later : m <= n
  BY <1>2, <1>3, LeastNumber
<1>5. m \in Nat /\ pos <= m /\ m <= Size + 1 /\ m \in Ends
  BY <1>2, <1>3, <1>4
<1>6. \A j \in pos..Size : j \in Blanks <=> delimited /\ memory[j] = Blank
  BY <1>1 DEF Blanks
<1>7. \A j \in pos..(m - 1) : j \notin Blanks
  BY <1>1, <1>4, <1>5 DEF Ends
<1>8. m <= Size => m \in Blanks
  BY <1>1, <1>5 DEF Ends
<1>9. {i \in pos..Size : \A j \in pos..i : ~(delimited /\ memory[j] = Blank)}
        = pos..(m - 1)
  <2> SUFFICES ASSUME NEW i \in pos..Size
               PROVE  (\A j \in pos..i : ~(delimited /\ memory[j] = Blank)) <=> i < m
    BY <1>1, <1>5
  <2>1. i < m => \A j \in pos..i : ~(delimited /\ memory[j] = Blank)
    BY <1>1, <1>5, <1>6, <1>7
  <2>2. i >= m => m \in pos..i /\ m \in pos..Size /\ m \in Blanks
    BY <1>1, <1>5, <1>8
  <2> QED
    BY <1>1, <1>5, <1>6, <2>1, <2>2
<1>10. WordLength = m - pos
  <2>1. Cardinality(pos..(m - 1)) = m - pos
    <3>1. pos \in Int /\ m - 1 \in Int
      BY <1>1, <1>5
    <3>2. Cardinality(pos..(m - 1)) = IF pos > m - 1 THEN 0 ELSE m - 1 - pos + 1
      BY <3>1, FS_Interval
    <3> QED
      BY <3>2, <1>1, <1>5
  <2> QED
    BY <1>9, <2>1 DEF WordLength
<1>11. pos + WordLength = m
  BY <1>1, <1>5, <1>10
<1>12. BlanksBefore(m) = BlanksBefore(pos)
  <2>1. \A x \in Blanks : x \in Nat /\ x \in start..Size
    BY BlanksType, <1>1
  <2> QED
    BY <1>1, <1>5, <1>7, <2>1 DEF BlanksBefore
<1> QED
  BY <1>5, <1>11, <1>12

\* As long as the position is in the field a word is left.
LEMMA WordLeft ==
  ASSUME TypeOK, pos <= Size, StartsAt(pos, tally)
  PROVE  tally < Words
<1>1. pos \in Nat /\ start \in Nat /\ Size \in Nat /\ start <= pos /\ ~(start > Size)
  BY DEF TypeOK, StartsAt
<1>2. /\ IsFiniteSet(Blanks) /\ BlanksBefore(pos) \in SUBSET Blanks
      /\ IsFiniteSet(BlanksBefore(pos))
  BY BlanksType
<1>3. /\ Cardinality(BlanksBefore(pos)) <= Cardinality(Blanks)
      /\ Cardinality(BlanksBefore(pos)) = Cardinality(Blanks) => Blanks = BlanksBefore(pos)
  BY <1>2, FS_Subset
<1>4. Cardinality(Blanks) \in Nat /\ Cardinality(BlanksBefore(pos)) \in Nat
  BY <1>2, FS_CardinalityType
<1>5. Size \notin BlanksBefore(pos)
  BY <1>1 DEF BlanksBefore
<1>6. CASE Size \in Blanks
  <2>1. Words = Cardinality(Blanks)
    BY <1>1, <1>6 DEF Words
  <2>2. Cardinality(BlanksBefore(pos)) # Cardinality(Blanks)
    BY <1>3, <1>5, <1>6
  <2> QED
    BY <1>3, <1>4, <2>1, <2>2 DEF StartsAt
<1>7. CASE Size \notin Blanks
  <2>1. Words = Cardinality(Blanks) + 1
    BY <1>1, <1>7 DEF Words
  <2> QED
    BY <1>3, <1>4, <2>1 DEF StartsAt
<1> QED
  BY <1>6, <1>7

\* What follows from the invariant.
LEMMA WordInvExact ==
  ASSUME TypeOK, WordInv
  PROVE  WordsReceived /\ TallyExact
<1> SUFFICES ASSUME pc = "unstring"
             PROVE  WordsReceived /\ TallyExact
  BY DEF WordsReceived, TallyExact
<1>1. /\ tally \in Nat /\ item \in Nat /\ pos \in Nat /\ Size \in Nat
      /\ tally <= item /\ (overflow => tally < item /\ pos > Size)
      /\ (~overflow => tally = item) /\ (pos > Size => tally = Words)
  BY DEF TypeOK, WordInv
<1>2. pos <= Size => tally < Words
  BY WordLeft DEF WordInv
<1>3. Words \in Nat
  BY BlanksType, FS_CardinalityType DEF Words
<1>4. /\ tally = IF item <= Words THEN item ELSE Words
      /\ overflow <=> item > Words
  BY <1>1, <1>2, <1>3
<1>5. \A k \in 1..Receivers : k <= tally <=> k <= item /\ k <= Words
  BY <1>1, <1>2, <1>3
<1> QED
  BY <1>4, <1>5 DEF WordsReceived, TallyExact, WordInv, WordOf

\* While the field stays as it is, so do its words.
LEMMA SameWords ==
  ASSUME UNCHANGED <<memory, start, delimited>>
  PROVE  /\ Words' = Words
         /\ \A p, t : StartsAt(p, t)' <=> StartsAt(p, t)
         /\ \A k : WordOf(k)' = WordOf(k)
<1>1. memory' = memory /\ start' = start /\ delimited' = delimited
  OBVIOUS
<1>2. Blanks' = Blanks
  BY <1>1 DEF Blanks
<1>3. Ends' = Ends
  BY <1>2 DEF Ends
<1>4. \A k : EndOf(k)' = EndOf(k)
  BY <1>3 DEF EndOf
<1>5. \A k : StartOf(k)' = StartOf(k)
  BY <1>1, <1>4 DEF StartOf
<1>6. Words' = Words
  BY <1>1, <1>2 DEF Words
<1>7. \A p : BlanksBefore(p)' = BlanksBefore(p)
  BY <1>2 DEF BlanksBefore
<1>8. \A p, t : StartsAt(p, t)' <=> StartsAt(p, t)
  BY <1>1, <1>5, <1>7 DEF StartsAt
<1>9. \A from, length : Fit(from, length)' = Fit(from, length)
  BY <1>1 DEF Fit
<1>10. \A k : WordOf(k)' = WordOf(k)
  BY <1>4, <1>5, <1>9 DEF WordOf
<1> QED
  BY <1>6, <1>8, <1>10

\* The position behind a word: the next one starts there, or it was the last.
LEMMA BehindWord ==
  ASSUME TypeOK, pos <= Size, StartsAt(pos, tally), NEW m, m = pos + WordLength
  PROVE  /\ m \in Ends /\ m \in Nat /\ pos <= m /\ m <= Size + 1
         /\ WordOf(tally + 1) = [text |-> Fit(pos, WordLength),
                                 delimiter |-> IF m <= Size THEN Blank ELSE Old]
         /\ m < Size => StartsAt(m + 1, tally + 1)
         /\ m >= Size => tally + 1 = Words
<1>1. pos \in Nat /\ start \in Nat /\ Size \in Nat /\ start <= pos /\ ~(start > Size)
      /\ tally \in Nat
  BY DEF TypeOK, StartsAt
<1>2. WordLength \in Nat /\ WordLength = m - pos
  BY <1>1, WordLengthType
<1>3. m \in Ends /\ pos <= m /\ BlanksBefore(m) = BlanksBefore(pos)
  BY <1>1, NextEnd DEF StartsAt
<1>4. m \in Nat /\ m <= Size + 1
  BY <1>1, <1>3, BlanksType DEF Ends
<1>5. Cardinality(BlanksBefore(m)) = tally
  BY <1>3 DEF StartsAt
<1>6. EndOf(tally + 1) = m
  BY <1>3, <1>5, EndOfUnique
<1>7. StartOf(tally + 1) = pos
  BY DEF StartsAt
<1>8. WordOf(tally + 1) = [text |-> Fit(pos, WordLength),
                           delimiter |-> IF m <= Size THEN Blank ELSE Old]
  <2>1. EndOf(tally + 1) - StartOf(tally + 1) = WordLength
    BY <1>2, <1>6, <1>7
  <2> QED
    BY <1>6, <1>7, <2>1, Zenon DEF WordOf
<1>9. IsFiniteSet(BlanksBefore(m)) /\ m \notin BlanksBefore(m)
  <2>1. ~(m < m)
    BY <1>4
  <2> QED
    BY <2>1, BlanksType DEF BlanksBefore
<1>10. ASSUME m \in Blanks
       PROVE  Cardinality(BlanksBefore(m + 1)) = tally + 1
  <2>1. BlanksBefore(m + 1) = BlanksBefore(m) \cup {m}
    <3>1. \A x \in Blanks : x \in Nat /\ (x < m + 1 <=> x < m \/ x = m)
      BY <1>1, <1>4, BlanksType
    <3> QED
      BY <1>10, <3>1 DEF BlanksBefore
  <2> QED
    BY <1>5, <1>9, <2>1, FS_AddElement
<1>11. m < Size => StartsAt(m + 1, tally + 1)
  <2> HAVE m < Size
  <2>1. m \in Blanks
    BY <1>1, <1>3, <1>4 DEF Ends
  <2>2. StartOf(tally + 1 + 1) = m + 1
    <3>1. tally + 1 + 1 # 1 /\ (tally + 1 + 1) - 1 = tally + 1
      BY <1>1
    <3> QED
      BY <1>6, <3>1 DEF StartOf
  <2>3. start <= m + 1
    BY <1>1, <1>3, <1>4
  <2> QED
    BY <1>10, <2>1, <2>2, <2>3 DEF StartsAt
<1>12. BlanksBefore(Size + 1) = Blanks
  <2>1. \A x \in Blanks : x < Size + 1
    BY <1>1, BlanksType
  <2> QED
    BY <2>1 DEF BlanksBefore
<1>13. m >= Size => tally + 1 = Words
  <2>1. CASE m = Size
    <3>1. m \in Blanks
      BY <1>1, <1>3, <2>1 DEF Ends
    <3> QED
      BY <1>1, <1>10, <1>12, <2>1, <3>1 DEF Words
  <2>2. CASE m = Size + 1
    <3>1. Size \notin Blanks
      <4>1. Size \notin BlanksBefore(pos)
        BY <1>1 DEF BlanksBefore
      <4> QED
        BY <1>3, <1>12, <2>2, <4>1
    <3> QED
      BY <1>1, <1>5, <1>12, <2>2, <3>1 DEF Words
  <2> QED
    BY <1>1, <1>4, <2>1, <2>2
<1> QED
  BY <1>3, <1>4, <1>8, <1>11, <1>13

LEMMA UnstringExtractWords ==
  ASSUME TypeOK, WordInv, UnstringExtract
  PROVE  WordInv'
<1>1. /\ pc = "unstring" /\ pc' = "unstring" /\ item < Receivers /\ item' = item + 1
      /\ UNCHANGED <<memory, start, delimited>>
  BY DEF UnstringExtract, stringVars
<1>2. /\ tally \in Nat /\ item \in Nat /\ pos \in Nat /\ Size \in Nat /\ Receivers \in Nat
      /\ received \in [1..Receivers -> [text : Text, delimiter : {Old, Blank}]]
  BY DEF TypeOK
<1>3. /\ tally <= item /\ item <= Receivers
      /\ overflow => tally < item /\ pos > Size
      /\ ~overflow => tally = item
      /\ pos > Size => tally = Words
      /\ pos <= Size => StartsAt(pos, tally)
      /\ \A k \in 1..Receivers :
            received[k] = IF k <= tally THEN WordOf(k) ELSE Untouched
  BY <1>1 DEF WordInv
<1>4. /\ Words' = Words
      /\ \A p, t : StartsAt(p, t)' <=> StartsAt(p, t)
      /\ \A k : WordOf(k)' = WordOf(k)
  BY <1>1, SameWords
\* For the new values, and the words as they were.
<1>5. /\ tally' <= item' /\ item' <= Receivers
      /\ overflow' => tally' < item' /\ pos' > Size
      /\ ~overflow' => tally' = item'
      /\ pos' > Size => tally' = Words
      /\ pos' <= Size => StartsAt(pos', tally')
      /\ \A k \in 1..Receivers :
            received'[k] = IF k <= tally' THEN WordOf(k) ELSE Untouched
  <2>1. CASE (overflow \/ pos > Size) /\ ExtractNothing
    <3>1. pos > Size /\ overflow' /\ received' = received /\ pos' = pos /\ tally' = tally
      BY <1>3, <2>1 DEF ExtractNothing
    <3> QED
      BY <1>1, <1>2, <1>3, <3>1
  <2>2. CASE ~overflow /\ pos <= Size /\ ExtractWord(item + 1)
    <3> DEFINE m == pos + WordLength
    <3>1. /\ received' = [received EXCEPT ![item + 1] =
                            [text |-> Fit(pos, WordLength),
                             delimiter |-> IF m <= Size THEN Blank ELSE @.delimiter]]
          /\ pos' = IF m <= Size THEN m + 1 ELSE m
          /\ tally' = tally + 1 /\ overflow' = overflow
      BY <2>2 DEF ExtractWord
    <3>2. /\ m \in Nat /\ pos <= m /\ m <= Size + 1
          /\ WordOf(tally + 1) = [text |-> Fit(pos, WordLength),
                                  delimiter |-> IF m <= Size THEN Blank ELSE Old]
          /\ m < Size => StartsAt(m + 1, tally + 1)
          /\ m >= Size => tally + 1 = Words
      BY <1>3, <2>2, BehindWord
    <3> HIDE DEF m
    <3>3. item = tally /\ item + 1 \in 1..Receivers
      BY <1>1, <1>2, <1>3, <2>2
    <3>4. received[item + 1].delimiter = Old
      <4>1. received[item + 1] = Untouched
        BY <1>2, <1>3, <3>3
      <4> QED
        BY <4>1 DEF Untouched
    <3>5. \A k \in 1..Receivers :
            received'[k] = IF k <= tally' THEN WordOf(k) ELSE Untouched
      <4> TAKE k \in 1..Receivers
      <4>1. CASE k = item + 1
        <5>1. received'[k] = WordOf(tally + 1)
          BY <1>2, <3>1, <3>2, <3>3, <3>4, <4>1
        <5> QED
          BY <1>2, <3>1, <3>3, <4>1, <5>1
      <4>2. CASE k # item + 1
        <5>1. received'[k] = received[k]
          BY <1>2, <3>1, <3>3, <4>2
        <5>2. k <= tally' <=> k <= tally
          BY <1>2, <3>1, <3>3, <4>2
        <5> QED
          BY <1>3, <5>1, <5>2
      <4> QED
        BY <4>1, <4>2
    <3>6. pos' > Size => tally' = Words
      BY <1>2, <3>1, <3>2
    <3>7. pos' <= Size => StartsAt(pos', tally')
      BY <1>2, <3>1, <3>2
    <3> QED
      BY <1>1, <1>2, <2>2, <3>1, <3>3, <3>5, <3>6, <3>7
  <2> QED
    BY <2>1, <2>2 DEF UnstringExtract
<1>6. pos' <= Size => StartsAt(pos, tally)'
  BY <1>4, <1>5
<1> QED
  BY <1>1, <1>4, <1>5, <1>6 DEF WordInv

LEMMA UnstringInitWords ==
  ASSUME TypeOK, WordInv, NEW p \in BOOLEAN, NEW d \in BOOLEAN, UnstringInit(p, d)
  PROVE  WordInv'
<1>1. /\ pos' \in Nat /\ start' = pos' /\ overflow' = FALSE /\ item' = 0
      /\ pc' = "unstring" /\ pc = "idle" /\ tally' = 0 /\ received' = received
  BY BeginInv DEF UnstringInit, Begin
<1>2. received = [k \in 1..Receivers |-> Untouched]
  BY <1>1 DEF WordInv
<1>3. pos' > Size => Words' = 0
  BY <1>1 DEF Words
<1>4. StartsAt(pos, tally)'
  <2>1. BlanksBefore(pos)' = {}
    <3>1. \A x \in Blanks' : x \in start'..Size
      BY DEF Blanks
    <3> QED
      BY <1>1, <3>1 DEF BlanksBefore
  <2>2. StartOf(tally + 1)' = start'
    BY <1>1 DEF StartOf
  <2> QED
    BY <1>1, <2>1, <2>2, FS_EmptySet DEF StartsAt
<1>5. \A k \in 1..Receivers : received'[k] = Untouched /\ ~(k <= tally')
  BY <1>1, <1>2
<1> QED
  BY <1>1, <1>3, <1>4, <1>5 DEF WordInv

LEMMA WordInvNext == TypeOK /\ WordInv /\ [Next]_vars => WordInv'
<1> SUFFICES ASSUME TypeOK, WordInv, [Next]_vars
             PROVE  WordInv'
  OBVIOUS
<1>1. CASE \E p, d \in BOOLEAN : UnstringInit(p, d)
  BY <1>1, UnstringInitWords
<1>2. CASE UnstringExtract
  BY <1>2, UnstringExtractWords
<1>3. CASE \E t, o \in BOOLEAN : UnstringFinish(t, o)
  BY <1>3 DEF UnstringFinish, WordInv
<1>4. CASE \/ \E n \in Pointers : MovePointer(n)
           \/ \E p \in BOOLEAN : StringInit(p)
           \/ \E src \in Sources : StringAddSize(src)
           \/ \E src \in Sources, delim \in Delims : StringAddUntil(src, delim)
           \/ StringFinish
  <2>1. pc # "unstring" /\ pc' # "unstring" /\ received' = received
    BY <1>4 DEF MovePointer, StringInit, Begin, StringAddSize, StringAddUntil, StringAdd,
                StringFinish, unstringVars
  <2> QED
    BY <2>1 DEF WordInv
<1>5. CASE UNCHANGED vars
  <2>1. UNCHANGED <<memory, start, delimited, pc, pos, tally, item, overflow, received>>
    BY <1>5 DEF vars, unstringVars
  <2>2. /\ Words' = Words
        /\ \A p, t : StartsAt(p, t)' <=> StartsAt(p, t)
        /\ \A k : WordOf(k)' = WordOf(k)
    BY <2>1, SameWords
  <2>3. StartsAt(pos, tally)' <=> StartsAt(pos, tally)
    BY <2>1, <2>2
  <2> QED
    BY <2>1, <2>2, <2>3 DEF WordInv
<1> QED
  BY <1>1, <1>2, <1>3, <1>4, <1>5 DEF Next

\* The words and what follows from them, of every reachable state.
LEMMA UnstringInvariant == Spec => [](TypeOK /\ WordInv)
<1>1. Init => WordInv
  BY DEF Init, WordInv
<1>2. Spec => []TypeOK
  BY StringTypes
<1> QED
  BY <1>1, <1>2, WordInvNext, PTL DEF Spec

\* Wherever an UNSTRING begins and whatever the field holds, its receiving
\* items get the words of the field in order, each with its delimiter.
THEOREM UnstringReceives == Spec => []WordsReceived
<1>1. TypeOK /\ WordInv => WordsReceived
  BY WordInvExact
<1> QED
  BY <1>1, UnstringInvariant, PTL

\* The tally is the number of items that got a word, and ON OVERFLOW is taken
\* if and only if there were more of them than words.
THEOREM UnstringTallies == Spec => []TallyExact
<1>1. TypeOK /\ WordInv => TallyExact
  BY WordInvExact
<1> QED
  BY <1>1, UnstringInvariant, PTL
=============================================================================
