--------------------------- MODULE StringRuntime ---------------------------
(***************************************************************************)
(* STRING and UNSTRING of a hosted program: the calls codegen.go emits and *)
(* the functions of runtime.go they reach.  One PIC X field is the target  *)
(* of every STRING and the source of every UNSTRING, and one PIC 9 item is *)
(* the POINTER of both.  The runtime keeps what it knows of the statement  *)
(* under way in the globals sState and uState; as the program is a single  *)
(* thread, one set of variables stands for both.                           *)
(*                                                                         *)
(* A POINTER is passed as the address of an i32 that the runtime reads and *)
(* writes as a 64 bit C.long.  The upper half it reads is whatever lies    *)
(* behind the i32: a member of HighWords.                                  *)
(***************************************************************************)
EXTENDS Integers, Sequences, FiniteSets

CONSTANTS
    Bytes, Blank,   \* the bytes of fields, the space among them
    Outside,        \* the bytes around the field
    Size,           \* size of the field
    Behind,         \* bound: modelled bytes behind the field
    Sources,        \* the sending items of STRING, without their delimiter
    Delims,         \* the delimiters of STRING other than SIZE
    Word,           \* 2^32
    HighWords,      \* what may lie behind the i32 of a POINTER
    Pointers,       \* what the program moves to the POINTER item
    MaxItems,       \* bound: sending items of a STRING
    Receivers,      \* number of receiving items of an UNSTRING
    FieldSize,      \* size of a receiving item
    Old             \* what a receiving item held before the UNSTRING

ASSUME SizeAssumption ==
    /\ Size \in Nat \ {0}
    /\ Behind \in Nat
    /\ MaxItems \in Nat
    /\ Receivers \in Nat
    /\ FieldSize \in Nat

ASSUME ByteAssumption ==
    /\ Blank \in Bytes
    /\ Outside \notin Bytes
    /\ Old \notin Bytes
    /\ Sources \subseteq Seq(Bytes)
    /\ Delims \subseteq Seq(Bytes) \ {<<>>}     \* an empty one makes Go panic

ASSUME PointerAssumption ==
    /\ Word \in Nat \ {0}
    /\ HighWords \subseteq Nat      \* the access faults for a negative one
    /\ Pointers \subseteq 0..(Word - 1)

Around == 0..(Size + Behind)    \* the field is 1..Size
Untouched == [text |-> Old, delimiter |-> Old]

VARIABLES
    memory,     \* the bytes of the field, and around it
    ptr,        \* the POINTER item
    pc,         \* "idle", "string", "unstring"
    pos,        \* sState.pos, uState.pos
    overflow,   \* sState.overflow, uState.overflow
    pointed,    \* the statement has a POINTER phrase
    item,       \* items of the statement handled so far
    delimited,  \* the UNSTRING is DELIMITED BY SPACE
    received,   \* the receiving items, each with its DELIMITER IN item
    tally,      \* uState.tally
    tallyItem,  \* the TALLYING item
    start,      \* history: the position the statement began at
    before,     \* history: the memory then
    given       \* history: what the sending items have given

stringVars == <<before, given>>
unstringVars == <<delimited, received, tally, tallyItem>>
vars == <<memory, ptr, pc, pos, overflow, pointed, item, start,
          stringVars, unstringVars>>

Init ==
    /\ memory = [i \in Around |-> IF i \in 1..Size THEN Blank ELSE Outside]
    /\ before = memory
    /\ ptr = 0
    /\ pc = "idle"
    /\ pos = 0 /\ start = 0
    /\ overflow = FALSE
    /\ pointed = FALSE
    /\ delimited = FALSE
    /\ item = 0 /\ tally = 0 /\ tallyItem = 0
    /\ received = [i \in 1..Receivers |-> Untouched]
    /\ given = <<>>

\* MOVE n TO the POINTER item.
MovePointer(n) ==
    /\ pc = "idle"
    /\ ptr' = n
    /\ UNCHANGED <<memory, pc, pos, overflow, pointed, item, start,
                   stringVars, unstringVars>>

\* Where a statement begins: cob_string_init, cob_unstring_init.
Begin(statement, withPointer) ==
    /\ pc = "idle"
    /\ pc' = statement
    /\ pointed' = withPointer
    /\ \E high \in HighWords : pos' = IF withPointer THEN ptr + high * Word ELSE 1
    /\ start' = pos'
    /\ overflow' = FALSE
    /\ item' = 0

\* Mutant: the whole C.long is stored back.
StoredPointerWhole == IF pointed THEN pos ELSE ptr

\* The low half is what codegen loads and stores back in the item.
StoredPointer == IF pointed THEN pos % Word ELSE ptr

----------------------------------------------------------------------------
(* STRING *)

StringInit(withPointer) ==
    /\ Begin("string", withPointer)
    /\ before' = memory
    /\ given' = <<>>
    /\ UNCHANGED <<memory, ptr, unstringVars>>

\* A delimiter that the end of the item cuts off is no delimiter.
DelimiterAt(src, delim, i) ==
    /\ i + Len(delim) - 1 <= Len(src)
    /\ \A j \in 1..Len(delim) : src[i + j - 1] = delim[j]

\* How much of an item comes before its first delimiter.
UntilDelimiter(src, delim) ==
    Cardinality({i \in 1..Len(src) : \A j \in 1..i : ~DelimiterAt(src, delim, j)})

Before(src, delim) == SubSeq(src, 1, UntilDelimiter(src, delim))

\* The free bytes of the field from pos on.
Room == IF pos <= Size THEN Size - pos + 1 ELSE 0

\* Mutant: overflows one byte too late.
AddBytesOffByOne(bytes, skipped) ==
    LET room == IF pos <= Size + 1 THEN Size - pos + 2 ELSE 0
        n == IF Len(bytes) <= room THEN Len(bytes) ELSE room
    IN  /\ memory' = [i \in Around |-> IF i \in pos..(pos + n - 1)
                                       THEN bytes[i - pos + 1] ELSE memory[i]]
        /\ overflow' = (n < Len(bytes))
        /\ pos' = IF n < Len(bytes) THEN pos + n + skipped ELSE pos + n

\* The bytes are stored one after the other until the field is full.
AddBytes(bytes, skipped) ==
    LET n == IF Len(bytes) <= Room THEN Len(bytes) ELSE Room
    IN  /\ memory' = [i \in Around |-> IF i \in pos..(pos + n - 1)
                                       THEN bytes[i - pos + 1] ELSE memory[i]]
        /\ overflow' = (n < Len(bytes))
        /\ pos' = IF n < Len(bytes) THEN pos + n + skipped ELSE pos + n

\* After an overflow an item counts with its whole length.
SkipItem(src) ==
    /\ pos' = pos + Len(src)
    /\ UNCHANGED <<memory, overflow>>

\* Mutant: an item does not ask for an earlier overflow.
StringAddAnyway(src, bytes, skipped) ==
    /\ pc = "string"
    /\ item < MaxItems
    /\ item' = item + 1
    /\ given' = given \o bytes
    /\ AddBytes(bytes, skipped)
    /\ UNCHANGED <<ptr, pc, pointed, start, before, unstringVars>>

\* One sending item, of which bytes are to be stored; the byte that does
\* not fit is counted for DELIMITED BY SIZE only.
StringAdd(src, bytes, skipped) ==
    /\ pc = "string"
    /\ item < MaxItems
    /\ item' = item + 1
    /\ given' = given \o bytes
    /\ \/ overflow /\ SkipItem(src)
       \/ ~overflow /\ AddBytes(bytes, skipped)
    /\ UNCHANGED <<ptr, pc, pointed, start, before, unstringVars>>

StringAddSize(src) == StringAdd(src, src, 1)
StringAddUntil(src, delim) == StringAdd(src, Before(src, delim), 0)

StringFinish ==
    /\ pc = "string"
    /\ pc' = "idle"
    /\ ptr' = StoredPointer
    /\ given' = <<>>
    /\ UNCHANGED <<memory, pos, overflow, pointed, item, start, before, unstringVars>>

----------------------------------------------------------------------------
(* UNSTRING.  SPACE is the only delimiter: for an identifier or a literal   *)
(* codegen.go writes the sign of a register twice, which llc rejects.       *)

UnstringInit(withPointer, withDelimiter) ==
    /\ Begin("unstring", withPointer)
    /\ delimited' = withDelimiter
    /\ tally' = 0
    /\ UNCHANGED <<memory, ptr, received, tallyItem, stringVars>>

\* The length of what comes before the next delimiter or the end.
WordLength ==
    Cardinality({i \in pos..Size :
                    \A j \in pos..i : ~(delimited /\ memory[j] = Blank)})

\* A word in a receiving item: cut off or padded.
Fit(from, length) ==
    [j \in 1..FieldSize |-> IF j <= length THEN memory[from + j - 1] ELSE Blank]

\* Mutant: the delimiter stays in the source.
ExtractWordKeepsDelimiter(i) ==
    LET length == WordLength
        found == pos + length <= Size
    IN  /\ received' = [received EXCEPT ![i] =
                            [text |-> Fit(pos, length),
                             delimiter |-> IF found THEN Blank ELSE @.delimiter]]
        /\ pos' = pos + length
        /\ tally' = tally + 1
        /\ UNCHANGED overflow

\* DELIMITER IN is set only if a delimiter was found.  COUNT IN is counted
\* in a temporary that nobody reads.
ExtractWord(i) ==
    LET length == WordLength
        found == pos + length <= Size
    IN  /\ received' = [received EXCEPT ![i] =
                            [text |-> Fit(pos, length),
                             delimiter |-> IF found THEN Blank ELSE @.delimiter]]
        /\ pos' = IF found THEN pos + length + 1 ELSE pos + length
        /\ tally' = tally + 1
        /\ UNCHANGED overflow

\* Nothing is left for this receiving item.
ExtractNothing ==
    /\ overflow' = TRUE
    /\ UNCHANGED <<received, pos, tally>>

\* Mutant: the last byte is taken for the end.
UnstringExtractOffByOne ==
    /\ pc = "unstring"
    /\ item < Receivers
    /\ item' = item + 1
    /\ \/ (overflow \/ pos >= Size) /\ ExtractNothing
       \/ ~overflow /\ pos < Size /\ ExtractWord(item + 1)
    /\ UNCHANGED <<memory, ptr, pc, pointed, start, stringVars, delimited, tallyItem>>

UnstringExtract ==
    /\ pc = "unstring"
    /\ item < Receivers
    /\ item' = item + 1
    /\ \/ (overflow \/ pos > Size) /\ ExtractNothing
       \/ ~overflow /\ pos <= Size /\ ExtractWord(item + 1)
    /\ UNCHANGED <<memory, ptr, pc, pointed, start, stringVars, delimited, tallyItem>>

\* The tally is also stored with 64 bits, after the pointer: its upper half,
\* which is 0, may lie on the i32 of the pointer.  From here on the receiving
\* items are old ones.
UnstringFinish(tallying, onPointer) ==
    /\ pc = "unstring"
    /\ item = Receivers
    /\ pc' = "idle"
    /\ ptr' = IF pointed /\ tallying /\ onPointer THEN 0 ELSE StoredPointer
    /\ tallyItem' = IF tallying THEN tally ELSE tallyItem
    /\ received' = [i \in 1..Receivers |-> Untouched]
    /\ UNCHANGED <<memory, pos, overflow, pointed, item, start, stringVars,
                   delimited, tally>>

----------------------------------------------------------------------------
Next ==
    \/ \E n \in Pointers : MovePointer(n)
    \/ \E p \in BOOLEAN : StringInit(p)
    \/ \E src \in Sources : StringAddSize(src)
    \/ \E src \in Sources, delim \in Delims : StringAddUntil(src, delim)
    \/ StringFinish
    \/ \E p, d \in BOOLEAN : UnstringInit(p, d)
    \/ UnstringExtract
    \/ \E t, o \in BOOLEAN : UnstringFinish(t, o)

Spec == Init /\ [][Next]_vars

----------------------------------------------------------------------------
AnyByte == Bytes \cup {Outside}
Text == [1..FieldSize -> AnyByte] \cup {Old}

\* The types of the variables: in particular the POINTER item stays an i32 and
\* the tally within the number of receiving items.
TypeOK ==
    /\ memory \in [Around -> AnyByte]
    /\ ptr \in 0..(Word - 1)
    /\ pc \in {"idle", "string", "unstring"}
    /\ pos \in Nat
    /\ overflow \in BOOLEAN
    /\ pointed \in BOOLEAN
    /\ item \in Nat
    /\ delimited \in BOOLEAN
    /\ received \in [1..Receivers -> [text : Text, delimiter : {Old, Blank}]]
    /\ tally \in 0..Receivers
    /\ tallyItem \in 0..Receivers
    /\ start \in Nat
    /\ before \in [Around -> AnyByte]
    /\ given \in Seq(Bytes)

\* During a STRING the field holds what its items have given so far, one
\* after the other from where the statement began, as far as the field goes;
\* every other byte, in the field and behind it, is as it was.  This is about
\* the three cob_string_add functions, which keep the position for each other.
\* With a POINTER of 0 the statement begins at the byte before the field, which
\* the first byte given overwrites: the formula describes that and does not
\* excuse it, see OverflowExact.
FieldIsConcatenation ==
    pc = "string" =>
        \A i \in Around :
            memory[i] = IF i \in start..(start + Len(given) - 1) /\ i <= Size
                        THEN given[i - start + 1] ELSE before[i]

\* The i-th byte that a STRING was given belongs in the field.
InField(i) == start + i - 1 \in 1..Size

\* With a POINTER of 0 the first byte is written before the field, and the
\* runtime, which compares the position with the end only, takes it for stored.
StoredBefore(i) == start = 0 /\ i = 1

\* A STRING has overflowed exactly if a byte it was given is not in the field,
\* so ON OVERFLOW is taken if and only if data was lost, with one exception:
\* the byte that a POINTER of 0 sends before the field, where COBOL wants an
\* overflow and no byte stored.  Without an overflow the POINTER will be the
\* position behind the last byte.
OverflowExact ==
    pc = "string" =>
        /\ overflow <=> \E i \in DOMAIN given : ~InField(i) /\ ~StoredBefore(i)
        /\ ~overflow => pos = start + Len(given)

\* The words of the source, from the position an UNSTRING began at: they end
\* at the delimiters and at the end of the source.  With a POINTER of 0 the
\* first word begins with the byte before the source.
Blanks == {i \in start..Size : delimited /\ memory[i] = Blank}
Ends == Blanks \cup {Size + 1}
EndOf(k) == CHOOSE e \in Ends : Cardinality({x \in Ends : x < e}) = k - 1
StartOf(k) == IF k = 1 THEN start ELSE EndOf(k - 1) + 1
Words == IF start > Size THEN 0
         ELSE IF Size \in Blanks THEN Cardinality(Blanks) ELSE Cardinality(Blanks) + 1

\* The receiving items handled so far hold the words of the source in order,
\* each with the delimiter behind it, and the other items are untouched.
WordsReceived ==
    pc = "unstring" =>
        \A k \in 1..Receivers :
            received[k] = IF k <= item /\ k <= Words
                          THEN [text |-> Fit(StartOf(k), EndOf(k) - StartOf(k)),
                                delimiter |-> IF EndOf(k) <= Size THEN Blank ELSE Old]
                          ELSE Untouched

\* The tally counts the items that got a word; an UNSTRING has overflowed
\* exactly if there were more receiving items than words.
TallyExact ==
    pc = "unstring" =>
        /\ tally = IF item <= Words THEN item ELSE Words
        /\ overflow <=> item > Words
=============================================================================
