---------------------------- MODULE FieldMemory ----------------------------
(***************************************************************************)
(* The bytes of the items of a program for the host: what the statements   *)
(* that codegen.go generates, and the runtime, store into them, and what   *)
(* cob_picx_eq, and its twin for bare metal, make of them.                 *)
(*                                                                         *)
(* A PIC X item of size n is n + 1 bytes, the last one a NUL; a PIC 9 item *)
(* is an i32 of four, however many digits it has.  The linker lays them    *)
(* out one behind another, so what is stored over the end of an item is    *)
(* stored into the next one.                                               *)
(*                                                                         *)
(* STRING and UNSTRING are the matter of StringRuntime.                    *)
(***************************************************************************)
EXTENDS Naturals, Sequences

CONSTANTS
    TextItems,      \* the PIC X items
    NumberItems,    \* the PIC 9 items
    Size,           \* of each item: its characters, or its digits
    Base,           \* the first byte of each item is the one behind this
    Top,            \* the bytes of memory
    Byte, Chars,    \* all bytes, and those of literals and of what is typed
    Nul, NewlineChar,
    Literals,       \* the string literals of the program
    Integers,       \* values of an i32, each as its four bytes
    Lines,          \* what the user may type on a line
    NumberLength,   \* the characters that ACCEPT reads of a number, 30
    Texts,          \* the bodies of answers, and the fields of requests
    Objects,        \* the texts that are JSON objects, and their members
    MappingBuffer,  \* the bytes of the buffer of MAPPING, 4096
    Group,          \* the items of the group that MAPPING names
    Calls,          \* the HTTP statements: [giving, mapping, status]
    None

Items == TextItems \cup NumberItems
IntBytes == 4       \* an i32

\* What emitDataItem reserves.
Width(f) == IF f \in NumberItems THEN IntBytes ELSE Size[f] + 1
Own(f) == (Base[f] + 1)..(Base[f] + Width(f))

ASSUME ItemsAssumption ==
    /\ Items # {} /\ TextItems \cap NumberItems = {} /\ None \notin Items
    /\ Size \in [Items -> Nat] /\ Base \in [Items -> Nat] /\ Top \in Nat
    /\ \A f \in Items : \A g \in Items \ {f} : Own(f) \cap Own(g) = {}

\* No store of four bytes, or of a byte more than the size, ends behind Top.
ASSUME TopAssumption ==
    \A f \in Items : Base[f] + IntBytes <= Top /\ Base[f] + Size[f] + 1 <= Top

ASSUME BytesAssumption ==
    /\ " " \in Chars /\ Chars \subseteq Byte /\ {Nul, NewlineChar} \subseteq Byte
    /\ Nul \notin Chars /\ NewlineChar \notin Chars /\ Nul # NewlineChar

ASSUME TextsAssumption ==
    /\ Literals \subseteq Seq(Chars) /\ Lines \subseteq Seq(Chars)
    /\ Texts \subseteq Seq(Byte)
    /\ Integers \subseteq {n \in Seq(Byte) : Len(n) = IntBytes}
    /\ NumberLength \in Nat /\ MappingBuffer \in Nat

\* The members of an object by item: those whose names are the name of the item,
\* upper and lower case and hyphens aside.  Nothing is no object.
ASSUME ObjectsAssumption ==
    /\ <<>> \notin DOMAIN Objects /\ Group \subseteq Items
    /\ \A text \in DOMAIN Objects : \A f \in Group :
          Objects[text][f] \subseteq IF f \in NumberItems THEN Integers ELSE Seq(Byte)

ASSUME CallsAssumption ==
    Calls \subseteq [giving : Items \cup {None}, mapping : BOOLEAN, status : NumberItems \cup {None}]

VARIABLES
    memory,     \* all bytes
    stdin,      \* what was typed and not read yet
    call,       \* the HTTP request under way
    shown,      \* what each PIC X item is for COBOL: [text, sides]
    before      \* the memory when the request was made, until its answer is there

vars == <<memory, stdin, call, shown, before>>

\* The first n elements, and a text without the blanks at its end.
Up(s, n) == SubSeq(s, 1, n)
Trimmed(s) ==
    Up(s, CHOOSE n \in 0..Len(s) :
              /\ n = 0 \/ s[n] # " "
              /\ \A k \in (n + 1)..Len(s) : s[k] = " ")

\* C.GoString.
CString(s) ==
    Up(s, CHOOSE n \in 0..Len(s) :
              /\ n = Len(s) \/ s[n + 1] = Nul
              /\ \A k \in 1..n : s[k] # Nul)

\* The first n characters of a text.
Cut(text, n) == IF Len(text) > n THEN Up(text, n) ELSE text

\* n bytes of a text, with blanks behind it.
Padded(text, n) == [i \in 1..n |-> IF i <= Len(text) THEN text[i] ELSE " "]

BytesFrom(f, n) == [i \in 1..n |-> memory[Base[f] + i]]
Bytes(f) == BytesFrom(f, Width(f))

\* The sides of a comparison on which the item is to give its text: on neither
\* where the bytes are not what COBOL says.
Sides == {"left", "right"}
Unclear == [text |-> <<>>, sides |-> {}]

\* All characters of an item are known.  One that holds a NUL is cut on the right.
Full(text) == [text |-> Trimmed(text),
               sides |-> IF \E i \in 1..Len(text) : text[i] = Nul THEN {"left"} ELSE Sides]

\* A line and a NUL, and what was there before.
Short(text) == [text |-> Trimmed(text), sides |-> {"right"}]

Idle == [step |-> "idle"]

\* What emitDataItem writes for VALUE, and for none.
Laid(texts, numbers) ==
    LET value(f) == IF f \in NumberItems THEN numbers[f]
                    ELSE Append(Padded(texts[f], Size[f]), Nul)
        owner(a) == CHOOSE f \in Items : a \in Own(f)
    IN  [a \in 1..Top |-> IF \E f \in Items : a \in Own(f)
                          THEN value(owner(a))[a - Base[owner(a)]] ELSE Nul]

Init ==
    /\ \E texts \in [TextItems -> Literals], numbers \in [NumberItems -> Integers] :
          /\ memory = Laid(texts, numbers)
          /\ shown = [f \in TextItems |-> Full(Cut(texts[f], Size[f]))]
    /\ stdin = <<>>
    /\ call = Idle
    /\ before = None

----------------------------------------------------------------------------
(* Statements of generated code.                                            *)

Between == call.step = "idle"

\* Bytes from the first one of f on, whatever they belong to.
Put(f, bytes) ==
    [a \in DOMAIN memory |-> IF a \in (Base[f] + 1)..(Base[f] + Len(bytes))
                             THEN bytes[a - Base[f]] ELSE memory[a]]

\* A statement stores bytes into f, which is then what is given for COBOL; of
\* another item whose bytes it changes that is not clear any more.
Store(f, bytes, what) ==
    /\ memory' = Put(f, bytes)
    /\ shown' = [g \in TextItems |->
                    IF g = f THEN what
                    ELSE IF \A a \in Own(g) : Put(f, bytes)[a] = memory[a] THEN shown[g]
                    ELSE Unclear]

\* checkMove: a source of more than twice the size of the target is an error.
SizesAccepted(n, f) == n = 0 \/ Size[f] = 0 \/ n <= 2 * Size[f]

\* MOVE of a string literal copies a padded one, and its NUL, into whatever item.
MoveLiteral(f, literal) ==
    /\ Between /\ SizesAccepted(Len(literal), f)
    /\ Store(f, Append(Padded(literal, Size[f]), Nul), Full(Cut(literal, Size[f])))
    /\ UNCHANGED <<stdin, call, before>>

\* MOVE of an integer literal stores an i32 into whatever item.
MoveInteger(f, n) ==
    /\ Between
    /\ Store(f, n, Unclear)
    /\ UNCHANGED <<stdin, call, before>>

\* MOVE of an item loads an i32 and stores it, whatever the items are.  That is
\* all of a PIC X item of up to four characters, if the source is no shorter.
MoveItem(from, to) ==
    /\ Between /\ SizesAccepted(Size[from], to)
    /\ Store(to, BytesFrom(from, IntBytes),
             IF to \notin TextItems \/ from \notin TextItems THEN Unclear
             ELSE IF from = to THEN shown[to]
             ELSE IF Size[to] <= IntBytes /\ Size[to] <= Size[from]
             THEN [shown[from] EXCEPT !.text = Trimmed(Cut(@, Size[to]))]
             ELSE Unclear)
    /\ UNCHANGED <<stdin, call, before>>

\* The size of a PIC X item in characters, not the byte behind them.
SetCharacters(f, text) == Store(f, Padded(text, Size[f]), Full(Cut(text, Size[f])))

Zero == [i \in 1..IntBytes |-> Nul]

Initialize(f) ==
    /\ Between
    /\ \/ f \in TextItems /\ SetCharacters(f, <<>>)
       \/ f \in NumberItems /\ Store(f, Zero, Unclear)
    /\ UNCHANGED <<stdin, call, before>>

\* What is left on stdin, or else one more line; the last one may lack its end.
Typed ==
    IF stdin # <<>> THEN {stdin}
    ELSE {Append(l, NewlineChar) : l \in Lines} \cup (Lines \ {<<>>})

\* fgets: n characters, or all up to the end of the line or of the input, if
\* there are less.
Fgets(input, n) ==
    {Up(input, k) : k \in {j \in 0..Len(input) :
        /\ j = n \/ (j < n /\ j > 0 /\ (j = Len(input) \/ input[j] = NewlineChar))
        /\ \A i \in 1..(j - 1) : input[i] # NewlineChar}}

Behind(input, got) == SubSeq(input, Len(got) + 1, Len(input))

\* Mutant: it is kept.
NewlineKept(bytes, n) == bytes

\* The first new line of n bytes becomes a blank.
NewlineBlank(bytes, n) ==
    [i \in DOMAIN bytes |->
        IF i <= n /\ bytes[i] = NewlineChar /\ \A j \in 1..(i - 1) : bytes[j] # NewlineChar
        THEN " " ELSE bytes[i]]

\* fgets puts a NUL behind what it read and leaves the bytes behind that.
Line(f, got) ==
    NewlineBlank([i \in 1..(Size[f] + 1) |->
                     IF i <= Len(got) THEN got[i]
                     ELSE IF i = Len(got) + 1 THEN Nul ELSE memory[Base[f] + i]],
                 Size[f])

\* What was typed, without the end of the line.
LineText(got) ==
    IF got # <<>> /\ got[Len(got)] = NewlineChar THEN Up(got, Len(got) - 1) ELSE got

\* ACCEPT of a PIC X item.  A line that does not fill the item leaves a NUL in
\* it, and behind that what was there.
Accept(f) ==
    /\ Between /\ f \in TextItems
    /\ \E input \in Typed : \E got \in Fgets(input, Size[f]) :
          /\ Store(f, Line(f, got),
                   IF Len(got) = Size[f] THEN Full(LineText(got)) ELSE Short(LineText(got)))
          /\ stdin' = Behind(input, got)
    /\ UNCHANGED <<call, before>>

\* At the end of the input fgets stores nothing; the item is still searched for
\* a new line, which an answer or a request may have left there.
AcceptAtEnd(f) ==
    /\ Between /\ f \in TextItems /\ stdin = <<>>
    /\ Store(f, NewlineBlank(Bytes(f), Size[f]),
             IF \A i \in 1..Size[f] : Bytes(f)[i] # NewlineChar THEN shown[f] ELSE Unclear)
    /\ UNCHANGED <<stdin, call, before>>

\* ACCEPT of a PIC 9 item reads into a buffer of its own; what atoi makes of
\* it, or of the bytes of that buffer at the end of the input, is any number.
AcceptNumber(f) ==
    /\ Between /\ f \in NumberItems
    /\ \/ \E input \in Typed : \E got \in Fgets(input, NumberLength) : stdin' = Behind(input, got)
       \/ stdin = <<>> /\ UNCHANGED stdin
    /\ \E n \in Integers : Store(f, n, Unclear)
    /\ UNCHANGED <<call, before>>

\* A field of the request of HTTP-LISTEN, for a PIC X item of its MAPPING.
RequestField(f, text) ==
    /\ Between /\ f \in TextItems
    /\ SetCharacters(f, text)
    /\ UNCHANGED <<stdin, call, before>>

----------------------------------------------------------------------------
(* HTTP-GET and the like: doRequest, and what follows it.  The answer goes     *)
(* into the item of GIVING, or into a buffer if there is MAPPING only; POST,   *)
(* PUT and PATCH may have both, and MAPPING then reads the item.               *)

Request(statement) ==
    /\ Between
    /\ call' = [step |-> "sent", statement |-> statement, result |-> "none",
                buffer |-> <<>>, length |-> 0, rest |-> {}]
    /\ before' = memory
    /\ UNCHANGED <<memory, stdin, shown>>

\* The function returns, and MAPPING takes the items of its group in turn: it
\* does not ask for the result.
Returned(result, buffer, length) ==
    call' = [call EXCEPT !.step = "mapping", !.result = result, !.buffer = buffer, !.length = length,
                         !.rest = IF call.statement.mapping THEN Group ELSE {}]

NoAnswer ==
    /\ call.step = "sent"
    /\ Returned("exception", call.buffer, call.length)
    /\ UNCHANGED <<memory, stdin, shown, before>>

\* The STATUS is stored before the body is read.
AnswerBegins ==
    /\ call.step = "sent"
    /\ call' = [call EXCEPT !.step = "reading"]
    /\ IF call.statement.status = None THEN UNCHANGED <<memory, shown>>
       ELSE \E n \in Integers : Store(call.statement.status, n, Unclear)
    /\ UNCHANGED <<stdin, before>>

\* copyToBuf: what the caller says there is room for.
Copied(text, capacity) == Cut(text, capacity)

\* Mutant: what was read until the connection failed is stored.
ReadFailsStored ==
    /\ call.step = "reading"
    /\ Returned("exception", call.buffer, call.length)
    /\ IF call.statement.giving = None THEN UNCHANGED <<memory, shown>>
       ELSE \E text \in Texts : Store(call.statement.giving, Copied(text, 1), Unclear)
    /\ UNCHANGED <<stdin, before>>

\* Nothing is stored of a body that was not read to its end.
ReadFails ==
    /\ call.step = "reading"
    /\ Returned("exception", call.buffer, call.length)
    /\ UNCHANGED <<memory, stdin, shown, before>>

\* Mutant: room for a byte more than the item has.
GivingCapacityMore(f) == Size[f] + 2

\* The capacity that emitHttpCall passes for an item, a PIC 9 item as well.
GivingCapacity(f) == Size[f] + 1

\* Mutant: the capacity is that of an item.
BufferCopiedAll(text) == text

BufferCopied(text) == Copied(text, MappingBuffer)

\* The bytes behind a body that is shorter than the item are left.
ReadBody(text) ==
    /\ call.step = "reading"
    /\ LET giving == call.statement.giving
       IN  IF giving # None
           THEN LET bytes == Copied(text, GivingCapacity(giving))
                IN  /\ Store(giving, bytes,
                             IF Len(text) >= Size[giving] THEN Full(Cut(text, Size[giving]))
                             ELSE Unclear)
                    /\ Returned("ok", <<>>, Len(bytes))
           ELSE /\ LET bytes == IF call.statement.mapping THEN BufferCopied(text) ELSE <<>>
                   IN  Returned("ok", bytes, Len(bytes))
                /\ UNCHANGED <<memory, shown>>
    /\ before' = None
    /\ UNCHANGED stdin

\* What MAPPING takes for JSON: with GIVING the bytes that the item has by now.
JsonText ==
    IF call.statement.giving = None THEN call.buffer
    ELSE BytesFrom(call.statement.giving, call.length)

Members(f) == IF JsonText \in DOMAIN Objects THEN Objects[JsonText][f] ELSE {}

\* cob_json_str and cob_json_int: the item is set if there is a member of its
\* name, and any one of them if there are more.
MapItem(f) ==
    /\ call.step = "mapping" /\ f \in call.rest
    /\ \/ Members(f) = {} /\ UNCHANGED <<memory, shown>>
       \/ f \in TextItems /\ \E text \in Members(f) : SetCharacters(f, text)
       \/ f \in NumberItems /\ \E n \in Members(f) : Store(f, n, Unclear)
    /\ call' = [call EXCEPT !.rest = @ \ {f}]
    /\ UNCHANGED <<stdin, before>>

\* The branch to ON EXCEPTION or NOT ON EXCEPTION.
Return ==
    /\ call.step = "mapping" /\ call.rest = {}
    /\ call' = Idle
    /\ before' = None
    /\ UNCHANGED <<memory, stdin, shown>>

Next ==
    \/ \E f \in Items, l \in Literals : MoveLiteral(f, l)
    \/ \E f \in Items, n \in Integers : MoveInteger(f, n)
    \/ \E f, g \in Items : MoveItem(f, g)
    \/ \E f \in Items : Initialize(f)
    \/ \E f \in TextItems : Accept(f)
    \/ \E f \in TextItems : AcceptAtEnd(f)
    \/ \E f \in NumberItems : AcceptNumber(f)
    \/ \E f \in TextItems, text \in Texts : RequestField(f, text)
    \/ \E statement \in Calls : Request(statement)
    \/ NoAnswer \/ AnswerBegins \/ ReadFails
    \/ \E text \in Texts : ReadBody(text)
    \/ \E f \in Group : MapItem(f)
    \/ Return

Spec == Init /\ [][Next]_vars

----------------------------------------------------------------------------
\* What was read of an answer fits where it is: the buffer of MAPPING, and what
\* is passed for the item of GIVING.
TypeOK ==
    /\ memory \in [1..Top -> Byte]
    /\ stdin \in Seq(Chars \cup {NewlineChar})
    /\ call.step \in {"idle", "sent", "reading", "mapping"}
    /\ call # Idle =>
          /\ call.statement \in Calls /\ call.rest \subseteq Group
          /\ call.buffer \in Seq(Byte) /\ Len(call.buffer) <= MappingBuffer
          /\ call.length \in Nat
          /\ call.statement.giving # None => call.length <= Size[call.statement.giving] + 1
    /\ DOMAIN shown = TextItems /\ \A f \in TextItems : shown[f].sides \subseteq Sides

\* The item ends with its NUL, which printf and C.GoString look for.
Ended(f) == Bytes(f)[Size[f] + 1] = Nul

FourBytesMoved(f) ==
    (\E n \in Integers : MoveInteger(f, n)) \/ (\E g \in Items : MoveItem(g, f))
GivenTo(f) == call.step = "reading" /\ call.statement.giving = f

\* Every step stores into one item only, into no byte that belongs to another or
\* to none, and leaves a PIC X item its NUL.  The exceptions are what emitMove and
\* emitHttpCall make of accepted statements.  Bytes behind the item change by
\*   - MOVE of an integer literal, or of an item, to one of one or two characters;
\*   - MOVE of a string literal to a PIC 9 item of more than three digits, and
\*     GIVING one: both count its digits as bytes.
\* The NUL is lost by GIVING, of a body that is longer than the item, and by MOVE
\* of an integer literal, or of an item, to one of up to three characters.
StoresInOneItem ==
    [][\E f \in Items :
          /\ \/ \A a \in DOMAIN memory \ Own(f) : memory'[a] = memory[a]
             \/ f \in TextItems /\ Width(f) < IntBytes /\ FourBytesMoved(f)
             \/ /\ f \in NumberItems /\ Size[f] + 1 > IntBytes
                /\ GivenTo(f) \/ \E l \in Literals : MoveLiteral(f, l)
          /\ f \in TextItems /\ Ended(f) /\ ~Ended(f)' =>
                GivenTo(f) \/ (Size[f] < IntBytes /\ FourBytesMoved(f))]_vars

\* cob_picx_eq: n bytes of a, and the bytes of b up to a NUL.
PicxEq(a, n, b) == Trimmed(Up(a, n)) = Trimmed(CString(b))

\* The loops of cob_bare_picx_eq: a text without its blanks, and the length of
\* one that ends with a NUL.
TrimmedLength(s, n) ==
    LET length[k \in 0..n] == IF k > 0 /\ s[k] = " " THEN length[k - 1] ELSE k IN length[n]

StringLength(s) ==
    LET length[k \in 0..Len(s)] ==
            IF k < Len(s) /\ s[k + 1] # Nul THEN length[k + 1] ELSE k
    IN  length[0]

\* cob_bare_picx_eq, the comparison of programs for bare metal.
BarePicxEq(a, n, b) ==
    LET length == TrimmedLength(a, n)
    IN  /\ length = TrimmedLength(b, StringLength(b))
        /\ \A i \in 1..length : a[i] = b[i]

\* Both comparisons give the same.
ComparesEqual(a, n, b, expected) == PicxEq(a, n, b) = expected /\ BarePicxEq(a, n, b) = expected

\* Two items, or an item and a literal on either side, are equal for the
\* program when their texts are for COBOL, whose blanks at the end do not count:
\* for items of other sizes, and by the comparison of the host and that of bare
\* metal.  That holds
\*   - on either side, for an item set by VALUE, MOVE of a string literal,
\*     INITIALIZE, a field of a request or a member of an answer, a line that
\*     fills it, GIVING of a body that does, and MOVE of such an item to one of
\*     up to four characters that is no longer;
\*   - on the right, if the item still has its NUL, and no NUL came with the text;
\*   - on the right, behind a line that does not fill the item, too.  On the left
\*     the bytes behind the line would count.
\* No side is promised for other MOVEs of items, MOVE of integer literals, GIVING
\* of a shorter body, and items into which a store over the end of another went.
ComparesAsCobol ==
    /\ \A f \in TextItems : "left" \in shown[f].sides =>
          \A l \in Literals :
              ComparesEqual(Bytes(f), Size[f], Append(l, Nul), shown[f].text = Trimmed(l))
    /\ \A g \in TextItems : "right" \in shown[g].sides /\ Ended(g) =>
          /\ \A l \in Literals :
                ComparesEqual(l, Len(l), Bytes(g), shown[g].text = Trimmed(l))
          /\ \A f \in TextItems : "left" \in shown[f].sides =>
                ComparesEqual(Bytes(f), Size[f], Bytes(g), shown[f].text = shown[g].text)

\* A request whose program goes on with ON EXCEPTION has changed no byte but those
\* of its STATUS, wherever it failed: MAPPING runs behind a failed request as well,
\* also over an item of GIVING that still holds the object of the answer before.
FailureKeepsItems ==
    call.step = "mapping" /\ call.result = "exception" =>
        \A a \in DOMAIN memory :
            memory[a] = before[a] \/ (call.statement.status # None /\ a \in Own(call.statement.status))
=============================================================================
