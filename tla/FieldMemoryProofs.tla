------------------------- MODULE FieldMemoryProofs -------------------------
(* The bytes of items, for every program, layout, text and answer.           *)
EXTENDS FieldMemory, NaturalLemmas, SequenceTheorems, TLAPS

Typable == Chars \cup {NewlineChar}

IsWhat(w) == w = [text |-> w.text, sides |-> w.sides] /\ w.sides \subseteq Sides

MemoryOK == memory \in [1..Top -> Byte]
ShownOK == shown = [f \in TextItems |-> shown[f]] /\ \A f \in TextItems : IsWhat(shown[f])

Running ==
    [step : {"sent", "reading", "mapping"}, statement : Calls, result : {"none", "ok", "exception"},
     buffer : {b \in Seq(Byte) : Len(b) <= MappingBuffer}, length : Nat, rest : SUBSET Group]

\* An HTTP request; what was read into the item of GIVING is no longer than that.
CallOK ==
    call = Idle \/ /\ call \in Running
                   /\ call.statement.giving # None =>
                          call.length <= Size[call.statement.giving] + 1

StdinOK == stdin \in Seq(Typable)

----------------------------------------------------------------------------
(* Items and their bytes.                                                    *)

LEMMA ItemFacts ==
    ASSUME NEW f \in Items
    PROVE  /\ Size[f] \in Nat /\ Base[f] \in Nat /\ Top \in Nat /\ Width(f) \in Nat
           /\ Base[f] + IntBytes <= Top /\ Base[f] + Size[f] + 1 <= Top
           /\ Base[f] + Width(f) <= Top
           /\ f \in TextItems => Width(f) = Size[f] + 1
           /\ f \in NumberItems => Width(f) = IntBytes
<1>1. /\ Size[f] \in Nat /\ Base[f] \in Nat /\ Top \in Nat
      /\ Base[f] + IntBytes <= Top /\ Base[f] + Size[f] + 1 <= Top
  BY ItemsAssumption, TopAssumption
<1>2. CASE f \in NumberItems
  BY <1>1, <1>2, ItemsAssumption DEF Width, IntBytes
<1>3. CASE f \notin NumberItems
  BY <1>1, <1>3 DEF Width
<1> QED
  BY <1>1, <1>2, <1>3

LEMMA FunctionBytes ==
    ASSUME NEW n \in Nat, NEW b \in [1..n -> Byte]
    PROVE  b \in Seq(Byte) /\ Len(b) = n
<1>1. b \in Seq(Byte)
  BY SeqDef
<1> QED
  BY <1>1

LEMMA BytesFromBytes ==
    ASSUME MemoryOK, NEW f \in Items, NEW n \in Nat, Base[f] + n <= Top
    PROVE  /\ BytesFrom(f, n) \in Seq(Byte) /\ Len(BytesFrom(f, n)) = n
           /\ \A i \in 1..n : BytesFrom(f, n)[i] = memory[Base[f] + i]
<1>1. \A i \in 1..n : Base[f] + i \in 1..Top
  BY ItemFacts
<1>2. BytesFrom(f, n) \in [1..n -> Byte]
  BY <1>1 DEF BytesFrom, MemoryOK
<1>3. \A i \in 1..n : BytesFrom(f, n)[i] = memory[Base[f] + i]
  BY DEF BytesFrom
<1> QED
  BY <1>2, <1>3, FunctionBytes

LEMMA BytesOf ==
    ASSUME MemoryOK, NEW f \in Items
    PROVE  /\ Bytes(f) \in Seq(Byte) /\ Len(Bytes(f)) = Width(f)
           /\ \A i \in 1..Width(f) : Bytes(f)[i] = memory[Base[f] + i]
BY ItemFacts, BytesFromBytes DEF Bytes

LEMMA PutBytes ==
    ASSUME MemoryOK, NEW f \in Items, NEW bytes \in Seq(Byte)
    PROVE  /\ Put(f, bytes) \in [1..Top -> Byte]
           /\ \A a \in 1..Top : a \notin (Base[f] + 1)..(Base[f] + Len(bytes)) =>
                  Put(f, bytes)[a] = memory[a]
           /\ \A i \in 1..Len(bytes) : Base[f] + i <= Top => Put(f, bytes)[Base[f] + i] = bytes[i]
<1>0. Base[f] \in Nat /\ Len(bytes) \in Nat /\ Top \in Nat
  BY ItemFacts
<1>1. ASSUME NEW a \in 1..Top
      PROVE  (IF a \in (Base[f] + 1)..(Base[f] + Len(bytes)) THEN bytes[a - Base[f]]
              ELSE memory[a]) \in Byte
  <2>1. CASE a \in (Base[f] + 1)..(Base[f] + Len(bytes))
    <3>1. a - Base[f] \in 1..Len(bytes)
      BY <1>0, <2>1
    <3> QED
      BY <2>1, <3>1
  <2>2. CASE a \notin (Base[f] + 1)..(Base[f] + Len(bytes))
    BY <2>2 DEF MemoryOK
  <2> QED
    BY <2>1, <2>2
<1>2. DOMAIN memory = 1..Top
  BY DEF MemoryOK
<1>3. Put(f, bytes) \in [1..Top -> Byte]
  BY <1>1, <1>2 DEF Put
<1>4. \A a \in 1..Top : a \notin (Base[f] + 1)..(Base[f] + Len(bytes)) =>
                  Put(f, bytes)[a] = memory[a]
  BY <1>2 DEF Put
<1>5. ASSUME NEW i \in 1..Len(bytes), Base[f] + i <= Top
      PROVE  Put(f, bytes)[Base[f] + i] = bytes[i]
  <2>1. /\ Base[f] + i \in 1..Top /\ Base[f] + i \in (Base[f] + 1)..(Base[f] + Len(bytes))
        /\ (Base[f] + i) - Base[f] = i
    BY <1>0, <1>5
  <2> QED
    BY <1>2, <2>1 DEF Put
<1> QED
  BY <1>3, <1>4, <1>5

LEMMA PaddedBytes ==
    ASSUME NEW text \in Seq(Byte), NEW n \in Nat
    PROVE  /\ Padded(text, n) \in Seq(Byte) /\ Len(Padded(text, n)) = n
           /\ \A i \in 1..n : Padded(text, n)[i] = IF i <= Len(text) THEN text[i] ELSE " "
<1>1. ASSUME NEW i \in 1..n
      PROVE  (IF i <= Len(text) THEN text[i] ELSE " ") \in Byte
  <2>1. CASE i <= Len(text)
    <3>1. i \in 1..Len(text)
      BY <2>1
    <3> QED
      BY <2>1, <3>1
  <2>2. CASE ~(i <= Len(text))
    BY <2>2, BytesAssumption
  <2> QED
    BY <2>1, <2>2
<1>2. Padded(text, n) \in [1..n -> Byte]
  BY <1>1 DEF Padded
<1>3. \A i \in 1..n : Padded(text, n)[i] = IF i <= Len(text) THEN text[i] ELSE " "
  BY DEF Padded
<1> QED
  BY <1>2, <1>3, FunctionBytes

LEMMA CutBytes ==
    ASSUME NEW text \in Seq(Byte), NEW n \in Nat
    PROVE  /\ Cut(text, n) \in Seq(Byte) /\ Len(Cut(text, n)) <= n
           /\ Len(text) > n => Len(Cut(text, n)) = n
           /\ ~(Len(text) > n) => Cut(text, n) = text
           /\ \A i \in 1..Len(Cut(text, n)) : Cut(text, n)[i] = text[i]
<1>1. CASE Len(text) > n
  <2>1. /\ SubSeq(text, 1, n) \in Seq(Byte)
        /\ Len(SubSeq(text, 1, n)) = IF 1 <= n THEN n - 1 + 1 ELSE 0
        /\ \A i \in 1..n : SubSeq(text, 1, n)[i] = text[i]
    BY <1>1
  <2>2. Cut(text, n) = SubSeq(text, 1, n)
    BY <1>1 DEF Cut, Up
  <2>3. Len(Cut(text, n)) = n
    BY <2>1, <2>2
  <2> QED
    BY <1>1, <2>1, <2>2, <2>3
<1>2. CASE ~(Len(text) > n)
  BY <1>2 DEF Cut
<1> QED
  BY <1>1, <1>2

\* Literals, and what is typed, are bytes.
LEMMA CharsAreBytes ==
    /\ \A s \in Seq(Chars) : s \in Seq(Byte) /\ s \in Seq(Typable)
    /\ \A s \in Seq(Typable) : s \in Seq(Byte)
    /\ Nul \in Byte /\ NewlineChar \in Typable /\ Nul \notin Typable
<1>1. Chars \subseteq Byte /\ Chars \subseteq Typable /\ Typable \subseteq Byte
  BY BytesAssumption DEF Typable
<1>2. ASSUME NEW S, NEW T, S \subseteq T, NEW s \in Seq(S)
      PROVE  s \in Seq(T)
  BY <1>2
<1>3. Nul \in Byte /\ NewlineChar \in Typable /\ Nul \notin Typable
  BY BytesAssumption DEF Typable
<1> QED
  BY <1>1, <1>2, <1>3, Zenon
----------------------------------------------------------------------------
(* Texts without the blanks at their end, and strings that end with a NUL.   *)

\* The blanks of the first n bytes of s begin behind the j-th.
TextEnds(s, n, j) ==
    /\ j \in 0..n
    /\ j = 0 \/ s[j] # " "
    /\ \A k \in (j + 1)..n : s[k] = " "

\* The string of s that begins behind the k-th byte ends with the j-th.
StringEnds(s, k, j) ==
    /\ j \in k..Len(s)
    /\ j = Len(s) \/ s[j + 1] = Nul
    /\ \A i \in (k + 1)..j : s[i] # Nul

LEMMA TextEnd ==
    ASSUME NEW s, NEW n \in Nat
    PROVE  \E j \in 0..n : TextEnds(s, n, j)
<1> DEFINE BlankBehind(j) == \A k \in (j + 1)..n : s[k] = " "
           S == {j \in 0..n : BlankBehind(j)}
<1>1. n \in S
  <2>1. n \in 0..n /\ (n + 1)..n = {}
    OBVIOUS
  <2> QED
    BY <2>1, Zenon
<1>2. S \in SUBSET Nat /\ \A j \in S : j \in 0..n /\ BlankBehind(j)
  <2>1. \A j \in 0..n : j \in Nat
    OBVIOUS
  <2> QED
    BY <2>1, Zenon
<1>3. \A j \in 0..n : BlankBehind(j) => j \in S
  BY Zenon
<1> HIDE DEF S
<1>4. PICK j \in S : \A i \in S : j <= i
  BY <1>1, <1>2, LeastNumber
<1>5. j \in 0..n /\ BlankBehind(j)
  BY <1>2
<1>6. ASSUME j # 0, s[j] = " "
      PROVE  FALSE
  <2>1. j - 1 \in 0..n /\ \A k \in ((j - 1) + 1)..n : k = j \/ k \in (j + 1)..n
    <3>1. j \in 0..n /\ j # 0
      BY <1>5, <1>6
    <3> QED
      BY ONLY <3>1, n \in Nat
  <2>2. BlankBehind(j - 1)
    BY <1>5, <1>6, <2>1, Zenon
  <2>3. j - 1 \in S
    BY <1>3, <2>1, <2>2, Zenon
  <2>4. j <= j - 1 /\ j \in 0..n
    BY <1>4, <1>5, <2>3, Zenon
  <2> QED
    BY ONLY <2>4, n \in Nat
<1> QED
  BY <1>5, <1>6, Zenon DEF TextEnds

LEMMA TextEndUnique ==
    ASSUME NEW s, NEW n \in Nat, NEW i, NEW j, TextEnds(s, n, i), TextEnds(s, n, j)
    PROVE  i = j
<1>1. ASSUME NEW a \in 0..n, NEW b \in 0..n, TextEnds(s, n, a), TextEnds(s, n, b)
      PROVE  ~(a < b)
  <2> SUFFICES ASSUME a < b PROVE FALSE
    OBVIOUS
  <2>1. b \in (a + 1)..n /\ b # 0
    OBVIOUS
  <2> QED
    BY <1>1, <2>1 DEF TextEnds
<1>2. i \in 0..n /\ j \in 0..n
  BY DEF TextEnds
<1>3. ~(i < j) /\ ~(j < i)
  BY <1>1, <1>2
<1> QED
  BY <1>2, <1>3

\* The end of a text depends on its bytes only.
LEMMA SameTextEnd ==
    ASSUME NEW s, NEW t, NEW n \in Nat, \A i \in 1..n : s[i] = t[i], NEW j, TextEnds(s, n, j)
    PROVE  TextEnds(t, n, j)
<1>1. j \in 0..n
  BY DEF TextEnds
<1>2. \A k \in (j + 1)..n : k \in 1..n
  BY <1>1
<1>3. j # 0 => j \in 1..n
  BY <1>1
<1> QED
  BY <1>1, <1>2, <1>3, Zenon DEF TextEnds

LEMMA UpTo ==
    ASSUME NEW S, NEW s \in Seq(S), NEW n \in 0..Len(s)
    PROVE  /\ Up(s, n) \in Seq(S) /\ Len(Up(s, n)) = n
           /\ \A i \in 1..n : Up(s, n)[i] = s[i]
           /\ Up(s, Len(s)) = s
BY DEF Up

LEMMA TrimmedIs ==
    ASSUME NEW S, NEW s \in Seq(S), NEW j, TextEnds(s, Len(s), j)
    PROVE  Trimmed(s) = Up(s, j)
<1> DEFINE P(n) == /\ n = 0 \/ s[n] # " "
                   /\ \A k \in (n + 1)..Len(s) : s[k] = " "
           c == CHOOSE n \in 0..Len(s) : P(n)
<1>1. j \in 0..Len(s) /\ P(j)
  BY DEF TextEnds
<1>2. c \in 0..Len(s) /\ P(c)
  <2> HIDE DEF P
  <2> QED
    BY <1>1, Zenon
<1>3. TextEnds(s, Len(s), c)
  <2> HIDE DEF c
  <2> QED
    BY <1>2 DEF TextEnds
<1>4. c = j
  <2> HIDE DEF c
  <2> QED
    BY <1>3, TextEndUnique
<1>5. Trimmed(s) = Up(s, c)
  BY DEF Trimmed
<1> QED
  BY <1>4, <1>5, Zenon

\* Texts are the same without their blanks if they end at one place, and have
\* the same characters up to there.
LEMMA SameUp ==
    ASSUME NEW S, NEW s \in Seq(S), NEW t \in Seq(S), NEW i \in 0..Len(s), NEW j \in 0..Len(t)
    PROVE  Up(s, i) = Up(t, j) <=> i = j /\ \A k \in 1..i : s[k] = t[k]
<1>1. /\ Up(s, i) \in Seq(S) /\ Len(Up(s, i)) = i /\ \A k \in 1..i : Up(s, i)[k] = s[k]
      /\ Up(t, j) \in Seq(S) /\ Len(Up(t, j)) = j /\ \A k \in 1..j : Up(t, j)[k] = t[k]
  BY UpTo
<1>2. ASSUME Up(s, i) = Up(t, j)
      PROVE  i = j /\ \A k \in 1..i : s[k] = t[k]
  BY <1>1, <1>2
<1>3. ASSUME i = j, \A k \in 1..i : s[k] = t[k]
      PROVE  Up(s, i) = Up(t, j)
  <2>1. \A k \in 1..Len(Up(s, i)) : Up(s, i)[k] = Up(t, j)[k]
    BY <1>1, <1>3
  <2> QED
    BY <1>1, <1>3, <2>1, SeqEqual
<1> QED
  BY <1>2, <1>3

LEMMA StringEndUnique ==
    ASSUME NEW s, Len(s) \in Nat, NEW k \in Nat, NEW i, NEW j,
           StringEnds(s, k, i), StringEnds(s, k, j)
    PROVE  i = j
<1>1. ASSUME NEW a \in k..Len(s), NEW b \in k..Len(s), StringEnds(s, k, a), StringEnds(s, k, b)
      PROVE  ~(a < b)
  <2> SUFFICES ASSUME a < b PROVE FALSE
    OBVIOUS
  <2>1. a + 1 \in (k + 1)..b /\ a # Len(s)
    OBVIOUS
  <2> QED
    BY <1>1, <2>1 DEF StringEnds
<1>2. i \in k..Len(s) /\ j \in k..Len(s)
  BY DEF StringEnds
<1>3. ~(i < j) /\ ~(j < i)
  BY <1>1, <1>2
<1> QED
  BY <1>2, <1>3

LEMMA CStringIs ==
    ASSUME NEW s, Len(s) \in Nat, NEW m, StringEnds(s, 0, m)
    PROVE  CString(s) = Up(s, m)
<1> DEFINE P(n) == /\ n = Len(s) \/ s[n + 1] = Nul
                   /\ \A k \in 1..n : s[k] # Nul
           c == CHOOSE n \in 0..Len(s) : P(n)
<1>1. m \in 0..Len(s) /\ P(m)
  BY DEF StringEnds
<1>2. c \in 0..Len(s) /\ P(c)
  <2> HIDE DEF P
  <2> QED
    BY <1>1, Zenon
<1>3. StringEnds(s, 0, c)
  <2> HIDE DEF c
  <2> QED
    BY <1>2 DEF StringEnds
<1>4. c = m
  <2> HIDE DEF c
  <2> QED
    BY <1>3, StringEndUnique
<1>5. CString(s) = Up(s, c)
  BY DEF CString
<1> QED
  BY <1>4, <1>5, Zenon

\* One byte more, a blank or not.
LEMMA TextEndStep ==
    ASSUME NEW s, NEW k \in Nat
    PROVE  /\ ~(k > 0 /\ s[k] = " ") => TextEnds(s, k, k)
           /\ \A j : k > 0 /\ s[k] = " " /\ TextEnds(s, k - 1, j) => TextEnds(s, k, j)
<1>1. ASSUME ~(k > 0 /\ s[k] = " ")
      PROVE  TextEnds(s, k, k)
  <2>1. k \in 0..k /\ (k + 1)..k = {} /\ (k = 0 \/ k > 0)
    OBVIOUS
  <2> QED
    BY <1>1, <2>1, Zenon DEF TextEnds
<1>2. ASSUME NEW j, k > 0, s[k] = " ", TextEnds(s, k - 1, j)
      PROVE  TextEnds(s, k, j)
  <2>1. k > 0 /\ j \in 0..(k - 1)
    BY <1>2, Zenon DEF TextEnds
  <2>2. j \in 0..k /\ \A i \in (j + 1)..k : i \in (j + 1)..(k - 1) \/ i = k
    BY ONLY <2>1, k \in Nat
  <2> QED
    BY <1>2, <2>1, <2>2, Zenon DEF TextEnds
<1> QED
  BY <1>1, <1>2

\* The loop of cob_bare_picx_eq that leaves the blanks at the end.
LEMMA TrimmedLengthIs ==
    ASSUME NEW s, NEW n \in Nat, NEW j, TextEnds(s, n, j)
    PROVE  TrimmedLength(s, n) = j
<1> DEFINE Body(f) == [k \in 0..n |-> IF k > 0 /\ s[k] = " " THEN f[k - 1] ELSE k]
           End(k) == CHOOSE e \in 0..k : TextEnds(s, k, e)
           w == [k \in 0..n |-> End(k)]
           length == CHOOSE f : f = Body(f)
<1>1. \A k \in Nat : TextEnds(s, k, End(k))
  BY TextEnd, Zenon
<1>2. w = Body(w)
  <2> HIDE DEF End
  <2>1. ASSUME NEW k \in 0..n
        PROVE  End(k) = IF k > 0 /\ s[k] = " " THEN w[k - 1] ELSE k
    <3>0. k \in Nat
      OBVIOUS
    <3>1. CASE k > 0 /\ s[k] = " "
      <4>0. k > 0
        BY <3>1, Zenon
      <4>1. k - 1 \in 0..n /\ k - 1 \in Nat
        BY ONLY <4>0, n \in Nat, k \in 0..n
      <4>2. w[k - 1] = End(k - 1)
        BY <4>1
      <4>3. TextEnds(s, k, End(k - 1))
        BY <1>1, <3>0, <3>1, <4>1, TextEndStep, Zenon
      <4>4. End(k) = End(k - 1)
        BY <1>1, <3>0, <4>3, TextEndUnique, Zenon
      <4> QED
        BY <3>1, <4>2, <4>4, Zenon
    <3>2. CASE ~(k > 0 /\ s[k] = " ")
      <4>1. End(k) = k
        BY <1>1, <3>0, <3>2, TextEndStep, TextEndUnique, Zenon
      <4> QED
        BY <3>2, <4>1, Zenon
    <3> QED
      BY <3>1, <3>2
  <2> QED
    BY <2>1, Zenon
<1>3. length = Body(length)
  <2> HIDE DEF Body, w
  <2> QED
    BY <1>2, Zenon
<1>4. TrimmedLength(s, n) = length[n]
  BY DEF TrimmedLength
<1> HIDE DEF length
<1>5. \A k \in 0..n : length[k] = IF k > 0 /\ s[k] = " " THEN length[k - 1] ELSE k
  BY <1>3, Zenon
<1> DEFINE S == {k \in Nat : k \in 0..n => TextEnds(s, k, length[k])}
<1>6. 0 \in S
  <2>1. ~(0 > 0) /\ 0 \in 0..n
    OBVIOUS
  <2>2. length[0] = 0 /\ TextEnds(s, 0, 0)
    BY <1>5, <2>1, TextEndStep, Zenon
  <2> QED
    BY <2>2
<1>7. ASSUME NEW k \in Nat, k \in S
      PROVE  k + 1 \in S
  <2> SUFFICES ASSUME k + 1 \in 0..n
               PROVE  TextEnds(s, k + 1, length[k + 1])
    OBVIOUS
  <2>1. k \in 0..n /\ (k + 1) - 1 = k /\ k + 1 \in Nat
    OBVIOUS
  <2>2. TextEnds(s, k, length[k])
    BY <1>7, <2>1
  <2>3. CASE k + 1 > 0 /\ s[k + 1] = " "
    BY <1>5, <2>1, <2>2, <2>3, TextEndStep, Zenon
  <2>4. CASE ~(k + 1 > 0 /\ s[k + 1] = " ")
    BY <1>5, <2>1, <2>4, TextEndStep, Zenon
  <2> QED
    BY <2>3, <2>4
<1>8. n \in S
  <2> HIDE DEF S
  <2> QED
    BY <1>6, <1>7, Induction
<1>9. TextEnds(s, n, length[n])
  BY <1>8
<1> QED
  BY <1>4, <1>9, TextEndUnique, Zenon

\* One byte more in front, a NUL or not.
LEMMA StringEndStep ==
    ASSUME NEW s, Len(s) \in Nat, NEW k \in 0..Len(s)
    PROVE  /\ ~(k < Len(s) /\ s[k + 1] # Nul) => StringEnds(s, k, k)
           /\ \A j : k < Len(s) /\ s[k + 1] # Nul /\ StringEnds(s, k + 1, j) => StringEnds(s, k, j)
<1>1. ASSUME ~(k < Len(s) /\ s[k + 1] # Nul)
      PROVE  StringEnds(s, k, k)
  <2>1. k \in k..Len(s) /\ (k + 1)..k = {} /\ (k = Len(s) \/ s[k + 1] = Nul)
    BY <1>1
  <2> QED
    BY <2>1, Zenon DEF StringEnds
<1>2. ASSUME NEW j, k < Len(s), s[k + 1] # Nul, StringEnds(s, k + 1, j)
      PROVE  StringEnds(s, k, j)
  <2>1. j \in (k + 1)..Len(s) /\ \A i \in (k + 1)..j : i \in ((k + 1) + 1)..j \/ i = k + 1
    BY <1>2 DEF StringEnds
  <2>2. j \in k..Len(s)
    BY <2>1
  <2> QED
    BY <1>2, <2>1, <2>2, Zenon DEF StringEnds
<1> QED
  BY <1>1, <1>2

\* What holds behind the last byte, and of a byte if it does of the next one.
LEMMA Downwards ==
    ASSUME NEW n \in Nat, NEW S, n \in S,
           \A k \in 0..n : k < n /\ k + 1 \in S => k \in S
    PROVE  0..n \subseteq S
<1> DEFINE T == {d \in Nat : d <= n => n - d \in S}
<1>1. 0 \in T
  BY n - 0 = n
<1>2. ASSUME NEW d \in Nat, d \in T
      PROVE  d + 1 \in T
  <2> SUFFICES ASSUME d + 1 <= n
               PROVE  n - (d + 1) \in S
    OBVIOUS
  <2>1. /\ d <= n /\ n - (d + 1) \in 0..n /\ n - (d + 1) < n
        /\ (n - (d + 1)) + 1 = n - d
    OBVIOUS
  <2>2. n - d \in S
    BY <1>2, <2>1
  <2> QED
    BY <2>1, <2>2
<1>3. Nat \subseteq T
  <2> HIDE DEF T
  <2> QED
    BY <1>1, <1>2, Induction
<1>4. ASSUME NEW k \in 0..n
      PROVE  k \in S
  <2>1. n - k \in Nat /\ n - k <= n /\ n - (n - k) = k
    OBVIOUS
  <2>2. n - k \in T
    BY <1>3, <2>1
  <2>3. n - (n - k) \in S
    BY <2>1, <2>2
  <2> QED
    BY <2>1, <2>3
<1> QED
  BY <1>4

\* The loop that looks for the NUL.
LEMMA StringLengthIs ==
    ASSUME NEW s, Len(s) \in Nat, NEW m, StringEnds(s, 0, m)
    PROVE  StringLength(s) = m
<1> DEFINE Body(f) == [k \in 0..Len(s) |-> IF k < Len(s) /\ s[k + 1] # Nul THEN f[k + 1] ELSE k]
           End(k) == CHOOSE e : StringEnds(s, k, e)
           w == [k \in 0..Len(s) |-> End(k)]
           length == CHOOSE f : f = Body(f)
<1>1. ASSUME NEW k \in 0..Len(s)
      PROVE  StringEnds(s, k, End(k))
  <2> DEFINE S == {i \in 0..Len(s) : \E e : StringEnds(s, i, e)}
  <2>1. Len(s) \in S
    <3>1. Len(s) \in 0..Len(s) /\ ~(Len(s) < Len(s))
      OBVIOUS
    <3> QED
      BY <3>1, StringEndStep, Zenon
  <2>2. ASSUME NEW i \in 0..Len(s), i < Len(s), i + 1 \in S
        PROVE  i \in S
    BY <2>2, StringEndStep, Zenon
  <2>3. k \in S
    <3> HIDE DEF S
    <3> QED
      BY <2>1, <2>2, Downwards
  <2> QED
    BY <2>3, Zenon
<1>2. w = Body(w)
  <2> HIDE DEF End
  <2>1. ASSUME NEW k \in 0..Len(s)
        PROVE  End(k) = IF k < Len(s) /\ s[k + 1] # Nul THEN w[k + 1] ELSE k
    <3>0. k \in Nat
      OBVIOUS
    <3>1. CASE k < Len(s) /\ s[k + 1] # Nul
      <4>1. k + 1 \in 0..Len(s)
        BY <3>1
      <4>2. w[k + 1] = End(k + 1)
        BY <4>1
      <4>3. StringEnds(s, k, End(k + 1))
        BY <1>1, <3>1, <4>1, StringEndStep, Zenon
      <4>4. End(k) = End(k + 1)
        BY <1>1, <3>0, <4>3, StringEndUnique, Zenon
      <4> QED
        BY <3>1, <4>2, <4>4, Zenon
    <3>2. CASE ~(k < Len(s) /\ s[k + 1] # Nul)
      <4>1. End(k) = k
        BY <1>1, <3>0, <3>2, StringEndStep, StringEndUnique, Zenon
      <4> QED
        BY <3>2, <4>1, Zenon
    <3> QED
      BY <3>1, <3>2
  <2> QED
    BY <2>1, Zenon
<1>3. length = Body(length)
  <2> HIDE DEF Body, w
  <2> QED
    BY <1>2, Zenon
<1>4. StringLength(s) = length[0]
  BY DEF StringLength
<1> HIDE DEF length
<1>5. \A k \in 0..Len(s) : length[k] = IF k < Len(s) /\ s[k + 1] # Nul THEN length[k + 1] ELSE k
  BY <1>3, Zenon
<1> DEFINE S == {k \in 0..Len(s) : StringEnds(s, k, length[k])}
<1>6. Len(s) \in S
  <2>1. Len(s) \in 0..Len(s) /\ ~(Len(s) < Len(s))
    OBVIOUS
  <2> QED
    BY <1>5, <2>1, StringEndStep, Zenon
<1>7. ASSUME NEW k \in 0..Len(s), k < Len(s), k + 1 \in S
      PROVE  k \in S
  <2>1. CASE s[k + 1] # Nul
    BY <1>5, <1>7, <2>1, StringEndStep, Zenon
  <2>2. CASE ~(s[k + 1] # Nul)
    BY <1>5, <2>2, StringEndStep, Zenon
  <2> QED
    BY <2>1, <2>2
<1>8. 0 \in S
  <2> HIDE DEF S
  <2>1. 0 \in 0..Len(s)
    OBVIOUS
  <2> QED
    BY <1>6, <1>7, <2>1, Downwards
<1> QED
  BY <1>4, <1>8, StringEndUnique, Zenon

\* The first k bytes, without the blanks at their end.
LEMMA TrimmedUp ==
    ASSUME NEW S, NEW s \in Seq(S), NEW k \in 0..Len(s), NEW e \in 0..k, TextEnds(s, k, e)
    PROVE  Trimmed(Up(s, k)) = Up(s, e)
<1>1. /\ Up(s, k) \in Seq(S) /\ Len(Up(s, k)) = k /\ k \in Nat
      /\ \A c \in 1..k : s[c] = Up(s, k)[c]
  BY UpTo
<1>2. TextEnds(Up(s, k), k, e)
  BY <1>1, SameTextEnd
<1>3. Trimmed(Up(s, k)) = Up(Up(s, k), e)
  BY <1>1, <1>2, TrimmedIs
<1>4. e \in 0..Len(Up(s, k)) /\ e \in 0..Len(s)
  BY <1>1
<1>5. \A c \in 1..e : Up(s, k)[c] = s[c]
  BY <1>1
<1>6. Up(Up(s, k), e) = Up(s, e)
  BY <1>1, <1>4, <1>5, SameUp
<1> QED
  BY <1>3, <1>6

\* A text that is cut to n characters may have lost the blanks at its end before.
LEMMA TrimmedCut ==
    ASSUME NEW s \in Seq(Byte), NEW n \in Nat
    PROVE  Trimmed(Cut(Trimmed(s), n)) = Trimmed(Cut(s, n))
<1>1. Len(s) \in Nat /\ Len(s) \in 0..Len(s) /\ Up(s, Len(s)) = s
  BY UpTo
<1>2. PICK j \in 0..Len(s) : TextEnds(s, Len(s), j)
  BY <1>1, TextEnd
<1>3. Trimmed(s) = Up(s, j)
  BY <1>2, TrimmedIs
<1>4. /\ Up(s, j) \in Seq(Byte) /\ Len(Up(s, j)) = j /\ j \in Nat /\ j \in 0..j
      /\ \A i \in 1..j : Up(s, j)[i] = s[i]
      /\ Up(Up(s, j), j) = Up(s, j)
  BY <1>2, UpTo
<1>5. Trimmed(Up(s, j)) = Up(s, j)
  <2>1. TextEnds(s, j, j)
    <3>1. (j + 1)..j = {}
      BY <1>4
    <3> QED
      BY <1>2, <1>4, <3>1, Zenon DEF TextEnds
  <2> QED
    BY <1>2, <1>4, <2>1, TrimmedUp
<1>6. CASE j > n
  <2>1. Len(s) > n /\ n \in 0..j /\ n \in 0..Len(s) /\ n \in 0..Len(Up(s, j))
    BY <1>1, <1>2, <1>4, <1>6
  <2>2. \A i \in 1..n : Up(s, j)[i] = s[i]
    BY <1>4, <2>1
  <2>3. Up(Up(s, j), n) = Up(s, n)
    BY <1>4, <2>1, <2>2, SameUp
  <2>4. Cut(s, n) = Up(s, n) /\ Cut(Up(s, j), n) = Up(Up(s, j), n)
    BY <1>4, <1>6, <2>1, Zenon DEF Cut
  <2> QED
    BY <1>3, <2>3, <2>4, Zenon
<1>7. CASE ~(j > n)
  <2>1. Cut(Up(s, j), n) = Up(s, j)
    BY <1>4, <1>7, Zenon DEF Cut
  <2>2. Trimmed(Cut(s, n)) = Up(s, j)
    <3>1. CASE Len(s) > n
      <4>1. n \in 0..Len(s) /\ j \in 0..n /\ \A i \in (j + 1)..n : i \in (j + 1)..Len(s)
        BY <1>1, <1>4, <1>7, <3>1
      <4>2. TextEnds(s, n, j)
        BY <1>2, <4>1, Zenon DEF TextEnds
      <4>3. Trimmed(Up(s, n)) = Up(s, j)
        BY <4>1, <4>2, TrimmedUp
      <4> QED
        BY <3>1, <4>3, Zenon DEF Cut
    <3>2. CASE ~(Len(s) > n)
      BY <1>3, <3>2, Zenon DEF Cut
    <3> QED
      BY <3>1, <3>2
  <2> QED
    BY <1>3, <1>5, <2>1, <2>2, Zenon
<1> QED
  BY <1>6, <1>7

\* Both comparisons tell whether n bytes of a are, without the blanks at their
\* end, the string of b.
LEMMA ComparesTexts ==
    ASSUME NEW S, NEW a \in Seq(S), NEW n \in 0..Len(a),
           NEW b \in Seq(S), NEW m, StringEnds(b, 0, m)
    PROVE  ComparesEqual(a, n, b, Trimmed(Up(a, n)) = Trimmed(Up(b, m)))
<1>1. n \in Nat /\ m \in Nat /\ m \in 0..Len(b) /\ Len(b) \in Nat
  <2>1. m \in 0..Len(b)
    BY DEF StringEnds
  <2> QED
    BY <2>1
<1>2. PICK i \in 0..n : TextEnds(a, n, i)
  BY <1>1, TextEnd
<1>3. PICK j \in 0..m : TextEnds(b, m, j)
  BY <1>1, TextEnd
<1>5. Trimmed(Up(a, n)) = Up(a, i) /\ Trimmed(Up(b, m)) = Up(b, j)
  BY <1>1, <1>2, <1>3, TrimmedUp
<1>6. CString(b) = Up(b, m)
  BY <1>1, CStringIs
<1>7. TrimmedLength(a, n) = i /\ TrimmedLength(b, StringLength(b)) = j
  BY <1>1, <1>2, <1>3, StringLengthIs, TrimmedLengthIs
<1>8. Up(a, i) = Up(b, j) <=> i = j /\ \A k \in 1..i : a[k] = b[k]
  <2>1. i \in 0..Len(a) /\ j \in 0..Len(b)
    BY <1>1
  <2> QED
    BY <2>1, SameUp
<1>9. BarePicxEq(a, n, b) <=> i = j /\ \A k \in 1..i : a[k] = b[k]
  BY <1>7, Zenon DEF BarePicxEq
<1>10. PicxEq(a, n, b) <=> Up(a, i) = Up(b, j)
  BY <1>5, <1>6, Zenon DEF PicxEq
<1>11. /\ PicxEq(a, n, b) = (Trimmed(Up(a, n)) = Trimmed(Up(b, m)))
       /\ BarePicxEq(a, n, b) = (Trimmed(Up(a, n)) = Trimmed(Up(b, m)))
  <2>1. PicxEq(a, n, b) \in BOOLEAN /\ BarePicxEq(a, n, b) \in BOOLEAN
    BY Zenon DEF PicxEq, BarePicxEq
  <2> QED
    BY <1>5, <1>8, <1>9, <1>10, <2>1, Zenon
<1> QED
  BY <1>11, Zenon DEF ComparesEqual

\* The string of a literal.
LEMMA LiteralString ==
    ASSUME NEW l \in Literals
    PROVE  /\ l \in Seq(Byte) /\ Append(l, Nul) \in Seq(Byte)
           /\ Up(l, Len(l)) = l /\ Up(Append(l, Nul), Len(l)) = l
           /\ StringEnds(Append(l, Nul), 0, Len(l))
<1>1. l \in Seq(Chars) /\ l \in Seq(Byte) /\ Nul \in Byte /\ Len(l) \in Nat
  BY TextsAssumption, CharsAreBytes
<1>2. /\ Append(l, Nul) \in Seq(Byte) /\ Len(Append(l, Nul)) = Len(l) + 1
      /\ Append(l, Nul)[Len(l) + 1] = Nul /\ \A i \in 1..Len(l) : Append(l, Nul)[i] = l[i]
  BY <1>1
<1>3. \A i \in 1..Len(l) : l[i] # Nul
  <2>1. \A i \in 1..Len(l) : l[i] \in Chars
    BY <1>1
  <2> QED
    BY <2>1, BytesAssumption, Zenon
<1>4. Up(l, Len(l)) = l
  BY <1>1, UpTo
<1>5. Up(Append(l, Nul), Len(l)) = Up(l, Len(l))
  <2>1. Len(l) \in 0..Len(l) /\ Len(l) \in 0..Len(Append(l, Nul))
    BY <1>1, <1>2
  <2>2. \A k \in 1..Len(l) : Append(l, Nul)[k] = l[k]
    BY <1>2
  <2> DEFINE s == Append(l, Nul)
             n == Len(l)
  <2>3. s \in Seq(Byte) /\ l \in Seq(Byte) /\ n \in 0..Len(s) /\ n \in 0..Len(l)
        /\ n = n /\ \A k \in 1..n : s[k] = l[k]
    BY <1>1, <1>2, <2>1, <2>2, Zenon
  <2> HIDE DEF s, n
  <2>4. Up(s, n) = Up(l, n)
    BY <2>3, SameUp
  <2> QED
    BY <2>4 DEF s, n
<1>6. Len(l) \in 0..Len(Append(l, Nul)) /\ (0 + 1)..Len(l) = 1..Len(l)
  BY <1>1, <1>2
<1>7. StringEnds(Append(l, Nul), 0, Len(l))
  BY <1>2, <1>3, <1>6, Zenon DEF StringEnds
<1> QED
  BY <1>1, <1>2, <1>4, <1>5, <1>7

\* Texts with the same bytes have the same text before their blanks.
LEMMA SameTrimmed ==
    ASSUME NEW S, NEW s \in Seq(S), NEW t \in Seq(S), Len(s) = Len(t),
           \A i \in 1..Len(s) : s[i] = t[i]
    PROVE  Trimmed(s) = Trimmed(t)
BY SeqEqual, Zenon

\* Blanks are put behind a text that is too short, and the rest of one that is
\* too long is left: without its blanks it is what the code cuts it to.
LEMMA TrimmedPadded ==
    ASSUME NEW text \in Seq(Byte), NEW n \in Nat, NEW p \in Seq(Byte), Len(p) = n,
           \A i \in 1..n : p[i] = Padded(text, n)[i]
    PROVE  Trimmed(p) = Trimmed(Cut(text, n))
<1>1. text \in Seq(Byte) /\ Len(text) \in Nat
  OBVIOUS
<1>2. \A i \in 1..n : p[i] = IF i <= Len(text) THEN text[i] ELSE " "
  BY Zenon DEF Padded
<1>3. CASE Len(text) > n
  <2>1. n \in 0..Len(text)
    BY <1>1, <1>3
  <2>2. /\ Up(text, n) \in Seq(Byte) /\ Len(Up(text, n)) = n
        /\ \A i \in 1..n : Up(text, n)[i] = text[i]
    BY <1>1, <2>1, UpTo
  <2>3. \A i \in 1..n : i <= Len(text)
    BY <1>1, <1>3
  <2>4. \A i \in 1..Len(p) : p[i] = Up(text, n)[i]
    BY <1>2, <2>2, <2>3, Zenon
  <2>5. Trimmed(p) = Trimmed(Up(text, n))
    BY <2>2, <2>4, SameTrimmed
  <2> QED
    BY <1>3, <2>5, Zenon DEF Cut
<1>4. CASE ~(Len(text) > n)
  <2>1. PICK j \in 0..Len(text) : TextEnds(text, Len(text), j)
    BY <1>1, TextEnd
  <2>2. /\ Len(text) \in 0..n /\ j \in 0..n /\ j \in 0..Len(p)
        /\ \A k \in (j + 1)..n : k \in 1..n /\ (k \in (j + 1)..Len(text) \/ ~(k <= Len(text)))
        /\ \A k \in (j + 1)..Len(text) : k <= Len(text)
        /\ j # 0 => j \in 1..n /\ j <= Len(text)
    BY <1>1, <1>4
  <2>3. TextEnds(p, n, j)
    <3>1. j # 0 => p[j] # " "
      BY <1>2, <2>1, <2>2, Zenon DEF TextEnds
    <3>2. ASSUME NEW k \in (j + 1)..n
          PROVE  p[k] = " "
      <4>1. CASE k \in (j + 1)..Len(text)
        BY <1>2, <2>1, <2>2, <4>1, Zenon DEF TextEnds
      <4>2. CASE ~(k <= Len(text))
        BY <1>2, <2>2, <4>2, Zenon
      <4> QED
        BY <2>2, <4>1, <4>2, Zenon
    <3> QED
      BY <2>2, <3>1, <3>2, Zenon DEF TextEnds
  <2>4. Trimmed(p) = Up(p, j) /\ Trimmed(text) = Up(text, j)
    BY <1>1, <2>1, <2>3, TrimmedIs
  <2>5. \A k \in 1..j : p[k] = text[k]
    <3>1. \A k \in 1..j : k \in 1..n /\ k <= Len(text)
      BY <1>1, <2>2
    <3> QED
      BY <1>2, <3>1, Zenon
  <2>6. Up(p, j) = Up(text, j)
    BY <1>1, <2>2, <2>5, SameUp
  <2> QED
    BY <1>4, <2>4, <2>6, Zenon DEF Cut
<1> QED
  BY <1>3, <1>4

----------------------------------------------------------------------------
(* What the bytes of an item are for COBOL.                                  *)

\* The first k of n bytes end a string.
RightEnds(b, n, k) == (k = n \/ b[k + 1] = Nul) /\ \A i \in 1..k : b[i] # Nul

\* On the sides of w the first n bytes give its text.
Gives(b, n, w) ==
    /\ "left" \in w.sides => Trimmed(Up(b, n)) = w.text
    /\ "right" \in w.sides =>
          \E k \in 0..n : RightEnds(b, n, k) /\ Trimmed(Up(b, k)) = w.text

ShownInv == \A f \in TextItems : Gives(Bytes(f), Size[f], shown[f])

\* It depends on those bytes only.
LEMMA SameGives ==
    ASSUME NEW n \in Nat, NEW b \in Seq(Byte), NEW c \in Seq(Byte), n <= Len(b), n <= Len(c),
           \A i \in 1..n : b[i] = c[i], NEW w, Gives(b, n, w)
    PROVE  Gives(c, n, w)
<1>1. ASSUME NEW k \in 0..n
      PROVE  Up(c, k) = Up(b, k)
  <2>1. k \in 0..Len(b) /\ k \in 0..Len(c) /\ \A i \in 1..k : c[i] = b[i]
    OBVIOUS
  <2> QED
    BY <2>1, SameUp
<1>2. n \in 0..n /\ \A k \in 0..n : k = n \/ k + 1 \in 1..n
  OBVIOUS
<1>3. ASSUME NEW k \in 0..n, RightEnds(b, n, k)
      PROVE  RightEnds(c, n, k)
  <2>1. \A i \in 1..k : i \in 1..n
    OBVIOUS
  <2>2. k = n \/ k + 1 \in 1..n
    BY <1>2
  <2> QED
    BY <1>3, <2>1, <2>2, Zenon DEF RightEnds
<1>4. "left" \in w.sides => Trimmed(Up(c, n)) = w.text
  BY <1>1, <1>2, Zenon DEF Gives
<1>5. "right" \in w.sides =>
          \E k \in 0..n : RightEnds(c, n, k) /\ Trimmed(Up(c, k)) = w.text
  BY <1>1, <1>3, Zenon DEF Gives
<1> QED
  BY <1>4, <1>5, Zenon DEF Gives

LEMMA FullFacts ==
    ASSUME NEW text
    PROVE  /\ IsWhat(Full(text)) /\ Full(text).text = Trimmed(text)
           /\ "right" \in Full(text).sides => \A i \in 1..Len(text) : text[i] # Nul
<1>1. /\ Full(text).text = Trimmed(text) /\ Full(text) = [text |-> Full(text).text, sides |-> Full(text).sides]
      /\ Full(text).sides = IF \E i \in 1..Len(text) : text[i] = Nul THEN {"left"} ELSE Sides
  BY DEF Full
<1>2. Full(text).sides \subseteq Sides
  BY <1>1 DEF Sides
<1>3. "right" \in Full(text).sides => \A i \in 1..Len(text) : text[i] # Nul
  BY <1>1
<1> QED
  BY <1>1, <1>2, <1>3 DEF IsWhat

LEMMA UnclearFacts == IsWhat(Unclear) /\ Unclear.sides = {}
BY DEF IsWhat, Unclear, Sides

LEMMA ShortFacts ==
    ASSUME NEW text
    PROVE  IsWhat(Short(text)) /\ Short(text).text = Trimmed(text) /\ Short(text).sides = {"right"}
BY DEF IsWhat, Short, Sides

\* A text that is cut, or blanks behind it.
LEMMA PaddedGives ==
    ASSUME NEW text \in Seq(Byte), NEW n \in Nat, NEW b \in Seq(Byte), n <= Len(b),
           \A i \in 1..n : b[i] = Padded(text, n)[i]
    PROVE  Gives(b, n, Full(Cut(text, n)))
<1>1. n \in 0..Len(b) /\ n \in 0..n
  OBVIOUS
<1>2. /\ Up(b, n) \in Seq(Byte) /\ Len(Up(b, n)) = n
      /\ \A i \in 1..n : Up(b, n)[i] = b[i]
  BY <1>1, UpTo
<1>3. Trimmed(Up(b, n)) = Trimmed(Cut(text, n))
  <2> DEFINE p == Up(b, n)
  <2>1. p \in Seq(Byte) /\ Len(p) = n /\ \A i \in 1..n : p[i] = Padded(text, n)[i]
    BY <1>2, Zenon
  <2> HIDE DEF p
  <2>2. Trimmed(p) = Trimmed(Cut(text, n))
    BY <2>1, TrimmedPadded
  <2> QED
    BY <2>2 DEF p
<1>4. ASSUME \A i \in 1..Len(Cut(text, n)) : Cut(text, n)[i] # Nul
      PROVE  RightEnds(b, n, n)
  <2>1. ASSUME NEW i \in 1..n
        PROVE  b[i] # Nul
    <3>1. CASE i <= Len(text)
      <4>0. /\ Len(text) > n => Len(Cut(text, n)) = n
            /\ ~(Len(text) > n) => Cut(text, n) = text
        BY CutBytes
      <4>1. i \in 1..Len(Cut(text, n))
        BY <3>1, <4>0
      <4>2. Cut(text, n)[i] = text[i] /\ b[i] = text[i]
        BY <3>1, <4>1, CutBytes, PaddedBytes
      <4> QED
        BY <1>4, <4>1, <4>2, Zenon
    <3>2. CASE ~(i <= Len(text))
      <4>1. b[i] = " "
        BY <3>2, PaddedBytes
      <4> QED
        BY <4>1, BytesAssumption
    <3> QED
      BY <3>1, <3>2
  <2> QED
    BY <2>1, Zenon DEF RightEnds
<1>5. Full(Cut(text, n)).text = Trimmed(Cut(text, n))
  BY FullFacts
<1>6. "right" \in Full(Cut(text, n)).sides => RightEnds(b, n, n)
  BY <1>4, FullFacts, Zenon
<1> QED
  BY <1>1, <1>3, <1>5, <1>6, Zenon DEF Gives

\* A line that ends before the last byte, with a NUL behind it.
LEMMA ShortGives ==
    ASSUME NEW text \in Seq(Byte), NEW n \in Nat, NEW k \in 0..n, k # n,
           NEW b \in Seq(Byte), n <= Len(b), Len(text) <= k,
           \A i \in 1..k : b[i] = Padded(text, k)[i] /\ b[i] # Nul,
           b[k + 1] = Nul
    PROVE  Gives(b, n, Short(text))
<1>1. k \in 0..Len(b) /\ k \in Nat /\ ~(Len(text) > k)
  OBVIOUS
<1>2. /\ Up(b, k) \in Seq(Byte) /\ Len(Up(b, k)) = k
      /\ \A i \in 1..k : Up(b, k)[i] = b[i]
  BY <1>1, UpTo
<1>3. Trimmed(Up(b, k)) = Trimmed(Cut(text, k))
  <2> DEFINE p == Up(b, k)
  <2>1. p \in Seq(Byte) /\ Len(p) = k /\ \A i \in 1..k : p[i] = Padded(text, k)[i]
    BY <1>2, Zenon
  <2> HIDE DEF p
  <2>2. Trimmed(p) = Trimmed(Cut(text, k))
    BY <1>1, <2>1, TrimmedPadded
  <2> QED
    BY <2>2 DEF p
<1>4. Cut(text, k) = text
  BY <1>1, Zenon DEF Cut
<1>5. RightEnds(b, n, k)
  BY Zenon DEF RightEnds
<1>6. Short(text).text = Trimmed(text) /\ "left" \notin Short(text).sides
  BY ShortFacts
<1> QED
  BY <1>3, <1>4, <1>5, <1>6, Zenon DEF Gives

\* The first n bytes of an item of m.
LEMMA MovedGives ==
    ASSUME NEW n \in Nat, NEW m \in Nat, n <= m, NEW b \in Seq(Byte), m <= Len(b),
           NEW c \in Seq(Byte), n <= Len(c), \A i \in 1..n : c[i] = b[i],
           NEW w, IsWhat(w), Gives(b, m, w)
    PROVE  Gives(c, n, [w EXCEPT !.text = Trimmed(Cut(@, n))])
<1> DEFINE v == [w EXCEPT !.text = Trimmed(Cut(@, n))]
<1>1. v.text = Trimmed(Cut(w.text, n)) /\ v.sides = w.sides
  BY DEF IsWhat
<1> HIDE DEF v
<1>2. ASSUME NEW k \in 0..n
      PROVE  Up(c, k) = Up(b, k)
  <2>1. k \in 0..Len(b) /\ k \in 0..Len(c) /\ \A i \in 1..k : c[i] = b[i]
    OBVIOUS
  <2> QED
    BY <2>1, SameUp
<1>3. ASSUME NEW k \in 0..m, n <= k, Trimmed(Up(b, k)) = w.text
      PROVE  Trimmed(Up(c, n)) = v.text
  <2>0. k \in 0..Len(b)
    OBVIOUS
  <2>1. Up(b, k) \in Seq(Byte) /\ Len(Up(b, k)) = k /\ \A i \in 1..k : Up(b, k)[i] = b[i]
    BY <2>0, UpTo
  <2>2. Trimmed(Cut(w.text, n)) = Trimmed(Cut(Up(b, k), n))
    BY <1>3, <2>1, TrimmedCut
  <2>3. Cut(Up(b, k), n) = Up(b, n)
    <3>1. CASE k > n
      <4>1. n \in 0..Len(Up(b, k)) /\ n \in 0..Len(b) /\ \A i \in 1..n : Up(b, k)[i] = b[i]
        BY <2>1, <3>1
      <4>2. Up(Up(b, k), n) = Up(b, n)
        BY <2>1, <4>1, SameUp
      <4> QED
        BY <2>1, <3>1, <4>2, Zenon DEF Cut
    <3>2. CASE ~(k > n)
      <4>1. k = n
        BY <1>3, <3>2
      <4> QED
        BY <2>1, <3>2, <4>1, Zenon DEF Cut
    <3> QED
      BY <3>1, <3>2
  <2>4. n \in 0..n
    OBVIOUS
  <2> QED
    BY <1>1, <1>2, <2>2, <2>3, <2>4, Zenon
<1>4. ASSUME "left" \in v.sides
      PROVE  Trimmed(Up(c, n)) = v.text
  <2>1. m \in 0..m /\ Trimmed(Up(b, m)) = w.text
    BY <1>1, <1>4 DEF Gives
  <2> QED
    BY <1>3, <2>1
<1>5. ASSUME "right" \in v.sides
      PROVE  \E k \in 0..n : RightEnds(c, n, k) /\ Trimmed(Up(c, k)) = v.text
  <2>1. PICK k \in 0..m : RightEnds(b, m, k) /\ Trimmed(Up(b, k)) = w.text
    BY <1>1, <1>5, Zenon DEF Gives
  <2>2. CASE n <= k
    <3>1. n \in 0..n /\ \A i \in 1..n : i \in 1..k
      BY <2>2
    <3>2. RightEnds(c, n, n)
      BY <2>1, <3>1, Zenon DEF RightEnds
    <3>3. Trimmed(Up(c, n)) = v.text
      BY <1>3, <2>1, <2>2
    <3> QED
      BY <3>1, <3>2, <3>3, Zenon
  <2>3. CASE ~(n <= k)
    <3>1. k \in 0..n /\ k # m /\ k + 1 \in 1..n /\ \A i \in 1..k : i \in 1..n
      BY <2>3
    <3>2. RightEnds(c, n, k)
      BY <2>1, <3>1, Zenon DEF RightEnds
    <3>3. /\ Up(b, k) \in Seq(Byte) /\ Len(Up(b, k)) = k /\ k \in Nat
      BY UpTo
    <3>4. Trimmed(Cut(w.text, n)) = Trimmed(Cut(Up(b, k), n))
      BY <2>1, <3>3, TrimmedCut
    <3>5. Cut(Up(b, k), n) = Up(b, k)
      <4>1. ~(k > n)
        BY <3>1
      <4> QED
        BY <3>3, <4>1, Zenon DEF Cut
    <3>6. Trimmed(Up(c, k)) = v.text
      BY <1>1, <1>2, <2>1, <3>1, <3>4, <3>5, Zenon
    <3> QED
      BY <3>1, <3>2, <3>6, Zenon
  <2> QED
    BY <2>2, <2>3
<1>6. Gives(c, n, v)
  BY <1>4, <1>5, Zenon DEF Gives
<1> QED
  BY <1>6 DEF v

----------------------------------------------------------------------------
(* One store into memory.                                                    *)

Good == MemoryOK /\ ShownOK /\ ShownInv

MayRunOver(f) ==
    \/ f \in TextItems /\ Width(f) < IntBytes /\ FourBytesMoved(f)
    \/ /\ f \in NumberItems /\ Size[f] + 1 > IntBytes
       /\ GivenTo(f) \/ \E l \in Literals : MoveLiteral(f, l)

MayLoseNul(f) == GivenTo(f) \/ (Size[f] < IntBytes /\ FourBytesMoved(f))

InOneItem(f) ==
    /\ (\A a \in DOMAIN memory \ Own(f) : memory'[a] = memory[a]) \/ MayRunOver(f)
    /\ f \in TextItems /\ Ended(f) /\ ~Ended(f)' => MayLoseNul(f)

OneItem == \E f \in Items : InOneItem(f)

LEMMA GoodSame ==
    ASSUME Good, UNCHANGED <<memory, shown>>
    PROVE  Good' /\ OneItem
<1>1. ASSUME NEW f \in Items
      PROVE  Bytes(f)' = Bytes(f)
  BY DEF Bytes, BytesFrom
<1>2. Good'
  BY <1>1 DEF Good, MemoryOK, ShownOK, ShownInv, Items
<1>3. PICK f \in Items : TRUE
  BY ItemsAssumption
<1>4. InOneItem(f)
  BY <1>1 DEF InOneItem, Ended
<1> QED
  BY <1>2, <1>4 DEF OneItem

\* What an item gives, that other bytes are stored into.
LEMMA StoredElsewhere ==
    ASSUME MemoryOK, MemoryOK', NEW g \in TextItems, Gives(Bytes(g), Size[g], shown[g]),
           \A a \in Own(g) : memory'[a] = memory[a]
    PROVE  Gives(Bytes(g)', Size[g], shown[g])
<1>1. g \in Items /\ \A i \in 1..Width(g) : Base[g] + i \in Own(g)
  <2>1. g \in Items
    BY DEF Items
  <2>2. Base[g] \in Nat /\ Width(g) \in Nat
    BY <2>1, ItemFacts
  <2> QED
    BY <2>1, <2>2 DEF Own
<1>2. \A i \in 1..Width(g) : memory'[Base[g] + i] = memory[Base[g] + i]
  BY <1>1
<1>3. Bytes(g)' = Bytes(g)
  BY <1>2 DEF Bytes, BytesFrom
<1> QED
  BY <1>3

\* What the item gives that bytes are stored into.
LEMMA StoredHere ==
    ASSUME MemoryOK, MemoryOK', NEW f \in TextItems, NEW bytes \in Seq(Byte), NEW what,
           memory' = Put(f, bytes), Size[f] <= Len(bytes), Gives(bytes, Size[f], what)
    PROVE  Gives(Bytes(f)', Size[f], what)
<1>1. f \in Items /\ Width(f) = Size[f] + 1 /\ Size[f] \in Nat /\ Base[f] \in Nat
  BY ItemFacts DEF Items
<1>2. Bytes(f)' \in Seq(Byte) /\ Len(Bytes(f)') = Width(f)
      /\ \A i \in 1..Width(f) : Bytes(f)'[i] = memory'[Base[f] + i]
  <2>0. Base[f] + Width(f) <= Top /\ Top \in Nat
    BY <1>1, ItemFacts
  <2>1. /\ Bytes(f)' = [i \in 1..Width(f) |-> memory'[Base[f] + i]]
        /\ \A i \in 1..Width(f) : Base[f] + i \in 1..Top
    BY <1>1, <2>0 DEF Bytes, BytesFrom
  <2>2. Bytes(f)' \in [1..Width(f) -> Byte]
    BY <2>1 DEF MemoryOK
  <2>3. \A i \in 1..Width(f) : Bytes(f)'[i] = memory'[Base[f] + i]
    BY <2>1, Zenon
  <2>4. Width(f) \in Nat
    BY <1>1
  <2> HIDE DEF Bytes
  <2> QED
    BY <2>2, <2>3, <2>4, FunctionBytes
<1>3. ASSUME NEW i \in 1..Size[f]
      PROVE  bytes[i] = Bytes(f)'[i]
  <2>1. i \in 1..Len(bytes) /\ i \in 1..Width(f) /\ Base[f] + i <= Top
    BY <1>1, ItemFacts
  <2> QED
    BY <1>1, <1>2, <2>1, PutBytes
<1>4. Size[f] <= Len(Bytes(f)')
  BY <1>1, <1>2
<1> QED
  BY <1>1, <1>2, <1>3, <1>4, SameGives

LEMMA StoreInto ==
    ASSUME Good, NEW f \in Items, NEW bytes \in Seq(Byte), NEW what, IsWhat(what),
           Store(f, bytes, what),
           f \in TextItems =>
               what.sides = {} \/ (Size[f] <= Len(bytes) /\ Gives(bytes, Size[f], what)),
           Len(bytes) <= Width(f) \/ MayRunOver(f),
           f \in TextItems =>
               \/ Len(bytes) <= Size[f]
               \/ Len(bytes) > Size[f] /\ (Ended(f) => bytes[Size[f] + 1] = Nul)
               \/ MayLoseNul(f)
    PROVE  Good' /\ OneItem
<1>0. MemoryOK /\ ShownOK /\ ShownInv
  BY DEF Good
<1>1. memory' = Put(f, bytes) /\ MemoryOK'
  BY <1>0, PutBytes DEF Store, MemoryOK
<1>2. \A g \in TextItems : shown'[g] =
          IF g = f THEN what
          ELSE IF \A a \in Own(g) : memory'[a] = memory[a] THEN shown[g] ELSE Unclear
  BY <1>1 DEF Store
<1>3. ShownOK'
  <2>1. shown' = [g \in TextItems |-> shown'[g]]
    BY DEF Store
  <2>2. ASSUME NEW g \in TextItems
        PROVE  IsWhat(shown'[g])
    <3>1. IsWhat(shown[g])
      BY <1>0 DEF ShownOK
    <3>2. shown'[g] = what \/ shown'[g] = shown[g] \/ shown'[g] = Unclear
      BY <1>2, Zenon
    <3> QED
      BY <3>1, <3>2, UnclearFacts, Zenon
  <2> QED
    BY <2>1, <2>2 DEF ShownOK, IsWhat
<1>4. ShownInv'
  <2>1. ASSUME NEW g \in TextItems
        PROVE  Gives(Bytes(g)', Size[g], shown'[g])
    <3>1. CASE g = f
      <4>1. shown'[g] = what
        BY <1>2, <3>1
      <4>2. CASE what.sides = {}
        BY <4>1, <4>2 DEF Gives
      <4>3. CASE Size[f] <= Len(bytes) /\ Gives(bytes, Size[f], what)
        BY <1>0, <1>1, <3>1, <4>1, <4>3, StoredHere
      <4> QED
        BY <3>1, <4>2, <4>3
    <3>2. CASE g # f /\ \A a \in Own(g) : memory'[a] = memory[a]
      <4>1. shown'[g] = shown[g] /\ Gives(Bytes(g), Size[g], shown[g])
        BY <1>0, <1>2, <3>2, Zenon DEF ShownInv
      <4> QED
        BY <1>0, <1>1, <3>2, <4>1, StoredElsewhere
    <3>3. CASE g # f /\ ~(\A a \in Own(g) : memory'[a] = memory[a])
      <4>1. shown'[g].sides = {}
        BY <1>2, <3>3, UnclearFacts, Zenon
      <4> QED
        BY <4>1 DEF Gives
    <3> QED
      BY <3>1, <3>2, <3>3
  <2> QED
    BY <2>1, Zenon DEF ShownInv, Gives
<1>5. InOneItem(f)
  <2>0. /\ Base[f] \in Nat /\ Width(f) \in Nat /\ Len(bytes) \in Nat /\ Size[f] \in Nat /\ Top \in Nat
        /\ Base[f] + Size[f] + 1 <= Top
    BY ItemFacts
  <2>1. ASSUME Len(bytes) <= Width(f)
        PROVE  \A a \in DOMAIN memory \ Own(f) : memory'[a] = memory[a]
    <3>1. ASSUME NEW a \in DOMAIN memory \ Own(f)
          PROVE  memory'[a] = memory[a]
      <4>1. a \in 1..Top /\ a \notin (Base[f] + 1)..(Base[f] + Width(f))
        BY <1>0 DEF MemoryOK, Own
      <4>2. a \notin (Base[f] + 1)..(Base[f] + Len(bytes))
        BY <2>0, <2>1, <4>1
      <4> QED
        BY <1>0, <1>1, <4>1, <4>2, PutBytes
    <3> QED
      BY <3>1
  <2>2. ASSUME f \in TextItems, Ended(f), ~Ended(f)'
        PROVE  MayLoseNul(f)
    <3>1. /\ Size[f] + 1 \in 1..Width(f) /\ Base[f] + (Size[f] + 1) \in 1..Top
      BY <2>0, <2>2, ItemFacts
    <3>2. memory[Base[f] + (Size[f] + 1)] = Nul
      BY <2>2, <3>1, <1>0, BytesOf DEF Ended
    <3>3. memory'[Base[f] + (Size[f] + 1)] # Nul
      BY <2>2, <3>1 DEF Ended, Bytes, BytesFrom
    <3>4. CASE Len(bytes) <= Size[f]
      <4>1. Base[f] + (Size[f] + 1) \notin (Base[f] + 1)..(Base[f] + Len(bytes))
        BY <2>0, <3>4
      <4> QED
        BY <1>0, <1>1, <3>1, <3>2, <3>3, <4>1, PutBytes
    <3>5. CASE Len(bytes) > Size[f] /\ bytes[Size[f] + 1] = Nul
      <4>1. Size[f] + 1 \in 1..Len(bytes) /\ Base[f] + (Size[f] + 1) <= Top
        BY <2>0, <3>5
      <4> QED
        BY <1>0, <1>1, <3>3, <3>5, <4>1, PutBytes
    <3> QED
      BY <2>2, <3>4, <3>5
  <2> QED
    BY <2>1, <2>2 DEF InOneItem
<1> QED
  BY <1>1, <1>3, <1>4, <1>5 DEF Good, OneItem

----------------------------------------------------------------------------
(* The actions that store.                                                   *)

LEMMA SetCharactersGood ==
    ASSUME Good, NEW f \in TextItems, NEW text \in Seq(Byte), SetCharacters(f, text)
    PROVE  Good' /\ OneItem
<1>1. f \in Items /\ Size[f] \in Nat /\ Width(f) = Size[f] + 1
  BY ItemFacts DEF Items
<1> DEFINE bytes == Padded(text, Size[f])
           what == Full(Cut(text, Size[f]))
<1>2. bytes \in Seq(Byte) /\ Len(bytes) = Size[f]
  BY <1>1, PaddedBytes
<1>3. Gives(bytes, Size[f], what)
  BY <1>1, <1>2, PaddedGives
<1>4. IsWhat(what) /\ Store(f, bytes, what)
  BY FullFacts DEF SetCharacters
<1> HIDE DEF bytes, what
<1>5. Size[f] <= Len(bytes) /\ Len(bytes) <= Size[f] /\ Len(bytes) <= Width(f)
  BY <1>1, <1>2
<1> QED
  BY <1>1, <1>2, <1>3, <1>4, <1>5, StoreInto

LEMMA MoveLiteralGood ==
    ASSUME Good, NEW f \in Items, NEW l \in Literals, MoveLiteral(f, l)
    PROVE  Good' /\ OneItem
<1>1. Size[f] \in Nat /\ l \in Seq(Byte)
  BY ItemFacts, TextsAssumption, CharsAreBytes
<1> DEFINE p == Padded(l, Size[f])
           bytes == Append(p, Nul)
           what == Full(Cut(l, Size[f]))
<1>2. p \in Seq(Byte) /\ Len(p) = Size[f]
  BY <1>1, PaddedBytes
<1>3. Store(f, bytes, what) /\ IsWhat(what)
  BY FullFacts DEF MoveLiteral
<1>4. /\ bytes \in Seq(Byte) /\ Len(bytes) = Size[f] + 1 /\ bytes[Size[f] + 1] = Nul
      /\ \A i \in 1..Size[f] : bytes[i] = p[i]
  <2> HIDE DEF p
  <2> QED
    BY <1>1, <1>2, CharsAreBytes
<1>5. Gives(bytes, Size[f], what)
  <2> HIDE DEF bytes
  <2>1. Size[f] <= Len(bytes) /\ bytes \in Seq(Byte)
    BY <1>1, <1>4
  <2> QED
    BY <1>1, <1>4, <2>1, PaddedGives
<1> HIDE DEF p, bytes, what
<1>6. Len(bytes) <= Width(f) \/ MayRunOver(f)
  <2>1. CASE f \in TextItems
    <3>1. Len(bytes) = Width(f) /\ Width(f) \in Nat
      BY <1>4, <2>1, ItemFacts
    <3> QED
      BY <3>1
  <2>2. CASE f \in NumberItems
    <3>1. Width(f) = IntBytes /\ IntBytes = 4
      BY <2>2, ItemFacts DEF IntBytes
    <3>2. Size[f] + 1 <= IntBytes \/ Size[f] + 1 > IntBytes
      BY <1>1, <3>1
    <3> QED
      BY <1>4, <2>2, <3>1, <3>2 DEF MayRunOver
  <2> QED
    BY <2>1, <2>2 DEF Items
<1>7. Size[f] <= Len(bytes) /\ Len(bytes) > Size[f]
  BY <1>1, <1>4
<1> QED
  BY <1>1, <1>3, <1>4, <1>5, <1>6, <1>7, StoreInto

\* Four bytes are more than a short item has, and overwrite a NUL of a longer one.
LEMMA FourBytes ==
    ASSUME NEW f \in Items, NEW bytes, Len(bytes) = IntBytes,
           FourBytesMoved(f) \/ f \in NumberItems
    PROVE  /\ Len(bytes) <= Width(f) \/ MayRunOver(f)
           /\ f \in TextItems => Len(bytes) <= Size[f] \/ MayLoseNul(f)
<1>1. Size[f] \in Nat /\ Width(f) \in Nat /\ IntBytes = 4
  BY ItemFacts DEF IntBytes
<1>2. CASE f \in NumberItems
  <2>1. f \notin TextItems /\ Width(f) = IntBytes
    BY <1>2, ItemFacts, ItemsAssumption
  <2> QED
    BY <1>1, <2>1
<1>3. CASE f \in TextItems /\ FourBytesMoved(f)
  <2>1. IntBytes <= Width(f) \/ Width(f) < IntBytes
    BY <1>1
  <2>2. IntBytes <= Size[f] \/ Size[f] < IntBytes
    BY <1>1
  <2> QED
    BY <1>3, <2>1, <2>2 DEF MayRunOver, MayLoseNul
<1> QED
  BY <1>2, <1>3 DEF Items

LEMMA StoreNumber ==
    ASSUME Good, NEW f \in Items, NEW n \in Seq(Byte), Len(n) = IntBytes,
           FourBytesMoved(f) \/ f \in NumberItems, Store(f, n, Unclear)
    PROVE  Good' /\ OneItem
BY FourBytes, UnclearFacts, StoreInto

LEMMA IntegerBytes ==
    ASSUME NEW n \in Integers
    PROVE  n \in Seq(Byte) /\ Len(n) = IntBytes
BY TextsAssumption

LEMMA MoveIntegerGood ==
    ASSUME Good, NEW f \in Items, NEW n \in Integers, MoveInteger(f, n)
    PROVE  Good' /\ OneItem
<1>1. Store(f, n, Unclear)
  BY DEF MoveInteger
<1>2. FourBytesMoved(f)
  BY DEF FourBytesMoved
<1> QED
  BY <1>1, <1>2, IntegerBytes, StoreNumber

LEMMA MoveItemGood ==
    ASSUME Good, NEW from \in Items, NEW to \in Items, MoveItem(from, to)
    PROVE  Good' /\ OneItem
<1>0. MemoryOK /\ ShownOK /\ ShownInv /\ IntBytes = 4
  BY DEF Good, IntBytes
<1> DEFINE bytes == BytesFrom(from, IntBytes)
           moved == [shown[from] EXCEPT !.text = Trimmed(Cut(@, Size[to]))]
           what == IF to \notin TextItems \/ from \notin TextItems THEN Unclear
                   ELSE IF from = to THEN shown[to]
                   ELSE IF Size[to] <= IntBytes /\ Size[to] <= Size[from] THEN moved
                   ELSE Unclear
<1>1. /\ bytes \in Seq(Byte) /\ Len(bytes) = IntBytes
      /\ \A i \in 1..IntBytes : bytes[i] = memory[Base[from] + i]
  <2>1. Base[from] + IntBytes <= Top /\ IntBytes \in Nat
    BY <1>0, ItemFacts
  <2> QED
    BY <1>0, <2>1, BytesFromBytes
<1>2. Store(to, bytes, what)
  BY DEF MoveItem
<1>3. FourBytesMoved(to)
  BY DEF FourBytesMoved
<1>4. CASE to \in TextItems /\ from = to
  <2>1. memory' = memory
    <3>1. memory' = Put(to, bytes)
      BY <1>2 DEF Store
    <3>2. Put(to, bytes) \in [1..Top -> Byte] /\ memory \in [1..Top -> Byte]
      BY <1>0, <1>1, PutBytes DEF MemoryOK
    <3>3. ASSUME NEW a \in 1..Top
          PROVE  Put(to, bytes)[a] = memory[a]
      <4>1. CASE a \in (Base[to] + 1)..(Base[to] + Len(bytes))
        <5>1. Base[to] \in Nat
          BY ItemFacts
        <5>2. PICK i \in 1..IntBytes : a = Base[to] + i
          <6>0. a \in (Base[to] + 1)..(Base[to] + 4)
            BY <1>0, <1>1, <4>1, Zenon
          <6>1. a - Base[to] \in 1..IntBytes /\ a = Base[to] + (a - Base[to])
            BY ONLY <5>1, <6>0 DEF IntBytes
          <6> QED
            BY <6>1
        <5>3. i \in 1..Len(bytes) /\ Base[to] + i <= Top
          BY <1>1, <5>2
        <5>4. Put(to, bytes)[Base[to] + i] = bytes[i]
          BY <1>0, <1>1, <5>3, PutBytes
        <5> QED
          BY <1>1, <1>4, <5>2, <5>4
      <4>2. CASE a \notin (Base[to] + 1)..(Base[to] + Len(bytes))
        BY <1>0, <1>1, <4>2, PutBytes
      <4> QED
        BY <4>1, <4>2
    <3> DEFINE p == Put(to, bytes)
    <3>4. p = [a \in 1..Top |-> p[a]] /\ memory = [a \in 1..Top |-> memory[a]]
      BY <3>2
    <3>5. \A a \in 1..Top : p[a] = memory[a]
      BY <3>3, Zenon
    <3> HIDE DEF p
    <3>6. p = memory
      BY <3>4, <3>5, Zenon
    <3> QED
      BY <3>1, <3>6 DEF p
  <2>2. shown' = shown
    <3>1. Put(to, bytes) = memory
      BY <1>2, <2>1 DEF Store
    <3>2. what = shown[to]
      BY <1>4
    <3> HIDE DEF what, bytes
    <3>3. shown' = [g \in TextItems |-> IF g = to THEN shown[to] ELSE shown[g]]
      BY <1>2, <3>1, <3>2 DEF Store
    <3>4. shown' = [g \in TextItems |-> shown[g]]
      BY <3>3
    <3>5. shown = [g \in TextItems |-> shown[g]]
      BY <1>0, Zenon DEF ShownOK
    <3> QED
      BY <3>4, <3>5, Zenon
  <2> QED
    BY <2>1, <2>2, GoodSame
<1>5. CASE /\ to \in TextItems /\ from \in TextItems /\ from # to
           /\ Size[to] <= IntBytes /\ Size[to] <= Size[from]
  <2>1. what = moved
    BY <1>5
  <2>2. IsWhat(shown[from]) /\ Gives(Bytes(from), Size[from], shown[from])
    BY <1>0, <1>5 DEF ShownOK, ShownInv
  <2>3. /\ Size[to] \in Nat /\ Size[from] \in Nat /\ Width(from) = Size[from] + 1
        /\ Bytes(from) \in Seq(Byte) /\ Len(Bytes(from)) = Width(from)
        /\ \A i \in 1..Width(from) : Bytes(from)[i] = memory[Base[from] + i]
    BY <1>0, <1>5, ItemFacts, BytesOf
  <2>4. Size[from] <= Len(Bytes(from)) /\ Size[to] <= Len(bytes)
    BY <1>1, <1>5, <2>3
  <2>5. \A i \in 1..Size[to] : bytes[i] = Bytes(from)[i]
    BY <1>0, <1>1, <1>5, <2>3
  <2> HIDE DEF bytes
  <2>6. Gives(bytes, Size[to], moved)
    BY <1>1, <1>5, <2>2, <2>3, <2>4, <2>5, MovedGives
  <2>7. IsWhat(moved)
    BY <2>2 DEF IsWhat
  <2> HIDE DEF what, moved
  <2> QED
    BY <1>1, <1>2, <1>3, <2>1, <2>4, <2>6, <2>7, FourBytes, StoreInto
<1>6. CASE what = Unclear
  <2> HIDE DEF what, bytes
  <2> QED
    BY <1>1, <1>2, <1>3, <1>6, StoreNumber
<1> QED
  BY <1>4, <1>5, <1>6

LEMMA InitializeGood ==
    ASSUME Good, NEW f \in Items, Initialize(f)
    PROVE  Good' /\ OneItem
<1>1. CASE f \in TextItems /\ SetCharacters(f, <<>>)
  <2>1. <<>> \in Seq(Byte)
    OBVIOUS
  <2> QED
    BY <1>1, <2>1, SetCharactersGood
<1>2. CASE f \in NumberItems /\ Store(f, Zero, Unclear)
  <2>1. Zero \in Seq(Byte) /\ Len(Zero) = IntBytes
    <3>1. IntBytes \in Nat /\ Nul \in Byte
      BY CharsAreBytes DEF IntBytes
    <3>2. Zero \in [1..IntBytes -> Byte]
      BY <3>1 DEF Zero
    <3> QED
      BY <3>1, <3>2, FunctionBytes
  <2> QED
    BY <1>2, <2>1, StoreNumber
<1> QED
  BY <1>1, <1>2 DEF Initialize

----------------------------------------------------------------------------
(* ACCEPT.                                                                   *)

LEMMA TypedBytes ==
    ASSUME StdinOK, NEW input \in Typed
    PROVE  input \in Seq(Typable)
<1>1. CASE stdin # <<>>
  BY <1>1 DEF Typed, StdinOK
<1>2. CASE stdin = <<>>
  <2>1. \A l \in Lines : l \in Seq(Typable)
    BY TextsAssumption, CharsAreBytes
  <2>2. NewlineChar \in Typable
    BY CharsAreBytes
  <2>3. input \in Lines \/ \E l \in Lines : input = Append(l, NewlineChar)
    BY <1>2, Zenon DEF Typed
  <2> HIDE DEF Typable
  <2> QED
    BY <2>1, <2>2, <2>3
<1> QED
  BY <1>1, <1>2

\* fgets gives no more than it was asked for, and leaves the rest.  Only the last
\* character may be a new line.
LEMMA FgetsBytes ==
    ASSUME NEW input \in Seq(Typable), NEW n \in Nat, NEW got \in Fgets(input, n)
    PROVE  /\ got \in Seq(Typable) /\ Len(got) \in 0..n
           /\ \A i \in 1..(Len(got) - 1) : got[i] # NewlineChar
           /\ Behind(input, got) \in Seq(Typable)
<1> HIDE DEF Typable
<1>1. PICK k \in 0..Len(input) : /\ k <= n /\ got = Up(input, k)
                                 /\ \A i \in 1..(k - 1) : input[i] # NewlineChar
  BY DEF Fgets
<1>2. /\ got \in Seq(Typable) /\ Len(got) = k
      /\ \A i \in 1..k : got[i] = input[i]
  BY <1>1, UpTo
<1>3. Behind(input, got) \in Seq(Typable)
  <2>1. k + 1 \in 1..(Len(input) + 1) /\ Len(input) \in Nat
    BY <1>1
  <2>2. SubSeq(input, k + 1, Len(input)) \in Seq(Typable)
    BY <2>1
  <2> QED
    BY <1>2, <2>2 DEF Behind
<1>4. \A i \in 1..(k - 1) : i \in 1..k
  BY <1>1
<1>5. k \in 0..n
  BY <1>1
<1>6. \A i \in 1..(Len(got) - 1) : got[i] # NewlineChar
  BY <1>1, <1>2, <1>4
<1> QED
  BY <1>2, <1>3, <1>5, <1>6

LEMMA NewlineBlankBytes ==
    ASSUME NEW bytes \in Seq(Byte), NEW n \in Nat
    PROVE  /\ NewlineBlank(bytes, n) \in Seq(Byte) /\ Len(NewlineBlank(bytes, n)) = Len(bytes)
           /\ \A i \in 1..Len(bytes) : NewlineBlank(bytes, n)[i] =
                 IF i <= n /\ bytes[i] = NewlineChar /\ \A j \in 1..(i - 1) : bytes[j] # NewlineChar
                 THEN " " ELSE bytes[i]
<1>0. " " \in Byte
  BY BytesAssumption, Zenon
<1>1. Len(bytes) \in Nat /\ DOMAIN bytes = 1..Len(bytes)
  OBVIOUS
<1>2. ASSUME NEW i \in 1..Len(bytes)
      PROVE  NewlineBlank(bytes, n)[i] =
                 IF i <= n /\ bytes[i] = NewlineChar /\ \A j \in 1..(i - 1) : bytes[j] # NewlineChar
                 THEN " " ELSE bytes[i]
  BY <1>1, Zenon DEF NewlineBlank
<1>3. ASSUME NEW i \in 1..Len(bytes)
      PROVE  NewlineBlank(bytes, n)[i] \in Byte
  <2>1. bytes[i] \in Byte
    OBVIOUS
  <2> QED
    BY <1>0, <1>2, <2>1, Zenon
<1>4. NewlineBlank(bytes, n) = [i \in 1..Len(bytes) |-> NewlineBlank(bytes, n)[i]]
  BY <1>1, Zenon DEF NewlineBlank
<1>5. NewlineBlank(bytes, n) \in [1..Len(bytes) -> Byte]
  BY <1>3, <1>4, Zenon
<1> QED
  BY <1>1, <1>2, <1>5, FunctionBytes

LEMMA LineTextBytes ==
    ASSUME NEW got \in Seq(Typable), \A i \in 1..(Len(got) - 1) : got[i] # NewlineChar
    PROVE  /\ LineText(got) \in Seq(Byte) /\ Len(LineText(got)) <= Len(got)
           /\ \A i \in 1..Len(got) :
                 Padded(LineText(got), Len(got))[i] = IF got[i] = NewlineChar THEN " " ELSE got[i]
<1> HIDE DEF Typable
<1>0. Len(got) \in Nat /\ got \in Seq(Byte)
  BY CharsAreBytes
<1>1. CASE got # <<>> /\ got[Len(got)] = NewlineChar
  <2>0. Len(got) - 1 \in 0..Len(got) /\ Len(got) > 0
    BY <1>0, <1>1
  <2>1. LineText(got) = Up(got, Len(got) - 1)
    BY <1>1 DEF LineText
  <2>2. /\ LineText(got) \in Seq(Byte) /\ Len(LineText(got)) = Len(got) - 1
        /\ \A i \in 1..(Len(got) - 1) : LineText(got)[i] = got[i]
    BY <1>0, <2>0, <2>1, UpTo
  <2>3. ASSUME NEW i \in 1..Len(got)
        PROVE  Padded(LineText(got), Len(got))[i] = IF got[i] = NewlineChar THEN " " ELSE got[i]
    <3>1. Padded(LineText(got), Len(got))[i] =
              IF i <= Len(LineText(got)) THEN LineText(got)[i] ELSE " "
      BY <1>0, <2>2, PaddedBytes
    <3>2. CASE i = Len(got)
      <4>1. ~(i <= Len(LineText(got)))
        BY <1>0, <2>2, <3>2
      <4> QED
        BY <1>1, <3>1, <3>2, <4>1, Zenon
    <3>3. CASE i # Len(got)
      <4>1. i \in 1..(Len(got) - 1) /\ i <= Len(LineText(got))
        BY <1>0, <2>2, <3>3
      <4> QED
        BY <2>2, <3>1, <4>1
    <3> QED
      BY <3>2, <3>3
  <2>4. Len(LineText(got)) <= Len(got)
    BY <1>0, <2>2
  <2> QED
    BY <2>2, <2>3, <2>4
<1>2. CASE ~(got # <<>> /\ got[Len(got)] = NewlineChar)
  <2>1. LineText(got) = got
    BY <1>2, Zenon DEF LineText
  <2>2. ASSUME NEW i \in 1..Len(got)
        PROVE  got[i] # NewlineChar
    <3>1. i \in 1..(Len(got) - 1) \/ i = Len(got)
      BY <1>0
    <3>2. got # <<>>
      BY <1>0
    <3> QED
      BY <1>2, <3>1, <3>2
  <2>3. ASSUME NEW i \in 1..Len(got)
        PROVE  Padded(got, Len(got))[i] = got[i]
    <3>1. i <= Len(got)
      OBVIOUS
    <3> QED
      BY <3>1 DEF Padded
  <2>4. Len(got) <= Len(got)
    BY <1>0
  <2> QED
    BY <1>0, <2>1, <2>2, <2>3, <2>4, Zenon
<1> QED
  BY <1>1, <1>2

\* The bytes of the item after fgets, and what it read of them.
LEMMA LineBytes ==
    ASSUME MemoryOK, NEW f \in TextItems, NEW got \in Seq(Typable), Len(got) \in 0..Size[f],
           \A i \in 1..(Len(got) - 1) : got[i] # NewlineChar
    PROVE  /\ Line(f, got) \in Seq(Byte) /\ Len(Line(f, got)) = Size[f] + 1
           /\ \A i \in 1..Len(got) : /\ Line(f, got)[i] = Padded(LineText(got), Len(got))[i]
                                     /\ Line(f, got)[i] # Nul
           /\ Line(f, got)[Len(got) + 1] = Nul
           /\ Ended(f) => Line(f, got)[Size[f] + 1] = Nul
<1> HIDE DEF Typable
<1> DEFINE n == Size[f]
           raw == [i \in 1..(n + 1) |-> IF i <= Len(got) THEN got[i]
                                        ELSE IF i = Len(got) + 1 THEN Nul ELSE memory[Base[f] + i]]
<1>0. /\ f \in Items /\ n \in Nat /\ Base[f] \in Nat /\ Len(got) \in Nat /\ Len(got) <= n
      /\ Top \in Nat /\ Base[f] + n + 1 <= Top
  BY ItemFacts DEF Items
<1>1. ASSUME NEW i \in 1..(n + 1)
      PROVE  raw[i] \in Byte
  <2>1. CASE i <= Len(got)
    <3>1. i \in 1..Len(got)
      BY <2>1
    <3>2. got[i] \in Byte
      BY <3>1, CharsAreBytes
    <3> QED
      BY <2>1, <3>2
  <2>2. CASE ~(i <= Len(got)) /\ i = Len(got) + 1
    BY <2>2, CharsAreBytes
  <2>3. CASE ~(i <= Len(got)) /\ i # Len(got) + 1
    <3>1. Base[f] + i \in 1..Top
      BY <1>0
    <3>2. memory[Base[f] + i] \in Byte
      BY <3>1 DEF MemoryOK
    <3> QED
      BY <2>3, <3>2
  <2> QED
    BY <2>1, <2>2, <2>3
<1>2. raw \in Seq(Byte) /\ Len(raw) = n + 1
  <2>1. raw \in [1..(n + 1) -> Byte]
    BY <1>1
  <2> HIDE DEF raw
  <2> QED
    BY <1>0, <2>1, FunctionBytes
<1>3. /\ \A i \in 1..Len(got) : raw[i] = got[i]
      /\ raw[Len(got) + 1] = Nul
      /\ Len(got) # n => raw[n + 1] = memory[Base[f] + (n + 1)]
  BY <1>0
<1>4. Line(f, got) = NewlineBlank(raw, n)
  BY DEF Line
<1> HIDE DEF n, raw
<1>5. /\ Line(f, got) \in Seq(Byte) /\ Len(Line(f, got)) = n + 1
      /\ \A i \in 1..(n + 1) : Line(f, got)[i] =
            IF i <= n /\ raw[i] = NewlineChar /\ \A j \in 1..(i - 1) : raw[j] # NewlineChar
            THEN " " ELSE raw[i]
  <2>1. /\ NewlineBlank(raw, n) \in Seq(Byte) /\ Len(NewlineBlank(raw, n)) = Len(raw)
        /\ \A i \in 1..Len(raw) : NewlineBlank(raw, n)[i] =
              IF i <= n /\ raw[i] = NewlineChar /\ \A j \in 1..(i - 1) : raw[j] # NewlineChar
              THEN " " ELSE raw[i]
    BY <1>0, <1>2, NewlineBlankBytes
  <2> QED
    BY <1>2, <1>4, <2>1, Zenon
<1>6. ASSUME NEW i \in 1..Len(got)
      PROVE  /\ Line(f, got)[i] = Padded(LineText(got), Len(got))[i]
             /\ Line(f, got)[i] # Nul
  <2>1. i \in 1..(n + 1) /\ i <= n
    BY <1>0
  <2>2. \A j \in 1..(i - 1) : j \in 1..(Len(got) - 1) /\ j \in 1..Len(got)
    BY <1>0
  <2>3. \A j \in 1..(i - 1) : raw[j] # NewlineChar
    BY <1>3, <2>2, Zenon
  <2>4. Line(f, got)[i] = IF got[i] = NewlineChar THEN " " ELSE got[i]
    BY <1>3, <1>5, <2>1, <2>3, Zenon
  <2>5. Padded(LineText(got), Len(got))[i] = IF got[i] = NewlineChar THEN " " ELSE got[i]
    BY LineTextBytes
  <2>6. got[i] \in Typable
    OBVIOUS
  <2>7. got[i] # Nul /\ " " # Nul
    BY <2>6, CharsAreBytes, BytesAssumption
  <2> QED
    BY <2>4, <2>5, <2>7, Zenon
<1>7. Line(f, got)[Len(got) + 1] = Nul
  <2>1. Len(got) + 1 \in 1..(n + 1)
    BY <1>0
  <2> QED
    BY <1>3, <1>5, <2>1, BytesAssumption, Zenon
<1>8. ASSUME Ended(f)
      PROVE  Line(f, got)[n + 1] = Nul
  <2>1. n + 1 \in 1..(n + 1) /\ ~(n + 1 <= n) /\ n + 1 \in 1..Width(f)
    BY <1>0, ItemFacts DEF n
  <2>2. memory[Base[f] + (n + 1)] = Nul
    BY <1>0, <1>8, <2>1, BytesOf DEF Ended, n
  <2> QED
    BY <1>3, <1>5, <1>7, <2>1, <2>2, Zenon
<1> QED
  BY <1>5, <1>6, <1>7, <1>8 DEF n

LEMMA AcceptGood ==
    ASSUME Good, StdinOK, NEW f \in TextItems, Accept(f)
    PROVE  Good' /\ OneItem /\ StdinOK'
<1>1. PICK input \in Typed : \E got \in Fgets(input, Size[f]) :
          /\ Store(f, Line(f, got),
                   IF Len(got) = Size[f] THEN Full(LineText(got)) ELSE Short(LineText(got)))
          /\ stdin' = Behind(input, got)
  BY Zenon DEF Accept
<1>2. PICK got \in Fgets(input, Size[f]) :
          /\ Store(f, Line(f, got),
                   IF Len(got) = Size[f] THEN Full(LineText(got)) ELSE Short(LineText(got)))
          /\ stdin' = Behind(input, got)
  BY <1>1, Zenon
<1>3. /\ f \in Items /\ Size[f] \in Nat /\ Width(f) = Size[f] + 1
      /\ input \in Seq(Typable) /\ MemoryOK
  BY ItemFacts, TypedBytes DEF Items, Good
<1>4. /\ got \in Seq(Typable) /\ Len(got) \in 0..Size[f]
      /\ \A i \in 1..(Len(got) - 1) : got[i] # NewlineChar
      /\ Behind(input, got) \in Seq(Typable)
  BY <1>3, FgetsBytes
<1> DEFINE b == Line(f, got)
           text == LineText(got)
           what == IF Len(got) = Size[f] THEN Full(text) ELSE Short(text)
<1>5. /\ b \in Seq(Byte) /\ Len(b) = Size[f] + 1
      /\ \A i \in 1..Len(got) : b[i] = Padded(text, Len(got))[i] /\ b[i] # Nul
      /\ b[Len(got) + 1] = Nul
      /\ Ended(f) => b[Size[f] + 1] = Nul
  BY <1>3, <1>4, LineBytes
<1>6. text \in Seq(Byte) /\ Len(text) <= Len(got)
  BY <1>4, LineTextBytes
<1>7. Store(f, b, what)
  BY <1>2
<1> HIDE DEF b, text, Typable
<1>8. IsWhat(what)
  BY FullFacts, ShortFacts, Zenon
<1>9. Size[f] <= Len(b) /\ Len(b) > Size[f] /\ Len(b) <= Width(f)
  BY <1>3, <1>5
<1>10. Gives(b, Size[f], what)
  <2>1. CASE Len(got) = Size[f]
    <3>1. Gives(b, Size[f], Full(Cut(text, Size[f])))
      BY <1>3, <1>5, <1>6, <1>9, <2>1, PaddedGives
    <3>2. Cut(text, Size[f]) = text
      <4>1. ~(Len(text) > Size[f])
        BY <1>3, <1>4, <1>6, <2>1
      <4> QED
        BY <4>1, Zenon DEF Cut
    <3> QED
      BY <2>1, <3>1, <3>2, Zenon
  <2>2. CASE Len(got) # Size[f]
    <3>1. Gives(b, Size[f], Short(text))
      BY <1>3, <1>4, <1>5, <1>6, <1>9, <2>2, ShortGives
    <3> QED
      BY <2>2, <3>1, Zenon
  <2> QED
    BY <2>1, <2>2
<1> HIDE DEF what
<1>11. Good' /\ OneItem
  BY <1>3, <1>5, <1>7, <1>8, <1>9, <1>10, StoreInto
<1>12. StdinOK'
  BY <1>2, <1>4 DEF StdinOK
<1> QED
  BY <1>11, <1>12

LEMMA AcceptAtEndGood ==
    ASSUME Good, NEW f \in TextItems, AcceptAtEnd(f)
    PROVE  Good' /\ OneItem
<1> DEFINE n == Size[f]
           b == NewlineBlank(Bytes(f), n)
           none == \A i \in 1..n : Bytes(f)[i] # NewlineChar
           what == IF none THEN shown[f] ELSE Unclear
<1>1. f \in Items /\ n \in Nat /\ Width(f) = n + 1 /\ MemoryOK /\ ShownOK /\ ShownInv
  BY ItemFacts DEF Items, Good
<1>2. Bytes(f) \in Seq(Byte) /\ Len(Bytes(f)) = n + 1
  BY <1>1, BytesOf
<1>3. /\ b \in Seq(Byte) /\ Len(b) = n + 1
      /\ \A i \in 1..(n + 1) : b[i] =
            IF i <= n /\ Bytes(f)[i] = NewlineChar /\ \A j \in 1..(i - 1) : Bytes(f)[j] # NewlineChar
            THEN " " ELSE Bytes(f)[i]
  BY <1>1, <1>2, NewlineBlankBytes
<1>4. Store(f, b, what)
  BY DEF AcceptAtEnd
<1>5. IsWhat(shown[f]) /\ Gives(Bytes(f), n, shown[f])
  BY <1>1 DEF ShownOK, ShownInv
<1> HIDE DEF b, n
<1>6. n <= Len(b) /\ Len(b) > n /\ Len(b) <= Width(f) /\ n <= Len(Bytes(f))
  <2>1. n \in Nat => n <= n + 1 /\ n + 1 > n /\ n + 1 <= n + 1
    OBVIOUS
  <2> QED
    BY <1>1, <1>2, <1>3, <2>1, Zenon
<1>7. IsWhat(what)
  BY <1>5, UnclearFacts, Zenon
<1>8. Ended(f) => b[n + 1] = Nul
  <2>1. n + 1 \in 1..(n + 1) /\ ~(n + 1 <= n)
    BY <1>1
  <2> QED
    BY <1>3, <2>1, Zenon DEF Ended, n
<1>9. what.sides = {} \/ Gives(b, n, what)
  <2>1. CASE none
    <3>1. \A i \in 1..n : i \in 1..(n + 1)
      BY <1>1
    <3>2. \A i \in 1..n : Bytes(f)[i] = b[i]
      BY <1>3, <2>1, <3>1, Zenon
    <3>3. Gives(b, n, shown[f])
      BY <1>1, <1>2, <1>3, <1>5, <1>6, <3>2, SameGives
    <3> QED
      BY <2>1, <3>3, Zenon
  <2>2. CASE ~none
    BY <2>2, UnclearFacts, Zenon
  <2> QED
    BY <2>1, <2>2
<1> HIDE DEF what
<1> QED
  BY <1>1, <1>3, <1>4, <1>6, <1>7, <1>8, <1>9, StoreInto DEF n

----------------------------------------------------------------------------
(* The other actions that store, and the first bytes.                        *)

LEMMA AcceptNumberGood ==
    ASSUME Good, StdinOK, NEW f \in NumberItems, AcceptNumber(f)
    PROVE  Good' /\ OneItem /\ StdinOK'
<1>1. PICK n \in Integers : Store(f, n, Unclear)
  BY Zenon DEF AcceptNumber
<1>2. Good' /\ OneItem
  <2>1. f \in Items
    BY DEF Items
  <2> QED
    BY <1>1, <2>1, IntegerBytes, StoreNumber
<1>3. ASSUME stdin' = stdin
      PROVE  StdinOK'
  BY <1>3 DEF StdinOK
<1>4. ASSUME \E input \in Typed : \E got \in Fgets(input, NumberLength) : stdin' = Behind(input, got)
      PROVE  StdinOK'
  <2>1. PICK input \in Typed : \E got \in Fgets(input, NumberLength) : stdin' = Behind(input, got)
    BY <1>4, Zenon
  <2>2. PICK got \in Fgets(input, NumberLength) : stdin' = Behind(input, got)
    BY <2>1, Zenon
  <2>3. input \in Seq(Typable) /\ NumberLength \in Nat
    BY TypedBytes, TextsAssumption
  <2>4. Behind(input, got) \in Seq(Typable)
    BY <2>3, FgetsBytes
  <2> QED
    BY <2>2, <2>4 DEF StdinOK
<1>5. stdin' = stdin \/ \E input \in Typed : \E got \in Fgets(input, NumberLength) : stdin' = Behind(input, got)
  BY Zenon DEF AcceptNumber
<1> QED
  BY <1>2, <1>3, <1>4, <1>5

LEMMA StatusGood ==
    ASSUME Good, CallOK, AnswerBegins
    PROVE  Good' /\ OneItem
<1>1. call.statement \in Calls
  BY DEF AnswerBegins, CallOK, Idle, Running
<1>2. CASE call.statement.status = None
  BY <1>2, GoodSame DEF AnswerBegins
<1>3. CASE call.statement.status # None
  <2>1. call.statement.status \in NumberItems
    BY <1>1, <1>3, CallsAssumption
  <2>2. PICK n \in Integers : Store(call.statement.status, n, Unclear)
    BY <1>3 DEF AnswerBegins
  <2>3. call.statement.status \in Items
    BY <2>1 DEF Items
  <2> QED
    BY <2>1, <2>2, <2>3, IntegerBytes, StoreNumber
<1> QED
  BY <1>2, <1>3

\* A body is cut to a byte more than the item has characters, or digits.
LEMMA GivenGood ==
    ASSUME Good, NEW f \in Items, NEW text \in Seq(Byte), GivenTo(f),
           Store(f, Copied(text, GivingCapacity(f)),
                 IF Len(text) >= Size[f] THEN Full(Cut(text, Size[f])) ELSE Unclear)
    PROVE  Good' /\ OneItem
<1> DEFINE n == Size[f]
           b == Cut(text, n + 1)
           what == IF Len(text) >= n THEN Full(Cut(text, n)) ELSE Unclear
<1>1. n \in Nat /\ n + 1 \in Nat /\ Len(text) \in Nat
  BY ItemFacts
<1>2. /\ b \in Seq(Byte) /\ Len(b) <= n + 1
      /\ Len(text) > n + 1 => Len(b) = n + 1
      /\ ~(Len(text) > n + 1) => b = text
      /\ \A i \in 1..Len(b) : b[i] = text[i]
  BY <1>1, CutBytes
<1>3. Store(f, b, what)
  BY DEF Copied, GivingCapacity
<1>4. IsWhat(what)
  BY FullFacts, UnclearFacts, Zenon
<1> HIDE DEF b
<1>5. what.sides = {} \/ (n <= Len(b) /\ Gives(b, n, what))
  <2>1. CASE Len(text) >= n
    <3>1. n <= Len(b)
      BY <1>1, <1>2, <2>1
    <3>2. ASSUME NEW i \in 1..n
          PROVE  b[i] = Padded(text, n)[i]
      <4>1. i \in 1..Len(b) /\ i <= Len(text)
        BY <1>1, <1>2, <2>1, <3>1
      <4>2. Padded(text, n)[i] = text[i]
        BY <4>1 DEF Padded
      <4> QED
        BY <1>2, <4>1, <4>2
    <3>3. Gives(b, n, Full(Cut(text, n)))
      BY <1>1, <1>2, <3>1, <3>2, PaddedGives
    <3> QED
      BY <2>1, <3>1, <3>3, Zenon
  <2>2. CASE ~(Len(text) >= n)
    BY <2>2, UnclearFacts, Zenon
  <2> QED
    BY <2>1, <2>2
<1>6. Len(b) <= Width(f) \/ MayRunOver(f)
  <2>1. CASE f \in TextItems
    <3>1. Width(f) = n + 1
      BY <2>1, ItemFacts
    <3> QED
      BY <1>2, <3>1
  <2>2. CASE f \in NumberItems
    <3>1. Width(f) = IntBytes /\ IntBytes = 4 /\ Len(b) \in Nat
      BY <1>2, <2>2, ItemFacts DEF IntBytes
    <3>2. Len(b) <= 4 \/ n + 1 > 4
      BY <1>1, <1>2, <3>1
    <3> QED
      BY <2>2, <3>1, <3>2 DEF MayRunOver
  <2> QED
    BY <2>1, <2>2 DEF Items
<1>7. MayLoseNul(f)
  BY DEF MayLoseNul
<1> HIDE DEF what
<1> QED
  BY <1>2, <1>3, <1>4, <1>5, <1>6, <1>7, StoreInto

LEMMA ReadBodyGood ==
    ASSUME Good, CallOK, NEW text \in Texts, ReadBody(text)
    PROVE  Good' /\ OneItem
<1>1. call.statement \in Calls /\ text \in Seq(Byte) /\ call.step = "reading"
  BY TextsAssumption DEF ReadBody, CallOK, Idle, Running
<1>2. CASE call.statement.giving = None
  BY <1>2, GoodSame DEF ReadBody
<1>3. CASE call.statement.giving # None
  <2>1. call.statement.giving \in Items
    BY <1>1, <1>3, CallsAssumption
  <2>2. GivenTo(call.statement.giving)
    BY <1>1 DEF GivenTo
  <2>3. Store(call.statement.giving, Copied(text, GivingCapacity(call.statement.giving)),
              IF Len(text) >= Size[call.statement.giving]
              THEN Full(Cut(text, Size[call.statement.giving])) ELSE Unclear)
    BY <1>3 DEF ReadBody
  <2> QED
    BY <1>1, <2>1, <2>2, <2>3, GivenGood
<1> QED
  BY <1>2, <1>3

LEMMA MapItemGood ==
    ASSUME Good, NEW f \in Group, MapItem(f)
    PROVE  Good' /\ OneItem
<1>1. f \in Items
  BY ObjectsAssumption
<1>2. Members(f) \subseteq IF f \in NumberItems THEN Integers ELSE Seq(Byte)
  BY ObjectsAssumption, Zenon DEF Members
<1>3. CASE UNCHANGED <<memory, shown>>
  BY <1>3, GoodSame
<1>4. CASE f \in TextItems /\ \E text \in Members(f) : SetCharacters(f, text)
  <2>1. PICK text \in Members(f) : SetCharacters(f, text)
    BY <1>4
  <2>2. f \notin NumberItems
    BY <1>4, ItemsAssumption
  <2>3. text \in Seq(Byte)
    BY <1>2, <2>2
  <2> QED
    BY <1>4, <2>1, <2>3, SetCharactersGood
<1>5. CASE f \in NumberItems /\ \E n \in Members(f) : Store(f, n, Unclear)
  <2>1. PICK n \in Members(f) : Store(f, n, Unclear)
    BY <1>5
  <2>2. n \in Integers
    BY <1>2, <1>5
  <2> QED
    BY <1>1, <1>5, <2>1, <2>2, IntegerBytes, StoreNumber
<1> QED
  BY <1>3, <1>4, <1>5, Zenon DEF MapItem

LEMMA InitGood == Init => Good
<1> SUFFICES ASSUME Init PROVE Good
  OBVIOUS
<1>1. PICK texts \in [TextItems -> Literals], numbers \in [NumberItems -> Integers] :
          /\ memory = Laid(texts, numbers)
          /\ shown = [f \in TextItems |-> Full(Cut(texts[f], Size[f]))]
  BY DEF Init
<1> DEFINE value(f) == IF f \in NumberItems THEN numbers[f]
                       ELSE Append(Padded(texts[f], Size[f]), Nul)
           owner(a) == CHOOSE f \in Items : a \in Own(f)
<1>2. memory = [a \in 1..Top |-> IF \E f \in Items : a \in Own(f)
                                 THEN value(owner(a))[a - Base[owner(a)]] ELSE Nul]
  BY <1>1 DEF Laid
<1>3. ASSUME NEW f \in Items
      PROVE  /\ value(f) \in Seq(Byte) /\ Len(value(f)) = Width(f)
             /\ f \in TextItems => \A i \in 1..Size[f] : value(f)[i] = Padded(texts[f], Size[f])[i]
  <2>1. CASE f \in NumberItems
    <3>1. value(f) = numbers[f] /\ numbers[f] \in Integers /\ Width(f) = IntBytes /\ f \notin TextItems
      BY <2>1, ItemFacts, ItemsAssumption
    <3> HIDE DEF value
    <3> QED
      BY <3>1, IntegerBytes
  <2>2. CASE f \in TextItems
    <3>1. /\ value(f) = Append(Padded(texts[f], Size[f]), Nul)
          /\ Width(f) = Size[f] + 1 /\ Size[f] \in Nat
      BY <2>2, ItemFacts, ItemsAssumption
    <3>2. texts[f] \in Seq(Byte)
      <4>1. texts[f] \in Literals
        BY <2>2
      <4> QED
        BY <4>1, LiteralString
    <3> DEFINE p == Padded(texts[f], Size[f])
    <3>3. p \in Seq(Byte) /\ Len(p) = Size[f]
      BY <3>1, <3>2, PaddedBytes
    <3>4. value(f) = Append(p, Nul) /\ Nul \in Byte
      BY <3>1, CharsAreBytes
    <3> HIDE DEF p, value
    <3>5. /\ value(f) \in Seq(Byte) /\ Len(value(f)) = Size[f] + 1
          /\ \A i \in 1..Size[f] : value(f)[i] = p[i]
      BY <3>1, <3>3, <3>4
    <3> QED
      BY <3>1, <3>5 DEF p
  <2> QED
    BY <2>1, <2>2 DEF Items
<1> HIDE DEF value
<1>4. ASSUME NEW a, NEW f \in Items, a \in Own(f)
      PROVE  owner(a) = f
  <2>1. owner(a) \in Items /\ a \in Own(owner(a))
    BY <1>4, Zenon
  <2> HIDE DEF owner
  <2> QED
    BY <1>4, <2>1, ItemsAssumption
<1> HIDE DEF owner
<1>5. MemoryOK
  <2>1. ASSUME NEW a \in 1..Top
        PROVE  (IF \E f \in Items : a \in Own(f)
                THEN value(owner(a))[a - Base[owner(a)]] ELSE Nul) \in Byte
    <3>1. CASE \E f \in Items : a \in Own(f)
      <4>1. PICK f \in Items : a \in Own(f)
        BY <3>1
      <4>2. owner(a) = f
        BY <1>4, <4>1
      <4>3. Base[f] \in Nat /\ Width(f) \in Nat /\ a \in (Base[f] + 1)..(Base[f] + Width(f))
        BY <4>1, ItemFacts DEF Own
      <4>4. a - Base[f] \in 1..Width(f)
        BY <4>3
      <4>5. value(f)[a - Base[f]] \in Byte
        BY <1>3, <4>4
      <4> QED
        BY <3>1, <4>2, <4>5
    <3>2. CASE ~\E f \in Items : a \in Own(f)
      BY <3>2, CharsAreBytes
    <3> QED
      BY <3>1, <3>2
  <2> QED
    BY <1>2, <2>1 DEF MemoryOK
<1>6. ASSUME NEW f \in TextItems
      PROVE  Gives(Bytes(f), Size[f], shown[f])
  <2>1. /\ f \in Items /\ Size[f] \in Nat /\ Width(f) = Size[f] + 1 /\ Base[f] \in Nat
        /\ Base[f] + Width(f) <= Top /\ Top \in Nat
    BY ItemFacts DEF Items
  <2>2. texts[f] \in Seq(Byte)
    <3>1. texts[f] \in Literals
      OBVIOUS
    <3> QED
      BY <3>1, LiteralString
  <2>3. /\ Bytes(f) \in Seq(Byte) /\ Len(Bytes(f)) = Width(f)
        /\ \A i \in 1..Width(f) : Bytes(f)[i] = memory[Base[f] + i]
    BY <1>5, <2>1, BytesOf
  <2>4. ASSUME NEW i \in 1..Size[f]
        PROVE  Bytes(f)[i] = Padded(texts[f], Size[f])[i]
    <3>1. /\ Base[f] + i \in 1..Top /\ i \in 1..Width(f)
          /\ Base[f] + i \in (Base[f] + 1)..(Base[f] + Width(f))
          /\ (Base[f] + i) - Base[f] = i
      BY <2>1
    <3>2. Base[f] + i \in Own(f)
      BY <3>1 DEF Own
    <3>3. owner(Base[f] + i) = f
      BY <1>4, <2>1, <3>2
    <3>4. memory[Base[f] + i] = value(f)[i]
      BY <1>2, <2>1, <3>1, <3>2, <3>3
    <3> QED
      BY <1>3, <2>1, <2>3, <3>1, <3>4
  <2>5. Size[f] <= Len(Bytes(f))
    BY <2>1, <2>3
  <2>6. Gives(Bytes(f), Size[f], Full(Cut(texts[f], Size[f])))
    BY <2>1, <2>2, <2>3, <2>4, <2>5, PaddedGives
  <2>7. shown[f] = Full(Cut(texts[f], Size[f]))
    BY <1>1
  <2> QED
    BY <2>6, <2>7, Zenon
<1>7. ShownOK
  <2>1. shown = [f \in TextItems |-> shown[f]]
    BY <1>1
  <2>2. ASSUME NEW f \in TextItems
        PROVE  IsWhat(shown[f])
    <3>1. shown[f] = Full(Cut(texts[f], Size[f]))
      BY <1>1
    <3> QED
      BY <3>1, FullFacts
  <2> QED
    BY <2>1, <2>2 DEF ShownOK
<1> QED
  BY <1>5, <1>6, <1>7 DEF Good, ShownInv

----------------------------------------------------------------------------
(* The invariant.                                                            *)

\* What the memory holds, a request under way, and what was typed.
TypeInv == Good /\ CallOK /\ StdinOK

Statement(f) ==
    \/ \E l \in Literals : MoveLiteral(f, l)
    \/ \E n \in Integers : MoveInteger(f, n)
    \/ \E g \in Items : MoveItem(g, f)
    \/ Initialize(f)
    \/ f \in TextItems /\ (AcceptAtEnd(f) \/ Accept(f) \/ \E text \in Texts : RequestField(f, text))
    \/ f \in NumberItems /\ AcceptNumber(f)

\* The steps of a request.
CallStep ==
    \/ \E statement \in Calls : Request(statement)
    \/ NoAnswer \/ AnswerBegins \/ ReadFails \/ Return
    \/ \E text \in Texts : ReadBody(text)
    \/ \E f \in Group : MapItem(f)

LEMMA Steps == [Next]_vars => (\E f \in Items : Statement(f)) \/ CallStep \/ UNCHANGED vars
<1> SUFFICES ASSUME [Next]_vars, ~UNCHANGED vars
             PROVE  (\E f \in Items : Statement(f)) \/ CallStep
  OBVIOUS
<1>0. Next /\ \A f : (f \in TextItems => f \in Items) /\ (f \in NumberItems => f \in Items)
  BY DEF Items
<1>1. ASSUME NEW f \in Items, NEW l \in Literals, MoveLiteral(f, l)
      PROVE  \E g \in Items : Statement(g)
  BY <1>1, Zenon DEF Statement
<1>2. ASSUME NEW f \in Items, NEW n \in Integers, MoveInteger(f, n)
      PROVE  \E g \in Items : Statement(g)
  BY <1>2, Zenon DEF Statement
<1>3. ASSUME NEW f \in Items, NEW h \in Items, MoveItem(f, h)
      PROVE  \E g \in Items : Statement(g)
  BY <1>3, Zenon DEF Statement
<1>4. ASSUME NEW f \in Items, Initialize(f)
      PROVE  \E g \in Items : Statement(g)
  BY <1>4, Zenon DEF Statement
<1>5. ASSUME NEW f \in TextItems, AcceptAtEnd(f) \/ Accept(f) \/ \E text \in Texts : RequestField(f, text)
      PROVE  \E g \in Items : Statement(g)
  BY <1>0, <1>5, Zenon DEF Statement
<1>6. ASSUME NEW f \in NumberItems, AcceptNumber(f)
      PROVE  \E g \in Items : Statement(g)
  BY <1>0, <1>6, Zenon DEF Statement
<1> QED
  BY <1>0, <1>1, <1>2, <1>3, <1>4, <1>5, <1>6, Zenon DEF Next, CallStep

LEMMA StatementCall ==
    ASSUME NEW f, Statement(f)
    PROVE  Between /\ call' = call /\ before' = before
BY DEF Statement, MoveLiteral, MoveInteger, MoveItem, Initialize, Accept, AcceptAtEnd, AcceptNumber,
       RequestField

LEMMA GoodStep ==
    ASSUME TypeInv, [Next]_vars
    PROVE  Good' /\ OneItem
<1>0. Good /\ CallOK /\ StdinOK
  BY DEF TypeInv
<1>1. ASSUME NEW f \in Items, Statement(f)
      PROVE  Good' /\ OneItem
  <2>1. ASSUME NEW l \in Literals, MoveLiteral(f, l)
        PROVE  Good' /\ OneItem
    BY <1>0, <2>1, MoveLiteralGood
  <2>2. ASSUME NEW n \in Integers, MoveInteger(f, n)
        PROVE  Good' /\ OneItem
    BY <1>0, <2>2, MoveIntegerGood
  <2>3. ASSUME NEW g \in Items, MoveItem(g, f)
        PROVE  Good' /\ OneItem
    BY <1>0, <2>3, MoveItemGood
  <2>4. ASSUME Initialize(f)
        PROVE  Good' /\ OneItem
    BY <1>0, <2>4, InitializeGood
  <2>5. ASSUME f \in TextItems, AcceptAtEnd(f)
        PROVE  Good' /\ OneItem
    BY <1>0, <2>5, AcceptAtEndGood
  <2>6. ASSUME f \in TextItems, Accept(f)
        PROVE  Good' /\ OneItem
    BY <1>0, <2>6, AcceptGood
  <2>7. ASSUME f \in TextItems, NEW text \in Texts, RequestField(f, text)
        PROVE  Good' /\ OneItem
    <3>1. text \in Seq(Byte) /\ SetCharacters(f, text)
      BY <2>7, TextsAssumption DEF RequestField
    <3> QED
      BY <1>0, <2>7, <3>1, SetCharactersGood
  <2>8. ASSUME f \in NumberItems, AcceptNumber(f)
        PROVE  Good' /\ OneItem
    BY <1>0, <2>8, AcceptNumberGood
  <2> QED
    BY <1>1, <2>1, <2>2, <2>3, <2>4, <2>5, <2>6, <2>7, <2>8, Zenon DEF Statement
<1>2. ASSUME UNCHANGED vars \/ Return \/ ReadFails \/ NoAnswer
             \/ \E statement \in Calls : Request(statement)
      PROVE  Good' /\ OneItem
  <2>1. UNCHANGED <<memory, shown>>
    BY <1>2 DEF vars, Return, ReadFails, NoAnswer, Request
  <2> QED
    BY <1>0, <2>1, GoodSame
<1>3. ASSUME AnswerBegins
      PROVE  Good' /\ OneItem
  BY <1>0, <1>3, StatusGood
<1>4. ASSUME NEW text \in Texts, ReadBody(text)
      PROVE  Good' /\ OneItem
  BY <1>0, <1>4, ReadBodyGood
<1>5. ASSUME NEW f \in Group, MapItem(f)
      PROVE  Good' /\ OneItem
  BY <1>0, <1>5, MapItemGood
<1> QED
  BY Steps, <1>1, <1>2, <1>3, <1>4, <1>5, Zenon DEF CallStep

LEMMA StdinStep ==
    ASSUME TypeInv, [Next]_vars
    PROVE  StdinOK'
<1>0. Good /\ StdinOK
  BY DEF TypeInv
<1>1. ASSUME NEW f \in Items, Statement(f)
      PROVE  StdinOK'
  <2>1. ASSUME f \in TextItems, Accept(f)
        PROVE  StdinOK'
    BY <1>0, <2>1, AcceptGood
  <2>2. ASSUME f \in NumberItems, AcceptNumber(f)
        PROVE  StdinOK'
    BY <1>0, <2>2, AcceptNumberGood
  <2>3. \/ f \in TextItems /\ Accept(f)
        \/ f \in NumberItems /\ AcceptNumber(f)
        \/ stdin' = stdin
    BY <1>1 DEF Statement, MoveLiteral, MoveInteger, MoveItem, Initialize, AcceptAtEnd, RequestField
  <2>4. ASSUME stdin' = stdin
        PROVE  StdinOK'
    BY <1>0, <2>4 DEF StdinOK
  <2> QED
    BY <2>1, <2>2, <2>3, <2>4
<1>2. ASSUME CallStep \/ UNCHANGED vars
      PROVE  StdinOK'
  <2>1. stdin' = stdin
    BY <1>2 DEF CallStep, vars, Request, NoAnswer, AnswerBegins, ReadFails, Return, ReadBody, MapItem
  <2> QED
    BY <1>0, <2>1 DEF StdinOK
<1> QED
  BY Steps, <1>1, <1>2

\* The record of a request that returns.
LEMMA ReturnedCall ==
    ASSUME NEW result \in {"ok", "exception"}, NEW buffer \in Seq(Byte), Len(buffer) <= MappingBuffer,
           NEW length \in Nat,
           call \in Running,
           call.statement.giving # None => length <= Size[call.statement.giving] + 1,
           Returned(result, buffer, length)
    PROVE  /\ CallOK' /\ call'.step = "mapping" /\ call'.result = result
           /\ call'.statement = call.statement /\ call'.buffer = buffer /\ call'.length = length
<1> DEFINE rest == IF call.statement.mapping THEN Group ELSE {}
<1>1. call' = [call EXCEPT !.step = "mapping", !.result = result, !.buffer = buffer,
                           !.length = length, !.rest = rest]
  BY DEF Returned
<1>2. rest \in SUBSET Group
  OBVIOUS
<1> HIDE DEF rest
<1>3. call' \in Running
  BY <1>1, <1>2 DEF Running
<1>4. /\ call'.step = "mapping" /\ call'.result = result
      /\ call'.statement = call.statement /\ call'.buffer = buffer /\ call'.length = length
  BY <1>1 DEF Running
<1> QED
  BY <1>3, <1>4 DEF CallOK

LEMMA ReadBodyCall ==
    ASSUME CallOK, NEW text \in Texts, ReadBody(text)
    PROVE  CallOK' /\ call'.step = "mapping" /\ call'.result = "ok"
<1>1. /\ call \in Running /\ call.statement \in Calls /\ text \in Seq(Byte) /\ Len(text) \in Nat
      /\ MappingBuffer \in Nat
  BY TextsAssumption DEF ReadBody, CallOK, Idle, Running
<1>2. <<>> \in Seq(Byte) /\ Len(<<>>) = 0 /\ 0 <= MappingBuffer
  BY <1>1
<1>3. CASE call.statement.giving # None
  <2> DEFINE giving == call.statement.giving
             bytes == Copied(text, GivingCapacity(giving))
  <2>1. giving \in Items
    BY <1>1, <1>3, CallsAssumption
  <2>2. Size[giving] + 1 \in Nat
    BY <2>1, ItemFacts
  <2>3. Len(bytes) \in Nat /\ Len(bytes) <= Size[giving] + 1
    <3>1. Cut(text, Size[giving] + 1) \in Seq(Byte) /\ Len(Cut(text, Size[giving] + 1)) <= Size[giving] + 1
      BY <1>1, <2>2, CutBytes
    <3> QED
      BY <3>1 DEF Copied, GivingCapacity
  <2>4. Returned("ok", <<>>, Len(bytes))
    BY <1>3 DEF ReadBody
  <2> HIDE DEF bytes
  <2> QED
    BY <1>1, <1>2, <2>3, <2>4, ReturnedCall
<1>4. CASE call.statement.giving = None
  <2> DEFINE bytes == IF call.statement.mapping THEN BufferCopied(text) ELSE <<>>
  <2>1. bytes \in Seq(Byte) /\ Len(bytes) <= MappingBuffer
    <3>1. BufferCopied(text) \in Seq(Byte) /\ Len(BufferCopied(text)) <= MappingBuffer
      BY <1>1, CutBytes DEF BufferCopied, Copied
    <3> QED
      BY <1>2, <3>1
  <2>2. Returned("ok", bytes, Len(bytes))
    BY <1>4 DEF ReadBody
  <2> HIDE DEF bytes
  <2>3. Len(bytes) \in Nat
    BY <2>1
  <2> QED
    BY <1>1, <1>4, <2>1, <2>2, <2>3, ReturnedCall
<1> QED
  BY <1>3, <1>4

LEMMA CallOKStep ==
    ASSUME CallOK, [Next]_vars
    PROVE  CallOK'
<1>1. ASSUME NEW f \in Items, Statement(f)
      PROVE  CallOK'
  BY <1>1, StatementCall DEF CallOK
<1>2. ASSUME UNCHANGED vars
      PROVE  CallOK'
  BY <1>2 DEF vars, CallOK
<1>3. ASSUME NEW statement \in Calls, Request(statement)
      PROVE  CallOK'
  <2>1. call' = [step |-> "sent", statement |-> statement, result |-> "none",
                 buffer |-> <<>>, length |-> 0, rest |-> {}]
    BY <1>3 DEF Request
  <2>2. call' \in Running
    BY <2>1, TextsAssumption DEF Running
  <2>3. statement.giving # None => 0 <= Size[statement.giving] + 1
    <3>1. statement.giving # None => statement.giving \in Items
      BY CallsAssumption
    <3> QED
      BY <3>1, ItemFacts
  <2> QED
    BY <2>1, <2>2, <2>3 DEF CallOK
<1>4. ASSUME NoAnswer \/ ReadFails
      PROVE  CallOK'
  <2>1. call \in Running /\ (call.statement.giving # None => call.length <= Size[call.statement.giving] + 1)
    BY <1>4 DEF NoAnswer, ReadFails, CallOK, Idle
  <2>2. call.buffer \in Seq(Byte) /\ Len(call.buffer) <= MappingBuffer /\ call.length \in Nat
    BY <2>1 DEF Running
  <2>3. Returned("exception", call.buffer, call.length)
    BY <1>4 DEF NoAnswer, ReadFails
  <2> QED
    BY <2>1, <2>2, <2>3, ReturnedCall
<1>5. ASSUME AnswerBegins
      PROVE  CallOK'
  <2>1. call \in Running /\ (call.statement.giving # None => call.length <= Size[call.statement.giving] + 1)
    BY <1>5 DEF AnswerBegins, CallOK, Idle
  <2>2. call' = [call EXCEPT !.step = "reading"]
    BY <1>5 DEF AnswerBegins
  <2>3. call' \in Running
    BY <2>1, <2>2 DEF Running
  <2>4. call'.statement = call.statement /\ call'.length = call.length
    BY <2>1, <2>2 DEF Running
  <2> QED
    BY <2>1, <2>3, <2>4 DEF CallOK
<1>6. ASSUME NEW text \in Texts, ReadBody(text)
      PROVE  CallOK'
  BY <1>6, ReadBodyCall
<1>7. ASSUME NEW f \in Group, MapItem(f)
      PROVE  CallOK'
  <2>1. call \in Running /\ (call.statement.giving # None => call.length <= Size[call.statement.giving] + 1)
    BY <1>7 DEF MapItem, CallOK, Idle
  <2>2. call' = [call EXCEPT !.rest = @ \ {f}]
    BY <1>7 DEF MapItem
  <2>3. call' \in Running
    BY <2>1, <2>2 DEF Running
  <2>4. call'.statement = call.statement /\ call'.length = call.length
    BY <2>1, <2>2 DEF Running
  <2> QED
    BY <2>1, <2>3, <2>4 DEF CallOK
<1>8. ASSUME Return
      PROVE  CallOK'
  BY <1>8 DEF Return, CallOK
<1> QED
  BY Steps, <1>1, <1>2, <1>3, <1>4, <1>5, <1>6, <1>7, <1>8, Zenon DEF CallStep

LEMMA InitTypeInv == Init => TypeInv
<1> SUFFICES ASSUME Init PROVE TypeInv
  OBVIOUS
<1>1. CallOK /\ StdinOK
  BY DEF Init, CallOK, StdinOK
<1> QED
  BY <1>1, InitGood DEF TypeInv

LEMMA TypeInvStep == TypeInv /\ [Next]_vars => TypeInv'
<1> SUFFICES ASSUME TypeInv, [Next]_vars PROVE TypeInv'
  OBVIOUS
<1>1. Good' /\ StdinOK'
  BY GoodStep, StdinStep
<1>2. CallOK'
  BY CallOKStep DEF TypeInv
<1> QED
  BY <1>1, <1>2 DEF TypeInv

----------------------------------------------------------------------------
\* What was read of an answer fits where it is, the buffer of MAPPING and the
\* bytes that the item of GIVING is taken to have, for bodies of every length.
THEOREM ReadingsFit == Spec => []TypeOK
<1>1. TypeInv => TypeOK
  <2> SUFFICES ASSUME TypeInv PROVE TypeOK
    OBVIOUS
  <2>1. /\ memory \in [1..Top -> Byte] /\ stdin \in Seq(Chars \cup {NewlineChar})
        /\ DOMAIN shown = TextItems
    <3>1. MemoryOK /\ StdinOK /\ shown = [f \in TextItems |-> shown[f]]
      BY DEF TypeInv, Good, ShownOK
    <3> QED
      BY <3>1 DEF MemoryOK, StdinOK, Typable
  <2>2. \A f \in TextItems : shown[f].sides \subseteq Sides
    BY DEF TypeInv, Good, ShownOK, IsWhat
  <2>3. CASE call = Idle
    BY <2>1, <2>2, <2>3 DEF TypeOK, Idle
  <2>4. CASE call # Idle
    <3>1. call \in Running /\ (call.statement.giving # None => call.length <= Size[call.statement.giving] + 1)
      BY <2>4 DEF TypeInv, CallOK
    <3>2. /\ call.step \in {"idle", "sent", "reading", "mapping"}
          /\ call.statement \in Calls /\ call.rest \subseteq Group
          /\ call.buffer \in Seq(Byte) /\ Len(call.buffer) <= MappingBuffer
          /\ call.length \in Nat
      BY <3>1 DEF Running
    <3> QED
      BY <2>1, <2>2, <3>1, <3>2, Zenon DEF TypeOK
  <2> QED
    BY <2>3, <2>4
<1> QED
  BY <1>1, InitTypeInv, TypeInvStep, PTL DEF Spec

\* For items of every size, wherever they are: no statement, request or answer
\* changes a byte outside of the one item it stores into, or the NUL of that
\* item, except in the cases that StoresInOneItem names.
THEOREM StoresStayInside == Spec => StoresInOneItem
<1>1. TypeInv /\ [Next]_vars =>
        [\E f \in Items :
          /\ \/ \A a \in DOMAIN memory \ Own(f) : memory'[a] = memory[a]
             \/ f \in TextItems /\ Width(f) < IntBytes /\ FourBytesMoved(f)
             \/ /\ f \in NumberItems /\ Size[f] + 1 > IntBytes
                /\ GivenTo(f) \/ \E l \in Literals : MoveLiteral(f, l)
          /\ f \in TextItems /\ Ended(f) /\ ~Ended(f)' =>
                GivenTo(f) \/ (Size[f] < IntBytes /\ FourBytesMoved(f))]_vars
  BY GoodStep, Zenon DEF OneItem, InOneItem, MayRunOver, MayLoseNul
<1> QED
  BY <1>1, InitTypeInv, TypeInvStep, PTL DEF Spec, StoresInOneItem

----------------------------------------------------------------------------
(* A request that fails.                                                     *)

Failing == call.step \in {"sent", "reading"} \/ (call.step = "mapping" /\ call.result = "exception")

OfStatus(a) == call.statement.status # None /\ a \in Own(call.statement.status)

\* From the request to its failure only the STATUS is stored, and nothing is read
\* that MAPPING could take for an object.
FailureInv ==
    Failing => /\ call.buffer = <<>> /\ call.length = 0
               /\ \A a \in DOMAIN memory : memory[a] = before[a] \/ OfStatus(a)

LEMMA RunningCall ==
    ASSUME CallOK, call.step # "idle"
    PROVE  call \in Running /\ (call.statement.giving # None => call.length <= Size[call.statement.giving] + 1)
BY DEF CallOK, Idle

\* The steps behind which what the memory was before counts as before.
LEMMA FailureSame ==
    ASSUME FailureInv, Failing, UNCHANGED <<memory, before>>, call'.statement = call.statement,
           call'.buffer = call.buffer, call'.length = call.length
    PROVE  FailureInv'
BY DEF FailureInv, OfStatus

LEMMA NothingMapped ==
    ASSUME TypeInv, FailureInv, Failing, NEW f \in Group, MapItem(f)
    PROVE  memory' = memory
<1>1. call.buffer = <<>> /\ call.length = 0 /\ MemoryOK /\ call.step = "mapping"
  BY DEF FailureInv, TypeInv, Good, MapItem
<1>2. JsonText = <<>>
  <2>1. CASE call.statement.giving = None
    BY <1>1, <2>1 DEF JsonText
  <2>2. CASE call.statement.giving # None
    <3>1. call.statement \in Calls
      BY <1>1, RunningCall DEF TypeInv, Running
    <3>2. call.statement.giving \in Items
      BY <2>2, <3>1, CallsAssumption
    <3>3. Base[call.statement.giving] + 0 <= Top
      BY <3>2, ItemFacts
    <3>4. /\ BytesFrom(call.statement.giving, 0) \in Seq(Byte)
          /\ Len(BytesFrom(call.statement.giving, 0)) = 0
      BY <1>1, <3>2, <3>3, BytesFromBytes
    <3>5. BytesFrom(call.statement.giving, 0) = <<>>
      BY <3>4
    <3> QED
      BY <1>1, <2>2, <3>5, Zenon DEF JsonText
  <2> QED
    BY <2>1, <2>2
<1>3. Members(f) = {}
  BY <1>2, ObjectsAssumption, Zenon DEF Members
<1> QED
  BY <1>3, Zenon DEF MapItem

LEMMA FailureStep ==
    ASSUME TypeInv, FailureInv, [Next]_vars
    PROVE  FailureInv'
<1>0. CallOK /\ MemoryOK
  BY DEF TypeInv, Good
<1>1. ASSUME NEW f \in Items, Statement(f)
      PROVE  FailureInv'
  <2>1. call' = call /\ call.step = "idle"
    BY <1>1, StatementCall DEF Between
  <2> QED
    BY <2>1 DEF FailureInv, Failing
<1>2. ASSUME UNCHANGED vars
      PROVE  FailureInv'
  BY <1>2 DEF FailureInv, Failing, OfStatus, vars
<1>3. ASSUME NEW statement \in Calls, Request(statement)
      PROVE  FailureInv'
  <2>1. call'.buffer = <<>> /\ call'.length = 0 /\ before' = memory /\ memory' = memory
    BY <1>3 DEF Request
  <2> QED
    BY <2>1 DEF FailureInv
<1>4. ASSUME NoAnswer \/ ReadFails
      PROVE  FailureInv'
  <2>1. Failing /\ call.step # "idle"
    BY <1>4 DEF NoAnswer, ReadFails, Failing
  <2>2. call \in Running /\ (call.statement.giving # None => call.length <= Size[call.statement.giving] + 1)
    BY <1>0, <2>1, RunningCall
  <2>3. call.buffer \in Seq(Byte) /\ Len(call.buffer) <= MappingBuffer /\ call.length \in Nat
    BY <2>2 DEF Running
  <2>4. Returned("exception", call.buffer, call.length) /\ UNCHANGED <<memory, before>>
    BY <1>4 DEF NoAnswer, ReadFails
  <2>5. call'.statement = call.statement /\ call'.buffer = call.buffer /\ call'.length = call.length
    BY <2>2, <2>3, <2>4, ReturnedCall
  <2> QED
    BY <2>1, <2>4, <2>5, FailureSame
<1>5. ASSUME AnswerBegins
      PROVE  FailureInv'
  <2>1. Failing /\ call.step # "idle" /\ call' = [call EXCEPT !.step = "reading"] /\ before' = before
    BY <1>5 DEF AnswerBegins, Failing
  <2>2. call \in Running
    BY <1>0, <2>1, RunningCall
  <2>3. call'.statement = call.statement /\ call'.buffer = call.buffer /\ call'.length = call.length
    BY <2>1, <2>2 DEF Running
  <2>4. CASE call.statement.status = None
    <3>1. memory' = memory
      BY <1>5, <2>4 DEF AnswerBegins
    <3> QED
      BY <2>1, <2>3, <3>1, FailureSame
  <2>5. CASE call.statement.status # None
    <3> DEFINE s == call.statement.status
    <3>1. s \in NumberItems /\ s \in Items
      BY <2>2, <2>5, CallsAssumption DEF Running, Items
    <3>2. PICK n \in Integers : memory' = Put(s, n)
      BY <1>5, <2>5 DEF AnswerBegins, Store
    <3>3. n \in Seq(Byte) /\ Len(n) = Width(s)
      BY <3>1, IntegerBytes, ItemFacts
    <3>4. /\ memory' \in [1..Top -> Byte]
          /\ \A a \in 1..Top : a \notin (Base[s] + 1)..(Base[s] + Len(n)) => memory'[a] = memory[a]
      BY <1>0, <3>1, <3>2, <3>3, PutBytes
    <3>5. \A a \in 1..Top : a \notin Own(s) => memory'[a] = memory[a]
      BY <3>3, <3>4 DEF Own
    <3>6. /\ call.buffer = <<>> /\ call.length = 0
          /\ \A a \in 1..Top : memory[a] = before[a] \/ OfStatus(a)
      BY <1>0, <2>1 DEF FailureInv, MemoryOK
    <3>7. \A a \in 1..Top : OfStatus(a) <=> a \in Own(s)
      BY <2>5 DEF OfStatus
    <3>8. \A a \in 1..Top : memory'[a] = before'[a] \/ a \in Own(s)
      BY <2>1, <3>5, <3>6, <3>7, Zenon
    <3>9. \A a \in 1..Top : memory'[a] = before'[a] \/ OfStatus(a)'
      <4>1. \A a \in 1..Top : a \in Own(s) => OfStatus(a)'
        BY <2>3, <2>5 DEF OfStatus
      <4> QED
        BY <3>8, <4>1, Zenon
    <3>10. DOMAIN memory' = 1..Top
      BY <3>4
    <3> QED
      BY <2>3, <3>6, <3>9, <3>10 DEF FailureInv
  <2> QED
    BY <2>4, <2>5
<1>6. ASSUME NEW text \in Texts, ReadBody(text)
      PROVE  FailureInv'
  <2>1. call'.step = "mapping" /\ call'.result = "ok"
    BY <1>0, <1>6, ReadBodyCall
  <2> QED
    BY <2>1 DEF FailureInv, Failing
<1>7. ASSUME NEW f \in Group, MapItem(f)
      PROVE  FailureInv'
  <2>1. call.step = "mapping" /\ before' = before /\ call' = [call EXCEPT !.rest = @ \ {f}]
    BY <1>7 DEF MapItem
  <2>2. call \in Running
    BY <1>0, <2>1, RunningCall
  <2>3. /\ call'.statement = call.statement /\ call'.buffer = call.buffer
        /\ call'.length = call.length /\ call'.result = call.result /\ call'.step = call.step
    BY <2>1, <2>2 DEF Running
  <2>4. CASE Failing
    BY <1>7, <2>1, <2>3, <2>4, NothingMapped, FailureSame
  <2>5. CASE ~Failing
    BY <2>3, <2>5 DEF Failing, FailureInv
  <2> QED
    BY <2>4, <2>5
<1>8. ASSUME Return
      PROVE  FailureInv'
  <2>1. call'.step = "idle"
    BY <1>8 DEF Return, Idle
  <2> QED
    BY <2>1 DEF FailureInv, Failing
<1> QED
  BY Steps, <1>1, <1>2, <1>3, <1>4, <1>5, <1>6, <1>7, <1>8, Zenon DEF CallStep

\* Wherever a request fails, nothing but its STATUS is stored, by the request or
\* by the MAPPING behind it: for every program, item and answer.
THEOREM FailureKeepsItemsHolds == Spec => []FailureKeepsItems
<1>1. Init => FailureInv
  BY DEF Init, Idle, FailureInv, Failing
<1>2. TypeInv /\ FailureInv /\ [Next]_vars => FailureInv'
  BY FailureStep
<1>3. FailureInv => FailureKeepsItems
  BY DEF FailureInv, Failing, OfStatus, FailureKeepsItems
<1> QED
  BY <1>1, <1>2, <1>3, InitTypeInv, TypeInvStep, PTL DEF Spec

----------------------------------------------------------------------------
(* What a comparison makes of the bytes.                                     *)

\* An item on the right is the string up to its first NUL.
LEMMA ItemString ==
    ASSUME MemoryOK, ShownInv, NEW g \in TextItems, "right" \in shown[g].sides, Ended(g)
    PROVE  \E m : StringEnds(Bytes(g), 0, m) /\ Trimmed(Up(Bytes(g), m)) = shown[g].text
<1>1. /\ g \in Items /\ Size[g] \in Nat /\ Width(g) = Size[g] + 1
  BY ItemFacts DEF Items
<1>2. Len(Bytes(g)) = Size[g] + 1 /\ Bytes(g)[Size[g] + 1] = Nul
  BY <1>1, BytesOf DEF Ended
<1>3. PICK k \in 0..Size[g] : RightEnds(Bytes(g), Size[g], k) /\ Trimmed(Up(Bytes(g), k)) = shown[g].text
  BY Zenon DEF ShownInv, Gives
<1>4. k \in 0..Len(Bytes(g)) /\ \A i \in (0 + 1)..k : i \in 1..k
  BY <1>1, <1>2
<1>5. Bytes(g)[k + 1] = Nul /\ \A i \in 1..k : Bytes(g)[i] # Nul
  BY <1>2, <1>3, Zenon DEF RightEnds
<1>6. StringEnds(Bytes(g), 0, k)
  BY <1>4, <1>5, Zenon DEF StringEnds
<1> QED
  BY <1>3, <1>6, Zenon

LEMMA ShownCompares ==
    ASSUME MemoryOK, ShownInv
    PROVE  ComparesAsCobol
<1>0. ASSUME NEW f \in TextItems
      PROVE  Bytes(f) \in Seq(Byte) /\ Size[f] \in 0..Len(Bytes(f))
  <2>1. f \in Items /\ Size[f] \in Nat /\ Width(f) = Size[f] + 1
    BY ItemFacts DEF Items
  <2>2. Bytes(f) \in Seq(Byte) /\ Len(Bytes(f)) = Size[f] + 1
    BY <2>1, BytesOf
  <2> QED
    BY <2>1, <2>2
<1>1. ASSUME NEW f \in TextItems, "left" \in shown[f].sides
      PROVE  Trimmed(Up(Bytes(f), Size[f])) = shown[f].text
  BY <1>1, Zenon DEF ShownInv, Gives
<1>2. ASSUME NEW f \in TextItems, "left" \in shown[f].sides, NEW l \in Literals
      PROVE  ComparesEqual(Bytes(f), Size[f], Append(l, Nul), shown[f].text = Trimmed(l))
  <2>1. /\ Append(l, Nul) \in Seq(Byte) /\ Up(Append(l, Nul), Len(l)) = l
        /\ StringEnds(Append(l, Nul), 0, Len(l))
    BY LiteralString
  <2>2. ComparesEqual(Bytes(f), Size[f], Append(l, Nul),
                      Trimmed(Up(Bytes(f), Size[f])) = Trimmed(Up(Append(l, Nul), Len(l))))
    BY <1>0, <2>1, ComparesTexts
  <2> QED
    BY <1>1, <1>2, <2>1, <2>2, Zenon
<1>3. ASSUME NEW g \in TextItems, "right" \in shown[g].sides, Ended(g), NEW l \in Literals
      PROVE  ComparesEqual(l, Len(l), Bytes(g), shown[g].text = Trimmed(l))
  <2>1. l \in Seq(Byte) /\ Up(l, Len(l)) = l /\ Len(l) \in 0..Len(l)
    BY LiteralString
  <2>2. PICK m : StringEnds(Bytes(g), 0, m) /\ Trimmed(Up(Bytes(g), m)) = shown[g].text
    BY <1>3, ItemString, Zenon
  <2>3. ComparesEqual(l, Len(l), Bytes(g), Trimmed(Up(l, Len(l))) = Trimmed(Up(Bytes(g), m)))
    BY <1>0, <2>1, <2>2, ComparesTexts
  <2>4. (Trimmed(l) = shown[g].text) = (shown[g].text = Trimmed(l))
    OBVIOUS
  <2> QED
    BY <2>1, <2>2, <2>3, <2>4, Zenon
<1>4. ASSUME NEW g \in TextItems, "right" \in shown[g].sides, Ended(g),
             NEW f \in TextItems, "left" \in shown[f].sides
      PROVE  ComparesEqual(Bytes(f), Size[f], Bytes(g), shown[f].text = shown[g].text)
  <2>1. PICK m : StringEnds(Bytes(g), 0, m) /\ Trimmed(Up(Bytes(g), m)) = shown[g].text
    BY <1>4, ItemString, Zenon
  <2>2. ComparesEqual(Bytes(f), Size[f], Bytes(g),
                      Trimmed(Up(Bytes(f), Size[f])) = Trimmed(Up(Bytes(g), m)))
    BY <1>0, <2>1, ComparesTexts
  <2> QED
    BY <1>1, <1>4, <2>1, <2>2, Zenon
<1> QED
  BY <1>2, <1>3, <1>4, Zenon DEF ComparesAsCobol

\* Where COBOL says what the text of an item is, it is in the item's bytes, and
\* the comparisons of the host and of bare metal find items, and items and
\* literals, equal when COBOL does, on the sides that ComparesAsCobol names: for
\* items and texts of every length.
THEOREM ComparisonsHold == Spec => []ComparesAsCobol
<1>1. TypeInv => ComparesAsCobol
  BY ShownCompares DEF TypeInv, Good
<1> QED
  BY <1>1, InitTypeInv, TypeInvStep, PTL DEF Spec
=============================================================================
