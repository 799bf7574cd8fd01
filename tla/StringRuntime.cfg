SPECIFICATION Spec
CONSTANTS
    A = A
    C = C
    Blank = Blank
    Outside = Outside
    Old = Old
    Bytes <- TwoBytes
    Size = 3
    Behind = 1
    Sources <- SmallSources
    Delims <- SmallDelims
    Word = 8
    HighWords <- SmallWords
    Pointers <- SmallPointers
    MaxItems = 2
    Receivers = 2
    FieldSize = 2
INVARIANTS
    TypeOK
    FieldIsConcatenation
    OverflowExact
    WordsReceived
    TallyExact
