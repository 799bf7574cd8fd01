SPECIFICATION Spec
CONSTANTS
    Cols = 3
    Rows = 3
    Behind = 3
    Blank = Blank
    X = X
    Sign = Sign
    Zero = Zero
    Digit1 = Digit1
    Chars <- SmallChars
    Digit <- SmallDigits
    Minus = Sign
    Texts <- ShortTexts
    Numbers <- Positive
    FieldSize = 3
INVARIANTS
    TypeOK
    OnScreen
    ReadyForLine
PROPERTIES
    ImplementsTerminal
    NextRowStart
