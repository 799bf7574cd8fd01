SPECIFICATION Spec
CONSTANTS
    Chars <- MCChars
    Texts <- ProgramTexts
    Letters <- MCLetters
    Digits <- MCDigits
    HexDigits <- MCHexDigits
    Upper <- MCUpper
    Keywords <- MCKeywords
    Newline <- MCNewline
    Numeral <- MCNumeral
    MaxInt <- MCMaxInt
    Expressions <- MCExpressions
    Statements <- MCStatements
    Height <- MCHeight
    Bodies <- MovesOfItems
CHECK_DEADLOCK FALSE
INVARIANT
    AcceptedAssembles
