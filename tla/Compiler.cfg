SPECIFICATION Spec
CONSTANTS
    Chars <- MCChars
    Texts <- MCTexts
    Letters <- MCLetters
    Digits <- MCDigits
    HexDigits <- MCHexDigits
    Upper <- MCUpper
    Keywords <- MCKeywords
    Newline <- MCNewline
    Numeral <- MCNumeral
    MaxInt <- MCMaxInt
    Expressions <- MCExpressions
    Statements <- MCStatements
    Height <- MCHeight
    Bodies <- MCBodies
CHECK_DEADLOCK FALSE
INVARIANTS
    TypeOK
    PositionsExact
    TokensExact
    HierarchyExact
    ExpressionExact
    AcceptedResolves
    CallsAreLinked
