SPECIFICATION Spec
CONSTANTS
    TextItems <- MCTextItems
    NumberItems <- MCNumberItems
    Size <- MCSize
    Base <- MCBase
    Top <- MCTop
    Byte <- MCByte
    Chars <- MCChars
    Nul = "nul"
    NewlineChar = "nl"
    Literals <- MCLiterals
    Integers <- MCIntegers
    Lines <- MCLines
    NumberLength = 3
    Texts <- MCTexts
    Objects <- MCObjects
    MappingBuffer = 4
    Group <- MCGroup
    Calls <- MCCalls
    None = "none"
INVARIANTS
    TypeOK
    ComparesAsCobol
    FailureKeepsItems
PROPERTY
    StoresInOneItem
