SPECIFICATION FairSpec
CONSTANTS
    Statements <- MCStatements
    Depth <- MCDepth
    Sources <- MCSources
    Streams <- MissingEndIf
PROPERTY
    ParserReturns
