SPECIFICATION FairSpec
CONSTANTS
    Statements <- MCStatements
    Depth <- MCDepth
    Sources <- MCSources
    Streams <- AllStreams
INVARIANTS
    TypeOK
    AcceptedIsParsed
    RoundTrip
PROPERTIES
    Progress
    WellNestedReturns
