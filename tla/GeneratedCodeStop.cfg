SPECIFICATION Spec
CONSTANTS
    Statements <- MCStatements
    Depth <- MCDepth
    Programs <- StopInSub
    MaxCalls = 2
PROPERTY
    StopRunStops
CHECK_DEADLOCK FALSE
