SPECIFICATION Spec
CONSTANTS
    Statements <- MCStatements
    Depth <- MCDepth
    Programs <- Nested
    MaxCalls = 2
INVARIANT
    TypeOK
PROPERTY
    ImplementsSource
\* The program ends.
CHECK_DEADLOCK FALSE
