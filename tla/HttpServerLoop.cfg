SPECIFICATION LoopSpec
CONSTANTS
    Clients = {c1, c2, c3}
    Ports = {8080}
    HeaderNames = {}
    Statuses = {200}
    MaxListens = 4
    MaxFailed = 1
    None = None
PROPERTIES
    RespondReturns
    ListenReturns
    PortGivenBack
    EveryRequestServed
\* When every client has been served, the last HTTP-LISTEN waits for ever.
CHECK_DEADLOCK FALSE
