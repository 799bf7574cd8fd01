SPECIFICATION Spec
CONSTANTS
    Clients = {c1, c2, c3}
    Ports = {8080}
    HeaderNames = {XProxy}
    Statuses = {0, 200}
    MaxListens = 4
    MaxFailed = 1
    None = None
SYMMETRY ClientSymmetry
INVARIANTS
    TypeOK
    TokenIsOwn
    OneWriter
    HeadersOfOwnResponse
    OneResponsePerRequest
    RequestInOnePlace
    PortsAccountedFor
PROPERTY
    ImplementsService
\* A second HTTP-RESPOND, an invalid status, a failed bind and STOP RUN all
\* leave the program with nothing more to do.
CHECK_DEADLOCK FALSE
