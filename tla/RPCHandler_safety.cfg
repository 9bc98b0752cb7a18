SPECIFICATION Spec
CONSTANTS
    ReqIds = {r1, r2}
    InboundKinds = {"MetaData", "Status", "Goodbye"}
    OutboundKinds = {"Ping", "Goodbye"}
    MAX_INBOUND_SUBSTREAMS = 2
    max_dial_negotiated = 2
    IO_ERROR_RETRIES = 2
    MaxInbound = 3
SYMMETRY RequestSymmetry
INVARIANTS
    TypeOK
    TimersMatchSubstreams
    NegotiationsAccounted
    NoDialAfterShutdown
    RequestsConserved
    AnswersHaveSubstreams
    OnlyAnswersAreSent
PROPERTY ImplementsConnection
CHECK_DEADLOCK FALSE
