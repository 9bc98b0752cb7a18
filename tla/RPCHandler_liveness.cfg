SPECIFICATION FairSpec
CONSTANTS
    ReqIds = {r1, r2}
    InboundKinds = {"MetaData", "Goodbye"}
    OutboundKinds = {"Ping", "Goodbye"}
    MAX_INBOUND_SUBSTREAMS = 1
    max_dial_negotiated = 2
    IO_ERROR_RETRIES = 3
    MaxInbound = 2
PROPERTIES
    ShutdownCompletes
    RequestsSettle
    AnswersAreSent
CHECK_DEADLOCK FALSE
