SPECIFICATION Spec
CONSTANTS
    Conns = {c1, c2}
    Kinds = {"MetaData", "Goodbye"}
    MaxInbound = 4
    notify_handler_buffer_size = 1
    connection_event_buffer_size = 1
INVARIANT OneAnswerUnderWay
PROPERTIES
    ConnectionsImplemented
    AnswersArrive
CHECK_DEADLOCK FALSE
