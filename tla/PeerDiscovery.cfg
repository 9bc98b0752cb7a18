SPECIFICATION Spec
CONSTANTS
    Peers = {p1, p2}
    target_peer_number = 1
    MIN_AVERAGE_CONNECTION_DURATION = 3
    Durations = {2}
    U32 = 16
    OverflowChecks = TRUE
    MaxAttempts = 2
    MaxConnections = 1
    MaxRestarts = 1
    Queries = {q1, q2}
INVARIANT OneRequestAtATime
PROPERTIES
    ImplementsPeerManager
    DiscoveryAnswered
    GapIsActedOn
    DialsTimeOut
CHECK_DEADLOCK FALSE
