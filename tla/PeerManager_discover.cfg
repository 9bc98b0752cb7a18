SPECIFICATION Spec
CONSTANTS
    Peers = {p1, p2}
    target_peer_number = 1
    MIN_AVERAGE_CONNECTION_DURATION = 3
    Durations = {2, 8}
    U32 = 16
    OverflowChecks = FALSE
    MaxAttempts = 2
    MaxConnections = 2
    MaxRestarts = 0
INVARIANT DiscoversWhatIsMissing
CHECK_DEADLOCK FALSE
