SPECIFICATION Spec
CONSTANTS
    Lengths = {8, 84}
INVARIANT StatusAndPingAccepted
CHECK_DEADLOCK FALSE
