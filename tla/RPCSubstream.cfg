SPECIFICATION Spec
CONSTANTS
    Lengths = {0, 8, 17, 84, 128, 256, 257, 10485761}
INVARIANTS
    DecodedAsSent
    WholeFramesDecode
    OwnResponsesUnderstood
CHECK_DEADLOCK FALSE
