\* A statement of the documentation that the code does not keep.
CONSTANTS
    MAX_PACKET_SIZE = 20
    UINT_MOD = 64
    MAX_ARGS = 2
    ArgV <- CornerArgs
SPECIFICATION Spec
INVARIANT RawProtocolAccepted
CHECK_DEADLOCK FALSE
