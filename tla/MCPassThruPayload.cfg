CONSTANTS
    MAX_PACKET_SIZE = 20
    UINT_MOD = 64
    MAX_ARGS = 4
    ArgV <- PayloadArgs
SPECIFICATION Spec
INVARIANTS
    PayloadOnWire
    PackedFits
    NoOverrun
CHECK_DEADLOCK FALSE
