\* Header fields, overrides and defaults over every order of up to three arguments.
CONSTANTS
    MAX_PACKET_SIZE = 20
    UINT_MOD = 64
    MAX_ARGS = 3
    ArgV <- HeaderArgs
SPECIFICATION Spec
INVARIANTS
    TypeOK
    FieldsReachTheWire
    DefaultsOnWire
    HeaderChecksumCloses
\* The program ends after the packet was made or refused.
CHECK_DEADLOCK FALSE
