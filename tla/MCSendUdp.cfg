CONSTANTS
    MAX_ADDRESSES = 4
    PACKET_SIZE = 3
SPECIFICATION Spec
INVARIANTS
    TypeOK
    NothingLeaked
    AddressesHeld
    CodeTellsTheTruth
    OneSocket
PROPERTY Returns
\* SendUdp returns.
CHECK_DEADLOCK FALSE
