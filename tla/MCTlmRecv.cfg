CONSTANTS
    DISPLAYS <- BothDisplays
    MAX_PACKET_SIZE = 3
    WIDTH = 2
    NUL = NUL
    Garbage = Garbage
    OptionLines <- Lines
    Sizes = {0, 2, 3, 5}
    MAX_RECEIVED = 3
SPECIFICATION Spec
INVARIANTS
    TypeOK
    DumpsTheLastDatagram
    EachShownOnce
    DecodesTheDatagramAtHand
\* The program returns when it cannot receive.
CHECK_DEADLOCK FALSE
