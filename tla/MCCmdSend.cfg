\* Two encoders: the build with CFE_EDS_ENABLED.
CONSTANTS
    NUM_PARSERS = 2
    WithHelp = {1}
    CommandLines <- Lines
SPECIFICATION Spec
INVARIANTS
    TypeOK
    GoodParsersCounts
    CallsInOrder
    EncodersSawEverything
    BufferHoldsThePacket
    ObjectsLiveAndFreed
    OneOutcome
    OptionsUnderstood
PROPERTIES
    Termination
    ImplementsDispatch
\* The program ends.
CHECK_DEADLOCK FALSE
