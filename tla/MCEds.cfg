\* Every order of up to three options and arguments, options first.
CONSTANTS
    DB <- Database
    MAX_ARGS = 3
    ArgV <- EdsArgs
SPECIFICATION Spec
INVARIANTS
    TypeOK
    LookupNeverStale
    PacketIsTheCommandAsked
    HeaderAsAsked
    PayloadAsAsked
    InstanceAsNamed
    HelpFitsTheCommandLine
\* The encoder is called no more after the packet or the help.
CHECK_DEADLOCK FALSE
