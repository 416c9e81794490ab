\* Deadlock is checked: see Over in CmdSendSystem.
CONSTANTS
    Typed <- Lines
    MAX_PACKET_SIZE = 20
    UINT_MOD = 64
    DB <- Database
    MAX_ADDRESSES = 2
SPECIFICATION Spec
INVARIANTS
    PassThruPacketAsTyped
    EdsPacketAsTyped
    EdsGoesFirst
    OneDatagram
    HelpAsTyped
