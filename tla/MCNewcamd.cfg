SPECIFICATION Spec
CONSTANTS
    Decrypt = {d1, d2}
    NoPacket = NoPacket
    MaxQueue = 2
    MaxLost = 1
INVARIANTS
    TypeOK
    Watched
    AnswerFits
    ReadyIsKnown
PROPERTY
    RequestEnds
