SPECIFICATION Spec
SYMMETRY Symmetry
CONSTANTS
    Pid = {p1, p2}
    NoPid = NoPid
    Plain = Plain
    Junk = Junk
    NoTime = NoTime
    PcrRange = 2
    MinSize = 2
    MaxSize = 8
    Enough = 2
    Low = 2
    MaxHeld = 3
    MaxPush = 2
INVARIANTS
    TypeOK
    BlocksHeld
    OneBlockPerPace
PROPERTIES
    QueueSpec
