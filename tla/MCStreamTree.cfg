SPECIFICATION Spec
CONSTANTS
    Module = {m1, m2, m3, m4}
    NoModule = NoModule
    Pid = {p1}
    Opaque = {m4}
    Source = {m1}
    CountSize = 6
    MaxOwn = 1
SYMMETRY Symmetry
INVARIANTS
    TypeOK
    Balanced
    NoDoubleLeave
    PidsFollowDemand
