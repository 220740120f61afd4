SPECIFICATION Spec
CONSTANTS
    Timer = {t1, t2}
    NoTimer = NoTimer
    Interval = {0, 1}
    DelayMin = 1
    DelayMax = 2
    MaxTime = 2
    Event = {e1, e2}
    NoEvent = NoEvent
    Kind = {"read", "error"}
    MaxBatch = 2
SYMMETRY Symmetry
CHECK_DEADLOCK FALSE
INVARIANTS
    TypeOK
    WalkOnItsTimer
    NoTimerMissed
    NoOversleep
    NoStaleEvent
