SPECIFICATION FairSpec
CONSTANTS
    Client = {c1, c2}
    NoClient = NoClient
    Orphan = {c2}
    MaxPending = 2
    JobQueueSize = 4
INVARIANTS
    TypeOK
    RefsLive
    ExitReported
    NoStrayThread
PROPERTY
    LifeSpec
