SPECIFICATION FairSpec
CONSTANTS
    Client = {c1, c2}
    NoClient = NoClient
    Orphan = {}
    MaxPending = 2
    JobQueueSize = 2
PROPERTY
    ExitedIsJoined
