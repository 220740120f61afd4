\* A channel served over HTTP alone: to one client of the server, and one
\* of another server.
SPECIFICATION Spec
CONSTANTS
    N = 3
    Source <- MCSource
    Of <- MCOf
    Cam <- MCCam
    Timeout = 1
    StartDelay = 2
    Permanent = 0
    Client = {c1}
    Size = 2
    Fill = 1
    Http = {"a"}
    MaxOthers = 1
INVARIANTS
    TypeOK
    BestFeeds
    Counted
    NoStall
PROPERTY
    Recovers
