SPECIFICATION LifecycleFairSpec
CONSTANTS
    MaxRequests = 2
    Signals = {"SIGTERM", "SIGHUP"}
    LuaAsks = {}
    PollFails = FALSE
CHECK_DEADLOCK FALSE
PROPERTY
    ShutdownEnds
