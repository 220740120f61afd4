SPECIFICATION LifecycleFairSpec
CONSTANTS
    MaxRequests = 4
    Signals = {"SIGTERM", "SIGUSR1", "SIGHUP", "SIGQUIT"}
    LuaAsks = {"SHUTDOWN", "RELOAD"}
    PollFails = TRUE
CHECK_DEADLOCK FALSE
INVARIANTS
    LifecycleTypeOK
    ActsOnLiveLoop
    NoEarlyAbort
PROPERTY
    LeavingCompletes
