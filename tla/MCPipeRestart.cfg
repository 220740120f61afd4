\* As MCPipe, for the restart option alone.
SPECIFICATION Spec
CONSTANTS
    MaxTicks = 3
    MaxWant = 3
    MaxRead = 2
    Slots = 2
PROPERTY
    AutoRestart
CHECK_DEADLOCK FALSE
