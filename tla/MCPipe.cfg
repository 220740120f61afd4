\* Three looks at a process before it is killed, reads of two packets, wants
\* of up to three, an input buffer of two.  The module stops when destroyed,
\* the program when it crashes.
SPECIFICATION Spec
CONSTANTS
    MaxTicks = 3
    MaxWant = 3
    MaxRead = 2
    Slots = 2
INVARIANTS
    TypeOK
    OneProcess
    OwnTimer
    Woken
PROPERTIES
    Settles
CHECK_DEADLOCK FALSE
