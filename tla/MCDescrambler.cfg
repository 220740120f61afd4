SPECIFICATION Spec
CONSTANTS
    MaxPeriod = 3
    Clear = Clear
    BatchSize = 2
    StorageSize = 5
    Address = {a1, a2}
INVARIANTS
    TypeOK
    HeldUntilOpened
    RightWord
