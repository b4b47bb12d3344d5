SPECIFICATION LiveSpec
CONSTANTS
    MAX_TASKS = 3
    GEN_MAX = 2
    Budgets = {1, 2}
    MaxTick = 1
    MaxSpawns = 3
INVARIANTS
    TypeOK
    CurrentIsTheRunningTask
    StaleIdsAreInvalid
    BoundedBypass
PROPERTIES
    SleepIsNotCutShort
    ReadyIsServed
    SleepersWake
