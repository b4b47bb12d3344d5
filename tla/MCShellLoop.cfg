SPECIFICATION LiveSpec
CONSTANTS
    Builds = {TRUE, FALSE}
    RB_SIZE = 1
    TaskWork = 3
    InitialBudget = 1
    TASK_BUDGET = 1
    ReportPeriod = 2
    MaxKeys = 4
    MaxMouse = 2
INVARIANTS
    NeverSleepsOnInput
    EveryByteIsAccounted
    CtrlIsTrackedUnlessDropped
PROPERTIES
    InputIsRead
    TasksFinish
