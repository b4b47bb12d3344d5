SPECIFICATION Spec
CONSTANTS
    PIT_FREQUENCY = 7
    PIT_DIVISOR = 2
    SECOND = 3
    U64_MAX = 1000
    Durations = {0, 1, 2, 5}
    MaxTicks = 12
INVARIANTS
    SleepsAreLongEnough
PROPERTIES
    SleepsEnd
