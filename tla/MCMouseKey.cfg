SPECIFICATION DriverSpec
CONSTANTS
    POLL_LIMIT = 2
    DRAIN_LIMIT = 2
    RB_SIZE = 1
    Firmware <- FirmwareConfigs
    Stale <- NothingLeft
    Mice <- SmallMice
    Scancodes <- KeyA
INVARIANT
    KeyboardStaysOn
