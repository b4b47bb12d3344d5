SPECIFICATION DriverSpec
CONSTANTS
    POLL_LIMIT = 2
    DRAIN_LIMIT = 2
    RB_SIZE = 1
    Firmware <- FirmwareConfigs
    Stale <- MaybeAck
    Mice <- SmallMice
    Scancodes <- KeyA
INVARIANTS
    HandshakeIsHonest
    PacketsAreGenuine
    NoPhantomKeys
PROPERTIES
    BootContinues
    PortIsServed
