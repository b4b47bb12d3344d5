\* the kernel halts after an exception or a panic
CHECK_DEADLOCK FALSE
SPECIFICATION ScreenSpec
CONSTANTS
    a = a
    b = b
    Chars = {a, b, p}
    PromptChar = p
    CancelMark = cc
    Output = out
    COMMAND_NAMES <- SmallCommands
    MAX_INPUT_CHARS = 11
    MaxHistory = 8
    Displays <- SmallDisplays
    FontSizes <- TwoFonts
    CURSOR_GAP = 2
    MOUSE_SIZE = 2
    MOUSE_CLAMP = 3
    MouseDeltas <- Moves
    Started = {0, 4}
    Block = block
    Alarm = alarm
    MaxEvents = 4
INVARIANTS
    InputIsReadable
    MouseLeavesNoTrace
    FailuresAreVisible
    NothingBesideTheRows
