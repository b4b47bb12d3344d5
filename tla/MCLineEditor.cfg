SPECIFICATION Spec
CONSTANTS
    a = a
    b = b
    Chars = {a, b, p}
    PromptChar = p
    CancelMark = cc
    Output = out
    COMMAND_NAMES <- SmallCommands
    MAX_INPUT_CHARS = 2
    MaxHistory = 2
INVARIANTS
    IndicesAreValid
    ShownIsRun
