SPECIFICATION KernelSpec
CONSTANTS
    Sources <- SmallSources
    Kernels <- SmallKernels
    NoName = none
    NODE_CAPACITY = 4
    MaxDepth = 3
    MaxCalls = 6
INVARIANTS
    PathIsTheStack
    TreeIsComplete
    HooksAreExact
