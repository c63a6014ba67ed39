SPECIFICATION FairSpec
CONSTANTS
    Keep = 2
    Threshold = 3
    BatchMax = 2
    MaxIterations = 1
    MaxCalls = 2
    MaxLLMRetries = 1
    MaxLog = 6
    MaxCrash = 1
    Thread = {run}
INVARIANTS
    InOrder
    PromptWellFormed
    NothingForgotten
PROPERTY
    SummariserFreed
CHECK_DEADLOCK FALSE
