SPECIFICATION Spec
CONSTANTS
    Keep = 4
    Threshold = 20
    BatchMax = 10
    MaxIterations = 3
    MaxCalls = 1
    MaxLLMRetries = 2
    MaxLog = 8
    MaxCrash = 0
    Thread = {run}
INVARIANT
    RequestKept
CHECK_DEADLOCK FALSE
