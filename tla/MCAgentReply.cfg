SPECIFICATION AgentFairSpec
CONSTANTS
    Agent = {main}
    Default = main
    Chat = {c1}
    MaxTurns = 2
    MaxIterations = 1
    MaxLLMRetries = 0
    None = None
    Sweeper = {s1}
    Caller = {r1}
    Nil = Nil
    MaxToken = 2
    Ttl = 1
    NeedsWithin = 1
    SweepWithin = 1
    MaxRetries = 2
INVARIANT
    SkippedOnlyIfSent
CHECK_DEADLOCK FALSE
