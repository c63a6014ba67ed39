SPECIFICATION AgentFairSpec
CONSTANTS
    Agent = {main, helper}
    Default = main
    Chat = {c1, c2}
    MaxTurns = 2
    MaxIterations = 2
    MaxLLMRetries = 1
    None = None
    Sweeper = {s1}
    Caller = {r1}
    Nil = Nil
    MaxToken = 2
    Ttl = 1
    NeedsWithin = 1
    SweepWithin = 1
    MaxRetries = 2
INVARIANTS
    RoundAnswered
    OwnChat
PROPERTIES
    TurnEnds
    DueIsTried
CHECK_DEADLOCK FALSE
