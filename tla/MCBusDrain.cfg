SPECIFICATION BusFairSpec
CONSTANTS
    NumQueues = 1
    Cap = 1
    Publisher = {p1, p2}
    Consumer = {c1}
    Msg = {m1, m2, m3}
    None = None
    UserChat = {u1}
    SideChat = {u2}
    Side = {"cron"}
    MaxTask = 2
    MaxUser = 1
    Capacity = 1
    NoChat = NoChat
INVARIANTS
    DrainedAfterClose
CHECK_DEADLOCK FALSE
