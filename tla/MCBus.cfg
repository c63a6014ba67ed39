SPECIFICATION BusFairSpec
CONSTANTS
    NumQueues = 2
    Cap = 2
    Publisher = {p1, p2}
    Consumer = {c1, c2}
    Msg = {m1, m2, m3}
    None = None
    UserChat = {u1}
    SideChat = {u2}
    Side = {"cron"}
    MaxTask = 2
    MaxUser = 1
    Capacity = 1
    NoChat = NoChat
PROPERTIES
    ImplementsChannels
    CloseReleases
    SpawnReturns
CHECK_DEADLOCK FALSE
