SPECIFICATION ServicesSpec
CONSTANTS
    UserChat = {c1}
    SideChat = {c2}
    Side = {"cron"}
    MaxTask = 2
    MaxUser = 1
    Capacity = 1
    NoChat = NoChat
    Sweeper = {s1}
    Caller = {r1}
    Nil = Nil
    MaxToken = 2
    Ttl = 1
    NeedsWithin = 1
    SweepWithin = 1
    MaxRetries = 2
    Handler = {h1, h2}
    Reported <- SomeReports
    MaxSub = 2
    MaxEvent = 5
    MaxRow = 1
    NoWork = NoWork
    l1 = l1
    l2 = l2
    w1 = w1
    w2 = w2
    Message = {one}
    Worker = {w1, w2}
    Loop = {l1, l2}
    WorkerOf <- OneLoopEach
    MaxDeliver = 2
    MaxRestart = 1
    NoMessage = NoMessage
    Account = {a1, a2}
    Founder = a1
    Request = {q1, q2, q3}
    Ticket = {t1, t2}
    Wish <- PromotionAndSuspension
    NoRow = NoRow
    NoTicket = NoTicket
    Server = {m1, m2}
    ToolCall = {tc1, tc2}
    NoServer = NoServer
    User = {u1, u2}
    NoUser = NoUser
    MaxBoot = 2
    Agent = {g1}
    Command = {k1}
    Turn = {x1, x2, k1}
    MaxContainer = 2
    NoContainer = NoContainer
    Provider = {p1, p2}
    Projected = {p1}
    AuthCaller = {b1, b2}
    MaxGrant = 2
    NoCred = NoCred
    d1 = d1
    d2 = d2
    f1 = f1
    f2 = f2
    Delivery = {d1, d2}
    Path = {f1, f2}
    PathOf <- SameFile
    MaxRun = 2
INVARIANTS
    AtLeastOnce
    DisconnectCleansUp
    NoneCutOff
    CooldownKept
    AdminRemains
    NotTakenAway
    NeverReused
    NamesAreUnique
PROPERTIES
    LinkKept
    OnlyOwnFields
    CommandStops
    OthersKept
CHECK_DEADLOCK FALSE
