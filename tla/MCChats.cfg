SPECIFICATION ChatsFairSpec
CONSTANTS
    k1 = k1
    m1 = m1
    m2 = m2
    Key = {k1}
    Msg = {m1, m2}
    KeyOf <- OneChat
    MaxAnswer = 2
    None = None
    Text = {1, 2}
    Poller = {p1, p2}
    MaxReply = 3
    NoTask = NoTask
    Id = {1, 2, 3}
    RingSize = 2
    Conn = {w1, w2}
    NoConn = NoConn
    o1 = o1
    o2 = o2
    s1 = s1
    s2 = s2
    Client = {o1, o2}
    Session = {s1, s2}
    SessionOf <- TwoSessions
    MaxConnections = 1
    Window = 1
    Nobody = Nobody
    MaxStart = 2
    Reconnecter = {g1, g2}
    MaxDrop = 2
    NoClient = NoClient
INVARIANTS
    EditedOnce
    UrlUsedOnce
    MapsAgree
    HandledOnce
    EndedForgotten
    StoreOutlivesUsers
PROPERTIES
    SendReturns
    Redials
    SendEnds
CHECK_DEADLOCK FALSE
