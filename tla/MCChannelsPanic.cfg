SPECIFICATION Spec
CONSTANTS
    a = a
    cli = cli
    t1 = t1
    t2 = t2
    t3 = t3
    md = md
    Channel = {a}
    Internal = {cli}
    Msg = {t1, t2}
    ChannelOf <- TextChannelOf
    KindOf <- TextKindOf
    ChunksOf <- TextChunksOf
    MediaSender = {}
    QueueSize = 1
    MaxRetries = 1
    Removable = {}
    None = None
INVARIANT
    NoPanic
CHECK_DEADLOCK FALSE
