SPECIFICATION FairSpec
CONSTANTS
    a = a
    cli = cli
    t1 = t1
    t2 = t2
    t3 = t3
    md = md
    Channel = {a}
    Internal = {cli}
    Msg = {t1, t2, t3, md}
    ChannelOf <- MixChannelOf
    KindOf <- MixKindOf
    ChunksOf <- MixChunksOf
    MediaSender = {}
    QueueSize = 1
    MaxRetries = 1
    Removable = {a}
    None = None
INVARIANTS
    DeliveredInOrder
    NothingLostWhileRunning
    UnregisterDrains
PROPERTIES
    LockReleased
    EnqueuedSettles
CHECK_DEADLOCK FALSE
