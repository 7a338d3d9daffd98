SPECIFICATION FairSpec
CONSTANTS
    p1 = p1
    p2 = p2
    w1 = w1
    w2 = w2
    Senders = {s1, s2}
    Watchers = {w1, w2}
    Changes <- RegistryChanges
    Request <- RegistryRequests
    MayDisconnect = {}
    MaxChanges = 2
    MaxBatch = 2
    AnyProject = AnyProject
    NoWriter = NoWriter
PROPERTIES
    EverySenderReturns
    WatchersRegister
CHECK_DEADLOCK FALSE
