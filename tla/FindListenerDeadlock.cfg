SPECIFICATION FairSpec
CONSTANTS
    p1 = p1
    p2 = p2
    w1 = w1
    w2 = w2
    Senders = {s1, s2}
    Watchers = {w1, w2}
    Changes <- RegistryChanges
    Request <- RegistryRequests
    MayDisconnect = {w1}
    MaxChanges = 2
    MaxBatch = 1
    AnyProject = AnyProject
    NoWriter = NoWriter
PROPERTY WatchersRegister
CHECK_DEADLOCK FALSE
