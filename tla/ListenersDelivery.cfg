SPECIFICATION Spec
CONSTANTS
    p1 = p1
    p2 = p2
    w1 = w1
    w2 = w2
    Senders = {s1, s2}
    Watchers = {w1, w2}
    Changes <- MixedChanges
    Request <- MixedRequests
    MayDisconnect = {w1}
    MaxChanges = 3
    MaxBatch = 2
    AnyProject = AnyProject
    NoWriter = NoWriter
SYMMETRY HandlerSymmetry
INVARIANTS
    TypeOK
    SendersUseRegisteredChannels
    RegisteredMissNothing
PROPERTY ImplementsEventFeed
CHECK_DEADLOCK FALSE
