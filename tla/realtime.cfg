SPECIFICATION FairSpec
CONSTANTS
    ann = ann
    bob = bob
    c1 = c1
    c2 = c2
    None = None
    Users <- MCTwo
    Conns <- MCTwoConns
    IoThreads = 1
INVARIANTS
    TypeOK
    OnlineReachable
    WatchedOnline
    BindingSound
PROPERTIES
    NoTakeover
    PresenceKept
    GhostsOnlyExpelled
    LossNoticed
