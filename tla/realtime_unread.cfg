SPECIFICATION FairSpec
CONSTANTS
    ann = ann
    bob = bob
    c1 = c1
    c2 = c2
    None = None
    Users <- MCOne
    Conns <- MCOneConn
    IoThreads = 0
PROPERTY
    AcceptedIsRead
