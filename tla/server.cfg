SPECIFICATION FairServer
CONSTANTS
    ann = ann
    bob = bob
    L1 = L1
    L2 = L2
    None = None
    Users <- MCUsers
    Players <- MCPlayers
    LobbyIds <- MCLobbyIds
    RequestedMax <- MCMaxima
    IntModulus = 8
    SizeModulus = 64
    IoThreads = 1
INVARIANTS
    ServerTypeOK
    ListFresh
PROPERTIES
    HostTimeoutDestroys
    TimedOutLeaves
