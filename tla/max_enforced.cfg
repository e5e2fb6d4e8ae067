SPECIFICATION Spec
CONSTANTS
    ann = ann
    bob = bob
    cat = cat
    L1 = L1
    L2 = L2
    None = None
    Users <- MCUsers
    LobbyIds <- MCLobbyIds
    RequestedMax <- MCEdges
    IntModulus = 8
    SizeModulus = 64
    IoThreads = 0
INVARIANT
    MaximumEnforced
