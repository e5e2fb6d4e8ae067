SPECIFICATION FairSpec
CONSTANTS
    m1 = m1
    m2 = m2
    None = None
    Messages <- MCMessages
    MaxSends = 4
INVARIANTS
    TypeOK
    BufferLive
    DamageConfined
PROPERTIES
    ChannelKept
    Delivered
