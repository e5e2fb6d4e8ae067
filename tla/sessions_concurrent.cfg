SPECIFICATION Spec
CONSTANTS
    s1 = s1
    s2 = s2
    s3 = s3
    ann = ann
    None = None
    Sessions <- MCSessions
    Usernames <- MCUsernames
    Duration = 2
    MaxTime = 4
    IoThreads = 1
SYMMETRY MCSymmetry
INVARIANTS
    TypeOK
    MapsAgree
    SweptClean
    ContinuousUse
PROPERTY
    NoRevival
