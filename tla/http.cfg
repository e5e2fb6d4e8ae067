SPECIFICATION FairHttp
CONSTANTS
    s1 = s1
    s2 = s2
    ann = ann
    alice = alice
    carol = carol
    None = None
    Missing = Missing
    Sessions <- MCSessions
    Usernames <- MCUsernames
    Clients <- MCClients
    Requests <- MCRequests
    Duration = 1
    MaxTime = 2
    IoThreads = 0
INVARIANTS
    HttpTypeOK
    ActsAuthenticated
    RoutedRight
    SlidingExpiration
PROPERTY
    EveryoneServed
