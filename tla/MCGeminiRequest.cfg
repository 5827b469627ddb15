CONSTANTS
    h1 = h1
    h2 = h2
    u1 = u1
    u2 = u2
    u3 = u3
    Hosts = {h1, h2}
    Sockets = {s1}
    NULL = NULL
    DnsTimeout = 1
    ConnectTimeout = 0
    CloseTimeout = 1
    Urls = {u1, u2, u3}
    HostOf <- MCHostOf
    TooLong = {u3}
    Statuses = {9, 10, 20, 29, 39, 40, 69, 70}
    MaxRedirects = 2
    ChunkSizes = {1, 2}
    Word = 4
    MaxInputs = 1
    MaxBytes = 4
SPECIFICATION FairSpec
INVARIANTS TypeOK IdleHoldsNothing RedirectsBounded ResultAgrees
PROPERTIES SendsOnlyToTrustedHost OnePagePerCall ImplementsFetch RequestReturns
