CONSTANTS
    h1 = h1
    h2 = h2
    u1 = u1
    u2 = u2
    u3 = u3
    Hosts = {h1, h2}
    Sockets = {s1}
    NULL = NULL
    DnsTimeout = 1
    ConnectTimeout = 0
    CloseTimeout = 1
    Urls = {u1}
    HostOf <- OneUrl
    TooLong = {}
    Statuses = {5, 10, 20, 30, 40, 60}
    MaxRedirects = 5
    ChunkSizes = {1, 2}
    Word = 4
    MaxInputs = 1
    MaxBytes = 4
SPECIFICATION Spec
INVARIANTS RedirectLimitReported
