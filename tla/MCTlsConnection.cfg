CONSTANTS
    Hosts = {h1, h2}
    Sockets = {s1}
    NULL = NULL
    DnsTimeout = 2
    ConnectTimeout = 2
    CloseTimeout = 2
SPECIFICATION ConnFairSpec
INVARIANTS ConnTypeOK ResourcesAccounted FreeSocketsQuiet NothingHeldBetweenCalls
PROPERTIES SocketOutlivesSession ConnectReturns CloseReturns
