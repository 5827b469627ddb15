CONSTANTS
    a = a
    b = b
    f = f
    g = g
    Hosts = {a, b}
    Fps = {f, g}
    NoFp = NoFp
    Unsupported = Unsupported
    Garbled = Garbled
    NoHost = NoHost
    InitialStores <- FinishedStores
    Faults = {"denied", "crash"}
    MaxLines = 4
    MaxCrashes = 2
SPECIFICATION Spec
INVARIANTS AcceptedIsRemembered
PROPERTIES ImplementsTrustStore
