CONSTANTS
    a = a
    b = b
    f = f
    g = g
    Hosts = {a, b}
    Fps = {f, g}
    NoFp = NoFp
    Unsupported = Unsupported
    Garbled = Garbled
    NoHost = NoHost
    InitialStores <- EditedStores
    Faults = {}
    MaxLines = 5
    MaxCrashes = 0
SPECIFICATION Spec
INVARIANTS AcceptedIsRemembered
