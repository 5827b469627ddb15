CONSTANTS
    a = a
    b = b
    f = f
    g = g
    Hosts = {a, b}
    Fps = {f, g}
    NoFp = NoFp
    Unsupported = Unsupported
    Garbled = Garbled
    NoHost = NoHost
    InitialStores <- AllStores
    Faults = {"diskfull", "denied", "crash"}
    MaxLines = 2
    MaxCrashes = 1
SPECIFICATION Spec
INVARIANTS TypeOK CertificateWasGranted
PROPERTIES TrustedForAReason StoreNeedsConsent
