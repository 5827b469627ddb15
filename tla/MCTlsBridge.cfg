CONSTANTS
    RcvBufSize = 2
    RingSize = 2
    MaxEnqueueSize = 2
    MaxWindow = 2
    RecvTimeout = 1
    ReadSizes = {1, 2}
    MaxIn = 3
    MaxOut = 4
SPECIFICATION FairSpec
INVARIANT BridgeTypeOK
PROPERTIES ImplementsStream CallbacksReturn
