CONSTANTS
    c1 = c1
    c2 = c2
    b1 = b1
    b2 = b2
    b3 = b3
    Csid <- MCCsid
    Buffers <- MCBuffersSmall
    NoBuffer = NoBuffer
    SendChannelCapacity = 1
    MaxSessions = 2

SPECIFICATION Spec

PROPERTY SessionTornDown
PROPERTY StopReturns
CHECK_DEADLOCK FALSE
