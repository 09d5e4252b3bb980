CONSTANTS
    c1 = c1
    c2 = c2
    b1 = b1
    b2 = b2
    b3 = b3
    Csid <- MCCsid
    Buffers <- MCBuffers
    NoBuffer = NoBuffer
    SendChannelCapacity = 2
    MaxSessions = 3

SYMMETRY MCSymmetry

SPECIFICATION Spec

INVARIANT TypeOK
INVARIANT BufferOwnedOnce
INVARIANT TableConsistent
INVARIANT TeardownOrder
CHECK_DEADLOCK FALSE
PROPERTY ImplementsSessionTable
