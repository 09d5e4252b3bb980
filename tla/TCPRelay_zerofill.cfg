CONSTANTS
    c1 = c1
    c2 = c2
    d1 = d1
    d2 = d2
    Zeros = Zeros
    Conns <- MCConns
    Chunks <- MCChunks
    Data <- MCData
    ClientKinds <- MCClientKinds
    Framing = "socks5"
    WaitForInitialPayload = TRUE

SPECIFICATION Spec
CHECK_DEADLOCK FALSE
INVARIANT RemoteSeesClientStream
SYMMETRY MCSymmetry
