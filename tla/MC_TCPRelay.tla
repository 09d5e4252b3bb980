------------------------------ MODULE MC_TCPRelay ------------------------------
EXTENDS TCPRelay, TLC

CONSTANTS c1, c2, d1, d2

\* Two connections, each client sending two chunks after its handshake.
MCConns == {c1, c2}
MCChunks == {d1, d2}
MCData == <<d1, d2>>
MCClientKinds == {"direct", "direct_notfo", "ssnone", "socks5"}

MCSymmetry == Permutations(MCConns)
=============================================================================
