------------------------- MODULE MC_UDPSessionRelay -------------------------
(* Small instance of UDPSessionRelay for TLC: two client session IDs,      *)
(* three buffers, a send channel of capacity 2 (so that a full channel and *)
(* a drop happen) and three sessions (so that a csid gets a second session *)
(* after its first one was evicted).                                       *)
EXTENDS UDPSessionRelay, TLC

CONSTANTS c1, c2, b1, b2, b3

MCCsid == {c1, c2}
MCBuffers == {b1, b2, b3}

\* Two buffers and a channel of capacity 1 still fill a channel; used by
\* the liveness run, whose graph search is costlier.
MCBuffersSmall == {b1, b2}

\* Buffers and session IDs are interchangeable; used only by safety runs.
MCSymmetry == Permutations(MCCsid) \cup Permutations(MCBuffers)

=============================================================================
