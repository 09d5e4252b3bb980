--------------------------- MODULE MC_CredManager ---------------------------
(* Small instance of CredManager for TLC: two users, two uPSKs (so that    *)
(* two users can be given the same one), two concurrent API goroutines and *)
(* MaxGen credential objects per user, set to 2 in the cfgs (an Add or a   *)
(* reload after a Delete or a reload).                                     *)
EXTENDS CredManager, TLC

CONSTANTS u1, u2, k1, k2, p1, p2

MCUsers == {u1, u2}
MCKeys == {k1, k2}
MCCallers == {p1, p2}

\* One API goroutine beside the reload and the save goroutine.
MCOneCaller == {p1}

\* An operator rewrites the file with a valid map, with a map giving both
\* users the same uPSK, or with content that does not decode.
MCInitialFile == u1 :> k1 @@ u2 :> NoKey

\* Callers are interchangeable.
MCSymmetry == Permutations(MCCallers)

MCEdits == {u1 :> k2 @@ u2 :> NoKey, u1 :> k1 @@ u2 :> k1, Garbage}

=============================================================================
