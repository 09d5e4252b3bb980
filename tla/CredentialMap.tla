---------------------------- MODULE CredentialMap ----------------------------
(***************************************************************************)
(* What a ManagedServer promises about its credentials (spec 4.2 and the   *)
(* credential file format): a username -> uPSK map that changes one user  *)
(* at a time by Add (only an absent user), Update and Delete (only a       *)
(* present user), or is replaced as a whole by a reload, which installs    *)
(* exactly the file content it read and only when that content decodes    *)
(* and gives no two users the same uPSK.  The file itself is rewritten by  *)
(* saves and by other programs; from the map's point of view any content   *)
(* may appear there.                                                       *)
(***************************************************************************)
CONSTANTS Users, Keys, NoKey, Garbage

VARIABLES
    creds,  \* the username -> uPSK map, NoKey for an absent user
    disk    \* the credential file content a reload would install

vars == <<creds, disk>>

Maps == [Users -> Keys \cup {NoKey}]
Contents == Maps \cup {Garbage}

\* No two users share a uPSK (and so an identity hash).
Unique(f) == \A u, v \in Users : u # v /\ f[u] # NoKey => f[u] # f[v]

\* The server was registered with a file it could load.
Init ==
    /\ creds \in Maps
    /\ Unique(creds)
    /\ disk = creds

Add(u, k) ==
    /\ creds[u] = NoKey
    /\ creds' = [creds EXCEPT ![u] = k]
    /\ UNCHANGED disk

Update(u, k) ==
    /\ creds[u] # NoKey
    /\ creds' = [creds EXCEPT ![u] = k]
    /\ UNCHANGED disk

Delete(u) ==
    /\ creds[u] # NoKey
    /\ creds' = [creds EXCEPT ![u] = NoKey]
    /\ UNCHANGED disk

\* A save or another program rewrites the file.
Rewrite ==
    /\ disk' \in Contents
    /\ UNCHANGED creds

(* A reload installs the content it read.  The file may have been          *)
(* rewritten again since, so the step may also show a new disk.            *)
Reload ==
    /\ disk \in Maps
    /\ Unique(disk)
    /\ creds' = disk
    /\ disk' \in Contents

Next ==
    \/ \E u \in Users :
        \/ \E k \in Keys : Add(u, k) \/ Update(u, k)
        \/ Delete(u)
    \/ Rewrite
    \/ Reload

Spec == Init /\ [][Next]_vars
=============================================================================
