----------------------------- MODULE CredManager -----------------------------
(***************************************************************************)
(* One ManagedServer of src/cred/manager.go with its TCP and UDP           *)
(* credential stores.                                                      *)
(*                                                                         *)
(* API goroutines call AddCredential, UpdateCredential and                 *)
(* DeleteCredential.  Each changes the cached maps under s.mu, enqueues a  *)
(* save, unlocks, then patches the TCP store and the UDP store with a      *)
(* closure, one store at a time.  The closure reads uc.uPSKHash when it    *)
(* runs, not when it was made.  A reload (LoadFromFile, on SIGUSR1) reads  *)
(* the file, replaces the cached maps under s.mu and then replaces both    *)
(* store maps with clones of the cached lookup map.  The save goroutine    *)
(* (dequeueSave) waits for a token, a cooldown, drains the queue and       *)
(* writes the cached credentials to the file under the read lock.          *)
(*                                                                         *)
(* A uPSK is a member of Keys, its identity hash is the key itself (the    *)
(* hash is taken to be collision free), and a user cipher config is the    *)
(* record of the username and uPSK it was derived from.  The file holds a  *)
(* username -> uPSK map or Garbage (undecodable, or a uPSK of the wrong    *)
(* length).  A cachedUserCredential object is named by its user and a      *)
(* generation number.                                                      *)
(***************************************************************************)
EXTENDS Naturals, FiniteSets

CONSTANTS
    Users,      \* usernames
    Keys,       \* uPSKs of the right length
    Callers,    \* concurrent credential API goroutines
    NoKey,      \* a user absent from a file map
    NoCfg,      \* a hash absent from a lookup map
    Garbage,    \* file content the decoder or the validation rejects
    MaxGen,     \* bound: cachedUserCredential objects created per user
    Edits,      \* bound: the contents an operator may write to the file
    MaxCalls,   \* bound: credential API calls made
    MaxReloads, \* bound: reload signals received
    InitialFile \* the file RegisterServer loads

ASSUME ConstantsAssumption ==
    /\ Keys # {}
    /\ NoKey \notin Keys
    /\ MaxGen \in Nat \ {0}
    /\ MaxCalls \in Nat
    /\ MaxReloads \in Nat
    /\ Edits \subseteq [Users -> Keys \cup {NoKey}] \cup {Garbage}
    /\ InitialFile \in [Users -> Keys \cup {NoKey}]
    /\ \A u, v \in Users :
           u # v /\ InitialFile[u] # NoKey => InitialFile[u] # InitialFile[v]

Cfg == [user : Users, key : Keys]
Stores == {"tcp", "udp"}
Gens == 1..MaxGen
FileMaps == [Users -> Keys \cup {NoKey}]
LookupMaps == [Keys -> Cfg \cup {NoCfg}]

VARIABLES
    credUc,     \* cachedCredMap: user -> generation of its uc, 0 if absent
    nextGen,    \* last generation created per user
    ucKey,      \* uc.uPSK (and so uc.uPSKHash) of every uc object
    lookup,     \* cachedUserLookupMap
    prod,       \* the UserLookupMap of the TCP and the UDP CredStore
    muHeld,     \* s.mu write-locked by a goroutine that has returned
    saveQueue,  \* tokens in saveQueue (capacity 1)
    file,       \* content of the credential file
    content,    \* cachedContent
    saverPc,    \* dequeueSave: "wait", "cooldown", "save", "exited"
    done,       \* s.done closed
    stopPc,     \* Stop: "idle", "wait", "returned"
    pc,         \* API goroutine: "idle", "lock", "tcp", "udp"
    call,       \* the call an API goroutine makes
    closure,    \* the store patch it will apply
    rPc,        \* reload: "idle", "lock", "tcp", "udp"
    rContent,   \* the file content the reload read
    nCalls,     \* API calls started so far
    nReloads    \* reloads started so far

vars == <<credUc, nextGen, ucKey, lookup, prod, muHeld, saveQueue, file,
          content, saverPc, done, stopPc, pc, call, closure, rPc, rContent,
          nCalls, nReloads>>

cacheVars == <<credUc, nextGen, ucKey, lookup>>
saverVars == <<saverPc, done, stopPc>>
callVars == <<pc, call, closure, nCalls>>
reloadVars == <<rPc, rContent, nReloads>>

Calls == [kind : {"add", "update", "delete"}, user : Users, key : Keys]
Closures == [kind : {"add", "update", "delete"}, user : Users, gen : Gens,
             old : Keys, cfg : Cfg]

\* Values of the fields no goroutine has written yet.
AnyKey == CHOOSE k \in Keys : TRUE
AnyCall == CHOOSE c \in Calls : TRUE
AnyClosure == CHOOSE o \in Closures : TRUE

\* The uPSK of user u in the cached credential map, or NoKey.
CachedKey(u) == IF credUc[u] = 0 THEN NoKey ELSE ucKey[u][credUc[u]]

\* The lookup map built from a file map (loadFromFile, lines 278-297).
LookupOf(f) ==
    [k \in Keys |-> IF \E u \in Users : f[u] = k
                    THEN [user |-> CHOOSE u \in Users : f[u] = k, key |-> k]
                    ELSE NoCfg]

\* Content loadFromFile accepts: it decodes and no two users share a uPSK.
Valid(f) ==
    /\ f \in FileMaps
    /\ \A u, v \in Users : u # v /\ f[u] # NoKey => f[u] # f[v]

\* What saveToFile writes: the cached username -> uPSK map (lines 90-106).
Snapshot == [u \in Users |-> CachedKey(u)]

(* The store patch f of updateProdULM applied to map m.  The hash of uc is *)
(* read when the patch runs (lines 200-202, 233-236, 252-254).             *)
Patch(m, o) ==
    LET h == ucKey[o.user][o.gen] IN
    CASE o.kind = "add" -> [m EXCEPT ![h] = o.cfg]
      [] o.kind = "update" -> [[m EXCEPT ![o.old] = NoCfg] EXCEPT ![h] = o.cfg]
      [] o.kind = "delete" -> [m EXCEPT ![h] = NoCfg]

-----------------------------------------------------------------------------
(* After RegisterServer and Start: the file was loaded, cachedContent is   *)
(* its content, and replaceProdULM gave both stores a clone of the lookup *)
(* map.                                                                    *)
Init ==
    /\ file = InitialFile
    /\ credUc = [u \in Users |-> IF file[u] = NoKey THEN 0 ELSE 1]
    /\ nextGen = [u \in Users |-> 1]
    /\ ucKey = [u \in Users |-> [g \in Gens |->
                  IF file[u] # NoKey THEN file[u] ELSE AnyKey]]
    /\ lookup = LookupOf(file)
    /\ prod = [st \in Stores |-> lookup]
    /\ muHeld = FALSE
    /\ saveQueue = 0
    /\ content = file
    /\ saverPc = "wait"
    /\ done = FALSE
    /\ stopPc = "idle"
    /\ pc = [p \in Callers |-> "idle"]
    /\ call = [p \in Callers |-> AnyCall]
    /\ closure = [p \in Callers |-> AnyClosure]
    /\ rPc = "idle"
    /\ rContent = Garbage
    /\ nCalls = 0
    /\ nReloads = 0

\* An API goroutine starts a credential call.
CallStart(p) ==
    /\ pc[p] = "idle"
    /\ nCalls < MaxCalls
    /\ \E c \in Calls : call' = [call EXCEPT ![p] = c]
    /\ pc' = [pc EXCEPT ![p] = "lock"]
    /\ nCalls' = nCalls + 1
    /\ UNCHANGED <<cacheVars, prod, muHeld, saveQueue, file, content,
                   saverVars, closure, reloadVars>>

\* The call returns an error and changes nothing.
CallFails(p) ==
    /\ pc' = [pc EXCEPT ![p] = "idle"]
    /\ call' = [call EXCEPT ![p] = AnyCall]
    /\ UNCHANGED <<cacheVars, saveQueue, closure, nCalls>>

\* Mutant: enqueueSave counts requests instead of a capacity-1 channel.
CallChangedQueueGrows(p, o) ==
    /\ saveQueue' = saveQueue + 1
    /\ closure' = [closure EXCEPT ![p] = o]
    /\ call' = [call EXCEPT ![p] = AnyCall]
    /\ pc' = [pc EXCEPT ![p] = "tcp"]
    /\ UNCHANGED nCalls

\* The cache was changed: unlock, enqueueSave (lines 158-163) and go on to
\* patch the stores with closure o.
CallChanged(p, o) ==
    /\ saveQueue' = 1
    /\ closure' = [closure EXCEPT ![p] = o]
    /\ call' = [call EXCEPT ![p] = AnyCall]
    /\ pc' = [pc EXCEPT ![p] = "tcp"]
    /\ UNCHANGED nCalls

\* AddCredential, lines 175-199.
AddLocked(p) ==
    LET u == call[p].user
        k == call[p].key
        g == nextGen[u] + 1
        c == [user |-> u, key |-> k]
    IN
    /\ call[p].kind = "add"
    /\ \/ /\ credUc[u] # 0
          /\ CallFails(p)
       \/ /\ credUc[u] = 0
          /\ g \in Gens
          /\ credUc' = [credUc EXCEPT ![u] = g]
          /\ nextGen' = [nextGen EXCEPT ![u] = g]
          /\ ucKey' = [ucKey EXCEPT ![u][g] = k]
          /\ lookup' = [lookup EXCEPT ![k] = c]
          /\ CallChanged(p, [kind |-> "add", user |-> u, gen |-> g,
                             old |-> AnyKey, cfg |-> c])

\* Mutant: the update forgets to remove the old uPSK from the lookup map.
UpdateLockedKeepsOld(p) ==
    LET u == call[p].user
        k == call[p].key
        g == credUc[u]
        c == [user |-> u, key |-> k]
    IN
    /\ call[p].kind = "update"
    /\ \/ /\ g = 0 \/ CachedKey(u) = k
          /\ CallFails(p)
       \/ /\ g # 0
          /\ CachedKey(u) # k
          /\ ucKey' = [ucKey EXCEPT ![u][g] = k]
          /\ lookup' = [lookup EXCEPT ![k] = c]
          /\ UNCHANGED <<credUc, nextGen>>
          /\ CallChanged(p, [kind |-> "update", user |-> u, gen |-> g,
                             old |-> CachedKey(u), cfg |-> c])

\* UpdateCredential, lines 207-232: uc is changed in place.
UpdateLocked(p) ==
    LET u == call[p].user
        k == call[p].key
        g == credUc[u]
        c == [user |-> u, key |-> k]
    IN
    /\ call[p].kind = "update"
    /\ \/ /\ g = 0 \/ CachedKey(u) = k
          /\ CallFails(p)
       \/ /\ g # 0
          /\ CachedKey(u) # k
          /\ ucKey' = [ucKey EXCEPT ![u][g] = k]
          /\ lookup' = [[lookup EXCEPT ![CachedKey(u)] = NoCfg] EXCEPT ![k] = c]
          /\ UNCHANGED <<credUc, nextGen>>
          /\ CallChanged(p, [kind |-> "update", user |-> u, gen |-> g,
                             old |-> CachedKey(u), cfg |-> c])

\* DeleteCredential, lines 241-251.
DeleteLocked(p) ==
    LET u == call[p].user
        g == credUc[u]
    IN
    /\ call[p].kind = "delete"
    /\ \/ /\ g = 0
          /\ CallFails(p)
       \/ /\ g # 0
          /\ credUc' = [credUc EXCEPT ![u] = 0]
          /\ lookup' = [lookup EXCEPT ![CachedKey(u)] = NoCfg]
          /\ UNCHANGED <<nextGen, ucKey>>
          /\ CallChanged(p, [kind |-> "delete", user |-> u, gen |-> g,
                             old |-> AnyKey, cfg |-> AnyClosure.cfg])

(* The critical section of a credential call under s.mu.  It blocks while *)
(* s.mu is held.                                                           *)
CallLocked(p) ==
    /\ pc[p] = "lock"
    /\ ~muHeld
    /\ AddLocked(p) \/ UpdateLocked(p) \/ DeleteLocked(p)
    /\ UNCHANGED <<prod, muHeld, file, content, saverVars, reloadVars>>

(* updateProdULM, lines 165-172: the closure is applied to the TCP store   *)
(* under its lock, then to the UDP store under its lock.                   *)
CallPatchTCP(p) ==
    /\ pc[p] = "tcp"
    /\ prod' = [prod EXCEPT !["tcp"] = Patch(@, closure[p])]
    /\ pc' = [pc EXCEPT ![p] = "udp"]
    /\ UNCHANGED <<cacheVars, muHeld, saveQueue, file, content, saverVars,
                   call, closure, nCalls, reloadVars>>

CallPatchUDP(p) ==
    /\ pc[p] = "udp"
    /\ prod' = [prod EXCEPT !["udp"] = Patch(@, closure[p])]
    /\ pc' = [pc EXCEPT ![p] = "idle"]
    /\ closure' = [closure EXCEPT ![p] = AnyClosure]
    /\ UNCHANGED <<cacheVars, muHeld, saveQueue, file, content, saverVars,
                   call, nCalls, reloadVars>>

-----------------------------------------------------------------------------
\* LoadFromFile, line 258: mmap.ReadFile, outside the lock.
ReloadRead ==
    /\ rPc = "idle"
    /\ nReloads < MaxReloads
    /\ rContent' = file
    /\ rPc' = "lock"
    /\ nReloads' = nReloads + 1
    /\ UNCHANGED <<cacheVars, prod, muHeld, saveQueue, file, content,
                   saverVars, callVars>>

\* Mutant: loadFromFile without the duplicate-uPSK check.
ReloadLockedAcceptsDuplicates ==
    LET f == rContent IN
    /\ rPc = "lock"
    /\ ~muHeld
    /\ \/ /\ f = content
          /\ muHeld' = TRUE
          /\ rPc' = "tcp"
          /\ UNCHANGED <<cacheVars, content>>
       \/ /\ f # content
          /\ f \notin FileMaps
          /\ muHeld' = TRUE
          /\ rPc' = "idle"
          /\ UNCHANGED <<cacheVars, content>>
       \/ /\ f # content
          /\ f \in FileMaps
          /\ \A u \in Users : f[u] # NoKey => nextGen[u] + 1 \in Gens
          /\ credUc' = [u \in Users |-> IF f[u] = NoKey THEN 0
                                       ELSE nextGen[u] + 1]
          /\ nextGen' = [u \in Users |-> IF f[u] = NoKey THEN nextGen[u]
                                        ELSE nextGen[u] + 1]
          /\ ucKey' = [u \in Users |-> IF f[u] = NoKey THEN ucKey[u]
                                      ELSE [ucKey[u] EXCEPT ![nextGen[u] + 1] = f[u]]]
          /\ lookup' = LookupOf(f)
          /\ content' = f
          /\ rPc' = "tcp"
          /\ UNCHANGED muHeld
    /\ rContent' = Garbage
    /\ UNCHANGED <<prod, saveQueue, file, saverVars, callVars, nReloads>>

(* loadFromFile, lines 264-303, after s.mu.Lock().  Unchanged content      *)
(* returns nil, rejected content returns its error; both return without   *)
(* s.mu.Unlock().  Accepted content replaces the cached maps with new uc   *)
(* objects and unlocks.  LoadFromFile then replaces the store maps unless  *)
(* loadFromFile failed (lines 318-321).                                    *)
ReloadLocked ==
    LET f == rContent IN
    /\ rPc = "lock"
    /\ ~muHeld
    /\ \/ /\ f = content
          /\ muHeld' = TRUE
          /\ rPc' = "tcp"
          /\ UNCHANGED <<cacheVars, content>>
       \/ /\ f # content
          /\ ~Valid(f)
          /\ muHeld' = TRUE
          /\ rPc' = "idle"
          /\ UNCHANGED <<cacheVars, content>>
       \/ /\ f # content
          /\ Valid(f)
          /\ \A u \in Users : f[u] # NoKey => nextGen[u] + 1 \in Gens
          /\ credUc' = [u \in Users |-> IF f[u] = NoKey THEN 0
                                       ELSE nextGen[u] + 1]
          /\ nextGen' = [u \in Users |-> IF f[u] = NoKey THEN nextGen[u]
                                        ELSE nextGen[u] + 1]
          /\ ucKey' = [u \in Users |-> IF f[u] = NoKey THEN ucKey[u]
                                      ELSE [ucKey[u] EXCEPT ![nextGen[u] + 1] = f[u]]]
          /\ lookup' = LookupOf(f)
          /\ content' = f
          /\ rPc' = "tcp"
          /\ UNCHANGED muHeld
    /\ rContent' = Garbage
    /\ UNCHANGED <<prod, saveQueue, file, saverVars, callVars, nReloads>>

(* replaceProdULM, lines 306-313: each store gets a clone of               *)
(* cachedUserLookupMap, read without s.mu.                                 *)
ReloadReplaceTCP ==
    /\ rPc = "tcp"
    /\ prod' = [prod EXCEPT !["tcp"] = lookup]
    /\ rPc' = "udp"
    /\ UNCHANGED <<cacheVars, muHeld, saveQueue, file, content, saverVars,
                   callVars, rContent, nReloads>>

ReloadReplaceUDP ==
    /\ rPc = "udp"
    /\ prod' = [prod EXCEPT !["udp"] = lookup]
    /\ rPc' = "idle"
    /\ UNCHANGED <<cacheVars, muHeld, saveQueue, file, content, saverVars,
                   callVars, rContent, nReloads>>

\* Another program or an operator rewrites the credential file.
EditFile ==
    /\ file' \in Edits \ {file}
    /\ UNCHANGED <<cacheVars, prod, muHeld, saveQueue, content, saverVars,
                   callVars, reloadVars>>

-----------------------------------------------------------------------------
\* dequeueSave, lines 112-116: take a save token, or return once done.
SaverDequeue ==
    /\ saverPc = "wait"
    /\ \/ /\ saveQueue = 1
          /\ saveQueue' = 0
          /\ saverPc' = "cooldown"
       \/ /\ done
          /\ saverPc' = "exited"
          /\ UNCHANGED saveQueue
    /\ UNCHANGED <<cacheVars, prod, muHeld, file, content, done, stopPc,
                   callVars, reloadVars>>

\* Lines 119-128: the 5 s cooldown or done, then drain the queue.
SaverCooldown ==
    /\ saverPc = "cooldown"
    /\ saveQueue' = 0
    /\ saverPc' = "save"
    /\ UNCHANGED <<cacheVars, prod, muHeld, file, content, done, stopPc,
                   callVars, reloadVars>>

(* Lines 134-138 and saveToFile: under the read lock, write the cached     *)
(* credentials and record them as cachedContent; a failed write logs and  *)
(* changes nothing.                                                        *)
SaverSave ==
    /\ saverPc = "save"
    /\ ~muHeld
    /\ \/ /\ file' = Snapshot
          /\ content' = Snapshot
       \/ UNCHANGED <<file, content>>
    /\ saverPc' = "wait"
    /\ UNCHANGED <<cacheVars, prod, muHeld, saveQueue, done, stopPc,
                   callVars, reloadVars>>

\* Stop, lines 153-156: close done, then wait for the save goroutine.
StopClose ==
    /\ stopPc = "idle"
    /\ done' = TRUE
    /\ stopPc' = "wait"
    /\ UNCHANGED <<cacheVars, prod, muHeld, saveQueue, file, content,
                   saverPc, callVars, reloadVars>>

StopWait ==
    /\ stopPc = "wait"
    /\ saverPc = "exited"
    /\ stopPc' = "returned"
    /\ UNCHANGED <<cacheVars, prod, muHeld, saveQueue, file, content,
                   saverPc, done, callVars, reloadVars>>

Next ==
    \/ \E p \in Callers :
        CallStart(p) \/ CallLocked(p) \/ CallPatchTCP(p) \/ CallPatchUDP(p)
    \/ ReloadRead \/ ReloadLocked \/ ReloadReplaceTCP \/ ReloadReplaceUDP
    \/ EditFile
    \/ SaverDequeue \/ SaverCooldown \/ SaverSave
    \/ StopClose \/ StopWait

(* Runnable goroutines are scheduled and the cooldown timer fires.  Calls, *)
(* reload signals, file edits and Stop come from outside: no fairness.     *)
Fairness ==
    /\ \A p \in Callers :
        WF_vars(CallLocked(p)) /\ WF_vars(CallPatchTCP(p))
        /\ WF_vars(CallPatchUDP(p))
    /\ WF_vars(ReloadLocked) /\ WF_vars(ReloadReplaceTCP)
    /\ WF_vars(ReloadReplaceUDP)
    /\ WF_vars(SaverDequeue) /\ WF_vars(SaverCooldown) /\ WF_vars(SaverSave)
    /\ WF_vars(StopWait)

Spec == Init /\ [][Next]_vars /\ Fairness

-----------------------------------------------------------------------------
TypeOK ==
    /\ credUc \in [Users -> 0..MaxGen]
    /\ nextGen \in [Users -> Gens]
    /\ ucKey \in [Users -> [Gens -> Keys]]
    /\ lookup \in LookupMaps
    /\ prod \in [Stores -> LookupMaps]
    /\ muHeld \in BOOLEAN
    /\ saveQueue \in 0..1
    /\ file \in FileMaps \cup {Garbage}
    /\ content \in FileMaps \cup {Garbage}
    /\ saverPc \in {"wait", "cooldown", "save", "exited"}
    /\ done \in BOOLEAN
    /\ stopPc \in {"idle", "wait", "returned"}
    /\ pc \in [Callers -> {"idle", "lock", "tcp", "udp"}]
    /\ call \in [Callers -> Calls]
    /\ closure \in [Callers -> Closures]
    /\ rPc \in {"idle", "lock", "tcp", "udp"}
    /\ rContent \in FileMaps \cup {Garbage}
    /\ nCalls \in 0..MaxCalls
    /\ nReloads \in 0..MaxReloads

(* The cached lookup map lets a uPSK in only as the user that has it now   *)
(* (spec 4.2, invariant (i)): every entry is the config of the user whose  *)
(* cached credential is that uPSK, so an updated or deleted user's old     *)
(* uPSK is refused at the next lookup.                                     *)
CachedLookupSound ==
    \A k \in Keys : lookup[k] # NoCfg =>
        /\ lookup[k].key = k
        /\ CachedKey(lookup[k].user) = k

(* Spec section 3: no two users share an identity hash.  loadFromFile      *)
(* rejects such a file (lines 285-289).                                    *)
UniqueUPSK ==
    \A u, v \in Users :
        u # v /\ CachedKey(u) # NoKey => CachedKey(u) # CachedKey(v)

(* Spec 4.2 and 8: a successful Add, Update or Delete is visible to the    *)
(* next lookup, and the stores never hold an association the cache does   *)
(* not: once no call and no reload is patching or replacing the stores,    *)
(* both store maps equal the cached lookup map.                            *)
StoresMatchCacheWhenIdle ==
    (/\ \A p \in Callers : pc[p] \in {"idle", "lock"}
     /\ rPc \in {"idle", "lock"})
    => \A st \in Stores : prod[st] = lookup

(* The credential map a reload would install: what a reload waiting for   *)
(* s.mu has read, otherwise the file.                                       *)
Disk == IF rPc = "lock" THEN rContent ELSE file

Abstract == INSTANCE CredentialMap WITH creds <- Snapshot, disk <- Disk

(* Spec 4.2: the cached credentials change only as the API and reload      *)
(* promise.  A successful Add, Update or Delete changes exactly its user,  *)
(* Add only an absent one; a reload installs exactly the content it read,  *)
(* and only content that decodes with no shared uPSK; failed calls,        *)
(* rejected or unchanged reloads, patches and saves leave the map alone.   *)
ImplementsCredentialMap == Abstract!Spec

(* Every credential call returns: a call waiting for s.mu gets it.         *)
CallsReturn == \A p \in Callers : pc[p] = "lock" ~> pc[p] = "idle"

=============================================================================
