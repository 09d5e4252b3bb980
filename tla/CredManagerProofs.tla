-------------------------- MODULE CredManagerProofs --------------------------
(***************************************************************************)
(* Proofs about CredManager for every value of the constants.              *)
(*                                                                         *)
(* The placeholders AnyCall and AnyClosure, the call and closure of an     *)
(* idle goroutine, are only members of Calls and Closures when there is a  *)
(* user: the theorems assume Users # {}.                                   *)
(***************************************************************************)
EXTENDS CredManager, TLAPS

\* The placeholder values are well typed when there is a user.
LEMMA AnyValues ==
  ASSUME Users # {}
  PROVE  AnyKey \in Keys /\ AnyCall \in Calls /\ AnyClosure \in Closures
<1>1. Calls # {} /\ Closures # {}
  <2>1. PICK u \in Users : TRUE
    OBVIOUS
  <2>2. PICK k \in Keys : TRUE
    BY ConstantsAssumption
  <2>3. 1 \in Gens
    BY ConstantsAssumption DEF Gens
  <2>4. [kind |-> "add", user |-> u, key |-> k] \in Calls
    BY DEF Calls
  <2>5. [kind |-> "add", user |-> u, gen |-> 1, old |-> k,
         cfg |-> [user |-> u, key |-> k]] \in Closures
    BY <2>3 DEF Closures, Cfg
  <2>6. QED
    BY <2>4, <2>5
<1>2. QED
  BY <1>1, ConstantsAssumption DEF AnyKey, AnyCall, AnyClosure

\* The cached uPSK of a user is a key or NoKey.
LEMMA CachedKeyType ==
  ASSUME TypeOK, NEW u \in Users
  PROVE  /\ CachedKey(u) \in Keys \cup {NoKey}
         /\ credUc[u] # 0 => CachedKey(u) \in Keys
<1>1. CASE credUc[u] = 0
  BY <1>1 DEF CachedKey
<1>2. CASE credUc[u] # 0
  <2>1. credUc[u] \in Gens /\ ucKey[u] \in [Gens -> Keys]
    BY <1>2 DEF TypeOK, Gens
  <2>2. QED
    BY <1>2, <2>1 DEF CachedKey
<1>3. QED
  BY <1>1, <1>2

\* Installing uPSK k as credential object g of user u changes only u's
\* cached uPSK (AddCredential, UpdateCredential).
LEMMA CachedKeySet ==
  ASSUME TypeOK, NEW u \in Users, NEW g \in Gens, NEW k \in Keys,
         credUc' = [credUc EXCEPT ![u] = g],
         ucKey' = [ucKey EXCEPT ![u][g] = k],
         NEW v \in Users
  PROVE  CachedKey(v)' = IF v = u THEN k ELSE CachedKey(v)
<1>1. g # 0 /\ ucKey[u] \in [Gens -> Keys]
  BY ConstantsAssumption DEF TypeOK, Gens
<1>2. ASSUME v = u PROVE CachedKey(v)' = k
  <2>1. credUc'[u] = g
    BY DEF TypeOK
  <2>2. ucKey'[u][g] = k
    BY <1>1 DEF TypeOK
  <2>3. QED
    BY <1>1, <1>2, <2>1, <2>2 DEF CachedKey
<1>3. ASSUME v # u PROVE CachedKey(v)' = CachedKey(v)
  <2>1. credUc'[v] = credUc[v] /\ ucKey'[v] = ucKey[v]
    BY <1>3 DEF TypeOK
  <2>2. QED
    BY <2>1 DEF CachedKey
<1>4. QED
  BY <1>2, <1>3

\* Dropping user u's credential object changes only u's cached uPSK
\* (DeleteCredential).
LEMMA CachedKeyClear ==
  ASSUME TypeOK, NEW u \in Users,
         credUc' = [credUc EXCEPT ![u] = 0], ucKey' = ucKey,
         NEW v \in Users
  PROVE  CachedKey(v)' = IF v = u THEN NoKey ELSE CachedKey(v)
<1>1. ASSUME v = u PROVE CachedKey(v)' = NoKey
  <2>1. credUc'[u] = 0
    BY DEF TypeOK
  <2>2. QED
    BY <1>1, <2>1 DEF CachedKey
<1>2. ASSUME v # u PROVE CachedKey(v)' = CachedKey(v)
  <2>1. credUc'[v] = credUc[v]
    BY <1>2 DEF TypeOK
  <2>2. QED
    BY <2>1 DEF CachedKey
<1>3. QED
  BY <1>1, <1>2

\* The lookup map built from a file map is a lookup map.
LEMMA LookupOfType ==
  ASSUME NEW f \in FileMaps PROVE LookupOf(f) \in LookupMaps
  BY DEF LookupOf, LookupMaps, FileMaps, Cfg

\* A store patch keeps a store map a lookup map.
LEMMA PatchType ==
  ASSUME TypeOK, NEW m \in LookupMaps, NEW o \in Closures
  PROVE  Patch(m, o) \in LookupMaps
<1>1. ucKey[o.user][o.gen] \in Keys /\ o.old \in Keys /\ o.cfg \in Cfg
  BY DEF TypeOK, Closures
<1>2. QED
  BY <1>1 DEF Patch, LookupMaps, Closures

LEMMA InitTypeOK == Users # {} /\ Init => TypeOK
<1> SUFFICES ASSUME Users # {}, Init PROVE TypeOK
  OBVIOUS
<1>1. AnyKey \in Keys /\ AnyCall \in Calls /\ AnyClosure \in Closures
  BY AnyValues
<1>2. lookup \in LookupMaps
  BY LookupOfType, ConstantsAssumption DEF Init, FileMaps
<1>3. credUc \in [Users -> 0..MaxGen] /\ nextGen \in [Users -> Gens]
  BY ConstantsAssumption DEF Init, Gens
<1>4. ucKey \in [Users -> [Gens -> Keys]]
  BY <1>1, ConstantsAssumption DEF Init
<1>5. prod \in [Stores -> LookupMaps]
  BY <1>2 DEF Init
<1>6. /\ file \in FileMaps \cup {Garbage} /\ content \in FileMaps \cup {Garbage}
      /\ rContent \in FileMaps \cup {Garbage}
  BY ConstantsAssumption DEF Init, FileMaps
<1>7. /\ call \in [Callers -> Calls] /\ closure \in [Callers -> Closures]
      /\ nCalls \in 0..MaxCalls /\ nReloads \in 0..MaxReloads
  BY <1>1, ConstantsAssumption DEF Init
<1>8. /\ muHeld \in BOOLEAN /\ saveQueue \in 0..1 /\ done \in BOOLEAN
      /\ saverPc \in {"wait", "cooldown", "save", "exited"}
      /\ stopPc \in {"idle", "wait", "returned"}
      /\ pc \in [Callers -> {"idle", "lock", "tcp", "udp"}]
      /\ rPc \in {"idle", "lock", "tcp", "udp"}
  <2>1. /\ muHeld = FALSE /\ saveQueue = 0 /\ done = FALSE
        /\ saverPc = "wait" /\ stopPc = "idle" /\ rPc = "idle"
        /\ pc = [p \in Callers |-> "idle"]
    BY DEF Init
  <2>2. muHeld \in BOOLEAN /\ done \in BOOLEAN
    BY <2>1
  <2>3. saveQueue \in 0..1
    BY <2>1
  <2>4. saverPc \in {"wait", "cooldown", "save", "exited"}
    BY <2>1
  <2>5. pc \in [Callers -> {"idle", "lock", "tcp", "udp"}]
    BY <2>1
  <2>6. QED
    BY <2>1, <2>2, <2>3, <2>4, <2>5
<1>9. QED
  BY <1>2, <1>3, <1>4, <1>5, <1>6, <1>7, <1>8 DEF TypeOK


\* Every step keeps the variables typed.
LEMMA NextTypeOK == Users # {} /\ TypeOK /\ [Next]_vars => TypeOK'
<1> SUFFICES ASSUME Users # {}, TypeOK, [Next]_vars PROVE TypeOK'
  OBVIOUS
<1>0. AnyKey \in Keys /\ AnyCall \in Calls /\ AnyClosure \in Closures
  BY AnyValues
<1> USE ConstantsAssumption, <1>0 DEF TypeOK, Gens, Stores
<1>1. ASSUME NEW p \in Callers, CallStart(p) PROVE TypeOK'
  BY <1>1 DEF CallStart, cacheVars, saverVars, reloadVars
(* The critical section: the failure paths and the three changes.          *)
<1>2. ASSUME NEW p \in Callers, CallLocked(p) PROVE TypeOK'
  <2> DEFINE u == call[p].user  k == call[p].key
  <2>1. u \in Users /\ k \in Keys /\ [user |-> u, key |-> k] \in Cfg
    BY DEF Calls, Cfg
  <2>2. UNCHANGED <<prod, muHeld, file, content, saverPc, done, stopPc,
                    rPc, rContent, nReloads>>
    BY <1>2 DEF CallLocked, saverVars, reloadVars
  <2>3. CallFails(p) => TypeOK'
    BY <2>2 DEF CallFails, cacheVars
  <2>4. \A o \in Closures : CallChanged(p, o) =>
          /\ saveQueue' \in 0..1 /\ closure' \in [Callers -> Closures]
          /\ call' \in [Callers -> Calls] /\ nCalls' \in 0..MaxCalls
          /\ pc' \in [Callers -> {"idle", "lock", "tcp", "udp"}]
    BY DEF CallChanged
  <2>5. CASE AddLocked(p)
    <3> DEFINE g == nextGen[u] + 1
    <3>1. CASE credUc[u] # 0 /\ CallFails(p)
      BY <2>3, <3>1
    <3>2. CASE credUc[u] = 0 /\ g \in Gens
               /\ credUc' = [credUc EXCEPT ![u] = g]
               /\ nextGen' = [nextGen EXCEPT ![u] = g]
               /\ ucKey' = [ucKey EXCEPT ![u][g] = k]
               /\ lookup' = [lookup EXCEPT ![k] = [user |-> u, key |-> k]]
               /\ CallChanged(p, [kind |-> "add", user |-> u, gen |-> g,
                                  old |-> AnyKey, cfg |-> [user |-> u, key |-> k]])
      <4>1. [kind |-> "add", user |-> u, gen |-> g, old |-> AnyKey,
             cfg |-> [user |-> u, key |-> k]] \in Closures
        BY <2>1, <3>2 DEF Closures
      <4>2. QED
        BY <2>1, <2>2, <3>2, <4>1, <2>4 DEF LookupMaps
    <3>3. QED
      BY <2>5, <3>1, <3>2 DEF AddLocked
  <2>6. CASE UpdateLocked(p)
    <3> DEFINE g == credUc[u]  old == CachedKey(u)
    <3>1. CASE (g = 0 \/ old = k) /\ CallFails(p)
      BY <2>3, <3>1
    <3>2. CASE g # 0 /\ old # k
               /\ ucKey' = [ucKey EXCEPT ![u][g] = k]
               /\ lookup' = [[lookup EXCEPT ![old] = NoCfg]
                               EXCEPT ![k] = [user |-> u, key |-> k]]
               /\ UNCHANGED <<credUc, nextGen>>
               /\ CallChanged(p, [kind |-> "update", user |-> u, gen |-> g,
                                  old |-> old, cfg |-> [user |-> u, key |-> k]])
      <4>1. old \in Keys /\ g \in Gens
        BY <2>1, <3>2, CachedKeyType
      <4>2. [kind |-> "update", user |-> u, gen |-> g, old |-> old,
             cfg |-> [user |-> u, key |-> k]] \in Closures
        BY <2>1, <4>1 DEF Closures
      <4>3. lookup' \in LookupMaps
        BY <2>1, <3>2, <4>1 DEF LookupMaps
      <4>4. ucKey' \in [Users -> [Gens -> Keys]] /\ credUc' = credUc
            /\ nextGen' = nextGen
        BY <2>1, <3>2, <4>1
      <4>5. QED
        BY <2>2, <3>2, <4>2, <4>3, <4>4, <2>4
    <3>3. QED
      BY <2>6, <3>1, <3>2 DEF UpdateLocked
  <2>7. CASE DeleteLocked(p)
    <3> DEFINE g == credUc[u]
    <3>1. CASE g = 0 /\ CallFails(p)
      BY <2>3, <3>1
    <3>2. CASE g # 0 /\ credUc' = [credUc EXCEPT ![u] = 0]
               /\ lookup' = [lookup EXCEPT ![CachedKey(u)] = NoCfg]
               /\ UNCHANGED <<nextGen, ucKey>>
               /\ CallChanged(p, [kind |-> "delete", user |-> u, gen |-> g,
                                  old |-> AnyKey, cfg |-> AnyClosure.cfg])
      <4>1. CachedKey(u) \in Keys /\ g \in Gens /\ AnyClosure.cfg \in Cfg
        BY <2>1, <3>2, CachedKeyType DEF Closures
      <4>2. [kind |-> "delete", user |-> u, gen |-> g, old |-> AnyKey,
             cfg |-> AnyClosure.cfg] \in Closures
        BY <2>1, <4>1 DEF Closures
      <4>3. lookup' \in LookupMaps
        BY <3>2, <4>1 DEF LookupMaps
      <4>4. credUc' \in [Users -> 0..MaxGen] /\ nextGen' = nextGen
            /\ ucKey' = ucKey
        BY <2>1, <3>2
      <4>5. QED
        BY <2>2, <3>2, <4>2, <4>3, <4>4, <2>4
    <3>3. QED
      BY <2>7, <3>1, <3>2 DEF DeleteLocked
  <2>8. QED
    BY <1>2, <2>5, <2>6, <2>7 DEF CallLocked
<1>3. ASSUME NEW p \in Callers, CallPatchTCP(p) PROVE TypeOK'
  <2>1. Patch(prod["tcp"], closure[p]) \in LookupMaps
    BY PatchType
  <2>2. QED
    BY <1>3, <2>1 DEF CallPatchTCP, cacheVars, saverVars, reloadVars
<1>4. ASSUME NEW p \in Callers, CallPatchUDP(p) PROVE TypeOK'
  <2>1. Patch(prod["udp"], closure[p]) \in LookupMaps
    BY PatchType
  <2>2. QED
    BY <1>4, <2>1 DEF CallPatchUDP, cacheVars, saverVars, reloadVars
<1>5. CASE ReloadRead
  BY <1>5 DEF ReloadRead, cacheVars, saverVars, callVars
(* A reload that accepts the file creates a new uc object per user in it. *)
<1>6. CASE ReloadLocked
  <2>1. UNCHANGED <<prod, saveQueue, file, saverPc, done, stopPc, pc, call,
                    closure, nCalls, nReloads>> /\ rContent' = Garbage
    BY <1>6 DEF ReloadLocked, saverVars, callVars
  <2>2. CASE rContent # content /\ Valid(rContent)
             /\ (\A v \in Users : rContent[v] # NoKey => nextGen[v] + 1 \in Gens)
             /\ credUc' = [u \in Users |-> IF rContent[u] = NoKey THEN 0
                                          ELSE nextGen[u] + 1]
             /\ nextGen' = [u \in Users |-> IF rContent[u] = NoKey THEN nextGen[u]
                                           ELSE nextGen[u] + 1]
             /\ ucKey' = [u \in Users |-> IF rContent[u] = NoKey THEN ucKey[u]
                           ELSE [ucKey[u] EXCEPT ![nextGen[u] + 1] = rContent[u]]]
             /\ lookup' = LookupOf(rContent)
             /\ content' = rContent /\ rPc' = "tcp" /\ UNCHANGED muHeld
    <3>1. rContent \in FileMaps
      BY <2>2 DEF Valid
    <3>2. lookup' \in LookupMaps
      BY <2>2, <3>1, LookupOfType
    <3>3. credUc' \in [Users -> 0..MaxGen] /\ nextGen' \in [Users -> Gens]
      BY <2>2
    <3>4. ucKey' \in [Users -> [Gens -> Keys]]
      BY <2>2, <3>1 DEF FileMaps
    <3>5. QED
      BY <2>1, <2>2, <3>1, <3>2, <3>3, <3>4
  <2>3. CASE ~(rContent # content /\ Valid(rContent))
    BY <1>6, <2>1, <2>3 DEF ReloadLocked, cacheVars
  <2>4. QED
    BY <2>2, <2>3, <1>6 DEF ReloadLocked
<1>7. CASE ReloadReplaceTCP \/ ReloadReplaceUDP
  BY <1>7 DEF ReloadReplaceTCP, ReloadReplaceUDP, cacheVars, saverVars,
     callVars
<1>8. CASE EditFile
  BY <1>8 DEF EditFile, cacheVars, saverVars, callVars, reloadVars, FileMaps
<1>9. CASE SaverSave
  <2>1. Snapshot \in FileMaps
    BY CachedKeyType DEF Snapshot, FileMaps
  <2>2. QED
    BY <1>9, <2>1 DEF SaverSave, cacheVars, callVars, reloadVars
<1>10. CASE SaverDequeue
  BY <1>10 DEF SaverDequeue, cacheVars, callVars, reloadVars
<1>13. CASE SaverCooldown
  BY <1>13 DEF SaverCooldown, cacheVars, callVars, reloadVars
<1>14. CASE StopClose \/ StopWait
  BY <1>14 DEF StopClose, StopWait, cacheVars, callVars, reloadVars
<1>11. CASE UNCHANGED vars
  BY <1>11 DEF vars
<1>12. QED
  BY <1>1, <1>2, <1>3, <1>4, <1>5, <1>6, <1>7, <1>8, <1>9, <1>10, <1>11,
     <1>13, <1>14
  DEF Next

(* The cache, the stores, the save queue (never more than one token), the  *)
(* goroutines' calls and closures keep their types whatever calls,         *)
(* reloads, saves and file edits interleave.                               *)
THEOREM CredTypeCorrect == ASSUME Users # {} PROVE Spec => []TypeOK
<1>1. Init => TypeOK
  BY InitTypeOK
<1>2. TypeOK /\ [Next]_vars => TypeOK'
  BY NextTypeOK
<1>3. QED
  BY <1>1, <1>2, PTL DEF Spec


-----------------------------------------------------------------------------
(* CachedLookupSound is inductive together with TypeOK.  Only the critical *)
(* sections of the calls and of the reload change the cache.  Each leaves  *)
(* CachedKey as it was for every user but the one it touches, and the      *)
(* entries naming that user are exactly the ones it rewrites: the old uPSK *)
(* entry of an updated or deleted user is the only entry naming it.        *)

LEMMA InitSound == Init => CachedLookupSound
<1> SUFFICES ASSUME Init, NEW k \in Keys, lookup[k] # NoCfg
             PROVE  lookup[k].key = k /\ CachedKey(lookup[k].user) = k
  BY DEF CachedLookupSound
<1>1. \E u \in Users : file[u] = k
  BY DEF Init, LookupOf
<1>2. lookup[k] = [user |-> CHOOSE u \in Users : file[u] = k, key |-> k]
  BY <1>1 DEF Init, LookupOf
<1>3. file[lookup[k].user] = k /\ lookup[k].user \in Users
  BY <1>1, <1>2
<1> DEFINE v == lookup[k].user
<1>4. file[v] # NoKey /\ 1 \in Gens
  BY <1>3, ConstantsAssumption DEF Gens
<1>5. credUc[v] = 1 /\ ucKey[v][1] = file[v]
  BY <1>3, <1>4 DEF Init
<1>6. QED
  BY <1>2, <1>3, <1>5 DEF CachedKey

\* An entry that names user u is the entry of u's cached uPSK.
LEMMA EntryOfUser ==
  ASSUME TypeOK, CachedLookupSound, NEW u \in Users, NEW k \in Keys,
         lookup[k] # NoCfg, lookup[k].user = u
  PROVE  k = CachedKey(u) /\ credUc[u] # 0
<1>1. k = CachedKey(u)
  BY DEF CachedLookupSound
<1>2. QED
  BY <1>1, ConstantsAssumption DEF CachedKey

LEMMA NextSound ==
  Users # {} /\ TypeOK /\ CachedLookupSound /\ [Next]_vars => CachedLookupSound'
<1> SUFFICES ASSUME Users # {}, TypeOK, CachedLookupSound, [Next]_vars
             PROVE  CachedLookupSound'
  OBVIOUS
<1> USE ConstantsAssumption
<1>1. ASSUME UNCHANGED <<credUc, ucKey, lookup>> PROVE CachedLookupSound'
  BY <1>1 DEF CachedLookupSound, CachedKey
<1>2. ASSUME NEW p \in Callers, CallLocked(p) PROVE CachedLookupSound'
  <2> DEFINE u == call[p].user  k == call[p].key  c == [user |-> u, key |-> k]
  <2>1. u \in Users /\ k \in Keys
    BY DEF TypeOK, Calls
  <2>2. CallFails(p) => UNCHANGED <<credUc, ucKey, lookup>>
    BY DEF CallFails, cacheVars
  <2>3. CASE AddLocked(p)
    <3> DEFINE g == nextGen[u] + 1
    <3>1. CASE credUc[u] = 0 /\ g \in Gens
               /\ credUc' = [credUc EXCEPT ![u] = g]
               /\ ucKey' = [ucKey EXCEPT ![u][g] = k]
               /\ lookup' = [lookup EXCEPT ![k] = c]
      <4>1. \A v \in Users : CachedKey(v)' = IF v = u THEN k ELSE CachedKey(v)
        BY <2>1, <3>1, CachedKeySet
      <4>2. \A j \in Keys : lookup[j] # NoCfg => lookup[j].user # u
        BY <2>1, <3>1, EntryOfUser DEF TypeOK
      <4>3. QED
        BY <2>1, <3>1, <4>1, <4>2 DEF CachedLookupSound, TypeOK, LookupMaps, Cfg
    <3>2. QED
      BY <1>1, <2>2, <2>3, <3>1 DEF AddLocked
  <2>4. CASE UpdateLocked(p)
    <3> DEFINE g == credUc[u]  old == CachedKey(u)
    <3>1. CASE g # 0 /\ old # k
               /\ ucKey' = [ucKey EXCEPT ![u][g] = k]
               /\ lookup' = [[lookup EXCEPT ![old] = NoCfg] EXCEPT ![k] = c]
               /\ UNCHANGED credUc
      <4>1. old \in Keys /\ g \in Gens
        BY <2>1, <3>1, CachedKeyType DEF TypeOK, Gens
      <4>2. \A v \in Users : CachedKey(v)' = IF v = u THEN k ELSE CachedKey(v)
        <5>1. credUc' = [credUc EXCEPT ![u] = g]
          BY <2>1, <3>1 DEF TypeOK
        <5>2. QED
          BY <2>1, <3>1, <4>1, <5>1, CachedKeySet
      <4>3. \A j \in Keys : lookup[j] # NoCfg /\ lookup[j].user = u => j = old
        BY <2>1, EntryOfUser
      <4>4. QED
        BY <2>1, <3>1, <4>1, <4>2, <4>3 DEF CachedLookupSound, TypeOK,
           LookupMaps, Cfg
    <3>2. QED
      BY <1>1, <2>2, <2>4, <3>1 DEF UpdateLocked
  <2>5. CASE DeleteLocked(p)
    <3> DEFINE g == credUc[u]  old == CachedKey(u)
    <3>1. CASE g # 0 /\ credUc' = [credUc EXCEPT ![u] = 0]
               /\ lookup' = [lookup EXCEPT ![old] = NoCfg]
               /\ UNCHANGED ucKey
      <4>1. old \in Keys
        BY <2>1, <3>1, CachedKeyType
      <4>2. \A v \in Users : CachedKey(v)' = IF v = u THEN NoKey ELSE CachedKey(v)
        BY <2>1, <3>1, CachedKeyClear
      <4>3. \A j \in Keys : lookup[j] # NoCfg /\ lookup[j].user = u => j = old
        BY <2>1, EntryOfUser
      <4>4. QED
        BY <2>1, <3>1, <4>1, <4>2, <4>3 DEF CachedLookupSound, TypeOK,
           LookupMaps, Cfg
    <3>2. QED
      BY <1>1, <2>2, <2>5, <3>1 DEF DeleteLocked
  <2>6. QED
    BY <1>2, <2>3, <2>4, <2>5 DEF CallLocked
(* An accepted reload rebuilds both the cache and the lookup map from the  *)
(* same file map.                                                          *)
<1>3. CASE ReloadLocked
  <2> DEFINE f == rContent
  <2>1. CASE f # content /\ Valid(f)
             /\ (\A v \in Users : f[v] # NoKey => nextGen[v] + 1 \in Gens)
             /\ credUc' = [v \in Users |-> IF f[v] = NoKey THEN 0
                                          ELSE nextGen[v] + 1]
             /\ ucKey' = [v \in Users |-> IF f[v] = NoKey THEN ucKey[v]
                           ELSE [ucKey[v] EXCEPT ![nextGen[v] + 1] = f[v]]]
             /\ lookup' = LookupOf(f)
    <3>1. f \in FileMaps
      BY <2>1 DEF Valid
    <3>2. \A v \in Users : CachedKey(v)' = f[v]
      BY <2>1, <3>1 DEF CachedKey, TypeOK, Gens, FileMaps
    <3>3. ASSUME NEW j \in Keys, LookupOf(f)[j] # NoCfg
          PROVE  LookupOf(f)[j].key = j /\ f[LookupOf(f)[j].user] = j
                 /\ LookupOf(f)[j].user \in Users
      <4>1. \E v \in Users : f[v] = j
        BY <3>3 DEF LookupOf
      <4>2. QED
        BY <4>1 DEF LookupOf
    <3>4. QED
      BY <2>1, <3>2, <3>3 DEF CachedLookupSound
  <2>2. QED
    BY <1>1, <1>3, <2>1 DEF ReloadLocked, cacheVars
<1>4. QED
  BY <1>1, <1>2, <1>3
  DEF Next, vars, CallStart, CallPatchTCP, CallPatchUDP, ReloadRead,
      ReloadReplaceTCP, ReloadReplaceUDP, EditFile, SaverDequeue,
      SaverCooldown, SaverSave, StopClose, StopWait, cacheVars

(* Every entry of the cached lookup map is the config of the user whose    *)
(* cached uPSK it is, whatever Add, Update, Delete and reloads interleave: *)
(* an updated or deleted user's old uPSK never stays in the map.           *)
THEOREM LookupSound == ASSUME Users # {} PROVE Spec => []CachedLookupSound
<1>1. Init => TypeOK /\ CachedLookupSound
  BY InitTypeOK, InitSound
<1>2. TypeOK /\ CachedLookupSound /\ [Next]_vars
        => (TypeOK /\ CachedLookupSound)'
  BY NextTypeOK, NextSound
<1>3. QED
  BY <1>1, <1>2, PTL DEF Spec


-----------------------------------------------------------------------------
(* The refinement of CredentialMap.  Every step that leaves the cached      *)
(* objects (credUc, ucKey) alone is a Rewrite of the abstract file, or a   *)
(* stutter: Disk is always some file content, by TypeOK.  The critical     *)
(* section of a successful call changes the snapshot at its user only, and *)
(* an accepted reload makes the snapshot the file map it read, which is    *)
(* Disk while the reload waits for s.mu.                                   *)

LEMMA InitMap == Init => Abstract!Init
<1> SUFFICES ASSUME Init PROVE Abstract!Init
  OBVIOUS
<1>1. 1 \in Gens
  BY ConstantsAssumption DEF Gens
<1>2. \A u \in Users : CachedKey(u) = file[u]
  BY <1>1 DEF Init, CachedKey
<1>3. Snapshot = file /\ Disk = file
  BY <1>2, ConstantsAssumption DEF Init, Snapshot, Disk
<1>4. QED
  BY <1>3, ConstantsAssumption
  DEF Init, Abstract!Init, Abstract!Maps, Abstract!Unique

\* The snapshot of a map whose uPSK changed at user u only.
LEMMA SnapshotAt ==
  ASSUME NEW u \in Users, NEW k,
         \A v \in Users : CachedKey(v)' = IF v = u THEN k ELSE CachedKey(v)
  PROVE  Snapshot' = [Snapshot EXCEPT ![u] = k]
  BY DEF Snapshot

LEMMA MapStep ==
  Users # {} /\ TypeOK /\ TypeOK' /\ [Next]_vars
    => [Abstract!Next]_Abstract!vars
<1> SUFFICES ASSUME Users # {}, TypeOK, TypeOK', [Next]_vars
             PROVE  [Abstract!Next]_Abstract!vars
  OBVIOUS
<1> USE ConstantsAssumption
<1>0. Disk' \in Abstract!Contents
  BY DEF TypeOK, Disk, Abstract!Contents, Abstract!Maps, FileMaps
<1>1. ASSUME UNCHANGED <<credUc, ucKey>> PROVE [Abstract!Next]_Abstract!vars
  <2>1. Snapshot' = Snapshot
    BY <1>1 DEF Snapshot, CachedKey
  <2>2. Abstract!Rewrite
    BY <1>0, <2>1 DEF Abstract!Rewrite
  <2>3. QED
    BY <2>2 DEF Abstract!Next
<1>2. ASSUME NEW p \in Callers, CallLocked(p) PROVE [Abstract!Next]_Abstract!vars
  <2> DEFINE u == call[p].user  k == call[p].key
  <2>1. u \in Users /\ k \in Keys
    BY DEF TypeOK, Calls
  <2>2. Disk' = Disk
    BY <1>2 DEF CallLocked, reloadVars, Disk
  <2>3. CallFails(p) => UNCHANGED <<credUc, ucKey>>
    BY DEF CallFails, cacheVars
  <2>4. CASE AddLocked(p)
    <3> DEFINE g == nextGen[u] + 1
    <3>1. CASE credUc[u] = 0 /\ g \in Gens
               /\ credUc' = [credUc EXCEPT ![u] = g]
               /\ ucKey' = [ucKey EXCEPT ![u][g] = k]
      <4>1. \A v \in Users : CachedKey(v)' = IF v = u THEN k ELSE CachedKey(v)
        BY <2>1, <3>1, CachedKeySet
      <4>2. Snapshot' = [Snapshot EXCEPT ![u] = k] /\ Snapshot[u] = NoKey
        BY <2>1, <3>1, <4>1, SnapshotAt DEF Snapshot, CachedKey
      <4>3. Abstract!Add(u, k)
        BY <2>2, <4>2 DEF Abstract!Add
      <4>4. QED
        BY <2>1, <4>3 DEF Abstract!Next
    <3>2. QED
      BY <1>1, <2>3, <2>4, <3>1 DEF AddLocked
  <2>5. CASE UpdateLocked(p)
    <3> DEFINE g == credUc[u]
    <3>1. CASE g # 0 /\ ucKey' = [ucKey EXCEPT ![u][g] = k] /\ UNCHANGED credUc
      <4>1. g \in Gens /\ CachedKey(u) \in Keys
        BY <2>1, <3>1, CachedKeyType DEF TypeOK, Gens
      <4>2. \A v \in Users : CachedKey(v)' = IF v = u THEN k ELSE CachedKey(v)
        <5>1. credUc' = [credUc EXCEPT ![u] = g]
          BY <2>1, <3>1 DEF TypeOK
        <5>2. QED
          BY <2>1, <3>1, <4>1, <5>1, CachedKeySet
      <4>3. Snapshot' = [Snapshot EXCEPT ![u] = k] /\ Snapshot[u] # NoKey
        BY <2>1, <4>1, <4>2, SnapshotAt DEF Snapshot
      <4>4. Abstract!Update(u, k)
        BY <2>2, <4>3 DEF Abstract!Update
      <4>5. QED
        BY <2>1, <4>4 DEF Abstract!Next
    <3>2. QED
      BY <1>1, <2>3, <2>5, <3>1 DEF UpdateLocked
  <2>6. CASE DeleteLocked(p)
    <3> DEFINE g == credUc[u]
    <3>1. CASE g # 0 /\ credUc' = [credUc EXCEPT ![u] = 0] /\ UNCHANGED ucKey
      <4>1. CachedKey(u) \in Keys
        BY <2>1, <3>1, CachedKeyType
      <4>2. \A v \in Users : CachedKey(v)' = IF v = u THEN NoKey ELSE CachedKey(v)
        BY <2>1, <3>1, CachedKeyClear
      <4>3. Snapshot' = [Snapshot EXCEPT ![u] = NoKey] /\ Snapshot[u] # NoKey
        BY <2>1, <4>1, <4>2, SnapshotAt DEF Snapshot
      <4>4. Abstract!Delete(u)
        BY <2>2, <4>3 DEF Abstract!Delete
      <4>5. QED
        BY <2>1, <4>4 DEF Abstract!Next
    <3>2. QED
      BY <1>1, <2>3, <2>6, <3>1 DEF DeleteLocked
  <2>7. QED
    BY <1>2, <2>4, <2>5, <2>6 DEF CallLocked
<1>3. CASE ReloadLocked
  <2> DEFINE f == rContent
  <2>1. CASE f # content /\ Valid(f)
             /\ (\A v \in Users : f[v] # NoKey => nextGen[v] + 1 \in Gens)
             /\ credUc' = [v \in Users |-> IF f[v] = NoKey THEN 0
                                          ELSE nextGen[v] + 1]
             /\ ucKey' = [v \in Users |-> IF f[v] = NoKey THEN ucKey[v]
                           ELSE [ucKey[v] EXCEPT ![nextGen[v] + 1] = f[v]]]
    <3>1. f \in FileMaps
      BY <2>1 DEF Valid
    <3>2. \A v \in Users : CachedKey(v)' = f[v]
      BY <2>1, <3>1 DEF CachedKey, TypeOK, Gens, FileMaps
    <3>3. Snapshot' = Disk
      BY <1>3, <3>1, <3>2 DEF Snapshot, ReloadLocked, Disk, FileMaps
    <3>4. Disk \in Abstract!Maps /\ Abstract!Unique(Disk)
      BY <1>3, <2>1 DEF ReloadLocked, Disk, Valid, FileMaps, Abstract!Maps,
                        Abstract!Unique
    <3>5. Abstract!Reload
      BY <1>0, <3>3, <3>4 DEF Abstract!Reload
    <3>6. QED
      BY <3>5 DEF Abstract!Next
  <2>2. QED
    BY <1>1, <1>3, <2>1 DEF ReloadLocked, cacheVars
<1>4. QED
  BY <1>1, <1>2, <1>3
  DEF Next, vars, CallStart, CallPatchTCP, CallPatchUDP, ReloadRead,
      ReloadReplaceTCP, ReloadReplaceUDP, EditFile, SaverDequeue,
      SaverCooldown, SaverSave, StopClose, StopWait, cacheVars

(* The credential manager implements the abstract credential map: however  *)
(* API calls, reloads, file edits and saves interleave, the cached         *)
(* credentials change only by an Add of an absent user, an Update or a     *)
(* Delete of a present one, each touching that user alone, or by a reload  *)
(* installing exactly the valid file content it read.                      *)
THEOREM CredRefinement == ASSUME Users # {} PROVE Spec => ImplementsCredentialMap
<1>1. Spec => []TypeOK
  BY CredTypeCorrect
<1>2. QED
  BY <1>1, InitMap, MapStep, PTL
  DEF Spec, ImplementsCredentialMap, Abstract!Spec

=============================================================================
