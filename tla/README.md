# TLA+ models of the Shadowsocks relay

This directory holds TLA+ models of the concurrent parts of the Go code under
`src/`, the TLC configurations that model-check them, and TLAPS proofs. The
models cover the UDP session relay (with an abstract session table it is
proved to implement), the credential manager (with an abstract credential map
it is proved to implement) and the TCP relay. Each module is
translated from the source. `PROJECT.json` maps every modelled definition to
the lines it translates.

## The system and its parts

| Part | Source | Concurrency | Module |
|---|---|---|---|
| UDP session relay | `src/service/udp_session.go` | receive loop, two workers per session, `Stop`; table lock `s.mu`, wait-group, buffer pool | `UDPSessionRelay` (proofs in `UDPSessionRelayProofs`) |
| Credential manager | `src/cred/manager.go` | API goroutines, SIGUSR1 reload, save goroutine, `Stop`; `s.mu`, the two credential stores | `CredManager`, abstract `CredentialMap` (proofs in `CredManagerProofs`) |
| TCP relay | `src/service/tcp.go` | accept goroutine, one `handleConn` goroutine per connection, `Stop` | `TCPRelay` (proofs in `TCPRelayProofs`) |
| Direct framings | `src/direct/tcp.go` | none (byte-level handshakes) | partly, in `TCPRelay`: Accept results and `NativeInitialPayload` |
| Socket helpers | `src/unnamed/part_001` | none (system-call wrappers) | not modelled |
| Transparent stub | `src/unnamed/part_000` | none | not modelled |

How the parts interact:

- The credential manager patches or replaces the user lookup maps of the TCP
  and UDP credential stores.
- The relays read those maps on every handshake.
- The stores themselves (an RWMutex around a map) are not in `src/`. They
  appear in `CredManager` only as the two maps `prod["tcp"]` and
  `prod["udp"]`, each changed atomically.

## UDPSessionRelay

State (VARIABLES) and the code it stands for:

- `pool`: how many copies of each buffer are free in `packetBufPool`.
- `recvPc`, `recvBuf`, `recvCsid`: the receive loop. It is at its read, at
  dispatch holding a buffer of some client session, exited, or panicked.
- `serverConnOpen`: whether `serverConn` is open.
- `table`: `s.table`, client session id → session.
- `nSessions`: the number of sessions created so far.
- Per session:
  - `sessCsid`: its client session id;
  - `sendCh`: `natConnSendCh` as a bounded sequence;
  - `chClosed`: whether that channel is closed;
  - `deadlineExpired`: the `natConn` read deadline has passed;
  - `natConnOpen`: whether `natConn` is open;
  - `downPc`, `upPc`: the two workers.
- `wg`: the wait-group counter.
- `stopPc`: where `Stop` is.

Actions:

- Receive loop:
  - `RecvPacket` reads a datagram into a pool buffer.
  - `RecvClosed` ends the loop when `serverConn` is closed.
  - `RecvDispatch` is the whole critical section under `s.mu`. Its disjuncts are:
    - `DispatchCreateFails`: every failure path of session creation puts the buffer back;
    - `DispatchCreate`: table insert, `wg.Add(2)`, both workers start;
    - `DispatchUnpackFails`;
    - `DispatchHit`: a non-blocking send, or a drop that puts the buffer back. A send on a closed channel is a panic.
- Upstream worker:
  - `UpstreamRecv` takes a packet and puts its buffer back.
  - `UpstreamExit` sees the closed, drained channel, closes `natConn` and calls `wg.Done`.
- Downstream worker:
  - `NatTimeout`: the creation-time deadline passes.
  - `DownstreamDeadline` and `DownstreamServerClosed` leave the read loop.
  - `DownstreamTeardown`, under `s.mu`, closes the channel, deletes the table entry and calls `wg.Done`.
- `Stop`:
  - `StopClose` closes `serverConn`.
  - `StopSweep`, under `s.mu`, expires the deadline of every session in the table.
  - `StopWait` is `wg.Wait`.

Packet contents, packing, unpacking and routing are abstracted to success or
failure. Read errors that only loop again change no modelled state and are
left out.

Properties:

- `BufferOwnedOnce`: each buffer is in exactly one place.
- `TableConsistent`: a table entry is a created session whose channel is open
  and whose downstream worker has not finished. Without it the receive loop
  would panic.
- `TeardownOrder`: `natConn` is closed only after the downstream teardown, with
  the channel closed and empty.
- `SessionTornDown`, `StopReturns`: liveness.
- `StopDrains`: when `Stop` returns, every session ever created has finished.
- `ImplementsSessionTable`: the relay implements `SessionTable`.

### SessionTable (abstract specification)

`SessionTable` says what the table promises. Its state is:

- `live`: the set of client session ids with a session;
- `queue`: a bounded FIFO of packets per id.

Its actions are:

- `Open(c, b)`: a session is created with its first packet;
- `Enqueue(c, b)`: a packet is queued to a live session with room;
- `Deliver(c)`: the oldest packet is sent on;
- `Close(c)`: the session leaves with its queue.

The refinement mapping is:

- `InTable`: the ids whose `table` entry is set;
- `TableQueues`: for each such id, `sendCh` of the session it names.

The mapping of each relay action:

| Relay action | Abstract step |
|---|---|
| `DispatchCreate` | `Open` |
| a successful `DispatchHit` send | `Enqueue` |
| `UpstreamRecv` of a session still in the table | `Deliver` |
| `DownstreamTeardown` | `Close` |
| everything else | a stutter |

The drain after teardown is a stutter too: the session is no longer in the table, so its channel is no longer visible. TLC checks `Abstract!Spec` as a property in `udp_safety`, and TLAPS proves it (below).

## CredManager

State (VARIABLES) and the code it stands for:

- `credUc`, `nextGen`, `ucKey`: `cachedCredMap`.
  - Each `cachedUserCredential` object is a (user, generation) pair.
  - `ucKey` is its uPSK, and so its hash, which is taken to be the key itself.
  - The object can be changed in place by `UpdateCredential`.
- `lookup`: `cachedUserLookupMap`.
- `prod`: the two store maps.
- `muHeld`: `s.mu` is locked by a goroutine that has already returned.
- `saveQueue`: tokens in the capacity-1 queue.
- `file`, `content`: the file and `cachedContent`.
- `saverPc`, `done`, `stopPc`: the save goroutine and `Stop`.
- `pc`, `call`, `closure`: one record per API goroutine.
- `rPc`, `rContent`: the reload.
- `nCalls`, `nReloads`: counters that bound the environment.

Actions:

- API goroutine:
  - `CallStart`.
  - `CallLocked`: the critical section, one of `AddLocked`, `UpdateLocked` or
    `DeleteLocked` with all their error returns, then `enqueueSave`.
  - `CallPatchTCP`, `CallPatchUDP`: `updateProdULM` applies the closure to one
    store, then the other. The closure reads `uc.uPSKHash` when it runs.
- Reload:
  - `ReloadRead` reads the file.
  - `ReloadLocked` takes the lock. It then either skips unchanged content or
    rejects garbage or duplicates, in both cases leaving the lock held as the
    code does, or replaces the cache and unlocks.
  - `ReloadReplaceTCP`, `ReloadReplaceUDP` are `replaceProdULM`.
- `EditFile`: an operator writes the file.
- Save goroutine: `SaverDequeue`, `SaverCooldown`, `SaverSave`.
- `Stop`: `StopClose`, `StopWait`.

Properties:

- `CachedLookupSound`: every cached lookup entry names the user whose cached
  uPSK it is.
- `UniqueUPSK`: spec invariant (i).
- `StoresMatchCacheWhenIdle`: spec 4.2 (ii).
- `CallsReturn`: liveness.
- `ImplementsCredentialMap`: the refinement described below.

### CredentialMap (abstract specification)

`CredentialMap` states what the manager promises about its credentials
(spec 4.2). It is written from the spec, not translated from code. Its
state is `creds`, a username -> uPSK map, and `disk`, the file content a
reload would install. Its actions:

- `Add(u, k)` applies only to an absent user.
- `Update(u, k)` and `Delete(u)` apply only to a present user.
- `Reload` requires `disk` to decode with no shared uPSK. It makes `creds`
  exactly `disk`.
- `Rewrite` lets a save or another program put any content in the file.

`CredManager` implements it through this mapping:

- `creds` is `Snapshot`, the cached username -> uPSK map.
- `disk` is `Disk`: the content a reload waiting for `s.mu` has read, and
  otherwise the file.

Two details of the mapping:

- The file may be rewritten between `ReloadRead` and `ReloadLocked`. So
  the abstract `Reload` step may also show a new `disk`.
- An API call that races a reload can be lost: the reload installs the
  content it read. The abstract spec allows this, because a reload replaces
  the whole map.

## TCPRelay

Each connection is independent, so the model has a set `Conns` of connection
slots, each accepted at most once. What every client sends after its handshake
is the sequence `Data` of chunk model values. The model value `Zeros` stands
for zero bytes of a fresh buffer.

State (VARIABLES):

- `lnOpen`: the listener is open.
- `acceptPc`: the accept goroutine (`"accepting"` or `"exited"`).
- `pc[c]`: where `handleConn` of slot `c` is.
- `read[c]`: how many chunks have been taken from the client connection.
- `payload[c]`: the initial payload that will be handed to `Dial`.
- `remote[c]`: what the outbound connection has received.

Actions:

- `AcceptConn`: the accept loop accepts a connection and starts its handler.
- `AcceptLoopExits`: `AcceptTCP` returns `net.ErrClosed` and the goroutine exits.
- `Stop`: closes the listener.
- `Handshake`: the client-address checks and `server.Accept`. The results
  (`AcceptResults`) depend on the framing:
  - `"direct"`: always ok;
  - Shadowsocks none: ok or error;
  - SOCKS5: ok, the UDP-associate hold, or error (including
    `ErrAcceptDoneNoRelay`, which `handleConn` does not tell from a failure);
  - `"ss2022"`: may also surface payload. No framing in `src/` does that; the
    spec's Shadowsocks 2022 server does.
- `HoldEnds`: the held connection returns when the client sends or closes.
- `Route`: the router fails, or picks a client kind. The handler then waits
  when `waitForInitialPayload` is on and `NativeInitialPayload` holds. That is
  true for `direct` with TFO and for Shadowsocks none; false for `direct`
  without TFO and for SOCKS5.
- `WaitInitialPayload`: the buffer is allocated, then the read happens with its deadline. The outcomes are:
  - a chunk arrives (payload cut to it);
  - a timeout (payload stays the zeroed buffer);
  - a read error;
  - either deadline call fails.
- `Dial`: the payload is sent to the remote, or the dial fails.
- `RelayCopy`: `zerocopy.TwoWayRelay` (not in `src/`; from the spec) copies the next chunk in order.
- `RelayEnds`: the relay ends.

Properties:

- `NoBytesLost`: once relaying, the client bytes the remote got are exactly
  the chunks read from the client, in order. `ClientBytes` removes only the
  zero-filled buffer that `Dial` sends first after a timed-out wait. Zero
  fill anywhere else counts as a lost byte. This is stronger than removing
  every zero fill (`SelectSeq`), and it needs no recursion, so it can be
  proved.
- `RemoteSeesClientStream`: the remote only ever gets a prefix of the
  client's stream (spec: on timeout, proceed with an empty payload).

## Runs

| Run | Config | Result | What it shows |
|---|---|---|---|
| udp_safety | `UDPSessionRelay_safety.cfg` | pass (53k states, symmetry on ids and buffers) | buffers, table and teardown order are safe under every interleaving of the receive loop, 3 sessions' workers and Stop; the relay implements `SessionTable` |
| udp_liveness | `UDPSessionRelay_liveness.cfg` | pass | sessions are torn down; Stop returns after its sweep |
| udp_stop | `UDPSessionRelay_stop.cfg` | violation of `StopDrains` | a datagram read before `serverConn.Close` creates a session after `Stop` returned |
| cred_safety | `CredManager_safety.cfg` | pass (2.2M states, about 2 min) | the cached lookup map stays sound under concurrent calls, reloads, saves and edits |
| cred_refines | `CredManager_refines.cfg` | pass (550k states, 30 s) | with one API goroutine beside the reload, save and edits, the cache implements `CredentialMap` (`ImplementsCredentialMap`). One caller reaches every critical section; two callers double the run time of `cred_safety`. |
| cred_unique | `CredManager_unique.cfg` | violation of `UniqueUPSK` | Add/Update give two users one uPSK |
| cred_stores | `CredManager_stores.cfg` | violation of `StoresMatchCacheWhenIdle` | a late Delete patch removes a fresh Add from both stores |
| cred_lock | `CredManager_lock.cfg` | violation of `CallsReturn` | a reload of unchanged or rejected content leaks `s.mu` |
| tcp_socks5 | `TCPRelay_socks5.cfg` | pass (2k states) | SOCKS5 server, wait on, all client kinds: no client byte read before the relay is lost |
| tcp_ss2022 | `TCPRelay_ss2022.cfg` | pass | a payload surfaced by `Accept` reaches the remote through `Dial` |
| tcp_zerofill | `TCPRelay_zerofill.cfg` | violation of `RemoteSeesClientStream` | on a wait timeout `Dial` sends the whole zeroed buffer (line 184), not an empty payload |
| tcp_overwrite | `TCPRelay_overwrite.cfg` | violation of `NoBytesLost` | the wait ignores a payload `Accept` returned (line 176) and overwrites it |

**Bounds and why they are enough.**

UDP relay:

- Two client session ids and three session slots allow:
  - two live sessions;
  - a session re-created for the same id after teardown.
- Three buffers with channel capacity 2 reach a full channel (the drop path)
  while the receive loop still holds a buffer.

Credential manager:

- Two users and two keys are the least that allows a duplicate uPSK and an
  update to another key.
- `MaxGen = 2` allows one new uc object per user, from an Add or from a reload.
- `MaxCalls = 2` and `MaxReloads = 2` bound the environment; without them the
  state space does not finish.
- `Edits` gives a changed valid file, one with a duplicate, and garbage.
- Two callers are needed for the patch races.

TCP relay:

- Two connection slots let the accept loop, `Stop` and two handlers
  interleave.
- A two-chunk `Data` gives a payload chunk and a relayed chunk, so an
  overwritten or dropped first chunk is visible.

Every action and every disjunct of both next-state relations fires in the
passing runs.

Deadlock checking is off in every run, because both systems really stop:

- after `Stop`, the relay and the save goroutine have exited;
- every TCP handler ends in `"done"`;
- in the credential manager, the lock leak itself blocks everything.

**Fairness.** Weak fairness is put on the steps a goroutine takes once it is
runnable:

- the workers' channel receive and exit;
- the natTimeout deadline, a timer the kernel fires;
- the teardown;
- Stop's sweep and wait;
- lock acquisitions and store patches in `CredManager`;
- none in `TCPRelay`: the handshakes, reads and relays of a TCP connection
  wait on peers, and only safety is checked there. The accept goroutine's
  exit after `Stop` is not checked as liveness. Closing a Go listener makes
  `AcceptTCP` fail with an error that wraps `net.ErrClosed`, which line 79
  tests, so with the one exit path the model has, the property would
  follow from the fairness alone.

No fairness is put on the steps that only happen when the outside world acts:

- arriving datagrams;
- replies from the target (`DownstreamServerClosed`);
- API calls and reload signals;
- file edits;
- the call of `Stop`.

## Proofs

`UDPSessionRelayProofs` proves, for every value of the constants
(assumption `ConstantsAssumption`: capacity ≥ 1, `NoBuffer` ∉ `Buffers`):

- `TypeCorrect`: `Spec => []TypeOK`. This includes the channel-capacity bound.
- `TableConsistency`: `Spec => []TableConsistent`.

`TableConsistent` is not inductive on its own. Two cases break it:

- `DispatchCreate` must know that the next session number has an open channel
  and an unstarted worker (`UnusedSessionsFresh`).
- `DispatchHit` must know that the receive loop holds a real buffer
  (`DispatchHoldsBuffer`).

The inductive invariant is therefore
`IInv == TypeOK /\ TableConsistent /\ UnusedSessionsFresh /\ DispatchHoldsBuffer`.

- `InitIInv` shows that `Init` implies `IInv`.
- `NextIInv` shows that every action preserves `IInv`, with one step per action.
- Both theorems follow by PTL.

`Refinement`: `Spec => ImplementsSessionTable`. It needs one more invariant,
`LiveInTable`: a session whose downstream worker has not finished is the one
its csid's table entry names. With it, the teardown's `delete(s.table, csid)`
maps to `Close` of that csid. Without it, the delete could be removing the
entry of another session. `NextLive` proves `LiveInTable` is preserved given
`IInv`. `RefineStep` maps each action to an abstract step or a stutter: an
`UpstreamRecv` of a session that left the table is a stutter, because by
`TableConsistent` no entry names it.

`TCPRelayProofs` proves `TCPTypeCorrect`: `Spec => []TypeOK` for every
framing, client set and client stream (`ConstantsAssumption`: `Data` a
non-empty sequence of chunks, `Zeros` not a chunk). It needs no strengthening.
The interesting part is that `read[c]` never passes `Len(Data)`.

`UDPSessionRelayProofs` also proves two more invariants:

- `TeardownOrdered`: `Spec => []TeardownOrder`. It is proved from
  `IInv /\ TInv`, where
  `TInv == TeardownOrder /\ ClosedMeansTornDown /\ ClosedConnUpDone`.
  `UpstreamExit` closes natConn on a closed, drained channel. To show that
  the downstream worker has then finished, the proof needs
  `ClosedMeansTornDown`: only the downstream teardown closes the channel.
  `UpstreamRecv` and `DispatchHit` change a channel. To show they never
  touch the channel of a session whose natConn is closed, the proof needs
  `ClosedConnUpDone`: natConn is closed only by an upstream worker that has
  exited.
- `BuffersOwnedOnce`: `Spec => []BufferOwnedOnce`. The count of places
  holding a buffer is not inductive. The strengthening `BInv` instead says
  where each buffer is:
  - `OnePlace`: each buffer is in exactly one of the pool, the receive
    loop's hand, or a channel;
  - `QueuedOnce`: no buffer is in two channel slots;
  - `HoldsOnlyWhileDispatching`: the receive loop holds a buffer only
    while dispatching;
  - `UnusedChannelsEmpty`: session numbers not yet created have empty
    channels.

  The lemmas `QueuedAppend`, `OnceAppend`, `QueuedTail` and `OnceTail`
  state what appending to and taking from one channel does to these
  facts. `OwnedOnceFromPlaces` turns them into the cardinality statement
  of `BufferOwnedOnce`.

`CredManagerProofs` proves three theorems under the hypothesis `Users # {}`:

- `CredTypeCorrect`: `Spec => []TypeOK`.
- `LookupSound`: `Spec => []CachedLookupSound`.
- `CredRefinement`: `Spec => ImplementsCredentialMap`.

The hypothesis is needed because the placeholder values `AnyCall` and
`AnyClosure` are `CHOOSE`s over sets that are empty without users. The
module's `ConstantsAssumption` also requires `Keys # {}` for `AnyKey`.

`TypeOK` is inductive. The generation bound holds because every new
generation is guarded by `\in Gens`. `CachedLookupSound` is inductive
together with `TypeOK`, and the argument is per action:

- Add: the user has no cache entry, so no lookup entry names it
  (`EntryOfUser`).
- Update and Delete: the only lookup entry naming the user is the one at
  its old uPSK, and the code removes exactly that entry.
- An accepted reload: both the cache and the lookup map are rebuilt from
  the same file map.

`CredRefinement` needs only `TypeOK`, and is proved step by step:

- `InitMap`: the initial state maps to an initial state of the abstract
  spec. The registered file has no shared uPSK (`ConstantsAssumption`).
- `MapStep`: every step maps to an abstract step or a stutter.
  - A step that leaves `credUc` and `ucKey` alone is an abstract
    `Rewrite`, since `Disk` is always some file content.
  - A successful critical section changes the snapshot at its user only
    (`SnapshotAt`). Add finds the user absent; Update and Delete find it
    present.
  - An accepted reload makes the snapshot `rContent`, which is `Disk`
    while the reload waits for `s.mu`, and `Valid` gives the abstract guard.

`TCPRelayProofs` proves `NoBytesLostHolds`:
`ASSUME NoPayloadOverwrite PROVE Spec => []NoBytesLost`. The hypothesis
is `~(Framing = "ss2022" /\ WaitForInitialPayload)`. It is exactly the
condition under which the code is right: the `tcp_overwrite` run shows the
property fails without it. The passing runs `tcp_socks5` and `tcp_ss2022`
satisfy it.

The inductive invariant `StageStreams` says, for each stage of
`handleConn`, what the connection holds of the client's stream:

- before the handshake, nothing has been read and payload is empty;
- at route and dial, payload is the prefix read, possibly after a zero
  fill;
- at route with the wait on, and at the wait, nothing has been read;
- at relay, the remote has that form.

The lemmas `PrefixStep` and `StreamStep` show that a relay copy extends
that form. `StreamBytes` shows that a stream of that form, without its
zero fill, is the prefix read. They rest on the sequence facts of
`SequenceTheorems`.

What stays with TLC:

- Liveness (`SessionTornDown`, `StopReturns`): the prover
  does not check fairness or `ENABLED`.
- The properties of the violation runs (`StopDrains`, `UniqueUPSK`,
  `StoresMatchCacheWhenIdle`, `CallsReturn`, `RemoteSeesClientStream`): TLC
  shows that the code breaks them, so there is nothing to prove.

## Not modelled

- Packet and header encoding in `src/direct/tcp.go` and the socket helpers
  (`src/unnamed/part_001`): pure I/O.
- The non-Linux stub (`src/unnamed/part_000`).
- The race on the UDP reply address (`udp_session.go:368`): addresses are
  abstracted away.
- The SOCKS5 UDP-associate hold (`tcp.go:142`) reads with no deadline, and
  `Stop` does not close accepted connections, so such a handler can live
  forever. The model lets the hold end only when the client acts.

## Plan for the next sittings

1. A liveness property for eventual persistence (spec invariant iii).
2. The remaining coverage gap: the byte-level framings of
   `src/direct/tcp.go`, beyond their Accept results.
