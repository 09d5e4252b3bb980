--------------------------- MODULE UDPSessionRelay ---------------------------
(***************************************************************************)
(* The session-based UDP relay of src/service/udp_session.go.              *)
(*                                                                         *)
(* One receive loop reads datagrams from serverConn and dispatches them,   *)
(* under the table mutex s.mu, to the NAT session of their client session *)
(* ID (csid), creating the session on a miss.  Every session has a         *)
(* bounded send channel and two goroutines: the upstream worker            *)
(* (relayServerConnToNatConn) drains the channel and writes to natConn,    *)
(* the downstream worker (relayNatConnToServerConn) reads natConn until    *)
(* its read deadline passes, then closes the channel and deletes the table *)
(* entry.  Stop closes serverConn, expires the deadline of every session   *)
(* in the table and waits on the wait-group.                               *)
(*                                                                         *)
(* Packet bytes, addresses, packers and unpackers are abstracted away: a   *)
(* packet is the pool buffer that carries it.  The pool (a sync.Pool) is   *)
(* a bag of buffers, so that a buffer returned twice is visible.  Every    *)
(* critical section of s.mu is one atomic action, so the mutex itself is   *)
(* not a variable.                                                         *)
(***************************************************************************)
EXTENDS Integers, Sequences, FiniteSets

CONSTANTS
    Csid,                 \* client session IDs the clients use
    Buffers,              \* the packet buffers of packetBufPool
    NoBuffer,             \* "the receive loop holds no buffer"
    SendChannelCapacity,  \* capacity of natConnSendCh
    MaxSessions           \* bound: sessions created in one behaviour

ASSUME ConstantsAssumption ==
    /\ NoBuffer \notin Buffers
    /\ SendChannelCapacity \in Nat \ {0}
    /\ MaxSessions \in Nat

\* Sessions are numbered in creation order; 0 is a missing table entry.
Sessions == 1..MaxSessions
NoSession == 0

VARIABLES
    pool,             \* bag of free buffers: pool[b] copies of b
    recvPc,           \* receive loop: "read", "dispatch" or "exited"
    recvBuf,          \* buffer the receive loop holds, or NoBuffer
    recvCsid,         \* csid of the datagram being dispatched
    serverConnOpen,   \* serverConn not yet closed by Stop
    table,            \* s.table: csid -> session
    nSessions,        \* sessions created so far
    sessCsid,         \* the csid a session was created for
    sendCh,           \* natConnSendCh contents, per session
    chClosed,         \* natConnSendCh closed
    deadlineExpired,  \* natConn read deadline has passed
    natConnOpen,      \* natConn not yet closed
    downPc,           \* downstream worker: "none", "read", "teardown", "done"
    upPc,             \* upstream worker: "none", "recv", "done"
    wg,               \* counter of s.wg
    stopPc            \* Stop: "idle", "sweep", "wait", "returned"

vars == <<pool, recvPc, recvBuf, recvCsid, serverConnOpen, table, nSessions,
          sessCsid, sendCh, chClosed, deadlineExpired, natConnOpen, downPc,
          upPc, wg, stopPc>>

sessionVars == <<sessCsid, sendCh, chClosed, deadlineExpired, natConnOpen,
                 downPc, upPc>>

Created == 1..nSessions

\* s.packetBufPool.Put(b)
Put(b) == pool' = [pool EXCEPT ![b] = @ + 1]

-----------------------------------------------------------------------------
(* State after Start: serverConn listening, the receive loop at its read,   *)
(* an empty table and every buffer free.                                   *)
Init ==
    /\ pool = [b \in Buffers |-> 1]
    /\ recvPc = "read"
    /\ recvBuf = NoBuffer
    /\ recvCsid \in Csid
    /\ serverConnOpen = TRUE
    /\ table = [c \in Csid |-> NoSession]
    /\ nSessions = 0
    /\ sessCsid \in [Sessions -> Csid]
    /\ sendCh = [s \in Sessions |-> <<>>]
    /\ chClosed = [s \in Sessions |-> FALSE]
    /\ deadlineExpired = [s \in Sessions |-> FALSE]
    /\ natConnOpen = [s \in Sessions |-> FALSE]
    /\ downPc = [s \in Sessions |-> "none"]
    /\ upPc = [s \in Sessions |-> "none"]
    /\ wg = 0
    /\ stopPc = "idle"

(* Receive loop, lines 114-146: a buffer is taken from the pool and a      *)
(* datagram of some session is read into it.  A read, flag or SessionInfo *)
(* error puts the buffer back and loops, which changes no modelled state.  *)
RecvPacket ==
    /\ recvPc = "read"
    /\ serverConnOpen
    /\ \E b \in Buffers, c \in Csid :
        /\ pool[b] > 0
        /\ pool' = [pool EXCEPT ![b] = @ - 1]
        /\ recvBuf' = b
        /\ recvCsid' = c
    /\ recvPc' = "dispatch"
    /\ UNCHANGED <<serverConnOpen, table, nSessions, sessionVars, wg, stopPc>>

(* Receive loop, lines 118-123: serverConn was closed by Stop, the read    *)
(* fails with net.ErrClosed, the buffer goes back and the loop ends.       *)
RecvClosed ==
    /\ recvPc = "read"
    /\ ~serverConnOpen
    /\ recvPc' = "exited"
    /\ UNCHANGED <<pool, recvBuf, recvCsid, serverConnOpen, table, nSessions,
                   sessionVars, wg, stopPc>>

\* Defect variant of Enqueue: the full-channel drop forgets the Put.
EnqueueDropLeaks(s, b) ==
    IF Len(sendCh[s]) < SendChannelCapacity
    THEN sendCh' = [sendCh EXCEPT ![s] = Append(@, b)] /\ UNCHANGED pool
    ELSE UNCHANGED <<pool, sendCh>>

\* Mutant: the capacity test is off by one.
EnqueueOffByOne(s, b) ==
    IF Len(sendCh[s]) <= SendChannelCapacity
    THEN /\ sendCh' = [sendCh EXCEPT ![s] = Append(@, b)]
         /\ UNCHANGED pool
    ELSE /\ Put(b)
         /\ UNCHANGED sendCh

\* Lines 383-395: the non-blocking send to the session's channel, or drop.
Enqueue(s, b) ==
    IF Len(sendCh[s]) < SendChannelCapacity
    THEN /\ sendCh' = [sendCh EXCEPT ![s] = Append(@, b)]
         /\ UNCHANGED pool
    ELSE /\ Put(b)
         /\ UNCHANGED sendCh

\* Lines 176-299: one of the steps creating a session fails (unpacker,
\* unpack, route, client session, packer, ListenUDP, SetReadDeadline).
DispatchCreateFails ==
    /\ table[recvCsid] = NoSession
    /\ Put(recvBuf)
    /\ UNCHANGED <<table, nSessions, sessionVars, wg>>

\* Defect variant of DispatchCreate: the session is created but the packet
\* that caused it is put back instead of queued.
DispatchCreateDropsFirst ==
    LET s == nSessions + 1 IN
    /\ table[recvCsid] = NoSession
    /\ nSessions < MaxSessions
    /\ nSessions' = s
    /\ table' = [table EXCEPT ![recvCsid] = s]
    /\ sessCsid' = [sessCsid EXCEPT ![s] = recvCsid]
    /\ Put(recvBuf)
    /\ natConnOpen' = [natConnOpen EXCEPT ![s] = TRUE]
    /\ downPc' = [downPc EXCEPT ![s] = "read"]
    /\ upPc' = [upPc EXCEPT ![s] = "recv"]
    /\ wg' = wg + 2
    /\ UNCHANGED <<sendCh, chClosed, deadlineExpired>>

\* Lines 301-339: the session is created with its deadline natTimeout
\* ahead, entered into the table, the packet queued and both workers spawned.
DispatchCreate ==
    LET s == nSessions + 1 IN
    /\ table[recvCsid] = NoSession
    /\ nSessions < MaxSessions
    /\ nSessions' = s
    /\ table' = [table EXCEPT ![recvCsid] = s]
    /\ sessCsid' = [sessCsid EXCEPT ![s] = recvCsid]
    /\ sendCh' = [sendCh EXCEPT ![s] = <<recvBuf>>]
    /\ natConnOpen' = [natConnOpen EXCEPT ![s] = TRUE]
    /\ downPc' = [downPc EXCEPT ![s] = "read"]
    /\ upPc' = [upPc EXCEPT ![s] = "recv"]
    /\ wg' = wg + 2
    /\ UNCHANGED <<pool, chClosed, deadlineExpired>>

\* Lines 349-363: the session's unpacker rejects the packet.
DispatchUnpackFails ==
    /\ table[recvCsid] # NoSession
    /\ Put(recvBuf)
    /\ UNCHANGED <<table, nSessions, sessionVars, wg>>

\* Lines 349-395: the packet is handed to the existing session.  A send on
\* a closed channel panics in Go and ends the process ("panicked").
DispatchHit ==
    LET s == table[recvCsid] IN
    /\ s # NoSession
    /\ IF chClosed[s]
       THEN /\ recvPc' = "panicked"
            /\ UNCHANGED <<pool, sendCh>>
       ELSE /\ Enqueue(s, recvBuf)
            /\ recvPc' = "read"
    /\ UNCHANGED <<table, nSessions, sessCsid, chClosed, deadlineExpired,
                   natConnOpen, downPc, upPc, wg>>

(* Receive loop, lines 172-397: everything done under s.mu for one         *)
(* datagram.  The receive loop then releases the buffer reference.         *)
RecvDispatch ==
    /\ recvPc = "dispatch"
    /\ \/ DispatchCreateFails /\ recvPc' = "read"
       \/ DispatchCreate /\ recvPc' = "read"
       \/ DispatchUnpackFails /\ recvPc' = "read"
       \/ DispatchHit
    /\ recvBuf' = NoBuffer
    /\ UNCHANGED <<recvCsid, serverConnOpen, stopPc>>

-----------------------------------------------------------------------------
(* Upstream worker, lines 421-479: take the next queued packet, pack it,   *)
(* resolve the target and write it to natConn.  Whether packing,           *)
(* resolution or the write fails, the buffer goes back to the pool.        *)
UpstreamRecv(s) ==
    /\ upPc[s] = "recv"
    /\ sendCh[s] # <<>>
    /\ Put(Head(sendCh[s]))
    /\ sendCh' = [sendCh EXCEPT ![s] = Tail(@)]
    /\ UNCHANGED <<recvPc, recvBuf, recvCsid, serverConnOpen, table,
                   nSessions, sessCsid, chClosed, deadlineExpired,
                   natConnOpen, downPc, upPc, wg, stopPc>>

\* Defect variant of UpstreamExit: a non-blocking receive ends the worker
\* as soon as the channel is empty, closed or not.
UpstreamExitWhenEmpty(s) ==
    /\ upPc[s] = "recv"
    /\ sendCh[s] = <<>>
    /\ natConnOpen' = [natConnOpen EXCEPT ![s] = FALSE]
    /\ upPc' = [upPc EXCEPT ![s] = "done"]
    /\ wg' = wg - 1
    /\ UNCHANGED <<pool, recvPc, recvBuf, recvCsid, serverConnOpen, table,
                   nSessions, sessCsid, sendCh, chClosed, deadlineExpired,
                   downPc, stopPc>>

\* Defect variant of UpstreamExit: the goroutine never calls s.wg.Done().
UpstreamExitNoDone(s) ==
    /\ upPc[s] = "recv"
    /\ sendCh[s] = <<>>
    /\ chClosed[s]
    /\ natConnOpen' = [natConnOpen EXCEPT ![s] = FALSE]
    /\ upPc' = [upPc EXCEPT ![s] = "done"]
    /\ UNCHANGED <<pool, recvPc, recvBuf, recvCsid, serverConnOpen, table,
                   nSessions, sessCsid, sendCh, chClosed, deadlineExpired,
                   downPc, wg, stopPc>>

(* Upstream worker, lines 422-425 and 336-338: the channel is closed and   *)
(* drained, so the receive fails; the worker closes natConn and signals    *)
(* the wait-group.                                                         *)
UpstreamExit(s) ==
    /\ upPc[s] = "recv"
    /\ sendCh[s] = <<>>
    /\ chClosed[s]
    /\ natConnOpen' = [natConnOpen EXCEPT ![s] = FALSE]
    /\ upPc' = [upPc EXCEPT ![s] = "done"]
    /\ wg' = wg - 1
    /\ UNCHANGED <<pool, recvPc, recvBuf, recvCsid, serverConnOpen, table,
                   nSessions, sessCsid, sendCh, chClosed, deadlineExpired,
                   downPc, stopPc>>

(* The natTimeout deadline set at creation (line 285) passes.  It is never *)
(* refreshed by traffic.                                                   *)
NatTimeout(s) ==
    /\ downPc[s] = "read"
    /\ ~deadlineExpired[s]
    /\ deadlineExpired' = [deadlineExpired EXCEPT ![s] = TRUE]
    /\ UNCHANGED <<pool, recvPc, recvBuf, recvCsid, serverConnOpen, table,
                   nSessions, sessCsid, sendCh, chClosed, natConnOpen,
                   downPc, upPc, wg, stopPc>>

\* Defect variant of DownstreamDeadline: os.ErrDeadlineExceeded is logged
\* and the loop continues, like every other read error.
DownstreamDeadlineIgnored(s) ==
    /\ downPc[s] = "read"
    /\ deadlineExpired[s]
    /\ UNCHANGED vars

\* The downstream loop leaves its read loop (lines 504-586).
ExitReadLoop(s) ==
    /\ downPc[s] = "read"
    /\ downPc' = [downPc EXCEPT ![s] = "teardown"]
    /\ UNCHANGED <<pool, recvPc, recvBuf, recvCsid, serverConnOpen, table,
                   nSessions, sessCsid, sendCh, chClosed, deadlineExpired,
                   natConnOpen, upPc, wg, stopPc>>

(* Downstream worker, lines 505-509: the read fails with                   *)
(* os.ErrDeadlineExceeded and the loop ends.  Other read errors, and       *)
(* replies that unpack, pack and are written, continue the loop unchanged. *)
DownstreamDeadline(s) ==
    /\ deadlineExpired[s]
    /\ ExitReadLoop(s)

(* Downstream worker, lines 533-574: a reply arrives from natConn and its  *)
(* write to the closed serverConn fails with net.ErrClosed; the loop ends. *)
DownstreamServerClosed(s) ==
    /\ ~serverConnOpen
    /\ ExitReadLoop(s)

\* Defect variant of DownstreamTeardown: the channel is closed but the
\* table entry is not deleted.
DownstreamTeardownKeepsEntry(s) ==
    /\ downPc[s] = "teardown"
    /\ chClosed' = [chClosed EXCEPT ![s] = TRUE]
    /\ downPc' = [downPc EXCEPT ![s] = "done"]
    /\ wg' = wg - 1
    /\ UNCHANGED <<pool, recvPc, recvBuf, recvCsid, serverConnOpen, table,
                   nSessions, sessCsid, sendCh, deadlineExpired,
                   natConnOpen, upPc, stopPc>>

(* Downstream worker, lines 327-332: under s.mu, close the send channel    *)
(* and delete table[csid]; then signal the wait-group.                     *)
DownstreamTeardown(s) ==
    /\ downPc[s] = "teardown"
    /\ chClosed' = [chClosed EXCEPT ![s] = TRUE]
    /\ table' = [table EXCEPT ![sessCsid[s]] = NoSession]
    /\ downPc' = [downPc EXCEPT ![s] = "done"]
    /\ wg' = wg - 1
    /\ UNCHANGED <<pool, recvPc, recvBuf, recvCsid, serverConnOpen,
                   nSessions, sessCsid, sendCh, deadlineExpired,
                   natConnOpen, upPc, stopPc>>

-----------------------------------------------------------------------------
\* Stop, line 594: close serverConn.
StopClose ==
    /\ stopPc = "idle"
    /\ serverConnOpen' = FALSE
    /\ stopPc' = "sweep"
    /\ UNCHANGED <<pool, recvPc, recvBuf, recvCsid, table, nSessions,
                   sessionVars, wg>>

\* Stop, lines 596-610: under s.mu, set the read deadline of every session
\* in the table to now.
StopSweep ==
    /\ stopPc = "sweep"
    /\ deadlineExpired' =
         [s \in Sessions |-> deadlineExpired[s] \/ \E c \in Csid : table[c] = s]
    /\ stopPc' = "wait"
    /\ UNCHANGED <<pool, recvPc, recvBuf, recvCsid, serverConnOpen, table,
                   nSessions, sessCsid, sendCh, chClosed, natConnOpen,
                   downPc, upPc, wg>>

\* Stop, line 612: s.wg.Wait() returns once the counter is zero.
StopWait ==
    /\ stopPc = "wait"
    /\ wg = 0
    /\ stopPc' = "returned"
    /\ UNCHANGED <<pool, recvPc, recvBuf, recvCsid, serverConnOpen, table,
                   nSessions, sessionVars, wg>>

Next ==
    \/ RecvPacket \/ RecvClosed \/ RecvDispatch
    \/ \E s \in Sessions :
        \/ UpstreamRecv(s) \/ UpstreamExit(s)
        \/ NatTimeout(s) \/ DownstreamDeadline(s)
        \/ DownstreamServerClosed(s) \/ DownstreamTeardown(s)
    \/ StopClose \/ StopSweep \/ StopWait

(* Goroutines that can run are eventually scheduled, and a deadline that   *)
(* has been set eventually passes.  Datagram arrival, replies from natConn *)
(* and the call of Stop are up to the environment and get no fairness.     *)
Fairness ==
    /\ WF_vars(RecvClosed)
    /\ WF_vars(RecvDispatch)
    /\ \A s \in Sessions :
        /\ WF_vars(UpstreamRecv(s)) /\ WF_vars(UpstreamExit(s))
        /\ WF_vars(NatTimeout(s)) /\ WF_vars(DownstreamDeadline(s))
        /\ WF_vars(DownstreamTeardown(s))
    /\ WF_vars(StopSweep) /\ WF_vars(StopWait)

Spec == Init /\ [][Next]_vars /\ Fairness

-----------------------------------------------------------------------------
TypeOK ==
    /\ pool \in [Buffers -> Nat]
    /\ recvPc \in {"read", "dispatch", "exited", "panicked"}
    /\ recvBuf \in Buffers \cup {NoBuffer}
    /\ recvCsid \in Csid
    /\ serverConnOpen \in BOOLEAN
    /\ table \in [Csid -> Sessions \cup {NoSession}]
    /\ nSessions \in 0..MaxSessions
    /\ sessCsid \in [Sessions -> Csid]
    /\ sendCh \in [Sessions -> Seq(Buffers)]
    /\ \A s \in Sessions : Len(sendCh[s]) <= SendChannelCapacity
    /\ chClosed \in [Sessions -> BOOLEAN]
    /\ deadlineExpired \in [Sessions -> BOOLEAN]
    /\ natConnOpen \in [Sessions -> BOOLEAN]
    /\ downPc \in [Sessions -> {"none", "read", "teardown", "done"}]
    /\ upPc \in [Sessions -> {"none", "recv", "done"}]
    /\ wg \in Int
    /\ stopPc \in {"idle", "sweep", "wait", "returned"}

(* Buffer ownership (spec section 3, "Packet buffer pool"): at every       *)
(* moment each pool buffer is in exactly one place, free in the pool, held *)
(* by the receive loop, or queued in one session's send channel.  A drop   *)
(* path that forgets to Put leaks a buffer; one that Puts twice lets two   *)
(* in-flight packets share memory.                                         *)
Holders(b) ==
    UNION {{<<s, i>> : i \in {j \in DOMAIN sendCh[s] : sendCh[s][j] = b}} :
           s \in Sessions}

BufferOwnedOnce ==
    \A b \in Buffers :
        pool[b] + (IF recvBuf = b THEN 1 ELSE 0) + Cardinality(Holders(b)) = 1

(* The session table only names live sessions (spec section 3, "Session    *)
(* table"): an entry for csid c is the session created for c, its          *)
(* downstream worker has not finished and its send channel is open, so the *)
(* receive loop, which sends under s.mu, never sends on a closed channel   *)
(* and the unconditional delete(s.table, csid) of the downstream worker    *)
(* removes its own entry.                                                  *)
TableConsistent ==
    /\ recvPc # "panicked"
    /\ \A c \in Csid : table[c] # NoSession =>
           /\ table[c] \in Created
           /\ sessCsid[table[c]] = c
           /\ ~chClosed[table[c]]
           /\ downPc[table[c]] \in {"read", "teardown"}

(* Teardown order (spec 4.4, "Worker teardown protocol"): natConn is       *)
(* closed only after the downstream worker has stopped reading it, the     *)
(* send channel was closed and every queued packet was written.  Reading a *)
(* closed natConn fails with net.ErrClosed, which the downstream loop      *)
(* logs and retries forever.                                               *)
TeardownOrder ==
    \A s \in Created :
        ~natConnOpen[s] => /\ downPc[s] = "done"
                           /\ chClosed[s]
                           /\ sendCh[s] = <<>>

(* Every session is eventually torn down: its deadline passes, the         *)
(* downstream worker closes the channel, the upstream worker drains it and *)
(* closes natConn.                                                         *)
SessionTornDown ==
    \A s \in Sessions : downPc[s] = "read" ~> upPc[s] = "done"

(* Stop returns: once serverConn is closed, the wait-group drains.         *)
StopReturns == stopPc = "sweep" ~> stopPc = "returned"

(* The session table as the spec describes it: the ids with an entry, and *)
(* for each the packets queued in its session's channel.                   *)
InTable == {c \in Csid : table[c] # NoSession}

TableQueues == [c \in Csid |-> IF c \in InTable THEN sendCh[table[c]] ELSE <<>>]

Abstract == INSTANCE SessionTable WITH
    live <- InTable, queue <- TableQueues, Capacity <- SendChannelCapacity

(* The relay implements the session table: creating, feeding, draining and *)
(* tearing down sessions under every interleaving of the receive loop and  *)
(* the workers is a behaviour of SessionTable (a drop, a failed creation   *)
(* or a drain of a session already out of the table is a stutter).         *)
ImplementsSessionTable == Abstract!Spec

(* Spec 4.6: Stop is synchronous; it waits on the wait-group, so that when *)
(* it returns no session worker of the relay is left running.              *)
StopDrains ==
    stopPc = "returned" =>
        \A s \in Created : upPc[s] = "done" /\ downPc[s] = "done"

=============================================================================
