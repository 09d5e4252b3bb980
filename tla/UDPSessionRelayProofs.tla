------------------------ MODULE UDPSessionRelayProofs ------------------------
(***************************************************************************)
(* Proofs about UDPSessionRelay for every value of the constants.          *)
(*                                                                         *)
(* TableConsistent is not inductive by itself: creating a session needs    *)
(* that the next session number is still unused (its channel open, its     *)
(* downstream worker not started), and queueing the first packet needs     *)
(* that the receive loop holds a real buffer while it dispatches.  IInv    *)
(* adds these two facts.                                                   *)
(***************************************************************************)
EXTENDS UDPSessionRelay, FiniteSetTheorems, TLAPS

\* A session number not handed out yet is untouched.
UnusedSessionsFresh ==
    \A s \in Sessions \ Created : ~chClosed[s] /\ downPc[s] = "none"

\* While dispatching, the receive loop holds a buffer of the pool.
DispatchHoldsBuffer == recvPc = "dispatch" => recvBuf \in Buffers

IInv == TypeOK /\ TableConsistent /\ UnusedSessionsFresh /\ DispatchHoldsBuffer

LEMMA InitIInv == Init => IInv
  BY ConstantsAssumption
  DEF Init, IInv, TypeOK, TableConsistent, UnusedSessionsFresh,
      DispatchHoldsBuffer, Sessions, NoSession, Created

LEMMA NextIInv == IInv /\ [Next]_vars => IInv'
<1> SUFFICES ASSUME IInv, [Next]_vars PROVE IInv'
  OBVIOUS
<1> USE ConstantsAssumption DEF IInv, TypeOK, Sessions, NoSession, Created
<1>1. CASE RecvPacket
  BY <1>1 DEF RecvPacket, TableConsistent, UnusedSessionsFresh,
              DispatchHoldsBuffer, sessionVars
<1>2. CASE RecvClosed
  BY <1>2 DEF RecvClosed, TableConsistent, UnusedSessionsFresh,
              DispatchHoldsBuffer, sessionVars
<1>3. CASE RecvDispatch
  <2>1. recvBuf \in Buffers /\ recvBuf' = NoBuffer
        /\ UNCHANGED <<recvCsid, serverConnOpen, stopPc>>
    BY <1>3 DEF RecvDispatch, DispatchHoldsBuffer
  <2>2. CASE DispatchCreateFails /\ recvPc' = "read"
    BY <2>1, <2>2 DEF DispatchCreateFails, Put,
       TableConsistent, UnusedSessionsFresh, DispatchHoldsBuffer, sessionVars
  <2>3. CASE DispatchCreate /\ recvPc' = "read"
    <3> DEFINE n == nSessions + 1
    <3>1. n \in Sessions /\ n \notin Created
      BY <2>3 DEF DispatchCreate
    <3>2. TypeOK'
      BY <2>1, <2>3, <3>1 DEF DispatchCreate
    <3>3. TableConsistent'
      BY <2>1, <2>3, <3>1 DEF DispatchCreate, TableConsistent,
         UnusedSessionsFresh
    <3>4. UnusedSessionsFresh'
      BY <2>3, <3>1 DEF DispatchCreate, UnusedSessionsFresh
    <3>5. QED
      BY <2>3, <3>2, <3>3, <3>4 DEF DispatchHoldsBuffer
  <2>4. CASE DispatchUnpackFails /\ recvPc' = "read"
    BY <2>1, <2>4 DEF DispatchUnpackFails, Put,
       TableConsistent, UnusedSessionsFresh, DispatchHoldsBuffer, sessionVars
  <2>5. CASE DispatchHit
    <3>1. ~chClosed[table[recvCsid]] /\ table[recvCsid] # NoSession
      BY <2>5 DEF DispatchHit, TableConsistent
    <3>2. recvPc' = "read"
      BY <2>5, <3>1 DEF DispatchHit
    <3>3. LET t == table[recvCsid] IN
            \/ /\ Len(sendCh[t]) < SendChannelCapacity
               /\ sendCh' = [sendCh EXCEPT ![t] = Append(@, recvBuf)]
               /\ UNCHANGED pool
            \/ /\ Put(recvBuf)
               /\ UNCHANGED sendCh
      BY <2>5, <3>1 DEF DispatchHit, Enqueue
    <3>4. table[recvCsid] \in Sessions
      BY <3>1 DEF TableConsistent
    <3>5. TypeOK'
      <4>1. UNCHANGED <<table, nSessions, sessCsid, chClosed, deadlineExpired,
                        natConnOpen, downPc, upPc, wg>>
        BY <2>5 DEF DispatchHit
      <4>2. CASE /\ Len(sendCh[table[recvCsid]]) < SendChannelCapacity
                 /\ sendCh' = [sendCh EXCEPT ![table[recvCsid]] = Append(@, recvBuf)]
                 /\ UNCHANGED pool
        BY <2>1, <3>2, <3>4, <4>1, <4>2
      <4>3. CASE Put(recvBuf) /\ UNCHANGED sendCh
        BY <2>1, <3>2, <4>1, <4>3 DEF Put
      <4>4. QED
        BY <3>3, <4>2, <4>3
    <3>6. QED
      BY <2>1, <2>5, <3>2, <3>5 DEF DispatchHit, TableConsistent,
         UnusedSessionsFresh, DispatchHoldsBuffer
  <2>6. QED
    BY <1>3, <2>2, <2>3, <2>4, <2>5 DEF RecvDispatch
<1>4. ASSUME NEW s \in Sessions, UpstreamRecv(s) PROVE IInv'
  <2>1. sendCh[s] \in Seq(Buffers) /\ sendCh[s] # <<>>
    BY <1>4 DEF UpstreamRecv
  <2>2. /\ Head(sendCh[s]) \in Buffers /\ Tail(sendCh[s]) \in Seq(Buffers)
        /\ Len(Tail(sendCh[s])) < Len(sendCh[s])
    BY <2>1
  <2>3. sendCh' \in [Sessions -> Seq(Buffers)]
    BY <1>4, <2>2 DEF UpstreamRecv
  <2>4. \A t \in Sessions : Len(sendCh'[t]) <= SendChannelCapacity
    BY <1>4, <2>2 DEF UpstreamRecv
  <2>5. pool' \in [Buffers -> Nat]
    BY <1>4, <2>2 DEF UpstreamRecv, Put
  <2>6. TypeOK'
    BY <1>4, <2>3, <2>4, <2>5 DEF UpstreamRecv
  <2>7. QED
    BY <1>4, <2>6 DEF UpstreamRecv, TableConsistent, UnusedSessionsFresh,
       DispatchHoldsBuffer
<1>5. ASSUME NEW s \in Sessions, UpstreamExit(s) PROVE IInv'
  <2>1. natConnOpen' \in [Sessions -> BOOLEAN]
    BY <1>5 DEF UpstreamExit
  <2>2. upPc' \in [Sessions -> {"none", "recv", "done"}]
    BY <1>5 DEF UpstreamExit
  <2>3. wg' \in Int
    BY <1>5 DEF UpstreamExit
  <2>4. TypeOK'
    BY <1>5, <2>1, <2>2, <2>3 DEF UpstreamExit
  <2>5. QED
    BY <1>5, <2>4 DEF UpstreamExit, TableConsistent, UnusedSessionsFresh,
       DispatchHoldsBuffer
<1>6. ASSUME NEW s \in Sessions, NatTimeout(s) PROVE IInv'
  BY <1>6 DEF NatTimeout, TableConsistent, UnusedSessionsFresh,
              DispatchHoldsBuffer
<1>7. ASSUME NEW s \in Sessions, DownstreamDeadline(s) \/ DownstreamServerClosed(s)
      PROVE IInv'
  <2>1. ExitReadLoop(s)
    BY <1>7 DEF DownstreamDeadline, DownstreamServerClosed
  <2>2. QED
    BY <2>1 DEF ExitReadLoop, TableConsistent, UnusedSessionsFresh,
                DispatchHoldsBuffer
<1>8. ASSUME NEW s \in Sessions, DownstreamTeardown(s) PROVE IInv'
  BY <1>8 DEF DownstreamTeardown, TableConsistent, UnusedSessionsFresh,
              DispatchHoldsBuffer
<1>9. CASE StopClose
  BY <1>9 DEF StopClose, TableConsistent, UnusedSessionsFresh,
              DispatchHoldsBuffer, sessionVars
<1>10. CASE StopSweep
  BY <1>10 DEF StopSweep, TableConsistent, UnusedSessionsFresh,
               DispatchHoldsBuffer
<1>11. CASE StopWait
  BY <1>11 DEF StopWait, TableConsistent, UnusedSessionsFresh,
               DispatchHoldsBuffer, sessionVars
<1>12. CASE UNCHANGED vars
  BY <1>12 DEF vars, TableConsistent, UnusedSessionsFresh, DispatchHoldsBuffer
<1>13. QED
  BY <1>1, <1>2, <1>3, <1>4, <1>5, <1>6, <1>7, <1>8, <1>9, <1>10, <1>11,
     <1>12 DEF Next

(* The pool, the table, the channels and the worker program counters keep  *)
(* their types in every reachable state of the relay.                      *)
THEOREM TypeCorrect == Spec => []TypeOK
<1>1. IInv => TypeOK
  BY DEF IInv
<1>2. QED
  BY InitIInv, NextIInv, <1>1, PTL DEF Spec

(* The session table names only live sessions, so the receive loop never   *)
(* sends on a closed channel and the downstream worker's unconditional     *)
(* delete(s.table, csid) removes its own entry.                            *)
THEOREM TableConsistency == Spec => []TableConsistent
<1>1. IInv => TableConsistent
  BY DEF IInv
<1>2. QED
  BY InitIInv, NextIInv, <1>1, PTL DEF Spec


-----------------------------------------------------------------------------
(* Refinement of SessionTable.  The mapping reads the table and the send   *)
(* channels; the teardown step maps to Close of its own csid only because  *)
(* a session whose downstream worker still runs is the one its csid's      *)
(* entry names (LiveInTable): delete(s.table, csid) is by key, not by      *)
(* session.                                                                *)

\* A session whose downstream worker has not finished owns its table entry.
LiveInTable ==
    \A s \in Created : downPc[s] \in {"read", "teardown"} => table[sessCsid[s]] = s

LEMMA InitLive == Init => LiveInTable
  BY DEF Init, LiveInTable, Created

LEMMA NextLive == IInv /\ LiveInTable /\ [Next]_vars => LiveInTable'
<1> SUFFICES ASSUME IInv, LiveInTable, [Next]_vars PROVE LiveInTable'
  OBVIOUS
<1> USE ConstantsAssumption DEF IInv, TypeOK, Sessions, NoSession, Created
<1>1. ASSUME UNCHANGED <<table, nSessions, sessCsid, downPc>>
      PROVE LiveInTable'
  BY <1>1 DEF LiveInTable
<1>2. CASE RecvDispatch
  <2>1. CASE DispatchCreate /\ recvPc' = "read"
    BY <2>1 DEF DispatchCreate, LiveInTable, TableConsistent
  <2>2. QED
    BY <1>1, <1>2, <2>1 DEF RecvDispatch, DispatchCreateFails,
       DispatchUnpackFails, DispatchHit, sessionVars
<1>3. ASSUME NEW s \in Sessions, ExitReadLoop(s) PROVE LiveInTable'
  BY <1>3 DEF ExitReadLoop, LiveInTable
<1>4. ASSUME NEW s \in Sessions, DownstreamTeardown(s) PROVE LiveInTable'
  <2>1. s \in Created /\ table[sessCsid[s]] = s
    BY <1>4 DEF DownstreamTeardown, LiveInTable, UnusedSessionsFresh
  <2>2. ASSUME NEW t \in Created', downPc'[t] \in {"read", "teardown"}
        PROVE table'[sessCsid'[t]] = t
    <3>1. t # s /\ t \in Created /\ table[sessCsid[t]] = t
      BY <1>4, <2>2 DEF DownstreamTeardown, LiveInTable
    <3>2. sessCsid[t] # sessCsid[s]
      BY <2>1, <3>1
    <3>3. QED
      BY <1>4, <3>1, <3>2 DEF DownstreamTeardown
  <2>3. QED
    BY <2>2 DEF LiveInTable
<1>5. QED
  BY <1>1, <1>2, <1>3, <1>4
  DEF Next, vars, RecvPacket, RecvClosed, UpstreamRecv, UpstreamExit,
      NatTimeout, DownstreamDeadline, DownstreamServerClosed, StopClose,
      StopSweep, StopWait, sessionVars

\* Every step of the relay is a step of SessionTable or leaves it unchanged.
LEMMA RefineStep ==
  IInv /\ LiveInTable /\ [Next]_vars => [Abstract!Next]_Abstract!vars
<1> SUFFICES ASSUME IInv, LiveInTable, [Next]_vars
             PROVE [Abstract!Next]_Abstract!vars
  OBVIOUS
<1> USE ConstantsAssumption DEF IInv, TypeOK, Sessions, NoSession, Created
<1>1. ASSUME UNCHANGED <<table, sendCh>> PROVE UNCHANGED Abstract!vars
  BY <1>1 DEF Abstract!vars, InTable, TableQueues
<1>2. CASE RecvDispatch
  <2>1. recvBuf \in Buffers /\ recvCsid \in Csid
    BY <1>2 DEF RecvDispatch, DispatchHoldsBuffer
  <2>2. CASE DispatchCreate /\ recvPc' = "read"
    <3> DEFINE c == recvCsid  n == nSessions + 1
    <3>1. c \notin InTable /\ InTable' = InTable \cup {c}
      BY <2>2 DEF DispatchCreate, InTable
    <3>2. TableQueues' = [TableQueues EXCEPT ![c] = <<recvBuf>>]
      <4>1. n \in Sessions /\ n \notin Created
        BY <2>2 DEF DispatchCreate
      <4>2. ASSUME NEW d \in Csid, d # c PROVE TableQueues'[d] = TableQueues[d]
        <5>1. table'[d] = table[d] /\ (d \in InTable' <=> d \in InTable)
          BY <2>2, <4>2 DEF DispatchCreate, InTable
        <5>2. d \in InTable => sendCh'[table[d]] = sendCh[table[d]]
          BY <2>2, <4>1 DEF DispatchCreate, InTable, TableConsistent
        <5>3. QED
          BY <5>1, <5>2 DEF TableQueues
      <4>3. TableQueues'[c] = <<recvBuf>>
        BY <2>2, <3>1, <4>1 DEF DispatchCreate, TableQueues
      <4>4. QED
        BY <4>2, <4>3 DEF TableQueues
    <3>3. Abstract!Open(c, recvBuf)
      BY <3>1, <3>2 DEF Abstract!Open
    <3>4. QED
      BY <2>1, <3>3 DEF Abstract!Next
  <2>3. CASE DispatchHit /\ ~chClosed[table[recvCsid]]
                        /\ Len(sendCh[table[recvCsid]]) < SendChannelCapacity
    <3> DEFINE c == recvCsid  s == table[recvCsid]
    <3>1. c \in InTable /\ InTable' = InTable
      BY <2>3 DEF DispatchHit, InTable
    <3>2. TableQueues' = [TableQueues EXCEPT ![c] = Append(@, recvBuf)]
      <4>1. /\ sendCh' = [sendCh EXCEPT ![s] = Append(@, recvBuf)]
            /\ table' = table /\ s \in Sessions /\ sessCsid[s] = c
        BY <2>3 DEF DispatchHit, Enqueue, TableConsistent
      <4>2. ASSUME NEW d \in Csid, d # c PROVE TableQueues'[d] = TableQueues[d]
        <5>1. d \in InTable => table[d] # s
          BY <4>1, <4>2 DEF InTable, TableConsistent
        <5>2. QED
          BY <4>1, <5>1 DEF TableQueues, InTable
      <4>3. TableQueues'[c] = Append(TableQueues[c], recvBuf)
        BY <3>1, <4>1 DEF TableQueues, InTable
      <4>4. QED
        BY <4>2, <4>3 DEF TableQueues
    <3>3. Abstract!Enqueue(c, recvBuf)
      BY <2>3, <3>1, <3>2 DEF Abstract!Enqueue, TableQueues
    <3>4. QED
      BY <2>1, <3>3 DEF Abstract!Next
  <2>4. CASE DispatchHit /\ ~(~chClosed[table[recvCsid]]
                        /\ Len(sendCh[table[recvCsid]]) < SendChannelCapacity)
    BY <1>1, <2>4 DEF DispatchHit, Enqueue, Put
  <2>5. QED
    BY <1>1, <1>2, <2>2, <2>3, <2>4 DEF RecvDispatch, DispatchCreateFails,
       DispatchUnpackFails, Put, sessionVars
<1>3. ASSUME NEW s \in Sessions, UpstreamRecv(s)
      PROVE [Abstract!Next]_Abstract!vars
  <2>1. CASE table[sessCsid[s]] = s
    <3> DEFINE c == sessCsid[s]
    <3>1. c \in InTable /\ InTable' = InTable
      BY <1>3, <2>1 DEF UpstreamRecv, InTable
    <3>2. TableQueues' = [TableQueues EXCEPT ![c] = Tail(@)]
      <4>1. /\ sendCh' = [sendCh EXCEPT ![s] = Tail(@)] /\ table' = table
        BY <1>3 DEF UpstreamRecv
      <4>2. ASSUME NEW d \in Csid, d # c PROVE TableQueues'[d] = TableQueues[d]
        <5>1. d \in InTable => table[d] # s
          BY <4>2 DEF InTable, TableConsistent
        <5>2. QED
          BY <4>1, <5>1 DEF TableQueues, InTable
      <4>3. TableQueues'[c] = Tail(TableQueues[c])
        BY <2>1, <3>1, <4>1 DEF TableQueues, InTable
      <4>4. QED
        BY <4>2, <4>3 DEF TableQueues
    <3>3. Abstract!Deliver(c)
      BY <1>3, <2>1, <3>1, <3>2 DEF Abstract!Deliver, TableQueues, UpstreamRecv
    <3>4. QED
      BY <3>3 DEF Abstract!Next
  <2>2. CASE table[sessCsid[s]] # s
    <3>1. ASSUME NEW c \in Csid, table[c] = s PROVE FALSE
      <4>1. table[c] # NoSession
        BY <3>1
      <4>2. sessCsid[s] = c
        BY <3>1, <4>1 DEF TableConsistent
      <4>3. QED
        BY <2>2, <3>1, <4>2
    <3>2. UNCHANGED Abstract!vars
      BY <1>3, <3>1 DEF UpstreamRecv, Abstract!vars, InTable, TableQueues
    <3>3. QED
      BY <3>2
  <2>3. QED
    BY <2>1, <2>2
<1>4. ASSUME NEW s \in Sessions, DownstreamTeardown(s)
      PROVE [Abstract!Next]_Abstract!vars
  <2> DEFINE c == sessCsid[s]
  <2>1. table[c] = s /\ s \in Created
    BY <1>4 DEF DownstreamTeardown, LiveInTable, UnusedSessionsFresh
  <2>2. c \in InTable /\ InTable' = InTable \ {c}
    BY <1>4, <2>1 DEF DownstreamTeardown, InTable
  <2>3. TableQueues' = [TableQueues EXCEPT ![c] = <<>>]
    <3>1. ASSUME NEW d \in Csid, d # c PROVE TableQueues'[d] = TableQueues[d]
      BY <1>4, <3>1 DEF DownstreamTeardown, InTable, TableQueues
    <3>2. TableQueues'[c] = <<>>
      BY <1>4, <2>2 DEF DownstreamTeardown, InTable, TableQueues
    <3>3. QED
      BY <3>1, <3>2 DEF TableQueues
  <2>4. Abstract!Close(c)
    BY <2>2, <2>3 DEF Abstract!Close
  <2>5. QED
    BY <2>4 DEF Abstract!Next
<1>5. QED
  BY <1>1, <1>2, <1>3, <1>4
  DEF Next, vars, RecvPacket, RecvClosed, UpstreamExit, NatTimeout,
      DownstreamDeadline, DownstreamServerClosed, ExitReadLoop, StopClose,
      StopSweep, StopWait, sessionVars

(* The relay implements the abstract session table: one session per csid, *)
(* packets queued only to a live session with room and delivered in       *)
(* order, and the teardown's delete(s.table, csid) closing exactly the    *)
(* session that ends.                                                      *)
THEOREM Refinement == Spec => ImplementsSessionTable
<1>1. Init => Abstract!Init
  BY DEF Init, Abstract!Init, InTable, TableQueues, NoSession
<1>2. QED
  BY <1>1, InitIInv, NextIInv, InitLive, NextLive, RefineStep, PTL
  DEF Spec, ImplementsSessionTable, Abstract!Spec


-----------------------------------------------------------------------------
(* TeardownOrder.  It is not inductive alone: UpstreamExit closes natConn  *)
(* on a closed, drained channel, and the proof must know that a closed     *)
(* channel means a finished downstream worker (ClosedMeansTornDown), and   *)
(* that once natConn is closed the upstream worker no longer takes packets *)
(* from the channel (ClosedConnUpDone).                                    *)

\* Only the downstream teardown closes natConnSendCh.
ClosedMeansTornDown == \A s \in Sessions : chClosed[s] => downPc[s] = "done"

\* natConn of a created session is closed only by the exiting upstream worker.
ClosedConnUpDone == \A s \in Created : ~natConnOpen[s] => upPc[s] = "done"

TInv == TeardownOrder /\ ClosedMeansTornDown /\ ClosedConnUpDone

LEMMA InitTInv == Init => TInv
  BY DEF Init, TInv, TeardownOrder, ClosedMeansTornDown, ClosedConnUpDone,
         Created

LEMMA NextTInv == IInv /\ TInv /\ [Next]_vars => TInv'
<1> SUFFICES ASSUME IInv, TInv, [Next]_vars PROVE TInv'
  OBVIOUS
<1> USE ConstantsAssumption DEF IInv, TypeOK, Sessions, NoSession, Created,
        TInv, TeardownOrder, ClosedMeansTornDown, ClosedConnUpDone
<1>1. ASSUME UNCHANGED <<nSessions, sendCh, chClosed, natConnOpen, downPc, upPc>>
      PROVE TInv'
  BY <1>1
<1>2. CASE RecvDispatch
  <2>1. CASE DispatchCreate /\ recvPc' = "read"
    <3> DEFINE n == nSessions + 1
    <3>1. n \in Sessions /\ n \notin Created /\ ~chClosed[n]
      BY <2>1 DEF DispatchCreate, UnusedSessionsFresh
    <3>2. QED
      BY <2>1, <3>1 DEF DispatchCreate
  <2>2. CASE DispatchHit
    <3> DEFINE s == table[recvCsid]
    <3>1. s \in Created /\ ~chClosed[s] /\ s # NoSession
      BY <2>2 DEF DispatchHit, TableConsistent
    <3>2. natConnOpen[s]
      BY <3>1
    <3>3. UNCHANGED <<nSessions, chClosed, natConnOpen, downPc, upPc>>
      BY <2>2 DEF DispatchHit, Enqueue, Put
    <3>4. \A t \in Sessions : t # s => sendCh'[t] = sendCh[t]
      BY <2>2 DEF DispatchHit, Enqueue, Put
    <3>5. TeardownOrder'
      <4> SUFFICES ASSUME NEW t \in Created', ~natConnOpen'[t]
                   PROVE  downPc'[t] = "done" /\ chClosed'[t] /\ sendCh'[t] = <<>>
        BY DEF TeardownOrder
      <4>1. t \in Created /\ ~natConnOpen[t] /\ t # s
        BY <3>2, <3>3
      <4>2. downPc[t] = "done" /\ chClosed[t] /\ sendCh[t] = <<>> /\ t \in Sessions
        BY <4>1
      <4>3. QED
        BY <3>3, <3>4, <4>1, <4>2
    <3>6. QED
      BY <3>3, <3>5
  <2>3. QED
    BY <1>1, <1>2, <2>1, <2>2 DEF RecvDispatch, DispatchCreateFails,
       DispatchUnpackFails, Put, sessionVars
<1>3. ASSUME NEW s \in Sessions, UpstreamRecv(s) PROVE TInv'
  <2>1. UNCHANGED <<nSessions, chClosed, natConnOpen, downPc, upPc>>
    BY <1>3 DEF UpstreamRecv
  <2>2. \A t \in Sessions : t # s => sendCh'[t] = sendCh[t]
    BY <1>3 DEF UpstreamRecv
  <2>3. s \in Created => natConnOpen[s]
    BY <1>3 DEF UpstreamRecv
  <2>4. TeardownOrder'
    <3> SUFFICES ASSUME NEW t \in Created', ~natConnOpen'[t]
                 PROVE  downPc'[t] = "done" /\ chClosed'[t] /\ sendCh'[t] = <<>>
      BY DEF TeardownOrder
    <3>1. t \in Created /\ ~natConnOpen[t]
      BY <2>1
    <3>2. t # s
      BY <2>3, <3>1
    <3>3. downPc[t] = "done" /\ chClosed[t] /\ sendCh[t] = <<>> /\ t \in Sessions
      BY <3>1
    <3>4. QED
      BY <2>1, <2>2, <3>2, <3>3
  <2>5. QED
    BY <2>1, <2>4
<1>4. ASSUME NEW s \in Sessions, UpstreamExit(s) PROVE TInv'
  <2>1. UNCHANGED <<nSessions, sendCh, chClosed, downPc>>
    BY <1>4 DEF UpstreamExit
  <2>2. natConnOpen' = [natConnOpen EXCEPT ![s] = FALSE]
        /\ upPc' = [upPc EXCEPT ![s] = "done"]
    BY <1>4 DEF UpstreamExit
  <2>3. downPc[s] = "done" /\ chClosed[s] /\ sendCh[s] = <<>>
    BY <1>4 DEF UpstreamExit
  <2>4. TeardownOrder'
    <3> SUFFICES ASSUME NEW t \in Created', ~natConnOpen'[t]
                 PROVE  downPc'[t] = "done" /\ chClosed'[t] /\ sendCh'[t] = <<>>
      BY DEF TeardownOrder
    <3>1. t \in Created
      BY <2>1
    <3>2. CASE t = s
      BY <2>1, <2>3, <3>2
    <3>3. CASE t # s
      BY <2>1, <2>2, <3>1, <3>3
    <3>4. QED
      BY <3>2, <3>3
  <2>5. ClosedConnUpDone'
    BY <2>1, <2>2
  <2>6. QED
    BY <2>1, <2>4, <2>5
<1>5. ASSUME NEW s \in Sessions, ExitReadLoop(s) PROVE TInv'
  BY <1>5 DEF ExitReadLoop
<1>6. ASSUME NEW s \in Sessions, DownstreamTeardown(s) PROVE TInv'
  BY <1>6 DEF DownstreamTeardown
<1>7. QED
  BY <1>1, <1>2, <1>3, <1>4, <1>5, <1>6
  DEF Next, vars, RecvPacket, RecvClosed, NatTimeout, DownstreamDeadline,
      DownstreamServerClosed, StopClose, StopSweep, StopWait, sessionVars

(* natConn of a session is closed only after its downstream worker has     *)
(* finished and its send channel was closed and drained, for every number  *)
(* of sessions, buffers and channel capacity (udp_session.go lines 324-338). *)
THEOREM TeardownOrdered == Spec => []TeardownOrder
<1>1. TInv => TeardownOrder
  BY DEF TInv
<1>2. QED
  BY <1>1, InitIInv, NextIInv, InitTInv, NextTInv, PTL DEF Spec


-----------------------------------------------------------------------------
(* BufferOwnedOnce.  The count of the property is replaced by facts a      *)
(* prover can carry from step to step: each buffer is free, held by the    *)
(* receive loop or queued (exactly one of the three), no two queue slots   *)
(* hold the same buffer, the receive loop holds a buffer only while it     *)
(* dispatches, and a session number not yet handed out has an empty       *)
(* channel.  Cardinality(Holders(b)) is then 0 or 1 by the finite-set      *)
(* lemmas on the empty set and singletons.                                 *)

\* Buffer b is queued in some channel of ch (a value of sendCh).
QueuedIn(ch, b) == \E s \in Sessions : \E i \in 1..Len(ch[s]) : ch[s][i] = b

\* No buffer is queued twice in ch, in one channel or in two.
OnceIn(ch) ==
    \A s, t \in Sessions :
        \A i \in 1..Len(ch[s]), j \in 1..Len(ch[t]) :
            ch[s][i] = ch[t][j] => s = t /\ i = j

Queued(b) == QueuedIn(sendCh, b)

\* Each buffer is in exactly one place.
OnePlace ==
    \A b \in Buffers :
        \/ pool[b] = 1 /\ recvBuf # b /\ ~Queued(b)
        \/ pool[b] = 0 /\ recvBuf = b /\ ~Queued(b)
        \/ pool[b] = 0 /\ recvBuf # b /\ Queued(b)

QueuedOnce == OnceIn(sendCh)

\* The receive loop holds a buffer only between read and dispatch.
HoldsOnlyWhileDispatching == recvPc # "dispatch" => recvBuf = NoBuffer

\* A session number not handed out yet has nothing queued.
UnusedChannelsEmpty == \A s \in Sessions \ Created : sendCh[s] = <<>>

BInv == OnePlace /\ QueuedOnce /\ HoldsOnlyWhileDispatching /\ UnusedChannelsEmpty


\* Queueing b in one channel adds exactly b to the queued buffers.
LEMMA QueuedAppend ==
  ASSUME NEW ch \in [Sessions -> Seq(Buffers)], NEW s \in Sessions,
         NEW b \in Buffers, NEW x
  PROVE  QueuedIn([ch EXCEPT ![s] = Append(@, b)], x) <=> QueuedIn(ch, x) \/ x = b
<1> DEFINE ch2 == [ch EXCEPT ![s] = Append(@, b)]
<1>1. /\ ch2[s] = Append(ch[s], b) /\ Len(ch2[s]) = Len(ch[s]) + 1
      /\ \A t \in Sessions \ {s} : ch2[t] = ch[t]
  OBVIOUS
<1>2. \A i \in 1..Len(ch[s]) : ch2[s][i] = ch[s][i]
  BY <1>1
<1>3. ch2[s][Len(ch[s]) + 1] = b
  BY <1>1
<1>4. QueuedIn(ch2, x) => QueuedIn(ch, x) \/ x = b
  BY <1>1, <1>2, <1>3 DEF QueuedIn
<1>5. QueuedIn(ch, x) \/ x = b => QueuedIn(ch2, x)
  <2>1. CASE x = b
    BY <1>1, <1>3, <2>1 DEF QueuedIn
  <2>2. CASE QueuedIn(ch, x)
    <3>1. PICK t \in Sessions : \E i \in 1..Len(ch[t]) : ch[t][i] = x
      BY <2>2 DEF QueuedIn
    <3>2. PICK i \in 1..Len(ch[t]) : ch[t][i] = x
      BY <3>1
    <3>3. i \in 1..Len(ch2[t]) /\ ch2[t][i] = x
      BY <1>1, <1>2, <3>2
    <3>4. QED
      BY <3>3 DEF QueuedIn
  <2>3. QED
    BY <2>1, <2>2
<1>6. QED
  BY <1>4, <1>5

\* Queueing a buffer that is not queued keeps every buffer queued at most once.
LEMMA OnceAppend ==
  ASSUME NEW ch \in [Sessions -> Seq(Buffers)], NEW s \in Sessions,
         NEW b \in Buffers, OnceIn(ch), ~QueuedIn(ch, b)
  PROVE  OnceIn([ch EXCEPT ![s] = Append(@, b)])
<1> DEFINE ch2 == [ch EXCEPT ![s] = Append(@, b)]
<1>1. /\ ch2[s] = Append(ch[s], b) /\ Len(ch2[s]) = Len(ch[s]) + 1
      /\ \A t \in Sessions \ {s} : ch2[t] = ch[t]
      /\ \A i \in 1..Len(ch[s]) : ch2[s][i] = ch[s][i]
      /\ ch2[s][Len(ch[s]) + 1] = b
  OBVIOUS
<1>2. \A t \in Sessions : \A i \in 1..Len(ch2[t]) :
        \/ i \in 1..Len(ch[t]) /\ ch2[t][i] = ch[t][i]
        \/ t = s /\ i = Len(ch[s]) + 1 /\ ch2[t][i] = b
  BY <1>1
<1>3. \A t \in Sessions : \A i \in 1..Len(ch[t]) : ch[t][i] # b
  BY DEF QueuedIn
<1>4. QED
  BY <1>2, <1>3 DEF OnceIn

\* Taking the head of a channel removes exactly the head from the queued
\* buffers, since it was queued only there.
LEMMA QueuedTail ==
  ASSUME NEW ch \in [Sessions -> Seq(Buffers)], NEW s \in Sessions,
         ch[s] # << >>, OnceIn(ch), NEW x
  PROVE  QueuedIn([ch EXCEPT ![s] = Tail(@)], x)
           <=> QueuedIn(ch, x) /\ x # Head(ch[s])
<1> DEFINE ch2 == [ch EXCEPT ![s] = Tail(@)]
<1>1. /\ Len(ch2[s]) = Len(ch[s]) - 1
      /\ \A i \in 1..Len(ch2[s]) : ch2[s][i] = ch[s][i + 1]
      /\ \A t \in Sessions \ {s} : ch2[t] = ch[t]
      /\ Head(ch[s]) = ch[s][1] /\ Len(ch[s]) >= 1
  OBVIOUS
<1>2. QueuedIn(ch2, x) => QueuedIn(ch, x) /\ x # Head(ch[s])
  <2> SUFFICES ASSUME NEW t \in Sessions, NEW i \in 1..Len(ch2[t]), ch2[t][i] = x
               PROVE  QueuedIn(ch, x) /\ x # Head(ch[s])
    BY DEF QueuedIn
  <2>1. CASE t = s
    <3>1. i + 1 \in 1..Len(ch[s]) /\ ch[s][i + 1] = x
      BY <1>1, <2>1
    <3>2. ch[s][1] # x
      BY <1>1, <3>1 DEF OnceIn
    <3>3. QED
      BY <1>1, <3>1, <3>2 DEF QueuedIn
  <2>2. CASE t # s
    <3>1. i \in 1..Len(ch[t]) /\ ch[t][i] = x
      BY <1>1, <2>2
    <3>2. ch[s][1] # x
      BY <1>1, <2>2, <3>1 DEF OnceIn
    <3>3. QED
      BY <1>1, <3>1, <3>2 DEF QueuedIn
  <2>3. QED
    BY <2>1, <2>2
<1>3. QueuedIn(ch, x) /\ x # Head(ch[s]) => QueuedIn(ch2, x)
  <2> SUFFICES ASSUME NEW t \in Sessions, NEW i \in 1..Len(ch[t]), ch[t][i] = x,
                      x # Head(ch[s])
               PROVE  QueuedIn(ch2, x)
    BY DEF QueuedIn
  <2>1. CASE t = s
    <3>1. i # 1 /\ i - 1 \in 1..Len(ch2[s]) /\ ch2[s][i - 1] = x
      BY <1>1, <2>1
    <3>2. QED
      BY <3>1 DEF QueuedIn
  <2>2. CASE t # s
    BY <1>1, <2>2 DEF QueuedIn
  <2>3. QED
    BY <2>1, <2>2
<1>4. QED
  BY <1>2, <1>3

\* Taking the head of a channel keeps every buffer queued at most once.
LEMMA OnceTail ==
  ASSUME NEW ch \in [Sessions -> Seq(Buffers)], NEW s \in Sessions,
         ch[s] # << >>, OnceIn(ch)
  PROVE  OnceIn([ch EXCEPT ![s] = Tail(@)])
<1> DEFINE ch2 == [ch EXCEPT ![s] = Tail(@)]
<1>1. \A t \in Sessions : \A i \in 1..Len(ch2[t]) :
        \/ t = s /\ i + 1 \in 1..Len(ch[s]) /\ ch2[t][i] = ch[s][i + 1]
        \/ t # s /\ i \in 1..Len(ch[t]) /\ ch2[t][i] = ch[t][i]
  OBVIOUS
<1>2. QED
  BY <1>1 DEF OnceIn


\* The count of BufferOwnedOnce follows: Holders(b) is empty or one slot.
LEMMA OwnedOnceFromPlaces == TypeOK /\ OnePlace /\ QueuedOnce => BufferOwnedOnce
<1> SUFFICES ASSUME TypeOK, OnePlace, QueuedOnce, NEW b \in Buffers
             PROVE  pool[b] + (IF recvBuf = b THEN 1 ELSE 0)
                      + Cardinality(Holders(b)) = 1
  BY DEF BufferOwnedOnce
<1>1. \A s \in Sessions : DOMAIN sendCh[s] = 1..Len(sendCh[s])
  BY DEF TypeOK
<1>2. CASE ~Queued(b)
  <2>1. Holders(b) = {}
    BY <1>1, <1>2 DEF Holders, Queued, QueuedIn
  <2>2. Cardinality(Holders(b)) = 0
    BY <2>1, FS_EmptySet
  <2>3. QED
    BY <1>2, <2>2 DEF OnePlace
<1>3. CASE Queued(b)
  <2>1. PICK s \in Sessions : \E i \in 1..Len(sendCh[s]) : sendCh[s][i] = b
    BY <1>3 DEF Queued, QueuedIn
  <2>2. PICK i \in 1..Len(sendCh[s]) : sendCh[s][i] = b
    BY <2>1
  <2>3. Holders(b) = {<<s, i>>}
    BY <1>1, <2>2 DEF Holders, QueuedOnce, OnceIn
  <2>4. Cardinality(Holders(b)) = 1
    BY <2>3, FS_Singleton
  <2>5. QED
    BY <1>3, <2>4 DEF OnePlace, TypeOK
<1>4. QED
  BY <1>2, <1>3


LEMMA InitBInv == Init => BInv
  BY ConstantsAssumption
  DEF Init, Sessions, Created, BInv, OnePlace, Queued, QueuedIn, QueuedOnce, OnceIn,
         HoldsOnlyWhileDispatching, UnusedChannelsEmpty

LEMMA NextBInv == IInv /\ BInv /\ [Next]_vars => BInv'
<1> SUFFICES ASSUME IInv, BInv, [Next]_vars PROVE BInv'
  OBVIOUS
<1> USE ConstantsAssumption DEF IInv, TypeOK, Sessions, NoSession, Created,
        BInv, HoldsOnlyWhileDispatching, UnusedChannelsEmpty
<1>1. ASSUME UNCHANGED <<pool, recvPc, recvBuf, nSessions, sendCh>>
      PROVE BInv'
  BY <1>1 DEF OnePlace, Queued, QueuedOnce
<1>2. CASE RecvPacket
  <2>1. PICK b \in Buffers : pool[b] > 0 /\ pool' = [pool EXCEPT ![b] = @ - 1]
                             /\ recvBuf' = b
    BY <1>2 DEF RecvPacket
  <2>2. recvBuf = NoBuffer /\ UNCHANGED sendCh
    BY <1>2 DEF RecvPacket, sessionVars
  <2>3. OnePlace'
    BY <2>1, <2>2 DEF OnePlace, Queued
  <2>4. QED
    BY <1>2, <2>2, <2>3 DEF RecvPacket, QueuedOnce
(* One step of the receive loop's dispatch: recvBuf, held until now, goes  *)
(* back to the pool or into exactly one channel.                           *)
<1>3. CASE RecvDispatch
  <2> DEFINE b == recvBuf
  <2>1. b \in Buffers /\ recvBuf' = NoBuffer /\ pool[b] = 0 /\ ~Queued(b)
    BY <1>3 DEF RecvDispatch, DispatchHoldsBuffer, OnePlace
  <2>2. ASSUME pool' = [pool EXCEPT ![b] = @ + 1], UNCHANGED <<nSessions, sendCh>>
        PROVE BInv'
    <3>1. OnePlace'
      BY <2>1, <2>2 DEF OnePlace, Queued
    <3>2. QED
      BY <2>1, <2>2, <3>1 DEF QueuedOnce
  <2>3. ASSUME UNCHANGED pool, NEW s \in Sessions,
               sendCh' = [sendCh EXCEPT ![s] = Append(@, b)],
               nSessions' \in {nSessions, nSessions + 1},
               s \notin Created => nSessions' = nSessions + 1 /\ s = nSessions + 1
        PROVE BInv'
    <3>1. \A x : Queued(x)' <=> Queued(x) \/ x = b
      BY <2>1, <2>3, QueuedAppend DEF Queued
    <3>2. QueuedOnce'
      BY <2>1, <2>3, OnceAppend DEF QueuedOnce, Queued
    <3>3. OnePlace'
      BY <2>1, <2>3, <3>1 DEF OnePlace
    <3>4. UnusedChannelsEmpty'
      <4> SUFFICES ASSUME NEW t \in Sessions, t \notin 1..nSessions'
                   PROVE  sendCh'[t] = << >>
        OBVIOUS
      <4>1. t # s /\ t \notin 1..nSessions
        BY <2>3
      <4>2. QED
        BY <2>3, <4>1
    <3>5. QED
      BY <1>3, <2>1, <3>2, <3>3, <3>4 DEF RecvDispatch
  <2>4. CASE DispatchCreateFails \/ DispatchUnpackFails
    BY <2>2, <2>4 DEF DispatchCreateFails, DispatchUnpackFails, Put, sessionVars
  <2>5. CASE DispatchCreate /\ recvPc' = "read"
    <3> DEFINE n == nSessions + 1
    <3>1. n \in Sessions /\ n \notin Created /\ sendCh[n] = << >>
      BY <2>5 DEF DispatchCreate
    <3>2. sendCh' = [sendCh EXCEPT ![n] = Append(@, b)]
      BY <2>5, <3>1 DEF DispatchCreate
    <3>3. QED
      BY <2>3, <2>5, <3>1, <3>2 DEF DispatchCreate
  <2>6. CASE DispatchHit
    <3> DEFINE s == table[recvCsid]
    <3>1. s \in Created /\ ~chClosed[s]
      BY <2>6 DEF DispatchHit, TableConsistent
    <3>2. CASE Len(sendCh[s]) < SendChannelCapacity
      BY <2>3, <2>6, <3>1, <3>2 DEF DispatchHit, Enqueue
    <3>3. CASE ~(Len(sendCh[s]) < SendChannelCapacity)
      BY <2>2, <2>6, <3>1, <3>3 DEF DispatchHit, Enqueue, Put
    <3>4. QED
      BY <3>2, <3>3
  <2>7. QED
    BY <1>3, <2>4, <2>5, <2>6 DEF RecvDispatch
(* The upstream worker takes the head of its channel and puts it back.     *)
<1>4. ASSUME NEW s \in Sessions, UpstreamRecv(s) PROVE BInv'
  <2> DEFINE h == Head(sendCh[s])
  <2>1. sendCh[s] # << >> /\ s \in Created /\ h \in Buffers /\ Queued(h)
    <3>1. sendCh[s] # << >> /\ s \in Created
      BY <1>4 DEF UpstreamRecv
    <3>2. h = sendCh[s][1] /\ 1 \in 1..Len(sendCh[s])
      BY <3>1
    <3>3. QED
      BY <3>1, <3>2 DEF Queued, QueuedIn
  <2>2. /\ sendCh' = [sendCh EXCEPT ![s] = Tail(@)]
        /\ pool' = [pool EXCEPT ![h] = @ + 1]
        /\ UNCHANGED <<recvPc, recvBuf, nSessions>>
    BY <1>4 DEF UpstreamRecv, Put
  <2>3. \A x : Queued(x)' <=> Queued(x) /\ x # h
    BY <2>1, <2>2, QueuedTail DEF Queued, QueuedOnce
  <2>4. QueuedOnce'
    BY <2>1, <2>2, OnceTail DEF QueuedOnce
  <2>5. pool[h] = 0 /\ recvBuf # h
    BY <2>1 DEF OnePlace
  <2>6. OnePlace'
    BY <2>1, <2>2, <2>3, <2>5 DEF OnePlace
  <2>7. QED
    BY <2>1, <2>2, <2>4, <2>6
<1>5. CASE RecvClosed
  BY <1>5 DEF RecvClosed, OnePlace, Queued, QueuedOnce, sessionVars
<1>6. QED
  BY <1>1, <1>2, <1>3, <1>4, <1>5
  DEF Next, vars, UpstreamExit, NatTimeout, DownstreamDeadline,
      DownstreamServerClosed, ExitReadLoop, DownstreamTeardown, StopClose,
      StopSweep, StopWait, sessionVars

(* Spec section 3, packet buffer pool: every pool buffer is, at every     *)
(* moment, in exactly one place (free, held by the receive loop, or in one *)
(* slot of one send channel), for every number of buffers, sessions and   *)
(* channel capacity: no drop path of the dispatch leaks a buffer or puts  *)
(* it back twice.                                                          *)
THEOREM BuffersOwnedOnce == Spec => []BufferOwnedOnce
<1>1. IInv /\ BInv => BufferOwnedOnce
  BY OwnedOnceFromPlaces DEF IInv, BInv
<1>2. QED
  BY <1>1, InitIInv, NextIInv, InitBInv, NextBInv, PTL DEF Spec

=============================================================================
