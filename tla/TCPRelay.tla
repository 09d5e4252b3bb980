------------------------------- MODULE TCPRelay -------------------------------
(***************************************************************************)
(* The TCP relay service of src/service/tcp.go with the server framings   *)
(* and outbound clients of src/direct/tcp.go.                              *)
(*                                                                         *)
(* An accept loop hands every accepted connection to a handleConn          *)
(* goroutine: handshake (server Accept), route, an optional short wait     *)
(* for the client's first bytes, dial (carrying them as initial payload),  *)
(* then a two-way relay.  Stop closes the listener.                        *)
(*                                                                         *)
(* What a client sends after the handshake is the sequence Data of chunks. *)
(* The model follows where those bytes go: read[c] counts the chunks the   *)
(* relay has taken from client connection c, remote[c] is what the       *)
(* outbound connection has been given.  Zeros stands for a run of zero     *)
(* bytes that the client never sent.                                       *)
(***************************************************************************)
EXTENDS Naturals, Sequences

CONSTANTS
    Conns,          \* connection slots: each is accepted at most once
    Chunks,         \* pieces of client data
    Data,           \* what every client sends after its handshake
    Zeros,          \* zero-filled bytes of a fresh buffer
    Framing,        \* the server framing: "direct", "ssnone", "socks5", "ss2022"
    ClientKinds,    \* the outbound clients the router may choose
    WaitForInitialPayload   \* the relay's waitForInitialPayload option

ASSUME ConstantsAssumption ==
    /\ Data \in Seq(Chunks) /\ Data # <<>>
    /\ Zeros \notin Chunks
    /\ Framing \in {"direct", "ssnone", "socks5", "ss2022"}
    /\ ClientKinds \subseteq {"direct", "direct_notfo", "ssnone", "socks5"}
    /\ ClientKinds # {}
    /\ WaitForInitialPayload \in BOOLEAN

(* The results server.Accept can return for the framing (direct/tcp.go).   *)
(* "payload" is a handshake that also surfaced the client's first bytes:   *)
(* no framing of src/ does that; the Shadowsocks 2022 server of the spec   *)
(* does.  A SOCKS5 UDP ASSOCIATE yields "hold"; ErrAcceptDoneNoRelay is    *)
(* not ErrUDPAssociateHold, so handleConn treats it as an "error".         *)
AcceptResults ==
    CASE Framing = "direct" -> {"ok"}
      [] Framing = "ssnone" -> {"ok", "error"}
      [] Framing = "socks5" -> {"ok", "hold", "error"}
      [] Framing = "ss2022" -> {"ok", "payload", "error"}

\* NativeInitialPayload of an outbound client (TCPClient.Info and friends).
NativeInitialPayload(k) == k \in {"direct", "ssnone"}

VARIABLES
    lnOpen,     \* the listener is open
    acceptPc,   \* accept loop: "accepting", "exited"
    pc,         \* handleConn of each slot
    read,       \* chunks of Data taken from the client connection
    payload,    \* the initial payload handed to Dial
    remote      \* what the outbound connection received

vars == <<lnOpen, acceptPc, pc, read, payload, remote>>

connVars == <<pc, read, payload, remote>>

Stages == {"idle", "handshake", "hold", "route", "wait", "dial", "relay", "done"}

-----------------------------------------------------------------------------
\* After Start: the listener is open and no connection was accepted.
Init ==
    /\ lnOpen = TRUE
    /\ acceptPc = "accepting"
    /\ pc = [c \in Conns |-> "idle"]
    /\ read = [c \in Conns |-> 0]
    /\ payload = [c \in Conns |-> <<>>]
    /\ remote = [c \in Conns |-> <<>>]

\* Accept loop, lines 77-90: a connection is accepted and handled.
AcceptConn(c) ==
    /\ acceptPc = "accepting"
    /\ lnOpen
    /\ pc[c] = "idle"
    /\ pc' = [pc EXCEPT ![c] = "handshake"]
    /\ UNCHANGED <<lnOpen, acceptPc, read, payload, remote>>

\* Accept loop, lines 77-81: AcceptTCP fails with net.ErrClosed and the
\* goroutine returns.
AcceptLoopExits ==
    /\ acceptPc = "accepting"
    /\ ~lnOpen
    /\ acceptPc' = "exited"
    /\ UNCHANGED <<lnOpen, connVars>>

\* Stop, lines 283-288: close the listener; handlers are left running.
Stop ==
    /\ lnOpen
    /\ lnOpen' = FALSE
    /\ UNCHANGED <<acceptPc, connVars>>

\* The handler of c moves to stage s.
Goto(c, s) == pc' = [pc EXCEPT ![c] = s]

(* Lines 108-157: parse the client address, then server.Accept.  A        *)
(* handshake that surfaced payload has taken the first chunk from the      *)
(* client; a handshake error runs connCloser.Do and returns, as does a     *)
(* client address that does not parse.                                     *)
Handshake(c) ==
    /\ pc[c] = "handshake"
    /\ \E r \in AcceptResults :
        \/ /\ r = "ok"
           /\ Goto(c, "route")
           /\ UNCHANGED <<read, payload>>
        \/ /\ r = "payload"
           /\ read' = [read EXCEPT ![c] = 1]
           /\ payload' = [payload EXCEPT ![c] = <<Data[1]>>]
           /\ Goto(c, "route")
        \/ /\ r = "hold"
           /\ Goto(c, "hold")
           /\ UNCHANGED <<read, payload>>
        \/ /\ r = "error"
           /\ Goto(c, "done")
           /\ UNCHANGED <<read, payload>>
    /\ UNCHANGED <<lnOpen, acceptPc, remote>>

\* Lines 141-145: the connection of a UDP association is held until the
\* client sends a byte or closes it; then the handler returns.
HoldEnds(c) ==
    /\ pc[c] = "hold"
    /\ Goto(c, "done")
    /\ UNCHANGED <<lnOpen, acceptPc, read, payload, remote>>

(* Lines 159-176: the router picks a client, or fails and the handler      *)
(* returns.  The handler waits for initial payload when the option is on   *)
(* and the client supports it natively.                                    *)
Route(c) ==
    /\ pc[c] = "route"
    /\ \/ Goto(c, "done")
       \/ \E k \in ClientKinds :
           Goto(c, IF WaitForInitialPayload /\ NativeInitialPayload(k)
                   THEN "wait" ELSE "dial")
    /\ UNCHANGED <<lnOpen, acceptPc, read, payload, remote>>

(* Lines 177-239: payload becomes a fresh zeroed buffer; with a 250 ms     *)
(* deadline one ReadZeroCopy either reads the next chunk (payload is cut   *)
(* to it) or times out (payload stays the whole buffer) or fails (return). *)
(* Setting or clearing the deadline may fail too (return).                 *)
WaitInitialPayload(c) ==
    /\ pc[c] = "wait"
    /\ \/ /\ read[c] < Len(Data)
          /\ read' = [read EXCEPT ![c] = @ + 1]
          /\ payload' = [payload EXCEPT ![c] = <<Data[read[c] + 1]>>]
          /\ \E ok \in BOOLEAN : Goto(c, IF ok THEN "dial" ELSE "done")
       \/ /\ payload' = [payload EXCEPT ![c] = <<Zeros>>]
          /\ \E ok \in BOOLEAN : Goto(c, IF ok THEN "dial" ELSE "done")
          /\ UNCHANGED read
       \/ /\ Goto(c, "done")
          /\ UNCHANGED <<read, payload>>
    /\ UNCHANGED <<lnOpen, acceptPc, remote>>

\* Defect variant of Dial: the outbound connection is opened but the
\* initial payload is not written.
DialDropsPayload(c) ==
    /\ pc[c] = "dial"
    /\ \/ Goto(c, "done") /\ UNCHANGED remote
       \/ Goto(c, "relay") /\ UNCHANGED remote
    /\ UNCHANGED <<lnOpen, acceptPc, read, payload>>

(* Lines 242-255 and the clients' Dial: the outbound connection is opened *)
(* with the initial payload (in the TFO SYN, after the Shadowsocks none    *)
(* header, or written after the SOCKS5 handshake), or the dial, the        *)
(* handshake or the write fails and the handler returns.                   *)
Dial(c) ==
    /\ pc[c] = "dial"
    /\ \/ Goto(c, "done") /\ UNCHANGED remote
       \/ /\ remote' = [remote EXCEPT ![c] = payload[c]]
          /\ Goto(c, "relay")
    /\ UNCHANGED <<lnOpen, acceptPc, read, payload>>

\* zerocopy.TwoWayRelay copies the next chunk from the client to the remote.
RelayCopy(c) ==
    /\ pc[c] = "relay"
    /\ read[c] < Len(Data)
    /\ read' = [read EXCEPT ![c] = @ + 1]
    /\ remote' = [remote EXCEPT ![c] = Append(@, Data[read[c] + 1])]
    /\ UNCHANGED <<lnOpen, acceptPc, pc, payload>>

\* Lines 258-279: the relay ends (EOF or an error on either side); the
\* deferred closes of remoteConn and clientConn run.
RelayEnds(c) ==
    /\ pc[c] = "relay"
    /\ Goto(c, "done")
    /\ UNCHANGED <<lnOpen, acceptPc, read, payload, remote>>

Next ==
    \/ \E c \in Conns :
        \/ AcceptConn(c) \/ Handshake(c) \/ HoldEnds(c) \/ Route(c)
        \/ WaitInitialPayload(c) \/ Dial(c) \/ RelayCopy(c) \/ RelayEnds(c)
    \/ AcceptLoopExits
    \/ Stop

(* Only safety is checked of the TCP relay: connections, handshakes and    *)
(* relays depend on peers, so no fairness is assumed.                      *)
Spec == Init /\ [][Next]_vars

-----------------------------------------------------------------------------
TypeOK ==
    /\ lnOpen \in BOOLEAN
    /\ acceptPc \in {"accepting", "exited"}
    /\ pc \in [Conns -> Stages]
    /\ read \in [Conns -> 0..Len(Data)]
    /\ payload \in [Conns -> Seq(Chunks \cup {Zeros})]
    /\ remote \in [Conns -> Seq(Chunks \cup {Zeros})]

(* The client's bytes in what the remote received: without the zero-filled *)
(* buffer that Dial sends first when the initial-payload wait timed out.    *)
(* Zero fill anywhere else is not stripped, so it shows as a lost byte.     *)
ClientBytes(s) == IF s # <<>> /\ Head(s) = Zeros THEN Tail(s) ELSE s

(* Spec, TCP data flow: bytes already read from the client (by the         *)
(* handshake, the initial-payload wait or the relay) all reach the remote, *)
(* in order, once the relay runs: none is dropped between Accept, the      *)
(* wait and Dial.                                                          *)
NoBytesLost ==
    \A c \in Conns :
        pc[c] = "relay" => ClientBytes(remote[c]) = SubSeq(Data, 1, read[c])

(* Spec section 4 step 4: on a wait timeout the relay proceeds with an     *)
(* empty payload, so the remote receives exactly a prefix of the client's  *)
(* stream and no byte the client did not send.                             *)
RemoteSeesClientStream ==
    \A c \in Conns : remote[c] = SubSeq(Data, 1, Len(remote[c]))

=============================================================================
