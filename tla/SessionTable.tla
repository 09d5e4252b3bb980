----------------------------- MODULE SessionTable -----------------------------
(***************************************************************************)
(* What the UDP relay's session table promises (spec section 3, "Session  *)
(* table", and 4.4): at most one live session per client session id, each  *)
(* with a FIFO of packets bounded by the channel capacity.  A packet is    *)
(* queued only to a live session with room, leaves its queue in order, and *)
(* a session that ends leaves the table with whatever it still queues.     *)
(***************************************************************************)
EXTENDS Naturals, Sequences

CONSTANTS Csid, Buffers, Capacity

VARIABLES
    live,   \* client session ids with a session in the table
    queue   \* the packets queued to the session of each live id

vars == <<live, queue>>

Init ==
    /\ live = {}
    /\ queue = [c \in Csid |-> <<>>]

\* A session is created for c with the packet b that caused it.
Open(c, b) ==
    /\ c \notin live
    /\ live' = live \cup {c}
    /\ queue' = [queue EXCEPT ![c] = <<b>>]

\* Packet b is queued to the live session of c.
Enqueue(c, b) ==
    /\ c \in live
    /\ Len(queue[c]) < Capacity
    /\ queue' = [queue EXCEPT ![c] = Append(@, b)]
    /\ UNCHANGED live

\* The oldest packet of c's session is sent on.
Deliver(c) ==
    /\ c \in live
    /\ queue[c] # <<>>
    /\ queue' = [queue EXCEPT ![c] = Tail(@)]
    /\ UNCHANGED live

\* The session of c leaves the table.
Close(c) ==
    /\ c \in live
    /\ live' = live \ {c}
    /\ queue' = [queue EXCEPT ![c] = <<>>]

Next ==
    \E c \in Csid :
        \/ \E b \in Buffers : Open(c, b) \/ Enqueue(c, b)
        \/ Deliver(c)
        \/ Close(c)

Spec == Init /\ [][Next]_vars
=============================================================================
