---------------------------- MODULE TCPRelayProofs ----------------------------
(***************************************************************************)
(* Type correctness of TCPRelay for every set of connections, every client *)
(* stream, framing and option.  TypeOK is inductive by itself: every       *)
(* chunk the handlers take is guarded by read[c] < Len(Data).              *)
(***************************************************************************)
EXTENDS TCPRelay, SequenceTheorems, TLAPS

\* Every element of Data is a chunk and Data has a first element.
LEMMA DataFacts ==
    /\ Len(Data) \in Nat \ {0}
    /\ \A i \in 1..Len(Data) : Data[i] \in Chunks
  BY ConstantsAssumption

LEMMA InitTypeOK == Init => TypeOK
  BY DEF Init, TypeOK, Stages

LEMMA NextTypeOK == TypeOK /\ [Next]_vars => TypeOK'
<1> SUFFICES ASSUME TypeOK, [Next]_vars PROVE TypeOK'
  OBVIOUS
<1> USE DataFacts DEF TypeOK, Stages, Goto
<1>1. ASSUME NEW c \in Conns, AcceptConn(c) PROVE TypeOK'
  BY <1>1 DEF AcceptConn
<1>2. ASSUME NEW c \in Conns, Handshake(c) PROVE TypeOK'
  <2>1. PICK r \in AcceptResults :
          \/ r = "ok" /\ Goto(c, "route") /\ UNCHANGED <<read, payload>>
          \/ /\ r = "payload"
             /\ read' = [read EXCEPT ![c] = 1]
             /\ payload' = [payload EXCEPT ![c] = <<Data[1]>>]
             /\ Goto(c, "route")
          \/ r = "hold" /\ Goto(c, "hold") /\ UNCHANGED <<read, payload>>
          \/ r = "error" /\ Goto(c, "done") /\ UNCHANGED <<read, payload>>
    BY <1>2 DEF Handshake
  <2>2. UNCHANGED <<lnOpen, acceptPc, remote>>
    BY <1>2 DEF Handshake
  <2>3. <<Data[1]>> \in Seq(Chunks \cup {Zeros}) /\ 1 \in 0..Len(Data)
    OBVIOUS
  <2>4. QED
    BY <2>1, <2>2, <2>3
<1>3. ASSUME NEW c \in Conns, HoldEnds(c) PROVE TypeOK'
  BY <1>3 DEF HoldEnds
<1>4. ASSUME NEW c \in Conns, Route(c) PROVE TypeOK'
  BY <1>4 DEF Route
<1>5. ASSUME NEW c \in Conns, WaitInitialPayload(c) PROVE TypeOK'
  <2>1. UNCHANGED <<lnOpen, acceptPc, remote>> /\ pc' \in [Conns -> Stages]
    BY <1>5 DEF WaitInitialPayload
  <2>2. CASE read[c] < Len(Data)
             /\ read' = [read EXCEPT ![c] = @ + 1]
             /\ payload' = [payload EXCEPT ![c] = <<Data[read[c] + 1]>>]
    <3>1. read[c] + 1 \in 1..Len(Data)
      BY <2>2
    <3>2. <<Data[read[c] + 1]>> \in Seq(Chunks \cup {Zeros})
      BY <3>1
    <3>3. QED
      BY <2>1, <2>2, <3>1, <3>2
  <2>3. CASE payload' = [payload EXCEPT ![c] = <<Zeros>>] /\ UNCHANGED read
    BY <2>1, <2>3
  <2>4. CASE UNCHANGED <<read, payload>>
    BY <2>1, <2>4
  <2>5. QED
    BY <1>5, <2>2, <2>3, <2>4 DEF WaitInitialPayload
<1>6. ASSUME NEW c \in Conns, Dial(c) PROVE TypeOK'
  BY <1>6 DEF Dial
<1>7. ASSUME NEW c \in Conns, RelayCopy(c) PROVE TypeOK'
  <2>1. read[c] + 1 \in 1..Len(Data)
    BY <1>7 DEF RelayCopy
  <2>2. QED
    BY <1>7, <2>1 DEF RelayCopy
<1>8. ASSUME NEW c \in Conns, RelayEnds(c) PROVE TypeOK'
  BY <1>8 DEF RelayEnds
<1>9. CASE AcceptLoopExits \/ Stop
  BY <1>9 DEF AcceptLoopExits, Stop, connVars
<1>10. CASE UNCHANGED vars
  BY <1>10 DEF vars
<1>11. QED
  BY <1>1, <1>2, <1>3, <1>4, <1>5, <1>6, <1>7, <1>8, <1>9, <1>10 DEF Next

(* The relay's handler state stays well formed: every handler is at one   *)
(* of the stages of handleConn, it never counts more client chunks than    *)
(* the client sent, and payload and remote only hold client chunks and     *)
(* zero fill.                                                              *)
THEOREM TCPTypeCorrect == Spec => []TypeOK
  BY InitTypeOK, NextTypeOK, PTL DEF Spec

-----------------------------------------------------------------------------
(* NoBytesLost.  It is not inductive alone: Dial copies payload into the   *)
(* remote, so the proof must know the form of payload at the dial stage,   *)
(* and the wait overwrites payload, so it must know that nothing was read  *)
(* before the wait.  That needs the hypothesis NoPayloadOverwrite: a       *)
(* handshake that surfaces payload (ss2022) is never followed by the wait. *)

NoPayloadOverwrite == ~(Framing = "ss2022" /\ WaitForInitialPayload)

\* s is the first n client chunks, after at most one zero fill.
StreamForm(s, n) ==
    \/ s = SubSeq(Data, 1, n)
    \/ s = <<Zeros>> \o SubSeq(Data, 1, n)

\* What each stage of handleConn holds of the client's stream.
StageOK(c) ==
    /\ pc[c] \in {"idle", "handshake"} => read[c] = 0 /\ payload[c] = <<>>
    /\ pc[c] = "route" => /\ StreamForm(payload[c], read[c])
                         /\ (WaitForInitialPayload => read[c] = 0)
    /\ pc[c] = "wait" => read[c] = 0
    /\ pc[c] = "dial" => StreamForm(payload[c], read[c])
    /\ pc[c] = "relay" => StreamForm(remote[c], read[c])

StageStreams == \A c \in Conns : StageOK(c)

\* Taking one more chunk extends the prefix of the client's stream.
LEMMA PrefixStep ==
    ASSUME NEW n \in 0..(Len(Data) - 1)
    PROVE  Append(SubSeq(Data, 1, n), Data[n + 1]) = SubSeq(Data, 1, n + 1)
<1>1. Data \in Seq(Chunks)
  BY ConstantsAssumption
<1>2. QED
  BY <1>1, SubSeqProperties, AppendProperties, SeqEqual

LEMMA StreamStep ==
    ASSUME NEW s, NEW n \in 0..(Len(Data) - 1), StreamForm(s, n)
    PROVE  StreamForm(Append(s, Data[n + 1]), n + 1)
<1>1. Data \in Seq(Chunks) /\ Data[n + 1] \in Chunks
  BY ConstantsAssumption
<1>2. SubSeq(Data, 1, n) \in Seq(Chunks)
  BY <1>1, SubSeqProperties
<1>3. CASE s = SubSeq(Data, 1, n)
  BY <1>3, PrefixStep DEF StreamForm
<1>4. CASE s = <<Zeros>> \o SubSeq(Data, 1, n)
  <2>1. Append(<<Zeros>> \o SubSeq(Data, 1, n), Data[n + 1])
          = <<Zeros>> \o Append(SubSeq(Data, 1, n), Data[n + 1])
    BY <1>1, <1>2, AppendIsConcat, ConcatAssociative
  <2>2. QED
    BY <1>4, <2>1, PrefixStep DEF StreamForm
<1>5. QED
  BY <1>3, <1>4 DEF StreamForm

\* The prefixes a stage starts from.
LEMMA StartForms ==
    /\ StreamForm(<<>>, 0)
    /\ StreamForm(<<Zeros>>, 0)
    /\ StreamForm(<<Data[1]>>, 1)
<1>1. Data \in Seq(Chunks) /\ Len(Data) \in Nat \ {0}
  BY DataFacts, ConstantsAssumption
<1>2. SubSeq(Data, 1, 0) = <<>>
  BY <1>1
<1>3. SubSeq(Data, 1, 1) = <<Data[1]>>
  <2>1. SubSeq(Data, 1, 1) \in Seq(Chunks) /\ Len(SubSeq(Data, 1, 1)) = 1
        /\ SubSeq(Data, 1, 1)[1] = Data[1]
    BY <1>1, SubSeqProperties
  <2>2. <<Data[1]>> \in Seq(Chunks)
    BY <1>1, DataFacts
  <2>3. Len(<<Data[1]>>) = 1 /\ \A i \in 1..1 : SubSeq(Data, 1, 1)[i] = <<Data[1]>>[i]
    BY <2>1
  <2>4. QED
    BY <2>1, <2>2, <2>3, SeqEqual, Zenon
<1>4. <<Zeros>> \o <<>> = <<Zeros>>
  <2>1. <<Zeros>> \in Seq({Zeros})
    OBVIOUS
  <2>2. QED
    BY <2>1, ConcatEmptySeq
<1>5. QED
  BY <1>2, <1>3, <1>4 DEF StreamForm


LEMMA InitStreams == Init => StageStreams
  BY DEF Init, StageStreams, StageOK

\* A connection whose handler state a step leaves alone keeps StageOK.
LEMMA OtherConn ==
    ASSUME NEW d, StageOK(d), pc'[d] = pc[d], read'[d] = read[d],
           payload'[d] = payload[d], remote'[d] = remote[d]
    PROVE  StageOK(d)'
  BY DEF StageOK, StreamForm

(* The steps of one handler keep its own StageOK.  Only Handshake needs    *)
(* NoPayloadOverwrite: the payload result exists only for ss2022, where    *)
(* the wait is off.                                                        *)
LEMMA NextStreams ==
    NoPayloadOverwrite /\ TypeOK /\ StageStreams /\ [Next]_vars => StageStreams'
<1> SUFFICES ASSUME NoPayloadOverwrite, TypeOK, StageStreams, [Next]_vars
             PROVE  StageStreams'
  OBVIOUS
<1>0. ASSUME NEW c \in Conns, StageOK(c)',
             \A d \in Conns : d # c => /\ pc'[d] = pc[d] /\ read'[d] = read[d]
                                      /\ payload'[d] = payload[d]
                                      /\ remote'[d] = remote[d]
      PROVE  StageStreams'
  <2> SUFFICES ASSUME NEW d \in Conns PROVE StageOK(d)'
    BY DEF StageStreams
  <2>1. CASE d = c
    BY <1>0, <2>1
  <2>2. CASE d # c
    BY <1>0, <2>2, OtherConn DEF StageStreams
  <2>3. QED
    BY <2>1, <2>2
<1> DEFINE Frame(c) ==
      \A d \in Conns : d # c => /\ pc'[d] = pc[d] /\ read'[d] = read[d]
                               /\ payload'[d] = payload[d]
                               /\ remote'[d] = remote[d]
<1> USE DEF TypeOK, Goto
<1>1. ASSUME NEW c \in Conns, AcceptConn(c) PROVE StageStreams'
  <2>1. StageOK(c)
    BY DEF StageStreams
  <2>2. StageOK(c)' /\ Frame(c)
    BY <1>1, <2>1 DEF AcceptConn, StageOK
  <2>3. QED
    BY <1>0, <2>2
<1>2. ASSUME NEW c \in Conns, Handshake(c) PROVE StageStreams'
  <2>1. StageOK(c)
    BY DEF StageStreams
  <2>2. PICK r \in AcceptResults :
          \/ r = "ok" /\ Goto(c, "route") /\ UNCHANGED <<read, payload>>
          \/ /\ r = "payload"
             /\ read' = [read EXCEPT ![c] = 1]
             /\ payload' = [payload EXCEPT ![c] = <<Data[1]>>]
             /\ Goto(c, "route")
          \/ r = "hold" /\ Goto(c, "hold") /\ UNCHANGED <<read, payload>>
          \/ r = "error" /\ Goto(c, "done") /\ UNCHANGED <<read, payload>>
    BY <1>2 DEF Handshake
  <2>3. UNCHANGED remote /\ pc[c] = "handshake"
    BY <1>2 DEF Handshake
  <2>4. r = "payload" => ~WaitForInitialPayload
    BY ConstantsAssumption DEF AcceptResults, NoPayloadOverwrite
  <2>5. StageOK(c)'
    BY <2>1, <2>2, <2>3, <2>4, StartForms DEF StageOK
  <2>6. Frame(c)
    BY <2>2, <2>3
  <2>7. QED
    BY <1>0, <2>5, <2>6
<1>3. ASSUME NEW c \in Conns, HoldEnds(c) PROVE StageStreams'
  <2>1. StageOK(c)' /\ Frame(c)
    BY <1>3 DEF HoldEnds, StageOK
  <2>2. QED
    BY <1>0, <2>1
<1>4. ASSUME NEW c \in Conns, Route(c) PROVE StageStreams'
  <2>1. StageOK(c)
    BY DEF StageStreams
  <2>2. StageOK(c)' /\ Frame(c)
    BY <1>4, <2>1 DEF Route, StageOK, StreamForm
  <2>3. QED
    BY <1>0, <2>2
<1>5. ASSUME NEW c \in Conns, WaitInitialPayload(c) PROVE StageStreams'
  <2>1. read[c] = 0
    BY <1>5 DEF StageStreams, StageOK, WaitInitialPayload
  <2>0. pc'[c] \in {"dial", "done"} /\ UNCHANGED remote
    BY <1>5 DEF WaitInitialPayload
  <2>a. ASSUME read[c] < Len(Data),
               read' = [read EXCEPT ![c] = @ + 1],
               payload' = [payload EXCEPT ![c] = <<Data[read[c] + 1]>>]
        PROVE  StageOK(c)'
    <3>1. read'[c] = 1 /\ payload'[c] = <<Data[1]>>
      BY <2>1, <2>a
    <3>2. QED
      BY <2>0, <3>1, StartForms DEF StageOK
  <2>b. ASSUME payload' = [payload EXCEPT ![c] = <<Zeros>>], UNCHANGED read
        PROVE  StageOK(c)'
    BY <2>0, <2>1, <2>b, StartForms DEF StageOK
  <2>c. ASSUME pc' = [pc EXCEPT ![c] = "done"] PROVE StageOK(c)'
    BY <2>c DEF StageOK
  <2>2. StageOK(c)'
    BY <1>5, <2>a, <2>b, <2>c DEF WaitInitialPayload
  <2>3. Frame(c)
    BY <1>5 DEF WaitInitialPayload
  <2>4. QED
    BY <1>0, <2>2, <2>3
<1>6. ASSUME NEW c \in Conns, Dial(c) PROVE StageStreams'
  <2>1. StageOK(c)
    BY DEF StageStreams
  <2>2. StageOK(c)' /\ Frame(c)
    BY <1>6, <2>1 DEF Dial, StageOK, StreamForm
  <2>3. QED
    BY <1>0, <2>2
<1>7. ASSUME NEW c \in Conns, RelayCopy(c) PROVE StageStreams'
  <2>1. StreamForm(remote[c], read[c]) /\ read[c] \in 0..(Len(Data) - 1)
    BY <1>7 DEF StageStreams, StageOK, RelayCopy
  <2>2. StreamForm(Append(remote[c], Data[read[c] + 1]), read[c] + 1)
    BY <2>1, StreamStep
  <2>3. StageOK(c)'
    BY <1>7, <2>2 DEF RelayCopy, StageOK
  <2>4. Frame(c)
    BY <1>7 DEF RelayCopy
  <2>5. QED
    BY <1>0, <2>3, <2>4
<1>8. ASSUME NEW c \in Conns, RelayEnds(c) PROVE StageStreams'
  <2>1. StageOK(c)' /\ Frame(c)
    BY <1>8 DEF RelayEnds, StageOK
  <2>2. QED
    BY <1>0, <2>1
<1>9. CASE UNCHANGED connVars
  BY <1>9, OtherConn DEF connVars, StageStreams
<1>10. QED
  BY <1>1, <1>2, <1>3, <1>4, <1>5, <1>6, <1>7, <1>8, <1>9
  DEF Next, AcceptLoopExits, Stop, vars, connVars

\* A stream of that form carries, without its zero fill, the prefix read.
LEMMA StreamBytes ==
    ASSUME NEW s, NEW n \in 0..Len(Data), StreamForm(s, n)
    PROVE  ClientBytes(s) = SubSeq(Data, 1, n)
<1> DEFINE P == SubSeq(Data, 1, n)
<1>1. Data \in Seq(Chunks) /\ P \in Seq(Chunks) /\ Len(P) = n
      /\ \A i \in 1..n : P[i] = Data[i] /\ Data[i] \in Chunks
  BY DataFacts, ConstantsAssumption, SubSeqProperties
<1>2. CASE s = P /\ n = 0
  BY <1>1, <1>2 DEF ClientBytes
<1>3. CASE s = P /\ n # 0
  <2>1. s # <<>> /\ Head(s) = Data[1] /\ Data[1] # Zeros
    BY <1>1, <1>3, ConstantsAssumption
  <2>2. QED
    BY <1>3, <2>1 DEF ClientBytes
<1>4. CASE s = <<Zeros>> \o P
  <2> DEFINE Z == <<Zeros>>
  <2>1. Z \in Seq(Chunks \cup {Zeros}) /\ P \in Seq(Chunks \cup {Zeros})
    BY <1>1
  <2>2. s \in Seq(Chunks \cup {Zeros}) /\ Len(s) = 1 + n
        /\ \A i \in 1..(1 + n) : s[i] = IF i <= 1 THEN Zeros ELSE P[i - 1]
    BY <1>1, <1>4, <2>1, ConcatProperties
  <2>3. s # <<>> /\ Head(s) = Zeros
    BY <2>2
  <2>4. Tail(s) = P
    <3>1. Tail(s) \in Seq(Chunks \cup {Zeros}) /\ Len(Tail(s)) = n
          /\ \A i \in 1..n : Tail(s)[i] = P[i]
      BY <2>2, <2>3, HeadTailProperties
    <3>2. QED
      BY <1>1, <2>1, <3>1, SeqEqual, Zenon
  <2>5. QED
    BY <2>3, <2>4 DEF ClientBytes
<1>5. QED
  BY <1>2, <1>3, <1>4 DEF StreamForm

(* When the handshake surfaces no payload that the initial-payload wait     *)
(* could overwrite, the relay stage of every connection has sent the remote *)
(* exactly the chunks handleConn has read from the client, in order, after  *)
(* at most the one zero fill of a timed-out wait: the payload read by the   *)
(* handshake or the wait is carried through Dial and every copy appends.    *)
THEOREM NoBytesLostHolds ==
    ASSUME NoPayloadOverwrite PROVE Spec => []NoBytesLost
<1>1. Init => TypeOK /\ StageStreams
  BY InitTypeOK, InitStreams
<1>2. TypeOK /\ StageStreams /\ [Next]_vars => (TypeOK /\ StageStreams)'
  BY NextTypeOK, NextStreams
<1>3. TypeOK /\ StageStreams => NoBytesLost
  BY StreamBytes DEF TypeOK, StageStreams, StageOK, NoBytesLost
<1>4. QED
  BY <1>1, <1>2, <1>3, PTL DEF Spec

=============================================================================
