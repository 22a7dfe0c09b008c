-------------------------- MODULE UcpTransferProofs --------------------------
(***************************************************************************)
(* Proofs about the transfer of a part: the client's windows, what the     *)
(* server's threads know of the file, what an acknowledgement means, and   *)
(* that client and server implement ReliableTransfer.                      *)
(***************************************************************************)
EXTENDS TransferLemmas, FiniteSetTheorems

\* The packets that were read from the file and sent.
Sent == 0 .. nextSeqNo - 1

\* The first packets are packets of the part.
LEMMA FirstAreSeqNos ==
  ASSUME NEW m \in 0 .. NumPackets
  PROVE  0 .. m - 1 \subseteq SeqNos
BY NumPacketsAssumption DEF SeqNos

-----------------------------------------------------------------------------
(***************************************************************************)
(* What a step of the client does.                                         *)
(***************************************************************************)

\* The client leaves its loop with a FIN or with nothing left.
ClosedIsDone ==
  /\ done => cpc = "closed"
  /\ cpc = "closed" /\ ~ done => nextSeqNo = NumPackets /\ Held = {}

ClientInv == WindowsHoldOnce /\ ClosedIsDone

\* The packet at the head of one list moves to the end of the other, or of the
\* same; the packet read from the file is new in both.
LEMMA SendStep ==
  ASSUME TypeOK, WindowsHoldOnce, SendPending \/ SendFromFile \/ Resend
  PROVE  /\ inFlight' \in Seq(SeqNos) /\ pending' \in Seq(SeqNos)
         /\ nextSeqNo' \in {nextSeqNo, nextSeqNo + 1} /\ nextSeqNo' <= NumPackets
         /\ Held' = Held \cup (nextSeqNo .. nextSeqNo' - 1)
         /\ \E n \in Held' : udp' \subseteq udp \cup {n}
         /\ WindowsHoldOnce'
         /\ cpc = "send" /\ cpc' = "tick"
         /\ UNCHANGED <<metaInFlight, conn, stream, skew, done, child, rspPkt>>
<1> DEFINE F == ToSet(inFlight)
           P == ToSet(pending)
<1>1. /\ inFlight \in Seq(SeqNos) /\ pending \in Seq(SeqNos)
      /\ nextSeqNo \in Nat /\ nextSeqNo <= NumPackets /\ NumPackets \in Nat
  BY NumPacketsAssumption DEF TypeOK, ClientTypes
<1>2. /\ Distinct(inFlight) /\ Distinct(pending) /\ F \cap P = {}
      /\ F \subseteq 0 .. nextSeqNo - 1 /\ P \subseteq 0 .. nextSeqNo - 1
  BY <1>1, OncePerWindow DEF WindowsHoldOnce, Held
<1>3. Held = F \cup P /\ Held' = ToSet(inFlight') \cup ToSet(pending')
  BY DEF Held
<1>4. ASSUME NEW n \in SeqNos, NEW w, SendPacket(n, w)
      PROVE  /\ inFlight' = Append(w, n)
             /\ udp' \subseteq udp \cup {n}
             /\ cpc' = "tick"
             /\ UNCHANGED <<metaInFlight, conn, stream, skew, done, child, rspPkt>>
  BY <1>4 DEF SendPacket, udp_socket_send
\* From the windows as sets to the windows as sequences.
<1>5. ASSUME inFlight' \in Seq(SeqNos), pending' \in Seq(SeqNos),
             Distinct(inFlight'), Distinct(pending'),
             ToSet(inFlight') \cap ToSet(pending') = {},
             Held' \subseteq 0 .. nextSeqNo' - 1
      PROVE  WindowsHoldOnce'
  <2>1. IsInjective(inFlight' \o pending')
    BY <1>5, OncePerWindow
  <2> QED
    BY <1>5, <2>1 DEF WindowsHoldOnce
<1>6. CASE SendPending
  <2> DEFINE n == Head(pending)
  <2>1. pending # << >>
    BY <1>6 DEF SendPending
  <2>2. /\ n \in SeqNos /\ n \in P /\ Tail(pending) \in Seq(SeqNos)
        /\ Distinct(Tail(pending)) /\ ToSet(Tail(pending)) = P \ {n}
    BY <1>1, <1>2, <2>1, TailSet
  <2>3. pending' = Tail(pending) /\ nextSeqNo' = nextSeqNo /\ cpc = "send"
    BY <1>6 DEF SendPending
  <2>4. SendPacket(n, inFlight)
    BY <1>6 DEF SendPending
  <2> HIDE DEF n
  <2>5. /\ inFlight' = Append(inFlight, n) /\ udp' \subseteq udp \cup {n}
        /\ cpc' = "tick"
        /\ UNCHANGED <<metaInFlight, conn, stream, skew, done, child, rspPkt>>
    BY <2>2, <2>4, <1>4
  <2>6. n \notin F
    BY <1>2, <2>2
  <2>7. /\ inFlight' \in Seq(SeqNos) /\ ToSet(inFlight') = F \cup {n}
        /\ Distinct(inFlight')
    BY <1>1, <1>2, <2>2, <2>5, <2>6, AppendSet
  <2> HIDE DEF F, P
  <2>8. Held' = Held
    BY <1>3, <2>2, <2>3, <2>7
  <2>9. ToSet(inFlight') \cap ToSet(pending') = {}
    BY <1>2, <2>2, <2>3, <2>7
  <2>10. WindowsHoldOnce'
    BY <1>2, <1>3, <1>5, <2>2, <2>3, <2>7, <2>8, <2>9
  <2>11. nextSeqNo .. nextSeqNo' - 1 = {}
    BY <1>1, <2>3
  <2>12. n \in Held'
    BY <1>3, <2>2, <2>8
  <2> QED
    BY <1>1, <2>2, <2>3, <2>5, <2>7, <2>8, <2>10, <2>11, <2>12
<1>7. CASE SendFromFile
  <2> DEFINE n == nextSeqNo
  <2>1. /\ pending' = pending /\ nextSeqNo' = n + 1 /\ cpc = "send"
        /\ SendPacket(n, inFlight) /\ n # NumPackets
    BY <1>7 DEF SendFromFile, AtEndOfFile
  <2>2. n \in SeqNos /\ n + 1 <= NumPackets /\ n \notin F /\ n \notin P
    BY <1>1, <1>2, <2>1 DEF SeqNos
  <2> HIDE DEF n
  <2>3. /\ inFlight' = Append(inFlight, n) /\ udp' \subseteq udp \cup {n}
        /\ cpc' = "tick"
        /\ UNCHANGED <<metaInFlight, conn, stream, skew, done, child, rspPkt>>
    BY <2>1, <2>2, <1>4
  <2>4. /\ inFlight' \in Seq(SeqNos) /\ ToSet(inFlight') = F \cup {n}
        /\ Distinct(inFlight')
    BY <1>1, <1>2, <2>2, <2>3, AppendSet
  <2> HIDE DEF F, P
  <2>5. nextSeqNo .. nextSeqNo' - 1 = {n} /\ n \in Nat /\ n = nextSeqNo
    BY <1>1, <2>1 DEF n
  <2>6. ToSet(pending') = P
    BY <2>1 DEF P
  <2>7. Held' = Held \cup {n}
    BY <1>3, <2>4, <2>6
  <2>8. Held' \subseteq 0 .. nextSeqNo' - 1
    <3>1. Held' \subseteq (0 .. n - 1) \cup {n}
      BY <1>2, <1>3, <2>5, <2>7
    <3>2. 0 .. nextSeqNo' - 1 = (0 .. n - 1) \cup {n}
      BY <2>1, <2>5
    <3> QED
      BY <3>1, <3>2
  <2>9. ToSet(inFlight') \cap ToSet(pending') = {}
    BY <1>2, <2>2, <2>4, <2>6
  <2>10. WindowsHoldOnce'
    BY <1>1, <1>2, <1>5, <2>1, <2>4, <2>8, <2>9
  <2> QED
    BY <1>1, <2>1, <2>2, <2>3, <2>4, <2>5, <2>7, <2>10
<1>8. CASE Resend
  <2> DEFINE n == Head(inFlight)
             t == Tail(inFlight)
  <2>1. inFlight # << >>
    BY <1>8 DEF Resend
  <2>2. /\ n \in SeqNos /\ n \in F /\ t \in Seq(SeqNos)
        /\ Distinct(t) /\ ToSet(t) = F \ {n}
    BY <1>1, <1>2, <2>1, TailSet
  <2>3. pending' = pending /\ nextSeqNo' = nextSeqNo /\ cpc = "send"
    BY <1>8 DEF Resend
  <2>4. SendPacket(n, t)
    BY <1>8 DEF Resend
  <2> HIDE DEF n, t
  <2>5. /\ inFlight' = Append(t, n) /\ udp' \subseteq udp \cup {n}
        /\ cpc' = "tick"
        /\ UNCHANGED <<metaInFlight, conn, stream, skew, done, child, rspPkt>>
    BY <2>2, <2>4, <1>4
  <2>6. n \notin ToSet(t)
    BY <2>2
  <2>7. /\ inFlight' \in Seq(SeqNos) /\ ToSet(inFlight') = ToSet(t) \cup {n}
        /\ Distinct(inFlight')
    BY <2>2, <2>5, <2>6, AppendSet
  <2>8. ToSet(pending') = P /\ ToSet(inFlight') = F
    BY <2>2, <2>3, <2>7
  <2> HIDE DEF F, P
  <2>9. Held' = Held
    BY <1>3, <2>8
  <2>10. WindowsHoldOnce'
    BY <1>1, <1>2, <1>3, <1>5, <2>3, <2>7, <2>8, <2>9
  <2>11. nextSeqNo .. nextSeqNo' - 1 = {}
    BY <1>1, <2>3
  <2>12. n \in Held'
    BY <1>3, <2>2, <2>9
  <2> QED
    BY <1>1, <2>3, <2>5, <2>7, <2>9, <2>10, <2>11, <2>12
<1> QED
  BY <1>6, <1>7, <1>8

\* A packet of which on_ack_received unlinks the answer for good.
IsAck(pkt) == pkt.type = UCP_PACKET_TYPE_CTRL /\ pkt.flag = UCP_FLAG_ACK
IsFin(pkt) == pkt.type = UCP_PACKET_TYPE_CTRL /\ pkt.flag = UCP_FLAG_FIN

\* A read: an ACK takes its packet out of the windows, a NACK moves it from one
\* to the other, and nothing else touches them.
LEMMA ReceiveStep ==
  ASSUME TypeOK, WindowsHoldOnce, NEW k \in 1 .. ReadMax, tcp_server_receive(k),
         NEW pkt \in Decoded(BytesRead(k)), on_ack_received(pkt)
  PROVE  /\ inFlight' \in Seq(SeqNos) /\ pending' \in Seq(SeqNos)
         /\ \/ Held' = Held
            \/ IsAck(pkt) /\ pkt.seq_no \in Held /\ Held' = Held \ {pkt.seq_no}
         /\ WindowsHoldOnce'
         /\ done' = (done \/ IsFin(pkt)) /\ done' \in BOOLEAN
         /\ rspPkt' = pkt /\ pkt \in ucp_packet_t
<1> DEFINE F == ToSet(inFlight)
           P == ToSet(pending)
           n == pkt.seq_no
           isCtrl == pkt.type = UCP_PACKET_TYPE_CTRL
           w == RemoveFirst(inFlight, n)
<1>1. /\ inFlight \in Seq(SeqNos) /\ pending \in Seq(SeqNos)
      /\ nextSeqNo' = nextSeqNo /\ done \in BOOLEAN
  BY DEF TypeOK, ClientTypes, tcp_server_receive
<1>2. /\ Distinct(inFlight) /\ Distinct(pending) /\ F \cap P = {}
      /\ Held \subseteq 0 .. nextSeqNo - 1
  BY <1>1, OncePerWindow DEF WindowsHoldOnce
<1>3. Held = F \cup P /\ Held' = ToSet(inFlight') \cup ToSet(pending')
  BY DEF Held
<1>4. pkt \in ucp_packet_t
  BY DecodedType DEF TypeOK, ChannelTypes, ClientTypes, tcp_server_receive
<1>5. /\ inFlight' = IF isCtrl /\ pkt.flag \in {UCP_FLAG_ACK, UCP_FLAG_NACK}
                     THEN w ELSE inFlight
      /\ pending' = IF isCtrl /\ pkt.flag = UCP_FLAG_NACK /\ n \in F
                    THEN Append(pending, n) ELSE pending
      /\ done' = (done \/ IsFin(pkt))
      /\ rspPkt' = pkt
  BY DEF on_ack_received, IsFin
<1>6. w \in Seq(SeqNos) /\ ToSet(w) = F \ {n} /\ Distinct(w)
  BY <1>1, <1>2, RemoveSet
<1>7. done' \in BOOLEAN
  BY <1>1, <1>5 DEF IsFin
<1>8. ASSUME inFlight' \in Seq(SeqNos), pending' \in Seq(SeqNos),
             Distinct(inFlight'), Distinct(pending'),
             ToSet(inFlight') \cap ToSet(pending') = {}, Held' \subseteq Held
      PROVE  WindowsHoldOnce'
  <2>1. IsInjective(inFlight' \o pending')
    BY <1>8, OncePerWindow
  <2> QED
    BY <1>1, <1>2, <1>8, <2>1 DEF WindowsHoldOnce
<1> HIDE DEF w
<1>9. CASE ~ (isCtrl /\ pkt.flag \in {UCP_FLAG_ACK, UCP_FLAG_NACK})
  <2>1. inFlight' = inFlight /\ pending' = pending
    BY <1>5, <1>9
  <2>2. Held' = Held
    BY <1>3, <2>1
  <2>3. WindowsHoldOnce'
    BY <1>1, <1>2, <1>8, <2>1, <2>2
  <2> QED
    BY <1>1, <1>4, <1>5, <1>7, <2>1, <2>2, <2>3
<1>10. CASE isCtrl /\ pkt.flag = UCP_FLAG_ACK
  <2>1. inFlight' = w /\ pending' = pending /\ IsAck(pkt)
    BY <1>5, <1>10 DEF IsAck, UCP_FLAG_ACK, UCP_FLAG_NACK
  <2>2. ToSet(inFlight') = F \ {n} /\ ToSet(pending') = P
    BY <1>6, <2>1
  <2> HIDE DEF F, P, n
  <2>3. \/ Held' = Held
        \/ n \in Held /\ Held' = Held \ {n}
    <3>1. CASE n \in F
      <4>1. n \notin P
        BY <1>2, <3>1
      <4> QED
        BY <1>3, <2>2, <3>1, <4>1
    <3>2. CASE n \notin F
      <4>1. ToSet(inFlight') = F
        BY <2>2, <3>2
      <4>2. Held' = Held
        BY <1>3, <2>2, <4>1
      <4> QED
        BY <4>2
    <3> QED
      BY <3>1, <3>2
  <2>4. ToSet(inFlight') \cap ToSet(pending') = {} /\ Held' \subseteq Held
    BY <1>2, <2>2, <2>3
  <2>5. WindowsHoldOnce'
    BY <1>1, <1>2, <1>6, <1>8, <2>1, <2>4
  <2> QED
    BY <1>1, <1>4, <1>5, <1>6, <1>7, <2>1, <2>3, <2>5 DEF n
<1>11. CASE isCtrl /\ pkt.flag = UCP_FLAG_NACK
  <2>1. /\ inFlight' = w
        /\ pending' = IF n \in F THEN Append(pending, n) ELSE pending
    BY <1>5, <1>11
  <2>2. CASE n \in F
    <3>1. n \in SeqNos /\ n \notin P
      BY <1>1, <1>2, <2>2, SetOfSeq
    <3> HIDE DEF n
    <3>2. /\ pending' \in Seq(SeqNos) /\ Distinct(pending')
          /\ ToSet(pending') = P \cup {n}
      BY <1>1, <1>2, <2>1, <2>2, <3>1, AppendSet
    <3>3. ToSet(inFlight') = F \ {n}
      BY <1>6, <2>1
    <3> HIDE DEF F, P
    <3>4. Held' = Held
      BY <1>3, <2>2, <3>2, <3>3
    <3>5. ToSet(inFlight') \cap ToSet(pending') = {}
      BY <1>2, <3>2, <3>3
    <3>6. WindowsHoldOnce'
      BY <1>6, <1>8, <2>1, <3>2, <3>4, <3>5
    <3> QED
      BY <1>4, <1>5, <1>6, <1>7, <2>1, <3>2, <3>4, <3>6
  <2>3. CASE n \notin F
    <3>1. pending' = pending /\ ToSet(inFlight') = F /\ ToSet(pending') = P
      BY <1>6, <2>1, <2>3
    <3>2. Held' = Held
      BY <1>3, <3>1
    <3>3. WindowsHoldOnce'
      BY <1>1, <1>2, <1>6, <1>8, <2>1, <3>1, <3>2
    <3> QED
      BY <1>1, <1>4, <1>5, <1>6, <1>7, <2>1, <3>1, <3>2, <3>3
  <2> QED
    BY <2>2, <2>3
<1> QED
  BY <1>9, <1>10, <1>11

\* A read leaves the rest of the stream behind.
LEMMA ConsumeStep ==
  ASSUME ChannelTypes, NEW k \in 1 .. ReadMax, k \in ReadSizes, Consume(k)
  PROVE  /\ stream' \in Seq(ucp_ctrl_packet_t) /\ Len(stream') <= StreamCap
         /\ ToSet(stream') \subseteq ToSet(stream)
         /\ skew' \in 0 .. CTRL_SIZE - 1
<1> DEFINE d == (skew + k) \div CTRL_SIZE
<1>1. /\ stream \in Seq(ucp_ctrl_packet_t) /\ Len(stream) <= StreamCap
      /\ Len(stream) \in Nat /\ StreamCap \in Nat
      /\ skew \in 0 .. CTRL_SIZE - 1 /\ skew \in Nat /\ k \in Nat
  BY LenProperties, ChannelAssumption DEF ChannelTypes, CTRL_SIZE
<1>2. d + 1 \in Nat \ {0} /\ (skew + k) % CTRL_SIZE \in 0 .. CTRL_SIZE - 1
  BY <1>1 DEF CTRL_SIZE
<1>3. stream' = SubSeq(stream, d + 1, Len(stream)) /\ skew' = (skew + k) % CTRL_SIZE
  BY DEF Consume
<1> HIDE DEF d
<1>4. /\ stream' \in Seq(ucp_ctrl_packet_t) /\ Len(stream') <= Len(stream)
      /\ ToSet(stream') \subseteq ToSet(stream)
  BY <1>1, <1>2, <1>3, RestSet
<1>5. Len(stream') \in Nat
  BY <1>4, LenProperties
<1> QED
  BY <1>1, <1>2, <1>3, <1>4, <1>5

\* What a read, and the handler it calls, does to windows and connection.
ReadEffect(k, pkt) ==
  /\ k \in ReadSizes /\ Consume(k) /\ pkt \in Decoded(BytesRead(k))
  /\ rspPkt' = pkt
  /\ nextSeqNo' = nextSeqNo
  /\ \/ Held' = Held
     \/ IsAck(pkt) /\ pkt.seq_no \in Held /\ Held' = Held \ {pkt.seq_no}
  /\ done' = IsFin(pkt)
  /\ cpc' = IF done' THEN "closed" ELSE "send"

\* What any other step of the client does to them.
SendEffect ==
  /\ UNCHANGED <<rspPkt, stream, skew, done>>
  /\ Held' = Held \cup (nextSeqNo .. nextSeqNo' - 1)
  /\ cpc' = "closed" => nextSeqNo = NumPackets /\ Held = {}

LEMMA ClientEffect ==
  ASSUME TypeOK, ClientInv, ClientNext
  PROVE  /\ ChannelTypes' /\ ClientTypes'
         /\ ClientInv'
         /\ nextSeqNo' \in {nextSeqNo, nextSeqNo + 1}
         /\ ToSet(stream') \subseteq ToSet(stream)
         /\ udp' \subseteq udp \cup Sent'
         /\ cpc # "closed" /\ done = FALSE
         /\ SendEffect \/ \E k \in 1 .. ReadMax : \E pkt \in ucp_packet_t : ReadEffect(k, pkt)
<1>1. /\ metaInFlight \in BOOLEAN
      /\ udp \subseteq SeqNos
      /\ conn \in {"none", "open", "closed"}
      /\ stream \in Seq(ucp_ctrl_packet_t) /\ Len(stream) <= StreamCap
      /\ skew \in 0 .. CTRL_SIZE - 1
  BY DEF TypeOK, ChannelTypes
<1>2. /\ cpc \in {"meta", "accept", "send", "tick", "closed"}
      /\ nextSeqNo \in 0 .. NumPackets /\ nextSeqNo \in Nat
      /\ inFlight \in Seq(SeqNos) /\ pending \in Seq(SeqNos)
      /\ done \in BOOLEAN /\ child \in BOOLEAN
      /\ rspPkt \in ucp_packet_t
  BY NumPacketsAssumption DEF TypeOK, ClientTypes
<1>3. cpc # "closed" /\ done = FALSE
  BY <1>2 DEF ClientNext, SendMetadata, Accept, SendPending, SendFromFile, Resend,
         NothingLeft, Receive, tcp_server_receive, Disconnected, SelectTimesOut,
         ClientInv, ClosedIsDone
<1>4. nextSeqNo .. nextSeqNo - 1 = {}
  BY <1>2
<1>5. WindowsHoldOnce
  BY DEF ClientInv
\* The steps that touch neither windows nor stream.
<1>6. ASSUME UNCHANGED <<udp, stream, skew, nextSeqNo, inFlight, pending, done, rspPkt>>,
             metaInFlight' \in BOOLEAN, conn' = conn, child' \in BOOLEAN,
             cpc' \in {"accept", "send", "closed"},
             cpc' = "closed" => nextSeqNo = NumPackets /\ Held = {}
      PROVE  /\ ChannelTypes' /\ ClientTypes'
             /\ ClientInv'
             /\ nextSeqNo' \in {nextSeqNo, nextSeqNo + 1}
             /\ ToSet(stream') \subseteq ToSet(stream)
             /\ udp' \subseteq udp \cup Sent'
             /\ SendEffect
  <2>1. ChannelTypes'
    BY <1>1, <1>6 DEF ChannelTypes
  <2>2. ClientTypes'
    BY <1>2, <1>6 DEF ClientTypes
  <2>3. Held' = Held /\ nextSeqNo' = nextSeqNo /\ done' = FALSE
    BY <1>3, <1>6 DEF Held
  <2>4. WindowsHoldOnce'
    BY <1>5, <1>6, <2>3 DEF WindowsHoldOnce
  <2>5. ClientInv'
    BY <1>6, <2>3, <2>4 DEF ClientInv, ClosedIsDone
  <2>6. SendEffect
    BY <1>4, <1>6, <2>3 DEF SendEffect
  <2> QED
    BY <1>6, <2>1, <2>2, <2>5, <2>6
<1>7. CASE SendMetadata
  <2>1. metaInFlight' \in BOOLEAN
    BY <1>7, ChannelAssumption DEF SendMetadata, SendMeta
  <2> QED
    BY <1>2, <1>3, <1>6, <1>7, <2>1 DEF SendMetadata
<1>8. CASE Accept
  BY <1>1, <1>3, <1>6, <1>8 DEF Accept, channelVars
<1>9. CASE NothingLeft
  <2>1. nextSeqNo = NumPackets /\ Held = {}
    <3>1. inFlight = << >> /\ pending = << >> /\ nextSeqNo = NumPackets
      BY <1>9 DEF NothingLeft, AtEndOfFile
    <3>2. ToSet(inFlight) = {} /\ ToSet(pending) = {}
      BY <1>2, <3>1, SetOfSeq
    <3> QED
      BY <3>1, <3>2 DEF Held
  <2> QED
    BY <1>1, <1>2, <1>3, <1>6, <1>9, <2>1 DEF NothingLeft, channelVars
<1>10. CASE Disconnected
  BY <1>1, <1>3, <1>6, <1>10 DEF Disconnected, channelVars, AfterTick
<1>11. CASE SelectTimesOut
  BY <1>1, <1>2, <1>3, <1>6, <1>11 DEF SelectTimesOut, channelVars, AfterTick
<1>12. CASE SendPending \/ SendFromFile \/ Resend
  <2>1. /\ inFlight' \in Seq(SeqNos) /\ pending' \in Seq(SeqNos)
        /\ nextSeqNo' \in {nextSeqNo, nextSeqNo + 1} /\ nextSeqNo' <= NumPackets
        /\ Held' = Held \cup (nextSeqNo .. nextSeqNo' - 1)
        /\ \E n \in Held' : udp' \subseteq udp \cup {n}
        /\ WindowsHoldOnce'
        /\ cpc = "send" /\ cpc' = "tick"
        /\ UNCHANGED <<metaInFlight, conn, stream, skew, done, child, rspPkt>>
    BY <1>5, <1>12, SendStep
  <2>2. nextSeqNo' \in 0 .. NumPackets
    BY <1>2, <2>1
  <2>3. Held' \subseteq Sent' /\ Sent' \subseteq SeqNos
    <3>1. Held' \subseteq Sent'
      BY <2>1 DEF WindowsHoldOnce, Sent
    <3>2. Sent' \subseteq SeqNos
      BY <2>2, FirstAreSeqNos DEF Sent
    <3> QED
      BY <3>1, <3>2
  <2>4. udp' \subseteq udp \cup Sent'
    BY <2>1, <2>3
  <2>5. ChannelTypes'
    BY <1>1, <2>1, <2>3, <2>4 DEF ChannelTypes
  <2>6. ClientTypes'
    BY <1>2, <2>1, <2>2 DEF ClientTypes
  <2>7. ClientInv'
    BY <1>3, <2>1 DEF ClientInv, ClosedIsDone
  <2> QED
    BY <1>3, <2>1, <2>4, <2>5, <2>6, <2>7 DEF SendEffect
<1>13. CASE Receive
  <2>1. PICK k \in 1 .. ReadMax : tcp_server_receive(k)
    BY <1>13 DEF Receive
  <2>2. PICK pkt \in Decoded(BytesRead(k)) : on_ack_received(pkt)
    BY <2>1 DEF tcp_server_receive
  <2>3. /\ inFlight' \in Seq(SeqNos) /\ pending' \in Seq(SeqNos)
        /\ \/ Held' = Held
           \/ IsAck(pkt) /\ pkt.seq_no \in Held /\ Held' = Held \ {pkt.seq_no}
        /\ WindowsHoldOnce'
        /\ done' = (done \/ IsFin(pkt)) /\ done' \in BOOLEAN
        /\ rspPkt' = pkt /\ pkt \in ucp_packet_t
    BY <1>5, <2>1, <2>2, ReceiveStep
  <2>4. /\ k \in ReadSizes /\ Consume(k)
        /\ cpc' = IF done' THEN "closed" ELSE "send"
        /\ UNCHANGED <<metaInFlight, udp, conn, nextSeqNo, child>>
    BY <2>1 DEF tcp_server_receive, AfterTick
  <2>5. /\ stream' \in Seq(ucp_ctrl_packet_t) /\ Len(stream') <= StreamCap
        /\ ToSet(stream') \subseteq ToSet(stream)
        /\ skew' \in 0 .. CTRL_SIZE - 1
    BY <2>4, ConsumeStep DEF TypeOK
  <2>6. ChannelTypes'
    BY <1>1, <2>4, <2>5 DEF ChannelTypes
  <2>7. ClientTypes'
    BY <1>2, <2>3, <2>4 DEF ClientTypes
  <2>8. ClientInv'
    BY <2>3, <2>4 DEF ClientInv, ClosedIsDone
  <2>9. done' = IsFin(pkt)
    BY <1>3, <2>3 DEF IsFin
  <2>10. ReadEffect(k, pkt)
    BY <2>2, <2>3, <2>4, <2>9 DEF ReadEffect
  <2> QED
    BY <1>3, <2>3, <2>4, <2>5, <2>6, <2>7, <2>8, <2>10
<1> QED
  BY <1>3, <1>7, <1>8, <1>9, <1>10, <1>11, <1>12, <1>13 DEF ClientNext

-----------------------------------------------------------------------------
(***************************************************************************)
(* What the threads of the server know: the parts of the invariant.        *)
(***************************************************************************)

\* Reports pushed and not answered, and those still to be pushed with them.
UnderWay == ToSet(queue) \cup (IF qpc = "answer" THEN {cur} ELSE {})
Reported == UnderWay \cup (IF rpc = "push" THEN {report} ELSE {})

\* main starts the threads, and numbers are asked for while there are any.
WellPlaced ==
  /\ mpc = "meta" => rpc = "none" /\ qpc = "none"
  /\ qpc = "missing" => missing # {}

\* The list of ranges is one that sequencer_add leaves behind, and merged when
\* a report is about to be added.
RangesOK ==
  /\ Sorted(sequencer.seq)
  /\ \E p : TouchingAt(sequencer.seq) \subseteq {p}
  /\ qpc = "answer" => GapsBetween(sequencer.seq)

\* No number comes up on the server that was not sent to it.
OnlySent ==
  /\ udp \subseteq Sent /\ saved \subseteq Sent /\ missing \subseteq Sent
  /\ Covered(sequencer.seq) \subseteq Sent
  /\ sequencer.maxSeqNo \in Sent \cup {0}
  /\ \A r \in Reported : r \in report_t /\ r.seq_no \in Sent
  /\ \A c \in ToSet(stream) : c.seq_no \in Sent

\* An ACK is reported, and sent, for what is in the file.
AcksAreSaved ==
  /\ \A r \in Reported : r.flag = UCP_FLAG_ACK => r.seq_no \in saved
  /\ \A c \in ToSet(stream) : c.flag = UCP_FLAG_ACK => c.seq_no \in saved

\* The receiving thread receives, saves and pushes nothing any more.
HasLeft == rpc \in {"return", "done"}

\* The first failed save is the last report: until the receiving thread has
\* left its loop no NACK is under way and no number counts as the last one,
\* and afterwards all that was reported is in the file but for one number.
FailsOnce ==
  /\ ~ HasLeft => /\ \A r \in UnderWay : r.flag = UCP_FLAG_ACK
                  /\ Covered(sequencer.seq) \subseteq saved
                  /\ sequencer.expectedLastSeqNo = UINT32_MAX
  /\ rpc = "push" /\ report.flag # UCP_FLAG_ACK => failed
  /\ HasLeft => failed
  /\ \E n \in Nat : /\ \A r \in UnderWay : r.seq_no \in saved \cup {n}
                    /\ Covered(sequencer.seq) \subseteq saved \cup {n}

ServerInv == WellPlaced /\ RangesOK /\ OnlySent /\ AcksAreSaved /\ FailsOnce
                        /\ FinishNeedsFailure

TransferInv == TypeOK /\ ClientInv /\ ServerInv

\* The actions that hand no report from one thread to the other.
OtherThanReporting ==
  \/ ReceiveMetadata \/ Exit \/ ReceiveUnknown \/ Leave \/ Cancelled
  \/ Pop \/ Answer \/ AskForMissing \/ Finish \/ Cancel

\* Reports come from the receiving thread and go with their answer.
LEMMA ReportsMove ==
  ASSUME ServerTypes, WellPlaced, OnlySent
  PROVE  /\ \A n \in SeqNos, ok \in BOOLEAN :
              ReceiveData(n, ok) => /\ UnderWay' = UnderWay
                                    /\ Reported' = UnderWay \cup {report'}
         /\ Push => /\ UnderWay' = UnderWay \cup {report}
                    /\ Reported' = UnderWay' /\ Reported = UnderWay'
                    /\ queue' \in Seq(report_t)
         /\ OtherThanReporting => /\ UnderWay' \subseteq UnderWay
                                  /\ Reported' \subseteq Reported
                                  /\ queue' \in Seq(report_t)
<1>1. queue \in Seq(report_t)
  BY DEF ServerTypes
<1>2. ASSUME NEW n \in SeqNos, NEW ok \in BOOLEAN, ReceiveData(n, ok)
      PROVE  UnderWay' = UnderWay /\ Reported' = UnderWay \cup {report'}
  BY <1>2 DEF ReceiveData, UnderWay, Reported
<1>3. ASSUME Push
      PROVE  /\ UnderWay' = UnderWay \cup {report}
             /\ Reported' = UnderWay' /\ Reported = UnderWay'
             /\ queue' \in Seq(report_t)
  <2>1. /\ queue' = Append(queue, report) /\ qpc' = qpc /\ cur' = cur
        /\ rpc = "push" /\ rpc' # "push"
    BY <1>3 DEF Push
  <2>2. report \in report_t
    BY <2>1 DEF OnlySent, Reported
  <2>3. queue' \in Seq(report_t) /\ ToSet(queue') = ToSet(queue) \cup {report}
    BY <1>1, <2>1, <2>2, AppendSet
  <2> QED
    BY <2>1, <2>2, <2>3 DEF UnderWay, Reported
<1>4. ASSUME Pop
      PROVE  /\ UnderWay' \subseteq UnderWay
             /\ Reported' \subseteq Reported
             /\ queue' \in Seq(report_t)
  <2>1. /\ queue # << >> /\ queue' = Tail(queue) /\ cur' = Head(queue)
        /\ qpc' = "answer" /\ qpc = "loop" /\ rpc' = rpc /\ report' = report
    BY <1>4 DEF Pop
  <2>2. queue' \in Seq(report_t) /\ ToSet(queue) = ToSet(queue') \cup {cur'}
    BY <1>1, <2>1, TailSet
  <2> QED
    BY <2>1, <2>2 DEF UnderWay, Reported
<1>5. ASSUME \/ ReceiveMetadata \/ Exit \/ ReceiveUnknown \/ Leave \/ Cancelled
             \/ Answer \/ AskForMissing \/ Finish \/ Cancel
      PROVE  /\ UnderWay' \subseteq UnderWay
             /\ Reported' \subseteq Reported
             /\ queue' \in Seq(report_t)
  <2>1. /\ queue' = queue /\ report' = report
        /\ rpc' = "push" => rpc = "push"
        /\ qpc' = "answer" => qpc = "answer" /\ cur' = cur
    BY <1>5 DEF ReceiveMetadata, Exit, ReceiveUnknown, Leave, Cancelled, Answer,
                AskForMissing, Finish, Cancel, AfterAnswer, serverVars
  <2>2. UnderWay' \subseteq UnderWay
    BY <2>1 DEF UnderWay
  <2> QED
    BY <1>1, <2>1, <2>2 DEF Reported
<1> QED
  BY <1>2, <1>3, <1>4, <1>5 DEF OtherThanReporting

\* sequencer_complete merges the list and changes nothing else.
LEMMA MergeEffect ==
  ASSUME ServerTypes, RangesOK, sequencer' = sequencer_merge(sequencer)
  PROVE  /\ sequencer' \in sequencer_t
         /\ sequencer'.seq = MergeTouching(sequencer.seq)
         /\ sequencer'.maxSeqNo = sequencer.maxSeqNo
         /\ sequencer'.expectedLastSeqNo = sequencer.expectedLastSeqNo
         /\ sequencer'.seq \in Lists /\ GapsBetween(sequencer'.seq)
         /\ Sorted(sequencer'.seq) /\ TouchingAt(sequencer'.seq) = {}
         /\ Covered(sequencer'.seq) = Covered(sequencer.seq)
<1> DEFINE old == sequencer.seq
           list == MergeTouching(old)
<1>1. /\ old \in Lists /\ sequencer.maxSeqNo \in uint32
      /\ sequencer.expectedLastSeqNo \in uint32
      /\ Sorted(old) /\ \E p : TouchingAt(old) \subseteq {p}
  BY DEF ServerTypes, RangesOK, sequencer_t, Lists
<1>2. sequencer' = [seq |-> list, maxSeqNo |-> sequencer.maxSeqNo,
                    expectedLastSeqNo |-> sequencer.expectedLastSeqNo]
  BY DEF ServerTypes, sequencer_t, sequencer_merge
<1> HIDE DEF old
<1>3. list \in Lists /\ GapsBetween(list) /\ Covered(list) = Covered(old)
  BY <1>1, MergeProperties
<1>4. Sorted(list) /\ TouchingAt(list) = {}
  BY <1>3, GapsAreSorted
<1> HIDE DEF list
<1> QED
  BY <1>1, <1>2, <1>3, <1>4 DEF sequencer_t, Lists, old, list

\* The report being answered is added to the sequencer.
LEMMA AddEffect ==
  ASSUME ServerTypes, RangesOK, qpc = "answer", cur \in report_t,
         sequencer' = sequencer_add(sequencer, cur.seq_no, cur.flag = UCP_FLAG_DATA_END)
  PROVE  /\ sequencer' \in sequencer_t
         /\ Sorted(sequencer'.seq)
         /\ \E p : TouchingAt(sequencer'.seq) \subseteq {p}
         /\ Covered(sequencer'.seq) \subseteq Covered(sequencer.seq) \cup {cur.seq_no}
         /\ sequencer'.maxSeqNo \in {sequencer.maxSeqNo, cur.seq_no}
         /\ cur.flag = UCP_FLAG_ACK
              => sequencer'.expectedLastSeqNo = sequencer.expectedLastSeqNo
<1> DEFINE n == cur.seq_no
           isLast == cur.flag = UCP_FLAG_DATA_END
           new == sequencer_add(sequencer, n, isLast)
<1>1. /\ n \in Nat /\ n < UINT32_MAX /\ n \in uint32
      /\ isLast \in BOOLEAN /\ (cur.flag = UCP_FLAG_ACK => ~ isLast)
  BY NumPacketsAssumption, ServerAssumption, Uint32Assumption
     DEF report_t, SeqNos, uint32, UCP_FLAG_ACK, UCP_FLAG_DATA_END
<1>2. /\ sequencer \in sequencer_t /\ GapsBetween(sequencer.seq)
      /\ sequencer.maxSeqNo \in uint32 /\ sequencer.expectedLastSeqNo \in uint32
  BY DEF ServerTypes, RangesOK, sequencer_t
<1>3. sequencer' = new
  OBVIOUS
<1> HIDE DEF n, isLast
<1>4. new = [seq |-> new.seq,
             maxSeqNo |-> new.maxSeqNo, expectedLastSeqNo |-> new.expectedLastSeqNo]
  BY DEF sequencer_add
<1>5. /\ new.maxSeqNo = IF isLast \/ sequencer.maxSeqNo < n THEN n ELSE sequencer.maxSeqNo
      /\ new.expectedLastSeqNo = IF isLast THEN n ELSE sequencer.expectedLastSeqNo
  BY DEF sequencer_add
<1> HIDE DEF new
<1>6. /\ new.seq \in Lists
      /\ Sorted(new.seq)
      /\ \E p : TouchingAt(new.seq) \subseteq {p}
      /\ Covered(new.seq) = IF /\ Covered(sequencer.seq) # {}
                               /\ \A m \in Covered(sequencer.seq) : n + 1 < m
                            THEN Covered(sequencer.seq)
                            ELSE Covered(sequencer.seq) \cup {n}
  BY <1>1, <1>2, AddProperties DEF new
<1>7. Covered(new.seq) \subseteq Covered(sequencer.seq) \cup {n}
  BY <1>6
<1>8. new.maxSeqNo \in uint32 /\ new.expectedLastSeqNo \in uint32
  BY <1>1, <1>2, <1>5
<1>9. new \in sequencer_t
  BY <1>4, <1>6, <1>8 DEF sequencer_t, Lists
<1> QED
  BY <1>1, <1>3, <1>5, <1>6, <1>7, <1>9 DEF n

\* A completed list is the range from 0 to the number expected to be the last.
LEMMA CompleteIsWhole ==
  ASSUME ServerTypes, RangesOK, sequencer_complete(sequencer)
  PROVE  /\ sequencer.expectedLastSeqNo \in Nat
         /\ sequencer.expectedLastSeqNo \in Covered(sequencer.seq)
<1> DEFINE old == sequencer.seq
           list == MergeTouching(old)
           e == sequencer.expectedLastSeqNo
<1>1. old \in Lists /\ Sorted(old) /\ \E p : TouchingAt(old) \subseteq {p}
  BY DEF ServerTypes, RangesOK, sequencer_t, Lists
<1>2. e \in uint32 /\ e \in Nat
  BY Uint32Assumption DEF ServerTypes, sequencer_t, uint32
<1>3. Len(list) = 1 /\ list[1] = create_sequencer_range(0, e)
  BY DEF sequencer_complete
<1> HIDE DEF old, e
<1>4. list \in Lists /\ GapsBetween(list) /\ Covered(list) = Covered(old)
  BY <1>1, MergeProperties
<1> HIDE DEF list
<1>5. Covered(list) = 0 .. e
  BY <1>2, <1>3, <1>4, SingleRange
<1>6. e \in 0 .. e
  BY <1>2
<1> QED
  BY <1>2, <1>4, <1>5, <1>6 DEF old, e

\* The packets sent are the ones they seem to be: numbers the client has sent,
\* an ACK for what is in the file, and the FIN at the end only.
LEMMA StreamGrows ==
  ASSUME TransferInv, ServerNext
  PROVE  /\ stream' \in Seq(ucp_ctrl_packet_t) /\ Len(stream') <= StreamCap
         /\ \A c \in ToSet(stream') :
              \/ c \in ToSet(stream)
              \/ /\ c.seq_no \in Sent
                 /\ c.flag = UCP_FLAG_ACK => c.seq_no \in saved
                 /\ c.flag = UCP_FLAG_FIN => Finish
<1>1. stream \in Seq(ucp_ctrl_packet_t) /\ Len(stream) <= StreamCap
  BY DEF TransferInv, TypeOK, ChannelTypes
<1>2. ASSUME NEW n \in Nat, NEW f \in {UCP_FLAG_ACK, UCP_FLAG_NACK, UCP_FLAG_FIN},
             tcp_client_send(ucp_packet_init_ctrl(n, f)),
             n \in Sent, f = UCP_FLAG_ACK => n \in saved, f = UCP_FLAG_FIN => Finish
      PROVE  /\ stream' \in Seq(ucp_ctrl_packet_t) /\ Len(stream') <= StreamCap
             /\ \A c \in ToSet(stream') :
                  \/ c \in ToSet(stream)
                  \/ /\ c.seq_no \in Sent
                     /\ c.flag = UCP_FLAG_ACK => c.seq_no \in saved
                     /\ c.flag = UCP_FLAG_FIN => Finish
  <2> DEFINE new == ucp_packet_init_ctrl(n, f)
  <2>1. new \in ucp_ctrl_packet_t /\ new.flag = f /\ new.seq_no = n
    BY DEF ucp_packet_init_ctrl, ucp_ctrl_packet_t
  <2>2. stream' = Append(stream, new) /\ Len(stream) < StreamCap
    BY <1>2 DEF tcp_client_send
  <2> HIDE DEF new
  <2>3. /\ stream' \in Seq(ucp_ctrl_packet_t) /\ Len(stream') = Len(stream) + 1
        /\ ToSet(stream') = ToSet(stream) \cup {new}
    BY <1>1, <2>1, <2>2, AppendSet
  <2>4. Len(stream) \in Nat /\ StreamCap \in Nat
    BY <1>1, LenProperties, ChannelAssumption
  <2>5. Len(stream') <= StreamCap
    BY <2>2, <2>3, <2>4
  <2> QED
    BY <1>2, <2>1, <2>3, <2>5
<1>3. ServerTypes /\ RangesOK /\ OnlySent /\ AcksAreSaved /\ Sent \subseteq Nat
  BY DEF TransferInv, TypeOK, ServerInv, Sent
<1>4. CASE Answer
  <2>1. qpc = "answer" /\ tcp_client_send(ucp_packet_init_ctrl(cur.seq_no, cur.flag))
    BY <1>4 DEF Answer
  <2>2. cur \in Reported
    BY <2>1 DEF Reported, UnderWay
  <2>3. /\ cur.seq_no \in Sent /\ cur.flag \in {UCP_FLAG_ACK, UCP_FLAG_NACK}
        /\ cur.flag = UCP_FLAG_ACK => cur.seq_no \in saved
    BY <1>3, <2>2 DEF OnlySent, AcksAreSaved, report_t
  <2>4. cur.flag # UCP_FLAG_FIN
    BY <2>3 DEF UCP_FLAG_ACK, UCP_FLAG_NACK, UCP_FLAG_FIN
  <2> QED
    BY <1>2, <1>3, <2>1, <2>3, <2>4
<1>5. CASE AskForMissing
  <2> DEFINE n == Min(missing)
  <2>1. qpc = "missing" /\ tcp_client_send(ucp_packet_init_ctrl(n, UCP_FLAG_NACK))
    BY <1>5 DEF AskForMissing
  <2>2. missing # {} /\ missing \subseteq Sent
    BY <2>1 DEF TransferInv, ServerInv, WellPlaced, OnlySent
  <2>3. n \in Sent
    BY <1>3, <2>2, MinProperties
  <2> HIDE DEF n
  <2>4. UCP_FLAG_NACK # UCP_FLAG_ACK /\ UCP_FLAG_NACK # UCP_FLAG_FIN
    BY DEF UCP_FLAG_ACK, UCP_FLAG_NACK, UCP_FLAG_FIN
  <2> QED
    BY <1>2, <1>3, <2>1, <2>3, <2>4
<1>6. CASE Finish
  <2> DEFINE n == sequencer.expectedLastSeqNo
  <2>1. /\ sequencer_complete(sequencer)
        /\ tcp_client_send(ucp_packet_init_ctrl(n, UCP_FLAG_FIN))
    BY <1>6 DEF Finish
  <2>2. n \in Sent
    BY <1>3, <2>1, CompleteIsWhole DEF OnlySent
  <2> HIDE DEF n
  <2>3. UCP_FLAG_FIN # UCP_FLAG_ACK
    BY DEF UCP_FLAG_ACK, UCP_FLAG_FIN
  <2> QED
    BY <1>2, <1>3, <1>6, <2>1, <2>2, <2>3
<1>7. CASE ~ (Answer \/ AskForMissing \/ Finish)
  <2>1. stream' = stream
    BY <1>7 DEF ServerNext, ReceiveMetadata, Exit, ReceiveData, Push, ReceiveUnknown,
                Leave, Cancelled, Pop, Cancel, channelVars
  <2> QED
    BY <1>1, <2>1
<1> QED
  BY <1>4, <1>5, <1>6, <1>7

\* Reports and ranges keep their types, and the list its order.
LEMMA ServerKeepsTypes ==
  ASSUME TransferInv, ServerNext, UNCHANGED clientVars
  PROVE  TypeOK' /\ WellPlaced' /\ RangesOK'
<1>1. ServerTypes /\ WellPlaced /\ RangesOK /\ OnlySent
  BY DEF TransferInv, ServerInv, TypeOK
<1>2. /\ metaInFlight \in BOOLEAN
      /\ udp \subseteq SeqNos
      /\ conn \in {"none", "open", "closed"}
      /\ skew \in 0 .. CTRL_SIZE - 1
  BY DEF TransferInv, TypeOK, ChannelTypes
<1>3. /\ mpc \in {"meta", "join", "exit"}
      /\ rpc \in {"none", "receive", "push", "return", "done"}
      /\ qpc \in {"none", "loop", "answer", "missing", "cancel", "done"}
      /\ saved \subseteq SeqNos /\ failed \in BOOLEAN
      /\ queue \in Seq(report_t)
      /\ sequencer \in sequencer_t
      /\ missing \subseteq SeqNos
      /\ success \in BOOLEAN
  BY <1>1 DEF ServerTypes
<1>4. ClientTypes'
  BY DEF TransferInv, TypeOK, ClientTypes, clientVars
<1>5. /\ metaInFlight' \in BOOLEAN
      /\ udp' \subseteq SeqNos
      /\ conn' \in {"none", "open", "closed"}
      /\ skew' \in 0 .. CTRL_SIZE - 1
  BY <1>2, ChannelAssumption
     DEF ServerNext, ReceiveMetadata, Exit, ReceiveData, Push, ReceiveUnknown, Leave,
         Cancelled, Pop, Answer, AskForMissing, Finish, Cancel, channelVars, TakeMeta,
         TakeData
<1>6. ChannelTypes'
  BY <1>5, StreamGrows DEF ChannelTypes
<1>7. /\ mpc' \in {"meta", "join", "exit"}
      /\ rpc' \in {"none", "receive", "push", "return", "done"}
      /\ qpc' \in {"none", "loop", "answer", "missing", "cancel", "done"}
      /\ success' \in BOOLEAN /\ failed' \in BOOLEAN
  BY <1>3 DEF ServerNext, ReceiveMetadata, Exit, ReceiveData, Push, ReceiveUnknown,
              Leave, Cancelled, Pop, Answer, AskForMissing, Finish, Cancel, serverVars,
              AfterAnswer
<1>8. saved' \subseteq SeqNos
  BY <1>3 DEF ServerNext, ReceiveMetadata, Exit, ReceiveData, Push, ReceiveUnknown,
              Leave, Cancelled, Pop, Answer, AskForMissing, Finish, Cancel, serverVars
<1>9. queue' \in Seq(report_t)
  <2>1. CASE \E n \in SeqNos, ok \in BOOLEAN : ReceiveData(n, ok)
    BY <1>3, <2>1 DEF ReceiveData
  <2>2. CASE Push \/ OtherThanReporting
    BY <1>1, <2>2, ReportsMove
  <2> QED
    BY <2>1, <2>2 DEF ServerNext, OtherThanReporting
<1>10. sequencer' \in sequencer_t /\ RangesOK' /\ missing' \subseteq SeqNos
  <2>1. CASE Pop \/ Finish
    <3>1. sequencer' = sequencer_merge(sequencer) /\ missing' = missing
      BY <2>1 DEF Pop, Finish
    <3> QED
      BY <1>1, <1>3, <3>1, MergeEffect DEF RangesOK
  <2>2. CASE Answer
    <3>1. /\ sequencer' = sequencer_add(sequencer, cur.seq_no, cur.flag = UCP_FLAG_DATA_END)
          /\ missing' = sequencer_missing(sequencer')
          /\ qpc = "answer" /\ qpc' # "answer"
      BY <2>2 DEF Answer, AfterAnswer
    <3>2. cur \in Reported
      BY <3>1 DEF Reported, UnderWay
    <3>3. cur \in report_t /\ cur.seq_no \in Sent
      BY <1>1, <3>2 DEF OnlySent
    <3>4. /\ sequencer' \in sequencer_t
          /\ Sorted(sequencer'.seq)
          /\ \E p : TouchingAt(sequencer'.seq) \subseteq {p}
          /\ sequencer'.maxSeqNo \in {sequencer.maxSeqNo, cur.seq_no}
      BY <1>1, <3>1, <3>3, AddEffect
    <3>5. RangesOK'
      BY <3>1, <3>4 DEF RangesOK
    <3>6. missing' \subseteq 0 .. sequencer'.maxSeqNo - 1
      BY <3>1 DEF sequencer_missing
    <3>7. Sent \subseteq SeqNos
      BY FirstAreSeqNos DEF TransferInv, TypeOK, ClientTypes, Sent
    <3>8. sequencer'.maxSeqNo \in SeqNos \cup {0}
      BY <1>1, <3>3, <3>4, <3>7 DEF OnlySent
    <3>9. 0 .. sequencer'.maxSeqNo - 1 \subseteq SeqNos
      BY <3>8, NumPacketsAssumption DEF SeqNos
    <3> QED
      BY <3>4, <3>5, <3>6, <3>9
  <2>3. CASE ~ (Pop \/ Finish \/ Answer)
    <3>1. /\ sequencer' = sequencer /\ missing' \subseteq missing
          /\ qpc' = "answer" => qpc = "answer"
      BY <2>3 DEF ServerNext, ReceiveMetadata, Exit, ReceiveData, Push, ReceiveUnknown,
                  Leave, Cancelled, AskForMissing, Cancel, serverVars, AfterAnswer
    <3> QED
      BY <1>1, <1>3, <3>1 DEF RangesOK
  <2> QED
    BY <2>1, <2>2, <2>3
<1>11. ServerTypes'
  BY <1>7, <1>8, <1>9, <1>10 DEF ServerTypes
<1>12. WellPlaced'
  BY <1>1 DEF WellPlaced, ServerNext, ReceiveMetadata, Exit, ReceiveData, Push,
              ReceiveUnknown, Leave, Cancelled, Pop, Answer, AskForMissing, Finish,
              Cancel, serverVars, AfterAnswer
<1> QED
  BY <1>4, <1>6, <1>10, <1>11, <1>12 DEF TypeOK

\* The server knows only numbers the client has sent, and acknowledges only
\* what is in the file.
LEMMA ServerKeepsSent ==
  ASSUME TransferInv, ServerNext, UNCHANGED clientVars
  PROVE  OnlySent' /\ AcksAreSaved'
<1>1. ServerTypes /\ WellPlaced /\ RangesOK /\ OnlySent /\ AcksAreSaved
  BY DEF TransferInv, ServerInv, TypeOK
<1>2. Sent' = Sent /\ Sent \subseteq Nat
  BY DEF Sent, clientVars
<1>3. saved \subseteq saved' /\ udp' \subseteq udp
  BY DEF ServerNext, ReceiveMetadata, Exit, ReceiveData, Push, ReceiveUnknown, Leave,
         Cancelled, Pop, Answer, AskForMissing, Finish, Cancel, serverVars, channelVars,
         TakeData
<1>4. saved' \subseteq Sent
  BY <1>1 DEF OnlySent, ServerNext, ReceiveMetadata, Exit, ReceiveData, Push,
              ReceiveUnknown, Leave, Cancelled, Pop, Answer, AskForMissing, Finish,
              Cancel, serverVars, TakeData
<1>5. /\ missing' \subseteq Sent
      /\ Covered(sequencer'.seq) \subseteq Sent
      /\ sequencer'.maxSeqNo \in Sent \cup {0}
  <2>1. CASE Pop \/ Finish
    <3>1. sequencer' = sequencer_merge(sequencer) /\ missing' = missing
      BY <2>1 DEF Pop, Finish
    <3> QED
      BY <1>1, <3>1, MergeEffect DEF OnlySent
  <2>2. CASE Answer
    <3>1. /\ sequencer' = sequencer_add(sequencer, cur.seq_no, cur.flag = UCP_FLAG_DATA_END)
          /\ missing' = sequencer_missing(sequencer')
          /\ qpc = "answer"
      BY <2>2 DEF Answer
    <3>2. cur \in Reported
      BY <3>1 DEF Reported, UnderWay
    <3>3. cur \in report_t /\ cur.seq_no \in Sent
      BY <1>1, <3>2 DEF OnlySent
    <3>4. /\ Covered(sequencer'.seq) \subseteq Covered(sequencer.seq) \cup {cur.seq_no}
          /\ sequencer'.maxSeqNo \in {sequencer.maxSeqNo, cur.seq_no}
      BY <1>1, <3>1, <3>3, AddEffect
    <3>5. /\ Covered(sequencer'.seq) \subseteq Sent
          /\ sequencer'.maxSeqNo \in Sent \cup {0}
      BY <1>1, <3>3, <3>4 DEF OnlySent
    <3>6. missing' \subseteq 0 .. sequencer'.maxSeqNo - 1
      BY <3>1 DEF sequencer_missing
    <3>7. nextSeqNo \in Nat
      BY NumPacketsAssumption DEF TransferInv, TypeOK, ClientTypes
    <3>8. 0 .. sequencer'.maxSeqNo - 1 \subseteq Sent
      BY <3>5, <3>7 DEF Sent
    <3> QED
      BY <3>5, <3>6, <3>8
  <2>3. CASE ~ (Pop \/ Finish \/ Answer)
    <3>1. sequencer' = sequencer /\ missing' \subseteq missing
      BY <2>3 DEF ServerNext, ReceiveMetadata, Exit, ReceiveData, Push, ReceiveUnknown,
                  Leave, Cancelled, AskForMissing, Cancel, serverVars
    <3> QED
      BY <1>1, <3>1 DEF OnlySent
  <2> QED
    BY <2>1, <2>2, <2>3
<1>6. \A r \in Reported' : /\ r \in report_t /\ r.seq_no \in Sent
                           /\ r.flag = UCP_FLAG_ACK => r.seq_no \in saved'
  <2>1. \A r \in Reported : /\ r \in report_t /\ r.seq_no \in Sent
                            /\ r.flag = UCP_FLAG_ACK => r.seq_no \in saved'
    BY <1>1, <1>3 DEF OnlySent, AcksAreSaved
  <2>2. ASSUME NEW n \in SeqNos, NEW ok \in BOOLEAN, ReceiveData(n, ok)
        PROVE  /\ report' \in report_t /\ report'.seq_no \in Sent
               /\ report'.flag = UCP_FLAG_ACK => report'.seq_no \in saved'
               /\ Reported' = UnderWay \cup {report'}
    <3>1. /\ report' = [seq_no |-> n, flag |-> IF ok THEN UCP_FLAG_ACK ELSE UCP_FLAG_NACK]
          /\ n \in udp /\ (ok => n \in saved')
      BY <2>2 DEF ReceiveData, TakeData
    <3>2. Reported' = UnderWay \cup {report'}
      BY <1>1, <2>2, ReportsMove
    <3>3. n \in Sent
      BY <1>1, <3>1 DEF OnlySent
    <3> QED
      BY <3>1, <3>2, <3>3 DEF report_t, UCP_FLAG_ACK, UCP_FLAG_NACK
  <2>3. CASE \E n \in SeqNos, ok \in BOOLEAN : ReceiveData(n, ok)
    BY <2>1, <2>2, <2>3 DEF Reported
  <2>4. CASE Push \/ OtherThanReporting
    <3>1. Reported' \subseteq Reported
      BY <1>1, <2>4, ReportsMove
    <3> QED
      BY <2>1, <3>1
  <2> QED
    BY <2>3, <2>4 DEF ServerNext, OtherThanReporting
<1>7. \A c \in ToSet(stream') : /\ c.seq_no \in Sent
                                /\ c.flag = UCP_FLAG_ACK => c.seq_no \in saved'
  BY <1>1, <1>3, StreamGrows DEF OnlySent, AcksAreSaved
<1>8. udp' \subseteq Sent
  BY <1>1, <1>3 DEF OnlySent
<1>9. OnlySent'
  BY <1>2, <1>4, <1>5, <1>6, <1>7, <1>8 DEF OnlySent
<1>10. AcksAreSaved'
  BY <1>6, <1>7 DEF AcksAreSaved
<1> QED
  BY <1>9, <1>10

\* Saves fail once, and without a failed save there is no FIN.
LEMMA ServerFailsOnce ==
  ASSUME TransferInv, ServerNext
  PROVE  FailsOnce' /\ FinishNeedsFailure'
<1> DEFINE C == Covered(sequencer.seq)
           e == sequencer.expectedLastSeqNo
<1>1. ServerTypes /\ WellPlaced /\ RangesOK /\ OnlySent /\ AcksAreSaved
  BY DEF TransferInv, ServerInv, TypeOK
<1>2. /\ ~ HasLeft => (\A r \in UnderWay : r.flag = UCP_FLAG_ACK) /\ C \subseteq saved
                      /\ e = UINT32_MAX
      /\ \E n \in Nat : /\ \A r \in UnderWay : r.seq_no \in saved \cup {n}
                        /\ C \subseteq saved \cup {n}
  BY DEF TransferInv, ServerInv, FailsOnce
<1>3. \A r \in UnderWay : r.flag = UCP_FLAG_ACK => r.seq_no \in saved
  BY <1>1 DEF AcksAreSaved, Reported
<1>4. /\ rpc = "push" /\ report.flag # UCP_FLAG_ACK => failed
      /\ HasLeft => failed
      /\ FinSent => HasLeft
  BY DEF TransferInv, ServerInv, FailsOnce, FinishNeedsFailure, HasLeft
<1>5. ASSUME NEW n \in SeqNos, NEW ok \in BOOLEAN, ReceiveData(n, ok)
      PROVE  FailsOnce' /\ FinishNeedsFailure'
  <2>1. /\ rpc = "receive" /\ saved \subseteq saved' /\ sequencer' = sequencer
        /\ qpc' = qpc /\ rpc' = "push"
    BY <1>5 DEF ReceiveData
  <2>2. UnderWay' = UnderWay
    BY <1>1, <1>5, ReportsMove
  <2>3. ~ HasLeft /\ ~ HasLeft' /\ ~ FinSent'
    BY <1>4, <2>1 DEF HasLeft, FinSent
  <2>4. (\A r \in UnderWay' : r.flag = UCP_FLAG_ACK) /\ C' \subseteq saved' /\ e' = UINT32_MAX
    BY <1>2, <2>1, <2>2, <2>3
  <2>5. \E m \in Nat : /\ \A r \in UnderWay' : r.seq_no \in saved' \cup {m}
                       /\ C' \subseteq saved' \cup {m}
    BY <1>2, <2>1, <2>2
  <2>6. report'.flag # UCP_FLAG_ACK => failed'
    BY <1>5 DEF ReceiveData
  <2> QED
    BY <2>3, <2>4, <2>5, <2>6 DEF FailsOnce, FinishNeedsFailure
<1>6. CASE Push
  <2>1. /\ rpc = "push" /\ saved' = saved /\ sequencer' = sequencer /\ qpc' = qpc
        /\ rpc' = (IF report.flag = UCP_FLAG_ACK THEN "receive" ELSE "return")
        /\ failed' = failed
    BY <1>6 DEF Push
  <2>2. UnderWay' = UnderWay \cup {report}
    BY <1>1, <1>6, ReportsMove
  <2>3. /\ ~ HasLeft /\ rpc' # "push" /\ ~ FinSent'
        /\ ~ HasLeft' => report.flag = UCP_FLAG_ACK
    BY <1>4, <2>1 DEF HasLeft, FinSent
  <2>4. report \in report_t /\ report.seq_no \in Nat
    <3>1. report \in Reported
      BY <2>1 DEF Reported
    <3> QED
      BY <1>1, <3>1, NumPacketsAssumption DEF OnlySent, report_t, SeqNos
  <2>5. ~ HasLeft' => (\A r \in UnderWay' : r.flag = UCP_FLAG_ACK) /\ C' \subseteq saved'
                      /\ e' = UINT32_MAX
    BY <1>2, <2>1, <2>2, <2>3
  <2>6. /\ \A r \in UnderWay' : r.seq_no \in saved' \cup {report.seq_no}
        /\ C' \subseteq saved' \cup {report.seq_no}
    BY <1>2, <1>3, <2>1, <2>2, <2>3
  <2>7. HasLeft' => failed'
    BY <1>4, <2>1 DEF HasLeft
  <2> QED
    BY <2>3, <2>4, <2>5, <2>6, <2>7 DEF FailsOnce, FinishNeedsFailure
<1>7. CASE OtherThanReporting
  <2>1. /\ saved' = saved /\ failed' = failed /\ (HasLeft' <=> HasLeft)
        /\ rpc' = "push" => rpc = "push" /\ report' = report
    BY <1>1, <1>7, <1>4 DEF HasLeft, FinSent, OtherThanReporting, ReceiveMetadata, Exit,
                            ReceiveUnknown, Leave, Cancelled, Pop, Answer, AskForMissing,
                            Finish, Cancel, serverVars, WellPlaced
  <2>2. UnderWay' \subseteq UnderWay
    BY <1>1, <1>7, ReportsMove
  <2>3. \/ C' \subseteq C /\ e' = e
        \/ /\ cur \in UnderWay /\ C' \subseteq C \cup {cur.seq_no}
           /\ cur.flag = UCP_FLAG_ACK => e' = e
    <3>1. CASE Pop \/ Finish
      <4>1. sequencer' = sequencer_merge(sequencer)
        BY <3>1 DEF Pop, Finish
      <4> QED
        BY <1>1, <4>1, MergeEffect
    <3>2. CASE Answer
      <4>1. /\ sequencer' = sequencer_add(sequencer, cur.seq_no, cur.flag = UCP_FLAG_DATA_END)
            /\ qpc = "answer"
        BY <3>2 DEF Answer
      <4>2. cur \in UnderWay
        BY <4>1 DEF UnderWay
      <4>3. cur \in report_t
        BY <1>1, <4>2 DEF OnlySent, Reported
      <4> QED
        BY <1>1, <4>1, <4>2, <4>3, AddEffect
    <3>3. CASE ~ (Pop \/ Finish \/ Answer)
      <4>1. sequencer' = sequencer
        BY <1>7, <3>3 DEF OtherThanReporting, ReceiveMetadata, Exit, ReceiveUnknown,
                          Leave, Cancelled, AskForMissing, Cancel, serverVars
      <4> QED
        BY <4>1
    <3> QED
      BY <3>1, <3>2, <3>3
  <2>4. ~ HasLeft' => (\A r \in UnderWay' : r.flag = UCP_FLAG_ACK) /\ C' \subseteq saved'
                      /\ e' = UINT32_MAX
    BY <1>2, <1>3, <2>1, <2>2, <2>3
  <2>5. \E n \in Nat : /\ \A r \in UnderWay' : r.seq_no \in saved' \cup {n}
                       /\ C' \subseteq saved' \cup {n}
    BY <1>2, <2>1, <2>2, <2>3
  <2>6. FinSent' => HasLeft
    <3>1. CASE Finish
      <4>1. sequencer_complete(sequencer)
        BY <3>1 DEF Finish
      <4>2. e \in Sent
        BY <1>1, <4>1, CompleteIsWhole DEF OnlySent
      <4>3. Sent \subseteq SeqNos
        BY FirstAreSeqNos DEF TransferInv, TypeOK, ClientTypes, Sent
      <4>4. UINT32_MAX \notin SeqNos
        BY ServerAssumption, NumPacketsAssumption, Uint32Assumption DEF SeqNos
      <4> QED
        BY <1>2, <4>2, <4>3, <4>4
    <3>2. CASE ~ Finish
      <4>1. FinSent' => FinSent
        BY <1>7, <3>2 DEF FinSent, OtherThanReporting, ReceiveMetadata, Exit,
                          ReceiveUnknown, Leave, Cancelled, Pop, Answer, AskForMissing,
                          Cancel, serverVars, AfterAnswer
      <4> QED
        BY <1>4, <4>1
    <3> QED
      BY <3>1, <3>2
  <2>7. /\ rpc' = "push" /\ report'.flag # UCP_FLAG_ACK => failed'
        /\ HasLeft' => failed'
        /\ FinSent' => failed' /\ HasLeft'
    BY <1>4, <2>1, <2>6
  <2> QED
    BY <2>4, <2>5, <2>7 DEF FailsOnce, FinishNeedsFailure, HasLeft
<1> QED
  BY <1>5, <1>6, <1>7 DEF ServerNext, OtherThanReporting

-----------------------------------------------------------------------------
(***************************************************************************)
(* The invariant of client and server.                                     *)
(***************************************************************************)

LEMMA TransferInit == Init => TransferInv
<1> SUFFICES ASSUME Init PROVE TransferInv
  OBVIOUS
<1>1. /\ metaInFlight = FALSE /\ udp = {} /\ conn = "none" /\ stream = << >> /\ skew = 0
      /\ cpc = "meta" /\ nextSeqNo = 0 /\ inFlight = << >> /\ pending = << >>
      /\ done = FALSE /\ child = FALSE /\ rspPkt = NoPacket
      /\ mpc = "meta" /\ rpc = "none" /\ qpc = "none" /\ saved = {} /\ queue = << >>
      /\ failed = FALSE /\ sequencer = sequencer_init /\ missing = {} /\ success = FALSE
  BY DEF Init, ChannelInit, ClientInit, ServerInit
<1>2. /\ sequencer.seq = << >> /\ sequencer.maxSeqNo = 0
      /\ sequencer.expectedLastSeqNo = UINT32_MAX
      /\ sequencer \in sequencer_t
  BY <1>1, Uint32Assumption DEF sequencer_init, sequencer_t, uint32
<1>3. /\ << >> \in Seq(SeqNos) /\ << >> \in Seq(report_t) /\ << >> \in Seq(ucp_ctrl_packet_t)
      /\ Len(<< >>) = 0
      /\ ToSet(<< >>) = {}
  BY DEF ToSet
<1>4. NoPacket \in ucp_packet_t
  BY BytesAreNumbers DEF NoPacket, ucp_packet_t
<1>5. ChannelTypes
  <2>1. 0 \in 0 .. CTRL_SIZE - 1 /\ 0 <= StreamCap
    BY ChannelAssumption DEF CTRL_SIZE
  <2>2. skew \in 0 .. CTRL_SIZE - 1 /\ Len(stream) <= StreamCap
    BY <1>1, <1>3, <2>1
  <2>3. metaInFlight \in BOOLEAN /\ udp \subseteq SeqNos
    BY <1>1
  <2> QED
    BY <1>1, <1>3, <2>2, <2>3 DEF ChannelTypes
<1>6. ClientTypes
  <2>1. nextSeqNo \in 0 .. NumPackets
    BY <1>1, NumPacketsAssumption
  <2>2. done \in BOOLEAN /\ child \in BOOLEAN
    BY <1>1
  <2>3. inFlight \in Seq(SeqNos) /\ pending \in Seq(SeqNos) /\ rspPkt \in ucp_packet_t
    BY <1>1, <1>3, <1>4
  <2> QED
    BY <1>1, <2>1, <2>2, <2>3 DEF ClientTypes
<1>7. ServerTypes
  BY <1>1, <1>2, <1>3 DEF ServerTypes
<1>8. ClientInv
  <2>1. Held = {}
    BY <1>1, <1>3 DEF Held
  <2>2. Distinct(inFlight) /\ Distinct(pending)
    BY <1>1, <1>3 DEF Distinct
  <2>3. IsInjective(inFlight \o pending)
    BY <1>1, <1>3, <2>1, <2>2, OncePerWindow DEF Held
  <2> QED
    BY <1>1, <2>1, <2>3 DEF ClientInv, WindowsHoldOnce, ClosedIsDone
<1>9. UnderWay = {} /\ Reported = {}
  BY <1>1, <1>3 DEF UnderWay, Reported
<1>10. Covered(sequencer.seq) = {}
  BY <1>2 DEF Covered
<1>11. RangesOK
  BY <1>1, <1>2 DEF RangesOK, Sorted, TouchingAt
<1>12. WellPlaced /\ OnlySent /\ AcksAreSaved /\ FailsOnce /\ FinishNeedsFailure
  BY <1>1, <1>2, <1>3, <1>9, <1>10
     DEF WellPlaced, OnlySent, AcksAreSaved, FailsOnce, FinishNeedsFailure, HasLeft,
         FinSent
<1> QED
  BY <1>5, <1>6, <1>7, <1>8, <1>11, <1>12 DEF TransferInv, ServerInv, TypeOK

\* The client only adds to what was sent and only takes from the stream.
LEMMA ClientKeepsInv ==
  ASSUME TransferInv, ClientStep
  PROVE  TransferInv'
<1>1. TypeOK /\ ClientInv /\ ServerInv /\ ClientNext /\ UNCHANGED serverVars
  BY DEF TransferInv, ClientStep
<1>2. /\ ChannelTypes' /\ ClientTypes'
      /\ ClientInv'
      /\ nextSeqNo' \in {nextSeqNo, nextSeqNo + 1}
      /\ ToSet(stream') \subseteq ToSet(stream)
      /\ udp' \subseteq udp \cup Sent'
  BY <1>1, ClientEffect
<1>3. ServerTypes'
  BY <1>1 DEF TypeOK, ServerTypes, serverVars
<1>4. Sent \subseteq Sent'
  <2>1. nextSeqNo \in Nat
    BY <1>1, NumPacketsAssumption DEF TypeOK, ClientTypes
  <2>2. \A m \in {nextSeqNo, nextSeqNo + 1} : 0 .. nextSeqNo - 1 \subseteq 0 .. m - 1
    BY <2>1
  <2> QED
    BY <1>2, <2>2 DEF Sent
<1>5. UnderWay' = UnderWay /\ Reported' = Reported
  BY <1>1 DEF UnderWay, Reported, serverVars
<1>6. /\ UNCHANGED <<mpc, rpc, qpc, saved, failed, report, missing>>
      /\ sequencer' = sequencer
  BY <1>1 DEF serverVars
<1>7. WellPlaced' /\ RangesOK' /\ FailsOnce' /\ FinishNeedsFailure'
  BY <1>1, <1>5, <1>6
     DEF ServerInv, WellPlaced, RangesOK, FailsOnce, FinishNeedsFailure, HasLeft, FinSent
<1>8. OnlySent'
  BY <1>1, <1>2, <1>4, <1>5, <1>6 DEF ServerInv, OnlySent
<1>9. AcksAreSaved'
  BY <1>1, <1>2, <1>5, <1>6 DEF ServerInv, AcksAreSaved
<1> QED
  BY <1>2, <1>3, <1>7, <1>8, <1>9 DEF TransferInv, TypeOK, ServerInv

\* The windows of the client are not the server's to touch.
LEMMA ServerKeepsInv ==
  ASSUME TransferInv, ServerStep
  PROVE  TransferInv'
<1>1. ServerNext /\ UNCHANGED clientVars
  BY DEF ServerStep
<1>2. ClientInv'
  BY <1>1 DEF TransferInv, ClientInv, ClosedIsDone, WindowsHoldOnce, Held, clientVars
<1> QED
  BY <1>1, <1>2, ServerKeepsTypes, ServerKeepsSent, ServerFailsOnce
     DEF TransferInv, ServerInv

LEMMA TransferNext == TransferInv /\ [Next]_vars => TransferInv'
<1> SUFFICES ASSUME TransferInv, [Next]_vars PROVE TransferInv'
  OBVIOUS
<1>1. CASE ClientStep
  BY <1>1, ClientKeepsInv
<1>2. CASE ServerStep
  BY <1>2, ServerKeepsInv
<1>3. CASE UNCHANGED vars
  <2>1. /\ TypeOK' = TypeOK /\ ClientInv' = ClientInv
    BY <1>3 DEF vars, channelVars, clientVars, serverVars, TypeOK, ChannelTypes,
                ClientTypes, ServerTypes, ClientInv, ClosedIsDone, WindowsHoldOnce, Held
  <2>2. ServerInv' = ServerInv
    BY <1>3 DEF vars, channelVars, clientVars, serverVars, ServerInv, WellPlaced,
                RangesOK, OnlySent, AcksAreSaved, FailsOnce, FinishNeedsFailure, FinSent,
                HasLeft, Sent, Reported, UnderWay
  <2> QED
    BY <2>1, <2>2 DEF TransferInv
<1> QED
  BY <1>1, <1>2, <1>3 DEF Next

\* However client, server and network interleave, the invariant holds.
THEOREM TransferInvariance == Spec => []TransferInv
BY TransferInit, TransferNext, PTL DEF Spec

-----------------------------------------------------------------------------
(***************************************************************************)
(* What holds of every transfer, however the connection is read.           *)
(***************************************************************************)

\* Windows, channels and what the threads of the server keep have their types:
\* no packet number leaves the part, no control packet the numbers sent.
THEOREM TransferTypes == Spec => []TypeOK
<1>1. TransferInv => TypeOK
  BY DEF TransferInv
<1> QED
  BY <1>1, TransferInvariance, PTL

\* A packet has one place in the windows of block_thread, and only packets
\* that were sent have one.
THEOREM OnePlaceInWindows == Spec => []WindowsHoldOnce
<1>1. TransferInv => WindowsHoldOnce
  BY DEF TransferInv, ClientInv
<1> QED
  BY <1>1, TransferInvariance, PTL

\* No control packet names a packet that was not sent.
THEOREM AnswersNameSentPackets == Spec => []AnswersAreForSent
<1>1. TransferInv => AnswersAreForSent
  <2> SUFFICES ASSUME TransferInv, NEW i \in DOMAIN stream
               PROVE  stream[i].seq_no < nextSeqNo
    BY DEF AnswersAreForSent
  <2>1. stream[i] \in ToSet(stream)
    BY DEF ToSet
  <2>2. stream[i].seq_no \in Sent
    BY <2>1 DEF TransferInv, ServerInv, OnlySent
  <2>3. nextSeqNo \in Nat
    BY NumPacketsAssumption DEF TransferInv, TypeOK, ClientTypes
  <2> QED
    BY <2>2, <2>3 DEF Sent
<1> QED
  BY <1>1, TransferInvariance, PTL

\* At most one number counts as received without being in the file: the
\* receiving thread reports one failed save and returns.
THEOREM OneFailureRecorded == Spec => []RecordedIsSavedButOne
<1>1. TransferInv => RecordedIsSavedButOne
  <2> SUFFICES ASSUME TransferInv PROVE RecordedIsSavedButOne
    OBVIOUS
  <2> DEFINE D == Covered(sequencer.seq) \ saved
  <2>1. PICK n \in Nat : Covered(sequencer.seq) \subseteq saved \cup {n}
    BY DEF TransferInv, ServerInv, FailsOnce
  <2>2. D \subseteq {n}
    BY <2>1
  <2> HIDE DEF D
  <2>3. IsFiniteSet({n}) /\ Cardinality({n}) = 1
    BY FS_Singleton
  <2>4. Cardinality(D) <= Cardinality({n})
    BY <2>2, <2>3, FS_Subset
  <2> QED
    BY <2>3, <2>4 DEF D, RecordedIsSavedButOne
<1> QED
  BY <1>1, TransferInvariance, PTL

\* There is no FIN without a failed save, for is_last of the reports is not
\* used, and when it is sent the receiving thread has left its loop: the
\* pthread_cancel that follows interrupts no receive, no save and no push.
THEOREM FinishFollowsFailure == Spec => []FinishNeedsFailure
<1>1. TransferInv => FinishNeedsFailure
  BY DEF TransferInv, ServerInv
<1> QED
  BY <1>1, TransferInvariance, PTL

\* Whenever the server merges, its loop over the ranges comes down to the one
\* absorption by which sequencer_merge and sequencer_complete are modelled.
THEOREM ServerMergesInOnePass ==
  Spec => [](MergePass(sequencer.seq) = MergeTouching(sequencer.seq))
<1>1. ASSUME TransferInv
      PROVE  MergePass(sequencer.seq) = MergeTouching(sequencer.seq)
  <2>1. sequencer.seq \in Lists
    BY <1>1 DEF TransferInv, TypeOK, ServerTypes, sequencer_t, Lists
  <2>2. PICK p : TouchingAt(sequencer.seq) \subseteq {p}
    BY <1>1 DEF TransferInv, ServerInv, RangesOK
  <2> QED
    BY <2>1, <2>2, PassMergesTouching
<1>2. TransferInv => MergePass(sequencer.seq) = MergeTouching(sequencer.seq)
  BY <1>1
<1> QED
  BY <1>2, TransferInvariance, PTL

\* A packet that was acknowledged does not come back into a window: a NACK is
\* looked up in the in-flight window before it moves anything.
THEOREM DroppedForGood == Spec => DroppedStaysDropped
<1>1. TransferInv /\ [Next]_vars
        => [\A n \in (0 .. nextSeqNo - 1) \ Held : n \notin Held']_vars
  <2> SUFFICES ASSUME TransferInv, [Next]_vars, NEW n \in Sent \ Held
               PROVE  n \notin Held'
    BY DEF Sent
  <2>1. CASE ClientStep
    <3>1. SendEffect \/ \E k \in 1 .. ReadMax : \E pkt \in ucp_packet_t : ReadEffect(k, pkt)
      BY <2>1, ClientEffect DEF ClientStep, TransferInv
    <3>2. Held' \subseteq Held \cup (nextSeqNo .. nextSeqNo' - 1)
      BY <3>1 DEF SendEffect, ReadEffect
    <3>3. n \notin nextSeqNo .. nextSeqNo' - 1
      BY NumPacketsAssumption DEF TransferInv, TypeOK, ClientTypes, Sent
    <3> QED
      BY <3>2, <3>3
  <2>2. CASE ServerStep \/ UNCHANGED vars
    <3>1. Held' = Held
      BY <2>2 DEF ServerStep, vars, clientVars, Held
    <3> QED
      BY <3>1
  <2> QED
    BY <2>1, <2>2 DEF Next
<1> QED
  BY <1>1, TransferInvariance, PTL DEF Spec, DroppedStaysDropped

-----------------------------------------------------------------------------
(***************************************************************************)
(* What an acknowledgement is worth.                                       *)
(***************************************************************************)

\* If the client takes the packet for an ACK, its data are in the file.
SavedIfAcked(pkt) == IsAck(pkt) /\ pkt.seq_no \in SeqNos => pkt.seq_no \in saved

AckInv == AckedIsSaved /\ SavedIfAcked(rspPkt)

LEMMA AckInit == Init => AckInv
<1> SUFFICES ASSUME Init PROVE AckInv
  OBVIOUS
<1>1. nextSeqNo = 0 /\ rspPkt.type = 0
  BY DEF Init, ClientInit, NoPacket
<1>2. AckedIsSaved
  BY <1>1 DEF AckedIsSaved
<1>3. ~ IsAck(rspPkt)
  BY <1>1 DEF IsAck, UCP_PACKET_TYPE_CTRL
<1> QED
  BY <1>2, <1>3 DEF AckInv, SavedIfAcked

\* As long as the client reads no ACK that was not meant, it drops only what is
\* in the file, and so does a read that leaves rsp_pkt as it was.
LEMMA AckNext ==
  ASSUME TransferInv, AckInv, [Next]_vars,
         \A k \in 1 .. ReadMax : \A pkt \in ucp_packet_t :
            ReadEffect(k, pkt) => SavedIfAcked(pkt)
  PROVE  AckInv'
<1>1. nextSeqNo \in Nat
  BY NumPacketsAssumption DEF TransferInv, TypeOK, ClientTypes
<1>2. Held \subseteq SeqNos
  <2>1. Held \subseteq Sent
    BY DEF TransferInv, ClientInv, WindowsHoldOnce, Sent
  <2> QED
    BY <2>1, FirstAreSeqNos DEF TransferInv, TypeOK, ClientTypes, Sent
<1>3. Sent \ Held \subseteq saved /\ SavedIfAcked(rspPkt)
  BY DEF AckInv, AckedIsSaved, Sent
<1>4. ASSUME Sent' \ Held' \subseteq saved', SavedIfAcked(rspPkt)'
      PROVE  AckInv'
  BY <1>4 DEF AckInv, AckedIsSaved, Sent
<1>5. CASE ClientStep
  <2>1. saved' = saved
    BY <1>5 DEF ClientStep, serverVars
  <2>2. /\ SendEffect \/ \E k \in 1 .. ReadMax : \E pkt \in ucp_packet_t : ReadEffect(k, pkt)
        /\ nextSeqNo' \in {nextSeqNo, nextSeqNo + 1}
    BY <1>5, ClientEffect DEF ClientStep, TransferInv
  <2>3. CASE SendEffect
    <3>1. Held' = Held \cup (nextSeqNo .. nextSeqNo' - 1) /\ rspPkt' = rspPkt
      BY <2>3 DEF SendEffect
    <3>2. Sent' = Sent \cup (nextSeqNo .. nextSeqNo' - 1)
      <4>1. \A m \in {nextSeqNo, nextSeqNo + 1} :
              0 .. m - 1 = (0 .. nextSeqNo - 1) \cup (nextSeqNo .. m - 1)
        BY <1>1
      <4> QED
        BY <2>2, <4>1 DEF Sent
    <3>3. Sent' \ Held' \subseteq saved'
      BY <1>3, <2>1, <3>1, <3>2
    <3>4. SavedIfAcked(rspPkt)'
      BY <1>3, <2>1, <3>1 DEF SavedIfAcked, IsAck
    <3> QED
      BY <1>4, <3>3, <3>4
  <2>4. ASSUME NEW k \in 1 .. ReadMax, NEW pkt \in ucp_packet_t, ReadEffect(k, pkt)
        PROVE  AckInv'
    <3>1. /\ SavedIfAcked(pkt)
          /\ rspPkt' = pkt /\ nextSeqNo' = nextSeqNo
          /\ \/ Held' = Held
             \/ IsAck(pkt) /\ pkt.seq_no \in Held /\ Held' = Held \ {pkt.seq_no}
      BY <2>4 DEF ReadEffect
    <3>2. Sent' = Sent
      BY <3>1 DEF Sent
    <3>3. Sent' \ Held' \subseteq saved'
      BY <1>2, <1>3, <2>1, <3>1, <3>2 DEF SavedIfAcked
    <3>4. SavedIfAcked(rspPkt)'
      BY <2>1, <3>1 DEF SavedIfAcked, IsAck
    <3> QED
      BY <1>4, <3>3, <3>4
  <2> QED
    BY <2>2, <2>3, <2>4
<1>6. CASE ServerStep \/ UNCHANGED vars
  <2>1. UNCHANGED clientVars
    BY <1>6 DEF ServerStep, vars
  <2>2. saved \subseteq saved'
    BY <1>6 DEF ServerStep, vars, ServerNext, ReceiveMetadata, Exit, ReceiveData, Push,
                ReceiveUnknown, Leave, Cancelled, Pop, Answer, AskForMissing, Finish,
                Cancel, serverVars
  <2>3. Sent' = Sent /\ Held' = Held /\ rspPkt' = rspPkt
    BY <2>1 DEF clientVars, Sent, Held
  <2>4. Sent' \ Held' \subseteq saved'
    BY <1>3, <2>2, <2>3
  <2>5. SavedIfAcked(rspPkt)'
    BY <1>3, <2>2, <2>3 DEF SavedIfAcked, IsAck
  <2> QED
    BY <1>4, <2>4, <2>5
<1> QED
  BY <1>5, <1>6 DEF Next

\* What the client holds when the decoder left rsp_pkt alone.
LEMMA UndecodedAck ==
  ASSUME AckInv, NEW pkt \in {rspPkt, NoPacket}
  PROVE  SavedIfAcked(pkt)
<1>1. ~ IsAck(NoPacket)
  BY DEF IsAck, NoPacket, UCP_PACKET_TYPE_CTRL
<1> QED
  BY <1>1 DEF AckInv, SavedIfAcked

\* While numbers fit into two bytes, an ACK of the client is one the server
\* sent, whatever the cuts: the bytes of two packets do not combine into one.
LEMMA SmallPartInv ==
  ASSUME NumPackets <= TwoBytes
  PROVE  TransferInv /\ AckInv /\ [Next]_vars => AckInv'
<1> SUFFICES ASSUME TransferInv, AckInv, [Next]_vars PROVE AckInv'
  OBVIOUS
<1>1. ASSUME NEW k \in 1 .. ReadMax, NEW pkt \in ucp_packet_t, ReadEffect(k, pkt)
      PROVE  SavedIfAcked(pkt)
  <2>1. k \in ReadSizes /\ pkt \in Decoded(BytesRead(k))
    BY <1>1 DEF ReadEffect
  <2>2. CASE DecodesAsCtrl(BytesRead(k))
    <3> SUFFICES ASSUME IsAck(pkt), pkt.seq_no \in SeqNos
                 PROVE  pkt.seq_no \in saved
      BY DEF SavedIfAcked
    <3>1. pkt = ucp_packet_decode_ctrl_data(BytesRead(k)) /\ pkt.flag = UCP_FLAG_ACK
      BY <2>1, <2>2 DEF Decoded, IsAck
    <3>2. /\ stream \in Seq(ucp_ctrl_packet_t) /\ skew \in 0 .. CTRL_SIZE - 1
      BY DEF TransferInv, TypeOK, ChannelTypes
    <3>3. \A d \in ToSet(stream) : /\ d.seq_no \in SeqNos
                                   /\ d.flag = UCP_FLAG_ACK => d.seq_no \in saved
      <4>1. Sent \subseteq SeqNos
        BY FirstAreSeqNos DEF TransferInv, TypeOK, ClientTypes, Sent
      <4> QED
        BY <4>1 DEF TransferInv, ServerInv, OnlySent, AcksAreSaved
    <3>4. \E d \in ToSet(stream) : d.flag = UCP_FLAG_ACK /\ d.seq_no = pkt.seq_no
      BY <2>1, <2>2, <3>1, <3>2, <3>3, AckAsSent
    <3> QED
      BY <3>3, <3>4
  <2>3. CASE ~ DecodesAsCtrl(BytesRead(k))
    <3>1. pkt \in {rspPkt, NoPacket}
      BY <2>1, <2>3 DEF Decoded
    <3> QED
      BY <3>1, UndecodedAck
  <2> QED
    BY <2>2, <2>3
<1> QED
  BY <1>1, AckNext

-----------------------------------------------------------------------------
(***************************************************************************)
(* Transfers in which no read cuts a packet.                               *)
(***************************************************************************)

\* All the connection holds fits into one read, and sequence numbers into the
\* four bytes they are sent in.
WholeReads ==
  /\ ~ Segmentation /\ ReadMax >= CTRL_SIZE * StreamCap
  /\ UINT32_MAX < FourBytes

\* A FIN is sent, read and acted upon only after the sequencing thread has sent it.
FinAtEnd ==
  /\ skew = 0
  /\ \A c \in ToSet(stream) : c.flag = UCP_FLAG_FIN => FinSent
  /\ done => FinSent
  /\ IsFin(rspPkt) => FinSent

WholeInv == AckInv /\ FinAtEnd

LEMMA WholeInit == Init => WholeInv
<1> SUFFICES ASSUME Init PROVE WholeInv
  OBVIOUS
<1>1. skew = 0 /\ stream = << >> /\ done = FALSE /\ rspPkt.type = 0
  BY DEF Init, ChannelInit, ClientInit, NoPacket
<1>2. ToSet(<< >>) = {}
  BY DEF ToSet
<1>3. ~ IsFin(rspPkt)
  BY <1>1 DEF IsFin, UCP_PACKET_TYPE_CTRL
<1> QED
  BY <1>1, <1>2, <1>3, AckInit DEF WholeInv, FinAtEnd

\* A read takes all there is, and its handler sees the first packet of it.
LEMMA WholeRead ==
  ASSUME WholeReads, TransferInv, WholeInv,
         NEW k \in 1 .. ReadMax, NEW pkt \in ucp_packet_t, ReadEffect(k, pkt)
  PROVE  /\ skew' = 0
         /\ SavedIfAcked(pkt)
         /\ IsFin(pkt) => FinSent
<1>1. /\ stream \in Seq(ucp_ctrl_packet_t) /\ Len(stream) \in Nat
      /\ Len(stream) <= StreamCap /\ StreamCap \in Nat /\ ReadMax \in Nat
      /\ skew \in 0 .. CTRL_SIZE - 1 /\ skew = 0
  BY LenProperties, ChannelAssumption
     DEF TransferInv, TypeOK, ChannelTypes, WholeInv, FinAtEnd
<1>2. k \in ReadSizes /\ Consume(k) /\ pkt \in Decoded(BytesRead(k))
  BY DEF ReadEffect
<1>3. /\ k \in Nat \ {0} /\ k <= CTRL_SIZE * Len(stream) - skew
      /\ 1 \in 1 .. Len(stream)
      /\ k = ReadMax \/ k = CTRL_SIZE * Len(stream) - skew
  BY <1>1, <1>2, SizeOfRead DEF WholeReads
<1>4. k = 6 * Len(stream)
  BY <1>1, <1>3 DEF WholeReads, CTRL_SIZE
<1>5. skew' = 0
  <2>1. skew' = (skew + k) % CTRL_SIZE
    BY <1>2 DEF Consume
  <2>2. \A n \in Nat : (6 * n) % 6 = 0
    OBVIOUS
  <2>3. (0 + k) % 6 = 0
    BY <1>1, <1>4, <2>2
  <2> QED
    BY <1>1, <2>1, <2>3 DEF CTRL_SIZE
<1>6. CASE DecodesAsCtrl(BytesRead(k))
  <2>1. pkt = ucp_packet_decode_ctrl_data(BytesRead(k))
    BY <1>2, <1>6 DEF Decoded
  <2>2. stream[1] \in ToSet(stream)
    BY <1>1, <1>3, SetOfSeq
  <2>3. /\ stream[1].seq_no \in Sent
        /\ stream[1].flag = UCP_FLAG_ACK => stream[1].seq_no \in saved
        /\ stream[1].flag = UCP_FLAG_FIN => FinSent
    BY <2>2 DEF TransferInv, ServerInv, OnlySent, AcksAreSaved, WholeInv, FinAtEnd
  <2>4. stream[1].seq_no < FourBytes
    <3>1. Sent \subseteq SeqNos
      BY FirstAreSeqNos DEF TransferInv, TypeOK, ClientTypes, Sent
    <3>2. /\ stream[1].seq_no \in Nat /\ stream[1].seq_no < NumPackets
          /\ NumPackets \in Nat /\ NumPackets <= UINT32_MAX /\ UINT32_MAX \in Nat
      <4>1. stream[1].seq_no \in SeqNos
        BY <2>3, <3>1
      <4>2. \A n \in SeqNos : n \in Nat /\ n < NumPackets
        BY NumPacketsAssumption DEF SeqNos
      <4> QED
        BY <4>1, <4>2, NumPacketsAssumption, ServerAssumption, Uint32Assumption
    <3>3. UINT32_MAX < FourBytes /\ FourBytes \in Nat
      <4>1. FourBytes \in Nat
        BY DEF FourBytes
      <4> QED
        BY <4>1 DEF WholeReads
    <3> QED
      BY ONLY <3>2, <3>3
  <2>5. pkt.flag = stream[1].flag /\ pkt.seq_no = stream[1].seq_no
    BY <1>1, <1>2, <1>6, <2>1, <2>4, WholePacket
  <2> QED
    BY <1>5, <2>3, <2>5 DEF SavedIfAcked, IsAck, IsFin
<1>7. CASE ~ DecodesAsCtrl(BytesRead(k))
  <2>1. pkt \in {rspPkt, NoPacket}
    BY <1>2, <1>7 DEF Decoded
  <2>2. SavedIfAcked(pkt)
    BY <2>1, UndecodedAck DEF WholeInv
  <2>3. ~ IsFin(NoPacket)
    BY DEF IsFin, NoPacket, UCP_PACKET_TYPE_CTRL
  <2> QED
    BY <1>5, <2>1, <2>2, <2>3 DEF WholeInv, FinAtEnd
<1> QED
  BY <1>6, <1>7

LEMMA WholeNext ==
  ASSUME WholeReads
  PROVE  TransferInv /\ WholeInv /\ [Next]_vars => WholeInv'
<1> SUFFICES ASSUME TransferInv, WholeInv, [Next]_vars PROVE WholeInv'
  OBVIOUS
<1>1. AckInv'
  BY AckNext, WholeRead DEF WholeInv
<1>2. FinAtEnd
  BY DEF WholeInv
<1>3. CASE ClientStep
  <2>1. /\ SendEffect \/ \E k \in 1 .. ReadMax : \E pkt \in ucp_packet_t : ReadEffect(k, pkt)
        /\ ToSet(stream') \subseteq ToSet(stream)
        /\ FinSent' = FinSent
    BY <1>3, ClientEffect DEF ClientStep, TransferInv, serverVars, FinSent
  <2>2. ASSUME SendEffect
        PROVE  FinAtEnd'
    BY <1>2, <2>1, <2>2 DEF SendEffect, FinAtEnd, IsFin
  <2>3. ASSUME NEW k \in 1 .. ReadMax, NEW pkt \in ucp_packet_t, ReadEffect(k, pkt)
        PROVE  FinAtEnd'
    <3>1. skew' = 0 /\ (IsFin(pkt) => FinSent)
      BY <2>3, WholeRead
    <3>2. rspPkt' = pkt /\ done' = IsFin(pkt)
      BY <2>3 DEF ReadEffect
    <3> QED
      BY <1>2, <2>1, <3>1, <3>2 DEF FinAtEnd, IsFin
  <2>4. FinAtEnd'
    BY <2>1, <2>2, <2>3
  <2> QED
    BY <1>1, <2>4 DEF WholeInv
<1>4. CASE ServerStep
  <2>1. /\ ServerNext /\ skew' = skew /\ done' = done /\ rspPkt' = rspPkt
        /\ Finish => FinSent'
        /\ FinSent => FinSent'
    BY <1>4 DEF ServerStep, clientVars, TransferInv, ServerInv, WellPlaced, FinSent,
                ServerNext, ReceiveMetadata, Exit, ReceiveData, Push, ReceiveUnknown,
                Leave, Cancelled, Pop, Answer, AskForMissing, Finish, Cancel,
                channelVars, serverVars
  <2>2. \A c \in ToSet(stream') : c.flag = UCP_FLAG_FIN => FinSent'
    BY <1>2, <2>1, StreamGrows DEF FinAtEnd
  <2>3. FinAtEnd'
    BY <1>2, <2>1, <2>2 DEF FinAtEnd, IsFin
  <2> QED
    BY <1>1, <2>3 DEF WholeInv
<1>5. CASE UNCHANGED vars
  <2>1. FinAtEnd'
    BY <1>2, <1>5 DEF vars, channelVars, clientVars, serverVars, FinAtEnd, FinSent, IsFin
  <2> QED
    BY <1>1, <2>1 DEF WholeInv
<1> QED
  BY <1>3, <1>4, <1>5 DEF Next

\* Only a cut packet is taken for a FIN the server did not send.
THEOREM FinComesFromServer ==
  ASSUME WholeReads
  PROVE  Spec => []FinIsFromServer
<1>1. TransferInv /\ WholeInv /\ [Next]_vars => WholeInv'
  BY WholeNext
<1>2. WholeInv => FinIsFromServer
  BY DEF WholeInv, FinAtEnd, FinIsFromServer
<1> QED
  BY <1>1, <1>2, WholeInit, TransferInvariance, PTL DEF Spec

\* A packet that is in no window any more is in the file: in a part of up to
\* 65536 packets however the connection is read, and in any part while no read
\* cuts a packet.
THEOREM AcknowledgedIsSaved ==
  ASSUME NumPackets <= TwoBytes \/ WholeReads
  PROVE  Spec => []AckedIsSaved
<1>1. AckInv => AckedIsSaved
  BY DEF AckInv
<1>2. CASE NumPackets <= TwoBytes
  <2>1. TransferInv /\ AckInv /\ [Next]_vars => AckInv'
    BY <1>2, SmallPartInv
  <2> QED
    BY <1>1, <2>1, AckInit, TransferInvariance, PTL DEF Spec
<1>3. CASE WholeReads
  <2>1. TransferInv /\ WholeInv /\ [Next]_vars => WholeInv'
    BY <1>3, WholeNext
  <2>2. WholeInv => AckInv
    BY DEF WholeInv
  <2> QED
    BY <1>1, <2>1, <2>2, WholeInit, TransferInvariance, PTL DEF Spec
<1> QED
  BY <1>2, <1>3

\* A client that runs out of packets has then delivered them all.
THEOREM ExhaustedDeliversAll ==
  ASSUME NumPackets <= TwoBytes \/ WholeReads
  PROVE  Spec => []ExhaustedIsComplete
<1>1. TransferInv /\ AckedIsSaved => ExhaustedIsComplete
  <2> SUFFICES ASSUME TransferInv, AckedIsSaved, cpc = "closed", ~ done
               PROVE  saved = SeqNos
    BY DEF ExhaustedIsComplete
  <2>1. nextSeqNo = NumPackets /\ Held = {}
    BY DEF TransferInv, ClientInv, ClosedIsDone
  <2>2. SeqNos \subseteq saved
    BY <2>1 DEF AckedIsSaved, SeqNos
  <2>3. saved \subseteq SeqNos
    BY DEF TransferInv, TypeOK, ServerTypes
  <2> QED
    BY <2>2, <2>3
<1> QED
  BY <1>1, AcknowledgedIsSaved, TransferInvariance, PTL

-----------------------------------------------------------------------------
(***************************************************************************)
(* Client and server implement ReliableTransfer.                           *)
(***************************************************************************)

\* The state of the abstract transfer.
HeldPackets == Unsent \cup Held
Outcome == CASE cpc # "closed" -> "running"
             [] cpc = "closed" /\ done -> "stopped"
             [] OTHER -> "complete"

AbstractVars == <<HeldPackets, saved, FinSent, Outcome>>

LEMMA AbstractInit == Init => Reliable!RTInit
<1> SUFFICES ASSUME Init PROVE Reliable!RTInit
  OBVIOUS
<1>1. /\ nextSeqNo = 0 /\ inFlight = << >> /\ pending = << >>
      /\ cpc = "meta" /\ qpc = "none" /\ saved = {}
  BY DEF Init, ClientInit, ServerInit
<1>2. Unsent \cup Held = SeqNos
  <2>1. ToSet(<< >>) = {}
    BY DEF ToSet
  <2> QED
    BY <1>1, <2>1 DEF Unsent, Held, SeqNos
<1> QED
  BY <1>1, <1>2 DEF Reliable!RTInit, FinSent

\* A step of the client is a release, the end of the transfer or nothing.
LEMMA AbstractClientStep ==
  ASSUME WholeReads, TransferInv, WholeInv, ClientStep
  PROVE  Reliable!RTNext \/ UNCHANGED AbstractVars
<1>1. /\ nextSeqNo \in Nat /\ NumPackets \in Nat /\ nextSeqNo <= NumPackets
      /\ Held \subseteq Sent
  BY NumPacketsAssumption DEF TransferInv, TypeOK, ClientTypes, ClientInv, WindowsHoldOnce, Sent
<1>2. /\ SendEffect \/ \E k \in 1 .. ReadMax : \E pkt \in ucp_packet_t : ReadEffect(k, pkt)
      /\ nextSeqNo' \in {nextSeqNo, nextSeqNo + 1} /\ nextSeqNo' <= NumPackets
      /\ cpc # "closed" /\ done = FALSE
  <2>1. ClientTypes'
    BY ClientEffect DEF ClientStep, TransferInv
  <2>2. nextSeqNo' <= NumPackets
    BY <2>1, NumPacketsAssumption DEF ClientTypes
  <2> QED
    BY <2>2, ClientEffect DEF ClientStep, TransferInv
<1>3. saved' = saved /\ FinSent' = FinSent
  BY DEF ClientStep, serverVars, FinSent
<1>4. Outcome = "running"
  BY <1>2 DEF Outcome
<1>5. CASE SendEffect
  <2>1. /\ Held' = Held \cup (nextSeqNo .. nextSeqNo' - 1) /\ done' = FALSE
        /\ cpc' = "closed" => nextSeqNo = NumPackets /\ Held = {}
    BY <1>2, <1>5 DEF SendEffect
  <2>2. HeldPackets' = HeldPackets
    <3>1. \A m \in {nextSeqNo, nextSeqNo + 1} : m <= NumPackets =>
             (m .. NumPackets - 1) \cup (nextSeqNo .. m - 1) = nextSeqNo .. NumPackets - 1
      BY <1>1
    <3>2. (nextSeqNo' .. NumPackets - 1) \cup (nextSeqNo .. nextSeqNo' - 1)
            = nextSeqNo .. NumPackets - 1
      BY <1>2, <3>1
    <3> QED
      BY <2>1, <3>2 DEF HeldPackets, Unsent
  <2>3. CASE cpc' # "closed"
    BY <1>3, <1>4, <2>2, <2>3 DEF Outcome, AbstractVars
  <2>4. CASE cpc' = "closed"
    <3>1. HeldPackets = {}
      BY <1>1, <2>1, <2>4 DEF HeldPackets, Unsent
    <3>2. Outcome' = "complete"
      BY <2>1, <2>4 DEF Outcome
    <3>3. Reliable!Complete
      BY <1>3, <1>4, <2>2, <3>1, <3>2 DEF Reliable!Complete, HeldPackets, Outcome
    <3> QED
      BY <3>3 DEF Reliable!RTNext
  <2> QED
    BY <2>3, <2>4
<1>6. ASSUME NEW k \in 1 .. ReadMax, NEW pkt \in ucp_packet_t, ReadEffect(k, pkt)
      PROVE  Reliable!RTNext \/ UNCHANGED AbstractVars
  <2> DEFINE p == pkt.seq_no
  <2>1. /\ nextSeqNo' = nextSeqNo
        /\ \/ Held' = Held
           \/ IsAck(pkt) /\ p \in Held /\ Held' = Held \ {p}
        /\ done' = IsFin(pkt)
        /\ cpc' = IF done' THEN "closed" ELSE "send"
    BY <1>6 DEF ReadEffect
  <2>2. SavedIfAcked(pkt) /\ (IsFin(pkt) => FinSent)
    BY <1>6, WholeRead
  <2>3. Unsent' = Unsent
    BY <2>1 DEF Unsent
  <2>4. Outcome' = IF IsFin(pkt) THEN "stopped" ELSE "running"
    BY <2>1 DEF Outcome
  <2>5. CASE Held' = Held
    <3>1. HeldPackets' = HeldPackets
      BY <2>3, <2>5 DEF HeldPackets
    <3>2. CASE IsFin(pkt)
      <4>1. Reliable!Stop
        BY <1>3, <1>4, <2>2, <2>4, <3>1, <3>2 DEF Reliable!Stop, HeldPackets, Outcome
      <4> QED
        BY <4>1 DEF Reliable!RTNext
    <3>3. CASE ~ IsFin(pkt)
      BY <1>3, <1>4, <2>4, <3>1, <3>3 DEF AbstractVars
    <3> QED
      BY <3>2, <3>3
  <2>6. CASE IsAck(pkt) /\ p \in Held /\ Held' = Held \ {p}
    <3>1. ~ IsFin(pkt)
      BY <2>6 DEF IsAck, IsFin, UCP_FLAG_ACK, UCP_FLAG_FIN
    <3>2. p \in SeqNos /\ p \notin Unsent
      <4>1. p \in Sent
        BY <1>1, <2>6
      <4>2. \A n \in 0 .. nextSeqNo - 1 :
              n \in 0 .. NumPackets - 1 /\ n \notin nextSeqNo .. NumPackets - 1
        BY <1>1
      <4> QED
        BY <4>1, <4>2 DEF Sent, SeqNos, Unsent
    <3> HIDE DEF p
    <3>3. HeldPackets' = HeldPackets \ {p}
      BY <2>3, <2>6, <3>2 DEF HeldPackets
    <3>4. p \in HeldPackets \cap saved
      BY <2>2, <2>6, <3>2 DEF HeldPackets, SavedIfAcked, p
    <3>5. Outcome' = Outcome
      BY <1>4, <2>4, <3>1
    <3>6. Reliable!Release(p)
      BY <1>3, <1>4, <3>3, <3>4, <3>5 DEF Reliable!Release, HeldPackets, Outcome
    <3> QED
      BY <3>2, <3>6 DEF Reliable!RTNext
  <2> QED
    BY <2>1, <2>5, <2>6
<1> QED
  BY <1>2, <1>5, <1>6

\* A step of the server is a delivery, the declaration of the end or nothing.
LEMMA AbstractServerStep ==
  ASSUME TransferInv, ServerStep
  PROVE  Reliable!RTNext \/ UNCHANGED AbstractVars
<1>1. ServerNext /\ HeldPackets' = HeldPackets /\ Outcome' = Outcome
  BY DEF ServerStep, clientVars, HeldPackets, Unsent, Held, Outcome
<1>2. ASSUME NEW n \in SeqNos, NEW ok \in BOOLEAN, ReceiveData(n, ok)
      PROVE  Reliable!RTNext \/ UNCHANGED AbstractVars
  <2>1. saved' = (IF ok THEN saved \cup {n} ELSE saved) /\ FinSent' = FinSent
    BY <1>2 DEF ReceiveData, FinSent
  <2>2. CASE ok
    <3>1. Reliable!Deliver(n)
      BY <1>1, <2>1, <2>2 DEF Reliable!Deliver, HeldPackets, Outcome
    <3> QED
      BY <3>1 DEF Reliable!RTNext
  <2>3. CASE ~ ok
    BY <1>1, <2>1, <2>3 DEF AbstractVars
  <2> QED
    BY <2>2, <2>3
<1>3. CASE Finish
  <2>1. ~ FinSent /\ FinSent' /\ saved' = saved
    BY <1>3 DEF Finish, FinSent
  <2>2. Reliable!Declare
    BY <1>1, <2>1 DEF Reliable!Declare, HeldPackets, Outcome
  <2> QED
    BY <2>2 DEF Reliable!RTNext
<1>4. CASE \/ ReceiveMetadata \/ Exit \/ Push \/ ReceiveUnknown \/ Leave \/ Cancelled
           \/ Pop \/ Answer \/ AskForMissing \/ Cancel
  <2>1. saved' = saved /\ (FinSent' <=> FinSent)
    BY <1>4 DEF TransferInv, ServerInv, WellPlaced, ReceiveMetadata, Exit, Push,
                ReceiveUnknown, Leave, Cancelled, Pop, Answer, AskForMissing, Cancel,
                AfterAnswer, serverVars, FinSent
  <2> QED
    BY <1>1, <2>1 DEF AbstractVars
<1> QED
  BY <1>1, <1>2, <1>3, <1>4 DEF ServerNext

\* Without cuts, and whatever is lost, repeated or fails to be saved, the client
\* releases a packet only after the server has it, and ends with nothing left
\* or after the FIN.
THEOREM TransferIsReliable ==
  ASSUME WholeReads
  PROVE  Spec => ImplementsReliableTransfer
<1>1. TransferInv /\ WholeInv /\ [Next]_vars => WholeInv'
  BY WholeNext
<1>2. TransferInv /\ WholeInv /\ [Next]_vars => [Reliable!RTNext]_AbstractVars
  <2> SUFFICES ASSUME TransferInv, WholeInv, [Next]_vars
               PROVE  Reliable!RTNext \/ UNCHANGED AbstractVars
    OBVIOUS
  <2>1. CASE UNCHANGED vars
    BY <2>1 DEF vars, clientVars, serverVars, AbstractVars, HeldPackets, Unsent, Held,
                Outcome, FinSent
  <2> QED
    BY <2>1, AbstractClientStep, AbstractServerStep DEF Next
<1> QED
  BY <1>1, <1>2, WholeInit, AbstractInit, TransferInvariance, PTL
     DEF Spec, ImplementsReliableTransfer, Reliable!RTSpec, Reliable!rtVars,
         AbstractVars, HeldPackets, Outcome

=============================================================================
