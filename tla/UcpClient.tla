------------------------------ MODULE UcpClient ------------------------------
(***************************************************************************)
(* One sending thread of ucp_client.c (block_thread) with its two windows: *)
(* packets in flight, sent and not acknowledged, and packets pending, sent *)
(* and asked for again.  Each turn of its loop sends one packet and then   *)
(* ticks the TCP server once, which reads the acknowledgement connection   *)
(* at most once.                                                           *)
(***************************************************************************)
EXTENDS UcpChannels

VARIABLES cpc,         \* where the thread is: "meta", "accept", "send", "tick", "closed"
          nextSeqNo,   \* last_seq_no of the partition handle
          inFlight,    \* in_flight_packet_list
          pending,     \* pending_packet_list
          done,        \* the flag a FIN sets
          child,       \* the accepted connection is watched by select
          rspPkt       \* what the stack slot of rsp_pkt holds

clientVars == <<cpc, nextSeqNo, inFlight, pending, done, child, rspPkt>>

\* Stack contents that are no control packet.
NoPacket == [type |-> 0, flag |-> 0, seq_no |-> 0]

ClientInit ==
  /\ cpc = "meta"
  /\ nextSeqNo = 0
  /\ inFlight = << >>
  /\ pending = << >>
  /\ done = FALSE
  /\ child = FALSE
  /\ rspPkt = NoPacket

-----------------------------------------------------------------------------
(***************************************************************************)
(* Opening the transfer.                                                   *)
(***************************************************************************)

\* The metadata goes out once and is not repeated.
SendMetadata ==
  /\ cpc = "meta"
  /\ SendMeta
  /\ cpc' = "accept"
  /\ UNCHANGED <<udp, conn, stream, skew>>
  /\ UNCHANGED <<nextSeqNo, inFlight, pending, done, child, rspPkt>>

\* tcp_server_accept blocks until the server has connected.
Accept ==
  /\ cpc = "accept" /\ conn # "none"
  /\ child' = TRUE
  /\ cpc' = "send"
  /\ UNCHANGED channelVars
  /\ UNCHANGED <<nextSeqNo, inFlight, pending, done, rspPkt>>

-----------------------------------------------------------------------------
(***************************************************************************)
(* Sending: get_next_packet prefers pending packets, then the file, then   *)
(* the oldest packet in flight; with none of them the loop ends.           *)
(***************************************************************************)

\* Variant: one packet more than the file has.
ReadsPastEnd == nextSeqNo = NumPackets + 1

AtEndOfFile == nextSeqNo = NumPackets

\* Send the packet and append it to the given rest of the in-flight window.
SendPacket(n, window) ==
  /\ udp_socket_send(n)
  /\ inFlight' = Append(window, n)
  /\ cpc' = "tick"
  /\ UNCHANGED <<metaInFlight, conn, stream, skew, done, child, rspPkt>>

SendPending ==
  /\ cpc = "send" /\ pending # << >>
  /\ pending' = Tail(pending)
  /\ SendPacket(Head(pending), inFlight)
  /\ UNCHANGED nextSeqNo

SendFromFile ==
  /\ cpc = "send" /\ pending = << >> /\ ~ AtEndOfFile
  /\ nextSeqNo' = nextSeqNo + 1
  /\ SendPacket(nextSeqNo, inFlight)
  /\ UNCHANGED pending

\* Variant: the packet keeps its old place in the window as well.
ResendKeepsPlace ==
  /\ cpc = "send" /\ pending = << >> /\ AtEndOfFile /\ inFlight # << >>
  /\ SendPacket(Head(inFlight), inFlight)
  /\ UNCHANGED <<pending, nextSeqNo>>

Resend ==
  /\ cpc = "send" /\ pending = << >> /\ AtEndOfFile /\ inFlight # << >>
  /\ SendPacket(Head(inFlight), Tail(inFlight))
  /\ UNCHANGED <<pending, nextSeqNo>>

\* Variant: the loop ends with packets in flight.
NothingPending ==
  /\ cpc = "send" /\ pending = << >> /\ AtEndOfFile
  /\ cpc' = "closed"
  /\ UNCHANGED channelVars
  /\ UNCHANGED <<nextSeqNo, inFlight, pending, done, child, rspPkt>>

NothingLeft ==
  /\ cpc = "send" /\ pending = << >> /\ AtEndOfFile /\ inFlight = << >>
  /\ cpc' = "closed"
  /\ UNCHANGED channelVars
  /\ UNCHANGED <<nextSeqNo, inFlight, pending, done, child, rspPkt>>

-----------------------------------------------------------------------------
(***************************************************************************)
(* tcp_server_tick: select with a timeout, then at most one read.          *)
(***************************************************************************)

\* The loop is left after a tick when done is set.
AfterTick == cpc' = IF done' THEN "closed" ELSE "send"

\* Variants: a NACK revives a packet that is no longer in flight; a NACK
\* unlinks the packet like an ACK.
NackRevives(pkt) ==
  LET isCtrl == pkt.type = UCP_PACKET_TYPE_CTRL
  IN  /\ inFlight' = IF isCtrl /\ pkt.flag \in {UCP_FLAG_ACK, UCP_FLAG_NACK}
                     THEN RemoveFirst(inFlight, pkt.seq_no) ELSE inFlight
      /\ pending' = IF isCtrl /\ pkt.flag = UCP_FLAG_NACK
                    THEN Append(pending, pkt.seq_no) ELSE pending
      /\ done' = (done \/ (isCtrl /\ pkt.flag = UCP_FLAG_FIN))
      /\ rspPkt' = pkt

NackDrops(pkt) ==
  LET isCtrl == pkt.type = UCP_PACKET_TYPE_CTRL
  IN  /\ inFlight' = IF isCtrl /\ pkt.flag \in {UCP_FLAG_ACK, UCP_FLAG_NACK}
                     THEN RemoveFirst(inFlight, pkt.seq_no) ELSE inFlight
      /\ pending' = pending
      /\ done' = (done \/ (isCtrl /\ pkt.flag = UCP_FLAG_FIN))
      /\ rspPkt' = pkt

\* The packet is not found in the window, or it is acted upon.
on_ack_received(pkt) ==
  LET found  == pkt.seq_no \in ToSet(inFlight)
      isCtrl == pkt.type = UCP_PACKET_TYPE_CTRL
  IN  /\ inFlight' = IF isCtrl /\ pkt.flag \in {UCP_FLAG_ACK, UCP_FLAG_NACK}
                     THEN RemoveFirst(inFlight, pkt.seq_no) ELSE inFlight
      /\ pending' = IF isCtrl /\ pkt.flag = UCP_FLAG_NACK /\ found
                    THEN Append(pending, pkt.seq_no) ELSE pending
      /\ done' = (done \/ (isCtrl /\ pkt.flag = UCP_FLAG_FIN))
      /\ rspPkt' = pkt

\* rsp_pkt is not initialised: when the decoder does not write it, it is what
\* the previous call left in the slot, or what other calls put there.
Decoded(buf) ==
  IF DecodesAsCtrl(buf) THEN { ucp_packet_decode_ctrl_data(buf) }
                        ELSE { rspPkt, NoPacket }

tcp_server_receive(k) ==
  /\ cpc = "tick" /\ child
  /\ k \in ReadSizes
  /\ \E pkt \in Decoded(BytesRead(k)) : on_ack_received(pkt)
  /\ Consume(k)
  /\ AfterTick
  /\ UNCHANGED <<metaInFlight, udp, conn, nextSeqNo, child>>

Receive == \E k \in 1 .. ReadMax : tcp_server_receive(k)

\* The server has closed the connection and all it sent has been read.
Disconnected ==
  /\ cpc = "tick" /\ child
  /\ conn = "closed" /\ Unread = 0
  /\ child' = FALSE
  /\ UNCHANGED channelVars
  /\ UNCHANGED <<nextSeqNo, inFlight, pending, done, rspPkt>>
  /\ AfterTick

\* Nothing has arrived within the timeout; what was sent may be under way.
SelectTimesOut ==
  /\ cpc = "tick"
  /\ UNCHANGED channelVars
  /\ UNCHANGED <<nextSeqNo, inFlight, pending, done, child, rspPkt>>
  /\ AfterTick

ClientNext ==
  \/ SendMetadata \/ Accept
  \/ SendPending \/ SendFromFile \/ Resend \/ NothingLeft
  \/ Receive \/ Disconnected \/ SelectTimesOut

=============================================================================
