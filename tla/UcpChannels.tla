----------------------------- MODULE UcpChannels -----------------------------
(***************************************************************************)
(* What client and server share: the UDP datagrams from client to server   *)
(* and the TCP connection from server to client.                           *)
(*                                                                         *)
(* UDP reorders and, as the constants allow, loses and duplicates          *)
(* datagrams; copies of one packet that are under way together count as    *)
(* one.  TCP delivers the bytes in order, and a read may end in the middle *)
(* of a packet.                                                            *)
(***************************************************************************)
EXTENDS UcpPacket

CONSTANTS MetaMayBeLost,    \* the metadata datagram may be lost
          DataMayBeLost,    \* data datagrams may be lost
          MayDuplicate,     \* a datagram may be delivered more than once
          StreamCap,        \* control packets the connection buffers hold
          ReadMax,          \* bytes one read of the connection returns at most
          Segmentation      \* a read may return fewer bytes than were sent

ASSUME ChannelAssumption ==
  /\ {MetaMayBeLost, DataMayBeLost, MayDuplicate, Segmentation} \subseteq BOOLEAN
  /\ StreamCap \in Nat \ {0}
  /\ ReadMax \in Nat \ {0}

VARIABLES metaInFlight,   \* the metadata datagram is under way
          udp,            \* sequence numbers of the data datagrams under way
          conn,           \* the connection: "none", "open" or "closed"
          stream,         \* control packets sent and not completely read
          skew            \* bytes of the first of them already read

channelVars == <<metaInFlight, udp, conn, stream, skew>>

ChannelInit ==
  /\ metaInFlight = FALSE
  /\ udp = {}
  /\ conn = "none"
  /\ stream = << >>
  /\ skew = 0

-----------------------------------------------------------------------------
(***************************************************************************)
(* UDP.                                                                    *)
(***************************************************************************)

\* sendto hands the datagram to a network that may lose it.
udp_socket_send(n) ==
  udp' \in {udp \cup {n}} \cup (IF DataMayBeLost THEN {udp} ELSE {})

SendMeta == metaInFlight' \in {TRUE, ~ MetaMayBeLost}

\* recvfrom takes the datagram, or a copy of it.
TakeData(n) == /\ n \in udp
               /\ udp' \in {udp \ {n}} \cup (IF MayDuplicate THEN {udp} ELSE {})

TakeMeta == /\ metaInFlight
            /\ metaInFlight' \in {FALSE, MayDuplicate}

-----------------------------------------------------------------------------
(***************************************************************************)
(* TCP.                                                                    *)
(***************************************************************************)

\* send blocks while the buffers are full.
tcp_client_send(ctrl) ==
  /\ Len(stream) < StreamCap
  /\ stream' = Append(stream, ctrl)

Unread == CTRL_SIZE * Len(stream) - skew

\* The byte at a distance from the start of the first packet.
StreamByte(i) ==
  ucp_packet_encode_ctrl_data(stream[(i \div CTRL_SIZE) + 1])[(i % CTRL_SIZE) + 1]

\* How many bytes a read may return.
ReadSizes == LET most == Min({ReadMax, Unread})
             IN  IF Segmentation THEN 1 .. most ELSE {most} \ {0}

\* The bytes a read of k bytes puts into the buffer; those behind the first
\* control packet are never looked at.
BytesRead(k) == [i \in 1 .. Min({k, CTRL_SIZE}) |-> StreamByte(skew + i - 1)]

\* The read itself.
Consume(k) ==
  /\ stream' = SubSeq(stream, ((skew + k) \div CTRL_SIZE) + 1, Len(stream))
  /\ skew' = (skew + k) % CTRL_SIZE

=============================================================================
