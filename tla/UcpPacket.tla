------------------------------ MODULE UcpPacket ------------------------------
(***************************************************************************)
(* Control packets of ucp_packet.c as they travel from server to client:   *)
(* six bytes in a TCP stream that keeps no packet boundaries.  Data and    *)
(* metadata packets travel in datagrams of their own and are represented   *)
(* by their sequence numbers (see UcpChannels).                            *)
(***************************************************************************)
EXTENDS Integers, SequencesExt

CONSTANT NumPackets   \* the data packets of the part the client transfers

ASSUME NumPacketsAssumption == NumPackets \in Nat

SeqNos == 0 .. NumPackets - 1

UCP_PACKET_TYPE_CTRL == 1

UCP_FLAG_ACK  == 1
UCP_FLAG_NACK == 2
UCP_FLAG_FIN  == 3

\* The flag of the last data packet of a part, from another enumeration.
UCP_FLAG_DATA_END == 2

ucp_ctrl_packet_t == [flag : {UCP_FLAG_ACK, UCP_FLAG_NACK, UCP_FLAG_FIN},
                      seq_no : Nat]

uint8 == 0 .. 255

\* What a receiver of control packets looks at.
ucp_packet_t == [type : uint8, flag : uint8, seq_no : Nat]

ucp_packet_init_ctrl(seq_no, flag) == [flag |-> flag, seq_no |-> seq_no]

-----------------------------------------------------------------------------
(***************************************************************************)
(* Encoding and decoding.                                                  *)
(***************************************************************************)

CTRL_SIZE == 6

ucp_packet_encode_ctrl_data(ctrl) ==
  << UCP_PACKET_TYPE_CTRL,
     ctrl.flag,
     ctrl.seq_no % 256,
     (ctrl.seq_no \div 256) % 256,
     (ctrl.seq_no \div 65536) % 256,
     (ctrl.seq_no \div 16777216) % 256 >>

ucp_packet_decode_ctrl_data(buf) ==
  [type   |-> buf[1],
   flag   |-> buf[2],
   seq_no |-> buf[3] + 256 * buf[4] + 65536 * buf[5] + 16777216 * buf[6]]

\* A buffer of what one read of the stream returned.  The decoders of data
\* and metadata packets want a buffer of sizeof(ucp_packet_t), more than the
\* 1024 bytes a read returns, and leave the packet as it was, as an unknown
\* type and a short buffer do.
DecodesAsCtrl(buf) ==
  /\ Len(buf) >= CTRL_SIZE
  /\ buf[1] = UCP_PACKET_TYPE_CTRL

=============================================================================
