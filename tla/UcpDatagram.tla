----------------------------- MODULE UcpDatagram -----------------------------
(***************************************************************************)
(* Data and metadata packets of ucp_packet.c: the fields of the structures *)
(* and their bytes in a datagram.  Numbers are cut to the width of their   *)
(* field and split into bytes, little-endian in data packets, big-endian   *)
(* in metadata packets.  Types and flags fill a byte of their own; the     *)
(* name of the file is left out.                                           *)
(***************************************************************************)
EXTENDS Integers, Sequences

CONSTANTS Byte,                  \* the values of a byte, 256
          UDP_PACKET_DATA_SIZE   \* the largest segment

\* The length of a segment fits in its two bytes.
ASSUME DatagramAssumption ==
  /\ Byte \in Nat \ {0, 1}
  /\ UDP_PACKET_DATA_SIZE \in 1 .. Byte * Byte - 1

UCP_PACKET_TYPE_DATA     == 2
UCP_PACKET_TYPE_METADATA == 3

UCP_FLAG_DATA_SEGMENT == 0
UCP_FLAG_DATA_START   == 1
UCP_FLAG_DATA_END     == 2

\* The values of a uint32_t.
UINT32_SPAN == Byte * Byte * Byte * Byte

uint32(n) == n % UINT32_SPAN

-----------------------------------------------------------------------------

\* Byte number i of a number, from the lowest.
ByteOf(n, i) == CASE i = 0 -> n % Byte
                  [] i = 1 -> (n \div Byte) % Byte
                  [] i = 2 -> (n \div (Byte * Byte)) % Byte
                  [] i = 3 -> (n \div (Byte * Byte * Byte)) % Byte

Bytes4(n) == << ByteOf(n, 0), ByteOf(n, 1), ByteOf(n, 2), ByteOf(n, 3) >>

Number4(b) == b[1] + Byte * b[2] + Byte * Byte * b[3] + Byte * Byte * Byte * b[4]

ucp_packet_init_data(seq_no, offset, buf) ==
  [flag    |-> UCP_FLAG_DATA_SEGMENT,
   seq_no  |-> uint32(seq_no),
   offset  |-> uint32(offset),
   segment |-> buf]

ucp_packet_encode_data(pkt) ==
  [type    |-> UCP_PACKET_TYPE_DATA,
   flag    |-> pkt.flag,
   seq_no  |-> Bytes4(pkt.seq_no),
   offset  |-> Bytes4(pkt.offset),
   seg_len |-> << ByteOf(Len(pkt.segment), 0), ByteOf(Len(pkt.segment), 1) >>,
   data    |-> pkt.segment]

ucp_packet_decode_data(buf) ==
  [flag    |-> buf.flag,
   seq_no  |-> Number4(buf.seq_no),
   offset  |-> Number4(buf.offset),
   segment |-> SubSeq(buf.data, 1, buf.seg_len[1] + Byte * buf.seg_len[2])]

ucp_packet_init_metadata(part_size) == [part_size |-> uint32(part_size)]

ucp_packet_encode_meta_data(pkt) ==
  [type      |-> UCP_PACKET_TYPE_METADATA,
   part_size |-> << ByteOf(pkt.part_size, 3), ByteOf(pkt.part_size, 2),
                    ByteOf(pkt.part_size, 1), ByteOf(pkt.part_size, 0) >>]

ucp_packet_decode_meta_data(buf) ==
  [part_size |-> Byte * Byte * Byte * buf.part_size[1] + Byte * Byte * buf.part_size[2]
                   + Byte * buf.part_size[3] + buf.part_size[4]]

=============================================================================
