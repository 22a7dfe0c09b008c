------------------------------ MODULE FileParts ------------------------------
(***************************************************************************)
(* The data of a transfer: file_io.c on both sides of the packets.  The    *)
(* client reads its part of the file in segments (file_io_get_next_packet) *)
(* and the server writes each one at its offset into a file it has filled  *)
(* with zeros.  Packets reach the server in any order and any number of    *)
(* times, as UcpTransfer shows they may; its set "saved" of packets is     *)
(* spelled out here as bytes of a file.                                    *)
(***************************************************************************)
EXTENDS UcpDatagram, FiniteSets

CONSTANTS PartSizes,     \* sizes a part may have
          DiskMayFill    \* writing may fail

ASSUME FileAssumption == PartSizes \subseteq Nat /\ DiskMayFill \in BOOLEAN

VARIABLES partSize,      \* bytes in the part on the client's disk
          pos,           \* position of its stream
          last_seq_no,   \* the next sequence number
          sent,          \* data datagrams sent so far
          server,        \* "waiting", "receiving", "nofile", "stopped", "crashed"
          file,          \* bytes of the server's file, from 0
          saved          \* datagrams saved so far

vars == <<partSize, pos, last_seq_no, sent, server, file, saved>>

\* The bytes of the part: each one different, and different from the filler.
Source(i) == i + 1
Filler == 0

Init ==
  /\ partSize \in PartSizes
  /\ pos = 0 /\ last_seq_no = 0
  /\ sent = {}
  /\ server = "waiting"
  /\ file = << >>
  /\ saved = {}

-----------------------------------------------------------------------------
(***************************************************************************)
(* Opening the file.                                                       *)
(***************************************************************************)

\* The size in the handle and in the metadata has 32 bits.
AnnouncedSize ==
  ucp_packet_decode_meta_data(
    ucp_packet_encode_meta_data(ucp_packet_init_metadata(partSize))).part_size

\* Variant: the file is filled with whole segments, the last one included.
OpensWholeSegments(written) ==
  /\ server = "waiting"
  /\ written = AnnouncedSize \/ DiskMayFill
  /\ LET segments == (written + UDP_PACKET_DATA_SIZE - 1) \div UDP_PACKET_DATA_SIZE
     IN  file' = [i \in 0 .. segments * UDP_PACKET_DATA_SIZE - 1 |-> Filler]
  /\ server' = "receiving"
  /\ UNCHANGED <<partSize, pos, last_seq_no, sent, saved>>

\* A file of zeros; on a full disk it ends early, and nobody asks.
file_io_open_file_of_size(written) ==
  /\ server = "waiting"
  /\ written = AnnouncedSize \/ DiskMayFill
  /\ file' = [i \in 0 .. written - 1 |-> Filler]
  /\ server' = "receiving"
  /\ UNCHANGED <<partSize, pos, last_seq_no, sent, saved>>

\* fopen fails: the server goes on with a null stream.
OpenFails ==
  /\ server = "waiting" /\ DiskMayFill
  /\ server' = "nofile"
  /\ UNCHANGED <<partSize, pos, last_seq_no, sent, file, saved>>

-----------------------------------------------------------------------------
(***************************************************************************)
(* Reading the part.                                                       *)
(***************************************************************************)

SegmentSize == IF partSize - pos < UDP_PACKET_DATA_SIZE THEN partSize - pos
                                                        ELSE UDP_PACKET_DATA_SIZE

\* Variant: the buffer is sent whole, whatever fread returned.
WholeBuffer == [k \in 1 .. UDP_PACKET_DATA_SIZE |->
                  IF k <= SegmentSize THEN Source(pos + k - 1) ELSE Filler]

\* What fread puts into the buffer.
Segment == [k \in 1 .. SegmentSize |-> Source(pos + k - 1)]

\* Variant: the last but one packet counts as the last one.
FlagOfRest == CASE pos = 0 -> UCP_FLAG_DATA_START
                [] pos # 0 /\ partSize - pos <= 2 * UDP_PACKET_DATA_SIZE -> UCP_FLAG_DATA_END
                [] OTHER -> UCP_FLAG_DATA_SEGMENT

\* feof holds after a read that returned less than it was asked for.
Flag == CASE pos = 0 -> UCP_FLAG_DATA_START
          [] pos # 0 /\ SegmentSize < UDP_PACKET_DATA_SIZE -> UCP_FLAG_DATA_END
          [] OTHER -> UCP_FLAG_DATA_SEGMENT

\* The next packet is read and sent.  At the end of the part there is none.
file_io_get_next_packet ==
  /\ server # "waiting"
  /\ SegmentSize > 0
  /\ sent' = sent \cup
       { ucp_packet_encode_data(
           [ucp_packet_init_data(last_seq_no, pos, Segment) EXCEPT !.flag = Flag]) }
  /\ pos' = pos + SegmentSize
  /\ last_seq_no' = uint32(last_seq_no + 1)
  /\ UNCHANGED <<partSize, server, file, saved>>

-----------------------------------------------------------------------------
(***************************************************************************)
(* Writing it.                                                             *)
(***************************************************************************)

\* Variants: fseek is left out, so data is appended; what was in the file
\* behind the data is cut off.
WriteAppends(f, at, data) ==
  LET end == Cardinality(DOMAIN f)
  IN  [i \in 0 .. end + Len(data) - 1 |->
         IF i < end THEN f[i] ELSE data[i - end + 1]]

WriteTruncates(f, at, data) ==
  [i \in 0 .. at + Len(data) - 1 |->
     IF i >= at THEN data[i - at + 1] ELSE IF i \in DOMAIN f THEN f[i] ELSE Filler]

\* fwrite at an offset: a gap behind the end of the file is filled with zeros.
Write(f, at, data) ==
  IF data = << >> THEN f
  ELSE [i \in DOMAIN f \cup 0 .. at + Len(data) - 1 |->
          IF at <= i /\ i < at + Len(data) THEN data[i - at + 1]
          ELSE IF i \in DOMAIN f THEN f[i] ELSE Filler]

\* A datagram arrives, for the first time or again, and its segment is
\* written: completely, or some of it, after which the server receives no more.
file_io_save_packet(buf, written, ok) ==
  LET pkt == ucp_packet_decode_data(buf)
  IN  /\ server = "receiving" /\ buf \in sent
      /\ IF ok THEN written = Len(pkt.segment) ELSE DiskMayFill
      /\ file' = Write(file, pkt.offset, SubSeq(pkt.segment, 1, written))
      /\ saved' = IF ok THEN saved \cup {buf} ELSE saved
      /\ server' = IF ok THEN server ELSE "stopped"
      /\ UNCHANGED <<partSize, pos, last_seq_no, sent>>

\* fseek on the null stream.
SaveWithoutFile ==
  /\ server = "nofile" /\ sent # {}
  /\ server' = "crashed"
  /\ UNCHANGED <<partSize, pos, last_seq_no, sent, file, saved>>

Next ==
  \/ \E written \in 0 .. AnnouncedSize : file_io_open_file_of_size(written)
  \/ OpenFails
  \/ file_io_get_next_packet
  \/ \E buf \in sent, written \in 0 .. UDP_PACKET_DATA_SIZE, ok \in BOOLEAN :
       written <= Len(buf.data) /\ file_io_save_packet(buf, written, ok)
  \/ SaveWithoutFile

Spec == Init /\ [][Next]_vars

-----------------------------------------------------------------------------
(***************************************************************************)
(* Properties.                                                             *)
(***************************************************************************)

\* Handle, datagrams and file hold what the code can put there.  The file is
\* never longer than the part, however it was opened and wherever writes go.
TypeOK ==
  /\ partSize \in PartSizes /\ pos \in 0 .. partSize
  /\ last_seq_no \in 0 .. UINT32_SPAN - 1
  /\ \A d \in sent : /\ d.type = UCP_PACKET_TYPE_DATA
                     /\ d.seq_no \in [1 .. 4 -> 0 .. Byte - 1]
                     /\ d.offset \in [1 .. 4 -> 0 .. Byte - 1]
                     /\ d.seg_len \in [1 .. 2 -> 0 .. Byte - 1]
                     /\ Len(d.data) \in 1 .. UDP_PACKET_DATA_SIZE
  /\ saved \subseteq sent
  /\ server \in {"waiting", "receiving", "nofile", "stopped", "crashed"}
  /\ \E n \in 0 .. partSize : DOMAIN file = 0 .. n - 1
  /\ \A i \in DOMAIN file : file[i] \in {Filler} \cup {Source(j) : j \in 0 .. partSize - 1}

\* No byte is ever in a wrong place, whatever the order of the packets and
\* wherever a write broke off.  Places are counted as the packets count them,
\* in 32 bits: for parts of more than 2^32 bytes the place is the remainder.
BytesInPlace ==
  \A i \in DOMAIN file, j \in 0 .. partSize - 1 :
    file[i] = Source(j) =>
      IF partSize <= UINT32_SPAN THEN i = j ELSE uint32(i) = uint32(j)

\* When every packet of the part has been saved the file is the part, to the
\* byte and without a byte too many: parts of up to 2^32 bytes, the last
\* packet full or not, the file opened at full size or cut short by the disk,
\* and the part of 2^32 bytes, which is announced as empty.
AllSavedIsWhole ==
  (pos = partSize /\ saved = sent /\ server = "receiving" /\ partSize <= UINT32_SPAN)
    => file = [i \in 0 .. partSize - 1 |-> Source(i)]

\* The flag END is only on the last packet and START only on the first, also
\* when the offset has passed 2^32.  (A last packet without END exists: one
\* that is full, or the only one.)  That it is so when the number has wrapped,
\* too, takes parts of 2^32 packets: the runs have none, the theorem covers them.
FlagsMarkTheEnds ==
  \A d \in sent :
    /\ d.flag = UCP_FLAG_DATA_START => Number4(d.seq_no) = 0
    /\ d.flag = UCP_FLAG_DATA_END =>
         pos = partSize /\ uint32(Number4(d.seq_no) + 1) = last_seq_no

\* What has been saved stays: no later packet, repeated or cut short by the
\* disk, changes a byte of the part that is in the file.
SavedStays ==
  [][partSize <= UINT32_SPAN =>
       \A i \in DOMAIN file :
         file[i] # Filler => i \in DOMAIN file' /\ file'[i] = file[i]]_vars

=============================================================================
