--------------------------- MODULE FilePartsProofs ---------------------------
(***************************************************************************)
(* Theorems about FileParts, for parts of any size, packets of any size    *)
(* and bytes with any number of values: every byte comes to its place and  *)
(* stays there, and a part whose packets have all been saved is whole.     *)
(* First come lemmas about division and about the encoders and decoders of *)
(* UcpDatagram.                                                            *)
(***************************************************************************)
EXTENDS FileParts, SequenceTheorems, TLAPS

-----------------------------------------------------------------------------
(***************************************************************************)
(* Division.                                                               *)
(***************************************************************************)

\* The quotient and the remainder that the masks and shifts of ucp_packet.c
\* stand for.
LEMMA Division ==
  ASSUME NEW n \in Nat, NEW b \in Nat \ {0}
  PROVE  /\ n \div b \in Nat
         /\ n % b \in 0 .. b - 1
         /\ n = b * (n \div b) + (n % b)
  OBVIOUS

\* A multiple is smaller by at least one factor than a larger multiple.
LEMMA MultiplesAreApart ==
  ASSUME NEW b \in Nat \ {0}, NEW p \in Int, NEW q \in Int, p < q
  PROVE  b * p + b <= b * q
  OBVIOUS

\* A product of two numbers that are not zero is not zero.
LEMMA ProductIsPositive ==
  ASSUME NEW b \in Nat \ {0}, NEW c \in Nat \ {0}
  PROVE  b * c \in Nat \ {0}
  OBVIOUS

\* There is one quotient and one remainder.
LEMMA DivisionIsUnique ==
  ASSUME NEW n \in Nat, NEW b \in Nat \ {0}, NEW q \in Int, NEW r \in 0 .. b - 1,
         n = b * q + r
  PROVE  n \div b = q /\ n % b = r
<1> DEFINE p == n \div b   m == n % b
<1>1. p \in Nat /\ m \in 0 .. b - 1 /\ n = b * p + m
  BY Division
<1> HIDE DEF p, m
<1>2. ~(p < q)
  <2> SUFFICES ASSUME p < q PROVE FALSE
    OBVIOUS
  <2>1. b * p + b <= b * q
    BY <1>1, MultiplesAreApart
  <2> QED BY <2>1, <1>1
<1>3. ~(q < p)
  <2> SUFFICES ASSUME q < p PROVE FALSE
    OBVIOUS
  <2>1. b * q + b <= b * p
    BY <1>1, MultiplesAreApart
  <2> QED BY <2>1, <1>1
<1>4. p = q
  BY <1>1, <1>2, <1>3
<1> QED BY <1>4, <1>1 DEF p, m

\* Shifting twice is shifting by both.
LEMMA DivisionTwice ==
  ASSUME NEW n \in Nat, NEW b \in Nat \ {0}, NEW c \in Nat \ {0}
  PROVE  n \div (b * c) = (n \div b) \div c
<1> DEFINE q == n \div b   r == n % b   p == q \div c   s == q % c
<1>1. q \in Nat /\ r \in 0 .. b - 1 /\ n = b * q + r
  BY Division
<1>2. p \in Nat /\ s \in 0 .. c - 1 /\ q = c * p + s
  BY <1>1, Division
<1> HIDE DEF q, r, p, s
<1>3. b * s + b <= b * c
  BY <1>2, MultiplesAreApart
<1>4. b * s \in Nat
  BY <1>2
<1>5. b * s + r \in 0 .. b * c - 1
  BY <1>1, <1>3, <1>4
<1>6. b * q = (b * c) * p + b * s
  BY <1>1, <1>2
<1>7. n = (b * c) * p + (b * s + r)
  BY <1>1, <1>6, <1>2, <1>4
<1>8. b * c \in Nat \ {0}
  BY ProductIsPositive
<1>9. n \div (b * c) = p
  BY <1>2, <1>5, <1>7, <1>8, DivisionIsUnique
<1> QED BY <1>9 DEF p, q

\* A number below a product has a quotient below the other factor.
LEMMA QuotientIsBelow ==
  ASSUME NEW b \in Nat \ {0}, NEW c \in Nat \ {0}, NEW n \in 0 .. b * c - 1
  PROVE  n \div b \in 0 .. c - 1
<1> DEFINE q == n \div b   r == n % b
<1>0. b * c \in Nat
  OBVIOUS
<1>1. n \in Nat /\ q \in Nat /\ r \in 0 .. b - 1 /\ n = b * q + r
  BY <1>0, Division
<1> HIDE DEF q, r
<1>2. ~(c - 1 < q)
  <2> SUFFICES ASSUME c - 1 < q PROVE FALSE
    OBVIOUS
  <2>1. b * (c - 1) + b <= b * q
    BY <1>1, MultiplesAreApart
  <2>2. b * (c - 1) + b = b * c
    OBVIOUS
  <2>3. n < b * c
    BY <1>0
  <2>4. b * q \in Nat
    BY <1>1
  <2> QED BY <2>1, <2>2, <2>3, <2>4, <1>0, <1>1
<1>3. q \in 0 .. c - 1
  BY <1>1, <1>2
<1> QED BY <1>3 DEF q

\* A remainder may be taken before adding.
LEMMA RemainderOfSum ==
  ASSUME NEW n \in Nat, NEW k \in Nat, NEW b \in Nat \ {0}
  PROVE  ((n % b) + k) % b = (n + k) % b
<1> DEFINE q == n \div b   r == n % b
<1>1. q \in Nat /\ r \in 0 .. b - 1 /\ n = b * q + r
  BY Division
<1> HIDE DEF q, r
<1>2. r + k \in Nat
  BY <1>1
<1> DEFINE p == (r + k) \div b   s == (r + k) % b
<1>3. p \in Nat /\ s \in 0 .. b - 1 /\ r + k = b * p + s
  BY <1>2, Division
<1> HIDE DEF p, s
<1>4. b * q \in Int /\ b * p \in Int /\ b * (q + p) = b * q + b * p
  BY <1>1, <1>3
<1>5. n + k = b * (q + p) + s
  BY <1>1, <1>3, <1>4
<1> DEFINE m == n + k   t == q + p
<1>6. m \in Nat /\ t \in Int /\ m = b * t + s
  BY <1>1, <1>3, <1>5
<1> HIDE DEF m, t
<1>7. m % b = s
  BY <1>3, <1>6, DivisionIsUnique
<1> QED BY <1>7 DEF r, s, m

-----------------------------------------------------------------------------
(***************************************************************************)
(* Fields of 16 and 32 bits.                                               *)
(***************************************************************************)

\* Powers of Byte are not zero, and how UINT32_SPAN is made of them.
LEMMA Powers ==
  /\ Byte \in Nat \ {0}
  /\ Byte * Byte \in Nat \ {0}
  /\ Byte * Byte * Byte \in Nat \ {0}
  /\ UINT32_SPAN \in Nat \ {0}
  /\ UINT32_SPAN = Byte * (Byte * (Byte * Byte))
<1>1. Byte \in Nat \ {0}
  BY DatagramAssumption
<1>2. Byte * Byte \in Nat \ {0}
  BY <1>1, ProductIsPositive
<1>3. (Byte * Byte) * Byte \in Nat \ {0}
  BY <1>1, <1>2, ProductIsPositive
<1>4. ((Byte * Byte) * Byte) * Byte \in Nat \ {0}
  BY <1>1, <1>3, ProductIsPositive
<1>5. ((Byte * Byte) * Byte) * Byte = Byte * (Byte * (Byte * Byte))
  BY <1>1
<1> QED BY <1>1, <1>2, <1>3, <1>4, <1>5 DEF UINT32_SPAN

\* A number cut to 32 bits has 32 bits; one that has is not changed.
LEMMA Uint32Range ==
  ASSUME NEW n \in Nat
  PROVE  /\ uint32(n) \in 0 .. UINT32_SPAN - 1
         /\ uint32(n) \in Nat
         /\ n < UINT32_SPAN => uint32(n) = n
<1>1. uint32(n) \in 0 .. UINT32_SPAN - 1
  BY Powers, Division DEF uint32
<1>2. ASSUME n < UINT32_SPAN
      PROVE  uint32(n) = n
  <2>1. n \in 0 .. UINT32_SPAN - 1 /\ n = UINT32_SPAN * 0 + n
    BY <1>2, Powers
  <2> QED BY <2>1, Powers, DivisionIsUnique DEF uint32
<1> QED BY <1>1, <1>2, Powers

\* Cutting before an addition changes nothing.
LEMMA Uint32OfSum ==
  ASSUME NEW n \in Nat, NEW k \in Nat
  PROVE  uint32(uint32(n) + k) = uint32(n + k)
BY Powers, RemainderOfSum DEF uint32

\* The bytes of a number are bytes.
LEMMA BytesAreBytes ==
  ASSUME NEW n \in Nat
  PROVE  \A i \in 0 .. 3 : ByteOf(n, i) \in 0 .. Byte - 1
<1>1. /\ n \div Byte \in Nat
      /\ n \div (Byte * Byte) \in Nat
      /\ n \div (Byte * Byte * Byte) \in Nat
  BY Powers, Division
<1>2. \A m \in Nat : m % Byte \in 0 .. Byte - 1
  BY Powers, Division
<1> QED BY <1>1, <1>2 DEF ByteOf

\* The successive quotients of a number of 32 bits.
LEMMA FourBytes ==
  ASSUME NEW n \in 0 .. UINT32_SPAN - 1
  PROVE  n = ByteOf(n, 0) + Byte * ByteOf(n, 1) + Byte * Byte * ByteOf(n, 2)
               + Byte * Byte * Byte * ByteOf(n, 3)
<1> DEFINE q1 == n \div Byte   q2 == q1 \div Byte   q3 == q2 \div Byte
<1>0. Byte \in Nat \ {0} /\ n \in Nat
  BY Powers
<1>1. q1 \in 0 .. Byte * (Byte * Byte) - 1
  <2> DEFINE P == Byte * (Byte * Byte)
  <2>1. P \in Nat \ {0} /\ n \in 0 .. Byte * P - 1
    BY Powers
  <2> HIDE DEF P
  <2>2. n \div Byte \in 0 .. P - 1
    BY <1>0, <2>1, QuotientIsBelow
  <2> QED BY <2>2 DEF P
<1>2. q2 \in 0 .. Byte * Byte - 1
  BY <1>1, Powers, QuotientIsBelow
<1>3. q3 \in 0 .. Byte - 1
  BY <1>2, <1>0, QuotientIsBelow
<1>4. q1 \in Nat /\ q2 \in Nat /\ q3 \in Nat
  BY <1>0, Division
<1>5. n = Byte * q1 + (n % Byte) /\ n % Byte \in Nat
  BY <1>0, Division
<1>6. q1 = Byte * q2 + (q1 % Byte) /\ q1 % Byte \in Nat
  BY <1>0, <1>4, Division
<1>7. q2 = Byte * q3 + (q2 % Byte) /\ q2 % Byte \in Nat
  BY <1>0, <1>4, Division
<1>8. n \div (Byte * Byte) = q2
  BY <1>0, DivisionTwice
<1>9. n \div (Byte * Byte * Byte) = q3
  <2> DEFINE S == Byte * Byte
  <2>1. S \in Nat \ {0}
    BY Powers
  <2> HIDE DEF S, q2, q3
  <2>2. n \div (S * Byte) = (n \div S) \div Byte
    BY <1>0, <2>1, DivisionTwice
  <2> QED BY <2>2, <1>8 DEF S, q3
<1>10. q3 % Byte = q3
  <2>1. q3 = Byte * 0 + q3
    BY <1>0, <1>4
  <2> HIDE DEF q3
  <2> QED BY <1>0, <1>3, <1>4, <2>1, DivisionIsUnique
<1>11. /\ ByteOf(n, 0) = n % Byte
       /\ ByteOf(n, 1) = q1 % Byte
       /\ ByteOf(n, 2) = q2 % Byte
       /\ ByteOf(n, 3) = q3
  BY <1>8, <1>9, <1>10 DEF ByteOf
<1> DEFINE r0 == n % Byte   r1 == q1 % Byte   r2 == q2 % Byte
<1>12. n = r0 + Byte * r1 + Byte * Byte * r2 + Byte * Byte * Byte * q3
  <2> HIDE DEF q1, q2, q3, r0, r1, r2
  <2>1. /\ q1 \in Nat /\ q2 \in Nat /\ q3 \in Nat
        /\ r0 \in Nat /\ r1 \in Nat /\ r2 \in Nat
        /\ n = Byte * q1 + r0 /\ q1 = Byte * q2 + r1 /\ q2 = Byte * q3 + r2
    BY <1>4, <1>5, <1>6, <1>7 DEF r0, r1, r2
  <2>2. Byte * q2 = Byte * Byte * q3 + Byte * r2
    BY <1>0, <2>1
  <2>3. Byte * q1 = Byte * (Byte * q2) + Byte * r1
    BY <1>0, <2>1
  <2>4. Byte * (Byte * q2) = Byte * Byte * Byte * q3 + Byte * Byte * r2
    BY <1>0, <2>1, <2>2
  <2> QED BY <1>0, <2>1, <2>3, <2>4
<1> QED BY <1>11, <1>12

\* Decoding four bytes of a number gives the number back.
LEMMA Number4OfBytes4 ==
  ASSUME NEW n \in 0 .. UINT32_SPAN - 1
  PROVE  Number4(Bytes4(n)) = n
BY FourBytes DEF Number4, Bytes4

\* And the two bytes of a length.
LEMMA TwoBytes ==
  ASSUME NEW n \in 0 .. Byte * Byte - 1
  PROVE  ByteOf(n, 0) + Byte * ByteOf(n, 1) = n
<1> DEFINE q == n \div Byte
<1>0. Byte \in Nat \ {0} /\ n \in Nat
  BY Powers
<1>1. q \in 0 .. Byte - 1
  BY <1>0, QuotientIsBelow
<1>2. n = Byte * q + (n % Byte) /\ n % Byte \in Nat /\ q \in Nat
  BY <1>0, Division
<1>3. q % Byte = q
  <2>1. q = Byte * 0 + q
    BY <1>0, <1>2
  <2> HIDE DEF q
  <2> QED BY <1>0, <1>1, <1>2, <2>1, DivisionIsUnique
<1>4. ByteOf(n, 0) = n % Byte /\ ByteOf(n, 1) = q
  BY <1>3 DEF ByteOf
<1>5. Byte * q \in Nat
  BY <1>0, <1>2
<1> HIDE DEF q
<1> QED BY <1>2, <1>4, <1>5

-----------------------------------------------------------------------------
(***************************************************************************)
(* The inductive invariant.                                                *)
(***************************************************************************)

\* The n bytes of the part from o on.
SegmentAt(o, n) == [k \in 1 .. n |-> Source(o + k - 1)]

\* A datagram with number s and the n bytes of the part from o on.
CarriesSegment(d, s, o, n) ==
  /\ d.type = UCP_PACKET_TYPE_DATA
  /\ d.seq_no = Bytes4(s)
  /\ d.offset = Bytes4(uint32(o))
  /\ d.seg_len = << ByteOf(n, 0), ByteOf(n, 1) >>
  /\ d.data = SegmentAt(o, n)

\* The places a datagram is written to.
Places(d) == Number4(d.offset) .. Number4(d.offset) + Len(d.data) - 1

\* Byte j of the part belongs at place i of the file.
Belongs(i, j) == IF partSize <= UINT32_SPAN THEN i = j ELSE uint32(i) = uint32(j)

HandleOK ==
  /\ partSize \in PartSizes /\ pos \in 0 .. partSize
  /\ last_seq_no \in 0 .. UINT32_SPAN - 1
  /\ pos = 0 => last_seq_no = 0
  /\ saved \subseteq sent
  /\ server \in {"waiting", "receiving", "nofile", "stopped", "crashed"}

\* Nothing is sent or written before the server has opened its file.
WaitingIsEmpty == server = "waiting" => sent = {} /\ file = << >>

\* Every datagram carries a segment of what has been read so far.
SentIsRead ==
  \A d \in sent : \E s \in 0 .. UINT32_SPAN - 1, o \in 0 .. pos, n \in 1 .. UDP_PACKET_DATA_SIZE :
    o + n <= pos /\ CarriesSegment(d, s, o, n)

\* What has been read has been sent.
ReadIsSent ==
  partSize <= UINT32_SPAN => \A i \in 0 .. pos - 1 : \E d \in sent : i \in Places(d)

\* The file is never longer than the part.
FileShape ==
  /\ file = [i \in DOMAIN file |-> file[i]]
  /\ \E n \in 0 .. partSize : DOMAIN file = 0 .. n - 1

\* A byte of the file is a filler or a byte of the part that belongs there.
FileBytes ==
  \A i \in DOMAIN file :
    file[i] = Filler \/ \E j \in 0 .. pos - 1 : file[i] = Source(j) /\ Belongs(i, j)

\* What has been saved is in the file.
SavedIsInFile ==
  partSize <= UINT32_SPAN =>
    \A d \in saved : \A i \in Places(d) : i \in DOMAIN file /\ file[i] = Source(i)

FilesInv ==
  /\ HandleOK /\ WaitingIsEmpty /\ SentIsRead /\ ReadIsSent
  /\ FileShape /\ FileBytes /\ SavedIsInFile /\ FlagsMarkTheEnds

-----------------------------------------------------------------------------
(***************************************************************************)
(* Segments and datagrams.                                                 *)
(***************************************************************************)

\* What a buffer filled from the part holds.
LEMMA SegmentFacts ==
  ASSUME NEW o \in Nat, NEW n \in Nat
  PROVE  /\ SegmentAt(o, n) \in Seq(Nat)
         /\ Len(SegmentAt(o, n)) = n
         /\ \A k \in 1 .. n : SegmentAt(o, n)[k] = o + k
<1>1. \A k \in 1 .. n : Source(o + k - 1) = o + k /\ o + k \in Nat
  BY DEF Source
<1>2. SegmentAt(o, n) \in [1 .. n -> Nat]
  BY <1>1 DEF SegmentAt
<1>3. SegmentAt(o, n) \in Seq(Nat)
  BY <1>2, SeqDef
<1>4. Len(SegmentAt(o, n)) = n
  <2> DEFINE m == Len(SegmentAt(o, n))
  <2>1. m \in Nat /\ 1 .. m = 1 .. n
    BY <1>2, <1>3, LenProperties
  <2> HIDE DEF m
  <2>2. m = n
    BY <2>1
  <2> QED BY <2>2 DEF m
<1>5. \A k \in 1 .. n : SegmentAt(o, n)[k] = o + k
  BY <1>1 DEF SegmentAt
<1> QED BY <1>3, <1>4, <1>5

\* The beginning of a segment is a segment.
LEMMA BeginningOfSegment ==
  ASSUME NEW o \in Nat, NEW n \in Nat, NEW w \in 0 .. n
  PROVE  SubSeq(SegmentAt(o, n), 1, w) = SegmentAt(o, w)
<1> DEFINE s == SubSeq(SegmentAt(o, n), 1, w)
<1>1. \A i \in 1 .. w : SegmentAt(o, n)[i] \in Nat /\ SegmentAt(o, n)[i] = o + i
  <2>1. \A k \in 1 .. n : SegmentAt(o, n)[k] = o + k
    BY SegmentFacts
  <2> QED BY <2>1
<1>2. /\ s \in Seq(Nat) /\ Len(s) = w
      /\ \A i \in 1 .. w : s[i] = SegmentAt(o, n)[i]
  BY <1>1, SubSeqProperties
<1>3. /\ SegmentAt(o, w) \in Seq(Nat) /\ Len(SegmentAt(o, w)) = w
      /\ \A i \in 1 .. w : SegmentAt(o, w)[i] = o + i
  BY SegmentFacts
<1> HIDE DEF s
<1>4. s = SegmentAt(o, w)
  BY <1>1, <1>2, <1>3, SeqEqual
<1> QED BY <1>4 DEF s

\* The decoder of the server finds what the encoder of the client was given.
LEMMA Decoded ==
  ASSUME NEW d, NEW s \in 0 .. UINT32_SPAN - 1, NEW o \in Nat,
         NEW n \in 1 .. UDP_PACKET_DATA_SIZE, CarriesSegment(d, s, o, n)
  PROVE  /\ Number4(d.seq_no) = s
         /\ Number4(d.offset) = uint32(o)
         /\ d.data = SegmentAt(o, n) /\ Len(d.data) = n
         /\ ucp_packet_decode_data(d).offset = uint32(o)
         /\ ucp_packet_decode_data(d).segment = SegmentAt(o, n)
<1>1. n \in Nat /\ n \in 0 .. Byte * Byte - 1
  BY DatagramAssumption, Powers
<1>2. d.seg_len[1] + Byte * d.seg_len[2] = n
  BY <1>1, TwoBytes DEF CarriesSegment
<1>3. Number4(d.seq_no) = s /\ Number4(d.offset) = uint32(o)
  BY Number4OfBytes4, Uint32Range DEF CarriesSegment
<1>4. d.data = SegmentAt(o, n) /\ Len(d.data) = n
  BY <1>1, SegmentFacts DEF CarriesSegment
<1>5. SubSeq(d.data, 1, n) = SegmentAt(o, n)
  BY <1>1, <1>4, SegmentFacts, SubSeqFull
<1> QED BY <1>2, <1>3, <1>4, <1>5 DEF ucp_packet_decode_data

\* The size in the metadata is the size of the part in 32 bits.
LEMMA SizeAnnounced ==
  ASSUME partSize \in Nat
  PROVE  AnnouncedSize = uint32(partSize)
<1> DEFINE m == uint32(partSize)
<1>1. m \in 0 .. UINT32_SPAN - 1 /\ m \in Nat
  BY Uint32Range
<1> HIDE DEF m
<1>2. AnnouncedSize = Byte * Byte * Byte * ByteOf(m, 3) + Byte * Byte * ByteOf(m, 2)
                        + Byte * ByteOf(m, 1) + ByteOf(m, 0)
  BY DEF AnnouncedSize, ucp_packet_decode_meta_data, ucp_packet_encode_meta_data,
         ucp_packet_init_metadata, m
<1> DEFINE b(i) == ByteOf(m, i)
<1>3. b(0) \in Nat /\ b(1) \in Nat /\ b(2) \in Nat /\ b(3) \in Nat
  BY <1>1, BytesAreBytes, Powers
<1>4. m = b(0) + Byte * b(1) + Byte * Byte * b(2) + Byte * Byte * Byte * b(3)
  BY <1>1, FourBytes
<1> HIDE DEF b
<1>5. /\ Byte * b(1) \in Nat /\ Byte * Byte * b(2) \in Nat
      /\ Byte * Byte * Byte * b(3) \in Nat
  <2>1. \A x \in Nat, y \in Nat : x * y \in Nat
    OBVIOUS
  <2> QED BY <1>3, <2>1, Powers
<1>6. AnnouncedSize = Byte * Byte * Byte * b(3) + Byte * Byte * b(2) + Byte * b(1) + b(0)
  BY <1>2 DEF b
<1>7. AnnouncedSize = m
  BY <1>3, <1>4, <1>5, <1>6
<1> QED BY <1>7 DEF m

\* Cutting to 32 bits makes no number larger.
LEMMA Uint32Shrinks ==
  ASSUME NEW n \in Nat
  PROVE  uint32(n) \in 0 .. n
<1> DEFINE q == n \div UINT32_SPAN   r == uint32(n)
<1>1. q \in Nat /\ r \in 0 .. UINT32_SPAN - 1 /\ n = UINT32_SPAN * q + r
  BY Powers, Division DEF uint32
<1> HIDE DEF q, r
<1>2. UINT32_SPAN * q \in Nat
  BY <1>1, Powers
<1>3. r \in 0 .. n
  BY <1>1, <1>2
<1> QED BY <1>3 DEF r

-----------------------------------------------------------------------------
(***************************************************************************)
(* What the actions do.                                                    *)
(***************************************************************************)

\* The file g that fwrite makes of a file f with m bytes by writing, at a place,
\* the w bytes of the part from o on: they are there, what was elsewhere has
\* not changed, and the file ends no earlier.
Written(f, m, at, o, w, g) ==
  /\ g = [i \in DOMAIN g |-> g[i]]
  /\ DOMAIN g = 0 .. (IF w = 0 \/ at + w <= m THEN m ELSE at + w) - 1
  /\ \A i \in DOMAIN f : i \in DOMAIN g
  /\ \A i \in at .. at + w - 1 : i \in DOMAIN g /\ g[i] = Source(o + (i - at))
  /\ \A i \in DOMAIN g : i \notin at .. at + w - 1 =>
       g[i] = IF i \in DOMAIN f THEN f[i] ELSE Filler

\* Write writes.
LEMMA WriteFacts ==
  ASSUME NEW f, f = [i \in DOMAIN f |-> f[i]],
         NEW m \in Nat, DOMAIN f = 0 .. m - 1,
         NEW at \in Nat, NEW o \in Nat, NEW w \in Nat
  PROVE  Written(f, m, at, o, w, Write(f, at, SegmentAt(o, w)))
<1> DEFINE g == Write(f, at, SegmentAt(o, w))
<1> SUFFICES Written(f, m, at, o, w, g)
  OBVIOUS
<1> USE DEF Written
<1> DEFINE data == SegmentAt(o, w)
<1>1. data \in Seq(Nat) /\ Len(data) = w /\ \A k \in 1 .. w : data[k] = o + k
  BY SegmentFacts
<1> HIDE DEF data
<1>2. CASE w = 0
  <2>1. data = << >>
    BY <1>1, <1>2, EmptySeq
  <2>2. g = f
    BY <2>1 DEF Write, data
  <2> HIDE DEF g
  <2> QED BY <1>2, <2>2
<1>3. CASE w # 0
  <2>1. data # << >>
    BY <1>1, <1>3, EmptySeq
  <2>2. g = [i \in DOMAIN f \cup 0 .. at + w - 1 |->
               IF at <= i /\ i < at + w THEN data[i - at + 1]
               ELSE IF i \in DOMAIN f THEN f[i] ELSE Filler]
    BY <1>1, <2>1 DEF Write, data
  <2> HIDE DEF g
  <2>3. /\ DOMAIN g = DOMAIN f \cup 0 .. at + w - 1
        /\ g = [i \in DOMAIN g |-> g[i]]
    BY <2>2
  <2>4. DOMAIN g = 0 .. (IF at + w <= m THEN m ELSE at + w) - 1
    BY <2>3
  <2>5. ASSUME NEW i \in at .. at + w - 1
        PROVE  i \in DOMAIN g /\ g[i] = Source(o + (i - at))
    <3>1. i \in 0 .. at + w - 1 /\ i - at + 1 \in 1 .. w /\ at <= i /\ i < at + w
      BY <2>5
    <3>2. g[i] = data[i - at + 1]
      BY <2>2, <3>1
    <3>3. data[i - at + 1] = o + (i - at + 1)
      BY <1>1, <3>1
    <3>4. o + (i - at + 1) = Source(o + (i - at))
      BY <3>1 DEF Source
    <3> QED BY <2>3, <3>1, <3>2, <3>3, <3>4
  <2>6. ASSUME NEW i \in DOMAIN g, i \notin at .. at + w - 1
        PROVE  g[i] = IF i \in DOMAIN f THEN f[i] ELSE Filler
    <3>1. i \in Int
      BY <2>4
    <3>2. ~(at <= i /\ i < at + w)
      BY <2>6, <3>1
    <3> QED BY <2>2, <2>3, <2>6, <3>2
  <2> QED BY <1>3, <2>3, <2>4, <2>5, <2>6
<1> QED BY <1>2, <1>3

\* What reading and sending the next packet does.
LEMMA NextPacket ==
  ASSUME HandleOK, file_io_get_next_packet
  PROVE  \E d : \E n \in 1 .. UDP_PACKET_DATA_SIZE :
           /\ sent' = sent \cup {d}
           /\ CarriesSegment(d, last_seq_no, pos, n) /\ d.flag = Flag
           /\ n = SegmentSize
           /\ pos' = pos + n /\ pos' \in 0 .. partSize
           /\ n < UDP_PACKET_DATA_SIZE => pos' = partSize
<1> DEFINE n == SegmentSize
           d == ucp_packet_encode_data(
                  [ucp_packet_init_data(last_seq_no, pos, Segment) EXCEPT !.flag = Flag])
<1>1. partSize \in Nat /\ pos \in 0 .. partSize /\ UDP_PACKET_DATA_SIZE \in Nat \ {0}
  BY FileAssumption, DatagramAssumption, Powers DEF HandleOK
<1>2. /\ n \in 1 .. UDP_PACKET_DATA_SIZE /\ pos + n \in 0 .. partSize
      /\ n < UDP_PACKET_DATA_SIZE => pos + n = partSize
  BY <1>1 DEF file_io_get_next_packet, SegmentSize
<1>3. sent' = sent \cup {d} /\ pos' = pos + n
  BY DEF file_io_get_next_packet
<1>4. last_seq_no \in 0 .. UINT32_SPAN - 1 /\ uint32(last_seq_no) = last_seq_no
  BY Powers, Uint32Range DEF HandleOK
<1>5. Len(Segment) = n /\ Segment = SegmentAt(pos, n)
  <2>1. Segment = SegmentAt(pos, n)
    BY DEF Segment, SegmentAt
  <2> QED BY <1>1, <1>2, <2>1, SegmentFacts
<1>6. d = [type |-> UCP_PACKET_TYPE_DATA, flag |-> Flag,
           seq_no |-> Bytes4(last_seq_no), offset |-> Bytes4(uint32(pos)),
           seg_len |-> << ByteOf(n, 0), ByteOf(n, 1) >>, data |-> Segment]
  BY <1>4, <1>5 DEF ucp_packet_encode_data, ucp_packet_init_data
<1>7. CarriesSegment(d, last_seq_no, pos, n) /\ d.flag = Flag
  BY <1>5, <1>6 DEF CarriesSegment
<1>8. n = SegmentSize
  OBVIOUS
<1> HIDE DEF d, n
<1> QED BY <1>2, <1>3, <1>7, <1>8

\* What saving a datagram, or the beginning of it, does.
LEMMA PacketSaved ==
  ASSUME FilesInv, NEW buf \in sent, NEW written \in 0 .. UDP_PACKET_DATA_SIZE,
         NEW ok \in BOOLEAN, written <= Len(buf.data),
         file_io_save_packet(buf, written, ok)
  PROVE  \E s \in 0 .. UINT32_SPAN - 1, o \in 0 .. pos, n \in 1 .. UDP_PACKET_DATA_SIZE :
           /\ o + n <= pos /\ CarriesSegment(buf, s, o, n)
           /\ written \in 0 .. n /\ (ok => written = n)
           /\ file' = Write(file, uint32(o), SegmentAt(o, written))
<1>1. PICK s \in 0 .. UINT32_SPAN - 1, o \in 0 .. pos, n \in 1 .. UDP_PACKET_DATA_SIZE :
        o + n <= pos /\ CarriesSegment(buf, s, o, n)
  BY DEF FilesInv, SentIsRead
<1>2. o \in Nat /\ n \in Nat
  BY DatagramAssumption, Powers, FileAssumption DEF FilesInv, HandleOK
<1> DEFINE pkt == ucp_packet_decode_data(buf)
<1>3. /\ Len(buf.data) = n /\ pkt.offset = uint32(o) /\ pkt.segment = SegmentAt(o, n)
      /\ Len(pkt.segment) = n
  BY <1>1, <1>2, Decoded, SegmentFacts
<1>4. file' = Write(file, pkt.offset, SubSeq(pkt.segment, 1, written))
  BY DEF file_io_save_packet
<1>5. ok => written = Len(pkt.segment)
  BY DEF file_io_save_packet
<1> HIDE DEF pkt
<1>6. written \in 0 .. n
  BY <1>2, <1>3, DatagramAssumption, Powers
<1>7. SubSeq(pkt.segment, 1, written) = SegmentAt(o, written)
  BY <1>2, <1>3, <1>6, BeginningOfSegment
<1> QED BY <1>1, <1>3, <1>4, <1>5, <1>6, <1>7

\* The variables of the handle are numbers.
LEMMA HandleNumbers ==
  ASSUME HandleOK
  PROVE  /\ partSize \in Nat /\ pos \in Nat /\ pos <= partSize
         /\ last_seq_no \in Nat /\ UINT32_SPAN \in Nat \ {0}
         /\ UDP_PACKET_DATA_SIZE \in Nat \ {0}
<1>1. partSize \in Nat /\ UDP_PACKET_DATA_SIZE \in Nat \ {0}
  BY FileAssumption, DatagramAssumption, Powers DEF HandleOK
<1> QED BY <1>1, Powers DEF HandleOK

\* An offset of a part that is not too large has 32 bits.
LEMMA OffsetFits ==
  ASSUME HandleOK, partSize <= UINT32_SPAN,
         NEW o \in 0 .. pos, NEW n \in 1 .. UDP_PACKET_DATA_SIZE, o + n <= partSize
  PROVE  uint32(o) = o
<1>1. o \in Nat /\ o < UINT32_SPAN
  BY HandleNumbers
<1> QED BY <1>1, Uint32Range

-----------------------------------------------------------------------------
(***************************************************************************)
(* The invariant holds at first and is preserved, action by action.        *)
(***************************************************************************)

LEMMA InitFiles ==
  ASSUME Init
  PROVE  FilesInv
<1>1. partSize \in Nat
  BY FileAssumption DEF Init
<1>2. HandleOK /\ WaitingIsEmpty /\ SentIsRead /\ FlagsMarkTheEnds
  BY <1>1, Powers DEF Init, HandleOK, WaitingIsEmpty, SentIsRead, FlagsMarkTheEnds
<1>3. ReadIsSent
  BY DEF Init, ReadIsSent
<1>4. FileShape /\ FileBytes
  <2>1. file = << >>
    BY DEF Init
  <2>2. DOMAIN file = 0 .. 0 - 1 /\ 0 \in 0 .. partSize
    BY <2>1, <1>1
  <2>3. \A i \in DOMAIN file : FALSE
    BY <2>2
  <2>4. file = [i \in DOMAIN file |-> file[i]]
    BY <2>1
  <2> QED BY <2>2, <2>3, <2>4 DEF FileShape, FileBytes
<1>5. SavedIsInFile
  BY DEF Init, SavedIsInFile
<1> QED BY <1>2, <1>3, <1>4, <1>5 DEF FilesInv

\* The server opens its file.
LEMMA OpenStep ==
  ASSUME FilesInv, NEW written \in 0 .. AnnouncedSize, file_io_open_file_of_size(written)
  PROVE  FilesInv'
<1>1. HandleOK /\ partSize \in Nat /\ sent = {} /\ saved = {}
  BY HandleNumbers DEF FilesInv, HandleOK, WaitingIsEmpty, file_io_open_file_of_size
<1>2. /\ UNCHANGED <<partSize, pos, last_seq_no, sent, saved>>
      /\ server' = "receiving" /\ file' = [i \in 0 .. written - 1 |-> Filler]
  BY DEF file_io_open_file_of_size
<1>3. written \in 0 .. partSize
  BY <1>1, SizeAnnounced, Uint32Shrinks
<1>4. HandleOK' /\ WaitingIsEmpty' /\ SentIsRead' /\ FlagsMarkTheEnds'
  BY <1>1, <1>2 DEF HandleOK, WaitingIsEmpty, SentIsRead, FlagsMarkTheEnds
<1>5. ReadIsSent'
  BY <1>2 DEF FilesInv, ReadIsSent, Places
<1>6. FileShape' /\ FileBytes'
  BY <1>2, <1>3 DEF FileShape, FileBytes
<1>7. SavedIsInFile'
  BY <1>1, <1>2 DEF SavedIsInFile
<1> QED BY <1>4, <1>5, <1>6, <1>7 DEF FilesInv

\* Steps in which only the server's state changes, and stuttering.
LEMMA ServerStep ==
  ASSUME FilesInv, UNCHANGED <<partSize, pos, last_seq_no, sent, file, saved>>,
         \/ server' = server
         \/ server' \in {"nofile", "crashed"}
  PROVE  FilesInv'
<1>1. HandleOK' /\ WaitingIsEmpty'
  BY DEF FilesInv, HandleOK, WaitingIsEmpty
<1>2. SentIsRead' /\ ReadIsSent' /\ FlagsMarkTheEnds'
  BY DEF FilesInv, SentIsRead, ReadIsSent, FlagsMarkTheEnds, CarriesSegment, Places
<1>3. FileShape' /\ FileBytes' /\ SavedIsInFile'
  BY DEF FilesInv, FileShape, FileBytes, SavedIsInFile, Belongs, Places
<1> QED BY <1>1, <1>2, <1>3 DEF FilesInv

\* The next packet is read and sent.
LEMMA ReadStep ==
  ASSUME FilesInv, file_io_get_next_packet
  PROVE  FilesInv'
<1>0. HandleOK
  BY DEF FilesInv
<1>1. PICK d : \E n \in 1 .. UDP_PACKET_DATA_SIZE :
           /\ sent' = sent \cup {d}
           /\ CarriesSegment(d, last_seq_no, pos, n) /\ d.flag = Flag
           /\ n = SegmentSize
           /\ pos' = pos + n /\ pos' \in 0 .. partSize
           /\ n < UDP_PACKET_DATA_SIZE => pos' = partSize
  BY <1>0, NextPacket
<1>2. PICK n \in 1 .. UDP_PACKET_DATA_SIZE :
           /\ sent' = sent \cup {d}
           /\ CarriesSegment(d, last_seq_no, pos, n) /\ d.flag = Flag
           /\ n = SegmentSize
           /\ pos' = pos + n /\ pos' \in 0 .. partSize
           /\ n < UDP_PACKET_DATA_SIZE => pos' = partSize
  BY <1>1
<1>3. /\ UNCHANGED <<partSize, server, file, saved>> /\ server # "waiting"
      /\ last_seq_no' = uint32(last_seq_no + 1) /\ SegmentSize > 0
  BY DEF file_io_get_next_packet
<1>4. /\ partSize \in Nat /\ pos \in Nat /\ pos <= partSize /\ last_seq_no \in Nat
      /\ last_seq_no \in 0 .. UINT32_SPAN - 1
      /\ UINT32_SPAN \in Nat \ {0} /\ UDP_PACKET_DATA_SIZE \in Nat \ {0} /\ n \in Nat
  BY <1>0, HandleNumbers DEF HandleOK
<1>5. Number4(d.seq_no) = last_seq_no /\ Number4(d.offset) = uint32(pos) /\ Len(d.data) = n
  BY <1>2, <1>4, Decoded
<1>6. HandleOK'
  <2>1. last_seq_no' \in 0 .. UINT32_SPAN - 1
    BY <1>3, <1>4, Uint32Range
  <2>2. pos' # 0
    BY <1>2, <1>4
  <2> QED BY <1>0, <1>2, <1>3, <2>1, <2>2 DEF HandleOK
<1>7. WaitingIsEmpty'
  BY <1>3 DEF WaitingIsEmpty
<1>8. SentIsRead'
  <2> SUFFICES ASSUME NEW e \in sent'
               PROVE  \E s \in 0 .. UINT32_SPAN - 1, o \in 0 .. pos',
                         k \in 1 .. UDP_PACKET_DATA_SIZE :
                        o + k <= pos' /\ CarriesSegment(e, s, o, k)
    BY DEF SentIsRead, CarriesSegment
  <2>1. CASE e \in sent
    <3>1. PICK s \in 0 .. UINT32_SPAN - 1, o \in 0 .. pos, k \in 1 .. UDP_PACKET_DATA_SIZE :
            o + k <= pos /\ CarriesSegment(e, s, o, k)
      BY <2>1 DEF FilesInv, SentIsRead
    <3>2. o \in 0 .. pos' /\ o + k <= pos'
      BY <3>1, <1>2, <1>4
    <3> QED BY <3>1, <3>2
  <2>2. CASE e = d
    <3>1. pos \in 0 .. pos' /\ pos + n <= pos'
      BY <1>2, <1>4
    <3> QED BY <2>2, <3>1, <1>2, <1>4
  <2> QED BY <2>1, <2>2, <1>2
<1>9. ReadIsSent'
  <2> SUFFICES ASSUME partSize <= UINT32_SPAN, NEW i \in 0 .. pos' - 1
               PROVE  \E e \in sent' : i \in Places(e)
    BY <1>3 DEF ReadIsSent, Places
  <2>1. CASE i < pos
    <3>1. i \in 0 .. pos - 1
      BY <2>1, <1>2, <1>4
    <3> QED BY <3>1, <1>2 DEF FilesInv, ReadIsSent
  <2>2. CASE ~(i < pos)
    <3>1. pos \in 0 .. pos /\ pos + n <= partSize
      BY <1>2, <1>4
    <3>2. uint32(pos) = pos
      BY <3>1, <1>0, OffsetFits
    <3>3. i \in Places(d)
      BY <2>2, <3>2, <1>2, <1>4, <1>5 DEF Places
    <3> QED BY <3>3, <1>2
  <2> QED BY <2>1, <2>2
<1>10. FileShape'
  BY <1>3 DEF FilesInv, FileShape
<1>11. FileBytes'
  <2>1. \A j \in 0 .. pos - 1 : j \in 0 .. pos' - 1
    BY <1>2, <1>4
  <2> QED BY <2>1, <1>3 DEF FilesInv, FileBytes, Belongs
<1>12. SavedIsInFile'
  BY <1>3 DEF FilesInv, SavedIsInFile, Places
<1>13. FlagsMarkTheEnds'
  <2> SUFFICES ASSUME NEW e \in sent'
               PROVE  /\ e.flag = UCP_FLAG_DATA_START => Number4(e.seq_no) = 0
                      /\ e.flag = UCP_FLAG_DATA_END =>
                           pos' = partSize' /\ uint32(Number4(e.seq_no) + 1) = last_seq_no'
    BY DEF FlagsMarkTheEnds
  <2>1. CASE e \in sent
    <3>1. pos # partSize
      BY <1>2, <1>4
    <3> QED BY <2>1, <3>1 DEF FilesInv, FlagsMarkTheEnds
  <2>2. CASE e = d
    <3>1. d.flag = UCP_FLAG_DATA_START => pos = 0
      BY <1>2 DEF Flag, UCP_FLAG_DATA_START, UCP_FLAG_DATA_END, UCP_FLAG_DATA_SEGMENT
    <3>2. d.flag = UCP_FLAG_DATA_END => SegmentSize < UDP_PACKET_DATA_SIZE
      BY <1>2 DEF Flag, UCP_FLAG_DATA_START, UCP_FLAG_DATA_END, UCP_FLAG_DATA_SEGMENT
    <3>3. d.flag = UCP_FLAG_DATA_START => Number4(d.seq_no) = 0
      BY <3>1, <1>0, <1>5 DEF HandleOK
    <3>4. d.flag = UCP_FLAG_DATA_END =>
            pos' = partSize' /\ uint32(Number4(d.seq_no) + 1) = last_seq_no'
      BY <3>2, <1>2, <1>3, <1>5
    <3> QED BY <2>2, <3>3, <3>4
  <2> QED BY <2>1, <2>2, <1>2
<1> QED BY <1>6, <1>7, <1>8, <1>9, <1>10, <1>11, <1>12, <1>13 DEF FilesInv

\* A segment lands where it belongs, and leaves the rest of the file alone.
LEMMA SaveKeepsPlaces ==
  ASSUME FilesInv, NEW buf \in sent, NEW written \in 0 .. UDP_PACKET_DATA_SIZE,
         NEW ok \in BOOLEAN, written <= Len(buf.data),
         file_io_save_packet(buf, written, ok)
  PROVE  /\ FileShape' /\ FileBytes'
         /\ \A i \in DOMAIN file : i \in DOMAIN file'
         /\ partSize <= UINT32_SPAN =>
              /\ \A i \in DOMAIN file :
                   file'[i] = file[i] \/ (i \in 0 .. pos - 1 /\ file'[i] = Source(i))
              /\ ok => \A i \in Places(buf) : i \in DOMAIN file' /\ file'[i] = Source(i)
<1>0. HandleOK
  BY DEF FilesInv
<1>1. PICK s \in 0 .. UINT32_SPAN - 1, o \in 0 .. pos, n \in 1 .. UDP_PACKET_DATA_SIZE :
           /\ o + n <= pos /\ CarriesSegment(buf, s, o, n)
           /\ written \in 0 .. n /\ (ok => written = n)
           /\ file' = Write(file, uint32(o), SegmentAt(o, written))
  BY PacketSaved
<1>2. UNCHANGED <<partSize, pos, last_seq_no, sent>>
  BY DEF file_io_save_packet
<1>3. /\ partSize \in Nat /\ pos \in Nat /\ pos <= partSize
      /\ o \in Nat /\ n \in Nat /\ written \in Nat /\ written <= n /\ o + n <= pos
      /\ UINT32_SPAN \in Nat
  BY <1>0, <1>1, HandleNumbers
<1> DEFINE at == uint32(o)
<1>4. at \in Nat /\ at \in 0 .. o
  BY <1>3, Uint32Range, Uint32Shrinks
<1>5. PICK m \in 0 .. partSize : DOMAIN file = 0 .. m - 1
  BY DEF FilesInv, FileShape
<1> DEFINE end == IF written = 0 \/ at + written <= m THEN m ELSE at + written
<1>6. /\ file' = [i \in DOMAIN file' |-> file'[i]]
      /\ DOMAIN file' = 0 .. end - 1
      /\ \A i \in DOMAIN file : i \in DOMAIN file'
      /\ \A i \in at .. at + written - 1 :
           i \in DOMAIN file' /\ file'[i] = Source(o + (i - at))
      /\ \A i \in DOMAIN file' : i \notin at .. at + written - 1 =>
           file'[i] = IF i \in DOMAIN file THEN file[i] ELSE Filler
  <2>1. file = [i \in DOMAIN file |-> file[i]]
    BY DEF FilesInv, FileShape
  <2>2. m \in Nat /\ DOMAIN file = 0 .. m - 1
    BY <1>3, <1>5
  <2>3. file' = Write(file, at, SegmentAt(o, written))
    BY <1>1
  <2> HIDE DEF at
  <2>4. Written(file, m, at, o, written, file')
    BY <1>3, <1>4, <2>1, <2>2, <2>3, WriteFacts
  <2> QED BY <2>4 DEF Written
<1>7. partSize <= UINT32_SPAN => at = o
  BY <1>0, <1>1, <1>3, OffsetFits
<1>8. FileShape'
  <2>1. end \in 0 .. partSize
    BY <1>3, <1>4, <1>5
  <2> HIDE DEF end
  <2> QED BY <1>2, <1>6, <2>1 DEF FileShape
<1>9. FileBytes'
  <2> SUFFICES ASSUME NEW i \in DOMAIN file'
               PROVE  file'[i] = Filler
                        \/ \E j \in 0 .. pos - 1 : file'[i] = Source(j) /\ Belongs(i, j)
    BY <1>2 DEF FileBytes, Belongs
  <2>1. CASE i \in at .. at + written - 1
    <3> DEFINE k == i - at
               j == o + k
    <3>1. k \in Nat /\ i = at + k /\ j \in 0 .. pos - 1
      BY <1>3, <1>4, <2>1
    <3>2. file'[i] = Source(j)
      BY <1>6, <2>1
    <3>3. CASE partSize <= UINT32_SPAN
      <4>1. i = j
        BY <1>3, <1>7, <3>1, <3>3
      <4> HIDE DEF j
      <4> QED BY <3>1, <3>2, <3>3, <4>1 DEF Belongs
    <3>4. CASE ~(partSize <= UINT32_SPAN)
      <4>1. uint32(at + k) = uint32(o + k)
        <5> HIDE DEF k
        <5> QED BY <1>3, <3>1, Uint32OfSum
      <4>2. uint32(i) = uint32(j)
        BY <3>1, <4>1
      <4> HIDE DEF j
      <4> QED BY <3>1, <3>2, <3>4, <4>2 DEF Belongs
    <3> QED BY <3>3, <3>4
  <2>2. CASE i \notin at .. at + written - 1
    <3>1. file'[i] = IF i \in DOMAIN file THEN file[i] ELSE Filler
      BY <1>6, <2>2
    <3> QED BY <3>1 DEF FilesInv, FileBytes
  <2> QED BY <2>1, <2>2
<1>10. ASSUME partSize <= UINT32_SPAN, NEW i \in DOMAIN file
       PROVE  file'[i] = file[i] \/ (i \in 0 .. pos - 1 /\ file'[i] = Source(i))
  <2>1. CASE i \in at .. at + written - 1
    <3>1. at = o
      BY <1>7, <1>10
    <3>2. i \in 0 .. pos - 1 /\ o + (i - at) = i
      BY <1>3, <1>4, <2>1, <3>1
    <3> QED BY <1>6, <2>1, <3>2
  <2>2. CASE i \notin at .. at + written - 1
    BY <1>6, <1>10, <2>2
  <2> QED BY <2>1, <2>2
<1>11. ASSUME partSize <= UINT32_SPAN, ok, NEW i \in Places(buf)
       PROVE  i \in DOMAIN file' /\ file'[i] = Source(i)
  <2>1. Number4(buf.offset) = at /\ Len(buf.data) = n
    BY <1>1, <1>3, Decoded
  <2>2. i \in at .. at + written - 1 /\ at = o
    BY <1>1, <1>7, <1>11, <2>1 DEF Places
  <2>3. o + (i - at) = i
    BY <1>3, <1>4, <2>2
  <2> QED BY <1>6, <2>2, <2>3
<1> QED BY <1>6, <1>8, <1>9, <1>10, <1>11

\* A datagram is saved, or part of it.
LEMMA SaveStep ==
  ASSUME FilesInv, NEW buf \in sent, NEW written \in 0 .. UDP_PACKET_DATA_SIZE,
         NEW ok \in BOOLEAN, written <= Len(buf.data),
         file_io_save_packet(buf, written, ok)
  PROVE  FilesInv'
<1>1. /\ UNCHANGED <<partSize, pos, last_seq_no, sent>>
      /\ saved' = IF ok THEN saved \cup {buf} ELSE saved
      /\ server = "receiving" /\ server' = IF ok THEN server ELSE "stopped"
  BY DEF file_io_save_packet
<1>2. HandleOK' /\ WaitingIsEmpty'
  BY <1>1 DEF FilesInv, HandleOK, WaitingIsEmpty
<1>3. SentIsRead' /\ ReadIsSent' /\ FlagsMarkTheEnds'
  BY <1>1 DEF FilesInv, SentIsRead, ReadIsSent, FlagsMarkTheEnds, CarriesSegment, Places
<1>4. FileShape' /\ FileBytes'
  BY SaveKeepsPlaces
<1>5. SavedIsInFile'
  <2> SUFFICES ASSUME partSize <= UINT32_SPAN, NEW d \in saved', NEW i \in Places(d)
               PROVE  i \in DOMAIN file' /\ file'[i] = Source(i)
    BY <1>1 DEF SavedIsInFile, Places
  <2>1. CASE d \in saved
    <3>1. i \in DOMAIN file /\ file[i] = Source(i)
      BY <2>1 DEF FilesInv, SavedIsInFile
    <3> QED BY <3>1, SaveKeepsPlaces
  <2>2. CASE ok /\ d = buf
    BY <2>2, SaveKeepsPlaces
  <2> QED BY <1>1, <2>1, <2>2
<1> QED BY <1>2, <1>3, <1>4, <1>5 DEF FilesInv

\* Every step preserves the invariant.
LEMMA FilesStep ==
  ASSUME FilesInv, [Next]_vars
  PROVE  FilesInv'
<1>1. ASSUME NEW written \in 0 .. AnnouncedSize, file_io_open_file_of_size(written)
      PROVE  FilesInv'
  BY <1>1, OpenStep
<1>2. CASE OpenFails
  BY <1>2, ServerStep DEF OpenFails
<1>3. CASE file_io_get_next_packet
  BY <1>3, ReadStep
<1>4. ASSUME NEW buf \in sent, NEW written \in 0 .. UDP_PACKET_DATA_SIZE,
             NEW ok \in BOOLEAN, written <= Len(buf.data),
             file_io_save_packet(buf, written, ok)
      PROVE  FilesInv'
  BY <1>4, SaveStep
<1>5. CASE SaveWithoutFile
  BY <1>5, ServerStep DEF SaveWithoutFile
<1>6. CASE UNCHANGED vars
  BY <1>6, ServerStep DEF vars
<1> QED BY <1>1, <1>2, <1>3, <1>4, <1>5, <1>6 DEF Next

-----------------------------------------------------------------------------
(***************************************************************************)
(* The theorems.                                                           *)
(***************************************************************************)

\* The invariant holds in every state: what file_io.c reads, sends and writes
\* for one part fits together.
THEOREM FilesInvariance == Spec => []FilesInv
<1>1. Init => FilesInv
  BY InitFiles
<1>2. FilesInv /\ [Next]_vars => FilesInv'
  BY FilesStep
<1> QED BY <1>1, <1>2, PTL DEF Spec

\* The handle, the datagrams and the file of file_io.c have their types: the
\* fields of a datagram are bytes, and the server's file is never longer than
\* the part, whatever was announced and in whatever order segments arrive.
THEOREM FilePartsTypes == Spec => []TypeOK
<1>1. FilesInv => TypeOK
  <2> SUFFICES ASSUME FilesInv PROVE TypeOK
    OBVIOUS
  <2>0. HandleOK /\ partSize \in Nat /\ pos \in Nat /\ pos <= partSize
    BY HandleNumbers DEF FilesInv
  <2>1. ASSUME NEW d \in sent
        PROVE  /\ d.type = UCP_PACKET_TYPE_DATA
               /\ d.seq_no \in [1 .. 4 -> 0 .. Byte - 1]
               /\ d.offset \in [1 .. 4 -> 0 .. Byte - 1]
               /\ d.seg_len \in [1 .. 2 -> 0 .. Byte - 1]
               /\ Len(d.data) \in 1 .. UDP_PACKET_DATA_SIZE
    <3>1. PICK s \in 0 .. UINT32_SPAN - 1, o \in 0 .. pos, n \in 1 .. UDP_PACKET_DATA_SIZE :
            CarriesSegment(d, s, o, n)
      BY <2>1 DEF FilesInv, SentIsRead
    <3>2. s \in Nat /\ o \in Nat /\ n \in Nat /\ uint32(o) \in Nat
      BY <2>0, Uint32Range, HandleNumbers
    <3>3. \A x \in Nat : /\ ByteOf(x, 0) \in 0 .. Byte - 1 /\ ByteOf(x, 1) \in 0 .. Byte - 1
                         /\ ByteOf(x, 2) \in 0 .. Byte - 1 /\ ByteOf(x, 3) \in 0 .. Byte - 1
      BY BytesAreBytes
    <3>4. \A x \in Nat : /\ Bytes4(x) \in [1 .. 4 -> 0 .. Byte - 1]
                         /\ << ByteOf(x, 0), ByteOf(x, 1) >> \in [1 .. 2 -> 0 .. Byte - 1]
      BY <3>3 DEF Bytes4
    <3>5. Len(d.data) = n
      BY <3>1, <3>2, Decoded
    <3> QED BY <3>1, <3>2, <3>4, <3>5 DEF CarriesSegment
  <2>2. \E n \in 0 .. partSize : DOMAIN file = 0 .. n - 1
    BY DEF FilesInv, FileShape
  <2>3. \A i \in DOMAIN file : file[i] \in {Filler} \cup {Source(j) : j \in 0 .. partSize - 1}
    <3>1. \A j \in 0 .. pos - 1 : j \in 0 .. partSize - 1
      BY <2>0
    <3> QED BY <3>1 DEF FilesInv, FileBytes
  <2> QED BY <2>0, <2>1, <2>2, <2>3 DEF HandleOK, TypeOK
<1> QED BY <1>1, FilesInvariance, PTL

\* No byte is ever in a wrong place, for parts of any size: the offset of a
\* packet and fseek put every segment where file_io_get_next_packet read it.
THEOREM BytesComeToTheirPlace == Spec => []BytesInPlace
<1>1. FilesInv => BytesInPlace
  <2> SUFFICES ASSUME FilesInv,
                      NEW i \in DOMAIN file, NEW j \in 0 .. partSize - 1, file[i] = Source(j)
               PROVE  Belongs(i, j)
    BY DEF BytesInPlace, Belongs
  <2>1. HandleOK /\ partSize \in Nat /\ pos \in Nat
    BY HandleNumbers DEF FilesInv
  <2>2. file[i] # Filler
    BY <2>1 DEF Source, Filler
  <2>3. PICK k \in 0 .. pos - 1 : file[i] = Source(k) /\ Belongs(i, k)
    BY <2>2 DEF FilesInv, FileBytes
  <2>4. j = k
    BY <2>1, <2>3 DEF Source
  <2> QED BY <2>3, <2>4
<1> QED BY <1>1, FilesInvariance, PTL

\* When every packet has been saved the file is the part, for parts of up to
\* 2^32 bytes and whatever file_io_open_file_of_size could write.
THEOREM CompletePartIsWhole == Spec => []AllSavedIsWhole
<1>1. FilesInv => AllSavedIsWhole
  <2> SUFFICES ASSUME FilesInv, pos = partSize, saved = sent, partSize <= UINT32_SPAN
               PROVE  file = [i \in 0 .. partSize - 1 |-> Source(i)]
    BY DEF AllSavedIsWhole
  <2>1. partSize \in Nat
    BY HandleNumbers DEF FilesInv
  <2>2. \A i \in 0 .. partSize - 1 : i \in DOMAIN file /\ file[i] = Source(i)
    BY DEF FilesInv, ReadIsSent, SavedIsInFile
  <2>3. PICK n \in 0 .. partSize : DOMAIN file = 0 .. n - 1
    BY DEF FilesInv, FileShape
  <2>4. DOMAIN file = 0 .. partSize - 1
    BY <2>1, <2>2, <2>3
  <2>5. file = [i \in DOMAIN file |-> file[i]]
    BY DEF FilesInv, FileShape
  <2> QED BY <2>2, <2>4, <2>5
<1> QED BY <1>1, FilesInvariance, PTL

\* START is only on the first packet and END only on the last one read by
\* file_io_get_next_packet, for parts of any size.
THEOREM FlagsAreAtTheEnds == Spec => []FlagsMarkTheEnds
<1>1. FilesInv => FlagsMarkTheEnds
  BY DEF FilesInv
<1> QED BY <1>1, FilesInvariance, PTL

\* A byte of the part that file_io_save_packet has written is not changed by a
\* later packet, one that is repeated or one that the disk cuts short.
THEOREM SavedBytesStay == Spec => SavedStays
<1>1. ASSUME FilesInv, [Next]_vars, partSize <= UINT32_SPAN,
             NEW i \in DOMAIN file, file[i] # Filler
      PROVE  i \in DOMAIN file' /\ file'[i] = file[i]
  <2>1. ASSUME NEW written \in 0 .. AnnouncedSize, file_io_open_file_of_size(written)
        PROVE  FALSE
    <3>1. file = << >>
      BY <1>1, <2>1 DEF FilesInv, WaitingIsEmpty, file_io_open_file_of_size
    <3> QED BY <1>1, <3>1
  <2>2. ASSUME NEW buf \in sent, NEW written \in 0 .. UDP_PACKET_DATA_SIZE,
               NEW ok \in BOOLEAN, written <= Len(buf.data),
               file_io_save_packet(buf, written, ok)
        PROVE  i \in DOMAIN file' /\ file'[i] = file[i]
    <3>1. /\ i \in DOMAIN file'
          /\ file'[i] = file[i] \/ (i \in 0 .. pos - 1 /\ file'[i] = Source(i))
      BY <1>1, <2>2, SaveKeepsPlaces
    <3>2. file[i] = Source(i)
      BY <1>1 DEF FilesInv, FileBytes, Belongs
    <3> QED BY <3>1, <3>2
  <2>3. CASE file' = file
    BY <1>1, <2>3
  <2> QED BY <1>1, <2>1, <2>2, <2>3
          DEF Next, vars, OpenFails, file_io_get_next_packet, SaveWithoutFile
<1>2. FilesInv /\ [Next]_vars =>
        [partSize <= UINT32_SPAN =>
           \A i \in DOMAIN file :
             file[i] # Filler => i \in DOMAIN file' /\ file'[i] = file[i]]_vars
  BY <1>1
<1> QED BY <1>2, FilesInvariance, PTL DEF Spec, SavedStays
=============================================================================
