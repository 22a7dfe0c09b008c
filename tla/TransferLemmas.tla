--------------------------- MODULE TransferLemmas ----------------------------
(***************************************************************************)
(* Facts about the operators UcpTransfer is built from: the windows of the *)
(* client, seen as the sets of packets they hold, and the bytes of control *)
(* packets, seen where a read cuts them.  UcpTransferProofs cites them.    *)
(***************************************************************************)
EXTENDS UcpTransfer, SequencerLemmas

-----------------------------------------------------------------------------
(***************************************************************************)
(* Sequences and the sets of their elements.                               *)
(***************************************************************************)

\* No element has two places.
Distinct(s) == \A i, j \in 1 .. Len(s) : s[i] = s[j] => i = j

\* The elements of a sequence.
LEMMA SetOfSeq ==
  ASSUME NEW S, NEW s \in Seq(S)
  PROVE  /\ Len(s) \in Nat
         /\ DOMAIN s = 1 .. Len(s)
         /\ ToSet(s) = { s[i] : i \in 1 .. Len(s) }
         /\ ToSet(s) \subseteq S
         /\ s = << >> <=> ToSet(s) = {}
<1>1. /\ Len(s) \in Nat /\ DOMAIN s = 1 .. Len(s)
      /\ \A i \in 1 .. Len(s) : s[i] \in S
  BY LenProperties, ElementOfSeq
<1>2. ToSet(s) = { s[i] : i \in 1 .. Len(s) }
  BY <1>1 DEF ToSet
<1>3. ASSUME s # << >> PROVE ToSet(s) # {}
  <2>1. 1 \in 1 .. Len(s)
    BY <1>3, EmptySeq
  <2> QED
    BY <1>2, <2>1
<1>4. ASSUME s = << >> PROVE ToSet(s) = {}
  <2>1. Len(s) = 0
    BY <1>4, EmptySeq
  <2> QED
    BY <1>2, <2>1
<1> QED
  BY <1>1, <1>2, <1>3, <1>4

\* LinkedListAppend.
LEMMA AppendSet ==
  ASSUME NEW S, NEW s \in Seq(S), NEW e \in S
  PROVE  /\ Append(s, e) \in Seq(S)
         /\ Len(Append(s, e)) = Len(s) + 1
         /\ ToSet(Append(s, e)) = ToSet(s) \cup {e}
         /\ Distinct(s) /\ e \notin ToSet(s) => Distinct(Append(s, e))
<1> DEFINE t == Append(s, e)
<1>1. /\ t \in Seq(S) /\ Len(t) = Len(s) + 1
      /\ \A i \in 1 .. Len(s) : t[i] = s[i]
      /\ t[Len(s) + 1] = e
  BY AppendProperties
<1> HIDE DEF t
<1>2. /\ Len(s) \in Nat /\ ToSet(s) = { s[i] : i \in 1 .. Len(s) }
      /\ ToSet(t) = { t[i] : i \in 1 .. Len(t) }
  BY <1>1, SetOfSeq
<1>3. ToSet(t) = ToSet(s) \cup {e}
  <2>1. ASSUME NEW x \in ToSet(t) PROVE x \in ToSet(s) \cup {e}
    <3>1. PICK i \in 1 .. Len(s) + 1 : x = t[i]
      BY <1>1, <1>2, <2>1
    <3>2. CASE i = Len(s) + 1
      BY <1>1, <3>1, <3>2
    <3>3. CASE i # Len(s) + 1
      <4>1. i \in 1 .. Len(s)
        BY <1>2, <3>3
      <4> QED
        BY <1>1, <1>2, <3>1, <4>1
    <3> QED
      BY <3>2, <3>3
  <2>2. ASSUME NEW x \in ToSet(s) PROVE x \in ToSet(t)
    <3>1. PICK i \in 1 .. Len(s) : x = s[i]
      BY <1>2, <2>2
    <3>2. x = t[i] /\ i \in 1 .. Len(t)
      BY <1>1, <1>2, <3>1
    <3> QED
      BY <1>2, <3>2
  <2>3. e \in ToSet(t)
    <3>1. Len(s) + 1 \in 1 .. Len(t)
      BY <1>1, <1>2
    <3> QED
      BY <1>1, <1>2, <3>1
  <2> QED
    BY <2>1, <2>2, <2>3
<1>4. ASSUME Distinct(s), e \notin ToSet(s),
             NEW i \in 1 .. Len(t), NEW j \in 1 .. Len(t), t[i] = t[j]
      PROVE  i = j
  <2>1. \A k \in 1 .. Len(s) : t[k] # e
    BY <1>1, <1>2, <1>4
  <2>2. CASE i = Len(s) + 1 \/ j = Len(s) + 1
    BY <1>1, <1>2, <1>4, <2>1, <2>2
  <2>3. CASE i # Len(s) + 1 /\ j # Len(s) + 1
    <3>1. i \in 1 .. Len(s) /\ j \in 1 .. Len(s)
      BY <1>1, <1>2, <2>3
    <3> QED
      BY <1>1, <1>4, <3>1 DEF Distinct
  <2> QED
    BY <2>2, <2>3
<1> QED
  BY <1>1, <1>3, <1>4 DEF Distinct, t

\* LinkedListFirst and LinkedListUnlink of what it returns.
LEMMA TailSet ==
  ASSUME NEW S, NEW s \in Seq(S), s # << >>
  PROVE  /\ Head(s) \in S /\ Head(s) \in ToSet(s)
         /\ Tail(s) \in Seq(S)
         /\ ToSet(s) = ToSet(Tail(s)) \cup {Head(s)}
         /\ Distinct(s) => /\ Distinct(Tail(s))
                           /\ ToSet(Tail(s)) = ToSet(s) \ {Head(s)}
<1> DEFINE t == Tail(s)
<1>1. /\ t \in Seq(S) /\ Len(t) = Len(s) - 1 /\ Head(s) \in S
      /\ \A i \in 1 .. Len(t) : t[i] = s[i + 1]
  BY HeadTailProperties
<1>2. Head(s) = s[1]
  OBVIOUS
<1> HIDE DEF t
<1>3. /\ Len(s) \in Nat /\ 1 \in 1 .. Len(s)
      /\ ToSet(s) = { s[i] : i \in 1 .. Len(s) }
      /\ ToSet(t) = { t[i] : i \in 1 .. Len(t) }
  BY <1>1, SetOfSeq, EmptySeq
<1>4. ToSet(s) = ToSet(t) \cup {s[1]}
  <2>1. ASSUME NEW x \in ToSet(s) PROVE x \in ToSet(t) \cup {s[1]}
    <3>1. PICK i \in 1 .. Len(s) : x = s[i]
      BY <1>3, <2>1
    <3>2. CASE i # 1
      <4> DEFINE k == i - 1
      <4>1. k \in 1 .. Len(t) /\ i = k + 1
        BY <1>1, <1>3, <3>2
      <4> HIDE DEF k
      <4>2. t[k] = x
        BY <1>1, <3>1, <4>1
      <4> QED
        BY <1>3, <4>1, <4>2
    <3> QED
      BY <3>1, <3>2
  <2>2. ASSUME NEW x \in ToSet(t) PROVE x \in ToSet(s)
    <3>1. PICK i \in 1 .. Len(t) : x = t[i]
      BY <1>3, <2>2
    <3>2. x = s[i + 1] /\ i + 1 \in 1 .. Len(s)
      BY <1>1, <1>3, <3>1
    <3> QED
      BY <1>3, <3>2
  <2> QED
    BY <1>3, <2>1, <2>2
<1>5. ASSUME Distinct(s)
      PROVE  Distinct(t) /\ s[1] \notin ToSet(t)
  <2>1. \A i \in 1 .. Len(t) : i + 1 \in 1 .. Len(s)
    BY <1>1, <1>3
  <2>2. ASSUME NEW i \in 1 .. Len(t), NEW j \in 1 .. Len(t), t[i] = t[j]
        PROVE  i = j
    <3>1. i + 1 = j + 1
      BY <1>1, <1>5, <2>1, <2>2 DEF Distinct
    <3> QED
      BY <3>1
  <2>3. ASSUME NEW i \in 1 .. Len(t), t[i] = s[1] PROVE FALSE
    <3>1. i + 1 = 1
      BY <1>1, <1>3, <1>5, <2>1, <2>3 DEF Distinct
    <3> QED
      BY <3>1
  <2> QED
    BY <1>3, <2>2, <2>3 DEF Distinct
<1> QED
  BY <1>1, <1>2, <1>3, <1>4, <1>5 DEF t

\* Reading on in a stream leaves an end of it.
LEMMA RestSet ==
  ASSUME NEW S, NEW s \in Seq(S), NEW k \in Nat \ {0}
  PROVE  /\ SubSeq(s, k, Len(s)) \in Seq(S)
         /\ Len(SubSeq(s, k, Len(s))) <= Len(s)
         /\ ToSet(SubSeq(s, k, Len(s))) \subseteq ToSet(s)
<1> DEFINE t == SubSeq(s, k, Len(s))
<1>1. /\ Len(s) \in Nat /\ ToSet(s) = { s[i] : i \in 1 .. Len(s) }
      /\ \A i \in 1 .. Len(s) : s[i] \in S
  BY SetOfSeq, ElementOfSeq
<1>2. /\ t \in Seq(S)
      /\ Len(t) = IF k <= Len(s) THEN Len(s) - k + 1 ELSE 0
      /\ \A i \in 1 .. Len(s) - k + 1 : t[i] = s[k + i - 1]
  <2>1. \A i \in k .. Len(s) : s[i] \in S
    BY <1>1
  <2> QED
    BY <1>1, <2>1, SubSeqProperties
<1> HIDE DEF t
<1>3. ToSet(t) = { t[i] : i \in 1 .. Len(t) }
  BY <1>2, SetOfSeq
<1>4. ASSUME NEW i \in 1 .. Len(t)
      PROVE  t[i] \in ToSet(s)
  <2>1. Len(t) = Len(s) - k + 1
    BY <1>1, <1>2
  <2>2. t[i] = s[k + i - 1]
    BY <1>2, <2>1
  <2>3. k + i - 1 \in 1 .. Len(s)
    BY <1>1, <2>1
  <2> QED
    BY <1>1, <2>2, <2>3
<1> QED
  BY <1>1, <1>2, <1>3, <1>4 DEF t

\* find_packet and LinkedListUnlink: the packet leaves the window, if it is
\* there, and no other does.
LEMMA RemoveSet ==
  ASSUME NEW S, NEW s \in Seq(S), NEW e, Distinct(s)
  PROVE  /\ RemoveFirst(s, e) \in Seq(S)
         /\ ToSet(RemoveFirst(s, e)) = ToSet(s) \ {e}
         /\ Distinct(RemoveFirst(s, e))
<1>1. /\ Len(s) \in Nat /\ ToSet(s) = { s[i] : i \in 1 .. Len(s) }
  BY SetOfSeq
<1>2. CASE \E i \in 1 .. Len(s) : s[i] = e
  <2> DEFINE I == { i \in 1 .. Len(s) : s[i] = e }
             p == Min(I)
             t == RemoveAt(s, p)
  <2>1. RemoveFirst(s, e) = t
    BY <1>2 DEF RemoveFirst, SelectInSeq
  <2>2. p \in I
    <3>1. I \in SUBSET Nat /\ I # {}
      BY <1>2
    <3> HIDE DEF I
    <3> QED
      BY <3>1, MinProperties
  <2>3. p \in 1 .. Len(s) /\ s[p] = e
    BY <2>2
  <2> HIDE DEF p
  <2>4. /\ t \in Seq(S) /\ Len(t) = Len(s) - 1
        /\ \A j \in 1 .. Len(s) - 1 : t[j] = IF j < p THEN s[j] ELSE s[j + 1]
    BY <2>3, RemoveAtProperties
  <2> HIDE DEF t, I
  <2>5. ToSet(t) = { t[j] : j \in 1 .. Len(t) }
    BY <2>4, SetOfSeq
  \* The place in the old sequence of each element of the new one.
  <2> DEFINE old(j) == IF j < p THEN j ELSE j + 1
  <2>6. \A j \in 1 .. Len(t) : /\ old(j) \in 1 .. Len(s) /\ old(j) # p
                               /\ t[j] = s[old(j)]
    BY <1>1, <2>3, <2>4
  <2>7. \A i \in 1 .. Len(s) : i # p => \E j \in 1 .. Len(t) : old(j) = i
    <3> SUFFICES ASSUME NEW i \in 1 .. Len(s), i # p
                 PROVE  \E j \in 1 .. Len(t) : old(j) = i
      OBVIOUS
    <3>1. CASE i < p
      BY <1>1, <2>3, <2>4, <3>1
    <3>2. CASE p < i
      <4> DEFINE k == i - 1
      <4>1. k \in 1 .. Len(t) /\ old(k) = i
        BY <1>1, <2>3, <2>4, <3>2
      <4> QED
        BY <4>1
    <3> QED
      BY <1>1, <2>3, <3>1, <3>2
  <2>8. \A i, j \in 1 .. Len(t) : old(i) = old(j) => i = j
    BY <1>1, <2>3, <2>4
  <2> HIDE DEF old
  <2>9. ToSet(t) = ToSet(s) \ {e}
    <3>1. ASSUME NEW x \in ToSet(t) PROVE x \in ToSet(s) /\ x # e
      BY <1>1, <2>3, <2>5, <2>6, <3>1 DEF Distinct
    <3>2. ASSUME NEW x \in ToSet(s), x # e PROVE x \in ToSet(t)
      <4>1. PICK i \in 1 .. Len(s) : x = s[i]
        BY <1>1, <3>2
      <4>2. PICK j \in 1 .. Len(t) : old(j) = i
        BY <2>3, <2>7, <3>2, <4>1
      <4> QED
        BY <2>5, <2>6, <4>1, <4>2
    <3> QED
      BY <3>1, <3>2
  <2>10. Distinct(t)
    <3> SUFFICES ASSUME NEW i \in 1 .. Len(t), NEW j \in 1 .. Len(t), t[i] = t[j]
                 PROVE  i = j
      BY DEF Distinct
    <3>1. old(i) = old(j)
      BY <2>6 DEF Distinct
    <3> QED
      BY <2>8, <3>1
  <2> QED
    BY <2>1, <2>4, <2>9, <2>10
<1>3. CASE ~ \E i \in 1 .. Len(s) : s[i] = e
  <2>1. RemoveFirst(s, e) = s
    BY <1>3 DEF RemoveFirst
  <2> QED
    BY <1>1, <1>3, <2>1
<1> QED
  BY <1>2, <1>3

\* One place in two windows together: one place in each, and none in both.
LEMMA OncePerWindow ==
  ASSUME NEW S, NEW s \in Seq(S), NEW t \in Seq(S)
  PROVE  IsInjective(s \o t)
           <=> Distinct(s) /\ Distinct(t) /\ ToSet(s) \cap ToSet(t) = {}
<1> DEFINE c == s \o t
<1>1. /\ c \in Seq(S) /\ Len(c) = Len(s) + Len(t)
      /\ \A i \in 1 .. Len(s) + Len(t) :
           c[i] = IF i <= Len(s) THEN s[i] ELSE t[i - Len(s)]
  BY ConcatProperties
<1> HIDE DEF c
<1>2. /\ Len(s) \in Nat /\ Len(t) \in Nat
      /\ ToSet(s) = { s[i] : i \in 1 .. Len(s) }
      /\ ToSet(t) = { t[i] : i \in 1 .. Len(t) }
      /\ DOMAIN c = 1 .. Len(s) + Len(t)
  BY <1>1, SetOfSeq
<1>3. IsInjective(c) <=> Distinct(c)
  BY <1>1, <1>2 DEF IsInjective, Distinct
<1>4. /\ \A i \in 1 .. Len(s) : i \in 1 .. Len(c) /\ c[i] = s[i]
      /\ \A j \in 1 .. Len(t) : j + Len(s) \in 1 .. Len(c) /\ c[j + Len(s)] = t[j]
  <2>1. ASSUME NEW j \in 1 .. Len(t)
        PROVE  j + Len(s) \in 1 .. Len(c) /\ c[j + Len(s)] = t[j]
    <3> DEFINE k == j + Len(s)
    <3>1. k \in 1 .. Len(s) + Len(t) /\ ~ (k <= Len(s)) /\ k - Len(s) = j
      BY <1>2
    <3> HIDE DEF k
    <3>2. k \in 1 .. Len(c) /\ c[k] = t[j]
      BY <1>1, <3>1
    <3> QED
      BY <3>2 DEF k
  <2> QED
    BY <1>1, <1>2, <2>1
<1>5. ASSUME Distinct(c)
      PROVE  Distinct(s) /\ Distinct(t) /\ ToSet(s) \cap ToSet(t) = {}
  <2>1. Distinct(s)
    BY <1>4, <1>5 DEF Distinct
  <2>2. ASSUME NEW i \in 1 .. Len(t), NEW j \in 1 .. Len(t), t[i] = t[j]
        PROVE  i = j
    <3>1. i + Len(s) = j + Len(s)
      BY <1>4, <1>5, <2>2 DEF Distinct
    <3> QED
      BY <1>2, <3>1
  <2>3. ASSUME NEW i \in 1 .. Len(s), NEW j \in 1 .. Len(t), s[i] = t[j]
        PROVE  FALSE
    <3>1. i = j + Len(s)
      BY <1>4, <1>5, <2>3 DEF Distinct
    <3> QED
      BY <1>2, <3>1
  <2> QED
    BY <1>2, <2>1, <2>2, <2>3 DEF Distinct
<1>6. ASSUME Distinct(s), Distinct(t), ToSet(s) \cap ToSet(t) = {},
             NEW i \in 1 .. Len(c), NEW j \in 1 .. Len(c), c[i] = c[j]
      PROVE  i = j
  <2>1. \A k \in 1 .. Len(c) :
          \/ k \in 1 .. Len(s) /\ c[k] = s[k]
          \/ ~ (k <= Len(s)) /\ k - Len(s) \in 1 .. Len(t) /\ c[k] = t[k - Len(s)]
    BY <1>1, <1>2
  <2>2. CASE i \in 1 .. Len(s) /\ j \in 1 .. Len(s)
    BY <1>4, <1>6, <2>2 DEF Distinct
  <2>3. CASE ~ (i <= Len(s)) /\ ~ (j <= Len(s))
    <3>1. i - Len(s) = j - Len(s)
      BY <1>6, <2>1, <2>3 DEF Distinct
    <3> QED
      BY <1>1, <1>2, <3>1
  <2>4. ASSUME NEW k \in 1 .. Len(s), NEW l \in 1 .. Len(c), ~ (l <= Len(s))
        PROVE  c[k] # c[l]
    <3>1. c[k] \in ToSet(s)
      BY <1>2, <1>4, <2>4
    <3>2. c[l] \in ToSet(t)
      BY <1>2, <2>1, <2>4
    <3> QED
      BY <1>6, <3>1, <3>2
  <2>5. CASE i \in 1 .. Len(s) /\ ~ (j <= Len(s))
    BY <1>6, <2>4, <2>5
  <2>6. CASE ~ (i <= Len(s)) /\ j \in 1 .. Len(s)
    BY <1>6, <2>4, <2>6
  <2> QED
    BY <2>1, <2>2, <2>3, <2>5, <2>6
<1> QED
  BY <1>3, <1>5, <1>6 DEF c, Distinct

-----------------------------------------------------------------------------
(***************************************************************************)
(* Control packets in bytes.                                               *)
(***************************************************************************)

\* How many numbers two and four bytes hold.
TwoBytes == 65536
FourBytes == 4294967296

\* The number of four bytes, the least significant one first.
Number(b0, b1, b2, b3) == b0 + 256 * b1 + 65536 * b2 + 16777216 * b3

\* Bytes are numbers, and remainders and the flags are bytes.
LEMMA BytesAreNumbers ==
  /\ \A b \in uint8 : b \in Nat
  /\ \A n \in Nat : n % 256 \in uint8
  /\ 0 \in uint8 /\ 1 \in uint8 /\ 2 \in uint8 /\ 3 \in uint8
<1>1. \A b : b \in uint8 <=> b \in Int /\ 0 <= b /\ b <= 255
  BY DEF uint8
<1>2. \A n \in Nat : n % 256 \in Int /\ 0 <= n % 256 /\ n % 256 <= 255
  OBVIOUS
<1> QED
  BY <1>1, <1>2

\* The smaller of two numbers.
LEMMA MinOfTwo ==
  ASSUME NEW a \in Int, NEW b \in Int
  PROVE  Min({a, b}) = IF a <= b THEN a ELSE b
BY DEF Min

\* A read returns at least one byte and none that has not been sent.
LEMMA SizeOfRead ==
  ASSUME stream \in Seq(ucp_ctrl_packet_t), skew \in 0 .. CTRL_SIZE - 1,
         NEW k \in 1 .. ReadMax, k \in ReadSizes
  PROVE  /\ k \in Nat \ {0}
         /\ k <= CTRL_SIZE * Len(stream) - skew
         /\ 1 \in 1 .. Len(stream)
         /\ ~ Segmentation => k = ReadMax \/ k = CTRL_SIZE * Len(stream) - skew
<1> DEFINE left == CTRL_SIZE * Len(stream) - skew
           most == Min({ReadMax, left})
<1>1. /\ Len(stream) \in Nat /\ ReadMax \in Nat /\ skew \in 0 .. 5
      /\ CTRL_SIZE = 6 /\ left \in Int /\ k \in Nat \ {0}
  BY LenProperties, ChannelAssumption DEF CTRL_SIZE
<1>2. most = IF ReadMax <= left THEN ReadMax ELSE left
  BY <1>1, MinOfTwo
<1>3. k \in IF Segmentation THEN 1 .. most ELSE {most} \ {0}
  BY DEF ReadSizes, Unread
<1> HIDE DEF most
<1>4. k <= left /\ (~ Segmentation => k = ReadMax \/ k = left)
  BY <1>1, <1>2, <1>3
<1>5. 1 \in 1 .. Len(stream)
  BY <1>1, <1>4
<1> QED
  BY <1>1, <1>4, <1>5

\* The six bytes of a control packet.
LEMMA EncodedBytes ==
  ASSUME NEW c \in ucp_ctrl_packet_t
  PROVE  /\ ucp_packet_encode_ctrl_data(c)[1] = UCP_PACKET_TYPE_CTRL
         /\ ucp_packet_encode_ctrl_data(c)[2] = c.flag
         /\ ucp_packet_encode_ctrl_data(c)[3] = c.seq_no % 256
         /\ ucp_packet_encode_ctrl_data(c)[4] = (c.seq_no \div 256) % 256
         /\ ucp_packet_encode_ctrl_data(c)[5] = (c.seq_no \div 65536) % 256
         /\ ucp_packet_encode_ctrl_data(c)[6] = (c.seq_no \div 16777216) % 256
BY DEF ucp_packet_encode_ctrl_data

\* Each of them is a byte.
LEMMA EncodedAreBytes ==
  ASSUME NEW c \in ucp_ctrl_packet_t, NEW i \in 1 .. 6
  PROVE  ucp_packet_encode_ctrl_data(c)[i] \in uint8
<1> DEFINE n == c.seq_no
           buf == ucp_packet_encode_ctrl_data(c)
<1>1. n \in Nat /\ c.flag \in {1, 2, 3}
  BY DEF ucp_ctrl_packet_t, UCP_FLAG_ACK, UCP_FLAG_NACK, UCP_FLAG_FIN
<1>2. /\ buf[1] = 1 /\ buf[2] = c.flag /\ buf[3] = n % 256
      /\ buf[4] = (n \div 256) % 256 /\ buf[5] = (n \div 65536) % 256
      /\ buf[6] = (n \div 16777216) % 256
  BY EncodedBytes DEF UCP_PACKET_TYPE_CTRL
<1> HIDE DEF n, buf
<1>3. /\ n % 256 \in uint8 /\ (n \div 256) % 256 \in uint8
      /\ (n \div 65536) % 256 \in uint8
      /\ (n \div 16777216) % 256 \in uint8
  <2>1. /\ n \div 256 \in Nat /\ n \div 65536 \in Nat /\ n \div 16777216 \in Nat
    BY <1>1
  <2> QED
    BY <1>1, <2>1, BytesAreNumbers
<1>4. i = 1 \/ i = 2 \/ i = 3 \/ i = 4 \/ i = 5 \/ i = 6
  OBVIOUS
<1> QED
  <2>1. buf[1] \in uint8 /\ buf[2] \in uint8
    BY <1>1, <1>2, BytesAreNumbers
  <2> QED
    BY <1>2, <1>3, <1>4, <2>1 DEF buf

\* The bytes of the first two packets of the stream.
LEMMA BytesOfStream ==
  ASSUME stream \in Seq(ucp_ctrl_packet_t),
         NEW i \in 0 .. 10, i + 1 <= 6 * Len(stream)
  PROVE  /\ StreamByte(i) \in uint8
         /\ i < 6 => StreamByte(i) = ucp_packet_encode_ctrl_data(stream[1])[i + 1]
         /\ i >= 6 => /\ 2 \in 1 .. Len(stream)
                      /\ StreamByte(i)
                           = ucp_packet_encode_ctrl_data(stream[2])[i - 5]
<1>1. Len(stream) \in Nat
  BY LenProperties
<1>2. CASE i < 6
  <2>1. i \div 6 = 0 /\ i % 6 = i
    BY <1>2
  <2>2. StreamByte(i) = ucp_packet_encode_ctrl_data(stream[1])[i + 1]
    BY <2>1 DEF StreamByte, CTRL_SIZE
  <2>3. i + 1 \in 1 .. 6 /\ 1 \in 1 .. Len(stream)
    BY <1>1, <1>2
  <2>4. stream[1] \in ucp_ctrl_packet_t
    BY <2>3, ElementOfSeq
  <2>5. ucp_packet_encode_ctrl_data(stream[1])[i + 1] \in uint8
    BY <2>3, <2>4, EncodedAreBytes, Zenon
  <2> QED
    BY <1>2, <2>2, <2>5
<1>3. CASE i >= 6
  <2>1. i \div 6 = 1 /\ i % 6 = i - 6
    BY <1>3
  <2>2. StreamByte(i) = ucp_packet_encode_ctrl_data(stream[2])[i - 6 + 1]
    BY <2>1 DEF StreamByte, CTRL_SIZE
  <2>3. i - 6 + 1 = i - 5 /\ i - 5 \in 1 .. 6 /\ 2 \in 1 .. Len(stream)
    BY <1>1, <1>3
  <2>4. stream[2] \in ucp_ctrl_packet_t
    BY <2>3, ElementOfSeq
  <2>5. ucp_packet_encode_ctrl_data(stream[2])[i - 5] \in uint8
    BY <2>3, <2>4, EncodedAreBytes, Zenon
  <2> QED
    BY <1>3, <2>2, <2>3, <2>5
<1> QED
  BY <1>2, <1>3

\* A read hands the decoder the bytes from the skew on, six of them if it
\* returned as many.
LEMMA BytesOfRead ==
  ASSUME stream \in Seq(ucp_ctrl_packet_t), skew \in 0 .. CTRL_SIZE - 1,
         NEW k \in 1 .. ReadMax, k \in ReadSizes
  PROVE  /\ Len(BytesRead(k)) = IF k <= 6 THEN k ELSE 6
         /\ \A j \in 1 .. Len(BytesRead(k)) :
              /\ BytesRead(k)[j] = StreamByte(skew + j - 1)
              /\ skew + j - 1 \in 0 .. 10
              /\ skew + j <= 6 * Len(stream)
<1> DEFINE len == IF k <= 6 THEN k ELSE 6
<1>1. k \in Nat \ {0} /\ k <= CTRL_SIZE * Len(stream) - skew
  BY SizeOfRead
<1>2. Len(stream) \in Nat /\ skew \in 0 .. 5 /\ CTRL_SIZE = 6
  BY LenProperties DEF CTRL_SIZE
<1>3. Min({k, CTRL_SIZE}) = len
  BY <1>1, <1>2, MinOfTwo
<1>4. len \in 1 .. 6 /\ len <= k
  BY <1>1
<1>5. BytesRead(k) = [i \in 1 .. len |-> StreamByte(skew + i - 1)]
  BY <1>3 DEF BytesRead
<1> HIDE DEF len
<1>6. /\ Len(BytesRead(k)) = len
      /\ \A j \in 1 .. len : BytesRead(k)[j] = StreamByte(skew + j - 1)
  BY <1>4, <1>5
<1>7. \A j \in 1 .. len : skew + j - 1 \in 0 .. 10 /\ skew + j <= 6 * Len(stream)
  BY <1>1, <1>2, <1>4
<1> QED
  BY <1>6, <1>7 DEF len

\* What the decoder makes of the bytes of a read.
LEMMA DecodedRead ==
  ASSUME stream \in Seq(ucp_ctrl_packet_t), skew \in 0 .. CTRL_SIZE - 1,
         NEW k \in 1 .. ReadMax, k \in ReadSizes, DecodesAsCtrl(BytesRead(k)),
         NEW pkt, pkt = ucp_packet_decode_ctrl_data(BytesRead(k))
  PROVE  /\ k >= 6 /\ skew + 6 <= 6 * Len(stream)
         /\ StreamByte(skew) = UCP_PACKET_TYPE_CTRL
         /\ pkt.type = UCP_PACKET_TYPE_CTRL
         /\ pkt.flag = StreamByte(skew + 1)
         /\ pkt.seq_no = Number(StreamByte(skew + 2), StreamByte(skew + 3),
                                StreamByte(skew + 4), StreamByte(skew + 5))
         /\ pkt \in ucp_packet_t
<1> DEFINE buf == BytesRead(k)
<1>1. /\ Len(buf) = IF k <= 6 THEN k ELSE 6
      /\ \A j \in 1 .. Len(buf) : /\ buf[j] = StreamByte(skew + j - 1)
                                  /\ skew + j - 1 \in 0 .. 10
                                  /\ skew + j <= 6 * Len(stream)
  BY BytesOfRead
<1>2. Len(buf) >= 6 /\ buf[1] = UCP_PACKET_TYPE_CTRL
  BY DEF DecodesAsCtrl, CTRL_SIZE
<1>3. pkt = [type |-> buf[1], flag |-> buf[2],
             seq_no |-> Number(buf[3], buf[4], buf[5], buf[6])]
  BY DEF ucp_packet_decode_ctrl_data, Number
<1>4. k \in Nat \ {0} /\ skew \in 0 .. 5 /\ Len(stream) \in Nat
  BY SizeOfRead, LenProperties DEF CTRL_SIZE
<1> HIDE DEF buf
<1>5. k >= 6 /\ Len(buf) = 6
  BY <1>1, <1>2, <1>4
<1>6. \A j \in 1 .. 6 : /\ buf[j] = StreamByte(skew + j - 1)
                        /\ skew + j - 1 \in 0 .. 10
                        /\ skew + j <= 6 * Len(stream)
  BY <1>1, <1>5
<1>7. ASSUME NEW i \in 0 .. 5
      PROVE  StreamByte(skew + i) \in uint8 /\ buf[i + 1] = StreamByte(skew + i)
  <2>1. i + 1 \in 1 .. 6 /\ skew + (i + 1) - 1 = skew + i
    BY <1>4
  <2>2. /\ buf[i + 1] = StreamByte(skew + i)
        /\ skew + i \in 0 .. 10 /\ (skew + i) + 1 <= 6 * Len(stream)
    <3>1. /\ buf[i + 1] = StreamByte(skew + (i + 1) - 1)
          /\ skew + (i + 1) - 1 \in 0 .. 10 /\ skew + (i + 1) <= 6 * Len(stream)
      BY <1>6, <2>1
    <3> QED
      BY <1>4, <2>1, <3>1
  <2>3. StreamByte(skew + i) \in uint8
    BY <2>2, BytesOfStream
  <2> QED
    BY <2>2, <2>3
<1>8. /\ buf[1] = StreamByte(skew) /\ buf[2] = StreamByte(skew + 1)
      /\ buf[3] = StreamByte(skew + 2) /\ buf[4] = StreamByte(skew + 3)
      /\ buf[5] = StreamByte(skew + 4) /\ buf[6] = StreamByte(skew + 5)
  <2>1. skew + 0 = skew
    BY <1>4
  <2>2. /\ buf[0 + 1] = StreamByte(skew + 0) /\ buf[1 + 1] = StreamByte(skew + 1)
        /\ buf[2 + 1] = StreamByte(skew + 2) /\ buf[3 + 1] = StreamByte(skew + 3)
        /\ buf[4 + 1] = StreamByte(skew + 4) /\ buf[5 + 1] = StreamByte(skew + 5)
    BY <1>7
  <2> QED
    BY <2>1, <2>2
<1>9. skew + 6 <= 6 * Len(stream)
  BY <1>6
<1>10. \A j \in 1 .. 6 : buf[j] \in uint8
  <2> SUFFICES ASSUME NEW j \in 1 .. 6 PROVE buf[j] \in uint8
    OBVIOUS
  <2>1. j - 1 \in 0 .. 5 /\ (j - 1) + 1 = j
    OBVIOUS
  <2> QED
    BY <1>7, <2>1
<1> DEFINE n == Number(buf[3], buf[4], buf[5], buf[6])
<1>11. n \in Nat /\ buf[1] \in uint8 /\ buf[2] \in uint8
  <2>1. /\ buf[1] \in uint8 /\ buf[2] \in uint8 /\ buf[3] \in uint8
        /\ buf[4] \in uint8 /\ buf[5] \in uint8 /\ buf[6] \in uint8
    BY <1>10
  <2>2. \A a, b, c, d \in Nat : Number(a, b, c, d) \in Nat
    BY DEF Number
  <2>3. buf[3] \in Nat /\ buf[4] \in Nat /\ buf[5] \in Nat /\ buf[6] \in Nat
    BY <2>1, BytesAreNumbers
  <2>4. n \in Nat
    BY ONLY <2>2, <2>3
  <2> QED
    BY <2>1, <2>4
<1>12. pkt.type = buf[1] /\ pkt.flag = buf[2] /\ pkt.seq_no = n
  BY <1>3
<1>13. pkt \in ucp_packet_t
  <2> HIDE DEF n
  <2>1. pkt = [type |-> buf[1], flag |-> buf[2], seq_no |-> n]
    BY <1>3 DEF n
  <2> QED
    BY <1>11, <2>1 DEF ucp_packet_t
<1> QED
  BY <1>2, <1>5, <1>8, <1>9, <1>12, <1>13

\* The same when it leaves the slot as it was.
LEMMA DecodedType ==
  ASSUME stream \in Seq(ucp_ctrl_packet_t), skew \in 0 .. CTRL_SIZE - 1,
         rspPkt \in ucp_packet_t, NEW k \in 1 .. ReadMax, k \in ReadSizes,
         NEW pkt \in Decoded(BytesRead(k))
  PROVE  pkt \in ucp_packet_t
<1>1. CASE DecodesAsCtrl(BytesRead(k))
  <2>1. pkt = ucp_packet_decode_ctrl_data(BytesRead(k))
    BY <1>1 DEF Decoded
  <2> QED
    BY <1>1, <2>1, DecodedRead
<1>2. CASE ~ DecodesAsCtrl(BytesRead(k))
  <2>1. pkt \in {rspPkt, NoPacket}
    BY <1>2 DEF Decoded
  <2> QED
    BY <2>1, BytesAreNumbers DEF NoPacket, ucp_packet_t
<1> QED
  BY <1>1, <1>2

\* The bytes of a number below 2^32, put together again.
LEMMA BytesOfNumber ==
  ASSUME NEW n \in Nat, n < FourBytes
  PROVE  Number(n % 256, (n \div 256) % 256, (n \div 65536) % 256,
                (n \div 16777216) % 256) = n
BY DEF Number, FourBytes

\* A read that begins with a packet is decoded as this packet.
LEMMA WholePacket ==
  ASSUME stream \in Seq(ucp_ctrl_packet_t), skew = 0,
         NEW k \in 1 .. ReadMax, k \in ReadSizes, DecodesAsCtrl(BytesRead(k)),
         NEW pkt, pkt = ucp_packet_decode_ctrl_data(BytesRead(k)),
         stream[1].seq_no < FourBytes
  PROVE  pkt.flag = stream[1].flag /\ pkt.seq_no = stream[1].seq_no
<1> DEFINE c == stream[1]
<1>1. skew \in 0 .. CTRL_SIZE - 1
  BY DEF CTRL_SIZE
<1>2. c \in ucp_ctrl_packet_t
  BY <1>1, SizeOfRead, ElementOfSeq
<1>3. /\ 6 <= 6 * Len(stream)
      /\ pkt.flag = StreamByte(1)
      /\ pkt.seq_no = Number(StreamByte(2), StreamByte(3),
                                StreamByte(4), StreamByte(5))
  <2>1. /\ skew + 6 <= 6 * Len(stream)
        /\ pkt.flag = StreamByte(skew + 1)
        /\ pkt.seq_no = Number(StreamByte(skew + 2), StreamByte(skew + 3),
                                StreamByte(skew + 4), StreamByte(skew + 5))
    BY <1>1, DecodedRead
  <2>2. /\ skew + 1 = 1 /\ skew + 2 = 2 /\ skew + 3 = 3 /\ skew + 4 = 4
        /\ skew + 5 = 5 /\ skew + 6 = 6
    OBVIOUS
  <2> QED
    BY ONLY <2>1, <2>2
<1>4. ASSUME NEW i \in 1 .. 5
      PROVE  StreamByte(i) = ucp_packet_encode_ctrl_data(c)[i + 1]
  <2>1. i \in 0 .. 10 /\ i < 6 /\ i + 1 <= 6 * Len(stream)
    <3>1. Len(stream) \in Nat
      BY LenProperties
    <3> QED
      BY ONLY <1>3, <3>1
  <2> QED
    BY <2>1, BytesOfStream
<1>5. /\ StreamByte(1) = ucp_packet_encode_ctrl_data(c)[2]
      /\ StreamByte(2) = ucp_packet_encode_ctrl_data(c)[3]
      /\ StreamByte(3) = ucp_packet_encode_ctrl_data(c)[4]
      /\ StreamByte(4) = ucp_packet_encode_ctrl_data(c)[5]
      /\ StreamByte(5) = ucp_packet_encode_ctrl_data(c)[6]
  <2>1. /\ StreamByte(1) = ucp_packet_encode_ctrl_data(c)[1 + 1]
        /\ StreamByte(2) = ucp_packet_encode_ctrl_data(c)[2 + 1]
        /\ StreamByte(3) = ucp_packet_encode_ctrl_data(c)[3 + 1]
        /\ StreamByte(4) = ucp_packet_encode_ctrl_data(c)[4 + 1]
        /\ StreamByte(5) = ucp_packet_encode_ctrl_data(c)[5 + 1]
    BY <1>4
  <2> QED
    BY ONLY <2>1
<1>6. /\ StreamByte(1) = c.flag /\ StreamByte(2) = c.seq_no % 256
      /\ StreamByte(3) = (c.seq_no \div 256) % 256
      /\ StreamByte(4) = (c.seq_no \div 65536) % 256
      /\ StreamByte(5) = (c.seq_no \div 16777216) % 256
  BY ONLY <1>2, <1>5, EncodedBytes
<1>7. c.seq_no \in Nat
  BY <1>2 DEF ucp_ctrl_packet_t
<1> DEFINE n == c.seq_no
<1> HIDE DEF c, n
<1>8. Number(n % 256, (n \div 256) % 256, (n \div 65536) % 256,
             (n \div 16777216) % 256) = n
  BY <1>7, BytesOfNumber DEF n, c
<1>9. pkt.flag = c.flag
  BY ONLY <1>3, <1>6
<1>10. pkt.seq_no = n
  <2>1. /\ StreamByte(2) = n % 256 /\ StreamByte(3) = (n \div 256) % 256
        /\ StreamByte(4) = (n \div 65536) % 256
        /\ StreamByte(5) = (n \div 16777216) % 256
    BY <1>6 DEF n
  <2> QED
    BY ONLY <1>3, <1>8, <2>1
<1> QED
  BY <1>9, <1>10 DEF c, n

\* With sequence numbers of two bytes a read that begins within a packet never
\* looks like the acknowledgement of a packet: where the type of the second
\* packet comes to lie the number is too large, or a zero byte of the first
\* number stands for the type or the flag.
LEMMA AckAsSent ==
  ASSUME stream \in Seq(ucp_ctrl_packet_t), skew \in 0 .. CTRL_SIZE - 1,
         NEW k \in 1 .. ReadMax, k \in ReadSizes, DecodesAsCtrl(BytesRead(k)),
         NEW pkt, pkt = ucp_packet_decode_ctrl_data(BytesRead(k)),
         NumPackets <= TwoBytes, \A d \in ToSet(stream) : d.seq_no \in SeqNos,
         pkt.flag = UCP_FLAG_ACK, pkt.seq_no \in SeqNos
  PROVE  \E d \in ToSet(stream) : d.flag = UCP_FLAG_ACK /\ d.seq_no = pkt.seq_no
<1> DEFINE c == stream[1]
           n == c.seq_no
<1>0. stream \in Seq(ucp_ctrl_packet_t)
  OBVIOUS
<1>1. /\ c \in ucp_ctrl_packet_t /\ c \in ToSet(stream)
      /\ n \in Nat /\ n < TwoBytes
  <2>1. 1 \in 1 .. Len(stream)
    BY SizeOfRead
  <2>2. c \in ucp_ctrl_packet_t /\ c \in ToSet(stream)
    BY <2>1, ElementOfSeq, SetOfSeq
  <2>3. c.seq_no \in 0 .. NumPackets - 1
    BY <2>2 DEF SeqNos
  <2> QED
    BY <2>2, <2>3, NumPacketsAssumption DEF TwoBytes
<1>2. /\ skew + 6 <= 6 * Len(stream)
      /\ StreamByte(skew) = 1 /\ StreamByte(skew + 1) = 1
      /\ pkt.seq_no = Number(StreamByte(skew + 2), StreamByte(skew + 3),
                                StreamByte(skew + 4), StreamByte(skew + 5))
  BY DecodedRead DEF UCP_PACKET_TYPE_CTRL, UCP_FLAG_ACK
<1>3. /\ Len(stream) \in Nat
      /\ skew = 0 \/ skew = 1 \/ skew = 2 \/ skew = 3 \/ skew = 4 \/ skew = 5
  BY LenProperties DEF CTRL_SIZE
<1>4. pkt.seq_no < TwoBytes
  BY NumPacketsAssumption DEF SeqNos, TwoBytes
<1>5. ASSUME NEW i \in 0 .. 10, i + 1 <= 6 * Len(stream)
      PROVE  /\ StreamByte(i) \in Nat
             /\ i < 6 => StreamByte(i) = ucp_packet_encode_ctrl_data(c)[i + 1]
             /\ i = 6 => StreamByte(i) = 1
  <2>1. /\ StreamByte(i) \in uint8
        /\ i < 6 => StreamByte(i) = ucp_packet_encode_ctrl_data(c)[i + 1]
        /\ i >= 6 => /\ 2 \in 1 .. Len(stream)
                     /\ StreamByte(i)
                          = ucp_packet_encode_ctrl_data(stream[2])[i - 5]
    BY ONLY <1>0, <1>5, BytesOfStream
  <2>2. ASSUME i = 6 PROVE StreamByte(i) = 1
    <3>1. stream[2] \in ucp_ctrl_packet_t
      BY <2>1, <2>2, ElementOfSeq
    <3>2. ucp_packet_encode_ctrl_data(stream[2])[1] = 1
      BY <3>1, EncodedBytes DEF UCP_PACKET_TYPE_CTRL
    <3> QED
      BY ONLY <2>1, <2>2, <3>2
  <2>3. StreamByte(i) \in Nat
    BY <2>1, BytesAreNumbers
  <2> QED
    BY ONLY <2>1, <2>2, <2>3, SMT
<1>16. skew + 6 <= 6 * Len(stream)
  BY <1>2
<1>6. ASSUME NEW i \in 0 .. 5
      PROVE  /\ skew + i \in 0 .. 10 /\ (skew + i) + 1 <= 6 * Len(stream)
             /\ StreamByte(skew + i) \in Nat
  <2> DEFINE end == 6 * Len(stream)
  <2>1. skew \in 0 .. 5 /\ end \in Int /\ skew + 6 <= end
    BY ONLY <1>3, <1>16
  <2> HIDE DEF end
  <2>2. skew + i \in 0 .. 10 /\ (skew + i) + 1 <= end
    BY ONLY <1>6, <2>1
  <2>3. skew + i \in 0 .. 10 /\ (skew + i) + 1 <= 6 * Len(stream)
    BY <2>2 DEF end
  <2> QED
    BY <1>5, <2>3
<1> DEFINE b(i) == StreamByte(skew + i)
<1>7. /\ b(2) \in Nat /\ b(3) \in Nat /\ b(4) \in Nat /\ b(5) \in Nat
      /\ pkt.seq_no = Number(b(2), b(3), b(4), b(5))
  BY <1>2, <1>6
<1>8. CASE skew = 0
  <2>1. pkt.flag = c.flag /\ pkt.seq_no = c.seq_no
    <3>1. c.seq_no < FourBytes
      BY <1>1 DEF TwoBytes, FourBytes
    <3> QED
      BY <1>8, <3>1, WholePacket
  <2> QED
    BY <1>1, <2>1
<1>9. CASE skew = 1
  <2>1. b(5) = 1
    <3>1. 6 \in 0 .. 10 /\ 6 + 1 <= 6 * Len(stream) /\ skew + 5 = 6
      BY ONLY <1>2, <1>3, <1>9
    <3> QED
      BY <1>5, <3>1
  <2> HIDE DEF b
  <2> QED
    BY ONLY <1>4, <1>7, <2>1 DEF Number, TwoBytes
<1>10. CASE skew = 2
  <2>1. b(4) = 1
    <3>1. 6 \in 0 .. 10 /\ 6 + 1 <= 6 * Len(stream) /\ skew + 4 = 6
      BY ONLY <1>2, <1>3, <1>10
    <3> QED
      BY <1>5, <3>1
  <2> HIDE DEF b
  <2> QED
    BY ONLY <1>4, <1>7, <2>1 DEF Number, TwoBytes
<1>11. /\ (n \div 65536) % 256 = 0 /\ (n \div 16777216) % 256 = 0
  BY ONLY <1>1 DEF TwoBytes
<1>12. /\ ucp_packet_encode_ctrl_data(c)[5] = 0
       /\ ucp_packet_encode_ctrl_data(c)[6] = 0
  BY ONLY <1>1, <1>11, EncodedBytes
<1>13. CASE skew = 3
  <2>1. 4 \in 0 .. 10 /\ 4 + 1 <= 6 * Len(stream) /\ 4 < 6 /\ skew + 1 = 4
    BY ONLY <1>2, <1>3, <1>13
  <2>2. StreamByte(4) = ucp_packet_encode_ctrl_data(c)[4 + 1]
    BY <1>5, <2>1
  <2> QED
    BY ONLY <1>2, <1>12, <2>1, <2>2
<1>14. CASE skew = 4
  <2>1. 4 \in 0 .. 10 /\ 4 + 1 <= 6 * Len(stream) /\ 4 < 6
    BY ONLY <1>2, <1>3, <1>14
  <2>2. StreamByte(4) = ucp_packet_encode_ctrl_data(c)[4 + 1]
    BY <1>5, <2>1
  <2> QED
    BY ONLY <1>2, <1>12, <1>14, <2>2
<1>15. CASE skew = 5
  <2>1. 5 \in 0 .. 10 /\ 5 + 1 <= 6 * Len(stream) /\ 5 < 6
    BY ONLY <1>2, <1>3, <1>15
  <2>2. StreamByte(5) = ucp_packet_encode_ctrl_data(c)[5 + 1]
    BY <1>5, <2>1
  <2> QED
    BY ONLY <1>2, <1>12, <1>15, <2>2
<1> QED
  BY <1>3, <1>8, <1>9, <1>10, <1>13, <1>14, <1>15

=============================================================================
