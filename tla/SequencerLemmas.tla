-------------------------- MODULE SequencerLemmas ---------------------------
(***************************************************************************)
(* Facts about the operators of Sequencer: what sequencer_add and the      *)
(* merging of sequencer_complete do to a list of ranges and to the set of  *)
(* numbers it covers.  SequencerProofs and UcpTransferProofs cite them.    *)
(***************************************************************************)
EXTENDS Sequencer, ListLemmas

-----------------------------------------------------------------------------
(***************************************************************************)
(* Lists of ranges.  Sorted is what sequencer_add leaves behind: like      *)
(* GapsBetween, but two ranges may touch.                                  *)
(***************************************************************************)

Lists == Seq(sequencer_item_t)

Sorted(list) ==
  /\ \A i \in 1 .. Len(list) : /\ list[i].firstSeqNo <= list[i].lastSeqNo
                               /\ list[i].lastSeqNo < UINT32_MAX
  /\ \A i, j \in 1 .. Len(list) :
        i < j => list[i].lastSeqNo < list[j].firstSeqNo

\* The types of a list, its elements and their fields.
LEMMA ListTypes ==
  ASSUME NEW list \in Lists
  PROVE  /\ Len(list) \in Nat
         /\ DOMAIN list = 1 .. Len(list)
         /\ \A i \in 1 .. Len(list) : /\ list[i] \in sequencer_item_t
                                      /\ list[i].firstSeqNo \in Nat
                                      /\ list[i].lastSeqNo \in Nat
                                      /\ list[i].firstSeqNo <= UINT32_MAX
                                      /\ list[i].lastSeqNo <= UINT32_MAX
<1>1. Len(list) \in Nat /\ DOMAIN list = 1 .. Len(list)
  BY LenProperties DEF Lists
<1>2. \A i \in 1 .. Len(list) : list[i] \in sequencer_item_t
  BY ElementOfSeq DEF Lists
<1> QED
  BY <1>1, <1>2, Uint32Assumption DEF sequencer_item_t, uint32

\* What it means for a number to be covered.
LEMMA CoveredMember ==
  ASSUME NEW list \in Lists
  PROVE  \A n : n \in Covered(list) <=>
                  \E i \in 1 .. Len(list) : /\ n \in Nat
                                            /\ list[i].firstSeqNo <= n
                                            /\ n <= list[i].lastSeqNo
BY ListTypes DEF Covered, RangeOf

\* The two operations on uint32_t are plain where they do not wrap.
LEMMA PlainArithmetic ==
  /\ \A n \in Nat : n < UINT32_MAX => Inc(n) = n + 1
  /\ \A n \in Nat : 0 < n => Dec(n) = n - 1
  /\ Dec(0) = UINT32_MAX
BY Uint32Assumption DEF Inc, Dec

\* Distances add up.
LEMMA Below ==
  ASSUME NEW a \in Nat, NEW b \in Nat, NEW c \in Nat, NEW d \in Nat,
         a + 1 < b, b <= c, c + 1 < d
  PROVE  a + 1 < d
OBVIOUS

\* A list with gaps is sorted and no two of its ranges touch.
LEMMA GapsAreSorted ==
  ASSUME NEW list \in Lists, GapsBetween(list)
  PROVE  Sorted(list) /\ TouchingAt(list) = {}
<1>1. Sorted(list)
  <2>1. DOMAIN list = 1 .. Len(list)
    BY ListTypes
  <2>2. ASSUME NEW i \in 1 .. Len(list), NEW j \in 1 .. Len(list), i < j
        PROVE  list[i].lastSeqNo < list[j].firstSeqNo
    <3> DEFINE a == list[i].lastSeqNo
               b == list[j].firstSeqNo
    <3>1. a \in Nat /\ b \in Nat /\ a + 1 < b
      BY <2>1, <2>2, ListTypes DEF GapsBetween
    <3> HIDE DEF a, b
    <3>2. a < b
      BY <3>1
    <3> QED
      BY <3>2 DEF a, b
  <2> QED
    BY <2>1, <2>2 DEF GapsBetween, Sorted
<1>2. ASSUME NEW i \in TouchingAt(list) PROVE FALSE
  <2>1. /\ i \in 1 .. Len(list) /\ i + 1 \in 1 .. Len(list)
        /\ Inc(list[i].lastSeqNo) = list[i + 1].firstSeqNo
    BY <1>2, ListTypes DEF TouchingAt
  <2>2. Inc(list[i].lastSeqNo) = list[i].lastSeqNo + 1
    BY <1>1, <2>1, ListTypes, PlainArithmetic DEF Sorted
  <2>3. list[i].lastSeqNo + 1 < list[i + 1].firstSeqNo
    BY <2>1, ListTypes DEF GapsBetween
  <2> QED
    BY <2>1, <2>2, <2>3, ListTypes
<1> QED
  BY <1>1, <1>2

\* Conversely, a sorted list none of whose ranges touch has gaps.
LEMMA SortedHasGaps ==
  ASSUME NEW list \in Lists, Sorted(list), TouchingAt(list) = {}
  PROVE  GapsBetween(list)
<1>1. ASSUME NEW i \in 1 .. Len(list), NEW j \in 1 .. Len(list), i < j
      PROVE  list[i].lastSeqNo + 1 < list[j].firstSeqNo
  <2>1. i + 1 \in 1 .. Len(list) /\ i \in 1 .. Len(list) - 1
    BY <1>1, ListTypes
  <2>2. list[i].lastSeqNo + 1 # list[i + 1].firstSeqNo
    BY <2>1, ListTypes, PlainArithmetic DEF TouchingAt, Sorted
  <2>3. list[i].lastSeqNo < list[i + 1].firstSeqNo
    BY <2>1, ListTypes DEF Sorted
  <2>4. list[i].lastSeqNo + 1 < list[i + 1].firstSeqNo
    BY <2>1, <2>2, <2>3, ListTypes
  <2>5. CASE j = i + 1
    BY <2>4, <2>5
  <2>6. CASE j > i + 1
    <3>1. list[i + 1].firstSeqNo <= list[i + 1].lastSeqNo
      BY <2>1 DEF Sorted
    <3>2. list[i + 1].lastSeqNo < list[j].firstSeqNo
      BY <2>1, <2>6 DEF Sorted
    <3> DEFINE a == list[i].lastSeqNo
               b == list[i + 1].firstSeqNo
               c == list[i + 1].lastSeqNo
               d == list[j].firstSeqNo
    <3>3. a \in Nat /\ b \in Nat /\ c \in Nat /\ d \in Nat
      BY <2>1, ListTypes
    <3>4. a + 1 < b /\ b <= c /\ c < d
      BY <2>4, <3>1, <3>2
    <3> HIDE DEF a, b, c, d
    <3>5. a + 1 < d
      BY <3>3, <3>4
    <3> QED
      BY <3>5 DEF a, d
  <2> QED
    BY <1>1, <2>5, <2>6, ListTypes
<1> QED
  BY <1>1, ListTypes DEF Sorted, GapsBetween

-----------------------------------------------------------------------------
(***************************************************************************)
(* What each case of sequencer_add, and the merging, does to a list.       *)
(***************************************************************************)

\* The ranges of a list in which the end of one was moved.
LEMMA MoveLast ==
  ASSUME NEW list \in Lists, NEW i \in 1 .. Len(list), NEW n \in uint32
  PROVE  /\ [list EXCEPT ![i].lastSeqNo = n] \in Lists
         /\ Len([list EXCEPT ![i].lastSeqNo = n]) = Len(list)
         /\ \A j \in 1 .. Len(list) :
              /\ [list EXCEPT ![i].lastSeqNo = n][j].lastSeqNo
                   = IF j = i THEN n ELSE list[j].lastSeqNo
              /\ [list EXCEPT ![i].lastSeqNo = n][j].firstSeqNo
                   = list[j].firstSeqNo
<1> DEFINE u == [list[i] EXCEPT !.lastSeqNo = n]
<1>1. list[i] \in sequencer_item_t
  BY ListTypes
<1>2. /\ u \in sequencer_item_t
      /\ u.firstSeqNo = list[i].firstSeqNo /\ u.lastSeqNo = n
  BY <1>1 DEF sequencer_item_t
<1>3. [list EXCEPT ![i].lastSeqNo = n] = [list EXCEPT ![i] = u]
  OBVIOUS
<1> HIDE DEF u
<1>4. /\ [list EXCEPT ![i] = u] \in Lists
      /\ Len([list EXCEPT ![i] = u]) = Len(list)
      /\ \A j \in 1 .. Len(list) :
           [list EXCEPT ![i] = u][j] = IF j = i THEN u ELSE list[j]
  BY <1>2, ExceptSeq DEF Lists
<1> QED
  BY <1>2, <1>3, <1>4

\* The ranges of a list in which the start of one was moved.
LEMMA MoveFirst ==
  ASSUME NEW list \in Lists, NEW i \in 1 .. Len(list), NEW n \in uint32
  PROVE  /\ [list EXCEPT ![i].firstSeqNo = n] \in Lists
         /\ Len([list EXCEPT ![i].firstSeqNo = n]) = Len(list)
         /\ \A j \in 1 .. Len(list) :
              /\ [list EXCEPT ![i].firstSeqNo = n][j].firstSeqNo
                   = IF j = i THEN n ELSE list[j].firstSeqNo
              /\ [list EXCEPT ![i].firstSeqNo = n][j].lastSeqNo
                   = list[j].lastSeqNo
<1> DEFINE u == [list[i] EXCEPT !.firstSeqNo = n]
<1>1. list[i] \in sequencer_item_t
  BY ListTypes
<1>2. /\ u \in sequencer_item_t
      /\ u.lastSeqNo = list[i].lastSeqNo /\ u.firstSeqNo = n
  BY <1>1 DEF sequencer_item_t
<1>3. [list EXCEPT ![i].firstSeqNo = n] = [list EXCEPT ![i] = u]
  OBVIOUS
<1> HIDE DEF u
<1>4. /\ [list EXCEPT ![i] = u] \in Lists
      /\ Len([list EXCEPT ![i] = u]) = Len(list)
      /\ \A j \in 1 .. Len(list) :
           [list EXCEPT ![i] = u][j] = IF j = i THEN u ELSE list[j]
  BY <1>2, ExceptSeq DEF Lists
<1> QED
  BY <1>2, <1>3, <1>4

\* Absorbing a successor joins two ranges and what lies between them.
LEMMA AbsorbProperties ==
  ASSUME NEW list \in Lists, Sorted(list), NEW i \in 1 .. Len(list) - 1,
         TouchingAt(list) \subseteq {i}
  PROVE  /\ Absorb(list, i) \in Lists
         /\ GapsBetween(Absorb(list, i))
         /\ Covered(Absorb(list, i)) =
              Covered(list) \cup
                (list[i].lastSeqNo + 1 .. list[i + 1].firstSeqNo - 1)
<1> DEFINE e == list[i + 1].lastSeqNo
           u == [list EXCEPT ![i].lastSeqNo = e]
           r == RemoveAt(u, i + 1)
<1>1. /\ Len(list) \in Nat /\ i \in 1 .. Len(list) /\ i + 1 \in 1 .. Len(list)
      /\ e \in uint32
  BY ListTypes, Uint32Assumption DEF uint32
<1> HIDE DEF e
<1>2. /\ u \in Lists /\ Len(u) = Len(list)
      /\ \A j \in 1 .. Len(list) :
           /\ u[j].firstSeqNo = list[j].firstSeqNo
           /\ u[j].lastSeqNo = IF j = i THEN e ELSE list[j].lastSeqNo
  BY <1>1, MoveLast
<1> HIDE DEF u
<1>3. /\ r \in Lists /\ Len(r) = Len(list) - 1
      /\ \A j \in 1 .. Len(list) - 1 : r[j] = IF j < i + 1 THEN u[j] ELSE u[j + 1]
  <2>1. u \in Seq(sequencer_item_t) /\ i + 1 \in 1 .. Len(u)
    BY <1>1, <1>2 DEF Lists
  <2>2. /\ r \in Seq(sequencer_item_t) /\ Len(r) = Len(u) - 1
        /\ \A j \in 1 .. Len(u) - 1 : r[j] = IF j < i + 1 THEN u[j] ELSE u[j + 1]
    BY <2>1, RemoveAtProperties
  <2> QED
    BY <1>2, <2>2 DEF Lists
<1>4. Absorb(list, i) = r
  BY DEF Absorb, u, e
<1> HIDE DEF r
<1>5. \A j \in 1 .. Len(list) - 1 :
        /\ r[j].firstSeqNo = IF j <= i THEN list[j].firstSeqNo
                                       ELSE list[j + 1].firstSeqNo
        /\ r[j].lastSeqNo = IF j < i THEN list[j].lastSeqNo
                                     ELSE list[j + 1].lastSeqNo
  <2> TAKE j \in 1 .. Len(list) - 1
  <2>1. CASE j < i
    <3>1. j \in 1 .. Len(list) /\ j <= i /\ j # i /\ j < i + 1
      BY <2>1, <1>1
    <3>2. r[j] = u[j]
      BY <3>1, <1>3
    <3> QED
      BY <2>1, <3>1, <3>2, <1>2
  <2>2. CASE j = i
    BY <2>2, <1>1, <1>2, <1>3 DEF e
  <2>3. CASE i < j
    BY <2>3, <1>1, <1>2, <1>3
  <2> QED
    BY <2>1, <2>2, <2>3, <1>1
<1>6. \A j \in 1 .. Len(list) - 1 : /\ r[j].firstSeqNo <= r[j].lastSeqNo
                                    /\ r[j].lastSeqNo < UINT32_MAX
  <2> TAKE j \in 1 .. Len(list) - 1
  <2>1. CASE j # i
    BY <2>1, <1>1, <1>5 DEF Sorted
  <2>2. CASE j = i
    <3>1. /\ list[i].firstSeqNo <= list[i].lastSeqNo
          /\ list[i].lastSeqNo < list[i + 1].firstSeqNo
          /\ list[i + 1].firstSeqNo <= list[i + 1].lastSeqNo
          /\ list[i + 1].lastSeqNo < UINT32_MAX
      BY <1>1 DEF Sorted
    <3> QED
      BY <2>2, <3>1, <1>1, <1>5, ListTypes
  <2> QED
    BY <2>1, <2>2
<1>7. ASSUME NEW j \in 1 .. Len(list) - 1, NEW k \in 1 .. Len(list) - 1, j < k
      PROVE  r[j].lastSeqNo < r[k].firstSeqNo
  <2>1. PICK jj \in 1 .. Len(list) :
          jj = (IF j < i THEN j ELSE j + 1) /\ r[j].lastSeqNo = list[jj].lastSeqNo
    BY <1>1, <1>5
  <2>2. PICK kk \in 1 .. Len(list) :
          kk = (IF k <= i THEN k ELSE k + 1) /\ r[k].firstSeqNo = list[kk].firstSeqNo
    BY <1>1, <1>5
  <2>3. jj < kk
    BY <1>1, <1>7, <2>1, <2>2
  <2> QED
    BY <2>1, <2>2, <2>3 DEF Sorted
<1>8. ASSUME NEW j \in TouchingAt(r) PROVE FALSE
  <2>1. /\ j \in 1 .. Len(list) - 2
        /\ Inc(r[j].lastSeqNo) = r[j + 1].firstSeqNo
    BY <1>8, <1>1, <1>3 DEF TouchingAt
  <2>2. PICK jj \in 1 .. Len(list) - 1 :
          /\ jj = (IF j < i THEN j ELSE j + 1)
          /\ r[j].lastSeqNo = list[jj].lastSeqNo
          /\ r[j + 1].firstSeqNo = list[jj + 1].firstSeqNo
    BY <1>1, <1>5, <2>1
  <2>3. jj \in TouchingAt(list)
    BY <2>1, <2>2 DEF TouchingAt
  <2> QED
    BY <1>1, <2>2, <2>3
<1>9. Sorted(r) /\ GapsBetween(r)
  BY <1>1, <1>3, <1>6, <1>7, <1>8, SortedHasGaps DEF Sorted
<1>10. Covered(r) = Covered(list) \cup
                     (list[i].lastSeqNo + 1 .. list[i + 1].firstSeqNo - 1)
  <2>1. ASSUME NEW n \in Covered(r)
        PROVE  n \in Covered(list) \cup
                       (list[i].lastSeqNo + 1 .. list[i + 1].firstSeqNo - 1)
    <3>1. PICK j \in 1 .. Len(list) - 1 : /\ n \in Nat
                                          /\ r[j].firstSeqNo <= n
                                          /\ n <= r[j].lastSeqNo
      BY <2>1, <1>3, CoveredMember
    <3>2. CASE j # i
      <4>1. PICK jj \in 1 .. Len(list) : /\ list[jj].firstSeqNo <= n
                                         /\ n <= list[jj].lastSeqNo
        <5>1. CASE j < i
          <6>1. j \in 1 .. Len(list) /\ j <= i
            BY <5>1, <1>1
          <6>2. list[j].firstSeqNo <= n /\ n <= list[j].lastSeqNo
            BY <5>1, <6>1, <3>1, <1>5
          <6> QED
            BY <6>1, <6>2
        <5>2. CASE i < j
          <6>1. j + 1 \in 1 .. Len(list)
            BY <1>1
          <6>2. list[j + 1].firstSeqNo <= n /\ n <= list[j + 1].lastSeqNo
            BY <5>2, <3>1, <1>1, <1>5
          <6> QED
            BY <6>1, <6>2
        <5> QED
          BY <5>1, <5>2, <3>2, <1>1
      <4> QED
        BY <3>1, <4>1, CoveredMember
    <3>3. CASE j = i
      <4>1. list[i].firstSeqNo <= n /\ n <= list[i + 1].lastSeqNo
        BY <3>1, <3>3, <1>1, <1>5
      <4>2. \/ n <= list[i].lastSeqNo
            \/ list[i + 1].firstSeqNo <= n
            \/ n \in list[i].lastSeqNo + 1 .. list[i + 1].firstSeqNo - 1
        BY <3>1, <4>1, <1>1, ListTypes
      <4> QED
        BY <3>1, <4>1, <4>2, <1>1, CoveredMember
    <3> QED
      BY <3>2, <3>3
  <2>2. ASSUME NEW n \in list[i].lastSeqNo + 1 .. list[i + 1].firstSeqNo - 1
        PROVE  n \in Covered(r)
    <3>1. /\ list[i].firstSeqNo <= list[i].lastSeqNo
          /\ list[i + 1].firstSeqNo <= list[i + 1].lastSeqNo
      BY <1>1 DEF Sorted
    <3>2. n \in Nat /\ r[i].firstSeqNo <= n /\ n <= r[i].lastSeqNo
      <4> DEFINE a == list[i].firstSeqNo
                 b == list[i].lastSeqNo
                 c == list[i + 1].firstSeqNo
                 d == list[i + 1].lastSeqNo
      <4>1. a \in Nat /\ b \in Nat /\ c \in Nat /\ d \in Nat
        BY <1>1, ListTypes
      <4>2. a <= b /\ c <= d /\ n \in b + 1 .. c - 1
        BY <2>2, <3>1
      <4>3. r[i].firstSeqNo = a /\ r[i].lastSeqNo = d
        BY <1>1, <1>5
      <4> HIDE DEF a, b, c, d
      <4> QED
        BY <4>1, <4>2, <4>3
    <3> QED
      BY <3>2, <1>1, <1>3, CoveredMember
  <2>3. ASSUME NEW n \in Covered(list)
        PROVE  n \in Covered(r)
    <3>1. PICK j \in 1 .. Len(list) : /\ n \in Nat
                                      /\ list[j].firstSeqNo <= n
                                      /\ n <= list[j].lastSeqNo
      BY <2>3, CoveredMember
    <3>2. PICK k \in 1 .. Len(list) - 1 : k = IF j <= i THEN j ELSE j - 1
      BY <1>1
    <3>3. /\ list[i].firstSeqNo <= list[i].lastSeqNo
          /\ list[i].lastSeqNo < list[i + 1].firstSeqNo
          /\ list[i + 1].firstSeqNo <= list[i + 1].lastSeqNo
      BY <1>1 DEF Sorted
    <3>4. r[k].firstSeqNo <= n /\ n <= r[k].lastSeqNo
      <4>1. CASE j < i
        BY <4>1, <3>1, <3>2, <1>1, <1>5
      <4>2. CASE j = i
        BY <4>2, <3>1, <3>2, <3>3, <1>1, <1>5, ListTypes
      <4>3. CASE j = i + 1
        BY <4>3, <3>1, <3>2, <3>3, <1>1, <1>5, ListTypes
      <4>4. CASE i + 1 < j
        <5>1. k = j - 1 /\ k > i /\ k + 1 = j
          BY <4>4, <3>2, <1>1
        <5> QED
          BY <5>1, <3>1, <1>1, <1>5
      <4> QED
        BY <4>1, <4>2, <4>3, <4>4, <1>1
    <3> QED
      BY <3>1, <3>2, <3>4, <1>3, CoveredMember
  <2> QED
    BY <2>1, <2>2, <2>3
<1> QED
  BY <1>3, <1>4, <1>9, <1>10

\* Moving an end by one, where there is room, adds that one number.
LEMMA ExtendUp ==
  ASSUME NEW list \in Lists, GapsBetween(list), NEW i \in 1 .. Len(list),
         NEW n \in Nat, n = list[i].lastSeqNo + 1, n < UINT32_MAX,
         i < Len(list) => n + 1 < list[i + 1].firstSeqNo
  PROVE  /\ [list EXCEPT ![i].lastSeqNo = n] \in Lists
         /\ GapsBetween([list EXCEPT ![i].lastSeqNo = n])
         /\ Covered([list EXCEPT ![i].lastSeqNo = n]) = Covered(list) \cup {n}
<1> DEFINE r == [list EXCEPT ![i].lastSeqNo = n]
<1>1. /\ n \in uint32 /\ Len(list) \in Nat /\ DOMAIN list = 1 .. Len(list)
      /\ \A j \in 1 .. Len(list) : /\ list[j].firstSeqNo <= list[j].lastSeqNo
                                   /\ list[j].firstSeqNo \in Nat
                                   /\ list[j].lastSeqNo \in Nat
  BY ListTypes, Uint32Assumption DEF uint32, GapsBetween
<1>2. /\ r \in Lists /\ Len(r) = Len(list)
      /\ \A j \in 1 .. Len(list) :
           /\ r[j].lastSeqNo = IF j = i THEN n ELSE list[j].lastSeqNo
           /\ r[j].firstSeqNo = list[j].firstSeqNo
  <2>1. n \in uint32
    BY <1>1
  <2> QED
    BY <2>1, MoveLast
<1> HIDE DEF r
<1>3. \A j, k \in 1 .. Len(list) : j < k => r[j].lastSeqNo + 1 < r[k].firstSeqNo
  <2> TAKE j, k \in 1 .. Len(list)
  <2> HAVE j < k
  <2>1. CASE j # i
    BY <2>1, <1>1, <1>2 DEF GapsBetween
  <2>2. CASE j = i /\ k = i + 1
    BY <2>2, <1>1, <1>2
  <2>3. CASE j = i /\ i + 1 < k
    <3>1. i + 1 \in 1 .. Len(list) /\ i < Len(list)
      BY <2>3, <1>1
    <3>2. list[i + 1].lastSeqNo + 1 < list[k].firstSeqNo
      BY <2>3, <3>1, <1>1 DEF GapsBetween
    <3>3. /\ list[i + 1].firstSeqNo <= list[i + 1].lastSeqNo
          /\ list[i + 1].firstSeqNo \in Nat /\ list[i + 1].lastSeqNo \in Nat
          /\ list[k].firstSeqNo \in Nat /\ list[i].lastSeqNo \in Nat
      BY <3>1, <1>1
    <3>4. n + 1 < list[k].firstSeqNo
      <4>1. n + 1 < list[i + 1].firstSeqNo
        BY <3>1
      <4> DEFINE b == list[i + 1].firstSeqNo
                 c == list[i + 1].lastSeqNo
                 d == list[k].firstSeqNo
      <4>2. /\ b \in Nat /\ c \in Nat /\ d \in Nat
            /\ n + 1 < b /\ b <= c /\ c + 1 < d
        BY <3>2, <3>3, <4>1
      <4> HIDE DEF b, c, d
      <4>3. n + 1 < d
        BY <4>2, Below
      <4> QED
        BY <4>3 DEF d
    <3>5. r[j].lastSeqNo = n /\ r[k].firstSeqNo = list[k].firstSeqNo
      BY <2>3, <1>2
    <3> QED
      BY <3>4, <3>5
  <2> QED
    BY <2>1, <2>2, <2>3, <1>1
<1>4. GapsBetween(r)
  <2>1. DOMAIN r = 1 .. Len(list)
    BY <1>2, ListTypes
  <2>2. \A j \in 1 .. Len(list) : /\ r[j].firstSeqNo <= r[j].lastSeqNo
                                  /\ r[j].lastSeqNo < UINT32_MAX
    <3> TAKE j \in 1 .. Len(list)
    <3>1. CASE j = i
      <4> DEFINE lo == list[i].firstSeqNo
                 hi == list[i].lastSeqNo
      <4>1. /\ lo \in Nat /\ hi \in Nat /\ lo <= hi /\ n = hi + 1
            /\ r[j].firstSeqNo = lo /\ r[j].lastSeqNo = n
        BY <3>1, <1>1, <1>2
      <4> HIDE DEF lo, hi
      <4>2. lo <= n
        BY ONLY <4>1
      <4> QED
        BY ONLY <4>1, <4>2, n < UINT32_MAX
    <3>2. CASE j # i
      <4>1. /\ list[j].firstSeqNo <= list[j].lastSeqNo
            /\ list[j].lastSeqNo < UINT32_MAX
        BY DEF GapsBetween
      <4> QED
        BY <4>1, <3>2, <1>2
    <3> QED
      BY <3>1, <3>2
  <2> QED
    BY <2>1, <2>2, <1>3 DEF GapsBetween
<1>5. Covered(r) = Covered(list) \cup {n}
  <2>1. \A m : m \in Covered(r) <=>
                 \E j \in 1 .. Len(list) : /\ m \in Nat
                                           /\ r[j].firstSeqNo <= m
                                           /\ m <= r[j].lastSeqNo
    BY <1>2, CoveredMember
  <2>2. ASSUME NEW m \in Covered(r) PROVE m \in Covered(list) \cup {n}
    <3>1. PICK j \in 1 .. Len(list) : /\ m \in Nat
                                      /\ r[j].firstSeqNo <= m
                                      /\ m <= r[j].lastSeqNo
      BY <2>1, <2>2
    <3>2. m = n \/ (list[j].firstSeqNo <= m /\ m <= list[j].lastSeqNo)
      <4>1. CASE j # i
        BY <4>1, <3>1, <1>2
      <4>2. CASE j = i
        <5> DEFINE lo == list[i].firstSeqNo
                   hi == list[i].lastSeqNo
        <5>1. hi \in Nat /\ n = hi + 1 /\ m \in Nat /\ lo <= m /\ m <= n
          BY <4>2, <3>1, <1>1, <1>2
        <5> HIDE DEF lo, hi
        <5>2. m = n \/ (lo <= m /\ m <= hi)
          BY ONLY <5>1, n \in Nat
        <5> QED
          BY <5>2, <4>2 DEF lo, hi
      <4> QED
        BY <4>1, <4>2
    <3> QED
      BY <3>1, <3>2, CoveredMember
  <2>3. ASSUME NEW m \in Covered(list) PROVE m \in Covered(r)
    <3>1. PICK j \in 1 .. Len(list) : /\ m \in Nat
                                      /\ list[j].firstSeqNo <= m
                                      /\ m <= list[j].lastSeqNo
      BY <2>3, CoveredMember
    <3>2. r[j].firstSeqNo <= m /\ m <= r[j].lastSeqNo
      BY <3>1, <1>1, <1>2
    <3> QED
      BY <3>1, <3>2, <2>1
  <2>4. n \in Covered(r)
    <3>1. r[i].firstSeqNo <= n /\ n <= r[i].lastSeqNo
      BY <1>1, <1>2
    <3> QED
      BY <3>1, <2>1
  <2> QED
    BY <2>2, <2>3, <2>4
<1> QED
  BY <1>2, <1>4, <1>5 DEF r

\* The same at the other end.
LEMMA ExtendDown ==
  ASSUME NEW list \in Lists, GapsBetween(list), NEW i \in 1 .. Len(list),
         NEW n \in Nat, n = list[i].firstSeqNo - 1, n < UINT32_MAX,
         i > 1 => list[i - 1].lastSeqNo + 1 < n
  PROVE  /\ [list EXCEPT ![i].firstSeqNo = n] \in Lists
         /\ GapsBetween([list EXCEPT ![i].firstSeqNo = n])
         /\ Covered([list EXCEPT ![i].firstSeqNo = n]) = Covered(list) \cup {n}
<1> DEFINE r == [list EXCEPT ![i].firstSeqNo = n]
<1>1. /\ n \in uint32 /\ Len(list) \in Nat /\ DOMAIN list = 1 .. Len(list)
      /\ \A j \in 1 .. Len(list) : /\ list[j].firstSeqNo <= list[j].lastSeqNo
                                   /\ list[j].firstSeqNo \in Nat
                                   /\ list[j].lastSeqNo \in Nat
  BY ListTypes, Uint32Assumption DEF uint32, GapsBetween
<1>2. /\ r \in Lists /\ Len(r) = Len(list)
      /\ \A j \in 1 .. Len(list) :
           /\ r[j].firstSeqNo = IF j = i THEN n ELSE list[j].firstSeqNo
           /\ r[j].lastSeqNo = list[j].lastSeqNo
  <2>1. n \in uint32
    BY <1>1
  <2> QED
    BY <2>1, MoveFirst
<1> HIDE DEF r
<1>3. \A j, k \in 1 .. Len(list) : j < k => r[j].lastSeqNo + 1 < r[k].firstSeqNo
  <2> TAKE j, k \in 1 .. Len(list)
  <2> HAVE j < k
  <2>1. CASE k # i
    BY <2>1, <1>1, <1>2 DEF GapsBetween
  <2>2. CASE k = i /\ j = i - 1
    BY <2>2, <1>1, <1>2
  <2>3. CASE k = i /\ j < i - 1
    <3>1. i - 1 \in 1 .. Len(list) /\ i > 1
      BY <2>3, <1>1
    <3>2. list[j].lastSeqNo + 1 < list[i - 1].firstSeqNo
      BY <2>3, <3>1, <1>1 DEF GapsBetween
    <3>3. /\ list[i - 1].firstSeqNo <= list[i - 1].lastSeqNo
          /\ list[i - 1].firstSeqNo \in Nat /\ list[i - 1].lastSeqNo \in Nat
          /\ list[j].lastSeqNo \in Nat /\ list[i].firstSeqNo \in Nat
      BY <3>1, <1>1
    <3>4. list[j].lastSeqNo + 1 < n
      <4>1. list[i - 1].lastSeqNo + 1 < n
        BY <3>1
      <4> QED
        BY ONLY n \in Nat, <3>2, <3>3, <4>1, Below
    <3>5. r[k].firstSeqNo = n /\ r[j].lastSeqNo = list[j].lastSeqNo
      BY <2>3, <1>2
    <3> QED
      BY <3>4, <3>5
  <2>4. k # i \/ (k = i /\ j = i - 1) \/ (k = i /\ j < i - 1)
    BY <1>1
  <2> QED
    BY <2>1, <2>2, <2>3, <2>4
<1>4. GapsBetween(r)
  <2>1. DOMAIN r = 1 .. Len(list)
    BY <1>2, ListTypes
  <2>2. \A j \in 1 .. Len(list) : /\ r[j].firstSeqNo <= r[j].lastSeqNo
                                  /\ r[j].lastSeqNo < UINT32_MAX
    BY <1>1, <1>2 DEF GapsBetween
  <2> QED
    BY <2>1, <2>2, <1>3 DEF GapsBetween
<1>5. Covered(r) = Covered(list) \cup {n}
  <2>1. \A m : m \in Covered(r) <=>
                 \E j \in 1 .. Len(list) : /\ m \in Nat
                                           /\ r[j].firstSeqNo <= m
                                           /\ m <= r[j].lastSeqNo
    BY <1>2, CoveredMember
  <2>2. ASSUME NEW m \in Covered(r) PROVE m \in Covered(list) \cup {n}
    <3>1. PICK j \in 1 .. Len(list) : /\ m \in Nat
                                      /\ r[j].firstSeqNo <= m
                                      /\ m <= r[j].lastSeqNo
      BY <2>1, <2>2
    <3>2. m = n \/ (list[j].firstSeqNo <= m /\ m <= list[j].lastSeqNo)
      BY <3>1, <1>1, <1>2
    <3> QED
      BY <3>1, <3>2, CoveredMember
  <2>3. ASSUME NEW m \in Covered(list) PROVE m \in Covered(r)
    <3>1. PICK j \in 1 .. Len(list) : /\ m \in Nat
                                      /\ list[j].firstSeqNo <= m
                                      /\ m <= list[j].lastSeqNo
      BY <2>3, CoveredMember
    <3>2. r[j].firstSeqNo <= m /\ m <= r[j].lastSeqNo
      BY <3>1, <1>1, <1>2
    <3> QED
      BY <3>1, <3>2, <2>1
  <2>4. n \in Covered(r)
    <3>1. r[i].firstSeqNo <= n /\ n <= r[i].lastSeqNo
      BY <1>1, <1>2
    <3> QED
      BY <3>1, <2>1
  <2> QED
    BY <2>2, <2>3, <2>4
<1> QED
  BY <1>2, <1>4, <1>5 DEF r

\* A number beyond a range, and not next to it, becomes a range of its own;
\* the only one it may touch is its successor.
LEMMA InsertAfterProperties ==
  ASSUME NEW list \in Lists, GapsBetween(list), NEW i \in 1 .. Len(list),
         NEW n \in Nat, list[i].lastSeqNo + 1 < n, n < UINT32_MAX,
         i < Len(list) => n < list[i + 1].firstSeqNo
  PROVE  /\ InsertAfter(list, i, n) \in Lists
         /\ Sorted(InsertAfter(list, i, n))
         /\ TouchingAt(InsertAfter(list, i, n)) \subseteq {i + 1}
         /\ Covered(InsertAfter(list, i, n)) = Covered(list) \cup {n}
<1> DEFINE e == create_sequencer_range(n, n)
           r == InsertAt(list, i + 1, e)
<1>1. /\ n \in uint32 /\ Len(list) \in Nat /\ DOMAIN list = 1 .. Len(list)
      /\ \A j \in 1 .. Len(list) : /\ list[j].firstSeqNo <= list[j].lastSeqNo
                                   /\ list[j].lastSeqNo < UINT32_MAX
                                   /\ list[j].firstSeqNo \in Nat
                                   /\ list[j].lastSeqNo \in Nat
  BY ListTypes, Uint32Assumption DEF uint32, GapsBetween
<1>2. e \in sequencer_item_t /\ e.firstSeqNo = n /\ e.lastSeqNo = n
  BY <1>1 DEF create_sequencer_range, sequencer_item_t
<1>3. InsertAfter(list, i, n) = r
  BY DEF InsertAfter
<1> HIDE DEF e
<1>4. /\ r \in Lists /\ Len(r) = Len(list) + 1
      /\ \A j \in 1 .. Len(list) + 1 :
           r[j] = IF j < i + 1 THEN list[j]
                  ELSE IF j = i + 1 THEN e ELSE list[j - 1]
  <2> DEFINE place == i + 1
             item == sequencer_item_t
  <2>1. place \in 1 .. Len(list) + 1 /\ list \in Seq(item) /\ e \in item
    BY <1>1, <1>2 DEF Lists
  <2> HIDE DEF place, item
  <2>2. HasInserted(item, list, place, e, InsertAt(list, place, e))
    BY ONLY <2>1, InsertAtProperties
  <2> USE DEF place, item
  <2> QED
    BY <2>2 DEF HasInserted, Lists
<1> HIDE DEF r
<1>5. \A j \in 1 .. Len(list) + 1 : /\ r[j].firstSeqNo <= r[j].lastSeqNo
                                    /\ r[j].lastSeqNo < UINT32_MAX
  BY <1>1, <1>2, <1>4
\* Ranges other than the new one keep their distance.
<1>6. ASSUME NEW j \in 1 .. Len(list) + 1, NEW k \in 1 .. Len(list) + 1,
             j < k, j # i + 1, k # i + 1
      PROVE  r[j].lastSeqNo + 1 < r[k].firstSeqNo
  <2>1. PICK jj \in 1 .. Len(list) : /\ jj = (IF j < i + 1 THEN j ELSE j - 1)
                                     /\ r[j] = list[jj]
    BY <1>1, <1>4, <1>6
  <2>2. PICK kk \in 1 .. Len(list) : /\ kk = (IF k < i + 1 THEN k ELSE k - 1)
                                     /\ r[k] = list[kk]
    BY <1>1, <1>4, <1>6
  <2>3. jj < kk
    BY <2>1, <2>2, <1>1, <1>6
  <2> QED
    BY <2>1, <2>2, <2>3, <1>1 DEF GapsBetween
\* Nothing in front of the new range touches it.
<1>7. ASSUME NEW j \in 1 .. Len(list) + 1, j < i + 1
      PROVE  r[j].lastSeqNo + 1 < n
  <2>1. j \in 1 .. Len(list) /\ r[j] = list[j]
    BY <1>1, <1>4, <1>7
  <2>2. list[j].lastSeqNo <= list[i].lastSeqNo
    <3>1. CASE j = i
      BY <3>1, <1>1
    <3>2. CASE j < i
      <4>1. list[j].lastSeqNo + 1 < list[i].firstSeqNo
        BY <3>2, <2>1, <1>1 DEF GapsBetween
      <4> QED
        BY <4>1, <2>1, <1>1
    <3> QED
      BY <3>1, <3>2, <1>1, <1>7
  <2> QED
    BY <2>1, <2>2, <1>1
\* The ranges behind it begin later.
<1>8. ASSUME NEW k \in 1 .. Len(list) + 1, i + 1 < k
      PROVE  n < r[k].firstSeqNo
  <2> DEFINE kk == k - 1
  <2>1. /\ kk \in 1 .. Len(list) /\ r[k] = list[kk] /\ i < kk
        /\ i + 1 \in 1 .. Len(list) /\ i < Len(list)
    BY <1>1, <1>4, <1>8
  <2>2. CASE kk = i + 1
    BY <2>1, <2>2
  <2>3. CASE i + 1 < kk
    <3>1. list[i + 1].lastSeqNo + 1 < list[kk].firstSeqNo
      BY <2>1, <2>3, <1>1 DEF GapsBetween
    <3>2. list[i + 1].firstSeqNo <= list[i + 1].lastSeqNo
      BY <2>1, <1>1
    <3>3. n < list[kk].firstSeqNo
      <4> DEFINE b == list[i + 1].firstSeqNo
                 c == list[i + 1].lastSeqNo
                 d == list[kk].firstSeqNo
      <4>1. /\ b \in Nat /\ c \in Nat /\ d \in Nat
            /\ n < b /\ b <= c /\ c + 1 < d
        BY <3>1, <3>2, <2>1, <1>1
      <4> HIDE DEF b, c, d
      <4>2. n < d
        BY <4>1
      <4> QED
        BY <4>2 DEF d
    <3> QED
      BY <3>3, <2>1
  <2> QED
    BY <2>1, <2>2, <2>3
<1>9. /\ r[i + 1].firstSeqNo = n /\ r[i + 1].lastSeqNo = n
      /\ i + 1 \in 1 .. Len(list) + 1
  <2>1. i + 1 \in 1 .. Len(list) + 1 /\ ~ (i + 1 < i + 1)
    BY <1>1
  <2>2. r[i + 1] = e
    BY <2>1, <1>4
  <2> QED
    BY <2>1, <2>2, <1>2
<1>10. \A j \in 1 .. Len(r) : r[j].firstSeqNo \in Nat /\ r[j].lastSeqNo \in Nat
  BY <1>4, ListTypes
<1>11. Sorted(r)
  <2>1. ASSUME NEW j \in 1 .. Len(list) + 1, NEW k \in 1 .. Len(list) + 1, j < k
        PROVE  r[j].lastSeqNo < r[k].firstSeqNo
    <3>1. CASE k = i + 1
      BY <3>1, <2>1, <1>4, <1>7, <1>9, <1>10
    <3>2. CASE j = i + 1
      BY <3>2, <2>1, <1>8, <1>9
    <3>3. CASE j # i + 1 /\ k # i + 1
      BY <3>3, <2>1, <1>4, <1>6, <1>10
    <3> QED
      BY <3>1, <3>2, <3>3
  <2> QED
    BY <2>1, <1>4, <1>5 DEF Sorted
<1>12. TouchingAt(r) \subseteq {i + 1}
  <2> SUFFICES ASSUME NEW j \in TouchingAt(r), j # i + 1
               PROVE  FALSE
    OBVIOUS
  <2>1. /\ j \in 1 .. Len(list) + 1 /\ j + 1 \in 1 .. Len(list) + 1
        /\ Inc(r[j].lastSeqNo) = r[j + 1].firstSeqNo
    BY <1>1, <1>4 DEF TouchingAt
  <2>2. r[j].lastSeqNo + 1 = r[j + 1].firstSeqNo
    BY <2>1, <1>4, <1>5, <1>10, PlainArithmetic
  <2>3. CASE j + 1 = i + 1
    BY <2>1, <2>2, <2>3, <1>7, <1>9
  <2>4. CASE j + 1 # i + 1
    BY <2>1, <2>2, <2>4, <1>6, <1>4, <1>10
  <2> QED
    BY <2>3, <2>4
<1>13. Covered(r) = Covered(list) \cup {n}
  <2>1. \A m : m \in Covered(r) <=>
                 \E j \in 1 .. Len(list) + 1 : /\ m \in Nat
                                               /\ r[j].firstSeqNo <= m
                                               /\ m <= r[j].lastSeqNo
    BY <1>4, CoveredMember
  <2>2. ASSUME NEW m \in Covered(r) PROVE m \in Covered(list) \cup {n}
    <3>1. PICK j \in 1 .. Len(list) + 1 : /\ m \in Nat
                                          /\ r[j].firstSeqNo <= m
                                          /\ m <= r[j].lastSeqNo
      BY <2>1, <2>2
    <3>2. CASE j = i + 1
      BY <3>1, <3>2, <1>9
    <3>3. CASE j # i + 1
      <4>1. PICK jj \in 1 .. Len(list) : r[j] = list[jj]
        <5>1. CASE j < i + 1
          BY <5>1, <1>1, <1>4
        <5>2. CASE i + 1 < j
          <6>1. j - 1 \in 1 .. Len(list) /\ r[j] = list[j - 1]
            BY <5>2, <1>1, <1>4
          <6> QED
            BY <6>1
        <5> QED
          BY <5>1, <5>2, <3>3, <1>1
      <4> QED
        BY <3>1, <4>1, CoveredMember
    <3> QED
      BY <3>2, <3>3
  <2>3. ASSUME NEW m \in Covered(list) PROVE m \in Covered(r)
    <3>1. PICK j \in 1 .. Len(list) : /\ m \in Nat
                                      /\ list[j].firstSeqNo <= m
                                      /\ m <= list[j].lastSeqNo
      BY <2>3, CoveredMember
    <3>2. PICK k \in 1 .. Len(list) + 1 : r[k] = list[j]
      <4>1. CASE j <= i
        <5>1. j \in 1 .. Len(list) + 1 /\ r[j] = list[j]
          BY <4>1, <1>1, <1>4
        <5> QED
          BY <5>1
      <4>2. CASE i < j
        <5> DEFINE k == j + 1
        <5>1. k \in 1 .. Len(list) + 1 /\ i + 1 < k /\ k - 1 = j
          BY <4>2, <1>1
        <5>2. r[k] = list[k - 1]
          BY <5>1, <1>1, <1>4
        <5> QED
          BY <5>1, <5>2
      <4> QED
        BY <4>1, <4>2, <1>1
    <3> QED
      BY <3>1, <3>2, <2>1
  <2>4. n \in Covered(r)
    BY <1>9, <1>1, <2>1
  <2> QED
    BY <2>2, <2>3, <2>4
<1> QED
  BY <1>3, <1>4, <1>11, <1>12, <1>13

\* The merging of sequencer_complete: it joins the touching pair, if there is
\* one, and covers what was covered before.
LEMMA MergeProperties ==
  ASSUME NEW list \in Lists, Sorted(list), NEW p, TouchingAt(list) \subseteq {p}
  PROVE  /\ MergeTouching(list) \in Lists
         /\ GapsBetween(MergeTouching(list))
         /\ Covered(MergeTouching(list)) = Covered(list)
<1>1. CASE TouchingAt(list) = {}
  BY <1>1, SortedHasGaps DEF MergeTouching
<1>2. CASE TouchingAt(list) # {}
  <2>1. TouchingAt(list) = {p} /\ p \in 1 .. Len(list) - 1
    BY <1>2 DEF TouchingAt
  <2>2. Min({p}) = p
    <3>1. {p} \in SUBSET Nat /\ {p} # {}
      BY <2>1, ListTypes
    <3> QED
      BY <3>1, MinProperties
  <2>3. MergeTouching(list) = Absorb(list, p)
    BY <2>1, <2>2 DEF MergeTouching
  <2>4. list[p].lastSeqNo + 1 = list[p + 1].firstSeqNo
    <3>1. p \in 1 .. Len(list) /\ p + 1 \in 1 .. Len(list)
      BY <2>1, ListTypes
    <3>2. Inc(list[p].lastSeqNo) = list[p + 1].firstSeqNo
      BY <2>1 DEF TouchingAt
    <3> QED
      BY <3>1, <3>2, ListTypes, PlainArithmetic DEF Sorted
  <2>5. list[p].lastSeqNo + 1 .. list[p + 1].firstSeqNo - 1 = {}
    <3>1. p \in 1 .. Len(list) /\ p + 1 \in 1 .. Len(list)
      BY <2>1, ListTypes
    <3>2. list[p].lastSeqNo \in Nat /\ list[p + 1].firstSeqNo \in Nat
      BY <3>1, ListTypes
    <3> QED
      BY <3>2, <2>4
  <2> QED
    BY <2>1, <2>3, <2>5, AbsorbProperties
<1> QED
  BY <1>1, <1>2

-----------------------------------------------------------------------------
(***************************************************************************)
(* The merging loop of sequencer_complete, element by element.             *)
(***************************************************************************)

\* The list that has been built when i elements of the list s are in it.
Built(s, i, fresh) == [list |-> SubSeq(s, 1, i), fresh |-> fresh]

LEMMA AppendToPrefix ==
  ASSUME NEW S, NEW s \in Seq(S), NEW i \in 1 .. Len(s)
  PROVE  Append(SubSeq(s, 1, i - 1), s[i]) = SubSeq(s, 1, i)
<1>1. Len(s) \in Nat /\ 1 \in 1 .. Len(s) /\ \A j \in 1 .. Len(s) : s[j] \in S
  BY LenProperties, ElementOfSeq
<1>2. SubSeq(s, 1, i) = SubSeq(s, 1, i - 1) \o <<s[i]>>
  BY <1>1, SubSeqRecursiveSecond
<1>3. SubSeq(s, 1, i - 1) \in Seq(S)
  <2>1. \A j \in 1 .. i - 1 : s[j] \in S
    BY <1>1
  <2> QED
    BY <2>1, <1>1, SubSeqProperties
<1> QED
  BY <1>1, <1>2, <1>3, AppendIsConcat

\* A visit that does not find its element touching the one before appends it.
LEMMA StepAppends ==
  ASSUME NEW s \in Lists, NEW i \in 1 .. Len(s), NEW fresh \in BOOLEAN,
         fresh => i > 1 /\ Inc(s[i - 1].lastSeqNo) # s[i].firstSeqNo
  PROVE  MergeStep(Built(s, i - 1, fresh), s[i]) = Built(s, i, TRUE)
<1> DEFINE acc == Built(s, i - 1, fresh)
           pre == SubSeq(s, 1, i - 1)
<1>1. acc.list = pre /\ acc.fresh = fresh
  BY DEF Built
<1>2. fresh => Last(pre) = s[i - 1]
  <2> SUFFICES ASSUME fresh PROVE Last(pre) = s[i - 1]
    OBVIOUS
  <2>1. Len(s) \in Nat /\ \A j \in 1 .. Len(s) : s[j] \in sequencer_item_t
    BY ListTypes
  <2>2. 1 <= i - 1 /\ i - 1 \in 1 .. i - 1
        /\ \A j \in 1 .. i - 1 : s[j] \in sequencer_item_t
    BY <2>1
  <2>3. /\ Len(pre) = IF 1 <= i - 1 THEN (i - 1) - 1 + 1 ELSE 0
        /\ \A j \in 1 .. (i - 1) - 1 + 1 : pre[j] = s[1 + j - 1]
    BY <2>1, <2>2, SubSeqProperties
  <2> HIDE DEF pre
  <2>4. Len(pre) = i - 1 /\ pre[i - 1] = s[i - 1]
    BY <2>1, <2>2, <2>3
  <2> QED
    BY <2>4 DEF Last
<1>3. Append(pre, s[i]) = SubSeq(s, 1, i)
  BY AppendToPrefix DEF Lists
<1> HIDE DEF acc, pre
<1>4. ~ (acc.fresh /\ Inc(Last(acc.list).lastSeqNo) = s[i].firstSeqNo)
  BY <1>1, <1>2
<1>5. MergeStep(acc, s[i]) = [list |-> Append(acc.list, s[i]), fresh |-> TRUE]
  BY <1>4 DEF MergeStep
<1> QED
  BY <1>1, <1>3, <1>5 DEF Built, acc

\* MergeLoop is the only solution of its equation.
LEMMA MergeLoopEquation ==
  ASSUME NEW list, Len(list) \in Nat, NEW f,
         f = [i \in 0 .. Len(list) |->
                IF i = 0 THEN [list |-> << >>, fresh |-> FALSE]
                         ELSE MergeStep(f[i - 1], list[i])]
  PROVE  MergeLoop(list) = f
<1> DEFINE n == Len(list)
           Solves(g) ==
             g = [i \in 0 .. n |->
                    IF i = 0 THEN [list |-> << >>, fresh |-> FALSE]
                             ELSE MergeStep(g[i - 1], list[i])]
           g == CHOOSE h : Solves(h)
<1>1. MergeLoop(list) = g
  BY DEF MergeLoop
<1>2. Solves(f)
  OBVIOUS
<1>3. Solves(g)
  <2> HIDE DEF Solves
  <2> QED BY <1>2
<1>4. n \in Nat
  OBVIOUS
<1> HIDE DEF g, n
<1>5. f[0] = g[0] /\ \A i \in 1 .. n : f[i - 1] = g[i - 1] => f[i] = g[i]
  <2> DEFINE first == [list |-> << >>, fresh |-> FALSE]
  <2> HIDE DEF first
  <2>1. ASSUME NEW h, Solves(h)
        PROVE  h[0] = first /\ \A i \in 1 .. n : h[i] = MergeStep(h[i - 1], list[i])
    <3>1. h = [i \in 0 .. n |-> IF i = 0 THEN first
                                        ELSE MergeStep(h[i - 1], list[i])]
      BY <2>1 DEF first
    <3>2. 0 \in 0 .. n /\ \A i \in 1 .. n : i \in 0 .. n /\ i # 0
      BY <1>4
    <3> HIDE DEF Solves
    <3> QED
      BY <3>1, <3>2
  <2> HIDE DEF Solves
  <2>2. f[0] = first /\ \A i \in 1 .. n : f[i] = MergeStep(f[i - 1], list[i])
    BY <1>2, <2>1
  <2>3. g[0] = first /\ \A i \in 1 .. n : g[i] = MergeStep(g[i - 1], list[i])
    BY <1>3, <2>1
  <2> QED
    BY <2>2, <2>3
<1>6. \A i \in 0 .. n : f[i] = g[i]
  BY ONLY <1>4, <1>5, SameRecursion
<1>7. f = [i \in 0 .. n |-> f[i]] /\ g = [i \in 0 .. n |-> g[i]]
  BY <1>2, <1>3
<1> QED
  BY <1>1, <1>6, <1>7

\* The elements of a list in which one element has absorbed its successor.
LEMMA AbsorbElements ==
  ASSUME NEW list \in Lists, NEW i \in 1 .. Len(list) - 1
  PROVE  /\ Absorb(list, i) \in Lists
         /\ Len(Absorb(list, i)) = Len(list) - 1
         /\ \A j \in 1 .. Len(list) - 1 :
              Absorb(list, i)[j] =
                IF j < i THEN list[j]
                ELSE IF j = i
                THEN [list[i] EXCEPT !.lastSeqNo = list[i + 1].lastSeqNo]
                ELSE list[j + 1]
<1> DEFINE e == list[i + 1].lastSeqNo
           x == [list[i] EXCEPT !.lastSeqNo = e]
           u == [list EXCEPT ![i].lastSeqNo = e]
           r == RemoveAt(u, i + 1)
<1>1. /\ Len(list) \in Nat /\ i \in 1 .. Len(list) /\ i + 1 \in 1 .. Len(list)
      /\ e \in uint32 /\ DOMAIN list = 1 .. Len(list)
  BY ListTypes, Uint32Assumption DEF uint32
<1> HIDE DEF e
<1>2. u \in Lists /\ Len(u) = Len(list)
  BY <1>1, MoveLast
<1>3. \A j \in 1 .. Len(list) : u[j] = IF j = i THEN x ELSE list[j]
  BY <1>1
<1> HIDE DEF u, x
<1>4. /\ r \in Lists /\ Len(r) = Len(list) - 1
      /\ \A j \in 1 .. Len(list) - 1 : r[j] = IF j < i + 1 THEN u[j] ELSE u[j + 1]
  <2>1. u \in Seq(sequencer_item_t) /\ i + 1 \in 1 .. Len(u)
    BY <1>1, <1>2 DEF Lists
  <2>2. /\ r \in Seq(sequencer_item_t) /\ Len(r) = Len(u) - 1
        /\ \A j \in 1 .. Len(u) - 1 : r[j] = IF j < i + 1 THEN u[j] ELSE u[j + 1]
    BY <2>1, RemoveAtProperties
  <2> QED
    BY <1>2, <2>2 DEF Lists
<1>5. Absorb(list, i) = r
  BY DEF Absorb, u, e
<1> HIDE DEF r
<1>6. ASSUME NEW j \in 1 .. Len(list) - 1
      PROVE  r[j] = IF j < i THEN list[j] ELSE IF j = i THEN x ELSE list[j + 1]
  <2>1. j \in 1 .. Len(list) /\ j + 1 \in 1 .. Len(list)
    BY <1>1
  <2>2. CASE j < i
    <3>1. j < i + 1 /\ j # i
      BY <2>2, <1>1
    <3> QED
      BY <2>1, <2>2, <3>1, <1>3, <1>4
  <2>3. CASE j = i
    <3>1. j < i + 1 /\ ~ (j < i)
      BY <2>3, <1>1
    <3> QED
      BY <2>1, <2>3, <3>1, <1>3, <1>4
  <2>4. CASE j > i
    <3>1. ~ (j < i + 1) /\ ~ (j < i) /\ j # i /\ j + 1 # i
      BY <2>4, <1>1
    <3> QED
      BY <2>1, <3>1, <1>3, <1>4
  <2> QED
    BY <2>2, <2>3, <2>4, <1>1
<1> QED
  BY <1>4, <1>5, <1>6 DEF x, e

\* The loop of sequencer_complete, when no pair of ranges touches.
LEMMA NothingMerges ==
  ASSUME NEW list \in Lists, TouchingAt(list) = {}
  PROVE  MergePass(list) = list
<1> DEFINE n == Len(list)
           f == [i \in 0 .. n |-> Built(list, i, i # 0)]
<1>1. n \in Nat
  BY ListTypes
<1>2. ASSUME NEW i \in 0 .. n
      PROVE  f[i] = IF i = 0 THEN [list |-> << >>, fresh |-> FALSE]
                             ELSE MergeStep(f[i - 1], list[i])
  <2>1. f[i] = Built(list, i, i # 0)
    OBVIOUS
  <2>2. CASE i = 0
    <3>1. SubSeq(list, 1, 0) = << >>
      BY SubSeqEmpty
    <3> HIDE DEF f
    <3> QED
      BY <2>1, <2>2, <3>1 DEF Built
  <2>3. CASE i # 0
    <3>1. i \in 1 .. n /\ i - 1 \in 0 .. n
      BY <2>3, <1>1
    <3>2. f[i - 1] = Built(list, i - 1, i - 1 # 0)
      BY <3>1
    <3>3. i - 1 # 0 => i > 1 /\ Inc(list[i - 1].lastSeqNo) # list[i].firstSeqNo
      <4> SUFFICES ASSUME i - 1 # 0
                   PROVE  i > 1 /\ Inc(list[i - 1].lastSeqNo) # list[i].firstSeqNo
        OBVIOUS
      <4>1. i - 1 \in 1 .. n - 1 /\ (i - 1) + 1 = i /\ i > 1
        BY <3>1, <1>1
      <4> QED
        BY <4>1 DEF TouchingAt
    <3>4. (i # 0) = TRUE /\ (i - 1 # 0) \in BOOLEAN
      BY <2>3
    <3>5. MergeStep(Built(list, i - 1, i - 1 # 0), list[i]) = Built(list, i, TRUE)
      <4> DEFINE fresh == i - 1 # 0
      <4>1. fresh \in BOOLEAN /\ i \in 1 .. Len(list)
            /\ (fresh => i > 1 /\ Inc(list[i - 1].lastSeqNo) # list[i].firstSeqNo)
        BY <3>1, <3>3
      <4> HIDE DEF fresh
      <4>2. MergeStep(Built(list, i - 1, fresh), list[i]) = Built(list, i, TRUE)
        BY ONLY list \in Lists, <4>1, StepAppends
      <4> QED
        BY <4>2 DEF fresh
    <3> HIDE DEF f
    <3> QED
      BY <2>1, <2>3, <3>2, <3>4, <3>5
  <2> QED
    BY <2>2, <2>3
<1>3. f = [i \in 0 .. n |-> IF i = 0 THEN [list |-> << >>, fresh |-> FALSE]
                                     ELSE MergeStep(f[i - 1], list[i])]
  BY <1>2
<1>4. f[n] = Built(list, n, n # 0)
  BY <1>1
<1> HIDE DEF f
<1>5. MergeLoop(list) = f
  BY ONLY <1>1, <1>3, MergeLoopEquation
<1>6. MergePass(list) = SubSeq(list, 1, n)
  BY <1>4, <1>5 DEF MergePass, Built
<1> QED
  BY <1>6, SubSeqFull DEF Lists

\* A visit that finds its element touching the one before, in a list where
\* nothing was absorbed yet, gives it to that one.
LEMMA StepAbsorbs ==
  ASSUME NEW list \in Lists, NEW p \in 1 .. Len(list) - 1,
         Inc(list[p].lastSeqNo) = list[p + 1].firstSeqNo
  PROVE  MergeStep(Built(list, p, TRUE), list[p + 1])
           = Built(Absorb(list, p), p, FALSE)
<1> DEFINE n == Len(list)
           pre == SubSeq(list, 1, p)
           e == list[p + 1].lastSeqNo
           a == Absorb(list, p)
           b == SubSeq(a, 1, p)
           c == [pre EXCEPT ![p].lastSeqNo = e]
<1>1. /\ n \in Nat /\ p \in 1 .. n /\ p + 1 \in 1 .. n /\ e \in uint32
      /\ \A j \in 1 .. n : list[j] \in sequencer_item_t
  BY ListTypes, Uint32Assumption DEF uint32
<1>2. /\ a \in Lists /\ Len(a) = n - 1
      /\ \A j \in 1 .. n - 1 : a[j] = IF j < p THEN list[j]
                                      ELSE IF j = p
                                      THEN [list[p] EXCEPT !.lastSeqNo = e]
                                      ELSE list[j + 1]
  BY AbsorbElements
<1> HIDE DEF a, n, e
<1>3. /\ pre \in Lists /\ Len(pre) = p
      /\ \A j \in 1 .. p : pre[j] = list[j]
  <2>1. \A j \in 1 .. p : list[j] \in sequencer_item_t
    BY <1>1
  <2>2. /\ pre \in Seq(sequencer_item_t)
        /\ Len(pre) = IF 1 <= p THEN p - 1 + 1 ELSE 0
        /\ \A j \in 1 .. p - 1 + 1 : pre[j] = list[1 + j - 1]
    BY <1>1, <2>1, SubSeqProperties
  <2> HIDE DEF pre
  <2> QED
    BY <1>1, <2>2 DEF Lists
<1>4. /\ b \in Lists /\ Len(b) = p
      /\ \A j \in 1 .. p : b[j] = a[j]
  <2>1. \A j \in 1 .. p : a[j] \in sequencer_item_t
    <3>1. \A j \in 1 .. p : j \in 1 .. Len(a)
      BY <1>1, <1>2, p \in 1 .. Len(list) - 1 DEF n
    <3> QED
      BY <3>1, <1>2, ListTypes
  <2>2. /\ b \in Seq(sequencer_item_t)
        /\ Len(b) = IF 1 <= p THEN p - 1 + 1 ELSE 0
        /\ \A j \in 1 .. p - 1 + 1 : b[j] = a[1 + j - 1]
    BY <1>1, <2>1, SubSeqProperties
  <2> HIDE DEF b
  <2> QED
    BY <1>1, <2>2 DEF Lists
<1> HIDE DEF pre, b
<1>5. c \in Lists /\ Len(c) = p
  <2>1. pre \in Lists /\ p \in 1 .. Len(pre) /\ e \in uint32
    BY <1>1, <1>3
  <2>2. c \in Lists /\ Len(c) = Len(pre)
    BY ONLY <2>1, MoveLast
  <2> QED
    BY <2>2, <1>3
<1>6. \A j \in 1 .. p : c[j] = b[j]
  <2>1. DOMAIN pre = 1 .. p /\ p \in 1 .. p
    BY <1>1, <1>3, ListTypes
  <2>2. \A j \in 1 .. p : c[j] = IF j = p THEN [pre[p] EXCEPT !.lastSeqNo = e]
                                         ELSE pre[j]
    BY <2>1
  <2>3. \A j \in 1 .. p : j \in 1 .. n - 1 /\ (j # p => j < p) /\ ~ (p < p)
    BY <1>1, p \in 1 .. Len(list) - 1 DEF n
  <2> HIDE DEF c
  <2> QED
    BY <2>1, <2>2, <2>3, <1>2, <1>3, <1>4
<1>7. c = b
  <2> HIDE DEF c
  <2> QED BY <1>4, <1>5, <1>6, SeqEqual DEF Lists
<1> DEFINE acc == Built(list, p, TRUE)
<1>8. acc.list = pre /\ acc.fresh = TRUE
  BY DEF Built, pre
<1>9. Last(pre) = list[p]
  BY <1>1, <1>3 DEF Last
<1>10. [acc.list EXCEPT ![Len(acc.list)].lastSeqNo = list[p + 1].lastSeqNo] = c
  <2> HIDE DEF acc
  <2> QED BY <1>3, <1>8 DEF e
<1> HIDE DEF acc, c
<1>11. acc.fresh /\ Inc(Last(acc.list).lastSeqNo) = list[p + 1].firstSeqNo
  BY <1>8, <1>9
<1>12. MergeStep(acc, list[p + 1]) = [list |-> c, fresh |-> FALSE]
  BY <1>10, <1>11 DEF MergeStep
<1> QED
  BY <1>7, <1>12 DEF Built, acc, b, a

\* The loop of sequencer_complete, when one pair of ranges touches.
LEMMA OnePairMerges ==
  ASSUME NEW list \in Lists, NEW p, TouchingAt(list) = {p}
  PROVE  MergePass(list) = Absorb(list, p)
<1> DEFINE n == Len(list)
           a == Absorb(list, p)
           f == [i \in 0 .. n |-> IF i <= p THEN Built(list, i, i # 0)
                                  ELSE Built(a, i - 1, i # p + 1)]
<1>1. /\ n \in Nat /\ p \in 1 .. n - 1 /\ p \in 1 .. n /\ p + 1 \in 1 .. n
      /\ Inc(list[p].lastSeqNo) = list[p + 1].firstSeqNo
      /\ \A i \in 1 .. n - 1 :
           i # p => Inc(list[i].lastSeqNo) # list[i + 1].firstSeqNo
  <2>1. n \in Nat
    BY ListTypes
  <2>2. \A i \in 1 .. n - 1 :
          i \in {p} <=> Inc(list[i].lastSeqNo) = list[i + 1].firstSeqNo
    BY DEF TouchingAt
  <2>3. p \in 1 .. n - 1
    BY DEF TouchingAt
  <2> HIDE DEF n
  <2> QED
    BY <2>1, <2>2, <2>3
<1>2. /\ a \in Lists /\ Len(a) = n - 1
      /\ \A j \in 1 .. n - 1 : j > p => a[j] = list[j + 1]
  <2>1. \A j \in 1 .. n - 1 : j > p => ~ (j < p) /\ j # p
    BY <1>1
  <2>2. p \in 1 .. Len(list) - 1
    BY <1>1
  <2>3. /\ a \in Lists /\ Len(a) = n - 1
        /\ \A j \in 1 .. n - 1 : a[j] = IF j < p THEN list[j]
                                        ELSE IF j = p
                                        THEN [list[p] EXCEPT !.lastSeqNo = list[p + 1].lastSeqNo]
                                        ELSE list[j + 1]
    BY <2>2, AbsorbElements
  <2> HIDE DEF a, n
  <2> QED
    BY <2>1, <2>3
<1> HIDE DEF a, n
<1>3. ASSUME NEW i \in 0 .. n
      PROVE  f[i] = IF i = 0 THEN [list |-> << >>, fresh |-> FALSE]
                             ELSE MergeStep(f[i - 1], list[i])
  <2>1. f[i] = IF i <= p THEN Built(list, i, i # 0)
               ELSE Built(a, i - 1, i # p + 1)
    OBVIOUS
  <2>2. i # 0 => f[i - 1] = IF i - 1 <= p THEN Built(list, i - 1, i - 1 # 0)
                            ELSE Built(a, (i - 1) - 1, i - 1 # p + 1)
    <3>1. i # 0 => i - 1 \in 0 .. n
      BY <1>1
    <3> QED
      BY <3>1
  <2> HIDE DEF f
  <2>3. CASE i = 0
    <3>1. SubSeq(list, 1, 0) = << >> /\ i <= p
      BY <1>1, <2>3, SubSeqEmpty
    <3> QED
      BY <2>1, <2>3, <3>1 DEF Built
  <2>4. CASE i # 0 /\ i <= p
    <3>1. /\ i \in 1 .. Len(list) /\ i - 1 <= p /\ i <= p /\ (i # 0) = TRUE
          /\ i - 1 # 0 => i > 1 /\ i - 1 \in 1 .. n - 1 /\ i - 1 # p
                           /\ (i - 1) + 1 = i
      BY <1>1, <2>4 DEF n
    <3> DEFINE fresh == i - 1 # 0
    <3>2. /\ fresh \in BOOLEAN
          /\ fresh => i > 1 /\ Inc(list[i - 1].lastSeqNo) # list[i].firstSeqNo
      BY <1>1, <3>1
    <3>3. f[i - 1] = Built(list, i - 1, fresh) /\ f[i] = Built(list, i, TRUE)
      BY <2>1, <2>2, <2>4, <3>1
    <3> HIDE DEF fresh
    <3>4. MergeStep(Built(list, i - 1, fresh), list[i]) = Built(list, i, TRUE)
      BY ONLY list \in Lists, <3>1, <3>2, StepAppends
    <3> QED
      BY <2>4, <3>3, <3>4
  <2>5. CASE i = p + 1
    <3>1. /\ i # 0 /\ ~ (i <= p) /\ i - 1 = p /\ i - 1 <= p
          /\ (i - 1 # 0) = TRUE /\ (i # p + 1) = FALSE
      BY <1>1, <2>5
    <3>2. f[i - 1] = Built(list, p, TRUE) /\ f[i] = Built(a, p, FALSE)
      BY <2>1, <2>2, <3>1
    <3>3. p \in 1 .. Len(list) - 1
      BY <1>1 DEF n
    <3>4. MergeStep(Built(list, p, TRUE), list[p + 1]) = Built(a, p, FALSE)
      BY <1>1, <3>3, StepAbsorbs DEF a
    <3> QED
      BY <2>5, <3>1, <3>2, <3>4
  <2>6. CASE i > p + 1
    <3> DEFINE k == i - 1
               fresh == k # p + 1
    <3>1. /\ i # 0 /\ ~ (i <= p) /\ ~ (k <= p) /\ (i # p + 1) = TRUE
          /\ k \in 1 .. n - 1 /\ k \in 1 .. Len(a) /\ k > p /\ k + 1 = i
          /\ k # p
          /\ fresh => k > 1 /\ k - 1 > p /\ k - 1 \in 1 .. n - 1
                      /\ (k - 1) + 1 = k
      BY <1>1, <1>2, <2>6
    <3>2. f[i - 1] = Built(a, k - 1, fresh) /\ f[i] = Built(a, k, TRUE)
      BY <2>1, <2>2, <3>1
    <3>3. a[k] = list[i]
      BY <1>2, <3>1
    <3>4. /\ fresh \in BOOLEAN
          /\ fresh => k > 1 /\ Inc(a[k - 1].lastSeqNo) # a[k].firstSeqNo
      <4>1. fresh => a[k - 1] = list[k]
        BY <1>2, <3>1
      <4>2. Inc(list[k].lastSeqNo) # list[i].firstSeqNo
        BY <1>1, <3>1
      <4> QED
        BY <3>1, <3>3, <4>1, <4>2
    <3> HIDE DEF fresh, k
    <3>5. MergeStep(Built(a, k - 1, fresh), a[k]) = Built(a, k, TRUE)
      BY ONLY <1>2, <3>1, <3>4, StepAppends
    <3> QED
      BY <3>1, <3>2, <3>3, <3>5
  <2> QED
    BY <2>3, <2>4, <2>5, <2>6, <1>1
<1>4. f = [i \in 0 .. n |-> IF i = 0 THEN [list |-> << >>, fresh |-> FALSE]
                                     ELSE MergeStep(f[i - 1], list[i])]
  BY <1>3
<1>5. f[n] = Built(a, n - 1, n # p + 1)
  BY <1>1
<1> HIDE DEF f
<1>6. MergeLoop(list) = f
  BY ONLY <1>1, <1>4, MergeLoopEquation DEF n
<1>7. MergePass(list) = SubSeq(a, 1, n - 1)
  BY <1>5, <1>6 DEF MergePass, Built, n
<1> QED
  BY <1>2, <1>7, SubSeqFull DEF Lists, a

\* Merging every element with one successor at most merges the touching pair
\* of a list that has one at most.
LEMMA PassMergesTouching ==
  ASSUME NEW list \in Lists, NEW p, TouchingAt(list) \subseteq {p}
  PROVE  MergePass(list) = MergeTouching(list)
<1>1. CASE TouchingAt(list) = {}
  BY <1>1, NothingMerges DEF MergeTouching
<1>2. CASE TouchingAt(list) = {p}
  <2>1. {p} \in SUBSET Nat /\ {p} # {}
    BY <1>2, ListTypes DEF TouchingAt
  <2>2. Min({p}) = p
    BY <2>1, MinProperties
  <2> QED
    BY <1>2, <2>2, OnePairMerges DEF MergeTouching
<1> QED
  BY <1>1, <1>2

\* Which numbers no element claims: those at least two below all covered ones.
LEMMA UnclaimedIsBelow ==
  ASSUME NEW list \in Lists, GapsBetween(list), list # << >>,
         NEW n \in Nat, n < UINT32_MAX, n \notin Covered(list)
  PROVE  Claims(list, n) = {} <=> \A m \in Covered(list) : n + 1 < m
<1>1. /\ Len(list) \in Nat /\ Len(list) > 0 /\ DOMAIN list = 1 .. Len(list)
      /\ \A i \in 1 .. Len(list) : /\ list[i].firstSeqNo \in Nat
                                   /\ list[i].lastSeqNo \in Nat
                                   /\ list[i].firstSeqNo <= list[i].lastSeqNo
                                   /\ list[i].lastSeqNo < UINT32_MAX
  <2>1. Len(list) > 0
    BY EmptySeq DEF Lists
  <2> QED
    BY <2>1, ListTypes DEF GapsBetween
<1>2. \A i \in 1 .. Len(list) : n < list[i].firstSeqNo \/ list[i].lastSeqNo < n
  BY <1>1, CoveredMember
<1>3. \A i \in 1 .. Len(list) : /\ list[i].firstSeqNo \in Covered(list)
                                /\ list[i].lastSeqNo \in Covered(list)
  BY <1>1, CoveredMember
<1>4. ASSUME NEW i \in Claims(list, n), \A m \in Covered(list) : n + 1 < m
      PROVE  FALSE
  <2>1. i \in 1 .. Len(list)
    BY <1>1, <1>4 DEF Claims
  <2>2. n + 1 < list[i].firstSeqNo /\ n + 1 < list[i].lastSeqNo
    BY <2>1, <1>3, <1>4
  <2>3. CASE FollowsLast(list, i, n)
    BY <2>1, <2>2, <2>3, <1>1, PlainArithmetic DEF FollowsLast
  <2>4. CASE PrecedesFirst(list, i, n)
    BY <2>1, <2>2, <2>4, <1>1, PlainArithmetic DEF PrecedesFirst
  <2>5. CASE FitsAfter(list, i, n)
    BY <2>1, <2>2, <2>5, <1>1 DEF FitsAfter
  <2> QED
    BY <1>4, <2>3, <2>4, <2>5 DEF Claims
<1>5. ASSUME Claims(list, n) = {}, NEW m \in Covered(list)
      PROVE  n + 1 < m
  <2>1. \A i \in 1 .. Len(list) : ~ FitsAfter(list, i, n)
    BY <1>1, <1>5 DEF Claims
  <2>2. \A i \in 1 .. Len(list) : n < list[i].firstSeqNo
    <3> DEFINE B == { i \in 1 .. Len(list) : n < list[i].firstSeqNo }
    \* Some range starts above n: otherwise the last one would be followed.
    <3>1. Len(list) \in B
      <4>1. ~ (list[Len(list)].lastSeqNo < n)
        BY <2>1, <1>1 DEF FitsAfter
      <4> QED
        BY <4>1, <1>1, <1>2
    <3>2. Min(B) \in B /\ \A i \in B : Min(B) <= i
      <4>1. B \in SUBSET Nat /\ B # {}
        BY <3>1
      <4> HIDE DEF B
      <4> QED
        BY <4>1, MinProperties
    <3> DEFINE k == Min(B)
    <3> HIDE DEF k
    <3>3. k \in 1 .. Len(list) /\ n < list[k].firstSeqNo
      BY <3>2 DEF k
    <3>4. \A i \in 1 .. Len(list) : n < list[i].firstSeqNo => k <= i
      BY <3>2 DEF k
    <3> HIDE DEF B
    \* The first such range is the first of the list.
    <3>5. k = 1
      <4> SUFFICES ASSUME k # 1 PROVE FALSE
        OBVIOUS
      <4> DEFINE j == k - 1
      <4>1. j \in 1 .. Len(list) /\ j < Len(list) /\ j + 1 = k /\ j < k
        BY <3>3, <1>1
      <4> HIDE DEF j
      <4>2. ~ (n < list[j].firstSeqNo)
        BY <3>4, <4>1, <1>1
      <4>3. list[j].lastSeqNo < n
        BY <4>1, <4>2, <1>2
      <4>4. FitsAfter(list, j, n)
        BY <4>1, <4>3, <3>3 DEF FitsAfter
      <4> QED
        BY <4>1, <4>4, <2>1
    <3> TAKE i \in 1 .. Len(list)
    <3>6. CASE i = 1
      BY <3>3, <3>5, <3>6
    <3>7. CASE i > 1
      <4>1. 1 \in 1 .. Len(list) /\ list[1].lastSeqNo + 1 < list[i].firstSeqNo
        BY <3>7, <1>1 DEF GapsBetween
      <4> QED
        BY <4>1, <3>3, <3>5, <1>1
    <3> QED
      BY <3>6, <3>7, <1>1
  <2>3. 1 \in 1 .. Len(list) /\ ~ PrecedesFirst(list, 1, n)
    BY <1>1, <1>5 DEF Claims
  <2>4. n + 1 < list[1].firstSeqNo
    <3>1. n < list[1].firstSeqNo /\ list[1].firstSeqNo \in Nat
      BY <2>2, <2>3, <1>1
    <3>2. list[1].firstSeqNo - 1 # n
      BY <3>1, <2>3, PlainArithmetic DEF PrecedesFirst
    <3> QED
      BY <3>1, <3>2
  <2>5. PICK i \in 1 .. Len(list) : m \in Nat /\ list[i].firstSeqNo <= m
    BY <1>5, CoveredMember
  <2>6. list[1].firstSeqNo <= list[i].firstSeqNo
    <3>1. CASE i = 1
      BY <3>1, <1>1
    <3>2. CASE i > 1
      <4>1. list[1].lastSeqNo + 1 < list[i].firstSeqNo
        BY <3>2, <2>3, <1>1 DEF GapsBetween
      <4>2. list[1].firstSeqNo <= list[1].lastSeqNo
        BY <2>3, <1>1
      <4> QED
        BY <4>1, <4>2, <2>3, <1>1
    <3> QED
      BY <3>1, <3>2, <1>1
  <2> QED
    BY <2>3, <2>4, <2>5, <2>6, <1>1
<1> QED
  BY <1>4, <1>5

\* What sequencer_add makes of its list, when the number is not there yet.
LEMMA AddToListProperties ==
  ASSUME NEW list \in Lists, GapsBetween(list),
         NEW n \in Nat, n < UINT32_MAX, n \notin Covered(list)
  PROVE  /\ AddToList(list, n) \in Lists
         /\ Sorted(AddToList(list, n))
         /\ \E p : TouchingAt(AddToList(list, n)) \subseteq {p}
         /\ Covered(AddToList(list, n)) =
              IF list # << >> /\ \A m \in Covered(list) : n + 1 < m
              THEN Covered(list) ELSE Covered(list) \cup {n}
<1>1. /\ Len(list) \in Nat /\ DOMAIN list = 1 .. Len(list)
      /\ \A i \in 1 .. Len(list) : /\ list[i].firstSeqNo \in Nat
                                   /\ list[i].lastSeqNo \in Nat
                                   /\ list[i].firstSeqNo <= list[i].lastSeqNo
                                   /\ list[i].lastSeqNo < UINT32_MAX
  BY ListTypes DEF GapsBetween
<1>2. CASE list = << >>
  <2> DEFINE e == create_sequencer_range(n, n)
  <2>1. e \in sequencer_item_t /\ e.firstSeqNo = n /\ e.lastSeqNo = n
    BY Uint32Assumption DEF create_sequencer_range, sequencer_item_t, uint32
  <2>2. AddToList(list, n) = << e >>
    BY <1>2 DEF AddToList
  <2> HIDE DEF e
  <2>3. << e >> \in Lists /\ Len(<< e >>) = 1 /\ << e >>[1] = e
    BY <2>1 DEF Lists
  <2>4. Covered(list) = {}
    BY <1>2 DEF Covered
  <2>5. TouchingAt(<< e >>) = {}
    BY <2>3 DEF TouchingAt
  <2>6. Sorted(<< e >>)
    BY <2>1, <2>3 DEF Sorted
  <2>7. Covered(<< e >>) = {n}
    BY <2>1, <2>3, CoveredMember
  <2> QED
    BY <1>2, <2>2, <2>3, <2>4, <2>5, <2>6, <2>7
<1>3. CASE list # << >> /\ Claims(list, n) = {}
  <2>1. AddToList(list, n) = list
    BY <1>3 DEF AddToList
  <2> QED
    BY <1>3, <2>1, GapsAreSorted, UnclaimedIsBelow
<1>4. CASE list # << >> /\ Claims(list, n) # {}
  <2> DEFINE i == Min(Claims(list, n))
  <2>1. i \in Claims(list, n)
    <3>1. Claims(list, n) \in SUBSET Nat
      BY <1>1 DEF Claims
    <3> QED
      BY <1>4, <3>1, MinProperties
  <2>2. AddToList(list, n) = ApplyClaim(list, i, n)
    BY <1>4 DEF AddToList
  <2> HIDE DEF i
  <2>3. i \in 1 .. Len(list)
    BY <1>1, <2>1 DEF Claims
  <2>4. list[i].lastSeqNo < n \/ n < list[i].firstSeqNo
    <3> DEFINE a == list[i].firstSeqNo
               b == list[i].lastSeqNo
    <3>1. a \in Nat /\ b \in Nat /\ n \in Nat
      BY <2>3, <1>1
    <3>2. ~ (a <= n /\ n <= b)
      BY <2>3, <1>1, CoveredMember
    <3> HIDE DEF a, b
    <3>3. b < n \/ n < a
      BY <3>1, <3>2
    <3> QED
      BY <3>3 DEF a, b
  <2>5. ASSUME i < Len(list)
        PROVE  /\ i + 1 \in 1 .. Len(list)
               /\ list[i + 1].firstSeqNo \in Nat
               /\ list[i].lastSeqNo + 1 < list[i + 1].firstSeqNo
    BY <2>3, <2>5, <1>1 DEF GapsBetween
  <2>6. ~ \A m \in Covered(list) : n + 1 < m
    BY <1>4, UnclaimedIsBelow
  <2>7. CASE FollowsLast(list, i, n)
    <3>1. n = list[i].lastSeqNo + 1
      BY <2>3, <2>7, <1>1, PlainArithmetic DEF FollowsLast
    <3>2. ApplyClaim(list, i, n) = ExtendLast(list, i, n)
      BY <2>7 DEF ApplyClaim
    <3>3. CASE i < Len(list) /\ Dec(list[i + 1].firstSeqNo) = n
      <4>1. list[i + 1].firstSeqNo - 1 = n
        BY <3>1, <3>3, <2>5, PlainArithmetic
      <4>2. i \in 1 .. Len(list) - 1
        BY <3>3, <2>3, <1>1
      <4>3. list[i].lastSeqNo + 1 .. list[i + 1].firstSeqNo - 1 = {n}
        BY <3>1, <4>1
      <4>4. ExtendLast(list, i, n) = Absorb(list, i)
        BY <3>3 DEF ExtendLast
      <4>5. TouchingAt(list) \subseteq {i} /\ Sorted(list)
        BY GapsAreSorted
      <4>6. /\ Absorb(list, i) \in Lists
            /\ GapsBetween(Absorb(list, i))
            /\ Covered(Absorb(list, i)) = Covered(list) \cup {n}
        BY <4>2, <4>3, <4>5, AbsorbProperties
      <4>7. /\ Sorted(Absorb(list, i)) /\ TouchingAt(Absorb(list, i)) = {}
        BY <4>6, GapsAreSorted
      <4> QED
        BY <2>2, <2>6, <3>2, <4>4, <4>6, <4>7
    <3>4. CASE ~ (i < Len(list) /\ Dec(list[i + 1].firstSeqNo) = n)
      <4> DEFINE r == [list EXCEPT ![i].lastSeqNo = n]
      <4>1. i < Len(list) => n + 1 < list[i + 1].firstSeqNo
        <5> SUFFICES ASSUME i < Len(list) PROVE n + 1 < list[i + 1].firstSeqNo
          OBVIOUS
        <5>1. n < list[i + 1].firstSeqNo /\ list[i + 1].firstSeqNo \in Nat
          BY <2>5, <3>1
        <5>2. list[i + 1].firstSeqNo - 1 # n
          BY <5>1, <3>4, PlainArithmetic
        <5> QED
          BY <5>1, <5>2
      <4>2. ExtendLast(list, i, n) = r
        BY <3>4 DEF ExtendLast
      <4>3. r \in Lists /\ GapsBetween(r) /\ Covered(r) = Covered(list) \cup {n}
        BY <2>3, <3>1, <4>1, ExtendUp
      <4> HIDE DEF r
      <4>4. Sorted(r) /\ TouchingAt(r) = {}
        BY <4>3, GapsAreSorted
      <4> QED
        BY <2>2, <2>6, <3>2, <4>2, <4>3, <4>4
    <3> QED
      BY <3>3, <3>4
  <2>8. CASE ~ FollowsLast(list, i, n) /\ PrecedesFirst(list, i, n)
    <3>1. n = list[i].firstSeqNo - 1
      <4>1. list[i].firstSeqNo # 0
        BY <2>3, <2>8, <1>1, PlainArithmetic DEF PrecedesFirst
      <4> QED
        BY <2>3, <2>8, <4>1, <1>1, PlainArithmetic DEF PrecedesFirst
    <3>2. ApplyClaim(list, i, n) = ExtendFirst(list, i, n)
      BY <2>8 DEF ApplyClaim
    <3>3. ASSUME i > 1
          PROVE  /\ i - 1 \in 1 .. Len(list) - 1
                 /\ i - 1 \in 1 .. Len(list) /\ i - 1 + 1 = i
                 /\ list[i - 1].lastSeqNo \in Nat
                 /\ list[i - 1].lastSeqNo < UINT32_MAX
                 /\ list[i - 1].lastSeqNo + 1 < list[i].firstSeqNo
      <4>1. /\ i - 1 \in 1 .. Len(list) - 1
            /\ i - 1 \in 1 .. Len(list) /\ i - 1 + 1 = i /\ i - 1 < i
        BY <2>3, <3>3, <1>1
      <4>2. list[i - 1].lastSeqNo + 1 < list[i].firstSeqNo
        BY <2>3, <4>1, <1>1 DEF GapsBetween
      <4> QED
        BY <4>1, <4>2, <1>1
    <3>4. CASE i > 1 /\ Inc(list[i - 1].lastSeqNo) = n
      <4>1. list[i - 1].lastSeqNo + 1 = n
        BY <3>3, <3>4, PlainArithmetic
      <4>2. list[i - 1].lastSeqNo + 1 .. list[i - 1 + 1].firstSeqNo - 1 = {n}
        BY <3>1, <3>3, <3>4, <4>1
      <4>3. ExtendFirst(list, i, n) = Absorb(list, i - 1)
        BY <3>4 DEF ExtendFirst
      <4>4. TouchingAt(list) \subseteq {i - 1} /\ Sorted(list)
        BY GapsAreSorted
      <4>5. /\ Absorb(list, i - 1) \in Lists
            /\ GapsBetween(Absorb(list, i - 1))
            /\ Covered(Absorb(list, i - 1)) = Covered(list) \cup {n}
        BY <3>3, <3>4, <4>2, <4>4, AbsorbProperties
      <4>6. /\ Sorted(Absorb(list, i - 1)) /\ TouchingAt(Absorb(list, i - 1)) = {}
        BY <4>5, GapsAreSorted
      <4> QED
        BY <2>2, <2>6, <3>2, <4>3, <4>5, <4>6
    <3>5. CASE ~ (i > 1 /\ Inc(list[i - 1].lastSeqNo) = n)
      <4> DEFINE r == [list EXCEPT ![i].firstSeqNo = n]
      <4>1. i > 1 => list[i - 1].lastSeqNo + 1 < n
        <5> SUFFICES ASSUME i > 1 PROVE list[i - 1].lastSeqNo + 1 < n
          OBVIOUS
        <5>1. list[i - 1].lastSeqNo \in Nat /\ list[i].firstSeqNo \in Nat
          BY <3>3, <2>3, <1>1
        <5>2. list[i - 1].lastSeqNo + 1 # n
          BY <3>3, <3>5, PlainArithmetic
        <5>3. list[i - 1].lastSeqNo + 1 < list[i].firstSeqNo
          BY <3>3
        <5> QED
          BY <5>1, <5>2, <5>3, <3>1
      <4>2. ExtendFirst(list, i, n) = r
        BY <3>5 DEF ExtendFirst
      <4>3. r \in Lists /\ GapsBetween(r) /\ Covered(r) = Covered(list) \cup {n}
        BY <2>3, <3>1, <4>1, ExtendDown
      <4> HIDE DEF r
      <4>4. Sorted(r) /\ TouchingAt(r) = {}
        BY <4>3, GapsAreSorted
      <4> QED
        BY <2>2, <2>6, <3>2, <4>2, <4>3, <4>4
    <3> QED
      BY <3>4, <3>5
  <2>9. CASE /\ ~ FollowsLast(list, i, n) /\ ~ PrecedesFirst(list, i, n)
             /\ FitsAfter(list, i, n)
    <3>1. ApplyClaim(list, i, n) = InsertAfter(list, i, n)
      BY <2>9 DEF ApplyClaim
    <3>2. /\ list[i].lastSeqNo < n
          /\ i < Len(list) => n < list[i + 1].firstSeqNo
      BY <2>9 DEF FitsAfter
    <3>3. list[i].lastSeqNo + 1 < n
      <4>1. list[i].lastSeqNo + 1 # n
        BY <2>3, <2>9, <1>1, PlainArithmetic DEF FollowsLast
      <4> QED
        BY <3>2, <4>1, <2>3, <1>1
    <3> DEFINE r == InsertAfter(list, i, n)
    <3>4. /\ r \in Lists
          /\ Sorted(r)
          /\ TouchingAt(r) \subseteq {i + 1}
          /\ Covered(r) = Covered(list) \cup {n}
      BY <2>3, <3>2, <3>3, InsertAfterProperties
    <3>5. AddToList(list, n) = r
      BY <2>2, <3>1
    <3> HIDE DEF r
    <3> QED
      BY <2>6, <3>4, <3>5
  <2> QED
    BY <2>1, <2>7, <2>8, <2>9 DEF Claims
<1> QED
  BY <1>2, <1>3, <1>4

-----------------------------------------------------------------------------
(***************************************************************************)
(* Lists and the sets of numbers they cover.                               *)
(***************************************************************************)

\* Only the empty list covers nothing.
LEMMA EmptyCovered ==
  ASSUME NEW list \in Lists, GapsBetween(list)
  PROVE  Covered(list) = {} <=> list = << >>
<1>1. ASSUME list # << >> PROVE Covered(list) # {}
  <2>1. 1 \in 1 .. Len(list)
    BY <1>1, EmptySeq DEF Lists
  <2>2. list[1].firstSeqNo \in Nat /\ list[1].firstSeqNo <= list[1].lastSeqNo
    BY <2>1, ListTypes DEF GapsBetween
  <2> QED
    BY <2>1, <2>2, CoveredMember
<1> QED
  BY <1>1 DEF Covered

\* One range from 0 to e is what a list with gaps looks like that covers
\* exactly 0 .. e.
LEMMA SingleRange ==
  ASSUME NEW list \in Lists, GapsBetween(list), NEW e \in uint32
  PROVE  (Len(list) = 1 /\ list[1] = create_sequencer_range(0, e))
           <=> Covered(list) = 0 .. e
<1>1. /\ Len(list) \in Nat /\ DOMAIN list = 1 .. Len(list) /\ e \in Nat
      /\ \A i \in 1 .. Len(list) : /\ list[i] \in sequencer_item_t
                                   /\ list[i].firstSeqNo \in Nat
                                   /\ list[i].lastSeqNo \in Nat
                                   /\ list[i].firstSeqNo <= list[i].lastSeqNo
  BY ListTypes, Uint32Assumption DEF GapsBetween, uint32
<1>2. ASSUME Len(list) = 1, list[1] = create_sequencer_range(0, e)
      PROVE  Covered(list) = 0 .. e
  <2>1. list[1].firstSeqNo = 0 /\ list[1].lastSeqNo = e
    BY <1>2 DEF create_sequencer_range
  <2>2. \A k : k \in Covered(list) <=> k \in Nat /\ 0 <= k /\ k <= e
    <3>1. 1 \in 1 .. Len(list) /\ \A i \in 1 .. Len(list) : i = 1
      BY <1>2
    <3> QED
      BY <2>1, <3>1, CoveredMember
  <2>3. \A k : k \in 0 .. e <=> k \in Nat /\ 0 <= k /\ k <= e
    BY <1>1
  <2> QED
    BY <2>2, <2>3
<1>3. ASSUME Covered(list) = 0 .. e
      PROVE  Len(list) = 1 /\ list[1] = create_sequencer_range(0, e)
  <2>1. 0 \in Covered(list) /\ e \in Covered(list)
    BY <1>1, <1>3
  <2>2. 1 \in 1 .. Len(list)
    BY <1>1, <2>1, CoveredMember
  <2>3. /\ list[1].firstSeqNo \in Covered(list)
        /\ list[1].lastSeqNo \in Covered(list)
    BY <1>1, <2>2, CoveredMember
  \* A second range would leave a number of 0 .. e uncovered.
  <2>4. Len(list) = 1
    <3> SUFFICES ASSUME Len(list) # 1 PROVE FALSE
      OBVIOUS
    <3>1. 2 \in 1 .. Len(list)
      BY <1>1, <2>2
    <3>2. list[1].lastSeqNo + 1 < list[2].firstSeqNo
      BY <1>1, <2>2, <3>1 DEF GapsBetween
    <3> DEFINE k == list[1].lastSeqNo + 1
    <3>3. list[2].firstSeqNo \in Covered(list)
      BY <1>1, <3>1, CoveredMember
    <3>4. k \in Covered(list)
      BY <1>1, <1>3, <2>2, <3>1, <3>2, <3>3
    <3>5. PICK i \in 1 .. Len(list) : /\ list[i].firstSeqNo <= k
                                      /\ k <= list[i].lastSeqNo
      BY <3>4, CoveredMember
    <3>6. i # 1
      BY <1>1, <2>2, <3>5
    <3>7. CASE i = 2
      BY <1>1, <3>1, <3>2, <3>5, <3>7
    <3>8. CASE i > 2
      <4>1. list[2].lastSeqNo + 1 < list[i].firstSeqNo
        BY <1>1, <3>1, <3>8 DEF GapsBetween
      <4>2. list[2].firstSeqNo <= list[2].lastSeqNo
        BY <1>1, <3>1
      <4> DEFINE a == list[2].firstSeqNo
                 b == list[2].lastSeqNo
                 c == list[i].firstSeqNo
      <4>3. a \in Nat /\ b \in Nat
        BY <1>1, <3>1
      <4>4. c \in Nat
        BY <1>1
      <4>5. k \in Nat
        BY <1>1, <3>1
      <4>6. k < a
        BY <3>2
      <4>7. a <= b /\ b + 1 < c /\ c <= k
        BY <3>5, <4>1, <4>2
      <4> HIDE DEF a, b, c, k
      <4> QED
        BY ONLY <4>3, <4>4, <4>5, <4>6, <4>7
    <3> QED
      BY <1>1, <3>6, <3>7, <3>8
  <2>5. list[1].firstSeqNo = 0 /\ list[1].lastSeqNo = e
    <3>1. /\ list[1].firstSeqNo <= 0
          /\ e <= list[1].lastSeqNo
      BY <1>1, <2>1, <2>4, CoveredMember
    <3>2. list[1].lastSeqNo <= e
      BY <1>1, <1>3, <2>3
    <3> QED
      BY <1>1, <2>2, <3>1, <3>2
  <2>6. list[1] \in sequencer_item_t
    BY <1>1, <2>2
  <2> QED
    BY <2>4, <2>5, <2>6 DEF create_sequencer_range, sequencer_item_t
<1> QED
  BY <1>2, <1>3

\* What sequencer_add does to a sequencer whose ranges have gaps: the list stays
\* sorted, at most one pair of ranges touches, and at most the number is added.
LEMMA AddProperties ==
  ASSUME NEW s \in sequencer_t, GapsBetween(s.seq),
         NEW n \in Nat, n < UINT32_MAX, NEW isLast \in BOOLEAN,
         NEW list, list = sequencer_add(s, n, isLast).seq
  PROVE  /\ list \in Lists
         /\ Sorted(list)
         /\ \E p : TouchingAt(list) \subseteq {p}
         /\ Covered(list) = IF /\ Covered(s.seq) # {}
                               /\ \A m \in Covered(s.seq) : n + 1 < m
                            THEN Covered(s.seq) ELSE Covered(s.seq) \cup {n}
<1> DEFINE old == s.seq
<1>1. old \in Lists /\ GapsBetween(old)
  BY DEF sequencer_t, Lists
<1>2. sequencer_check(s, n) <=> n \in Covered(old)
  BY DEF sequencer_check, Covered
<1>3. list = IF n \in Covered(old) THEN old ELSE AddToList(old, n)
  BY <1>2 DEF sequencer_add
<1>4. Covered(old) = {} <=> old = << >>
  BY <1>1, EmptyCovered
<1> HIDE DEF old
<1>5. CASE n \in Covered(old)
  <2>1. list = old /\ Sorted(old) /\ TouchingAt(old) \subseteq {0}
    BY <1>1, <1>3, <1>5, GapsAreSorted
  <2>2. ~ \A m \in Covered(old) : n + 1 < m
    BY <1>1, <1>5
  <2>3. Covered(old) \cup {n} = Covered(old)
    BY <1>5
  <2> QED
    BY <1>1, <2>1, <2>2, <2>3 DEF old
<1>6. CASE n \notin Covered(old)
  <2>1. /\ list \in Lists
        /\ Sorted(list)
        /\ \E p : TouchingAt(list) \subseteq {p}
        /\ Covered(list) = IF old # << >> /\ \A m \in Covered(old) : n + 1 < m
                           THEN Covered(old) ELSE Covered(old) \cup {n}
    BY <1>1, <1>3, <1>6, AddToListProperties
  <2> QED
    BY <1>4, <2>1 DEF old
<1> QED
  BY <1>5, <1>6

=============================================================================
