-------------------------- MODULE SequencerProofs ---------------------------
(***************************************************************************)
(* Proofs about the sequencer: its list of ranges stays sorted and merged, *)
(* never claims a number that did not arrive, loses only numbers below     *)
(* its first range, and implements the set of SequencerSet.                *)
(***************************************************************************)
EXTENDS SequencingLoop, SequencerLemmas

-----------------------------------------------------------------------------
(***************************************************************************)
(* One turn of the sequencing loop.                                        *)
(***************************************************************************)

\* The list after sequencer_add and the merging of sequencer_complete: the
\* number is recorded, unless it lies too far below the first range.
LEMMA TurnList ==
  ASSUME NEW s \in sequencer_t, GapsBetween(s.seq),
         NEW n \in SeqNos, NEW isLast \in BOOLEAN,
         NEW list, list = MergeTouching(sequencer_add(s, n, isLast).seq)
  PROVE  /\ list \in Lists
         /\ GapsBetween(list)
         /\ Covered(list) = IF /\ Covered(s.seq) # {}
                               /\ \A m \in Covered(s.seq) : n + 1 < m
                            THEN Covered(s.seq) ELSE Covered(s.seq) \cup {n}
<1> DEFINE new == sequencer_add(s, n, isLast).seq
<1>1. n \in Nat /\ n < UINT32_MAX
  BY NumPacketsAssumption, Uint32Assumption DEF SeqNos
<1>2. /\ new \in Lists
      /\ Sorted(new)
      /\ \E p : TouchingAt(new) \subseteq {p}
      /\ Covered(new) = IF /\ Covered(s.seq) # {}
                           /\ \A m \in Covered(s.seq) : n + 1 < m
                        THEN Covered(s.seq) ELSE Covered(s.seq) \cup {n}
  BY <1>1, AddProperties
<1> HIDE DEF new
<1>3. /\ MergeTouching(new) \in Lists
      /\ GapsBetween(MergeTouching(new))
      /\ Covered(MergeTouching(new)) = Covered(new)
  BY <1>2, MergeProperties
<1> QED
  BY <1>2, <1>3 DEF new

-----------------------------------------------------------------------------
(***************************************************************************)
(* The inductive invariant.                                                *)
(***************************************************************************)

\* What the functions of Sequencer keep by themselves.  That the numbers are
\* those of packets needs the rest of the invariant.
FieldTypes ==
  sequencer \in sequencer_t /\ finished \in BOOLEAN /\ added \subseteq SeqNos

\* The first number of all is recorded, and completion was reported for the
\* whole set 0 .. expectedLastSeqNo.
FirstIsRecorded == Covered(sequencer.seq) = {} => added = {}

FinishedIsWhole ==
  finished => Covered(sequencer.seq) = 0 .. sequencer.expectedLastSeqNo

SequencerInv ==
  FieldTypes /\ SortedGaps /\ CoveredIsAdded /\ LostIsBelow
  /\ FirstIsRecorded /\ FinishedIsWhole

\* What a turn does to the sequencer, in terms of the set it covers.
LEMMA TurnEffect ==
  ASSUME FieldTypes, SortedGaps, NEW n \in SeqNos, NEW isLast \in BOOLEAN,
         Turn(n, isLast)
  PROVE  /\ sequencer' \in sequencer_t
         /\ SortedGaps'
         /\ Covered(sequencer'.seq) =
              IF /\ Covered(sequencer.seq) # {}
                 /\ \A m \in Covered(sequencer.seq) : n + 1 < m
              THEN Covered(sequencer.seq) ELSE Covered(sequencer.seq) \cup {n}
         /\ sequencer'.expectedLastSeqNo =
              IF isLast THEN n ELSE sequencer.expectedLastSeqNo
         /\ finished' = (Covered(sequencer'.seq) = 0 .. sequencer'.expectedLastSeqNo)
         /\ finished' \in BOOLEAN
<1> DEFINE s == sequencer_add(sequencer, n, isLast)
           list == MergeTouching(s.seq)
<1>1. n \in uint32 /\ sequencer \in sequencer_t /\ GapsBetween(sequencer.seq)
  BY NumPacketsAssumption, Uint32Assumption DEF FieldTypes, SortedGaps, SeqNos, uint32
<1>2. /\ list \in Lists
      /\ GapsBetween(list)
      /\ Covered(list) =
           IF /\ Covered(sequencer.seq) # {}
              /\ \A m \in Covered(sequencer.seq) : n + 1 < m
           THEN Covered(sequencer.seq) ELSE Covered(sequencer.seq) \cup {n}
  BY <1>1, TurnList
<1>3. /\ s.maxSeqNo \in uint32 /\ s.expectedLastSeqNo \in uint32
      /\ s.expectedLastSeqNo = IF isLast THEN n ELSE sequencer.expectedLastSeqNo
  BY <1>1 DEF sequencer_add, sequencer_t
<1>4. sequencer' = [seq |-> list, maxSeqNo |-> s.maxSeqNo,
                    expectedLastSeqNo |-> s.expectedLastSeqNo]
  BY DEF Turn, sequencer_merge, sequencer_add
<1>5. finished' = sequencer_complete(s)
  BY DEF Turn
<1> HIDE DEF list
<1>6. sequencer_complete(s) <=>
        /\ Len(list) = 1
        /\ list[1] = create_sequencer_range(0, s.expectedLastSeqNo)
  BY DEF sequencer_complete, list
<1>7. sequencer_complete(s) \in BOOLEAN
  BY DEF sequencer_complete
<1> HIDE DEF s
<1>8. sequencer_complete(s) <=> Covered(list) = 0 .. s.expectedLastSeqNo
  BY <1>2, <1>3, <1>6, SingleRange
<1> QED
  BY <1>2, <1>3, <1>4, <1>5, <1>7, <1>8 DEF SortedGaps, sequencer_t, Lists

\* The invariant holds of the sequencer that sequencer_init returns ...
LEMMA InitInv == Init => SequencerInv
<1> SUFFICES ASSUME Init PROVE SequencerInv
  OBVIOUS
<1>1. sequencer.seq = << >> /\ added = {} /\ finished = FALSE
  BY DEF Init, sequencer_init
<1>2. sequencer \in sequencer_t
  BY Uint32Assumption DEF Init, sequencer_init, sequencer_t, uint32
<1>3. Covered(sequencer.seq) = {}
  BY <1>1 DEF Covered
<1>4. SortedGaps
  BY <1>1 DEF SortedGaps, GapsBetween
<1> QED
  BY <1>1, <1>2, <1>3, <1>4
     DEF SequencerInv, FieldTypes, CoveredIsAdded, LostIsBelow, FirstIsRecorded,
         FinishedIsWhole

\* ... and every turn of the loop preserves it.
LEMMA NextInv == SequencerInv /\ [Next]_vars => SequencerInv'
<1> SUFFICES ASSUME SequencerInv, [Next]_vars PROVE SequencerInv'
  OBVIOUS
<1> USE DEF SequencerInv
<1>1. ASSUME NEW n \in SeqNos, NEW isLast \in BOOLEAN, Turn(n, isLast)
      PROVE  SequencerInv'
  <2> DEFINE C == Covered(sequencer.seq)
             D == Covered(sequencer'.seq)
  <2>1. /\ sequencer' \in sequencer_t
        /\ SortedGaps'
        /\ D = IF C # {} /\ \A m \in C : n + 1 < m THEN C ELSE C \cup {n}
        /\ finished' = (D = 0 .. sequencer'.expectedLastSeqNo)
        /\ finished' \in BOOLEAN
    BY <1>1, TurnEffect
  <2>2. added' = added \cup {n}
    BY <1>1 DEF Turn
  <2>3. C \subseteq added /\ added \subseteq SeqNos
    BY DEF CoveredIsAdded, FieldTypes
  <2>4. /\ \A k \in added \ C : \A m \in C : k < m
        /\ C = {} => added = {}
    BY DEF LostIsBelow, FirstIsRecorded
  <2>5. CoveredIsAdded' /\ FieldTypes' /\ FirstIsRecorded' /\ FinishedIsWhole'
    <3> HIDE DEF C
    <3> QED
      BY <2>1, <2>2, <2>3, <2>4
         DEF CoveredIsAdded, FieldTypes, FirstIsRecorded, FinishedIsWhole
  <2>6. LostIsBelow'
    <3> HIDE DEF C, D
    <3>1. SeqNos \subseteq Nat
      BY NumPacketsAssumption DEF SeqNos
    <3> SUFFICES ASSUME NEW k \in added', k \notin D, NEW m \in D
                 PROVE  k < m
      BY DEF LostIsBelow, D
    <3>2. m \in Nat /\ k \in Nat
      BY <2>1, <2>2, <2>3, <3>1
    <3>3. CASE C # {} /\ \A l \in C : n + 1 < l
      <4>1. CASE k = n
        BY <2>1, <3>2, <3>3, <4>1
      <4>2. CASE k # n
        BY <2>1, <2>2, <2>4, <3>3, <4>2
      <4> QED
        BY <4>1, <4>2
    <3>4. CASE ~ (C # {} /\ \A l \in C : n + 1 < l)
      <4>1. D = C \cup {n} /\ k \in added \ C /\ k # n
        BY <2>1, <2>2, <3>4
      <4>2. PICK l \in C : ~ (n + 1 < l)
        BY <2>4, <3>4, <4>1
      <4>3. k < l /\ l \in Nat
        BY <2>3, <2>4, <3>1, <4>1
      <4>4. CASE m \in C
        BY <2>4, <4>1, <4>4
      <4>5. CASE m = n
        BY <3>2, <4>1, <4>2, <4>3, <4>5
      <4> QED
        BY <4>1, <4>4, <4>5
    <3> QED
      BY <3>3, <3>4
  <2> QED
    BY <2>1, <2>5, <2>6
<1>2. CASE UNCHANGED vars
  BY <1>2 DEF vars, FieldTypes, SortedGaps, CoveredIsAdded, LostIsBelow,
              FirstIsRecorded, FinishedIsWhole
<1> QED
  BY <1>1, <1>2 DEF Next

-----------------------------------------------------------------------------
(***************************************************************************)
(* The theorems.                                                           *)
(***************************************************************************)

\* Whatever numbers arrive in whatever order, the invariant holds.
THEOREM SequencerInvariance == Spec => []SequencerInv
BY InitInv, NextInv, PTL DEF Spec

\* The ranges of the list stay sorted, disjoint and merged.
THEOREM RangesStaySorted == Spec => []SortedGaps
<1>1. SequencerInv => SortedGaps
  BY DEF SequencerInv
<1> QED
  BY <1>1, SequencerInvariance, PTL

\* The loop of sequencer_complete merges whatever sequencer_add leaves to be
\* merged, although it lets no range absorb two others.
THEOREM OnePassIsEnough == Spec => []OnePassMerges
<1>1. SequencerInv => OnePassMerges
  <2> SUFFICES ASSUME SequencerInv, NEW n \in SeqNos
               PROVE  LET list == sequencer_add(sequencer, n, FALSE).seq
                      IN  MergePass(list) = MergeTouching(list)
    BY DEF OnePassMerges
  <2> DEFINE list == sequencer_add(sequencer, n, FALSE).seq
  <2>1. n \in Nat /\ n < UINT32_MAX
    BY NumPacketsAssumption, Uint32Assumption DEF SeqNos
  <2>2. sequencer \in sequencer_t /\ GapsBetween(sequencer.seq)
    BY DEF SequencerInv, FieldTypes, SortedGaps
  <2>3. list \in Lists /\ \E p : TouchingAt(list) \subseteq {p}
    <3>1. list = sequencer_add(sequencer, n, FALSE).seq /\ FALSE \in BOOLEAN
      OBVIOUS
    <3> HIDE DEF list
    <3> QED
      BY ONLY <2>1, <2>2, <3>1, AddProperties
  <2> HIDE DEF list
  <2>4. MergePass(list) = MergeTouching(list)
    BY <2>3, PassMergesTouching
  <2> QED
    BY <2>4 DEF list
<1> QED
  BY <1>1, SequencerInvariance, PTL

\* No number is in a range that was not passed to sequencer_add.
THEOREM NothingInvented == Spec => []CoveredIsAdded
<1>1. SequencerInv => CoveredIsAdded
  BY DEF SequencerInv
<1> QED
  BY <1>1, SequencerInvariance, PTL

\* The numbers sequencer_add drops are below all the ones it keeps.
THEOREM LostNumbersAreBelow == Spec => []LostIsBelow
<1>1. SequencerInv => LostIsBelow
  BY DEF SequencerInv
<1> QED
  BY <1>1, SequencerInvariance, PTL

\* Once number 0 is recorded, as it is at once when packet 0 arrives first,
\* sequencer_add loses nothing: the branch it lacks is never needed.
THEOREM NothingLostAfterZero == Spec => [](0 \in Covered(sequencer.seq) => AddedIsCovered)
<1>1. SequencerInv => (0 \in Covered(sequencer.seq) => AddedIsCovered)
  <2> SUFFICES ASSUME SequencerInv, 0 \in Covered(sequencer.seq),
                      NEW n \in added, n \notin Covered(sequencer.seq)
               PROVE  FALSE
    BY DEF AddedIsCovered
  <2>1. n < 0
    BY DEF SequencerInv, LostIsBelow
  <2>2. n \in Nat
    BY NumPacketsAssumption, Uint32Assumption DEF SequencerInv, FieldTypes, SeqNos
  <2> QED BY <2>1, <2>2
<1> QED BY <1>1, SequencerInvariance, PTL

\* sequencer_complete does not report completion early.
THEOREM CompletionIsSound == Spec => []NoPrematureFinish
<1>1. SequencerInv => NoPrematureFinish
  BY DEF SequencerInv, FinishedIsWhole, CoveredIsAdded, NoPrematureFinish
<1> QED
  BY <1>1, SequencerInvariance, PTL

\* The largest number and the expected last one were added.  The first is not
\* below the second, and as long as no number was flagged as last no number
\* added is above it.
MaxIsAdded ==
  IF added = {} THEN sequencer.maxSeqNo = 0 ELSE sequencer.maxSeqNo \in added

MaxIsLargest ==
  IF sequencer.expectedLastSeqNo = UINT32_MAX
  THEN \A m \in added : m <= sequencer.maxSeqNo
  ELSE /\ sequencer.expectedLastSeqNo \in added
       /\ sequencer.expectedLastSeqNo <= sequencer.maxSeqNo

NumbersInv == SequencerInv /\ MaxIsAdded /\ MaxIsLargest

\* Every turn keeps it.
LEMMA MaxInv == NumbersInv /\ [Next]_vars => MaxIsAdded' /\ MaxIsLargest'
<1> SUFFICES ASSUME SequencerInv, MaxIsAdded, MaxIsLargest, [Next]_vars
             PROVE  MaxIsAdded' /\ MaxIsLargest'
  BY DEF NumbersInv
<1>1. ASSUME NEW n \in SeqNos, NEW isLast \in BOOLEAN, Turn(n, isLast)
      PROVE  MaxIsAdded' /\ MaxIsLargest'
  <2>1. /\ n \in Nat /\ n # UINT32_MAX /\ n < UINT32_MAX
        /\ sequencer.maxSeqNo \in Nat /\ sequencer.expectedLastSeqNo \in Nat
        /\ added \subseteq Nat
    BY Uint32Assumption, NumPacketsAssumption
       DEF SequencerInv, FieldTypes, sequencer_t, uint32, SeqNos
  <2>2. /\ sequencer'.maxSeqNo =
             IF isLast \/ sequencer.maxSeqNo < n THEN n ELSE sequencer.maxSeqNo
        /\ sequencer'.expectedLastSeqNo =
             IF isLast THEN n ELSE sequencer.expectedLastSeqNo
        /\ added' = added \cup {n}
    BY <1>1 DEF Turn, sequencer_add, sequencer_merge
  <2>3. MaxIsAdded'
    <3>1. CASE isLast \/ sequencer.maxSeqNo < n
      BY <2>2, <3>1 DEF MaxIsAdded
    <3>2. CASE ~ (isLast \/ sequencer.maxSeqNo < n)
      BY <2>1, <2>2, <3>2 DEF MaxIsAdded
    <3> QED
      BY <3>1, <3>2
  <2>4. CASE isLast
    BY <2>1, <2>2, <2>3, <2>4 DEF MaxIsLargest
  <2>5. CASE ~ isLast
    BY <2>1, <2>2, <2>3, <2>5 DEF MaxIsLargest
  <2> QED
    BY <2>3, <2>4, <2>5
<1>2. CASE UNCHANGED vars
  BY <1>2 DEF vars, MaxIsAdded, MaxIsLargest
<1> QED
  BY <1>1, <1>2 DEF Next

\* Spec keeps the whole of it.
THEOREM NumbersInvariance == Spec => []NumbersInv
<1>1. Init => MaxIsAdded /\ MaxIsLargest
  BY DEF Init, sequencer_init, MaxIsAdded, MaxIsLargest
<1>2. Init => NumbersInv
  BY <1>1, InitInv DEF NumbersInv
<1>3. NumbersInv /\ [Next]_vars => NumbersInv'
  BY NextInv, MaxInv DEF NumbersInv
<1> QED
  BY <1>2, <1>3, PTL DEF Spec

\* The bounds of the ranges, the largest number and the expected last one are
\* numbers of packets: a "+ 1" or "- 1" that wrapped around leaves no trace in
\* the sequencer_t.  Both ends of a sorted range are covered, and what is
\* covered was added.
THEOREM SequencerTypes == Spec => []TypeOK
<1>1. NumbersInv => TypeOK
  <2> SUFFICES ASSUME NumbersInv PROVE TypeOK
    OBVIOUS
  <2> DEFINE list == sequencer.seq
             Packets == [firstSeqNo : SeqNos, lastSeqNo : SeqNos]
  <2>1. /\ sequencer \in sequencer_t /\ finished \in BOOLEAN
        /\ added \subseteq SeqNos
    BY DEF NumbersInv, SequencerInv, FieldTypes
  <2>2. list \in Seq(sequencer_item_t)
    BY <2>1 DEF sequencer_t
  <2>3. ASSUME NEW i \in DOMAIN list PROVE list[i] \in Packets
    <3>1. list[i] \in sequencer_item_t
      BY <2>2
    <3>2. /\ list[i].firstSeqNo \in Nat /\ list[i].lastSeqNo \in Nat
          /\ list[i] = [firstSeqNo |-> list[i].firstSeqNo,
                        lastSeqNo |-> list[i].lastSeqNo]
      BY <3>1, Uint32Assumption DEF sequencer_item_t, uint32
    <3>3. list[i].firstSeqNo <= list[i].lastSeqNo
      BY DEF NumbersInv, SequencerInv, SortedGaps, GapsBetween
    <3>4. /\ list[i].firstSeqNo \in RangeOf(list[i])
          /\ list[i].lastSeqNo \in RangeOf(list[i])
      BY <3>2, <3>3 DEF RangeOf
    <3>5. RangeOf(list[i]) \subseteq Covered(list)
      BY DEF Covered
    <3>6. Covered(list) \subseteq SeqNos
      BY <2>1 DEF NumbersInv, SequencerInv, CoveredIsAdded
    <3> QED
      BY <3>2, <3>4, <3>5, <3>6
  <2>4. list \in Seq(Packets)
    <3>1. Len(list) \in Nat /\ DOMAIN list = 1 .. Len(list)
          /\ list = [i \in 1 .. Len(list) |-> list[i]]
      BY <2>2
    <3> HIDE DEF list, Packets
    <3>2. [i \in 1 .. Len(list) |-> list[i]] \in Seq(Packets)
      BY <2>3, <3>1
    <3> QED
      BY <3>1, <3>2
  <2>5. sequencer.maxSeqNo \in SeqNos \cup {0}
    BY <2>1 DEF NumbersInv, MaxIsAdded
  <2>6. sequencer.expectedLastSeqNo \in SeqNos \cup {UINT32_MAX}
    BY <2>1 DEF NumbersInv, MaxIsLargest
  <2>7. sequencer = [seq |-> list, maxSeqNo |-> sequencer.maxSeqNo,
                     expectedLastSeqNo |-> sequencer.expectedLastSeqNo]
    BY <2>1 DEF sequencer_t
  <2> QED
    BY <2>1, <2>4, <2>5, <2>6, <2>7 DEF TypeOK
<1> QED
  BY <1>1, NumbersInvariance, PTL

\* The numbers asked for again are the gaps below the largest number, and a
\* last number that lowers it hides no gap sequencer_complete waits for.
THEOREM MissingNumbersAreTheGaps == Spec => []MissingIsEveryGap
<1>1. NumbersInv => MissingIsEveryGap
  <2> SUFFICES ASSUME NumbersInv PROVE MissingIsEveryGap
    OBVIOUS
  <2> DEFINE C == Covered(sequencer.seq)
             top == sequencer.maxSeqNo
             end == sequencer.expectedLastSeqNo
             asked == sequencer_missing(sequencer)
             gaps == { n \in SeqNos : n \notin C /\ \E m \in added : n < m }
  <2>1. /\ added \subseteq 0 .. NumPackets - 1 /\ NumPackets \in Nat
        /\ end # UINT32_MAX => end \in added /\ end <= top
    BY NumPacketsAssumption
       DEF NumbersInv, SequencerInv, FieldTypes, SeqNos, MaxIsLargest
  <2>2. end = UINT32_MAX => \A m \in added : m <= top
    BY DEF NumbersInv, MaxIsLargest
  <2>3. ASSUME NEW n \in Nat
        PROVE  sequencer_check(sequencer, n) <=> n \in C
    BY DEF sequencer_check, Covered
  <2>4. C = {} <=> sequencer.seq = << >>
    BY EmptyCovered
       DEF NumbersInv, SequencerInv, FieldTypes, SortedGaps, sequencer_t, Lists
  <2>5. CASE added = {}
    <3>1. sequencer.seq = << >>
      BY <2>4, <2>5 DEF NumbersInv, SequencerInv, CoveredIsAdded
    <3>2. asked = {}
      BY <3>1 DEF sequencer_missing
    <3>3. gaps = {}
      BY <2>5
    <3>4. end = UINT32_MAX
      BY <2>1, <2>5
    <3> QED
      BY <3>2, <3>3, <3>4 DEF MissingIsEveryGap
  <2>6. CASE added # {}
    <3>1. top \in added
      BY <2>6 DEF NumbersInv, MaxIsAdded
    <3>2. asked = { n \in 0 .. top - 1 : n \notin C }
      <4>1. sequencer.seq # << >>
        BY <2>4, <2>6 DEF NumbersInv, SequencerInv, FirstIsRecorded
      <4> HIDE DEF C, top
      <4>2. sequencer_missing(sequencer)
              = { n \in 0 .. top - 1 : ~ sequencer_check(sequencer, n) }
        BY <4>1 DEF sequencer_missing, top
      <4>3. \A n \in 0 .. top - 1 : n \in Nat
        BY <2>1, <3>1
      <4> QED
        BY <2>3, <4>2, <4>3
    <3> HIDE DEF C, top, end, asked
    <3>3. asked \subseteq gaps
      BY <2>1, <3>1, <3>2 DEF SeqNos
    <3>4. CASE end = UINT32_MAX
      <4>1. gaps \subseteq asked
        BY <2>1, <2>2, <3>1, <3>2, <3>4 DEF SeqNos
      <4> QED
        BY <3>3, <3>4, <4>1 DEF MissingIsEveryGap, C, end, asked
    <3>5. CASE end # UINT32_MAX
      <4>1. { n \in gaps : n < end } \subseteq asked
        <5>1. end \in Nat /\ top \in Nat /\ end <= top
          <6>1. end \in added /\ end <= top
            BY <2>1, <3>5
          <6>2. added \subseteq Nat
            BY <2>1
          <6> QED
            BY <3>1, <6>1, <6>2
        <5>2. ASSUME NEW n \in SeqNos, n < end PROVE n \in 0 .. top - 1
          BY <2>1, <5>1, <5>2 DEF SeqNos
        <5> QED
          BY <3>2, <5>2
      <4> QED
        BY <3>3, <3>5, <4>1 DEF MissingIsEveryGap, C, end, asked
    <3> QED
      BY <3>4, <3>5
  <2> QED
    BY <2>5, <2>6
<1> QED
  BY <1>1, NumbersInvariance, PTL

\* The list of ranges implements the set of recorded numbers of SequencerSet.
THEOREM SequencerImplementsSet == Spec => ImplementsSet
<1> USE DEF Set!Report, Set!Forgotten
<1>1. Init => Set!SetInit
  <2> SUFFICES ASSUME Init PROVE Set!SetInit
    OBVIOUS
  <2>1. /\ sequencer.seq = << >> /\ finished = FALSE
        /\ sequencer.expectedLastSeqNo = UINT32_MAX
    BY DEF Init, sequencer_init
  <2>2. Covered(sequencer.seq) = {}
    BY <2>1 DEF Covered
  <2> QED
    BY <2>1, <2>2 DEF Set!SetInit
<1>2. SequencerInv /\ [Next]_vars
        => [Set!SetNext]_<<Covered(sequencer.seq),
                           sequencer.expectedLastSeqNo, finished>>
  <2> SUFFICES ASSUME SequencerInv, [Next]_vars
               PROVE  \/ Set!SetNext
                      \/ UNCHANGED <<Covered(sequencer.seq),
                                     sequencer.expectedLastSeqNo, finished>>
    OBVIOUS
  <2>1. ASSUME NEW n \in SeqNos, NEW isLast \in BOOLEAN, Turn(n, isLast)
        PROVE  Set!SetNext
    <3>1. FieldTypes /\ SortedGaps
      BY DEF SequencerInv
    <3>2. Set!Report(n, isLast)
      BY <2>1, <3>1, TurnEffect DEF Turn
    <3> QED
      BY <3>2 DEF Set!SetNext, SeqNos
  <2>2. CASE UNCHANGED vars
    BY <2>2 DEF vars
  <2> QED
    BY <2>1, <2>2 DEF Next
<1> QED
  BY <1>1, <1>2, SequencerInvariance, PTL DEF Spec, ImplementsSet, Set!SetSpec

=============================================================================
