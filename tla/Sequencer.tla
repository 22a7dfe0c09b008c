------------------------------ MODULE Sequencer ------------------------------
(***************************************************************************)
(* The data structure of sequencer.c: a list of ranges of received         *)
(* sequence numbers, the largest number seen and the number expected to be *)
(* the last one.  The operators are the functions of the file; each one    *)
(* takes a sequencer_t and returns the sequencer_t the call leaves behind, *)
(* or the value it returns.                                                *)
(*                                                                         *)
(* Sequence numbers are uint32_t: Inc and Dec are the "+ 1" and "- 1" of   *)
(* the code and wrap.  UINT32_MAX is a constant so that TLC can meet the   *)
(* wrap-around with small numbers.                                         *)
(***************************************************************************)
EXTENDS Integers, SequencesExt

CONSTANT UINT32_MAX

ASSUME Uint32Assumption == UINT32_MAX \in Nat \ {0}

uint32 == 0 .. UINT32_MAX

Inc(n) == IF n = UINT32_MAX THEN 0 ELSE n + 1
Dec(n) == IF n = 0 THEN UINT32_MAX ELSE n - 1

sequencer_item_t == [firstSeqNo : uint32, lastSeqNo : uint32]

sequencer_t == [seq : Seq(sequencer_item_t),
                maxSeqNo : uint32,
                expectedLastSeqNo : uint32]

sequencer_init ==
  [seq |-> << >>, maxSeqNo |-> 0, expectedLastSeqNo |-> UINT32_MAX]

create_sequencer_range(first_seq, last_seq) ==
  [firstSeqNo |-> first_seq, lastSeqNo |-> last_seq]

-----------------------------------------------------------------------------
(***************************************************************************)
(* The set of numbers in the ranges of a list, and sequencer_check.        *)
(***************************************************************************)

RangeOf(item) == item.firstSeqNo .. item.lastSeqNo

Covered(list) == UNION { RangeOf(list[i]) : i \in DOMAIN list }

sequencer_check(s, seqNo) ==
  \E i \in DOMAIN s.seq : seqNo \in RangeOf(s.seq[i])

\* The ranges of a list are sorted and a number is missing between any two.
GapsBetween(list) ==
  /\ \A i \in DOMAIN list : /\ list[i].firstSeqNo <= list[i].lastSeqNo
                            /\ list[i].lastSeqNo < UINT32_MAX
  /\ \A i, j \in DOMAIN list :
        i < j => list[i].lastSeqNo + 1 < list[j].firstSeqNo

-----------------------------------------------------------------------------
(***************************************************************************)
(* The loop of sequencer_add stops at the first element that satisfies one *)
(* of three tests, in this order: the number follows the element's last    *)
(* one, it precedes its first one, or it lies strictly between the element *)
(* and its successor (beyond the element, when that is the last).  A       *)
(* number no element claims leaves the list as it was.                     *)
(***************************************************************************)

FollowsLast(list, i, seqNo) == Inc(list[i].lastSeqNo) = seqNo

\* Variant: no extension downwards.
NeverPrecedes(list, i, seqNo) == FALSE

PrecedesFirst(list, i, seqNo) == Dec(list[i].firstSeqNo) = seqNo

\* Variants: the successor is not looked at; nothing is appended at the end.
FitsAfterAnyway(list, i, seqNo) == list[i].lastSeqNo < seqNo

FitsBetweenOnly(list, i, seqNo) ==
  /\ i < Len(list)
  /\ list[i].lastSeqNo < seqNo
  /\ seqNo < list[i + 1].firstSeqNo

FitsAfter(list, i, seqNo) ==
  /\ list[i].lastSeqNo < seqNo
  /\ i < Len(list) => seqNo < list[i + 1].firstSeqNo

Claims(list, seqNo) ==
  { i \in DOMAIN list : \/ FollowsLast(list, i, seqNo)
                        \/ PrecedesFirst(list, i, seqNo)
                        \/ FitsAfter(list, i, seqNo) }

\* The element takes over its successor's end and the successor is unlinked.
Absorb(list, i) ==
  RemoveAt([list EXCEPT ![i].lastSeqNo = list[i + 1].lastSeqNo], i + 1)

\* Variant: the successor is merged without asking whether it touches.
ExtendOverGap(list, i, seqNo) ==
  IF i < Len(list) THEN Absorb(list, i)
                   ELSE [list EXCEPT ![i].lastSeqNo = seqNo]

\* Extend the element upwards and merge its successor into it.
ExtendLast(list, i, seqNo) ==
  IF i < Len(list) /\ Dec(list[i + 1].firstSeqNo) = seqNo
  THEN Absorb(list, i)
  ELSE [list EXCEPT ![i].lastSeqNo = seqNo]

\* Variant: the range is made to start one number too low.
ExtendFirstTooFar(list, i, seqNo) ==
  IF i > 1 /\ Inc(list[i - 1].lastSeqNo) = seqNo
  THEN Absorb(list, i - 1)
  ELSE [list EXCEPT ![i].firstSeqNo = Dec(seqNo)]

\* Extend the element downwards and merge its predecessor into it.
ExtendFirst(list, i, seqNo) ==
  IF i > 1 /\ Inc(list[i - 1].lastSeqNo) = seqNo
  THEN Absorb(list, i - 1)
  ELSE [list EXCEPT ![i].firstSeqNo = seqNo]

\* LinkedListInsertBefore the successor, or LinkedListAppend.
InsertAfter(list, i, seqNo) ==
  InsertAt(list, i + 1, create_sequencer_range(seqNo, seqNo))

ApplyClaim(list, i, seqNo) ==
  IF FollowsLast(list, i, seqNo) THEN ExtendLast(list, i, seqNo)
  ELSE IF PrecedesFirst(list, i, seqNo) THEN ExtendFirst(list, i, seqNo)
  ELSE InsertAfter(list, i, seqNo)

AddToList(list, seqNo) ==
  IF list = << >> THEN << create_sequencer_range(seqNo, seqNo) >>
  ELSE IF Claims(list, seqNo) = {} THEN list
  ELSE ApplyClaim(list, Min(Claims(list, seqNo)), seqNo)

\* Variant: the largest number follows the latest one.
AddForgetsMax(s, seqNo, isLast) ==
  [ seq |-> IF sequencer_check(s, seqNo) THEN s.seq
                                         ELSE AddToList(s.seq, seqNo),
    maxSeqNo |-> seqNo,
    expectedLastSeqNo |-> IF isLast THEN seqNo ELSE s.expectedLastSeqNo ]

sequencer_add(s, seqNo, isLast) ==
  [ seq |-> IF sequencer_check(s, seqNo) THEN s.seq
                                         ELSE AddToList(s.seq, seqNo),
    maxSeqNo |-> IF isLast \/ s.maxSeqNo < seqNo THEN seqNo ELSE s.maxSeqNo,
    expectedLastSeqNo |-> IF isLast THEN seqNo ELSE s.expectedLastSeqNo ]

-----------------------------------------------------------------------------
(***************************************************************************)
(* sequencer_complete first merges, then asks for a single range from 0 to *)
(* the expected last number.                                               *)
(*                                                                         *)
(* MergePass is the loop of the function: every element it visits absorbs  *)
(* its successor when the two touch, once, and the visit goes on behind    *)
(* what was absorbed.  A list that comes from sequencer_add has at most    *)
(* one touching pair, the range inserted right in front of another, and    *)
(* there the loop comes down to one absorption: MergeTouching.             *)
(***************************************************************************)

TouchingAt(list) ==
  { i \in 1 .. Len(list) - 1 : Inc(list[i].lastSeqNo) = list[i + 1].firstSeqNo }

\* Variant: the end of the absorbed range is lost.
MergeStepKeepsEnd(acc, item) ==
  IF acc.fresh /\ Inc(Last(acc.list).lastSeqNo) = item.firstSeqNo
  THEN [acc EXCEPT !.fresh = FALSE]
  ELSE [list |-> Append(acc.list, item), fresh |-> TRUE]

MergeStep(acc, item) ==
  IF acc.fresh /\ Inc(Last(acc.list).lastSeqNo) = item.firstSeqNo
  THEN [list  |-> [acc.list EXCEPT ![Len(acc.list)].lastSeqNo = item.lastSeqNo],
        fresh |-> FALSE]
  ELSE [list |-> Append(acc.list, item), fresh |-> TRUE]

MergeLoop(list) ==
  LET acc[i \in 0 .. Len(list)] ==
        IF i = 0 THEN [list |-> << >>, fresh |-> FALSE]
                 ELSE MergeStep(acc[i - 1], list[i])
  IN  acc

MergePass(list) == MergeLoop(list)[Len(list)].list

MergeTouching(list) ==
  IF TouchingAt(list) = {} THEN list
                           ELSE Absorb(list, Min(TouchingAt(list)))

\* What the call to sequencer_complete does to the list ...
sequencer_merge(s) == [s EXCEPT !.seq = MergeTouching(s.seq)]

\* Variant: the single range may start anywhere.
CompleteFromAnywhere(s) ==
  LET list == MergeTouching(s.seq)
  IN  Len(list) = 1 /\ list[1].lastSeqNo = s.expectedLastSeqNo

\* ... and what it returns.
sequencer_complete(s) ==
  LET list == MergeTouching(s.seq)
  IN  /\ Len(list) = 1
      /\ list[1] = create_sequencer_range(0, s.expectedLastSeqNo)

-----------------------------------------------------------------------------
(***************************************************************************)
(* The numbers sequencer_iterate_missing_segments hands to its callback,   *)
(* in increasing order.                                                    *)
(***************************************************************************)

\* Variant: one number too many.
MissingOneTooMany(s) ==
  IF s.seq = << >> THEN {}
  ELSE { n \in 0 .. s.maxSeqNo + 1 : ~ sequencer_check(s, n) }

sequencer_missing(s) ==
  IF s.seq = << >> THEN {}
  ELSE { n \in 0 .. s.maxSeqNo - 1 : ~ sequencer_check(s, n) }

=============================================================================
