--------------------------- MODULE SequencingLoop ---------------------------
(***************************************************************************)
(* The sequencer as sequencing_thread of ucp_server.c drives it: every     *)
(* number popped from the queue is added, then the loop condition calls    *)
(* sequencer_complete, and the loop ends when that returns TRUE.  Which    *)
(* numbers arrive, how often, in which order, and which of them are        *)
(* flagged as last is left open.                                           *)
(*                                                                         *)
(* A part of p bytes has at most p packets and p is a uint32_t, so the     *)
(* numbers 0 .. NumPackets - 1 stay below UINT32_MAX.                      *)
(***************************************************************************)
EXTENDS Sequencer

CONSTANT NumPackets

ASSUME NumPacketsAssumption == NumPackets \in Nat /\ NumPackets <= UINT32_MAX

VARIABLES sequencer,   \* the sequencer_t of the thread
          finished,    \* sequencer_complete returned TRUE: the loop has ended
          added        \* history: every number passed to sequencer_add

vars == <<sequencer, finished, added>>

SeqNos == 0 .. NumPackets - 1

Init ==
  /\ sequencer = sequencer_init
  /\ finished = FALSE
  /\ added = {}

\* One turn of the loop body followed by the evaluation of its condition.
Turn(seqNo, isLast) ==
  /\ ~ finished
  /\ LET s == sequencer_add(sequencer, seqNo, isLast)
     IN  /\ sequencer' = sequencer_merge(s)
         /\ finished' = sequencer_complete(s)
  /\ added' = added \cup {seqNo}

Next == \E seqNo \in SeqNos, isLast \in BOOLEAN : Turn(seqNo, isLast)

Spec == Init /\ [][Next]_vars

-----------------------------------------------------------------------------
(***************************************************************************)
(* Invariants.                                                             *)
(***************************************************************************)

\* The bounds of the ranges and the largest number are numbers of packets:
\* none of them is left over from a "+ 1" or "- 1" that wrapped around, and
\* none is UINT32_MAX, which marks that no last number is known.
TypeOK ==
  /\ sequencer \in [seq : Seq([firstSeqNo : SeqNos, lastSeqNo : SeqNos]),
                    maxSeqNo : SeqNos \cup {0},
                    expectedLastSeqNo : SeqNos \cup {UINT32_MAX}]
  /\ finished \in BOOLEAN
  /\ added \subseteq SeqNos

\* Between two turns the ranges are sorted, disjoint and merged, in whatever
\* order numbers arrive.  sequencer_add alone does not achieve it: a number
\* just in front of a range, and not next to the one before, is inserted as a
\* range of its own, and the loop of sequencer_complete merges the two.
SortedGaps == GapsBetween(sequencer.seq)

\* The loop of sequencer_complete meets at most one touching pair, so that
\* merging every element with one successor at most merges all there is.
OnePassMerges ==
  \A seqNo \in SeqNos :
     LET list == sequencer_add(sequencer, seqNo, FALSE).seq
     IN  MergePass(list) = MergeTouching(list)

\* Merging and extending ranges never swallows a number that did not arrive.
CoveredIsAdded == Covered(sequencer.seq) \subseteq added

\* A number that arrived and is not in a range lies below all ranges: the
\* branch sequencer_add lacks is the one before the first element only.
LostIsBelow ==
  \A n \in added \ Covered(sequencer.seq) :
     \A m \in Covered(sequencer.seq) : n < m

\* sequencer_complete returns TRUE only when every number up to the expected
\* last one has been added.
NoPrematureFinish ==
  finished => (0 .. sequencer.expectedLastSeqNo) \subseteq added

\* As long as no number was flagged as last, the numbers asked for again are
\* all those below the largest one seen that are in no range.  A last number
\* may lower maxSeqNo below others that were seen; still all is asked for that
\* sequencer_complete waits for, and nothing that cannot exist.
MissingIsEveryGap ==
  LET asked == sequencer_missing(sequencer)
      gaps  == { n \in SeqNos : /\ n \notin Covered(sequencer.seq)
                                /\ \E m \in added : n < m }
  IN  IF sequencer.expectedLastSeqNo = UINT32_MAX
      THEN asked = gaps
      ELSE /\ asked \subseteq gaps
           /\ { n \in gaps : n < sequencer.expectedLastSeqNo } \subseteq asked

\* What the comments of sequencer.h say of the pair sequencer_add and
\* sequencer_check: a number that was added is in the sequencer.
AddedIsCovered == added \subseteq Covered(sequencer.seq)

-----------------------------------------------------------------------------
(***************************************************************************)
(* The list of ranges implements a set of numbers.                         *)
(***************************************************************************)

Set == INSTANCE SequencerSet
         WITH recorded <- Covered(sequencer.seq),
              last <- sequencer.expectedLastSeqNo

\* sequencer.c behaves as the abstract set of recorded numbers does: no step
\* loses a recorded number or records two, and it reports completion in the
\* very step that makes the set 0 .. last.
ImplementsSet == Set!SetSpec

=============================================================================
