---------------------------- MODULE SequencerSet ----------------------------
(***************************************************************************)
(* What the sequencer amounts to, without lists and ranges: a set of       *)
(* recorded numbers.  A number is recorded unless it lies at least two     *)
(* below every recorded number: sequencer.c has no case that puts a new    *)
(* range in front of the first one.  The work is finished when the         *)
(* recorded set is exactly 0 .. last.                                      *)
(***************************************************************************)
EXTENDS Integers

CONSTANTS UINT32_MAX, NumPackets

VARIABLES recorded,   \* the numbers the sequencer counts as received
          last,       \* the number expected to be the last one
          finished    \* whether completion has been reported

SetInit ==
  /\ recorded = {}
  /\ last = UINT32_MAX
  /\ finished = FALSE

\* A number below the first recorded one, and not next to it, is forgotten.
Forgotten(n) == recorded # {} /\ \A m \in recorded : n + 1 < m

Report(n, isLast) ==
  /\ ~ finished
  /\ recorded' = IF Forgotten(n) THEN recorded ELSE recorded \cup {n}
  /\ last' = IF isLast THEN n ELSE last
  /\ finished' = (recorded' = 0 .. last')

SetNext ==
  \E n \in 0 .. NumPackets - 1, isLast \in BOOLEAN : Report(n, isLast)

SetSpec == SetInit /\ [][SetNext]_<<recorded, last, finished>>

=============================================================================
