\* Four cells hold a list with inner, first and last cells; two objects.
\* The structure was cleared before LinkedListInit, or held a 7.
CONSTANTS
  Elem = {e1, e2, e3, e4}
  Obj = {o1, o2}
  Anchor = anchor
  NULL = null
  InitialCounts = {0, 7}
SPECIFICATION Spec
INVARIANTS
  TypeOK
  ChainsAreInverse
  WalkMeetsEveryCell
  CountFollows
PROPERTIES
  ActsOnSequence
  UnlinkAllEmpties
