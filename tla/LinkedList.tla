----------------------------- MODULE LinkedList -----------------------------
(***************************************************************************)
(* The circular doubly linked list of linked_list.c, pointer by pointer:   *)
(* an anchor and cells that malloc hands out and free takes back.  The     *)
(* queue of the server, the windows of the client and the ranges of the    *)
(* sequencer are such lists; the other modules take them for sequences.    *)
(*                                                                         *)
(* Callers pass elements they have just found in the list.  malloc is not  *)
(* tested where the list is appended to; a call that finds no memory is    *)
(* not modelled, Elem is as large as the list gets.                        *)
(***************************************************************************)
EXTENDS Integers, SequencesExt

CONSTANTS Elem,           \* the cells malloc can return
          Obj,            \* the objects callers put into the list
          Anchor, NULL,
          InitialCounts   \* what num_members may hold before LinkedListInit

ASSUME NodeAssumption ==
  /\ Anchor \notin Elem /\ NULL \notin Elem /\ Anchor # NULL
  /\ InitialCounts \subseteq Int

Node == Elem \cup {Anchor}

VARIABLES num_members, next, prev, obj,
          heap,           \* the cells in use
          cursor,         \* elem in the loop of LinkedListUnlinkAll, else NULL
          initialCount    \* history: num_members before LinkedListInit

vars == <<num_members, next, prev, obj, heap, cursor, initialCount>>

\* A cell that is not in use holds no pointers: reading one gives NULL.
\* LinkedListInit sets up the anchor and leaves num_members as it was.
LinkedListInit ==
  /\ next = [n \in Node |-> IF n = Anchor THEN Anchor ELSE NULL]
  /\ prev = [n \in Node |-> IF n = Anchor THEN Anchor ELSE NULL]
  /\ obj = [n \in Node |-> NULL]
  /\ heap = {}
  /\ cursor = NULL
  /\ num_members \in InitialCounts
  /\ initialCount = num_members

LinkedListEmpty == next[Anchor] = Anchor /\ prev[Anchor] = Anchor

LinkedListFirst == IF LinkedListEmpty THEN NULL ELSE next[Anchor]

LinkedListNext(elem) == IF next[elem] = Anchor THEN NULL ELSE next[elem]

LinkedListLength == num_members

-----------------------------------------------------------------------------
(***************************************************************************)
(* Insertion.  All four functions put the new cell between two neighbours; *)
(* on an empty list both are the anchor.                                   *)
(***************************************************************************)

\* Variants: the successor is not told; the new cell gets no successor.
LinkOneWay(new_elem, o, p, q) ==
  /\ next' = [next EXCEPT ![new_elem] = q, ![p] = new_elem]
  /\ prev' = [prev EXCEPT ![new_elem] = p]
  /\ obj' = [obj EXCEPT ![new_elem] = o]

LinkOpenEnd(new_elem, o, p, q) ==
  /\ next' = [next EXCEPT ![p] = new_elem]
  /\ prev' = [prev EXCEPT ![new_elem] = p, ![q] = new_elem]
  /\ obj' = [obj EXCEPT ![new_elem] = o]

Link(new_elem, o, p, q) ==
  /\ next' = [next EXCEPT ![new_elem] = q, ![p] = new_elem]
  /\ prev' = [prev EXCEPT ![new_elem] = p, ![q] = new_elem]
  /\ obj' = [obj EXCEPT ![new_elem] = o]

Insert(o, p, q) ==
  /\ cursor = NULL
  /\ \E new_elem \in Elem \ heap : /\ Link(new_elem, o, p, q)
                                   /\ heap' = heap \cup {new_elem}
  /\ num_members' = num_members + 1
  /\ UNCHANGED <<cursor, initialCount>>

LinkedListAppend(o) == Insert(o, prev[Anchor], Anchor)

LinkedListPrepend(o) == Insert(o, Anchor, next[Anchor])

LinkedListInsertAfter(o, elem) == elem \in heap /\ Insert(o, elem, next[elem])

\* Variant: the pointers of the wrong side.
InsertBeforeIsAfter(o, elem) == elem \in heap /\ Insert(o, elem, next[elem])

LinkedListInsertBefore(o, elem) == elem \in heap /\ Insert(o, prev[elem], elem)

-----------------------------------------------------------------------------
(***************************************************************************)
(* Removal.                                                                *)
(***************************************************************************)

\* Variant: num_members is forgotten.
UnlinkUncounted(elem) ==
  /\ next' = [next EXCEPT ![prev[elem]] = next[elem], ![elem] = NULL]
  /\ prev' = [prev EXCEPT ![next[elem]] = prev[elem], ![elem] = NULL]
  /\ obj' = [obj EXCEPT ![elem] = NULL]
  /\ heap' = heap \ {elem}
  /\ num_members' = num_members
  /\ UNCHANGED initialCount

\* elem->prev and elem->next are joined and elem is freed.
Unlink(elem) ==
  /\ next' = [next EXCEPT ![prev[elem]] = next[elem], ![elem] = NULL]
  /\ prev' = [prev EXCEPT ![next[elem]] = prev[elem], ![elem] = NULL]
  /\ obj' = [obj EXCEPT ![elem] = NULL]
  /\ heap' = heap \ {elem}
  /\ num_members' = num_members - 1
  /\ UNCHANGED initialCount

\* On an empty list the function returns at once.
LinkedListUnlink(elem) ==
  /\ cursor = NULL /\ ~ LinkedListEmpty
  /\ elem \in heap
  /\ Unlink(elem)
  /\ UNCHANGED cursor

\* LinkedListUnlinkAll: one turn of its loop is a step.
UnlinkAllStart ==
  /\ cursor = NULL
  /\ cursor' = LinkedListFirst
  /\ UNCHANGED <<num_members, next, prev, obj, heap, initialCount>>

\* Variant: the successor is read from the freed cell.
UnlinkAllReadsFreed ==
  /\ cursor # NULL
  /\ Unlink(cursor)
  /\ cursor' = next'[cursor]

\* next_elem is read before the cell is freed.
UnlinkAllTurn ==
  /\ cursor # NULL
  /\ Unlink(cursor)
  /\ cursor' = LinkedListNext(cursor)

Next ==
  \/ \E o \in Obj : LinkedListAppend(o) \/ LinkedListPrepend(o)
  \/ \E o \in Obj, elem \in Elem : \/ LinkedListInsertAfter(o, elem)
                                   \/ LinkedListInsertBefore(o, elem)
  \/ \E elem \in Elem : LinkedListUnlink(elem)
  \/ UnlinkAllStart \/ UnlinkAllTurn

Spec == LinkedListInit /\ [][Next]_vars

-----------------------------------------------------------------------------
(***************************************************************************)
(* What the list holds, read along one of its two chains.                  *)
(***************************************************************************)

\* Where a chain leads from the anchor in up to size steps; NULL ends it.
Chain(link, size) ==
  LET nth[k \in 0 .. size] ==
        IF k = 0 THEN Anchor
        ELSE IF nth[k - 1] = NULL THEN NULL ELSE link[nth[k - 1]]
  IN  nth

\* The cells met until the anchor or a dangling pointer, at most size of them.
Walk(link, size) ==
  LET nth == Chain(link, size)
      ends == { k \in 1 .. size : nth[k] \in {Anchor, NULL} }
  IN  [k \in 1 .. Min(ends \cup {size + 1}) - 1 |-> nth[k]]

\* One step more than there are cells leads back to the anchor.
Elements == Walk(next, Cardinality(heap) + 1)
ElementsBackwards == Walk(prev, Cardinality(heap) + 1)

-----------------------------------------------------------------------------
(***************************************************************************)
(* Properties.                                                             *)
(***************************************************************************)

\* Anchor and cells in use point to anchor and cells in use, cells carry
\* objects, and a cell that has been freed carries nothing.
TypeOK ==
  /\ heap \subseteq Elem
  /\ next \in [Node -> Node \cup {NULL}] /\ prev \in [Node -> Node \cup {NULL}]
  /\ obj \in [Node -> Obj \cup {NULL}]
  /\ \A n \in heap \cup {Anchor} : {next[n], prev[n]} \subseteq heap \cup {Anchor}
  /\ \A n \in Elem \ heap : next[n] = NULL /\ prev[n] = NULL
  /\ cursor \in heap \cup {NULL}
  /\ num_members \in Int /\ initialCount \in Int

\* The two chains are each other's inverse at every cell, after any mixture
\* of insertions and removals at either end and in the middle.
ChainsAreInverse ==
  \A n \in heap \cup {Anchor} : next[prev[n]] = n /\ prev[next[n]] = n

\* The walk from the anchor meets every cell in use, once, and ends: no cell
\* is lost on the heap, none that was freed is met, and the loops over the
\* list terminate.
WalkMeetsEveryCell ==
  /\ ToSet(Elements) = heap
  /\ Len(Elements) = Cardinality(heap)
  /\ Elements = Reverse(ElementsBackwards)

\* num_members follows the number of cells, from whatever it was before
\* LinkedListInit: the count sequencer_complete relies on is right because
\* sequencer_init clears the structure first.
CountFollows == LinkedListLength = initialCount + Cardinality(heap)

\* Each function does to the sequence of cells what its name says: the cells
\* that were there keep their order and their objects.
Kept == \A e \in heap \cap heap' : obj'[e] = obj[e]
New(o) == CHOOSE e \in heap' \ heap : obj'[e] = o
Place(elem) == CHOOSE k \in DOMAIN Elements : Elements[k] = elem

ActAsNamed ==
  /\ Kept
  /\ \A o \in Obj :
       /\ LinkedListAppend(o) => Elements' = Append(Elements, New(o))
       /\ LinkedListPrepend(o) => Elements' = <<New(o)>> \o Elements
       /\ \A elem \in heap :
            /\ LinkedListInsertAfter(o, elem) =>
                 Elements' = InsertAt(Elements, Place(elem) + 1, New(o))
            /\ LinkedListInsertBefore(o, elem) =>
                 Elements' = InsertAt(Elements, Place(elem), New(o))
  /\ \A elem \in heap :
       LinkedListUnlink(elem) => Elements' = RemoveAt(Elements, Place(elem))
  /\ UnlinkAllTurn => Elements' = Tail(Elements)

ActsOnSequence == [][ActAsNamed]_vars

\* LinkedListUnlinkAll leaves an empty list behind.
UnlinkAllEmpties ==
  [][cursor # NULL /\ cursor' = NULL => LinkedListEmpty']_vars

=============================================================================
