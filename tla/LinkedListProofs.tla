-------------------------- MODULE LinkedListProofs --------------------------
(***************************************************************************)
(* Whatever cells and objects there are, the pointers of the list stay     *)
(* consistent.  The two facts need each other: that a cell's neighbours    *)
(* point back at it is what keeps an unlinked cell from being pointed at.  *)
(* The loop of LinkedListUnlinkAll stays at the first cell, so its next    *)
(* turn finds a cell that has not been freed.                              *)
(*                                                                         *)
(* These facts are local and do not exclude a second circle of cells that  *)
(* no walk from the anchor meets.  That there is none is shown by keeping  *)
(* a listing: a sequence of all cells in which next leads from each to the *)
(* one behind it.  Each function changes the listing as its name says, and *)
(* the walk along the pointers is the listing.                             *)
(***************************************************************************)
EXTENDS LinkedList, ListLemmas, FiniteSetTheorems

Live == heap \cup {Anchor}

CursorIsFirst == cursor # NULL => cursor = next[Anchor]

Inv == TypeOK /\ ChainsAreInverse

Counted == IsFiniteSet(heap) /\ CountFollows

IInv == Inv /\ CursorIsFirst /\ Counted

\* A new cell between two neighbours leaves both chains consistent.
LEMMA InsertPreservesInv ==
  ASSUME Inv, NEW o \in Obj, NEW p \in Live, NEW q \in Live, next[p] = q,
         Insert(o, p, q)
  PROVE  Inv'
<1> USE NodeAssumption
<1>1. PICK e \in Elem \ heap : Link(e, o, p, q) /\ heap' = heap \cup {e}
  BY DEF Insert
<1>2. prev[q] = p
  BY DEF Inv, ChainsAreInverse, Live
<1>3. \A n \in Node : /\ next'[n] = IF n = p THEN e ELSE IF n = e THEN q ELSE next[n]
                      /\ prev'[n] = IF n = q THEN e ELSE IF n = e THEN p ELSE prev[n]
  BY <1>1 DEF Link, Inv, TypeOK, Live, Node
<1>4. /\ e # p /\ e # q /\ e # Anchor /\ e \in Node /\ p \in Node /\ q \in Node
      /\ Live \subseteq Node
  BY <1>1 DEF Live, Node, Inv, TypeOK
<1>5. TypeOK'
  <2>1. heap' \subseteq Elem
    BY <1>1 DEF Inv, TypeOK
  <2>2. /\ next' \in [Node -> Node \cup {NULL}]
        /\ prev' \in [Node -> Node \cup {NULL}]
        /\ obj' \in [Node -> Obj \cup {NULL}]
    BY <1>1, <1>4 DEF Link, Inv, TypeOK
  <2>3. ASSUME NEW n \in heap' \cup {Anchor}
        PROVE  next'[n] \in heap' \cup {Anchor} /\ prev'[n] \in heap' \cup {Anchor}
    <3>1. CASE n = e
      BY <3>1, <1>1, <1>3, <1>4 DEF Live
    <3>2. CASE n # e
      <4>1. n \in Live /\ next[n] \in Live /\ prev[n] \in Live
        BY <3>2, <1>1 DEF Live, Inv, TypeOK
      <4> QED
        BY <4>1, <3>2, <1>1, <1>3, <1>4 DEF Live
    <3> QED
      BY <3>1, <3>2
  <2>4. \A n \in Elem \ heap' : next'[n] = NULL /\ prev'[n] = NULL
    BY <1>1, <1>3, <1>4 DEF Inv, TypeOK, Live, Node
  <2>5. /\ cursor' \in heap' \cup {NULL}
        /\ num_members' \in Int /\ initialCount' \in Int
    BY DEF Insert, Inv, TypeOK
  <2> QED
    BY <2>1, <2>2, <2>3, <2>4, <2>5 DEF TypeOK
<1>6. ASSUME NEW n \in heap' \cup {Anchor}
      PROVE  next'[prev'[n]] = n /\ prev'[next'[n]] = n
  <2>1. CASE n = e
    BY <2>1, <1>3, <1>4
  <2>2. CASE n # e
    <3>1. /\ n \in Live /\ next[n] \in Live /\ prev[n] \in Live
          /\ next[prev[n]] = n /\ prev[next[n]] = n
      BY <2>2, <1>1 DEF Live, Inv, TypeOK, ChainsAreInverse
    <3>2. e \notin Live
      BY <1>1, <1>4 DEF Live
    <3>3. next'[prev'[n]] = n
      BY <3>1, <3>2, <2>2, <1>2, <1>3, <1>4
    <3>4. prev'[next'[n]] = n
      BY <3>1, <3>2, <2>2, <1>2, <1>3, <1>4
    <3> QED
      BY <3>3, <3>4
  <2> QED
    BY <2>1, <2>2
<1> QED
  BY <1>5, <1>6 DEF Inv, ChainsAreInverse

\* Joining the neighbours of a cell leaves both chains consistent and nothing
\* that points to the cell.
LEMMA UnlinkPreservesInv ==
  ASSUME Inv, NEW elem \in heap, Unlink(elem), cursor' \in heap' \cup {NULL}
  PROVE  Inv'
<1> USE NodeAssumption
<1> DEFINE p == prev[elem]
           q == next[elem]
<1>1. /\ elem \in Elem /\ elem # Anchor /\ elem \in Node /\ Live \subseteq Node
      /\ p \in Live /\ q \in Live /\ next[p] = elem /\ prev[q] = elem
  BY DEF Inv, TypeOK, ChainsAreInverse, Live, Node
<1>2. \A n \in Node : /\ next'[n] = IF n = elem THEN NULL
                                    ELSE IF n = p THEN q ELSE next[n]
                      /\ prev'[n] = IF n = elem THEN NULL
                                    ELSE IF n = q THEN p ELSE prev[n]
  BY <1>1 DEF Unlink, Inv, TypeOK
<1>3. heap' = heap \ {elem}
  BY DEF Unlink
\* Only p leads to elem, and only q leads back to it.
<1>4. ASSUME NEW n \in Live, n # elem
      PROVE  /\ n \in Node /\ next[n] \in Live /\ prev[n] \in Live
             /\ next[prev[n]] = n /\ prev[next[n]] = n
             /\ next[n] = elem <=> n = p
             /\ prev[n] = elem <=> n = q
             /\ n = p => q # elem
             /\ n = q => p # elem
  <2>1. /\ n \in Node /\ next[n] \in Live /\ prev[n] \in Live
        /\ next[prev[n]] = n /\ prev[next[n]] = n
    BY <1>1, <1>4 DEF Live, Inv, TypeOK, ChainsAreInverse
  <2> QED
    BY <2>1, <1>1, <1>4
<1>5. ASSUME NEW n \in heap' \cup {Anchor}
      PROVE  /\ next'[n] \in heap' \cup {Anchor}
             /\ prev'[n] \in heap' \cup {Anchor}
             /\ next'[prev'[n]] = n /\ prev'[next'[n]] = n
  <2>1. n \in Live /\ n # elem /\ heap' \cup {Anchor} = Live \ {elem}
    BY <1>1, <1>3 DEF Live
  <2>2. next'[n] = (IF n = p THEN q ELSE next[n]) /\ next'[n] \in Live \ {elem}
    BY <2>1, <1>1, <1>2, <1>4
  <2>3. prev'[n] = (IF n = q THEN p ELSE prev[n]) /\ prev'[n] \in Live \ {elem}
    BY <2>1, <1>1, <1>2, <1>4
  <2>4. next'[prev'[n]] = n
    BY <2>1, <2>3, <1>1, <1>2, <1>4
  <2>5. prev'[next'[n]] = n
    BY <2>1, <2>2, <1>1, <1>2, <1>4
  <2> QED
    BY <2>1, <2>2, <2>3, <2>4, <2>5
<1>6. TypeOK'
  <2>1. heap' \subseteq Elem
    BY <1>3 DEF Inv, TypeOK
  <2>2. /\ next' \in [Node -> Node \cup {NULL}]
        /\ prev' \in [Node -> Node \cup {NULL}]
        /\ obj' \in [Node -> Obj \cup {NULL}]
    BY <1>1 DEF Unlink, Inv, TypeOK
  <2>3. \A n \in Elem \ heap' : next'[n] = NULL /\ prev'[n] = NULL
    BY <1>1, <1>2, <1>3 DEF Inv, TypeOK, Live, Node
  <2>4. num_members' \in Int /\ initialCount' \in Int
    BY DEF Unlink, Inv, TypeOK
  <2> QED
    BY <2>1, <2>2, <2>3, <2>4, <1>5 DEF TypeOK
<1> QED
  BY <1>5, <1>6 DEF Inv, ChainsAreInverse

\* The count goes up and down with the cells.
LEMMA InsertCounts ==
  ASSUME Inv, Counted, NEW o, NEW p, NEW q, Insert(o, p, q)
  PROVE  Counted'
<1>1. PICK e \in Elem \ heap : heap' = heap \cup {e}
  BY DEF Insert
<1>2. IsFiniteSet(heap') /\ Cardinality(heap') = Cardinality(heap) + 1
  BY <1>1, FS_AddElement DEF Counted
<1>3. Cardinality(heap) \in Nat
  BY FS_CardinalityType DEF Counted
<1> QED
  BY <1>2, <1>3 DEF Insert, Counted, CountFollows, LinkedListLength, Inv, TypeOK

LEMMA UnlinkCounts ==
  ASSUME Inv, Counted, NEW elem \in heap, Unlink(elem)
  PROVE  Counted'
<1>1. IsFiniteSet(heap') /\ Cardinality(heap') = Cardinality(heap) - 1
  BY FS_RemoveElement DEF Unlink, Counted
<1>2. Cardinality(heap) \in Nat
  BY FS_CardinalityType DEF Counted
<1> QED
  BY <1>1, <1>2 DEF Unlink, Counted, CountFollows, LinkedListLength, Inv, TypeOK

\* A turn of the loop of LinkedListUnlinkAll moves on to the cell that is the
\* first one then, or ends with an empty list.
LEMMA UnlinkAllTurnMoves ==
  ASSUME IInv, UnlinkAllTurn
  PROVE  /\ cursor \in heap /\ cursor' \in heap' \cup {NULL} /\ CursorIsFirst'
         /\ cursor' = NULL => LinkedListEmpty'
<1> USE NodeAssumption
<1>1. /\ cursor \in heap /\ cursor \in Elem /\ cursor # Anchor /\ cursor # NULL
      /\ cursor = next[Anchor] /\ prev[cursor] = Anchor
      /\ Anchor \in Node /\ cursor \in Node
  BY DEF UnlinkAllTurn, IInv, Inv, TypeOK, ChainsAreInverse, CursorIsFirst, Node
<1>2. next[cursor] # cursor /\ next[cursor] \in heap \cup {Anchor}
  BY <1>1 DEF IInv, Inv, TypeOK, ChainsAreInverse
<1>3. next[cursor] \in Node
  BY <1>2 DEF IInv, Inv, TypeOK, Node
<1>4. /\ heap' = heap \ {cursor}
      /\ next'[Anchor] = next[cursor]
      /\ prev'[next[cursor]] = Anchor
  BY <1>1, <1>2, <1>3 DEF UnlinkAllTurn, Unlink, IInv, Inv, TypeOK
<1>5. cursor' = IF next[cursor] = Anchor THEN NULL ELSE next[cursor]
  BY DEF UnlinkAllTurn, LinkedListNext
<1>6. CASE next[cursor] = Anchor
  BY <1>1, <1>4, <1>5, <1>6 DEF CursorIsFirst, LinkedListEmpty
<1>7. CASE next[cursor] # Anchor
  <2>1. next[cursor] \in heap /\ next[cursor] # NULL
    BY <1>2, <1>7 DEF IInv, Inv, TypeOK
  <2>2. cursor' = next[cursor]
    BY <1>5, <1>7
  <2> QED
    BY <2>1, <2>2, <1>1, <1>2, <1>4 DEF CursorIsFirst
<1> QED
  BY <1>6, <1>7

-----------------------------------------------------------------------------
(***************************************************************************)
(* The cells in use as a sequence.  A listing of the cells H along the     *)
(* pointers link has each of them once, each one's pointer leads to the    *)
(* next one, and the anchor closes the circle.                             *)
(***************************************************************************)

At(s, k) == IF k \in 1 .. Len(s) THEN s[k] ELSE Anchor

IsListing(s, H, link) ==
  /\ s \in Seq(H)
  /\ \A i, j \in 1 .. Len(s) : s[i] = s[j] => i = j
  /\ \A e \in H : \E k \in 1 .. Len(s) : s[k] = e
  /\ \A k \in 0 .. Len(s) : link[At(s, k)] = At(s, k + 1)

\* Chain is the only solution of its equation.
LEMMA ChainEquation ==
  ASSUME NEW link, NEW size \in Nat, NEW f,
         f = [k \in 0 .. size |->
                IF k = 0 THEN Anchor
                ELSE IF f[k - 1] = NULL THEN NULL ELSE link[f[k - 1]]]
  PROVE  Chain(link, size) = f
<1> DEFINE Solves(g) ==
             g = [k \in 0 .. size |->
                    IF k = 0 THEN Anchor
                    ELSE IF g[k - 1] = NULL THEN NULL ELSE link[g[k - 1]]]
           g == CHOOSE h : Solves(h)
<1>1. Chain(link, size) = g
  BY DEF Chain
<1>2. Solves(f)
  OBVIOUS
<1>3. Solves(g)
  <2> HIDE DEF Solves
  <2> QED BY <1>2
<1> HIDE DEF g
<1>4. f[0] = g[0] /\ \A k \in 1 .. size : f[k - 1] = g[k - 1] => f[k] = g[k]
  BY <1>2, <1>3
<1>5. \A k \in 0 .. size : f[k] = g[k]
  BY ONLY <1>4, size \in Nat, SameRecursion
<1>6. f = [k \in 0 .. size |-> f[k]] /\ g = [k \in 0 .. size |-> g[k]]
  BY <1>2, <1>3
<1> QED
  BY <1>1, <1>5, <1>6

\* The walk along the pointers of a listing meets the cells of the listing.
LEMMA WalkOfListing ==
  ASSUME NEW H, Anchor \notin H, NULL \notin H, NEW link, NEW s,
         IsListing(s, H, link)
  PROVE  Walk(link, Len(s) + 1) = s
<1> DEFINE n == Len(s)
           f == [k \in 0 .. n + 1 |-> At(s, k)]
<1> USE NodeAssumption
<1>1. /\ n \in Nat /\ s \in Seq(H)
      /\ \A k \in 1 .. n : s[k] \in H /\ At(s, k) = s[k]
      /\ At(s, 0) = Anchor /\ At(s, n + 1) = Anchor
  BY LenProperties, ElementOfSeq DEF IsListing, At
<1>2. \A k \in 0 .. n + 1 : At(s, k) # NULL
  BY <1>1 DEF At
<1>3. \A k \in 1 .. n + 1 : link[At(s, k - 1)] = At(s, k)
  <2> TAKE k \in 1 .. n + 1
  <2>1. k - 1 \in 0 .. n /\ (k - 1) + 1 = k
    BY <1>1
  <2> QED
    BY <2>1 DEF IsListing
<1>4. Chain(link, n + 1) = f
  <2>1. f = [k \in 0 .. n + 1 |->
                IF k = 0 THEN Anchor
                ELSE IF f[k - 1] = NULL THEN NULL ELSE link[f[k - 1]]]
    <3>1. ASSUME NEW k \in 0 .. n + 1
          PROVE  At(s, k) = IF k = 0 THEN Anchor
                            ELSE IF f[k - 1] = NULL THEN NULL ELSE link[f[k - 1]]
      <4>1. CASE k = 0
        BY <4>1, <1>1
      <4>2. CASE k # 0
        <5>1. k - 1 \in 0 .. n + 1 /\ k \in 1 .. n + 1
          BY <4>2, <1>1
        <5>2. f[k - 1] = At(s, k - 1)
          BY <5>1
        <5> QED
          BY <4>2, <5>1, <5>2, <1>2, <1>3
      <4> QED
        BY <4>1, <4>2
    <3> QED
      BY <3>1
  <2>2. n + 1 \in Nat
    BY <1>1
  <2> HIDE DEF f, n
  <2> QED
    BY <2>1, <2>2, ChainEquation
<1> DEFINE ends == { k \in 1 .. n + 1 : f[k] \in {Anchor, NULL} }
<1>5. ends = {n + 1}
  <2>1. \A k \in 1 .. n + 1 : f[k] = At(s, k)
    BY <1>1
  <2> HIDE DEF f
  <2> QED
    BY <2>1, <1>1
<1>6. Min(ends \cup {n + 1 + 1}) = n + 1
  <2> DEFINE T == {n + 1, n + 2}
  <2>1. ends \cup {n + 1 + 1} = T /\ T \in SUBSET Nat /\ T # {}
    BY <1>1, <1>5
  <2>2. Min(T) \in T /\ \A y \in T : Min(T) <= y
    <3> HIDE DEF T
    <3> QED BY <2>1, MinProperties
  <2>3. Min(T) = n + 1
    <3> HIDE DEF n
    <3> QED BY <2>2, <1>1
  <2> QED
    BY <2>1, <2>3
<1>7. Walk(link, n + 1) = [k \in 1 .. Min(ends \cup {n + 1 + 1}) - 1 |-> f[k]]
  BY <1>4 DEF Walk
<1>8. \A k \in 1 .. n : f[k] = s[k]
  BY <1>1
<1>9. s = [k \in 1 .. n |-> s[k]]
  BY <1>1, LenProperties
<1> HIDE DEF f, ends
<1>10. (n + 1) - 1 = n
  BY <1>1
<1> QED
  BY <1>6, <1>7, <1>8, <1>9, <1>10

\* A listing has as many cells as there are.
LEMMA ListingCounts ==
  ASSUME NEW H, NEW link, NEW s, IsListing(s, H, link)
  PROVE  Len(s) = Cardinality(H)
<1>1. Len(s) \in Nat /\ s \in [1 .. Len(s) -> H]
  BY LenProperties DEF IsListing
<1>2. ExistsBijection(1 .. Len(s), H)
  BY <1>1 DEF IsListing, ExistsBijection, Bijection, Injection, Surjection,
              IsInjective
<1> QED
  BY <1>1, <1>2, FS_CountingElements

\* A walk one step longer than there are cells finds the listing.
LEMMA ListingIsFound ==
  ASSUME NEW H, Anchor \notin H, NULL \notin H, NEW link, NEW s,
         IsListing(s, H, link)
  PROVE  Walk(link, Cardinality(H) + 1) = s
BY ListingCounts, WalkOfListing

\* The places of a listing: the anchor is in front of the first cell and behind
\* the last one, and no cell has two places.
LEMMA Places ==
  ASSUME NEW H, Anchor \notin H, NEW link, NEW s, IsListing(s, H, link)
  PROVE  /\ Len(s) \in Nat
         /\ At(s, 0) = Anchor /\ At(s, Len(s) + 1) = Anchor
         /\ \A k \in 1 .. Len(s) : At(s, k) = s[k] /\ s[k] \in H
         /\ \A k \in 0 .. Len(s) : At(s, k) \in H \cup {Anchor}
         /\ \A i, j \in 0 .. Len(s) : At(s, i) = At(s, j) => i = j
<1>1. Len(s) \in Nat /\ \A k \in 1 .. Len(s) : s[k] \in H
  BY LenProperties, ElementOfSeq DEF IsListing
<1>2. ASSUME NEW i \in 0 .. Len(s), NEW j \in 0 .. Len(s), At(s, i) = At(s, j)
      PROVE  i = j
  <2>1. CASE i = 0 \/ j = 0
    BY <2>1, <1>1, <1>2 DEF At
  <2>2. CASE i # 0 /\ j # 0
    BY <2>2, <1>1, <1>2 DEF At, IsListing
  <2> QED
    BY <2>1, <2>2
<1> QED
  BY <1>1, <1>2 DEF At

\* Read backwards, a listing along one chain is one along the other.
LEMMA ListingBackwards ==
  ASSUME NEW H, Anchor \notin H, NEW link, NEW back, NEW s,
         IsListing(s, H, link),
         \A n \in H \cup {Anchor} : back[link[n]] = n
  PROVE  IsListing(Reverse(s), H, back)
<1> DEFINE n == Len(s)
           r == Reverse(s)
<1>1. /\ n \in Nat
      /\ At(s, 0) = Anchor /\ At(s, n + 1) = Anchor
      /\ \A k \in 1 .. n : At(s, k) = s[k] /\ s[k] \in H
      /\ \A k \in 0 .. n : At(s, k) \in H \cup {Anchor}
  BY Places
<1>2. r \in Seq(H) /\ Len(r) = n /\ \A k \in 1 .. n : r[k] = s[(n - k) + 1]
  BY ReverseProperties DEF IsListing
<1> HIDE DEF r
<1>3. ASSUME NEW k \in 0 .. n + 1 PROVE At(r, k) = At(s, (n - k) + 1)
  <2>1. CASE k \in 1 .. n
    <3>1. (n - k) + 1 \in 1 .. n
      BY <2>1, <1>1
    <3> QED
      BY <3>1, <2>1, <1>2 DEF At
  <2>2. CASE k = 0 \/ k = n + 1
    <3>1. (n - k) + 1 = 0 \/ (n - k) + 1 = n + 1
      BY <2>2, <1>1
    <3>2. At(r, k) = Anchor
      <4> HIDE DEF n
      <4> QED BY <2>2, <1>1, <1>2 DEF At
    <3> HIDE DEF n
    <3>3. At(s, (n - k) + 1) = Anchor
      BY <3>1, <1>1
    <3> QED
      BY <3>2, <3>3
  <2> QED
    BY <2>1, <2>2, <1>1
<1>4. ASSUME NEW k \in 0 .. n PROVE back[At(r, k)] = At(r, k + 1)
  <2> DEFINE j == n - k
  <2>1. j \in 0 .. n /\ k \in 0 .. n + 1 /\ k + 1 \in 0 .. n + 1
        /\ (n - (k + 1)) + 1 = j
    BY <1>1
  <2>2. At(r, k) = At(s, j + 1) /\ At(r, k + 1) = At(s, j)
    BY <2>1, <1>3
  <2> HIDE DEF j
  <2>3. link[At(s, j)] = At(s, j + 1) /\ At(s, j) \in H \cup {Anchor}
    BY <2>1, <1>1 DEF IsListing
  <2> QED
    BY <2>2, <2>3
<1>5. ASSUME NEW i \in 1 .. n, NEW j \in 1 .. n, r[i] = r[j] PROVE i = j
  <2> DEFINE a == (n - i) + 1
             b == (n - j) + 1
  <2>1. a \in 1 .. n /\ b \in 1 .. n /\ s[a] = s[b]
    BY <1>1, <1>2, <1>5
  <2>2. a = b
    <3> HIDE DEF a, b
    <3> QED BY <2>1 DEF IsListing
  <2> QED
    BY <2>2, <1>1
<1>6. ASSUME NEW e \in H PROVE \E k \in 1 .. n : r[k] = e
  <2>1. PICK j \in 1 .. n : s[j] = e
    BY DEF IsListing
  <2>2. (n - j) + 1 \in 1 .. n /\ (n - ((n - j) + 1)) + 1 = j
    BY <1>1
  <2> QED
    BY <2>1, <2>2, <1>2
<1> QED
  BY <1>2, <1>4, <1>5, <1>6 DEF IsListing, r

\* A new cell linked in behind place k has place k + 1.
LEMMA ListingInsert ==
  ASSUME NEW H, Anchor \notin H, NEW link, NEW s, IsListing(s, H, link),
         NEW k \in 0 .. Len(s), NEW e, e \notin H, e # Anchor, NEW link2,
         \A n \in H \cup {Anchor} :
           link2[n] = IF n = At(s, k) THEN e ELSE link[n],
         link2[e] = At(s, k + 1)
  PROVE  IsListing(InsertAt(s, k + 1, e), H \cup {e}, link2)
<1> DEFINE n == Len(s)
           r == InsertAt(s, k + 1, e)
           G == H \cup {e}
<1>1. /\ n \in Nat
      /\ At(s, 0) = Anchor /\ At(s, n + 1) = Anchor
      /\ \A j \in 1 .. n : At(s, j) = s[j] /\ s[j] \in H
      /\ \A j \in 0 .. n : At(s, j) \in H \cup {Anchor}
      /\ \A i, j \in 0 .. n : At(s, i) = At(s, j) => i = j
      /\ \A j \in 0 .. n : link[At(s, j)] = At(s, j + 1)
  <2>1. \A j \in 0 .. n : link[At(s, j)] = At(s, j + 1)
    BY DEF IsListing
  <2> QED
    BY <2>1, Places
<1>2. HasInserted(G, s, k + 1, e, r)
  <2>1. s \in Seq(G) /\ k + 1 \in 1 .. Len(s) + 1 /\ e \in G
    BY <1>1, SeqMonotonic DEF IsListing
  <2> HIDE DEF G
  <2> QED
    BY ONLY <2>1, InsertAtProperties
<1> HIDE DEF r, n
<1>3. /\ r \in Seq(G) /\ Len(r) = n + 1
      /\ \A j \in 1 .. n + 1 :
           r[j] = IF j < k + 1 THEN s[j] ELSE IF j = k + 1 THEN e ELSE s[j - 1]
  BY <1>2 DEF HasInserted, n
<1>4. k \in 0 .. n
  BY DEF n
<1>5. ASSUME NEW j \in 0 .. n + 2
      PROVE  At(r, j) = IF j <= k THEN At(s, j)
                        ELSE IF j = k + 1 THEN e ELSE At(s, j - 1)
  <2>1. CASE j = 0
    BY <2>1, <1>1, <1>3, <1>4 DEF At
  <2>2. CASE j = n + 2
    <3>1. At(r, j) = Anchor
      BY <2>2, <1>1, <1>3 DEF At
    <3>2. j - 1 = n + 1 /\ ~ (j <= k) /\ j # k + 1
      BY <2>2, <1>1, <1>4
    <3> QED
      BY <3>1, <3>2, <1>1
  <2>3. CASE j \in 1 .. n + 1
    <3>1. At(r, j) = r[j]
      BY <2>3, <1>3 DEF At
    <3>2. CASE j <= k
      <4>1. j \in 1 .. n /\ j < k + 1
        BY <3>2, <2>3, <1>1, <1>4
      <4> QED
        BY <3>1, <3>2, <4>1, <2>3, <1>1, <1>3
    <3>3. CASE j = k + 1
      <4>1. ~ (j <= k) /\ ~ (j < k + 1)
        BY <3>3, <1>1, <1>4
      <4> QED
        BY <3>1, <3>3, <4>1, <2>3, <1>3
    <3>4. CASE j > k + 1
      <4>1. j - 1 \in 1 .. n /\ ~ (j <= k) /\ ~ (j < k + 1) /\ j # k + 1
        BY <3>4, <2>3, <1>1, <1>4
      <4> QED
        BY <3>1, <4>1, <2>3, <1>1, <1>3
    <3> QED
      BY <3>2, <3>3, <3>4, <2>3, <1>1, <1>4
  <2> QED
    BY <2>1, <2>2, <2>3, <1>1
<1>6. ASSUME NEW j \in 0 .. n + 1 PROVE link2[At(r, j)] = At(r, j + 1)
  <2>1. j \in 0 .. n + 2 /\ j + 1 \in 0 .. n + 2
    BY <1>1
  <2>2. CASE j < k
    <3>1. j \in 0 .. n /\ j <= k /\ j + 1 <= k /\ j # k
      BY <2>2, <1>1, <1>4
    <3>2. At(r, j) = At(s, j) /\ At(r, j + 1) = At(s, j + 1)
      BY <3>1, <2>1, <1>5
    <3>3. At(s, j) # At(s, k)
      BY <3>1, <1>1, <1>4
    <3> QED
      BY <3>1, <3>2, <3>3, <1>1
  <2>3. CASE j = k
    <3>1. At(r, j) = At(s, k) /\ At(r, j + 1) = e
      BY <2>1, <2>3, <1>4, <1>5
    <3> QED
      BY <3>1, <1>1, <1>4
  <2>4. CASE j = k + 1
    <3>1. ~ (j <= k) /\ ~ (j + 1 <= k) /\ j + 1 # k + 1 /\ (j + 1) - 1 = k + 1
      BY <2>4, <1>4, <1>1
    <3>2. At(r, j) = e /\ At(r, j + 1) = At(s, k + 1)
      BY <3>1, <2>1, <2>4, <1>5
    <3> QED
      BY <3>2
  <2>5. CASE j > k + 1
    <3>1. j - 1 \in 0 .. n /\ ~ (j <= k) /\ ~ (j + 1 <= k) /\ j # k + 1
          /\ j + 1 # k + 1 /\ (j + 1) - 1 = (j - 1) + 1 /\ j - 1 # k
      BY <2>5, <1>4, <1>1
    <3>2. At(r, j) = At(s, j - 1) /\ At(r, j + 1) = At(s, (j - 1) + 1)
      BY <3>1, <2>1, <1>5
    <3>3. At(s, j - 1) # At(s, k)
      BY <3>1, <1>1, <1>4
    <3> QED
      BY <3>1, <3>2, <3>3, <1>1
  <2> QED
    BY <2>2, <2>3, <2>4, <2>5, <1>1, <1>4
<1>7. ASSUME NEW i \in 1 .. n + 1, NEW j \in 1 .. n + 1, r[i] = r[j]
      PROVE  i = j
  <2>1. ASSUME NEW l \in 1 .. n + 1, l # k + 1
        PROVE  \E m \in 1 .. n : /\ m = (IF l < k + 1 THEN l ELSE l - 1)
                                 /\ r[l] = s[m]
    BY <2>1, <1>1, <1>3, <1>4
  <2>2. r[k + 1] = e
    BY <1>1, <1>3, <1>4
  <2>3. CASE i = k + 1 \/ j = k + 1
    <3>1. ASSUME NEW l \in 1 .. n + 1, l # k + 1 PROVE r[l] # r[k + 1]
      <4>1. PICK m \in 1 .. n : r[l] = s[m]
        BY <2>1, <3>1
      <4> QED
        BY <4>1, <2>2, <1>1
    <3> QED
      BY ONLY <3>1, <2>3, <1>7, r[i] = r[j], i \in 1 .. n + 1, j \in 1 .. n + 1
  <2>4. CASE i # k + 1 /\ j # k + 1
    <3>1. PICK a \in 1 .. n : a = (IF i < k + 1 THEN i ELSE i - 1) /\ r[i] = s[a]
      BY <2>1, <2>4
    <3>2. PICK b \in 1 .. n : b = (IF j < k + 1 THEN j ELSE j - 1) /\ r[j] = s[b]
      BY <2>1, <2>4
    <3>3. a = b
      <4>1. s[a] = s[b]
        BY <3>1, <3>2, <1>7
      <4>2. \A l, m \in 1 .. n : s[l] = s[m] => l = m
        BY DEF IsListing, n
      <4> QED
        BY <4>1, <4>2
    <3> QED
      BY <3>1, <3>2, <3>3, <2>4, <1>1, <1>4
  <2> QED
    BY <2>3, <2>4
<1>8. ASSUME NEW x \in G PROVE \E j \in 1 .. n + 1 : r[j] = x
  <2>1. CASE x = e
    <3>1. k + 1 \in 1 .. n + 1 /\ r[k + 1] = e
      BY <1>1, <1>3, <1>4
    <3> QED
      BY <2>1, <3>1
  <2>2. CASE x \in H
    <3>1. PICK m \in 1 .. n : s[m] = x
      BY <2>2 DEF IsListing, n
    <3>2. CASE m <= k
      BY <3>1, <3>2, <1>1, <1>3, <1>4
    <3>3. CASE m > k
      <4>1. m + 1 \in 1 .. n + 1 /\ r[m + 1] = s[m]
        BY <3>3, <1>1, <1>3, <1>4
      <4> QED
        BY <3>1, <4>1
    <3> QED
      BY <3>2, <3>3, <1>4, <1>1
  <2> QED
    BY <2>1, <2>2
<1> QED
  BY <1>3, <1>6, <1>7, <1>8 DEF IsListing, r

\* The cell at place k leaves the listing when its neighbours are joined.
LEMMA ListingRemove ==
  ASSUME NEW H, Anchor \notin H, NEW link, NEW s, IsListing(s, H, link),
         NEW k \in 1 .. Len(s), NEW link2,
         \A n \in (H \ {s[k]}) \cup {Anchor} :
           link2[n] = IF n = At(s, k - 1) THEN At(s, k + 1) ELSE link[n]
  PROVE  IsListing(RemoveAt(s, k), H \ {s[k]}, link2)
<1> DEFINE n == Len(s)
           r == RemoveAt(s, k)
           e == s[k]
           G == H \ {e}
<1>1. /\ n \in Nat
      /\ At(s, 0) = Anchor /\ At(s, n + 1) = Anchor
      /\ \A j \in 1 .. n : At(s, j) = s[j] /\ s[j] \in H
      /\ \A j \in 0 .. n : At(s, j) \in H \cup {Anchor}
      /\ \A i, j \in 0 .. n : At(s, i) = At(s, j) => i = j
      /\ \A j \in 0 .. n : link[At(s, j)] = At(s, j + 1)
  <2>1. \A j \in 0 .. n : link[At(s, j)] = At(s, j + 1)
    BY DEF IsListing
  <2> QED
    BY <2>1, Places
<1>2. /\ r \in Seq(H) /\ Len(r) = n - 1
      /\ \A j \in 1 .. n - 1 : r[j] = IF j < k THEN s[j] ELSE s[j + 1]
  BY RemoveAtProperties DEF IsListing
<1>3. /\ k \in 1 .. n /\ e \in H /\ e = At(s, k) /\ e # Anchor
      /\ \A l, m \in 1 .. n : s[l] = s[m] => l = m
      /\ \A x \in H : \E m \in 1 .. n : s[m] = x
  <2>1. k \in 1 .. n
    OBVIOUS
  <2>2. e \in H /\ e = At(s, k) /\ e # Anchor
    BY <1>1, <2>1
  <2>3. \A l, m \in 1 .. n : s[l] = s[m] => l = m
    BY DEF IsListing
  <2>4. \A x \in H : \E m \in 1 .. n : s[m] = x
    BY DEF IsListing
  <2> HIDE DEF n, e
  <2> QED
    BY <2>1, <2>2, <2>3, <2>4
<1>4. \A x \in G \cup {Anchor} :
        link2[x] = IF x = At(s, k - 1) THEN At(s, k + 1) ELSE link[x]
  OBVIOUS
<1> HIDE DEF r, n, e
<1>a. n \in Nat /\ k \in 1 .. n
  BY <1>1, <1>3
<1>5. ASSUME NEW j \in 0 .. n
      PROVE  At(r, j) = IF j < k THEN At(s, j) ELSE At(s, j + 1)
  <2>1. CASE j = 0
    BY <2>1, <1>1, <1>2, <1>3 DEF At
  <2>2. CASE j = n
    <3>1. At(r, j) = Anchor
      BY <2>2, <1>1, <1>2 DEF At
    <3>2. ~ (j < k)
      BY <2>2, <1>1, <1>3
    <3> QED
      BY <3>1, <3>2, <2>2, <1>1
  <2>3. CASE j \in 1 .. n - 1
    <3>1. At(r, j) = r[j]
      BY <2>3, <1>2 DEF At
    <3>2. j \in 1 .. n /\ j + 1 \in 1 .. n
      BY <2>3, <1>1
    <3> QED
      BY <3>1, <3>2, <2>3, <1>1, <1>2
  <2> QED
    BY <2>1, <2>2, <2>3, <1>1
<1>6. ASSUME NEW j \in 0 .. n, j # k PROVE At(s, j) \in G \cup {Anchor}
  BY <1>6, <1>1, <1>3
<1>7. ASSUME NEW j \in 0 .. n - 1 PROVE link2[At(r, j)] = At(r, j + 1)
  <2>1. j \in 0 .. n /\ j + 1 \in 0 .. n
    BY <1>1
  <2>2. CASE j < k - 1
    <3>1. j < k /\ j + 1 < k /\ j # k /\ k - 1 \in 0 .. n /\ j # k - 1
      BY <2>2, <1>1, <1>3
    <3>2. At(r, j) = At(s, j) /\ At(r, j + 1) = At(s, j + 1)
      BY <3>1, <2>1, <1>5
    <3>3. At(s, j) # At(s, k - 1) /\ At(s, j) \in G \cup {Anchor}
      BY <3>1, <2>1, <1>1, <1>6
    <3> QED
      BY <3>2, <3>3, <2>1, <1>1, <1>4
  <2>3. CASE j = k - 1
    <3>1. j < k /\ ~ (j + 1 < k) /\ j # k /\ (j + 1) + 1 = k + 1
      BY <2>3, <1>3, <1>1
    <3>2. At(r, j) = At(s, k - 1) /\ At(r, j + 1) = At(s, k + 1)
      BY <3>1, <2>1, <2>3, <1>5
    <3>3. At(s, k - 1) \in G \cup {Anchor}
      BY <3>1, <2>1, <2>3, <1>6
    <3> QED
      BY <3>2, <3>3, <1>4
  <2>4. CASE j > k - 1
    <3>1. ~ (j < k) /\ ~ (j + 1 < k) /\ j + 1 \in 0 .. n
          /\ j + 1 # k /\ k - 1 \in 0 .. n /\ j + 1 # k - 1
      BY <2>4, <2>1, <1>a
    <3>2. At(r, j) = At(s, j + 1) /\ At(r, j + 1) = At(s, (j + 1) + 1)
      BY <3>1, <2>1, <1>5
    <3>3. At(s, j + 1) # At(s, k - 1) /\ At(s, j + 1) \in G \cup {Anchor}
      BY <3>1, <1>1, <1>6
    <3> QED
      BY <3>1, <3>2, <3>3, <1>1, <1>4
  <2> QED
    BY <2>2, <2>3, <2>4, <1>1, <1>3
<1>8. ASSUME NEW i \in 1 .. n - 1
      PROVE  \E m \in 1 .. n : /\ m = (IF i < k THEN i ELSE i + 1)
                               /\ m # k /\ r[i] = s[m]
  <2>1. i \in 1 .. n /\ i + 1 \in 1 .. n
    BY <1>a
  <2>2. CASE i < k
    BY <2>1, <2>2, <1>a, <1>2
  <2>3. CASE ~ (i < k)
    <3>1. i + 1 # k
      BY <2>3, <1>a
    <3> QED
      BY <2>1, <2>3, <3>1, <1>2
  <2> QED
    BY <2>2, <2>3
<1>9. r \in Seq(G)
  <2>1. \A i \in 1 .. n - 1 : r[i] \in G
    <3> TAKE i \in 1 .. n - 1
    <3>1. PICK m \in 1 .. n : m # k /\ r[i] = s[m]
      BY <1>8
    <3> QED
      BY <3>1, <1>1, <1>3 DEF e
  <2>2. n - 1 \in Nat /\ r \in [1 .. n - 1 -> H]
    BY <1>1, <1>2, <1>3, LenProperties
  <2>3. r \in [1 .. n - 1 -> G]
    BY <2>1, <2>2
  <2> HIDE DEF G
  <2> QED
    BY ONLY <2>2, <2>3, FunctionIsSeq
<1>10. ASSUME NEW i \in 1 .. n - 1, NEW j \in 1 .. n - 1, r[i] = r[j]
       PROVE  i = j
  <2>1. PICK a \in 1 .. n : a = (IF i < k THEN i ELSE i + 1) /\ r[i] = s[a]
    BY <1>8
  <2>2. PICK b \in 1 .. n : b = (IF j < k THEN j ELSE j + 1) /\ r[j] = s[b]
    BY <1>8
  <2>3. a = b
    <3>1. s[a] = s[b]
      BY <2>1, <2>2, <1>10
    <3> QED
      BY <3>1, <1>3
  <2> QED
    BY <2>1, <2>2, <2>3, <1>a
<1>11. ASSUME NEW x \in G PROVE \E j \in 1 .. n - 1 : r[j] = x
  <2>1. PICK m \in 1 .. n : s[m] = x
    BY <1>3
  <2>2. m # k
    BY <2>1 DEF e
  <2>3. CASE m < k
    <3>1. m \in 1 .. n - 1
      BY <2>3, <1>a
    <3>2. r[m] = s[m]
      BY <3>1, <2>3, <1>2
    <3> QED
      BY <2>1, <3>1, <3>2
  <2>4. CASE m > k
    <3>1. m - 1 \in 1 .. n - 1 /\ ~ (m - 1 < k) /\ (m - 1) + 1 = m
      BY <2>4, <1>a
    <3>2. r[m - 1] = s[m]
      BY <3>1, <1>2
    <3> QED
      BY <2>1, <3>1, <3>2
  <2> QED
    BY <2>2, <2>3, <2>4, <1>a
<1> QED
  BY <1>2, <1>7, <1>9, <1>10, <1>11 DEF IsListing, r, e

-----------------------------------------------------------------------------
(***************************************************************************)
(* What the functions do to the listing.                                   *)
(***************************************************************************)

HasListing == \E s \in Seq(heap) : IsListing(s, heap, next)

\* Anchor and NULL are no cells.
LEMMA AnchorIsNoCell ==
  ASSUME TypeOK
  PROVE  Anchor \notin heap /\ NULL \notin heap
BY NodeAssumption DEF TypeOK

\* Insert puts one new cell behind its left neighbour.
LEMMA InsertLists ==
  ASSUME Inv, NEW o \in Obj, NEW s, IsListing(s, heap, next),
         NEW k \in 0 .. Len(s), NEW q, q = next[At(s, k)],
         Insert(o, At(s, k), q)
  PROVE  /\ Kept
         /\ \E e \in Elem \ heap :
              /\ heap' = heap \cup {e} /\ obj'[e] = o
              /\ IsListing(InsertAt(s, k + 1, e), heap', next')
<1> USE NodeAssumption
<1> DEFINE p == At(s, k)
<1>1. PICK e \in Elem \ heap : Link(e, o, p, q) /\ heap' = heap \cup {e}
  BY DEF Insert
<1>2. TypeOK /\ Anchor \notin heap /\ NULL \notin heap
  BY AnchorIsNoCell DEF Inv
<1>3. p \in heap \cup {Anchor} /\ q = At(s, k + 1)
  <2>1. p \in heap \cup {Anchor}
    BY <1>2, Places
  <2> QED
    BY <2>1 DEF IsListing
<1> HIDE DEF p
<1>4. e \in Node /\ e # Anchor /\ e # p /\ heap \cup {Anchor} \subseteq Node
  BY <1>1, <1>2, <1>3 DEF Node, TypeOK
<1>5. /\ next' = [next EXCEPT ![e] = q, ![p] = e]
      /\ obj' = [obj EXCEPT ![e] = o]
      /\ next \in [Node -> Node \cup {NULL}] /\ obj \in [Node -> Obj \cup {NULL}]
  BY <1>1, <1>2 DEF Link, TypeOK
<1>6. /\ \A n \in heap \cup {Anchor} : next'[n] = IF n = p THEN e ELSE next[n]
      /\ next'[e] = q
  BY <1>1, <1>3, <1>4, <1>5
<1>7. obj'[e] = o /\ \A n \in heap : obj'[n] = obj[n]
  BY <1>1, <1>4, <1>5
<1>8. IsListing(InsertAt(s, k + 1, e), heap', next')
  <2> DEFINE link == next'
  <2>1. /\ \A n \in heap \cup {Anchor} :
             link[n] = IF n = At(s, k) THEN e ELSE next[n]
        /\ link[e] = At(s, k + 1)
    BY <1>3, <1>6 DEF p
  <2>2. e \notin heap /\ e # Anchor
    BY <1>1, <1>4
  <2> HIDE DEF link
  <2>3. IsListing(InsertAt(s, k + 1, e), heap \cup {e}, link)
    BY <1>2, <2>1, <2>2, ListingInsert
  <2> QED
    BY <1>1, <2>3 DEF link
<1> QED
  BY <1>1, <1>7, <1>8 DEF Kept

\* Unlink takes one cell out and leaves the others in order.
LEMMA UnlinkLists ==
  ASSUME Inv, NEW s, IsListing(s, heap, next), NEW k \in 1 .. Len(s),
         Unlink(s[k])
  PROVE  /\ Kept
         /\ IsListing(RemoveAt(s, k), heap', next')
<1> USE NodeAssumption
<1> DEFINE e == s[k]
           p == At(s, k - 1)
           q == At(s, k + 1)
<1>1. TypeOK /\ ChainsAreInverse /\ Anchor \notin heap /\ NULL \notin heap
  BY AnchorIsNoCell DEF Inv
<1>2. Len(s) \in Nat /\ k - 1 \in 0 .. Len(s) /\ k \in 0 .. Len(s)
      /\ (k - 1) + 1 = k
  BY <1>1, Places
<1>3. e \in heap /\ e = At(s, k) /\ p \in heap \cup {Anchor}
  BY <1>1, <1>2, Places
<1>4. next[p] = e /\ next[e] = q
  BY <1>2, <1>3 DEF IsListing
<1>5. prev[e] = p
  <2> HIDE DEF p, e
  <2> QED BY <1>1, <1>3, <1>4 DEF ChainsAreInverse
<1> HIDE DEF e, p, q
<1>6. /\ next' = [next EXCEPT ![p] = q, ![e] = NULL]
      /\ obj' = [obj EXCEPT ![e] = NULL]
      /\ heap' = heap \ {e}
      /\ next \in [Node -> Node \cup {NULL}] /\ obj \in [Node -> Obj \cup {NULL}]
  BY <1>1, <1>4, <1>5 DEF Unlink, TypeOK, e
<1>7. heap \cup {Anchor} \subseteq Node
  BY <1>1 DEF TypeOK, Node
<1>8. /\ \A n \in (heap \ {e}) \cup {Anchor} :
           next'[n] = IF n = p THEN q ELSE next[n]
      /\ \A n \in heap \ {e} : obj'[n] = obj[n]
  BY <1>1, <1>3, <1>6, <1>7
<1>9. IsListing(RemoveAt(s, k), heap', next')
  <2> DEFINE link == next'
  <2>1. \A n \in (heap \ {s[k]}) \cup {Anchor} :
          link[n] = IF n = At(s, k - 1) THEN At(s, k + 1) ELSE next[n]
    BY <1>8 DEF e, p, q
  <2> HIDE DEF link
  <2>2. IsListing(RemoveAt(s, k), heap \ {s[k]}, link)
    BY <1>1, <2>1, ListingRemove
  <2> QED
    BY <1>6, <2>2 DEF link, e
<1> QED
  BY <1>6, <1>8, <1>9 DEF Kept

\* The functions keep the objects of the cells that stay, and make of the
\* listing the sequence r.
Becomes(r) == Kept /\ IsListing(r, heap', next')

LEMMA InsertActs ==
  ASSUME IInv, NEW o \in Obj, NEW s, IsListing(s, heap, next),
         NEW k \in 0 .. Len(s), NEW p, p = At(s, k), NEW q, q = next[p],
         Insert(o, p, q)
  PROVE  Becomes(InsertAt(s, k + 1, New(o)))
<1>1. /\ Kept
      /\ \E e \in Elem \ heap :
           /\ heap' = heap \cup {e} /\ obj'[e] = o
           /\ IsListing(InsertAt(s, k + 1, e), heap', next')
  BY InsertLists DEF IInv
<1>2. PICK e \in Elem \ heap :
        /\ heap' = heap \cup {e} /\ obj'[e] = o
        /\ IsListing(InsertAt(s, k + 1, e), heap', next')
  BY <1>1
<1>3. heap' \ heap = {e}
  BY <1>2
<1>4. New(o) = e
  BY <1>2, <1>3 DEF New
<1> QED
  BY <1>1, <1>2, <1>4 DEF Becomes

\* Where the neighbours of a cell are in the listing.
LEMMA NeighboursAreListed ==
  ASSUME Inv, NEW s, IsListing(s, heap, next)
  PROVE  /\ Len(s) \in Nat
         /\ At(s, 0) = Anchor /\ prev[Anchor] = At(s, Len(s))
         /\ \A m \in 1 .. Len(s) : /\ At(s, m) = s[m] /\ s[m] \in heap
                                   /\ next[At(s, m - 1)] = s[m]
                                   /\ prev[s[m]] = At(s, m - 1)
         /\ next[At(s, Len(s))] = Anchor
<1> DEFINE n == Len(s)
<1>1. Anchor \notin heap /\ ChainsAreInverse
  BY AnchorIsNoCell DEF Inv
<1>2. /\ n \in Nat
      /\ At(s, 0) = Anchor /\ At(s, n + 1) = Anchor
      /\ \A m \in 1 .. n : At(s, m) = s[m] /\ s[m] \in heap
      /\ \A k \in 0 .. n : At(s, k) \in heap \cup {Anchor}
  BY <1>1, Places
<1>3. \A k \in 0 .. n : next[At(s, k)] = At(s, k + 1)
  BY DEF IsListing
<1>4. \A k \in 0 .. n : prev[next[At(s, k)]] = At(s, k)
  BY <1>1, <1>2 DEF ChainsAreInverse
<1> HIDE DEF n
<1>5. \A k \in 0 .. n : prev[At(s, k + 1)] = At(s, k)
  BY <1>3, <1>4
<1>6. prev[Anchor] = At(s, n) /\ next[At(s, n)] = Anchor
  <2>1. n \in 0 .. n
    BY <1>2
  <2> QED
    BY <2>1, <1>2, <1>3, <1>5
<1>7. ASSUME NEW m \in 1 .. n
      PROVE  next[At(s, m - 1)] = s[m] /\ prev[s[m]] = At(s, m - 1)
  <2>1. m - 1 \in 0 .. n /\ (m - 1) + 1 = m /\ At(s, m) = s[m]
    BY <1>2
  <2> QED
    BY <2>1, <1>3, <1>5
<1> QED
  BY <1>2, <1>6, <1>7 DEF n

LEMMA AppendActs ==
  ASSUME IInv, NEW o \in Obj, NEW s, IsListing(s, heap, next),
         LinkedListAppend(o)
  PROVE  Becomes(Append(s, New(o)))
<1>1. /\ Len(s) \in Nat /\ prev[Anchor] = At(s, Len(s))
      /\ next[At(s, Len(s))] = Anchor
  BY NeighboursAreListed DEF IInv
<1>2. Insert(o, prev[Anchor], Anchor) /\ Len(s) \in 0 .. Len(s)
  BY <1>1 DEF LinkedListAppend
<1>3. Becomes(InsertAt(s, Len(s) + 1, New(o)))
  BY ONLY IInv, o \in Obj, IsListing(s, heap, next), <1>1, <1>2, InsertActs
<1>4. InsertAt(s, Len(s) + 1, New(o)) = Append(s, New(o))
  BY InsertAtEnd DEF IsListing
<1> QED
  BY <1>3, <1>4

LEMMA PrependActs ==
  ASSUME IInv, NEW o \in Obj, NEW s, IsListing(s, heap, next),
         LinkedListPrepend(o)
  PROVE  Becomes(<<New(o)>> \o s)
<1>1. Len(s) \in Nat /\ At(s, 0) = Anchor
  BY NeighboursAreListed DEF IInv
<1>2. Insert(o, Anchor, next[Anchor]) /\ 0 \in 0 .. Len(s) /\ 0 + 1 = 1
  BY <1>1 DEF LinkedListPrepend
<1>3. Becomes(InsertAt(s, 1, New(o)))
  BY ONLY IInv, o \in Obj, IsListing(s, heap, next), <1>1, <1>2, InsertActs
<1>4. InsertAt(s, 1, New(o)) = <<New(o)>> \o s
  BY InsertAtFront DEF IsListing
<1> QED
  BY <1>3, <1>4

LEMMA InsertAfterActs ==
  ASSUME IInv, NEW o \in Obj, NEW s, IsListing(s, heap, next),
         NEW m \in 1 .. Len(s), LinkedListInsertAfter(o, s[m])
  PROVE  Becomes(InsertAt(s, m + 1, New(o)))
<1>1. Len(s) \in Nat /\ At(s, m) = s[m] /\ m \in 0 .. Len(s)
  BY NeighboursAreListed DEF IInv
<1>2. Insert(o, s[m], next[s[m]])
  BY DEF LinkedListInsertAfter
<1> QED
  BY ONLY IInv, o \in Obj, IsListing(s, heap, next), <1>1, <1>2, InsertActs

LEMMA InsertBeforeActs ==
  ASSUME IInv, NEW o \in Obj, NEW s, IsListing(s, heap, next),
         NEW m \in 1 .. Len(s), LinkedListInsertBefore(o, s[m])
  PROVE  Becomes(InsertAt(s, m, New(o)))
<1>1. /\ m - 1 \in 0 .. Len(s) /\ (m - 1) + 1 = m
      /\ prev[s[m]] = At(s, m - 1) /\ s[m] = next[prev[s[m]]]
  BY NeighboursAreListed DEF IInv
<1>2. Insert(o, prev[s[m]], s[m])
  BY DEF LinkedListInsertBefore
<1>3. Becomes(InsertAt(s, (m - 1) + 1, New(o)))
  BY ONLY IInv, o \in Obj, IsListing(s, heap, next), <1>1, <1>2, InsertActs
<1> QED
  BY <1>1, <1>3

LEMMA UnlinkActs ==
  ASSUME IInv, NEW s, IsListing(s, heap, next), NEW m \in 1 .. Len(s),
         Unlink(s[m])
  PROVE  Becomes(RemoveAt(s, m))
BY UnlinkLists DEF IInv, Becomes

\* The loop of LinkedListUnlinkAll takes the first cell.
LEMMA UnlinkAllTurnActs ==
  ASSUME IInv, NEW s, IsListing(s, heap, next), UnlinkAllTurn
  PROVE  Becomes(Tail(s))
<1>1. cursor \in heap /\ cursor = next[Anchor] /\ Unlink(cursor)
  BY UnlinkAllTurnMoves DEF UnlinkAllTurn, IInv, CursorIsFirst
<1>2. /\ Len(s) \in Nat /\ At(s, 0) = Anchor
      /\ \A m \in 1 .. Len(s) : next[At(s, m - 1)] = s[m]
  BY NeighboursAreListed DEF IInv
<1>3. 1 \in 1 .. Len(s)
  <2>1. \E m \in 1 .. Len(s) : s[m] = cursor
    BY <1>1 DEF IsListing
  <2> QED
    BY <2>1, <1>2
<1>4. s[1] = cursor
  <2>1. 1 - 1 = 0
    OBVIOUS
  <2> QED
    BY <2>1, <1>1, <1>2, <1>3
<1>5. Becomes(RemoveAt(s, 1))
  BY <1>1, <1>3, <1>4, UnlinkActs
<1>6. RemoveAt(s, 1) = Tail(s)
  <2>1. s \in Seq(heap)
    BY DEF IsListing
  <2> QED
    BY ONLY <1>3, <2>1, RemoveAtFront
<1> QED
  BY <1>5, <1>6

\* LinkedListInit leaves an anchor that is its own neighbour.
LEMMA InitInv == LinkedListInit => IInv
<1> SUFFICES ASSUME LinkedListInit PROVE IInv
  OBVIOUS
<1> USE NodeAssumption
<1>1. Anchor \in Node
  BY DEF Node
<1>2. /\ next \in [Node -> Node \cup {NULL}] /\ prev \in [Node -> Node \cup {NULL}]
      /\ obj \in [Node -> Obj \cup {NULL}]
      /\ next[Anchor] = Anchor /\ prev[Anchor] = Anchor
      /\ \A n \in Elem : next[n] = NULL /\ prev[n] = NULL
  BY <1>1 DEF LinkedListInit, Node
<1>3. /\ heap = {} /\ cursor = NULL /\ num_members = initialCount
      /\ num_members \in Int /\ initialCount \in Int
  BY DEF LinkedListInit
<1>4. Inv
  BY <1>2, <1>3 DEF Inv, TypeOK, ChainsAreInverse
<1>5. Counted
  BY <1>3, FS_EmptySet DEF Counted, CountFollows, LinkedListLength
<1> QED
  BY <1>3, <1>4, <1>5 DEF IInv, CursorIsFirst

\* Every function of the file, and every turn of the loop that unlinks all,
\* keeps the pointers consistent and the count right.
LEMMA NextInv == IInv /\ [Next]_vars => IInv'
<1> SUFFICES ASSUME IInv, [Next]_vars PROVE IInv'
  OBVIOUS
<1> USE NodeAssumption
<1>1. /\ Inv /\ Counted /\ CursorIsFirst
      /\ Anchor \in Live /\ heap \subseteq Live
      /\ \A n \in Live : /\ next[n] \in Live /\ prev[n] \in Live
                         /\ next[prev[n]] = n /\ prev[next[n]] = n
  BY DEF Live, IInv, Inv, TypeOK, ChainsAreInverse
<1>2. ASSUME NEW o \in Obj, NEW p \in Live, NEW q \in Live, next[p] = q,
             Insert(o, p, q)
      PROVE  IInv'
  <2>1. CursorIsFirst'
    BY <1>2 DEF Insert, CursorIsFirst
  <2> QED
    BY <1>1, <1>2, <2>1, InsertPreservesInv, InsertCounts DEF IInv
<1>3. ASSUME NEW o \in Obj, LinkedListAppend(o) \/ LinkedListPrepend(o)
      PROVE  IInv'
  BY <1>1, <1>2, <1>3 DEF LinkedListAppend, LinkedListPrepend
<1>4. ASSUME NEW o \in Obj, NEW elem \in Elem,
             LinkedListInsertAfter(o, elem) \/ LinkedListInsertBefore(o, elem)
      PROVE  IInv'
  BY <1>1, <1>2, <1>4 DEF LinkedListInsertAfter, LinkedListInsertBefore
<1>5. ASSUME NEW elem \in Elem, LinkedListUnlink(elem) PROVE IInv'
  <2>1. elem \in heap /\ Unlink(elem) /\ cursor' = NULL
    BY <1>5 DEF LinkedListUnlink
  <2> QED
    BY <1>1, <2>1, UnlinkPreservesInv, UnlinkCounts DEF IInv, CursorIsFirst
<1>6. CASE UnlinkAllStart
  <2>1. cursor' = NULL \/ (cursor' = next[Anchor] /\ next[Anchor] \in heap)
    <3>1. CASE next[Anchor] = Anchor
      BY <3>1, <1>1, <1>6 DEF UnlinkAllStart, LinkedListFirst, LinkedListEmpty
    <3>2. CASE next[Anchor] # Anchor
      BY <3>2, <1>1, <1>6 DEF UnlinkAllStart, LinkedListFirst, LinkedListEmpty, Live
    <3> QED
      BY <3>1, <3>2
  <2>2. UNCHANGED <<num_members, next, prev, obj, heap, initialCount>>
    BY <1>6 DEF UnlinkAllStart
  <2> QED
    BY <1>1, <2>1, <2>2
       DEF IInv, Inv, TypeOK, ChainsAreInverse, CursorIsFirst, Counted, CountFollows, LinkedListLength
<1>7. CASE UnlinkAllTurn
  <2>1. /\ cursor \in heap /\ Unlink(cursor)
        /\ cursor' \in heap' \cup {NULL} /\ CursorIsFirst'
    BY <1>7, UnlinkAllTurnMoves DEF UnlinkAllTurn
  <2> QED
    BY <1>1, <2>1, UnlinkPreservesInv, UnlinkCounts DEF IInv
<1>8. CASE UNCHANGED vars
  BY <1>8 DEF vars, IInv, Inv, TypeOK, ChainsAreInverse, CursorIsFirst, Counted,
              CountFollows, LinkedListLength
<1> QED
  BY <1>3, <1>4, <1>5, <1>6, <1>7, <1>8 DEF Next

\* In every reachable state, however many cells there are.
LEMMA IInvIsInvariant == Spec => []IInv
<1> QED
  BY InitInv, NextInv, PTL DEF Spec

\* Pointers of the anchor and of cells in use never lead to a freed cell,
\* whatever functions of linked_list.c are called in which order.
THEOREM PointersAreLive == Spec => []TypeOK
<1>1. IInv => TypeOK
  BY DEF IInv, Inv
<1> QED
  BY <1>1, IInvIsInvariant, PTL

\* The forward and the backward chain stay each other's inverse.
THEOREM BothChainsAgree == Spec => []ChainsAreInverse
<1>1. IInv => ChainsAreInverse
  BY DEF IInv, Inv
<1> QED
  BY <1>1, IInvIsInvariant, PTL

\* num_members counts the cells, from its value before LinkedListInit on.
THEOREM CountIsRight == Spec => []CountFollows
<1>1. IInv => CountFollows
  BY DEF IInv, Counted
<1> QED
  BY <1>1, IInvIsInvariant, PTL

\* When the loop of LinkedListUnlinkAll ends, the list is empty.
THEOREM UnlinkAllIsComplete == Spec => UnlinkAllEmpties
<1>1. IInv /\ [Next]_vars
        => [cursor # NULL /\ cursor' = NULL => LinkedListEmpty']_vars
  <2> SUFFICES ASSUME IInv, Next, cursor # NULL, cursor' = NULL
               PROVE  LinkedListEmpty'
    OBVIOUS
  <2>1. UnlinkAllTurn
    BY DEF Next, LinkedListAppend, LinkedListPrepend, LinkedListInsertAfter,
           LinkedListInsertBefore, Insert, LinkedListUnlink, UnlinkAllStart
  <2> QED
    BY <2>1, UnlinkAllTurnMoves
<1> QED
  BY <1>1, IInvIsInvariant, PTL DEF Spec, UnlinkAllEmpties

-----------------------------------------------------------------------------
(***************************************************************************)
(* The cells in use always have a listing, and the walk finds it.          *)
(***************************************************************************)

\* The empty list has the empty listing ...
LEMMA InitListing == LinkedListInit => HasListing
<1> SUFFICES ASSUME LinkedListInit PROVE HasListing
  OBVIOUS
<1>1. heap = {} /\ next[Anchor] = Anchor
  BY DEF LinkedListInit, Node
<1>2. << >> \in Seq(heap) /\ Len(<< >>) = 0
  BY EmptySeq
<1>3. At(<< >>, 0) = Anchor /\ At(<< >>, 1) = Anchor
  BY <1>2 DEF At
<1>4. IsListing(<< >>, heap, next)
  BY <1>1, <1>2, <1>3 DEF IsListing
<1> QED
  BY <1>2, <1>4 DEF HasListing

\* ... and every step leaves one behind, and keeps objects where they are.
LEMMA NextListing ==
  IInv /\ HasListing /\ [Next]_vars => HasListing' /\ (Next => Kept)
<1> SUFFICES ASSUME IInv, HasListing, [Next]_vars
             PROVE  HasListing' /\ (Next => Kept)
  OBVIOUS
<1>1. PICK s : IsListing(s, heap, next)
  BY DEF HasListing
<1>2. \A e \in heap : \E m \in 1 .. Len(s) : s[m] = e
  BY <1>1 DEF IsListing
<1>3. ASSUME NEW r, Becomes(r) PROVE HasListing' /\ Kept
  BY <1>3 DEF Becomes, HasListing, IsListing
<1>4. ASSUME NEW o \in Obj, LinkedListAppend(o) PROVE HasListing' /\ Kept
  BY <1>1, <1>3, <1>4, AppendActs
<1>5. ASSUME NEW o \in Obj, LinkedListPrepend(o) PROVE HasListing' /\ Kept
  BY <1>1, <1>3, <1>5, PrependActs
<1>6. ASSUME NEW o \in Obj, NEW elem \in Elem, LinkedListInsertAfter(o, elem)
      PROVE  HasListing' /\ Kept
  <2>1. PICK m \in 1 .. Len(s) : s[m] = elem
    BY <1>2, <1>6 DEF LinkedListInsertAfter
  <2>2. Becomes(InsertAt(s, m + 1, New(o)))
    BY <1>1, <1>6, <2>1, InsertAfterActs
  <2> QED
    BY <1>3, <2>2
<1>7. ASSUME NEW o \in Obj, NEW elem \in Elem, LinkedListInsertBefore(o, elem)
      PROVE  HasListing' /\ Kept
  <2>1. PICK m \in 1 .. Len(s) : s[m] = elem
    BY <1>2, <1>7 DEF LinkedListInsertBefore
  <2>2. Becomes(InsertAt(s, m, New(o)))
    BY <1>1, <1>7, <2>1, InsertBeforeActs
  <2> QED
    BY <1>3, <2>2
<1>8. ASSUME NEW elem \in Elem, LinkedListUnlink(elem)
      PROVE  HasListing' /\ Kept
  <2>1. PICK m \in 1 .. Len(s) : s[m] = elem
    BY <1>2, <1>8 DEF LinkedListUnlink
  <2>2. Becomes(RemoveAt(s, m))
    BY <1>1, <1>8, <2>1, UnlinkActs DEF LinkedListUnlink
  <2> QED
    BY <1>3, <2>2
<1>9. CASE UnlinkAllStart
  BY <1>9 DEF UnlinkAllStart, HasListing, Kept
<1>10. CASE UnlinkAllTurn
  BY <1>1, <1>3, <1>10, UnlinkAllTurnActs
<1>11. CASE UNCHANGED vars
  BY <1>11 DEF vars, HasListing, Kept
<1> QED
  BY <1>4, <1>5, <1>6, <1>7, <1>8, <1>9, <1>10, <1>11 DEF Next

LEMMA ListingIsInvariant == Spec => []HasListing
<1> QED
  BY InitListing, NextListing, IInvIsInvariant, PTL DEF Spec

\* Walking along the pointers from the anchor meets each cell in use once and
\* comes back, in both directions, however many cells there are: every loop
\* over a list terminates and misses nothing.
THEOREM WalkIsComplete == Spec => []WalkMeetsEveryCell
<1>1. IInv /\ HasListing => WalkMeetsEveryCell
  <2> SUFFICES ASSUME IInv, HasListing PROVE WalkMeetsEveryCell
    OBVIOUS
  <2>1. PICK s : IsListing(s, heap, next)
    BY DEF HasListing
  <2>2. Anchor \notin heap /\ NULL \notin heap /\ ChainsAreInverse
    BY AnchorIsNoCell DEF IInv, Inv
  <2>3. Elements = s
    BY <2>1, <2>2, ListingIsFound DEF Elements
  <2>4. IsListing(Reverse(s), heap, prev)
    BY <2>1, <2>2, ListingBackwards DEF ChainsAreInverse
  <2>5. ElementsBackwards = Reverse(s)
    BY <2>2, <2>4, ListingIsFound DEF ElementsBackwards
  <2>6. s \in Seq(heap) /\ Len(s) \in Nat /\ DOMAIN s = 1 .. Len(s)
    BY <2>1, LenProperties DEF IsListing
  <2>7. Reverse(Reverse(s)) = s
    BY <2>6, ReverseTwice
  <2>8. ToSet(s) = heap
    <3>1. \A k \in 1 .. Len(s) : s[k] \in heap
      BY <2>6, ElementOfSeq
    <3> QED
      BY <2>1, <2>6, <3>1 DEF ToSet, IsListing
  <2>9. Len(s) = Cardinality(heap)
    BY <2>1, ListingCounts
  <2> QED
    BY <2>3, <2>5, <2>7, <2>8, <2>9 DEF WalkMeetsEveryCell
<1> QED
  BY <1>1, IInvIsInvariant, ListingIsInvariant, PTL

\* On the sequence of cells each function of linked_list.c does what its name
\* says: the modules that take lists for sequences may do so.
THEOREM ListsAreSequences == Spec => ActsOnSequence
<1>1. IInv /\ HasListing /\ IInv' /\ [Next]_vars => [ActAsNamed]_vars
  <2> SUFFICES ASSUME IInv, HasListing, IInv', Next PROVE ActAsNamed
    OBVIOUS
  <2>1. PICK s : IsListing(s, heap, next)
    BY DEF HasListing
  <2>2. Elements = s
    BY <2>1, AnchorIsNoCell, ListingIsFound DEF IInv, Inv, Elements
  <2>3. ASSUME NEW r, Becomes(r) PROVE Elements' = r
    <3> DEFINE H == heap'
               link == next'
    <3>1. Anchor \notin H /\ NULL \notin H
      BY NodeAssumption DEF IInv, Inv, TypeOK
    <3>2. IsListing(r, H, link)
      BY <2>3 DEF Becomes
    <3>3. Elements' = Walk(link, Cardinality(H) + 1)
      BY DEF Elements
    <3> HIDE DEF H, link
    <3> QED
      BY <3>1, <3>2, <3>3, ListingIsFound
  <2>4. ASSUME NEW elem \in heap
        PROVE  Place(elem) \in 1 .. Len(s) /\ s[Place(elem)] = elem
    <3>1. DOMAIN s = 1 .. Len(s)
      BY <2>1, LenProperties DEF IsListing
    <3>2. \E k \in DOMAIN s : s[k] = elem
      BY <2>1, <3>1 DEF IsListing
    <3> QED
      BY <2>2, <3>1, <3>2 DEF Place
  <2>5. Kept
    BY NextListing
  <2>6. ASSUME NEW o \in Obj
        PROVE  /\ LinkedListAppend(o) => Elements' = Append(s, New(o))
               /\ LinkedListPrepend(o) => Elements' = <<New(o)>> \o s
    BY <2>1, <2>3, AppendActs, PrependActs
  <2>7. ASSUME NEW o \in Obj, NEW elem \in heap
        PROVE  /\ LinkedListInsertAfter(o, elem) =>
                    Elements' = InsertAt(s, Place(elem) + 1, New(o))
               /\ LinkedListInsertBefore(o, elem) =>
                    Elements' = InsertAt(s, Place(elem), New(o))
    BY <2>1, <2>3, <2>4, InsertAfterActs, InsertBeforeActs
  <2>8. ASSUME NEW elem \in heap, LinkedListUnlink(elem)
        PROVE  Elements' = RemoveAt(s, Place(elem))
    BY <2>1, <2>3, <2>4, <2>8, UnlinkActs DEF LinkedListUnlink
  <2>9. UnlinkAllTurn => Elements' = Tail(s)
    BY <2>1, <2>3, UnlinkAllTurnActs
  <2> QED
    BY <2>2, <2>5, <2>6, <2>7, <2>8, <2>9 DEF ActAsNamed
<1> QED
  BY <1>1, IInvIsInvariant, ListingIsInvariant, PTL DEF Spec, ActsOnSequence

=============================================================================
