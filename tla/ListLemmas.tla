----------------------------- MODULE ListLemmas -----------------------------
(***************************************************************************)
(* Facts the proofs about several components share: minima, recursion on   *)
(* an index, and what inserting into a list and removing from it do to its *)
(* elements.                                                               *)
(***************************************************************************)
EXTENDS Integers, SequencesExt, SequenceTheorems, WellFoundedInduction, TLAPS

-----------------------------------------------------------------------------
(***************************************************************************)
(* Minima and induction up to a number.                                    *)
(***************************************************************************)

\* A set of naturals that is not empty has a least element, and Min is one.
LEMMA MinProperties ==
  ASSUME NEW S \in SUBSET Nat, S # {}
  PROVE  Min(S) \in S /\ \A y \in S : Min(S) <= y
<1> DEFINE R == { ss \in Nat \X Nat : ss[1] < ss[2] }
<1>1. IsWellFoundedOn(R, Nat)
  BY NatLessThanWellFounded DEF OpToRel
<1>2. PICK x \in S : \A y \in S : ~ (<<y, x>> \in R)
  <2> HIDE DEF R
  <2> QED BY <1>1, WFMin
<1>3. \A y \in S : x <= y
  <2> TAKE y \in S
  <2>1. <<y, x>> \in Nat \X Nat /\ <<y, x>>[1] = y /\ <<y, x>>[2] = x
    OBVIOUS
  <2>2. ~ (y < x)
    BY <1>2, <2>1
  <2> QED
    BY <2>2
<1> QED
  BY <1>3 DEF Min

\* A set that has 0, and with each number below n the next one, has every
\* number up to n.  Loops that count up to the length of a list are followed
\* with it.
LEMMA UpTo ==
  ASSUME NEW n \in Nat, NEW S, 0 \in S,
         \A k \in 1 .. n : k - 1 \in S => k \in S
  PROVE  0 .. n \subseteq S
<1> DEFINE T == 0 .. n \ S
<1> SUFFICES ASSUME T # {} PROVE FALSE
  OBVIOUS
<1> DEFINE m == Min(T)
<1>1. T \in SUBSET Nat
  OBVIOUS
<1>2. m \in T /\ \A y \in T : m <= y
  <2> HIDE DEF T
  <2> QED BY <1>1, MinProperties
<1> HIDE DEF m
<1>3. m \in 1 .. n /\ m - 1 \in 0 .. n
  BY <1>2
<1>4. m - 1 \in S
  BY <1>2, <1>3
<1> QED
  BY <1>2, <1>3, <1>4

\* Two functions that start alike and continue alike are alike: a recursive
\* function is the only solution of its equation.
LEMMA SameRecursion ==
  ASSUME NEW n \in Nat, NEW f, NEW g, f[0] = g[0],
         \A k \in 1 .. n : f[k - 1] = g[k - 1] => f[k] = g[k]
  PROVE  \A k \in 0 .. n : f[k] = g[k]
<1> DEFINE S == { k \in 0 .. n : f[k] = g[k] }
<1>1. 0 \in S /\ \A k \in 1 .. n : k - 1 \in S => k \in S
  OBVIOUS
<1>2. 0 .. n \subseteq S
  <2> HIDE DEF S
  <2> QED BY <1>1, UpTo
<1> QED
  BY <1>2

-----------------------------------------------------------------------------
(***************************************************************************)
(* Sequences, and the two list operations.                                 *)
(***************************************************************************)

\* A function on 1 .. n is a sequence of length n.
LEMMA FunctionIsSeq ==
  ASSUME NEW n \in Nat, NEW S, NEW f \in [1 .. n -> S]
  PROVE  f \in Seq(S) /\ Len(f) = n
<1>1. f \in Seq(S)
  BY SeqDef
<1> DEFINE m == Len(f)
<1>2. m \in Nat /\ 1 .. m = 1 .. n
  BY <1>1, LenProperties
<1> HIDE DEF m
<1>3. m = n
  BY <1>2
<1> QED
  BY <1>1, <1>3 DEF m

LEMMA ReverseProperties ==
  ASSUME NEW S, NEW s \in Seq(S)
  PROVE  /\ Reverse(s) \in Seq(S) /\ Len(Reverse(s)) = Len(s)
         /\ \A k \in 1 .. Len(s) : Reverse(s)[k] = s[(Len(s) - k) + 1]
<1> DEFINE n == Len(s)
           r == Reverse(s)
<1>1. /\ n \in Nat /\ \A k \in 1 .. n : s[k] \in S
      /\ r = [k \in 1 .. n |-> s[(n - k) + 1]]
  BY LenProperties, ElementOfSeq DEF Reverse
<1> HIDE DEF r, n
<1>2. \A k \in 1 .. n : (n - k) + 1 \in 1 .. n
  BY <1>1
<1>3. r \in [1 .. n -> S]
  BY <1>1, <1>2
<1>4. r \in Seq(S) /\ Len(r) = n
  BY <1>1, <1>3, FunctionIsSeq
<1> QED
  BY <1>1, <1>4 DEF r, n

LEMMA ReverseTwice ==
  ASSUME NEW S, NEW s \in Seq(S)
  PROVE  Reverse(Reverse(s)) = s
<1> DEFINE n == Len(s)
           r == Reverse(s)
           t == Reverse(r)
<1>1. n \in Nat
  BY LenProperties
<1>2. r \in Seq(S) /\ Len(r) = n /\ \A k \in 1 .. n : r[k] = s[(n - k) + 1]
  BY ReverseProperties
<1> HIDE DEF r, n
<1>3. t \in Seq(S) /\ Len(t) = n /\ \A k \in 1 .. n : t[k] = r[(n - k) + 1]
  BY <1>2, ReverseProperties
<1> HIDE DEF t
<1>4. \A k \in 1 .. n : /\ (n - k) + 1 \in 1 .. n
                        /\ (n - ((n - k) + 1)) + 1 = k
  BY <1>1
<1>5. \A k \in 1 .. n : t[k] = s[k]
  BY <1>2, <1>3, <1>4
<1>6. t = s
  BY <1>3, <1>5, SeqEqual DEF n
<1> QED
  BY <1>6 DEF t, r

\* RemoveAt closes the gap it leaves.
LEMMA RemoveAtProperties ==
  ASSUME NEW S, NEW s \in Seq(S), NEW i \in 1 .. Len(s)
  PROVE  /\ RemoveAt(s, i) \in Seq(S)
         /\ Len(RemoveAt(s, i)) = Len(s) - 1
         /\ \A j \in 1 .. Len(s) - 1 :
              RemoveAt(s, i)[j] = IF j < i THEN s[j] ELSE s[j + 1]
<1> DEFINE a == SubSeq(s, 1, i - 1)
           b == SubSeq(s, i + 1, Len(s))
<1>1. Len(s) \in Nat /\ \A j \in 1 .. Len(s) : s[j] \in S
  BY LenProperties, ElementOfSeq
<1>2. /\ a \in Seq(S)
      /\ Len(a) = i - 1
      /\ \A j \in 1 .. i - 1 : a[j] = s[j]
  <2>1. \A j \in 1 .. i - 1 : s[j] \in S
    BY <1>1
  <2> HIDE DEF a
  <2>2. /\ a \in Seq(S)
        /\ Len(a) = IF 1 <= i - 1 THEN (i - 1) - 1 + 1 ELSE 0
        /\ \A j \in 1 .. (i - 1) - 1 + 1 : a[j] = s[1 + j - 1]
    BY <1>1, <2>1, SubSeqProperties DEF a
  <2> QED
    BY <1>1, <2>2
<1>3. /\ b \in Seq(S)
      /\ Len(b) = Len(s) - i
      /\ \A j \in 1 .. Len(s) - i : b[j] = s[i + j]
  <2>1. \A j \in i + 1 .. Len(s) : s[j] \in S
    BY <1>1
  <2> HIDE DEF b
  <2>2. /\ b \in Seq(S)
        /\ Len(b) = IF i + 1 <= Len(s) THEN Len(s) - (i + 1) + 1 ELSE 0
        /\ \A j \in 1 .. Len(s) - (i + 1) + 1 : b[j] = s[(i + 1) + j - 1]
    BY <1>1, <2>1, SubSeqProperties DEF b
  <2> QED
    BY <1>1, <2>2
<1>4. RemoveAt(s, i) = a \o b
  BY DEF RemoveAt
<1> HIDE DEF a, b
<1>5. /\ a \o b \in Seq(S)
      /\ Len(a \o b) = Len(a) + Len(b)
      /\ \A j \in 1 .. Len(a) + Len(b) :
           (a \o b)[j] = IF j <= Len(a) THEN a[j] ELSE b[j - Len(a)]
  BY <1>2, <1>3, ConcatProperties
<1> QED
  BY <1>1, <1>2, <1>3, <1>4, <1>5

\* The list r is s with e at place i.
HasInserted(S, s, i, e, r) ==
  /\ r \in Seq(S)
  /\ Len(r) = Len(s) + 1
  /\ \A j \in 1 .. Len(s) + 1 :
       r[j] = IF j < i THEN s[j] ELSE IF j = i THEN e ELSE s[j - 1]

\* InsertAt moves what was at its place and behind one place up.
LEMMA InsertAtProperties ==
  ASSUME NEW S, NEW s \in Seq(S), NEW i \in 1 .. Len(s) + 1, NEW e \in S
  PROVE  HasInserted(S, s, i, e, InsertAt(s, i, e))
<1> USE DEF HasInserted
<1> DEFINE a == SubSeq(s, 1, i - 1)
           b == SubSeq(s, i, Len(s))
<1>1. Len(s) \in Nat /\ \A j \in 1 .. Len(s) : s[j] \in S
  BY LenProperties, ElementOfSeq
<1>2. /\ a \in Seq(S)
      /\ Len(a) = i - 1
      /\ \A j \in 1 .. i - 1 : a[j] = s[j]
  <2>1. \A j \in 1 .. i - 1 : s[j] \in S
    BY <1>1
  <2> HIDE DEF a
  <2>2. /\ a \in Seq(S)
        /\ Len(a) = IF 1 <= i - 1 THEN (i - 1) - 1 + 1 ELSE 0
        /\ \A j \in 1 .. (i - 1) - 1 + 1 : a[j] = s[1 + j - 1]
    BY <1>1, <2>1, SubSeqProperties DEF a
  <2> QED
    BY <1>1, <2>2
<1>3. /\ b \in Seq(S)
      /\ Len(b) = Len(s) - i + 1
      /\ \A j \in 1 .. Len(s) - i + 1 : b[j] = s[i + j - 1]
  <2>1. \A j \in i .. Len(s) : s[j] \in S
    BY <1>1
  <2> HIDE DEF b
  <2>2. /\ b \in Seq(S)
        /\ Len(b) = IF i <= Len(s) THEN Len(s) - i + 1 ELSE 0
        /\ \A j \in 1 .. Len(s) - i + 1 : b[j] = s[i + j - 1]
    BY <1>1, <2>1, SubSeqProperties DEF b
  <2> QED
    BY <1>1, <2>2
<1>4. InsertAt(s, i, e) = (a \o <<e>>) \o b
  BY DEF InsertAt
<1>5. <<e>> \in Seq(S) /\ Len(<<e>>) = 1 /\ <<e>>[1] = e
  OBVIOUS
<1> DEFINE c == a \o <<e>>
<1> HIDE DEF a, b
<1>6. /\ c \in Seq(S)
      /\ Len(c) = i
      /\ \A j \in 1 .. i : c[j] = IF j < i THEN s[j] ELSE e
  <2> DEFINE ee == <<e>>
  <2> HIDE DEF ee
  <2>1. ee \in Seq(S) /\ Len(ee) = 1 /\ ee[1] = e
    BY <1>5 DEF ee
  <2>2. /\ a \o ee \in Seq(S)
        /\ Len(a \o ee) = Len(a) + Len(ee)
        /\ \A j \in 1 .. Len(a) + Len(ee) :
             (a \o ee)[j] = IF j <= Len(a) THEN a[j] ELSE ee[j - Len(a)]
    BY <1>2, <2>1, ConcatProperties
  <2>3. c = a \o ee
    BY DEF ee
  <2> HIDE DEF c
  <2> QED
    BY <1>1, <1>2, <2>1, <2>2, <2>3
<1>7. InsertAt(s, i, e) = c \o b
  BY <1>4
<1> HIDE DEF c
<1>8. /\ c \o b \in Seq(S)
      /\ Len(c \o b) = Len(c) + Len(b)
      /\ \A j \in 1 .. Len(c) + Len(b) :
           (c \o b)[j] = IF j <= Len(c) THEN c[j] ELSE b[j - Len(c)]
  BY <1>3, <1>6, ConcatProperties
<1>9. \A j \in 1 .. Len(s) + 1 :
        (c \o b)[j] = IF j < i THEN s[j]
                       ELSE IF j = i THEN e ELSE s[j - 1]
  <2> TAKE j \in 1 .. Len(s) + 1
  <2>1. CASE j <= i
    BY <2>1, <1>1, <1>3, <1>6, <1>8
  <2>2. CASE j > i
    <3> DEFINE k == j - i
    <3>1. k \in 1 .. Len(s) - i + 1
      BY <2>2, <1>1
    <3>2. (c \o b)[j] = b[k]
      BY <2>2, <1>1, <1>3, <1>6, <1>8
    <3>3. b[k] = s[i + k - 1] /\ i + k - 1 = j - 1
      BY <1>1, <1>3, <3>1
    <3> QED
      BY <2>2, <1>1, <3>2, <3>3
  <2>3. j <= i \/ j > i
    BY <1>1
  <2> QED
    BY <2>1, <2>2, <2>3
<1> QED
  BY <1>1, <1>3, <1>6, <1>7, <1>8, <1>9

\* At the ends of a list the two operations are the usual ones.
LEMMA InsertAtEnd ==
  ASSUME NEW S, NEW s \in Seq(S), NEW e
  PROVE  InsertAt(s, Len(s) + 1, e) = Append(s, e)
<1> DEFINE T == S \cup {e}
           r == InsertAt(s, Len(s) + 1, e)
           t == Append(s, e)
<1>1. s \in Seq(T) /\ e \in T /\ Len(s) \in Nat
  BY SeqMonotonic, LenProperties
<1>2. HasInserted(T, s, Len(s) + 1, e, r)
  <2>1. Len(s) + 1 \in 1 .. Len(s) + 1
    BY <1>1
  <2> HIDE DEF T
  <2> QED BY ONLY <1>1, <2>1, InsertAtProperties
<1> HIDE DEF T, r
<1>3. /\ t \in Seq(T) /\ Len(t) = Len(s) + 1
      /\ \A j \in 1 .. Len(s) : t[j] = s[j]
      /\ t[Len(s) + 1] = e
  BY <1>1, AppendProperties
<1> HIDE DEF t
<1>4. /\ r \in Seq(T) /\ Len(r) = Len(t)
      /\ \A j \in 1 .. Len(r) : r[j] = t[j]
  BY <1>1, <1>2, <1>3 DEF HasInserted
<1>5. r = t
  BY <1>3, <1>4, SeqEqual
<1> QED
  BY <1>5 DEF r, t

LEMMA InsertAtFront ==
  ASSUME NEW S, NEW s \in Seq(S), NEW e
  PROVE  InsertAt(s, 1, e) = <<e>> \o s
<1>1. SubSeq(s, 1, 1 - 1) = << >> /\ SubSeq(s, 1, Len(s)) = s
  BY SubSeqEmpty, SubSeqFull
<1>2. <<e>> \in Seq({e})
  OBVIOUS
<1>3. << >> \o <<e>> = <<e>>
  BY <1>2, ConcatEmptySeq
<1> QED
  BY <1>1, <1>3 DEF InsertAt

LEMMA RemoveAtFront ==
  ASSUME NEW S, NEW s \in Seq(S), 1 \in 1 .. Len(s)
  PROVE  RemoveAt(s, 1) = Tail(s)
<1>1. s # << >>
  <2> SUFFICES ASSUME s = << >> PROVE FALSE
    OBVIOUS
  <2>1. Len(s) = 0
    BY EmptySeq
  <2> QED
    BY <2>1
<1>2. Tail(s) = SubSeq(s, 2, Len(s)) /\ Tail(s) \in Seq(S)
  BY <1>1, TailIsSubSeq, HeadTailProperties
<1>3. SubSeq(s, 1, 1 - 1) = << >>
  BY SubSeqEmpty
<1>4. << >> \o Tail(s) = Tail(s)
  BY <1>2, ConcatEmptySeq
<1> QED
  BY <1>2, <1>3, <1>4 DEF RemoveAt

=============================================================================
