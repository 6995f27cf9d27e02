---------------------------- MODULE DirBTree_proofs ----------------------------
(***************************************************************************)
(* Proofs about DirBTree over the store that returns the stored node       *)
(* itself: the shape of the tree, for every degree, set of names and       *)
(* number of objects.                                                      *)
(*                                                                         *)
(* h[i] is the height of node i above the leaves.  Shaped says that the    *)
(* allocated nodes are one tree with all leaves at height 0, that its      *)
(* nodes have the sizes of a B-tree, and that the call that runs is made   *)
(* for a node with room.  Each action cuts a node in two, unites two, or   *)
(* moves an entry and a child between two: Cut, Shift, Put and Set.        *)
(*                                                                         *)
(* The last part is about trees in order (Ordered): I[i] are the names     *)
(* that belong to node i.  Where a name is found, what one more entry does *)
(* to the gaps between the others, and why cutting a node keeps the order. *)
(***************************************************************************)
EXTENDS DirBTree, SequenceTheorems, FiniteSetTheorems, WellFoundedInduction, TLAPS

(***************************************************************************)
(* Sequences.                                                              *)
(***************************************************************************)
IsInserted(t, s, i, e) ==
    /\ Len(t) = Len(s) + 1
    /\ \A k \in 1 .. Len(s) + 1 : t[k] = IF k < i THEN s[k] ELSE IF k = i THEN e ELSE s[k - 1]

IsRemoved(t, s, i) ==
    /\ Len(t) = Len(s) - 1
    /\ \A k \in 1 .. Len(s) - 1 : t[k] = IF k < i THEN s[k] ELSE s[k + 1]

IsJoined(t, a, b) ==
    /\ Len(t) = Len(a) + Len(b)
    /\ \A k \in 1 .. Len(a) + Len(b) : t[k] = IF k <= Len(a) THEN a[k] ELSE b[k - Len(a)]

IsPart(t, s, m, n) ==
    /\ Len(t) = n - m + 1
    /\ \A k \in 1 .. n - m + 1 : t[k] = s[m + k - 1]

LEMMA PartOf ==
    ASSUME NEW S, NEW s \in Seq(S), NEW m \in 1 .. Len(s) + 1, NEW n \in m - 1 .. Len(s)
    PROVE  SubSeq(s, m, n) \in Seq(S) /\ IsPart(SubSeq(s, m, n), s, m, n)
<1>1. Len(s) \in Nat /\ \A k \in 1 .. Len(s) : s[k] \in S
  BY LenProperties, ElementOfSeq
<1>2. m \in Int /\ n \in Int /\ \A k \in m .. n : s[k] \in S
  BY <1>1
<1>3. /\ SubSeq(s, m, n) \in Seq(S)
      /\ Len(SubSeq(s, m, n)) = IF m <= n THEN n - m + 1 ELSE 0
      /\ \A k \in 1 .. n - m + 1 : SubSeq(s, m, n)[k] = s[m + k - 1]
  BY <1>2, SubSeqProperties
<1> QED BY <1>1, <1>3 DEF IsPart

LEMMA JoinedOf ==
    ASSUME NEW S, NEW a \in Seq(S), NEW b \in Seq(S)
    PROVE  a \o b \in Seq(S) /\ IsJoined(a \o b, a, b)
BY ConcatProperties DEF IsJoined

LEMMA OneOf ==
    ASSUME NEW S, NEW e \in S
    PROVE  << e >> \in Seq(S) /\ Len(<< e >>) = 1 /\ << e >>[1] = e
OBVIOUS

LEMMA InsertedOf ==
    ASSUME NEW S, NEW s \in Seq(S), NEW i \in 1 .. Len(s) + 1, NEW e \in S
    PROVE  InsertAt(s, i, e) \in Seq(S) /\ IsInserted(InsertAt(s, i, e), s, i, e)
<1>1. PICK n : n = Len(s)
  OBVIOUS
<1>2. PICK a : a = SubSeq(s, 1, i - 1)
  OBVIOUS
<1>3. PICK b : b = SubSeq(s, i, n)
  OBVIOUS
<1>4. PICK c : c = << e >>
  OBVIOUS
<1>5. n \in Nat /\ i \in 1 .. n + 1
  BY <1>1, LenProperties
<1>6. a \in Seq(S) /\ Len(a) = i - 1 /\ \A k \in 1 .. i - 1 : a[k] = s[k]
  BY <1>1, <1>2, <1>5, PartOf DEF IsPart
<1>7. b \in Seq(S) /\ Len(b) = n - i + 1 /\ \A k \in 1 .. n - i + 1 : b[k] = s[i + k - 1]
  BY <1>1, <1>3, <1>5, PartOf DEF IsPart
<1>8. c \in Seq(S) /\ Len(c) = 1 /\ c[1] = e
  BY <1>4, OneOf
<1>9. PICK d : d = a \o c
  OBVIOUS
<1>10. d \in Seq(S) /\ Len(d) = i /\ (\A k \in 1 .. i - 1 : d[k] = s[k]) /\ d[i] = e
  <2>1. d \in Seq(S) /\ IsJoined(d, a, c)
    BY <1>6, <1>8, <1>9, JoinedOf
  <2>2. Len(a) + Len(c) = i /\ Len(a) = i - 1
    BY <1>5, <1>6, <1>8
  <2>3. Len(d) = i /\ \A k \in 1 .. i : d[k] = IF k <= Len(a) THEN a[k] ELSE c[k - Len(a)]
    BY <2>1, <2>2 DEF IsJoined
  <2>4. \A k \in 1 .. i - 1 : k \in 1 .. i /\ k <= Len(a)
    BY <1>5, <2>2
  <2>5. i \in 1 .. i /\ ~(i <= Len(a)) /\ i - Len(a) = 1
    BY <1>5, <2>2
  <2> QED BY <1>6, <1>8, <2>1, <2>3, <2>4, <2>5
<1>11. PICK t : t = d \o b
  OBVIOUS
<1>12. t \in Seq(S) /\ Len(t) = n + 1 /\ \A k \in 1 .. n + 1 : t[k] = IF k <= i THEN d[k] ELSE b[k - i]
  <2>1. t \in Seq(S) /\ IsJoined(t, d, b)
    BY <1>7, <1>10, <1>11, JoinedOf
  <2> QED BY <1>5, <1>7, <1>10, <2>1 DEF IsJoined
<1>13. \A k \in 1 .. n + 1 : t[k] = IF k < i THEN s[k] ELSE IF k = i THEN e ELSE s[k - 1]
  <2> TAKE k \in 1 .. n + 1
  <2>1. CASE k < i
    BY <1>5, <1>10, <1>12, <2>1
  <2>2. CASE k = i
    BY <1>5, <1>10, <1>12, <2>2
  <2>3. CASE k > i
    <3>1. k - i \in 1 .. n - i + 1 /\ i + (k - i) - 1 = k - 1 /\ ~(k <= i) /\ ~(k < i) /\ k # i
      BY <1>5, <2>3
    <3> QED BY <1>7, <1>12, <3>1
  <2> QED BY <1>5, <2>1, <2>2, <2>3
<1>14. t = InsertAt(s, i, e)
  BY <1>1, <1>2, <1>3, <1>4, <1>9, <1>11 DEF InsertAt
<1> QED BY <1>1, <1>12, <1>13, <1>14 DEF IsInserted

LEMMA RemovedOf ==
    ASSUME NEW S, NEW s \in Seq(S), NEW i \in 1 .. Len(s)
    PROVE  RemoveAt(s, i) \in Seq(S) /\ IsRemoved(RemoveAt(s, i), s, i)
<1>1. PICK n : n = Len(s)
  OBVIOUS
<1>2. PICK a : a = SubSeq(s, 1, i - 1)
  OBVIOUS
<1>3. PICK b : b = SubSeq(s, i + 1, n)
  OBVIOUS
<1>5. n \in Nat /\ i \in 1 .. n
  BY <1>1, LenProperties
<1>6. a \in Seq(S) /\ Len(a) = i - 1 /\ \A k \in 1 .. i - 1 : a[k] = s[k]
  BY <1>1, <1>2, <1>5, PartOf DEF IsPart
<1>7. b \in Seq(S) /\ Len(b) = n - i /\ \A k \in 1 .. n - i : b[k] = s[i + k]
  BY <1>1, <1>3, <1>5, PartOf DEF IsPart
<1>11. PICK t : t = a \o b
  OBVIOUS
<1>12. t \in Seq(S) /\ Len(t) = n - 1 /\ \A k \in 1 .. n - 1 : t[k] = IF k <= i - 1 THEN a[k] ELSE b[k - (i - 1)]
  <2>1. t \in Seq(S) /\ IsJoined(t, a, b)
    BY <1>6, <1>7, <1>11, JoinedOf
  <2> QED BY <1>5, <1>6, <1>7, <2>1 DEF IsJoined
<1>13. \A k \in 1 .. n - 1 : t[k] = IF k < i THEN s[k] ELSE s[k + 1]
  <2> TAKE k \in 1 .. n - 1
  <2>1. CASE k < i
    BY <1>5, <1>6, <1>12, <2>1
  <2>2. CASE ~(k < i)
    BY <1>5, <1>7, <1>12, <2>2
  <2> QED BY <1>5, <2>1, <2>2
<1>14. t = RemoveAt(s, i)
  BY <1>1, <1>2, <1>3, <1>11 DEF RemoveAt
<1> QED BY <1>1, <1>12, <1>13, <1>14 DEF IsRemoved

\* The sequence without its first element and without its last.
LEMMA TailOf ==
    ASSUME NEW S, NEW s \in Seq(S), Len(s) > 0
    PROVE  Tail(s) \in Seq(S) /\ IsPart(Tail(s), s, 2, Len(s)) /\ Head(s) = s[1] /\ Head(s) \in S
<1>1. Len(s) \in Nat
  BY LenProperties
<1>2. s # <<>>
  OBVIOUS
<1> QED BY <1>1, <1>2, HeadTailProperties, ElementOfSeq DEF IsPart

LEMMA FrontOf ==
    ASSUME NEW S, NEW s \in Seq(S), Len(s) > 0
    PROVE  Front(s) \in Seq(S) /\ IsPart(Front(s), s, 1, Len(s) - 1) /\ Last(s) = s[Len(s)] /\ Last(s) \in S
<1>1. Len(s) \in Nat
  BY LenProperties
<1>2. 1 \in 1 .. Len(s) + 1 /\ Len(s) - 1 \in 1 - 1 .. Len(s) /\ Len(s) \in 1 .. Len(s)
  BY <1>1
<1> QED BY <1>2, PartOf, ElementOfSeq DEF Front, Last

\* An element between two sequences.
IsMiddle(t, a, e, b) ==
    /\ Len(t) = Len(a) + 1 + Len(b)
    /\ \A k \in 1 .. Len(a) : t[k] = a[k]
    /\ t[Len(a) + 1] = e
    /\ \A k \in 1 .. Len(b) : t[Len(a) + 1 + k] = b[k]

LEMMA MiddleOf ==
    ASSUME NEW S, NEW a \in Seq(S), NEW b \in Seq(S), NEW e \in S
    PROVE  (a \o << e >>) \o b \in Seq(S) /\ IsMiddle((a \o << e >>) \o b, a, e, b)
<1>1. PICK c : c = << e >>
  OBVIOUS
<1>2. PICK d : d = a \o c
  OBVIOUS
<1>3. PICK t : t = d \o b
  OBVIOUS
<1>4. c \in Seq(S) /\ Len(c) = 1 /\ c[1] = e
  BY <1>1, OneOf
<1>5. Len(a) \in Nat /\ Len(b) \in Nat
  BY LenProperties
<1>6. /\ d \in Seq(S) /\ Len(d) = Len(a) + 1
      /\ \A k \in 1 .. Len(a) + 1 : d[k] = IF k <= Len(a) THEN a[k] ELSE c[k - Len(a)]
  <2>1. d \in Seq(S) /\ IsJoined(d, a, c)
    BY <1>2, <1>4, JoinedOf
  <2> QED BY <1>4, <1>5, <2>1 DEF IsJoined
<1>7. /\ t \in Seq(S) /\ Len(t) = Len(a) + 1 + Len(b)
      /\ \A k \in 1 .. Len(a) + 1 + Len(b) : t[k] = IF k <= Len(a) + 1 THEN d[k] ELSE b[k - (Len(a) + 1)]
  <2>1. t \in Seq(S) /\ IsJoined(t, d, b)
    BY <1>3, <1>6, JoinedOf
  <2> QED BY <1>5, <1>6, <2>1 DEF IsJoined
<1>8. \A k \in 1 .. Len(a) : t[k] = a[k]
  BY <1>5, <1>6, <1>7
<1>9. t[Len(a) + 1] = e
  BY <1>4, <1>5, <1>6, <1>7
<1>10. \A k \in 1 .. Len(b) : t[Len(a) + 1 + k] = b[k]
  <2> TAKE k \in 1 .. Len(b)
  <2>1. /\ Len(a) + 1 + k \in 1 .. Len(a) + 1 + Len(b) /\ ~(Len(a) + 1 + k <= Len(a) + 1)
        /\ (Len(a) + 1 + k) - (Len(a) + 1) = k
    BY <1>5
  <2> QED BY <1>7, <2>1
<1>11. IsMiddle(t, a, e, b)
  BY <1>7, <1>8, <1>9, <1>10 DEF IsMiddle
<1> QED BY <1>1, <1>2, <1>3, <1>7, <1>11

(***************************************************************************)
(* The least of a set of numbers, and induction by way of it.              *)
(***************************************************************************)
NatLess == {p \in Nat \X Nat : p[1] < p[2]}

LEMMA LeastOf ==
    ASSUME NEW S \in SUBSET Nat, S # {}
    PROVE  \E x \in S : \A y \in S : x <= y
<1>1. IsWellFoundedOn(NatLess, Nat)
  BY NatLessThanWellFounded DEF OpToRel, NatLess
<1>2. PICK x \in S : \A y \in S : ~ (<<y, x>> \in NatLess)
  BY <1>1, WFMin
<1>3. \A y \in S : x <= y
  <2> TAKE y \in S
  <2>1. x \in Nat /\ y \in Nat
    OBVIOUS
  <2>2. ~ (y < x)
    BY <2>1, <1>2 DEF NatLess
  <2> QED BY <2>1, <2>2
<1> QED BY <1>3

\* What holds at 0 and passes from each number to the next holds up to n.
LEMMA UpTo ==
    ASSUME NEW n \in Nat, NEW Good, 0 \in Good,
           \A k \in 1 .. n : k - 1 \in Good => k \in Good
    PROVE  \A k \in 0 .. n : k \in Good
<1> DEFINE Bad == {k \in 0 .. n : k \notin Good}
<1> SUFFICES ASSUME Bad # {} PROVE FALSE
  OBVIOUS
<1>1. PICK k \in Bad : \A j \in Bad : k <= j
  <2>1. Bad \in SUBSET Nat
    OBVIOUS
  <2> HIDE DEF Bad
  <2> QED BY <2>1, LeastOf
<1>2. k \in 1 .. n /\ k - 1 \in 0 .. n /\ ~(k <= k - 1)
  OBVIOUS
<1> QED BY <1>1, <1>2

\* A set of the first n numbers that has all below each of its members.
LEMMA FirstOnes ==
    ASSUME NEW n \in Nat, NEW A \in SUBSET (1 .. n), \A k \in A : \A j \in 1 .. k : j \in A
    PROVE  \A k \in 1 .. n : k \in A <=> k < 1 + Cardinality(A)
<1> DEFINE B == (1 .. n + 1) \ A
<1>1. PICK q \in B : \A y \in B : q <= y
  <2>1. B \in SUBSET Nat /\ n + 1 \in B
    OBVIOUS
  <2> HIDE DEF B
  <2> QED BY <2>1, LeastOf
<1>2. A = 1 .. q - 1
  <2>1. ASSUME NEW k \in A PROVE k \in 1 .. q - 1
    <3>1. k \in 1 .. n /\ q \notin A /\ q \in 1 .. n + 1
      OBVIOUS
    <3>2. ~(q <= k)
      BY <2>1, <3>1
    <3> QED BY <3>1, <3>2
  <2>2. ASSUME NEW k \in 1 .. q - 1 PROVE k \in A
    <3>1. k \in 1 .. n + 1 /\ ~(q <= k)
      OBVIOUS
    <3> QED BY <1>1, <3>1
  <2> HIDE DEF B
  <2> QED BY <2>1, <2>2
<1>3. q \in Nat /\ q >= 1
  OBVIOUS
<1>4. Cardinality(A) = q - 1
  <2>1. Cardinality(1 .. q - 1) = IF 1 > q - 1 THEN 0 ELSE (q - 1) - 1 + 1
    BY <1>3, FS_Interval
  <2> QED BY <1>2, <1>3, <2>1
<1> HIDE DEF B
<1> QED BY <1>2, <1>3, <1>4

(***************************************************************************)
(* The tree.  h[i] is the height of node i above the leaves.               *)
(***************************************************************************)
TreeNode == [leaf : BOOLEAN, fdes : Seq(Entry), cobj : Seq(Id)]

Nodes(T) == {i \in Id : T[i] # Null}

Distinct(s) == \A k, l \in 1 .. Len(s) : s[k] = s[l] => k = l

Elems(s) == {s[k] : k \in 1 .. Len(s)}

Kids(T, i) == Elems(T[i].cobj)

\* A node's children are as many as it has gaps between entries.
Branches(x) == Len(x.cobj) = IF x.leaf THEN 0 ELSE Len(x.fdes) + 1

Rooted(T, root, h) ==
    /\ T \in [Id -> TreeNode \cup {Null}] /\ root \in Nodes(T)
    /\ \A i \in Nodes(T) :
         /\ h[i] \in Nat /\ h[i] <= h[root] /\ (h[i] = 0 <=> T[i].leaf)
         /\ Branches(T[i]) /\ Distinct(T[i].cobj)
    /\ \A i \in Nodes(T) : \A c \in Kids(T, i) :
         c \in Nodes(T) /\ c # root /\ h[c] = h[i] - 1
    /\ \A i, j \in Nodes(T) : i # j => Kids(T, i) \cap Kids(T, j) = {}
    /\ \A c \in Nodes(T) : c # root => \E i \in Nodes(T) : c \in Kids(T, i)

\* How many entries a node has.
Sized(T, root) ==
    \A i \in Nodes(T) :
      /\ Len(T[i].fdes) <= Dir_Node_Degree
      /\ i # root => Len(T[i].fdes) >= H
      /\ ~T[i].leaf => Len(T[i].fdes) >= 1

LEMMA Geometry ==
    /\ H \in Nat \ {0} /\ Dir_Node_Degree = 2 * H + 1 /\ MaxId \in Nat \ {0}
    /\ Id \subseteq Nat /\ IsFiniteSet(Id) /\ Cardinality(Id) = MaxId /\ Fhash \subseteq Nat
<1>1. MaxId \in Nat \ {0} /\ H \in Nat \ {0} /\ Fhash \subseteq Nat
  BY TreeGeometry DEF H
<1>2. IsFiniteSet(Id) /\ Cardinality(Id) = MaxId
  BY <1>1, FS_Interval DEF Id
<1> QED BY <1>1, <1>2 DEF Id, Dir_Node_Degree

LEMMA NodeIs ==
    ASSUME NEW x \in TreeNode
    PROVE  /\ x # Null /\ x.leaf \in BOOLEAN
           /\ x.fdes \in Seq(Entry) /\ Len(x.fdes) \in Nat /\ DOMAIN x.fdes = 1 .. Len(x.fdes)
           /\ \A k \in 1 .. Len(x.fdes) : x.fdes[k] \in Entry /\ x.fdes[k].fhash \in Nat
           /\ x.cobj \in Seq(Id) /\ Len(x.cobj) \in Nat /\ DOMAIN x.cobj = 1 .. Len(x.cobj)
           /\ \A k \in 1 .. Len(x.cobj) : x.cobj[k] \in Id
<1>1. x.leaf \in BOOLEAN /\ x.fdes \in Seq(Entry) /\ x.cobj \in Seq(Id)
  BY DEF TreeNode
<1>2. Id \subseteq 0 .. MaxId
  BY Geometry DEF Id
<1>3. x.cobj \in Seq(0 .. MaxId)
  BY <1>1, <1>2, SeqMonotonic
<1>4. x \in Node
  BY <1>1, <1>3 DEF TreeNode, Node
<1>5. \A e \in Entry : e.fhash \in Nat
  BY Geometry DEF Entry
<1> QED BY <1>1, <1>4, <1>5, NullIsNoNode, LenProperties, ElementOfSeq

LEMMA RootedIs ==
    ASSUME NEW T, NEW root, NEW h, Rooted(T, root, h), NEW i \in Nodes(T)
    PROVE  /\ T[i] \in TreeNode /\ i \in Id /\ T[i] # Null /\ h[i] \in Nat /\ h[i] <= h[root]
           /\ h[i] = 0 <=> T[i].leaf
           /\ h[i] = 0 => Len(T[i].cobj) = 0
           /\ h[i] > 0 => Len(T[i].cobj) = Len(T[i].fdes) + 1
           /\ \A k \in 1 .. Len(T[i].cobj) :
                /\ T[i].cobj[k] \in Nodes(T) /\ T[i].cobj[k] # root /\ T[i].cobj[k] # i
                /\ h[T[i].cobj[k]] = h[i] - 1
<1>1. T[i] \in TreeNode /\ i \in Id /\ T[i] # Null
  BY DEF Rooted, Nodes
<1>2. h[i] \in Nat /\ h[i] <= h[root] /\ (h[i] = 0 <=> T[i].leaf) /\ Branches(T[i])
  BY DEF Rooted
<1>3. \A k \in 1 .. Len(T[i].cobj) : T[i].cobj[k] \in Kids(T, i)
  BY DEF Kids, Elems
<1>4. \A c \in Kids(T, i) : c \in Nodes(T) /\ c # root /\ h[c] = h[i] - 1 /\ h[c] # h[i]
  BY <1>2 DEF Rooted
<1> QED BY <1>1, <1>2, <1>3, <1>4 DEF Branches

(***************************************************************************)
(* The place of a name in a node.                                          *)
(***************************************************************************)
LEMMA PlacesAre ==
    ASSUME NEW x \in TreeNode, NEW fhash
    PROVE  /\ PlaceOf(x, fhash) \in 1 .. Len(x.fdes) + 1
           /\ PlaceAfter(x, fhash) \in 1 .. Len(x.fdes) + 1
<1> DEFINE A == {k \in DOMAIN x.fdes : x.fdes[k].fhash < fhash}
           B == {k \in DOMAIN x.fdes : x.fdes[k].fhash <= fhash}
           n == Len(x.fdes)
<1>1. n \in Nat /\ DOMAIN x.fdes = 1 .. n
  BY NodeIs
<1>2. IsFiniteSet(1 .. n) /\ Cardinality(1 .. n) = n
  BY <1>1, FS_Interval
<1>3. A \in SUBSET (1 .. n) /\ B \in SUBSET (1 .. n)
  BY <1>1
<1> HIDE DEF A, B
<1>4. Cardinality(A) \in 0 .. n /\ Cardinality(B) \in 0 .. n
  <2>1. ASSUME NEW C \in SUBSET (1 .. n) PROVE Cardinality(C) \in 0 .. n
    <3>1. IsFiniteSet(C) /\ Cardinality(C) <= Cardinality(1 .. n)
      BY <1>2, FS_Subset
    <3>2. Cardinality(C) \in Nat
      BY <3>1, FS_CardinalityType
    <3> QED BY <1>1, <1>2, <3>1, <3>2
  <2> QED BY <1>3, <2>1
<1> HIDE DEF n
<1>5. 1 + Cardinality(A) \in 1 .. n + 1 /\ 1 + Cardinality(B) \in 1 .. n + 1
  BY <1>1, <1>4
<1> QED BY <1>5 DEF PlaceOf, PlaceAfter, A, B, n

(***************************************************************************)
(* What the changes to a tree have in common.                              *)
(***************************************************************************)
LEMMA InsertedElems ==
    ASSUME NEW s, NEW t, NEW i, NEW e, Len(s) \in Nat, i \in 1 .. Len(s) + 1, IsInserted(t, s, i, e)
    PROVE  /\ Elems(t) = Elems(s) \cup {e}
           /\ Distinct(t) <=> Distinct(s) /\ e \notin Elems(s)
<1> DEFINE n == Len(s)
<1>1. /\ n \in Nat /\ i \in 1 .. n + 1 /\ Len(t) = n + 1
      /\ \A k \in 1 .. n + 1 : t[k] = IF k < i THEN s[k] ELSE IF k = i THEN e ELSE s[k - 1]
  BY DEF IsInserted
<1> DEFINE to(k) == IF k < i THEN k ELSE k + 1
<1>2. \A k \in 1 .. n : to(k) \in 1 .. n + 1 /\ to(k) # i /\ t[to(k)] = s[k]
  <2> TAKE k \in 1 .. n
  <2>1. CASE k < i
    BY <1>1, <2>1
  <2>2. CASE ~(k < i)
    <3>1. k + 1 \in 1 .. n + 1 /\ ~(k + 1 < i) /\ k + 1 # i /\ (k + 1) - 1 = k
      BY <1>1, <2>2
    <3> QED BY <1>1, <2>2, <3>1
  <2> QED BY <2>1, <2>2
<1>3. \A k \in 1 .. n + 1 : k = i \/ \E j \in 1 .. n : k = to(j)
  <2> TAKE k \in 1 .. n + 1
  <2>1. CASE k < i
    BY <1>1, <2>1
  <2>2. CASE k > i
    <3>1. k - 1 \in 1 .. n /\ ~(k - 1 < i) /\ (k - 1) + 1 = k
      BY <1>1, <2>2
    <3> QED BY <3>1
  <2> QED BY <1>1, <2>1, <2>2
<1>4. \A j, k \in 1 .. n : to(j) = to(k) => j = k
  BY <1>1
<1>5. t[i] = e /\ i \in 1 .. n + 1
  BY <1>1
<1>6. /\ Elems(s) = {s[k] : k \in 1 .. n} /\ Elems(t) = {t[k] : k \in 1 .. n + 1}
      /\ Distinct(s) <=> \A j, k \in 1 .. n : s[j] = s[k] => j = k
      /\ Distinct(t) <=> \A j, k \in 1 .. n + 1 : t[j] = t[k] => j = k
  BY <1>1 DEF Elems, Distinct
<1> HIDE DEF n, to
<1>7. Elems(t) = Elems(s) \cup {e}
  <2>1. ASSUME NEW x \in Elems(t) PROVE x \in Elems(s) \cup {e}
    BY <1>2, <1>3, <1>5, <1>6, <2>1
  <2>2. ASSUME NEW x \in Elems(s) PROVE x \in Elems(t)
    BY <1>2, <1>6, <2>2
  <2>3. e \in Elems(t)
    BY <1>5, <1>6
  <2> QED BY <2>1, <2>2, <2>3
<1>8. ASSUME Distinct(t) PROVE Distinct(s) /\ e \notin Elems(s)
  <2>1. ASSUME NEW j \in 1 .. n, NEW k \in 1 .. n, s[j] = s[k] PROVE j = k
    BY <1>2, <1>4, <1>6, <1>8, <2>1
  <2>2. ASSUME NEW k \in 1 .. n, s[k] = e PROVE FALSE
    BY <1>2, <1>5, <1>6, <1>8, <2>2
  <2> QED BY <1>6, <2>1, <2>2
<1>9. ASSUME Distinct(s), e \notin Elems(s) PROVE Distinct(t)
  <2> SUFFICES ASSUME NEW j \in 1 .. n + 1, NEW k \in 1 .. n + 1, t[j] = t[k] PROVE j = k
    BY <1>6
  <2>1. j = i \/ \E x \in 1 .. n : j = to(x) /\ t[j] = s[x] /\ s[x] \in Elems(s)
    BY <1>2, <1>3, <1>6
  <2>2. k = i \/ \E x \in 1 .. n : k = to(x) /\ t[k] = s[x] /\ s[x] \in Elems(s)
    BY <1>2, <1>3, <1>6
  <2> QED BY <1>5, <1>6, <1>9, <2>1, <2>2
<1> QED BY <1>7, <1>8, <1>9

LEMMA JoinedElems ==
    ASSUME NEW a, NEW b, NEW t, Len(a) \in Nat, Len(b) \in Nat, IsJoined(t, a, b)
    PROVE  /\ Elems(t) = Elems(a) \cup Elems(b)
           /\ Distinct(t) <=> Distinct(a) /\ Distinct(b) /\ Elems(a) \cap Elems(b) = {}
<1> DEFINE m == Len(a)
           n == Len(b)
<1>1. /\ m \in Nat /\ n \in Nat /\ Len(t) = m + n
      /\ \A k \in 1 .. m + n : t[k] = IF k <= m THEN a[k] ELSE b[k - m]
  BY DEF IsJoined
<1>2. \A k \in 1 .. m : k \in 1 .. m + n /\ t[k] = a[k]
  BY <1>1
<1>3. \A k \in 1 .. n : m + k \in 1 .. m + n /\ t[m + k] = b[k]
  <2> TAKE k \in 1 .. n
  <2>1. m + k \in 1 .. m + n /\ ~(m + k <= m) /\ (m + k) - m = k
    BY <1>1
  <2> QED BY <1>1, <2>1
<1>4. \A k \in 1 .. m + n : k \in 1 .. m \/ \E j \in 1 .. n : k = m + j
  <2> TAKE k \in 1 .. m + n
  <2>1. ~(k <= m) => k - m \in 1 .. n /\ k = m + (k - m)
    BY <1>1
  <2> QED BY <1>1, <2>1
<1>5. /\ \A k \in 1 .. m, j \in 1 .. n : k # m + j
      /\ \A j, k \in 1 .. n : m + j = m + k => j = k
  BY <1>1
<1>6. /\ Elems(a) = {a[k] : k \in 1 .. m} /\ Elems(b) = {b[k] : k \in 1 .. n}
      /\ Elems(t) = {t[k] : k \in 1 .. m + n}
      /\ Distinct(a) <=> \A j, k \in 1 .. m : a[j] = a[k] => j = k
      /\ Distinct(b) <=> \A j, k \in 1 .. n : b[j] = b[k] => j = k
      /\ Distinct(t) <=> \A j, k \in 1 .. m + n : t[j] = t[k] => j = k
  BY <1>1 DEF Elems, Distinct
<1> DEFINE past(k) == m + k
           all == 1 .. m + n
<1>7. /\ \A k \in 1 .. n : past(k) \in all /\ t[past(k)] = b[k]
      /\ \A k \in 1 .. m : k \in all /\ t[k] = a[k]
      /\ \A k \in all : k \in 1 .. m \/ \E j \in 1 .. n : k = past(j)
      /\ \A k \in 1 .. m, j \in 1 .. n : k # past(j)
      /\ \A j, k \in 1 .. n : past(j) = past(k) => j = k
      /\ Elems(t) = {t[k] : k \in all}
      /\ Distinct(t) <=> \A j, k \in all : t[j] = t[k] => j = k
  BY <1>2, <1>3, <1>4, <1>5, <1>6
<1> HIDE DEF m, n, past, all
<1>8. Elems(t) = Elems(a) \cup Elems(b)
  <2>1. ASSUME NEW k \in all PROVE t[k] \in Elems(a) \cup Elems(b)
    <3>1. CASE k \in 1 .. m
      <4>1. a[k] \in Elems(a)
        BY <1>6, <3>1
      <4> QED BY <1>7, <3>1, <4>1
    <3>2. ASSUME NEW j \in 1 .. n, k = past(j) PROVE b[j] \in Elems(b) /\ t[k] = b[j]
      BY <1>6, <1>7, <3>2
    <3> QED BY <1>7, <3>1, <3>2
  <2>2. ASSUME NEW k \in 1 .. m PROVE a[k] \in Elems(t)
    <3>1. k \in all /\ t[k] = a[k]
      BY <1>7
    <3>2. t[k] \in Elems(t)
      BY <1>7, <3>1
    <3> QED BY <3>1, <3>2
  <2>3. ASSUME NEW k \in 1 .. n PROVE b[k] \in Elems(t)
    <3>1. past(k) \in all /\ t[past(k)] = b[k]
      BY <1>7
    <3>2. t[past(k)] \in Elems(t)
      BY <1>7, <3>1
    <3> QED BY <3>1, <3>2
  <2>4. Elems(t) \subseteq Elems(a) \cup Elems(b)
    BY <1>7, <2>1
  <2>5. Elems(a) \subseteq Elems(t) /\ Elems(b) \subseteq Elems(t)
    BY <1>6, <2>2, <2>3
  <2> QED BY <2>4, <2>5
<1>9. ASSUME Distinct(t) PROVE Distinct(a) /\ Distinct(b) /\ Elems(a) \cap Elems(b) = {}
  <2>1. ASSUME NEW j \in 1 .. m, NEW k \in 1 .. m, a[j] = a[k] PROVE j = k
    BY <1>7, <1>9, <2>1
  <2>2. ASSUME NEW j \in 1 .. n, NEW k \in 1 .. n, b[j] = b[k] PROVE j = k
    BY <1>7, <1>9, <2>2
  <2>3. ASSUME NEW j \in 1 .. m, NEW k \in 1 .. n, a[j] = b[k] PROVE FALSE
    BY <1>7, <1>9, <2>3
  <2> QED BY <1>6, <2>1, <2>2, <2>3
<1>10. ASSUME Distinct(a), Distinct(b), Elems(a) \cap Elems(b) = {} PROVE Distinct(t)
  <2> SUFFICES ASSUME NEW j \in all, NEW k \in all, t[j] = t[k] PROVE j = k
    BY <1>7
  <2>1. \/ j \in 1 .. m /\ t[j] = a[j] /\ a[j] \in Elems(a)
        \/ \E x \in 1 .. n : j = past(x) /\ t[j] = b[x] /\ b[x] \in Elems(b)
    BY <1>6, <1>7
  <2>2. \/ k \in 1 .. m /\ t[k] = a[k] /\ a[k] \in Elems(a)
        \/ \E x \in 1 .. n : k = past(x) /\ t[k] = b[x] /\ b[x] \in Elems(b)
    BY <1>6, <1>7
  <2> QED BY <1>6, <1>10, <2>1, <2>2
<1> QED BY <1>8, <1>9, <1>10

(***************************************************************************)
(* A node is cut in two around an entry that moves up to its parent: in S  *)
(* node l is whole, in T it is l and r.  Splitting a child leads from S to *)
(* T, uniting two children from T to S.                                    *)
(***************************************************************************)
Stores == [Id -> TreeNode \cup {Null}]

Cut(S, T, p, i, l, r, e) ==
    /\ S \in Stores /\ T \in Stores
    /\ p \in Nodes(S) /\ l \in Nodes(S) /\ r \in Id \ Nodes(S) /\ p # l
    /\ Nodes(T) = Nodes(S) \cup {r}
    /\ \A j \in Id \ {p, l, r} : T[j] = S[j]
    /\ T[p].leaf = S[p].leaf /\ T[l].leaf = S[l].leaf /\ T[r].leaf = S[l].leaf
    /\ i \in 1 .. Len(S[p].fdes) + 1 /\ i \in 1 .. Len(S[p].cobj) /\ S[p].cobj[i] = l
    /\ IsInserted(T[p].fdes, S[p].fdes, i, e)
    /\ IsInserted(T[p].cobj, S[p].cobj, i + 1, r)
    /\ IsMiddle(S[l].fdes, T[l].fdes, e, T[r].fdes)
    /\ IsJoined(S[l].cobj, T[l].cobj, T[r].cobj)
    /\ Branches(S[l]) /\ Branches(T[l]) /\ Branches(T[r])

CutInSets(S, T, p, l, r) ==
    /\ Kids(T, p) = Kids(S, p) \cup {r}
    /\ Distinct(T[p].cobj) <=> Distinct(S[p].cobj) /\ r \notin Kids(S, p)
    /\ Kids(S, l) = Kids(T, l) \cup Kids(T, r)
    /\ Distinct(S[l].cobj) <=> /\ Distinct(T[l].cobj) /\ Distinct(T[r].cobj)
                               /\ Kids(T, l) \cap Kids(T, r) = {}
    /\ \A j \in Nodes(S) \ {p, l} : T[j] = S[j] /\ Kids(T, j) = Kids(S, j)
    /\ l \in Kids(S, p) /\ p # r /\ l # r
    /\ Branches(S[p]) <=> Branches(T[p])

LEMMA CutKids ==
    ASSUME NEW S, NEW T, NEW p, NEW i, NEW l, NEW r, NEW e, Cut(S, T, p, i, l, r, e)
    PROVE  CutInSets(S, T, p, l, r)
<1>1. \A j \in Nodes(S) : S[j] \in TreeNode /\ Len(S[j].cobj) \in Nat /\ Len(S[j].fdes) \in Nat
  BY NodeIs DEF Cut, Nodes, Stores
<1>2. \A j \in Nodes(T) : T[j] \in TreeNode /\ Len(T[j].cobj) \in Nat /\ Len(T[j].fdes) \in Nat
  BY NodeIs DEF Cut, Nodes, Stores
<1>3. p \in Nodes(S) /\ l \in Nodes(S) /\ p \in Nodes(T) /\ l \in Nodes(T) /\ r \in Nodes(T)
  BY DEF Cut
<1>4. i + 1 \in 1 .. Len(S[p].cobj) + 1
  BY <1>1, <1>3 DEF Cut
<1>5. /\ Kids(T, p) = Kids(S, p) \cup {r}
      /\ Distinct(T[p].cobj) <=> Distinct(S[p].cobj) /\ r \notin Kids(S, p)
  BY <1>1, <1>3, <1>4, InsertedElems DEF Cut, Kids
<1>6. /\ Kids(S, l) = Kids(T, l) \cup Kids(T, r)
      /\ Distinct(S[l].cobj) <=> /\ Distinct(T[l].cobj) /\ Distinct(T[r].cobj)
                                 /\ Kids(T, l) \cap Kids(T, r) = {}
  BY <1>2, <1>3, JoinedElems DEF Cut, Kids
<1>7. \A j \in Nodes(S) \ {p, l} : T[j] = S[j] /\ Kids(T, j) = Kids(S, j)
  BY DEF Cut, Nodes, Kids
<1>8. l \in Kids(S, p) /\ p # r /\ l # r
  BY DEF Cut, Kids, Elems
<1>9. Branches(S[p]) <=> Branches(T[p])
  <2>1. /\ Len(T[p].cobj) = Len(S[p].cobj) + 1 /\ Len(T[p].fdes) = Len(S[p].fdes) + 1
        /\ T[p].leaf = S[p].leaf /\ Len(S[p].cobj) >= 1
    BY <1>1, <1>3 DEF Cut, IsInserted
  <2>2. Len(S[p].cobj) \in Nat /\ Len(S[p].fdes) \in Nat
    BY <1>1, <1>3
  <2> QED BY <2>1, <2>2 DEF Branches
<1> QED BY <1>5, <1>6, <1>7, <1>8, <1>9 DEF CutInSets

LEMMA CutRooted ==
    ASSUME NEW S, NEW T, NEW p, NEW i, NEW l, NEW r, NEW e, Cut(S, T, p, i, l, r, e),
           NEW root, NEW h, Rooted(S, root, h),
           NEW g, g[r] = h[l], \A j \in Nodes(S) : g[j] = h[j]
    PROVE  Rooted(T, root, g)
<1>0. CutInSets(S, T, p, l, r)
  BY CutKids
<1>1. \A j \in Nodes(T) : j \in Nodes(S) \/ j = r
  BY DEF Cut
<1>2. /\ p \in Nodes(S) /\ l \in Nodes(S) /\ r \notin Nodes(S) /\ root \in Nodes(S)
      /\ Nodes(T) = Nodes(S) \cup {r} /\ T \in Stores
      /\ T[p].leaf = S[p].leaf /\ T[l].leaf = S[l].leaf /\ T[r].leaf = S[l].leaf
      /\ Branches(T[l]) /\ Branches(T[r])
  BY DEF Cut, Rooted
<1>3. \A j \in Nodes(S) : Kids(S, j) \subseteq Nodes(S) /\ r \notin Kids(S, j)
  BY <1>2 DEF Rooted
<1>4. \A j \in Nodes(T) :
        /\ g[j] \in Nat /\ g[j] <= g[root] /\ (g[j] = 0 <=> T[j].leaf)
        /\ Branches(T[j]) /\ Distinct(T[j].cobj)
  <2>1. \A j \in Nodes(S) : /\ h[j] \in Nat /\ h[j] <= h[root] /\ (h[j] = 0 <=> S[j].leaf)
                            /\ Branches(S[j]) /\ Distinct(S[j].cobj)
    BY DEF Rooted
  <2> QED BY <1>1, <1>2, <1>3, <2>1, <1>0 DEF CutInSets
<1>5. \A j \in Nodes(T) : \A c \in Kids(T, j) : c \in Nodes(T) /\ c # root /\ g[c] = g[j] - 1
  <2>1. \A j \in Nodes(S) : \A c \in Kids(S, j) : c \in Nodes(S) /\ c # root /\ h[c] = h[j] - 1
    BY DEF Rooted
  <2>2. h[l] = h[p] - 1
    BY <1>2, <2>1, <1>0 DEF CutInSets
  <2> TAKE j \in Nodes(T)
  <2> TAKE c \in Kids(T, j)
  <2>3. CASE j = p
    BY <1>2, <2>1, <2>2, <2>3, <1>0 DEF CutInSets
  <2>4. CASE j \in {l, r}
    <3>1. c \in Kids(S, l) /\ g[j] = h[l]
      BY <1>2, <2>4, <1>0 DEF CutInSets
    <3> QED BY <1>2, <2>1, <3>1
  <2>5. CASE j \notin {p, l, r}
    BY <1>1, <1>2, <2>1, <2>5, <1>0 DEF CutInSets
  <2> QED BY <2>3, <2>4, <2>5
<1>6. \A j, k \in Nodes(T) : j # k => Kids(T, j) \cap Kids(T, k) = {}
  <2>1. \A j, k \in Nodes(S) : j # k => Kids(S, j) \cap Kids(S, k) = {}
    BY DEF Rooted
  <2> DEFINE of(j) == IF j = r THEN l ELSE j
  <2>2. \A j \in Nodes(T) : of(j) \in Nodes(S) /\ \A c \in Kids(T, j) : c \in Kids(S, of(j)) \/ (c = r /\ j = p)
    <3> TAKE j \in Nodes(T)
    <3>1. CASE j = p
      BY <1>0, <1>2, <3>1 DEF CutInSets
    <3>2. CASE j = l \/ j = r
      BY <1>0, <1>2, <3>2 DEF CutInSets
    <3>3. CASE j # p /\ j # l /\ j # r
      BY <1>0, <1>1, <3>3 DEF CutInSets
    <3> QED BY <3>1, <3>2, <3>3
  <2>3. Kids(T, l) \cap Kids(T, r) = {}
    BY <1>2, <1>0 DEF Rooted, CutInSets
  <2> SUFFICES ASSUME NEW j \in Nodes(T), NEW k \in Nodes(T), j # k,
                      NEW c, c \in Kids(T, j), c \in Kids(T, k)
               PROVE  FALSE
    OBVIOUS
  <2>4. c # r
    BY <1>3, <2>2
  <2>5. of(j) = of(k)
    BY <2>1, <2>2, <2>4
  <2> QED BY <2>3, <2>5
<1>7. \A c \in Nodes(T) : c # root => \E j \in Nodes(T) : c \in Kids(T, j)
  <2> SUFFICES ASSUME NEW c \in Nodes(T), c # root PROVE \E j \in Nodes(T) : c \in Kids(T, j)
    OBVIOUS
  <2>1. CASE c = r
    BY <1>2, <2>1, <1>0 DEF CutInSets
  <2>2. CASE c # r
    <3>1. PICK j \in Nodes(S) : c \in Kids(S, j)
      BY <1>1, <2>2 DEF Rooted
    <3> QED BY <1>2, <3>1, <1>0 DEF CutInSets
  <2> QED BY <2>1, <2>2
<1> QED BY <1>2, <1>4, <1>5, <1>6, <1>7 DEF Rooted, Stores

LEMMA UncutRooted ==
    ASSUME NEW S, NEW T, NEW p, NEW i, NEW l, NEW r, NEW e, Cut(S, T, p, i, l, r, e),
           NEW root, NEW h, Rooted(T, root, h)
    PROVE  Rooted(S, root, h)
<1>0. CutInSets(S, T, p, l, r)
  BY CutKids
<1>1. /\ p # l /\ p \in Nodes(S) /\ l \in Nodes(S) /\ r \notin Nodes(S) /\ root \in Nodes(T)
      /\ Nodes(T) = Nodes(S) \cup {r} /\ S \in Stores
      /\ T[p].leaf = S[p].leaf /\ T[l].leaf = S[l].leaf /\ T[r].leaf = S[l].leaf
      /\ Branches(S[l])
  BY DEF Cut, Rooted
<1>2. \A j \in Nodes(T) : \A c \in Kids(T, j) : c \in Nodes(T) /\ c # root /\ h[c] = h[j] - 1
  BY DEF Rooted
<1>3. \A j, k \in Nodes(T) : j # k => Kids(T, j) \cap Kids(T, k) = {}
  BY DEF Rooted
<1>4. r \in Kids(T, p) /\ l \in Kids(T, p) /\ r # root /\ h[l] = h[r] /\ root \in Nodes(S)
  BY <1>1, <1>2, <1>0 DEF CutInSets
<1>5. \A j \in Nodes(S) : r \notin Kids(S, j)
  <2> SUFFICES ASSUME NEW j \in Nodes(S), r \in Kids(S, j) PROVE FALSE
    OBVIOUS
  <2>1. CASE j = p
    BY <1>1, <2>1, <1>0 DEF Rooted, CutInSets
  <2>2. CASE j = l
    <3>1. r \in Kids(T, l) \/ r \in Kids(T, r)
      BY <2>2, <1>0 DEF CutInSets
    <3> QED BY <1>1, <1>3, <1>4, <3>1, <1>0 DEF CutInSets
  <2>3. CASE j # p /\ j # l
    BY <1>1, <1>3, <1>4, <2>3, <1>0 DEF CutInSets
  <2> QED BY <2>1, <2>2, <2>3
<1>6. \A j \in Nodes(S) :
        /\ h[j] \in Nat /\ h[j] <= h[root] /\ (h[j] = 0 <=> S[j].leaf)
        /\ Branches(S[j]) /\ Distinct(S[j].cobj)
  <2>1. \A j \in Nodes(T) : /\ h[j] \in Nat /\ h[j] <= h[root] /\ (h[j] = 0 <=> T[j].leaf)
                            /\ Branches(T[j]) /\ Distinct(T[j].cobj)
    BY DEF Rooted
  <2>2. Kids(T, l) \cap Kids(T, r) = {}
    BY <1>1, <1>3, <1>0 DEF CutInSets
  <2> QED BY <1>1, <2>1, <2>2, <1>0 DEF CutInSets
<1>7. \A j \in Nodes(S) : \A c \in Kids(S, j) : c \in Nodes(S) /\ c # root /\ h[c] = h[j] - 1
  <2> TAKE j \in Nodes(S)
  <2> TAKE c \in Kids(S, j)
  <2>1. \E k \in Nodes(T) : c \in Kids(T, k) /\ h[k] = h[j]
    BY <1>1, <1>4, <1>0 DEF CutInSets
  <2>2. c # r
    BY <1>5
  <2> QED BY <1>1, <1>2, <2>1, <2>2
<1>10. \A j \in Nodes(S) : \A c \in Kids(S, j) :
         \E a \in Nodes(T) : c \in Kids(T, a) /\ (a = j \/ (j = l /\ a = r))
  <2> TAKE j \in Nodes(S)
  <2> TAKE c \in Kids(S, j)
  <2>1. CASE j = p
    BY <1>0, <1>1, <2>1 DEF CutInSets
  <2>2. CASE j = l
    BY <1>0, <1>1, <2>2 DEF CutInSets
  <2>3. CASE j # p /\ j # l
    BY <1>0, <1>1, <2>3 DEF CutInSets
  <2> QED BY <2>1, <2>2, <2>3
<1>8. \A j, k \in Nodes(S) : j # k => Kids(S, j) \cap Kids(S, k) = {}
  <2> SUFFICES ASSUME NEW j \in Nodes(S), NEW k \in Nodes(S), j # k,
                      NEW c, c \in Kids(S, j), c \in Kids(S, k)
               PROVE  FALSE
    OBVIOUS
  <2>1. \E a \in Nodes(T) : c \in Kids(T, a) /\ (a = j \/ (j = l /\ a = r))
    BY <1>10
  <2>2. \E a \in Nodes(T) : c \in Kids(T, a) /\ (a = k \/ (k = l /\ a = r))
    BY <1>10
  <2> QED BY <1>1, <1>3, <2>1, <2>2
<1>9. \A c \in Nodes(S) : c # root => \E j \in Nodes(S) : c \in Kids(S, j)
  <2> SUFFICES ASSUME NEW c \in Nodes(S), c # root PROVE \E j \in Nodes(S) : c \in Kids(S, j)
    OBVIOUS
  <2>1. PICK j \in Nodes(T) : c \in Kids(T, j)
    BY <1>1 DEF Rooted
  <2>2. c # r
    BY <1>1
  <2> QED BY <1>1, <2>1, <2>2, <1>0 DEF CutInSets
<1> QED BY <1>1, <1>4, <1>6, <1>7, <1>8, <1>9 DEF Rooted, Stores

(***************************************************************************)
(* Children K move from node a to node b of the same height.               *)
(***************************************************************************)
Moved(S, T, a, b, K) ==
    /\ S \in Stores /\ T \in Stores /\ Nodes(T) = Nodes(S)
    /\ a \in Nodes(S) /\ b \in Nodes(S) /\ a # b
    /\ Kids(S, a) = Kids(T, a) \cup K /\ Kids(T, a) \cap K = {}
    /\ Kids(T, b) = Kids(S, b) \cup K
    /\ \A j \in Nodes(S) \ {a, b} : Kids(T, j) = Kids(S, j)
    /\ \A j \in Nodes(S) : T[j].leaf = S[j].leaf /\ Branches(T[j]) /\ Distinct(T[j].cobj)

LEMMA MovedRooted ==
    ASSUME NEW S, NEW T, NEW a, NEW b, NEW K, Moved(S, T, a, b, K),
           NEW root, NEW h, Rooted(S, root, h), h[a] = h[b]
    PROVE  Rooted(T, root, h)
<1>1. /\ S \in Stores /\ T \in Stores /\ Nodes(T) = Nodes(S) /\ root \in Nodes(S)
      /\ a \in Nodes(S) /\ b \in Nodes(S) /\ a # b
      /\ Kids(S, a) = Kids(T, a) \cup K /\ Kids(T, a) \cap K = {}
      /\ Kids(T, b) = Kids(S, b) \cup K
      /\ \A j \in Nodes(S) \ {a, b} : Kids(T, j) = Kids(S, j)
  BY DEF Moved, Rooted
<1>2. \A j \in Nodes(S) : \A c \in Kids(S, j) : c \in Nodes(S) /\ c # root /\ h[c] = h[j] - 1
  BY DEF Rooted
<1>3. \A j, k \in Nodes(S) : j # k => Kids(S, j) \cap Kids(S, k) = {}
  BY DEF Rooted
<1>4. \A j \in Nodes(T) :
        /\ h[j] \in Nat /\ h[j] <= h[root] /\ (h[j] = 0 <=> T[j].leaf)
        /\ Branches(T[j]) /\ Distinct(T[j].cobj)
  BY <1>1 DEF Rooted, Moved
<1>5. \A j \in Nodes(T) : \A c \in Kids(T, j) : c \in Nodes(T) /\ c # root /\ h[c] = h[j] - 1
  <2> TAKE j \in Nodes(T)
  <2> TAKE c \in Kids(T, j)
  <2>1. c \in Kids(S, j) \/ (j = b /\ c \in Kids(S, a))
    BY <1>1
  <2> QED BY <1>1, <1>2, <2>1
<1>6. \A j, k \in Nodes(T) : j # k => Kids(T, j) \cap Kids(T, k) = {}
  <2> SUFFICES ASSUME NEW j \in Nodes(T), NEW k \in Nodes(T), j # k,
                      NEW c, c \in Kids(T, j), c \in Kids(T, k)
               PROVE  FALSE
    OBVIOUS
  <2>1. c \in Kids(S, j) \/ (j = b /\ c \in K)
    BY <1>1
  <2>2. c \in Kids(S, k) \/ (k = b /\ c \in K)
    BY <1>1
  <2>3. c \in K => j # a /\ k # a /\ c \in Kids(S, a)
    BY <1>1
  <2> QED BY <1>1, <1>3, <2>1, <2>2, <2>3
<1>7. \A c \in Nodes(T) : c # root => \E j \in Nodes(T) : c \in Kids(T, j)
  <2> SUFFICES ASSUME NEW c \in Nodes(T), c # root PROVE \E j \in Nodes(T) : c \in Kids(T, j)
    OBVIOUS
  <2>1. PICK j \in Nodes(S) : c \in Kids(S, j)
    BY <1>1 DEF Rooted
  <2>2. c \in Kids(T, j) \/ c \in Kids(T, b)
    BY <1>1, <2>1
  <2> QED BY <1>1, <2>2
<1> QED BY <1>1, <1>4, <1>5, <1>6, <1>7 DEF Rooted, Stores

(***************************************************************************)
(* An entry e moves from the parent to node r and entry f from node l to   *)
(* the parent, and with them the last child of l, c, to r.  Borrowing from *)
(* the left leads from S to T, borrowing from the right from T to S.       *)
(***************************************************************************)
Shift(S, T, p, i, l, r, e, f, c) ==
    /\ S \in Stores /\ T \in Stores /\ Nodes(T) = Nodes(S)
    /\ p \in Nodes(S) /\ l \in Nodes(S) /\ r \in Nodes(S) /\ p # l /\ p # r /\ l # r
    /\ \A j \in Id \ {p, l, r} : T[j] = S[j]
    /\ T[p].leaf = S[p].leaf /\ T[l].leaf = S[l].leaf /\ T[r].leaf = S[r].leaf
    /\ S[r].leaf = S[l].leaf
    /\ i \in 1 .. Len(S[p].fdes) /\ i \in 1 .. Len(S[p].cobj) /\ i + 1 \in 1 .. Len(S[p].cobj)
    /\ S[p].cobj[i] = l /\ S[p].cobj[i + 1] = r
    /\ T[p].cobj = S[p].cobj /\ Len(T[p].fdes) = Len(S[p].fdes)
    /\ S[p].fdes[i] = e /\ T[p].fdes[i] = f
    /\ \A k \in 1 .. Len(S[p].fdes) : k # i => T[p].fdes[k] = S[p].fdes[k]
    /\ IsInserted(S[l].fdes, T[l].fdes, Len(T[l].fdes) + 1, f)
    /\ IsInserted(T[r].fdes, S[r].fdes, 1, e)
    /\ S[l].leaf => T[l].cobj = S[l].cobj /\ T[r].cobj = S[r].cobj
    /\ ~S[l].leaf => /\ IsInserted(S[l].cobj, T[l].cobj, Len(T[l].cobj) + 1, c)
                     /\ IsInserted(T[r].cobj, S[r].cobj, 1, c)

ShiftInSets(S, T, l, r, K) ==
    /\ Kids(S, l) = Kids(T, l) \cup K
    /\ Distinct(S[l].cobj) <=> Distinct(T[l].cobj) /\ Kids(T, l) \cap K = {}
    /\ Kids(T, r) = Kids(S, r) \cup K
    /\ Distinct(T[r].cobj) <=> Distinct(S[r].cobj) /\ Kids(S, r) \cap K = {}
    /\ \A j \in Nodes(S) \ {l, r} : Kids(T, j) = Kids(S, j) /\ (Distinct(T[j].cobj) <=> Distinct(S[j].cobj))
    /\ \A j \in Nodes(S) : T[j].leaf = S[j].leaf /\ (Branches(T[j]) <=> Branches(S[j]))

LEMMA ShiftKids ==
    ASSUME NEW S, NEW T, NEW p, NEW i, NEW l, NEW r, NEW e, NEW f, NEW c,
           Shift(S, T, p, i, l, r, e, f, c)
    PROVE  \E K : ShiftInSets(S, T, l, r, K)
<1> DEFINE K == IF S[l].leaf THEN {} ELSE {c}
<1>1. /\ \A j \in Nodes(S) : S[j] \in TreeNode /\ Len(S[j].cobj) \in Nat /\ Len(S[j].fdes) \in Nat
      /\ \A j \in Nodes(S) : T[j] \in TreeNode /\ Len(T[j].cobj) \in Nat /\ Len(T[j].fdes) \in Nat
  BY NodeIs DEF Shift, Nodes, Stores
<1>2. p \in Nodes(S) /\ l \in Nodes(S) /\ r \in Nodes(S) /\ p # l /\ p # r /\ l # r
  BY DEF Shift
<1>3. /\ Kids(S, l) = Kids(T, l) \cup K
      /\ Distinct(S[l].cobj) <=> Distinct(T[l].cobj) /\ Kids(T, l) \cap K = {}
  <2>1. CASE S[l].leaf
    <3>1. T[l].cobj = S[l].cobj
      BY <2>1 DEF Shift
    <3> QED BY <2>1, <3>1 DEF Kids
  <2>2. CASE ~S[l].leaf
    <3>1. Len(T[l].cobj) \in Nat /\ IsInserted(S[l].cobj, T[l].cobj, Len(T[l].cobj) + 1, c)
      BY <1>1, <1>2, <2>2 DEF Shift
    <3>2. Len(T[l].cobj) + 1 \in 1 .. Len(T[l].cobj) + 1
      BY <3>1
    <3>3. /\ Elems(S[l].cobj) = Elems(T[l].cobj) \cup {c}
          /\ Distinct(S[l].cobj) <=> Distinct(T[l].cobj) /\ c \notin Elems(T[l].cobj)
      BY <3>1, <3>2, InsertedElems
    <3> QED BY <2>2, <3>3 DEF Kids
  <2> QED BY <2>1, <2>2
<1>4. /\ Kids(T, r) = Kids(S, r) \cup K
      /\ Distinct(T[r].cobj) <=> Distinct(S[r].cobj) /\ Kids(S, r) \cap K = {}
  <2>1. CASE S[l].leaf
    <3>1. T[r].cobj = S[r].cobj
      BY <2>1 DEF Shift
    <3> QED BY <2>1, <3>1 DEF Kids
  <2>2. CASE ~S[l].leaf
    <3>1. Len(S[r].cobj) \in Nat /\ IsInserted(T[r].cobj, S[r].cobj, 1, c)
      BY <1>1, <1>2, <2>2 DEF Shift
    <3>2. 1 \in 1 .. Len(S[r].cobj) + 1
      BY <3>1
    <3>3. /\ Elems(T[r].cobj) = Elems(S[r].cobj) \cup {c}
          /\ Distinct(T[r].cobj) <=> Distinct(S[r].cobj) /\ c \notin Elems(S[r].cobj)
      BY <3>1, <3>2, InsertedElems
    <3> QED BY <2>2, <3>3 DEF Kids
  <2> QED BY <2>1, <2>2
<1>5. \A j \in Nodes(S) \ {l, r} : T[j].cobj = S[j].cobj
  BY DEF Shift, Nodes
<1>6. \A j \in Nodes(S) : T[j].leaf = S[j].leaf /\ (Branches(T[j]) <=> Branches(S[j]))
  <2> TAKE j \in Nodes(S)
  <2>1. CASE j \notin {p, l, r}
    BY <2>1 DEF Shift, Nodes
  <2>2. CASE j = p
    BY <2>2 DEF Shift, Branches
  <2>3. CASE j = l
    <3>1. Len(S[l].fdes) = Len(T[l].fdes) + 1 /\ T[l].leaf = S[l].leaf
      BY DEF Shift, IsInserted
    <3>2. S[l].leaf => Len(T[l].cobj) = Len(S[l].cobj)
      BY DEF Shift
    <3>3. ~S[l].leaf => Len(S[l].cobj) = Len(T[l].cobj) + 1
      BY DEF Shift, IsInserted
    <3>4. Len(T[l].fdes) \in Nat /\ Len(T[l].cobj) \in Nat
      BY <1>1, <1>2
    <3>5. CASE S[l].leaf
      <4>1. T[l].leaf /\ S[l].leaf
        BY <3>1, <3>5
      <4>2. Branches(T[l]) <=> Len(T[l].cobj) = 0
        BY <4>1 DEF Branches
      <4>3. Branches(S[l]) <=> Len(S[l].cobj) = 0
        BY <4>1 DEF Branches
      <4> QED BY <2>3, <3>1, <3>2, <3>5, <4>2, <4>3
    <3>6. CASE ~S[l].leaf
      <4>1. ~T[l].leaf /\ ~S[l].leaf
        BY <3>1, <3>6
      <4>2. Branches(T[l]) <=> Len(T[l].cobj) = Len(T[l].fdes) + 1
        BY <4>1 DEF Branches
      <4>3. Branches(S[l]) <=> Len(S[l].cobj) = Len(S[l].fdes) + 1
        BY <4>1 DEF Branches
      <4>4. Len(S[l].fdes) \in Nat /\ Len(T[l].fdes) \in Nat /\ Len(S[l].cobj) \in Nat /\ Len(T[l].cobj) \in Nat
        BY <1>1, <1>2
      <4>5. Len(S[l].cobj) = Len(T[l].cobj) + 1 /\ Len(S[l].fdes) = Len(T[l].fdes) + 1
        BY <3>1, <3>3, <3>6
      <4>6. Branches(T[l]) <=> Branches(S[l])
        <5>1. PICK a, b : a = Len(T[l].fdes) /\ b = Len(T[l].cobj)
          OBVIOUS
        <5>2. a \in Nat /\ b \in Nat /\ Len(S[l].cobj) = b + 1 /\ Len(S[l].fdes) = a + 1
          BY <4>4, <4>5, <5>1
        <5>3. b = a + 1 <=> b + 1 = (a + 1) + 1
          BY <5>2
        <5> QED BY <4>2, <4>3, <5>1, <5>2, <5>3
      <4> QED BY <2>3, <3>1, <4>6
    <3> QED BY <3>5, <3>6
  <2>4. CASE j = r
    <3>1. Len(T[r].fdes) = Len(S[r].fdes) + 1 /\ T[r].leaf = S[r].leaf /\ S[r].leaf = S[l].leaf
      BY DEF Shift, IsInserted
    <3>2. S[l].leaf => Len(T[r].cobj) = Len(S[r].cobj)
      BY DEF Shift
    <3>3. ~S[l].leaf => Len(T[r].cobj) = Len(S[r].cobj) + 1
      BY DEF Shift, IsInserted
    <3>4. Len(S[r].fdes) \in Nat /\ Len(S[r].cobj) \in Nat
      BY <1>1, <1>2
    <3>5. CASE S[l].leaf
      <4>1. T[r].leaf /\ S[r].leaf
        BY <3>1, <3>5
      <4>2. Branches(T[r]) <=> Len(T[r].cobj) = 0
        BY <4>1 DEF Branches
      <4>3. Branches(S[r]) <=> Len(S[r].cobj) = 0
        BY <4>1 DEF Branches
      <4> QED BY <2>4, <3>1, <3>2, <3>5, <4>2, <4>3
    <3>6. CASE ~S[l].leaf
      <4>1. ~T[r].leaf /\ ~S[r].leaf
        BY <3>1, <3>6
      <4>2. Branches(T[r]) <=> Len(T[r].cobj) = Len(T[r].fdes) + 1
        BY <4>1 DEF Branches
      <4>3. Branches(S[r]) <=> Len(S[r].cobj) = Len(S[r].fdes) + 1
        BY <4>1 DEF Branches
      <4>4. Len(S[r].fdes) \in Nat /\ Len(T[r].fdes) \in Nat /\ Len(S[r].cobj) \in Nat /\ Len(T[r].cobj) \in Nat
        BY <1>1, <1>2
      <4> QED BY <2>4, <3>1, <3>3, <3>6, <4>2, <4>3, <4>4
    <3> QED BY <3>5, <3>6
  <2> QED BY <2>1, <2>2, <2>3, <2>4
<1> QED BY <1>3, <1>4, <1>5, <1>6 DEF ShiftInSets, Kids

LEMMA ShiftRooted ==
    ASSUME NEW S, NEW T, NEW p, NEW i, NEW l, NEW r, NEW e, NEW f, NEW c,
           Shift(S, T, p, i, l, r, e, f, c), NEW root, NEW h
    PROVE  Rooted(S, root, h) <=> Rooted(T, root, h)
<1>1. PICK K : ShiftInSets(S, T, l, r, K)
  BY ShiftKids
<1>2. /\ S \in Stores /\ T \in Stores /\ Nodes(T) = Nodes(S)
      /\ p \in Nodes(S) /\ l \in Nodes(S) /\ r \in Nodes(S) /\ l # r
  BY DEF Shift
<1>3. l \in Kids(S, p) /\ r \in Kids(S, p) /\ Kids(T, p) = Kids(S, p)
  BY DEF Shift, Kids, Elems
<1>4. ASSUME Rooted(S, root, h) PROVE Rooted(T, root, h)
  <2>1. h[l] = h[p] - 1 /\ h[r] = h[p] - 1 /\ Kids(S, l) \cap Kids(S, r) = {}
    BY <1>2, <1>3, <1>4 DEF Rooted
  <2>2. \A j \in Nodes(S) : Branches(S[j]) /\ Distinct(S[j].cobj)
    BY <1>4 DEF Rooted
  <2>3. Kids(T, l) \cap K = {} /\ Kids(S, r) \cap K = {}
    BY <1>1, <1>2, <2>1, <2>2 DEF ShiftInSets
  <2>4. \A j \in Nodes(S) : T[j].leaf = S[j].leaf /\ Branches(T[j]) /\ Distinct(T[j].cobj)
    BY <1>1, <1>2, <2>2, <2>3 DEF ShiftInSets
  <2>5. Moved(S, T, l, r, K)
    BY <1>1, <1>2, <2>3, <2>4 DEF Moved, ShiftInSets
  <2> QED BY <1>4, <2>1, <2>5, MovedRooted
<1>5. ASSUME Rooted(T, root, h) PROVE Rooted(S, root, h)
  <2>1. h[l] = h[p] - 1 /\ h[r] = h[p] - 1 /\ Kids(T, l) \cap Kids(T, r) = {}
    BY <1>2, <1>3, <1>5 DEF Rooted
  <2>2. \A j \in Nodes(S) : Branches(T[j]) /\ Distinct(T[j].cobj)
    BY <1>2, <1>5 DEF Rooted
  <2>3. Kids(T, l) \cap K = {} /\ Kids(S, r) \cap K = {}
    BY <1>1, <1>2, <2>1, <2>2 DEF ShiftInSets
  <2>4. \A j \in Nodes(S) : S[j].leaf = T[j].leaf /\ Branches(S[j]) /\ Distinct(S[j].cobj)
    BY <1>1, <1>2, <2>2, <2>3 DEF ShiftInSets
  <2>5. Moved(T, S, r, l, K)
    BY <1>1, <1>2, <2>3, <2>4 DEF Moved, ShiftInSets
  <2> QED BY <1>5, <2>1, <2>5, MovedRooted
<1> QED BY <1>4, <1>5

(***************************************************************************)
(* A new root above the old one, a root that goes, and other entries.      *)
(***************************************************************************)
Above(S, T, root, f, h, g) ==
    /\ T \in Stores /\ f \in Id \ Nodes(S) /\ Nodes(T) = Nodes(S) \cup {f}
    /\ \A j \in Nodes(S) : T[j] = S[j]
    /\ T[f].leaf = FALSE /\ Branches(T[f]) /\ Distinct(T[f].cobj) /\ Kids(T, f) = {root}
    /\ g[f] = h[root] + 1 /\ \A j \in Nodes(S) : g[j] = h[j]

LEMMA RootAdded ==
    ASSUME NEW S, NEW root, NEW h, Rooted(S, root, h), NEW f, NEW T, NEW g, Above(S, T, root, f, h, g)
    PROVE  Rooted(T, f, g)
<1>0. /\ T \in Stores /\ f \in Id \ Nodes(S) /\ Nodes(T) = Nodes(S) \cup {f}
      /\ \A j \in Nodes(S) : T[j] = S[j]
      /\ T[f].leaf = FALSE /\ Branches(T[f]) /\ Distinct(T[f].cobj) /\ Kids(T, f) = {root}
      /\ g[f] = h[root] + 1 /\ \A j \in Nodes(S) : g[j] = h[j]
  BY DEF Above
<1> USE <1>0
<1>1. \A j \in Nodes(S) : Kids(T, j) = Kids(S, j)
  BY DEF Kids
<1>2. \A j \in Nodes(S) : /\ h[j] \in Nat /\ h[j] <= h[root] /\ (h[j] = 0 <=> S[j].leaf)
                          /\ Branches(S[j]) /\ Distinct(S[j].cobj)
  BY DEF Rooted
<1>3. \A j \in Nodes(S) : \A c \in Kids(S, j) : c \in Nodes(S) /\ c # root /\ h[c] = h[j] - 1
  BY DEF Rooted
<1>4. \A j, k \in Nodes(S) : j # k => Kids(S, j) \cap Kids(S, k) = {}
  BY DEF Rooted
<1>5. \A c \in Nodes(S) : c # root => \E j \in Nodes(S) : c \in Kids(S, j)
  BY DEF Rooted
<1>6. root \in Nodes(S) /\ T \in [Id -> TreeNode \cup {Null}]
  BY DEF Rooted, Stores
<1>7. \A j \in Nodes(T) : /\ g[j] \in Nat /\ g[j] <= g[f] /\ (g[j] = 0 <=> T[j].leaf)
                          /\ Branches(T[j]) /\ Distinct(T[j].cobj)
  BY <1>2, <1>6
<1>8. \A j \in Nodes(T) : \A c \in Kids(T, j) : c \in Nodes(T) /\ c # f /\ g[c] = g[j] - 1
  BY <1>1, <1>2, <1>3, <1>6
<1>9. \A j, k \in Nodes(T) : j # k => Kids(T, j) \cap Kids(T, k) = {}
  BY <1>1, <1>3, <1>4
<1>10. \A c \in Nodes(T) : c # f => \E j \in Nodes(T) : c \in Kids(T, j)
  BY <1>1, <1>5
<1> QED BY <1>6, <1>7, <1>8, <1>9, <1>10 DEF Rooted

LEMMA RootDropped ==
    ASSUME NEW S, NEW root, NEW h, Rooted(S, root, h), NEW c, Kids(S, root) = {c},
           NEW T \in Stores, Nodes(T) = Nodes(S) \ {root}, \A j \in Nodes(T) : T[j] = S[j]
    PROVE  Rooted(T, c, h)
<1>1. \A j \in Nodes(T) : Kids(T, j) = Kids(S, j)
  BY DEF Kids
<1>2. \A j \in Nodes(S) : /\ h[j] \in Nat /\ h[j] <= h[root] /\ (h[j] = 0 <=> S[j].leaf)
                          /\ Branches(S[j]) /\ Distinct(S[j].cobj)
  BY DEF Rooted
<1>3. \A j \in Nodes(S) : \A k \in Kids(S, j) : k \in Nodes(S) /\ k # root /\ h[k] = h[j] - 1
  BY DEF Rooted
<1>4. \A j, k \in Nodes(S) : j # k => Kids(S, j) \cap Kids(S, k) = {}
  BY DEF Rooted
<1>5. \A k \in Nodes(S) : k # root => \E j \in Nodes(S) : k \in Kids(S, j)
  BY DEF Rooted
<1>6. root \in Nodes(S) /\ T \in [Id -> TreeNode \cup {Null}]
  BY DEF Rooted, Stores
<1>7. c \in Nodes(T) /\ h[c] = h[root] - 1
  BY <1>3, <1>6
<1>8. \A j \in Nodes(T) : h[j] <= h[c]
  <2> TAKE j \in Nodes(T)
  <2>1. PICK k \in Nodes(S) : j \in Kids(S, k)
    BY <1>5
  <2>2. h[j] = h[k] - 1 /\ h[k] <= h[root] /\ h[k] \in Nat /\ h[root] \in Nat
    BY <1>2, <1>3, <1>6, <2>1
  <2> QED BY <1>7, <2>2
<1>9. \A j \in Nodes(T) : \A k \in Kids(T, j) : k \in Nodes(T) /\ k # c /\ h[k] = h[j] - 1
  <2> TAKE j \in Nodes(T)
  <2> TAKE k \in Kids(T, j)
  <2>1. j \in Nodes(S) /\ j # root /\ k \in Kids(S, j)
    BY <1>1
  <2>2. k \notin Kids(S, root)
    BY <1>4, <1>6, <2>1
  <2> QED BY <1>3, <2>1, <2>2
<1>10. \A k \in Nodes(T) : k # c => \E j \in Nodes(T) : k \in Kids(T, j)
  BY <1>1, <1>5
<1>11. \A j, k \in Nodes(T) : j # k => Kids(T, j) \cap Kids(T, k) = {}
  BY <1>1, <1>4
<1> QED BY <1>2, <1>6, <1>7, <1>8, <1>9, <1>10, <1>11 DEF Rooted

\* The same branches with other entries.
Reentered(S, T) ==
    /\ S \in Stores /\ T \in Stores /\ Nodes(T) = Nodes(S)
    /\ \A j \in Nodes(S) : /\ T[j].leaf = S[j].leaf /\ T[j].cobj = S[j].cobj
                           /\ ~S[j].leaf => Len(T[j].fdes) = Len(S[j].fdes)

LEMMA ReenteredRooted ==
    ASSUME NEW S, NEW T, Reentered(S, T), NEW root, NEW h
    PROVE  Rooted(S, root, h) <=> Rooted(T, root, h)
<1>1. /\ S \in Stores /\ T \in Stores /\ Nodes(T) = Nodes(S)
      /\ \A j \in Nodes(S) : /\ T[j].leaf = S[j].leaf /\ T[j].cobj = S[j].cobj
                             /\ ~S[j].leaf => Len(T[j].fdes) = Len(S[j].fdes)
  BY DEF Reentered
<1>2. \A j \in Nodes(S) : /\ T[j].leaf = S[j].leaf
                          /\ Branches(T[j]) <=> Branches(S[j])
                          /\ Distinct(T[j].cobj) <=> Distinct(S[j].cobj)
                          /\ Kids(T, j) = Kids(S, j)
  BY <1>1 DEF Kids, Branches
<1> QED BY <1>1, <1>2 DEF Rooted, Stores

(***************************************************************************)
(* split_child cuts a full child in two.                                   *)
(***************************************************************************)
Lower(c) == [c EXCEPT !.fdes = SubSeq(@, 1, H),
                      !.cobj = IF c.leaf THEN @ ELSE SubSeq(@, 1, H + 1)]
Upper(c) == [c EXCEPT !.fdes = SubSeq(@, H + 2, Len(@)),
                      !.cobj = SubSeq(@, H + 2, Len(@))]

LEMMA Changed ==
    ASSUME NEW c \in TreeNode, NEW u, NEW v
    PROVE  [c EXCEPT !.fdes = u, !.cobj = v] = [leaf |-> c.leaf, fdes |-> u, cobj |-> v]
<1>1. PICK d : d = [c EXCEPT !.fdes = u, !.cobj = v]
  OBVIOUS
<1>2. d \in [leaf : {c.leaf}, fdes : {u}, cobj : {v}]
  BY <1>1 DEF TreeNode
<1>3. d = [leaf |-> c.leaf, fdes |-> u, cobj |-> v]
  BY <1>2
<1> QED BY <1>1, <1>3

LEMMA PartNone ==
    ASSUME NEW S, NEW s \in Seq(S), Len(s) = 0, NEW m \in Nat, m > 0
    PROVE  SubSeq(s, m, Len(s)) \in Seq(S) /\ Len(SubSeq(s, m, Len(s))) = 0
BY SubSeqProperties

LEMMA Halves ==
    ASSUME NEW c \in TreeNode, Branches(c), Len(c.fdes) = 2 * H + 1
    PROVE  /\ Lower(c) \in TreeNode /\ Upper(c) \in TreeNode
           /\ Lower(c).leaf = c.leaf /\ Upper(c).leaf = c.leaf
           /\ Len(Lower(c).fdes) = H /\ Len(Upper(c).fdes) = H
           /\ c.fdes[H + 1] \in Entry
           /\ IsMiddle(c.fdes, Lower(c).fdes, c.fdes[H + 1], Upper(c).fdes)
           /\ IsJoined(c.cobj, Lower(c).cobj, Upper(c).cobj)
           /\ Branches(Lower(c)) /\ Branches(Upper(c))
<1>1. /\ c.leaf \in BOOLEAN /\ c.fdes \in Seq(Entry) /\ c.cobj \in Seq(Id)
      /\ H \in Nat \ {0} /\ Len(c.cobj) \in Nat
      /\ \A k \in 1 .. Len(c.fdes) : c.fdes[k] \in Entry
  BY NodeIs, Geometry
<1>2. PICK a : a = SubSeq(c.fdes, 1, H)
  OBVIOUS
<1>3. PICK b : b = SubSeq(c.fdes, H + 2, Len(c.fdes))
  OBVIOUS
<1>4. a \in Seq(Entry) /\ Len(a) = H /\ \A k \in 1 .. H : a[k] = c.fdes[k]
  <2>1. 1 \in 1 .. Len(c.fdes) + 1 /\ H \in 1 - 1 .. Len(c.fdes)
    BY <1>1
  <2>2. a \in Seq(Entry) /\ IsPart(a, c.fdes, 1, H)
    BY <1>1, <1>2, <2>1, PartOf
  <2> QED BY <1>1, <2>2 DEF IsPart
<1>5. b \in Seq(Entry) /\ Len(b) = H /\ \A k \in 1 .. H : b[k] = c.fdes[H + 1 + k]
  <2>1. H + 2 \in 1 .. Len(c.fdes) + 1 /\ Len(c.fdes) \in (H + 2) - 1 .. Len(c.fdes)
    BY <1>1
  <2>2. b \in Seq(Entry) /\ IsPart(b, c.fdes, H + 2, Len(c.fdes))
    BY <1>1, <1>3, <2>1, PartOf
  <2>3. Len(c.fdes) - (H + 2) + 1 = H /\ \A k \in 1 .. H : (H + 2) + k - 1 = H + 1 + k
    BY <1>1
  <2> QED BY <1>1, <2>2, <2>3 DEF IsPart
<1>6. IsMiddle(c.fdes, a, c.fdes[H + 1], b)
  BY <1>1, <1>4, <1>5 DEF IsMiddle
<1>7. PICK x : x = IF c.leaf THEN c.cobj ELSE SubSeq(c.cobj, 1, H + 1)
  OBVIOUS
<1>8. PICK y : y = SubSeq(c.cobj, H + 2, Len(c.cobj))
  OBVIOUS
<1>9. /\ Lower(c) = [leaf |-> c.leaf, fdes |-> a, cobj |-> x]
      /\ Upper(c) = [leaf |-> c.leaf, fdes |-> b, cobj |-> y]
  <2>2. Lower(c) = [c EXCEPT !.fdes = a, !.cobj = x] /\ Upper(c) = [c EXCEPT !.fdes = b, !.cobj = y]
    BY <1>2, <1>3, <1>7, <1>8 DEF Lower, Upper
  <2> QED BY <2>2, Changed
<1>10. CASE c.leaf
  <2>1. Len(c.cobj) = 0 /\ x = c.cobj
    BY <1>7, <1>10 DEF Branches
  <2>2. y \in Seq(Id) /\ Len(y) = 0
    BY <1>1, <1>8, <2>1, PartNone
  <2>3. IsJoined(c.cobj, x, y)
    BY <2>1, <2>2 DEF IsJoined
  <2>4. Lower(c) \in TreeNode /\ Upper(c) \in TreeNode
    BY <1>1, <1>4, <1>5, <1>9, <2>1, <2>2 DEF TreeNode
  <2> QED BY <1>1, <1>4, <1>5, <1>6, <1>9, <1>10, <2>1, <2>2, <2>3, <2>4 DEF Branches
<1>11. CASE ~c.leaf
  <2>1. Len(c.cobj) = 2 * H + 2 /\ x = SubSeq(c.cobj, 1, H + 1)
    BY <1>1, <1>7, <1>11 DEF Branches
  <2>2. x \in Seq(Id) /\ Len(x) = H + 1 /\ \A k \in 1 .. H + 1 : x[k] = c.cobj[k]
    <3>1. 1 \in 1 .. Len(c.cobj) + 1 /\ H + 1 \in 1 - 1 .. Len(c.cobj)
      BY <1>1, <2>1
    <3>2. x \in Seq(Id) /\ IsPart(x, c.cobj, 1, H + 1)
      BY <1>1, <2>1, <3>1, PartOf
    <3> QED BY <1>1, <3>2 DEF IsPart
  <2>3. y \in Seq(Id) /\ Len(y) = H + 1 /\ \A k \in 1 .. H + 1 : y[k] = c.cobj[H + 1 + k]
    <3>1. H + 2 \in 1 .. Len(c.cobj) + 1 /\ Len(c.cobj) \in (H + 2) - 1 .. Len(c.cobj)
      BY <1>1, <2>1
    <3>2. y \in Seq(Id) /\ IsPart(y, c.cobj, H + 2, Len(c.cobj))
      BY <1>1, <1>8, <3>1, PartOf
    <3>3. Len(c.cobj) - (H + 2) + 1 = H + 1 /\ \A k \in 1 .. H + 1 : (H + 2) + k - 1 = H + 1 + k
      BY <1>1, <2>1
    <3> QED BY <1>1, <3>2, <3>3 DEF IsPart
  <2>4. IsJoined(c.cobj, x, y)
    <3> SUFFICES ASSUME NEW k \in 1 .. 2 * H + 2
                 PROVE  c.cobj[k] = IF k <= H + 1 THEN x[k] ELSE y[k - (H + 1)]
      BY <1>1, <2>1, <2>2, <2>3 DEF IsJoined
    <3>1. CASE k <= H + 1
      BY <1>1, <2>2, <3>1
    <3>2. CASE ~(k <= H + 1)
      <4>1. k - (H + 1) \in 1 .. H + 1 /\ H + 1 + (k - (H + 1)) = k
        BY <1>1, <3>2
      <4> QED BY <2>3, <3>2, <4>1
    <3> QED BY <3>1, <3>2
  <2>5. Lower(c) \in TreeNode /\ Upper(c) \in TreeNode
    BY <1>1, <1>4, <1>5, <1>9, <2>2, <2>3 DEF TreeNode
  <2>6. Branches(Lower(c)) /\ Branches(Upper(c))
    BY <1>4, <1>5, <1>9, <1>11, <2>2, <2>3 DEF Branches
  <2>7. c.fdes[H + 1] \in Entry
    BY <1>1
  <2> QED BY <1>4, <1>5, <1>6, <1>9, <2>4, <2>5, <2>6, <2>7
<1> QED BY <1>10, <1>11

\* S is the store with the parent that split_child is given.
SplitReady(S0, p, x, S, i, l, r) ==
    /\ DOMAIN S0 = Id /\ p \in Id /\ x \in TreeNode /\ S \in Stores /\ S = [S0 EXCEPT ![p] = x]
    /\ i \in 1 .. Len(x.fdes) + 1 /\ i <= Len(x.cobj)
    /\ l = x.cobj[i] /\ l \in Nodes(S) /\ l # p /\ Branches(S[l]) /\ Len(S[l].fdes) = 2 * H + 1
    /\ r = FreshId(S0) /\ r \in Id /\ S0[r] = Null /\ r # p

LEMMA SplitIsCut ==
    ASSUME InPlace, NEW S0, NEW p, NEW x, NEW S, NEW i, NEW l, NEW r, SplitReady(S0, p, x, S, i, l, r),
           NEW T, T = SplitChild(S0, p, x, i).store
    PROVE  /\ Cut(S, T, p, i, l, r, S[l].fdes[H + 1])
           /\ SplitChild(S0, p, x, i).parent = T[p]
           /\ Len(T[l].fdes) = H /\ Len(T[r].fdes) = H
<1>0. /\ DOMAIN S0 = Id /\ p \in Id /\ x \in TreeNode /\ S \in Stores /\ S = [S0 EXCEPT ![p] = x]
      /\ i \in 1 .. Len(x.fdes) + 1 /\ i <= Len(x.cobj)
      /\ l = x.cobj[i] /\ l \in Nodes(S) /\ l # p /\ Branches(S[l]) /\ Len(S[l].fdes) = 2 * H + 1
      /\ r = FreshId(S0) /\ r \in Id /\ S0[r] = Null /\ r # p
  BY DEF SplitReady
<1> USE <1>0
<1> DEFINE c == S[l]
           a == [x EXCEPT !.fdes = InsertAt(@, i, c.fdes[H + 1]), !.cobj = InsertAt(@, i + 1, r)]
<1>1. l \in Id /\ S[l] \in TreeNode /\ S[l] = S0[l] /\ S[p] = x /\ r # l /\ S[r] = Null
  BY NodeIs DEF Nodes, Stores
<1>2. Read(S0, l) = c
  BY <1>1 DEF Read
<1>3. SplitChild(S0, p, x, i) =
        [store  |-> [[[[S0 EXCEPT ![r] = Zeroed] EXCEPT ![r] = Upper(c)] EXCEPT ![l] = Lower(c)] EXCEPT ![p] = a],
         parent |-> a]
  BY <1>2 DEF SplitChild, Poke, Write, Lower, Upper
<1>4. /\ Lower(c) \in TreeNode /\ Upper(c) \in TreeNode
      /\ Lower(c).leaf = c.leaf /\ Upper(c).leaf = c.leaf
      /\ Len(Lower(c).fdes) = H /\ Len(Upper(c).fdes) = H
      /\ c.fdes[H + 1] \in Entry
      /\ IsMiddle(c.fdes, Lower(c).fdes, c.fdes[H + 1], Upper(c).fdes)
      /\ IsJoined(c.cobj, Lower(c).cobj, Upper(c).cobj)
      /\ Branches(Lower(c)) /\ Branches(Upper(c)) /\ Branches(c)
  BY <1>1, Halves
<1> HIDE DEF c
<1>5. x.fdes \in Seq(Entry) /\ x.cobj \in Seq(Id) /\ Len(x.fdes) \in Nat /\ Len(x.cobj) \in Nat
  BY NodeIs
<1>6. i + 1 \in 1 .. Len(x.cobj) + 1 /\ i \in 1 .. Len(x.cobj)
  BY <1>5
<1>7. /\ InsertAt(x.fdes, i, c.fdes[H + 1]) \in Seq(Entry)
      /\ IsInserted(InsertAt(x.fdes, i, c.fdes[H + 1]), x.fdes, i, c.fdes[H + 1])
  BY <1>4, <1>5, InsertedOf
<1>8. /\ InsertAt(x.cobj, i + 1, r) \in Seq(Id)
      /\ IsInserted(InsertAt(x.cobj, i + 1, r), x.cobj, i + 1, r)
  BY <1>5, <1>6, InsertedOf
<1>9. /\ a.leaf = x.leaf /\ a.fdes = InsertAt(x.fdes, i, c.fdes[H + 1])
      /\ a.cobj = InsertAt(x.cobj, i + 1, r) /\ a \in TreeNode
  BY <1>7, <1>8 DEF TreeNode
<1>10. /\ T[p] = a /\ T[l] = Lower(c) /\ T[r] = Upper(c) /\ DOMAIN T = Id
       /\ \A j \in Id \ {p, l, r} : T[j] = S[j]
       /\ T = [j \in Id |-> T[j]]
  <2>1. T = [[[[S0 EXCEPT ![r] = Zeroed] EXCEPT ![r] = Upper(c)] EXCEPT ![l] = Lower(c)] EXCEPT ![p] = a]
    BY <1>3
  <2> HIDE DEF a
  <2>2. \A j \in Id : T[j] = IF j = p THEN a ELSE IF j = l THEN Lower(c) ELSE IF j = r THEN Upper(c) ELSE S0[j]
    BY <2>1
  <2>3. \A j \in Id : j # p => S[j] = S0[j]
    OBVIOUS
  <2>4. T = [j \in Id |-> T[j]]
    BY <2>1
  <2> QED BY <1>1, <2>2, <2>3, <2>4
<1>14. SplitChild(S0, p, x, i).parent = a
  BY <1>3
<1> HIDE DEF a
<1>11. T \in Stores
  <2>1. \A j \in Id : T[j] \in TreeNode \cup {Null}
    BY <1>4, <1>9, <1>10 DEF Stores
  <2> QED BY <1>10, <2>1 DEF Stores
<1>12. Nodes(T) = Nodes(S) \cup {r} /\ p \in Nodes(S) /\ r \in Id \ Nodes(S)
  <2>1. T[p] # Null /\ T[l] # Null /\ T[r] # Null /\ S[p] # Null
    BY <1>1, <1>4, <1>9, <1>10, NodeIs
  <2> QED BY <1>1, <1>10, <2>1 DEF Nodes
<1>13. Cut(S, T, p, i, l, r, c.fdes[H + 1])
  BY <1>1, <1>4, <1>6, <1>7, <1>8, <1>9, <1>10, <1>11, <1>12 DEF Cut, c
<1> QED BY <1>4, <1>10, <1>13, <1>14 DEF c

(***************************************************************************)
(* union_child undoes a cut.                                               *)
(***************************************************************************)
LEMMA RemovedInserted ==
    ASSUME NEW s, NEW t, Len(s) \in Nat, NEW i \in 1 .. Len(s), IsRemoved(t, s, i)
    PROVE  IsInserted(s, t, i, s[i])
<1> DEFINE n == Len(s)
<1>1. Len(t) = n - 1 /\ n \in Nat /\ i \in 1 .. n /\ \A k \in 1 .. n - 1 : t[k] = IF k < i THEN s[k] ELSE s[k + 1]
  BY DEF IsRemoved
<1> SUFFICES ASSUME NEW k \in 1 .. n
             PROVE  s[k] = IF k < i THEN t[k] ELSE IF k = i THEN s[i] ELSE t[k - 1]
  BY <1>1 DEF IsInserted
<1>2. CASE k < i
  BY <1>1, <1>2
<1>3. CASE k > i
  <2>1. k - 1 \in 1 .. n - 1 /\ ~(k - 1 < i) /\ (k - 1) + 1 = k
    BY <1>1, <1>3
  <2> QED BY <1>1, <1>3, <2>1
<1> QED BY <1>1, <1>2, <1>3

LEMMA UnitedIs ==
    ASSUME NEW a \in TreeNode, NEW b \in TreeNode, NEW e \in Entry, b.leaf = a.leaf,
           Branches(a), Branches(b), NEW u, u = United(a, e, b)
    PROVE  /\ u \in TreeNode /\ u.leaf = a.leaf /\ Branches(u)
           /\ IsMiddle(u.fdes, a.fdes, e, b.fdes) /\ IsJoined(u.cobj, a.cobj, b.cobj)
<1>1. /\ a.leaf \in BOOLEAN /\ a.fdes \in Seq(Entry) /\ b.fdes \in Seq(Entry)
      /\ a.cobj \in Seq(Id) /\ b.cobj \in Seq(Id)
      /\ Len(a.fdes) \in Nat /\ Len(b.fdes) \in Nat /\ Len(a.cobj) \in Nat /\ Len(b.cobj) \in Nat
  BY NodeIs
<1>2. PICK x : x = (a.fdes \o << e >>) \o b.fdes
  OBVIOUS
<1>3. PICK y : y = a.cobj \o b.cobj
  OBVIOUS
<1>4. x \in Seq(Entry) /\ IsMiddle(x, a.fdes, e, b.fdes)
  BY <1>1, <1>2, MiddleOf
<1>5. y \in Seq(Id) /\ IsJoined(y, a.cobj, b.cobj)
  BY <1>1, <1>3, JoinedOf
<1>6. u = [leaf |-> a.leaf, fdes |-> x, cobj |-> y]
  <2>1. u = [a EXCEPT !.fdes = x, !.cobj = y]
    BY <1>2, <1>3 DEF United
  <2> QED BY <2>1, Changed
<1>7. u \in TreeNode
  BY <1>1, <1>4, <1>5, <1>6 DEF TreeNode
<1>8. Len(x) = Len(a.fdes) + 1 + Len(b.fdes) /\ Len(y) = Len(a.cobj) + Len(b.cobj)
  BY <1>4, <1>5 DEF IsMiddle, IsJoined
<1>9. Branches(u)
  <2>1. CASE a.leaf
    <3>1. Len(a.cobj) = 0 /\ Len(b.cobj) = 0
      BY <2>1 DEF Branches
    <3>2. Len(y) = 0 /\ u.leaf /\ u.cobj = y
      BY <1>6, <1>8, <2>1, <3>1
    <3> QED BY <3>2 DEF Branches
  <2>2. CASE ~a.leaf
    <3>1. Len(a.cobj) = Len(a.fdes) + 1 /\ Len(b.cobj) = Len(b.fdes) + 1
      BY <2>2 DEF Branches
    <3>4. PICK m, n : m = Len(a.fdes) /\ n = Len(b.fdes)
      OBVIOUS
    <3>5. m \in Nat /\ n \in Nat /\ Len(x) = m + 1 + n
      BY <1>1, <1>8, <3>4
    <3>6. Len(y) = (m + 1) + (n + 1)
      BY <1>8, <3>1, <3>4
    <3>2. Len(y) = Len(x) + 1
      BY <3>5, <3>6
    <3>3. ~u.leaf /\ u.fdes = x /\ u.cobj = y
      BY <1>6, <2>2
    <3> QED BY <3>2, <3>3 DEF Branches
  <2> QED BY <2>1, <2>2
<1> QED BY <1>4, <1>5, <1>6, <1>7, <1>9

\* Node x without entry i and child i + 1.
Parted(x, i) == [x EXCEPT !.fdes = RemoveAt(@, i), !.cobj = RemoveAt(@, i + 1)]

AreUnited(S, p, i, l, r, u, x, T) ==
    /\ u = United(S[l], S[p].fdes[i], S[r]) /\ x = Parted(S[p], i)
    /\ T = DeAlloc(Write(Write(S, l, u), p, x), r)

\* Nodes l and r are children i and i + 1 of node p.
Brothers(S, p, i, l, r) ==
    /\ S \in Stores /\ p \in Nodes(S) /\ l \in Nodes(S) /\ r \in Nodes(S)
    /\ p # l /\ p # r /\ l # r /\ S[l].leaf = S[r].leaf /\ Branches(S[l]) /\ Branches(S[r])
    /\ i \in 1 .. Len(S[p].fdes) /\ i + 1 <= Len(S[p].cobj)
    /\ S[p].cobj[i] = l /\ S[p].cobj[i + 1] = r

UnitedLengths(S, T, p, l, r) ==
    /\ Len(T[l].fdes) = Len(S[l].fdes) + 1 + Len(S[r].fdes)
    /\ Len(T[p].fdes) = Len(S[p].fdes) - 1

\* S before, T after, without the case of a root that goes.
LEMMA UnionIsCut ==
    ASSUME NEW S, NEW p, NEW i, NEW l, NEW r, Brothers(S, p, i, l, r),
           NEW u, NEW x, NEW T, AreUnited(S, p, i, l, r, u, x, T)
    PROVE  /\ Cut(T, S, p, i, l, r, S[p].fdes[i])
           /\ T[l] = u /\ T[p] = x
           /\ UnitedLengths(S, T, p, l, r)
<1> DEFINE e == S[p].fdes[i]
<1>0. /\ S \in Stores /\ p \in Nodes(S) /\ l \in Nodes(S) /\ r \in Nodes(S)
      /\ p # l /\ p # r /\ l # r /\ S[l].leaf = S[r].leaf /\ Branches(S[l]) /\ Branches(S[r])
      /\ i \in 1 .. Len(S[p].fdes) /\ i + 1 <= Len(S[p].cobj)
      /\ S[p].cobj[i] = l /\ S[p].cobj[i + 1] = r
  BY DEF Brothers
<1> USE <1>0
<1>22. u = United(S[l], S[p].fdes[i], S[r]) /\ x = Parted(S[p], i) /\ T = DeAlloc(Write(Write(S, l, u), p, x), r)
  BY DEF AreUnited
<1>1. /\ p \in Id /\ l \in Id /\ r \in Id
      /\ S[p] \in TreeNode /\ S[l] \in TreeNode /\ S[r] \in TreeNode
  BY DEF Nodes, Stores
<1>2. /\ S[p].fdes \in Seq(Entry) /\ S[p].cobj \in Seq(Id)
      /\ Len(S[p].fdes) \in Nat /\ Len(S[p].cobj) \in Nat /\ e \in Entry
  BY <1>1, NodeIs
<1>20. u = United(S[l], e, S[r]) /\ S[r].leaf = S[l].leaf
  BY <1>22
<1> HIDE DEF e
<1>3. /\ u \in TreeNode /\ u.leaf = S[l].leaf /\ Branches(u)
      /\ IsMiddle(u.fdes, S[l].fdes, e, S[r].fdes) /\ IsJoined(u.cobj, S[l].cobj, S[r].cobj)
  <2>1. PICK a, b : a = S[l] /\ b = S[r]
    OBVIOUS
  <2>2. a \in TreeNode /\ b \in TreeNode /\ b.leaf = a.leaf /\ Branches(a) /\ Branches(b)
    BY <1>1, <1>20, <2>1
  <2>3. u = United(a, e, b)
    BY <1>20, <2>1
  <2> HIDE <1>0
  <2>4. /\ u \in TreeNode /\ u.leaf = a.leaf /\ Branches(u)
        /\ IsMiddle(u.fdes, a.fdes, e, b.fdes) /\ IsJoined(u.cobj, a.cobj, b.cobj)
    BY <1>2, <2>2, <2>3, UnitedIs
  <2> QED BY <2>1, <2>4
<1>4. i + 1 \in 1 .. Len(S[p].cobj) /\ i \in 1 .. Len(S[p].cobj)
  BY <1>2
<1>5. PICK fs : fs = RemoveAt(S[p].fdes, i)
  OBVIOUS
<1>6. PICK cs : cs = RemoveAt(S[p].cobj, i + 1)
  OBVIOUS
<1>7. /\ fs \in Seq(Entry) /\ Len(fs) = Len(S[p].fdes) - 1 /\ IsInserted(S[p].fdes, fs, i, e)
  <2>1. fs \in Seq(Entry) /\ IsRemoved(fs, S[p].fdes, i)
    BY <1>2, <1>5, RemovedOf
  <2>2. IsInserted(S[p].fdes, fs, i, S[p].fdes[i])
    BY <1>2, <2>1, RemovedInserted
  <2> QED BY <2>1, <2>2 DEF IsRemoved, e
<1>8. /\ cs \in Seq(Id) /\ IsInserted(S[p].cobj, cs, i + 1, r) /\ Len(cs) = Len(S[p].cobj) - 1 /\ cs[i] = l
  <2>1. cs \in Seq(Id) /\ IsRemoved(cs, S[p].cobj, i + 1)
    BY <1>2, <1>4, <1>6, RemovedOf
  <2>2. IsInserted(S[p].cobj, cs, i + 1, r)
    BY <1>2, <1>4, <2>1, RemovedInserted
  <2>3. i \in 1 .. Len(S[p].cobj) - 1 /\ i < i + 1
    BY <1>2, <1>4
  <2> QED BY <2>1, <2>2, <2>3 DEF IsRemoved
<1>19. PICK w : w = [leaf |-> S[p].leaf, fdes |-> fs, cobj |-> cs]
  OBVIOUS
<1>21. w.leaf = S[p].leaf /\ w.fdes = fs /\ w.cobj = cs
  BY <1>19
<1>9. x = w
  <2>1. x = [S[p] EXCEPT !.fdes = fs, !.cobj = cs]
    BY <1>5, <1>6, <1>22 DEF Parted
  <2>2. S[p] \in TreeNode
    BY <1>1
  <2>3. [S[p] EXCEPT !.fdes = fs, !.cobj = cs] = [leaf |-> S[p].leaf, fdes |-> fs, cobj |-> cs]
    BY <2>2, Changed, Zenon
  <2> QED BY <1>19, <2>1, <2>3, Zenon
<1>10. w \in TreeNode
  <2>1. S[p].leaf \in BOOLEAN
    BY <1>1, NodeIs
  <2> QED BY <1>7, <1>8, <1>19, <2>1 DEF TreeNode
<1>11. /\ T[p] = w /\ T[l] = u /\ T[r] = Null
       /\ \A j \in Id \ {p, l, r} : T[j] = S[j]
       /\ DOMAIN T = Id /\ T = [j \in Id |-> T[j]]
  BY <1>1, <1>9, <1>22 DEF Stores, Write, DeAlloc
<1>12. T \in Stores
  <2>1. \A j \in Id : T[j] \in TreeNode \cup {Null}
    BY <1>3, <1>10, <1>11 DEF Stores
  <2> QED BY <1>11, <2>1 DEF Stores
<1>13. p \in Nodes(T) /\ l \in Nodes(T) /\ r \in Id \ Nodes(T) /\ Nodes(S) = Nodes(T) \cup {r}
  <2>1. T[p] # Null /\ T[l] # Null
    BY <1>3, <1>10, <1>11, NodeIs
  <2> QED BY <1>1, <1>11, <2>1 DEF Nodes
<1>14. i \in 1 .. Len(fs) + 1 /\ i \in 1 .. Len(cs)
  BY <1>2, <1>4, <1>7, <1>8
<1>17. T[p].leaf = S[p].leaf /\ T[p].fdes = fs /\ T[p].cobj = cs
  BY <1>11, <1>21
<1>18. \A j \in Id \ {p, l, r} : S[j] = T[j]
  BY <1>11
<1>15. Cut(T, S, p, i, l, r, e)
  BY <1>3, <1>7, <1>8, <1>11, <1>12, <1>13, <1>14, <1>17, <1>18 DEF Cut
<1>16. Len(T[l].fdes) = Len(S[l].fdes) + 1 + Len(S[r].fdes) /\ Len(T[p].fdes) = Len(S[p].fdes) - 1
  BY <1>3, <1>7, <1>11, <1>17 DEF IsMiddle
<1> QED BY <1>9, <1>11, <1>15, <1>16 DEF e, UnitedLengths

(***************************************************************************)
(* Borrowing shifts an entry through the parent.                           *)
(***************************************************************************)
LEMMA FrontInserted ==
    ASSUME NEW S, NEW s \in Seq(S), Len(s) > 0, NEW t, t = Front(s)
    PROVE  /\ t \in Seq(S) /\ Len(t) \in Nat /\ Len(s) = Len(t) + 1 /\ Last(s) \in S
           /\ IsInserted(s, t, Len(t) + 1, Last(s))
<1>1. t \in Seq(S) /\ IsPart(t, s, 1, Len(s) - 1) /\ Last(s) = s[Len(s)] /\ Last(s) \in S
  BY FrontOf
<1>2. PICK n : n = Len(t)
  OBVIOUS
<1>3. n \in Nat /\ Len(s) \in Nat
  BY <1>1, <1>2, LenProperties
<1>4. Len(s) = n + 1 /\ \A k \in 1 .. n : t[k] = s[k]
  BY <1>1, <1>2, <1>3 DEF IsPart
<1>5. IsInserted(s, t, n + 1, Last(s))
  BY <1>1, <1>2, <1>3, <1>4 DEF IsInserted
<1> QED BY <1>1, <1>2, <1>3, <1>4, <1>5

LEMMA TailInserted ==
    ASSUME NEW S, NEW s \in Seq(S), Len(s) > 0, NEW t, t = Tail(s)
    PROVE  /\ t \in Seq(S) /\ Len(t) \in Nat /\ Len(s) = Len(t) + 1 /\ Head(s) \in S
           /\ IsInserted(s, t, 1, Head(s))
<1>1. t \in Seq(S) /\ IsPart(t, s, 2, Len(s)) /\ Head(s) = s[1] /\ Head(s) \in S
  BY TailOf
<1>2. PICK n : n = Len(t)
  OBVIOUS
<1>3. n \in Nat /\ Len(s) \in Nat
  BY <1>1, <1>2, LenProperties
<1>4. Len(s) = n + 1 /\ \A k \in 1 .. n : t[k] = s[k + 1]
  BY <1>1, <1>2, <1>3 DEF IsPart
<1>5. \A k \in 1 .. n + 1 : k # 1 => k - 1 \in 1 .. n /\ (k - 1) + 1 = k
  BY <1>3
<1>6. IsInserted(s, t, 1, Head(s))
  BY <1>1, <1>2, <1>3, <1>4, <1>5 DEF IsInserted
<1> QED BY <1>1, <1>2, <1>3, <1>4, <1>6

LEMMA ConsInserted ==
    ASSUME NEW S, NEW s \in Seq(S), NEW e \in S, NEW a, a = << e >>
    PROVE  /\ a \o s \in Seq(S) /\ Len(a \o s) = Len(s) + 1 /\ Len(s) \in Nat
           /\ IsInserted(a \o s, s, 1, e)
<1>2. a \in Seq(S) /\ Len(a) = 1 /\ a[1] = e
  BY OneOf
<1>1. PICK t : t = a \o s
  OBVIOUS
<1>3. t \in Seq(S) /\ IsJoined(t, a, s)
  BY <1>1, <1>2, JoinedOf
<1>4. PICK n : n = Len(s)
  OBVIOUS
<1>5. n \in Nat
  BY <1>4, LenProperties
<1>6. Len(t) = n + 1 /\ \A k \in 1 .. n + 1 : t[k] = IF k <= 1 THEN a[k] ELSE s[k - 1]
  BY <1>2, <1>3, <1>4, <1>5 DEF IsJoined
<1>7. IsInserted(t, s, 1, e)
  BY <1>2, <1>4, <1>5, <1>6 DEF IsInserted
<1> QED BY <1>1, <1>3, <1>4, <1>5, <1>6, <1>7

LEMMA AppendInserted ==
    ASSUME NEW S, NEW s \in Seq(S), NEW e \in S, NEW a, a = << e >>
    PROVE  /\ s \o a \in Seq(S) /\ Len(s \o a) = Len(s) + 1 /\ Len(s) \in Nat
           /\ IsInserted(s \o a, s, Len(s) + 1, e)
<1>2. a \in Seq(S) /\ Len(a) = 1 /\ a[1] = e
  BY OneOf
<1>1. PICK t : t = s \o a
  OBVIOUS
<1>3. t \in Seq(S) /\ IsJoined(t, s, a)
  BY <1>1, <1>2, JoinedOf
<1>4. PICK n : n = Len(s)
  OBVIOUS
<1>5. n \in Nat
  BY <1>4, LenProperties
<1>6. Len(t) = n + 1 /\ \A k \in 1 .. n + 1 : t[k] = IF k <= n THEN s[k] ELSE a[k - n]
  BY <1>2, <1>3, <1>4, <1>5 DEF IsJoined
<1>7. IsInserted(t, s, n + 1, e)
  BY <1>2, <1>4, <1>5, <1>6 DEF IsInserted
<1> QED BY <1>1, <1>3, <1>4, <1>5, <1>6, <1>7

\* A node without its last entry and child, with one more at its front, and so on.
NoLast(x)        == [x EXCEPT !.fdes = Front(@), !.cobj = IF x.leaf THEN @ ELSE Front(@)]
NoFirst(x)       == [x EXCEPT !.fdes = Tail(@), !.cobj = IF x.leaf THEN @ ELSE Tail(@)]
MoreFirst(x, e, c) == [x EXCEPT !.fdes = << e >> \o @, !.cobj = IF x.leaf THEN @ ELSE << c >> \o @]
MoreLast(x, e, c)  == [x EXCEPT !.fdes = @ \o << e >>, !.cobj = IF x.leaf THEN @ ELSE @ \o << c >>]

LEMMA NoLastIs ==
    ASSUME NEW x \in TreeNode, Len(x.fdes) > 0, Branches(x), NEW y, y = NoLast(x)
    PROVE  /\ y \in TreeNode /\ y.leaf = x.leaf /\ Len(y.fdes) \in Nat /\ Len(x.fdes) = Len(y.fdes) + 1
           /\ Last(x.fdes) \in Entry /\ IsInserted(x.fdes, y.fdes, Len(y.fdes) + 1, Last(x.fdes))
           /\ x.leaf => y.cobj = x.cobj
           /\ ~x.leaf => Last(x.cobj) \in Id /\ IsInserted(x.cobj, y.cobj, Len(y.cobj) + 1, Last(x.cobj))
<1>1. /\ x.leaf \in BOOLEAN /\ x.fdes \in Seq(Entry) /\ x.cobj \in Seq(Id)
      /\ Len(x.fdes) \in Nat /\ Len(x.cobj) \in Nat
  BY NodeIs
<1>2. PICK a : a = Front(x.fdes)
  OBVIOUS
<1>3. PICK b : b = IF x.leaf THEN x.cobj ELSE Front(x.cobj)
  OBVIOUS
<1>4. y = [leaf |-> x.leaf, fdes |-> a, cobj |-> b]
  <2>1. y = [x EXCEPT !.fdes = a, !.cobj = b]
    BY <1>2, <1>3 DEF NoLast
  <2>2. [x EXCEPT !.fdes = a, !.cobj = b] = [leaf |-> x.leaf, fdes |-> a, cobj |-> b]
    BY Changed, Zenon
  <2> QED BY <2>1, <2>2, Zenon
<1>5. /\ a \in Seq(Entry) /\ Len(a) \in Nat /\ Len(x.fdes) = Len(a) + 1
      /\ Last(x.fdes) \in Entry /\ IsInserted(x.fdes, a, Len(a) + 1, Last(x.fdes))
  BY <1>1, <1>2, FrontInserted
<1>6. /\ b \in Seq(Id) /\ (x.leaf => b = x.cobj)
      /\ ~x.leaf => Last(x.cobj) \in Id /\ IsInserted(x.cobj, b, Len(b) + 1, Last(x.cobj))
  <2>1. CASE x.leaf
    BY <1>1, <1>3, <2>1
  <2>2. CASE ~x.leaf
    <3>1. Len(x.cobj) > 0 /\ b = Front(x.cobj)
      BY <1>1, <1>3, <2>2 DEF Branches
    <3> QED BY <1>1, <2>2, <3>1, FrontInserted
  <2> QED BY <2>1, <2>2
<1>7. y.leaf = x.leaf /\ y.fdes = a /\ y.cobj = b
  BY <1>4
<1>8. y \in TreeNode
  BY <1>1, <1>4, <1>5, <1>6 DEF TreeNode
<1> QED BY <1>5, <1>6, <1>7, <1>8

LEMMA NoFirstIs ==
    ASSUME NEW x \in TreeNode, Len(x.fdes) > 0, Branches(x), NEW y, y = NoFirst(x)
    PROVE  /\ y \in TreeNode /\ y.leaf = x.leaf /\ Len(y.fdes) \in Nat /\ Len(x.fdes) = Len(y.fdes) + 1
           /\ Head(x.fdes) \in Entry /\ IsInserted(x.fdes, y.fdes, 1, Head(x.fdes))
           /\ x.leaf => y.cobj = x.cobj
           /\ ~x.leaf => Head(x.cobj) \in Id /\ IsInserted(x.cobj, y.cobj, 1, Head(x.cobj))
<1>1. /\ x.leaf \in BOOLEAN /\ x.fdes \in Seq(Entry) /\ x.cobj \in Seq(Id)
      /\ Len(x.fdes) \in Nat /\ Len(x.cobj) \in Nat
  BY NodeIs
<1>2. PICK a : a = Tail(x.fdes)
  OBVIOUS
<1>3. PICK b : b = IF x.leaf THEN x.cobj ELSE Tail(x.cobj)
  OBVIOUS
<1>4. y = [leaf |-> x.leaf, fdes |-> a, cobj |-> b]
  <2>1. y = [x EXCEPT !.fdes = a, !.cobj = b]
    BY <1>2, <1>3 DEF NoFirst
  <2>2. [x EXCEPT !.fdes = a, !.cobj = b] = [leaf |-> x.leaf, fdes |-> a, cobj |-> b]
    BY Changed, Zenon
  <2> QED BY <2>1, <2>2, Zenon
<1>5. /\ a \in Seq(Entry) /\ Len(a) \in Nat /\ Len(x.fdes) = Len(a) + 1
      /\ Head(x.fdes) \in Entry /\ IsInserted(x.fdes, a, 1, Head(x.fdes))
  BY <1>1, <1>2, TailInserted
<1>6. /\ b \in Seq(Id) /\ (x.leaf => b = x.cobj)
      /\ ~x.leaf => Head(x.cobj) \in Id /\ IsInserted(x.cobj, b, 1, Head(x.cobj))
  <2>1. CASE x.leaf
    BY <1>1, <1>3, <2>1
  <2>2. CASE ~x.leaf
    <3>1. Len(x.cobj) > 0 /\ b = Tail(x.cobj)
      BY <1>1, <1>3, <2>2 DEF Branches
    <3> QED BY <1>1, <2>2, <3>1, TailInserted
  <2> QED BY <2>1, <2>2
<1>7. y.leaf = x.leaf /\ y.fdes = a /\ y.cobj = b
  BY <1>4
<1>8. y \in TreeNode
  BY <1>1, <1>4, <1>5, <1>6 DEF TreeNode
<1> QED BY <1>5, <1>6, <1>7, <1>8

LEMMA MoreFirstIs ==
    ASSUME NEW x \in TreeNode, NEW e \in Entry, NEW c, ~x.leaf => c \in Id, NEW y, y = MoreFirst(x, e, c)
    PROVE  /\ y \in TreeNode /\ y.leaf = x.leaf /\ Len(x.fdes) \in Nat /\ Len(y.fdes) = Len(x.fdes) + 1
           /\ IsInserted(y.fdes, x.fdes, 1, e)
           /\ x.leaf => y.cobj = x.cobj
           /\ ~x.leaf => IsInserted(y.cobj, x.cobj, 1, c)
<1>1. x.leaf \in BOOLEAN /\ x.fdes \in Seq(Entry) /\ x.cobj \in Seq(Id)
  BY NodeIs
<1>10. PICK d : d = << e >>
  OBVIOUS
<1>11. PICK f : f = << c >>
  OBVIOUS
<1>2. PICK a : a = d \o x.fdes
  OBVIOUS
<1>3. PICK b : b = IF x.leaf THEN x.cobj ELSE f \o x.cobj
  OBVIOUS
<1>4. y = [leaf |-> x.leaf, fdes |-> a, cobj |-> b]
  <2>1. y = [x EXCEPT !.fdes = a, !.cobj = b]
    BY <1>2, <1>3, <1>10, <1>11 DEF MoreFirst
  <2>2. [x EXCEPT !.fdes = a, !.cobj = b] = [leaf |-> x.leaf, fdes |-> a, cobj |-> b]
    BY Changed, Zenon
  <2> QED BY <2>1, <2>2, Zenon
<1>5. a \in Seq(Entry) /\ Len(a) = Len(x.fdes) + 1 /\ Len(x.fdes) \in Nat /\ IsInserted(a, x.fdes, 1, e)
  BY <1>1, <1>2, <1>10, ConsInserted
<1>6. b \in Seq(Id) /\ (x.leaf => b = x.cobj) /\ (~x.leaf => IsInserted(b, x.cobj, 1, c))
  <2>1. CASE x.leaf
    BY <1>1, <1>3, <2>1
  <2>2. CASE ~x.leaf
    <3>1. c \in Id /\ b = f \o x.cobj
      BY <1>3, <2>2
    <3> QED BY <1>1, <1>11, <2>2, <3>1, ConsInserted
  <2> QED BY <2>1, <2>2
<1>7. y.leaf = x.leaf /\ y.fdes = a /\ y.cobj = b
  BY <1>4
<1>8. y \in TreeNode
  BY <1>1, <1>4, <1>5, <1>6 DEF TreeNode
<1> QED BY <1>5, <1>6, <1>7, <1>8

LEMMA MoreLastIs ==
    ASSUME NEW x \in TreeNode, NEW e \in Entry, NEW c, ~x.leaf => c \in Id, NEW y, y = MoreLast(x, e, c)
    PROVE  /\ y \in TreeNode /\ y.leaf = x.leaf /\ Len(x.fdes) \in Nat /\ Len(y.fdes) = Len(x.fdes) + 1
           /\ IsInserted(y.fdes, x.fdes, Len(x.fdes) + 1, e)
           /\ x.leaf => y.cobj = x.cobj
           /\ ~x.leaf => IsInserted(y.cobj, x.cobj, Len(x.cobj) + 1, c)
<1>1. x.leaf \in BOOLEAN /\ x.fdes \in Seq(Entry) /\ x.cobj \in Seq(Id)
  BY NodeIs
<1>10. PICK d : d = << e >>
  OBVIOUS
<1>11. PICK f : f = << c >>
  OBVIOUS
<1>2. PICK a : a = x.fdes \o d
  OBVIOUS
<1>3. PICK b : b = IF x.leaf THEN x.cobj ELSE x.cobj \o f
  OBVIOUS
<1>4. y = [leaf |-> x.leaf, fdes |-> a, cobj |-> b]
  <2>1. y = [x EXCEPT !.fdes = a, !.cobj = b]
    BY <1>2, <1>3, <1>10, <1>11 DEF MoreLast
  <2>2. [x EXCEPT !.fdes = a, !.cobj = b] = [leaf |-> x.leaf, fdes |-> a, cobj |-> b]
    BY Changed, Zenon
  <2> QED BY <2>1, <2>2, Zenon
<1>5. a \in Seq(Entry) /\ Len(a) = Len(x.fdes) + 1 /\ Len(x.fdes) \in Nat
      /\ IsInserted(a, x.fdes, Len(x.fdes) + 1, e)
  BY <1>1, <1>2, <1>10, AppendInserted
<1>6. b \in Seq(Id) /\ (x.leaf => b = x.cobj) /\ (~x.leaf => IsInserted(b, x.cobj, Len(x.cobj) + 1, c))
  <2>1. CASE x.leaf
    BY <1>1, <1>3, <2>1
  <2>2. CASE ~x.leaf
    <3>1. c \in Id /\ b = x.cobj \o f
      BY <1>3, <2>2
    <3> QED BY <1>1, <1>11, <2>2, <3>1, AppendInserted
  <2> QED BY <2>1, <2>2
<1>7. y.leaf = x.leaf /\ y.fdes = a /\ y.cobj = b
  BY <1>4
<1>8. y \in TreeNode
  BY <1>1, <1>4, <1>5, <1>6 DEF TreeNode
<1> QED BY <1>5, <1>6, <1>7, <1>8

\* A node with another entry in place i.
EntryPut(x, i, e) == [x EXCEPT !.fdes[i] = e]

LEMMA EntrySet ==
    ASSUME NEW x \in TreeNode, NEW i \in 1 .. Len(x.fdes), NEW e \in Entry, NEW y, y = EntryPut(x, i, e)
    PROVE  /\ y \in TreeNode /\ y.leaf = x.leaf /\ y.cobj = x.cobj /\ Len(y.fdes) = Len(x.fdes)
           /\ y.fdes[i] = e /\ \A k \in 1 .. Len(x.fdes) : k # i => y.fdes[k] = x.fdes[k]
<1>1. /\ x.leaf \in BOOLEAN /\ x.fdes \in Seq(Entry) /\ x.cobj \in Seq(Id)
      /\ DOMAIN x.fdes = 1 .. Len(x.fdes)
  BY NodeIs
<1>2. PICK a : a = [x.fdes EXCEPT ![i] = e]
  OBVIOUS
<1>3. a \in Seq(Entry) /\ Len(a) = Len(x.fdes) /\ a[i] = e /\ \A k \in 1 .. Len(x.fdes) : k # i => a[k] = x.fdes[k]
  <2>1. a \in Seq(Entry) /\ Len(a) = Len(x.fdes) /\ \A k \in 1 .. Len(x.fdes) : a[k] = IF k = i THEN e ELSE x.fdes[k]
    BY <1>1, <1>2, ExceptSeq
  <2> QED BY <2>1
<1>4. y.leaf = x.leaf /\ y.cobj = x.cobj /\ y.fdes = a
  BY <1>2 DEF TreeNode, EntryPut
<1>5. y \in TreeNode
  BY <1>1, <1>2, <1>3 DEF TreeNode, EntryPut
<1> QED BY <1>3, <1>4, <1>5

Written(S, p, x, l, a, r, b) == [[[S EXCEPT ![r] = b] EXCEPT ![l] = a] EXCEPT ![p] = x]

LEMMA ThreeWrites ==
    ASSUME NEW S \in Stores, NEW p \in Nodes(S), NEW l \in Nodes(S), NEW r \in Nodes(S),
           p # l, p # r, l # r, NEW x \in TreeNode, NEW a \in TreeNode, NEW b \in TreeNode,
           NEW T, T = Written(S, p, x, l, a, r, b)
    PROVE  /\ T \in Stores /\ Nodes(T) = Nodes(S) /\ T[p] = x /\ T[l] = a /\ T[r] = b
           /\ \A j \in Id \ {p, l, r} : T[j] = S[j]
<1>1. /\ p \in Id /\ l \in Id /\ r \in Id /\ x # Null /\ a # Null /\ b # Null
      /\ \A j \in Nodes(S) : S[j] # Null
  BY NodeIs DEF Nodes
<1>2. /\ T[p] = x /\ T[l] = a /\ T[r] = b /\ DOMAIN T = Id
      /\ \A j \in Id \ {p, l, r} : T[j] = S[j]
      /\ T = [j \in Id |-> T[j]]
  BY <1>1 DEF Stores, Written
<1>3. T \in Stores
  BY <1>2 DEF Stores
<1>4. Nodes(T) = Nodes(S)
  BY <1>1, <1>2 DEF Nodes
<1> QED BY <1>2, <1>3, <1>4

\* Node x gives its last or first entry f and child c away and becomes y,
\* or takes e and c and becomes y.
GivesLast(x, y, f, c) ==
    /\ x \in TreeNode /\ y \in TreeNode /\ y.leaf = x.leaf
    /\ Len(y.fdes) \in Nat /\ Len(x.fdes) = Len(y.fdes) + 1
    /\ IsInserted(x.fdes, y.fdes, Len(y.fdes) + 1, f)
    /\ x.leaf => y.cobj = x.cobj
    /\ ~x.leaf => IsInserted(x.cobj, y.cobj, Len(y.cobj) + 1, c)

GivesFirst(x, y, f, c) ==
    /\ x \in TreeNode /\ y \in TreeNode /\ y.leaf = x.leaf
    /\ Len(y.fdes) \in Nat /\ Len(x.fdes) = Len(y.fdes) + 1
    /\ IsInserted(x.fdes, y.fdes, 1, f)
    /\ x.leaf => y.cobj = x.cobj
    /\ ~x.leaf => IsInserted(x.cobj, y.cobj, 1, c)

Lengths(S, T, p, a, b) ==
    /\ Len(T[p].fdes) = Len(S[p].fdes)
    /\ Len(S[a].fdes) = Len(T[a].fdes) + 1 /\ Len(T[a].fdes) \in Nat
    /\ Len(T[b].fdes) = Len(S[b].fdes) + 1 /\ Len(S[b].fdes) \in Nat

\* Node r borrows from node l on its left.
LEMMA LentLeft ==
    ASSUME NEW S, NEW p, NEW i, NEW l, NEW r, Brothers(S, p, i, l, r),
           NEW e, e = S[p].fdes[i], NEW f \in Entry, NEW c,
           NEW a, NEW b, NEW x, x = EntryPut(S[p], i, f), GivesLast(S[l], a, f, c), GivesFirst(b, S[r], e, c),
           NEW T, T = Written(S, p, x, l, a, r, b)
    PROVE  /\ Shift(S, T, p, i, l, r, e, f, c) /\ Lengths(S, T, p, l, r)
           /\ T[p] = x /\ T[l] = a /\ T[r] = b
<1>0. /\ S \in Stores /\ p \in Nodes(S) /\ l \in Nodes(S) /\ r \in Nodes(S)
      /\ p # l /\ p # r /\ l # r /\ S[l].leaf = S[r].leaf
      /\ i \in 1 .. Len(S[p].fdes) /\ i + 1 <= Len(S[p].cobj)
      /\ S[p].cobj[i] = l /\ S[p].cobj[i + 1] = r
  BY DEF Brothers
<1> USE <1>0
<1>1. S[p] \in TreeNode
  BY DEF Nodes, Stores
<1>2. Len(S[p].fdes) \in Nat /\ Len(S[p].cobj) \in Nat
  BY <1>1, NodeIs
<1>3. /\ a \in TreeNode /\ a.leaf = S[l].leaf
      /\ IsInserted(S[l].fdes, a.fdes, Len(a.fdes) + 1, f)
      /\ S[l].leaf => a.cobj = S[l].cobj
      /\ ~S[l].leaf => IsInserted(S[l].cobj, a.cobj, Len(a.cobj) + 1, c)
  BY DEF GivesLast
<1>4. /\ b \in TreeNode /\ b.leaf = S[r].leaf
      /\ IsInserted(b.fdes, S[r].fdes, 1, e)
      /\ S[r].leaf => b.cobj = S[r].cobj
      /\ ~S[r].leaf => IsInserted(b.cobj, S[r].cobj, 1, c)
  BY DEF GivesFirst
<1>5. /\ x \in TreeNode /\ x.leaf = S[p].leaf /\ x.cobj = S[p].cobj /\ Len(x.fdes) = Len(S[p].fdes)
      /\ x.fdes[i] = f /\ \A k \in 1 .. Len(S[p].fdes) : k # i => x.fdes[k] = S[p].fdes[k]
  BY <1>1, EntrySet
<1>6. /\ T \in Stores /\ Nodes(T) = Nodes(S) /\ T[p] = x /\ T[l] = a /\ T[r] = b
      /\ \A j \in Id \ {p, l, r} : T[j] = S[j]
  <2>1. x \in TreeNode /\ a \in TreeNode /\ b \in TreeNode
    BY <1>3, <1>4, <1>5
  <2> QED BY <2>1, ThreeWrites, SMTT(60)
<1>7. i \in 1 .. Len(S[p].cobj) /\ i + 1 \in 1 .. Len(S[p].cobj)
  BY <1>2
<1>8. Shift(S, T, p, i, l, r, e, f, c)
  <2>1. /\ S[r].leaf = S[l].leaf
        /\ S[l].leaf => (a.cobj = S[l].cobj /\ b.cobj = S[r].cobj)
        /\ ~S[l].leaf => (IsInserted(S[l].cobj, a.cobj, Len(a.cobj) + 1, c) /\ IsInserted(b.cobj, S[r].cobj, 1, c))
    BY <1>3, <1>4
  <2> QED BY <1>3, <1>4, <1>5, <1>6, <1>7, <2>1 DEF Shift
<1>9. Lengths(S, T, p, l, r)
  BY <1>5, <1>6 DEF Lengths, GivesLast, GivesFirst
<1> QED BY <1>6, <1>8, <1>9

\* Node l borrows from node r on its right.
LEMMA LentRight ==
    ASSUME NEW S, NEW p, NEW i, NEW l, NEW r, Brothers(S, p, i, l, r),
           NEW e, e = S[p].fdes[i], NEW f \in Entry, NEW c,
           NEW a, NEW b, NEW x, x = EntryPut(S[p], i, f), GivesFirst(S[r], b, f, c), GivesLast(a, S[l], e, c),
           NEW T, T = Written(S, p, x, r, b, l, a)
    PROVE  /\ Shift(T, S, p, i, l, r, f, e, c) /\ Lengths(S, T, p, r, l)
           /\ T[p] = x /\ T[l] = a /\ T[r] = b
<1>0. /\ S \in Stores /\ p \in Nodes(S) /\ l \in Nodes(S) /\ r \in Nodes(S)
      /\ p # l /\ p # r /\ l # r /\ S[l].leaf = S[r].leaf
      /\ i \in 1 .. Len(S[p].fdes) /\ i + 1 <= Len(S[p].cobj)
      /\ S[p].cobj[i] = l /\ S[p].cobj[i + 1] = r
  BY DEF Brothers
<1> USE <1>0
<1>1. S[p] \in TreeNode
  BY DEF Nodes, Stores
<1>2. Len(S[p].fdes) \in Nat /\ Len(S[p].cobj) \in Nat
  BY <1>1, NodeIs
<1>3. /\ a \in TreeNode /\ S[l].leaf = a.leaf
      /\ IsInserted(a.fdes, S[l].fdes, Len(S[l].fdes) + 1, e)
      /\ a.leaf => S[l].cobj = a.cobj
      /\ ~a.leaf => IsInserted(a.cobj, S[l].cobj, Len(S[l].cobj) + 1, c)
  BY DEF GivesLast
<1>4. /\ b \in TreeNode /\ S[r].leaf = b.leaf
      /\ IsInserted(S[r].fdes, b.fdes, 1, f)
      /\ S[r].leaf => S[r].cobj = b.cobj
      /\ ~S[r].leaf => IsInserted(S[r].cobj, b.cobj, 1, c)
  BY DEF GivesFirst
<1>5. /\ x \in TreeNode /\ x.leaf = S[p].leaf /\ x.cobj = S[p].cobj /\ Len(x.fdes) = Len(S[p].fdes)
      /\ x.fdes[i] = f /\ \A k \in 1 .. Len(S[p].fdes) : k # i => x.fdes[k] = S[p].fdes[k]
  BY <1>1, EntrySet
<1>6. /\ T \in Stores /\ Nodes(T) = Nodes(S) /\ T[p] = x /\ T[r] = b /\ T[l] = a
      /\ \A j \in Id \ {p, r, l} : T[j] = S[j]
  <2>1. x \in TreeNode /\ a \in TreeNode /\ b \in TreeNode
    BY <1>3, <1>4, <1>5
  <2> QED BY <2>1, ThreeWrites, SMTT(60)
<1>7. i \in 1 .. Len(S[p].cobj) /\ i + 1 \in 1 .. Len(S[p].cobj) /\ i \in 1 .. Len(T[p].fdes)
  BY <1>2, <1>5, <1>6
<1>8. Shift(T, S, p, i, l, r, f, e, c)
  <2>1. /\ b.leaf = a.leaf
        /\ a.leaf => (S[l].cobj = a.cobj /\ S[r].cobj = b.cobj)
        /\ ~a.leaf => (IsInserted(a.cobj, S[l].cobj, Len(S[l].cobj) + 1, c) /\ IsInserted(S[r].cobj, b.cobj, 1, c))
    BY <1>3, <1>4
  <2>2. /\ T \in Stores /\ S \in Stores /\ Nodes(S) = Nodes(T)
        /\ p \in Nodes(T) /\ l \in Nodes(T) /\ r \in Nodes(T) /\ p # l /\ p # r /\ l # r
        /\ \A j \in Id \ {p, l, r} : S[j] = T[j]
        /\ S[p].leaf = T[p].leaf /\ S[l].leaf = T[l].leaf /\ S[r].leaf = T[r].leaf
        /\ T[r].leaf = T[l].leaf
    BY <1>3, <1>4, <1>5, <1>6, <2>1
  <2>3. /\ i \in 1 .. Len(T[p].cobj) /\ i + 1 \in 1 .. Len(T[p].cobj) /\ i \in 1 .. Len(T[p].fdes)
        /\ T[p].cobj[i] = l /\ T[p].cobj[i + 1] = r
        /\ S[p].cobj = T[p].cobj /\ Len(S[p].fdes) = Len(T[p].fdes)
        /\ T[p].fdes[i] = f /\ S[p].fdes[i] = e
        /\ \A k \in 1 .. Len(T[p].fdes) : k # i => S[p].fdes[k] = T[p].fdes[k]
    BY <1>5, <1>6, <1>7
  <2>4. /\ IsInserted(T[l].fdes, S[l].fdes, Len(S[l].fdes) + 1, e)
        /\ IsInserted(S[r].fdes, T[r].fdes, 1, f)
    BY <1>3, <1>4, <1>6
  <2>5. /\ T[l].leaf => S[l].cobj = T[l].cobj /\ S[r].cobj = T[r].cobj
        /\ ~T[l].leaf => /\ IsInserted(T[l].cobj, S[l].cobj, Len(S[l].cobj) + 1, c)
                         /\ IsInserted(S[r].cobj, T[r].cobj, 1, c)
    BY <1>6, <2>1
  <2> QED BY <2>2, <2>3, <2>4, <2>5 DEF Shift
<1>9. Lengths(S, T, p, r, l)
  BY <1>5, <1>6 DEF Lengths, GivesLast, GivesFirst
<1> QED BY <1>6, <1>8, <1>9

(***************************************************************************)
(* A tree is no higher than Height: below the root are two nodes at each   *)
(* height.                                                                 *)
(***************************************************************************)
LEMMA SomeAtEachHeight ==
    ASSUME NEW T, NEW root, NEW h, Rooted(T, root, h)
    PROVE  \A k \in 0 .. h[root] : \E i \in Nodes(T) : h[i] = h[root] - k
<1> DEFINE Good == {k \in 0 .. h[root] : \E i \in Nodes(T) : h[i] = h[root] - k}
<1>1. root \in Nodes(T) /\ h[root] \in Nat
  BY DEF Rooted
<1>2. 0 \in Good
  BY <1>1
<1>3. ASSUME NEW k \in 1 .. h[root], k - 1 \in Good PROVE k \in Good
  <2>1. PICK i \in Nodes(T) : h[i] = h[root] - (k - 1)
    BY <1>3
  <2>2. h[i] > 0
    BY <1>1, <2>1
  <2>3. Len(T[i].cobj) = Len(T[i].fdes) + 1 /\ T[i] \in TreeNode
        /\ \A m \in 1 .. Len(T[i].cobj) : T[i].cobj[m] \in Nodes(T) /\ h[T[i].cobj[m]] = h[i] - 1
    BY <2>2, RootedIs
  <2>4. 1 \in 1 .. Len(T[i].cobj)
    BY <2>3, NodeIs
  <2>5. h[i] - 1 = h[root] - k
    BY <1>1, <2>1
  <2> QED BY <2>3, <2>4, <2>5
<1> HIDE DEF Good
<1>4. \A k \in 0 .. h[root] : k \in Good
  BY <1>1, <1>2, <1>3, UpTo
<1> QED BY <1>4 DEF Good

LEMMA TwoAtEachHeight ==
    ASSUME NEW T, NEW root, NEW h, Rooted(T, root, h), Sized(T, root), NEW k \in Nat, k < h[root]
    PROVE  \E a, b \in Nodes(T) : a # b /\ h[a] = k /\ h[b] = k
<1>1. h[root] \in Nat
  BY DEF Rooted
<1>2. PICK i \in Nodes(T) : h[i] = k + 1
  <2>1. h[root] - (k + 1) \in 0 .. h[root] /\ h[root] - (h[root] - (k + 1)) = k + 1
    BY <1>1
  <2> QED BY <2>1, SomeAtEachHeight
<1>3. /\ Len(T[i].cobj) = Len(T[i].fdes) + 1 /\ T[i] \in TreeNode /\ ~T[i].leaf
      /\ \A m \in 1 .. Len(T[i].cobj) : T[i].cobj[m] \in Nodes(T) /\ h[T[i].cobj[m]] = h[i] - 1
  BY <1>2, RootedIs
<1>4. Len(T[i].fdes) >= 1 /\ Distinct(T[i].cobj) /\ Len(T[i].fdes) \in Nat
  BY <1>3, NodeIs DEF Sized, Rooted
<1>5. 1 \in 1 .. Len(T[i].cobj) /\ 2 \in 1 .. Len(T[i].cobj) /\ 1 # 2 /\ h[i] - 1 = k
  BY <1>2, <1>3, <1>4
<1> QED BY <1>3, <1>4, <1>5 DEF Distinct

LEMMA HeightBound ==
    ASSUME NEW T, NEW root, NEW h, Rooted(T, root, h), Sized(T, root)
    PROVE  h[root] <= Height
<1> DEFINE n == h[root]
           a(k) == CHOOSE i \in Nodes(T) : h[i] = k
           b(k) == CHOOSE i \in Nodes(T) : h[i] = k /\ i # a(k)
           f == [m \in 1 .. 2 * n |-> IF m <= n THEN a(m - 1) ELSE b(m - n - 1)]
<1>1. n \in Nat
  BY DEF Rooted
<1>2. ASSUME NEW k \in 0 .. n - 1
      PROVE  a(k) \in Nodes(T) /\ h[a(k)] = k /\ b(k) \in Nodes(T) /\ h[b(k)] = k /\ b(k) # a(k)
  <2>1. k \in Nat /\ k < h[root]
    BY <1>1
  <2>2. PICK x, y \in Nodes(T) : x # y /\ h[x] = k /\ h[y] = k
    BY <2>1, TwoAtEachHeight
  <2>3. a(k) \in Nodes(T) /\ h[a(k)] = k
    BY <2>2
  <2>4. \E i \in Nodes(T) : h[i] = k /\ i # a(k)
    BY <2>2
  <2> QED BY <2>3, <2>4
<1> HIDE DEF a, b, n
<1>3. \A m \in 1 .. 2 * n : f[m] \in Id /\ h[f[m]] = IF m <= n THEN m - 1 ELSE m - n - 1
  <2> TAKE m \in 1 .. 2 * n
  <2>1. CASE m <= n
    BY <1>1, <1>2, <2>1 DEF Nodes
  <2>2. CASE ~(m <= n)
    BY <1>1, <1>2, <2>2 DEF Nodes
  <2> QED BY <2>1, <2>2
<1>4. \A m, q \in 1 .. 2 * n : f[m] = f[q] => m = q
  <2> SUFFICES ASSUME NEW m \in 1 .. 2 * n, NEW q \in 1 .. 2 * n, f[m] = f[q] PROVE m = q
    OBVIOUS
  <2>1. h[f[m]] = h[f[q]]
    OBVIOUS
  <2>2. CASE m <= n /\ q <= n
    BY <1>1, <1>3, <2>1, <2>2
  <2>3. CASE ~(m <= n) /\ ~(q <= n)
    <3>1. h[f[m]] = m - n - 1 /\ h[f[q]] = q - n - 1
      BY <1>3, <2>3
    <3>2. m \in Nat /\ q \in Nat /\ n \in Nat /\ m - n - 1 = q - n - 1
      BY <1>1, <2>1, <3>1
    <3> QED BY <3>2
  <2>4. CASE m <= n /\ ~(q <= n)
    <3>1. f[m] = a(m - 1) /\ f[q] = b(q - n - 1) /\ m - 1 \in 0 .. n - 1
      BY <1>1, <2>4
    <3>2. m - 1 = q - n - 1
      BY <1>1, <1>3, <2>1, <2>4
    <3> QED BY <1>2, <3>1, <3>2
  <2>5. CASE ~(m <= n) /\ q <= n
    <3>1. f[q] = a(q - 1) /\ f[m] = b(m - n - 1) /\ q - 1 \in 0 .. n - 1
      BY <1>1, <2>5
    <3>2. q - 1 = m - n - 1
      BY <1>1, <1>3, <2>1, <2>5
    <3> QED BY <1>2, <3>1, <3>2
  <2> QED BY <2>2, <2>3, <2>4, <2>5
<1>5. f \in [1 .. 2 * n -> Id]
  BY <1>3
<1>6. PICK g : g = f
  OBVIOUS
<1>7. IsFiniteSet(1 .. 2 * n) /\ Cardinality(1 .. 2 * n) = 2 * n
  BY <1>1, FS_Interval
<1>8. ~(Cardinality(Id) < Cardinality(1 .. 2 * n))
  <2>1. g \in [1 .. 2 * n -> Id] /\ \A m, q \in 1 .. 2 * n : g[m] = g[q] => m = q
    BY <1>4, <1>5, <1>6
  <2> HIDE DEF f
  <2>2. IsFiniteSet(Id)
    BY Geometry
  <2>3. PICK A : A = 1 .. 2 * n
    OBVIOUS
  <2>4. SUFFICES ASSUME Cardinality(Id) < Cardinality(A) PROVE FALSE
    BY <2>3
  <2>5. IsFiniteSet(A) /\ g \in [A -> Id]
    BY <1>7, <2>1, <2>3
  <2>6. \E m, q \in A : m # q /\ g[m] = g[q]
    BY <2>2, <2>4, <2>5, FS_PigeonHole, Zenon
  <2> QED BY <2>1, <2>3, <2>6
<1> HIDE DEF f
<1>9. MaxId \in Nat /\ 2 * n <= MaxId
  BY <1>1, <1>7, <1>8, Geometry
<1>10. n <= MaxId \div 2
  BY <1>1, <1>9
<1> QED BY <1>10 DEF n, Height

(***************************************************************************)
(* What a step F makes of a, again and again.                              *)
(***************************************************************************)
IsWalk(w, n, a, F) == w = [d \in 0 .. n |-> IF d = 0 THEN a ELSE F[w[d - 1]]]

LEMMA WalksExist ==
    ASSUME NEW D, NEW F \in [D -> D], NEW a \in D, NEW n \in Nat
    PROVE  \E f : IsWalk(f, n, a, F)
<1> DEFINE Is(m, f) == f = [d \in 0 .. m |-> IF d = 0 THEN a ELSE F[f[d - 1]]]
           Good == {m \in 0 .. n : \E f \in [0 .. m -> D] : Is(m, f)}
<1>1. 0 \in Good
  <2>1. PICK f : f = [d \in 0 .. 0 |-> a]
    OBVIOUS
  <2>2. f \in [0 .. 0 -> D]
    BY <2>1
  <2>3. f = [d \in 0 .. 0 |-> IF d = 0 THEN a ELSE F[f[d - 1]]]
    BY <2>1
  <2>4. 0 \in 0 .. n
    OBVIOUS
  <2> QED BY <2>2, <2>3, <2>4
<1>2. ASSUME NEW m \in 1 .. n, m - 1 \in Good PROVE m \in Good
  <2>1. PICK f \in [0 .. m - 1 -> D] : Is(m - 1, f)
    BY <1>2
  <2>2. PICK g : g = [d \in 0 .. m |-> IF d = m THEN F[f[m - 1]] ELSE f[d]]
    OBVIOUS
  <2>3. m - 1 \in 0 .. m - 1 /\ \A d \in 0 .. m : d # m => d \in 0 .. m - 1
    OBVIOUS
  <2>4. g \in [0 .. m -> D]
    BY <2>1, <2>2, <2>3
  <2>5. ASSUME NEW d \in 0 .. m PROVE g[d] = IF d = 0 THEN a ELSE F[g[d - 1]]
    <3>1. CASE d = m
      <4>1. d # 0 /\ d - 1 # m /\ d - 1 \in 0 .. m
        BY <3>1
      <4> QED BY <2>2, <3>1, <4>1
    <3>2. CASE d # m /\ d # 0
      <4>1. d \in 0 .. m - 1 /\ d - 1 # m /\ d - 1 \in 0 .. m
        BY <3>2
      <4>2. f[d] = F[f[d - 1]]
        BY <2>1, <3>2, <4>1
      <4> QED BY <2>2, <3>2, <4>1, <4>2
    <3>3. CASE d = 0
      BY <2>1, <2>2, <3>3
    <3> QED BY <3>1, <3>2, <3>3
  <2>6. g = [d \in 0 .. m |-> IF d = 0 THEN a ELSE F[g[d - 1]]]
    BY <2>4, <2>5
  <2> QED BY <2>4, <2>6
<1> HIDE DEF Good
<1>3. n \in Good
  BY <1>1, <1>2, UpTo
<1> QED BY <1>3 DEF Good, IsWalk

(***************************************************************************)
(* Walks down the tree, as sequences of ids and as the nodes the code      *)
(* reads on them.                                                          *)
(***************************************************************************)
LEMMA WalkSteps ==
    ASSUME NEW n \in Nat, NEW a, NEW F, NEW w, IsWalk(w, n, a, F)
    PROVE  w[0] = a /\ \A d \in 1 .. n : w[d] = F[w[d - 1]] /\ d - 1 \in 0 .. n /\ d \in 0 .. n
<1>1. \A d \in 0 .. n : w[d] = IF d = 0 THEN a ELSE F[w[d - 1]]
  BY DEF IsWalk
<1>2. 0 \in 0 .. n /\ \A d \in 1 .. n : d \in 0 .. n /\ d # 0 /\ d - 1 \in 0 .. n
  OBVIOUS
<1> QED BY <1>1, <1>2

LastKid(T, m)  == IF T[m].leaf THEN m ELSE T[m].cobj[Len(T[m].cobj)]
FirstKid(T, m) == IF T[m].leaf THEN m ELSE T[m].cobj[1]
KidToward(T, fhash, m) ==
    LET i == PlaceOf(T[m], fhash)
    IN  IF T[m].leaf \/ Holds(T[m], i, fhash) THEN m ELSE T[m].cobj[i]

\* A step from each node to one of its children, from a leaf nowhere.
StepsDown(T, h, F) ==
    /\ F \in [Nodes(T) -> Nodes(T)]
    /\ \A m \in Nodes(T) : h[F[m]] = IF h[m] = 0 THEN 0 ELSE h[m] - 1

LEMMA WalkHeights ==
    ASSUME NEW T, NEW root, NEW h, Rooted(T, root, h), NEW F, StepsDown(T, h, F),
           NEW id \in Nodes(T), NEW n \in Nat, NEW w, IsWalk(w, n, id, F)
    PROVE  /\ \A d \in 0 .. n : w[d] \in Nodes(T)
           /\ \A d \in 0 .. n : h[w[d]] = IF d <= h[id] THEN h[id] - d ELSE 0
<1> DEFINE Good == {d \in 0 .. n : w[d] \in Nodes(T) /\ h[w[d]] = IF d <= h[id] THEN h[id] - d ELSE 0}
<1>1. h[id] \in Nat
  BY RootedIs
<1>2. 0 \in Good
  BY <1>1, WalkSteps
<1>3. ASSUME NEW d \in 1 .. n, d - 1 \in Good PROVE d \in Good
  <2>1. w[d] = F[w[d - 1]] /\ d \in 0 .. n
    BY WalkSteps
  <2>2. w[d] \in Nodes(T) /\ h[w[d]] = IF h[w[d - 1]] = 0 THEN 0 ELSE h[w[d - 1]] - 1
    BY <1>3, <2>1 DEF StepsDown
  <2>3. h[w[d - 1]] = IF d - 1 <= h[id] THEN h[id] - (d - 1) ELSE 0
    BY <1>3
  <2> QED BY <1>1, <2>1, <2>2, <2>3
<1> HIDE DEF Good
<1>4. \A d \in 0 .. n : d \in Good
  BY <1>2, <1>3, UpTo
<1> QED BY <1>4 DEF Good

LEMMA EndKids ==
    ASSUME NEW T, NEW root, NEW h, Rooted(T, root, h), NEW m \in Nodes(T)
    PROVE  /\ LastKid(T, m) \in Nodes(T) /\ h[LastKid(T, m)] = IF h[m] = 0 THEN 0 ELSE h[m] - 1
           /\ FirstKid(T, m) \in Nodes(T) /\ h[FirstKid(T, m)] = IF h[m] = 0 THEN 0 ELSE h[m] - 1
<1>1. /\ T[m] \in TreeNode /\ h[m] \in Nat
      /\ h[m] = 0 <=> T[m].leaf
      /\ h[m] > 0 => Len(T[m].cobj) = Len(T[m].fdes) + 1
      /\ \A k \in 1 .. Len(T[m].cobj) : T[m].cobj[k] \in Nodes(T) /\ h[T[m].cobj[k]] = h[m] - 1
  BY RootedIs
<1>2. Len(T[m].fdes) \in Nat
  BY <1>1, NodeIs
<1>3. CASE h[m] = 0
  BY <1>1, <1>3 DEF LastKid, FirstKid
<1>4. CASE h[m] > 0
  <2>1. 1 \in 1 .. Len(T[m].cobj) /\ Len(T[m].cobj) \in 1 .. Len(T[m].cobj)
    BY <1>1, <1>2, <1>4
  <2> QED BY <1>1, <1>4, <2>1 DEF LastKid, FirstKid
<1> QED BY <1>1, <1>3, <1>4

LEMMA EndSteps ==
    ASSUME NEW T, NEW root, NEW h, Rooted(T, root, h)
    PROVE  /\ StepsDown(T, h, [m \in Nodes(T) |-> LastKid(T, m)])
           /\ StepsDown(T, h, [m \in Nodes(T) |-> FirstKid(T, m)])
BY EndKids DEF StepsDown

\* Child, as the code reads it, is the store at the child's id.
LEMMA ChildIs ==
    ASSUME NEW T, NEW root, NEW h, Rooted(T, root, h), NEW m \in Nodes(T), NEW k \in 1 .. Len(T[m].cobj)
    PROVE  Child(T, T[m], k) = T[T[m].cobj[k]] /\ T[m].cobj[k] \in Nodes(T)
<1>1. T[m].cobj[k] \in Nodes(T)
  BY RootedIs
<1> QED BY <1>1 DEF Child, Read, Nodes

LEMMA EndChildren ==
    ASSUME NEW root, NEW h, Rooted(store, root, h), NEW m \in Nodes(store)
    PROVE  /\ LastChild(store[m]) = store[LastKid(store, m)]
           /\ FirstChild(store[m]) = store[FirstKid(store, m)]
<1>1. /\ store[m] \in TreeNode /\ h[m] \in Nat
      /\ h[m] = 0 <=> store[m].leaf
      /\ h[m] > 0 => Len(store[m].cobj) = Len(store[m].fdes) + 1
  BY RootedIs
<1>2. Len(store[m].fdes) \in Nat
  BY <1>1, NodeIs
<1>3. CASE store[m].leaf
  BY <1>3 DEF LastKid, FirstKid, LastChild, FirstChild
<1>4. CASE ~store[m].leaf
  <2>1. 1 \in 1 .. Len(store[m].cobj) /\ Len(store[m].cobj) \in 1 .. Len(store[m].cobj)
    BY <1>1, <1>2, <1>4
  <2> QED BY <1>4, <2>1, ChildIs DEF LastKid, FirstKid, LastChild, FirstChild
<1> QED BY <1>3, <1>4

LEMMA SameUpTo ==
    ASSUME NEW n \in Nat, NEW f, NEW g, f[0] = g[0],
           \A d \in 1 .. n : f[d - 1] = g[d - 1] => f[d] = g[d]
    PROVE  \A d \in 0 .. n : f[d] = g[d]
<1> DEFINE Good == {d \in 0 .. n : f[d] = g[d]}
<1>1. 0 \in Good /\ \A d \in 1 .. n : d - 1 \in Good => d \in Good
  OBVIOUS
<1> HIDE DEF Good
<1>2. \A d \in 0 .. n : d \in Good
  BY <1>1, UpTo
<1> QED BY <1>2 DEF Good

LEMMA HeightIs == Height \in Nat
BY Geometry DEF Height

LEMMA WalkIs ==
    ASSUME NEW T, NEW h, NEW F, StepsDown(T, h, F), NEW id \in Nodes(T)
    PROVE  \E w : IsWalk(w, Height, id, F)
<1>1. F \in [Nodes(T) -> Nodes(T)] /\ Height \in Nat
  BY HeightIs DEF StepsDown
<1> QED BY <1>1, WalksExist

\* The nodes max_of_dobj and min_of_dobj read.
LEMMA DownLast ==
    ASSUME NEW root, NEW h, Rooted(store, root, h), NEW id \in Nodes(store),
           NEW w, IsWalk(w, Height, id, [m \in Nodes(store) |-> LastKid(store, m)])
    PROVE  MaxOf(id) = Last(store[w[Height]].fdes)
<1> DEFINE down[d \in 0 .. Height] == IF d = 0 THEN store[id] ELSE LastChild(down[d - 1])
           Eq(f) == f = [d \in 0 .. Height |-> IF d = 0 THEN store[id] ELSE LastChild(f[d - 1])]
           g == [d \in 0 .. Height |-> store[w[d]]]
<1>1. MaxOf(id) = Last(down[Height].fdes)
  BY DEF MaxOf
<1>2. /\ \A d \in 0 .. Height : w[d] \in Nodes(store)
      /\ w[0] = id /\ \A d \in 1 .. Height : w[d] = [m \in Nodes(store) |-> LastKid(store, m)][w[d - 1]]
                                             /\ d - 1 \in 0 .. Height /\ d \in 0 .. Height
  <2>1. PICK F : F = [m \in Nodes(store) |-> LastKid(store, m)]
    OBVIOUS
  <2>2. IsWalk(w, Height, id, F) /\ StepsDown(store, h, F)
    BY <2>1, EndSteps
  <2>3. \A d \in 0 .. Height : w[d] \in Nodes(store)
    BY <2>2, HeightIs, WalkHeights
  <2>4. w[0] = id /\ \A d \in 1 .. Height : w[d] = F[w[d - 1]] /\ d - 1 \in 0 .. Height /\ d \in 0 .. Height
    BY <2>2, HeightIs, WalkSteps
  <2> QED BY <2>1, <2>3, <2>4
<1>3. \A d \in 1 .. Height : store[w[d]] = LastChild(store[w[d - 1]]) /\ d - 1 \in 0 .. Height
  BY <1>2, EndChildren
<1>4. Eq(g)
  <2>1. \A d \in 0 .. Height : g[d] = IF d = 0 THEN store[id] ELSE LastChild(g[d - 1])
    <3> TAKE d \in 0 .. Height
    <3>1. CASE d = 0
      BY <1>2, <3>1
    <3>2. CASE d # 0
      <4>1. d \in 1 .. Height
        BY <3>2, HeightIs
      <4> QED BY <1>3, <3>2, <4>1
    <3> QED BY <3>1, <3>2
  <2> QED BY <2>1
<1>5. Eq(down)
  BY <1>4
<1> HIDE DEF down
<1>6. \A d \in 0 .. Height : down[d] = IF d = 0 THEN store[id] ELSE LastChild(down[d - 1])
  BY <1>5
<1>7. \A d \in 0 .. Height : down[d] = g[d]
  <2>1. down[0] = g[0] /\ \A d \in 1 .. Height : down[d - 1] = g[d - 1] => down[d] = g[d]
    BY <1>2, <1>3, <1>6, HeightIs
  <2> HIDE DEF g
  <2> QED BY <2>1, HeightIs, SameUpTo
<1> QED BY <1>1, <1>7, HeightIs
LEMMA FirstsAre ==
    ASSUME NEW root, NEW h, Rooted(store, root, h), NEW id \in Nodes(store),
           NEW w, IsWalk(w, Height, id, [m \in Nodes(store) |-> FirstKid(store, m)])
    PROVE  LET down[d \in 0 .. Height] == IF d = 0 THEN store[id] ELSE FirstChild(down[d - 1])
           IN  \A d \in 0 .. Height : down[d] = store[w[d]]
<1> DEFINE down[d \in 0 .. Height] == IF d = 0 THEN store[id] ELSE FirstChild(down[d - 1])
           Eq(f) == f = [d \in 0 .. Height |-> IF d = 0 THEN store[id] ELSE FirstChild(f[d - 1])]
           g == [d \in 0 .. Height |-> store[w[d]]]
<1>2. /\ \A d \in 0 .. Height : w[d] \in Nodes(store)
      /\ w[0] = id /\ \A d \in 1 .. Height : w[d] = [m \in Nodes(store) |-> FirstKid(store, m)][w[d - 1]]
                                             /\ d - 1 \in 0 .. Height /\ d \in 0 .. Height
  <2>1. PICK F : F = [m \in Nodes(store) |-> FirstKid(store, m)]
    OBVIOUS
  <2>2. IsWalk(w, Height, id, F) /\ StepsDown(store, h, F)
    BY <2>1, EndSteps
  <2>3. \A d \in 0 .. Height : w[d] \in Nodes(store)
    BY <2>2, HeightIs, WalkHeights
  <2>4. w[0] = id /\ \A d \in 1 .. Height : w[d] = F[w[d - 1]] /\ d - 1 \in 0 .. Height /\ d \in 0 .. Height
    BY <2>2, HeightIs, WalkSteps
  <2> QED BY <2>1, <2>3, <2>4
<1>3. \A d \in 1 .. Height : store[w[d]] = FirstChild(store[w[d - 1]]) /\ d - 1 \in 0 .. Height
  BY <1>2, EndChildren
<1>4. Eq(g)
  <2>1. \A d \in 0 .. Height : g[d] = IF d = 0 THEN store[id] ELSE FirstChild(g[d - 1])
    <3> TAKE d \in 0 .. Height
    <3>1. CASE d = 0
      BY <1>2, <3>1
    <3>2. CASE d # 0
      <4>1. d \in 1 .. Height
        BY <3>2, HeightIs
      <4> QED BY <1>3, <3>2, <4>1
    <3> QED BY <3>1, <3>2
  <2> QED BY <2>1
<1>5. Eq(down)
  BY <1>4
<1> HIDE DEF down
<1>6. \A d \in 0 .. Height : down[d] = IF d = 0 THEN store[id] ELSE FirstChild(down[d - 1])
  BY <1>5
<1>7. \A d \in 0 .. Height : down[d] = g[d]
  <2>1. down[0] = g[0] /\ \A d \in 1 .. Height : down[d - 1] = g[d - 1] => down[d] = g[d]
    BY <1>2, <1>3, <1>6, HeightIs
  <2> HIDE DEF g
  <2> QED BY <2>1, HeightIs, SameUpTo
<1>8. \A d \in 0 .. Height : down[d] = store[w[d]]
  BY <1>7
<1> QED BY <1>8 DEF down

LEMMA DownFirst ==
    ASSUME NEW root, NEW h, Rooted(store, root, h), NEW id \in Nodes(store),
           NEW w, IsWalk(w, Height, id, [m \in Nodes(store) |-> FirstKid(store, m)])
    PROVE  MinOf(id) = Head(store[w[Height]].fdes)
<1>1. Height \in 0 .. Height
  BY HeightIs
<1> QED BY <1>1, FirstsAre DEF MinOf

\* A walk to the leaves passes h[id] inner nodes.
LEMMA LevelsBelowIs ==
    ASSUME NEW root, NEW h, Rooted(store, root, h), h[root] <= Height, NEW id \in Nodes(store)
    PROVE  LevelsBelow(id) = h[id]
<1> DEFINE down[d \in 0 .. Height] == IF d = 0 THEN store[id] ELSE FirstChild(down[d - 1])
<1>1. PICK F : F = [m \in Nodes(store) |-> FirstKid(store, m)]
  OBVIOUS
<1>2. StepsDown(store, h, F)
  BY <1>1, EndSteps
<1>3. PICK w : IsWalk(w, Height, id, F)
  BY <1>2, WalkIs
<1>4. \A d \in 0 .. Height : w[d] \in Nodes(store) /\ h[w[d]] = IF d <= h[id] THEN h[id] - d ELSE 0
  BY <1>2, <1>3, HeightIs, WalkHeights
<1>5. \A d \in 0 .. Height : down[d] = store[w[d]]
  BY <1>1, <1>3, FirstsAre
<1>6. LevelsBelow(id) = Cardinality({d \in 0 .. Height : ~down[d].leaf})
  BY DEF LevelsBelow
<1> HIDE DEF down
<1>7. h[id] \in 0 .. Height
  <2>1. h[id] \in Nat /\ h[id] <= h[root] /\ h[root] \in Nat
    BY RootedIs DEF Rooted
  <2> QED BY <2>1, HeightIs
<1>8. \A d \in 0 .. Height : ~down[d].leaf <=> d \in 0 .. h[id] - 1
  <2> TAKE d \in 0 .. Height
  <2>1. store[w[d]].leaf <=> h[w[d]] = 0
    BY <1>4, RootedIs
  <2>2. h[w[d]] = 0 <=> ~(d < h[id])
    BY <1>4, <1>7
  <2> QED BY <1>5, <1>7, <2>1, <2>2
<1>9. {d \in 0 .. Height : ~down[d].leaf} = 0 .. h[id] - 1
  BY <1>7, <1>8, HeightIs
<1>10. Cardinality(0 .. h[id] - 1) = h[id]
  BY <1>7, FS_Interval
<1> QED BY <1>6, <1>9, <1>10

(***************************************************************************)
(* The shape: one tree of the allocated nodes, with all leaves at one      *)
(* depth, whose nodes have the sizes of a B-tree, and a call that is made  *)
(* for one of them and has room there.                                     *)
(***************************************************************************)
Request == [fhash : Fhash, mobj_id : {NoFile}]

CallOK(S, root, c) ==
    \/ c = NoCall
    \/ /\ c.op \in {"add", "del"} /\ c.fhash \in Fhash
       /\ c.id \in Nodes(S) /\ c.dobj = S[c.id]
       /\ c.op = "add" => /\ c.file \in Entry /\ c.fhash = c.file.fhash
                          /\ Len(S[c.id].fdes) < Dir_Node_Degree
       /\ c.op = "del" => /\ c.file \in Request
                          /\ c.id = root \/ Len(S[c.id].fdes) > H

Shaped(S, root, c, h) == Rooted(S, root, h) /\ Sized(S, root) /\ CallOK(S, root, c)

\* One call of insert_not_full or delete_not_half.
Called(op, file, fhash, id, S) == [op |-> op, file |-> file, fhash |-> fhash, id |-> id, dobj |-> S[id]]

LEMMA NoCallIs == NoCall.op = "none"
BY DEF NoCall

LEMMA EntryIs ==
    ASSUME NEW e \in Entry
    PROVE  e.fhash \in Fhash /\ e.fhash \in Nat /\ e.mobj_id \in Mobj /\ e.mobj_id # NoFile
BY TreeGeometry DEF Entry

LEMMA CalledIs ==
    ASSUME NEW op, NEW file, NEW fhash, NEW id, NEW S
    PROVE  LET c == Called(op, file, fhash, id, S)
           IN  c.op = op /\ c.file = file /\ c.fhash = fhash /\ c.id = id /\ c.dobj = S[id]
BY DEF Called

LEMMA EnterIs ==
    ASSUME NEW op, NEW file, NEW fhash, NEW S, NEW id \in Nodes(S)
    PROVE  Enter(op, file, fhash, id, S[id]) = Called(op, file, fhash, id, S)
BY DEF Enter, Called, Nodes

LEMMA AddOK ==
    ASSUME NEW S, NEW root, NEW file \in Entry, NEW id \in Nodes(S), Len(S[id].fdes) < Dir_Node_Degree
    PROVE  CallOK(S, root, Called("add", file, file.fhash, id, S))
<1>1. PICK c : c = Called("add", file, file.fhash, id, S)
  OBVIOUS
<1>2. c.op = "add" /\ c.file = file /\ c.fhash = file.fhash /\ c.id = id /\ c.dobj = S[id]
  BY <1>1, CalledIs
<1> QED BY <1>1, <1>2, EntryIs DEF CallOK

LEMMA DelOK ==
    ASSUME NEW S, NEW root, NEW file \in Request, NEW fhash \in Fhash, NEW id \in Nodes(S),
           id = root \/ Len(S[id].fdes) > H
    PROVE  CallOK(S, root, Called("del", file, fhash, id, S))
<1>1. PICK c : c = Called("del", file, fhash, id, S)
  OBVIOUS
<1>2. c.op = "del" /\ c.file = file /\ c.fhash = fhash /\ c.id = id /\ c.dobj = S[id]
  BY <1>1, CalledIs
<1> QED BY <1>1, <1>2 DEF CallOK

LEMMA NoneOK == \A S, root : CallOK(S, root, NoCall)
BY DEF CallOK

\* The node a call is made for.
AtNode(S, root, c, h, p) ==
    /\ c # NoCall /\ p = c.id /\ p \in Nodes(S) /\ p \in Id /\ c.dobj = S[p] /\ c.fhash \in Fhash /\ c.fhash \in Nat
    /\ S[p] \in TreeNode /\ Len(S[p].fdes) \in Nat /\ Len(S[p].fdes) <= 2 * H + 1
    /\ h[p] \in Nat /\ (h[p] = 0 <=> S[p].leaf)
    /\ PlaceOf(S[p], c.fhash) \in 1 .. Len(S[p].fdes) + 1
    /\ PlaceAfter(S[p], c.fhash) \in 1 .. Len(S[p].fdes) + 1

LEMMA AtNodeIs ==
    ASSUME NEW S, NEW root, NEW c, NEW h, Shaped(S, root, c, h), c.op \in {"add", "del"}
    PROVE  /\ AtNode(S, root, c, h, c.id)
           /\ c.op = "add" => c.file \in Entry /\ c.fhash = c.file.fhash /\ Len(S[c.id].fdes) < 2 * H + 1
           /\ c.op = "del" => c.file \in Request /\ (c.id = root \/ Len(S[c.id].fdes) > H)
<1>1. c # NoCall
  BY NoCallIs
<1>2. /\ c.fhash \in Fhash /\ c.id \in Nodes(S) /\ c.dobj = S[c.id]
      /\ c.op = "add" => c.file \in Entry /\ c.fhash = c.file.fhash /\ Len(S[c.id].fdes) < Dir_Node_Degree
      /\ c.op = "del" => c.file \in Request /\ (c.id = root \/ Len(S[c.id].fdes) > H)
  BY <1>1 DEF Shaped, CallOK
<1>3. Rooted(S, root, h) /\ Sized(S, root)
  BY DEF Shaped
<1>4. S[c.id] \in TreeNode /\ c.id \in Id /\ h[c.id] \in Nat /\ (h[c.id] = 0 <=> S[c.id].leaf)
  BY <1>2, <1>3, RootedIs
<1>5. Len(S[c.id].fdes) <= Dir_Node_Degree /\ Len(S[c.id].fdes) \in Nat /\ c.fhash \in Nat
  BY <1>2, <1>3, <1>4, NodeIs, Geometry DEF Sized
<1>6. /\ PlaceOf(S[c.id], c.fhash) \in 1 .. Len(S[c.id].fdes) + 1
      /\ PlaceAfter(S[c.id], c.fhash) \in 1 .. Len(S[c.id].fdes) + 1
  BY <1>4, PlacesAre
<1> QED BY <1>1, <1>2, <1>4, <1>5, <1>6, Geometry DEF AtNode

\* Child i of an inner node p.
KidIs(S, root, h, p, i, c) ==
    /\ c = S[p].cobj[i] /\ c \in Nodes(S) /\ c # root /\ c # p /\ h[c] = h[p] - 1 /\ h[c] \in Nat
    /\ Child(S, S[p], i) = S[c] /\ S[c] \in TreeNode /\ Branches(S[c])
    /\ Len(S[c].fdes) \in H .. 2 * H + 1 /\ Len(S[c].fdes) \in Nat /\ Len(S[c].fdes) >= 1
    /\ S[c].leaf = (h[p] = 1)

LEMMA KidsAre ==
    ASSUME NEW S, NEW root, NEW h, Rooted(S, root, h), Sized(S, root), NEW p \in Nodes(S), ~S[p].leaf,
           NEW i \in 1 .. Len(S[p].fdes) + 1, NEW c, c = S[p].cobj[i]
    PROVE  KidIs(S, root, h, p, i, c) /\ i \in 1 .. Len(S[p].cobj) /\ Len(S[p].cobj) = Len(S[p].fdes) + 1
<1>1. /\ S[p] \in TreeNode /\ h[p] \in Nat /\ h[p] # 0 /\ Len(S[p].cobj) = Len(S[p].fdes) + 1
      /\ \A k \in 1 .. Len(S[p].cobj) :
           /\ S[p].cobj[k] \in Nodes(S) /\ S[p].cobj[k] # root /\ S[p].cobj[k] # p
           /\ h[S[p].cobj[k]] = h[p] - 1
  BY RootedIs
<1>2. c \in Nodes(S) /\ c # root /\ c # p /\ h[c] = h[p] - 1 /\ i \in 1 .. Len(S[p].cobj)
  BY <1>1
<1>3. S[c] \in TreeNode /\ h[c] \in Nat /\ (h[c] = 0 <=> S[c].leaf) /\ Branches(S[c]) /\ c \in Id
  <2>1. S[c] \in TreeNode /\ h[c] \in Nat /\ (h[c] = 0 <=> S[c].leaf) /\ c \in Id
    BY <1>2, RootedIs
  <2> QED BY <1>2, <2>1 DEF Rooted
<1>4. Len(S[c].fdes) \in Nat /\ S[c].leaf \in BOOLEAN
  BY <1>3, NodeIs
<1>5. Len(S[c].fdes) >= H /\ Len(S[c].fdes) <= 2 * H + 1 /\ H >= 1 /\ H \in Nat
  BY <1>2, Geometry DEF Sized
<1>6. Child(S, S[p], i) = S[c]
  BY <1>2, ChildIs
<1>7. S[c].leaf = (h[p] = 1)
  BY <1>1, <1>2, <1>3, <1>4
<1> QED BY <1>1, <1>2, <1>3, <1>4, <1>5, <1>6, <1>7 DEF KidIs

(***************************************************************************)
(* What each action does to the tree, as a cut, a shift or a change of one *)
(* node, and the call it makes next.                                       *)
(***************************************************************************)
Same == store' = store /\ root_dir_node_id' = root_dir_node_id

\* Entry e goes into place i of leaf p.
Put(S, T, p, i, e) ==
    /\ S \in Stores /\ T \in Stores /\ Nodes(T) = Nodes(S) /\ p \in Nodes(S)
    /\ S[p].leaf /\ T[p].leaf = S[p].leaf /\ T[p].cobj = S[p].cobj
    /\ \A j \in Id \ {p} : T[j] = S[j]
    /\ i \in 1 .. Len(S[p].fdes) + 1 /\ e \in Entry /\ IsInserted(T[p].fdes, S[p].fdes, i, e)

\* Entry e takes place i of node p.
Set(S, T, p, i, e) ==
    /\ S \in Stores /\ T \in Stores /\ Nodes(T) = Nodes(S) /\ p \in Nodes(S)
    /\ T[p].leaf = S[p].leaf /\ T[p].cobj = S[p].cobj /\ Len(T[p].fdes) = Len(S[p].fdes)
    /\ \A j \in Id \ {p} : T[j] = S[j]
    /\ i \in 1 .. Len(S[p].fdes) /\ e \in Entry /\ T[p].fdes[i] = e
    /\ \A k \in 1 .. Len(S[p].fdes) : k # i => T[p].fdes[k] = S[p].fdes[k]

LEMMA OneWrite ==
    ASSUME NEW S \in Stores, NEW p \in Nodes(S), NEW x \in TreeNode, NEW T, T = Write(S, p, x)
    PROVE  /\ T \in Stores /\ Nodes(T) = Nodes(S) /\ T[p] = x /\ \A j \in Id \ {p} : T[j] = S[j]
<1>1. p \in Id /\ x # Null /\ S[p] # Null
  BY NodeIs DEF Nodes
<1>2. T[p] = x /\ DOMAIN T = Id /\ (\A j \in Id \ {p} : T[j] = S[j]) /\ T = [j \in Id |-> T[j]]
  BY <1>1 DEF Stores, Write
<1>3. T \in Stores /\ Nodes(T) = Nodes(S)
  BY <1>1, <1>2 DEF Stores, Nodes
<1> QED BY <1>2, <1>3

LEMMA RootedStores ==
    ASSUME NEW S, NEW root, NEW h, Rooted(S, root, h)
    PROVE  S \in Stores
BY DEF Rooted, Stores

\* A node with other entries.
Entries(x, s) == [x EXCEPT !.fdes = s]

LEMMA EntriesAre ==
    ASSUME NEW x \in TreeNode, NEW s \in Seq(Entry)
    PROVE  LET y == Entries(x, s)
           IN  y \in TreeNode /\ y.leaf = x.leaf /\ y.cobj = x.cobj /\ y.fdes = s
BY DEF TreeNode, Entries

LEMMA InsertIntoLeafDoes ==
    ASSUME NEW h, Shaped(store, root_dir_node_id, call, h), InsertIntoLeaf
    PROVE  /\ Put(store, store', call.id, PlaceAfter(store[call.id], call.fhash), call.file)
           /\ call' = NoCall /\ root_dir_node_id' = root_dir_node_id
<1> DEFINE p == call.id
           i == PlaceAfter(store[p], call.fhash)
<1>1. call.op = "add" /\ call.dobj.leaf /\ call' = NoCall /\ root_dir_node_id' = root_dir_node_id
  BY DEF InsertIntoLeaf
<1>2. AtNode(store, root_dir_node_id, call, h, p) /\ call.file \in Entry
  BY <1>1, AtNodeIs
<1>3. store \in Stores /\ p \in Nodes(store) /\ store[p] \in TreeNode /\ call.dobj = store[p]
      /\ i \in 1 .. Len(store[p].fdes) + 1
  BY <1>2, RootedStores DEF AtNode, Shaped
<1>4. store' = Write(store, p, [store[p] EXCEPT !.fdes = InsertAt(@, i, call.file)])
  BY <1>3 DEF InsertIntoLeaf
<1> HIDE DEF p, i
<1>5. PICK s : s = InsertAt(store[p].fdes, i, call.file)
  OBVIOUS
<1>6. s \in Seq(Entry) /\ IsInserted(s, store[p].fdes, i, call.file)
  BY <1>2, <1>3, <1>5, NodeIs, InsertedOf
<1>7. PICK y : y = Entries(store[p], s)
  OBVIOUS
<1>8. store' = Write(store, p, y)
  BY <1>4, <1>5, <1>7 DEF Entries
<1>9. y \in TreeNode /\ y.leaf = store[p].leaf /\ y.cobj = store[p].cobj /\ y.fdes = s
  BY <1>3, <1>6, <1>7, EntriesAre
<1>10. store' \in Stores /\ Nodes(store') = Nodes(store) /\ store'[p] = y /\ \A j \in Id \ {p} : store'[j] = store[j]
  BY <1>3, <1>8, <1>9, OneWrite
<1>11. Put(store, store', p, i, call.file)
  BY <1>1, <1>2, <1>3, <1>6, <1>9, <1>10 DEF Put
<1> QED BY <1>1, <1>11 DEF p, i

LEMMA DeleteFromLeafDoes ==
    ASSUME NEW h, Shaped(store, root_dir_node_id, call, h), DeleteFromLeaf
    PROVE  /\ store[call.id].leaf
           /\ Found => /\ Put(store', store, call.id, Place, store[call.id].fdes[Place])
                       /\ store[call.id].fdes[Place].fhash = call.fhash
           /\ ~Found => store' = store
           /\ call' = NoCall /\ root_dir_node_id' = root_dir_node_id
<1> DEFINE p == call.id
           i == PlaceOf(store[p], call.fhash)
           e == store[p].fdes[i]
<1>1. call.op = "del" /\ call.dobj.leaf /\ call' = NoCall /\ root_dir_node_id' = root_dir_node_id
  BY DEF DeleteFromLeaf, Deleting
<1>2. AtNode(store, root_dir_node_id, call, h, p)
  BY <1>1, AtNodeIs
<1>3. store \in Stores /\ p \in Nodes(store) /\ store[p] \in TreeNode /\ call.dobj = store[p]
      /\ i \in 1 .. Len(store[p].fdes) + 1 /\ Len(store[p].fdes) \in Nat
  BY <1>2, RootedStores DEF AtNode, Shaped
<1>4. Place = i /\ (Found <=> i <= Len(store[p].fdes) /\ e.fhash = call.fhash)
  BY <1>3 DEF Place, Found, Holds
<1>5. CASE ~Found
  <2>1. store' = store
    BY <1>5 DEF DeleteFromLeaf
  <2> QED BY <1>1, <1>3, <1>5, <2>1
<1>6. CASE Found
  <2>1. store' = Write(store, p, [store[p] EXCEPT !.fdes = RemoveAt(@, i)])
    BY <1>3, <1>4, <1>6 DEF DeleteFromLeaf
  <2>2. i \in 1 .. Len(store[p].fdes) /\ e.fhash = call.fhash
    BY <1>3, <1>4, <1>6
  <2> HIDE DEF p, i, e
  <2>3. PICK s : s = RemoveAt(store[p].fdes, i)
    OBVIOUS
  <2>4. s \in Seq(Entry) /\ IsRemoved(s, store[p].fdes, i) /\ e \in Entry /\ IsInserted(store[p].fdes, s, i, e)
        /\ Len(s) = Len(store[p].fdes) - 1
    <3>1. s \in Seq(Entry) /\ IsRemoved(s, store[p].fdes, i)
      BY <1>3, <2>2, <2>3, NodeIs, RemovedOf
    <3>2. IsInserted(store[p].fdes, s, i, e)
      BY <1>3, <2>2, <3>1, RemovedInserted DEF e
    <3> QED BY <1>3, <2>2, <3>1, <3>2, NodeIs DEF e, IsRemoved
  <2>5. PICK y : y = Entries(store[p], s)
    OBVIOUS
  <2>6. store' = Write(store, p, y)
    BY <2>1, <2>3, <2>5 DEF Entries
  <2>7. y \in TreeNode /\ y.leaf = store[p].leaf /\ y.cobj = store[p].cobj /\ y.fdes = s
    BY <1>3, <2>4, <2>5, EntriesAre
  <2>8. store' \in Stores /\ Nodes(store') = Nodes(store) /\ store'[p] = y /\ \A j \in Id \ {p} : store'[j] = store[j]
    BY <1>3, <2>6, <2>7, OneWrite
  <2>9. i \in 1 .. Len(s) + 1 /\ store[p].leaf
    BY <1>1, <1>3, <2>2, <2>4
  <2>10. Put(store', store, p, i, e)
    BY <1>3, <2>4, <2>7, <2>8, <2>9 DEF Put
  <2> QED BY <1>1, <1>4, <1>6, <2>2, <2>9, <2>10 DEF p, i, e
<1> QED BY <1>5, <1>6

LEMMA FreshIs ==
    ASSUME NEW S, Free(S) # {}
    PROVE  FreshId(S) \in Id /\ S[FreshId(S)] = Null
<1>1. Free(S) \in SUBSET Nat
  BY Geometry DEF Free
<1>2. \E i \in Free(S) : \A j \in Free(S) : i <= j
  BY <1>1, LeastOf
<1>3. FreshId(S) \in Free(S)
  BY <1>2 DEF FreshId
<1> QED BY <1>3 DEF Free

\* Node f goes above the root.
NewRoot(S, T, root, f) ==
    /\ S \in Stores /\ T \in Stores /\ f \in Id \ Nodes(S) /\ Nodes(T) = Nodes(S) \cup {f}
    /\ \A j \in Id \ {f} : T[j] = S[j]
    /\ T[f].leaf = FALSE /\ T[f].fdes = << >> /\ T[f].cobj = << root >>

LEMMA AddNewFileDoes ==
    ASSUME InPlace, NEW h, Shaped(store, root_dir_node_id, call, h), HasRoom,
           NEW file \in New, AddNewFile(file)
    PROVE  /\ call = NoCall
           /\ \/ /\ Same /\ call' = Called("add", file, file.fhash, root_dir_node_id, store')
                 /\ Len(store[root_dir_node_id].fdes) < Dir_Node_Degree
              \/ \E f, r, e, S :
                   /\ NewRoot(store, S, root_dir_node_id, f)
                   /\ Cut(S, store', f, 1, root_dir_node_id, r, e) /\ root_dir_node_id' = f
                   /\ Len(store'[root_dir_node_id].fdes) = H /\ Len(store'[r].fdes) = H
                   /\ call' = Called("add", file, file.fhash, f, store')
<1> DEFINE root == root_dir_node_id
<1>1. /\ call = NoCall /\ Rooted(store, root, h) /\ Sized(store, root)
  BY DEF AddNewFile, Shaped
<1>2. root \in Nodes(store) /\ root \in Id /\ store \in Stores /\ store[root] \in TreeNode /\ store[root] # Null
  <2>1. root \in Nodes(store)
    BY <1>1 DEF Rooted
  <2> QED BY <1>1, <2>1, RootedStores, RootedIs
<1>3. Len(store[root].fdes) \in Nat /\ Len(store[root].fdes) <= Dir_Node_Degree /\ Dir_Node_Degree = 2 * H + 1
  BY <1>1, <1>2, NodeIs, Geometry DEF Sized
<1>4. CASE ~Full(store[root])
  <2>1. Same /\ call' = Enter("add", file, file.fhash, root, store[root])
    BY <1>4 DEF AddNewFile, Same
  <2>2. call' = Called("add", file, file.fhash, root, store')
    BY <1>2, <2>1, EnterIs DEF Same
  <2>3. Len(store[root].fdes) < Dir_Node_Degree
    BY <1>3, <1>4, Geometry DEF Full
  <2> QED BY <1>1, <2>1, <2>2, <2>3
<1>5. CASE Full(store[root])
  <2>1. Len(store[root].fdes) = 2 * H + 1
    BY <1>3, <1>5, Geometry DEF Full
  <2>2. PICK a, b \in Free(store) : a # b
    BY <1>1, <1>5 DEF HasRoom
  <2>3. PICK f : f = FreshId(store)
    OBVIOUS
  <2>4. f \in Id /\ store[f] = Null /\ f # root /\ f \notin Nodes(store)
    BY <1>2, <2>2, <2>3, FreshIs DEF Nodes
  <2>5. PICK S0 : S0 = Write(store, f, Zeroed)
    OBVIOUS
  <2>6. DOMAIN S0 = Id /\ S0[f] = Zeroed /\ \A j \in Id \ {f} : S0[j] = store[j]
    BY <1>2, <2>4, <2>5 DEF Write, Stores
  <2>7. PICK r : r = FreshId(S0)
    OBVIOUS
  <2>8. r \in Id /\ S0[r] = Null
    <3>1. a \in Free(S0) \/ b \in Free(S0)
      BY <2>2, <2>6 DEF Free
    <3> QED BY <2>7, <3>1, FreshIs
  <2>9. r # f
    <3>1. Zeroed # Null
      <4>1. 0 \in 0 .. MaxId
        BY Geometry
      <4>2. << 0 >> \in Seq(0 .. MaxId) /\ << >> \in Seq(Entry)
        BY <4>1
      <4>3. Zeroed \in Node
        BY <4>2 DEF Zeroed, Node
      <4> QED BY <4>3, NullIsNoNode
    <3> QED BY <2>6, <2>8, <3>1
  <2>10. PICK x : x = [Zeroed EXCEPT !.cobj = << root >>]
    OBVIOUS
  <2>11. x.leaf = FALSE /\ x.fdes = << >> /\ x.cobj = << root >> /\ x \in TreeNode
    <3>1. x = [leaf |-> FALSE, fdes |-> << >>, cobj |-> << root >>]
      BY <2>10 DEF Zeroed
    <3>2. << root >> \in Seq(Id) /\ << >> \in Seq(Entry)
      BY <1>2
    <3> QED BY <3>1, <3>2 DEF TreeNode
  <2>12. PICK S : S = [S0 EXCEPT ![f] = x]
    OBVIOUS
  <2>13. S[f] = x /\ DOMAIN S = Id /\ (\A j \in Id \ {f} : S[j] = store[j]) /\ S = [j \in Id |-> S[j]]
    BY <2>4, <2>6, <2>12
  <2>14. S \in Stores
    BY <1>2, <2>11, <2>13 DEF Stores
  <2>15. Nodes(S) = Nodes(store) \cup {f}
    BY <2>4, <2>11, <2>13, NodeIs DEF Nodes
  <2>16. NewRoot(store, S, root, f)
    BY <1>2, <2>4, <2>11, <2>13, <2>14, <2>15 DEF NewRoot
  <2>17. store' = SplitChild(S0, f, x, 1).store /\ root_dir_node_id' = f
         /\ call' = Enter("add", file, file.fhash, f, store'[f])
    BY <1>5, <2>3, <2>5, <2>10 DEF AddNewFile
  <2>18. root = x.cobj[1] /\ 1 \in 1 .. Len(x.fdes) + 1 /\ 1 <= Len(x.cobj)
    BY <2>11
  <2>19. root \in Nodes(S) /\ S[root] = store[root] /\ Branches(S[root])
    BY <1>1, <1>2, <2>4, <2>13, <2>15 DEF Rooted
  <2> HIDE DEF root
  <2>20. /\ Cut(S, store', f, 1, root, r, S[root].fdes[H + 1])
         /\ Len(store'[root].fdes) = H /\ Len(store'[r].fdes) = H
    <3>1. SplitReady(S0, f, x, S, 1, root, r)
      BY <2>1, <2>4, <2>6, <2>7, <2>8, <2>9, <2>11, <2>12, <2>14, <2>18, <2>19 DEF SplitReady
    <3> QED BY <2>17, <3>1, SplitIsCut
  <2>21. f \in Nodes(store')
    BY <2>15, <2>20 DEF Cut
  <2>22. call' = Called("add", file, file.fhash, f, store')
    BY <2>17, <2>21, EnterIs
  <2> QED BY <1>1, <2>16, <2>17, <2>20, <2>22 DEF root
<1> QED BY <1>4, <1>5

\* insert_not_full on an inner node.
LEMMA InsertBelowDoes ==
    ASSUME InPlace, NEW h, Shaped(store, root_dir_node_id, call, h), HasRoom, InsertBelow
    PROVE  LET p == call.id
               i == PlaceAfter(store[p], call.fhash)
           IN  /\ call.op = "add" /\ ~store[p].leaf /\ root_dir_node_id' = root_dir_node_id
               /\ \/ /\ store' = store /\ Len(store[store[p].cobj[i]].fdes) < Dir_Node_Degree
                     /\ call' = Called("add", call.file, call.fhash, store[p].cobj[i], store')
                  \/ \E l, r, e :
                       /\ Cut(store, store', p, i, l, r, e)
                       /\ Len(store'[l].fdes) = H /\ Len(store'[r].fdes) = H
                       /\ call' = Called("add", call.file, call.fhash,
                                         IF call.fhash > e.fhash THEN r ELSE l, store')
<1> DEFINE root == root_dir_node_id
           p == call.id
           x == store[p]
           i == PlaceAfter(x, call.fhash)
           l == x.cobj[i]
<1>1. call.op = "add" /\ ~call.dobj.leaf /\ root_dir_node_id' = root_dir_node_id
  BY DEF InsertBelow
<1>2. AtNode(store, root, call, h, p)
  BY <1>1, AtNodeIs
<1>3. store \in Stores /\ p \in Nodes(store) /\ p \in Id /\ x \in TreeNode /\ call.dobj = x
      /\ i \in 1 .. Len(x.fdes) + 1 /\ Len(x.fdes) \in Nat /\ ~x.leaf
  BY <1>1, <1>2, RootedStores DEF AtNode, Shaped
<1>4. KidIs(store, root, h, p, i, l) /\ i \in 1 .. Len(x.cobj) /\ Len(x.cobj) = Len(x.fdes) + 1
  BY <1>3, KidsAre DEF Shaped
<1>5. /\ l \in Nodes(store) /\ l # p /\ Child(store, x, i) = store[l] /\ store[l] \in TreeNode /\ store[l] # Null
      /\ Len(store[l].fdes) \in Nat /\ Len(store[l].fdes) <= 2 * H + 1 /\ Branches(store[l])
  <2> HIDE DEF l
  <2>1. /\ l \in Nodes(store) /\ l # p /\ Child(store, x, i) = store[l] /\ store[l] \in TreeNode
        /\ Len(store[l].fdes) \in Nat /\ Len(store[l].fdes) \in H .. 2 * H + 1 /\ Branches(store[l])
    BY <1>4 DEF KidIs
  <2> QED BY <2>1, NodeIs, Geometry
<1> HIDE DEF l, i
<1>6. CASE ~Full(store[l])
  <2>1. store' = store /\ call' = Go(store, "add", call.fhash, l)
    BY <1>3, <1>5, <1>6 DEF InsertBelow, l, i
  <2>2. Read(store, l) = store[l]
    BY <1>5 DEF Read, Nodes
  <2>3. call' = Called("add", call.file, call.fhash, l, store')
    BY <1>5, <2>1, <2>2, EnterIs DEF Go
  <2>4. Len(store[l].fdes) < Dir_Node_Degree
    BY <1>5, <1>6, Geometry DEF Full
  <2> QED BY <1>1, <1>3, <2>1, <2>3, <2>4 DEF l, i
<1>7. CASE Full(store[l])
  <2>1. Len(store[l].fdes) = 2 * H + 1
    BY <1>5, <1>7, Geometry DEF Full
  <2>2. Free(store) # {}
    <3>1. i \in DOMAIN call.dobj.cobj
      BY <1>3, <1>4, NodeIs
    <3> QED BY <1>1, <1>3, <1>5, <1>7, <3>1 DEF HasRoom
  <2>3. PICK r : r = FreshId(store)
    OBVIOUS
  <2>4. r \in Id /\ store[r] = Null /\ r # p
    BY <1>3, <2>2, <2>3, FreshIs DEF Nodes
  <2>5. PICK after : after = SplitChild(store, p, x, i)
    OBVIOUS
  <2>6. store' = after.store
        /\ call' = Go(store', "add", call.fhash,
                      after.parent.cobj[IF call.fhash > after.parent.fdes[i].fhash THEN i + 1 ELSE i])
    BY <1>3, <1>5, <1>7, <2>5 DEF InsertBelow, l, i
  <2>7. store = [store EXCEPT ![p] = x] /\ DOMAIN store = Id
    BY <1>3 DEF Stores
  <2>8. i <= Len(x.cobj)
    BY <1>4
  <2>9. PICK e : e = store[l].fdes[H + 1]
    OBVIOUS
  <2> HIDE DEF p, x
  <2>10. /\ Cut(store, store', p, i, l, r, e) /\ after.parent = store'[p]
         /\ Len(store'[l].fdes) = H /\ Len(store'[r].fdes) = H
    <3>1. SplitReady(store, p, x, store, i, l, r)
      BY <1>3, <1>5, <2>1, <2>3, <2>4, <2>7, <2>8 DEF SplitReady, l
    <3> QED BY <2>5, <2>6, <2>9, <3>1, SplitIsCut
  <2>11. store'[p].fdes[i] = e /\ store'[p].cobj[i] = l /\ store'[p].cobj[i + 1] = r
    <3>1. IsInserted(store'[p].fdes, x.fdes, i, e) /\ IsInserted(store'[p].cobj, x.cobj, i + 1, r)
      BY <2>10 DEF Cut, x
    <3>2. /\ i \in 1 .. Len(x.fdes) + 1 /\ i \in 1 .. Len(x.cobj) + 1 /\ i + 1 \in 1 .. Len(x.cobj) + 1 /\ i < i + 1
      BY <1>3, <1>4
    <3>3. PICK m : m = i + 1
      OBVIOUS
    <3>4. i \in 1 .. Len(x.cobj) + 1 /\ m \in 1 .. Len(x.cobj) + 1 /\ i < m
      BY <3>2, <3>3
    <3>5. store'[p].fdes[i] = e
      BY <3>1, <3>2 DEF IsInserted
    <3>6. store'[p].cobj[i] = x.cobj[i] /\ store'[p].cobj[m] = r
      BY <3>1, <3>3, <3>4 DEF IsInserted
    <3> QED BY <3>3, <3>5, <3>6 DEF l
  <2>12. PICK c : c = IF call.fhash > e.fhash THEN r ELSE l
    OBVIOUS
  <2>13. call' = Go(store', "add", call.fhash, c)
    BY <2>6, <2>10, <2>11, <2>12
  <2>14. c \in Nodes(store') /\ Read(store', c) = store'[c]
    BY <1>5, <2>10, <2>12 DEF Cut, Read, Nodes
  <2>15. call' = Called("add", call.file, call.fhash, c, store')
    BY <2>13, <2>14, EnterIs DEF Go
  <2> QED BY <1>1, <1>3, <2>10, <2>12, <2>15 DEF p, x, i, l
<1> QED BY <1>6, <1>7

LEMMA BrothersAre ==
    ASSUME NEW S, NEW root, NEW h, Rooted(S, root, h), Sized(S, root), NEW p \in Nodes(S), ~S[p].leaf,
           NEW i \in 1 .. Len(S[p].fdes), NEW l, l = S[p].cobj[i], NEW r, r = S[p].cobj[i + 1]
    PROVE  Brothers(S, p, i, l, r) /\ KidIs(S, root, h, p, i, l) /\ KidIs(S, root, h, p, i + 1, r)
<1>1. S[p] \in TreeNode /\ Len(S[p].fdes) \in Nat
  BY RootedIs, NodeIs
<1>2. i \in 1 .. Len(S[p].fdes) + 1 /\ i + 1 \in 1 .. Len(S[p].fdes) + 1 /\ i # i + 1
  BY <1>1
<1>3. /\ KidIs(S, root, h, p, i, l) /\ KidIs(S, root, h, p, i + 1, r)
      /\ i \in 1 .. Len(S[p].cobj) /\ i + 1 \in 1 .. Len(S[p].cobj) /\ Len(S[p].cobj) = Len(S[p].fdes) + 1
  BY <1>2, KidsAre
<1>4. l # r
  BY <1>2, <1>3 DEF Rooted, Distinct
<1>5. /\ l \in Nodes(S) /\ r \in Nodes(S) /\ l # p /\ r # p /\ S[l].leaf = S[r].leaf
      /\ Branches(S[l]) /\ Branches(S[r])
  BY <1>3 DEF KidIs
<1>6. i + 1 <= Len(S[p].cobj)
  BY <1>1, <1>3
<1>7. S \in Stores
  BY RootedStores
<1> QED BY <1>3, <1>4, <1>5, <1>6, <1>7, Zenon DEF Brothers

LEMMA DelFileDoes ==
    ASSUME NEW h, Shaped(store, root_dir_node_id, call, h), NEW file, DelFile(file)
    PROVE  /\ call = NoCall /\ Same
           /\ call' = Called("del", file, file.fhash, root_dir_node_id, store')
<1>1. root_dir_node_id \in Nodes(store)
  BY DEF Shaped, Rooted
<1> QED BY <1>1, EnterIs DEF DelFile, Same

\* delete_not_half is at inner node p, and the name to delete is at or goes
\* to place i.
AtInner(h, p, i) ==
    /\ AtNode(store, root_dir_node_id, call, h, p) /\ p = call.id /\ i = Place
    /\ i = PlaceOf(store[p], call.fhash)
    /\ Rooted(store, root_dir_node_id, h) /\ Sized(store, root_dir_node_id) /\ store \in Stores
    /\ call.op = "del" /\ call.dobj = store[p] /\ p \in Nodes(store) /\ ~store[p].leaf /\ store[p] \in TreeNode
    /\ Len(store[p].fdes) \in Nat /\ Len(store[p].fdes) >= 1
    /\ i \in 1 .. Len(store[p].fdes) + 1 /\ Len(store[p].cobj) = Len(store[p].fdes) + 1
    /\ Found <=> (i <= Len(store[p].fdes) /\ store[p].fdes[i].fhash = call.fhash)
    /\ \A k \in 1 .. Len(store[p].fdes) + 1 : SparesChild(k) <=> Len(store[store[p].cobj[k]].fdes) > H

LEMMA AtInnerIs ==
    ASSUME NEW h, Shaped(store, root_dir_node_id, call, h), Deleting, ~call.dobj.leaf
    PROVE  AtInner(h, call.id, Place)
<1> DEFINE p == call.id
<1>1. AtNode(store, root_dir_node_id, call, h, p) /\ call.op = "del"
  BY AtNodeIs DEF Deleting
<1>2. p \in Nodes(store) /\ store[p] \in TreeNode /\ call.dobj = store[p] /\ Len(store[p].fdes) \in Nat
      /\ PlaceOf(store[p], call.fhash) \in 1 .. Len(store[p].fdes) + 1 /\ ~store[p].leaf
  BY <1>1 DEF AtNode
<1>3. Rooted(store, root_dir_node_id, h) /\ Sized(store, root_dir_node_id) /\ store \in Stores
  BY RootedStores DEF Shaped
<1>4. Place = PlaceOf(store[p], call.fhash)
  BY <1>2 DEF Place
<1>5. Found <=> (Place <= Len(store[p].fdes) /\ store[p].fdes[Place].fhash = call.fhash)
  BY <1>2 DEF Found, Holds
<1>6. Len(store[p].fdes) >= 1
  BY <1>2, <1>3 DEF Sized
<1>7. /\ Len(store[p].cobj) = Len(store[p].fdes) + 1
      /\ \A k \in 1 .. Len(store[p].fdes) + 1 : KidIs(store, root_dir_node_id, h, p, k, store[p].cobj[k])
  <2>1. h[p] \in Nat /\ h[p] # 0 /\ h[p] > 0
    BY <1>2, <1>3, RootedIs
  <2> QED BY <1>2, <1>3, <2>1, RootedIs, KidsAre
<1>8. \A k \in 1 .. Len(store[p].fdes) + 1 : SparesChild(k) <=> Len(store[store[p].cobj[k]].fdes) > H
  BY <1>2, <1>7 DEF KidIs, SparesChild, Spares
<1> HIDE DEF p
<1>9. AtInner(h, p, Place)
  BY <1>1, <1>2, <1>3, <1>4, <1>5, <1>6, <1>7, <1>8 DEF AtInner, p
<1> QED BY <1>9 DEF p

LEMMA DeleteBelowDoes ==
    ASSUME NEW h, Shaped(store, root_dir_node_id, call, h), DeleteBelow
    PROVE  \E p, i, c :
             /\ AtInner(h, p, i) /\ ~Found /\ Same
             /\ KidIs(store, root_dir_node_id, h, p, i, c) /\ Len(store[c].fdes) > H
             /\ call' = Called("del", call.file, call.fhash, c, store')
<1>1. Deleting /\ ~call.dobj.leaf /\ ~Found /\ SparesChild(Place) /\ Same
      /\ call' = Go(store, "del", call.fhash, call.dobj.cobj[Place])
  BY DEF DeleteBelow, Same
<1>2. PICK p, i : p = call.id /\ i = Place
  OBVIOUS
<1>3. AtInner(h, p, i)
  BY <1>1, <1>2, AtInnerIs
<1>4. PICK c : c = store[p].cobj[i]
  OBVIOUS
<1>5. KidIs(store, root_dir_node_id, h, p, i, c)
  BY <1>3, <1>4, KidsAre DEF AtInner
<1>6. Len(store[c].fdes) > H /\ call.dobj = store[p]
  BY <1>1, <1>2, <1>3, <1>4 DEF AtInner
<1>7. c \in Nodes(store) /\ Read(store, c) = store[c]
  BY <1>5 DEF KidIs, Read, Nodes
<1>8. call' = Called("del", call.file, call.fhash, c, store')
  BY <1>1, <1>2, <1>4, <1>6, <1>7, EnterIs DEF Go, Same
<1> QED BY <1>1, <1>3, <1>5, <1>6, <1>8

\* The entry that replaces one is at an end of a leaf, which ends a walk.
LEMMA WalkEnds ==
    ASSUME NEW root, NEW h, Rooted(store, root, h), Sized(store, root),
           NEW id \in Nodes(store), h[id] < h[root], NEW F, StepsDown(store, h, F),
           NEW w, IsWalk(w, Height, id, F)
    PROVE  /\ w[Height] \in Nodes(store) /\ store[w[Height]].leaf /\ store[w[Height]] \in TreeNode
           /\ Len(store[w[Height]].fdes) \in Nat /\ Len(store[w[Height]].fdes) >= 1
           /\ Head(store[w[Height]].fdes) = store[w[Height]].fdes[1]
           /\ Last(store[w[Height]].fdes) = store[w[Height]].fdes[Len(store[w[Height]].fdes)]
           /\ Head(store[w[Height]].fdes) \in Entry /\ Last(store[w[Height]].fdes) \in Entry
<1>1. \A d \in 0 .. Height : w[d] \in Nodes(store) /\ h[w[d]] = IF d <= h[id] THEN h[id] - d ELSE 0
  BY HeightIs, WalkHeights
<1>2. PICK m : m = w[Height]
  OBVIOUS
<1>3. h[root] <= Height /\ h[root] \in Nat /\ h[id] \in Nat
  BY HeightBound, RootedIs DEF Rooted
<1>4. m \in Nodes(store) /\ h[m] = 0 /\ m # root
  BY <1>1, <1>2, <1>3, HeightIs
<1>5. store[m] \in TreeNode /\ store[m].leaf
  BY <1>4, RootedIs
<1>6. Len(store[m].fdes) \in Nat /\ Len(store[m].fdes) >= 1 /\ store[m].fdes \in Seq(Entry)
  BY <1>4, <1>5, NodeIs, Geometry DEF Sized
<1>7. /\ Head(store[m].fdes) = store[m].fdes[1]
      /\ Last(store[m].fdes) = store[m].fdes[Len(store[m].fdes)]
      /\ Head(store[m].fdes) \in Entry /\ Last(store[m].fdes) \in Entry
  <2>1. PICK s : s = store[m].fdes
    OBVIOUS
  <2>2. s \in Seq(Entry) /\ Len(s) > 0
    BY <1>6, <2>1
  <2>3. Head(s) = s[1] /\ Head(s) \in Entry
    BY <2>2, TailOf
  <2>4. Last(s) = s[Len(s)] /\ Last(s) \in Entry
    BY <2>2, FrontOf
  <2> QED BY <2>1, <2>3, <2>4
<1> QED BY <1>2, <1>4, <1>5, <1>6, <1>7

LEMMA MaxIs ==
    ASSUME NEW root, NEW h, Rooted(store, root, h), Sized(store, root),
           NEW id \in Nodes(store), h[id] < h[root]
    PROVE  /\ MaxOf(id) \in Entry
           /\ \E w : /\ IsWalk(w, Height, id, [m \in Nodes(store) |-> LastKid(store, m)])
                     /\ w[Height] \in Nodes(store) /\ store[w[Height]].leaf
                     /\ Len(store[w[Height]].fdes) \in Nat /\ Len(store[w[Height]].fdes) >= 1
                     /\ MaxOf(id) = store[w[Height]].fdes[Len(store[w[Height]].fdes)]
<1>1. PICK F : F = [m \in Nodes(store) |-> LastKid(store, m)]
  OBVIOUS
<1>2. StepsDown(store, h, F)
  BY <1>1, EndSteps
<1>3. PICK w : IsWalk(w, Height, id, F)
  BY <1>2, WalkIs
<1>4. MaxOf(id) = Last(store[w[Height]].fdes)
  BY <1>1, <1>3, DownLast
<1> QED BY <1>1, <1>2, <1>3, <1>4, WalkEnds

LEMMA MinIs ==
    ASSUME NEW root, NEW h, Rooted(store, root, h), Sized(store, root),
           NEW id \in Nodes(store), h[id] < h[root]
    PROVE  /\ MinOf(id) \in Entry
           /\ \E w : /\ IsWalk(w, Height, id, [m \in Nodes(store) |-> FirstKid(store, m)])
                     /\ w[Height] \in Nodes(store) /\ store[w[Height]].leaf
                     /\ Len(store[w[Height]].fdes) \in Nat /\ Len(store[w[Height]].fdes) >= 1
                     /\ MinOf(id) = store[w[Height]].fdes[1]
<1>1. PICK F : F = [m \in Nodes(store) |-> FirstKid(store, m)]
  OBVIOUS
<1>2. StepsDown(store, h, F)
  BY <1>1, EndSteps
<1>3. PICK w : IsWalk(w, Height, id, F)
  BY <1>2, WalkIs
<1>4. MinOf(id) = Head(store[w[Height]].fdes)
  BY <1>1, <1>3, DownFirst
<1> QED BY <1>1, <1>2, <1>3, <1>4, WalkEnds

LEMMA ReplaceIs ==
    ASSUME NEW h, NEW p, NEW i, AtInner(h, p, i), i \in 1 .. Len(store[p].fdes), NEW entry \in Entry,
           NEW child \in Nodes(store), Replace(entry, child)
    PROVE  Set(store, store', p, i, entry) /\ call' = Called("del", call.file, entry.fhash, child, store')
<1>1. store \in Stores /\ p \in Nodes(store) /\ store[p] \in TreeNode /\ call.dobj = store[p] /\ call.id = p /\ Place = i
  BY DEF AtInner
<1>2. PICK y : y = EntryPut(store[p], i, entry)
  OBVIOUS
<1>3. /\ y \in TreeNode /\ y.leaf = store[p].leaf /\ y.cobj = store[p].cobj /\ Len(y.fdes) = Len(store[p].fdes)
      /\ y.fdes[i] = entry /\ \A k \in 1 .. Len(store[p].fdes) : k # i => y.fdes[k] = store[p].fdes[k]
  BY <1>1, <1>2, EntrySet
<1>4. store' = Write(store, p, y) /\ call' = Go(store', "del", entry.fhash, child)
  BY <1>1, <1>2 DEF Replace, EntryPut
<1>5. store' \in Stores /\ Nodes(store') = Nodes(store) /\ store'[p] = y /\ \A j \in Id \ {p} : store'[j] = store[j]
  BY <1>1, <1>3, <1>4, OneWrite
<1>6. Set(store, store', p, i, entry)
  BY <1>1, <1>3, <1>5 DEF Set
<1>7. child \in Nodes(store') /\ Read(store', child) = store'[child]
  BY <1>5 DEF Read, Nodes
<1>8. call' = Called("del", call.file, entry.fhash, child, store')
  BY <1>4, <1>7, EnterIs DEF Go
<1> QED BY <1>6, <1>8

LEMMA ReplaceByMaxDoes ==
    ASSUME NEW h, Shaped(store, root_dir_node_id, call, h), ReplaceByMax
    PROVE  \E p, i, c :
             /\ AtInner(h, p, i) /\ i \in 1 .. Len(store[p].fdes) /\ store[p].fdes[i].fhash = call.fhash
             /\ KidIs(store, root_dir_node_id, h, p, i, c) /\ Len(store[c].fdes) > H
             /\ Set(store, store', p, i, MaxOf(c)) /\ root_dir_node_id' = root_dir_node_id
             /\ call' = Called("del", call.file, MaxOf(c).fhash, c, store')
<1>1. /\ Deleting /\ ~call.dobj.leaf /\ Found /\ SparesChild(Place) /\ root_dir_node_id' = root_dir_node_id
      /\ Replace(MaxOf(call.dobj.cobj[Place]), call.dobj.cobj[Place])
  BY DEF ReplaceByMax
<1>2. PICK p, i : p = call.id /\ i = Place
  OBVIOUS
<1>3. AtInner(h, p, i)
  <2>1. AtInner(h, call.id, Place)
    BY <1>1, AtInnerIs
  <2> QED BY <1>2, <2>1
<1>4. PICK c : c = store[p].cobj[i]
  OBVIOUS
<1>11. i \in 1 .. Len(store[p].fdes) /\ store[p].fdes[i].fhash = call.fhash /\ call.dobj = store[p]
       /\ i \in 1 .. Len(store[p].fdes) + 1
  BY <1>1, <1>3 DEF AtInner
<1>5. /\ KidIs(store, root_dir_node_id, h, p, i, c)
  BY <1>3, <1>4, KidsAre DEF AtInner
<1>6. Len(store[c].fdes) > H
  <2>1. /\ i = Place /\ \A k \in 1 .. Len(store[p].fdes) + 1 :
                           SparesChild(k) <=> Len(store[store[p].cobj[k]].fdes) > H
    BY <1>3 DEF AtInner
  <2>2. SparesChild(i)
    BY <1>1, <2>1
  <2> QED BY <1>4, <1>11, <2>1, <2>2
<1>7. c \in Nodes(store) /\ h[c] < h[root_dir_node_id]
  <2>1. c \in Nodes(store) /\ h[c] = h[p] - 1 /\ h[p] \in Nat /\ h[p] <= h[root_dir_node_id] /\ h[root_dir_node_id] \in Nat
    BY <1>3, <1>5, RootedIs DEF KidIs, AtInner, Rooted
  <2> QED BY <2>1
<1>8. MaxOf(c) \in Entry
  BY <1>3, <1>7, MaxIs DEF AtInner
<1>9. Replace(MaxOf(c), c)
  BY <1>1, <1>2, <1>4, <1>11
<1>10. Set(store, store', p, i, MaxOf(c)) /\ call' = Called("del", call.file, MaxOf(c).fhash, c, store')
  BY <1>3, <1>7, <1>8, <1>9, <1>11, ReplaceIs
<1> QED BY <1>1, <1>3, <1>5, <1>6, <1>10, <1>11

LEMMA ReplaceByMinDoes ==
    ASSUME NEW h, Shaped(store, root_dir_node_id, call, h), ReplaceByMin
    PROVE  \E p, i, c :
             /\ AtInner(h, p, i) /\ i \in 1 .. Len(store[p].fdes) /\ store[p].fdes[i].fhash = call.fhash
             /\ KidIs(store, root_dir_node_id, h, p, i + 1, c) /\ Len(store[c].fdes) > H
             /\ Set(store, store', p, i, MinOf(c)) /\ root_dir_node_id' = root_dir_node_id
             /\ call' = Called("del", call.file, MinOf(c).fhash, c, store')
<1>1. /\ Deleting /\ ~call.dobj.leaf /\ Found /\ SparesChild(Place + 1) /\ root_dir_node_id' = root_dir_node_id
      /\ Replace(MinOf(call.dobj.cobj[Place + 1]), call.dobj.cobj[Place + 1])
  BY DEF ReplaceByMin
<1>2. PICK p, i : p = call.id /\ i = Place
  OBVIOUS
<1>3. AtInner(h, p, i)
  <2>1. AtInner(h, call.id, Place)
    BY <1>1, AtInnerIs
  <2> QED BY <1>2, <2>1
<1>4. PICK c : c = store[p].cobj[i + 1]
  OBVIOUS
<1>11. i \in 1 .. Len(store[p].fdes) /\ store[p].fdes[i].fhash = call.fhash /\ call.dobj = store[p]
       /\ i + 1 \in 1 .. Len(store[p].fdes) + 1
  BY <1>1, <1>3 DEF AtInner
<1>5. /\ KidIs(store, root_dir_node_id, h, p, i + 1, c)
  BY <1>3, <1>4, <1>11, KidsAre DEF AtInner
<1>6. Len(store[c].fdes) > H
  <2>1. /\ i = Place /\ \A k \in 1 .. Len(store[p].fdes) + 1 :
                           SparesChild(k) <=> Len(store[store[p].cobj[k]].fdes) > H
    BY <1>3 DEF AtInner
  <2>2. SparesChild(i + 1)
    BY <1>1, <2>1
  <2> QED BY <1>4, <1>11, <2>1, <2>2
<1>7. c \in Nodes(store) /\ h[c] < h[root_dir_node_id]
  <2>1. c \in Nodes(store) /\ h[c] = h[p] - 1 /\ h[p] \in Nat /\ h[p] <= h[root_dir_node_id] /\ h[root_dir_node_id] \in Nat
    BY <1>3, <1>5, RootedIs DEF KidIs, AtInner, Rooted
  <2> QED BY <2>1
<1>8. MinOf(c) \in Entry
  BY <1>3, <1>7, MinIs DEF AtInner
<1>9. Replace(MinOf(c), c)
  BY <1>1, <1>2, <1>4, <1>11
<1>10. Set(store, store', p, i, MinOf(c)) /\ call' = Called("del", call.file, MinOf(c).fhash, c, store')
  BY <1>3, <1>7, <1>8, <1>9, <1>11, ReplaceIs
<1> QED BY <1>1, <1>3, <1>5, <1>6, <1>10, <1>11

LEMMA BorrowLeftDoes ==
    ASSUME InPlace, NEW h, Shaped(store, root_dir_node_id, call, h), BorrowLeft
    PROVE  \E p, i, l, r, e, f, c :
             /\ AtInner(h, p, i + 1) /\ ~Found /\ root_dir_node_id' = root_dir_node_id
             /\ KidIs(store, root_dir_node_id, h, p, i, l) /\ Len(store[l].fdes) > H
             /\ KidIs(store, root_dir_node_id, h, p, i + 1, r)
             /\ Shift(store, store', p, i, l, r, e, f, c) /\ Lengths(store, store', p, l, r)
             /\ call' = Called("del", call.file, call.fhash, r, store')
<1>1. /\ Deleting /\ ~call.dobj.leaf /\ ~Found /\ ~SparesChild(Place) /\ Place > 1 /\ SparesChild(Place - 1)
  BY DEF BorrowLeft, TooFew, LeftLends
<1>2. PICK p : p = call.id
  OBVIOUS
<1>3. AtInner(h, p, Place)
  BY <1>1, <1>2, AtInnerIs
<1>4. PICK i : i = Place - 1
  OBVIOUS
<1>5. Place = i + 1 /\ i \in 1 .. Len(store[p].fdes) /\ i \in 1 .. Len(store[p].fdes) + 1
      /\ i + 1 \in 1 .. Len(store[p].fdes) + 1 /\ call.dobj = store[p]
  <2>1. Place \in 1 .. Len(store[p].fdes) + 1 /\ Len(store[p].fdes) \in Nat /\ call.dobj = store[p]
    BY <1>3 DEF AtInner
  <2> QED BY <1>1, <1>4, <2>1
<1>6. AtInner(h, p, i + 1)
  BY <1>3, <1>5
<1>7. PICK l, r : l = store[p].cobj[i] /\ r = store[p].cobj[i + 1]
  OBVIOUS
<1>8. /\ Brothers(store, p, i, l, r)
      /\ KidIs(store, root_dir_node_id, h, p, i, l) /\ KidIs(store, root_dir_node_id, h, p, i + 1, r)
  BY <1>5, <1>6, <1>7, BrothersAre DEF AtInner
<1>9. Len(store[l].fdes) > H
  BY <1>1, <1>4, <1>5, <1>6, <1>7 DEF AtInner
<1>10. /\ Child(store, store[p], i) = store[l] /\ Child(store, store[p], i + 1) = store[r]
       /\ store[l] \in TreeNode /\ store[r] \in TreeNode /\ Branches(store[l])
       /\ Len(store[l].fdes) >= 1 /\ Len(store[l].fdes) \in Nat
  BY <1>8 DEF KidIs
<1>11. PICK e, f, c : e = store[p].fdes[i] /\ f = Last(store[l].fdes) /\ c = Last(store[l].cobj)
  OBVIOUS
<1>12. PICK a, b, x : a = NoLast(store[l]) /\ b = MoreFirst(store[r], e, c) /\ x = EntryPut(store[p], i, f)
  OBVIOUS
<1>13. /\ store' = Written(store, p, x, l, a, r, b) /\ root_dir_node_id' = root_dir_node_id
       /\ call' = Enter("del", call.file, call.fhash, r, b)
  <2>1. /\ call.dobj = store[p] /\ Place - 1 = i /\ Place = i + 1
        /\ call.dobj.cobj[Place] = r /\ call.dobj.cobj[Place - 1] = l
        /\ Child(store, call.dobj, Place - 1) = store[l] /\ Child(store, call.dobj, Place) = store[r]
    BY <1>4, <1>5, <1>7, <1>10
  <2>2. Borrow(NoLast(store[l]), l, EntryPut(store[p], i, Last(store[l].fdes)),
               MoreFirst(store[r], store[p].fdes[i], Last(store[l].cobj)))
    <3>1. Borrow(NoLast(store[l]), call.dobj.cobj[Place - 1],
                 EntryPut(call.dobj, Place - 1, Last(store[l].fdes)),
                 MoreFirst(store[r], call.dobj.fdes[Place - 1], Last(store[l].cobj)))
      BY <2>1 DEF BorrowLeft, NoLast, MoreFirst, EntryPut
    <3> QED BY <2>1, <3>1
  <2>3. Borrow(a, l, x, b)
    BY <1>11, <1>12, <2>2
  <2> QED BY <1>2, <2>1, <2>3 DEF Borrow, Written, Write, Poke
<1>14. GivesLast(store[l], a, f, c) /\ f \in Entry /\ (~store[l].leaf => c \in Id)
  BY <1>10, <1>11, <1>12, NoLastIs DEF GivesLast
<1>15. GivesFirst(b, store[r], e, c)
  <2>1. e \in Entry
    BY <1>5, <1>6, <1>11, NodeIs DEF AtInner
  <2>2. store[l].leaf = store[r].leaf
    BY <1>8 DEF Brothers
  <2>3. ~store[r].leaf => c \in Id
    BY <1>14, <2>2
  <2>4. /\ b \in TreeNode /\ b.leaf = store[r].leaf /\ Len(store[r].fdes) \in Nat
        /\ Len(b.fdes) = Len(store[r].fdes) + 1 /\ IsInserted(b.fdes, store[r].fdes, 1, e)
        /\ store[r].leaf => b.cobj = store[r].cobj
        /\ ~store[r].leaf => IsInserted(b.cobj, store[r].cobj, 1, c)
    BY <1>10, <1>12, <2>1, <2>3, MoreFirstIs
  <2> QED BY <1>10, <2>4 DEF GivesFirst
<1>16. /\ Shift(store, store', p, i, l, r, e, f, c) /\ Lengths(store, store', p, l, r)
       /\ store'[r] = b
  <2>1. /\ Brothers(store, p, i, l, r) /\ e = store[p].fdes[i] /\ f \in Entry /\ x = EntryPut(store[p], i, f)
        /\ GivesLast(store[l], a, f, c) /\ GivesFirst(b, store[r], e, c)
        /\ store' = Written(store, p, x, l, a, r, b)
    BY <1>8, <1>11, <1>12, <1>13, <1>14, <1>15
  <2> QED BY <2>1, LentLeft
<1>17. r \in Nodes(store')
  BY <1>16 DEF Shift
<1>18. call' = Called("del", call.file, call.fhash, r, store')
  BY <1>13, <1>16, <1>17, EnterIs
<1> QED BY <1>1, <1>6, <1>8, <1>9, <1>13, <1>16, <1>18

LEMMA BorrowRightDoes ==
    ASSUME InPlace, NEW h, Shaped(store, root_dir_node_id, call, h), BorrowRight
    PROVE  \E p, i, l, r, e, f, c :
             /\ AtInner(h, p, i) /\ ~Found /\ root_dir_node_id' = root_dir_node_id
             /\ KidIs(store, root_dir_node_id, h, p, i, l) /\ Len(store[r].fdes) > H
             /\ KidIs(store, root_dir_node_id, h, p, i + 1, r)
             /\ Shift(store', store, p, i, l, r, e, f, c) /\ Lengths(store, store', p, r, l)
             /\ call' = Called("del", call.file, call.fhash, l, store')
<1>1. /\ Deleting /\ ~call.dobj.leaf /\ ~Found /\ ~SparesChild(Place)
      /\ Place <= Len(call.dobj.fdes) /\ SparesChild(Place + 1)
  BY DEF BorrowRight, TooFew, RightLends
<1>2. PICK p, i : p = call.id /\ i = Place
  OBVIOUS
<1>3. AtInner(h, p, i)
  BY <1>1, <1>2, AtInnerIs
<1>5. i \in 1 .. Len(store[p].fdes) /\ i + 1 \in 1 .. Len(store[p].fdes) + 1 /\ call.dobj = store[p]
  <2>1. i \in 1 .. Len(store[p].fdes) + 1 /\ Len(store[p].fdes) \in Nat /\ call.dobj = store[p]
    BY <1>3 DEF AtInner
  <2> QED BY <1>1, <1>2, <2>1
<1>7. PICK l, r : l = store[p].cobj[i] /\ r = store[p].cobj[i + 1]
  OBVIOUS
<1>8. /\ Brothers(store, p, i, l, r)
      /\ KidIs(store, root_dir_node_id, h, p, i, l) /\ KidIs(store, root_dir_node_id, h, p, i + 1, r)
  BY <1>3, <1>5, <1>7, BrothersAre DEF AtInner
<1>9. Len(store[r].fdes) > H
  BY <1>1, <1>2, <1>3, <1>5, <1>7 DEF AtInner
<1>10. /\ Child(store, store[p], i) = store[l] /\ Child(store, store[p], i + 1) = store[r]
       /\ store[l] \in TreeNode /\ store[r] \in TreeNode /\ Branches(store[r])
       /\ Len(store[r].fdes) >= 1 /\ Len(store[r].fdes) \in Nat
  BY <1>8 DEF KidIs
<1>11. PICK e, f, c : e = store[p].fdes[i] /\ f = Head(store[r].fdes) /\ c = Head(store[r].cobj)
  OBVIOUS
<1>12. PICK a, b, x : a = MoreLast(store[l], e, c) /\ b = NoFirst(store[r]) /\ x = EntryPut(store[p], i, f)
  OBVIOUS
<1>13. /\ store' = Written(store, p, x, r, b, l, a) /\ root_dir_node_id' = root_dir_node_id
       /\ call' = Enter("del", call.file, call.fhash, l, a)
  <2>1. /\ call.dobj = store[p] /\ Place = i
        /\ call.dobj.cobj[Place] = l /\ call.dobj.cobj[Place + 1] = r
        /\ Child(store, call.dobj, Place) = store[l] /\ Child(store, call.dobj, Place + 1) = store[r]
    BY <1>2, <1>5, <1>7, <1>10
  <2>2. Borrow(NoFirst(store[r]), r, EntryPut(store[p], i, Head(store[r].fdes)),
               MoreLast(store[l], store[p].fdes[i], Head(store[r].cobj)))
    <3>1. Borrow(NoFirst(store[r]), call.dobj.cobj[Place + 1],
                 EntryPut(call.dobj, Place, Head(store[r].fdes)),
                 MoreLast(store[l], call.dobj.fdes[Place], Head(store[r].cobj)))
      BY <2>1 DEF BorrowRight, NoFirst, MoreLast, EntryPut
    <3> QED BY <2>1, <3>1
  <2>3. Borrow(b, r, x, a)
    BY <1>11, <1>12, <2>2
  <2> QED BY <1>2, <2>1, <2>3 DEF Borrow, Written, Write, Poke
<1>14. GivesFirst(store[r], b, f, c) /\ f \in Entry /\ (~store[r].leaf => c \in Id)
  BY <1>10, <1>11, <1>12, NoFirstIs DEF GivesFirst
<1>15. GivesLast(a, store[l], e, c)
  <2>1. e \in Entry
    BY <1>3, <1>5, <1>11, NodeIs DEF AtInner
  <2>2. store[l].leaf = store[r].leaf
    BY <1>8 DEF Brothers
  <2>3. ~store[l].leaf => c \in Id
    BY <1>14, <2>2
  <2>4. /\ a \in TreeNode /\ a.leaf = store[l].leaf /\ Len(store[l].fdes) \in Nat
        /\ Len(a.fdes) = Len(store[l].fdes) + 1 /\ IsInserted(a.fdes, store[l].fdes, Len(store[l].fdes) + 1, e)
        /\ store[l].leaf => a.cobj = store[l].cobj
        /\ ~store[l].leaf => IsInserted(a.cobj, store[l].cobj, Len(store[l].cobj) + 1, c)
    BY <1>10, <1>12, <2>1, <2>3, MoreLastIs
  <2> QED BY <1>10, <2>4 DEF GivesLast
<1>16. /\ Shift(store', store, p, i, l, r, f, e, c) /\ Lengths(store, store', p, r, l)
       /\ store'[l] = a
  <2>1. /\ Brothers(store, p, i, l, r) /\ e = store[p].fdes[i] /\ f \in Entry /\ x = EntryPut(store[p], i, f)
        /\ GivesFirst(store[r], b, f, c) /\ GivesLast(a, store[l], e, c)
        /\ store' = Written(store, p, x, r, b, l, a)
    BY <1>8, <1>11, <1>12, <1>13, <1>14, <1>15
  <2> QED BY <2>1, LentRight
<1>17. l \in Nodes(store')
  BY <1>16 DEF Shift
<1>18. call' = Called("del", call.file, call.fhash, l, store')
  BY <1>13, <1>16, <1>17, EnterIs
<1> QED BY <1>1, <1>3, <1>8, <1>9, <1>13, <1>16, <1>18

\* Children l and r of node p become one; p goes when it is left without an
\* entry.  T is the store before that.
UnitedTo(h, p, i, l, r, e, T) ==
    /\ KidIs(store, root_dir_node_id, h, p, i, l) /\ KidIs(store, root_dir_node_id, h, p, i + 1, r)
    /\ Cut(T, store, p, i, l, r, e) /\ e = store[p].fdes[i] /\ i \in 1 .. Len(store[p].fdes)
    /\ Len(T[l].fdes) = Len(store[l].fdes) + 1 + Len(store[r].fdes)
    /\ Len(T[p].fdes) = Len(store[p].fdes) - 1
    /\ \/ /\ Len(T[p].fdes) > 0 /\ store' = T /\ root_dir_node_id' = root_dir_node_id
       \/ /\ Len(T[p].fdes) = 0 /\ store' = DeAlloc(T, p) /\ root_dir_node_id' = l
    /\ call' = Called("del", call.file, call.fhash, l, store')

LEMMA UnionIs ==
    ASSUME InPlace, NEW h, NEW p, NEW j, AtInner(h, p, j), NEW i \in 1 .. Len(store[p].fdes), UnionChild(i)
    PROVE  \E l, r, e, T : UnitedTo(h, p, i, l, r, e, T)
<1>1. PICK l, r : l = store[p].cobj[i] /\ r = store[p].cobj[i + 1]
  OBVIOUS
<1>2. /\ Brothers(store, p, i, l, r)
      /\ KidIs(store, root_dir_node_id, h, p, i, l) /\ KidIs(store, root_dir_node_id, h, p, i + 1, r)
  BY <1>1, BrothersAre DEF AtInner
<1>3. call.dobj = store[p] /\ call.id = p /\ Child(store, store[p], i + 1) = store[r] /\ l # p
  BY <1>2 DEF AtInner, KidIs
<1>4. PICK e : e = store[p].fdes[i]
  OBVIOUS
<1>5. PICK u : u = United(store[l], e, store[r])
  OBVIOUS
<1>6. PICK x : x = Parted(store[p], i)
  OBVIOUS
<1>7. PICK T : T = DeAlloc(Write(Write(store, l, u), p, x), r)
  OBVIOUS
<1>8. /\ store' = IF x.fdes = << >> THEN DeAlloc(T, p) ELSE T
      /\ root_dir_node_id' = IF x.fdes = << >> THEN l ELSE root_dir_node_id
      /\ call' = Enter("del", call.file, call.fhash, l, u)
  <2>1. /\ store' = IF Parted(store[p], i).fdes = << >>
                      THEN DeAlloc(DeAlloc(Write(Write(store, l, United(store[l], store[p].fdes[i], store[r])),
                                                 p, Parted(store[p], i)), r), p)
                      ELSE DeAlloc(Write(Write(store, l, United(store[l], store[p].fdes[i], store[r])),
                                         p, Parted(store[p], i)), r)
        /\ root_dir_node_id' = IF Parted(store[p], i).fdes = << >> THEN l ELSE root_dir_node_id
        /\ call' = Enter("del", call.file, call.fhash, l, United(store[l], store[p].fdes[i], store[r]))
    BY <1>1, <1>3 DEF UnionChild, Parted, Poke
  <2> QED BY <1>4, <1>5, <1>6, <1>7, <2>1
<1>9. /\ Cut(T, store, p, i, l, r, e) /\ T[l] = u /\ T[p] = x
      /\ Len(T[l].fdes) = Len(store[l].fdes) + 1 + Len(store[r].fdes)
      /\ Len(T[p].fdes) = Len(store[p].fdes) - 1
  <2>1. AreUnited(store, p, i, l, r, u, x, T)
    BY <1>4, <1>5, <1>6, <1>7 DEF AreUnited
  <2>2. /\ Cut(T, store, p, i, l, r, store[p].fdes[i]) /\ T[l] = u /\ T[p] = x
        /\ UnitedLengths(store, T, p, l, r)
    BY <1>2, <2>1, UnionIsCut
  <2> QED BY <1>4, <2>2 DEF UnitedLengths
<1>10. T \in Stores /\ l \in Nodes(T) /\ p \in Nodes(T) /\ l \in Id /\ p \in Id
  BY <1>9 DEF Cut, Nodes
<1>11. x.fdes = << >> <=> Len(T[p].fdes) = 0
  <2>1. x \in TreeNode
    BY <1>9, <1>10 DEF Stores, Nodes
  <2>2. x.fdes \in Seq(Entry)
    BY <2>1, NodeIs
  <2>3. x.fdes = << >> <=> Len(x.fdes) = 0
    BY <2>2, EmptySeq
  <2> QED BY <1>9, <2>3
<1>12. Len(T[p].fdes) \in Nat
  <2>1. T[p] \in TreeNode
    BY <1>10 DEF Stores, Nodes
  <2> QED BY <2>1, NodeIs
<1>13. store'[l] = u /\ l \in Nodes(store')
  <2>1. CASE x.fdes = << >>
    <3>1. store' = DeAlloc(T, p)
      BY <1>8, <2>1
    <3>2. store'[l] = T[l] /\ T[l] # Null
      BY <1>3, <1>10, <3>1 DEF DeAlloc, Nodes, Stores
    <3> QED BY <1>9, <1>10, <3>2 DEF Nodes
  <2>2. CASE x.fdes # << >>
    BY <1>8, <1>9, <1>10, <2>2
  <2> QED BY <2>1, <2>2
<1>14. call' = Called("del", call.file, call.fhash, l, store')
  BY <1>8, <1>13, EnterIs
<1>15. \/ /\ Len(T[p].fdes) > 0 /\ store' = T /\ root_dir_node_id' = root_dir_node_id
       \/ /\ Len(T[p].fdes) = 0 /\ store' = DeAlloc(T, p) /\ root_dir_node_id' = l
  BY <1>8, <1>11, <1>12
<1>16. UnitedTo(h, p, i, l, r, e, T)
  BY <1>2, <1>4, <1>9, <1>14, <1>15 DEF UnitedTo
<1> QED BY <1>16

LEMMA UnionFoundDoes ==
    ASSUME InPlace, NEW h, Shaped(store, root_dir_node_id, call, h), UnionFound
    PROVE  \E p, i, l, r, e, T :
             /\ AtInner(h, p, i) /\ store[p].fdes[i].fhash = call.fhash
             /\ UnitedTo(h, p, i, l, r, e, T)
             /\ Len(store[l].fdes) = H /\ Len(store[r].fdes) = H
<1>1. /\ Deleting /\ ~call.dobj.leaf /\ Found /\ ~SparesChild(Place) /\ ~SparesChild(Place + 1) /\ UnionChild(Place)
  BY DEF UnionFound
<1>2. PICK p, i : p = call.id /\ i = Place
  OBVIOUS
<1>3. AtInner(h, p, i) /\ UnionChild(i)
  BY <1>1, <1>2, AtInnerIs
<1>4. /\ i \in 1 .. Len(store[p].fdes) /\ store[p].fdes[i].fhash = call.fhash
      /\ i \in 1 .. Len(store[p].fdes) + 1 /\ i + 1 \in 1 .. Len(store[p].fdes) + 1
  BY <1>1, <1>3 DEF AtInner
<1>5. PICK l, r, e, T : UnitedTo(h, p, i, l, r, e, T)
  BY <1>3, <1>4, UnionIs
<1>6. ~(Len(store[l].fdes) > H) /\ ~(Len(store[r].fdes) > H)
  <2>1. l = store[p].cobj[i] /\ r = store[p].cobj[i + 1]
    BY <1>5 DEF UnitedTo, KidIs
  <2> QED BY <1>1, <1>2, <1>3, <1>4, <2>1 DEF AtInner
<1>7. Len(store[l].fdes) = H /\ Len(store[r].fdes) = H
  <2>1. Len(store[l].fdes) \in H .. 2 * H + 1 /\ Len(store[r].fdes) \in H .. 2 * H + 1
    BY <1>5 DEF UnitedTo, KidIs
  <2> QED BY <1>6, <2>1, Geometry
<1> QED BY <1>3, <1>4, <1>5, <1>7

LEMMA UnionBelowDoes ==
    ASSUME InPlace, NEW h, Shaped(store, root_dir_node_id, call, h), UnionBelow
    PROVE  \E p, i, j, l, r, e, T :
             /\ AtInner(h, p, j) /\ ~Found /\ (i = j \/ i = j - 1)
             /\ UnitedTo(h, p, i, l, r, e, T)
             /\ Len(store[l].fdes) = H /\ Len(store[r].fdes) = H
<1>1. /\ Deleting /\ ~call.dobj.leaf /\ ~Found /\ ~SparesChild(Place) /\ ~LeftLends /\ ~RightLends
      /\ UnionChild(IF Place > Len(call.dobj.fdes) THEN Place - 1 ELSE Place)
  BY DEF UnionBelow, TooFew
<1>2. PICK p, j : p = call.id /\ j = Place
  OBVIOUS
<1>3. AtInner(h, p, j)
  BY <1>1, <1>2, AtInnerIs
<1>4. PICK i : i = IF j > Len(store[p].fdes) THEN j - 1 ELSE j
  OBVIOUS
<1>5. /\ j \in 1 .. Len(store[p].fdes) + 1 /\ Len(store[p].fdes) \in Nat /\ Len(store[p].fdes) >= 1
      /\ call.dobj = store[p]
      /\ \A k \in 1 .. Len(store[p].fdes) + 1 : SparesChild(k) <=> Len(store[store[p].cobj[k]].fdes) > H
  BY <1>3 DEF AtInner
<1>6. i \in 1 .. Len(store[p].fdes) /\ i \in 1 .. Len(store[p].fdes) + 1 /\ i + 1 \in 1 .. Len(store[p].fdes) + 1
      /\ (i = j \/ i = j - 1)
  BY <1>4, <1>5
<1>7. UnionChild(i)
  BY <1>1, <1>2, <1>4, <1>5
<1>8. PICK l, r, e, T : UnitedTo(h, p, i, l, r, e, T)
  BY <1>3, <1>6, <1>7, UnionIs
<1>9. ~SparesChild(i) /\ ~SparesChild(i + 1)
  <2>1. CASE j > Len(store[p].fdes)
    <3>1. i = j - 1 /\ i + 1 = j /\ j > 1
      BY <1>4, <1>5, <2>1
    <3> QED BY <1>1, <1>2, <3>1 DEF LeftLends
  <2>2. CASE ~(j > Len(store[p].fdes))
    <3>1. i = j /\ j <= Len(store[p].fdes)
      BY <1>4, <1>5, <2>2
    <3> QED BY <1>1, <1>2, <1>5, <3>1 DEF RightLends
  <2> QED BY <2>1, <2>2
<1>10. ~(Len(store[l].fdes) > H) /\ ~(Len(store[r].fdes) > H)
  <2>1. l = store[p].cobj[i] /\ r = store[p].cobj[i + 1]
    BY <1>8 DEF UnitedTo, KidIs
  <2> QED BY <1>5, <1>6, <1>9, <2>1
<1>11. Len(store[l].fdes) = H /\ Len(store[r].fdes) = H
  <2>1. Len(store[l].fdes) \in H .. 2 * H + 1 /\ Len(store[r].fdes) \in H .. 2 * H + 1
    BY <1>8 DEF UnitedTo, KidIs
  <2> QED BY <1>10, <2>1, Geometry
<1> QED BY <1>1, <1>3, <1>6, <1>8, <1>11

(***************************************************************************)
(* The shape is kept, and every call goes one level down.                  *)
(***************************************************************************)
SizeOK(T, root, j) ==
    /\ Len(T[j].fdes) <= Dir_Node_Degree
    /\ j # root => Len(T[j].fdes) >= H
    /\ ~T[j].leaf => Len(T[j].fdes) >= 1

LEMMA SizedIs ==
    ASSUME NEW T, NEW root
    PROVE  Sized(T, root) <=> \A j \in Nodes(T) : SizeOK(T, root, j)
BY DEF Sized, SizeOK

\* How many entries the three nodes of a cut have.
CutLengths(S, T, p, l, r) ==
    /\ Len(S[p].fdes) \in Nat /\ Len(T[p].fdes) = Len(S[p].fdes) + 1
    /\ Len(T[l].fdes) \in Nat /\ Len(T[r].fdes) \in Nat
    /\ Len(S[l].fdes) = Len(T[l].fdes) + 1 + Len(T[r].fdes)

LEMMA CutLengthsAre ==
    ASSUME NEW S, NEW T, NEW p, NEW i, NEW l, NEW r, NEW e, Cut(S, T, p, i, l, r, e)
    PROVE  /\ CutLengths(S, T, p, l, r)
           /\ p \in Nodes(T) /\ l \in Nodes(T) /\ r \in Nodes(T) /\ p # l /\ p # r /\ l # r
           /\ Nodes(T) = Nodes(S) \cup {r} /\ r \notin Nodes(S)
           /\ T[p].leaf = S[p].leaf /\ T[l].leaf = S[l].leaf /\ T[r].leaf = S[l].leaf
           /\ \A j \in Nodes(S) \ {p, l} : T[j] = S[j]
<1>0. /\ S \in Stores /\ T \in Stores
      /\ p \in Nodes(S) /\ l \in Nodes(S) /\ r \in Id \ Nodes(S) /\ p # l
      /\ Nodes(T) = Nodes(S) \cup {r}
      /\ \A j \in Id \ {p, l, r} : T[j] = S[j]
      /\ T[p].leaf = S[p].leaf /\ T[l].leaf = S[l].leaf /\ T[r].leaf = S[l].leaf
  BY DEF Cut
<1>1. S[p] \in TreeNode /\ T[l] \in TreeNode /\ T[r] \in TreeNode
  BY <1>0 DEF Stores, Nodes
<1>2. Len(S[p].fdes) \in Nat /\ Len(T[l].fdes) \in Nat /\ Len(T[r].fdes) \in Nat
  BY <1>1, NodeIs
<1>3. IsInserted(T[p].fdes, S[p].fdes, i, e) /\ IsMiddle(S[l].fdes, T[l].fdes, e, T[r].fdes)
  BY DEF Cut
<1>4. CutLengths(S, T, p, l, r)
  BY <1>2, <1>3 DEF CutLengths, IsInserted, IsMiddle
<1>5. \A j \in Nodes(S) \ {p, l} : T[j] = S[j]
  BY <1>0 DEF Nodes
<1> QED BY <1>0, <1>4, <1>5

\* After a split.
LEMMA CutSized ==
    ASSUME NEW S, NEW T, NEW p, NEW i, NEW l, NEW r, NEW e, Cut(S, T, p, i, l, r, e),
           NEW root, \A j \in Nodes(S) \ {p, l} : SizeOK(S, root, j),
           Len(S[p].fdes) < Dir_Node_Degree, p # root => Len(S[p].fdes) >= H,
           Len(T[l].fdes) = H, Len(T[r].fdes) = H
    PROVE  Sized(T, root)
<1>1. /\ CutLengths(S, T, p, l, r) /\ Nodes(T) = Nodes(S) \cup {r}
      /\ \A j \in Nodes(S) \ {p, l} : T[j] = S[j]
  BY CutLengthsAre
<1>2. H \in Nat \ {0} /\ Dir_Node_Degree = 2 * H + 1
  BY Geometry
<1>3. SizeOK(T, root, p)
  BY <1>1, <1>2 DEF SizeOK, CutLengths
<1>4. SizeOK(T, root, l) /\ SizeOK(T, root, r)
  BY <1>2 DEF SizeOK
<1>5. \A j \in Nodes(S) \ {p, l} : SizeOK(T, root, j)
  BY <1>1 DEF SizeOK
<1> QED BY <1>1, <1>3, <1>4, <1>5, SizedIs

\* After a union, of all nodes but the parent.
LEMMA UncutSized ==
    ASSUME NEW S, NEW T, NEW p, NEW i, NEW l, NEW r, NEW e, Cut(S, T, p, i, l, r, e),
           NEW root, Sized(T, root), Len(T[l].fdes) = H, Len(T[r].fdes) = H
    PROVE  /\ \A j \in Nodes(S) \ {p} : SizeOK(S, root, j)
           /\ SizeOK(S, l, l) /\ Len(S[l].fdes) > H
           /\ p # root /\ Len(T[p].fdes) > H => SizeOK(S, root, p)
           /\ Len(S[p].fdes) > 0 /\ p = root => SizeOK(S, root, p)
<1>1. /\ CutLengths(S, T, p, l, r) /\ Nodes(T) = Nodes(S) \cup {r} /\ p \in Nodes(T)
      /\ \A j \in Nodes(S) \ {p, l} : T[j] = S[j]
  BY CutLengthsAre
<1>2. H \in Nat \ {0} /\ Dir_Node_Degree = 2 * H + 1
  BY Geometry
<1>3. Len(S[l].fdes) = 2 * H + 1
  BY <1>1, <1>2 DEF CutLengths
<1>4. SizeOK(S, root, l) /\ SizeOK(S, l, l) /\ Len(S[l].fdes) > H
  BY <1>2, <1>3 DEF SizeOK
<1>5. \A j \in Nodes(S) \ {p, l} : SizeOK(S, root, j)
  <2>1. \A j \in Nodes(S) \ {p, l} : SizeOK(T, root, j)
    BY <1>1, SizedIs
  <2> QED BY <1>1, <2>1 DEF SizeOK
<1>6. Len(T[p].fdes) <= Dir_Node_Degree
  BY <1>1 DEF Sized
<1>7. PICK m \in Nat : Len(S[p].fdes) = m /\ Len(T[p].fdes) = m + 1
  BY <1>1 DEF CutLengths
<1>8. p # root /\ Len(T[p].fdes) > H => SizeOK(S, root, p)
  BY <1>2, <1>6, <1>7 DEF SizeOK
<1>9. Len(S[p].fdes) > 0 /\ p = root => SizeOK(S, root, p)
  BY <1>2, <1>6, <1>7 DEF SizeOK
<1> QED BY <1>4, <1>5, <1>8, <1>9

\* After an entry went from node a to node b.
LEMMA LentSized ==
    ASSUME NEW S, NEW T, NEW p, NEW a, NEW b, NEW root, Sized(S, root), Lengths(S, T, p, a, b),
           Nodes(T) = Nodes(S), \A j \in Nodes(S) : T[j].leaf = S[j].leaf,
           \A j \in Nodes(S) \ {p, a, b} : T[j] = S[j],
           a \in Nodes(S), b \in Nodes(S), p \in Nodes(S),
           Len(S[a].fdes) > H, Len(S[b].fdes) <= H, Len(S[b].fdes) >= H
    PROVE  Sized(T, root) /\ Len(T[b].fdes) > H
<1>1. H \in Nat \ {0} /\ Dir_Node_Degree = 2 * H + 1
  BY Geometry
<1>2. PICK m \in Nat, n \in Nat : /\ Len(T[a].fdes) = m /\ Len(S[a].fdes) = m + 1
                                  /\ Len(T[b].fdes) = n + 1 /\ Len(S[b].fdes) = n
  BY DEF Lengths
<1>3. SizeOK(S, root, p) /\ SizeOK(S, root, a) /\ Len(T[p].fdes) = Len(S[p].fdes)
  BY SizedIs DEF Lengths
<1>4. SizeOK(T, root, p)
  BY <1>3 DEF SizeOK
<1>5. SizeOK(T, root, a)
  <2>1. m + 1 <= Dir_Node_Degree
    BY <1>2, <1>3 DEF SizeOK
  <2>2. m <= Dir_Node_Degree /\ m >= H /\ m >= 1
    BY <1>1, <1>2, <2>1
  <2> QED BY <1>2, <2>2 DEF SizeOK
<1>6. SizeOK(T, root, b) /\ Len(T[b].fdes) > H
  <2>1. n + 1 <= Dir_Node_Degree /\ n + 1 >= H /\ n + 1 >= 1 /\ n + 1 > H
    BY <1>1, <1>2
  <2> QED BY <1>2, <2>1 DEF SizeOK
<1>7. \A j \in Nodes(S) \ {p, a, b} : SizeOK(T, root, j)
  <2>1. \A j \in Nodes(S) \ {p, a, b} : SizeOK(S, root, j)
    BY SizedIs
  <2> QED BY <2>1 DEF SizeOK
<1> QED BY <1>4, <1>5, <1>6, <1>7, SizedIs

\* After call c, with heights h, comes call d, with heights g, one level down.
GoesDown(c, h, d, g) ==
    \/ d = NoCall /\ h[c.id] = 0
    \/ d # NoCall /\ g[d.id] = h[c.id] - 1

LEMMA CalledDown ==
    ASSUME NEW op \in {"add", "del"}, NEW file, NEW fhash, NEW id, NEW S, NEW c, NEW h, NEW g, g[id] = h[c.id] - 1
    PROVE  GoesDown(c, h, Called(op, file, fhash, id, S), g)
<1>1. Called(op, file, fhash, id, S).op = op /\ Called(op, file, fhash, id, S).id = id
  BY CalledIs
<1>2. Called(op, file, fhash, id, S) # NoCall
  BY <1>1, NoCallIs
<1> QED BY <1>1, <1>2 DEF GoesDown

\* What each step leads to.
NextShaped(h) ==
    \E g : /\ Shaped(store', root_dir_node_id', call', g)
           /\ GoesDown(call, h, call', g)

LEMMA AddsDown ==
    ASSUME NEW h, NEW g, Rooted(store', root_dir_node_id', g), Sized(store', root_dir_node_id'),
           NEW c \in Nodes(store'), g[c] = h[call.id] - 1, NEW file \in Entry,
           Len(store'[c].fdes) < Dir_Node_Degree,
           call' = Called("add", file, file.fhash, c, store')
    PROVE  NextShaped(h)
<1>1. CallOK(store', root_dir_node_id', call')
  BY AddOK
<1>2. GoesDown(call, h, call', g)
  BY CalledDown
<1> QED BY <1>1, <1>2 DEF NextShaped, Shaped

LEMMA DelsDown ==
    ASSUME NEW h, NEW g, Rooted(store', root_dir_node_id', g), Sized(store', root_dir_node_id'),
           NEW c \in Nodes(store'), g[c] = h[call.id] - 1, NEW file \in Request, NEW fhash \in Fhash,
           c = root_dir_node_id' \/ Len(store'[c].fdes) > H,
           call' = Called("del", file, fhash, c, store')
    PROVE  NextShaped(h)
<1>1. CallOK(store', root_dir_node_id', call')
  BY DelOK
<1>2. GoesDown(call, h, call', g)
  BY CalledDown
<1> QED BY <1>1, <1>2 DEF NextShaped, Shaped

LEMMA Returns ==
    ASSUME NEW h, Rooted(store', root_dir_node_id', h), Sized(store', root_dir_node_id'),
           h[call.id] = 0, call' = NoCall
    PROVE  NextShaped(h)
BY NoneOK DEF NextShaped, Shaped, GoesDown

\* One leaf changes its entries.
PutSame(S, T, p) ==
    /\ S \in Stores /\ T \in Stores /\ Nodes(T) = Nodes(S) /\ p \in Nodes(S)
    /\ S[p].leaf /\ T[p].leaf = S[p].leaf /\ T[p].cobj = S[p].cobj
    /\ \A j \in Id \ {p} : T[j] = S[j]

LEMMA PutShape ==
    ASSUME NEW S, NEW T, NEW p, PutSame(S, T, p), NEW root, NEW h, Rooted(S, root, h), Sized(S, root),
           Len(T[p].fdes) <= Dir_Node_Degree, p # root => Len(T[p].fdes) >= H
    PROVE  Rooted(T, root, h) /\ Sized(T, root)
<1>1. Nodes(S) \subseteq Id
  BY DEF Nodes
<1>2. Reentered(S, T)
  BY <1>1 DEF PutSame, Reentered
<1>3. Rooted(T, root, h)
  BY <1>2, ReenteredRooted
<1>4. \A j \in Nodes(S) : SizeOK(T, root, j)
  <2>1. SizeOK(T, root, p)
    BY DEF SizeOK, PutSame
  <2>2. \A j \in Nodes(S) \ {p} : SizeOK(T, root, j)
    BY <1>1, SizedIs DEF SizeOK, PutSame
  <2> QED BY <2>1, <2>2
<1>5. Sized(T, root)
  BY <1>4, SizedIs DEF PutSame
<1> QED BY <1>3, <1>5

LEMMA InsertIntoLeafShaped ==
    ASSUME NEW h, Shaped(store, root_dir_node_id, call, h), InsertIntoLeaf
    PROVE  NextShaped(h)
<1> DEFINE p == call.id
           i == PlaceAfter(store[p], call.fhash)
<1>1. /\ Put(store, store', p, i, call.file) /\ call' = NoCall /\ root_dir_node_id' = root_dir_node_id
  BY InsertIntoLeafDoes
<1>2. call.op = "add"
  BY DEF InsertIntoLeaf
<1>3. AtNode(store, root_dir_node_id, call, h, p) /\ Len(store[p].fdes) < 2 * H + 1
  BY <1>2, AtNodeIs
<1>4. p \in Nodes(store) /\ Rooted(store, root_dir_node_id, h) /\ Sized(store, root_dir_node_id)
      /\ Len(store[p].fdes) \in Nat /\ (h[p] = 0 <=> store[p].leaf)
  BY <1>3 DEF Shaped, AtNode
<1> HIDE DEF i, p
<1>5. IsInserted(store'[p].fdes, store[p].fdes, i, call.file) /\ store[p].leaf /\ PutSame(store, store', p)
  BY <1>1 DEF Put, PutSame
<1>6. Len(store'[p].fdes) = Len(store[p].fdes) + 1
  BY <1>5 DEF IsInserted
<1>7. SizeOK(store, root_dir_node_id, p)
  BY <1>4, SizedIs
<1>8. Len(store'[p].fdes) <= Dir_Node_Degree /\ (p # root_dir_node_id => Len(store'[p].fdes) >= H)
  <2>1. PICK m \in Nat : m = Len(store[p].fdes)
    BY <1>4
  <2>2. Len(store'[p].fdes) = m + 1 /\ m < 2 * H + 1 /\ (p # root_dir_node_id => m >= H)
    BY <1>3, <1>6, <1>7, <2>1 DEF SizeOK
  <2> QED BY <2>1, <2>2, Geometry
<1>9. Rooted(store', root_dir_node_id, h) /\ Sized(store', root_dir_node_id)
  BY <1>4, <1>5, <1>8, PutShape
<1> QED BY <1>1, <1>4, <1>5, <1>9, Returns DEF p

LEMMA DeleteFromLeafShaped ==
    ASSUME NEW h, Shaped(store, root_dir_node_id, call, h), DeleteFromLeaf
    PROVE  NextShaped(h)
<1> DEFINE p == call.id
           i == Place
           e == store[p].fdes[i]
<1>1. /\ store[p].leaf
      /\ Found => Put(store', store, p, i, e)
      /\ ~Found => store' = store
      /\ call' = NoCall /\ root_dir_node_id' = root_dir_node_id
  BY DeleteFromLeafDoes
<1>2. call.op = "del"
  BY DEF DeleteFromLeaf, Deleting
<1>3. AtNode(store, root_dir_node_id, call, h, p) /\ (p = root_dir_node_id \/ Len(store[p].fdes) > H)
  BY <1>2, AtNodeIs
<1>4. p \in Nodes(store) /\ Rooted(store, root_dir_node_id, h) /\ Sized(store, root_dir_node_id)
      /\ Len(store[p].fdes) \in Nat /\ h[p] = 0
  BY <1>1, <1>3 DEF Shaped, AtNode
<1> HIDE DEF i, p, e
<1>5. CASE ~Found
  BY <1>1, <1>4, <1>5, Returns DEF p
<1>6. CASE Found
  <2>1. Put(store', store, p, i, e)
    BY <1>1, <1>6
  <2>2. IsInserted(store[p].fdes, store'[p].fdes, i, e) /\ PutSame(store, store', p) /\ store'[p] \in TreeNode
    <3>1. p \in Nodes(store') /\ store' \in Stores
      BY <2>1 DEF Put
    <3> QED BY <2>1, <3>1 DEF Put, PutSame, Stores, Nodes
  <2>3. Len(store[p].fdes) = Len(store'[p].fdes) + 1 /\ Len(store'[p].fdes) \in Nat
    BY <2>2, NodeIs DEF IsInserted
  <2>4. SizeOK(store, root_dir_node_id, p)
    BY <1>4, SizedIs
  <2>5. Len(store'[p].fdes) <= Dir_Node_Degree /\ (p # root_dir_node_id => Len(store'[p].fdes) >= H)
    <3>1. PICK m \in Nat : m = Len(store'[p].fdes)
      BY <2>3
    <3>2. m + 1 <= Dir_Node_Degree /\ (p # root_dir_node_id => m + 1 > H)
      BY <1>3, <2>3, <2>4, <3>1 DEF SizeOK
    <3> QED BY <3>1, <3>2, Geometry
  <2>6. Rooted(store', root_dir_node_id, h) /\ Sized(store', root_dir_node_id)
    BY <1>4, <2>2, <2>5, PutShape
  <2> QED BY <1>1, <1>4, <2>6, Returns DEF p
<1> QED BY <1>5, <1>6

\* The heights of a cut tree: node r is as high as l.
CutHeights(S, h, l, r) == [j \in Nodes(S) \cup {r} |-> IF j = r THEN h[l] ELSE h[j]]

LEMMA CutHeightsAre ==
    ASSUME NEW S, NEW h, NEW l \in Nodes(S), NEW r, r \notin Nodes(S), NEW g, g = CutHeights(S, h, l, r)
    PROVE  g[r] = h[l] /\ g[l] = h[l] /\ \A j \in Nodes(S) : g[j] = h[j]
BY DEF CutHeights

LEMMA InsertBelowShaped ==
    ASSUME InPlace, NEW h, Shaped(store, root_dir_node_id, call, h), HasRoom, InsertBelow
    PROVE  NextShaped(h)
<1> DEFINE p == call.id
           i == PlaceAfter(store[p], call.fhash)
           c == store[p].cobj[i]
           root == root_dir_node_id
<1>1. /\ call.op = "add" /\ ~store[p].leaf /\ root_dir_node_id' = root
      /\ \/ /\ store' = store /\ Len(store[c].fdes) < Dir_Node_Degree
            /\ call' = Called("add", call.file, call.fhash, c, store')
         \/ \E l, r, e :
              /\ Cut(store, store', p, i, l, r, e)
              /\ Len(store'[l].fdes) = H /\ Len(store'[r].fdes) = H
              /\ call' = Called("add", call.file, call.fhash, IF call.fhash > e.fhash THEN r ELSE l, store')
  BY InsertBelowDoes
<1>2. AtNode(store, root, call, h, p) /\ Len(store[p].fdes) < 2 * H + 1 /\ call.file \in Entry /\ call.fhash = call.file.fhash
  BY <1>1, AtNodeIs
<1>3. Rooted(store, root, h) /\ Sized(store, root)
  BY DEF Shaped
<1>4. p \in Nodes(store) /\ i \in 1 .. Len(store[p].fdes) + 1
  BY <1>2 DEF AtNode
<1> HIDE DEF p, i, c
<1>5. KidIs(store, root, h, p, i, c)
  BY <1>1, <1>3, <1>4, KidsAre DEF c
<1>6. c \in Nodes(store) /\ h[c] = h[p] - 1
  BY <1>5 DEF KidIs
<1>7. CASE store' = store /\ Len(store[c].fdes) < Dir_Node_Degree /\ call' = Called("add", call.file, call.fhash, c, store')
  BY <1>1, <1>2, <1>3, <1>6, <1>7, AddsDown DEF p
<1>8. ASSUME NEW l, NEW r, NEW e, Cut(store, store', p, i, l, r, e),
             Len(store'[l].fdes) = H, Len(store'[r].fdes) = H,
             call' = Called("add", call.file, call.fhash, IF call.fhash > e.fhash THEN r ELSE l, store')
      PROVE  NextShaped(h)
  <2>0. PICK g : g = CutHeights(store, h, l, r)
    OBVIOUS
  <2>1. l = c /\ r \notin Nodes(store) /\ l \in Nodes(store)
    BY <1>8 DEF Cut, c
  <2>2. g[r] = h[l] /\ g[l] = h[l] /\ \A j \in Nodes(store) : g[j] = h[j]
    BY <2>0, <2>1 DEF CutHeights
  <2>3. Rooted(store', root, g)
    BY <1>3, <1>8, <2>2, CutRooted
  <2>4. H \in Nat \ {0} /\ Dir_Node_Degree = 2 * H + 1
    BY Geometry
  <2>5. \A j \in Nodes(store) : SizeOK(store, root, j)
    BY <1>3, SizedIs
  <2>6. Len(store[p].fdes) < Dir_Node_Degree /\ (p # root => Len(store[p].fdes) >= H)
    BY <1>2, <1>4, <2>4, <2>5 DEF SizeOK
  <2>7. Sized(store', root)
    BY <1>8, <2>5, <2>6, CutSized
  <2>8. PICK m : m = IF call.fhash > e.fhash THEN r ELSE l
    OBVIOUS
  <2>9. m \in Nodes(store') /\ g[m] = h[p] - 1 /\ Len(store'[m].fdes) < Dir_Node_Degree
    <3>1. Nodes(store') = Nodes(store) \cup {r}
      BY <1>8 DEF Cut
    <3> QED BY <1>6, <1>8, <2>1, <2>2, <2>4, <2>8, <3>1
  <2>10. call' = Called("add", call.file, call.file.fhash, m, store')
    BY <1>2, <1>8, <2>8
  <2> QED BY <1>1, <1>2, <2>3, <2>7, <2>9, <2>10, AddsDown DEF p
<1> QED BY <1>1, <1>7, <1>8

\* A request starts with a call for the root.
Started == \E g : Shaped(store', root_dir_node_id', call', g)

LEMMA AddNewFileShaped ==
    ASSUME InPlace, NEW h, Shaped(store, root_dir_node_id, call, h), HasRoom,
           NEW file \in New, AddNewFile(file)
    PROVE  Started
<1> DEFINE root == root_dir_node_id
<1>1. \/ /\ Same /\ call' = Called("add", file, file.fhash, root, store')
         /\ Len(store[root].fdes) < Dir_Node_Degree
      \/ \E f, r, e, S :
           /\ NewRoot(store, S, root, f)
           /\ Cut(S, store', f, 1, root, r, e) /\ root_dir_node_id' = f
           /\ Len(store'[root].fdes) = H /\ Len(store'[r].fdes) = H
           /\ call' = Called("add", file, file.fhash, f, store')
  BY AddNewFileDoes
<1>2. Rooted(store, root, h) /\ Sized(store, root) /\ root \in Nodes(store) /\ file \in Entry
  BY DEF Shaped, Rooted, New
<1>3. CASE Same /\ call' = Called("add", file, file.fhash, root, store') /\ Len(store[root].fdes) < Dir_Node_Degree
  <2>1. CallOK(store', root_dir_node_id', call')
    BY <1>2, <1>3, AddOK DEF Same
  <2> QED BY <1>2, <1>3, <2>1 DEF Started, Shaped, Same
<1>4. ASSUME NEW f, NEW r, NEW e, NEW S, NewRoot(store, S, root, f),
             Cut(S, store', f, 1, root, r, e), root_dir_node_id' = f,
             Len(store'[root].fdes) = H, Len(store'[r].fdes) = H,
             call' = Called("add", file, file.fhash, f, store')
      PROVE  Started
  <2>1. /\ S \in Stores /\ f \in Id \ Nodes(store) /\ Nodes(S) = Nodes(store) \cup {f}
        /\ \A j \in Id \ {f} : S[j] = store[j]
        /\ S[f].leaf = FALSE /\ S[f].fdes = << >> /\ S[f].cobj = << root >>
    BY <1>4 DEF NewRoot
  <2>2. Branches(S[f]) /\ Distinct(S[f].cobj) /\ Kids(S, f) = {root} /\ Len(S[f].fdes) = 0
    <3>1. Len(S[f].fdes) = 0 /\ Len(S[f].cobj) = 1 /\ S[f].cobj[1] = root
      BY <2>1
    <3>2. Elems(S[f].cobj) = {root}
      BY <3>1 DEF Elems
    <3> QED BY <2>1, <3>1, <3>2 DEF Branches, Distinct, Kids
  <2>3. \A j \in Nodes(store) : S[j] = store[j] /\ j # f
    BY <2>1 DEF Nodes
  <2>14. PICK g : g = [j \in Nodes(store) \cup {f} |-> IF j = f THEN h[root] + 1 ELSE h[j]]
    OBVIOUS
  <2>4. g[f] = h[root] + 1 /\ \A j \in Nodes(store) : g[j] = h[j]
    BY <2>3, <2>14
  <2>16. Above(store, S, root, f, h, g)
    BY <2>1, <2>2, <2>3, <2>4 DEF Above
  <2>5. Rooted(S, f, g)
    BY <1>2, <2>16, RootAdded
  <2>15. PICK k : k = CutHeights(S, g, root, r)
    OBVIOUS
  <2>6. r \notin Nodes(S) /\ root \in Nodes(S)
    BY <1>2, <1>4, <2>1 DEF Cut
  <2>7. k[r] = g[root] /\ \A j \in Nodes(S) : k[j] = g[j]
    BY <2>6, <2>15, CutHeightsAre
  <2>8. Rooted(store', f, k)
    BY <1>4, <2>5, <2>7, CutRooted
  <2>9. H \in Nat \ {0} /\ Dir_Node_Degree = 2 * H + 1
    BY Geometry
  <2>10. \A j \in Nodes(S) \ {f, root} : SizeOK(S, f, j)
    <3>1. \A j \in Nodes(store) : SizeOK(store, root, j)
      BY <1>2, SizedIs
    <3> QED BY <2>1, <2>3, <3>1 DEF SizeOK
  <2>11. Sized(store', f)
    <3>1. Len(S[f].fdes) < Dir_Node_Degree
      BY <2>2, <2>9
    <3> QED BY <1>4, <2>10, <3>1, CutSized
  <2>12. f \in Nodes(store') /\ Len(store'[f].fdes) < Dir_Node_Degree
    <3>1. CutLengths(S, store', f, root, r) /\ f \in Nodes(store')
      BY <1>4, CutLengthsAre
    <3> QED BY <2>2, <2>9, <3>1 DEF CutLengths
  <2>13. CallOK(store', f, call')
    BY <1>2, <1>4, <2>12, AddOK
  <2> QED BY <1>4, <2>8, <2>11, <2>13 DEF Started, Shaped
<1> QED BY <1>1, <1>3, <1>4

LEMMA DelFileShaped ==
    ASSUME NEW h, Shaped(store, root_dir_node_id, call, h), NEW file \in Request, DelFile(file)
    PROVE  Started
<1> DEFINE root == root_dir_node_id
<1>1. Same /\ call' = Called("del", file, file.fhash, root, store')
  BY DelFileDoes
<1>2. Rooted(store, root, h) /\ Sized(store, root) /\ root \in Nodes(store)
  BY DEF Shaped, Rooted
<1>3. file.fhash \in Fhash
  BY DEF Request
<1>4. CallOK(store', root_dir_node_id', call')
  BY <1>1, <1>2, <1>3, DelOK DEF Same
<1> QED BY <1>1, <1>2, <1>4 DEF Started, Shaped, Same

LEMMA DelCallIs ==
    ASSUME NEW h, Shaped(store, root_dir_node_id, call, h), call.op = "del"
    PROVE  /\ call.file \in Request /\ call.fhash \in Fhash
           /\ Rooted(store, root_dir_node_id, h) /\ Sized(store, root_dir_node_id)
           /\ call.id \in Nodes(store)
           /\ call.id = root_dir_node_id \/ Len(store[call.id].fdes) > H
BY AtNodeIs DEF Shaped, AtNode, CallOK, NoCall

LEMMA DeleteBelowShaped ==
    ASSUME NEW h, Shaped(store, root_dir_node_id, call, h), DeleteBelow
    PROVE  NextShaped(h)
<1>1. PICK p, i, c :
        /\ AtInner(h, p, i) /\ ~Found /\ Same
        /\ KidIs(store, root_dir_node_id, h, p, i, c) /\ Len(store[c].fdes) > H
        /\ call' = Called("del", call.file, call.fhash, c, store')
  BY DeleteBelowDoes
<1>2. call.op = "del" /\ p = call.id /\ c \in Nodes(store) /\ h[c] = h[p] - 1
  BY <1>1 DEF AtInner, KidIs
<1>3. /\ call.file \in Request /\ call.fhash \in Fhash
      /\ Rooted(store, root_dir_node_id, h) /\ Sized(store, root_dir_node_id)
  BY <1>2, DelCallIs
<1> QED BY <1>1, <1>2, <1>3, DelsDown DEF Same

\* One node changes an entry.
LEMMA SetShape ==
    ASSUME NEW S, NEW T, NEW p, NEW i, NEW e, Set(S, T, p, i, e), NEW root, NEW h, Rooted(S, root, h), Sized(S, root)
    PROVE  Rooted(T, root, h) /\ Sized(T, root)
<1>1. Nodes(S) \subseteq Id
  BY DEF Nodes
<1>2. Reentered(S, T)
  BY <1>1 DEF Set, Reentered
<1>3. Rooted(T, root, h)
  BY <1>2, ReenteredRooted
<1>4. \A j \in Nodes(S) : T[j].leaf = S[j].leaf /\ Len(T[j].fdes) = Len(S[j].fdes)
  BY <1>1 DEF Set
<1>5. Nodes(T) = Nodes(S)
  BY DEF Set
<1> QED BY <1>3, <1>4, <1>5 DEF Sized

LEMMA ReplaceShaped ==
    ASSUME NEW h, Shaped(store, root_dir_node_id, call, h), NEW p, NEW i, NEW k, NEW c, NEW e \in Entry, AtInner(h, p, i),
           KidIs(store, root_dir_node_id, h, p, k, c), Len(store[c].fdes) > H,
           Set(store, store', p, i, e), root_dir_node_id' = root_dir_node_id,
           call' = Called("del", call.file, e.fhash, c, store')
    PROVE  NextShaped(h)
<1>2. call.op = "del" /\ p = call.id /\ c \in Nodes(store) /\ h[c] = h[p] - 1 /\ c # p
  BY DEF AtInner, KidIs
<1>3. /\ call.file \in Request /\ call.fhash \in Fhash
      /\ Rooted(store, root_dir_node_id, h) /\ Sized(store, root_dir_node_id)
  BY <1>2, DelCallIs
<1>4. Rooted(store', root_dir_node_id, h) /\ Sized(store', root_dir_node_id)
  BY <1>3, SetShape
<1>5. c \in Nodes(store') /\ store'[c] = store[c]
  BY <1>2 DEF Set, Nodes
<1>6. e.fhash \in Fhash
  BY EntryIs
<1> QED BY <1>2, <1>3, <1>4, <1>5, <1>6, DelsDown

LEMMA ReplaceByMaxShaped ==
    ASSUME NEW h, Shaped(store, root_dir_node_id, call, h), ReplaceByMax
    PROVE  NextShaped(h)
<1>1. PICK p, i, c :
        /\ AtInner(h, p, i) /\ i \in 1 .. Len(store[p].fdes) /\ store[p].fdes[i].fhash = call.fhash
        /\ KidIs(store, root_dir_node_id, h, p, i, c) /\ Len(store[c].fdes) > H
        /\ Set(store, store', p, i, MaxOf(c)) /\ root_dir_node_id' = root_dir_node_id
        /\ call' = Called("del", call.file, MaxOf(c).fhash, c, store')
  BY ReplaceByMaxDoes
<1>2. MaxOf(c) \in Entry
  BY <1>1 DEF Set
<1> QED BY <1>1, <1>2, ReplaceShaped

LEMMA ReplaceByMinShaped ==
    ASSUME NEW h, Shaped(store, root_dir_node_id, call, h), ReplaceByMin
    PROVE  NextShaped(h)
<1>1. PICK p, i, c :
        /\ AtInner(h, p, i) /\ i \in 1 .. Len(store[p].fdes) /\ store[p].fdes[i].fhash = call.fhash
        /\ KidIs(store, root_dir_node_id, h, p, i + 1, c) /\ Len(store[c].fdes) > H
        /\ Set(store, store', p, i, MinOf(c)) /\ root_dir_node_id' = root_dir_node_id
        /\ call' = Called("del", call.file, MinOf(c).fhash, c, store')
  BY ReplaceByMinDoes
<1>2. MinOf(c) \in Entry
  BY <1>1 DEF Set
<1> QED BY <1>1, <1>2, ReplaceShaped

\* What both directions of a shift leave alone.
Shifted(S, T, p, a, b) ==
    /\ Nodes(T) = Nodes(S) /\ \A j \in Nodes(S) : T[j].leaf = S[j].leaf
    /\ \A j \in Nodes(S) \ {p, a, b} : T[j] = S[j]
    /\ a \in Nodes(S) /\ b \in Nodes(S) /\ p \in Nodes(S)

LEMMA ShiftedIs ==
    ASSUME NEW S, NEW T, NEW p, NEW i, NEW l, NEW r, NEW e, NEW f, NEW c, Shift(S, T, p, i, l, r, e, f, c)
    PROVE  Shifted(S, T, p, l, r) /\ Shifted(T, S, p, r, l)
BY DEF Shift, Shifted, Nodes

LEMMA BorrowLeftShaped ==
    ASSUME InPlace, NEW h, Shaped(store, root_dir_node_id, call, h), BorrowLeft
    PROVE  NextShaped(h)
<1> DEFINE root == root_dir_node_id
<1>1. PICK p, i, l, r, e, f, c :
        /\ AtInner(h, p, i + 1) /\ ~Found /\ root_dir_node_id' = root
        /\ KidIs(store, root, h, p, i, l) /\ Len(store[l].fdes) > H
        /\ KidIs(store, root, h, p, i + 1, r)
        /\ Shift(store, store', p, i, l, r, e, f, c) /\ Lengths(store, store', p, l, r)
        /\ call' = Called("del", call.file, call.fhash, r, store')
  BY BorrowLeftDoes
<1>2. call.op = "del" /\ p = call.id /\ r \in Nodes(store) /\ h[r] = h[p] - 1 /\ Len(store[r].fdes) >= H
      /\ Len(store[r].fdes) \in Nat
  <2>1. call.op = "del" /\ p = call.id
    BY <1>1 DEF AtInner
  <2>2. /\ r \in Nodes(store) /\ h[r] = h[p] - 1
        /\ Len(store[r].fdes) \in H .. 2 * H + 1 /\ Len(store[r].fdes) \in Nat
    BY <1>1 DEF KidIs
  <2> QED BY <2>1, <2>2, Geometry
<1>3. /\ call.file \in Request /\ call.fhash \in Fhash
      /\ Rooted(store, root, h) /\ Sized(store, root)
  BY <1>2, DelCallIs
<1>4. Len(store[r].fdes) <= H
  <2>1. ~SparesChild(Place)
    BY DEF BorrowLeft, TooFew
  <2>2. i + 1 = Place /\ store[p].cobj[i + 1] = r /\ (SparesChild(i + 1) <=> Len(store[r].fdes) > H)
    <3>1. r = store[p].cobj[i + 1]
      BY <1>1 DEF KidIs
    <3>2. /\ i + 1 = Place /\ i + 1 \in 1 .. Len(store[p].fdes) + 1
          /\ \A k \in 1 .. Len(store[p].fdes) + 1 : SparesChild(k) <=> Len(store[store[p].cobj[k]].fdes) > H
      BY <1>1 DEF AtInner
    <3> QED BY <3>1, <3>2
  <2>3. ~ (Len(store[r].fdes) > H)
    BY <2>1, <2>2
  <2> QED BY <1>2, <2>3, Geometry
<1>5. Shifted(store, store', p, l, r)
  BY <1>1, ShiftedIs
<1>6. Sized(store', root) /\ Len(store'[r].fdes) > H
  BY <1>1, <1>2, <1>3, <1>4, <1>5, LentSized DEF Shifted
<1>7. Rooted(store', root, h)
  BY <1>1, <1>3, ShiftRooted
<1>8. r \in Nodes(store')
  BY <1>5 DEF Shifted
<1> QED BY <1>1, <1>2, <1>3, <1>6, <1>7, <1>8, DelsDown

LEMMA BorrowRightShaped ==
    ASSUME InPlace, NEW h, Shaped(store, root_dir_node_id, call, h), BorrowRight
    PROVE  NextShaped(h)
<1> DEFINE root == root_dir_node_id
<1>1. PICK p, i, l, r, e, f, c :
        /\ AtInner(h, p, i) /\ ~Found /\ root_dir_node_id' = root
        /\ KidIs(store, root, h, p, i, l) /\ Len(store[r].fdes) > H
        /\ KidIs(store, root, h, p, i + 1, r)
        /\ Shift(store', store, p, i, l, r, e, f, c) /\ Lengths(store, store', p, r, l)
        /\ call' = Called("del", call.file, call.fhash, l, store')
  BY BorrowRightDoes
<1>2. call.op = "del" /\ p = call.id /\ l \in Nodes(store) /\ h[l] = h[p] - 1 /\ Len(store[l].fdes) >= H
      /\ Len(store[l].fdes) \in Nat
  <2>1. call.op = "del" /\ p = call.id
    BY <1>1 DEF AtInner
  <2>2. /\ l \in Nodes(store) /\ h[l] = h[p] - 1
        /\ Len(store[l].fdes) \in H .. 2 * H + 1 /\ Len(store[l].fdes) \in Nat
    BY <1>1 DEF KidIs
  <2> QED BY <2>1, <2>2, Geometry
<1>3. /\ call.file \in Request /\ call.fhash \in Fhash
      /\ Rooted(store, root, h) /\ Sized(store, root)
  BY <1>2, DelCallIs
<1>4. Len(store[l].fdes) <= H
  <2>1. ~SparesChild(Place)
    BY DEF BorrowRight, TooFew
  <2>2. i = Place /\ store[p].cobj[i] = l /\ (SparesChild(i) <=> Len(store[l].fdes) > H)
    <3>1. l = store[p].cobj[i]
      BY <1>1 DEF KidIs
    <3>2. /\ i = Place /\ i \in 1 .. Len(store[p].fdes) + 1
          /\ \A k \in 1 .. Len(store[p].fdes) + 1 : SparesChild(k) <=> Len(store[store[p].cobj[k]].fdes) > H
      BY <1>1 DEF AtInner
    <3> QED BY <3>1, <3>2
  <2>3. ~ (Len(store[l].fdes) > H)
    BY <2>1, <2>2
  <2> QED BY <1>2, <2>3, Geometry
<1>5. Shifted(store, store', p, r, l)
  BY <1>1, ShiftedIs
<1>6. Sized(store', root) /\ Len(store'[l].fdes) > H
  BY <1>1, <1>2, <1>3, <1>4, <1>5, LentSized DEF Shifted
<1>7. Rooted(store', root, h)
  BY <1>1, <1>3, ShiftRooted
<1>8. l \in Nodes(store')
  BY <1>5 DEF Shifted
<1> QED BY <1>1, <1>2, <1>3, <1>6, <1>7, <1>8, DelsDown

LEMMA Deallocated ==
    ASSUME NEW T \in Stores, NEW p, NEW S, S = DeAlloc(T, p)
    PROVE  S \in Stores /\ Nodes(S) = Nodes(T) \ {p} /\ \A j \in Nodes(S) : S[j] = T[j]
<1>1. \A j \in Id : S[j] = IF j = p THEN Null ELSE T[j]
  BY DEF Stores, DeAlloc
<1>2. S \in Stores
  BY DEF Stores, DeAlloc
<1> QED BY <1>1, <1>2 DEF Nodes

LEMMA UnionShaped ==
    ASSUME NEW h, Shaped(store, root_dir_node_id, call, h), NEW p, NEW j, NEW i, NEW l, NEW r, NEW e, NEW T,
           AtInner(h, p, j), UnitedTo(h, p, i, l, r, e, T),
           Len(store[l].fdes) = H, Len(store[r].fdes) = H
    PROVE  NextShaped(h)
<1> DEFINE root == root_dir_node_id
<1>1. call.op = "del" /\ p = call.id /\ p \in Nodes(store) /\ ~store[p].leaf
  BY DEF AtInner
<1>2. /\ call.file \in Request /\ call.fhash \in Fhash
      /\ Rooted(store, root, h) /\ Sized(store, root) /\ (p = root \/ Len(store[p].fdes) > H)
  BY <1>1, DelCallIs
<1>3. /\ Cut(T, store, p, i, l, r, e) /\ Len(T[p].fdes) = Len(store[p].fdes) - 1
      /\ \/ /\ Len(T[p].fdes) > 0 /\ store' = T /\ root_dir_node_id' = root
         \/ /\ Len(T[p].fdes) = 0 /\ store' = DeAlloc(T, p) /\ root_dir_node_id' = l
      /\ call' = Called("del", call.file, call.fhash, l, store')
  BY DEF UnitedTo
<1>4. h[l] = h[p] - 1
  BY DEF UnitedTo, KidIs
<1>5. Rooted(T, root, h)
  BY <1>2, <1>3, UncutRooted
<1>6. /\ \A k \in Nodes(T) \ {p} : SizeOK(T, root, k)
      /\ SizeOK(T, l, l) /\ Len(T[l].fdes) > H
      /\ p # root /\ Len(store[p].fdes) > H => SizeOK(T, root, p)
      /\ Len(T[p].fdes) > 0 /\ p = root => SizeOK(T, root, p)
  BY <1>2, <1>3, UncutSized
<1>7. /\ CutLengths(T, store, p, l, r) /\ p # l /\ T[p].leaf = store[p].leaf /\ T \in Stores
      /\ p \in Nodes(T) /\ l \in Nodes(T) /\ i \in 1 .. Len(T[p].cobj) /\ T[p].cobj[i] = l
  <2>1. CutLengths(T, store, p, l, r) /\ p # l /\ store[p].leaf = T[p].leaf
    BY <1>3, CutLengthsAre
  <2>2. Cut(T, store, p, i, l, r, e)
    BY <1>3
  <2>3. /\ T \in Stores /\ p \in Nodes(T) /\ l \in Nodes(T) /\ i \in 1 .. Len(T[p].cobj) /\ T[p].cobj[i] = l
    BY <2>2 DEF Cut
  <2> QED BY <2>1, <2>3
<1>8. CASE Len(T[p].fdes) > 0 /\ store' = T /\ root_dir_node_id' = root
  <2>1. SizeOK(T, root, p)
    BY <1>2, <1>6, <1>8
  <2>2. Sized(T, root)
    BY <1>6, <2>1, SizedIs
  <2> QED BY <1>1, <1>2, <1>3, <1>4, <1>5, <1>6, <1>7, <1>8, <2>2, DelsDown
<1>9. CASE Len(T[p].fdes) = 0 /\ store' = DeAlloc(T, p) /\ root_dir_node_id' = l
  <2>1. Len(store[p].fdes) = 1
    BY <1>7, <1>9 DEF CutLengths
  <2>2. p = root
    BY <1>2, <2>1, Geometry
  <2>3. Len(T[p].cobj) = 1
    <3>1. h[p] > 0 /\ (h[p] > 0 => Len(T[p].cobj) = Len(T[p].fdes) + 1)
      BY <1>1, <1>5, <1>7, RootedIs
    <3> QED BY <1>9, <3>1
  <2>4. Kids(T, root) = {l}
    <3>1. i = 1 /\ 1 .. Len(T[p].cobj) = {1}
      BY <1>7, <2>3
    <3> QED BY <1>7, <2>2, <3>1 DEF Kids, Elems
  <2>5. /\ store' \in Stores /\ Nodes(store') = Nodes(T) \ {root} /\ \A k \in Nodes(store') : store'[k] = T[k]
    BY <1>7, <1>9, <2>2, Deallocated
  <2>6. Rooted(store', l, h)
    BY <1>5, <2>4, <2>5, RootDropped
  <2>7. Sized(store', l)
    <3>1. \A k \in Nodes(T) \ {p} : SizeOK(T, l, k)
      BY <1>6, <2>2 DEF SizeOK
    <3>2. \A k \in Nodes(store') : SizeOK(store', l, k)
      BY <2>2, <2>5, <3>1 DEF SizeOK
    <3> QED BY <3>2, SizedIs
  <2>8. l \in Nodes(store')
    BY <1>7, <2>2, <2>5
  <2>9. call' = Called("del", call.file, call.fhash, l, store')
    BY <1>3
  <2> QED BY <1>1, <1>2, <1>4, <1>9, <2>6, <2>7, <2>8, <2>9, DelsDown
<1> QED BY <1>3, <1>8, <1>9

LEMMA UnionFoundShaped ==
    ASSUME InPlace, NEW h, Shaped(store, root_dir_node_id, call, h), UnionFound
    PROVE  NextShaped(h)
<1>1. PICK p, i, l, r, e, T :
        /\ AtInner(h, p, i) /\ store[p].fdes[i].fhash = call.fhash
        /\ UnitedTo(h, p, i, l, r, e, T)
        /\ Len(store[l].fdes) = H /\ Len(store[r].fdes) = H
  BY UnionFoundDoes
<1> QED BY <1>1, UnionShaped

LEMMA UnionBelowShaped ==
    ASSUME InPlace, NEW h, Shaped(store, root_dir_node_id, call, h), UnionBelow
    PROVE  NextShaped(h)
<1>1. PICK p, i, j, l, r, e, T :
        /\ AtInner(h, p, j) /\ ~Found /\ (i = j \/ i = j - 1)
        /\ UnitedTo(h, p, i, l, r, e, T)
        /\ Len(store[l].fdes) = H /\ Len(store[r].fdes) = H
  BY UnionBelowDoes
<1> QED BY <1>1, UnionShaped

LEMMA StepShaped ==
    ASSUME InPlace, NEW h, Shaped(store, root_dir_node_id, call, h), HasRoom, Step
    PROVE  NextShaped(h)
BY InsertIntoLeafShaped, InsertBelowShaped, DeleteFromLeafShaped, ReplaceByMaxShaped, ReplaceByMinShaped,
   DeleteBelowShaped, BorrowLeftShaped, BorrowRightShaped, UnionFoundShaped, UnionBelowShaped DEF Step

(***************************************************************************)
(* The nodes of the tree, from the root down.                              *)
(***************************************************************************)
LEMMA ChildrenAre ==
    ASSUME NEW root, NEW h, Rooted(store, root, h), NEW ids \in SUBSET Nodes(store)
    PROVE  Children(ids) = UNION {Kids(store, i) : i \in ids}
<1>1. {i \in ids \cap Id : store[i] # Null} = ids
  BY DEF Nodes
<1>2. ASSUME NEW i \in ids PROVE Range(store[i].cobj) = Kids(store, i)
  <2>1. store[i] \in TreeNode
    BY RootedIs
  <2>2. DOMAIN store[i].cobj = 1 .. Len(store[i].cobj)
    BY <2>1, NodeIs
  <2> QED BY <2>2 DEF Range, Kids, Elems
<1>3. {Range(store[id].cobj) : id \in ids} = {Kids(store, i) : i \in ids}
  BY <1>2
<1> QED BY <1>1, <1>3, Zenon DEF Children

\* The nodes of one height, and those not below it.
AtHeight(h, n)  == {i \in Nodes(store) : h[i] = n}
NotBelow(h, n) == {i \in Nodes(store) : h[i] >= n}

LEMMA HeightSteps ==
    ASSUME NEW root, NEW h, Rooted(store, root, h)
    PROVE  /\ AtHeight(h, h[root]) = {root} /\ NotBelow(h, h[root]) = {root}
           /\ \A n \in Int : /\ Children(AtHeight(h, n)) = AtHeight(h, n - 1) \ {root}
                             /\ Children(NotBelow(h, n)) = NotBelow(h, n - 1) \ {root}
<1>1. root \in Nodes(store) /\ h[root] \in Nat /\ \A i \in Nodes(store) : h[i] \in Nat /\ h[i] <= h[root]
  BY DEF Rooted
<1>2. \A i \in Nodes(store) : \A c \in Kids(store, i) : c \in Nodes(store) /\ c # root /\ h[c] = h[i] - 1
  BY DEF Rooted
<1>3. \A c \in Nodes(store) \ {root} : \E i \in Nodes(store) : c \in Kids(store, i)
  BY DEF Rooted
<1>4. \A c \in Nodes(store) : h[c] >= h[root] => c = root
  BY <1>1, <1>2, <1>3
<1>5. AtHeight(h, h[root]) = {root} /\ NotBelow(h, h[root]) = {root}
  BY <1>1, <1>4 DEF AtHeight, NotBelow
<1>6. ASSUME NEW n \in Int PROVE Children(AtHeight(h, n)) = AtHeight(h, n - 1) \ {root}
  <2>1. Children(AtHeight(h, n)) = UNION {Kids(store, i) : i \in AtHeight(h, n)}
    BY ChildrenAre DEF AtHeight
  <2>2. UNION {Kids(store, i) : i \in AtHeight(h, n)} \subseteq AtHeight(h, n - 1) \ {root}
    BY <1>2 DEF AtHeight
  <2>3. ASSUME NEW c \in AtHeight(h, n - 1) \ {root} PROVE \E i \in AtHeight(h, n) : c \in Kids(store, i)
    <3>1. PICK i \in Nodes(store) : c \in Kids(store, i)
      BY <1>3 DEF AtHeight
    <3> QED BY <1>1, <1>2, <3>1 DEF AtHeight
  <2> QED BY <2>1, <2>2, <2>3
<1>7. ASSUME NEW n \in Int PROVE Children(NotBelow(h, n)) = NotBelow(h, n - 1) \ {root}
  <2>1. Children(NotBelow(h, n)) = UNION {Kids(store, i) : i \in NotBelow(h, n)}
    BY ChildrenAre DEF NotBelow
  <2>2. UNION {Kids(store, i) : i \in NotBelow(h, n)} \subseteq NotBelow(h, n - 1) \ {root}
    BY <1>1, <1>2 DEF NotBelow
  <2>3. ASSUME NEW c \in NotBelow(h, n - 1) \ {root} PROVE \E i \in NotBelow(h, n) : c \in Kids(store, i)
    <3>1. PICK i \in Nodes(store) : c \in Kids(store, i)
      BY <1>3 DEF NotBelow
    <3> QED BY <1>1, <1>2, <3>1 DEF NotBelow
  <2> QED BY <2>1, <2>2, <2>3
<1> QED BY <1>5, <1>6, <1>7

LEMMA LevelIs ==
    ASSUME NEW root, NEW h, Rooted(store, root, h), root = root_dir_node_id
    PROVE  \A d \in 0 .. Height : Level[d] = AtHeight(h, h[root] - d)
<1> DEFINE level[d \in 0 .. Height] == IF d = 0 THEN {root_dir_node_id} ELSE Children(level[d - 1])
           Eq(f) == f = [d \in 0 .. Height |-> IF d = 0 THEN {root} ELSE Children(f[d - 1])]
           g == [d \in 0 .. Height |-> AtHeight(h, h[root] - d)]
<1>1. h[root] \in Nat
  BY DEF Rooted
<1>2. AtHeight(h, h[root]) = {root}
  BY HeightSteps
<1>3. \A d \in 1 .. Height : AtHeight(h, h[root] - d) = Children(AtHeight(h, h[root] - (d - 1))) /\ d - 1 \in 0 .. Height
  <2> TAKE d \in 1 .. Height
  <2>1. PICK n \in Int : n = h[root] - (d - 1) /\ n - 1 = h[root] - d /\ n - 1 < h[root]
    BY <1>1
  <2>2. Children(AtHeight(h, n)) = AtHeight(h, n - 1) \ {root}
    BY HeightSteps
  <2>3. root \notin AtHeight(h, n - 1)
    BY <1>1, <2>1 DEF AtHeight
  <2> QED BY <2>1, <2>2, <2>3, HeightIs
<1>4. Eq(g)
  <2>1. \A d \in 0 .. Height : g[d] = IF d = 0 THEN {root} ELSE Children(g[d - 1])
    <3> TAKE d \in 0 .. Height
    <3>1. CASE d = 0
      BY <1>1, <1>2, <3>1
    <3>2. CASE d # 0
      <4>1. d \in 1 .. Height
        BY <3>2, HeightIs
      <4> QED BY <1>3, <3>2, <4>1
    <3> QED BY <3>1, <3>2
  <2> QED BY <2>1
<1>5. Eq(level)
  BY <1>4
<1> HIDE DEF level
<1>6. \A d \in 0 .. Height : level[d] = IF d = 0 THEN {root} ELSE Children(level[d - 1])
  BY <1>5
<1>7. \A d \in 0 .. Height : level[d] = g[d]
  <2>1. level[0] = g[0]
    <3>1. 0 \in 0 .. Height /\ h[root] - 0 = h[root]
      BY <1>1, HeightIs
    <3> QED BY <1>2, <1>6, <3>1
  <2>2. ASSUME NEW d \in 1 .. Height, level[d - 1] = g[d - 1] PROVE level[d] = g[d]
    <3>1. d \in 0 .. Height /\ d # 0 /\ d - 1 \in 0 .. Height
      BY HeightIs
    <3> QED BY <1>3, <1>6, <2>2, <3>1
  <2> HIDE DEF g
  <2> QED BY <2>1, <2>2, HeightIs, SameUpTo
<1> QED BY <1>7 DEF level, Level

LEMMA TreeIs ==
    ASSUME NEW root, NEW h, Rooted(store, root, h), h[root] <= Height, root = root_dir_node_id
    PROVE  Tree = Nodes(store)
<1> DEFINE down[d \in 0 .. Height] == IF d = 0 THEN {root_dir_node_id} ELSE WithChildren(down[d - 1])
           Eq(f) == f = [d \in 0 .. Height |-> IF d = 0 THEN {root} ELSE WithChildren(f[d - 1])]
           g == [d \in 0 .. Height |-> NotBelow(h, h[root] - d)]
<1>1. h[root] \in Nat /\ root \in Nodes(store) /\ \A i \in Nodes(store) : h[i] \in Nat
  BY DEF Rooted
<1>2. NotBelow(h, h[root]) = {root}
  BY HeightSteps
<1>3. \A d \in 1 .. Height : NotBelow(h, h[root] - d) = WithChildren(NotBelow(h, h[root] - (d - 1))) /\ d - 1 \in 0 .. Height
  <2> TAKE d \in 1 .. Height
  <2>1. PICK n \in Int : n = h[root] - (d - 1) /\ n - 1 = h[root] - d /\ n <= h[root]
    BY <1>1
  <2>2. Children(NotBelow(h, n)) = NotBelow(h, n - 1) \ {root}
    BY HeightSteps
  <2>3. root \in NotBelow(h, n) /\ NotBelow(h, n) \subseteq NotBelow(h, n - 1)
    BY <1>1, <2>1 DEF NotBelow
  <2> QED BY <2>1, <2>2, <2>3, HeightIs DEF WithChildren
<1>4. Eq(g)
  <2>1. \A d \in 0 .. Height : g[d] = IF d = 0 THEN {root} ELSE WithChildren(g[d - 1])
    <3> TAKE d \in 0 .. Height
    <3>1. CASE d = 0
      BY <1>1, <1>2, <3>1
    <3>2. CASE d # 0
      <4>1. d \in 1 .. Height
        BY <3>2, HeightIs
      <4> QED BY <1>3, <3>2, <4>1
    <3> QED BY <3>1, <3>2
  <2> QED BY <2>1
<1>5. Eq(down)
  BY <1>4
<1> HIDE DEF down
<1>6. \A d \in 0 .. Height : down[d] = IF d = 0 THEN {root} ELSE WithChildren(down[d - 1])
  BY <1>5
<1>7. \A d \in 0 .. Height : down[d] = g[d]
  <2>1. down[0] = g[0]
    <3>1. 0 \in 0 .. Height /\ h[root] - 0 = h[root]
      BY <1>1, HeightIs
    <3> QED BY <1>2, <1>6, <3>1
  <2>2. ASSUME NEW d \in 1 .. Height, down[d - 1] = g[d - 1] PROVE down[d] = g[d]
    <3>1. d \in 0 .. Height /\ d # 0 /\ d - 1 \in 0 .. Height
      BY HeightIs
    <3> QED BY <1>3, <1>6, <2>2, <3>1
  <2> HIDE DEF g
  <2> QED BY <2>1, <2>2, HeightIs, SameUpTo
<1>8. Tree = down[Height]
  BY DEF Tree, down
<1>9. NotBelow(h, h[root] - Height) = Nodes(store) /\ Height \in 0 .. Height
  BY <1>1, HeightIs DEF NotBelow
<1> QED BY <1>7, <1>8, <1>9

(***************************************************************************)
(* The shape as an invariant.                                              *)
(***************************************************************************)
TreeShape == \E h : Shaped(store, root_dir_node_id, call, h)

LEMMA InitShaped == Init => TreeShape
<1> SUFFICES ASSUME Init PROVE TreeShape
  OBVIOUS
<1>1. PICK e : e = [leaf |-> TRUE, fdes |-> << >>, cobj |-> << >>]
  OBVIOUS
<1>2. root_dir_node_id = 1 /\ call = NoCall /\ store = [i \in Id |-> IF i = 1 THEN e ELSE Null]
  BY <1>1 DEF Init
<1>3. 1 \in Id
  BY Geometry DEF Id
<1>4. /\ e \in TreeNode /\ e # Null /\ e.leaf = TRUE /\ e.fdes = << >> /\ e.cobj = << >>
      /\ Len(e.fdes) = 0 /\ Len(e.cobj) = 0
  <2>1. << >> \in Seq(Entry) /\ << >> \in Seq(Id)
    OBVIOUS
  <2>2. e \in TreeNode /\ e.leaf = TRUE /\ e.fdes = << >> /\ e.cobj = << >>
    BY <1>1, <2>1 DEF TreeNode
  <2> QED BY <2>2, NodeIs
<1>5. Nodes(store) = {1} /\ store[1] = e /\ store \in [Id -> TreeNode \cup {Null}]
  BY <1>2, <1>3, <1>4 DEF Nodes
<1>6. Kids(store, 1) = {} /\ Branches(e) /\ Distinct(e.cobj)
  BY <1>4, <1>5 DEF Kids, Elems, Branches, Distinct
<1> PICK h : h = [i \in {1} |-> 0]
  OBVIOUS
<1>7. Rooted(store, 1, h)
  BY <1>4, <1>5, <1>6 DEF Rooted
<1>8. Sized(store, 1)
  BY <1>4, <1>5, Geometry DEF Sized
<1> QED BY <1>2, <1>7, <1>8, NoneOK DEF TreeShape, Shaped

LEMMA RequestsAre == ASSUME NEW fhash \in Fhash PROVE [fhash |-> fhash, mobj_id |-> NoFile] \in Request
BY DEF Request

LEMMA NextKeepsShape ==
    ASSUME InPlace, TreeShape, HasRoom, [Next]_vars
    PROVE  TreeShape'
<1> PICK h : Shaped(store, root_dir_node_id, call, h)
  BY DEF TreeShape
<1>1. Started => TreeShape'
  BY DEF Started, TreeShape
<1>2. CASE Step
  BY <1>2, StepShaped DEF NextShaped, TreeShape
<1>3. ASSUME NEW f \in New, AddNewFile(f) PROVE TreeShape'
  BY <1>1, <1>3, AddNewFileShaped
<1>4. ASSUME NEW fhash \in Fhash, DelFile([fhash |-> fhash, mobj_id |-> NoFile]) PROVE TreeShape'
  BY <1>1, <1>4, RequestsAre, DelFileShaped
<1>5. CASE UNCHANGED vars
  BY <1>5 DEF TreeShape, vars
<1> QED BY <1>2, <1>3, <1>4, <1>5 DEF Next

(***************************************************************************)
(* What the shape gives.                                                   *)
(***************************************************************************)
LEMMA ShapeGivesRoom == TreeShape /\ HasRoom => CallsHaveRoom
<1> SUFFICES ASSUME NEW h, Shaped(store, root_dir_node_id, call, h), HasRoom PROVE CallsHaveRoom
  BY DEF TreeShape
<1>1. CallOK(store, root_dir_node_id, call)
  BY DEF Shaped
<1> QED BY <1>1, NoCallIs DEF CallOK, CallsHaveRoom

LEMMA ShapeGivesTree ==
    ASSUME NEW h, Shaped(store, root_dir_node_id, call, h)
    PROVE  Tree = Nodes(store) /\ h[root_dir_node_id] <= Height
<1>1. h[root_dir_node_id] <= Height
  BY HeightBound DEF Shaped
<1> QED BY <1>1, TreeIs DEF Shaped

LEMMA ShapeLosesNone == TreeShape => NoNodeLost
<1> SUFFICES ASSUME NEW h, Shaped(store, root_dir_node_id, call, h) PROVE NoNodeLost
  BY DEF TreeShape
<1>1. Tree = Nodes(store) /\ Rooted(store, root_dir_node_id, h)
  BY ShapeGivesTree DEF Shaped
<1>2. Id \ Free(store) = Nodes(store)
  BY DEF Free, Nodes
<1>3. ASSUME NEW i \in Nodes(store), NEW j \in Nodes(store),
             NEW k \in DOMAIN store[i].cobj, NEW l \in DOMAIN store[j].cobj,
             store[i].cobj[k] = store[j].cobj[l]
      PROVE  i = j /\ k = l
  <2>1. k \in 1 .. Len(store[i].cobj) /\ l \in 1 .. Len(store[j].cobj)
    BY <1>1, RootedIs, NodeIs
  <2>2. store[i].cobj[k] \in Kids(store, i) /\ store[i].cobj[k] \in Kids(store, j)
    BY <1>3, <2>1 DEF Kids, Elems
  <2>3. i = j
    BY <1>1, <2>2 DEF Rooted
  <2>4. Distinct(store[i].cobj)
    BY <1>1 DEF Rooted
  <2> QED BY <1>3, <2>1, <2>3, <2>4 DEF Distinct
<1> QED BY <1>1, <1>2, <1>3 DEF NoNodeLost

LEMMA ToComeIs ==
    \A h : Shaped(store, root_dir_node_id, call, h) =>
             CallsToCome = IF call = NoCall THEN 0 ELSE 1 + h[call.id]
<1> TAKE h
<1> HAVE Shaped(store, root_dir_node_id, call, h)
<1>1. CASE call = NoCall
  BY <1>1 DEF CallsToCome
<1>2. CASE call # NoCall
  <2>1. call.id \in Nodes(store) /\ Rooted(store, root_dir_node_id, h) /\ h[root_dir_node_id] <= Height
    BY <1>2, ShapeGivesTree DEF Shaped, CallOK
  <2>2. LevelsBelow(call.id) = h[call.id]
    BY <2>1, LevelsBelowIs
  <2> QED BY <1>2, <2>2 DEF CallsToCome
<1> QED BY <1>1, <1>2

LEMMA ToComeNext ==
    \A h : Shaped(store', root_dir_node_id', call', h) =>
             CallsToCome' = IF call' = NoCall THEN 0 ELSE 1 + h[call'.id]
<1>1. (\A h : Shaped(store, root_dir_node_id, call, h) =>
                CallsToCome = IF call = NoCall THEN 0 ELSE 1 + h[call.id])'
  BY ToComeIs, PTL
<1> QED BY <1>1

LEMMA NextGoesDown ==
    ASSUME InPlace, TreeShape, HasRoom, [Next]_vars
    PROVE  [call # NoCall => CallsToCome' = CallsToCome - 1]_vars
<1> SUFFICES ASSUME Next, call # NoCall PROVE CallsToCome' = CallsToCome - 1
  OBVIOUS
<1>0. PICK h : Shaped(store, root_dir_node_id, call, h)
  BY DEF TreeShape
<1>1. Step
  BY DEF Next, AddNewFile, DelFile
<1>2. PICK g : Shaped(store', root_dir_node_id', call', g) /\ GoesDown(call, h, call', g)
  BY <1>0, <1>1, StepShaped DEF NextShaped
<1>3. CallsToCome = 1 + h[call.id]
  BY <1>0, ToComeIs
<1>4. CallsToCome' = IF call' = NoCall THEN 0 ELSE 1 + g[call'.id]
  BY <1>2, ToComeNext
<1>5. h[call.id] \in Nat
  <2>1. call.id \in Nodes(store)
    BY <1>0 DEF Shaped, CallOK
  <2> QED BY <1>0, <2>1 DEF Shaped, Rooted
<1> QED BY <1>2, <1>3, <1>4, <1>5 DEF GoesDown

(***************************************************************************)
(* Theorems.                                                               *)
(***************************************************************************)

\* Every state has a shape, as long as alloc_obj finds an object for each node
\* that is split off.
THEOREM ShapeTheorem == InPlace /\ Spec /\ []HasRoom => []TreeShape
<1> SUFFICES ASSUME InPlace PROVE Spec /\ []HasRoom => []TreeShape
  OBVIOUS
<1>1. TreeShape /\ HasRoom /\ [Next]_vars => TreeShape'
  BY NextKeepsShape
<1> QED BY <1>1, InitShaped, PTL DEF Spec

\* insert_not_full is never called for a full node, nor delete_not_half for
\* one at half its degree unless it is the root: no operation overflows the
\* arrays of a node.
THEOREM CallsHaveRoomTheorem == InPlace /\ Spec /\ []HasRoom => []CallsHaveRoom
BY ShapeTheorem, ShapeGivesRoom, PTL

\* The objects allocated are the nodes of the tree, each with one parent:
\* union_child and split_child leak none and free none still in use.
THEOREM NoNodeLostTheorem == InPlace /\ Spec /\ []HasRoom => []NoNodeLost
BY ShapeTheorem, ShapeLosesNone, PTL

\* Each call of insert_not_full and delete_not_half is made for a node one
\* level down, also when the root goes: a request ends after as many calls as
\* the tree is high.
THEOREM CallsGoDownTheorem == InPlace /\ Spec /\ []HasRoom => CallsGoDown
<1> SUFFICES ASSUME InPlace PROVE Spec /\ []HasRoom => CallsGoDown
  OBVIOUS
<1>1. TreeShape /\ HasRoom /\ [Next]_vars => [call # NoCall => CallsToCome' = CallsToCome - 1]_vars
  BY NextGoesDown
<1> QED BY <1>1, ShapeTheorem, PTL DEF Spec, CallsGoDown

(***************************************************************************)
(* The order: I[i] are the names that may be at node i or below it.        *)
(***************************************************************************)
NameAt(x, k) == x.fdes[k].fhash

Sorted(x) == \A j, k \in 1 .. Len(x.fdes) : j < k => NameAt(x, j) < NameAt(x, k)

\* The names that belong to child k of node x.
Gap(x, k) ==
    {n \in Fhash : \A j \in 1 .. Len(x.fdes) :
       (j < k => NameAt(x, j) < n) /\ (k <= j => n < NameAt(x, j))}

Holding(x, n) == \E k \in 1 .. Len(x.fdes) : NameAt(x, k) = n

Ordered(S, root, I) ==
    /\ I[root] = Fhash
    /\ \A i \in Nodes(S) : Sorted(S[i]) /\ \A k \in 1 .. Len(S[i].fdes) : NameAt(S[i], k) \in I[i]
    /\ \A i \in Nodes(S) : \A k \in 1 .. Len(S[i].cobj) : I[S[i].cobj[k]] = I[i] \cap Gap(S[i], k)

LEMMA NamesAre ==
    ASSUME NEW x \in TreeNode, NEW k \in 1 .. Len(x.fdes)
    PROVE  NameAt(x, k) \in Fhash /\ NameAt(x, k) \in Nat /\ x.fdes[k] \in Entry
BY NodeIs, EntryIs DEF NameAt

LEMMA FhashIs == \A n \in Fhash : n \in Nat
BY Geometry

\* The place PlaceOf counts is the one before which are the smaller names.
LEMMA PlaceIs ==
    ASSUME NEW x \in TreeNode, Sorted(x), NEW n \in Fhash, NEW i, i = PlaceOf(x, n)
    PROVE  i \in 1 .. Len(x.fdes) + 1 /\ \A j \in 1 .. Len(x.fdes) : NameAt(x, j) < n <=> j < i
<1> DEFINE m == Len(x.fdes)
           A == {j \in 1 .. m : NameAt(x, j) < n}
<1>1. m \in Nat /\ DOMAIN x.fdes = 1 .. m /\ n \in Nat
  BY NodeIs, FhashIs
<1>2. i = 1 + Cardinality(A)
  BY <1>1 DEF PlaceOf, NameAt
<1>3. \A k \in A : \A j \in 1 .. k : j \in A
  <2> TAKE k \in A
  <2> TAKE j \in 1 .. k
  <2>1. j \in 1 .. m /\ k \in 1 .. m /\ NameAt(x, k) < n /\ (j = k \/ j < k)
    BY <1>1
  <2>2. NameAt(x, j) \in Nat /\ NameAt(x, k) \in Nat
    BY <2>1, NamesAre
  <2>3. NameAt(x, j) < n
    BY <1>1, <2>1, <2>2 DEF Sorted
  <2> QED BY <2>1, <2>3
<1> HIDE DEF m
<1>4. A \in SUBSET (1 .. m)
  OBVIOUS
<1> HIDE DEF A
<1>5. \A k \in 1 .. m : k \in A <=> k < 1 + Cardinality(A)
  BY <1>1, <1>3, <1>4, FirstOnes
<1>6. i \in 1 .. m + 1
  BY PlacesAre DEF m
<1>7. \A k \in 1 .. m : k \in A <=> NameAt(x, k) < n
  BY DEF A
<1> QED BY <1>2, <1>5, <1>6, <1>7 DEF m

LEMMA PlaceAfterIs ==
    ASSUME NEW x \in TreeNode, Sorted(x), NEW n \in Fhash, NEW i, i = PlaceAfter(x, n)
    PROVE  i \in 1 .. Len(x.fdes) + 1 /\ \A j \in 1 .. Len(x.fdes) : NameAt(x, j) <= n <=> j < i
<1> DEFINE m == Len(x.fdes)
           A == {j \in 1 .. m : NameAt(x, j) <= n}
<1>1. m \in Nat /\ DOMAIN x.fdes = 1 .. m /\ n \in Nat
  BY NodeIs, FhashIs
<1>2. i = 1 + Cardinality(A)
  BY <1>1 DEF PlaceAfter, NameAt
<1>3. \A k \in A : \A j \in 1 .. k : j \in A
  <2> TAKE k \in A
  <2> TAKE j \in 1 .. k
  <2>1. j \in 1 .. m /\ k \in 1 .. m /\ NameAt(x, k) <= n /\ (j = k \/ j < k)
    BY <1>1
  <2>2. NameAt(x, j) \in Nat /\ NameAt(x, k) \in Nat
    BY <2>1, NamesAre
  <2>3. NameAt(x, j) <= n
    BY <1>1, <2>1, <2>2 DEF Sorted
  <2> QED BY <2>1, <2>3
<1> HIDE DEF m
<1>4. A \in SUBSET (1 .. m)
  OBVIOUS
<1> HIDE DEF A
<1>5. \A k \in 1 .. m : k \in A <=> k < 1 + Cardinality(A)
  BY <1>1, <1>3, <1>4, FirstOnes
<1>6. i \in 1 .. m + 1
  BY PlacesAre DEF m
<1>7. \A k \in 1 .. m : k \in A <=> NameAt(x, k) <= n
  BY DEF A
<1> QED BY <1>2, <1>5, <1>6, <1>7 DEF m

\* A name the node does not hold belongs to the child at its place.
LEMMA PlaceGap ==
    ASSUME NEW x \in TreeNode, Sorted(x), NEW n \in Fhash
    PROVE  /\ Holds(x, PlaceOf(x, n), n) <=> Holding(x, n)
           /\ ~Holding(x, n) => n \in Gap(x, PlaceOf(x, n)) /\ n \in Gap(x, PlaceAfter(x, n))
<1>0. PICK i, a : i = PlaceOf(x, n) /\ a = PlaceAfter(x, n)
  OBVIOUS
<1>1. i \in 1 .. Len(x.fdes) + 1 /\ \A j \in 1 .. Len(x.fdes) : NameAt(x, j) < n <=> j < i
  BY <1>0, PlaceIs
<1>2. a \in 1 .. Len(x.fdes) + 1 /\ \A j \in 1 .. Len(x.fdes) : NameAt(x, j) <= n <=> j < a
  BY <1>0, PlaceAfterIs
<1>3. Len(x.fdes) \in Nat /\ n \in Nat /\ \A j \in 1 .. Len(x.fdes) : NameAt(x, j) \in Nat
  BY NodeIs, NamesAre, FhashIs
<1>4. Holds(x, i, n) => Holding(x, n)
  BY <1>1, <1>3 DEF Holds, Holding, NameAt
<1>5. ASSUME NEW k \in 1 .. Len(x.fdes), NameAt(x, k) = n PROVE k = i
  <2>1. ~ (k < i)
    BY <1>1, <1>3, <1>5
  <2>2. ~ (i < k)
    <3> SUFFICES ASSUME i < k PROVE FALSE
      OBVIOUS
    <3>1. i \in 1 .. Len(x.fdes)
      BY <1>1, <1>3
    <3>2. NameAt(x, i) < NameAt(x, k)
      BY <3>1 DEF Sorted
    <3> QED BY <1>1, <1>3, <1>5, <3>1, <3>2
  <2> QED BY <1>1, <1>3, <2>1, <2>2
<1>6. Holding(x, n) => Holds(x, i, n)
  BY <1>3, <1>5 DEF Holds, Holding, NameAt
<1>7. ASSUME ~Holding(x, n) PROVE n \in Gap(x, i) /\ n \in Gap(x, a)
  <2>1. \A j \in 1 .. Len(x.fdes) : NameAt(x, j) # n
    BY <1>7 DEF Holding
  <2> QED BY <1>1, <1>2, <1>3, <2>1 DEF Gap
<1> QED BY <1>0, <1>4, <1>6, <1>7

LEMMA GapsApart ==
    ASSUME NEW x \in TreeNode, NEW k \in 1 .. Len(x.fdes) + 1, NEW l \in 1 .. Len(x.fdes) + 1,
           NEW n \in Gap(x, k), n \in Gap(x, l)
    PROVE  k = l
<1>1. Len(x.fdes) \in Nat /\ n \in Nat /\ \A j \in 1 .. Len(x.fdes) : NameAt(x, j) \in Nat
  BY NodeIs, NamesAre, FhashIs DEF Gap
<1>2. ~(k < l)
  <2> SUFFICES ASSUME k < l PROVE FALSE
    OBVIOUS
  <2>1. k \in 1 .. Len(x.fdes) /\ k <= k
    BY <1>1
  <2>2. NameAt(x, k) < n /\ n < NameAt(x, k)
    BY <2>1 DEF Gap
  <2> QED BY <1>1, <2>1, <2>2
<1>3. ~(l < k)
  <2> SUFFICES ASSUME l < k PROVE FALSE
    OBVIOUS
  <2>1. l \in 1 .. Len(x.fdes) /\ l <= l
    BY <1>1
  <2>2. NameAt(x, l) < n /\ n < NameAt(x, l)
    BY <2>1 DEF Gap
  <2> QED BY <1>1, <2>1, <2>2
<1> QED BY <1>1, <1>2, <1>3

LEMMA GapHasNone ==
    ASSUME NEW x \in TreeNode, NEW k \in 1 .. Len(x.fdes) + 1, NEW n \in Gap(x, k)
    PROVE  ~Holding(x, n)
<1>1. Len(x.fdes) \in Nat /\ n \in Nat /\ \A j \in 1 .. Len(x.fdes) : NameAt(x, j) \in Nat
  BY NodeIs, NamesAre, FhashIs DEF Gap
<1> SUFFICES ASSUME NEW j \in 1 .. Len(x.fdes), NameAt(x, j) = n PROVE FALSE
  BY DEF Holding
<1>2. j < k \/ k <= j
  BY <1>1
<1> QED BY <1>1, <1>2 DEF Gap

(***************************************************************************)
(* Every name belongs to at most one node of each height, and is held by   *)
(* at most one node.                                                       *)
(***************************************************************************)
\* Node i is child k of node p.
IsKid(S, h, p, k, i) ==
    /\ p \in Nodes(S) /\ k \in 1 .. Len(S[p].cobj) /\ k \in 1 .. Len(S[p].fdes) + 1
    /\ S[p].cobj[k] = i /\ h[p] = h[i] + 1 /\ h[i] \in Nat /\ S[p] \in TreeNode /\ ~S[p].leaf

LEMMA ParentIs ==
    ASSUME NEW S, NEW root, NEW h, Rooted(S, root, h), NEW i \in Nodes(S), i # root
    PROVE  \E p, k : IsKid(S, h, p, k, i)
<1>1. PICK p \in Nodes(S) : i \in Kids(S, p)
  BY DEF Rooted
<1>2. PICK k \in 1 .. Len(S[p].cobj) : S[p].cobj[k] = i
  BY <1>1 DEF Kids, Elems
<1>3. h[i] \in Nat /\ h[p] \in Nat /\ h[i] = h[p] - 1
  BY <1>2, RootedIs
<1>4. h[p] = h[i] + 1 /\ h[p] > 0
  BY <1>3
<1>5. Len(S[p].cobj) = Len(S[p].fdes) + 1 /\ S[p] \in TreeNode /\ ~S[p].leaf
  BY <1>4, RootedIs
<1> QED BY <1>2, <1>3, <1>4, <1>5 DEF IsKid

LEMMA KidIn ==
    ASSUME NEW S, NEW root, NEW I, Ordered(S, root, I), NEW h, NEW p, NEW k, NEW i, IsKid(S, h, p, k, i)
    PROVE  I[i] = I[p] \cap Gap(S[p], k) /\ \A n \in I[i] : ~Holding(S[p], n)
<1>1. I[i] = I[p] \cap Gap(S[p], k)
  BY DEF Ordered, IsKid
<1>2. \A n \in Gap(S[p], k) : ~Holding(S[p], n)
  BY GapHasNone DEF IsKid
<1> QED BY <1>1, <1>2

LEMMA OneAtHeight ==
    ASSUME NEW S, NEW root, NEW h, Rooted(S, root, h), NEW I, Ordered(S, root, I),
           NEW i \in Nodes(S), NEW j \in Nodes(S), h[i] = h[j], NEW n \in I[i], n \in I[j]
    PROVE  i = j
<1> DEFINE Good == {d \in 0 .. h[root] : \A a, b \in Nodes(S) :
                      h[a] = h[root] - d /\ h[b] = h[root] - d /\ n \in I[a] /\ n \in I[b] => a = b}
<1>1. h[root] \in Nat /\ \A a \in Nodes(S) : h[a] \in Nat /\ h[a] <= h[root]
  BY DEF Rooted
<1>2. \A a \in Nodes(S) : a # root => \E p, k : IsKid(S, h, p, k, a)
  BY ParentIs
<1>3. 0 \in Good
  <2> SUFFICES ASSUME NEW a \in Nodes(S), h[a] = h[root] PROVE a = root
    BY <1>1
  <2> SUFFICES ASSUME a # root PROVE FALSE
    OBVIOUS
  <2>1. PICK p, k : IsKid(S, h, p, k, a)
    BY <1>2
  <2>2. p \in Nodes(S) /\ h[p] = h[a] + 1
    BY <2>1 DEF IsKid
  <2> QED BY <1>1, <2>2
<1>4. ASSUME NEW d \in 1 .. h[root], d - 1 \in Good PROVE d \in Good
  <2> SUFFICES ASSUME NEW a \in Nodes(S), NEW b \in Nodes(S), h[a] = h[root] - d, h[b] = h[root] - d,
                      n \in I[a], n \in I[b]
               PROVE  a = b
    OBVIOUS
  <2>1. a # root /\ b # root
    BY <1>1
  <2>2. PICK p, k : IsKid(S, h, p, k, a)
    BY <1>2, <2>1
  <2>3. PICK q, l : IsKid(S, h, q, l, b)
    BY <1>2, <2>1
  <2>4. n \in I[p] /\ n \in Gap(S[p], k)
    BY <2>2, KidIn
  <2>5. n \in I[q] /\ n \in Gap(S[q], l)
    BY <2>3, KidIn
  <2>6. p = q
    <3>1. p \in Nodes(S) /\ q \in Nodes(S) /\ h[p] = h[a] + 1 /\ h[q] = h[b] + 1
      BY <2>2, <2>3 DEF IsKid
    <3>2. h[p] = h[root] - (d - 1) /\ h[q] = h[root] - (d - 1)
      BY <1>1, <3>1
    <3> QED BY <1>4, <2>4, <2>5, <3>1, <3>2
  <2>7. k = l
    <3>1. S[p] \in TreeNode /\ k \in 1 .. Len(S[p].fdes) + 1 /\ l \in 1 .. Len(S[p].fdes) + 1
      BY <2>2, <2>3, <2>6 DEF IsKid
    <3> QED BY <2>4, <2>5, <2>6, <3>1, GapsApart
  <2> QED BY <2>2, <2>3, <2>6, <2>7 DEF IsKid
<1> HIDE DEF Good
<1>5. \A d \in 0 .. h[root] : d \in Good
  BY <1>1, <1>3, <1>4, UpTo
<1>6. h[root] - h[i] \in 0 .. h[root] /\ h[root] - (h[root] - h[i]) = h[i]
  BY <1>1
<1>7. h[root] - h[i] \in Good
  BY <1>5, <1>6
<1> QED BY <1>6, <1>7 DEF Good

\* A name that belongs to a node is in no node above it.
LEMMA NoneAbove ==
    ASSUME NEW S, NEW root, NEW h, Rooted(S, root, h), NEW I, Ordered(S, root, I),
           NEW i \in Nodes(S), NEW m \in Nodes(S), h[i] < h[m], NEW n \in I[i]
    PROVE  ~Holding(S[m], n)
<1> SUFFICES ASSUME Holding(S[m], n) PROVE FALSE
  OBVIOUS
<1> DEFINE Good == {d \in 0 .. h[m] : d > 0 => \A a \in Nodes(S) : h[a] = h[m] - d => n \notin I[a]}
<1>1. h[m] \in Nat /\ h[i] \in Nat /\ h[m] <= h[root] /\ h[root] \in Nat /\ \A a \in Nodes(S) : h[a] \in Nat
  BY DEF Rooted
<1>2. \A a \in Nodes(S) : a # root => \E p, k : IsKid(S, h, p, k, a)
  BY ParentIs
<1>3. n \in I[m]
  BY DEF Ordered, Holding
<1>4. 0 \in Good
  BY <1>1
<1>5. ASSUME NEW d \in 1 .. h[m], d - 1 \in Good PROVE d \in Good
  <2> SUFFICES ASSUME NEW a \in Nodes(S), h[a] = h[m] - d, n \in I[a] PROVE FALSE
    BY <1>1
  <2>1. a # root
    BY <1>1
  <2>2. PICK p, k : IsKid(S, h, p, k, a)
    BY <1>2, <2>1
  <2>3. p \in Nodes(S) /\ h[p] = h[m] - (d - 1)
    BY <1>1, <2>2 DEF IsKid
  <2>4. n \in I[p] /\ ~Holding(S[p], n)
    BY <2>2, KidIn
  <2>5. CASE d = 1
    <3>1. h[p] = h[m]
      BY <1>1, <2>3, <2>5
    <3>2. p = m
      BY <1>3, <2>3, <2>4, <3>1, OneAtHeight
    <3> QED BY <2>4, <3>2
  <2>6. CASE d # 1
    BY <1>5, <2>3, <2>4, <2>6
  <2> QED BY <2>5, <2>6
<1> HIDE DEF Good
<1>6. \A d \in 0 .. h[m] : d \in Good
  BY <1>1, <1>4, <1>5, UpTo
<1>7. h[m] - h[i] \in 0 .. h[m] /\ h[m] - h[i] > 0 /\ h[m] - (h[m] - h[i]) = h[i]
  BY <1>1
<1>8. h[m] - h[i] \in Good
  BY <1>6, <1>7
<1> QED BY <1>7, <1>8 DEF Good

\* A name that belongs to a leaf is there or below it or nowhere.
LEMMA AtLeaf ==
    ASSUME NEW S, NEW root, NEW h, Rooted(S, root, h), NEW I, Ordered(S, root, I),
           NEW i \in Nodes(S), h[i] = 0, NEW n \in I[i], NEW m \in Nodes(S), Holding(S[m], n)
    PROVE  m = i
<1>1. h[m] \in Nat
  BY DEF Rooted
<1>2. n \in I[m]
  BY DEF Ordered, Holding
<1>3. ~ (0 < h[m])
  BY NoneAbove
<1> QED BY <1>1, <1>2, <1>3, OneAtHeight

LEMMA NameOnce ==
    ASSUME NEW S, NEW root, NEW h, Rooted(S, root, h), NEW I, Ordered(S, root, I),
           NEW i \in Nodes(S), NEW j \in Nodes(S),
           NEW k \in 1 .. Len(S[i].fdes), NEW l \in 1 .. Len(S[j].fdes), NameAt(S[i], k) = NameAt(S[j], l)
    PROVE  i = j /\ k = l
<1>0. PICK n : n = NameAt(S[i], k)
  OBVIOUS
<1>1. n \in I[i] /\ n \in I[j] /\ Holding(S[i], n) /\ Holding(S[j], n)
  BY <1>0 DEF Ordered, Holding
<1>2. h[i] \in Nat /\ h[j] \in Nat
  BY DEF Rooted
<1>3. ~(h[i] < h[j]) /\ ~(h[j] < h[i])
  BY <1>1, NoneAbove
<1>4. i = j
  BY <1>1, <1>2, <1>3, OneAtHeight
<1>5. S[i] \in TreeNode /\ Sorted(S[i])
  BY RootedIs DEF Ordered
<1>6. k \in Nat /\ l \in Nat /\ n \in Nat
  BY <1>0, <1>4, <1>5, NodeIs, NamesAre
<1>7. ~(k < l) /\ ~(l < k)
  BY <1>0, <1>4, <1>5, <1>6 DEF Sorted
<1> QED BY <1>4, <1>6, <1>7

(***************************************************************************)
(* Finding.                                                                *)
(***************************************************************************)
FilesIn(S) == UNION {Elems(S[i].fdes) : i \in Nodes(S)}

Toward(S, n) == [m \in Nodes(S) |-> KidToward(S, n, m)]

Answer(x, n) ==
    IF Holds(x, PlaceOf(x, n), n) THEN x.fdes[PlaceOf(x, n)].mobj_id ELSE NoFile

LEMMA FilesAre ==
    ASSUME NEW h, Shaped(store, root_dir_node_id, call, h)
    PROVE  Files = FilesIn(store)
<1>1. Tree = Nodes(store) /\ Rooted(store, root_dir_node_id, h)
  BY ShapeGivesTree DEF Shaped
<1>2. {i \in Tree \cap Id : store[i] # Null} = Nodes(store)
  BY <1>1 DEF Nodes
<1>3. ASSUME NEW i \in Nodes(store) PROVE Range(store[i].fdes) = Elems(store[i].fdes)
  <2>1. store[i] \in TreeNode
    BY <1>1, RootedIs
  <2>2. DOMAIN store[i].fdes = 1 .. Len(store[i].fdes)
    BY <2>1, NodeIs
  <2> QED BY <2>2 DEF Range, Elems
<1>4. {Range(store[id].fdes) : id \in Nodes(store)} = {Elems(store[i].fdes) : i \in Nodes(store)}
  BY <1>3
<1> QED BY <1>2, <1>4, Zenon DEF Files, FilesIn

LEMMA FileIsAt ==
    \A S, f : f \in FilesIn(S) <=> \E i \in Nodes(S) : \E k \in 1 .. Len(S[i].fdes) : S[i].fdes[k] = f
BY DEF FilesIn, Elems

LEMMA AnswerIs ==
    ASSUME NEW x \in TreeNode, Sorted(x), NEW n \in Fhash
    PROVE  /\ \A k \in 1 .. Len(x.fdes) : NameAt(x, k) = n => Answer(x, n) = x.fdes[k].mobj_id
           /\ ~Holding(x, n) => Answer(x, n) = NoFile
<1>1. Holds(x, PlaceOf(x, n), n) <=> Holding(x, n)
  BY PlaceGap
<1>2. ASSUME NEW k \in 1 .. Len(x.fdes), NameAt(x, k) = n PROVE Answer(x, n) = x.fdes[k].mobj_id
  <2>1. PICK i : i = PlaceOf(x, n)
    OBVIOUS
  <2>2. i \in 1 .. Len(x.fdes) + 1 /\ Holds(x, i, n)
    BY <1>1, <1>2, <2>1, PlacesAre DEF Holding
  <2>3. i \in 1 .. Len(x.fdes) /\ NameAt(x, i) = n /\ Len(x.fdes) \in Nat /\ n \in Nat
    BY <2>2, NodeIs, FhashIs DEF Holds, NameAt
  <2>4. ~(i < k) /\ ~(k < i)
    BY <1>2, <2>3 DEF Sorted
  <2>5. i = k
    BY <2>3, <2>4
  <2> QED BY <2>1, <2>2, <2>5 DEF Answer
<1> QED BY <1>1, <1>2 DEF Answer

LEMMA TowardIs ==
    ASSUME NEW S, NEW root, NEW h, Rooted(S, root, h), NEW n, NEW m \in Nodes(S)
    PROVE  /\ Toward(S, n)[m] \in Nodes(S)
           /\ S[m].leaf \/ Holds(S[m], PlaceOf(S[m], n), n) => Toward(S, n)[m] = m
           /\ ~S[m].leaf /\ ~Holds(S[m], PlaceOf(S[m], n), n) =>
                /\ IsKid(S, h, m, PlaceOf(S[m], n), Toward(S, n)[m])
                /\ Child(S, S[m], PlaceOf(S[m], n)) = S[Toward(S, n)[m]]
<1>0. PICK i : i = PlaceOf(S[m], n)
  OBVIOUS
<1>1. Toward(S, n)[m] = IF S[m].leaf \/ Holds(S[m], i, n) THEN m ELSE S[m].cobj[i]
  BY <1>0 DEF Toward, KidToward
<1>2. S[m] \in TreeNode /\ h[m] \in Nat /\ (h[m] = 0 <=> S[m].leaf)
  BY RootedIs
<1>3. ASSUME ~S[m].leaf
      PROVE  /\ i \in 1 .. Len(S[m].cobj) /\ i \in 1 .. Len(S[m].fdes) + 1
             /\ S[m].cobj[i] \in Nodes(S) /\ h[S[m].cobj[i]] = h[m] - 1
             /\ Child(S, S[m], i) = S[S[m].cobj[i]]
  <2>1. h[m] > 0
    BY <1>2, <1>3
  <2>2. Len(S[m].cobj) = Len(S[m].fdes) + 1
    BY <2>1, RootedIs
  <2>3. i \in 1 .. Len(S[m].fdes) + 1
    BY <1>0, <1>2, PlacesAre
  <2>4. i \in 1 .. Len(S[m].cobj)
    BY <2>2, <2>3
  <2>5. S[m].cobj[i] \in Nodes(S) /\ h[S[m].cobj[i]] = h[m] - 1
    BY <2>4, RootedIs
  <2>6. Child(S, S[m], i) = S[S[m].cobj[i]]
    BY <2>4, ChildIs
  <2> QED BY <2>3, <2>4, <2>5, <2>6
<1>4. ASSUME ~S[m].leaf, ~Holds(S[m], i, n)
      PROVE  IsKid(S, h, m, i, Toward(S, n)[m]) /\ Child(S, S[m], i) = S[Toward(S, n)[m]]
  <2>1. Toward(S, n)[m] = S[m].cobj[i]
    BY <1>1, <1>4
  <2>2. h[S[m].cobj[i]] = h[m] - 1 /\ h[m] # 0
    BY <1>2, <1>3, <1>4
  <2> QED BY <1>2, <1>3, <1>4, <2>1, <2>2 DEF IsKid
<1> QED BY <1>0, <1>1, <1>3, <1>4

\* Where the search for a name ends.
LEMMA SearchEnds ==
    ASSUME NEW S, NEW root, NEW h, Rooted(S, root, h), h[root] <= Height, NEW I, Ordered(S, root, I),
           NEW n \in Fhash, NEW w, IsWalk(w, Height, root, Toward(S, n))
    PROVE  LET e == w[Height]
           IN  e \in Nodes(S) /\ n \in I[e] /\ (h[e] = 0 \/ Holding(S[e], n))
<1> DEFINE Good == {d \in 0 .. Height : /\ w[d] \in Nodes(S) /\ n \in I[w[d]]
                                        /\ h[w[d]] <= h[root] - d \/ h[w[d]] = 0 \/ Holding(S[w[d]], n)}
<1>1. h[root] \in Nat /\ root \in Nodes(S) /\ \A a \in Nodes(S) : h[a] \in Nat
  BY DEF Rooted
<1>2. w[0] = root /\ \A d \in 1 .. Height : w[d] = Toward(S, n)[w[d - 1]] /\ d - 1 \in 0 .. Height /\ d \in 0 .. Height
  BY HeightIs, WalkSteps
<1>3. 0 \in Good
  BY <1>1, <1>2, HeightIs DEF Ordered
<1>4. ASSUME NEW d \in 1 .. Height, d - 1 \in Good PROVE d \in Good
  <2>1. PICK m : m = w[d - 1]
    OBVIOUS
  <2>2. m \in Nodes(S) /\ n \in I[m] /\ (h[m] <= h[root] - (d - 1) \/ h[m] = 0 \/ Holding(S[m], n))
    BY <1>4, <2>1
  <2>3. w[d] = Toward(S, n)[m] /\ d \in 0 .. Height
    BY <1>2, <2>1
  <2>4. S[m] \in TreeNode /\ Sorted(S[m]) /\ (h[m] = 0 <=> S[m].leaf)
    BY <2>2, RootedIs DEF Ordered
  <2>5. Holds(S[m], PlaceOf(S[m], n), n) <=> Holding(S[m], n)
    BY <2>4, PlaceGap
  <2>6. CASE S[m].leaf \/ Holding(S[m], n)
    <3>1. w[d] = m
      BY <2>2, <2>3, <2>5, <2>6, TowardIs
    <3> QED BY <2>2, <2>3, <2>4, <2>6, <3>1
  <2>7. CASE ~S[m].leaf /\ ~Holding(S[m], n)
    <3>1. IsKid(S, h, m, PlaceOf(S[m], n), w[d]) /\ w[d] \in Nodes(S)
      BY <2>2, <2>3, <2>5, <2>7, TowardIs
    <3>2. n \in Gap(S[m], PlaceOf(S[m], n))
      BY <2>4, <2>7, PlaceGap
    <3>3. n \in I[w[d]]
      BY <2>2, <3>1, <3>2, KidIn
    <3>4. h[m] = h[w[d]] + 1 /\ h[w[d]] \in Nat
      BY <3>1 DEF IsKid
    <3>5. h[m] <= h[root] - (d - 1)
      BY <2>2, <2>4, <2>7
    <3>6. h[w[d]] <= h[root] - d
      BY <1>1, <3>4, <3>5
    <3> QED BY <2>3, <3>1, <3>3, <3>6
  <2> QED BY <2>6, <2>7
<1> HIDE DEF Good
<1>5. \A d \in 0 .. Height : d \in Good
  BY <1>3, <1>4, HeightIs, UpTo
<1>6. Height \in Good
  BY <1>5, HeightIs
<1>7. w[Height] \in Nodes(S) /\ n \in I[w[Height]]
      /\ (h[w[Height]] <= h[root] - Height \/ h[w[Height]] = 0 \/ Holding(S[w[Height]], n))
  BY <1>6 DEF Good
<1>8. h[w[Height]] <= h[root] - Height => h[w[Height]] = 0
  BY <1>1, <1>7, HeightIs
<1> QED BY <1>7, <1>8

LEMMA SearchAnswers ==
    ASSUME NEW S, NEW root, NEW h, Rooted(S, root, h), h[root] <= Height, NEW I, Ordered(S, root, I),
           NEW n \in Fhash, NEW w, IsWalk(w, Height, root, Toward(S, n))
    PROVE  /\ \A f \in FilesIn(S) : f.fhash = n => Answer(S[w[Height]], n) = f.mobj_id
           /\ (\A f \in FilesIn(S) : f.fhash # n) => Answer(S[w[Height]], n) = NoFile
<1>0. PICK e : e = w[Height]
  OBVIOUS
<1>1. e \in Nodes(S) /\ n \in I[e] /\ (h[e] = 0 \/ Holding(S[e], n))
  BY <1>0, SearchEnds
<1>2. S[e] \in TreeNode /\ Sorted(S[e])
  BY <1>1, RootedIs DEF Ordered
<1>3. ASSUME NEW f \in FilesIn(S), f.fhash = n PROVE Answer(S[e], n) = f.mobj_id
  <2>1. PICK i \in Nodes(S) : \E k \in 1 .. Len(S[i].fdes) : S[i].fdes[k] = f
    BY FileIsAt
  <2>4. PICK k \in 1 .. Len(S[i].fdes) : S[i].fdes[k] = f
    BY <2>1
  <2>2. NameAt(S[i], k) = n /\ Holding(S[i], n)
    BY <1>3, <2>4 DEF NameAt, Holding
  <2>3. i = e
    <3>1. CASE h[e] = 0
      BY <1>1, <2>2, <3>1, AtLeaf
    <3>2. CASE Holding(S[e], n)
      <4>1. PICK l \in 1 .. Len(S[e].fdes) : NameAt(S[e], l) = n
        BY <3>2 DEF Holding
      <4> QED BY <1>1, <2>2, <4>1, NameOnce
    <3> QED BY <1>1, <3>1, <3>2
  <2> QED BY <1>2, <2>2, <2>3, <2>4, AnswerIs
<1>4. ASSUME \A f \in FilesIn(S) : f.fhash # n PROVE Answer(S[e], n) = NoFile
  <2>1. \A k \in 1 .. Len(S[e].fdes) : S[e].fdes[k] \in FilesIn(S)
    BY <1>1, FileIsAt
  <2>2. ~Holding(S[e], n)
    BY <1>4, <2>1 DEF Holding, NameAt
  <2> QED BY <1>2, <2>2, AnswerIs
<1> QED BY <1>0, <1>3, <1>4

LEMMA SearchWalk ==
    ASSUME NEW S, NEW root, NEW h, Rooted(S, root, h), NEW n
    PROVE  /\ \E w : IsWalk(w, Height, root, Toward(S, n))
           /\ \A w : IsWalk(w, Height, root, Toward(S, n)) => \A d \in 0 .. Height : w[d] \in Nodes(S)
<1>1. Toward(S, n) \in [Nodes(S) -> Nodes(S)]
  <2>1. \A m \in Nodes(S) : Toward(S, n)[m] \in Nodes(S)
    BY TowardIs
  <2> QED BY <2>1 DEF Toward
<1>2. root \in Nodes(S)
  BY DEF Rooted
<1>3. \E w : IsWalk(w, Height, root, Toward(S, n))
  BY <1>1, <1>2, HeightIs, WalksExist
<1>4. ASSUME NEW w, IsWalk(w, Height, root, Toward(S, n)) PROVE \A d \in 0 .. Height : w[d] \in Nodes(S)
  <2> DEFINE Good == {d \in 0 .. Height : w[d] \in Nodes(S)}
  <2>1. w[0] = root /\ \A d \in 1 .. Height : w[d] = Toward(S, n)[w[d - 1]] /\ d - 1 \in 0 .. Height /\ d \in 0 .. Height
    BY <1>4, HeightIs, WalkSteps
  <2>2. 0 \in Good
    BY <1>2, <2>1, HeightIs
  <2>3. ASSUME NEW d \in 1 .. Height, d - 1 \in Good PROVE d \in Good
    BY <1>1, <2>1, <2>3
  <2> HIDE DEF Good
  <2>4. \A d \in 0 .. Height : d \in Good
    BY <2>2, <2>3, HeightIs, UpTo
  <2> QED BY <2>4 DEF Good
<1> QED BY <1>3, <1>4

LEMMA StepDownIs ==
    ASSUME NEW root, NEW h, Rooted(store, root, h), NEW n, NEW m \in Nodes(store)
    PROVE  StepDown(store[m], n) = store[Toward(store, n)[m]]
<1>1. store[m] # Null
  BY DEF Nodes
<1>2. CASE store[m].leaf \/ Holds(store[m], PlaceOf(store[m], n), n)
  BY <1>1, <1>2, TowardIs DEF StepDown
<1>3. CASE ~store[m].leaf /\ ~Holds(store[m], PlaceOf(store[m], n), n)
  BY <1>1, <1>3, TowardIs DEF StepDown
<1> QED BY <1>2, <1>3

\* get_file_meta_obj_id gives what the node at the end of the search says.
LEMMA GetIs ==
    ASSUME NEW root, NEW h, Rooted(store, root, h), root = root_dir_node_id, NEW n,
           NEW w, IsWalk(w, Height, root, Toward(store, n))
    PROVE  get_file_meta_obj_id(n) = Answer(store[w[Height]], n)
<1> DEFINE down[d \in 0 .. Height] ==
             IF d = 0 THEN store[root_dir_node_id] ELSE StepDown(down[d - 1], n)
           Eq(f) == f = [d \in 0 .. Height |-> IF d = 0 THEN store[root] ELSE StepDown(f[d - 1], n)]
           g == [d \in 0 .. Height |-> store[w[d]]]
<1>1. w[0] = root /\ \A d \in 1 .. Height : w[d] = Toward(store, n)[w[d - 1]] /\ d - 1 \in 0 .. Height /\ d \in 0 .. Height
  BY HeightIs, WalkSteps
<1>2. \A d \in 0 .. Height : w[d] \in Nodes(store)
  BY SearchWalk
<1>3. \A d \in 1 .. Height : store[w[d]] = StepDown(store[w[d - 1]], n) /\ d - 1 \in 0 .. Height
  <2> TAKE d \in 1 .. Height
  <2>1. w[d - 1] \in Nodes(store) /\ w[d] = Toward(store, n)[w[d - 1]] /\ d - 1 \in 0 .. Height
    BY <1>1, <1>2
  <2> QED BY <2>1, StepDownIs
<1>4. Eq(g)
  <2>1. \A d \in 0 .. Height : g[d] = IF d = 0 THEN store[root] ELSE StepDown(g[d - 1], n)
    <3> TAKE d \in 0 .. Height
    <3>1. CASE d = 0
      BY <1>1, <3>1
    <3>2. CASE d # 0
      <4>1. d \in 1 .. Height
        BY <3>2, HeightIs
      <4> QED BY <1>3, <3>2, <4>1
    <3> QED BY <3>1, <3>2
  <2> QED BY <2>1
<1>5. Eq(down)
  BY <1>4
<1>9. get_file_meta_obj_id(n) = LET node == down[Height]
                                    i    == PlaceOf(node, n)
                                IN  IF node # Null /\ Holds(node, i, n) THEN node.fdes[i].mobj_id ELSE NoFile
  BY DEF get_file_meta_obj_id
<1> HIDE DEF down
<1>6. \A d \in 0 .. Height : down[d] = IF d = 0 THEN store[root] ELSE StepDown(down[d - 1], n)
  BY <1>5
<1>7. \A d \in 0 .. Height : down[d] = g[d]
  <2>1. down[0] = g[0]
    BY <1>1, <1>6, HeightIs
  <2>2. ASSUME NEW d \in 1 .. Height, down[d - 1] = g[d - 1] PROVE down[d] = g[d]
    <3>1. d \in 0 .. Height /\ d # 0 /\ d - 1 \in 0 .. Height
      BY HeightIs
    <3> QED BY <1>3, <1>6, <2>2, <3>1
  <2> HIDE DEF g
  <2> QED BY <2>1, <2>2, HeightIs, SameUpTo
<1>8. down[Height] = store[w[Height]] /\ store[w[Height]] # Null
  BY <1>2, <1>7, HeightIs DEF Nodes
<1> QED BY <1>8, <1>9 DEF Answer

(***************************************************************************)
(* The order in a node with one entry more.                                *)
(***************************************************************************)
\* Node y has the names of x and s, at place i.
MoreNames(x, y, i, s) ==
    /\ Len(x.fdes) \in Nat /\ i \in 1 .. Len(x.fdes) + 1 /\ Len(y.fdes) = Len(x.fdes) + 1
    /\ s \in Nat /\ s \in Fhash /\ NameAt(y, i) = s
    /\ \A j \in 1 .. Len(x.fdes) :
         /\ NameAt(x, j) \in Nat /\ NameAt(x, j) \in Fhash
         /\ j < i => NameAt(y, j) = NameAt(x, j)
         /\ i <= j => NameAt(y, j + 1) = NameAt(x, j)
    /\ \A k \in 1 .. Len(y.fdes) :
         /\ NameAt(y, k) \in Nat
         /\ k < i => k \in 1 .. Len(x.fdes)
         /\ i < k => k - 1 \in 1 .. Len(x.fdes) /\ i <= k - 1 /\ NameAt(y, k) = NameAt(x, k - 1)

LEMMA MoreNamesIs ==
    ASSUME NEW x \in TreeNode, NEW y \in TreeNode, NEW e \in Entry, NEW i \in 1 .. Len(x.fdes) + 1,
           IsInserted(y.fdes, x.fdes, i, e)
    PROVE  MoreNames(x, y, i, e.fhash)
<1> DEFINE m == Len(x.fdes)
<1>1. m \in Nat /\ Len(y.fdes) = m + 1 /\ i \in 1 .. m + 1 /\ e.fhash \in Fhash /\ e.fhash \in Nat
  BY NodeIs, EntryIs DEF IsInserted
<1>2. \A k \in 1 .. m + 1 : y.fdes[k] = IF k < i THEN x.fdes[k] ELSE IF k = i THEN e ELSE x.fdes[k - 1]
  BY DEF IsInserted
<1>3. \A j \in 1 .. m : NameAt(x, j) \in Nat /\ NameAt(x, j) \in Fhash
  BY NamesAre
<1>4. \A k \in 1 .. Len(y.fdes) : NameAt(y, k) \in Nat
  BY NamesAre
<1> HIDE DEF m
<1>5. NameAt(y, i) = e.fhash
  BY <1>1, <1>2 DEF NameAt
<1>6. ASSUME NEW j \in 1 .. m PROVE /\ j < i => NameAt(y, j) = NameAt(x, j)
                                    /\ i <= j => NameAt(y, j + 1) = NameAt(x, j)
  <2>1. j \in 1 .. m + 1 /\ j + 1 \in 1 .. m + 1 /\ (i <= j => ~(j + 1 < i) /\ j + 1 # i) /\ (j + 1) - 1 = j
    BY <1>1
  <2> QED BY <1>2, <2>1 DEF NameAt
<1>7. ASSUME NEW k \in 1 .. m + 1
      PROVE  /\ k < i => k \in 1 .. m
             /\ i < k => k - 1 \in 1 .. m /\ i <= k - 1 /\ NameAt(y, k) = NameAt(x, k - 1)
  BY <1>1, <1>2 DEF NameAt
<1> QED BY <1>1, <1>3, <1>4, <1>5, <1>6, <1>7 DEF MoreNames, m

LEMMA MoreSorted ==
    ASSUME NEW x, NEW y, NEW i, NEW s, MoreNames(x, y, i, s)
    PROVE  Sorted(y) <=> Sorted(x) /\ s \in Gap(x, i)
<1> DEFINE m == Len(x.fdes)
<1>0. /\ m \in Nat /\ i \in 1 .. m + 1 /\ Len(y.fdes) = m + 1 /\ s \in Nat /\ s \in Fhash /\ NameAt(y, i) = s
      /\ \A j \in 1 .. m : /\ NameAt(x, j) \in Nat
                           /\ j < i => NameAt(y, j) = NameAt(x, j)
                           /\ i <= j => NameAt(y, j + 1) = NameAt(x, j)
      /\ \A k \in 1 .. m + 1 :
           /\ NameAt(y, k) \in Nat
           /\ k < i => k \in 1 .. m
           /\ i < k => k - 1 \in 1 .. m /\ i <= k - 1 /\ NameAt(y, k) = NameAt(x, k - 1)
  BY DEF MoreNames
<1>1. Sorted(y) <=> \A j, k \in 1 .. m + 1 : j < k => NameAt(y, j) < NameAt(y, k)
  BY <1>0 DEF Sorted
<1>2. Sorted(x) <=> \A j, k \in 1 .. m : j < k => NameAt(x, j) < NameAt(x, k)
  BY DEF Sorted
<1>3. s \in Gap(x, i) <=> \A j \in 1 .. m : (j < i => NameAt(x, j) < s) /\ (i <= j => s < NameAt(x, j))
  BY <1>0 DEF Gap
<1> HIDE DEF m
<1>4. ASSUME Sorted(y) PROVE Sorted(x)
  <2> SUFFICES ASSUME NEW j \in 1 .. m, NEW k \in 1 .. m, j < k PROVE NameAt(x, j) < NameAt(x, k)
    BY <1>2
  <2>1. j \in 1 .. m + 1 /\ k \in 1 .. m + 1 /\ j + 1 \in 1 .. m + 1 /\ k + 1 \in 1 .. m + 1 /\ j + 1 < k + 1 /\ j < k + 1
    BY <1>0
  <2>2. CASE k < i
    BY <1>0, <1>1, <1>4, <2>1, <2>2
  <2>3. CASE i <= j
    <3>1. NameAt(y, j + 1) = NameAt(x, j) /\ NameAt(y, k + 1) = NameAt(x, k)
      <4>1. i <= k
        BY <1>0, <2>3
      <4> QED BY <1>0, <2>3, <4>1
    <3>2. NameAt(y, j + 1) < NameAt(y, k + 1)
      BY <1>1, <1>4, <2>1
    <3> QED BY <3>1, <3>2
  <2>4. CASE j < i /\ i <= k
    BY <1>0, <1>1, <1>4, <2>1, <2>4
  <2> QED BY <1>0, <2>2, <2>3, <2>4
<1>5. ASSUME Sorted(y) PROVE s \in Gap(x, i)
  <2> SUFFICES ASSUME NEW j \in 1 .. m PROVE (j < i => NameAt(x, j) < s) /\ (i <= j => s < NameAt(x, j))
    BY <1>3
  <2>1. j \in 1 .. m + 1 /\ j + 1 \in 1 .. m + 1 /\ (i <= j => i < j + 1)
    BY <1>0
  <2> QED BY <1>0, <1>1, <1>5, <2>1
<1>6. ASSUME Sorted(x), s \in Gap(x, i) PROVE Sorted(y)
  <2> SUFFICES ASSUME NEW j \in 1 .. m + 1, NEW k \in 1 .. m + 1, j < k PROVE NameAt(y, j) < NameAt(y, k)
    BY <1>1
  <2>1. CASE k < i
    BY <1>0, <1>2, <1>6, <2>1
  <2>2. CASE k = i
    BY <1>0, <1>3, <1>6, <2>2
  <2>3. CASE i < k /\ j < i
    <3>1. k - 1 \in 1 .. m /\ j \in 1 .. m /\ NameAt(y, k) = NameAt(x, k - 1) /\ NameAt(y, j) = NameAt(x, j) /\ j < k - 1
      BY <1>0, <2>3
    <3> QED BY <1>2, <1>6, <3>1
  <2>4. CASE i < k /\ j = i
    <3>1. k - 1 \in 1 .. m /\ NameAt(y, k) = NameAt(x, k - 1) /\ i <= k - 1
      BY <1>0, <2>4
    <3> QED BY <1>0, <1>3, <1>6, <2>4, <3>1
  <2>5. CASE i < j
    <3>0. i < k /\ j - 1 < k - 1
      BY <1>0, <2>5
    <3>1. /\ k - 1 \in 1 .. m /\ j - 1 \in 1 .. m /\ NameAt(y, k) = NameAt(x, k - 1)
          /\ NameAt(y, j) = NameAt(x, j - 1) /\ j - 1 < k - 1
      BY <1>0, <2>5, <3>0
    <3> QED BY <1>2, <1>6, <3>1
  <2> QED BY <1>0, <2>1, <2>2, <2>3, <2>4, <2>5
<1> QED BY <1>4, <1>5, <1>6

LEMMA MoreGaps ==
    ASSUME NEW x, NEW y, NEW i, NEW s, MoreNames(x, y, i, s), Sorted(y)
    PROVE  /\ \A k \in 1 .. Len(x.fdes) : k < i => Gap(y, k) = Gap(x, k)
           /\ Gap(y, i) = {n \in Gap(x, i) : n < s}
           /\ Gap(y, i + 1) = {n \in Gap(x, i) : s < n}
           /\ \A k \in 1 .. Len(x.fdes) + 1 : i < k => Gap(y, k + 1) = Gap(x, k)
<1> DEFINE m == Len(x.fdes)
<1>0. /\ m \in Nat /\ i \in 1 .. m + 1 /\ Len(y.fdes) = m + 1 /\ s \in Nat /\ s \in Fhash /\ NameAt(y, i) = s
      /\ \A j \in 1 .. m : /\ NameAt(x, j) \in Nat
                           /\ j < i => NameAt(y, j) = NameAt(x, j)
                           /\ i <= j => NameAt(y, j + 1) = NameAt(x, j)
      /\ \A k \in 1 .. m + 1 :
           /\ NameAt(y, k) \in Nat
           /\ k < i => k \in 1 .. m
           /\ i < k => k - 1 \in 1 .. m /\ i <= k - 1 /\ NameAt(y, k) = NameAt(x, k - 1)
  BY DEF MoreNames
<1>1. \A n \in Fhash : \A k : n \in Gap(y, k) <=> \A j \in 1 .. m + 1 : (j < k => NameAt(y, j) < n) /\ (k <= j => n < NameAt(y, j))
  BY <1>0 DEF Gap
<1>2. \A n \in Fhash : \A k : n \in Gap(x, k) <=> \A j \in 1 .. m : (j < k => NameAt(x, j) < n) /\ (k <= j => n < NameAt(x, j))
  BY DEF Gap
<1>3. \A k : Gap(x, k) \subseteq Fhash /\ Gap(y, k) \subseteq Fhash
  BY DEF Gap
<1>4. \A j, k \in 1 .. m + 1 : j < k => NameAt(y, j) < NameAt(y, k)
  BY <1>0 DEF Sorted
<1>5. \A n \in Fhash : n \in Nat
  BY FhashIs
<1> HIDE DEF m
<1>6. ASSUME NEW k \in 1 .. m + 1, NEW n \in Fhash
      PROVE  k <= i => (n \in Gap(y, k) => n \in Gap(x, k))
  <2> SUFFICES ASSUME k <= i, n \in Gap(y, k), NEW j \in 1 .. m
               PROVE  (j < k => NameAt(x, j) < n) /\ (k <= j => n < NameAt(x, j))
    BY <1>2
  <2>1. j \in 1 .. m + 1 /\ j + 1 \in 1 .. m + 1
    BY <1>0
  <2>2. CASE j < i
    BY <1>0, <1>1, <2>1, <2>2
  <2>3. CASE i <= j
    <3>1. NameAt(y, j + 1) = NameAt(x, j) /\ k <= j + 1
      BY <1>0, <2>3
    <3>2. ~(j < k) /\ n < NameAt(y, j + 1)
      <4>1. n < NameAt(y, j + 1)
        BY <1>1, <2>1, <3>1
      <4>2. ~(j < k)
        BY <1>0, <2>3
      <4> QED BY <4>1, <4>2
    <3> QED BY <3>1, <3>2
  <2> QED BY <1>0, <2>2, <2>3
<1>7. ASSUME NEW k \in 1 .. m + 1, NEW n \in Fhash
      PROVE  i <= k => (n \in Gap(y, k + 1) => n \in Gap(x, k))
  <2> SUFFICES ASSUME i <= k, n \in Gap(y, k + 1), NEW j \in 1 .. m
               PROVE  (j < k => NameAt(x, j) < n) /\ (k <= j => n < NameAt(x, j))
    BY <1>2
  <2>1. j \in 1 .. m + 1 /\ j + 1 \in 1 .. m + 1
    BY <1>0
  <2>2. CASE j < i
    <3>1. NameAt(y, j) = NameAt(x, j) /\ j < k + 1 /\ ~(k <= j)
      BY <1>0, <2>2
    <3>2. NameAt(y, j) < n
      BY <1>1, <2>1, <3>1
    <3> QED BY <3>1, <3>2
  <2>3. CASE i <= j
    <3>1. NameAt(y, j + 1) = NameAt(x, j) /\ (j < k => j + 1 < k + 1) /\ (k <= j => k + 1 <= j + 1)
      BY <1>0, <2>3
    <3>2. (j + 1 < k + 1 => NameAt(y, j + 1) < n) /\ (k + 1 <= j + 1 => n < NameAt(y, j + 1))
      BY <1>1, <2>1
    <3> QED BY <3>1, <3>2
  <2> QED BY <1>0, <2>2, <2>3
<1>8. ASSUME NEW k \in 1 .. m + 1, NEW n \in Gap(x, k), k <= i, n < s
      PROVE  n \in Gap(y, k)
  <2> SUFFICES ASSUME NEW j \in 1 .. m + 1
               PROVE  (j < k => NameAt(y, j) < n) /\ (k <= j => n < NameAt(y, j))
    BY <1>1, <1>3
  <2>0. n \in Fhash /\ n \in Nat
    BY <1>3, <1>5
  <2>1. CASE j < i
    BY <1>0, <1>2, <2>0, <2>1
  <2>2. CASE j = i
    BY <1>0, <1>8, <2>0, <2>2
  <2>3. CASE i < j
    <3>1. j - 1 \in 1 .. m /\ i <= j - 1 /\ NameAt(y, j) = NameAt(x, j - 1)
      BY <1>0, <2>3
    <3>2. i \in Nat /\ j \in Nat /\ k \in Nat /\ k <= i
      BY <1>0, <1>8
    <3>3. k <= j - 1 /\ ~(j < k)
      BY <2>3, <3>2
    <3> QED BY <1>2, <2>0, <3>1, <3>3
  <2> QED BY <1>0, <2>1, <2>2, <2>3
<1>9. ASSUME NEW k \in 1 .. m + 1, NEW n \in Gap(x, k), i <= k, s < n
      PROVE  n \in Gap(y, k + 1)
  <2> SUFFICES ASSUME NEW j \in 1 .. m + 1
               PROVE  (j < k + 1 => NameAt(y, j) < n) /\ (k + 1 <= j => n < NameAt(y, j))
    BY <1>1, <1>3
  <2>0. n \in Fhash /\ n \in Nat
    BY <1>3, <1>5
  <2>1. CASE j < i
    <3>1. j \in 1 .. m /\ j < k /\ NameAt(y, j) = NameAt(x, j) /\ ~(k + 1 <= j)
      BY <1>0, <1>9, <2>1
    <3> QED BY <1>2, <2>0, <3>1
  <2>2. CASE j = i
    BY <1>0, <1>9, <2>0, <2>2
  <2>3. CASE i < j
    <3>1. j - 1 \in 1 .. m /\ NameAt(y, j) = NameAt(x, j - 1) /\ (j < k + 1 => j - 1 < k) /\ (k + 1 <= j => k <= j - 1)
      BY <1>0, <2>3
    <3> QED BY <1>2, <2>0, <3>1
  <2> QED BY <1>0, <2>1, <2>2, <2>3
<1>10. ASSUME NEW k \in 1 .. m, k < i, NEW n \in Gap(x, k) PROVE n < s
  <2>1. n < NameAt(x, k) /\ n \in Nat
    BY <1>2, <1>3, <1>5
  <2>2. NameAt(x, k) < s
    BY <1>0, <1>4, <1>10
  <2> QED BY <1>0, <2>1, <2>2
<1>11. ASSUME NEW k \in 1 .. m + 1, i < k, NEW n \in Gap(x, k) PROVE s < n
  <2>1. k - 1 \in 1 .. m /\ k - 1 < k /\ i <= k - 1
    BY <1>0, <1>11
  <2>2. NameAt(x, k - 1) < n /\ n \in Nat
    BY <1>2, <1>3, <1>5, <2>1
  <2>3. NameAt(y, k) = NameAt(x, k - 1) /\ s < NameAt(y, k)
    BY <1>0, <1>4, <1>11
  <2> QED BY <1>0, <2>1, <2>2, <2>3
<1>12. \A k \in 1 .. m : k < i => Gap(y, k) = Gap(x, k)
  <2> TAKE k \in 1 .. m
  <2> HAVE k < i
  <2>1. k \in 1 .. m + 1 /\ k <= i
    BY <1>0
  <2> QED BY <1>3, <1>6, <1>8, <1>10, <2>1
<1>13. \A k \in 1 .. m + 1 : i < k => Gap(y, k + 1) = Gap(x, k)
  <2> TAKE k \in 1 .. m + 1
  <2> HAVE i < k
  <2>1. i <= k
    BY <1>0
  <2> QED BY <1>3, <1>7, <1>9, <1>11, <2>1
<1>14. Gap(y, i) = {n \in Gap(x, i) : n < s}
  <2>0. i \in 1 .. m + 1 /\ i <= i
    BY <1>0
  <2>1. \A n \in Gap(y, i) : n < s
    BY <1>0, <1>1, <1>3, <2>0
  <2>2. \A n \in Gap(y, i) : n \in Gap(x, i)
    BY <1>3, <1>6, <2>0
  <2>3. \A n \in Gap(x, i) : n < s => n \in Gap(y, i)
    BY <1>8, <2>0
  <2> QED BY <2>1, <2>2, <2>3
<1>15. Gap(y, i + 1) = {n \in Gap(x, i) : s < n}
  <2>0. i \in 1 .. m + 1 /\ i <= i /\ i < i + 1
    BY <1>0
  <2>1. \A n \in Gap(y, i + 1) : s < n
    <3> TAKE n \in Gap(y, i + 1)
    <3>1. n \in Fhash
      BY <1>3
    <3> QED BY <1>0, <1>1, <2>0, <3>1
  <2>2. \A n \in Gap(y, i + 1) : n \in Gap(x, i)
    BY <1>3, <1>7, <2>0
  <2>3. \A n \in Gap(x, i) : s < n => n \in Gap(y, i + 1)
    BY <1>9, <2>0
  <2> QED BY <2>1, <2>2, <2>3
<1> QED BY <1>12, <1>13, <1>14, <1>15 DEF m

\* Node x has the names of a, then s, then those of b.
MiddleNames(x, a, b, s) ==
    /\ Len(a.fdes) \in Nat /\ Len(b.fdes) \in Nat /\ Len(x.fdes) = Len(a.fdes) + 1 + Len(b.fdes)
    /\ s \in Nat /\ s \in Fhash /\ NameAt(x, Len(a.fdes) + 1) = s
    /\ \A j \in 1 .. Len(a.fdes) : NameAt(a, j) \in Nat /\ NameAt(x, j) = NameAt(a, j)
    /\ \A j \in 1 .. Len(b.fdes) : NameAt(b, j) \in Nat /\ NameAt(x, Len(a.fdes) + 1 + j) = NameAt(b, j)
    /\ \A k \in 1 .. Len(x.fdes) :
         \/ k \in 1 .. Len(a.fdes)
         \/ k = Len(a.fdes) + 1
         \/ \E j \in 1 .. Len(b.fdes) : k = Len(a.fdes) + 1 + j

LEMMA MiddleNamesIs ==
    ASSUME NEW x \in TreeNode, NEW a \in TreeNode, NEW b \in TreeNode, NEW e \in Entry,
           IsMiddle(x.fdes, a.fdes, e, b.fdes)
    PROVE  MiddleNames(x, a, b, e.fhash)
<1> DEFINE m == Len(a.fdes)
           n == Len(b.fdes)
<1>1. m \in Nat /\ n \in Nat
  BY NodeIs
<1>2. /\ Len(x.fdes) = m + 1 + n
      /\ \A k \in 1 .. m : x.fdes[k] = a.fdes[k]
      /\ x.fdes[m + 1] = e
      /\ \A k \in 1 .. n : x.fdes[m + 1 + k] = b.fdes[k]
  BY DEF IsMiddle
<1>3. (\A k \in 1 .. m : NameAt(a, k) \in Nat) /\ (\A k \in 1 .. n : NameAt(b, k) \in Nat) /\ e.fhash \in Nat /\ e.fhash \in Fhash
  BY NamesAre, EntryIs
<1> HIDE DEF m, n
<1>4. ASSUME NEW k \in 1 .. m + 1 + n
      PROVE  k \in 1 .. m \/ k = m + 1 \/ \E j \in 1 .. n : k = m + 1 + j
  <2>1. CASE k > m + 1
    <3>1. k - (m + 1) \in 1 .. n /\ k = m + 1 + (k - (m + 1))
      BY <1>1, <2>1
    <3> QED BY <3>1
  <2>2. CASE ~(k > m + 1)
    BY <1>1, <2>2
  <2> QED BY <2>1, <2>2
<1>5. /\ \A k \in 1 .. m : NameAt(x, k) = NameAt(a, k)
      /\ \A k \in 1 .. n : NameAt(x, m + 1 + k) = NameAt(b, k)
      /\ NameAt(x, m + 1) = e.fhash
  BY <1>2 DEF NameAt
<1> QED BY <1>1, <1>2, <1>3, <1>4, <1>5 DEF MiddleNames, m, n

LEMMA MiddleSorted ==
    ASSUME NEW x, NEW a, NEW b, NEW s, MiddleNames(x, a, b, s)
    PROVE  Sorted(x) <=> /\ Sorted(a) /\ Sorted(b)
                         /\ \A j \in 1 .. Len(a.fdes) : NameAt(a, j) < s
                         /\ \A j \in 1 .. Len(b.fdes) : s < NameAt(b, j)
<1> DEFINE m == Len(a.fdes)
           n == Len(b.fdes)
<1>0. /\ m \in Nat /\ n \in Nat /\ Len(x.fdes) = m + 1 + n /\ s \in Nat /\ NameAt(x, m + 1) = s
      /\ \A j \in 1 .. m : NameAt(a, j) \in Nat /\ NameAt(x, j) = NameAt(a, j)
      /\ \A j \in 1 .. n : NameAt(b, j) \in Nat /\ NameAt(x, m + 1 + j) = NameAt(b, j)
      /\ \A k \in 1 .. m + 1 + n : k \in 1 .. m \/ k = m + 1 \/ \E j \in 1 .. n : k = m + 1 + j
  BY DEF MiddleNames
<1>1. Sorted(x) <=> \A j, k \in 1 .. m + 1 + n : j < k => NameAt(x, j) < NameAt(x, k)
  BY <1>0 DEF Sorted
<1>2. Sorted(a) <=> \A j, k \in 1 .. m : j < k => NameAt(a, j) < NameAt(a, k)
  BY DEF Sorted
<1>3. Sorted(b) <=> \A j, k \in 1 .. n : j < k => NameAt(b, j) < NameAt(b, k)
  BY DEF Sorted
<1> HIDE DEF m, n
<1>4. /\ \A j \in 1 .. m : j \in 1 .. m + 1 + n /\ j < m + 1
      /\ m + 1 \in 1 .. m + 1 + n
      /\ \A j \in 1 .. n : m + 1 + j \in 1 .. m + 1 + n /\ m + 1 < m + 1 + j
      /\ \A j, k \in 1 .. n : m + 1 + j < m + 1 + k <=> j < k
  BY <1>0
<1>5. ASSUME Sorted(x)
      PROVE  /\ Sorted(a) /\ Sorted(b)
             /\ \A j \in 1 .. m : NameAt(a, j) < s
             /\ \A j \in 1 .. n : s < NameAt(b, j)
  <2>0. \A j, k \in 1 .. m + 1 + n : j < k => NameAt(x, j) < NameAt(x, k)
    BY <1>1, <1>5
  <2>1. Sorted(a)
    BY <1>0, <1>2, <1>4, <2>0
  <2>2. ASSUME NEW j \in 1 .. n, NEW k \in 1 .. n, j < k PROVE NameAt(b, j) < NameAt(b, k)
    <3>1. NameAt(x, m + 1 + j) < NameAt(x, m + 1 + k)
      BY <1>4, <2>0, <2>2
    <3> QED BY <1>0, <3>1
  <2>3. Sorted(b)
    BY <1>3, <2>2
  <2>4. \A j \in 1 .. m : NameAt(a, j) < s
    BY <1>0, <1>4, <2>0
  <2>5. ASSUME NEW j \in 1 .. n PROVE s < NameAt(b, j)
    <3>1. NameAt(x, m + 1) < NameAt(x, m + 1 + j)
      BY <1>4, <2>0
    <3> QED BY <1>0, <3>1
  <2> QED BY <2>1, <2>3, <2>4, <2>5
<1>6. ASSUME Sorted(a), Sorted(b), \A j \in 1 .. m : NameAt(a, j) < s, \A j \in 1 .. n : s < NameAt(b, j)
      PROVE  Sorted(x)
  <2> SUFFICES ASSUME NEW j \in 1 .. m + 1 + n, NEW k \in 1 .. m + 1 + n, j < k PROVE NameAt(x, j) < NameAt(x, k)
    BY <1>1
  <2>1. CASE k \in 1 .. m
    <3>1. j \in 1 .. m
      BY <1>0, <2>1
    <3> QED BY <1>0, <1>2, <1>6, <2>1, <3>1
  <2>2. CASE k = m + 1
    <3>1. j \in 1 .. m
      BY <1>0, <2>2
    <3> QED BY <1>0, <1>6, <2>2, <3>1
  <2>3. ASSUME NEW l \in 1 .. n, k = m + 1 + l PROVE NameAt(x, j) < NameAt(x, k)
    <3>1. NameAt(x, k) = NameAt(b, l) /\ NameAt(b, l) \in Nat /\ s < NameAt(b, l) /\ s \in Nat
      BY <1>0, <1>6, <2>3
    <3>2. CASE j \in 1 .. m
      <4>1. NameAt(x, j) = NameAt(a, j) /\ NameAt(a, j) \in Nat /\ NameAt(a, j) < s
        BY <1>0, <1>6, <3>2
      <4> QED BY <3>1, <4>1
    <3>3. CASE j = m + 1
      BY <1>0, <3>1, <3>3
    <3>4. ASSUME NEW i \in 1 .. n, j = m + 1 + i PROVE NameAt(x, j) < NameAt(x, k)
      <4>1. i < l
        BY <1>4, <2>3, <3>4
      <4>2. NameAt(x, j) = NameAt(b, i)
        BY <1>0, <3>4
      <4> QED BY <1>3, <1>6, <3>1, <4>1, <4>2
    <3> QED BY <1>0, <3>2, <3>3, <3>4
  <2> QED BY <1>0, <2>1, <2>2, <2>3
<1> QED BY <1>5, <1>6 DEF m, n

MiddleParts(x, a, b, s) ==
    /\ \A k \in 1 .. Len(a.fdes) + 1 : Gap(x, k) = {y \in Gap(a, k) : y < s}
    /\ \A k \in 1 .. Len(b.fdes) + 1 : Gap(x, Len(a.fdes) + 1 + k) = {y \in Gap(b, k) : s < y}

LEMMA MiddleGaps ==
    ASSUME NEW x, NEW a, NEW b, NEW s, MiddleNames(x, a, b, s), Sorted(x)
    PROVE  MiddleParts(x, a, b, s)
<1> DEFINE m == Len(a.fdes)
           n == Len(b.fdes)
<1>0. /\ m \in Nat /\ n \in Nat /\ Len(x.fdes) = m + 1 + n /\ s \in Nat /\ NameAt(x, m + 1) = s
      /\ \A j \in 1 .. m : NameAt(a, j) \in Nat /\ NameAt(x, j) = NameAt(a, j)
      /\ \A j \in 1 .. n : NameAt(b, j) \in Nat /\ NameAt(x, m + 1 + j) = NameAt(b, j)
      /\ \A k \in 1 .. m + 1 + n : k \in 1 .. m \/ k = m + 1 \/ \E j \in 1 .. n : k = m + 1 + j
  BY DEF MiddleNames
<1>1. \A y \in Fhash : \A k : y \in Gap(x, k) <=> \A j \in 1 .. m + 1 + n : (j < k => NameAt(x, j) < y) /\ (k <= j => y < NameAt(x, j))
  BY <1>0 DEF Gap
<1>2. \A y \in Fhash : \A k : y \in Gap(a, k) <=> \A j \in 1 .. m : (j < k => NameAt(a, j) < y) /\ (k <= j => y < NameAt(a, j))
  BY DEF Gap
<1>3. \A y \in Fhash : \A k : y \in Gap(b, k) <=> \A j \in 1 .. n : (j < k => NameAt(b, j) < y) /\ (k <= j => y < NameAt(b, j))
  BY DEF Gap
<1>4. \A k : Gap(x, k) \subseteq Fhash /\ Gap(a, k) \subseteq Fhash /\ Gap(b, k) \subseteq Fhash
  BY DEF Gap
<1>5. (\A j \in 1 .. m : NameAt(a, j) < s) /\ (\A j \in 1 .. n : s < NameAt(b, j))
  BY MiddleSorted
<1>6. \A y \in Fhash : y \in Nat
  BY FhashIs
<1> HIDE DEF m, n
<1>7. /\ \A j \in 1 .. m : j \in 1 .. m + 1 + n /\ j < m + 1
      /\ m + 1 \in 1 .. m + 1 + n
      /\ \A j \in 1 .. n : m + 1 + j \in 1 .. m + 1 + n /\ m + 1 < m + 1 + j
  BY <1>0
<1>8. ASSUME NEW k \in 1 .. m + 1, NEW y \in Fhash, y \in Gap(x, k) PROVE y \in Gap(a, k) /\ y < s
  <2>1. k <= m + 1
    BY <1>0
  <2>2. y < s
    BY <1>0, <1>1, <1>7, <1>8, <2>1
  <2>3. \A j \in 1 .. m : (j < k => NameAt(a, j) < y) /\ (k <= j => y < NameAt(a, j))
    BY <1>0, <1>1, <1>7, <1>8
  <2> QED BY <1>2, <2>2, <2>3
<1>9. ASSUME NEW k \in 1 .. m + 1, NEW y \in Fhash, y \in Gap(a, k), y < s PROVE y \in Gap(x, k)
  <2> SUFFICES ASSUME NEW j \in 1 .. m + 1 + n
               PROVE  (j < k => NameAt(x, j) < y) /\ (k <= j => y < NameAt(x, j))
    BY <1>1
  <2>1. CASE j \in 1 .. m
    BY <1>0, <1>2, <1>9, <2>1
  <2>2. CASE j = m + 1
    BY <1>0, <1>9, <2>2
  <2>3. ASSUME NEW l \in 1 .. n, j = m + 1 + l PROVE (j < k => NameAt(x, j) < y) /\ (k <= j => y < NameAt(x, j))
    <3>1. NameAt(x, j) = NameAt(b, l) /\ NameAt(b, l) \in Nat /\ s < NameAt(b, l) /\ s \in Nat /\ y \in Nat
      BY <1>0, <1>5, <1>6, <2>3
    <3>2. ~(j < k)
      BY <1>0, <2>3
    <3> QED BY <1>9, <3>1, <3>2
  <2> QED BY <1>0, <2>1, <2>2, <2>3
<1>10. ASSUME NEW k \in 1 .. n + 1, NEW y \in Fhash, y \in Gap(x, m + 1 + k) PROVE y \in Gap(b, k) /\ s < y
  <2>1. m + 1 < m + 1 + k
    BY <1>0
  <2>2. s < y
    BY <1>0, <1>1, <1>7, <1>10, <2>1
  <2>3. ASSUME NEW j \in 1 .. n PROVE (j < k => NameAt(b, j) < y) /\ (k <= j => y < NameAt(b, j))
    <3>1. (j < k => m + 1 + j < m + 1 + k) /\ (k <= j => m + 1 + k <= m + 1 + j) /\ m + 1 + j \in 1 .. m + 1 + n
      BY <1>0
    <3>2. NameAt(x, m + 1 + j) = NameAt(b, j)
      BY <1>0
    <3> QED BY <1>1, <1>10, <3>1, <3>2
  <2> QED BY <1>3, <2>2, <2>3
<1>11. ASSUME NEW k \in 1 .. n + 1, NEW y \in Fhash, y \in Gap(b, k), s < y PROVE y \in Gap(x, m + 1 + k)
  <2> SUFFICES ASSUME NEW j \in 1 .. m + 1 + n
               PROVE  (j < m + 1 + k => NameAt(x, j) < y) /\ (m + 1 + k <= j => y < NameAt(x, j))
    BY <1>1
  <2>1. CASE j \in 1 .. m
    <3>1. NameAt(x, j) = NameAt(a, j) /\ NameAt(a, j) \in Nat /\ NameAt(a, j) < s /\ s \in Nat /\ y \in Nat
      BY <1>0, <1>5, <1>6, <2>1
    <3>2. ~(m + 1 + k <= j)
      BY <1>0, <2>1
    <3> QED BY <1>11, <3>1, <3>2
  <2>2. CASE j = m + 1
    BY <1>0, <1>11, <2>2
  <2>3. ASSUME NEW l \in 1 .. n, j = m + 1 + l PROVE (j < m + 1 + k => NameAt(x, j) < y) /\ (m + 1 + k <= j => y < NameAt(x, j))
    <3>1. NameAt(x, j) = NameAt(b, l)
      BY <1>0, <2>3
    <3>2. (j < m + 1 + k => l < k) /\ (m + 1 + k <= j => k <= l)
      BY <1>0, <2>3
    <3> QED BY <1>3, <1>11, <3>1, <3>2
  <2> QED BY <1>0, <2>1, <2>2, <2>3
<1>12. \A k \in 1 .. m + 1 : Gap(x, k) = {y \in Gap(a, k) : y < s}
  BY <1>4, <1>8, <1>9
<1>13. \A k \in 1 .. n + 1 : Gap(x, m + 1 + k) = {y \in Gap(b, k) : s < y}
  BY <1>4, <1>10, <1>11
<1> QED BY <1>12, <1>13 DEF m, n, MiddleParts

(***************************************************************************)
(* Cutting a node in two keeps the order.                                  *)
(***************************************************************************)
OrderedAt(S, I, j) ==
    /\ Sorted(S[j]) /\ \A k \in 1 .. Len(S[j].fdes) : NameAt(S[j], k) \in I[j]
    /\ \A k \in 1 .. Len(S[j].cobj) : I[S[j].cobj[k]] = I[j] \cap Gap(S[j], k)

LEMMA OrderedIs ==
    ASSUME NEW S, NEW root, NEW I
    PROVE  Ordered(S, root, I) <=> I[root] = Fhash /\ \A j \in Nodes(S) : OrderedAt(S, I, j)
BY DEF Ordered, OrderedAt

\* The nodes of a cut.
CutNodes(S, T, root, p, l, r) ==
    /\ S \in Stores /\ T \in Stores
    /\ p \in Nodes(S) /\ l \in Nodes(S) /\ r \notin Nodes(S) /\ p # l /\ p # r /\ l # r /\ l # root /\ r # root
    /\ Nodes(T) = Nodes(S) \cup {r} /\ \A j \in Nodes(S) \ {p, l} : T[j] = S[j]
    /\ S[p] \in TreeNode /\ T[p] \in TreeNode /\ S[l] \in TreeNode /\ T[l] \in TreeNode /\ T[r] \in TreeNode
    /\ \A j \in Nodes(S) \ {p} : \A k \in 1 .. Len(S[j].cobj) : S[j].cobj[k] \in Nodes(S) \ {l}

\* The children of its parent.
CutAbove(S, T, p, i, l, r) ==
    /\ i \in 1 .. Len(S[p].fdes) + 1 /\ Len(S[p].fdes) \in Nat /\ Len(T[p].fdes) = Len(S[p].fdes) + 1
    /\ Len(S[p].cobj) = Len(S[p].fdes) + 1 /\ Len(T[p].cobj) = Len(S[p].fdes) + 2
    /\ S[p].cobj[i] = l /\ T[p].cobj[i] = l /\ T[p].cobj[i + 1] = r
    /\ \A k \in 1 .. Len(S[p].fdes) + 1 :
         /\ S[p].cobj[k] \in Nodes(S) /\ (k # i => S[p].cobj[k] # l)
         /\ k < i => T[p].cobj[k] = S[p].cobj[k]
         /\ i < k => T[p].cobj[k + 1] = S[p].cobj[k]

\* Its own children.
CutBelow(S, T, l, r) ==
    /\ \A k \in 1 .. Len(T[l].cobj) :
         /\ k \in 1 .. Len(T[l].fdes) + 1 /\ k \in 1 .. Len(S[l].cobj) /\ S[l].cobj[k] = T[l].cobj[k]
    /\ \A k \in 1 .. Len(T[r].cobj) :
         /\ k \in 1 .. Len(T[r].fdes) + 1 /\ Len(T[l].fdes) + 1 + k \in 1 .. Len(S[l].cobj)
         /\ S[l].cobj[Len(T[l].fdes) + 1 + k] = T[r].cobj[k]
    /\ \A k \in 1 .. Len(S[l].cobj) :
         k \in 1 .. Len(T[l].cobj) \/ \E j \in 1 .. Len(T[r].cobj) : k = Len(T[l].fdes) + 1 + j

LEMMA CutNodesAre ==
    ASSUME NEW S, NEW T, NEW p, NEW i, NEW l, NEW r, NEW e, Cut(S, T, p, i, l, r, e),
           NEW root, NEW h, Rooted(S, root, h), NEW g, Rooted(T, root, g)
    PROVE  CutNodes(S, T, root, p, l, r)
<1>1. /\ S \in Stores /\ T \in Stores
      /\ p \in Nodes(S) /\ l \in Nodes(S) /\ r \in Id \ Nodes(S) /\ p # l
      /\ Nodes(T) = Nodes(S) \cup {r}
      /\ \A j \in Id \ {p, l, r} : T[j] = S[j]
  BY DEF Cut
<1>2. l \in Kids(S, p) /\ p # r /\ l # r
  BY CutKids DEF CutInSets
<1>3. root \in Nodes(S) /\ l # root
  BY <1>1, <1>2 DEF Rooted
<1>4. \A j \in Nodes(S) \ {p, l} : T[j] = S[j]
  BY <1>1, <1>2 DEF Nodes
<1>5. S[p] \in TreeNode /\ S[l] \in TreeNode
  BY <1>1, RootedIs
<1>6. T[p] \in TreeNode /\ T[l] \in TreeNode /\ T[r] \in TreeNode
  <2>1. p \in Nodes(T) /\ l \in Nodes(T) /\ r \in Nodes(T)
    BY <1>1
  <2> QED BY <2>1, RootedIs
<1>7. ASSUME NEW j \in Nodes(S) \ {p}, NEW k \in 1 .. Len(S[j].cobj) PROVE S[j].cobj[k] \in Nodes(S) \ {l}
  <2>1. S[j].cobj[k] \in Kids(S, j)
    BY DEF Kids, Elems
  <2>2. S[j].cobj[k] \in Nodes(S)
    BY <2>1 DEF Rooted
  <2>3. Kids(S, j) \cap Kids(S, p) = {}
    BY <1>1 DEF Rooted
  <2> QED BY <1>2, <2>1, <2>2, <2>3
<1> QED BY <1>1, <1>2, <1>3, <1>4, <1>5, <1>6, <1>7 DEF CutNodes

LEMMA CutAboveIs ==
    ASSUME NEW S, NEW T, NEW p, NEW i, NEW l, NEW r, NEW e, Cut(S, T, p, i, l, r, e),
           NEW root, NEW h, Rooted(S, root, h), NEW g, Rooted(T, root, g)
    PROVE  CutAbove(S, T, p, i, l, r)
<1> DEFINE n == Len(S[p].fdes)
<1>1. /\ i \in 1 .. n + 1 /\ i \in 1 .. Len(S[p].cobj) /\ S[p].cobj[i] = l
      /\ IsInserted(T[p].fdes, S[p].fdes, i, e)
      /\ IsInserted(T[p].cobj, S[p].cobj, i + 1, r)
      /\ p \in Nodes(S)
  BY DEF Cut
<1>2. S[p] \in TreeNode /\ n \in Nat /\ Len(S[p].cobj) \in Nat /\ Branches(S[p]) /\ Distinct(S[p].cobj)
  <2>1. S[p] \in TreeNode
    BY <1>1, RootedIs
  <2> QED BY <1>1, <2>1, NodeIs DEF Rooted
<1>3. Len(S[p].cobj) = n + 1
  BY <1>1, <1>2 DEF Branches
<1>4. Len(T[p].fdes) = n + 1 /\ Len(T[p].cobj) = n + 2
  <2>1. Len(T[p].fdes) = n + 1 /\ Len(T[p].cobj) = Len(S[p].cobj) + 1
    BY <1>1 DEF IsInserted
  <2> QED BY <1>2, <1>3, <2>1
<1>5. \A k \in 1 .. n + 2 : T[p].cobj[k] = IF k < i + 1 THEN S[p].cobj[k] ELSE IF k = i + 1 THEN r ELSE S[p].cobj[k - 1]
  <2>1. Len(S[p].cobj) + 1 = n + 2
    BY <1>2, <1>3
  <2> QED BY <1>1, <2>1 DEF IsInserted
<1> HIDE DEF n
<1>6. T[p].cobj[i] = l /\ T[p].cobj[i + 1] = r
  <2>1. i \in 1 .. n + 2 /\ i + 1 \in 1 .. n + 2 /\ i < i + 1 /\ ~(i + 1 < i + 1)
    BY <1>1, <1>2
  <2> QED BY <1>1, <1>5, <2>1
<1>7. ASSUME NEW k \in 1 .. n + 1
      PROVE  /\ S[p].cobj[k] \in Nodes(S) /\ (k # i => S[p].cobj[k] # l)
             /\ k < i => T[p].cobj[k] = S[p].cobj[k]
             /\ i < k => T[p].cobj[k + 1] = S[p].cobj[k]
  <2>1. k \in 1 .. Len(S[p].cobj)
    BY <1>3
  <2>2. S[p].cobj[k] \in Nodes(S)
    BY <1>1, <2>1, RootedIs
  <2>3. k # i => S[p].cobj[k] # l
    BY <1>1, <1>2, <2>1 DEF Distinct
  <2>4. k \in 1 .. n + 2 /\ (k < i => k < i + 1)
    BY <1>1, <1>2
  <2>5. k + 1 \in 1 .. n + 2 /\ (i < k => ~(k + 1 < i + 1) /\ k + 1 # i + 1) /\ (k + 1) - 1 = k
    BY <1>1, <1>2
  <2> QED BY <1>5, <2>2, <2>3, <2>4, <2>5
<1> QED BY <1>1, <1>2, <1>3, <1>4, <1>6, <1>7 DEF CutAbove, n

LEMMA CutBelowIs ==
    ASSUME NEW S, NEW T, NEW p, NEW i, NEW l, NEW r, NEW e, Cut(S, T, p, i, l, r, e)
    PROVE  CutBelow(S, T, l, r)
<1>1. /\ S \in Stores /\ T \in Stores /\ l \in Nodes(S) /\ Nodes(T) = Nodes(S) \cup {r}
      /\ T[l].leaf = S[l].leaf /\ T[r].leaf = S[l].leaf
      /\ IsJoined(S[l].cobj, T[l].cobj, T[r].cobj)
      /\ Branches(S[l]) /\ Branches(T[l]) /\ Branches(T[r])
  BY DEF Cut
<1>2. T[l] \in TreeNode /\ T[r] \in TreeNode /\ S[l] \in TreeNode
  BY <1>1 DEF Stores, Nodes
<1>3. PICK m : m = Len(T[l].fdes)
  OBVIOUS
<1>4. PICK n : n = Len(T[r].fdes)
  OBVIOUS
<1>5. m \in Nat /\ n \in Nat
  BY <1>2, <1>3, <1>4, NodeIs
<1>6. CASE S[l].leaf
  <2>1. Len(T[l].cobj) = 0 /\ Len(T[r].cobj) = 0 /\ Len(S[l].cobj) = 0
    BY <1>1, <1>6 DEF Branches
  <2> QED BY <2>1 DEF CutBelow
<1>7. CASE ~S[l].leaf
  <2>1. Len(T[l].cobj) = m + 1 /\ Len(T[r].cobj) = n + 1
    BY <1>1, <1>3, <1>4, <1>7 DEF Branches
  <2>2. /\ Len(S[l].cobj) = (m + 1) + (n + 1)
        /\ \A k \in 1 .. (m + 1) + (n + 1) : S[l].cobj[k] = IF k <= m + 1 THEN T[l].cobj[k] ELSE T[r].cobj[k - (m + 1)]
    BY <1>1, <2>1 DEF IsJoined
  <2>3. \A k \in 1 .. m + 1 : k \in 1 .. (m + 1) + (n + 1) /\ S[l].cobj[k] = T[l].cobj[k]
    BY <1>5, <2>2
  <2>4. ASSUME NEW k \in 1 .. n + 1
        PROVE  m + 1 + k \in 1 .. (m + 1) + (n + 1) /\ S[l].cobj[m + 1 + k] = T[r].cobj[k]
    <3>1. m + 1 + k \in 1 .. (m + 1) + (n + 1) /\ ~(m + 1 + k <= m + 1) /\ (m + 1 + k) - (m + 1) = k
      BY <1>5
    <3> QED BY <2>2, <3>1
  <2>5. ASSUME NEW k \in 1 .. (m + 1) + (n + 1)
        PROVE  k \in 1 .. m + 1 \/ \E j \in 1 .. n + 1 : k = m + 1 + j
    <3>1. CASE k > m + 1
      <4>1. k - (m + 1) \in 1 .. n + 1 /\ k = m + 1 + (k - (m + 1))
        BY <1>5, <3>1
      <4> QED BY <4>1
    <3>2. CASE ~(k > m + 1)
      BY <1>5, <3>2
    <3> QED BY <3>1, <3>2
  <2>6. /\ \A k \in 1 .. Len(T[l].cobj) :
             k \in 1 .. m + 1 /\ k \in 1 .. Len(S[l].cobj) /\ S[l].cobj[k] = T[l].cobj[k]
        /\ \A k \in 1 .. Len(T[r].cobj) :
             k \in 1 .. n + 1 /\ m + 1 + k \in 1 .. Len(S[l].cobj) /\ S[l].cobj[m + 1 + k] = T[r].cobj[k]
        /\ \A k \in 1 .. Len(S[l].cobj) :
             k \in 1 .. Len(T[l].cobj) \/ \E j \in 1 .. Len(T[r].cobj) : k = m + 1 + j
    <3> HIDE <1>3, <1>4
    <3>1. \A k \in 1 .. Len(T[l].cobj) :
             k \in 1 .. m + 1 /\ k \in 1 .. Len(S[l].cobj) /\ S[l].cobj[k] = T[l].cobj[k]
      BY <2>1, <2>2, <2>3
    <3>2. \A k \in 1 .. Len(T[r].cobj) :
             k \in 1 .. n + 1 /\ m + 1 + k \in 1 .. Len(S[l].cobj) /\ S[l].cobj[m + 1 + k] = T[r].cobj[k]
      BY <2>1, <2>2, <2>4
    <3>3. \A k \in 1 .. Len(S[l].cobj) :
             k \in 1 .. Len(T[l].cobj) \/ \E j \in 1 .. Len(T[r].cobj) : k = m + 1 + j
      BY <2>1, <2>2, <2>5
    <3> QED BY <3>1, <3>2, <3>3
  <2> QED BY <1>3, <1>4, <2>6 DEF CutBelow
<1> QED BY <1>6, <1>7

LEMMA CutEntries ==
    ASSUME NEW S, NEW T, NEW p, NEW i, NEW l, NEW r, NEW e, Cut(S, T, p, i, l, r, e)
    PROVE  /\ e \in Entry
           /\ MoreNames(S[p], T[p], i, e.fhash) /\ MiddleNames(S[l], T[l], T[r], e.fhash)
<1>1. /\ S \in Stores /\ T \in Stores /\ p \in Nodes(S) /\ l \in Nodes(S) /\ Nodes(T) = Nodes(S) \cup {r}
      /\ i \in 1 .. Len(S[p].fdes) + 1 /\ IsInserted(T[p].fdes, S[p].fdes, i, e)
      /\ IsMiddle(S[l].fdes, T[l].fdes, e, T[r].fdes)
  BY DEF Cut
<1>2. S[p] \in TreeNode /\ S[l] \in TreeNode /\ T[p] \in TreeNode /\ T[l] \in TreeNode /\ T[r] \in TreeNode
  BY <1>1 DEF Stores, Nodes
<1>3. PICK m : m = Len(T[l].fdes) + 1
  OBVIOUS
<1>4. e = S[l].fdes[m] /\ m \in 1 .. Len(S[l].fdes)
  <2>1. PICK a \in Nat : a = Len(T[l].fdes)
    BY <1>2, NodeIs
  <2>2. PICK b \in Nat : b = Len(T[r].fdes)
    BY <1>2, NodeIs
  <2>3. Len(S[l].fdes) = a + 1 + b /\ S[l].fdes[a + 1] = e
    BY <1>1, <2>1, <2>2 DEF IsMiddle
  <2>4. m = a + 1
    BY <1>3, <2>1
  <2> QED BY <2>3, <2>4
<1>5. e \in Entry
  BY <1>2, <1>4, NodeIs
<1> QED BY <1>1, <1>2, <1>5, MoreNamesIs, MiddleNamesIs

\* The names of the two parts.
SplitNames(S, l, r, s, I, J) ==
    /\ J[l] = {n \in I[l] : n < s} /\ J[r] = {n \in I[l] : s < n}
    /\ \A j \in Nodes(S) \ {l} : J[j] = I[j]

LEMMA OrderedElsewhere ==
    ASSUME NEW S, NEW T, NEW root, NEW p, NEW l, NEW r, CutNodes(S, T, root, p, l, r),
           NEW s, NEW I, NEW J, SplitNames(S, l, r, s, I, J), NEW j \in Nodes(S) \ {p, l}
    PROVE  OrderedAt(S, I, j) <=> OrderedAt(T, J, j)
<1>1. T[j] = S[j] /\ J[j] = I[j]
  BY DEF CutNodes, SplitNames
<1>2. \A k \in 1 .. Len(S[j].cobj) : J[S[j].cobj[k]] = I[S[j].cobj[k]]
  <2> TAKE k \in 1 .. Len(S[j].cobj)
  <2>1. S[j].cobj[k] \in Nodes(S) \ {l}
    BY DEF CutNodes
  <2> QED BY <2>1 DEF SplitNames
<1> QED BY <1>1, <1>2 DEF OrderedAt

LEMMA OrderedPart ==
    ASSUME NEW S, NEW T, NEW root, NEW p, NEW l, NEW r, CutNodes(S, T, root, p, l, r), CutBelow(S, T, l, r),
           NEW s, NEW I, NEW J, SplitNames(S, l, r, s, I, J), MiddleNames(S[l], T[l], T[r], s)
    PROVE  OrderedAt(S, I, l) <=> OrderedAt(T, J, l) /\ OrderedAt(T, J, r) /\ s \in I[l]
<1> DEFINE m == Len(T[l].fdes)
           n == Len(T[r].fdes)
<1>0. /\ m \in Nat /\ n \in Nat /\ Len(S[l].fdes) = m + 1 + n /\ s \in Nat /\ NameAt(S[l], m + 1) = s
      /\ \A j \in 1 .. m : NameAt(T[l], j) \in Nat /\ NameAt(S[l], j) = NameAt(T[l], j)
      /\ \A j \in 1 .. n : NameAt(T[r], j) \in Nat /\ NameAt(S[l], m + 1 + j) = NameAt(T[r], j)
      /\ \A k \in 1 .. m + 1 + n : k \in 1 .. m \/ k = m + 1 \/ \E j \in 1 .. n : k = m + 1 + j
  BY DEF MiddleNames
<1>1. J[l] = {y \in I[l] : y < s} /\ J[r] = {y \in I[l] : s < y}
  BY DEF SplitNames
<1>2. /\ \A k \in 1 .. Len(T[l].cobj) :
           /\ k \in 1 .. m + 1 /\ k \in 1 .. Len(S[l].cobj) /\ S[l].cobj[k] = T[l].cobj[k]
      /\ \A k \in 1 .. Len(T[r].cobj) :
           /\ k \in 1 .. n + 1 /\ m + 1 + k \in 1 .. Len(S[l].cobj)
           /\ S[l].cobj[m + 1 + k] = T[r].cobj[k]
      /\ \A k \in 1 .. Len(S[l].cobj) :
           k \in 1 .. Len(T[l].cobj) \/ \E j \in 1 .. Len(T[r].cobj) : k = m + 1 + j
  BY DEF CutBelow
<1>3. \A k \in 1 .. Len(S[l].cobj) : J[S[l].cobj[k]] = I[S[l].cobj[k]]
  <2> TAKE k \in 1 .. Len(S[l].cobj)
  <2>1. S[l].cobj[k] \in Nodes(S) \ {l}
    BY DEF CutNodes
  <2> QED BY <2>1 DEF SplitNames
<1>4. Sorted(S[l]) <=> /\ Sorted(T[l]) /\ Sorted(T[r])
                       /\ \A j \in 1 .. m : NameAt(T[l], j) < s
                       /\ \A j \in 1 .. n : s < NameAt(T[r], j)
  BY MiddleSorted
<1>5. ASSUME Sorted(S[l])
      PROVE  /\ \A k \in 1 .. m + 1 : Gap(S[l], k) = {y \in Gap(T[l], k) : y < s}
             /\ \A k \in 1 .. n + 1 : Gap(S[l], m + 1 + k) = {y \in Gap(T[r], k) : s < y}
  <2>1. MiddleParts(S[l], T[l], T[r], s)
    BY <1>5, MiddleGaps
  <2> QED BY <2>1 DEF MiddleParts
<1>6. OrderedAt(S, I, l) <=> /\ Sorted(S[l]) /\ \A k \in 1 .. m + 1 + n : NameAt(S[l], k) \in I[l]
                             /\ \A k \in 1 .. Len(S[l].cobj) : I[S[l].cobj[k]] = I[l] \cap Gap(S[l], k)
  BY <1>0 DEF OrderedAt
<1>7. OrderedAt(T, J, l) <=> /\ Sorted(T[l]) /\ \A k \in 1 .. m : NameAt(T[l], k) \in J[l]
                             /\ \A k \in 1 .. Len(T[l].cobj) : J[T[l].cobj[k]] = J[l] \cap Gap(T[l], k)
  BY DEF OrderedAt
<1>8. OrderedAt(T, J, r) <=> /\ Sorted(T[r]) /\ \A k \in 1 .. n : NameAt(T[r], k) \in J[r]
                             /\ \A k \in 1 .. Len(T[r].cobj) : J[T[r].cobj[k]] = J[r] \cap Gap(T[r], k)
  BY DEF OrderedAt
<1> HIDE DEF m, n
<1>9. ASSUME Sorted(S[l])
      PROVE  /\ \A k \in 1 .. m + 1 : J[l] \cap Gap(T[l], k) = I[l] \cap Gap(S[l], k)
             /\ \A k \in 1 .. n + 1 : J[r] \cap Gap(T[r], k) = I[l] \cap Gap(S[l], m + 1 + k)
  <2>1. ASSUME NEW k \in 1 .. m + 1 PROVE J[l] \cap Gap(T[l], k) = I[l] \cap Gap(S[l], k)
    <3>1. Gap(S[l], k) = {y \in Gap(T[l], k) : y < s}
      BY <1>5, <1>9
    <3> QED BY <1>1, <3>1
  <2>2. ASSUME NEW k \in 1 .. n + 1 PROVE J[r] \cap Gap(T[r], k) = I[l] \cap Gap(S[l], m + 1 + k)
    <3>1. Gap(S[l], m + 1 + k) = {y \in Gap(T[r], k) : s < y}
      BY <1>5, <1>9
    <3> QED BY <1>1, <3>1
  <2> QED BY <2>1, <2>2
<1>10. ASSUME Sorted(S[l])
       PROVE  (\A k \in 1 .. Len(S[l].cobj) : I[S[l].cobj[k]] = I[l] \cap Gap(S[l], k)) <=>
                /\ \A k \in 1 .. Len(T[l].cobj) : J[T[l].cobj[k]] = J[l] \cap Gap(T[l], k)
                /\ \A k \in 1 .. Len(T[r].cobj) : J[T[r].cobj[k]] = J[r] \cap Gap(T[r], k)
  <2>1. ASSUME NEW k \in 1 .. Len(T[l].cobj)
        PROVE  J[T[l].cobj[k]] = J[l] \cap Gap(T[l], k) <=> I[S[l].cobj[k]] = I[l] \cap Gap(S[l], k)
    <3>1. k \in 1 .. m + 1 /\ k \in 1 .. Len(S[l].cobj) /\ S[l].cobj[k] = T[l].cobj[k]
      BY <1>2
    <3>2. J[l] \cap Gap(T[l], k) = I[l] \cap Gap(S[l], k)
      BY <1>9, <1>10, <3>1
    <3>3. J[T[l].cobj[k]] = I[S[l].cobj[k]]
      BY <1>3, <3>1
    <3> QED BY <3>2, <3>3
  <2>2. ASSUME NEW k \in 1 .. Len(T[r].cobj)
        PROVE  J[T[r].cobj[k]] = J[r] \cap Gap(T[r], k) <=> I[S[l].cobj[m + 1 + k]] = I[l] \cap Gap(S[l], m + 1 + k)
    <3>1. k \in 1 .. n + 1 /\ m + 1 + k \in 1 .. Len(S[l].cobj) /\ S[l].cobj[m + 1 + k] = T[r].cobj[k]
      BY <1>2
    <3>2. J[r] \cap Gap(T[r], k) = I[l] \cap Gap(S[l], m + 1 + k)
      BY <1>9, <1>10, <3>1
    <3>3. J[T[r].cobj[k]] = I[S[l].cobj[m + 1 + k]]
      BY <1>3, <3>1
    <3> QED BY <3>2, <3>3
  <2>3. ASSUME \A k \in 1 .. Len(S[l].cobj) : I[S[l].cobj[k]] = I[l] \cap Gap(S[l], k)
        PROVE  /\ \A k \in 1 .. Len(T[l].cobj) : J[T[l].cobj[k]] = J[l] \cap Gap(T[l], k)
               /\ \A k \in 1 .. Len(T[r].cobj) : J[T[r].cobj[k]] = J[r] \cap Gap(T[r], k)
    <3>1. \A k \in 1 .. Len(T[l].cobj) : J[T[l].cobj[k]] = J[l] \cap Gap(T[l], k)
      BY <1>2, <2>1, <2>3
    <3>2. \A k \in 1 .. Len(T[r].cobj) : J[T[r].cobj[k]] = J[r] \cap Gap(T[r], k)
      BY <1>2, <2>2, <2>3
    <3> QED BY <3>1, <3>2
  <2>4. ASSUME \A k \in 1 .. Len(T[l].cobj) : J[T[l].cobj[k]] = J[l] \cap Gap(T[l], k),
               \A k \in 1 .. Len(T[r].cobj) : J[T[r].cobj[k]] = J[r] \cap Gap(T[r], k),
               NEW k \in 1 .. Len(S[l].cobj)
        PROVE  I[S[l].cobj[k]] = I[l] \cap Gap(S[l], k)
    <3>1. CASE k \in 1 .. Len(T[l].cobj)
      BY <2>1, <2>4, <3>1
    <3>2. ASSUME NEW j \in 1 .. Len(T[r].cobj), k = m + 1 + j PROVE I[S[l].cobj[k]] = I[l] \cap Gap(S[l], k)
      BY <2>2, <2>4, <3>2
    <3> QED BY <1>2, <3>1, <3>2
  <2> QED BY <2>3, <2>4
<1>11. ASSUME OrderedAt(S, I, l) PROVE OrderedAt(T, J, l) /\ OrderedAt(T, J, r) /\ s \in I[l]
  <2>1. Sorted(S[l]) /\ \A k \in 1 .. m + 1 + n : NameAt(S[l], k) \in I[l]
    BY <1>6, <1>11
  <2>2. /\ \A k \in 1 .. Len(T[l].cobj) : J[T[l].cobj[k]] = J[l] \cap Gap(T[l], k)
        /\ \A k \in 1 .. Len(T[r].cobj) : J[T[r].cobj[k]] = J[r] \cap Gap(T[r], k)
    BY <1>6, <1>10, <1>11, <2>1
  <2>3. \A k \in 1 .. m : NameAt(T[l], k) \in J[l]
    <3> TAKE k \in 1 .. m
    <3>1. k \in 1 .. m + 1 + n
      BY <1>0
    <3> QED BY <1>0, <1>1, <1>4, <2>1, <3>1
  <2>4. \A k \in 1 .. n : NameAt(T[r], k) \in J[r]
    <3> TAKE k \in 1 .. n
    <3>1. m + 1 + k \in 1 .. m + 1 + n
      BY <1>0
    <3>2. NameAt(T[r], k) \in I[l]
      BY <1>0, <2>1, <3>1
    <3> QED BY <1>1, <1>4, <2>1, <3>2
  <2>5. s \in I[l]
    <3>1. m + 1 \in 1 .. m + 1 + n
      BY <1>0
    <3> QED BY <1>0, <2>1, <3>1
  <2> QED BY <1>4, <1>7, <1>8, <2>1, <2>2, <2>3, <2>4, <2>5
<1>12. ASSUME OrderedAt(T, J, l), OrderedAt(T, J, r), s \in I[l] PROVE OrderedAt(S, I, l)
  <2>1. /\ \A k \in 1 .. m : NameAt(T[l], k) \in I[l] /\ NameAt(T[l], k) < s
        /\ \A k \in 1 .. n : NameAt(T[r], k) \in I[l] /\ s < NameAt(T[r], k)
    BY <1>1, <1>7, <1>8, <1>12
  <2>2. Sorted(S[l])
    BY <1>4, <1>7, <1>8, <1>12, <2>1
  <2>3. \A k \in 1 .. Len(S[l].cobj) : I[S[l].cobj[k]] = I[l] \cap Gap(S[l], k)
    BY <1>7, <1>8, <1>10, <1>12, <2>2
  <2>4. \A k \in 1 .. m + 1 + n : NameAt(S[l], k) \in I[l]
    <3> TAKE k \in 1 .. m + 1 + n
    <3>1. ASSUME NEW j \in 1 .. n, k = m + 1 + j PROVE NameAt(S[l], k) \in I[l]
      <4>1. NameAt(S[l], k) = NameAt(T[r], j)
        BY <1>0, <3>1
      <4> QED BY <2>1, <4>1
    <3> QED BY <1>0, <1>12, <2>1, <3>1
  <2> QED BY <1>6, <2>2, <2>3, <2>4
<1> QED BY <1>11, <1>12

LEMMA OrderedParent ==
    ASSUME NEW S, NEW T, NEW root, NEW p, NEW i, NEW l, NEW r, CutNodes(S, T, root, p, l, r), CutAbove(S, T, p, i, l, r),
           NEW s, NEW I, NEW J, SplitNames(S, l, r, s, I, J), MoreNames(S[p], T[p], i, s),
           I[l] = I[p] \cap Gap(S[p], i), s \in I[l]
    PROVE  OrderedAt(S, I, p) <=> OrderedAt(T, J, p)
<1> DEFINE m == Len(S[p].fdes)
<1>0. /\ m \in Nat /\ i \in 1 .. m + 1 /\ Len(T[p].fdes) = m + 1 /\ s \in Nat /\ s \in Fhash /\ NameAt(T[p], i) = s
      /\ \A j \in 1 .. m : /\ NameAt(S[p], j) \in Nat
                           /\ j < i => NameAt(T[p], j) = NameAt(S[p], j)
                           /\ i <= j => NameAt(T[p], j + 1) = NameAt(S[p], j)
      /\ \A k \in 1 .. m + 1 :
           /\ NameAt(T[p], k) \in Nat
           /\ k < i => k \in 1 .. m
           /\ i < k => k - 1 \in 1 .. m /\ i <= k - 1 /\ NameAt(T[p], k) = NameAt(S[p], k - 1)
  BY DEF MoreNames
<1>1. /\ Len(S[p].cobj) = m + 1 /\ Len(T[p].cobj) = m + 2
      /\ S[p].cobj[i] = l /\ T[p].cobj[i] = l /\ T[p].cobj[i + 1] = r
      /\ \A k \in 1 .. m + 1 :
           /\ S[p].cobj[k] \in Nodes(S) /\ (k # i => S[p].cobj[k] # l)
           /\ k < i => T[p].cobj[k] = S[p].cobj[k]
           /\ i < k => T[p].cobj[k + 1] = S[p].cobj[k]
  BY DEF CutAbove
<1>2. J[l] = {n \in I[l] : n < s} /\ J[r] = {n \in I[l] : s < n} /\ J[p] = I[p]
  BY DEF SplitNames, CutNodes
<1>3. \A k \in 1 .. m + 1 : k # i => J[S[p].cobj[k]] = I[S[p].cobj[k]]
  BY <1>1 DEF SplitNames
<1>4. Sorted(T[p]) <=> Sorted(S[p])
  BY MoreSorted
<1>5. Sorted(T[p]) =>
         /\ \A k \in 1 .. m : k < i => Gap(T[p], k) = Gap(S[p], k)
         /\ Gap(T[p], i) = {n \in Gap(S[p], i) : n < s}
         /\ Gap(T[p], i + 1) = {n \in Gap(S[p], i) : s < n}
         /\ \A k \in 1 .. m + 1 : i < k => Gap(T[p], k + 1) = Gap(S[p], k)
  BY MoreGaps
<1>6. OrderedAt(S, I, p) <=> /\ Sorted(S[p]) /\ \A k \in 1 .. m : NameAt(S[p], k) \in I[p]
                             /\ \A k \in 1 .. m + 1 : I[S[p].cobj[k]] = I[p] \cap Gap(S[p], k)
  BY <1>1 DEF OrderedAt
<1>7. OrderedAt(T, J, p) <=> /\ Sorted(T[p]) /\ \A k \in 1 .. m + 1 : NameAt(T[p], k) \in I[p]
                             /\ \A k \in 1 .. m + 2 : J[T[p].cobj[k]] = I[p] \cap Gap(T[p], k)
  BY <1>0, <1>1, <1>2 DEF OrderedAt
<1> HIDE DEF m
<1>8. (\A k \in 1 .. m : NameAt(S[p], k) \in I[p]) <=> \A k \in 1 .. m + 1 : NameAt(T[p], k) \in I[p]
  <2>1. ASSUME \A k \in 1 .. m : NameAt(S[p], k) \in I[p], NEW k \in 1 .. m + 1 PROVE NameAt(T[p], k) \in I[p]
    <3>1. CASE k < i
      BY <1>0, <2>1, <3>1
    <3>2. CASE k = i
      BY <1>0, <3>2
    <3>3. CASE i < k
      BY <1>0, <2>1, <3>3
    <3> QED BY <1>0, <3>1, <3>2, <3>3
  <2>2. ASSUME \A k \in 1 .. m + 1 : NameAt(T[p], k) \in I[p], NEW j \in 1 .. m PROVE NameAt(S[p], j) \in I[p]
    <3>1. j \in 1 .. m + 1 /\ j + 1 \in 1 .. m + 1
      BY <1>0
    <3> QED BY <1>0, <2>2, <3>1
  <2> QED BY <2>1, <2>2
<1>9. ASSUME Sorted(T[p])
      PROVE  (\A k \in 1 .. m + 1 : I[S[p].cobj[k]] = I[p] \cap Gap(S[p], k)) <=>
             \A k \in 1 .. m + 2 : J[T[p].cobj[k]] = I[p] \cap Gap(T[p], k)
  <2>1. ASSUME NEW k \in 1 .. m + 1, k < i
        PROVE  I[S[p].cobj[k]] = I[p] \cap Gap(S[p], k) <=> J[T[p].cobj[k]] = I[p] \cap Gap(T[p], k)
    <3>1. k \in 1 .. m /\ k # i
      BY <1>0, <2>1
    <3>2. T[p].cobj[k] = S[p].cobj[k] /\ Gap(T[p], k) = Gap(S[p], k)
      BY <1>1, <1>5, <1>9, <2>1, <3>1
    <3>3. J[S[p].cobj[k]] = I[S[p].cobj[k]]
      BY <1>3, <3>1
    <3> QED BY <3>2, <3>3
  <2>2. ASSUME NEW k \in 1 .. m + 1, i < k
        PROVE  I[S[p].cobj[k]] = I[p] \cap Gap(S[p], k) <=> J[T[p].cobj[k + 1]] = I[p] \cap Gap(T[p], k + 1)
    <3>1. k # i
      BY <1>0, <2>2
    <3>2. T[p].cobj[k + 1] = S[p].cobj[k] /\ Gap(T[p], k + 1) = Gap(S[p], k)
      BY <1>1, <1>5, <1>9, <2>2
    <3>3. J[S[p].cobj[k]] = I[S[p].cobj[k]]
      BY <1>3, <3>1
    <3> QED BY <3>2, <3>3
  <2>3. J[T[p].cobj[i]] = I[p] \cap Gap(T[p], i) /\ J[T[p].cobj[i + 1]] = I[p] \cap Gap(T[p], i + 1)
    <3>1. J[l] = I[p] \cap {n \in Gap(S[p], i) : n < s}
      BY <1>2
    <3>2. J[r] = I[p] \cap {n \in Gap(S[p], i) : s < n}
      BY <1>2
    <3> QED BY <1>1, <1>5, <1>9, <3>1, <3>2
  <2>4. I[S[p].cobj[i]] = I[p] \cap Gap(S[p], i)
    BY <1>1
  <2>5. \A k \in 1 .. m + 2 : \/ k \in 1 .. m + 1 /\ k < i
                              \/ k = i
                              \/ k = i + 1
                              \/ k - 1 \in 1 .. m + 1 /\ i < k - 1 /\ k = (k - 1) + 1
    BY <1>0
  <2>6. \A k \in 1 .. m + 1 : k \in 1 .. m + 2 /\ k + 1 \in 1 .. m + 2 /\ (k < i \/ k = i \/ i < k)
    BY <1>0
  <2>7. ASSUME \A k \in 1 .. m + 1 : I[S[p].cobj[k]] = I[p] \cap Gap(S[p], k), NEW k \in 1 .. m + 2
        PROVE  J[T[p].cobj[k]] = I[p] \cap Gap(T[p], k)
    <3>1. CASE k \in 1 .. m + 1 /\ k < i
      BY <2>1, <2>7, <3>1
    <3>2. CASE k = i \/ k = i + 1
      BY <2>3, <3>2
    <3>3. CASE k - 1 \in 1 .. m + 1 /\ i < k - 1 /\ k = (k - 1) + 1
      <4>1. PICK j \in 1 .. m + 1 : j = k - 1 /\ i < j /\ k = j + 1
        BY <3>3
      <4> QED BY <2>2, <2>7, <4>1
    <3> QED BY <2>5, <3>1, <3>2, <3>3
  <2>8. ASSUME \A k \in 1 .. m + 2 : J[T[p].cobj[k]] = I[p] \cap Gap(T[p], k), NEW k \in 1 .. m + 1
        PROVE  I[S[p].cobj[k]] = I[p] \cap Gap(S[p], k)
    <3>1. CASE k < i
      BY <2>1, <2>6, <2>8, <3>1
    <3>2. CASE k = i
      BY <2>4, <3>2
    <3>3. CASE i < k
      BY <2>2, <2>6, <2>8, <3>3
    <3> QED BY <2>6, <3>1, <3>2, <3>3
  <2> QED BY <2>7, <2>8
<1> QED BY <1>4, <1>6, <1>7, <1>8, <1>9

LEMMA CutOrdered ==
    ASSUME NEW S, NEW T, NEW p, NEW i, NEW l, NEW r, NEW e, Cut(S, T, p, i, l, r, e),
           NEW root, NEW h, Rooted(S, root, h), NEW g, Rooted(T, root, g),
           NEW I, Ordered(S, root, I), NEW J, SplitNames(S, l, r, e.fhash, I, J)
    PROVE  Ordered(T, root, J)
<1>1. CutNodes(S, T, root, p, l, r) /\ CutAbove(S, T, p, i, l, r) /\ CutBelow(S, T, l, r)
  BY CutNodesAre, CutAboveIs, CutBelowIs
<1>2. MoreNames(S[p], T[p], i, e.fhash) /\ MiddleNames(S[l], T[l], T[r], e.fhash)
  BY CutEntries
<1>3. p \in Nodes(S) /\ l \in Nodes(S) /\ Nodes(T) = Nodes(S) \cup {r} /\ l # root /\ root \in Nodes(S)
  BY <1>1 DEF CutNodes, Rooted
<1>4. I[root] = Fhash /\ \A j \in Nodes(S) : OrderedAt(S, I, j)
  BY OrderedIs
<1>5. J[root] = Fhash
  BY <1>3, <1>4 DEF SplitNames
<1>6. OrderedAt(T, J, l) /\ OrderedAt(T, J, r) /\ e.fhash \in I[l]
  BY <1>1, <1>2, <1>3, <1>4, OrderedPart
<1>7. I[l] = I[p] \cap Gap(S[p], i)
  <2>1. i \in 1 .. Len(S[p].cobj) /\ S[p].cobj[i] = l
    BY DEF Cut
  <2> QED BY <1>3, <1>4, <2>1 DEF OrderedAt
<1>8. OrderedAt(T, J, p)
  BY <1>1, <1>2, <1>3, <1>4, <1>6, <1>7, OrderedParent
<1>9. \A j \in Nodes(S) \ {p, l} : OrderedAt(T, J, j)
  BY <1>1, <1>4, OrderedElsewhere
<1>10. \A j \in Nodes(T) : OrderedAt(T, J, j)
  BY <1>3, <1>6, <1>8, <1>9
<1> QED BY <1>5, <1>10, OrderedIs

\* The names of a node that was two.
JoinNames(S, p, i, l, I, J) ==
    /\ I[l] = J[p] \cap Gap(S[p], i)
    /\ \A j \in Nodes(S) \ {l} : I[j] = J[j]

LEMMA UncutOrdered ==
    ASSUME NEW S, NEW T, NEW p, NEW i, NEW l, NEW r, NEW e, Cut(S, T, p, i, l, r, e),
           NEW root, NEW h, Rooted(S, root, h), NEW g, Rooted(T, root, g),
           NEW J, Ordered(T, root, J), NEW I, JoinNames(S, p, i, l, I, J)
    PROVE  Ordered(S, root, I) /\ SplitNames(S, l, r, e.fhash, I, J)
<1>1. CutNodes(S, T, root, p, l, r) /\ CutAbove(S, T, p, i, l, r) /\ CutBelow(S, T, l, r)
  BY CutNodesAre, CutAboveIs, CutBelowIs
<1>2. MoreNames(S[p], T[p], i, e.fhash) /\ MiddleNames(S[l], T[l], T[r], e.fhash)
  BY CutEntries
<1>3. /\ p \in Nodes(S) /\ l \in Nodes(S) /\ Nodes(T) = Nodes(S) \cup {r} /\ l # root /\ root \in Nodes(S)
      /\ p # l
  BY <1>1 DEF CutNodes, Rooted
<1>4. J[root] = Fhash /\ \A j \in Nodes(T) : OrderedAt(T, J, j)
  BY OrderedIs
<1>5. I[root] = Fhash /\ I[p] = J[p]
  BY <1>3, <1>4 DEF JoinNames
<1>6. Sorted(T[p])
  BY <1>3, <1>4 DEF OrderedAt
<1>7. /\ e.fhash \in Gap(S[p], i)
      /\ Gap(T[p], i) = {n \in Gap(S[p], i) : n < e.fhash}
      /\ Gap(T[p], i + 1) = {n \in Gap(S[p], i) : e.fhash < n}
  BY <1>2, <1>6, MoreSorted, MoreGaps
<1>8. /\ i \in 1 .. Len(T[p].cobj) /\ i + 1 \in 1 .. Len(T[p].cobj)
      /\ T[p].cobj[i] = l /\ T[p].cobj[i + 1] = r
  <2>1. /\ i \in 1 .. Len(S[p].fdes) + 1 /\ Len(S[p].fdes) \in Nat /\ Len(T[p].cobj) = Len(S[p].fdes) + 2
        /\ T[p].cobj[i] = l /\ T[p].cobj[i + 1] = r
    BY <1>1 DEF CutAbove
  <2>2. PICK n \in Nat : n = Len(S[p].fdes)
    BY <2>1
  <2>3. i \in 1 .. n + 2 /\ i + 1 \in 1 .. n + 2
    BY <2>1, <2>2
  <2> QED BY <2>1, <2>2, <2>3
<1>9. J[l] = J[p] \cap Gap(T[p], i) /\ J[r] = J[p] \cap Gap(T[p], i + 1)
  BY <1>3, <1>4, <1>8 DEF OrderedAt
<1>10. SplitNames(S, l, r, e.fhash, I, J)
  BY <1>7, <1>9 DEF SplitNames, JoinNames
<1>11. e.fhash \in J[p]
  <2>1. i \in 1 .. Len(T[p].fdes) /\ NameAt(T[p], i) = e.fhash
    BY <1>2 DEF MoreNames
  <2> QED BY <1>3, <1>4, <2>1 DEF OrderedAt
<1>12. e.fhash \in I[l] /\ I[l] = I[p] \cap Gap(S[p], i)
  BY <1>5, <1>7, <1>11 DEF JoinNames
<1>13. OrderedAt(S, I, l)
  BY <1>1, <1>2, <1>3, <1>4, <1>10, <1>12, OrderedPart
<1>14. OrderedAt(S, I, p)
  BY <1>1, <1>2, <1>3, <1>4, <1>10, <1>12, OrderedParent
<1>15. \A j \in Nodes(S) \ {p, l} : OrderedAt(S, I, j)
  BY <1>1, <1>3, <1>4, <1>10, OrderedElsewhere
<1>16. \A j \in Nodes(S) : OrderedAt(S, I, j)
  BY <1>13, <1>14, <1>15
<1> QED BY <1>5, <1>10, <1>16, OrderedIs

\* The files are the same.
LEMMA MiddleElems ==
    ASSUME NEW t, NEW a, NEW e, NEW b, Len(a) \in Nat, Len(b) \in Nat, IsMiddle(t, a, e, b)
    PROVE  Elems(t) = Elems(a) \cup {e} \cup Elems(b)
<1> PICK m \in Nat : m = Len(a)
  OBVIOUS
<1> PICK n \in Nat : n = Len(b)
  OBVIOUS
<1>1. /\ Len(t) = m + 1 + n
      /\ \A k \in 1 .. m : t[k] = a[k]
      /\ t[m + 1] = e
      /\ \A k \in 1 .. n : t[m + 1 + k] = b[k]
  BY DEF IsMiddle
<1>2. ASSUME NEW k \in 1 .. m + 1 + n PROVE t[k] \in Elems(a) \cup {e} \cup Elems(b)
  <2>1. CASE k <= m
    <3>1. k \in 1 .. m
      BY <2>1
    <3> QED BY <1>1, <3>1 DEF Elems
  <2>2. CASE k = m + 1
    BY <1>1, <2>2
  <2>3. CASE k > m + 1
    <3>1. PICK j \in 1 .. n : k = m + 1 + j
      <4>1. k - (m + 1) \in 1 .. n /\ k = m + 1 + (k - (m + 1))
        BY <2>3
      <4> QED BY <4>1
    <3>2. t[k] = b[j]
      BY <1>1, <3>1
    <3> QED BY <3>2 DEF Elems
  <2> QED BY <2>1, <2>2, <2>3
<1>3. ASSUME NEW k \in 1 .. m PROVE a[k] \in Elems(t)
  <2>1. k \in 1 .. m + 1 + n
    OBVIOUS
  <2> QED BY <1>1, <2>1 DEF Elems
<1>4. e \in Elems(t)
  <2>1. m + 1 \in 1 .. m + 1 + n
    OBVIOUS
  <2> QED BY <1>1, <2>1 DEF Elems
<1>5. ASSUME NEW k \in 1 .. n PROVE b[k] \in Elems(t)
  <2>1. m + 1 + k \in 1 .. m + 1 + n /\ t[m + 1 + k] = b[k]
    BY <1>1
  <2> QED BY <1>1, <2>1 DEF Elems
<1>6. Elems(t) \subseteq Elems(a) \cup {e} \cup Elems(b)
  BY <1>1, <1>2 DEF Elems
<1>7. Elems(a) \subseteq Elems(t) /\ Elems(b) \subseteq Elems(t)
  BY <1>3, <1>5 DEF Elems
<1> QED BY <1>4, <1>6, <1>7

LEMMA CutFiles ==
    ASSUME NEW S, NEW T, NEW p, NEW i, NEW l, NEW r, NEW e, Cut(S, T, p, i, l, r, e)
    PROVE  /\ FilesIn(T) = FilesIn(S)
           /\ Elems(T[p].fdes) = Elems(S[p].fdes) \cup {e}
           /\ Elems(S[l].fdes) = Elems(T[l].fdes) \cup {e} \cup Elems(T[r].fdes)
<1>1. /\ S \in Stores /\ T \in Stores /\ p \in Nodes(S) /\ l \in Nodes(S) /\ Nodes(T) = Nodes(S) \cup {r}
      /\ p # l /\ r \notin Nodes(S) /\ \A j \in Id \ {p, l, r} : T[j] = S[j]
      /\ i \in 1 .. Len(S[p].fdes) + 1 /\ IsInserted(T[p].fdes, S[p].fdes, i, e)
      /\ IsMiddle(S[l].fdes, T[l].fdes, e, T[r].fdes)
  BY DEF Cut
<1>2. S[p] \in TreeNode /\ S[l] \in TreeNode /\ T[p] \in TreeNode /\ T[l] \in TreeNode /\ T[r] \in TreeNode
  BY <1>1 DEF Stores, Nodes
<1>3. Elems(T[p].fdes) = Elems(S[p].fdes) \cup {e}
  BY <1>1, <1>2, NodeIs, InsertedElems
<1>4. Elems(S[l].fdes) = Elems(T[l].fdes) \cup {e} \cup Elems(T[r].fdes)
  BY <1>1, <1>2, NodeIs, MiddleElems
<1>5. \A j \in Nodes(S) \ {p, l} : T[j] = S[j]
  BY <1>1 DEF Nodes
<1>6. ASSUME NEW f PROVE f \in FilesIn(S) <=> (\E j \in Nodes(S) : f \in Elems(S[j].fdes))
  BY DEF FilesIn
<1>7. ASSUME NEW f PROVE f \in FilesIn(T) <=> (\E j \in Nodes(T) : f \in Elems(T[j].fdes))
  BY DEF FilesIn
<1>8. ASSUME NEW f, f \in FilesIn(S) PROVE f \in FilesIn(T)
  <2>1. PICK j \in Nodes(S) : f \in Elems(S[j].fdes)
    BY <1>6, <1>8
  <2>2. CASE j = p
    BY <1>1, <1>3, <1>7, <2>1, <2>2
  <2>3. CASE j = l
    BY <1>1, <1>3, <1>4, <1>7, <2>1, <2>3
  <2>4. CASE j # p /\ j # l
    <3>1. T[j] = S[j]
      BY <1>5, <2>1, <2>4
    <3> QED BY <1>1, <1>7, <2>1, <3>1
  <2> QED BY <2>2, <2>3, <2>4
<1>9. ASSUME NEW f, f \in FilesIn(T) PROVE f \in FilesIn(S)
  <2>1. PICK j \in Nodes(T) : f \in Elems(T[j].fdes)
    BY <1>7, <1>9
  <2>2. CASE j = p
    BY <1>1, <1>3, <1>4, <1>6, <2>1, <2>2
  <2>3. CASE j = l \/ j = r
    BY <1>1, <1>4, <1>6, <2>1, <2>3
  <2>4. CASE j # p /\ j # l /\ j # r
    <3>1. j \in Nodes(S) /\ T[j] = S[j]
      BY <1>1, <1>5, <2>1, <2>4
    <3> QED BY <1>6, <2>1, <3>1
  <2> QED BY <2>2, <2>3, <2>4
<1>10. FilesIn(T) = FilesIn(S)
  BY <1>8, <1>9
<1> QED BY <1>3, <1>4, <1>10
=============================================================================
