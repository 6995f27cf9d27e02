------------------------- MODULE DirBTreeOrder_proofs -------------------------
(***************************************************************************)
(* Proofs about DirBTree over the store that returns the stored node       *)
(* itself: the order of the names, and the tree as a directory.            *)
(*                                                                         *)
(* I[i] is the set of names that belong to node i: all of them at the      *)
(* root, and for a child those of its parent between the two entries it    *)
(* hangs between.  Ordered says that each node's names are sorted and      *)
(* belong to it.  TreeOrder adds what holds on the way down: the name      *)
(* searched for belongs to the node the call is for, or an entry has been  *)
(* replaced by the one next to it, which is still to be deleted below.     *)
(***************************************************************************)
EXTENDS DirBTree_proofs

(***************************************************************************)
(* A shift is a union and another cut.                                     *)
(***************************************************************************)
LEMMA ShiftMiddle ==
    ASSUME NEW t, NEW a, NEW b, NEW e, NEW x, NEW y, NEW f,
           Len(x) \in Nat, Len(b) \in Nat, IsInserted(a, x, Len(x) + 1, f), IsInserted(y, b, 1, e),
           IsMiddle(t, a, e, b)
    PROVE  IsMiddle(t, x, f, y)
<1>1. PICK m, n : m = Len(x) /\ n = Len(b) /\ m \in Nat /\ n \in Nat
  OBVIOUS
<1>2. /\ Len(a) = m + 1 /\ a[m + 1] = f /\ \A k \in 1 .. m : a[k] = x[k]
      /\ Len(y) = n + 1 /\ y[1] = e /\ \A k \in 2 .. n + 1 : y[k] = b[k - 1]
  BY <1>1 DEF IsInserted
<1>3. /\ Len(t) = (m + 1) + 1 + n /\ \A k \in 1 .. m + 1 : t[k] = a[k]
      /\ t[(m + 1) + 1] = e /\ \A k \in 1 .. n : t[(m + 1) + 1 + k] = b[k]
  BY <1>1, <1>2 DEF IsMiddle
<1>4. Len(t) = m + 1 + (n + 1)
  BY <1>1, <1>3
<1>5. \A k \in 1 .. m : t[k] = x[k]
  BY <1>1, <1>2, <1>3
<1>6. t[m + 1] = f
  BY <1>1, <1>2, <1>3
<1>7. ASSUME NEW k \in 1 .. n + 1 PROVE t[m + 1 + k] = y[k]
  <2>1. CASE k = 1
    <3>1. m + 1 + k = (m + 1) + 1
      BY <1>1, <2>1
    <3> QED BY <1>2, <1>3, <2>1, <3>1
  <2>2. CASE k # 1
    <3>1. k \in 2 .. n + 1 /\ k - 1 \in 1 .. n /\ m + 1 + k = (m + 1) + 1 + (k - 1)
      BY <1>1, <2>2
    <3>2. y[k] = b[k - 1] /\ t[(m + 1) + 1 + (k - 1)] = b[k - 1]
      BY <1>2, <1>3, <3>1
    <3> QED BY <3>1, <3>2
  <2> QED BY <2>1, <2>2
<1> QED BY <1>1, <1>2, <1>4, <1>5, <1>6, <1>7 DEF IsMiddle

LEMMA ShiftJoined ==
    ASSUME NEW t, NEW a, NEW b, NEW x, NEW y, NEW c,
           Len(x) \in Nat, Len(b) \in Nat, IsInserted(a, x, Len(x) + 1, c), IsInserted(y, b, 1, c),
           IsJoined(t, a, b)
    PROVE  IsJoined(t, x, y)
<1>1. PICK m, n : m = Len(x) /\ n = Len(b) /\ m \in Nat /\ n \in Nat
  OBVIOUS
<1>2. /\ Len(a) = m + 1 /\ a[m + 1] = c /\ \A k \in 1 .. m : a[k] = x[k]
      /\ Len(y) = n + 1 /\ y[1] = c /\ \A k \in 2 .. n + 1 : y[k] = b[k - 1]
  BY <1>1 DEF IsInserted
<1>3. /\ Len(t) = (m + 1) + n
      /\ \A k \in 1 .. (m + 1) + n : t[k] = IF k <= m + 1 THEN a[k] ELSE b[k - (m + 1)]
  BY <1>1, <1>2 DEF IsJoined
<1>4. Len(t) = m + (n + 1)
  BY <1>1, <1>3
<1>5. ASSUME NEW k \in 1 .. m + (n + 1) PROVE t[k] = IF k <= m THEN x[k] ELSE y[k - m]
  <2>1. CASE k <= m
    BY <1>1, <1>2, <1>3, <2>1
  <2>2. CASE k = m + 1
    <3>1. ~(k <= m) /\ k - m = 1 /\ k <= m + 1 /\ k \in 1 .. (m + 1) + n
      BY <1>1, <2>2
    <3> QED BY <1>2, <1>3, <2>2, <3>1
  <2>3. CASE k > m + 1
    <3>1. ~(k <= m) /\ ~(k <= m + 1) /\ k - m \in 2 .. n + 1 /\ k - (m + 1) = (k - m) - 1 /\ k \in 1 .. (m + 1) + n
      BY <1>1, <2>3
    <3>2. t[k] = b[k - (m + 1)] /\ y[k - m] = b[(k - m) - 1]
      BY <1>2, <1>3, <3>1
    <3> QED BY <3>1, <3>2
  <2> QED BY <1>1, <2>1, <2>2, <2>3
<1> QED BY <1>1, <1>2, <1>4, <1>5 DEF IsJoined

LEMMA ShiftAsCuts ==
    ASSUME NEW S, NEW T, NEW p, NEW i, NEW l, NEW r, NEW e, NEW f, NEW c, Shift(S, T, p, i, l, r, e, f, c),
           NEW root, NEW h, Rooted(S, root, h), Rooted(T, root, h)
    PROVE  \E U : Cut(U, S, p, i, l, r, e) /\ Cut(U, T, p, i, l, r, f)
<1>1. /\ S \in Stores /\ T \in Stores /\ Nodes(T) = Nodes(S)
      /\ p \in Nodes(S) /\ l \in Nodes(S) /\ r \in Nodes(S) /\ p # l /\ p # r /\ l # r
      /\ \A j \in Id \ {p, l, r} : T[j] = S[j]
      /\ T[p].leaf = S[p].leaf /\ T[l].leaf = S[l].leaf /\ T[r].leaf = S[r].leaf
      /\ S[r].leaf = S[l].leaf
      /\ i \in 1 .. Len(S[p].fdes) /\ i \in 1 .. Len(S[p].cobj) /\ i + 1 \in 1 .. Len(S[p].cobj)
      /\ S[p].cobj[i] = l /\ S[p].cobj[i + 1] = r
  BY DEF Shift
<1>2. /\ T[p].cobj = S[p].cobj /\ Len(T[p].fdes) = Len(S[p].fdes)
      /\ S[p].fdes[i] = e /\ T[p].fdes[i] = f
      /\ \A k \in 1 .. Len(S[p].fdes) : k # i => T[p].fdes[k] = S[p].fdes[k]
      /\ IsInserted(S[l].fdes, T[l].fdes, Len(T[l].fdes) + 1, f)
      /\ IsInserted(T[r].fdes, S[r].fdes, 1, e)
  BY DEF Shift
<1>3. /\ S[l].leaf => T[l].cobj = S[l].cobj /\ T[r].cobj = S[r].cobj
      /\ ~S[l].leaf => /\ IsInserted(S[l].cobj, T[l].cobj, Len(T[l].cobj) + 1, c)
                       /\ IsInserted(T[r].cobj, S[r].cobj, 1, c)
  BY DEF Shift
<1>4. \A j \in {p, l, r} : S[j] \in TreeNode /\ T[j] \in TreeNode /\ Branches(S[j]) /\ Branches(T[j])
  BY <1>1 DEF Rooted, Nodes, Stores
<1>5. Brothers(S, p, i, l, r)
  <2>1. i + 1 <= Len(S[p].cobj)
    BY <1>1, <1>4, NodeIs
  <2> QED BY <1>1, <1>4, <2>1 DEF Brothers
<1>6. PICK u, x, U : AreUnited(S, p, i, l, r, u, x, U)
  BY DEF AreUnited
<1>7. Cut(U, S, p, i, l, r, e)
  BY <1>2, <1>5, <1>6, UnionIsCut
<1>8. /\ U \in Stores /\ p \in Nodes(U) /\ l \in Nodes(U) /\ r \in Id \ Nodes(U)
      /\ Nodes(S) = Nodes(U) \cup {r}
      /\ \A j \in Id \ {p, l, r} : S[j] = U[j]
      /\ S[p].leaf = U[p].leaf /\ S[l].leaf = U[l].leaf /\ S[r].leaf = U[l].leaf
      /\ i \in 1 .. Len(U[p].fdes) + 1 /\ i \in 1 .. Len(U[p].cobj) /\ U[p].cobj[i] = l
      /\ IsInserted(S[p].fdes, U[p].fdes, i, e)
      /\ IsInserted(S[p].cobj, U[p].cobj, i + 1, r)
      /\ IsMiddle(U[l].fdes, S[l].fdes, e, S[r].fdes)
      /\ IsJoined(U[l].cobj, S[l].cobj, S[r].cobj)
      /\ Branches(U[l])
  BY <1>7 DEF Cut
<1>9. \A j \in {p, l, r} : /\ Len(S[j].fdes) \in Nat /\ Len(T[j].fdes) \in Nat
                           /\ Len(S[j].cobj) \in Nat /\ Len(T[j].cobj) \in Nat
  BY <1>4, NodeIs
<1>10. IsInserted(T[p].fdes, U[p].fdes, i, f)
  <2>1. /\ Len(S[p].fdes) = Len(U[p].fdes) + 1
        /\ \A k \in 1 .. Len(U[p].fdes) + 1 :
             S[p].fdes[k] = IF k < i THEN U[p].fdes[k] ELSE IF k = i THEN e ELSE U[p].fdes[k - 1]
    BY <1>8 DEF IsInserted
  <2>2. ASSUME NEW k \in 1 .. Len(U[p].fdes) + 1
        PROVE  T[p].fdes[k] = IF k < i THEN U[p].fdes[k] ELSE IF k = i THEN f ELSE U[p].fdes[k - 1]
    <3>1. CASE k = i
      <4>1. ~(k < i)
        BY <1>1, <3>1
      <4> QED BY <1>2, <3>1, <4>1
    <3>2. CASE k # i
      <4>1. T[p].fdes[k] = S[p].fdes[k]
        BY <1>2, <2>1, <3>2
      <4> QED BY <2>1, <3>2, <4>1
    <3> QED BY <3>1, <3>2
  <2> QED BY <1>2, <2>1, <2>2 DEF IsInserted
<1>11. IsMiddle(U[l].fdes, T[l].fdes, f, T[r].fdes)
  <2>1. PICK tt, a, b, v, y : /\ tt = U[l].fdes /\ a = S[l].fdes /\ b = S[r].fdes
                               /\ v = T[l].fdes /\ y = T[r].fdes
    OBVIOUS
  <2>2. /\ Len(v) \in Nat /\ Len(b) \in Nat /\ IsInserted(a, v, Len(v) + 1, f) /\ IsInserted(y, b, 1, e)
        /\ IsMiddle(tt, a, e, b)
    BY <1>2, <1>8, <1>9, <2>1
  <2>3. IsMiddle(tt, v, f, y)
    BY <2>2, ShiftMiddle
  <2> QED BY <2>1, <2>3
<1>12. IsJoined(U[l].cobj, T[l].cobj, T[r].cobj)
  <2>1. CASE S[l].leaf
    BY <1>3, <1>8, <2>1
  <2>2. CASE ~S[l].leaf
    <3>1. PICK tt, a, b, v, y : /\ tt = U[l].cobj /\ a = S[l].cobj /\ b = S[r].cobj
                                 /\ v = T[l].cobj /\ y = T[r].cobj
      OBVIOUS
    <3>2. /\ Len(v) \in Nat /\ Len(b) \in Nat /\ IsInserted(a, v, Len(v) + 1, c) /\ IsInserted(y, b, 1, c)
          /\ IsJoined(tt, a, b)
      BY <1>3, <1>8, <1>9, <2>2, <3>1
    <3>3. IsJoined(tt, v, y)
      BY <3>2, ShiftJoined
    <3> QED BY <3>1, <3>3
  <2> QED BY <2>1, <2>2
<1>13. Nodes(T) = Nodes(U) \cup {r} /\ \A j \in Id \ {p, l, r} : T[j] = U[j]
  BY <1>1, <1>8
<1>14. /\ T[p].leaf = U[p].leaf /\ T[l].leaf = U[l].leaf /\ T[r].leaf = U[l].leaf
       /\ IsInserted(T[p].cobj, U[p].cobj, i + 1, r)
  BY <1>1, <1>2, <1>8
<1>15. Cut(U, T, p, i, l, r, f)
  BY <1>1, <1>4, <1>8, <1>10, <1>11, <1>12, <1>13, <1>14 DEF Cut
<1> QED BY <1>7, <1>15

LEMMA RecutOrdered ==
    ASSUME NEW U, NEW S, NEW T, NEW p, NEW i, NEW l, NEW r, NEW e, NEW f,
           Cut(U, S, p, i, l, r, e), Cut(U, T, p, i, l, r, f),
           NEW root, NEW h, Rooted(S, root, h), Rooted(T, root, h), NEW J, Ordered(S, root, J)
    PROVE  \E I, K : /\ Ordered(T, root, K)
                     /\ SplitNames(U, l, r, e.fhash, I, J) /\ SplitNames(U, l, r, f.fhash, I, K)
<1>1. Rooted(U, root, h)
  BY UncutRooted
<1>2. l \in Nodes(U) /\ r \notin Nodes(U) /\ l # r /\ Nodes(S) = Nodes(U) \cup {r}
  BY DEF Cut
<1>3. PICK I : I = [j \in Nodes(U) |-> IF j = l THEN J[p] \cap Gap(U[p], i) ELSE J[j]]
  OBVIOUS
<1>4. JoinNames(U, p, i, l, I, J)
  BY <1>2, <1>3 DEF JoinNames
<1>5. Ordered(U, root, I) /\ SplitNames(U, l, r, e.fhash, I, J)
  BY <1>1, <1>4, UncutOrdered
<1>6. PICK K : K = [j \in Nodes(S) |-> IF j = l THEN {n \in I[l] : n < f.fhash}
                                       ELSE IF j = r THEN {n \in I[l] : f.fhash < n} ELSE I[j]]
  OBVIOUS
<1>7. SplitNames(U, l, r, f.fhash, I, K)
  BY <1>2, <1>6 DEF SplitNames
<1>8. Ordered(T, root, K)
  BY <1>1, <1>5, <1>7, CutOrdered
<1> QED BY <1>5, <1>7, <1>8

LEMMA NamesIn ==
    ASSUME NEW S, NEW root, NEW h, Rooted(S, root, h), NEW I, Ordered(S, root, I), NEW j \in Nodes(S)
    PROVE  I[j] \subseteq Fhash
<1>1. CASE j = root
  BY <1>1 DEF Ordered
<1>2. CASE j # root
  <2>1. PICK q, k : IsKid(S, h, q, k, j)
    BY <1>2, ParentIs
  <2>2. I[j] = I[q] \cap Gap(S[q], k)
    BY <2>1, KidIn
  <2> QED BY <2>2 DEF Gap
<1> QED BY <1>1, <1>2

\* What a shift leaves to the node that takes an entry, and the files.
LEMMA ShiftOrdered ==
    ASSUME NEW S, NEW T, NEW p, NEW i, NEW l, NEW r, NEW e, NEW f, NEW c, Shift(S, T, p, i, l, r, e, f, c),
           NEW root, NEW h, Rooted(S, root, h), Rooted(T, root, h)
    PROVE  /\ \A J : Ordered(S, root, J) => \E K : Ordered(T, root, K) /\ J[r] \subseteq K[r]
           /\ \A K : Ordered(T, root, K) => \E J : Ordered(S, root, J) /\ K[l] \subseteq J[l]
           /\ FilesIn(T) = FilesIn(S)
<1>1. PICK U : Cut(U, S, p, i, l, r, e) /\ Cut(U, T, p, i, l, r, f)
  BY ShiftAsCuts
<1>2. e \in Entry /\ f \in Entry /\ MiddleNames(U[l], S[l], S[r], e.fhash) /\ MiddleNames(U[l], T[l], T[r], f.fhash)
  BY <1>1, CutEntries
<1>3. l \in Nodes(S) /\ r \in Nodes(T) /\ S[l] \in TreeNode /\ T[r] \in TreeNode /\ S[r] \in TreeNode /\ T[l] \in TreeNode
  BY DEF Shift, Nodes, Stores
<1>4. e.fhash \in Nat /\ f.fhash \in Nat
  BY <1>2, EntryIs
<1>5. /\ Len(S[l].fdes) \in 1 .. Len(S[l].fdes) /\ S[l].fdes[Len(S[l].fdes)] = f
      /\ 1 \in 1 .. Len(T[r].fdes) /\ T[r].fdes[1] = e
  <2>1. /\ IsInserted(S[l].fdes, T[l].fdes, Len(T[l].fdes) + 1, f)
        /\ IsInserted(T[r].fdes, S[r].fdes, 1, e)
    BY DEF Shift
  <2>2. PICK m, n : m = Len(T[l].fdes) /\ n = Len(S[r].fdes) /\ m \in Nat /\ n \in Nat
    BY <1>3, NodeIs
  <2>4. m + 1 \in 1 .. m + 1 /\ 1 \in 1 .. n + 1 /\ ~(m + 1 < m + 1) /\ ~(1 < 1)
    BY <2>2
  <2>3. Len(S[l].fdes) = m + 1 /\ S[l].fdes[m + 1] = f /\ Len(T[r].fdes) = n + 1 /\ T[r].fdes[1] = e
    <3>1. \A k \in 1 .. m + 1 : S[l].fdes[k] = IF k < m + 1 THEN T[l].fdes[k] ELSE IF k = m + 1 THEN f ELSE T[l].fdes[k - 1]
      BY <2>1, <2>2 DEF IsInserted
    <3>2. \A k \in 1 .. n + 1 : T[r].fdes[k] = IF k < 1 THEN S[r].fdes[k] ELSE IF k = 1 THEN e ELSE S[r].fdes[k - 1]
      BY <2>1, <2>2 DEF IsInserted
    <3>3. Len(S[l].fdes) = m + 1 /\ Len(T[r].fdes) = n + 1
      BY <2>1, <2>2 DEF IsInserted
    <3>4. S[l].fdes[m + 1] = f
      BY <2>4, <3>1
    <3>5. T[r].fdes[1] = e
      BY <2>4, <3>2
    <3> QED BY <3>3, <3>4, <3>5
  <2> QED BY <2>2, <2>3
<1>9. l \in Nodes(S) /\ r \in Nodes(S) /\ l \in Nodes(T) /\ r \in Nodes(T)
  BY DEF Shift
<1>6. ASSUME NEW J, Ordered(S, root, J) PROVE \E K : Ordered(T, root, K) /\ J[r] \subseteq K[r]
  <2>1. PICK I, K : Ordered(T, root, K) /\ SplitNames(U, l, r, e.fhash, I, J) /\ SplitNames(U, l, r, f.fhash, I, K)
    BY <1>1, <1>6, RecutOrdered
  <2>2. f.fhash \in J[l]
    BY <1>3, <1>5, <1>6 DEF Ordered, NameAt
  <2>3. f.fhash < e.fhash
    BY <2>1, <2>2 DEF SplitNames
  <2>4. ASSUME NEW n \in J[r] PROVE n \in K[r]
    <3>1. n \in I[l] /\ e.fhash < n
      BY <2>1 DEF SplitNames
    <3>2. n \in Nat
      <4>1. n \in Fhash
        BY <1>9, <1>6, NamesIn
      <4> QED BY <4>1, FhashIs
    <3>3. f.fhash < n
      BY <1>4, <2>3, <3>1, <3>2
    <3> QED BY <2>1, <3>1, <3>3 DEF SplitNames
  <2> QED BY <2>1, <2>4
<1>7. ASSUME NEW K, Ordered(T, root, K) PROVE \E J : Ordered(S, root, J) /\ K[l] \subseteq J[l]
  <2>1. PICK I, J : Ordered(S, root, J) /\ SplitNames(U, l, r, f.fhash, I, K) /\ SplitNames(U, l, r, e.fhash, I, J)
    BY <1>1, <1>7, RecutOrdered
  <2>2. e.fhash \in K[r]
    BY <1>3, <1>5, <1>7 DEF Ordered, NameAt
  <2>3. f.fhash < e.fhash
    BY <2>1, <2>2 DEF SplitNames
  <2>4. ASSUME NEW n \in K[l] PROVE n \in J[l]
    <3>1. n \in I[l] /\ n < f.fhash
      BY <2>1 DEF SplitNames
    <3>2. n \in Nat
      <4>1. n \in Fhash
        BY <1>9, <1>7, NamesIn
      <4> QED BY <4>1, FhashIs
    <3>3. n < e.fhash
      BY <1>4, <2>3, <3>1, <3>2
    <3> QED BY <2>1, <3>1, <3>3 DEF SplitNames
  <2> QED BY <2>1, <2>4
<1>8. FilesIn(S) = FilesIn(U) /\ FilesIn(T) = FilesIn(U)
  BY <1>1, CutFiles
<1> QED BY <1>6, <1>7, <1>8

(***************************************************************************)
(* Other names in the same order keep the order of the tree.               *)
(***************************************************************************)
Convex(K) == \A a, b \in K : \A n \in Fhash : a < n /\ n < b => n \in K

LEMMA AllConvex ==
    ASSUME NEW S, NEW root, NEW h, Rooted(S, root, h), NEW I, Ordered(S, root, I), NEW j \in Nodes(S)
    PROVE  Convex(I[j])
<1> DEFINE Good == {d \in 0 .. h[root] : \A a \in Nodes(S) : h[a] = h[root] - d => Convex(I[a])}
<1>1. \A a \in Nodes(S) : h[a] \in Nat /\ h[root] \in Nat /\ h[a] <= h[root]
  BY DEF Rooted
<1>2. \A a \in Nodes(S) : a # root => \E p, k : IsKid(S, h, p, k, a)
  BY ParentIs
<1>3. 0 \in Good
  <2>1. ASSUME NEW a \in Nodes(S), h[a] = h[root] PROVE a = root
    <3> SUFFICES ASSUME a # root PROVE FALSE
      OBVIOUS
    <3>1. PICK p, k : IsKid(S, h, p, k, a)
      BY <1>2
    <3>2. p \in Nodes(S) /\ h[p] = h[a] + 1
      BY <3>1 DEF IsKid
    <3> QED BY <1>1, <2>1, <3>2
  <2>2. Convex(I[root])
    BY DEF Ordered, Convex
  <2>3. 0 \in 0 .. h[root] /\ h[root] - 0 = h[root]
    BY <1>1 DEF Rooted
  <2> QED BY <2>1, <2>2, <2>3
<1>4. ASSUME NEW d \in 1 .. h[root], d - 1 \in Good PROVE d \in Good
  <2> SUFFICES ASSUME NEW a \in Nodes(S), h[a] = h[root] - d PROVE Convex(I[a])
    BY <1>1
  <2>1. a # root
    BY <1>1
  <2>2. PICK p, k : IsKid(S, h, p, k, a)
    BY <1>2, <2>1
  <2>3. p \in Nodes(S) /\ h[p] = h[root] - (d - 1) /\ S[p] \in TreeNode
    BY <1>1, <2>2 DEF IsKid
  <2>4. Convex(I[p])
    BY <1>4, <2>3
  <2>5. I[a] = I[p] \cap Gap(S[p], k)
    BY <2>2, KidIn
  <2>6. Convex(Gap(S[p], k))
    <3> SUFFICES ASSUME NEW x \in Gap(S[p], k), NEW y \in Gap(S[p], k), NEW n \in Fhash, x < n, n < y
                 PROVE  n \in Gap(S[p], k)
      BY DEF Convex
    <3>1. x \in Nat /\ y \in Nat /\ n \in Nat
      BY FhashIs DEF Gap
    <3>2. ASSUME NEW t \in 1 .. Len(S[p].fdes)
          PROVE  (t < k => NameAt(S[p], t) < n) /\ (k <= t => n < NameAt(S[p], t))
      <4>1. NameAt(S[p], t) \in Nat
        BY <2>3, NamesAre
      <4>2. (t < k => NameAt(S[p], t) < x) /\ (k <= t => y < NameAt(S[p], t))
        BY DEF Gap
      <4> QED BY <3>1, <4>1, <4>2
    <3> QED BY <3>2 DEF Gap
  <2> QED BY <2>4, <2>5, <2>6 DEF Convex
<1> HIDE DEF Good
<1>5. \A d \in 0 .. h[root] : d \in Good
  BY <1>1, <1>3, <1>4, UpTo DEF Rooted
<1>6. h[root] - h[j] \in 0 .. h[root] /\ h[root] - (h[root] - h[j]) = h[j]
  BY <1>1
<1>7. h[root] - h[j] \in Good
  BY <1>5, <1>6
<1> QED BY <1>6, <1>7 DEF Good

\* Stores W and T have the same branches, and their names the same order.
SameOrder(W, T) ==
    /\ Nodes(T) = Nodes(W)
    /\ \A j \in Nodes(W) : /\ W[j] \in TreeNode /\ T[j] \in TreeNode
                           /\ T[j].cobj = W[j].cobj /\ Len(T[j].fdes) = Len(W[j].fdes)
    /\ \A i \in Nodes(W) : \A j \in Nodes(W) : \A k \in 1 .. Len(W[i].fdes) : \A l \in 1 .. Len(W[j].fdes) :
         NameAt(W[i], k) < NameAt(W[j], l) <=> NameAt(T[i], k) < NameAt(T[j], l)

\* Name n is in T where name m is in W, as to the names not in K.
Outside(W, T, K, m, n) ==
    \A i \in Nodes(W) : \A k \in 1 .. Len(W[i].fdes) : NameAt(W[i], k) \notin K =>
      /\ NameAt(W[i], k) < m => NameAt(T[i], k) < n
      /\ m < NameAt(W[i], k) => n < NameAt(T[i], k)

\* Two names of K are on the same side of a name not in K.
LEMMA OneSide ==
    ASSUME NEW K, Convex(K), NEW a \in K, NEW b \in K, NEW c \in Fhash, c \notin K, K \subseteq Fhash
    PROVE  (c < a <=> c < b) /\ (a < c <=> b < c)
<1>1. a \in Nat /\ b \in Nat /\ c \in Nat
  BY FhashIs
<1>2. ~(a < c /\ c < b) /\ ~(b < c /\ c < a)
  BY DEF Convex
<1>3. c # a /\ c # b
  OBVIOUS
<1> QED BY <1>1, <1>2, <1>3

LEMMA OutsideSame ==
    ASSUME NEW W, NEW T, SameOrder(W, T), NEW K, Convex(K), K \subseteq Fhash, NEW a \in K, NEW b \in K, NEW n
    PROVE  Outside(W, T, K, a, n) <=> Outside(W, T, K, b, n)
<1>1. ASSUME NEW i \in Nodes(W), NEW k \in 1 .. Len(W[i].fdes), NameAt(W[i], k) \notin K
      PROVE  /\ NameAt(W[i], k) < a <=> NameAt(W[i], k) < b
             /\ a < NameAt(W[i], k) <=> b < NameAt(W[i], k)
  <2>1. W[i] \in TreeNode
    BY DEF SameOrder
  <2>2. NameAt(W[i], k) \in Fhash
    BY <2>1, NamesAre
  <2> QED BY <1>1, <2>2, OneSide
<1> QED BY <1>1 DEF Outside

LEMMA OutsideKid ==
    ASSUME NEW W, NEW T, SameOrder(W, T), NEW K, Convex(K), K \subseteq Fhash, NEW j \in Nodes(W),
           NEW k \in 1 .. Len(W[j].fdes) + 1, NEW m \in K, NEW L, L = K \cap Gap(W[j], k), m \in L, NEW n \in Fhash
    PROVE  Outside(W, T, L, m, n) <=> Outside(W, T, K, m, n) /\ n \in Gap(T[j], k)
<1>1. /\ W[j] \in TreeNode /\ T[j] \in TreeNode /\ Len(T[j].fdes) = Len(W[j].fdes) /\ Nodes(T) = Nodes(W)
      /\ \A i \in Nodes(W) : W[i] \in TreeNode /\ T[i] \in TreeNode /\ Len(T[i].fdes) = Len(W[i].fdes)
  BY DEF SameOrder
<1>2. m \in Nat /\ n \in Nat
  BY FhashIs
<1>3. ASSUME NEW i \in Nodes(W), NEW t \in 1 .. Len(W[i].fdes)
      PROVE  NameAt(W[i], t) \in Nat /\ NameAt(T[i], t) \in Nat /\ NameAt(W[i], t) \in Fhash
  <2>1. t \in 1 .. Len(T[i].fdes) /\ W[i] \in TreeNode /\ T[i] \in TreeNode
    BY <1>1
  <2> QED BY <2>1, NamesAre
<1>4. ASSUME NEW t \in 1 .. Len(W[j].fdes)
      PROVE  /\ NameAt(W[j], t) \notin L
             /\ t < k => NameAt(W[j], t) < m
             /\ k <= t => m < NameAt(W[j], t)
  <2>1. t < k => NameAt(W[j], t) < m
    BY DEF Gap
  <2>2. k <= t => m < NameAt(W[j], t)
    BY DEF Gap
  <2>3. NameAt(W[j], t) \notin Gap(W[j], k)
    <3>1. Holding(W[j], NameAt(W[j], t))
      BY DEF Holding
    <3> QED BY <1>1, <3>1, GapHasNone
  <2> QED BY <2>1, <2>2, <2>3
<1>5. ASSUME Outside(W, T, L, m, n) PROVE Outside(W, T, K, m, n) /\ n \in Gap(T[j], k)
  <2>1. Outside(W, T, K, m, n)
    BY <1>5 DEF Outside
  <2>2. ASSUME NEW t \in 1 .. Len(T[j].fdes)
        PROVE  (t < k => NameAt(T[j], t) < n) /\ (k <= t => n < NameAt(T[j], t))
    <3>1. t \in 1 .. Len(W[j].fdes)
      BY <1>1
    <3>2. /\ NameAt(W[j], t) < m => NameAt(T[j], t) < n
          /\ m < NameAt(W[j], t) => n < NameAt(T[j], t)
      BY <1>4, <1>5, <3>1 DEF Outside
    <3> QED BY <1>4, <3>1, <3>2
  <2> QED BY <2>1, <2>2 DEF Gap
<1>6. ASSUME Outside(W, T, K, m, n), n \in Gap(T[j], k) PROVE Outside(W, T, L, m, n)
  <2> SUFFICES ASSUME NEW i \in Nodes(W), NEW s \in 1 .. Len(W[i].fdes), NameAt(W[i], s) \notin L
               PROVE  /\ NameAt(W[i], s) < m => NameAt(T[i], s) < n
                      /\ m < NameAt(W[i], s) => n < NameAt(T[i], s)
    BY DEF Outside
  <2>1. CASE NameAt(W[i], s) \notin K
    BY <1>6, <2>1 DEF Outside
  <2>2. CASE NameAt(W[i], s) \in K
    <3>1. NameAt(W[i], s) \notin Gap(W[j], k)
      BY <2>2
    <3>2. PICK t \in 1 .. Len(W[j].fdes) :
             \/ t < k /\ ~(NameAt(W[j], t) < NameAt(W[i], s))
             \/ k <= t /\ ~(NameAt(W[i], s) < NameAt(W[j], t))
      BY <1>3, <3>1 DEF Gap
    <3>3. /\ t < k => NameAt(T[j], t) < n
          /\ k <= t => n < NameAt(T[j], t)
      <4>1. t \in 1 .. Len(T[j].fdes)
        BY <1>1
      <4> QED BY <1>6, <4>1 DEF Gap
    <3>4. /\ NameAt(W[j], t) < NameAt(W[i], s) <=> NameAt(T[j], t) < NameAt(T[i], s)
          /\ NameAt(W[i], s) < NameAt(W[j], t) <=> NameAt(T[i], s) < NameAt(T[j], t)
      BY DEF SameOrder
    <3>5. /\ NameAt(W[i], s) \in Nat /\ NameAt(T[i], s) \in Nat
          /\ NameAt(W[j], t) \in Nat /\ NameAt(T[j], t) \in Nat
      BY <1>3
    <3>6. CASE t < k /\ ~(NameAt(W[j], t) < NameAt(W[i], s))
      <4>1. NameAt(W[j], t) < m
        BY <1>4, <3>6
      <4> QED BY <1>2, <3>3, <3>4, <3>5, <3>6, <4>1
    <3>7. CASE k <= t /\ ~(NameAt(W[i], s) < NameAt(W[j], t))
      <4>1. m < NameAt(W[j], t)
        BY <1>4, <3>7
      <4> QED BY <1>2, <3>3, <3>4, <3>5, <3>7, <4>1
    <3> QED BY <3>2, <3>6, <3>7
  <2> QED BY <2>1, <2>2
<1> QED BY <1>5, <1>6

LEMMA OrderCarries ==
    ASSUME NEW W, NEW T, SameOrder(W, T), NEW root, NEW h, Rooted(W, root, h),
           NEW I, Ordered(W, root, I), \A j \in Nodes(W) : j # root => Len(W[j].fdes) >= 1
    PROVE  \E J : Ordered(T, root, J)
<1>1. PICK J : J = [j \in Nodes(W) |-> {n \in Fhash : Outside(W, T, I[j], NameAt(W[j], 1), n)}]
  OBVIOUS
<1>2. /\ Nodes(T) = Nodes(W) /\ root \in Nodes(W)
      /\ \A i \in Nodes(W) : /\ W[i] \in TreeNode /\ T[i] \in TreeNode /\ Len(T[i].fdes) = Len(W[i].fdes)
                             /\ T[i].cobj = W[i].cobj
  BY DEF SameOrder, Rooted
<1>3. \A j \in Nodes(W) : J[j] = {n \in Fhash : Outside(W, T, I[j], NameAt(W[j], 1), n)}
  BY <1>1
<1>4. ASSUME NEW i \in Nodes(W), NEW t \in 1 .. Len(W[i].fdes)
      PROVE  /\ NameAt(W[i], t) \in Nat /\ NameAt(T[i], t) \in Nat
             /\ NameAt(W[i], t) \in Fhash /\ NameAt(T[i], t) \in Fhash /\ NameAt(W[i], t) \in I[i]
  <2>1. t \in 1 .. Len(T[i].fdes) /\ W[i] \in TreeNode /\ T[i] \in TreeNode
    BY <1>2
  <2> QED BY <2>1, NamesAre DEF Ordered
<1>5. J[root] = Fhash
  <2>1. I[root] = Fhash
    BY DEF Ordered
  <2>2. ASSUME NEW n PROVE Outside(W, T, I[root], NameAt(W[root], 1), n)
    BY <1>4, <2>1 DEF Outside
  <2> QED BY <1>2, <1>3, <2>2
<1>6. ASSUME NEW j \in Nodes(W) PROVE Sorted(T[j])
  <2>1. Sorted(W[j])
    BY DEF Ordered
  <2> QED BY <1>2, <2>1 DEF Sorted, SameOrder
<1>7. ASSUME NEW j \in Nodes(W) PROVE I[j] \subseteq Fhash /\ Convex(I[j])
  BY NamesIn, AllConvex
<1>8. ASSUME NEW j \in Nodes(W), NEW k \in 1 .. Len(T[j].fdes) PROVE NameAt(T[j], k) \in J[j]
  <2>1. k \in 1 .. Len(W[j].fdes) /\ 1 \in 1 .. Len(W[j].fdes)
    <3>1. Len(W[j].fdes) \in Nat
      BY <1>2, NodeIs
    <3> QED BY <1>2, <3>1
  <2>2. NameAt(W[j], k) \in I[j] /\ NameAt(W[j], 1) \in I[j]
    BY <1>4, <2>1
  <2>3. Outside(W, T, I[j], NameAt(W[j], k), NameAt(T[j], k))
    BY <2>1 DEF Outside, SameOrder
  <2>4. Outside(W, T, I[j], NameAt(W[j], 1), NameAt(T[j], k))
    BY <1>7, <2>2, <2>3, OutsideSame
  <2> QED BY <1>3, <1>4, <2>1, <2>4
<1>9. ASSUME NEW j \in Nodes(W), NEW k \in 1 .. Len(T[j].cobj)
      PROVE  J[T[j].cobj[k]] = J[j] \cap Gap(T[j], k)
  <2>1. PICK i : i = W[j].cobj[k]
    OBVIOUS
  <2>2. /\ i = T[j].cobj[k] /\ i \in Nodes(W) /\ i # root /\ k \in 1 .. Len(W[j].cobj)
        /\ k \in 1 .. Len(W[j].fdes) + 1
    <3>1. k \in 1 .. Len(W[j].cobj) /\ i = T[j].cobj[k]
      BY <1>2, <2>1
    <3>2. i \in Nodes(W) /\ i # root
      <4>1. \A c \in 1 .. Len(W[j].cobj) : W[j].cobj[c] \in Nodes(W) /\ W[j].cobj[c] # root
        BY RootedIs
      <4> QED BY <2>1, <3>1, <4>1
    <3>3. Len(W[j].cobj) = 0 \/ Len(W[j].cobj) = Len(W[j].fdes) + 1
      BY DEF Rooted, Branches
    <3>4. Len(W[j].fdes) \in Nat
      BY <1>2, NodeIs
    <3> QED BY <3>1, <3>2, <3>3, <3>4
  <2>3. I[i] = I[j] \cap Gap(W[j], k)
    BY <2>1, <2>2 DEF Ordered
  <2>4. PICK m : m = NameAt(W[i], 1)
    OBVIOUS
  <2>5. m \in I[i] /\ m \in I[j]
    <3>1. 1 \in 1 .. Len(W[i].fdes)
      <4>1. Len(W[i].fdes) \in Nat /\ Len(W[i].fdes) >= 1
        BY <1>2, <2>2, NodeIs
      <4> QED BY <4>1
    <3> QED BY <1>4, <2>2, <2>3, <2>4, <3>1
  <2>6. ASSUME NEW n \in Fhash
        PROVE  Outside(W, T, I[j], m, n) <=> Outside(W, T, I[j], NameAt(W[j], 1), n)
    <3>1. CASE j = root
      <4>1. I[j] = Fhash
        BY <3>1 DEF Ordered
      <4> QED BY <1>4, <4>1 DEF Outside
    <3>2. CASE j # root
      <4>1. 1 \in 1 .. Len(W[j].fdes)
        <5>1. Len(W[j].fdes) \in Nat /\ Len(W[j].fdes) >= 1
          BY <1>2, <3>2, NodeIs
        <5> QED BY <5>1
      <4>2. NameAt(W[j], 1) \in I[j]
        BY <1>4, <4>1
      <4> QED BY <1>7, <2>5, <4>2, OutsideSame
    <3> QED BY <3>1, <3>2
  <2>7. ASSUME NEW n \in Fhash
        PROVE  Outside(W, T, I[i], m, n) <=> Outside(W, T, I[j], m, n) /\ n \in Gap(T[j], k)
    BY <1>7, <2>2, <2>3, <2>5, OutsideKid
  <2>8. J[i] = {n \in Fhash : Outside(W, T, I[i], m, n)}
    BY <1>3, <2>2, <2>4
  <2>9. J[j] = {n \in Fhash : Outside(W, T, I[j], NameAt(W[j], 1), n)}
    BY <1>3
  <2>10. ASSUME NEW n \in Fhash
         PROVE  n \in J[i] <=> n \in J[j] /\ n \in Gap(T[j], k)
    BY <2>6, <2>7, <2>8, <2>9
  <2>11. J[i] \subseteq Fhash /\ J[j] \subseteq Fhash
    BY <2>8, <2>9
  <2>12. J[i] = J[j] \cap Gap(T[j], k)
    BY <2>10, <2>11
  <2> QED BY <2>2, <2>12
<1>10. \A j \in Nodes(T) : OrderedAt(T, J, j)
  BY <1>2, <1>6, <1>8, <1>9 DEF OrderedAt
<1>11. Ordered(T, root, J)
  BY <1>5, <1>10, OrderedIs
<1> QED BY <1>11

(***************************************************************************)
(* One entry changes, comes or goes.                                       *)
(***************************************************************************)
\* Names s and t have the same place among the other names of store W.
Between(W, s, t) ==
    \A j \in Nodes(W) : \A k \in 1 .. Len(W[j].fdes) : NameAt(W[j], k) # s =>
      NameAt(W[j], k) # t /\ (NameAt(W[j], k) < s <=> NameAt(W[j], k) < t)

LEMMA SetIs ==
    ASSUME NEW W, NEW T, NEW a, NEW q, NEW x, Set(W, T, a, q, x)
    PROVE  /\ Nodes(T) = Nodes(W) /\ a \in Nodes(W) /\ q \in 1 .. Len(W[a].fdes) /\ x \in Entry
           /\ T[a].fdes[q] = x
           /\ \A j \in Nodes(W) : /\ W[j] \in TreeNode /\ T[j] \in TreeNode
                                  /\ T[j].leaf = W[j].leaf
                                  /\ T[j].cobj = W[j].cobj /\ Len(T[j].fdes) = Len(W[j].fdes)
                                  /\ j # a => T[j] = W[j]
                                  /\ \A k \in 1 .. Len(W[j].fdes) : <<j, k>> # <<a, q>> => T[j].fdes[k] = W[j].fdes[k]
<1>1. /\ W \in Stores /\ T \in Stores /\ Nodes(T) = Nodes(W) /\ a \in Nodes(W)
      /\ T[a].leaf = W[a].leaf /\ T[a].cobj = W[a].cobj /\ Len(T[a].fdes) = Len(W[a].fdes)
      /\ \A j \in Id \ {a} : T[j] = W[j]
      /\ q \in 1 .. Len(W[a].fdes) /\ x \in Entry /\ T[a].fdes[q] = x
      /\ \A k \in 1 .. Len(W[a].fdes) : k # q => T[a].fdes[k] = W[a].fdes[k]
  BY DEF Set
<1>2. ASSUME NEW j \in Nodes(W)
      PROVE  /\ W[j] \in TreeNode /\ T[j] \in TreeNode
             /\ T[j].leaf = W[j].leaf
             /\ T[j].cobj = W[j].cobj /\ Len(T[j].fdes) = Len(W[j].fdes)
             /\ j # a => T[j] = W[j]
             /\ \A k \in 1 .. Len(W[j].fdes) : <<j, k>> # <<a, q>> => T[j].fdes[k] = W[j].fdes[k]
  <2>1. W[j] \in TreeNode /\ T[j] \in TreeNode /\ j \in Id
    BY <1>1 DEF Nodes, Stores
  <2>2. CASE j = a
    BY <1>1, <2>1, <2>2
  <2>3. CASE j # a
    <3>1. T[j] = W[j]
      BY <1>1, <2>1, <2>3
    <3> QED BY <2>1, <2>3, <3>1
  <2> QED BY <2>2, <2>3
<1> QED BY <1>1, <1>2

LEMMA SetFiles ==
    ASSUME NEW W, NEW T, NEW a, NEW q, NEW x, Set(W, T, a, q, x), NEW root, NEW h, Rooted(W, root, h),
           NEW I, Ordered(W, root, I)
    PROVE  \A f : f \in FilesIn(T) <=> f = x \/ (f \in FilesIn(W) /\ f.fhash # NameAt(W[a], q))
<1>1. /\ Nodes(T) = Nodes(W) /\ a \in Nodes(W) /\ q \in 1 .. Len(W[a].fdes) /\ x \in Entry
      /\ T[a].fdes[q] = x
      /\ \A j \in Nodes(W) : /\ W[j] \in TreeNode /\ T[j] \in TreeNode
                             /\ T[j].cobj = W[j].cobj /\ Len(T[j].fdes) = Len(W[j].fdes)
                             /\ \A k \in 1 .. Len(W[j].fdes) : <<j, k>> # <<a, q>> => T[j].fdes[k] = W[j].fdes[k]
  BY SetIs
<1>2. PICK s : s = NameAt(W[a], q)
  OBVIOUS
<1>3. ASSUME NEW f PROVE f \in FilesIn(T) <=> f = x \/ (f \in FilesIn(W) /\ f.fhash # s)
  <2>1. ASSUME f \in FilesIn(T) PROVE f = x \/ (f \in FilesIn(W) /\ f.fhash # s)
    <3>1. \E j \in Nodes(W) : \E k \in 1 .. Len(W[j].fdes) : T[j].fdes[k] = f
      BY <1>1, <2>1, FileIsAt
    <3>2. PICK j, k : j \in Nodes(W) /\ k \in 1 .. Len(W[j].fdes) /\ T[j].fdes[k] = f
      BY <3>1
    <3>3. CASE <<j, k>> = <<a, q>>
      BY <1>1, <3>2, <3>3
    <3>4. CASE <<j, k>> # <<a, q>>
      <4>1. W[j].fdes[k] = f
        BY <1>1, <3>2, <3>4
      <4>2. f \in FilesIn(W)
        BY <3>2, <4>1, FileIsAt
      <4>3. f.fhash # s
        <5>1. NameAt(W[j], k) # s
          BY <1>1, <1>2, <3>2, <3>4, NameOnce
        <5> QED BY <4>1, <5>1 DEF NameAt
      <4> QED BY <4>2, <4>3
    <3> QED BY <3>3, <3>4
  <2>2. ASSUME f = x PROVE f \in FilesIn(T)
    <3>1. a \in Nodes(T) /\ q \in 1 .. Len(T[a].fdes) /\ T[a].fdes[q] = f
      BY <1>1, <2>2
    <3> QED BY <3>1, FileIsAt
  <2>3. ASSUME f \in FilesIn(W), f.fhash # s PROVE f \in FilesIn(T)
    <3>1. \E j \in Nodes(W) : \E k \in 1 .. Len(W[j].fdes) : W[j].fdes[k] = f
      BY <2>3, FileIsAt
    <3>2. PICK j, k : j \in Nodes(W) /\ k \in 1 .. Len(W[j].fdes) /\ W[j].fdes[k] = f
      BY <3>1
    <3>3. <<j, k>> # <<a, q>>
      BY <1>2, <2>3, <3>2 DEF NameAt
    <3>4. j \in Nodes(T) /\ k \in 1 .. Len(T[j].fdes) /\ T[j].fdes[k] = f
      BY <1>1, <3>2, <3>3
    <3> QED BY <3>4, FileIsAt
  <2> QED BY <2>1, <2>2, <2>3
<1> QED BY <1>2, <1>3

LEMMA SetOrdered ==
    ASSUME NEW W, NEW T, NEW a, NEW q, NEW x, Set(W, T, a, q, x), NEW root, NEW h, Rooted(W, root, h),
           NEW I, Ordered(W, root, I), \A j \in Nodes(W) : j # root => Len(W[j].fdes) >= 1,
           Between(W, NameAt(W[a], q), x.fhash)
    PROVE  \E J : Ordered(T, root, J)
<1>1. /\ Nodes(T) = Nodes(W) /\ a \in Nodes(W) /\ q \in 1 .. Len(W[a].fdes) /\ x \in Entry
      /\ T[a].fdes[q] = x
      /\ \A j \in Nodes(W) : /\ W[j] \in TreeNode /\ T[j] \in TreeNode
                             /\ T[j].cobj = W[j].cobj /\ Len(T[j].fdes) = Len(W[j].fdes)
                             /\ \A k \in 1 .. Len(W[j].fdes) : <<j, k>> # <<a, q>> => T[j].fdes[k] = W[j].fdes[k]
  BY SetIs
<1>2. PICK s, t : s = NameAt(W[a], q) /\ t = x.fhash
  OBVIOUS
<1>3. s \in Nat /\ t \in Nat
  BY <1>1, <1>2, NamesAre, EntryIs
<1>4. ASSUME NEW j \in Nodes(W), NEW k \in 1 .. Len(W[j].fdes)
      PROVE  /\ NameAt(W[j], k) \in Nat
             /\ <<j, k>> # <<a, q>> => /\ NameAt(T[j], k) = NameAt(W[j], k)
                                       /\ NameAt(W[j], k) # s /\ NameAt(W[j], k) # t
                                       /\ NameAt(W[j], k) < s <=> NameAt(W[j], k) < t
             /\ <<j, k>> = <<a, q>> => NameAt(T[j], k) = t /\ NameAt(W[j], k) = s
  <2>1. NameAt(W[j], k) \in Nat
    BY <1>1, NamesAre
  <2>2. CASE <<j, k>> # <<a, q>>
    <3>1. NameAt(T[j], k) = NameAt(W[j], k)
      BY <1>1, <2>2 DEF NameAt
    <3>2. NameAt(W[j], k) # s
      BY <1>1, <1>2, <2>2, NameOnce
    <3> QED BY <1>2, <2>1, <2>2, <3>1, <3>2 DEF Between
  <2>3. CASE <<j, k>> = <<a, q>>
    BY <1>1, <1>2, <2>1, <2>3 DEF NameAt
  <2> QED BY <2>2, <2>3
<1>5. ASSUME NEW i \in Nodes(W), NEW j \in Nodes(W), NEW k \in 1 .. Len(W[i].fdes), NEW l \in 1 .. Len(W[j].fdes)
      PROVE  NameAt(W[i], k) < NameAt(W[j], l) <=> NameAt(T[i], k) < NameAt(T[j], l)
  <2>1. CASE <<i, k>> # <<a, q>> /\ <<j, l>> # <<a, q>>
    BY <1>4, <2>1
  <2>2. CASE <<i, k>> = <<a, q>> /\ <<j, l>> = <<a, q>>
    BY <1>3, <1>4, <2>2
  <2>3. CASE <<i, k>> # <<a, q>> /\ <<j, l>> = <<a, q>>
    BY <1>3, <1>4, <2>3
  <2>4. CASE <<i, k>> = <<a, q>> /\ <<j, l>> # <<a, q>>
    <3>1. PICK u : u = NameAt(W[j], l)
      OBVIOUS
    <3>2. u \in Nat /\ NameAt(T[j], l) = u /\ u # s /\ u # t /\ (u < s <=> u < t)
      BY <1>4, <2>4, <3>1
    <3>3. NameAt(T[i], k) = t /\ NameAt(W[i], k) = s
      BY <1>4, <2>4
    <3> QED BY <1>3, <3>1, <3>2, <3>3
  <2> QED BY <2>1, <2>2, <2>3, <2>4
<1>6. SameOrder(W, T)
  BY <1>1, <1>5 DEF SameOrder
<1> QED BY <1>6, OrderCarries

LEMMA PutIs ==
    ASSUME NEW S, NEW T, NEW p, NEW i, NEW e, Put(S, T, p, i, e)
    PROVE  /\ Nodes(T) = Nodes(S) /\ p \in Nodes(S) /\ e \in Entry /\ S[p].leaf /\ T[p].leaf
           /\ \A j \in Nodes(S) : j # p => T[j] = S[j]
           /\ \A j \in Nodes(S) : S[j] \in TreeNode /\ T[j] \in TreeNode /\ T[j].cobj = S[j].cobj /\ T[j].leaf = S[j].leaf
           /\ MoreNames(S[p], T[p], i, e.fhash) /\ Elems(T[p].fdes) = Elems(S[p].fdes) \cup {e}
<1>1. /\ S \in Stores /\ T \in Stores /\ Nodes(T) = Nodes(S) /\ p \in Nodes(S)
      /\ S[p].leaf /\ T[p].leaf = S[p].leaf /\ T[p].cobj = S[p].cobj
      /\ \A j \in Id \ {p} : T[j] = S[j]
      /\ i \in 1 .. Len(S[p].fdes) + 1 /\ e \in Entry /\ IsInserted(T[p].fdes, S[p].fdes, i, e)
  BY DEF Put
<1>2. \A j \in Nodes(S) : S[j] \in TreeNode /\ T[j] \in TreeNode /\ j \in Id
  BY <1>1 DEF Nodes, Stores
<1>3. MoreNames(S[p], T[p], i, e.fhash)
  BY <1>1, <1>2, MoreNamesIs
<1>4. Len(S[p].fdes) \in Nat
  BY <1>1, <1>2, NodeIs
<1>5. Elems(T[p].fdes) = Elems(S[p].fdes) \cup {e}
  BY <1>1, <1>4, InsertedElems
<1>6. \A j \in Nodes(S) : j # p => T[j] = S[j]
  BY <1>1, <1>2
<1>7. \A j \in Nodes(S) : T[j].cobj = S[j].cobj /\ T[j].leaf = S[j].leaf
  BY <1>1, <1>6
<1> QED BY <1>1, <1>2, <1>3, <1>5, <1>6, <1>7

LEMMA PutOrdered ==
    ASSUME NEW S, NEW T, NEW p, NEW i, NEW e, Put(S, T, p, i, e), NEW root, NEW h, Rooted(S, root, h), NEW I
    PROVE  Ordered(T, root, I) <=> Ordered(S, root, I) /\ e.fhash \in I[p] /\ e.fhash \in Gap(S[p], i)
<1>1. /\ Nodes(T) = Nodes(S) /\ p \in Nodes(S) /\ S[p].leaf
      /\ \A j \in Nodes(S) : j # p => T[j] = S[j]
      /\ T[p].cobj = S[p].cobj
      /\ MoreNames(S[p], T[p], i, e.fhash)
  BY PutIs
<1>2. ASSUME NEW j \in Nodes(S), j # p PROVE OrderedAt(T, I, j) <=> OrderedAt(S, I, j)
  BY <1>1, <1>2 DEF OrderedAt
<1>3. Len(S[p].cobj) = 0
  BY <1>1 DEF Rooted, Branches
<1>4. Sorted(T[p]) <=> Sorted(S[p]) /\ e.fhash \in Gap(S[p], i)
  BY <1>1, MoreSorted
<1>5. (\A k \in 1 .. Len(T[p].fdes) : NameAt(T[p], k) \in I[p])
        <=> e.fhash \in I[p] /\ \A k \in 1 .. Len(S[p].fdes) : NameAt(S[p], k) \in I[p]
  <2>0. PICK x, y, s, K : x = S[p] /\ y = T[p] /\ s = e.fhash /\ K = I[p]
    OBVIOUS
  <2>1. MoreNames(x, y, i, s)
    BY <1>1, <2>0
  <2>2. PICK n \in Nat : n = Len(x.fdes)
    BY <2>1 DEF MoreNames
  <2>3. i \in 1 .. n + 1 /\ Len(y.fdes) = n + 1 /\ NameAt(y, i) = s
    BY <2>1, <2>2 DEF MoreNames
  <2>4. ASSUME NEW k \in 1 .. n + 1 PROVE k = i \/ \E j \in 1 .. n : NameAt(y, k) = NameAt(x, j)
    <3>1. CASE k < i
      <4>1. k \in 1 .. n /\ NameAt(y, k) = NameAt(x, k)
        BY <2>1, <2>2, <2>3, <3>1 DEF MoreNames
      <4> QED BY <4>1
    <3>2. CASE i < k
      <4>1. k - 1 \in 1 .. n /\ NameAt(y, k) = NameAt(x, k - 1)
        BY <2>1, <2>2, <2>3, <3>2 DEF MoreNames
      <4> QED BY <4>1
    <3> QED BY <2>2, <2>3, <3>1, <3>2
  <2>5. ASSUME NEW j \in 1 .. n PROVE \E k \in 1 .. n + 1 : NameAt(y, k) = NameAt(x, j)
    <3>1. CASE j < i
      <4>1. NameAt(y, j) = NameAt(x, j) /\ j \in 1 .. n + 1
        BY <2>1, <2>2, <3>1 DEF MoreNames
      <4> QED BY <4>1
    <3>2. CASE i <= j
      <4>1. NameAt(y, j + 1) = NameAt(x, j) /\ j + 1 \in 1 .. n + 1
        BY <2>1, <2>2, <3>2 DEF MoreNames
      <4> QED BY <4>1
    <3> QED BY <2>2, <2>3, <3>1, <3>2
  <2>6. ASSUME \A k \in 1 .. n + 1 : NameAt(y, k) \in K
        PROVE  s \in K /\ \A j \in 1 .. n : NameAt(x, j) \in K
    BY <2>3, <2>5, <2>6
  <2>7. ASSUME s \in K, \A j \in 1 .. n : NameAt(x, j) \in K
        PROVE  \A k \in 1 .. n + 1 : NameAt(y, k) \in K
    <3> TAKE k \in 1 .. n + 1
    <3> QED BY <2>3, <2>4, <2>7
  <2> QED BY <2>0, <2>2, <2>3, <2>6, <2>7
<1>6. OrderedAt(T, I, p) <=> OrderedAt(S, I, p) /\ e.fhash \in I[p] /\ e.fhash \in Gap(S[p], i)
  <2>1. \A k \in 1 .. Len(T[p].cobj) : I[T[p].cobj[k]] = I[p] \cap Gap(T[p], k)
    BY <1>1, <1>3
  <2>2. \A k \in 1 .. Len(S[p].cobj) : I[S[p].cobj[k]] = I[p] \cap Gap(S[p], k)
    BY <1>3
  <2> QED BY <1>4, <1>5, <2>1, <2>2 DEF OrderedAt
<1>7. Ordered(T, root, I) <=> I[root] = Fhash /\ \A j \in Nodes(S) : OrderedAt(T, I, j)
  BY <1>1, OrderedIs
<1>8. Ordered(S, root, I) <=> I[root] = Fhash /\ \A j \in Nodes(S) : OrderedAt(S, I, j)
  BY OrderedIs
<1> QED BY <1>1, <1>2, <1>6, <1>7, <1>8

LEMMA PutFiles ==
    ASSUME NEW S, NEW T, NEW p, NEW i, NEW e, Put(S, T, p, i, e), NEW root, NEW h, Rooted(S, root, h), NEW I,
           Ordered(T, root, I)
    PROVE  /\ \A f : f \in FilesIn(T) <=> f = e \/ f \in FilesIn(S)
           /\ \A f : f \in FilesIn(S) <=> f \in FilesIn(T) /\ f.fhash # e.fhash
<1>1. /\ Nodes(T) = Nodes(S) /\ p \in Nodes(S) /\ S[p].leaf
      /\ \A j \in Nodes(S) : j # p => T[j] = S[j]
      /\ \A j \in Nodes(S) : S[j] \in TreeNode /\ T[j] \in TreeNode
      /\ MoreNames(S[p], T[p], i, e.fhash) /\ Elems(T[p].fdes) = Elems(S[p].fdes) \cup {e}
  BY PutIs
<1>2. Ordered(S, root, I) /\ e.fhash \in I[p] /\ e.fhash \in Gap(S[p], i) /\ h[p] = 0
  BY <1>1, PutOrdered DEF Rooted
<1>3. ASSUME NEW f PROVE f \in FilesIn(S) <=> \E j \in Nodes(S) : f \in Elems(S[j].fdes)
  BY DEF FilesIn
<1>4. ASSUME NEW f PROVE f \in FilesIn(T) <=> \E j \in Nodes(S) : f \in Elems(T[j].fdes)
  BY <1>1 DEF FilesIn
<1>5. ASSUME NEW f PROVE f \in FilesIn(T) <=> f = e \/ f \in FilesIn(S)
  <2>1. ASSUME f \in FilesIn(T) PROVE f = e \/ f \in FilesIn(S)
    <3>1. PICK j \in Nodes(S) : f \in Elems(T[j].fdes)
      BY <1>4, <2>1
    <3> QED BY <1>1, <1>3, <3>1
  <2>2. ASSUME f = e \/ f \in FilesIn(S) PROVE f \in FilesIn(T)
    <3>1. CASE f = e
      BY <1>1, <1>4, <3>1
    <3>2. CASE f \in FilesIn(S)
      <4>1. PICK j \in Nodes(S) : f \in Elems(S[j].fdes)
        BY <1>3, <3>2
      <4> QED BY <1>1, <1>4, <4>1
    <3> QED BY <2>2, <3>1, <3>2
  <2> QED BY <2>1, <2>2
<1>6. ASSUME NEW f \in FilesIn(S) PROVE f.fhash # e.fhash
  <2> SUFFICES ASSUME f.fhash = e.fhash PROVE FALSE
    OBVIOUS
  <2>1. \E j \in Nodes(S) : \E k \in 1 .. Len(S[j].fdes) : S[j].fdes[k] = f
    BY FileIsAt
  <2>2. PICK j \in Nodes(S) : Holding(S[j], e.fhash)
    BY <2>1 DEF Holding, NameAt
  <2>3. j = p
    BY <1>1, <1>2, <2>2, AtLeaf
  <2>4. ~Holding(S[p], e.fhash)
    <3>1. i \in 1 .. Len(S[p].fdes) + 1
      BY <1>1 DEF MoreNames
    <3> QED BY <1>1, <1>2, <3>1, GapHasNone
  <2> QED BY <2>2, <2>3, <2>4
<1> QED BY <1>5, <1>6

(***************************************************************************)
(* A root comes or goes.                                                   *)
(***************************************************************************)
LEMMA NewRootOrdered ==
    ASSUME NEW S, NEW T, NEW root, NEW f, NewRoot(S, T, root, f), NEW h, Rooted(S, root, h),
           NEW I, Ordered(S, root, I)
    PROVE  \E J : /\ Ordered(T, f, J) /\ J[f] = Fhash
                  /\ \A j \in Nodes(S) : J[j] = I[j]
<1>1. /\ S \in Stores /\ T \in Stores /\ f \in Id \ Nodes(S) /\ Nodes(T) = Nodes(S) \cup {f}
      /\ \A j \in Id \ {f} : T[j] = S[j]
      /\ T[f].fdes = << >> /\ T[f].cobj = << root >>
  BY DEF NewRoot
<1>2. root \in Nodes(S) /\ \A j \in Nodes(S) : T[j] = S[j] /\ j # f
  BY <1>1 DEF Rooted, Nodes
<1>3. PICK J : J = [j \in Nodes(T) |-> IF j = f THEN Fhash ELSE I[j]]
  OBVIOUS
<1>4. J[f] = Fhash /\ \A j \in Nodes(S) : J[j] = I[j]
  BY <1>1, <1>2, <1>3
<1>5. I[root] = Fhash /\ \A j \in Nodes(S) : OrderedAt(S, I, j)
  BY OrderedIs
<1>6. OrderedAt(T, J, f)
  <2>1. Len(T[f].fdes) = 0 /\ Len(T[f].cobj) = 1 /\ T[f].cobj[1] = root
    BY <1>1
  <2>2. Gap(T[f], 1) = Fhash
    BY <2>1 DEF Gap
  <2>3. J[root] = J[f] \cap Gap(T[f], 1)
    BY <1>2, <1>4, <1>5, <2>2
  <2>4. Sorted(T[f])
    BY <2>1 DEF Sorted
  <2>5. \A k \in 1 .. Len(T[f].cobj) : k = 1
    BY <2>1
  <2>6. \A k \in 1 .. Len(T[f].fdes) : FALSE
    BY <2>1
  <2> QED BY <2>1, <2>3, <2>4, <2>5, <2>6 DEF OrderedAt
<1>7. ASSUME NEW j \in Nodes(S) PROVE OrderedAt(T, J, j)
  <2>1. \A k \in 1 .. Len(S[j].cobj) : S[j].cobj[k] \in Nodes(S)
    BY RootedIs
  <2>2. T[j] = S[j] /\ J[j] = I[j] /\ OrderedAt(S, I, j)
    BY <1>2, <1>4, <1>5
  <2> QED BY <1>4, <2>1, <2>2 DEF OrderedAt
<1>8. \A j \in Nodes(T) : OrderedAt(T, J, j)
  BY <1>1, <1>6, <1>7
<1> QED BY <1>4, <1>8, OrderedIs

LEMMA NewRootFiles ==
    ASSUME NEW S, NEW T, NEW root, NEW f, NewRoot(S, T, root, f)
    PROVE  FilesIn(T) = FilesIn(S)
<1>1. /\ f \in Id \ Nodes(S) /\ Nodes(T) = Nodes(S) \cup {f}
      /\ \A j \in Id \ {f} : T[j] = S[j]
      /\ T[f].fdes = << >>
  BY DEF NewRoot
<1>2. \A j \in Nodes(S) : T[j] = S[j]
  BY <1>1 DEF Nodes
<1>3. \A x : x \notin Elems(T[f].fdes)
  BY <1>1 DEF Elems
<1>4. ASSUME NEW x PROVE x \in FilesIn(S) <=> \E j \in Nodes(S) : x \in Elems(S[j].fdes)
  BY DEF FilesIn
<1>5. ASSUME NEW x PROVE x \in FilesIn(T) <=> \E j \in Nodes(T) : x \in Elems(T[j].fdes)
  BY DEF FilesIn
<1>6. ASSUME NEW x PROVE x \in FilesIn(S) <=> x \in FilesIn(T)
  BY <1>1, <1>2, <1>3, <1>4, <1>5
<1> QED BY <1>6

LEMMA DropOrdered ==
    ASSUME NEW S, NEW root, NEW h, Rooted(S, root, h), ~S[root].leaf, Len(S[root].fdes) = 0,
           NEW c, c = S[root].cobj[1], NEW T, T = DeAlloc(S, root), NEW I, Ordered(S, root, I)
    PROVE  Ordered(T, c, I) /\ FilesIn(T) = FilesIn(S)
<1>1. S \in Stores /\ root \in Nodes(S)
  BY DEF Rooted, Stores
<1>2. Nodes(T) = Nodes(S) \ {root} /\ \A j \in Nodes(T) : T[j] = S[j]
  BY <1>1, Deallocated
<1>3. Len(S[root].cobj) = 1
  <2>1. Branches(S[root])
    BY <1>1 DEF Rooted
  <2> QED BY <2>1 DEF Branches
<1>4. I[root] = Fhash /\ \A j \in Nodes(S) : OrderedAt(S, I, j)
  BY OrderedIs
<1>5. I[c] = Fhash
  <2>1. I[c] = I[root] \cap Gap(S[root], 1)
    BY <1>1, <1>3, <1>4 DEF OrderedAt
  <2>2. Gap(S[root], 1) = Fhash
    BY DEF Gap
  <2> QED BY <1>4, <2>1, <2>2
<1>6. \A j \in Nodes(T) : OrderedAt(T, I, j)
  BY <1>2, <1>4 DEF OrderedAt
<1>7. Ordered(T, c, I)
  BY <1>5, <1>6, OrderedIs
<1>8. \A x : x \notin Elems(S[root].fdes)
  BY DEF Elems
<1>9. ASSUME NEW x PROVE x \in FilesIn(S) <=> \E j \in Nodes(S) : x \in Elems(S[j].fdes)
  BY DEF FilesIn
<1>10. ASSUME NEW x PROVE x \in FilesIn(T) <=> \E j \in Nodes(T) : x \in Elems(T[j].fdes)
  BY DEF FilesIn
<1>11. ASSUME NEW x PROVE x \in FilesIn(S) <=> x \in FilesIn(T)
  BY <1>2, <1>8, <1>9, <1>10
<1> QED BY <1>7, <1>11

(***************************************************************************)
(* The entry at an end of a subtree is next to the one beside it.          *)
(***************************************************************************)
\* A name that belongs to the end of a walk belongs to all of it.
StepsToKids(S, h, w, n) == \A d \in 1 .. n : w[d] = w[d - 1] \/ \E k : IsKid(S, h, w[d - 1], k, w[d])

LEMMA WalkUp ==
    ASSUME NEW S, NEW root, NEW h, Rooted(S, root, h), NEW I, Ordered(S, root, I),
           NEW n \in Nat, NEW w, NEW x, x \in I[w[n]], StepsToKids(S, h, w, n)
    PROVE  \A d \in 0 .. n : x \in I[w[d]]
<1> DEFINE Up == {d \in 0 .. n : x \in I[w[n - d]]}
<1>1. 0 \in Up
  BY DEF Up
<1>2. ASSUME NEW d \in 1 .. n, d - 1 \in Up PROVE d \in Up
  <2>1. PICK b : b = n - (d - 1)
    OBVIOUS
  <2>2. b \in 1 .. n /\ n - d = b - 1 /\ x \in I[w[b]]
    BY <1>2, <2>1
  <2>3. x \in I[w[b - 1]]
    <3>1. CASE w[b] = w[b - 1]
      BY <2>2, <3>1
    <3>2. CASE \E k : IsKid(S, h, w[b - 1], k, w[b])
      BY <2>2, <3>2, KidIn
    <3> QED BY <2>2, <3>1, <3>2 DEF StepsToKids
  <2> QED BY <2>2, <2>3
<1> HIDE DEF Up
<1>3. \A d \in 0 .. n : d \in Up
  BY <1>1, <1>2, UpTo
<1> TAKE d \in 0 .. n
<1>4. n - d \in 0 .. n /\ n - (n - d) = d
  OBVIOUS
<1>5. n - d \in Up
  BY <1>3, <1>4
<1> QED BY <1>4, <1>5 DEF Up

\* A walk to which x belongs at its end and y at its start, when at each step y
\* goes where x goes.
Follows(S, h, w, n, x, y) ==
    \A d \in 1 .. n : \/ w[d] = w[d - 1]
                      \/ \E k : /\ IsKid(S, h, w[d - 1], k, w[d])
                                /\ x \in Gap(S[w[d - 1]], k) => y \in Gap(S[w[d - 1]], k)

LEMMA WalkKeeps ==
    ASSUME NEW S, NEW root, NEW h, Rooted(S, root, h), NEW I, Ordered(S, root, I),
           NEW n \in Nat, NEW w, NEW x, NEW y, x \in I[w[n]], y \in I[w[0]], Follows(S, h, w, n, x, y)
    PROVE  y \in I[w[n]]
<1> DEFINE Down == {d \in 0 .. n : y \in I[w[d]]}
<1>4. \A d \in 0 .. n : x \in I[w[d]]
  <2>1. StepsToKids(S, h, w, n)
    BY DEF Follows, StepsToKids
  <2> QED BY <2>1, WalkUp
<1>5. 0 \in Down
  BY DEF Down
<1>6. ASSUME NEW d \in 1 .. n, d - 1 \in Down PROVE d \in Down
  <2>1. y \in I[w[d - 1]]
    BY <1>6 DEF Down
  <2>2. x \in I[w[d]]
    BY <1>4
  <2>3. y \in I[w[d]]
    <3>1. CASE w[d] = w[d - 1]
      BY <2>1, <3>1
    <3>2. ASSUME NEW k, IsKid(S, h, w[d - 1], k, w[d]), x \in Gap(S[w[d - 1]], k) => y \in Gap(S[w[d - 1]], k)
          PROVE  y \in I[w[d]]
      <4>1. I[w[d]] = I[w[d - 1]] \cap Gap(S[w[d - 1]], k)
        BY <3>2, KidIn
      <4> QED BY <2>1, <2>2, <3>2, <4>1
    <3> QED BY <3>1, <3>2 DEF Follows
  <2> QED BY <2>3 DEF Down
<1> HIDE DEF Down
<1>7. \A d \in 0 .. n : d \in Down
  BY <1>5, <1>6, UpTo
<1>8. n \in Down
  BY <1>7
<1> QED BY <1>8 DEF Down

\* What is known of the walk of max_of_dobj or min_of_dobj.
WalkTo(S, h, F, c, w, e) ==
    /\ IsWalk(w, Height, c, F) /\ e = w[Height] /\ c \in Nodes(S)
    /\ e \in Nodes(S) /\ S[e].leaf /\ StepsDown(S, h, F)

LEMMA WalkToIs ==
    ASSUME NEW S, NEW h, NEW root, Rooted(S, root, h), NEW F, NEW c, NEW w, NEW e, WalkTo(S, h, F, c, w, e)
    PROVE  /\ w[0] = c /\ w[Height] = e /\ Height \in Nat /\ h[e] = 0 /\ S[e] \in TreeNode
           /\ \A d \in 1 .. Height : w[d] = F[w[d - 1]] /\ w[d - 1] \in Nodes(S) /\ w[d] \in Nodes(S)
<1>1. /\ IsWalk(w, Height, c, F) /\ e = w[Height] /\ e \in Nodes(S) /\ S[e].leaf /\ StepsDown(S, h, F)
      /\ c \in Nodes(S) /\ Height \in Nat
  BY HeightIs DEF WalkTo
<1>2. w[0] = c /\ \A d \in 1 .. Height : w[d] = F[w[d - 1]] /\ d - 1 \in 0 .. Height /\ d \in 0 .. Height
  BY <1>1, WalkSteps
<1>3. \A d \in 0 .. Height : w[d] \in Nodes(S)
  BY <1>1, WalkHeights
<1>4. S[e] \in TreeNode /\ h[e] = 0
  BY <1>1, RootedIs
<1> QED BY <1>1, <1>2, <1>3, <1>4

LEMMA EndKidIs ==
    ASSUME NEW S, NEW root, NEW h, Rooted(S, root, h), NEW m \in Nodes(S)
    PROVE  /\ S[m] \in TreeNode
           /\ LastKid(S, m) = m \/ IsKid(S, h, m, Len(S[m].fdes) + 1, LastKid(S, m))
           /\ FirstKid(S, m) = m \/ IsKid(S, h, m, 1, FirstKid(S, m))
<1>1. S[m] \in TreeNode /\ h[m] \in Nat /\ (h[m] = 0 <=> S[m].leaf)
  BY RootedIs
<1>2. CASE S[m].leaf
  BY <1>1, <1>2 DEF LastKid, FirstKid
<1>3. CASE ~S[m].leaf
  <2>1. PICK n \in Nat : n = Len(S[m].fdes)
    BY <1>1, NodeIs
  <2>2. h[m] > 0
    BY <1>1, <1>3
  <2>3. Len(S[m].cobj) = n + 1
    BY <2>1, <2>2, RootedIs
  <2>4. n + 1 \in 1 .. n + 1 /\ 1 \in 1 .. n + 1
    BY <2>1
  <2>5. ASSUME NEW k \in 1 .. n + 1, NEW z, z = S[m].cobj[k] PROVE IsKid(S, h, m, k, z)
    <3>1. z \in Nodes(S) /\ h[z] = h[m] - 1
      BY <2>3, <2>5, RootedIs
    <3>2. h[z] \in Nat /\ h[m] = h[z] + 1
      BY <1>1, <2>2, <3>1
    <3> QED BY <1>1, <1>3, <2>1, <2>3, <2>5, <3>2 DEF IsKid
  <2>6. LastKid(S, m) = S[m].cobj[n + 1] /\ FirstKid(S, m) = S[m].cobj[1]
    BY <1>3, <2>3 DEF LastKid, FirstKid
  <2> QED BY <1>1, <2>1, <2>4, <2>5, <2>6
<1> QED BY <1>2, <1>3

LEMMA MaxIsGreatest ==
    ASSUME NEW S, NEW root, NEW h, Rooted(S, root, h), NEW I, Ordered(S, root, I), NEW c, NEW w, NEW e,
           WalkTo(S, h, [m \in Nodes(S) |-> LastKid(S, m)], c, w, e),
           Len(S[e].fdes) >= 1, NEW x, x = NameAt(S[e], Len(S[e].fdes))
    PROVE  /\ x \in I[c]
           /\ \A j \in Nodes(S) : \A k \in 1 .. Len(S[j].fdes) : NameAt(S[j], k) \in I[c] => ~(x < NameAt(S[j], k))
<1> DEFINE F == [m \in Nodes(S) |-> LastKid(S, m)]
<1>1. /\ w[0] = c /\ w[Height] = e /\ Height \in Nat /\ h[e] = 0 /\ S[e] \in TreeNode /\ e \in Nodes(S)
      /\ \A d \in 1 .. Height : w[d] = F[w[d - 1]] /\ w[d - 1] \in Nodes(S) /\ w[d] \in Nodes(S)
  <2>1. WalkTo(S, h, F, c, w, e)
    OBVIOUS
  <2> HIDE DEF F
  <2>2. e \in Nodes(S)
    BY <2>1 DEF WalkTo
  <2> QED BY <2>1, <2>2, WalkToIs
<1>2. \A m \in Nodes(S) : F[m] = LastKid(S, m)
  OBVIOUS
<1> HIDE DEF F
<1>3. ASSUME NEW d \in 1 .. Height
      PROVE  w[d] = w[d - 1] \/ IsKid(S, h, w[d - 1], Len(S[w[d - 1]].fdes) + 1, w[d])
  <2>1. PICK m : m = w[d - 1]
    OBVIOUS
  <2>2. m \in Nodes(S) /\ w[d] = LastKid(S, m)
    BY <1>1, <1>2, <2>1
  <2> QED BY <2>1, <2>2, EndKidIs
<1>4. PICK n \in Nat : n = Len(S[e].fdes)
  BY <1>1, NodeIs
<1>5. n \in 1 .. n /\ x = NameAt(S[e], n)
  BY <1>4
<1>6. x \in I[e] /\ x \in Nat /\ x \in Fhash
  BY <1>1, <1>4, <1>5, NamesAre DEF Ordered
<1>7. x \in I[c]
  <2>1. StepsToKids(S, h, w, Height)
    BY <1>3 DEF StepsToKids
  <2>2. x \in I[w[Height]]
    BY <1>1, <1>6
  <2>3. \A d \in 0 .. Height : x \in I[w[d]]
    BY <1>1, <2>1, <2>2, WalkUp
  <2>4. 0 \in 0 .. Height
    BY <1>1
  <2> QED BY <1>1, <2>3, <2>4
<1>8. ASSUME NEW y \in Fhash, x < y, y \in I[c] PROVE y \in I[e]
  <2>1. y \in Nat
    BY FhashIs
  <2>2. ASSUME NEW m \in Nodes(S), x \in Gap(S[m], Len(S[m].fdes) + 1) PROVE y \in Gap(S[m], Len(S[m].fdes) + 1)
    <3>1. PICK b \in Nat : b = Len(S[m].fdes)
      BY EndKidIs, NodeIs
    <3>2. ASSUME NEW t \in 1 .. b PROVE (t < b + 1 => NameAt(S[m], t) < y) /\ (b + 1 <= t => y < NameAt(S[m], t))
      <4>1. t < b + 1 /\ ~(b + 1 <= t)
        BY <3>1
      <4>2. S[m] \in TreeNode
        BY EndKidIs
      <4>3. NameAt(S[m], t) \in Nat
        BY <3>1, <4>2, NamesAre
      <4>4. NameAt(S[m], t) < x
        BY <2>2, <3>1, <4>1 DEF Gap
      <4> QED BY <1>6, <1>8, <2>1, <4>1, <4>3, <4>4
    <3> QED BY <3>1, <3>2 DEF Gap
  <2>3. Follows(S, h, w, Height, x, y)
    BY <1>1, <1>3, <2>2 DEF Follows
  <2>4. x \in I[w[Height]] /\ y \in I[w[0]]
    BY <1>1, <1>6, <1>8
  <2>5. y \in I[w[Height]]
    BY <1>1, <2>3, <2>4, WalkKeeps
  <2> QED BY <1>1, <2>5
<1>9. ASSUME NEW j \in Nodes(S), NEW k \in 1 .. Len(S[j].fdes), NameAt(S[j], k) \in I[c], x < NameAt(S[j], k)
       PROVE  FALSE
  <2>1. PICK y : y = NameAt(S[j], k)
    OBVIOUS
  <2>2. y \in Nat /\ y \in Fhash /\ Holding(S[j], y)
    <3>1. S[j] \in TreeNode
      BY RootedIs
    <3> QED BY <2>1, <3>1, NamesAre DEF Holding
  <2>3. y \in I[e]
    BY <1>8, <1>9, <2>1, <2>2
  <2>4. j = e
    BY <1>1, <2>2, <2>3, AtLeaf
  <2>5. Sorted(S[e])
    BY <1>1 DEF Ordered
  <2>6. k \in 1 .. n
    BY <1>4, <2>4
  <2>7. CASE k = n
    BY <1>5, <1>6, <1>9, <2>4, <2>7
  <2>8. CASE k < n
    <3>1. NameAt(S[e], k) < NameAt(S[e], n)
      BY <1>4, <1>5, <2>5, <2>6, <2>8 DEF Sorted
    <3> QED BY <1>5, <1>6, <1>9, <2>1, <2>2, <2>4, <3>1
  <2> QED BY <2>6, <2>7, <2>8
<1> QED BY <1>7, <1>9

LEMMA MinIsLeast ==
    ASSUME NEW S, NEW root, NEW h, Rooted(S, root, h), NEW I, Ordered(S, root, I), NEW c, NEW w, NEW e,
           WalkTo(S, h, [m \in Nodes(S) |-> FirstKid(S, m)], c, w, e),
           Len(S[e].fdes) >= 1, NEW x, x = NameAt(S[e], 1)
    PROVE  /\ x \in I[c]
           /\ \A j \in Nodes(S) : \A k \in 1 .. Len(S[j].fdes) : NameAt(S[j], k) \in I[c] => ~(NameAt(S[j], k) < x)
<1> DEFINE F == [m \in Nodes(S) |-> FirstKid(S, m)]
<1>1. /\ w[0] = c /\ w[Height] = e /\ Height \in Nat /\ h[e] = 0 /\ S[e] \in TreeNode /\ e \in Nodes(S)
      /\ \A d \in 1 .. Height : w[d] = F[w[d - 1]] /\ w[d - 1] \in Nodes(S) /\ w[d] \in Nodes(S)
  <2>1. WalkTo(S, h, F, c, w, e)
    OBVIOUS
  <2> HIDE DEF F
  <2>2. e \in Nodes(S)
    BY <2>1 DEF WalkTo
  <2> QED BY <2>1, <2>2, WalkToIs
<1>2. \A m \in Nodes(S) : F[m] = FirstKid(S, m)
  OBVIOUS
<1> HIDE DEF F
<1>3. ASSUME NEW d \in 1 .. Height
      PROVE  w[d] = w[d - 1] \/ IsKid(S, h, w[d - 1], 1, w[d])
  <2>1. PICK m : m = w[d - 1]
    OBVIOUS
  <2>2. m \in Nodes(S) /\ w[d] = FirstKid(S, m)
    BY <1>1, <1>2, <2>1
  <2> QED BY <2>1, <2>2, EndKidIs
<1>4. PICK n \in Nat : n = Len(S[e].fdes)
  BY <1>1, NodeIs
<1>5. n \in 1 .. n /\ 1 \in 1 .. n /\ x = NameAt(S[e], 1)
  BY <1>4
<1>6. x \in I[e] /\ x \in Nat /\ x \in Fhash
  BY <1>1, <1>4, <1>5, NamesAre DEF Ordered
<1>7. x \in I[c]
  <2>1. StepsToKids(S, h, w, Height)
    BY <1>3 DEF StepsToKids
  <2>2. x \in I[w[Height]]
    BY <1>1, <1>6
  <2>3. \A d \in 0 .. Height : x \in I[w[d]]
    BY <1>1, <2>1, <2>2, WalkUp
  <2>4. 0 \in 0 .. Height
    BY <1>1
  <2> QED BY <1>1, <2>3, <2>4
<1>8. ASSUME NEW y \in Fhash, y < x, y \in I[c] PROVE y \in I[e]
  <2>1. y \in Nat
    BY FhashIs
  <2>2. ASSUME NEW m \in Nodes(S), x \in Gap(S[m], 1) PROVE y \in Gap(S[m], 1)
    <3>1. PICK b \in Nat : b = Len(S[m].fdes)
      BY EndKidIs, NodeIs
    <3>2. ASSUME NEW t \in 1 .. b PROVE (t < 1 => NameAt(S[m], t) < y) /\ (1 <= t => y < NameAt(S[m], t))
      <4>1. ~(t < 1) /\ 1 <= t
        BY <3>1
      <4>2. S[m] \in TreeNode
        BY EndKidIs
      <4>3. NameAt(S[m], t) \in Nat
        BY <3>1, <4>2, NamesAre
      <4>4. x < NameAt(S[m], t)
        BY <2>2, <3>1, <4>1 DEF Gap
      <4> QED BY <1>6, <1>8, <2>1, <4>1, <4>3, <4>4
    <3> QED BY <3>1, <3>2 DEF Gap
  <2>3. Follows(S, h, w, Height, x, y)
    BY <1>1, <1>3, <2>2 DEF Follows
  <2>4. x \in I[w[Height]] /\ y \in I[w[0]]
    BY <1>1, <1>6, <1>8
  <2>5. y \in I[w[Height]]
    BY <1>1, <2>3, <2>4, WalkKeeps
  <2> QED BY <1>1, <2>5
<1>9. ASSUME NEW j \in Nodes(S), NEW k \in 1 .. Len(S[j].fdes), NameAt(S[j], k) \in I[c], NameAt(S[j], k) < x
       PROVE  FALSE
  <2>1. PICK y : y = NameAt(S[j], k)
    OBVIOUS
  <2>2. y \in Nat /\ y \in Fhash /\ Holding(S[j], y)
    <3>1. S[j] \in TreeNode
      BY RootedIs
    <3> QED BY <2>1, <3>1, NamesAre DEF Holding
  <2>3. y \in I[e]
    BY <1>8, <1>9, <2>1, <2>2
  <2>4. j = e
    BY <1>1, <2>2, <2>3, AtLeaf
  <2>5. Sorted(S[e])
    BY <1>1 DEF Ordered
  <2>6. k \in 1 .. n
    BY <1>4, <2>4
  <2>7. CASE k = 1
    BY <1>5, <1>6, <1>9, <2>4, <2>7
  <2>8. CASE 1 < k
    <3>1. NameAt(S[e], 1) < NameAt(S[e], k)
      BY <1>4, <1>5, <2>5, <2>6, <2>8 DEF Sorted
    <3> QED BY <1>5, <1>6, <1>9, <2>1, <2>2, <2>4, <3>1
  <2> QED BY <2>6, <2>7, <2>8
<1> QED BY <1>7, <1>9

\* No other file's name is between s and t.
Near(S, s, t) == \A f \in FilesIn(S) : f.fhash # s /\ f.fhash # t => (f.fhash < s <=> f.fhash < t)

AtALeaf(S, x) == \E m \in Nodes(S) : S[m].leaf /\ x \in Elems(S[m].fdes)

LEMMA NearIs ==
    ASSUME NEW S, NEW s, NEW t,
           \A j \in Nodes(S) : \A k \in 1 .. Len(S[j].fdes) :
             NameAt(S[j], k) # s /\ NameAt(S[j], k) # t => (NameAt(S[j], k) < s <=> NameAt(S[j], k) < t)
    PROVE  Near(S, s, t)
<1> SUFFICES ASSUME NEW f \in FilesIn(S), f.fhash # s, f.fhash # t PROVE f.fhash < s <=> f.fhash < t
  BY DEF Near
<1>1. PICK j \in Nodes(S) : \E k \in 1 .. Len(S[j].fdes) : S[j].fdes[k] = f
  BY FileIsAt
<1>2. PICK k \in 1 .. Len(S[j].fdes) : S[j].fdes[k] = f
  BY <1>1
<1>3. NameAt(S[j], k) = f.fhash
  BY <1>2 DEF NameAt
<1> QED BY <1>3

\* The greatest entry of the child before an entry is next to it.
LEMMA MaxNear ==
    ASSUME NEW S, NEW root, NEW h, Rooted(S, root, h), NEW I, Ordered(S, root, I),
           NEW p, NEW i, NEW c, IsKid(S, h, p, i, c), i \in 1 .. Len(S[p].fdes), NEW w, NEW e,
           WalkTo(S, h, [m \in Nodes(S) |-> LastKid(S, m)], c, w, e),
           Len(S[e].fdes) >= 1, NEW x, x = S[e].fdes[Len(S[e].fdes)]
    PROVE  x \in FilesIn(S) /\ x.fhash \in I[c] /\ AtALeaf(S, x) /\ Near(S, NameAt(S[p], i), x.fhash)
<1>1. PICK s, t : s = NameAt(S[p], i) /\ t = x.fhash
  OBVIOUS
<1>2. t = NameAt(S[e], Len(S[e].fdes))
  BY <1>1 DEF NameAt
<1>3. /\ t \in I[c]
      /\ \A j \in Nodes(S) : \A k \in 1 .. Len(S[j].fdes) : NameAt(S[j], k) \in I[c] => ~(t < NameAt(S[j], k))
  BY <1>2, MaxIsGreatest
<1>4. p \in Nodes(S) /\ S[p] \in TreeNode /\ I[c] = I[p] \cap Gap(S[p], i)
  <2>1. I[c] = I[p] \cap Gap(S[p], i)
    BY KidIn
  <2> QED BY <2>1 DEF IsKid
<1>5. PICK n \in Nat : n = Len(S[p].fdes)
  BY <1>4, NodeIs
<1>6. t \in Fhash /\ t \in Nat /\ s \in Fhash /\ s \in Nat /\ s \in I[p] /\ t \in I[p] /\ Sorted(S[p])
  BY <1>1, <1>3, <1>4, NamesAre, FhashIs DEF Ordered, Gap
<1>7. \A j \in 1 .. n : (j < i => NameAt(S[p], j) < t) /\ (i <= j => t < NameAt(S[p], j))
  BY <1>3, <1>4, <1>5 DEF Gap
<1>8. t < s /\ i \in 1 .. n
  BY <1>1, <1>5, <1>7
<1>9. ASSUME NEW j \in Nodes(S), NEW k \in 1 .. Len(S[j].fdes), NEW b, b = NameAt(S[j], k), t < b, b < s
      PROVE  FALSE
  <2>1. b \in Fhash /\ b \in Nat
    <3>1. S[j] \in TreeNode
      BY RootedIs
    <3> QED BY <1>9, <3>1, NamesAre
  <2>2. b \in I[p]
    <3>1. Convex(I[p])
      BY <1>4, AllConvex
    <3> QED BY <1>6, <1>9, <2>1, <3>1 DEF Convex
  <2>3. ASSUME NEW g \in 1 .. n PROVE (g < i => NameAt(S[p], g) < b) /\ (i <= g => b < NameAt(S[p], g))
    <3>1. NameAt(S[p], g) \in Nat
      BY <1>4, <1>5, NamesAre
    <3>2. (g < i => NameAt(S[p], g) < s) /\ (g > i => s < NameAt(S[p], g)) /\ (g = i => NameAt(S[p], g) = s)
      BY <1>1, <1>5, <1>6, <1>8 DEF Sorted
    <3>3. (g < i => NameAt(S[p], g) < t) /\ (i <= g => t < NameAt(S[p], g))
      BY <1>7
    <3> QED BY <1>6, <1>8, <1>9, <2>1, <3>1, <3>2, <3>3
  <2>4. b \in Gap(S[p], i)
    BY <1>5, <2>1, <2>3 DEF Gap
  <2>5. NameAt(S[j], k) \in I[c]
    BY <1>4, <1>9, <2>2, <2>4
  <2> QED BY <1>3, <1>9, <2>5
<1>10. ASSUME NEW j \in Nodes(S), NEW k \in 1 .. Len(S[j].fdes), NameAt(S[j], k) # s, NameAt(S[j], k) # t
       PROVE  NameAt(S[j], k) < s <=> NameAt(S[j], k) < t
  <2>1. PICK b : b = NameAt(S[j], k)
    OBVIOUS
  <2>2. b \in Nat
    <3>1. S[j] \in TreeNode
      BY RootedIs
    <3> QED BY <2>1, <3>1, NamesAre
  <2>3. ~(t < b /\ b < s)
    BY <1>9, <2>1
  <2>4. b # s /\ b # t
    BY <1>10, <2>1
  <2>5. b < s <=> b < t
    BY <1>6, <1>8, <2>2, <2>3, <2>4
  <2> QED BY <2>1, <2>5
<1>11. Near(S, s, t)
  BY <1>10, NearIs
<1>12. e \in Nodes(S) /\ S[e].leaf /\ Len(S[e].fdes) \in 1 .. Len(S[e].fdes)
  <2>1. e \in Nodes(S) /\ S[e].leaf
    BY DEF WalkTo
  <2>2. S[e] \in TreeNode
    BY <2>1, RootedIs
  <2>3. Len(S[e].fdes) \in Nat
    BY <2>2, NodeIs
  <2> QED BY <2>1, <2>3
<1>13. AtALeaf(S, x)
  BY <1>12 DEF AtALeaf, Elems
<1>14. x \in FilesIn(S)
  BY <1>12, FileIsAt
<1> QED BY <1>1, <1>3, <1>11, <1>13, <1>14

\* The least entry of the child after an entry is next to it.
LEMMA MinNear ==
    ASSUME NEW S, NEW root, NEW h, Rooted(S, root, h), NEW I, Ordered(S, root, I),
           NEW p, NEW i, NEW c, IsKid(S, h, p, i + 1, c), i \in 1 .. Len(S[p].fdes), NEW w, NEW e,
           WalkTo(S, h, [m \in Nodes(S) |-> FirstKid(S, m)], c, w, e),
           Len(S[e].fdes) >= 1, NEW x, x = S[e].fdes[1]
    PROVE  x \in FilesIn(S) /\ x.fhash \in I[c] /\ AtALeaf(S, x) /\ Near(S, NameAt(S[p], i), x.fhash)
<1>1. PICK s, t : s = NameAt(S[p], i) /\ t = x.fhash
  OBVIOUS
<1>2. t = NameAt(S[e], 1)
  BY <1>1 DEF NameAt
<1>3. /\ t \in I[c]
      /\ \A j \in Nodes(S) : \A k \in 1 .. Len(S[j].fdes) : NameAt(S[j], k) \in I[c] => ~(NameAt(S[j], k) < t)
  BY <1>2, MinIsLeast
<1>4. p \in Nodes(S) /\ S[p] \in TreeNode /\ I[c] = I[p] \cap Gap(S[p], i + 1)
  <2>1. I[c] = I[p] \cap Gap(S[p], i + 1)
    BY KidIn
  <2> QED BY <2>1 DEF IsKid
<1>5. PICK n \in Nat : n = Len(S[p].fdes)
  BY <1>4, NodeIs
<1>6. t \in Fhash /\ t \in Nat /\ s \in Fhash /\ s \in Nat /\ s \in I[p] /\ t \in I[p] /\ Sorted(S[p])
  BY <1>1, <1>3, <1>4, NamesAre, FhashIs DEF Ordered, Gap
<1>7. \A j \in 1 .. n : (j < i + 1 => NameAt(S[p], j) < t) /\ (i + 1 <= j => t < NameAt(S[p], j))
  BY <1>3, <1>4, <1>5 DEF Gap
<1>8. s < t /\ i \in 1 .. n
  BY <1>1, <1>5, <1>7
<1>9. ASSUME NEW j \in Nodes(S), NEW k \in 1 .. Len(S[j].fdes), NEW b, b = NameAt(S[j], k), s < b, b < t
      PROVE  FALSE
  <2>1. b \in Fhash /\ b \in Nat
    <3>1. S[j] \in TreeNode
      BY RootedIs
    <3> QED BY <1>9, <3>1, NamesAre
  <2>2. b \in I[p]
    <3>1. Convex(I[p])
      BY <1>4, AllConvex
    <3> QED BY <1>6, <1>9, <2>1, <3>1 DEF Convex
  <2>3. ASSUME NEW g \in 1 .. n PROVE (g < i + 1 => NameAt(S[p], g) < b) /\ (i + 1 <= g => b < NameAt(S[p], g))
    <3>1. NameAt(S[p], g) \in Nat
      BY <1>4, <1>5, NamesAre
    <3>2. (g < i => NameAt(S[p], g) < s) /\ (g > i => s < NameAt(S[p], g)) /\ (g = i => NameAt(S[p], g) = s)
      BY <1>1, <1>5, <1>6, <1>8 DEF Sorted
    <3>3. (g < i + 1 => NameAt(S[p], g) < t) /\ (i + 1 <= g => t < NameAt(S[p], g))
      BY <1>7
    <3> QED BY <1>6, <1>8, <1>9, <2>1, <3>1, <3>2, <3>3
  <2>4. b \in Gap(S[p], i + 1)
    BY <1>5, <2>1, <2>3 DEF Gap
  <2>5. NameAt(S[j], k) \in I[c]
    BY <1>4, <1>9, <2>2, <2>4
  <2> QED BY <1>3, <1>9, <2>5
<1>10. ASSUME NEW j \in Nodes(S), NEW k \in 1 .. Len(S[j].fdes), NameAt(S[j], k) # s, NameAt(S[j], k) # t
       PROVE  NameAt(S[j], k) < s <=> NameAt(S[j], k) < t
  <2>1. PICK b : b = NameAt(S[j], k)
    OBVIOUS
  <2>2. b \in Nat
    <3>1. S[j] \in TreeNode
      BY RootedIs
    <3> QED BY <2>1, <3>1, NamesAre
  <2>3. ~(s < b /\ b < t)
    BY <1>9, <2>1
  <2>4. b # s /\ b # t
    BY <1>10, <2>1
  <2>5. b < s <=> b < t
    BY <1>6, <1>8, <2>2, <2>3, <2>4
  <2> QED BY <2>1, <2>5
<1>11. Near(S, s, t)
  BY <1>10, NearIs
<1>12. e \in Nodes(S) /\ S[e].leaf /\ 1 \in 1 .. Len(S[e].fdes)
  <2>1. e \in Nodes(S) /\ S[e].leaf
    BY DEF WalkTo
  <2>2. S[e] \in TreeNode
    BY <2>1, RootedIs
  <2>3. Len(S[e].fdes) \in Nat
    BY <2>2, NodeIs
  <2> QED BY <2>1, <2>3
<1>13. AtALeaf(S, x)
  BY <1>12 DEF AtALeaf, Elems
<1>14. x \in FilesIn(S)
  BY <1>12, FileIsAt
<1> QED BY <1>1, <1>3, <1>11, <1>13, <1>14

(***************************************************************************)
(* A step elsewhere in the tree can be made before an entry is replaced as *)
(* well as after.                                                          *)
(***************************************************************************)
\* Store T with node a as it is in V.
Back(V, T, a) == [T EXCEPT ![a] = V[a]]

LEMMA BackIs ==
    ASSUME NEW V, NEW S, NEW a, NEW q, NEW x, Set(V, S, a, q, x), NEW T \in Stores, T[a] = S[a],
           NEW V1, V1 = Back(V, T, a)
    PROVE  /\ Set(V1, T, a, q, x) /\ V1 \in Stores /\ V \in Stores
           /\ Nodes(V1) = Nodes(T) /\ Nodes(V) = Nodes(S) /\ a \in Id /\ V1[a] = V[a]
           /\ \A j \in Id \ {a} : V1[j] = T[j] /\ V[j] = S[j]
<1>1. /\ V \in Stores /\ S \in Stores /\ Nodes(S) = Nodes(V) /\ a \in Nodes(V)
      /\ S[a].leaf = V[a].leaf /\ S[a].cobj = V[a].cobj /\ Len(S[a].fdes) = Len(V[a].fdes)
      /\ \A j \in Id \ {a} : S[j] = V[j]
      /\ q \in 1 .. Len(V[a].fdes) /\ x \in Entry /\ S[a].fdes[q] = x
      /\ \A k \in 1 .. Len(V[a].fdes) : k # q => S[a].fdes[k] = V[a].fdes[k]
  BY DEF Set
<1>2. a \in Id /\ V[a] # Null /\ S[a] # Null /\ V[a] \in TreeNode \cup {Null}
  BY <1>1 DEF Nodes, Stores
<1>3. V1 \in Stores /\ V1[a] = V[a] /\ \A j \in Id \ {a} : V1[j] = T[j]
  BY <1>2 DEF Back, Stores
<1>4. Nodes(V1) = Nodes(T)
  BY <1>2, <1>3 DEF Nodes
<1>5. a \in Nodes(V1) /\ \A j \in Id \ {a} : T[j] = V1[j]
  BY <1>2, <1>3 DEF Nodes
<1>6. Set(V1, T, a, q, x)
  BY <1>1, <1>3, <1>4, <1>5 DEF Set
<1> QED BY <1>1, <1>2, <1>3, <1>4, <1>6

LEMMA ShiftBack ==
    ASSUME NEW V, NEW S, NEW a, NEW q, NEW x, Set(V, S, a, q, x), NEW T,
           NEW p, NEW i, NEW l, NEW r, NEW e, NEW f, NEW c, a \notin {p, l, r},
           NEW V1, V1 = Back(V, T, a)
    PROVE  /\ Shift(S, T, p, i, l, r, e, f, c) => Set(V1, T, a, q, x) /\ Shift(V, V1, p, i, l, r, e, f, c)
           /\ Shift(T, S, p, i, l, r, e, f, c) => Set(V1, T, a, q, x) /\ Shift(V1, V, p, i, l, r, e, f, c)
<1>1. ASSUME T \in Stores, T[a] = S[a], p \in Id, l \in Id, r \in Id
      PROVE  /\ Set(V1, T, a, q, x) /\ V1 \in Stores /\ V \in Stores
             /\ Nodes(V1) = Nodes(T) /\ Nodes(V) = Nodes(S) /\ a \in Id /\ V1[a] = V[a]
             /\ \A j \in Id \ {a} : V1[j] = T[j] /\ V[j] = S[j]
             /\ \A j \in {p, l, r} : V1[j] = T[j] /\ V[j] = S[j]
  <2>1. /\ Set(V1, T, a, q, x) /\ V1 \in Stores /\ V \in Stores
        /\ Nodes(V1) = Nodes(T) /\ Nodes(V) = Nodes(S) /\ a \in Id /\ V1[a] = V[a]
        /\ \A j \in Id \ {a} : V1[j] = T[j] /\ V[j] = S[j]
    BY <1>1, BackIs
  <2> QED BY <1>1, <2>1
<1>2. a \in Id
  BY DEF Set, Nodes
<1>3. ASSUME Shift(S, T, p, i, l, r, e, f, c) PROVE Set(V1, T, a, q, x) /\ Shift(V, V1, p, i, l, r, e, f, c)
  <2>1. T \in Stores /\ p \in Id /\ l \in Id /\ r \in Id /\ \A j \in Id \ {p, l, r} : T[j] = S[j]
    BY <1>3 DEF Shift, Nodes
  <2>2. /\ Set(V1, T, a, q, x) /\ V1 \in Stores /\ V \in Stores
        /\ Nodes(V1) = Nodes(T) /\ Nodes(V) = Nodes(S) /\ a \in Id /\ V1[a] = V[a]
        /\ \A j \in Id \ {a} : V1[j] = T[j] /\ V[j] = S[j]
        /\ \A j \in {p, l, r} : V1[j] = T[j] /\ V[j] = S[j]
    BY <1>1, <1>2, <2>1
  <2>3. \A j \in Id \ {p, l, r} : V1[j] = V[j]
    BY <2>1, <2>2
  <2>4. V1[p] = T[p] /\ V1[l] = T[l] /\ V1[r] = T[r] /\ V[p] = S[p] /\ V[l] = S[l] /\ V[r] = S[r]
    BY <2>2
  <2> QED BY <1>3, <2>2, <2>3, <2>4 DEF Shift
<1>4. ASSUME Shift(T, S, p, i, l, r, e, f, c) PROVE Set(V1, T, a, q, x) /\ Shift(V1, V, p, i, l, r, e, f, c)
  <2>1. T \in Stores /\ p \in Id /\ l \in Id /\ r \in Id /\ \A j \in Id \ {p, l, r} : S[j] = T[j]
    BY <1>4 DEF Shift, Nodes
  <2>2. /\ Set(V1, T, a, q, x) /\ V1 \in Stores /\ V \in Stores
        /\ Nodes(V1) = Nodes(T) /\ Nodes(V) = Nodes(S) /\ a \in Id /\ V1[a] = V[a]
        /\ \A j \in Id \ {a} : V1[j] = T[j] /\ V[j] = S[j]
        /\ \A j \in {p, l, r} : V1[j] = T[j] /\ V[j] = S[j]
    BY <1>1, <1>2, <2>1
  <2>3. \A j \in Id \ {p, l, r} : V[j] = V1[j]
    BY <2>1, <2>2
  <2>4. V1[p] = T[p] /\ V1[l] = T[l] /\ V1[r] = T[r] /\ V[p] = S[p] /\ V[l] = S[l] /\ V[r] = S[r]
    BY <2>2
  <2> QED BY <1>4, <2>2, <2>3, <2>4 DEF Shift
<1> QED BY <1>3, <1>4

\* Of a union, which leads from S to T.
LEMMA CutBack ==
    ASSUME NEW V, NEW S, NEW a, NEW q, NEW x, Set(V, S, a, q, x), NEW T,
           NEW p, NEW i, NEW l, NEW r, NEW e, Cut(T, S, p, i, l, r, e), a \notin {p, l, r},
           NEW V1, V1 = Back(V, T, a)
    PROVE  Set(V1, T, a, q, x) /\ Cut(V1, V, p, i, l, r, e)
<1>1. T \in Stores /\ p \in Id /\ l \in Id /\ r \in Id /\ \A j \in Id \ {p, l, r} : S[j] = T[j]
  BY DEF Cut, Nodes
<1>2. a \in Id
  BY DEF Set, Nodes
<1>3. /\ Set(V1, T, a, q, x) /\ V1 \in Stores /\ V \in Stores
      /\ Nodes(V1) = Nodes(T) /\ Nodes(V) = Nodes(S) /\ a \in Id /\ V1[a] = V[a]
      /\ \A j \in Id \ {a} : V1[j] = T[j] /\ V[j] = S[j]
  BY <1>1, <1>2, BackIs
<1>4. \A j \in Id \ {p, l, r} : V[j] = V1[j]
  BY <1>1, <1>3
<1>5. V1[p] = T[p] /\ V1[l] = T[l] /\ V1[r] = T[r] /\ V[p] = S[p] /\ V[l] = S[l] /\ V[r] = S[r]
  BY <1>1, <1>3
<1> QED BY <1>3, <1>4, <1>5 DEF Cut

\* The branches before the entry is replaced.
LEMMA BeforeSet ==
    ASSUME NEW V, NEW S, NEW a, NEW q, NEW x, Set(V, S, a, q, x), NEW root, NEW h
    PROVE  Rooted(V, root, h) <=> Rooted(S, root, h)
<1>1. /\ V \in Stores /\ S \in Stores /\ Nodes(S) = Nodes(V)
      /\ S[a].leaf = V[a].leaf /\ S[a].cobj = V[a].cobj /\ Len(S[a].fdes) = Len(V[a].fdes)
      /\ \A j \in Id \ {a} : S[j] = V[j]
  BY DEF Set
<1>2. \A j \in Nodes(V) : S[j].leaf = V[j].leaf /\ S[j].cobj = V[j].cobj /\ Len(S[j].fdes) = Len(V[j].fdes)
  BY <1>1 DEF Nodes
<1>3. Reentered(V, S)
  BY <1>1, <1>2 DEF Reentered
<1> QED BY <1>3, ReenteredRooted

(***************************************************************************)
(* A leaf keeps the entry that is to be deleted from it.                   *)
(***************************************************************************)
LEMMA KidsApart ==
    ASSUME NEW S, NEW root, NEW h, Rooted(S, root, h), NEW I, Ordered(S, root, I),
           NEW p, NEW i, NEW l, NEW r, NEW m \in Nodes(S), NEW x, x \in Elems(S[m].fdes),
           p \in Nodes(S), i \in 1 .. Len(S[p].cobj), i + 1 \in 1 .. Len(S[p].cobj),
           S[p].cobj[i] = l, S[p].cobj[i + 1] = r, l # r
    PROVE  /\ x.fhash \in I[r] => m # l
           /\ x.fhash \in I[l] => m # r
<1>1. l \in Nodes(S) /\ r \in Nodes(S) /\ h[l] = h[r]
  BY RootedIs
<1>2. PICK k \in 1 .. Len(S[m].fdes) : S[m].fdes[k] = x
  BY DEF Elems
<1>3. x.fhash \in I[m]
  BY <1>2 DEF Ordered, NameAt
<1> QED BY <1>1, <1>3, OneAtHeight

LEMMA LeafShifts ==
    ASSUME NEW S, NEW T, NEW p, NEW i, NEW l, NEW r, NEW e, NEW f, NEW c, Shift(S, T, p, i, l, r, e, f, c),
           NEW root, NEW h, Rooted(S, root, h), NEW I, Ordered(S, root, I), ~S[p].leaf,
           NEW x, AtALeaf(S, x), x.fhash \in I[r]
    PROVE  AtALeaf(T, x)
<1>1. /\ S \in Stores /\ T \in Stores /\ Nodes(T) = Nodes(S)
      /\ p \in Nodes(S) /\ l \in Nodes(S) /\ r \in Nodes(S) /\ p # l /\ p # r /\ l # r
      /\ \A j \in Id \ {p, l, r} : T[j] = S[j]
      /\ T[r].leaf = S[r].leaf
      /\ i \in 1 .. Len(S[p].cobj) /\ i + 1 \in 1 .. Len(S[p].cobj)
      /\ S[p].cobj[i] = l /\ S[p].cobj[i + 1] = r
      /\ IsInserted(T[r].fdes, S[r].fdes, 1, e)
  BY DEF Shift
<1>2. PICK m \in Nodes(S) : S[m].leaf /\ x \in Elems(S[m].fdes)
  BY DEF AtALeaf
<1>3. m # l
  BY <1>1, <1>2, KidsApart
<1>4. m # p /\ m \in Id
  BY <1>2 DEF Nodes
<1>5. CASE m = r
  <2>1. Len(S[r].fdes) \in Nat
    BY <1>1, RootedIs, NodeIs
  <2>2. 1 \in 1 .. Len(S[r].fdes) + 1
    BY <2>1
  <2>3. Elems(T[r].fdes) = Elems(S[r].fdes) \cup {e}
    BY <1>1, <2>1, <2>2, InsertedElems
  <2> QED BY <1>1, <1>2, <1>5, <2>3 DEF AtALeaf
<1>6. CASE m # r
  <2>1. T[m] = S[m]
    BY <1>1, <1>3, <1>4, <1>6
  <2> QED BY <1>1, <1>2, <2>1 DEF AtALeaf
<1> QED BY <1>5, <1>6

LEMMA LeafShiftsBack ==
    ASSUME NEW S, NEW T, NEW p, NEW i, NEW l, NEW r, NEW e, NEW f, NEW c, Shift(T, S, p, i, l, r, e, f, c),
           NEW root, NEW h, Rooted(S, root, h), NEW I, Ordered(S, root, I), ~S[p].leaf,
           NEW x, AtALeaf(S, x), x.fhash \in I[l]
    PROVE  AtALeaf(T, x)
<1>1. /\ S \in Stores /\ T \in Stores /\ Nodes(T) = Nodes(S)
      /\ p \in Nodes(S) /\ l \in Nodes(S) /\ r \in Nodes(S) /\ p # l /\ p # r /\ l # r
      /\ \A j \in Id \ {p, l, r} : T[j] = S[j]
      /\ T[l].leaf = S[l].leaf
      /\ S[p].cobj = T[p].cobj
      /\ i \in 1 .. Len(T[p].cobj) /\ i + 1 \in 1 .. Len(T[p].cobj)
      /\ T[p].cobj[i] = l /\ T[p].cobj[i + 1] = r
      /\ IsInserted(T[l].fdes, S[l].fdes, Len(S[l].fdes) + 1, f)
  BY DEF Shift
<1>2. PICK m \in Nodes(S) : S[m].leaf /\ x \in Elems(S[m].fdes)
  BY DEF AtALeaf
<1>3. m # r
  <2>1. /\ i \in 1 .. Len(S[p].cobj) /\ i + 1 \in 1 .. Len(S[p].cobj)
        /\ S[p].cobj[i] = l /\ S[p].cobj[i + 1] = r
    BY <1>1
  <2>2. p \in Nodes(S) /\ l # r
    BY <1>1
  <2> QED BY <1>2, <2>1, <2>2, KidsApart
<1>4. m # p /\ m \in Id
  BY <1>2 DEF Nodes
<1>5. CASE m = l
  <2>1. PICK n \in Nat : n = Len(S[l].fdes)
    BY <1>1, RootedIs, NodeIs
  <2>2. n + 1 \in 1 .. n + 1
    BY <2>1
  <2>3. Elems(T[l].fdes) = Elems(S[l].fdes) \cup {f}
    BY <1>1, <2>1, <2>2, InsertedElems
  <2> QED BY <1>1, <1>2, <1>5, <2>3 DEF AtALeaf
<1>6. CASE m # l
  <2>1. T[m] = S[m]
    BY <1>1, <1>3, <1>4, <1>6
  <2> QED BY <1>1, <1>2, <2>1 DEF AtALeaf
<1> QED BY <1>5, <1>6

LEMMA LeafJoins ==
    ASSUME NEW S, NEW T, NEW p, NEW i, NEW l, NEW r, NEW e, Cut(T, S, p, i, l, r, e), ~S[p].leaf,
           NEW x, AtALeaf(S, x)
    PROVE  AtALeaf(T, x)
<1>1. /\ l \in Nodes(T) /\ Nodes(S) = Nodes(T) \cup {r}
      /\ \A j \in Id \ {p, l, r} : S[j] = T[j]
      /\ S[l].leaf = T[l].leaf /\ S[r].leaf = T[l].leaf
  BY DEF Cut
<1>2. Elems(T[l].fdes) = Elems(S[l].fdes) \cup {e} \cup Elems(S[r].fdes)
  BY CutFiles
<1>3. PICK m \in Nodes(S) : S[m].leaf /\ x \in Elems(S[m].fdes)
  BY DEF AtALeaf
<1>4. CASE m = l \/ m = r
  BY <1>1, <1>2, <1>3, <1>4 DEF AtALeaf
<1>5. CASE m # l /\ m # r
  <2>1. m # p /\ m \in Id /\ m \in Nodes(T)
    BY <1>1, <1>3, <1>5 DEF Nodes
  <2>2. T[m] = S[m]
    BY <1>1, <1>5, <2>1
  <2> QED BY <1>3, <2>1, <2>2 DEF AtALeaf
<1> QED BY <1>4, <1>5

\* The names of two children that become one.
LEMMA UnionOrdered ==
    ASSUME NEW S, NEW T, NEW p, NEW i, NEW l, NEW r, NEW e, Cut(T, S, p, i, l, r, e),
           NEW root, NEW h, Rooted(T, root, h), Rooted(S, root, h), NEW J, Ordered(S, root, J)
    PROVE  \E I : Ordered(T, root, I) /\ J[l] \subseteq I[l] /\ J[r] \subseteq I[l] /\ e.fhash \in I[l]
<1>1. l \in Nodes(T)
  BY DEF Cut
<1>2. PICK I : I = [j \in Nodes(T) |-> IF j = l THEN J[p] \cap Gap(T[p], i) ELSE J[j]]
  OBVIOUS
<1>3. JoinNames(T, p, i, l, I, J)
  BY <1>1, <1>2 DEF JoinNames
<1>4. Ordered(T, root, I) /\ SplitNames(T, l, r, e.fhash, I, J)
  BY <1>3, UncutOrdered
<1>5. J[l] \subseteq I[l] /\ J[r] \subseteq I[l]
  BY <1>4 DEF SplitNames
<1>6. e \in Elems(T[l].fdes)
  BY CutFiles
<1>7. e.fhash \in I[l]
  BY <1>1, <1>4, <1>6 DEF Elems, Ordered, NameAt
<1> QED BY <1>4, <1>5, <1>7

(***************************************************************************)
(* The order, as an invariant.  On the way down the name searched for      *)
(* belongs to the node the call is for.  Once an entry is replaced by the  *)
(* one next to it, x, which is then deleted further down, x is in the tree *)
(* twice: V is the tree with the entry that was replaced.                  *)
(***************************************************************************)
Settled(S, root, c, I) ==
    /\ Ordered(S, root, I)
    /\ c # NoCall => /\ c.fhash \in I[c.id] /\ c.fhash = c.file.fhash
                     /\ c.op = "add" => \A f \in FilesIn(S) : f.fhash # c.fhash

Replacing(V, S, root, c, h, I, a, q, x) ==
    /\ Ordered(V, root, I) /\ c # NoCall /\ c.op = "del" /\ c.fhash \in I[c.id]
    /\ Set(V, S, a, q, x) /\ h[c.id] < h[a]
    /\ NameAt(V[a], q) = c.file.fhash /\ x.fhash = c.fhash
    /\ AtALeaf(V, x) /\ Near(V, c.file.fhash, c.fhash)

Searchable(S, root, c, h) ==
    \/ \E I : Settled(S, root, c, I)
    \/ \E V, I, a, q, x : Replacing(V, S, root, c, h, I, a, q, x)

NextSearchable ==
    \E g : /\ Shaped(store', root_dir_node_id', call', g)
           /\ Searchable(store', root_dir_node_id', call', g)

\* What a call does for the request it is made for.
Stays == call' # NoCall /\ call'.op = call.op /\ call'.file = call.file

TakesEffect ==
    \A f : f \in FilesIn(store') <=>
             \/ f \in FilesIn(store) /\ (call.op = "del" => f.fhash # call.file.fhash)
             \/ call.op = "add" /\ f = call.file

Serves ==
    \/ Stays /\ FilesIn(store') = FilesIn(store)
    \/ (Stays \/ call' = NoCall) /\ TakesEffect

LEMMA FromShape ==
    ASSUME NEW h, NEW g, NextShaped(h), Rooted(store', root_dir_node_id', g)
    PROVE  Shaped(store', root_dir_node_id', call', g)
<1>1. PICK k : Shaped(store', root_dir_node_id', call', k)
  BY DEF NextShaped
<1> QED BY <1>1 DEF Shaped

LEMMA CalledStays ==
    ASSUME NEW c, call.op = "del", call' = Called("del", call.file, call.fhash, c, store')
    PROVE  /\ Stays /\ call'.op = "del" /\ call'.file = call.file /\ call'.fhash = call.fhash /\ call'.id = c
           /\ call' # NoCall
<1>1. call'.op = "del" /\ call'.file = call.file /\ call'.fhash = call.fhash /\ call'.id = c
  BY CalledIs
<1>2. call' # NoCall
  BY <1>1, NoCallIs
<1> QED BY <1>1, <1>2 DEF Stays

\* A step of a deletion while the tree is in order.
LEMMA PlainGoes ==
    ASSUME NEW h, NextShaped(h), Rooted(store', root_dir_node_id', h),
           NEW I, Settled(store, root_dir_node_id, call, I), call.op = "del",
           NEW J, Ordered(store', root_dir_node_id', J), NEW c, call.fhash \in J[c],
           FilesIn(store') = FilesIn(store),
           call' = Called("del", call.file, call.fhash, c, store')
    PROVE  NextSearchable /\ Serves
<1>1. /\ Stays /\ call'.op = "del" /\ call'.file = call.file /\ call'.fhash = call.fhash /\ call'.id = c
      /\ call' # NoCall
  BY CalledStays
<1>2. call.fhash = call.file.fhash
  BY NoCallIs DEF Settled
<1>3. Settled(store', root_dir_node_id', call', J)
  BY <1>1, <1>2 DEF Settled
<1>4. Shaped(store', root_dir_node_id', call', h)
  BY FromShape
<1>5. Searchable(store', root_dir_node_id', call', h)
  BY <1>3 DEF Searchable
<1> QED BY <1>1, <1>4, <1>5 DEF NextSearchable, Serves

\* What is known while an entry is in the tree twice.
LEMMA ReplacingIs ==
    ASSUME NEW V, NEW S, NEW root, NEW c, NEW h, NEW I, NEW a, NEW q, NEW x,
           Replacing(V, S, root, c, h, I, a, q, x), Rooted(S, root, h)
    PROVE  /\ Ordered(V, root, I) /\ Rooted(V, root, h) /\ Nodes(V) = Nodes(S) /\ Set(V, S, a, q, x)
           /\ a \in Nodes(V) /\ h[a] \in Nat /\ h[a] <= h[root] /\ h[c.id] < h[a]
           /\ \A j \in Nodes(S) : h[j] < h[a] => V[j] = S[j] /\ j # a
<1>1. Set(V, S, a, q, x) /\ h[c.id] < h[a] /\ Ordered(V, root, I)
  BY DEF Replacing
<1>2. Rooted(V, root, h)
  BY <1>1, BeforeSet
<1>3. Nodes(V) = Nodes(S) /\ a \in Nodes(V) /\ \A j \in Id \ {a} : S[j] = V[j]
  BY <1>1 DEF Set
<1>4. h[a] \in Nat /\ h[a] <= h[root]
  BY <1>2, <1>3, RootedIs
<1>5. \A j \in Nodes(S) : h[j] \in Nat /\ j \in Id
  BY <1>2, <1>3, RootedIs
<1>6. ASSUME NEW j \in Nodes(S), h[j] < h[a] PROVE V[j] = S[j] /\ j # a
  BY <1>3, <1>4, <1>5, <1>6
<1> QED BY <1>1, <1>2, <1>3, <1>4, <1>6

\* A step of a deletion while an entry is in the tree twice.
LEMMA ReplacingGoes ==
    ASSUME NEW h, NextShaped(h), Rooted(store, root_dir_node_id, h), Rooted(store', root_dir_node_id', h),
           NEW V, NEW I, NEW a, NEW q, NEW x, Replacing(V, store, root_dir_node_id, call, h, I, a, q, x),
           NEW V1, Set(V1, store', a, q, x), V1[a] = V[a], FilesIn(V1) = FilesIn(V), AtALeaf(V1, x),
           NEW J, Ordered(V1, root_dir_node_id', J), NEW c, call.fhash \in J[c], h[c] < h[a],
           call' = Called("del", call.file, call.fhash, c, store')
    PROVE  NextSearchable /\ Serves
<1>1. /\ Ordered(V, root_dir_node_id, I) /\ call.op = "del" /\ Set(V, store, a, q, x)
      /\ NameAt(V[a], q) = call.file.fhash /\ x.fhash = call.fhash /\ Near(V, call.file.fhash, call.fhash)
  BY DEF Replacing
<1>2. /\ Stays /\ call'.op = "del" /\ call'.file = call.file /\ call'.fhash = call.fhash /\ call'.id = c
      /\ call' # NoCall
  BY <1>1, CalledStays
<1>3. Near(V1, call.file.fhash, call.fhash)
  BY <1>1 DEF Near
<1>4. Replacing(V1, store', root_dir_node_id', call', h, J, a, q, x)
  BY <1>1, <1>2, <1>3 DEF Replacing
<1>5. Shaped(store', root_dir_node_id', call', h)
  BY FromShape
<1>6. Searchable(store', root_dir_node_id', call', h)
  BY <1>4 DEF Searchable
<1>7. Rooted(V, root_dir_node_id, h)
  BY <1>1, BeforeSet
<1>8. Rooted(V1, root_dir_node_id', h)
  BY BeforeSet
<1>9. \A f : f \in FilesIn(store) <=> f = x \/ (f \in FilesIn(V) /\ f.fhash # NameAt(V[a], q))
  BY <1>1, <1>7, SetFiles
<1>10. \A f : f \in FilesIn(store') <=> f = x \/ (f \in FilesIn(V1) /\ f.fhash # NameAt(V1[a], q))
  BY <1>8, SetFiles
<1>11. FilesIn(store') = FilesIn(store)
  BY <1>9, <1>10
<1> QED BY <1>2, <1>5, <1>6, <1>11 DEF NextSearchable, Serves

(***************************************************************************)
(* The steps of a deletion.  W is the store, or what it was before an      *)
(* entry further up was replaced.                                          *)
(***************************************************************************)
LEMMA KidOf ==
    ASSUME NEW h, NEW p, NEW j, AtInner(h, p, j), NEW k \in 1 .. Len(store[p].fdes) + 1, NEW c,
           KidIs(store, root_dir_node_id, h, p, k, c), NEW W, Nodes(W) = Nodes(store), W[p] = store[p]
    PROVE  IsKid(W, h, p, k, c)
<1>1. /\ p \in Nodes(store) /\ ~store[p].leaf /\ store[p] \in TreeNode
      /\ Len(store[p].cobj) = Len(store[p].fdes) + 1 /\ h[p] \in Nat
  BY DEF AtInner, AtNode
<1>2. c = store[p].cobj[k] /\ h[c] = h[p] - 1 /\ h[c] \in Nat
  BY DEF KidIs
<1>3. h[p] = h[c] + 1
  BY <1>1, <1>2
<1> QED BY <1>1, <1>2, <1>3 DEF IsKid

\* A name that is not in the node belongs to the child at its place.
LEMMA BelowGap ==
    ASSUME NEW h, NEW p, NEW i, AtInner(h, p, i), ~Found, NEW c, KidIs(store, root_dir_node_id, h, p, i, c),
           NEW W, Nodes(W) = Nodes(store), W[p] = store[p],
           NEW root, NEW I, Ordered(W, root, I), call.fhash \in I[p]
    PROVE  call.fhash \in I[c]
<1>1. /\ p \in Nodes(store) /\ store[p] \in TreeNode /\ i \in 1 .. Len(store[p].fdes) + 1
      /\ i = PlaceOf(store[p], call.fhash) /\ call.fhash \in Fhash
      /\ ~(i <= Len(store[p].fdes) /\ store[p].fdes[i].fhash = call.fhash)
      /\ i \in 1 .. Len(store[p].cobj)
  BY DEF AtInner, AtNode
<1>2. Sorted(store[p]) /\ I[c] = I[p] \cap Gap(store[p], i)
  <2>1. p \in Nodes(W) /\ i \in 1 .. Len(W[p].cobj) /\ W[p].cobj[i] = c
    BY <1>1 DEF KidIs
  <2>2. Sorted(W[p]) /\ I[W[p].cobj[i]] = I[p] \cap Gap(W[p], i)
    BY <2>1 DEF Ordered
  <2> QED BY <2>1, <2>2
<1>3. ~Holds(store[p], i, call.fhash)
  BY <1>1 DEF Holds
<1>4. call.fhash \in Gap(store[p], i)
  BY <1>1, <1>2, <1>3, PlaceGap
<1> QED BY <1>2, <1>4

LEMMA SettledIs ==
    ASSUME NEW I, Settled(store, root_dir_node_id, call, I), call.op \in {"add", "del"}
    PROVE  Ordered(store, root_dir_node_id, I) /\ call.fhash \in I[call.id] /\ call.fhash = call.file.fhash
BY NoCallIs DEF Settled

\* At an inner node, while an entry is in the tree twice.
GhostAt(V, I, h, p, a, q, x) ==
    /\ Ordered(V, root_dir_node_id, I) /\ Rooted(V, root_dir_node_id, h) /\ Nodes(V) = Nodes(store)
    /\ Set(V, store, a, q, x) /\ V[p] = store[p] /\ p # a /\ h[p] < h[a] /\ h[p] \in Nat /\ h[a] \in Nat
    /\ h[a] <= h[root_dir_node_id] /\ p # root_dir_node_id
    /\ call.fhash \in I[p] /\ x.fhash = call.fhash /\ AtALeaf(V, x)

LEMMA GhostIs ==
    ASSUME NEW h, NEW p, NEW j, AtInner(h, p, j), NEW V, NEW I, NEW a, NEW q, NEW x,
           Replacing(V, store, root_dir_node_id, call, h, I, a, q, x)
    PROVE  GhostAt(V, I, h, p, a, q, x) /\ ~Found
<1>1. /\ p = call.id /\ p \in Nodes(store) /\ Rooted(store, root_dir_node_id, h) /\ h[p] \in Nat
      /\ ~store[p].leaf /\ j \in 1 .. Len(store[p].fdes) + 1
      /\ Found <=> (j <= Len(store[p].fdes) /\ store[p].fdes[j].fhash = call.fhash)
      /\ Len(store[p].fdes) \in Nat
  BY DEF AtInner, AtNode
<1>2. /\ Ordered(V, root_dir_node_id, I) /\ Rooted(V, root_dir_node_id, h) /\ Nodes(V) = Nodes(store)
      /\ Set(V, store, a, q, x)
      /\ h[a] \in Nat /\ h[a] <= h[root_dir_node_id] /\ h[call.id] < h[a]
      /\ \A m \in Nodes(store) : h[m] < h[a] => V[m] = store[m] /\ m # a
  BY <1>1, ReplacingIs
<1>3. call.fhash \in I[p] /\ x.fhash = call.fhash /\ AtALeaf(V, x)
  BY <1>1 DEF Replacing
<1>4. p # root_dir_node_id /\ V[p] = store[p] /\ p # a /\ h[p] < h[a]
  BY <1>1, <1>2
<1>5. GhostAt(V, I, h, p, a, q, x)
  BY <1>1, <1>2, <1>3, <1>4 DEF GhostAt
<1>6. ASSUME Found PROVE FALSE
  <2>1. j \in 1 .. Len(V[p].fdes) /\ NameAt(V[p], j) = x.fhash
    BY <1>1, <1>3, <1>4, <1>6 DEF NameAt
  <2>2. PICK m \in Nodes(V) : V[m].leaf /\ x \in Elems(V[m].fdes)
    BY <1>3 DEF AtALeaf
  <2>3. PICK k \in 1 .. Len(V[m].fdes) : V[m].fdes[k] = x
    BY <2>2 DEF Elems
  <2>4. NameAt(V[m], k) = NameAt(V[p], j)
    BY <2>1, <2>3 DEF NameAt
  <2>5. p = m
    BY <1>1, <1>2, <2>1, <2>4, NameOnce
  <2> QED BY <1>1, <1>4, <2>2, <2>5
<1> QED BY <1>5, <1>6

LEMMA DeleteBelowGoes ==
    ASSUME NEW h, Shaped(store, root_dir_node_id, call, h), Searchable(store, root_dir_node_id, call, h), DeleteBelow
    PROVE  NextSearchable /\ Serves
<1>1. PICK p, i, c :
        /\ AtInner(h, p, i) /\ ~Found /\ Same
        /\ KidIs(store, root_dir_node_id, h, p, i, c) /\ Len(store[c].fdes) > H
        /\ call' = Called("del", call.file, call.fhash, c, store')
  BY DeleteBelowDoes
<1>2. NextShaped(h)
  BY DeleteBelowShaped
<1>3. /\ Rooted(store, root_dir_node_id, h) /\ call.op = "del" /\ p = call.id /\ h[p] \in Nat
      /\ store' = store /\ root_dir_node_id' = root_dir_node_id /\ h[c] = h[p] - 1
  BY <1>1 DEF AtInner, AtNode, Same, KidIs
<1>4. Rooted(store', root_dir_node_id', h)
  BY <1>3
<1>5. ASSUME NEW I, Settled(store, root_dir_node_id, call, I) PROVE NextSearchable /\ Serves
  <2>1. Ordered(store, root_dir_node_id, I) /\ call.fhash \in I[p]
    BY <1>3, <1>5, SettledIs
  <2>2. call.fhash \in I[c]
    BY <1>1, <2>1, BelowGap
  <2>3. Ordered(store', root_dir_node_id', I) /\ FilesIn(store') = FilesIn(store)
    BY <1>3, <2>1
  <2> QED BY <1>1, <1>2, <1>3, <1>4, <1>5, <2>2, <2>3, PlainGoes
<1>6. ASSUME NEW V, NEW I, NEW a, NEW q, NEW x, Replacing(V, store, root_dir_node_id, call, h, I, a, q, x)
      PROVE  NextSearchable /\ Serves
  <2>1. GhostAt(V, I, h, p, a, q, x)
    BY <1>1, <1>6, GhostIs
  <2>2. call.fhash \in I[c]
    BY <1>1, <2>1, BelowGap DEF GhostAt
  <2>3. Set(V, store', a, q, x) /\ Ordered(V, root_dir_node_id', I) /\ AtALeaf(V, x)
    BY <1>3, <2>1 DEF GhostAt
  <2>4. h[c] < h[a]
    BY <1>3, <2>1 DEF GhostAt
  <2> QED BY <1>1, <1>2, <1>3, <1>4, <1>6, <2>2, <2>3, <2>4, ReplacingGoes
<1> QED BY <1>5, <1>6 DEF Searchable

\* The changed store with the entry that was replaced.
LEMMA BackAt ==
    ASSUME NEW h, NEW p, NEW V, NEW I, NEW a, NEW q, NEW x, GhostAt(V, I, h, p, a, q, x), NEW T \in Stores
    PROVE  Back(V, T, a)[a] = V[a]
<1>1. a \in Id
  BY DEF GhostAt, Set, Nodes
<1> QED BY <1>1 DEF Back, Stores

\* Where the children are, the replaced entry is not.
LEMMA GhostApart ==
    ASSUME NEW h, NEW p, NEW V, NEW I, NEW a, NEW q, NEW x, GhostAt(V, I, h, p, a, q, x),
           NEW root, NEW k, NEW c, KidIs(store, root, h, p, k, c)
    PROVE  c # a /\ h[c] < h[a]
BY DEF GhostAt, KidIs

LEMMA BorrowLeftGoes ==
    ASSUME InPlace, NEW h, Shaped(store, root_dir_node_id, call, h),
           Searchable(store, root_dir_node_id, call, h), BorrowLeft
    PROVE  NextSearchable /\ Serves
<1>1. PICK p, i, l, r, e, f, c :
        /\ AtInner(h, p, i + 1) /\ ~Found /\ root_dir_node_id' = root_dir_node_id
        /\ KidIs(store, root_dir_node_id, h, p, i, l) /\ Len(store[l].fdes) > H
        /\ KidIs(store, root_dir_node_id, h, p, i + 1, r)
        /\ Shift(store, store', p, i, l, r, e, f, c) /\ Lengths(store, store', p, l, r)
        /\ call' = Called("del", call.file, call.fhash, r, store')
  BY BorrowLeftDoes
<1>2. NextShaped(h)
  BY BorrowLeftShaped
<1>3. Rooted(store, root_dir_node_id, h) /\ call.op = "del" /\ p = call.id /\ ~store[p].leaf
  BY <1>1 DEF AtInner
<1>4. Shift(store, store', p, i, l, r, e, f, c) /\ store' \in Stores
  BY <1>1 DEF Shift
<1>5. Rooted(store', root_dir_node_id', h)
  BY <1>1, <1>3, <1>4, ShiftRooted
<1>6. ASSUME NEW I, Settled(store, root_dir_node_id, call, I) PROVE NextSearchable /\ Serves
  <2>1. Ordered(store, root_dir_node_id, I) /\ call.fhash \in I[p]
    BY <1>3, <1>6, SettledIs
  <2>2. call.fhash \in I[r]
    BY <1>1, <2>1, BelowGap
  <2>3. PICK K : Ordered(store', root_dir_node_id, K) /\ I[r] \subseteq K[r]
    BY <1>1, <1>3, <1>4, <1>5, <2>1, ShiftOrdered
  <2>4. FilesIn(store') = FilesIn(store)
    BY <1>1, <1>3, <1>4, <1>5, ShiftOrdered
  <2>5. Ordered(store', root_dir_node_id', K) /\ call.fhash \in K[r]
    BY <1>1, <2>2, <2>3
  <2> QED BY <1>1, <1>2, <1>3, <1>5, <1>6, <2>4, <2>5, PlainGoes
<1>7. ASSUME NEW V, NEW I, NEW a, NEW q, NEW x, Replacing(V, store, root_dir_node_id, call, h, I, a, q, x)
      PROVE  NextSearchable /\ Serves
  <2>1. GhostAt(V, I, h, p, a, q, x)
    BY <1>1, <1>7, GhostIs
  <2>2. call.fhash \in I[r]
    BY <1>1, <2>1, BelowGap DEF GhostAt
  <2>3. l # a /\ r # a /\ p # a /\ h[r] < h[a]
    BY <1>1, <2>1, GhostApart DEF GhostAt
  <2>4. PICK V1 : V1 = Back(V, store', a)
    OBVIOUS
  <2>5. V1[a] = V[a]
    BY <1>4, <2>1, <2>4, BackAt
  <2>6. /\ Ordered(V, root_dir_node_id, I) /\ Rooted(V, root_dir_node_id, h) /\ Set(V, store, a, q, x)
        /\ V[p] = store[p] /\ x.fhash = call.fhash /\ AtALeaf(V, x)
    BY <2>1 DEF GhostAt
  <2>7. Set(V1, store', a, q, x) /\ Shift(V, V1, p, i, l, r, e, f, c)
    BY <1>4, <2>3, <2>4, <2>6, ShiftBack
  <2>8. Rooted(V1, root_dir_node_id, h)
    BY <2>6, <2>7, ShiftRooted
  <2>9. PICK K : Ordered(V1, root_dir_node_id, K) /\ I[r] \subseteq K[r]
    BY <2>6, <2>7, <2>8, ShiftOrdered
  <2>10. FilesIn(V1) = FilesIn(V)
    BY <2>6, <2>7, <2>8, ShiftOrdered
  <2>11. AtALeaf(V1, x)
    BY <1>3, <2>2, <2>6, <2>7, LeafShifts
  <2>12. Ordered(V1, root_dir_node_id', K) /\ call.fhash \in K[r]
    BY <1>1, <2>2, <2>9
  <2> QED BY <1>1, <1>2, <1>3, <1>5, <1>7, <2>3, <2>5, <2>7, <2>10, <2>11, <2>12, ReplacingGoes
<1> QED BY <1>6, <1>7 DEF Searchable

LEMMA BorrowRightGoes ==
    ASSUME InPlace, NEW h, Shaped(store, root_dir_node_id, call, h),
           Searchable(store, root_dir_node_id, call, h), BorrowRight
    PROVE  NextSearchable /\ Serves
<1>1. PICK p, i, l, r, e, f, c :
        /\ AtInner(h, p, i) /\ ~Found /\ root_dir_node_id' = root_dir_node_id
        /\ KidIs(store, root_dir_node_id, h, p, i, l) /\ Len(store[r].fdes) > H
        /\ KidIs(store, root_dir_node_id, h, p, i + 1, r)
        /\ Shift(store', store, p, i, l, r, e, f, c) /\ Lengths(store, store', p, r, l)
        /\ call' = Called("del", call.file, call.fhash, l, store')
  BY BorrowRightDoes
<1>2. NextShaped(h)
  BY BorrowRightShaped
<1>3. Rooted(store, root_dir_node_id, h) /\ call.op = "del" /\ p = call.id /\ ~store[p].leaf
  BY <1>1 DEF AtInner
<1>4. Shift(store', store, p, i, l, r, e, f, c) /\ store' \in Stores
  BY <1>1 DEF Shift
<1>5. Rooted(store', root_dir_node_id', h)
  BY <1>1, <1>3, <1>4, ShiftRooted
<1>6. ASSUME NEW I, Settled(store, root_dir_node_id, call, I) PROVE NextSearchable /\ Serves
  <2>1. Ordered(store, root_dir_node_id, I) /\ call.fhash \in I[p]
    BY <1>3, <1>6, SettledIs
  <2>2. call.fhash \in I[l]
    BY <1>1, <2>1, BelowGap
  <2>3. PICK K : Ordered(store', root_dir_node_id, K) /\ I[l] \subseteq K[l]
    BY <1>1, <1>3, <1>4, <1>5, <2>1, ShiftOrdered
  <2>4. FilesIn(store') = FilesIn(store)
    BY <1>1, <1>3, <1>4, <1>5, ShiftOrdered
  <2>5. Ordered(store', root_dir_node_id', K) /\ call.fhash \in K[l]
    BY <1>1, <2>2, <2>3
  <2> QED BY <1>1, <1>2, <1>3, <1>5, <1>6, <2>4, <2>5, PlainGoes
<1>7. ASSUME NEW V, NEW I, NEW a, NEW q, NEW x, Replacing(V, store, root_dir_node_id, call, h, I, a, q, x)
      PROVE  NextSearchable /\ Serves
  <2>1. GhostAt(V, I, h, p, a, q, x)
    BY <1>1, <1>7, GhostIs
  <2>2. call.fhash \in I[l]
    BY <1>1, <2>1, BelowGap DEF GhostAt
  <2>3. l # a /\ r # a /\ p # a /\ h[l] < h[a]
    BY <1>1, <2>1, GhostApart DEF GhostAt
  <2>4. PICK V1 : V1 = Back(V, store', a)
    OBVIOUS
  <2>5. V1[a] = V[a]
    BY <1>4, <2>1, <2>4, BackAt
  <2>6. /\ Ordered(V, root_dir_node_id, I) /\ Rooted(V, root_dir_node_id, h) /\ Set(V, store, a, q, x)
        /\ V[p] = store[p] /\ x.fhash = call.fhash /\ AtALeaf(V, x)
    BY <2>1 DEF GhostAt
  <2>7. Set(V1, store', a, q, x) /\ Shift(V1, V, p, i, l, r, e, f, c)
    BY <1>4, <2>3, <2>4, <2>6, ShiftBack
  <2>8. Rooted(V1, root_dir_node_id, h)
    BY <2>6, <2>7, ShiftRooted
  <2>9. PICK K : Ordered(V1, root_dir_node_id, K) /\ I[l] \subseteq K[l]
    BY <2>6, <2>7, <2>8, ShiftOrdered
  <2>10. FilesIn(V1) = FilesIn(V)
    BY <2>6, <2>7, <2>8, ShiftOrdered
  <2>11. AtALeaf(V1, x)
    BY <1>3, <2>2, <2>6, <2>7, LeafShiftsBack
  <2>12. Ordered(V1, root_dir_node_id', K) /\ call.fhash \in K[l]
    BY <1>1, <2>2, <2>9
  <2> QED BY <1>1, <1>2, <1>3, <1>5, <1>7, <2>3, <2>5, <2>7, <2>10, <2>11, <2>12, ReplacingGoes
<1> QED BY <1>6, <1>7 DEF Searchable

\* After a union the parent stays, or was the root and goes.
UnionLeaves(h, p, l, T) ==
    /\ Rooted(T, root_dir_node_id, h) /\ Rooted(store', root_dir_node_id', h)
    /\ p \in Nodes(T) /\ T \in Stores
    /\ \/ store' = T /\ root_dir_node_id' = root_dir_node_id
       \/ /\ p = root_dir_node_id /\ root_dir_node_id' = l /\ store' = DeAlloc(T, p)
          /\ ~T[p].leaf /\ Len(T[p].fdes) = 0 /\ l = T[p].cobj[1]

LEMMA UnionLeavesIs ==
    ASSUME NEW h, Shaped(store, root_dir_node_id, call, h), NEW p, NEW j, NEW i, NEW l, NEW r, NEW e, NEW T,
           AtInner(h, p, j), UnitedTo(h, p, i, l, r, e, T),
           Len(store[l].fdes) = H, Len(store[r].fdes) = H
    PROVE  UnionLeaves(h, p, l, T)
<1> DEFINE root == root_dir_node_id
<1>1. call.op = "del" /\ p = call.id /\ p \in Nodes(store) /\ ~store[p].leaf
  BY DEF AtInner
<1>2. Rooted(store, root, h) /\ (p = root \/ Len(store[p].fdes) > H)
  BY <1>1, DelCallIs
<1>3. /\ Cut(T, store, p, i, l, r, e) /\ Len(T[p].fdes) = Len(store[p].fdes) - 1
      /\ \/ /\ Len(T[p].fdes) > 0 /\ store' = T /\ root_dir_node_id' = root
         \/ /\ Len(T[p].fdes) = 0 /\ store' = DeAlloc(T, p) /\ root_dir_node_id' = l
  BY DEF UnitedTo
<1>4. Rooted(T, root, h)
  BY <1>2, <1>3, UncutRooted
<1>5. /\ CutLengths(T, store, p, l, r) /\ T[p].leaf = store[p].leaf /\ T \in Stores
      /\ p \in Nodes(T) /\ i \in 1 .. Len(T[p].cobj) /\ T[p].cobj[i] = l
  <2>1. CutLengths(T, store, p, l, r) /\ store[p].leaf = T[p].leaf
    BY <1>3, CutLengthsAre
  <2>2. Cut(T, store, p, i, l, r, e)
    BY <1>3
  <2>3. T \in Stores /\ p \in Nodes(T) /\ i \in 1 .. Len(T[p].cobj) /\ T[p].cobj[i] = l
    BY <2>2 DEF Cut
  <2> QED BY <2>1, <2>3
<1>6. CASE store' = T /\ root_dir_node_id' = root
  BY <1>4, <1>5, <1>6 DEF UnionLeaves
<1>7. CASE Len(T[p].fdes) = 0 /\ store' = DeAlloc(T, p) /\ root_dir_node_id' = l
  <2>1. Len(store[p].fdes) = 1
    BY <1>5, <1>7 DEF CutLengths
  <2>2. p = root
    BY <1>2, <2>1, Geometry
  <2>3. Len(T[p].cobj) = 1
    <3>1. h[p] > 0 /\ (h[p] > 0 => Len(T[p].cobj) = Len(T[p].fdes) + 1)
      BY <1>1, <1>4, <1>5, RootedIs
    <3> QED BY <1>7, <3>1
  <2>4. i = 1 /\ 1 .. Len(T[p].cobj) = {1}
    BY <1>5, <2>3
  <2>5. Kids(T, root) = {l}
    BY <1>5, <2>2, <2>4 DEF Kids, Elems
  <2>6. /\ store' \in Stores /\ Nodes(store') = Nodes(T) \ {root} /\ \A k \in Nodes(store') : store'[k] = T[k]
    BY <1>5, <1>7, <2>2, Deallocated
  <2>7. Rooted(store', root_dir_node_id', h)
    BY <1>4, <1>7, <2>5, <2>6, RootDropped
  <2> QED BY <1>1, <1>4, <1>5, <1>7, <2>2, <2>4, <2>7 DEF UnionLeaves
<1> QED BY <1>3, <1>6, <1>7

\* The call goes to a child that is united, or for the entry between the two.
GoesToUnited(p, i, j) ==
    \/ ~Found /\ (i = j \/ i = j - 1)
    \/ store[p].fdes[i].fhash = call.fhash

\* The name to delete belongs to the united child.
LEMMA NameToUnited ==
    ASSUME NEW h, NEW p, NEW i, NEW j, NEW l, NEW r, NEW e, NEW T, AtInner(h, p, j), GoesToUnited(p, i, j),
           UnitedTo(h, p, i, l, r, e, T), NEW W, Nodes(W) = Nodes(store), W[p] = store[p],
           NEW root, NEW I, Ordered(W, root, I), call.fhash \in I[p],
           NEW J, I[l] \subseteq J[l], I[r] \subseteq J[l], e.fhash \in J[l]
    PROVE  call.fhash \in J[l]
<1>1. KidIs(store, root_dir_node_id, h, p, i, l) /\ KidIs(store, root_dir_node_id, h, p, i + 1, r)
  BY DEF UnitedTo
<1>2. CASE store[p].fdes[i].fhash = call.fhash
  BY <1>2 DEF UnitedTo
<1>3. CASE ~Found /\ i = j
  <2>1. call.fhash \in I[l]
    BY <1>1, <1>3, BelowGap
  <2> QED BY <2>1
<1>4. CASE ~Found /\ i = j - 1
  <2>1. i + 1 = j
    BY <1>4 DEF AtInner
  <2>2. call.fhash \in I[r]
    BY <1>1, <1>4, <2>1, BelowGap
  <2> QED BY <2>2
<1> QED BY <1>2, <1>3, <1>4 DEF GoesToUnited

LEMMA UnionGoes ==
    ASSUME NEW h, Shaped(store, root_dir_node_id, call, h), Searchable(store, root_dir_node_id, call, h),
           NEW p, NEW j, NEW i, NEW l, NEW r, NEW e, NEW T, AtInner(h, p, j), UnitedTo(h, p, i, l, r, e, T),
           Len(store[l].fdes) = H, Len(store[r].fdes) = H, GoesToUnited(p, i, j)
    PROVE  NextSearchable /\ Serves
<1>1. NextShaped(h)
  BY UnionShaped
<1>2. UnionLeaves(h, p, l, T)
  BY UnionLeavesIs
<1>3. /\ Rooted(T, root_dir_node_id, h) /\ Rooted(store', root_dir_node_id', h) /\ T \in Stores
      /\ \/ store' = T /\ root_dir_node_id' = root_dir_node_id
         \/ /\ p = root_dir_node_id /\ root_dir_node_id' = l /\ store' = DeAlloc(T, p)
            /\ ~T[p].leaf /\ Len(T[p].fdes) = 0 /\ l = T[p].cobj[1]
  BY <1>2 DEF UnionLeaves
<1>4. /\ Cut(T, store, p, i, l, r, e) /\ call' = Called("del", call.file, call.fhash, l, store')
      /\ KidIs(store, root_dir_node_id, h, p, i, l) /\ KidIs(store, root_dir_node_id, h, p, i + 1, r)
  BY DEF UnitedTo
<1>5. Rooted(store, root_dir_node_id, h) /\ call.op = "del" /\ p = call.id /\ ~store[p].leaf
  BY DEF AtInner
<1>6. ASSUME NEW I, Settled(store, root_dir_node_id, call, I) PROVE NextSearchable /\ Serves
  <2>1. Ordered(store, root_dir_node_id, I) /\ call.fhash \in I[p]
    BY <1>5, <1>6, SettledIs
  <2>2. PICK J : Ordered(T, root_dir_node_id, J) /\ I[l] \subseteq J[l] /\ I[r] \subseteq J[l] /\ e.fhash \in J[l]
    BY <1>3, <1>4, <1>5, <2>1, UnionOrdered
  <2>3. call.fhash \in J[l]
    BY <2>1, <2>2, NameToUnited
  <2>4. FilesIn(T) = FilesIn(store)
    BY <1>4, CutFiles
  <2>5. Ordered(store', root_dir_node_id', J) /\ FilesIn(store') = FilesIn(T)
    BY <1>3, <2>2, DropOrdered
  <2> QED BY <1>1, <1>3, <1>4, <1>5, <1>6, <2>3, <2>4, <2>5, PlainGoes
<1>7. ASSUME NEW V, NEW I, NEW a, NEW q, NEW x, Replacing(V, store, root_dir_node_id, call, h, I, a, q, x)
      PROVE  NextSearchable /\ Serves
  <2>1. GhostAt(V, I, h, p, a, q, x)
    BY <1>7, GhostIs
  <2>2. l # a /\ r # a /\ p # a /\ h[l] < h[a]
    BY <1>4, <2>1, GhostApart DEF GhostAt
  <2>3. store' = T /\ root_dir_node_id' = root_dir_node_id
    BY <1>3, <2>1 DEF GhostAt
  <2>4. PICK V1 : V1 = Back(V, store', a)
    OBVIOUS
  <2>5. V1[a] = V[a]
    BY <1>3, <2>1, <2>3, <2>4, BackAt
  <2>6. /\ Ordered(V, root_dir_node_id, I) /\ Rooted(V, root_dir_node_id, h) /\ Set(V, store, a, q, x)
        /\ Nodes(V) = Nodes(store) /\ V[p] = store[p] /\ x.fhash = call.fhash /\ AtALeaf(V, x) /\ call.fhash \in I[p]
    BY <2>1 DEF GhostAt
  <2>7. Cut(store', store, p, i, l, r, e)
    BY <1>4, <2>3
  <2>8. Set(V1, store', a, q, x) /\ Cut(V1, V, p, i, l, r, e)
    BY <2>2, <2>4, <2>6, <2>7, CutBack
  <2>9. Rooted(V1, root_dir_node_id, h)
    BY <2>6, <2>8, UncutRooted
  <2>10. PICK J : Ordered(V1, root_dir_node_id, J) /\ I[l] \subseteq J[l] /\ I[r] \subseteq J[l] /\ e.fhash \in J[l]
    BY <2>6, <2>8, <2>9, UnionOrdered
  <2>11. call.fhash \in J[l]
    BY <2>6, <2>10, NameToUnited
  <2>12. FilesIn(V1) = FilesIn(V)
    BY <2>8, CutFiles
  <2>13. AtALeaf(V1, x)
    BY <1>5, <2>6, <2>8, LeafJoins
  <2>14. Ordered(V1, root_dir_node_id', J)
    BY <2>3, <2>10
  <2> QED BY <1>1, <1>3, <1>4, <1>5, <1>7, <2>2, <2>5, <2>8, <2>11, <2>12, <2>13, <2>14, ReplacingGoes
<1> QED BY <1>6, <1>7 DEF Searchable

LEMMA UnionFoundGoes ==
    ASSUME InPlace, NEW h, Shaped(store, root_dir_node_id, call, h),
           Searchable(store, root_dir_node_id, call, h), UnionFound
    PROVE  NextSearchable /\ Serves
<1>1. PICK p, i, l, r, e, T :
        /\ AtInner(h, p, i) /\ store[p].fdes[i].fhash = call.fhash
        /\ UnitedTo(h, p, i, l, r, e, T)
        /\ Len(store[l].fdes) = H /\ Len(store[r].fdes) = H
  BY UnionFoundDoes
<1>2. GoesToUnited(p, i, i)
  BY <1>1 DEF GoesToUnited
<1> QED BY <1>1, <1>2, UnionGoes

LEMMA UnionBelowGoes ==
    ASSUME InPlace, NEW h, Shaped(store, root_dir_node_id, call, h),
           Searchable(store, root_dir_node_id, call, h), UnionBelow
    PROVE  NextSearchable /\ Serves
<1>1. PICK p, i, j, l, r, e, T :
        /\ AtInner(h, p, j) /\ ~Found /\ (i = j \/ i = j - 1)
        /\ UnitedTo(h, p, i, l, r, e, T)
        /\ Len(store[l].fdes) = H /\ Len(store[r].fdes) = H
  BY UnionBelowDoes
<1>2. GoesToUnited(p, i, j)
  BY <1>1 DEF GoesToUnited
<1> QED BY <1>1, <1>2, UnionGoes

(***************************************************************************)
(* An entry is replaced by the one next to it, x, which is at a leaf.      *)
(***************************************************************************)
LEMMA ReplaceGoes ==
    ASSUME NEW h, NextShaped(h), Rooted(store, root_dir_node_id, h), Rooted(store', root_dir_node_id', h),
           root_dir_node_id' = root_dir_node_id,
           NEW I, Settled(store, root_dir_node_id, call, I), call.op = "del",
           NEW p, NEW i, NEW x, Set(store, store', p, i, x), store[p].fdes[i].fhash = call.fhash,
           NEW c, h[c] < h[p], x.fhash \in I[c], x \in FilesIn(store), AtALeaf(store, x),
           Near(store, call.fhash, x.fhash), x.fhash # call.fhash,
           call' = Called("del", call.file, x.fhash, c, store')
    PROVE  NextSearchable /\ Serves
<1>1. Ordered(store, root_dir_node_id, I) /\ call.fhash = call.file.fhash
  BY SettledIs
<1>2. /\ call'.op = "del" /\ call'.file = call.file /\ call'.fhash = x.fhash /\ call'.id = c
  BY CalledIs
<1>3. call' # NoCall
  BY <1>2, NoCallIs
<1>4. Replacing(store, store', root_dir_node_id', call', h, I, p, i, x)
  BY <1>1, <1>2, <1>3 DEF Replacing, NameAt
<1>5. Shaped(store', root_dir_node_id', call', h)
  BY FromShape
<1>6. NextSearchable
  BY <1>4, <1>5 DEF NextSearchable, Searchable
<1>7. \A f : f \in FilesIn(store') <=> f = x \/ (f \in FilesIn(store) /\ f.fhash # NameAt(store[p], i))
  BY <1>1, SetFiles
<1>8. NameAt(store[p], i) = call.file.fhash
  BY <1>1 DEF NameAt
<1>9. TakesEffect
  <2>1. \A f : f \in FilesIn(store') <=> f \in FilesIn(store) /\ f.fhash # call.file.fhash
    BY <1>1, <1>7, <1>8
  <2> QED BY <2>1 DEF TakesEffect
<1> QED BY <1>2, <1>3, <1>6, <1>9 DEF Serves, Stays

\* By an entry of child k, beside the entry it replaces.
LEMMA ReplaceBeside ==
    ASSUME NEW h, Shaped(store, root_dir_node_id, call, h), NextShaped(h), NEW p, NEW i, AtInner(h, p, i),
           i \in 1 .. Len(store[p].fdes), store[p].fdes[i].fhash = call.fhash,
           NEW k \in 1 .. Len(store[p].fdes) + 1, NEW c, KidIs(store, root_dir_node_id, h, p, k, c),
           NEW x, Set(store, store', p, i, x), root_dir_node_id' = root_dir_node_id,
           call' = Called("del", call.file, x.fhash, c, store'),
           NEW I, Settled(store, root_dir_node_id, call, I),
           x \in FilesIn(store), x.fhash \in I[c], AtALeaf(store, x), Near(store, NameAt(store[p], i), x.fhash)
    PROVE  NextSearchable /\ Serves
<1>1. Rooted(store, root_dir_node_id, h) /\ call.op = "del" /\ h[p] \in Nat
  BY DEF AtInner, AtNode
<1>2. Rooted(store', root_dir_node_id', h)
  BY <1>1, BeforeSet
<1>3. Ordered(store, root_dir_node_id, I)
  BY <1>1, SettledIs
<1>4. IsKid(store, h, p, k, c)
  BY KidOf
<1>5. h[c] < h[p]
  BY <1>1 DEF KidIs
<1>6. NameAt(store[p], i) = call.fhash
  BY DEF NameAt
<1>7. ~Holding(store[p], x.fhash)
  BY <1>3, <1>4, KidIn
<1>8. x.fhash # call.fhash
  BY <1>6, <1>7 DEF Holding
<1>9. Near(store, call.fhash, x.fhash)
  BY <1>6
<1> QED BY <1>1, <1>2, <1>5, <1>8, <1>9, ReplaceGoes

LEMMA ReplaceByMaxGoes ==
    ASSUME NEW h, Shaped(store, root_dir_node_id, call, h),
           Searchable(store, root_dir_node_id, call, h), ReplaceByMax
    PROVE  NextSearchable /\ Serves
<1>1. PICK p, i, c :
        /\ AtInner(h, p, i) /\ i \in 1 .. Len(store[p].fdes) /\ store[p].fdes[i].fhash = call.fhash
        /\ KidIs(store, root_dir_node_id, h, p, i, c) /\ Len(store[c].fdes) > H
        /\ Set(store, store', p, i, MaxOf(c)) /\ root_dir_node_id' = root_dir_node_id
        /\ call' = Called("del", call.file, MaxOf(c).fhash, c, store')
  BY ReplaceByMaxDoes
<1>2. NextShaped(h)
  BY ReplaceByMaxShaped
<1>3. /\ Rooted(store, root_dir_node_id, h) /\ Sized(store, root_dir_node_id) /\ call.op = "del"
      /\ p \in Nodes(store) /\ h[p] \in Nat /\ Found /\ i \in 1 .. Len(store[p].fdes) + 1
  BY <1>1 DEF AtInner, AtNode, ReplaceByMax
<1>4. c \in Nodes(store) /\ h[c] < h[root_dir_node_id]
  <2>1. c \in Nodes(store) /\ h[c] = h[p] - 1
    BY <1>1 DEF KidIs
  <2>2. h[p] <= h[root_dir_node_id] /\ h[root_dir_node_id] \in Nat
    BY <1>3, RootedIs DEF Rooted
  <2> QED BY <1>3, <2>1, <2>2
<1>5. PICK w : /\ IsWalk(w, Height, c, [m \in Nodes(store) |-> LastKid(store, m)])
               /\ w[Height] \in Nodes(store) /\ store[w[Height]].leaf
               /\ Len(store[w[Height]].fdes) \in Nat /\ Len(store[w[Height]].fdes) >= 1
               /\ MaxOf(c) = store[w[Height]].fdes[Len(store[w[Height]].fdes)]
  BY <1>3, <1>4, MaxIs
<1>6. PICK e : e = w[Height]
  OBVIOUS
<1>7. WalkTo(store, h, [m \in Nodes(store) |-> LastKid(store, m)], c, w, e)
  BY <1>3, <1>4, <1>5, <1>6, EndSteps DEF WalkTo
<1>8. IsKid(store, h, p, i, c)
  BY <1>1, <1>3, KidOf
<1>9. PICK x : x = MaxOf(c)
  OBVIOUS
<1>10. ASSUME NEW I, Settled(store, root_dir_node_id, call, I) PROVE NextSearchable /\ Serves
  <2>1. Ordered(store, root_dir_node_id, I)
    BY <1>3, <1>10, SettledIs
  <2>2. Len(store[e].fdes) >= 1 /\ x = store[e].fdes[Len(store[e].fdes)]
    BY <1>5, <1>6, <1>9
  <2>3. x \in FilesIn(store) /\ x.fhash \in I[c] /\ AtALeaf(store, x) /\ Near(store, NameAt(store[p], i), x.fhash)
    BY <1>1, <1>3, <1>7, <1>8, <2>1, <2>2, MaxNear
  <2>4. Set(store, store', p, i, x) /\ call' = Called("del", call.file, x.fhash, c, store')
    BY <1>1, <1>9
  <2> QED BY <1>1, <1>2, <1>3, <1>10, <2>3, <2>4, ReplaceBeside
<1>11. ASSUME NEW V, NEW I, NEW a, NEW q, NEW x1, Replacing(V, store, root_dir_node_id, call, h, I, a, q, x1)
       PROVE  NextSearchable /\ Serves
  BY <1>1, <1>3, <1>11, GhostIs
<1> QED BY <1>10, <1>11 DEF Searchable

LEMMA ReplaceByMinGoes ==
    ASSUME NEW h, Shaped(store, root_dir_node_id, call, h),
           Searchable(store, root_dir_node_id, call, h), ReplaceByMin
    PROVE  NextSearchable /\ Serves
<1>1. PICK p, i, c :
        /\ AtInner(h, p, i) /\ i \in 1 .. Len(store[p].fdes) /\ store[p].fdes[i].fhash = call.fhash
        /\ KidIs(store, root_dir_node_id, h, p, i + 1, c) /\ Len(store[c].fdes) > H
        /\ Set(store, store', p, i, MinOf(c)) /\ root_dir_node_id' = root_dir_node_id
        /\ call' = Called("del", call.file, MinOf(c).fhash, c, store')
  BY ReplaceByMinDoes
<1>2. NextShaped(h)
  BY ReplaceByMinShaped
<1>3. /\ Rooted(store, root_dir_node_id, h) /\ Sized(store, root_dir_node_id) /\ call.op = "del"
      /\ p \in Nodes(store) /\ h[p] \in Nat /\ Found /\ Len(store[p].fdes) \in Nat
  BY <1>1 DEF AtInner, AtNode, ReplaceByMin
<1>4. c \in Nodes(store) /\ h[c] < h[root_dir_node_id]
  <2>1. c \in Nodes(store) /\ h[c] = h[p] - 1
    BY <1>1 DEF KidIs
  <2>2. h[p] <= h[root_dir_node_id] /\ h[root_dir_node_id] \in Nat
    BY <1>3, RootedIs DEF Rooted
  <2> QED BY <1>3, <2>1, <2>2
<1>5. PICK w : /\ IsWalk(w, Height, c, [m \in Nodes(store) |-> FirstKid(store, m)])
               /\ w[Height] \in Nodes(store) /\ store[w[Height]].leaf
               /\ Len(store[w[Height]].fdes) \in Nat /\ Len(store[w[Height]].fdes) >= 1
               /\ MinOf(c) = store[w[Height]].fdes[1]
  BY <1>3, <1>4, MinIs
<1>6. PICK e : e = w[Height]
  OBVIOUS
<1>7. WalkTo(store, h, [m \in Nodes(store) |-> FirstKid(store, m)], c, w, e)
  BY <1>3, <1>4, <1>5, <1>6, EndSteps DEF WalkTo
<1>12. i + 1 \in 1 .. Len(store[p].fdes) + 1
  BY <1>1, <1>3
<1>8. IsKid(store, h, p, i + 1, c)
  BY <1>1, <1>12, KidOf
<1>9. PICK x : x = MinOf(c)
  OBVIOUS
<1>10. ASSUME NEW I, Settled(store, root_dir_node_id, call, I) PROVE NextSearchable /\ Serves
  <2>1. Ordered(store, root_dir_node_id, I)
    BY <1>3, <1>10, SettledIs
  <2>2. Len(store[e].fdes) >= 1 /\ x = store[e].fdes[1]
    BY <1>5, <1>6, <1>9
  <2>3. x \in FilesIn(store) /\ x.fhash \in I[c] /\ AtALeaf(store, x) /\ Near(store, NameAt(store[p], i), x.fhash)
    BY <1>1, <1>3, <1>7, <1>8, <2>1, <2>2, MinNear
  <2>4. Set(store, store', p, i, x) /\ call' = Called("del", call.file, x.fhash, c, store')
    BY <1>1, <1>9
  <2> QED BY <1>1, <1>2, <1>10, <1>12, <2>3, <2>4, ReplaceBeside
<1>11. ASSUME NEW V, NEW I, NEW a, NEW q, NEW x1, Replacing(V, store, root_dir_node_id, call, h, I, a, q, x1)
       PROVE  NextSearchable /\ Serves
  BY <1>1, <1>3, <1>11, GhostIs
<1> QED BY <1>10, <1>11 DEF Searchable

LEMMA FileNameOnce ==
    ASSUME NEW S, NEW root, NEW h, Rooted(S, root, h), NEW I, Ordered(S, root, I),
           NEW f \in FilesIn(S), NEW g \in FilesIn(S), f.fhash = g.fhash
    PROVE  f = g
<1>1. PICK i \in Nodes(S) : \E k \in 1 .. Len(S[i].fdes) : S[i].fdes[k] = f
  BY FileIsAt
<1>2. PICK k \in 1 .. Len(S[i].fdes) : S[i].fdes[k] = f
  BY <1>1
<1>3. PICK j \in Nodes(S) : \E l \in 1 .. Len(S[j].fdes) : S[j].fdes[l] = g
  BY FileIsAt
<1>4. PICK l \in 1 .. Len(S[j].fdes) : S[j].fdes[l] = g
  BY <1>3
<1>5. NameAt(S[i], k) = NameAt(S[j], l)
  BY <1>2, <1>4 DEF NameAt
<1>6. i = j /\ k = l
  BY <1>5, NameOnce
<1> QED BY <1>2, <1>4, <1>6

\* A deletion comes to its end.
LEMMA DelReturns ==
    ASSUME NEW h, NextShaped(h), call.op = "del", call' = NoCall, NEW J, Ordered(store', root_dir_node_id', J),
           \A f : f \in FilesIn(store') <=> f \in FilesIn(store) /\ f.fhash # call.file.fhash
    PROVE  NextSearchable /\ Serves
<1>1. PICK g : Shaped(store', root_dir_node_id', call', g)
  BY DEF NextShaped
<1>2. Settled(store', root_dir_node_id', call', J)
  BY DEF Settled
<1>3. TakesEffect
  BY DEF TakesEffect
<1> QED BY <1>1, <1>2, <1>3 DEF NextSearchable, Searchable, Serves

\* No file has a name that belongs to a leaf and is not there.
LEMMA NotAtLeaf ==
    ASSUME NEW S, NEW root, NEW h, Rooted(S, root, h), NEW I, Ordered(S, root, I),
           NEW m \in Nodes(S), h[m] = 0, NEW n \in I[m], ~Holding(S[m], n), NEW f \in FilesIn(S)
    PROVE  f.fhash # n
<1>1. PICK i \in Nodes(S) : \E k \in 1 .. Len(S[i].fdes) : S[i].fdes[k] = f
  BY FileIsAt
<1>2. PICK k \in 1 .. Len(S[i].fdes) : S[i].fdes[k] = f
  BY <1>1
<1>3. ASSUME f.fhash = n PROVE FALSE
  <2>1. Holding(S[i], n)
    BY <1>2, <1>3 DEF Holding, NameAt
  <2>2. i = m
    BY <2>1, AtLeaf
  <2> QED BY <2>1, <2>2
<1> QED BY <1>3

\* A file whose name belongs to a leaf is there.
LEMMA FileAtLeaf ==
    ASSUME NEW S, NEW root, NEW h, Rooted(S, root, h), NEW I, Ordered(S, root, I),
           NEW m \in Nodes(S), h[m] = 0, NEW x \in FilesIn(S), x.fhash \in I[m]
    PROVE  \E k \in 1 .. Len(S[m].fdes) : S[m].fdes[k] = x
<1>1. PICK i \in Nodes(S) : \E k \in 1 .. Len(S[i].fdes) : S[i].fdes[k] = x
  BY FileIsAt
<1>2. PICK k \in 1 .. Len(S[i].fdes) : S[i].fdes[k] = x
  BY <1>1
<1>3. Holding(S[i], x.fhash)
  BY <1>2 DEF Holding, NameAt
<1>4. i = m
  BY <1>3, AtLeaf
<1> QED BY <1>1, <1>4

\* Entry x goes from leaf m, which leads from V to W.
LEMMA TakenFromLeaf ==
    ASSUME NEW V, NEW W, NEW m, NEW k, NEW x, Put(W, V, m, k, x), NEW root, NEW h, Rooted(V, root, h),
           NEW I, Ordered(V, root, I)
    PROVE  /\ Rooted(W, root, h) /\ Ordered(W, root, I)
           /\ \A f : f \in FilesIn(W) <=> f \in FilesIn(V) /\ f.fhash # x.fhash
<1>1. /\ W \in Stores /\ V \in Stores /\ Nodes(V) = Nodes(W) /\ m \in Nodes(W)
      /\ W[m].leaf /\ V[m].leaf = W[m].leaf /\ V[m].cobj = W[m].cobj
      /\ \A j \in Id \ {m} : V[j] = W[j]
  BY DEF Put
<1>2. \A j \in Nodes(W) : j # m => V[j] = W[j]
  BY <1>1 DEF Nodes
<1>3. Reentered(W, V)
  BY <1>1, <1>2 DEF Reentered
<1>4. Rooted(W, root, h)
  BY <1>3, ReenteredRooted
<1>5. Ordered(W, root, I)
  BY <1>4, PutOrdered
<1>6. \A f : f \in FilesIn(W) <=> f \in FilesIn(V) /\ f.fhash # x.fhash
  BY <1>4, PutFiles
<1> QED BY <1>4, <1>5, <1>6

\* The changed leaf, in the store before the entry further up was replaced.
LEMMA PutBack ==
    ASSUME NEW V, NEW S, NEW a, NEW q, NEW x, Set(V, S, a, q, x), NEW T, NEW m, m # a, NEW k, NEW e, Put(T, S, m, k, e),
           NEW W, W = Back(V, T, a)
    PROVE  Set(W, T, a, q, x) /\ Put(W, V, m, k, e) /\ W[a] = V[a]
<1>1. T \in Stores /\ m \in Id /\ \A j \in Id \ {m} : S[j] = T[j]
  BY DEF Put, Nodes
<1>2. a \in Id
  BY DEF Set, Nodes
<1>3. /\ Set(W, T, a, q, x) /\ W \in Stores /\ V \in Stores
      /\ Nodes(W) = Nodes(T) /\ Nodes(V) = Nodes(S) /\ a \in Id /\ W[a] = V[a]
      /\ \A j \in Id \ {a} : W[j] = T[j] /\ V[j] = S[j]
  BY <1>1, <1>2, BackIs
<1>4. \A j \in Id \ {m} : V[j] = W[j]
  BY <1>1, <1>3
<1>5. W[m] = T[m] /\ V[m] = S[m]
  BY <1>1, <1>3
<1>6. Put(W, V, m, k, e)
  BY <1>3, <1>4, <1>5 DEF Put
<1> QED BY <1>3, <1>6

\* Of two entries with one name next to each other, the one that was replaced
\* stays and the other goes.
LEMMA TwinGoes ==
    ASSUME NEW V, NEW S, NEW a, NEW q, NEW x, Set(V, S, a, q, x), NEW root, NEW h, Rooted(V, root, h),
           NEW I, Ordered(V, root, I), NEW s, s = NameAt(V[a], q), Near(V, s, x.fhash), x \in FilesIn(V), x.fhash # s,
           NEW T, NEW m, m # a, NEW k, Put(T, S, m, k, x), Sized(T, root)
    PROVE  /\ \E J : Ordered(T, root, J)
           /\ \A f : f \in FilesIn(T) <=> f \in FilesIn(S) /\ f.fhash # s
<1>1. PICK W : W = Back(V, T, a)
  OBVIOUS
<1>2. Set(W, T, a, q, x) /\ Put(W, V, m, k, x) /\ W[a] = V[a]
  BY <1>1, PutBack
<1>3. /\ Rooted(W, root, h) /\ Ordered(W, root, I)
      /\ \A f : f \in FilesIn(W) <=> f \in FilesIn(V) /\ f.fhash # x.fhash
  BY <1>2, TakenFromLeaf
<1>4. Between(W, NameAt(W[a], q), x.fhash)
  <2>1. ASSUME NEW j \in Nodes(W), NEW n \in 1 .. Len(W[j].fdes), NameAt(W[j], n) # s
        PROVE  NameAt(W[j], n) # x.fhash /\ (NameAt(W[j], n) < s <=> NameAt(W[j], n) < x.fhash)
    <3>1. PICK f : f = W[j].fdes[n]
      OBVIOUS
    <3>2. f \in FilesIn(W) /\ f.fhash = NameAt(W[j], n)
      BY <3>1, FileIsAt DEF NameAt
    <3>3. f \in FilesIn(V) /\ f.fhash # x.fhash /\ f.fhash # s
      BY <1>3, <2>1, <3>2
    <3>4. f.fhash < s <=> f.fhash < x.fhash
      BY <3>3 DEF Near
    <3> QED BY <3>2, <3>3, <3>4
  <2>2. NameAt(W[a], q) = s
    BY <1>2 DEF NameAt
  <2> QED BY <2>1, <2>2 DEF Between
<1>5. \A j \in Nodes(W) : j # root => Len(W[j].fdes) >= 1
  <2>1. /\ Nodes(T) = Nodes(W)
        /\ \A j \in Nodes(W) : W[j] \in TreeNode /\ Len(T[j].fdes) = Len(W[j].fdes)
    BY <1>2, SetIs
  <2>2. H \in Nat \ {0}
    BY Geometry
  <2>3. \A j \in Nodes(W) : Len(W[j].fdes) \in Nat
    BY <2>1, NodeIs
  <2> QED BY <2>1, <2>2, <2>3 DEF Sized
<1>6. \E J : Ordered(T, root, J)
  BY <1>2, <1>3, <1>4, <1>5, SetOrdered
<1>7. \A f : f \in FilesIn(S) <=> f = x \/ (f \in FilesIn(V) /\ f.fhash # s)
  BY SetFiles
<1>8. \A f : f \in FilesIn(T) <=> f = x \/ (f \in FilesIn(W) /\ f.fhash # s)
  <2>1. NameAt(W[a], q) = s
    BY <1>2 DEF NameAt
  <2> QED BY <1>2, <1>3, <2>1, SetFiles
<1>9. \A f \in FilesIn(V) : f.fhash = x.fhash => f = x
  BY FileNameOnce
<1>10. ASSUME NEW f PROVE f \in FilesIn(T) <=> f \in FilesIn(S) /\ f.fhash # s
  BY <1>3, <1>7, <1>8, <1>9
<1> QED BY <1>6, <1>10

LEMMA DeleteFromLeafGoes ==
    ASSUME NEW h, Shaped(store, root_dir_node_id, call, h),
           Searchable(store, root_dir_node_id, call, h), DeleteFromLeaf
    PROVE  NextSearchable /\ Serves
<1>1. /\ store[call.id].leaf
      /\ Found => /\ Put(store', store, call.id, Place, store[call.id].fdes[Place])
                  /\ store[call.id].fdes[Place].fhash = call.fhash
      /\ ~Found => store' = store
      /\ call' = NoCall /\ root_dir_node_id' = root_dir_node_id
  BY DeleteFromLeafDoes
<1>2. NextShaped(h)
  BY DeleteFromLeafShaped
<1>3. PICK m : m = call.id
  OBVIOUS
<1>4. call.op = "del" /\ call.dobj.leaf
  BY DEF DeleteFromLeaf, Deleting
<1>5. /\ Rooted(store, root_dir_node_id, h) /\ m \in Nodes(store) /\ h[m] = 0 /\ store[m] \in TreeNode
      /\ call.fhash \in Fhash /\ call.dobj = store[m] /\ Place = PlaceOf(store[m], call.fhash)
  <2>1. AtNode(store, root_dir_node_id, call, h, call.id)
    BY <1>4, AtNodeIs
  <2> QED BY <1>1, <1>3, <2>1 DEF AtNode, Place, Shaped
<1>6. Found <=> Holds(store[m], PlaceOf(store[m], call.fhash), call.fhash)
  BY <1>5 DEF Found
<1>7. ASSUME NEW I, Settled(store, root_dir_node_id, call, I) PROVE NextSearchable /\ Serves
  <2>1. Ordered(store, root_dir_node_id, I) /\ call.fhash \in I[m] /\ call.fhash = call.file.fhash
    BY <1>3, <1>4, <1>7, SettledIs
  <2>2. CASE Found
    <3>1. PICK e : e = store[m].fdes[Place]
      OBVIOUS
    <3>2. Put(store', store, m, Place, e) /\ e.fhash = call.file.fhash
      BY <1>1, <1>3, <2>1, <2>2, <3>1
    <3>3. /\ Ordered(store', root_dir_node_id, I)
          /\ \A f : f \in FilesIn(store') <=> f \in FilesIn(store) /\ f.fhash # e.fhash
      BY <1>5, <2>1, <3>2, TakenFromLeaf
    <3> QED BY <1>1, <1>2, <1>4, <3>2, <3>3, DelReturns
  <2>3. CASE ~Found
    <3>1. ~Holding(store[m], call.fhash)
      <4>1. Sorted(store[m])
        BY <1>5, <2>1 DEF Ordered
      <4> QED BY <1>5, <1>6, <2>3, <4>1, PlaceGap
    <3>2. \A f \in FilesIn(store) : f.fhash # call.fhash
      BY <1>5, <2>1, <3>1, NotAtLeaf
    <3>3. store' = store
      BY <1>1, <2>3
    <3>4. \A f : f \in FilesIn(store') <=> f \in FilesIn(store) /\ f.fhash # call.file.fhash
      BY <2>1, <3>2, <3>3
    <3>5. Ordered(store', root_dir_node_id', I)
      BY <1>1, <2>1, <3>3
    <3> QED BY <1>1, <1>2, <1>4, <3>4, <3>5, DelReturns
  <2> QED BY <2>2, <2>3
<1>8. ASSUME NEW V, NEW I, NEW a, NEW q, NEW x, Replacing(V, store, root_dir_node_id, call, h, I, a, q, x)
      PROVE  NextSearchable /\ Serves
  <2>1. /\ Ordered(V, root_dir_node_id, I) /\ Rooted(V, root_dir_node_id, h) /\ Nodes(V) = Nodes(store)
        /\ Set(V, store, a, q, x) /\ a \in Nodes(V)
        /\ h[a] \in Nat /\ h[call.id] < h[a]
        /\ \A j \in Nodes(store) : h[j] < h[a] => V[j] = store[j] /\ j # a
    BY <1>5, <1>8, ReplacingIs
  <2>2. /\ NameAt(V[a], q) = call.file.fhash /\ x.fhash = call.fhash /\ call.fhash \in I[m]
        /\ AtALeaf(V, x) /\ Near(V, call.file.fhash, call.fhash)
    BY <1>3, <1>8 DEF Replacing
  <2>3. V[m] = store[m] /\ m # a
    BY <1>3, <1>5, <2>1
  <2>4. x \in FilesIn(V)
    BY <2>2 DEF AtALeaf, FilesIn
  <2>5. PICK k \in 1 .. Len(V[m].fdes) : V[m].fdes[k] = x
    <3>1. m \in Nodes(V) /\ x.fhash \in I[m]
      BY <1>5, <2>1, <2>2
    <3> QED BY <1>5, <2>1, <2>4, <3>1, FileAtLeaf
  <2>6. Found /\ \E e : e = store[m].fdes[Place] /\ e = x
    <3>1. Sorted(store[m])
      BY <1>5, <2>1, <2>3 DEF Ordered
    <3>2. Holding(store[m], call.fhash)
      BY <2>2, <2>3, <2>5 DEF Holding, NameAt
    <3>3. Found
      BY <1>5, <1>6, <3>1, <3>2, PlaceGap
    <3>4. store[m].fdes[Place].fhash = call.fhash
      BY <1>1, <1>3, <3>3
    <3>5. Place \in 1 .. Len(store[m].fdes)
      <4>1. Place \in 1 .. Len(store[m].fdes) + 1
        BY <1>5, PlacesAre
      <4>2. Place <= Len(store[m].fdes)
        BY <1>5, <1>6, <3>3 DEF Holds
      <4>3. Len(store[m].fdes) \in Nat
        BY <1>5, NodeIs
      <4> QED BY <4>1, <4>2, <4>3
    <3>6. NameAt(V[m], Place) = NameAt(V[m], k) /\ Place \in 1 .. Len(V[m].fdes) /\ m \in Nodes(V)
      BY <1>5, <2>1, <2>2, <2>3, <2>5, <3>4, <3>5 DEF NameAt
    <3>7. Place = k
      BY <2>1, <2>5, <3>6, NameOnce
    <3> QED BY <2>3, <2>5, <3>3, <3>7
  <2>7. Put(store', store, m, Place, x)
    BY <1>1, <1>3, <2>6
  <2>8. x.fhash # call.file.fhash
    <3>1. q \in 1 .. Len(V[a].fdes)
      BY <2>1 DEF Set
    <3>2. ASSUME x.fhash = call.file.fhash PROVE FALSE
      <4>1. NameAt(V[m], k) = NameAt(V[a], q)
        BY <2>2, <2>5, <3>2 DEF NameAt
      <4>2. m = a
        BY <1>5, <2>1, <2>5, <3>1, <4>1, NameOnce
      <4> QED BY <2>3, <4>2
    <3> QED BY <3>2
  <2>9. Sized(store', root_dir_node_id)
    BY <1>1, <1>2 DEF NextShaped, Shaped
  <2>10. Near(V, call.file.fhash, x.fhash)
    BY <2>2
  <2>11. /\ \E J : Ordered(store', root_dir_node_id, J)
         /\ \A f : f \in FilesIn(store') <=> f \in FilesIn(store) /\ f.fhash # call.file.fhash
    <3>1. PICK s : s = call.file.fhash
      OBVIOUS
    <3>2. Near(V, s, x.fhash) /\ s = NameAt(V[a], q) /\ x.fhash # s
      BY <2>2, <2>8, <2>10, <3>1
    <3>3. /\ Set(V, store, a, q, x) /\ Rooted(V, root_dir_node_id, h) /\ Ordered(V, root_dir_node_id, I)
          /\ x \in FilesIn(V) /\ m # a /\ Put(store', store, m, Place, x) /\ Sized(store', root_dir_node_id)
      BY <2>1, <2>3, <2>4, <2>7, <2>9
    <3>4. /\ \E J : Ordered(store', root_dir_node_id, J)
          /\ \A f : f \in FilesIn(store') <=> f \in FilesIn(store) /\ f.fhash # s
      BY <3>2, <3>3, TwinGoes
    <3> QED BY <3>1, <3>4
  <2> QED BY <1>1, <1>2, <1>4, <2>11, DelReturns
<1> QED BY <1>7, <1>8 DEF Searchable

(***************************************************************************)
(* The steps of an addition.                                               *)
(***************************************************************************)
LEMMA AddIsSettled ==
    ASSUME NEW h, Searchable(store, root_dir_node_id, call, h), call.op = "add"
    PROVE  \E I : /\ Settled(store, root_dir_node_id, call, I) /\ Ordered(store, root_dir_node_id, I)
                  /\ call.fhash \in I[call.id] /\ \A f \in FilesIn(store) : f.fhash # call.fhash
<1>1. \A V, I, a, q, x : ~Replacing(V, store, root_dir_node_id, call, h, I, a, q, x)
  BY DEF Replacing
<1>2. PICK I : Settled(store, root_dir_node_id, call, I)
  BY <1>1 DEF Searchable
<1>3. call # NoCall
  BY NoCallIs
<1> QED BY <1>2, <1>3 DEF Settled

LEMMA InsertIntoLeafGoes ==
    ASSUME NEW h, Shaped(store, root_dir_node_id, call, h),
           Searchable(store, root_dir_node_id, call, h), InsertIntoLeaf
    PROVE  NextSearchable /\ Serves
<1>1. /\ Put(store, store', call.id, PlaceAfter(store[call.id], call.fhash), call.file)
      /\ call' = NoCall /\ root_dir_node_id' = root_dir_node_id
  BY InsertIntoLeafDoes
<1>2. PICK g : Shaped(store', root_dir_node_id', call', g)
  BY InsertIntoLeafShaped DEF NextShaped
<1>3. call.op = "add"
  BY DEF InsertIntoLeaf
<1>4. PICK m : m = call.id
  OBVIOUS
<1>5. /\ Rooted(store, root_dir_node_id, h) /\ m \in Nodes(store) /\ store[m] \in TreeNode
      /\ call.fhash \in Fhash /\ call.fhash = call.file.fhash
  <2>1. AtNode(store, root_dir_node_id, call, h, call.id) /\ call.fhash = call.file.fhash
    BY <1>3, AtNodeIs
  <2> QED BY <1>4, <2>1 DEF AtNode, Shaped
<1>6. PICK I : /\ Ordered(store, root_dir_node_id, I)
               /\ call.fhash \in I[m] /\ \A f \in FilesIn(store) : f.fhash # call.fhash
  BY <1>3, <1>4, AddIsSettled
<1>7. ~Holding(store[m], call.fhash)
  <2>1. ASSUME NEW k \in 1 .. Len(store[m].fdes), NameAt(store[m], k) = call.fhash PROVE FALSE
    <3>1. PICK f : f = store[m].fdes[k]
      OBVIOUS
    <3>2. f \in FilesIn(store)
      BY <1>5, <3>1, FileIsAt
    <3> QED BY <1>6, <2>1, <3>1, <3>2 DEF NameAt
  <2> QED BY <2>1 DEF Holding
<1>8. call.fhash \in Gap(store[m], PlaceAfter(store[m], call.fhash))
  <2>1. Sorted(store[m])
    BY <1>5, <1>6 DEF Ordered
  <2> QED BY <1>5, <1>7, <2>1, PlaceGap
<1>9. PICK i, e : i = PlaceAfter(store[m], call.fhash) /\ e = call.file
  OBVIOUS
<1>10. Put(store, store', m, i, e) /\ e.fhash \in I[m] /\ e.fhash \in Gap(store[m], i)
  BY <1>1, <1>4, <1>5, <1>6, <1>8, <1>9
<1>11. Ordered(store', root_dir_node_id, I)
  BY <1>5, <1>6, <1>10, PutOrdered
<1>12. \A f : f \in FilesIn(store') <=> f = e \/ f \in FilesIn(store)
  BY <1>5, <1>10, <1>11, PutFiles
<1>13. TakesEffect
  BY <1>3, <1>9, <1>12 DEF TakesEffect
<1>14. Settled(store', root_dir_node_id', call', I)
  BY <1>1, <1>11 DEF Settled
<1> QED BY <1>1, <1>2, <1>13, <1>14 DEF NextSearchable, Searchable, Serves

\* An addition goes on at node c.
LEMMA AddGoes ==
    ASSUME NEW h, NextShaped(h), call.op = "add", call.fhash = call.file.fhash,
           NEW J, Ordered(store', root_dir_node_id', J), NEW c, call.fhash \in J[c],
           FilesIn(store') = FilesIn(store), \A f \in FilesIn(store) : f.fhash # call.fhash,
           call' = Called("add", call.file, call.fhash, c, store')
    PROVE  NextSearchable /\ Serves
<1>1. PICK g : Shaped(store', root_dir_node_id', call', g)
  BY DEF NextShaped
<1>2. call'.op = "add" /\ call'.file = call.file /\ call'.fhash = call.fhash /\ call'.id = c
  BY CalledIs
<1>3. call' # NoCall
  BY <1>2, NoCallIs
<1>4. Settled(store', root_dir_node_id', call', J)
  BY <1>2, <1>3 DEF Settled
<1> QED BY <1>1, <1>2, <1>3, <1>4 DEF NextSearchable, Searchable, Serves, Stays

\* The names of the parts of a cut node.
LEMMA SplitsExist ==
    ASSUME NEW S, NEW l \in Nodes(S), NEW r, r \notin Nodes(S), NEW s, NEW I
    PROVE  \E J : SplitNames(S, l, r, s, I, J)
<1>1. PICK J : J = [j \in Nodes(S) \cup {r} |-> IF j = l THEN {n \in I[l] : n < s}
                                               ELSE IF j = r THEN {n \in I[l] : s < n} ELSE I[j]]
  OBVIOUS
<1>2. l # r
  OBVIOUS
<1>3. J[l] = {n \in I[l] : n < s}
  BY <1>1
<1>4. J[r] = {n \in I[l] : s < n}
  BY <1>1, <1>2
<1>5. \A j \in Nodes(S) \ {l} : J[j] = I[j]
  BY <1>1
<1> QED BY <1>3, <1>4, <1>5 DEF SplitNames

LEMMA InsertBelowGoes ==
    ASSUME InPlace, NEW h, Shaped(store, root_dir_node_id, call, h), HasRoom,
           Searchable(store, root_dir_node_id, call, h), InsertBelow
    PROVE  NextSearchable /\ Serves
<1>1. PICK p, i : p = call.id /\ i = PlaceAfter(store[p], call.fhash)
  OBVIOUS
<1>2. /\ call.op = "add" /\ ~store[p].leaf /\ root_dir_node_id' = root_dir_node_id
      /\ \/ /\ store' = store
            /\ call' = Called("add", call.file, call.fhash, store[p].cobj[i], store')
         \/ \E l, r, e :
              /\ Cut(store, store', p, i, l, r, e)
              /\ call' = Called("add", call.file, call.fhash, IF call.fhash > e.fhash THEN r ELSE l, store')
  BY <1>1, InsertBelowDoes
<1>3. NextShaped(h)
  BY InsertBelowShaped
<1>4. /\ Rooted(store, root_dir_node_id, h) /\ p \in Nodes(store) /\ store[p] \in TreeNode
      /\ call.fhash \in Fhash /\ call.fhash \in Nat /\ call.fhash = call.file.fhash
      /\ i \in 1 .. Len(store[p].fdes) + 1 /\ Len(store[p].cobj) = Len(store[p].fdes) + 1
  <2>1. AtNode(store, root_dir_node_id, call, h, call.id) /\ call.fhash = call.file.fhash
    BY <1>2, AtNodeIs
  <2>2. Rooted(store, root_dir_node_id, h)
    BY DEF Shaped
  <2>3. Len(store[p].cobj) = Len(store[p].fdes) + 1
    BY <1>1, <1>2, <2>1, <2>2, RootedIs DEF AtNode
  <2> QED BY <1>1, <2>1, <2>2, <2>3 DEF AtNode
<1>5. PICK I : /\ Ordered(store, root_dir_node_id, I)
               /\ call.fhash \in I[p] /\ \A f \in FilesIn(store) : f.fhash # call.fhash
  BY <1>1, <1>2, AddIsSettled
<1>6. ~Holding(store[p], call.fhash)
  <2>1. ASSUME NEW k \in 1 .. Len(store[p].fdes), NameAt(store[p], k) = call.fhash PROVE FALSE
    <3>1. PICK f : f = store[p].fdes[k]
      OBVIOUS
    <3>2. f \in FilesIn(store)
      BY <1>4, <3>1, FileIsAt
    <3> QED BY <1>5, <2>1, <3>1, <3>2 DEF NameAt
  <2> QED BY <2>1 DEF Holding
<1>7. call.fhash \in I[store[p].cobj[i]]
  <2>1. Sorted(store[p]) /\ I[store[p].cobj[i]] = I[p] \cap Gap(store[p], i)
    BY <1>4, <1>5 DEF Ordered
  <2>2. call.fhash \in Gap(store[p], i)
    BY <1>1, <1>4, <1>6, <2>1, PlaceGap
  <2> QED BY <1>5, <2>1, <2>2
<1>8. CASE store' = store /\ call' = Called("add", call.file, call.fhash, store[p].cobj[i], store')
  <2>1. Ordered(store', root_dir_node_id', I) /\ FilesIn(store') = FilesIn(store)
    BY <1>2, <1>5, <1>8
  <2> QED BY <1>2, <1>3, <1>4, <1>5, <1>7, <1>8, <2>1, AddGoes
<1>9. ASSUME NEW l, NEW r, NEW e, Cut(store, store', p, i, l, r, e),
             call' = Called("add", call.file, call.fhash, IF call.fhash > e.fhash THEN r ELSE l, store')
      PROVE  NextSearchable /\ Serves
  <2>1. l = store[p].cobj[i] /\ l \in Nodes(store) /\ r \notin Nodes(store)
    BY <1>9 DEF Cut
  <2>2. PICK J : SplitNames(store, l, r, e.fhash, I, J)
    BY <2>1, SplitsExist
  <2>3. PICK g : Rooted(store', root_dir_node_id, g)
    BY <1>2, <1>3 DEF NextShaped, Shaped
  <2>4. Ordered(store', root_dir_node_id', J)
    BY <1>2, <1>4, <1>5, <1>9, <2>2, <2>3, CutOrdered
  <2>5. /\ FilesIn(store') = FilesIn(store)
        /\ Elems(store[l].fdes) = Elems(store'[l].fdes) \cup {e} \cup Elems(store'[r].fdes)
    BY <1>9, CutFiles
  <2>6. e.fhash # call.fhash
    <3>1. e \in FilesIn(store)
      BY <2>1, <2>5 DEF FilesIn
    <3> QED BY <1>5, <3>1
  <2>7. e.fhash \in Nat
    <3>1. e \in Entry
      BY <1>9, CutEntries
    <3> QED BY <3>1, EntryIs
  <2>8. PICK c : c = IF call.fhash > e.fhash THEN r ELSE l
    OBVIOUS
  <2>9. call.fhash \in J[c]
    <3>1. call.fhash \in I[l]
      BY <1>7, <2>1
    <3>2. CASE call.fhash > e.fhash
      BY <1>4, <2>2, <2>7, <2>8, <3>1, <3>2 DEF SplitNames
    <3>3. CASE ~(call.fhash > e.fhash)
      <4>1. call.fhash < e.fhash
        BY <1>4, <2>6, <2>7, <3>3
      <4> QED BY <2>2, <2>8, <3>1, <3>3, <4>1 DEF SplitNames
    <3> QED BY <3>2, <3>3
  <2>10. call' = Called("add", call.file, call.fhash, c, store')
    BY <1>9, <2>8
  <2> QED BY <1>2, <1>3, <1>4, <1>5, <2>4, <2>5, <2>9, <2>10, AddGoes
<1> QED BY <1>2, <1>8, <1>9

LEMMA StepGoes ==
    ASSUME InPlace, NEW h, Shaped(store, root_dir_node_id, call, h), HasRoom,
           Searchable(store, root_dir_node_id, call, h), Step
    PROVE  NextSearchable /\ Serves
BY InsertIntoLeafGoes, InsertBelowGoes, DeleteFromLeafGoes, ReplaceByMaxGoes, ReplaceByMinGoes,
   DeleteBelowGoes, BorrowLeftGoes, BorrowRightGoes, UnionFoundGoes, UnionBelowGoes DEF Step

(***************************************************************************)
(* Requests, and the order as an invariant.                                *)
(***************************************************************************)
TreeOrder ==
    \E h : Shaped(store, root_dir_node_id, call, h) /\ Searchable(store, root_dir_node_id, call, h)

Asks(op, file) ==
    call = NoCall /\ call' # NoCall /\ call'.op = op /\ call'.file = file /\ FilesIn(store') = FilesIn(store)

LEMMA NoCallSettled ==
    ASSUME NEW S, NEW root, NEW c, NEW h, Searchable(S, root, c, h), c = NoCall
    PROVE  \E I : Ordered(S, root, I)
BY DEF Searchable, Settled, Replacing

LEMMA DelFileGoes ==
    ASSUME NEW h, Shaped(store, root_dir_node_id, call, h), Searchable(store, root_dir_node_id, call, h),
           NEW file \in Request, DelFile(file)
    PROVE  TreeOrder' /\ Asks("del", file)
<1>1. call = NoCall /\ Same /\ call' = Called("del", file, file.fhash, root_dir_node_id, store')
  BY DelFileDoes
<1>2. PICK g : Shaped(store', root_dir_node_id', call', g)
  BY DelFileShaped DEF Started
<1>3. PICK I : Ordered(store, root_dir_node_id, I)
  BY <1>1, NoCallSettled
<1>4. /\ call'.op = "del" /\ call'.file = file /\ call'.fhash = file.fhash /\ call'.id = root_dir_node_id
      /\ call' # NoCall
  <2>1. /\ call'.op = "del" /\ call'.file = file /\ call'.fhash = file.fhash /\ call'.id = root_dir_node_id
    BY <1>1, CalledIs
  <2> QED BY <2>1, NoCallIs
<1>5. file.fhash \in I[root_dir_node_id]
  BY <1>3 DEF Request, Ordered
<1>6. store' = store /\ root_dir_node_id' = root_dir_node_id
  BY <1>1 DEF Same
<1>7. Settled(store', root_dir_node_id', call', I)
  BY <1>3, <1>4, <1>5, <1>6 DEF Settled
<1>8. TreeOrder'
  <2>1. Searchable(store', root_dir_node_id', call', g)
    BY <1>7 DEF Searchable
  <2> QED BY <1>2, <2>1 DEF TreeOrder
<1> QED BY <1>1, <1>4, <1>6, <1>8 DEF Asks

\* A new name is no file's.
LEMMA NewIs ==
    ASSUME NEW h, Shaped(store, root_dir_node_id, call, h), NEW file \in New
    PROVE  file \in Entry /\ file.fhash \in Fhash /\ \A f \in FilesIn(store) : f.fhash # file.fhash
<1>1. Files = FilesIn(store)
  BY FilesAre
<1>2. file \in Entry /\ file.fhash \notin Names
  BY DEF New
<1>3. file.fhash \in Fhash
  BY <1>2, EntryIs
<1> QED BY <1>1, <1>2, <1>3 DEF Names

LEMMA AddNewFileGoes ==
    ASSUME InPlace, NEW h, Shaped(store, root_dir_node_id, call, h), HasRoom,
           Searchable(store, root_dir_node_id, call, h), NEW file \in New, AddNewFile(file)
    PROVE  TreeOrder' /\ Asks("add", file)
<1> DEFINE root == root_dir_node_id
<1>1. /\ call = NoCall
      /\ \/ Same /\ call' = Called("add", file, file.fhash, root, store')
         \/ \E f, r, e, S :
              /\ NewRoot(store, S, root, f)
              /\ Cut(S, store', f, 1, root, r, e) /\ root_dir_node_id' = f
              /\ call' = Called("add", file, file.fhash, f, store')
  BY AddNewFileDoes
<1>2. PICK g : Shaped(store', root_dir_node_id', call', g)
  BY AddNewFileShaped DEF Started
<1>3. PICK I : Ordered(store, root, I)
  BY <1>1, NoCallSettled
<1>4. file.fhash \in Fhash /\ \A f \in FilesIn(store) : f.fhash # file.fhash
  BY NewIs
<1>5. Rooted(store, root, h) /\ Rooted(store', root_dir_node_id', g)
  BY <1>2 DEF Shaped
<1>6. ASSUME NEW J, Ordered(store', root_dir_node_id', J), FilesIn(store') = FilesIn(store),
             call' = Called("add", file, file.fhash, root_dir_node_id', store')
      PROVE  TreeOrder' /\ Asks("add", file)
  <2>1. call'.op = "add" /\ call'.file = file /\ call'.fhash = file.fhash /\ call'.id = root_dir_node_id'
    BY <1>6, CalledIs
  <2>2. call' # NoCall
    BY <2>1, NoCallIs
  <2>3. file.fhash \in J[root_dir_node_id']
    BY <1>4, <1>6 DEF Ordered
  <2>4. Settled(store', root_dir_node_id', call', J)
    BY <1>4, <1>6, <2>1, <2>2, <2>3 DEF Settled
  <2>5. Searchable(store', root_dir_node_id', call', g)
    BY <2>4 DEF Searchable
  <2>6. TreeOrder'
    BY <1>2, <2>5 DEF TreeOrder
  <2> QED BY <1>1, <1>6, <2>1, <2>2, <2>6 DEF Asks
<1>7. CASE Same /\ call' = Called("add", file, file.fhash, root, store')
  <2>1. store' = store /\ root_dir_node_id' = root
    BY <1>7 DEF Same
  <2>2. Ordered(store', root_dir_node_id', I) /\ FilesIn(store') = FilesIn(store)
    BY <1>3, <2>1
  <2>3. call' = Called("add", file, file.fhash, root_dir_node_id', store')
    BY <1>7, <2>1
  <2> QED BY <1>6, <2>2, <2>3
<1>8. ASSUME NEW f, NEW r, NEW e, NEW S, NewRoot(store, S, root, f),
             Cut(S, store', f, 1, root, r, e), root_dir_node_id' = f,
             call' = Called("add", file, file.fhash, f, store')
      PROVE  TreeOrder' /\ Asks("add", file)
  <2>1. PICK J : Ordered(S, f, J)
    BY <1>3, <1>5, <1>8, NewRootOrdered
  <2>2. root \in Nodes(S) /\ r \notin Nodes(S)
    BY <1>8 DEF Cut
  <2>3. PICK K : SplitNames(S, root, r, e.fhash, J, K)
    BY <2>2, SplitsExist
  <2>4. Rooted(store', f, g)
    BY <1>5, <1>8
  <2>5. Rooted(S, f, g)
    BY <1>8, <2>4, UncutRooted
  <2>6. Ordered(store', f, K)
    BY <1>8, <2>1, <2>3, <2>4, <2>5, CutOrdered
  <2>7. FilesIn(store') = FilesIn(S)
    BY <1>8, CutFiles
  <2>8. FilesIn(S) = FilesIn(store)
    BY <1>8, NewRootFiles
  <2>9. Ordered(store', root_dir_node_id', K) /\ call' = Called("add", file, file.fhash, root_dir_node_id', store')
    BY <1>8, <2>6
  <2> QED BY <1>6, <2>7, <2>8, <2>9
<1> QED BY <1>1, <1>7, <1>8

LEMMA InitOrdered == Init => TreeOrder /\ FilesIn(store) = {} /\ call = NoCall
<1> SUFFICES ASSUME Init PROVE TreeOrder /\ FilesIn(store) = {} /\ call = NoCall
  OBVIOUS
<1>1. /\ root_dir_node_id = 1 /\ call = NoCall
      /\ store = [i \in Id |-> IF i = 1 THEN [leaf |-> TRUE, fdes |-> <<>>, cobj |-> <<>>] ELSE Null]
  BY DEF Init
<1>2. PICK h : Shaped(store, root_dir_node_id, call, h)
  BY InitShaped DEF TreeShape
<1>3. 1 \in Id
  BY Geometry DEF Id
<1>4. store[1].fdes = << >> /\ store[1].cobj = << >>
  BY <1>1, <1>3
<1>5. Nodes(store) \subseteq {1}
  BY <1>1 DEF Nodes
<1>6. Len(store[1].fdes) = 0 /\ Len(store[1].cobj) = 0
  BY <1>4
<1>7. PICK I : I = [j \in Id |-> Fhash]
  OBVIOUS
<1>8. Ordered(store, root_dir_node_id, I)
  BY <1>1, <1>3, <1>5, <1>6, <1>7 DEF Ordered, Sorted
<1>9. Settled(store, root_dir_node_id, call, I)
  BY <1>1, <1>8 DEF Settled
<1>10. TreeOrder
  BY <1>2, <1>9 DEF TreeOrder, Searchable
<1>11. FilesIn(store) = {}
  <2>1. ASSUME NEW f \in FilesIn(store) PROVE FALSE
    <3>1. PICK i \in Nodes(store) : \E k \in 1 .. Len(store[i].fdes) : store[i].fdes[k] = f
      BY FileIsAt
    <3>2. i = 1
      BY <1>5
    <3> QED BY <1>6, <3>1, <3>2
  <2> QED BY <2>1
<1> QED BY <1>1, <1>10, <1>11

\* What Next does for the requests.
NextGoes ==
    /\ TreeOrder'
    /\ \/ \E file \in Entry : Asks("add", file)
       \/ \E file \in Request : Asks("del", file)
       \/ call # NoCall /\ Serves

LEMMA StepHasCall == ASSUME Step PROVE call # NoCall
<1>1. call.op = "add" \/ call.op = "del"
  BY DEF Step, InsertIntoLeaf, InsertBelow, DeleteFromLeaf, ReplaceByMax, ReplaceByMin, DeleteBelow,
         BorrowLeft, BorrowRight, UnionFound, UnionBelow, TooFew, Deleting
<1> QED BY <1>1, NoCallIs

LEMMA NextKeepsOrder ==
    ASSUME InPlace, TreeOrder, HasRoom, Next
    PROVE  NextGoes
<1>1. PICK h : Shaped(store, root_dir_node_id, call, h) /\ Searchable(store, root_dir_node_id, call, h)
  BY DEF TreeOrder
<1>2. ASSUME NEW file \in New, AddNewFile(file) PROVE NextGoes
  <2>1. TreeOrder' /\ Asks("add", file)
    BY <1>1, <1>2, AddNewFileGoes
  <2>2. file \in Entry
    BY <1>2 DEF New
  <2> QED BY <2>1, <2>2 DEF NextGoes
<1>3. ASSUME NEW fhash \in Fhash, DelFile([fhash |-> fhash, mobj_id |-> NoFile]) PROVE NextGoes
  <2>1. PICK file : file = [fhash |-> fhash, mobj_id |-> NoFile]
    OBVIOUS
  <2>2. file \in Request /\ DelFile(file)
    BY <1>3, <2>1, RequestsAre
  <2>3. TreeOrder' /\ Asks("del", file)
    BY <1>1, <2>2, DelFileGoes
  <2> QED BY <2>2, <2>3 DEF NextGoes
<1>4. ASSUME Step PROVE NextGoes
  <2>1. NextSearchable /\ Serves
    BY <1>1, <1>4, StepGoes
  <2>2. TreeOrder'
    BY <2>1 DEF NextSearchable, TreeOrder
  <2>3. call # NoCall
    BY <1>4, StepHasCall
  <2> QED BY <2>1, <2>2, <2>3 DEF NextGoes
<1> QED BY <1>2, <1>3, <1>4 DEF Next

(***************************************************************************)
(* What the order gives: every file is found.                              *)
(***************************************************************************)
\* The search for a name ends where the answer is the file's.
Answers(S, root, n) ==
    \A w : IsWalk(w, Height, root, Toward(S, n)) =>
             \A f \in FilesIn(S) : f.fhash = n => Answer(S[w[Height]], n) = f.mobj_id

LEMMA AnswersFind ==
    ASSUME NEW h, Shaped(store, root_dir_node_id, call, h),
           \A n \in Fhash : Answers(store, root_dir_node_id, n)
    PROVE  FindsTheFiles
<1> DEFINE root == root_dir_node_id
<1>1. Rooted(store, root, h) /\ Files = FilesIn(store)
  BY FilesAre DEF Shaped
<1>2. ASSUME NEW f \in FilesIn(store) PROVE f.fhash \in Fhash
  <2>1. PICK i \in Nodes(store) : \E k \in 1 .. Len(store[i].fdes) : store[i].fdes[k] = f
    BY FileIsAt
  <2>2. PICK k \in 1 .. Len(store[i].fdes) : store[i].fdes[k] = f
    BY <2>1
  <2>3. f \in Entry
    BY <1>1, <2>2, RootedIs, NodeIs
  <2> QED BY <2>3, EntryIs
<1>3. ASSUME NEW n \in Fhash
      PROVE  \E e \in Nodes(store) :
               /\ get_file_meta_obj_id(n) = Answer(store[e], n)
               /\ \A f \in FilesIn(store) : f.fhash = n => Answer(store[e], n) = f.mobj_id
  <2>1. PICK w : IsWalk(w, Height, root, Toward(store, n))
    BY <1>1, SearchWalk
  <2>2. \A d \in 0 .. Height : w[d] \in Nodes(store)
    BY <1>1, <2>1, SearchWalk
  <2>3. w[Height] \in Nodes(store)
    BY <2>2, HeightIs
  <2>4. get_file_meta_obj_id(n) = Answer(store[w[Height]], n)
    BY <1>1, <2>1, GetIs
  <2> QED BY <1>3, <2>1, <2>3, <2>4 DEF Answers
<1>4. ASSUME NEW f \in Files PROVE get_file_meta_obj_id(f.fhash) = f.mobj_id
  <2>1. f \in FilesIn(store) /\ f.fhash \in Fhash
    BY <1>1, <1>2
  <2> QED BY <1>3, <2>1
<1>5. ASSUME NEW n \in Fhash \ Names PROVE get_file_meta_obj_id(n) = NoFile
  <2>1. PICK e \in Nodes(store) : get_file_meta_obj_id(n) = Answer(store[e], n)
    BY <1>3
  <2>2. ASSUME Holds(store[e], PlaceOf(store[e], n), n) PROVE FALSE
    <3>1. PICK k : k = PlaceOf(store[e], n)
      OBVIOUS
    <3>2. store[e] \in TreeNode
      BY <1>1, RootedIs
    <3>3. k \in 1 .. Len(store[e].fdes) + 1 /\ Len(store[e].fdes) \in Nat
      BY <3>1, <3>2, PlacesAre, NodeIs
    <3>4. k <= Len(store[e].fdes) /\ store[e].fdes[k].fhash = n
      BY <2>2, <3>1 DEF Holds
    <3>5. k \in 1 .. Len(store[e].fdes)
      BY <3>3, <3>4
    <3>6. store[e].fdes[k] \in Files
      BY <1>1, <3>5, FileIsAt
    <3> QED BY <3>4, <3>6 DEF Names
  <2> QED BY <2>1, <2>2 DEF Answer
<1> QED BY <1>4, <1>5 DEF FindsTheFiles

\* A name is on the same side of the entry that was replaced and of the one
\* that replaced it: it has the same place.
SameSide(V, S, a, n) ==
    \A k \in 1 .. Len(V[a].fdes) : /\ NameAt(V[a], k) < n <=> NameAt(S[a], k) < n
                                   /\ NameAt(V[a], k) = n => S[a].fdes[k] = V[a].fdes[k]
                                   /\ NameAt(S[a], k) = n => NameAt(V[a], k) = n

LEMMA SamePlace ==
    ASSUME NEW V, NEW S, NEW a, NEW q, NEW x, Set(V, S, a, q, x), NEW n, SameSide(V, S, a, n)
    PROVE  Toward(S, n) = Toward(V, n) /\ Answer(S[a], n) = Answer(V[a], n)
<1>1. /\ Nodes(S) = Nodes(V) /\ a \in Nodes(V)
      /\ \A j \in Nodes(V) : /\ V[j] \in TreeNode /\ S[j] \in TreeNode /\ S[j].leaf = V[j].leaf
                             /\ S[j].cobj = V[j].cobj /\ Len(S[j].fdes) = Len(V[j].fdes)
                             /\ (j # a => S[j] = V[j])
  BY SetIs
<1>2. DOMAIN S[a].fdes = DOMAIN V[a].fdes /\ DOMAIN V[a].fdes = 1 .. Len(V[a].fdes) /\ Len(V[a].fdes) \in Nat
  BY <1>1, NodeIs
<1>3. {k \in DOMAIN S[a].fdes : S[a].fdes[k].fhash < n} = {k \in DOMAIN V[a].fdes : V[a].fdes[k].fhash < n}
  BY <1>2 DEF SameSide, NameAt
<1>4. PlaceOf(S[a], n) = PlaceOf(V[a], n)
  BY <1>3 DEF PlaceOf
<1>5. PICK i : i = PlaceOf(V[a], n)
  OBVIOUS
<1>6. i \in 1 .. Len(V[a].fdes) + 1
  BY <1>1, <1>5, PlacesAre
<1>7. /\ Holds(S[a], i, n) <=> Holds(V[a], i, n)
      /\ Holds(V[a], i, n) => S[a].fdes[i] = V[a].fdes[i]
  <2>1. CASE i <= Len(V[a].fdes)
    <3>1. i \in 1 .. Len(V[a].fdes)
      BY <1>2, <1>6, <2>1
    <3>2. /\ NameAt(V[a], i) = n => S[a].fdes[i] = V[a].fdes[i]
          /\ NameAt(S[a], i) = n => NameAt(V[a], i) = n
      BY <3>1 DEF SameSide
    <3> QED BY <1>1, <3>2 DEF Holds, NameAt
  <2>2. CASE ~(i <= Len(V[a].fdes))
    BY <1>1, <2>2 DEF Holds
  <2> QED BY <2>1, <2>2
<1>8. Answer(S[a], n) = Answer(V[a], n)
  BY <1>4, <1>5, <1>7 DEF Answer
<1>9. ASSUME NEW m \in Nodes(V) PROVE KidToward(S, n, m) = KidToward(V, n, m)
  <2>1. CASE m = a
    BY <1>1, <1>4, <1>5, <1>7, <2>1 DEF KidToward
  <2>2. CASE m # a
    BY <1>1, <2>2 DEF KidToward
  <2> QED BY <2>1, <2>2
<1> QED BY <1>1, <1>8, <1>9 DEF Toward

\* A walk that does not end at a, where it would stay, does not come to a.
LEMMA NeverThere ==
    ASSUME NEW n \in Nat, NEW w, NEW F, NEW b, IsWalk(w, n, b, F), NEW a, F[a] = a, w[n] # a
    PROVE  \A d \in 0 .. n : w[d] # a
<1>1. \A d \in 1 .. n : w[d] = F[w[d - 1]]
  BY WalkSteps
<1> SUFFICES ASSUME NEW c \in 0 .. n, w[c] = a PROVE FALSE
  OBVIOUS
<1>2. PICK Good : Good = {k \in 0 .. n : k < c \/ w[k] = a}
  OBVIOUS
<1>3. 0 \in Good
  BY <1>2
<1>4. ASSUME NEW k \in 1 .. n, k - 1 \in Good PROVE k \in Good
  <2>1. CASE k <= c
    BY <1>2, <2>1
  <2>2. CASE k > c
    <3>1. w[k - 1] = a
      BY <1>2, <1>4, <2>2
    <3>2. w[k] = a
      BY <1>1, <3>1
    <3> QED BY <1>2, <3>2
  <2> QED BY <2>1, <2>2
<1>5. \A k \in 0 .. n : k \in Good
  BY <1>3, <1>4, UpTo
<1>6. n \in Good
  BY <1>5
<1> QED BY <1>2, <1>6

\* An entry that is in the tree twice: at a, where it replaced one named s,
\* and at a leaf.
Twice(V, S, root, h, I, a, q, x, s) ==
    /\ Ordered(V, root, I) /\ Rooted(V, root, h) /\ Rooted(S, root, h) /\ Set(V, S, a, q, x)
    /\ s = NameAt(V[a], q) /\ x \in FilesIn(V) /\ Near(V, s, x.fhash) /\ x.fhash # s

LEMMA TwiceIs ==
    ASSUME NEW S, NEW root, NEW c, NEW h, Shaped(S, root, c, h), NEW V, NEW I, NEW a, NEW q, NEW x,
           Replacing(V, S, root, c, h, I, a, q, x)
    PROVE  Twice(V, S, root, h, I, a, q, x, c.file.fhash)
<1>1. /\ Set(V, S, a, q, x) /\ c # NoCall /\ NameAt(V[a], q) = c.file.fhash /\ x.fhash = c.fhash
      /\ AtALeaf(V, x) /\ Near(V, c.file.fhash, c.fhash) /\ h[c.id] < h[a]
  BY DEF Replacing
<1>2. Rooted(S, root, h) /\ c.id \in Nodes(S)
  BY <1>1 DEF Shaped, CallOK
<1>3. /\ Ordered(V, root, I) /\ Rooted(V, root, h) /\ Nodes(V) = Nodes(S) /\ a \in Nodes(V) /\ h[a] \in Nat
  BY <1>2, ReplacingIs
<1>4. h[c.id] \in Nat
  BY <1>2, RootedIs
<1>5. PICK m \in Nodes(V) : V[m].leaf /\ x \in Elems(V[m].fdes)
  BY <1>1 DEF AtALeaf
<1>6. h[m] = 0
  BY <1>3, <1>5, RootedIs
<1>7. m # a
  BY <1>1, <1>3, <1>4, <1>6
<1>8. x \in FilesIn(V)
  BY <1>5 DEF FilesIn
<1>9. ASSUME x.fhash = c.file.fhash PROVE FALSE
  <2>1. PICK k \in 1 .. Len(V[m].fdes) : V[m].fdes[k] = x
    BY <1>5 DEF Elems
  <2>2. NameAt(V[m], k) = NameAt(V[a], q) /\ q \in 1 .. Len(V[a].fdes)
    BY <1>1, <1>9, <2>1 DEF NameAt, Set
  <2>3. m = a
    BY <1>3, <1>5, <2>1, <2>2, NameOnce
  <2> QED BY <1>7, <2>3
<1> QED BY <1>1, <1>2, <1>3, <1>8, <1>9 DEF Twice

\* The names at a, before and after.
LEMMA TwiceNames ==
    ASSUME NEW V, NEW S, NEW root, NEW h, NEW I, NEW a, NEW q, NEW x, NEW s, Twice(V, S, root, h, I, a, q, x, s)
    PROVE  /\ a \in Nodes(V) /\ V[a] \in TreeNode /\ S[a] \in TreeNode /\ Len(S[a].fdes) = Len(V[a].fdes)
           /\ q \in 1 .. Len(V[a].fdes) /\ Sorted(V[a])
           /\ s \in Nat /\ x.fhash \in Nat /\ x.fhash \in Fhash
           /\ NameAt(V[a], q) = s /\ NameAt(S[a], q) = x.fhash /\ S[a].fdes[q] = x
           /\ \A k \in 1 .. Len(V[a].fdes) :
                /\ NameAt(V[a], k) \in Nat
                /\ k # q => /\ S[a].fdes[k] = V[a].fdes[k] /\ NameAt(S[a], k) = NameAt(V[a], k)
                            /\ NameAt(V[a], k) # s
                /\ NameAt(V[a], k) # s /\ NameAt(V[a], k) # x.fhash =>
                     (NameAt(V[a], k) < s <=> NameAt(V[a], k) < x.fhash)
<1>1. /\ Ordered(V, root, I) /\ Rooted(V, root, h) /\ Set(V, S, a, q, x)
      /\ s = NameAt(V[a], q) /\ Near(V, s, x.fhash)
  BY DEF Twice
<1>2. /\ a \in Nodes(V) /\ q \in 1 .. Len(V[a].fdes) /\ x \in Entry /\ S[a].fdes[q] = x
      /\ V[a] \in TreeNode /\ S[a] \in TreeNode /\ Len(S[a].fdes) = Len(V[a].fdes)
      /\ \A k \in 1 .. Len(V[a].fdes) : k # q => S[a].fdes[k] = V[a].fdes[k]
  <2>1. /\ a \in Nodes(V) /\ q \in 1 .. Len(V[a].fdes) /\ x \in Entry /\ S[a].fdes[q] = x
        /\ Len(S[a].fdes) = Len(V[a].fdes)
        /\ \A k \in 1 .. Len(V[a].fdes) : k # q => S[a].fdes[k] = V[a].fdes[k]
    BY <1>1 DEF Set
  <2>2. V[a] \in TreeNode /\ S[a] \in TreeNode
    BY <1>1, <2>1, SetIs
  <2> QED BY <2>1, <2>2
<1>3. x.fhash \in Nat /\ x.fhash \in Fhash
  BY <1>2, EntryIs
<1>4. Sorted(V[a])
  BY <1>1, <1>2 DEF Ordered
<1>5. \A k \in 1 .. Len(V[a].fdes) : NameAt(V[a], k) \in Nat
  BY <1>2, NamesAre
<1>6. ASSUME NEW k \in 1 .. Len(V[a].fdes), k # q
      PROVE  NameAt(V[a], k) # s /\ NameAt(S[a], k) = NameAt(V[a], k)
  <2>1. NameAt(V[a], k) = NameAt(V[a], q) => k = q
    BY <1>1, <1>2, NameOnce
  <2> QED BY <1>1, <1>2, <1>6, <2>1 DEF NameAt
<1>7. ASSUME NEW k \in 1 .. Len(V[a].fdes), NameAt(V[a], k) # s, NameAt(V[a], k) # x.fhash
      PROVE  NameAt(V[a], k) < s <=> NameAt(V[a], k) < x.fhash
  <2>1. PICK f : f = V[a].fdes[k]
    OBVIOUS
  <2>2. f \in FilesIn(V) /\ f.fhash = NameAt(V[a], k)
    BY <1>2, <2>1, FileIsAt DEF NameAt
  <2> QED BY <1>1, <1>7, <2>2 DEF Near
<1>8. NameAt(S[a], q) = x.fhash
  BY <1>2 DEF NameAt
<1> QED BY <1>1, <1>2, <1>3, <1>4, <1>5, <1>6, <1>7, <1>8

\* Where the entry that was replaced was, the other one is found.
LEMMA TwinFound ==
    ASSUME NEW V, NEW S, NEW root, NEW h, NEW I, NEW a, NEW q, NEW x, NEW s, Twice(V, S, root, h, I, a, q, x, s),
           \A k \in 1 .. Len(V[a].fdes) : k # q => NameAt(V[a], k) # x.fhash
    PROVE  Answer(S[a], x.fhash) = x.mobj_id /\ Toward(S, x.fhash)[a] = a
<1>1. /\ a \in Nodes(V) /\ S[a] \in TreeNode /\ Len(S[a].fdes) = Len(V[a].fdes) /\ V[a] \in TreeNode
      /\ q \in 1 .. Len(V[a].fdes) /\ Sorted(V[a])
      /\ s \in Nat /\ x.fhash \in Nat /\ x.fhash \in Fhash
      /\ NameAt(V[a], q) = s /\ NameAt(S[a], q) = x.fhash /\ S[a].fdes[q] = x
  BY TwiceNames
<1>2. \A k \in 1 .. Len(V[a].fdes) :
        /\ NameAt(V[a], k) \in Nat
        /\ k # q => /\ NameAt(S[a], k) = NameAt(V[a], k) /\ NameAt(V[a], k) # s
        /\ NameAt(V[a], k) # s /\ NameAt(V[a], k) # x.fhash =>
             (NameAt(V[a], k) < s <=> NameAt(V[a], k) < x.fhash)
  BY TwiceNames
<1>3. \A k \in 1 .. Len(V[a].fdes) : k # q => (NameAt(V[a], k) < s <=> NameAt(V[a], k) < x.fhash)
  BY <1>2
<1>4. PICK n : n = Len(V[a].fdes)
  OBVIOUS
<1>5. n \in Nat
  BY <1>1, <1>4, NodeIs
<1>6. ASSUME NEW j \in 1 .. n, NEW k \in 1 .. n, j < k PROVE NameAt(S[a], j) < NameAt(S[a], k)
  <2>1. NameAt(V[a], j) < NameAt(V[a], k)
    BY <1>1, <1>4, <1>6 DEF Sorted
  <2>2. CASE j # q /\ k # q
    BY <1>2, <1>4, <2>1, <2>2
  <2>3. CASE k = q
    <3>1. j # q /\ NameAt(V[a], j) < s
      BY <1>1, <1>5, <1>6, <2>1, <2>3
    <3>2. NameAt(V[a], j) < x.fhash
      BY <1>3, <1>4, <3>1
    <3> QED BY <1>1, <1>2, <1>4, <2>3, <3>1, <3>2
  <2>4. CASE j = q
    <3>1. k # q /\ s < NameAt(V[a], k)
      BY <1>1, <1>5, <1>6, <2>1, <2>4
    <3>2. NameAt(V[a], k) \in Nat /\ NameAt(V[a], k) # x.fhash /\ NameAt(S[a], k) = NameAt(V[a], k)
      BY <1>2, <1>4, <3>1
    <3>3. ~(NameAt(V[a], k) < s)
      BY <1>1, <3>1, <3>2
    <3>4. ~(NameAt(V[a], k) < x.fhash)
      BY <1>3, <1>4, <3>1, <3>3
    <3> QED BY <1>1, <2>4, <3>2, <3>4
  <2> QED BY <2>2, <2>3, <2>4
<1>7. Sorted(S[a])
  BY <1>1, <1>4, <1>6 DEF Sorted
<1>8. q \in 1 .. Len(S[a].fdes)
  BY <1>1
<1>9. Answer(S[a], x.fhash) = x.mobj_id
  BY <1>1, <1>7, <1>8, AnswerIs
<1>10. Holding(S[a], x.fhash)
  BY <1>1, <1>8 DEF Holding
<1>11. Holds(S[a], PlaceOf(S[a], x.fhash), x.fhash)
  BY <1>1, <1>7, <1>10, PlaceGap
<1>12. Toward(S, x.fhash)[a] = a
  <2>1. Rooted(S, root, h) /\ a \in Nodes(S)
    BY <1>1, SetIs DEF Twice
  <2> QED BY <1>11, <2>1, TowardIs
<1> QED BY <1>9, <1>12

LEMMA TwiceAnswers ==
    ASSUME NEW V, NEW S, NEW root, NEW h, NEW I, NEW a, NEW q, NEW x, NEW s, Twice(V, S, root, h, I, a, q, x, s),
           h[root] <= Height, \E m \in Nodes(V) : m # a /\ x \in Elems(V[m].fdes), NEW n \in Fhash
    PROVE  Answers(S, root, n)
<1>1. /\ Ordered(V, root, I) /\ Rooted(V, root, h) /\ Rooted(S, root, h) /\ Set(V, S, a, q, x)
      /\ s = NameAt(V[a], q) /\ x \in FilesIn(V)
  BY DEF Twice
<1>2. \A f : f \in FilesIn(S) <=> f = x \/ (f \in FilesIn(V) /\ f.fhash # s)
  BY <1>1, SetFiles
<1>3. /\ Nodes(S) = Nodes(V) /\ a \in Nodes(V) /\ q \in 1 .. Len(V[a].fdes)
      /\ \A j \in Nodes(V) : j # a => S[j] = V[j]
  BY <1>1, SetIs
<1>4. SUFFICES ASSUME NEW w, IsWalk(w, Height, root, Toward(S, n)), NEW f \in FilesIn(S), f.fhash = n
               PROVE  Answer(S[w[Height]], n) = f.mobj_id
  BY DEF Answers
<1>5. PICK m \in Nodes(V) : m # a /\ x \in Elems(V[m].fdes)
  OBVIOUS
<1>6. PICK l \in 1 .. Len(V[m].fdes) : V[m].fdes[l] = x
  BY <1>5 DEF Elems
<1>7. \A k \in 1 .. Len(V[a].fdes) : NameAt(V[a], k) # x.fhash
  <2>1. ASSUME NEW k \in 1 .. Len(V[a].fdes), NameAt(V[a], k) = x.fhash PROVE FALSE
    <3>1. NameAt(V[a], k) = NameAt(V[m], l)
      BY <1>6, <2>1 DEF NameAt
    <3>2. a = m
      BY <1>1, <1>3, <1>5, <1>6, <3>1, NameOnce
    <3> QED BY <1>5, <3>2
  <2> QED BY <2>1
<1>8. /\ s \in Nat /\ x.fhash \in Nat
      /\ NameAt(V[a], q) = s /\ NameAt(S[a], q) = x.fhash /\ S[a].fdes[q] = x
      /\ \A k \in 1 .. Len(V[a].fdes) :
           k # q => S[a].fdes[k] = V[a].fdes[k] /\ NameAt(S[a], k) = NameAt(V[a], k)
  BY TwiceNames
<1>9. CASE n = x.fhash
  <2>1. f = x
    <3>1. \A g \in FilesIn(V) : g.fhash = x.fhash => g = x
      BY <1>1, FileNameOnce
    <3> QED BY <1>2, <1>4, <1>9, <3>1
  <2>2. Answer(S[a], n) = x.mobj_id /\ Toward(S, n)[a] = a
    BY <1>7, <1>9, TwinFound
  <2>3. CASE w[Height] = a
    BY <2>1, <2>2, <2>3
  <2>4. CASE w[Height] # a
    <3>1. \A d \in 0 .. Height : w[d] # a
      BY <1>4, <2>2, <2>4, HeightIs, NeverThere
    <3>2. \A d \in 0 .. Height : w[d] \in Nodes(S)
      BY <1>1, <1>4, SearchWalk
    <3>3. \A j \in Nodes(V) : j # a => Toward(S, n)[j] = Toward(V, n)[j]
      BY <1>3 DEF Toward, KidToward
    <3>4. \A d \in 0 .. Height : (IF d = 0 THEN root ELSE Toward(S, n)[w[d - 1]])
                                  = (IF d = 0 THEN root ELSE Toward(V, n)[w[d - 1]])
      <4>1. ASSUME NEW d \in 0 .. Height, d # 0 PROVE Toward(S, n)[w[d - 1]] = Toward(V, n)[w[d - 1]]
        <5>1. d - 1 \in 0 .. Height
          BY <4>1, HeightIs
        <5> QED BY <1>3, <3>1, <3>2, <3>3, <5>1
      <4> QED BY <4>1
    <3>5. IsWalk(w, Height, root, Toward(V, n))
      BY <1>4, <3>4 DEF IsWalk
    <3>6. Answer(V[w[Height]], n) = x.mobj_id
      BY <1>1, <1>9, <3>5, SearchAnswers
    <3>7. w[Height] \in Nodes(S)
      BY <3>2, HeightIs
    <3> QED BY <1>3, <2>1, <2>4, <3>6, <3>7
  <2> QED BY <2>3, <2>4
<1>10. CASE n # x.fhash
  <2>1. f \in FilesIn(V) /\ n # s
    BY <1>2, <1>4, <1>10
  <2>2. s < n <=> x.fhash < n
    <3>1. n \in Nat
      BY FhashIs
    <3>2. n < s <=> n < x.fhash
      BY <1>4, <1>10, <2>1 DEF Twice, Near
    <3> QED BY <1>8, <1>10, <2>1, <3>1, <3>2
  <2>3. SameSide(V, S, a, n)
    BY <1>8, <1>10, <2>1, <2>2 DEF SameSide
  <2>4. Toward(S, n) = Toward(V, n) /\ Answer(S[a], n) = Answer(V[a], n)
    BY <1>1, <2>3, SamePlace
  <2>5. IsWalk(w, Height, root, Toward(V, n))
    BY <1>4, <2>4
  <2>6. Answer(V[w[Height]], n) = f.mobj_id
    BY <1>1, <1>4, <2>1, <2>5, SearchAnswers
  <2>7. w[Height] \in Nodes(S)
    <3>1. \A d \in 0 .. Height : w[d] \in Nodes(S)
      BY <1>1, <1>4, SearchWalk
    <3> QED BY <3>1, HeightIs
  <2> QED BY <1>3, <2>4, <2>6, <2>7
<1> QED BY <1>9, <1>10

LEMMA OrderFinds == TreeOrder => FindsTheFiles
<1> SUFFICES ASSUME TreeOrder PROVE FindsTheFiles
  OBVIOUS
<1> DEFINE root == root_dir_node_id
<1>1. PICK h : Shaped(store, root, call, h) /\ Searchable(store, root, call, h)
  BY DEF TreeOrder
<1>2. Rooted(store, root, h) /\ h[root] <= Height
  BY <1>1, HeightBound DEF Shaped
<1>3. ASSUME NEW n \in Fhash, NEW I, Settled(store, root, call, I) PROVE Answers(store, root, n)
  <2>1. Ordered(store, root, I)
    BY <1>3 DEF Settled
  <2> QED BY <1>2, <2>1, SearchAnswers DEF Answers
<1>4. ASSUME NEW n \in Fhash, NEW V, NEW I, NEW a, NEW q, NEW x, Replacing(V, store, root, call, h, I, a, q, x)
      PROVE  Answers(store, root, n)
  <2>1. Twice(V, store, root, h, I, a, q, x, call.file.fhash)
    BY <1>1, <1>4, TwiceIs
  <2>2. PICK m \in Nodes(V) : V[m].leaf /\ x \in Elems(V[m].fdes)
    BY <1>4 DEF Replacing, AtALeaf
  <2>3. m # a
    <3>1. call # NoCall /\ h[call.id] < h[a]
      BY <1>4 DEF Replacing
    <3>2. call.id \in Nodes(store)
      BY <1>1, <3>1 DEF Shaped, CallOK
    <3>3. h[call.id] \in Nat
      BY <1>2, <3>2, RootedIs
    <3>4. Rooted(V, root, h)
      BY <2>1 DEF Twice
    <3>5. h[m] = 0
      BY <2>2, <3>4, RootedIs
    <3> QED BY <3>1, <3>3, <3>5
  <2>4. \E k \in Nodes(V) : k # a /\ x \in Elems(V[k].fdes)
    BY <2>2, <2>3
  <2> QED BY <1>2, <2>1, <2>4, TwiceAnswers
<1>5. \A n \in Fhash : Answers(store, root, n)
  BY <1>1, <1>3, <1>4 DEF Searchable
<1> QED BY <1>1, <1>5, AnswersFind

(***************************************************************************)
(* Between two requests the tree is one that verify accepts.               *)
(***************************************************************************)
LEMMA FitsIs ==
    ASSUME NEW h, Rooted(store, root_dir_node_id, h), Sized(store, root_dir_node_id),
           NEW I, Ordered(store, root_dir_node_id, I),
           NEW id \in Nodes(store), NEW i \in 1 .. Len(store[id].cobj)
    PROVE  Child(store, store[id], i) # Null /\ FitsBelow(Child(store, store[id], i), store[id], i)
<1>1. PICK c : c = store[id].cobj[i]
  OBVIOUS
<1>2. c \in Nodes(store) /\ Child(store, store[id], i) = store[c] /\ c # root_dir_node_id
  BY <1>1, ChildIs, RootedIs
<1>3. /\ store[c] \in TreeNode /\ store[c] # Null /\ Len(store[c].fdes) \in Nat
      /\ store[id] \in TreeNode /\ Len(store[id].fdes) \in Nat
  BY <1>2, RootedIs, NodeIs
<1>4. H \in Nat \ {0} /\ Dir_Node_Degree \in Nat
  BY Geometry
<1>5. Len(store[c].fdes) \in H .. Dir_Node_Degree /\ Len(store[c].fdes) >= 1
  BY <1>2, <1>3, <1>4 DEF Sized
<1>6. PICK n : n = Len(store[c].fdes)
  OBVIOUS
<1>7. /\ Head(store[c].fdes) = store[c].fdes[1] /\ Last(store[c].fdes) = store[c].fdes[n]
      /\ 1 \in 1 .. n /\ n \in 1 .. n
  <2>1. n \in Nat /\ n >= 1
    BY <1>3, <1>5, <1>6
  <2>2. store[c].fdes \in Seq(Entry)
    BY <1>3, NodeIs
  <2>3. PICK s : s = store[c].fdes
    OBVIOUS
  <2>4. s \in Seq(Entry) /\ Len(s) > 0 /\ Len(s) = n
    BY <1>6, <2>1, <2>2, <2>3
  <2>5. Head(s) = s[1]
    BY <2>4
  <2>6. Last(s) = s[Len(s)]
    BY <2>4, FrontOf
  <2>7. 1 \in 1 .. n /\ n \in 1 .. n
    BY <2>1
  <2> QED BY <2>3, <2>4, <2>5, <2>6, <2>7
<1>8. ASSUME NEW k \in 1 .. n
      PROVE  store[c].fdes[k].fhash \in Nat /\ store[c].fdes[k].fhash \in Gap(store[id], i)
  <2>1. NameAt(store[c], k) \in I[c] /\ I[c] = I[id] \cap Gap(store[id], i)
    BY <1>1, <1>2, <1>6, <1>8 DEF Ordered
  <2>2. NameAt(store[c], k) \in Nat
    BY <1>3, <1>6, <1>8, NamesAre
  <2> QED BY <2>1, <2>2 DEF NameAt
<1>9. ASSUME i > 1 PROVE Head(store[c].fdes).fhash >= store[id].fdes[i - 1].fhash
  <2>1. h[id] > 0 /\ i - 1 \in 1 .. Len(store[id].fdes) /\ i - 1 < i
    <3>1. /\ h[id] \in Nat /\ (h[id] = 0 => Len(store[id].cobj) = 0)
          /\ (h[id] > 0 => Len(store[id].cobj) = Len(store[id].fdes) + 1)
      BY RootedIs
    <3> QED BY <1>3, <1>9, <3>1
  <2>2. NameAt(store[id], i - 1) \in Nat
    BY <1>3, <2>1, NamesAre
  <2>3. \A j \in 1 .. Len(store[id].fdes) : j < i => NameAt(store[id], j) < store[c].fdes[1].fhash
    BY <1>7, <1>8 DEF Gap
  <2>4. NameAt(store[id], i - 1) < store[c].fdes[1].fhash
    BY <2>1, <2>3
  <2>5. store[c].fdes[1].fhash \in Nat
    BY <1>7, <1>8
  <2> QED BY <1>7, <2>2, <2>4, <2>5 DEF NameAt
<1>10. ASSUME i <= Len(store[id].fdes) PROVE Last(store[c].fdes).fhash <= store[id].fdes[i].fhash
  <2>1. i \in 1 .. Len(store[id].fdes)
    BY <1>3, <1>10
  <2>2. NameAt(store[id], i) \in Nat
    BY <1>3, <2>1, NamesAre
  <2>3. \A j \in 1 .. Len(store[id].fdes) : i <= j => store[c].fdes[n].fhash < NameAt(store[id], j)
    BY <1>7, <1>8 DEF Gap
  <2>4. store[c].fdes[n].fhash < NameAt(store[id], i)
    BY <2>1, <2>3
  <2>5. store[c].fdes[n].fhash \in Nat
    BY <1>7, <1>8
  <2> QED BY <1>7, <2>2, <2>4, <2>5 DEF NameAt
<1> QED BY <1>2, <1>3, <1>5, <1>9, <1>10 DEF FitsBelow

LEMMA OrderIsWell == TreeOrder => WellFormed
<1> SUFFICES ASSUME TreeOrder, call = NoCall
             PROVE  /\ verify
                    /\ \A id \in Tree : \A i \in 1 .. Len(store[id].fdes) - 1 :
                         store[id].fdes[i].fhash # store[id].fdes[i + 1].fhash
                    /\ \A d \in 0 .. Height : \A i, j \in Level[d] : store[i].leaf = store[j].leaf
  BY DEF WellFormed
<1>1. PICK h : Shaped(store, root_dir_node_id, call, h) /\ Searchable(store, root_dir_node_id, call, h)
  BY DEF TreeOrder
<1>2. PICK I : Ordered(store, root_dir_node_id, I)
  BY <1>1, NoCallSettled
<1>3. Rooted(store, root_dir_node_id, h) /\ Sized(store, root_dir_node_id)
  BY <1>1 DEF Shaped
<1>4. Tree = Nodes(store)
  BY <1>1, ShapeGivesTree
<1>5. ASSUME NEW id \in Nodes(store), NEW i \in 1 .. Len(store[id].fdes) - 1
      PROVE  store[id].fdes[i].fhash \in Nat /\ store[id].fdes[i + 1].fhash \in Nat
             /\ store[id].fdes[i].fhash < store[id].fdes[i + 1].fhash
  <2>1. store[id] \in TreeNode /\ Len(store[id].fdes) \in Nat
    BY <1>3, RootedIs, NodeIs
  <2>2. i \in 1 .. Len(store[id].fdes) /\ i + 1 \in 1 .. Len(store[id].fdes) /\ i < i + 1
    BY <2>1
  <2>3. Sorted(store[id])
    BY <1>2 DEF Ordered
  <2>4. NameAt(store[id], i) < NameAt(store[id], i + 1)
    BY <2>2, <2>3 DEF Sorted
  <2>5. NameAt(store[id], i) \in Nat /\ NameAt(store[id], i + 1) \in Nat
    BY <2>1, <2>2, NamesAre
  <2> QED BY <2>4, <2>5 DEF NameAt
<1>6. ASSUME NEW id \in Nodes(store)
      PROVE  /\ InOrder(store[id])
             /\ \A i \in DOMAIN store[id].cobj :
                  Child(store, store[id], i) # Null /\ FitsBelow(Child(store, store[id], i), store[id], i)
  <2>1. InOrder(store[id])
    BY <1>5 DEF InOrder
  <2>2. DOMAIN store[id].cobj = 1 .. Len(store[id].cobj)
    BY <1>3, RootedIs, NodeIs
  <2> QED BY <1>2, <1>3, <2>1, <2>2, FitsIs
<1>7. verify
  BY <1>4, <1>6 DEF verify
<1>8. \A id \in Tree : \A i \in 1 .. Len(store[id].fdes) - 1 :
        store[id].fdes[i].fhash # store[id].fdes[i + 1].fhash
  BY <1>4, <1>5
<1>9. ASSUME NEW d \in 0 .. Height, NEW i \in Level[d], NEW j \in Level[d]
      PROVE  store[i].leaf = store[j].leaf
  <2>1. Level[d] = AtHeight(h, h[root_dir_node_id] - d)
    BY <1>3, LevelIs
  <2>2. i \in Nodes(store) /\ j \in Nodes(store) /\ h[i] = h[j]
    BY <2>1 DEF AtHeight
  <2>3. (h[i] = 0 <=> store[i].leaf) /\ (h[j] = 0 <=> store[j].leaf)
    BY <1>3, <2>2, RootedIs
  <2>4. store[i].leaf \in BOOLEAN /\ store[j].leaf \in BOOLEAN
    BY <1>3, <2>2, RootedIs, NodeIs
  <2> QED BY <2>2, <2>3, <2>4
<1> QED BY <1>7, <1>8, <1>9

(***************************************************************************)
(* The tree as a directory.                                                *)
(***************************************************************************)
LEMMA OrderFiles == TreeOrder => Files = FilesIn(store)
BY FilesAre DEF TreeOrder

LEMMA NextKeepsTreeOrder ==
    ASSUME InPlace, TreeOrder, HasRoom, [Next]_vars
    PROVE  TreeOrder'
<1>1. CASE Next
  BY <1>1, NextKeepsOrder DEF NextGoes
<1>2. CASE UNCHANGED vars
  BY <1>2 DEF TreeOrder, vars
<1> QED BY <1>1, <1>2

Asked == IF call = NoCall THEN [op |-> "none"] ELSE [op |-> call.op, file |-> call.file]

LEMMA AskIs ==
    ASSUME NEW op \in {"add", "del"}, NEW file \in Entry \cup Request, Asks(op, file), Files' = Files,
           FilesIn(store') = FilesIn(store)
    PROVE  Dir!Ask
<1>1. file \in Dir!File
  BY DEF Entry, Request, Dir!File
<1>2. Asked = Dir!Idle /\ Asked' = [op |-> op, file |-> file]
  BY DEF Asks, Asked, Dir!Idle
<1> QED BY <1>1, <1>2 DEF Dir!Ask, Asked

\* What a request does to the files.
LEMMA EffectIs ==
    ASSUME call # NoCall, call.op \in {"add", "del"}, Files = FilesIn(store), Files' = FilesIn(store'),
           TakesEffect
    PROVE  Files' = Dir!Effect(Files, Asked)
<1>1. Asked.op = call.op /\ Asked.file = call.file
  BY DEF Asked
<1>2. CASE call.op = "add"
  <2>1. Dir!Effect(Files, Asked) = Files \cup {call.file}
    BY <1>1, <1>2 DEF Dir!Effect
  <2>2. \A f : f \in Files' <=> f \in Files \/ f = call.file
    BY <1>2 DEF TakesEffect
  <2> QED BY <2>1, <2>2
<1>3. CASE call.op = "del"
  <2>1. Dir!Effect(Files, Asked) = {f \in Files : f.fhash # call.file.fhash}
    BY <1>1, <1>3 DEF Dir!Effect
  <2>2. \A f : f \in Files' <=> f \in Files /\ f.fhash # call.file.fhash
    BY <1>3 DEF TakesEffect
  <2> QED BY <2>1, <2>2
<1> QED BY <1>2, <1>3

LEMMA ServesIs ==
    ASSUME call # NoCall, call.op \in {"add", "del"}, Files = FilesIn(store), Files' = FilesIn(store'), Serves
    PROVE  [Dir!Next]_(Dir!vars)
<1>1. Stays => Asked' = Asked
  BY DEF Stays, Asked
<1>2. call' = NoCall => Asked' = Dir!Idle
  BY DEF Asked, Dir!Idle
<1>3. CASE Stays /\ FilesIn(store') = FilesIn(store)
  BY <1>1, <1>3 DEF Dir!vars, Asked
<1>4. CASE (Stays \/ call' = NoCall) /\ TakesEffect
  <2>1. Files' = Dir!Effect(Files, Asked)
    BY <1>4, EffectIs
  <2>2. Asked' = Asked \/ Asked' = Dir!Idle
    BY <1>1, <1>2, <1>4
  <2> QED BY <2>1, <2>2 DEF Dir!Next, Dir!TakeEffect, Dir!Return, Asked
<1> QED BY <1>3, <1>4 DEF Serves

LEMMA StepServesDirectory ==
    ASSUME InPlace, TreeOrder, HasRoom, [Next]_vars
    PROVE  [Dir!Next]_(Dir!vars)
<1>1. TreeOrder'
  BY NextKeepsTreeOrder
<1>2. Files = FilesIn(store)
  BY OrderFiles
<1>3. (TreeOrder => Files = FilesIn(store))'
  BY OrderFiles, PTL
<1>4. Files' = FilesIn(store')
  BY <1>1, <1>3
<1>5. CASE UNCHANGED vars
  <2>1. store' = store /\ call' = call
    BY <1>5 DEF vars
  <2>2. Files' = Files /\ Asked' = Asked
    BY <1>2, <1>4, <2>1 DEF Asked
  <2> QED BY <2>2 DEF Dir!vars, Asked
<1>6. CASE Next
  <2>1. NextGoes
    BY <1>6, NextKeepsOrder
  <2>2. ASSUME NEW file \in Entry, Asks("add", file) PROVE Dir!Ask
    <3>1. FilesIn(store') = FilesIn(store)
      BY <2>2 DEF Asks
    <3> QED BY <1>2, <1>4, <2>2, <3>1, AskIs
  <2>3. ASSUME NEW file \in Request, Asks("del", file) PROVE Dir!Ask
    <3>1. FilesIn(store') = FilesIn(store)
      BY <2>3 DEF Asks
    <3> QED BY <1>2, <1>4, <2>3, <3>1, AskIs
  <2>4. ASSUME call # NoCall, Serves PROVE [Dir!Next]_(Dir!vars)
    <3>1. call.op \in {"add", "del"}
      BY <2>4 DEF TreeOrder, Shaped, CallOK
    <3> QED BY <1>2, <1>4, <2>4, <3>1, ServesIs
  <2> QED BY <2>1, <2>2, <2>3, <2>4 DEF NextGoes, Dir!Next
<1> QED BY <1>5, <1>6

LEMMA InitDirectory == Init => Dir!Init
<1> SUFFICES ASSUME Init PROVE Dir!Init
  OBVIOUS
<1>1. TreeOrder /\ FilesIn(store) = {} /\ call = NoCall
  BY InitOrdered
<1>2. Files = {}
  BY <1>1, OrderFiles
<1> QED BY <1>1, <1>2 DEF Dir!Init, Dir!Idle

(***************************************************************************)
(* With few names, alloc_obj finds an object whenever a node is split: no  *)
(* two entries of the tree have one name, and all nodes but the root have  *)
(* at least H entries.                                                     *)
(***************************************************************************)
FewNames == IsFiniteSet(Fhash) /\ Cardinality(Fhash) <= MaxId * H + 1

Places(X, c) == (X \X (1 .. H)) \cup ({c} \X (1 .. Dir_Node_Degree))

LEMMA PlacesCount ==
    ASSUME NEW X, IsFiniteSet(X), NEW c, c \notin X
    PROVE  IsFiniteSet(Places(X, c)) /\ Cardinality(Places(X, c)) = Cardinality(X) * H + Dir_Node_Degree
<1>1. H \in Nat \ {0} /\ Dir_Node_Degree = 2 * H + 1
  BY Geometry
<1>2. PICK m : m = Dir_Node_Degree
  OBVIOUS
<1>3. PICK n : n = H
  OBVIOUS
<1>4. m \in Nat /\ n \in Nat
  BY <1>1, <1>2, <1>3
<1>5. PICK A : A = 1 .. n
  OBVIOUS
<1>6. PICK B : B = 1 .. m
  OBVIOUS
<1>7. IsFiniteSet(A) /\ Cardinality(A) = n /\ IsFiniteSet(B) /\ Cardinality(B) = m
  <2>1. IsFiniteSet(1 .. n) /\ Cardinality(1 .. n) = IF 1 > n THEN 0 ELSE n - 1 + 1
    BY <1>4, FS_Interval
  <2>2. IsFiniteSet(1 .. m) /\ Cardinality(1 .. m) = IF 1 > m THEN 0 ELSE m - 1 + 1
    BY <1>4, FS_Interval
  <2> QED BY <1>4, <1>5, <1>6, <2>1, <2>2
<1>8. PICK C : C = {c}
  OBVIOUS
<1>9. IsFiniteSet(C) /\ Cardinality(C) = 1
  BY <1>8, FS_Singleton
<1>10. PICK U : U = X \X A
  OBVIOUS
<1>11. PICK V : V = C \X B
  OBVIOUS
<1>12. IsFiniteSet(U) /\ Cardinality(U) = Cardinality(X) * n
  BY <1>7, <1>10, FS_Product
<1>13. IsFiniteSet(V) /\ Cardinality(V) = m
  <2>1. IsFiniteSet(V) /\ Cardinality(V) = 1 * m
    BY <1>7, <1>9, <1>11, FS_Product
  <2> QED BY <1>4, <2>1
<1>14. U \cap V = {}
  BY <1>8, <1>10, <1>11
<1>15. Cardinality(U \cap V) = 0
  BY <1>14, FS_EmptySet
<1>16. IsFiniteSet(U \cup V) /\ Cardinality(U \cup V) = Cardinality(U) + Cardinality(V) - Cardinality(U \cap V)
  BY <1>12, <1>13, FS_Union
<1>17. Cardinality(U) \in Nat /\ Cardinality(V) \in Nat
  BY <1>12, <1>13, FS_CardinalityType
<1>18. Cardinality(U \cup V) = Cardinality(X) * n + m
  <2>1. PICK u : u = Cardinality(U)
    OBVIOUS
  <2>2. PICK v : v = Cardinality(V)
    OBVIOUS
  <2>3. Cardinality(U \cup V) = u + v - 0 /\ u \in Nat /\ v \in Nat
    BY <1>15, <1>16, <1>17, <2>1, <2>2
  <2>4. u + v - 0 = u + v
    BY <2>3
  <2> QED BY <1>12, <1>13, <2>1, <2>2, <2>3, <2>4
<1>19. Places(X, c) = U \cup V
  BY <1>2, <1>3, <1>5, <1>6, <1>8, <1>10, <1>11 DEF Places
<1> QED BY <1>2, <1>3, <1>16, <1>18, <1>19

\* A full node and others of at least half the degree, and a name of no file.
LEMMA NamesSuffice ==
    ASSUME NEW S, NEW root, NEW h, Rooted(S, root, h), NEW I, Ordered(S, root, I), IsFiniteSet(Fhash),
           NEW c \in Nodes(S), Len(S[c].fdes) >= Dir_Node_Degree,
           NEW X \in SUBSET Nodes(S), c \notin X, \A i \in X : Len(S[i].fdes) >= H,
           NEW n \in Fhash, \A f \in FilesIn(S) : f.fhash # n
    PROVE  /\ Cardinality(Fhash) \in Nat /\ Cardinality(X) \in Nat
           /\ Cardinality(X) * H + Dir_Node_Degree + 1 <= Cardinality(Fhash)
<1>1. H \in Nat \ {0} /\ Dir_Node_Degree = 2 * H + 1 /\ IsFiniteSet(Id)
  BY Geometry
<1>2. IsFiniteSet(X)
  <2>1. X \in SUBSET Id
    BY DEF Nodes
  <2> QED BY <1>1, <2>1, FS_Subset
<1>3. PICK P : P = Places(X, c)
  OBVIOUS
<1>4. IsFiniteSet(P) /\ Cardinality(P) = Cardinality(X) * H + Dir_Node_Degree
  BY <1>2, <1>3, PlacesCount
<1>5. ASSUME NEW p \in P
      PROVE  p = << p[1], p[2] >> /\ p[1] \in Nodes(S) /\ p[2] \in 1 .. Len(S[p[1]].fdes)
  <2>1. p \in X \X (1 .. H) \/ p \in {c} \X (1 .. Dir_Node_Degree)
    BY <1>3, <1>5 DEF Places
  <2>2. p = << p[1], p[2] >>
    <3>1. CASE p \in X \X (1 .. H)
      BY <3>1
    <3>2. CASE p \in {c} \X (1 .. Dir_Node_Degree)
      BY <3>2
    <3> QED BY <2>1, <3>1, <3>2
  <2>3. (p[1] \in X /\ p[2] \in 1 .. H) \/ (p[1] = c /\ p[2] \in 1 .. Dir_Node_Degree)
    <3>1. CASE p \in X \X (1 .. H)
      BY <3>1
    <3>2. CASE p \in {c} \X (1 .. Dir_Node_Degree)
      BY <3>2
    <3> QED BY <2>1, <3>1, <3>2
  <2>4. p[1] \in Nodes(S)
    BY <2>3
  <2>5. S[p[1]] \in TreeNode
    BY <2>4, RootedIs
  <2>6. Len(S[p[1]].fdes) \in Nat
    BY <2>5, NodeIs
  <2>7. p[2] \in Nat /\ p[2] >= 1 /\ p[2] <= Len(S[p[1]].fdes)
    BY <1>1, <2>3, <2>6
  <2> QED BY <2>2, <2>4, <2>6, <2>7
<1>6. ASSUME NEW p \in P PROVE NameAt(S[p[1]], p[2]) \in Fhash \ {n}
  <2>1. p[1] \in Nodes(S) /\ p[2] \in 1 .. Len(S[p[1]].fdes)
    BY <1>5
  <2>2. S[p[1]] \in TreeNode
    BY <2>1, RootedIs
  <2>3. NameAt(S[p[1]], p[2]) \in Fhash
    BY <2>1, <2>2, NamesAre
  <2>4. S[p[1]].fdes[p[2]] \in FilesIn(S)
    BY <2>1, FileIsAt
  <2> QED BY <2>3, <2>4 DEF NameAt
<1>7. PICK F : F = [p \in P |-> NameAt(S[p[1]], p[2])]
  OBVIOUS
<1>8. F \in [P -> Fhash \ {n}]
  BY <1>6, <1>7
<1>9. ASSUME NEW p \in P, NEW q \in P, F[p] = F[q] PROVE p = q
  <2>1. NameAt(S[p[1]], p[2]) = NameAt(S[q[1]], q[2])
    BY <1>7, <1>9
  <2>2. /\ p[1] \in Nodes(S) /\ p[2] \in 1 .. Len(S[p[1]].fdes)
        /\ q[1] \in Nodes(S) /\ q[2] \in 1 .. Len(S[q[1]].fdes)
    BY <1>5
  <2>3. p[1] = q[1] /\ p[2] = q[2]
    BY <2>1, <2>2, NameOnce
  <2>4. p = << p[1], p[2] >> /\ q = << q[1], q[2] >>
    BY <1>5
  <2> QED BY <2>3, <2>4
<1>10. F \in Injection(P, Fhash \ {n})
  BY <1>8, <1>9 DEF Injection, IsInjective
<1>11. IsFiniteSet(Fhash \ {n}) /\ Cardinality(Fhash \ {n}) = Cardinality(Fhash) - 1
  BY FS_RemoveElement
<1>12. Cardinality(P) <= Cardinality(Fhash \ {n})
  BY <1>10, <1>11, FS_Injection
<1>13. Cardinality(Fhash) \in Nat /\ Cardinality(X) \in Nat /\ Cardinality(P) \in Nat
  BY <1>2, <1>4, FS_CardinalityType
<1> QED BY <1>4, <1>11, <1>12, <1>13

LEMMA TimesCompares ==
    ASSUME NEW a \in Nat, NEW b \in Nat, NEW n \in Nat \ {0}, a * n < b * n
    PROVE  a < b
<1> SUFFICES ASSUME a >= b PROVE FALSE
  OBVIOUS
<1>1. PICK d : d = a - b
  OBVIOUS
<1>2. d \in Nat /\ a = b + d
  BY <1>1
<1>3. a * n = b * n + d * n
  BY <1>2
<1>4. d * n >= 0
  BY <1>2
<1>5. PICK x : x = a * n
  OBVIOUS
<1>6. PICK y : y = b * n
  OBVIOUS
<1>7. PICK z : z = d * n
  OBVIOUS
<1>8. x \in Int /\ y \in Int /\ z \in Int /\ x = y + z /\ z >= 0 /\ x < y
  BY <1>2, <1>3, <1>4, <1>5, <1>6, <1>7
<1> QED BY <1>8

\* The nodes but the root and a child c of it or below, or but the root only.
LEMMA SomeFree ==
    ASSUME NEW S
    PROVE  /\ IsFiniteSet(Nodes(S)) /\ Cardinality(Nodes(S)) \in Nat
           /\ Cardinality(Nodes(S)) < MaxId => Free(S) # {}
           /\ Cardinality(Nodes(S)) + 1 < MaxId => \E i, j \in Free(S) : i # j
<1>1. IsFiniteSet(Id) /\ Cardinality(Id) = MaxId /\ MaxId \in Nat
  BY Geometry
<1>2. PICK n : n = Cardinality(Nodes(S))
  OBVIOUS
<1>3. IsFiniteSet(Nodes(S)) /\ n \in Nat
  <2>1. Nodes(S) \in SUBSET Id
    BY DEF Nodes
  <2>2. IsFiniteSet(Nodes(S))
    BY <1>1, <2>1, FS_Subset
  <2> QED BY <1>2, <2>2, FS_CardinalityType
<1>4. Free(S) = Id \ Nodes(S)
  BY DEF Free, Nodes
<1>5. n < MaxId => Free(S) # {}
  <2> SUFFICES ASSUME Free(S) = {} PROVE n = MaxId
    BY <1>1, <1>3
  <2>1. Nodes(S) = Id
    BY <1>4 DEF Nodes
  <2> QED BY <1>1, <1>2, <2>1
<1>6. n + 1 < MaxId => \E i, j \in Free(S) : i # j
  <2> SUFFICES ASSUME n + 1 < MaxId, \A i, j \in Free(S) : i = j PROVE FALSE
    OBVIOUS
  <2>1. PICK i : i \in Free(S)
    BY <1>1, <1>3, <1>5
  <2>2. Id = Nodes(S) \cup {i}
    BY <1>4, <2>1 DEF Nodes
  <2>3. i \notin Nodes(S)
    BY <1>4, <2>1
  <2>4. Cardinality(Nodes(S) \cup {i}) = n + 1
    BY <1>2, <1>3, <2>3, FS_AddElement
  <2>5. MaxId = n + 1
    BY <1>1, <2>2, <2>4
  <2> QED BY <1>3, <2>5
<1> QED BY <1>2, <1>3, <1>5, <1>6

\* The nodes a full node leaves room for.
LEMMA RoomByNames ==
    ASSUME FewNames, NEW root, NEW h, Shaped(store, root, call, h), NEW I, Ordered(store, root, I),
           NEW c \in Nodes(store), Len(store[c].fdes) >= Dir_Node_Degree,
           NEW n \in Fhash, \A f \in FilesIn(store) : f.fhash # n
    PROVE  /\ Free(store) # {}
           /\ c = root => \E i, j \in Free(store) : i # j
<1>1. H \in Nat \ {0} /\ Dir_Node_Degree = 2 * H + 1 /\ MaxId \in Nat \ {0}
  BY Geometry
<1>2. Rooted(store, root, h) /\ Sized(store, root)
  BY DEF Shaped
<1>3. root \in Nodes(store)
  BY <1>2 DEF Rooted
<1>4. PICK m : m = Cardinality(Nodes(store))
  OBVIOUS
<1>5. /\ IsFiniteSet(Nodes(store)) /\ m \in Nat
      /\ m < MaxId => Free(store) # {}
      /\ m + 1 < MaxId => \E i, j \in Free(store) : i # j
  <2>1. /\ IsFiniteSet(Nodes(store)) /\ Cardinality(Nodes(store)) \in Nat
        /\ Cardinality(Nodes(store)) < MaxId => Free(store) # {}
        /\ Cardinality(Nodes(store)) + 1 < MaxId => \E i, j \in Free(store) : i # j
    BY SomeFree
  <2> QED BY <1>4, <2>1
<1>6. PICK X : X = (Nodes(store) \ {root}) \ {c}
  OBVIOUS
<1>7. X \in SUBSET Nodes(store) /\ c \notin X /\ \A i \in X : Len(store[i].fdes) >= H
  BY <1>2, <1>6 DEF Sized
<1>8. PICK x : x = Cardinality(X)
  OBVIOUS
<1>9. x \in Nat /\ x * H + (2 * H + 1) + 1 <= MaxId * H + 1
  <2>1. /\ Cardinality(Fhash) \in Nat /\ Cardinality(X) \in Nat
        /\ Cardinality(X) * H + Dir_Node_Degree + 1 <= Cardinality(Fhash)
    BY <1>2, <1>7, NamesSuffice DEF FewNames
  <2>2. Cardinality(Fhash) <= MaxId * H + 1
    BY DEF FewNames
  <2>3. x \in Nat /\ x * H + (2 * H + 1) + 1 <= Cardinality(Fhash)
    BY <1>1, <1>8, <2>1
  <2>4. x * H \in Nat /\ MaxId * H \in Nat /\ 2 * H \in Nat
    BY <1>1, <2>3
  <2> QED BY <2>1, <2>2, <2>3, <2>4
<1>10. (x + 2) * H < MaxId * H
  <2>1. (x + 2) * H = x * H + 2 * H
    BY <1>1, <1>9
  <2>2. x * H \in Nat /\ MaxId * H \in Nat /\ 2 * H \in Nat
    BY <1>1, <1>9
  <2> QED BY <1>9, <2>1, <2>2
<1>11. x + 2 < MaxId
  <2>1. PICK y : y = x + 2
    OBVIOUS
  <2>2. y \in Nat /\ y * H < MaxId * H
    BY <1>9, <1>10, <2>1
  <2>3. y < MaxId
    BY <1>1, <2>2, TimesCompares
  <2> QED BY <2>1, <2>3
<1>12. IsFiniteSet(Nodes(store) \ {root}) /\ Cardinality(Nodes(store) \ {root}) = m - 1
  BY <1>3, <1>4, <1>5, FS_RemoveElement
<1>13. CASE c = root
  <2>1. X = Nodes(store) \ {root}
    BY <1>6, <1>13
  <2>2. x = m - 1
    BY <1>8, <1>12, <2>1
  <2> QED BY <1>1, <1>5, <1>9, <1>11, <2>2
<1>14. CASE c # root
  <2>1. c \in Nodes(store) \ {root}
    BY <1>14
  <2>2. x = m - 1 - 1
    BY <1>6, <1>8, <1>12, <2>1, FS_RemoveElement
  <2> QED BY <1>1, <1>5, <1>9, <1>11, <1>14, <2>2
<1> QED BY <1>13, <1>14

LEMMA OrderHasRoom == FewNames /\ TreeOrder => HasRoom
<1> SUFFICES ASSUME FewNames, TreeOrder PROVE HasRoom
  OBVIOUS
<1> DEFINE root == root_dir_node_id
<1>1. PICK h : Shaped(store, root, call, h) /\ Searchable(store, root, call, h)
  BY DEF TreeOrder
<1>2. Rooted(store, root, h) /\ root \in Nodes(store)
  BY <1>1 DEF Shaped, Rooted
<1>3. ASSUME call = NoCall, New # {}, Full(store[root])
      PROVE  \E i, j \in Free(store) : i # j
  <2>1. PICK I : Ordered(store, root, I)
    BY <1>1, <1>3, NoCallSettled
  <2>2. PICK file \in New : TRUE
    BY <1>3
  <2>3. file.fhash \in Fhash /\ \A f \in FilesIn(store) : f.fhash # file.fhash
    BY <1>1, NewIs
  <2>4. PICK n : n = file.fhash
    OBVIOUS
  <2>5. n \in Fhash /\ \A f \in FilesIn(store) : f.fhash # n
    BY <2>3, <2>4
  <2>6. Len(store[root].fdes) >= Dir_Node_Degree
    BY <1>3 DEF Full
  <2> QED BY <1>1, <1>2, <2>1, <2>5, <2>6, RoomByNames
<1>4. ASSUME call.op = "add", NEW k \in DOMAIN call.dobj.cobj, Full(Child(store, call.dobj, k))
      PROVE  Free(store) # {}
  <2>1. call # NoCall
    BY <1>4, NoCallIs
  <2>2. /\ call.id \in Nodes(store) /\ call.dobj = store[call.id] /\ call.fhash \in Fhash
    BY <1>1, <2>1 DEF Shaped, CallOK
  <2>3. PICK I : Settled(store, root, call, I)
    BY <1>1, <1>4 DEF Searchable, Replacing
  <2>4. Ordered(store, root, I) /\ \A f \in FilesIn(store) : f.fhash # call.fhash
    BY <1>4, <2>1, <2>3 DEF Settled
  <2>5. store[call.id] \in TreeNode
    BY <1>2, <2>2, RootedIs
  <2>6. k \in 1 .. Len(store[call.id].cobj)
    BY <1>4, <2>2, <2>5, NodeIs
  <2>7. PICK c : c = store[call.id].cobj[k]
    OBVIOUS
  <2>8. c \in Nodes(store) /\ Child(store, call.dobj, k) = store[c]
    BY <1>2, <2>2, <2>6, <2>7, ChildIs
  <2>9. Len(store[c].fdes) >= Dir_Node_Degree
    BY <1>4, <2>8 DEF Full
  <2>10. PICK n : n = call.fhash
    OBVIOUS
  <2>11. n \in Fhash /\ \A f \in FilesIn(store) : f.fhash # n
    BY <2>2, <2>4, <2>10
  <2> QED BY <1>1, <2>4, <2>8, <2>9, <2>11, RoomByNames
<1> QED BY <1>3, <1>4 DEF HasRoom

(***************************************************************************)
(* Theorems.                                                               *)
(***************************************************************************)

\* As long as alloc_obj finds an object for each node that is split off, every
\* state has a tree in order: add_new_file and del_file keep it through every
\* split, loan and union, the replacement of an entry found in an inner node
\* included.
THEOREM OrderTheorem == InPlace /\ Spec /\ []HasRoom => []TreeOrder
<1> SUFFICES ASSUME InPlace PROVE Spec /\ []HasRoom => []TreeOrder
  OBVIOUS
<1>1. TreeOrder /\ HasRoom /\ [Next]_vars => TreeOrder'
  BY NextKeepsTreeOrder
<1>2. Init => TreeOrder
  BY InitOrdered
<1> QED BY <1>1, <1>2, PTL DEF Spec

\* get_file_meta_obj_id finds every file of the directory by its name and no
\* file by another one, between two calls on the way down as well.
THEOREM FindsTheFilesTheorem == InPlace /\ Spec /\ []HasRoom => []FindsTheFiles
BY OrderTheorem, OrderFinds, PTL

\* What verify looks at after each call of the tests holds: names in order in
\* each node and between a node and its children; and no name is there twice.
THEOREM WellFormedTheorem == InPlace /\ Spec /\ []HasRoom => []WellFormed
BY OrderTheorem, OrderIsWell, PTL

\* The tree is a directory: a request takes effect once, on the file it names,
\* and no split, loan or union on the way is seen from outside.
THEOREM DirectoryRefinement == InPlace /\ Spec /\ []HasRoom => ImplementsDirectory
<1> SUFFICES ASSUME InPlace PROVE Spec /\ []HasRoom => ImplementsDirectory
  OBVIOUS
<1>1. TreeOrder /\ HasRoom /\ [Next]_vars => [Dir!Next]_(Dir!vars)
  BY StepServesDirectory
<1> QED BY <1>1, InitDirectory, OrderTheorem, PTL DEF Spec, ImplementsDirectory, Dir!Spec

\* With at most MaxId * H + 1 names the objects suffice: no call finds the
\* store of nodes full, so that nothing said here depends on HasRoom.
THEOREM FewNamesTheorem == InPlace /\ FewNames /\ Spec => []CallsHaveRoom /\ []HasRoom
<1> SUFFICES ASSUME InPlace, FewNames PROVE Spec => []CallsHaveRoom /\ []HasRoom
  OBVIOUS
<1>1. TreeOrder /\ [Next]_vars => TreeOrder'
  BY NextKeepsTreeOrder, OrderHasRoom
<1>2. Init => TreeOrder
  BY InitOrdered
<1>3. TreeOrder => HasRoom
  BY OrderHasRoom
<1>4. TreeOrder => TreeShape
  BY DEF TreeOrder, TreeShape
<1>5. TreeOrder => CallsHaveRoom
  BY <1>3, <1>4, ShapeGivesRoom
<1> QED BY <1>1, <1>2, <1>3, <1>5, PTL DEF Spec

\* The same without HasRoom: with few names the tree is a directory.
THEOREM FewNamesDirectory ==
    InPlace /\ FewNames /\ Spec =>
      []FindsTheFiles /\ []WellFormed /\ []NoNodeLost /\ ImplementsDirectory
BY FewNamesTheorem, FindsTheFilesTheorem, WellFormedTheorem, NoNodeLostTheorem, DirectoryRefinement, PTL
=============================================================================
