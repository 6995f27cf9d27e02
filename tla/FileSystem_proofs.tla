-------------------------- MODULE FileSystem_proofs --------------------------
(***************************************************************************)
(* Proofs about the extents of a channel and about the files that hold     *)
(* them.                                                                   *)
(*                                                                         *)
(* First the chain of nodes and the extents in it, for any geometry of the *)
(* channel, over an object store that returns the stored nodes (InPlace):  *)
(* the list's algorithm by itself, over the store it was written against,  *)
(* with which the program is not linked.                                   *)
(*                                                                         *)
(* Then the list over a store that returns copies, as MetaBlkArea does:    *)
(* nothing that it changes stays changed, and there is only one extent.    *)
(*                                                                         *)
(* Last the creation and deletion of files over either store, with the     *)
(* extent list's GC at any time between operations.                        *)
(***************************************************************************)
EXTENDS FileSystem, SequenceTheorems, FiniteSetTheorems, WellFoundedInduction, TLAPS

(***************************************************************************)
(* The least of a set of numbers, and what is true of the first n numbers  *)
(* because no number is the first for which it is false.                   *)
(***************************************************************************)
NatLess == {p \in Nat \X Nat : p[1] < p[2]}

\* A set of numbers that is not empty has a least one.
LEMMA LeastOf ==
    ASSUME NEW T \in SUBSET Nat, T # {}
    PROVE  \E x \in T : \A y \in T : x <= y
<1>1. IsWellFoundedOn(NatLess, Nat)
  BY NatLessThanWellFounded DEF OpToRel, NatLess
<1>2. PICK x \in T : \A y \in T : ~ (<<y, x>> \in NatLess)
  BY <1>1, WFMin
<1>3. \A y \in T : x <= y
  <2> TAKE y \in T
  <2>1. x \in Nat /\ y \in Nat
    OBVIOUS
  <2>2. ~ (y < x)
    BY <2>1, <1>2 DEF NatLess
  <2> QED BY <2>1, <2>2
<1> QED BY <1>3

\* Induction on the numbers from 1 to n for a set of those that are good.
LEMMA UpTo ==
    ASSUME NEW n \in Nat, NEW Good,
           \A k \in 1 .. n : (k = 1 \/ k - 1 \in Good) => k \in Good
    PROVE  \A k \in 1 .. n : k \in Good
<1> DEFINE Bad == {k \in 1 .. n : k \notin Good}
<1> SUFFICES ASSUME Bad # {} PROVE FALSE
  OBVIOUS
<1>1. PICK k \in Bad : \A j \in Bad : k <= j
  <2>1. Bad \in SUBSET Nat
    OBVIOUS
  <2> HIDE DEF Bad
  <2> QED BY <2>1, LeastOf
<1>2. k = 1 \/ k - 1 \in 1 .. n
  OBVIOUS
<1>3. ~(k <= k - 1)
  OBVIOUS
<1> QED BY <1>1, <1>2, <1>3

(***************************************************************************)
(* The chain.                                                              *)
(***************************************************************************)

\* The n nodes of T, in the order of the chain, are p[1], ..., p[n].
Chain(T, p, n) ==
    /\ n \in Nat \ {0} /\ p \in [1 .. n -> Id] /\ p[1] = head
    /\ \A k, l \in 1 .. n : p[k] = p[l] => k = l
    /\ \A i \in Id : T[i] # Null <=> \E k \in 1 .. n : p[k] = i
    /\ \A k \in 1 .. n : T[p[k]].next = IF k = n THEN 0 ELSE p[k + 1]

\* A chain that has the same nodes in the same order.
SameChain(T, V) ==
    \A i \in Id : (V[i] # Null <=> T[i] # Null) /\ (T[i] # Null => V[i].next = T[i].next)

\* Changing anything but the links keeps the chain.
LEMMA SameIsChain ==
    ASSUME NEW T, NEW V, NEW p, NEW n, Chain(T, p, n), SameChain(T, V)
    PROVE  Chain(V, p, n)
<1>1. \A k \in 1 .. n : p[k] \in Id /\ T[p[k]] # Null
  BY DEF Chain
<1>2. \A k \in 1 .. n : V[p[k]].next = T[p[k]].next
  BY <1>1 DEF SameChain
<1>3. \A i \in Id : V[i] # Null <=> \E k \in 1 .. n : p[k] = i
  BY DEF Chain, SameChain
<1> QED BY <1>2, <1>3 DEF Chain

\* The chain with x after its a-th node, and without the node after that.
With(p, n, a, x) == [k \in 1 .. n + 1 |-> IF k <= a THEN p[k] ELSE IF k = a + 1 THEN x ELSE p[k - 1]]
Without(p, n, a) == [k \in 1 .. n - 1 |-> IF k <= a THEN p[k] ELSE p[k + 1]]

\* A new node x after the a-th, as getNewExt links it when it splits.
LEMMA NodeAdded ==
    ASSUME NEW T, NEW V, NEW p, NEW n, Chain(T, p, n), NEW a \in 1 .. n,
           NEW x \in Id, T[x] = Null, V[x] # Null, V[p[a]] # Null,
           V[p[a]].next = x, V[x].next = T[p[a]].next,
           \A i \in Id \ {x, p[a]} : V[i] = T[i]
    PROVE  Chain(V, With(p, n, a, x), n + 1)
<1> DEFINE q == With(p, n, a, x)
<1>1. /\ n \in Nat \ {0} /\ p \in [1 .. n -> Id] /\ p[1] = head
      /\ \A k, l \in 1 .. n : p[k] = p[l] => k = l
      /\ \A i \in Id : T[i] # Null <=> \E k \in 1 .. n : p[k] = i
      /\ \A k \in 1 .. n : T[p[k]].next = IF k = n THEN 0 ELSE p[k + 1]
  BY DEF Chain
<1>0. n \in Nat /\ a \in Nat /\ 1 <= a /\ a <= n
  BY <1>1
<1>2. /\ q = [k \in 1 .. n + 1 |-> q[k]]
      /\ \A k \in 1 .. a : q[k] = p[k]
      /\ q[a + 1] = x
      /\ \A k \in a + 2 .. n + 1 : q[k] = p[k - 1] /\ k - 1 \in a + 1 .. n
  BY <1>1 DEF With
<1>3. \A k \in 1 .. n + 1 : k \in 1 .. a \/ k = a + 1 \/ k \in a + 2 .. n + 1
  BY <1>1
<1>4. \A k \in 1 .. n : p[k] \in Id /\ p[k] # x
  BY <1>1
<1>5. 1 .. a \subseteq 1 .. n /\ a + 1 .. n \subseteq 1 .. n /\ a + 1 \in 1 .. n + 1
  BY <1>1
<1> HIDE DEF q
<1>6. q \in [1 .. n + 1 -> Id]
  <2>1. \A k \in 1 .. n + 1 : q[k] \in Id
    BY <1>2, <1>3, <1>4, <1>5
  <2> QED BY <1>2, <2>1
<1>7. q[1] = head
  <2>1. 1 \in 1 .. a
    BY <1>0
  <2> QED BY <1>1, <1>2, <2>1
<1>8. ASSUME NEW k \in 1 .. n + 1, NEW l \in 1 .. n + 1, q[k] = q[l] PROVE k = l
  <2>1. \/ k \in 1 .. a /\ q[k] = p[k]
        \/ k = a + 1 /\ q[k] = x
        \/ k - 1 \in a + 1 .. n /\ q[k] = p[k - 1]
    BY <1>2, <1>3
  <2>2. \/ l \in 1 .. a /\ q[l] = p[l]
        \/ l = a + 1 /\ q[l] = x
        \/ l - 1 \in a + 1 .. n /\ q[l] = p[l - 1]
    BY <1>2, <1>3
  <2>3. (k - 1 = l - 1 => k = l) /\ (k = l - 1 /\ k \in 1 .. a => l - 1 \notin a + 1 .. n)
        /\ (l = k - 1 /\ l \in 1 .. a => k - 1 \notin a + 1 .. n)
    BY <1>1
  <2> QED BY <1>1, <1>4, <1>5, <1>8, <2>1, <2>2, <2>3
<1>9. ASSUME NEW i \in Id PROVE V[i] # Null <=> \E k \in 1 .. n + 1 : q[k] = i
  <2>1. CASE i = x
    BY <1>2, <1>5, <2>1
  <2>2. CASE i # x
    <3>1. V[i] # Null <=> T[i] # Null
      BY <1>1, <2>2
    <3>2. ASSUME NEW k \in 1 .. n, p[k] = i PROVE \E l \in 1 .. n + 1 : q[l] = i
      <4>1. k \in 1 .. a \/ (k + 1 \in a + 2 .. n + 1 /\ (k + 1) - 1 = k)
        BY <1>1
      <4>2. k \in 1 .. n + 1 /\ (k + 1 \in a + 2 .. n + 1 => k + 1 \in 1 .. n + 1)
        BY <1>1
      <4> QED BY <1>2, <3>2, <4>1, <4>2
    <3>3. ASSUME NEW k \in 1 .. n + 1, q[k] = i PROVE \E l \in 1 .. n : p[l] = i
      BY <1>2, <1>3, <1>5, <2>2, <3>3
    <3> QED BY <1>1, <3>1, <3>2, <3>3
  <2> QED BY <2>1, <2>2
<1>10. ASSUME NEW k \in 1 .. n + 1
       PROVE  V[q[k]].next = IF k = n + 1 THEN 0 ELSE q[k + 1]
  <2>1. CASE k = a
    <3>1. k \in 1 .. a /\ k # n + 1
      BY <1>0, <2>1
    <3> QED BY <1>2, <2>1, <3>1
  <2>2. CASE k \in 1 .. a /\ k # a
    <3>1. k + 1 \in 1 .. a /\ k # n + 1 /\ k # n /\ k \in 1 .. n
      BY <1>1, <2>2
    <3>2. V[p[k]] = T[p[k]]
      BY <1>1, <1>4, <2>2, <3>1
    <3>3. q[k] = p[k] /\ q[k + 1] = p[k + 1]
      BY <1>2, <2>2, <3>1
    <3>4. T[p[k]].next = p[k + 1]
      BY <1>1, <3>1
    <3> QED BY <3>1, <3>2, <3>3, <3>4
  <2>3. CASE k = a + 1
    <3>1. a = n => k = n + 1
      BY <2>3
    <3>2. a # n => k # n + 1 /\ k + 1 \in a + 2 .. n + 1 /\ (k + 1) - 1 = a + 1
      BY <1>0, <2>3
    <3>3. V[q[k]].next = IF a = n THEN 0 ELSE p[a + 1]
      BY <1>1, <1>2, <1>5, <2>3
    <3>4. a # n => q[k + 1] = p[a + 1]
      BY <1>2, <3>2
    <3> QED BY <3>1, <3>2, <3>3, <3>4
  <2>4. CASE k \in a + 2 .. n + 1
    <3>1. /\ k - 1 \in 1 .. n /\ k - 1 # a /\ (k = n + 1 <=> k - 1 = n)
          /\ (k # n + 1 => k + 1 \in a + 2 .. n + 1 /\ (k + 1) - 1 = (k - 1) + 1)
      BY <1>1, <2>4
    <3>2. V[p[k - 1]] = T[p[k - 1]]
      BY <1>1, <1>4, <3>1
    <3>3. q[k] = p[k - 1]
      BY <1>2, <2>4
    <3>4. k # n + 1 => q[k + 1] = p[(k - 1) + 1]
      BY <1>2, <3>1
    <3> QED BY <1>1, <3>1, <3>2, <3>3, <3>4
  <2> QED BY <1>3, <2>1, <2>2, <2>3, <2>4
<1>11. n + 1 \in Nat \ {0}
  BY <1>0
<1>12. Chain(V, q, n + 1)
  BY <1>6, <1>7, <1>8, <1>9, <1>10, <1>11 DEF Chain
<1> QED BY <1>12 DEF q

\* The node after the a-th is taken out, as GC does when it merges two.
LEMMA NodeRemoved ==
    ASSUME NEW T, NEW V, NEW p, NEW n, Chain(T, p, n), NEW a \in 1 .. n - 1,
           V[p[a]] # Null, V[p[a + 1]] = Null, V[p[a]].next = T[p[a + 1]].next,
           \A i \in Id \ {p[a], p[a + 1]} :
             (V[i] # Null <=> T[i] # Null) /\ (T[i] # Null => V[i].next = T[i].next)
    PROVE  Chain(V, Without(p, n, a), n - 1)
<1> DEFINE q == Without(p, n, a)
<1>1. /\ n \in Nat \ {0} /\ p \in [1 .. n -> Id] /\ p[1] = head
      /\ \A k, l \in 1 .. n : p[k] = p[l] => k = l
      /\ \A i \in Id : T[i] # Null <=> \E k \in 1 .. n : p[k] = i
      /\ \A k \in 1 .. n : T[p[k]].next = IF k = n THEN 0 ELSE p[k + 1]
  BY DEF Chain
<1>0. n \in Nat /\ a \in Nat /\ 1 <= a /\ a <= n - 1
  BY <1>1
<1>2. /\ q = [k \in 1 .. n - 1 |-> q[k]]
      /\ \A k \in 1 .. a : q[k] = p[k]
      /\ \A k \in a + 1 .. n - 1 : q[k] = p[k + 1] /\ k + 1 \in a + 2 .. n
  BY <1>1 DEF Without
<1>3. \A k \in 1 .. n - 1 : k \in 1 .. a \/ k \in a + 1 .. n - 1
  BY <1>1
<1>4. \A k \in 1 .. n : p[k] \in Id
  BY <1>1
<1>5. 1 .. a \subseteq 1 .. n /\ a + 2 .. n \subseteq 1 .. n /\ a + 1 \in 1 .. n /\ a \in 1 .. n
  BY <1>1
<1> HIDE DEF q
<1>6. q \in [1 .. n - 1 -> Id] /\ n - 1 \in Nat \ {0}
  <2>1. n - 1 \in Nat \ {0}
    BY <1>0
  <2>2. \A k \in 1 .. n - 1 : q[k] \in Id
    BY <1>2, <1>3, <1>4, <1>5, ZenonT(40)
  <2> QED BY <1>2, <2>1, <2>2
<1>7. q[1] = head
  <2>1. 1 \in 1 .. a
    BY <1>0
  <2> QED BY <1>1, <1>2, <2>1
<1>8. ASSUME NEW k \in 1 .. n - 1, NEW l \in 1 .. n - 1, q[k] = q[l] PROVE k = l
  <2>1. \/ k \in 1 .. a /\ q[k] = p[k]
        \/ k + 1 \in a + 2 .. n /\ q[k] = p[k + 1]
    BY <1>2, <1>3
  <2>2. \/ l \in 1 .. a /\ q[l] = p[l]
        \/ l + 1 \in a + 2 .. n /\ q[l] = p[l + 1]
    BY <1>2, <1>3
  <2>3. (k + 1 = l + 1 => k = l) /\ (k = l + 1 /\ k \in 1 .. a => l + 1 \notin a + 2 .. n)
        /\ (l = k + 1 /\ l \in 1 .. a => k + 1 \notin a + 2 .. n)
    BY <1>1
  <2> QED BY <1>1, <1>5, <1>8, <2>1, <2>2, <2>3
<1>9. ASSUME NEW i \in Id PROVE V[i] # Null <=> \E k \in 1 .. n - 1 : q[k] = i
  <2>1. ASSUME NEW k \in 1 .. n - 1, q[k] = i PROVE V[i] # Null
    <3>1. CASE k = a
      <4>1. k \in 1 .. a
        BY <1>0, <3>1
      <4> QED BY <1>2, <2>1, <3>1, <4>1
    <3>2. CASE k \in 1 .. a /\ k # a
      <4>1. k # a + 1 /\ k \in 1 .. n
        BY <1>0, <3>2
      <4>2. i = p[k]
        BY <1>2, <2>1, <3>2
      <4>3. i # p[a] /\ i # p[a + 1] /\ T[i] # Null
        BY <1>1, <1>5, <3>2, <4>1, <4>2
      <4> QED BY <4>3
    <3>3. CASE k \in a + 1 .. n - 1
      <4>1. k + 1 # a + 1 /\ k + 1 # a /\ k + 1 \in 1 .. n
        BY <1>0, <3>3
      <4>2. i = p[k + 1]
        BY <1>2, <2>1, <3>3
      <4>3. i # p[a] /\ i # p[a + 1] /\ T[i] # Null
        BY <1>1, <1>5, <4>1, <4>2
      <4> QED BY <4>3
    <3> QED BY <1>3, <3>1, <3>2, <3>3
  <2>2. ASSUME V[i] # Null PROVE \E k \in 1 .. n - 1 : q[k] = i
    <3>1. i # p[a + 1]
      BY <2>2
    <3>2. T[i] # Null
      BY <1>1, <1>5, <2>2, <3>1
    <3>3. PICK k \in 1 .. n : p[k] = i
      BY <1>1, <3>2
    <3>4. k # a + 1
      BY <3>1, <3>3
    <3>5. (k \in 1 .. a /\ k \in 1 .. n - 1)
          \/ (k - 1 \in a + 1 .. n - 1 /\ k - 1 \in 1 .. n - 1 /\ (k - 1) + 1 = k)
      BY <1>1, <3>4
    <3> QED BY <1>2, <3>3, <3>5, ZenonT(40)
  <2> QED BY <2>1, <2>2
<1>10. ASSUME NEW k \in 1 .. n - 1
       PROVE  V[q[k]].next = IF k = n - 1 THEN 0 ELSE q[k + 1]
  <2>1. CASE k = a
    <3>1. (k = n - 1 <=> a + 1 = n) /\ (k # n - 1 => k + 1 \in a + 1 .. n - 1)
      BY <1>1, <2>1
    <3>2. T[p[a + 1]].next = IF a + 1 = n THEN 0 ELSE p[(a + 1) + 1]
      BY <1>1, <1>5
    <3>3. k # n - 1 => q[k + 1] = p[(a + 1) + 1]
      BY <1>2, <2>1, <3>1
    <3>4. q[k] = p[a]
      <4>1. k \in 1 .. a
        BY <1>0, <2>1
      <4> QED BY <1>2, <2>1, <4>1
    <3> QED BY <3>1, <3>2, <3>3, <3>4
  <2>2. CASE k \in 1 .. a /\ k # a
    <3>1. k + 1 \in 1 .. a /\ k # n - 1 /\ k # n /\ k \in 1 .. n /\ k # a + 1
      BY <1>1, <2>2
    <3>2. p[k] # p[a] /\ p[k] # p[a + 1] /\ T[p[k]] # Null
      BY <1>1, <1>5, <2>2, <3>1
    <3>3. V[p[k]].next = T[p[k]].next
      BY <1>4, <3>1, <3>2
    <3>4. q[k] = p[k] /\ q[k + 1] = p[k + 1] /\ T[p[k]].next = p[k + 1]
      BY <1>1, <1>2, <2>2, <3>1
    <3> QED BY <3>1, <3>3, <3>4
  <2>3. CASE k \in a + 1 .. n - 1
    <3>1. /\ k + 1 \in 1 .. n /\ k + 1 # a /\ k + 1 # a + 1 /\ (k = n - 1 <=> k + 1 = n)
          /\ (k # n - 1 => k + 1 \in a + 1 .. n - 1)
      BY <1>0, <2>3
    <3>2. p[k + 1] # p[a] /\ p[k + 1] # p[a + 1] /\ T[p[k + 1]] # Null
      BY <1>1, <1>5, <3>1
    <3>3. V[p[k + 1]].next = T[p[k + 1]].next
      BY <1>4, <3>1, <3>2
    <3>4. q[k] = p[k + 1] /\ (k # n - 1 => q[k + 1] = p[(k + 1) + 1])
      BY <1>2, <2>3, <3>1
    <3> QED BY <1>1, <3>1, <3>3, <3>4
  <2> QED BY <1>3, <2>1, <2>2, <2>3
<1>11. Chain(V, q, n - 1)
  BY <1>6, <1>7, <1>8, <1>9, <1>10 DEF Chain
<1> QED BY <1>11 DEF q

\* The ids: finitely many, the head among them, 0 not.
LEMMA IdIsFinite == IsFiniteSet(Id) /\ Cardinality(Id) = MaxId /\ head \in Id /\ 0 \notin Id
<1>1. MaxId \in Nat \ {0}
  BY ExtentGeometry
<1>2. IsFiniteSet(1 .. MaxId) /\ Cardinality(1 .. MaxId) = MaxId
  BY <1>1, FS_Interval
<1> QED BY <1>1, <1>2 DEF Id, head

\* A chain has no more nodes than there are ids.
LEMMA ChainFits ==
    ASSUME NEW T, NEW p, NEW n, Chain(T, p, n)
    PROVE  n \in 1 .. MaxId
<1>1. n \in Nat \ {0} /\ p \in Injection(1 .. n, Id)
  BY DEF Chain, Injection, IsInjective
<1>2. Cardinality(1 .. n) <= Cardinality(Id)
  BY <1>1, IdIsFinite, FS_Injection
<1>3. Cardinality(1 .. n) = n
  BY <1>1, FS_Interval
<1> QED BY <1>1, <1>2, <1>3, IdIsFinite, ExtentGeometry

\* A node of the chain, the first one and the one after the k-th.
LEMMA NodesOfChain ==
    ASSUME NEW T, NEW p, NEW n, Chain(T, p, n), NEW k \in 1 .. n
    PROVE  /\ p[k] \in Id /\ p[k] # 0 /\ T[p[k]] # Null
           /\ T[p[k]].next = 0 <=> k = n
           /\ k # n => k + 1 \in 1 .. n /\ T[p[k]].next = p[k + 1] /\ p[k + 1] # p[k]
           /\ k # 1 => k - 1 \in 1 .. n - 1 /\ T[p[k - 1]].next = p[k] /\ p[k - 1] # p[k]
<1>1. n \in Nat \ {0}
  BY DEF Chain
<1>2. (k # n => k + 1 \in 1 .. n /\ k + 1 # k)
      /\ (k # 1 => k - 1 \in 1 .. n - 1 /\ k - 1 \in 1 .. n /\ k - 1 # n /\ k - 1 # k /\ (k - 1) + 1 = k)
  BY <1>1
<1>3. \A l \in 1 .. n : p[l] \in Id /\ p[l] # 0
  BY IdIsFinite DEF Chain
<1>4. T[p[k]] # Null /\ T[p[k]].next = IF k = n THEN 0 ELSE p[k + 1]
  BY <1>3 DEF Chain
<1>5. k # n => p[k + 1] # p[k]
  BY <1>2 DEF Chain
<1>6. k # 1 => T[p[k - 1]].next = p[k] /\ p[k - 1] # p[k]
  BY <1>2 DEF Chain
<1> QED BY <1>2, <1>3, <1>4, <1>5, <1>6

(***************************************************************************)
(* NodeAt follows the chain.  Its recursion has a solution, the chain, and *)
(* no other.                                                               *)
(***************************************************************************)
Follow(g) ==
    [k \in 1 .. MaxId + 1 |->
       IF k = 1 THEN head
       ELSE IF g[k - 1] = 0 \/ store[g[k - 1]] = Null THEN 0
       ELSE store[g[k - 1]].next]

Along(p, n) == [k \in 1 .. MaxId + 1 |-> IF k <= n THEN p[k] ELSE 0]

\* NodeAt lists the chain, and then zeros.
LEMMA NodeAtFollows ==
    ASSUME NEW p, NEW n, Chain(store, p, n)
    PROVE  /\ \A k \in 1 .. MaxId + 1 : NodeAt[k] = IF k <= n THEN p[k] ELSE 0
           /\ NodeAt = Along(p, n)
<1> DEFINE g == Along(p, n)
<1>1. MaxId \in Nat \ {0} /\ n \in 1 .. MaxId /\ p[1] = head
  <2>1. n \in 1 .. MaxId
    BY ChainFits
  <2> QED BY <2>1, ExtentGeometry DEF Chain
<1>2. ASSUME NEW k \in 1 .. MaxId + 1, k # 1
      PROVE  /\ k - 1 \in 1 .. MaxId + 1
             /\ g[k] = IF g[k - 1] = 0 \/ store[g[k - 1]] = Null THEN 0 ELSE store[g[k - 1]].next
  <2>1. k - 1 \in 1 .. MaxId + 1 /\ k \in Int /\ n \in Int
    BY <1>1, <1>2
  <2>2. g[k - 1] = (IF k - 1 <= n THEN p[k - 1] ELSE 0) /\ g[k] = IF k <= n THEN p[k] ELSE 0
    BY <2>1 DEF Along
  <2>3. CASE k - 1 <= n
    <3>1. k - 1 \in 1 .. n /\ (k - 1 = n <=> ~(k <= n)) /\ (k - 1) + 1 = k
      BY <1>1, <1>2, <2>1, <2>3
    <3>2. /\ p[k - 1] # 0 /\ store[p[k - 1]] # Null
          /\ store[p[k - 1]].next = IF k - 1 = n THEN 0 ELSE p[k]
      BY <3>1, NodesOfChain
    <3> QED BY <2>1, <2>2, <2>3, <3>1, <3>2
  <2>4. CASE ~(k - 1 <= n)
    <3>1. ~(k <= n)
      BY <2>1, <2>4
    <3> QED BY <2>1, <2>2, <2>4, <3>1
  <2> QED BY <2>3, <2>4
<1>3. g[1] = head
  BY <1>1 DEF Along
<1>4. g = Follow(g)
  <2>1. \A k \in 1 .. MaxId + 1 : g[k] = Follow(g)[k]
    BY <1>2, <1>3 DEF Follow
  <2> QED BY <2>1 DEF Along, Follow
<1>5. NodeAt = Follow(NodeAt)
  <2>1. NodeAt = CHOOSE f : f = Follow(f)
    BY DEF NodeAt, Follow
  <2> QED BY <1>4, <2>1
<1> HIDE DEF g
<1> DEFINE Good == {k \in 1 .. MaxId + 1 : NodeAt[k] = g[k]}
<1>6. ASSUME NEW k \in 1 .. MaxId + 1, k = 1 \/ k - 1 \in Good PROVE NodeAt[k] = g[k]
  <2>1. NodeAt[k] = Follow(NodeAt)[k]
    BY <1>5
  <2>2. CASE k = 1
    BY <1>1, <1>3, <2>1, <2>2 DEF Follow
  <2>3. CASE k # 1
    <3>1. NodeAt[k - 1] = g[k - 1]
      BY <1>6, <2>3
    <3> QED BY <1>2, <2>1, <2>3, <3>1 DEF Follow
  <2> QED BY <2>2, <2>3
<1>7. \A k \in 1 .. MaxId + 1 : k \in Good
  <2>1. \A k \in 1 .. MaxId + 1 : (k = 1 \/ k - 1 \in Good) => k \in Good
    BY <1>6
  <2>2. MaxId + 1 \in Nat
    BY <1>1
  <2> HIDE DEF Good
  <2> QED BY <2>1, <2>2, UpTo
<1>8. NodeAt = g
  BY <1>5, <1>7 DEF Follow, Along, g
<1>9. \A k \in 1 .. MaxId + 1 : NodeAt[k] = IF k <= n THEN p[k] ELSE 0
  BY <1>8 DEF Along, g
<1> QED BY <1>8, <1>9 DEF g

\* A chain is what ChainIsSound asks for.
LEMMA ChainSound ==
    ASSUME NEW p, NEW n, Chain(store, p, n)
    PROVE  ChainIsSound
<1> DEFINE linked == {NodeAt[k] : k \in 1 .. MaxId} \ {0}
<1>1. /\ MaxId \in Nat \ {0} /\ n \in 1 .. MaxId
      /\ \A k \in 1 .. MaxId + 1 : NodeAt[k] = IF k <= n THEN p[k] ELSE 0
  BY ChainFits, NodeAtFollows, ExtentGeometry
<1>2. \A i : i \in linked <=> \E k \in 1 .. n : i = p[k]
  <2>1. ASSUME NEW i \in linked PROVE \E k \in 1 .. n : i = p[k]
    <3>1. PICK k \in 1 .. MaxId : i = NodeAt[k] /\ i # 0
      OBVIOUS
    <3>2. k \in 1 .. MaxId + 1 /\ (k <= n => k \in 1 .. n)
      BY <1>1
    <3> QED BY <1>1, <3>1, <3>2
  <2>2. ASSUME NEW k \in 1 .. n PROVE p[k] \in linked
    <3>1. k \in 1 .. MaxId /\ k \in 1 .. MaxId + 1 /\ k <= n
      BY <1>1
    <3> QED BY <1>1, <3>1, NodesOfChain
  <2> QED BY <2>1, <2>2
<1>3. \A i \in Id : i \in linked <=> store[i] # Null
  <2>1. \A i \in Id : store[i] # Null <=> \E k \in 1 .. n : p[k] = i
    BY DEF Chain
  <2> HIDE DEF linked
  <2> QED BY <1>2, <2>1
<1>4. linked \subseteq Id
  <2>1. \A k \in 1 .. n : p[k] \in Id
    BY NodesOfChain
  <2> HIDE DEF linked
  <2> QED BY <1>2, <2>1
<1>5. linked = Id \ FreeId
  BY <1>3, <1>4 DEF FreeId
<1>6. NodeAt[MaxId + 1] = 0
  <2>1. MaxId + 1 \in 1 .. MaxId + 1 /\ ~(MaxId + 1 <= n)
    BY <1>1
  <2> QED BY <1>1, <2>1
<1>7. ASSUME NEW i \in linked, NEW j \in linked, store[i].next = store[j].next PROVE i = j
  <2>1. PICK k \in 1 .. n : i = p[k]
    BY <1>2
  <2>2. PICK l \in 1 .. n : j = p[l]
    BY <1>2
  <2>3. (store[p[k]].next = 0 <=> k = n) /\ (store[p[l]].next = 0 <=> l = n)
    BY NodesOfChain
  <2>4. CASE k # n /\ l # n
    <3>1. /\ k + 1 \in 1 .. n /\ l + 1 \in 1 .. n
          /\ store[p[k]].next = p[k + 1] /\ store[p[l]].next = p[l + 1]
      BY <2>4, NodesOfChain
    <3>2. k + 1 = l + 1
      BY <1>7, <2>1, <2>2, <3>1 DEF Chain
    <3>3. k = l
      BY <3>2
    <3> QED BY <2>1, <2>2, <3>3
  <2>5. CASE k = n \/ l = n
    BY <1>7, <2>1, <2>2, <2>3, <2>5
  <2> QED BY <2>4, <2>5
<1> HIDE DEF linked
<1>8. linked = Id \ FreeId /\ NodeAt[MaxId + 1] = 0
      /\ \A i, j \in linked : store[i].next = store[j].next => i = j
  BY <1>5, <1>6, <1>7
<1> QED BY <1>8 DEF ChainIsSound, linked

(***************************************************************************)
(* GC's pass over a node, extent by extent: FoldLeft unfolded.             *)
(***************************************************************************)
LEMMA MaxIsLargest ==
    ASSUME NEW n \in Nat, NEW t \in SUBSET (1 .. n), t # {}
    PROVE  Max(t) \in t /\ \A x \in t : Max(t) >= x
<1> DEFINE D == {n - x : x \in t}
<1>1. D \in SUBSET Nat /\ D # {}
  <2>1. \A x \in t : n - x \in Nat
    OBVIOUS
  <2>2. \E x \in t : n - x \in D
    OBVIOUS
  <2> QED BY <2>1, <2>2
<1>2. PICK d \in D : \A y \in D : d <= y
  <2> HIDE DEF D
  <2> QED BY <1>1, LeastOf
<1>3. PICK x \in t : d = n - x
  BY <1>2
<1>4. \A y \in t : x >= y
  <2> TAKE y \in t
  <2>1. n - x <= n - y
    BY <1>2, <1>3
  <2> QED BY <2>1
<1> QED BY <1>4 DEF Max

Blank == [done |-> <<>>, absorb |-> FALSE]

\* One unfolding of the recursion, on the extents before the k-th.
SweepRec(s, k, g) ==
    [t \in SUBSET (1 .. k - 1) |->
       IF t = {} THEN Blank ELSE SweepExtent(g[t \ {Max(t)}], s[Max(t)])]

\* The recursive function in the definition of FoldLeft exists for the pass.
LEMMA SweepHasRec ==
    ASSUME NEW s, NEW n \in Nat
    PROVE  \A k \in 1 .. n + 1 : \E g : g = SweepRec(s, k, g)
<1> DEFINE Good == {k \in 1 .. n + 1 : \E g : g = SweepRec(s, k, g)}
<1>1. ASSUME NEW k \in 1 .. n + 1, k = 1 PROVE \E g : g = SweepRec(s, k, g)
  <2> DEFINE g == [t \in SUBSET (1 .. k - 1) |-> Blank]
  <2>1. SUBSET (1 .. k - 1) = {{}}
    BY <1>1
  <2>2. g = SweepRec(s, k, g)
    BY <2>1 DEF SweepRec
  <2> QED BY <2>2
<1>2. ASSUME NEW k \in 1 .. n + 1, k - 1 \in Good PROVE \E g : g = SweepRec(s, k, g)
  <2>1. PICK g : g = SweepRec(s, k - 1, g)
    BY <1>2
  <2>2. /\ k - 1 \in Nat /\ (k - 1) - 1 \in Nat
        /\ 1 .. (k - 1) - 1 \subseteq 1 .. k - 1 /\ k - 1 \in 1 .. k - 1
        /\ \A x \in 1 .. k - 1 : x \in 1 .. (k - 1) - 1 \/ x = k - 1
        /\ k - 1 \notin 1 .. (k - 1) - 1 /\ \A x \in 1 .. k - 1 : x >= k - 1 => x = k - 1
    BY <1>2
  <2> DEFINE Old == SUBSET (1 .. (k - 1) - 1)
             All == SUBSET (1 .. k - 1)
             h == [t \in All |-> IF k - 1 \in t THEN SweepExtent(g[t \ {k - 1}], s[k - 1])
                                 ELSE g[t]]
  <2>3. \A t \in Old : g[t] = IF t = {} THEN Blank ELSE SweepExtent(g[t \ {Max(t)}], s[Max(t)])
    BY <2>1 DEF SweepRec
  <2>4. \A t \in Old : t \in All /\ h[t] = g[t]
    BY <2>2
  <2>5. ASSUME NEW t \in All
        PROVE  h[t] = IF t = {} THEN Blank ELSE SweepExtent(h[t \ {Max(t)}], s[Max(t)])
    <3>1. CASE k - 1 \in t
      <4>1. Max(t) \in t /\ \A x \in t : Max(t) >= x
        BY <2>2, <3>1, MaxIsLargest
      <4>2. Max(t) = k - 1
        BY <2>2, <3>1, <4>1
      <4>3. t \ {k - 1} \in Old
        BY <2>2
      <4> QED BY <2>4, <3>1, <4>2, <4>3
    <3>2. CASE k - 1 \notin t
      <4>1. t \in Old
        BY <2>2, <3>2
      <4>2. t \ {Max(t)} \in Old
        BY <4>1
      <4> QED BY <2>3, <2>4, <4>1, <4>2
    <3> QED BY <3>1, <3>2
  <2>6. h = SweepRec(s, k, h)
    <3>1. h = [t \in All |-> h[t]]
      OBVIOUS
    <3> HIDE DEF h
    <3> QED BY <2>5, <3>1 DEF SweepRec
  <2> QED BY <2>6
<1>3. \A k \in 1 .. n + 1 : (k = 1 \/ k - 1 \in Good) => k \in Good
  BY <1>1, <1>2
<1>4. \A k \in 1 .. n + 1 : k \in Good
  <2> HIDE DEF Good
  <2> QED BY <1>3, UpTo
<1> QED BY <1>4

\* What the pass has made of the first k extents, for each k.
LEMMA SweepSteps ==
    ASSUME NEW S, NEW s \in Seq(S)
    PROVE  \E F : /\ F[0] = Blank
                  /\ \A k \in 1 .. Len(s) : F[k] = SweepExtent(F[k - 1], s[k])
                  /\ Sweep(s) = F[Len(s)].done
<1> DEFINE n == Len(s)
           g == CHOOSE h : h = SweepRec(s, n + 1, h)
           F == [k \in 0 .. n |-> g[1 .. k]]
<1>1. n \in Nat /\ DOMAIN s = 1 .. n /\ (n + 1) - 1 = n
  BY LenProperties
<1>2. g = SweepRec(s, n + 1, g)
  <2>1. n + 1 \in 1 .. n + 1
    BY <1>1
  <2>2. \E h : h = SweepRec(s, n + 1, h)
    BY <1>1, <2>1, SweepHasRec
  <2> QED BY <2>2
<1>3. Sweep(s) = g[1 .. n].done
  BY <1>1 DEF Sweep, FoldLeft, MapThenFoldSet, SweepRec, Blank
<1> HIDE DEF g
<1>4. F[0] = Blank
  <2>1. 1 .. 0 = {} /\ {} \in SUBSET (1 .. (n + 1) - 1)
    OBVIOUS
  <2>2. g[{}] = Blank
    BY <1>2, <2>1 DEF SweepRec
  <2> QED BY <1>1, <2>1, <2>2
<1>5. ASSUME NEW k \in 1 .. n PROVE F[k] = SweepExtent(F[k - 1], s[k])
  <2>1. 1 .. k \in SUBSET (1 .. (n + 1) - 1) /\ 1 .. k # {}
    BY <1>1, SMTT(30)
  <2>2. Max(1 .. k) = k
    <3>1. 1 .. k \in SUBSET (1 .. n) /\ k \in 1 .. k /\ \A x \in 1 .. k : x >= k => x = k
      BY <1>1
    <3>2. Max(1 .. k) \in 1 .. k /\ \A x \in 1 .. k : Max(1 .. k) >= x
      BY <1>1, <2>1, <3>1, MaxIsLargest
    <3> QED BY <3>1, <3>2
  <2>3. (1 .. k) \ {k} = 1 .. k - 1 /\ k - 1 \in 0 .. n /\ k \in 0 .. n
    BY <1>1
  <2>4. g[1 .. k] = SweepExtent(g[(1 .. k) \ {Max(1 .. k)}], s[Max(1 .. k)])
    BY <1>2, <2>1 DEF SweepRec
  <2> QED BY <2>2, <2>3, <2>4
<1>6. Sweep(s) = F[n].done
  <2>1. n \in 0 .. n
    BY <1>1
  <2> QED BY <1>3, <2>1
<1> HIDE DEF F
<1> QED BY <1>4, <1>5, <1>6

(***************************************************************************)
(* Extents.  An extent holds one unit of ext_size blocks if it is not free *)
(* and free_vblk_num units if it is, and less than a unit more only at the *)
(* end of the channel.  Junk is not free.                                  *)
(***************************************************************************)
Units(e) == IF e.free = 0 THEN 1 ELSE e.free

Sound(e) ==
    /\ e \in Entry
    /\ e.st + Units(e) * ext_size <= e.ed
    /\ e.ed < e.st + Units(e) * ext_size + ext_size
    /\ e.ed = e.st + Units(e) * ext_size \/ e.ed = blk_ed
    /\ e.free > 0 => e.junk = 0

\* A node's extents, one after the other, from lo to hi.
Tiled(s, lo, hi) ==
    /\ s \in Seq(Entry) /\ Len(s) >= 1
    /\ \A k \in 1 .. Len(s) : Sound(s[k])
    /\ \A k \in 1 .. Len(s) - 1 : s[k].ed = s[k + 1].st
    /\ s[1].st = lo /\ s[Len(s)].ed = hi

\* The fields of an extent and their ranges.
LEMMA EntryIs ==
    ASSUME NEW e \in Entry
    PROVE  /\ e.free \in Nat /\ e.st \in Pos /\ e.ed \in Pos /\ e.junk \in {0, 1}
           /\ e.st \in Nat /\ e.ed \in Nat /\ e.st >= blk_st /\ e.ed <= blk_ed
           /\ Units(e) \in Nat \ {0}
BY ExtentGeometry DEF Entry, Pos, Units

\* Arithmetic with ext_size, which the SMT solver does not multiply by.
LEMMA Products ==
    ASSUME NEW a \in Nat, NEW b \in Nat
    PROVE  /\ a * ext_size \in Nat /\ (a + b) * ext_size = a * ext_size + b * ext_size
           /\ 1 * ext_size = ext_size /\ (a # 0 => a * ext_size >= ext_size)
           /\ ext_size \in Nat \ {0}
<1>1. ext_size \in Nat \ {0}
  BY ExtentGeometry
<1>2. a # 0 => a * ext_size >= ext_size
  BY <1>1
<1> QED BY <1>1, <1>2

\* A sound extent is not empty.
LEMMA SoundIsLong ==
    ASSUME NEW e, Sound(e)
    PROVE  e.st + ext_size <= e.ed /\ e.st < e.ed
<1>1. e.st \in Nat /\ e.ed \in Nat /\ Units(e) \in Nat \ {0}
  BY EntryIs DEF Sound
<1>2. Units(e) * ext_size \in Nat /\ Units(e) * ext_size >= ext_size /\ ext_size \in Nat \ {0}
  BY <1>1, Products
<1>3. e.st + Units(e) * ext_size <= e.ed
  BY DEF Sound
<1> QED BY <1>1, <1>2, <1>3

\* free_vblk_num of a free extent.
LEMMA SoundCounts ==
    ASSUME NEW e, Sound(e), e.free > 0
    PROVE  e.free = (e.ed - e.st) \div ext_size
<1>1. e.st \in Nat /\ e.ed \in Nat /\ e.free \in Nat /\ Units(e) = e.free
  BY EntryIs DEF Sound, Units
<1>2. e.free * ext_size \in Nat /\ ext_size \in Nat \ {0}
  BY <1>1, Products
<1>3. e.st + e.free * ext_size <= e.ed /\ e.ed < e.st + e.free * ext_size + ext_size
  BY <1>1 DEF Sound
<1> DEFINE r == (e.ed - e.st) - e.free * ext_size
<1>4. r \in 0 .. ext_size - 1 /\ e.ed - e.st = e.free * ext_size + r
  BY <1>1, <1>2, <1>3
<1>5. \A q \in Nat, d \in Nat \ {0}, x \in Int : x \in 0 .. d - 1 => (q * d + x) \div d = q
  OBVIOUS
<1> QED BY <1>1, <1>2, <1>4, <1>5

\* Two extents merged are an extent.
LEMMA MergedIsEntry ==
    ASSUME NEW a \in Entry, NEW b \in Entry
    PROVE  /\ Merge(a, b) \in Entry
           /\ Merge(a, b).free = a.free + b.free /\ Merge(a, b).junk = a.junk
           /\ Merge(a, b).st = a.st /\ Merge(a, b).ed = b.ed
<1>1. a.free \in Nat /\ b.free \in Nat /\ a.free + b.free \in Nat
  BY EntryIs
<1> DEFINE x == a.free + b.free
           y == b.ed
<1>2. Merge(a, b) = [a EXCEPT !.free = x, !.ed = y]
  BY DEF Merge, Entry
<1>3. x \in Nat /\ y \in Pos
  BY <1>1, EntryIs
<1> HIDE DEF x, y
<1>4. LET m == [a EXCEPT !.free = x, !.ed = y]
      IN  m \in Entry /\ m.free = x /\ m.junk = a.junk /\ m.st = a.st /\ m.ed = y
  BY <1>3 DEF Entry
<1> QED BY <1>2, <1>4 DEF x, y

Freed(e) == [e EXCEPT !.free = 1, !.junk = 0]

\* A junk extent set free is an extent.
LEMMA FreedIsEntry ==
    ASSUME NEW e \in Entry
    PROVE  /\ Freed(e) \in Entry /\ Freed(e).free = 1 /\ Freed(e).junk = 0
           /\ Freed(e).st = e.st /\ Freed(e).ed = e.ed
BY DEF Freed, Entry

\* A junk extent has one unit, and so it has when it is free.
LEMMA FreedIsSound ==
    ASSUME NEW e, Sound(e), e.junk # 0
    PROVE  Sound(Freed(e))
<1>1. e \in Entry /\ e.free = 0
  BY EntryIs DEF Sound
<1>2. Units(Freed(e)) = 1 /\ Units(e) = 1
  BY <1>1, FreedIsEntry DEF Units
<1> QED BY <1>1, <1>2, FreedIsEntry DEF Sound

\* Two free extents merged: only the second can be the channel's last, so
\* the first is a whole number of units.
LEMMA MergedIsSound ==
    ASSUME NEW a, Sound(a), NEW b, Sound(b), a.free > 0, b.free > 0, a.ed = b.st
    PROVE  Sound(Merge(a, b))
<1>1. a \in Entry /\ b \in Entry
  BY DEF Sound
<1>2. /\ a.free \in Nat /\ b.free \in Nat /\ Units(a) = a.free /\ Units(b) = b.free
      /\ a.st \in Nat /\ a.ed \in Nat /\ b.ed \in Nat /\ b.ed <= blk_ed
  BY <1>1, EntryIs DEF Units
<1>3. Units(Merge(a, b)) = a.free + b.free
  BY <1>1, <1>2, MergedIsEntry DEF Units
<1>4. b.st < b.ed
  BY SoundIsLong
<1>5. a.ed = a.st + a.free * ext_size
  BY <1>2, <1>4, ExtentGeometry DEF Sound
<1>6. /\ a.free * ext_size \in Nat /\ b.free * ext_size \in Nat /\ ext_size \in Nat
      /\ (a.free + b.free) * ext_size = a.free * ext_size + b.free * ext_size
  BY <1>2, Products
<1>7. /\ b.st + b.free * ext_size <= b.ed /\ b.ed < b.st + b.free * ext_size + ext_size
      /\ b.ed = b.st + b.free * ext_size \/ b.ed = blk_ed
      /\ a.junk = 0
  BY <1>2 DEF Sound
<1>8. /\ a.st + (a.free + b.free) * ext_size <= b.ed
      /\ b.ed < a.st + (a.free + b.free) * ext_size + ext_size
      /\ b.ed = a.st + (a.free + b.free) * ext_size \/ b.ed = blk_ed
  BY <1>2, <1>5, <1>6, <1>7
<1> QED BY <1>1, <1>3, <1>7, <1>8, MergedIsEntry DEF Sound

\* s without its last element.
LEMMA FrontIs ==
    ASSUME NEW S, NEW s \in Seq(S), Len(s) >= 1
    PROVE  /\ Front(s) \in Seq(S) /\ Len(Front(s)) = Len(s) - 1
           /\ \A k \in 1 .. Len(s) - 1 : Front(s)[k] = s[k]
<1>0. Len(s) \in Nat /\ \A k \in 1 .. Len(s) : s[k] \in S
  BY LenProperties, ElementOfSeq
<1>1. /\ 1 \in Int /\ Len(s) - 1 \in Int /\ \A k \in 1 .. Len(s) - 1 : s[k] \in S
  BY <1>0
<1>2. /\ Front(s) \in Seq(S)
      /\ Len(Front(s)) = IF 1 <= Len(s) - 1 THEN (Len(s) - 1) - 1 + 1 ELSE 0
      /\ \A k \in 1 .. (Len(s) - 1) - 1 + 1 : Front(s)[k] = s[1 + k - 1]
  BY <1>1, SubSeqProperties DEF Front
<1>3. \A n \in Nat : n >= 1 =>
        /\ (IF 1 <= n - 1 THEN (n - 1) - 1 + 1 ELSE 0) = n - 1
        /\ (n - 1) - 1 + 1 = n - 1 /\ \A k \in 1 .. n - 1 : 1 + k - 1 = k
  OBVIOUS
<1>4. Len(Front(s)) = Len(s) - 1
  BY <1>0, <1>2, <1>3
<1>5. \A k \in 1 .. Len(s) - 1 : Front(s)[k] = s[k]
  BY <1>0, <1>2, <1>3
<1> QED BY <1>2, <1>4, <1>5

\* s with x before it, and without its first element.
LEMMA PushedIs ==
    ASSUME NEW S, NEW s \in Seq(S), NEW x \in S
    PROVE  LET t == <<x>> \o s
           IN  /\ t \in Seq(S) /\ Len(t) = 1 + Len(s) /\ t[1] = x
               /\ \A k \in 1 .. Len(s) : t[k + 1] = s[k]
<1>1. <<x>> \in Seq(S) /\ Len(<<x>>) = 1
  OBVIOUS
<1>2. /\ (<<x>> \o s) \in Seq(S) /\ Len(<<x>> \o s) = Len(<<x>>) + Len(s)
      /\ \A i \in 1 .. Len(<<x>>) + Len(s) :
           (<<x>> \o s)[i] = IF i <= Len(<<x>>) THEN <<x>>[i] ELSE s[i - Len(<<x>>)]
  BY <1>1, ConcatProperties
<1>3. Len(s) \in Nat /\ <<x>>[1] = x
  BY LenProperties
<1> QED BY <1>1, <1>2, <1>3

\* s with its last element replaced by x.
LEMMA LastReplaced ==
    ASSUME NEW S, NEW s \in Seq(S), Len(s) >= 1, NEW x \in S
    PROVE  LET t == Append(Front(s), x)
           IN  /\ t \in Seq(S) /\ Len(t) = Len(s) /\ t[Len(s)] = x
               /\ \A k \in 1 .. Len(s) - 1 : t[k] = s[k]
<1>1. Len(s) \in Nat /\ \A k \in 1 .. Len(s) : s[k] \in S
  BY LenProperties, ElementOfSeq
<1>2. /\ Front(s) \in Seq(S) /\ Len(Front(s)) = Len(s) - 1
      /\ \A k \in 1 .. Len(s) - 1 : Front(s)[k] = s[k]
  BY FrontIs
<1> QED BY <1>1, <1>2, AppendProperties

\* What the pass takes of an extent: itself, or freed if it is junk; and what
\* it merges with the last.
Taken(e) == IF e.junk = 0 THEN e ELSE Freed(e)
Merged(acc, e) == IF acc.absorb /\ e.free > 0 THEN e ELSE Taken(e)

\* What the pass makes of one more extent: it appends it, or merges it with
\* the last.
LEMMA SweepOne ==
    ASSUME NEW acc, NEW e \in Entry, acc.absorb => acc.done # <<>>,
           NEW new, new = SweepExtent(acc, e)
    PROVE  \/ new.done = Append(acc.done, Taken(e)) /\ (new.absorb => Taken(e).free > 0)
           \/ /\ acc.done # <<>> /\ (acc.absorb \/ Last(acc.done).free > 0)
              /\ e.free > 0 \/ e.junk # 0
              /\ new.absorb = FALSE
              /\ new.done = Append(Front(acc.done), Merge(Last(acc.done), Merged(acc, e)))
<1>1. CASE acc.absorb /\ e.free > 0
  BY <1>1 DEF SweepExtent, Merged
<1>2. CASE ~(acc.absorb /\ e.free > 0) /\ e.junk = 0
  <2>1. new = [done |-> Append(acc.done, e), absorb |-> FALSE]
    BY <1>2 DEF SweepExtent
  <2> QED BY <1>2, <2>1 DEF Taken
<1>3. CASE ~(acc.absorb /\ e.free > 0) /\ e.junk # 0 /\ EndsFree(acc.done)
  <2>1. new = [done |-> Append(Front(acc.done), Merge(Last(acc.done), Freed(e))),
               absorb |-> FALSE]
    BY <1>3 DEF SweepExtent, Freed
  <2> QED BY <1>3, <2>1 DEF EndsFree, Taken, Merged
<1>4. CASE ~(acc.absorb /\ e.free > 0) /\ e.junk # 0 /\ ~EndsFree(acc.done)
  <2>1. new = [done |-> Append(acc.done, Freed(e)), absorb |-> TRUE]
    BY <1>4 DEF SweepExtent, Freed
  <2> QED BY <1>4, <2>1, FreedIsEntry DEF Taken
<1> QED BY <1>1, <1>2, <1>3, <1>4

\* The pass over a node leaves no more extents than there were, and not none.
LEMMA SweepFits ==
    ASSUME NEW s \in Seq(Entry), Len(s) >= 1
    PROVE  Sweep(s) \in Seq(Entry) /\ Len(Sweep(s)) \in 1 .. Len(s)
<1> DEFINE n == Len(s)
<1>1. n \in Nat /\ n \in 1 .. n /\ \A k \in 1 .. n : s[k] \in Entry
  BY LenProperties, ElementOfSeq
<1>2. PICK F : /\ F[0] = Blank
               /\ \A k \in 1 .. n : F[k] = SweepExtent(F[k - 1], s[k])
               /\ Sweep(s) = F[n].done
  BY SweepSteps
<1> DEFINE Good == {k \in 1 .. n : F[k].done \in Seq(Entry) /\ Len(F[k].done) \in 1 .. k}
<1>3. ASSUME NEW k \in 1 .. n, k = 1 \/ k - 1 \in Good PROVE k \in Good
  <2> DEFINE acc == F[k - 1]
             e == s[k]
             new == F[k]
             b == Taken(e)
             a == Last(acc.done)
             c == Merged(acc, e)
  <2>1. acc.done \in Seq(Entry) /\ Len(acc.done) \in 0 .. k - 1
        /\ (acc.absorb => acc.done # <<>>)
    <3>1. CASE k = 1
      <4>1. acc = Blank
        BY <1>2, <3>1
      <4>2. acc.done = <<>> /\ acc.absorb = FALSE
        BY <4>1 DEF Blank
      <4> QED BY <3>1, <4>2, EmptySeq
    <3>2. CASE k - 1 \in Good
      <4>1. acc.done \in Seq(Entry) /\ Len(acc.done) \in 1 .. k - 1
        BY <3>2
      <4>2. acc.done # <<>>
        BY <4>1, EmptySeq
      <4> QED BY <4>1, <4>2
    <3> QED BY <1>3, <3>1, <3>2
  <2>2. e \in Entry /\ b \in Entry /\ c \in Entry
    BY <1>1, FreedIsEntry DEF Taken, Merged
  <2>3. new = SweepExtent(acc, e)
    BY <1>2
  <2>4. \/ new.done = Append(acc.done, b)
        \/ acc.done # <<>> /\ new.done = Append(Front(acc.done), Merge(a, c))
    BY <2>1, <2>2, <2>3, SweepOne
  <2> HIDE DEF acc, e, new, b, a, c
  <2>5. CASE new.done = Append(acc.done, b)
    <3>1. new.done \in Seq(Entry) /\ Len(new.done) = Len(acc.done) + 1
      BY <2>1, <2>2, <2>5, AppendProperties
    <3>2. Len(new.done) \in 1 .. k
      BY <2>1, <3>1
    <3> QED BY <3>1, <3>2 DEF new
  <2>6. CASE acc.done # <<>> /\ new.done = Append(Front(acc.done), Merge(a, c))
    <3>1. Len(acc.done) >= 1 /\ Len(acc.done) \in 1 .. Len(acc.done)
      BY <2>1, <2>6, EmptySeq
    <3>2. a \in Entry
      BY <2>1, <3>1, ElementOfSeq DEF a, Last
    <3>3. new.done \in Seq(Entry) /\ Len(new.done) = Len(acc.done)
      BY <2>1, <2>2, <2>6, <3>1, <3>2, MergedIsEntry, LastReplaced
    <3>4. Len(new.done) \in 1 .. k
      BY <2>1, <3>1, <3>3
    <3> QED BY <3>3, <3>4 DEF new
  <2> QED BY <2>4, <2>5, <2>6
<1>4. \A k \in 1 .. n : k \in Good
  <2> HIDE DEF Good
  <2> QED BY <1>1, <1>3, UpTo
<1> QED BY <1>1, <1>2, <1>4
(***************************************************************************)
(* Nodes, and a store with one node replaced.                              *)
(***************************************************************************)
SetEnts(node, ents) == [node EXCEPT !.ents = ents]
SetNext(node, i) == [node EXCEPT !.next = i]
SetPrev(node, i) == [node EXCEPT !.prev = i]
Put(T, i, x) == [T EXCEPT ![i] = x]

\* A node with extents, and fewer than its arrays hold.
Fit(node) == node \in Node /\ Len(node.ents) \in 1 .. Ext_Node_Degree - 1

Nodes(T) ==
    /\ T \in [Id -> Node \cup {Null}]
    /\ \A i \in Id : T[i] # Null => Fit(T[i])

\* The degree of a node.
LEMMA Degree ==
    /\ H \in Nat \ {0} /\ Ext_Node_Degree = 2 * H /\ Ext_Node_Degree \in Nat
    /\ H \in 1 .. Ext_Node_Degree - 1
BY ExtentGeometry DEF H, Ext_Node_Degree

\* A node with other extents.
LEMMA EntsSet ==
    ASSUME NEW node \in Node, NEW ents \in Seq(Entry)
    PROVE  LET new == SetEnts(node, ents)
           IN  new \in Node /\ new.ents = ents /\ new.prev = node.prev /\ new.next = node.next
BY DEF Node, SetEnts

\* A node with another successor.
LEMMA NextSet ==
    ASSUME NEW node \in Node, NEW i \in 0 .. MaxId
    PROVE  LET new == SetNext(node, i)
           IN  new \in Node /\ new.ents = node.ents /\ new.prev = node.prev /\ new.next = i
BY DEF Node, SetNext

\* A node with another predecessor.
LEMMA PrevSet ==
    ASSUME NEW node \in Node, NEW i \in 0 .. MaxId
    PROVE  LET new == SetPrev(node, i)
           IN  new \in Node /\ new.ents = node.ents /\ new.prev = i /\ new.next = node.next
BY DEF Node, SetPrev

\* What is known of a node that fits.
LEMMA FitIs ==
    ASSUME NEW node, Fit(node)
    PROVE  /\ node \in Node /\ node # Null /\ node.ents \in Seq(Entry) /\ Len(node.ents) \in Nat
           /\ Len(node.ents) >= 1 /\ Len(node.ents) < Ext_Node_Degree
           /\ node.next \in 0 .. MaxId /\ node.prev \in 0 .. MaxId
<1>1. node \in Node /\ Len(node.ents) \in 1 .. Ext_Node_Degree - 1
  BY DEF Fit
<1>2. node # Null /\ node.ents \in Seq(Entry) /\ node.next \in 0 .. MaxId /\ node.prev \in 0 .. MaxId
  BY <1>1, NullIsNoNode DEF Node
<1> QED BY <1>1, <1>2, Degree

\* A node put in its place in the store, or removed.
LEMMA NodesPut ==
    ASSUME NEW T, Nodes(T), NEW i \in Id, NEW x, x = Null \/ Fit(x)
    PROVE  /\ Nodes(Put(T, i, x)) /\ Put(T, i, x)[i] = x
           /\ \A j \in Id \ {i} : Put(T, i, x)[j] = T[j]
BY FitIs DEF Nodes, Put

\* read_by_obj_id of an allocated or free id.
LEMMA NodesRead ==
    ASSUME NEW T, NEW i \in Id
    PROVE  Read(T, i).id = i /\ Read(T, i).node = T[i] /\ Read(T, i) = [id |-> i, node |-> T[i]]
BY DEF Read

\* The null pointer.
LEMMA NobodyIs ==
    Nobody.id = 0 /\ Nobody.node = Null /\ Count(Nobody) = 0
BY DEF Nobody, Count
\* With the store in place, a change made through a pointer is a write.
LEMMA Poked ==
    ASSUME InPlace, NEW T, NEW i, NEW x, x # Null
    PROVE  LET c == [id |-> i, node |-> x]
           IN  Poke(T, c) = Put(T, i, x) /\ Write(T, c) = Put(T, i, x)
BY DEF Poke, Write, Put

(***************************************************************************)
(* GC is at the k-th node: it holds that node and its neighbours as the    *)
(* store has them.                                                         *)
(***************************************************************************)
At(before, this, after, T, p, n, k) ==
    /\ this = Read(T, p[k])
    /\ before = IF k = 1 THEN Nobody ELSE Read(T, p[k - 1])
    /\ after = IF k = n THEN Nobody ELSE Read(T, p[k + 1])

Busy(l) == l \in {"sweep", "balance", "advance"}

CInv ==
    /\ Nodes(store)
    /\ held \in [File -> Desc \cup {NoFile}]
    /\ pc \in {"idle", "sweep", "balance", "advance", "crashed"}
    /\ pc = "balance" => Len(cur.node.ents) < H
    /\ \E p, n :
         /\ Chain(store, p, n)
         /\ Busy(pc) => \E k \in 1 .. n : At(prev, cur, next, store, p, n, k)

\* What GC holds.
LEMMA AtIs ==
    ASSUME NEW T, Nodes(T), NEW p, NEW n, Chain(T, p, n), NEW k \in 1 .. n,
           NEW before, NEW this, NEW after, At(before, this, after, T, p, n, k)
    PROVE  /\ this.id = p[k] /\ p[k] \in Id /\ this.node = T[p[k]] /\ Fit(T[p[k]])
           /\ this = [id |-> p[k], node |-> T[p[k]]]
           /\ k = 1 => before = Nobody /\ before.node = Null
           /\ k # 1 => /\ p[k - 1] \in Id /\ before.id = p[k - 1] /\ before.node = T[p[k - 1]]
                       /\ Fit(T[p[k - 1]]) /\ p[k - 1] # p[k]
                       /\ before = [id |-> p[k - 1], node |-> T[p[k - 1]]]
           /\ k = n => after = Nobody /\ after.node = Null /\ T[p[k]].next = 0
           /\ k # n => /\ p[k + 1] \in Id /\ after.id = p[k + 1] /\ after.node = T[p[k + 1]]
                       /\ Fit(T[p[k + 1]]) /\ p[k + 1] # p[k] /\ T[p[k]].next = p[k + 1]
                       /\ after = [id |-> p[k + 1], node |-> T[p[k + 1]]]
<1>1. p[k] \in Id /\ Fit(T[p[k]])
  BY NodesOfChain DEF Nodes
<1>2. this = [id |-> p[k], node |-> T[p[k]]] /\ this.id = p[k] /\ this.node = T[p[k]]
  BY <1>1, NodesRead DEF At
<1>3. k = 1 => before = Nobody /\ before.node = Null
  BY NobodyIs DEF At
<1>4. ASSUME k # 1
      PROVE  /\ p[k - 1] \in Id /\ before.id = p[k - 1] /\ before.node = T[p[k - 1]]
             /\ Fit(T[p[k - 1]]) /\ p[k - 1] # p[k]
             /\ before = [id |-> p[k - 1], node |-> T[p[k - 1]]]
  <2>1. k - 1 \in 1 .. n /\ p[k - 1] # p[k]
    <3>1. k - 1 \in 1 .. n - 1 /\ p[k - 1] # p[k] /\ n \in Nat
      BY <1>4, NodesOfChain DEF Chain
    <3> QED BY <3>1
  <2>2. p[k - 1] \in Id /\ Fit(T[p[k - 1]])
    BY <2>1, NodesOfChain DEF Nodes
  <2> QED BY <1>4, <2>1, <2>2, NodesRead DEF At
<1>5. k = n => after = Nobody /\ after.node = Null /\ T[p[k]].next = 0
  BY NobodyIs, NodesOfChain DEF At
<1>6. ASSUME k # n
      PROVE  /\ p[k + 1] \in Id /\ after.id = p[k + 1] /\ after.node = T[p[k + 1]]
             /\ Fit(T[p[k + 1]]) /\ p[k + 1] # p[k] /\ T[p[k]].next = p[k + 1]
             /\ after = [id |-> p[k + 1], node |-> T[p[k + 1]]]
  <2>1. k + 1 \in 1 .. n /\ p[k + 1] # p[k] /\ T[p[k]].next = p[k + 1]
    BY <1>6, NodesOfChain
  <2>2. p[k + 1] \in Id /\ Fit(T[p[k + 1]])
    BY <2>1, NodesOfChain DEF Nodes
  <2> QED BY <1>6, <2>1, <2>2, NodesRead DEF At
<1> QED BY <1>1, <1>2, <1>3, <1>4, <1>5, <1>6

\* The node after the k-th, read through a pointer to the k-th.
LEMMA FollowingIs ==
    ASSUME NEW T, NEW p, NEW n, Chain(T, p, n), NEW k \in 1 .. n,
           NEW c, c.node = T[p[k]]
    PROVE  Following(T, c) = IF k = n THEN Nobody ELSE Read(T, p[k + 1])
<1>1. CASE k = n
  <2>1. c.node.next = 0
    BY <1>1, NodesOfChain
  <2> QED BY <1>1, <2>1, IdIsFinite DEF Following, Read
<1>2. CASE k # n
  BY <1>2, NodesOfChain DEF Following
<1> QED BY <1>1, <1>2

\* A node whose extents change is where it was in the chain, and who reads
\* the others reads what was there.
LEMMA EntsPut ==
    ASSUME NEW T, Nodes(T), NEW p, NEW n, Chain(T, p, n), NEW k \in 1 .. n,
           NEW ents \in Seq(Entry), Len(ents) \in 1 .. Ext_Node_Degree - 1,
           NEW V, V = Put(T, p[k], SetEnts(T[p[k]], ents))
    PROVE  /\ Nodes(V) /\ Chain(V, p, n) /\ SameChain(T, V)
           /\ V[p[k]] = SetEnts(T[p[k]], ents) /\ V[p[k]].ents = ents
           /\ Read(V, p[k]) = [id |-> p[k], node |-> SetEnts(T[p[k]], ents)]
           /\ \A j \in Id \ {p[k]} : V[j] = T[j] /\ Read(V, j) = Read(T, j)
<1> DEFINE x == SetEnts(T[p[k]], ents)
<1>1. p[k] \in Id /\ T[p[k]] # Null /\ T[p[k]] \in Node
  BY NodesOfChain, FitIs DEF Nodes
<1>2. x \in Node /\ x.ents = ents /\ x.next = T[p[k]].next
  BY <1>1, EntsSet
<1> HIDE DEF x
<1>3. Fit(x) /\ x # Null
  BY <1>2, NullIsNoNode DEF Fit
<1>4. V = Put(T, p[k], x)
  BY DEF x
<1>5. Nodes(V) /\ V[p[k]] = x /\ \A j \in Id \ {p[k]} : V[j] = T[j]
  BY <1>1, <1>3, <1>4, NodesPut
<1>6. SameChain(T, V)
  BY <1>1, <1>2, <1>3, <1>5 DEF SameChain
<1>7. Chain(V, p, n)
  BY <1>6, SameIsChain
<1>8. \A j \in Id : Read(V, j) = [id |-> j, node |-> V[j]] /\ Read(T, j) = [id |-> j, node |-> T[j]]
  BY NodesRead
<1>9. V[p[k]].ents = ents /\ Read(V, p[k]) = [id |-> p[k], node |-> x]
  BY <1>1, <1>2, <1>5, <1>8
<1>10. \A j \in Id \ {p[k]} : V[j] = T[j] /\ Read(V, j) = Read(T, j)
  BY <1>5, <1>8
<1> QED BY <1>5, <1>6, <1>7, <1>9, <1>10 DEF x

(***************************************************************************)
(* GC keeps the chain.  One lemma per action; each says that the chain is  *)
(* there after the step and where GC is in it.                             *)
(***************************************************************************)

\* The extents of the node after the a-th have moved to the a-th, which is
\* linked to the node after that.
Taker(T, p, a) == SetNext(SetEnts(T[p[a]], T[p[a]].ents \o T[p[a + 1]].ents), p[a + 2])
Beyond(T, p, a) == SetPrev(T[p[a + 2]], p[a])
MergedStore(T, p, a) ==
    Put(Put(Put(T, p[a], Taker(T, p, a)), p[a + 2], Beyond(T, p, a)), p[a + 1], Null)

\* A node's extents after the first unit of its i-th has been handed out.
Handed(old, i) ==
    IF old[i].free = 1 THEN [old EXCEPT ![i].free = 0]
    ELSE ReplaceBy(old, i, Split(old[i]))

SetFree(e, free) == [e EXCEPT !.free = free]
SetJunk(e, junk) == [e EXCEPT !.junk = junk]

\* What may happen to the store: a node's extents are replaced; two nodes
\* become one; one becomes two.
Rewritten(i, ents) == store' = Put(store, i, SetEnts(store[i], ents))

Swept ==
    \E i \in Id : store[i] # Null /\ Rewritten(i, Sweep(store[i].ents))

BorrowedNext ==
    \E i, j \in Id :
      /\ i # j /\ store[i] # Null /\ store[j] # Null /\ store[i].next = j
      /\ Len(store[j].ents) > 1
      /\ LET first == Head(store[j].ents)
             mid   == Put(store, i, SetEnts(store[i], Append(store[i].ents, first)))
         IN  store' = Put(mid, j, SetEnts(store[j], Tail(store[j].ents)))

MergedNodes ==
    \/ store' = store
    \/ \E p, n : /\ Chain(store, p, n)
                 /\ \E a \in 1 .. n - 1 : a + 1 # n /\ store' = MergedStore(store, p, a)

HandedFrom(f, i, k) ==
    LET old  == store[i].ents
        ents == Handed(old, k)
    IN  /\ store[i] # Null /\ old[k].free > 0
        /\ held' = [held EXCEPT ![f] = [st |-> ents[k].st, ed |-> ents[k].ed]]
        /\ \/ Rewritten(i, ents)
           \/ /\ Len(ents) = Ext_Node_Degree /\ FreeId # {}
              /\ store' = SplitNode(i, SetEnts(store[i], ents))

HandedOut(f) ==
    \E i \in Id : \E k \in 1 .. Len(store[i].ents) : HandedFrom(f, i, k)

PutBack(f, junk) ==
    \/ store' = store
    \/ \E i \in Id : \E k \in 1 .. Len(store[i].ents) :
         LET old == store[i].ents
         IN  /\ store[i] # Null /\ old[k].st = held[f].st
             /\ Rewritten(i, [old EXCEPT ![k] = SetJunk(old[k], junk)])

\* CInv with a chain and a place in it.
LEMMA Placed ==
    ASSUME CInv, Busy(pc)
    PROVE  \E p, n : Chain(store, p, n) /\ \E k \in 1 .. n : At(prev, cur, next, store, p, n, k)
BY DEF CInv

\* GC begins at the head.
LEMMA StartKeeps ==
    ASSUME InPlace, CInv, GCStart
    PROVE  CInv' /\ store' = store /\ held' = held
<1>1. PICK p, n : Chain(store, p, n)
  BY DEF CInv
<1>2. /\ n \in Nat \ {0} /\ 1 \in 1 .. n /\ p[1] = head /\ head \in Id
  BY <1>1, IdIsFinite DEF Chain
<1>3. /\ cur' = Read(store, head) /\ prev' = Nobody /\ next' = Following(store, cur')
      /\ store' = store /\ held' = held /\ pc' = "sweep"
  BY DEF GCStart
<1>4. cur'.node = store[p[1]]
  BY <1>2, <1>3, NodesRead
<1>5. next' = IF 1 = n THEN Nobody ELSE Read(store, p[1 + 1])
  BY <1>1, <1>2, <1>3, <1>4, FollowingIs
<1>6. At(prev', cur', next', store, p, n, 1)
  BY <1>2, <1>3, <1>5 DEF At
<1>7. Chain(store', p, n) /\ \E k \in 1 .. n : At(prev', cur', next', store', p, n, k)
  BY <1>1, <1>2, <1>3, <1>6
<1> QED BY <1>3, <1>7 DEF CInv

\* The pass over the node changes its extents only.
LEMMA SweepKeeps ==
    ASSUME InPlace, CInv, GCSweep
    PROVE  CInv' /\ Swept /\ held' = held
<1>1. PICK p, n : Chain(store, p, n) /\ \E k \in 1 .. n : At(prev, cur, next, store, p, n, k)
  BY Placed DEF GCSweep, Busy
<1>2. PICK k \in 1 .. n : At(prev, cur, next, store, p, n, k)
  BY <1>1
<1>3. Nodes(store)
  BY DEF CInv
<1> DEFINE node == store[p[k]]
           ents == Sweep(node.ents)
           new == SetEnts(node, ents)
<1>4. p[k] \in Id /\ cur = [id |-> p[k], node |-> node] /\ Fit(node)
  BY <1>1, <1>2, <1>3, AtIs
<1>5. ents \in Seq(Entry) /\ Len(ents) \in 1 .. Ext_Node_Degree - 1
  <2>1. node.ents \in Seq(Entry) /\ Len(node.ents) >= 1 /\ Len(node.ents) < Ext_Node_Degree
        /\ Len(node.ents) \in Nat
    BY <1>4, FitIs
  <2>2. ents \in Seq(Entry) /\ Len(ents) \in 1 .. Len(node.ents)
    BY <2>1, SweepFits
  <2> QED BY <2>1, <2>2, Degree
<1>6. cur' = [id |-> p[k], node |-> new]
  <2>1. cur' = [cur EXCEPT !.node.ents = Sweep(@)]
    BY DEF GCSweep
  <2> QED BY <1>4, <2>1 DEF SetEnts
<1>7. new # Null /\ new.ents = ents
  BY <1>4, <1>5, FitIs, EntsSet, NullIsNoNode
<1> HIDE DEF new, ents
<1>8. store' = Put(store, p[k], new)
  BY <1>6, <1>7, Poked DEF GCSweep
<1>9. /\ Nodes(store') /\ Chain(store', p, n) /\ Read(store', p[k]) = [id |-> p[k], node |-> new]
      /\ \A j \in Id \ {p[k]} : Read(store', j) = Read(store, j)
  BY <1>1, <1>3, <1>5, <1>8, EntsPut DEF new
<1>10. At(prev', cur', next', store', p, n, k)
  <2>1. prev' = prev /\ next' = next
    BY DEF GCSweep
  <2>2. k # 1 => p[k - 1] \in Id \ {p[k]}
    BY <1>1, <1>2, <1>3, AtIs
  <2>3. k # n => p[k + 1] \in Id \ {p[k]}
    BY <1>1, <1>2, <1>3, AtIs
  <2> QED BY <1>2, <1>6, <1>9, <2>1, <2>2, <2>3 DEF At
<1>11. pc' = (IF Count(cur') < H THEN "balance" ELSE "advance") /\ held' = held
  BY DEF GCSweep
<1>12. Count(cur') = Len(cur'.node.ents)
  BY <1>6, <1>7 DEF Count
<1>13. CInv'
  BY <1>9, <1>10, <1>11, <1>12 DEF CInv
<1>14. Swept
  BY <1>4, <1>8, FitIs DEF Swept, Rewritten, new, ents
<1> QED BY <1>11, <1>13, <1>14

\* Borrowing from the node before takes one of its extents and leaves it some.
LEMMA BorrowPrevKeeps ==
    ASSUME InPlace, CInv, GCBorrowPrev
    PROVE  CInv'
<1>1. PICK p, n : Chain(store, p, n) /\ \E k \in 1 .. n : At(prev, cur, next, store, p, n, k)
  BY Placed DEF GCBorrowPrev, Busy
<1>2. PICK k \in 1 .. n : At(prev, cur, next, store, p, n, k)
  BY <1>1
<1>3. Nodes(store)
  BY DEF CInv
<1>4. k # 1
  <2>1. prev # Nobody
    BY NobodyIs, Degree DEF GCBorrowPrev, CanBorrowPrev
  <2> QED BY <1>2, <2>1 DEF At
<1> DEFINE node == store[p[k]]
           left == store[p[k - 1]]
           first == [node.ents[1] EXCEPT !.free = Last(left.ents).free]
           ents == <<first>> \o node.ents
           rest == Front(left.ents)
           new == SetEnts(node, ents)
           short == SetEnts(left, rest)
<1>5. /\ p[k] \in Id /\ cur = [id |-> p[k], node |-> node] /\ Fit(node)
      /\ p[k - 1] \in Id /\ prev = [id |-> p[k - 1], node |-> left] /\ Fit(left)
      /\ p[k - 1] # p[k] /\ prev.node = left
  BY <1>1, <1>2, <1>3, <1>4, AtIs
<1>6. Len(left.ents) > H /\ Len(node.ents) < H
  <2>1. left # Null
    BY <1>5, FitIs
  <2>2. Len(node.ents) < H
    BY <1>5 DEF CInv, GCBorrowPrev
  <2> QED BY <1>5, <2>1, <2>2 DEF GCBorrowPrev, CanBorrowPrev, Count
<1>7. /\ node \in Node /\ node.ents \in Seq(Entry) /\ Len(node.ents) \in Nat /\ Len(node.ents) >= 1
      /\ left \in Node /\ left.ents \in Seq(Entry) /\ Len(left.ents) \in Nat
      /\ Len(left.ents) < Ext_Node_Degree
  BY <1>5, FitIs
<1>8. rest \in Seq(Entry) /\ Len(rest) \in 1 .. Ext_Node_Degree - 1
  <2>1. rest \in Seq(Entry) /\ Len(rest) = Len(left.ents) - 1
    BY <1>6, <1>7, Degree, FrontIs
  <2> QED BY <1>6, <1>7, <2>1, Degree
<1>9. ents \in Seq(Entry) /\ Len(ents) \in 1 .. Ext_Node_Degree - 1
  <2>1. node.ents[1] \in Entry
    BY <1>7, ElementOfSeq
  <2>2. Last(left.ents) \in Entry
    BY <1>6, <1>7, Degree, ElementOfSeq DEF Last
  <2>3. first \in Entry
    BY <2>1, <2>2 DEF Entry
  <2> HIDE DEF first
  <2>4. ents \in Seq(Entry) /\ Len(ents) = 1 + Len(node.ents)
    BY <1>7, <2>3, PushedIs
  <2> QED BY <1>6, <1>7, <2>4, Degree, SMTT(30)
<1>10. cur' = [id |-> p[k], node |-> new] /\ prev' = [id |-> p[k - 1], node |-> short]
  <2>1. /\ cur' = [cur EXCEPT !.node.ents =
                     << [cur.node.ents[1] EXCEPT !.free = Last(prev.node.ents).free] >> \o cur.node.ents]
        /\ prev' = [prev EXCEPT !.node.ents = Front(@)]
    BY DEF GCBorrowPrev
  <2> QED BY <1>5, <2>1 DEF SetEnts
<1>11. new # Null /\ short # Null
  <2> HIDE DEF ents, rest
  <2>1. new \in Node
    BY <1>7, <1>9, EntsSet
  <2>2. short \in Node
    BY <1>7, <1>8, EntsSet
  <2> QED BY <2>1, <2>2, NullIsNoNode
<1> HIDE DEF new, short, ents, rest
<1> DEFINE mid == Put(store, p[k - 1], short)
<1>12. store' = Put(mid, p[k], new)
  <2>1. store' = Poke(Poke(store, prev'), cur')
    BY DEF GCBorrowPrev
  <2> QED BY <1>10, <1>11, <2>1, Poked
<1>13. k - 1 \in 1 .. n
  BY <1>1, <1>4 DEF Chain
<1>14. /\ Nodes(mid) /\ Chain(mid, p, n) /\ Read(mid, p[k - 1]) = [id |-> p[k - 1], node |-> short]
       /\ \A j \in Id \ {p[k - 1]} : mid[j] = store[j] /\ Read(mid, j) = Read(store, j)
  BY <1>1, <1>3, <1>8, <1>13, EntsPut DEF short
<1> HIDE DEF mid
<1>15. mid[p[k]] = node
  BY <1>5, <1>14
<1>16. /\ Nodes(store') /\ Chain(store', p, n) /\ Read(store', p[k]) = [id |-> p[k], node |-> new]
       /\ \A j \in Id \ {p[k]} : Read(store', j) = Read(mid, j)
  BY <1>9, <1>12, <1>14, <1>15, EntsPut DEF new
<1>17. At(prev', cur', next', store', p, n, k)
  <2>1. next' = next
    BY DEF GCBorrowPrev
  <2>2. prev' = Read(store', p[k - 1])
    BY <1>5, <1>10, <1>14, <1>16
  <2>3. ASSUME k # n PROVE Read(store', p[k + 1]) = Read(store, p[k + 1])
    <3>1. p[k + 1] \in Id /\ p[k + 1] # p[k] /\ k + 1 \in 1 .. n
      BY <1>1, <1>2, <2>3, NodesOfChain
    <3>2. p[k + 1] # p[k - 1]
      <4>1. k + 1 # k - 1
        OBVIOUS
      <4> QED BY <1>1, <1>13, <3>1, <4>1 DEF Chain
    <3> QED BY <1>14, <1>16, <3>1, <3>2
  <2> QED BY <1>2, <1>4, <1>10, <1>16, <2>1, <2>2, <2>3 DEF At
<1>18. pc' = "advance" /\ held' = held
  BY DEF GCBorrowPrev
<1> QED BY <1>16, <1>17, <1>18 DEF CInv

\* Two sequences, one after the other, and a sequence without its first
\* element or with one more at its end.
LEMMA JoinedFits ==
    ASSUME NEW s \in Seq(Entry), NEW t \in Seq(Entry)
    PROVE  (s \o t) \in Seq(Entry) /\ Len(s \o t) = Len(s) + Len(t)
BY ConcatProperties

\* Borrowing from the node after takes one of its extents and leaves it some.
LEMMA BorrowNextKeeps ==
    ASSUME InPlace, CInv, GCBorrowNext
    PROVE  CInv' /\ BorrowedNext /\ held' = held
<1>1. PICK p, n : Chain(store, p, n) /\ \E k \in 1 .. n : At(prev, cur, next, store, p, n, k)
  BY Placed DEF GCBorrowNext, Busy
<1>2. PICK k \in 1 .. n : At(prev, cur, next, store, p, n, k)
  BY <1>1
<1>3. Nodes(store)
  BY DEF CInv
<1>4. k # n
  <2>1. next # Nobody
    BY NobodyIs, Degree DEF GCBorrowNext, CanBorrowNext
  <2> QED BY <1>2, <2>1 DEF At
<1> DEFINE node == store[p[k]]
           right == store[p[k + 1]]
           first == Head(right.ents)
           ents == Append(node.ents, first)
           rest == Tail(right.ents)
           new == SetEnts(node, ents)
           short == SetEnts(right, rest)
<1>5. /\ p[k] \in Id /\ cur = [id |-> p[k], node |-> node] /\ Fit(node) /\ cur.node = node
      /\ p[k + 1] \in Id /\ next = [id |-> p[k + 1], node |-> right] /\ Fit(right)
      /\ p[k + 1] # p[k] /\ next.node = right
  BY <1>1, <1>2, <1>3, <1>4, AtIs
<1>6. Len(right.ents) > H /\ Len(node.ents) < H
  <2>1. right # Null
    BY <1>5, FitIs
  <2>2. Len(node.ents) < H
    BY <1>5 DEF CInv, GCBorrowNext
  <2> QED BY <1>5, <2>1, <2>2 DEF GCBorrowNext, CanBorrowNext, Count
<1>7. /\ node \in Node /\ node.ents \in Seq(Entry) /\ Len(node.ents) \in Nat
      /\ right \in Node /\ right.ents \in Seq(Entry) /\ Len(right.ents) \in Nat
      /\ Len(right.ents) < Ext_Node_Degree
  BY <1>5, FitIs
<1>8. /\ rest \in Seq(Entry) /\ Len(rest) \in 1 .. Ext_Node_Degree - 1
      /\ first \in Entry
  <2>1. right.ents # <<>>
    BY <1>6, <1>7, Degree, EmptySeq
  <2>2. rest \in Seq(Entry) /\ Len(rest) = Len(right.ents) - 1 /\ first \in Entry
    BY <1>7, <2>1, HeadTailProperties
  <2> QED BY <1>6, <1>7, <2>2, Degree
<1> HIDE DEF first, rest
<1>9. ents \in Seq(Entry) /\ Len(ents) \in 1 .. Ext_Node_Degree - 1
  <2>1. ents \in Seq(Entry) /\ Len(ents) = Len(node.ents) + 1
    BY <1>7, <1>8, AppendProperties
  <2> QED BY <1>6, <1>7, <2>1, Degree
<1>10. cur' = [id |-> p[k], node |-> new] /\ next' = [id |-> p[k + 1], node |-> short]
  <2>1. /\ cur' = [cur EXCEPT !.node.ents = Append(@, Head(next.node.ents))]
        /\ next' = [next EXCEPT !.node.ents = Tail(@)]
    BY DEF GCBorrowNext
  <2> QED BY <1>5, <2>1 DEF SetEnts, first, rest
<1>11. new # Null /\ short # Null
  <2> HIDE DEF ents, rest
  <2>1. new \in Node
    BY <1>7, <1>9, EntsSet
  <2>2. short \in Node
    BY <1>7, <1>8, EntsSet
  <2> QED BY <2>1, <2>2, NullIsNoNode
<1> HIDE DEF new, short, ents
<1> DEFINE mid == Put(store, p[k], new)
<1>12. store' = Put(mid, p[k + 1], short)
  <2>1. store' = Poke(Poke(store, cur'), next')
    BY DEF GCBorrowNext
  <2> QED BY <1>10, <1>11, <2>1, Poked
<1>13. k + 1 \in 1 .. n
  BY <1>1, <1>4, NodesOfChain
<1>14. /\ Nodes(mid) /\ Chain(mid, p, n) /\ Read(mid, p[k]) = [id |-> p[k], node |-> new]
       /\ \A j \in Id \ {p[k]} : mid[j] = store[j] /\ Read(mid, j) = Read(store, j)
  BY <1>1, <1>3, <1>9, EntsPut DEF new
<1> HIDE DEF mid
<1>15. mid[p[k + 1]] = right
  BY <1>5, <1>14
<1>16. /\ Nodes(store') /\ Chain(store', p, n)
       /\ Read(store', p[k + 1]) = [id |-> p[k + 1], node |-> short]
       /\ \A j \in Id \ {p[k + 1]} : Read(store', j) = Read(mid, j)
  BY <1>8, <1>12, <1>13, <1>14, <1>15, EntsPut DEF short
<1>17. At(prev', cur', next', store', p, n, k)
  <2>1. prev' = prev
    BY DEF GCBorrowNext
  <2>2. cur' = Read(store', p[k])
    BY <1>5, <1>10, <1>14, <1>16
  <2>3. ASSUME k # 1 PROVE Read(store', p[k - 1]) = Read(store, p[k - 1])
    <3>1. p[k - 1] \in Id /\ p[k - 1] # p[k] /\ k - 1 \in 1 .. n
      <4>1. p[k - 1] \in Id /\ p[k - 1] # p[k]
        BY <1>1, <1>2, <1>3, <2>3, AtIs
      <4> QED BY <1>1, <2>3, <4>1 DEF Chain
    <3>2. p[k - 1] # p[k + 1]
      <4>1. k + 1 # k - 1
        OBVIOUS
      <4> QED BY <1>1, <1>13, <3>1, <4>1 DEF Chain
    <3> QED BY <1>14, <1>16, <3>1, <3>2
  <2> QED BY <1>2, <1>4, <1>10, <1>16, <2>1, <2>2, <2>3 DEF At
<1>18. pc' = "advance" /\ held' = held
  BY DEF GCBorrowNext
<1>19. CInv'
  BY <1>16, <1>17, <1>18 DEF CInv
<1>20. BorrowedNext
  <2>1. node # Null /\ right # Null /\ node.next = p[k + 1] /\ Len(right.ents) > 1
    BY <1>1, <1>4, <1>5, <1>6, <1>7, Degree, FitIs, NodesOfChain
  <2>2. store' = Put(Put(store, p[k], SetEnts(node, Append(node.ents, Head(right.ents)))),
                     p[k + 1], SetEnts(right, Tail(right.ents)))
    BY <1>12 DEF mid, new, short, ents, rest, first
  <2> QED BY <1>5, <2>1, <2>2 DEF BorrowedNext
<1> QED BY <1>18, <1>19, <1>20

\* GC goes on to the next node of the chain, or ends.
LEMMA AdvanceKeeps ==
    ASSUME InPlace, CInv, GCAdvance
    PROVE  CInv' /\ store' = store /\ held' = held
<1>1. PICK p, n : Chain(store, p, n) /\ \E k \in 1 .. n : At(prev, cur, next, store, p, n, k)
  BY Placed DEF GCAdvance, Busy
<1>2. PICK k \in 1 .. n : At(prev, cur, next, store, p, n, k)
  BY <1>1
<1>3. Nodes(store)
  BY DEF CInv
<1>4. store' = store
  <2>1. CASE k = 1
    <3>1. prev.node = Null
      BY <1>1, <1>2, <1>3, <2>1, AtIs
    <3> QED BY <3>1 DEF GCAdvance, Write
  <2>2. CASE k # 1
    <3>1. /\ p[k - 1] \in Id /\ prev.id = p[k - 1] /\ prev.node = store[p[k - 1]]
          /\ Fit(store[p[k - 1]])
      BY <1>1, <1>2, <1>3, <2>2, AtIs
    <3>2. store' = [store EXCEPT ![p[k - 1]] = store[p[k - 1]]]
      BY <3>1, FitIs DEF GCAdvance, Write
    <3> QED BY <1>3, <3>1, <3>2 DEF Nodes
  <2> QED BY <2>1, <2>2
<1>5. held' = held
  BY DEF GCAdvance
<1>6. CASE next.node = Null
  <2>1. pc' = "idle"
    BY <1>6 DEF GCAdvance
  <2> QED BY <1>1, <1>3, <1>4, <1>5, <2>1 DEF CInv, Busy
<1>7. CASE next.node # Null
  <2>1. k # n
    BY <1>1, <1>2, <1>3, <1>7, AtIs
  <2>2. k + 1 \in 1 .. n /\ k + 1 # 1 /\ (k + 1) - 1 = k
    BY <1>1, <2>1, NodesOfChain
  <2>3. pc' = "sweep" /\ prev' = cur /\ cur' = next /\ next' = Following(store', cur')
    BY <1>7 DEF GCAdvance
  <2>4. cur = Read(store, p[k]) /\ next = Read(store, p[k + 1])
    BY <1>2, <2>1 DEF At
  <2>5. cur'.node = store[p[k + 1]]
    BY <1>1, <1>2, <1>3, <2>1, <2>3, AtIs
  <2>6. next' = IF k + 1 = n THEN Nobody ELSE Read(store, p[(k + 1) + 1])
    BY <1>1, <1>4, <2>2, <2>3, <2>5, FollowingIs
  <2>7. At(prev', cur', next', store', p, n, k + 1)
    BY <1>4, <2>2, <2>3, <2>4, <2>6 DEF At
  <2> QED BY <1>1, <1>3, <1>4, <1>5, <2>2, <2>3, <2>7 DEF CInv
<1> QED BY <1>6, <1>7

\* Both nodes' extents fit in one.
RoomFor(T, i, j) == Len(T[i].ents) + Len(T[j].ents) < Ext_Node_Degree

\* The node after the a-th, which is not the last, is merged into the a-th.
LEMMA NodesMerged ==
    ASSUME NEW T, Nodes(T), NEW p, NEW n, Chain(T, p, n), NEW a \in 1 .. n - 1, a + 1 # n,
           RoomFor(T, p[a], p[a + 1])
    PROVE  LET V == MergedStore(T, p, a)
           IN  /\ Nodes(V) /\ Chain(V, Without(p, n, a), n - 1)
               /\ Taker(T, p, a) # Null /\ V[p[a]] = Taker(T, p, a)
               /\ Beyond(T, p, a) # Null /\ V[p[a + 2]] = Beyond(T, p, a)
               /\ \A i \in Id \ {p[a], p[a + 1], p[a + 2]} : V[i] = T[i]
<1> DEFINE x == Taker(T, p, a)
           y == Beyond(T, p, a)
           V == MergedStore(T, p, a)
<1>1. a \in 1 .. n /\ a # n /\ a + 1 \in 1 .. n /\ a + 2 \in 1 .. n /\ (a + 1) + 1 = a + 2 /\ n \in Nat
  BY DEF Chain
<1>2. /\ p[a] \in Id /\ p[a + 1] \in Id /\ p[a + 2] \in Id
      /\ p[a] # p[a + 1] /\ p[a + 1] # p[a + 2] /\ p[a] # p[a + 2]
      /\ T[p[a]].next = p[a + 1] /\ T[p[a + 1]].next = p[a + 2]
      /\ T[p[a]] # Null /\ T[p[a + 1]] # Null /\ T[p[a + 2]] # Null
  <2>1. /\ p[a] \in Id /\ p[a + 1] \in Id /\ p[a + 2] \in Id
        /\ T[p[a]] # Null /\ T[p[a + 1]] # Null /\ T[p[a + 2]] # Null
    BY <1>1, NodesOfChain
  <2>2. T[p[a]].next = p[a + 1] /\ p[a + 1] # p[a]
    BY <1>1, NodesOfChain
  <2>3. T[p[a + 1]].next = p[(a + 1) + 1] /\ p[(a + 1) + 1] # p[a + 1]
    BY <1>1, NodesOfChain
  <2>4. a # a + 2
    OBVIOUS
  <2>5. p[a] # p[a + 2]
    BY <1>1, <2>4 DEF Chain
  <2> QED BY <1>1, <2>1, <2>2, <2>3, <2>5
<1>3. Fit(T[p[a]]) /\ Fit(T[p[a + 1]]) /\ Fit(T[p[a + 2]])
  BY <1>2 DEF Nodes
<1> DEFINE ents == T[p[a]].ents \o T[p[a + 1]].ents
           mid == SetEnts(T[p[a]], ents)
<1>4. ents \in Seq(Entry) /\ Len(ents) \in 1 .. Ext_Node_Degree - 1
  <2>1. /\ T[p[a]].ents \in Seq(Entry) /\ Len(T[p[a]].ents) \in Nat /\ Len(T[p[a]].ents) >= 1
        /\ T[p[a + 1]].ents \in Seq(Entry) /\ Len(T[p[a + 1]].ents) \in Nat
    BY <1>3, FitIs
  <2>2. ents \in Seq(Entry) /\ Len(ents) = Len(T[p[a]].ents) + Len(T[p[a + 1]].ents)
    BY <2>1, JoinedFits
  <2> HIDE DEF ents
  <2>3. Len(ents) >= 1 /\ Len(ents) < Ext_Node_Degree /\ Len(ents) \in Nat
    <3>1. PICK l1, l2 : l1 = Len(T[p[a]].ents) /\ l2 = Len(T[p[a + 1]].ents)
      OBVIOUS
    <3>2. l1 + l2 < Ext_Node_Degree
      BY <3>1 DEF RoomFor
    <3>3. l1 \in Nat /\ l1 >= 1 /\ l2 \in Nat /\ Len(ents) = l1 + l2
      BY <2>1, <2>2, <3>1
    <3> QED BY <3>2, <3>3, Degree
  <2>4. \A d, l \in Nat : l >= 1 /\ l < d => l \in 1 .. d - 1
    OBVIOUS
  <2> QED BY <2>2, <2>3, <2>4, Degree
<1>5. Fit(x) /\ x # Null /\ x.next = p[a + 2]
  <2>1. T[p[a]] \in Node /\ p[a + 2] \in 0 .. MaxId
    BY <1>2, <1>3, FitIs, ExtentGeometry DEF Id
  <2> HIDE DEF ents
  <2>2. mid \in Node /\ mid.ents = ents
    BY <1>4, <2>1, EntsSet
  <2>3. x = SetNext(mid, p[a + 2])
    BY DEF ents, Taker
  <2> HIDE DEF mid
  <2>4. x \in Node /\ x.ents = ents /\ x.next = p[a + 2]
    BY <2>1, <2>2, <2>3, NextSet
  <2> QED BY <1>4, <2>4, NullIsNoNode DEF Fit
<1> HIDE DEF ents, mid
<1>6. Fit(y) /\ y # Null /\ y.next = T[p[a + 2]].next
  <2>1. T[p[a + 2]] \in Node /\ p[a] \in 0 .. MaxId
    BY <1>2, <1>3, FitIs, ExtentGeometry DEF Id
  <2>2. y \in Node /\ y.ents = T[p[a + 2]].ents /\ y.next = T[p[a + 2]].next
    BY <2>1, PrevSet DEF Beyond
  <2> QED BY <1>3, <2>2, NullIsNoNode DEF Fit
<1> HIDE DEF x, y
<1> DEFINE T1 == Put(T, p[a], x)
           T2 == Put(T1, p[a + 2], y)
<1>7. Nodes(T1) /\ T1[p[a]] = x /\ \A i \in Id \ {p[a]} : T1[i] = T[i]
  BY <1>2, <1>5, NodesPut
<1> HIDE DEF T1
<1>8. Nodes(T2) /\ T2[p[a + 2]] = y /\ \A i \in Id \ {p[a + 2]} : T2[i] = T1[i]
  BY <1>2, <1>6, <1>7, NodesPut
<1> HIDE DEF T2
<1>9. V = Put(T2, p[a + 1], Null)
  BY DEF T1, T2, x, y, MergedStore
<1> HIDE DEF V
<1>10. Nodes(V) /\ V[p[a + 1]] = Null /\ \A i \in Id \ {p[a + 1]} : V[i] = T2[i]
  BY <1>2, <1>8, <1>9, NodesPut
<1>11. /\ V[p[a]] = x /\ V[p[a + 2]] = y
       /\ \A i \in Id \ {p[a], p[a + 1], p[a + 2]} : V[i] = T[i]
  BY <1>2, <1>7, <1>8, <1>10
<1>12. \A i \in Id \ {p[a], p[a + 1]} :
         (V[i] # Null <=> T[i] # Null) /\ (T[i] # Null => V[i].next = T[i].next)
  BY <1>2, <1>6, <1>11
<1>13. Chain(V, Without(p, n, a), n - 1)
  <2>1. V[p[a]] # Null /\ V[p[a + 1]] = Null /\ V[p[a]].next = T[p[a + 1]].next
    BY <1>2, <1>5, <1>10, <1>11
  <2> QED BY <1>12, <2>1, NodeRemoved
<1> QED BY <1>5, <1>6, <1>10, <1>11, <1>13 DEF x, y, V

\* Merging into the node before takes GC's node out of the chain.
LEMMA MergePrevKeeps ==
    ASSUME InPlace, CInv, GCMergePrev
    PROVE  CInv' /\ MergedNodes /\ held' = held
<1>1. PICK p, n : Chain(store, p, n) /\ \E k \in 1 .. n : At(prev, cur, next, store, p, n, k)
  BY Placed DEF GCMergePrev, Busy
<1>2. PICK k \in 1 .. n : At(prev, cur, next, store, p, n, k)
  BY <1>1
<1>3. Nodes(store) /\ held' = held /\ held \in [File -> Desc \cup {NoFile}]
  BY DEF CInv, GCMergePrev
<1>4. CASE next.node = Null
  <2>1. pc' = "crashed" /\ store' = store
    BY <1>4 DEF GCMergePrev
  <2> QED BY <1>1, <1>3, <2>1 DEF CInv, Busy, MergedNodes
<1>5. CASE next.node # Null
  <2>1. k # n
    BY <1>1, <1>2, <1>3, <1>5, AtIs
  <2>2. k # 1
    <3>1. prev # Nobody
      BY NobodyIs, Degree DEF GCMergePrev, CanMergePrev
    <3> QED BY <1>2, <3>1 DEF At
  <2> DEFINE a == k - 1
             node == store[p[k]]
             left == store[p[k - 1]]
             right == store[p[k + 1]]
             x == Taker(store, p, a)
             y == Beyond(store, p, a)
             q == Without(p, n, a)
  <2>3. /\ a \in 1 .. n - 1 /\ a + 1 = k /\ a + 2 = k + 1 /\ a + 1 # n /\ n - 1 \in Nat \ {0}
        /\ k \in 1 .. n - 1 /\ k # 1 /\ n \in Nat
    BY <1>1, <2>1, <2>2 DEF Chain
  <2>4. /\ cur = [id |-> p[k], node |-> node] /\ p[k] \in Id
        /\ prev = [id |-> p[k - 1], node |-> left] /\ p[k - 1] \in Id
        /\ next = [id |-> p[k + 1], node |-> right] /\ p[k + 1] \in Id
        /\ Fit(left) /\ cur.node = node /\ prev.node = left
    BY <1>1, <1>2, <1>3, <2>1, <2>2, AtIs
  <2>5. Len(left.ents) + Len(node.ents) < Ext_Node_Degree
    <3>1. Len(node.ents) < H
      BY <2>4 DEF CInv, GCMergePrev
    <3>2. left # Null
      BY <2>4, FitIs
    <3>3. Len(left.ents) = H
      BY <2>4, <3>2 DEF GCMergePrev, CanMergePrev, Count
    <3>4. Len(node.ents) \in Nat
      BY <1>1, <1>2, <1>3, AtIs, FitIs
    <3> QED BY <3>1, <3>3, <3>4, Degree
  <2>6. prev' = [id |-> p[k - 1], node |-> x] /\ cur' = [id |-> p[k + 1], node |-> y]
    <3>1. /\ prev' = [prev EXCEPT !.node.ents = @ \o cur.node.ents, !.node.next = next.id]
          /\ cur' = [next EXCEPT !.node.prev = prev.id]
      BY <1>5 DEF GCMergePrev
    <3>2. x = SetNext(SetEnts(left, left.ents \o node.ents), p[k + 1])
          /\ y = SetPrev(right, p[k - 1])
      BY <2>3 DEF Taker, Beyond
    <3> HIDE DEF x, y
    <3> QED BY <2>4, <3>1, <3>2 DEF SetEnts, SetNext, SetPrev
  <2>7. /\ store' = [Poke(Poke(store, prev'), cur') EXCEPT ![cur.id] = Null]
        /\ next' = Following(store', cur') /\ pc' = "advance"
    BY <1>5 DEF GCMergePrev
  <2> DEFINE V == MergedStore(store, p, a)
  <2>8. /\ Nodes(V) /\ Chain(V, q, n - 1)
        /\ x # Null /\ V[p[a]] = x /\ y # Null /\ V[p[a + 2]] = y
    <3>1. RoomFor(store, p[a], p[a + 1])
      BY <2>3, <2>5 DEF RoomFor
    <3> HIDE DEF a
    <3> HIDE DEF V, x, y, q, node
    <3>2. a \in 1 .. n - 1 /\ a + 1 # n
      BY <2>3
    <3>3. LET M == MergedStore(store, p, a)
          IN  /\ Nodes(M) /\ Chain(M, Without(p, n, a), n - 1)
              /\ Taker(store, p, a) # Null /\ M[p[a]] = Taker(store, p, a)
              /\ Beyond(store, p, a) # Null /\ M[p[a + 2]] = Beyond(store, p, a)
              /\ \A i \in Id \ {p[a], p[a + 1], p[a + 2]} : M[i] = store[i]
      BY <1>1, <1>3, <3>1, <3>2, NodesMerged
    <3> QED BY <3>3 DEF V, x, y, q
  <2> HIDE DEF x, y
  <2>9. store' = V
    <3>1. Poke(store, prev') = Put(store, p[k - 1], x)
      BY <2>6, <2>8, Poked
    <3>2. Poke(Put(store, p[k - 1], x), cur') = Put(Put(store, p[k - 1], x), p[k + 1], y)
      BY <2>6, <2>8, Poked
    <3>3. store' = Put(Put(Put(store, p[k - 1], x), p[k + 1], y), p[k], Null)
      BY <2>4, <2>7, <3>1, <3>2 DEF Put
    <3> QED BY <2>3, <3>3 DEF MergedStore, x, y
  <2> HIDE DEF V
  <2>10. q[k] = p[k + 1] /\ q[k - 1] = p[k - 1]
    <3>1. k - 1 \in 1 .. n - 1 /\ k \in 1 .. n - 1 /\ k - 1 <= a /\ ~(k <= a)
      BY <2>3
    <3> QED BY <3>1 DEF Without
  <2> HIDE DEF a, q
  <2>11. store'[q[k]] = y /\ store'[q[k - 1]] = x /\ q[k] \in Id /\ q[k - 1] \in Id
    BY <2>3, <2>4, <2>8, <2>9, <2>10
  <2>12. next' = IF k = n - 1 THEN Nobody ELSE Read(store', q[k + 1])
    <3>1. cur'.node = store'[q[k]]
      BY <2>6, <2>11
    <3>2. Chain(store', q, n - 1) /\ k \in 1 .. n - 1
      BY <2>3, <2>8, <2>9
    <3>3. Following(store', cur') = IF k = n - 1 THEN Nobody ELSE Read(store', q[k + 1])
      BY <3>1, <3>2, FollowingIs
    <3> QED BY <2>7, <3>3
  <2>13. At(prev', cur', next', store', q, n - 1, k)
    <3>1. cur' = Read(store', q[k]) /\ prev' = Read(store', q[k - 1])
      BY <2>6, <2>10, <2>11, NodesRead
    <3> QED BY <2>2, <2>12, <3>1 DEF At
  <2>14. CInv'
    BY <1>3, <2>3, <2>7, <2>8, <2>9, <2>13 DEF CInv
  <2>15. a \in 1 .. n - 1 /\ a + 1 # n /\ store' = MergedStore(store, p, a)
    BY <2>3, <2>9 DEF V, a
  <2>16. MergedNodes
    BY <1>1, <2>15 DEF MergedNodes
  <2> QED BY <1>3, <2>14, <2>16
<1> QED BY <1>4, <1>5

\* Merging the node after takes that one out of the chain.
LEMMA MergeNextKeeps ==
    ASSUME InPlace, CInv, GCMergeNext
    PROVE  CInv' /\ MergedNodes /\ held' = held
<1>1. PICK p, n : Chain(store, p, n) /\ \E k \in 1 .. n : At(prev, cur, next, store, p, n, k)
  BY Placed DEF GCMergeNext, Busy
<1>2. PICK k \in 1 .. n : At(prev, cur, next, store, p, n, k)
  BY <1>1
<1>3. Nodes(store) /\ held' = held /\ held \in [File -> Desc \cup {NoFile}] /\ prev' = prev
  BY DEF CInv, GCMergeNext
<1> DEFINE after == Following(store, next)
<1>4. CASE after.node = Null
  <2>1. pc' = "crashed" /\ store' = store
    BY <1>4 DEF GCMergeNext
  <2> QED BY <1>1, <1>3, <2>1 DEF CInv, Busy, MergedNodes
<1>5. CASE after.node # Null
  <2>1. k # n
    <3>1. next # Nobody
      BY NobodyIs, Degree DEF GCMergeNext, CanMergeNext
    <3> QED BY <1>2, <3>1 DEF At
  <2>2. k + 1 \in 1 .. n
    BY <1>1, <2>1, NodesOfChain
  <2> DEFINE node == store[p[k]]
             right == store[p[k + 1]]
             far == store[p[k + 2]]
             x == Taker(store, p, k)
             y == Beyond(store, p, k)
             q == Without(p, n, k)
  <2>3. /\ cur = [id |-> p[k], node |-> node] /\ p[k] \in Id /\ Fit(node) /\ cur.node = node
        /\ next = [id |-> p[k + 1], node |-> right] /\ p[k + 1] \in Id
        /\ Fit(right) /\ next.node = right
    BY <1>1, <1>2, <1>3, <2>1, AtIs
  <2>4. k + 1 # n /\ after = Read(store, p[k + 2]) /\ right.next = p[k + 2]
    <3>1. after = IF k + 1 = n THEN Nobody ELSE Read(store, p[(k + 1) + 1])
      BY <1>1, <2>2, <2>3, FollowingIs
    <3>2. k + 1 # n
      BY <1>5, <3>1, NobodyIs
    <3>3. right.next = p[(k + 1) + 1]
      BY <1>1, <2>2, <3>2, NodesOfChain
    <3>4. (k + 1) + 1 = k + 2
      OBVIOUS
    <3> QED BY <3>1, <3>2, <3>3, <3>4
  <2>5. /\ k \in 1 .. n - 1 /\ n - 1 \in Nat \ {0} /\ n \in Nat /\ k # n - 1
        /\ k + 2 \in 1 .. n /\ k \in Nat /\ k + 1 \in 1 .. n - 1
    BY <1>1, <2>1, <2>4 DEF Chain
  <2>6. p[k + 2] \in Id /\ after = [id |-> p[k + 2], node |-> far] /\ after.node = far
    <3>1. p[k + 2] \in Id
      BY <1>1, <2>5, NodesOfChain
    <3> QED BY <2>4, <3>1, NodesRead
  <2>7. Len(node.ents) + Len(right.ents) < Ext_Node_Degree
    <3>1. Len(node.ents) < H
      BY <2>3 DEF CInv, GCMergeNext
    <3>2. right # Null /\ Len(node.ents) \in Nat
      BY <2>3, FitIs
    <3>3. Len(right.ents) = H
      BY <2>3, <3>2 DEF GCMergeNext, CanMergeNext, Count
    <3> QED BY <3>1, <3>2, <3>3, Degree
  <2>8. cur' = [id |-> p[k], node |-> x] /\ next' = [id |-> p[k + 2], node |-> y]
    <3>1. /\ cur' = [cur EXCEPT !.node.ents = @ \o next.node.ents, !.node.next = next.node.next]
          /\ next' = [after EXCEPT !.node.prev = cur.id]
      BY <1>5 DEF GCMergeNext
    <3> HIDE DEF after
    <3>2. x = SetNext(SetEnts(node, node.ents \o right.ents), p[k + 2]) /\ y = SetPrev(far, p[k])
      BY DEF Taker, Beyond
    <3> HIDE DEF x, y
    <3>3. cur' = [id |-> p[k], node |-> x]
      <4>1. cur' = [cur EXCEPT !.node.ents = @ \o right.ents, !.node.next = p[k + 2]]
        BY <2>3, <2>4, <3>1
      <4> HIDE DEF right
      <4> QED BY <2>3, <3>2, <4>1 DEF SetEnts, SetNext
    <3>4. next' = [id |-> p[k + 2], node |-> y]
      BY <2>3, <2>6, <3>1, <3>2 DEF SetPrev
    <3> QED BY <3>3, <3>4
  <2>9. /\ store' = [Poke(Poke(store, cur'), next') EXCEPT ![next.id] = Null]
        /\ pc' = "sweep"
    BY <1>5 DEF GCMergeNext
  <2> HIDE DEF after
  <2> DEFINE V == MergedStore(store, p, k)
  <2>10. /\ Nodes(V) /\ Chain(V, q, n - 1)
         /\ x # Null /\ V[p[k]] = x /\ y # Null /\ V[p[k + 2]] = y
         /\ \A i \in Id \ {p[k], p[k + 1], p[k + 2]} : V[i] = store[i]
    <3>1. RoomFor(store, p[k], p[k + 1])
      BY <2>7 DEF RoomFor
    <3> HIDE DEF V, x, y, q, node
    <3>2. k \in 1 .. n - 1 /\ k + 1 # n
      BY <2>4, <2>5
    <3>3. LET M == MergedStore(store, p, k)
          IN  /\ Nodes(M) /\ Chain(M, Without(p, n, k), n - 1)
              /\ Taker(store, p, k) # Null /\ M[p[k]] = Taker(store, p, k)
              /\ Beyond(store, p, k) # Null /\ M[p[k + 2]] = Beyond(store, p, k)
              /\ \A i \in Id \ {p[k], p[k + 1], p[k + 2]} : M[i] = store[i]
      BY <1>1, <1>3, <3>1, <3>2, NodesMerged
    <3> QED BY <3>3 DEF V, x, y, q
  <2> HIDE DEF x, y
  <2>11. store' = V
    <3>1. Poke(store, cur') = Put(store, p[k], x)
      BY <2>8, <2>10, Poked
    <3>2. Poke(Put(store, p[k], x), next') = Put(Put(store, p[k], x), p[k + 2], y)
      BY <2>8, <2>10, Poked
    <3>3. store' = Put(Put(Put(store, p[k], x), p[k + 2], y), p[k + 1], Null)
      BY <2>3, <2>9, <3>1, <3>2 DEF Put
    <3> QED BY <3>3 DEF MergedStore, x, y
  <2> HIDE DEF V
  <2>12. q[k] = p[k] /\ q[k + 1] = p[k + 2] /\ (k # 1 => q[k - 1] = p[k - 1])
    <3>1. ~(k + 1 <= k) /\ (k + 1) + 1 = k + 2 /\ k <= k
          /\ (k # 1 => k - 1 \in 1 .. n - 1 /\ k - 1 <= k)
      BY <2>5
    <3> QED BY <2>5, <3>1 DEF Without
  <2> HIDE DEF q
  <2>13. Read(store', p[k]) = [id |-> p[k], node |-> x]
         /\ Read(store', p[k + 2]) = [id |-> p[k + 2], node |-> y]
    BY <2>3, <2>6, <2>10, <2>11, NodesRead
  <2>14. ASSUME k # 1 PROVE Read(store', p[k - 1]) = Read(store, p[k - 1])
    <3>1. k - 1 \in 1 .. n /\ k - 1 # k /\ k - 1 # k + 1 /\ k - 1 # k + 2
      BY <2>5, <2>14
    <3>2. p[k - 1] \in Id \ {p[k], p[k + 1], p[k + 2]}
      BY <1>1, <2>5, <3>1 DEF Chain
    <3>3. store'[p[k - 1]] = store[p[k - 1]]
      BY <2>10, <2>11, <3>2
    <3> QED BY <3>2, <3>3, NodesRead
  <2>15. At(prev', cur', next', store', q, n - 1, k)
    BY <1>2, <1>3, <2>5, <2>8, <2>12, <2>13, <2>14 DEF At
  <2>16. CInv'
    BY <1>3, <2>5, <2>9, <2>10, <2>11, <2>15 DEF CInv
  <2>17. k + 1 # n /\ store' = MergedStore(store, p, k)
    BY <2>4, <2>11 DEF V
  <2>18. MergedNodes
    BY <1>1, <2>5, <2>17 DEF MergedNodes
  <2> QED BY <1>3, <2>16, <2>18
<1> HIDE DEF after
<1> QED BY <1>4, <1>5

(***************************************************************************)
(* Sequences of extents put together and taken apart.                      *)
(***************************************************************************)
LEMMA Concatenated ==
    ASSUME NEW s \in Seq(Entry), NEW t \in Seq(Entry)
    PROVE  /\ s \o t \in Seq(Entry) /\ Len(s \o t) = Len(s) + Len(t)
           /\ \A k \in 1 .. Len(s) : k \in 1 .. Len(s \o t) /\ (s \o t)[k] = s[k]
           /\ \A k \in 1 .. Len(t) :
                Len(s) + k \in 1 .. Len(s \o t) /\ (s \o t)[Len(s) + k] = t[k]
<1> DEFINE u == s \o t
<1>1. Len(s) \in Nat /\ Len(t) \in Nat
  BY LenProperties
<1>2. /\ u \in Seq(Entry) /\ Len(u) = Len(s) + Len(t)
      /\ \A i \in 1 .. Len(s) + Len(t) : u[i] = IF i <= Len(s) THEN s[i] ELSE t[i - Len(s)]
  BY ConcatProperties
<1>3. \A k \in 1 .. Len(s) : k \in 1 .. Len(s) + Len(t) /\ k <= Len(s)
  BY <1>1
<1>4. \A k \in 1 .. Len(t) : /\ Len(s) + k \in 1 .. Len(s) + Len(t) /\ ~(Len(s) + k <= Len(s))
                             /\ (Len(s) + k) - Len(s) = k
  BY <1>1
<1> HIDE DEF u
<1>5. \A k \in 1 .. Len(s) : k \in 1 .. Len(u) /\ u[k] = s[k]
  BY <1>2, <1>3
<1>6. \A k \in 1 .. Len(t) : Len(s) + k \in 1 .. Len(u) /\ u[Len(s) + k] = t[k]
  BY <1>2, <1>4
<1> QED BY <1>2, <1>5, <1>6 DEF u

\* A part of a sequence of extents.
LEMMA Part ==
    ASSUME NEW s \in Seq(Entry), NEW x \in 1 .. Len(s) + 1, NEW y \in x - 1 .. Len(s),
           NEW t, t = SubSeq(s, x, y)
    PROVE  /\ t \in Seq(Entry) /\ Len(t) = y - x + 1
           /\ \A k \in 1 .. y - x + 1 : t[k] = s[x + k - 1] /\ x + k - 1 \in 1 .. Len(s)
<1>1. Len(s) \in Nat /\ \A k \in 1 .. Len(s) : s[k] \in Entry
  BY LenProperties, ElementOfSeq
<1>2. x \in Int /\ y \in Int /\ \A k \in x .. y : s[k] \in Entry
  BY <1>1
<1>3. /\ t \in Seq(Entry) /\ Len(t) = IF x <= y THEN y - x + 1 ELSE 0
      /\ \A k \in 1 .. y - x + 1 : t[k] = s[x + k - 1]
  BY <1>2, SubSeqProperties, SMTT(30)
<1>4. (IF x <= y THEN y - x + 1 ELSE 0) = y - x + 1
  BY <1>1
<1>5. \A k \in 1 .. y - x + 1 : x + k - 1 \in 1 .. Len(s)
  BY <1>1
<1> QED BY <1>3, <1>4, <1>5

\* Two extents between two sequences.
Joined(a, m, b) == (a \o m) \o b

IsBetween(t, a, m, b) ==
    /\ t \in Seq(Entry) /\ Len(t) = Len(a) + 2 + Len(b)
    /\ \A k \in 1 .. Len(a) : t[k] = a[k]
    /\ t[Len(a) + 1] = m[1] /\ t[Len(a) + 2] = m[2]
    /\ \A k \in 1 .. Len(b) : t[Len(a) + 2 + k] = b[k]

\* Two extents put between two sequences.
LEMMA Between ==
    ASSUME NEW a \in Seq(Entry), NEW b \in Seq(Entry), NEW m \in Seq(Entry), Len(m) = 2
    PROVE  IsBetween(Joined(a, m, b), a, m, b)
<1> DEFINE t == Joined(a, m, b)
<1>2. PICK am : am = a \o m
  OBVIOUS
<1>4. t = am \o b
  BY <1>2 DEF Joined
<1> HIDE DEF t
<1>5. /\ am \in Seq(Entry) /\ Len(am) = Len(a) + Len(m)
      /\ \A k \in 1 .. Len(a) : k \in 1 .. Len(am) /\ am[k] = a[k]
      /\ \A k \in 1 .. Len(m) : Len(a) + k \in 1 .. Len(am) /\ am[Len(a) + k] = m[k]
  BY <1>2, Concatenated, ZenonT(40)
<1>6. /\ t \in Seq(Entry) /\ Len(t) = Len(am) + Len(b)
      /\ \A k \in 1 .. Len(am) : k \in 1 .. Len(t) /\ t[k] = am[k]
      /\ \A k \in 1 .. Len(b) : Len(am) + k \in 1 .. Len(t) /\ t[Len(am) + k] = b[k]
  <2>1. am \in Seq(Entry)
    BY <1>5
  <2>2. /\ am \o b \in Seq(Entry) /\ Len(am \o b) = Len(am) + Len(b)
        /\ \A k \in 1 .. Len(am) : k \in 1 .. Len(am \o b) /\ (am \o b)[k] = am[k]
        /\ \A k \in 1 .. Len(b) :
             Len(am) + k \in 1 .. Len(am \o b) /\ (am \o b)[Len(am) + k] = b[k]
    BY <2>1, Concatenated
  <2> QED BY <1>4, <2>2
<1>7. Len(a) \in Nat /\ Len(b) \in Nat /\ 1 \in 1 .. 2 /\ 2 \in 1 .. 2
  BY LenProperties
<1>8. Len(am) = Len(a) + 2 /\ am[Len(a) + 1] = m[1] /\ am[Len(a) + 2] = m[2]
      /\ Len(a) + 1 \in 1 .. Len(am) /\ Len(a) + 2 \in 1 .. Len(am)
  BY <1>5, <1>7
<1>9. \A k \in 1 .. Len(a) : t[k] = a[k]
  BY <1>5, <1>6
<1>10. t[Len(a) + 1] = m[1] /\ t[Len(a) + 2] = m[2]
  BY <1>6, <1>8
<1>11. Len(t) = Len(a) + 2 + Len(b) /\ \A k \in 1 .. Len(b) : t[Len(a) + 2 + k] = b[k]
  BY <1>6, <1>8
<1>12. IsBetween(t, a, m, b)
  BY <1>6, <1>9, <1>10, <1>11 DEF IsBetween
<1> QED BY <1>12 DEF t

\* s with its i-th element replaced by two.
IsReplaced(t, s, i, x, y) ==
    /\ t \in Seq(Entry) /\ Len(t) = Len(s) + 1
    /\ \A k \in 1 .. i - 1 : t[k] = s[k]
    /\ t[i] = x /\ t[i + 1] = y
    /\ \A k \in i + 1 .. Len(s) : t[k + 1] = s[k]

\* An extent replaced by two, as getNewExt splits one.
LEMMA Replaced ==
    ASSUME NEW s \in Seq(Entry), NEW i \in 1 .. Len(s), NEW x \in Entry, NEW y \in Entry
    PROVE  IsReplaced(ReplaceBy(s, i, <<x, y>>), s, i, x, y)
<1>0. PICK t : t = ReplaceBy(s, i, <<x, y>>)
  OBVIOUS
<1>1. PICK n : n = Len(s)
  OBVIOUS
<1>2. PICK a : a = SubSeq(s, 1, i - 1)
  OBVIOUS
<1>3. PICK b : b = SubSeq(s, i + 1, n)
  OBVIOUS
<1>4. n \in Nat /\ i \in Nat /\ i >= 1 /\ i <= n
  BY <1>1, LenProperties
<1>5. a \in Seq(Entry) /\ Len(a) = i - 1 /\ \A k \in 1 .. i - 1 : a[k] = s[k]
  <2>1. /\ 1 \in 1 .. n + 1 /\ i - 1 \in 1 - 1 .. n /\ (i - 1) - 1 + 1 = i - 1
        /\ \A k \in 1 .. i - 1 : 1 + k - 1 = k
    BY <1>4
  <2>2. /\ a \in Seq(Entry) /\ Len(a) = (i - 1) - 1 + 1
        /\ \A k \in 1 .. (i - 1) - 1 + 1 : a[k] = s[1 + k - 1]
    BY <1>1, <1>2, <2>1, Part
  <2> QED BY <2>1, <2>2
<1>6. b \in Seq(Entry) /\ Len(b) = n - i /\ \A k \in 1 .. n - i : b[k] = s[i + k]
  <2>1. /\ i + 1 \in 1 .. n + 1 /\ n \in (i + 1) - 1 .. n /\ n - (i + 1) + 1 = n - i
        /\ \A k \in 1 .. n - i : (i + 1) + k - 1 = i + k
    BY <1>4
  <2>2. /\ b \in Seq(Entry) /\ Len(b) = n - (i + 1) + 1
        /\ \A k \in 1 .. n - (i + 1) + 1 : b[k] = s[(i + 1) + k - 1]
    BY <1>1, <1>3, <2>1, Part
  <2> QED BY <2>1, <2>2
<1>7. t = (a \o <<x, y>>) \o b
  BY <1>0, <1>1, <1>2, <1>3 DEF ReplaceBy
<1>8. /\ t \in Seq(Entry) /\ Len(t) = Len(a) + 2 + Len(b)
      /\ \A k \in 1 .. Len(a) : t[k] = a[k]
      /\ t[Len(a) + 1] = x /\ t[Len(a) + 2] = y
      /\ \A k \in 1 .. Len(b) : t[Len(a) + 2 + k] = b[k]
  <2>1. PICK m : m = <<x, y>>
    OBVIOUS
  <2>2. m \in Seq(Entry) /\ Len(m) = 2 /\ m[1] = x /\ m[2] = y
    BY <2>1
  <2>3. t = Joined(a, m, b)
    BY <1>7, <2>1 DEF Joined
  <2>4. a \in Seq(Entry) /\ b \in Seq(Entry)
    BY <1>5, <1>6
  <2>5. IsBetween(t, a, m, b)
    BY <2>2, <2>3, <2>4, Between
  <2> QED BY <2>2, <2>5 DEF IsBetween
<1>9. Len(a) + 2 + Len(b) = n + 1 /\ Len(a) + 1 = i /\ Len(a) + 2 = i + 1
  BY <1>4, <1>5, <1>6
<1>10. ASSUME NEW k \in i + 1 .. n PROVE t[k + 1] = s[k]
  <2>1. k - i \in 1 .. n - i /\ (i + 1) + (k - i) = k + 1 /\ i + (k - i) = k
    BY <1>4
  <2>2. t[(i + 1) + (k - i)] = b[k - i]
    BY <1>6, <1>8, <1>9, <2>1
  <2> QED BY <1>6, <2>1, <2>2
<1>11. IsReplaced(t, s, i, x, y)
  BY <1>1, <1>5, <1>8, <1>9, <1>10 DEF IsReplaced
<1> QED BY <1>0, <1>11

(***************************************************************************)
(* The node that getNewExt and putExt work on, and what they make of it.   *)
(***************************************************************************)
LEMMA FirstHit ==
    ASSUME NEW p, NEW n, Chain(store, p, n), NEW hit \in SUBSET (1 .. MaxId), hit # {},
           \A k \in hit : NodeAt[k] # 0
    PROVE  \E a \in hit : /\ NodeAt[CHOOSE k \in hit : \A l \in hit : k <= l] = p[a]
                          /\ NodeAt[a] = p[a] /\ a \in 1 .. n
<1> DEFINE a == CHOOSE k \in hit : \A l \in hit : k <= l
<1>1. hit \in SUBSET Nat
  BY ExtentGeometry
<1>2. a \in hit
  <2>1. \E k \in hit : \A l \in hit : k <= l
    BY <1>1, LeastOf
  <2> QED BY <2>1
<1> HIDE DEF a
<1>3. n \in 1 .. MaxId /\ \A k \in 1 .. MaxId + 1 : NodeAt[k] = IF k <= n THEN p[k] ELSE 0
  BY ChainFits, NodeAtFollows
<1>4. a \in 1 .. MaxId + 1 /\ NodeAt[a] # 0
  BY <1>2, ExtentGeometry
<1>5. NodeAt[a] = p[a] /\ a \in 1 .. n
  BY <1>3, <1>4
<1> QED BY <1>2, <1>5 DEF a

\* The node getNewExt finds is one of the chain and has a free extent.
LEMMA FirstWithFree ==
    ASSUME NEW p, NEW n, Chain(store, p, n), FirstNode(HasFree) # 0
    PROVE  \E a \in 1 .. n : FirstNode(HasFree) = p[a] /\ HasFree(store[p[a]])
<1> DEFINE hit == {k \in 1 .. MaxId : NodeAt[k] # 0 /\ HasFree(store[NodeAt[k]])}
<1>1. FirstNode(HasFree) = IF hit = {} THEN 0
                           ELSE NodeAt[CHOOSE k \in hit : \A l \in hit : k <= l]
  BY DEF FirstNode
<1>2. hit \in SUBSET (1 .. MaxId) /\ \A k \in hit : NodeAt[k] # 0 /\ HasFree(store[NodeAt[k]])
  OBVIOUS
<1> HIDE DEF hit
<1>3. \E a \in hit : /\ NodeAt[CHOOSE k \in hit : \A l \in hit : k <= l] = p[a]
                     /\ NodeAt[a] = p[a] /\ a \in 1 .. n
  BY <1>1, <1>2, FirstHit, ZenonT(40)
<1> QED BY <1>1, <1>2, <1>3

FirstCovering(d) == FirstNode(LAMBDA node : Covers(node, d))

\* The node putExt finds is one of the chain and covers the descriptor.
LEMMA FirstThatCovers ==
    ASSUME NEW p, NEW n, Chain(store, p, n), NEW d, FirstCovering(d) # 0
    PROVE  \E a \in 1 .. n : FirstCovering(d) = p[a] /\ Covers(store[p[a]], d)
<1> DEFINE hit == {k \in 1 .. MaxId : NodeAt[k] # 0 /\ Covers(store[NodeAt[k]], d)}
<1>1. FirstCovering(d) = IF hit = {} THEN 0
                         ELSE NodeAt[CHOOSE k \in hit : \A l \in hit : k <= l]
  BY DEF FirstNode, FirstCovering
<1>2. hit \in SUBSET (1 .. MaxId) /\ \A k \in hit : NodeAt[k] # 0 /\ Covers(store[NodeAt[k]], d)
  OBVIOUS
<1> HIDE DEF hit
<1>3. \E a \in hit : /\ NodeAt[CHOOSE k \in hit : \A l \in hit : k <= l] = p[a]
                     /\ NodeAt[a] = p[a] /\ a \in 1 .. n
  BY <1>1, <1>2, FirstHit, ZenonT(40)
<1> QED BY <1>1, <1>2, <1>3

\* An extent with another counter.
LEMMA FreeSet ==
    ASSUME NEW e \in Entry, NEW free \in Nat
    PROVE  LET new == SetFree(e, free)
           IN  new \in Entry /\ new.free = free /\ new.st = e.st /\ new.ed = e.ed /\ new.junk = e.junk
BY DEF Entry, SetFree

\* An extent marked as junk, or not.
LEMMA JunkSet ==
    ASSUME NEW e \in Entry, NEW junk \in {0, 1}
    PROVE  LET new == SetJunk(e, junk)
           IN  new \in Entry /\ new.free = e.free /\ new.st = e.st /\ new.ed = e.ed /\ new.junk = junk
BY DEF Entry, SetJunk

\* The place where an extent is split is in the channel.
LEMMA CutIs ==
    ASSUME NEW e \in Entry
    PROVE  Cut(e) \in Pos
<1>1. e.st \in Nat /\ e.st >= blk_st /\ e.st \in Pos /\ ext_size \in Nat
  BY EntryIs, ExtentGeometry
<1> QED BY <1>1, ExtentGeometry DEF Cut, Pos

First(e) == [e EXCEPT !.free = 0, !.ed = Cut(e), !.junk = 0]
Rest(e) == [e EXCEPT !.free = @ - 1, !.st = Cut(e)]

\* The two parts of an extent that is split.
LEMMA SplitIs ==
    ASSUME NEW e \in Entry, e.free > 0
    PROVE  /\ First(e) \in Entry /\ First(e).free = 0 /\ First(e).st = e.st
           /\ First(e).ed = Cut(e) /\ First(e).junk = 0
           /\ Rest(e) \in Entry /\ Rest(e).free = e.free - 1 /\ Rest(e).st = Cut(e)
           /\ Rest(e).ed = e.ed /\ Rest(e).junk = e.junk
           /\ Split(e) = <<First(e), Rest(e)>>
<1> DEFINE c == Cut(e)
           f == e.free - 1
<1>1. c \in Pos /\ f \in Nat
  BY CutIs, EntryIs
<1>2. First(e) = [e EXCEPT !.free = 0, !.ed = c, !.junk = 0]
      /\ Rest(e) = [e EXCEPT !.free = f, !.st = c]
  BY DEF First, Rest
<1>3. Split(e) = <<First(e), Rest(e)>>
  BY DEF Split, First, Rest
<1> HIDE DEF c, f
<1>4. LET a == [e EXCEPT !.free = 0, !.ed = c, !.junk = 0]
          b == [e EXCEPT !.free = f, !.st = c]
      IN  /\ a \in Entry /\ a.free = 0 /\ a.st = e.st /\ a.ed = c /\ a.junk = 0
          /\ b \in Entry /\ b.free = f /\ b.st = c /\ b.ed = e.ed /\ b.junk = e.junk
  BY <1>1 DEF Entry
<1> QED BY <1>2, <1>3, <1>4 DEF c, f

\* s with its i-th extent replaced by another.
LEMMA EntrySet ==
    ASSUME NEW s \in Seq(Entry), NEW i \in 1 .. Len(s), NEW e \in Entry,
           NEW t, t = [s EXCEPT ![i] = e]
    PROVE  /\ t \in Seq(Entry) /\ Len(t) = Len(s) /\ t[i] = e
           /\ \A k \in 1 .. Len(s) : k # i => t[k] = s[k]
<1>1. t \in Seq(Entry) /\ Len(t) = Len(s)
      /\ \A j \in 1 .. Len(s) : t[j] = IF j = i THEN e ELSE s[j]
  BY ExceptSeq
<1> QED BY <1>1

\* Handing out an extent makes at most one more of them.
LEMMA HandedFits ==
    ASSUME NEW old \in Seq(Entry), NEW i \in 1 .. Len(old), old[i].free > 0
    PROVE  LET new == Handed(old, i)
           IN  /\ new \in Seq(Entry) /\ Len(new) \in {Len(old), Len(old) + 1}
               /\ i \in 1 .. Len(new) /\ new[i] \in Entry
<1> DEFINE new == Handed(old, i)
<1>0. old[i] \in Entry /\ Len(old) \in Nat
  BY ElementOfSeq, LenProperties
<1>1. CASE old[i].free = 1
  <2>1. new = [old EXCEPT ![i] = SetFree(old[i], 0)]
    BY <1>1 DEF Handed, SetFree
  <2> HIDE DEF new
  <2>2. new \in Seq(Entry) /\ Len(new) = Len(old)
    <3>1. PICK e : e = SetFree(old[i], 0)
      OBVIOUS
    <3>2. e \in Entry /\ new = [old EXCEPT ![i] = e]
      BY <1>0, <2>1, <3>1, FreeSet
    <3> QED BY <3>2, EntrySet
  <2>3. new[i] \in Entry
    BY <2>2, ElementOfSeq
  <2> QED BY <2>2, <2>3 DEF new
<1>2. CASE old[i].free # 1
  <2>1. First(old[i]) \in Entry /\ Rest(old[i]) \in Entry
        /\ Split(old[i]) = <<First(old[i]), Rest(old[i])>>
    BY <1>0, SplitIs
  <2>2. new = ReplaceBy(old, i, <<First(old[i]), Rest(old[i])>>)
    BY <1>2, <2>1 DEF Handed
  <2> HIDE DEF new
  <2>3. new \in Seq(Entry) /\ Len(new) = Len(old) + 1
    <3>1. IsReplaced(ReplaceBy(old, i, <<First(old[i]), Rest(old[i])>>), old, i,
                     First(old[i]), Rest(old[i]))
      BY <2>1, Replaced
    <3> QED BY <2>2, <3>1 DEF IsReplaced
  <2>4. i \in 1 .. Len(new)
    BY <1>0, <2>3
  <2>5. new[i] \in Entry
    BY <2>3, <2>4, ElementOfSeq
  <2> QED BY <2>3, <2>4, <2>5 DEF new
<1> QED BY <1>1, <1>2

\* A free id, taken for the upper half of a node.
LEMMA Allocated ==
    ASSUME FreeId # {}
    PROVE  alloc_obj \in Id /\ store[alloc_obj] = Null
<1>1. FreeId \in SUBSET Nat
  BY ExtentGeometry DEF FreeId, Id
<1>2. \E i \in FreeId : \A j \in FreeId : i <= j
  BY <1>1, LeastOf
<1>3. alloc_obj \in FreeId
  BY <1>2 DEF alloc_obj
<1> QED BY <1>3 DEF FreeId

\* The upper half of a full node is a node that fits.
LEMMA NewNodeIs ==
    ASSUME NEW id \in Id, NEW node \in Node, Len(node.ents) = Ext_Node_Degree
    PROVE  Fit(NewNode(id, node)) /\ NewNode(id, node).next = node.next
<1> DEFINE ents == SubSeq(node.ents, H + 1, 2 * H)
<1>1. /\ node.ents \in Seq(Entry) /\ id \in 0 .. MaxId /\ node.next \in 0 .. MaxId
  BY ExtentGeometry DEF Node, Id
<1>2. H + 1 \in 1 .. Len(node.ents) + 1 /\ 2 * H \in (H + 1) - 1 .. Len(node.ents)
      /\ 2 * H - (H + 1) + 1 = H
  BY Degree
<1>3. ents \in Seq(Entry) /\ Len(ents) = H
  BY <1>1, <1>2, Part
<1>4. NewNode(id, node) = [ents |-> ents, prev |-> id, next |-> node.next]
  BY DEF NewNode
<1> HIDE DEF ents
<1> QED BY <1>1, <1>3, <1>4, Degree DEF Fit, Node

\* A full node split in two, and the chain with the new one in it.
LEMMA SplitKeeps ==
    ASSUME Nodes(store), NEW p, NEW n, Chain(store, p, n), NEW a \in 1 .. n,
           NEW node \in Node, Len(node.ents) = Ext_Node_Degree,
           node.next = store[p[a]].next, FreeId # {},
           NEW V, V = SplitNode(p[a], node)
    PROVE  Nodes(V) /\ \E q, m : Chain(V, q, m)
<1> DEFINE i == p[a]
           x == alloc_obj
           ents == SubSeq(node.ents, 1, H)
           mid == SetEnts(node, ents)
           low == SetNext(mid, x)
           high == NewNode(i, node)
<1>1. i \in Id /\ x \in Id /\ store[x] = Null /\ store[i] # Null /\ i # x
  BY Allocated, NodesOfChain
<1>2. ents \in Seq(Entry) /\ Len(ents) = H
  <2>1. node.ents \in Seq(Entry)
    BY DEF Node
  <2>2. 1 \in 1 .. Len(node.ents) + 1 /\ H \in 1 - 1 .. Len(node.ents) /\ H - 1 + 1 = H
    BY Degree
  <2> QED BY <2>1, <2>2, Part
<1> HIDE DEF ents, x, i
<1>3. mid \in Node /\ mid.ents = ents
  BY <1>2, EntsSet
<1>4. low = [node EXCEPT !.ents = ents, !.next = x]
  BY DEF SetEnts, SetNext
<1> HIDE DEF mid
<1>5. low \in Node /\ low.ents = ents /\ low.next = x
  <2>1. x \in 0 .. MaxId
    BY <1>1, ExtentGeometry DEF Id
  <2> QED BY <1>3, <2>1, NextSet
<1> HIDE DEF low
<1>6. Fit(low) /\ low # Null
  BY <1>2, <1>5, Degree, NullIsNoNode DEF Fit
<1>7. Fit(high) /\ high # Null /\ high.next = store[i].next
  <2>1. Fit(high) /\ high.next = node.next
    BY <1>1, NewNodeIs
  <2> QED BY <2>1, FitIs DEF i
<1> HIDE DEF high
<1>8. V = Put(Put(store, i, low), x, high)
  <2>1. V = [store EXCEPT ![i] = [node EXCEPT !.ents = ents, !.next = x], ![x] = high]
    BY DEF SplitNode, i, x, ents, high
  <2> QED BY <1>4, <2>1 DEF Put
<1> DEFINE T == Put(store, i, low)
<1>9. Nodes(T) /\ T[i] = low /\ \A j \in Id \ {i} : T[j] = store[j]
  BY <1>1, <1>6, NodesPut
<1> HIDE DEF T
<1>10. Nodes(V) /\ V[x] = high /\ \A j \in Id \ {x} : V[j] = T[j]
  <2>1. V = Put(T, x, high)
    BY <1>8 DEF T
  <2> QED BY <1>1, <1>7, <1>9, <2>1, NodesPut
<1>11. V[i] = low /\ \A j \in Id \ {x, i} : V[j] = store[j]
  BY <1>1, <1>9, <1>10
<1>12. Chain(V, With(p, n, a, x), n + 1)
  <2>1. /\ V[x] # Null /\ V[p[a]] # Null /\ V[p[a]].next = x /\ V[x].next = store[p[a]].next
        /\ \A j \in Id \ {x, p[a]} : V[j] = store[j]
    BY <1>5, <1>6, <1>7, <1>10, <1>11 DEF i
  <2> QED BY <1>1, <2>1, NodeAdded
<1> QED BY <1>10, <1>12

\* getNewExt.
LEMMA GetKeeps ==
    ASSUME InPlace, CInv, NEW f \in File, GetNewExt(f)
    PROVE  CInv' /\ HandedOut(f)
<1>1. PICK p, n : Chain(store, p, n)
  BY DEF CInv
<1>2. Nodes(store) /\ held \in [File -> Desc \cup {NoFile}]
  BY DEF CInv
<1> DEFINE id == FirstNode(HasFree)
           old == store[id].ents
           i == CHOOSE k \in FreeIn(old) : \A l \in FreeIn(old) : k <= l
           ents == Handed(old, i)
           node == SetEnts(store[id], ents)
<1>3. /\ id # 0
      /\ held' = [held EXCEPT ![f] = [st |-> ents[i].st, ed |-> ents[i].ed]]
      /\ IF NodeFull(ents) THEN FreeId # {} /\ store' = SplitNode(id, node)
         ELSE store' = Poke(store, [id |-> id, node |-> node])
      /\ pc = "idle" /\ UNCHANGED gcvars
  BY DEF GetNewExt, Handed, SetEnts
<1>4. PICK a \in 1 .. n : id = p[a] /\ HasFree(store[p[a]])
  BY <1>1, <1>3, FirstWithFree
<1> HIDE DEF id
<1>5. /\ id \in Id /\ store[id] # Null /\ store[id] \in Node /\ old \in Seq(Entry)
      /\ Len(old) \in Nat /\ Len(old) >= 1 /\ Len(old) < Ext_Node_Degree
  BY <1>1, <1>2, <1>4, NodesOfChain, FitIs DEF Nodes
<1>6. i \in 1 .. Len(old) /\ old[i].free > 0
  <2>1. FreeIn(old) \in SUBSET Nat /\ FreeIn(old) # {}
    BY <1>4, <1>5, LenProperties DEF FreeIn, HasFree
  <2>2. \E k \in FreeIn(old) : \A l \in FreeIn(old) : k <= l
    BY <2>1, LeastOf
  <2>3. i \in FreeIn(old)
    BY <2>2
  <2> HIDE DEF i
  <2> QED BY <1>5, <2>3, LenProperties DEF FreeIn
<1> HIDE DEF i
<1>7. /\ ents \in Seq(Entry) /\ Len(ents) \in {Len(old), Len(old) + 1} /\ ents[i] \in Entry
  BY <1>5, <1>6, HandedFits
<1> HIDE DEF ents
<1>8. held' \in [File -> Desc \cup {NoFile}]
  <2>1. [st |-> ents[i].st, ed |-> ents[i].ed] \in Desc
    BY <1>7, EntryIs DEF Desc
  <2> QED BY <1>2, <1>3, <2>1
<1>9. pc' = "idle"
  BY <1>3 DEF gcvars
<1>10. node \in Node /\ node.ents = ents /\ node.next = store[id].next
  BY <1>5, <1>7, EntsSet
<1>11. Nodes(store') /\ \E q, m : Chain(store', q, m)
  <2>1. CASE NodeFull(ents)
    <3>1. Len(ents) = Ext_Node_Degree
      <4>1. Len(ents) >= Ext_Node_Degree
        BY <2>1 DEF NodeFull
      <4> QED BY <1>5, <1>7, <4>1, Degree
    <3> HIDE DEF node
    <3>2. FreeId # {} /\ store' = SplitNode(p[a], node)
      BY <1>3, <1>4, <2>1
    <3>3. Len(node.ents) = Ext_Node_Degree /\ node.next = store[p[a]].next
      BY <1>4, <1>10, <3>1
    <3> QED BY <1>1, <1>2, <1>10, <3>2, <3>3, SplitKeeps
  <2>2. CASE ~NodeFull(ents)
    <3>1. Len(ents) \in 1 .. Ext_Node_Degree - 1
      <4>1. ~(Len(ents) >= Ext_Node_Degree)
        BY <2>2 DEF NodeFull
      <4> QED BY <1>5, <1>7, <4>1, Degree
    <3>2. node # Null
      BY <1>10, NullIsNoNode
    <3>3. store' = Put(store, p[a], SetEnts(store[p[a]], ents))
      BY <1>3, <1>4, <2>2, <3>2, Poked
    <3> HIDE DEF old, node
    <3>4. Nodes(store') /\ Chain(store', p, n)
      BY <1>1, <1>2, <1>7, <3>1, <3>3, EntsPut
    <3> QED BY <3>4
  <2> QED BY <2>1, <2>2
<1>12. CInv'
  BY <1>8, <1>9, <1>11 DEF CInv, Busy
<1>13. HandedOut(f)
  <2>1. CASE NodeFull(ents)
    <3>1. Len(ents) = Ext_Node_Degree
      <4>1. Len(ents) >= Ext_Node_Degree
        BY <2>1 DEF NodeFull
      <4> QED BY <1>5, <1>7, <4>1, Degree
    <3> QED BY <1>3, <1>5, <1>6, <2>1, <3>1 DEF HandedOut, HandedFrom, ents
  <2>2. CASE ~NodeFull(ents)
    <3>1. store' = Put(store, id, node)
      BY <1>3, <1>10, <2>2, Poked, NullIsNoNode
    <3> QED BY <1>3, <1>5, <1>6, <3>1 DEF HandedOut, HandedFrom, Rewritten, ents
  <2> QED BY <2>1, <2>2
<1> QED BY <1>12, <1>13

\* putExt, which changes junk_bitmap only.
LEMMA PutKeeps ==
    ASSUME InPlace, CInv, NEW f \in File, NEW junk \in {0, 1}, PutExt(f, junk)
    PROVE  CInv' /\ PutBack(f, junk) /\ held' = [held EXCEPT ![f] = NoFile]
<1>1. PICK p, n : Chain(store, p, n)
  BY DEF CInv
<1>2. Nodes(store) /\ held \in [File -> Desc \cup {NoFile}]
  BY DEF CInv
<1>3. /\ held' = [held EXCEPT ![f] = NoFile] /\ store' = AfterPut(held[f], junk)
      /\ pc = "idle" /\ pc' = pc
  BY DEF PutExt, gcvars
<1>4. held' \in [File -> Desc \cup {NoFile}]
  BY <1>2, <1>3
<1> DEFINE d == held[f]
           id == FirstCovering(d)
           old == store[id].ents
           same == {i \in DOMAIN old : old[i].st = d.st}
           i == CHOOSE k \in same : \A l \in same : k <= l
           ents == [old EXCEPT ![i] = SetJunk(old[i], junk)]
<1>5. CASE id = 0 \/ same = {}
  <2>1. store' = store
    BY <1>3, <1>5 DEF AfterPut, FirstCovering
  <2> QED BY <1>1, <1>2, <1>3, <1>4, <2>1 DEF CInv, Busy, PutBack
<1>6. CASE ~(id = 0 \/ same = {})
  <2>1. store' = Poke(store, [id |-> id, node |-> SetEnts(store[id], ents)])
    <3>1. store' = Poke(store, [id |-> id, node |-> [store[id] EXCEPT !.ents[i].junk = junk]])
      BY <1>3, <1>6 DEF AfterPut, FirstCovering
    <3> HIDE DEF id, i
    <3> QED BY <3>1 DEF SetEnts, SetJunk
  <2>2. PICK a \in 1 .. n : id = p[a]
    BY <1>1, <1>6, FirstThatCovers
  <2> HIDE DEF id
  <2>3. /\ id \in Id /\ store[id] # Null /\ store[id] \in Node /\ old \in Seq(Entry)
        /\ Len(old) \in 1 .. Ext_Node_Degree - 1 /\ DOMAIN old = 1 .. Len(old)
    BY <1>1, <1>2, <2>2, NodesOfChain, FitIs, LenProperties DEF Nodes, Fit
  <2>4. i \in 1 .. Len(old) /\ old[i].st = held[f].st
    <3>1. same \in SUBSET Nat /\ same \in SUBSET (1 .. Len(old))
      BY <2>3
    <3>2. same # {}
      BY <1>6
    <3> HIDE DEF same
    <3>3. \E k \in same : \A l \in same : k <= l
      BY <3>1, <3>2, LeastOf
    <3>4. i \in same
      BY <3>3
    <3> QED BY <3>1, <3>4 DEF same
  <2> HIDE DEF i
  <2>5. ents \in Seq(Entry) /\ Len(ents) = Len(old)
    <3>1. PICK e : e = SetJunk(old[i], junk)
      OBVIOUS
    <3>2. e \in Entry /\ ents = [old EXCEPT ![i] = e]
      BY <2>3, <2>4, <3>1, ElementOfSeq, JunkSet
    <3> HIDE DEF ents
    <3> QED BY <2>3, <2>4, <3>2, EntrySet
  <2> HIDE DEF ents
  <2>6. SetEnts(store[id], ents) # Null
    BY <2>3, <2>5, EntsSet, NullIsNoNode
  <2>7. store' = Put(store, p[a], SetEnts(store[p[a]], ents))
    BY <2>1, <2>2, <2>6, Poked
  <2>8. Nodes(store') /\ Chain(store', p, n)
    <3>1. Len(ents) \in 1 .. Ext_Node_Degree - 1
      BY <2>3, <2>5
    <3> HIDE DEF old
    <3> QED BY <1>1, <1>2, <2>5, <2>7, <3>1, EntsPut, ZenonT(40)
  <2>9. CInv'
    BY <1>3, <1>4, <2>8 DEF CInv, Busy
  <2>10. PutBack(f, junk)
    BY <2>2, <2>3, <2>4, <2>7 DEF PutBack, Rewritten, ents
  <2> QED BY <1>3, <2>9, <2>10
<1> QED BY <1>5, <1>6

(***************************************************************************)
(* The invariant, and what follows from it.                                *)
(***************************************************************************)
\* The list as it is made: one node, and in it one extent, the whole channel.
WholeChannel == [free |-> (blk_ed - blk_st) \div ext_size, st |-> blk_st, ed |-> blk_ed, junk |-> 0]
OnlyNode == [ents |-> <<WholeChannel>>, prev |-> 0, next |-> 0]
FirstStore == [i \in Id |-> IF i # head THEN Null ELSE OnlyNode]

\* It is a chain of one node.
LEMMA FirstChain ==
    /\ WholeChannel \in Entry /\ Fit(OnlyNode) /\ Nodes(FirstStore)
    /\ FirstStore[head] = OnlyNode
    /\ Chain(FirstStore, [k \in 1 .. 1 |-> head], 1)
<1> DEFINE p == [k \in 1 .. 1 |-> head]
<1>1. WholeChannel \in Entry
  <2>1. \A x \in Nat, y \in Nat \ {0} : x \div y \in Nat
    OBVIOUS
  <2>2. blk_ed - blk_st \in Nat /\ ext_size \in Nat \ {0} /\ blk_st \in Pos /\ blk_ed \in Pos
    BY ExtentGeometry DEF Pos
  <2>3. (blk_ed - blk_st) \div ext_size \in Nat
    BY <2>1, <2>2
  <2> QED BY <2>2, <2>3 DEF Entry, WholeChannel
<1>2. Fit(OnlyNode) /\ OnlyNode.next = 0
  <2>1. <<WholeChannel>> \in Seq(Entry) /\ Len(<<WholeChannel>>) = 1
    BY <1>1
  <2>2. 1 \in 1 .. Ext_Node_Degree - 1 /\ 0 \in 0 .. MaxId
    BY Degree, ExtentGeometry
  <2> QED BY <2>1, <2>2 DEF Fit, Node, OnlyNode
<1>3. OnlyNode # Null
  BY <1>2, FitIs
<1>4. FirstStore[head] = OnlyNode /\ \A i \in Id : FirstStore[i] # Null <=> i = head
  BY <1>3, IdIsFinite DEF FirstStore
<1>5. Nodes(FirstStore)
  BY <1>2, FitIs DEF Nodes, FirstStore
<1>6. Chain(FirstStore, p, 1)
  <2>1. 1 .. 1 = {1} /\ p \in [1 .. 1 -> Id] /\ p[1] = head
    BY IdIsFinite
  <2> HIDE DEF p
  <2> QED BY <1>2, <1>4, <2>1 DEF Chain
<1> QED BY <1>1, <1>2, <1>4, <1>5, <1>6

\* The invariant holds at first.
LEMMA InitChain ==
    ASSUME Init
    PROVE  CInv
<1>1. store = FirstStore
  BY DEF Init, FirstStore, OnlyNode, WholeChannel
<1>2. held \in [File -> Desc \cup {NoFile}] /\ pc = "idle"
  BY DEF Init
<1>3. \E p, n : Chain(store, p, n)
  BY <1>1, FirstChain
<1> QED BY <1>1, <1>2, <1>3, FirstChain DEF CInv, Busy

\* Every step keeps the invariant.
LEMMA StepChain ==
    ASSUME InPlace, CInv, [Next]_vars
    PROVE  CInv'
<1>1. ASSUME NEW f \in File, GetNewExt(f) PROVE CInv'
  BY <1>1, GetKeeps
<1>2. ASSUME NEW f \in File, NEW junk \in {0, 1}, PutExt(f, junk) PROVE CInv'
  BY <1>2, PutKeeps
<1>3. CASE GCStart
  BY <1>3, StartKeeps
<1>4. CASE GCSweep
  BY <1>4, SweepKeeps
<1>5. CASE GCBorrowPrev
  BY <1>5, BorrowPrevKeeps
<1>6. CASE GCMergePrev
  BY <1>6, MergePrevKeeps
<1>7. CASE GCBorrowNext
  BY <1>7, BorrowNextKeeps
<1>8. CASE GCMergeNext
  BY <1>8, MergeNextKeeps
<1>9. CASE GCAdvance
  BY <1>9, AdvanceKeeps
<1>10. CASE UNCHANGED vars
  <2>1. /\ store' = store /\ held' = held /\ pc' = pc
        /\ prev' = prev /\ cur' = cur /\ next' = next
    BY <1>10 DEF vars, gcvars
  <2> QED BY <2>1 DEF CInv
<1> QED BY <1>1, <1>2, <1>3, <1>4, <1>5, <1>6, <1>7, <1>8, <1>9, <1>10
        DEF Next, GetOrPut, GCStep

\* The invariant: the nodes fit and are linked into one chain, and what GC
\* holds is three consecutive places of it.
THEOREM ChainInvariant == InPlace => (Spec => []CInv)
<1> SUFFICES ASSUME InPlace PROVE Spec => []CInv
  OBVIOUS
<1>1. Init => CInv
  BY InitChain
<1>2. CInv /\ [Next]_vars => CInv'
  BY StepChain
<1> QED BY <1>1, <1>2, PTL DEF Spec

\* No operation of the allocator, nor any step of GC, fills a node's arrays
\* to the end or leaves a node empty, whatever the degree of the nodes.
THEOREM NodesStayFit == InPlace => (Spec => []NodesFit)
<1> SUFFICES ASSUME InPlace PROVE Spec => []NodesFit
  OBVIOUS
<1>1. CInv => NodesFit
  BY DEF CInv, Nodes, Fit, NodesFit
<1>2. Spec => []CInv
  BY ChainInvariant
<1> QED BY <1>1, <1>2, PTL

\* The splits of getNewExt and the merges of GC leave a chain of exactly the
\* allocated nodes.
THEOREM ChainStaysSound == InPlace => (Spec => []ChainIsSound)
<1> SUFFICES ASSUME InPlace PROVE Spec => []ChainIsSound
  OBVIOUS
<1>1. CInv => ChainIsSound
  BY ChainSound DEF CInv
<1>2. Spec => []CInv
  BY ChainInvariant
<1> QED BY <1>1, <1>2, PTL

\* Type correctness: every stored object is a node, every file has a
\* descriptor or none.
THEOREM ExtentTypes == InPlace => (Spec => []TypeOK)
<1> SUFFICES ASSUME InPlace PROVE Spec => []TypeOK
  OBVIOUS
<1>1. CInv => TypeOK
  BY DEF CInv, Nodes, Fit, TypeOK
<1>2. Spec => []CInv
  BY ChainInvariant
<1> QED BY <1>1, <1>2, PTL

(***************************************************************************)
(* A node's extents, tiled.                                                *)
(***************************************************************************)
\* What tiles a range is a sequence of extents that is not empty.
LEMMA TiledIs ==
    ASSUME NEW s, NEW lo, NEW hi, Tiled(s, lo, hi)
    PROVE  /\ s \in Seq(Entry) /\ Len(s) \in Nat \ {0} /\ DOMAIN s = 1 .. Len(s)
           /\ s # <<>> /\ 1 \in 1 .. Len(s) /\ Len(s) \in 1 .. Len(s)
           /\ Last(s) = s[Len(s)] /\ Sound(Last(s)) /\ Last(s).ed = hi
<1>1. s \in Seq(Entry) /\ Len(s) >= 1
  BY DEF Tiled
<1>2. Len(s) \in Nat /\ DOMAIN s = 1 .. Len(s)
  BY <1>1, LenProperties
<1>3. s # <<>>
  BY <1>1, EmptySeq
<1> QED BY <1>1, <1>2, <1>3 DEF Tiled, Last

\* Extents that tile a range, and one more that begins where they end.
LEMMA TiledAppend ==
    ASSUME NEW s, NEW lo, NEW m, Tiled(s, lo, m), NEW e, Sound(e), e.st = m
    PROVE  Tiled(Append(s, e), lo, e.ed)
<1> DEFINE t == Append(s, e)
           n == Len(s)
<1>1. /\ s \in Seq(Entry) /\ n \in Nat \ {0} /\ e \in Entry
      /\ \A k \in 1 .. n : Sound(s[k])
      /\ \A k \in 1 .. n - 1 : s[k].ed = s[k + 1].st
      /\ s[1].st = lo /\ s[n].ed = m
  BY TiledIs DEF Tiled, Sound
<1>2. t \in Seq(Entry) /\ Len(t) = n + 1 /\ t[n + 1] = e /\ \A k \in 1 .. n : t[k] = s[k]
  BY <1>1, AppendProperties
<1> HIDE DEF t, n
<1>3. \A k \in 1 .. n + 1 : k \in 1 .. n \/ k = n + 1
  BY <1>1
<1>4. \A k \in 1 .. n : (k \in 1 .. n - 1 /\ k + 1 \in 1 .. n) \/ k = n
  BY <1>1
<1>5. (n + 1) - 1 = n /\ 1 \in 1 .. n /\ n \in 1 .. n /\ n + 1 >= 1
  BY <1>1
<1>6. \A k \in 1 .. n + 1 : Sound(t[k])
  BY <1>1, <1>2, <1>3
<1>7. \A k \in 1 .. n : t[k].ed = t[k + 1].st
  BY <1>1, <1>2, <1>4, <1>5
<1>8. Tiled(t, lo, e.ed)
  BY <1>1, <1>2, <1>5, <1>6, <1>7 DEF Tiled
<1> QED BY <1>8 DEF t

\* The last of the extents that tile a range replaced by one with its start.
LEMMA TiledReplace ==
    ASSUME NEW s, NEW lo, NEW m, Tiled(s, lo, m), NEW e, Sound(e), e.st = Last(s).st
    PROVE  Tiled(Append(Front(s), e), lo, e.ed)
<1> DEFINE t == Append(Front(s), e)
           n == Len(s)
<1>1. /\ s \in Seq(Entry) /\ n \in Nat \ {0} /\ e \in Entry /\ s[n].st = e.st
      /\ \A k \in 1 .. n : Sound(s[k])
      /\ \A k \in 1 .. n - 1 : s[k].ed = s[k + 1].st
      /\ s[1].st = lo /\ s[n].ed = m
  BY TiledIs DEF Tiled, Sound
<1>2. t \in Seq(Entry) /\ Len(t) = n /\ t[n] = e /\ \A k \in 1 .. n - 1 : t[k] = s[k]
  BY <1>1, LastReplaced, SMTT(30)
<1> HIDE DEF t, n
<1>3. \A k \in 1 .. n : k \in 1 .. n - 1 \/ k = n
  BY <1>1
<1>4. \A k \in 1 .. n - 1 : k \in 1 .. n /\ k + 1 \in 1 .. n
  BY <1>1
<1>5. \A k \in 1 .. n : t[k].st = s[k].st
  BY <1>1, <1>2, <1>3
<1>6. \A k \in 1 .. n : Sound(t[k])
  BY <1>1, <1>2, <1>3
<1>7. \A k \in 1 .. n - 1 : t[k].ed = t[k + 1].st
  BY <1>1, <1>2, <1>4, <1>5
<1>8. n >= 1 /\ 1 \in 1 .. n
  BY <1>1
<1>9. Tiled(t, lo, e.ed)
  BY <1>1, <1>2, <1>5, <1>6, <1>7, <1>8 DEF Tiled
<1> QED BY <1>9 DEF t

\* One extent tiles its range.
LEMMA TiledOne ==
    ASSUME NEW e, Sound(e)
    PROVE  Tiled(Append(<<>>, e), e.st, e.ed)
<1> DEFINE t == Append(<<>>, e)
<1>1. e \in Entry
  BY DEF Sound
<1>2. t \in Seq(Entry) /\ Len(t) = 1 /\ t[1] = e
  BY <1>1, AppendProperties, EmptySeq
<1> QED BY <1>2 DEF Tiled

\* The extents that a file may have are still there.
Keeps(s, t) ==
    \A k \in 1 .. Len(s) :
      s[k].free = 0 /\ s[k].junk = 0 => \E j \in 1 .. Len(t) : t[j] = s[k]

\* GC's pass leaves a node's extents tiled and keeps those of files.
LEMMA SweepTiled ==
    ASSUME NEW s, NEW lo, NEW hi, Tiled(s, lo, hi)
    PROVE  Tiled(Sweep(s), lo, hi) /\ Keeps(s, Sweep(s))
<1> DEFINE n == Len(s)
<1>1. /\ s \in Seq(Entry) /\ n \in Nat \ {0} /\ n \in 1 .. n /\ 1 \in 1 .. n
      /\ \A k \in 1 .. n : Sound(s[k])
      /\ \A k \in 1 .. n - 1 : s[k].ed = s[k + 1].st
      /\ s[1].st = lo /\ s[n].ed = hi
  BY TiledIs DEF Tiled
<1>2. PICK F : /\ F[0] = Blank
               /\ \A k \in 1 .. n : F[k] = SweepExtent(F[k - 1], s[k])
               /\ Sweep(s) = F[n].done
  BY <1>1, SweepSteps
<1> DEFINE OK(k) == /\ Tiled(F[k].done, lo, s[k].ed)
                    /\ F[k].absorb => Last(F[k].done).free > 0
                    /\ \A i \in 1 .. k :
                         s[i].free = 0 /\ s[i].junk = 0
                         => \E j \in 1 .. Len(F[k].done) : F[k].done[j] = s[i]
           Good == {k \in 1 .. n : OK(k)}
<1>3. ASSUME NEW k \in 1 .. n, k = 1 \/ k - 1 \in Good PROVE OK(k)
  <2> DEFINE acc == F[k - 1]
             e == s[k]
             new == F[k]
             b == Taken(e)
             a == Last(acc.done)
             c == Merged(acc, e)
  <2>1. /\ Sound(e) /\ e \in Entry
        /\ Sound(b) /\ b.st = e.st /\ b.ed = e.ed /\ (e.junk # 0 => b.free = 1)
        /\ (e.free > 0 => c = b)
    <3>1. Sound(e) /\ e \in Entry
      BY <1>1 DEF Sound
    <3>2. e.free > 0 => e.junk = 0
      BY <3>1 DEF Sound
    <3> QED BY <3>1, <3>2, FreedIsSound, FreedIsEntry DEF Taken, Merged
  <2>2. new = SweepExtent(acc, e)
    BY <1>2
  <2>3. CASE k = 1
    <3>1. acc = Blank
      BY <1>2, <2>3
    <3>2. acc.done = <<>> /\ acc.absorb = FALSE
      BY <3>1 DEF Blank
    <3>3. acc.done \in Seq(Entry)
      BY <3>2, EmptySeq
    <3>4. new.done = Append(acc.done, b) /\ (new.absorb => b.free > 0)
      BY <2>1, <2>2, <3>2, <3>3, SweepOne
    <3> HIDE DEF acc, new, b, e
    <3>5. Tiled(new.done, lo, s[k].ed)
      BY <1>1, <2>1, <2>3, <3>2, <3>4, TiledOne DEF e
    <3>6. Len(new.done) = 1 /\ new.done[1] = b
      BY <2>1, <3>2, <3>4, AppendProperties, EmptySeq DEF Sound
    <3>7. Last(new.done) = b
      BY <3>6 DEF Last
    <3>8. \A i \in 1 .. k : i = k
      BY <2>3
    <3>9. e.free = 0 /\ e.junk = 0 => new.done[1] = e
      BY <3>6 DEF b, Taken
    <3> QED BY <3>4, <3>5, <3>6, <3>7, <3>8, <3>9 DEF new, e
  <2>4. CASE k - 1 \in Good /\ k # 1
    <3>1. /\ Tiled(acc.done, lo, s[k - 1].ed) /\ (acc.absorb => a.free > 0)
          /\ \A i \in 1 .. k - 1 :
               s[i].free = 0 /\ s[i].junk = 0 => \E j \in 1 .. Len(acc.done) : acc.done[j] = s[i]
      BY <2>4
    <3>2. s[k - 1].ed = e.st
      <4>1. k - 1 \in 1 .. n - 1 /\ (k - 1) + 1 = k
        BY <1>1, <2>4
      <4> QED BY <1>1, <4>1
    <3>3. /\ acc.done \in Seq(Entry) /\ acc.done # <<>> /\ Len(acc.done) \in Nat \ {0}
          /\ Sound(a) /\ a.ed = e.st /\ a = acc.done[Len(acc.done)]
      BY <3>1, <3>2, TiledIs
    <3>4. \/ new.done = Append(acc.done, b) /\ (new.absorb => b.free > 0)
          \/ /\ (acc.absorb \/ a.free > 0) /\ (e.free > 0 \/ e.junk # 0)
             /\ new.absorb = FALSE
             /\ new.done = Append(Front(acc.done), Merge(a, c))
      <4>1. e \in Entry /\ (acc.absorb => acc.done # <<>>) /\ new = SweepExtent(acc, e)
        BY <2>1, <2>2, <3>3
      <4> HIDE DEF acc, e, new
      <4> QED BY <4>1, SweepOne
    <3>5. \A i \in 1 .. k : i \in 1 .. k - 1 \/ i = k
      BY <2>4
    <3>6. e.free = 0 /\ e.junk = 0 => b = e
      BY DEF Taken
    <3>7. e.free > 0 \/ e.junk # 0 => c = b /\ b.free > 0
      BY <2>1, EntryIs DEF Taken, Merged, Sound
    <3> HIDE DEF acc, new, b, e, a, c
    <3>8. CASE new.done = Append(acc.done, b) /\ (new.absorb => b.free > 0)
      <4>1. Tiled(new.done, lo, e.ed)
        BY <2>1, <3>1, <3>2, <3>8, TiledAppend
      <4>2. /\ Len(new.done) = Len(acc.done) + 1 /\ new.done[Len(acc.done) + 1] = b
            /\ \A j \in 1 .. Len(acc.done) : new.done[j] = acc.done[j]
        BY <2>1, <3>3, <3>8, AppendProperties DEF Sound
      <4>3. Last(new.done) = b
        BY <4>2 DEF Last
      <4>4. /\ \A j \in 1 .. Len(acc.done) : j \in 1 .. Len(new.done)
            /\ Len(acc.done) + 1 \in 1 .. Len(new.done)
        BY <3>3, <4>2
      <4>5. ASSUME NEW i \in 1 .. k, s[i].free = 0, s[i].junk = 0
            PROVE  \E j \in 1 .. Len(new.done) : new.done[j] = s[i]
        <5>1. CASE i \in 1 .. k - 1
          BY <3>1, <4>2, <4>4, <4>5, <5>1
        <5>2. CASE i = k
          BY <3>6, <4>2, <4>4, <4>5, <5>2 DEF e
        <5> QED BY <3>5, <5>1, <5>2
      <4> QED BY <3>8, <4>1, <4>3, <4>5 DEF new, e
    <3>9. CASE /\ (acc.absorb \/ a.free > 0) /\ (e.free > 0 \/ e.junk # 0)
               /\ new.absorb = FALSE
               /\ new.done = Append(Front(acc.done), Merge(a, c))
      <4>1. a.free > 0 /\ c = b /\ b.free > 0
        BY <3>1, <3>7, <3>9
      <4>2. Sound(Merge(a, c)) /\ Merge(a, c).st = a.st /\ Merge(a, c).ed = e.ed
        BY <2>1, <3>3, <4>1, MergedIsSound, MergedIsEntry DEF Sound
      <4>3. Tiled(new.done, lo, e.ed)
        BY <3>1, <3>9, <4>2, TiledReplace DEF a
      <4>4. /\ Len(new.done) = Len(acc.done)
            /\ \A j \in 1 .. Len(acc.done) - 1 : new.done[j] = acc.done[j]
        BY <3>3, <3>9, <4>2, LastReplaced DEF Sound
      <4>5. ASSUME NEW i \in 1 .. k, s[i].free = 0, s[i].junk = 0
            PROVE  \E j \in 1 .. Len(new.done) : new.done[j] = s[i]
        <5>1. i \in 1 .. k - 1
          BY <3>5, <3>9, <4>5 DEF e
        <5>2. PICK j \in 1 .. Len(acc.done) : acc.done[j] = s[i]
          BY <3>1, <4>5, <5>1
        <5>3. j # Len(acc.done)
          BY <3>3, <4>1, <4>5, <5>2
        <5>4. j \in 1 .. Len(acc.done) - 1
          BY <3>3, <5>3
        <5> QED BY <4>4, <5>2, <5>4
      <4> QED BY <3>9, <4>3, <4>5 DEF new, e
    <3> QED BY <3>4, <3>8, <3>9
  <2> QED BY <1>3, <2>3, <2>4
<1>4. \A k \in 1 .. n : k \in Good
  <2>1. \A k \in 1 .. n : (k = 1 \/ k - 1 \in Good) => k \in Good
    BY <1>3
  <2> HIDE DEF Good
  <2> QED BY <1>1, <2>1, UpTo
<1>5. OK(n)
  BY <1>1, <1>4
<1> QED BY <1>1, <1>2, <1>5 DEF Keeps

\* Two sequences of extents that meet, one after the other.
LEMMA TiledConcat ==
    ASSUME NEW s, NEW t, NEW lo, NEW m, NEW hi, Tiled(s, lo, m), Tiled(t, m, hi),
           NEW u, u = s \o t
    PROVE  Tiled(u, lo, hi) /\ Keeps(s, u) /\ Keeps(t, u)
<1> DEFINE a == Len(s)
           b == Len(t)
<1>1. /\ s \in Seq(Entry) /\ a \in Nat \ {0} /\ t \in Seq(Entry) /\ b \in Nat \ {0}
      /\ \A k \in 1 .. a : Sound(s[k])
      /\ \A k \in 1 .. b : Sound(t[k])
      /\ \A k \in 1 .. a - 1 : s[k].ed = s[k + 1].st
      /\ \A k \in 1 .. b - 1 : t[k].ed = t[k + 1].st
      /\ s[1].st = lo /\ s[a].ed = m /\ t[1].st = m /\ t[b].ed = hi
  BY TiledIs DEF Tiled
<1>2. /\ u \in Seq(Entry) /\ Len(u) = a + b
      /\ \A k \in 1 .. a : k \in 1 .. Len(u) /\ u[k] = s[k]
      /\ \A k \in 1 .. b : a + k \in 1 .. Len(u) /\ u[a + k] = t[k]
  BY <1>1, Concatenated
<1> HIDE DEF a, b
<1>0. a \in Nat \ {0} /\ b \in Nat \ {0}
  BY <1>1
<1>3. ASSUME NEW k \in 1 .. a + b PROVE k \in 1 .. a \/ (k - a \in 1 .. b /\ a + (k - a) = k)
  BY <1>0
<1>4. \A k \in 1 .. a + b : Sound(u[k])
  BY <1>1, <1>2, <1>3
<1>5. ASSUME NEW k \in 1 .. a + b - 1 PROVE u[k].ed = u[k + 1].st
  <2>1. CASE k \in 1 .. a - 1
    <3>1. k \in 1 .. a /\ k + 1 \in 1 .. a
      BY <1>1, <2>1
    <3> QED BY <1>1, <1>2, <2>1, <3>1
  <2>2. CASE k = a
    <3>1. a \in 1 .. a /\ 1 \in 1 .. b
      BY <1>1
    <3> QED BY <1>1, <1>2, <2>2, <3>1
  <2>3. CASE k - a \in 1 .. b - 1
    <3>1. k - a \in 1 .. b /\ (k - a) + 1 \in 1 .. b /\ a + (k - a) = k
          /\ a + ((k - a) + 1) = k + 1
      BY <1>1, <2>3
    <3>2. u[k] = t[k - a] /\ u[k + 1] = t[(k - a) + 1]
      BY <1>2, <3>1
    <3> QED BY <1>1, <2>3, <3>2
  <2>4. k \in 1 .. a - 1 \/ k = a \/ k - a \in 1 .. b - 1
    BY <1>1
  <2> QED BY <2>1, <2>2, <2>3, <2>4
<1>6. 1 \in 1 .. a /\ b \in 1 .. b /\ a + b >= 1
  BY <1>1
<1>7. u[1].st = lo /\ u[a + b].ed = hi
  BY <1>1, <1>2, <1>6
<1>8. Tiled(u, lo, hi)
  <2>1. Len(u) >= 1 /\ \A k \in 1 .. Len(u) : Sound(u[k])
    BY <1>2, <1>4, <1>6
  <2>2. \A k \in 1 .. Len(u) - 1 : u[k].ed = u[k + 1].st
    <3>1. Len(u) = a + b
      BY <1>2
    <3> TAKE k \in 1 .. Len(u) - 1
    <3>2. k \in 1 .. a + b - 1
      BY <1>0, <3>1
    <3> QED BY <1>5, <3>2
  <2>3. u[1].st = lo /\ u[Len(u)].ed = hi
    BY <1>2, <1>7
  <2> QED BY <1>2, <2>1, <2>2, <2>3 DEF Tiled
<1> QED BY <1>2, <1>8 DEF Keeps, a, b

\* What cutting s after its c-th extent gives.
IsCut(a, b, s, c, lo, hi) ==
    /\ Tiled(a, lo, s[c].ed) /\ Tiled(b, s[c].ed, hi)
    /\ \A k \in 1 .. Len(s) : \/ k \in 1 .. Len(a) /\ a[k] = s[k]
                              \/ k - c \in 1 .. Len(b) /\ b[k - c] = s[k]

\* Extents that tile a range, cut in two as a node that is split is.
LEMMA TiledCut ==
    ASSUME NEW s, NEW lo, NEW hi, Tiled(s, lo, hi), NEW c \in 1 .. Len(s) - 1
    PROVE  IsCut(SubSeq(s, 1, c), SubSeq(s, c + 1, Len(s)), s, c, lo, hi)
<1> DEFINE n == Len(s)
           a == SubSeq(s, 1, c)
           b == SubSeq(s, c + 1, Len(s))
<1>1. /\ s \in Seq(Entry) /\ n \in Nat \ {0}
      /\ \A k \in 1 .. n : Sound(s[k])
      /\ \A k \in 1 .. n - 1 : s[k].ed = s[k + 1].st
      /\ s[1].st = lo /\ s[n].ed = hi
  BY TiledIs DEF Tiled
<1>0. n \in Nat /\ n >= 2 /\ c \in 1 .. n - 1 /\ c \in Nat
  BY <1>1
<1>2. n >= 2 /\ c \in 1 .. n - 1 /\ c \in Nat
  BY <1>0
<1>3. a \in Seq(Entry) /\ Len(a) = c /\ \A k \in 1 .. c : a[k] = s[k] /\ k \in 1 .. n
  <2>1. /\ 1 \in 1 .. n + 1 /\ c \in 1 - 1 .. n /\ c - 1 + 1 = c
        /\ \A k \in 1 .. c : 1 + k - 1 = k
    BY <1>0
  <2>2. /\ a \in Seq(Entry) /\ Len(a) = c - 1 + 1
        /\ \A k \in 1 .. c - 1 + 1 : a[k] = s[1 + k - 1] /\ 1 + k - 1 \in 1 .. n
    BY <1>1, <2>1, Part
  <2> QED BY <2>1, <2>2
<1>4. /\ b \in Seq(Entry) /\ Len(b) = n - c
      /\ \A k \in 1 .. n - c : b[k] = s[c + k] /\ c + k \in 1 .. n
  <2>1. /\ c + 1 \in 1 .. n + 1 /\ n \in (c + 1) - 1 .. n /\ n - (c + 1) + 1 = n - c
        /\ \A k \in 1 .. n - c : (c + 1) + k - 1 = c + k
    BY <1>1, <1>2
  <2> QED BY <1>1, <2>1, Part
<1> HIDE DEF n, a, b
<1>5. Tiled(a, lo, s[c].ed)
  <2>1. \A k \in 1 .. c - 1 : k \in 1 .. c /\ k + 1 \in 1 .. c /\ k \in 1 .. n - 1
    BY <1>0
  <2>2. \A k \in 1 .. c - 1 : a[k].ed = a[k + 1].st
    BY <1>1, <1>3, <2>1
  <2>3. c >= 1 /\ 1 \in 1 .. c /\ c \in 1 .. c
    BY <1>2
  <2> QED BY <1>1, <1>3, <2>2, <2>3 DEF Tiled
<1>6. Tiled(b, s[c].ed, hi)
  <2>1. \A k \in 1 .. n - c - 1 : /\ k \in 1 .. n - c /\ k + 1 \in 1 .. n - c
                                  /\ c + k \in 1 .. n - 1 /\ c + (k + 1) = (c + k) + 1
    BY <1>1, <1>2
  <2>2. \A k \in 1 .. n - c - 1 : b[k].ed = b[k + 1].st
    <3> TAKE k \in 1 .. n - c - 1
    <3>1. b[k] = s[c + k] /\ b[k + 1] = s[c + (k + 1)]
      BY <1>4, <2>1
    <3>2. s[c + k].ed = s[(c + k) + 1].st
      BY <1>1, <2>1
    <3> QED BY <2>1, <3>1, <3>2
  <2>3. n - c >= 1 /\ 1 \in 1 .. n - c /\ n - c \in 1 .. n - c /\ c + (n - c) = n
    BY <1>1, <1>2
  <2>4. b[1].st = s[c].ed /\ b[n - c].ed = hi
    BY <1>1, <1>2, <1>4, <2>3
  <2> QED BY <1>1, <1>4, <2>2, <2>3, <2>4 DEF Tiled
<1>7. \A k \in 1 .. n : k \in 1 .. c \/ (k - c \in 1 .. n - c /\ c + (k - c) = k)
  BY <1>1, <1>2
<1>8. \A k \in 1 .. n : \/ k \in 1 .. Len(a) /\ a[k] = s[k]
                        \/ k - c \in 1 .. Len(b) /\ b[k - c] = s[k]
  BY <1>3, <1>4, <1>7
<1>9. IsCut(a, b, s, c, lo, hi)
  BY <1>5, <1>6, <1>8 DEF IsCut, n
<1> QED BY <1>9 DEF a, b

\* An extent changed without being moved.
IsChanged(t, s, i, x, lo, hi) ==
    /\ Tiled(t, lo, hi) /\ Len(t) = Len(s) /\ t[i] = x
    /\ \A k \in 1 .. Len(s) : k # i => t[k] = s[k]

\* An extent whose counters change stays in its place.
LEMMA TiledSame ==
    ASSUME NEW s, NEW lo, NEW hi, Tiled(s, lo, hi), NEW i \in 1 .. Len(s),
           NEW x, Sound(x), x.st = s[i].st, x.ed = s[i].ed
    PROVE  IsChanged([s EXCEPT ![i] = x], s, i, x, lo, hi)
<1> DEFINE n == Len(s)
           t == [s EXCEPT ![i] = x]
<1>1. /\ s \in Seq(Entry) /\ n \in Nat \ {0} /\ x \in Entry
      /\ \A k \in 1 .. n : Sound(s[k])
      /\ \A k \in 1 .. n - 1 : s[k].ed = s[k + 1].st
      /\ s[1].st = lo /\ s[n].ed = hi
  BY TiledIs DEF Tiled, Sound
<1>2. t \in Seq(Entry) /\ Len(t) = n /\ \A k \in 1 .. n : t[k] = IF k = i THEN x ELSE s[k]
  BY <1>1, ExceptSeq
<1> HIDE DEF t
<1>3. \A k \in 1 .. n : t[k].st = s[k].st /\ t[k].ed = s[k].ed /\ Sound(t[k])
  BY <1>1, <1>2
<1> HIDE DEF n
<1>4. \A k \in 1 .. n - 1 : k \in 1 .. n /\ k + 1 \in 1 .. n
  BY <1>1
<1>5. 1 \in 1 .. n /\ n \in 1 .. n /\ n >= 1
  BY <1>1
<1>6. \A k \in 1 .. n - 1 : t[k].ed = t[k + 1].st
  BY <1>1, <1>3, <1>4
<1>7. Tiled(t, lo, hi)
  BY <1>1, <1>2, <1>3, <1>5, <1>6 DEF Tiled
<1>8. IsChanged(t, s, i, x, lo, hi)
  BY <1>2, <1>7 DEF IsChanged, n
<1> QED BY <1>8 DEF t

\* A node's extents without the first.
LEMMA TiledTail ==
    ASSUME NEW s, NEW lo, NEW hi, Tiled(s, lo, hi), Len(s) > 1
    PROVE  /\ Tiled(Tail(s), Head(s).ed, hi) /\ Len(Tail(s)) = Len(s) - 1
           /\ Head(s) = s[1] /\ Sound(Head(s)) /\ Head(s).st = lo
           /\ \A k \in 2 .. Len(s) : k - 1 \in 1 .. Len(Tail(s)) /\ Tail(s)[k - 1] = s[k]
<1> DEFINE t == Tail(s)
           n == Len(s)
<1>1. /\ s \in Seq(Entry) /\ n \in Nat /\ n > 1 /\ s # <<>>
      /\ \A k \in 1 .. n : Sound(s[k])
      /\ \A k \in 1 .. n - 1 : s[k].ed = s[k + 1].st
      /\ s[1].st = lo /\ s[n].ed = hi
  BY TiledIs DEF Tiled
<1>2. t \in Seq(Entry) /\ Len(t) = n - 1 /\ \A k \in 1 .. Len(t) : t[k] = s[k + 1]
  BY <1>1, HeadTailProperties
<1>3. Head(s) = s[1]
  BY <1>1
<1> HIDE DEF t, n
<1>4. /\ \A k \in 1 .. n - 1 : k + 1 \in 1 .. n
      /\ \A k \in 1 .. (n - 1) - 1 : k \in 1 .. n - 1 /\ k + 1 \in 1 .. n - 1
      /\ \A k \in 2 .. n : k - 1 \in 1 .. n - 1 /\ (k - 1) + 1 = k
      /\ 1 \in 1 .. n - 1 /\ n - 1 \in 1 .. n - 1 /\ (n - 1) + 1 = n /\ 1 \in 1 .. n /\ n - 1 >= 1
  BY <1>1
<1>5. \A k \in 1 .. n - 1 : t[k] = s[k + 1] /\ Sound(t[k])
  BY <1>1, <1>2, <1>4
<1>6. \A k \in 1 .. (n - 1) - 1 : t[k].ed = t[k + 1].st
  BY <1>1, <1>4, <1>5
<1>7. t[1].st = s[1].ed /\ t[n - 1].ed = hi
  BY <1>1, <1>4, <1>5
<1>8. Tiled(t, s[1].ed, hi)
  BY <1>2, <1>4, <1>5, <1>6, <1>7 DEF Tiled
<1>9. \A k \in 2 .. n : k - 1 \in 1 .. n - 1 /\ t[k - 1] = s[k]
  BY <1>4, <1>5
<1>10. Sound(s[1])
  BY <1>1, <1>4
<1> QED BY <1>1, <1>2, <1>3, <1>8, <1>9, <1>10 DEF t, n

\* The extents of a node lie between its ends, each before the next.
LEMMA Within ==
    ASSUME NEW s, NEW lo, NEW hi, Tiled(s, lo, hi)
    PROVE  /\ lo \in Nat /\ hi \in Nat /\ lo < hi
           /\ \A k \in 1 .. Len(s) : lo <= s[k].st /\ s[k].ed <= hi
           /\ \A k, l \in 1 .. Len(s) : k < l => s[k].ed <= s[l].st
<1> DEFINE n == Len(s)
<1>1. /\ s \in Seq(Entry) /\ n \in Nat \ {0} /\ 1 \in 1 .. n /\ n \in 1 .. n
      /\ \A k \in 1 .. n : Sound(s[k])
      /\ \A k \in 1 .. n - 1 : s[k].ed = s[k + 1].st
      /\ s[1].st = lo /\ s[n].ed = hi
  BY TiledIs DEF Tiled
<1>2. \A k \in 1 .. n : s[k].st \in Nat /\ s[k].ed \in Nat /\ s[k].st < s[k].ed
  BY <1>1, SoundIsLong, EntryIs DEF Sound
<1> DEFINE Good == {l \in 1 .. n : \A k \in 1 .. n : k < l => s[k].ed <= s[l].st}
<1>3. ASSUME NEW l \in 1 .. n, l = 1 \/ l - 1 \in Good PROVE l \in Good
  <2>1. CASE l = 1
    BY <2>1
  <2>2. CASE l # 1 /\ l - 1 \in Good
    <3>1. /\ l - 1 \in 1 .. n - 1 /\ l - 1 \in 1 .. n /\ (l - 1) + 1 = l
          /\ \A k \in 1 .. n : k < l => k < l - 1 \/ k = l - 1
      BY <1>1, <2>2
    <3>2. s[l - 1].ed = s[l].st
      BY <1>1, <3>1
    <3>3. ASSUME NEW k \in 1 .. n, k < l PROVE s[k].ed <= s[l].st
      <4>1. CASE k = l - 1
        BY <1>2, <3>2, <4>1
      <4>2. CASE k < l - 1
        <5>1. s[k].ed <= s[l - 1].st
          BY <2>2, <4>2
        <5>2. s[k].ed \in Nat /\ s[l - 1].st \in Nat /\ s[l].st \in Nat /\ s[l - 1].st < s[l].st
          BY <1>2, <3>1, <3>2
        <5> QED BY <5>1, <5>2
      <4> QED BY <3>1, <3>3, <4>1, <4>2
    <3> QED BY <3>3
  <2> QED BY <1>3, <2>1, <2>2
<1>4. \A l \in 1 .. n : l \in Good
  <2> HIDE DEF Good
  <2> QED BY <1>1, <1>3, UpTo
<1>5. \A k, l \in 1 .. n : k < l => s[k].ed <= s[l].st
  BY <1>4
<1> HIDE DEF n, Good
<1>6. ASSUME NEW k \in 1 .. n PROVE lo <= s[k].st /\ s[k].ed <= hi
  <2>1. k = 1 \/ 1 < k
    BY <1>1
  <2>2. k = n \/ k < n
    BY <1>1
  <2>0. /\ s[k].st \in Nat /\ s[k].ed \in Nat /\ lo \in Nat /\ hi \in Nat
        /\ s[1].ed \in Nat /\ lo < s[1].ed /\ s[n].st \in Nat /\ s[n].st < hi
    BY <1>1, <1>2
  <2>3. lo <= s[k].st
    <3>1. CASE k = 1
      BY <1>1, <2>0, <3>1
    <3>2. CASE 1 < k
      <4>1. s[1].ed <= s[k].st
        BY <1>1, <1>5, <3>2
      <4> QED BY <2>0, <4>1
    <3> QED BY <2>1, <3>1, <3>2
  <2>4. s[k].ed <= hi
    <3>1. CASE k = n
      BY <1>1, <2>0, <3>1
    <3>2. CASE k < n
      <4>1. s[k].ed <= s[n].st
        BY <1>1, <1>5, <3>2
      <4> QED BY <2>0, <4>1
    <3> QED BY <2>2, <3>1, <3>2
  <2> QED BY <2>3, <2>4
<1>7. lo \in Nat /\ hi \in Nat /\ lo < hi
  BY <1>1, <1>2, <1>6
<1> QED BY <1>5, <1>6, <1>7 DEF n

(***************************************************************************)
(* The extents of all nodes tile the channel: each node's do, a node's     *)
(* begin where those of the node before end, and what the files hold is    *)
(* among them.                                                             *)
(***************************************************************************)
Lo(s) == s[1].st
Hi(s) == s[Len(s)].ed

Laid(T) ==
    /\ Lo(T[head].ents) = blk_st
    /\ \A i \in Id : T[i] # Null =>
         /\ Tiled(T[i].ents, Lo(T[i].ents), Hi(T[i].ents))
         /\ Hi(T[i].ents) = IF T[i].next = 0 THEN blk_ed ELSE Lo(T[T[i].next].ents)

Gives(e, d) == e.st = d.st /\ e.ed = d.ed /\ e.free = 0 /\ e.junk = 0

HeldIn(T, h) ==
    /\ \A f \in File : h[f] # NoFile =>
         \E i \in Id : T[i] # Null /\ \E k \in 1 .. Len(T[i].ents) : Gives(T[i].ents[k], h[f])
    /\ \A f, g \in File : f # g /\ h[f] # NoFile /\ h[g] # NoFile => h[f].st # h[g].st

\* The extents that a file may have are still there.
KeptIn(T, V) ==
    \A i \in Id : T[i] # Null =>
      \A k \in 1 .. Len(T[i].ents) :
        LET e == T[i].ents[k]
        IN  e.free = 0 /\ e.junk = 0 =>
              \E j \in Id : V[j] # Null /\ \E l \in 1 .. Len(V[j].ents) : V[j].ents[l] = e

\* The ends of what tiles a range are those of the range.
LEMMA TiledEnds ==
    ASSUME NEW s, NEW lo, NEW hi, Tiled(s, lo, hi)
    PROVE  Lo(s) = lo /\ Hi(s) = hi /\ Tiled(s, Lo(s), Hi(s))
BY DEF Tiled, Lo, Hi

\* What the files hold is in any nodes that keep it.
LEMMA HeldAreKept ==
    ASSUME NEW T, NEW V, NEW h, HeldIn(T, h), KeptIn(T, V)
    PROVE  HeldIn(V, h)
<1>1. ASSUME NEW f \in File, h[f] # NoFile
      PROVE  \E j \in Id : V[j] # Null /\ \E l \in 1 .. Len(V[j].ents) : Gives(V[j].ents[l], h[f])
  <2>1. PICK i \in Id : T[i] # Null /\ \E k \in 1 .. Len(T[i].ents) : Gives(T[i].ents[k], h[f])
    BY <1>1 DEF HeldIn
  <2>2. PICK k \in 1 .. Len(T[i].ents) : Gives(T[i].ents[k], h[f])
    BY <2>1
  <2>3. PICK j \in Id : V[j] # Null /\ \E l \in 1 .. Len(V[j].ents) : V[j].ents[l] = T[i].ents[k]
    BY <2>1, <2>2 DEF KeptIn, Gives
  <2> QED BY <2>2, <2>3
<1> QED BY <1>1 DEF HeldIn

\* Where a node's successor is, and that it is the successor of no other.
LEMMA Successors ==
    ASSUME NEW T, NEW p, NEW n, Chain(T, p, n), NEW i \in Id, T[i] # Null
    PROVE  /\ T[i].next # 0 => /\ T[i].next \in Id /\ T[T[i].next] # Null
                               /\ T[i].next # i /\ T[i].next # head
           /\ \A j \in Id : T[j] # Null /\ T[i].next = T[j].next => i = j
<1>1. PICK k \in 1 .. n : p[k] = i
  BY DEF Chain
<1>2. n \in Nat \ {0} /\ p[1] = head /\ 1 \in 1 .. n
  BY DEF Chain
<1>3. ASSUME T[i].next # 0
      PROVE  T[i].next \in Id /\ T[T[i].next] # Null /\ T[i].next # i /\ T[i].next # head
  <2>1. k # n /\ k + 1 \in 1 .. n /\ T[i].next = p[k + 1] /\ p[k + 1] # p[k]
    BY <1>1, <1>3, NodesOfChain
  <2>2. p[k + 1] \in Id /\ T[p[k + 1]] # Null
    BY <2>1, NodesOfChain
  <2>3. k + 1 # 1
    OBVIOUS
  <2>4. p[k + 1] # head
    BY <1>2, <2>1, <2>3 DEF Chain
  <2> QED BY <1>1, <2>1, <2>2, <2>4
<1>4. ASSUME NEW j \in Id, T[j] # Null, T[i].next = T[j].next PROVE i = j
  <2>1. PICK l \in 1 .. n : p[l] = j
    BY <1>4 DEF Chain
  <2>2. (T[p[k]].next = 0 <=> k = n) /\ (T[p[l]].next = 0 <=> l = n)
    BY NodesOfChain
  <2>3. CASE k = n \/ l = n
    BY <1>1, <1>4, <2>1, <2>2, <2>3
  <2>4. CASE k # n /\ l # n
    <3>1. /\ k + 1 \in 1 .. n /\ l + 1 \in 1 .. n
          /\ T[p[k]].next = p[k + 1] /\ T[p[l]].next = p[l + 1]
      BY <2>4, NodesOfChain
    <3>2. k + 1 = l + 1
      BY <1>1, <1>4, <2>1, <3>1 DEF Chain
    <3>3. k = l
      BY <3>2
    <3> QED BY <1>1, <2>1, <3>3
  <2> QED BY <2>3, <2>4
<1> QED BY <1>3, <1>4

\* A node whose extents are laid out anew between the same ends.
LEMMA LaidRewritten ==
    ASSUME NEW T, Nodes(T), NEW p, NEW n, Chain(T, p, n), Laid(T), NEW i \in Id, T[i] # Null,
           NEW ents, Tiled(ents, Lo(T[i].ents), Hi(T[i].ents)),
           NEW V, V = Put(T, i, SetEnts(T[i], ents))
    PROVE  /\ Laid(V) /\ V[i].ents = ents /\ V[i] # Null
           /\ \A j \in Id \ {i} : V[j] = T[j]
<1>1. T[i] \in Node /\ ents \in Seq(Entry)
  BY FitIs DEF Nodes, Tiled
<1>2. /\ SetEnts(T[i], ents) \in Node /\ SetEnts(T[i], ents).ents = ents
      /\ SetEnts(T[i], ents).next = T[i].next
  BY <1>1, EntsSet
<1>3. V[i] = SetEnts(T[i], ents) /\ \A j \in Id \ {i} : V[j] = T[j]
  BY DEF Put, Nodes
<1>4. V[i] # Null /\ V[i].ents = ents /\ V[i].next = T[i].next
  BY <1>2, <1>3, NullIsNoNode
<1>5. Lo(ents) = Lo(T[i].ents) /\ Hi(ents) = Hi(T[i].ents) /\ Tiled(ents, Lo(ents), Hi(ents))
  BY TiledEnds
<1>6. \A j \in Id : T[j] # Null => /\ Lo(V[j].ents) = Lo(T[j].ents) /\ Hi(V[j].ents) = Hi(T[j].ents)
                                   /\ V[j].next = T[j].next
                                   /\ Tiled(V[j].ents, Lo(V[j].ents), Hi(V[j].ents))
  BY <1>3, <1>4, <1>5 DEF Laid
<1>7. \A j \in Id : V[j] # Null => T[j] # Null
  BY <1>3
<1>8. head \in Id /\ T[head] # Null
  BY IdIsFinite DEF Chain
<1>9. ASSUME NEW j \in Id, V[j] # Null
      PROVE  Hi(V[j].ents) = IF V[j].next = 0 THEN blk_ed ELSE Lo(V[V[j].next].ents)
  <2>1. T[j] # Null /\ V[j].next = T[j].next /\ Hi(V[j].ents) = Hi(T[j].ents)
    BY <1>6, <1>7, <1>9
  <2>2. Hi(T[j].ents) = IF T[j].next = 0 THEN blk_ed ELSE Lo(T[T[j].next].ents)
    BY <2>1 DEF Laid
  <2>3. T[j].next # 0 => T[j].next \in Id /\ T[T[j].next] # Null
    BY <2>1, Successors
  <2>4. T[j].next # 0 => Lo(V[T[j].next].ents) = Lo(T[T[j].next].ents)
    BY <1>6, <2>3
  <2> QED BY <2>1, <2>2, <2>4
<1>10. Lo(V[head].ents) = blk_st
  BY <1>6, <1>8 DEF Laid
<1>11. Laid(V)
  BY <1>6, <1>7, <1>9, <1>10 DEF Laid
<1> QED BY <1>3, <1>4, <1>11

\* The same for a step.
LEMMA Rewrites ==
    ASSUME CInv, Laid(store), NEW i \in Id, store[i] # Null,
           NEW ents, Tiled(ents, Lo(store[i].ents), Hi(store[i].ents)), Rewritten(i, ents)
    PROVE  /\ Laid(store') /\ store'[i].ents = ents /\ store'[i] # Null
           /\ \A j \in Id \ {i} : store'[j] = store[j]
<1>1. PICK p, n : Chain(store, p, n)
  BY DEF CInv
<1>2. Nodes(store) /\ store' = Put(store, i, SetEnts(store[i], ents))
  BY DEF CInv, Rewritten
<1> QED BY <1>1, <1>2, LaidRewritten

\* What files may have is kept if the node's new extents keep it.
LEMMA KeptRewritten ==
    ASSUME NEW T, NEW i \in Id, NEW V, V[i] # Null, Keeps(T[i].ents, V[i].ents),
           \A j \in Id \ {i} : V[j] = T[j]
    PROVE  KeptIn(T, V)
BY DEF KeptIn, Keeps

\* A node's extents come before those of the nodes after it.
LEMMA Ascending ==
    ASSUME NEW T, NEW p, NEW n, Chain(T, p, n), Laid(T)
    PROVE  \A k, l \in 1 .. n : k < l => Hi(T[p[k]].ents) <= Lo(T[p[l]].ents)
<1>1. /\ n \in Nat \ {0} /\ \A k \in 1 .. n : p[k] \in Id /\ T[p[k]] # Null
  BY NodesOfChain DEF Chain
<1>2. \A k \in 1 .. n : /\ Lo(T[p[k]].ents) \in Nat /\ Hi(T[p[k]].ents) \in Nat
                        /\ Lo(T[p[k]].ents) < Hi(T[p[k]].ents)
  BY <1>1, Within DEF Laid
<1>3. ASSUME NEW k \in 1 .. n, k # 1
      PROVE  Hi(T[p[k - 1]].ents) = Lo(T[p[k]].ents)
  <2>1. k - 1 \in 1 .. n - 1 /\ k - 1 \in 1 .. n /\ T[p[k - 1]].next = p[k] /\ p[k] # 0
    BY <1>1, <1>3, NodesOfChain
  <2>2. p[k - 1] \in Id /\ T[p[k - 1]] # Null
    BY <1>1, <2>1
  <2> QED BY <2>1, <2>2 DEF Laid
<1> DEFINE Good == {l \in 1 .. n : \A k \in 1 .. n : k < l => Hi(T[p[k]].ents) <= Lo(T[p[l]].ents)}
<1>4. ASSUME NEW l \in 1 .. n, l = 1 \/ l - 1 \in Good PROVE l \in Good
  <2>1. CASE l = 1
    BY <2>1
  <2>2. CASE l # 1 /\ l - 1 \in Good
    <3>1. l - 1 \in 1 .. n /\ \A k \in 1 .. n : k < l => k < l - 1 \/ k = l - 1
      BY <1>1, <2>2
    <3>2. Hi(T[p[l - 1]].ents) = Lo(T[p[l]].ents)
      BY <1>3, <2>2
    <3>3. ASSUME NEW k \in 1 .. n, k < l PROVE Hi(T[p[k]].ents) <= Lo(T[p[l]].ents)
      <4>1. CASE k = l - 1
        BY <1>2, <3>2, <4>1
      <4>2. CASE k < l - 1
        <5>1. Hi(T[p[k]].ents) <= Lo(T[p[l - 1]].ents)
          BY <2>2, <4>2
        <5>2. /\ Hi(T[p[k]].ents) \in Nat /\ Lo(T[p[l - 1]].ents) \in Nat
              /\ Hi(T[p[l - 1]].ents) \in Nat
              /\ Lo(T[p[l - 1]].ents) < Hi(T[p[l - 1]].ents)
          BY <1>2, <3>1
        <5> QED BY <3>2, <5>1, <5>2
      <4> QED BY <3>1, <3>3, <4>1, <4>2
    <3> QED BY <3>3
  <2> QED BY <1>4, <2>1, <2>2
<1>5. \A l \in 1 .. n : l \in Good
  <2> HIDE DEF Good
  <2> QED BY <1>1, <1>4, UpTo
<1> QED BY <1>5

\* Two extents of the list do not overlap.
LEMMA Apart ==
    ASSUME NEW T, NEW p, NEW n, Chain(T, p, n), Laid(T),
           NEW i \in Id, T[i] # Null, NEW k \in 1 .. Len(T[i].ents),
           NEW j \in Id, T[j] # Null, NEW l \in 1 .. Len(T[j].ents),
           ~(i = j /\ k = l)
    PROVE  \/ T[i].ents[k].ed <= T[j].ents[l].st
           \/ T[j].ents[l].ed <= T[i].ents[k].st
<1>1. PICK a \in 1 .. n : p[a] = i
  BY DEF Chain
<1>2. PICK b \in 1 .. n : p[b] = j
  BY DEF Chain
<1>3. n \in Nat
  BY DEF Chain
<1> DEFINE s == T[i].ents
           t == T[j].ents
<1>4. Tiled(s, Lo(s), Hi(s)) /\ Tiled(t, Lo(t), Hi(t)) /\ k \in 1 .. Len(s) /\ l \in 1 .. Len(t)
  BY DEF Laid
<1>5. /\ Lo(s) \in Nat /\ Hi(s) \in Nat /\ Lo(s) <= s[k].st /\ s[k].ed <= Hi(s)
      /\ Lo(t) \in Nat /\ Hi(t) \in Nat /\ Lo(t) <= t[l].st /\ t[l].ed <= Hi(t)
      /\ Len(s) \in Nat
  BY <1>4, Within, TiledIs
<1>6. /\ s[k].st \in Nat /\ s[k].ed \in Nat /\ t[l].st \in Nat /\ t[l].ed \in Nat
  BY <1>4, EntryIs DEF Tiled, Sound
<1>7. CASE a = b
  <2>1. i = j /\ s = t /\ k # l
    BY <1>1, <1>2, <1>7
  <2>2. k < l \/ l < k
    BY <1>5, <2>1
  <2>3. \A x, y \in 1 .. Len(s) : x < y => s[x].ed <= s[y].st
    BY <1>4, Within
  <2> HIDE DEF s, t
  <2>4. s[k].ed <= s[l].st \/ s[l].ed <= s[k].st
    BY <1>4, <2>1, <2>2, <2>3
  <2> QED BY <2>1, <2>4 DEF s, t
<1>8. CASE a < b
  <2>1. Hi(s) <= Lo(t)
    BY <1>1, <1>2, <1>8, Ascending
  <2> HIDE DEF s, t
  <2>2. s[k].ed <= t[l].st
    <3>1. s[k].ed <= Lo(t)
      BY <1>5, <1>6, <2>1, SMTT(30)
    <3> QED BY <1>5, <1>6, <3>1, SMTT(30)
  <2> QED BY <2>2 DEF s, t
<1>9. CASE b < a
  <2>1. Hi(t) <= Lo(s)
    BY <1>1, <1>2, <1>9, Ascending
  <2> HIDE DEF s, t
  <2>2. t[l].ed <= s[k].st
    <3>1. t[l].ed <= Lo(s)
      BY <1>5, <1>6, <2>1
    <3> QED BY <1>5, <1>6, <3>1, SMTT(30)
  <2> QED BY <2>2 DEF s, t
<1>10. a = b \/ a < b \/ b < a
  BY <1>3
<1> QED BY <1>7, <1>8, <1>9, <1>10

\* No two extents of the list begin at the same block.
LEMMA OneStart ==
    ASSUME NEW T, NEW p, NEW n, Chain(T, p, n), Laid(T),
           NEW i \in Id, T[i] # Null, NEW k \in 1 .. Len(T[i].ents),
           NEW j \in Id, T[j] # Null, NEW l \in 1 .. Len(T[j].ents),
           T[i].ents[k].st = T[j].ents[l].st
    PROVE  i = j /\ k = l
<1>1. Sound(T[i].ents[k]) /\ Sound(T[j].ents[l])
  BY DEF Laid, Tiled
<1> DEFINE d == T[i].ents[k]
           e == T[j].ents[l]
<1>2. d.st \in Nat /\ d.ed \in Nat /\ e.st \in Nat /\ e.ed \in Nat /\ d.st < d.ed /\ e.st < e.ed
  BY <1>1, SoundIsLong, EntryIs DEF Sound
<1>3. ~(d.ed <= e.st \/ e.ed <= d.st)
  BY <1>2, SMTT(30)
<1> QED BY <1>3, Apart

(***************************************************************************)
(* Each step keeps that, the borrow from the node before excepted.         *)
(***************************************************************************)
LEMMA SweepLays ==
    ASSUME CInv, Laid(store), Swept
    PROVE  Laid(store') /\ KeptIn(store, store')
<1>1. PICK i \in Id : store[i] # Null /\ Rewritten(i, Sweep(store[i].ents))
  BY DEF Swept
<1>2. PICK p, n : Chain(store, p, n)
  BY DEF CInv
<1> DEFINE s == store[i].ents
<1>3. Tiled(Sweep(s), Lo(s), Hi(s)) /\ Keeps(s, Sweep(s))
  BY <1>1, SweepTiled DEF Laid
<1>4. Nodes(store) /\ store' = Put(store, i, SetEnts(store[i], Sweep(s)))
  BY <1>1 DEF CInv, Rewritten
<1>5. /\ Laid(store') /\ store'[i].ents = Sweep(s) /\ store'[i] # Null
      /\ \A j \in Id \ {i} : store'[j] = store[j]
  <2> HIDE DEF s
  <2>1. Tiled(Sweep(s), Lo(store[i].ents), Hi(store[i].ents))
    BY <1>3 DEF s
  <2> QED BY <1>1, <1>2, <1>4, <2>1, LaidRewritten
<1>6. KeptIn(store, store')
  BY <1>3, <1>5, KeptRewritten
<1> QED BY <1>5, <1>6

\* Borrowing from the node after moves the border between two nodes.
LEMMA BorrowLays ==
    ASSUME CInv, Laid(store), BorrowedNext
    PROVE  Laid(store') /\ KeptIn(store, store')
<1>1. PICK p, n : Chain(store, p, n)
  BY DEF CInv
<1>2. PICK i \in Id, j \in Id :
        /\ i # j /\ store[i] # Null /\ store[j] # Null /\ store[i].next = j
        /\ Len(store[j].ents) > 1
        /\ LET first == Head(store[j].ents)
               mid   == Put(store, i, SetEnts(store[i], Append(store[i].ents, first)))
           IN  store' = Put(mid, j, SetEnts(store[j], Tail(store[j].ents)))
  BY DEF BorrowedNext
<1> DEFINE s == store[i].ents
           t == store[j].ents
           first == Head(t)
           longer == Append(s, first)
           rest == Tail(t)
           x == SetEnts(store[i], longer)
           y == SetEnts(store[j], rest)
<1>3. /\ Tiled(s, Lo(s), Hi(s)) /\ Tiled(t, Lo(t), Hi(t)) /\ Hi(s) = Lo(t)
      /\ Nodes(store) /\ store[i] \in Node /\ store[j] \in Node
  <2>1. j # 0
    BY IdIsFinite
  <2> QED BY <1>2, <2>1, FitIs DEF Laid, CInv, Nodes
<1>4. /\ Tiled(rest, first.ed, Hi(t)) /\ Sound(first) /\ first.st = Hi(s) /\ first = t[1]
      /\ \A k \in 2 .. Len(t) : k - 1 \in 1 .. Len(rest) /\ rest[k - 1] = t[k]
  <2> HIDE DEF t
  <2>1. Len(t) > 1
    BY <1>2 DEF t
  <2> QED BY <1>3, <2>1, TiledTail
<1> HIDE DEF first, rest
<1>5. Tiled(longer, Lo(s), first.ed)
  <2> HIDE DEF s
  <2> QED BY <1>3, <1>4, TiledAppend
<1>6. /\ Lo(longer) = Lo(s) /\ Hi(longer) = first.ed /\ Lo(rest) = first.ed /\ Hi(rest) = Hi(t)
      /\ Tiled(longer, Lo(longer), Hi(longer)) /\ Tiled(rest, Lo(rest), Hi(rest))
  <2> HIDE DEF longer
  <2> QED BY <1>4, <1>5, TiledEnds
<1>7. /\ x \in Node /\ x.ents = longer /\ x.next = store[i].next
      /\ y \in Node /\ y.ents = rest /\ y.next = store[j].next
  <2>1. longer \in Seq(Entry) /\ rest \in Seq(Entry)
    BY <1>4, <1>5 DEF Tiled
  <2> HIDE DEF longer
  <2> QED BY <1>3, <2>1, EntsSet
<1>8. store' = Put(Put(store, i, x), j, y)
  BY <1>2 DEF first, rest
<1> HIDE DEF x, y
<1>9. /\ store'[i] = x /\ store'[j] = y /\ x # Null /\ y # Null
      /\ \A l \in Id \ {i, j} : store'[l] = store[l]
  <2>1. store \in [Id -> Node \cup {Null}]
    BY <1>3 DEF Nodes
  <2> QED BY <1>2, <1>7, <1>8, <2>1, NullIsNoNode DEF Put
<1>10. \A l \in Id : (store'[l] # Null <=> store[l] # Null)
                     /\ (store[l] # Null => store'[l].next = store[l].next)
  BY <1>2, <1>7, <1>9
<1>11. \A l \in Id : store[l] # Null =>
         /\ Tiled(store'[l].ents, Lo(store'[l].ents), Hi(store'[l].ents))
         /\ l # j => Lo(store'[l].ents) = Lo(store[l].ents)
         /\ l # i => Hi(store'[l].ents) = Hi(store[l].ents)
  BY <1>6, <1>7, <1>9 DEF Laid
<1>12. ASSUME NEW l \in Id, store[l] # Null
       PROVE  Hi(store'[l].ents) = IF store'[l].next = 0 THEN blk_ed
                                   ELSE Lo(store'[store'[l].next].ents)
  <2>1. CASE l = i
    <3>1. store'[l].next = j /\ j # 0
      BY <1>2, <1>7, <1>9, <2>1, IdIsFinite
    <3> QED BY <1>6, <1>7, <1>9, <2>1, <3>1
  <2>2. CASE l # i
    <3>1. Hi(store[l].ents) = IF store[l].next = 0 THEN blk_ed ELSE Lo(store[store[l].next].ents)
      BY <1>12 DEF Laid
    <3>2. store[l].next # j
      BY <1>1, <1>2, <1>12, <2>2, Successors
    <3>3. store[l].next # 0 => store[l].next \in Id /\ store[store[l].next] # Null
      BY <1>1, <1>12, Successors
    <3>4. store'[l].next = store[l].next /\ Hi(store'[l].ents) = Hi(store[l].ents)
      BY <1>10, <1>11, <1>12, <2>2
    <3>5. store[l].next # 0 => Lo(store'[store[l].next].ents) = Lo(store[store[l].next].ents)
      BY <1>11, <3>2, <3>3
    <3> QED BY <3>1, <3>4, <3>5
  <2> QED BY <2>1, <2>2
<1>13. Lo(store'[head].ents) = blk_st
  <2>1. head \in Id /\ store[head] # Null
    BY <1>1, IdIsFinite DEF Chain
  <2>2. head # j
    BY <1>1, <1>2, IdIsFinite, Successors
  <2> QED BY <1>11, <2>1, <2>2 DEF Laid
<1>14. Laid(store')
  BY <1>10, <1>11, <1>12, <1>13 DEF Laid
<1>15. KeptIn(store, store')
  <2>0. s \in Seq(Entry) /\ first \in Entry
    BY <1>3, <1>4 DEF Tiled, Sound
  <2>1. \A k \in 1 .. Len(s) : k \in 1 .. Len(longer) /\ longer[k] = s[k]
    BY <2>0, AppendProperties
  <2>2. Len(longer) \in 1 .. Len(longer) /\ longer[Len(longer)] = first
    <3>1. Len(s) \in Nat /\ Len(longer) = Len(s) + 1 /\ longer[Len(s) + 1] = first
      BY <2>0, AppendProperties, LenProperties
    <3> HIDE DEF longer
    <3> QED BY <3>1
  <2> HIDE DEF longer, s, t
  <2>3. \A k \in 1 .. Len(t) : k = 1 \/ k \in 2 .. Len(t)
    BY <1>3, TiledIs
  <2>4. ASSUME NEW k \in 1 .. Len(t)
        PROVE  \E m \in Id : store'[m] # Null /\ \E l \in 1 .. Len(store'[m].ents) : store'[m].ents[l] = t[k]
    <3>1. CASE k = 1
      <4>1. store'[i] # Null /\ store'[i].ents = longer
        BY <1>7, <1>9
      <4>2. t[k] = longer[Len(longer)]
        BY <1>4, <2>2, <3>1
      <4> QED BY <2>2, <4>1, <4>2
    <3>2. CASE k \in 2 .. Len(t)
      BY <1>4, <1>7, <1>9, <3>2
    <3> QED BY <2>3, <3>1, <3>2
  <2>5. ASSUME NEW k \in 1 .. Len(s)
        PROVE  \E m \in Id : store'[m] # Null /\ \E l \in 1 .. Len(store'[m].ents) : store'[m].ents[l] = s[k]
    BY <1>7, <1>9, <2>1
  <2>6. ASSUME NEW l \in Id, store[l] # Null, NEW k \in 1 .. Len(store[l].ents)
        PROVE  \E m \in Id : store'[m] # Null /\ \E o \in 1 .. Len(store'[m].ents) :
                 store'[m].ents[o] = store[l].ents[k]
    <3>1. CASE l = i
      BY <2>5, <2>6, <3>1 DEF s
    <3>2. CASE l = j
      BY <2>4, <2>6, <3>2 DEF t
    <3>3. CASE l # i /\ l # j
      BY <1>9, <2>6, <3>3
    <3> QED BY <3>1, <3>2, <3>3
  <2> QED BY <2>6 DEF KeptIn
<1> QED BY <1>14, <1>15

\* Merging two nodes leaves their extents where they were.
LEMMA MergeLays ==
    ASSUME CInv, Laid(store), MergedNodes
    PROVE  Laid(store') /\ KeptIn(store, store')
<1>1. CASE store' = store
  <2>1. KeptIn(store, store)
    BY DEF KeptIn
  <2> QED BY <1>1, <2>1
<1>2. CASE store' # store
  <2>1. PICK p, n : /\ Chain(store, p, n)
                    /\ \E a \in 1 .. n - 1 : a + 1 # n /\ store' = MergedStore(store, p, a)
    BY <1>2 DEF MergedNodes
  <2>2. PICK a \in 1 .. n - 1 : a + 1 # n /\ store' = MergedStore(store, p, a)
    BY <2>1
  <2>3. a \in 1 .. n /\ a # n /\ a + 1 \in 1 .. n /\ a + 2 \in 1 .. n /\ (a + 1) + 1 = a + 2
        /\ a # a + 2
    BY <2>1, <2>2 DEF Chain
  <2> DEFINE i == p[a]
             j == p[a + 1]
             z == p[a + 2]
             s == store[i].ents
             t == store[j].ents
             u == s \o t
             x == Taker(store, p, a)
             y == Beyond(store, p, a)
  <2>4. /\ i \in Id /\ j \in Id /\ z \in Id /\ i # j /\ j # z /\ i # z
        /\ store[i] # Null /\ store[j] # Null /\ store[z] # Null
        /\ store[i].next = j /\ store[j].next = z
    <3>1. i \in Id /\ j \in Id /\ z \in Id
          /\ store[i] # Null /\ store[j] # Null /\ store[z] # Null
      BY <2>1, <2>3, NodesOfChain
    <3>2. store[i].next = j /\ j # i
      BY <2>1, <2>3, NodesOfChain
    <3>3. store[j].next = z /\ z # j
      BY <2>1, <2>2, <2>3, NodesOfChain
    <3>4. i # z
      BY <2>1, <2>3 DEF Chain
    <3> QED BY <3>1, <3>2, <3>3, <3>4
  <2>5. store' = Put(Put(Put(store, i, x), z, y), j, Null)
    BY <2>2 DEF MergedStore
  <2>6. x = SetNext(SetEnts(store[i], u), z) /\ y = SetPrev(store[z], i)
    BY DEF Taker, Beyond
  <2> HIDE DEF x, y, i, j, z
  <2>7. /\ store \in [Id -> Node \cup {Null}] /\ store[i] \in Node /\ store[j] \in Node
        /\ store[z] \in Node /\ 0 \notin Id /\ i \in 0 .. MaxId /\ z \in 0 .. MaxId
        /\ i # 0 /\ j # 0 /\ z # 0
    BY <2>4, FitIs, IdIsFinite, ExtentGeometry DEF CInv, Nodes, Id
  <2>8. Tiled(s, Lo(s), Hi(s)) /\ Tiled(t, Lo(t), Hi(t)) /\ Hi(s) = Lo(t) /\ Hi(t) = Lo(store[z].ents)
    BY <2>4, <2>7 DEF Laid
  <2>9. Tiled(u, Lo(s), Hi(t)) /\ Keeps(s, u) /\ Keeps(t, u)
    <3> HIDE DEF s, t
    <3>1. Tiled(s, Lo(s), Lo(t))
      BY <2>8
    <3> QED BY <2>8, <3>1, TiledConcat
  <2> HIDE DEF u
  <2>10. Lo(u) = Lo(s) /\ Hi(u) = Hi(t) /\ Tiled(u, Lo(u), Hi(u)) /\ u \in Seq(Entry)
    BY <2>9, TiledEnds DEF Tiled
  <2>11. x \in Node /\ x.ents = u /\ x.next = z
    <3>1. PICK mid : mid = SetEnts(store[i], u)
      OBVIOUS
    <3>2. mid \in Node /\ mid.ents = u
      BY <2>7, <2>10, <3>1, EntsSet
    <3> QED BY <2>6, <2>7, <3>1, <3>2, NextSet
  <2>12. y \in Node /\ y.ents = store[z].ents /\ y.next = store[z].next
    BY <2>6, <2>7, PrevSet
  <2>13. /\ store'[i] = x /\ store'[z] = y /\ store'[j] = Null /\ x # Null /\ y # Null
         /\ \A l \in Id \ {i, j, z} : store'[l] = store[l]
    BY <2>4, <2>5, <2>7, <2>11, <2>12, NullIsNoNode DEF Put
  <2>14. \A l \in Id : store'[l] # Null => store[l] # Null /\ l # j
    BY <2>4, <2>13
  <2>15. \A l \in Id : store[l] # Null /\ l # j =>
           /\ Tiled(store'[l].ents, Lo(store'[l].ents), Hi(store'[l].ents))
           /\ Lo(store'[l].ents) = Lo(store[l].ents)
           /\ l # i => Hi(store'[l].ents) = Hi(store[l].ents) /\ store'[l].next = store[l].next
    BY <2>4, <2>10, <2>11, <2>12, <2>13 DEF Laid
  <2>16. ASSUME NEW l \in Id, store'[l] # Null
         PROVE  Hi(store'[l].ents) = IF store'[l].next = 0 THEN blk_ed
                                     ELSE Lo(store'[store'[l].next].ents)
    <3>1. CASE l = i
      <4>1. store'[l].next = z /\ Hi(store'[l].ents) = Lo(store[z].ents)
        BY <2>8, <2>10, <2>11, <2>13, <3>1
      <4>2. Lo(store'[z].ents) = Lo(store[z].ents)
        BY <2>12, <2>13
      <4> QED BY <2>7, <4>1, <4>2
    <3>2. CASE l # i
      <4>1. store[l] # Null /\ l # j
        BY <2>14, <2>16
      <4>2. Hi(store[l].ents) = IF store[l].next = 0 THEN blk_ed ELSE Lo(store[store[l].next].ents)
        BY <4>1 DEF Laid
      <4>3. store[l].next # j
        BY <2>1, <2>4, <3>2, <4>1, Successors
      <4>4. store[l].next # 0 => store[l].next \in Id /\ store[store[l].next] # Null
        BY <2>1, <4>1, Successors
      <4>5. store'[l].next = store[l].next /\ Hi(store'[l].ents) = Hi(store[l].ents)
        BY <2>15, <3>2, <4>1
      <4>6. store[l].next # 0 => Lo(store'[store[l].next].ents) = Lo(store[store[l].next].ents)
        BY <2>15, <4>3, <4>4
      <4> QED BY <4>2, <4>5, <4>6
    <3> QED BY <3>1, <3>2
  <2>17. Lo(store'[head].ents) = blk_st
    <3>1. head \in Id /\ store[head] # Null
      BY <2>1, IdIsFinite DEF Chain
    <3>2. head # j
      BY <2>1, <2>4, <2>7, Successors
    <3> QED BY <2>15, <3>1, <3>2 DEF Laid
  <2>18. Laid(store')
    BY <2>14, <2>15, <2>16, <2>17 DEF Laid
  <2>19. ASSUME NEW l \in Id, store[l] # Null, NEW k \in 1 .. Len(store[l].ents),
                store[l].ents[k].free = 0, store[l].ents[k].junk = 0
         PROVE  \E m \in Id : store'[m] # Null /\ \E o \in 1 .. Len(store'[m].ents) :
                  store'[m].ents[o] = store[l].ents[k]
    <3>1. store'[i] # Null /\ store'[i].ents = u
      BY <2>11, <2>13
    <3>2. CASE l = i
      <4>1. \E o \in 1 .. Len(u) : u[o] = s[k]
        BY <2>9, <2>19, <3>2 DEF Keeps
      <4> QED BY <2>4, <3>1, <3>2, <4>1
    <3>3. CASE l = j
      <4>1. \E o \in 1 .. Len(u) : u[o] = t[k]
        BY <2>9, <2>19, <3>3 DEF Keeps
      <4> QED BY <2>4, <3>1, <3>3, <4>1
    <3>4. CASE l = z
      BY <2>4, <2>12, <2>13, <2>19, <3>4
    <3>5. CASE l \notin {i, j, z}
      BY <2>13, <2>19, <3>5
    <3> QED BY <3>2, <3>3, <3>4, <3>5
  <2> QED BY <2>18, <2>19 DEF KeptIn
<1> QED BY <1>1, <1>2

\* The extents of ents are in the nodes of V.
AllIn(ents, V) ==
    \A k \in 1 .. Len(ents) :
      \E j \in Id : V[j] # Null /\ \E l \in 1 .. Len(V[j].ents) : V[j].ents[l] = ents[k]

\* Splitting a node leaves its extents where they were.
LEMMA SplitLays ==
    ASSUME Nodes(store), NEW p, NEW n, Chain(store, p, n), Laid(store), FreeId # {},
           NEW i \in Id, store[i] # Null,
           NEW ents, Tiled(ents, Lo(store[i].ents), Hi(store[i].ents)),
           Len(ents) = Ext_Node_Degree,
           NEW V, V = SplitNode(i, SetEnts(store[i], ents))
    PROVE  /\ Laid(V) /\ AllIn(ents, V)
           /\ \A j \in Id \ {i} : store[j] # Null => V[j] = store[j]
<1> DEFINE x == alloc_obj
           a == SubSeq(ents, 1, H)
           b == SubSeq(ents, H + 1, 2 * H)
           node == SetEnts(store[i], ents)
           low == SetNext(SetEnts(node, a), x)
           high == NewNode(i, node)
           s == store[i].ents
<1>1. /\ x \in Id /\ store[x] = Null /\ x # i /\ x # 0 /\ x \in 0 .. MaxId /\ i # 0
      /\ i \in 0 .. MaxId
  BY Allocated, IdIsFinite, ExtentGeometry DEF Id
<1> HIDE DEF x
<1>2. /\ store[i] \in Node /\ store \in [Id -> Node \cup {Null}] /\ ents \in Seq(Entry)
      /\ store[i].next \in 0 .. MaxId
  BY FitIs DEF Nodes, Tiled
<1>3. /\ Tiled(a, Lo(s), ents[H].ed) /\ Tiled(b, ents[H].ed, Hi(s))
      /\ \A k \in 1 .. Len(ents) : \/ k \in 1 .. Len(a) /\ a[k] = ents[k]
                                   \/ k - H \in 1 .. Len(b) /\ b[k - H] = ents[k]
  <2>1. H \in 1 .. Len(ents) - 1 /\ b = SubSeq(ents, H + 1, Len(ents))
    BY Degree
  <2>2. PICK lo, hi : lo = Lo(s) /\ hi = Hi(s)
    OBVIOUS
  <2>3. Tiled(ents, lo, hi) /\ a = SubSeq(ents, 1, H)
    BY <2>2
  <2> HIDE DEF a, b, s
  <2>4. /\ Tiled(a, lo, ents[H].ed) /\ Tiled(b, ents[H].ed, hi)
        /\ \A k \in 1 .. Len(ents) : \/ k \in 1 .. Len(a) /\ a[k] = ents[k]
                                     \/ k - H \in 1 .. Len(b) /\ b[k - H] = ents[k]
    BY <2>1, <2>3, TiledCut DEF IsCut
  <2> QED BY <2>2, <2>4
<1> HIDE DEF a, b
<1>4. /\ Lo(a) = Lo(s) /\ Hi(a) = ents[H].ed /\ Tiled(a, Lo(a), Hi(a)) /\ a \in Seq(Entry)
      /\ Lo(b) = ents[H].ed /\ Hi(b) = Hi(s) /\ Tiled(b, Lo(b), Hi(b)) /\ b \in Seq(Entry)
  BY <1>3, TiledEnds DEF Tiled
<1>5. node \in Node /\ node.ents = ents /\ node.next = store[i].next
  BY <1>2, EntsSet
<1> HIDE DEF node
<1>6. low \in Node /\ low.ents = a /\ low.next = x
  <2>1. PICK mid : mid = SetEnts(node, a)
    OBVIOUS
  <2>2. mid \in Node /\ mid.ents = a
    BY <1>4, <1>5, <2>1, EntsSet
  <2> QED BY <1>1, <2>1, <2>2, NextSet
<1>7. high \in Node /\ high.ents = b /\ high.next = store[i].next
  <2>1. high = [ents |-> b, prev |-> i, next |-> store[i].next]
    BY <1>5 DEF NewNode, b
  <2> QED BY <1>1, <1>2, <1>4, <2>1 DEF Node
<1>8. V = [store EXCEPT ![i] = low, ![x] = high]
  <2>1. V = [store EXCEPT ![i] = [node EXCEPT !.ents = SubSeq(@, 1, H), !.next = x], ![x] = high]
    BY DEF SplitNode, node, x
  <2>2. [node EXCEPT !.ents = SubSeq(@, 1, H), !.next = x] = low
    BY <1>5 DEF SetEnts, SetNext, a
  <2> QED BY <2>1, <2>2
<1> HIDE DEF low, high
<1>9. /\ V[i] = low /\ V[x] = high /\ low # Null /\ high # Null
      /\ \A j \in Id \ {i, x} : V[j] = store[j]
  BY <1>1, <1>2, <1>6, <1>7, <1>8, NullIsNoNode
<1>10. \A j \in Id : store[j] # Null => Lo(V[j].ents) = Lo(store[j].ents) /\ j # x
  BY <1>1, <1>4, <1>6, <1>9
<1>11. ASSUME NEW j \in Id, V[j] # Null
       PROVE  /\ Tiled(V[j].ents, Lo(V[j].ents), Hi(V[j].ents))
              /\ Hi(V[j].ents) = IF V[j].next = 0 THEN blk_ed ELSE Lo(V[V[j].next].ents)
  <2>1. ASSUME NEW k \in Id, store[k] # Null
        PROVE  Hi(store[k].ents) = IF store[k].next = 0 THEN blk_ed
                                   ELSE Lo(V[store[k].next].ents)
    <3>1. Hi(store[k].ents) = IF store[k].next = 0 THEN blk_ed ELSE Lo(store[store[k].next].ents)
      BY <2>1 DEF Laid
    <3>2. store[k].next # 0 => store[k].next \in Id /\ store[store[k].next] # Null
      BY <2>1, Successors
    <3> QED BY <1>10, <3>1, <3>2
  <2>2. CASE j = i
    BY <1>1, <1>4, <1>6, <1>7, <1>9, <2>2
  <2>3. CASE j = x
    BY <1>4, <1>7, <1>9, <2>1, <2>3
  <2>4. CASE j # i /\ j # x
    <3>1. V[j] = store[j] /\ store[j] # Null
      BY <1>9, <1>11, <2>4
    <3> QED BY <2>1, <3>1 DEF Laid
  <2> QED BY <2>2, <2>3, <2>4
<1>12. Lo(V[head].ents) = blk_st
  BY <1>10, IdIsFinite DEF Laid, Chain
<1>13. Laid(V)
  BY <1>11, <1>12 DEF Laid
<1>14. ASSUME NEW k \in 1 .. Len(ents)
       PROVE  \E j \in Id : V[j] # Null /\ \E l \in 1 .. Len(V[j].ents) : V[j].ents[l] = ents[k]
  <2>1. CASE k \in 1 .. Len(a) /\ a[k] = ents[k]
    BY <1>6, <1>9, <2>1
  <2>2. CASE k - H \in 1 .. Len(b) /\ b[k - H] = ents[k]
    BY <1>1, <1>7, <1>9, <2>2
  <2> QED BY <1>3, <2>1, <2>2
<1>15. \A j \in Id \ {i} : store[j] # Null => V[j] = store[j]
  BY <1>1, <1>9
<1> QED BY <1>13, <1>14, <1>15 DEF AllIn

(***************************************************************************)
(* An extent handed out, and given back.                                   *)
(***************************************************************************)

\* The two parts of an extent that has room for more than one.
LEMMA PartsAreSound ==
    ASSUME NEW e, Sound(e), e.free > 1
    PROVE  /\ Sound(First(e)) /\ First(e).st = e.st /\ First(e).ed = Rest(e).st
           /\ First(e).free = 0 /\ First(e).junk = 0
           /\ Sound(Rest(e)) /\ Rest(e).ed = e.ed
<1>1. /\ e \in Entry /\ e.free \in Nat /\ e.st \in Nat /\ e.ed \in Nat /\ e.ed <= blk_ed
      /\ e.junk = 0 /\ Units(e) = e.free /\ blk_ed \in Nat
  BY EntryIs, ExtentGeometry DEF Sound, Units
<1> DEFINE f == e.free - 1
           w == f * ext_size
<1>2. f \in Nat /\ f # 0 /\ e.free = f + 1
  BY <1>1
<1>3. /\ w \in Nat /\ e.free * ext_size = w + ext_size /\ ext_size \in Nat \ {0} /\ w >= ext_size
      /\ 1 * ext_size = ext_size
  BY <1>2, Products
<1>4. /\ e.st + e.free * ext_size <= e.ed /\ e.ed < e.st + e.free * ext_size + ext_size
      /\ e.ed = e.st + e.free * ext_size \/ e.ed = blk_ed
  BY <1>1 DEF Sound
<1>5. /\ First(e) \in Entry /\ First(e).free = 0 /\ First(e).st = e.st
      /\ First(e).ed = Cut(e) /\ First(e).junk = 0
      /\ Rest(e) \in Entry /\ Rest(e).free = f /\ Rest(e).st = Cut(e)
      /\ Rest(e).ed = e.ed /\ Rest(e).junk = 0
  BY <1>1, SplitIs
<1> HIDE DEF w
<1>6. Cut(e) = e.st + ext_size
  BY <1>1, <1>3, <1>4 DEF Cut
<1>7. Units(First(e)) = 1 /\ Units(Rest(e)) = f
  BY <1>2, <1>5 DEF Units
<1>8. Sound(First(e))
  <2>1. /\ e.st + 1 * ext_size <= e.st + ext_size
        /\ e.st + ext_size < e.st + 1 * ext_size + ext_size
        /\ e.st + ext_size = e.st + 1 * ext_size
    BY <1>1, <1>3
  <2> QED BY <1>5, <1>6, <1>7, <2>1 DEF Sound
<1>9. Sound(Rest(e))
  <2>1. /\ (e.st + ext_size) + w <= e.ed /\ e.ed < (e.st + ext_size) + w + ext_size
        /\ e.ed = (e.st + ext_size) + w \/ e.ed = blk_ed
    BY <1>1, <1>3, <1>4
  <2> QED BY <1>5, <1>6, <1>7, <2>1 DEF Sound, w
<1> QED BY <1>5, <1>8, <1>9

\* An extent of one unit, handed out whole.
LEMMA TakenIsSound ==
    ASSUME NEW e, Sound(e), e.free = 1
    PROVE  LET x == SetFree(e, 0)
           IN  Sound(x) /\ x.st = e.st /\ x.ed = e.ed /\ x.free = 0 /\ x.junk = 0
<1>1. e \in Entry /\ e.junk = 0 /\ Units(e) = 1
  BY DEF Sound, Units
<1> DEFINE x == SetFree(e, 0)
<1>2. x \in Entry /\ x.free = 0 /\ x.st = e.st /\ x.ed = e.ed /\ x.junk = 0
  BY <1>1, FreeSet
<1> HIDE DEF x
<1>3. Units(x) = 1
  BY <1>2 DEF Units
<1>4. Sound(x)
  BY <1>1, <1>2, <1>3 DEF Sound
<1> QED BY <1>2, <1>4 DEF x

\* An extent in two parts.
LEMMA TiledParts ==
    ASSUME NEW s, NEW lo, NEW hi, Tiled(s, lo, hi), NEW i \in 1 .. Len(s),
           NEW x, NEW y, Sound(x), Sound(y),
           x.st = s[i].st, x.ed = y.st, y.ed = s[i].ed,
           NEW t, t = ReplaceBy(s, i, <<x, y>>)
    PROVE  /\ Tiled(t, lo, hi) /\ Len(t) = Len(s) + 1 /\ t[i] = x /\ i \in 1 .. Len(t)
           /\ \A k \in 1 .. Len(s) : k # i => \E l \in 1 .. Len(t) : t[l] = s[k]
<1> DEFINE n == Len(s)
<1>1. /\ s \in Seq(Entry) /\ n \in Nat \ {0} /\ x \in Entry /\ y \in Entry
      /\ \A k \in 1 .. n : Sound(s[k])
      /\ \A k \in 1 .. n - 1 : s[k].ed = s[k + 1].st
      /\ s[1].st = lo /\ s[n].ed = hi
  BY TiledIs DEF Tiled, Sound
<1>2. /\ t \in Seq(Entry) /\ Len(t) = n + 1
      /\ \A k \in 1 .. i - 1 : t[k] = s[k]
      /\ t[i] = x /\ t[i + 1] = y
      /\ \A k \in i + 1 .. n : t[k + 1] = s[k]
  <2>1. IsReplaced(ReplaceBy(s, i, <<x, y>>), s, i, x, y)
    BY <1>1, Replaced
  <2>2. IsReplaced(t, s, i, x, y)
    BY <2>1
  <2> QED BY <2>2 DEF IsReplaced
<1>3. i \in 1 .. n /\ i \in Nat
  OBVIOUS
<1> HIDE DEF n
<1>4. ASSUME NEW k \in 1 .. n + 1
      PROVE  \/ k \in 1 .. i - 1 /\ k \in 1 .. n
             \/ k = i
             \/ k = i + 1
             \/ k - 1 \in i + 1 .. n /\ k - 1 \in 1 .. n /\ (k - 1) + 1 = k
  BY <1>1, <1>3
<1>5. \A k \in 1 .. n + 1 : Sound(t[k])
  <2> TAKE k \in 1 .. n + 1
  <2>1. CASE k \in 1 .. i - 1 /\ k \in 1 .. n
    BY <1>1, <1>2, <2>1
  <2>2. CASE k = i
    BY <1>2, <2>2
  <2>3. CASE k = i + 1
    BY <1>2, <2>3
  <2>4. CASE k - 1 \in i + 1 .. n /\ k - 1 \in 1 .. n /\ (k - 1) + 1 = k
    <3>1. t[k] = s[k - 1]
      BY <1>2, <2>4
    <3> QED BY <1>1, <2>4, <3>1
  <2> QED BY <1>4, <2>1, <2>2, <2>3, <2>4
<1>6. ASSUME NEW k \in 1 .. (n + 1) - 1 PROVE t[k].ed = t[k + 1].st
  <2>1. CASE k \in 1 .. i - 2
    <3>1. k \in 1 .. i - 1 /\ k + 1 \in 1 .. i - 1 /\ k \in 1 .. n - 1
      BY <1>1, <1>3, <2>1
    <3> QED BY <1>1, <1>2, <3>1
  <2>2. CASE k = i - 1
    <3>1. k \in 1 .. i - 1 /\ k + 1 = i /\ k \in 1 .. n - 1
      BY <1>1, <1>3, <2>2
    <3> QED BY <1>1, <1>2, <3>1
  <2>3. CASE k = i
    BY <1>2, <2>3
  <2>4. CASE k = i + 1
    <3>1. i + 1 \in i + 1 .. n /\ i \in 1 .. n - 1 /\ k + 1 = (i + 1) + 1
      BY <1>1, <1>3, <2>4
    <3>2. t[k + 1] = s[i + 1]
      BY <1>2, <3>1
    <3> QED BY <1>1, <1>2, <2>4, <3>1, <3>2
  <2>5. CASE k \in i + 2 .. n
    <3>1. /\ k - 1 \in i + 1 .. n /\ (k - 1) + 1 = k /\ k \in i + 1 .. n /\ k - 1 \in 1 .. n - 1
      BY <1>1, <1>3, <2>5
    <3>2. t[k] = s[k - 1] /\ t[k + 1] = s[k]
      BY <1>2, <3>1
    <3>3. s[k - 1].ed = s[(k - 1) + 1].st
      BY <1>1, <3>1
    <3> QED BY <3>1, <3>2, <3>3
  <2>6. k \in 1 .. i - 2 \/ k = i - 1 \/ k = i \/ k = i + 1 \/ k \in i + 2 .. n
    BY <1>1, <1>3
  <2> QED BY <2>1, <2>2, <2>3, <2>4, <2>5, <2>6
<1>7. t[1].st = lo
  <2>1. i = 1 \/ 1 \in 1 .. i - 1
    BY <1>3
  <2> QED BY <1>1, <1>2, <2>1
<1>8. t[n + 1].ed = hi
  <2>1. i = n \/ n \in i + 1 .. n
    BY <1>1, <1>3
  <2> QED BY <1>1, <1>2, <2>1
<1>9. n + 1 >= 1 /\ i \in 1 .. n + 1
  BY <1>1, <1>3
<1>10. Tiled(t, lo, hi)
  BY <1>2, <1>5, <1>6, <1>7, <1>8, <1>9 DEF Tiled
<1>11. ASSUME NEW k \in 1 .. n, k # i PROVE \E l \in 1 .. n + 1 : t[l] = s[k]
  <2>1. \/ k \in 1 .. i - 1 /\ k \in 1 .. n + 1
        \/ k \in i + 1 .. n /\ k + 1 \in 1 .. n + 1
    BY <1>1, <1>3, <1>11
  <2> QED BY <1>2, <2>1
<1> QED BY <1>2, <1>9, <1>10, <1>11 DEF n

\* Handing out an extent of a node keeps the node tiled, and what other files have.
LEMMA HandedTiled ==
    ASSUME NEW s, NEW lo, NEW hi, Tiled(s, lo, hi), NEW i \in 1 .. Len(s), s[i].free > 0,
           NEW t, t = Handed(s, i)
    PROVE  /\ Tiled(t, lo, hi) /\ i \in 1 .. Len(t)
           /\ t[i].st = s[i].st /\ t[i].free = 0 /\ t[i].junk = 0
           /\ Keeps(s, t)
<1>1. Sound(s[i]) /\ s[i].free \in Nat
  BY EntryIs DEF Tiled, Sound
<1>2. CASE s[i].free = 1
  <2>1. PICK x : x = SetFree(s[i], 0)
    OBVIOUS
  <2>2. /\ Sound(x) /\ x.st = s[i].st /\ x.ed = s[i].ed /\ x.free = 0 /\ x.junk = 0
    BY <1>1, <1>2, <2>1, TakenIsSound
  <2>3. t = [s EXCEPT ![i] = x]
    BY <1>2, <2>1 DEF Handed, SetFree
  <2>4. /\ Tiled(t, lo, hi) /\ Len(t) = Len(s) /\ t[i] = x
        /\ \A k \in 1 .. Len(s) : k # i => t[k] = s[k]
    <3>1. IsChanged([s EXCEPT ![i] = x], s, i, x, lo, hi)
      BY <2>2, TiledSame
    <3>2. IsChanged(t, s, i, x, lo, hi)
      BY <2>3, <3>1
    <3> QED BY <3>2 DEF IsChanged
  <2>5. Keeps(s, t)
    BY <1>2, <2>4 DEF Keeps
  <2> QED BY <2>2, <2>4, <2>5
<1>3. CASE s[i].free > 1
  <2>1. PICK x, y : x = First(s[i]) /\ y = Rest(s[i])
    OBVIOUS
  <2>2. /\ Sound(x) /\ x.st = s[i].st /\ x.ed = y.st /\ x.free = 0 /\ x.junk = 0
        /\ Sound(y) /\ y.ed = s[i].ed
    BY <1>1, <1>3, <2>1, PartsAreSound
  <2>3. t = ReplaceBy(s, i, <<x, y>>)
    BY <1>1, <1>3, <2>1, SplitIs, SMTT(30) DEF Handed, Sound
  <2>4. /\ Tiled(t, lo, hi) /\ Len(t) = Len(s) + 1 /\ t[i] = x /\ i \in 1 .. Len(t)
        /\ \A k \in 1 .. Len(s) : k # i => \E l \in 1 .. Len(t) : t[l] = s[k]
    BY <2>2, <2>3, TiledParts, SMTT(30)
  <2>5. Keeps(s, t)
    BY <1>3, <2>4 DEF Keeps
  <2> QED BY <2>2, <2>4, <2>5
<1>4. s[i].free = 1 \/ s[i].free > 1
  BY <1>1
<1> QED BY <1>2, <1>3, <1>4

\* An extent that a file had, marked as junk or not.
LEMMA JunkIsSound ==
    ASSUME NEW e, Sound(e), e.free = 0, NEW junk \in {0, 1}
    PROVE  LET x == SetJunk(e, junk)
           IN  Sound(x) /\ x.st = e.st /\ x.ed = e.ed
<1>1. e \in Entry /\ Units(e) = 1
  BY DEF Sound, Units
<1> DEFINE x == SetJunk(e, junk)
<1>2. x \in Entry /\ x.free = 0 /\ x.st = e.st /\ x.ed = e.ed
  BY <1>1, JunkSet
<1> HIDE DEF x
<1>3. Units(x) = 1
  BY <1>2 DEF Units
<1>4. Sound(x)
  BY <1>1, <1>2, <1>3 DEF Sound
<1> QED BY <1>2, <1>4 DEF x

\* putExt marks the file's extent and no other.
LEMMA PutLays ==
    ASSUME CInv, Laid(store), HeldIn(store, held), NEW f \in File, held[f] # NoFile,
           NEW junk \in {0, 1}, PutBack(f, junk), held' = [held EXCEPT ![f] = NoFile]
    PROVE  Laid(store') /\ HeldIn(store', held')
<1>1. PICK p, n : Chain(store, p, n)
  BY DEF CInv
<1>2. /\ Nodes(store) /\ held'[f] = NoFile /\ \A g \in File \ {f} : held'[g] = held[g]
  BY DEF CInv
<1>3. CASE store' = store
  BY <1>2, <1>3 DEF HeldIn
<1>4. ASSUME NEW i \in Id, NEW k \in 1 .. Len(store[i].ents),
             store[i] # Null, store[i].ents[k].st = held[f].st,
             Rewritten(i, [store[i].ents EXCEPT ![k] = SetJunk(store[i].ents[k], junk)])
      PROVE  Laid(store') /\ HeldIn(store', held')
  <2> DEFINE s == store[i].ents
             x == SetJunk(s[k], junk)
             t == [s EXCEPT ![k] = x]
  <2>1. PICK j \in Id : store[j] # Null /\ \E l \in 1 .. Len(store[j].ents) : Gives(store[j].ents[l], held[f])
    BY DEF HeldIn
  <2>2. PICK l \in 1 .. Len(store[j].ents) : Gives(store[j].ents[l], held[f])
    BY <2>1
  <2>3. i = j /\ k = l
    BY <1>1, <1>4, <2>1, <2>2, OneStart, SMTT(30) DEF Gives
  <2>4. s[k].free = 0 /\ Tiled(s, Lo(s), Hi(s)) /\ Sound(s[k])
    BY <1>4, <2>2, <2>3 DEF Gives, Laid, Tiled
  <2>5. Sound(x) /\ x.st = s[k].st /\ x.ed = s[k].ed
    BY <2>4, JunkIsSound
  <2>6. Tiled(t, Lo(s), Hi(s)) /\ Len(t) = Len(s) /\ \A m \in 1 .. Len(s) : m # k => t[m] = s[m]
    <3>1. PICK lo, hi : lo = Lo(s) /\ hi = Hi(s)
      OBVIOUS
    <3> HIDE DEF x
    <3>2. IsChanged([s EXCEPT ![k] = x], s, k, x, lo, hi)
      BY <1>4, <2>4, <2>5, <3>1, TiledSame
    <3>3. IsChanged(t, s, k, x, lo, hi)
      BY <3>2
    <3> HIDE DEF t, s
    <3> QED BY <3>1, <3>3 DEF IsChanged
  <2>7. store' = Put(store, i, SetEnts(store[i], t))
    BY <1>4 DEF Rewritten
  <2> HIDE DEF t
  <2>8. /\ Laid(store') /\ store'[i].ents = t /\ store'[i] # Null
        /\ \A m \in Id \ {i} : store'[m] = store[m]
    <3>1. Tiled(t, Lo(store[i].ents), Hi(store[i].ents)) /\ Rewritten(i, t)
      BY <1>4, <2>6, <2>7 DEF Rewritten
    <3> HIDE DEF s, x
    <3> QED BY <1>4, <3>1, Rewrites
  <2>9. ASSUME NEW g \in File, held'[g] # NoFile
        PROVE  \E m \in Id : store'[m] # Null /\ \E o \in 1 .. Len(store'[m].ents) :
                 Gives(store'[m].ents[o], held'[g])
    <3>1. g # f /\ held'[g] = held[g] /\ held[g] # NoFile
      BY <1>2, <2>9
    <3>2. held[g].st # held[f].st
      BY <3>1 DEF HeldIn
    <3>3. PICK m \in Id : store[m] # Null /\ \E o \in 1 .. Len(store[m].ents) : Gives(store[m].ents[o], held[g])
      BY <3>1 DEF HeldIn
    <3>4. PICK o \in 1 .. Len(store[m].ents) : Gives(store[m].ents[o], held[g])
      BY <3>3
    <3>5. CASE m = i
      <4>1. o # k
        BY <1>4, <3>2, <3>4, <3>5 DEF Gives
      <4>2. o \in 1 .. Len(t) /\ t[o] = s[o]
        BY <2>6, <3>4, <3>5, <4>1
      <4> QED BY <2>8, <3>1, <3>4, <3>5, <4>2
    <3>6. CASE m # i
      BY <2>8, <3>1, <3>3, <3>4, <3>6
    <3> QED BY <3>5, <3>6
  <2>10. \A g, h \in File : g # h /\ held'[g] # NoFile /\ held'[h] # NoFile => held'[g].st # held'[h].st
    BY <1>2 DEF HeldIn
  <2> QED BY <2>8, <2>9, <2>10 DEF HeldIn
<1> QED BY <1>3, <1>4 DEF PutBack

\* getNewExt gives a file an extent that was free, and no other file has it.
LEMMA GetLays ==
    ASSUME CInv, Laid(store), HeldIn(store, held), NEW f \in File, HandedOut(f)
    PROVE  Laid(store') /\ HeldIn(store', held')
<1>1. PICK p, n : Chain(store, p, n)
  BY DEF CInv
<1>2. PICK i \in Id : \E k \in 1 .. Len(store[i].ents) : HandedFrom(f, i, k)
  BY DEF HandedOut
<1>3. PICK k \in 1 .. Len(store[i].ents) : HandedFrom(f, i, k)
  BY <1>2
<1> DEFINE s == store[i].ents
           t == Handed(s, k)
<1>4. /\ Nodes(store) /\ held \in [File -> Desc \cup {NoFile}] /\ Tiled(s, Lo(s), Hi(s))
      /\ store[i] # Null /\ s[k].free > 0
      /\ held' = [held EXCEPT ![f] = [st |-> t[k].st, ed |-> t[k].ed]]
      /\ \/ Rewritten(i, t)
         \/ Len(t) = Ext_Node_Degree /\ FreeId # {} /\ store' = SplitNode(i, SetEnts(store[i], t))
  BY <1>3 DEF CInv, Laid, HandedFrom
<1>5. /\ Tiled(t, Lo(s), Hi(s)) /\ k \in 1 .. Len(t)
      /\ t[k].st = s[k].st /\ t[k].free = 0 /\ t[k].junk = 0 /\ Keeps(s, t)
  <2>1. k \in 1 .. Len(s)
    BY <1>2
  <2> HIDE DEF s
  <2> QED BY <1>4, <2>1, HandedTiled
<1> HIDE DEF t
<1>6. Laid(store') /\ KeptIn(store, store') /\ AllIn(t, store')
  <2>1. CASE Rewritten(i, t)
    <3>1. store' = Put(store, i, SetEnts(store[i], t))
      BY <2>1 DEF Rewritten
    <3>2. /\ Laid(store') /\ store'[i].ents = t /\ store'[i] # Null
          /\ \A m \in Id \ {i} : store'[m] = store[m]
      <4>1. /\ Tiled(t, Lo(store[i].ents), Hi(store[i].ents)) /\ store[i] # Null
            /\ Nodes(store)
        BY <1>4, <1>5
      <4> HIDE DEF s
      <4> QED BY <1>1, <3>1, <4>1, LaidRewritten
    <3>3. KeptIn(store, store')
      BY <1>5, <3>2, KeptRewritten
    <3>4. AllIn(t, store')
      BY <3>2 DEF AllIn
    <3> QED BY <3>2, <3>3, <3>4
  <2>2. CASE Len(t) = Ext_Node_Degree /\ FreeId # {} /\ store' = SplitNode(i, SetEnts(store[i], t))
    <3>1. /\ Laid(store') /\ AllIn(t, store')
          /\ \A j \in Id \ {i} : store[j] # Null => store'[j] = store[j]
      BY <1>1, <1>4, <1>5, <2>2, SplitLays
    <3>2. ASSUME NEW j \in Id, store[j] # Null, NEW l \in 1 .. Len(store[j].ents),
                 store[j].ents[l].free = 0, store[j].ents[l].junk = 0
          PROVE  \E m \in Id : store'[m] # Null /\ \E o \in 1 .. Len(store'[m].ents) :
                   store'[m].ents[o] = store[j].ents[l]
      <4>1. CASE j = i
        <5>1. PICK o \in 1 .. Len(t) : t[o] = store[j].ents[l]
          BY <1>5, <3>2, <4>1 DEF Keeps
        <5> QED BY <3>1, <5>1 DEF AllIn
      <4>2. CASE j # i
        BY <3>1, <3>2, <4>2
      <4> QED BY <4>1, <4>2
    <3> QED BY <3>1, <3>2 DEF KeptIn
  <2> QED BY <1>4, <2>1, <2>2
<1>7. HeldIn(store', held)
  BY <1>6, HeldAreKept
<1>8. held'[f] = [st |-> t[k].st, ed |-> t[k].ed] /\ \A g \in File \ {f} : held'[g] = held[g]
  BY <1>4
<1>9. \E m \in Id : store'[m] # Null /\ \E o \in 1 .. Len(store'[m].ents) :
        Gives(store'[m].ents[o], held'[f])
  <2>1. PICK m \in Id : store'[m] # Null /\ \E o \in 1 .. Len(store'[m].ents) : store'[m].ents[o] = t[k]
    BY <1>5, <1>6 DEF AllIn
  <2>2. Gives(t[k], held'[f])
    BY <1>5, <1>8 DEF Gives
  <2> QED BY <2>1, <2>2
<1>10. ASSUME NEW g \in File \ {f}, held[g] # NoFile PROVE held[g].st # held'[f].st
  <2>1. PICK j \in Id : store[j] # Null /\ \E l \in 1 .. Len(store[j].ents) : Gives(store[j].ents[l], held[g])
    BY <1>10 DEF HeldIn
  <2>2. PICK l \in 1 .. Len(store[j].ents) : Gives(store[j].ents[l], held[g])
    BY <2>1
  <2>3. ~(i = j /\ k = l)
    BY <1>4, <2>2 DEF Gives
  <2>4. s[k].st # store[j].ents[l].st
    BY <1>1, <1>4, <2>1, <2>2, <2>3, OneStart
  <2> QED BY <1>5, <1>8, <2>2, <2>4 DEF Gives
<1>11. \A g \in File : held'[g] # NoFile =>
         \E m \in Id : store'[m] # Null /\ \E o \in 1 .. Len(store'[m].ents) :
           Gives(store'[m].ents[o], held'[g])
  BY <1>7, <1>8, <1>9 DEF HeldIn
<1>12. \A g, h \in File : g # h /\ held'[g] # NoFile /\ held'[h] # NoFile => held'[g].st # held'[h].st
  BY <1>7, <1>8, <1>10 DEF HeldIn
<1> QED BY <1>6, <1>11, <1>12 DEF HeldIn

(***************************************************************************)
(* The invariant, as long as GC borrows nothing from the node before.      *)
(***************************************************************************)
TInv == CInv /\ Laid(store) /\ HeldIn(store, held)

\* The quotient of a division.
LEMMA Quotient ==
    ASSUME NEW w \in Nat, NEW d \in Nat \ {0}, w >= d
    PROVE  LET q == w \div d
           IN  q \in Nat \ {0} /\ q * d <= w /\ w < q * d + d
<1> DEFINE q == w \div d
<1>1. q \in Int /\ d * q <= w /\ w < d * (q + 1)
  OBVIOUS
<1> HIDE DEF q
<1>2. q * d = d * q /\ d * (q + 1) = q * d + d
  BY <1>1
<1>3. q \in Nat \ {0}
  <2>1. q <= 0 => d * (q + 1) <= d
    BY <1>1
  <2> QED BY <1>1, <2>1
<1> QED BY <1>1, <1>2, <1>3 DEF q

\* One free extent is the whole channel.
LEMMA InitLays ==
    ASSUME Init
    PROVE  TInv
<1> DEFINE q == (blk_ed - blk_st) \div ext_size
           e == [free |-> q, st |-> blk_st, ed |-> blk_ed, junk |-> 0]
           s == <<e>>
<1>1. CInv
  BY InitChain
<1>2. /\ blk_ed \in Nat /\ blk_st \in Nat /\ ext_size \in Nat \ {0} /\ blk_st + ext_size <= blk_ed
  BY ExtentGeometry
<1>3. /\ q \in Nat \ {0} /\ q * ext_size <= blk_ed - blk_st /\ blk_ed - blk_st < q * ext_size + ext_size
  <2>1. PICK w : w = blk_ed - blk_st
    OBVIOUS
  <2>2. w \in Nat /\ w >= ext_size
    BY <1>2, <2>1
  <2> QED BY <1>2, <2>1, <2>2, Quotient
<1> HIDE DEF q
<1>4. Sound(e)
  <2>1. e \in Entry
    BY <1>2, <1>3 DEF Entry, Pos
  <2>2. Units(e) = q /\ e.st = blk_st /\ e.ed = blk_ed /\ e.junk = 0
    BY <1>3 DEF Units
  <2>3. q * ext_size \in Nat
    BY <1>3, Products
  <2>4. /\ blk_st + q * ext_size <= blk_ed
        /\ blk_ed < blk_st + q * ext_size + ext_size
    BY <1>2, <1>3, <2>3
  <2> HIDE DEF e
  <2> QED BY <2>1, <2>2, <2>4 DEF Sound
<1>5. Lo(s) = blk_st /\ Hi(s) = blk_ed
  BY DEF Lo, Hi
<1>6. Tiled(s, blk_st, blk_ed)
  <2>1. e \in Entry /\ e.st = blk_st /\ e.ed = blk_ed
    BY <1>4 DEF Sound
  <2> HIDE DEF e
  <2>2. s \in Seq(Entry) /\ Len(s) = 1 /\ s[1] = e
    BY <2>1
  <2> HIDE DEF s
  <2> QED BY <1>4, <2>1, <2>2 DEF Tiled
<1>7. /\ store = [i \in Id |-> IF i # head THEN Null ELSE [ents |-> s, prev |-> 0, next |-> 0]]
      /\ held = [f \in File |-> NoFile]
  BY DEF Init, q
<1> HIDE DEF s
<1>8. /\ store[head].ents = s /\ store[head].next = 0
      /\ \A i \in Id : store[i] # Null => i = head
  BY <1>7, IdIsFinite
<1>9. Laid(store)
  BY <1>5, <1>6, <1>8 DEF Laid
<1>10. HeldIn(store, held)
  BY <1>7 DEF HeldIn
<1> QED BY <1>1, <1>9, <1>10 DEF TInv

\* Every step but the borrow from the node before keeps the tiling.
LEMMA StepLays ==
    ASSUME InPlace, TInv, [Next]_vars, [~GCBorrowPrev]_vars
    PROVE  TInv'
<1>1. CInv /\ Laid(store) /\ HeldIn(store, held)
  BY DEF TInv
<1>2. CInv'
  BY <1>1, StepChain
<1>3. ASSUME Laid(store'), KeptIn(store, store'), held' = held PROVE TInv'
  BY <1>1, <1>2, <1>3, HeldAreKept DEF TInv
<1>4. ASSUME store' = store, held' = held PROVE TInv'
  <2>1. KeptIn(store, store')
    BY <1>4 DEF KeptIn
  <2> QED BY <1>1, <1>3, <1>4, <2>1
<1>5. ASSUME NEW f \in File, GetNewExt(f) PROVE TInv'
  BY <1>1, <1>2, <1>5, GetKeeps, GetLays DEF TInv
<1>6. ASSUME NEW f \in File, NEW junk \in {0, 1}, PutExt(f, junk) PROVE TInv'
  <2>1. held[f] # NoFile
    BY <1>6 DEF PutExt
  <2> QED BY <1>1, <1>2, <1>6, <2>1, PutKeeps, PutLays DEF TInv
<1>7. CASE GCStart
  BY <1>4, <1>7 DEF GCStart
<1>8. CASE GCSweep
  BY <1>1, <1>3, <1>8, SweepKeeps, SweepLays DEF GCSweep
<1>9. CASE GCBorrowPrev
  <2>1. UNCHANGED vars
    BY <1>9
  <2> QED BY <1>4, <2>1 DEF vars
<1>10. CASE GCMergePrev
  BY <1>1, <1>3, <1>10, MergePrevKeeps, MergeLays DEF GCMergePrev
<1>11. CASE GCBorrowNext
  BY <1>1, <1>3, <1>11, BorrowNextKeeps, BorrowLays DEF GCBorrowNext
<1>12. CASE GCMergeNext
  BY <1>1, <1>3, <1>12, MergeNextKeeps, MergeLays DEF GCMergeNext
<1>13. CASE GCAdvance
  <2>1. store' = store
    BY <1>1, <1>13, AdvanceKeeps
  <2> QED BY <1>4, <1>13, <2>1 DEF GCAdvance
<1>14. CASE UNCHANGED vars
  BY <1>4, <1>14 DEF vars
<1> QED BY <1>5, <1>6, <1>7, <1>8, <1>9, <1>10, <1>11, <1>12, <1>13, <1>14
        DEF Next, GetOrPut, GCStep

\* No step borrows from the node before, which copies the wrong extent.
NoBorrow == [][~GCBorrowPrev]_vars

\* The invariant.
THEOREM TilingInvariant == InPlace => (Spec /\ NoBorrow => []TInv)
<1> SUFFICES ASSUME InPlace PROVE Spec /\ NoBorrow => []TInv
  OBVIOUS
<1>1. Init => TInv
  BY InitLays
<1>2. TInv /\ [Next]_vars /\ [~GCBorrowPrev]_vars => TInv'
  BY StepLays
<1> QED BY <1>1, <1>2, PTL DEF Spec, NoBorrow

(***************************************************************************)
(* The extents of all nodes, one after the other: FlattenSeq unfolded.     *)
(***************************************************************************)

\* One unfolding of the recursion, on the first k sequences.
FlatRec(ss, k, g) == [i \in 1 .. k |-> IF i = 1 THEN ss[i] ELSE g[i - 1] \o ss[i]]

\* The recursive function exists.
LEMMA FlatHasRec ==
    ASSUME NEW ss, NEW n \in Nat
    PROVE  \A k \in 1 .. n : \E g : g = FlatRec(ss, k, g)
<1> DEFINE Good == {k \in 1 .. n : \E g : g = FlatRec(ss, k, g)}
<1>1. ASSUME NEW k \in 1 .. n, k = 1 PROVE \E g : g = FlatRec(ss, k, g)
  <2> DEFINE g == [i \in 1 .. k |-> ss[i]]
  <2>1. \A i \in 1 .. k : i = 1
    BY <1>1
  <2>2. g = FlatRec(ss, k, g)
    BY <2>1 DEF FlatRec
  <2> QED BY <2>2
<1>2. ASSUME NEW k \in 1 .. n, k - 1 \in Good PROVE \E g : g = FlatRec(ss, k, g)
  <2>1. PICK g : g = FlatRec(ss, k - 1, g)
    BY <1>2
  <2> DEFINE h == [i \in 1 .. k |-> IF i = k THEN g[k - 1] \o ss[k] ELSE g[i]]
  <2>2. /\ k \in 1 .. k /\ k - 1 \in 1 .. k /\ k - 1 # k /\ k # 1
        /\ \A i \in 1 .. k : i = k \/ i \in 1 .. k - 1
        /\ \A i \in 1 .. k - 1 : i \in 1 .. k /\ i # k /\ (i # 1 => i - 1 \in 1 .. k /\ i - 1 # k)
    BY <1>2
  <2>3. \A i \in 1 .. k - 1 : g[i] = IF i = 1 THEN ss[i] ELSE g[i - 1] \o ss[i]
    BY <2>1 DEF FlatRec
  <2>4. /\ h[k] = g[k - 1] \o ss[k] /\ \A i \in 1 .. k : i # k => h[i] = g[i]
        /\ h = [i \in 1 .. k |-> h[i]]
    BY <2>2
  <2> HIDE DEF h
  <2>5. \A i \in 1 .. k : h[i] = IF i = 1 THEN ss[i] ELSE h[i - 1] \o ss[i]
    BY <2>2, <2>3, <2>4
  <2>6. h = FlatRec(ss, k, h)
    BY <2>4, <2>5 DEF FlatRec
  <2> QED BY <2>6
<1>3. \A k \in 1 .. n : (k = 1 \/ k - 1 \in Good) => k \in Good
  BY <1>1, <1>2
<1>4. \A k \in 1 .. n : k \in Good
  <2> HIDE DEF Good
  <2> QED BY <1>3, UpTo
<1> QED BY <1>4

\* The first k sequences put together, for each k.
LEMMA FlatSteps ==
    ASSUME NEW ss, NEW n \in Nat \ {0}, Len(ss) = n
    PROVE  \E F : /\ F[1] = ss[1]
                  /\ \A k \in 1 .. n : k # 1 => F[k] = F[k - 1] \o ss[k]
                  /\ FlattenSeq(ss) = F[n]
<1> DEFINE F == CHOOSE g : g = FlatRec(ss, n, g)
<1>1. F = FlatRec(ss, n, F)
  <2>1. n \in Nat /\ n \in 1 .. n
    OBVIOUS
  <2>2. \E g : g = FlatRec(ss, n, g)
    BY <2>1, FlatHasRec
  <2> QED BY <2>2
<1>2. FlattenSeq(ss) = F[n]
  BY DEF FlattenSeq, FlatRec
<1> HIDE DEF F
<1>3. \A k \in 1 .. n : F[k] = IF k = 1 THEN ss[k] ELSE F[k - 1] \o ss[k]
  BY <1>1 DEF FlatRec
<1>4. 1 \in 1 .. n
  OBVIOUS
<1> QED BY <1>2, <1>3, <1>4

\* An extent of the chain's first k nodes.
InFirst(e, p, k) == \E l \in 1 .. k : \E m \in 1 .. Len(store[p[l]].ents) : e = store[p[l]].ents[m]

\* The list is tiled, and each of its extents is in a node.
LEMMA ListedTiled ==
    ASSUME NEW p, NEW n, Chain(store, p, n), Laid(store)
    PROVE  /\ Tiled(Listed, blk_st, blk_ed)
           /\ \A j \in 1 .. Len(Listed) : InFirst(Listed[j], p, n)
<1>1. /\ n \in 1 .. MaxId /\ n \in Nat \ {0} /\ MaxId \in Nat /\ p[1] = head
      /\ \A k \in 1 .. MaxId + 1 : NodeAt[k] = IF k <= n THEN p[k] ELSE 0
  <2>1. n \in 1 .. MaxId
    BY ChainFits
  <2>2. \A k \in 1 .. MaxId + 1 : NodeAt[k] = IF k <= n THEN p[k] ELSE 0
    BY NodeAtFollows
  <2>3. n \in Nat \ {0} /\ p[1] = head
    BY DEF Chain
  <2> QED BY <2>1, <2>2, <2>3, ExtentGeometry
<1>2. \A k \in 1 .. n : NodeAt[k] = p[k] /\ p[k] # 0 /\ p[k] \in Id /\ store[p[k]] # Null
  <2>1. \A k \in 1 .. n : k \in 1 .. MaxId + 1 /\ k <= n
    BY <1>1
  <2> QED BY <1>1, <2>1, NodesOfChain
<1> DEFINE ss == [k \in 1 .. n |-> store[p[k]].ents]
<1>3. Listed = FlattenSeq(ss)
  <2>1. {k \in 1 .. MaxId : NodeAt[k] # 0} = 1 .. n
    <3>1. \A k \in 1 .. MaxId : NodeAt[k] # 0 <=> k \in 1 .. n
      BY <1>1, <1>2
    <3>2. 1 .. n \subseteq 1 .. MaxId
      BY <1>1
    <3> QED BY <3>1, <3>2
  <2>2. Cardinality(1 .. n) = n
    BY <1>1, FS_Interval
  <2>3. ss = [k \in 1 .. n |-> store[NodeAt[k]].ents]
    BY <1>2
  <2> HIDE DEF ss
  <2> QED BY <2>1, <2>2, <2>3 DEF Listed
<1>4. \A k \in 1 .. n : /\ ss[k] = store[p[k]].ents
                        /\ Tiled(ss[k], Lo(ss[k]), Hi(ss[k]))
                        /\ Hi(ss[k]) = IF k = n THEN blk_ed ELSE Lo(ss[k + 1])
  <2> TAKE k \in 1 .. n
  <2>1. /\ Tiled(store[p[k]].ents, Lo(store[p[k]].ents), Hi(store[p[k]].ents))
        /\ Hi(store[p[k]].ents) = IF store[p[k]].next = 0 THEN blk_ed
                                  ELSE Lo(store[store[p[k]].next].ents)
    BY <1>2 DEF Laid
  <2>2. store[p[k]].next = IF k = n THEN 0 ELSE p[k + 1]
    BY DEF Chain
  <2>3. k # n => k + 1 \in 1 .. n /\ p[k + 1] # 0
    <3>1. k # n => k + 1 \in 1 .. n
      BY <1>1
    <3> QED BY <1>2, <3>1
  <2> QED BY <2>1, <2>2, <2>3
<1>5. Lo(ss[1]) = blk_st /\ 1 \in 1 .. n
  BY <1>1 DEF Laid
<1>6. PICK F : /\ F[1] = ss[1]
               /\ \A k \in 1 .. n : k # 1 => F[k] = F[k - 1] \o ss[k]
               /\ FlattenSeq(ss) = F[n]
  <2>1. Len(ss) = n
    BY <1>1
  <2> HIDE DEF ss
  <2> QED BY <1>1, <2>1, FlatSteps
<1> HIDE DEF ss
<1> DEFINE OK(k) == /\ Tiled(F[k], blk_st, Hi(ss[k]))
                    /\ \A j \in 1 .. Len(F[k]) : InFirst(F[k][j], p, k)
           Good == {k \in 1 .. n : OK(k)}
<1>7. ASSUME NEW k \in 1 .. n, k = 1 \/ k - 1 \in Good PROVE OK(k)
  <2>1. CASE k = 1
    <3>1. Tiled(F[k], blk_st, Hi(ss[k]))
      BY <1>4, <1>5, <1>6, <2>1
    <3>2. F[k] = store[p[k]].ents /\ k \in 1 .. k
      BY <1>4, <1>5, <1>6, <2>1
    <3> QED BY <3>1, <3>2 DEF InFirst
  <2>2. CASE k - 1 \in Good /\ k # 1
    <3> DEFINE s == F[k - 1]
               t == ss[k]
               u == F[k]
    <3>1. /\ Tiled(s, blk_st, Hi(ss[k - 1])) /\ u = s \o t
          /\ \A j \in 1 .. Len(s) : InFirst(s[j], p, k - 1)
      BY <1>6, <2>2
    <3>2. Hi(ss[k - 1]) = Lo(t) /\ Tiled(t, Lo(t), Hi(t)) /\ t = store[p[k]].ents
      <4>1. k - 1 \in 1 .. n /\ k - 1 # n /\ (k - 1) + 1 = k
        BY <1>1, <2>2
      <4> QED BY <1>4, <4>1
    <3> HIDE DEF s, t, u
    <3>3. Tiled(u, blk_st, Hi(t))
      <4>1. Tiled(s, blk_st, Lo(t))
        BY <3>1, <3>2
      <4> QED BY <3>1, <3>2, <4>1, TiledConcat
    <3>4. /\ s \in Seq(Entry) /\ t \in Seq(Entry) /\ Len(s) \in Nat /\ Len(t) \in Nat
      BY <3>1, <3>2, TiledIs
    <3>5. /\ Len(u) = Len(s) + Len(t)
          /\ \A j \in 1 .. Len(s) : u[j] = s[j]
          /\ \A j \in 1 .. Len(t) : u[Len(s) + j] = t[j]
      BY <3>1, <3>4, Concatenated
    <3>6. ASSUME NEW j \in 1 .. Len(u) PROVE InFirst(u[j], p, k)
      <4>1. j \in 1 .. Len(s) \/ (j - Len(s) \in 1 .. Len(t) /\ Len(s) + (j - Len(s)) = j)
        BY <3>4, <3>5
      <4>2. CASE j \in 1 .. Len(s)
        <5>1. InFirst(u[j], p, k - 1)
          BY <3>1, <3>5, <4>2
        <5>2. 1 .. k - 1 \subseteq 1 .. k
          OBVIOUS
        <5> QED BY <5>1, <5>2 DEF InFirst
      <4>3. CASE j - Len(s) \in 1 .. Len(t) /\ Len(s) + (j - Len(s)) = j
        <5>1. u[j] = store[p[k]].ents[j - Len(s)] /\ j - Len(s) \in 1 .. Len(store[p[k]].ents)
          BY <3>2, <3>5, <4>3
        <5>2. k \in 1 .. k
          OBVIOUS
        <5> QED BY <5>1, <5>2 DEF InFirst
      <4> QED BY <4>1, <4>2, <4>3
    <3> QED BY <3>3, <3>6 DEF t, u
  <2> QED BY <1>7, <2>1, <2>2
<1>8. \A k \in 1 .. n : k \in Good
  <2>1. \A k \in 1 .. n : (k = 1 \/ k - 1 \in Good) => k \in Good
    BY <1>7
  <2> HIDE DEF Good
  <2> QED BY <1>1, <2>1, UpTo
<1>9. OK(n) /\ n \in 1 .. n
  BY <1>1, <1>8
<1>10. Hi(ss[n]) = blk_ed
  BY <1>4, <1>9
<1> QED BY <1>3, <1>6, <1>9, <1>10

(***************************************************************************)
(* What the extents of the list and of the files are.                      *)
(***************************************************************************)

\* An extent in a node is listed there.
LEMMA ListedInNode ==
    ASSUME NEW p, NEW n, Chain(store, p, n), NEW e, InFirst(e, p, n)
    PROVE  \E i \in Id : store[i] # Null /\ \E k \in 1 .. Len(store[i].ents) : e = store[i].ents[k]
<1>1. PICK l \in 1 .. n : \E m \in 1 .. Len(store[p[l]].ents) : e = store[p[l]].ents[m]
  BY DEF InFirst
<1>2. p[l] \in Id /\ store[p[l]] # Null
  BY NodesOfChain
<1> QED BY <1>1, <1>2

\* Extents and descriptors that begin and end in the same places overlap the same.
LEMMA OverlapSame ==
    ASSUME NEW d, NEW e, NEW g, d.st = e.st, d.ed = e.ed
    PROVE  (Overlap(d, g) <=> Overlap(e, g)) /\ (Overlap(g, d) <=> Overlap(g, e))
BY DEF Overlap

\* Extents one of which ends before the other begins do not overlap.
LEMMA ApartNoOverlap ==
    ASSUME NEW d \in Entry, NEW e \in Entry, d.ed <= e.st \/ e.ed <= d.st
    PROVE  ~Overlap(d, e)
BY EntryIs DEF Overlap

\* Of two extents in nodes, overlapping ones are one and the same.
LEMMA OverlapIsSame ==
    ASSUME NEW p, NEW n, Chain(store, p, n), Laid(store),
           NEW i \in Id, store[i] # Null, NEW k \in 1 .. Len(store[i].ents),
           NEW j \in Id, store[j] # Null, NEW l \in 1 .. Len(store[j].ents),
           Overlap(store[i].ents[k], store[j].ents[l])
    PROVE  i = j /\ k = l
<1>1. store[i].ents[k] \in Entry /\ store[j].ents[l] \in Entry
  BY DEF Laid, Tiled, Sound
<1>2. ASSUME ~(i = j /\ k = l) PROVE FALSE
  <2>1. \/ store[i].ents[k].ed <= store[j].ents[l].st
        \/ store[j].ents[l].ed <= store[i].ents[k].st
    BY <1>2, Apart
  <2> QED BY <1>1, <2>1, ApartNoOverlap
<1> QED BY <1>2

\* The list tiles the channel.
LEMMA ListTiles ==
    ASSUME TInv
    PROVE  ListTilesChannel
<1>1. CInv /\ Laid(store)
  BY DEF TInv
<1>2. PICK p, n : Chain(store, p, n)
  BY <1>1 DEF CInv
<1>3. Tiled(Listed, blk_st, blk_ed)
  BY <1>1, <1>2, ListedTiled
<1> DEFINE s == Listed
<1> HIDE DEF s
<1>4. Tiled(s, blk_st, blk_ed)
  BY <1>3 DEF s
<1>5. /\ Last(s).ed = blk_ed /\ s[1].st = blk_st /\ DOMAIN s = 1 .. Len(s)
      /\ \A i \in 1 .. Len(s) - 1 : s[i].ed = s[i + 1].st
  BY <1>4, TiledIs DEF Tiled
<1>6. \A i \in 1 .. Len(s) : s[i].st < s[i].ed
  BY <1>4, SoundIsLong DEF Tiled
<1>7. ListTilesChannel
  BY <1>5, <1>6 DEF ListTilesChannel, s
<1> QED BY <1>7

\* The counters in the list fit.
LEMMA CountsFit ==
    ASSUME TInv
    PROVE  FreeCountsFit
<1>1. CInv /\ Laid(store)
  BY DEF TInv
<1>2. PICK p, n : Chain(store, p, n)
  BY <1>1 DEF CInv
<1>3. Tiled(Listed, blk_st, blk_ed)
  BY <1>1, <1>2, ListedTiled
<1> DEFINE s == Listed
<1> HIDE DEF s
<1>4. DOMAIN s = 1 .. Len(s) /\ \A i \in 1 .. Len(s) : Sound(s[i])
  <2>1. Tiled(s, blk_st, blk_ed)
    BY <1>3 DEF s
  <2> QED BY <2>1, TiledIs DEF Tiled
<1>5. \A i \in DOMAIN s : s[i].free > 0 => s[i].free = (s[i].ed - s[i].st) \div ext_size
  BY <1>4, SoundCounts
<1> QED BY <1>5 DEF FreeCountsFit, s

\* No block is handed out twice.
LEMMA HeldOnce ==
    ASSUME TInv
    PROVE  NotHandedOutTwice
<1>1. CInv /\ Laid(store) /\ HeldIn(store, held)
  BY DEF TInv
<1>2. PICK p, n : Chain(store, p, n)
  BY <1>1 DEF CInv
<1> DEFINE s == Listed
<1>3. DOMAIN s = 1 .. Len(s) /\ \A m \in 1 .. Len(s) : InFirst(s[m], p, n)
  <2>1. Tiled(s, blk_st, blk_ed) /\ \A m \in 1 .. Len(s) : InFirst(s[m], p, n)
    BY <1>1, <1>2, ListedTiled
  <2> HIDE DEF s
  <2> QED BY <2>1, TiledIs
<1> HIDE DEF s
<1>4. ASSUME NEW f \in File, held[f] # NoFile, NEW g \in File \ {f}, held[g] # NoFile
      PROVE  ~Overlap(held[f], held[g])
  <2>1. PICK i \in Id : store[i] # Null /\ \E k \in 1 .. Len(store[i].ents) : Gives(store[i].ents[k], held[f])
    BY <1>1, <1>4 DEF HeldIn
  <2>2. PICK k \in 1 .. Len(store[i].ents) : Gives(store[i].ents[k], held[f])
    BY <2>1
  <2>3. PICK j \in Id : store[j] # Null /\ \E l \in 1 .. Len(store[j].ents) : Gives(store[j].ents[l], held[g])
    BY <1>1, <1>4 DEF HeldIn
  <2>4. PICK l \in 1 .. Len(store[j].ents) : Gives(store[j].ents[l], held[g])
    BY <2>3
  <2>5. held[f].st # held[g].st
    BY <1>1, <1>4 DEF HeldIn
  <2>6. ~(i = j /\ k = l)
    BY <2>2, <2>4, <2>5 DEF Gives
  <2>7. ~Overlap(store[i].ents[k], store[j].ents[l])
    BY <1>1, <1>2, <2>1, <2>3, <2>6, OverlapIsSame
  <2>8. Overlap(held[f], held[g]) <=> Overlap(store[i].ents[k], held[g])
    BY <2>2 DEF Gives, Overlap
  <2>9. Overlap(store[i].ents[k], held[g]) <=> Overlap(store[i].ents[k], store[j].ents[l])
    BY <2>4 DEF Gives, Overlap
  <2> QED BY <2>7, <2>8, <2>9
<1>5. ASSUME NEW f \in File, held[f] # NoFile, NEW m \in 1 .. Len(s), Overlap(held[f], s[m])
      PROVE  s[m].free = 0 /\ s[m].junk = 0
  <2>1. PICK i \in Id : store[i] # Null /\ \E k \in 1 .. Len(store[i].ents) : Gives(store[i].ents[k], held[f])
    BY <1>1, <1>5 DEF HeldIn
  <2>2. PICK k \in 1 .. Len(store[i].ents) : Gives(store[i].ents[k], held[f])
    BY <2>1
  <2>3. PICK j \in Id : store[j] # Null /\ \E l \in 1 .. Len(store[j].ents) : s[m] = store[j].ents[l]
    BY <1>2, <1>3, <1>5, ListedInNode
  <2>4. PICK l \in 1 .. Len(store[j].ents) : s[m] = store[j].ents[l]
    BY <2>3
  <2>5. Overlap(store[i].ents[k], store[j].ents[l])
    BY <1>5, <2>2, <2>4, OverlapSame DEF Gives
  <2>6. i = j /\ k = l
    BY <1>1, <1>2, <2>1, <2>3, <2>5, OverlapIsSame
  <2> QED BY <2>2, <2>4, <2>6 DEF Gives
<1> QED BY <1>3, <1>4, <1>5 DEF NotHandedOutTwice, s

\* Whatever getNewExt splits, putExt gives back and GC merges, the listed
\* extents tile the channel: no block is lost or there twice.
THEOREM ListTilesTheorem == InPlace => (Spec /\ NoBorrow => []ListTilesChannel)
<1> SUFFICES ASSUME InPlace PROVE Spec /\ NoBorrow => []ListTilesChannel
  OBVIOUS
<1>1. TInv => ListTilesChannel
  BY ListTiles
<1>2. Spec /\ NoBorrow => []TInv
  BY TilingInvariant
<1> QED BY <1>1, <1>2, PTL

\* Over a store that returns the stored node itself, no two files hold the same
\* block, and no block of a file is free or junk.  It is not so in the program,
\* whose store returns copies: see OneExtentTheorem (extent_list.cpp).
THEOREM HeldOnceTheorem == InPlace => (Spec /\ NoBorrow => []NotHandedOutTwice)
<1> SUFFICES ASSUME InPlace PROVE Spec /\ NoBorrow => []NotHandedOutTwice
  OBVIOUS
<1>1. TInv => NotHandedOutTwice
  BY HeldOnce
<1>2. Spec /\ NoBorrow => []TInv
  BY TilingInvariant
<1> QED BY <1>1, <1>2, PTL

\* free_vblk_num counts the extents for which there is room.
THEOREM CountsFitTheorem == InPlace => (Spec /\ NoBorrow => []FreeCountsFit)
<1> SUFFICES ASSUME InPlace PROVE Spec /\ NoBorrow => []FreeCountsFit
  OBVIOUS
<1>1. TInv => FreeCountsFit
  BY CountsFit
<1>2. Spec /\ NoBorrow => []TInv
  BY TilingInvariant
<1> QED BY <1>1, <1>2, PTL

(***************************************************************************)
(* The files.                                                              *)
(***************************************************************************)

\* The files in the directory, their metadata objects, the objects in use.
Named == {f \in File : dir[f] # NoFile}
Owned == {dir[f] : f \in Named}
InUse == {m \in Mobj : meta[m] # Unused}

\* What WriteMeta writes.
MetaOf(f, m) == [obj_id |-> m, fhash |-> f, edes |-> held[f]]

Creating == call \in {"getNewExt", "write", "add_new_file", "crashed"}
Deleting == call \in {"putExt", "de_alloc_obj"}

Tables ==
    /\ dir \in [File -> Mobj \cup {NoFile}]
    /\ meta = [m \in Mobj |-> meta[m]]
    /\ held = [f \in File |-> held[f]]
    /\ call = "none" \/ Creating \/ Deleting

\* The files in the directory have objects of their own, written for them.
FilesAreWritten == \A f \in Named : meta[dir[f]] = MetaOf(f, dir[f])

\* Amid an operation one more object is in use: that of its file, which is
\* not, or no longer, in the directory.
Operation ==
    call # "none" =>
      /\ file \in File \ Named
      /\ mobj_id \in Mobj \ Owned
      /\ meta[mobj_id] # Unused
      /\ call = "add_new_file" => meta[mobj_id] = MetaOf(file, mobj_id)

ObjectsInUse == InUse = IF call = "none" THEN Owned ELSE Owned \cup {mobj_id}

FInv == Tables /\ FilesAreWritten /\ Operation /\ ObjectsInUse

\* An entry of the NAT for each file.
RoomForAll == IsFiniteSet(File) /\ Cardinality(File) <= Cardinality(Mobj)

\* There are finitely many entries in the NAT.
LEMMA MobjIsFinite == IsFiniteSet(Mobj)
<1>1. file_max_nr \in Int
  BY ExtentGeometry DEF file_max_nr
<1> QED BY <1>1, FS_Interval DEF Mobj

\* An object that was written is in use.
LEMMA MetaIsUsed ==
    ASSUME NEW f, NEW m
    PROVE  MetaOf(f, m) # Unused
BY DEF MetaOf, Unused

\* Two files have different objects, since each says whose it is.
LEMMA DirIsOneToOne ==
    ASSUME FilesAreWritten, NEW f \in Named, NEW g \in Named, dir[f] = dir[g]
    PROVE  f = g
<1>1. MetaOf(f, dir[f]) = MetaOf(g, dir[f])
  BY DEF FilesAreWritten
<1> QED BY <1>1 DEF MetaOf

\* A file that is not in the directory leaves an object unused.
LEMMA ObjectsAreLeft ==
    ASSUME RoomForAll, FInv, call = "none", NEW f \in File, dir[f] = NoFile
    PROVE  {m \in Mobj : meta[m] = Unused} # {}
<1> SUFFICES ASSUME Owned = Mobj PROVE FALSE
  BY DEF FInv, ObjectsInUse, InUse
<1> DEFINE owner == [g \in Named |-> dir[g]]
<1>1. owner \in [Named -> Mobj] /\ \A m \in Mobj : \E g \in Named : owner[g] = m
  BY DEF Owned, FInv, Tables, Named
<1>2. owner \in Surjection(Named, Mobj)
  BY <1>1 DEF Surjection
<1>3. Named \in SUBSET (File \ {f})
  BY DEF Named
<1>4. IsFiniteSet(File \ {f}) /\ Cardinality(File \ {f}) = Cardinality(File) - 1
      /\ Cardinality(File) \in Nat /\ Cardinality(Mobj) \in Nat
  BY FS_RemoveElement, FS_CardinalityType, MobjIsFinite DEF RoomForAll
<1>5. IsFiniteSet(Named) /\ Cardinality(Named) <= Cardinality(File) - 1
      /\ Cardinality(Named) \in Nat
  BY <1>3, <1>4, FS_Subset, FS_CardinalityType
<1>6. Cardinality(Mobj) <= Cardinality(Named)
  BY <1>2, <1>5, FS_Surjection
<1> QED BY <1>4, <1>5, <1>6 DEF RoomForAll

\* Before the first call nothing is in use.
LEMMA FsInitInv == FsInit => FInv
<1> SUFFICES ASSUME FsInit PROVE FInv
  OBVIOUS
<1>1. /\ dir = [f \in File |-> NoFile] /\ meta = [m \in Mobj |-> Unused]
      /\ held = [f \in File |-> NoFile] /\ call = "none"
  BY DEF FsInit, Init
<1>2. Named = {} /\ Owned = {} /\ InUse = {}
  BY <1>1 DEF Named, Owned, InUse
<1> QED BY <1>1, <1>2 DEF FInv, Tables, FilesAreWritten, Operation, ObjectsInUse

\* alloc_obj takes an object that is not in use.
LEMMA AllocMetaInv ==
    ASSUME FInv, NEW f \in File, AllocMeta(f),
           {m \in Mobj : meta[m] = Unused} # {}
    PROVE  FInv'
<1>1. /\ call = "none" /\ dir[f] = NoFile /\ call' = "getNewExt" /\ file' = f
      /\ UNCHANGED <<dir, held>> /\ mobj_id' \in FreshId
      /\ meta' = [meta EXCEPT ![mobj_id'] = IF @ = Unused THEN Zeroed ELSE @]
  BY DEF AllocMeta, vars
<1>2. mobj_id' \in Mobj /\ meta[mobj_id'] = Unused
  BY <1>1 DEF FreshId
<1>3. /\ meta' = [m \in Mobj |-> meta'[m]]
      /\ \A m \in Mobj : meta'[m] = IF m = mobj_id' THEN Zeroed ELSE meta[m]
  BY <1>1, <1>2 DEF FInv, Tables
<1>4. Zeroed # Unused
  BY DEF Zeroed, Unused
<1>5. mobj_id' \notin Owned /\ Owned = InUse /\ Owned \subseteq Mobj
  BY <1>1, <1>2 DEF FInv, ObjectsInUse, InUse
<1>6. Named' = Named /\ Owned' = Owned
  BY <1>1 DEF Named, Owned
<1>7. Tables'
  BY <1>1, <1>3 DEF FInv, Tables, Creating, Deleting
<1>8. FilesAreWritten'
  BY <1>1, <1>3, <1>5, <1>6 DEF FInv, FilesAreWritten, MetaOf, Owned, InUse
<1>9. Operation'
  BY <1>1, <1>2, <1>3, <1>4, <1>5, <1>6 DEF Operation, Named
<1>10. ObjectsInUse'
  <2>1. InUse' = InUse \cup {mobj_id'}
    BY <1>2, <1>3, <1>4 DEF InUse
  <2> QED BY <1>1, <1>5, <1>6, <2>1 DEF ObjectsInUse
<1> QED BY <1>7, <1>8, <1>9, <1>10 DEF FInv

\* What an operation does before it has written anything of a file but the
\* extent it was given.
LEMMA SameTables ==
    ASSUME FInv, UNCHANGED <<dir, meta, file, mobj_id>>,
           held' = [f \in File |-> held'[f]],
           \A f \in Named : held'[f] = held[f],
           call # "none", call' # "none", call' # "add_new_file",
           Creating' \/ Deleting'
    PROVE  FInv'
<1>1. Named' = Named /\ Owned' = Owned /\ InUse' = InUse
  BY DEF Named, Owned, InUse
<1>2. Tables'
  BY DEF FInv, Tables
<1>3. FilesAreWritten'
  BY <1>1 DEF FInv, FilesAreWritten, MetaOf
<1>4. Operation' /\ ObjectsInUse'
  BY <1>1 DEF FInv, Operation, ObjectsInUse
<1> QED BY <1>2, <1>3, <1>4 DEF FInv

\* getNewExt gives an extent to the file that is being created, or crashes.
LEMMA TakeExtentInv ==
    ASSUME FInv, TakeExtent
    PROVE  FInv'
<1>1. /\ call = "getNewExt" /\ UNCHANGED <<dir, meta, file, mobj_id>>
      /\ call' \in {"write", "crashed"}
  BY DEF TakeExtent
<1>2. held' = held \/ \E d : held' = [held EXCEPT ![file] = d]
  BY DEF TakeExtent, GetNewExt, vars
<1>3. file \in File \ Named
  BY <1>1 DEF FInv, Operation
<1>4. held' = [f \in File |-> held'[f]] /\ \A f \in Named : held'[f] = held[f]
  BY <1>2, <1>3 DEF FInv, Tables, Named
<1> QED BY <1>1, <1>4, SameTables DEF Creating

\* putExt takes the extent of the file that is being deleted.
LEMMA ReturnExtentInv ==
    ASSUME FInv, ReturnExtent
    PROVE  FInv'
<1>1. /\ call = "putExt" /\ UNCHANGED <<dir, meta, file, mobj_id>>
      /\ call' = "de_alloc_obj" /\ held' = [held EXCEPT ![file] = NoFile]
  BY DEF ReturnExtent
<1>2. file \in File \ Named
  BY <1>1 DEF FInv, Operation
<1>3. held' = [f \in File |-> held'[f]] /\ \A f \in Named : held'[f] = held[f]
  BY <1>1, <1>2 DEF FInv, Tables, Named
<1> QED BY <1>1, <1>3, SameTables DEF Deleting

\* WriteMeta writes the object of the file that is being created.
LEMMA WriteMetaInv ==
    ASSUME FInv, WriteMeta
    PROVE  FInv'
<1>1. /\ call = "write" /\ call' = "add_new_file"
      /\ UNCHANGED <<dir, held, file, mobj_id>>
      /\ meta' = [meta EXCEPT ![mobj_id] = MetaOf(file, mobj_id)]
  BY DEF WriteMeta, MetaOf, vars
<1>2. file \in File \ Named /\ mobj_id \in Mobj \ Owned /\ meta[mobj_id] # Unused
  BY <1>1 DEF FInv, Operation
<1>3. /\ meta' = [m \in Mobj |-> meta'[m]]
      /\ \A m \in Mobj : meta'[m] = IF m = mobj_id THEN MetaOf(file, mobj_id) ELSE meta[m]
  BY <1>1, <1>2 DEF FInv, Tables
<1>4. Named' = Named /\ Owned' = Owned /\ Owned \subseteq Mobj
  BY <1>1 DEF Named, Owned, FInv, Tables
<1>5. InUse' = InUse
  BY <1>2, <1>3, MetaIsUsed DEF InUse
<1>6. Tables'
  BY <1>1, <1>3 DEF FInv, Tables, Creating
<1>7. FilesAreWritten'
  BY <1>1, <1>2, <1>3, <1>4 DEF FInv, FilesAreWritten, MetaOf, Owned
<1>8. Operation'
  <2>1. meta'[mobj_id] = MetaOf(file, mobj_id) /\ meta'[mobj_id] # Unused
    BY <1>2, <1>3, MetaIsUsed
  <2> QED BY <1>1, <1>2, <1>4, <2>1 DEF Operation, MetaOf
<1>9. ObjectsInUse'
  BY <1>1, <1>4, <1>5 DEF FInv, ObjectsInUse
<1> QED BY <1>6, <1>7, <1>8, <1>9 DEF FInv

\* The object in use besides those of the directory joins them.
LEMMA AddNameInv ==
    ASSUME FInv, AddName
    PROVE  FInv'
<1>1. /\ call = "add_new_file" /\ call' = "none" /\ UNCHANGED <<meta, held>>
      /\ dir' = [dir EXCEPT ![file] = mobj_id]
  BY DEF AddName, Done, vars
<1>2. /\ file \in File \ Named /\ mobj_id \in Mobj \ Owned
      /\ meta[mobj_id] = MetaOf(file, mobj_id)
      /\ InUse = Owned \cup {mobj_id}
  BY <1>1 DEF FInv, Operation, ObjectsInUse
<1>3. \A f \in File : dir'[f] = IF f = file THEN mobj_id ELSE dir[f]
  BY <1>1, <1>2 DEF FInv, Tables
<1>4. mobj_id # NoFile
  BY <1>2, NoFileIsNoObject
<1>5. Named' = Named \cup {file}
  BY <1>2, <1>3, <1>4 DEF Named
<1>6. Owned' = Owned \cup {mobj_id}
  <2>1. Owned' = {dir'[f] : f \in Named \cup {file}}
    BY <1>5 DEF Owned
  <2>2. \A f \in Named : dir'[f] = dir[f]
    BY <1>2, <1>3 DEF Named
  <2>3. dir'[file] = mobj_id
    BY <1>2, <1>3
  <2> QED BY <2>1, <2>2, <2>3 DEF Owned
<1>7. Tables'
  BY <1>1, <1>2 DEF FInv, Tables
<1>8. FilesAreWritten'
  <2> SUFFICES ASSUME NEW f \in Named \cup {file}
               PROVE  meta'[dir'[f]] = [obj_id |-> dir'[f], fhash |-> f, edes |-> held'[f]]
    BY <1>5 DEF FilesAreWritten, MetaOf
  <2> QED BY <1>1, <1>2, <1>3 DEF FInv, FilesAreWritten, MetaOf, Named
<1>9. ObjectsInUse' /\ Operation'
  BY <1>1, <1>2, <1>6 DEF ObjectsInUse, InUse, Operation
<1> QED BY <1>7, <1>8, <1>9 DEF FInv

\* The object of the file that is being deleted leaves them.
LEMMA DeleteNameInv ==
    ASSUME FInv, NEW f \in File, DeleteName(f)
    PROVE  FInv'
<1>1. /\ call = "none" /\ call' = "putExt" /\ UNCHANGED <<meta, held>>
      /\ f \in Named /\ file' = f /\ mobj_id' = dir[f]
      /\ dir' = [dir EXCEPT ![f] = NoFile]
  BY DEF DeleteName, Named, vars
<1>2. \A g \in File : dir'[g] = IF g = f THEN NoFile ELSE dir[g]
  BY <1>1 DEF FInv, Tables
<1>3. Named' = Named \ {f}
  BY <1>1, <1>2 DEF Named
<1>4. dir[f] \in Mobj /\ dir[f] \in Owned /\ InUse = Owned
  BY <1>1 DEF FInv, Tables, Named, Owned, ObjectsInUse
<1>5. Owned' = Owned \ {dir[f]}
  <2>1. Owned' = {dir'[g] : g \in Named \ {f}}
    BY <1>3 DEF Owned
  <2>2. \A g \in Named \ {f} : dir'[g] = dir[g]
    BY <1>2 DEF Named
  <2>3. \A g \in Named \ {f} : dir[g] # dir[f]
    BY <1>1, DirIsOneToOne DEF FInv
  <2> QED BY <2>1, <2>2, <2>3 DEF Owned
<1>6. Tables'
  BY <1>1 DEF FInv, Tables, Deleting
<1>7. FilesAreWritten'
  BY <1>1, <1>2, <1>3 DEF FInv, FilesAreWritten, MetaOf, Named
<1>8. Operation' /\ ObjectsInUse'
  <2>1. dir[f] \in InUse
    BY <1>4
  <2>2. InUse' = InUse
    BY <1>1 DEF InUse
  <2> QED BY <1>1, <1>3, <1>4, <1>5, <2>1, <2>2 DEF Operation, ObjectsInUse, InUse
<1> QED BY <1>6, <1>7, <1>8 DEF FInv

\* The object in use besides those of the directory is freed.
LEMMA FreeMetaInv ==
    ASSUME FInv, FreeMeta
    PROVE  FInv'
<1>1. /\ call = "de_alloc_obj" /\ call' = "none" /\ UNCHANGED <<dir, held>>
      /\ meta' = [meta EXCEPT ![mobj_id] = Unused]
  BY DEF FreeMeta, Done, vars
<1>2. mobj_id \in Mobj \ Owned /\ InUse = Owned \cup {mobj_id}
  BY <1>1 DEF FInv, Operation, ObjectsInUse
<1>3. /\ meta' = [m \in Mobj |-> meta'[m]]
      /\ \A m \in Mobj : meta'[m] = IF m = mobj_id THEN Unused ELSE meta[m]
  BY <1>1, <1>2 DEF FInv, Tables
<1>4. Named' = Named /\ Owned' = Owned /\ Owned \subseteq Mobj
  BY <1>1 DEF Named, Owned, FInv, Tables
<1>5. InUse' = InUse \ {mobj_id}
  BY <1>3 DEF InUse
<1>6. Tables'
  BY <1>1, <1>3 DEF FInv, Tables
<1>7. FilesAreWritten'
  BY <1>1, <1>2, <1>3, <1>4 DEF FInv, FilesAreWritten, MetaOf, Owned
<1>8. Operation' /\ ObjectsInUse'
  BY <1>1, <1>2, <1>4, <1>5 DEF Operation, ObjectsInUse
<1> QED BY <1>6, <1>7, <1>8 DEF FInv

\* GC moves extents in their list and takes none from a file.
LEMMA ExtentGCInv ==
    ASSUME FInv, ExtentGC \/ UNCHANGED fsvars
    PROVE  FInv'
<1>1. GCStep => UNCHANGED held
  BY DEF GCStep, GCSweep, GCBorrowPrev, GCMergePrev, GCBorrowNext, GCMergeNext, GCAdvance
<1>2. UNCHANGED <<dir, meta, call, file, mobj_id, held>>
  BY <1>1 DEF ExtentGC, fvars, fsvars, vars, GCStart
<1>3. Named' = Named /\ Owned' = Owned /\ InUse' = InUse
  BY <1>2 DEF Named, Owned, InUse
<1>4. Tables'
  BY <1>2 DEF FInv, Tables, Creating, Deleting
<1>5. FilesAreWritten'
  BY <1>2, <1>3 DEF FInv, FilesAreWritten, MetaOf
<1>6. Operation' /\ ObjectsInUse'
  BY <1>2, <1>3 DEF FInv, Operation, ObjectsInUse, MetaOf
<1> QED BY <1>4, <1>5, <1>6 DEF FInv

\* Every step keeps FInv if there is an entry of the NAT for each file.
LEMMA FsStep ==
    ASSUME RoomForAll, FInv, [FsNext]_fsvars
    PROVE  FInv'
<1>1. ASSUME NEW f \in File, AllocMeta(f) PROVE FInv'
  <2>1. call = "none" /\ dir[f] = NoFile
    BY <1>1 DEF AllocMeta
  <2> QED BY <1>1, <2>1, ObjectsAreLeft, AllocMetaInv
<1> QED BY <1>1, TakeExtentInv, WriteMetaInv, AddNameInv, DeleteNameInv, ReturnExtentInv,
           FreeMetaInv, ExtentGCInv DEF FsNext

\* The invariant says what FilesKeepTheirOwn does.
LEMMA FilesAreKept == FInv => FilesKeepTheirOwn
BY DEF FInv, FilesKeepTheirOwn, ObjectsInUse, InUse, Owned, Named, FilesAreWritten, MetaOf

\* With a NAT entry for each file, between operations the metadata objects in
\* use are those of the files in the directory, one each, about its file and
\* naming the extent the file was given (small_oc_fs_test.cc).
THEOREM FilesKeepTheirOwnTheorem ==
    ASSUME RoomForAll
    PROVE  FsSpec => []FilesKeepTheirOwn
<1>1. FInv => FilesKeepTheirOwn
  BY FilesAreKept
<1>2. FInv /\ [FsNext]_fsvars => FInv'
  BY FsStep
<1> QED BY <1>1, <1>2, FsInitInv, PTL DEF FsSpec

(***************************************************************************)
(* The list over a store that returns copies.  As long as its only node is *)
(* not full it is never written, and every call finds it as it was made.   *)
(***************************************************************************)

\* What getNewExt returns, always.
FirstExtent ==
    [st |-> blk_st,
     ed |-> IF WholeChannel.free = 1 THEN blk_ed ELSE blk_st + ext_size]

Copies ==
    /\ store = FirstStore
    /\ held \in [File -> {FirstExtent, NoFile}]
    /\ pc \in {"idle", "sweep", "balance", "advance"}
    /\ prev = Nobody /\ next = Nobody
    /\ pc # "idle" => cur = [id |-> head, node |-> OnlyNode]

\* The whole channel is free, and a free extent begins with FirstExtent.
LEMMA FirstExtentIs ==
    /\ WholeChannel \in Entry /\ WholeChannel.free > 0 /\ WholeChannel.junk = 0
    /\ FirstExtent \in Desc /\ FirstExtent # NoFile
    /\ Cut(WholeChannel) = blk_st + ext_size
<1>1. /\ WholeChannel.free = (blk_ed - blk_st) \div ext_size
      /\ WholeChannel.st = blk_st /\ WholeChannel.ed = blk_ed /\ WholeChannel.junk = 0
  BY DEF WholeChannel
<1>2. blk_ed - blk_st \in Nat /\ ext_size \in Nat \ {0} /\ blk_ed - blk_st >= ext_size
  BY ExtentGeometry
<1>3. (blk_ed - blk_st) \div ext_size > 0
  <2>1. PICK w \in Nat : w = blk_ed - blk_st
    BY <1>2
  <2>2. w \div ext_size \in Nat \ {0}
    BY <1>2, <2>1, Quotient
  <2> QED BY <2>1, <2>2
<1>4. blk_st \in Pos /\ blk_ed \in Pos /\ blk_st + ext_size \in Pos
  BY ExtentGeometry DEF Pos
<1>5. FirstExtent \in Desc
  BY <1>4 DEF FirstExtent, Desc
<1>6. Cut(WholeChannel) = blk_st + ext_size
  BY <1>1, ExtentGeometry DEF Cut
<1> QED BY <1>1, <1>3, <1>5, <1>6, FirstChain, NoFileIsNoDesc

\* It holds at first.
LEMMA CopiesInit ==
    ASSUME Init
    PROVE  Copies
BY DEF Init, Copies, FirstStore, OnlyNode, WholeChannel

\* getNewExt returns the first extent, and leaves it in the list.
LEMMA CopiesGet ==
    ASSUME ~InPlace, H > 1, Copies, NEW f \in File, GetNewExt(f)
    PROVE  store' = store /\ held' = [held EXCEPT ![f] = FirstExtent]
<1> DEFINE p == [k \in 1 .. 1 |-> head]
           id == FirstNode(HasFree)
           old == store[id].ents
           i == CHOOSE k \in FreeIn(old) : \A l \in FreeIn(old) : k <= l
           ents == IF old[i].free = 1 THEN [old EXCEPT ![i].free = 0]
                   ELSE ReplaceBy(old, i, Split(old[i]))
           node == [store[id] EXCEPT !.ents = ents]
<1>1. /\ id # 0
      /\ held' = [held EXCEPT ![f] = [st |-> ents[i].st, ed |-> ents[i].ed]]
      /\ IF NodeFull(ents) THEN FreeId # {} /\ store' = SplitNode(id, node)
         ELSE store' = Poke(store, [id |-> id, node |-> node])
  BY DEF GetNewExt
<1>2. store = FirstStore /\ Chain(store, p, 1)
  BY FirstChain DEF Copies
<1>3. id = head
  <2>1. \E a \in 1 .. 1 : id = p[a]
    BY <1>1, <1>2, FirstWithFree
  <2> QED BY <2>1
<1> HIDE DEF id
<1>4. old = <<WholeChannel>>
  BY <1>2, <1>3, FirstChain DEF OnlyNode
<1>5. i = 1 /\ old[i] = WholeChannel
  <2>1. FreeIn(old) = {1}
    BY <1>4, FirstExtentIs DEF FreeIn
  <2>2. \A k \in {1} : (\A l \in {1} : k <= l) <=> k = 1
    OBVIOUS
  <2>3. i = 1
    BY <2>1, <2>2
  <2>4. old[1] = WholeChannel
    BY <1>4
  <2> HIDE DEF i, old
  <2> QED BY <2>3, <2>4
<1> HIDE DEF i, old
<1>6. /\ ents \in Seq(Entry) /\ Len(ents) \in {1, 2}
      /\ ents[1].st = FirstExtent.st /\ ents[1].ed = FirstExtent.ed
  <2>1. CASE WholeChannel.free = 1
    <3>1. ents = <<SetFree(WholeChannel, 0)>>
      BY <1>4, <1>5, <2>1 DEF SetFree
    <3>2. LET e == SetFree(WholeChannel, 0)
          IN  e \in Entry /\ e.st = WholeChannel.st /\ e.ed = WholeChannel.ed
      BY FirstExtentIs, FreeSet
    <3>3. FirstExtent.st = WholeChannel.st /\ FirstExtent.ed = WholeChannel.ed
      BY <2>1 DEF FirstExtent, WholeChannel
    <3> HIDE DEF ents
    <3> QED BY <3>1, <3>2, <3>3
  <2>2. CASE WholeChannel.free # 1
    <3> DEFINE a == First(WholeChannel)
               b == Rest(WholeChannel)
    <3>1. /\ a \in Entry /\ b \in Entry /\ Split(WholeChannel) = <<a, b>>
          /\ a.st = WholeChannel.st /\ a.ed = Cut(WholeChannel)
      BY FirstExtentIs, SplitIs
    <3>2. ents = ReplaceBy(<<WholeChannel>>, 1, <<a, b>>)
      BY <1>4, <1>5, <2>2, <3>1
    <3>3. FirstExtent.st = WholeChannel.st /\ FirstExtent.ed = Cut(WholeChannel)
      BY <2>2, FirstExtentIs DEF FirstExtent, WholeChannel
    <3> HIDE DEF a, b, ents
    <3>4. <<WholeChannel>> \in Seq(Entry) /\ Len(<<WholeChannel>>) = 1 /\ 1 \in 1 .. 1
      BY FirstExtentIs
    <3>5. IsReplaced(ents, <<WholeChannel>>, 1, a, b)
      BY <3>1, <3>2, <3>4, Replaced
    <3>6. ents \in Seq(Entry) /\ Len(ents) = 2 /\ ents[1] = a
      BY <3>4, <3>5 DEF IsReplaced
    <3> QED BY <3>1, <3>3, <3>6
  <2> QED BY <2>1, <2>2
<1>7. held' = [held EXCEPT ![f] = FirstExtent]
  <2>1. [st |-> ents[1].st, ed |-> ents[1].ed] = FirstExtent
    BY <1>6 DEF FirstExtent
  <2> QED BY <1>1, <1>5, <2>1
<1> HIDE DEF ents
<1>8. ~NodeFull(ents)
  <2>1. 2 < Ext_Node_Degree /\ 1 < Ext_Node_Degree
    BY Degree
  <2>2. PICK l : l = Len(ents)
    OBVIOUS
  <2>3. l \in {1, 2}
    BY <1>6, <2>2
  <2>4. ~(l >= Ext_Node_Degree)
    BY <2>1, <2>3, Degree
  <2> QED BY <2>2, <2>4 DEF NodeFull
<1>9. store' = store
  BY <1>1, <1>8 DEF Poke
<1> QED BY <1>7, <1>9

\* GC's pass finds the only extent free and leaves it.
LEMMA CopiesSweep == Sweep(<<WholeChannel>>) = <<WholeChannel>>
<1> DEFINE s == <<WholeChannel>>
<1>1. s \in Seq(Entry) /\ Len(s) = 1 /\ s[1] = WholeChannel
  BY FirstExtentIs
<1>2. PICK F : /\ F[0] = Blank
               /\ \A k \in 1 .. Len(s) : F[k] = SweepExtent(F[k - 1], s[k])
               /\ Sweep(s) = F[Len(s)].done
  BY <1>1, SweepSteps
<1>3. F[1] = SweepExtent(Blank, WholeChannel)
  BY <1>1, <1>2
<1>4. SweepExtent(Blank, WholeChannel) = [done |-> Append(<<>>, WholeChannel), absorb |-> FALSE]
  BY FirstExtentIs DEF SweepExtent, Blank
<1> QED BY <1>1, <1>2, <1>3, <1>4

\* No step changes the list.
LEMMA CopiesStep ==
    ASSUME ~InPlace, H > 1, Copies, [Next]_vars
    PROVE  Copies'
<1>1. Count(prev) = 0 /\ Count(next) = 0 /\ next.node = Null /\ prev.node = Null
  BY NobodyIs DEF Copies
<1>2. ASSUME NEW f \in File, GetNewExt(f) PROVE Copies'
  <2>1. held' \in [File -> {FirstExtent, NoFile}] /\ store' = store
    BY <1>2, CopiesGet DEF Copies
  <2> QED BY <1>2, <2>1 DEF Copies, GetNewExt, gcvars
<1>3. ASSUME NEW f \in File, NEW junk \in {0, 1}, PutExt(f, junk) PROVE Copies'
  <2>1. \A d : AfterPut(d, junk) = store
    BY DEF AfterPut, Poke
  <2>2. held' \in [File -> {FirstExtent, NoFile}] /\ store' = store
    BY <1>3, <2>1 DEF Copies, PutExt
  <2> QED BY <1>3, <2>2 DEF Copies, PutExt, gcvars
<1>4. CASE GCStart
  <2>1. /\ cur' = Read(store, head) /\ prev' = Nobody /\ next' = Following(store, cur')
        /\ store' = store /\ held' = held /\ pc' = "sweep"
    BY <1>4 DEF GCStart
  <2>2. cur' = [id |-> head, node |-> OnlyNode]
    BY <2>1, FirstChain, IdIsFinite DEF Copies, Read
  <2>3. next' = Nobody
    BY <2>1, <2>2, IdIsFinite DEF Following, Read, OnlyNode
  <2> QED BY <2>1, <2>2, <2>3 DEF Copies
<1>5. CASE GCSweep
  <2>1. /\ pc = "sweep" /\ cur' = [cur EXCEPT !.node.ents = Sweep(@)]
        /\ store' = Poke(store, cur') /\ pc' \in {"balance", "advance"}
        /\ held' = held /\ prev' = prev /\ next' = next
    BY <1>5 DEF GCSweep
  <2>2. cur = [id |-> head, node |-> OnlyNode]
    BY <2>1 DEF Copies
  <2>3. cur' = cur
    BY <2>1, <2>2, CopiesSweep DEF OnlyNode
  <2>4. store' = store
    BY <2>1 DEF Poke
  <2> QED BY <2>1, <2>2, <2>3, <2>4 DEF Copies
<1>6. ~GCBorrowPrev /\ ~GCMergePrev /\ ~GCBorrowNext /\ ~GCMergeNext
  <2>1. ~CanBorrowPrev /\ ~CanMergePrev /\ ~CanBorrowNext /\ ~CanMergeNext
    BY <1>1, Degree DEF CanBorrowPrev, CanMergePrev, CanBorrowNext, CanMergeNext
  <2> QED BY <2>1 DEF GCBorrowPrev, GCMergePrev, GCBorrowNext, GCMergeNext
<1>7. CASE GCAdvance
  <2>1. store' = store /\ held' = held
    BY <1>1, <1>7 DEF GCAdvance, Write
  <2>2. pc' = "idle" /\ prev' = Nobody /\ next' = Nobody
    BY <1>1, <1>7 DEF GCAdvance
  <2> QED BY <2>1, <2>2 DEF Copies
<1>8. CASE UNCHANGED vars
  BY <1>8 DEF Copies, vars, gcvars
<1> QED BY <1>2, <1>3, <1>4, <1>5, <1>6, <1>7, <1>8 DEF Next, GetOrPut, GCStep

(***************************************************************************)
(* The extent list under the file system, over either store.               *)
(***************************************************************************)

\* Over copies, a node holds two extents at least without being full
\* (extent_list.h:24 has 64).
Degrees == InPlace \/ H > 1

ListInv == (InPlace => CInv) /\ (~InPlace => Copies)

\* It holds at first.
LEMMA ListInit ==
    ASSUME Init
    PROVE  ListInv
BY InitChain, CopiesInit DEF ListInv

\* Every step keeps it.
LEMMA ListKeeps ==
    ASSUME Degrees, ListInv, [Next]_vars
    PROVE  ListInv'
BY StepChain, CopiesStep DEF Degrees, ListInv

\* Files hold descriptors.
LEMMA ListHolds ==
    ASSUME ListInv
    PROVE  held \in [File -> Desc \cup {NoFile}]
<1>1. CASE InPlace
  BY <1>1 DEF ListInv, CInv
<1>2. CASE ~InPlace
  BY <1>2, FirstExtentIs DEF ListInv, Copies
<1> QED BY <1>1, <1>2

\* The files that have an extent: those in the directory, and the one that is
\* being created or deleted while it has one.
Holders == Named \cup (IF call \in {"write", "add_new_file", "putExt"} THEN {file} ELSE {})

\* A file that is being deleted has still the object written for it.
WholeInv ==
    /\ FInv /\ ListInv
    /\ call # "none" => pc = "idle"
    /\ \A f \in File : held[f] # NoFile <=> f \in Holders
    /\ call = "putExt" => meta[mobj_id] = MetaOf(file, mobj_id)

\* Each step of the file system is one of the extent list or leaves it alone.
LEMMA ListStep ==
    ASSUME WholeInv, [FsNext]_fsvars
    PROVE  [Next]_vars
<1>1. CASE TakeExtent
  <2>1. file \in File
    BY <1>1 DEF TakeExtent, WholeInv, FInv, Operation
  <2> QED BY <1>1, <2>1 DEF TakeExtent, Next, GetOrPut
<1>2. CASE ReturnExtent
  <2>1. /\ call = "putExt" /\ file \in File /\ held[file] # NoFile /\ pc = "idle"
        /\ meta[mobj_id].edes = held[file]
    BY <1>2 DEF ReturnExtent, WholeInv, FInv, Operation, Holders, MetaOf
  <2>2. PICK junk \in {0, 1} : store' = AfterPut(held[file], junk)
    BY <1>2, <2>1 DEF ReturnExtent
  <2>3. PutExt(file, junk)
    BY <1>2, <2>1, <2>2 DEF ReturnExtent, PutExt
  <2> QED BY <2>1, <2>3 DEF Next, GetOrPut
<1>3. CASE ExtentGC
  BY <1>3 DEF ExtentGC, Next
<1>4. ASSUME ~TakeExtent, ~ReturnExtent, ~ExtentGC
      PROVE  UNCHANGED vars
  BY <1>4 DEF FsNext, fsvars, AllocMeta, DeleteName, WriteMeta, AddName, FreeMeta
<1> QED BY <1>1, <1>2, <1>3, <1>4

\* All of it holds at first.
LEMMA WholeInit == FsInit => WholeInv
<1> SUFFICES ASSUME FsInit PROVE WholeInv
  OBVIOUS
<1>1. FInv /\ ListInv
  BY FsInitInv, ListInit DEF FsInit
<1>2. /\ call = "none" /\ held = [f \in File |-> NoFile]
      /\ dir = [f \in File |-> NoFile]
  BY DEF FsInit, Init
<1> QED BY <1>1, <1>2 DEF WholeInv, Holders, Named

\* What getNewExt returns for a file is a descriptor.
LEMMA GetHolds ==
    ASSUME Degrees, ListInv, NEW f \in File, GetNewExt(f)
    PROVE  held'[f] \in Desc
<1>8. CASE ~InPlace
  <2>1. held' = [held EXCEPT ![f] = FirstExtent] /\ held \in [File -> Desc \cup {NoFile}]
    BY <1>8, CopiesGet, ListHolds DEF Degrees, ListInv
  <2> QED BY <2>1, FirstExtentIs
<1> SUFFICES ASSUME InPlace, CInv PROVE held'[f] \in Desc
  BY <1>8 DEF ListInv
<1>1. Nodes(store) /\ held \in [File -> Desc \cup {NoFile}] /\ HandedOut(f)
  BY GetKeeps DEF CInv
<1>2. PICK i \in Id : \E k \in 1 .. Len(store[i].ents) : HandedFrom(f, i, k)
  BY <1>1 DEF HandedOut
<1>3. PICK k \in 1 .. Len(store[i].ents) : HandedFrom(f, i, k)
  BY <1>2
<1> DEFINE old == store[i].ents
           e == Handed(old, k)[k]
<1>4. /\ store[i] # Null /\ old[k].free > 0
      /\ held' = [held EXCEPT ![f] = [st |-> e.st, ed |-> e.ed]]
  BY <1>3 DEF HandedFrom
<1>5. old \in Seq(Entry)
  BY <1>1, <1>4, FitIs DEF Nodes
<1>6. e \in Entry
  <2> HIDE DEF old
  <2>1. k \in 1 .. Len(old)
    BY DEF old
  <2> QED BY <1>4, <1>5, <2>1, HandedFits
<1> HIDE DEF e
<1>7. [st |-> e.st, ed |-> e.ed] \in Desc
  BY <1>6, EntryIs DEF Desc
<1> QED BY <1>1, <1>4, <1>7

\* What a step does to the files' extents and the directory.
LEMMA HoldersStep ==
    ASSUME Degrees, WholeInv, FInv', ListInv', [FsNext]_fsvars
    PROVE  WholeInv'
<1>1. /\ \A f \in File : held[f] # NoFile <=> f \in Holders
      /\ call # "none" => pc = "idle"
      /\ held \in [File -> Desc \cup {NoFile}] /\ held' = [f \in File |-> held'[f]]
      /\ dir \in [File -> Mobj \cup {NoFile}]
      /\ call # "none" => file \in File \ Named
  BY ListHolds DEF WholeInv, FInv, Tables, Operation
<1> DEFINE Goal == /\ \A f \in File : held'[f] # NoFile <=> f \in Holders'
                   /\ call' # "none" => pc' = "idle"
                   /\ (call = "putExt" => meta[mobj_id] = MetaOf(file, mobj_id))'
<1>2. ASSUME NEW f \in File, AllocMeta(f) PROVE Goal
  <2>1. /\ call = "none" /\ call' = "getNewExt" /\ held' = held /\ dir' = dir /\ pc' = pc
        /\ pc = "idle"
    BY <1>2 DEF AllocMeta, vars, gcvars
  <2>2. Holders' = Holders
    BY <2>1 DEF Holders, Named
  <2> QED BY <1>1, <2>1, <2>2
<1>3. ASSUME NEW f \in File, DeleteName(f) PROVE Goal
  <2>1. /\ call = "none" /\ call' = "putExt" /\ held' = held /\ pc' = pc /\ pc = "idle"
        /\ meta' = meta /\ file' = f /\ mobj_id' = dir[f] /\ f \in Named
        /\ dir' = [dir EXCEPT ![f] = NoFile]
    BY <1>3 DEF DeleteName, vars, gcvars, Named
  <2>2. Named' = Named \ {f}
    BY <1>1, <2>1 DEF Named
  <2>3. Holders' = Holders
    BY <2>1, <2>2 DEF Holders
  <2>4. meta'[mobj_id'] = [obj_id |-> mobj_id', fhash |-> file', edes |-> held'[file']]
    BY <2>1 DEF WholeInv, FInv, FilesAreWritten, MetaOf
  <2> QED BY <1>1, <2>1, <2>3, <2>4 DEF MetaOf
<1>4. ASSUME TakeExtent PROVE Goal
  <2>1. /\ call = "getNewExt" /\ dir' = dir /\ file' = file /\ file \in File \ Named
    BY <1>1, <1>4 DEF TakeExtent
  <2>2. Named' = Named
    BY <2>1 DEF Named
  <2>3. CASE GetNewExt(file) /\ call' = "write"
    <3>1. pc' = pc /\ pc = "idle" /\ \E d : held' = [held EXCEPT ![file] = d]
      BY <2>3 DEF GetNewExt, gcvars
    <3>2. held'[file] \in Desc
      BY <2>1, <2>3, GetHolds DEF WholeInv
    <3>3. held'[file] # NoFile
      BY <3>2, NoFileIsNoDesc
    <3>4. Holders' = Holders \cup {file}
      BY <2>1, <2>2, <2>3 DEF Holders
    <3> QED BY <1>1, <2>1, <2>3, <3>1, <3>3, <3>4
  <2>4. CASE call' = "crashed" /\ UNCHANGED vars
    <3>1. Holders' = Holders
      BY <2>1, <2>2, <2>4 DEF Holders
    <3> QED BY <1>1, <2>1, <2>4, <3>1 DEF vars, gcvars
  <2> QED BY <1>4, <2>3, <2>4 DEF TakeExtent
<1>5. ASSUME WriteMeta PROVE Goal
  <2>1. /\ call = "write" /\ call' = "add_new_file" /\ held' = held /\ pc' = pc
        /\ dir' = dir /\ file' = file
    BY <1>5 DEF WriteMeta, vars, gcvars
  <2>2. Holders' = Holders
    BY <2>1 DEF Holders, Named
  <2> QED BY <1>1, <2>1, <2>2
<1>6. ASSUME AddName PROVE Goal
  <2>1. /\ call = "add_new_file" /\ call' = "none" /\ held' = held /\ pc' = pc
        /\ dir' = [dir EXCEPT ![file] = mobj_id]
        /\ mobj_id \in Mobj /\ mobj_id # NoFile
    BY <1>6, NoFileIsNoObject DEF AddName, Done, vars, gcvars, WholeInv, FInv, Operation
  <2>2. Named' = Named \cup {file}
    BY <1>1, <2>1 DEF Named
  <2>3. Holders' = Holders
    BY <2>1, <2>2 DEF Holders
  <2> QED BY <1>1, <2>1, <2>3
<1>7. ASSUME ReturnExtent PROVE Goal
  <2>1. /\ call = "putExt" /\ call' = "de_alloc_obj" /\ pc' = pc /\ dir' = dir
        /\ held' = [held EXCEPT ![file] = NoFile] /\ file \in File \ Named
    BY <1>1, <1>7 DEF ReturnExtent, gcvars
  <2>2. Holders' = Holders \ {file}
    BY <2>1 DEF Holders, Named
  <2> QED BY <1>1, <2>1, <2>2
<1>8. ASSUME FreeMeta PROVE Goal
  <2>1. /\ call = "de_alloc_obj" /\ call' = "none" /\ held' = held /\ dir' = dir
    BY <1>8 DEF FreeMeta, Done, vars
  <2>2. Holders' = Holders
    BY <2>1 DEF Holders, Named
  <2> QED BY <1>1, <2>1, <2>2
<1>9. ASSUME ExtentGC PROVE Goal
  <2>1. GCStep => UNCHANGED held
    BY DEF GCStep, GCSweep, GCBorrowPrev, GCMergePrev, GCBorrowNext, GCMergeNext, GCAdvance
  <2>2. call = "none" /\ UNCHANGED <<dir, call, file, held>>
    BY <1>9, <2>1 DEF ExtentGC, fvars, GCStart
  <2>3. Holders' = Holders
    BY <2>2 DEF Holders, Named
  <2> QED BY <1>1, <2>2, <2>3
<1>10. ASSUME UNCHANGED fsvars PROVE Goal
  <2>1. UNCHANGED <<dir, meta, call, file, mobj_id, held, pc>>
    BY <1>10 DEF fsvars, fvars, vars, gcvars
  <2>2. Holders' = Holders
    BY <2>1 DEF Holders, Named
  <2> QED BY <1>1, <2>1, <2>2 DEF WholeInv, MetaOf
<1>11. Goal
  BY <1>2, <1>3, <1>4, <1>5, <1>6, <1>7, <1>8, <1>9, <1>10 DEF FsNext
<1> QED BY <1>11 DEF WholeInv

\* Every step keeps the invariant.
LEMMA WholeStep ==
    ASSUME RoomForAll, Degrees, WholeInv, [FsNext]_fsvars
    PROVE  WholeInv'
<1>1. FInv'
  BY FsStep DEF WholeInv
<1>2. ListInv'
  BY ListStep, ListKeeps DEF WholeInv
<1> QED BY <1>1, <1>2, HoldersStep

\* The invariant of the file system over its extent list.
THEOREM WholeInvariant ==
    ASSUME RoomForAll, Degrees
    PROVE  FsSpec => []WholeInv
<1>1. WholeInv /\ [FsNext]_fsvars => WholeInv'
  BY WholeStep
<1> QED BY <1>1, WholeInit, PTL DEF FsSpec

\* The program, whose store returns copies: the metadata of every file names
\* the same extent, the first one of the channel, whatever was created,
\* deleted and collected before (small_oc_fs_test.cc, extent_list.cpp:118).
THEOREM OneExtentTheorem ==
    ASSUME RoomForAll, ~InPlace, H > 1
    PROVE  FsSpec => [](\A f \in Named : meta[dir[f]].edes = FirstExtent)
<1>1. WholeInv => \A f \in Named : meta[dir[f]].edes = FirstExtent
  <2> SUFFICES ASSUME WholeInv, NEW f \in Named PROVE meta[dir[f]].edes = FirstExtent
    OBVIOUS
  <2>1. meta[dir[f]] = MetaOf(f, dir[f]) /\ f \in File /\ held[f] # NoFile
    BY DEF WholeInv, FInv, FilesAreWritten, Holders, Named
  <2>2. held[f] = FirstExtent
    BY <2>1 DEF WholeInv, ListInv, Copies
  <2> QED BY <2>1, <2>2 DEF MetaOf
<1> QED BY <1>1, WholeInvariant, PTL DEF Degrees

(***************************************************************************)
(* The file system implements files with metadata of their own.            *)
(***************************************************************************)

\* Under a file's name is the object that was written for it.
LEMMA FileOfIs ==
    ASSUME FInv
    PROVE  \A f \in File : FileOf(f) = IF f \in Named THEN MetaOf(f, dir[f]) ELSE NoFile
BY DEF FInv, FilesAreWritten, FileOf, Named

\* The same after a step.
LEMMA FileOfIsNext ==
    ASSUME FInv'
    PROVE  \A f \in File : FileOf(f)' = IF f \in Named' THEN [obj_id |-> dir'[f], fhash |-> f, edes |-> held'[f]]
                                        ELSE NoFile
<1> TAKE f \in File
<1>1. f \in Named' <=> dir'[f] # NoFile
  BY DEF Named
<1>2. f \in Named' => meta'[dir'[f]] = [obj_id |-> dir'[f], fhash |-> f, edes |-> held'[f]]
  BY DEF FInv, FilesAreWritten, MetaOf
<1> QED BY <1>1, <1>2 DEF FileOf

\* What is seen of a file stays as long as its entry of the directory and the
\* extent it was given do.
LEMMA SameFile ==
    ASSUME FInv, FInv', NEW f \in File, dir'[f] = dir[f],
           f \in Named => held'[f] = held[f]
    PROVE  FileOf(f)' = FileOf(f)
<1>1. f \in Named' <=> f \in Named
  BY DEF Named
<1>2. f \in Named => [obj_id |-> dir'[f], fhash |-> f, edes |-> held'[f]] = MetaOf(f, dir[f])
  BY DEF MetaOf
<1> QED BY <1>1, <1>2, FileOfIs, FileOfIsNext

\* A new file has an object of its own, which names its descriptor.
LEMMA AddNameCreates ==
    ASSUME WholeInv, WholeInv', AddName
    PROVE  Files!Create(file)
<1>1. /\ call = "add_new_file" /\ held' = held /\ dir' = [dir EXCEPT ![file] = mobj_id]
      /\ mobj_id \in Mobj \ Owned /\ mobj_id # NoFile /\ file \in File \ Named
      /\ dir \in [File -> Mobj \cup {NoFile}]
  BY NoFileIsNoObject DEF AddName, Done, vars, WholeInv, FInv, Operation, Tables
<1>2. /\ FInv /\ FInv'
      /\ \A f \in File : dir'[f] = IF f = file THEN mobj_id ELSE dir[f]
  BY <1>1 DEF WholeInv
<1> DEFINE was == [f \in File |-> FileOf(f)]
           is == [f \in File |-> FileOf(f)']
<1>3. was = [f \in File |-> was[f]] /\ is = [f \in File |-> is[f]]
  OBVIOUS
<1>4. was[file] = NoFile
  BY <1>1, <1>2, FileOfIs
<1>5. held[file] \in Desc
  <2>1. held[file] # NoFile
    BY <1>1 DEF WholeInv, Holders
  <2> QED BY <1>1, <2>1, ListHolds DEF WholeInv
<1>6. is[file] = [obj_id |-> mobj_id, fhash |-> file, edes |-> held[file]]
  <2>1. file \in Named' /\ file \in File
    BY <1>1, <1>2 DEF Named
  <2>2. \A f \in File : is[f] = IF f \in Named' THEN [obj_id |-> dir'[f], fhash |-> f, edes |-> held'[f]]
                               ELSE NoFile
    BY <1>2, FileOfIsNext
  <2> HIDE DEF is
  <2> QED BY <1>1, <1>2, <2>1, <2>2
<1>7. \A g \in File \ {file} : is[g] = was[g]
  BY <1>1, <1>2, SameFile
<1>8. \A g \in File : was[g] # NoFile => was[g].obj_id \in Owned
  <2> TAKE g \in File
  <2>1. was[g] = IF g \in Named THEN MetaOf(g, dir[g]) ELSE NoFile
    BY <1>2, FileOfIs
  <2>2. g \in Named => MetaOf(g, dir[g]).obj_id \in Owned
    BY DEF MetaOf, Owned
  <2> QED BY <2>1, <2>2
<1> HIDE DEF was, is
<1>9. is[file] \in Files!Metadata(file)
  BY <1>1, <1>5, <1>6 DEF Files!Metadata
<1>10. \A g \in File : was[g] # NoFile => was[g].obj_id # is[file].obj_id
  BY <1>1, <1>6, <1>8
<1>11. is = [was EXCEPT ![file] = is[file]]
  BY <1>1, <1>3, <1>7
<1> QED BY <1>4, <1>9, <1>10, <1>11 DEF Files!Create, was, is

\* DeleteName deletes it.
LEMMA DeleteNameDeletes ==
    ASSUME WholeInv, WholeInv', NEW f \in File, DeleteName(f)
    PROVE  Files!Delete(f)
<1>1. /\ held' = held /\ f \in Named
      /\ dir' = [dir EXCEPT ![f] = NoFile] /\ dir \in [File -> Mobj \cup {NoFile}]
  BY DEF DeleteName, vars, Named, WholeInv, FInv, Tables
<1>2. /\ FInv /\ FInv'
      /\ \A g \in File : dir'[g] = IF g = f THEN NoFile ELSE dir[g]
  BY <1>1 DEF WholeInv
<1> DEFINE was == [g \in File |-> FileOf(g)]
           is == [g \in File |-> FileOf(g)']
<1>3. was = [g \in File |-> was[g]] /\ is = [g \in File |-> is[g]]
  OBVIOUS
<1>4. was[f] # NoFile
  <2>1. was[f] = MetaOf(f, dir[f]) /\ dir[f] \in Mobj
    BY <1>1, <1>2, FileOfIs DEF Named
  <2>2. held[f] \in Desc
    <3>1. held[f] # NoFile
      BY <1>1 DEF WholeInv, Holders
    <3> QED BY <3>1, ListHolds DEF WholeInv
  <2>3. MetaOf(f, dir[f]) \in FileMeta
    BY <2>1, <2>2 DEF MetaOf, FileMeta
  <2> QED BY <2>1, <2>3, NoFileIsNoObject
<1>5. is[f] = NoFile
  BY <1>2 DEF FileOf
<1>6. \A g \in File \ {f} : is[g] = was[g]
  BY <1>1, <1>2, SameFile
<1> HIDE DEF was, is
<1>7. was[f] # NoFile /\ is = [was EXCEPT ![f] = NoFile]
  BY <1>3, <1>4, <1>5, <1>6
<1> QED BY <1>7 DEF Files!Delete, was, is

\* All other steps are not seen: only the file amid its operation, which is
\* not in the directory, is given or gives back an extent.
LEMMA OthersStutter ==
    ASSUME WholeInv, WholeInv', [FsNext]_fsvars,
           ~AddName, \A f \in File : ~DeleteName(f)
    PROVE  UNCHANGED [f \in File |-> FileOf(f)]
<1>1. \/ TakeExtent \/ ReturnExtent \/ WriteMeta \/ FreeMeta \/ ExtentGC
      \/ UNCHANGED fsvars \/ \E f \in File : AllocMeta(f)
  BY DEF FsNext
<1>2. dir' = dir
  BY <1>1 DEF TakeExtent, ReturnExtent, WriteMeta, FreeMeta, ExtentGC, AllocMeta, fsvars, fvars
<1>4. \A f \in Named : held'[f] = held[f]
  <2>1. CASE TakeExtent \/ ReturnExtent
    <3>1. file \in File \ Named /\ held = [f \in File |-> held[f]]
      BY <2>1 DEF TakeExtent, ReturnExtent, WholeInv, FInv, Operation, Tables
    <3>2. held' = held \/ \E d : held' = [held EXCEPT ![file] = d]
      BY <2>1 DEF TakeExtent, ReturnExtent, GetNewExt, vars
    <3> QED BY <3>1, <3>2 DEF Named
  <2>2. CASE ~(TakeExtent \/ ReturnExtent)
    <3>1. GCStep => UNCHANGED held
      BY DEF GCStep, GCSweep, GCBorrowPrev, GCMergePrev, GCBorrowNext, GCMergeNext, GCAdvance
    <3>2. held' = held
      BY <1>1, <2>2, <3>1 DEF WriteMeta, FreeMeta, ExtentGC, AllocMeta, GCStart, fsvars, vars
    <3> QED BY <3>2
  <2> QED BY <2>1, <2>2
<1>5. \A f \in File : FileOf(f)' = FileOf(f)
  BY <1>2, <1>4, SameFile DEF WholeInv
<1> QED BY <1>5

\* Every step creates a file, deletes one or is not seen.
LEMMA FilesStep ==
    ASSUME WholeInv, WholeInv', [FsNext]_fsvars
    PROVE  [Files!Next]_[f \in File |-> FileOf(f)]
<1>1. CASE AddName
  <2>1. file \in File
    BY <1>1 DEF AddName, WholeInv, FInv, Operation
  <2> QED BY <1>1, <2>1, AddNameCreates DEF Files!Next
<1>2. ASSUME NEW f \in File, DeleteName(f)
      PROVE  [Files!Next]_[g \in File |-> FileOf(g)]
  BY <1>2, DeleteNameDeletes DEF Files!Next
<1>3. CASE ~AddName /\ \A f \in File : ~DeleteName(f)
  BY <1>3, OthersStutter
<1> QED BY <1>1, <1>2, <1>3

\* With a NAT entry for each file, creating and deleting files in the steps
\* the code takes implements files with metadata of their own, over the store
\* the program is linked with as over the one that returns the node itself.
THEOREM FilesRefinement ==
    ASSUME RoomForAll, Degrees
    PROVE  FsSpec => ImplementsFiles
<1>1. FsInit => Files!Init
  BY DEF FsInit, Files!Init, FileOf
<1>2. WholeInv /\ WholeInv' /\ [FsNext]_fsvars => [Files!Next]_[f \in File |-> FileOf(f)]
  BY FilesStep
<1>3. FsSpec => []WholeInv
  BY WholeInvariant
<1> QED BY <1>1, <1>2, <1>3, PTL DEF FsSpec, ImplementsFiles, Files!Spec
=============================================================================
