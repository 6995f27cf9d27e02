---------------------------- MODULE Sums_proofs -----------------------------

(***************************************************************************)
(* Sums over finite sets.                                                  *)
(***************************************************************************)
EXTENDS Integers, FiniteSetsExt, FiniteSetTheorems, WellFoundedInduction, TLAPS

Sum(f, S) == MapThenSumSet(LAMBDA x : f[x], S)

Any(s) == CHOOSE x \in s : TRUE

\* The function that MapThenSumSet defines recursively.
Step(f, g, s) == IF s = {} THEN 0 ELSE f[Any(s)] + g[s \ {Any(s)}]

Iter(f, S) == CHOOSE g : g = [s \in SUBSET S |-> Step(f, g, s)]

LEMMA SumIs ==
    ASSUME NEW f, NEW S
    PROVE  Sum(f, S) = Iter(f, S)[S]
BY DEF Sum, MapThenSumSet, MapThenFoldSet, Iter, Step, Any

LEMMA Least ==
    ASSUME NEW S, IsFiniteSet(S), NEW T \in SUBSET (SUBSET S), T # {}
    PROVE  \E s \in T : \A t \in T : t \subseteq s => t = s
<1>1. T \subseteq FiniteSubsetsOf(S)
  BY FS_Subset DEF FiniteSubsetsOf
<1>2. \E s \in T : \A t \in T : ~(<<t, s>> \in StrictSubsetOrdering(S))
  BY <1>1, WFMin, FS_StrictSubsetOrderingWellFounded
<1> QED BY <1>2 DEF StrictSubsetOrdering

(***************************************************************************)
(* The recursion has a solution.  Derived(f, S, s, v) says that every set  *)
(* of pairs closed under the recursion's rules has <<s, v>>: there is just *)
(* one such v for each s.                                                  *)
(***************************************************************************)
ClosedUnder(f, S, R) ==
    /\ <<{}, 0>> \in R
    /\ \A s \in SUBSET S, v \in Int :
         s # {} /\ <<s \ {Any(s)}, v>> \in R => <<s, f[Any(s)] + v>> \in R

Derived(f, S, s, v) ==
    \A R \in SUBSET ((SUBSET S) \X Int) : ClosedUnder(f, S, R) => <<s, v>> \in R

OneDerived(f, S, s) ==
    \E v \in Int : Derived(f, S, s, v) /\ \A w \in Int : Derived(f, S, s, w) => w = v

LEMMA AnyIsMember ==
    ASSUME NEW s, s # {}
    PROVE  Any(s) \in s
BY DEF Any

LEMMA DerivedIsClosed ==
    ASSUME NEW S, NEW f, \A x \in S : f[x] \in Int
    PROVE  /\ Derived(f, S, {}, 0)
           /\ \A s \in SUBSET S, v \in Int :
                s # {} /\ Derived(f, S, s \ {Any(s)}, v) => Derived(f, S, s, f[Any(s)] + v)
BY DEF Derived, ClosedUnder

LEMMA EveryDerived ==
    ASSUME NEW S, IsFiniteSet(S), NEW f, \A x \in S : f[x] \in Int
    PROVE  \A s \in SUBSET S : OneDerived(f, S, s)
<1> DEFINE Bad == {s \in SUBSET S : ~OneDerived(f, S, s)}
           All == {p \in (SUBSET S) \X Int : Derived(f, S, p[1], p[2])}
<1> SUFFICES ASSUME Bad # {} PROVE FALSE
  OBVIOUS
<1>1. PICK s \in Bad : \A t \in Bad : t \subseteq s => t = s
  <2>1. Bad \in SUBSET (SUBSET S)
    OBVIOUS
  <2> HIDE DEF Bad
  <2> QED BY <2>1, Least
<1>2. s \in SUBSET S /\ ~OneDerived(f, S, s)
  OBVIOUS
<1>3. ClosedUnder(f, S, All)
  <2>1. <<{}, 0>> \in All
    BY DerivedIsClosed
  <2>2. ASSUME NEW t \in SUBSET S, NEW v \in Int, t # {}, <<t \ {Any(t)}, v>> \in All
        PROVE  <<t, f[Any(t)] + v>> \in All
    <3>1. Derived(f, S, t \ {Any(t)}, v)
      BY <2>2
    <3>2. Derived(f, S, t, f[Any(t)] + v)
      BY <2>2, <3>1, DerivedIsClosed
    <3>3. f[Any(t)] + v \in Int
      BY <2>2, AnyIsMember
    <3> QED BY <3>2, <3>3
  <2> HIDE DEF All
  <2> QED BY <2>1, <2>2 DEF ClosedUnder

\* A closed set need not hold a second value of s.
<1>4. ASSUME NEW v \in Int, Derived(f, S, s, v),
             s # {} => \E u \in Int : /\ v = f[Any(s)] + u
                                      /\ \A x \in Int : Derived(f, S, s \ {Any(s)}, x) => x = u,
             s = {} => v = 0
      PROVE  FALSE
  <2>1. PICK w \in Int : Derived(f, S, s, w) /\ w # v
    BY <1>2, <1>4 DEF OneDerived
  <2> DEFINE R == All \ {<<s, w>>}
  <2>2. R \in SUBSET ((SUBSET S) \X Int)
    OBVIOUS
  <2>3. <<{}, 0>> \in R
    <3>1. <<{}, 0>> # <<s, w>>
      BY <1>4, <2>1
    <3>2. <<{}, 0>> \in All
      BY <1>3 DEF ClosedUnder
    <3> QED BY <3>1, <3>2
  <2>4. ASSUME NEW t \in SUBSET S, NEW x \in Int, t # {}, <<t \ {Any(t)}, x>> \in R
        PROVE  <<t, f[Any(t)] + x>> \in R
    <3>1. <<t, f[Any(t)] + x>> \in All
      <4> HIDE DEF All
      <4> QED BY <1>3, <2>4 DEF ClosedUnder
    <3>2. <<t, f[Any(t)] + x>> # <<s, w>>
      <4>1. Derived(f, S, t \ {Any(t)}, x)
        BY <2>4
      <4> QED BY <1>4, <2>1, <2>4, <4>1
    <3> QED BY <3>1, <3>2
  <2>5. <<s, w>> \notin R
    OBVIOUS
  <2> HIDE DEF R
  <2>6. ClosedUnder(f, S, R)
    BY <2>3, <2>4 DEF ClosedUnder
  <2> QED BY <2>1, <2>2, <2>5, <2>6 DEF Derived
<1>5. CASE s = {}
  BY <1>4, <1>5, DerivedIsClosed
<1>6. CASE s # {}
  <2>1. Any(s) \in s /\ s \ {Any(s)} \in SUBSET S /\ s \ {Any(s)} # s
    BY <1>2, <1>6, AnyIsMember
  <2>2. OneDerived(f, S, s \ {Any(s)})
    BY <1>1, <2>1
  <2>3. PICK u \in Int : /\ Derived(f, S, s \ {Any(s)}, u)
                         /\ \A x \in Int : Derived(f, S, s \ {Any(s)}, x) => x = u
    BY <2>2 DEF OneDerived
  <2>4. f[Any(s)] + u \in Int /\ Derived(f, S, s, f[Any(s)] + u)
    <3>1. f[Any(s)] \in Int
      BY <1>2, <2>1
    <3>2. Derived(f, S, s, f[Any(s)] + u)
      BY <1>2, <1>6, <2>3, DerivedIsClosed
    <3> QED BY <2>3, <3>1, <3>2
  <2> QED BY <1>4, <1>6, <2>3, <2>4
<1> QED BY <1>5, <1>6

LEMMA IterIs ==
    ASSUME NEW S, IsFiniteSet(S), NEW f, \A x \in S : f[x] \in Int
    PROVE  Iter(f, S) = [s \in SUBSET S |-> Step(f, Iter(f, S), s)]
<1> DEFINE Value(s) == CHOOSE v : v \in Int /\ Derived(f, S, s, v)
           g == [s \in SUBSET S |-> Value(s)]
<1>1. \A s \in SUBSET S :
        /\ Value(s) \in Int /\ Derived(f, S, s, Value(s))
        /\ \A v \in Int : Derived(f, S, s, v) => v = Value(s)
  BY EveryDerived DEF OneDerived
<1> HIDE DEF Value
<1>2. ASSUME NEW s \in SUBSET S PROVE g[s] = Step(f, g, s)
  <2>1. CASE s = {}
    BY <1>1, <2>1, DerivedIsClosed DEF Step
  <2>2. CASE s # {}
    <3> DEFINE p == s \ {Any(s)}
    <3>1. Any(s) \in S /\ p \in SUBSET S
      BY <2>2, AnyIsMember
    <3>2. Derived(f, S, s, f[Any(s)] + Value(p))
      BY <1>1, <2>2, <3>1, DerivedIsClosed
    <3>3. f[Any(s)] + Value(p) \in Int
      BY <1>1, <3>1
    <3>4. Value(s) = f[Any(s)] + Value(p)
      BY <1>1, <3>2, <3>3
    <3> QED BY <2>2, <3>1, <3>4 DEF Step
  <2> QED BY <2>1, <2>2
<1>3. g = [s \in SUBSET S |-> Step(f, g, s)]
  BY <1>2
<1> HIDE DEF g
<1> QED BY <1>3 DEF Iter

(***************************************************************************)
(* What a sum is.                                                          *)
(***************************************************************************)

\* A sum depends on the values at the set's elements only.
LEMMA IterAgrees ==
    ASSUME NEW S, IsFiniteSet(S), NEW T \in SUBSET S,
           NEW f, \A x \in S : f[x] \in Int,
           NEW h, \A x \in T : h[x] = f[x]
    PROVE  \A s \in SUBSET T : Iter(f, S)[s] = Iter(h, T)[s]
<1> DEFINE Bad == {s \in SUBSET T : Iter(f, S)[s] # Iter(h, T)[s]}
<1> SUFFICES ASSUME Bad # {} PROVE FALSE
  OBVIOUS
<1>1. IsFiniteSet(T) /\ \A x \in T : h[x] \in Int
  BY FS_Subset
<1>2. PICK s \in Bad : \A t \in Bad : t \subseteq s => t = s
  <2>1. Bad \in SUBSET (SUBSET T)
    OBVIOUS
  <2> HIDE DEF Bad
  <2> QED BY <1>1, <2>1, Least
<1>3. s \in SUBSET T /\ s \in SUBSET S /\ Iter(f, S)[s] # Iter(h, T)[s]
  OBVIOUS
<1>4. Iter(f, S)[s] = Step(f, Iter(f, S), s) /\ Iter(h, T)[s] = Step(h, Iter(h, T), s)
  <2>1. Iter(f, S) = [t \in SUBSET S |-> Step(f, Iter(f, S), t)]
    BY IterIs
  <2>2. Iter(h, T) = [t \in SUBSET T |-> Step(h, Iter(h, T), t)]
    BY <1>1, IterIs
  <2> QED BY <1>3, <2>1, <2>2
<1>5. s # {}
  BY <1>3, <1>4 DEF Step
<1>6. Any(s) \in T /\ s \ {Any(s)} \in SUBSET T /\ s \ {Any(s)} # s
  BY <1>3, <1>5, AnyIsMember
<1>7. Iter(f, S)[s \ {Any(s)}] = Iter(h, T)[s \ {Any(s)}]
  BY <1>2, <1>6
<1> QED BY <1>3, <1>4, <1>5, <1>6, <1>7 DEF Step

LEMMA SumAgrees ==
    ASSUME NEW S, IsFiniteSet(S), NEW f, \A x \in S : f[x] \in Int,
           NEW h, \A x \in S : h[x] = f[x]
    PROVE  Sum(h, S) = Sum(f, S)
<1> DEFINE T == S
<1>1. T \in SUBSET S /\ \A x \in T : h[x] = f[x]
  OBVIOUS
<1> HIDE DEF T
<1>2. \A s \in SUBSET T : Iter(f, S)[s] = Iter(h, T)[s]
  BY <1>1, IterAgrees
<1>3. Iter(f, S)[S] = Iter(h, S)[S]
  BY <1>2 DEF T
<1> QED BY <1>3, SumIs

LEMMA SumOfNone ==
    ASSUME NEW f
    PROVE  Sum(f, {}) = 0
<1>1. IsFiniteSet({}) /\ \A x \in {} : f[x] \in Int
  BY FS_EmptySet
<1>2. Iter(f, {}) = [s \in SUBSET {} |-> Step(f, Iter(f, {}), s)]
  BY <1>1, IterIs
<1>3. Iter(f, {})[{}] = Step(f, Iter(f, {}), {})
  BY <1>2
<1> QED BY <1>3, SumIs DEF Step

LEMMA SumTakesAny ==
    ASSUME NEW S, IsFiniteSet(S), S # {}, NEW f, \A x \in S : f[x] \in Int
    PROVE  Sum(f, S) = f[Any(S)] + Sum(f, S \ {Any(S)})
<1> DEFINE T == S \ {Any(S)}
<1>1. T \in SUBSET S /\ T \in SUBSET T
  OBVIOUS
<1>2. Iter(f, S)[S] = f[Any(S)] + Iter(f, S)[T]
  <2>1. Iter(f, S) = [s \in SUBSET S |-> Step(f, Iter(f, S), s)]
    BY IterIs
  <2>2. Iter(f, S)[S] = Step(f, Iter(f, S), S)
    BY <2>1
  <2> QED BY <2>2 DEF Step
<1>3. Iter(f, S)[T] = Iter(f, T)[T]
  <2> HIDE DEF T
  <2> QED BY <1>1, IterAgrees
<1> QED BY <1>2, <1>3, SumIs

\* Any element may be taken out first.
LEMMA SumTakes ==
    ASSUME NEW S, IsFiniteSet(S), NEW f, \A x \in S : f[x] \in Int, NEW y \in S
    PROVE  Sum(f, S) = f[y] + Sum(f, S \ {y}) /\ Sum(f, S) \in Int
<1> DEFINE Good(s) == /\ Sum(f, s) \in Int
                      /\ \A z \in s : Sum(f, s) = f[z] + Sum(f, s \ {z})
           Bad == {s \in SUBSET S : ~Good(s)}
<1> SUFFICES ASSUME Bad # {} PROVE FALSE
  OBVIOUS
<1>1. PICK s \in Bad : \A t \in Bad : t \subseteq s => t = s
  <2>1. Bad \in SUBSET (SUBSET S)
    OBVIOUS
  <2> HIDE DEF Bad
  <2> QED BY <2>1, Least
<1>2. s \in SUBSET S /\ ~Good(s) /\ IsFiniteSet(s) /\ \A x \in s : f[x] \in Int
  BY FS_Subset
<1>3. \A t \in SUBSET s : t # s => Good(t)
  BY <1>1, <1>2
<1>4. s # {}
  BY <1>2, SumOfNone
<1>5. Any(s) \in s
  BY <1>4, AnyIsMember
<1>6. Sum(f, s) = f[Any(s)] + Sum(f, s \ {Any(s)})
  BY <1>2, <1>4, SumTakesAny
<1>7. Sum(f, s \ {Any(s)}) \in Int
  BY <1>3, <1>5
<1>8. Sum(f, s) \in Int
  BY <1>2, <1>5, <1>6, <1>7
<1>9. ASSUME NEW z \in s PROVE Sum(f, s) = f[z] + Sum(f, s \ {z})
  <2>1. CASE z = Any(s)
    BY <1>6, <2>1
  <2>2. CASE z # Any(s)
    <3> DEFINE u == s \ {z, Any(s)}
    <3>1. Sum(f, s \ {Any(s)}) = f[z] + Sum(f, u)
      <4>1. Good(s \ {Any(s)})
        BY <1>3, <1>5
      <4>2. (s \ {Any(s)}) \ {z} = u /\ z \in s \ {Any(s)}
        BY <2>2
      <4> QED BY <4>1, <4>2
    <3>2. Sum(f, s \ {z}) = f[Any(s)] + Sum(f, u)
      <4>1. Good(s \ {z})
        BY <1>3
      <4>2. (s \ {z}) \ {Any(s)} = u /\ Any(s) \in s \ {z}
        BY <1>5, <2>2
      <4> QED BY <4>1, <4>2
    <3>3. Sum(f, u) \in Int
      BY <1>3
    <3>4. f[z] \in Int /\ f[Any(s)] \in Int
      BY <1>2, <1>5
    <3> HIDE DEF u
    <3> QED BY <1>6, <3>1, <3>2, <3>3, <3>4
  <2> QED BY <2>1, <2>2
<1> QED BY <1>2, <1>8, <1>9

LEMMA SumType ==
    ASSUME NEW S, IsFiniteSet(S), NEW f, \A x \in S : f[x] \in Int
    PROVE  Sum(f, S) \in Int
<1>1. CASE S = {}
  BY <1>1, SumOfNone
<1>2. CASE S # {}
  BY <1>2, SumTakes
<1> QED BY <1>1, <1>2

\* When one summand changes, so does the sum.
LEMMA SumChanges ==
    ASSUME NEW S, IsFiniteSet(S), NEW f, \A x \in S : f[x] \in Int,
           NEW h, NEW y \in S, h[y] \in Int, \A x \in S : x # y => h[x] = f[x]
    PROVE  Sum(h, S) = Sum(f, S) + h[y] - f[y]
<1>1. IsFiniteSet(S \ {y})
  BY FS_RemoveElement
<1>2. Sum(h, S \ {y}) = Sum(f, S \ {y})
  BY <1>1, SumAgrees
<1>3. Sum(f, S \ {y}) \in Int
  BY <1>1, SumType
<1>4. /\ Sum(f, S) = f[y] + Sum(f, S \ {y})
      /\ Sum(h, S) = h[y] + Sum(h, S \ {y})
  BY SumTakes
<1> QED BY <1>2, <1>3, <1>4

\* A new element adds its summand.
LEMMA SumGrows ==
    ASSUME NEW S, IsFiniteSet(S), NEW y, y \notin S,
           NEW f, \A x \in S \cup {y} : f[x] \in Int
    PROVE  Sum(f, S \cup {y}) = Sum(f, S) + f[y]
<1>1. IsFiniteSet(S \cup {y}) /\ (S \cup {y}) \ {y} = S /\ y \in S \cup {y}
  BY FS_AddElement
<1>2. Sum(f, S \cup {y}) = f[y] + Sum(f, S)
  BY <1>1, SumTakes
<1>3. Sum(f, S) \in Int
  BY SumType
<1> QED BY <1>2, <1>3
LEMMA SumOfOne ==
    ASSUME NEW y, NEW f, f[y] \in Int
    PROVE  Sum(f, {y}) = f[y]
<1> DEFINE S == {y}
<1>1. IsFiniteSet(S) /\ y \in S /\ S \ {y} = {} /\ \A x \in S : f[x] \in Int
  BY FS_Singleton
<1> HIDE DEF S
<1>2. Sum(f, S) = f[y] + Sum(f, S \ {y})
  BY <1>1, SumTakes
<1>3. Sum(f, S) = f[y]
  BY <1>1, <1>2, SumOfNone
<1> QED BY <1>3 DEF S

\* A sum of naturals is not negative.
LEMMA SumNotNegative ==
    ASSUME NEW S, IsFiniteSet(S), NEW f, \A x \in S : f[x] \in Int /\ f[x] >= 0
    PROVE  Sum(f, S) >= 0
<1> DEFINE Bad == {s \in SUBSET S : ~(Sum(f, s) >= 0)}
<1> SUFFICES ASSUME Bad # {} PROVE FALSE
  OBVIOUS
<1>1. PICK s \in Bad : \A t \in Bad : t \subseteq s => t = s
  <2>1. Bad \in SUBSET (SUBSET S)
    OBVIOUS
  <2> HIDE DEF Bad
  <2> QED BY <2>1, Least
<1>2. IsFiniteSet(s) /\ \A x \in s : f[x] \in Int /\ f[x] >= 0
  BY FS_Subset
<1>3. s # {}
  BY SumOfNone
<1>4. PICK y \in s : TRUE
  BY <1>3
<1>5. Sum(f, s) = f[y] + Sum(f, s \ {y})
  BY <1>2, SumTakes
<1>6. Sum(f, s \ {y}) >= 0
  BY <1>1, <1>4
<1>7. Sum(f, s \ {y}) \in Int
  <2>1. IsFiniteSet(s \ {y})
    BY <1>2, FS_RemoveElement
  <2> QED BY <1>2, <2>1, SumType
<1> QED BY <1>2, <1>5, <1>6, <1>7

\* A sum of zeros is zero.
LEMMA SumOfZeros ==
    ASSUME NEW S, IsFiniteSet(S), NEW f, \A x \in S : f[x] = 0
    PROVE  Sum(f, S) = 0
<1> DEFINE Bad == {s \in SUBSET S : Sum(f, s) # 0}
<1> SUFFICES ASSUME Bad # {} PROVE FALSE
  OBVIOUS
<1>1. PICK s \in Bad : \A t \in Bad : t \subseteq s => t = s
  <2>1. Bad \in SUBSET (SUBSET S)
    OBVIOUS
  <2> HIDE DEF Bad
  <2> QED BY <2>1, Least
<1>2. IsFiniteSet(s) /\ \A x \in s : f[x] \in Int
  BY FS_Subset
<1>3. s # {}
  BY SumOfNone
<1>4. PICK y \in s : TRUE
  BY <1>3
<1>5. Sum(f, s) = f[y] + Sum(f, s \ {y}) /\ f[y] = 0
  BY <1>2, SumTakes
<1>6. Sum(f, s \ {y}) = 0
  BY <1>1, <1>4
<1> QED BY <1>5, <1>6
=============================================================================
