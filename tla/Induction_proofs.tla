---------------------------- MODULE Induction_proofs ----------------------------
(***************************************************************************)
(* Induction as facts about sets - a set of numbers has a least one, a     *)
(* set of finite sets has one from which no element can be taken - and     *)
(* what follows by it about the sum of a dictionary's values.              *)
(***************************************************************************)
EXTENDS Integers, Functions, Dictionaries, FiniteSetTheorems, WellFoundedInduction, TLAPS

\* Any set of natural numbers has a least element, unless it is empty.
LEMMA LeastNumber ==
  ASSUME NEW T \in SUBSET Nat, T # {}
  PROVE  \E m \in T : \A n \in T : m <= n
<1> DEFINE R == OpToRel(<, Nat)
<1>1. \A x, y \in Nat : x < y => <<x, y>> \in R
  BY DEF OpToRel
<1>2. IsWellFoundedOn(R, Nat)
  BY NatLessThanWellFounded
<1> HIDE DEF R
<1>3. PICK m \in T : \A n \in T : <<n, m>> \notin R
  BY <1>2, WFMin
<1>4. ASSUME NEW n \in T
      PROVE  m <= n
  <2>1. ~(n < m)
    BY <1>1, <1>3
  <2> QED
    BY <2>1
<1> QED
  BY <1>4

\* A set that has 0 and with each number the next has all of them.
LEMMA AllNumbers ==
  ASSUME NEW S, 0 \in S, \A n \in Nat : n \in S => n + 1 \in S
  PROVE  Nat \subseteq S
<1> SUFFICES ASSUME Nat \ S # {} PROVE FALSE
  OBVIOUS
<1>1. PICK m \in Nat \ S : \A n \in Nat \ S : m <= n
  BY LeastNumber
<1>2. m # 0 /\ m - 1 \in Nat /\ m - 1 \in S
  BY <1>1
<1> QED
  BY <1>2

\* Among some subsets of a finite set there is one that is none of them any more
\* when an element is taken away.
LEMMA LeastSubset ==
  ASSUME NEW S, IsFiniteSet(S), NEW B \in SUBSET SUBSET S, B # {}
  PROVE  \E s \in B : \A x \in s : s \ {x} \notin B
<1> DEFINE Sizes == {Cardinality(s) : s \in B}
<1>1. \A s \in SUBSET S : IsFiniteSet(s) /\ Cardinality(s) \in Nat
  BY FS_Subset, FS_CardinalityType
<1>2. \A s \in SUBSET S : \A x \in s : Cardinality(s \ {x}) = Cardinality(s) - 1
  BY <1>1, FS_RemoveElement
<1>3. Sizes \in SUBSET Nat /\ Sizes # {}
  BY <1>1
<1>4. PICK m \in Sizes : \A n \in Sizes : m <= n
  BY <1>3, LeastNumber
<1>5. PICK s \in B : Cardinality(s) = m
  BY <1>4
<1>6. ASSUME NEW x \in s, s \ {x} \in B
      PROVE  FALSE
  <2>1. m <= Cardinality(s \ {x})
    BY <1>4, <1>6
  <2> QED
    BY <1>1, <1>2, <1>5, <2>1
<1> QED
  BY <1>5, <1>6

-----------------------------------------------------------------------------
\* Sums.

Some(s) == CHOOSE x \in s : TRUE

\* g sums f over each set of T, one element after the other.
Sums(f, T, g) ==
  g = [s \in T |-> IF s = {} THEN 0 ELSE f[Some(s)] + g[s \ {Some(s)}]]

Sum(f, S) == (CHOOSE g : Sums(f, SUBSET S, g))[S]

\* The element taken is one of the set.
LEMMA SomeIsIn == ASSUME NEW s, s # {} PROVE Some(s) \in s
  BY DEF Some

\* Over a finite set there is such a g: it is built for sets of one element more
\* at a time.
LEMMA SumsExist ==
  ASSUME NEW f, NEW S, IsFiniteSet(S)
  PROVE  \E g : Sums(f, SUBSET S, g)
<1> DEFINE Upto(n) == {s \in SUBSET S : Cardinality(s) <= n}
           Sizes == {n \in Nat : \E g : Sums(f, Upto(n), g)}
<1>1. \A s \in SUBSET S : IsFiniteSet(s) /\ Cardinality(s) \in Nat /\ Cardinality(s) <= Cardinality(S)
  BY FS_Subset, FS_CardinalityType
<1>2. \A s \in SUBSET S : \A x \in s : Cardinality(s \ {x}) = Cardinality(s) - 1
  BY <1>1, FS_RemoveElement
<1>3. 0 \in Sizes
  <2> DEFINE g == [s \in Upto(0) |-> 0]
  <2>1. \A s \in Upto(0) : s = {}
    BY <1>1, FS_EmptySet
  <2>2. g = [s \in Upto(0) |-> IF s = {} THEN 0 ELSE f[Some(s)] + g[s \ {Some(s)}]]
    BY <2>1
  <2> HIDE DEF g
  <2> QED
    BY <2>2 DEF Sums
<1>4. ASSUME NEW n \in Nat, n \in Sizes
      PROVE  n + 1 \in Sizes
  <2>1. PICK h : Sums(f, Upto(n), h)
    BY <1>4
  <2> DEFINE Next1(e, s) == IF s = {} THEN 0 ELSE f[Some(s)] + e[s \ {Some(s)}]
             g == [s \in Upto(n + 1) |-> Next1(h, s)]
  <2>2. ASSUME NEW s \in Upto(n + 1), s # {}
        PROVE  g[s \ {Some(s)}] = h[s \ {Some(s)}]
    <3>1. s \ {Some(s)} \in Upto(n) /\ s \ {Some(s)} \in Upto(n + 1)
      BY <1>1, <1>2, <2>2, SomeIsIn
    <3> DEFINE t == s \ {Some(s)}
    <3>2. h[t] = Next1(h, t)
      BY <2>1, <3>1 DEF Sums
    <3>3. g[t] = Next1(h, t)
      BY <3>1
    <3> QED
      BY <3>2, <3>3
  <2>3. \A s \in Upto(n + 1) : Next1(g, s) = Next1(h, s)
    <3> HIDE DEF g
    <3> QED
      BY <2>2
  <2>4. g = [s \in Upto(n + 1) |-> Next1(g, s)]
    BY <2>3
  <2> HIDE DEF g
  <2>5. Sums(f, Upto(n + 1), g)
    BY <2>4 DEF Sums
  <2> QED
    BY <2>5
<1>5. Cardinality(S) \in Sizes
  <2> HIDE DEF Sizes
  <2> QED
    BY <1>1, <1>3, <1>4, AllNumbers
<1>6. Upto(Cardinality(S)) = SUBSET S
  BY <1>1
<1> QED
  BY <1>5, <1>6

\* Over any set that contains a finite one, the sum of that is the same.
LEMMA SumsAgree ==
  ASSUME NEW f, NEW S, IsFiniteSet(S), NEW T \in SUBSET S,
         NEW g, Sums(f, SUBSET S, g), NEW h, Sums(f, SUBSET T, h)
  PROVE  g[T] = h[T]
<1> DEFINE B == {s \in SUBSET T : g[s] # h[s]}
<1>1. SUFFICES ASSUME B # {} PROVE FALSE
  OBVIOUS
<1>2. IsFiniteSet(T)
  BY FS_Subset
<1>3. PICK s \in B : \A x \in s : s \ {x} \notin B
  BY <1>1, <1>2, LeastSubset
<1>4. s # {}
  BY <1>3 DEF Sums
<1>5. g[s \ {Some(s)}] = h[s \ {Some(s)}]
  BY <1>3, <1>4, SomeIsIn
<1>6. /\ g[s] = f[Some(s)] + g[s \ {Some(s)}]
      /\ h[s] = f[Some(s)] + h[s \ {Some(s)}]
  BY <1>4 DEF Sums
<1> QED
  BY <1>3, <1>5, <1>6

\* The sum taken as it is defined: nothing, or some element and the rest.
LEMMA SumDef ==
  ASSUME NEW f, NEW S, IsFiniteSet(S)
  PROVE  /\ Sum(f, {}) = 0
         /\ S # {} => Sum(f, S) = f[Some(S)] + Sum(f, S \ {Some(S)})
<1>1. ASSUME NEW T, IsFiniteSet(T)
      PROVE  \E g : Sums(f, SUBSET T, g) /\ Sum(f, T) = g[T]
  BY <1>1, SumsExist DEF Sum
<1>2. Sum(f, {}) = 0
  BY <1>1, FS_EmptySet DEF Sums
<1>3. ASSUME S # {}
      PROVE  Sum(f, S) = f[Some(S)] + Sum(f, S \ {Some(S)})
  <2> DEFINE T == S \ {Some(S)}
  <2>1. T \in SUBSET S /\ IsFiniteSet(T)
    BY FS_Subset
  <2>2. PICK g : Sums(f, SUBSET S, g) /\ Sum(f, S) = g[S]
    BY <1>1
  <2> HIDE DEF T
  <2>3. PICK h : Sums(f, SUBSET T, h) /\ Sum(f, T) = h[T]
    BY <1>1, <2>1
  <2>4. g[T] = h[T]
    <3>1. \A U \in SUBSET S : Sums(f, SUBSET S, g) /\ Sums(f, SUBSET U, h) => g[U] = h[U]
      BY SumsAgree, ZenonT(60)
    <3> QED
      BY <2>1, <2>2, <2>3, <3>1
  <2>5. g[S] = f[Some(S)] + g[T]
    BY <1>3, <2>2 DEF Sums, T
  <2> QED
    BY <2>2, <2>3, <2>4, <2>5 DEF T
<1> QED
  BY <1>2, <1>3

\* A sum of integers is one.
LEMMA SumInt ==
  ASSUME NEW f, NEW S, IsFiniteSet(S), \A x \in S : f[x] \in Int
  PROVE  Sum(f, S) \in Int
<1> DEFINE B == {s \in SUBSET S : Sum(f, s) \notin Int}
<1>1. SUFFICES ASSUME B # {} PROVE FALSE
  OBVIOUS
<1>2. PICK s \in B : \A x \in s : s \ {x} \notin B
  BY <1>1, LeastSubset
<1>3. IsFiniteSet(s)
  BY FS_Subset
<1>4. s # {} /\ Some(s) \in s
  BY <1>2, <1>3, SumDef, SomeIsIn
<1>5. Sum(f, s \ {Some(s)}) \in Int
  BY <1>2, <1>4
<1> QED
  BY <1>2, <1>3, <1>4, <1>5, SumDef

\* Whichever element is taken first, the sum is the same.
LEMMA SumOf ==
  ASSUME NEW f, NEW S, IsFiniteSet(S), \A x \in S : f[x] \in Int, NEW x \in S
  PROVE  Sum(f, S) = f[x] + Sum(f, S \ {x})
<1> DEFINE B == {s \in SUBSET S : \E y \in s : Sum(f, s) # f[y] + Sum(f, s \ {y})}
<1>1. SUFFICES ASSUME B # {} PROVE FALSE
  OBVIOUS
<1>2. PICK s \in B : \A y \in s : s \ {y} \notin B
  BY <1>1, LeastSubset
<1>3. PICK y \in s : Sum(f, s) # f[y] + Sum(f, s \ {y})
  BY <1>2
<1> DEFINE z == Some(s)
           rest == s \ {y, z}
<1>4. z \in s /\ Sum(f, s) = f[z] + Sum(f, s \ {z})
  BY FS_Subset, SumDef, SomeIsIn
<1>5. y # z
  BY <1>3, <1>4
<1> HIDE DEF z
<1>6. (s \ {z}) \ {y} = rest /\ (s \ {y}) \ {z} = rest
  OBVIOUS
<1>7. ASSUME NEW u \in s, NEW w \in s \ {u}
      PROVE  Sum(f, s \ {u}) = f[w] + Sum(f, (s \ {u}) \ {w})
  BY <1>2
<1>8. /\ Sum(f, s \ {z}) = f[y] + Sum(f, rest)
      /\ Sum(f, s \ {y}) = f[z] + Sum(f, rest)
  <2>1. y \in s \ {z} /\ z \in s \ {y}
    BY <1>4, <1>5
  <2> QED
    BY <1>4, <1>6, <1>7, <2>1
<1>9. f[y] \in Int /\ f[z] \in Int /\ Sum(f, rest) \in Int
  BY <1>4, FS_Subset, SumInt
<1> QED
  BY <1>3, <1>4, <1>8, <1>9

\* Only the values on the set count.
LEMMA SumSame ==
  ASSUME NEW f, NEW g, NEW S, IsFiniteSet(S), \A x \in S : f[x] = g[x]
  PROVE  Sum(f, S) = Sum(g, S)
<1> DEFINE B == {s \in SUBSET S : Sum(f, s) # Sum(g, s)}
<1>1. SUFFICES ASSUME B # {} PROVE FALSE
  OBVIOUS
<1>2. PICK s \in B : \A x \in s : s \ {x} \notin B
  BY <1>1, LeastSubset
<1>3. IsFiniteSet(s)
  BY FS_Subset
<1>4. s # {} /\ Some(s) \in s
  BY <1>2, <1>3, SumDef, SomeIsIn
<1>5. Sum(f, s \ {Some(s)}) = Sum(g, s \ {Some(s)}) /\ f[Some(s)] = g[Some(s)]
  BY <1>2, <1>4
<1> QED
  BY <1>2, <1>3, <1>4, <1>5, SumDef

\* The fold of the community modules is this sum.
LEMMA FoldIsSum == \A f : FoldFunction(+, 0, f) = Sum(f, DOMAIN f)
  BY DEF FoldFunction, FoldFunctionOnSet, MapThenFoldSet, Sum, Sums, Some

\* d[k] = v adds to the sum of the values what v has more than the old value.
LEMMA PutSum ==
  ASSUME NEW d, NEW D, IsFiniteSet(D), d \in [D -> Int], NEW k, NEW v \in Int
  PROVE  Sum(Put(d, k, v), D \cup {k}) = Sum(d, D) + v - (IF k \in D THEN d[k] ELSE 0)
<1> DEFINE e == Put(d, k, v)
           E == D \cup {k}
           rest == D \ {k}
<1>1. /\ DOMAIN e = E /\ DOMAIN d = D /\ e[k] = v
      /\ \A x \in rest : e[x] = d[x]
      /\ \A x \in E : e[x] \in Int
  BY DEF Put
<1> SUFFICES Sum(e, E) = Sum(d, D) + v - (IF k \in D THEN d[k] ELSE 0)
  OBVIOUS
<1> HIDE DEF e
<1>2. IsFiniteSet(E) /\ IsFiniteSet(rest)
  BY FS_AddElement, FS_Subset
<1>3. Sum(e, E) = v + Sum(e, rest)
  <2>1. E \ {k} = rest
    OBVIOUS
  <2> QED
    BY <1>1, <1>2, <2>1, SumOf
<1>4. Sum(e, rest) = Sum(d, rest)
  BY <1>1, <1>2, SumSame
<1>5. Sum(d, D) = (IF k \in D THEN d[k] ELSE 0) + Sum(d, rest)
  <2>1. CASE k \in D
    BY <2>1, SumOf
  <2>2. CASE k \notin D
    <3>1. rest = D
      BY <2>2
    <3> QED
      BY <2>2, <3>1, SumInt
  <2> QED
    BY <2>1, <2>2
<1>6. Sum(d, rest) \in Int /\ (k \in D => d[k] \in Int)
  BY <1>2, SumInt
<1> HIDE DEF E, rest
<1> QED
  BY <1>3, <1>4, <1>5, <1>6
=============================================================================
