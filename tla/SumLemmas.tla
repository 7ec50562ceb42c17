------------------------------ MODULE SumLemmas ------------------------------
(***************************************************************************)
(* What a sum over a finite set is, for the theorems about Goals and       *)
(* Reports: SumFunctionOnSet of the community modules adds up f[x] over a  *)
(* set, one element CHOSEN after the other, by a recursive function.       *)
(*                                                                         *)
(* These facts need induction over the set.  It is done here by the least  *)
(* subset for which a fact fails (LeastSubset): one element less, and the  *)
(* fact holds; so it holds with the element too.                           *)
(***************************************************************************)
EXTENDS Functions, FiniteSetTheorems, TLAPS

\* A set of subsets of a finite set has one that contains no other of them.
LEMMA LeastSubset ==
    ASSUME NEW S, IsFiniteSet(S), NEW T, T \subseteq SUBSET S, T # {}
    PROVE  \E m \in T : \A n \in T : n \subseteq m => n = m
<1>1. T \subseteq FiniteSubsetsOf(S)
  BY FS_Subset DEF FiniteSubsetsOf
<1>2. PICK m \in T : \A n \in T : ~(<<n, m>> \in StrictSubsetOrdering(S))
  BY <1>1, FS_StrictSubsetOrderingWellFounded, WFMin
<1>3. QED
  BY <1>2 DEF StrictSubsetOrdering

\* A finite set has an element whose value is the largest.
LEMMA LargestExists ==
    ASSUME NEW S, IsFiniteSet(S), S # {}, NEW f, \A x \in S : f[x] \in Int
    PROVE  \E x \in S : \A y \in S : f[y] <= f[x]
<1> DEFINE Top(T, x) == \A y \in T : f[y] <= f[x]
           bad == {T \in SUBSET S : T # {} /\ ~\E x \in T : Top(T, x)}
<1> SUFFICES ASSUME bad # {} PROVE FALSE
  BY DEF Top
<1>1. PICK m \in bad : \A n \in bad : n \subseteq m => n = m
  <2>1. bad \subseteq SUBSET S
    OBVIOUS
  <2> HIDE DEF bad
  <2>2. QED
    BY <2>1, LeastSubset
<1>2. PICK x : x \in m
  OBVIOUS
<1>3. CASE m = {x}
  BY <1>1, <1>3
<1>4. CASE m # {x}
  <2>1. PICK z \in m \ {x} : Top(m \ {x}, z)
    <3>1. m \ {x} # {} /\ m \ {x} \in SUBSET S /\ m \ {x} # m /\ m \ {x} \subseteq m
      BY <1>2, <1>4
    <3>2. m \ {x} \notin bad
      BY <1>1, <3>1
    <3> HIDE DEF Top
    <3>3. QED
      BY <3>1, <3>2
  <2>2. f[x] \in Int /\ f[z] \in Int /\ \A y \in m : f[y] \in Int
    BY <1>2, <2>1
  <2>3. CASE f[z] <= f[x]
    <3>1. Top(m, x)
      BY <2>1, <2>2, <2>3
    <3>2. QED
      BY <1>2, <3>1
  <2>4. CASE f[x] <= f[z]
    <3>1. Top(m, z)
      BY <2>1, <2>2, <2>4
    <3>2. QED
      BY <2>1, <3>1
  <2>5. QED
    BY <2>2, <2>3, <2>4
<1>5. QED
  BY <1>3, <1>4
-----------------------------------------------------------------------------
(* The recursive function behind a sum. *)

\* The element the sum takes first.
Some(s) == CHOOSE x \in s : TRUE

\* g gives for each subset of S the sum of f over it.
Tabulates(g, f, S) ==
    g = [s \in SUBSET S |-> IF s = {} THEN 0 ELSE f[Some(s)] + g[s \ {Some(s)}]]

\* The CHOSEN element is one of the set.
LEMMA SomeIsIn == ASSUME NEW s, s # {} PROVE Some(s) \in s
BY Zenon DEF Some

\* A sum is what such a function says of the whole set, where there is one.
LEMMA SumIsTabulated ==
    ASSUME NEW f, NEW S, \E g : Tabulates(g, f, S)
    PROVE  \E g : Tabulates(g, f, S) /\ SumFunctionOnSet(f, S) = g[S]
<1> DEFINE iter == CHOOSE g : Tabulates(g, f, S)
<1>1. Tabulates(iter, f, S)
  BY Zenon
<1>2. SumFunctionOnSet(f, S) = iter[S]
  BY DEF SumFunctionOnSet, FoldFunctionOnSet, MapThenFoldSet, Tabulates, Some
<1>3. QED
  BY <1>1, <1>2

\* What it says of one subset.
LEMMA TabulatesOneStep ==
    ASSUME NEW f, NEW g, NEW S, Tabulates(g, f, S), NEW s \in SUBSET S
    PROVE  /\ s = {} => g[s] = 0
           /\ s # {} => g[s] = f[Some(s)] + g[s \ {Some(s)}]
BY DEF Tabulates

\* Two of them agree on the subsets both know.
LEMMA TabulatesUnique ==
    ASSUME NEW f, NEW S, IsFiniteSet(S), NEW T \in SUBSET S,
           NEW g, Tabulates(g, f, S),
           NEW h, Tabulates(h, f, T)
    PROVE  \A s \in SUBSET T : g[s] = h[s]
<1> DEFINE bad == {s \in SUBSET T : g[s] # h[s]}
<1> SUFFICES ASSUME bad # {} PROVE FALSE
    OBVIOUS
<1>1. PICK m \in bad : \A n \in bad : n \subseteq m => n = m
  <2>1. IsFiniteSet(T) /\ bad \subseteq SUBSET T
    BY FS_Subset
  <2> HIDE DEF bad
  <2>2. QED
    BY <2>1, LeastSubset
<1>2. m \in SUBSET S /\ m \in SUBSET T
  OBVIOUS
<1>3. m # {}
  BY <1>2, TabulatesOneStep
<1>4. g[m \ {Some(m)}] = h[m \ {Some(m)}]
  BY <1>1, <1>3, SomeIsIn
<1>5. g[m] = f[Some(m)] + g[m \ {Some(m)}]
  BY <1>2, <1>3, TabulatesOneStep
<1>6. h[m] = f[Some(m)] + h[m \ {Some(m)}]
  BY <1>2, <1>3 DEF Tabulates
<1>7. QED
  BY <1>1, <1>4, <1>5, <1>6

\* There is one for every finite set.
LEMMA TabulatesExists ==
    ASSUME NEW f, NEW S, IsFiniteSet(S)
    PROVE  \E g : Tabulates(g, f, S)
<1> DEFINE bad == {T \in SUBSET S : ~\E g : Tabulates(g, f, T)}
<1> SUFFICES ASSUME bad # {} PROVE FALSE
    OBVIOUS
<1>1. PICK m \in bad : \A n \in bad : n \subseteq m => n = m
  <2>1. bad \subseteq SUBSET S
    OBVIOUS
  <2> HIDE DEF bad
  <2>2. QED
    BY <2>1, LeastSubset
<1> DEFINE Sum(T) == SumFunctionOnSet(f, T)
           g == [s \in SUBSET m |-> IF s = {} THEN 0 ELSE f[Some(s)] + Sum(s \ {Some(s)})]
<1>2. ASSUME NEW T \in SUBSET m, T # m
      PROVE  /\ T = {} => Sum(T) = 0
             /\ T # {} => Sum(T) = f[Some(T)] + Sum(T \ {Some(T)})
  <2>1. \A U \in SUBSET T : \E h : Tabulates(h, f, U)
    BY <1>1, <1>2
  <2>2. PICK h : Tabulates(h, f, T) /\ Sum(T) = h[T]
    BY <2>1, SumIsTabulated
  <2>3. CASE T # {}
    <3> DEFINE U == T \ {Some(T)}
    <3>0. U \in SUBSET T /\ U \in SUBSET U
      OBVIOUS
    <3>4. h[T] = f[Some(T)] + h[U]
      BY <2>2, <2>3, TabulatesOneStep
    <3>2. IsFiniteSet(T)
      BY FS_Subset
    <3> HIDE DEF U
    <3>1. PICK k : Tabulates(k, f, U) /\ Sum(U) = k[U]
      BY <2>1, <3>0, SumIsTabulated
    <3>3. \A s \in SUBSET U : h[s] = k[s]
      BY <2>2, <3>0, <3>1, <3>2, TabulatesUnique
    <3>5. QED
      BY <2>2, <2>3, <3>0, <3>1, <3>3, <3>4 DEF U
  <2>4. QED
    BY <2>2, <2>3, TabulatesOneStep
<1>3. ASSUME NEW s \in SUBSET m, s # {}
      PROVE  Sum(s \ {Some(s)}) = g[s \ {Some(s)}]
  <2> DEFINE T == s \ {Some(s)}
  <2>1. T \in SUBSET m /\ T # m
    BY <1>3, SomeIsIn
  <2>2. QED
    BY <1>2, <2>1
<1>4. Tabulates(g, f, m)
  <2> HIDE DEF Sum
  <2>1. g = [s \in SUBSET m |-> IF s = {} THEN 0 ELSE f[Some(s)] + g[s \ {Some(s)}]]
    BY <1>3
  <2>2. QED
    BY <2>1 DEF Tabulates
<1>5. QED
  BY <1>1, <1>4
-----------------------------------------------------------------------------
(* What is known of a sum. *)

\* Nothing adds up to 0.
LEMMA SumEmpty == ASSUME NEW f PROVE SumFunctionOnSet(f, {}) = 0
<1>1. IsFiniteSet({})
  BY FS_EmptySet
<1>2. PICK g : Tabulates(g, f, {}) /\ SumFunctionOnSet(f, {}) = g[{}]
  BY <1>1, TabulatesExists, SumIsTabulated
<1>3. QED
  BY <1>2, TabulatesOneStep

\* The CHOSEN element comes last.
LEMMA SumOneStep ==
    ASSUME NEW f, NEW S, IsFiniteSet(S), S # {}
    PROVE  SumFunctionOnSet(f, S) = f[Some(S)] + SumFunctionOnSet(f, S \ {Some(S)})
<1> DEFINE U == S \ {Some(S)}
<1>1. IsFiniteSet(U) /\ U \in SUBSET S
  BY FS_Subset
<1>2. PICK g : Tabulates(g, f, S) /\ SumFunctionOnSet(f, S) = g[S]
  BY TabulatesExists, SumIsTabulated
<1>5. g[S] = f[Some(S)] + g[U]
  BY <1>2, TabulatesOneStep
<1> HIDE DEF U
<1>3. PICK h : Tabulates(h, f, U) /\ SumFunctionOnSet(f, U) = h[U]
  BY <1>1, TabulatesExists, SumIsTabulated
<1>4. \A s \in SUBSET U : g[s] = h[s]
  BY <1>1, <1>2, <1>3, TabulatesUnique
<1>6. QED
  BY <1>2, <1>3, <1>4, <1>5 DEF U

\* A sum of integers is one, and of naturals is one.
LEMMA SumType ==
    ASSUME NEW f, NEW S, IsFiniteSet(S), NEW N \in {Nat, Int}, \A x \in S : f[x] \in N
    PROVE  SumFunctionOnSet(f, S) \in N
<1> DEFINE bad == {T \in SUBSET S : SumFunctionOnSet(f, T) \notin N}
<1> SUFFICES ASSUME bad # {} PROVE FALSE
    OBVIOUS
<1>1. PICK m \in bad : \A n \in bad : n \subseteq m => n = m
  <2>1. bad \subseteq SUBSET S
    OBVIOUS
  <2> HIDE DEF bad
  <2>2. QED
    BY <2>1, LeastSubset
<1>2. m # {}
  BY SumEmpty
<1>3. IsFiniteSet(m) /\ Some(m) \in m
  BY <1>2, SomeIsIn, FS_Subset
<1>4. SumFunctionOnSet(f, m \ {Some(m)}) \in N
  BY <1>1, <1>3
<1>5. f[Some(m)] \in N
  BY <1>3
<1>6. SumFunctionOnSet(f, m) = f[Some(m)] + SumFunctionOnSet(f, m \ {Some(m)})
  BY <1>2, <1>3, SumOneStep
<1>7. \A i, j \in N : i + j \in N
  OBVIOUS
<1>8. QED
  BY <1>4, <1>5, <1>6, <1>7

\* Any element may be added last.
LEMMA SumWithout ==
    ASSUME NEW f, NEW S, IsFiniteSet(S), \A x \in S : f[x] \in Int, NEW x \in S
    PROVE  SumFunctionOnSet(f, S) = f[x] + SumFunctionOnSet(f, S \ {x})
<1> DEFINE Sum(T) == SumFunctionOnSet(f, T)
           bad == {T \in SUBSET S : \E y \in T : Sum(T) # f[y] + Sum(T \ {y})}
<1> HIDE DEF Sum
<1> SUFFICES ASSUME bad # {} PROVE FALSE
    BY DEF Sum
<1>1. PICK m \in bad : \A n \in bad : n \subseteq m => n = m
  <2>1. bad \subseteq SUBSET S
    OBVIOUS
  <2> HIDE DEF bad
  <2>2. QED
    BY <2>1, LeastSubset
<1>2. PICK y \in m : Sum(m) # f[y] + Sum(m \ {y})
  OBVIOUS
<1> DEFINE z == Some(m)
           mz == m \ {z}
           my == m \ {y}
           rest == m \ {y, z}
<1>3. z \in m /\ IsFiniteSet(m) /\ IsFiniteSet(rest)
  BY <1>2, SomeIsIn, FS_Subset
<1>4. Sum(m) = f[z] + Sum(mz)
  BY <1>2, <1>3, SumOneStep DEF Sum
<1>5. y # z
  BY <1>2, <1>4
<1>6. Sum(mz) = f[y] + Sum(rest)
  <2>1. mz \notin bad /\ y \in mz /\ mz \ {y} = rest
    BY <1>1, <1>3, <1>5
  <2>2. QED
    BY <2>1
<1>7. Sum(my) = f[z] + Sum(rest)
  <2>1. my \notin bad /\ z \in my /\ my \ {z} = rest
    BY <1>1, <1>2, <1>3, <1>5
  <2>2. QED
    BY <2>1
<1>8. f[y] \in Int /\ f[z] \in Int /\ Sum(rest) \in Int
  <2>1. \A w \in rest : f[w] \in Int
    OBVIOUS
  <2>2. Sum(rest) \in Int
    BY <1>3, <2>1, SumType DEF Sum
  <2>3. QED
    BY <1>3, <2>2
<1> HIDE DEF bad, z, mz, my, rest
<1>9. QED
  BY <1>2, <1>4, <1>6, <1>7, <1>8 DEF my

\* Only the values summed up count.
LEMMA SumSame ==
    ASSUME NEW f, NEW h, NEW S, IsFiniteSet(S), \A x \in S : f[x] = h[x]
    PROVE  SumFunctionOnSet(f, S) = SumFunctionOnSet(h, S)
<1> DEFINE bad == {T \in SUBSET S : SumFunctionOnSet(f, T) # SumFunctionOnSet(h, T)}
<1> SUFFICES ASSUME bad # {} PROVE FALSE
    OBVIOUS
<1>1. PICK m \in bad : \A n \in bad : n \subseteq m => n = m
  <2>1. bad \subseteq SUBSET S
    OBVIOUS
  <2> HIDE DEF bad
  <2>2. QED
    BY <2>1, LeastSubset
<1>2. m # {}
  BY SumEmpty
<1>3. IsFiniteSet(m) /\ Some(m) \in m
  BY <1>2, SomeIsIn, FS_Subset
<1>4. SumFunctionOnSet(f, m \ {Some(m)}) = SumFunctionOnSet(h, m \ {Some(m)})
  BY <1>1, <1>3
<1>5. SumFunctionOnSet(f, m) = f[Some(m)] + SumFunctionOnSet(f, m \ {Some(m)})
  BY <1>2, <1>3, SumOneStep
<1>6. SumFunctionOnSet(h, m) = h[Some(m)] + SumFunctionOnSet(h, m \ {Some(m)})
  BY <1>2, <1>3, SumOneStep
<1>7. f[Some(m)] = h[Some(m)]
  BY <1>3
<1>8. QED
  BY <1>4, <1>5, <1>6, <1>7

\* The sum of the opposites.
LEMMA SumOpposite ==
    ASSUME NEW f, NEW h, NEW S, IsFiniteSet(S),
           \A x \in S : f[x] \in Int /\ h[x] = -f[x]
    PROVE  SumFunctionOnSet(h, S) = -SumFunctionOnSet(f, S)
<1> DEFINE bad == {T \in SUBSET S : SumFunctionOnSet(h, T) # -SumFunctionOnSet(f, T)}
<1> SUFFICES ASSUME bad # {} PROVE FALSE
    OBVIOUS
<1>1. PICK m \in bad : \A n \in bad : n \subseteq m => n = m
  <2>1. bad \subseteq SUBSET S
    OBVIOUS
  <2> HIDE DEF bad
  <2>2. QED
    BY <2>1, LeastSubset
<1>2. m # {}
  BY SumEmpty
<1> DEFINE x == Some(m)
           fr == SumFunctionOnSet(f, m \ {x})
           hr == SumFunctionOnSet(h, m \ {x})
<1>3. IsFiniteSet(m) /\ x \in m /\ IsFiniteSet(m \ {x})
  BY <1>2, SomeIsIn, FS_Subset
<1>4. hr = -fr
  BY <1>1, <1>3
<1>5. SumFunctionOnSet(f, m) = f[x] + fr
  BY <1>2, <1>3, SumOneStep
<1>6. SumFunctionOnSet(h, m) = h[x] + hr
  BY <1>2, <1>3, SumOneStep
<1>7. f[x] \in Int /\ h[x] = -f[x]
  BY <1>3
<1>8. fr \in Int
  <2>1. \A y \in m \ {x} : f[y] \in Int
    OBVIOUS
  <2>2. QED
    BY <1>3, <2>1, SumType
<1> HIDE DEF x, fr, hr
<1>9. SumFunctionOnSet(h, m) = -SumFunctionOnSet(f, m)
  BY <1>4, <1>5, <1>6, <1>7, <1>8
<1>10. QED
  BY <1>9

\* The sum over two sets without common elements.
LEMMA SumUnion ==
    ASSUME NEW f, NEW A, NEW B, IsFiniteSet(A), IsFiniteSet(B), A \cap B = {},
           \A x \in A \cup B : f[x] \in Int
    PROVE  SumFunctionOnSet(f, A \cup B) = SumFunctionOnSet(f, A) + SumFunctionOnSet(f, B)
<1> DEFINE Sum(T) == SumFunctionOnSet(f, T)
           bad == {C \in SUBSET B : Sum(A \cup C) # Sum(A) + Sum(C)}
<1>a. \A C \in SUBSET (A \cup B) : IsFiniteSet(C) /\ Sum(C) \in Int
  <2>1. IsFiniteSet(A \cup B)
    BY FS_Union
  <2>2. ASSUME NEW C \in SUBSET (A \cup B) PROVE IsFiniteSet(C) /\ Sum(C) \in Int
    <3>1. IsFiniteSet(C)
      BY <2>1, FS_Subset
    <3>2. \A x \in C : f[x] \in Int
      OBVIOUS
    <3>3. QED
      BY <3>1, <3>2, SumType
  <2>3. QED
    BY <2>2
<1>b. \A C \in SUBSET (A \cup B) : \A x \in C : Sum(C) = f[x] + Sum(C \ {x})
  <2>1. ASSUME NEW C \in SUBSET (A \cup B), NEW x \in C PROVE Sum(C) = f[x] + Sum(C \ {x})
    <3>1. \A y \in C : f[y] \in Int
      OBVIOUS
    <3>2. QED
      BY <1>a, <3>1, SumWithout
  <2>2. QED
    BY <2>1
<1>c. Sum({}) = 0
  BY SumEmpty
<1> HIDE DEF Sum
<1> SUFFICES ASSUME bad # {} PROVE FALSE
    BY DEF Sum
<1>1. PICK m \in bad : \A n \in bad : n \subseteq m => n = m
  <2>1. bad \subseteq SUBSET B
    OBVIOUS
  <2> HIDE DEF bad
  <2>2. QED
    BY <2>1, LeastSubset
<1>2. m # {}
  <2>1. A \cup {} = A /\ Sum(A) \in Int
    BY <1>a
  <2>2. Sum(A \cup {}) = Sum(A) + Sum({})
    BY <1>c, <2>1
  <2>3. QED
    BY <2>2
<1>3. PICK x : x \in m
  BY <1>2
<1>4. x \in A \cup m /\ (A \cup m) \ {x} = A \cup (m \ {x}) /\ f[x] \in Int
  BY <1>3
<1>5. Sum(A \cup m) = f[x] + Sum(A \cup (m \ {x}))
  BY <1>b, <1>4
<1>6. Sum(m) = f[x] + Sum(m \ {x})
  BY <1>b, <1>3
<1>7. Sum(A \cup (m \ {x})) = Sum(A) + Sum(m \ {x})
  BY <1>1, <1>3
<1>8. Sum(A) \in Int /\ Sum(m \ {x}) \in Int
  BY <1>a
<1>9. Sum(A \cup m) = Sum(A) + Sum(m)
  BY <1>4, <1>5, <1>6, <1>7, <1>8
<1>10. QED
  BY <1>9

\* Of naturals, more of them come to no less.
LEMMA SumMonotone ==
    ASSUME NEW f, NEW S, IsFiniteSet(S), NEW T \in SUBSET S, \A x \in S : f[x] \in Nat
    PROVE  SumFunctionOnSet(f, T) <= SumFunctionOnSet(f, S)
<1>1. IsFiniteSet(T) /\ IsFiniteSet(S \ T) /\ T \cap (S \ T) = {} /\ T \cup (S \ T) = S
  BY FS_Subset
<1>2. SumFunctionOnSet(f, T) \in Nat /\ SumFunctionOnSet(f, S \ T) \in Nat
  BY <1>1, SumType
<1>3. SumFunctionOnSet(f, S) = SumFunctionOnSet(f, T) + SumFunctionOnSet(f, S \ T)
  <2>1. \A x \in T \cup (S \ T) : f[x] \in Int
    OBVIOUS
  <2>2. SumFunctionOnSet(f, T \cup (S \ T)) = SumFunctionOnSet(f, T) + SumFunctionOnSet(f, S \ T)
    BY <1>1, <2>1, SumUnion
  <2>3. QED
    BY <1>1, <2>2
<1>4. QED
  BY <1>2, <1>3

\* The elements of S whose key is d.
Group(S, k, d) == {x \in S : k[x] = d}

\* A sum may be taken group by group: by key k, out of K.
LEMMA SumByGroup ==
    ASSUME NEW f, NEW S, IsFiniteSet(S), \A x \in S : f[x] \in Int,
           NEW K, IsFiniteSet(K), NEW k, \A x \in S : k[x] \in K,
           NEW h, \A d \in K : h[d] = SumFunctionOnSet(f, Group(S, k, d))
    PROVE  SumFunctionOnSet(h, K) = SumFunctionOnSet(f, S)
<1> DEFINE In(L) == {x \in S : k[x] \in L}
           bad == {L \in SUBSET K : SumFunctionOnSet(h, L) # SumFunctionOnSet(f, In(L))}
<1>a. \A T \in SUBSET S : IsFiniteSet(T) /\ SumFunctionOnSet(f, T) \in Int
  <2>1. ASSUME NEW T \in SUBSET S PROVE IsFiniteSet(T) /\ SumFunctionOnSet(f, T) \in Int
    <3>1. IsFiniteSet(T) /\ \A x \in T : f[x] \in Int
      BY FS_Subset
    <3>2. QED
      BY <3>1, SumType
  <2>2. QED
    BY <2>1
<1>b. \A d \in K : h[d] \in Int
  BY <1>a DEF Group
<1> SUFFICES ASSUME bad # {} PROVE FALSE
  <2>1. In(K) = S
    OBVIOUS
  <2>2. K \notin bad => SumFunctionOnSet(h, K) = SumFunctionOnSet(f, In(K))
    OBVIOUS
  <2>3. QED
    BY <2>1, <2>2
<1>1. PICK m \in bad : \A n \in bad : n \subseteq m => n = m
  <2>1. bad \subseteq SUBSET K
    OBVIOUS
  <2> HIDE DEF bad
  <2>2. QED
    BY <2>1, LeastSubset
<1>2. m # {}
  <2>1. In({}) = {}
    OBVIOUS
  <2>2. QED
    BY <2>1, SumEmpty
<1>3. PICK d : d \in m
  BY <1>2
<1> DEFINE rest == m \ {d}
           here == Group(S, k, d)
<1>4. SumFunctionOnSet(h, m) = h[d] + SumFunctionOnSet(h, rest)
  <2>1. IsFiniteSet(m) /\ \A e \in m : h[e] \in Int
    BY <1>b, FS_Subset
  <2>2. QED
    BY <1>3, <2>1, SumWithout
<1>5. SumFunctionOnSet(h, rest) = SumFunctionOnSet(f, In(rest))
  BY <1>1, <1>3
<1>6. SumFunctionOnSet(f, here \cup In(rest)) =
        SumFunctionOnSet(f, here) + SumFunctionOnSet(f, In(rest))
  <2>1. here \cap In(rest) = {} /\ IsFiniteSet(here) /\ IsFiniteSet(In(rest))
    BY <1>a DEF Group
  <2>2. \A x \in here \cup In(rest) : f[x] \in Int
    BY DEF Group
  <2> HIDE DEF here, In
  <2>3. QED
    BY <2>1, <2>2, SumUnion
<1>7. here \cup In(rest) = In(m)
  BY <1>3 DEF Group
<1>8. h[d] = SumFunctionOnSet(f, here)
  BY <1>3
<1>9. SumFunctionOnSet(h, m) = SumFunctionOnSet(f, In(m))
  <2> HIDE DEF rest, here, In
  <2>1. QED
    BY <1>4, <1>5, <1>6, <1>7, <1>8
<1>10. QED
  BY <1>9
=============================================================================
