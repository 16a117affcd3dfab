----------------------------- MODULE BoundedSets -----------------------------
(* Facts about sets of numbers the proofs share: a bounded one has a         *)
(* maximum, and one that is closed under the successor has every number,     *)
(* which is induction for whatever can be put into the form of a set; a fold *)
(* over the first numbers exists, and a sum over separate parts counts them. *)
EXTENDS Integers, FiniteSetsExt, FiniteSetTheorems, WellFoundedInduction, TLAPS

\* A bounded set of numbers has a maximum.
LEMMA MaxOfBounded ==
    ASSUME NEW S \in SUBSET Nat, S # {}, NEW n \in Nat, \A s \in S : s <= n
    PROVE  Max(S) \in S /\ \A s \in S : s <= Max(S)
<1> DEFINE Bounds == { k \in Nat : \A s \in S : s <= k }
           LT     == { p \in Nat \X Nat : p[1] < p[2] }
<1>1. Bounds # {} /\ Bounds \subseteq Nat
  OBVIOUS
<1>2. IsWellFoundedOn(LT, Nat)
  BY NatLessThanWellFounded DEF OpToRel
<1>3. PICK m \in Bounds : \A k \in Bounds : <<k, m>> \notin LT
  BY <1>1, <1>2, WFMin
<1>4. m \in S
  <2> SUFFICES ASSUME m \notin S PROVE FALSE
    OBVIOUS
  <2>1. PICK s \in S : s \in Nat
    OBVIOUS
  <2>2. m \in Nat /\ \A r \in S : r \in Nat /\ r <= m /\ r # m
    OBVIOUS
  <2>3. m - 1 \in Nat /\ m - 1 < m
    BY <2>1, <2>2
  <2>4. m - 1 \in Bounds
    BY <2>2, <2>3
  <2>5. <<m - 1, m>> \in LT
    BY <2>2, <2>3
  <2> QED
    BY <2>4, <2>5, <1>3
<1>5. m \in S /\ \A s \in S : m >= s
  BY <1>3, <1>4
<1>6. Max(S) \in S /\ \A s \in S : Max(S) >= s
  BY <1>5 DEF Max
<1> QED
  BY <1>6

\* Induction, over a set instead of a predicate.
LEMMA NatSetInduction ==
    ASSUME NEW S \in SUBSET Nat, 0 \in S, \A n \in S : n + 1 \in S
    PROVE  S = Nat
<1> DEFINE R  == Nat \ S
           LT == { p \in Nat \X Nat : p[1] < p[2] }
<1> SUFFICES ASSUME R # {} PROVE FALSE
  OBVIOUS
<1>1. IsWellFoundedOn(LT, Nat)
  BY NatLessThanWellFounded DEF OpToRel
<1>2. PICK m \in R : \A k \in R : <<k, m>> \notin LT
  <2> HIDE DEF LT
  <2> QED BY <1>1, WFMin
<1>3. m \in Nat /\ m # 0 /\ m - 1 \in Nat
  OBVIOUS
<1>4. m - 1 \in S
  <2>1. <<m - 1, m>> \in LT
    BY <1>3
  <2> QED BY <1>2, <1>3, <2>1
<1>5. (m - 1) + 1 = m /\ (m - 1) + 1 \in S
  BY <1>3, <1>4
<1> QED
  BY <1>5

\* The set of the first numbers, as a fold takes it apart.
LEMMA MaxOfPrefix ==
    ASSUME NEW n \in Nat \ {0}
    PROVE  Max(1..n) = n /\ (1..n) \ {n} = 1..(n - 1) /\ 1..n # {}
<1>1. 1..n \in SUBSET Nat /\ n \in 1..n /\ \A k \in 1..n : k <= n
  OBVIOUS
<1>2. Max(1..n) \in 1..n /\ \A k \in 1..n : k <= Max(1..n)
  BY <1>1, MaxOfBounded
<1> QED
  BY <1>2

\* Two functions that go on the same way from every prefix to the next one
\* agree on all of them.
LEMMA PrefixAgree ==
    ASSUME NEW n \in Nat, NEW f, NEW g, f[1..0] = g[1..0],
           \A k \in 1..n : f[1..(k - 1)] = g[1..(k - 1)] => f[1..k] = g[1..k]
    PROVE  f[1..n] = g[1..n]
<1> DEFINE S == { k \in Nat : k <= n => f[1..k] = g[1..k] }
<1>1. 0 \in S
  OBVIOUS
<1>2. ASSUME NEW k \in S PROVE k + 1 \in S
  <2>1. (k + 1) - 1 = k
    OBVIOUS
  <2> QED BY <2>1, <1>2
<1>3. S = Nat
  <2> HIDE DEF S
  <2>1. S \in SUBSET Nat
    BY DEF S
  <2> QED BY <1>1, <1>2, <2>1, NatSetInduction
<1> QED
  BY <1>3

\* g[S] is the fold of T over a set S of the first n numbers, from the greatest
\* number of S down.
IsFold(g, n, base, T) ==
    \A S \in SUBSET (1..n) :
        g[S] = IF S = {} THEN base ELSE T[<<g[S \ {Max(S)}], Max(S)>>]

\* There is such a fold.
LEMMA FoldExists ==
    ASSUME NEW n \in Nat, NEW A, NEW base \in A, NEW T \in [A \X (1..n) -> A]
    PROVE  \E g \in [SUBSET (1..n) -> A] : IsFold(g, n, base, T)
<1> DEFINE D == SUBSET (1..n)
           Step(g, S) == IF S = {} THEN base
                         ELSE T[<<g[S \ {Max(S)}], Max(S)>>]
           K == { k \in Nat : \E g \in [D -> A] :
                    \A S \in D : S \subseteq 1..k => g[S] = Step(g, S) }
<1>1. ASSUME NEW S \in D, S # {}
      PROVE  Max(S) \in S /\ \A s \in S : s <= Max(S)
  <2>1. S \in SUBSET Nat /\ \A s \in S : s <= n
    OBVIOUS
  <2> QED BY <1>1, <2>1, MaxOfBounded
<1>2. ASSUME NEW g \in [D -> A], NEW S \in D PROVE Step(g, S) \in A
  <2>1. CASE S # {}
    <3>1. Max(S) \in 1..n /\ S \ {Max(S)} \in D
      BY <1>1, <2>1
    <3>2. g[S \ {Max(S)}] \in A
      BY <3>1
    <3> QED BY <2>1, <3>1, <3>2
  <2> QED BY <2>1
<1>3. 0 \in K
  <2> DEFINE g == [S \in D |-> base]
  <2>1. \A S \in D : S \subseteq 1..0 => g[S] = Step(g, S)
    OBVIOUS
  <2> QED BY <2>1
<1>4. ASSUME NEW k \in K PROVE k + 1 \in K
  <2>1. PICK g \in [D -> A] :
           \A S \in D : S \subseteq 1..k => g[S] = Step(g, S)
    OBVIOUS
  <2> DEFINE h == [S \in D |-> Step(g, S)]
  <2>2. h \in [D -> A]
    <3> HIDE DEF Step, D
    <3> QED BY <1>2
  <2>3. ASSUME NEW S \in D, S \subseteq 1..(k + 1) PROVE h[S] = Step(h, S)
    <3>1. CASE S = {}
      BY <3>1
    <3>2. CASE S # {}
      <4> DEFINE R == S \ {Max(S)}
      <4>1. R \in D /\ R \subseteq 1..k
        <5>1. k \in Nat /\ Max(S) \in 1..(k + 1)
          BY <1>1, <2>3, <3>2
        <5>2. \A r \in R : r \in 1..(k + 1) /\ r <= Max(S) /\ r # Max(S)
          BY <1>1, <2>3, <3>2
        <5> HIDE DEF R
        <5>3. R \subseteq 1..k
          BY <5>1, <5>2
        <5>4. R \in D
          BY DEF R
        <5> QED BY <5>3, <5>4
      <4>2. h[R] = g[R]
        <5> HIDE DEF R, Step, D
        <5> QED BY <2>1, <4>1
      <4>3. h[S] = Step(g, S)
        OBVIOUS
      <4> QED BY <3>2, <4>2, <4>3
    <3> QED BY <3>1, <3>2
  <2>4. k + 1 \in Nat
    OBVIOUS
  <2> HIDE DEF h, Step, D
  <2> QED BY <2>2, <2>3, <2>4
<1>5. n \in K
  <2>1. K \in SUBSET Nat
    OBVIOUS
  <2> HIDE DEF K
  <2> QED BY <1>3, <1>4, <2>1, NatSetInduction
<1>6. PICK g \in [D -> A] : \A S \in D : S \subseteq 1..n => g[S] = Step(g, S)
  BY <1>5
<1> QED
  BY <1>6 DEF IsFold

\* What is counted of some parts, and a sum of their sizes, one by one in the
\* order in which CHOOSE takes them.
Counted(parts, T) == UNION { parts[x] : x \in T }

SumsUp(f, S, parts) ==
    \A T \in SUBSET S :
        f[T] = IF T = {} THEN 0
               ELSE Cardinality(parts[CHOOSE x \in T : TRUE])
                      + f[T \ {CHOOSE x \in T : TRUE}]

\* A sum of the sizes of parts that have nothing in common is the size of all
\* of them together, and there is such a sum.
LEMMA PartsAddUp ==
    ASSUME NEW S, IsFiniteSet(S), NEW parts,
           \A x \in S : IsFiniteSet(parts[x]),
           \A x, y \in S : x # y => parts[x] \cap parts[y] = {}
    PROVE  /\ SumsUp([T \in SUBSET S |-> Cardinality(Counted(parts, T))], S, parts)
           /\ \A f : SumsUp(f, S, parts) => f[S] = Cardinality(Counted(parts, S))
           /\ IsFiniteSet(Counted(parts, S))
<1> DEFINE C(T) == Cardinality(Counted(parts, T))
           Taken(T) == CHOOSE x \in T : TRUE
           Agree(f) == { n \in Nat : \A T \in SUBSET S :
                           Cardinality(T) = n /\ IsFiniteSet(Counted(parts, T))
                             => f[T] = C(T) }
           Finite == { n \in Nat : \A T \in SUBSET S :
                         Cardinality(T) = n => IsFiniteSet(Counted(parts, T)) }
<1>1. \A T \in SUBSET S : IsFiniteSet(T) /\ Cardinality(T) \in Nat
  BY FS_Subset, FS_CardinalityType
<1>2. Counted(parts, {}) = {} /\ IsFiniteSet(Counted(parts, {})) /\ C({}) = 0
  BY FS_EmptySet DEF Counted
<1>3. ASSUME NEW T \in SUBSET S, T # {}
      PROVE  /\ Taken(T) \in T /\ T \ {Taken(T)} \in SUBSET S
             /\ Cardinality(T) # 0
             /\ Cardinality(T \ {Taken(T)}) = Cardinality(T) - 1
             /\ Counted(parts, T)
                  = parts[Taken(T)] \cup Counted(parts, T \ {Taken(T)})
             /\ parts[Taken(T)] \cap Counted(parts, T \ {Taken(T)}) = {}
  <2>1. Taken(T) \in T
    BY <1>3
  <2> HIDE DEF Taken
  <2>2. Cardinality(T \ {Taken(T)}) = Cardinality(T) - 1
    BY <1>1, <2>1, FS_RemoveElement
  <2>3. Cardinality(T) # 0
    BY <1>1, <1>3, FS_EmptySet
  <2>4. Counted(parts, T) = parts[Taken(T)] \cup Counted(parts, T \ {Taken(T)})
    BY <2>1 DEF Counted
  <2>5. parts[Taken(T)] \cap Counted(parts, T \ {Taken(T)}) = {}
    BY <2>1 DEF Counted
  <2> QED BY <2>1, <2>2, <2>3, <2>4, <2>5
<1> HIDE DEF Taken
<1>4. 0 \in Finite
  BY <1>1, <1>2, FS_EmptySet
<1>5. ASSUME NEW n \in Finite PROVE n + 1 \in Finite
  <2> SUFFICES ASSUME NEW T \in SUBSET S, Cardinality(T) = n + 1
               PROVE  IsFiniteSet(Counted(parts, T))
    OBVIOUS
  <2>0. n \in Nat /\ Cardinality(T) # 0 /\ (n + 1) - 1 = n
    OBVIOUS
  <2>1. T # {}
    BY <2>0, FS_EmptySet
  <2>2. Cardinality(T \ {Taken(T)}) = n /\ Taken(T) \in S /\ T \ {Taken(T)} \in SUBSET S
    BY <1>3, <2>0, <2>1
  <2>3. IsFiniteSet(Counted(parts, T \ {Taken(T)}))
    BY <2>2
  <2>4. IsFiniteSet(parts[Taken(T)] \cup Counted(parts, T \ {Taken(T)}))
    BY <2>2, <2>3, FS_Union
  <2> QED BY <1>3, <2>1, <2>4
<1>6. Finite = Nat
  <2>1. Finite \in SUBSET Nat
    OBVIOUS
  <2> HIDE DEF Finite
  <2> QED BY <1>4, <1>5, <2>1, NatSetInduction
<1>7. \A T \in SUBSET S : IsFiniteSet(Counted(parts, T))
  BY <1>1, <1>6
<1>8. ASSUME NEW T \in SUBSET S, T # {}
      PROVE  C(T) = Cardinality(parts[Taken(T)]) + C(T \ {Taken(T)})
  <2> DEFINE A == parts[Taken(T)]
             B == Counted(parts, T \ {Taken(T)})
  <2>1. IsFiniteSet(A) /\ IsFiniteSet(B) /\ A \cap B = {} /\ Counted(parts, T) = A \cup B
    BY <1>3, <1>7, <1>8
  <2> HIDE DEF A, B
  <2>2. Cardinality(A) \in Nat /\ Cardinality(B) \in Nat
    BY <2>1, FS_CardinalityType
  <2>3. Cardinality(A \cup B) = Cardinality(A) + Cardinality(B) - Cardinality(A \cap B)
    BY <2>1, FS_Union
  <2>4. Cardinality(A \cap B) = 0
    BY <2>1, FS_EmptySet
  <2> QED BY <2>1, <2>2, <2>3, <2>4 DEF A, B
<1>9. SumsUp([T \in SUBSET S |-> C(T)], S, parts)
  <2> SUFFICES ASSUME NEW T \in SUBSET S
               PROVE  C(T) = IF T = {} THEN 0
                             ELSE Cardinality(parts[Taken(T)])
                                    + [R \in SUBSET S |-> C(R)][T \ {Taken(T)}]
    BY DEF SumsUp, Taken
  <2> HIDE DEF C
  <2> QED BY <1>2, <1>8, <1>3
<1>10. ASSUME NEW f, SumsUp(f, S, parts) PROVE f[S] = C(S)
  <2> HIDE DEF C
  <2>1. \A T \in SUBSET S :
          f[T] = IF T = {} THEN 0
                 ELSE Cardinality(parts[Taken(T)]) + f[T \ {Taken(T)}]
    BY <1>10 DEF SumsUp, Taken
  <2>2. 0 \in Agree(f)
    <3>1. \A T \in SUBSET S : Cardinality(T) = 0 => T = {}
      BY <1>1, FS_EmptySet
    <3> QED BY <1>2, <2>1, <3>1
  <2>3. ASSUME NEW n \in Agree(f) PROVE n + 1 \in Agree(f)
    <3> SUFFICES ASSUME NEW T \in SUBSET S, Cardinality(T) = n + 1
                 PROVE  f[T] = C(T)
      OBVIOUS
    <3>0. n \in Nat /\ Cardinality(T) # 0 /\ (n + 1) - 1 = n
      OBVIOUS
    <3>1. T # {}
      BY <3>0, FS_EmptySet
    <3>2. T \ {Taken(T)} \in SUBSET S /\ Cardinality(T \ {Taken(T)}) = n
      BY <1>3, <3>0, <3>1
    <3>3. f[T \ {Taken(T)}] = C(T \ {Taken(T)})
      BY <1>7, <3>2
    <3> QED BY <1>8, <2>1, <3>1, <3>3
  <2>4. Agree(f) = Nat
    <3>1. Agree(f) \in SUBSET Nat
      OBVIOUS
    <3> HIDE DEF Agree
    <3> QED BY <2>2, <2>3, <3>1, NatSetInduction
  <2>5. Cardinality(S) \in Agree(f)
    BY <1>1, <2>4
  <2> QED BY <1>7, <2>5
<1> QED
  BY <1>7, <1>9, <1>10
==============================================================================
