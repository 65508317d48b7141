------------------------------ MODULE FoldProofs ------------------------------
(***************************************************************************)
(* What the folds of the community modules compute, for every finite set   *)
(* or sequence: the sums over the tables and counters, and the sorted      *)
(* lists of rules.  The induction is over sets of naturals and sets of     *)
(* sets, which takes no operator as a parameter.                           *)
(***************************************************************************)
EXTENDS Integers, FiniteSets, FiniteSetsExt, Sequences, FiniteSetTheorems, WellFoundedInduction, TLAPS

\* A set of naturals has a least element.
LEMMA LeastNat ==
  ASSUME NEW S \in SUBSET Nat, S # {}
  PROVE  \E m \in S : \A n \in S : m <= n
<1>1. IsWellFoundedOn(OpToRel(<, Nat), Nat)
  BY NatLessThanWellFounded
<1>2. PICK m \in S : \A n \in S : ~(<<n, m>> \in OpToRel(<, Nat))
  BY <1>1, WFMin
<1>3. \A n \in S : ~(n < m)
  BY <1>2 DEF OpToRel
<1> QED BY <1>3

\* A set of numbers up to n has a greatest element, the one that Max takes.
LEMMA MaxIsGreatest ==
  ASSUME NEW n \in Nat, NEW S \in SUBSET (0..n), S # {}
  PROVE  Max(S) \in S /\ \A k \in S : Max(S) >= k
<1> DEFINE T == {i \in Nat : n - i \in S}
<1>1. T \in SUBSET Nat /\ T # {}
  <2>1. PICK k \in S : TRUE
    OBVIOUS
  <2>2. n - k \in Nat /\ n - (n - k) = k
    BY <2>1
  <2> QED BY <2>2
<1>2. PICK i \in T : \A j \in T : i <= j
  <2> HIDE DEF T
  <2> QED BY <1>1, LeastNat
<1>3. n - i \in S /\ \A k \in S : n - i >= k
  <2>1. i \in Nat /\ n - i \in S
    BY <1>2
  <2>2. ASSUME NEW k \in S PROVE n - i >= k
    <3>1. k \in Nat /\ n - k \in Nat /\ n - (n - k) = k
      OBVIOUS
    <3>2. n - k \in T
      BY <3>1
    <3>3. i <= n - k
      BY <1>2, <3>2
    <3> QED BY <2>1, <3>1, <3>3
  <2> QED BY <2>1, <2>2
<1> QED BY <1>3 DEF Max

\* Induction: a set that has 0 and with n also n + 1 has all naturals.
LEMMA AllNats ==
  ASSUME NEW P, 0 \in P, \A n \in Nat : n \in P => n + 1 \in P
  PROVE  Nat \subseteq P
<1> SUFFICES ASSUME Nat \ P # {} PROVE FALSE
  OBVIOUS
<1>1. PICK m \in Nat \ P : \A n \in Nat \ P : m <= n
  BY LeastNat
<1>2. m - 1 \in Nat /\ m - 1 \notin P
  BY <1>1
<1> QED BY <1>1, <1>2

\* Induction over the finite sets: what holds of {} and survives one more element holds of all.
LEMMA AllFiniteSets ==
  ASSUME NEW S, IsFiniteSet(S), NEW P, {} \in P,
         \A T \in SUBSET S, x \in S : T \in P /\ x \notin T => T \cup {x} \in P
  PROVE  S \in P
<1> DEFINE Q == {n \in Nat : \A T \in SUBSET S : Cardinality(T) = n => T \in P}
<1>1. 0 \in Q
  BY FS_EmptySet, FS_Subset
<1>2. ASSUME NEW n \in Nat, n \in Q PROVE n + 1 \in Q
  <2> SUFFICES ASSUME NEW T \in SUBSET S, Cardinality(T) = n + 1 PROVE T \in P
    OBVIOUS
  <2>1. IsFiniteSet(T)
    BY FS_Subset
  <2>2. PICK x \in T : TRUE
    BY <2>1, FS_EmptySet
  <2>3. Cardinality(T \ {x}) = n
    <3>1. Cardinality(T \ {x}) = Cardinality(T) - 1
      BY <2>1, <2>2, FS_RemoveElement, Zenon
    <3> QED BY <3>1
  <2>4. T \ {x} \in P /\ T = (T \ {x}) \cup {x}
    BY <1>2, <2>3
  <2> QED BY <2>4
<1>3. Nat \subseteq Q
  <2> HIDE DEF Q
  <2> QED BY <1>1, <1>2, AllNats
<1> QED BY <1>3, FS_CardinalityType
-------------------------------------------------------------------------------
(***************************************************************************)
(* Sums.                                                                   *)
(***************************************************************************)

\* The sum of the weights of a set.
Total(w, S) == MapThenSumSet(LAMBDA x : w[x], S)

\* The element that the fold takes, and one turn of the fold.
Pick(s) == CHOOSE x \in s : TRUE
OneTurn(w, h, s) == IF s = {} THEN 0 ELSE w[Pick(s)] + h[s \ {Pick(s)}]
IsFold(w, h, S) == h = [s \in SUBSET S |-> OneTurn(w, h, s)]

LEMMA TotalIsFold ==
  ASSUME NEW w, NEW S
  PROVE  Total(w, S) = (CHOOSE h : IsFold(w, h, S))[S]
BY Zenon DEF Total, MapThenSumSet, MapThenFoldSet, IsFold, OneTurn, Pick

\* The fold of a finite set is well defined.
LEMMA FoldExists ==
  ASSUME NEW w, NEW S, IsFiniteSet(S)
  PROVE  \E h : IsFold(w, h, S)
<1> DEFINE Small(n) == {s \in SUBSET S : Cardinality(s) <= n}
           Approximates(h, n) == h = [s \in Small(n) |-> OneTurn(w, h, s)]
           Q == {n \in Nat : \E h : Approximates(h, n)}
<1>0. \A s \in SUBSET S : IsFiniteSet(s) /\ Cardinality(s) \in Nat
  BY FS_Subset, FS_CardinalityType
<1>1. 0 \in Q
  <2> DEFINE h == [s \in Small(0) |-> 0]
  <2>1. \A s \in Small(0) : s = {}
    BY <1>0, FS_EmptySet
  <2>2. h = [s \in Small(0) |-> OneTurn(w, h, s)]
    BY <2>1 DEF OneTurn
  <2> QED BY <2>2
<1>2. ASSUME NEW n \in Nat, n \in Q PROVE n + 1 \in Q
  <2>1. PICK h : Approximates(h, n)
    BY <1>2
  <2> DEFINE g == [s \in Small(n + 1) |-> OneTurn(w, h, s)]
  <2>2. ASSUME NEW s \in Small(n + 1), s # {} PROVE h[s \ {Pick(s)}] = g[s \ {Pick(s)}]
    <3> DEFINE t == s \ {Pick(s)}
    <3>1. Pick(s) \in s
      BY <2>2 DEF Pick
    <3>2. Cardinality(t) <= n /\ t \in SUBSET S
      BY <1>0, <3>1, FS_RemoveElement
    <3>3. t \in Small(n) /\ t \in Small(n + 1)
      BY <1>0, <3>2
    <3>4. h[t] = OneTurn(w, h, t)
      <4> HIDE DEF t, Small
      <4> QED BY <2>1, <3>3
    <3>5. g[t] = OneTurn(w, h, t)
      <4> HIDE DEF t, Small
      <4> QED BY <3>3
    <3> QED BY <3>4, <3>5
  <2>3. \A s \in Small(n + 1) : OneTurn(w, h, s) = OneTurn(w, g, s)
    <3> HIDE DEF g, Small
    <3> QED BY <2>2 DEF OneTurn
  <2>4. g = [s \in Small(n + 1) |-> OneTurn(w, g, s)]
    BY <2>3
  <2>5. Approximates(g, n + 1)
    BY <2>4
  <2> HIDE DEF g, Approximates
  <2> QED BY <2>5
<1>3. Nat \subseteq Q
  <2> HIDE DEF Q
  <2> QED BY <1>1, <1>2, AllNats
<1>4. Cardinality(S) \in Nat /\ Small(Cardinality(S)) = SUBSET S
  BY <1>0, FS_Subset, FS_CardinalityType
<1>5. PICK h : Approximates(h, Cardinality(S))
  BY <1>3, <1>4
<1>6. IsFold(w, h, S)
  BY <1>4, <1>5 DEF IsFold
<1> QED BY <1>6

\* Two folds agree where both are defined and the weights agree.
LEMMA FoldsAgree ==
  ASSUME NEW w, NEW v, NEW S, NEW T, IsFiniteSet(S), NEW g, NEW h, IsFold(w, g, S), IsFold(v, h, T),
         NEW A \in SUBSET (S \cap T), \A x \in A : w[x] = v[x]
  PROVE  g[A] = h[A]
<1> DEFINE Q == {n \in Nat : \A s \in SUBSET A : Cardinality(s) = n => g[s] = h[s]}
<1>0. \A s \in SUBSET A : IsFiniteSet(s) /\ Cardinality(s) \in Nat
  BY FS_Subset, FS_CardinalityType
<1>00. \A s \in SUBSET A : g[s] = OneTurn(w, g, s) /\ h[s] = OneTurn(v, h, s)
  BY DEF IsFold
<1>1. 0 \in Q
  <2>1. \A s \in SUBSET A : Cardinality(s) = 0 => s = {}
    BY <1>0, FS_EmptySet
  <2>2. g[{}] = 0 /\ h[{}] = 0
    BY <1>00 DEF OneTurn
  <2> QED BY <2>1, <2>2
<1>2. ASSUME NEW n \in Nat, n \in Q PROVE n + 1 \in Q
  <2> SUFFICES ASSUME NEW s \in SUBSET A, Cardinality(s) = n + 1 PROVE g[s] = h[s]
    OBVIOUS
  <2>1. s # {}
    BY FS_EmptySet
  <2>2. Pick(s) \in s
    BY <2>1 DEF Pick
  <2>3. Cardinality(s \ {Pick(s)}) = n
    <3>1. Cardinality(s \ {Pick(s)}) = Cardinality(s) - 1
      BY <1>0, <2>2, FS_RemoveElement, Zenon
    <3> QED BY <3>1
  <2>4. g[s \ {Pick(s)}] = h[s \ {Pick(s)}]
    BY <1>2, <2>3
  <2> QED BY <1>00, <2>1, <2>2, <2>4 DEF OneTurn
<1>3. Nat \subseteq Q
  <2> HIDE DEF Q
  <2> QED BY <1>1, <1>2, AllNats
<1> QED BY <1>0, <1>3

\* Any fold of a finite set gives its sum.
LEMMA FoldIsTotal ==
  ASSUME NEW w, NEW S, IsFiniteSet(S), NEW h, IsFold(w, h, S)
  PROVE  h[S] = Total(w, S)
<1>1. PICK g : IsFold(w, g, S) /\ g = CHOOSE k : IsFold(w, k, S)
  BY FoldExists
<1>2. h[S] = g[S]
  BY <1>1, FoldsAgree
<1> QED BY <1>1, <1>2, TotalIsFold

\* The sum of a set, one element at a time.
LEMMA TotalTurn ==
  ASSUME NEW w, NEW S, IsFiniteSet(S)
  PROVE  /\ Total(w, {}) = 0
         /\ S # {} => Pick(S) \in S /\ Total(w, S) = w[Pick(S)] + Total(w, S \ {Pick(S)})
<1> DEFINE fold(T) == CHOOSE h : IsFold(w, h, T)
<1>1. \A T : IsFiniteSet(T) => IsFold(w, fold(T), T)
  BY FoldExists
<1>2. \A T : Total(w, T) = fold(T)[T]
  BY TotalIsFold
<1>3. \A T : IsFiniteSet(T) => fold(T)[T] = OneTurn(w, fold(T), T)
  <2> SUFFICES ASSUME NEW T, IsFiniteSet(T) PROVE fold(T)[T] = OneTurn(w, fold(T), T)
    OBVIOUS
  <2>1. IsFold(w, fold(T), T)
    BY <1>1
  <2> HIDE DEF fold
  <2> QED BY <2>1 DEF IsFold
<1>4. Total(w, {}) = 0
  <2>1. fold({})[{}] = OneTurn(w, fold({}), {})
    BY <1>3, FS_EmptySet
  <2> HIDE DEF fold
  <2> QED BY <1>2, <2>1 DEF OneTurn
<1>5. ASSUME S # {} PROVE Pick(S) \in S /\ Total(w, S) = w[Pick(S)] + Total(w, S \ {Pick(S)})
  <2> DEFINE R == S \ {Pick(S)}
  <2>1. Pick(S) \in S
    BY <1>5 DEF Pick
  <2>2. IsFiniteSet(R)
    BY FS_RemoveElement
  <2>3. fold(S)[R] = fold(R)[R]
    <3>1. IsFold(w, fold(S), S) /\ IsFold(w, fold(R), R) /\ R \in SUBSET (S \cap R)
      BY <1>1, <2>2
    <3> HIDE DEF fold, R
    <3> QED BY <3>1, FoldsAgree
  <2>4. Total(w, S) = w[Pick(S)] + fold(S)[R]
    BY <1>2, <1>3, <1>5 DEF OneTurn
  <2> QED BY <1>2, <2>1, <2>3, <2>4
<1> QED BY <1>4, <1>5

LEMMA TotalIsNat ==
  ASSUME NEW w, NEW S, IsFiniteSet(S), \A x \in S : w[x] \in Nat
  PROVE  Total(w, S) \in Nat
<1> DEFINE Q == {n \in Nat : \A s \in SUBSET S : Cardinality(s) = n => Total(w, s) \in Nat}
<1>0. \A s \in SUBSET S : IsFiniteSet(s) /\ Cardinality(s) \in Nat
  BY FS_Subset, FS_CardinalityType
<1>1. 0 \in Q
  BY <1>0, TotalTurn, FS_EmptySet
<1>2. ASSUME NEW n \in Nat, n \in Q PROVE n + 1 \in Q
  <2> SUFFICES ASSUME NEW s \in SUBSET S, Cardinality(s) = n + 1 PROVE Total(w, s) \in Nat
    OBVIOUS
  <2>1. s # {} /\ IsFiniteSet(s)
    BY <1>0, FS_EmptySet
  <2>2. Pick(s) \in s /\ Total(w, s) = w[Pick(s)] + Total(w, s \ {Pick(s)})
    BY <2>1, TotalTurn
  <2>3. Cardinality(s \ {Pick(s)}) = Cardinality(s) - 1
    BY <2>1, <2>2, FS_RemoveElement, Zenon
  <2>4. Total(w, s \ {Pick(s)}) \in Nat
    BY <1>2, <2>3
  <2> QED BY <2>2, <2>4
<1>3. Nat \subseteq Q
  <2> HIDE DEF Q
  <2> QED BY <1>1, <1>2, AllNats
<1> QED BY <1>0, <1>3

\* The sum does not depend on which element is taken first.
LEMMA TotalTake ==
  ASSUME NEW w, NEW S, IsFiniteSet(S), \A x \in S : w[x] \in Nat, NEW x \in S
  PROVE  Total(w, S) = w[x] + Total(w, S \ {x})
<1> DEFINE Q == {n \in Nat : \A s \in SUBSET S : Cardinality(s) = n =>
                   \A y \in s : Total(w, s) = w[y] + Total(w, s \ {y})}
<1>0. \A s \in SUBSET S : IsFiniteSet(s) /\ Cardinality(s) \in Nat /\ Total(w, s) \in Nat
  BY FS_Subset, FS_CardinalityType, TotalIsNat
<1>1. 0 \in Q
  BY <1>0, FS_EmptySet
<1>2. ASSUME NEW n \in Nat, n \in Q PROVE n + 1 \in Q
  <2> SUFFICES ASSUME NEW s \in SUBSET S, Cardinality(s) = n + 1, NEW y \in s
               PROVE  Total(w, s) = w[y] + Total(w, s \ {y})
    OBVIOUS
  <2> DEFINE p == Pick(s)
  <2>1. p \in s /\ Total(w, s) = w[p] + Total(w, s \ {p})
    BY <1>0, TotalTurn
  <2>2. \A z \in s : Cardinality(s \ {z}) = n
    <3>1. \A z \in s : Cardinality(s \ {z}) = Cardinality(s) - 1
      BY <1>0, FS_RemoveElement, Zenon
    <3> QED BY <3>1
  <2>3. CASE y # p
    <3> HIDE DEF p
    <3>1. Total(w, s \ {p}) = w[y] + Total(w, (s \ {p}) \ {y})
      BY <1>2, <2>1, <2>2, <2>3
    <3>2. Total(w, s \ {y}) = w[p] + Total(w, (s \ {y}) \ {p})
      BY <1>2, <2>1, <2>2, <2>3
    <3>3. (s \ {p}) \ {y} = (s \ {y}) \ {p}
      OBVIOUS
    <3>4. w[p] \in Nat /\ w[y] \in Nat /\ Total(w, (s \ {y}) \ {p}) \in Nat
      BY <1>0, <2>1
    <3> QED BY <2>1, <3>1, <3>2, <3>3, <3>4
  <2> QED BY <2>1, <2>3
<1>3. Nat \subseteq Q
  <2> HIDE DEF Q
  <2> QED BY <1>1, <1>2, AllNats
<1> QED BY <1>0, <1>3

LEMMA TotalAdd ==
  ASSUME NEW w, NEW S, IsFiniteSet(S), NEW x, x \notin S, \A y \in S \cup {x} : w[y] \in Nat
  PROVE  Total(w, S \cup {x}) = Total(w, S) + w[x]
<1>1. IsFiniteSet(S \cup {x}) /\ (S \cup {x}) \ {x} = S
  BY FS_AddElement
<1>2. Total(w, S \cup {x}) = w[x] + Total(w, (S \cup {x}) \ {x})
  BY <1>1, TotalTake
<1>3. Total(w, S) \in Nat /\ w[x] \in Nat
  BY TotalIsNat
<1> QED BY <1>1, <1>2, <1>3

LEMMA TotalSingleton ==
  ASSUME NEW w, NEW x, w[x] \in Nat
  PROVE  Total(w, {x}) = w[x]
<1>1. Total(w, {} \cup {x}) = Total(w, {}) + w[x]
  BY TotalAdd, FS_EmptySet
<1>2. Total(w, {}) = 0 /\ {} \cup {x} = {x}
  BY TotalTurn, FS_EmptySet
<1> QED BY <1>1, <1>2

\* The sum of two disjoint sets.
LEMMA TotalUnion ==
  ASSUME NEW w, NEW S, NEW T, IsFiniteSet(S), IsFiniteSet(T), S \cap T = {},
         \A x \in S \cup T : w[x] \in Nat
  PROVE  Total(w, S \cup T) = Total(w, S) + Total(w, T)
<1> DEFINE P == {U \in SUBSET T : Total(w, S \cup U) = Total(w, S) + Total(w, U)}
<1>1. {} \in P
  <2>1. Total(w, {}) = 0 /\ Total(w, S) \in Nat
    BY TotalTurn, TotalIsNat, FS_EmptySet
  <2>2. S \cup {} = S
    OBVIOUS
  <2> QED BY <2>1, <2>2
<1>2. ASSUME NEW U \in SUBSET T, NEW x \in T, U \in P, x \notin U PROVE U \cup {x} \in P
  <2>1. IsFiniteSet(U) /\ IsFiniteSet(S \cup U)
    BY FS_Subset, FS_Union
  <2>2. Total(w, (S \cup U) \cup {x}) = Total(w, S \cup U) + w[x]
    BY <1>2, <2>1, TotalAdd
  <2>3. Total(w, U \cup {x}) = Total(w, U) + w[x]
    BY <1>2, <2>1, TotalAdd
  <2>4. Total(w, S) \in Nat /\ Total(w, U) \in Nat /\ w[x] \in Nat
    BY <2>1, TotalIsNat
  <2>5. (S \cup U) \cup {x} = S \cup (U \cup {x})
    OBVIOUS
  <2>6. Total(w, S \cup U) = Total(w, S) + Total(w, U)
    BY <1>2
  <2>7. Total(w, S \cup (U \cup {x})) = Total(w, S) + Total(w, U \cup {x})
    <3>1. Total(w, S \cup (U \cup {x})) = Total(w, S \cup U) + w[x]
      BY <2>2, <2>5
    <3> QED BY <2>3, <2>4, <2>6, <3>1
  <2> QED BY <2>7
<1>3. T \in P
  <2> HIDE DEF P
  <2> QED BY <1>1, <1>2, AllFiniteSets
<1> QED BY <1>3

\* The sum depends on the weights of the set only.
LEMMA TotalSame ==
  ASSUME NEW w, NEW v, NEW S, IsFiniteSet(S), \A x \in S : w[x] = v[x]
  PROVE  Total(w, S) = Total(v, S)
<1>1. PICK g : IsFold(w, g, S) /\ g = CHOOSE h : IsFold(w, h, S)
  BY FoldExists
<1>2. PICK k : IsFold(v, k, S) /\ k = CHOOSE h : IsFold(v, h, S)
  BY FoldExists
<1>3. g[S] = k[S]
  BY <1>1, <1>2, FoldsAgree
<1> QED BY <1>1, <1>2, <1>3, TotalIsFold

\* The sum over the values of a one-to-one function.
LEMMA TotalImage ==
  ASSUME NEW w, NEW v, NEW f, NEW S, IsFiniteSet(S), \A x \in S : w[x] \in Nat /\ v[f[x]] = w[x],
         \A x, y \in S : f[x] = f[y] => x = y
  PROVE  IsFiniteSet({f[x] : x \in S}) /\ Total(v, {f[x] : x \in S}) = Total(w, S)
<1> DEFINE image(U) == {f[x] : x \in U}
           P == {U \in SUBSET S : IsFiniteSet(image(U)) /\ Total(v, image(U)) = Total(w, U)}
<1>1. {} \in P
  <2>1. image({}) = {}
    OBVIOUS
  <2>2. Total(v, {}) = 0 /\ Total(w, {}) = 0 /\ IsFiniteSet({})
    BY TotalTurn, FS_EmptySet
  <2> HIDE DEF image
  <2> QED BY <2>1, <2>2
<1>2. ASSUME NEW U \in SUBSET S, NEW x \in S, U \in P, x \notin U PROVE U \cup {x} \in P
  <2>1. image(U \cup {x}) = image(U) \cup {f[x]} /\ f[x] \notin image(U)
    BY <1>2
  <2>2. \A y \in image(U) \cup {f[x]} : v[y] \in Nat
    OBVIOUS
  <2>3. IsFiniteSet(U)
    BY FS_Subset
  <2> HIDE DEF image
  <2>4. IsFiniteSet(image(U) \cup {f[x]}) /\ Total(v, image(U) \cup {f[x]}) = Total(v, image(U)) + v[f[x]]
    BY <1>2, <2>1, <2>2, TotalAdd, FS_AddElement
  <2>5. Total(w, U \cup {x}) = Total(w, U) + w[x]
    BY <1>2, <2>3, TotalAdd
  <2> QED BY <1>2, <2>1, <2>4, <2>5
<1>3. S \in P
  <2> HIDE DEF P
  <2> QED BY <1>1, <1>2, AllFiniteSets
<1> QED BY <1>3

\* One weight grows.
LEMMA TotalGrows ==
  ASSUME NEW S, IsFiniteSet(S), NEW w \in [S -> Nat], NEW x \in S, NEW n \in Nat
  PROVE  Total([w EXCEPT ![x] = @ + n], S) = Total(w, S) + n
<1> DEFINE v == [w EXCEPT ![x] = @ + n]
           rest == S \ {x}
<1>1. v \in [S -> Nat] /\ v[x] = w[x] + n /\ \A y \in rest : v[y] = w[y]
  OBVIOUS
<1>2. IsFiniteSet(rest)
  BY FS_RemoveElement
<1> HIDE DEF v
<1>3. Total(v, S) = v[x] + Total(v, rest) /\ Total(w, S) = w[x] + Total(w, rest)
  BY <1>1, TotalTake
<1>4. Total(v, rest) = Total(w, rest) /\ Total(w, rest) \in Nat
  <2>1. \A y \in rest : w[y] \in Nat
    OBVIOUS
  <2> HIDE DEF rest
  <2> QED BY <1>1, <1>2, <2>1, TotalSame, TotalIsNat
<1>5. w[x] \in Nat
  OBVIOUS
<1>6. Total(v, S) = Total(w, S) + n
  BY <1>1, <1>3, <1>4, <1>5
<1> QED BY <1>6 DEF v

LEMMA TotalZero ==
  ASSUME NEW w, NEW S, IsFiniteSet(S), \A x \in S : w[x] = 0
  PROVE  Total(w, S) = 0
<1> DEFINE P == {T \in SUBSET S : Total(w, T) = 0}
<1>1. {} \in P
  BY TotalTurn, FS_EmptySet
<1>2. ASSUME NEW T \in SUBSET S, NEW x \in S, T \in P, x \notin T PROVE T \cup {x} \in P
  <2>1. IsFiniteSet(T) /\ \A y \in T \cup {x} : w[y] \in Nat
    BY FS_Subset
  <2>2. Total(w, T \cup {x}) = Total(w, T) + w[x]
    BY <1>2, <2>1, TotalAdd
  <2> QED BY <1>2, <2>2
<1>3. S \in P
  <2> HIDE DEF P
  <2> QED BY <1>1, <1>2, AllFiniteSets
<1> QED BY <1>3

-------------------------------------------------------------------------------
(***************************************************************************)
(* Folds over the places of a sequence, whatever is folded.  c takes the   *)
(* next place of a set of them, and t is one turn.                         *)
(***************************************************************************)

PlaceTurn(c, t, base, h, s) == IF s = {} THEN base ELSE t[<<c[s], h[s \ {c[s]}]>>]
IsPlaceFold(n, c, t, base, h) == h = [s \in SUBSET (1..n) |-> PlaceTurn(c, t, base, h, s)]

LEMMA PlacesAreFinite ==
  ASSUME NEW n \in Nat
  PROVE  IsFiniteSet(1..n) /\ \A s \in SUBSET (1..n) : IsFiniteSet(s) /\ Cardinality(s) \in Nat
<1>1. IsFiniteSet(1..n)
  BY FS_Interval
<1>2. ASSUME NEW s \in SUBSET (1..n) PROVE IsFiniteSet(s) /\ Cardinality(s) \in Nat
  <2>1. IsFiniteSet(s)
    BY <1>1, FS_Subset
  <2> QED BY <2>1, FS_CardinalityType
<1> QED BY <1>1, <1>2

\* What holds at the start and survives each turn holds of what a fold gives for every set of places.
LEMMA FoldStays ==
  ASSUME NEW n \in Nat, NEW V, NEW h, h[{}] \in V,
         \A s \in SUBSET (1..n) : s # {} => \E i \in s : h[s \ {i}] \in V => h[s] \in V
  PROVE  \A s \in SUBSET (1..n) : h[s] \in V
<1> DEFINE Q == {m \in Nat : \A s \in SUBSET (1..n) : Cardinality(s) = m => h[s] \in V}
<1>0. \A s \in SUBSET (1..n) : IsFiniteSet(s) /\ Cardinality(s) \in Nat
  BY PlacesAreFinite
<1>1. 0 \in Q
  BY <1>0, FS_EmptySet
<1>2. ASSUME NEW m \in Nat, m \in Q PROVE m + 1 \in Q
  <2> SUFFICES ASSUME NEW s \in SUBSET (1..n), Cardinality(s) = m + 1 PROVE h[s] \in V
    OBVIOUS
  <2>1. s # {}
    <3>1. Cardinality({}) = 0 /\ m + 1 # 0
      BY FS_EmptySet
    <3> QED BY <3>1
  <2>2. PICK i \in s : h[s \ {i}] \in V => h[s] \in V
    BY <2>1
  <2>3. Cardinality(s \ {i}) = m
    <3>1. Cardinality(s \ {i}) = Cardinality(s) - 1
      BY <1>0, FS_RemoveElement, Zenon
    <3> QED BY <3>1
  <2> QED BY <1>2, <2>2, <2>3
<1>3. Nat \subseteq Q
  <2> HIDE DEF Q
  <2> QED BY <1>1, <1>2, AllNats
<1> QED BY <1>0, <1>3

\* The fold defines a function.
LEMMA PlaceFoldExists ==
  ASSUME NEW n \in Nat, NEW c, NEW t, NEW base,
         \A s \in SUBSET (1..n) : s # {} => c[s] \in s
  PROVE  \E h : IsPlaceFold(n, c, t, base, h)
<1> DEFINE D == 1..n
           Small(m) == {s \in SUBSET D : Cardinality(s) <= m}
           Approximates(h, m) == h = [s \in Small(m) |-> PlaceTurn(c, t, base, h, s)]
           Q == {m \in Nat : \E h : Approximates(h, m)}
<1>0. IsFiniteSet(D) /\ \A s \in SUBSET D : IsFiniteSet(s) /\ Cardinality(s) \in Nat
  BY PlacesAreFinite
<1>1. 0 \in Q
  <2> DEFINE h == [s \in Small(0) |-> base]
  <2>1. \A s \in Small(0) : s = {}
    BY <1>0, FS_EmptySet
  <2>2. h = [s \in Small(0) |-> PlaceTurn(c, t, base, h, s)]
    BY <2>1 DEF PlaceTurn
  <2> QED BY <2>2
<1>2. ASSUME NEW m \in Nat, m \in Q PROVE m + 1 \in Q
  <2>1. PICK h : Approximates(h, m)
    BY <1>2
  <2> DEFINE g == [s \in Small(m + 1) |-> PlaceTurn(c, t, base, h, s)]
  <2>2. ASSUME NEW s \in Small(m + 1), s # {} PROVE h[s \ {c[s]}] = g[s \ {c[s]}]
    <3> DEFINE r == s \ {c[s]}
    <3>1. Cardinality(r) <= m /\ r \in SUBSET D
      <4>1. c[s] \in s /\ IsFiniteSet(s) /\ Cardinality(s) <= m + 1 /\ Cardinality(s) \in Nat
        BY <1>0, <2>2
      <4>2. Cardinality(r) = Cardinality(s) - 1
        BY <4>1, FS_RemoveElement, Zenon
      <4>3. Cardinality(r) <= m
        <5> HIDE DEF r
        <5> QED BY <4>1, <4>2
      <4> QED BY <4>3
    <3>2. r \in Small(m) /\ r \in Small(m + 1)
      BY <1>0, <3>1
    <3>3. h[r] = PlaceTurn(c, t, base, h, r)
      <4> HIDE DEF r, Small
      <4> QED BY <2>1, <3>2
    <3>4. g[r] = PlaceTurn(c, t, base, h, r)
      <4> HIDE DEF r, Small
      <4> QED BY <3>2
    <3> QED BY <3>3, <3>4
  <2>3. \A s \in Small(m + 1) : PlaceTurn(c, t, base, h, s) = PlaceTurn(c, t, base, g, s)
    <3> HIDE DEF g, Small
    <3> QED BY <2>2 DEF PlaceTurn
  <2>4. g = [s \in Small(m + 1) |-> PlaceTurn(c, t, base, g, s)]
    BY <2>3
  <2>5. Approximates(g, m + 1)
    BY <2>4
  <2> HIDE DEF g, Approximates
  <2> QED BY <2>5
<1>3. Nat \subseteq Q
  <2> HIDE DEF Q
  <2> QED BY <1>1, <1>2, AllNats
<1>4. Cardinality(D) \in Nat /\ Small(Cardinality(D)) = SUBSET D
  BY <1>0, FS_Subset, FS_CardinalityType
<1>5. PICK h : Approximates(h, Cardinality(D))
  BY <1>3, <1>4
<1>6. IsPlaceFold(n, c, t, base, h)
  BY <1>4, <1>5 DEF IsPlaceFold
<1> QED BY <1>6

\* It starts in V and each turn keeps to it.
KeepsTo(n, c, t, base, V) ==
  /\ base \in V
  /\ \A s \in SUBSET (1..n) : s # {} => c[s] \in s
  /\ \A i \in 1..n, v \in V : t[<<i, v>>] \in V

LEMMA PlaceFoldStays ==
  ASSUME NEW n \in Nat, NEW c, NEW t, NEW base, NEW V, KeepsTo(n, c, t, base, V)
  PROVE  \E h : IsPlaceFold(n, c, t, base, h) /\ \A s \in SUBSET (1..n) : h[s] \in V
<1> USE DEF KeepsTo
<1>0. PICK h : IsPlaceFold(n, c, t, base, h)
  BY PlaceFoldExists
<1>1. \A s \in SUBSET (1..n) : h[s] = PlaceTurn(c, t, base, h, s)
  BY <1>0 DEF IsPlaceFold
<1>2. h[{}] \in V
  BY <1>1 DEF PlaceTurn
<1>3. ASSUME NEW s \in SUBSET (1..n), s # {} PROVE \E i \in s : h[s \ {i}] \in V => h[s] \in V
  <2>1. c[s] \in s /\ c[s] \in 1..n
    BY <1>3
  <2>2. h[s] = t[<<c[s], h[s \ {c[s]}]>>]
    BY <1>1, <1>3 DEF PlaceTurn
  <2> QED BY <2>1, <2>2
<1>4. \A s \in SUBSET (1..n) : h[s] \in V
  BY <1>2, <1>3, FoldStays
<1> QED BY <1>0, <1>4

\* The greatest and the least place of a set of them, and of the first and the last ones.
LEMMA PlacesHaveEnds ==
  ASSUME NEW n \in Nat
  PROVE  /\ \A s \in SUBSET (1..n) : s # {} => Max(s) \in s /\ Min(s) \in s
         /\ \A i \in 1..n : Max(1..i) = i /\ (1..i) \ {i} = 1..(i - 1)
         /\ \A i \in 1..n : Min(i..n) = i /\ (i..n) \ {i} = (i + 1)..n
<1>1. ASSUME NEW s \in SUBSET (1..n), s # {}
      PROVE  Max(s) \in s /\ (\A k \in s : Max(s) >= k) /\ Min(s) \in s /\ \A k \in s : Min(s) <= k
  <2>1. s \in SUBSET (0..n) /\ s \in SUBSET Nat
    OBVIOUS
  <2>2. Max(s) \in s /\ \A k \in s : Max(s) >= k
    BY <1>1, <2>1, MaxIsGreatest
  <2>3. \E m \in s : \A k \in s : m <= k
    BY <1>1, <2>1, LeastNat
  <2>4. Min(s) \in s /\ \A k \in s : Min(s) <= k
    BY <2>3 DEF Min
  <2> QED BY <2>2, <2>4
<1>2. ASSUME NEW i \in 1..n PROVE Max(1..i) = i /\ Min(i..n) = i
  <2>1. 1..i \in SUBSET (1..n) /\ i..n \in SUBSET (1..n) /\ i \in 1..i /\ i \in i..n
    OBVIOUS
  <2>2. Max(1..i) \in 1..i /\ Max(1..i) >= i /\ Min(i..n) \in i..n /\ Min(i..n) <= i
    BY <1>1, <2>1
  <2> QED BY <2>2
<1>3. \A i \in 1..n : (1..i) \ {i} = 1..(i - 1) /\ (i..n) \ {i} = (i + 1)..n
  OBVIOUS
<1> QED BY <1>1, <1>2, <1>3
===============================================================================
