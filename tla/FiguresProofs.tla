---------------------------- MODULE FiguresProofs ----------------------------
(***************************************************************************)
(* Theorems about the figures that users and admins are shown: what a      *)
(* survey costs, for any hours and amounts, its charts, for any options and*)
(* votes, and the reports on the money, for any rows and months.  They rest*)
(* on a theory of sums over finite sets, for which the induction is done   *)
(* with the least number principle of the library.                         *)
(***************************************************************************)
EXTENDS Figures, FiniteSetTheorems, WellFoundedInduction, TLAPS

-----------------------------------------------------------------------------
(* Sums over finite sets                                                   *)

\* The community modules fold a set by taking out one element after the other.
Pick(s)   == CHOOSE x \in s : TRUE
Sum(f, S) == MapThenSumSet(LAMBDA x : f[x], S)
Adds(g, f, D) ==
    g = [s \in D |-> IF s = {} THEN 0 ELSE f[Pick(s)] + g[s \ {Pick(s)}]]
Small(S, n) == {s \in SUBSET S : Cardinality(s) <= n}

\* A number that is not there is least among them.
LEMMA Least ==
  ASSUME NEW T, T \subseteq Nat, T # {}
  PROVE  \E n \in T : \A m \in T : n <= m
<1>1. PICK n \in T : \A m \in T : ~(<<m, n>> \in OpToRel(<, Nat))
  BY NatLessThanWellFounded, WFMin
<1>2. ASSUME NEW m \in T PROVE ~(m < n)
  BY <1>1 DEF OpToRel
<1> QED BY <1>2

\* Induction: a set of numbers with zero and every successor has all.
LEMMA AllNumbers ==
  ASSUME NEW Z, 0 \in Z, \A n \in Nat : n \in Z => n + 1 \in Z
  PROVE  \A n \in Nat : n \in Z
<1> SUFFICES ASSUME NEW k \in Nat, k \notin Z PROVE FALSE
  OBVIOUS
<1> DEFINE T == {n \in Nat : n \notin Z}
<1>1. PICK n \in T : \A m \in T : n <= m
  <2>1. T \subseteq Nat /\ T # {}
    OBVIOUS
  <2> QED BY <2>1, Least
<1>2. n \in Nat /\ n # 0 /\ n \notin Z
  OBVIOUS
<1>3. n - 1 \in Nat /\ n - 1 \in Z
  BY <1>1, <1>2
<1>4. (n - 1) + 1 = n
  BY <1>2
<1> QED BY <1>2, <1>3, <1>4

\* A family of subsets with the empty one, closed under one element more, has S.
LEMMA AllSubsets ==
  ASSUME NEW S, IsFiniteSet(S), NEW Z, {} \in Z,
         \A t \in SUBSET S, x \in S : t \in Z /\ x \notin t => t \cup {x} \in Z
  PROVE  S \in Z
<1> DEFINE Y == {n \in Nat : \A t \in SUBSET S : Cardinality(t) = n => t \in Z}
<1>1. \A t \in SUBSET S : IsFiniteSet(t) /\ Cardinality(t) \in Nat
  BY FS_Subset, FS_CardinalityType
<1>2. 0 \in Y
  BY <1>1, FS_EmptySet
<1>3. ASSUME NEW n \in Nat, n \in Y PROVE n + 1 \in Y
  <2>1. ASSUME NEW t \in SUBSET S, Cardinality(t) = n + 1 PROVE t \in Z
    <3>1. t # {}
      BY <2>1, FS_EmptySet
    <3>2. PICK x \in t : TRUE
      BY <3>1
    <3>3. Cardinality(t \ {x}) = n
      <4>1. Cardinality(t \ {x}) = Cardinality(t) - 1
        BY <1>1, <3>2, FS_RemoveElement
      <4> QED BY <1>3, <2>1, <4>1
    <3>4. t \ {x} \in SUBSET S /\ x \in S /\ x \notin t \ {x} /\ (t \ {x}) \cup {x} = t
      BY <3>2
    <3>5. t \ {x} \in Z
      BY <1>3, <3>3, <3>4
    <3> QED BY <3>4, <3>5
  <2> QED BY <2>1
<1>4. \A n \in Nat : n \in Y
  <2> HIDE DEF Y
  <2> QED BY <1>2, <1>3, AllNumbers
<1>5. Cardinality(S) \in Y
  BY <1>1, <1>4
<1> QED BY <1>5

\* There is a function that adds the elements up.
LEMMA SumExists ==
  ASSUME NEW S, IsFiniteSet(S), NEW f
  PROVE  \E g : Adds(g, f, SUBSET S)
<1>1. \A t \in SUBSET S : IsFiniteSet(t) /\ Cardinality(t) \in Nat
  BY FS_Subset, FS_CardinalityType
<1> DEFINE Y == {n \in Nat : \E g : Adds(g, f, Small(S, n))}
<1>2. 0 \in Y
  <2> DEFINE g == [s \in Small(S, 0) |-> 0]
  <2>1. \A s \in Small(S, 0) : s = {}
    BY <1>1, FS_EmptySet DEF Small
  <2>2. Adds(g, f, Small(S, 0))
    BY <2>1 DEF Adds
  <2> QED BY <2>2
<1>3. ASSUME NEW n \in Nat, n \in Y PROVE n + 1 \in Y
  <2>1. PICK g : Adds(g, f, Small(S, n))
    BY <1>3
  <2> DEFINE h == [s \in Small(S, n + 1) |->
                     IF s = {} THEN 0 ELSE f[Pick(s)] + g[s \ {Pick(s)}]]
  <2>2. ASSUME NEW s \in Small(S, n + 1), s # {}
        PROVE  s \ {Pick(s)} \in Small(S, n) /\ s \ {Pick(s)} \in Small(S, n + 1)
    <3>1. s \in SUBSET S /\ Pick(s) \in s
      BY <2>2 DEF Small, Pick
    <3>2. /\ Cardinality(s \ {Pick(s)}) = Cardinality(s) - 1
          /\ Cardinality(s) <= n + 1 /\ s \ {Pick(s)} \in SUBSET S
      BY <1>1, <3>1, FS_RemoveElement DEF Small
    <3> QED BY <1>1, <3>1, <3>2 DEF Small
  <2>3. ASSUME NEW t \in Small(S, n), t \in Small(S, n + 1) PROVE h[t] = g[t]
    BY <2>1, <2>3 DEF Adds
  <2>4. \A s \in Small(S, n + 1) :
           h[s] = IF s = {} THEN 0 ELSE f[Pick(s)] + h[s \ {Pick(s)}]
    BY <2>2, <2>3
  <2>5. Adds(h, f, Small(S, n + 1))
    BY <2>4 DEF Adds
  <2> QED BY <2>5
<1>4. \A n \in Nat : n \in Y
  <2> HIDE DEF Y
  <2> QED BY <1>2, <1>3, AllNumbers
<1>5. Small(S, Cardinality(S)) = SUBSET S
  BY <1>1, FS_Subset DEF Small
<1>6. Cardinality(S) \in Y
  BY <1>1, <1>4
<1> QED BY <1>5, <1>6

\* It is the only one where the values are the same.
LEMMA SumUnique ==
  ASSUME NEW S, IsFiniteSet(S), NEW f, NEW e, \A x \in S : f[x] = e[x],
         NEW g, NEW h, Adds(g, f, SUBSET S), Adds(h, e, SUBSET S)
  PROVE  g[S] = h[S]
<1> DEFINE Y == {n \in Nat : \A t \in SUBSET S : Cardinality(t) = n => g[t] = h[t]}
<1>1. \A t \in SUBSET S : IsFiniteSet(t) /\ Cardinality(t) \in Nat
  BY FS_Subset, FS_CardinalityType
<1>2. ASSUME NEW t \in SUBSET S
      PROVE  /\ g[t] = IF t = {} THEN 0 ELSE f[Pick(t)] + g[t \ {Pick(t)}]
             /\ h[t] = IF t = {} THEN 0 ELSE e[Pick(t)] + h[t \ {Pick(t)}]
  BY DEF Adds
<1>3. 0 \in Y
  BY <1>1, <1>2, FS_EmptySet
<1>4. ASSUME NEW n \in Nat, n \in Y PROVE n + 1 \in Y
  <2>1. ASSUME NEW t \in SUBSET S, Cardinality(t) = n + 1 PROVE g[t] = h[t]
    <3>1. t # {}
      BY <2>1, FS_EmptySet
    <3>2. Pick(t) \in t
      BY <3>1 DEF Pick
    <3>3. Cardinality(t \ {Pick(t)}) = n /\ t \ {Pick(t)} \in SUBSET S
      <4>1. Cardinality(t \ {Pick(t)}) = Cardinality(t) - 1
        BY <1>1, <3>2, FS_RemoveElement
      <4> QED BY <1>4, <2>1, <4>1
    <3>4. g[t \ {Pick(t)}] = h[t \ {Pick(t)}] /\ f[Pick(t)] = e[Pick(t)]
      BY <1>4, <3>2, <3>3
    <3> QED BY <1>2, <3>1, <3>4
  <2> QED BY <2>1
<1>5. \A n \in Nat : n \in Y
  <2> HIDE DEF Y
  <2> QED BY <1>3, <1>4, AllNumbers
<1> QED BY <1>1, <1>5

LEMMA SumOnce ==
  ASSUME NEW S, IsFiniteSet(S), NEW f,
         NEW g, NEW h, Adds(g, f, SUBSET S), Adds(h, f, SUBSET S)
  PROVE  g[S] = h[S]
BY SumUnique

\* The function for a set is the one for a subset, there.
LEMMA SumRest ==
  ASSUME NEW S, IsFiniteSet(S), NEW T, T \subseteq S, NEW f,
         NEW g, NEW h, Adds(g, f, SUBSET S), Adds(h, f, SUBSET T)
  PROVE  g[T] = h[T]
<1> DEFINE k == [t \in SUBSET T |-> g[t]]
<1>1. IsFiniteSet(T)
  BY FS_Subset
<1>2. Adds(k, f, SUBSET T)
  <2>1. \A t \in SUBSET T : t \in SUBSET S /\ t \ {Pick(t)} \in SUBSET T
    OBVIOUS
  <2>2. \A t \in SUBSET T : g[t] = IF t = {} THEN 0 ELSE f[Pick(t)] + k[t \ {Pick(t)}]
    BY <2>1 DEF Adds
  <2>3. k = [t \in SUBSET T |-> IF t = {} THEN 0 ELSE f[Pick(t)] + k[t \ {Pick(t)}]]
    BY <2>2, Zenon
  <2> HIDE DEF k
  <2> QED BY <2>3 DEF Adds
<1>3. PICK j : j = k
  OBVIOUS
<1>4. Adds(j, f, SUBSET T)
  BY <1>2, <1>3
<1>5. j[T] = h[T]
  BY <1>1, <1>4, SumOnce
<1> QED BY <1>3, <1>5

\* A sum is what such a function says of the whole set.
LEMMA SumIs ==
  ASSUME NEW S, IsFiniteSet(S), NEW f, NEW g, Adds(g, f, SUBSET S)
  PROVE  Sum(f, S) = g[S]
<1>1. Sum(f, S) = (CHOOSE h : Adds(h, f, SUBSET S))[S]
  BY DEF Sum, MapThenSumSet, MapThenFoldSet, Adds, Pick
<1>2. PICK h : h = CHOOSE j : Adds(j, f, SUBSET S)
  OBVIOUS
<1>3. Adds(h, f, SUBSET S)
  BY <1>2
<1>4. Sum(f, S) = h[S]
  BY <1>1, <1>2
<1>5. h[S] = g[S]
  BY <1>3, SumUnique
<1> QED BY <1>4, <1>5

\* The empty sum, and a sum in two parts.
LEMMA SumSteps ==
  ASSUME NEW S, IsFiniteSet(S), NEW f
  PROVE  /\ S = {} => Sum(f, S) = 0
         /\ S # {} => Sum(f, S) = f[Pick(S)] + Sum(f, S \ {Pick(S)})
<1>1. PICK g : Adds(g, f, SUBSET S)
  BY SumExists
<1>2. Sum(f, S) = g[S]
  BY <1>1, SumIs
<1>3. g[S] = IF S = {} THEN 0 ELSE f[Pick(S)] + g[S \ {Pick(S)}]
  BY <1>1 DEF Adds
<1>4. PICK T : T = S \ {Pick(S)}
  OBVIOUS
<1>5. IsFiniteSet(T)
  BY <1>4, FS_Subset
<1>6. PICK h : Adds(h, f, SUBSET T)
  BY <1>5, SumExists
<1>7. g[T] = h[T]
  BY <1>1, <1>4, <1>6, SumRest
<1>8. Sum(f, T) = h[T]
  BY <1>5, <1>6, SumIs
<1> QED BY <1>2, <1>3, <1>4, <1>7, <1>8

\* Sums of equal values are equal.
LEMMA SumSame ==
  ASSUME NEW S, IsFiniteSet(S), NEW f, NEW e, \A x \in S : f[x] = e[x]
  PROVE  Sum(f, S) = Sum(e, S)
<1>1. PICK g : Adds(g, f, SUBSET S)
  BY SumExists
<1>2. PICK h : Adds(h, e, SUBSET S)
  BY SumExists
<1>3. g[S] = h[S]
  BY <1>1, <1>2, SumUnique
<1> QED BY <1>1, <1>2, <1>3, SumIs

\* Sums of numbers are numbers.
LEMMA SumType ==
  ASSUME NEW S, IsFiniteSet(S), NEW f, \A x \in S : f[x] \in Int
  PROVE  /\ Sum(f, S) \in Int
         /\ (\A x \in S : f[x] >= 0) => Sum(f, S) \in Nat
<1> DEFINE Good(t) == /\ Sum(f, t) \in Int
                      /\ (\A x \in t : f[x] >= 0) => Sum(f, t) \in Nat
           Y == {n \in Nat : \A t \in SUBSET S : Cardinality(t) = n => Good(t)}
<1>1. \A t \in SUBSET S : IsFiniteSet(t) /\ Cardinality(t) \in Nat
  BY FS_Subset, FS_CardinalityType
<1>2. 0 \in Y
  <2>1. ASSUME NEW t \in SUBSET S, Cardinality(t) = 0 PROVE Good(t)
    BY <1>1, <2>1, FS_EmptySet, SumSteps
  <2> QED BY <2>1
<1>3. ASSUME NEW n \in Nat, n \in Y PROVE n + 1 \in Y
  <2>1. ASSUME NEW t \in SUBSET S, Cardinality(t) = n + 1 PROVE Good(t)
    <3>1. t # {}
      BY <2>1, FS_EmptySet
    <3>2. PICK x \in t : x = Pick(t)
      BY <3>1 DEF Pick
    <3>3. Cardinality(t \ {x}) = Cardinality(t) - 1
      BY <1>1, <3>2, FS_RemoveElement
    <3>4. Cardinality(t \ {x}) = n /\ t \ {x} \in SUBSET S
      BY <1>3, <2>1, <3>3
    <3>5. Good(t \ {x})
      BY <1>3, <3>4
    <3>6. Sum(f, t) = f[x] + Sum(f, t \ {x})
      BY <1>1, <3>1, <3>2, SumSteps
    <3> QED BY <3>2, <3>5, <3>6
  <2> QED BY <2>1
<1>4. \A n \in Nat : n \in Y
  <2> HIDE DEF Y
  <2> QED BY <1>2, <1>3, AllNumbers
<1> QED BY <1>1, <1>4

\* The order in which the elements are added does not matter.
LEMMA SumOut ==
  ASSUME NEW S, IsFiniteSet(S), NEW f, \A x \in S : f[x] \in Int, NEW x \in S
  PROVE  Sum(f, S) = f[x] + Sum(f, S \ {x})
<1> DEFINE Good(t) == \A y \in t : Sum(f, t) = f[y] + Sum(f, t \ {y})
           Y == {n \in Nat : \A t \in SUBSET S : Cardinality(t) = n => Good(t)}
<1>1. \A t \in SUBSET S : IsFiniteSet(t) /\ Cardinality(t) \in Nat /\ Sum(f, t) \in Int
  BY FS_Subset, FS_CardinalityType, SumType
<1>2. 0 \in Y
  BY <1>1, FS_EmptySet
<1>3. ASSUME NEW n \in Nat, n \in Y PROVE n + 1 \in Y
  <2>1. ASSUME NEW t \in SUBSET S, Cardinality(t) = n + 1, NEW y \in t
        PROVE  Sum(f, t) = f[y] + Sum(f, t \ {y})
    <3>1. PICK p \in t : p = Pick(t)
      BY DEF Pick
    <3>2. \A z \in t : /\ Cardinality(t \ {z}) = n /\ t \ {z} \in SUBSET S
      <4>1. ASSUME NEW z \in t PROVE Cardinality(t \ {z}) = Cardinality(t) - 1
        BY <1>1, FS_RemoveElement
      <4> QED BY <1>3, <2>1, <4>1
    <3>3. Sum(f, t) = f[p] + Sum(f, t \ {p})
      BY <1>1, <3>1, SumSteps
    <3>4. CASE y = p
      BY <3>3, <3>4
    <3>5. CASE y # p
      <4>1. y \in t \ {p} /\ p \in t \ {y} /\ (t \ {p}) \ {y} = (t \ {y}) \ {p}
        BY <3>5
      <4>2. Sum(f, t \ {p}) = f[y] + Sum(f, (t \ {p}) \ {y})
        BY <1>3, <3>2, <4>1
      <4>3. Sum(f, t \ {y}) = f[p] + Sum(f, (t \ {y}) \ {p})
        BY <1>3, <3>2, <4>1
      <4>4. PICK u \in Int : u = Sum(f, (t \ {p}) \ {y}) /\ u = Sum(f, (t \ {y}) \ {p})
        <5>1. (t \ {p}) \ {y} \in SUBSET S
          BY <3>2
        <5> QED BY <1>1, <4>1, <5>1
      <4>5. f[p] + (f[y] + u) = f[y] + (f[p] + u)
        <5>1. f[p] \in Int /\ f[y] \in Int
          OBVIOUS
        <5> QED BY <5>1
      <4> QED BY <3>3, <4>2, <4>3, <4>4, <4>5
    <3> QED BY <3>4, <3>5
  <2> QED BY <2>1
<1>4. \A n \in Nat : n \in Y
  <2> HIDE DEF Y
  <2> QED BY <1>2, <1>3, AllNumbers
<1> QED BY <1>1, <1>4

\* One element more.
LEMMA SumIn ==
  ASSUME NEW S, IsFiniteSet(S), NEW f, NEW x, x \notin S,
         \A y \in S \cup {x} : f[y] \in Int
  PROVE  Sum(f, S \cup {x}) = f[x] + Sum(f, S)
<1>1. IsFiniteSet(S \cup {x}) /\ (S \cup {x}) \ {x} = S
  BY FS_AddElement
<1> QED BY <1>1, SumOut

\* The values of disjoint sets add up.
LEMMA SumParts ==
  ASSUME NEW A, IsFiniteSet(A), NEW B, IsFiniteSet(B), A \cap B = {}, NEW f,
         \A y \in A \cup B : f[y] \in Int
  PROVE  /\ Sum(f, A \cup B) = Sum(f, A) + Sum(f, B)
         /\ Sum(f, A) \in Int /\ Sum(f, B) \in Int /\ IsFiniteSet(A \cup B)
<1> DEFINE Z == {t \in SUBSET B : Sum(f, A \cup t) = Sum(f, A) + Sum(f, t)}
<1>1. Sum(f, A) \in Int /\ Sum(f, B) \in Int /\ IsFiniteSet(A \cup B)
  BY SumType, FS_Union
<1>2. {} \in Z
  <2>1. Sum(f, {}) = 0 /\ A \cup {} = A
    BY SumSteps, FS_EmptySet
  <2> QED BY <1>1, <2>1
<1>3. ASSUME NEW t \in SUBSET B, NEW x \in B, t \in Z, x \notin t
      PROVE  t \cup {x} \in Z
  <2>1. /\ IsFiniteSet(t) /\ IsFiniteSet(A \cup t) /\ Sum(f, t) \in Int /\ f[x] \in Int
        /\ x \notin A \cup t /\ A \cup (t \cup {x}) = (A \cup t) \cup {x}
    BY <1>3, FS_Subset, FS_Union, SumType
  <2>2. Sum(f, t \cup {x}) = f[x] + Sum(f, t)
    BY <1>3, <2>1, SumIn
  <2>3. Sum(f, (A \cup t) \cup {x}) = f[x] + Sum(f, A \cup t)
    BY <2>1, SumIn
  <2>4. Sum(f, A \cup (t \cup {x})) = f[x] + (Sum(f, A) + Sum(f, t))
    BY <1>3, <2>1, <2>3
  <2>5. Sum(f, A \cup (t \cup {x})) = Sum(f, A) + Sum(f, t \cup {x})
    BY <1>1, <2>1, <2>2, <2>4
  <2> QED BY <1>3, <2>5
<1>4. B \in Z
  <2> HIDE DEF Z
  <2> QED BY <1>2, <1>3, AllSubsets
<1> QED BY <1>1, <1>4

\* A sum of more is no less, if nothing is negative.
LEMMA SumGrows ==
  ASSUME NEW B, IsFiniteSet(B), NEW A, A \subseteq B, NEW f, \A y \in B : f[y] \in Nat
  PROVE  Sum(f, A) <= Sum(f, B) /\ Sum(f, A) \in Nat /\ Sum(f, B) \in Nat
<1>1. IsFiniteSet(A) /\ IsFiniteSet(B \ A) /\ A \cup (B \ A) = B /\ A \cap (B \ A) = {}
  BY FS_Subset
<1>2. Sum(f, A) \in Nat /\ Sum(f, B \ A) \in Nat /\ Sum(f, B) \in Nat
  BY <1>1, SumType
<1>3. Sum(f, B) = Sum(f, A) + Sum(f, B \ A)
  BY <1>1, SumParts
<1> QED BY <1>2, <1>3

\* No value is more than the sum.
LEMMA SumHas ==
  ASSUME NEW S, IsFiniteSet(S), NEW f, \A y \in S : f[y] \in Nat, NEW x \in S
  PROVE  f[x] <= Sum(f, S) /\ Sum(f, S) \in Nat
<1>1. PICK R : R = S \ {x}
  OBVIOUS
<1>2. IsFiniteSet(R) /\ \A y \in R : f[y] \in Nat
  BY <1>1, FS_Subset
<1>3. Sum(f, R) \in Nat /\ Sum(f, S) \in Nat
  BY <1>2, SumType
<1>4. Sum(f, S) = f[x] + Sum(f, R)
  BY <1>1, SumOut
<1> QED BY <1>3, <1>4

\* Values that are near multiples have a sum that is near the multiple of the sum.
LEMMA SumNear ==
  ASSUME NEW S, IsFiniteSet(S), NEW f, NEW e, NEW a \in Int, NEW b \in Nat,
         \A x \in S : f[x] \in Int /\ e[x] \in Int,
         \A x \in S : -b <= a * f[x] - e[x] /\ a * f[x] - e[x] <= b
  PROVE  /\ Sum(f, S) \in Int /\ Sum(e, S) \in Int /\ Cardinality(S) \in Nat
         /\ -(b * Cardinality(S)) <= a * Sum(f, S) - Sum(e, S)
         /\ a * Sum(f, S) - Sum(e, S) <= b * Cardinality(S)
<1> DEFINE Good(t) == /\ -(b * Cardinality(t)) <= a * Sum(f, t) - Sum(e, t)
                      /\ a * Sum(f, t) - Sum(e, t) <= b * Cardinality(t)
           Z == {t \in SUBSET S : Good(t)}
<1>0. \A t \in SUBSET S : /\ IsFiniteSet(t) /\ Cardinality(t) \in Nat
                          /\ Sum(f, t) \in Int /\ Sum(e, t) \in Int
  BY FS_Subset, FS_CardinalityType, SumType
<1>1. {} \in Z
  <2>1. Sum(f, {}) = 0 /\ Sum(e, {}) = 0 /\ Cardinality({}) = 0
    BY SumSteps, FS_EmptySet
  <2> QED BY <2>1
<1>2. ASSUME NEW t \in SUBSET S, NEW x \in S, t \in Z, x \notin t PROVE t \cup {x} \in Z
  <2>1. Sum(f, t \cup {x}) = f[x] + Sum(f, t) /\ Sum(e, t \cup {x}) = e[x] + Sum(e, t)
    BY <1>0, <1>2, SumIn
  <2>2. Cardinality(t \cup {x}) = Cardinality(t) + 1
    BY <1>0, <1>2, FS_AddElement
  <2>3. PICK n \in Nat, u \in Int, v \in Int, p \in Int, q \in Int :
           /\ n = Cardinality(t) /\ u = Sum(f, t) /\ v = Sum(e, t) /\ p = f[x] /\ q = e[x]
    BY <1>0
  <2>4. PICK au \in Int, ap \in Int, bn \in Int : au = a * u /\ ap = a * p /\ bn = b * n
    OBVIOUS
  <2>5. a * (p + u) = ap + au /\ b * (n + 1) = bn + b
    BY <2>4
  <2>6. -bn <= au - v /\ au - v <= bn /\ -b <= ap - q /\ ap - q <= b
    BY <1>2, <2>3, <2>4
  <2>7. -(bn + b) <= (ap + au) - (q + v) /\ (ap + au) - (q + v) <= bn + b
    BY <2>6
  <2>8. Good(t \cup {x})
    BY <2>1, <2>2, <2>3, <2>5, <2>7
  <2> QED BY <2>8
<1>3. S \in Z
  <2> HIDE DEF Z
  <2> QED BY <1>1, <1>2, AllSubsets
<1> QED BY <1>0, <1>3

\* A factor of all values is one of the sum.
LEMMA SumTimes ==
  ASSUME NEW S, IsFiniteSet(S), NEW f, NEW e, NEW c \in Int,
         \A x \in S : f[x] \in Int /\ e[x] = c * f[x]
  PROVE  Sum(e, S) = c * Sum(f, S)
<1> DEFINE Z == {t \in SUBSET S : Sum(e, t) = c * Sum(f, t)}
<1>1. {} \in Z
  <2>1. Sum(f, {}) = 0 /\ Sum(e, {}) = 0
    BY SumSteps, FS_EmptySet
  <2> QED BY <2>1
<1>2. ASSUME NEW t \in SUBSET S, NEW x \in S, t \in Z, x \notin t PROVE t \cup {x} \in Z
  <2>1. IsFiniteSet(t) /\ \A y \in t \cup {x} : f[y] \in Int /\ e[y] \in Int
    BY FS_Subset
  <2>2. Sum(f, t \cup {x}) = f[x] + Sum(f, t) /\ Sum(e, t \cup {x}) = e[x] + Sum(e, t)
    BY <1>2, <2>1, SumIn
  <2>3. Sum(f, t) \in Int /\ Sum(e, t) \in Int
    BY <2>1, SumType
  <2>4. PICK u \in Int, v \in Int : u = Sum(f, t) /\ v = f[x]
    BY <2>3
  <2>5. c * (v + u) = c * v + c * u
    OBVIOUS
  <2> QED BY <1>2, <2>2, <2>4, <2>5
<1>3. S \in Z
  <2> HIDE DEF Z
  <2> QED BY <1>1, <1>2, AllSubsets
<1> QED BY <1>3

\* A sum of smaller values is smaller.
LEMMA SumLess ==
  ASSUME NEW S, IsFiniteSet(S), NEW f, NEW e,
         \A x \in S : f[x] \in Int /\ e[x] \in Int /\ e[x] <= f[x]
  PROVE  Sum(e, S) <= Sum(f, S)
<1> DEFINE Z == {t \in SUBSET S : Sum(e, t) <= Sum(f, t)}
<1>1. {} \in Z
  <2>1. Sum(f, {}) = 0 /\ Sum(e, {}) = 0
    BY SumSteps, FS_EmptySet
  <2> QED BY <2>1
<1>2. ASSUME NEW t \in SUBSET S, NEW x \in S, t \in Z, x \notin t PROVE t \cup {x} \in Z
  <2>1. IsFiniteSet(t)
    BY FS_Subset
  <2>2. /\ \A y \in t \cup {x} : f[y] \in Int /\ e[y] \in Int
        /\ \A y \in t : f[y] \in Int /\ e[y] \in Int
    OBVIOUS
  <2>3. Sum(f, t \cup {x}) = f[x] + Sum(f, t) /\ Sum(e, t \cup {x}) = e[x] + Sum(e, t)
    BY <1>2, <2>1, <2>2, SumIn
  <2>4. Sum(f, t) \in Int /\ Sum(e, t) \in Int
    BY <2>1, <2>2, SumType
  <2>5. f[x] \in Int /\ e[x] \in Int /\ e[x] <= f[x] /\ Sum(e, t) <= Sum(f, t)
    BY <1>2
  <2> QED BY <2>3, <2>4, <2>5
<1>3. S \in Z
  <2> HIDE DEF Z
  <2> QED BY <1>1, <1>2, AllSubsets
<1> QED BY <1>3

\* A sum is the sum of the sums of its parts.
LEMMA SumByParts ==
  ASSUME NEW S, IsFiniteSet(S), NEW f, \A x \in S : f[x] \in Int,
         NEW I, IsFiniteSet(I), NEW P,
         \A i \in I : P[i] \in SUBSET S,
         \A i, j \in I : i # j => P[i] \cap P[j] = {},
         \A x \in S : \E i \in I : x \in P[i],
         NEW h, \A i \in I : h[i] = Sum(f, P[i])
  PROVE  Sum(h, I) = Sum(f, S)
<1> DEFINE Part(J) == {x \in S : \E i \in J : x \in P[i]}
           Z == {J \in SUBSET I : Sum(h, J) = Sum(f, Part(J))}
<1>1. \A J : IsFiniteSet(Part(J)) /\ Sum(f, Part(J)) \in Int
  <2>1. \A J : Part(J) \subseteq S
    OBVIOUS
  <2> QED BY <2>1, FS_Subset, SumType
<1>2. \A i \in I : h[i] = Sum(f, Part({i})) /\ h[i] \in Int
  <2>1. ASSUME NEW i \in I PROVE h[i] = Sum(f, Part({i})) /\ h[i] \in Int
    <3>1. P[i] = Part({i})
      OBVIOUS
    <3>2. h[i] = Sum(f, Part({i}))
      BY <3>1
    <3>3. Sum(f, Part({i})) \in Int
      BY <1>1
    <3> QED BY <3>2, <3>3
  <2> QED BY <2>1
<1>3. {} \in Z
  <2>1. Part({}) = {}
    OBVIOUS
  <2> QED BY <2>1, SumSteps, FS_EmptySet
<1>4. ASSUME NEW J \in SUBSET I, NEW i \in I, J \in Z, i \notin J PROVE J \cup {i} \in Z
  <2>1. Part(J \cup {i}) = Part(J) \cup Part({i}) /\ Part(J) \cap Part({i}) = {}
    BY <1>4
  <2>2. Sum(f, Part(J \cup {i})) = Sum(f, Part(J)) + Sum(f, Part({i}))
    <3>1. \A y \in Part(J) \cup Part({i}) : f[y] \in Int
      OBVIOUS
    <3>2. PICK K, L : K = Part(J) /\ L = Part({i})
      OBVIOUS
    <3> HIDE DEF Part
    <3>3. /\ IsFiniteSet(K) /\ IsFiniteSet(L) /\ K \cap L = {}
          /\ \A y \in K \cup L : f[y] \in Int
      BY <1>1, <2>1, <3>1, <3>2
    <3>4. Sum(f, K \cup L) = Sum(f, K) + Sum(f, L)
      BY <3>3, SumParts
    <3> QED BY <2>1, <3>2, <3>4
  <2>3. Sum(h, J \cup {i}) = h[i] + Sum(h, J)
    <3>1. IsFiniteSet(J)
      BY FS_Subset
    <3> QED BY <1>2, <1>4, <3>1, SumIn
  <2> HIDE DEF Part
  <2> QED BY <1>1, <1>2, <1>4, <2>2, <2>3
<1>5. I \in Z
  <2> HIDE DEF Z
  <2> QED BY <1>3, <1>4, AllSubsets
<1>6. Part(I) = S
  OBVIOUS
<1> QED BY <1>5, <1>6
\* A sum of one value over and over.
LEMMA SumConstant ==
  ASSUME NEW S, IsFiniteSet(S), NEW c \in Int, NEW f, \A x \in S : f[x] = c
  PROVE  Sum(f, S) = c * Cardinality(S) /\ Cardinality(S) \in Nat
<1> DEFINE Z == {t \in SUBSET S : Sum(f, t) = c * Cardinality(t)}
<1>1. {} \in Z
  <2>1. Sum(f, {}) = 0 /\ Cardinality({}) = 0
    BY SumSteps, FS_EmptySet
  <2> QED BY <2>1
<1>2. ASSUME NEW t \in SUBSET S, NEW x \in S, t \in Z, x \notin t PROVE t \cup {x} \in Z
  <2>1. IsFiniteSet(t)
    BY FS_Subset
  <2>2. Sum(f, t \cup {x}) = c + Sum(f, t)
    BY <1>2, <2>1, SumIn
  <2>3. Cardinality(t \cup {x}) = Cardinality(t) + 1 /\ Cardinality(t) \in Nat
    BY <1>2, <2>1, FS_AddElement, FS_CardinalityType
  <2>4. PICK n \in Nat : n = Cardinality(t)
    BY <2>3
  <2>5. c + c * n = c * (n + 1)
    OBVIOUS
  <2> QED BY <1>2, <2>2, <2>3, <2>4, <2>5
<1>3. S \in Z
  <2> HIDE DEF Z
  <2> QED BY <1>1, <1>2, AllSubsets
<1> QED BY <1>3, FS_CardinalityType

LEMMA SumNothing ==
  ASSUME NEW S, IsFiniteSet(S), NEW f, \A y \in S : f[y] = 0
  PROVE  Sum(f, S) = 0
BY SumConstant

-----------------------------------------------------------------------------
(* What a survey costs                                                     *)

\* Division with remainder.
LEMMA DivMod ==
  ASSUME NEW n \in Int, NEW d \in Nat \ {0}
  PROVE  \E q \in Int, r \in Nat : q = n \div d /\ r = n % d /\ n = (d * q) + r /\ r < d
<1>1. n \div d \in Int /\ n % d \in 0..(d - 1) /\ n = (d * (n \div d)) + (n % d)
  OBVIOUS
<1> QED BY <1>1

\* A rounded quotient is half a divisor off at most.
LEMMA RoundedIsNear ==
  ASSUME NEW n \in Int, NEW d \in Nat \ {0}
  PROVE  /\ Rounded(n, d) \in Int
         /\ n \in Nat => Rounded(n, d) \in Nat
         /\ -d <= 2 * (d * Rounded(n, d)) - 2 * n
         /\ 2 * (d * Rounded(n, d)) - 2 * n <= d
<1>1. PICK q \in Int, r \in Nat : q = n \div d /\ r = n % d /\ n = (d * q) + r /\ r < d
  BY DivMod
<1>2. PICK p \in Int : p = d * q
  OBVIOUS
<1>3. d * (q + 1) = p + d
  BY <1>2
<1>4. \/ Rounded(n, d) = q + 1 /\ 2 * r >= d
      \/ Rounded(n, d) = q /\ 2 * r <= d
  BY <1>1 DEF Rounded
<1>5. n \in Nat => q \in Nat
  <2>1. SUFFICES ASSUME n \in Nat, q < 0 PROVE FALSE
    BY <1>1
  <2>2. PICK j \in Nat : q = -1 - j
    <3>1. -1 - q \in Nat /\ q = -1 - (-1 - q)
      BY <2>1
    <3> QED BY <3>1
  <2>3. d * q = -d - d * j /\ d * j \in Nat
    BY <2>2
  <2> QED BY <1>1, <2>1, <2>3
<1>6. CASE Rounded(n, d) = q + 1 /\ 2 * r >= d
  <2>1. q + 1 \in Int /\ (n \in Nat => q + 1 \in Nat)
    BY <1>5
  <2> QED BY <1>1, <1>2, <1>3, <1>6, <2>1
<1>7. CASE Rounded(n, d) = q /\ 2 * r <= d
  BY <1>1, <1>2, <1>5, <1>7
<1> QED BY <1>4, <1>6, <1>7

\* So is a quotient, to whichever side the divisor goes.
LEMMA QuotientIsNear ==
  ASSUME NEW n \in Int, NEW d \in Nat \ {0}
  PROVE  /\ Quotient(n, d) \in Int
         /\ n \in Nat => Quotient(n, d) \in Nat
         /\ -d <= 2 * (d * Quotient(n, d)) - 2 * n
         /\ 2 * (d * Quotient(n, d)) - 2 * n <= d
<1>1. Quotient(n, d) = Rounded(n, d)
  BY DEF Quotient
<1> QED BY <1>1, RoundedIsNear

LEMMA QuotientByNegative ==
  ASSUME NEW n \in Int, NEW d \in Int, d < 0
  PROVE  /\ Quotient(n, d) \in Int
         /\ d <= 2 * (d * Quotient(n, d)) - 2 * n
         /\ 2 * (d * Quotient(n, d)) - 2 * n <= -d
<1>1. PICK m \in Int, e \in Nat \ {0} : m = -n /\ e = -d
  OBVIOUS
<1>2. ~(d > 0)
  OBVIOUS
<1>3. Quotient(n, d) = Rounded(m, e)
  BY <1>1, <1>2 DEF Quotient
<1>4. PICK q \in Int : q = Rounded(m, e)
  BY RoundedIsNear
<1>5. -e <= 2 * (e * q) - 2 * m /\ 2 * (e * q) - 2 * m <= e
  BY <1>4, RoundedIsNear
<1>6. e * q = -(d * q)
  BY <1>1
<1> QED BY <1>1, <1>3, <1>4, <1>5, <1>6

\* The days of a survey, from the day it starts to the day it ends; one less is lost
\* where it ends on an earlier day.
LEMMA DaysCount ==
  ASSUME NEW f \in Form
  PROVE  /\ f.start \in Nat /\ f.end \in Nat
         /\ FirstDay(f) \in Nat /\ LastDay(f) \in Nat
         /\ f.start <= f.end => FirstDay(f) <= LastDay(f)
         /\ f.end < f.start => LastDay(f) <= FirstDay(f)
         /\ Days(f) \in Int
         /\ FirstDay(f) <= LastDay(f) => Days(f) = LastDay(f) - FirstDay(f) + 1
         /\ LastDay(f) < FirstDay(f) => Days(f) = LastDay(f) - FirstDay(f) + 2
<1>1. f.start \in Nat /\ f.end \in Nat
  BY FeesAssumption DEF Form, FeesAssumption
<1>2. PICK s \in Nat, e \in Nat : s = f.start /\ e = f.end
  BY <1>1
<1>3. PICK a \in Nat, b \in Nat : a = s \div 24 /\ b = e \div 24
  OBVIOUS
<1>4. (s <= e => a <= b) /\ (e < s => b <= a)
  BY <1>3
<1>5. FirstDay(f) = a /\ LastDay(f) = b
  BY <1>2, <1>3 DEF FirstDay, LastDay
<1>6. Days(f) = Truncated(24 * b + 23 - 24 * a, 24) + 1
  BY <1>5 DEF Days
<1>7. CASE a <= b
  <2>1. 24 * b + 23 - 24 * a >= 0 /\ (24 * b + 23 - 24 * a) \div 24 = b - a
    BY <1>7
  <2>2. Days(f) = b - a + 1
    BY <1>6, <2>1 DEF Truncated
  <2> QED BY <1>1, <1>2, <1>4, <1>5, <1>7, <2>2
<1>8. CASE b < a
  <2>1. /\ ~(24 * b + 23 - 24 * a >= 0)
        /\ -(24 * b + 23 - 24 * a) = 24 * (a - b - 1) + 1
        /\ (24 * (a - b - 1) + 1) \div 24 = a - b - 1
    BY <1>8
  <2>2. Days(f) = b - a + 2
    BY <1>6, <2>1 DEF Truncated
  <2> QED BY <1>1, <1>2, <1>4, <1>5, <1>8, <2>2
<1> QED BY <1>7, <1>8

\* The inductive invariant: what is paid for a survey is its price, of which the
\* profits are a part.
FeesInv ==
    /\ FeesTypeOK
    /\ feePaid => /\ form # NoSurvey /\ paid = TotalPayment(form)
                  /\ profits = DistributeProfit(paid)

\* The amounts of a survey are whole numbers of units.
LEMMA AmountsType ==
  ASSUME NEW f \in Form
  PROVE  /\ RequestFeePerDay(f) \in Nat /\ RequestFee(f) \in Int /\ TotalReward(f) \in Nat
         /\ DistributionFee(f) \in Nat /\ TotalPayment(f) \in Int
<1>1. f.reward \in Nat /\ f.rewardees \in Nat /\ f.multiple \in BOOLEAN /\ f.sots \in SUBSET Sots
  BY FeesAssumption DEF Form, FeesAssumption
<1>2. Cardinality(f.sots) \in Nat
  BY <1>1, FS_Subset, FS_CardinalityType, FeesAssumption DEF FeesAssumption
<1>3. SoM \in Nat /\ 10 * SoM \in Nat
  BY DEF SoM
<1>4. Quotient(10 * SoM, 100) \in Nat
  BY <1>3, QuotientIsNear
<1>5. Days(f) \in Int
  BY DaysCount
<1>6. RequestFeePerDay(f) \in Nat
  BY <1>1, <1>2, <1>3 DEF RequestFeePerDay
<1>7. RequestFee(f) \in Int
  BY <1>5, <1>6 DEF RequestFee
<1>8. f.reward * f.rewardees \in Nat
  BY <1>1
<1>9. TotalReward(f) \in Nat
  BY <1>3, <1>8 DEF TotalReward
<1>10. DistributionFee(f) \in Nat
  <2>1. Quotient(10 * SoM, 100) * f.reward \in Nat
    BY <1>1, <1>4
  <2> QED BY <1>1, <2>1 DEF DistributionFee
<1> QED BY <1>6, <1>7, <1>9, <1>10 DEF TotalPayment

\* Surveys are registered by anybody on any dates, and paid once.
LEMMA FeesInvKept ==
  /\ FeesInit => FeesInv
  /\ FeesInv /\ [FeesNext]_feesVars => FeesInv'
<1>1. ASSUME FeesInit PROVE FeesInv
  <2>1. form = NoSurvey /\ ~feePaid /\ feePaid \in BOOLEAN /\ profits = << >>
    BY <1>1 DEF FeesInit
  <2>2. paid \in Int
    BY <1>1 DEF FeesInit
  <2>3. DOMAIN profits = {}
    BY <2>1
  <2>4. FeesTypeOK
    BY <2>1, <2>2, <2>3 DEF FeesTypeOK
  <2> QED BY <2>1, <2>4 DEF FeesInv
<1>2. ASSUME FeesInv, [FeesNext]_feesVars PROVE FeesInv'
  <2>1. ASSUME NEW f \in Form, RegisterForm(f) \/ RegisterFromAdmin(f) PROVE FeesInv'
    <3>1. feePaid => form # NoSurvey
      BY <1>2 DEF FeesInv
    <3>2. Register(f)
      BY <2>1 DEF RegisterForm, RegisterFromAdmin
    <3>3. ~feePaid'
      BY <3>1, <3>2 DEF Register
    <3>4. FeesTypeOK'
      BY <1>2, <3>2 DEF FeesInv, FeesTypeOK, Register
    <3> QED BY <3>3, <3>4 DEF FeesInv
  <2>2. CASE PayFees
    <3>1. form \in Form
      BY <1>2, <2>2 DEF FeesInv, FeesTypeOK, PayFees
    <3>2. paid' \in Int /\ TotalPayment(form) \in Int
      BY <2>2, <3>1, AmountsType DEF PayFees
    <3>3. /\ DOMAIN profits' = form.sots \ Owned
          /\ \A s \in DOMAIN profits' :
                profits'[s] = Quotient(Quotient(TotalPayment(form), Cardinality(form.sots)), 2)
      BY <2>2 DEF PayFees, DistributeProfit
    <3>4. form.sots \subseteq Sots /\ form.sots # {}
      BY <3>1 DEF Form
    <3>5. Cardinality(form.sots) \in Nat \ {0}
      BY <3>4, FS_Subset, FS_CardinalityType, FS_EmptySet, FeesAssumption DEF FeesAssumption
    <3>6. Quotient(TotalPayment(form), Cardinality(form.sots)) \in Int
      BY <3>2, <3>5, QuotientIsNear
    <3>7. Quotient(Quotient(TotalPayment(form), Cardinality(form.sots)), 2) \in Int
      BY <3>6, QuotientIsNear
    <3>8. form' = form /\ form # NoSurvey /\ feePaid' = TRUE /\ paid' = TotalPayment(form)
          /\ profits' = DistributeProfit(TotalPayment(form))
      BY <2>2 DEF PayFees
    <3>9. paid' = TotalPayment(form)' /\ profits' = DistributeProfit(paid)'
      BY <3>8 DEF TotalPayment, RequestFee, RequestFeePerDay, TotalReward, DistributionFee,
         Days, FirstDay, LastDay, DistributeProfit
    <3>10. FeesTypeOK'
      BY <1>2, <3>2, <3>3, <3>4, <3>7, <3>8 DEF FeesInv, FeesTypeOK
    <3> QED BY <3>8, <3>9, <3>10 DEF FeesInv
  <2>3. CASE UNCHANGED feesVars
    BY <1>2, <2>3 DEF feesVars, FeesInv, FeesTypeOK, TotalPayment, RequestFee,
       RequestFeePerDay, TotalReward, DistributionFee, Days, FirstDay, LastDay,
       DistributeProfit
  <2> QED BY <1>2, <2>1, <2>2, <2>3 DEF FeesNext
<1> QED BY <1>1, <1>2

\* A registered survey has a form.
LEMMA FormIsThere ==
  ASSUME FeesInv, form # NoSurvey
  PROVE  form \in Form
BY DEF FeesInv, FeesTypeOK

\* A survey has a form, a price of whole units, and profits of SOTs it may run on.
THEOREM FeesTypeCorrect == FeesSpec => []FeesTypeOK
<1>1. FeesInv => FeesTypeOK
  BY DEF FeesInv
<1> QED BY <1>1, FeesInvKept, PTL DEF FeesSpec

\* A survey is charged for every calendar day it touches, whatever the hours; and
\* for none or less if and only if it ends two days or more before it starts.
THEOREM FeesDaysAreCalendarDays == FeesSpec => []DaysAreCalendarDays
<1>1. FeesInv => DaysAreCalendarDays
  <2> SUFFICES ASSUME FeesInv, form # NoSurvey PROVE DaysAreCalendarDays
    BY DEF DaysAreCalendarDays
  <2>1. form \in Form
    BY FormIsThere
  <2>2. PICK s \in Nat, e \in Nat : s = form.start /\ e = form.end
    BY <2>1, DaysCount
  <2>3. PICK a \in Nat, b \in Nat : a = s \div 24 /\ b = e \div 24
    OBVIOUS
  <2>4. FirstDay(form) = a /\ LastDay(form) = b
    BY <2>2, <2>3 DEF FirstDay, LastDay
  <2>5. PICK d \in Int : d = Days(form)
    BY <2>1, DaysCount
  <2>6. /\ s <= e => a <= b
        /\ e < s => b <= a
        /\ a <= b => d = b - a + 1
        /\ b < a => d = b - a + 2
    BY <2>1, <2>2, <2>4, <2>5, DaysCount
  <2>7. ASSUME s <= e PROVE Cardinality({h \div 24 : h \in s .. e}) = d
    <3>1. a <= b
      BY <2>6, <2>7
    <3>2. {h \div 24 : h \in s .. e} = a .. b
      <4>1. ASSUME NEW h \in s .. e PROVE h \div 24 \in a .. b
        BY <2>3
      <4>2. ASSUME NEW x \in a .. b PROVE \E h \in s .. e : x = h \div 24
        <5>1. CASE x = a
          BY <2>3, <2>7, <5>1
        <5>2. CASE x > a
          <6>1. 24 * x \in s .. e /\ x = (24 * x) \div 24
            BY <2>3, <5>2
          <6> QED BY <6>1
        <5> QED BY <5>1, <5>2
      <4> QED BY <4>1, <4>2
    <3>3. Cardinality(a .. b) = b - a + 1
      BY <3>1, FS_Interval
    <3> QED BY <2>6, <3>1, <3>2, <3>3
  <2>8. e < s => d <= 1
    BY <2>6
  <2>9. d <= 0 <=> b <= a - 2
    BY <2>6
  <2> QED BY <2>2, <2>4, <2>5, <2>7, <2>8, <2>9 DEF DaysAreCalendarDays
<1> QED BY <1>1, FeesInvKept, PTL DEF FeesSpec

\* An amount per day is off by five units of the last digit a day at most, and so it
\* is if the days are negative.
LEMMA PerDayIsNear ==
  ASSUME NEW f \in Form, NEW amount \in Nat, NEW d \in Nat \ {0},
         Days(f) = d \/ Days(f) = -d
  PROVE  /\ PerDay(amount, f) \in Int
         /\ -5 * d <= PerDay(amount, f) * Days(f) - amount
         /\ PerDay(amount, f) * Days(f) - amount <= 5 * d
<1>1. 10 * d \in Nat \ {0} /\ 10 * (-d) = -(10 * d)
  OBVIOUS
<1>2. CASE Days(f) = d
  <2>1. PICK q \in Int : q = Quotient(amount, 10 * d)
    BY <1>1, QuotientIsNear
  <2>2. /\ -(10 * d) <= 2 * ((10 * d) * q) - 2 * amount
        /\ 2 * ((10 * d) * q) - 2 * amount <= 10 * d
    BY <1>1, <2>1, QuotientIsNear
  <2>3. PICK x \in Int : x = d * q
    OBVIOUS
  <2>4. (10 * d) * q = 10 * x /\ (10 * q) * d = 10 * x
    BY <2>3
  <2> QED BY <1>2, <2>1, <2>2, <2>4 DEF PerDay
<1>3. CASE Days(f) = -d
  <2>1. PICK m \in Int : m = 10 * (-d) /\ m < 0
    OBVIOUS
  <2>2. PICK q \in Int : q = Quotient(amount, m)
    BY <2>1, QuotientByNegative
  <2>3. m <= 2 * (m * q) - 2 * amount /\ 2 * (m * q) - 2 * amount <= -m
    BY <2>1, <2>2, QuotientByNegative
  <2>4. PICK x \in Int : x = d * q
    OBVIOUS
  <2>5. m * q = -(10 * x) /\ (10 * q) * (-d) = -(10 * x)
    BY <2>1, <2>4
  <2>6. PerDay(amount, f) = 10 * q
    BY <1>3, <2>1, <2>2 DEF PerDay
  <2> QED BY <1>3, <2>1, <2>3, <2>5, <2>6
<1> QED BY <1>2, <1>3

\* What the receipt says of a day, times the days, is what is paid but for the
\* rounding, for any reward, number of rewardees, SOTs and hours.
THEOREM FeesReceiptAddsUp == FeesSpec => []ReceiptAddsUp
<1>1. FeesInv => ReceiptAddsUp
  <2> SUFFICES ASSUME FeesInv, form # NoSurvey PROVE ReceiptAddsUp
    BY DEF ReceiptAddsUp
  <2>1. form \in Form
    BY FormIsThere
  <2>2. PICK n \in Int : n = Days(form)
    BY <2>1, DaysCount
  <2>3. n = 0 <=> LastDay(form) = FirstDay(form) - 2
    <3>1. PICK a \in Nat, b \in Nat : a = FirstDay(form) /\ b = LastDay(form)
      BY <2>1, DaysCount
    <3>2. /\ a <= b => n = b - a + 1
          /\ b < a => n = b - a + 2
      BY <2>1, <2>2, <3>1, DaysCount
    <3> QED BY <3>1, <3>2
  <2>4. CASE n = 0
    <3>1. GetSurveyReceipt(form) = NoReceipt
      BY <2>2, <2>4 DEF GetSurveyReceipt
    <3> QED BY <2>3, <2>4, <3>1 DEF ReceiptAddsUp
  <2>5. CASE n # 0
    <3>1. PICK d \in Nat \ {0} : n = d \/ n = -d
      <4>1. n \in Nat \ {0} \/ -n \in Nat \ {0}
        BY <2>5
      <4>2. n = -(-n)
        OBVIOUS
      <4> QED BY <4>1, <4>2
    <3>2. PICK p \in Nat, t \in Nat, c \in Nat :
            p = RequestFeePerDay(form) /\ t = TotalReward(form) /\ c = DistributionFee(form)
      BY <2>1, AmountsType
    <3>3. PICK u \in Int, v \in Int : u = PerDay(t, form) /\ v = PerDay(c, form)
      BY <2>1, <2>2, <3>1, PerDayIsNear
    <3>4. /\ -5 * d <= u * n - t /\ u * n - t <= 5 * d
          /\ -5 * d <= v * n - c /\ v * n - c <= 5 * d
      BY <2>1, <2>2, <3>1, <3>3, PerDayIsNear
    <3>5. (p + u + v) * n = p * n + u * n + v * n
      OBVIOUS
    <3>6. PICK x \in Int, y \in Int, z \in Int : x = p * n /\ y = u * n /\ z = v * n
      OBVIOUS
    <3>7. PICK total \in Int : total = TotalPayment(form)
      BY <2>1, AmountsType
    <3>8. total = x + t + c
      BY <2>2, <3>2, <3>6, <3>7 DEF TotalPayment, RequestFee
    <3>9. /\ -10 * d <= (p + u + v) * n - total
          /\ (p + u + v) * n - total <= 10 * d
      BY <3>4, <3>5, <3>6, <3>8
    <3>10. GetSurveyReceipt(form) = [total |-> total, days |-> n, perDay |-> p + u + v]
      BY <2>2, <2>5, <3>2, <3>3, <3>7 DEF GetSurveyReceipt
    <3>11. GetSurveyReceipt(form) # NoReceipt
      <4>1. "days" \in DOMAIN GetSurveyReceipt(form) /\ "days" \notin DOMAIN NoReceipt
        BY <3>10 DEF NoReceipt
      <4> QED BY <4>1
    <3>12. PICK perDay \in Int : perDay = p + u + v
      OBVIOUS
    <3>13. /\ GetSurveyReceipt(form).total = total /\ GetSurveyReceipt(form).days = n
           /\ GetSurveyReceipt(form).perDay = perDay
      BY <3>10, <3>12
    <3>14. /\ -10 * d <= perDay * n - total
           /\ perDay * n - total <= 10 * d
      BY <3>9, <3>12
    <3>15. \/ -10 * n <= perDay * n - total /\ perDay * n - total <= 10 * n
           \/ 10 * n <= perDay * n - total /\ perDay * n - total <= -10 * n
      <4>1. PICK w \in Int : w = perDay * n - total
        OBVIOUS
      <4>2. -10 * d <= w /\ w <= 10 * d
        BY <3>14, <4>1
      <4>3. \/ -10 * n <= w /\ w <= 10 * n
            \/ 10 * n <= w /\ w <= -10 * n
        BY <3>1, <4>2
      <4> QED BY <4>1, <4>3
    <3> QED BY <2>3, <2>5, <3>11, <3>13, <3>15 DEF ReceiptAddsUp
  <2> QED BY <2>4, <2>5
<1> QED BY <1>1, FeesInvKept, PTL DEF FeesSpec

\* Half of a share of a fee, rounded twice, is near half of the share.
LEMMA HalfIsNear ==
  ASSUME NEW t \in Int, NEW n \in Nat \ {0}
  PROVE  LET half == Quotient(Quotient(t, n), 2)
         IN  /\ half \in Int
             /\ -(2 * n) <= (2 * n) * half - t
             /\ (2 * n) * half - t <= 2 * n
<1>1. PICK q \in Int : q = Quotient(t, n)
  BY QuotientIsNear
<1>2. PICK h \in Int : h = Quotient(q, 2)
  BY QuotientIsNear
<1>3. PICK x \in Int, y \in Int : x = n * q /\ y = n * h
  OBVIOUS
<1>4. -n <= 2 * x - 2 * t /\ 2 * x - 2 * t <= n
  BY <1>1, <1>3, QuotientIsNear
<1>5. -2 <= 2 * (2 * h) - 2 * q /\ 2 * (2 * h) - 2 * q <= 2
  BY <1>2, QuotientIsNear
<1>6. 2 * h = q - 1 \/ 2 * h = q \/ 2 * h = q + 1
  BY <1>5
<1>7. n * (2 * h) = 2 * y /\ n * (q - 1) = x - n /\ n * (q + 1) = x + n /\ (2 * n) * h = 2 * y
  BY <1>3
<1>8. 2 * y = x - n \/ 2 * y = x \/ 2 * y = x + n
  BY <1>3, <1>6, <1>7
<1>9. -(2 * n) <= 2 * y - t /\ 2 * y - t <= 2 * n
  BY <1>4, <1>8
<1> QED BY <1>1, <1>2, <1>7, <1>9

\* The owners of the SOTs get half of the fee for them, but for the rounding, for
\* any number of SOTs and of owners.
THEOREM FeesProfitsAreHalf == FeesSpec => []ProfitsAreHalf
<1>1. FeesInv => ProfitsAreHalf
  <2> SUFFICES ASSUME FeesInv, feePaid PROVE ProfitsAreHalf
    BY DEF ProfitsAreHalf
  <2>1. form \in Form /\ paid = TotalPayment(form) /\ profits = DistributeProfit(paid)
    BY FormIsThere DEF FeesInv
  <2>2. PICK t \in Int : t = paid
    BY DEF FeesInv, FeesTypeOK
  <2>3. PICK owners : owners = form.sots \ Owned
    OBVIOUS
  <2>4. form.sots \subseteq Sots /\ form.sots # {} /\ owners \subseteq Sots
    BY <2>1, <2>3 DEF Form
  <2>5. IsFiniteSet(form.sots) /\ IsFiniteSet(owners)
    BY <2>4, FS_Subset, FeesAssumption DEF FeesAssumption
  <2>6. PICK n \in Nat \ {0} : n = Cardinality(form.sots)
    BY <2>4, <2>5, FS_CardinalityType, FS_EmptySet
  <2>7. PICK half \in Int : half = Quotient(Quotient(t, n), 2)
    BY HalfIsNear
  <2>8. DOMAIN profits = owners /\ \A s \in owners : profits[s] = half
    BY <2>1, <2>2, <2>3, <2>6, <2>7 DEF DistributeProfit
  <2>9. PICK k \in Nat : k = Cardinality(owners) /\ Sum(profits, owners) = half * k
    BY <2>5, <2>8, SumConstant
  <2>10. PICK x \in Int : x = (2 * n) * half
    OBVIOUS
  <2>11. -(2 * n) <= x - t /\ x - t <= 2 * n
    BY <2>7, <2>10, HalfIsNear
  <2>12. (2 * n) * (half * k) = x * k
    BY <2>10
  <2>13. (-(2 * n)) * k <= (x - t) * k /\ (x - t) * k <= (2 * n) * k
    BY <2>11
  <2>14. (x - t) * k = x * k - t * k /\ (-(2 * n)) * k = -((2 * n) * k)
    OBVIOUS
  <2>15. /\ -((2 * n) * k) <= (2 * n) * Sum(profits, owners) - t * k
         /\ (2 * n) * Sum(profits, owners) - t * k <= (2 * n) * k
    BY <2>9, <2>12, <2>13, <2>14
  <2>16. MapThenSumSet(LAMBDA s : profits[s], owners) = Sum(profits, owners)
    BY DEF Sum
  <2> QED BY <2>2, <2>3, <2>6, <2>8, <2>9, <2>15, <2>16 DEF ProfitsAreHalf
<1> QED BY <1>1, FeesInvKept, PTL DEF FeesSpec

\* All of it, for any hours, SOTs and amounts.
THEOREM FeesKept == FeesSpec => []FeesSound
<1> QED BY FeesTypeCorrect, FeesDaysAreCalendarDays, FeesReceiptAddsUp,
           FeesProfitsAreHalf, PTL DEF FeesSound

-----------------------------------------------------------------------------
(* The charts of a survey                                                  *)

\* The kinds of participants there are any of, and how many are in a set.
Cast(w)       == {v \in Vote : w[v] > 0}
CountOf(w, S) == Sum(w, {v \in S : w[v] > 0})
Tally(w)      == w \in [Vote -> Nat] /\ IsFiniteSet(Cast(w))

LEMMA CountIs == \A S : Count(S) = CountOf(votes, S)
BY DEF Count, CountOf, Sum

LEMMA NextCountIs == Count(Vote)' = CountOf(votes', Vote)
BY DEF Count, CountOf, Sum, MapThenSumSet, MapThenFoldSet

\* Numbers of participants: those of more kinds are no fewer, disjoint sets add
\* up, and there is a number where there is somebody.
LEMMA CountType ==
  ASSUME NEW w, Tally(w), NEW S \in SUBSET Vote
  PROVE  /\ IsFiniteSet({v \in S : w[v] > 0}) /\ {v \in S : w[v] > 0} \subseteq Cast(w)
         /\ CountOf(w, S) \in Nat
         /\ CountOf(w, S) > 0 <=> \E v \in S : w[v] > 0
<1>1. PICK R : R = {v \in S : w[v] > 0}
  OBVIOUS
<1>2. IsFiniteSet(R) /\ R \subseteq Cast(w)
  <2>1. R \in SUBSET Cast(w)
    BY <1>1 DEF Cast
  <2> QED BY <2>1, FS_Subset DEF Tally
<1>3. \A v \in R : w[v] \in Nat /\ w[v] > 0
  BY <1>1 DEF Tally
<1>4. CountOf(w, S) = Sum(w, R)
  BY <1>1 DEF CountOf
<1>5. Sum(w, R) \in Nat
  BY <1>2, <1>3, SumType
<1>6. ASSUME NEW v \in R PROVE Sum(w, R) > 0
  <2>1. w[v] <= Sum(w, R) /\ w[v] \in Nat /\ w[v] > 0
    BY <1>2, <1>3, SumHas
  <2> QED BY <1>5, <2>1
<1>7. R = {} => Sum(w, R) = 0
  BY <1>2, SumSteps
<1>8. Sum(w, R) > 0 <=> R # {}
  BY <1>5, <1>6, <1>7
<1> QED BY <1>1, <1>2, <1>4, <1>5, <1>8

LEMMA CountGrows ==
  ASSUME NEW w, Tally(w), NEW S \in SUBSET Vote, NEW T \in SUBSET S
  PROVE  CountOf(w, T) <= CountOf(w, S)
<1>1. PICK R, Q : R = {v \in S : w[v] > 0} /\ Q = {v \in T : w[v] > 0}
  OBVIOUS
<1>2. Q \subseteq R /\ \A v \in R : w[v] \in Nat
  BY <1>1 DEF Tally
<1>3. IsFiniteSet(R)
  BY <1>1, CountType
<1> QED BY <1>1, <1>2, <1>3, SumGrows DEF CountOf

LEMMA CountParts ==
  ASSUME NEW w, Tally(w), NEW S \in SUBSET Vote, NEW T \in SUBSET Vote, S \cap T = {}
  PROVE  CountOf(w, S \cup T) = CountOf(w, S) + CountOf(w, T)
<1>1. PICK R, Q : R = {v \in S : w[v] > 0} /\ Q = {v \in T : w[v] > 0}
  OBVIOUS
<1>2. R \cap Q = {} /\ R \cup Q = {v \in S \cup T : w[v] > 0}
  BY <1>1
<1>3. \A v \in R \cup Q : w[v] \in Int
  BY <1>1 DEF Tally
<1>4. IsFiniteSet(R) /\ IsFiniteSet(Q)
  BY <1>1, CountType
<1>5. Sum(w, R \cup Q) = Sum(w, R) + Sum(w, Q)
  BY <1>2, <1>3, <1>4, SumParts
<1> QED BY <1>1, <1>2, <1>5 DEF CountOf

\* Every participant chose one of the options.
LEMMA CountByOption ==
  ASSUME NEW w, Tally(w), NEW T \in SUBSET Vote, NEW h,
         \A o \in Options : h[o] = CountOf(w, For(o) \cap T)
  PROVE  Sum(h, Options) = CountOf(w, T)
<1>1. PICK R : R = {v \in T : w[v] > 0}
  OBVIOUS
<1>2. IsFiniteSet(R) /\ \A v \in R : w[v] \in Int /\ v \in Vote /\ v.option \in Options
  <2>1. IsFiniteSet(R)
    BY <1>1, CountType
  <2>2. \A v \in R : v \in Vote /\ w[v] \in Int
    BY <1>1 DEF Tally
  <2>3. \A v \in Vote : v.option \in Options
    BY DEF Vote
  <2> QED BY <2>1, <2>2, <2>3
<1>3. PICK P : P = [o \in Options |-> {v \in R : v.option = o}]
  OBVIOUS
<1>4. \A o \in Options : h[o] = Sum(w, P[o])
  <2>1. ASSUME NEW o \in Options PROVE h[o] = Sum(w, P[o])
    <3>1. {v \in For(o) \cap T : w[v] > 0} = P[o]
      BY <1>1, <1>2, <1>3 DEF For
    <3> QED BY <3>1 DEF CountOf
  <2> QED BY <2>1
<1>5. /\ \A o \in Options : P[o] \in SUBSET R
      /\ \A o, p \in Options : o # p => P[o] \cap P[p] = {}
      /\ \A v \in R : \E o \in Options : v \in P[o]
  BY <1>2, <1>3
<1>6. IsFiniteSet(Options)
  BY ChartsAssumption DEF ChartsAssumption
<1>7. Sum(h, Options) = Sum(w, R)
  BY <1>2, <1>4, <1>5, <1>6, SumByParts
<1> QED BY <1>1, <1>7 DEF CountOf

\* One participant more.
LEMMA CountAdds ==
  ASSUME NEW w, Tally(w), NEW v \in Vote, NEW u, u = [w EXCEPT ![v] = @ + 1]
  PROVE  Tally(u) /\ CountOf(u, Vote) = CountOf(w, Vote) + 1
<1>1. u \in [Vote -> Nat] /\ u[v] = w[v] + 1 /\ w[v] \in Nat
      /\ \A x \in Vote \ {v} : u[x] = w[x]
  BY DEF Tally
<1>2. PICK R, Q : R = Cast(w) \ {v} /\ Q = Cast(u)
  OBVIOUS
<1>3. Q = R \cup {v} /\ v \notin R
  BY <1>1, <1>2 DEF Cast
<1>4. IsFiniteSet(Cast(w)) /\ R \in SUBSET Cast(w)
  BY <1>2 DEF Tally
<1>5. IsFiniteSet(R)
  BY <1>4, FS_Subset
<1>6. IsFiniteSet(Q)
  BY <1>3, <1>5, FS_AddElement
<1>7. \A x \in R : w[x] \in Int /\ u[x] = w[x]
  BY <1>1, <1>2 DEF Cast, Tally
<1>8. Sum(u, Q) = u[v] + Sum(u, R)
  <2>1. \A y \in R \cup {v} : u[y] \in Int
    BY <1>1, <1>7
  <2>2. Sum(u, R \cup {v}) = u[v] + Sum(u, R)
    BY <1>3, <1>5, <2>1, SumIn
  <2> QED BY <1>3, <2>2
<1>9. Sum(u, R) = Sum(w, R) /\ Sum(w, R) \in Int
  BY <1>5, <1>7, SumSame, SumType
<1>10. Sum(w, Cast(w)) = w[v] + Sum(w, R)
  <2>1. CASE v \in Cast(w)
    <3>1. \A x \in Cast(w) : w[x] \in Int
      BY DEF Cast, Tally
    <3> QED BY <1>2, <1>4, <2>1, <3>1, SumOut
  <2>2. CASE v \notin Cast(w)
    <3>1. w[v] = 0 /\ R = Cast(w)
      BY <1>1, <1>2, <2>2 DEF Cast
    <3> QED BY <1>9, <3>1
  <2> QED BY <2>1, <2>2
<1>11. CountOf(u, Vote) = Sum(u, Q) /\ CountOf(w, Vote) = Sum(w, Cast(w))
  BY <1>2 DEF CountOf, Cast
<1>12. PICK a \in Nat, b \in Int : a = w[v] /\ b = Sum(w, R)
  BY <1>1, <1>9
<1> QED BY <1>1, <1>2, <1>6, <1>8, <1>9, <1>10, <1>11, <1>12 DEF Tally

\* The inductive invariant: there are finitely many kinds of participants.
ChartsInv == ChartsTypeOK /\ IsFiniteSet(Cast(votes))

LEMMA ChartsTally == ChartsInv => Tally(votes)
BY ChartsAssumption DEF ChartsInv, ChartsTypeOK, Tally, ChartsAssumption

LEMMA ChartsInvKept ==
  /\ ChartsInit => ChartsInv
  /\ ChartsInv /\ [ChartsNext]_votes => ChartsInv'
<1>1. ASSUME ChartsInit PROVE ChartsInv
  <2>1. votes \in [Vote -> 0..MaxVotes] /\ Cast(votes) = {} /\ {v \in Vote : votes[v] > 0} = {}
    BY <1>1, ChartsAssumption DEF ChartsInit, Cast, ChartsAssumption
  <2>2. IsFiniteSet({}) /\ Sum(votes, {}) = 0
    BY FS_EmptySet, SumSteps
  <2>3. Count(Vote) = 0
    BY <2>1, <2>2, CountIs DEF CountOf
  <2> QED BY <2>1, <2>2, <2>3, ChartsAssumption DEF ChartsInv, ChartsTypeOK, ChartsAssumption
<1>2. ASSUME ChartsInv, [ChartsNext]_votes PROVE ChartsInv'
  <2>1. ASSUME NEW v \in Vote, Participate(v) PROVE ChartsInv'
    <3>1. Tally(votes) /\ CountOf(votes, Vote) < MaxVotes /\ CountOf(votes, Vote) \in Nat
      BY <1>2, <2>1, ChartsTally, CountIs, CountType DEF Participate
    <3>2. PICK u : u = [votes EXCEPT ![v] = @ + 1] /\ u = votes'
      BY <2>1 DEF Participate
    <3>3. Tally(u) /\ CountOf(u, Vote) = CountOf(votes, Vote) + 1
      BY <3>1, <3>2, CountAdds
    <3>4. CountOf(u, Vote) <= MaxVotes
      BY <3>1, <3>3, ChartsAssumption DEF ChartsAssumption
    <3>5. ASSUME NEW x \in Vote PROVE u[x] \in 0..MaxVotes
      <4>1. u[x] \in Nat /\ CountOf(u, Vote) \in Nat
        BY <3>3, CountType DEF Tally
      <4>2. u[x] <= CountOf(u, Vote)
        <5>1. CASE u[x] > 0
          <6>1. CountOf(u, Vote) = Sum(u, Cast(u)) /\ x \in Cast(u) /\ IsFiniteSet(Cast(u))
                /\ \A y \in Cast(u) : u[y] \in Nat
            BY <3>3, <5>1 DEF CountOf, Cast, Tally
          <6> QED BY <6>1, SumHas
        <5> QED BY <4>1, <5>1
      <4> QED BY <3>4, <4>1, <4>2, ChartsAssumption DEF ChartsAssumption
    <3>6. u \in [Vote -> 0..MaxVotes] /\ IsFiniteSet(Cast(u))
      BY <3>3, <3>5 DEF Tally
    <3>7. Count(Vote)' = CountOf(u, Vote) /\ Cast(votes)' = Cast(u)
      BY <3>2, NextCountIs DEF Cast
    <3> QED BY <3>2, <3>4, <3>6, <3>7 DEF ChartsInv, ChartsTypeOK
  <2>2. CASE UNCHANGED votes
    <3>1. Count(Vote)' = Count(Vote) /\ Cast(votes)' = Cast(votes)
      BY <2>2, CountIs, NextCountIs DEF Cast
    <3> QED BY <1>2, <2>2, <3>1 DEF ChartsInv, ChartsTypeOK
  <2> QED BY <1>2, <2>1, <2>2 DEF ChartsNext
<1> QED BY <1>1, <1>2

\* Participants are counted in numbers, and no more of them than there are.
THEOREM ChartsTypeCorrect == ChartsSpec => []ChartsTypeOK
<1>1. ChartsInv => ChartsTypeOK
  BY DEF ChartsInv
<1> QED BY <1>1, ChartsInvKept, PTL DEF ChartsSpec

\* A share is a rounded quotient; of nothing it is nothing, and it is more than
\* nothing where one vote does not vanish.
LEMMA ShareIsNear ==
  ASSUME NEW n \in Nat, NEW k \in Nat \ {0}
  PROVE  /\ Share(n, k) \in Nat
         /\ -k <= (2 * k) * Share(n, k) - 20000 * n
         /\ (2 * k) * Share(n, k) - 20000 * n <= k
         /\ n = 0 => Share(n, k) = 0
         /\ n > 0 /\ k < 20000 => Share(n, k) > 0
<1>1. 10000 * n \in Nat /\ Share(n, k) = Rounded(10000 * n, k)
  BY DEF Share
<1>2. PICK s \in Nat : s = Share(n, k)
  BY <1>1, RoundedIsNear
<1>3. PICK x \in Nat : x = k * s
  OBVIOUS
<1>4. -k <= 2 * x - 2 * (10000 * n) /\ 2 * x - 2 * (10000 * n) <= k
  BY <1>1, <1>2, <1>3, RoundedIsNear
<1>5. (2 * k) * s = 2 * x
  BY <1>3
<1>6. -k <= 2 * x - 20000 * n /\ 2 * x - 20000 * n <= k
  BY <1>4
<1>7. n = 0 => s = 0
  <2>1. SUFFICES ASSUME n = 0 PROVE s = 0
    OBVIOUS
  <2>2. 10000 * n = 0 /\ 0 \div k = 0 /\ 0 % k = 0
    BY <2>1
  <2>3. Rounded(0, k) = 0
    BY <2>2 DEF Rounded
  <2> QED BY <1>1, <1>2, <2>2, <2>3
<1>8. ASSUME n > 0, k < 20000 PROVE s > 0
  <2>1. SUFFICES ASSUME s = 0 PROVE FALSE
    BY <1>2
  <2>2. x = 0
    BY <1>3, <2>1
  <2> QED BY <1>6, <1>8, <2>2
<1> QED BY <1>2, <1>5, <1>6, <1>7, <1>8

LEMMA ShareType ==
  ASSUME NEW n \in Nat, NEW k \in Nat
  PROVE  /\ Share(n, k) \in Nat
         /\ Share(n, k) > 0 => n > 0
         /\ n > 0 /\ n <= k /\ k < 20000 => Share(n, k) > 0
<1>1. CASE k = 0
  BY <1>1 DEF Share
<1>2. CASE k > 0
  BY <1>2, ShareIsNear
<1> QED BY <1>1, <1>2

\* More votes are no smaller a share.
LEMMA RoundedGrows ==
  ASSUME NEW n \in Int, NEW m \in Int, n <= m, NEW d \in Nat \ {0}
  PROVE  Rounded(n, d) <= Rounded(m, d)
<1>1. PICK q \in Int, r \in Nat : q = n \div d /\ r = n % d /\ n = (d * q) + r /\ r < d
  BY DivMod
<1>2. PICK p \in Int, s \in Nat : p = m \div d /\ s = m % d /\ m = (d * p) + s /\ s < d
  BY DivMod
<1>3. q <= p
  <2>1. SUFFICES ASSUME q > p PROVE FALSE
    BY <1>1, <1>2
  <2>2. PICK j \in Nat : q = p + 1 + j
    <3>1. q - p - 1 \in Nat /\ q = p + 1 + (q - p - 1)
      BY <2>1
    <3> QED BY <3>1
  <2>3. d * q = d * p + d + d * j /\ d * j \in Nat /\ d * p \in Int
    BY <2>2
  <2> QED BY <1>1, <1>2, <2>3
<1>4. q = p => r <= s
  BY <1>1, <1>2
<1>5. Rounded(n, d) = IF 2 * r > d \/ (2 * r = d /\ q % 2 = 1) THEN q + 1 ELSE q
  BY <1>1 DEF Rounded
<1>6. Rounded(m, d) = IF 2 * s > d \/ (2 * s = d /\ p % 2 = 1) THEN p + 1 ELSE p
  BY <1>2 DEF Rounded
<1>7. CASE q = p
  BY <1>4, <1>5, <1>6, <1>7
<1>8. CASE q < p
  BY <1>5, <1>6, <1>8
<1> QED BY <1>3, <1>7, <1>8

\* Divided by a number that is not zero.
LEMMA Cancel ==
  ASSUME NEW k \in Nat \ {0}, NEW x \in Int, NEW y \in Int, k * x <= k * y
  PROVE  x <= y
<1>1. SUFFICES ASSUME x > y PROVE FALSE
  OBVIOUS
<1>2. PICK j \in Nat : x = y + 1 + j
  <2>1. x - y - 1 \in Nat /\ x = y + 1 + (x - y - 1)
    BY <1>1
  <2> QED BY <2>1
<1>3. k * x = k * y + k + k * j /\ k * j \in Nat /\ k * y \in Int
  BY <1>2
<1> QED BY <1>3

\* The shares of two parts make up a whole.
LEMMA TwoShares ==
  ASSUME NEW m \in Nat, NEW f \in Nat, NEW k \in Nat, k = m + f
  PROVE  Whole(Share(m, k) + Share(f, k), 2, k > 0)
<1>1. CASE k = 0
  BY <1>1 DEF Whole, Share
<1>2. CASE k > 0
  <2>1. k \in Nat \ {0}
    BY <1>2
  <2>2. PICK s, t : s = Share(m, k) /\ t = Share(f, k)
    OBVIOUS
  <2>0. s \in Nat /\ t \in Nat
    BY <2>1, <2>2, ShareIsNear
  <2>3. PICK x \in Nat, y \in Nat : x = (2 * k) * s /\ y = (2 * k) * t
    BY <2>0
  <2>4. /\ -k <= x - 20000 * m /\ x - 20000 * m <= k
        /\ -k <= y - 20000 * f /\ y - 20000 * f <= k
    BY <2>1, <2>2, <2>3, ShareIsNear
  <2>5. (2 * k) * (s + t) = x + y /\ (2 * k) * 10000 = 20000 * k
    BY <2>3, <2>0
  <2>6. -(2 * k) <= (x + y) - 20000 * k /\ (x + y) - 20000 * k <= 2 * k
    BY <2>4
  <2>7. (2 * k) * (s + t) <= (2 * k) * 10001 /\ (2 * k) * 9999 <= (2 * k) * (s + t)
    BY <2>5, <2>6, <2>0
  <2>8. 2 * k \in Nat \ {0} /\ s + t \in Int
    BY <2>1, <2>0
  <2>9. s + t <= 10001 /\ 9999 <= s + t
    BY <2>7, <2>8, Cancel
  <2> QED BY <1>2, <2>2, <2>9, <2>0 DEF Whole
<1> QED BY <1>1, <1>2

Scaled(c, h, S) == [x \in S |-> c * h[x]]

\* The shares of the options make up a whole.
LEMMA OptionShares ==
  ASSUME NEW w, Tally(w), NEW T \in SUBSET Vote, NEW s,
         \A o \in Options : s[o] = Share(CountOf(w, For(o) \cap T), CountOf(w, T))
  PROVE  Whole(Sum(s, Options), Cardinality(Options), CountOf(w, T) > 0)
<1>1. PICK k \in Nat : k = CountOf(w, T)
  BY CountType
<1>2. IsFiniteSet(Options) /\ Cardinality(Options) \in Nat
  BY FS_CardinalityType, ChartsAssumption DEF ChartsAssumption
<1>3. PICK h : h = [o \in Options |-> CountOf(w, For(o) \cap T)]
  OBVIOUS
<1>4. \A o \in Options : h[o] \in Nat /\ s[o] = Share(h[o], k)
  <2>1. \A o \in Options : For(o) \cap T \in SUBSET Vote
    OBVIOUS
  <2>2. \A o \in Options : CountOf(w, For(o) \cap T) \in Nat
    BY <2>1, CountType
  <2> QED BY <1>1, <1>3, <2>2
<1>5. Sum(h, Options) = k
  BY <1>1, <1>3, CountByOption
<1>6. CASE k = 0
  <2>1. \A o \in Options : s[o] = 0
    BY <1>4, <1>6 DEF Share
  <2> QED BY <1>1, <1>2, <1>6, <2>1, SumNothing DEF Whole
<1>7. CASE k > 0
  <2>1. k \in Nat \ {0} /\ 2 * k \in Int
    BY <1>7
  <2>2. PICK e : e = Scaled(20000, h, Options)
    OBVIOUS
  <2>11. \A o \in Options : e[o] = 20000 * h[o]
    BY <2>2 DEF Scaled
  <2>0. ASSUME NEW o \in Options
        PROVE  /\ s[o] \in Int /\ h[o] \in Int /\ e[o] \in Int
               /\ -k <= (2 * k) * s[o] - e[o] /\ (2 * k) * s[o] - e[o] <= k
    <3>1. PICK c \in Nat : c = h[o] /\ s[o] = Share(c, k) /\ e[o] = 20000 * c
      BY <1>4, <2>11
    <3>2. PICK d : d = Share(c, k)
      OBVIOUS
    <3>3. d \in Nat /\ -k <= (2 * k) * d - 20000 * c /\ (2 * k) * d - 20000 * c <= k
      BY <2>1, <3>2, ShareIsNear
    <3>4. s[o] = d /\ h[o] = c /\ 20000 * c \in Int
      BY <3>1, <3>2
    <3> QED BY <3>1, <3>3, <3>4
  <2>3. \A o \in Options : s[o] \in Int /\ h[o] \in Int /\ e[o] \in Int
    BY <2>0
  <2>4. \A o \in Options : -k <= (2 * k) * s[o] - e[o] /\ (2 * k) * s[o] - e[o] <= k
    BY <2>0
  <2>5. PICK n \in Nat, a \in Int, b \in Int :
           n = Cardinality(Options) /\ a = Sum(s, Options) /\ b = Sum(e, Options)
    BY <1>2, <2>3, SumType
  <2>6. -(k * n) <= (2 * k) * a - b /\ (2 * k) * a - b <= k * n
    BY <1>2, <2>1, <2>3, <2>4, <2>5, SumNear
  <2>7. b = 20000 * k
    <3>1. \A o \in Options : h[o] \in Int /\ e[o] = 20000 * h[o]
      BY <1>4, <2>11
    <3>2. Sum(e, Options) = 20000 * Sum(h, Options)
      BY <1>2, <3>1, SumTimes
    <3> QED BY <1>5, <2>5, <3>2
  <2>8. k * (2 * a) = (2 * k) * a /\ k * (20000 + n) = 20000 * k + k * n
        /\ k * (20000 - n) = 20000 * k - k * n
    OBVIOUS
  <2>9. k * (2 * a) <= k * (20000 + n) /\ k * (20000 - n) <= k * (2 * a)
    BY <2>6, <2>7, <2>8
  <2>10. 2 * a <= 20000 + n /\ 20000 - n <= 2 * a
    BY <2>1, <2>9, Cancel
  <2> QED BY <1>1, <1>7, <2>5, <2>10 DEF Whole
<1> QED BY <1>1, <1>6, <1>7

\* Sets of participants, by option and gender.
LEMMA VoteSets ==
  \A o \in Options :
    LET known == For(o) \ By(NoGender)
    IN  /\ For(o) \in SUBSET Vote /\ known \in SUBSET Vote
        /\ For(o) \cap Vote = For(o)
        /\ \A I \in SUBSET known :
            /\ I = (I \cap By("male")) \cup (I \cap By("female"))
            /\ (I \cap By("male")) \cap (I \cap By("female")) = {}
<1> SUFFICES ASSUME NEW o \in Options
             PROVE  LET known == For(o) \ By(NoGender)
                    IN  /\ For(o) \in SUBSET Vote /\ known \in SUBSET Vote
                        /\ For(o) \cap Vote = For(o)
                        /\ \A I \in SUBSET known :
                            /\ I = (I \cap By("male")) \cup (I \cap By("female"))
                            /\ (I \cap By("male")) \cap (I \cap By("female")) = {}
  OBVIOUS
<1> DEFINE known == For(o) \ By(NoGender)
<1>1. For(o) \in SUBSET Vote /\ known \in SUBSET Vote /\ For(o) \cap Vote = For(o)
  BY DEF For
<1>2. \A v \in Vote : v.gender \in {"male", "female", NoGender}
  BY DEF Vote
<1>3. \A v \in known : v.gender = "male" \/ v.gender = "female"
  BY <1>1, <1>2 DEF By
<1>4. "male" # "female"
  OBVIOUS
<1>5. ASSUME NEW I \in SUBSET known
      PROVE  /\ I = (I \cap By("male")) \cup (I \cap By("female"))
             /\ (I \cap By("male")) \cap (I \cap By("female")) = {}
  BY <1>1, <1>3, <1>4 DEF By
<1> QED BY <1>1, <1>5

\* In a set of participants of known gender two shares make up a whole.
LEMMA GenderShares ==
  ASSUME NEW w, Tally(w), NEW o \in Options, NEW I \in SUBSET (For(o) \ By(NoGender))
  PROVE  LET male   == Share(CountOf(w, I \cap By("male")), CountOf(w, I))
             female == Share(CountOf(w, I \cap By("female")), CountOf(w, I))
         IN  /\ Whole(male + female, 2, CountOf(w, I) > 0)
             /\ male + female > 0 <=> \E v \in I : w[v] > 0
<1>1. PICK M, F : M = I \cap By("male") /\ F = I \cap By("female")
  OBVIOUS
<1>2. I \in SUBSET Vote /\ M \in SUBSET Vote /\ F \in SUBSET Vote
  BY <1>1, VoteSets
<1>3. I = M \cup F /\ M \cap F = {}
  BY <1>1, VoteSets
<1>4. PICK m \in Nat, f \in Nat, k \in Nat :
         m = CountOf(w, M) /\ f = CountOf(w, F) /\ k = CountOf(w, I)
  BY <1>2, CountType
<1>5. k = m + f /\ (k > 0 <=> \E v \in I : w[v] > 0)
  BY <1>2, <1>3, <1>4, CountType, CountParts
<1>6. Whole(Share(m, k) + Share(f, k), 2, k > 0)
  BY <1>5, TwoShares
<1>7. k > 0 => Share(m, k) + Share(f, k) > 0
  <2>1. PICK s \in Nat : s = Share(m, k)
    BY ShareType
  <2>2. PICK t \in Nat : t = Share(f, k)
    BY ShareType
  <2>3. Whole(s + t, 2, k > 0)
    BY <1>6, <2>1, <2>2
  <2> QED BY <2>1, <2>2, <2>3 DEF Whole
<1>8. k = 0 => Share(m, k) + Share(f, k) = 0
  BY <1>6 DEF Whole
<1>9. Share(m, k) + Share(f, k) > 0 <=> \E v \in I : w[v] > 0
  BY <1>5, <1>7, <1>8
<1> QED BY <1>1, <1>4, <1>6, <1>9

\* The four charts, in these terms.
LEMMA ParticipationIs ==
  ASSUME ChartsInv
  PROVE  /\ DOMAIN ParticipationChart = Options
         /\ \A o \in Options :
              ParticipationChart[o] = Share(CountOf(votes, For(o)), CountOf(votes, Vote))
<1>1. DOMAIN ParticipationChart = Options
  BY DEF ParticipationChart
<1>2. ASSUME NEW o \in Options
      PROVE  ParticipationChart[o] = Share(CountOf(votes, For(o)), CountOf(votes, Vote))
  <2>1. PICK n \in Nat, k \in Nat : n = CountOf(votes, For(o)) /\ k = CountOf(votes, Vote)
    BY ChartsTally, VoteSets, CountType
  <2>2. ParticipationChart[o] = IF n > 0 THEN Share(n, k) ELSE 0
    BY <2>1, CountIs DEF ParticipationChart, ChosenOptions
  <2>3. Share(0, k) = 0
    <3>1. CASE k = 0
      BY <3>1 DEF Share
    <3>2. CASE k > 0
      BY <3>2, ShareIsNear
    <3> QED BY <3>1, <3>2
  <2> QED BY <2>1, <2>2, <2>3
<1> QED BY <1>1, <1>2

LEMMA GenderIs ==
  ASSUME ChartsInv, NEW o \in Options
  PROVE  LET known == For(o) \ By(NoGender)
         IN  /\ GenderChart[o].male
                  = Share(CountOf(votes, known \cap By("male")), CountOf(votes, known))
             /\ GenderChart[o].female
                  = Share(CountOf(votes, known \cap By("female")), CountOf(votes, known))
<1>1. PICK known : known = For(o) \ By(NoGender)
  OBVIOUS
<1>2. known \cap By("male") = For(o) \cap By("male")
      /\ known \cap By("female") = For(o) \cap By("female")
  BY <1>1 DEF By, NoGender
<1>3. CASE o \in ChosenOptions
  BY <1>1, <1>2, <1>3, CountIs DEF GenderChart
<1>4. CASE o \notin ChosenOptions
  <2>1. GenderChart[o].male = 0 /\ GenderChart[o].female = 0
    BY <1>4 DEF GenderChart
  <2>2. CountOf(votes, known) = 0
    <3>1. CountOf(votes, For(o)) \in Nat /\ ~(CountOf(votes, For(o)) > 0)
      BY <1>4, ChartsTally, VoteSets, CountType, CountIs DEF ChosenOptions
    <3>2. For(o) \in SUBSET Vote /\ known \in SUBSET For(o) /\ known \in SUBSET Vote
      BY <1>1, VoteSets
    <3>3. CountOf(votes, known) \in Nat /\ CountOf(votes, known) <= CountOf(votes, For(o))
      BY <3>2, ChartsTally, CountType, CountGrows
    <3> QED BY <3>1, <3>3
  <2> QED BY <1>1, <2>1, <2>2 DEF Share
<1> QED BY <1>3, <1>4

LEMMA AgeIs ==
  ASSUME ChartsInv, NEW g \in Groups
  PROVE  LET I == {v \in Vote : InGroup(v, g)}
         IN  \A o \in Options :
                AgeChart[g][o] = Share(CountOf(votes, For(o) \cap I), CountOf(votes, I))
BY CountIs DEF AgeChart

LEMMA OptionIs ==
  ASSUME ChartsInv, NEW o \in Options, NEW g \in Groups
  PROVE  LET I == {v \in For(o) \ By(NoGender) : InBand(v, g)}
         IN  /\ OptionChart(o).male[g]
                  = Share(CountOf(votes, I \cap By("male")), CountOf(votes, I))
             /\ OptionChart(o).female[g]
                  = Share(CountOf(votes, I \cap By("female")), CountOf(votes, I))
BY CountIs DEF OptionChart

\* Somebody is shown in an age group of the chart of an option if and only if
\* somebody of known gender in that group chose the option.
LEMMA OptionShows ==
  ASSUME ChartsInv, NEW o \in Options, NEW g \in Groups
  PROVE  /\ OptionChart(o).male[g] + OptionChart(o).female[g] > 0
              <=> \E v \in For(o) \ By(NoGender) : votes[v] > 0 /\ InBand(v, g)
         /\ Whole(OptionChart(o).male[g] + OptionChart(o).female[g], 2,
                  \E v \in For(o) \ By(NoGender) : votes[v] > 0 /\ InBand(v, g))
<1>1. PICK I : I = {v \in For(o) \ By(NoGender) : InBand(v, g)}
  OBVIOUS
<1>2. Tally(votes) /\ I \in SUBSET (For(o) \ By(NoGender)) /\ I \in SUBSET Vote
  BY <1>1, ChartsTally, VoteSets
<1>3. PICK s : s = OptionChart(o).male[g] + OptionChart(o).female[g]
  OBVIOUS
<1>4. Whole(s, 2, CountOf(votes, I) > 0) /\ (s > 0 <=> \E v \in I : votes[v] > 0)
  BY <1>1, <1>2, <1>3, OptionIs, GenderShares
<1>5. CountOf(votes, I) > 0 <=> \E v \in I : votes[v] > 0
  BY <1>2, CountType
<1>6. (\E v \in I : votes[v] > 0)
        <=> \E v \in For(o) \ By(NoGender) : votes[v] > 0 /\ InBand(v, g)
  BY <1>1
<1> QED BY <1>3, <1>4, <1>5, <1>6 DEF Whole

\* The shares of each chart make up a whole, for any options, ages and votes.
THEOREM ChartsSharesAreWhole == ChartsSpec => []SharesAreWhole
<1>1. ChartsInv => SharesAreWhole
  <2> SUFFICES ASSUME ChartsInv PROVE SharesAreWhole
    OBVIOUS
  <2>1. Tally(votes)
    BY ChartsTally
  <2>2. Whole(MapThenSumSet(LAMBDA o : ParticipationChart[o], Options),
              Cardinality(Options), Count(Vote) > 0)
    <3>1. PICK s : s = ParticipationChart
      OBVIOUS
    <3>2. \A o \in Options : s[o] = Share(CountOf(votes, For(o) \cap Vote), CountOf(votes, Vote))
      BY <3>1, ParticipationIs, VoteSets
    <3>3. Whole(Sum(s, Options), Cardinality(Options), CountOf(votes, Vote) > 0)
      BY <2>1, <3>2, OptionShares
    <3>4. Sum(s, Options) = MapThenSumSet(LAMBDA o : ParticipationChart[o], Options)
      BY <3>1 DEF Sum
    <3> QED BY <3>3, <3>4, CountIs
  <2>3. ASSUME NEW o \in Options
        PROVE  Whole(GenderChart[o].male + GenderChart[o].female, 2,
                     Count(For(o) \ By(NoGender)) > 0)
    BY <2>1, GenderIs, GenderShares, CountIs
  <2>4. ASSUME NEW o \in Options, NEW g \in Groups
        PROVE  Whole(OptionChart(o).male[g] + OptionChart(o).female[g], 2,
                     \E v \in For(o) \ By(NoGender) : votes[v] > 0 /\ InBand(v, g))
    BY OptionShows
  <2>5. ASSUME NEW g \in Groups
        PROVE  Whole(MapThenSumSet(LAMBDA o : AgeChart[g][o], Options), Cardinality(Options),
                     \E v \in Vote : votes[v] > 0 /\ InGroup(v, g))
    <3>1. PICK s, I : s = AgeChart[g] /\ I = {v \in Vote : InGroup(v, g)}
      OBVIOUS
    <3>2. \A o \in Options : s[o] = Share(CountOf(votes, For(o) \cap I), CountOf(votes, I))
      BY <3>1, AgeIs
    <3>3. I \in SUBSET Vote
      BY <3>1
    <3>4. Whole(Sum(s, Options), Cardinality(Options), CountOf(votes, I) > 0)
      BY <2>1, <3>2, <3>3, OptionShares
    <3>5. Sum(s, Options) = MapThenSumSet(LAMBDA o : AgeChart[g][o], Options)
      BY <3>1 DEF Sum
    <3>6. CountOf(votes, I) > 0 <=> \E v \in Vote : votes[v] > 0 /\ InGroup(v, g)
      <4>1. CountOf(votes, I) > 0 <=> \E v \in I : votes[v] > 0
        BY <2>1, <3>3, CountType
      <4> QED BY <3>1, <4>1
    <3> QED BY <3>4, <3>5, <3>6 DEF Whole
  <2> QED BY <2>2, <2>3, <2>4, <2>5, ParticipationIs DEF SharesAreWhole
<1> QED BY <1>1, ChartsInvKept, PTL DEF ChartsSpec

\* Everybody of ten or more is in one group.
LEMMA OneGroup ==
  ASSUME NEW v \in Vote, v.age >= 10
  PROVE  Cardinality({g \in Groups : InGroup(v, g)}) = 1
<1>1. v.age \in Nat
  BY ChartsAssumption DEF Vote, ChartsAssumption
<1>2. PICK a \in Nat : a = v.age /\ a >= 10
  BY <1>1
<1>3. PICK g \in Groups : InGroup(v, g) /\ \A j \in Groups : InGroup(v, j) => j = g
  <2>1. CASE a <= 19
    BY <1>2, <2>1 DEF Groups, InGroup
  <2>2. CASE 20 <= a /\ a <= 29
    BY <1>2, <2>2 DEF Groups, InGroup
  <2>3. CASE 30 <= a /\ a <= 39
    BY <1>2, <2>3 DEF Groups, InGroup
  <2>4. CASE 40 <= a /\ a <= 49
    BY <1>2, <2>4 DEF Groups, InGroup
  <2>5. CASE 50 <= a /\ a <= 59
    BY <1>2, <2>5 DEF Groups, InGroup
  <2>6. CASE 60 <= a
    BY <1>2, <2>6 DEF Groups, InGroup
  <2> QED BY <1>2, <2>1, <2>2, <2>3, <2>4, <2>5, <2>6
<1>4. {j \in Groups : InGroup(v, j)} = {g}
  BY <1>3
<1> QED BY <1>4, FS_Singleton

\* The chart by age and the chart of an option agree.
THEOREM ChartsAgreeAlways == ChartsSpec => []ChartsAgree
<1>1. ChartsInv => ChartsAgree
  <2> SUFFICES ASSUME ChartsInv PROVE ChartsAgree
    OBVIOUS
  <2>1. Tally(votes)
    BY ChartsTally
  <2>2. ASSUME NEW o \in Options, NEW g \in Groups
        PROVE  LET shown == OptionChart(o).male[g] + OptionChart(o).female[g] > 0
               IN  /\ AgeChart[g][o] > 0 =>
                        shown \/ \E v \in For(o) \cap By(NoGender) : votes[v] > 0 /\ v.age >= 10
                   /\ shown /\ Count(Vote) < Vanishing =>
                        AgeChart[g][o] > 0 \/ \E v \in For(o) : votes[v] > 0 /\ v.age < 10
    <3>1. PICK I, C : I = {v \in Vote : InGroup(v, g)} /\ C = For(o) \cap I
      OBVIOUS
    <3>2. I \in SUBSET Vote /\ C \in SUBSET Vote /\ C \in SUBSET I
      BY <3>1
    <3>3. PICK n \in Nat, k \in Nat, all \in Nat :
            n = CountOf(votes, C) /\ k = CountOf(votes, I) /\ all = CountOf(votes, Vote)
      BY <2>1, <3>2, CountType
    <3>4. n <= k /\ k <= all /\ all = Count(Vote)
      BY <2>1, <3>2, <3>3, CountGrows, CountIs
    <3>5. n > 0 <=> \E v \in C : votes[v] > 0
      BY <2>1, <3>2, <3>3, CountType
    <3>6. AgeChart[g][o] = Share(n, k)
      BY <3>1, <3>3, AgeIs
    <3>7. Share(n, k) > 0 => n > 0
      BY ShareType
    <3>8. n > 0 /\ all < 20000 => Share(n, k) > 0
      BY <3>4, ShareType
    <3>9. \A v \in C : /\ v \in For(o) /\ InBand(v, g) /\ v.age >= 10
                       /\ v \in By(NoGender) \/ v \in For(o) \ By(NoGender)
      <4>1. \A v \in Vote : v.age \in Nat
        BY ChartsAssumption DEF Vote, ChartsAssumption
      <4> QED BY <3>1, <4>1 DEF For, InBand, InGroup, Groups
    <3>10. ASSUME NEW v \in For(o) \ By(NoGender), InBand(v, g) PROVE v \in C \/ v.age < 10
      <4>1. v \in Vote /\ v \in For(o)
        BY DEF For
      <4> QED BY <3>1, <3>10, <4>1 DEF InBand
    <3>11. PICK shown \in BOOLEAN :
              /\ shown <=> OptionChart(o).male[g] + OptionChart(o).female[g] > 0
              /\ shown <=> \E v \in For(o) \ By(NoGender) : votes[v] > 0 /\ InBand(v, g)
      BY OptionShows
    <3>12. AgeChart[g][o] > 0 =>
              shown \/ \E v \in For(o) \cap By(NoGender) : votes[v] > 0 /\ v.age >= 10
      BY <3>5, <3>6, <3>7, <3>9, <3>11
    <3>13. shown /\ Count(Vote) < Vanishing =>
              AgeChart[g][o] > 0 \/ \E v \in For(o) : votes[v] > 0 /\ v.age < 10
      BY <3>4, <3>5, <3>6, <3>8, <3>10, <3>11 DEF Vanishing
    <3> QED BY <3>11, <3>12, <3>13
  <2> QED BY <2>2, OneGroup DEF ChartsAgree
<1> QED BY <1>1, ChartsInvKept, PTL DEF ChartsSpec

\* More votes for an option are no smaller a share of it, and an option with a
\* chart by gender has a share.
THEOREM ChartsKeepOrder == ChartsSpec => []SharesKeepOrder
<1>1. ChartsInv => SharesKeepOrder
  <2> SUFFICES ASSUME ChartsInv PROVE SharesKeepOrder
    OBVIOUS
  <2>1. Tally(votes)
    BY ChartsTally
  <2>2. PICK all \in Nat : all = CountOf(votes, Vote)
    BY <2>1, CountType
  <2>3. \A o \in Options : CountOf(votes, For(o)) \in Nat /\ CountOf(votes, For(o)) <= all
    <3>1. ASSUME NEW o \in Options
          PROVE  CountOf(votes, For(o)) \in Nat /\ CountOf(votes, For(o)) <= all
      <4>1. For(o) \in SUBSET Vote
        BY VoteSets
      <4> QED BY <2>1, <2>2, <4>1, CountType, CountGrows
    <3> QED BY <3>1
  <2>4. \A o \in Options : ParticipationChart[o] = Share(CountOf(votes, For(o)), all)
    BY <2>2, ParticipationIs
  <2>5. ASSUME NEW o \in Options, NEW p \in Options, Count(For(o)) <= Count(For(p))
        PROVE  ParticipationChart[o] <= ParticipationChart[p]
    <3>1. PICK n \in Nat, m \in Nat :
             n = CountOf(votes, For(o)) /\ m = CountOf(votes, For(p)) /\ n <= m
      BY <2>3, <2>5, CountIs
    <3>2. Share(n, all) <= Share(m, all)
      <4>1. CASE all = 0
        BY <4>1 DEF Share
      <4>2. CASE all > 0
        <5>1. 10000 * n \in Nat /\ 10000 * m \in Nat /\ 10000 * n <= 10000 * m
          BY <3>1
        <5>2. Rounded(10000 * n, all) <= Rounded(10000 * m, all)
          BY <4>2, <5>1, RoundedGrows
        <5>3. Share(n, all) = Rounded(10000 * n, all) /\ Share(m, all) = Rounded(10000 * m, all)
          BY <4>2 DEF Share
        <5> QED BY <5>2, <5>3
      <4> QED BY <4>1, <4>2
    <3> QED BY <2>4, <3>1, <3>2
  <2>6. ASSUME NEW o \in Options, GenderChart[o].male + GenderChart[o].female > 0,
               Count(Vote) < Vanishing
        PROVE  ParticipationChart[o] > 0
    <3>1. PICK I : I = For(o) \ By(NoGender)
      OBVIOUS
    <3>2. \E v \in I : votes[v] > 0
      BY <2>1, <2>6, <3>1, GenderIs, GenderShares
    <3>3. \E v \in For(o) : votes[v] > 0
      BY <3>1, <3>2
    <3>4. PICK n \in Nat : n = CountOf(votes, For(o)) /\ n > 0 /\ n <= all
      BY <2>1, <2>3, <3>3, VoteSets, CountType
    <3>5. all < 20000
      BY <2>2, <2>6, CountIs DEF Vanishing
    <3>6. ParticipationChart[o] = Share(n, all)
      BY <2>4, <3>4
    <3>7. Share(n, all) > 0
      BY <3>4, <3>5, ShareType
    <3> QED BY <3>6, <3>7
  <2> QED BY <2>5, <2>6 DEF SharesKeepOrder
<1> QED BY <1>1, ChartsInvKept, PTL DEF ChartsSpec

\* All of it, for any options, ages and number of participants.
THEOREM ChartsKept == ChartsSpec => []ChartsSound
<1> QED BY ChartsTypeCorrect, ChartsSharesAreWhole, ChartsAgreeAlways, ChartsKeepOrder,
           PTL DEF ChartsSound

-----------------------------------------------------------------------------
(* The reports on the money                                                *)

\* Rows that may be in the ledger, the sum of those in a set, and a user's.
RowsOK(l)     == /\ IsFiniteSet(DOMAIN l) /\ DOMAIN l \subseteq Booking
                 /\ \A b \in DOMAIN l : l[b] \in Nat \ {0}
Booked(l, Q)  == Sum(l, {b \in DOMAIN l : b \in Q})
OwnRows(u, S) == {b \in Booking : b.owner = u /\ b.book \in S}

LEMMA NextBooked == \A Q : Booked(ledger, Q)' = Booked(ledger', Q)
BY DEF Booked, Sum, MapThenSumSet, MapThenFoldSet

\* One row more.
LEMMA RowAdded ==
  ASSUME NEW l, RowsOK(l), NEW b \in Booking, NEW k, k = Bag!BagAdd(l, b)
  PROVE  /\ RowsOK(k) /\ DOMAIN k = DOMAIN l \cup {b}
         /\ \A x \in DOMAIN l \ {b} : k[x] = l[x]
         /\ b \in DOMAIN l => k[b] = l[b] + 1
         /\ b \notin DOMAIN l => k[b] = 1
         /\ k = [x \in DOMAIN k |-> k[x]]
<1>1. b \in DOMAIN l => k = [x \in DOMAIN l |-> IF x = b THEN l[x] + 1 ELSE l[x]]
  BY DEF Bag!BagAdd
<1>2. b \notin DOMAIN l => k = [x \in DOMAIN l \cup {b} |-> IF x = b THEN 1 ELSE l[x]]
  BY DEF Bag!BagAdd
<1>3. DOMAIN k = DOMAIN l \cup {b} /\ \A x \in DOMAIN l \ {b} : k[x] = l[x]
  BY <1>1, <1>2
<1>4. (b \in DOMAIN l => k[b] = l[b] + 1) /\ (b \notin DOMAIN l => k[b] = 1)
  BY <1>1, <1>2
<1>5. IsFiniteSet(DOMAIN k) /\ DOMAIN k \subseteq Booking
  BY <1>3, FS_AddElement DEF RowsOK
<1>6. \A x \in DOMAIN k : k[x] \in Nat \ {0}
  BY <1>3, <1>4 DEF RowsOK
<1>7. k = [x \in DOMAIN k |-> k[x]]
  BY <1>1, <1>2
<1> QED BY <1>3, <1>4, <1>5, <1>6, <1>7 DEF RowsOK

LEMMA RowBooked ==
  ASSUME NEW l, RowsOK(l), NEW b \in Booking, NEW k, k = Bag!BagAdd(l, b), NEW Q
  PROVE  /\ Booked(l, Q) \in Nat
         /\ b \in Q => Booked(k, Q) = Booked(l, Q) + 1
         /\ b \notin Q => Booked(k, Q) = Booked(l, Q)
<1>0. /\ DOMAIN k = DOMAIN l \cup {b}
      /\ \A x \in DOMAIN l \ {b} : k[x] = l[x]
      /\ b \in DOMAIN l => k[b] = l[b] + 1
      /\ b \notin DOMAIN l => k[b] = 1
  BY RowAdded
<1>1. PICK T, U, R : /\ T = {x \in DOMAIN l : x \in Q} /\ U = {x \in DOMAIN k : x \in Q}
                     /\ R = T \ {b}
  OBVIOUS
<1>2. T \in SUBSET DOMAIN l /\ R \in SUBSET DOMAIN l
  BY <1>1
<1>3. IsFiniteSet(T) /\ IsFiniteSet(R)
  BY <1>2, FS_Subset DEF RowsOK
<1>4. (\A x \in T : l[x] \in Nat) /\ (\A x \in R : l[x] \in Nat)
  BY <1>2 DEF RowsOK
<1>5. \A x \in R : k[x] = l[x]
  BY <1>0, <1>1, <1>2
<1>6. Sum(l, T) \in Nat /\ Sum(l, R) \in Nat /\ Sum(k, R) = Sum(l, R)
  <2>1. Sum(l, T) \in Nat /\ Sum(l, R) \in Nat
    BY <1>3, <1>4, SumType
  <2>2. Sum(k, R) = Sum(l, R)
    BY <1>3, <1>5, SumSame
  <2> QED BY <2>1, <2>2
<1>7. Booked(l, Q) = Sum(l, T) /\ Booked(k, Q) = Sum(k, U)
  BY <1>1 DEF Booked
<1>8. DOMAIN k = DOMAIN l \cup {b}
  BY RowAdded
<1>9. CASE b \notin Q
  <2>1. U = R /\ T = R
    BY <1>1, <1>8, <1>9
  <2> QED BY <1>6, <1>7, <1>9, <2>1
<1>10. CASE b \in Q
  <2>1. U = R \cup {b} /\ b \notin R
    BY <1>1, <1>8, <1>10
  <2>2. k[b] \in Nat
    BY <1>8, RowAdded DEF RowsOK
  <2>3. \A x \in R \cup {b} : k[x] \in Int
    BY <1>4, <1>5, <2>2
  <2>4. Sum(k, U) = k[b] + Sum(k, R)
    <3>1. Sum(k, R \cup {b}) = k[b] + Sum(k, R)
      BY <1>3, <2>1, <2>3, SumIn
    <3> QED BY <2>1, <3>1
  <2>5. CASE b \in DOMAIN l
    <3>1. b \in T /\ k[b] = l[b] + 1 /\ l[b] \in Nat
      BY <1>0, <1>1, <1>4, <1>10, <2>5
    <3>2. Sum(l, T) = l[b] + Sum(l, R)
      BY <1>1, <1>3, <1>4, <3>1, SumOut
    <3> QED BY <1>6, <1>7, <1>10, <2>4, <3>1, <3>2
  <2>6. CASE b \notin DOMAIN l
    <3>1. T = R /\ k[b] = 1
      BY <1>0, <1>1, <2>6
    <3> QED BY <1>6, <1>7, <1>10, <2>4, <3>1
  <2> QED BY <2>5, <2>6
<1> QED BY <1>6, <1>7, <1>9, <1>10

\* The inductive invariant: a recharge is booked twice, once in SoM and once in
\* dollars, and a user withdraws after joining.
ReportsInv ==
    /\ ReportsTypeOK /\ IsFiniteSet(DOMAIN ledger)
    /\ \A u \in Accounts :
        Booked(ledger, OwnRows(u, {"recharge"})) = Booked(ledger, OwnRows(u, {"topup"}))
    /\ \A u \in Accounts :
        /\ members[u] # Stranger => members[u].joined \in Months
        /\ members[u].expiry # 0 => /\ members[u].expiry - 6 \in Months
                                    /\ members[u].joined \in Months
                                    /\ members[u].joined <= members[u].expiry - 6

LEMMA ReportsRows == ReportsInv => RowsOK(ledger)
<1> SUFFICES ASSUME ReportsInv PROVE RowsOK(ledger)
  OBVIOUS
<1>1. \A b \in DOMAIN ledger : ledger[b] \in Nat \ {0}
  BY ReportsAssumption DEF ReportsInv, ReportsTypeOK, ReportsAssumption
<1> QED BY <1>1 DEF ReportsInv, ReportsTypeOK, RowsOK

\* As long as there is room for a row, there is for one of each kind.
LEMMA RoomForRow ==
  ASSUME ReportsInv, Bookings < MaxBookings
  PROVE  1 <= MaxBookings /\ \A b \in DOMAIN ledger : ledger[b] + 1 \in 1..MaxBookings
<1>1. RowsOK(ledger)
  BY ReportsRows
<1>2. \A b \in DOMAIN ledger : ledger[b] \in Nat
  BY <1>1 DEF RowsOK
<1>3. IsFiniteSet(DOMAIN ledger) /\ Sum(ledger, DOMAIN ledger) \in Nat
  BY <1>1, <1>2, SumType DEF RowsOK
<1>4. Cardinality(Joined) \in Nat
  <2>1. Joined \in SUBSET Accounts
    BY DEF Joined
  <2> QED BY <2>1, FS_Subset, FS_CardinalityType, ReportsAssumption DEF ReportsAssumption
<1>5. Bookings = Sum(ledger, DOMAIN ledger) + Cardinality(Joined)
  BY DEF Bookings, SumOf, Sum
<1>6. Sum(ledger, DOMAIN ledger) < MaxBookings /\ MaxBookings \in Nat
  BY <1>3, <1>4, <1>5, ReportsAssumption DEF ReportsAssumption
<1>7. ASSUME NEW b \in DOMAIN ledger PROVE ledger[b] + 1 \in 1..MaxBookings
  <2>1. ledger[b] <= Sum(ledger, DOMAIN ledger) /\ ledger[b] \in Nat
    BY <1>2, <1>3, SumHas
  <2> QED BY <1>3, <1>6, <2>1
<1> QED BY <1>3, <1>6, <1>7

\* A row of a kind that is not above the bound keeps the types.
LEMMA RowTyped ==
  ASSUME NEW l, RowsOK(l), NEW b \in Booking, NEW k, k = Bag!BagAdd(l, b),
         1 <= MaxBookings, \A x \in DOMAIN l : l[x] \in 1..MaxBookings,
         b \in DOMAIN l => l[b] + 1 \in 1..MaxBookings
  PROVE  \A x \in DOMAIN k : k[x] \in 1..MaxBookings
<1>1. /\ DOMAIN k = DOMAIN l \cup {b}
      /\ \A x \in DOMAIN l \ {b} : k[x] = l[x]
      /\ b \in DOMAIN l => k[b] = l[b] + 1
      /\ b \notin DOMAIN l => k[b] = 1
  BY RowAdded
<1>2. MaxBookings \in Nat
  BY ReportsAssumption DEF ReportsAssumption
<1> QED BY <1>1, <1>2

\* The rows of a recharge.
LEMMA Receipts ==
  ASSUME NEW u \in Accounts, NEW date \in Date
  PROVE  /\ Receipt("topup", u, date) \in Booking /\ Receipt("recharge", u, date) \in Booking
         /\ Receipt("topup", u, date) # Receipt("recharge", u, date)
         /\ \A v, S : /\ Receipt("topup", u, date) \in OwnRows(v, S) <=> v = u /\ "topup" \in S
                      /\ Receipt("recharge", u, date) \in OwnRows(v, S)
                            <=> v = u /\ "recharge" \in S
<1>1. PICK a, c : /\ a = Receipt("topup", u, date) /\ c = Receipt("recharge", u, date)
  OBVIOUS
<1>2. /\ a = [book |-> "topup", owner |-> u, date |-> date, items |-> 0]
      /\ c = [book |-> "recharge", owner |-> u, date |-> date, items |-> 0]
  BY <1>1 DEF Receipt
<1>3. a \in Booking /\ c \in Booking
  BY <1>2 DEF Booking, Books, Payments
<1>4. a.book = "topup" /\ c.book = "recharge" /\ a.owner = u /\ c.owner = u
  BY <1>2
<1>5. a # c
  BY <1>4
<1>6. \A v, S : /\ a \in OwnRows(v, S) <=> v = u /\ "topup" \in S
                /\ c \in OwnRows(v, S) <=> v = u /\ "recharge" \in S
  BY <1>3, <1>4 DEF OwnRows
<1> QED BY <1>1, <1>3, <1>5, <1>6

LEMMA InitReportsInv == ReportsInit => ReportsInv
<1> SUFFICES ASSUME ReportsInit PROVE ReportsInv
  OBVIOUS
<1>1. DOMAIN ledger = {} /\ members = [u \in Accounts |-> Stranger]
  BY DEF ReportsInit
<1>2. \A Q : {b \in DOMAIN ledger : b \in Q} = {}
  BY <1>1
<1>3. \A Q : Booked(ledger, Q) = Sum(ledger, {})
  BY <1>2 DEF Booked
<1>4. IsFiniteSet(DOMAIN ledger)
  BY <1>1, FS_EmptySet
<1>5. ReportsTypeOK
  BY <1>1 DEF ReportsTypeOK, Stranger
<1> QED BY <1>1, <1>3, <1>4, <1>5 DEF ReportsInv, Stranger

LEMMA NextReportsInv == ReportsInv /\ [ReportsNext]_reportsVars => ReportsInv'
<1> SUFFICES ASSUME ReportsInv, [ReportsNext]_reportsVars PROVE ReportsInv'
  OBVIOUS
<1>0. RowsOK(ledger)
  BY ReportsRows
<1>1. ASSUME NEW u \in Accounts, NEW month \in Months, Join(u, month) PROVE ReportsInv'
  <2>1. ledger' = ledger /\ members' = [members EXCEPT ![u].joined = month]
        /\ members[u] = Stranger
    BY <1>1 DEF Join
  <2>2. members \in [Accounts -> [joined : {0} \cup Months, expiry : Nat]]
    BY DEF ReportsInv, ReportsTypeOK
  <2>3. /\ members' \in [Accounts -> [joined : {0} \cup Months, expiry : Nat]]
        /\ members'[u].joined = month /\ members'[u].expiry = 0
        /\ \A v \in Accounts \ {u} : members'[v] = members[v]
    BY <2>1, <2>2 DEF Stranger
  <2>4. \A Q : Booked(ledger, Q)' = Booked(ledger, Q)
    BY <2>1, NextBooked
  <2>5. ReportsTypeOK' /\ IsFiniteSet(DOMAIN ledger')
    BY <2>1, <2>3 DEF ReportsInv, ReportsTypeOK
  <2>6. \A v \in Accounts :
          /\ members'[v] # Stranger => members'[v].joined \in Months
          /\ members'[v].expiry # 0 => /\ members'[v].expiry - 6 \in Months
                                       /\ members'[v].joined \in Months
                                       /\ members'[v].joined <= members'[v].expiry - 6
    BY <2>3 DEF ReportsInv
  <2> QED BY <2>1, <2>4, <2>5, <2>6 DEF ReportsInv
<1>2. ASSUME NEW u \in Accounts, NEW month \in Months, Withdraw(u, month) PROVE ReportsInv'
  <2>1. ledger' = ledger /\ members' = [members EXCEPT ![u].expiry = month + 6]
        /\ u \in Joined /\ members[u].joined <= month
    BY <1>2 DEF Withdraw
  <2>2. members \in [Accounts -> [joined : {0} \cup Months, expiry : Nat]]
    BY DEF ReportsInv, ReportsTypeOK
  <2>3. month \in Nat /\ month + 6 \in Nat /\ (month + 6) - 6 = month
    BY ReportsAssumption DEF ReportsAssumption, Months
  <2>4. /\ members' \in [Accounts -> [joined : {0} \cup Months, expiry : Nat]]
        /\ members'[u].joined = members[u].joined /\ members'[u].expiry = month + 6
        /\ \A v \in Accounts \ {u} : members'[v] = members[v]
    BY <2>1, <2>2, <2>3
  <2>5. members[u].joined \in Months
    BY <2>1 DEF ReportsInv, Joined
  <2>6. \A Q : Booked(ledger, Q)' = Booked(ledger, Q)
    BY <2>1, NextBooked
  <2>7. ReportsTypeOK' /\ IsFiniteSet(DOMAIN ledger')
    BY <2>1, <2>4 DEF ReportsInv, ReportsTypeOK
  <2>8. \A v \in Accounts :
          /\ members'[v] # Stranger => members'[v].joined \in Months
          /\ members'[v].expiry # 0 => /\ members'[v].expiry - 6 \in Months
                                       /\ members'[v].joined \in Months
                                       /\ members'[v].joined <= members'[v].expiry - 6
    BY <2>1, <2>3, <2>4, <2>5 DEF ReportsInv
  <2> QED BY <2>1, <2>6, <2>7, <2>8 DEF ReportsInv
<1>3. ASSUME NEW b \in Booking, Book(b) PROVE ReportsInv'
  <2>1. /\ ledger' = Bag!BagAdd(ledger, b) /\ members' = members
        /\ b.book \notin {"topup", "recharge"} /\ Bookings < MaxBookings
    BY <1>3 DEF Book
  <2>2. PICK k : k = Bag!BagAdd(ledger, b) /\ k = ledger'
    BY <2>1
  <2>3. RowsOK(k) /\ \A x \in DOMAIN k : k[x] \in 1..MaxBookings
    <3>1. \A x \in DOMAIN ledger : ledger[x] \in 1..MaxBookings
      BY DEF ReportsInv, ReportsTypeOK
    <3>2. RowsOK(k)
      BY <1>0, <2>2, RowAdded
    <3>3. 1 <= MaxBookings /\ (b \in DOMAIN ledger => ledger[b] + 1 \in 1..MaxBookings)
      BY <2>1, RoomForRow
    <3> QED BY <1>0, <2>2, <3>1, <3>2, <3>3, RowTyped
  <2>4. ASSUME NEW u \in Accounts
        PROVE  Booked(k, OwnRows(u, {"recharge"})) = Booked(k, OwnRows(u, {"topup"}))
    <3>1. b \notin OwnRows(u, {"recharge"}) /\ b \notin OwnRows(u, {"topup"})
      BY <2>1 DEF OwnRows
    <3>2. /\ Booked(k, OwnRows(u, {"recharge"})) = Booked(ledger, OwnRows(u, {"recharge"}))
          /\ Booked(k, OwnRows(u, {"topup"})) = Booked(ledger, OwnRows(u, {"topup"}))
      <4>1. k = Bag!BagAdd(ledger, b)
        BY <2>2
      <4>2. \A Q : b \notin Q => Booked(k, Q) = Booked(ledger, Q)
        BY <1>0, <4>1, RowBooked
      <4> QED BY <3>1, <4>2
    <3> QED BY <3>2 DEF ReportsInv
  <2>5. \A Q : Booked(ledger, Q)' = Booked(k, Q)
    BY <2>2, NextBooked
  <2>6. ReportsTypeOK' /\ IsFiniteSet(DOMAIN ledger')
    BY <2>1, <2>2, <2>3 DEF ReportsInv, ReportsTypeOK, RowsOK
  <2> QED BY <2>1, <2>4, <2>5, <2>6 DEF ReportsInv
<1>4. ASSUME NEW u \in Accounts, NEW date \in Date, Recharge(u, date) PROVE ReportsInv'
  <2>1. PICK a, c : a = Receipt("topup", u, date) /\ c = Receipt("recharge", u, date)
    OBVIOUS
  <2>2. PICK l : l = Bag!BagAdd(ledger, a)
    OBVIOUS
  <2>3. PICK k : k = Bag!BagAdd(l, c) /\ k = ledger'
    BY <1>4, <2>1, <2>2 DEF Recharge
  <2>4. members' = members /\ Bookings < MaxBookings
    BY <1>4 DEF Recharge
  <2>5. a \in Booking /\ c \in Booking /\ a # c
    BY <2>1, Receipts
  <2>6. RowsOK(l) /\ \A x \in DOMAIN l : l[x] \in 1..MaxBookings
    <3>1. \A x \in DOMAIN ledger : ledger[x] \in 1..MaxBookings
      BY DEF ReportsInv, ReportsTypeOK
    <3>2. RowsOK(l)
      BY <1>0, <2>2, <2>5, RowAdded
    <3>3. 1 <= MaxBookings /\ (a \in DOMAIN ledger => ledger[a] + 1 \in 1..MaxBookings)
      BY <2>4, RoomForRow
    <3> QED BY <1>0, <2>2, <2>5, <3>1, <3>2, <3>3, RowTyped
  <2>7. RowsOK(k) /\ \A x \in DOMAIN k : k[x] \in 1..MaxBookings
    <3>1. RowsOK(k)
      BY <2>3, <2>5, <2>6, RowAdded
    <3>2. c \in DOMAIN l => c \in DOMAIN ledger /\ l[c] = ledger[c]
      <4>1. /\ DOMAIN l = DOMAIN ledger \cup {a}
            /\ \A x \in DOMAIN ledger \ {a} : l[x] = ledger[x]
        BY <1>0, <2>2, <2>5, RowAdded
      <4> QED BY <2>5, <4>1
    <3>3. 1 <= MaxBookings /\ (c \in DOMAIN l => l[c] + 1 \in 1..MaxBookings)
      BY <2>4, <3>2, RoomForRow
    <3> QED BY <2>3, <2>5, <2>6, <3>1, <3>3, RowTyped
  <2>8. ASSUME NEW v \in Accounts
        PROVE  Booked(k, OwnRows(v, {"recharge"})) = Booked(k, OwnRows(v, {"topup"}))
    <3>1. PICK R, T : R = OwnRows(v, {"recharge"}) /\ T = OwnRows(v, {"topup"})
      OBVIOUS
    <3>2. /\ a \in T <=> v = u
          /\ c \in R <=> v = u
          /\ a \notin R /\ c \notin T
      BY <2>1, <3>1, Receipts
    <3>3. \A Q : /\ Booked(ledger, Q) \in Nat
                 /\ a \in Q => Booked(l, Q) = Booked(ledger, Q) + 1
                 /\ a \notin Q => Booked(l, Q) = Booked(ledger, Q)
      BY <1>0, <2>2, <2>5, RowBooked
    <3>4. \A Q : /\ c \in Q => Booked(k, Q) = Booked(l, Q) + 1
                 /\ c \notin Q => Booked(k, Q) = Booked(l, Q)
      <4>1. k = Bag!BagAdd(l, c)
        BY <2>3
      <4> QED BY <2>5, <2>6, <4>1, RowBooked
    <3>5. /\ Booked(ledger, R) \in Nat /\ Booked(ledger, T) \in Nat
          /\ Booked(ledger, R) = Booked(ledger, T)
      BY <3>1, <3>3 DEF ReportsInv
    <3>6. /\ Booked(l, R) = Booked(ledger, R) /\ Booked(k, T) = Booked(l, T)
          /\ v = u => /\ Booked(l, T) = Booked(ledger, T) + 1
                      /\ Booked(k, R) = Booked(l, R) + 1
          /\ v # u => Booked(l, T) = Booked(ledger, T) /\ Booked(k, R) = Booked(l, R)
      BY <3>2, <3>3, <3>4
    <3> QED BY <3>1, <3>5, <3>6
  <2>9. \A Q : Booked(ledger, Q)' = Booked(k, Q)
    BY <2>3, NextBooked
  <2>10. ReportsTypeOK' /\ IsFiniteSet(DOMAIN ledger')
    BY <2>3, <2>4, <2>7 DEF ReportsInv, ReportsTypeOK, RowsOK
  <2> QED BY <2>4, <2>8, <2>9, <2>10 DEF ReportsInv
<1>5. CASE UNCHANGED reportsVars
  <2>1. ledger' = ledger /\ members' = members
    BY <1>5 DEF reportsVars
  <2>2. \A Q : Booked(ledger, Q)' = Booked(ledger, Q)
    BY <2>1, NextBooked
  <2> QED BY <2>1, <2>2 DEF ReportsInv, ReportsTypeOK
<1> QED BY <1>1, <1>2, <1>3, <1>4, <1>5 DEF ReportsNext

\* Rows and members are of their types, and no row is booked more often than the
\* bound.
THEOREM ReportsTypeCorrect == ReportsSpec => []ReportsTypeOK
<1>1. ReportsInv => ReportsTypeOK
  BY DEF ReportsInv
<1> QED BY <1>1, InitReportsInv, NextReportsInv, PTL DEF ReportsSpec
\* A row is of one of the kinds, a user's, on a day of a month.
LEMMA RowType ==
  ASSUME ReportsInv, NEW b \in DOMAIN ledger
  PROVE  /\ b \in Booking /\ ledger[b] \in Nat \ {0}
         /\ b.book \in Books /\ b.owner \in Accounts /\ b.items \in 0..2
         /\ b.items > 0 <=> b.book = "purchase"
         /\ b.date.month \in 1..Len(Lengths) /\ Len(Lengths) \in Nat
         /\ b.date.day \in 1..31 /\ At(b.date) = 100 * b.date.month + b.date.day
<1>1. b \in Booking /\ ledger[b] \in Nat \ {0}
  BY ReportsRows DEF RowsOK
<1>2. /\ b.book \in Books /\ b.owner \in Accounts /\ b.items \in 0..2
      /\ b.items > 0 <=> b.book = "purchase"
      /\ b.date \in Date
  BY <1>1 DEF Booking
<1>3. Len(Lengths) \in Nat /\ Months = 1..Len(Lengths)
  BY ReportsAssumption DEF ReportsAssumption, Months
<1>4. b.date.month \in Months /\ b.date.day \in ShownDays
  BY <1>2 DEF Date
<1>5. b.date.day \in 1..31
  BY <1>4, ReportsAssumption DEF ReportsAssumption
<1> QED BY <1>1, <1>2, <1>3, <1>4, <1>5 DEF At

\* What a row is worth.
Worth == [b \in DOMAIN ledger |-> ledger[b] * Amount[b.book]]

LEMMA WorthType ==
  ASSUME ReportsInv
  PROVE  /\ IsFiniteSet(DOMAIN ledger)
         /\ \A b \in DOMAIN ledger : /\ Worth[b] \in Int /\ ledger[b] \in Nat
                                     /\ b.book # "backward" => Worth[b] \in Nat
                                     /\ b.book = "reward" => Worth[b] = 20 * ledger[b]
<1>1. IsFiniteSet(DOMAIN ledger)
  BY DEF ReportsInv
<1>2. ASSUME NEW b \in DOMAIN ledger
      PROVE  /\ Worth[b] \in Int /\ ledger[b] \in Nat
             /\ b.book # "backward" => Worth[b] \in Nat
             /\ b.book = "reward" => Worth[b] = 20 * ledger[b]
  <2>1. b.book \in Books /\ ledger[b] \in Nat
    BY RowType
  <2>2. PICK n \in Nat : n = ledger[b]
    BY <2>1
  <2>3. PICK w : w = Amount[b.book]
    OBVIOUS
  <2>4. Worth[b] = n * w
    BY <2>2, <2>3 DEF Worth
  <2>5. /\ w \in Int /\ (b.book # "backward" => w \in Nat)
        /\ b.book = "reward" => w = 20
    BY <2>1, <2>3 DEF Amount, Books, Payments, Surveys
  <2>6. n * w \in Int /\ (w \in Nat => n * w \in Nat) /\ n * 20 = 20 * n
    BY <2>5
  <2> QED BY <2>1, <2>2, <2>4, <2>5, <2>6
<1> QED BY <1>1, <1>2

\* The totals are sums.
LEMMA TotalIs ==
  ASSUME ReportsInv, NEW S \in SUBSET DOMAIN ledger
  PROVE  /\ Total(S) = Sum(Worth, S) /\ Number(S) = Sum(ledger, S) /\ IsFiniteSet(S)
         /\ Total(S) \in Int /\ Number(S) \in Nat
<1>1. PICK f, g : f = [b \in S |-> ledger[b] * Amount[b.book]] /\ g = [b \in S |-> ledger[b]]
  OBVIOUS
<1>2. DOMAIN f = S /\ DOMAIN g = S /\ \A b \in S : f[b] = Worth[b] /\ g[b] = ledger[b]
  BY <1>1 DEF Worth
<1>3. Total(S) = Sum(f, S) /\ Number(S) = Sum(g, S)
  BY <1>1, <1>2 DEF Total, Number, Lines, SumOf, Sum
<1>4. IsFiniteSet(S) /\ \A b \in S : Worth[b] \in Int /\ ledger[b] \in Nat
  BY WorthType, FS_Subset
<1>5. Sum(f, S) = Sum(Worth, S) /\ Sum(g, S) = Sum(ledger, S)
  BY <1>2, <1>4, SumSame
<1>6. Sum(Worth, S) \in Int /\ Sum(ledger, S) \in Nat
  BY <1>4, SumType
<1> QED BY <1>3, <1>4, <1>5, <1>6

\* More rows are worth more, where nobody was paid for a survey.
LEMMA TotalGrows ==
  ASSUME ReportsInv, NEW S \in SUBSET DOMAIN ledger, NEW T \in SUBSET S,
         \A b \in S : b.book # "backward"
  PROVE  Total(T) <= Total(S)
<1>1. T \in SUBSET DOMAIN ledger
  OBVIOUS
<1>2. \A b \in S : Worth[b] \in Nat
  BY WorthType
<1>3. IsFiniteSet(S)
  BY TotalIs
<1>4. Sum(Worth, T) <= Sum(Worth, S)
  BY <1>2, <1>3, SumGrows
<1>5. Total(T) = Sum(Worth, T)
  BY <1>1, TotalIs
<1>6. Total(S) = Sum(Worth, S)
  BY TotalIs
<1> QED BY <1>4, <1>5, <1>6

\* A rounded amount is half a unit off at most, and more is not rounded to less.
LEMMA AsIntegerIsNear ==
  ASSUME NEW x \in Int
  PROVE  /\ AsInteger(x) \in Int
         /\ -10 <= 20 * AsInteger(x) - 2 * x /\ 20 * AsInteger(x) - 2 * x <= 10
<1>1. AsInteger(x) = Rounded(x, 10)
  BY DEF AsInteger, Unit
<1>2. PICK q \in Int : q = Rounded(x, 10)
  BY RoundedIsNear
<1>3. -10 <= 2 * (10 * q) - 2 * x /\ 2 * (10 * q) - 2 * x <= 10
  BY <1>2, RoundedIsNear
<1> QED BY <1>1, <1>2, <1>3

LEMMA AsIntegerGrows ==
  ASSUME NEW x \in Int, NEW y \in Int, x <= y
  PROVE  AsInteger(x) <= AsInteger(y)
BY RoundedGrows DEF AsInteger, Unit

\* Rewards are whole, and so are their totals.
LEMMA RewardsAreWhole ==
  ASSUME ReportsInv, NEW S \in SUBSET DOMAIN ledger, \A b \in S : b.book = "reward"
  PROVE  Unit * AsInteger(Total(S)) = Total(S)
<1>1. IsFiniteSet(S) /\ Total(S) = Sum(Worth, S) /\ Number(S) = Sum(ledger, S)
  BY TotalIs
<1>2. \A b \in S : ledger[b] \in Int /\ Worth[b] = 20 * ledger[b]
  BY WorthType
<1>3. Sum(Worth, S) = 20 * Sum(ledger, S)
  BY <1>1, <1>2, SumTimes
<1>4. PICK n \in Nat : n = Number(S)
  BY TotalIs
<1>5. Total(S) = 20 * n
  BY <1>1, <1>3, <1>4
<1>6. (20 * n) \div 10 = 2 * n /\ (20 * n) % 10 = 0
  OBVIOUS
<1>7. AsInteger(20 * n) = 2 * n
  BY <1>6 DEF AsInteger, Rounded, Unit
<1> QED BY <1>5, <1>7 DEF Unit

\* The kinds of rows of a user in each list.
LEMMA Transactions ==
  ASSUME NEW u
  PROVE  /\ DOMAIN UserTransaction(u, "in") = Mine(u, Of({"reward", "recharge"}))
         /\ DOMAIN UserTransaction(u, "out") = Mine(u, Of(Payments))
         /\ DOMAIN UserTransaction(u, "all") = Mine(u, Of({"reward", "recharge"}) \cup Of(Payments))
BY DEF UserTransaction, Lines

LEMMA Histories ==
  ASSUME ReportsInv, NEW u
  PROVE  /\ DOMAIN UserHistory(u, "any", First, Last) = Mine(u, PaymentRewardView)
         /\ DOMAIN UserHistory(u, "recharge", First, Last)
              = {b \in Mine(u, PaymentRewardView) : b.book = "topup"}
         /\ DOMAIN UserHistory(u, "survey", First, Last)
              = {b \in Mine(u, PaymentRewardView) : b.book \in Surveys}
         /\ \A type \in {"reward", "purchase"} :
              DOMAIN UserHistory(u, type, First, Last)
                = {b \in Mine(u, PaymentRewardView) : b.book = type}
<1>1. ASSUME NEW b \in DOMAIN ledger PROVE At(First) <= At(b.date) /\ At(b.date) <= At(Last)
  <2>1. /\ b.date.month \in 1..Len(Lengths) /\ Len(Lengths) \in Nat
        /\ b.date.day \in 1..31 /\ At(b.date) = 100 * b.date.month + b.date.day
    BY RowType
  <2>2. PICK n \in Nat : n = Len(Lengths)
    BY <2>1
  <2>3. At(First) = 101 /\ At(Last) = 100 * n + 31
    BY <2>2 DEF At, First, Last
  <2>4. PICK m \in 1..n : m = b.date.month
    BY <2>1, <2>2
  <2>5. PICK d \in 1..31 : d = b.date.day
    BY <2>1
  <2>6. At(b.date) = 100 * m + d
    BY <2>1, <2>4, <2>5
  <2>7. 101 <= 100 * m + d /\ 100 * m + d <= 100 * n + 31
    OBVIOUS
  <2> QED BY <2>3, <2>6, <2>7
<1>2. \A b \in Mine(u, PaymentRewardView) : b \in DOMAIN ledger
  BY DEF Mine, PaymentRewardView, Of
<1>3. \A b \in Mine(u, PaymentRewardView) : At(First) <= At(b.date) /\ At(b.date) <= At(Last)
  BY <1>1, <1>2
<1>4. DOMAIN UserHistory(u, "any", First, Last) = Mine(u, PaymentRewardView)
  BY <1>3 DEF UserHistory, Lines
<1>5. DOMAIN UserHistory(u, "recharge", First, Last)
        = {b \in Mine(u, PaymentRewardView) : b.book = "topup"}
  BY <1>3 DEF UserHistory, Lines
<1>6. DOMAIN UserHistory(u, "survey", First, Last)
        = {b \in Mine(u, PaymentRewardView) : b.book \in Surveys}
  BY <1>3 DEF UserHistory, Lines
<1>7. ASSUME NEW type \in {"reward", "purchase"}
      PROVE  DOMAIN UserHistory(u, type, First, Last)
                = {b \in Mine(u, PaymentRewardView) : b.book = type}
  <2>1. type # "any" /\ type # "recharge" /\ type # "survey"
    OBVIOUS
  <2> QED BY <1>3, <2>1 DEF UserHistory, Lines
<1> QED BY <1>4, <1>5, <1>6, <1>7

\* The lists of a user and of the admins show the same rows, each once, and a
\* recharge in both directions.
THEOREM ReportsHistoriesAgree == ReportsSpec => []HistoriesAgree
<1>1. ReportsInv => HistoriesAgree
  <2> SUFFICES ASSUME ReportsInv, NEW u \in Accounts
               PROVE
        LET all == DOMAIN UserTransaction(u, "all")
            in  == DOMAIN UserTransaction(u, "in")
            out == DOMAIN UserTransaction(u, "out")
            Shown(type) == DOMAIN UserHistory(u, type, First, Last)
        IN  /\ all = Mine(u, DOMAIN ledger \ Of({"sot"}))
            /\ in \cup out = all /\ in \cap out = {}
            /\ Number(in \cap Of({"recharge"})) = Number(out \cap Of({"topup"}))
            /\ GetUserDetails(u) =>
                /\ Shown("any") = all \ Of({"recharge"})
                /\ Shown("any") \ Shown("reward") = out
                /\ out = UNION {Shown(type) : type \in {"survey", "purchase", "recharge"}}
    BY DEF HistoriesAgree
  <2>1. PICK all, in, out : /\ all = DOMAIN UserTransaction(u, "all")
                            /\ in = DOMAIN UserTransaction(u, "in")
                            /\ out = DOMAIN UserTransaction(u, "out")
    OBVIOUS
  <2>2. /\ in = {b \in DOMAIN ledger : b.owner = u /\ b.book \in {"reward", "recharge"}}
        /\ out = {b \in DOMAIN ledger : b.owner = u /\ b.book \in Payments}
        /\ all = in \cup out
    <3>1. /\ in = Mine(u, Of({"reward", "recharge"})) /\ out = Mine(u, Of(Payments))
          /\ all = Mine(u, Of({"reward", "recharge"}) \cup Of(Payments))
      BY <2>1, Transactions
    <3> QED BY <3>1 DEF Mine, Of
  <2>3. \A b \in DOMAIN ledger : b \in Booking /\ b.book \in Books
    BY RowType
  <2>4. all = Mine(u, DOMAIN ledger \ Of({"sot"})) /\ in \cap out = {}
    BY <2>2, <2>3 DEF Mine, Of, Books, Payments, Surveys
  <2>5. Number(in \cap Of({"recharge"})) = Number(out \cap Of({"topup"}))
    <3>1. PICK R, T : R = in \cap Of({"recharge"}) /\ T = out \cap Of({"topup"})
      OBVIOUS
    <3>2. R = {b \in DOMAIN ledger : b \in OwnRows(u, {"recharge"})}
      BY <2>2, <2>3, <3>1 DEF OwnRows, Of
    <3>3. T = {b \in DOMAIN ledger : b \in OwnRows(u, {"topup"})}
      BY <2>2, <2>3, <3>1 DEF OwnRows, Of, Payments
    <3>4. Sum(ledger, R) = Sum(ledger, T)
      BY <3>2, <3>3 DEF ReportsInv, Booked
    <3>5. R \in SUBSET DOMAIN ledger /\ T \in SUBSET DOMAIN ledger
      BY <3>2, <3>3
    <3>6. Number(R) = Sum(ledger, R) /\ Number(T) = Sum(ledger, T)
      BY <3>5, TotalIs
    <3> QED BY <3>1, <3>4, <3>6
  <2>6. PICK any, reward, survey, purchase, recharge :
          /\ any = DOMAIN UserHistory(u, "any", First, Last)
          /\ reward = DOMAIN UserHistory(u, "reward", First, Last)
          /\ survey = DOMAIN UserHistory(u, "survey", First, Last)
          /\ purchase = DOMAIN UserHistory(u, "purchase", First, Last)
          /\ recharge = DOMAIN UserHistory(u, "recharge", First, Last)
    OBVIOUS
  <2>7. /\ any = {b \in DOMAIN ledger : b.owner = u /\ b.book \in Payments \cup {"reward"}}
        /\ reward = {b \in any : b.book = "reward"} /\ survey = {b \in any : b.book \in Surveys}
        /\ purchase = {b \in any : b.book = "purchase"}
        /\ recharge = {b \in any : b.book = "topup"}
    <3>1. any = Mine(u, PaymentRewardView) /\ recharge = {b \in any : b.book = "topup"}
      BY <2>6, Histories
    <3>2. /\ reward = {b \in any : b.book = "reward"} /\ survey = {b \in any : b.book \in Surveys}
          /\ purchase = {b \in any : b.book = "purchase"}
      BY <2>6, <3>1, Histories
    <3> QED BY <3>1, <3>2 DEF Mine, PaymentRewardView, Of
  <2>8. any = all \ Of({"recharge"}) /\ any \ reward = out
    BY <2>2, <2>7 DEF Of, Payments, Surveys
  <2>9. out = survey \cup purchase \cup recharge
    BY <2>2, <2>7 DEF Payments, Surveys
  <2>10. UNION {DOMAIN UserHistory(u, type, First, Last) : type \in {"survey", "purchase", "recharge"}}
          = survey \cup purchase \cup recharge
    BY <2>6
  <2> QED BY <2>1, <2>2, <2>4, <2>5, <2>6, <2>8, <2>9, <2>10
<1> QED BY <1>1, InitReportsInv, NextReportsInv, PTL DEF ReportsSpec
\* A list that repeats each of so many items for every purchase is longer, unless
\* there is one purchase.
LEMMA Repeated ==
  ASSUME NEW n \in Nat, NEW i \in Nat, n <= i, n = 0 => i = 0
  PROVE  n * i = i <=> n <= 1
<1>1. CASE n <= 1
  <2>1. CASE n = 0
    BY <2>1
  <2>2. CASE n = 1
    <3>1. 1 * i = i
      OBVIOUS
    <3> QED BY <2>2, <3>1
  <2> QED BY <1>1, <2>1, <2>2
<1>2. CASE n >= 2
  <2>1. PICK k \in Nat : n = k + 2
    <3>1. n - 2 \in Nat /\ n = (n - 2) + 2
      BY <1>2
    <3> QED BY <3>1
  <2>2. (k + 2) * i = k * i + 2 * i
    OBVIOUS
  <2>3. k * i \in Nat
    OBVIOUS
  <2>4. PICK m \in Nat : m = k * i
    BY <2>3
  <2>5. n * i = m + 2 * i
    BY <2>1, <2>2, <2>4
  <2>6. m + 2 * i # i
    BY <1>2
  <2> QED BY <1>2, <2>5, <2>6
<1> QED BY <1>1, <1>2

\* The admins' list of purchases has as many lines as items were bought only for a
\* user who bought once.
THEOREM ReportsPurchasesListed == ReportsSpec => []PurchasesListed
<1>1. ReportsInv => PurchasesListed
  <2> SUFFICES ASSUME ReportsInv, NEW u \in Accounts
               PROVE
        LET bought == Mine(u, Of({"purchase"}))
            items  == SumOf([b \in bought |-> ledger[b] * b.items])
        IN  Purchases(u) = items <=> Number(bought) <= 1
    BY DEF PurchasesListed
  <2>1. PICK S : S = Mine(u, Of({"purchase"}))
    OBVIOUS
  <2>2. S \in SUBSET DOMAIN ledger /\ \A b \in S : b.book = "purchase"
    BY <2>1 DEF Mine, Of
  <2>3. PICK f : f = [b \in S |-> ledger[b] * b.items]
    OBVIOUS
  <2>4. Purchases(u) = Number(S) * SumOf(f)
    BY <2>1, <2>3 DEF Purchases
  <2>5. Number(S) = Sum(ledger, S) /\ Number(S) \in Nat /\ IsFiniteSet(S)
    BY <2>2, TotalIs
  <2>6. SumOf(f) = Sum(f, S)
    <3>1. DOMAIN f = S
      BY <2>3
    <3> QED BY <3>1 DEF SumOf, Sum
  <2>7. ASSUME NEW b \in S
        PROVE  f[b] \in Nat /\ ledger[b] \in Nat \ {0} /\ ledger[b] <= f[b] /\ f[b] <= 2 * ledger[b]
    <3>1. b \in DOMAIN ledger /\ b.book = "purchase"
      BY <2>2
    <3>2. ledger[b] \in Nat \ {0} /\ b.items \in 1..2
      BY <3>1, RowType
    <3>3. PICK n \in Nat : n = ledger[b]
      BY <3>2
    <3>4. f[b] = n * b.items
      BY <2>3, <3>3
    <3>5. f[b] = n * 1 \/ f[b] = n * 2
      BY <3>2, <3>4
    <3>6. n * 1 = n /\ n * 2 = n + n
      OBVIOUS
    <3> QED BY <3>2, <3>3, <3>5, <3>6
  <2>8. Sum(f, S) \in Nat /\ Sum(ledger, S) <= Sum(f, S)
    <3>1. \A b \in S : f[b] \in Int /\ ledger[b] \in Int /\ ledger[b] <= f[b]
      BY <2>7
    <3>2. Sum(ledger, S) <= Sum(f, S)
      BY <2>5, <3>1, SumLess
    <3>3. Sum(f, S) \in Nat
      BY <2>5, <2>7, SumType
    <3> QED BY <3>2, <3>3
  <2>9. Number(S) = 0 => SumOf(f) = 0
    <3>1. ASSUME Number(S) = 0 PROVE S = {}
      <4> SUFFICES ASSUME NEW b \in S PROVE FALSE
        OBVIOUS
      <4>1. ledger[b] \in Nat \ {0} /\ \A x \in S : ledger[x] \in Nat
        BY <2>7
      <4>2. ledger[b] <= Sum(ledger, S)
        BY <2>5, <4>1, SumHas
      <4> QED BY <2>5, <3>1, <4>1, <4>2
    <3> QED BY <2>5, <2>6, <3>1, SumSteps
  <2>10. PICK n \in Nat : n = Number(S)
    BY <2>5
  <2>11. PICK i \in Nat : i = SumOf(f)
    BY <2>6, <2>8
  <2>12. n <= i /\ (n = 0 => i = 0)
    BY <2>5, <2>6, <2>8, <2>9, <2>10, <2>11
  <2>13. n * i = i <=> n <= 1
    BY <2>12, Repeated
  <2> QED BY <2>1, <2>3, <2>4, <2>10, <2>11, <2>13
<1> QED BY <1>1, InitReportsInv, NextReportsInv, PTL DEF ReportsSpec

\* Some months' rows, added up by month.
Outside(I) == {b \in DOMAIN ledger : b.date.month \notin I}

LEMMA MonthsAddUp ==
  ASSUME ReportsInv, NEW I, IsFiniteSet(I), NEW R \in SUBSET DOMAIN ledger, NEW h,
         \A m \in I : h[m] = Total(During(m, R))
  PROVE  Sum(h, I) = Total(R) - Total(Outside(I) \cap R)
<1>1. PICK A, B : A = {b \in R : b.date.month \in I} /\ B = Outside(I) \cap R
  OBVIOUS
<1>2. A \in SUBSET DOMAIN ledger /\ B \in SUBSET DOMAIN ledger
  BY <1>1
<1>3. A \cup B = R /\ A \cap B = {}
  BY <1>1 DEF Outside
<1>4. /\ Total(A) = Sum(Worth, A) /\ IsFiniteSet(A) /\ Total(A) \in Int
      /\ Total(B) = Sum(Worth, B) /\ IsFiniteSet(B) /\ Total(B) \in Int
  BY <1>2, TotalIs
<1>5. \A b \in DOMAIN ledger : Worth[b] \in Int
  BY WorthType
<1>6. Total(R) = Sum(Worth, R)
  BY TotalIs
<1>7. Sum(Worth, A \cup B) = Sum(Worth, A) + Sum(Worth, B)
  BY <1>2, <1>3, <1>4, <1>5, SumParts
<1>8. PICK P : P = [m \in I |-> {b \in A : b.date.month = m}]
  OBVIOUS
<1>9. ASSUME NEW m \in I PROVE h[m] = Sum(Worth, P[m])
  <2>1. P[m] = During(m, R)
    BY <1>1, <1>8 DEF During
  <2>2. P[m] \in SUBSET DOMAIN ledger
    BY <1>2, <1>8
  <2>3. Total(P[m]) = Sum(Worth, P[m])
    BY <2>2, TotalIs
  <2> QED BY <2>1, <2>3
<1>10. /\ \A m \in I : P[m] \in SUBSET A
       /\ \A m, k \in I : m # k => P[m] \cap P[k] = {}
       /\ \A b \in A : \E m \in I : b \in P[m]
  BY <1>1, <1>8
<1>11. Sum(h, I) = Sum(Worth, A)
  <2>1. \A b \in A : Worth[b] \in Int
    BY <1>2, <1>5
  <2> QED BY <1>4, <1>9, <1>10, <2>1, SumByParts
<1>12. PICK x \in Int : x = Total(A)
  BY <1>4
<1>13. PICK y \in Int : y = Total(B)
  BY <1>4
<1>14. Total(R) = x + y
  BY <1>3, <1>4, <1>6, <1>7, <1>12, <1>13
<1>15. Total(R) - y = x
  BY <1>14
<1>16. Sum(h, I) = x /\ Total(Outside(I) \cap R) = y
  BY <1>1, <1>4, <1>11, <1>12, <1>13
<1> QED BY <1>15, <1>16

\* A graph of rounded months adds up to the rounded total but for the rounding.
LEMMA MonthsNear ==
  ASSUME ReportsInv, NEW I, IsFiniteSet(I), NEW R \in SUBSET DOMAIN ledger,
         NEW h, NEW g, DOMAIN g = I,
         \A m \in I : h[m] = Total(During(m, R)),
         \A m \in I : g[m] = AsInteger(h[m])
  PROVE  Near(I, g, AsInteger(Total(R)), Outside(I) \cap R)
<1>1. \A m \in I : h[m] \in Int
  <2>1. \A m \in I : During(m, R) \in SUBSET DOMAIN ledger
    BY DEF During
  <2> QED BY <2>1, TotalIs
<1>2. PICK e : e = Scaled(2, h, I)
  OBVIOUS
<1>3. \A m \in I : h[m] \in Int /\ e[m] = 2 * h[m]
  BY <1>1, <1>2 DEF Scaled
<1>4. ASSUME NEW m \in I
      PROVE  /\ g[m] \in Int /\ e[m] \in Int
             /\ -10 <= 20 * g[m] - e[m] /\ 20 * g[m] - e[m] <= 10
  <2>1. PICK x \in Int : x = h[m]
    BY <1>1
  <2>2. PICK q \in Int : q = AsInteger(x)
    BY AsIntegerIsNear
  <2>3. -10 <= 20 * q - 2 * x /\ 20 * q - 2 * x <= 10
    BY <2>2, AsIntegerIsNear
  <2>4. g[m] = q /\ e[m] = 2 * x
    BY <1>3, <2>1, <2>2
  <2> QED BY <2>3, <2>4
<1>5. /\ \A m \in I : g[m] \in Int /\ e[m] \in Int
      /\ \A m \in I : -10 <= 20 * g[m] - e[m] /\ 20 * g[m] - e[m] <= 10
  BY <1>4
<1>6. PICK a \in Int, b \in Int, n \in Nat :
        a = Sum(g, I) /\ b = Sum(e, I) /\ n = Cardinality(I)
  BY <1>5, SumType, FS_CardinalityType
<1>7. -(10 * n) <= 20 * a - b /\ 20 * a - b <= 10 * n
  <2>1. PICK c \in Int, d \in Nat : c = 20 /\ d = 10
    OBVIOUS
  <2>2. /\ \A m \in I : g[m] \in Int /\ e[m] \in Int
        /\ \A m \in I : -d <= c * g[m] - e[m] /\ c * g[m] - e[m] <= d
    BY <1>5, <2>1
  <2>3. -(d * n) <= c * a - b /\ c * a - b <= d * n
    BY <1>6, <2>2, SumNear
  <2> QED BY <2>1, <2>3
<1>8. Sum(e, I) = 2 * Sum(h, I)
  BY <1>3, SumTimes
<1>9. Outside(I) \cap R \in SUBSET DOMAIN ledger
  OBVIOUS
<1>10. PICK x \in Int, y \in Int : x = Total(R) /\ y = Total(Outside(I) \cap R)
  BY <1>9, TotalIs
<1>11. Sum(h, I) = x - y
  BY <1>10, MonthsAddUp
<1>12. b = 2 * (x - y)
  BY <1>6, <1>8, <1>11
<1>13. PICK t \in Int : t = AsInteger(x)
  BY AsIntegerIsNear
<1>14. -10 <= 20 * t - 2 * x /\ 20 * t - 2 * x <= 10
  BY <1>13, AsIntegerIsNear
<1>15. /\ -(10 * (n + 1)) <= 2 * (10 * a - 10 * t + y)
       /\ 2 * (10 * a - 10 * t + y) <= 10 * (n + 1)
  BY <1>7, <1>12, <1>14
<1>16. SumOf(g) = a
  BY <1>6 DEF SumOf, Sum
<1> QED BY <1>6, <1>10, <1>13, <1>15, <1>16 DEF Near, Unit

\* The graphs add up to the totals beside them, those of rounded SoM as nearly as
\* the rounding of each month allows.
THEOREM ReportsGraphsAddUp == ReportsSpec => []GraphsAddUp
<1>1. ReportsInv => GraphsAddUp
  <2> SUFFICES ASSUME ReportsInv, NEW from \in Months, NEW to \in Months, from <= to
               PROVE
            LET som == SomGraph(from, to)
                outside == {b \in DOMAIN ledger : b.date.month \notin from..to}
            IN  /\ Unit * SumOf([m \in from..to |-> som[m].rewarded])
                    = Unit * TotalRewardSom - Total(outside \cap Of({"reward"}))
                /\ Near(from..to, [m \in from..to |-> som[m].purchased],
                        TotalPurchasedSom, outside \cap Of({"recharge"}))
                /\ PaymentGraph(from, to)[to].total
                    = CumulativePayment - Total(outside \cap Of(Payments))
    BY DEF GraphsAddUp
  <2>1. PICK I : I = from..to
    OBVIOUS
  <2>2. IsFiniteSet(I) /\ to \in I
    <3>1. from \in Int /\ to \in Int
      BY ReportsAssumption DEF Months, ReportsAssumption
    <3> QED BY <2>1, <3>1, FS_Interval
  <2>3. PICK r, p, o : /\ r = [m \in I |-> SomGraph(from, to)[m].rewarded]
                       /\ p = [m \in I |-> SomGraph(from, to)[m].purchased]
                       /\ o = [m \in I |-> Total(During(m, Of(Payments)))]
    OBVIOUS
  <2>4. PICK x, y : /\ x = [m \in I |-> Total(During(m, Of({"reward"})))]
                    /\ y = [m \in I |-> Total(During(m, Of({"recharge"})))]
    OBVIOUS
  <2>5. /\ \A m \in I : x[m] = Total(During(m, Of({"reward"}))) /\ r[m] = AsInteger(x[m])
        /\ \A m \in I : y[m] = Total(During(m, Of({"recharge"}))) /\ p[m] = AsInteger(y[m])
        /\ \A m \in I : o[m] = Total(During(m, Of(Payments)))
    BY <2>1, <2>3, <2>4 DEF SomGraph
  <2>6. DOMAIN r = I /\ DOMAIN p = I /\ DOMAIN o = I
    BY <2>3
  <2>7. SumOf(r) = Sum(r, I) /\ SumOf(o) = Sum(o, I)
    BY <2>6 DEF SumOf, Sum
  <2>8. \A S : Of(S) \in SUBSET DOMAIN ledger
    BY DEF Of
  <2>9. /\ Sum(x, I) = Total(Of({"reward"})) - Total(Outside(I) \cap Of({"reward"}))
        /\ Sum(o, I) = Total(Of(Payments)) - Total(Outside(I) \cap Of(Payments))
    BY <2>2, <2>5, <2>8, MonthsAddUp
  <2>10. Near(I, p, TotalPurchasedSom, Outside(I) \cap Of({"recharge"}))
    <3>1. Near(I, p, AsInteger(Total(Of({"recharge"}))), Outside(I) \cap Of({"recharge"}))
      BY <2>2, <2>5, <2>6, <2>8, MonthsNear
    <3> QED BY <3>1 DEF TotalPurchasedSom
  <2>11. Unit * SumOf(r) = Unit * TotalRewardSom - Total(Outside(I) \cap Of({"reward"}))
    <3>1. ASSUME NEW m \in I PROVE r[m] \in Int /\ x[m] = 10 * r[m]
      <4>1. PICK S : S = During(m, Of({"reward"}))
        OBVIOUS
      <4>2. S \in SUBSET DOMAIN ledger /\ \A b \in S : b.book = "reward"
        BY <4>1 DEF During, Of
      <4>3. Unit * AsInteger(Total(S)) = Total(S) /\ Total(S) \in Int
        BY <4>2, RewardsAreWhole, TotalIs
      <4>4. AsInteger(Total(S)) \in Int
        BY <4>3, AsIntegerIsNear
      <4> QED BY <2>5, <4>1, <4>3, <4>4 DEF Unit
    <3>2. \A m \in I : r[m] \in Int /\ x[m] = 10 * r[m]
      BY <3>1
    <3>3. Sum(x, I) = 10 * Sum(r, I)
      BY <2>2, <3>2, SumTimes
    <3>4. Unit * TotalRewardSom = Total(Of({"reward"}))
      <4>1. \A b \in Of({"reward"}) : b.book = "reward"
        BY DEF Of
      <4> QED BY <2>8, <4>1, RewardsAreWhole DEF TotalRewardSom
    <3> QED BY <2>7, <2>9, <3>3, <3>4 DEF Unit
  <2>12. PaymentGraph(from, to)[to].total = SumOf(o)
    BY <2>1, <2>2, <2>3 DEF PaymentGraph
  <2>13. Outside(I) = {b \in DOMAIN ledger : b.date.month \notin from..to}
    BY <2>1 DEF Outside
  <2> QED BY <2>1, <2>3, <2>7, <2>9, <2>10, <2>11, <2>12, <2>13 DEF CumulativePayment
<1> QED BY <1>1, InitReportsInv, NextReportsInv, PTL DEF ReportsSpec

\* The least of some lengths.
LEMMA MinIs ==
  ASSUME NEW S \in SUBSET Nat, S # {}
  PROVE  Min(S) \in S /\ \A x \in S : Min(S) <= x
<1>1. \E n \in S : \A x \in S : n <= x
  BY Least
<1> QED BY <1>1 DEF Min

\* Months have from 28 to 31 days.
LEMMA MonthsType ==
  /\ Len(Lengths) \in Nat /\ Months = 1..Len(Lengths)
  /\ \A m \in Months : m \in Nat /\ Lengths[m] \in 28..31
BY ReportsAssumption DEF ReportsAssumption, Months

\* The end of a month, as the filter of dates takes it.
LEMMA EndOfMonthIs ==
  ASSUME NEW m \in Months, NEW to \in Months, m <= to
  PROVE  \E d \in 28..31 : EndOfMonths(m, to) = 100 * m + d
<1>1. PICK S : S = {Lengths[k] : k \in m..to}
  OBVIOUS
<1>2. \A k \in m..to : k \in Months
  BY MonthsType
<1>3. S \subseteq 28..31
  BY <1>1, <1>2, MonthsType
<1>4. S # {}
  BY <1>1, MonthsType
<1>5. S \in SUBSET Nat
  BY <1>3
<1>6. Min(S) \in 28..31
  BY <1>3, <1>4, <1>5, MinIs
<1> QED BY <1>1, <1>6 DEF EndOfMonths

\* Rows before an earlier time are fewer.
LEMMA BeforeGrows ==
  ASSUME ReportsInv, NEW x \in Nat, NEW y \in Nat, x <= y, NEW R \in SUBSET DOMAIN ledger,
         \A b \in R : b.book # "backward"
  PROVE  Total(Before(x, R)) <= Total(Before(y, R))
<1>1. PICK S, T : S = Before(y, R) /\ T = Before(x, R)
  OBVIOUS
<1>2. \A b \in DOMAIN ledger : At(b.date) \in Nat
  <2>1. ASSUME NEW b \in DOMAIN ledger PROVE At(b.date) \in Nat
    <3>1. /\ b.date.month \in 1..Len(Lengths) /\ Len(Lengths) \in Nat
          /\ b.date.day \in 1..31 /\ At(b.date) = 100 * b.date.month + b.date.day
      BY RowType
    <3>2. PICK m \in Nat : m = b.date.month
      BY <3>1
    <3>3. PICK d \in 1..31 : d = b.date.day
      BY <3>1
    <3>4. 100 * m + d \in Nat
      OBVIOUS
    <3> QED BY <3>1, <3>2, <3>3, <3>4
  <2> QED BY <2>1
<1>3. T \in SUBSET S
  BY <1>1, <1>2 DEF Before
<1>4. S \in SUBSET DOMAIN ledger /\ \A b \in S : b.book # "backward"
  BY <1>1 DEF Before
<1> QED BY <1>1, <1>3, <1>4, TotalGrows

\* The cumulative graph lags by what was paid from the 28th of a month on and by
\* no more than that and its rounding, and never falls, if no survey cost less than
\* nothing.
THEOREM ReportsCumulativeLags == ReportsSpec => []CumulativeLags
<1>1. ReportsInv => CumulativeLags
  <2> SUFFICES ASSUME ReportsInv, Of({"backward"}) = {},
                      NEW from \in Months, NEW to \in Months, from <= to,
                      NEW m \in from..to
               PROVE
                LET graph == CumulativeGraph(from, to)
                IN  /\ 2 * Unit * graph[m] <= 2 * Total(Before(100 * (m + 1), Of(Payments))) + Unit
                    /\ 2 * Unit * graph[m] >= 2 * Total(Before(100 * m + 28, Of(Payments))) - Unit
                    /\ m > from => graph[m - 1] <= graph[m]
    BY DEF CumulativeLags
  <2>1. \A k \in from..to : k \in Months /\ k \in Nat /\ k <= to
    BY MonthsType
  <2>2. PICK R : R = Of(Payments)
    OBVIOUS
  <2>3. R \in SUBSET DOMAIN ledger /\ \A b \in R : b.book # "backward"
    BY <2>2 DEF Of
  <2>4. \A k \in from..to :
            CumulativeGraph(from, to)[k] = AsInteger(Total(Before(EndOfMonths(k, to), R)))
    BY <2>2 DEF CumulativeGraph
  <2>5. \A t : Total(Before(t, R)) \in Int
    <3>1. \A t : Before(t, R) \in SUBSET DOMAIN ledger
      BY <2>3 DEF Before
    <3> QED BY <3>1, TotalIs
  <2>6. PICK d \in 28..31 : EndOfMonths(m, to) = 100 * m + d
    BY <2>1, EndOfMonthIs
  <2>7. PICK n \in Nat : n = m
    BY <2>1
  <2>8. PICK e \in Nat : e = EndOfMonths(m, to) /\ e = 100 * n + d
    BY <2>6, <2>7
  <2>9. PICK x \in Int : x = Total(Before(e, R))
    BY <2>5
  <2>10. PICK g \in Int : g = AsInteger(x) /\ g = CumulativeGraph(from, to)[m]
    BY <2>4, <2>8, <2>9, AsIntegerIsNear
  <2>11. -10 <= 20 * g - 2 * x /\ 20 * g - 2 * x <= 10
    BY <2>10, AsIntegerIsNear
  <2>12. PICK y \in Int, z \in Int : /\ y = Total(Before(100 * (m + 1), Of(Payments)))
                                     /\ z = Total(Before(100 * m + 28, Of(Payments)))
    BY <2>2, <2>5
  <2>13. x <= y
    <3>1. 100 * (n + 1) \in Nat /\ e <= 100 * (n + 1)
      BY <2>8
    <3>2. Total(Before(e, R)) <= Total(Before(100 * (n + 1), R))
      BY <2>3, <3>1, BeforeGrows
    <3> QED BY <2>2, <2>7, <2>9, <2>12, <3>2
  <2>14. z <= x
    <3>1. 100 * n + 28 \in Nat /\ 100 * n + 28 <= e
      BY <2>8
    <3>2. Total(Before(100 * n + 28, R)) <= Total(Before(e, R))
      BY <2>3, <3>1, BeforeGrows
    <3> QED BY <2>2, <2>7, <2>9, <2>12, <3>2
  <2>15. 20 * g <= 2 * y + 10 /\ 20 * g >= 2 * z - 10
    BY <2>11, <2>13, <2>14
  <2>16. ASSUME m > from PROVE CumulativeGraph(from, to)[m - 1] <= CumulativeGraph(from, to)[m]
    <3>1. m - 1 \in from..to
      BY <2>1, <2>16, MonthsType
    <3>2. m - 1 \in Months /\ m - 1 <= to
      BY <2>1, <3>1
    <3>3. PICK c \in 28..31 : EndOfMonths(m - 1, to) = 100 * (m - 1) + c
      BY <3>2, EndOfMonthIs
    <3>4. n - 1 \in Nat
      BY <2>1, <2>7, <3>1
    <3>5. PICK a \in Nat : a = EndOfMonths(m - 1, to) /\ a = 100 * (n - 1) + c
      BY <2>7, <3>3, <3>4
    <3>6. a <= e
      BY <2>8, <3>4, <3>5
    <3>7. PICK w \in Int : w = Total(Before(a, R))
      BY <2>5
    <3>8. w <= x
      BY <2>3, <2>9, <3>6, <3>7, BeforeGrows
    <3>9. AsInteger(w) <= AsInteger(x)
      BY <3>8, AsIntegerGrows
    <3> QED BY <2>4, <2>10, <3>1, <3>5, <3>7, <3>9
  <2> QED BY <2>10, <2>12, <2>15, <2>16 DEF Unit
<1> QED BY <1>1, InitReportsInv, NextReportsInv, PTL DEF ReportsSpec

\* The SOTs of the graph are those of the total but for the last day.
THEOREM ReportsSotsAddUp == ReportsSpec => []SotsAddUp
<1>1. SotsAddUp
  <2> SUFFICES ASSUME NEW from \in Date, NEW to \in Date, At(from) <= At(to)
               PROVE
        /\ SotGraph(from, to)[to.month] = Number(Before(At(to), Of({"sot"})))
        /\ from.month + 1 .. to.month \subseteq DOMAIN SotGraph(from, to)
        /\ DOMAIN SotGraph(from, to) \subseteq from.month .. to.month
    BY DEF SotsAddUp
  <2> DEFINE Day(m) == 100 * m + Min({to.day} \cup {Lengths[k] : k \in m..to.month})
  <2>1. \A d \in Date : /\ d.month \in Months /\ d.day \in 1..31 /\ d.day <= Lengths[d.month]
                        /\ At(d) = 100 * d.month + d.day
    BY ReportsAssumption DEF Date, At, ReportsAssumption
  <2>2. PICK fm \in Nat : fm = from.month
    BY <2>1, MonthsType
  <2>3. PICK tm \in Nat : tm = to.month
    BY <2>1, MonthsType
  <2>4. PICK fd \in 1..31 : fd = from.day
    BY <2>1
  <2>5. PICK td \in 1..31 : td = to.day
    BY <2>1
  <2>6. At(from) = 100 * fm + fd /\ At(to) = 100 * tm + td
    BY <2>1, <2>2, <2>3, <2>4, <2>5
  <2>7. fm <= tm
    BY <2>6
  <2>8. fm \in Months /\ tm \in Months /\ fm >= 1 /\ tm >= 1
    BY <2>1, <2>2, <2>3, MonthsType
  <2>9. \A k \in 1..tm : k \in Months
    BY <2>8, MonthsType
  <2>10. ASSUME NEW m \in 1..tm
         PROVE  \E d \in 1..31 : Day(m) = 100 * m + d
    <3>1. PICK S : S = {to.day} \cup {Lengths[k] : k \in m..to.month}
      OBVIOUS
    <3>2. \A k \in m..tm : Lengths[k] \in 28..31
      BY <2>9, MonthsType
    <3>3. S \subseteq 1..31 /\ S # {}
      BY <2>3, <2>5, <3>1, <3>2
    <3>4. S \in SUBSET Nat
      BY <3>3
    <3>5. Min(S) \in 1..31
      BY <3>3, <3>4, MinIs
    <3> QED BY <3>1, <3>5
  <2>11. Day(tm) = At(to)
    <3>1. PICK S : S = {to.day} \cup {Lengths[k] : k \in tm..to.month}
      OBVIOUS
    <3>2. PICK l \in 28..31 : l = Lengths[tm]
      BY <2>8, MonthsType
    <3>3. S = {td, l}
      <4>1. tm..tm = {tm}
        OBVIOUS
      <4> QED BY <2>3, <2>5, <3>1, <3>2, <4>1
    <3>4. td <= l
      BY <2>1, <2>3, <2>5, <3>2
    <3>5. S \in SUBSET Nat /\ S # {}
      BY <3>3
    <3>6. Min(S) \in S /\ Min(S) <= td
      BY <3>3, <3>5, MinIs
    <3>7. Min(S) = td
      BY <3>3, <3>4, <3>6
    <3> QED BY <2>6, <3>1, <3>7
  <2>12. SotGraph(from, to) = [m \in {k \in 1..tm : At(from) <= Day(k)} |->
                                  Number(Before(Day(m), Of({"sot"})))]
    BY <2>3 DEF SotGraph
  <2> HIDE DEF Day
  <2>13. DOMAIN SotGraph(from, to) = {k \in 1..tm : At(from) <= Day(k)}
    BY <2>12
  <2>14. tm \in 1..tm /\ At(from) <= Day(tm)
    BY <2>8, <2>11
  <2>15. SotGraph(from, to)[tm] = Number(Before(At(to), Of({"sot"})))
    BY <2>11, <2>12, <2>14
  <2>16. ASSUME NEW k \in fm + 1 .. tm PROVE k \in 1..tm /\ At(from) <= Day(k)
    <3>1. k \in 1..tm /\ k >= fm + 1
      OBVIOUS
    <3>2. PICK d \in 1..31 : Day(k) = 100 * k + d
      BY <2>10, <3>1
    <3> QED BY <2>6, <3>1, <3>2
  <2>17. ASSUME NEW k \in 1..tm, At(from) <= Day(k) PROVE k \in fm..tm
    <3>1. PICK d \in 1..31 : Day(k) = 100 * k + d
      BY <2>10
    <3>2. 100 * fm + fd <= 100 * k + d
      BY <2>6, <2>17, <3>1
    <3> QED BY <3>2
  <2> QED BY <2>2, <2>3, <2>13, <2>15, <2>16, <2>17
<1> QED BY <1>1, PTL DEF ReportsSpec
\* Members counted by a number each of them has.
Numbered(S, g, m) == {u \in S : g[u] = m}
UpTo(S, g, n)     == {u \in S : g[u] \in 1..n}

LEMMA GroupsAddUp ==
  ASSUME NEW S, IsFiniteSet(S), NEW g, NEW n \in Nat, NEW h,
         \A m \in 1..n : h[m] = Cardinality(Numbered(S, g, m))
  PROVE  Sum(h, 1..n) = Cardinality(UpTo(S, g, n))
<1>1. PICK T : T = UpTo(S, g, n) /\ T = {u \in S : g[u] \in 1..n}
  BY DEF UpTo
<1>2. PICK e : e = [u \in S |-> 1]
  OBVIOUS
<1>3. PICK I : I = 1..n
  OBVIOUS
<1>4. IsFiniteSet(I) /\ IsFiniteSet(T)
  <2>1. IsFiniteSet(1..n)
    BY FS_Interval
  <2>2. T \in SUBSET S
    BY <1>1
  <2> QED BY <1>3, <2>1, <2>2, FS_Subset
<1>5. PICK P : P = [m \in I |-> {u \in S : g[u] = m}]
  OBVIOUS
<1>6. /\ \A m \in I : P[m] \in SUBSET T
      /\ \A m, k \in I : m # k => P[m] \cap P[k] = {}
      /\ \A u \in T : \E m \in I : u \in P[m]
  BY <1>1, <1>3, <1>5
<1>7. \A R \in SUBSET S : Sum(e, R) = Cardinality(R)
  <2>1. ASSUME NEW R \in SUBSET S PROVE Sum(e, R) = Cardinality(R)
    <3>1. IsFiniteSet(R)
      BY FS_Subset
    <3>2. \A u \in R : e[u] = 1
      BY <1>2
    <3>3. Sum(e, R) = 1 * Cardinality(R) /\ Cardinality(R) \in Nat
      BY <3>1, <3>2, SumConstant
    <3> QED BY <3>3
  <2> QED BY <2>1
<1>8. \A m \in I : h[m] = Sum(e, P[m])
  <2>1. ASSUME NEW m \in I PROVE h[m] = Sum(e, P[m])
    <3>1. P[m] = Numbered(S, g, m) /\ P[m] \in SUBSET S
      BY <1>5 DEF Numbered
    <3>2. h[m] = Cardinality(P[m])
      BY <1>3, <3>1
    <3> QED BY <1>7, <3>1, <3>2
  <2> QED BY <2>1
<1>9. Sum(h, I) = Sum(e, T)
  <2>1. \A u \in T : e[u] \in Int
    BY <1>1, <1>2
  <2> QED BY <1>4, <1>6, <1>8, <2>1, SumByParts
<1>10. T \in SUBSET S
  BY <1>1
<1>11. Sum(e, T) = Cardinality(T)
  BY <1>7, <1>10
<1> QED BY <1>1, <1>3, <1>9, <1>11

\* Every member is in the graph of members once, and once in that of withdrawals
\* after one, no earlier.
THEOREM ReportsMembersAddUp == ReportsSpec => []MembersAddUp
<1>1. ReportsInv => MembersAddUp
  <2> SUFFICES ASSUME ReportsInv PROVE MembersAddUp
    OBVIOUS
  <2>1. PICK last \in Nat : last = Len(Lengths)
    BY MonthsType
  <2>2. PICK g, e : /\ g = [u \in Accounts |-> members[u].joined]
                    /\ e = [u \in Accounts |-> members[u].expiry - 6]
    OBVIOUS
  <2>3. PICK J, W : J = Joined /\ W = {u \in Joined : members[u].expiry # 0}
    OBVIOUS
  <2>4. IsFiniteSet(J) /\ IsFiniteSet(W) /\ J \in SUBSET Accounts /\ W \in SUBSET J
    <3>1. J \in SUBSET Accounts /\ W \in SUBSET Accounts /\ W \in SUBSET J
      BY <2>3 DEF Joined
    <3> QED BY <3>1, FS_Subset, ReportsAssumption DEF ReportsAssumption
  <2>5. /\ \A u \in J : g[u] \in 1..last /\ g[u] = members[u].joined
        /\ \A u \in W : /\ e[u] \in 1..last /\ e[u] = members[u].expiry - 6
                        /\ g[u] \in 1..last /\ g[u] <= e[u]
    <3>1. Months = 1..last
      BY <2>1, MonthsType
    <3>2. \A u \in J : u \in Accounts /\ members[u] # Stranger
      BY <2>3 DEF Joined
    <3>3. \A u \in W : u \in Accounts /\ u \in J /\ members[u].expiry # 0
      BY <2>3, <3>2
    <3>4. \A u \in J : members[u].joined \in Months
      BY <3>2 DEF ReportsInv
    <3>5. \A u \in W : /\ members[u].expiry - 6 \in Months /\ members[u].joined \in Months
                       /\ members[u].joined <= members[u].expiry - 6
      BY <3>3 DEF ReportsInv
    <3>6. /\ \A u \in J : g[u] = members[u].joined
          /\ \A u \in W : g[u] = members[u].joined /\ e[u] = members[u].expiry - 6
      BY <2>2, <3>2, <3>3
    <3> QED BY <3>1, <3>4, <3>5, <3>6
  <2>6. ASSUME NEW n \in 1..last \cup {last}
        PROVE  /\ SumOf(MemberShips(1, n)) = Cardinality(UpTo(J, g, n))
               /\ SumOf(Withdrawals(1, n)) = Cardinality(UpTo(W, e, n))
    <3>1. PICK h, k : h = MemberShips(1, n) /\ k = Withdrawals(1, n)
      OBVIOUS
    <3>2. n \in Nat
      OBVIOUS
    <3>3. \A m \in 1..n : h[m] = Cardinality(Numbered(J, g, m))
      <4>1. ASSUME NEW m \in 1..n PROVE h[m] = Cardinality(Numbered(J, g, m))
        <5>1. h[m] = Cardinality({u \in Joined : members[u].joined = m})
          BY <3>1 DEF MemberShips
        <5>2. {u \in Joined : members[u].joined = m} = Numbered(J, g, m)
          BY <2>3, <2>5 DEF Numbered
        <5> QED BY <5>1, <5>2
      <4> QED BY <4>1
    <3>4. \A m \in 1..n : k[m] = Cardinality(Numbered(W, e, m))
      <4>1. ASSUME NEW m \in 1..n PROVE k[m] = Cardinality(Numbered(W, e, m))
        <5>1. k[m] = Cardinality({u \in Joined : members[u].expiry # 0 /\ members[u].expiry - 6 = m})
          BY <3>1 DEF Withdrawals
        <5>2. {u \in Joined : members[u].expiry # 0 /\ members[u].expiry - 6 = m}
                = Numbered(W, e, m)
          BY <2>3, <2>5 DEF Numbered
        <5> QED BY <5>1, <5>2
      <4> QED BY <4>1
    <3>5. SumOf(h) = Sum(h, 1..n) /\ SumOf(k) = Sum(k, 1..n)
      <4>1. DOMAIN h = 1..n /\ DOMAIN k = 1..n
        BY <3>1 DEF MemberShips, Withdrawals
      <4> QED BY <4>1 DEF SumOf, Sum
    <3>6. Sum(h, 1..n) = Cardinality(UpTo(J, g, n))
      BY <2>4, <3>2, <3>3, GroupsAddUp
    <3>7. Sum(k, 1..n) = Cardinality(UpTo(W, e, n))
      BY <2>4, <3>2, <3>4, GroupsAddUp
    <3> QED BY <3>1, <3>5, <3>6, <3>7
  <2>7. /\ SumOf(MemberShips(1, last)) = Cardinality(J)
        /\ SumOf(Withdrawals(1, last)) = Cardinality(W)
    <3>1. UpTo(J, g, last) = J /\ UpTo(W, e, last) = W
      BY <2>5 DEF UpTo
    <3>2. /\ SumOf(MemberShips(1, last)) = Cardinality(UpTo(J, g, last))
          /\ SumOf(Withdrawals(1, last)) = Cardinality(UpTo(W, e, last))
      <4>1. last \in 1..last \cup {last}
        OBVIOUS
      <4> QED BY <4>1, <2>6, Zenon
    <3> QED BY <3>1, <3>2
  <2>8. ASSUME NEW n \in 1..last
        PROVE  SumOf(Withdrawals(1, n)) <= SumOf(MemberShips(1, n))
    <3>1. PICK A, B : A = UpTo(J, g, n) /\ B = UpTo(W, e, n)
      OBVIOUS
    <3>2. B \in SUBSET A
      BY <2>4, <2>5, <3>1 DEF UpTo
    <3>3. A \in SUBSET J
      BY <3>1 DEF UpTo
    <3>4. IsFiniteSet(A)
      BY <2>4, <3>3, FS_Subset
    <3>5. Cardinality(B) <= Cardinality(A)
      BY <3>2, <3>4, FS_Subset
    <3>6. SumOf(MemberShips(1, n)) = Cardinality(A) /\ SumOf(Withdrawals(1, n)) = Cardinality(B)
      <4>1. n \in 1..last \cup {last}
        OBVIOUS
      <4>2. /\ SumOf(MemberShips(1, n)) = Cardinality(UpTo(J, g, n))
            /\ SumOf(Withdrawals(1, n)) = Cardinality(UpTo(W, e, n))
        BY <4>1, <2>6, Zenon
      <4> QED BY <4>2, <3>1, Zenon
    <3> QED BY <3>5, <3>6
  <2> QED BY <2>1, <2>3, <2>7, <2>8 DEF MembersAddUp
<1> QED BY <1>1, InitReportsInv, NextReportsInv, PTL DEF ReportsSpec

\* All of it, for any users, rows and months.
THEOREM ReportsKept == ReportsSpec => []ReportsSound
<1> QED BY ReportsTypeCorrect, ReportsHistoriesAgree, ReportsPurchasesListed,
           ReportsGraphsAddUp, ReportsCumulativeLags, ReportsSotsAddUp,
           ReportsMembersAddUp, PTL DEF ReportsSound

\* The figures that receipts, charts and reports show agree with each other, each up
\* to its rounding, for any values of all constants.
THEOREM FiguresKept == FiguresSpec => []FiguresSound
<1> QED BY FeesKept, ChartsKept, ReportsKept, PTL DEF FiguresSpec, FiguresSound
=============================================================================
