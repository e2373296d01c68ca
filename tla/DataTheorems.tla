----------------------------- MODULE DataTheorems -----------------------------
(***************************************************************************)
(* Induction over finite sets, the sums of SumFunctionOnSet and the        *)
(* enumerations of Ascending.  Induction is that of a set of natural       *)
(* numbers that holds 0 and the successor of each of its members: a        *)
(* property becomes the set of the sizes for which it holds.               *)
(***************************************************************************)
EXTENDS Ascending, Functions, FiniteSetTheorems, SequenceTheorems, WellFoundedInduction, TLAPS

(* A set of natural numbers that is not empty has a least member. *)
LEMMA LeastNat ==
  ASSUME NEW T \in SUBSET Nat, T # {}
  PROVE  \E n \in T : \A k \in T : n <= k
<1> DEFINE R == {ss \in Nat \X Nat : ss[1] < ss[2]}
<1>1. IsWellFoundedOn(R, Nat)
  BY NatLessThanWellFounded DEF OpToRel
<1>2. PICK x \in T : \A y \in T : ~(<<y, x>> \in R)
  BY <1>1, WFMin
<1>3. ASSUME NEW k \in T PROVE x <= k
  <2>1. <<k, x>> \notin R
    BY <1>2
  <2>2. <<k, x>> \in Nat \X Nat /\ <<k, x>>[1] = k /\ <<k, x>>[2] = x
    OBVIOUS
  <2>3. ~(k < x)
    BY <2>1, <2>2
  <2>4. QED
    BY <2>2, <2>3
<1>4. QED
  BY <1>3

(* Induction: a set of numbers with 0 and every successor has them all. *)
THEOREM SetInduction ==
  ASSUME NEW T \in SUBSET Nat, 0 \in T, \A n \in T : n + 1 \in T
  PROVE  T = Nat
<1> SUFFICES ASSUME Nat \ T # {} PROVE FALSE
  OBVIOUS
<1>1. PICK n \in Nat \ T : \A k \in Nat \ T : n <= k
  <2> DEFINE U == Nat \ T
  <2>1. U \in SUBSET Nat /\ U # {}
    OBVIOUS
  <2> HIDE DEF U
  <2>2. \E n \in U : \A k \in U : n <= k
    BY <2>1, LeastNat
  <2> QED BY <2>2 DEF U
<1>2. n # 0 /\ n - 1 \in Nat
  OBVIOUS
<1>3. n - 1 \in T
  BY <1>1, <1>2
<1>4. QED
  BY <1>2, <1>3

(* A function on the first numbers that is defined from the one before. *)
THEOREM RecursionOnNumbers ==
  ASSUME NEW m \in Nat, NEW c \in Nat, NEW step \in [Nat -> Nat]
  PROVE  \E f \in [0..m -> Nat] : f = [n \in 0..m |-> IF n = 0 THEN c ELSE step[f[n - 1]]]
<1> DEFINE Solves(f, k) == f = [n \in 0..k |-> IF n = 0 THEN c ELSE step[f[n - 1]]]
           G == {k \in Nat : \E f \in [0..k -> Nat] : Solves(f, k)}
<1>1. 0 \in G
  <2>1. [n \in 0..0 |-> c] \in [0..0 -> Nat] /\ Solves([n \in 0..0 |-> c], 0)
    OBVIOUS
  <2>2. QED
    BY <2>1
<1>2. ASSUME NEW k \in G PROVE k + 1 \in G
  <2>1. PICK f \in [0..k -> Nat] : Solves(f, k)
    OBVIOUS
  <2> DEFINE g == [n \in 0..(k + 1) |-> IF n = k + 1 THEN step[f[k]] ELSE f[n]]
  <2>2. k \in Nat /\ f[k] \in Nat /\ \A n \in 0..(k + 1) : n # k + 1 => n \in 0..k
    OBVIOUS
  <2>3. g \in [0..(k + 1) -> Nat]
    BY <2>2
  <2>4. ASSUME NEW n \in 0..(k + 1) PROVE g[n] = IF n = 0 THEN c ELSE step[g[n - 1]]
    <3>1. CASE n = k + 1
      <4>1. g[n] = step[f[k]] /\ n # 0 /\ n - 1 = k /\ g[k] = f[k]
        BY <2>2, <3>1
      <4>2. QED
        BY <4>1, Zenon
    <3>2. CASE n # k + 1
      <4>1. n \in 0..k /\ g[n] = f[n] /\ (n # 0 => n - 1 \in 0..(k + 1) /\ n - 1 # k + 1)
        BY <2>2, <3>2
      <4>2. f[n] = IF n = 0 THEN c ELSE step[f[n - 1]]
        BY <2>1, <4>1
      <4>3. n # 0 => g[n - 1] = f[n - 1]
        BY <4>1
      <4>4. QED
        BY <4>1, <4>2, <4>3, Zenon
    <3>3. QED
      BY <3>1, <3>2
  <2>5. Solves(g, k + 1)
    <3> HIDE DEF g
    <3>1. g = [n \in 0..(k + 1) |-> g[n]]
      BY <2>3
    <3>2. QED
      BY <2>4, <3>1
  <2>6. \E h \in [0..(k + 1) -> Nat] : Solves(h, k + 1)
    <3> HIDE DEF g, Solves
    <3>1. QED
      BY <2>3, <2>5
  <2>7. k + 1 \in Nat
    BY <2>2
  <2>8. QED
    <3> HIDE DEF g, Solves
    <3>1. QED
      BY <2>6, <2>7, Zenon
<1>3. G = Nat
  <2>1. G \in SUBSET Nat
    OBVIOUS
  <2> HIDE DEF G
  <2>2. QED
    BY <1>1, <1>2, <2>1, SetInduction
<1>4. QED
  BY <1>3

(* The same with integers, and a definition that depends on the number. *)
THEOREM IndexedRecursion ==
  ASSUME NEW m \in Nat, NEW c \in Int, NEW step \in [1..m -> [Int -> Int]]
  PROVE  \E f \in [0..m -> Int] : f[0] = c /\ \A n \in 1..m : f[n] = step[n][f[n - 1]]
<1> DEFINE Solves(f, k) == f[0] = c /\ \A n \in 1..k : f[n] = step[n][f[n - 1]]
           G == {k \in Nat : k <= m => \E f \in [0..k -> Int] : Solves(f, k)}
<1>1. 0 \in G
  <2>1. [n \in 0..0 |-> c] \in [0..0 -> Int] /\ Solves([n \in 0..0 |-> c], 0)
    OBVIOUS
  <2>2. QED
    BY <2>1
<1>2. ASSUME NEW k \in G PROVE k + 1 \in G
  <2>1. k \in Nat /\ k + 1 \in Nat /\ (k <= m => \E f \in [0..k -> Int] : Solves(f, k))
    <3> HIDE DEF Solves
    <3>1. QED
      OBVIOUS
  <2>2. ASSUME k + 1 <= m PROVE \E f \in [0..(k + 1) -> Int] : Solves(f, k + 1)
    <3>0. k <= m /\ k \in 0..k /\ k + 1 \in 1..m
      BY <2>1, <2>2
    <3>1. PICK f \in [0..k -> Int] : Solves(f, k)
      <4> HIDE DEF Solves
      <4>1. QED
        BY <2>1, <3>0
    <3> DEFINE g == [n \in 0..(k + 1) |-> IF n = k + 1 THEN step[k + 1][f[k]] ELSE f[n]]
    <3>2. f[k] \in Int /\ step[k + 1] \in [Int -> Int] /\ step[k + 1][f[k]] \in Int
      BY <3>0
    <3>3. \A n \in 0..(k + 1) : n # k + 1 => n \in 0..k
      BY <2>1
    <3>4. g \in [0..(k + 1) -> Int]
      BY <3>2, <3>3
    <3>5. g[0] = c
      BY <2>1, <3>1
    <3>6. ASSUME NEW n \in 1..(k + 1) PROVE g[n] = step[n][g[n - 1]]
      <4>1. CASE n = k + 1
        <5>1. n \in 0..(k + 1) /\ n - 1 = k /\ k \in 0..(k + 1) /\ k # k + 1
          BY <2>1, <4>1
        <5>2. g[n] = step[k + 1][f[k]] /\ g[k] = f[k]
          BY <4>1, <5>1
        <5>3. QED
          BY <4>1, <5>1, <5>2
      <4>2. CASE n # k + 1
        <5>1. /\ n \in 1..k /\ n \in 0..(k + 1) /\ n - 1 \in 0..(k + 1) /\ n - 1 # k + 1
          BY <2>1, <4>2
        <5>2. g[n] = f[n] /\ g[n - 1] = f[n - 1]
          BY <4>2, <5>1
        <5>3. QED
          BY <3>1, <5>1, <5>2
      <4>3. QED
        BY <4>1, <4>2
    <3> HIDE DEF g
    <3>7. QED
      BY <3>4, <3>5, <3>6
  <2> HIDE DEF Solves
  <2>3. QED
    BY <2>1, <2>2, Zenon
<1>3. G = Nat
  <2>1. G \in SUBSET Nat
    OBVIOUS
  <2> HIDE DEF G
  <2>2. QED
    BY <1>1, <1>2, <2>1, SetInduction
<1>4. m \in G
  <2> HIDE DEF G
  <2>1. QED
    BY <1>3
<1>5. \E f \in [0..m -> Int] : Solves(f, m)
  <2>1. m <= m
    OBVIOUS
  <2> HIDE DEF Solves
  <2>2. QED
    BY <1>4, <2>1
<1>6. QED
  BY <1>5

-----------------------------------------------------------------------------
(* The parts of a finite set. *)
LEMMA Parts ==
  ASSUME NEW U, IsFiniteSet(U), NEW S \in SUBSET U
  PROVE  IsFiniteSet(S) /\ Cardinality(S) \in Nat /\ (Cardinality(S) = 0 <=> S = {})
BY FS_Subset, FS_CardinalityType, FS_EmptySet

(* A finite set without one of its members is one smaller. *)
LEMMA OneLess ==
  ASSUME NEW U, IsFiniteSet(U), NEW S \in SUBSET U, NEW x \in S
  PROVE  /\ S \ {x} \in SUBSET U /\ Cardinality(S \ {x}) \in Nat
         /\ Cardinality(S) = Cardinality(S \ {x}) + 1
<1>1. IsFiniteSet(S) /\ Cardinality(S) \in Nat /\ S # {}
  BY Parts
<1>2. Cardinality(S \ {x}) = Cardinality(S) - 1
  BY <1>1, FS_RemoveElement
<1>3. Cardinality(S \ {x}) \in Nat
  BY Parts
<1>4. QED
  BY <1>1, <1>2, <1>3

(* Induction over the subsets of a finite set. *)
THEOREM SubsetInduction ==
  ASSUME NEW U, IsFiniteSet(U), NEW G \in SUBSET (SUBSET U),
         \A S \in SUBSET U : (\A x \in S : S \ {x} \in G) => S \in G
  PROVE  G = SUBSET U
<1> DEFINE T == {n \in Nat : \A S \in SUBSET U : Cardinality(S) = n => S \in G}
<1>1. 0 \in T
  BY Parts
<1>2. ASSUME NEW n \in T PROVE n + 1 \in T
  <2>1. n \in Nat /\ \A S \in SUBSET U : Cardinality(S) = n => S \in G
    OBVIOUS
  <2>2. ASSUME NEW S \in SUBSET U, Cardinality(S) = n + 1 PROVE S \in G
    <3>1. ASSUME NEW x \in S PROVE S \ {x} \in G
      <4>1. S \ {x} \in SUBSET U /\ Cardinality(S \ {x}) \in Nat /\ Cardinality(S) = Cardinality(S \ {x}) + 1
        BY OneLess
      <4>2. Cardinality(S \ {x}) = n
        BY <2>1, <2>2, <4>1
      <4>3. QED
        BY <2>1, <4>1, <4>2
    <3>2. QED
      BY <3>1
  <2>3. QED
    BY <2>1, <2>2
<1>3. T = Nat
  <2>1. T \in SUBSET Nat
    OBVIOUS
  <2> HIDE DEF T
  <2>2. QED
    BY <1>1, <1>2, <2>1, SetInduction
<1>4. ASSUME NEW S \in SUBSET U PROVE S \in G
  <2>1. Cardinality(S) \in Nat
    BY Parts
  <2>2. Cardinality(S) \in T
    BY <1>3, <2>1
  <2>3. QED
    BY <2>2
<1>5. QED
  BY <1>4

-----------------------------------------------------------------------------
(* The recursive function that SumFunctionOnSet is made of. *)
Pick(s) == CHOOSE x \in s : TRUE
IsSum(it, f, D) == it = [s \in D |-> IF s = {} THEN 0 ELSE f[Pick(s)] + it[s \ {Pick(s)}]]
Iter(f, S) == CHOOSE it : IsSum(it, f, SUBSET S)

(* SumFunctionOnSet is the recursion named here. *)
LEMMA SumUnfold == ASSUME NEW f, NEW S PROVE SumFunctionOnSet(f, S) = Iter(f, S)[S]
BY DEF SumFunctionOnSet, FoldFunctionOnSet, MapThenFoldSet, Iter, IsSum, Pick

(* The member folded first is one. *)
LEMMA PickIn == ASSUME NEW S, S # {} PROVE Pick(S) \in S
BY DEF Pick

(* The recursion over the subsets of a finite set has a solution. *)
LEMMA IterExists ==
  ASSUME NEW f, NEW U, IsFiniteSet(U)
  PROVE  IsSum(Iter(f, U), f, SUBSET U)
<1> DEFINE D(n) == {s \in SUBSET U : Cardinality(s) <= n}
           T == {n \in Nat : \E it : IsSum(it, f, D(n))}
<1>1. 0 \in T
  <2> DEFINE g == [s \in D(0) |-> 0]
  <2>1. \A s \in D(0) : s = {}
    BY Parts
  <2>2. g = [s \in D(0) |-> IF s = {} THEN 0 ELSE f[Pick(s)] + g[s \ {Pick(s)}]]
    BY <2>1
  <2>3. IsSum(g, f, D(0))
    BY <2>2 DEF IsSum
  <2>4. QED
    BY <2>3
<1>2. ASSUME NEW n \in T PROVE n + 1 \in T
  <2>1. n \in Nat
    OBVIOUS
  <2>2. PICK it : IsSum(it, f, D(n))
    OBVIOUS
  <2> DEFINE E == D(n + 1)
             g == [s \in E |-> IF s = {} THEN 0 ELSE f[Pick(s)] + it[s \ {Pick(s)}]]
  <2>3. ASSUME NEW s \in E, s # {}
        PROVE  it[s \ {Pick(s)}] = g[s \ {Pick(s)}]
    <3> DEFINE t == s \ {Pick(s)}
    <3>1. t \in SUBSET U /\ Cardinality(t) \in Nat /\ Cardinality(s) = Cardinality(t) + 1 /\ s \in SUBSET U
      BY <2>3, OneLess, PickIn
    <3>2. t \in D(n) /\ t \in E
      BY <2>1, <2>3, <3>1
    <3> HIDE DEF t
    <3>3. it[t] = IF t = {} THEN 0 ELSE f[Pick(t)] + it[t \ {Pick(t)}]
      <4> HIDE DEF D
      <4> QED BY <2>2, <3>2 DEF IsSum
    <3>4. g[t] = IF t = {} THEN 0 ELSE f[Pick(t)] + it[t \ {Pick(t)}]
      <4> HIDE DEF E
      <4> QED BY <3>2
    <3>5. QED
      BY <3>3, <3>4 DEF t
  <2>4. g = [s \in E |-> IF s = {} THEN 0 ELSE f[Pick(s)] + g[s \ {Pick(s)}]]
    <3> DEFINE h == [s \in E |-> IF s = {} THEN 0 ELSE f[Pick(s)] + g[s \ {Pick(s)}]]
    <3>1. ASSUME NEW s \in E PROVE g[s] = h[s]
      <4>1. g[s] = IF s = {} THEN 0 ELSE f[Pick(s)] + it[s \ {Pick(s)}]
        <5> HIDE DEF E
        <5> QED OBVIOUS
      <4>2. h[s] = IF s = {} THEN 0 ELSE f[Pick(s)] + g[s \ {Pick(s)}]
        <5> HIDE DEF E, g
        <5> QED OBVIOUS
      <4> HIDE DEF g, h, E
      <4>3. QED
        BY <2>3, <4>1, <4>2
    <3> HIDE DEF E
    <3>2. QED
      BY <3>1
  <2>5. IsSum(g, f, D(n + 1))
    BY <2>4 DEF IsSum
  <2> HIDE DEF g, E, D
  <2>6. n + 1 \in Nat /\ \E h : IsSum(h, f, D(n + 1))
    BY <2>1, <2>5
  <2>7. QED
    BY <2>6
<1>3. T = Nat
  <2>1. T \in SUBSET Nat
    OBVIOUS
  <2> HIDE DEF T
  <2>2. QED
    BY <1>1, <1>2, <2>1, SetInduction
<1>4. D(Cardinality(U)) = SUBSET U /\ Cardinality(U) \in T
  BY <1>3, FS_Subset, FS_CardinalityType
<1>5. \E it : IsSum(it, f, SUBSET U)
  BY <1>4
<1>6. QED
  BY <1>5 DEF Iter

(* One step of the recursion over subsets. *)
LEMMA IterStep ==
  ASSUME NEW f, NEW U, IsFiniteSet(U), NEW S \in SUBSET U
  PROVE  Iter(f, U)[S] = IF S = {} THEN 0 ELSE f[Pick(S)] + Iter(f, U)[S \ {Pick(S)}]
<1> DEFINE it == Iter(f, U)
<1>1. IsSum(it, f, SUBSET U)
  BY IterExists
<1> HIDE DEF it
<1>2. it[S] = IF S = {} THEN 0 ELSE f[Pick(S)] + it[S \ {Pick(S)}]
  BY <1>1 DEF IsSum
<1>3. QED
  BY <1>2 DEF it

(* The sum does not depend on the set it is unfolded over. *)
LEMMA IterAgrees ==
  ASSUME NEW f, NEW U, IsFiniteSet(U), NEW V \in SUBSET U
  PROVE  \A S \in SUBSET V : Iter(f, V)[S] = Iter(f, U)[S]
<1> DEFINE G == {S \in SUBSET V : Iter(f, V)[S] = Iter(f, U)[S]}
<1>0. IsFiniteSet(V)
  BY FS_Subset
<1>1. ASSUME NEW S \in SUBSET V, \A x \in S : S \ {x} \in G PROVE S \in G
  <2>0. S \in SUBSET V /\ S \in SUBSET U
    OBVIOUS
  <2> HIDE DEF G
  <2>1. Iter(f, V)[S] = IF S = {} THEN 0 ELSE f[Pick(S)] + Iter(f, V)[S \ {Pick(S)}]
    BY <1>0, <2>0, IterStep
  <2>2. Iter(f, U)[S] = IF S = {} THEN 0 ELSE f[Pick(S)] + Iter(f, U)[S \ {Pick(S)}]
    BY <2>0, IterStep
  <2>3. S # {} => Iter(f, V)[S \ {Pick(S)}] = Iter(f, U)[S \ {Pick(S)}]
    BY <1>1, PickIn DEF G
  <2>4. QED
    BY <2>0, <2>1, <2>2, <2>3 DEF G
<1>2. G = SUBSET V
  <2>1. G \in SUBSET (SUBSET V)
    OBVIOUS
  <2> HIDE DEF G
  <2>2. QED
    BY <1>0, <1>1, <2>1, SubsetInduction
<1>3. QED
  BY <1>2

(* One step of SumFunctionOnSet. *)
LEMMA SumStep ==
  ASSUME NEW f, NEW S, IsFiniteSet(S)
  PROVE  SumFunctionOnSet(f, S) =
           IF S = {} THEN 0 ELSE f[Pick(S)] + SumFunctionOnSet(f, S \ {Pick(S)})
<1>1. Iter(f, S)[S] = IF S = {} THEN 0 ELSE f[Pick(S)] + Iter(f, S)[S \ {Pick(S)}]
  BY IterStep
<1>2. S # {} => Iter(f, S)[S \ {Pick(S)}] = Iter(f, S \ {Pick(S)})[S \ {Pick(S)}]
  BY IterAgrees, PickIn
<1>3. QED
  BY <1>1, <1>2, SumUnfold

-----------------------------------------------------------------------------
(* Sums over the parts of a finite set U of integers f. *)
THEOREM SumEmpty == ASSUME NEW f PROVE SumFunctionOnSet(f, {}) = 0
BY SumStep, FS_EmptySet

(* A sum of integers is an integer. *)
THEOREM SumInt ==
  ASSUME NEW U, IsFiniteSet(U), NEW f, \A i \in U : f[i] \in Int, NEW S \in SUBSET U
  PROVE  SumFunctionOnSet(f, S) \in Int
<1> DEFINE G == {R \in SUBSET U : SumFunctionOnSet(f, R) \in Int}
<1>1. ASSUME NEW R \in SUBSET U, \A x \in R : R \ {x} \in G PROVE R \in G
  <2>1. IsFiniteSet(R)
    BY FS_Subset
  <2>2. SumFunctionOnSet(f, R) = IF R = {} THEN 0 ELSE f[Pick(R)] + SumFunctionOnSet(f, R \ {Pick(R)})
    BY <2>1, SumStep
  <2>3. R # {} => f[Pick(R)] \in Int /\ SumFunctionOnSet(f, R \ {Pick(R)}) \in Int
    BY <1>1, PickIn
  <2>4. QED
    BY <2>2, <2>3
<1>2. G = SUBSET U
  <2>1. G \in SUBSET (SUBSET U)
    OBVIOUS
  <2> HIDE DEF G
  <2>2. QED
    BY <1>1, <2>1, SubsetInduction
<1>3. QED
  BY <1>2

(* A sum of natural numbers is one. *)
THEOREM SumNat ==
  ASSUME NEW U, IsFiniteSet(U), NEW f, \A i \in U : f[i] \in Nat, NEW S \in SUBSET U
  PROVE  SumFunctionOnSet(f, S) \in Nat
<1> DEFINE G == {R \in SUBSET U : SumFunctionOnSet(f, R) \in Nat}
<1>1. ASSUME NEW R \in SUBSET U, \A x \in R : R \ {x} \in G PROVE R \in G
  <2>1. IsFiniteSet(R)
    BY FS_Subset
  <2>2. SumFunctionOnSet(f, R) = IF R = {} THEN 0 ELSE f[Pick(R)] + SumFunctionOnSet(f, R \ {Pick(R)})
    BY <2>1, SumStep
  <2>3. R # {} => f[Pick(R)] \in Nat /\ SumFunctionOnSet(f, R \ {Pick(R)}) \in Nat
    BY <1>1, PickIn
  <2>4. QED
    BY <2>2, <2>3
<1>2. G = SUBSET U
  <2>1. G \in SUBSET (SUBSET U)
    OBVIOUS
  <2> HIDE DEF G
  <2>2. QED
    BY <1>1, <2>1, SubsetInduction
<1>3. QED
  BY <1>2

(* Only the summands count. *)
THEOREM SumCongruent ==
  ASSUME NEW S, IsFiniteSet(S), NEW f, NEW g, \A i \in S : f[i] = g[i]
  PROVE  SumFunctionOnSet(f, S) = SumFunctionOnSet(g, S)
<1> DEFINE G == {R \in SUBSET S : SumFunctionOnSet(f, R) = SumFunctionOnSet(g, R)}
<1>1. ASSUME NEW R \in SUBSET S, \A x \in R : R \ {x} \in G PROVE R \in G
  <2>1. IsFiniteSet(R)
    BY FS_Subset
  <2>2. SumFunctionOnSet(f, R) = IF R = {} THEN 0 ELSE f[Pick(R)] + SumFunctionOnSet(f, R \ {Pick(R)})
    BY <2>1, SumStep
  <2>3. SumFunctionOnSet(g, R) = IF R = {} THEN 0 ELSE g[Pick(R)] + SumFunctionOnSet(g, R \ {Pick(R)})
    BY <2>1, SumStep
  <2>4. R # {} => f[Pick(R)] = g[Pick(R)]
                  /\ SumFunctionOnSet(f, R \ {Pick(R)}) = SumFunctionOnSet(g, R \ {Pick(R)})
    BY <1>1, PickIn
  <2>5. QED
    BY <2>2, <2>3, <2>4
<1>2. G = SUBSET S
  <2>1. G \in SUBSET (SUBSET S)
    OBVIOUS
  <2> HIDE DEF G
  <2>2. QED
    BY <1>1, <2>1, SubsetInduction
<1>3. QED
  BY <1>2

(* Any summand may be taken out first. *)
THEOREM SumRemove ==
  ASSUME NEW U, IsFiniteSet(U), NEW f, \A i \in U : f[i] \in Int, NEW S \in SUBSET U, NEW x \in S
  PROVE  SumFunctionOnSet(f, S) = f[x] + SumFunctionOnSet(f, S \ {x})
<1> DEFINE Sum(R) == SumFunctionOnSet(f, R)
           G == {R \in SUBSET U : \A y \in R : Sum(R) = f[y] + Sum(R \ {y})}
<1>1. ASSUME NEW R \in SUBSET U, \A y \in R : R \ {y} \in G PROVE R \in G
  <2>1. IsFiniteSet(R)
    BY FS_Subset
  <2>2. ASSUME NEW y \in R PROVE Sum(R) = f[y] + Sum(R \ {y})
    <3> DEFINE p == Pick(R)
    <3>1. p \in R /\ Sum(R) = f[p] + Sum(R \ {p})
      BY <2>1, PickIn, SumStep
    <3> HIDE DEF p
    <3>2. CASE y = p
      BY <3>1, <3>2
    <3>3. CASE y # p
      <4>1. R \ {p} \in G /\ R \ {y} \in G /\ y \in R \ {p} /\ p \in R \ {y}
        BY <1>1, <3>1, <3>3
      <4>2. Sum(R \ {p}) = f[y] + Sum((R \ {p}) \ {y})
        BY <4>1
      <4>3. Sum(R \ {y}) = f[p] + Sum((R \ {y}) \ {p})
        BY <4>1
      <4>4. (R \ {p}) \ {y} = (R \ {y}) \ {p} /\ (R \ {p}) \ {y} \in SUBSET U
        OBVIOUS
      <4>5. Sum((R \ {p}) \ {y}) \in Int /\ f[p] \in Int /\ f[y] \in Int
        BY <3>1, <4>4, SumInt
      <4> HIDE DEF Sum
      <4>6. Sum(R) = f[p] + (f[y] + Sum((R \ {p}) \ {y})) /\ Sum(R \ {y}) = f[p] + Sum((R \ {p}) \ {y})
        BY <3>1, <4>2, <4>3, <4>4
      <4>7. QED
        BY <4>5, <4>6
    <3>4. QED
      BY <3>2, <3>3
  <2>3. QED
    BY <2>2
<1>2. G = SUBSET U
  <2>1. G \in SUBSET (SUBSET U)
    OBVIOUS
  <2> HIDE DEF G
  <2>2. QED
    BY <1>1, <2>1, SubsetInduction
<1>3. QED
  BY <1>2

(* The sum of two parts without a common member. *)
THEOREM SumDisjoint ==
  ASSUME NEW U, IsFiniteSet(U), NEW f, \A i \in U : f[i] \in Int,
         NEW S \in SUBSET U, NEW T \in SUBSET U, S \cap T = {}
  PROVE  SumFunctionOnSet(f, S \cup T) = SumFunctionOnSet(f, S) + SumFunctionOnSet(f, T)
<1> DEFINE Sum(R) == SumFunctionOnSet(f, R)
           G == {R \in SUBSET T : Sum(S \cup R) = Sum(S) + Sum(R)}
<1>0. IsFiniteSet(T)
  BY FS_Subset
<1>1. ASSUME NEW R \in SUBSET T, \A y \in R : R \ {y} \in G PROVE R \in G
  <2>1. CASE R = {}
    <3>1. S \cup R = S /\ Sum(S) \in Int /\ Sum(R) = 0
      BY <2>1, SumInt, SumEmpty
    <3>2. Sum(S \cup R) = Sum(S)
      BY <3>1, Zenon
    <3> HIDE DEF Sum
    <3>3. \A a \in Int : a = a + 0
      OBVIOUS
    <3>4. Sum(S) = Sum(S) + Sum(R)
      BY <3>1, <3>3, Zenon
    <3>5. QED
      BY <3>2, <3>4, Zenon
  <2>2. ASSUME NEW y \in R PROVE R \in G
    <3>1. /\ S \cup R \in SUBSET U /\ R \in SUBSET U /\ y \in S \cup R /\ R \ {y} \in SUBSET U
          /\ (S \cup R) \ {y} = S \cup (R \ {y})
      BY <2>2
    <3>2. Sum(S \cup R) = f[y] + Sum((S \cup R) \ {y}) /\ Sum(R) = f[y] + Sum(R \ {y})
      BY <2>2, <3>1, SumRemove
    <3>3. Sum(S \cup (R \ {y})) = Sum(S) + Sum(R \ {y})
      BY <1>1, <2>2
    <3>4. f[y] \in Int /\ Sum(S) \in Int /\ Sum(R \ {y}) \in Int
      BY <2>2, <3>1, SumInt
    <3>5. Sum((S \cup R) \ {y}) = Sum(S \cup (R \ {y}))
      BY <3>1
    <3> HIDE DEF Sum
    <3>6. Sum(S \cup R) = f[y] + (Sum(S) + Sum(R \ {y})) /\ Sum(R) = f[y] + Sum(R \ {y})
      BY <3>2, <3>3, <3>5
    <3>7. \A a, b, c \in Int : a + (b + c) = b + (a + c)
      OBVIOUS
    <3>8. f[y] + (Sum(S) + Sum(R \ {y})) = Sum(S) + (f[y] + Sum(R \ {y}))
      BY <3>4, <3>7, Zenon
    <3>9. Sum(S \cup R) = Sum(S) + Sum(R)
      BY <3>6, <3>8, Zenon
    <3>10. QED
      BY <3>9
  <2>3. QED
    BY <2>1, <2>2
<1>2. G = SUBSET T
  <2>1. G \in SUBSET (SUBSET T)
    OBVIOUS
  <2> HIDE DEF G
  <2>2. QED
    BY <1>0, <1>1, <2>1, SubsetInduction
<1>3. QED
  BY <1>2

(* A finite set of integers that is not empty has a greatest member. *)
LEMMA GreatestMember ==
  ASSUME NEW U \in SUBSET Int, IsFiniteSet(U)
  PROVE  \A S \in SUBSET U : S # {} => \E m \in S : \A x \in S : x <= m
<1> DEFINE G == {S \in SUBSET U : S # {} => \E m \in S : \A x \in S : x <= m}
<1>1. ASSUME NEW S \in SUBSET U, \A x \in S : S \ {x} \in G PROVE S \in G
  <2>1. SUFFICES ASSUME NEW a \in S PROVE \E m \in S : \A x \in S : x <= m
    OBVIOUS
  <2>2. CASE S \ {a} = {}
    BY <2>2
  <2>3. CASE S \ {a} # {}
    <3>1. PICK m \in S \ {a} : \A x \in S \ {a} : x <= m
      BY <1>1, <2>3
    <3>2. a \in Int /\ m \in Int /\ S \subseteq Int
      OBVIOUS
    <3>3. CASE a <= m
      BY <3>1, <3>3
    <3>4. CASE m < a
      BY <3>1, <3>2, <3>4
    <3>5. QED
      BY <3>2, <3>3, <3>4
  <2>4. QED
    BY <2>2, <2>3
<1>2. G = SUBSET U
  <2>1. G \in SUBSET (SUBSET U)
    OBVIOUS
  <2> HIDE DEF G
  <2>2. QED
    BY <1>1, <2>1, SubsetInduction
<1>3. QED
  BY <1>2

(* The positions before one of them are all there: they are the first ones. *)
THEOREM InitialSegment ==
  ASSUME NEW n \in Nat, NEW S \in SUBSET (1..n), \A x \in S : \A y \in 1..n : y < x => y \in S
  PROVE  Cardinality(S) \in Nat /\ S = 1..Cardinality(S)
<1>1. 1..n \in SUBSET Int /\ IsFiniteSet(1..n)
  BY FS_Interval
<1>2. CASE S = {}
  BY <1>2, FS_EmptySet
<1>3. CASE S # {}
  <2>1. PICK m \in S : \A x \in S : x <= m
    BY <1>1, <1>3, GreatestMember
  <2>2. m \in 1..n /\ \A y \in 1..m : y \in 1..n /\ (y < m \/ y = m)
    OBVIOUS
  <2>3. 1..m \subseteq S
    BY <2>1, <2>2
  <2>4. S \subseteq 1..m
    BY <2>1, <2>2
  <2>5. S = 1..m
    BY <2>3, <2>4
  <2>6. Cardinality(1..m) = m
    BY <2>2, FS_Interval
  <2>7. QED
    BY <2>2, <2>5, <2>6
<1>4. QED
  BY <1>2, <1>3

(* A finite set that R orders has a last member. *)
LEMMA LastMember ==
  ASSUME NEW U, IsFiniteSet(U), NEW R,
         \A x, y \in U : x # y => <<x, y>> \in R \/ <<y, x>> \in R,
         \A x, y, z \in U : <<x, y>> \in R /\ <<y, z>> \in R => <<x, z>> \in R
  PROVE  \A S \in SUBSET U : S # {} => \E m \in S : \A x \in S : x # m => <<x, m>> \in R
<1> DEFINE G == {S \in SUBSET U : S # {} => \E m \in S : \A x \in S : x # m => <<x, m>> \in R}
<1>1. ASSUME NEW S \in SUBSET U, \A x \in S : S \ {x} \in G PROVE S \in G
  <2>1. SUFFICES ASSUME NEW a \in S PROVE \E m \in S : \A x \in S : x # m => <<x, m>> \in R
    OBVIOUS
  <2>2. CASE S \ {a} = {}
    BY <2>2
  <2>3. CASE S \ {a} # {}
    <3>1. PICK m \in S \ {a} : \A x \in S \ {a} : x # m => <<x, m>> \in R
      BY <1>1, <2>3
    <3>2. a \in U /\ m \in U /\ S \subseteq U /\ a # m
      OBVIOUS
    <3>3. CASE <<a, m>> \in R
      BY <3>1, <3>3
    <3>4. CASE <<m, a>> \in R
      <4>1. ASSUME NEW x \in S, x # a PROVE <<x, a>> \in R
        BY <3>1, <3>2, <3>4, <4>1
      <4>2. QED
        BY <4>1
    <3>5. QED
      BY <3>2, <3>3, <3>4
  <2>4. QED
    BY <2>2, <2>3
<1>2. G = SUBSET U
  <2>1. G \in SUBSET (SUBSET U)
    OBVIOUS
  <2> HIDE DEF G
  <2>2. QED
    BY <1>1, <2>1, SubsetInduction
<1>3. QED
  BY <1>2

(* A finite set that R orders can be enumerated in its order. *)
THEOREM OrderedEnumeration ==
  ASSUME NEW S, IsFiniteSet(S), NEW R,
         \A x, y \in S : x # y => <<x, y>> \in R \/ <<y, x>> \in R,
         \A x, y, z \in S : <<x, y>> \in R /\ <<y, z>> \in R => <<x, z>> \in R
  PROVE  \E s \in [1..Cardinality(S) -> S] :
           \A j, k \in 1..Cardinality(S) : j < k => <<s[j], s[k]>> \in R
<1> DEFINE Rises(s, n) == \A j, k \in 1..n : j < k => <<s[j], s[k]>> \in R
           G == {T \in SUBSET S : \E s \in [1..Cardinality(T) -> T] : Rises(s, Cardinality(T))}
<1>1. ASSUME NEW T \in SUBSET S, \A x \in T : T \ {x} \in G PROVE T \in G
  <2>1. CASE T = {}
    <3>1. Cardinality(T) = 0
      BY <2>1, Parts
    <3>2. [i \in {} |-> 0] \in [1..Cardinality(T) -> T] /\ Rises([i \in {} |-> 0], Cardinality(T))
      BY <3>1
    <3>3. QED
      BY <3>2
  <2>2. CASE T # {}
    <3>1. PICK m \in T : \A x \in T : x # m => <<x, m>> \in R
      BY <2>2, LastMember
    <3> DEFINE n == Cardinality(T \ {m})
    <3>2. n \in Nat /\ Cardinality(T) = n + 1
      BY OneLess
    <3>3. PICK s \in [1..n -> T \ {m}] : Rises(s, n)
      BY <1>1
    <3> HIDE DEF n
    <3> DEFINE t == [k \in 1..(n + 1) |-> IF k = n + 1 THEN m ELSE s[k]]
    <3>4. ASSUME NEW k \in 1..n PROVE s[k] \in T /\ <<s[k], m>> \in R
      <4>1. s[k] \in T \ {m}
        BY <3>3
      <4>2. QED
        BY <3>1, <4>1
    <3>5. \A k \in 1..(n + 1) : k \in 1..n \/ k = n + 1
      BY <3>2
    <3>6. t \in [1..(n + 1) -> T]
      BY <3>4, <3>5
    <3>7. ASSUME NEW j \in 1..(n + 1), NEW k \in 1..(n + 1), j < k PROVE <<t[j], t[k]>> \in R
      <4>1. j \in 1..n /\ j # n + 1
        BY <3>2, <3>7
      <4>2. CASE k = n + 1
        <5>1. t[j] = s[j] /\ t[k] = m
          BY <4>1, <4>2
        <5>2. QED
          BY <3>4, <4>1, <5>1
      <4>3. CASE k # n + 1
        <5>1. k \in 1..n /\ t[j] = s[j] /\ t[k] = s[k]
          BY <3>5, <4>1, <4>3
        <5>2. QED
          BY <3>3, <3>7, <4>1, <5>1
      <4>4. QED
        BY <4>2, <4>3
    <3>8. Rises(t, n + 1)
      BY <3>7
    <3> HIDE DEF t, Rises
    <3>9. QED
      BY <3>2, <3>6, <3>8
  <2>3. QED
    BY <2>1, <2>2
<1>2. G = SUBSET S
  <2>1. G \in SUBSET (SUBSET S)
    OBVIOUS
  <2> HIDE DEF G
  <2>2. QED
    BY <1>1, <2>1, SubsetInduction
<1>3. QED
  BY <1>2

(* An enumeration in increasing order exists, so Ascending is one. *)
THEOREM AscendingIsIncreasing ==
  ASSUME NEW S \in SUBSET Int, IsFiniteSet(S)
  PROVE  /\ Cardinality(S) \in Nat
         /\ Ascending(S) \in [1..Cardinality(S) -> S]
         /\ \A j, k \in 1..Cardinality(S) : j < k => Ascending(S)[j] < Ascending(S)[k]
<1> DEFINE Rises(s, n) == \A j, k \in 1..n : j < k => s[j] < s[k]
           G == {R \in SUBSET S : \E s \in [1..Cardinality(R) -> R] : Rises(s, Cardinality(R))}
<1>1. ASSUME NEW R \in SUBSET S, \A x \in R : R \ {x} \in G PROVE R \in G
  <2>1. CASE R = {}
    <3>1. Cardinality(R) = 0
      BY <2>1, Parts
    <3>2. [i \in {} |-> 0] \in [1..Cardinality(R) -> R] /\ Rises([i \in {} |-> 0], Cardinality(R))
      BY <3>1
    <3>3. QED
      BY <3>2
  <2>2. CASE R # {}
    <3>1. PICK m \in R : \A x \in R : x <= m
      BY <2>2, GreatestMember
    <3> DEFINE n == Cardinality(R \ {m})
    <3>2. n \in Nat /\ Cardinality(R) = n + 1
      BY OneLess
    <3>3. PICK s \in [1..n -> R \ {m}] : Rises(s, n)
      BY <1>1
    <3> HIDE DEF n
    <3> DEFINE t == [k \in 1..(n + 1) |-> IF k = n + 1 THEN m ELSE s[k]]
    <3>4. ASSUME NEW k \in 1..n PROVE s[k] \in R /\ s[k] \in Int /\ s[k] < m
      <4>1. s[k] \in R \ {m} /\ m \in Int /\ s[k] \in Int
        BY <3>3
      <4>2. s[k] <= m /\ s[k] # m
        BY <3>1, <4>1
      <4>3. QED
        BY <4>1, <4>2
    <3>5. \A k \in 1..(n + 1) : k \in 1..n \/ k = n + 1
      BY <3>2
    <3>6. t \in [1..(n + 1) -> R]
      BY <3>4, <3>5
    <3>7. ASSUME NEW j \in 1..(n + 1), NEW k \in 1..(n + 1), j < k PROVE t[j] < t[k]
      <4>1. j \in 1..n /\ j # n + 1
        BY <3>2, <3>7
      <4>2. CASE k = n + 1
        BY <3>4, <4>1, <4>2
      <4>3. CASE k # n + 1
        BY <3>3, <3>5, <3>7, <4>1, <4>3
      <4>4. QED
        BY <4>2, <4>3
    <3>8. Rises(t, n + 1)
      BY <3>7
    <3> HIDE DEF t, Rises
    <3>9. QED
      BY <3>2, <3>6, <3>8
  <2>3. QED
    BY <2>1, <2>2
<1>2. G = SUBSET S
  <2>1. G \in SUBSET (SUBSET S)
    OBVIOUS
  <2> HIDE DEF G
  <2>2. QED
    BY <1>1, <2>1, SubsetInduction
<1>3. PICK s \in [1..Cardinality(S) -> S] : \A j, k \in 1..Cardinality(S) : j < k => s[j] < s[k]
  BY <1>2
<1>4. Cardinality(S) \in Nat
  BY FS_CardinalityType
<1>5. QED
  BY <1>3, <1>4 DEF Ascending

(* Every member is enumerated: increasing is one-to-one, and as long as the set. *)
THEOREM AscendingCovers ==
  ASSUME NEW S \in SUBSET Int, IsFiniteSet(S)
  PROVE  \A x \in S : \E k \in 1..Cardinality(S) : Ascending(S)[k] = x
<1> DEFINE n == Cardinality(S)
           f == Ascending(S)
<1>1. n \in Nat /\ f \in [1..n -> S] /\ \A j, k \in 1..n : j < k => f[j] < f[k]
  BY AscendingIsIncreasing
<1> HIDE DEF n, f
<1>2. ASSUME NEW j \in 1..n, NEW k \in 1..n, j # k PROVE f[j] # f[k]
  <2>1. f[j] \in Int /\ f[k] \in Int
    BY <1>1
  <2>2. j < k \/ k < j
    BY <1>1, <1>2
  <2>3. CASE j < k
    BY <1>1, <2>1, <2>3
  <2>4. CASE k < j
    BY <1>1, <2>1, <2>4
  <2>5. QED
    BY <2>2, <2>3, <2>4
<1>3. f \in Injection(1..n, S)
  BY <1>1, <1>2, Zenon DEF Injection, IsInjective
<1>4. Cardinality(1..n) = Cardinality(S)
  BY <1>1, FS_Interval DEF n
<1>5. f \in Surjection(1..n, S)
  BY <1>3, <1>4, FS_Injection
<1>6. QED
  BY <1>5 DEF Surjection, n, f

(* Entries takes those entries, in their order. *)
THEOREM EntriesInOrder ==
  ASSUME NEW S \in SUBSET Int, IsFiniteSet(S), NEW s, NEW T, \A k \in S : s[k] \in T
  PROVE  /\ Cardinality(S) \in Nat
         /\ Entries(s, S) \in [1..Cardinality(S) -> T]
         /\ \A k \in 1..Cardinality(S) :
              Ascending(S)[k] \in S /\ Entries(s, S)[k] = s[Ascending(S)[k]]
         /\ \A j, k \in 1..Cardinality(S) : j < k => Ascending(S)[j] < Ascending(S)[k]
BY AscendingIsIncreasing DEF Entries

(* A function on the first n numbers is a sequence. *)
LEMMA FunctionIsSequence ==
  ASSUME NEW T, NEW n \in Nat, NEW s \in [1..n -> T]
  PROVE  s \in Seq(T) /\ Len(s) = n /\ DOMAIN s = 1..n
OBVIOUS
===============================================================================
