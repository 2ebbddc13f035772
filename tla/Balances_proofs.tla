-------------------------- MODULE Balances_proofs ---------------------------
(***************************************************************************)
(* The two programs that change what people have: the vouchers and cards   *)
(* of Prepaid, and the rerating of Rerate.  They share nothing but the     *)
(* facts about sums that both need, which come first.                      *)
(***************************************************************************)
EXTENDS Prepaid, Rerate, FiniteSetTheorems, SequenceTheorems, WellFoundedInduction, TLAPS

-----------------------------------------------------------------------------
(***************************************************************************)
(* The sum of a function over a finite set, as the fold of the community   *)
(* modules computes it: it takes the elements in an order of its own.      *)
(***************************************************************************)
Sum(f) == FoldFunction(+, 0, f)

Pick(S) == CHOOSE x \in S : TRUE

\* g sums f over each set of D.
Sums(f, D, g) == g = [S \in D |-> IF S = {} THEN 0 ELSE f[Pick(S)] + g[S \ {Pick(S)}]]

SumsOf(f) == CHOOSE g : Sums(f, SUBSET DOMAIN f, g)

LEMMA SumUnfolded ==
  ASSUME NEW f
  PROVE  Sum(f) = SumsOf(f)[DOMAIN f]
BY DEF Sum, FoldFunction, FoldFunctionOnSet, MapThenFoldSet, SumsOf, Sums, Pick

\* Induction over the natural numbers and over the subsets of a finite set.
LEMMA NumberByNumber ==
  ASSUME NEW P, 0 \in P, \A n \in Nat : n \in P => n + 1 \in P
  PROVE  Nat \subseteq P
<1>1. SUFFICES ASSUME Nat \ P # {} PROVE FALSE
  OBVIOUS
<1>2. PICK m \in Nat \ P : \A n \in Nat \ P : ~(<<n, m>> \in OpToRel(<, Nat))
  BY <1>1, WFMin, NatLessThanWellFounded
<1>3. \A n \in Nat \ P : ~(n < m)
  BY <1>2 DEF OpToRel
<1>4. m # 0 /\ m - 1 \in Nat /\ m - 1 < m
  OBVIOUS
<1>5. m - 1 \in P
  BY <1>3, <1>4
<1>6. (m - 1) + 1 \in P
  BY <1>4, <1>5
<1> QED
  BY <1>6

LEMMA SetBySet ==
  ASSUME NEW S, IsFiniteSet(S), NEW P,
         \A U \in SUBSET S : (\A x \in U : U \ {x} \in P) => U \in P
  PROVE  SUBSET S \subseteq P
<1> DEFINE Size(n) == {U \in SUBSET S : Cardinality(U) = n}
           N == {n \in Nat : Size(n) \subseteq P}
<1>1. 0 \in N
  <2>1. \A U \in Size(0) : U = {}
    BY FS_EmptySet, FS_Subset
  <2> QED
    BY <2>1
<1>2. ASSUME NEW n \in Nat, n \in N PROVE n + 1 \in N
  <2>1. ASSUME NEW U \in Size(n + 1), NEW x \in U PROVE U \ {x} \in Size(n)
    <3>1. IsFiniteSet(U)
      BY FS_Subset
    <3>2. Cardinality(U \ {x}) = Cardinality(U) - 1
      BY <3>1, FS_RemoveElement
    <3> QED
      BY <3>2
  <2>2. ASSUME NEW U \in Size(n + 1) PROVE U \in P
    BY <1>2, <2>1
  <2> QED
    BY <2>2
<1>3. Nat \subseteq N
  <2> HIDE DEF N
  <2> QED
    BY <1>1, <1>2, NumberByNumber
<1>4. ASSUME NEW U \in SUBSET S PROVE U \in P
  <2>1. Cardinality(U) \in Nat
    BY FS_Subset, FS_CardinalityType
  <2>2. Cardinality(U) \in N
    BY <1>3, <2>1
  <2> QED
    BY <2>2
<1> QED
  BY <1>4

LEMMA Picked ==
  ASSUME NEW S, S # {}
  PROVE  Pick(S) \in S
BY DEF Pick

\* The sums of a finite function exist.
LEMMA SumsExist ==
  ASSUME NEW S, IsFiniteSet(S), NEW f
  PROVE  \E g : Sums(f, SUBSET S, g)
<1> DEFINE Upto(n) == {U \in SUBSET S : Cardinality(U) <= n}
           N == {n \in Nat : \E g : Sums(f, Upto(n), g)}
<1>1. 0 \in N
  <2>1. \A U \in Upto(0) : U = {}
    <3>1. \A U \in Upto(0) : IsFiniteSet(U) /\ Cardinality(U) \in Nat
      BY FS_Subset, FS_CardinalityType
    <3> QED
      BY <3>1, FS_EmptySet
  <2>2. Sums(f, Upto(0), [U \in Upto(0) |-> 0])
    BY <2>1 DEF Sums
  <2> QED
    BY <2>2
<1>2. ASSUME NEW n \in Nat, n \in N PROVE n + 1 \in N
  <2>1. PICK g : Sums(f, Upto(n), g)
    BY <1>2
  <2>2. ASSUME NEW U \in Upto(n + 1), U # {} PROVE U \ {Pick(U)} \in Upto(n)
    <3>1. IsFiniteSet(U) /\ Cardinality(U) \in Nat
      BY FS_Subset, FS_CardinalityType
    <3>2. Cardinality(U \ {Pick(U)}) = Cardinality(U) - 1
      BY <2>2, <3>1, Picked, FS_RemoveElement
    <3> QED
      BY <3>1, <3>2
  <2>3. Upto(n) \subseteq Upto(n + 1)
    <3>1. \A U \in Upto(n) : Cardinality(U) \in Nat
      BY FS_Subset, FS_CardinalityType
    <3> QED
      BY <3>1
  <2> DEFINE h == [U \in Upto(n + 1) |-> IF U = {} THEN 0 ELSE f[Pick(U)] + g[U \ {Pick(U)}]]
  <2>4. \A U \in Upto(n) : h[U] = g[U]
    <3> HIDE DEF Upto
    <3> QED
      BY <2>1, <2>3 DEF Sums
  <2>5. Sums(f, Upto(n + 1), h)
    <3>1. \A U \in Upto(n + 1) : U # {} => h[U \ {Pick(U)}] = g[U \ {Pick(U)}]
      BY <2>2, <2>4
    <3> HIDE DEF Upto
    <3> QED
      BY <3>1 DEF Sums
  <2> HIDE DEF h, Upto
  <2> QED
    BY <2>5
<1>3. Cardinality(S) \in Nat /\ Cardinality(S) \in N
  <2>1. Nat \subseteq N
    <3> HIDE DEF N
    <3> QED
      BY <1>1, <1>2, NumberByNumber
  <2> QED
    BY <2>1, FS_CardinalityType
<1>4. Upto(Cardinality(S)) = SUBSET S
  BY FS_Subset
<1> QED
  BY <1>3, <1>4

\* What holds of the sums whatever the order.
LEMMA SumsTyped ==
  ASSUME NEW S, IsFiniteSet(S), NEW f \in [S -> Int]
  PROVE  /\ \A U \in SUBSET S :
              /\ SumsOf(f)[U] \in Int
              /\ U = {} => SumsOf(f)[U] = 0
              /\ U # {} => SumsOf(f)[U] = f[Pick(U)] + SumsOf(f)[U \ {Pick(U)}]
         /\ Sum(f) = SumsOf(f)[S]
<1>0. DOMAIN f = S
  OBVIOUS
<1>1. PICK g : g = SumsOf(f)
  OBVIOUS
<1>2. Sums(f, SUBSET S, g)
  BY <1>0, <1>1, SumsExist DEF SumsOf
<1>3. \A U \in SUBSET S : /\ U = {} => g[U] = 0
                          /\ U # {} => g[U] = f[Pick(U)] + g[U \ {Pick(U)}]
  BY <1>2 DEF Sums
<1> DEFINE P == {U \in SUBSET S : g[U] \in Int}
<1>4. ASSUME NEW U \in SUBSET S, \A x \in U : g[U \ {x}] \in Int PROVE g[U] \in Int
  <2>1. CASE U = {}
    <3>1. g[U] = 0
      BY <1>3, <2>1
    <3> QED
      BY <3>1
  <2>2. CASE U # {}
    <3>1. Pick(U) \in U /\ f[Pick(U)] \in Int
      BY <2>2, Picked
    <3>2. g[U \ {Pick(U)}] \in Int
      BY <1>4, <3>1
    <3>3. g[U] = f[Pick(U)] + g[U \ {Pick(U)}]
      BY <1>3, <2>2
    <3> QED
      BY <3>1, <3>2, <3>3
  <2> QED
    BY <2>1, <2>2
<1>5. SUBSET S \subseteq P
  <2>1. \A U \in SUBSET S : (\A x \in U : U \ {x} \in P) => U \in P
    BY <1>4
  <2> HIDE DEF P
  <2> QED
    BY <2>1, SetBySet
<1> QED
  BY <1>0, <1>1, <1>3, <1>5, SumUnfolded

LEMMA SumOfAny ==
  ASSUME NEW S, IsFiniteSet(S), NEW f \in [S -> Int],
         NEW U \in SUBSET S, NEW x \in U
  PROVE  SumsOf(f)[U] = f[x] + SumsOf(f)[U \ {x}]
<1>1. PICK g : g = SumsOf(f)
  OBVIOUS
<1>2. \A V1 \in SUBSET S : /\ g[V1] \in Int
                           /\ V1 # {} => g[V1] = f[Pick(V1)] + g[V1 \ {Pick(V1)}]
  <2>1. \A V1 \in SUBSET S :
           /\ SumsOf(f)[V1] \in Int
           /\ V1 # {} => SumsOf(f)[V1] = f[Pick(V1)] + SumsOf(f)[V1 \ {Pick(V1)}]
    BY SumsTyped
  <2> QED
    BY <1>1, <2>1
<1> DEFINE Any(V1) == \A y \in V1 : g[V1] = f[y] + g[V1 \ {y}]
           P == {V1 \in SUBSET S : Any(V1)}
<1>3. ASSUME NEW W \in SUBSET S, \A y \in W : Any(W \ {y}), NEW y \in W
      PROVE  g[W] = f[y] + g[W \ {y}]
  <2>1. PICK p \in W : p = Pick(W)
    BY Picked
  <2>2. g[W] = f[p] + g[W \ {p}]
    BY <1>2, <2>1
  <2>3. CASE p = y
    BY <2>2, <2>3
  <2>4. CASE p # y
    <3>1. g[W \ {p}] = f[y] + g[(W \ {p}) \ {y}]
      BY <1>3, <2>4
    <3>2. g[W \ {y}] = f[p] + g[(W \ {y}) \ {p}]
      BY <1>3, <2>4
    <3>3. (W \ {y}) \ {p} = (W \ {p}) \ {y}
      OBVIOUS
    <3>4. f[p] \in Int /\ f[y] \in Int /\ g[(W \ {p}) \ {y}] \in Int
      BY <1>2
    <3>5. PICK rest \in Int : rest = g[(W \ {p}) \ {y}]
      BY <3>4
    <3>6. g[W] = f[p] + (f[y] + rest) /\ g[W \ {y}] = f[p] + rest
      BY <2>2, <3>1, <3>2, <3>3, <3>5
    <3> QED
      BY <3>4, <3>6
  <2> QED
    BY <2>3, <2>4
<1>4. SUBSET S \subseteq P
  <2>1. \A W \in SUBSET S : (\A y \in W : W \ {y} \in P) => W \in P
    BY <1>3
  <2> HIDE DEF P
  <2> QED
    BY <2>1, SetBySet
<1>5. Any(U)
  BY <1>4
<1> QED
  BY <1>1, <1>5

\* The sums over the subsets, whatever the order: each term may be taken first.
Folds(F, f, S) ==
    /\ F = SumsOf(f) /\ Sum(f) = F[S]
    /\ \A W \in SUBSET S : F[W] \in Int /\ (W = {} => F[W] = 0)
    /\ \A W \in SUBSET S : \A x \in W : F[W] = f[x] + F[W \ {x}]

LEMMA SumFolds ==
  ASSUME NEW S, IsFiniteSet(S), NEW f \in [S -> Int]
  PROVE  \E F : Folds(F, f, S)
<1>1. PICK F : F = SumsOf(f)
  OBVIOUS
<1>2. Sum(f) = F[S]
  BY <1>1, SumsTyped
<1>3. ASSUME NEW W \in SUBSET S PROVE F[W] \in Int /\ (W = {} => F[W] = 0)
  BY <1>1, SumsTyped
<1>4. ASSUME NEW W \in SUBSET S, NEW x \in W PROVE F[W] = f[x] + F[W \ {x}]
  BY <1>1, SumOfAny
<1> QED
  BY <1>1, <1>2, <1>3, <1>4 DEF Folds

LEMMA SumsAgree ==
  ASSUME NEW S, IsFiniteSet(S), NEW f \in [S -> Int], NEW g \in [S -> Int],
         NEW U \in SUBSET S, \A x \in U : f[x] = g[x]
  PROVE  SumsOf(f)[U] = SumsOf(g)[U]
<1>1. PICK F : Folds(F, f, S)
  BY SumFolds
<1>2. PICK G : Folds(G, g, S)
  BY SumFolds
<1> DEFINE P == {W \in SUBSET U : F[W] = G[W]}
<1>3. ASSUME NEW W \in SUBSET U, \A y \in W : F[W \ {y}] = G[W \ {y}]
      PROVE  F[W] = G[W]
  <2>0. W \in SUBSET S
    OBVIOUS
  <2>1. CASE W = {}
    BY <1>1, <1>2, <2>0, <2>1 DEF Folds
  <2>2. CASE W # {}
    <3>1. PICK p \in W : TRUE
      BY <2>2
    <3>2. F[W] = f[p] + F[W \ {p}] /\ G[W] = g[p] + G[W \ {p}]
      BY <1>1, <1>2, <2>0, <3>1 DEF Folds
    <3> QED
      BY <1>3, <3>1, <3>2
  <2> QED
    BY <2>1, <2>2
<1>4. SUBSET U \subseteq P
  <2>1. \A W \in SUBSET U : (\A y \in W : W \ {y} \in P) => W \in P
    BY <1>3
  <2>2. IsFiniteSet(U)
    BY FS_Subset
  <2> HIDE DEF P
  <2> QED
    BY <2>1, <2>2, SetBySet
<1>5. F[U] = G[U]
  BY <1>4
<1> QED
  BY <1>1, <1>2, <1>5 DEF Folds

\* A sum changes by what one of its terms changes.
LEMMA SumChanges ==
  ASSUME NEW S, IsFiniteSet(S), NEW f \in [S -> Int], NEW g \in [S -> Int],
         NEW x \in S, \A y \in S \ {x} : f[y] = g[y]
  PROVE  Sum(f) \in Int /\ Sum(g) \in Int /\ Sum(g) - Sum(f) = g[x] - f[x]
<1>1. PICK F, G : F = SumsOf(f) /\ G = SumsOf(g)
  OBVIOUS
<1>2. Sum(f) = F[S] /\ Sum(g) = G[S] /\ F[S] \in Int /\ G[S] \in Int /\ F[S \ {x}] \in Int
  BY <1>1, SumsTyped
<1>3. F[S] = f[x] + F[S \ {x}] /\ G[S] = g[x] + G[S \ {x}]
  BY <1>1, SumOfAny
<1>4. F[S \ {x}] = G[S \ {x}]
  BY <1>1, SumsAgree
<1> QED
  BY <1>2, <1>3, <1>4

LEMMA SumOfNone ==
  ASSUME NEW S, IsFiniteSet(S), NEW f \in [S -> Int], \A x \in S : f[x] >= 0
  PROVE  /\ Sum(f) >= 0 /\ Sum(f) \in Int
         /\ (\A x \in S : f[x] = 0) => Sum(f) = 0
<1>1. PICK F : F = SumsOf(f)
  OBVIOUS
<1>2. /\ \A W \in SUBSET S : /\ W = {} => F[W] = 0
                             /\ W # {} => F[W] = f[Pick(W)] + F[W \ {Pick(W)}]
      /\ Sum(f) = F[S]
  <2>1. \A W \in SUBSET S :
           /\ W = {} => SumsOf(f)[W] = 0
           /\ W # {} => SumsOf(f)[W] = f[Pick(W)] + SumsOf(f)[W \ {Pick(W)}]
    BY SumsTyped
  <2> QED
    BY <1>1, <2>1, SumsTyped
<1> DEFINE Right(W) == F[W] \in Nat /\ ((\A x \in S : f[x] = 0) => F[W] = 0)
           P == {W \in SUBSET S : Right(W)}
<1>3. ASSUME NEW W \in SUBSET S, \A y \in W : Right(W \ {y})
      PROVE  Right(W)
  <2>1. CASE W = {}
    <3>1. F[W] = 0
      BY <1>2, <2>1
    <3> QED
      BY <3>1
  <2>2. CASE W # {}
    <3>1. PICK p \in W : p = Pick(W)
      BY <2>2, Picked
    <3>2. F[W] = f[p] + F[W \ {p}] /\ f[p] \in Nat
      BY <1>2, <2>2, <3>1
    <3> QED
      BY <1>3, <3>1, <3>2
  <2> QED
    BY <2>1, <2>2
<1>4. SUBSET S \subseteq P
  <2>1. \A W \in SUBSET S : (\A y \in W : W \ {y} \in P) => W \in P
    BY <1>3
  <2> HIDE DEF P
  <2> QED
    BY <2>1, SetBySet
<1>5. Right(S)
  BY <1>4
<1> QED
  BY <1>2, <1>5

LEMMA SumTyped ==
  ASSUME NEW S, IsFiniteSet(S), NEW f \in [S -> Int]
  PROVE  Sum(f) \in Int
<1>1. SumsOf(f)[S] \in Int /\ Sum(f) = SumsOf(f)[S]
  BY SumsTyped
<1> QED
  BY <1>1

\* Terms that are zero do not count.
LEMMA SumOfPart ==
  ASSUME NEW S, IsFiniteSet(S), NEW D \in SUBSET S, NEW f \in [D -> Int], NEW g \in [S -> Int],
         \A x \in D : f[x] = g[x], \A x \in S \ D : g[x] = 0
  PROVE  Sum(f) = Sum(g)
<1>0. IsFiniteSet(D)
  BY FS_Subset
<1>1. PICK F : Folds(F, f, D)
  BY <1>0, SumFolds
<1>2. PICK G : Folds(G, g, S)
  BY SumFolds
<1> DEFINE P == {W \in SUBSET S : G[W] = F[W \cap D]}
<1>4. ASSUME NEW W \in SUBSET S, \A y \in W : G[W \ {y}] = F[(W \ {y}) \cap D]
      PROVE  G[W] = F[W \cap D]
  <2>1. CASE W = {}
    <3>1. W \cap D = {} /\ W \cap D \in SUBSET D
      BY <2>1
    <3> QED
      BY <1>1, <1>2, <2>1, <3>1 DEF Folds
  <2>2. CASE W # {}
    <3>1. PICK p \in W : TRUE
      BY <2>2
    <3>2. G[W] = g[p] + F[(W \ {p}) \cap D]
      BY <1>2, <1>4, <3>1 DEF Folds
    <3>3. CASE p \in D
      <4>1. p \in W \cap D /\ W \cap D \in SUBSET D /\ (W \ {p}) \cap D = (W \cap D) \ {p}
        BY <3>1, <3>3
      <4>2. F[W \cap D] = f[p] + F[(W \cap D) \ {p}]
        BY <1>1, <4>1 DEF Folds
      <4> QED
        BY <3>2, <3>3, <4>1, <4>2
    <3>4. CASE p \notin D
      <4>1. (W \ {p}) \cap D = W \cap D /\ W \cap D \in SUBSET D
        BY <3>4
      <4>2. g[p] = 0 /\ F[W \cap D] \in Int
        BY <1>1, <3>1, <3>4, <4>1 DEF Folds
      <4> QED
        BY <3>2, <4>1, <4>2
    <3> QED
      BY <3>3, <3>4
  <2> QED
    BY <2>1, <2>2
<1>5. SUBSET S \subseteq P
  <2>1. \A W \in SUBSET S : (\A y \in W : W \ {y} \in P) => W \in P
    BY <1>4
  <2> HIDE DEF P
  <2> QED
    BY <2>1, SetBySet
<1>6. G[S] = F[S \cap D] /\ S \cap D = D
  BY <1>5
<1> QED
  BY <1>1, <1>2, <1>6 DEF Folds

\* The sum of the sums is the sum of the terms.
Plus(S, f, g) == [x \in S |-> f[x] + g[x]]

LEMMA SumOfSums ==
  ASSUME NEW S, IsFiniteSet(S), NEW f \in [S -> Int], NEW g \in [S -> Int]
  PROVE  /\ Sum(Plus(S, f, g)) = Sum(f) + Sum(g)
         /\ Sum(f) \in Int /\ Sum(g) \in Int
<1>0. PICK h : h = Plus(S, f, g) /\ h \in [S -> Int] /\ \A x \in S : h[x] = f[x] + g[x]
  <2>1. \A x \in S : f[x] + g[x] \in Int
    OBVIOUS
  <2>2. Plus(S, f, g) \in [S -> Int] /\ \A x \in S : Plus(S, f, g)[x] = f[x] + g[x]
    BY <2>1 DEF Plus
  <2> QED
    BY <2>2
<1>1. PICK F : Folds(F, f, S)
  BY SumFolds
<1>2. PICK G : Folds(G, g, S)
  BY SumFolds
<1>3. PICK H : Folds(H, h, S)
  BY <1>0, SumFolds
<1> DEFINE P == {W \in SUBSET S : H[W] = F[W] + G[W]}
<1>5. ASSUME NEW W \in SUBSET S, \A y \in W : H[W \ {y}] = F[W \ {y}] + G[W \ {y}]
      PROVE  H[W] = F[W] + G[W]
  <2>1. CASE W = {}
    <3>1. F[W] = 0 /\ G[W] = 0 /\ H[W] = 0
      BY <1>1, <1>2, <1>3, <2>1 DEF Folds
    <3> QED
      BY <3>1
  <2>2. CASE W # {}
    <3>1. PICK p \in W : TRUE
      BY <2>2
    <3>2. F[W] = f[p] + F[W \ {p}] /\ G[W] = g[p] + G[W \ {p}] /\ H[W] = h[p] + H[W \ {p}]
      BY <1>1, <1>2, <1>3, <3>1 DEF Folds
    <3>4. h[p] = f[p] + g[p] /\ f[p] \in Int /\ g[p] \in Int
      BY <1>0, <3>1
    <3>3. H[W \ {p}] = F[W \ {p}] + G[W \ {p}] /\ F[W \ {p}] \in Int /\ G[W \ {p}] \in Int
      BY <1>1, <1>2, <1>5, <3>1 DEF Folds
    <3> QED
      BY <3>2, <3>3, <3>4
  <2> QED
    BY <2>1, <2>2
<1>6. SUBSET S \subseteq P
  <2>1. \A W \in SUBSET S : (\A y \in W : W \ {y} \in P) => W \in P
    BY <1>5
  <2> HIDE DEF P
  <2> QED
    BY <2>1, SetBySet
<1>7. H[S] = F[S] + G[S] /\ F[S] \in Int /\ G[S] \in Int /\ H[S] \in Int
  BY <1>1, <1>2, <1>3, <1>6 DEF Folds
<1> QED
  BY <1>0, <1>1, <1>2, <1>3, <1>7 DEF Folds

\* Two sums change by the same if their terms do.
LEMMA SumsMoveTogether ==
  ASSUME NEW S, IsFiniteSet(S), NEW f \in [S -> Int], NEW f2 \in [S -> Int],
         NEW g \in [S -> Int], NEW g2 \in [S -> Int],
         \A x \in S : f2[x] - f[x] = g2[x] - g[x]
  PROVE  /\ Sum(f2) - Sum(f) = Sum(g2) - Sum(g)
         /\ Sum(f) \in Int /\ Sum(f2) \in Int /\ Sum(g) \in Int /\ Sum(g2) \in Int
<1>1. Plus(S, f2, g) = Plus(S, f, g2)
  <2>1. \A x \in S : /\ f[x] \in Int /\ f2[x] \in Int /\ g[x] \in Int /\ g2[x] \in Int
                    /\ f2[x] + g[x] = f[x] + g2[x]
    OBVIOUS
  <2> QED
    BY <2>1 DEF Plus
<1>2. Sum(Plus(S, f2, g)) = Sum(f2) + Sum(g) /\ Sum(f2) \in Int /\ Sum(g) \in Int
  BY SumOfSums
<1>3. Sum(Plus(S, f, g2)) = Sum(f) + Sum(g2) /\ Sum(f) \in Int /\ Sum(g2) \in Int
  BY SumOfSums
<1>4. Sum(f2) + Sum(g) = Sum(f) + Sum(g2)
  BY <1>1, <1>2, <1>3
<1>5. PICK p \in Int, q \in Int, r \in Int, s \in Int :
         Sum(f) = p /\ Sum(f2) = q /\ Sum(g) = r /\ Sum(g2) = s
  BY <1>2, <1>3
<1>6. q - p = s - r
  BY <1>4, <1>5
<1> QED
  BY <1>5, <1>6

-----------------------------------------------------------------------------
(***************************************************************************)
(* For any number of sessions, users, vouchers and cards: a voucher pays   *)
(* once and once more only for a reason, and a voucher that is marked has  *)
(* been paid out; a distributor pays once for a card, a blocked card is    *)
(* not taken, and the callers neither lose money nor gain any by           *)
(* mor_card_topup but by its rounding.  The two programs disturb each      *)
(* other by nothing but the cards that vouchers block, so each has an      *)
(* invariant of its own.                                                   *)
(*                                                                         *)
(* For the first, a session that has found a voucher and not yet credited  *)
(* it counts like a credit, and a voucher that nobody has marked and       *)
(* nobody has in hand has been credited only for a reason.  For the second *)
(* a session has made all the entries before the statement it is at.  For  *)
(* the money, what a session has credited and not yet taken is owed.       *)
(***************************************************************************)
Entries == {"credit", "payment", "owner_credit", "owner_payment"}

VCalls == [pc : {"idle", "ask", "mark", "block"} \cup Entries, user : Users \cup {Nobody},
           voucher : Vouchers \cup {Nobody}, tries : Nat]

\* A session past the first prompt has a user, one past the second a voucher.
Formed(n) ==
    /\ n \in VCalls
    /\ n.pc # "idle" => n.user \in Users
    /\ n.pc \in V!Statements => n.voucher \in Vouchers

CallsTyped ==
    /\ vcall \in [Sessions -> VCalls]
    /\ \A s \in Sessions : Formed(vcall[s])

BooksTyped ==
    /\ used \in [Vouchers -> Users \cup {Nobody}]
    /\ book \in [Vouchers -> [Entries -> Nat]]
    /\ spare \in [Vouchers -> Nat]

Moves(s, n) == vcall' = [vcall EXCEPT ![s] = n]

\* The sessions that are about to credit v.
Crediting(v) == {s \in Sessions : vcall[s].pc = "credit" /\ vcall[s].voucher = v}

\* Credits made and about to be made of v are accounted for.
Accounted(v) ==
    /\ book[v].credit + Cardinality(Crediting(v)) <= 1 + spare[v]
    /\ used[v] = Nobody /\ V!InHand(v) = {} => book[v].credit <= spare[v]

OnceInv == \A v \in Vouchers : Accounted(v)

\* The entries a session has made before the statement it is at.
HasPaid(n) ==
    LET b == book[n.voucher] IN
    /\ n.pc \in {"payment", "owner_credit", "owner_payment", "mark"} => b.credit > 0
    /\ n.pc \in {"owner_credit", "owner_payment", "mark"} => b.payment > 0
    /\ n.pc \in {"owner_payment", "mark"} /\ Owner[n.user] # Nobody => b.owner_credit > 0
    /\ n.pc = "mark" /\ Owner[n.user] # Nobody => b.owner_payment > 0

PaidInv ==
    /\ \A s \in Sessions :
         vcall[s].pc \in V!Statements /\ vcall[s].voucher \notin short => HasPaid(vcall[s])
    /\ V!MarkedIsPaid

VInv == CallsTyped /\ BooksTyped /\ OnceInv /\ PaidInv

-----------------------------------------------------------------------------
LEMMA MovedTyped ==
  ASSUME CallsTyped, NEW s \in Sessions, NEW n, Formed(n), Moves(s, n)
  PROVE  CallsTyped'
BY DEF CallsTyped, Formed, Moves

\* What a step to statement makes of a session.
LEMMA GoneTo ==
  ASSUME CallsTyped, NEW s \in Sessions, vcall[s].pc \in V!Statements,
         NEW to \in {"idle"} \cup V!Statements, V!Goto(s, to)
  PROVE  \E n : /\ Formed(n) /\ Moves(s, n) /\ n.pc = to
                /\ to # "idle" => n.user = vcall[s].user /\ n.voucher = vcall[s].voucher
<1>1. vcall[s] \in VCalls /\ Formed(vcall[s])
  BY DEF CallsTyped
<1>2. CASE to = "idle"
  <2>1. Formed(V!Idle) /\ V!Idle.pc = "idle"
    BY DEF V!Idle, Formed, VCalls, V!Statements
  <2>2. Moves(s, V!Idle)
    BY <1>2 DEF V!Goto, Moves
  <2> QED
    BY <1>2, <2>1, <2>2
<1>3. CASE to # "idle"
  <2> DEFINE n == [vcall[s] EXCEPT !.pc = to]
  <2>1. Formed(n) /\ n.pc = to /\ n.user = vcall[s].user /\ n.voucher = vcall[s].voucher
    BY <1>1, <1>3 DEF Formed, VCalls, V!Statements, Entries
  <2>2. Moves(s, n)
    BY <1>3 DEF V!Goto, Moves
  <2> QED
    BY <2>1, <2>2
<1> QED
  BY <1>2, <1>3

\* The order of the statements.
LEMMA Order ==
  ASSUME CallsTyped, NEW s \in Sessions
  PROVE  /\ V!At(s, "credit") => V!After(s) = "payment"
         /\ V!At(s, "payment") => V!After(s) =
              IF Owner[vcall[s].user] = Nobody THEN "mark" ELSE "owner_credit"
         /\ V!At(s, "owner_credit") => V!After(s) = "owner_payment"
         /\ V!At(s, "owner_payment") => V!After(s) = "mark"
         /\ V!At(s, "mark") => V!After(s) = "block"
         /\ V!At(s, "block") => V!After(s) = "idle"
         /\ V!After(s) \in {"idle"} \cup V!Statements
BY DEF V!At, V!After, V!Statements

-----------------------------------------------------------------------------
\* How the set of sessions about to credit v changes with a session.
LEMMA Counting ==
  ASSUME PrepaidAssumption, CallsTyped, NEW s \in Sessions, NEW n, Moves(s, n), NEW v \in Vouchers
  PROVE  LET is == vcall[s].pc = "credit" /\ vcall[s].voucher = v
             be == n.pc = "credit" /\ n.voucher = v
             c == Cardinality(Crediting(v))
             d == Cardinality(Crediting(v)')
         IN  /\ c \in Nat /\ d \in Nat
             /\ is /\ ~be => d = c - 1 /\ c > 0
             /\ ~is /\ be => d = c + 1
             /\ (is <=> be) => d = c
<1> DEFINE is == vcall[s].pc = "credit" /\ vcall[s].voucher = v
           be == n.pc = "credit" /\ n.voucher = v
           C == Crediting(v)
           D == Crediting(v)'
<1>1. IsFiniteSet(Sessions)
  BY DEF PrepaidAssumption
<1>2. C \in SUBSET Sessions /\ D \in SUBSET Sessions
  BY DEF Crediting
<1>3. IsFiniteSet(C) /\ IsFiniteSet(D)
  BY <1>1, <1>2, FS_Subset
<1>4. Cardinality(C) \in Nat /\ Cardinality(D) \in Nat
  BY <1>3, FS_CardinalityType
<1>5. s \in C <=> is
  BY DEF Crediting
<1>6. vcall' = [vcall EXCEPT ![s] = n] /\ vcall \in [Sessions -> VCalls]
  BY DEF Moves, CallsTyped
<1>7. \A t \in Sessions : vcall'[t] = IF t = s THEN n ELSE vcall[t]
  BY <1>6
<1>8. \A t \in Sessions : t \in D <=> IF t = s THEN be ELSE t \in C
  BY <1>7 DEF Crediting
<1>9. CASE is /\ ~be
  <2>1. D = C \ {s}
    BY <1>2, <1>8, <1>9
  <2>2. Cardinality(C \ {s}) = Cardinality(C) - 1
    BY <1>3, <1>5, <1>9, FS_RemoveElement
  <2> QED
    BY <2>1, <2>2, <1>4, <1>9
<1>10. CASE ~is /\ be
  <2>1. D = C \cup {s}
    BY <1>2, <1>8, <1>10
  <2>2. Cardinality(C \cup {s}) = Cardinality(C) + 1
    BY <1>3, <1>5, <1>10, FS_AddElement
  <2> QED
    BY <2>1, <2>2, <1>4, <1>10
<1>11. CASE is <=> be
  <2>1. D = C
    BY <1>2, <1>5, <1>8, <1>11
  <2> QED
    BY <2>1, <1>4, <1>11
<1> QED
  BY <1>4, <1>9, <1>10, <1>11

\* Who has a voucher in hand after a session has moved.
LEMMA Handing ==
  ASSUME CallsTyped, NEW s \in Sessions, NEW n, Moves(s, n), NEW v \in Vouchers
  PROVE  V!InHand(v)' =
           (V!InHand(v) \ {s}) \cup
           (IF n.voucher = v /\ n.pc \in V!Statements \ {"block"} THEN {s} ELSE {})
<1>1. \A t \in Sessions : vcall'[t] = IF t = s THEN n ELSE vcall[t]
  BY DEF Moves, CallsTyped
<1> QED
  BY <1>1 DEF V!InHand, V!Statements

-----------------------------------------------------------------------------
Working == V!Statements \ {"block"}

\* A session that has nothing to do with v, before and after it moves.
Apart(n, v) == n.voucher # v \/ n.pc \notin Working

\* The books of v, as far as the first property looks.
SameBooks(v) == book'[v].credit = book[v].credit /\ spare'[v] = spare[v] /\ used'[v] = used[v]

LEMMA ApartAccounted ==
  ASSUME PrepaidAssumption, CallsTyped, NEW s \in Sessions, NEW n, Moves(s, n),
         NEW v \in Vouchers, Accounted(v), Apart(vcall[s], v), Apart(n, v), SameBooks(v)
  PROVE  Accounted(v)'
<1>1. Cardinality(Crediting(v)') = Cardinality(Crediting(v))
  BY Counting DEF Apart, Working, V!Statements
<1>2. V!InHand(v)' = V!InHand(v)
  BY Handing DEF Apart, Working, V!InHand
<1> QED
  BY <1>1, <1>2 DEF Accounted, SameBooks

\* v has been paid out in full.
PaidOut(v) ==
    /\ book[v].credit > 0 /\ book[v].payment > 0
    /\ Owner[used[v]] # Nobody => book[v].owner_credit > 0 /\ book[v].owner_payment > 0

\* Entries are never taken back, and failures are not forgotten.
Grows ==
    /\ \A v \in Vouchers, e \in Entries : book'[v][e] >= book[v][e]
    /\ short \subseteq short'

LEMMA PaidKept ==
  ASSUME CallsTyped, BooksTyped, BooksTyped', PaidInv, Grows,
         NEW s \in Sessions, NEW n, Formed(n), Moves(s, n),
         n.pc \in V!Statements /\ n.voucher \notin short' => HasPaid(n)',
         \A v \in Vouchers \ short' :
            used'[v] # Nobody => used'[v] = used[v] \/ PaidOut(v)'
  PROVE  PaidInv'
<1>1. \A t \in Sessions : vcall'[t] = IF t = s THEN n ELSE vcall[t]
  BY DEF Moves, CallsTyped
<1>2. \A v \in Vouchers, e \in Entries :
         book[v][e] \in Nat /\ book'[v][e] \in Nat /\ (book[v][e] > 0 => book'[v][e] > 0)
  BY DEF BooksTyped, Grows
<1>3. ASSUME NEW t \in Sessions, vcall'[t].pc \in V!Statements, vcall'[t].voucher \notin short'
      PROVE  HasPaid(vcall[t])' 
  <2>1. CASE t = s
    BY <1>1, <1>3, <2>1 DEF HasPaid
  <2>2. CASE t # s
    <3>1. vcall'[t] = vcall[t] /\ vcall[t].voucher \in Vouchers
      BY <1>1, <1>3, <2>2 DEF CallsTyped, Formed
    <3>2. HasPaid(vcall[t])
      BY <1>3, <3>1 DEF PaidInv, Grows
    <3> QED
      BY <1>2, <3>1, <3>2 DEF HasPaid, Entries
  <2> QED
    BY <2>1, <2>2
<1>4. ASSUME NEW v \in Vouchers \ short', used'[v] # Nobody
      PROVE  PaidOut(v)'
  <2>1. CASE used'[v] = used[v]
    <3>1. PaidOut(v)
      BY <1>4, <2>1 DEF PaidInv, V!MarkedIsPaid, PaidOut, Grows
    <3> QED
      BY <1>2, <2>1, <3>1 DEF PaidOut, Entries
  <2> QED
    BY <1>4, <2>1
<1>5. V!MarkedIsPaid'
  BY <1>4 DEF V!MarkedIsPaid, PaidOut
<1> QED
  BY <1>3, <1>5 DEF PaidInv

\* What has to be shown of a step: w is the voucher it is about, if any.
LEMMA Kept ==
  ASSUME PrepaidAssumption, VInv, BooksTyped', Grows,
         NEW s \in Sessions, NEW n, Formed(n), Moves(s, n),
         NEW w, w \in Vouchers => Accounted(w)',
         \A v \in Vouchers \ {w} : Apart(vcall[s], v) /\ Apart(n, v) /\ SameBooks(v),
         n.pc \in V!Statements /\ n.voucher \notin short' => HasPaid(n)',
         \A v \in Vouchers \ short' :
            used'[v] # Nobody => used'[v] = used[v] \/ PaidOut(v)'
  PROVE  VInv'
<1>1. CallsTyped'
  BY MovedTyped DEF VInv
<1>2. PaidInv'
  BY PaidKept DEF VInv
<1>3. ASSUME NEW v \in Vouchers PROVE Accounted(v)'
  <2>1. CASE v = w
    BY <2>1
  <2>2. CASE v # w
    BY <2>2, ApartAccounted DEF VInv, OnceInv
  <2> QED
    BY <2>1, <2>2
<1> QED
  BY <1>1, <1>2, <1>3 DEF VInv, OnceInv

-----------------------------------------------------------------------------
\* The numbers that Accounted adds and compares.
LEMMA Numbers ==
  ASSUME PrepaidAssumption, CallsTyped, BooksTyped, NEW v \in Vouchers
  PROVE  /\ book[v].credit \in Nat /\ spare[v] \in Nat
         /\ Cardinality(Crediting(v)) \in Nat
         /\ V!InHand(v) = {} => Cardinality(Crediting(v)) = 0
<1>1. IsFiniteSet(Crediting(v))
  BY FS_Subset DEF PrepaidAssumption, Crediting
<1>2. V!InHand(v) = {} => Crediting(v) = {}
  BY DEF V!InHand, Crediting, V!Statements
<1> QED
  BY <1>1, <1>2, FS_CardinalityType, FS_EmptySet DEF BooksTyped, Entries

\* A step of a session that has no voucher in hand, before and after it.
LEMMA QuietKept ==
  ASSUME PrepaidAssumption, VInv, NEW s \in Sessions, NEW n, Formed(n), Moves(s, n),
         vcall[s].pc \notin Working, n.pc \notin Working,
         UNCHANGED <<used, book, spare>>, short \subseteq short'
  PROVE  VInv'
<1>1. BooksTyped' /\ Grows
  BY DEF VInv, BooksTyped, Grows, Entries
<1>2. Nobody \notin Vouchers
  BY DEF PrepaidAssumption
<1>3. \A v \in Vouchers : Apart(vcall[s], v) /\ Apart(n, v) /\ SameBooks(v)
  BY DEF Apart, SameBooks
<1>4. HasPaid(n)'
  BY DEF HasPaid, Working, V!Statements
<1> QED
  BY <1>1, <1>2, <1>3, <1>4, Kept

LEMMA BeginKept ==
  ASSUME PrepaidAssumption, VInv, NEW s \in Sessions, NEW u \in Users, V!Begin(s, u)
  PROVE  VInv'
<1>1. PICK n : n = [V!Idle EXCEPT !.pc = "ask", !.user = u]
  OBVIOUS
<1>2. Formed(n) /\ n.pc \notin Working
  BY <1>1 DEF V!Idle, Formed, VCalls, Working, V!Statements
<1>3. Moves(s, n) /\ vcall[s].pc \notin Working /\ UNCHANGED <<used, book, spare, short>>
  BY <1>1 DEF V!Begin, V!At, Moves, Working, V!Statements
<1> QED
  BY <1>2, <1>3, QuietKept

LEMMA FindNoneKept ==
  ASSUME PrepaidAssumption, VInv, NEW s \in Sessions, V!FindNone(s)
  PROVE  VInv'
<1>1. vcall[s] \in VCalls /\ Formed(vcall[s]) /\ vcall[s].pc = "ask"
  BY DEF VInv, CallsTyped, V!FindNone, V!At
<1>2. PICK n : n = IF vcall[s].tries + 1 < MaxTries THEN [vcall[s] EXCEPT !.tries = @ + 1]
                   ELSE V!Idle
  OBVIOUS
<1>3. Formed(n) /\ n.pc \notin Working
  BY <1>1, <1>2 DEF V!Idle, Formed, VCalls, Working, V!Statements
<1>4. Moves(s, n)
  BY <1>2 DEF VInv, CallsTyped, V!FindNone, V!Goto, Moves
<1>5. UNCHANGED <<used, book, spare, short>>
  BY DEF V!FindNone
<1> QED
  BY <1>1, <1>3, <1>4, <1>5, QuietKept DEF Working, V!Statements

LEMMA FindKept ==
  ASSUME PrepaidAssumption, VInv, NEW s \in Sessions, NEW w \in Vouchers, V!Find(s, w)
  PROVE  VInv'
<1>1. vcall[s] \in VCalls /\ Formed(vcall[s]) /\ vcall[s].pc = "ask"
  BY DEF VInv, CallsTyped, V!Find, V!At
<1>2. PICK n : n = [vcall[s] EXCEPT !.pc = "credit", !.voucher = w]
  OBVIOUS
<1>3. Formed(n) /\ n.pc = "credit" /\ n.voucher = w
  BY <1>1, <1>2 DEF Formed, VCalls, V!Statements, Entries
<1>4. Moves(s, n) /\ UNCHANGED <<used, book, short>> /\ used[w] = Nobody
  BY <1>1, <1>2 DEF V!Find, Moves, VInv, CallsTyped
<1>5. spare' = IF V!InHand(w) = {} THEN spare ELSE [spare EXCEPT ![w] = @ + 1]
  BY DEF V!Find
<1>6. /\ spare \in [Vouchers -> Nat]
      /\ spare'[w] = IF V!InHand(w) = {} THEN spare[w] ELSE spare[w] + 1
      /\ \A v \in Vouchers \ {w} : spare'[v] = spare[v]
  BY <1>5 DEF VInv, BooksTyped
<1>7. BooksTyped' /\ Grows
  BY <1>4, <1>5, <1>6 DEF VInv, BooksTyped, Grows, Entries
<1>8. \A v \in Vouchers \ {w} : Apart(vcall[s], v) /\ Apart(n, v) /\ SameBooks(v)
  BY <1>1, <1>3, <1>4, <1>6 DEF Apart, SameBooks, Working, V!Statements
<1>9. Accounted(w)'
  <2>1. Cardinality(Crediting(w)') = Cardinality(Crediting(w)) + 1
    BY <1>1, <1>3, <1>4, Counting DEF VInv
  <2>2. V!InHand(w)' # {}
    BY <1>3, <1>4, Handing DEF VInv, V!Statements
  <2>3. Accounted(w)
    BY DEF VInv, OnceInv
  <2>4. book[w].credit + Cardinality(Crediting(w)) + 1 <= 1 + spare'[w]
    BY <1>4, <1>6, <2>3, Numbers DEF Accounted, VInv
  <2> QED
    BY <1>4, <2>1, <2>2, <2>4, Numbers DEF Accounted, VInv
<1>10. HasPaid(n)'
  BY <1>3 DEF HasPaid
<1> QED
  BY <1>3, <1>4, <1>7, <1>8, <1>9, <1>10, Kept

\* A session that makes an entry, is at a statement, or gives one up: what it
\* has, and where it goes.
LEMMA Going ==
  ASSUME VInv, NEW s \in Sessions, vcall[s].pc \in Working, V!Goto(s, V!After(s))
  PROVE  /\ vcall[s].voucher \in Vouchers /\ vcall[s].user \in Users
         /\ \E n : /\ Formed(n) /\ Moves(s, n) /\ n.pc = V!After(s)
                   /\ n.user = vcall[s].user /\ n.voucher = vcall[s].voucher
<1>1. CallsTyped /\ Formed(vcall[s]) /\ vcall[s].pc \in V!Statements
  BY DEF VInv, CallsTyped, Working
<1>2. V!After(s) \in V!Statements
  BY <1>1 DEF V!After, V!At, Working, V!Statements
<1>3. V!After(s) # "idle"
  BY <1>2 DEF V!Statements
<1> QED
  BY <1>1, <1>2, <1>3, GoneTo DEF Formed, V!Statements

LEMMA EnterKept ==
  ASSUME PrepaidAssumption, VInv, NEW s \in Sessions, NEW to \in Entries, V!Enter(s, to)
  PROVE  VInv'
<1>1. vcall[s].pc = to /\ vcall[s].pc \in Working /\ V!Goto(s, V!After(s))
  BY DEF V!Enter, V!At, Working, V!Statements, Entries
<1>2. PICK w : w = vcall[s].voucher
  OBVIOUS
<1>3. w \in Vouchers
  BY <1>1, <1>2, Going
<1>4. PICK n : /\ Formed(n) /\ Moves(s, n) /\ n.pc = V!After(s)
               /\ n.user = vcall[s].user /\ n.voucher = w
  BY <1>1, <1>2, Going
<1>5. /\ book \in [Vouchers -> [Entries -> Nat]]
      /\ book' = [book EXCEPT ![w][to] = @ + 1]
      /\ UNCHANGED <<used, spare, short>>
  BY <1>2 DEF V!Enter, VInv, BooksTyped
<1>6. \A v \in Vouchers, e \in Entries :
         book'[v][e] = IF v = w /\ e = to THEN book[v][e] + 1 ELSE book[v][e]
  BY <1>3, <1>5
<1>7. BooksTyped' /\ Grows
  <2>1. book' \in [Vouchers -> [Entries -> Nat]]
    BY <1>3, <1>5
  <2>2. \A v \in Vouchers, e \in Entries : book[v][e] \in Nat
    BY <1>5
  <2>3. \A v \in Vouchers, e \in Entries : book'[v][e] >= book[v][e]
    BY <1>6, <2>2
  <2> QED
    BY <1>5, <2>1, <2>3 DEF VInv, BooksTyped, Grows
<1>8. \A v \in Vouchers \ {w} : Apart(vcall[s], v) /\ Apart(n, v) /\ SameBooks(v)
  BY <1>2, <1>4, <1>5, <1>6 DEF Apart, SameBooks, Entries
<1>9. /\ to = "credit" => n.pc = "payment"
      /\ to = "payment" => n.pc = IF Owner[n.user] = Nobody THEN "mark" ELSE "owner_credit"
      /\ to = "owner_credit" => n.pc = "owner_payment"
      /\ to = "owner_payment" => n.pc = "mark"
  BY <1>1, <1>4, Order DEF V!At, VInv
<1>10. n.pc \in Working \ {"credit"}
  BY <1>9 DEF Working, V!Statements, Entries
<1>11. Accounted(w)'
  <2>1. V!InHand(w)' # {}
    BY <1>3, <1>4, <1>10, Handing DEF VInv, Working
  <2>2. Accounted(w) /\ book[w].credit \in Nat /\ spare[w] \in Nat
    BY <1>3, Numbers DEF VInv, OnceInv
  <2>3. book'[w].credit = IF to = "credit" THEN book[w].credit + 1 ELSE book[w].credit
    BY <1>3, <1>6 DEF Entries
  <2>4. /\ Cardinality(Crediting(w)) \in Nat
        /\ Cardinality(Crediting(w)') =
             IF to = "credit" THEN Cardinality(Crediting(w)) - 1 ELSE Cardinality(Crediting(w))
    BY <1>1, <1>2, <1>3, <1>4, <1>10, Counting DEF VInv
  <2>5. book'[w].credit + Cardinality(Crediting(w)') = book[w].credit + Cardinality(Crediting(w))
    BY <2>2, <2>3, <2>4
  <2> QED
    BY <1>5, <2>1, <2>2, <2>5 DEF Accounted
<1>12. ASSUME n.voucher \notin short' PROVE HasPaid(n)'
  <2>1. HasPaid(vcall[s])
    BY <1>1, <1>2, <1>4, <1>5, <1>12 DEF VInv, PaidInv, Working
  <2>2. \A e \in Entries : /\ book[w][e] \in Nat /\ book'[w][e] \in Nat
                           /\ e = to \/ book[w][e] > 0 => book'[w][e] > 0
    BY <1>3, <1>5, <1>6
  <2> QED
    BY <1>1, <1>2, <1>4, <1>9, <2>1, <2>2 DEF HasPaid, Entries
<1> QED
  BY <1>3, <1>4, <1>5, <1>7, <1>8, <1>11, <1>12, Kept

LEMMA MarkKept ==
  ASSUME PrepaidAssumption, VInv, NEW s \in Sessions, V!MarkUsed(s)
  PROVE  VInv'
<1>1. vcall[s].pc = "mark" /\ vcall[s].pc \in Working /\ V!Goto(s, V!After(s))
  BY DEF V!MarkUsed, V!At, Working, V!Statements
<1>2. PICK w, u : w = vcall[s].voucher /\ u = vcall[s].user
  OBVIOUS
<1>3. w \in Vouchers /\ u \in Users /\ u # Nobody
  BY <1>1, <1>2, Going DEF PrepaidAssumption
<1>4. PICK n : Formed(n) /\ Moves(s, n) /\ n.pc = "block" /\ n.voucher = w
  BY <1>1, <1>2, Going, Order DEF V!At, VInv
<1>5. /\ used \in [Vouchers -> Users \cup {Nobody}]
      /\ used' = [used EXCEPT ![w] = u]
      /\ UNCHANGED <<book, spare, short>>
  BY <1>2 DEF V!MarkUsed, VInv, BooksTyped
<1>6. BooksTyped' /\ Grows
  BY <1>3, <1>5 DEF VInv, BooksTyped, Grows, Entries
<1>7. \A v \in Vouchers \ {w} : Apart(vcall[s], v) /\ Apart(n, v) /\ SameBooks(v)
  BY <1>2, <1>4, <1>5 DEF Apart, SameBooks
<1>8. Accounted(w)'
  <2>1. Cardinality(Crediting(w)') = Cardinality(Crediting(w))
    BY <1>1, <1>3, <1>4, Counting DEF VInv
  <2>2. used'[w] # Nobody
    BY <1>3, <1>5
  <2> QED
    BY <1>3, <1>5, <2>1, <2>2 DEF VInv, OnceInv, Accounted
<1>9. ASSUME NEW v \in Vouchers \ short'
      PROVE  used'[v] = used[v] \/ PaidOut(v)'
  <2>1. CASE v = w
    <3>1. HasPaid(vcall[s])
      BY <1>1, <1>2, <1>5, <1>9, <2>1 DEF VInv, PaidInv, Working
    <3> QED
      BY <1>1, <1>2, <1>3, <1>5, <2>1, <3>1 DEF HasPaid, PaidOut
  <2>2. CASE v # w
    BY <1>3, <1>5, <2>2
  <2> QED
    BY <2>1, <2>2
<1>10. HasPaid(n)'
  BY <1>4 DEF HasPaid
<1> QED
  BY <1>3, <1>4, <1>6, <1>7, <1>8, <1>9, <1>10, Kept

\* A session that gives up the statement it is at, and goes on or ends.
LEMMA GivenUpKept ==
  ASSUME PrepaidAssumption, VInv, NEW s \in Sessions, vcall[s].pc \in Working,
         NEW n, Formed(n), Moves(s, n), UNCHANGED <<used, book>>,
         NEW w, w \in Vouchers, w = vcall[s].voucher,
         \/ n.pc = "idle"
         \/ n.voucher = w /\ n.pc \in V!Statements \ {"credit"} /\ w \in short',
         vcall[s].pc = "mark" => n.pc \in {"idle", "block"},
         vcall[s].pc # "mark" /\ n.pc # "idle" => n.pc # "block",
         spare' = IF vcall[s].pc # "credit" /\ n.pc \in {"idle", "block"}
                    THEN [spare EXCEPT ![w] = @ + 1] ELSE spare,
         short \subseteq short'
  PROVE  VInv'
<1>1. spare \in [Vouchers -> Nat]
  BY DEF VInv, BooksTyped
<1>2. /\ \A v \in Vouchers \ {w} : spare'[v] = spare[v]
      /\ spare'[w] = IF vcall[s].pc # "credit" /\ n.pc \in {"idle", "block"}
                       THEN spare[w] + 1 ELSE spare[w]
  BY <1>1
<1>3. BooksTyped' /\ Grows
  BY <1>1 DEF VInv, BooksTyped, Grows, Entries
<1>4. \A v \in Vouchers \ {w} : Apart(vcall[s], v) /\ Apart(n, v) /\ SameBooks(v)
  BY <1>2 DEF Apart, SameBooks, Working, V!Statements
<1>5. Accounted(w)'
  <2>1. Accounted(w) /\ book[w].credit \in Nat /\ spare[w] \in Nat
    BY Numbers DEF VInv, OnceInv
  <2>2. /\ Cardinality(Crediting(w)) \in Nat
        /\ vcall[s].pc # "credit" => Cardinality(Crediting(w)') = Cardinality(Crediting(w))
        /\ vcall[s].pc = "credit" => /\ Cardinality(Crediting(w)') = Cardinality(Crediting(w)) - 1
                                     /\ Cardinality(Crediting(w)) > 0
    BY Counting DEF VInv, V!Statements
  <2>3. book[w].credit + Cardinality(Crediting(w)') <= 1 + spare'[w]
    BY <1>2, <2>1, <2>2 DEF Accounted
  <2>4. CASE n.pc \in {"idle", "block"}
    <3>1. vcall[s].pc = "credit" => book[w].credit <= spare[w]
      BY <2>1, <2>2 DEF Accounted
    <3>2. vcall[s].pc # "credit" => book[w].credit <= 1 + spare[w]
      BY <2>1, <2>2 DEF Accounted
    <3>3. book[w].credit <= spare'[w]
      BY <1>2, <2>1, <2>4, <3>1, <3>2
    <3> QED
      BY <2>3, <3>3 DEF Accounted
  <2>5. CASE n.pc \notin {"idle", "block"}
    <3>1. V!InHand(w)' # {}
      BY <2>5, Handing DEF VInv
    <3> QED
      BY <2>3, <3>1 DEF Accounted
  <2> QED
    BY <2>4, <2>5
<1>6. n.pc \in V!Statements => n.voucher \in short'
  BY DEF V!Statements
<1>7. \A v \in Vouchers : used'[v] = used[v]
  OBVIOUS
<1> QED
  BY <1>3, <1>4, <1>5, <1>6, <1>7, Kept

LEMMA FailKept ==
  ASSUME PrepaidAssumption, VInv, NEW s \in Sessions, V!Fails(s)
  PROVE  VInv'
<1>1. /\ vcall[s].pc \in V!Statements /\ V!Goto(s, V!After(s))
      /\ UNCHANGED <<used, book>> /\ short' = short \cup {vcall[s].voucher}
      /\ spare' = IF vcall[s].pc = "mark" THEN [spare EXCEPT ![vcall[s].voucher] = @ + 1]
                  ELSE spare
  BY DEF V!Fails, V!At, V!Unmarked, V!Statements
<1>2. CASE vcall[s].pc = "block"
  <2>1. V!After(s) = "idle"
    BY <1>2, Order DEF V!At, VInv
  <2>2. PICK n : Formed(n) /\ Moves(s, n) /\ n.pc = "idle"
    BY <1>1, <2>1, GoneTo DEF VInv
  <2>3. n.pc \notin Working /\ vcall[s].pc \notin Working
    BY <1>2, <2>2 DEF Working, V!Statements
  <2> QED
    BY <1>1, <1>2, <2>2, <2>3, QuietKept
<1>3. CASE vcall[s].pc # "block"
  <2>1. vcall[s].pc \in Working
    BY <1>1, <1>3 DEF Working
  <2>2. PICK w : w = vcall[s].voucher /\ w \in Vouchers
    BY <1>1, <2>1, Going
  <2>3. PICK n : /\ Formed(n) /\ Moves(s, n) /\ n.pc = V!After(s) /\ n.voucher = w
    BY <1>1, <2>1, <2>2, Going
  <2>4. /\ n.pc \in V!Statements \ {"credit"}
        /\ vcall[s].pc = "mark" <=> n.pc = "block"
    BY <2>1, <2>3, Order DEF V!At, VInv, Working, V!Statements
  <2>5. n.pc # "idle"
    BY <2>4 DEF V!Statements
  <2>6. spare' = IF vcall[s].pc # "credit" /\ n.pc \in {"idle", "block"}
                   THEN [spare EXCEPT ![w] = @ + 1] ELSE spare
    BY <1>1, <2>2, <2>4, <2>5
  <2> QED
    BY <1>1, <2>1, <2>2, <2>3, <2>4, <2>5, <2>6, GivenUpKept
<1> QED
  BY <1>2, <1>3

LEMMA HangupKept ==
  ASSUME PrepaidAssumption, VInv, NEW s \in Sessions, V!Hangup(s)
  PROVE  VInv'
<1>1. /\ vcall[s].pc \in V!Statements /\ V!Goto(s, "idle")
      /\ UNCHANGED <<used, book, short>>
      /\ spare' = IF vcall[s].pc \in V!Statements \ {"credit", "block"}
                    THEN [spare EXCEPT ![vcall[s].voucher] = @ + 1] ELSE spare
  BY DEF V!Hangup, V!Unmarked
<1>2. PICK n : Formed(n) /\ Moves(s, n) /\ n.pc = "idle"
  BY <1>1, GoneTo DEF VInv
<1>3. CASE vcall[s].pc = "block"
  BY <1>1, <1>2, <1>3, QuietKept DEF Working, V!Statements
<1>4. CASE vcall[s].pc # "block"
  <2>1. vcall[s].pc \in Working
    BY <1>1, <1>4 DEF Working
  <2>2. PICK w : w = vcall[s].voucher /\ w \in Vouchers
    BY <1>1 DEF VInv, CallsTyped, Formed
  <2> QED
    BY <1>1, <1>2, <2>1, <2>2, GivenUpKept DEF Working
<1> QED
  BY <1>3, <1>4

LEMMA BlockKept ==
  ASSUME PrepaidAssumption, VInv, NEW s \in Sessions, V!BlockCard(s)
  PROVE  VInv'
<1>1. vcall[s].pc = "block" /\ V!Goto(s, V!After(s)) /\ UNCHANGED <<used, book, spare, short>>
  BY DEF V!BlockCard, V!At
<1>2. V!After(s) = "idle"
  BY <1>1, Order DEF V!At, VInv
<1>3. PICK n : Formed(n) /\ Moves(s, n) /\ n.pc = "idle"
  BY <1>1, <1>2, GoneTo DEF VInv, V!Statements
<1> QED
  BY <1>1, <1>3, QuietKept DEF Working, V!Statements

-----------------------------------------------------------------------------
LEMMA InitKept == PrepaidAssumption /\ Init => VInv
<1> SUFFICES ASSUME PrepaidAssumption, Init PROVE VInv
  OBVIOUS
<1>1. /\ used = [v \in Vouchers |-> Nobody] /\ book = [v \in Vouchers |-> V!NoEntries]
      /\ vcall = [s \in Sessions |-> V!Idle] /\ spare = [v \in Vouchers |-> 0]
  BY DEF Init, V!Init
<1>2. CallsTyped
  BY <1>1 DEF CallsTyped, Formed, VCalls, V!Idle, V!Statements
<1>3. BooksTyped
  BY <1>1 DEF BooksTyped, V!NoEntries, Entries
<1>4. PaidInv
  BY <1>1 DEF PaidInv, V!MarkedIsPaid, V!Idle, V!Statements
<1>5. ASSUME NEW v \in Vouchers PROVE Accounted(v)
  <2>1. V!InHand(v) = {}
    BY <1>1 DEF V!InHand, V!Idle, V!Statements
  <2>2. book[v].credit = 0 /\ spare[v] = 0
    BY <1>1 DEF V!NoEntries
  <2> QED
    BY <1>2, <1>3, <2>1, <2>2, Numbers DEF Accounted
<1> QED
  BY <1>2, <1>3, <1>4, <1>5 DEF VInv, OnceInv

LEMMA QuietStep == VInv /\ UNCHANGED voucherVars => VInv'
BY DEF VInv, voucherVars, CallsTyped, BooksTyped, OnceInv, PaidInv, Accounted, Crediting,
       V!InHand, V!MarkedIsPaid, HasPaid

LEMMA StepKept == PrepaidAssumption /\ VInv /\ [Next]_vars => VInv'
<1> SUFFICES ASSUME PrepaidAssumption, VInv, [Next]_vars PROVE VInv'
  OBVIOUS
<1>1. CASE VoucherStep
  <2>1. PICK s \in Sessions :
           \/ \E u \in Users : V!Begin(s, u)
           \/ \E v \in Vouchers : V!Find(s, v)
           \/ V!FindNone(s) \/ V!Statement(s) \/ V!Fails(s) \/ V!Hangup(s)
    BY <1>1 DEF VoucherStep, V!Next
  <2>2. CASE V!Statement(s)
    <3>1. (\E to \in Entries : V!Enter(s, to)) \/ V!MarkUsed(s) \/ V!BlockCard(s)
      BY <2>2 DEF V!Statement, V!UpdateBalance, V!InsertPayment, V!UpdateOwnerBalance,
                  V!InsertOwnerPayment, Entries
    <3> QED
      BY <3>1, EnterKept, MarkKept, BlockKept
  <2> QED
    BY <2>1, <2>2, BeginKept, FindKept, FindNoneKept, FailKept, HangupKept
<1>2. CASE TopupStep
  BY <1>2, QuietStep DEF TopupStep, voucherVars
<1>3. CASE UNCHANGED vars
  BY <1>3, QuietStep DEF vars
<1> QED
  BY <1>1, <1>2, <1>3 DEF Next

LEMMA Invariant == Spec => []VInv
<1>1. Init => VInv
  BY PrepaidAssumption, InitKept
<1>2. VInv /\ [Next]_vars => VInv'
  BY PrepaidAssumption, StepKept
<1> QED
  BY <1>1, <1>2, PTL DEF Spec

\* A voucher is credited once, and once more only for a session that found it
\* while another had it in hand or for one that left it unmarked: however many
\* calls of mor_usevoucher run at a time, and whatever mor_card_topup does.
THEOREM VouchersPayOnce == Spec => []VoucherPaysOnce
<1>1. VInv => VoucherPaysOnce
  <2> SUFFICES ASSUME VInv, NEW v \in Vouchers PROVE book[v].credit <= 1 + spare[v]
    BY DEF VoucherPaysOnce, V!VoucherPaysOnce
  <2>1. Accounted(v)
    BY DEF VInv, OnceInv
  <2> QED
    BY <2>1, PrepaidAssumption, Numbers DEF VInv, Accounted
<1> QED
  BY <1>1, Invariant, PTL

\* A voucher that is marked has been paid out to the user and the reseller, at
\* any moment and whoever hangs up, unless a statement for it failed.
THEOREM MarkedVouchersArePaid == Spec => []MarkedIsPaid
<1>1. VInv => MarkedIsPaid
  BY DEF VInv, PaidInv, MarkedIsPaid
<1> QED
  BY <1>1, Invariant, PTL

-----------------------------------------------------------------------------
(***************************************************************************)
(* The sessions of mor_card_topup.  The other program disturbs them by     *)
(* nothing but blocking a card.                                            *)
(***************************************************************************)

\* Past the prompts a session has two different cards.  A card that is fresh has
\* a distributor, and only the stale mark of an earlier card lets a session
\* charge for one that is not.
TFormed(n) ==
    /\ n.pc \in T!Statements => n.b \in Cards /\ n.a # n.b
    /\ n.pc \in T!Statements /\ n.fresh => touch /\ Distributor[n.b] # Nobody
    /\ n.pc = "charge" => touch /\ n.charge
    /\ n.pc = "empty" /\ touch /\ n.charge => n.fresh \/ upset \cap {"stale", "failed"} # {}

FormInv == T!TypeOK /\ \A s \in Sessions : TFormed(tcall[s])

\* A card that was charged for is used, or about to be; one that a session has
\* found unused and is about to charge for is not charged for.
PaidOnce(c) ==
    /\ charged[c] <= 1
    /\ charged[c] > 0 => cards[c].used \/ \E s \in T!InHand(c) : tcall[s].pc = "empty"
    /\ \A s \in T!InHand(c) : tcall[s].pc # "empty" /\ tcall[s].fresh => charged[c] = 0
    /\ \A s, t \in T!InHand(c) : s = t

Undisturbed == upset \cap {"failed", "hangup", "shared", "stale"} = {}

PayInv == Undisturbed => \A c \in Cards : PaidOnce(c)

\* Who may take a card that has been blocked.
Sellable(c) == touch /\ (Distributor[c] # Nobody \/ upset \cap {"stale", "failed"} # {})

BlockInv == blocked \subseteq Cards /\ \A c \in blocked : cards[c].sold => Sellable(c)

TInv == FormInv /\ PayInv /\ BlockInv

CardsTyped == cards \in [Cards -> [balance : Int, sold : BOOLEAN, used : BOOLEAN]]

TCalls == [pc : {"idle", "ask", "credit", "charge", "empty"},
           a : Cards \cup {Nobody}, b : Cards \cup {Nobody},
           amount : Int, tries : 0 .. MaxTries - 1, charge : BOOLEAN, fresh : BOOLEAN]

TMoves(s, n) == tcall' = [tcall EXCEPT ![s] = n]

\* How the history of what has happened grows.
UpsetGrows == upset \subseteq upset' /\ upset' \subseteq T!Upsets

LEMMA TTypes ==
  T!TypeOK <=> /\ CardsTyped /\ calls \in [Cards -> Nat] /\ distr \in [T!Distributors -> Int]
               /\ tcall \in [Sessions -> TCalls] /\ touch \in BOOLEAN /\ spent \in Nat
               /\ slack \in Nat /\ charged \in [Cards -> Nat] /\ upset \subseteq T!Upsets
BY DEF T!TypeOK, CardsTyped, TCalls, T!Statements

LEMMA TTypesNext ==
  ASSUME CardsTyped', calls' \in [Cards -> Nat], distr' \in [T!Distributors -> Int],
         tcall' \in [Sessions -> TCalls], touch' \in BOOLEAN, spent' \in Nat, slack' \in Nat,
         charged' \in [Cards -> Nat], upset' \subseteq T!Upsets
  PROVE  T!TypeOK'
BY DEF T!TypeOK, CardsTyped, TCalls, T!Statements, T!Distributors, T!Upsets

LEMMA TMoved ==
  ASSUME tcall \in [Sessions -> TCalls], NEW s \in Sessions, NEW n \in TCalls, TMoves(s, n)
  PROVE  /\ tcall' \in [Sessions -> TCalls]
         /\ \A t \in Sessions : tcall'[t] = IF t = s THEN n ELSE tcall[t]
BY DEF TMoves

\* Sessions stay well formed when one of them moves and more has happened.
LEMMA FormedKept ==
  ASSUME FormInv, NEW s \in Sessions, NEW n \in TCalls, TMoves(s, n), TFormed(n)',
         UpsetGrows, touch' = touch, T!TypeOK'
  PROVE  FormInv'
<1>1. \A t \in Sessions : tcall'[t] = IF t = s THEN n ELSE tcall[t]
  BY TMoved, TTypes DEF FormInv
<1>2. ASSUME NEW t \in Sessions, t # s PROVE TFormed(tcall[t])'
  <2>1. TFormed(tcall[t]) /\ tcall'[t] = tcall[t]
    BY <1>1, <1>2 DEF FormInv
  <2> QED
    BY <2>1 DEF TFormed, UpsetGrows
<1>3. TFormed(tcall[s])'
  BY <1>1 DEF TFormed
<1> QED
  BY <1>2, <1>3 DEF FormInv

\* Where a session goes from a statement.
LEMMA TGone ==
  ASSUME FormInv, NEW s \in Sessions, tcall[s].pc \in T!Statements,
         NEW to \in {"idle", "charge", "empty"}, T!Goto(s, to)
  PROVE  \E n \in TCalls :
            /\ TMoves(s, n) /\ n.pc = to
            /\ to # "idle" => n = [tcall[s] EXCEPT !.pc = to]
            /\ to = "idle" => n = T!Idle
<1>1. tcall[s] \in TCalls
  BY TTypes DEF FormInv
<1>2. T!Idle \in TCalls /\ T!Idle.pc = "idle"
  BY PrepaidAssumption DEF PrepaidAssumption, T!Idle, TCalls
<1>3. CASE to = "idle"
  BY <1>2, <1>3 DEF T!Goto, TMoves
<1>4. CASE to # "idle"
  <2>1. PICK n : n = [tcall[s] EXCEPT !.pc = to]
    OBVIOUS
  <2>2. n \in TCalls /\ n.pc = to
    BY <1>1, <1>4, <2>1 DEF TCalls
  <2>3. TMoves(s, n)
    BY <1>4, <2>1 DEF T!Goto, TMoves
  <2> QED
    BY <1>4, <2>1, <2>2, <2>3
<1> QED
  BY <1>3, <1>4

LEMMA InHandMoved ==
  ASSUME FormInv, NEW s \in Sessions, NEW n \in TCalls, TMoves(s, n), NEW c
  PROVE  T!InHand(c)' = IF n.pc \in T!Statements /\ n.b = c
                        THEN T!InHand(c) \cup {s} ELSE T!InHand(c) \ {s}
<1>1. \A t \in Sessions : tcall'[t] = IF t = s THEN n ELSE tcall[t]
  BY TMoved, TTypes DEF FormInv
<1> QED
  BY <1>1 DEF T!InHand

LEMMA Undisturbing == UpsetGrows /\ Undisturbed' => Undisturbed
BY DEF UpsetGrows, Undisturbed

UsedStays == \A c \in Cards : cards[c].used => cards'[c].used

\* A session that is at the prompts, or at its end, concerns no card.
LEMMA PromptKept ==
  ASSUME FormInv, PayInv, NEW s \in Sessions, NEW n \in TCalls, TMoves(s, n),
         tcall[s].pc \notin T!Statements, n.pc \notin T!Statements,
         UpsetGrows, UNCHANGED <<charged, cards>>
  PROVE  PayInv'
<1> SUFFICES ASSUME Undisturbed', NEW c \in Cards PROVE PaidOnce(c)'
  BY DEF PayInv
<1>1. PaidOnce(c)
  BY Undisturbing DEF PayInv
<1>2. \A t \in Sessions : tcall'[t] = IF t = s THEN n ELSE tcall[t]
  BY TMoved, TTypes DEF FormInv
<1>3. T!InHand(c)' = T!InHand(c) /\ T!InHand(c) \subseteq Sessions /\ s \notin T!InHand(c)
  BY InHandMoved DEF T!InHand
<1> QED
  BY <1>1, <1>2, <1>3 DEF PaidOnce

\* A session that goes on with its cards, without charging for one.
LEMMA GoesOnKept ==
  ASSUME FormInv, PayInv, NEW s \in Sessions, NEW to \in {"charge", "empty"},
         tcall[s].pc = "credit", NEW n \in TCalls, TMoves(s, n), n = [tcall[s] EXCEPT !.pc = to],
         UpsetGrows, charged' = charged, UsedStays
  PROVE  PayInv'
<1> SUFFICES ASSUME Undisturbed', NEW c \in Cards PROVE PaidOnce(c)'
  BY DEF PayInv
<1>1. PaidOnce(c)
  BY Undisturbing DEF PayInv
<1>2. \A t \in Sessions : tcall'[t] = IF t = s THEN n ELSE tcall[t]
  BY TMoved, TTypes DEF FormInv
<1>3. n.pc = to /\ n.b = tcall[s].b /\ n.fresh = tcall[s].fresh /\ tcall[s] \in TCalls
  BY TTypes DEF FormInv, TCalls
<1>4. T!InHand(c)' = T!InHand(c) /\ T!InHand(c) \subseteq Sessions
  <2>0. n.pc \in T!Statements
    BY <1>3 DEF T!Statements
  <2>1. T!InHand(c)' = IF n.b = c THEN T!InHand(c) \cup {s} ELSE T!InHand(c) \ {s}
    BY <2>0, InHandMoved
  <2>2. s \in T!InHand(c) <=> n.b = c
    BY <1>3 DEF T!InHand, T!Statements
  <2> QED
    BY <2>1, <2>2 DEF T!InHand
<1> QED
  BY <1>1, <1>2, <1>3, <1>4 DEF PaidOnce, UsedStays

\* A card that is accepted.
LEMMA AcceptKept ==
  ASSUME FormInv, PayInv, NEW s \in Sessions, tcall[s].pc = "ask", NEW b \in Cards,
         NEW n \in TCalls, TMoves(s, n), n.pc = "credit", n.b = b, n.fresh => ~cards[b].used,
         UpsetGrows, T!InHand(b) # {} => "shared" \in upset', UNCHANGED <<charged, cards>>
  PROVE  PayInv'
<1> SUFFICES ASSUME Undisturbed', NEW c \in Cards PROVE PaidOnce(c)'
  BY DEF PayInv
<1>1. PaidOnce(c) /\ T!InHand(b) = {}
  BY Undisturbing DEF PayInv, Undisturbed
<1>2. \A t \in Sessions : tcall'[t] = IF t = s THEN n ELSE tcall[t]
  BY TMoved, TTypes DEF FormInv
<1>3. s \notin T!InHand(c) /\ T!InHand(c) \subseteq Sessions
  BY DEF T!InHand, T!Statements
<1>4. CASE c = b
  <2>1. T!InHand(c)' = {s}
    BY <1>1, <1>4, InHandMoved DEF T!Statements
  <2> QED
    BY <1>1, <1>2, <1>4, <2>1, TTypes DEF PaidOnce, FormInv
<1>5. CASE c # b
  <2>1. T!InHand(c)' = T!InHand(c)
    BY <1>3, <1>5, InHandMoved
  <2> QED
    BY <1>1, <1>2, <1>3, <2>1 DEF PaidOnce
<1> QED
  BY <1>4, <1>5

LEMMA ChargeKept ==
  ASSUME FormInv, PayInv, NEW s \in Sessions, tcall[s].pc = "charge",
         NEW n \in TCalls, TMoves(s, n), n = [tcall[s] EXCEPT !.pc = "empty"],
         UpsetGrows, ~tcall[s].fresh => "stale" \in upset', cards' = cards,
         \/ charged' = charged
         \/ charged' = [charged EXCEPT ![tcall[s].b] = @ + 1]
  PROVE  PayInv'
<1> SUFFICES ASSUME Undisturbed', NEW c \in Cards PROVE PaidOnce(c)'
  BY DEF PayInv
<1>1. PaidOnce(c)
  BY Undisturbing DEF PayInv
<1>2. \A t \in Sessions : tcall'[t] = IF t = s THEN n ELSE tcall[t]
  BY TMoved, TTypes DEF FormInv
<1>3. /\ n.pc = "empty" /\ n.b = tcall[s].b /\ tcall[s] \in TCalls /\ tcall[s].fresh
      /\ tcall[s].b \in Cards
  BY TTypes DEF FormInv, TFormed, TCalls, Undisturbed, T!Statements
<1>4. T!InHand(c)' = T!InHand(c) /\ T!InHand(c) \subseteq Sessions
  <2>0. n.pc \in T!Statements
    BY <1>3 DEF T!Statements
  <2>1. T!InHand(c)' = IF n.b = c THEN T!InHand(c) \cup {s} ELSE T!InHand(c) \ {s}
    BY <2>0, InHandMoved
  <2>2. s \in T!InHand(c) <=> n.b = c
    BY <1>3 DEF T!InHand, T!Statements
  <2> QED
    BY <2>1, <2>2 DEF T!InHand
<1>5. charged \in [Cards -> Nat]
  BY TTypes DEF FormInv
<1>6. CASE tcall[s].b = c
  <2>1. s \in T!InHand(c) /\ charged[c] = 0
    BY <1>1, <1>3, <1>6 DEF PaidOnce, T!InHand, T!Statements
  <2>2. charged'[c] \in {0, 1}
    BY <1>5, <1>6, <2>1
  <2>3. \A t \in T!InHand(c)' : t = s
    BY <1>1, <1>4, <2>1 DEF PaidOnce
  <2>4. s \in T!InHand(c)' /\ tcall'[s].pc = "empty"
    BY <1>2, <1>3, <1>4, <2>1
  <2>5. charged'[c] <= 1 /\ \A t, u \in T!InHand(c)' : t = u
    BY <2>2, <2>3
  <2> QED
    BY ONLY <2>3, <2>4, <2>5 DEF PaidOnce
<1>7. CASE tcall[s].b # c
  <2>1. charged'[c] = charged[c] /\ s \notin T!InHand(c)
    BY <1>5, <1>7 DEF T!InHand
  <2> QED
    BY <1>1, <1>2, <1>4, <2>1 DEF PaidOnce
<1> QED
  BY <1>6, <1>7

LEMMA EmptyKept ==
  ASSUME FormInv, PayInv, NEW s \in Sessions, tcall[s].pc = "empty",
         NEW n \in TCalls, TMoves(s, n), n.pc = "idle",
         UpsetGrows, charged' = charged, UsedStays, cards'[tcall[s].b].used
  PROVE  PayInv'
<1> SUFFICES ASSUME Undisturbed', NEW c \in Cards PROVE PaidOnce(c)'
  BY DEF PayInv
<1>1. PaidOnce(c)
  BY Undisturbing DEF PayInv
<1>2. \A t \in Sessions : tcall'[t] = IF t = s THEN n ELSE tcall[t]
  BY TMoved, TTypes DEF FormInv
<1>3. T!InHand(c)' = T!InHand(c) \ {s} /\ T!InHand(c) \subseteq Sessions
  BY InHandMoved DEF T!InHand, T!Statements
<1>4. s \in T!InHand(c) => cards'[c].used
  BY DEF T!InHand
<1> QED
  BY <1>1, <1>2, <1>3, <1>4 DEF PaidOnce, UsedStays

\* What the cards are charged for does not depend on anything else.
LEMMA ApartKept ==
  ASSUME PayInv, UpsetGrows, UNCHANGED <<tcall, charged>>, UsedStays
  PROVE  PayInv'
<1> SUFFICES ASSUME Undisturbed', NEW c \in Cards PROVE PaidOnce(c)'
  BY DEF PayInv
<1>1. PaidOnce(c)
  BY Undisturbing DEF PayInv
<1> QED
  BY <1>1 DEF PaidOnce, UsedStays, T!InHand

LEMMA SoldKept ==
  ASSUME BlockInv, UpsetGrows, touch' = touch, blocked' = blocked,
         \A c \in Cards : cards'[c].sold => cards[c].sold \/ Sellable(c)'
  PROVE  BlockInv'
BY DEF BlockInv, Sellable, UpsetGrows

\* The steps of a session, one by one.
LEMMA TBeginKept ==
  ASSUME TInv, NEW s \in Sessions, NEW a \in Cards \cup {Nobody}, T!Begin(s, a),
         blocked' = blocked
  PROVE  TInv'
<1>1. FormInv /\ PayInv /\ BlockInv /\ tcall[s].pc = "idle" /\ tcall[s] \in TCalls
  BY TTypes DEF TInv, FormInv, T!Begin, T!At
<1>2. PICK n : n = [T!Idle EXCEPT !.pc = "ask", !.a = a]
  OBVIOUS
<1>3. n \in TCalls /\ n.pc = "ask" /\ n.a = a
  <2>1. 0 \in 0 .. MaxTries - 1
    BY PrepaidAssumption DEF PrepaidAssumption
  <2>2. n = [pc |-> "ask", a |-> a, b |-> Nobody, amount |-> 0, tries |-> 0,
             charge |-> FALSE, fresh |-> FALSE]
    BY <1>2 DEF T!Idle
  <2> QED
    BY <2>1, <2>2 DEF TCalls
<1>4. TMoves(s, n) /\ UNCHANGED <<cards, calls, distr, touch, spent, slack, charged, upset>>
  BY <1>2 DEF T!Begin, TMoves
<1>5. UpsetGrows /\ T!TypeOK'
  BY <1>1, <1>3, <1>4, TMoved, TTypes, TTypesNext DEF FormInv, UpsetGrows, CardsTyped
<1>6. TFormed(n)'
  BY <1>3 DEF TFormed, T!Statements
<1> QED
  BY <1>1, <1>3, <1>4, <1>5, <1>6, FormedKept, PromptKept, SoldKept DEF TInv, T!Statements

\* What asking again makes of a session.
LEMMA Asked ==
  ASSUME NEW n \in TCalls, n.pc = "ask"
  PROVE  /\ T!AskAgain(0, n) \in TCalls
         /\ T!AskAgain(0, n).pc \in {"idle", "ask"}
         /\ \A s : T!AskAgain(s, n) = T!AskAgain(0, n)
         /\ TFormed(T!AskAgain(0, n))'
<1>1. T!Idle \in TCalls /\ T!Idle.pc = "idle"
  BY PrepaidAssumption DEF PrepaidAssumption, T!Idle, TCalls
<1>2. PICK m : m = [n EXCEPT !.tries = @ + 1]
  OBVIOUS
<1>3. n.tries + 1 < MaxTries => m \in TCalls /\ m.pc = "ask"
  BY <1>2, PrepaidAssumption DEF PrepaidAssumption, TCalls
<1>4. T!AskAgain(0, n) = IF n.tries + 1 < MaxTries THEN m ELSE T!Idle
  BY <1>2 DEF T!AskAgain
<1>5. PICK r : r = T!AskAgain(0, n)
  OBVIOUS
<1>6. r \in TCalls /\ r.pc \in {"idle", "ask"}
  BY <1>1, <1>3, <1>4, <1>5
<1>7. TFormed(r)'
  BY <1>6 DEF TFormed, T!Statements
<1> QED
  BY <1>5, <1>6, <1>7 DEF T!AskAgain

LEMMA TAskedKept ==
  ASSUME TInv, NEW s \in Sessions, tcall[s].pc = "ask", NEW n \in TCalls, n.pc = "ask",
         n.a = tcall[s].a, tcall' = [tcall EXCEPT ![s] = T!AskAgain(s, n)],
         UNCHANGED <<cards, calls, distr, touch, spent, slack, charged, upset, blocked>>
  PROVE  TInv'
<1>1. FormInv /\ PayInv /\ BlockInv
  BY DEF TInv
<1>2. PICK m : m = T!AskAgain(s, n)
  OBVIOUS
<1>3. m \in TCalls /\ m.pc \in {"idle", "ask"} /\ TFormed(m)'
  BY <1>1, <1>2, Asked
<1>4. TMoves(s, m) /\ UpsetGrows
  BY <1>1, <1>2, TTypes DEF TMoves, UpsetGrows, FormInv
<1>5. T!TypeOK'
  BY <1>1, <1>3, <1>4, TMoved, TTypes, TTypesNext DEF FormInv, CardsTyped
<1> QED
  BY <1>1, <1>3, <1>4, <1>5, FormedKept, PromptKept, SoldKept DEF TInv, T!Statements

LEMMA TFindNoneKept ==
  ASSUME TInv, NEW s \in Sessions, T!FindNone(s), blocked' = blocked
  PROVE  TInv'
<1>1. tcall[s] \in TCalls /\ tcall[s].pc = "ask"
  BY TTypes DEF TInv, FormInv, T!FindNone, T!At
<1> QED
  BY <1>1, TAskedKept DEF T!FindNone

\* What is kept of a card that was tried.
LEMMA TriedCard ==
  ASSUME FormInv, NEW s \in Sessions, NEW b \in Cards
  PROVE  \E n \in TCalls : /\ n = T!Tried(s, b) /\ n.pc = tcall[s].pc /\ n.a = tcall[s].a
                           /\ n.b = b
                           /\ n.fresh <=> T!FirstUse(b)
<1>1. PICK n : n = T!Tried(s, b)
  OBVIOUS
<1>2. tcall[s] \in TCalls /\ touch \in BOOLEAN /\ cards[b].used \in BOOLEAN
  BY TTypes DEF FormInv, CardsTyped
<1>3. T!FirstUse(b) \in BOOLEAN /\ T!CanPay(b) \in BOOLEAN
  BY DEF T!FirstUse, T!CanPay
<1>4. n \in TCalls /\ n.pc = tcall[s].pc /\ n.a = tcall[s].a /\ n.b = b
      /\ n.fresh = T!FirstUse(b)
  BY <1>1, <1>2, <1>3 DEF T!Tried, TCalls
<1> QED
  BY <1>1, <1>4

LEMMA TFindKept ==
  ASSUME TInv, NEW s \in Sessions, NEW b \in Cards, T!Find(s, b), blocked' = blocked
  PROVE  TInv'
<1>1. /\ FormInv /\ PayInv /\ BlockInv /\ tcall[s].pc = "ask"
      /\ upset \subseteq T!Upsets
  BY TTypes DEF TInv, FormInv, TFormed, T!Find, T!At
<1>2. PICK n \in TCalls : /\ n = T!Tried(s, b) /\ n.pc = "ask" /\ n.a = tcall[s].a
                          /\ n.b = b
                          /\ n.fresh <=> T!FirstUse(b)
  BY <1>1, TriedCard
<1>3. CASE tcall' = [tcall EXCEPT ![s] = T!AskAgain(s, T!Tried(s, b))] /\ UNCHANGED upset
  BY <1>1, <1>2, <1>3, TAskedKept DEF T!Find
<1>4. ASSUME T!Accepted(s, b),
             tcall' = [tcall EXCEPT ![s] =
                [T!Tried(s, b) EXCEPT !.pc = T!After(s), !.amount = cards[b].balance]],
             T!Upset(IF T!InHand(b) # {} THEN {"shared"} ELSE {})
      PROVE  TInv'
  <2>1. PICK m : m = [n EXCEPT !.pc = "credit", !.amount = cards[b].balance]
    OBVIOUS
  <2>2. T!After(s) = "credit"
    BY <1>1 DEF T!After, T!At
  <2>3. TMoves(s, m)
    BY <1>2, <1>4, <2>1, <2>2 DEF TMoves
  <2>4. cards[b].balance \in Int
    BY <1>1, TTypes DEF FormInv, CardsTyped
  <2>5. /\ m \in TCalls /\ m.pc = "credit" /\ m.b = b /\ m.a = tcall[s].a
        /\ m.fresh <=> T!FirstUse(b)
    BY <1>2, <2>1, <2>4 DEF TCalls
  <2>6. UpsetGrows /\ (T!InHand(b) # {} => "shared" \in upset')
    BY <1>1, <1>4 DEF UpsetGrows, T!Upset, T!Upsets
  <2>7. UNCHANGED <<cards, calls, distr, touch, spent, slack, charged>>
    BY DEF T!Find
  <2>8. T!TypeOK'
    BY <1>1, <2>3, <2>5, <2>6, <2>7, TMoved, TTypes, TTypesNext DEF FormInv, CardsTyped, UpsetGrows
  <2>9. TFormed(m)'
    BY <1>1, <1>4, <2>5, <2>7 DEF TFormed, T!Statements, T!FirstUse, T!Accepted
  <2> QED
    BY <1>1, <2>3, <2>5, <2>6, <2>7, <2>8, <2>9, FormedKept, AcceptKept, SoldKept
       DEF TInv, T!FirstUse
<1> QED
  BY <1>3, <1>4 DEF T!Find

\* What a session adds to card A is the amount but for the rounding; of a card
\* that does not exist, nothing.
LEMMA Credited ==
  ASSUME FormInv, NEW s \in Sessions, T!Credit(s)
  PROVE  \/ /\ tcall[s].a \in Cards
            /\ T!InHand(tcall[s].a) # {} => "crossed" \in upset'
            /\ slack' \in Nat
            /\ \E e \in Int, x \in Nat :
                 /\ cards' = [cards EXCEPT ![tcall[s].a].balance =
                                cards[tcall[s].a].balance + (tcall[s].amount + e)]
                 /\ cards[tcall[s].a].balance + (tcall[s].amount + e) \in Int
                 /\ slack' = slack + x /\ 2 * e <= x /\ 0 - x <= 2 * e
         \/ /\ UNCHANGED <<cards, slack>> /\ slack' \in Nat
            /\ "unmatched" \in upset'
<1>1. /\ tcall[s] \in TCalls /\ CardsTyped /\ slack \in Nat /\ upset \subseteq T!Upsets
      /\ tcall[s].amount \in Int
  BY TTypes DEF FormInv, TCalls
<1>2. Unit \in Nat
  BY PrepaidAssumption DEF PrepaidAssumption
<1>3. CASE tcall[s].a \in Cards
  <2>1. PICK p \in T!Printed(tcall[s].amount) :
          /\ cards' = [cards EXCEPT ![tcall[s].a].balance = @ + p]
          /\ slack' = IF p = tcall[s].amount THEN slack ELSE slack + Unit
    BY <1>3 DEF T!Credit
  <2>2. p \in Int /\ 2 * (p - tcall[s].amount) \in (0 - Unit) .. Unit
    BY <1>1, <1>2, <2>1 DEF T!Printed
  <2>3. PICK e \in Int : e = p - tcall[s].amount
    BY <1>1, <2>2
  <2>4. PICK x \in Nat : x = IF p = tcall[s].amount THEN 0 ELSE Unit
    BY <1>2
  <2>5. slack' = slack + x /\ slack' \in Nat /\ 2 * e <= x /\ 0 - x <= 2 * e
    BY <1>1, <1>2, <2>1, <2>2, <2>3, <2>4
  <2>6. p = tcall[s].amount + e
    BY <1>1, <2>2, <2>3
  <2>7. cards[tcall[s].a].balance + (tcall[s].amount + e) \in Int
    BY <1>1, <1>3, <2>3 DEF CardsTyped
  <2>8. T!InHand(tcall[s].a) # {} => "crossed" \in upset'
    BY <1>3 DEF T!Credit, T!Upset
  <2> QED
    BY <1>3, <2>1, <2>5, <2>6, <2>7, <2>8
<1>4. CASE tcall[s].a \notin Cards
  BY <1>1, <1>4 DEF T!Credit, T!Upset
<1> QED
  BY <1>3, <1>4

LEMMA TCreditKept ==
  ASSUME TInv, NEW s \in Sessions, T!Credit(s), blocked' = blocked
  PROVE  TInv'
<1>1. /\ FormInv /\ PayInv /\ BlockInv /\ tcall[s].pc = "credit" /\ tcall[s] \in TCalls
      /\ CardsTyped /\ TFormed(tcall[s]) /\ upset \subseteq T!Upsets
  BY TTypes DEF TInv, FormInv, T!Credit, T!At
<1>2. PICK to \in {"charge", "empty"} :
         /\ to = T!After(s)
         /\ to = "charge" <=> touch /\ tcall[s].charge
  BY <1>1 DEF T!After, T!At, T!Charges
<1>3. PICK n \in TCalls : TMoves(s, n) /\ n.pc = to /\ n = [tcall[s] EXCEPT !.pc = to]
  BY <1>1, <1>2, TGone DEF T!Credit, T!Statements
<1>4. \/ \E v \in Int : cards' = [cards EXCEPT ![tcall[s].a].balance = v]
      \/ cards' = cards
  BY <1>1, Credited
<1>5. /\ CardsTyped'
      /\ \A c \in Cards : cards'[c].used = cards[c].used /\ cards'[c].sold = cards[c].sold
  <2>1. CASE cards' = cards
    BY <1>1, <2>1 DEF CardsTyped
  <2>2. ASSUME NEW v \in Int, cards' = [cards EXCEPT ![tcall[s].a].balance = v]
        PROVE  /\ CardsTyped'
               /\ \A c \in Cards : /\ cards'[c].used = cards[c].used
                                   /\ cards'[c].sold = cards[c].sold
    BY <1>1, <2>2 DEF CardsTyped
  <2> QED
    BY <1>4, <2>1, <2>2
<1>6. UNCHANGED <<calls, distr, touch, spent, charged>> /\ slack' \in Nat
  BY <1>1, Credited DEF T!Credit
<1>7. UpsetGrows
  BY <1>1 DEF UpsetGrows, T!Credit, T!Upset, T!Upsets
<1>8. T!TypeOK'
  BY <1>1, <1>3, <1>5, <1>6, <1>7, TMoved, TTypes, TTypesNext DEF FormInv, UpsetGrows
<1>9. TFormed(n)'
  <2>1. n.a = tcall[s].a /\ n.b = tcall[s].b /\ n.fresh = tcall[s].fresh
        /\ n.charge = tcall[s].charge
    BY <1>1, <1>3 DEF TCalls
  <2> QED
    BY <1>1, <1>2, <1>3, <1>6, <2>1 DEF TFormed, T!Statements
<1>10. UsedStays
  BY <1>5 DEF UsedStays
<1>11. FormInv'
  BY <1>1, <1>3, <1>6, <1>7, <1>8, <1>9, FormedKept
<1>12. PayInv'
  BY <1>1, <1>3, <1>6, <1>7, <1>10, GoesOnKept
<1> QED
  BY <1>1, <1>5, <1>6, <1>7, <1>11, <1>12, SoldKept DEF TInv

LEMMA TChargeKept ==
  ASSUME TInv, NEW s \in Sessions, T!Charge(s), blocked' = blocked
  PROVE  TInv'
<1>1. /\ FormInv /\ PayInv /\ BlockInv /\ tcall[s].pc = "charge" /\ tcall[s] \in TCalls
      /\ tcall[s].b \in Cards /\ TFormed(tcall[s]) /\ upset \subseteq T!Upsets
  BY TTypes DEF TInv, FormInv, TFormed, T!Charge, T!At, T!Statements
<1>2. T!After(s) = "empty"
  BY <1>1 DEF T!After, T!At
<1>3. PICK n \in TCalls : TMoves(s, n) /\ n.pc = "empty" /\ n = [tcall[s] EXCEPT !.pc = "empty"]
  BY <1>1, <1>2, TGone DEF T!Charge, T!Statements
<1>4. UNCHANGED <<cards, calls, touch, spent, slack>>
  BY DEF T!Charge
<1>5. UpsetGrows /\ (~tcall[s].fresh => "stale" \in upset')
  BY <1>1 DEF UpsetGrows, T!Charge, T!Upset, T!Upsets
<1>6. \/ charged' = charged /\ distr' = distr
      \/ /\ charged' = [charged EXCEPT ![tcall[s].b] = @ + 1]
         /\ Distributor[tcall[s].b] # Nobody
         /\ distr' = [distr EXCEPT ![Distributor[tcall[s].b]] = @ - Price]
  BY DEF T!Charge
<1>7. charged' \in [Cards -> Nat]
  BY <1>1, <1>6, TTypes DEF FormInv
<1>8. distr' \in [T!Distributors -> Int]
  <2>1. distr \in [T!Distributors -> Int] /\ Price \in Int
    BY <1>1, TTypes, PrepaidAssumption DEF FormInv, PrepaidAssumption
  <2>2. Distributor[tcall[s].b] # Nobody => Distributor[tcall[s].b] \in T!Distributors
    BY <1>1 DEF T!Distributors
  <2> QED
    BY <1>6, <2>1, <2>2
<1>9. T!TypeOK'
  BY <1>1, <1>3, <1>4, <1>5, <1>7, <1>8, TMoved, TTypes, TTypesNext DEF FormInv, UpsetGrows, CardsTyped
<1>10. TFormed(n)'
  <2>1. n.a = tcall[s].a /\ n.b = tcall[s].b /\ n.fresh = tcall[s].fresh
        /\ n.charge = tcall[s].charge
    BY <1>1, <1>3 DEF TCalls
  <2> QED
    BY <1>1, <1>3, <1>4, <1>5, <2>1 DEF TFormed, T!Statements
<1>11. FormInv'
  BY <1>1, <1>3, <1>4, <1>5, <1>9, <1>10, FormedKept
<1>12. PayInv'
  BY <1>1, <1>3, <1>4, <1>5, <1>6, ChargeKept
<1> QED
  BY <1>1, <1>4, <1>5, <1>11, <1>12, SoldKept DEF TInv

LEMMA TEmptyKept ==
  ASSUME TInv, NEW s \in Sessions, T!Empty(s), blocked' = blocked
  PROVE  TInv'
<1>1. /\ FormInv /\ PayInv /\ BlockInv /\ tcall[s].pc = "empty" /\ tcall[s] \in TCalls
      /\ tcall[s].b \in Cards /\ TFormed(tcall[s]) /\ upset \subseteq T!Upsets /\ CardsTyped
      /\ touch \in BOOLEAN
  BY TTypes DEF TInv, FormInv, TFormed, T!Empty, T!At, T!Statements
<1>2. T!After(s) = "idle"
  BY <1>1 DEF T!After, T!At
<1>3. PICK n \in TCalls : TMoves(s, n) /\ n.pc = "idle"
  BY <1>1, <1>2, TGone DEF T!Empty, T!Statements
<1>4. UNCHANGED <<calls, distr, touch, spent, slack, charged, upset>>
  BY DEF T!Empty
<1>5. UpsetGrows
  BY <1>1, <1>4 DEF UpsetGrows
<1>6. PICK v \in BOOLEAN :
         /\ v <=> cards[tcall[s].b].sold \/ T!Charges(s)
         /\ cards' = [cards EXCEPT ![tcall[s].b] = [balance |-> 0, sold |-> v, used |-> TRUE]]
  <2>1. cards[tcall[s].b].sold \in BOOLEAN /\ T!Charges(s) \in BOOLEAN
    BY <1>1 DEF CardsTyped, T!Charges
  <2>2. PICK v : v = (cards[tcall[s].b].sold \/ T!Charges(s))
    OBVIOUS
  <2> QED
    BY <2>1, <2>2 DEF T!Empty
<1>7. /\ CardsTyped'
      /\ \A c \in Cards : cards'[c] = IF c = tcall[s].b
                            THEN [balance |-> 0, sold |-> v, used |-> TRUE] ELSE cards[c]
  BY <1>1, <1>6 DEF CardsTyped
<1>8. UsedStays /\ cards'[tcall[s].b].used
  BY <1>1, <1>7 DEF UsedStays
<1>9. T!TypeOK'
  BY <1>1, <1>3, <1>4, <1>5, <1>7, TMoved, TTypes, TTypesNext DEF FormInv, UpsetGrows
<1>10. TFormed(n)'
  BY <1>3 DEF TFormed, T!Statements
<1>11. FormInv'
  BY <1>1, <1>3, <1>4, <1>5, <1>9, <1>10, FormedKept
<1>12. PayInv'
  BY <1>1, <1>3, <1>4, <1>5, <1>8, EmptyKept
<1>13. PICK b \in Cards : b = tcall[s].b
  BY <1>1
<1>14. ASSUME NEW c \in Cards, cards'[c].sold PROVE cards[c].sold \/ Sellable(c)'
  <2>1. CASE c = b
    <3>1. cards[b].sold \/ T!Charges(s)
      BY <1>6, <1>7, <1>13, <1>14, <2>1
    <3>2. T!Charges(s) => Sellable(b)
      BY <1>1, <1>13 DEF T!Charges, Sellable, TFormed, T!Statements
    <3> QED
      BY <1>4, <2>1, <3>1, <3>2 DEF Sellable
  <2>2. CASE c # b
    BY <1>7, <1>13, <1>14, <2>2
  <2> QED
    BY <2>1, <2>2
<1> QED
  BY <1>1, <1>4, <1>5, <1>11, <1>12, <1>14, SoldKept DEF TInv

\* A failed statement and a hang-up disturb what is paid once.
LEMMA TFaultKept ==
  ASSUME TInv, NEW s \in Sessions, T!Fails(s) \/ T!Hangup(s), blocked' = blocked
  PROVE  TInv'
<1>1. /\ FormInv /\ BlockInv /\ tcall[s].pc \in T!Statements /\ tcall[s] \in TCalls
      /\ TFormed(tcall[s]) /\ upset \subseteq T!Upsets
  BY TTypes DEF TInv, FormInv, T!Fails, T!Hangup
<1>2. UNCHANGED <<cards, calls, distr, touch, spent, slack, charged>>
  BY DEF T!Fails, T!Hangup
<1>3. UpsetGrows /\ ~Undisturbed'
  BY <1>1 DEF UpsetGrows, T!Fails, T!Hangup, T!Upset, T!Upsets, Undisturbed
<1>4. PICK to \in {"idle", "charge", "empty"} :
         /\ T!Goto(s, to)
         /\ to = "charge" => touch /\ tcall[s].charge
         /\ to # "idle" => "failed" \in upset'
  BY <1>1 DEF T!Fails, T!Hangup, T!After, T!At, T!Charges, T!Statements, T!Upset
<1>5. PICK n \in TCalls : /\ TMoves(s, n) /\ n.pc = to
                          /\ to # "idle" => n = [tcall[s] EXCEPT !.pc = to]
  BY <1>1, <1>4, TGone
<1>6. T!TypeOK'
  BY <1>1, <1>2, <1>3, <1>5, TMoved, TTypes, TTypesNext DEF FormInv, UpsetGrows, CardsTyped
<1>7. TFormed(n)'
  <2>1. CASE to = "idle"
    BY <1>5, <2>1 DEF TFormed, T!Statements
  <2>2. CASE to # "idle"
    <3>1. n.a = tcall[s].a /\ n.b = tcall[s].b /\ n.fresh = tcall[s].fresh
          /\ n.charge = tcall[s].charge /\ n.pc = to
      BY <1>1, <1>5, <2>2 DEF TCalls
    <3> QED
      BY <1>1, <1>2, <1>4, <2>2, <3>1 DEF TFormed, T!Statements
  <2> QED
    BY <2>1, <2>2
<1>8. FormInv'
  BY <1>1, <1>2, <1>3, <1>5, <1>6, <1>7, FormedKept
<1> QED
  BY <1>1, <1>2, <1>3, <1>8, SoldKept DEF TInv, PayInv

\* A step that touches no session but the cards.
LEMMA CardsKept ==
  ASSUME TInv, UNCHANGED <<tcall, charged, touch, distr, slack>>, UpsetGrows, UsedStays, CardsTyped',
         calls' \in [Cards -> Nat], spent' \in Nat
  PROVE  FormInv' /\ PayInv'
<1>1. T!TypeOK'
  BY TTypes, TTypesNext DEF TInv, FormInv, UpsetGrows
<1>2. \A s \in Sessions : TFormed(tcall[s])'
  BY DEF TInv, FormInv, TFormed, UpsetGrows
<1> QED
  BY <1>1, <1>2, ApartKept DEF TInv, FormInv

LEMMA CallsKept ==
  ASSUME TInv, NEW c \in Cards, T!CallBegins(c) \/ T!CallEnds(c), blocked' = blocked
  PROVE  TInv'
<1>1. BlockInv /\ CardsTyped /\ calls \in [Cards -> Nat] /\ spent \in Nat
      /\ upset \subseteq T!Upsets
  BY TTypes DEF TInv, FormInv
<1>2. UNCHANGED <<tcall, charged, touch, distr, slack>> /\ UpsetGrows /\ spent' \in Nat
  BY <1>1 DEF T!CallBegins, T!CallEnds, UpsetGrows, T!Upset, T!Upsets
<1>3. \/ cards' = [cards EXCEPT ![c].used = TRUE]
      \/ cards' = [cards EXCEPT ![c].balance = @ - 1]
  BY DEF T!CallBegins, T!CallEnds
<1>4. calls' \in [Cards -> Nat]
  <2>1. CASE T!CallBegins(c)
    BY <1>1, <2>1 DEF T!CallBegins
  <2>2. CASE T!CallEnds(c)
    BY <1>1, <2>2 DEF T!CallEnds
  <2> QED
    BY <2>1, <2>2
<1>5. /\ CardsTyped' /\ UsedStays
      /\ \A d \in Cards : cards'[d].sold = cards[d].sold
  <2>1. CASE cards' = [cards EXCEPT ![c].used = TRUE]
    BY <1>1, <2>1 DEF CardsTyped, UsedStays
  <2>2. CASE cards' = [cards EXCEPT ![c].balance = @ - 1]
    <3>1. PICK v : v = cards[c].balance - 1
      OBVIOUS
    <3>2. v \in Int
      BY <1>1, <3>1 DEF CardsTyped
    <3>3. cards' = [cards EXCEPT ![c].balance = v]
      BY <2>2, <3>1
    <3> QED
      BY <1>1, <3>2, <3>3 DEF CardsTyped, UsedStays
  <2> QED
    BY <1>3, <2>1, <2>2
<1> QED
  BY <1>1, <1>2, <1>4, <1>5, CardsKept, SoldKept DEF TInv

\* The other program blocks a card at most.
LEMMA VoucherStepCards ==
  ASSUME VoucherStep
  PROVE  cards' = cards \/ \E c : cards' = [cards EXCEPT ![c].sold = FALSE]
<1>1. PICK s \in Sessions :
         \/ \E u \in Users : V!Begin(s, u)
         \/ \E v \in Vouchers : V!Find(s, v)
         \/ V!FindNone(s) \/ V!Statement(s) \/ V!Fails(s) \/ V!Hangup(s)
  BY DEF VoucherStep, V!Next
<1>2. CASE V!BlockCard(s)
  BY <1>2 DEF V!BlockCard
<1>3. CASE ~V!BlockCard(s)
  BY <1>1, <1>3 DEF V!Begin, V!Find, V!FindNone, V!Statement, V!Fails, V!Hangup,
     V!UpdateBalance, V!InsertPayment, V!UpdateOwnerBalance, V!InsertOwnerPayment,
     V!Enter, V!MarkUsed
<1> QED
  BY <1>2, <1>3

LEMMA VoucherStepKept ==
  ASSUME TInv, VoucherStep
  PROVE  TInv'
<1>1. /\ BlockInv /\ CardsTyped /\ calls \in [Cards -> Nat] /\ spent \in Nat
      /\ upset \subseteq T!Upsets
  BY TTypes DEF TInv, FormInv
<1>2. UNCHANGED <<calls, distr, tcall, touch, spent, slack, charged, upset>>
  BY DEF VoucherStep, topupVars
<1>3. cards' = cards \/ \E c : cards' = [cards EXCEPT ![c].sold = FALSE]
  BY VoucherStepCards
<1>4. /\ CardsTyped' /\ UsedStays
      /\ \A d \in Cards : cards'[d].sold => cards[d].sold
  BY <1>1, <1>3 DEF CardsTyped, UsedStays
<1>5. FormInv' /\ PayInv'
  BY <1>1, <1>2, <1>4, CardsKept DEF UpsetGrows
<1>6. BlockInv'
  BY <1>1, <1>2, <1>4 DEF BlockInv, VoucherStep, Sellable
<1> QED
  BY <1>5, <1>6 DEF TInv

LEMMA TInitKept == Init => TInv
<1> SUFFICES ASSUME Init PROVE TInv
  OBVIOUS
<1>1. /\ cards \in [Cards -> [balance : {FaceValue}, sold : BOOLEAN, used : {FALSE}]]
      /\ calls = [c \in Cards |-> 0] /\ distr = [d \in T!Distributors |-> Deposit]
      /\ tcall = [s \in Sessions |-> T!Idle] /\ touch \in BOOLEAN /\ spent = 0
      /\ slack = 0 /\ charged = [c \in Cards |-> 0] /\ upset = {} /\ blocked = {}
  BY DEF Init, T!Init
<1>2. T!Idle \in TCalls /\ T!Idle.pc = "idle"
  BY PrepaidAssumption DEF PrepaidAssumption, T!Idle, TCalls
<1>3. CardsTyped
  <2>1. FaceValue \in Int
    BY PrepaidAssumption DEF PrepaidAssumption
  <2>2. [balance : {FaceValue}, sold : BOOLEAN, used : {FALSE}]
          \subseteq [balance : Int, sold : BOOLEAN, used : BOOLEAN]
    BY <2>1
  <2> QED
    BY <1>1, <2>2 DEF CardsTyped
<1>4. T!TypeOK
  <2>1. Deposit \in Int
    BY PrepaidAssumption DEF PrepaidAssumption
  <2> QED
    BY <1>1, <1>2, <1>3, <2>1, TTypes
<1>5. \A s \in Sessions : tcall[s].pc = "idle"
  BY <1>1, <1>2
<1>6. FormInv
  BY <1>4, <1>5 DEF FormInv, TFormed, T!Statements
<1>7. PayInv
  BY <1>1, <1>5 DEF PayInv, PaidOnce, T!InHand, T!Statements
<1> QED
  BY <1>1, <1>6, <1>7 DEF TInv, BlockInv

LEMMA TStepKept == TInv /\ [Next]_vars => TInv'
<1> SUFFICES ASSUME TInv, [Next]_vars PROVE TInv'
  OBVIOUS
<1>1. CASE VoucherStep
  BY <1>1, VoucherStepKept
<1>2. CASE TopupStep
  <2>1. /\ \/ \E s \in Sessions :
                \/ \E a \in Cards \cup {Nobody} : T!Begin(s, a)
                \/ \E b \in Cards : T!Find(s, b)
                \/ T!FindNone(s) \/ T!Statement(s) \/ T!Fails(s) \/ T!Hangup(s)
           \/ \E c \in Cards : T!CallBegins(c) \/ T!CallEnds(c)
        /\ blocked' = blocked
    BY <1>2 DEF TopupStep, T!Next
  <2>2. ASSUME NEW s \in Sessions, T!Statement(s) PROVE TInv'
    BY <2>1, <2>2, TCreditKept, TChargeKept, TEmptyKept DEF T!Statement
  <2> QED
    BY <2>1, <2>2, TBeginKept, TFindKept, TFindNoneKept, TFaultKept, CallsKept
<1>3. CASE UNCHANGED vars
  <2>1. UNCHANGED <<cards, calls, distr, tcall, touch, spent, slack, charged, upset, blocked>>
    BY <1>3 DEF vars, topupVars
  <2>2. /\ CardsTyped /\ calls \in [Cards -> Nat] /\ spent \in Nat /\ upset \subseteq T!Upsets
        /\ BlockInv
    BY TTypes DEF TInv, FormInv
  <2>3. UpsetGrows /\ UsedStays /\ CardsTyped'
    BY <2>1, <2>2 DEF UpsetGrows, UsedStays, CardsTyped
  <2> QED
    BY <2>1, <2>2, <2>3, CardsKept, SoldKept DEF TInv
<1> QED
  BY <1>1, <1>2, <1>3 DEF Next

LEMMA TInvariant == Spec => []TInv
BY TInitKept, TStepKept, PTL DEF Spec

\* The distributor of a card pays for its first use at most once, however many
\* calls of mor_card_topup run at a time; unless a statement fails, a caller hangs
\* up, two sessions have the card, or one charges for an earlier card.
THEOREM DistributorsPayOnce == Spec => []DistributorPaysOnce
<1>1. TInv => DistributorPaysOnce
  BY DEF TInv, PayInv, PaidOnce, Undisturbed, DistributorPaysOnce, T!DistributorPaysOnce
<1> QED
  BY <1>1, TInvariant, PTL

\* A card that a voucher blocked is not taken for a top-up, but where cards are
\* sold by their first use: if a distributor has it, or a stale charge sold it.
THEOREM BlockedCardsStay == Spec => BlockedIsNotTaken
<1> DEFINE Stays ==
      \A s \in Sessions, c \in blocked :
         /\ tcall[s].pc = "ask" /\ tcall'[s].pc = "credit" /\ tcall'[s].b = c
         => touch /\ (Distributor[c] # Nobody \/ upset \cap {"stale", "failed"} # {})
<1>1. ASSUME TInv, Next PROVE Stays
  <2> SUFFICES ASSUME NEW s \in Sessions, NEW c \in blocked,
                      tcall[s].pc = "ask", tcall'[s].pc = "credit", tcall'[s].b = c
               PROVE  Sellable(c)
    BY DEF Sellable
  <2>1. T!Next
    BY <1>1 DEF Next, VoucherStep, TopupStep, topupVars
  <2>2. /\ tcall \in [Sessions -> TCalls] /\ c \in Cards
        /\ cards[c].sold => Sellable(c)
    BY <1>1, TTypes DEF TInv, FormInv, TFormed, BlockInv
  <2>3. ASSUME NEW t \in Sessions, NEW n, tcall' = [tcall EXCEPT ![t] = n] PROVE t = s
    BY <2>2, <2>3
  <2>4. ASSUME NEW t \in Sessions, tcall[t].pc \in T!Statements, NEW to PROVE ~T!Goto(t, to)
    <3>1. t # s
      BY <2>4 DEF T!Statements
    <3> QED
      BY <2>3, <3>1 DEF T!Goto
  <2>5. \/ \E b \in Cards : T!Find(s, b)
        \/ T!FindNone(s)
    <3>1. PICK t \in Sessions :
             (\E b \in Cards : T!Find(t, b)) \/ T!FindNone(t)
               \/ (\E a \in Cards \cup {Nobody} : T!Begin(t, a)) \/ T!Statement(t) \/ T!Fails(t)
               \/ T!Hangup(t)
      BY <2>1 DEF T!Next, T!CallBegins, T!CallEnds
    <3>2. ~T!Statement(t) /\ ~T!Fails(t) /\ ~T!Hangup(t)
      BY <2>4 DEF T!Statement, T!Credit, T!Charge, T!Empty, T!Fails, T!Hangup, T!Statements,
                  T!At
    <3>3. \A a \in Cards \cup {Nobody} : ~T!Begin(t, a)
      BY <2>3 DEF T!Begin, T!At
    <3>4. t = s
      BY <2>3, <3>1, <3>2, <3>3 DEF T!Find, T!FindNone
    <3> QED
      BY <3>1, <3>2, <3>3, <3>4
  <2>6. ASSUME NEW n \in TCalls, n.pc = "ask" PROVE tcall' # [tcall EXCEPT ![s] = T!AskAgain(s, n)]
    <3>1. PICK m : m = T!AskAgain(s, n)
      OBVIOUS
    <3>2. m.pc # "credit"
      BY <2>6, <3>1 DEF T!AskAgain, T!Idle, TCalls
    <3> QED
      BY <2>2, <3>1, <3>2
  <2>7. PICK b \in Cards : T!Find(s, b)
    BY <2>2, <2>5, <2>6 DEF T!FindNone
  <2>8. PICK n \in TCalls : n = T!Tried(s, b) /\ n.pc = "ask" /\ n.b = b
    BY <1>1, TriedCard DEF TInv
  <2>9. /\ T!Accepted(s, b)
        /\ tcall' = [tcall EXCEPT ![s] =
              [n EXCEPT !.pc = T!After(s), !.amount = cards[b].balance]]
    BY <2>6, <2>7, <2>8 DEF T!Find
  <2>10. b = c
    BY <2>2, <2>8, <2>9 DEF TCalls
  <2> QED
    BY <2>2, <2>9, <2>10 DEF T!Accepted, Sellable
<1>2. TInv /\ [Next]_vars => [Stays]_vars
  BY <1>1
<1> QED
  BY <1>2, TInvariant, PTL DEF Spec, BlockedIsNotTaken

-----------------------------------------------------------------------------
(***************************************************************************)
(* The money of the callers.  A session that has credited card A and not   *)
(* yet emptied card B owes what it has credited: that much is counted      *)
(* twice.                                                                  *)
(***************************************************************************)
Balances == [c \in Cards |-> cards[c].balance]

Owes(n) == IF n.pc \in {"charge", "empty"} THEN n.amount ELSE 0

Owed == Sum([s \in Sessions |-> Owes(tcall[s])])

\* Card B has not more than the session read, or exactly that, in cards k with
\* calls l.
Covered(n, k) == n.pc \in T!Statements => n.amount >= 0 /\ k[n.b].balance <= n.amount

Exact(n, k, l) == n.pc \in T!Statements => k[n.b].balance = n.amount /\ l[n.b] = 0

Unlost == upset \cap {"failed", "crossed", "unmatched"} = {}

Unmade == upset \subseteq {"stale"}

Lossless ==
    /\ 2 * (T!FirstMoney + Owed - T!Money) <= slack
    /\ \A s \in Sessions : Covered(tcall[s], cards)

Gainless ==
    /\ 2 * (T!Money - T!FirstMoney - Owed) <= slack
    /\ \A s \in Sessions : Exact(tcall[s], cards, calls)
    /\ \A s, t \in Sessions :
         /\ tcall[s].pc \in T!Statements /\ tcall[t].pc \in T!Statements
         /\ tcall[s].b = tcall[t].b
         => s = t

MoneyInv == (Unlost => Lossless) /\ (Unmade => Gainless)


LEMMA MoneyIsSum ==
  /\ T!Money = Sum(Balances) + spent
  /\ T!FirstMoney = Sum([c \in Cards |-> FaceValue])
BY DEF T!Money, T!FirstMoney, Sum, Balances, FoldFunction, FoldFunctionOnSet, MapThenFoldSet,
       T!FoldFunction, T!FoldFunctionOnSet, T!MapThenFoldSet

\* The same in the next state.
LEMMA MoneyIsSumNext ==
  ASSUME NEW f, f = [c \in Cards |-> cards'[c].balance]
  PROVE  T!Money' = Sum(f) + spent'
BY DEF T!Money, Sum, FoldFunction, FoldFunctionOnSet, MapThenFoldSet,
       T!FoldFunction, T!FoldFunctionOnSet, T!MapThenFoldSet

LEMMA OwedNext ==
  ASSUME NEW f, f = [s \in Sessions |-> Owes(tcall'[s])]
  PROVE  Owed' = Sum(f)
BY DEF Owed, Owes, Sum, FoldFunction, FoldFunctionOnSet, MapThenFoldSet

LEMMA OwesTyped ==
  ASSUME NEW n \in TCalls
  PROVE  Owes(n) \in Int
BY DEF Owes, TCalls

LEMMA MoneyTyped ==
  ASSUME CardsTyped, spent \in Nat, tcall \in [Sessions -> TCalls]
  PROVE  T!Money \in Int /\ T!FirstMoney \in Int /\ Owed \in Int
<1>1. IsFiniteSet(Cards) /\ IsFiniteSet(Sessions) /\ FaceValue \in Int
  BY PrepaidAssumption DEF PrepaidAssumption
<1>2. Balances \in [Cards -> Int] /\ [c \in Cards |-> FaceValue] \in [Cards -> Int]
  BY <1>1 DEF Balances, CardsTyped
<1>3. [s \in Sessions |-> Owes(tcall[s])] \in [Sessions -> Int]
  BY OwesTyped
<1>4. Sum(Balances) \in Int
  BY <1>1, <1>2, SumTyped
<1>5. Sum([c \in Cards |-> FaceValue]) \in Int
  BY <1>1, <1>2, SumTyped
<1>6. Owed \in Int
  BY <1>1, <1>3, SumTyped DEF Owed
<1> QED
  BY <1>4, <1>5, <1>6, MoneyIsSum

\* What is owed changes with the session that moves.
LEMMA OwedMoves ==
  ASSUME tcall \in [Sessions -> TCalls], NEW s \in Sessions, NEW n \in TCalls, TMoves(s, n)
  PROVE  /\ Owed' = Owed + (Owes(n) - Owes(tcall[s]))
         /\ Owed \in Int /\ Owes(n) \in Int /\ Owes(tcall[s]) \in Int
<1>1. PICK f, g : f = [t \in Sessions |-> Owes(tcall[t])] /\ g = [t \in Sessions |-> Owes(tcall'[t])]
  OBVIOUS
<1>2. \A t \in Sessions : tcall'[t] \in TCalls /\ tcall'[t] = IF t = s THEN n ELSE tcall[t]
  BY TMoved
<1>3. f \in [Sessions -> Int] /\ g \in [Sessions -> Int]
  BY <1>1, <1>2, OwesTyped
<1>4. \A t \in Sessions \ {s} : f[t] = g[t]
  BY <1>1, <1>2
<1>5. f[s] = Owes(tcall[s]) /\ g[s] = Owes(n) /\ f[s] \in Int /\ g[s] \in Int
  BY <1>1, <1>2, <1>3
<1>6. Sum(f) \in Int /\ Sum(g) \in Int /\ Sum(g) - Sum(f) = g[s] - f[s]
  BY <1>3, <1>4, SumChanges, PrepaidAssumption DEF PrepaidAssumption
<1>7. Owed = Sum(f) /\ Owed' = Sum(g)
  BY <1>1, OwedNext DEF Owed
<1> QED
  BY <1>5, <1>6, <1>7

\* What the callers have changes with the card that changes.
LEMMA MoneyMoves ==
  ASSUME CardsTyped, CardsTyped', NEW c \in Cards,
         \A d \in Cards \ {c} : cards'[d].balance = cards[d].balance,
         spent \in Nat, spent' \in Nat
  PROVE  T!Money' = T!Money + (cards'[c].balance - cards[c].balance) + (spent' - spent)
<1>1. PICK g : g = [d \in Cards |-> cards'[d].balance]
  OBVIOUS
<1>2. Balances \in [Cards -> Int] /\ g \in [Cards -> Int]
  BY <1>1 DEF Balances, CardsTyped
<1>3. \A d \in Cards \ {c} : Balances[d] = g[d]
  BY <1>1 DEF Balances
<1>4. /\ Balances[c] = cards[c].balance /\ g[c] = cards'[c].balance
      /\ Balances[c] \in Int /\ g[c] \in Int
  BY <1>1, <1>2 DEF Balances
<1>5. Sum(Balances) \in Int /\ Sum(g) \in Int /\ Sum(g) - Sum(Balances) = g[c] - Balances[c]
  BY <1>2, <1>3, SumChanges, PrepaidAssumption DEF PrepaidAssumption
<1>6. T!Money = Sum(Balances) + spent /\ T!Money' = Sum(g) + spent'
  BY <1>1, MoneyIsSum, MoneyIsSumNext
<1> QED
  BY <1>4, <1>5, <1>6

LEMMA MoneyStays ==
  ASSUME \A c \in Cards : cards'[c].balance = cards[c].balance, spent' = spent
  PROVE  T!Money' = T!Money
<1>1. Balances = [d \in Cards |-> cards'[d].balance]
  BY DEF Balances
<1> QED
  BY <1>1, MoneyIsSum, MoneyIsSumNext

LEMMA OwedStays ==
  ASSUME tcall' = tcall
  PROVE  Owed' = Owed
<1>1. PICK f : f = [t \in Sessions |-> Owes(tcall[t])]
  OBVIOUS
<1> QED
  BY <1>1, OwedNext DEF Owed

\* A step of one session, in which x may be lost or made by rounding.
LEMMA SessionMovesAbout ==
  ASSUME FormInv, MoneyInv, NEW s \in Sessions, NEW n \in TCalls, TMoves(s, n), UpsetGrows,
         NEW d \in Int, T!Money' = T!Money + d, NEW x \in Nat, slack' = slack + x,
         Unlost' /\ Lossless => /\ 2 * (Owes(n) - Owes(tcall[s]) - d) <= x
                                /\ Covered(n, cards')
                                /\ \A t \in Sessions \ {s} : Covered(tcall[t], cards'),
         Unmade' /\ Gainless => /\ 2 * (d - (Owes(n) - Owes(tcall[s]))) <= x
                                /\ Exact(n, cards', calls')
                                /\ \A t \in Sessions \ {s} : Exact(tcall[t], cards', calls')
                                /\ n.pc \in T!Statements =>
                                     \A t \in T!InHand(n.b) : t = s
  PROVE  MoneyInv'
<1>1. /\ tcall \in [Sessions -> TCalls] /\ CardsTyped /\ spent \in Nat /\ slack \in Nat
      /\ \A t \in Sessions : tcall'[t] = IF t = s THEN n ELSE tcall[t]
  BY TTypes, TMoved DEF FormInv
<1>2. T!Money \in Int /\ T!FirstMoney \in Int /\ Owed \in Int
  BY <1>1, MoneyTyped
<1>3. /\ Owed' = Owed + (Owes(n) - Owes(tcall[s]))
      /\ Owes(n) \in Int /\ Owes(tcall[s]) \in Int
  BY <1>1, OwedMoves
<1>4. T!FirstMoney' = T!FirstMoney
  BY DEF T!FirstMoney, T!FoldFunction, T!FoldFunctionOnSet, T!MapThenFoldSet
<1>5. ASSUME Unlost' PROVE Lossless'
  <2>1. Unlost
    BY <1>5 DEF Unlost, UpsetGrows
  <2>2. Lossless
    BY <2>1 DEF MoneyInv
  <2>3. 2 * (T!FirstMoney' + Owed' - T!Money') <= slack'
    <3>1. 2 * (Owes(n) - Owes(tcall[s]) - d) <= x
      BY <1>5, <2>2
    <3>2. 2 * (T!FirstMoney + Owed - T!Money) <= slack
      BY <2>2 DEF Lossless
    <3> QED
      BY <1>1, <1>2, <1>3, <1>4, <3>1, <3>2
  <2>4. ASSUME NEW t \in Sessions PROVE Covered(tcall'[t], cards')
    BY <1>1, <1>5, <2>2
  <2> QED
    BY <2>3, <2>4 DEF Lossless, Covered
<1>6. ASSUME Unmade' PROVE Gainless'
  <2>1. Unmade
    BY <1>6 DEF Unmade, UpsetGrows
  <2>2. Gainless
    BY <2>1 DEF MoneyInv
  <2>3. 2 * (T!Money' - T!FirstMoney' - Owed') <= slack'
    <3>1. 2 * (d - (Owes(n) - Owes(tcall[s]))) <= x
      BY <1>6, <2>2
    <3>2. 2 * (T!Money - T!FirstMoney - Owed) <= slack
      BY <2>2 DEF Gainless
    <3> QED
      BY <1>1, <1>2, <1>3, <1>4, <3>1, <3>2
  <2>4. ASSUME NEW t \in Sessions PROVE Exact(tcall'[t], cards', calls')
    BY <1>1, <1>6, <2>2
  <2>5. ASSUME NEW t \in Sessions, NEW u \in Sessions, tcall'[t].pc \in T!Statements,
               tcall'[u].pc \in T!Statements, tcall'[t].b = tcall'[u].b
        PROVE  t = u
    <3>1. n.pc \in T!Statements => \A v \in T!InHand(n.b) : v = s
      BY <1>6, <2>2
    <3>2. CASE t # s /\ u # s
      BY <1>1, <2>2, <2>5, <3>2 DEF Gainless
    <3>3. CASE t = s /\ u # s
      BY <1>1, <2>5, <3>1, <3>3 DEF T!InHand
    <3>4. CASE t # s /\ u = s
      BY <1>1, <2>5, <3>1, <3>4 DEF T!InHand
    <3> QED
      BY <3>2, <3>3, <3>4
  <2> QED
    BY <2>3, <2>4, <2>5 DEF Gainless, Exact, T!Statements
<1> QED
  BY <1>5, <1>6 DEF MoneyInv

\* A step of one session without rounding.
LEMMA SessionMoves ==
  ASSUME FormInv, MoneyInv, NEW s \in Sessions, NEW n \in TCalls, TMoves(s, n), UpsetGrows,
         NEW d \in Int, T!Money' = T!Money + d, slack' = slack,
         Unlost' /\ Lossless => /\ d >= Owes(n) - Owes(tcall[s])
                                /\ Covered(n, cards')
                                /\ \A t \in Sessions \ {s} : Covered(tcall[t], cards'),
         Unmade' /\ Gainless => /\ d = Owes(n) - Owes(tcall[s])
                                /\ Exact(n, cards', calls')
                                /\ \A t \in Sessions \ {s} : Exact(tcall[t], cards', calls')
                                /\ n.pc \in T!Statements =>
                                     \A t \in T!InHand(n.b) : t = s
  PROVE  MoneyInv'
<1>1. tcall[s] \in TCalls /\ slack \in Nat
  BY TTypes DEF FormInv
<1>2. PICK o \in Int, w \in Int : o = Owes(n) /\ w = Owes(tcall[s])
  BY <1>1, OwesTyped
<1>3. slack' = slack + 0
  BY <1>1
<1>4. /\ d >= o - w => 2 * (o - w - d) <= 0
      /\ d = o - w => 2 * (d - (o - w)) <= 0
  BY <1>2
<1> QED
  BY <1>2, <1>3, <1>4, SessionMovesAbout

\* A session that moves without money.
LEMMA MoneyRests ==
  ASSUME FormInv, MoneyInv, NEW s \in Sessions, NEW n \in TCalls, TMoves(s, n), UpsetGrows,
         UNCHANGED <<cards, calls, spent, slack>>, Owes(n) = Owes(tcall[s]),
         n.pc \in T!Statements => /\ tcall[s].pc \in T!Statements
                                  /\ n.b = tcall[s].b /\ n.amount = tcall[s].amount
  PROVE  MoneyInv'
<1>1. T!Money' = T!Money + 0
  BY MoneyStays, MoneyTyped, TTypes DEF FormInv
<1>2. 0 = Owes(n) - Owes(tcall[s])
  BY OwesTyped, TTypes DEF FormInv
<1>3. Lossless => /\ Covered(n, cards') /\ \A t \in Sessions \ {s} : Covered(tcall[t], cards')
  BY DEF Lossless, Covered
<1>4. Gainless => /\ Exact(n, cards', calls')
                  /\ \A t \in Sessions \ {s} : Exact(tcall[t], cards', calls')
                  /\ n.pc \in T!Statements => \A t \in T!InHand(n.b) : t = s
  BY DEF Gainless, Exact, T!InHand
<1> QED
  BY <1>1, <1>2, <1>3, <1>4, SessionMoves

LEMMA BeginMoney ==
  ASSUME FormInv, MoneyInv, NEW s \in Sessions, NEW a \in Cards \cup {Nobody}, T!Begin(s, a)
  PROVE  MoneyInv'
<1>1. PICK n : n = [T!Idle EXCEPT !.pc = "ask", !.a = a]
  OBVIOUS
<1>2. n \in TCalls /\ n.pc = "ask"
  <2>1. 0 \in 0 .. MaxTries - 1
    BY PrepaidAssumption DEF PrepaidAssumption
  <2>2. n = [pc |-> "ask", a |-> a, b |-> Nobody, amount |-> 0, tries |-> 0,
             charge |-> FALSE, fresh |-> FALSE]
    BY <1>1 DEF T!Idle
  <2> QED
    BY <2>1, <2>2 DEF TCalls
<1>3. TMoves(s, n) /\ UNCHANGED <<cards, calls, spent, slack, upset>> /\ tcall[s].pc = "idle"
  BY <1>1 DEF T!Begin, TMoves, T!At
<1>4. UpsetGrows /\ Owes(n) = Owes(tcall[s])
  BY <1>2, <1>3, TTypes DEF FormInv, UpsetGrows, Owes
<1> QED
  BY <1>2, <1>3, <1>4, MoneyRests DEF T!Statements

LEMMA AskedMoney ==
  ASSUME FormInv, MoneyInv, NEW s \in Sessions, tcall[s].pc = "ask", NEW n \in TCalls,
         n.pc = "ask", n.a = tcall[s].a, tcall' = [tcall EXCEPT ![s] = T!AskAgain(s, n)],
         UNCHANGED <<cards, calls, spent, slack, upset>>
  PROVE  MoneyInv'
<1>1. PICK m : m = T!AskAgain(s, n)
  OBVIOUS
<1>2. m \in TCalls /\ m.pc \in {"idle", "ask"}
  BY <1>1, Asked
<1>3. TMoves(s, m) /\ UpsetGrows /\ Owes(m) = Owes(tcall[s])
  BY <1>1, <1>2, TTypes DEF FormInv, TMoves, UpsetGrows, Owes
<1> QED
  BY <1>2, <1>3, MoneyRests DEF T!Statements

LEMMA AcceptMoney ==
  ASSUME FormInv, MoneyInv, NEW s \in Sessions, tcall[s].pc = "ask", NEW b \in Cards,
         NEW n \in TCalls, TMoves(s, n), n.pc = "credit", n.b = b,
         n.amount = cards[b].balance, cards[b].balance > 0, calls[b] = 0,
         UpsetGrows, T!InHand(b) # {} => "shared" \in upset',
         UNCHANGED <<cards, calls, spent, slack>>
  PROVE  MoneyInv'
<1>1. Owes(n) = 0 /\ Owes(tcall[s]) = 0
  BY DEF Owes
<1>2. PICK d \in Int : d = 0
  OBVIOUS
<1>3. T!Money' = T!Money + d
  BY <1>2, MoneyStays, MoneyTyped, TTypes DEF FormInv
<1>4. Unlost' /\ Lossless =>
         /\ d >= Owes(n) - Owes(tcall[s])
         /\ Covered(n, cards') /\ \A t \in Sessions \ {s} : Covered(tcall[t], cards')
  BY <1>1, <1>2, TTypes DEF FormInv, CardsTyped, Lossless, Covered
<1>5. Unmade' /\ Gainless =>
         /\ d = Owes(n) - Owes(tcall[s])
         /\ Exact(n, cards', calls') /\ \A t \in Sessions \ {s} : Exact(tcall[t], cards', calls')
         /\ n.pc \in T!Statements => \A t \in T!InHand(n.b) : t = s
  BY <1>1, <1>2 DEF Gainless, Exact, Unmade
<1> QED
  BY <1>3, <1>4, <1>5, SessionMoves

LEMMA FindMoney ==
  ASSUME FormInv, MoneyInv, NEW s \in Sessions, NEW b \in Cards, T!Find(s, b)
  PROVE  MoneyInv'
<1>1. /\ tcall[s].pc = "ask" /\ upset \subseteq T!Upsets /\ CardsTyped
      /\ UNCHANGED <<cards, calls, spent, slack>> /\ tcall \in [Sessions -> TCalls] /\ spent \in Nat
  BY TTypes DEF FormInv, T!Find, T!At
<1>2. PICK n \in TCalls : /\ n = T!Tried(s, b) /\ n.pc = "ask" /\ n.a = tcall[s].a
                          /\ n.b = b
  BY <1>1, TriedCard
<1>3. CASE tcall' = [tcall EXCEPT ![s] = T!AskAgain(s, T!Tried(s, b))] /\ UNCHANGED upset
  BY <1>1, <1>2, <1>3, AskedMoney
<1>4. ASSUME T!Accepted(s, b),
             tcall' = [tcall EXCEPT ![s] =
                [T!Tried(s, b) EXCEPT !.pc = T!After(s), !.amount = cards[b].balance]],
             T!Upset(IF T!InHand(b) # {} THEN {"shared"} ELSE {})
      PROVE  MoneyInv'
  <2>4. cards[b].balance \in Int
    BY <1>1 DEF CardsTyped
  <2>1. PICK m \in TCalls : m = [n EXCEPT !.pc = "credit", !.amount = cards[b].balance]
    BY <1>2, <2>4 DEF TCalls
  <2>2. T!After(s) = "credit"
    BY <1>1 DEF T!After, T!At
  <2>3. TMoves(s, m)
    BY <1>2, <1>4, <2>1, <2>2 DEF TMoves
  <2>5. m.pc = "credit" /\ m.b = b /\ m.amount = cards[b].balance
    BY <1>2, <2>1, <2>4 DEF TCalls
  <2>6. UpsetGrows /\ (T!InHand(b) # {} => "shared" \in upset')
    BY <1>1, <1>4 DEF UpsetGrows, T!Upset, T!Upsets
  <2>7. cards[b].balance > 0 /\ calls[b] = 0
    BY <1>4 DEF T!Accepted
  <2> QED
    BY <1>1, <2>3, <2>5, <2>6, <2>7, AcceptMoney
<1> QED
  BY <1>3, <1>4 DEF T!Find

LEMMA CreditMoney ==
  ASSUME FormInv, MoneyInv, NEW s \in Sessions, T!Credit(s)
  PROVE  MoneyInv'
<1>1. /\ tcall[s].pc = "credit" /\ tcall[s] \in TCalls /\ spent \in Nat
      /\ tcall[s].b \in Cards /\ tcall[s].a # tcall[s].b
      /\ CardsTyped /\ upset \subseteq T!Upsets
  BY TTypes DEF FormInv, TFormed, T!Credit, T!At, T!Statements
<1>2. PICK to \in {"charge", "empty"} : to = T!After(s)
  BY <1>1 DEF T!After, T!At
<1>3. PICK n \in TCalls : TMoves(s, n) /\ n.pc = to /\ n = [tcall[s] EXCEPT !.pc = to]
  BY <1>1, <1>2, TGone DEF T!Credit, T!Statements
<1>4. n.b = tcall[s].b /\ n.amount = tcall[s].amount /\ n.amount \in Int
  BY <1>1, <1>3 DEF TCalls
<1> SUFFICES ASSUME Unlost' \/ Unmade' PROVE MoneyInv'
  BY DEF MoneyInv
<1>5. "unmatched" \notin upset'
  BY DEF Unlost, Unmade
<1>6. PICK a \in Cards : a = tcall[s].a
  BY <1>5, Credited
<1>7. PICK e \in Int, x \in Nat, v \in Int :
        /\ v = cards[a].balance + (n.amount + e) /\ cards' = [cards EXCEPT ![a].balance = v]
        /\ slack' = slack + x /\ 2 * e <= x /\ 0 - x <= 2 * e
  BY <1>5, <1>4, <1>6, Credited
<1>8. cards' = [cards EXCEPT ![a].balance = v]
  BY <1>7
<1>9. /\ CardsTyped' /\ cards'[a].balance = v
      /\ \A c \in Cards \ {a} : cards'[c].balance = cards[c].balance
  BY <1>1, <1>7, <1>8 DEF CardsTyped
<1>10. UNCHANGED <<calls, spent>> /\ UpsetGrows /\ (T!InHand(a) # {} => "crossed" \in upset')
  BY <1>1, <1>6 DEF T!Credit, UpsetGrows, T!Upset, T!Upsets
<1>11. PICK d \in Int : d = n.amount + e
  BY <1>4
<1>12. T!Money' = T!Money + d
  <2>1. T!Money' = T!Money + (v - cards[a].balance) + (spent - spent)
    BY <1>1, <1>9, <1>10, MoneyMoves
  <2>2. T!Money \in Int /\ cards[a].balance \in Int
    BY <1>1, MoneyTyped, TTypes DEF FormInv, CardsTyped
  <2> QED
    BY <1>1, <1>4, <1>7, <1>11, <2>1, <2>2
<1>13. Owes(n) = n.amount /\ Owes(tcall[s]) = 0 /\ n.amount = Owes(n) - Owes(tcall[s])
  BY <1>1, <1>3, <1>4 DEF Owes
<1>14. ASSUME T!InHand(a) = {}, NEW t \in Sessions, tcall[t].pc \in T!Statements
       PROVE  cards'[tcall[t].b].balance = cards[tcall[t].b].balance
  <2>1. tcall[t].b \in Cards \ {a}
    BY <1>14 DEF T!InHand, FormInv, TFormed
  <2> QED
    BY <1>9, <2>1
<1>15. Unlost' /\ Lossless =>
         /\ Covered(n, cards') /\ \A t \in Sessions \ {s} : Covered(tcall[t], cards')
  <2> SUFFICES ASSUME Unlost', Lossless
               PROVE  Covered(n, cards') /\ \A t \in Sessions : Covered(tcall[t], cards')
    OBVIOUS
  <2>1. T!InHand(a) = {}
    BY <1>10 DEF Unlost
  <2>2. \A t \in Sessions : Covered(tcall[t], cards')
    BY <1>14, <2>1 DEF Lossless, Covered
  <2> QED
    BY <1>1, <1>4, <2>2 DEF Covered, T!Statements
<1>16. Unmade' /\ Gainless =>
         /\ Exact(n, cards', calls') /\ \A t \in Sessions \ {s} : Exact(tcall[t], cards', calls')
         /\ \A t \in T!InHand(n.b) : t = s
  <2> SUFFICES ASSUME Unmade', Gainless
               PROVE  /\ Exact(n, cards', calls')
                      /\ \A t \in Sessions : Exact(tcall[t], cards', calls')
                      /\ \A t \in T!InHand(n.b) : t = s
    OBVIOUS
  <2>1. T!InHand(a) = {}
    BY <1>10 DEF Unmade
  <2>2. \A t \in Sessions : Exact(tcall[t], cards', calls')
    BY <1>10, <1>14, <2>1 DEF Gainless, Exact
  <2>3. \A t \in T!InHand(n.b) : t = s
    BY <1>1, <1>4 DEF Gainless, T!InHand, T!Statements
  <2> QED
    BY <1>1, <1>4, <2>2, <2>3 DEF Exact, T!Statements
<1>17. Unlost' /\ Lossless =>
         /\ 2 * (Owes(n) - Owes(tcall[s]) - d) <= x
         /\ Covered(n, cards') /\ \A t \in Sessions \ {s} : Covered(tcall[t], cards')
  <2>1. 2 * (Owes(n) - Owes(tcall[s]) - d) <= x
    BY <1>4, <1>7, <1>13, <1>11
  <2> QED
    BY <1>15, <2>1
<1>18. Unmade' /\ Gainless =>
         /\ 2 * (d - (Owes(n) - Owes(tcall[s]))) <= x
         /\ Exact(n, cards', calls') /\ \A t \in Sessions \ {s} : Exact(tcall[t], cards', calls')
         /\ n.pc \in T!Statements => \A t \in T!InHand(n.b) : t = s
  <2>1. 2 * (d - (Owes(n) - Owes(tcall[s]))) <= x
    BY <1>4, <1>7, <1>13, <1>11
  <2> QED
    BY <1>16, <2>1
<1> QED
  BY <1>3, <1>7, <1>10, <1>12, <1>17, <1>18, <1>11, SessionMovesAbout

LEMMA ChargeMoney ==
  ASSUME FormInv, MoneyInv, NEW s \in Sessions, T!Charge(s)
  PROVE  MoneyInv'
<1>1. /\ tcall[s].pc = "charge" /\ tcall[s] \in TCalls /\ upset \subseteq T!Upsets
  BY TTypes DEF FormInv, T!Charge, T!At
<1>2. T!After(s) = "empty"
  BY <1>1 DEF T!After, T!At
<1>3. PICK n \in TCalls : TMoves(s, n) /\ n.pc = "empty" /\ n = [tcall[s] EXCEPT !.pc = "empty"]
  BY <1>1, <1>2, TGone DEF T!Charge, T!Statements
<1>4. n.b = tcall[s].b /\ n.amount = tcall[s].amount
  BY <1>1, <1>3 DEF TCalls
<1>5. UNCHANGED <<cards, calls, spent, slack>> /\ UpsetGrows
  BY <1>1 DEF T!Charge, UpsetGrows, T!Upset, T!Upsets
<1>6. Owes(n) = Owes(tcall[s])
  BY <1>1, <1>3, <1>4 DEF Owes
<1> QED
  BY <1>1, <1>3, <1>4, <1>5, <1>6, MoneyRests DEF T!Statements

LEMMA EmptyMoney ==
  ASSUME FormInv, MoneyInv, NEW s \in Sessions, T!Empty(s)
  PROVE  MoneyInv'
<1>1. /\ tcall[s].pc = "empty" /\ tcall[s] \in TCalls /\ spent \in Nat
      /\ tcall[s].b \in Cards /\ CardsTyped /\ upset \subseteq T!Upsets
  BY TTypes DEF FormInv, TFormed, T!Empty, T!At, T!Statements
<1>2. T!After(s) = "idle"
  BY <1>1 DEF T!After, T!At
<1>3. PICK n \in TCalls : TMoves(s, n) /\ n.pc = "idle"
  BY <1>1, <1>2, TGone DEF T!Empty, T!Statements
<1>4. UNCHANGED <<calls, spent, slack, upset>> /\ UpsetGrows
  BY <1>1 DEF T!Empty, UpsetGrows
<1>5. PICK b \in Cards : b = tcall[s].b
  BY <1>1
<1>6. PICK v \in BOOLEAN : cards' = [cards EXCEPT ![b] = [balance |-> 0, sold |-> v, used |-> TRUE]]
  <2>1. cards[b].sold \in BOOLEAN /\ T!Charges(s) \in BOOLEAN
    BY <1>1, TTypes DEF FormInv, CardsTyped, T!Charges, TCalls
  <2>2. PICK v : v = (cards[b].sold \/ T!Charges(s))
    OBVIOUS
  <2> QED
    BY <1>5, <2>1, <2>2 DEF T!Empty
<1>7. /\ CardsTyped' /\ cards'[b].balance = 0
      /\ \A c \in Cards \ {b} : cards'[c].balance = cards[c].balance
  BY <1>1, <1>6 DEF CardsTyped
<1>8. PICK d \in Int : d = 0 - cards[b].balance
  BY <1>1 DEF CardsTyped
<1>9. T!Money' = T!Money + d
  <2>1. T!Money' = T!Money + (0 - cards[b].balance) + (spent - spent)
    BY <1>1, <1>4, <1>7, MoneyMoves
  <2>2. T!Money \in Int
    BY <1>1, MoneyTyped, TTypes DEF FormInv
  <2> QED
    BY <1>1, <1>8, <2>1, <2>2
<1>10. Owes(n) = 0 /\ Owes(tcall[s]) = tcall[s].amount /\ tcall[s].amount \in Int
       /\ cards[b].balance \in Int
  BY <1>1, <1>3 DEF Owes, TCalls, CardsTyped
<1>11. Unlost' /\ Lossless =>
         /\ d >= Owes(n) - Owes(tcall[s])
         /\ Covered(n, cards') /\ \A t \in Sessions \ {s} : Covered(tcall[t], cards')
  <2> SUFFICES ASSUME Lossless
               PROVE  /\ d >= Owes(n) - Owes(tcall[s])
                      /\ Covered(n, cards') /\ \A t \in Sessions : Covered(tcall[t], cards')
    OBVIOUS
  <2>1. cards[b].balance <= tcall[s].amount
    BY <1>1, <1>5 DEF Lossless, Covered, T!Statements
  <2>2. ASSUME NEW t \in Sessions, tcall[t].pc \in T!Statements
        PROVE  tcall[t].amount >= 0 /\ cards'[tcall[t].b].balance <= tcall[t].amount
    <3>1. /\ tcall[t].amount >= 0 /\ cards[tcall[t].b].balance <= tcall[t].amount
          /\ tcall[t].b \in Cards
      BY <2>2 DEF Lossless, Covered, FormInv, TFormed
    <3> QED
      BY <1>7, <3>1
  <2>3. d >= Owes(n) - Owes(tcall[s])
    BY <1>8, <1>10, <2>1
  <2> QED
    BY <1>3, <2>2, <2>3 DEF Covered, T!Statements
<1>12. Unmade' /\ Gainless =>
         /\ d = Owes(n) - Owes(tcall[s])
         /\ Exact(n, cards', calls') /\ \A t \in Sessions \ {s} : Exact(tcall[t], cards', calls')
         /\ n.pc \in T!Statements => \A t \in T!InHand(n.b) : t = s
  <2> SUFFICES ASSUME Gainless
               PROVE  /\ d = Owes(n) - Owes(tcall[s])
                      /\ Exact(n, cards', calls')
                      /\ \A t \in Sessions \ {s} : Exact(tcall[t], cards', calls')
                      /\ n.pc \in T!Statements => \A t \in T!InHand(n.b) : t = s
    OBVIOUS
  <2>1. cards[b].balance = tcall[s].amount
    BY <1>1, <1>5 DEF Gainless, Exact, T!Statements
  <2>2. ASSUME NEW t \in Sessions \ {s}, tcall[t].pc \in T!Statements
        PROVE  cards'[tcall[t].b].balance = tcall[t].amount /\ calls'[tcall[t].b] = 0
    <3>1. /\ cards[tcall[t].b].balance = tcall[t].amount /\ calls[tcall[t].b] = 0
          /\ tcall[t].b \in Cards
      BY <2>2 DEF Gainless, Exact, FormInv, TFormed
    <3>2. tcall[t].b # b
      BY <1>1, <1>5, <2>2 DEF Gainless, T!Statements
    <3> QED
      BY <1>4, <1>7, <3>1, <3>2
  <2>3. d = Owes(n) - Owes(tcall[s])
    BY <1>8, <1>10, <2>1
  <2>4. n.pc \notin T!Statements
    BY <1>3 DEF T!Statements
  <2> QED
    BY <2>2, <2>3, <2>4 DEF Exact
<1> QED
  BY <1>3, <1>4, <1>9, <1>11, <1>12, SessionMoves

LEMMA FailMoney ==
  ASSUME NEW s \in Sessions, T!Fails(s)
  PROVE  MoneyInv'
<1>1. "failed" \in upset'
  BY DEF T!Fails, T!Upset
<1> QED
  BY <1>1 DEF MoneyInv, Unlost, Unmade

LEMMA HangupMoney ==
  ASSUME FormInv, MoneyInv, NEW s \in Sessions, T!Hangup(s)
  PROVE  MoneyInv'
<1>1. /\ tcall[s].pc \in T!Statements /\ tcall[s] \in TCalls /\ upset \subseteq T!Upsets
      /\ UNCHANGED <<cards, calls, spent, slack>> /\ CardsTyped /\ spent \in Nat
      /\ tcall \in [Sessions -> TCalls] /\ T!Goto(s, "idle")
  BY TTypes DEF FormInv, T!Hangup
<1>2. PICK n \in TCalls : TMoves(s, n) /\ n.pc = "idle"
  BY <1>1, TGone
<1>3. UpsetGrows /\ "hangup" \in upset'
  BY <1>1 DEF UpsetGrows, T!Hangup, T!Upset, T!Upsets
<1>4. PICK d \in Int : d = 0
  OBVIOUS
<1>5. T!Money' = T!Money + d
  BY <1>1, <1>4, MoneyStays, MoneyTyped
<1>6. Unlost' /\ Lossless =>
         /\ d >= Owes(n) - Owes(tcall[s])
         /\ Covered(n, cards') /\ \A t \in Sessions \ {s} : Covered(tcall[t], cards')
  <2>1. Owes(n) = 0 /\ tcall[s].amount \in Int
    BY <1>1, <1>2 DEF Owes, TCalls
  <2>2. Lossless => tcall[s].amount >= 0
    BY <1>1 DEF Lossless, Covered
  <2>3. Lossless => d >= Owes(n) - Owes(tcall[s])
    BY <1>4, <2>1, <2>2 DEF Owes
  <2> QED
    BY <1>1, <1>2, <2>3 DEF Lossless, Covered, T!Statements
<1>7. ~Unmade'
  BY <1>3 DEF Unmade
<1> QED
  BY <1>1, <1>2, <1>3, <1>5, <1>6, <1>7, SessionMoves

\* A step that moves no session.
LEMMA NobodyMoves ==
  ASSUME FormInv, MoneyInv, tcall' = tcall, T!Money' = T!Money, slack' = slack, UpsetGrows,
         Lossless => \A t \in Sessions : Covered(tcall[t], cards'),
         Unmade' /\ Gainless => \A t \in Sessions : Exact(tcall[t], cards', calls')
  PROVE  MoneyInv'
<1>1. T!FirstMoney' = T!FirstMoney
  BY DEF T!FirstMoney, T!FoldFunction, T!FoldFunctionOnSet, T!MapThenFoldSet
<1>2. Owed' = Owed
  BY OwedStays
<1>3. ASSUME Unlost' PROVE Lossless'
  <2>1. Lossless
    BY <1>3 DEF Unlost, UpsetGrows, MoneyInv
  <2> QED
    BY <1>1, <1>2, <2>1 DEF Lossless, Covered
<1>4. ASSUME Unmade' PROVE Gainless'
  <2>1. Gainless
    BY <1>4 DEF Unmade, UpsetGrows, MoneyInv
  <2> QED
    BY <1>1, <1>2, <1>4, <2>1 DEF Gainless, Exact
<1> QED
  BY <1>3, <1>4 DEF MoneyInv

LEMMA CallBeginsMoney ==
  ASSUME FormInv, MoneyInv, NEW c \in Cards, T!CallBegins(c)
  PROVE  MoneyInv'
<1>1. /\ CardsTyped /\ calls \in [Cards -> Nat] /\ upset \subseteq T!Upsets
      /\ tcall' = tcall /\ spent' = spent /\ slack' = slack
      /\ cards' = [cards EXCEPT ![c].used = TRUE]
      /\ calls' = [calls EXCEPT ![c] = @ + 1]
  BY TTypes DEF FormInv, T!CallBegins
<1>2. \A d \in Cards : cards'[d].balance = cards[d].balance
  BY <1>1 DEF CardsTyped
<1>3. UpsetGrows /\ (T!InHand(c) # {} => "called" \in upset')
  BY <1>1 DEF T!CallBegins, UpsetGrows, T!Upset, T!Upsets
<1>4. Lossless => \A t \in Sessions : Covered(tcall[t], cards')
  BY <1>2 DEF Lossless, Covered, FormInv, TFormed
<1>5. Unmade' /\ Gainless => \A t \in Sessions : Exact(tcall[t], cards', calls')
  <2> SUFFICES ASSUME Unmade', Gainless, NEW t \in Sessions, tcall[t].pc \in T!Statements
               PROVE  cards'[tcall[t].b].balance = tcall[t].amount /\ calls'[tcall[t].b] = 0
    BY DEF Exact
  <2>1. T!InHand(c) = {}
    BY <1>3 DEF Unmade
  <2>2. tcall[t].b \in Cards \ {c}
    BY <2>1 DEF T!InHand, FormInv, TFormed
  <2> QED
    BY <1>1, <1>2, <2>2 DEF Gainless, Exact
<1> QED
  BY <1>1, <1>2, <1>3, <1>4, <1>5, MoneyStays, NobodyMoves

LEMMA CallEndsMoney ==
  ASSUME FormInv, MoneyInv, NEW c \in Cards, T!CallEnds(c)
  PROVE  MoneyInv'
<1>1. /\ CardsTyped /\ calls \in [Cards -> Nat] /\ upset \subseteq T!Upsets
      /\ tcall' = tcall /\ spent' = spent + 1 /\ spent \in Nat /\ upset' = upset
      /\ slack' = slack /\ cards' = [cards EXCEPT ![c].balance = @ - 1]
      /\ calls' = [calls EXCEPT ![c] = @ - 1] /\ calls[c] > 0
  BY TTypes DEF FormInv, T!CallEnds
<1>2. PICK v \in Int : v = cards[c].balance - 1
  BY <1>1 DEF CardsTyped
<1>3. cards' = [cards EXCEPT ![c].balance = v]
  BY <1>1, <1>2
<1>4. /\ CardsTyped' /\ cards'[c].balance = v /\ cards[c].balance \in Int
      /\ \A d \in Cards \ {c} : cards'[d].balance = cards[d].balance
  BY <1>1, <1>3 DEF CardsTyped
<1>5. T!Money' = T!Money
  <2>1. T!Money' = T!Money + (v - cards[c].balance) + (spent' - spent)
    BY <1>1, <1>4, MoneyMoves
  <2>2. T!Money \in Int
    BY <1>1, MoneyTyped, TTypes DEF FormInv
  <2> QED
    BY <1>1, <1>2, <1>4, <2>1, <2>2
<1>6. UpsetGrows
  BY <1>1 DEF UpsetGrows
<1>7. ASSUME Lossless, NEW t \in Sessions, tcall[t].pc \in T!Statements
      PROVE  tcall[t].amount >= 0 /\ cards'[tcall[t].b].balance <= tcall[t].amount
  <2>1. /\ tcall[t].amount >= 0 /\ cards[tcall[t].b].balance <= tcall[t].amount
        /\ tcall[t].b \in Cards /\ tcall[t].amount \in Int
    BY <1>7, TTypes DEF Lossless, Covered, FormInv, TFormed, TCalls
  <2> QED
    BY <1>2, <1>4, <2>1
<1>8. ASSUME Gainless, NEW t \in Sessions, tcall[t].pc \in T!Statements
      PROVE  cards'[tcall[t].b].balance = tcall[t].amount /\ calls'[tcall[t].b] = 0
  <2>1. /\ cards[tcall[t].b].balance = tcall[t].amount /\ calls[tcall[t].b] = 0
        /\ tcall[t].b \in Cards
    BY <1>8 DEF Gainless, Exact, FormInv, TFormed
  <2>2. tcall[t].b # c
    BY <1>1, <2>1
  <2> QED
    BY <1>1, <1>4, <2>1, <2>2
<1>9. Lossless => \A t \in Sessions : Covered(tcall[t], cards')
  BY <1>7 DEF Covered
<1>10. Gainless => \A t \in Sessions : Exact(tcall[t], cards', calls')
  BY <1>8 DEF Exact
<1> QED
  BY <1>1, <1>5, <1>6, <1>9, <1>10, NobodyMoves

LEMMA VoucherMoney ==
  ASSUME FormInv, MoneyInv, VoucherStep
  PROVE  MoneyInv'
<1>1. /\ CardsTyped /\ upset \subseteq T!Upsets
      /\ UNCHANGED <<tcall, spent, slack, calls, upset>>
  BY TTypes DEF FormInv, VoucherStep, topupVars
<1>2. \A d \in Cards : cards'[d].balance = cards[d].balance
  BY <1>1, VoucherStepCards DEF CardsTyped
<1>3. Lossless => \A t \in Sessions : Covered(tcall[t], cards')
  BY <1>2 DEF Lossless, Covered, FormInv, TFormed
<1>4. Gainless => \A t \in Sessions : Exact(tcall[t], cards', calls')
  BY <1>1, <1>2 DEF Gainless, Exact, FormInv, TFormed
<1> QED
  BY <1>1, <1>2, <1>3, <1>4, MoneyStays, NobodyMoves DEF UpsetGrows

LEMMA MoneyAtFirst == Init => MoneyInv
<1> SUFFICES ASSUME Init PROVE MoneyInv
  OBVIOUS
<1>1. /\ cards \in [Cards -> [balance : {FaceValue}, sold : BOOLEAN, used : {FALSE}]]
      /\ tcall = [s \in Sessions |-> T!Idle] /\ spent = 0 /\ slack = 0
  BY DEF Init, T!Init
<1>2. FormInv
  BY TInitKept DEF TInv
<1>3. T!Money \in Int /\ T!FirstMoney \in Int
  BY <1>2, TTypes, MoneyTyped DEF FormInv
<1>4. T!Money = T!FirstMoney
  <2>1. Balances = [c \in Cards |-> FaceValue]
    BY <1>1 DEF Balances
  <2>2. T!Money = T!FirstMoney + 0
    BY <1>1, <2>1, MoneyIsSum
  <2> QED
    BY <1>3, <2>2
<1>5. \A s \in Sessions : tcall[s].pc = "idle" /\ Owes(tcall[s]) = 0
  BY <1>1 DEF T!Idle, Owes
<1>6. Owed = 0
  <2>1. PICK f \in [Sessions -> Int] : f = [s \in Sessions |-> Owes(tcall[s])]
    <3>1. \A s \in Sessions : Owes(tcall[s]) \in Int
      BY <1>5
    <3> QED
      BY <3>1
  <2>2. \A s \in Sessions : f[s] = 0
    BY <1>5, <2>1
  <2>3. \A s \in Sessions : f[s] >= 0
    BY <2>2
  <2>4. Sum(f) = 0
    BY <2>2, <2>3, SumOfNone, PrepaidAssumption DEF PrepaidAssumption
  <2> QED
    BY <2>1, <2>4 DEF Owed
<1>7. Lossless
  BY <1>1, <1>3, <1>4, <1>5, <1>6 DEF Lossless, Covered, T!Statements
<1>8. Gainless
  BY <1>1, <1>3, <1>4, <1>5, <1>6 DEF Gainless, Exact, T!Statements
<1> QED
  BY <1>7, <1>8 DEF MoneyInv

LEMMA MoneyKept == TInv /\ MoneyInv /\ [Next]_vars => MoneyInv'
<1> SUFFICES ASSUME FormInv, MoneyInv, [Next]_vars PROVE MoneyInv'
  BY DEF TInv
<1>1. CASE VoucherStep
  BY <1>1, VoucherMoney
<1>2. CASE TopupStep
  <2>1. \/ \E s \in Sessions :
             \/ \E a \in Cards \cup {Nobody} : T!Begin(s, a)
             \/ \E b \in Cards : T!Find(s, b)
             \/ T!FindNone(s) \/ T!Statement(s) \/ T!Fails(s) \/ T!Hangup(s)
        \/ \E c \in Cards : T!CallBegins(c) \/ T!CallEnds(c)
    BY <1>2 DEF TopupStep, T!Next
  <2>2. ASSUME NEW s \in Sessions, T!Statement(s) PROVE MoneyInv'
    BY <2>2, CreditMoney, ChargeMoney, EmptyMoney DEF T!Statement
  <2>3. ASSUME NEW s \in Sessions, T!FindNone(s) PROVE MoneyInv'
    <3>1. tcall[s] \in TCalls /\ tcall[s].pc = "ask"
      BY <2>3, TTypes DEF FormInv, T!FindNone, T!At
    <3> QED
      BY <2>3, <3>1, AskedMoney DEF T!FindNone
  <2> QED
    BY <2>1, <2>2, <2>3, BeginMoney, FindMoney, FailMoney, HangupMoney, CallBeginsMoney,
       CallEndsMoney
<1>3. CASE UNCHANGED vars
  <2>1. UNCHANGED <<cards, tcall, spent, slack, calls, upset>> /\ upset \subseteq T!Upsets
    BY <1>3, TTypes DEF FormInv, vars, topupVars
  <2>2. T!Money' = T!Money /\ UpsetGrows
    BY <2>1, MoneyStays DEF UpsetGrows
  <2>3. Lossless => \A t \in Sessions : Covered(tcall[t], cards')
    BY <2>1 DEF Lossless
  <2>4. Gainless => \A t \in Sessions : Exact(tcall[t], cards', calls')
    BY <2>1 DEF Gainless
  <2> QED
    BY <2>1, <2>2, <2>3, <2>4, NobodyMoves
<1> QED
  BY <1>1, <1>2, <1>3 DEF Next

LEMMA MoneyInvariant == Spec => [](TInv /\ MoneyInv)
BY TInitKept, TStepKept, MoneyAtFirst, MoneyKept, PTL DEF Spec

\* The sessions that owe nothing at the end, and none of them less than nothing
\* before.
LEMMA NobodyOwesLess ==
  ASSUME FormInv
  PROVE  /\ Lossless => Owed >= 0
         /\ (\A s \in Sessions : tcall[s].pc \notin T!Statements) => Owed = 0
<1>1. \A s \in Sessions : tcall[s] \in TCalls
  BY TTypes DEF FormInv
<1>2. PICK f \in [Sessions -> Int] : f = [s \in Sessions |-> Owes(tcall[s])]
  BY <1>1, OwesTyped
<1>3. IsFiniteSet(Sessions) /\ Owed = Sum(f)
  BY <1>2, PrepaidAssumption DEF PrepaidAssumption, Owed
<1>4. ASSUME Lossless PROVE Owed >= 0
  <2>1. \A s \in Sessions : f[s] >= 0
    BY <1>1, <1>2, <1>4 DEF Lossless, Covered, Owes, TCalls, T!Statements
  <2> QED
    BY <1>3, <2>1, SumOfNone
<1>5. ASSUME \A s \in Sessions : tcall[s].pc \notin T!Statements PROVE Owed = 0
  <2>1. \A s \in Sessions : f[s] = 0
    BY <1>2, <1>5 DEF Owes, T!Statements
  <2>2. \A s \in Sessions : f[s] >= 0
    BY <2>1
  <2> QED
    BY <1>3, <2>1, <2>2, SumOfNone
<1> QED
  BY <1>4, <1>5

\* The callers lose no money by mor_card_topup at any moment, whoever hangs up and
\* whatever calls are made, but half a unit by the rounding of each amount that is
\* not printed exactly: only a failed statement, an id of no card, or a session that
\* empties a card another one has just filled, makes what they have less than that.
THEOREM MoneyIsNotLost == Spec => []NoMoneyIsLost
<1>1. TInv /\ MoneyInv => NoMoneyIsLost
  <2> SUFFICES ASSUME FormInv, MoneyInv, Unlost PROVE 2 * (T!FirstMoney - T!Money) <= slack
    BY DEF TInv, NoMoneyIsLost, T!NoMoneyIsLost, Unlost
  <2>1. Lossless /\ 2 * (T!FirstMoney + Owed - T!Money) <= slack
    BY DEF MoneyInv, Lossless
  <2>2. T!Money \in Int /\ T!FirstMoney \in Int /\ Owed \in Int /\ slack \in Nat
    BY TTypes, MoneyTyped DEF FormInv
  <2> QED
    BY <2>1, <2>2, NobodyOwesLess
<1> QED
  BY <1>1, MoneyInvariant, PTL

\* Nor do they gain any: when no session is at its statements they have no more than
\* they had, but half a unit by each rounding, unless something got in between.
THEOREM MoneyIsNotMade == Spec => []NoMoneyIsMade
<1>1. TInv /\ MoneyInv => NoMoneyIsMade
  <2> SUFFICES ASSUME FormInv, MoneyInv, Unmade,
                      \A s \in Sessions : tcall[s].pc \notin T!Statements
               PROVE  2 * (T!Money - T!FirstMoney) <= slack
    BY DEF TInv, NoMoneyIsMade, T!NoMoneyIsMade, Unmade
  <2>1. 2 * (T!Money - T!FirstMoney - Owed) <= slack
    BY DEF MoneyInv, Gainless
  <2>2. T!Money \in Int /\ T!FirstMoney \in Int
    BY TTypes, MoneyTyped DEF FormInv
  <2> QED
    BY <2>1, <2>2, NobodyOwesLess
<1> QED
  BY <1>1, MoneyInvariant, PTL

-----------------------------------------------------------------------------
(***************************************************************************)
(* The rows of a query, for either index.  The calls that match are ranked *)
(* without gaps or ties, so the first of them can be counted out.          *)
(***************************************************************************)
KeyOk(key) == \A c \in Calls : key[c] \in Int

LEMMA MatchingFinite ==
  ASSUME DOMAIN live \subseteq Calls
  PROVE  /\ Matching \subseteq Calls /\ IsFiniteSet(Matching) /\ Cardinality(Matching) \in Nat
         /\ RowCount \in Nat /\ RowCount <= Limit /\ RowCount <= Cardinality(Matching)
         /\ RowCount = 0 <=> Matching = {}
         /\ RowCount < Limit => RowCount = Cardinality(Matching)
<1>1. IsFiniteSet(Calls) /\ Limit \in Nat \ {0}
  BY RerateAssumption DEF RerateAssumption
<1>2. Matching \subseteq Calls
  BY DEF Matching
<1>3. IsFiniteSet(Matching) /\ Cardinality(Matching) \in Nat
  BY <1>1, <1>2, FS_Subset, FS_CardinalityType
<1>4. Cardinality(Matching) = 0 <=> Matching = {}
  BY <1>3, FS_EmptySet
<1> QED
  BY <1>1, <1>2, <1>3, <1>4 DEF RowCount

LEMMA RankGrows ==
  ASSUME DOMAIN live \subseteq Calls, NEW key, KeyOk(key),
         NEW c \in Matching, NEW d \in Matching, Earlier(key, c, d)
  PROVE  Rank(key, c) \in Nat /\ Rank(key, d) \in Nat /\ Rank(key, c) < Rank(key, d)
<1> DEFINE B(x) == {y \in Matching : Earlier(key, y, x)}
<1>0. Calls \subseteq Nat
  BY RerateAssumption DEF RerateAssumption
<1>1. IsFiniteSet(Matching) /\ Matching \subseteq Calls
  BY MatchingFinite
<1>2. \A x \in Matching : key[x] \in Int /\ x \in Int
  BY <1>0, <1>1 DEF KeyOk
<1>3. \A x \in Matching : IsFiniteSet(B(x)) /\ Cardinality(B(x)) \in Nat
  <2> TAKE x \in Matching
  <2>1. B(x) \in SUBSET Matching
    OBVIOUS
  <2> HIDE DEF B
  <2> QED
    BY <1>1, <2>1, FS_Subset, FS_CardinalityType
<1>4. B(c) \in SUBSET B(d)
  BY <1>2 DEF Earlier
<1>5. c \in B(d) /\ c \notin B(c)
  BY <1>2 DEF Earlier
<1>6. Cardinality(B(c)) <= Cardinality(B(d)) /\ Cardinality(B(c)) # Cardinality(B(d))
  <2> HIDE DEF B
  <2> QED
    BY <1>3, <1>4, <1>5, FS_Subset
<1> QED
  BY <1>3, <1>6 DEF Rank

LEMMA Ranked ==
  ASSUME DOMAIN live \subseteq Calls, NEW key, KeyOk(key)
  PROVE  /\ \A c \in Matching : Rank(key, c) \in 0 .. Cardinality(Matching) - 1
         /\ \A c, d \in Matching : Earlier(key, c, d) => Rank(key, c) < Rank(key, d)
         /\ \A c, d \in Matching : Rank(key, c) = Rank(key, d) => c = d
         /\ \A k \in 0 .. Cardinality(Matching) - 1 : \E c \in Matching : Rank(key, c) = k
<1> DEFINE n == Cardinality(Matching)
           f == [c \in Matching |-> Rank(key, c)]
<1>0. Calls \subseteq Nat
  BY RerateAssumption DEF RerateAssumption
<1>1. IsFiniteSet(Matching) /\ Matching \subseteq Calls /\ n \in Nat
  BY MatchingFinite
<1>2. \A x \in Matching : key[x] \in Int /\ x \in Int
  BY <1>0, <1>1 DEF KeyOk
<1>3. ASSUME NEW c \in Matching PROVE Rank(key, c) \in 0 .. n - 1
  <2> DEFINE B == {y \in Matching : Earlier(key, y, c)}
  <2>1. B \in SUBSET Matching
    OBVIOUS
  <2>2. c \notin B
    BY <1>2 DEF Earlier
  <2>3. Rank(key, c) = Cardinality(B)
    BY DEF Rank
  <2> HIDE DEF B
  <2>4. IsFiniteSet(B) /\ Cardinality(B) \in Nat /\ Cardinality(B) <= n /\ Cardinality(B) # n
    BY <1>1, <2>1, <2>2, FS_Subset, FS_CardinalityType
  <2> QED
    BY <1>1, <2>3, <2>4
<1>4. \A c, d \in Matching : Earlier(key, c, d) => Rank(key, c) < Rank(key, d)
  BY RankGrows
<1>5. \A c, d \in Matching : c # d => Rank(key, c) # Rank(key, d)
  <2> TAKE c, d \in Matching
  <2>1. c # d => Earlier(key, c, d) \/ Earlier(key, d, c)
    BY <1>2 DEF Earlier
  <2>2. Rank(key, c) \in Int /\ Rank(key, d) \in Int
    BY <1>3
  <2> QED
    BY <1>4, <2>1, <2>2
<1>6. f \in Injection(Matching, 0 .. n - 1)
  <2>1. f \in [Matching -> 0 .. n - 1]
    BY <1>3
  <2>2. \A c, d \in Matching : f[c] = f[d] => c = d
    BY <1>5
  <2> HIDE DEF f, n
  <2> QED
    BY <2>1, <2>2 DEF Injection, IsInjective
<1>7. IsFiniteSet(0 .. n - 1) /\ Cardinality(0 .. n - 1) = n
  <2>1. 0 \in Int /\ n - 1 \in Int
    BY <1>1
  <2> HIDE DEF n
  <2> QED
    BY <1>1, <2>1, FS_Interval
<1>8. f \in Surjection(Matching, 0 .. n - 1)
  BY <1>6, <1>7, FS_Injection
<1>9. \A k \in 0 .. n - 1 : \E c \in Matching : f[c] = k
  <2> HIDE DEF f, n
  <2> QED
    BY <1>8 DEF Surjection
<1> QED
  BY <1>3, <1>4, <1>5, <1>9

\* Each row is the call of its rank.
LEMMA RowsAre ==
  ASSUME DOMAIN live \subseteq Calls, NEW key, KeyOk(key), NEW s, s = RowsBy(key)
  PROVE  /\ s \in Seq(Calls) /\ Len(s) = RowCount /\ IsInjective(s) /\ Range(s) \subseteq Matching
         /\ \A i \in 1 .. RowCount : s[i] \in Matching /\ Rank(key, s[i]) = i - 1
         /\ \A c \in Matching : c \in Range(s) <=> Rank(key, c) < RowCount
         /\ s = <<>> <=> Matching = {}
<1>1. /\ Matching \subseteq Calls /\ RowCount \in Nat /\ RowCount <= Cardinality(Matching)
      /\ Cardinality(Matching) \in Nat /\ (RowCount = 0 <=> Matching = {})
  BY MatchingFinite
<1>2. /\ \A c \in Matching : Rank(key, c) \in 0 .. Cardinality(Matching) - 1
      /\ \A c, d \in Matching : Rank(key, c) = Rank(key, d) => c = d
      /\ \A k \in 0 .. Cardinality(Matching) - 1 : \E c \in Matching : Rank(key, c) = k
  BY Ranked
<1>3. s = [i \in 1 .. RowCount |-> CHOOSE c \in Matching : Rank(key, c) = i - 1]
  BY DEF RowsBy
<1>4. ASSUME NEW i \in 1 .. RowCount PROVE s[i] \in Matching /\ Rank(key, s[i]) = i - 1
  <2>1. i - 1 \in 0 .. Cardinality(Matching) - 1
    BY <1>1
  <2>2. \E c \in Matching : Rank(key, c) = i - 1
    BY <1>2, <2>1
  <2>3. s[i] = CHOOSE c \in Matching : Rank(key, c) = i - 1
    BY <1>3
  <2> QED
    BY <2>2, <2>3
<1>5. s \in Seq(Calls) /\ Len(s) = RowCount /\ DOMAIN s = 1 .. RowCount
  <2>1. s \in [1 .. RowCount -> Calls]
    BY <1>1, <1>3, <1>4
  <2> QED
    BY <1>1, <2>1
<1>6. IsInjective(s)
  <2> SUFFICES ASSUME NEW i \in 1 .. RowCount, NEW j \in 1 .. RowCount, s[i] = s[j]
               PROVE  i = j
    BY <1>5 DEF IsInjective
  <2>1. i - 1 = j - 1
    BY <1>4
  <2> QED
    BY <1>1, <2>1
<1>7. Range(s) = {s[i] : i \in 1 .. RowCount}
  BY <1>5 DEF Range
<1>8. ASSUME NEW c \in Matching PROVE c \in Range(s) <=> Rank(key, c) < RowCount
  <2>1. Rank(key, c) \in Nat
    BY <1>2
  <2>2. ASSUME c \in Range(s) PROVE Rank(key, c) < RowCount
    <3>1. PICK i \in 1 .. RowCount : c = s[i]
      BY <1>7, <2>2
    <3>2. Rank(key, c) = i - 1
      BY <1>4, <3>1
    <3> QED
      BY <1>1, <3>2
  <2>3. ASSUME Rank(key, c) < RowCount PROVE c \in Range(s)
    <3>1. Rank(key, c) + 1 \in 1 .. RowCount
      BY <1>1, <2>1, <2>3
    <3>2. PICK i \in 1 .. RowCount : i = Rank(key, c) + 1
      BY <3>1
    <3>3. Rank(key, s[i]) = Rank(key, c) /\ s[i] \in Matching
      BY <1>4, <2>1, <3>2
    <3>4. s[i] = c
      BY <1>2, <3>3
    <3> QED
      BY <1>7, <3>4
  <2> QED
    BY <2>2, <2>3
<1>9. s = <<>> <=> Matching = {}
  BY <1>1, <1>5
<1> QED
  BY <1>4, <1>5, <1>6, <1>7, <1>8, <1>9

LEMMA KeysOk ==
  KeyOk([c \in Calls |-> c]) /\ KeyOk([c \in Calls |-> Date[c]])
<1>1. Calls \subseteq Nat /\ \A c \in Calls : Date[c] \in Int
  BY RerateAssumption DEF RerateAssumption
<1> QED
  BY <1>1 DEF KeyOk

\* Whatever the index, the rows are distinct calls that match.
LEMMA RowsRead ==
  ASSUME DOMAIN live \subseteq Calls, NEW s \in {RowsById, RowsByDate}
  PROVE  /\ s \in Seq(Calls) /\ IsInjective(s) /\ Range(s) \subseteq Matching
         /\ Len(s) = RowCount /\ (s = <<>> <=> Matching = {})
<1>1. \E key : KeyOk(key) /\ s = RowsBy(key)
  BY KeysOk DEF RowsById, RowsByDate
<1> QED
  BY <1>1, RowsAre

\* In the order of the ids the rows are the first of those that match.
LEMMA RowsInOrder ==
  ASSUME DOMAIN live \subseteq Calls, RowsById # <<>>, NEW s, s = RowsById
  PROVE  /\ \A c \in Range(s) : c <= s[Len(s)]
         /\ \A c \in Matching \ Range(s) : s[Len(s)] < c
         /\ s[Len(s)] \in Matching
<1> DEFINE key == [c \in Calls |-> c]
<1>0. Calls \subseteq Nat
  BY RerateAssumption DEF RerateAssumption
<1>1. KeyOk(key) /\ s = RowsBy(key) /\ Matching \subseteq Calls /\ \A c \in Calls : key[c] = c
  BY KeysOk, MatchingFinite DEF RowsById
<1> HIDE DEF key
<1>2. /\ s \in Seq(Calls) /\ Len(s) = RowCount /\ Range(s) \subseteq Matching
      /\ \A i \in 1 .. RowCount : s[i] \in Matching /\ Rank(key, s[i]) = i - 1
      /\ \A c \in Matching : c \in Range(s) <=> Rank(key, c) < RowCount
  BY <1>1, RowsAre
<1>3. /\ \A c \in Matching : Rank(key, c) \in 0 .. Cardinality(Matching) - 1
      /\ \A c, d \in Matching : Earlier(key, c, d) => Rank(key, c) < Rank(key, d)
      /\ Cardinality(Matching) \in Nat
  BY <1>1, Ranked, MatchingFinite
<1>4. Len(s) \in 1 .. RowCount
  BY <1>2
<1>5. PICK z \in Matching : z = s[Len(s)] /\ Rank(key, z) = RowCount - 1 /\ RowCount \in Nat
  BY <1>2, <1>4, MatchingFinite
<1>6. \A c, d \in Matching : d < c => Rank(key, d) < Rank(key, c)
  BY <1>1, <1>3 DEF Earlier
<1>7. ASSUME NEW c \in Range(s) PROVE c <= z
  <2>1. c \in Matching /\ Rank(key, c) < RowCount /\ Rank(key, c) \in Int
    BY <1>2, <1>3
  <2>2. ~(z < c)
    BY <1>5, <1>6, <2>1
  <2> QED
    BY <1>0, <1>1, <2>1, <2>2
<1>8. ASSUME NEW c \in Matching \ Range(s) PROVE z < c
  <2>1. Rank(key, c) >= RowCount /\ Rank(key, c) \in Int
    BY <1>2, <1>3, <1>5
  <2>2. ~(c < z) /\ c # z
    BY <1>5, <1>6, <2>1
  <2> QED
    BY <1>0, <1>1, <2>2
<1> QED
  BY <1>5, <1>7, <1>8

-----------------------------------------------------------------------------
(***************************************************************************)
(* The invariant of the rerating.  Shape says what the program holds at    *)
(* each stage.  HandInv: what it has read of a call and not yet written is *)
(* still what the call has.  LedgerInv: the balances, the prices in the    *)
(* tables and the sums in the program together do not change, so when      *)
(* nothing is in hand and the sums are written the balances have followed  *)
(* the prices.  CountedInv: a call that was counted has a smaller id than  *)
(* one that was not.  CoverInv: the rounds that are left are enough for    *)
(* the counted calls that are ahead of the last id read, and all the rest  *)
(* have a price of today or are in hand.                                   *)
(***************************************************************************)
\* The kinds of the calls an account pays for, and what it pays for them today.
KindsOf(u) == {Kind[d] : d \in {e \in Calls : u \in PayersOf(e)}}
Todays(u) == {Rate[u][Kind[d]] : d \in {e \in Calls : u \in PayersOf(e)}}

IsPriced(p) == DOMAIN p \subseteq Calls /\ \A c \in DOMAIN p : p[c] \in [PayersOf(c) -> Int]

InRound == {"launch", "write", "last"}
Stages == {"count", "read"} \cup InRound \cup Ended

TablesTyped ==
    /\ IsPriced(live) /\ IsPriced(archived) /\ IsPriced(read) /\ IsPriced(prices)
    /\ balance \in [Accounts -> Int] /\ diff \in [Accounts -> Int]

ControlTyped ==
    /\ pc \in Stages
    /\ rounds \in Nat /\ last \in Int /\ first \in BOOLEAN
    /\ list \in Seq(Calls) /\ IsInjective(list) /\ at \in 1 .. Len(list) + 1
    /\ counted \subseteq Calls /\ mishaps \subseteq Mishaps

ThreadsTyped ==
    /\ cache \in [Accounts -> {None} \cup {Kind[c] : c \in Calls}]
    /\ \A u \in Accounts : cache[u] = None \/ cache[u] \in KindsOf(u)
    /\ sem \in Nat /\ usem \in Nat
    /\ batch \in [rows : SUBSET Calls, buffer : BOOLEAN]
    /\ writers \subseteq [rows : SUBSET Calls, at : {"get", "query"}]
    /\ IsFiniteSet(writers) /\ Cardinality(writers) <= usem

\* Between rounds there is nothing in hand.
RestInv ==
    /\ pc \in {"count", "read", "done"} =>
         /\ list = <<>> /\ DOMAIN raters = {} /\ sem = 0 /\ usem = 0 /\ batch.rows = {}
    /\ pc \in {"count", "read", "done", "launch", "last", "failed"} => writers = {}
    /\ pc \in {"write", "last", "failed"} => DOMAIN raters = {}
    /\ pc = "count" => counted = {} /\ first
    /\ pc \in {"count", "done"} => \A u \in Accounts : diff[u] = 0

Passed == {list[i] : i \in 1 .. at - 1}

RoundInv ==
    pc \in InRound =>
      /\ rounds > 0
      /\ DOMAIN rates = Range(list) /\ DOMAIN prices = Range(list) /\ DOMAIN read = Range(list)
      /\ pc = "launch" => prices = read /\ usem = 0 /\ batch.rows = {}
      /\ pc \in {"write", "last"} => sem = 0
      /\ pc = "last" => at > Len(list)

\* The threads that read rates.
RatersInv ==
    pc = "launch" =>
      /\ DOMAIN raters \subseteq Passed
      /\ Cardinality(DOMAIN raters) <= sem
      /\ \A c \in Range(list) : \A u \in PayersOf(c) :
            rates[c][u] = None \/ rates[c][u] \in KindsOf(u)
      /\ \A c \in Range(list) : DOMAIN rates[c] = PayersOf(c)
      /\ \A c \in DOMAIN raters :
           /\ raters[c] \in [todo : SUBSET (1 .. Len(Payers[c])), at : {"get", "query", "cache"}]
           /\ raters[c].todo # {}
           /\ raters[c].at = "cache" => rates[c][Sought(c)] # None
      /\ sem = Cardinality(DOMAIN raters) =>
           \A c \in Passed : \A i \in 1 .. Len(Payers[c]) :
             rates[c][Payers[c][i]] # None \/ (c \in DOMAIN raters /\ i \in raters[c].todo)

\* The rows in the batch and those of the threads that write are different calls.
WritersInv ==
    pc \in {"write", "last"} =>
      /\ batch.rows \subseteq Passed
      /\ batch.rows # {} => batch.buffer
      /\ \A w \in writers : w.rows # {} /\ w.rows \subseteq Passed /\ w.rows \cap batch.rows = {}
      /\ \A v, w \in writers : v # w => v.rows \cap w.rows = {}

PricesInv ==
    pc \in {"write", "last"} =>
      \A c \in Range(list) : \A u \in PayersOf(c) : prices[c][u] \in Todays(u)

\* A thread that could not be created is waited for for ever.
Stuck == usem > Cardinality(writers)

HandInv ==
    /\ Range(list) \subseteq DOMAIN live \cup DOMAIN archived
    /\ \A c \in Unwritten \cap DOMAIN live : live[c] = read[c]
    /\ "moved" \notin mishaps /\ pc \in InRound => Unwritten \subseteq DOMAIN live

\* The price each call in hand has in the table.
Held == [c \in DOMAIN read |-> IF c \in Unwritten THEN read[c] ELSE prices[c]]

\* What diff holds of the round.
Due(u) == IF pc \in {"launch", "write"} THEN Cost(Held, u)
          ELSE IF pc = "last" THEN Cost(Held, u) - Cost(prices, u)
          ELSE 0

LedgerInv ==
    pc # "failed" /\ ~(pc = "write" /\ Stuck) /\ mishaps \cap {"refused", "moved"} = {} =>
      \A u \in Accounts : Worth(u) + diff[u] - Due(u) = FirstWorth(u)

CountedInv ==
    /\ counted \subseteq DOMAIN live \cup DOMAIN archived
    /\ \A c \in counted, d \in (DOMAIN live \cup Range(list)) \ counted : c < d

Ahead == {c \in counted \cap DOMAIN live : Wanted(c)}

RoundsLeft == IF pc \in InRound THEN rounds - 1 ELSE rounds

CoverInv ==
    pc # "failed" /\ ~(pc = "write" /\ Stuck)
    /\ mishaps \cap {"refused", "unread", "unordered"} = {} =>
      /\ \A c \in (counted \cap DOMAIN live) \ Unwritten :
           Wanted(c) \/ \A u \in PayersOf(c) : live[c][u] \in Todays(u)
      /\ \A c \in Range(list) : ~Wanted(c)
      /\ Cardinality(Ahead) <= RoundsLeft * Limit
      /\ pc = "done" => Ahead = {}

Shape == /\ TablesTyped /\ ControlTyped /\ ThreadsTyped
         /\ RestInv /\ RoundInv /\ RatersInv /\ WritersInv /\ PricesInv

RerateInv == Shape /\ HandInv /\ CountedInv /\ LedgerInv /\ CoverInv

-----------------------------------------------------------------------------
(***************************************************************************)
(* What a table of prices costs an account, as a sum over all calls.       *)
(***************************************************************************)
Term(p, u) == [c \in Calls |-> IF c \in DOMAIN p /\ u \in PayersOf(c) THEN p[c][u] ELSE 0]

LEMMA CostIsSum ==
  ASSUME NEW p, IsPriced(p), NEW u
  PROVE  Cost(p, u) = Sum(Term(p, u)) /\ Term(p, u) \in [Calls -> Int] /\ Cost(p, u) \in Int
<1> DEFINE D == {d \in DOMAIN p : u \in DOMAIN p[d]}
           f == [c \in D |-> p[c][u]]
<1>1. IsFiniteSet(Calls)
  BY RerateAssumption DEF RerateAssumption
<1>2. \A d \in DOMAIN p : d \in Calls /\ DOMAIN p[d] = PayersOf(d)
  BY DEF IsPriced
<1>3. \A d \in DOMAIN p : u \in PayersOf(d) => p[d][u] \in Int
  BY DEF IsPriced
<1>4. D \in SUBSET Calls /\ f \in [D -> Int]
  BY <1>2, <1>3
<1>5. Term(p, u) \in [Calls -> Int]
  BY <1>3 DEF Term
<1>6. /\ \A x \in D : f[x] = Term(p, u)[x]
      /\ \A x \in Calls \ D : Term(p, u)[x] = 0
  BY <1>2 DEF Term
<1>7. Cost(p, u) = Sum(f)
  BY DEF Cost, Sum
<1> HIDE DEF D, f
<1>8. Sum(f) = Sum(Term(p, u))
  BY <1>1, <1>4, <1>5, <1>6, SumOfPart
<1> QED
  BY <1>1, <1>5, <1>7, <1>8, SumTyped

LEMMA CostOfNothing ==
  ASSUME NEW p, DOMAIN p = {}, NEW u
  PROVE  Cost(p, u) = 0
<1>1. IsPriced(p)
  BY DEF IsPriced
<1>2. IsFiniteSet(Calls)
  BY RerateAssumption DEF RerateAssumption
<1>3. Cost(p, u) = Sum(Term(p, u)) /\ Term(p, u) \in [Calls -> Int]
  BY <1>1, CostIsSum
<1>4. \A c \in Calls : Term(p, u)[c] = 0
  BY DEF Term
<1> QED
  BY <1>2, <1>3, <1>4, SumOfNone

\* What the terms of two tables change by, the costs do.
LEMMA CostsMoveTogether ==
  ASSUME NEW p, NEW p2, NEW q, NEW q2, NEW u,
         IsPriced(p), IsPriced(p2), IsPriced(q), IsPriced(q2),
         \A c \in Calls : Term(p2, u)[c] - Term(p, u)[c] = Term(q2, u)[c] - Term(q, u)[c]
  PROVE  /\ Cost(p2, u) - Cost(p, u) = Cost(q2, u) - Cost(q, u)
         /\ Cost(p, u) \in Int /\ Cost(p2, u) \in Int /\ Cost(q, u) \in Int /\ Cost(q2, u) \in Int
<1>1. IsFiniteSet(Calls)
  BY RerateAssumption DEF RerateAssumption
<1>2. /\ Cost(p, u) = Sum(Term(p, u)) /\ Cost(p2, u) = Sum(Term(p2, u))
      /\ Cost(q, u) = Sum(Term(q, u)) /\ Cost(q2, u) = Sum(Term(q2, u))
  BY CostIsSum
<1>3. /\ Term(p, u) \in [Calls -> Int] /\ Term(p2, u) \in [Calls -> Int]
      /\ Term(q, u) \in [Calls -> Int] /\ Term(q2, u) \in [Calls -> Int]
  BY CostIsSum
<1>4. /\ Sum(Term(p2, u)) - Sum(Term(p, u)) = Sum(Term(q2, u)) - Sum(Term(q, u))
      /\ Sum(Term(p, u)) \in Int /\ Sum(Term(p2, u)) \in Int
      /\ Sum(Term(q, u)) \in Int /\ Sum(Term(q2, u)) \in Int
  BY <1>1, <1>3, SumsMoveTogether
<1> QED
  BY <1>2, <1>4

\* The cost changes with the one call whose price does.
LEMMA CostChanges ==
  ASSUME NEW p, NEW p2, NEW u, IsPriced(p), IsPriced(p2), NEW x \in Calls,
         \A c \in Calls \ {x} : Term(p2, u)[c] = Term(p, u)[c]
  PROVE  /\ Cost(p2, u) - Cost(p, u) = Term(p2, u)[x] - Term(p, u)[x]
         /\ Cost(p, u) \in Int /\ Cost(p2, u) \in Int
<1>1. IsFiniteSet(Calls)
  BY RerateAssumption DEF RerateAssumption
<1>2. /\ Cost(p, u) = Sum(Term(p, u)) /\ Cost(p2, u) = Sum(Term(p2, u))
      /\ Term(p, u) \in [Calls -> Int] /\ Term(p2, u) \in [Calls -> Int]
  BY CostIsSum
<1>3. /\ Sum(Term(p2, u)) - Sum(Term(p, u)) = Term(p2, u)[x] - Term(p, u)[x]
      /\ Sum(Term(p, u)) \in Int /\ Sum(Term(p2, u)) \in Int
  BY <1>1, <1>2, SumChanges
<1> QED
  BY <1>2, <1>3

\* The ledger in the next state.
LEMMA WorthNext ==
  ASSUME NEW u
  PROVE  /\ Worth(u)' = balance'[u] + Cost(live', u) + Cost(archived', u)
         /\ FirstWorth(u)' = FirstWorth(u)
BY DEF Worth, FirstWorth, Cost, FoldFunction, FoldFunctionOnSet, MapThenFoldSet

LEMMA DueNext ==
  ASSUME NEW u, NEW h, h = Held'
  PROVE  Due(u)' = IF pc' \in {"launch", "write"} THEN Cost(h, u)
                   ELSE IF pc' = "last" THEN Cost(h, u) - Cost(prices', u)
                   ELSE 0
BY DEF Due, Cost, FoldFunction, FoldFunctionOnSet, MapThenFoldSet

-----------------------------------------------------------------------------
(***************************************************************************)
(* The shape of a state: what has been read, and what the threads have in  *)
(* hand.                                                                   *)
(***************************************************************************)
LEMMA Payments ==
  ASSUME NEW c \in Calls
  PROVE  /\ PayersOf(c) \subseteq Accounts /\ Payers[c] \in Seq(PayersOf(c)) /\ c \in Nat
         /\ Kind[c] # None /\ \A u \in Accounts : Rate[u][Kind[c]] \in Int
         /\ \A u \in PayersOf(c) : \E i \in 1 .. Len(Payers[c]) : u = Payers[c][i]
<1>1. Payers[c] \in Seq(Accounts) /\ Calls \subseteq Nat /\ Kind[c] # "none"
      /\ \A u \in Accounts : Rate[u][Kind[c]] \in Int
  BY RerateAssumption DEF RerateAssumption
<1>2. PayersOf(c) = {Payers[c][i] : i \in 1 .. Len(Payers[c])}
  BY <1>1 DEF PayersOf, Range
<1> QED
  BY <1>1, <1>2 DEF None

LEMMA KindsPriced ==
  ASSUME NEW u \in Accounts, NEW k \in KindsOf(u)
  PROVE  k # None /\ Rate[u][k] \in Todays(u) /\ Rate[u][k] \in Int
BY Payments DEF KindsOf, Todays

LEMMA NoRowsPriced ==
  IsPriced(NoRows) /\ DOMAIN NoRows = {}
BY DEF IsPriced, NoRows

LEMMA NothingListed ==
  <<>> \in Seq(Calls) /\ IsInjective(<<>>) /\ Range(<<>>) = {} /\ Len(<<>>) = 0
BY DEF IsInjective, Range

LEMMA Listed ==
  ASSUME ControlTyped
  PROVE  /\ Range(list) = {list[i] : i \in 1 .. Len(list)} /\ Len(list) \in Nat
         /\ \A i, j \in 1 .. Len(list) : list[i] = list[j] => i = j
         /\ \A i \in 1 .. Len(list) : list[i] \in Calls
         /\ Range(list) \subseteq Calls /\ Passed \subseteq Range(list)
         /\ at <= Len(list) => list[at] \in Range(list) \ Passed
<1>1. Range(list) = {list[i] : i \in 1 .. Len(list)} /\ Len(list) \in Nat
  BY DEF ControlTyped, Range
<1>2. \A i, j \in 1 .. Len(list) : list[i] = list[j] => i = j
  BY DEF ControlTyped, IsInjective
<1>3. \A i \in 1 .. Len(list) : list[i] \in Calls
  BY DEF ControlTyped
<1>4. \A i \in 1 .. at - 1 : i \in 1 .. Len(list) /\ i # at
  BY <1>1 DEF ControlTyped
<1>5. at <= Len(list) => at \in 1 .. Len(list)
  BY <1>1 DEF ControlTyped
<1> QED
  BY <1>1, <1>2, <1>3, <1>4, <1>5 DEF Passed

LEMMA LeastCall ==
  ASSUME NEW S \in SUBSET Nat, S # {}
  PROVE  \E c \in S : \A d \in S : c <= d
<1>1. PICK m \in S : \A n \in S : ~(<<n, m>> \in OpToRel(<, Nat))
  BY WFMin, NatLessThanWellFounded
<1>2. \A n \in S : ~(n < m)
  BY <1>1 DEF OpToRel
<1> QED
  BY <1>2

LEMMA RoundsEnough ==
  ASSUME NEW n \in Nat
  PROVE  Rounds(n) \in Nat /\ n <= Rounds(n) * Limit
<1>1. Limit \in Nat \ {0}
  BY RerateAssumption DEF RerateAssumption
<1>2. \A l \in Nat \ {0} : ((n + l - 1) \div l) * l >= n /\ (n + l - 1) \div l \in Nat
  OBVIOUS
<1> QED
  BY <1>1, <1>2 DEF Rounds

LEMMA TablesKept ==
  ASSUME TablesTyped, UNCHANGED <<live, archived, balance, read, prices, diff>>
  PROVE  TablesTyped'
BY DEF TablesTyped, IsPriced

LEMMA CountShape ==
  ASSUME Shape, CountCalls
  PROVE  Shape'
<1> USE DEF Shape
<1>1. DOMAIN live \subseteq Calls /\ IsFiniteSet(Calls) /\ Calls \subseteq Nat
  BY RerateAssumption DEF RerateAssumption, TablesTyped, IsPriced
<1>2. Cardinality(DOMAIN live) \in Nat
  BY <1>1, FS_Subset, FS_CardinalityType
<1>3. Rounds(Cardinality(DOMAIN live)) \in Nat
  BY <1>2, RoundsEnough
<1>4. DOMAIN live # {} => (CHOOSE c \in DOMAIN live : \A d \in DOMAIN live : c <= d) \in Calls
  BY <1>1, LeastCall
<1>5. TablesTyped'
  BY TablesKept DEF CountCalls, db, round
<1>6. ControlTyped'
  <2>1. pc' \in {"done", "read"} /\ counted' = DOMAIN live /\ UNCHANGED <<first, list, at, mishaps>>
    BY DEF CountCalls, round
  <2>2. rounds' \in Nat /\ last' \in Int
    <3>1. CASE DOMAIN live = {}
      BY <3>1 DEF CountCalls, ControlTyped
    <3>2. CASE DOMAIN live # {}
      <4>1. last' \in Calls
        BY <1>4, <3>2 DEF CountCalls
      <4>2. rounds' = Rounds(Cardinality(DOMAIN live))
        BY <3>2 DEF CountCalls
      <4> QED
        BY <1>1, <1>3, <4>1, <4>2
    <3> QED
      BY <3>1, <3>2
  <2> QED
    BY <1>1, <2>1, <2>2 DEF ControlTyped, Stages, Ended
<1>7. ThreadsTyped'
  BY DEF CountCalls, ThreadsTyped, threads, round, KindsOf, PayersOf
<1>8. RestInv'
  BY DEF CountCalls, RestInv, threads, round
<1>9. pc' \notin InRound
  BY DEF CountCalls, InRound
<1> QED
  BY <1>5, <1>6, <1>7, <1>8, <1>9 DEF RoundInv, RatersInv, WritersInv, PricesInv, InRound

\* A query that returns rows, with the prices p they had.
Taken(rows, p) ==
    /\ p = [c \in Range(rows) |-> live[c]]
    /\ list' = rows /\ read' = p
    /\ diff' = [u \in Accounts |-> diff[u] + Cost(p, u)]
    /\ mishaps' = IF rows = RowsById THEN mishaps ELSE mishaps \cup {"unordered"}
    /\ IF rows = <<>>
         THEN /\ last' = last + Limit /\ rounds' = rounds - 1
              /\ UNCHANGED <<pc, rates, prices>>
         ELSE /\ last' = rows[Len(rows)] /\ UNCHANGED rounds
              /\ pc' = "launch"
              /\ rates' = [c \in Range(rows) |-> [u \in PayersOf(c) |-> None]]
              /\ prices' = p

LEMMA RowsTaken ==
  ASSUME ReadCalls
  PROVE  \E rows \in {RowsById, RowsByDate} : \E p : Taken(rows, p)
<1>1. PICK rows \in {RowsById, RowsByDate} : Taken(rows, [c \in Range(rows) |-> live[c]])
  BY DEF ReadCalls, Taken
<1> QED
  BY <1>1

LEMMA ReadShape ==
  ASSUME Shape, ReadCalls
  PROVE  Shape'
<1>1. pc = "read" /\ rounds > 0 /\ first' = FALSE /\ at' = 1
      /\ UNCHANGED <<live, archived, balance, cache, raters, sem, batch, writers, usem, counted>>
  BY DEF ReadCalls, db, threads
<1>2. list = <<>> /\ DOMAIN raters = {} /\ sem = 0 /\ usem = 0 /\ batch.rows = {} /\ writers = {}
  BY <1>1 DEF Shape, RestInv
<1>3. /\ TablesTyped /\ ControlTyped /\ ThreadsTyped
      /\ DOMAIN live \subseteq Calls /\ Calls \subseteq Nat /\ Limit \in Nat
  BY RerateAssumption DEF Shape, TablesTyped, IsPriced, RerateAssumption
<1>rows. PICK rows \in {RowsById, RowsByDate} : \E p : Taken(rows, p)
  BY RowsTaken
<1>p. PICK p : Taken(rows, p)
  BY <1>rows
<1>4. /\ p = [c \in Range(rows) |-> live[c]]
      /\ list' = rows /\ read' = p
      /\ diff' = [u \in Accounts |-> diff[u] + Cost(p, u)]
      /\ mishaps' = IF rows = RowsById THEN mishaps ELSE mishaps \cup {"unordered"}
      /\ \/ /\ rows = <<>>
            /\ last' = last + Limit /\ rounds' = rounds - 1
            /\ UNCHANGED <<pc, rates, prices>>
         \/ /\ rows # <<>>
            /\ last' = rows[Len(rows)] /\ UNCHANGED rounds
            /\ pc' = "launch"
            /\ rates' = [c \in Range(rows) |-> [u \in PayersOf(c) |-> None]]
            /\ prices' = p
  BY <1>p DEF Taken
<1>5. /\ rows \in Seq(Calls) /\ IsInjective(rows) /\ Range(rows) \subseteq DOMAIN live
  <2>1. rows \in Seq(Calls) /\ IsInjective(rows) /\ Range(rows) \subseteq Matching
    BY <1>3, RowsRead
  <2> QED
    BY <2>1 DEF Matching
<1>6. IsPriced(p) /\ DOMAIN p = Range(rows)
  BY <1>3, <1>4, <1>5 DEF TablesTyped, IsPriced
<1>7. TablesTyped'
  <2>1. diff' \in [Accounts -> Int]
    <3>1. \A u \in Accounts : Cost(p, u) \in Int
      BY <1>6, CostIsSum
    <3>2. \A u \in Accounts : diff[u] \in Int
      BY <1>3 DEF TablesTyped
    <3> QED
      BY <1>4, <3>1, <3>2
  <2>2. prices' = p \/ prices' = prices
    BY <1>4
  <2>3. /\ IsPriced(live') /\ IsPriced(archived') /\ IsPriced(read') /\ IsPriced(prices')
        /\ balance' \in [Accounts -> Int]
    BY <1>1, <1>3, <1>4, <1>6, <2>2 DEF TablesTyped
  <2> QED
    BY <2>1, <2>3 DEF TablesTyped, IsPriced
<1>8. ControlTyped'
  <2>1. pc' \in {"read", "launch"} /\ counted' \subseteq Calls /\ mishaps' \subseteq Mishaps
    BY <1>1, <1>3, <1>4 DEF ControlTyped, Mishaps
  <2>2. rounds' \in Nat /\ last' \in Int
    <3>1. CASE rows = <<>>
      BY <1>1, <1>3, <1>4, <3>1 DEF ControlTyped
    <3>2. CASE rows # <<>>
      <4>1. rows[Len(rows)] \in Calls
        BY <1>5, <3>2
      <4>2. last' = rows[Len(rows)] /\ rounds' = rounds
        BY <1>4, <3>2
      <4>3. rounds \in Nat
        BY <1>3 DEF ControlTyped
      <4>4. last' \in Nat
        BY <1>3, <4>1, <4>2
      <4> QED
        BY <4>2, <4>3, <4>4
    <3> QED
      BY <3>1, <3>2
  <2>3. list' \in Seq(Calls) /\ IsInjective(list') /\ at' \in 1 .. Len(list') + 1
    BY <1>1, <1>4, <1>5
  <2> QED
    BY <1>1, <2>1, <2>2, <2>3 DEF ControlTyped, Stages, InRound, IsInjective
<1>9. ThreadsTyped'
  BY <1>1, <1>3 DEF ThreadsTyped, KindsOf, PayersOf
<1>10. CASE rows = <<>>
  <2>1. pc' = "read" /\ list' = <<>>
    BY <1>1, <1>4, <1>10
  <2>2. RestInv'
    BY <1>1, <1>2, <2>1 DEF RestInv
  <2> QED
    BY <1>7, <1>8, <1>9, <2>1, <2>2
       DEF Shape, RoundInv, RatersInv, WritersInv, PricesInv, InRound
<1>11. CASE rows # <<>>
  <2>1. pc' = "launch" /\ list' = rows /\ UNCHANGED rounds /\ prices' = read'
        /\ DOMAIN rates' = Range(rows)
        /\ \A c \in Range(rows) : rates'[c] = [u \in PayersOf(c) |-> None]
    BY <1>4, <1>11
  <2>2. RestInv'
    BY <1>1, <1>2, <2>1 DEF RestInv
  <2>3. RoundInv'
    BY <1>1, <1>2, <1>4, <1>6, <2>1 DEF RoundInv, Range
  <2>4. Passed' = {}
    BY <1>1 DEF Passed
  <2>5. \A c \in Range(rows) : /\ DOMAIN rates'[c] = PayersOf(c)
                               /\ \A u \in PayersOf(c) : rates'[c][u] = None
    BY <2>1
  <2>6. DOMAIN raters' = {} /\ sem' = 0 /\ Cardinality(DOMAIN raters') <= sem'
    BY <1>1, <1>2, FS_EmptySet
  <2>7. RatersInv'
    BY <2>1, <2>4, <2>5, <2>6 DEF RatersInv, Range, PayersOf
  <2> QED
    BY <1>7, <1>8, <1>9, <2>1, <2>2, <2>3, <2>7 DEF Shape, WritersInv, PricesInv
<1> QED
  BY <1>4, <1>10, <1>11

LEMMA ReadFailsShape ==
  ASSUME Shape, ReadFails
  PROVE  Shape'
<1>1. /\ pc = "read" /\ rounds > 0 /\ rounds' = rounds - 1 /\ first' = FALSE
      /\ mishaps' = mishaps \cup {"unread"} /\ UNCHANGED counted
      /\ UNCHANGED <<live, archived, balance, pc, list, at, rates, prices, read, batch,
                     cache, raters, sem, writers, usem, last, diff>>
  BY DEF ReadFails, Event, db, round, threads
<1>2. TablesTyped'
  BY <1>1, TablesKept DEF Shape
<1>3. ControlTyped'
  <2>1. rounds' \in Nat /\ mishaps' \subseteq Mishaps
    BY <1>1 DEF Shape, ControlTyped, Mishaps
  <2> QED
    BY <1>1, <2>1 DEF Shape, ControlTyped, Stages
<1>4. ThreadsTyped'
  BY <1>1 DEF Shape, ThreadsTyped, KindsOf, PayersOf
<1>5. RestInv'
  BY <1>1 DEF Shape, RestInv
<1> QED
  BY <1>1, <1>2, <1>3, <1>4, <1>5
     DEF Shape, RoundInv, RatersInv, WritersInv, PricesInv, InRound


\* What the prices of a round are made of does not change between its ends.
LEMMA NextPassed ==
  ASSUME ControlTyped, at <= Len(list), at' = at + 1, list' = list
  PROVE  Passed' = Passed \cup {list[at]} /\ at' \in 1 .. Len(list') + 1
<1>1. Len(list) \in Nat /\ at \in 1 .. Len(list)
  BY DEF ControlTyped
<1>2. 1 .. at' - 1 = (1 .. at - 1) \cup {at}
  BY <1>1
<1> QED
  BY <1>1, <1>2 DEF Passed

LEMMA ThreadsOf ==
  ASSUME Shape, pc = "launch"
  PROVE  /\ DOMAIN raters \subseteq Calls /\ IsFiniteSet(DOMAIN raters)
         /\ Cardinality(DOMAIN raters) \in Nat /\ DOMAIN raters \subseteq Range(list)
<1>1. DOMAIN raters \subseteq Passed /\ Passed \subseteq Range(list) /\ Range(list) \subseteq Calls
  BY Listed DEF Shape, RatersInv
<1>2. IsFiniteSet(Calls)
  BY RerateAssumption DEF RerateAssumption
<1> QED
  BY <1>1, <1>2, FS_Subset, FS_CardinalityType

LEMMA LaunchShape ==
  ASSUME Shape, NEW b \in BOOLEAN, Launch(b), counted' = counted, mishaps' \subseteq Mishaps
  PROVE  Shape'
<1> DEFINE c == list[at]
           todo == {i \in 1 .. Len(Payers[c]) : cache[Payers[c][i]] = None}
<1>1. /\ pc = "launch" /\ at <= Len(list) /\ at' = at + 1
      /\ rates' = [rates EXCEPT ![c] = [u \in PayersOf(c) |-> cache[u]]]
      /\ sem' = IF todo = {} THEN sem ELSE sem + 1
      /\ b \/ todo # {}
      /\ raters' = IF todo = {} \/ ~b THEN raters
                   ELSE [d \in DOMAIN raters \cup {c} |->
                           IF d = c THEN [todo |-> todo, at |-> "get"] ELSE raters[d]]
      /\ UNCHANGED <<live, archived, balance, pc, list, prices, read, batch, cache, writers, usem,
                     rounds, last, first, diff>>
  BY DEF Launch, db, control
<1>2. TablesTyped /\ ControlTyped /\ ThreadsTyped /\ RoundInv /\ RatersInv /\ RestInv
  BY DEF Shape
<1>3. c \in Range(list) /\ c \notin Passed /\ Range(list) \subseteq Calls /\ c \in Calls
      /\ Passed' = Passed \cup {c} /\ Passed \subseteq Range(list)
  BY <1>1, <1>2, Listed, NextPassed
<1>4. \A u \in PayersOf(c) : u \in Accounts /\ (cache[u] = None \/ cache[u] \in KindsOf(u))
  BY <1>2, <1>3, Payments DEF ThreadsTyped
<1>5. todo \subseteq 1 .. Len(Payers[c])
  OBVIOUS
<1>6. \A i \in 1 .. Len(Payers[c]) : i \in todo \/ cache[Payers[c][i]] # None
  OBVIOUS
<1>7. \A i \in 1 .. Len(Payers[c]) : Payers[c][i] \in PayersOf(c)
  BY <1>3, Payments
<1> HIDE DEF c, todo
<1>8. TablesTyped'
  BY <1>1, <1>2, TablesKept
<1>9. ControlTyped'
  <2>1. at' \in 1 .. Len(list') + 1
    BY <1>1, <1>2, NextPassed
  <2> QED
    BY <1>1, <1>2, <2>1 DEF ControlTyped
<1>10. ThreadsTyped'
  <2>1. sem' \in Nat
    BY <1>1, <1>2 DEF ThreadsTyped
  <2> QED
    BY <1>1, <1>2, <2>1 DEF ThreadsTyped, KindsOf, PayersOf
<1>11. RestInv'
  BY <1>1, <1>2 DEF RestInv
<1>12. DOMAIN rates = Range(list) /\ DOMAIN prices = Range(list) /\ DOMAIN read = Range(list)
       /\ prices = read /\ usem = 0 /\ batch.rows = {} /\ rounds > 0
  BY <1>1, <1>2 DEF RoundInv, InRound
<1>13. RoundInv'
  <2>1. Range(list)' = Range(list)
    BY <1>1 DEF Range
  <2> QED
    BY <1>1, <1>12, <2>1 DEF RoundInv
<1>14. /\ IsFiniteSet(DOMAIN raters) /\ Cardinality(DOMAIN raters) \in Nat
       /\ DOMAIN raters \subseteq Passed /\ Cardinality(DOMAIN raters) <= sem /\ sem \in Nat
       /\ c \notin DOMAIN raters
  BY <1>1, <1>2, <1>3, ThreadsOf DEF RatersInv, ThreadsTyped
<1>15. /\ rates'[c] = [u \in PayersOf(c) |-> cache[u]]
       /\ \A d \in Range(list) \ {c} : rates'[d] = rates[d]
  BY <1>1, <1>3, <1>12
<1>16. /\ \A d \in DOMAIN raters : raters'[d] = raters[d] /\ Sought(d)' = Sought(d)
       /\ (todo = {} \/ ~b) => DOMAIN raters' = DOMAIN raters
       /\ ~(todo = {} \/ ~b) => /\ DOMAIN raters' = DOMAIN raters \cup {c}
                                /\ raters'[c] = [todo |-> todo, at |-> "get"]
  <2>1. \A d \in DOMAIN raters : raters'[d] = raters[d]
    BY <1>1, <1>14
  <2>2. \A d \in DOMAIN raters : Sought(d)' = Sought(d)
    BY <2>1 DEF Sought
  <2> QED
    BY <1>1, <2>1, <2>2
<1>17. \A d \in Range(list) : \A u \in PayersOf(d) :
           rates'[d][u] = None \/ rates'[d][u] \in KindsOf(u)
  <2>1. \A d \in Range(list) \ {c} : \A u \in PayersOf(d) :
           rates[d][u] = None \/ rates[d][u] \in KindsOf(u)
    BY <1>1, <1>2 DEF RatersInv
  <2> QED
    BY <1>4, <1>15, <2>1
<1>18. \A d \in Range(list) : DOMAIN rates'[d] = PayersOf(d)
  <2>1. \A d \in Range(list) \ {c} : DOMAIN rates[d] = PayersOf(d)
    BY <1>1, <1>2 DEF RatersInv
  <2> QED
    BY <1>15, <2>1
<1>19. \A d \in DOMAIN raters' :
           /\ raters'[d] \in [todo : SUBSET (1 .. Len(Payers[d])), at : {"get", "query", "cache"}]
           /\ raters'[d].todo # {}
           /\ raters'[d].at = "cache" => rates'[d][Sought(d)'] # None
  <2>1. \A d \in DOMAIN raters :
           /\ raters[d] \in [todo : SUBSET (1 .. Len(Payers[d])), at : {"get", "query", "cache"}]
           /\ raters[d].todo # {}
           /\ raters[d].at = "cache" => rates[d][Sought(d)] # None
    BY <1>1, <1>2 DEF RatersInv
  <2>2. \A d \in DOMAIN raters : rates'[d] = rates[d]
    BY <1>3, <1>14, <1>15
  <2>3. ASSUME NEW d \in DOMAIN raters
        PROVE  /\ raters'[d] \in [todo : SUBSET (1 .. Len(Payers[d])), at : {"get", "query", "cache"}]
               /\ raters'[d].todo # {}
               /\ raters'[d].at = "cache" => rates'[d][Sought(d)'] # None
    BY <1>16, <2>1, <2>2
  <2>4. ASSUME ~(todo = {} \/ ~b)
        PROVE  /\ raters'[c] \in [todo : SUBSET (1 .. Len(Payers[c])), at : {"get", "query", "cache"}]
               /\ raters'[c].todo # {} /\ raters'[c].at # "cache"
    <3>1. raters'[c] = [todo |-> todo, at |-> "get"] /\ todo # {}
      BY <1>16, <2>4
    <3>2. todo \in SUBSET (1 .. Len(Payers[c]))
      BY <1>5
    <3>3. raters'[c].todo = todo /\ raters'[c].at = "get"
      BY <3>1
    <3> QED
      BY <3>1, <3>2, <3>3
  <2> QED
    BY <1>16, <2>3, <2>4
<1>20. Cardinality(DOMAIN raters') <= sem'
       /\ (sem' = Cardinality(DOMAIN raters') => sem = Cardinality(DOMAIN raters) /\ (b \/ todo = {}))
  <2>1. CASE todo = {} \/ ~b
    BY <1>1, <1>14, <1>16, <2>1
  <2>2. CASE ~(todo = {} \/ ~b)
    <3>1. Cardinality(DOMAIN raters') = Cardinality(DOMAIN raters) + 1
      BY <1>14, <1>16, <2>2, FS_AddElement
    <3> QED
      BY <1>1, <1>14, <2>2, <3>1
  <2> QED
    BY <2>1, <2>2
<1>21. ASSUME sem' = Cardinality(DOMAIN raters'), NEW d \in Passed', NEW i \in 1 .. Len(Payers[d])
       PROVE  rates'[d][Payers[d][i]] # None \/ (d \in DOMAIN raters' /\ i \in raters'[d].todo)
  <2>1. CASE d = c
    BY <1>6, <1>7, <1>15, <1>16, <1>20, <1>21, <2>1
  <2>2. CASE d # c
    <3>1. d \in Passed /\ d \in Range(list)
      BY <1>3, <1>21, <2>2
    <3>2. rates[d][Payers[d][i]] # None \/ (d \in DOMAIN raters /\ i \in raters[d].todo)
      BY <1>1, <1>2, <1>20, <1>21, <3>1 DEF RatersInv
    <3> QED
      BY <1>15, <1>16, <2>2, <3>1, <3>2
  <2> QED
    BY <2>1, <2>2
<1>22. RatersInv'
  <2>1. DOMAIN raters' \subseteq Passed'
    BY <1>3, <1>14, <1>16
  <2>2. Range(list') = Range(list)
    BY <1>1
  <2> QED
    BY <1>17, <1>18, <1>19, <1>20, <1>21, <2>1, <2>2 DEF RatersInv, Range, PayersOf, KindsOf
<1>23. WritersInv' /\ PricesInv'
  BY <1>1 DEF WritersInv, PricesInv
<1> QED
  BY <1>8, <1>9, <1>10, <1>11, <1>13, <1>22, <1>23 DEF Shape

LEMMA BarrierShape ==
  ASSUME Shape, Barrier
  PROVE  Shape'
<1>1. /\ pc = "launch" /\ at > Len(list) /\ sem = 0
      /\ prices' = [c \in DOMAIN rates |-> [u \in PayersOf(c) |->
                     IF rates[c][u] = None THEN 0 ELSE Rate[u][rates[c][u]]]]
      /\ pc' = "write" /\ at' = 1
      /\ UNCHANGED <<live, archived, balance, list, rates, read, batch, cache, raters, sem, writers,
                     usem, rounds, last, first, diff, counted, mishaps>>
  BY DEF Barrier, Priced, db, threads, control, history
<1>2. TablesTyped /\ ControlTyped /\ ThreadsTyped /\ RoundInv /\ RatersInv /\ RestInv
  BY DEF Shape
<1>3. /\ DOMAIN rates = Range(list) /\ DOMAIN prices = Range(list) /\ DOMAIN read = Range(list)
      /\ usem = 0 /\ batch.rows = {} /\ rounds > 0 /\ writers = {}
  BY <1>1, <1>2 DEF RoundInv, RestInv, InRound
<1>4. /\ Range(list) = {list[i] : i \in 1 .. Len(list)} /\ Len(list) \in Nat
      /\ Range(list) \subseteq Calls /\ Passed = Range(list)
  <2>1. Range(list) = {list[i] : i \in 1 .. Len(list)} /\ Len(list) \in Nat /\ Range(list) \subseteq Calls
    BY <1>2, Listed
  <2>2. 1 .. at - 1 = 1 .. Len(list)
    BY <1>1, <1>2, <2>1 DEF ControlTyped
  <2> QED
    BY <2>1, <2>2 DEF Passed
<1>5. DOMAIN raters = {} /\ sem = Cardinality(DOMAIN raters)
  <2>1. IsFiniteSet(DOMAIN raters) /\ Cardinality(DOMAIN raters) \in Nat
    BY <1>1, ThreadsOf
  <2>2. Cardinality(DOMAIN raters) <= sem
    BY <1>1, <1>2 DEF RatersInv
  <2>3. Cardinality(DOMAIN raters) = 0
    BY <1>1, <2>1, <2>2
  <2> QED
    BY <1>1, <2>1, <2>3, FS_EmptySet
<1>6. ASSUME NEW c \in Range(list), NEW u \in PayersOf(c)
      PROVE  rates[c][u] # None /\ rates[c][u] \in KindsOf(u) /\ u \in Accounts
  <2>1. c \in Calls /\ c \in Passed
    BY <1>4
  <2>2. u \in Accounts /\ \E i \in 1 .. Len(Payers[c]) : u = Payers[c][i]
    BY <2>1, Payments
  <2>3. \A i \in 1 .. Len(Payers[c]) : rates[c][Payers[c][i]] # None
    BY <1>1, <1>2, <1>5, <2>1 DEF RatersInv
  <2>4. rates[c][u] = None \/ rates[c][u] \in KindsOf(u)
    BY <1>1, <1>2 DEF RatersInv
  <2> QED
    BY <2>2, <2>3, <2>4
<1>7. ASSUME NEW c \in Range(list)
      PROVE  /\ prices'[c] = [u \in PayersOf(c) |-> Rate[u][rates[c][u]]]
             /\ \A u \in PayersOf(c) : prices'[c][u] \in Todays(u) /\ prices'[c][u] \in Int
  <2>1. prices'[c] = [u \in PayersOf(c) |-> Rate[u][rates[c][u]]]
    BY <1>1, <1>3, <1>6
  <2>2. \A u \in PayersOf(c) : Rate[u][rates[c][u]] \in Todays(u) /\ Rate[u][rates[c][u]] \in Int
    BY <1>6, KindsPriced
  <2> QED
    BY <2>1, <2>2
<1>8. IsPriced(prices') /\ DOMAIN prices' = Range(list)
  <2>1. DOMAIN prices' = Range(list)
    BY <1>1, <1>3
  <2>2. \A c \in Range(list) : prices'[c] \in [PayersOf(c) -> Int]
    <3> TAKE c \in Range(list)
    <3>1. prices'[c] = [u \in PayersOf(c) |-> prices'[c][u]]
      BY <1>7
    <3> QED
      BY <1>7, <3>1
  <2> QED
    BY <1>4, <2>1, <2>2 DEF IsPriced
<1>9. TablesTyped'
  BY <1>1, <1>2, <1>8 DEF TablesTyped, IsPriced
<1>10. ControlTyped'
  <2>1. at' \in 1 .. Len(list') + 1
    BY <1>1, <1>4
  <2> QED
    BY <1>1, <1>2, <2>1 DEF ControlTyped, Stages, InRound
<1>11. ThreadsTyped'
  BY <1>1, <1>2 DEF ThreadsTyped, KindsOf, PayersOf
<1>12. RestInv'
  BY <1>1, <1>3, <1>5 DEF RestInv
<1>13. RoundInv'
  <2>1. Range(list)' = Range(list)
    BY <1>1 DEF Range
  <2> QED
    BY <1>1, <1>3, <1>8, <2>1 DEF RoundInv
<1>14. WritersInv'
  <2>1. batch'.rows = {} /\ writers' = {}
    BY <1>1, <1>3
  <2> QED
    BY <2>1 DEF WritersInv
<1>15. PricesInv'
  <2>1. Range(list') = Range(list)
    BY <1>1
  <2>2. \A c \in Range(list') : \A u \in PayersOf(c) : prices'[c][u] \in Todays(u)
    BY <1>7, <2>1
  <2> QED
    BY <2>2 DEF PricesInv, Range, PayersOf, Todays
<1> QED
  BY <1>1, <1>9, <1>10, <1>11, <1>12, <1>13, <1>14, <1>15 DEF Shape, RatersInv

\* What threads the rows of which are different make of a set.
LEMMA WritersFinite ==
  ASSUME ThreadsTyped
  PROVE  Cardinality(writers) \in Nat /\ usem \in Nat /\ IsFiniteSet(writers)
BY FS_CardinalityType DEF ThreadsTyped

LEMMA RowShape ==
  ASSUME Shape, NEW b \in BOOLEAN, WriteRow(b), counted' = counted, mishaps' \subseteq Mishaps
  PROVE  Shape'
<1> DEFINE c == list[at]
           rows == batch.rows \cup (IF NeedsUpdate(c) THEN {c} ELSE {})
           full == Cardinality(rows) = BatchSize
           new == [rows |-> rows, at |-> "get"]
<1>1. /\ pc = "write" /\ at <= Len(list) /\ at' = at + 1
      /\ batch' = IF full THEN [rows |-> {}, buffer |-> FALSE]
                  ELSE [rows |-> rows, buffer |-> batch.buffer \/ NeedsUpdate(c)]
      /\ usem' = IF full THEN usem + 1 ELSE usem
      /\ writers' = IF full /\ b THEN writers \cup {new} ELSE writers
      /\ UNCHANGED <<live, archived, balance, pc, list, rates, prices, read, cache, raters, sem,
                     rounds, last, first, diff>>
  BY DEF WriteRow, db, control
<1>2. TablesTyped /\ ControlTyped /\ ThreadsTyped /\ RoundInv /\ RestInv /\ WritersInv /\ PricesInv
  BY DEF Shape
<1>3. c \in Range(list) /\ c \notin Passed /\ Range(list) \subseteq Calls /\ c \in Calls
      /\ Passed' = Passed \cup {c} /\ Passed \subseteq Range(list)
  BY <1>1, <1>2, Listed, NextPassed
<1>4. /\ batch.rows \subseteq Passed /\ (batch.rows # {} => batch.buffer) /\ batch.buffer \in BOOLEAN
      /\ \A w \in writers : w.rows # {} /\ w.rows \subseteq Passed /\ w.rows \cap batch.rows = {}
      /\ \A v, w \in writers : v # w => v.rows \cap w.rows = {}
  BY <1>1, <1>2 DEF WritersInv, ThreadsTyped
<1>5. rows \subseteq Passed' /\ rows \subseteq Calls /\ \A w \in writers : w.rows \cap rows = {}
  BY <1>3, <1>4
<1>6. rows # {} => batch.buffer \/ NeedsUpdate(c)
  BY <1>4
<1>7. full => rows # {}
  <2>1. BatchSize # 0
    BY RerateAssumption DEF RerateAssumption
  <2>2. Cardinality({}) = 0
    BY FS_EmptySet
  <2> HIDE DEF rows
  <2> QED
    BY <2>1, <2>2
<1>8. NeedsUpdate(c) \in BOOLEAN
  BY DEF NeedsUpdate
<1> HIDE DEF c, rows, full
<1>9. TablesTyped'
  BY <1>1, <1>2, TablesKept
<1>10. ControlTyped'
  <2>1. at' \in 1 .. Len(list') + 1
    BY <1>1, <1>2, NextPassed
  <2> QED
    BY <1>1, <1>2, <2>1 DEF ControlTyped
<1>11. full /\ b => /\ new \notin writers /\ Cardinality(writers') = Cardinality(writers) + 1
                    /\ IsFiniteSet(writers')
  <2>1. full => new \notin writers
    BY <1>5, <1>7
  <2>2. IsFiniteSet(writers)
    BY <1>2, WritersFinite
  <2> HIDE DEF new
  <2> QED
    BY <1>1, <2>1, <2>2, FS_AddElement
<1>12. /\ writers' \subseteq [rows : SUBSET Calls, at : {"get", "query"}]
       /\ batch' \in [rows : SUBSET Calls, buffer : BOOLEAN]
  <2>1. new \in [rows : SUBSET Calls, at : {"get", "query"}]
    BY <1>5
  <2>2. writers \subseteq [rows : SUBSET Calls, at : {"get", "query"}]
    BY <1>2 DEF ThreadsTyped
  <2> HIDE DEF new
  <2>3. writers' \subseteq [rows : SUBSET Calls, at : {"get", "query"}]
    BY <1>1, <2>1, <2>2
  <2>4. batch' \in [rows : SUBSET Calls, buffer : BOOLEAN]
    BY <1>1, <1>4, <1>5, <1>8
  <2> QED
    BY <2>3, <2>4
<1>13. usem' \in Nat /\ IsFiniteSet(writers') /\ Cardinality(writers') <= usem'
  <2>1. /\ usem \in Nat /\ IsFiniteSet(writers) /\ Cardinality(writers) \in Nat
        /\ Cardinality(writers) <= usem
    BY <1>2, WritersFinite DEF ThreadsTyped
  <2>2. CASE full /\ b
    BY <1>1, <1>11, <2>1, <2>2
  <2>3. CASE ~(full /\ b)
    BY <1>1, <2>1, <2>3
  <2> QED
    BY <2>2, <2>3
<1>14. ThreadsTyped'
  BY <1>1, <1>2, <1>12, <1>13 DEF ThreadsTyped, KindsOf, PayersOf
<1>15. RestInv'
  BY <1>1, <1>2 DEF RestInv
<1>16. RoundInv'
  <2>1. Range(list)' = Range(list)
    BY <1>1 DEF Range
  <2> QED
    BY <1>1, <1>2, <2>1 DEF RoundInv, InRound
<1>17. WritersInv'
  <2>1. batch'.rows \subseteq rows /\ (batch'.rows # {} => batch'.buffer) /\ (full => batch'.rows = {})
    BY <1>1, <1>6
  <2>2. \A w \in writers' : w \in writers \/ (full /\ w = new)
    BY <1>1
  <2>3. \A w \in writers' : w.rows # {} /\ w.rows \subseteq Passed' /\ w.rows \cap batch'.rows = {}
    BY <1>3, <1>4, <1>5, <1>7, <2>1, <2>2
  <2>4. \A v, w \in writers' : v # w => v.rows \cap w.rows = {}
    BY <1>4, <1>5, <2>2
  <2> QED
    BY <1>5, <2>1, <2>3, <2>4 DEF WritersInv
<1>18. PricesInv'
  BY <1>1, <1>2 DEF PricesInv, Range, PayersOf, Todays
<1> QED
  BY <1>1, <1>9, <1>10, <1>14, <1>15, <1>16, <1>17, <1>18 DEF Shape, RatersInv

LEMMA SumShape ==
  ASSUME Shape, SumPrices
  PROVE  Shape'
<1>1. /\ pc = "write" /\ at > Len(list) /\ usem = 0 /\ pc' = "last"
      /\ diff' = [u \in Accounts |-> diff[u] - Cost(prices, u)]
      /\ UNCHANGED <<live, archived, balance, list, at, rates, prices, read, batch, cache, raters, sem,
                     writers, usem, rounds, last, first, counted, mishaps>>
  BY DEF SumPrices, db, round, threads, history
<1>2. TablesTyped /\ ControlTyped /\ ThreadsTyped /\ RoundInv /\ RestInv /\ WritersInv /\ PricesInv
  BY DEF Shape
<1>3. writers = {}
  <2>1. Cardinality(writers) = 0 /\ IsFiniteSet(writers)
    BY <1>1, <1>2, WritersFinite DEF ThreadsTyped
  <2> QED
    BY <2>1, FS_EmptySet
<1>4. TablesTyped'
  <2>1. \A u \in Accounts : diff[u] \in Int /\ Cost(prices, u) \in Int
    BY <1>2, CostIsSum DEF TablesTyped
  <2>2. diff' \in [Accounts -> Int]
    BY <1>1, <2>1
  <2> QED
    BY <1>1, <1>2, <2>2 DEF TablesTyped, IsPriced
<1>5. ControlTyped'
  BY <1>1, <1>2 DEF ControlTyped, Stages, InRound
<1>6. ThreadsTyped'
  BY <1>1, <1>2 DEF ThreadsTyped, KindsOf, PayersOf
<1>7. RestInv'
  BY <1>1, <1>2, <1>3 DEF RestInv
<1>8. RoundInv'
  <2>1. Range(list)' = Range(list) /\ Len(list') = Len(list)
    BY <1>1 DEF Range
  <2> QED
    BY <1>1, <1>2, <2>1 DEF RoundInv, InRound
<1>9. WritersInv'
  BY <1>1, <1>2 DEF WritersInv, Passed
<1>10. PricesInv'
  BY <1>1, <1>2 DEF PricesInv, Range, PayersOf, Todays
<1> QED
  BY <1>1, <1>4, <1>5, <1>6, <1>7, <1>8, <1>9, <1>10 DEF Shape, RatersInv

\* The rows written have prices.
LEMMA Written ==
  ASSUME TablesTyped, NEW rows, rows \subseteq DOMAIN prices, Write(rows)
  PROVE  /\ IsPriced(live') /\ DOMAIN live' = DOMAIN live \cup rows
         /\ \A c \in rows : live'[c] = prices[c]
         /\ \A c \in DOMAIN live \ rows : live'[c] = live[c]
BY DEF TablesTyped, IsPriced, Write

LEMMA NextRoundShape ==
  ASSUME Shape, pc = "last", NextRound, IsPriced(live'), counted' = counted, mishaps' \subseteq Mishaps,
         UNCHANGED <<archived, balance, cache, raters, writers, last, first, diff>>
  PROVE  Shape'
<1>1. /\ pc' = "read" /\ rounds' = rounds - 1 /\ list' = <<>> /\ at' = 1
      /\ rates' = NoRows /\ prices' = NoRows /\ read' = NoRows
      /\ batch' = [rows |-> {}, buffer |-> FALSE] /\ sem' = 0 /\ usem' = 0
  BY DEF NextRound
<1>2. TablesTyped /\ ControlTyped /\ ThreadsTyped /\ RoundInv /\ RestInv
  BY DEF Shape
<1>3. writers = {} /\ DOMAIN raters = {} /\ rounds > 0
  BY <1>2 DEF RestInv, RoundInv, InRound
<1>4. TablesTyped'
  <2>1. IsPriced(read') /\ IsPriced(prices')
    BY <1>1, NoRowsPriced
  <2>2. IsPriced(live)' /\ IsPriced(read)' /\ IsPriced(prices)'
    BY <2>1 DEF IsPriced, PayersOf, Range
  <2>3. IsPriced(archived)'
    BY <1>2 DEF TablesTyped, IsPriced, PayersOf, Range
  <2> QED
    BY <1>2, <2>2, <2>3 DEF TablesTyped
<1>5. ControlTyped'
  <2>1. list' \in Seq(Calls) /\ IsInjective(list') /\ at' \in 1 .. Len(list') + 1
    BY <1>1, NothingListed
  <2>2. rounds' \in Nat
    BY <1>1, <1>2, <1>3 DEF ControlTyped
  <2> QED
    BY <1>1, <1>2, <2>1, <2>2 DEF ControlTyped, Stages, IsInjective
<1>6. ThreadsTyped'
  <2>1. IsFiniteSet(writers') /\ Cardinality(writers') <= usem'
    BY <1>1, <1>3, FS_EmptySet
  <2> QED
    BY <1>1, <1>2, <2>1 DEF ThreadsTyped, KindsOf, PayersOf
<1>7. RestInv'
  BY <1>1, <1>3 DEF RestInv
<1> QED
  BY <1>1, <1>4, <1>5, <1>6, <1>7
     DEF Shape, RoundInv, RatersInv, WritersInv, PricesInv, InRound

\* The rows of the last batch are among those that have prices.
LEMMA BatchPriced ==
  ASSUME Shape, pc \in {"write", "last"}
  PROVE  /\ DOMAIN prices = Range(list) /\ DOMAIN read = Range(list) /\ Passed \subseteq Range(list)
         /\ Range(list) \subseteq Calls
         /\ batch.rows \subseteq DOMAIN prices /\ \A w \in writers : w.rows \subseteq DOMAIN prices
BY Listed DEF Shape, RoundInv, WritersInv, InRound

LEMMA WriteLastShape ==
  ASSUME Shape, WriteLast
  PROVE  Shape'
<1>1. /\ pc = "last" /\ NextRound
      /\ UNCHANGED <<archived, balance, cache, raters, writers, last, first, diff, counted, mishaps>>
  BY DEF WriteLast, history
<1>2. TablesTyped /\ mishaps \subseteq Mishaps
  BY DEF Shape, ControlTyped
<1>3. IsPriced(live')
  <2>1. CASE batch.buffer
    BY <1>1, <1>2, <2>1, BatchPriced, Written DEF WriteLast
  <2>2. CASE ~batch.buffer
    BY <1>2, <2>2 DEF WriteLast, TablesTyped
  <2> QED
    BY <2>1, <2>2
<1> QED
  BY <1>1, <1>2, <1>3, NextRoundShape

LEMMA WriteLastFailsShape ==
  ASSUME Shape, WriteLastFails
  PROVE  Shape'
<1>1. /\ pc = "last" /\ NextRound /\ mishaps' = mishaps \cup {"refused"}
      /\ UNCHANGED <<live, archived, balance, cache, raters, writers, last, first, diff, counted>>
  BY DEF WriteLastFails, Event, db
<1>2. TablesTyped /\ mishaps' \subseteq Mishaps
  BY <1>1 DEF Shape, ControlTyped, Mishaps
<1>3. IsPriced(live')
  BY <1>1, <1>2 DEF TablesTyped
<1> QED
  BY <1>1, <1>2, <1>3, NextRoundShape

LEMMA BalanceShape ==
  ASSUME Shape, UpdateBalance
  PROVE  Shape'
<1>1. /\ pc = "read" /\ pc' \in {"read", "done"}
      /\ UNCHANGED <<live, archived, list, at, rates, prices, read, batch, cache, raters, sem,
                     writers, usem, rounds, last, first, counted, mishaps>>
  BY DEF UpdateBalance, round, threads, history
<1>2. TablesTyped /\ ControlTyped /\ ThreadsTyped /\ RestInv
  BY DEF Shape
<1>3. \/ pc' = "done" /\ UNCHANGED <<balance, diff>> /\ \A u \in Accounts : diff[u] = 0
      \/ /\ pc' = "read"
         /\ \E u \in Accounts : /\ balance' = [balance EXCEPT ![u] = @ + diff[u]]
                                /\ diff' = [diff EXCEPT ![u] = 0]
  BY <1>1 DEF UpdateBalance
<1>4. balance' \in [Accounts -> Int] /\ diff' \in [Accounts -> Int]
  BY <1>2, <1>3 DEF TablesTyped
<1>5. TablesTyped'
  BY <1>1, <1>2, <1>4 DEF TablesTyped, IsPriced
<1>6. ControlTyped'
  BY <1>1, <1>2 DEF ControlTyped, Stages, Ended
<1>7. ThreadsTyped'
  BY <1>1, <1>2 DEF ThreadsTyped, KindsOf, PayersOf
<1>8. RestInv'
  BY <1>1, <1>2, <1>3 DEF RestInv
<1> QED
  BY <1>1, <1>5, <1>6, <1>7, <1>8
     DEF Shape, RoundInv, RatersInv, WritersInv, PricesInv, InRound

\* Threads that read rates run only while the main thread launches them.
LEMMA RatersLaunched ==
  ASSUME Shape, NEW c \in DOMAIN raters
  PROVE  /\ pc = "launch" /\ c \in Range(list) /\ c \in Calls /\ c \in Passed
         /\ raters[c] \in [todo : SUBSET (1 .. Len(Payers[c])), at : {"get", "query", "cache"}]
         /\ raters[c].todo # {}
<1>1. pc = "launch"
  BY DEF Shape, ControlTyped, RestInv, Stages, InRound, Ended
<1>2. Passed \subseteq Range(list) /\ Range(list) \subseteq Calls
  BY Listed DEF Shape
<1> QED
  BY <1>1, <1>2 DEF Shape, RatersInv

LEMMA SoughtIs ==
  ASSUME NEW c \in Calls, raters[c].todo \subseteq 1 .. Len(Payers[c]), raters[c].todo # {}
  PROVE  \E i \in raters[c].todo : /\ Sought(c) = Payers[c][i]
                                   /\ \A j \in raters[c].todo : i <= j
                                   /\ Sought(c) \in PayersOf(c) /\ Sought(c) \in Accounts
<1>1. raters[c].todo \subseteq Nat
  OBVIOUS
<1>2. PICK i \in raters[c].todo :
         i = CHOOSE k \in raters[c].todo : \A j \in raters[c].todo : k <= j
  BY <1>1, LeastCall
<1>3. \A j \in raters[c].todo : i <= j
  BY <1>1, <1>2, LeastCall
<1>4. Payers[c][i] \in PayersOf(c) /\ PayersOf(c) \subseteq Accounts
  <2>1. i \in 1 .. Len(Payers[c]) /\ Payers[c] \in Seq(PayersOf(c))
    BY Payments
  <2>2. PayersOf(c) \subseteq Accounts
    BY Payments
  <2> QED
    BY <2>1, <2>2
<1> QED
  BY <1>2, <1>3, <1>4 DEF Sought

\* A step of such a thread leaves the rest as it is.
LEMMA RaterShape ==
  ASSUME Shape, pc = "launch", RaterUnchanged, RatersInv', DOMAIN rates' = DOMAIN rates,
         sem' \in Nat, cache' \in [Accounts -> {None} \cup {Kind[d] : d \in Calls}],
         \A u \in Accounts : cache'[u] = None \/ cache'[u] \in KindsOf(u)
  PROVE  Shape'
<1>1. UNCHANGED <<live, archived, balance, pc, list, at, prices, read, batch, writers, usem,
                  rounds, last, first, diff, counted, mishaps>>
  BY DEF RaterUnchanged, db, control, history
<1>2. TablesTyped /\ ControlTyped /\ ThreadsTyped /\ RoundInv /\ RestInv
  BY DEF Shape
<1>3. TablesTyped'
  BY <1>1, <1>2, TablesKept
<1>4. ControlTyped'
  BY <1>1, <1>2 DEF ControlTyped, Stages
<1>5. ThreadsTyped'
  BY <1>1, <1>2 DEF ThreadsTyped, KindsOf, PayersOf
<1>6. RestInv'
  BY <1>1, <1>2 DEF RestInv
<1>7. RoundInv'
  <2>1. Range(list)' = Range(list)
    BY <1>1 DEF Range
  <2> QED
    BY <1>1, <1>2, <2>1 DEF RoundInv, InRound
<1> QED
  BY <1>1, <1>3, <1>4, <1>5, <1>6, <1>7 DEF Shape, WritersInv, PricesInv

\* What the threads that are left find, and what the thread that has made the step.
LEMMA RatersNext ==
  ASSUME Shape, NEW c \in DOMAIN raters, RaterUnchanged,
         DOMAIN raters' = DOMAIN raters \/ DOMAIN raters' = DOMAIN raters \ {c},
         sem' - Cardinality(DOMAIN raters') = sem - Cardinality(DOMAIN raters), sem' \in Int,
         \A d \in DOMAIN raters \ {c} : raters'[d] = raters[d],
         \A d \in Range(list) \ {c} : rates'[d] = rates[d],
         DOMAIN rates'[c] = PayersOf(c),
         \A u \in PayersOf(c) : rates'[c][u] = None \/ rates'[c][u] \in KindsOf(u),
         c \in DOMAIN raters' =>
           /\ raters'[c] \in [todo : SUBSET (1 .. Len(Payers[c])), at : {"get", "query", "cache"}]
           /\ raters'[c].todo # {}
           /\ raters'[c].at = "cache" => rates'[c][Sought(c)'] # None,
         \A i \in 1 .. Len(Payers[c]) :
           rates[c][Payers[c][i]] # None \/ i \in raters[c].todo =>
             rates'[c][Payers[c][i]] # None \/ (c \in DOMAIN raters' /\ i \in raters'[c].todo)
  PROVE  RatersInv'
<1>1. UNCHANGED <<pc, list, at>>
  BY DEF RaterUnchanged
<1>2. pc = "launch" /\ c \in Range(list) /\ c \in Calls /\ c \in Passed
  BY RatersLaunched
<1>3. /\ DOMAIN raters \subseteq Passed /\ Passed \subseteq Range(list)
      /\ Cardinality(DOMAIN raters) <= sem /\ Cardinality(DOMAIN raters) \in Nat /\ sem \in Nat
      /\ IsFiniteSet(DOMAIN raters)
  BY <1>2, ThreadsOf, Listed DEF Shape, RatersInv, ThreadsTyped
<1>4. /\ \A d \in Range(list) : \A u \in PayersOf(d) : rates[d][u] = None \/ rates[d][u] \in KindsOf(u)
      /\ \A d \in Range(list) : DOMAIN rates[d] = PayersOf(d)
      /\ \A d \in DOMAIN raters :
           /\ raters[d] \in [todo : SUBSET (1 .. Len(Payers[d])), at : {"get", "query", "cache"}]
           /\ raters[d].todo # {}
           /\ raters[d].at = "cache" => rates[d][Sought(d)] # None
      /\ sem = Cardinality(DOMAIN raters) =>
           \A d \in Passed : \A i \in 1 .. Len(Payers[d]) :
             rates[d][Payers[d][i]] # None \/ (d \in DOMAIN raters /\ i \in raters[d].todo)
  BY <1>2 DEF Shape, RatersInv
<1>5. Passed' = Passed /\ Range(list)' = Range(list) /\ Range(list') = Range(list)
  BY <1>1 DEF Passed, Range
<1>6. \A d \in DOMAIN raters \ {c} : Sought(d)' = Sought(d)
  BY DEF Sought
<1>7. IsFiniteSet(DOMAIN raters') /\ Cardinality(DOMAIN raters') \in Nat
  BY <1>3, FS_Subset, FS_CardinalityType
<1>8. Cardinality(DOMAIN raters') <= sem'
      /\ (sem' = Cardinality(DOMAIN raters') => sem = Cardinality(DOMAIN raters))
  BY <1>3, <1>7
<1>9. \A d \in Range(list) : \A u \in PayersOf(d) : rates'[d][u] = None \/ rates'[d][u] \in KindsOf(u)
  BY <1>4
<1>10. \A d \in Range(list) : DOMAIN rates'[d] = PayersOf(d)
  BY <1>4
<1>11. ASSUME NEW d \in DOMAIN raters'
       PROVE  /\ raters'[d] \in [todo : SUBSET (1 .. Len(Payers[d])), at : {"get", "query", "cache"}]
              /\ raters'[d].todo # {}
              /\ raters'[d].at = "cache" => rates'[d][Sought(d)'] # None
  <2>1. CASE d = c
    BY <1>11, <2>1
  <2>2. CASE d # c
    <3>1. d \in DOMAIN raters \ {c} /\ d \in Range(list) \ {c}
      BY <1>3, <1>11, <2>2
    <3> QED
      BY <1>4, <1>6, <3>1
  <2> QED
    BY <2>1, <2>2
<1>12. ASSUME sem' = Cardinality(DOMAIN raters'), NEW d \in Passed, NEW i \in 1 .. Len(Payers[d])
       PROVE  rates'[d][Payers[d][i]] # None \/ (d \in DOMAIN raters' /\ i \in raters'[d].todo)
  <2>1. rates[d][Payers[d][i]] # None \/ (d \in DOMAIN raters /\ i \in raters[d].todo)
    BY <1>4, <1>8, <1>12
  <2>2. CASE d = c
    BY <2>1, <2>2
  <2>3. CASE d # c
    <3>1. d \in Range(list) \ {c}
      BY <1>3, <2>3
    <3> QED
      BY <2>1, <2>3, <3>1
  <2> QED
    BY <2>2, <2>3
<1> QED
  BY <1>1, <1>3, <1>5, <1>8, <1>9, <1>10, <1>11, <1>12 DEF RatersInv, PayersOf, KindsOf

LEMMA RaterStepShape ==
  ASSUME Shape, NEW c \in DOMAIN raters, TakeToRead(c) \/ ReadRate(c) \/ CacheRate(c)
  PROVE  Shape'
<1>1. /\ pc = "launch" /\ c \in Range(list) /\ c \in Calls /\ c \in Passed
      /\ raters[c] \in [todo : SUBSET (1 .. Len(Payers[c])), at : {"get", "query", "cache"}]
      /\ raters[c].todo # {}
  BY RatersLaunched
<1>2. /\ DOMAIN rates = Range(list) /\ DOMAIN rates[c] = PayersOf(c)
      /\ \A u \in PayersOf(c) : rates[c][u] = None \/ rates[c][u] \in KindsOf(u)
      /\ raters[c].at = "cache" => rates[c][Sought(c)] # None
      /\ sem \in Nat /\ Cardinality(DOMAIN raters) <= sem
  BY <1>1 DEF Shape, RoundInv, RatersInv, InRound, ThreadsTyped
<1>3. PICK i \in raters[c].todo :
        /\ Sought(c) = Payers[c][i] /\ \A j \in raters[c].todo : i <= j
        /\ Sought(c) \in PayersOf(c) /\ Sought(c) \in Accounts
  BY <1>1, SoughtIs
<1>4. Kind[c] # None /\ Kind[c] \in KindsOf(Sought(c)) /\ i \in Nat
  <2>1. Kind[c] \in KindsOf(Sought(c))
    BY <1>1, <1>3 DEF KindsOf
  <2>2. i \in 1 .. Len(Payers[c])
    BY <1>1
  <2> QED
    BY <1>1, <2>1, <2>2, Payments
<1>5. /\ cache \in [Accounts -> {None} \cup {Kind[d] : d \in Calls}]
      /\ \A u \in Accounts : cache[u] = None \/ cache[u] \in KindsOf(u)
  BY DEF Shape, ThreadsTyped
<1>6. IsFiniteSet(DOMAIN raters) /\ Cardinality(DOMAIN raters) \in Nat
  BY <1>1, ThreadsOf
<1>7. CASE TakeToRead(c)
  <2>1. /\ raters' = [raters EXCEPT ![c].at = "query"] /\ RaterUnchanged
        /\ UNCHANGED <<rates, cache, sem>>
    BY <1>7 DEF TakeToRead
  <2>2. DOMAIN raters' = DOMAIN raters /\ \A d \in DOMAIN raters \ {c} : raters'[d] = raters[d]
    BY <2>1
  <2>3. raters'[c] = [raters[c] EXCEPT !.at = "query"]
    BY <2>1
  <2>4. raters'[c].todo = raters[c].todo /\ raters'[c].at = "query"
        /\ raters'[c] \in [todo : SUBSET (1 .. Len(Payers[c])), at : {"get", "query", "cache"}]
    BY <1>1, <2>3
  <2>5. RatersInv'
    BY <1>1, <1>2, <1>6, <2>1, <2>2, <2>4, RatersNext
  <2> QED
    BY <1>1, <1>2, <1>5, <2>1, <2>5, RaterShape
<1>8. CASE ReadRate(c)
  <2>1. /\ raters' = [raters EXCEPT ![c].at = "cache"] /\ RaterUnchanged
        /\ rates' = [rates EXCEPT ![c][Sought(c)] = Kind[c]]
        /\ UNCHANGED <<cache, sem>>
    BY <1>8 DEF ReadRate
  <2>2. DOMAIN raters' = DOMAIN raters /\ \A d \in DOMAIN raters \ {c} : raters'[d] = raters[d]
    BY <2>1
  <2>3. raters'[c] = [raters[c] EXCEPT !.at = "cache"]
    BY <2>1
  <2>4. raters'[c].todo = raters[c].todo /\ raters'[c].at = "cache"
        /\ raters'[c] \in [todo : SUBSET (1 .. Len(Payers[c])), at : {"get", "query", "cache"}]
    BY <1>1, <2>3
  <2>5. Sought(c)' = Sought(c)
    BY <2>4 DEF Sought
  <2>6. /\ DOMAIN rates' = DOMAIN rates /\ \A d \in Range(list) \ {c} : rates'[d] = rates[d]
        /\ rates'[c] = [rates[c] EXCEPT ![Sought(c)] = Kind[c]]
    BY <1>1, <1>2, <2>1
  <2>7. /\ DOMAIN rates'[c] = PayersOf(c) /\ rates'[c][Sought(c)] = Kind[c]
        /\ \A u \in PayersOf(c) \ {Sought(c)} : rates'[c][u] = rates[c][u]
    BY <1>2, <1>3, <2>6
  <2>8. \A u \in PayersOf(c) : rates'[c][u] = None \/ rates'[c][u] \in KindsOf(u)
    BY <1>2, <1>4, <2>7
  <2>9. \A j \in 1 .. Len(Payers[c]) : rates[c][Payers[c][j]] # None => rates'[c][Payers[c][j]] # None
    <3>1. \A j \in 1 .. Len(Payers[c]) : Payers[c][j] \in PayersOf(c)
      BY <1>1, Payments
    <3> QED
      BY <1>4, <2>7, <3>1
  <2>10. RatersInv'
    BY <1>1, <1>2, <1>4, <1>6, <2>1, <2>2, <2>4, <2>5, <2>6, <2>7, <2>8, <2>9, RatersNext
  <2> QED
    BY <1>1, <1>2, <1>5, <2>1, <2>6, <2>10, RaterShape
<1>9. CASE CacheRate(c)
  <2> DEFINE rest == {k \in raters[c].todo : \E j \in raters[c].todo : j < k}
  <2>1. /\ raters[c].at = "cache" /\ RaterUnchanged /\ UNCHANGED rates
        /\ cache' = IF cache[Sought(c)] = None THEN [cache EXCEPT ![Sought(c)] = Kind[c]] ELSE cache
        /\ \/ /\ rest # {} /\ sem' = sem
              /\ raters' = [raters EXCEPT ![c] = [todo |-> rest, at |-> "get"]]
           \/ /\ rest = {} /\ sem' = sem - 1
              /\ raters' = [d \in DOMAIN raters \ {c} |-> raters[d]]
    BY <1>9 DEF CacheRate
  <2>2. rest \subseteq 1 .. Len(Payers[c]) /\ \A j \in raters[c].todo : j = i \/ j \in rest
    <3>1. \A j \in raters[c].todo : j \in Nat /\ (j = i \/ i < j)
      BY <1>1, <1>3, <1>4
    <3> QED
      BY <1>1, <1>3, <3>1
  <2>3. rates[c][Payers[c][i]] # None
    BY <1>2, <1>3, <2>1
  <2> HIDE DEF rest
  <2>4. /\ cache' \in [Accounts -> {None} \cup {Kind[d] : d \in Calls}]
        /\ \A u \in Accounts : cache'[u] = None \/ cache'[u] \in KindsOf(u)
    BY <1>1, <1>3, <1>4, <1>5, <2>1
  <2>5. CASE rest # {}
    <3>1. /\ sem' = sem /\ raters' = [raters EXCEPT ![c] = [todo |-> rest, at |-> "get"]]
      BY <2>1, <2>5
    <3>2. DOMAIN raters' = DOMAIN raters /\ (\A d \in DOMAIN raters \ {c} : raters'[d] = raters[d])
          /\ raters'[c] = [todo |-> rest, at |-> "get"]
      BY <3>1
    <3>3. raters'[c].todo = rest /\ raters'[c].at = "get"
      BY <3>2
    <3>4. raters'[c] \in [todo : SUBSET (1 .. Len(Payers[c])), at : {"get", "query", "cache"}]
      BY <2>2, <3>2
    <3>5. RatersInv'
      BY <1>1, <1>2, <1>6, <2>1, <2>2, <2>3, <2>5, <3>1, <3>2, <3>3, <3>4, RatersNext
    <3> QED
      BY <1>1, <1>2, <2>1, <2>4, <3>1, <3>5, RaterShape
  <2>6. CASE rest = {}
    <3>1. /\ sem' = sem - 1 /\ raters' = [d \in DOMAIN raters \ {c} |-> raters[d]]
      BY <2>1, <2>6
    <3>2. DOMAIN raters' = DOMAIN raters \ {c} /\ (\A d \in DOMAIN raters \ {c} : raters'[d] = raters[d])
      BY <3>1
    <3>3. Cardinality(DOMAIN raters') = Cardinality(DOMAIN raters) - 1
          /\ Cardinality(DOMAIN raters') \in Nat
      BY <1>6, <3>2, FS_RemoveElement, FS_CardinalityType
    <3>4. sem' \in Nat /\ sem' - Cardinality(DOMAIN raters') = sem - Cardinality(DOMAIN raters)
      BY <1>2, <1>6, <3>1, <3>3
    <3>5. c \notin DOMAIN raters' /\ rates' = rates /\ sem' \in Int
      BY <2>1, <3>2, <3>4
    <3>6. \A k \in 1 .. Len(Payers[c]) :
             rates[c][Payers[c][k]] # None \/ k \in raters[c].todo => rates'[c][Payers[c][k]] # None
      BY <2>2, <2>3, <2>6, <3>5
    <3>7. RatersInv'
      BY <1>2, <2>1, <3>2, <3>4, <3>5, <3>6, RatersNext
    <3> QED
      BY <1>1, <1>2, <2>1, <2>4, <3>4, <3>7, RaterShape
  <2> QED
    BY <2>5, <2>6
<1> QED
  BY <1>7, <1>8, <1>9

LEMMA StillShape ==
  ASSUME Shape, UNCHANGED <<pc, list, at, rates, prices, read, batch, cache, raters, sem, usem, writers,
                            rounds, last, first, diff, counted>>,
         IsPriced(live'), IsPriced(archived'), balance' \in [Accounts -> Int], mishaps' \subseteq Mishaps
  PROVE  Shape'
<1>1. TablesTyped /\ ControlTyped /\ ThreadsTyped /\ RoundInv /\ RatersInv /\ RestInv /\ WritersInv /\ PricesInv
  BY DEF Shape
<1>2. TablesTyped'
  BY <1>1 DEF TablesTyped, IsPriced
<1>3. ControlTyped'
  BY <1>1 DEF ControlTyped, Stages
<1>4. ThreadsTyped'
  BY <1>1 DEF ThreadsTyped, KindsOf, PayersOf
<1>5. RestInv'
  BY <1>1 DEF RestInv
<1>6. RoundInv'
  <2>1. Range(list)' = Range(list)
    BY DEF Range
  <2> QED
    BY <1>1, <2>1 DEF RoundInv, InRound
<1>7. RatersInv'
  <2>1. Passed' = Passed /\ Range(list)' = Range(list) /\ \A c : Sought(c)' = Sought(c)
    BY DEF Passed, Range, Sought
  <2> QED
    BY <1>1, <2>1 DEF RatersInv, PayersOf, KindsOf
<1>8. WritersInv'
  BY <1>1 DEF WritersInv, Passed
<1>9. PricesInv'
  BY <1>1 DEF PricesInv, Range, PayersOf, Todays
<1> QED
  BY <1>2, <1>3, <1>4, <1>5, <1>6, <1>7, <1>8, <1>9 DEF Shape

LEMMA StutterShape ==
  ASSUME Shape, UNCHANGED <<pc, list, at, rates, prices, read, batch, cache, raters, sem, usem, writers,
                            rounds, last, first, diff, counted, live, archived, balance, mishaps>>
  PROVE  Shape'
<1>1. /\ IsPriced(live') /\ IsPriced(archived') /\ balance' \in [Accounts -> Int]
      /\ mishaps' \subseteq Mishaps
  BY DEF Shape, TablesTyped, ControlTyped
<1> QED
  BY <1>1, StillShape

LEMMA TimerShape ==
  ASSUME Shape, Timer
  PROVE  Shape'
BY StutterShape DEF Timer, db, round, control, history

LEMMA WritersAtWork ==
  ASSUME Shape, NEW w \in writers
  PROVE  /\ pc = "write" /\ w \in [rows : SUBSET Calls, at : {"get", "query"}]
         /\ w.rows # {} /\ w.rows \subseteq Passed /\ w.rows \cap batch.rows = {}
         /\ w.rows \subseteq DOMAIN prices
         /\ \A v \in writers \ {w} : v.rows \cap w.rows = {}
<1>1. pc = "write"
  BY DEF Shape, ControlTyped, RestInv, Stages, InRound, Ended
<1>2. w \in [rows : SUBSET Calls, at : {"get", "query"}]
  BY DEF Shape, ThreadsTyped
<1>3. w.rows \subseteq DOMAIN prices
  BY <1>1, BatchPriced
<1> QED
  BY <1>1, <1>2, <1>3 DEF Shape, WritersInv

LEMMA TakeToWriteShape ==
  ASSUME Shape, NEW w \in writers, TakeToWrite(w)
  PROVE  Shape' /\ UNCHANGED <<Unwritten, Stuck>>
<1> DEFINE new == [w EXCEPT !.at = "query"]
<1>1. /\ w.at = "get" /\ writers' = (writers \ {w}) \cup {new}
      /\ UNCHANGED <<live, archived, balance, pc, list, at, rates, prices, read, batch, cache, raters,
                     sem, usem, rounds, last, first, diff, counted, mishaps>>
  BY DEF TakeToWrite, db, round, control, history
<1>2. /\ pc = "write" /\ w \in [rows : SUBSET Calls, at : {"get", "query"}]
      /\ w.rows # {} /\ w.rows \subseteq Passed /\ w.rows \cap batch.rows = {}
      /\ \A v \in writers \ {w} : v.rows \cap w.rows = {}
  BY WritersAtWork
<1>3. new \in [rows : SUBSET Calls, at : {"get", "query"}] /\ new.rows = w.rows /\ new.at = "query"
  BY <1>2
<1>4. new \notin writers
  BY <1>1, <1>2, <1>3
<1> HIDE DEF new
<1>5. TablesTyped /\ ControlTyped /\ ThreadsTyped /\ RoundInv /\ RestInv /\ WritersInv /\ PricesInv
  BY DEF Shape
<1>6. IsFiniteSet(writers') /\ Cardinality(writers') = Cardinality(writers)
  <2>1. IsFiniteSet(writers) /\ Cardinality(writers) \in Nat
    BY <1>5, WritersFinite
  <2>2. IsFiniteSet(writers \ {w}) /\ Cardinality(writers \ {w}) = Cardinality(writers) - 1
    BY <2>1, FS_RemoveElement
  <2>3. Cardinality(writers') = Cardinality(writers \ {w}) + 1 /\ IsFiniteSet(writers')
    BY <1>1, <1>4, <2>2, FS_AddElement
  <2> QED
    BY <2>1, <2>2, <2>3
<1>7. ThreadsTyped'
  <2>1. writers' \subseteq [rows : SUBSET Calls, at : {"get", "query"}]
    BY <1>1, <1>3, <1>5 DEF ThreadsTyped
  <2> QED
    BY <1>1, <1>5, <1>6, <2>1 DEF ThreadsTyped, KindsOf, PayersOf
<1>8. WritersInv'
  <2>1. Passed' = Passed
    BY <1>1 DEF Passed
  <2>2. \A v \in writers' : \E x \in writers : x.rows = v.rows /\ (x = w <=> v = new) /\ (v # new => x = v)
    BY <1>1, <1>3, <1>4
  <2>3. \A v \in writers' : v.rows # {} /\ v.rows \subseteq Passed /\ v.rows \cap batch.rows = {}
    BY <1>2, <1>5, <2>2 DEF WritersInv
  <2>4. \A v, x \in writers : v # x => v.rows \cap x.rows = {}
    BY <1>2, <1>5 DEF WritersInv
  <2>5. \A v, x \in writers' : v # x => v.rows \cap x.rows = {}
    BY <2>2, <2>4
  <2> QED
    BY <1>1, <1>2, <1>5, <2>1, <2>3, <2>5 DEF WritersInv
<1>9. TablesTyped' /\ ControlTyped'
  BY <1>1, <1>5, TablesKept DEF ControlTyped, Stages
<1>10. RestInv'
  BY <1>1, <1>2, <1>5 DEF RestInv
<1>11. RoundInv'
  <2>1. Range(list)' = Range(list)
    BY <1>1 DEF Range
  <2> QED
    BY <1>1, <1>5, <2>1 DEF RoundInv, InRound
<1>12. PricesInv'
  BY <1>1, <1>5 DEF PricesInv, Range, PayersOf, Todays
<1>13. Shape'
  BY <1>1, <1>2, <1>7, <1>8, <1>9, <1>10, <1>11, <1>12 DEF Shape, RatersInv
<1>14. UNION {v.rows : v \in writers'} = UNION {v.rows : v \in writers}
  BY <1>1, <1>3
<1>15. Unwritten' = Unwritten
  BY <1>1, <1>2, <1>14 DEF Unwritten
<1>16. Stuck' = Stuck
  BY <1>1, <1>6 DEF Stuck
<1> QED
  BY <1>13, <1>15, <1>16

LEMMA WriteBatchShape ==
  ASSUME Shape, NEW w \in writers, WriteBatch(w)
  PROVE  Shape' /\ Stuck' = Stuck
<1>1. /\ Write(w.rows) /\ writers' = writers \ {w} /\ usem' = usem - 1
      /\ UNCHANGED <<archived, balance, pc, list, at, rates, prices, read, batch, cache, raters,
                     sem, rounds, last, first, diff, counted, mishaps>>
  BY DEF WriteBatch, round, control, history
<1>2. pc = "write" /\ w.rows \subseteq DOMAIN prices
  BY WritersAtWork
<1>3. TablesTyped /\ ControlTyped /\ ThreadsTyped /\ RoundInv /\ RestInv /\ WritersInv /\ PricesInv
  BY DEF Shape
<1>4. /\ IsFiniteSet(writers') /\ Cardinality(writers') = Cardinality(writers) - 1
      /\ Cardinality(writers') \in Nat /\ Cardinality(writers) \in Nat /\ usem \in Nat
      /\ Cardinality(writers) <= usem
  BY <1>1, <1>3, WritersFinite, FS_RemoveElement, FS_CardinalityType DEF ThreadsTyped
<1>5. usem' \in Nat /\ Cardinality(writers') <= usem' /\ Stuck' = Stuck
  <2>1. Stuck' <=> Stuck
    BY <1>1, <1>4 DEF Stuck
  <2> QED
    BY <1>1, <1>4, <2>1 DEF Stuck
<1>6. TablesTyped'
  BY <1>1, <1>2, <1>3, Written DEF TablesTyped, IsPriced
<1>7. ThreadsTyped'
  <2>1. writers' \subseteq [rows : SUBSET Calls, at : {"get", "query"}]
    BY <1>1, <1>3 DEF ThreadsTyped
  <2> QED
    BY <1>1, <1>3, <1>4, <1>5, <2>1 DEF ThreadsTyped, KindsOf, PayersOf
<1>8. ControlTyped'
  BY <1>1, <1>3 DEF ControlTyped, Stages
<1>9. RestInv'
  BY <1>1, <1>2, <1>3 DEF RestInv
<1>10. RoundInv'
  <2>1. Range(list)' = Range(list)
    BY <1>1 DEF Range
  <2> QED
    BY <1>1, <1>2, <1>3, <2>1 DEF RoundInv, InRound
<1>11. WritersInv'
  BY <1>1, <1>3 DEF WritersInv, Passed
<1>12. PricesInv'
  BY <1>1, <1>3 DEF PricesInv, Range, PayersOf, Todays
<1> QED
  BY <1>1, <1>2, <1>5, <1>6, <1>7, <1>8, <1>9, <1>10, <1>11, <1>12 DEF Shape, RatersInv

LEMMA DieShape ==
  ASSUME Shape, Die
  PROVE  Shape' /\ pc' = "failed"
<1>1. /\ pc' = "failed" /\ raters' = NoRows /\ writers' = {} /\ mishaps' = mishaps
      /\ UNCHANGED <<live, archived, balance, list, at, rates, prices, read, batch, cache, sem, usem,
                     rounds, last, first, diff, counted>>
  BY DEF Die, Event, db, round, control
<1>2. TablesTyped /\ ControlTyped /\ ThreadsTyped
  BY DEF Shape
<1>3. TablesTyped'
  BY <1>1, <1>2, TablesKept
<1>4. ControlTyped'
  BY <1>1, <1>2 DEF ControlTyped, Stages, Ended
<1>5. ThreadsTyped'
  <2>1. IsFiniteSet(writers') /\ Cardinality(writers') <= usem'
    BY <1>1, <1>2, FS_EmptySet DEF ThreadsTyped
  <2> QED
    BY <1>1, <1>2, <2>1 DEF ThreadsTyped, KindsOf, PayersOf
<1>6. RestInv'
  BY <1>1, NoRowsPriced DEF RestInv
<1> QED
  BY <1>1, <1>3, <1>4, <1>5, <1>6
     DEF Shape, RoundInv, RatersInv, WritersInv, PricesInv, InRound

LEMMA NewCallShape ==
  ASSUME Shape, NEW c \in LateCalls, NewCall(c)
  PROVE  /\ Shape' /\ c \in Calls /\ c \notin DOMAIN live \cup DOMAIN archived
         /\ DOMAIN live' = DOMAIN live \cup {c} /\ \A d \in DOMAIN live : live'[d] = live[d]
         /\ live'[c] = [u \in PayersOf(c) |-> OldPrice] /\ OldPrice \in Int
<1>1. /\ live' = [d \in DOMAIN live \cup {c} |->
                    IF d = c THEN [u \in PayersOf(c) |-> OldPrice] ELSE live[d]]
      /\ balance' = [u \in Accounts |-> IF u \in PayersOf(c) THEN balance[u] - OldPrice ELSE balance[u]]
      /\ \A d \in DOMAIN live \cup DOMAIN archived : d < c
      /\ UNCHANGED <<archived, pc, list, at, rates, prices, read, batch, cache, raters, sem, usem,
                     writers, rounds, last, first, diff, counted, mishaps>>
  BY DEF NewCall, round, threads, control, history
<1>2. c \in Calls /\ c \in Nat /\ OldPrice \in Int /\ PayersOf(c) \subseteq Accounts
  BY RerateAssumption, Payments DEF RerateAssumption
<1>3. TablesTyped /\ mishaps \subseteq Mishaps
  BY DEF Shape, ControlTyped
<1>4. c \notin DOMAIN live \cup DOMAIN archived
  BY <1>1, <1>2
<1>5. DOMAIN live' = DOMAIN live \cup {c} /\ (\A d \in DOMAIN live : live'[d] = live[d])
      /\ live'[c] = [u \in PayersOf(c) |-> OldPrice]
  BY <1>1, <1>4
<1>6. IsPriced(live')
  BY <1>2, <1>3, <1>5 DEF TablesTyped, IsPriced
<1>7. balance' \in [Accounts -> Int]
  <2>1. \A u \in Accounts : balance[u] \in Int
    BY <1>3 DEF TablesTyped
  <2> QED
    BY <1>1, <1>2, <2>1
<1>8. IsPriced(archived')
  BY <1>1, <1>3 DEF TablesTyped
<1> QED
  BY <1>1, <1>2, <1>3, <1>4, <1>5, <1>6, <1>7, <1>8, StillShape

LEMMA ArchiveShape ==
  ASSUME Shape, NEW c \in Calls, ArchiveCall(c)
  PROVE  /\ Shape' /\ c \in DOMAIN live \ DOMAIN archived
         /\ DOMAIN live' = DOMAIN live \ {c} /\ \A d \in DOMAIN live \ {c} : live'[d] = live[d]
         /\ DOMAIN archived' = DOMAIN archived \cup {c} /\ archived'[c] = live[c]
         /\ \A d \in DOMAIN archived : archived'[d] = archived[d]
<1>1. /\ c \in DOMAIN live \ DOMAIN archived
      /\ archived' = [d \in DOMAIN archived \cup {c} |-> IF d = c THEN live[c] ELSE archived[d]]
      /\ live' = [d \in DOMAIN live \ {c} |-> live[d]]
      /\ mishaps' = mishaps \cup (IF c \in Unwritten THEN {"moved"} ELSE {})
      /\ UNCHANGED <<balance, pc, list, at, rates, prices, read, batch, cache, raters, sem, usem,
                     writers, rounds, last, first, diff, counted>>
  BY DEF ArchiveCall, Event, round, threads, control
<1>2. TablesTyped /\ mishaps \subseteq Mishaps
  BY DEF Shape, ControlTyped
<1>3. mishaps' \subseteq Mishaps
  BY <1>1, <1>2 DEF Mishaps
<1>4. /\ DOMAIN live' = DOMAIN live \ {c} /\ (\A d \in DOMAIN live \ {c} : live'[d] = live[d])
      /\ DOMAIN archived' = DOMAIN archived \cup {c} /\ archived'[c] = live[c]
      /\ \A d \in DOMAIN archived : archived'[d] = archived[d]
  BY <1>1
<1>5. IsPriced(live') /\ IsPriced(archived')
  BY <1>1, <1>2, <1>4 DEF TablesTyped, IsPriced
<1>6. balance' \in [Accounts -> Int]
  BY <1>1, <1>2 DEF TablesTyped
<1> QED
  BY <1>1, <1>3, <1>4, <1>5, <1>6, StillShape

-----------------------------------------------------------------------------
(***************************************************************************)
(* The calls in hand: what is read of them, and what is still to be        *)
(* written.                                                                *)
(***************************************************************************)
LEMMA InHand ==
  ASSUME Shape
  PROVE  /\ Unwritten \subseteq Range(list) /\ Range(list) \subseteq Calls
         /\ pc \notin InRound => Unwritten = {}
         /\ pc \in InRound => DOMAIN prices = Range(list) /\ DOMAIN read = Range(list)
         /\ pc \in {"count", "read", "done"} => list = <<>>
         /\ pc = "launch" => Unwritten = Range(list)
         /\ pc \in {"write", "last"} =>
              Unwritten = {list[i] : i \in at .. Len(list)} \cup batch.rows \cup UNION {w.rows : w \in writers}
<1>1. /\ Range(list) = {list[i] : i \in 1 .. Len(list)} /\ Range(list) \subseteq Calls
      /\ Passed \subseteq Range(list) /\ Len(list) \in Nat /\ at \in 1 .. Len(list) + 1
  BY Listed DEF Shape, ControlTyped
<1>2. at .. Len(list) \subseteq 1 .. Len(list)
  BY <1>1
<1>3. {list[i] : i \in at .. Len(list)} \subseteq Range(list)
  BY <1>1, <1>2
<1>4. pc \in {"write", "last"} =>
        batch.rows \subseteq Range(list) /\ UNION {w.rows : w \in writers} \subseteq Range(list)
  BY <1>1 DEF Shape, WritersInv
<1>5. pc \in InRound => DOMAIN prices = Range(list) /\ DOMAIN read = Range(list)
  BY DEF Shape, RoundInv
<1>6. pc \in {"count", "read", "done"} => list = <<>>
  BY DEF Shape, RestInv
<1>7. CASE pc = "launch"
  BY <1>1, <1>5, <1>7 DEF Unwritten, InRound
<1>8. CASE pc \in {"write", "last"}
  BY <1>1, <1>3, <1>4, <1>5, <1>8 DEF Unwritten, InRound
<1>9. CASE pc \notin InRound
  BY <1>1, <1>6, <1>9 DEF Unwritten, InRound
<1> QED
  BY <1>7, <1>8, <1>9 DEF InRound

LEMMA UnwrittenStill ==
  ASSUME UNCHANGED <<pc, list, at, batch, writers>>
  PROVE  Unwritten' = Unwritten
BY DEF Unwritten, Range

LEMMA NoneUnwritten ==
  ASSUME pc' \notin InRound
  PROVE  Unwritten' = {}
BY DEF Unwritten, InRound

LEMMA BarrierUnwritten ==
  ASSUME Shape, Barrier
  PROVE  Unwritten' = Unwritten /\ pc = "launch" /\ pc' = "write"
<1>1. /\ pc = "launch" /\ pc' = "write" /\ at' = 1 /\ UNCHANGED <<list, batch, writers>>
  BY DEF Barrier, Priced, threads
<1>2. batch.rows = {} /\ writers = {}
  BY <1>1 DEF Shape, RoundInv, RestInv, InRound
<1>3. Range(list) = {list[i] : i \in 1 .. Len(list)} /\ Unwritten = Range(list)
  BY <1>1, Listed, InHand DEF Shape
<1>4. Unwritten' = {list[i] : i \in 1 .. Len(list)}
  BY <1>1, <1>2 DEF Unwritten
<1> QED
  BY <1>1, <1>3, <1>4

LEMMA SumUnwritten ==
  ASSUME SumPrices
  PROVE  Unwritten' = Unwritten
BY DEF SumPrices, Unwritten, round, threads

\* A call that has passed is in the batch, with a thread or not to be changed; and if
\* the thread could not be created, that shows.
LEMMA RowUnwritten ==
  ASSUME Shape, NEW b \in BOOLEAN, WriteRow(b)
  PROVE  /\ Unwritten' \subseteq Unwritten
         /\ Stuck => Stuck'
         /\ Stuck' \/ Unwritten' = IF NeedsUpdate(list[at]) THEN Unwritten ELSE Unwritten \ {list[at]}
<1> DEFINE c == list[at]
           rows == batch.rows \cup (IF NeedsUpdate(c) THEN {c} ELSE {})
           full == Cardinality(rows) = BatchSize
           new == [rows |-> rows, at |-> "get"]
           rest == {list[i] : i \in at + 1 .. Len(list)}
           out == UNION {w.rows : w \in writers}
<1>1. /\ pc = "write" /\ at <= Len(list) /\ at' = at + 1 /\ pc' = pc /\ list' = list
      /\ batch' = IF full THEN [rows |-> {}, buffer |-> FALSE]
                  ELSE [rows |-> rows, buffer |-> batch.buffer \/ NeedsUpdate(c)]
      /\ usem' = IF full THEN usem + 1 ELSE usem
      /\ writers' = IF full /\ b THEN writers \cup {new} ELSE writers
  BY DEF WriteRow
<1>2. /\ c \in Range(list) \ Passed /\ Len(list) \in Nat /\ at \in 1 .. Len(list)
      /\ \A i, j \in 1 .. Len(list) : list[i] = list[j] => i = j
  BY <1>1, Listed DEF Shape, ControlTyped
<1>3. batch.rows \subseteq Passed /\ out \subseteq Passed
  BY <1>1 DEF Shape, WritersInv
<1>4. c \notin rest
  <2>1. \A i \in at + 1 .. Len(list) : i \in 1 .. Len(list) /\ i # at
    BY <1>2
  <2> QED
    BY <1>2, <2>1
<1>5. at .. Len(list) = {at} \cup (at + 1 .. Len(list))
  BY <1>2
<1>6. Unwritten = {c} \cup rest \cup batch.rows \cup out
  BY <1>1, <1>5, InHand
<1> HIDE DEF c, rest, out, rows, full
<1>7. Unwritten' = rest \cup batch'.rows \cup UNION {w.rows : w \in writers'}
  BY <1>1 DEF Unwritten, rest
<1>8. rows = IF NeedsUpdate(c) THEN batch.rows \cup {c} ELSE batch.rows
  BY DEF rows
<1>9. batch'.rows = IF full THEN {} ELSE rows
  BY <1>1
<1>10. UNION {w.rows : w \in writers'} = IF full /\ b THEN out \cup rows ELSE out
  <2>1. CASE full /\ b
    <3>1. writers' = writers \cup {new} /\ new.rows = rows
      BY <1>1, <2>1
    <3> HIDE DEF new
    <3> QED
      BY <2>1, <3>1 DEF out
  <2>2. CASE ~(full /\ b)
    BY <1>1, <2>2 DEF out
  <2> QED
    BY <2>1, <2>2
<1>11. Unwritten' \subseteq Unwritten
  BY <1>6, <1>7, <1>8, <1>9, <1>10
<1>12. ~(full /\ ~b) => Unwritten' = IF NeedsUpdate(c) THEN Unwritten ELSE Unwritten \ {c}
  BY <1>2, <1>3, <1>4, <1>6, <1>7, <1>8, <1>9, <1>10
<1>13. /\ IsFiniteSet(writers) /\ Cardinality(writers) \in Nat /\ usem \in Nat
       /\ Cardinality(writers) <= usem
  BY WritersFinite DEF Shape, ThreadsTyped
<1>14. full /\ ~b => Stuck'
  BY <1>1, <1>13 DEF Stuck
<1>15. Stuck => Stuck'
  <2>1. CASE full /\ b
    <3>1. writers' = writers \cup {new} /\ usem' = usem + 1
      BY <1>1, <2>1
    <3> HIDE DEF new
    <3>2. Cardinality(writers') \in Nat /\ Cardinality(writers') <= Cardinality(writers) + 1
      BY <1>13, <3>1, FS_AddElement, FS_CardinalityType
    <3> QED
      BY <1>13, <3>1, <3>2 DEF Stuck
  <2>2. CASE ~(full /\ b)
    BY <1>1, <1>13, <2>2 DEF Stuck
  <2> QED
    BY <2>1, <2>2
<1> QED
  BY <1>11, <1>12, <1>14, <1>15 DEF c

LEMMA BatchUnwritten ==
  ASSUME Shape, NEW w \in writers, WriteBatch(w)
  PROVE  Unwritten' = Unwritten \ w.rows /\ w.rows \subseteq Unwritten
<1>1. /\ writers' = writers \ {w} /\ UNCHANGED <<pc, list, at, batch>>
  BY DEF WriteBatch, round
<1>2. /\ pc = "write" /\ w.rows \subseteq Passed /\ w.rows \cap batch.rows = {}
      /\ \A v \in writers \ {w} : v.rows \cap w.rows = {}
  BY WritersAtWork
<1>3. Unwritten = {list[i] : i \in at .. Len(list)} \cup batch.rows \cup UNION {v.rows : v \in writers}
  BY <1>2, InHand
<1>4. Unwritten' = {list[i] : i \in at .. Len(list)} \cup batch.rows \cup UNION {v.rows : v \in writers'}
  BY <1>1, <1>2 DEF Unwritten
<1>5. w.rows \cap {list[i] : i \in at .. Len(list)} = {}
  <2>1. /\ \A i, j \in 1 .. Len(list) : list[i] = list[j] => i = j
        /\ Len(list) \in Nat /\ at \in 1 .. Len(list) + 1
    BY Listed DEF Shape, ControlTyped
  <2>2. \A i \in at .. Len(list), j \in 1 .. at - 1 :
           i \in 1 .. Len(list) /\ j \in 1 .. Len(list) /\ i # j
    BY <2>1
  <2>3. \A i \in at .. Len(list), j \in 1 .. at - 1 : list[i] # list[j]
    BY <2>1, <2>2
  <2> QED
    BY <1>2, <2>3 DEF Passed
<1>6. UNION {v.rows : v \in writers'} = (UNION {v.rows : v \in writers}) \ w.rows
  BY <1>1, <1>2
<1> QED
  BY <1>2, <1>3, <1>4, <1>5, <1>6

LEMMA HandKept ==
  ASSUME HandInv, UNCHANGED <<list, read>>, Unwritten' \subseteq Unwritten,
         DOMAIN live \cup DOMAIN archived \subseteq DOMAIN live' \cup DOMAIN archived',
         \A c \in Unwritten' : c \in DOMAIN live => c \in DOMAIN live',
         \A c \in Unwritten' : c \in DOMAIN live' => c \in DOMAIN live /\ live'[c] = live[c],
         mishaps \subseteq mishaps', pc' \in InRound => pc \in InRound
  PROVE  HandInv'
<1>1. /\ Range(list) \subseteq DOMAIN live \cup DOMAIN archived
      /\ \A c \in Unwritten \cap DOMAIN live : live[c] = read[c]
      /\ "moved" \notin mishaps /\ pc \in InRound => Unwritten \subseteq DOMAIN live
  BY DEF HandInv
<1>2. /\ Range(list') \subseteq DOMAIN live' \cup DOMAIN archived'
      /\ \A c \in Unwritten' \cap DOMAIN live' : live'[c] = read'[c]
      /\ "moved" \notin mishaps' /\ pc' \in InRound => Unwritten' \subseteq DOMAIN live'
  BY <1>1
<1> QED
  BY <1>2 DEF HandInv, Range, InRound

LEMMA HandEmpty ==
  ASSUME pc' \notin InRound, list' = <<>>
  PROVE  HandInv'
<1>1. Range(list') = {} /\ Unwritten' = {}
  BY NoneUnwritten, NothingListed
<1> QED
  BY <1>1 DEF HandInv, Range, InRound

LEMMA CountedKept ==
  ASSUME CountedInv, counted' = counted,
         DOMAIN live \cup DOMAIN archived \subseteq DOMAIN live' \cup DOMAIN archived',
         DOMAIN live' \cup Range(list') \subseteq DOMAIN live \cup Range(list)
  PROVE  CountedInv'
<1>1. /\ counted' \subseteq DOMAIN live' \cup DOMAIN archived'
      /\ \A c \in counted', d \in (DOMAIN live' \cup Range(list')) \ counted' : c < d
  BY DEF CountedInv
<1> QED
  BY <1>1 DEF CountedInv, Range

\* Both, for the steps that change neither the tables nor the calls of the round.
LEMMA HandStill ==
  ASSUME HandInv, CountedInv, UNCHANGED <<list, read, live, archived, counted>>,
         Unwritten' \subseteq Unwritten, mishaps \subseteq mishaps', pc' \in InRound => pc \in InRound
  PROVE  HandInv' /\ CountedInv'
BY HandKept, CountedKept

LEMMA CountHand ==
  ASSUME Shape, CountCalls
  PROVE  HandInv' /\ CountedInv'
<1>1. /\ counted' = DOMAIN live /\ pc' \in {"done", "read"} /\ UNCHANGED <<live, archived, list>>
      /\ list = <<>>
  BY DEF CountCalls, db, round, Shape, RestInv
<1>2. HandInv'
  BY <1>1, HandEmpty DEF InRound
<1>3. Range(list') = {}
  BY <1>1, NothingListed
<1> QED
  BY <1>1, <1>2, <1>3 DEF CountedInv, Range

LEMMA ReadHand ==
  ASSUME Shape, ReadCalls, CountedInv
  PROVE  HandInv' /\ CountedInv'
<1>1. /\ \E rows \in {RowsById, RowsByDate} :
           /\ list' = rows /\ read' = [c \in Range(rows) |-> live[c]]
           /\ pc' = IF rows = <<>> THEN "read" ELSE "launch"
      /\ UNCHANGED <<live, archived, counted>>
  BY DEF ReadCalls, db
<1>2. DOMAIN live \subseteq Calls
  BY DEF Shape, TablesTyped, IsPriced
<1>3. Range(list') \subseteq DOMAIN live /\ read' = [c \in Range(list') |-> live[c]]
  BY <1>1, <1>2, RowsRead DEF Matching
<1>4. pc' = "read" => list' = <<>>
  BY <1>1
<1>5. Unwritten' \subseteq Range(list')
  BY <1>1 DEF Unwritten, Range
<1>6. HandInv'
  BY <1>1, <1>3, <1>5 DEF HandInv, Range
<1>7. CountedInv'
  BY <1>1, <1>3, CountedKept
<1> QED
  BY <1>6, <1>7

LEMMA WriteHand ==
  ASSUME Shape, HandInv, CountedInv, NEW rows, rows \subseteq DOMAIN prices, pc \in InRound, Write(rows),
         UNCHANGED <<archived, counted>>
  PROVE  /\ DOMAIN live \subseteq DOMAIN live' /\ DOMAIN live' \subseteq DOMAIN live \cup Range(list)
         /\ \A c \in DOMAIN live \ rows : live'[c] = live[c]
         /\ \A c \in DOMAIN live' \ rows : c \in DOMAIN live
<1>1. TablesTyped
  BY DEF Shape
<1>2. DOMAIN live' = DOMAIN live \cup rows /\ \A c \in DOMAIN live \ rows : live'[c] = live[c]
  BY DEF Write
<1>3. rows \subseteq Range(list)
  BY InHand
<1> QED
  BY <1>2, <1>3

LEMMA BatchHand ==
  ASSUME Shape, HandInv, CountedInv, NEW w \in writers, WriteBatch(w)
  PROVE  HandInv' /\ CountedInv'
<1>1. Write(w.rows) /\ UNCHANGED <<archived, counted, pc, list, read, mishaps>>
  BY DEF WriteBatch, round, control, history
<1>2. pc = "write" /\ w.rows \subseteq DOMAIN prices
  BY WritersAtWork
<1>3. Unwritten' = Unwritten \ w.rows
  BY BatchUnwritten
<1>4. /\ DOMAIN live \subseteq DOMAIN live' /\ DOMAIN live' \subseteq DOMAIN live \cup Range(list)
      /\ \A c \in DOMAIN live \ w.rows : live'[c] = live[c]
      /\ \A c \in DOMAIN live' \ w.rows : c \in DOMAIN live
  BY <1>1, <1>2, WriteHand DEF InRound
<1>5. HandInv'
  BY <1>1, <1>2, <1>3, <1>4, HandKept
<1>6. CountedInv'
  BY <1>1, <1>4, CountedKept
<1> QED
  BY <1>5, <1>6

LEMMA LastHand ==
  ASSUME Shape, HandInv, CountedInv, WriteLast \/ WriteLastFails
  PROVE  HandInv' /\ CountedInv'
<1>1. pc = "last" /\ pc' = "read" /\ list' = <<>> /\ UNCHANGED <<archived, counted>>
  BY DEF WriteLast, WriteLastFails, NextRound, Event, db, history
<1>2. DOMAIN live \subseteq DOMAIN live' /\ DOMAIN live' \subseteq DOMAIN live \cup Range(list)
  <2>1. CASE WriteLast /\ batch.buffer
    BY <1>1, <2>1, BatchPriced, WriteHand DEF WriteLast, InRound
  <2>2. CASE ~(WriteLast /\ batch.buffer)
    BY <2>2 DEF WriteLast, WriteLastFails, db
  <2> QED
    BY <2>1, <2>2
<1>3. HandInv'
  BY <1>1, HandEmpty DEF InRound
<1>4. CountedInv'
  BY <1>1, <1>2, NothingListed, CountedKept
<1> QED
  BY <1>3, <1>4

LEMMA NewHand ==
  ASSUME Shape, HandInv, CountedInv, NEW c \in LateCalls, NewCall(c)
  PROVE  HandInv' /\ CountedInv'
<1>1. /\ UNCHANGED <<archived, pc, list, at, read, batch, writers, counted, mishaps>>
      /\ \A d \in DOMAIN live \cup DOMAIN archived : d < c
  BY DEF NewCall, round, threads, control, history
<1>2. /\ c \notin DOMAIN live \cup DOMAIN archived
      /\ DOMAIN live' = DOMAIN live \cup {c} /\ \A d \in DOMAIN live : live'[d] = live[d]
  BY NewCallShape
<1>3. Unwritten' = Unwritten /\ c \notin Unwritten
  <2>1. Unwritten \subseteq DOMAIN live \cup DOMAIN archived
    BY InHand DEF HandInv
  <2> QED
    BY <1>1, <1>2, <2>1, UnwrittenStill
<1>4. HandInv'
  BY <1>1, <1>2, <1>3, HandKept
<1>5. CountedInv'
  <2>1. /\ counted \subseteq DOMAIN live \cup DOMAIN archived
        /\ \A x \in counted, d \in (DOMAIN live \cup Range(list)) \ counted : x < d
    BY DEF CountedInv
  <2>2. \A x \in counted', d \in (DOMAIN live' \cup Range(list')) \ counted' : x < d
    BY <1>1, <1>2, <2>1
  <2>3. counted' \subseteq DOMAIN live' \cup DOMAIN archived'
    BY <1>1, <1>2, <2>1
  <2> QED
    BY <2>2, <2>3 DEF CountedInv, Range
<1> QED
  BY <1>4, <1>5

LEMMA ArchiveHand ==
  ASSUME Shape, HandInv, CountedInv, NEW c \in Calls, ArchiveCall(c)
  PROVE  HandInv' /\ CountedInv'
<1>1. /\ UNCHANGED <<pc, list, at, read, batch, writers, counted>>
      /\ mishaps' = mishaps \cup (IF c \in Unwritten THEN {"moved"} ELSE {})
  BY DEF ArchiveCall, Event, round, threads, control
<1>2. /\ c \in DOMAIN live \ DOMAIN archived
      /\ DOMAIN live' = DOMAIN live \ {c} /\ \A d \in DOMAIN live \ {c} : live'[d] = live[d]
      /\ DOMAIN archived' = DOMAIN archived \cup {c}
  BY ArchiveShape
<1>3. Unwritten' = Unwritten
  BY <1>1, UnwrittenStill
<1>4. /\ Range(list) \subseteq DOMAIN live \cup DOMAIN archived
      /\ \A d \in Unwritten \cap DOMAIN live : live[d] = read[d]
      /\ "moved" \notin mishaps /\ pc \in InRound => Unwritten \subseteq DOMAIN live
  BY DEF HandInv
<1>5. /\ Range(list') \subseteq DOMAIN live' \cup DOMAIN archived'
      /\ \A d \in Unwritten' \cap DOMAIN live' : live'[d] = read'[d]
      /\ "moved" \notin mishaps' /\ pc' \in InRound => Unwritten' \subseteq DOMAIN live'
  BY <1>1, <1>2, <1>3, <1>4
<1>6. HandInv'
  BY <1>5 DEF HandInv, Range, InRound
<1>7. CountedInv'
  BY <1>1, <1>2, CountedKept
<1> QED
  BY <1>6, <1>7

-----------------------------------------------------------------------------
\* The steps after which a round has the calls it had.
LEMMA HandNext ==
  ASSUME Shape, HandInv, CountedInv, RerateNext
  PROVE  HandInv' /\ CountedInv'
<1>1. CASE CountCalls \/ ReadCalls
  BY <1>1, CountHand, ReadHand
<1>2. CASE ReadFails \/ UpdateBalance
  <2>1. /\ pc' \notin InRound /\ UNCHANGED <<list, read, live, archived, counted>>
        /\ mishaps \subseteq mishaps'
    BY <1>2 DEF ReadFails, UpdateBalance, Event, db, round, history, InRound
  <2> QED
    BY <2>1, NoneUnwritten, HandStill
<1>3. CASE LaunchRater \/ LaunchFails
  <2>1. /\ pc = "launch" /\ UNCHANGED <<pc, list, read, live, archived, counted>>
        /\ mishaps \subseteq mishaps'
    BY <1>3 DEF LaunchRater, LaunchFails, Launch, Event, db, history
  <2>2. Unwritten' = Unwritten
    BY <2>1 DEF Unwritten, Range
  <2> QED
    BY <2>1, <2>2, HandStill
<1>4. CASE Barrier
  <2>1. UNCHANGED <<list, read, live, archived, counted, mishaps>>
    BY <1>4 DEF Barrier, Priced, db, history
  <2> QED
    BY <1>4, <2>1, BarrierUnwritten, HandStill DEF InRound
<1>5. CASE CollectRow \/ WriterFails
  <2>1. /\ UNCHANGED <<pc, list, read, live, archived, counted>> /\ mishaps \subseteq mishaps'
        /\ WriteRow(TRUE) \/ WriteRow(FALSE)
    BY <1>5 DEF CollectRow, WriterFails, WriteRow, Event, db, history
  <2>2. Unwritten' \subseteq Unwritten
    BY <2>1, RowUnwritten
  <2> QED
    BY <2>1, <2>2, HandStill
<1>6. CASE SumPrices
  <2>1. /\ UNCHANGED <<list, read, live, archived, counted, mishaps>> /\ pc \in InRound
    BY <1>6 DEF SumPrices, db, round, history, InRound
  <2> QED
    BY <1>6, <2>1, SumUnwritten, HandStill
<1>7. CASE WriteLast \/ WriteLastFails
  BY <1>7, LastHand
<1>8. CASE Rater \/ Timer
  <2>1. UNCHANGED <<pc, list, at, batch, writers, read, live, archived, counted, mishaps>>
    BY <1>8 DEF Rater, TakeToRead, ReadRate, CacheRate, RaterUnchanged, Timer, db, round, control, history
  <2> QED
    BY <2>1, UnwrittenStill, HandStill
<1>9. CASE Writer
  <2>1. PICK w \in writers : TakeToWrite(w) \/ WriteBatch(w)
    BY <1>9 DEF Writer
  <2>2. CASE TakeToWrite(w)
    <3>1. UNCHANGED <<pc, list, read, live, archived, counted, mishaps>>
      BY <2>2 DEF TakeToWrite, db, round, control, history
    <3> QED
      BY <2>2, <3>1, TakeToWriteShape, HandStill
  <2>3. CASE WriteBatch(w)
    BY <2>3, BatchHand
  <2> QED
    BY <2>1, <2>2, <2>3
<1>10. CASE Die
  <2>1. /\ pc' \notin InRound /\ UNCHANGED <<list, read, live, archived, counted>>
        /\ mishaps \subseteq mishaps'
    BY <1>10 DEF Die, Event, db, round, InRound
  <2> QED
    BY <2>1, NoneUnwritten, HandStill
<1>11. CASE Environment
  BY <1>11, NewHand, ArchiveHand DEF Environment
<1> QED
  BY <1>1, <1>2, <1>3, <1>4, <1>5, <1>6, <1>7, <1>8, <1>9, <1>10, <1>11
     DEF RerateNext, Main, Fault

LEMMA ShapeNext ==
  ASSUME Shape, RerateNext
  PROVE  Shape'
<1>1. CASE CountCalls \/ ReadCalls \/ ReadFails
  BY <1>1, CountShape, ReadShape, ReadFailsShape
<1>2. CASE LaunchRater \/ LaunchFails
  <2>1. /\ Launch(TRUE) \/ Launch(FALSE)
        /\ counted' = counted /\ (mishaps' = mishaps \/ mishaps' = mishaps \cup {"nothread"})
    BY <1>2 DEF LaunchRater, LaunchFails, Event, history
  <2>2. mishaps' \subseteq Mishaps
    BY <2>1 DEF Shape, ControlTyped, Mishaps
  <2> QED
    BY <2>1, <2>2, LaunchShape
<1>3. CASE CollectRow \/ WriterFails
  <2>1. /\ WriteRow(TRUE) \/ WriteRow(FALSE)
        /\ counted' = counted /\ (mishaps' = mishaps \/ mishaps' = mishaps \cup {"nothread"})
    BY <1>3 DEF CollectRow, WriterFails, Event, history
  <2>2. mishaps' \subseteq Mishaps
    BY <2>1 DEF Shape, ControlTyped, Mishaps
  <2> QED
    BY <2>1, <2>2, RowShape
<1>4. CASE Barrier \/ SumPrices
  BY <1>4, BarrierShape, SumShape
<1>5. CASE WriteLast \/ WriteLastFails \/ UpdateBalance
  BY <1>5, WriteLastShape, WriteLastFailsShape, BalanceShape
<1>6. CASE Rater
  BY <1>6, RaterStepShape DEF Rater
<1>7. CASE Writer
  BY <1>7, TakeToWriteShape, WriteBatchShape DEF Writer
<1>8. CASE Timer \/ Die
  BY <1>8, TimerShape, DieShape
<1>9. CASE Environment
  BY <1>9, NewCallShape, ArchiveShape DEF Environment
<1> QED
  BY <1>1, <1>2, <1>3, <1>4, <1>5, <1>6, <1>7, <1>8, <1>9 DEF RerateNext, Main, Fault

-----------------------------------------------------------------------------
(***************************************************************************)
(* The ledger: what is in the balances, the tables and the sums of the     *)
(* program does not change.                                                *)
(***************************************************************************)
LEMMA HeldNext ==
  Held' = [c \in DOMAIN read' |-> IF c \in Unwritten' THEN read'[c] ELSE prices'[c]]
BY DEF Held

LEMMA HeldPriced ==
  ASSUME Shape
  PROVE  /\ DOMAIN Held = DOMAIN read
         /\ pc \in InRound => IsPriced(Held)
<1>1. IsPriced(read) /\ IsPriced(prices)
  BY DEF Shape, TablesTyped
<1>2. pc \in InRound => DOMAIN read = DOMAIN prices
  BY DEF Shape, RoundInv
<1> QED
  BY <1>1, <1>2 DEF Held, IsPriced

LEMMA LedgerTyped ==
  ASSUME Shape, NEW u \in Accounts
  PROVE  /\ balance[u] \in Int /\ diff[u] \in Int /\ Due(u) \in Int
         /\ Cost(live, u) \in Int /\ Cost(archived, u) \in Int /\ Cost(prices, u) \in Int
         /\ pc \in InRound => Cost(Held, u) \in Int
<1>1. /\ IsPriced(live) /\ IsPriced(archived) /\ IsPriced(prices)
      /\ balance[u] \in Int /\ diff[u] \in Int
  BY DEF Shape, TablesTyped
<1>2. Cost(live, u) \in Int /\ Cost(archived, u) \in Int /\ Cost(prices, u) \in Int
  BY <1>1, CostIsSum
<1>3. pc \in InRound => Cost(Held, u) \in Int
  BY HeldPriced, CostIsSum
<1>4. Due(u) \in Int
  BY <1>2, <1>3 DEF Due, InRound
<1> QED
  BY <1>1, <1>2, <1>3, <1>4

LEMMA CostsAgree ==
  ASSUME NEW p, NEW q, NEW u, DOMAIN p = DOMAIN q, \A c \in DOMAIN p : p[c] = q[c]
  PROVE  Cost(p, u) = Cost(q, u)
<1>1. {d \in DOMAIN p : u \in DOMAIN p[d]} = {d \in DOMAIN q : u \in DOMAIN q[d]}
  OBVIOUS
<1>2. [c \in {d \in DOMAIN p : u \in DOMAIN p[d]} |-> p[c][u]]
        = [c \in {d \in DOMAIN q : u \in DOMAIN q[d]} |-> q[c][u]]
  BY <1>1
<1> QED
  BY <1>2 DEF Cost

\* All is well so far.
Sound == /\ pc # "failed" /\ ~(pc = "write" /\ Stuck)
         /\ mishaps \cap {"refused", "moved"} = {}

LEMMA LedgerKept ==
  ASSUME LedgerInv, Sound' => Sound,
         Sound' => \A u \in Accounts : Worth(u)' + diff'[u] - Due(u)' = Worth(u) + diff[u] - Due(u)
  PROVE  LedgerInv'
<1>1. Sound => \A u \in Accounts : Worth(u) + diff[u] - Due(u) = FirstWorth(u)
  BY DEF LedgerInv, Sound
<1>2. \A u : FirstWorth(u)' = FirstWorth(u)
  BY WorthNext
<1>3. Sound' => \A u \in Accounts : Worth(u)' + diff'[u] - Due(u)' = FirstWorth(u)'
  BY <1>1, <1>2
<1> QED
  BY <1>3 DEF LedgerInv, Sound

\* A step that changes neither money nor what is held.
LEMMA LedgerStill ==
  ASSUME LedgerInv, Sound' => Sound, UNCHANGED <<live, archived, balance, diff>>,
         Sound' => \A u \in Accounts : Due(u)' = Due(u)
  PROVE  LedgerInv'
<1>1. \A u : Worth(u)' = Worth(u)
  BY WorthNext DEF Worth
<1> QED
  BY <1>1, LedgerKept

LEMMA DueStill ==
  ASSUME UNCHANGED <<pc, prices, read, Unwritten>>, NEW u
  PROVE  Due(u)' = Due(u)
<1>1. Held' = Held
  BY HeldNext DEF Held
<1>2. PICK h : h = Held'
  OBVIOUS
<1>3. Due(u)' = IF pc' \in {"launch", "write"} THEN Cost(h, u)
                ELSE IF pc' = "last" THEN Cost(h, u) - Cost(prices', u)
                ELSE 0
  BY <1>2, DueNext
<1> QED
  BY <1>1, <1>2, <1>3 DEF Due

LEMMA DueNone ==
  ASSUME NEW u
  PROVE  /\ pc \notin InRound => Due(u) = 0
         /\ pc' \notin InRound => Due(u)' = 0
<1>1. PICK h : h = Held'
  OBVIOUS
<1>2. Due(u)' = IF pc' \in {"launch", "write"} THEN Cost(h, u)
                ELSE IF pc' = "last" THEN Cost(h, u) - Cost(prices', u)
                ELSE 0
  BY <1>1, DueNext
<1> QED
  BY <1>2 DEF Due, InRound

LEMMA ReadLedger ==
  ASSUME Shape, LedgerInv, ReadCalls
  PROVE  LedgerInv'
<1>rows. PICK rows \in {RowsById, RowsByDate} : \E p : Taken(rows, p)
  BY RowsTaken
<1>p. PICK p : Taken(rows, p)
  BY <1>rows
<1>1. /\ p = [c \in Range(rows) |-> live[c]]
      /\ list' = rows /\ read' = p /\ prices' = (IF rows = <<>> THEN prices ELSE p)
      /\ diff' = [u \in Accounts |-> diff[u] + Cost(p, u)]
      /\ pc' = IF rows = <<>> THEN "read" ELSE "launch"
      /\ mishaps \subseteq mishaps'
  <2>1. pc = "read"
    BY DEF ReadCalls
  <2> QED
    BY <1>p, <2>1 DEF Taken
<1>2. pc = "read" /\ UNCHANGED <<live, archived, balance>>
  BY DEF ReadCalls, db
<1>3. Sound' => Sound
  BY <1>1, <1>2 DEF Sound
<1>4. DOMAIN live \subseteq Calls /\ IsPriced(live)
  BY DEF Shape, TablesTyped, IsPriced
<1>5. Range(rows) \subseteq DOMAIN live
  BY <1>4, RowsRead DEF Matching
<1>6. IsPriced(p) /\ DOMAIN p = Range(rows)
  BY <1>1, <1>4, <1>5 DEF IsPriced
<1>7. ASSUME NEW u \in Accounts
      PROVE  Worth(u)' + diff'[u] - Due(u)' = Worth(u) + diff[u] - Due(u)
  <2>1. Worth(u)' = Worth(u) /\ Due(u) = 0
    BY <1>2, WorthNext, DueNone DEF Worth, InRound
  <2>2. Cost(p, u) \in Int /\ diff'[u] = diff[u] + Cost(p, u)
    BY <1>1, <1>6, CostIsSum
  <2>3. Due(u)' = Cost(p, u)
    <3>1. CASE rows = <<>>
      <4>1. DOMAIN p = {}
        BY <1>6, <3>1, NothingListed
      <4> QED
        BY <1>1, <3>1, <4>1, CostOfNothing, DueNone DEF InRound
    <3>2. CASE rows # <<>>
      <4>1. Unwritten' = Range(rows)
        BY <1>1, <3>2 DEF Unwritten, Range
      <4>2. Held' = p
        BY <1>1, <1>6, <4>1, HeldNext
      <4> QED
        BY <1>1, <3>2, <4>2, DueNext
    <3> QED
      BY <3>1, <3>2
  <2>4. balance[u] \in Int /\ diff[u] \in Int /\ Cost(live, u) \in Int /\ Cost(archived, u) \in Int
    BY LedgerTyped
  <2>5. Worth(u) \in Int
    BY <2>4 DEF Worth
  <2> QED
    BY <2>1, <2>2, <2>3, <2>4, <2>5
<1> QED
  BY <1>3, <1>7, LedgerKept

LEMMA BalanceLedger ==
  ASSUME Shape, LedgerInv, UpdateBalance
  PROVE  LedgerInv'
<1>1. /\ pc = "read" /\ pc' \in {"read", "done"} /\ UNCHANGED <<live, archived, mishaps>>
  BY DEF UpdateBalance, history
<1>2. \/ UNCHANGED <<balance, diff>>
      \/ \E u \in Accounts : /\ balance' = [balance EXCEPT ![u] = @ + diff[u]]
                             /\ diff' = [diff EXCEPT ![u] = 0]
  BY DEF UpdateBalance
<1>3. ASSUME NEW u \in Accounts
      PROVE  Worth(u)' + diff'[u] - Due(u)' = Worth(u) + diff[u] - Due(u)
  <2>1. Due(u)' = 0 /\ Due(u) = 0
    BY <1>1, DueNone DEF InRound
  <2>2. balance[u] \in Int /\ diff[u] \in Int
    BY LedgerTyped
  <2>3. PICK x \in Int, y \in Int : x = Cost(live, u) /\ y = Cost(archived, u)
    BY LedgerTyped
  <2>4. balance'[u] + diff'[u] = balance[u] + diff[u] /\ balance'[u] \in Int /\ diff'[u] \in Int
    <3>1. balance \in [Accounts -> Int] /\ diff \in [Accounts -> Int]
      BY DEF Shape, TablesTyped
    <3> QED
      BY <1>2, <3>1
  <2>5. Worth(u)' = balance'[u] + x + y /\ Worth(u) = balance[u] + x + y
    BY <1>1, <2>3, WorthNext DEF Worth
  <2> QED
    BY <2>1, <2>2, <2>4, <2>5
<1>4. Sound' => Sound
  BY <1>1 DEF Sound
<1> QED
  BY <1>3, <1>4, LedgerKept

LEMMA BarrierLedger ==
  ASSUME Shape, LedgerInv, Barrier
  PROVE  LedgerInv'
<1>1. pc = "launch" /\ pc' = "write" /\ Unwritten' = Unwritten
  BY BarrierUnwritten
<1>2. UNCHANGED <<live, archived, balance, diff, read, mishaps>>
  BY DEF Barrier, Priced, db, control, history
<1>3. Unwritten = DOMAIN read
  BY <1>1, InHand DEF InRound
<1>4. Held' = Held
  BY <1>1, <1>2, <1>3, HeldNext DEF Held
<1>5. \A u : Due(u)' = Due(u)
  BY <1>1, <1>4, DueNext DEF Due
<1>6. Sound' => Sound
  BY <1>1, <1>2 DEF Sound
<1> QED
  BY <1>2, <1>5, <1>6, LedgerStill

LEMMA RowLedger ==
  ASSUME Shape, LedgerInv, NEW b \in BOOLEAN, WriteRow(b), mishaps \subseteq mishaps'
  PROVE  LedgerInv'
<1>1. pc = "write" /\ pc' = "write" /\ at <= Len(list)
      /\ UNCHANGED <<live, archived, balance, diff, read, prices>>
  BY DEF WriteRow, db, control
<1>2. /\ Stuck => Stuck'
      /\ Stuck' \/ Unwritten' = IF NeedsUpdate(list[at]) THEN Unwritten ELSE Unwritten \ {list[at]}
  BY RowUnwritten
<1>3. Sound' => Sound
  BY <1>1, <1>2 DEF Sound
<1>4. ~NeedsUpdate(list[at]) => prices[list[at]] = read[list[at]]
  <2>1. list[at] \in DOMAIN prices /\ list[at] \in DOMAIN read
    BY <1>1, Listed, InHand DEF Shape, InRound
  <2>2. prices[list[at]] \in [PayersOf(list[at]) -> Int] /\ read[list[at]] \in [PayersOf(list[at]) -> Int]
    BY <2>1 DEF Shape, TablesTyped, IsPriced
  <2> QED
    BY <2>2 DEF NeedsUpdate
<1>5. Sound' => Held' = Held
  <2>1. SUFFICES ASSUME ~Stuck' PROVE Held' = Held
    BY <1>1 DEF Sound
  <2>2. \A c \in DOMAIN read :
           (IF c \in Unwritten' THEN read[c] ELSE prices[c]) = (IF c \in Unwritten THEN read[c] ELSE prices[c])
    BY <1>2, <1>4, <2>1
  <2> QED
    BY <1>1, <2>2, HeldNext DEF Held
<1>6. Sound' => \A u \in Accounts : Due(u)' = Due(u)
  BY <1>1, <1>5, DueNext DEF Due
<1> QED
  BY <1>1, <1>3, <1>6, LedgerStill

LEMMA SumLedger ==
  ASSUME Shape, LedgerInv, SumPrices
  PROVE  LedgerInv'
<1>1. /\ pc = "write" /\ pc' = "last" /\ usem = 0
      /\ diff' = [u \in Accounts |-> diff[u] - Cost(prices, u)]
      /\ UNCHANGED <<live, archived, balance, read, prices, mishaps>>
  BY DEF SumPrices, db, round, history
<1>2. Held' = Held
  BY <1>1, SumUnwritten, HeldNext DEF Held
<1>3. ~Stuck
  BY <1>1, WritersFinite DEF Stuck, Shape
<1>4. Sound' => Sound
  BY <1>1, <1>3 DEF Sound
<1>5. ASSUME NEW u \in Accounts
      PROVE  Worth(u)' + diff'[u] - Due(u)' = Worth(u) + diff[u] - Due(u)
  <2>1. PICK d \in Int, h \in Int, p \in Int : d = diff[u] /\ h = Cost(Held, u) /\ p = Cost(prices, u)
    BY <1>1, LedgerTyped DEF InRound
  <2>2. Due(u)' = h - p /\ Due(u) = h /\ diff'[u] = d - p
    BY <1>1, <1>2, <2>1, DueNext DEF Due
  <2>3. Worth(u)' = Worth(u)
    BY <1>1, WorthNext DEF Worth
  <2>4. Worth(u) \in Int
    BY LedgerTyped DEF Worth
  <2> QED
    BY <2>1, <2>2, <2>3, <2>4
<1> QED
  BY <1>4, <1>5, LedgerKept

\* A price written changes what is held by as much as what is in the table.
LEMMA WriteMoves ==
  ASSUME Shape, HandInv, "moved" \notin mishaps, pc \in {"write", "last"}, NEW rows, rows \subseteq Unwritten,
         Write(rows), NEW h,
         h = [c \in DOMAIN read |-> IF c \in Unwritten \ rows THEN read[c] ELSE prices[c]],
         NEW u \in Accounts
  PROVE  Cost(live', u) - Cost(live, u) = Cost(h, u) - Cost(Held, u)
         /\ Cost(live', u) \in Int /\ Cost(h, u) \in Int
<1>1. /\ DOMAIN prices = Range(list) /\ DOMAIN read = Range(list) /\ Unwritten \subseteq Range(list)
      /\ Range(list) \subseteq Calls
  BY InHand DEF InRound
<1>2. /\ \A c \in Unwritten \cap DOMAIN live : live[c] = read[c]
      /\ Unwritten \subseteq DOMAIN live
  BY DEF HandInv, InRound
<1>3. IsPriced(live) /\ IsPriced(read) /\ IsPriced(prices)
  BY DEF Shape, TablesTyped
<1>4. IsPriced(Held) /\ IsPriced(h)
  <2>1. IsPriced(Held)
    BY HeldPriced DEF InRound
  <2>2. IsPriced(h)
    BY <1>1, <1>3 DEF IsPriced
  <2> QED
    BY <2>1, <2>2
<1>5. /\ DOMAIN live' = DOMAIN live /\ IsPriced(live')
      /\ \A c \in rows : live'[c] = prices[c]
      /\ \A c \in DOMAIN live \ rows : live'[c] = live[c]
  <2>1. DOMAIN live' = DOMAIN live
    BY <1>2 DEF Write
  <2>2. \A c \in rows : live'[c] = prices[c]
    BY DEF Write
  <2>3. \A c \in DOMAIN live \ rows : live'[c] = live[c]
    BY DEF Write
  <2>4. IsPriced(live')
    BY <1>1, <1>3, <2>1, <2>2, <2>3 DEF IsPriced
  <2> QED
    BY <2>1, <2>2, <2>3, <2>4
<1>6. DOMAIN Held = Range(list) /\ DOMAIN h = Range(list)
      /\ (\A c \in rows : c \in Range(list) /\ c \in DOMAIN live /\ Held[c] = live[c] /\ h[c] = live'[c])
      /\ (\A c \in Range(list) \ rows : Held[c] = h[c])
  BY <1>1, <1>2, <1>5 DEF Held
<1>7. ASSUME NEW c \in Calls
      PROVE  Term(live', u)[c] - Term(live, u)[c] = Term(h, u)[c] - Term(Held, u)[c]
  <2>1. /\ Term(live', u)[c] = IF c \in DOMAIN live' /\ u \in PayersOf(c) THEN live'[c][u] ELSE 0
        /\ Term(live, u)[c] = IF c \in DOMAIN live /\ u \in PayersOf(c) THEN live[c][u] ELSE 0
        /\ Term(h, u)[c] = IF c \in DOMAIN h /\ u \in PayersOf(c) THEN h[c][u] ELSE 0
        /\ Term(Held, u)[c] = IF c \in DOMAIN Held /\ u \in PayersOf(c) THEN Held[c][u] ELSE 0
    BY DEF Term
  <2>2. Term(live', u)[c] \in Int /\ Term(live, u)[c] \in Int /\ Term(h, u)[c] \in Int /\ Term(Held, u)[c] \in Int
    BY <1>3, <1>4, <1>5, CostIsSum
  <2>3. CASE c \in rows
    <3>1. Term(live', u)[c] = Term(h, u)[c] /\ Term(live, u)[c] = Term(Held, u)[c]
      BY <1>5, <1>6, <2>1, <2>3
    <3> QED
      BY <2>2, <3>1
  <2>4. CASE c \notin rows
    <3>1. Term(live', u)[c] = Term(live, u)[c] /\ Term(h, u)[c] = Term(Held, u)[c]
      BY <1>5, <1>6, <2>1, <2>4
    <3> QED
      BY <2>2, <3>1
  <2> QED
    BY <2>3, <2>4
<1>8. PICK p, p2, q : p = live /\ p2 = live' /\ q = Held
  OBVIOUS
<1>9. IsPriced(p) /\ IsPriced(p2) /\ IsPriced(q) /\ IsPriced(h)
  BY <1>3, <1>4, <1>5, <1>8
<1>10. \A c \in Calls : Term(p2, u)[c] - Term(p, u)[c] = Term(h, u)[c] - Term(q, u)[c]
  BY <1>7, <1>8
<1>11. Cost(p2, u) - Cost(p, u) = Cost(h, u) - Cost(q, u) /\ Cost(p2, u) \in Int /\ Cost(h, u) \in Int
  BY <1>9, <1>10, CostsMoveTogether
<1> QED
  BY <1>8, <1>11

LEMMA LastLedger ==
  ASSUME Shape, HandInv, LedgerInv, WriteLast
  PROVE  LedgerInv'
<1>1. /\ pc = "last" /\ pc' = "read" /\ UNCHANGED <<archived, balance, diff, mishaps>>
  BY DEF WriteLast, NextRound, history
<1>2. Sound' => Sound
  BY <1>1 DEF Sound
<1>3. Unwritten = batch.rows
  <2>1. at > Len(list) /\ writers = {} /\ Len(list) \in Nat /\ at \in Nat
    BY <1>1, Listed DEF Shape, RoundInv, RestInv, InRound, ControlTyped
  <2>2. at .. Len(list) = {}
    BY <2>1
  <2> QED
    BY <1>1, <2>1, <2>2, InHand
<1>4. ASSUME Sound', NEW u \in Accounts
      PROVE  Worth(u)' + diff'[u] - Due(u)' = Worth(u) + diff[u] - Due(u)
  <2>1. "moved" \notin mishaps
    BY <1>1, <1>4 DEF Sound
  <2>2. Cost(live', u) - Cost(live, u) = Cost(prices, u) - Cost(Held, u) /\ Cost(live', u) \in Int
    <3>1. CASE batch.buffer
      <4> DEFINE h == [c \in DOMAIN read |-> IF c \in Unwritten \ batch.rows THEN read[c] ELSE prices[c]]
      <4>1. Write(batch.rows)
        BY <3>1 DEF WriteLast
      <4>2. Cost(live', u) - Cost(live, u) = Cost(h, u) - Cost(Held, u) /\ Cost(live', u) \in Int
        BY <1>1, <1>3, <2>1, <4>1, WriteMoves
      <4>3. DOMAIN h = DOMAIN prices /\ \A c \in DOMAIN h : h[c] = prices[c]
        BY <1>1, <1>3, InHand DEF InRound
      <4> HIDE DEF h
      <4>4. Cost(h, u) = Cost(prices, u)
        BY <4>3, CostsAgree
      <4> QED
        BY <4>2, <4>4
    <3>2. CASE ~batch.buffer
      <4>1. live' = live /\ Unwritten = {}
        BY <1>1, <1>3, <3>2 DEF WriteLast, Shape, WritersInv
      <4>2. DOMAIN Held = DOMAIN prices /\ \A c \in DOMAIN Held : Held[c] = prices[c]
        BY <1>1, <4>1, InHand DEF InRound, Held
      <4>3. Cost(Held, u) = Cost(prices, u)
        BY <4>2, CostsAgree
      <4> QED
        BY <4>1, <4>3, LedgerTyped
    <3> QED
      BY <3>1, <3>2
  <2>3. PICK b \in Int, x \in Int, a \in Int, p \in Int, h \in Int, y \in Int :
           /\ b = balance[u] /\ x = Cost(live, u) /\ a = Cost(archived, u) /\ p = Cost(prices, u)
           /\ h = Cost(Held, u) /\ y = Cost(live', u)
    BY <1>1, <2>2, LedgerTyped DEF InRound
  <2>4. Worth(u)' = b + y + a /\ Worth(u) = b + x + a /\ y - x = p - h
    BY <1>1, <2>2, <2>3, WorthNext DEF Worth
  <2>5. Due(u) = h - p /\ Due(u)' = 0
    BY <1>1, <2>3, DueNone DEF Due, InRound
  <2>6. diff'[u] = diff[u] /\ diff[u] \in Int
    BY <1>1, LedgerTyped
  <2> QED
    BY <2>3, <2>4, <2>5, <2>6
<1> QED
  BY <1>2, <1>4, LedgerKept

LEMMA BatchLedger ==
  ASSUME Shape, HandInv, LedgerInv, NEW w \in writers, WriteBatch(w)
  PROVE  LedgerInv'
<1>1. /\ Write(w.rows)
      /\ UNCHANGED <<pc, archived, balance, diff, read, prices, mishaps>>
  BY DEF WriteBatch, round, control, history
<1>2. pc = "write" /\ Unwritten' = Unwritten \ w.rows /\ w.rows \subseteq Unwritten /\ Stuck' = Stuck
  BY WritersAtWork, BatchUnwritten, WriteBatchShape
<1>3. Sound' => Sound
  BY <1>1, <1>2 DEF Sound
<1>4. ASSUME Sound', NEW u \in Accounts
      PROVE  Worth(u)' + diff'[u] - Due(u)' = Worth(u) + diff[u] - Due(u)
  <2>1. "moved" \notin mishaps
    BY <1>1, <1>4 DEF Sound
  <2>2. PICK h : h = [c \in DOMAIN read |-> IF c \in Unwritten \ w.rows THEN read[c] ELSE prices[c]]
    OBVIOUS
  <2>3. h = Held'
    BY <1>1, <1>2, <2>2, HeldNext
  <2>4. /\ Cost(live', u) - Cost(live, u) = Cost(h, u) - Cost(Held, u)
        /\ Cost(live', u) \in Int /\ Cost(h, u) \in Int
    BY <1>1, <1>2, <2>1, <2>2, WriteMoves
  <2>5. PICK b \in Int, x \in Int, a \in Int, k \in Int, g \in Int, y \in Int :
           /\ b = balance[u] /\ x = Cost(live, u) /\ a = Cost(archived, u) /\ k = Cost(h, u)
           /\ g = Cost(Held, u) /\ y = Cost(live', u)
    BY <1>2, <2>4, LedgerTyped DEF InRound
  <2>6. Worth(u)' = b + y + a /\ Worth(u) = b + x + a /\ y - x = k - g
    BY <1>1, <2>4, <2>5, WorthNext DEF Worth
  <2>7. Due(u) = g /\ Due(u)' = k
    BY <1>1, <1>2, <2>3, <2>5, DueNext DEF Due
  <2>8. diff'[u] = diff[u] /\ diff[u] \in Int
    BY <1>1, LedgerTyped
  <2> QED
    BY <2>5, <2>6, <2>7, <2>8
<1> QED
  BY <1>3, <1>4, LedgerKept

LEMMA NewLedger ==
  ASSUME Shape, LedgerInv, NEW c \in LateCalls, NewCall(c)
  PROVE  LedgerInv'
<1>1. /\ balance' = [u \in Accounts |-> IF u \in PayersOf(c) THEN balance[u] - OldPrice ELSE balance[u]]
      /\ UNCHANGED <<pc, list, at, batch, writers, usem, archived, diff, read, prices, mishaps>>
  BY DEF NewCall, round, threads, control, history
<1>2. /\ Shape' /\ c \in Calls /\ c \notin DOMAIN live
      /\ DOMAIN live' = DOMAIN live \cup {c} /\ \A d \in DOMAIN live : live'[d] = live[d]
      /\ live'[c] = [u \in PayersOf(c) |-> OldPrice] /\ OldPrice \in Int
  BY NewCallShape
<1>3. Unwritten' = Unwritten /\ Stuck' = Stuck
  BY <1>1, UnwrittenStill DEF Stuck
<1>4. Sound' => Sound
  BY <1>1, <1>3 DEF Sound
<1>5. IsPriced(live) /\ IsPriced(live')
  <2>1. IsPriced(live)'
    BY <1>2 DEF Shape, TablesTyped
  <2> QED
    BY <2>1 DEF Shape, TablesTyped, IsPriced, PayersOf, Range
<1>6. ASSUME NEW u \in Accounts
      PROVE  Worth(u)' + diff'[u] - Due(u)' = Worth(u) + diff[u] - Due(u)
  <2>1. \A d \in Calls \ {c} : Term(live', u)[d] = Term(live, u)[d]
    BY <1>2 DEF Term
  <2>2. /\ Cost(live', u) - Cost(live, u) = Term(live', u)[c] - Term(live, u)[c]
        /\ Cost(live', u) \in Int /\ Cost(live, u) \in Int
    BY <1>2, <1>5, <2>1, CostChanges
  <2>3. Term(live, u)[c] = 0 /\ Term(live', u)[c] = IF u \in PayersOf(c) THEN OldPrice ELSE 0
    BY <1>2 DEF Term
  <2>4. PICK b \in Int, x \in Int, a \in Int, y \in Int :
           b = balance[u] /\ x = Cost(live, u) /\ a = Cost(archived, u) /\ y = Cost(live', u)
    BY <2>2, LedgerTyped
  <2>5. y - x = (IF u \in PayersOf(c) THEN OldPrice ELSE 0)
    BY <1>2, <2>2, <2>3, <2>4
  <2>6. Worth(u)' = balance'[u] + y + a /\ Worth(u) = b + x + a
        /\ balance'[u] = b - (IF u \in PayersOf(c) THEN OldPrice ELSE 0)
    BY <1>1, <1>2, <2>4, WorthNext DEF Worth
  <2>7. Due(u)' = Due(u) /\ Due(u) \in Int /\ diff'[u] = diff[u] /\ diff[u] \in Int
    BY <1>1, <1>3, DueStill, LedgerTyped
  <2>8. PICK o \in Int : o = (IF u \in PayersOf(c) THEN OldPrice ELSE 0)
    BY <1>2
  <2> QED
    BY <2>4, <2>5, <2>6, <2>7, <2>8
<1> QED
  BY <1>4, <1>6, LedgerKept

LEMMA ArchiveLedger ==
  ASSUME Shape, LedgerInv, NEW c \in Calls, ArchiveCall(c)
  PROVE  LedgerInv'
<1>1. /\ mishaps \subseteq mishaps'
      /\ UNCHANGED <<balance, pc, list, at, batch, writers, usem, diff, read, prices>>
  BY DEF ArchiveCall, Event, round, threads, control
<1>2. /\ Shape' /\ c \in DOMAIN live \ DOMAIN archived
      /\ DOMAIN live' = DOMAIN live \ {c} /\ (\A d \in DOMAIN live \ {c} : live'[d] = live[d])
      /\ DOMAIN archived' = DOMAIN archived \cup {c} /\ archived'[c] = live[c]
      /\ \A d \in DOMAIN archived : archived'[d] = archived[d]
  BY ArchiveShape
<1>3. Unwritten' = Unwritten /\ Stuck' = Stuck
  BY <1>1, UnwrittenStill DEF Stuck
<1>4. Sound' => Sound
  BY <1>1, <1>3 DEF Sound
<1>5. IsPriced(live) /\ IsPriced(live') /\ IsPriced(archived) /\ IsPriced(archived')
  <2>1. IsPriced(live)' /\ IsPriced(archived)'
    BY <1>2 DEF Shape, TablesTyped
  <2> QED
    BY <2>1 DEF Shape, TablesTyped, IsPriced, PayersOf, Range
<1>6. ASSUME NEW u \in Accounts
      PROVE  Worth(u)' + diff'[u] - Due(u)' = Worth(u) + diff[u] - Due(u)
  <2>1. \A d \in Calls \ {c} : Term(live', u)[d] = Term(live, u)[d] /\ Term(archived', u)[d] = Term(archived, u)[d]
    BY <1>2 DEF Term
  <2>2. /\ Cost(live', u) - Cost(live, u) = Term(live', u)[c] - Term(live, u)[c]
        /\ Cost(live', u) \in Int /\ Cost(live, u) \in Int
    BY <1>5, <2>1, CostChanges
  <2>3. /\ Cost(archived', u) - Cost(archived, u) = Term(archived', u)[c] - Term(archived, u)[c]
        /\ Cost(archived', u) \in Int /\ Cost(archived, u) \in Int
    BY <1>5, <2>1, CostChanges
  <2>4. /\ Term(live', u)[c] = 0 /\ Term(archived, u)[c] = 0
        /\ Term(archived', u)[c] = Term(live, u)[c] /\ Term(live, u)[c] \in Int
    <3>1. Term(live', u)[c] = 0 /\ Term(archived, u)[c] = 0 /\ Term(archived', u)[c] = Term(live, u)[c]
      BY <1>2 DEF Term
    <3>2. Term(live, u)[c] \in Int
      BY <1>5, CostIsSum
    <3> QED
      BY <3>1, <3>2
  <2>5. PICK x \in Int, a \in Int, y \in Int, z \in Int, t \in Int :
           /\ x = Cost(live, u) /\ a = Cost(archived, u) /\ y = Cost(live', u) /\ z = Cost(archived', u)
           /\ t = Term(live, u)[c]
    BY <2>2, <2>3, <2>4
  <2>6. y - x = 0 - t /\ z - a = t
    BY <2>2, <2>3, <2>4, <2>5
  <2>7. Worth(u)' = balance[u] + y + z /\ Worth(u) = balance[u] + x + a /\ balance[u] \in Int
    BY <1>1, <2>5, WorthNext, LedgerTyped DEF Worth
  <2>8. Due(u)' = Due(u) /\ Due(u) \in Int /\ diff'[u] = diff[u] /\ diff[u] \in Int
    BY <1>1, <1>3, DueStill, LedgerTyped
  <2> QED
    BY <2>5, <2>6, <2>7, <2>8
<1> QED
  BY <1>4, <1>6, LedgerKept

LEMMA LedgerNext ==
  ASSUME Shape, HandInv, LedgerInv, RerateNext
  PROVE  LedgerInv'
<1>1. CASE ReadCalls \/ UpdateBalance \/ Barrier \/ SumPrices \/ WriteLast
  BY <1>1, ReadLedger, BalanceLedger, BarrierLedger, SumLedger, LastLedger
<1>2. CASE CollectRow \/ WriterFails
  <2>1. mishaps \subseteq mishaps' /\ (WriteRow(TRUE) \/ WriteRow(FALSE))
    BY <1>2 DEF CollectRow, WriterFails, Event, history
  <2> QED
    BY <2>1, RowLedger
<1>3. CASE CountCalls \/ ReadFails
  <2>1. /\ pc \notin InRound /\ pc' \notin InRound /\ pc # "failed" /\ mishaps \subseteq mishaps'
        /\ UNCHANGED <<live, archived, balance, diff>>
    BY <1>3 DEF CountCalls, ReadFails, Event, db, InRound
  <2>2. \A u \in Accounts : Due(u)' = Due(u)
    BY <2>1, DueNone
  <2>3. Sound' => Sound
    BY <2>1 DEF Sound, InRound
  <2> QED
    BY <2>1, <2>2, <2>3, LedgerStill
<1>4. CASE LaunchRater \/ LaunchFails
  <2>1. /\ pc = "launch" /\ pc' = pc /\ mishaps \subseteq mishaps'
        /\ UNCHANGED <<live, archived, balance, diff, list, prices, read>>
    BY <1>4 DEF LaunchRater, LaunchFails, Launch, Event, db, control, history
  <2>2. Unwritten' = Unwritten
    BY <2>1 DEF Unwritten, Range
  <2>3. \A u \in Accounts : Due(u)' = Due(u)
    BY <2>1, <2>2, DueStill
  <2>4. Sound' => Sound
    BY <2>1 DEF Sound
  <2> QED
    BY <2>1, <2>3, <2>4, LedgerStill
<1>5. CASE Rater \/ Timer
  <2>1. /\ UNCHANGED <<live, archived, balance, diff, pc, list, at, batch, writers, usem, prices, read, mishaps>>
    BY <1>5 DEF Rater, TakeToRead, ReadRate, CacheRate, RaterUnchanged, Timer, db, round, control, history
  <2>2. Unwritten' = Unwritten /\ Stuck' = Stuck
    BY <2>1, UnwrittenStill DEF Stuck
  <2>3. \A u \in Accounts : Due(u)' = Due(u)
    BY <2>1, <2>2, DueStill
  <2>4. Sound' => Sound
    BY <2>1, <2>2 DEF Sound
  <2> QED
    BY <2>1, <2>3, <2>4, LedgerStill
<1>6. CASE Writer
  <2>1. PICK w \in writers : TakeToWrite(w) \/ WriteBatch(w)
    BY <1>6 DEF Writer
  <2>2. CASE TakeToWrite(w)
    <3>1. UNCHANGED <<live, archived, balance, diff, pc, prices, read, mishaps>>
      BY <2>2 DEF TakeToWrite, db, round, control, history
    <3>2. Unwritten' = Unwritten /\ Stuck' = Stuck
      BY <2>2, TakeToWriteShape
    <3>3. \A u \in Accounts : Due(u)' = Due(u)
      BY <3>1, <3>2, DueStill
    <3>4. Sound' => Sound
      BY <3>1, <3>2 DEF Sound
    <3> QED
      BY <3>1, <3>3, <3>4, LedgerStill
  <2>3. CASE WriteBatch(w)
    BY <2>3, BatchLedger
  <2> QED
    BY <2>1, <2>2, <2>3
<1>7. CASE WriteLastFails \/ Die
  <2>1. pc' = "failed" \/ "refused" \in mishaps'
    BY <1>7 DEF WriteLastFails, Die, Event
  <2>2. ~Sound'
    BY <2>1 DEF Sound
  <2> QED
    BY <2>2 DEF LedgerInv, Sound
<1>8. CASE Environment
  BY <1>8, NewLedger, ArchiveLedger DEF Environment
<1> QED
  BY <1>1, <1>2, <1>3, <1>4, <1>5, <1>6, <1>7, <1>8 DEF RerateNext, Main, Fault

-----------------------------------------------------------------------------
(***************************************************************************)
(* The calls that were counted are read, a round after the other, as long  *)
(* as the rows come in the order of their ids.                             *)
(***************************************************************************)
InOrder == /\ pc # "failed" /\ ~(pc = "write" /\ Stuck)
           /\ mishaps \cap {"refused", "unread", "unordered"} = {}

LEMMA AheadFinite ==
  ASSUME Shape
  PROVE  /\ Ahead \subseteq Matching /\ Ahead \subseteq counted /\ IsFiniteSet(Ahead)
         /\ Cardinality(Ahead) \in Nat /\ IsFiniteSet(Calls)
         /\ DOMAIN live \subseteq Calls /\ Calls \subseteq Nat
<1>1. DOMAIN live \subseteq Calls /\ IsFiniteSet(Calls) /\ Calls \subseteq Nat
  BY RerateAssumption DEF RerateAssumption, Shape, TablesTyped, IsPriced
<1>2. Ahead \subseteq Matching /\ Ahead \subseteq counted /\ Ahead \subseteq Calls
  BY <1>1 DEF Ahead, Matching
<1> QED
  BY <1>1, <1>2, FS_Subset, FS_CardinalityType

LEMMA CoverNow ==
  ASSUME CoverInv, InOrder
  PROVE  /\ \A c \in (counted \cap DOMAIN live) \ Unwritten :
              Wanted(c) \/ \A u \in PayersOf(c) : live[c][u] \in Todays(u)
         /\ \A c \in Range(list) : ~Wanted(c)
         /\ Cardinality(Ahead) <= RoundsLeft * Limit
         /\ pc = "done" => Ahead = {}
BY DEF CoverInv, InOrder

LEMMA CoverNext ==
  ASSUME InOrder' =>
           /\ \A c \in (counted' \cap DOMAIN live') \ Unwritten' :
                Wanted(c)' \/ \A u \in PayersOf(c) : live'[c][u] \in Todays(u)
           /\ \A c \in Range(list') : ~Wanted(c)'
           /\ Cardinality(Ahead') <= RoundsLeft' * Limit
           /\ pc' = "done" => Ahead' = {}
  PROVE  CoverInv'
<1>1. Range(list)' = Range(list')
  BY DEF Range
<1> QED
  BY <1>1 DEF CoverInv, InOrder, PayersOf, Todays

\* What has been read stays, and what is written has prices of today.
LEMMA CoverKept ==
  ASSUME Shape, CoverInv, UNCHANGED <<counted, last, first, RoundsLeft>>, InOrder' => InOrder,
         Range(list') \subseteq Range(list),
         InOrder' => Ahead' \subseteq Ahead,
         InOrder' => \A c \in (counted \cap DOMAIN live') \ Unwritten' :
           \/ c \in DOMAIN live /\ c \notin Unwritten /\ live'[c] = live[c]
           \/ \A u \in PayersOf(c) : live'[c][u] \in Todays(u),
         InOrder' /\ pc' = "done" => Ahead' = {}
  PROVE  CoverInv'
<1> SUFFICES ASSUME InOrder'
             PROVE  /\ \A c \in (counted' \cap DOMAIN live') \ Unwritten' :
                         Wanted(c)' \/ \A u \in PayersOf(c) : live'[c][u] \in Todays(u)
                    /\ \A c \in Range(list') : ~Wanted(c)'
                    /\ Cardinality(Ahead') <= RoundsLeft' * Limit
                    /\ pc' = "done" => Ahead' = {}
  BY CoverNext
<1>1. /\ \A c \in (counted \cap DOMAIN live) \ Unwritten :
           Wanted(c) \/ \A u \in PayersOf(c) : live[c][u] \in Todays(u)
      /\ \A c \in Range(list) : ~Wanted(c)
      /\ Cardinality(Ahead) <= RoundsLeft * Limit
  BY CoverNow
<1>2. \A c : Wanted(c)' = Wanted(c)
  BY DEF Wanted
<1>3. \A c \in (counted' \cap DOMAIN live') \ Unwritten' :
         Wanted(c)' \/ \A u \in PayersOf(c) : live'[c][u] \in Todays(u)
  BY <1>1, <1>2
<1>4. Cardinality(Ahead') <= Cardinality(Ahead) /\ Cardinality(Ahead') \in Nat /\ Cardinality(Ahead) \in Nat
  BY AheadFinite, FS_Subset, FS_CardinalityType
<1>5. RoundsLeft * Limit \in Int
  BY RerateAssumption DEF RerateAssumption, RoundsLeft, Shape, ControlTyped
<1>6. Cardinality(Ahead') <= RoundsLeft' * Limit
  BY <1>1, <1>4, <1>5
<1> QED
  BY <1>1, <1>2, <1>3, <1>6

LEMMA AheadStill ==
  ASSUME UNCHANGED <<counted, last, first>>, DOMAIN live' \cap counted \subseteq DOMAIN live
  PROVE  Ahead' \subseteq Ahead
<1>1. \A c : Wanted(c)' = Wanted(c)
  BY DEF Wanted
<1> QED
  BY <1>1 DEF Ahead

\* Steps that read nothing and write nothing.
LEMMA CoverStill ==
  ASSUME Shape, CoverInv, UNCHANGED <<live, counted, last, first, list, rounds, Unwritten>>,
         pc \in InRound, pc' \in InRound, InOrder' => InOrder
  PROVE  CoverInv'
<1>1. RoundsLeft' = RoundsLeft /\ pc' # "done"
  BY DEF RoundsLeft, InRound
<1>2. Ahead' \subseteq Ahead
  BY AheadStill
<1> QED
  BY <1>1, <1>2, CoverKept

LEMMA CountCover ==
  ASSUME Shape, CountCalls
  PROVE  CoverInv'
<1>1. /\ pc = "count" /\ counted' = DOMAIN live /\ UNCHANGED <<live, list, first>>
      /\ first /\ list = <<>>
  BY DEF CountCalls, db, round, Shape, RestInv
<1>2. Limit \in Nat /\ DOMAIN live \subseteq Nat /\ DOMAIN live \subseteq Calls
  BY AheadFinite, RerateAssumption DEF RerateAssumption
<1>3. Range(list') = {}
  BY <1>1, NothingListed
<1>4. CASE DOMAIN live = {}
  <2>1. pc' = "done" /\ rounds' = rounds
    BY <1>4 DEF CountCalls
  <2>2. Ahead' = {}
    BY <1>1, <1>4 DEF Ahead
  <2>3. RoundsLeft' = rounds /\ rounds \in Nat
    BY <2>1 DEF RoundsLeft, InRound, Shape, ControlTyped
  <2>4. Cardinality(Ahead') <= RoundsLeft' * Limit
    <3>1. Cardinality(Ahead') = 0
      BY <2>2, FS_EmptySet
    <3>2. \A m, n \in Nat : 0 <= m * n
      OBVIOUS
    <3> QED
      BY <1>2, <2>3, <3>1, <3>2
  <2> QED
    BY <1>1, <1>3, <1>4, <2>2, <2>4, CoverNext
<1>5. CASE DOMAIN live # {}
  <2>1. /\ pc' = "read" /\ rounds' = Rounds(Cardinality(DOMAIN live))
        /\ last' = CHOOSE c \in DOMAIN live : \A d \in DOMAIN live : c <= d
    BY <1>5 DEF CountCalls
  <2>2. \A c \in DOMAIN live : Wanted(c)'
    <3>1. \A c \in DOMAIN live : last' <= c /\ last' \in Int /\ c \in Int
      BY <1>2, <1>5, <2>1, LeastCall
    <3> QED
      BY <1>1, <3>1 DEF Wanted
  <2>3. Ahead' = DOMAIN live
    BY <1>1, <2>2 DEF Ahead
  <2>4. Cardinality(DOMAIN live) \in Nat
    BY <1>2, AheadFinite, FS_Subset, FS_CardinalityType
  <2>5. RoundsLeft' = Rounds(Cardinality(DOMAIN live))
    BY <2>1 DEF RoundsLeft, InRound
  <2>6. Cardinality(Ahead') <= RoundsLeft' * Limit
    BY <2>3, <2>4, <2>5, RoundsEnough
  <2> QED
    BY <1>1, <1>3, <2>1, <2>2, <2>6, CoverNext
<1> QED
  BY <1>4, <1>5

LEMMA RowsCounted ==
  ASSUME NEW s \in Seq(Calls), IsInjective(s)
  PROVE  IsFiniteSet(Range(s)) /\ Cardinality(Range(s)) = Len(s)
<1>1. Range(s) = {s[i] : i \in 1 .. Len(s)} /\ Len(s) \in Nat
  BY DEF Range
<1>2. s \in [1 .. Len(s) -> Range(s)] /\ \A i, j \in 1 .. Len(s) : s[i] = s[j] => i = j
  BY <1>1 DEF IsInjective
<1>3. \A y \in Range(s) : \E i \in 1 .. Len(s) : s[i] = y
  BY <1>1
<1>4. s \in Bijection(1 .. Len(s), Range(s))
  BY <1>2, <1>3 DEF Bijection, Injection, Surjection, IsInjective
<1>5. ExistsBijection(1 .. Len(s), Range(s))
  BY <1>4 DEF ExistsBijection
<1> QED
  BY <1>1, <1>5, FS_CountingElements, FS_NatBijection

LEMMA ReadCover ==
  ASSUME Shape, CountedInv, CoverInv, ReadCalls
  PROVE  CoverInv'
<1> SUFFICES ASSUME InOrder'
             PROVE  /\ \A c \in (counted' \cap DOMAIN live') \ Unwritten' :
                         Wanted(c)' \/ \A u \in PayersOf(c) : live'[c][u] \in Todays(u)
                    /\ \A c \in Range(list') : ~Wanted(c)'
                    /\ Cardinality(Ahead') <= RoundsLeft' * Limit
                    /\ pc' = "done" => Ahead' = {}
  BY CoverNext
<1>1. /\ pc = "read" /\ rounds > 0 /\ first' = FALSE /\ UNCHANGED <<live, counted>>
      /\ mishaps \subseteq mishaps' /\ ("unordered" \in mishaps' \/ list' = RowsById)
      /\ list' = <<>> => last' = last + Limit /\ rounds' = rounds - 1 /\ pc' = "read"
      /\ list' # <<>> => last' = list'[Len(list')] /\ rounds' = rounds /\ pc' = "launch"
  BY DEF ReadCalls, db
<1>2. InOrder
  BY <1>1 DEF InOrder
<1>3. PICK s : s = RowsById
  OBVIOUS
<1>4. list' = s
  BY <1>1, <1>3 DEF InOrder
<1>5. /\ DOMAIN live \subseteq Calls /\ Calls \subseteq Nat /\ IsFiniteSet(Calls) /\ Limit \in Nat
      /\ rounds \in Nat /\ last \in Int
      /\ Ahead \subseteq Matching /\ Ahead \subseteq counted /\ IsFiniteSet(Ahead)
      /\ Cardinality(Ahead) \in Nat
  BY AheadFinite, RerateAssumption DEF RerateAssumption, Shape, ControlTyped
<1>6. /\ \A c \in counted \cap DOMAIN live : Wanted(c) \/ \A u \in PayersOf(c) : live[c][u] \in Todays(u)
      /\ Cardinality(Ahead) <= rounds * Limit
  <2>1. Unwritten = {} /\ RoundsLeft = rounds
    BY <1>1, InHand DEF RoundsLeft, InRound
  <2> QED
    BY <1>2, <2>1, CoverNow
<1>7. /\ s \in Seq(Calls) /\ IsInjective(s) /\ Range(s) \subseteq Matching
      /\ Len(s) = RowCount /\ (s = <<>> <=> Matching = {})
  BY <1>3, <1>5, RowsRead
<1>8. \A c : Wanted(c)' <=> c > last'
  BY <1>1 DEF Wanted
<1>9. rounds - 1 \in Nat /\ (rounds - 1) * Limit = rounds * Limit - Limit
      /\ 0 <= (rounds - 1) * Limit /\ (rounds - 1) * Limit \in Int /\ rounds * Limit \in Int
  <2>1. \A r, l \in Nat : r > 0 => /\ r - 1 \in Nat /\ (r - 1) * l = r * l - l /\ 0 <= (r - 1) * l
                                   /\ (r - 1) * l \in Int /\ r * l \in Int
    OBVIOUS
  <2> QED
    BY <1>1, <1>5, <2>1
<1>10. CASE s = <<>>
  <2>1. last' = last + Limit /\ rounds' = rounds - 1 /\ pc' = "read" /\ Range(list') = {}
    BY <1>1, <1>4, <1>10, NothingListed
  <2>2. \A c \in DOMAIN live : ~Wanted(c)
    BY <1>7, <1>10 DEF Matching
  <2>3. \A c \in DOMAIN live : ~Wanted(c)'
    <3>1. \A c \in DOMAIN live : c \in Nat
      <4>1. DOMAIN live \subseteq Calls /\ Calls \subseteq Nat
        BY <1>5
      <4> QED
        BY <4>1
    <3>2. \A c \in DOMAIN live : ~(c > last)
      BY <1>5, <2>2, <3>1 DEF Wanted
    <3>3. \A c \in DOMAIN live : ~(c > last')
      BY <1>5, <2>1, <3>1, <3>2
    <3> QED
      BY <1>8, <3>3
  <2>4. Ahead' = {}
    BY <1>1, <2>3 DEF Ahead
  <2>5. RoundsLeft' = rounds - 1
    BY <2>1 DEF RoundsLeft, InRound
  <2>6. Cardinality(Ahead') <= RoundsLeft' * Limit
    BY <1>9, <2>4, <2>5, FS_EmptySet
  <2> QED
    BY <1>1, <1>6, <2>1, <2>2, <2>4, <2>6
<1>11. CASE s # <<>>
  <2>1. last' = s[Len(s)] /\ rounds' = rounds /\ pc' = "launch"
    BY <1>1, <1>4, <1>11
  <2>2. /\ \A c \in Range(s) : c <= last'
        /\ \A c \in Matching \ Range(s) : last' < c
        /\ last' \in Matching /\ last' \in Nat
    BY <1>3, <1>5, <1>11, <2>1, RowsInOrder DEF Matching
  <2>3. Unwritten' = Range(s)
    BY <1>4, <2>1 DEF Unwritten, Range
  <2>4. RoundsLeft' = rounds - 1
    BY <2>1 DEF RoundsLeft, InRound
  <2>5. Range(s) \subseteq Nat
    BY <1>5, <1>7 DEF Matching
  <2>6. \A c \in Range(list') : ~Wanted(c)'
    BY <1>4, <1>8, <2>2, <2>5
  <2>7. \A c \in (counted' \cap DOMAIN live') \ Unwritten' :
           Wanted(c)' \/ \A u \in PayersOf(c) : live'[c][u] \in Todays(u)
    <3>1. \A c \in DOMAIN live \ Range(s) : Wanted(c) => Wanted(c)'
      BY <1>8, <2>2, <1>5 DEF Matching
    <3> QED
      BY <1>1, <1>6, <2>3, <3>1
  <2>8. Ahead' = Ahead \ Range(s)
    <3>1. \A c \in DOMAIN live : Wanted(c)' => Wanted(c) /\ c \notin Range(s)
      <4>1. Wanted(last')
        BY <2>2 DEF Matching
      <4>2. \A c \in Nat : c > last' => Wanted(c)
        <5>1. PICK z \in Nat : z = last'
          BY <2>2
        <5>2. IF first THEN z >= last ELSE z > last
          BY <4>1, <5>1 DEF Wanted
        <5>3. \A c \in Nat : c > z => IF first THEN c >= last ELSE c > last
          BY <1>5, <5>2
        <5> QED
          BY <5>1, <5>3 DEF Wanted
      <4>3. \A c \in Nat : c > last' => c \notin Range(s)
        BY <2>2
      <4> QED
        BY <1>5, <1>8, <4>2, <4>3
    <3>2. \A c \in Ahead \ Range(s) : Wanted(c)'
      BY <1>5, <1>8, <2>2
    <3> QED
      BY <1>1, <3>1, <3>2 DEF Ahead
  <2>9. Cardinality(Ahead') <= (rounds - 1) * Limit
    <3>1. CASE Range(s) \subseteq counted /\ RowCount = Limit
      <4>1. Range(s) \subseteq Ahead
        BY <1>7, <3>1 DEF Ahead, Matching
      <4>2. Ahead \cap Range(s) = Range(s)
        BY <4>1
      <4>3. Cardinality(Range(s)) = Limit
        BY <1>7, <3>1, RowsCounted
      <4>4. Cardinality(Ahead') = Cardinality(Ahead) - Limit
        <5>1. Cardinality(Ahead \ Range(s)) = Cardinality(Ahead) - Cardinality(Ahead \cap Range(s))
          BY <1>5, FS_Difference
        <5> QED
          BY <2>8, <4>2, <4>3, <5>1
      <4> QED
        BY <1>5, <1>6, <1>9, <4>4
    <3>2. CASE RowCount # Limit
      <4>1. RowCount = Cardinality(Matching) /\ IsFiniteSet(Matching)
        BY <1>5, <3>2, MatchingFinite
      <4>2. Range(s) = Matching
        BY <1>7, <4>1, RowsCounted, FS_Subset
      <4>3. Ahead' = {}
        BY <1>5, <2>8, <4>2
      <4> QED
        BY <1>9, <4>3, FS_EmptySet
    <3>3. CASE ~(Range(s) \subseteq counted)
      <4>1. PICK d \in Range(s) : d \notin counted
        BY <3>3
      <4>2. d \in DOMAIN live /\ d <= last' /\ d \in Nat
        BY <1>7, <2>2, <2>5 DEF Matching
      <4>3. \A c \in counted : c < d
        BY <4>1, <4>2 DEF CountedInv
      <4>4. \A c \in Ahead : c \in Nat /\ c \in counted
        BY <1>5 DEF Matching
      <4>5. \A c \in Ahead : ~(last' < c)
        BY <2>2, <4>2, <4>3, <4>4
      <4>6. Ahead' = {}
        BY <1>5, <2>2, <2>8, <4>5
      <4> QED
        BY <1>9, <4>6, FS_EmptySet
    <3> QED
      BY <3>1, <3>2, <3>3
  <2> QED
    BY <2>1, <2>4, <2>6, <2>7, <2>9
<1> QED
  BY <1>10, <1>11

LEMMA RowCover ==
  ASSUME Shape, HandInv, CoverInv, NEW b \in BOOLEAN, WriteRow(b),
         mishaps \subseteq mishaps', counted' = counted
  PROVE  CoverInv'
<1>1. pc = "write" /\ pc' = "write" /\ at <= Len(list)
      /\ UNCHANGED <<live, list, last, first, rounds>>
  BY DEF WriteRow, db, control
<1>2. /\ Stuck => Stuck'
      /\ Stuck' \/ Unwritten' = IF NeedsUpdate(list[at]) THEN Unwritten ELSE Unwritten \ {list[at]}
  BY RowUnwritten
<1>3. (InOrder' => InOrder) /\ RoundsLeft' = RoundsLeft
  BY <1>1, <1>2 DEF InOrder, RoundsLeft
<1>4. Ahead' \subseteq Ahead
  BY <1>1, AheadStill
<1>5. ASSUME InOrder', NEW c \in (counted \cap DOMAIN live') \ Unwritten'
      PROVE  \/ c \in DOMAIN live /\ c \notin Unwritten /\ live'[c] = live[c]
             \/ \A u \in PayersOf(c) : live'[c][u] \in Todays(u)
  <2>1. c \in DOMAIN live /\ live'[c] = live[c]
    BY <1>1
  <2>2. CASE c \in Unwritten
    <3>1. c = list[at] /\ ~NeedsUpdate(c)
      BY <1>1, <1>2, <1>5, <2>2 DEF InOrder
    <3>2. c \in Range(list) /\ live[c] = read[c]
      BY <2>1, <2>2, InHand DEF HandInv
    <3>3. \A u \in PayersOf(c) : prices[c][u] \in Todays(u)
      BY <1>1, <3>2 DEF Shape, PricesInv
    <3>4. \A u \in PayersOf(c) : prices[c][u] = read[c][u]
      BY <3>1 DEF NeedsUpdate
    <3> QED
      BY <2>1, <3>2, <3>3, <3>4
  <2> QED
    BY <2>1, <2>2
<1> QED
  BY <1>1, <1>3, <1>4, <1>5, CoverKept

LEMMA WriteCover ==
  ASSUME Shape, CoverInv, pc \in {"write", "last"}, NEW rows, rows \subseteq DOMAIN prices, Write(rows),
         Unwritten \subseteq Unwritten' \cup rows, UNCHANGED <<counted, last, first, RoundsLeft>>,
         InOrder' => InOrder, Range(list') \subseteq Range(list), pc' # "done"
  PROVE  CoverInv'
<1>1. DOMAIN live' = DOMAIN live \cup rows /\ rows \subseteq Range(list)
      /\ (\A c \in rows : live'[c] = prices[c]) /\ \A c \in DOMAIN live \ rows : live'[c] = live[c]
  <2>1. DOMAIN prices = Range(list)
    BY InHand DEF InRound
  <2> QED
    BY <2>1 DEF Write
<1>2. \A c \in Range(list) : \A u \in PayersOf(c) : prices[c][u] \in Todays(u)
  BY DEF Shape, PricesInv
<1>3. \A c \in (counted \cap DOMAIN live') \ Unwritten' :
           \/ c \in DOMAIN live /\ c \notin Unwritten /\ live'[c] = live[c]
           \/ \A u \in PayersOf(c) : live'[c][u] \in Todays(u)
  BY <1>1, <1>2
<1>4. InOrder' => Ahead' \subseteq Ahead
  <2>1. InOrder' => \A c \in Range(list) : ~Wanted(c)
    BY CoverNow
  <2>2. \A c : Wanted(c)' = Wanted(c)
    BY DEF Wanted
  <2> QED
    BY <1>1, <2>1, <2>2 DEF Ahead
<1> QED
  BY <1>3, <1>4, CoverKept

LEMMA LastCover ==
  ASSUME Shape, CoverInv, WriteLast
  PROVE  CoverInv'
<1>1. /\ pc = "last" /\ pc' = "read" /\ rounds' = rounds - 1 /\ list' = <<>>
      /\ UNCHANGED <<counted, last, first, mishaps>>
  BY DEF WriteLast, NextRound, history
<1>2. RoundsLeft' = RoundsLeft /\ (InOrder' => InOrder) /\ Range(list') \subseteq Range(list)
  BY <1>1, NothingListed DEF RoundsLeft, InOrder, InRound
<1>3. Unwritten = batch.rows
  <2>1. at > Len(list) /\ writers = {} /\ Len(list) \in Nat /\ at \in Nat
    BY <1>1, Listed DEF Shape, RoundInv, RestInv, InRound, ControlTyped
  <2>2. at .. Len(list) = {}
    BY <2>1
  <2> QED
    BY <1>1, <2>1, <2>2, InHand
<1>4. CASE batch.buffer
  <2>1. Write(batch.rows) /\ batch.rows \subseteq DOMAIN prices
    BY <1>1, <1>4, BatchPriced DEF WriteLast
  <2>2. pc \in {"write", "last"} /\ pc' # "done" /\ Unwritten \subseteq Unwritten' \cup batch.rows
    BY <1>1, <1>3
  <2> QED
    BY <1>1, <1>2, <2>1, <2>2, WriteCover
<1>5. CASE ~batch.buffer
  <2>1. live' = live /\ Unwritten = {}
    BY <1>1, <1>3, <1>5 DEF WriteLast, Shape, WritersInv
  <2>2. Ahead' \subseteq Ahead
    BY <1>1, <2>1, AheadStill
  <2> QED
    BY <1>1, <1>2, <2>1, <2>2, CoverKept
<1> QED
  BY <1>4, <1>5

LEMMA BatchCover ==
  ASSUME Shape, CoverInv, NEW w \in writers, WriteBatch(w)
  PROVE  CoverInv'
<1>1. /\ Write(w.rows) /\ UNCHANGED <<pc, list, counted, last, first, rounds, mishaps>>
  BY DEF WriteBatch, round, control, history
<1>2. pc = "write" /\ w.rows \subseteq DOMAIN prices /\ Unwritten' = Unwritten \ w.rows /\ Stuck' = Stuck
  BY WritersAtWork, BatchUnwritten, WriteBatchShape
<1>3. RoundsLeft' = RoundsLeft /\ (InOrder' => InOrder)
  BY <1>1, <1>2 DEF RoundsLeft, InOrder
<1>4. Unwritten \subseteq Unwritten' \cup w.rows /\ pc' # "done" /\ Range(list') \subseteq Range(list)
  BY <1>1, <1>2
<1> QED
  BY <1>1, <1>2, <1>3, <1>4, WriteCover

LEMMA BalanceCover ==
  ASSUME Shape, CoverInv, UpdateBalance
  PROVE  CoverInv'
<1>1. /\ pc = "read" /\ rounds = 0 /\ pc' \in {"read", "done"}
      /\ UNCHANGED <<live, list, rounds, counted, last, first, mishaps>>
  BY DEF UpdateBalance, round, history
<1>2. Unwritten = {} /\ RoundsLeft = 0 /\ RoundsLeft' = RoundsLeft /\ (InOrder' => InOrder)
  BY <1>1, InHand DEF RoundsLeft, InOrder, InRound
<1>3. Ahead' \subseteq Ahead
  BY <1>1, AheadStill
<1>4. InOrder' => Ahead' = {}
  <2>1. SUFFICES ASSUME InOrder PROVE Ahead' = {}
    BY <1>2
  <2>2. Cardinality(Ahead) <= RoundsLeft * Limit
    BY <2>1, CoverNow
  <2>3. Cardinality(Ahead) = 0
    <3>1. Limit \in Nat /\ Cardinality(Ahead) \in Nat
      BY AheadFinite, RerateAssumption DEF RerateAssumption
    <3> QED
      BY <1>2, <2>2, <3>1
  <2> QED
    BY <1>3, <2>3, AheadFinite, FS_EmptySet
<1> QED
  BY <1>1, <1>2, <1>3, <1>4, CoverKept

LEMMA NewCover ==
  ASSUME Shape, HandInv, CountedInv, CoverInv, NEW c \in LateCalls, NewCall(c)
  PROVE  CoverInv'
<1>1. /\ UNCHANGED <<pc, list, at, batch, writers, usem, counted, last, first, rounds, mishaps>>
      /\ pc \notin Ended
  BY DEF NewCall, round, threads, control, history
<1>2. /\ c \notin DOMAIN live \cup DOMAIN archived
      /\ DOMAIN live' = DOMAIN live \cup {c} /\ \A d \in DOMAIN live : live'[d] = live[d]
  BY NewCallShape
<1>3. c \notin counted
  BY <1>2 DEF CountedInv
<1>4. Unwritten' = Unwritten /\ Stuck' = Stuck
  BY <1>1, UnwrittenStill DEF Stuck
<1>5. RoundsLeft' = RoundsLeft /\ (InOrder' => InOrder) /\ pc' # "done"
  BY <1>1, <1>4 DEF RoundsLeft, InOrder, Ended
<1>6. Ahead' \subseteq Ahead
  BY <1>1, <1>2, <1>3, AheadStill
<1>7. \A d \in (counted \cap DOMAIN live') \ Unwritten' :
           d \in DOMAIN live /\ d \notin Unwritten /\ live'[d] = live[d]
  BY <1>2, <1>3, <1>4
<1> QED
  BY <1>1, <1>5, <1>6, <1>7, CoverKept

LEMMA ArchiveCover ==
  ASSUME Shape, CoverInv, NEW c \in Calls, ArchiveCall(c)
  PROVE  CoverInv'
<1>1. /\ UNCHANGED <<pc, list, at, batch, writers, usem, counted, last, first, rounds>>
      /\ mishaps \subseteq mishaps'
  BY DEF ArchiveCall, Event, round, threads, control
<1>2. /\ DOMAIN live' = DOMAIN live \ {c} /\ \A d \in DOMAIN live \ {c} : live'[d] = live[d]
  BY ArchiveShape
<1>3. Unwritten' = Unwritten /\ Stuck' = Stuck
  BY <1>1, UnwrittenStill DEF Stuck
<1>4. RoundsLeft' = RoundsLeft /\ (InOrder' => InOrder)
  BY <1>1, <1>3 DEF RoundsLeft, InOrder
<1>5. Ahead' \subseteq Ahead
  BY <1>1, <1>2, AheadStill
<1>6. InOrder' /\ pc' = "done" => Ahead' = {}
  BY <1>1, <1>4, <1>5, CoverNow
<1>7. \A d \in (counted \cap DOMAIN live') \ Unwritten' :
           d \in DOMAIN live /\ d \notin Unwritten /\ live'[d] = live[d]
  BY <1>2, <1>3
<1> QED
  BY <1>1, <1>4, <1>5, <1>6, <1>7, CoverKept

LEMMA TimerCover ==
  ASSUME Shape, CoverInv, Timer
  PROVE  CoverInv'
<1>1. /\ UNCHANGED <<pc, list, at, batch, writers, usem, live, last, first, rounds, counted, mishaps>>
      /\ pc # "done"
  BY DEF Timer, db, round, control, history, Ended
<1>2. Unwritten' = Unwritten /\ Stuck' = Stuck
  BY <1>1, UnwrittenStill DEF Stuck
<1>3. RoundsLeft' = RoundsLeft /\ (InOrder' => InOrder)
  BY <1>1, <1>2 DEF RoundsLeft, InOrder
<1>4. Ahead' \subseteq Ahead
  BY <1>1, AheadStill
<1> QED
  BY <1>1, <1>2, <1>3, <1>4, CoverKept

LEMMA CoverStep ==
  ASSUME Shape, HandInv, CountedInv, CoverInv, RerateNext
  PROVE  CoverInv'
<1>1. CASE CountCalls \/ ReadCalls \/ UpdateBalance \/ WriteLast
  BY <1>1, CountCover, ReadCover, BalanceCover, LastCover
<1>2. CASE ReadFails \/ WriteLastFails \/ Die
  <2>1. pc' = "failed" \/ mishaps' \cap {"refused", "unread"} # {}
    BY <1>2 DEF ReadFails, WriteLastFails, Die, Event
  <2>2. ~InOrder'
    BY <2>1 DEF InOrder
  <2> QED
    BY <2>2, CoverNext
<1>3. CASE LaunchRater \/ LaunchFails
  <2>1. /\ pc = "launch" /\ pc' = pc /\ mishaps \subseteq mishaps'
        /\ UNCHANGED <<live, list, last, first, rounds, counted>>
    BY <1>3 DEF LaunchRater, LaunchFails, Launch, Event, db, control, history
  <2>2. Unwritten' = Unwritten
    BY <2>1 DEF Unwritten, Range
  <2>3. InOrder' => InOrder
    BY <2>1 DEF InOrder
  <2> QED
    BY <2>1, <2>2, <2>3, CoverStill DEF InRound
<1>4. CASE Barrier
  <2>1. UNCHANGED <<live, list, last, first, rounds, counted, mishaps>>
    BY <1>4 DEF Barrier, Priced, db, control, history
  <2>2. Unwritten' = Unwritten /\ pc = "launch" /\ pc' = "write"
    BY <1>4, BarrierUnwritten
  <2>3. InOrder' => InOrder
    BY <2>1, <2>2 DEF InOrder
  <2> QED
    BY <2>1, <2>2, <2>3, CoverStill DEF InRound
<1>5. CASE CollectRow \/ WriterFails
  <2>1. mishaps \subseteq mishaps' /\ counted' = counted /\ (WriteRow(TRUE) \/ WriteRow(FALSE))
    BY <1>5 DEF CollectRow, WriterFails, Event, history
  <2> QED
    BY <2>1, RowCover
<1>6. CASE SumPrices
  <2>1. /\ pc = "write" /\ pc' = "last" /\ usem = 0
        /\ UNCHANGED <<live, list, last, first, rounds, counted, mishaps>>
    BY <1>6 DEF SumPrices, db, round, history
  <2>2. ~Stuck
    BY <2>1, WritersFinite DEF Stuck, Shape
  <2>3. InOrder' => InOrder
    BY <2>1, <2>2 DEF InOrder
  <2> QED
    BY <1>6, <2>1, <2>3, SumUnwritten, CoverStill DEF InRound
<1>7. CASE Rater
  <2>1. UNCHANGED <<pc, list, at, batch, writers, usem, live, last, first, rounds, counted, mishaps>>
    BY <1>7 DEF Rater, TakeToRead, ReadRate, CacheRate, RaterUnchanged, db, control, history
  <2>2. pc \in InRound
    BY <1>7, RatersLaunched DEF Rater, InRound
  <2>3. Unwritten' = Unwritten /\ Stuck' = Stuck
    BY <2>1, UnwrittenStill DEF Stuck
  <2>4. InOrder' => InOrder
    BY <2>1, <2>3 DEF InOrder
  <2> QED
    BY <2>1, <2>2, <2>3, <2>4, CoverStill
<1>8. CASE Timer
  BY <1>8, TimerCover
<1>9. CASE Writer
  <2>1. PICK w \in writers : TakeToWrite(w) \/ WriteBatch(w)
    BY <1>9 DEF Writer
  <2>2. CASE TakeToWrite(w)
    <3>1. UNCHANGED <<pc, list, live, last, first, rounds, counted, mishaps>>
      BY <2>2 DEF TakeToWrite, db, round, control, history
    <3>2. Unwritten' = Unwritten /\ Stuck' = Stuck
      BY <2>2, TakeToWriteShape
    <3>3. pc \in InRound
      BY WritersAtWork DEF InRound
    <3>4. InOrder' => InOrder
      BY <3>1, <3>2 DEF InOrder
    <3> QED
      BY <3>1, <3>2, <3>3, <3>4, CoverStill
  <2>3. CASE WriteBatch(w)
    BY <2>3, BatchCover
  <2> QED
    BY <2>1, <2>2, <2>3
<1>10. CASE Environment
  BY <1>10, NewCover, ArchiveCover DEF Environment
<1> QED
  BY <1>1, <1>2, <1>3, <1>4, <1>5, <1>6, <1>7, <1>8, <1>9, <1>10 DEF RerateNext, Main, Fault

LEMMA RerateInitInv ==
  RerateInit => RerateInv
<1> SUFFICES ASSUME RerateInit PROVE RerateInv
  OBVIOUS
<1>1. /\ live = [c \in Calls \ LateCalls |-> [u \in PayersOf(c) |-> OldPrice]]
      /\ archived = NoRows /\ balance = [u \in Accounts |-> 0] /\ pc = "count"
      /\ rounds = 0 /\ last = 0 /\ first = TRUE /\ list = <<>> /\ at = 1
      /\ prices = NoRows /\ read = NoRows /\ cache = [u \in Accounts |-> None]
      /\ raters = NoRows /\ sem = 0 /\ batch = [rows |-> {}, buffer |-> FALSE]
      /\ writers = {} /\ usem = 0 /\ diff = [u \in Accounts |-> 0] /\ counted = {} /\ mishaps = {}
  BY DEF RerateInit
<1>2. OldPrice \in Int /\ Limit \in Nat /\ IsFiniteSet(Calls)
  BY RerateAssumption DEF RerateAssumption
<1>3. IsPriced(live)
  BY <1>1, <1>2 DEF IsPriced
<1>4. TablesTyped
  BY <1>1, <1>3, NoRowsPriced DEF TablesTyped
<1>5. ControlTyped
  BY <1>1, NothingListed DEF ControlTyped, Stages
<1>6. ThreadsTyped
  BY <1>1, FS_EmptySet DEF ThreadsTyped
<1>7. RestInv
  BY <1>1, NoRowsPriced DEF RestInv
<1>8. Shape
  BY <1>1, <1>4, <1>5, <1>6, <1>7 DEF Shape, RoundInv, RatersInv, WritersInv, PricesInv, InRound
<1>9. Unwritten = {} /\ Range(list) = {}
  BY <1>1, NothingListed DEF Unwritten
<1>10. HandInv
  BY <1>9 DEF HandInv
<1>11. CountedInv
  BY <1>1 DEF CountedInv
<1>12. LedgerInv
  <2> SUFFICES ASSUME NEW u \in Accounts PROVE Worth(u) + diff[u] - Due(u) = FirstWorth(u)
    BY DEF LedgerInv
  <2>1. Cost(archived, u) = 0
    BY <1>1, NoRowsPriced, CostOfNothing
  <2>2. Cost(live, u) \in Int /\ Cost(live, u) = FirstWorth(u)
    BY <1>1, <1>3, CostIsSum DEF FirstWorth
  <2>3. Due(u) = 0 /\ diff[u] = 0 /\ balance[u] = 0
    BY <1>1 DEF Due
  <2> QED
    BY <2>1, <2>2, <2>3 DEF Worth
<1>13. CoverInv
  <2>1. Ahead = {} /\ Cardinality(Ahead) = 0
    BY <1>1, FS_EmptySet DEF Ahead
  <2>2. RoundsLeft * Limit = 0
    BY <1>1, <1>2 DEF RoundsLeft, InRound
  <2> QED
    BY <1>1, <1>9, <2>1, <2>2 DEF CoverInv
<1> QED
  BY <1>8, <1>10, <1>11, <1>12, <1>13 DEF RerateInv

LEMMA RerateStill ==
  ASSUME RerateInv, UNCHANGED rerateVars
  PROVE  RerateInv'
<1>1. UNCHANGED <<pc, list, at, rates, prices, read, batch, cache, raters, sem, usem, writers,
                  rounds, last, first, diff, counted, live, archived, balance, mishaps>>
  BY DEF rerateVars, db, round, threads, control, history
<1>2. Shape'
  BY <1>1, StutterShape DEF RerateInv
<1>3. Unwritten' = Unwritten /\ Stuck' = Stuck /\ RoundsLeft' = RoundsLeft
  BY <1>1, UnwrittenStill DEF Stuck, RoundsLeft
<1>4. HandInv' /\ CountedInv'
  BY <1>1, <1>3, HandStill DEF RerateInv
<1>5. LedgerInv'
  <2>1. \A u \in Accounts : Due(u)' = Due(u)
    BY <1>1, <1>3, DueStill
  <2>2. Sound' => Sound
    BY <1>1, <1>3 DEF Sound
  <2> QED
    BY <1>1, <2>1, <2>2, LedgerStill DEF RerateInv
<1>6. CoverInv'
  <2>1. InOrder' => InOrder
    BY <1>1, <1>3 DEF InOrder
  <2>2. Ahead' \subseteq Ahead
    BY <1>1, AheadStill
  <2>3. InOrder' /\ pc' = "done" => Ahead' = {}
    BY <1>1, <2>1, <2>2, CoverNow DEF RerateInv
  <2> QED
    BY <1>1, <1>3, <2>1, <2>2, <2>3, CoverKept DEF RerateInv
<1> QED
  BY <1>2, <1>4, <1>5, <1>6 DEF RerateInv

\* Whatever calls end, are archived or are listed out of order while the program
\* works, and whichever of its statements and threads fail: its threads hold what
\* the rows say, the sums it keeps are what the balances lack, and the rounds it
\* has left cover the calls it counted.
THEOREM RerateInvariant ==
  RerateSpec => []RerateInv
<1>1. RerateInv /\ [RerateNext]_rerateVars => RerateInv'
  <2> SUFFICES ASSUME RerateInv, [RerateNext]_rerateVars PROVE RerateInv'
    OBVIOUS
  <2>1. CASE RerateNext
    <3>1. Shape /\ HandInv /\ CountedInv /\ LedgerInv /\ CoverInv
      BY DEF RerateInv
    <3>2. Shape' /\ HandInv' /\ CountedInv' /\ LedgerInv' /\ CoverInv'
      BY <2>1, <3>1, ShapeNext, HandNext, LedgerNext, CoverStep
    <3> QED
      BY <3>2 DEF RerateInv
  <2>2. CASE UNCHANGED rerateVars
    BY <2>2, RerateStill
  <2> QED
    BY <2>1, <2>2
<1> QED
  BY <1>1, RerateInitInv, PTL DEF RerateSpec

\* When mor_cdr_rerate reports success the balances of all users and resellers
\* have changed by exactly what the prices in calls and calls_old have, for any
\* number of calls, rounds, rows to a query and threads, unless the last rows of
\* a round were refused or a call was archived while the program had it in hand.
THEOREM BalancesRight ==
  RerateSpec => []BalancesFollowPrices
<1>1. RerateInv => BalancesFollowPrices
  <2> SUFFICES ASSUME RerateInv, pc = "done", mishaps \cap {"refused", "moved"} = {}, NEW u \in Accounts
               PROVE  Worth(u) = FirstWorth(u)
    BY DEF BalancesFollowPrices
  <2>1. Worth(u) + diff[u] - Due(u) = FirstWorth(u)
    BY DEF RerateInv, LedgerInv
  <2>2. diff[u] = 0 /\ Due(u) = 0
    BY DueNone DEF RerateInv, Shape, RestInv, InRound
  <2>3. Worth(u) \in Int
    BY LedgerTyped DEF RerateInv, Worth
  <2> QED
    BY <2>1, <2>2, <2>3
<1> QED
  BY <1>1, RerateInvariant, PTL

\* Then each call that was counted and is still in the table has, for each of its
\* payers, a price from the tariffs of today, if the queries succeeded and
\* returned the rows in the order of their ids.
THEOREM PricesRight ==
  RerateSpec => []PricesOfToday
<1>1. RerateInv => PricesOfToday
  <2> SUFFICES ASSUME RerateInv, pc = "done", mishaps \cap {"refused", "unread", "unordered"} = {},
                      NEW c \in counted \cap DOMAIN live, NEW u \in PayersOf(c)
               PROVE  \E d \in Calls : u \in PayersOf(d) /\ live[c][u] = Rate[u][Kind[d]]
    BY DEF PricesOfToday
  <2>1. Unwritten = {} /\ InOrder
    BY InHand DEF RerateInv, InOrder, InRound
  <2>2. Ahead = {} /\ (Wanted(c) \/ \A v \in PayersOf(c) : live[c][v] \in Todays(v))
    BY <2>1, CoverNow DEF RerateInv
  <2>3. ~Wanted(c)
    BY <2>2 DEF Ahead
  <2> QED
    BY <2>2, <2>3 DEF Todays
<1> QED
  BY <1>1, RerateInvariant, PTL
=============================================================================
