------------------------------ MODULE FoldFacts ------------------------------
(***************************************************************************)
(* Facts about the folds the models add up with.  Induction is by minimal  *)
(* counterexample: a family of finite sets that is not empty has a member  *)
(* of which it holds no smaller one.                                       *)
(***************************************************************************)
EXTENDS Integers, FiniteSetsExt, FiniteSetTheorems, FunctionTheorems, WellFoundedInduction, TLAPS

-----------------------------------------------------------------------------
(***************************************************************************)
(* Induction over numbers and over finite sets, stated for sets.           *)
(***************************************************************************)
LEMMA LeastNumber ==
  ASSUME NEW T, T \subseteq Nat, T # {}
  PROVE  \E n \in T : \A m \in T : n <= m
PROOF
<1> DEFINE R == OpToRel(<, Nat)
<1>1. IsWellFoundedOn(R, Nat)
  BY NatLessThanWellFounded
<1>2. \A x, y \in Nat : <<x, y>> \in R <=> x < y
  BY DEF OpToRel
<1> HIDE DEF R
<1>3. PICK x \in T : \A y \in T : ~ (<<y, x>> \in R)
  BY <1>1, WFMin, Zenon
<1>4. ASSUME NEW y \in T PROVE x <= y
  <2>1. x \in Nat /\ y \in Nat /\ ~(<<y, x>> \in R)
    BY <1>3
  <2>2. ~(y < x)
    BY <1>2, <2>1
  <2> QED BY <2>1, <2>2
<1> QED BY <1>4

\* Induction over the numbers, for a set of numbers.
LEMMA NumberSteps ==
  ASSUME NEW T, 0 \in T, \A n \in Nat : n \in T => n + 1 \in T
  PROVE  Nat \subseteq T
PROOF
<1> DEFINE Bad == Nat \ T
<1> SUFFICES ASSUME Bad # {} PROVE FALSE
  OBVIOUS
<1>1. PICK n \in Bad : \A m \in Bad : n <= m
  BY LeastNumber, Zenon
<1>2. n # 0 /\ n \in Nat
  OBVIOUS
<1>3. n - 1 \in Nat /\ n - 1 \notin Bad
  BY <1>1, <1>2
<1> QED BY <1>2, <1>3

\* A nonempty family of subsets of a finite set has a smallest member.
LEMMA SmallestSet ==
  ASSUME NEW S, IsFiniteSet(S), NEW T, T \subseteq SUBSET S, T # {}
  PROVE  \E U \in T : \A V \in SUBSET U : V # U => V \notin T
PROOF
<1> DEFINE R == StrictSubsetOrdering(S)
<1>1. IsWellFoundedOn(R, SUBSET S)
  BY FS_StrictSubsetOrderingWellFounded, FS_FiniteSubsetsOfFinite
<1>2. \A U, V \in SUBSET S : <<U, V>> \in R <=> U \subseteq V /\ U # V
  BY DEF StrictSubsetOrdering
<1> HIDE DEF R
<1>3. PICK U \in T : \A V \in T : ~ (<<V, U>> \in R)
  BY <1>1, WFMin, Zenon
<1>4. ASSUME NEW V \in SUBSET U, V # U PROVE V \notin T
  <2>1. U \in SUBSET S /\ V \in SUBSET S
    BY <1>3
  <2>2. <<V, U>> \in R
    BY <1>2, <1>4, <2>1
  <2> QED BY <1>3, <2>2
<1> QED BY <1>4

\* Induction over the subsets of a finite set, for a family of them.
LEMMA SubsetSteps ==
  ASSUME NEW S, IsFiniteSet(S), NEW T, {} \in T,
         \A U \in SUBSET S : \A x \in S : U \in T /\ x \notin U => U \cup {x} \in T
  PROVE  SUBSET S \subseteq T
PROOF
<1> DEFINE Bad == (SUBSET S) \ T
<1> SUFFICES ASSUME Bad # {} PROVE FALSE
  OBVIOUS
<1>1. PICK U \in Bad : \A V \in SUBSET U : V # U => V \notin Bad
  <2>1. Bad \subseteq SUBSET S
    OBVIOUS
  <2> HIDE DEF Bad
  <2> QED BY <2>1, SmallestSet, Zenon
<1>2. PICK x \in U : TRUE
  BY <1>1
<1>3. U \ {x} \in T /\ U \ {x} \in SUBSET S /\ x \in S
  BY <1>1, <1>2
<1>4. (U \ {x}) \cup {x} = U
  BY <1>2
<1> QED BY <1>1, <1>3, <1>4

-----------------------------------------------------------------------------
(***************************************************************************)
(* Recursion over the subsets of a finite set.                             *)
(***************************************************************************)
\* g is what MapThenFoldSet computes, on every subset of S: ch picks the element to
\* take away, step what it contributes.
Folds(g, S, ch, base, step) ==
    g = [s \in SUBSET S |-> IF s = {} THEN base ELSE step[<<ch[s], g[s \ {ch[s]}]>>]]

\* The equations of a fold over a finite set have a solution,
LEMMA FoldExists ==
  ASSUME NEW S, IsFiniteSet(S), NEW ch, \A s \in SUBSET S : s # {} => ch[s] \in s,
         NEW X, NEW base \in X, NEW step \in [S \X X -> X]
  PROVE  \E g \in [SUBSET S -> X] : Folds(g, S, ch, base, step)
PROOF
<1> DEFINE Once(g) == [s \in SUBSET S |-> IF s = {} THEN base ELSE step[<<ch[s], g[s \ {ch[s]}]>>]]
           T == {n \in Nat : \E g \in [SUBSET S -> X] :
                   \A s \in SUBSET S : Cardinality(s) <= n => g[s] = Once(g)[s]}
<1>1. ASSUME NEW g \in [SUBSET S -> X] PROVE Once(g) \in [SUBSET S -> X]
  OBVIOUS
<1>2. \A s \in SUBSET S : IsFiniteSet(s) /\ Cardinality(s) \in Nat
  BY FS_Subset, FS_CardinalityType
<1>3. 0 \in T
  <2> DEFINE g == [s \in SUBSET S |-> base]
  <2>1. g \in [SUBSET S -> X]
    OBVIOUS
  <2>2. ASSUME NEW s \in SUBSET S, Cardinality(s) <= 0 PROVE g[s] = Once(g)[s]
    <3>1. s = {}
      BY <1>2, <2>2, FS_EmptySet
    <3> QED BY <3>1
  <2> QED BY <2>1, <2>2
<1>4. ASSUME NEW n \in Nat, n \in T PROVE n + 1 \in T
  <2>1. PICK g \in [SUBSET S -> X] :
          \A s \in SUBSET S : Cardinality(s) <= n => g[s] = Once(g)[s]
    BY <1>4
  <2> DEFINE h == Once(g)
  <2>2. h \in [SUBSET S -> X]
    BY <1>1
  <2>3. ASSUME NEW s \in SUBSET S, Cardinality(s) <= n + 1 PROVE h[s] = Once(h)[s]
    <3>1. CASE s = {}
      BY <3>1
    <3>2. CASE s # {}
      <4>1. ch[s] \in s /\ s \ {ch[s]} \in SUBSET S
        BY <3>2
      <4>2. Cardinality(s \ {ch[s]}) <= n
        BY <1>2, <2>3, <4>1, FS_RemoveElement
      <4>3. g[s \ {ch[s]}] = h[s \ {ch[s]}]
        BY <2>1, <4>1, <4>2
      <4> QED BY <3>2, <4>1, <4>3
    <3> QED BY <3>1, <3>2
  <2> HIDE DEF h, Once
  <2> QED BY <2>2, <2>3
<1>5. Cardinality(S) \in T
  <2> HIDE DEF T
  <2>1. Nat \subseteq T
    BY <1>3, <1>4, NumberSteps, Zenon
  <2> QED BY <1>2, <2>1
<1>6. PICK g \in [SUBSET S -> X] :
        \A s \in SUBSET S : Cardinality(s) <= Cardinality(S) => g[s] = Once(g)[s]
  BY <1>5
<1>7. \A s \in SUBSET S : g[s] = Once(g)[s]
  BY <1>6, FS_Subset
<1>8. g = Once(g)
  BY <1>7
<1> QED BY <1>8 DEF Folds

\* and only one.
LEMMA FoldUnique ==
  ASSUME NEW S, IsFiniteSet(S), NEW ch, \A s \in SUBSET S : s # {} => ch[s] \in s,
         NEW base, NEW step, NEW g, NEW h,
         Folds(g, S, ch, base, step), Folds(h, S, ch, base, step)
  PROVE  g = h
PROOF
<1> DEFINE Bad == {s \in SUBSET S : g[s] # h[s]}
<1>1. SUFFICES ASSUME Bad # {} PROVE FALSE
  BY SMTT(20), ZenonT(20) DEF Folds
<1>2. PICK s \in Bad : \A v \in SUBSET s : v # s => v \notin Bad
  <2>1. Bad \subseteq SUBSET S
    OBVIOUS
  <2> HIDE DEF Bad
  <2> QED BY <1>1, <2>1, SmallestSet, Zenon
<1>3. CASE s = {}
  BY <1>2, <1>3 DEF Folds
<1>4. CASE s # {}
  <2>1. ch[s] \in s /\ s \ {ch[s]} \in SUBSET s /\ s \ {ch[s]} # s /\ s \in SUBSET S
    BY <1>2, <1>4
  <2>2. g[s \ {ch[s]}] = h[s \ {ch[s]}]
    BY <1>2, <2>1
  <2>3. g[s] = step[<<ch[s], g[s \ {ch[s]}]>>] /\ h[s] = step[<<ch[s], h[s \ {ch[s]}]>>]
    BY <1>4, <2>1 DEF Folds
  <2> QED BY <1>2, <2>2, <2>3
<1> QED BY <1>3, <1>4

-----------------------------------------------------------------------------
(***************************************************************************)
(* Sums over finite sets.                                                  *)
(***************************************************************************)
AnyOf(s) == CHOOSE x \in s : TRUE

\* The sum of the values of f on S.
Total(f, S) == MapThenSumSet(LAMBDA x : f[x], S)

\* g is the sum of f on every subset of S, as the library computes it.
Adds(g, f, S) == g = [s \in SUBSET S |-> IF s = {} THEN 0 ELSE f[AnyOf(s)] + g[s \ {AnyOf(s)}]]

SumsUp(g, f, S) == g \in [SUBSET S -> Int] /\ Adds(g, f, S)

\* A sum is such a fold.
LEMMA SumExists ==
  ASSUME NEW S, IsFiniteSet(S), NEW f, \A x \in S : f[x] \in Int
  PROVE  \E g : SumsUp(g, f, S)
PROOF
<1> DEFINE ch == [s \in SUBSET S |-> AnyOf(s)]
           step == [p \in S \X Int |-> f[p[1]] + p[2]]
<1>1. \A s \in SUBSET S : s # {} => AnyOf(s) \in s
  BY DEF AnyOf
<1>2. \A s \in SUBSET S : s # {} => ch[s] \in s
  BY <1>1
<1>3. step \in [S \X Int -> Int]
  OBVIOUS
<1>4. PICK g \in [SUBSET S -> Int] : Folds(g, S, ch, 0, step)
  <2> HIDE DEF ch, step
  <2>1. 0 \in Int
    OBVIOUS
  <2> QED BY <1>2, <1>3, <2>1, FoldExists, Zenon
<1>5. ASSUME NEW s \in SUBSET S, s # {} PROVE step[<<ch[s], g[s \ {ch[s]}]>>] = f[AnyOf(s)] + g[s \ {AnyOf(s)}]
  <2>1. ch[s] = AnyOf(s) /\ AnyOf(s) \in S /\ g[s \ {AnyOf(s)}] \in Int
    BY <1>1, <1>5
  <2>2. step[<<AnyOf(s), g[s \ {AnyOf(s)}]>>] = f[AnyOf(s)] + g[s \ {AnyOf(s)}]
    BY <2>1
  <2> QED BY <2>1, <2>2
<1>6. g = [s \in SUBSET S |-> IF s = {} THEN 0 ELSE f[AnyOf(s)] + g[s \ {AnyOf(s)}]]
  <2> HIDE DEF ch, step
  <2> QED BY <1>4, <1>5 DEF Folds
<1> QED BY <1>6 DEF SumsUp, Adds

\* Sums of functions that agree on the set are the same.
LEMMA SumUnique ==
  ASSUME NEW S, IsFiniteSet(S), NEW g, NEW h, NEW f, NEW k,
         Adds(g, f, S), Adds(h, k, S), \A x \in S : f[x] = k[x]
  PROVE  g = h
PROOF
<1> DEFINE Bad == {s \in SUBSET S : g[s] # h[s]}
<1>1. SUFFICES ASSUME Bad # {} PROVE FALSE
  BY DEF Adds
<1>2. PICK s \in Bad : \A v \in SUBSET s : v # s => v \notin Bad
  <2>1. Bad \subseteq SUBSET S
    OBVIOUS
  <2> HIDE DEF Bad
  <2> QED BY <1>1, <2>1, SmallestSet, Zenon
<1>3. CASE s = {}
  BY <1>2, <1>3 DEF Adds
<1>4. CASE s # {}
  <2> DEFINE x == AnyOf(s)
  <2>1. x \in s /\ s \ {x} \in SUBSET s /\ s \ {x} # s /\ s \in SUBSET S
    BY <1>2, <1>4 DEF AnyOf
  <2> HIDE DEF x
  <2>2. g[s \ {x}] = h[s \ {x}]
    BY <1>2, <2>1
  <2>3. g[s] = f[x] + g[s \ {x}] /\ h[s] = k[x] + h[s \ {x}]
    BY <1>4, <2>1 DEF x, Adds
  <2> QED BY <1>2, <2>1, <2>2, <2>3
<1> QED BY <1>3, <1>4

\* MapThenSumSet is that sum.
LEMMA TotalIs ==
  ASSUME NEW S, IsFiniteSet(S), NEW f, NEW g, SumsUp(g, f, S)
  PROVE  Total(f, S) = g[S]
PROOF
<1> DEFINE Def(h) == [s \in SUBSET S |-> IF s = {} THEN 0 ELSE f[AnyOf(s)] + h[s \ {AnyOf(s)}]]
           it == CHOOSE h : h = Def(h)
<1>1. Total(f, S) = it[S]
  BY DEF Total, MapThenSumSet, MapThenFoldSet, AnyOf
<1>2. g = Def(g)
  BY DEF SumsUp, Adds
<1>3. it = Def(it)
  <2> HIDE DEF Def
  <2> QED BY <1>2
<1>4. it = g
  <2>1. Adds(it, f, S) /\ Adds(g, f, S)
    <3> HIDE DEF it
    <3> QED BY <1>2, <1>3 DEF Adds
  <2> HIDE DEF it
  <2> QED BY <2>1, SumUnique
<1> QED BY <1>1, <1>4

\* Only the values on the set count.
LEMMA TotalSame ==
  ASSUME NEW S, IsFiniteSet(S), NEW f, NEW k, \A x \in S : f[x] \in Int /\ k[x] = f[x]
  PROVE  Total(k, S) = Total(f, S)
PROOF
<1>1. PICK g : SumsUp(g, f, S)
  BY SumExists
<1>2. PICK h : SumsUp(h, k, S)
  BY SumExists
<1>3. g = h
  BY <1>1, <1>2, SumUnique DEF SumsUp
<1> QED BY <1>1, <1>2, <1>3, TotalIs

\* The sum of nothing; the sum of one more.
LEMMA TotalEmpty ==
  ASSUME NEW f
  PROVE  Total(f, {}) = 0
PROOF
<1>1. IsFiniteSet({})
  BY FS_EmptySet
<1>2. PICK g : SumsUp(g, f, {})
  <2>1. \A x \in {} : f[x] \in Int
    OBVIOUS
  <2> QED BY <1>1, <2>1, SumExists
<1>3. Total(f, {}) = g[{}]
  BY <1>1, <1>2, TotalIs
<1>4. g[{}] = 0
  BY <1>2 DEF SumsUp, Adds
<1> QED BY <1>3, <1>4

\* A total is any of its terms and the total of the rest.
LEMMA TotalTake ==
  ASSUME NEW S, IsFiniteSet(S), S # {}, NEW f, \A x \in S : f[x] \in Int
  PROVE  /\ AnyOf(S) \in S
         /\ Total(f, S) = f[AnyOf(S)] + Total(f, S \ {AnyOf(S)})
PROOF
<1> DEFINE R == S \ {AnyOf(S)}
<1>1. AnyOf(S) \in S /\ R \subseteq S
  BY DEF AnyOf
<1>2. IsFiniteSet(R)
  BY FS_Subset, <1>1
<1>3. PICK g : SumsUp(g, f, S)
  BY SumExists
<1> DEFINE h == [s \in SUBSET R |-> g[s]]
<1>4. SumsUp(h, f, R)
  <2>1. h \in [SUBSET R -> Int]
    BY <1>1, <1>3 DEF SumsUp
  <2>2. ASSUME NEW s \in SUBSET R
        PROVE  h[s] = IF s = {} THEN 0 ELSE f[AnyOf(s)] + h[s \ {AnyOf(s)}]
    <3>1. s \in SUBSET S /\ s \ {AnyOf(s)} \in SUBSET R
      BY <1>1
    <3>2. g[s] = IF s = {} THEN 0 ELSE f[AnyOf(s)] + g[s \ {AnyOf(s)}]
      BY <1>3, <3>1 DEF SumsUp, Adds
    <3> QED BY <3>1, <3>2
  <2> QED BY <2>1, <2>2 DEF SumsUp, Adds
<1>5. Total(f, S) = g[S] /\ Total(f, R) = h[R] /\ h[R] = g[R]
  BY <1>2, <1>3, <1>4, TotalIs
<1>6. g[S] = f[AnyOf(S)] + g[R]
  BY <1>3 DEF SumsUp, Adds
<1> QED BY <1>1, <1>5, <1>6

\* The total of integers is an integer.
LEMMA TotalType ==
  ASSUME NEW S, IsFiniteSet(S), NEW f, \A x \in S : f[x] \in Int
  PROVE  Total(f, S) \in Int
PROOF
<1>1. PICK g : SumsUp(g, f, S)
  BY SumExists
<1> QED BY <1>1, TotalIs DEF SumsUp

\* The total after one element more.
LEMMA TotalAdd ==
  ASSUME NEW S, IsFiniteSet(S), NEW x, x \notin S,
         NEW f, \A y \in S \cup {x} : f[y] \in Int
  PROVE  Total(f, S \cup {x}) = Total(f, S) + f[x]
PROOF
<1> DEFINE U == S \cup {x}
           Good(V, y) == Total(f, V \cup {y}) = Total(f, V) + f[y]
           T == {n \in Nat : \A V \in SUBSET U : \A y \in U :
                   Cardinality(V) = n /\ y \notin V => Good(V, y)}
<1>1. IsFiniteSet(U)
  BY FS_AddElement
<1>2. \A V \in SUBSET U : IsFiniteSet(V) /\ Cardinality(V) \in Nat /\ Total(f, V) \in Int
  <2> HIDE DEF U
  <2> QED BY <1>1, FS_Subset, FS_CardinalityType, TotalType DEF U
<1>3. \A V \in SUBSET U : V # {} =>
        AnyOf(V) \in V /\ Total(f, V) = f[AnyOf(V)] + Total(f, V \ {AnyOf(V)})
  BY <1>2, TotalTake
<1>4. ASSUME NEW V \in SUBSET U, NEW y \in U, y \notin V, AnyOf(V \cup {y}) = y
      PROVE  Good(V, y)
  <2>1. V \cup {y} \in SUBSET U /\ V \cup {y} # {} /\ (V \cup {y}) \ {y} = V
    BY <1>4
  <2>2. f[y] \in Int /\ Total(f, V) \in Int
    BY <1>2
  <2>3. Total(f, V \cup {y}) = f[y] + Total(f, V)
    <3> DEFINE W == V \cup {y}
    <3>1. W \in SUBSET U /\ W # {} /\ AnyOf(W) = y /\ W \ {y} = V
      BY <1>4, <2>1
    <3>2. Total(f, W) = f[AnyOf(W)] + Total(f, W \ {AnyOf(W)})
      <4> HIDE DEF W, U
      <4> QED BY <1>3, <3>1
    <3> HIDE DEF W, U
    <3>3. Total(f, W) = f[y] + Total(f, V)
      BY <3>1, <3>2
    <3> QED BY <3>3 DEF W
  <2>4. Total(f, V \cup {y}) = Total(f, V) + f[y]
    BY <2>2, <2>3
  <2> QED BY <2>4
<1>5. 0 \in T
  <2> SUFFICES ASSUME NEW V \in SUBSET U, NEW y \in U, Cardinality(V) = 0
               PROVE  Good(V, y)
    OBVIOUS
  <2>1. V = {}
    BY <1>2, FS_EmptySet
  <2>2. AnyOf(V \cup {y}) = y
    BY <2>1 DEF AnyOf
  <2> QED BY <1>4, <2>1, <2>2
<1>6. ASSUME NEW n \in Nat, n \in T PROVE n + 1 \in T
  <2> SUFFICES ASSUME NEW V \in SUBSET U, NEW y \in U, Cardinality(V) = n + 1, y \notin V
               PROVE  Good(V, y)
    OBVIOUS
  <2> DEFINE W == V \cup {y}
             z == AnyOf(W)
             R == V \ {z}
  <2>1. W \in SUBSET U /\ z \in W /\ Total(f, W) = f[z] + Total(f, W \ {z})
    BY <1>3
  <2>2. CASE z = y
    BY <1>4, <2>2
  <2>3. CASE z # y
    <3>0. z \in V /\ z \in U /\ R \in SUBSET U /\ z \notin R /\ y \notin R
      BY <2>1, <2>3
    <3>1. W \ {z} = R \cup {y} /\ V = R \cup {z}
      BY <2>3, <3>0
    <3>2. Cardinality(R) = n
      <4>1. IsFiniteSet(V) /\ z \in V /\ Cardinality(V) = n + 1
        BY <1>2, <3>0
      <4>2. Cardinality(R) = Cardinality(V) - 1
        <5> HIDE DEF z
        <5> QED BY <4>1, FS_RemoveElement
      <4> QED BY <4>1, <4>2
    <3>3. Good(R, y) /\ Good(R, z)
      BY <1>6, <3>0, <3>2
    <3>4. f[y] \in Int /\ f[z] \in Int /\ Total(f, R) \in Int
      BY <1>2, <3>0
    <3>5. Total(f, W) = f[z] + (Total(f, R) + f[y]) /\ Total(f, V) = Total(f, R) + f[z]
      BY <2>1, <3>1, <3>3
    <3> QED BY <3>4, <3>5
  <2> QED BY <2>2, <2>3
<1>7. Cardinality(S) \in T
  <2>1. Nat \subseteq T
    <3> HIDE DEF T
    <3> QED BY <1>5, <1>6, NumberSteps, Zenon
  <2> QED BY <1>2, <2>1
<1> QED BY <1>7

\* Sums of two sets, of a renaming, of opposites.
LEMMA TotalUnion ==
  ASSUME NEW S, IsFiniteSet(S), NEW R, IsFiniteSet(R), S \cap R = {},
         NEW f, \A x \in S \cup R : f[x] \in Int
  PROVE  Total(f, S \cup R) = Total(f, S) + Total(f, R)
PROOF
<1> DEFINE T == {U \in SUBSET R : Total(f, S \cup U) = Total(f, S) + Total(f, U)}
<1>1. \A U \in SUBSET R : /\ IsFiniteSet(U) /\ IsFiniteSet(S \cup U)
                          /\ Total(f, U) \in Int /\ Total(f, S) \in Int
  BY FS_Subset, FS_Union, TotalType
<1>2. {} \in T
  BY <1>1, TotalEmpty
<1>3. ASSUME NEW U \in SUBSET R, NEW x \in R, U \in T, x \notin U
      PROVE  U \cup {x} \in T
  <2>1. Total(f, U \cup {x}) = Total(f, U) + f[x]
    BY <1>1, <1>3, TotalAdd
  <2>2. Total(f, (S \cup U) \cup {x}) = Total(f, S \cup U) + f[x]
    BY <1>1, <1>3, TotalAdd
  <2>3. (S \cup U) \cup {x} = S \cup (U \cup {x})
    OBVIOUS
  <2>4. f[x] \in Int
    OBVIOUS
  <2> QED BY <1>1, <1>3, <2>1, <2>2, <2>3, <2>4
<1>4. R \in T
  <2>1. SUBSET R \subseteq T
    <3> HIDE DEF T
    <3> QED BY <1>2, <1>3, SubsetSteps
  <2> QED BY <2>1
<1> QED BY <1>4

\* A total does not depend on the names of the places.
LEMMA TotalRenamed ==
  ASSUME NEW S, IsFiniteSet(S), NEW R, NEW h \in Bijection(S, R), NEW f, NEW k,
         \A x \in S : f[x] \in Int /\ k[h[x]] = f[x]
  PROVE  Total(k, R) = Total(f, S)
PROOF
<1> DEFINE I(U) == {h[x] : x \in U}
           T == {U \in SUBSET S : IsFiniteSet(I(U)) /\ Total(k, I(U)) = Total(f, U)}
<1>0. /\ h \in [S -> R] /\ I(S) = R
      /\ \A x, y \in S : h[x] = h[y] => x = y
  BY DEF Bijection, Injection, Surjection, IsInjective
<1>1. {} \in T
  <2>1. I({}) = {}
    OBVIOUS
  <2> QED BY <2>1, TotalEmpty, FS_EmptySet
<1>2. ASSUME NEW U \in SUBSET S, NEW x \in S, U \in T, x \notin U
      PROVE  U \cup {x} \in T
  <2>1. I(U \cup {x}) = I(U) \cup {h[x]} /\ h[x] \notin I(U)
    BY <1>0, <1>2
  <2>2. IsFiniteSet(U) /\ IsFiniteSet(I(U) \cup {h[x]})
    BY <1>2, FS_Subset, FS_AddElement
  <2>3. \A y \in I(U) \cup {h[x]} : k[y] \in Int
    OBVIOUS
  <2>4. Total(k, I(U) \cup {h[x]}) = Total(k, I(U)) + k[h[x]]
    <3>1. IsFiniteSet(I(U))
      BY <1>2
    <3>2. \A J, y : IsFiniteSet(J) /\ y \notin J /\ (\A v \in J \cup {y} : k[v] \in Int)
                   => Total(k, J \cup {y}) = Total(k, J) + k[y]
      BY TotalAdd
    <3> DEFINE J == I(U)
               y == h[x]
    <3>3. IsFiniteSet(J) /\ y \notin J /\ \A v \in J \cup {y} : k[v] \in Int
      <4> HIDE DEF I
      <4> QED BY <2>1, <2>3, <3>1
    <3>4. Total(k, J \cup {y}) = Total(k, J) + k[y]
      <4> HIDE DEF J, y
      <4> QED BY <3>2, <3>3
    <3> QED BY <3>4
  <2>5. Total(f, U \cup {x}) = Total(f, U) + f[x]
    BY <1>2, <2>2, TotalAdd
  <2> QED BY <1>2, <2>1, <2>2, <2>4, <2>5
<1>3. S \in T
  <2>1. SUBSET S \subseteq T
    <3> HIDE DEF T
    <3> QED BY <1>1, <1>2, SubsetSteps
  <2> QED BY <2>1
<1> QED BY <1>0, <1>3

\* The total of the opposites is the opposite.
LEMMA TotalOpposite ==
  ASSUME NEW S, IsFiniteSet(S), NEW f, NEW k, \A x \in S : f[x] \in Int /\ k[x] = -f[x]
  PROVE  Total(k, S) = -Total(f, S)
PROOF
<1> DEFINE T == {U \in SUBSET S : Total(k, U) = -Total(f, U)}
<1>1. \A U \in SUBSET S : IsFiniteSet(U) /\ Total(f, U) \in Int
  BY FS_Subset, TotalType
<1>2. {} \in T
  BY TotalEmpty
<1>3. ASSUME NEW U \in SUBSET S, NEW x \in S, U \in T, x \notin U
      PROVE  U \cup {x} \in T
  <2>1. Total(f, U \cup {x}) = Total(f, U) + f[x]
    BY <1>1, <1>3, TotalAdd
  <2>2. \A y \in U \cup {x} : k[y] \in Int
    OBVIOUS
  <2>3. Total(k, U \cup {x}) = Total(k, U) + k[x]
    BY <1>1, <1>3, <2>2, TotalAdd
  <2>4. Total(f, U) \in Int /\ f[x] \in Int /\ k[x] = -f[x] /\ Total(k, U) = -Total(f, U)
    BY <1>1, <1>3
  <2> QED BY <2>1, <2>3, <2>4
<1>4. S \in T
  <2>1. SUBSET S \subseteq T
    <3> HIDE DEF T
    <3> QED BY <1>2, <1>3, SubsetSteps
  <2> QED BY <2>1
<1> QED BY <1>4

\* Sums of natural numbers are natural and grow with the set.
LEMMA TotalNat ==
  ASSUME NEW S, IsFiniteSet(S), NEW f, \A x \in S : f[x] \in Nat
  PROVE  Total(f, S) \in Nat
PROOF
<1> DEFINE T == {U \in SUBSET S : Total(f, U) \in Nat}
<1>1. \A U \in SUBSET S : IsFiniteSet(U)
  BY FS_Subset
<1>2. {} \in T
  BY TotalEmpty
<1>3. ASSUME NEW U \in SUBSET S, NEW x \in S, U \in T, x \notin U
      PROVE  U \cup {x} \in T
  <2>0. IsFiniteSet(U) /\ \A y \in U \cup {x} : f[y] \in Int
    BY <1>1
  <2>1. Total(f, U \cup {x}) = Total(f, U) + f[x]
    BY <1>3, <2>0, TotalAdd
  <2>2. Total(f, U) \in Nat /\ f[x] \in Nat
    BY <1>3
  <2>3. Total(f, U \cup {x}) \in Nat
    BY <2>1, <2>2
  <2> QED BY <2>3
<1>4. SUBSET S \subseteq T
  <2> HIDE DEF T
  <2> QED BY <1>2, <1>3, SubsetSteps
<1>5. S \in T
  <2> HIDE DEF T
  <2> QED BY <1>4
<1> QED BY <1>5

\* Of natural numbers, the total of a part is not more than the whole.
LEMMA TotalLess ==
  ASSUME NEW S, IsFiniteSet(S), NEW f, \A x \in S : f[x] \in Nat
  PROVE  Total(f, S) \in Nat /\ \A R \in SUBSET S : Total(f, R) <= Total(f, S)
PROOF
<1>1. ASSUME NEW R \in SUBSET S PROVE Total(f, R) <= Total(f, S)
  <2>1. IsFiniteSet(R) /\ IsFiniteSet(S \ R) /\ R \cap (S \ R) = {} /\ R \cup (S \ R) = S
    BY FS_Subset
  <2>4. \A x \in R \cup (S \ R) : f[x] \in Int
    OBVIOUS
  <2>2. Total(f, R \cup (S \ R)) = Total(f, R) + Total(f, S \ R)
    BY <2>1, <2>4, TotalUnion
  <2>3. Total(f, R) \in Nat /\ Total(f, S \ R) \in Nat
    BY <2>1, TotalNat
  <2>5. PICK T : T = S \ R
    OBVIOUS
  <2>6. Total(f, S) = Total(f, R) + Total(f, T)
    BY <2>1, <2>2, <2>5
  <2>7. Total(f, T) \in Nat
    BY <2>3, <2>5
  <2> QED BY <2>3, <2>6, <2>7
<1> QED BY <1>1, TotalNat
=============================================================================
