---------------------- MODULE ExpensesAndSignInProofs ----------------------
(***************************************************************************)
(* Proofs about Expenses and about SignIn, two components that share no    *)
(* state.                                                                  *)
(*                                                                         *)
(* Expenses: no cent is lost or made by a split, an equal one is fair to   *)
(* the cent and to the members who stay, and the balances of an answer add *)
(* up.                                                                     *)
(*                                                                         *)
(* SignIn: a code is good for one sign-in, and failures are bounded, for   *)
(* any number of verifications at a time, any lifetimes and any number of  *)
(* pods that die.                                                          *)
(***************************************************************************)
EXTENDS Expenses, SignIn, FiniteSetTheorems, WellFoundedInduction, TLAPS

(***************************************************************************)
(* Sums.  The library states induction with an operator for what is proved; *)
(* here it is a set, the set of the arguments of which it is true, and what *)
(* SumFunctionOnSet computes is proved from the equation it is defined by.  *)
(***************************************************************************)

\* Every nonempty set of subsets of a finite set has a minimal element: the form of
\* induction all the facts about sums below are proved by.
LEMMA MinimalSubset ==
  ASSUME NEW S, IsFiniteSet(S), NEW T, T \subseteq SUBSET S, T # {}
  PROVE  \E x \in T : \A y \in T : y \subseteq x => y = x
<1>1. T \subseteq FiniteSubsetsOf(S)
  BY FS_FiniteSubsetsOfFinite
<1>2. \E x \in T : \A y \in T : ~ (<<y, x>> \in StrictSubsetOrdering(S))
  BY <1>1, FS_StrictSubsetOrderingWellFounded, WFMin
<1> QED
  BY <1>2 DEF StrictSubsetOrdering

Pick(s) == CHOOSE x \in s : TRUE

\* The equation that defines SumFunctionOnSet, and what solves it.
Body(f, g, s) == IF s = {} THEN 0 ELSE f[Pick(s)] + g[s \ {Pick(s)}]
Solves(f, S, g) == g = [s \in SUBSET S |-> Body(f, g, s)]

\* SumFunctionOnSet is the value at S of what that equation defines on its subsets;
LEMMA SumSolves ==
  ASSUME NEW f, NEW S
  PROVE  SumFunctionOnSet(f, S) = (CHOOSE g : Solves(f, S, g))[S]
BY DEF SumFunctionOnSet, FoldFunctionOnSet, MapThenFoldSet, Solves, Body, Pick

\* there is at most one such function,
LEMMA SolutionsAgree ==
  ASSUME NEW f, NEW S, IsFiniteSet(S), NEW g, Solves(f, S, g),
         NEW U \in SUBSET S, NEW h, Solves(f, U, h)
  PROVE  \A s \in SUBSET U : g[s] = h[s]
<1> DEFINE T == {s \in SUBSET U : g[s] # h[s]}
<1>1. SUFFICES ASSUME T # {} PROVE FALSE
  OBVIOUS
<1>2. IsFiniteSet(U)
  BY FS_Subset
<1>3. PICK s \in T : \A t \in T : t \subseteq s => t = s
  <2>1. T \subseteq SUBSET U
    OBVIOUS
  <2> HIDE DEF T
  <2> QED
    BY <1>1, <1>2, <2>1, MinimalSubset
<1>4. g[s] = Body(f, g, s) /\ h[s] = Body(f, h, s)
  BY DEF Solves
<1>5. s # {} => Pick(s) \in s
  BY DEF Pick
<1>6. s # {} => g[s \ {Pick(s)}] = h[s \ {Pick(s)}]
  BY <1>3, <1>5
<1> QED
  BY <1>3, <1>4, <1>6 DEF Body

\* and there is one.
LEMMA SolutionExists ==
  ASSUME NEW f, NEW S, IsFiniteSet(S)
  PROVE  \E g : Solves(f, S, g)
<1> DEFINE T == {X \in SUBSET S : ~ \E g : Solves(f, X, g)}
<1>1. SUFFICES ASSUME T # {} PROVE FALSE
  OBVIOUS
<1>2. PICK X \in T : \A Y \in T : Y \subseteq X => Y = X
  <2>1. T \subseteq SUBSET S
    OBVIOUS
  <2> HIDE DEF T
  <2> QED
    BY <1>1, <2>1, MinimalSubset
<1> DEFINE G(s) == CHOOSE g : Solves(f, s, g)
           V(s) == G(s)[s]
           W(s) == IF s = {} THEN 0 ELSE f[Pick(s)] + V(s \ {Pick(s)})
           k == [s \in SUBSET X |-> W(s)]
<1>3. ASSUME NEW s \in SUBSET X, s # X
      PROVE  Solves(f, s, G(s))
  BY <1>2, <1>3
<1>4. ASSUME NEW s, s # {}
      PROVE  Pick(s) \in s
  BY <1>4 DEF Pick
<1>5. ASSUME NEW s \in SUBSET X, s # X
      PROVE  V(s) = W(s)
  <2>1. CASE s = {}
    <3>1. Solves(f, s, G(s)) /\ s \in SUBSET s
      BY <1>3, <1>5
    <3> HIDE DEF G
    <3>2. G(s)[s] = 0
      BY <2>1, <3>1 DEF Solves, Body
    <3> QED
      BY <2>1, <3>2
  <2>2. CASE s # {}
    <3> DEFINE t == s \ {Pick(s)}
    <3>1. t \in SUBSET X /\ t # X /\ t \in SUBSET s
      BY <1>4, <2>2
    <3>2. IsFiniteSet(s)
      BY FS_Subset
    <3>3. Solves(f, s, G(s)) /\ Solves(f, t, G(t))
      BY <1>3, <1>5, <3>1
    <3> HIDE DEF t, G
    <3>4. G(s)[t] = G(t)[t]
      BY <3>1, <3>2, <3>3, SolutionsAgree
    <3>5. G(s)[s] = f[Pick(s)] + G(s)[t]
      BY <2>2, <3>3 DEF Solves, Body, t
    <3> QED
      BY <2>2, <3>4, <3>5 DEF t
  <2> QED
    BY <2>1, <2>2
<1>6. ASSUME NEW s \in SUBSET X
      PROVE  Body(f, k, s) = W(s)
  <2>1. CASE s = {}
    BY <2>1 DEF Body
  <2>2. CASE s # {}
    <3>1. s \ {Pick(s)} \in SUBSET X /\ s \ {Pick(s)} # X
      BY <1>4, <2>2
    <3>2. k[s \ {Pick(s)}] = V(s \ {Pick(s)})
      BY <1>5, <3>1
    <3> HIDE DEF k, V
    <3> QED
      BY <2>2, <3>2 DEF Body
  <2> QED
    BY <2>1, <2>2
<1> HIDE DEF W
<1>7. Solves(f, X, k)
  BY <1>6 DEF Solves
<1> QED
  BY <1>2, <1>7

\* So a sum over no index is 0,
LEMMA SumEmpty ==
  ASSUME NEW f
  PROVE  SumFunctionOnSet(f, {}) = 0
<1>1. Solves(f, {}, CHOOSE g : Solves(f, {}, g))
  BY SolutionExists, FS_EmptySet
<1> QED
  BY <1>1, SumSolves DEF Solves, Body

\* and any other is the value at an index and the sum over the rest.
LEMMA SumPick ==
  ASSUME NEW f, NEW S, IsFiniteSet(S), S # {}
  PROVE  /\ Pick(S) \in S
         /\ SumFunctionOnSet(f, S) = f[Pick(S)] + SumFunctionOnSet(f, S \ {Pick(S)})
<1> DEFINE R == S \ {Pick(S)}
           g == CHOOSE g : Solves(f, S, g)
           h == CHOOSE h : Solves(f, R, h)
<1>1. Pick(S) \in S
  BY DEF Pick
<1>2. IsFiniteSet(R) /\ R \in SUBSET S
  BY FS_Subset
<1>3. Solves(f, S, g) /\ Solves(f, R, h)
  BY <1>2, SolutionExists
<1>4. SumFunctionOnSet(f, S) = g[S] /\ SumFunctionOnSet(f, R) = h[R]
  BY SumSolves
<1>7. g[S] = f[Pick(S)] + g[R]
  BY <1>3 DEF Solves, Body
<1> HIDE DEF g, h, R
<1>5. g[R] = h[R]
  BY <1>2, <1>3, SolutionsAgree
<1> QED
  BY <1>1, <1>4, <1>5, <1>7 DEF R

\* What is true of the empty set, and of a set if of all that are one element
\* smaller, is true of a finite set.
LEMMA SubsetInduction ==
  ASSUME NEW S, IsFiniteSet(S), NEW T, {} \in T,
         \A X \in SUBSET S : X # {} /\ (\A x \in X : X \ {x} \in T) => X \in T
  PROVE  S \in T
<1> DEFINE B == (SUBSET S) \ T
<1>1. SUFFICES ASSUME S \notin T PROVE FALSE
  OBVIOUS
<1>2. PICK X \in B : \A Y \in B : Y \subseteq X => Y = X
  <2>1. B \subseteq SUBSET S /\ B # {}
    BY <1>1
  <2> HIDE DEF B
  <2> QED
    BY <2>1, MinimalSubset
<1>3. X # {} /\ X \in SUBSET S
  OBVIOUS
<1>4. ASSUME NEW x \in X PROVE X \ {x} \in T
  <2>1. X \ {x} \notin B
    BY <1>2, <1>4
  <2> QED
    BY <1>3, <2>1
<1> QED
  BY <1>3, <1>4

\* A sum of integers is one.
LEMMA SumType ==
  ASSUME NEW S, IsFiniteSet(S), NEW f, \A x \in S : f[x] \in Int
  PROVE  SumFunctionOnSet(f, S) \in Int
<1> DEFINE T == {X \in SUBSET S : SumFunctionOnSet(f, X) \in Int}
<1>1. {} \in T
  BY SumEmpty
<1>2. ASSUME NEW X \in SUBSET S, X # {}, \A x \in X : X \ {x} \in T
      PROVE  X \in T
  <2>1. IsFiniteSet(X)
    BY FS_Subset
  <2>2. /\ Pick(X) \in X
        /\ SumFunctionOnSet(f, X) = f[Pick(X)] + SumFunctionOnSet(f, X \ {Pick(X)})
    BY <1>2, <2>1, SumPick
  <2> QED
    BY <1>2, <2>2
<1> HIDE DEF T
<1>3. S \in T
  BY <1>1, <1>2, SubsetInduction
<1> QED
  BY <1>3 DEF T

\* Whichever index is taken away, its value is what the sum loses.
LEMMA SumRemove ==
  ASSUME NEW S, IsFiniteSet(S), NEW f, \A x \in S : f[x] \in Int, NEW z \in S
  PROVE  SumFunctionOnSet(f, S) = f[z] + SumFunctionOnSet(f, S \ {z})
<1> DEFINE T == {X \in SUBSET S : \A x \in X : SumFunctionOnSet(f, X) = f[x] + SumFunctionOnSet(f, X \ {x})}
<1>1. {} \in T
  OBVIOUS
<1>2. ASSUME NEW X \in SUBSET S, X # {}, \A x \in X : X \ {x} \in T
      PROVE  X \in T
  <2> SUFFICES ASSUME NEW x \in X PROVE SumFunctionOnSet(f, X) = f[x] + SumFunctionOnSet(f, X \ {x})
    OBVIOUS
  <2> DEFINE p == Pick(X)
  <2>1. IsFiniteSet(X)
    BY FS_Subset
  <2>2. p \in X /\ SumFunctionOnSet(f, X) = f[p] + SumFunctionOnSet(f, X \ {p})
    BY <1>2, <2>1, SumPick
  <2> HIDE DEF p
  <2>3. CASE x = p
    BY <2>2, <2>3
  <2>4. CASE x # p
    <3> DEFINE R == (X \ {p}) \ {x}
               a == SumFunctionOnSet(f, X \ {p})
               b == SumFunctionOnSet(f, X \ {x})
               c == SumFunctionOnSet(f, R)
    <3>1. a = f[x] + c
      BY <1>2, <2>2, <2>4
    <3>2. b = f[p] + c
      <4>1. b = f[p] + SumFunctionOnSet(f, (X \ {x}) \ {p})
        BY <1>2, <2>2, <2>4
      <4>2. (X \ {x}) \ {p} = R
        OBVIOUS
      <4> QED
        BY <4>1, <4>2
    <3>3. c \in Int
      <4>1. IsFiniteSet(R) /\ \A y \in R : f[y] \in Int
        BY FS_Subset
      <4> QED
        BY <4>1, SumType
    <3>4. f[x] \in Int /\ f[p] \in Int
      BY <2>2
    <3>5. SumFunctionOnSet(f, X) = f[p] + a
      BY <2>2
    <3>6. f[p] + a = f[x] + b
      <4> HIDE DEF a, b, c
      <4> QED
        BY <3>1, <3>2, <3>3, <3>4
    <3> QED
      BY <3>5, <3>6
  <2> QED
    BY <2>3, <2>4
<1> HIDE DEF T
<1>3. S \in T
  BY <1>1, <1>2, SubsetInduction
<1> QED
  BY <1>3 DEF T

\* Sums are added index by index.
LEMMA SumAdd ==
  ASSUME NEW S, IsFiniteSet(S), NEW f, \A x \in S : f[x] \in Int,
         NEW g, \A x \in S : g[x] \in Int,
         NEW h, \A x \in S : h[x] = f[x] + g[x]
  PROVE  SumFunctionOnSet(h, S) = SumFunctionOnSet(f, S) + SumFunctionOnSet(g, S)
<1> DEFINE T == {X \in SUBSET S : SumFunctionOnSet(h, X) =
                                   SumFunctionOnSet(f, X) + SumFunctionOnSet(g, X)}
<1>1. {} \in T
  BY SumEmpty
<1>2. ASSUME NEW X \in SUBSET S, X # {}, \A x \in X : X \ {x} \in T
      PROVE  X \in T
  <2>1. IsFiniteSet(X)
    BY FS_Subset
  <2>2. PICK x : x \in X
    BY <1>2
  <2> DEFINE R == X \ {x}
  <2>3. /\ SumFunctionOnSet(f, X) = f[x] + SumFunctionOnSet(f, R)
        /\ SumFunctionOnSet(g, X) = g[x] + SumFunctionOnSet(g, R)
    BY <2>1, <2>2, SumRemove
  <2>4. SumFunctionOnSet(h, X) = h[x] + SumFunctionOnSet(h, R)
    <3>1. \A y \in X : h[y] \in Int
      OBVIOUS
    <3> QED
      BY <2>1, <2>2, <3>1, SumRemove
  <2>5. SumFunctionOnSet(f, R) \in Int /\ SumFunctionOnSet(g, R) \in Int
    <3>1. IsFiniteSet(R) /\ \A y \in R : f[y] \in Int /\ g[y] \in Int
      BY FS_Subset
    <3> QED
      BY <3>1, SumType
  <2>6. SumFunctionOnSet(h, R) = SumFunctionOnSet(f, R) + SumFunctionOnSet(g, R)
    BY <1>2, <2>2
  <2> QED
    BY <2>2, <2>3, <2>4, <2>5, <2>6
<1> HIDE DEF T
<1>3. S \in T
  BY <1>1, <1>2, SubsetInduction
<1> QED
  BY <1>3 DEF T

\* The sum depends on the values at the indices only.
LEMMA SumSame ==
  ASSUME NEW S, IsFiniteSet(S), NEW f, NEW g, \A x \in S : f[x] = g[x]
  PROVE  SumFunctionOnSet(f, S) = SumFunctionOnSet(g, S)
<1> DEFINE T == {X \in SUBSET S : SumFunctionOnSet(f, X) = SumFunctionOnSet(g, X)}
<1>1. {} \in T
  BY SumEmpty
<1>2. ASSUME NEW X \in SUBSET S, X # {}, \A x \in X : X \ {x} \in T
      PROVE  X \in T
  <2>1. IsFiniteSet(X)
    BY FS_Subset
  <2>2. /\ Pick(X) \in X
        /\ SumFunctionOnSet(f, X) = f[Pick(X)] + SumFunctionOnSet(f, X \ {Pick(X)})
        /\ SumFunctionOnSet(g, X) = g[Pick(X)] + SumFunctionOnSet(g, X \ {Pick(X)})
    BY <1>2, <2>1, SumPick
  <2> QED
    BY <1>2, <2>2
<1> HIDE DEF T
<1>3. S \in T
  BY <1>1, <1>2, SubsetInduction
<1> QED
  BY <1>3 DEF T

\* Indices whose value is 0 may be left out.
LEMMA SumPart ==
  ASSUME NEW S, IsFiniteSet(S), NEW A \in SUBSET S, NEW f, \A x \in S : f[x] \in Int,
         \A x \in S \ A : f[x] = 0
  PROVE  SumFunctionOnSet(f, S) = SumFunctionOnSet(f, A)
<1> DEFINE T == {X \in SUBSET S : SumFunctionOnSet(f, X) = SumFunctionOnSet(f, X \cap A)}
<1>1. {} \in T
  <2>1. {} \cap A = {}
    OBVIOUS
  <2> QED
    BY <2>1
<1>2. ASSUME NEW X \in SUBSET S, X # {}, \A x \in X : X \ {x} \in T
      PROVE  X \in T
  <2>1. PICK x : x \in X
    BY <1>2
  <2> DEFINE R == X \ {x}
  <2>2. /\ SumFunctionOnSet(f, X) = f[x] + SumFunctionOnSet(f, R)
        /\ SumFunctionOnSet(f, R) \in Int
    <3>1. IsFiniteSet(X) /\ IsFiniteSet(R) /\ \A y \in X : f[y] \in Int
      BY FS_Subset
    <3> QED
      BY <2>1, <3>1, SumRemove, SumType
  <2>3. SumFunctionOnSet(f, R) = SumFunctionOnSet(f, R \cap A)
    BY <1>2, <2>1
  <2>4. CASE x \in A
    <3>1. IsFiniteSet(X \cap A) /\ x \in X \cap A /\ \A y \in X \cap A : f[y] \in Int
      BY <2>1, <2>4, FS_Subset
    <3>2. SumFunctionOnSet(f, X \cap A) = f[x] + SumFunctionOnSet(f, (X \cap A) \ {x})
      BY <3>1, SumRemove
    <3>3. (X \cap A) \ {x} = R \cap A
      OBVIOUS
    <3> QED
      BY <2>2, <2>3, <3>2, <3>3
  <2>5. CASE x \notin A
    <3>1. f[x] = 0
      BY <2>1, <2>5
    <3>2. SumFunctionOnSet(f, X) = SumFunctionOnSet(f, R)
      <4> HIDE DEF R
      <4> QED
        BY <2>2, <3>1
    <3>3. R \cap A = X \cap A
      BY <2>5
    <3>4. SumFunctionOnSet(f, R \cap A) = SumFunctionOnSet(f, X \cap A)
      BY <3>3
    <3> QED
      BY <2>3, <3>2, <3>4
  <2> QED
    BY <2>4, <2>5
<1> HIDE DEF T
<1>3. S \in T
  BY <1>1, <1>2, SubsetInduction
<1>4. S \cap A = A
  OBVIOUS
<1> QED
  BY <1>3, <1>4 DEF T

\* A constant is added as often as there are indices.
LEMMA SumConstant ==
  ASSUME NEW S, IsFiniteSet(S), NEW c \in Int, NEW f, \A x \in S : f[x] = c
  PROVE  SumFunctionOnSet(f, S) = c * Cardinality(S)
<1> DEFINE T == {X \in SUBSET S : SumFunctionOnSet(f, X) = c * Cardinality(X)}
<1>1. {} \in T
  BY SumEmpty, FS_EmptySet
<1>2. ASSUME NEW X \in SUBSET S, X # {}, \A x \in X : X \ {x} \in T
      PROVE  X \in T
  <2>1. IsFiniteSet(X)
    BY FS_Subset
  <2>2. /\ Pick(X) \in X
        /\ SumFunctionOnSet(f, X) = f[Pick(X)] + SumFunctionOnSet(f, X \ {Pick(X)})
    BY <1>2, <2>1, SumPick
  <2> DEFINE n == Cardinality(X)
             m == Cardinality(X \ {Pick(X)})
  <2>3. n \in Nat /\ m = n - 1
    BY <2>1, <2>2, FS_CardinalityType, FS_RemoveElement
  <2>4. SumFunctionOnSet(f, X) = c + c * m
    BY <1>2, <2>2
  <2>5. c + c * m = c * n
    <3> HIDE DEF n, m
    <3> QED
      BY <2>3
  <2> QED
    BY <2>4, <2>5
<1> HIDE DEF T
<1>3. S \in T
  BY <1>1, <1>2, SubsetInduction
<1> QED
  BY <1>3 DEF T

\* A sum over indices is the sum over what they stand for, if no two stand for
\* the same.
LEMMA SumAlong ==
  ASSUME NEW S, IsFiniteSet(S), NEW U, IsFiniteSet(U), NEW h \in [S -> U],
         \A x, y \in S : h[x] = h[y] => x = y,
         NEW f, \A x \in S : f[x] \in Int, NEW g, \A x \in S : g[h[x]] = f[x]
  PROVE  SumFunctionOnSet(f, S) = SumFunctionOnSet(g, {h[x] : x \in S})
<1> DEFINE Im(X) == {h[x] : x \in X}
           T == {X \in SUBSET S : SumFunctionOnSet(f, X) = SumFunctionOnSet(g, Im(X))}
<1>1. {} \in T
  <2>1. Im({}) = {}
    OBVIOUS
  <2> QED
    BY <2>1, SumEmpty
<1>2. ASSUME NEW X \in SUBSET S, X # {}, \A x \in X : X \ {x} \in T
      PROVE  X \in T
  <2>1. PICK x : x \in X
    BY <1>2
  <2>2. Im(X \ {x}) = Im(X) \ {h[x]}
    BY <2>1
  <2>3. SumFunctionOnSet(f, X) = f[x] + SumFunctionOnSet(f, X \ {x})
    <3>1. IsFiniteSet(X) /\ \A y \in X : f[y] \in Int
      BY FS_Subset
    <3> QED
      BY <2>1, <3>1, SumRemove
  <2>4. SumFunctionOnSet(g, Im(X)) = g[h[x]] + SumFunctionOnSet(g, Im(X) \ {h[x]})
    <3>1. Im(X) \in SUBSET U /\ h[x] \in Im(X) /\ \A y \in Im(X) : g[y] \in Int
      BY <2>1
    <3>2. IsFiniteSet(Im(X))
      BY <3>1, FS_Subset
    <3> HIDE DEF Im
    <3> QED
      BY <3>1, <3>2, SumRemove
  <2>5. SumFunctionOnSet(f, X \ {x}) = SumFunctionOnSet(g, Im(X \ {x}))
    BY <1>2, <2>1
  <2>6. g[h[x]] = f[x]
    BY <2>1
  <2> HIDE DEF Im
  <2> QED
    BY <2>2, <2>3, <2>4, <2>5, <2>6
<1> HIDE DEF T
<1>3. S \in T
  BY <1>1, <1>2, SubsetInduction
<1> QED
  BY <1>3 DEF T

\* The sets of indices used here are finite.
LEMMA UpTo ==
  ASSUME NEW n \in Nat
  PROVE  /\ IsFiniteSet(1..n) /\ Cardinality(1..n) = n
         /\ \A S \in SUBSET (1..n) : IsFiniteSet(S)
<1>1. IsFiniteSet(1..n)
  BY FS_Interval
<1>2. Cardinality(1..n) = IF 1 > n THEN 0 ELSE n - 1 + 1
  BY FS_Interval
<1>3. \A S \in SUBSET (1..n) : IsFiniteSet(S)
  BY <1>1, FS_Subset
<1>4. Cardinality(1..n) = n
  BY <1>2
<1> QED
  BY <1>1, <1>3, <1>4

-----------------------------------------------------------------------------
(* What the splits give each user.                                         *)

\* Every split of an amount among some users gives each a number of cents, and
\* no two of them differ by more than one.
LEMMA EqualSharesEven ==
  ASSUME NEW amount \in Nat, NEW users \in SUBSET User, users # {},
         NEW share \in EqualShares(amount, users)
  PROVE  /\ share \in [User -> Nat]
         /\ \A u, v \in users : share[u] <= share[v] + 1
<1> DEFINE n == Cardinality(users)
           per == amount \div n
<1>1. n \in Nat /\ n > 0
  <2>1. IsFiniteSet(users)
    BY FS_Subset, ExpensesConstants
  <2> QED
    BY <2>1, FS_CardinalityType, FS_EmptySet
<1>2. per \in Nat
  BY <1>1
<1> HIDE DEF per
<1>3. PICK first \in SUBSET users :
        share = [u \in User |-> IF u \notin users THEN 0
                                ELSE IF u \in first THEN per + 1 ELSE per]
  BY DEF EqualShares, per
<1> QED
  BY <1>2, <1>3

\* What a valid list asks of each user is a number of cents.
LEMMA AsAskedType ==
  ASSUME NEW list \in Payload
  PROVE  AsAsked(list) \in [User -> Nat]
<1>1. list \in Seq(Share)
  BY ExpensesConstants
<1>2. ASSUME NEW u \in Listed(list)
      PROVE  list[CHOOSE i \in 1..Len(list) : list[i].user = u].cents \in Nat
  <2> DEFINE k == CHOOSE i \in 1..Len(list) : list[i].user = u
  <2>1. \E i \in 1..Len(list) : list[i].user = u
    BY <1>2 DEF Listed
  <2>2. k \in 1..Len(list)
    BY <2>1
  <2> HIDE DEF k
  <2>3. list[k] \in Share
    BY <1>1, <2>2
  <2>4. list[k].cents \in Nat
    BY <2>3 DEF Share
  <2> QED
    BY <2>4 DEF k
<1>3. ASSUME NEW u \in User
      PROVE  (IF u \in Listed(list)
              THEN list[CHOOSE i \in 1..Len(list) : list[i].user = u].cents ELSE 0) \in Nat
  BY <1>2
<1> QED
  BY <1>3 DEF AsAsked

\* An equal split hands out the whole amount, and no more.
LEMMA EqualSharesAddUp ==
  ASSUME NEW amount \in Nat, NEW users \in SUBSET User, users # {},
         NEW share \in EqualShares(amount, users)
  PROVE  SumFunction(share) = amount
<1> DEFINE n == Cardinality(users)
           per == amount \div n
<1>1. IsFiniteSet(User) /\ IsFiniteSet(users)
  BY FS_Subset, ExpensesConstants
<1>2. n \in Nat /\ n > 0
  BY <1>1, FS_CardinalityType, FS_EmptySet
<1>3. per \in Nat
  BY <1>2
<1> HIDE DEF per
<1>4. PICK first \in SUBSET users :
        /\ Cardinality(first) = amount - per * n
        /\ share = [u \in User |-> IF u \notin users THEN 0
                                   ELSE IF u \in first THEN per + 1 ELSE per]
  BY DEF EqualShares, per
<1> DEFINE f == [u \in User |-> IF u \in users THEN per ELSE 0]
           g == [u \in User |-> IF u \in first THEN 1 ELSE 0]
<1>5. SumFunctionOnSet(f, User) = per * n
  <2>1. SumFunctionOnSet(f, User) = SumFunctionOnSet(f, users)
    <3>1. \A u \in User : f[u] \in Int
      BY <1>3
    <3>2. \A u \in User \ users : f[u] = 0
      OBVIOUS
    <3> HIDE DEF f
    <3> QED
      BY <1>1, <3>1, <3>2, SumPart
  <2>2. \A u \in users : f[u] = per
    OBVIOUS
  <2> HIDE DEF f
  <2> QED
    BY <1>1, <1>3, <2>1, <2>2, SumConstant
<1>6. SumFunctionOnSet(g, User) = amount - per * n
  <2>1. SumFunctionOnSet(g, User) = SumFunctionOnSet(g, first)
    <3>1. \A u \in User : g[u] \in Int
      OBVIOUS
    <3>2. \A u \in User \ first : g[u] = 0
      OBVIOUS
    <3>3. first \in SUBSET User
      OBVIOUS
    <3> HIDE DEF g
    <3> QED
      BY <1>1, <3>1, <3>2, <3>3, SumPart
  <2>2. \A u \in first : g[u] = 1
    OBVIOUS
  <2>3. IsFiniteSet(first) /\ Cardinality(first) \in Nat
    BY <1>1, FS_Subset, FS_CardinalityType
  <2> HIDE DEF g
  <2>4. SumFunctionOnSet(g, first) = 1 * Cardinality(first)
    BY <2>2, <2>3, SumConstant
  <2> QED
    BY <1>4, <2>1, <2>3, <2>4
<1>7. SumFunctionOnSet(share, User) = SumFunctionOnSet(f, User) + SumFunctionOnSet(g, User)
  <2>1. \A u \in User : f[u] \in Int /\ g[u] \in Int /\ share[u] = f[u] + g[u]
    BY <1>3, <1>4
  <2> HIDE DEF f, g
  <2> QED
    BY <1>1, <2>1, SumAdd
<1>8. per * n \in Int
  BY <1>2, <1>3
<1>9. SumFunction(share) = SumFunctionOnSet(share, User)
  BY <1>4 DEF SumFunction
<1> HIDE DEF f, g, n
<1> QED
  BY <1>5, <1>6, <1>7, <1>8, <1>9

\* What a list without repetitions asks of the users is what it adds up to.
LEMMA AsAskedAddsUp ==
  ASSUME NEW list \in Payload, Cardinality(Listed(list)) = Len(list)
  PROVE  SumFunction(AsAsked(list)) = Cents(list)
<1> DEFINE n == Len(list)
           D == 1..n
           h == [i \in D |-> list[i].user]
           f == [i \in D |-> list[i].cents]
           g == AsAsked(list)
<1>1. list \in Seq(Share) /\ n \in Nat
  BY ExpensesConstants
<1>2. \A i \in D : list[i].user \in User /\ list[i].cents \in Nat
  <2>1. \A i \in D : list[i] \in Share
    BY <1>1
  <2> QED
    BY <2>1 DEF Share
<1>3. IsFiniteSet(D) /\ Cardinality(D) = n /\ IsFiniteSet(User)
  <2>1. IsFiniteSet(D) /\ Cardinality(D) = n
    BY <1>1, UpTo
  <2> QED
    BY <2>1, ExpensesConstants
<1>4. \A i, j \in D : h[i] = h[j] => i = j
  <2>1. h \in Surjection(D, Listed(list))
    BY DEF Surjection, Listed
  <2>2. h \in Injection(D, Listed(list))
    <3> HIDE DEF h, D
    <3> QED
      BY <1>3, <2>1, FS_SurjSameCardinalityImpliesInj
  <2> QED
    BY <2>2 DEF Injection, IsInjective
<1>5. {h[i] : i \in D} = Listed(list)
  BY DEF Listed
<1>6. \A i \in D : g[h[i]] = f[i]
  <2> SUFFICES ASSUME NEW i \in D PROVE g[h[i]] = f[i]
    OBVIOUS
  <2>1. h[i] \in User /\ h[i] \in Listed(list)
    BY <1>2, <1>5
  <2>2. g[h[i]] = list[CHOOSE j \in 1..Len(list) : list[j].user = h[i]].cents
    BY <2>1 DEF AsAsked
  <2>3. (CHOOSE j \in 1..Len(list) : list[j].user = h[i]) = i
    BY <1>4
  <2> QED
    BY <2>2, <2>3
<1>7. SumFunctionOnSet(f, D) = SumFunctionOnSet(g, Listed(list))
  <2>1. h \in [D -> User] /\ \A i \in D : f[i] \in Int
    BY <1>2
  <2> HIDE DEF h, f, g, D
  <2> QED
    BY <1>3, <1>4, <1>5, <1>6, <2>1, SumAlong
<1>8. SumFunctionOnSet(g, User) = SumFunctionOnSet(g, Listed(list))
  <2>1. Listed(list) \in SUBSET User
    BY <1>2 DEF Listed
  <2>2. \A u \in User : g[u] \in Int
    BY AsAskedType
  <2>3. \A u \in User \ Listed(list) : g[u] = 0
    BY DEF AsAsked
  <2> HIDE DEF g
  <2> QED
    BY <1>3, <2>1, <2>2, <2>3, SumPart
<1>9. /\ SumFunction(g) = SumFunctionOnSet(g, User)
      /\ Cents(list) = SumFunctionOnSet(f, D)
  BY DEF SumFunction, AsAsked, Cents
<1> QED
  BY <1>7, <1>8, <1>9

-----------------------------------------------------------------------------
(* What a step may do to each variable.                                    *)

BillType ==
  [step : {"idle", "split", "commit"}, payer : User \cup {NoUser}, amount : Nat,
   list : Payload \cup {<<>>}, share : [User -> Nat], among : SUBSET User,
   stay : SUBSET User, met : SUBSET User]

SheetType(n) ==
  [step : {"idle", "expenses", "shares", "done"}, todo : SUBSET (1..n), read : 0..n,
   total : Nat, net : [User -> Int], due : 0..n]

Entry == [payer : User, amount : Nat, share : [User -> Nat]]

AddsUp(e) == SumFunction(e.share) = e.amount

\* What ExpensesInv says of one bill,
BillOK(b, m) ==
  /\ b.step # "idle" => b.payer \in User /\ b.stay \subseteq m /\ m \subseteq b.met
  /\ b.step = "commit" =>
       /\ \A u, v \in b.among : b.share[u] <= b.share[v] + 1
       /\ b.stay \subseteq b.among
       /\ b.among \subseteq b.met
       /\ SumFunction(b.share) = b.amount

\* of one sheet, when the expenses are those of bk,
BookedIn(bk, S) == SumFunctionOnSet([i \in 1..Len(bk) |-> bk[i].amount], S)

SheetOK(s, bk) ==
  /\ s.step = "expenses" => s.total = 0 /\ s.net = [u \in User |-> 0]
  /\ s.step \in {"shares", "done"} =>
       /\ s.due <= s.read
       /\ s.todo \subseteq 1..s.read
       /\ s.total = BookedIn(bk, (1..s.read) \ s.todo)
       /\ SumFunction(s.net) = 0
  /\ s.step = "done" => s.todo = {}

\* and of all of them.
Good(m, bk, bl, sh) ==
  /\ m \in SUBSET User
  /\ bk \in Seq(Entry)
  /\ bl \in [Req -> BillType]
  /\ sh \in [Reader -> SheetType(Len(bk))]
  /\ \A r \in Req : BillOK(bl[r], m)
  /\ \A i \in 1..Len(bk) : AddsUp(bk[i])
  /\ \A q \in Reader : SheetOK(sh[q], bk)

LEMMA Parts == ExpensesInv <=> Good(member, book, bill, sheet)
BY DEF ExpensesInv, ExpensesTypeOK, BillInv, EvenSplit, ShareInv, SharesAddUp, SheetInv, Booked, Good,
       BillOK, BillType, AddsUp, SheetOK, BookedIn, SheetType, Entry

LEMMA PartsNext == ExpensesInv' <=> Good(member', book', bill', sheet')
BY DEF ExpensesInv, ExpensesTypeOK, BillInv, EvenSplit, ShareInv, SharesAddUp, SheetInv, Booked, Good,
       BillOK, BillType, AddsUp, SheetOK, BookedIn, SheetType, Entry

THEOREM ExpensesInitially == ExpensesInit => ExpensesInv
<1> SUFFICES ASSUME ExpensesInit PROVE Good(member, book, bill, sheet)
  BY Parts
<1>1. NoShares \in [User -> Nat]
  BY DEF NoShares
<1>2. Free \in BillType
  BY <1>1 DEF Free, BillType
<1>3. book \in Seq(Entry) /\ Len(book) = 0
  BY DEF ExpensesInit
<1>4. Blank \in SheetType(Len(book))
  BY <1>3 DEF Blank, SheetType
<1>5. BillOK(Free, member)
  BY DEF BillOK, Free
<1>6. SheetOK(Blank, book)
  BY DEF SheetOK, Blank
<1> QED
  BY <1>2, <1>3, <1>4, <1>5, <1>6 DEF ExpensesInit, Good

\* An action that changes one bill only.
LEMMA OneBill ==
  ASSUME ExpensesInv, NEW r \in Req, NEW b \in BillType, BillOK(b, member),
         bill' = [bill EXCEPT ![r] = b],
         member' = member, book' = book, sheet' = sheet
  PROVE  ExpensesInv'
BY Parts, PartsNext DEF Good

\* An action that changes one sheet only.
LEMMA OneSheet ==
  ASSUME ExpensesInv, NEW q \in Reader, NEW s \in SheetType(Len(book)), SheetOK(s, book),
         sheet' = [sheet EXCEPT ![q] = s],
         member' = member, book' = book, bill' = bill
  PROVE  ExpensesInv'
BY Parts, PartsNext DEF Good

\* The expenses a sheet accounts for are the same when there is one more.
LEMMA BookedSame ==
  ASSUME NEW bk \in Seq(Entry), NEW e \in Entry, NEW n \in 0..Len(bk),
         NEW S \in SUBSET (1..n)
  PROVE  BookedIn(Append(bk, e), S) = BookedIn(bk, S)
<1> DEFINE m == Append(bk, e)
           f == [i \in 1..Len(m) |-> m[i].amount]
           g == [i \in 1..Len(bk) |-> bk[i].amount]
<1>1. IsFiniteSet(S)
  BY UpTo
<1>2. \A i \in S : f[i] = g[i]
  <2> SUFFICES ASSUME NEW i \in S PROVE f[i] = g[i]
    OBVIOUS
  <2>1. i \in 1..Len(bk) /\ i \in 1..Len(m) /\ m[i] = bk[i]
    OBVIOUS
  <2> QED
    BY <2>1
<1> HIDE DEF f, g
<1>3. SumFunctionOnSet(f, S) = SumFunctionOnSet(g, S)
  BY <1>1, <1>2, SumSame
<1> QED
  BY <1>3 DEF BookedIn, f, g

LEMMA SheetKeeps ==
  ASSUME NEW bk \in Seq(Entry), NEW e \in Entry,
         NEW s \in SheetType(Len(bk)), SheetOK(s, bk)
  PROVE  SheetOK(s, Append(bk, e))
<1>1. s.read \in 0..Len(bk) /\ (1..s.read) \ s.todo \in SUBSET (1..s.read)
  BY DEF SheetType
<1>2. BookedIn(Append(bk, e), (1..s.read) \ s.todo) = BookedIn(bk, (1..s.read) \ s.todo)
  BY <1>1, BookedSame
<1> QED
  BY <1>2 DEF SheetOK

\* A bill is done with, and has perhaps become an expense.
LEMMA OneExpense ==
  ASSUME ExpensesInv, NEW r \in Req, Finish(r), member' = member, sheet' = sheet,
         \/ UNCHANGED book
         \/ \E e \in Entry : AddsUp(e) /\ book' = Append(book, e)
  PROVE  ExpensesInv'
<1> USE Parts DEF Good
<1>1. Free \in BillType /\ BillOK(Free, member)
  BY DEF Free, BillType, BillOK, NoShares
<1>2. bill' \in [Req -> BillType] /\ \A s \in Req : BillOK(bill'[s], member)
  BY <1>1 DEF Finish
<1>3. CASE UNCHANGED book
  BY <1>2, <1>3, PartsNext
<1>4. ASSUME NEW e \in Entry, AddsUp(e), book' = Append(book, e)
      PROVE  ExpensesInv'
  <2>1. /\ book' \in Seq(Entry) /\ Len(book') = Len(book) + 1 /\ Len(book) \in Nat
        /\ \A i \in 1..Len(book') : AddsUp(book'[i])
    BY <1>4
  <2>2. sheet' \in [Reader -> SheetType(Len(book'))]
    <3>1. SheetType(Len(book)) \subseteq SheetType(Len(book'))
      BY <2>1 DEF SheetType
    <3> QED
      BY <3>1
  <2>3. \A q \in Reader : SheetOK(sheet'[q], book')
    BY <1>4, SheetKeeps
  <2> QED
    BY <1>2, <2>1, <2>2, <2>3, PartsNext
<1> QED
  BY <1>3, <1>4

-----------------------------------------------------------------------------
(* One lemma for each action that needs more than those.                   *)

LEMMA LeaveStep ==
  ASSUME ExpensesInv, NEW u \in User, LeaveTrip(u)
  PROVE  ExpensesInv'
<1>1. \A r \in Req : bill'[r] = [bill[r] EXCEPT !.stay = @ \ {u}]
  BY DEF LeaveTrip
<1>2. ASSUME NEW r \in Req
      PROVE  bill'[r] \in BillType /\ BillOK(bill'[r], member')
  <2>1. bill[r] \in BillType /\ BillOK(bill[r], member)
    BY Parts DEF Good
  <2> QED
    BY <1>1, <2>1 DEF BillType, BillOK, LeaveTrip
<1>3. bill' \in [Req -> BillType]
  BY <1>2 DEF LeaveTrip
<1> QED
  BY <1>2, <1>3, Parts, PartsNext DEF LeaveTrip, Good

LEMMA JoinStep ==
  ASSUME ExpensesInv, NEW u \in User, JoinTrip(u)
  PROVE  ExpensesInv'
<1>1. \A r \in Req : bill'[r] = IF bill[r].step = "idle" THEN bill[r]
                                ELSE [bill[r] EXCEPT !.met = @ \cup {u}]
  BY DEF JoinTrip
<1>2. ASSUME NEW r \in Req
      PROVE  bill'[r] \in BillType /\ BillOK(bill'[r], member')
  <2>1. bill[r] \in BillType /\ BillOK(bill[r], member)
    BY Parts DEF Good
  <2> QED
    BY <1>1, <2>1 DEF BillType, BillOK, JoinTrip
<1>3. bill' \in [Req -> BillType]
  BY <1>2 DEF JoinTrip
<1> QED
  BY <1>2, <1>3, Parts, PartsNext DEF JoinTrip, Good

LEMMA AddExpenseStep ==
  ASSUME ExpensesInv, NEW r \in Req, NEW u \in User, NEW a \in Amount, NEW list \in Payload,
         AddExpense(r, u, a, list)
  PROVE  ExpensesInv'
<1> DEFINE b == [Free EXCEPT !.step = "split", !.payer = u, !.amount = a, !.list = list,
                             !.stay = member, !.met = member]
<1>1. b \in BillType
  BY Parts, ExpensesConstants DEF Good, Free, NoShares, BillType
<1>2. BillOK(b, member)
  BY DEF Free, BillOK
<1> QED
  BY <1>1, <1>2, OneBill DEF AddExpense

LEMMA SplitAsAskedStep ==
  ASSUME ExpensesInv, NEW r \in Req, SplitAsAsked(r)
  PROVE  ExpensesInv'
<1>1. bill[r] \in BillType /\ BillOK(bill[r], member)
  BY Parts DEF Good
<1> DEFINE list == bill[r].list
<1>2. CASE Cents(list) = bill[r].amount /\ Cardinality(Listed(list)) = Len(list)
  <2> DEFINE e == [payer |-> bill[r].payer, amount |-> bill[r].amount, share |-> AsAsked(list)]
  <2>1. list \in Payload
    BY <1>1 DEF BillType, SplitAsAsked
  <2>2. e \in Entry
    BY <1>1, <2>1, AsAskedType DEF BillType, BillOK, SplitAsAsked, Entry
  <2>3. AddsUp(e)
    BY <1>2, <2>1, AsAskedAddsUp DEF AddsUp
  <2>4. book' = Append(book, e)
    BY <1>2 DEF SplitAsAsked, Records
  <2> HIDE DEF e
  <2> QED
    BY <2>2, <2>3, <2>4, OneExpense DEF SplitAsAsked
<1>3. CASE ~ (Cents(list) = bill[r].amount /\ Cardinality(Listed(list)) = Len(list))
  BY <1>3, OneExpense DEF SplitAsAsked
<1> QED
  BY <1>2, <1>3

LEMMA SplitEquallyStep ==
  ASSUME ExpensesInv, NEW r \in Req, SplitEqually(r)
  PROVE  ExpensesInv'
<1>1. bill[r] \in BillType /\ BillOK(bill[r], member) /\ member \in SUBSET User
  BY Parts DEF Good
<1>2. CASE member = {} /\ Finish(r)
  BY <1>2, OneExpense DEF SplitEqually
<1>3. CASE member # {} /\ SplitsAmong(r, member)
  <2>1. PICK share \in EqualShares(bill[r].amount, member) :
          bill' = [bill EXCEPT ![r] =
            [@ EXCEPT !.step = "commit", !.share = share, !.among = member]]
    BY <1>3 DEF SplitsAmong
  <2> DEFINE b == [bill[r] EXCEPT !.step = "commit", !.share = share, !.among = member]
  <2>2. /\ share \in [User -> Nat]
        /\ \A u, v \in member : share[u] <= share[v] + 1
        /\ SumFunction(share) = bill[r].amount
    BY <1>1, <1>3, EqualSharesEven, EqualSharesAddUp DEF BillType
  <2>3. b \in BillType
    BY <1>1, <2>2 DEF BillType
  <2>4. BillOK(b, member)
    BY <1>1, <2>2 DEF BillType, BillOK, SplitEqually
  <2>5. bill' = [bill EXCEPT ![r] = b]
    BY <2>1
  <2> QED
    BY <2>3, <2>4, <2>5, OneBill DEF SplitEqually
<1> QED
  BY <1>2, <1>3 DEF SplitEqually

LEMMA CommitExpenseStep ==
  ASSUME ExpensesInv, NEW r \in Req, CommitExpense(r)
  PROVE  ExpensesInv'
<1>1. bill[r] \in BillType /\ BillOK(bill[r], member)
  BY Parts DEF Good
<1> DEFINE e == [payer |-> bill[r].payer, amount |-> bill[r].amount, share |-> bill[r].share]
<1>2. e \in Entry /\ AddsUp(e)
  BY <1>1 DEF BillType, BillOK, CommitExpense, Entry, AddsUp
<1> QED
  BY <1>2, OneExpense DEF CommitExpense, Records

\* The sheets that GET /balances goes through.
LEMMA Asked ==
  ASSUME NEW n \in Nat
  PROVE  [Blank EXCEPT !.step = "expenses", !.due = n] \in SheetType(n)
<1>1. [u \in User |-> 0] \in [User -> Int] /\ 0 \in 0..n /\ n \in 0..n
  OBVIOUS
<1> QED
  BY <1>1 DEF Blank, SheetType

LEMMA Fetched ==
  ASSUME NEW n \in Nat, NEW s \in SheetType(n)
  PROVE  [s EXCEPT !.step = "shares", !.todo = 1..n, !.read = n] \in SheetType(n)
<1>1. 1..n \in SUBSET (1..n) /\ n \in 0..n
  OBVIOUS
<1> QED
  BY <1>1 DEF SheetType

LEMMA AddedType ==
  ASSUME NEW n \in Nat, NEW s \in SheetType(n), NEW i, NEW e \in Entry
  PROVE  Added(s, i, e) \in SheetType(n)
<1>1. s.todo \ {i} \in SUBSET (1..n) /\ s.total + e.amount \in Nat
  BY DEF SheetType, Entry
<1>2. ASSUME NEW u \in User
      PROVE  s.net[u] + PaidBy(e, u) - e.share[u] \in Int
  <2>1. s.net[u] \in Int /\ e.share[u] \in Nat /\ e.amount \in Nat
    BY DEF SheetType, Entry
  <2>2. PaidBy(e, u) \in Int
    BY <2>1 DEF PaidBy
  <2> QED
    BY <2>1, <2>2
<1> DEFINE net == [u \in User |-> s.net[u] + PaidBy(e, u) - e.share[u]]
<1>3. net \in [User -> Int]
  BY <1>2
<1> HIDE DEF net
<1>4. [s EXCEPT !.todo = s.todo \ {i}, !.total = s.total + e.amount, !.net = net]
        \in SheetType(n)
  BY <1>1, <1>3 DEF SheetType
<1> QED
  BY <1>4 DEF Added, net

LEMMA Answered ==
  ASSUME NEW n \in Nat, NEW s \in SheetType(n)
  PROVE  [s EXCEPT !.step = "done"] \in SheetType(n)
BY DEF SheetType

\* A sheet that accounts for no expense is all zeros,
LEMMA FetchedOK ==
  ASSUME NEW bk \in Seq(Entry), NEW s \in SheetType(Len(bk)), SheetOK(s, bk),
         s.step = "expenses"
  PROVE  SheetOK([s EXCEPT !.step = "shares", !.todo = 1..Len(bk), !.read = Len(bk)], bk)
<1> DEFINE n == Len(bk)
           net == [u \in User |-> 0]
<1>1. s.due <= n /\ s.net = net /\ s.total = 0
  BY DEF SheetType, SheetOK
<1>2. BookedIn(bk, (1..n) \ (1..n)) = 0
  <2>1. (1..n) \ (1..n) = {}
    OBVIOUS
  <2> QED
    BY <2>1, SumEmpty DEF BookedIn
<1>3. SumFunction(net) = 0
  <2>1. SumFunction(net) = SumFunctionOnSet(net, User)
    BY DEF SumFunction
  <2>2. \A u \in User : net[u] = 0
    OBVIOUS
  <2>3. IsFiniteSet(User) /\ Cardinality(User) \in Nat
    BY ExpensesConstants, FS_CardinalityType
  <2> HIDE DEF net
  <2>4. SumFunctionOnSet(net, User) = 0 * Cardinality(User)
    BY <2>2, <2>3, SumConstant
  <2> QED
    BY <2>1, <2>3, <2>4
<1> HIDE DEF net
<1> QED
  BY <1>1, <1>2, <1>3 DEF SheetOK, SheetType

\* and an expense that adds up leaves the sum of the net amounts where it was:
\* its payer is given what the others owe.
LEMMA AddedOK ==
  ASSUME NEW bk \in Seq(Entry), NEW s \in SheetType(Len(bk)), SheetOK(s, bk),
         s.step = "shares", NEW i \in s.todo, AddsUp(bk[i])
  PROVE  SheetOK(Added(s, i, bk[i]), bk)
<1> DEFINE e == bk[i]
           amt == [k \in 1..Len(bk) |-> bk[k].amount]
           D == (1..s.read) \ s.todo
           E == (1..s.read) \ (s.todo \ {i})
           paid == [u \in User |-> PaidBy(e, u)]
           net == [u \in User |-> s.net[u] + PaidBy(e, u) - e.share[u]]
           both == [u \in User |-> s.net[u] + PaidBy(e, u)]
<1>1. /\ s.read \in 0..Len(bk) /\ s.todo \subseteq 1..s.read /\ s.total \in Nat
      /\ s.net \in [User -> Int] /\ s.total = BookedIn(bk, D) /\ SumFunction(s.net) = 0
      /\ s.due <= s.read
  BY DEF SheetType, SheetOK
<1>2. i \in 1..s.read /\ i \in 1..Len(bk) /\ e \in Entry
  BY <1>1
<1>3. e.payer \in User /\ e.amount \in Nat /\ e.share \in [User -> Nat]
  BY <1>2 DEF Entry
<1>4. IsFiniteSet(User)
  BY ExpensesConstants
<1>5. BookedIn(bk, E) = s.total + e.amount
  <2>1. IsFiniteSet(E)
    <3>1. s.read \in Nat /\ E \in SUBSET (1..s.read)
      BY <1>1
    <3> QED
      BY <3>1, UpTo
  <2>2. i \in E /\ E \ {i} = D
    BY <1>2
  <2>3. \A k \in E : amt[k] \in Int
    <3> SUFFICES ASSUME NEW k \in E PROVE amt[k] \in Int
      OBVIOUS
    <3>1. k \in 1..Len(bk)
      BY <1>1
    <3>2. bk[k] \in Entry
      BY <3>1
    <3>3. bk[k].amount \in Nat
      BY <3>2 DEF Entry
    <3> QED
      BY <3>1, <3>3
  <2>4. amt[i] = e.amount
    BY <1>2
  <2>5. BookedIn(bk, E) = SumFunctionOnSet(amt, E) /\ BookedIn(bk, D) = SumFunctionOnSet(amt, D)
    BY DEF BookedIn
  <2> HIDE DEF amt, E, D, e
  <2>6. SumFunctionOnSet(amt, E) = amt[i] + SumFunctionOnSet(amt, E \ {i})
    BY <2>1, <2>2, <2>3, SumRemove
  <2>7. SumFunctionOnSet(amt, E \ {i}) = s.total
    BY <1>1, <2>2, <2>5
  <2> QED
    BY <1>1, <1>3, <2>4, <2>5, <2>6, <2>7
<1>6. SumFunctionOnSet(paid, User) = e.amount
  <2>1. {e.payer} \in SUBSET User
    BY <1>3
  <2>2. \A u \in User : paid[u] \in Int
    BY <1>3 DEF PaidBy
  <2>3. \A u \in User \ {e.payer} : paid[u] = 0
    BY DEF PaidBy
  <2>4. \A u \in {e.payer} : paid[u] = e.amount
    BY <1>3 DEF PaidBy
  <2> HIDE DEF paid, e
  <2>5. SumFunctionOnSet(paid, User) = SumFunctionOnSet(paid, {e.payer})
    BY <1>4, <2>1, <2>2, <2>3, SumPart
  <2>6. IsFiniteSet({e.payer}) /\ Cardinality({e.payer}) = 1 /\ e.amount \in Int
    <3>1. IsFiniteSet({e.payer}) /\ Cardinality({e.payer}) = 1
      BY FS_Singleton
    <3> QED
      BY <1>3, <3>1
  <2>7. SumFunctionOnSet(paid, {e.payer}) = e.amount * Cardinality({e.payer})
    BY <2>4, <2>6, SumConstant
  <2> QED
    BY <2>5, <2>6, <2>7
<1>7. SumFunctionOnSet(e.share, User) = e.amount
  <2>1. SumFunction(e.share) = e.amount
    BY DEF AddsUp
  <2> QED
    BY <1>3, <2>1 DEF SumFunction
<1>8. SumFunctionOnSet(s.net, User) = 0
  BY <1>1 DEF SumFunction
<1>9. SumFunctionOnSet(both, User) = SumFunctionOnSet(s.net, User) + SumFunctionOnSet(paid, User)
  <2>1. \A u \in User : s.net[u] \in Int /\ paid[u] \in Int /\ both[u] = s.net[u] + paid[u]
    BY <1>1, <1>3 DEF PaidBy
  <2> HIDE DEF both, paid
  <2> QED
    BY <1>4, <2>1, SumAdd
<1>10. SumFunctionOnSet(both, User) = SumFunctionOnSet(net, User) + SumFunctionOnSet(e.share, User)
  <2>1. \A u \in User : net[u] \in Int /\ e.share[u] \in Int /\ both[u] = net[u] + e.share[u]
    BY <1>1, <1>3 DEF PaidBy
  <2> HIDE DEF both, net, e
  <2> QED
    BY <1>4, <2>1, SumAdd
<1>11. SumFunctionOnSet(net, User) \in Int
  <2>1. \A u \in User : net[u] \in Int
    BY <1>1, <1>3 DEF PaidBy
  <2> HIDE DEF net
  <2> QED
    BY <1>4, <2>1, SumType
<1>12. SumFunction(net) = 0
  <2>1. SumFunction(net) = SumFunctionOnSet(net, User)
    BY DEF SumFunction
  <2> HIDE DEF net, both, paid, e
  <2> QED
    BY <1>3, <1>6, <1>7, <1>8, <1>9, <1>10, <1>11, <2>1
<1>13. /\ Added(s, i, e).step = "shares" /\ Added(s, i, e).due = s.due
       /\ Added(s, i, e).read = s.read /\ Added(s, i, e).todo = s.todo \ {i}
       /\ Added(s, i, e).total = s.total + e.amount /\ Added(s, i, e).net = net
  BY DEF Added, SheetType
<1> HIDE DEF e, net
<1>14. SheetOK(Added(s, i, e), bk)
  BY <1>1, <1>5, <1>12, <1>13 DEF SheetOK
<1> QED
  BY <1>14 DEF e

LEMMA BalancesStep ==
  ASSUME ExpensesInv, NEW q \in Reader, Balances(q)
  PROVE  ExpensesInv'
<1> DEFINE s == sheet[q]
           n == Len(book)
<1>1. /\ n \in Nat /\ s \in SheetType(n) /\ book \in Seq(Entry)
      /\ SheetOK(s, book) /\ \A i \in 1..n : AddsUp(book[i])
  BY Parts DEF Good
<1>2. SUFFICES \E t \in SheetType(n) : SheetOK(t, book) /\ sheet' = [sheet EXCEPT ![q] = t]
  BY OneSheet DEF Balances, AskBalances, ReadExpenses, ReadShares, Answer
<1>3. CASE AskBalances(q)
  <2>1. SheetOK([Blank EXCEPT !.step = "expenses", !.due = n], book)
    BY DEF SheetOK, Blank
  <2> QED
    BY <1>1, <1>3, <2>1, Asked DEF AskBalances
<1>4. CASE ReadExpenses(q)
  BY <1>1, <1>4, Fetched, FetchedOK DEF ReadExpenses
<1>5. CASE ReadShares(q)
  <2>1. PICK i \in s.todo : sheet' = [sheet EXCEPT ![q] = Added(s, i, book[i])]
    BY <1>5 DEF ReadShares
  <2>2. i \in 1..n
    BY <1>1, <2>1 DEF SheetType
  <2>3. book[i] \in Entry
    BY <1>1, <2>2
  <2>4. SheetOK(Added(s, i, book[i]), book)
    BY <1>1, <1>5, <2>2, AddedOK DEF ReadShares
  <2> QED
    BY <1>1, <2>1, <2>3, <2>4, AddedType
<1>6. CASE Answer(q)
  <2>1. SheetOK([s EXCEPT !.step = "done"], book)
    BY <1>1, <1>6 DEF Answer, SheetOK, SheetType
  <2> QED
    BY <1>1, <1>6, <2>1, Answered DEF Answer
<1> QED
  BY <1>3, <1>4, <1>5, <1>6 DEF Balances

-----------------------------------------------------------------------------
\* The inductive invariant of Expenses holds in every behaviour.
THEOREM ExpensesInvariance == ExpensesSpec => []ExpensesInv
<1>1. ExpensesInv /\ [ExpensesNext]_expensesVars => ExpensesInv'
  <2> SUFFICES ASSUME ExpensesInv, [ExpensesNext]_expensesVars PROVE ExpensesInv'
    OBVIOUS
  <2>1. CASE \E u \in User : LeaveTrip(u) \/ JoinTrip(u)
    BY <2>1, LeaveStep, JoinStep
  <2>2. CASE \E r \in Req, u \in User, a \in Amount, list \in Payload :
               AddExpense(r, u, a, list)
    BY <2>2, AddExpenseStep
  <2>3. CASE \E r \in Req : Create(r)
    BY <2>3, SplitAsAskedStep, SplitEquallyStep, CommitExpenseStep DEF Create
  <2>4. CASE \E q \in Reader : Balances(q)
    BY <2>4, BalancesStep
  <2>5. CASE UNCHANGED expensesVars
    BY <2>5, Parts, PartsNext DEF expensesVars
  <2> QED
    BY <2>1, <2>2, <2>3, <2>4, <2>5 DEF ExpensesNext
<1> QED
  BY <1>1, ExpensesInitially, PTL DEF ExpensesSpec

\* Expenses, bills and sheets keep their types: no share is negative.
THEOREM ExpensesTypes == ExpensesSpec => []ExpensesTypeOK
BY ExpensesInvariance, PTL DEF ExpensesInv

\* An equal split is to the cent, spares nobody who stays, and charges nobody who
\* was not a member while the request was served.
THEOREM SplitIsEven == ExpensesSpec => []EvenSplit
BY ExpensesInvariance, PTL DEF ExpensesInv

\* No cent of an expense is lost or made, whoever leaves or joins while it is split
\* and whatever list of shares is sent.
THEOREM NoCentLost == ExpensesSpec => []SharesAddUp
BY ExpensesInvariance, PTL DEF ExpensesInv, ShareInv

\* Whatever is committed while they are worked out, the balances of an answer add
\* up to zero, and its total to the expenses it has read, which are all those that
\* were there when it was asked for.
THEOREM BalancesAreTrue == ExpensesSpec => []BalancesAddUp
<1>1. ExpensesInv => BalancesAddUp
  <2> SUFFICES ASSUME ExpensesInv, NEW q \in Reader, sheet[q].step = "done"
               PROVE  /\ SumFunction(sheet[q].net) = 0
                      /\ sheet[q].read >= sheet[q].due
                      /\ sheet[q].total =
                           SumFunction([i \in 1..sheet[q].read |-> book[i].amount])
    BY DEF BalancesAddUp
  <2> DEFINE s == sheet[q]
             f == [i \in 1..s.read |-> book[i].amount]
             g == [i \in 1..Len(book) |-> book[i].amount]
  <2>1. s \in SheetType(Len(book)) /\ SheetOK(s, book)
    BY Parts DEF Good
  <2>2. s.read \in 0..Len(book) /\ s.due \in 0..Len(book) /\ s.todo = {}
    BY <2>1 DEF SheetType, SheetOK
  <2>3. SumFunction(s.net) = 0 /\ s.due <= s.read /\ s.total = BookedIn(book, (1..s.read) \ {})
    BY <2>1, <2>2 DEF SheetOK
  <2>4. BookedIn(book, (1..s.read) \ {}) = SumFunctionOnSet(g, 1..s.read)
    <3>1. (1..s.read) \ {} = 1..s.read
      OBVIOUS
    <3> QED
      BY <3>1 DEF BookedIn
  <2>5. SumFunctionOnSet(g, 1..s.read) = SumFunctionOnSet(f, 1..s.read)
    <3>1. \A i \in 1..s.read : g[i] = f[i]
      BY <2>2
    <3>2. IsFiniteSet(1..s.read)
      BY <2>2, UpTo
    <3> HIDE DEF f, g
    <3> QED
      BY <3>1, <3>2, SumSame
  <2>6. SumFunction(f) = SumFunctionOnSet(f, 1..s.read)
    BY DEF SumFunction
  <2> QED
    BY <2>2, <2>3, <2>4, <2>5, <2>6
<1> QED
  BY <1>1, ExpensesInvariance, PTL

(***************************************************************************)
(* SignIn                                                                  *)
(***************************************************************************)

LEMMA Constants ==
  /\ Window \in Nat /\ Threshold \in Nat /\ Cooldown \in Nat /\ OtpTtl \in Nat
  /\ MaxNow \in Nat /\ MaxCodes \in Nat /\ MaxDeaths \in Nat
  /\ IsFiniteSet(Slot) /\ Threshold > 1 /\ 0 < Window /\ Window <= Cooldown
  /\ Never \in Nat /\ Never > MaxNow + Window
BY SignInConstants DEF Never

\* The sets that make up the types.
LEMMA Values ==
  /\ "idle" \in Step /\ "cooldown" \in Step /\ "code" \in Step /\ "incr" \in Step
  /\ "expire" \in Step /\ "lock" \in Step /\ "del" \in Step /\ "reset" \in Step
  /\ "select" \in Step /\ "insert" \in Step
  /\ 0 \in Statuses /\ 200 \in Statuses /\ 401 \in Statuses
  /\ 429 \in Statuses /\ 500 \in Statuses
  /\ 0 \in Sent
BY Constants DEF Step, Statuses, Sent

-----------------------------------------------------------------------------
(* Sizes of sets of slots.                                                 *)

LEMMA Size ==
  ASSUME NEW A \in SUBSET Slot
  PROVE  IsFiniteSet(A) /\ Cardinality(A) \in Nat
BY Constants, FS_Subset, FS_CardinalityType

LEMMA Smaller ==
  ASSUME NEW A \in SUBSET Slot, NEW B \in SUBSET A
  PROVE  Cardinality(B) <= Cardinality(A)
BY Size, FS_Subset

LEMMA SmallerByOne ==
  ASSUME NEW A \in SUBSET Slot, NEW r \in A, NEW B \in SUBSET (A \ {r})
  PROVE  Cardinality(B) + 1 <= Cardinality(A)
<1>1. IsFiniteSet(A) /\ Cardinality(A) \in Nat
  BY Size
<1>2. Cardinality(A \ {r}) = Cardinality(A) - 1
  BY <1>1, FS_RemoveElement
<1>3. (A \ {r}) \in SUBSET Slot /\ B \in SUBSET Slot
  OBVIOUS
<1>4. Cardinality(B) <= Cardinality(A \ {r}) /\ Cardinality(B) \in Nat
  BY <1>3, Smaller, Size
<1> QED
  BY <1>1, <1>2, <1>4

LEMMA Disjoint ==
  ASSUME NEW A \in SUBSET Slot, NEW B \in SUBSET Slot, A \cap B = {}
  PROVE  Cardinality(A) + Cardinality(B) <= Cardinality(Slot)
<1>1. /\ IsFiniteSet(A) /\ IsFiniteSet(B)
      /\ Cardinality(A) \in Nat /\ Cardinality(B) \in Nat
  BY Size
<1>2. Cardinality(A \cup B) = Cardinality(A) + Cardinality(B) - Cardinality(A \cap B)
  BY <1>1, FS_Union
<1>3. (A \cup B) \in SUBSET Slot /\ Slot \in SUBSET Slot
  OBVIOUS
<1>4. Cardinality(A \cup B) <= Cardinality(Slot)
  BY <1>3, Smaller
<1>5. Cardinality(A \cap B) = 0
  BY FS_EmptySet
<1> QED
  BY <1>1, <1>2, <1>4, <1>5

LEMMA Slots ==
  /\ Locking \in SUBSET Slot /\ Guessing \in SUBSET Slot
  /\ Cardinality(Locking) \in Nat /\ Cardinality(Guessing) \in Nat
  /\ Cardinality(Slot) \in Nat
  /\ Cardinality(Locking) + Cardinality(Guessing) <= Cardinality(Slot)
<1>1. Locking \in SUBSET Slot /\ Guessing \in SUBSET Slot /\ Slot \in SUBSET Slot
  BY DEF Locking, Guessing, In
<1>2. Locking \cap Guessing = {}
  BY DEF Locking, Guessing, In
<1> QED
  BY <1>1, <1>2, Size, Disjoint

LEMMA SlotsNext ==
  /\ Locking' \in SUBSET Slot /\ Guessing' \in SUBSET Slot
  /\ Cardinality(Locking') \in Nat /\ Cardinality(Guessing') \in Nat
  /\ Cardinality(Locking') + Cardinality(Guessing') <= Cardinality(Slot)
<1>1. Locking' \in SUBSET Slot /\ Guessing' \in SUBSET Slot
  BY DEF Locking, Guessing, In
<1>2. Locking' \cap Guessing' = {}
  BY DEF Locking, Guessing, In
<1> QED
  BY <1>1, <1>2, Size, Disjoint

-----------------------------------------------------------------------------
(* What a step may do to the counter.                                      *)

LEMMA Numbers ==
  ASSUME TypeOK
  PROVE  /\ now \in Nat /\ now <= MaxNow /\ deaths \in Nat /\ cool \in Nat
         /\ fail.count \in Nat /\ fail.until \in Nat
BY Constants DEF TypeOK

\* Steps that leave the counter and the cooldown alone.
LEMMA CounterKept ==
  ASSUME TypeOK, CounterInv, deaths' \in Nat,
         now' = now, fail' = fail, cool' = cool,
         Expiring' \subseteq Expiring,
         Cardinality(Locking) + deaths <= Cardinality(Locking') + deaths',
         deaths <= deaths',
         cool # 0 => Cardinality(Guessing') <= Cardinality(Guessing)
  PROVE  CounterInv'
<1>1. fail.until # Never \/ Expiring' # {} => Few \/ Cooling
  BY DEF CounterInv
<1>2. Few => Few'
  BY Slots, SlotsNext, Numbers, Constants DEF Few, Fails
<1>3. Cooling => Cooling'
  BY Slots, SlotsNext, Numbers, Constants DEF Cooling, Fails, Due
<1> QED
  BY <1>1, <1>2, <1>3 DEF CounterInv, Fails

\* The steps other verifications stand at stay as they are.
Others(r) == \A s \in Slot \ {r} : req'[s].at = req[s].at

\* Steps of one verification that have nothing to do with the counter.
LEMMA Bystander ==
  ASSUME TypeOK, CounterInv, NEW r \in Slot, Others(r),
         now' = now, fail' = fail, cool' = cool, deaths' = deaths,
         req[r].at \notin {"lock", "expire"}, req'[r].at \notin {"lock", "expire"},
         req'[r].at \in {"code", "incr"} =>
           req[r].at \in {"code", "incr"} \/ cool = 0
  PROVE  CounterInv'
<1>1. Expiring' \subseteq Expiring /\ Locking' = Locking
  BY DEF Expiring, Locking, In, Others
<1>2. cool # 0 => Guessing' \subseteq Guessing
  BY DEF Guessing, In, Others
<1>3. cool # 0 => Cardinality(Guessing') <= Cardinality(Guessing)
  BY <1>2, Slots, Smaller
<1>4. /\ Cardinality(Locking) + deaths <= Cardinality(Locking') + deaths'
      /\ deaths <= deaths' /\ deaths' \in Nat
  BY <1>1, Slots, Numbers
<1> QED
  BY <1>1, <1>3, <1>4, CounterKept

LEMMA CounterAfterDeath ==
  ASSUME TypeOK, CounterInv, NEW r \in Slot, Others(r), req'[r].at = "idle",
         now' = now, fail' = fail, cool' = cool, deaths' = deaths + 1
  PROVE  CounterInv'
<1>1. Expiring' \subseteq Expiring /\ Guessing' \subseteq Guessing
  BY DEF Expiring, Guessing, In, Others
<1>2. Cardinality(Guessing') <= Cardinality(Guessing)
  BY <1>1, Slots, Smaller
<1>3. Cardinality(Locking) <= Cardinality(Locking') + 1
  <2>1. Locking \subseteq Locking' \cup {r}
    BY DEF Locking, In, Others
  <2>2. /\ IsFiniteSet(Locking') /\ (Locking' \cup {r}) \in SUBSET Slot
        /\ Cardinality(Locking') \in Nat
    BY SlotsNext, Size
  <2>3. Cardinality(Locking' \cup {r}) <= Cardinality(Locking') + 1
    <3>1. CASE r \in Locking'
      <4>1. Locking' \cup {r} = Locking'
        BY <3>1
      <4> QED
        BY <4>1, <2>2
    <3>2. CASE r \notin Locking'
      <4>1. Cardinality(Locking' \cup {r}) = Cardinality(Locking') + 1
        BY <2>2, <3>2, FS_AddElement
      <4> QED
        BY <4>1, <2>2
    <3> QED
      BY <3>1, <3>2
  <2>4. Cardinality(Locking) <= Cardinality(Locking' \cup {r})
    BY <2>1, <2>2, Smaller
  <2> QED
    BY <2>2, <2>3, <2>4, Slots, Size
<1> QED
  BY <1>1, <1>2, <1>3, CounterKept, Slots, SlotsNext, Numbers

LEMMA CounterAfterFailure ==
  ASSUME TypeOK, CounterInv, NEW r \in Slot, Others(r), req[r].at = "incr",
         now' = now, cool' = cool, deaths' = deaths,
         fail' = [count |-> Fails + 1,
                  until |-> IF Fails = 0 THEN Never ELSE fail.until],
         req'[r].at = IF Fails = 0 THEN "expire"
                      ELSE IF Fails + 1 >= Threshold THEN "lock" ELSE "idle"
  PROVE  CounterInv'
<1>1. /\ fail'.count = Fails + 1
      /\ fail'.until = IF Fails = 0 THEN Never ELSE fail.until
  OBVIOUS
<1>2. CASE Fails = 0
  <2>1. Few'
    BY <1>1, <1>2, SlotsNext, Numbers, Constants DEF Few, Fails
  <2> QED
    BY <1>1, <1>2, <2>1 DEF CounterInv
<1>3. CASE Fails # 0 /\ Fails + 1 < Threshold
  <2>1. Few'
    BY <1>1, <1>3, SlotsNext, Numbers, Constants DEF Few, Fails
  <2>2. Expiring' \subseteq Expiring
    BY <1>3, Numbers, Constants DEF Expiring, In, Others, Fails
  <2> QED
    BY <1>1, <1>3, <2>1, <2>2 DEF CounterInv
<1>4. CASE Fails # 0 /\ Fails + 1 >= Threshold
  <2>1. req'[r].at = "lock" /\ Expiring' \subseteq Expiring
    BY <1>4 DEF Expiring, In, Others
  <2>2. r \in Locking' /\ Locking \subseteq Locking' \ {r}
    BY <2>1 DEF Locking, In, Others
  <2>3. Cardinality(Locking) + 1 <= Cardinality(Locking')
    BY <2>2, SlotsNext, SmallerByOne
  <2>4. r \in Guessing /\ Guessing' \subseteq Guessing \ {r}
    BY <2>1 DEF Guessing, In, Others
  <2>5. Cardinality(Guessing') + 1 <= Cardinality(Guessing)
    BY <2>4, Slots, SmallerByOne
  <2>6. fail'.until = fail.until /\ fail'.count = fail.count + 1
    BY <1>1, <1>4 DEF Fails
  <2>7. Few => Few'
    BY <2>3, <2>6, Slots, SlotsNext, Numbers, Constants DEF Few, Fails
  <2>8. Cooling => Cooling'
    BY <2>5, <2>6, Slots, SlotsNext, Numbers, Constants DEF Cooling, Fails, Due
  <2>9. fail.until # Never \/ Expiring' # {} => Few \/ Cooling
    BY <2>1 DEF CounterInv
  <2> QED
    BY <1>4, <2>1, <2>6, <2>7, <2>8, <2>9 DEF CounterInv, Fails
<1> QED
  BY <1>2, <1>3, <1>4, Numbers, Constants DEF Fails

LEMMA CounterAfterExpire ==
  ASSUME TypeOK, CounterInv, NEW r \in Slot, Others(r), req[r].at = "expire",
         req'[r].at = "idle", now' = now, cool' = cool, deaths' = deaths,
         fail' = IF Fails = 0 THEN fail ELSE [fail EXCEPT !.until = now + Window]
  PROVE  CounterInv'
<1>1. Expiring' \subseteq Expiring /\ Locking' = Locking /\ Guessing' = Guessing
  BY DEF Expiring, Locking, Guessing, In, Others
<1>2. CASE Fails = 0
  BY <1>1, <1>2, CounterKept, Slots, SlotsNext, Numbers
<1>3. CASE Fails # 0
  <2>1. fail'.until = now + Window /\ fail'.count = fail.count
    BY <1>3 DEF TypeOK
  <2>2. fail.until \in {Never, now + Window} /\ (Few \/ Cooling)
    BY <1>3 DEF CounterInv, Expiring, In
  <2>3. Due = now + Window /\ Due' = now + Window
    BY <2>1, <2>2 DEF Due
  <2>4. Few => Few'
    BY <1>1, <2>1 DEF Few, Fails
  <2>5. Cooling => Cooling'
    BY <1>1, <2>1, <2>3 DEF Cooling, Fails
  <2> QED
    BY <2>1, <2>2, <2>4, <2>5, Numbers, Constants DEF CounterInv
<1> QED
  BY <1>2, <1>3

LEMMA CounterAfterLock ==
  ASSUME TypeOK, CounterInv, NEW r \in Slot, Others(r), req[r].at = "lock",
         req'[r].at = "idle", now' = now, fail' = fail, deaths' = deaths,
         cool' = now + Cooldown
  PROVE  CounterInv'
<1>1. Expiring' = Expiring /\ Guessing' = Guessing
  BY DEF Expiring, Guessing, In, Others
<1>2. Due' = Due /\ Due <= now + Window
  BY Numbers, Constants DEF CounterInv, Due
<1>3. Due \in Nat
  BY Numbers, Constants DEF Due
<1>4. cool' # 0 /\ Due' <= cool'
  BY <1>2, <1>3, Numbers, Constants
<1>5. Few => Cooling'
  BY <1>1, <1>4, Slots, Numbers, Constants DEF Few, Cooling, Fails
<1>6. Cooling => Cooling'
  BY <1>1, <1>4 DEF Cooling, Fails
<1> QED
  BY <1>1, <1>5, <1>6 DEF CounterInv, Fails

LEMMA CounterAfterReset ==
  ASSUME TypeOK, CounterInv, now' \in {now, now + 1}, deaths' = deaths,
         fail' = NoCount
  PROVE  CounterInv'
<1>1. fail'.count = 0 /\ fail'.until = 0
  BY DEF NoCount
<1>2. Few'
  BY <1>1, SlotsNext, Numbers, Constants DEF Few, Fails
<1>3. 0 <= now' + Window
  BY Numbers, Constants
<1>4. fail'.until <= now' + Window
  BY <1>1, <1>3
<1>5. Fails' = 0
  BY <1>1 DEF Fails
<1> QED
  BY <1>2, <1>4, <1>5 DEF CounterInv

LEMMA CounterAfterTick ==
  ASSUME TypeOK, CounterInv, Tick
  PROVE  CounterInv'
<1>1. /\ now' = now + 1 /\ deaths' = deaths
      /\ fail' = IF now + 1 < fail.until THEN fail ELSE NoCount
      /\ cool' = IF now + 1 < cool THEN cool ELSE 0
  BY DEF Tick
<1>2. \A s \in Slot : req'[s].at = req[s].at /\ req[s].at # "expire"
  BY DEF Tick, Joined, TypeOK, RequestType
<1>3. Expiring' = {} /\ Locking' = Locking /\ Guessing' = Guessing
  BY <1>2 DEF Expiring, Locking, Guessing, In
<1>4. CASE now + 1 < fail.until
  <2>1. fail' = fail
    BY <1>1, <1>4
  <2>2. fail.until # Never => Few \/ Cooling
    BY DEF CounterInv
  <2>3. Few => Few'
    BY <1>1, <1>3, <2>1 DEF Few, Fails
  <2>4. fail.until # Never /\ Cooling => Cooling'
    <3>1. SUFFICES ASSUME fail.until # Never, Cooling PROVE Cooling'
      OBVIOUS
    <3>2. Due = fail.until /\ Due' = fail.until
      BY <2>1, <3>1 DEF Due
    <3>3. cool' = cool
      BY <1>1, <1>4, <3>1, <3>2, Numbers DEF Cooling
    <3> QED
      BY <1>1, <1>3, <2>1, <3>1, <3>2, <3>3 DEF Cooling, Fails
  <2>5. fail'.until = Never \/ fail'.until <= now' + Window
    BY <1>1, <2>1, Numbers, Constants DEF CounterInv
  <2> QED
    BY <1>3, <2>1, <2>2, <2>3, <2>4, <2>5 DEF CounterInv
<1>5. CASE ~ (now + 1 < fail.until)
  BY <1>1, <1>5, CounterAfterReset, Numbers
<1> QED
  BY <1>4, <1>5

-----------------------------------------------------------------------------
(* What a step may do to the verifications.                                *)

\* One verification changes.
LEMMA ReqType ==
  ASSUME TypeOK, NEW r \in Slot, NEW q \in RequestType,
         req' = [req EXCEPT ![r] = q]
  PROVE  /\ req' \in [Slot -> RequestType] /\ req'[r] = q /\ Others(r)
         /\ \A s \in Slot \ {r} : req'[s] = req[s]
BY DEF TypeOK, Others

LEMMA GoToType ==
  ASSUME TypeOK, NEW r \in Slot, NEW at \in Step, GoTo(r, at)
  PROVE  /\ req' \in [Slot -> RequestType] /\ Others(r)
         /\ \A s \in Slot \ {r} : req'[s] = req[s]
         /\ req'[r].at = at /\ req'[r].code = req[r].code
         /\ req'[r].late = req[r].late /\ req'[r].status = req[r].status
         /\ req'[r].lone = req[r].lone
<1>1. req[r] \in RequestType /\ req \in [Slot -> RequestType]
  BY DEF TypeOK
<1>2. [req[r] EXCEPT !.at = at] \in RequestType
  BY <1>1 DEF RequestType
<1>3. req' = [req EXCEPT ![r] = [req[r] EXCEPT !.at = at]]
  BY DEF GoTo
<1> QED
  BY <1>1, <1>2, <1>3, ReqType DEF RequestType

LEMMA RespondType ==
  ASSUME TypeOK, NEW r \in Slot, NEW status \in Statuses, Respond(r, status)
  PROVE  /\ req' \in [Slot -> RequestType] /\ Others(r)
         /\ \A s \in Slot \ {r} : req'[s] = req[s]
         /\ req'[r].at = "idle" /\ req'[r].code = req[r].code
         /\ req'[r].late = req[r].late /\ req'[r].status = status
         /\ req'[r].lone = req[r].lone
<1>1. req[r] \in RequestType /\ req \in [Slot -> RequestType]
  BY DEF TypeOK
<1>2. [req[r] EXCEPT !.at = "idle", !.status = status] \in RequestType
  BY <1>1, Values DEF RequestType
<1>3. req' = [req EXCEPT ![r] = [req[r] EXCEPT !.at = "idle", !.status = status]]
  BY DEF Respond
<1> QED
  BY <1>1, <1>2, <1>3, ReqType DEF RequestType

\* All of them lose their claim to be alone.
LEMMA JoinedType ==
  ASSUME TypeOK
  PROVE  /\ Joined \in [Slot -> RequestType]
         /\ \A s \in Slot : /\ Joined[s].at = req[s].at
                            /\ Joined[s].code = req[s].code
                            /\ Joined[s].late = req[s].late
                            /\ Joined[s].status = req[s].status
                            /\ ~ Joined[s].lone
<1>1. ASSUME NEW s \in Slot
      PROVE  /\ [req[s] EXCEPT !.lone = FALSE] \in RequestType
             /\ [req[s] EXCEPT !.lone = FALSE].at = req[s].at
             /\ [req[s] EXCEPT !.lone = FALSE].code = req[s].code
             /\ [req[s] EXCEPT !.lone = FALSE].late = req[s].late
             /\ [req[s] EXCEPT !.lone = FALSE].status = req[s].status
             /\ ~ [req[s] EXCEPT !.lone = FALSE].lone
  BY DEF TypeOK, RequestType
<1> QED
  BY <1>1 DEF Joined

\* No code is consumed, and the verifications other than r stay as they are.
LEMMA CodeKept ==
  ASSUME TypeOK, CodeInv, NEW r \in Slot, LateOK(req[r])',
         \A s \in Slot \ {r} : req'[s] = req[s],
         otp' = otp, codes' = codes, spent' = spent
  PROVE  CodeInv'
<1>1. ASSUME NEW s \in Slot, s # r PROVE LateOK(req[s])'
  BY <1>1 DEF CodeInv, LateOK
<1> QED
  BY <1>1 DEF CodeInv, Code

-----------------------------------------------------------------------------
(* The invariant holds at first and after each step.                       *)

\* The part of the invariant that is about the keys.
KeysInv == TypeOK /\ CodeInv /\ CounterInv

LEMMA Initially == Init => KeysInv
<1>1. SUFFICES ASSUME Init PROVE KeysInv
  OBVIOUS
<1>2. TypeOK
  <2>1. [at |-> "idle", code |-> 0, late |-> FALSE, lone |-> FALSE, status |-> 0]
          \in RequestType
    BY Values DEF RequestType
  <2>2. req \in [Slot -> RequestType]
    BY <1>1, <2>1 DEF Init
  <2>3. failed \in [1..Threshold -> LongAgo..MaxNow]
    BY <1>1, Constants DEF Init, LongAgo
  <2>4. otp \in [code : 0..codes, until : Nat] /\ fail \in [count : Nat, until : Nat]
    BY <1>1 DEF Init, NoCode, NoCount
  <2>5. /\ now \in 0..MaxNow /\ codes \in 0..MaxCodes /\ deaths \in 0..MaxDeaths
        /\ cool \in Nat
    <3>1. now = 0 /\ codes = 0 /\ deaths = 0 /\ cool = 0
      BY <1>1 DEF Init
    <3> QED
      BY <3>1, Constants
  <2>6. user \in BOOLEAN /\ spent \subseteq 1..codes
    BY <1>1 DEF Init
  <2> QED
    BY <2>2, <2>3, <2>4, <2>5, <2>6 DEF TypeOK
<1>3. CodeInv
  BY <1>1 DEF Init, CodeInv, Code, NoCode, LateOK
<1>4. CounterInv
  <2>1. Expiring = {}
    BY <1>1 DEF Init, Expiring, In
  <2>2. Fails = 0 /\ fail.until = 0 /\ now = 0 /\ deaths = 0
    BY <1>1 DEF Init, Fails, NoCount
  <2>3. Few
    BY <2>2, Slots, Constants DEF Few
  <2> QED
    BY <2>1, <2>2, <2>3, Constants DEF CounterInv
<1> QED
  BY <1>2, <1>3, <1>4 DEF KeysInv

LEMMA AfterRequestOtp ==
  ASSUME KeysInv, RequestOtp PROVE KeysInv'
<1>1. TypeOK /\ CodeInv /\ CounterInv
  BY DEF KeysInv
<1>2. /\ codes \in Nat /\ codes < MaxCodes /\ codes' = codes + 1
      /\ otp' = [code |-> codes + 1, until |-> now + OtpTtl]
      /\ req' = Joined /\ spent' = spent
  BY <1>1, Constants DEF RequestOtp, TypeOK
<1>3. TypeOK'
  <2>1. otp' \in [code : 0..codes', until : Nat]
    BY <1>1, <1>2, Numbers, Constants
  <2>2. spent' \subseteq 1..codes' /\ codes' \in 0..MaxCodes
    BY <1>1, <1>2, Constants DEF TypeOK
  <2>3. fail' \in [count : Nat, until : Nat]
    BY <1>1 DEF TypeOK, RequestOtp
  <2> QED
    BY <1>1, <1>2, <2>1, <2>2, <2>3, JoinedType DEF TypeOK, RequestOtp
<1>4. CodeInv'
  <2>1. Code' \notin spent'
    BY <1>1, <1>2 DEF TypeOK, Code
  <2>2. ASSUME NEW s \in Slot PROVE LateOK(req[s])'
    <3>1. /\ req'[s].at = req[s].at /\ req'[s].code = req[s].code
          /\ req'[s].late = req[s].late /\ req'[s].status = req[s].status
      BY <1>1, <1>2, <2>2, JoinedType
    <3>2. LateOK(req[s])
      BY <1>1 DEF CodeInv
    <3> QED
      BY <1>2, <3>1, <3>2 DEF LateOK
  <2> QED
    BY <2>1, <2>2 DEF CodeInv
<1>5. CounterInv'
  <2>1. \A s \in Slot : req'[s].at = req[s].at
    BY <1>1, <1>2, JoinedType
  <2>2. Expiring' = Expiring /\ Locking' = Locking /\ Guessing' = Guessing
    BY <2>1 DEF Expiring, Locking, Guessing, In
  <2>3. now' = now /\ fail' = fail /\ cool' = cool /\ deaths' = deaths
    BY DEF RequestOtp
  <2> QED
    BY <1>1, <2>2, <2>3, CounterKept, Slots, Numbers
<1> QED
  BY <1>3, <1>4, <1>5 DEF KeysInv

LEMMA AfterVerify ==
  ASSUME KeysInv, NEW r \in Slot, Verify(r) PROVE KeysInv'
<1>1. TypeOK /\ CodeInv /\ CounterInv
  BY DEF KeysInv
<1>2. PICK code \in 0..codes, lonely \in BOOLEAN :
        req' = [Joined EXCEPT ![r] =
          [at |-> "cooldown", code |-> code, late |-> code \in spent,
           lone |-> lonely, status |-> 0]]
  BY DEF Verify
<1> DEFINE q == [at |-> "cooldown", code |-> code, late |-> code \in spent,
                 lone |-> lonely, status |-> 0]
<1>3. q \in RequestType
  BY <1>1, <1>2, Values, Constants DEF TypeOK, RequestType, Sent
<1>4. req' = [Joined EXCEPT ![r] = q]
  BY <1>2
<1>5. q.at = "cooldown" /\ q.code = code /\ q.status = 0
  OBVIOUS
<1>6. q.late => code \in spent
  OBVIOUS
<1> HIDE DEF q
<1>7. LateOK(q)
  BY <1>5, <1>6 DEF LateOK
<1>8. /\ req' \in [Slot -> RequestType] /\ req'[r] = q
      /\ \A s \in Slot \ {r} : req'[s] = Joined[s]
  BY <1>1, <1>3, <1>4, JoinedType
<1>9. UNCHANGED <<now, codes, otp, fail, cool, user, failed, spent, deaths>>
  BY DEF Verify
<1>10. TypeOK'
  BY <1>1, <1>8, <1>9 DEF TypeOK
<1>11. CodeInv'
  <2>1. ASSUME NEW s \in Slot PROVE LateOK(req[s])'
    <3>1. CASE s = r
      BY <1>7, <1>8, <1>9, <3>1 DEF LateOK
    <3>2. CASE s # r
      <4>1. /\ req'[s].at = req[s].at /\ req'[s].code = req[s].code
            /\ req'[s].late = req[s].late /\ req'[s].status = req[s].status
        BY <1>1, <1>8, <2>1, <3>2, JoinedType
      <4>2. LateOK(req[s])
        BY <1>1 DEF CodeInv
      <4> QED
        BY <1>9, <4>1, <4>2 DEF LateOK
    <3> QED
      BY <3>1, <3>2
  <2> QED
    BY <1>1, <1>9, <2>1 DEF CodeInv, Code
<1>12. CounterInv'
  <2>1. Others(r)
    BY <1>1, <1>8, JoinedType DEF Others
  <2>2. req[r].at = "idle"
    BY DEF Verify
  <2> QED
    BY <1>1, <1>5, <1>8, <1>9, <2>1, <2>2, Bystander
<1> QED
  BY <1>10, <1>11, <1>12 DEF KeysInv

LEMMA AfterReadCooldown ==
  ASSUME KeysInv, NEW r \in Slot, ReadCooldown(r) PROVE KeysInv'
<1>1. TypeOK /\ CodeInv /\ CounterInv
  BY DEF KeysInv
<1>2. UNCHANGED <<now, codes, otp, fail, cool, user, failed, spent, deaths>>
  BY DEF ReadCooldown
<1>3. LateOK(req[r]) /\ req[r].at = "cooldown"
  BY <1>1 DEF CodeInv, ReadCooldown
<1>4. CASE cool # 0 /\ Respond(r, 429)
  <2>1. /\ req' \in [Slot -> RequestType] /\ Others(r)
        /\ \A s \in Slot \ {r} : req'[s] = req[s]
        /\ req'[r].at = "idle" /\ req'[r].code = req[r].code
        /\ req'[r].late = req[r].late /\ req'[r].status = 429
    BY <1>1, <1>4, Values, RespondType
  <2>2. TypeOK'
    BY <1>1, <1>2, <2>1 DEF TypeOK
  <2>3. LateOK(req[r])'
    BY <1>2, <1>3, <2>1 DEF LateOK
  <2>4. CodeInv'
    BY <1>1, <1>2, <2>1, <2>3, CodeKept
  <2>5. CounterInv'
    BY <1>1, <1>2, <1>3, <2>1, Bystander
  <2> QED
    BY <2>2, <2>4, <2>5 DEF KeysInv
<1>5. CASE cool = 0 /\ GoTo(r, "code")
  <2>1. /\ req' \in [Slot -> RequestType] /\ Others(r)
        /\ \A s \in Slot \ {r} : req'[s] = req[s]
        /\ req'[r].at = "code" /\ req'[r].code = req[r].code
        /\ req'[r].late = req[r].late /\ req'[r].status = req[r].status
    BY <1>1, <1>5, Values, GoToType
  <2>2. TypeOK'
    BY <1>1, <1>2, <2>1 DEF TypeOK
  <2>3. LateOK(req[r])'
    BY <1>2, <1>3, <2>1 DEF LateOK
  <2>4. CodeInv'
    BY <1>1, <1>2, <2>1, <2>3, CodeKept
  <2>5. CounterInv'
    BY <1>1, <1>2, <1>3, <1>5, <2>1, Bystander
  <2> QED
    BY <2>2, <2>4, <2>5 DEF KeysInv
<1> QED
  BY <1>4, <1>5 DEF ReadCooldown

LEMMA AfterReadCode ==
  ASSUME KeysInv, NEW r \in Slot, ReadCode(r) PROVE KeysInv'
<1>1. TypeOK /\ CodeInv /\ CounterInv
  BY DEF KeysInv
<1>2. UNCHANGED <<now, codes, otp, fail, cool, user, failed, spent, deaths>>
  BY DEF ReadCode
<1>3. LateOK(req[r]) /\ req[r].at = "code"
  BY <1>1 DEF CodeInv, ReadCode
<1>4. PICK at \in {"incr", "del"} :
        GoTo(r, at) /\ (at = "del" => Code # 0 /\ Code = req[r].code)
  BY DEF ReadCode
<1>5. /\ req' \in [Slot -> RequestType] /\ Others(r)
      /\ \A s \in Slot \ {r} : req'[s] = req[s]
      /\ req'[r].at = at /\ req'[r].code = req[r].code
      /\ req'[r].late = req[r].late /\ req'[r].status = req[r].status
  BY <1>1, <1>4, Values, GoToType
<1>6. TypeOK'
  BY <1>1, <1>2, <1>5 DEF TypeOK
<1>7. LateOK(req[r])'
  <2>1. CASE at = "incr"
    BY <1>2, <1>3, <1>5, <2>1 DEF LateOK
  <2>2. CASE at = "del"
    <3>1. ~ req[r].late
      BY <1>1, <1>3, <1>4, <2>2 DEF CodeInv, LateOK
    <3>2. req[r].code \in 1..codes
      BY <1>1, <1>4, <2>2, Constants DEF TypeOK, Code
    <3> QED
      BY <1>2, <1>5, <3>1, <3>2 DEF LateOK
  <2> QED
    BY <1>4, <2>1, <2>2
<1>8. CodeInv'
  BY <1>1, <1>2, <1>5, <1>7, CodeKept
<1>9. CounterInv'
  BY <1>1, <1>2, <1>3, <1>4, <1>5, Bystander
<1> QED
  BY <1>6, <1>8, <1>9 DEF KeysInv

LEMMA AfterCountFailure ==
  ASSUME KeysInv, NEW r \in Slot, CountFailure(r) PROVE KeysInv'
<1>1. TypeOK /\ CodeInv /\ CounterInv
  BY DEF KeysInv
<1>2. /\ UNCHANGED <<now, codes, otp, cool, user, spent, deaths>>
      /\ fail' = [count |-> Fails + 1,
                  until |-> IF Fails = 0 THEN Never ELSE fail.until]
      /\ failed' = [i \in 1..Threshold |-> IF i = 1 THEN now ELSE failed[i - 1]]
  BY DEF CountFailure
<1>3. LateOK(req[r]) /\ req[r].at = "incr"
  BY <1>1 DEF CodeInv, CountFailure
<1> DEFINE at == IF Fails = 0 THEN "expire"
                 ELSE IF Fails + 1 >= Threshold THEN "lock" ELSE "idle"
<1>4. /\ req' \in [Slot -> RequestType] /\ Others(r)
      /\ \A s \in Slot \ {r} : req'[s] = req[s]
      /\ req'[r].at = at /\ req'[r].code = req[r].code
      /\ req'[r].late = req[r].late
      /\ req'[r].status = req[r].status \/ req'[r].status = 401
  <2>1. CASE Fails = 0 /\ GoTo(r, "expire")
    BY <1>1, <2>1, Values, GoToType
  <2>2. CASE Fails # 0 /\ Fails + 1 >= Threshold /\ GoTo(r, "lock")
    BY <1>1, <2>2, Values, GoToType
  <2>3. CASE Fails # 0 /\ ~ (Fails + 1 >= Threshold) /\ Respond(r, 401)
    BY <1>1, <2>3, Values, RespondType
  <2> QED
    BY <2>1, <2>2, <2>3 DEF CountFailure
<1>5. TypeOK'
  <2>1. fail' \in [count : Nat, until : Nat]
    BY <1>1, <1>2, Numbers, Constants DEF Fails
  <2>2. failed' \in [1..Threshold -> LongAgo..MaxNow]
    <3>1. now \in LongAgo..MaxNow
      BY <1>1, Numbers, Constants DEF LongAgo
    <3>2. \A i \in 1..Threshold : i # 1 => i - 1 \in 1..Threshold
      BY Constants
    <3> QED
      BY <1>1, <1>2, <3>1, <3>2 DEF TypeOK
  <2> QED
    BY <1>1, <1>2, <1>4, <2>1, <2>2 DEF TypeOK
<1>6. LateOK(req[r])'
  BY <1>2, <1>3, <1>4 DEF LateOK
<1>7. CodeInv'
  BY <1>1, <1>2, <1>4, <1>6, CodeKept
<1>8. CounterInv'
  BY <1>1, <1>2, <1>3, <1>4, CounterAfterFailure
<1> QED
  BY <1>5, <1>7, <1>8 DEF KeysInv

\* The steps that end in 401 and touch the counter or the cooldown alone.
LEMMA AfterExpireCounter ==
  ASSUME KeysInv, NEW r \in Slot, ExpireCounter(r) PROVE KeysInv'
<1>1. TypeOK /\ CodeInv /\ CounterInv
  BY DEF KeysInv
<1>2. /\ UNCHANGED <<now, codes, otp, cool, user, failed, spent, deaths>>
      /\ fail' = IF Fails = 0 THEN fail ELSE [fail EXCEPT !.until = now + Window]
  BY DEF ExpireCounter
<1>3. LateOK(req[r]) /\ req[r].at = "expire"
  BY <1>1 DEF CodeInv, ExpireCounter
<1>4. /\ req' \in [Slot -> RequestType] /\ Others(r)
      /\ \A s \in Slot \ {r} : req'[s] = req[s]
      /\ req'[r].at = "idle" /\ req'[r].code = req[r].code
      /\ req'[r].late = req[r].late /\ req'[r].status = 401
  BY <1>1, Values, RespondType DEF ExpireCounter
<1>5. fail' \in [count : Nat, until : Nat]
  <2>1. fail \in [count : Nat, until : Nat] /\ now + Window \in Nat
    BY <1>1, Numbers, Constants DEF TypeOK
  <2> QED
    BY <1>2, <2>1
<1>6. TypeOK'
  BY <1>1, <1>2, <1>4, <1>5 DEF TypeOK
<1>7. LateOK(req[r])'
  BY <1>2, <1>3, <1>4 DEF LateOK
<1>8. CodeInv'
  BY <1>1, <1>2, <1>4, <1>7, CodeKept
<1>9. CounterInv'
  BY <1>1, <1>2, <1>3, <1>4, CounterAfterExpire
<1> QED
  BY <1>6, <1>8, <1>9 DEF KeysInv

LEMMA AfterStartCooldown ==
  ASSUME KeysInv, NEW r \in Slot, StartCooldown(r) PROVE KeysInv'
<1>1. TypeOK /\ CodeInv /\ CounterInv
  BY DEF KeysInv
<1>2. /\ UNCHANGED <<now, codes, otp, fail, user, failed, spent, deaths>>
      /\ cool' = now + Cooldown
  BY DEF StartCooldown
<1>3. LateOK(req[r]) /\ req[r].at = "lock"
  BY <1>1 DEF CodeInv, StartCooldown
<1>4. /\ req' \in [Slot -> RequestType] /\ Others(r)
      /\ \A s \in Slot \ {r} : req'[s] = req[s]
      /\ req'[r].at = "idle" /\ req'[r].code = req[r].code
      /\ req'[r].late = req[r].late /\ req'[r].status = 401
  BY <1>1, Values, RespondType DEF StartCooldown
<1>5. cool' \in Nat
  BY <1>1, <1>2, Numbers, Constants
<1>6. TypeOK'
  BY <1>1, <1>2, <1>4, <1>5 DEF TypeOK
<1>7. LateOK(req[r])'
  BY <1>2, <1>3, <1>4 DEF LateOK
<1>8. CodeInv'
  BY <1>1, <1>2, <1>4, <1>7, CodeKept
<1>9. CounterInv'
  BY <1>1, <1>2, <1>3, <1>4, CounterAfterLock
<1> QED
  BY <1>6, <1>8, <1>9 DEF KeysInv

LEMMA AfterDeleteCode ==
  ASSUME KeysInv, NEW r \in Slot, DeleteCode(r) PROVE KeysInv'
<1>1. TypeOK /\ CodeInv /\ CounterInv
  BY DEF KeysInv
<1>2. /\ UNCHANGED <<now, codes, fail, cool, user, failed, deaths>>
      /\ otp' = NoCode /\ spent' = spent \cup {req[r].code}
  BY DEF DeleteCode
<1>3. LateOK(req[r]) /\ req[r].at = "del"
  BY <1>1 DEF CodeInv, DeleteCode
<1>4. /\ req' \in [Slot -> RequestType] /\ Others(r)
      /\ \A s \in Slot \ {r} : req'[s] = req[s]
      /\ req'[r].at = "reset" /\ req'[r].code = req[r].code
      /\ req'[r].late = req[r].late /\ req'[r].status = req[r].status
  BY <1>1, Values, GoToType DEF DeleteCode
<1>5. ~ req[r].late /\ req[r].code \in 1..codes
  BY <1>3 DEF LateOK
<1>6. TypeOK'
  <2>1. otp' \in [code : 0..codes', until : Nat]
    BY <1>1, <1>2, Constants DEF TypeOK, NoCode
  <2>2. spent' \subseteq 1..codes'
    BY <1>1, <1>2, <1>5 DEF TypeOK
  <2> QED
    BY <1>1, <1>2, <1>4, <2>1, <2>2 DEF TypeOK
<1>7. CodeInv'
  <2>1. Code' \notin spent'
    BY <1>1, <1>2, <1>5, Constants DEF TypeOK, Code, NoCode
  <2>2. ASSUME NEW s \in Slot PROVE LateOK(req[s])'
    <3>1. LateOK(req[s])
      BY <1>1 DEF CodeInv
    <3>2. CASE s = r
      BY <1>4, <1>5, <3>2 DEF LateOK
    <3>3. CASE s # r
      BY <1>2, <1>4, <3>1, <3>3 DEF LateOK
    <3> QED
      BY <3>2, <3>3
  <2> QED
    BY <2>1, <2>2 DEF CodeInv
<1>8. CounterInv'
  BY <1>1, <1>2, <1>3, <1>4, Bystander
<1> QED
  BY <1>6, <1>7, <1>8 DEF KeysInv

LEMMA AfterDeleteCounter ==
  ASSUME KeysInv, NEW r \in Slot, DeleteCounter(r) PROVE KeysInv'
<1>1. TypeOK /\ CodeInv /\ CounterInv
  BY DEF KeysInv
<1>2. /\ UNCHANGED <<now, codes, otp, cool, user, failed, spent, deaths>>
      /\ fail' = NoCount
  BY DEF DeleteCounter
<1>3. LateOK(req[r]) /\ req[r].at = "reset"
  BY <1>1 DEF CodeInv, DeleteCounter
<1>4. /\ req' \in [Slot -> RequestType] /\ Others(r)
      /\ \A s \in Slot \ {r} : req'[s] = req[s]
      /\ req'[r].at = "select" /\ req'[r].code = req[r].code
      /\ req'[r].late = req[r].late /\ req'[r].status = req[r].status
  BY <1>1, Values, GoToType DEF DeleteCounter
<1>5. fail' \in [count : Nat, until : Nat]
  BY <1>2 DEF NoCount
<1>6. TypeOK'
  BY <1>1, <1>2, <1>4, <1>5 DEF TypeOK
<1>7. LateOK(req[r])'
  BY <1>2, <1>3, <1>4 DEF LateOK
<1>8. CodeInv'
  BY <1>1, <1>2, <1>4, <1>7, CodeKept
<1>9. CounterInv'
  BY <1>1, <1>2, CounterAfterReset
<1> QED
  BY <1>6, <1>8, <1>9 DEF KeysInv

LEMMA AfterSelectUser ==
  ASSUME KeysInv, NEW r \in Slot, SelectUser(r) PROVE KeysInv'
<1>1. TypeOK /\ CodeInv /\ CounterInv
  BY DEF KeysInv
<1>2. UNCHANGED <<now, codes, otp, fail, cool, user, failed, spent, deaths>>
  BY DEF SelectUser
<1>3. LateOK(req[r]) /\ req[r].at = "select"
  BY <1>1 DEF CodeInv, SelectUser
<1>4. ~ req[r].late
  BY <1>3 DEF LateOK
<1>5. /\ req' \in [Slot -> RequestType] /\ Others(r)
      /\ \A s \in Slot \ {r} : req'[s] = req[s]
      /\ req'[r].at \in {"idle", "insert"} /\ req'[r].late = req[r].late
  <2>1. CASE Respond(r, 200)
    BY <1>1, <2>1, Values, RespondType
  <2>2. CASE GoTo(r, "insert")
    BY <1>1, <2>2, Values, GoToType
  <2> QED
    BY <2>1, <2>2 DEF SelectUser
<1>6. TypeOK'
  BY <1>1, <1>2, <1>5 DEF TypeOK
<1>7. LateOK(req[r])'
  BY <1>4, <1>5 DEF LateOK
<1>8. CodeInv'
  BY <1>1, <1>2, <1>5, <1>7, CodeKept
<1>9. CounterInv'
  BY <1>1, <1>2, <1>3, <1>5, Bystander
<1> QED
  BY <1>6, <1>8, <1>9 DEF KeysInv

LEMMA AfterInsertUser ==
  ASSUME KeysInv, NEW r \in Slot, InsertUser(r) PROVE KeysInv'
<1>1. TypeOK /\ CodeInv /\ CounterInv
  BY DEF KeysInv
<1>2. /\ UNCHANGED <<now, codes, otp, fail, cool, failed, spent, deaths>>
      /\ user' = TRUE
  BY DEF InsertUser
<1>3. LateOK(req[r]) /\ req[r].at = "insert"
  BY <1>1 DEF CodeInv, InsertUser
<1>4. ~ req[r].late
  BY <1>3 DEF LateOK
<1>5. /\ req' \in [Slot -> RequestType] /\ Others(r)
      /\ \A s \in Slot \ {r} : req'[s] = req[s]
      /\ req'[r].at = "idle" /\ req'[r].late = req[r].late
  <2>1. CASE Respond(r, 200)
    BY <1>1, <2>1, Values, RespondType
  <2>2. CASE Respond(r, 500)
    BY <1>1, <2>2, Values, RespondType
  <2> QED
    BY <2>1, <2>2 DEF InsertUser
<1>6. TypeOK'
  BY <1>1, <1>2, <1>5 DEF TypeOK
<1>7. LateOK(req[r])'
  BY <1>4, <1>5 DEF LateOK
<1>8. CodeInv'
  BY <1>1, <1>2, <1>5, <1>7, CodeKept
<1>9. CounterInv'
  BY <1>1, <1>2, <1>3, <1>5, Bystander
<1> QED
  BY <1>6, <1>8, <1>9 DEF KeysInv

LEMMA AfterPodDies ==
  ASSUME KeysInv, NEW r \in Slot, PodDies(r) PROVE KeysInv'
<1>1. TypeOK /\ CodeInv /\ CounterInv
  BY DEF KeysInv
<1>2. /\ UNCHANGED <<now, codes, otp, fail, cool, user, failed, spent>>
      /\ deaths' = deaths + 1 /\ deaths < MaxDeaths
      /\ Respond(r, 0)
  BY DEF PodDies, Respond
<1>3. LateOK(req[r])
  BY <1>1 DEF CodeInv
<1>4. /\ req' \in [Slot -> RequestType] /\ Others(r)
      /\ \A s \in Slot \ {r} : req'[s] = req[s]
      /\ req'[r].at = "idle" /\ req'[r].code = req[r].code
      /\ req'[r].late = req[r].late /\ req'[r].status = 0
  BY <1>1, <1>2, Values, RespondType
<1>5. deaths' \in 0..MaxDeaths
  BY <1>1, <1>2, Numbers, Constants
<1>6. TypeOK'
  BY <1>1, <1>2, <1>4, <1>5 DEF TypeOK
<1>7. LateOK(req[r])'
  BY <1>2, <1>3, <1>4 DEF LateOK
<1>8. CodeInv'
  BY <1>1, <1>2, <1>4, <1>7, CodeKept
<1>9. CounterInv'
  BY <1>1, <1>2, <1>4, CounterAfterDeath
<1> QED
  BY <1>6, <1>8, <1>9 DEF KeysInv

LEMMA AfterTick ==
  ASSUME KeysInv, Tick PROVE KeysInv'
<1>1. TypeOK /\ CodeInv /\ CounterInv
  BY DEF KeysInv
<1>2. /\ now < MaxNow /\ now' = now + 1 /\ req' = Joined
      /\ otp' = IF now + 1 < otp.until THEN otp ELSE NoCode
      /\ fail' = IF now + 1 < fail.until THEN fail ELSE NoCount
      /\ cool' = IF now + 1 < cool THEN cool ELSE 0
      /\ UNCHANGED <<codes, user, spent, deaths>>
  BY DEF Tick
<1>3. TypeOK'
  <2>1. now' \in 0..MaxNow /\ cool' \in Nat
    BY <1>1, <1>2, Numbers, Constants
  <2>2. otp' \in [code : 0..codes', until : Nat]
    BY <1>1, <1>2, Constants DEF TypeOK, NoCode
  <2>3. fail' \in [count : Nat, until : Nat]
    BY <1>1, <1>2 DEF TypeOK, NoCount
  <2>4. failed' \in [1..Threshold -> LongAgo..MaxNow]
    <3>1. LongAgo \in LongAgo..MaxNow
      BY Constants DEF LongAgo
    <3> QED
      BY <1>1, <3>1 DEF Tick, TypeOK
  <2> QED
    BY <1>1, <1>2, <2>1, <2>2, <2>3, <2>4, JoinedType DEF TypeOK
<1>4. CodeInv'
  <2>1. Code' \notin spent'
    BY <1>1, <1>2, Constants DEF TypeOK, CodeInv, Code, NoCode
  <2>2. ASSUME NEW s \in Slot PROVE LateOK(req[s])'
    <3>1. /\ req'[s].at = req[s].at /\ req'[s].code = req[s].code
          /\ req'[s].late = req[s].late /\ req'[s].status = req[s].status
      BY <1>1, <1>2, <2>2, JoinedType
    <3>2. LateOK(req[s])
      BY <1>1 DEF CodeInv
    <3> QED
      BY <1>2, <3>1, <3>2 DEF LateOK
  <2> QED
    BY <2>1, <2>2 DEF CodeInv
<1>5. CounterInv'
  BY <1>1, CounterAfterTick
<1> QED
  BY <1>3, <1>4, <1>5 DEF KeysInv

LEMMA AfterStutter ==
  ASSUME KeysInv, UNCHANGED vars PROVE KeysInv'
BY DEF KeysInv, vars, TypeOK, CodeInv, CounterInv, LateOK, Code, Fails, Few,
       Cooling, Due, Locking, Guessing, Expiring, In

LEMMA AfterStep == ASSUME KeysInv, [Next]_vars PROVE KeysInv'
<1>1. CASE RequestOtp
  BY <1>1, AfterRequestOtp
<1>2. ASSUME NEW r \in Slot, Verify(r) PROVE KeysInv'
  BY <1>2, AfterVerify
<1>3. ASSUME NEW r \in Slot, Serve(r) PROVE KeysInv'
  BY <1>3, AfterReadCooldown, AfterReadCode, AfterCountFailure,
     AfterExpireCounter, AfterStartCooldown, AfterDeleteCode,
     AfterDeleteCounter, AfterSelectUser, AfterInsertUser DEF Serve
<1>4. ASSUME NEW r \in Slot, PodDies(r) PROVE KeysInv'
  BY <1>4, AfterPodDies
<1>5. CASE Tick
  BY <1>5, AfterTick
<1>6. CASE UNCHANGED vars
  BY <1>6, AfterStutter
<1> QED
  BY <1>1, <1>2, <1>3, <1>4, <1>5, <1>6 DEF Next

-----------------------------------------------------------------------------
(* Which failures a counter counts.                                        *)

LEMMA FailedType ==
  ASSUME TypeOK, NEW i \in 1..Threshold
  PROVE  failed[i] \in Int
BY Constants DEF TypeOK, LongAgo

\* Steps that leave the counter, the clock and the failures alone.
LEMMA EarnedKept ==
  ASSUME EarnedInv, deaths' = deaths, now' = now, fail' = fail, failed' = failed,
         Expiring' = Expiring, Locking' \subseteq Locking
  PROVE  EarnedInv'
BY DEF EarnedInv, Counted, Lately, Fails

LEMMA EarnedAfterFailure ==
  ASSUME KeysInv, EarnedInv, NEW r \in Slot, CountFailure(r)
  PROVE  EarnedInv'
<1> SUFFICES ASSUME deaths = 0
             PROVE  /\ Fails' # 0 /\ fail'.until > now
                    /\ fail'.until = Never => Expiring' # {}
                    /\ \A i \in Counted' :
                         IF fail'.until = Never \/ Expiring' # {} THEN failed'[i] = now
                         ELSE failed'[i] + Window >= fail'.until
                    /\ Locking' # {} => \A i \in 1..Threshold : failed'[i] + Window > now
  BY DEF EarnedInv, CountFailure, Lately
<1>1. TypeOK /\ CounterInv
  BY DEF KeysInv
<1>2. /\ fail'.count = Fails + 1
      /\ fail'.until = IF Fails = 0 THEN Never ELSE fail.until
      /\ \A i \in 1..Threshold : failed'[i] = IF i = 1 THEN now ELSE failed[i - 1]
      /\ req[r].at = "incr"
  BY DEF CountFailure
<1>3. /\ Others(r)
      /\ req'[r].at = IF Fails = 0 THEN "expire"
                      ELSE IF Fails + 1 >= Threshold THEN "lock" ELSE "idle"
  <2>1. CASE Fails = 0 /\ GoTo(r, "expire")
    BY <1>1, <2>1, Values, GoToType
  <2>2. CASE Fails # 0 /\ Fails + 1 >= Threshold /\ GoTo(r, "lock")
    BY <1>1, <2>2, Values, GoToType
  <2>3. CASE Fails # 0 /\ ~ (Fails + 1 >= Threshold) /\ Respond(r, 401)
    BY <1>1, <2>3, Values, RespondType
  <2> QED
    BY <2>1, <2>2, <2>3 DEF CountFailure
<1>4. /\ now \in Nat /\ now <= MaxNow /\ Fails \in Nat /\ fail.until \in Nat
      /\ \A i \in 1..Threshold : failed[i] \in Int
      /\ Window \in Nat /\ Window > 0 /\ Threshold \in Nat /\ Threshold > 1
      /\ Never \in Nat /\ MaxNow \in Nat /\ Never > MaxNow + Window
  BY <1>1, Numbers, Constants, FailedType DEF Fails
<1>5. Counted' = {i \in 1..Threshold : i <= Fails + 1}
  BY <1>2 DEF Counted, Fails
<1>6. Fails' # 0 /\ fail'.until > now
  <2>1. Fails' # 0
    BY <1>2, <1>4 DEF Fails
  <2>2. Fails # 0 => fail.until > now
    BY DEF EarnedInv
  <2> QED
    BY <1>2, <1>4, <2>1, <2>2
<1>7. fail'.until = Never => Expiring' # {}
  <2>1. CASE Fails = 0
    BY <1>3, <2>1 DEF Expiring, In
  <2>2. CASE Fails # 0
    <3>1. fail.until = Never => Expiring # {}
      BY <2>2 DEF EarnedInv
    <3>2. Expiring \subseteq Expiring'
      BY <1>2, <1>3 DEF Expiring, In, Others
    <3> QED
      BY <1>2, <2>2, <3>1, <3>2
  <2> QED
    BY <2>1, <2>2
<1>8. ASSUME NEW i \in Counted'
      PROVE  IF fail'.until = Never \/ Expiring' # {} THEN failed'[i] = now
             ELSE failed'[i] + Window >= fail'.until
  <2>1. i \in 1..Threshold /\ i <= Fails + 1
    BY <1>5, <1>8
  <2>2. CASE i = 1
    <3>1. failed'[i] = now
      BY <1>2, <2>1, <2>2
    <3>2. fail'.until = Never \/ fail'.until <= now + Window
      BY <1>1, <1>2 DEF CounterInv
    <3> QED
      BY <1>4, <3>1, <3>2
  <2>3. CASE i # 1
    <3>1. i - 1 \in Counted /\ failed'[i] = failed[i - 1] /\ Fails # 0
      BY <1>2, <1>4, <2>1, <2>3 DEF Counted
    <3>2. fail'.until = fail.until
      BY <1>2, <3>1
    <3>3. Expiring' = Expiring
      BY <1>2, <1>3, <3>1 DEF Expiring, In, Others
    <3>4. IF fail.until = Never \/ Expiring # {} THEN failed[i - 1] = now
          ELSE failed[i - 1] + Window >= fail.until
      BY <3>1 DEF EarnedInv
    <3> QED
      BY <3>1, <3>2, <3>3, <3>4
  <2> QED
    BY <2>2, <2>3
<1>9. ASSUME Locking' # {}, NEW i \in 1..Threshold PROVE failed'[i] + Window > now
  <2>1. CASE Locking # {}
    <3>1. \A j \in 1..Threshold : failed[j] + Window > now
      BY <2>1 DEF EarnedInv, Lately
    <3>2. i # 1 => i - 1 \in 1..Threshold
      BY <1>4, <1>9
    <3> QED
      BY <1>2, <1>4, <1>9, <3>1, <3>2
  <2>2. CASE Locking = {}
    <3>1. req'[r].at = "lock"
      BY <1>3, <1>9, <2>2 DEF Locking, In, Others
    <3>2. Fails + 1 >= Threshold
      BY <1>3, <3>1
    <3>3. i \in Counted'
      BY <1>4, <1>5, <1>9, <3>2
    <3>4. failed'[i] = now \/ failed'[i] + Window >= fail'.until
      BY <1>8, <3>3
    <3>5. failed'[i] \in Int /\ fail'.until \in Nat
      <4>1. i # 1 => i - 1 \in 1..Threshold
        BY <1>4, <1>9
      <4> QED
        BY <1>2, <1>4, <1>9, <4>1
    <3> QED
      BY <1>4, <1>6, <3>4, <3>5
  <2> QED
    BY <2>1, <2>2
<1> QED
  BY <1>6, <1>7, <1>8, <1>9

LEMMA EarnedAfterExpire ==
  ASSUME KeysInv, EarnedInv, NEW r \in Slot, ExpireCounter(r)
  PROVE  EarnedInv'
<1>1. TypeOK
  BY DEF KeysInv
<1>2. /\ now' = now /\ deaths' = deaths /\ failed' = failed /\ req[r].at = "expire"
      /\ fail' = IF Fails = 0 THEN fail ELSE [fail EXCEPT !.until = now + Window]
  BY DEF ExpireCounter
<1>3. Others(r) /\ req'[r].at = "idle"
  BY <1>1, Values, RespondType DEF ExpireCounter
<1>4. Locking' = Locking
  BY <1>2, <1>3 DEF Locking, In, Others
<1>5. CASE Fails = 0
  <2>1. Fails' = 0 /\ Counted' = {}
    BY <1>2, <1>5 DEF Fails, Counted
  <2> QED
    BY <1>2, <1>4, <2>1 DEF EarnedInv, Lately
<1>6. CASE Fails # 0
  <2>1. fail'.until = now + Window /\ fail'.count = fail.count
    BY <1>1, <1>2, <1>6 DEF TypeOK
  <2>2. Counted' = Counted /\ Fails' = Fails
    BY <2>1 DEF Counted, Fails
  <2>3. deaths = 0 => \A i \in Counted : failed[i] = now
    BY <1>2 DEF EarnedInv, Expiring, In
  <2>4. now + Window > now /\ now + Window # Never /\ now + Window >= now + Window
    BY <1>1, Numbers, Constants
  <2> QED
    BY <1>2, <1>4, <2>1, <2>2, <2>3, <2>4 DEF EarnedInv, Lately
<1> QED
  BY <1>5, <1>6

LEMMA EarnedAfterReset ==
  ASSUME KeysInv, EarnedInv, NEW r \in Slot, DeleteCounter(r)
  PROVE  EarnedInv'
<1>1. TypeOK
  BY DEF KeysInv
<1>2. /\ now' = now /\ deaths' = deaths /\ failed' = failed /\ req[r].at = "reset"
      /\ fail' = NoCount
  BY DEF DeleteCounter
<1>3. Others(r) /\ req'[r].at = "select"
  BY <1>1, Values, GoToType DEF DeleteCounter
<1>4. Locking' = Locking
  BY <1>2, <1>3 DEF Locking, In, Others
<1>5. Fails' = 0 /\ Counted' = {}
  BY <1>2 DEF Fails, Counted, NoCount
<1> QED
  BY <1>2, <1>4, <1>5 DEF EarnedInv, Lately

LEMMA EarnedAfterTick ==
  ASSUME KeysInv, EarnedInv, Tick
  PROVE  EarnedInv'
<1>1. TypeOK
  BY DEF KeysInv
<1>2. /\ now' = now + 1 /\ deaths' = deaths
      /\ fail' = IF now + 1 < fail.until THEN fail ELSE NoCount
      /\ \A i \in 1..Threshold :
           failed'[i] = IF failed[i] + Window > now + 1 THEN failed[i] ELSE LongAgo
  BY DEF Tick
<1>3. \A s \in Slot : req'[s].at = req[s].at /\ req[s].at \notin {"expire", "lock"}
  BY <1>1, JoinedType DEF Tick
<1>4. Expiring = {} /\ Expiring' = {} /\ Locking' = {}
  BY <1>3 DEF Expiring, Locking, In
<1>5. CASE ~ (now + 1 < fail.until)
  <2>1. Fails' = 0 /\ Counted' = {}
    BY <1>2, <1>5 DEF Fails, Counted, NoCount
  <2> QED
    BY <1>4, <2>1 DEF EarnedInv
<1>6. CASE now + 1 < fail.until
  <2>1. fail' = fail /\ Fails' = Fails /\ Counted' = Counted
    BY <1>2, <1>6 DEF Fails, Counted
  <2>2. deaths = 0 /\ Fails # 0 => fail.until # Never
    BY <1>4 DEF EarnedInv
  <2>3. ASSUME deaths = 0, NEW i \in Counted
        PROVE  fail.until # Never /\ failed'[i] + Window >= fail.until
    <3>1. i \in 1..Threshold /\ Fails # 0
      BY <1>1, <2>3, Numbers, Constants DEF Counted, Fails
    <3>2. failed[i] + Window >= fail.until /\ fail.until # Never
      BY <1>4, <2>2, <2>3, <3>1 DEF EarnedInv
    <3>3. failed'[i] = failed[i]
      BY <1>1, <1>2, <1>6, <3>1, <3>2, FailedType, Numbers, Constants
    <3> QED
      BY <3>2, <3>3
  <2> QED
    BY <1>2, <1>4, <1>6, <2>1, <2>2, <2>3 DEF EarnedInv
<1> QED
  BY <1>5, <1>6

LEMMA EarnedStep ==
  ASSUME KeysInv, EarnedInv, [Next]_vars
  PROVE  EarnedInv'
<1>0. TypeOK
  BY DEF KeysInv
<1>1. CASE RequestOtp
  <2>1. Expiring' = Expiring /\ Locking' = Locking
    BY <1>0, <1>1, JoinedType DEF RequestOtp, Expiring, Locking, In
  <2> QED
    BY <1>1, <2>1, EarnedKept DEF RequestOtp
<1>2. ASSUME NEW r \in Slot, Verify(r) PROVE EarnedInv'
  <2>1. \A s \in Slot : req'[s].at = IF s = r THEN "cooldown" ELSE req[s].at
    BY <1>0, <1>2, JoinedType DEF Verify
  <2>2. Expiring' = Expiring /\ Locking' = Locking
    BY <1>2, <2>1 DEF Verify, Expiring, Locking, In
  <2> QED
    BY <1>2, <2>2, EarnedKept DEF Verify
<1>3. ASSUME NEW r \in Slot, Others(r), req[r].at # "expire",
             req'[r].at \notin {"expire", "lock"},
             UNCHANGED <<now, fail, failed, deaths>>
      PROVE  EarnedInv'
  <2>1. Expiring' = Expiring /\ Locking' \subseteq Locking
    BY <1>3 DEF Expiring, Locking, In, Others
  <2> QED
    BY <1>3, <2>1, EarnedKept
<1>4. ASSUME NEW r \in Slot, Serve(r) PROVE EarnedInv'
  <2>1. CASE ReadCooldown(r)
    BY <1>0, <1>3, <2>1, Values, GoToType, RespondType DEF ReadCooldown
  <2>2. CASE ReadCode(r)
    <3>1. PICK at \in {"incr", "del"} : GoTo(r, at)
      BY <2>2 DEF ReadCode
    <3> QED
      BY <1>0, <1>3, <2>2, <3>1, Values, GoToType DEF ReadCode
  <2>3. CASE CountFailure(r)
    BY <2>3, EarnedAfterFailure
  <2>4. CASE ExpireCounter(r)
    BY <2>4, EarnedAfterExpire
  <2>5. CASE StartCooldown(r)
    BY <1>0, <1>3, <2>5, Values, RespondType DEF StartCooldown
  <2>6. CASE DeleteCode(r)
    BY <1>0, <1>3, <2>6, Values, GoToType DEF DeleteCode
  <2>7. CASE DeleteCounter(r)
    BY <2>7, EarnedAfterReset
  <2>8. CASE SelectUser(r)
    BY <1>0, <1>3, <2>8, Values, GoToType, RespondType DEF SelectUser
  <2>9. CASE InsertUser(r)
    BY <1>0, <1>3, <2>9, Values, RespondType DEF InsertUser
  <2> QED
    BY <1>4, <2>1, <2>2, <2>3, <2>4, <2>5, <2>6, <2>7, <2>8, <2>9 DEF Serve
<1>5. ASSUME NEW r \in Slot, PodDies(r) PROVE EarnedInv'
  BY <1>0, <1>5, Numbers DEF PodDies, EarnedInv
<1>6. CASE Tick
  BY <1>6, EarnedAfterTick
<1>7. CASE UNCHANGED vars
  BY <1>7, EarnedKept DEF vars, Expiring, Locking, In
<1> QED
  BY <1>1, <1>2, <1>4, <1>5, <1>6, <1>7 DEF Next

-----------------------------------------------------------------------------
(* What a verification by itself finds.                                    *)

\* Steps of one verification: another one is not alone while this one is busy.
LEMMA LoneOthers ==
  ASSUME TypeOK, LoneInv, NEW r \in Slot, req[r].at # "idle",
         \A s \in Slot \ {r} : req'[s] = req[s],
         LoneOK(r)'
  PROVE  LoneInv'
<1>1. ASSUME NEW s \in Slot, s # r PROVE LoneOK(s)'
  <2>1. ~ req[s].lone
    BY <1>1 DEF LoneInv, LoneOK
  <2> QED
    BY <1>1, <2>1 DEF LoneOK
<1> QED
  BY <1>1 DEF LoneInv

LEMMA LoneMoves ==
  ASSUME TypeOK, LoneInv, NEW r \in Slot, req[r].at # "idle",
         NEW at \in Step, GoTo(r, at),
         req[r].lone =>
           /\ at \in {"code", "del", "reset", "select", "insert"}
           /\ at = "code" => req[r].code # 0 /\ req[r].code = Code'
           /\ at = "insert" => ~user'
  PROVE  LoneInv'
<1>1. /\ \A s \in Slot \ {r} : req'[s] = req[s]
      /\ req'[r].at = at /\ req'[r].code = req[r].code /\ req'[r].lone = req[r].lone
  BY GoToType
<1>2. LoneOK(r)'
  <2>1. LoneOK(r)
    BY DEF LoneInv
  <2>2. req[r].lone => \A q \in Slot \ {r} : req[q].at = "idle"
    BY <2>1 DEF LoneOK
  <2>3. \A q \in Slot \ {r} : req'[q].at = req[q].at
    BY <1>1
  <2>4. req[r].lone => \A q \in Slot \ {r} : req'[q].at = "idle"
    BY <2>2, <2>3
  <2> QED
    BY <1>1, <2>4 DEF LoneOK
<1> QED
  BY <1>1, <1>2, LoneOthers

LEMMA LoneAnswered ==
  ASSUME TypeOK, LoneInv, NEW r \in Slot, req[r].at # "idle",
         NEW status \in Statuses, Respond(r, status),
         req[r].lone => status \in {0, 200}
  PROVE  LoneInv'
<1>1. /\ \A s \in Slot \ {r} : req'[s] = req[s]
      /\ req'[r].at = "idle" /\ req'[r].status = status /\ req'[r].lone = req[r].lone
  BY RespondType
<1>2. LoneOK(r)'
  <2>1. LoneOK(r)
    BY DEF LoneInv
  <2>2. req[r].lone => \A q \in Slot \ {r} : req[q].at = "idle"
    BY <2>1 DEF LoneOK
  <2>3. \A q \in Slot \ {r} : req'[q].at = req[q].at
    BY <1>1
  <2>4. req[r].lone => \A q \in Slot \ {r} : req'[q].at = "idle"
    BY <2>2, <2>3
  <2> QED
    BY <1>1, <2>4 DEF LoneOK
<1> QED
  BY <1>1, <1>2, LoneOthers

LEMMA LoneStep ==
  ASSUME KeysInv, LoneInv, [Next]_vars
  PROVE  LoneInv'
<1>0. TypeOK
  BY DEF KeysInv
<1>1. CASE RequestOtp \/ Tick
  BY <1>0, <1>1, JoinedType DEF RequestOtp, Tick, LoneInv, LoneOK
<1>2. ASSUME NEW r \in Slot, Verify(r) PROVE LoneInv'
  <2>1. PICK code \in 0..codes :
          req' = [Joined EXCEPT ![r] =
            [at |-> "cooldown", code |-> code, late |-> code \in spent,
             lone |-> /\ \A q \in Slot : req[q].at = "idle"
                      /\ code # 0 /\ code = Code /\ cool = 0,
             status |-> 0]]
    BY <1>2 DEF Verify
  <2>2. /\ \A s \in Slot \ {r} : ~ req'[s].lone /\ req'[s].at = req[s].at
        /\ req'[r].at = "cooldown" /\ req'[r].code = code
        /\ req'[r].lone => /\ \A q \in Slot : req[q].at = "idle"
                           /\ code # 0 /\ code = Code /\ cool = 0
    BY <1>0, <2>1, JoinedType
  <2>3. cool' = cool /\ Code' = Code
    BY <1>2 DEF Verify, Code
  <2> QED
    BY <2>2, <2>3 DEF LoneInv, LoneOK
<1>3. ASSUME NEW r \in Slot, Serve(r) PROVE LoneInv'
  <2>0. req[r].lone =>
          /\ req[r].at \in {"idle", "cooldown", "code", "del", "reset", "select", "insert"}
          /\ req[r].at = "cooldown" => cool = 0
          /\ req[r].at \in {"cooldown", "code"} => req[r].code # 0 /\ req[r].code = Code
          /\ req[r].at = "insert" => ~user
    BY DEF LoneInv, LoneOK
  <2>1. CASE ReadCooldown(r)
    <3>1. req[r].at = "cooldown" /\ otp' = otp
      BY <2>1 DEF ReadCooldown
    <3>2. CASE cool # 0 /\ Respond(r, 429)
      BY <1>0, <2>0, <3>1, <3>2, Values, LoneAnswered
    <3>3. CASE GoTo(r, "code")
      BY <1>0, <2>0, <3>1, <3>3, Values, LoneMoves DEF Code
    <3> QED
      BY <2>1, <3>2, <3>3 DEF ReadCooldown
  <2>2. CASE ReadCode(r)
    <3>1. req[r].at = "code"
      BY <2>2 DEF ReadCode
    <3>2. CASE (Code = 0 \/ Code # req[r].code) /\ GoTo(r, "incr")
      BY <1>0, <2>0, <3>1, <3>2, Values, LoneMoves
    <3>3. CASE GoTo(r, "del")
      BY <1>0, <3>1, <3>3, Values, LoneMoves
    <3> QED
      BY <2>2, <3>2, <3>3 DEF ReadCode
  <2>3. CASE CountFailure(r)
    <3>1. req[r].at = "incr" /\ ~ req[r].lone
      BY <2>0, <2>3 DEF CountFailure
    <3>2. CASE GoTo(r, "expire") \/ GoTo(r, "lock")
      BY <1>0, <3>1, <3>2, Values, LoneMoves
    <3>3. CASE Respond(r, 401)
      BY <1>0, <3>1, <3>3, Values, LoneAnswered
    <3> QED
      BY <2>3, <3>2, <3>3 DEF CountFailure
  <2>4. CASE ExpireCounter(r) \/ StartCooldown(r)
    <3>1. req[r].at \in {"expire", "lock"} /\ Respond(r, 401)
      BY <2>4 DEF ExpireCounter, StartCooldown
    <3> QED
      BY <1>0, <2>0, <3>1, Values, LoneAnswered
  <2>5. CASE DeleteCode(r)
    <3>1. req[r].at = "del" /\ GoTo(r, "reset")
      BY <2>5 DEF DeleteCode
    <3> QED
      BY <1>0, <3>1, Values, LoneMoves
  <2>6. CASE DeleteCounter(r)
    <3>1. req[r].at = "reset" /\ GoTo(r, "select")
      BY <2>6 DEF DeleteCounter
    <3> QED
      BY <1>0, <3>1, Values, LoneMoves
  <2>7. CASE SelectUser(r)
    <3>1. req[r].at = "select" /\ user' = user
      BY <2>7 DEF SelectUser
    <3>2. CASE Respond(r, 200)
      BY <1>0, <3>1, <3>2, Values, LoneAnswered
    <3>3. CASE ~user /\ GoTo(r, "insert")
      BY <1>0, <3>1, <3>3, Values, LoneMoves
    <3> QED
      BY <2>7, <3>2, <3>3 DEF SelectUser
  <2>8. CASE InsertUser(r)
    <3>1. req[r].at = "insert"
      BY <2>8 DEF InsertUser
    <3>2. CASE user /\ Respond(r, 500)
      BY <1>0, <2>0, <3>1, <3>2, Values, LoneAnswered
    <3>3. CASE Respond(r, 200)
      BY <1>0, <3>1, <3>3, Values, LoneAnswered
    <3> QED
      BY <2>8, <3>2, <3>3 DEF InsertUser
  <2> QED
    BY <1>3, <2>1, <2>2, <2>3, <2>4, <2>5, <2>6, <2>7, <2>8 DEF Serve
<1>4. ASSUME NEW r \in Slot, PodDies(r) PROVE LoneInv'
  <2>1. req[r].at # "idle" /\ Respond(r, 0)
    BY <1>4 DEF PodDies, Respond
  <2> QED
    BY <1>0, <2>1, Values, LoneAnswered
<1>5. CASE UNCHANGED vars
  BY <1>5 DEF vars, LoneInv, LoneOK, Code
<1> QED
  BY <1>1, <1>2, <1>3, <1>4, <1>5 DEF Next

LEMMA InvInitially == Init => IInv
<1>1. SUFFICES ASSUME Init PROVE IInv
  OBVIOUS
<1>2. KeysInv
  BY <1>1, Initially
<1>3. EarnedInv
  <2>1. Fails = 0 /\ Locking = {} /\ Counted = {}
    BY <1>1 DEF Init, Fails, NoCount, Locking, In, Counted
  <2> QED
    BY <2>1 DEF EarnedInv
<1>4. LoneInv
  BY <1>1 DEF Init, LoneInv, LoneOK
<1> QED
  BY <1>2, <1>3, <1>4 DEF IInv, KeysInv

LEMMA InvStep == ASSUME IInv, [Next]_vars PROVE IInv'
<1>1. KeysInv
  BY DEF IInv, KeysInv
<1>2. KeysInv'
  BY <1>1, AfterStep
<1>3. EarnedInv'
  BY <1>1, EarnedStep DEF IInv
<1>4. LoneInv'
  BY <1>1, LoneStep DEF IInv
<1> QED
  BY <1>2, <1>3, <1>4 DEF IInv, KeysInv

-----------------------------------------------------------------------------
(* The theorems.                                                           *)

(* The invariant that the others rest on: what a consumed code, a failure  *)
(* counter without an expiry and a cooldown under way say about the        *)
(* verifications that overlap (auth.py:73-115).                            *)
THEOREM Invariance == Spec => []IInv
<1>1. Init => IInv
  BY InvInitially
<1>2. IInv /\ [Next]_vars => IInv'
  BY InvStep
<1> QED
  BY <1>1, <1>2, PTL DEF Spec

(* Every variable of the sign-in keeps its type (auth.py:40-115).          *)
THEOREM TypeCorrect == Spec => []TypeOK
<1>1. IInv => TypeOK
  BY DEF IInv
<1> QED
  BY <1>1, Invariance, PTL

(* A verification that arrives after its code was consumed never succeeds: *)
(* the DEL of auth.py:102 is what makes a code good once.                  *)
THEOREM CodesOpenOnce == Spec => []CodeSpentOnce
<1>1. IInv => CodeSpentOnce
  BY DEF IInv, CodeInv, LateOK, CodeSpentOnce
<1> QED
  BY <1>1, Invariance, PTL

(* However many verifications overlap, a counter that expires counts no    *)
(* more failures than the threshold of auth.py:96 allows, plus one for     *)
(* each slot and each pod that died.                                       *)
THEOREM FailuresAreBounded == Spec => []GuessesBounded
<1>1. ASSUME IInv PROVE GuessesBounded
  <2>1. SUFFICES ASSUME fail.until # Never
                 PROVE  Fails <= Threshold - 1 + Cardinality(Slot) + deaths
    BY DEF GuessesBounded
  <2>2. TypeOK /\ (Few \/ Cooling)
    BY <1>1, <2>1 DEF IInv, CounterInv
  <2> QED
    BY <2>2, Slots, Numbers, Constants DEF Few, Cooling, Fails
<1> QED
  BY <1>1, Invariance, PTL

(* The owner is kept out only with a cause: whoever begins a cooldown has  *)
(* the threshold's number of failures behind him within one window, unless *)
(* a pod has died, and a verification by itself, of the code that counts   *)
(* and with no cooldown, gets in (auth.py:83-115).                         *)
THEOREM OwnersGetIn == Spec => []OwnerGetsIn
<1>1. ASSUME IInv PROVE LockoutEarned
  <2>1. SUFFICES ASSUME NEW r \in Slot, req[r].at = "lock", deaths = 0
                 PROVE  Lately(Threshold)
    BY DEF LockoutEarned
  <2>2. r \in Locking /\ Threshold \in 1..Threshold
    BY <2>1, Constants DEF Locking, In
  <2> QED
    BY <1>1, <2>1, <2>2 DEF IInv, EarnedInv
<1>2. IInv => LoneSignInWorks
  BY DEF IInv, LoneInv, LoneOK, LoneSignInWorks
<1>3. IInv => OwnerGetsIn
  BY <1>1, <1>2 DEF OwnerGetsIn
<1> QED
  BY <1>3, Invariance, PTL
============================================================================
