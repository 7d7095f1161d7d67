----------------------------- MODULE FiniteLemmas -----------------------------
(***************************************************************************)
(* Lemmas about finite data, for the proofs: least elements, minima, and   *)
(* the sums SumFunction and SumFunctionOnSet of the community module       *)
(* Functions. The library's induction theorems take a predicate as a       *)
(* parameter; here an induction is an argument about a least or minimal    *)
(* counterexample, which LeastNumber and MinimalSubset give as a set.      *)
(***************************************************************************)
EXTENDS Integers, FiniteSets, FiniteSetsExt, Functions, FiniteSetTheorems, WellFoundedInduction,
        TLAPS

(* A nonempty set of natural numbers has a least one. *)
LEMMA LeastNumber ==
  ASSUME NEW T, T \subseteq Nat, T # {}
  PROVE  \E n \in T : \A m \in T : n <= m
<1>1. PICK n \in T : \A m \in T : ~(<<m, n>> \in OpToRel(<, Nat))
  BY NatLessThanWellFounded, WFMin
<1>2. ASSUME NEW m \in T PROVE n <= m
  <2>1. ~(m < n)
    BY <1>1 DEF OpToRel
  <2> QED BY <2>1
<1> QED BY <1>2

(* The minimum of the community module FiniteSetsExt. *)
LEMMA MinIsLeast ==
  ASSUME NEW T, T \subseteq Nat, T # {}
  PROVE  Min(T) \in T /\ \A n \in T : Min(T) <= n
BY LeastNumber DEF Min

(* The values of a function on a finite set are finitely many. *)
LEMMA FiniteRange ==
  ASSUME NEW S, IsFiniteSet(S), NEW f, DOMAIN f = S
  PROVE  IsFiniteSet({f[x] : x \in S})
<1> DEFINE T == {f[x] : x \in S}
           g == [x \in S |-> f[x]]
<1>1. g \in Surjection(S, T)
  BY DEF Surjection
<1> QED BY <1>1, FS_Surjection

(* A nonempty collection of subsets of a finite set has a minimal one. *)
LEMMA MinimalSubset ==
  ASSUME NEW S, IsFiniteSet(S), NEW T, T \subseteq SUBSET S, T # {}
  PROVE  \E U \in T : \A V \in T : V \subseteq U => V = U
<1>1. IsWellFoundedOn(StrictSubsetOrdering(S), SUBSET S)
  BY FS_StrictSubsetOrderingWellFounded, FS_FiniteSubsetsOfFinite
<1>2. PICK U \in T : \A V \in T : ~(<<V, U>> \in StrictSubsetOrdering(S))
  BY <1>1, WFMin
<1>3. ASSUME NEW V \in T, V \subseteq U, V # U PROVE FALSE
  <2>1. V \in SUBSET S /\ U \in SUBSET S
    OBVIOUS
  <2>2. <<V, U>> \in StrictSubsetOrdering(S)
    BY <1>3, <2>1 DEF StrictSubsetOrdering
  <2> QED BY <1>2, <2>2
<1> QED BY <1>3

-----------------------------------------------------------------------------
(* The recursive function behind a sum, and that it exists. *)
Some(s) == CHOOSE x \in s : TRUE

Unfolded(f, g, s) == IF s = {} THEN 0 ELSE f[Some(s)] + g[s \ {Some(s)}]

SumsUp(f, S, g) == g = [s \in SUBSET S |-> Unfolded(f, g, s)]

Partial(f, S) == CHOOSE g : SumsUp(f, S, g)

(* The library's sum is the partial sum of the whole set. *)
LEMMA SumIsPartial ==
  ASSUME NEW f, NEW S
  PROVE  SumFunctionOnSet(f, S) = Partial(f, S)[S]
BY DEF SumFunctionOnSet, FoldFunctionOnSet, MapThenFoldSet, Partial, SumsUp, Unfolded, Some

(* A set that is not empty has the element it is unfolded at. *)
LEMMA SomeIsIn == ASSUME NEW s, s # {} PROVE Some(s) \in s
BY DEF Some

(* Two functions that sum up agree wherever both are defined. *)
LEMMA PartialUnique ==
  ASSUME NEW f, NEW S, IsFiniteSet(S), NEW R, IsFiniteSet(R),
         NEW g, SumsUp(f, S, g), NEW h, SumsUp(f, R, h)
  PROVE  \A s \in SUBSET (S \cap R) : g[s] = h[s]
<1> DEFINE T == {s \in SUBSET (S \cap R) : g[s] # h[s]}
<1> SUFFICES ASSUME T # {} PROVE FALSE
  OBVIOUS
<1>1. IsFiniteSet(S \cap R)
  BY FS_Intersection
<1>2. PICK U \in T : \A V \in T : V \subseteq U => V = U
  <2>1. T \subseteq SUBSET (S \cap R)
    OBVIOUS
  <2> HIDE DEF T
  <2> QED BY <1>1, <2>1, MinimalSubset
<1>3. g[U] = Unfolded(f, g, U) /\ h[U] = Unfolded(f, h, U)
  BY DEF SumsUp
<1>4. U # {}
  BY <1>3 DEF Unfolded
<1>5. U \ {Some(U)} \notin T
  BY <1>2, <1>4, SomeIsIn
<1>6. g[U \ {Some(U)}] = h[U \ {Some(U)}]
  BY <1>5
<1> QED BY <1>3, <1>4, <1>6 DEF Unfolded

(* The partial sums of a finite set sum up. *)
LEMMA PartialExists ==
  ASSUME NEW f, NEW S, IsFiniteSet(S)
  PROVE  SumsUp(f, S, Partial(f, S))
<1> DEFINE T == {s \in SUBSET S : ~SumsUp(f, s, Partial(f, s))}
<1> SUFFICES ASSUME S \in T PROVE FALSE
  OBVIOUS
<1>1. PICK U \in T : \A V \in T : V \subseteq U => V = U
  <2>1. T \subseteq SUBSET S /\ T # {}
    OBVIOUS
  <2> HIDE DEF T
  <2> QED BY <2>1, MinimalSubset
<1>2. \A V \in SUBSET U : V # U => SumsUp(f, V, Partial(f, V))
  BY <1>1
<1>3. \A V \in SUBSET U : IsFiniteSet(V)
  BY FS_Subset
<1> DEFINE at(s) == Partial(f, s)[s]
           g == [s \in SUBSET U |-> IF s = {} THEN 0 ELSE f[Some(s)] + at(s \ {Some(s)})]
<1>4. ASSUME NEW s \in SUBSET U, s # U PROVE g[s] = at(s)
  <2>1. SumsUp(f, s, Partial(f, s))
    BY <1>2, <1>4
  <2>2. at(s) = Unfolded(f, Partial(f, s), s)
    BY <2>1 DEF SumsUp
  <2>3. CASE s = {}
    BY <2>2, <2>3 DEF Unfolded
  <2>4. CASE s # {}
    <3> DEFINE r == s \ {Some(s)}
    <3>1. r \in SUBSET U /\ r # U /\ r \subseteq s /\ r \in SUBSET (s \cap r)
      BY <2>4, SomeIsIn
    <3>2. SumsUp(f, r, Partial(f, r)) /\ IsFiniteSet(r) /\ IsFiniteSet(s)
      BY <1>2, <1>3, <3>1
    <3>3. Partial(f, s)[r] = Partial(f, r)[r]
      BY <2>1, <3>1, <3>2, PartialUnique
    <3>4. g[s] = f[Some(s)] + at(r)
      BY <2>4
    <3> HIDE DEF g
    <3> QED BY <2>2, <2>4, <3>3, <3>4 DEF Unfolded
  <2> QED BY <2>3, <2>4
<1>5. SumsUp(f, U, g)
  <2>1. ASSUME NEW s \in SUBSET U PROVE g[s] = Unfolded(f, g, s)
    <3>1. CASE s = {}
      BY <3>1 DEF Unfolded
    <3>2. CASE s # {}
      <4>1. s \ {Some(s)} \in SUBSET U /\ s \ {Some(s)} # U
        BY <3>2, SomeIsIn
      <4>2. g[s \ {Some(s)}] = at(s \ {Some(s)})
        BY <1>4, <4>1
      <4>3. g[s] = f[Some(s)] + at(s \ {Some(s)})
        BY <3>2
      <4> HIDE DEF g, at
      <4> QED BY <3>2, <4>2, <4>3 DEF Unfolded
    <3> QED BY <3>1, <3>2
  <2>2. g = [s \in SUBSET U |-> g[s]]
    OBVIOUS
  <2> HIDE DEF g
  <2> QED BY <2>1, <2>2 DEF SumsUp
<1>6. SumsUp(f, U, Partial(f, U))
  BY <1>5 DEF Partial
<1> QED BY <1>6

-----------------------------------------------------------------------------
(* What a sum is, element by element. *)

(* The empty sum. *)
LEMMA SumOfNothing == ASSUME NEW f PROVE SumFunctionOnSet(f, {}) = 0
<1>1. SumsUp(f, {}, Partial(f, {}))
  BY PartialExists, FS_EmptySet
<1>2. Partial(f, {})[{}] = 0
  BY <1>1 DEF SumsUp, Unfolded
<1> QED BY <1>2, SumIsPartial

(* A sum is its chosen element and the rest. *)
LEMMA SumUnfolds ==
  ASSUME NEW f, NEW S, IsFiniteSet(S), S # {}
  PROVE  SumFunctionOnSet(f, S) = f[Some(S)] + SumFunctionOnSet(f, S \ {Some(S)})
<1> DEFINE r == S \ {Some(S)}
<1>1. IsFiniteSet(r) /\ r \in SUBSET (S \cap r)
  BY FS_Subset
<1>2. SumsUp(f, S, Partial(f, S)) /\ SumsUp(f, r, Partial(f, r))
  BY <1>1, PartialExists
<1>3. Partial(f, S)[r] = Partial(f, r)[r]
  BY <1>1, <1>2, PartialUnique
<1>4. Partial(f, S)[S] = f[Some(S)] + Partial(f, S)[r]
  BY <1>2 DEF SumsUp, Unfolded
<1>5. SumFunctionOnSet(f, r) = Partial(f, r)[r] /\ SumFunctionOnSet(f, S) = Partial(f, S)[S]
  BY SumIsPartial
<1> HIDE DEF r
<1> QED BY <1>3, <1>4, <1>5 DEF r

(* A sum of integers is one, and of natural numbers a natural number. *)
LEMMA SumTyped ==
  ASSUME NEW f, NEW Type, Type = Int \/ Type = Nat, NEW S, IsFiniteSet(S),
         \A x \in S : f[x] \in Type
  PROVE  SumFunctionOnSet(f, S) \in Type
<1> DEFINE T == {s \in SUBSET S : SumFunctionOnSet(f, s) \notin Type}
<1> SUFFICES ASSUME S \in T PROVE FALSE
  OBVIOUS
<1>1. PICK U \in T : \A V \in T : V \subseteq U => V = U
  <2>1. T \subseteq SUBSET S /\ T # {}
    OBVIOUS
  <2> HIDE DEF T
  <2> QED BY <2>1, MinimalSubset
<1>2. U # {}
  BY SumOfNothing
<1> DEFINE r == U \ {Some(U)}
<1>3. r \notin T /\ r \in SUBSET S /\ Some(U) \in S
  BY <1>1, <1>2, SomeIsIn
<1>4. SumFunctionOnSet(f, r) \in Type
  BY <1>3
<1>5. SumFunctionOnSet(f, U) = f[Some(U)] + SumFunctionOnSet(f, r)
  BY <1>2, SumUnfolds, FS_Subset
<1>6. \A a, b \in Type : a + b \in Type
  OBVIOUS
<1>7. f[Some(U)] \in Type
  BY <1>3
<1>8. SumFunctionOnSet(f, U) \in Type
  BY <1>4, <1>5, <1>6, <1>7
<1> QED BY <1>8

(* Any element may be taken out first. *)
LEMMA SumTakeOut ==
  ASSUME NEW f, NEW S, IsFiniteSet(S), \A y \in S : f[y] \in Int
  PROVE  \A x \in S : SumFunctionOnSet(f, S) = f[x] + SumFunctionOnSet(f, S \ {x})
<1> DEFINE sum(s) == SumFunctionOnSet(f, s)
           T == {s \in SUBSET S : \E x \in s : sum(s) # f[x] + sum(s \ {x})}
<1> SUFFICES ASSUME S \in T PROVE FALSE
  OBVIOUS
<1>1. PICK U \in T : \A V \in T : V \subseteq U => V = U
  <2>1. T \subseteq SUBSET S /\ T # {}
    OBVIOUS
  <2> HIDE DEF T
  <2> QED BY <2>1, MinimalSubset
<1>2. PICK x \in U : sum(U) # f[x] + sum(U \ {x})
  BY <1>1
<1>3. \A V \in SUBSET U : IsFiniteSet(V) /\ sum(V) \in Int
  BY FS_Subset, SumTyped
<1> DEFINE p == Some(U)
<1>4. p \in U /\ sum(U) = f[p] + sum(U \ {p})
  BY <1>2, <1>3, SumUnfolds, SomeIsIn
<1>5. p # x
  BY <1>2, <1>4
<1>6. U \ {p} \notin T /\ U \ {x} \notin T /\ U \ {p} \in SUBSET S /\ U \ {x} \in SUBSET S
  BY <1>1, <1>4
<1> HIDE DEF sum, p
<1>7. sum(U \ {p}) = f[x] + sum((U \ {p}) \ {x})
  BY <1>2, <1>5, <1>6
<1>8. sum(U \ {x}) = f[p] + sum((U \ {x}) \ {p})
  BY <1>4, <1>5, <1>6
<1>9. (U \ {x}) \ {p} = (U \ {p}) \ {x}
  OBVIOUS
<1>10. f[p] \in Int /\ f[x] \in Int /\ sum((U \ {p}) \ {x}) \in Int
  BY <1>1, <1>2, <1>3, <1>4
<1> DEFINE rest == sum((U \ {p}) \ {x})
<1>11. sum(U) = f[p] + (f[x] + rest) /\ sum(U \ {x}) = f[p] + rest
  BY <1>4, <1>7, <1>8, <1>9
<1> HIDE DEF rest
<1>12. sum(U) = f[x] + sum(U \ {x})
  BY <1>10, <1>11 DEF rest
<1> QED BY <1>2, <1>12

(* A sum depends on the values at its own elements only. *)
LEMMA SumSameValues ==
  ASSUME NEW f, NEW g, NEW S, IsFiniteSet(S), \A x \in S : f[x] = g[x]
  PROVE  SumFunctionOnSet(f, S) = SumFunctionOnSet(g, S)
<1> DEFINE T == {s \in SUBSET S : SumFunctionOnSet(f, s) # SumFunctionOnSet(g, s)}
<1> SUFFICES ASSUME S \in T PROVE FALSE
  OBVIOUS
<1>1. PICK U \in T : \A V \in T : V \subseteq U => V = U
  <2>1. T \subseteq SUBSET S /\ T # {}
    OBVIOUS
  <2> HIDE DEF T
  <2> QED BY <2>1, MinimalSubset
<1>2. U # {} /\ IsFiniteSet(U)
  BY SumOfNothing, FS_Subset
<1> DEFINE r == U \ {Some(U)}
<1>3. r \notin T /\ r \in SUBSET S /\ Some(U) \in S
  BY <1>1, <1>2, SomeIsIn
<1>4. SumFunctionOnSet(f, r) = SumFunctionOnSet(g, r)
  BY <1>3
<1>5. SumFunctionOnSet(f, U) = f[Some(U)] + SumFunctionOnSet(f, r)
      /\ SumFunctionOnSet(g, U) = g[Some(U)] + SumFunctionOnSet(g, r)
  BY <1>2, SumUnfolds
<1>6. SumFunctionOnSet(f, U) = SumFunctionOnSet(g, U)
  BY <1>3, <1>4, <1>5
<1> QED BY <1>6

(* Leaving out natural numbers makes no sum larger. *)
LEMMA SumOfSubset ==
  ASSUME NEW f, NEW S, IsFiniteSet(S), \A x \in S : f[x] \in Nat
  PROVE  \A R \in SUBSET S : SumFunctionOnSet(f, R) <= SumFunctionOnSet(f, S)
<1> TAKE R \in SUBSET S
<1> DEFINE sum(s) == SumFunctionOnSet(f, s)
           T == {s \in SUBSET S : R \subseteq s /\ ~(sum(R) <= sum(s))}
<1> SUFFICES ASSUME S \in T PROVE FALSE
  OBVIOUS
<1>1. PICK U \in T : \A V \in T : V \subseteq U => V = U
  <2>1. T \subseteq SUBSET S /\ T # {}
    OBVIOUS
  <2> HIDE DEF T
  <2> QED BY <2>1, MinimalSubset
<1>2. \A V \in SUBSET S : IsFiniteSet(V) /\ sum(V) \in Nat
  BY FS_Subset, SumTyped
<1>3. PICK x \in U : x \notin R
  <2>1. U # R
    BY <1>2
  <2> QED BY <2>1
<1>4. U \ {x} \in SUBSET S /\ U \ {x} \notin T /\ R \subseteq U \ {x}
  BY <1>1, <1>3
<1>5. sum(R) <= sum(U \ {x})
  BY <1>4
<1>6. \A y \in U : f[y] \in Int
  OBVIOUS
<1>7. sum(U) = f[x] + sum(U \ {x})
  BY <1>2, <1>3, <1>6, SumTakeOut
<1>8. f[x] \in Nat /\ sum(U \ {x}) \in Nat /\ sum(R) \in Nat
  BY <1>2, <1>3
<1> HIDE DEF sum
<1> QED BY <1>5, <1>7, <1>8

-----------------------------------------------------------------------------
(* The same for SumFunction, the sum of a function over its whole domain. *)

(* The sum of a function's values is of their type. *)
LEMMA SumFunctionTyped ==
  ASSUME NEW Type, Type = Int \/ Type = Nat, NEW S, IsFiniteSet(S), NEW f \in [S -> Type]
  PROVE  SumFunction(f) \in Type
<1>1. \A x \in S : f[x] \in Type
  OBVIOUS
<1> QED BY <1>1, SumTyped DEF SumFunction

(* The sum of a function without arguments. *)
LEMMA SumFunctionOfNothing == ASSUME NEW f, DOMAIN f = {} PROVE SumFunction(f) = 0
BY SumOfNothing DEF SumFunction

(* One more element adds its value. *)
LEMMA SumFunctionAdd ==
  ASSUME NEW S, IsFiniteSet(S), NEW x, x \notin S, NEW R, R = S \cup {x},
         NEW f \in [S -> Int], NEW g \in [R -> Int], \A y \in S : f[y] = g[y]
  PROVE  SumFunction(g) = SumFunction(f) + g[x]
<1>1. IsFiniteSet(S \cup {x})
  BY FS_AddElement
<1>2. \A y \in S \cup {x} : g[y] \in Int
  OBVIOUS
<1>3. (S \cup {x}) \ {x} = S
  OBVIOUS
<1>4. SumFunctionOnSet(g, S \cup {x}) = g[x] + SumFunctionOnSet(g, S)
  BY <1>1, <1>2, <1>3, SumTakeOut
<1>5. SumFunctionOnSet(g, S) = SumFunctionOnSet(f, S)
  BY SumSameValues
<1>6. SumFunctionOnSet(f, S) \in Int /\ g[x] \in Int
  BY SumTyped
<1>7. SumFunction(f) = SumFunctionOnSet(f, S) /\ SumFunction(g) = SumFunctionOnSet(g, S \cup {x})
  BY DEF SumFunction
<1> QED BY <1>4, <1>5, <1>6, <1>7

(* Fewer elements, of natural values, make no larger sum. *)
LEMMA SumFunctionOfFewer ==
  ASSUME NEW S, IsFiniteSet(S), NEW R \in SUBSET S, NEW f \in [R -> Nat], NEW g \in [S -> Nat],
         \A y \in R : f[y] = g[y]
  PROVE  SumFunction(f) <= SumFunction(g)
<1>1. IsFiniteSet(R)
  BY FS_Subset
<1>2. SumFunctionOnSet(f, R) = SumFunctionOnSet(g, R)
  BY <1>1, SumSameValues
<1>3. SumFunctionOnSet(g, R) <= SumFunctionOnSet(g, S)
  BY SumOfSubset
<1> QED BY <1>2, <1>3 DEF SumFunction

-----------------------------------------------------------------------------
(* Positions are natural numbers. *)
Positions(S) == S \subseteq Nat

(* A finite set of natural numbers has a greatest one. *)
LEMMA GreatestNumber ==
  ASSUME NEW S, Positions(S), IsFiniteSet(S), S # {}
  PROVE  \E x \in S : \A y \in S : y <= x
<1> DEFINE T == {s \in SUBSET S : s # {} /\ ~(\E x \in s : \A y \in s : y <= x)}
<1> SUFFICES ASSUME S \in T PROVE FALSE
  OBVIOUS
<1>1. PICK U \in T : \A V \in T : V \subseteq U => V = U
  <2>1. T \subseteq SUBSET S /\ T # {}
    OBVIOUS
  <2> HIDE DEF T
  <2> QED BY <2>1, MinimalSubset
<1>2. PICK p \in U : TRUE
  OBVIOUS
<1>3. \A x \in U : x \in Nat
  BY DEF Positions
<1>4. CASE U \ {p} = {}
  BY <1>2, <1>3, <1>4
<1>5. CASE U \ {p} # {}
  <2>1. PICK m \in U \ {p} : \A y \in U \ {p} : y <= m
    <3>1. U \ {p} \notin T
      BY <1>1, <1>2
    <3> QED BY <1>5, <3>1
  <2>2. \A y \in U : y <= IF m <= p THEN p ELSE m
    BY <1>3, <2>1
  <2> QED BY <2>1, <2>2
<1> QED BY <1>4, <1>5

(* The maximum of the community module FiniteSetsExt. *)
LEMMA MaxIsGreatest ==
  ASSUME NEW S, Positions(S), IsFiniteSet(S), S # {}
  PROVE  Max(S) \in S /\ \A x \in S : x <= Max(S)
<1>1. PICK m \in S : \A x \in S : x <= m
  BY GreatestNumber
<1>2. \A x \in S : x \in Int
  BY DEF Positions
<1>3. \E z \in S : \A y \in S : z >= y
  BY <1>1, <1>2
<1>4. Max(S) \in S /\ \A y \in S : Max(S) >= y
  BY <1>3 DEF Max
<1> QED BY <1>2, <1>4

(* Larger values make a larger sum. *)
LEMMA SumMonotonic ==
  ASSUME NEW S, IsFiniteSet(S), NEW f, NEW g, \A x \in S : f[x] \in Int,
         \A x \in S : g[x] \in Int, \A x \in S : f[x] <= g[x]
  PROVE  /\ SumFunctionOnSet(f, S) <= SumFunctionOnSet(g, S)
         /\ (\E x \in S : f[x] < g[x]) => SumFunctionOnSet(f, S) < SumFunctionOnSet(g, S)
<1> DEFINE low(s) == SumFunctionOnSet(f, s)
           high(s) == SumFunctionOnSet(g, s)
           Good(s) == low(s) <= high(s) /\ ((\E x \in s : f[x] < g[x]) => low(s) < high(s))
           T == {s \in SUBSET S : ~Good(s)}
<1> SUFFICES ASSUME S \in T PROVE FALSE
  OBVIOUS
<1>1. PICK U \in T : \A V \in T : V \subseteq U => V = U
  <2>1. T \subseteq SUBSET S /\ T # {}
    OBVIOUS
  <2> HIDE DEF T
  <2> QED BY <2>1, MinimalSubset
<1>2. \A V \in SUBSET S : IsFiniteSet(V) /\ low(V) \in Int /\ high(V) \in Int
  BY FS_Subset, SumTyped
<1>3. U # {}
  BY SumOfNothing
<1> DEFINE p == IF \E x \in U : f[x] < g[x] THEN CHOOSE x \in U : f[x] < g[x]
                ELSE Some(U)
<1>4. p \in U /\ ((\E x \in U : f[x] < g[x]) => f[p] < g[p])
  BY <1>3, SomeIsIn
<1> HIDE DEF p
<1>5. low(U) = f[p] + low(U \ {p}) /\ high(U) = g[p] + high(U \ {p})
  BY <1>2, <1>4, SumTakeOut
<1>6. U \ {p} \in SUBSET S /\ U \ {p} \notin T
  BY <1>1, <1>4
<1>7. low(U \ {p}) <= high(U \ {p})
  BY <1>6
<1>8. /\ f[p] \in Int /\ g[p] \in Int /\ f[p] <= g[p]
      /\ low(U \ {p}) \in Int /\ high(U \ {p}) \in Int
  BY <1>2, <1>4, <1>6
<1>9. low(U) <= high(U) /\ (f[p] < g[p] => low(U) < high(U))
  <2> HIDE DEF low, high
  <2> QED BY <1>5, <1>7, <1>8
<1> QED BY <1>1, <1>4, <1>9

(* Two different functions of one sum: each is the larger somewhere. *)
LEMMA SameSumCrosses ==
  ASSUME NEW S, IsFiniteSet(S), NEW f \in [S -> Int], NEW g \in [S -> Int],
         SumFunctionOnSet(f, S) = SumFunctionOnSet(g, S), f # g
  PROVE  \E x, y \in S : f[x] < g[x] /\ g[y] < f[y]
<1>1. PICK z \in S : f[z] # g[z]
  OBVIOUS
<1>2. SumFunctionOnSet(f, S) \in Int
  BY SumTyped
<1>3. ASSUME NEW a \in [S -> Int], NEW b \in [S -> Int], a[z] # b[z],
             SumFunctionOnSet(a, S) = SumFunctionOnSet(b, S), SumFunctionOnSet(a, S) \in Int
      PROVE  \E x \in S : a[x] < b[x]
  <2> SUFFICES ASSUME \A x \in S : ~(a[x] < b[x]) PROVE FALSE
    OBVIOUS
  <2>1. \A x \in S : b[x] <= a[x] /\ a[x] \in Int /\ b[x] \in Int
    OBVIOUS
  <2>2. b[z] < a[z]
    BY <1>3, <2>1
  <2>3. SumFunctionOnSet(b, S) < SumFunctionOnSet(a, S)
    BY <2>1, <2>2, SumMonotonic
  <2> QED BY <1>3, <2>3
<1> QED BY <1>1, <1>2, <1>3

(* A sum of multiples. *)
Multiples(a, x, b, y) == a * x + b * y

(* The sum of two functions, each with its weight. *)
LEMMA SumOfMultiples ==
  ASSUME NEW S, IsFiniteSet(S), NEW a \in Int, NEW b \in Int, NEW f, NEW g, NEW h,
         \A x \in S : f[x] \in Int, \A x \in S : g[x] \in Int,
         \A x \in S : h[x] = Multiples(a, f[x], b, g[x])
  PROVE  SumFunctionOnSet(h, S)
           = Multiples(a, SumFunctionOnSet(f, S), b, SumFunctionOnSet(g, S))
<1> DEFINE first(s) == SumFunctionOnSet(f, s)
           second(s) == SumFunctionOnSet(g, s)
           both(s) == SumFunctionOnSet(h, s)
           T == {s \in SUBSET S : both(s) # a * first(s) + b * second(s)}
<1> SUFFICES ASSUME S \in T PROVE FALSE
  BY DEF Multiples
<1>1. PICK U \in T : \A V \in T : V \subseteq U => V = U
  <2>1. T \subseteq SUBSET S /\ T # {}
    OBVIOUS
  <2> HIDE DEF T
  <2> QED BY <2>1, MinimalSubset
<1>2. \A V \in SUBSET S : IsFiniteSet(V) /\ first(V) \in Int /\ second(V) \in Int
  BY FS_Subset, SumTyped
<1>3. U # {}
  <2>1. first({}) = 0 /\ second({}) = 0 /\ both({}) = 0
    BY SumOfNothing
  <2>2. both({}) = a * first({}) + b * second({})
    <3> HIDE DEF first, second, both
    <3> QED BY <2>1
  <2> QED BY <2>2, <1>1
<1> DEFINE p == Some(U)
           r == U \ {p}
<1>4. p \in S /\ r \in SUBSET S /\ r \notin T
  BY <1>1, <1>3, SomeIsIn
<1>5. both(r) = a * first(r) + b * second(r)
  BY <1>4
<1>6. /\ first(U) = f[p] + first(r) /\ second(U) = g[p] + second(r)
      /\ both(U) = h[p] + both(r)
  BY <1>2, <1>3, SumUnfolds
<1>7. /\ f[p] \in Int /\ g[p] \in Int /\ first(r) \in Int /\ second(r) \in Int
      /\ h[p] = a * f[p] + b * g[p]
  BY <1>2, <1>4 DEF Multiples
<1>8. both(U) = a * first(U) + b * second(U)
  <2> HIDE DEF first, second, both, p, r
  <2>1. /\ a * (f[p] + first(r)) = a * f[p] + a * first(r)
        /\ b * (g[p] + second(r)) = b * g[p] + b * second(r)
    BY <1>7
  <2> QED BY <2>1, <1>5, <1>6, <1>7
<1> QED BY <1>1, <1>8

(* A sum whose function changes in two places changes by as much. *)
LEMMA SumChangedTwice ==
  ASSUME NEW S, IsFiniteSet(S), NEW f, NEW g, \A x \in S : f[x] \in Int,
         \A x \in S : g[x] \in Int, NEW i \in S, NEW j \in S, i # j,
         \A x \in S : x = i \/ x = j \/ f[x] = g[x]
  PROVE  SumFunctionOnSet(g, S) =
           SumFunctionOnSet(f, S) + (g[i] - f[i]) + (g[j] - f[j])
<1> DEFINE rest == (S \ {i}) \ {j}
<1>1. /\ IsFiniteSet(S \ {i}) /\ IsFiniteSet(rest) /\ j \in S \ {i}
  BY FS_Subset
<1>2. ASSUME NEW h, \A x \in S : h[x] \in Int
      PROVE  /\ SumFunctionOnSet(h, S) = h[i] + (h[j] + SumFunctionOnSet(h, rest))
             /\ SumFunctionOnSet(h, rest) \in Int
  <2>1. SumFunctionOnSet(h, S) = h[i] + SumFunctionOnSet(h, S \ {i})
    BY <1>2, SumTakeOut
  <2>2. SumFunctionOnSet(h, S \ {i}) = h[j] + SumFunctionOnSet(h, rest)
    BY <1>1, <1>2, SumTakeOut
  <2>3. SumFunctionOnSet(h, rest) \in Int
    BY <1>1, <1>2, SumTyped
  <2> QED BY <2>1, <2>2, <2>3
<1>3. SumFunctionOnSet(f, rest) = SumFunctionOnSet(g, rest)
  BY <1>1, SumSameValues
<1> HIDE DEF rest
<1> QED BY <1>2, <1>3

-----------------------------------------------------------------------------
(* Taking a quantity out of places in a row, each with its capacity: in order, when a place
   is used only after the ones before it are used up. *)
Fits(capacity, split) == \A i \in DOMAIN capacity : split[i] <= capacity[i]

InOrder(capacity, split) ==
  \A i, j \in DOMAIN capacity : i < j => split[i] = capacity[i] \/ split[j] = 0

(* There is one way to take a quantity in order. *)
LEMMA OneWayInOrder ==
  ASSUME NEW S, Positions(S), IsFiniteSet(S), NEW capacity \in [S -> Nat],
         NEW f \in [S -> Nat], NEW g \in [S -> Nat],
         Fits(capacity, f), Fits(capacity, g), InOrder(capacity, f), InOrder(capacity, g),
         SumFunctionOnSet(f, S) = SumFunctionOnSet(g, S)
  PROVE  f = g
<1> SUFFICES ASSUME f # g PROVE FALSE
  OBVIOUS
<1>1. f \in [S -> Int] /\ g \in [S -> Int]
  OBVIOUS
<1>2. PICK x, y \in S : f[x] < g[x] /\ g[y] < f[y]
  BY <1>1, SameSumCrosses
<1>3. f[x] < capacity[x] /\ g[x] # 0 /\ g[y] < capacity[y] /\ f[y] # 0
  <2>1. /\ f[x] \in Nat /\ g[x] \in Nat /\ f[y] \in Nat /\ g[y] \in Nat
        /\ capacity[x] \in Nat /\ capacity[y] \in Nat
    OBVIOUS
  <2>2. g[x] <= capacity[x] /\ f[y] <= capacity[y]
    BY DEF Fits
  <2> QED BY <1>2, <2>1, <2>2
<1>4. x < y \/ y < x
  <2>1. x \in Nat /\ y \in Nat /\ f[x] \in Nat /\ g[x] \in Nat
    BY DEF Positions
  <2>2. x # y
    BY <1>2, <2>1
  <2> QED BY <2>1, <2>2
<1>5. f[x] # capacity[x] /\ g[y] # capacity[y]
  BY <1>3
<1> QED BY <1>3, <1>4, <1>5 DEF InOrder

(* One unit moved from a place to another. *)
Moved(split, i, j) ==
  [k \in DOMAIN split |-> IF k = i THEN split[k] + 1 ELSE IF k = j THEN split[k] - 1 ELSE split[k]]

(* What a split costs. *)
Paid(cost, split, S) == SumFunctionOnSet([k \in S |-> cost[k][split[k]]], S)

(* What a move does to the sum of what the places yield. *)
LEMMA MoveChangesSum ==
  ASSUME NEW S, IsFiniteSet(S), NEW h \in [S -> Nat], NEW i \in S, NEW j \in S, i # j, h[j] # 0,
         NEW w \in [S -> [Nat -> Int]]
  PROVE  Paid(w, Moved(h, i, j), S) =
           Paid(w, h, S) + (w[i][h[i] + 1] - w[i][h[i]]) + (w[j][h[j] - 1] - w[j][h[j]])
<1> DEFINE m == Moved(h, i, j)
           before == [k \in S |-> w[k][h[k]]]
           after == [k \in S |-> w[k][m[k]]]
<1>1. \A k \in S : h[k] \in Nat
  OBVIOUS
<1>2. h[j] - 1 \in Nat /\ h[i] + 1 \in Nat
  BY <1>1
<1>3. /\ m = [k \in S |-> IF k = i THEN h[k] + 1 ELSE IF k = j THEN h[k] - 1 ELSE h[k]]
  BY DEF Moved
<1>4. /\ \A k \in S : m[k] \in Nat
      /\ m[i] = h[i] + 1 /\ m[j] = h[j] - 1 /\ \A k \in S : k = i \/ k = j \/ h[k] = m[k]
  BY <1>1, <1>2, <1>3
<1>6. /\ \A k \in S : before[k] \in Int
      /\ \A k \in S : after[k] \in Int
      /\ \A k \in S : k = i \/ k = j \/ before[k] = after[k]
      /\ before[i] = w[i][h[i]] /\ before[j] = w[j][h[j]]
      /\ after[i] = w[i][h[i] + 1] /\ after[j] = w[j][h[j] - 1]
  BY <1>1, <1>4
<1> HIDE DEF before, after
<1>7. SumFunctionOnSet(after, S) =
        SumFunctionOnSet(before, S) + (after[i] - before[i]) + (after[j] - before[j])
  BY <1>6, SumChangedTwice
<1>8. Paid(w, m, S) = SumFunctionOnSet(after, S) /\ Paid(w, h, S) = SumFunctionOnSet(before, S)
  BY DEF before, after, Paid
<1> QED BY <1>6, <1>7, <1>8 DEF m

(* A move to a place that is not used up leaves a split that fits. *)
LEMMA MoveFits ==
  ASSUME NEW S, NEW capacity \in [S -> Nat], NEW h \in [S -> Nat], Fits(capacity, h),
         NEW i \in S, NEW j \in S, i # j, h[i] # capacity[i], h[j] # 0
  PROVE  Moved(h, i, j) \in [S -> Nat] /\ Fits(capacity, Moved(h, i, j))
<1> DEFINE m == Moved(h, i, j)
<1>1. \A k \in S : h[k] \in Nat /\ capacity[k] \in Nat /\ h[k] <= capacity[k]
  BY DEF Fits
<1>2. h[i] + 1 <= capacity[i] /\ h[j] - 1 \in Nat /\ h[j] - 1 <= capacity[j]
  BY <1>1
<1>3. m = [k \in S |-> IF k = i THEN h[k] + 1 ELSE IF k = j THEN h[k] - 1 ELSE h[k]]
  BY DEF Moved
<1>4. \A k \in S : m[k] \in Nat /\ m[k] <= capacity[k]
  BY <1>1, <1>2, <1>3
<1> QED BY <1>3, <1>4 DEF Fits

(* A unit more at an earlier place never costs more than one at a later place. *)
EarlierIsNoDearer(cost) ==
  \A i, j \in DOMAIN cost : i < j =>
    \A a, b \in Nat : cost[i][a + 1] + cost[j][b] <= cost[i][a] + cost[j][b + 1]

(* A move keeps the quantity. *)
LEMMA MoveKeepsSum ==
  ASSUME NEW S, IsFiniteSet(S), NEW h \in [S -> Nat], NEW i \in S, NEW j \in S, i # j, h[j] # 0
  PROVE  SumFunctionOnSet(Moved(h, i, j), S) = SumFunctionOnSet(h, S)
<1> DEFINE m == Moved(h, i, j)
<1>1. \A k \in S : h[k] \in Nat
  OBVIOUS
<1>2. /\ \A k \in S : m[k] \in Int
      /\ m[i] = h[i] + 1 /\ m[j] = h[j] - 1 /\ \A k \in S : k = i \/ k = j \/ h[k] = m[k]
  BY <1>1 DEF Moved
<1>3. \A k \in S : h[k] \in Int
  BY <1>1
<1> HIDE DEF m
<1>4. SumFunctionOnSet(m, S) = SumFunctionOnSet(h, S) + (m[i] - h[i]) + (m[j] - h[j])
  BY <1>2, <1>3, SumChangedTwice
<1>5. SumFunctionOnSet(h, S) \in Int
  BY <1>3, SumTyped
<1>6. h[i] \in Int /\ h[j] \in Int
  BY <1>1
<1>7. SumFunctionOnSet(m, S) = SumFunctionOnSet(h, S)
  BY <1>2, <1>4, <1>5, <1>6
<1> QED BY <1>7 DEF m

(* The places, each as often as it is used. *)
Weight(split, S) == SumFunctionOnSet([k \in S |-> k * split[k]], S)

(* The weight is a natural number. *)
LEMMA WeightTyped ==
  ASSUME NEW S, Positions(S), IsFiniteSet(S), NEW h \in [S -> Nat]
  PROVE  Weight(h, S) \in Nat
<1> DEFINE w == [k \in S |-> k * h[k]]
<1>1. \A k \in S : k \in Nat /\ h[k] \in Nat
  BY DEF Positions
<1>2. \A a, b \in Nat : a * b \in Nat
  OBVIOUS
<1>3. \A k \in S : w[k] \in Nat
  BY <1>1, <1>2
<1> HIDE DEF w
<1>4. SumFunctionOnSet(w, S) \in Nat
  BY <1>3, SumTyped
<1> QED BY <1>4 DEF w, Weight

(* A move to an earlier place takes weight off. *)
LEMMA MoveIsLighter ==
  ASSUME NEW S, Positions(S), IsFiniteSet(S), NEW h \in [S -> Nat],
         NEW i \in S, NEW j \in S, i < j, h[j] # 0
  PROVE  Weight(Moved(h, i, j), S) < Weight(h, S)
<1> DEFINE m == Moved(h, i, j)
           weight == [k \in S |-> [q \in Nat |-> k * q]]
<1>1. i \in Nat /\ j \in Nat /\ h[i] \in Nat /\ h[j] \in Nat
  BY DEF Positions
<1>2. i # j /\ h[j] - 1 \in Nat /\ h[i] + 1 \in Nat
  BY <1>1
<1>3. weight \in [S -> [Nat -> Int]]
  <2>1. \A k \in S, q \in Nat : k * q \in Int
    BY DEF Positions
  <2> QED BY <2>1
<1>4. /\ weight[i][h[i] + 1] = i * (h[i] + 1) /\ weight[i][h[i]] = i * h[i]
      /\ weight[j][h[j] - 1] = j * (h[j] - 1) /\ weight[j][h[j]] = j * h[j]
  BY <1>1, <1>2
<1>5. i * (h[i] + 1) - i * h[i] = i /\ j * (h[j] - 1) - j * h[j] = 0 - j
  BY <1>1
<1>6. m \in [S -> Nat]
  <2>1. \A k \in S : h[k] \in Nat
    OBVIOUS
  <2>2. \A k \in S : m[k] \in Nat
    BY <1>2, <2>1 DEF Moved
  <2> QED BY <2>2 DEF Moved
<1> HIDE DEF m, weight
<1>7. Paid(weight, m, S) = Paid(weight, h, S)
        + (weight[i][h[i] + 1] - weight[i][h[i]]) + (weight[j][h[j] - 1] - weight[j][h[j]])
  BY <1>2, <1>3, MoveChangesSum DEF m
<1>8. ASSUME NEW split \in [S -> Nat] PROVE Weight(split, S) = Paid(weight, split, S)
  <2>1. [k \in S |-> weight[k][split[k]]] = [k \in S |-> k * split[k]]
    BY DEF weight
  <2> QED BY <2>1 DEF Paid, Weight
<1>9. Weight(h, S) \in Nat
  BY WeightTyped
<1>10. Weight(m, S) = Weight(h, S) + i + (0 - j)
  BY <1>4, <1>5, <1>6, <1>7, <1>8, <1>9
<1>11. Weight(m, S) < Weight(h, S)
  BY <1>1, <1>9, <1>10
<1> QED BY <1>11 DEF m

(* A cost is a number. *)
LEMMA PaidTyped ==
  ASSUME NEW S, IsFiniteSet(S), NEW cost \in [S -> [Nat -> Int]], NEW h \in [S -> Nat]
  PROVE  Paid(cost, h, S) \in Int
<1> DEFINE paid == [k \in S |-> cost[k][h[k]]]
<1>1. \A k \in S : paid[k] \in Int
  OBVIOUS
<1> HIDE DEF paid
<1>2. SumFunctionOnSet(paid, S) \in Int
  BY <1>1, SumTyped
<1> QED BY <1>2 DEF Paid, paid

(* A move to an earlier place costs nothing more. *)
LEMMA MoveIsNoDearer ==
  ASSUME NEW S, Positions(S), IsFiniteSet(S), NEW cost \in [S -> [Nat -> Int]],
         EarlierIsNoDearer(cost),
         NEW h \in [S -> Nat], NEW i \in S, NEW j \in S, i < j, h[j] # 0
  PROVE  Paid(cost, Moved(h, i, j), S) <= Paid(cost, h, S)
<1>1. i # j /\ h[i] \in Nat /\ h[i] + 1 \in Nat /\ h[j] - 1 \in Nat /\ (h[j] - 1) + 1 = h[j]
  <2>1. i \in Nat /\ j \in Nat /\ h[i] \in Nat /\ h[j] \in Nat
    BY DEF Positions
  <2> QED BY <2>1
<1>2. cost[i][h[i] + 1] + cost[j][h[j] - 1] <= cost[i][h[i]] + cost[j][h[j]]
  BY <1>1 DEF EarlierIsNoDearer
<1>3. /\ cost[i][h[i] + 1] \in Int /\ cost[i][h[i]] \in Int
      /\ cost[j][h[j] - 1] \in Int /\ cost[j][h[j]] \in Int
  BY <1>1
<1>4. Paid(cost, Moved(h, i, j), S) = Paid(cost, h, S)
        + (cost[i][h[i] + 1] - cost[i][h[i]]) + (cost[j][h[j] - 1] - cost[j][h[j]])
  BY <1>1, MoveChangesSum
<1>5. Paid(cost, h, S) \in Int
  BY PaidTyped
<1> QED BY <1>2, <1>3, <1>4, <1>5

(* When a unit never costs more at an earlier place than at a later one, taking in order is
   cheapest: a cheaper way that uses the places as early as it can would allow one more
   move to an earlier place. *)
LEMMA InOrderIsCheapest ==
  ASSUME NEW S, Positions(S), IsFiniteSet(S), NEW capacity \in [S -> Nat],
         NEW cost \in [S -> [Nat -> Int]], EarlierIsNoDearer(cost),
         NEW g \in [S -> Nat], Fits(capacity, g), InOrder(capacity, g),
         NEW f \in [S -> Nat], Fits(capacity, f),
         SumFunctionOnSet(f, S) = SumFunctionOnSet(g, S)
  PROVE  Paid(cost, g, S) <= Paid(cost, f, S)
<1> DEFINE total(h) == SumFunctionOnSet(h, S)
           Ways == {h \in [S -> Nat] : /\ Fits(capacity, h) /\ total(h) = total(g)
                                       /\ Paid(cost, h, S) < Paid(cost, g, S)}
<1>1. \A h \in [S -> Nat] : Paid(cost, h, S) \in Int /\ Weight(h, S) \in Nat
  BY PaidTyped, WeightTyped
<1> SUFFICES ASSUME f \in Ways PROVE FALSE
  BY <1>1
<1>2. PICK h \in Ways : \A other \in Ways : Weight(h, S) <= Weight(other, S)
  <2> DEFINE R == {Weight(way, S) : way \in Ways}
  <2>1. R \subseteq Nat /\ R # {}
    BY <1>1
  <2>2. PICK r \in R : \A m \in R : r <= m
    <3> HIDE DEF R
    <3> QED BY <2>1, LeastNumber
  <2> HIDE DEF Ways
  <2> QED BY <2>2
<1>3. h \in [S -> Nat] /\ Fits(capacity, h) /\ total(h) = total(g)
      /\ Paid(cost, h, S) < Paid(cost, g, S)
  OBVIOUS
<1>4. ~InOrder(capacity, h)
  <2> SUFFICES ASSUME InOrder(capacity, h) PROVE FALSE
    OBVIOUS
  <2>1. h = g
    BY <1>3, OneWayInOrder
  <2> HIDE DEF Ways
  <2> QED BY <1>1, <1>3, <2>1
<1>5. PICK i, j \in S : i < j /\ h[i] # capacity[i] /\ h[j] # 0
  BY <1>4 DEF InOrder
<1> DEFINE m == Moved(h, i, j)
<1>6. i # j
  <2>1. i \in Nat /\ j \in Nat
    BY DEF Positions
  <2> QED BY <1>5, <2>1
<1>7. m \in [S -> Nat] /\ Fits(capacity, m)
  BY <1>3, <1>5, <1>6, MoveFits
<1>8. total(m) = total(h)
  <2> HIDE DEF Ways
  <2> QED BY <1>3, <1>5, <1>6, MoveKeepsSum
<1>9. Paid(cost, m, S) <= Paid(cost, h, S)
  BY <1>3, <1>5, MoveIsNoDearer
<1>10. Weight(m, S) < Weight(h, S)
  BY <1>3, <1>5, MoveIsLighter
<1> HIDE DEF m
<1>11. /\ Paid(cost, h, S) \in Int /\ Paid(cost, m, S) \in Int /\ Paid(cost, g, S) \in Int
       /\ Weight(h, S) \in Nat /\ Weight(m, S) \in Nat
  BY <1>1, <1>3, <1>7
<1>12. Paid(cost, m, S) < Paid(cost, g, S) /\ total(m) = total(g)
  BY <1>3, <1>8, <1>9, <1>11
<1>13. m \in Ways
  BY <1>7, <1>12
<1> HIDE DEF Ways
<1>14. Weight(h, S) <= Weight(m, S)
  BY <1>2, <1>13
<1> QED BY <1>10, <1>11, <1>14

-----------------------------------------------------------------------------
(* Taking a quantity from some of the places, in order: what is left to take after them, and
   what each of them gives. *)
Smaller(a, b) == IF a < b THEN a ELSE b

Left(capacity, quantity, places) ==
  LET held == SumFunctionOnSet(capacity, places)
  IN IF held < quantity THEN quantity - held ELSE 0

Taken(capacity, quantity, places) ==
  [i \in places |-> Smaller(capacity[i], Left(capacity, quantity, {k \in places : k < i}))]

(* What is left and what is taken are natural numbers. *)
LEMMA TakenTyped ==
  ASSUME NEW S, IsFiniteSet(S), NEW capacity \in [S -> Nat], NEW quantity \in Nat,
         NEW s \in SUBSET S
  PROVE  /\ Left(capacity, quantity, s) \in Nat /\ SumFunctionOnSet(capacity, s) \in Nat
         /\ Taken(capacity, quantity, s) \in [s -> Nat]
<1>1. ASSUME NEW r \in SUBSET S
      PROVE  /\ Left(capacity, quantity, r) \in Nat
             /\ SumFunctionOnSet(capacity, r) \in Nat
  <2>1. IsFiniteSet(r) /\ \A x \in r : capacity[x] \in Nat
    BY FS_Subset
  <2>2. SumFunctionOnSet(capacity, r) \in Nat
    BY <2>1, SumTyped
  <2> QED BY <2>2 DEF Left
<1>2. ASSUME NEW i \in s
      PROVE  Smaller(capacity[i], Left(capacity, quantity, {k \in s : k < i})) \in Nat
  <2>1. {k \in s : k < i} \in SUBSET S
    OBVIOUS
  <2> QED BY <1>1, <2>1 DEF Smaller
<1> QED BY <1>1, <1>2 DEF Taken

(* All positions but the last. *)
Others(s) == s \ {Max(s)}

(* The last of the places gives what the others leave. *)
LEMMA TakenAtLast ==
  ASSUME NEW S, Positions(S), IsFiniteSet(S), NEW capacity \in [S -> Nat],
         NEW quantity \in Nat, NEW s \in SUBSET S, s # {}
  PROVE  /\ Max(s) \in s /\ Others(s) = s \ {Max(s)} /\ Others(s) \in SUBSET S
         /\ Taken(capacity, quantity, s)[Max(s)]
              = Smaller(capacity[Max(s)], Left(capacity, quantity, Others(s)))
         /\ \A i \in Others(s) : Taken(capacity, quantity, s)[i]
                                       = Taken(capacity, quantity, Others(s))[i]
         /\ Left(capacity, quantity, s) = Left(capacity, quantity, Others(s))
                                             - Taken(capacity, quantity, s)[Max(s)]
<1> DEFINE p == Max(s)
           r == s \ {p}
<1>1. IsFiniteSet(s) /\ Positions(s)
  BY FS_Subset DEF Positions
<1>2. p \in s /\ \A x \in s : x <= p
  BY <1>1, MaxIsGreatest
<1>3. r \in SUBSET S /\ \A x \in s : x \in Int
  <2>1. \A x \in s : x \in Int
    BY <1>1 DEF Positions
  <2> QED BY <2>1
<1> HIDE DEF p
<1>4. {k \in s : k < p} = r
  <2>1. \A x \in s : x < p <=> x # p
    BY <1>2, <1>3
  <2> QED BY <2>1
<1>5. Taken(capacity, quantity, s)[p] = Smaller(capacity[p], Left(capacity, quantity, r))
  BY <1>2, <1>4 DEF Taken
<1>6. ASSUME NEW i \in r
      PROVE  Taken(capacity, quantity, s)[i] = Taken(capacity, quantity, r)[i]
  <2>1. i \in Int /\ p \in Int /\ i <= p
    BY <1>2, <1>3
  <2>2. {k \in s : k < i} = {k \in r : k < i}
    BY <2>1
  <2> QED BY <2>2 DEF Taken
<1>7. SumFunctionOnSet(capacity, s) = capacity[p] + SumFunctionOnSet(capacity, r)
  <2>1. \A x \in s : capacity[x] \in Int
    OBVIOUS
  <2>2. \A x \in s :
          SumFunctionOnSet(capacity, s) = capacity[x] + SumFunctionOnSet(capacity, s \ {x})
    BY <1>1, <2>1, SumTakeOut
  <2> QED BY <1>2, <2>2
<1>8. /\ SumFunctionOnSet(capacity, r) \in Nat /\ SumFunctionOnSet(capacity, s) \in Nat
      /\ capacity[p] \in Nat
  BY <1>2, <1>3, TakenTyped
<1>9. Left(capacity, quantity, s)
        = Left(capacity, quantity, r) - Smaller(capacity[p], Left(capacity, quantity, r))
  BY <1>7, <1>8 DEF Left, Smaller
<1>10. r = Others(s) /\ r = s \ {Max(s)}
  BY DEF Others, p
<1> HIDE DEF r
<1>11. /\ p \in s /\ r \in SUBSET S
       /\ Taken(capacity, quantity, s)[p] = Smaller(capacity[p], Left(capacity, quantity, r))
       /\ \A i \in r : Taken(capacity, quantity, s)[i] = Taken(capacity, quantity, r)[i]
       /\ Left(capacity, quantity, s) = Left(capacity, quantity, r)
                                           - Taken(capacity, quantity, s)[p]
  BY <1>2, <1>3, <1>5, <1>6, <1>9
<1>12. p = Max(s)
  BY DEF p
<1> QED BY <1>10, <1>11, <1>12, ZenonT(30)

(* What is paid unfolds at the last place. *)
LEMMA PaidAtLast ==
  ASSUME NEW S, Positions(S), IsFiniteSet(S), NEW capacity \in [S -> Nat],
         NEW quantity \in Nat, NEW cost \in [S -> [Nat -> Int]], NEW s \in SUBSET S, s # {}
  PROVE  LET r == Others(s) IN
         /\ Paid(cost, Taken(capacity, quantity, s), s)
              = cost[Max(s)][Taken(capacity, quantity, s)[Max(s)]]
                  + Paid(cost, Taken(capacity, quantity, r), r)
         /\ Paid(cost, Taken(capacity, quantity, r), r) \in Int
<1> DEFINE p == Max(s)
           r == Others(s)
           t(u) == Taken(capacity, quantity, u)
           f(u) == [k \in u |-> cost[k][t(u)[k]]]
<1>1. p \in s /\ r = s \ {p} /\ r \in SUBSET S /\ \A i \in r : t(s)[i] = t(r)[i]
  BY TakenAtLast
<1>2. ASSUME NEW u \in SUBSET S
      PROVE  IsFiniteSet(u) /\ (\A k \in u : f(u)[k] \in Int)
             /\ SumFunctionOnSet(f(u), u) \in Int
  <2>1. t(u) \in [u -> Nat]
    BY TakenTyped
  <2> HIDE DEF t
  <2>2. \A k \in u : f(u)[k] \in Int
    BY <2>1
  <2>3. IsFiniteSet(u)
    BY FS_Subset
  <2> HIDE DEF f
  <2> QED BY <2>2, <2>3, SumTyped
<1>3. \A k \in r : f(s)[k] = f(r)[k]
  BY <1>1
<1>4. f(s)[p] = cost[p][t(s)[p]]
  BY <1>1
<1>5. /\ Paid(cost, t(s), s) = SumFunctionOnSet(f(s), s)
      /\ Paid(cost, t(r), r) = SumFunctionOnSet(f(r), r)
  BY DEF Paid
<1> HIDE DEF t, f, p
<1>6. SumFunctionOnSet(f(s), s) = f(s)[p] + SumFunctionOnSet(f(s), r)
  <2>1. IsFiniteSet(s) /\ \A k \in s : f(s)[k] \in Int
    BY <1>2
  <2>2. \A x \in s : SumFunctionOnSet(f(s), s) = f(s)[x] + SumFunctionOnSet(f(s), s \ {x})
    BY <2>1, SumTakeOut, ZenonT(20)
  <2> QED BY <1>1, <2>2
<1>7. SumFunctionOnSet(f(s), r) = SumFunctionOnSet(f(r), r)
  <2>1. IsFiniteSet(r)
    BY <1>1, <1>2
  <2> QED BY <1>3, <2>1, SumSameValues, SMTT(20)
<1>8. SumFunctionOnSet(f(r), r) \in Int
  BY <1>1, <1>2
<1>9. /\ Paid(cost, t(s), s) = cost[p][t(s)[p]] + Paid(cost, t(r), r)
      /\ Paid(cost, t(r), r) \in Int
  BY <1>4, <1>5, <1>6, <1>7, <1>8
<1> QED BY <1>9 DEF t, p

(* Nothing is paid at no place. *)
LEMMA NothingTaken ==
  ASSUME NEW capacity, NEW quantity \in Nat, NEW cost
  PROVE  /\ Left(capacity, quantity, {}) = quantity
         /\ Paid(cost, Taken(capacity, quantity, {}), {}) = 0
<1>1. SumFunctionOnSet(capacity, {}) = 0
  BY SumOfNothing
<1>2. SumFunctionOnSet([k \in {} |-> cost[k][Taken(capacity, quantity, {})[k]]], {}) = 0
  BY SumOfNothing
<1> QED BY <1>1, <1>2 DEF Left, Paid

(* What is taken is what is not left. *)
LEMMA TakenSum ==
  ASSUME NEW S, Positions(S), IsFiniteSet(S), NEW capacity \in [S -> Nat],
         NEW quantity \in Nat
  PROVE  SumFunctionOnSet(Taken(capacity, quantity, S), S) = quantity - Left(capacity, quantity, S)
<1> DEFINE sum(u) == SumFunctionOnSet(Taken(capacity, quantity, u), u)
           T == {u \in SUBSET S : sum(u) # quantity - Left(capacity, quantity, u)}
<1> SUFFICES ASSUME S \in T PROVE FALSE
  OBVIOUS
<1>1. PICK u \in T : \A v \in T : v \subseteq u => v = u
  <2>1. T \subseteq SUBSET S /\ T # {}
    OBVIOUS
  <2> HIDE DEF T
  <2> QED BY <2>1, MinimalSubset
<1>2. u \in SUBSET S /\ sum(u) # quantity - Left(capacity, quantity, u)
  OBVIOUS
<1>3. u # {}
  <2> SUFFICES ASSUME u = {} PROVE FALSE
    OBVIOUS
  <2>1. sum({}) = 0
    BY SumOfNothing
  <2>2. Left(capacity, quantity, {}) = quantity
    BY NothingTaken
  <2>3. sum({}) # quantity - quantity
    BY <1>2, <2>2
  <2> HIDE DEF sum, T
  <2> QED BY <2>1, <2>3
<1> DEFINE p == Max(u)
           r == Others(u)
           f == Taken(capacity, quantity, u)
           g == Taken(capacity, quantity, r)
<1>4. /\ p \in u /\ r = u \ {p} /\ r \in SUBSET S /\ \A i \in r : f[i] = g[i]
      /\ Left(capacity, quantity, u) = Left(capacity, quantity, r) - f[p]
  <2> HIDE DEF T
  <2> QED BY <1>2, <1>3, TakenAtLast
<1>5. sum(r) = quantity - Left(capacity, quantity, r)
  <2>1. r \notin T
    BY <1>1, <1>4
  <2> QED BY <1>4, <2>1
<1>6. /\ f \in [u -> Nat] /\ g \in [r -> Nat] /\ Left(capacity, quantity, r) \in Nat
      /\ IsFiniteSet(u)
  BY <1>2, <1>4, TakenTyped, FS_Subset
<1>7. IsFiniteSet(r)
  BY <1>4, FS_Subset
<1> HIDE DEF T, p
<1>8. sum(u) = f[p] + SumFunctionOnSet(f, r)
  <2> HIDE DEF f
  <2>1. \A x \in u : f[x] \in Int
    BY <1>6
  <2>2. SumFunctionOnSet(f, u) = f[p] + SumFunctionOnSet(f, r)
    BY <1>4, <1>6, <2>1, SumTakeOut
  <2> QED BY <2>2 DEF f
<1>9. SumFunctionOnSet(f, r) = sum(r)
  <2> HIDE DEF f, g
  <2>1. SumFunctionOnSet(f, r) = SumFunctionOnSet(g, r)
    BY <1>4, <1>7, SumSameValues
  <2> QED BY <2>1 DEF g
<1>10. f[p] \in Nat
  BY <1>4, <1>6
<1> HIDE DEF sum, f
<1>11. sum(u) = quantity - Left(capacity, quantity, u)
  BY <1>4, <1>5, <1>6, <1>8, <1>9, <1>10
<1> QED BY <1>2, <1>11

(* What is taken fits, and is taken in order. *)
LEMMA TakenInOrder ==
  ASSUME NEW S, Positions(S), IsFiniteSet(S), NEW capacity \in [S -> Nat],
         NEW quantity \in Nat
  PROVE  /\ Fits(capacity, Taken(capacity, quantity, S))
         /\ InOrder(capacity, Taken(capacity, quantity, S))
<1> DEFINE t == Taken(capacity, quantity, S)
           before(i) == {k \in S : k < i}
           held(u) == SumFunctionOnSet(capacity, u)
<1>1. ASSUME NEW i \in S
      PROVE  /\ t[i] = Smaller(capacity[i], Left(capacity, quantity, before(i)))
             /\ before(i) \in SUBSET S
             /\ capacity[i] \in Nat /\ held(before(i)) \in Nat
             /\ Left(capacity, quantity, before(i)) \in Nat
  <2>1. before(i) \in SUBSET S
    OBVIOUS
  <2>2. held(before(i)) \in Nat /\ Left(capacity, quantity, before(i)) \in Nat
    BY <2>1, TakenTyped
  <2> QED BY <2>1, <2>2 DEF Taken
<1>2. \A i \in S : t[i] <= capacity[i]
  <2> HIDE DEF t, before
  <2> QED BY <1>1 DEF Smaller
<1>3. ASSUME NEW i \in S, NEW j \in S, i < j, t[i] # capacity[i] PROVE t[j] = 0
  <2>1. /\ t[i] = Left(capacity, quantity, before(i))
        /\ Left(capacity, quantity, before(i)) < capacity[i]
    <3> HIDE DEF t, before
    <3> QED BY <1>1, <1>3 DEF Smaller
  <2> DEFINE b == before(i) \cup {i}
  <2>2. /\ b \in SUBSET S /\ b \ {i} = before(i) /\ i \in b /\ b \in SUBSET before(j)
        /\ before(j) \in SUBSET S
    <3>1. i \in Int /\ j \in Int /\ \A k \in S : k \in Int
      BY DEF Positions
    <3>2. \A k \in S : k < i => k < j
      BY <1>3, <3>1
    <3>3. ~(i < i)
      BY <3>1
    <3> QED BY <1>3, <3>2, <3>3
  <2>3. IsFiniteSet(b) /\ IsFiniteSet(before(j))
    <3> HIDE DEF b, before
    <3> QED BY <2>2, FS_Subset
  <2>4. held(b) <= held(before(j))
    <3>1. \A x \in before(j) : capacity[x] \in Nat
      OBVIOUS
    <3> HIDE DEF before, b
    <3> QED BY <2>2, <2>3, <3>1, SumOfSubset
  <2>5. held(b) = capacity[i] + held(before(i))
    <3>1. \A x \in b : capacity[x] \in Int
      BY <2>2
    <3> HIDE DEF before, b
    <3>2. held(b) = capacity[i] + held(b \ {i})
      BY <2>2, <2>3, <3>1, SumTakeOut
    <3> QED BY <2>2, <3>2
  <2>6. held(before(i)) \in Nat /\ capacity[i] \in Nat /\ held(before(j)) \in Nat
    BY <1>1
  <2> HIDE DEF t, before, b, held
  <2>7. quantity <= held(before(j))
    <3>1. quantity - held(before(i)) < capacity[i] \/ quantity <= held(before(i))
      BY <2>1, <2>6 DEF Left, held
    <3> QED BY <2>4, <2>5, <2>6, <3>1
  <2>8. Left(capacity, quantity, before(j)) = 0
    BY <2>6, <2>7 DEF Left, held
  <2> QED BY <1>1, <2>8 DEF Smaller
<1> HIDE DEF t
<1>4. Fits(capacity, t) /\ InOrder(capacity, t)
  BY <1>2, <1>3 DEF Fits, InOrder
<1> QED BY <1>4 DEF t
=============================================================================
