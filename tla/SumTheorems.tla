------------------------------ MODULE SumTheorems ------------------------------
(***************************************************************************)
(* What the proofs about coins, stakes and chips need to know of sums over *)
(* finite sets, and of the ledger of the economy, which is one.            *)
(* A sum is a recursive function on the subsets of its set; that the       *)
(* function exists, and what one element more does to its value, are       *)
(* proved by induction on the set, with the set of the subsets for which   *)
(* the claim holds in the place of a predicate.                            *)
(***************************************************************************)
EXTENDS Coins, FiniteSetTheorems, WellFoundedInduction, TLAPS

(* Induction on a finite set S: G, the subsets for which the claim holds,   *)
(* has every T whose subsets with one element less it has.                 *)
LEMMA SetInduction ==
  ASSUME NEW S, IsFiniteSet(S), NEW G,
         \A T \in SUBSET S : (\A x \in T : T \ {x} \in G) => T \in G
  PROVE  S \in G
<1>. DEFINE Bad == {T \in SUBSET S : T \notin G}
<1>. SUFFICES ASSUME Bad # {} PROVE FALSE
  OBVIOUS
<1>1. Bad \subseteq FiniteSubsetsOf(S)
  BY FS_Subset DEF FiniteSubsetsOf
<1>2. PICK T \in Bad : \A U \in Bad : ~ (<<U, T>> \in StrictSubsetOrdering(S))
  <2>. HIDE DEF Bad
  <2>. QED BY <1>1, FS_StrictSubsetOrderingWellFounded, WFMin
<1>3. ASSUME NEW x \in T PROVE T \ {x} \in G
  <2>1. T \in SUBSET S /\ T \ {x} \in SUBSET S /\ T \ {x} # T
    BY <1>2
  <2>2. <<T \ {x}, T>> \in StrictSubsetOrdering(S)
    BY <2>1 DEF StrictSubsetOrdering
  <2>. QED BY <1>2, <2>1, <2>2
<1>. QED BY <1>2, <1>3

(* The same from below: the empty set, and one element more.              *)
LEMMA SetInductionUp ==
  ASSUME NEW S, IsFiniteSet(S), NEW G, {} \in G,
         \A T \in SUBSET S : \A x \in S \ T : T \in G => T \cup {x} \in G
  PROVE  S \in G
<1>1. ASSUME NEW T \in SUBSET S, \A x \in T : T \ {x} \in G
      PROVE  T \in G
  <2>1. CASE T = {}
    BY <2>1
  <2>2. ASSUME NEW x \in T PROVE T \in G
    <3>1. T = (T \ {x}) \cup {x} /\ T \ {x} \in SUBSET S /\ x \in S \ (T \ {x})
      OBVIOUS
    <3>. QED BY <1>1, <3>1
  <2>. QED BY <2>1, <2>2
<1>. QED BY <1>1, SetInduction

-----------------------------------------------------------------------------
(* The definition, spelled out.                                            *)

Chosen(s) == CHOOSE x \in s : TRUE
Defines(g, f, D) == g = [s \in D |-> IF s = {} THEN 0 ELSE f[Chosen(s)] + g[s \ {Chosen(s)}]]
PartialSums(f, S) == CHOOSE g : Defines(g, f, SUBSET S)

LEMMA ChosenIsIn == ASSUME NEW s, s # {} PROVE Chosen(s) \in s
BY DEF Chosen

(* The sum of f over S is the last of its partial sums.                   *)
LEMMA SumIsPartialSum == ASSUME NEW f, NEW S PROVE SumFunctionOnSet(f, S) = PartialSums(f, S)[S]
BY DEF SumFunctionOnSet, FoldFunctionOnSet, MapThenFoldSet, PartialSums, Defines, Chosen

SmallSubsets(S, n) == {s \in SUBSET S : Cardinality(s) <= n}

LEMMA SmallSubsetsStep ==
  ASSUME NEW S, IsFiniteSet(S), NEW n \in Nat, NEW s \in SmallSubsets(S, n + 1), s # {}
  PROVE  s \ {Chosen(s)} \in SmallSubsets(S, n)
<1>1. s \in SUBSET S /\ IsFiniteSet(s) /\ Cardinality(s) \in Nat /\ Cardinality(s) <= n + 1
  BY FS_Subset, FS_CardinalityType DEF SmallSubsets
<1>2. Cardinality(s \ {Chosen(s)}) = Cardinality(s) - 1
  BY <1>1, ChosenIsIn, FS_RemoveElement
<1>. QED BY <1>1, <1>2 DEF SmallSubsets

(* The partial sums exist: those of subsets of n + 1 elements are defined  *)
(* by those of n elements.                                                *)
LEMMA PartialSumsExist ==
  ASSUME NEW f, NEW S, IsFiniteSet(S)
  PROVE  \E g : Defines(g, f, SUBSET S)
<1>. DEFINE Bad == {n \in Nat : ~ \E g : Defines(g, f, SmallSubsets(S, n))}
<1>1. Bad = {}
  <2>. SUFFICES ASSUME Bad # {} PROVE FALSE
    OBVIOUS
  <2>1. PICK m \in Bad : \A n \in Bad : ~ (<<n, m>> \in OpToRel(<, Nat))
    <3>. Bad \subseteq Nat
      OBVIOUS
    <3>. HIDE DEF Bad
    <3>. QED BY NatLessThanWellFounded, WFMin
  <2>2. \A n \in Bad : ~ (n < m)
    BY <2>1 DEF OpToRel
  <2>3. CASE m = 0
    <3>1. \A s \in SmallSubsets(S, 0) : s = {}
      BY FS_Subset, FS_CardinalityType, FS_EmptySet DEF SmallSubsets
    <3>2. Defines([s \in SmallSubsets(S, 0) |-> 0], f, SmallSubsets(S, 0))
      BY <3>1 DEF Defines
    <3>. QED BY <2>3, <3>2
  <2>4. CASE m # 0
    <3>1. m - 1 \in Nat /\ m - 1 < m /\ m = (m - 1) + 1
      BY <2>4
    <3>2. PICK g : Defines(g, f, SmallSubsets(S, m - 1))
      BY <2>2, <3>1
    <3>. DEFINE h == [s \in SmallSubsets(S, m) |-> IF s = {} THEN 0 ELSE f[Chosen(s)] + g[s \ {Chosen(s)}]]
    <3>3. ASSUME NEW s \in SmallSubsets(S, m), s # {}
          PROVE  h[s \ {Chosen(s)}] = g[s \ {Chosen(s)}]
      <4>. DEFINE t == s \ {Chosen(s)}
      <4>1. t \in SmallSubsets(S, m - 1)
        BY <3>1, <3>3, SmallSubsetsStep
      <4>2. t \in SmallSubsets(S, m)
        BY <3>1, <4>1, FS_Subset, FS_CardinalityType DEF SmallSubsets
      <4>3. h[t] = IF t = {} THEN 0 ELSE f[Chosen(t)] + g[t \ {Chosen(t)}]
        BY <4>2
      <4>4. g[t] = IF t = {} THEN 0 ELSE f[Chosen(t)] + g[t \ {Chosen(t)}]
        <5>. HIDE DEF t
        <5>. QED BY <3>2, <4>1 DEF Defines
      <4>. QED BY <4>3, <4>4
    <3>4. Defines(h, f, SmallSubsets(S, m))
      <4>. SUFFICES h = [s \in SmallSubsets(S, m) |->
                         IF s = {} THEN 0 ELSE f[Chosen(s)] + h[s \ {Chosen(s)}]]
        BY DEF Defines
      <4>1. \A s \in SmallSubsets(S, m) :
              h[s] = IF s = {} THEN 0 ELSE f[Chosen(s)] + h[s \ {Chosen(s)}]
        BY <3>3
      <4>. QED BY <4>1
    <3>. QED BY <3>4
  <2>. QED BY <2>3, <2>4
<1>2. Cardinality(S) \in Nat
  BY FS_CardinalityType
<1>3. SmallSubsets(S, Cardinality(S)) = SUBSET S
  BY FS_Subset DEF SmallSubsets
<1>4. \E g : Defines(g, f, SmallSubsets(S, Cardinality(S)))
  BY <1>1, <1>2
<1>. QED BY <1>3, <1>4

LEMMA PartialSumsValue ==
  ASSUME NEW f, NEW S, IsFiniteSet(S), NEW T \in SUBSET S
  PROVE  PartialSums(f, S)[T] = IF T = {} THEN 0 ELSE f[Chosen(T)] + PartialSums(f, S)[T \ {Chosen(T)}]
<1>1. Defines(PartialSums(f, S), f, SUBSET S)
  BY PartialSumsExist DEF PartialSums
<1>. QED BY <1>1 DEF Defines

(* They depend on nothing but the values on the set they sum.             *)
LEMMA PartialSumsSame ==
  ASSUME NEW f, NEW g, NEW S, NEW U, IsFiniteSet(S), IsFiniteSet(U), NEW T \in SUBSET (S \cap U),
         \A x \in T : f[x] = g[x]
  PROVE  PartialSums(f, S)[T] = PartialSums(g, U)[T]
<1>. DEFINE G == {R \in SUBSET T : PartialSums(f, S)[R] = PartialSums(g, U)[R]}
<1>1. IsFiniteSet(T)
  BY FS_Subset
<1>2. ASSUME NEW R \in SUBSET T, \A x \in R : R \ {x} \in G
      PROVE  R \in G
  <2>1. CASE R = {}
    BY <2>1, PartialSumsValue
  <2>2. CASE R # {}
    <3>1. Chosen(R) \in R /\ PartialSums(f, S)[R \ {Chosen(R)}] = PartialSums(g, U)[R \ {Chosen(R)}]
      BY <1>2, <2>2, ChosenIsIn
    <3>2. f[Chosen(R)] = g[Chosen(R)]
      BY <3>1
    <3>. QED BY <2>2, <3>1, <3>2, PartialSumsValue
  <2>. QED BY <2>1, <2>2
<1>3. T \in G
  <2>. HIDE DEF G
  <2>. QED BY <1>1, <1>2, SetInduction
<1>. QED BY <1>3

(* Two functions with the same values on S have the same sum over it.     *)
LEMMA SumSame ==
  ASSUME NEW f, NEW g, NEW S, IsFiniteSet(S), \A x \in S : f[x] = g[x]
  PROVE  SumFunctionOnSet(f, S) = SumFunctionOnSet(g, S)
BY PartialSumsSame, SumIsPartialSum

(* The sum over the empty set.                                            *)
LEMMA SumEmpty ==
  ASSUME NEW f PROVE SumFunctionOnSet(f, {}) = 0
BY PartialSumsValue, SumIsPartialSum, FS_EmptySet

(* One step of the definition.                                            *)
LEMMA SumChosen ==
  ASSUME NEW f, NEW S, IsFiniteSet(S), S # {}
  PROVE  /\ Chosen(S) \in S
         /\ SumFunctionOnSet(f, S) = f[Chosen(S)] + SumFunctionOnSet(f, S \ {Chosen(S)})
<1>1. IsFiniteSet(S \ {Chosen(S)})
  BY FS_RemoveElement
<1>2. PartialSums(f, S)[S \ {Chosen(S)}] = PartialSums(f, S \ {Chosen(S)})[S \ {Chosen(S)}]
  BY <1>1, PartialSumsSame
<1>3. PartialSums(f, S)[S] = f[Chosen(S)] + PartialSums(f, S)[S \ {Chosen(S)}]
  BY PartialSumsValue
<1>. QED BY <1>2, <1>3, SumIsPartialSum, ChosenIsIn

(* A sum of integers is an integer.                                       *)
LEMMA SumType ==
  ASSUME NEW f, NEW S, IsFiniteSet(S), \A x \in S : f[x] \in Int
  PROVE  SumFunctionOnSet(f, S) \in Int
<1>. DEFINE G == {R \in SUBSET S : SumFunctionOnSet(f, R) \in Int}
<1>1. ASSUME NEW R \in SUBSET S, \A x \in R : R \ {x} \in G
      PROVE  R \in G
  <2>1. CASE R = {}
    BY <2>1, SumEmpty
  <2>2. CASE R # {}
    <3>1. IsFiniteSet(R)
      BY FS_Subset
    <3>2. Chosen(R) \in R /\ SumFunctionOnSet(f, R) = f[Chosen(R)] + SumFunctionOnSet(f, R \ {Chosen(R)})
      BY <2>2, <3>1, SumChosen
    <3>3. SumFunctionOnSet(f, R \ {Chosen(R)}) \in Int /\ f[Chosen(R)] \in Int
      BY <1>1, <3>2
    <3>. QED BY <3>2, <3>3
  <2>. QED BY <2>1, <2>2
<1>2. S \in G
  <2>. HIDE DEF G
  <2>. QED BY <1>1, SetInduction
<1>. QED BY <1>2

(* Any element may be taken out first.                                    *)
LEMMA SumRemove ==
  ASSUME NEW f, NEW S, IsFiniteSet(S), \A x \in S : f[x] \in Int, NEW x \in S
  PROVE  SumFunctionOnSet(f, S) = f[x] + SumFunctionOnSet(f, S \ {x})
<1>. DEFINE Sum(R) == SumFunctionOnSet(f, R)
            G == {R \in SUBSET S : \A y \in R : Sum(R) = f[y] + Sum(R \ {y})}
<1>. HIDE DEF Sum
<1>1. ASSUME NEW R \in SUBSET S, \A y \in R : R \ {y} \in G
      PROVE  R \in G
  <2>. SUFFICES ASSUME NEW y \in R PROVE Sum(R) = f[y] + Sum(R \ {y})
    OBVIOUS
  <2>1. IsFiniteSet(R)
    BY FS_Subset
  <2>. DEFINE c == Chosen(R)
  <2>2. c \in R /\ Sum(R) = f[c] + Sum(R \ {c})
    BY <2>1, SumChosen DEF Sum
  <2>. HIDE DEF c
  <2>3. CASE y = c
    BY <2>2, <2>3
  <2>4. CASE y # c
    <3>1. Sum(R \ {c}) = f[y] + Sum((R \ {c}) \ {y})
      BY <1>1, <2>2, <2>4
    <3>2. Sum(R \ {y}) = f[c] + Sum((R \ {y}) \ {c})
      BY <1>1, <2>2, <2>4
    <3>3. (R \ {c}) \ {y} = (R \ {y}) \ {c}
      OBVIOUS
    <3>4. Sum((R \ {y}) \ {c}) \in Int
      BY FS_Subset, SumType DEF Sum
    <3>5. f[y] \in Int /\ f[c] \in Int
      BY <2>2
    <3>. DEFINE rest == Sum((R \ {y}) \ {c})
    <3>6. Sum(R) = f[c] + (f[y] + rest) /\ Sum(R \ {y}) = f[c] + rest /\ rest \in Int
      BY <2>2, <3>1, <3>2, <3>3, <3>4
    <3>. HIDE DEF rest
    <3>. QED BY <3>5, <3>6
  <2>. QED BY <2>3, <2>4
<1>2. S \in G
  <2>. HIDE DEF G
  <2>. QED BY <1>1, SetInduction
<1>. QED BY <1>2 DEF Sum

(* One element more.                                                      *)
LEMMA SumAdd ==
  ASSUME NEW f, NEW S, IsFiniteSet(S), NEW x, x \notin S, \A y \in S \cup {x} : f[y] \in Int
  PROVE  SumFunctionOnSet(f, S \cup {x}) = f[x] + SumFunctionOnSet(f, S)
<1>1. IsFiniteSet(S \cup {x}) /\ x \in S \cup {x} /\ (S \cup {x}) \ {x} = S
  BY FS_AddElement
<1>. QED BY <1>1, SumRemove

(* The sum over two sets without a common element.                        *)
LEMMA SumUnion ==
  ASSUME NEW f, NEW S, NEW T, IsFiniteSet(S), IsFiniteSet(T), S \cap T = {},
         \A y \in S \cup T : f[y] \in Int
  PROVE  SumFunctionOnSet(f, S \cup T) = SumFunctionOnSet(f, S) + SumFunctionOnSet(f, T)
<1>. DEFINE Sum(R) == SumFunctionOnSet(f, R)
            G == {R \in SUBSET T : Sum(S \cup R) = Sum(S) + Sum(R)}
<1>0. IsFiniteSet(S \cup T)
  BY FS_Union
<1>1. ASSUME NEW R \in SUBSET (S \cup T)
      PROVE  IsFiniteSet(R) /\ Sum(R) \in Int
  BY <1>0, <1>1, FS_Subset, SumType
<1>2. {} \in G
  BY <1>1, SumEmpty
<1>3. ASSUME NEW R \in SUBSET T, NEW x \in T \ R, R \in G
      PROVE  R \cup {x} \in G
  <2>1. IsFiniteSet(S \cup R) /\ IsFiniteSet(R) /\ x \notin S \cup R
    BY <1>1, <1>3
  <2>2. Sum((S \cup R) \cup {x}) = f[x] + Sum(S \cup R)
    BY <2>1, SumAdd
  <2>3. Sum(R \cup {x}) = f[x] + Sum(R)
    BY <2>1, SumAdd
  <2>4. (S \cup R) \cup {x} = S \cup (R \cup {x})
    OBVIOUS
  <2>5. Sum(S) \in Int /\ Sum(R) \in Int /\ f[x] \in Int
    BY <1>1
  <2>6. Sum(S \cup R) = Sum(S) + Sum(R)
    BY <1>3
  <2>. HIDE DEF Sum
  <2>7. /\ Sum(S \cup (R \cup {x})) = f[x] + (Sum(S) + Sum(R))
        /\ Sum(S) + Sum(R \cup {x}) = Sum(S) + (f[x] + Sum(R))
    BY <2>2, <2>3, <2>4, <2>6
  <2>8. Sum(S \cup (R \cup {x})) = Sum(S) + Sum(R \cup {x})
    BY <2>5, <2>7
  <2>. QED BY <2>8
<1>4. T \in G
  <2>. HIDE DEF G
  <2>. QED BY <1>2, <1>3, SetInductionUp
<1>. QED BY <1>4

(* The sum of two functions, value by value.                              *)
LEMMA SumPlus ==
  ASSUME NEW f, NEW g, NEW h, NEW S, IsFiniteSet(S),
         \A x \in S : f[x] \in Int /\ g[x] \in Int /\ h[x] = f[x] + g[x]
  PROVE  SumFunctionOnSet(h, S) = SumFunctionOnSet(f, S) + SumFunctionOnSet(g, S)
<1>. DEFINE Sum(e, R) == SumFunctionOnSet(e, R)
            G == {R \in SUBSET S : Sum(h, R) = Sum(f, R) + Sum(g, R)}
<1>1. {} \in G
  BY SumEmpty
<1>2. ASSUME NEW R \in SUBSET S, NEW x \in S \ R, R \in G
      PROVE  R \cup {x} \in G
  <2>1. IsFiniteSet(R) /\ \A y \in R \cup {x} : f[y] \in Int /\ g[y] \in Int /\ h[y] \in Int
    BY FS_Subset
  <2>2. /\ Sum(f, R \cup {x}) = f[x] + Sum(f, R)
        /\ Sum(g, R \cup {x}) = g[x] + Sum(g, R)
        /\ Sum(h, R \cup {x}) = h[x] + Sum(h, R)
    BY <2>1, SumAdd
  <2>3. Sum(f, R) \in Int /\ Sum(g, R) \in Int
    BY <2>1, SumType
  <2>4. h[x] = f[x] + g[x] /\ f[x] \in Int /\ g[x] \in Int /\ Sum(h, R) = Sum(f, R) + Sum(g, R)
    BY <1>2
  <2>. HIDE DEF Sum
  <2>5. Sum(h, R \cup {x}) = Sum(f, R \cup {x}) + Sum(g, R \cup {x})
    BY <2>2, <2>3, <2>4
  <2>. QED BY <2>5
<1>3. S \in G
  <2>. HIDE DEF G
  <2>. QED BY <1>1, <1>2, SetInductionUp
<1>. QED BY <1>3

(* The sum of a constant.                                                 *)
LEMMA SumConst ==
  ASSUME NEW f, NEW k \in Int, NEW S, IsFiniteSet(S), \A x \in S : f[x] = k
  PROVE  SumFunctionOnSet(f, S) = k * Cardinality(S)
<1>. DEFINE Sum(R) == SumFunctionOnSet(f, R)
            G == {R \in SUBSET S : Sum(R) = k * Cardinality(R)}
<1>1. {} \in G
  BY SumEmpty, FS_EmptySet
<1>2. ASSUME NEW R \in SUBSET S, NEW x \in S \ R, R \in G
      PROVE  R \cup {x} \in G
  <2>1. IsFiniteSet(R) /\ Cardinality(R) \in Nat
    BY FS_Subset, FS_CardinalityType
  <2>2. Sum(R \cup {x}) = f[x] + Sum(R)
    BY <2>1, SumAdd
  <2>3. Cardinality(R \cup {x}) = Cardinality(R) + 1
    BY <2>1, FS_AddElement
  <2>4. Sum(R) = k * Cardinality(R) /\ f[x] = k
    BY <1>2
  <2>. HIDE DEF Sum
  <2>5. k * (Cardinality(R) + 1) = k + k * Cardinality(R)
    BY <2>1
  <2>6. Sum(R \cup {x}) = k * Cardinality(R \cup {x})
    BY <2>2, <2>3, <2>4, <2>5
  <2>. QED BY <2>6
<1>3. S \in G
  <2>. HIDE DEF G
  <2>. QED BY <1>1, <1>2, SetInductionUp
<1>. QED BY <1>3

(* A function changed at one place.                                       *)
LEMMA SumChange ==
  ASSUME NEW f, NEW g, NEW S, IsFiniteSet(S), NEW x \in S,
         \A y \in S : f[y] \in Int /\ g[y] \in Int,
         \A y \in S \ {x} : g[y] = f[y]
  PROVE  SumFunctionOnSet(g, S) = SumFunctionOnSet(f, S) + g[x] - f[x]
<1>1. IsFiniteSet(S \ {x})
  BY FS_RemoveElement
<1>2. SumFunctionOnSet(g, S \ {x}) = SumFunctionOnSet(f, S \ {x})
  BY <1>1, SumSame
<1>3. SumFunctionOnSet(g, S \ {x}) \in Int
  BY <1>1, SumType
<1>4. /\ SumFunctionOnSet(g, S) = g[x] + SumFunctionOnSet(g, S \ {x})
      /\ SumFunctionOnSet(f, S) = f[x] + SumFunctionOnSet(f, S \ {x})
  BY SumRemove
<1>5. f[x] \in Int /\ g[x] \in Int
  OBVIOUS
<1>. QED BY <1>2, <1>3, <1>4, <1>5

(* A sum of naturals is one.                                              *)
LEMMA SumNat ==
  ASSUME NEW f, NEW S, IsFiniteSet(S), \A x \in S : f[x] \in Nat
  PROVE  SumFunctionOnSet(f, S) \in Nat
<1>. DEFINE Sum(R) == SumFunctionOnSet(f, R)
            G == {R \in SUBSET S : Sum(R) \in Nat}
<1>1. {} \in G
  BY SumEmpty
<1>2. ASSUME NEW R \in SUBSET S, NEW x \in S \ R, R \in G
      PROVE  R \cup {x} \in G
  <2>1. IsFiniteSet(R)
    BY FS_Subset
  <2>2. Sum(R \cup {x}) = f[x] + Sum(R)
    BY <2>1, SumAdd
  <2>3. f[x] \in Nat /\ Sum(R) \in Nat
    BY <1>2
  <2>. HIDE DEF Sum
  <2>. QED BY <2>2, <2>3
<1>3. S \in G
  <2>. HIDE DEF G
  <2>. QED BY <1>1, <1>2, SetInductionUp
<1>. QED BY <1>3

(* The sum of what is zero but for one element.                            *)
LEMMA SumOnly ==
  ASSUME NEW f, NEW S, IsFiniteSet(S), NEW x \in S, f[x] \in Int, \A y \in S \ {x} : f[y] = 0
  PROVE  SumFunctionOnSet(f, S) = f[x]
<1>1. IsFiniteSet(S \ {x}) /\ Cardinality(S \ {x}) \in Nat
  BY FS_RemoveElement, FS_CardinalityType
<1>2. SumFunctionOnSet(f, S \ {x}) = 0 * Cardinality(S \ {x})
  BY <1>1, SumConst
<1>3. SumFunctionOnSet(f, S) = f[x] + SumFunctionOnSet(f, S \ {x})
  BY SumRemove
<1>. QED BY <1>1, <1>2, <1>3

(* Every value taken k times.                                             *)
LEMMA SumTimes ==
  ASSUME NEW f, NEW h, NEW k \in Int, NEW S, IsFiniteSet(S),
         \A x \in S : f[x] \in Int /\ h[x] = k * f[x]
  PROVE  SumFunctionOnSet(h, S) = k * SumFunctionOnSet(f, S)
<1>. DEFINE Sum(g, R) == SumFunctionOnSet(g, R)
            G == {R \in SUBSET S : Sum(h, R) = k * Sum(f, R)}
<1>1. {} \in G
  BY SumEmpty
<1>2. ASSUME NEW R \in SUBSET S, NEW x \in S \ R, R \in G
      PROVE  R \cup {x} \in G
  <2>1. IsFiniteSet(R)
    BY FS_Subset
  <2>2. /\ Sum(f, R \cup {x}) = f[x] + Sum(f, R)
        /\ Sum(h, R \cup {x}) = h[x] + Sum(h, R)
    BY <2>1, SumAdd
  <2>3. Sum(f, R) \in Int /\ f[x] \in Int
    BY <2>1, SumType
  <2>4. Sum(h, R) = k * Sum(f, R) /\ h[x] = k * f[x]
    BY <1>2
  <2>5. k * (f[x] + Sum(f, R)) = k * f[x] + k * Sum(f, R)
    BY <2>3
  <2>. QED BY <2>2, <2>4, <2>5
<1>. HIDE DEF G
<1>3. S \in G
  BY <1>1, <1>2, SetInductionUp
<1>. QED BY <1>3 DEF G

(* A sum of less is less.                                                 *)
LEMMA SumLess ==
  ASSUME NEW f, NEW h, NEW S, IsFiniteSet(S),
         \A x \in S : f[x] \in Int /\ h[x] \in Int /\ f[x] <= h[x]
  PROVE  SumFunctionOnSet(f, S) <= SumFunctionOnSet(h, S)
<1>. DEFINE d == [x \in S |-> h[x] - f[x]]
<1>1. \A x \in S : d[x] \in Nat /\ h[x] = f[x] + d[x]
  OBVIOUS
<1>. HIDE DEF d
<1>2. SumFunctionOnSet(d, S) \in Nat
  BY <1>1, SumNat
<1>3. SumFunctionOnSet(h, S) = SumFunctionOnSet(f, S) + SumFunctionOnSet(d, S)
  BY <1>1, SumPlus
<1>4. SumFunctionOnSet(f, S) \in Int
  BY SumType
<1>. QED BY <1>2, <1>3, <1>4

(* p takes every value of T, and none twice.                              *)
OneToOne(p, S, T) ==
  /\ p \in [S -> T]
  /\ \A x, y \in S : p[x] = p[y] => x = y
  /\ \A t \in T : \E x \in S : p[x] = t

(* The sum along such a function.                                         *)
LEMMA SumAlong ==
  ASSUME NEW f, NEW h, NEW S, NEW T, NEW p, OneToOne(p, S, T), IsFiniteSet(S), IsFiniteSet(T),
         \A x \in S : h[x] = f[p[x]],
         \A t \in T : f[t] \in Int
  PROVE  SumFunctionOnSet(h, S) = SumFunctionOnSet(f, T)
<1>. USE DEF OneToOne
<1>. DEFINE Image(R) == {t \in T : \E x \in R : p[x] = t}
            G == {R \in SUBSET S : SumFunctionOnSet(h, R) = SumFunctionOnSet(f, Image(R))}
<1>1. {} \in G
  <2>1. Image({}) = {}
    OBVIOUS
  <2>. QED BY <2>1, SumEmpty
<1>0. \A x \in S : h[x] = f[p[x]] /\ p[x] \in T /\ h[x] \in Int
  OBVIOUS
<1>2. ASSUME NEW R \in SUBSET S, NEW x \in S \ R, R \in G
      PROVE  R \cup {x} \in G
  <2>1. IsFiniteSet(R) /\ IsFiniteSet(Image(R))
    BY FS_Subset
  <2>2. Image(R \cup {x}) = Image(R) \cup {p[x]} /\ p[x] \notin Image(R)
    BY <1>0
  <2>3. SumFunctionOnSet(h, R \cup {x}) = h[x] + SumFunctionOnSet(h, R)
    BY <1>0, <2>1, SumAdd
  <2>4. SumFunctionOnSet(f, Image(R) \cup {p[x]}) = f[p[x]] + SumFunctionOnSet(f, Image(R))
    <3>. DEFINE I == Image(R)
                t == p[x]
    <3>1. IsFiniteSet(I) /\ t \notin I /\ \A y \in I \cup {t} : f[y] \in Int
      BY <1>0, <2>1, <2>2
    <3>. HIDE DEF I, t
    <3>2. SumFunctionOnSet(f, I \cup {t}) = f[t] + SumFunctionOnSet(f, I)
      BY <3>1, SumAdd
    <3>. QED BY <3>2 DEF I, t
  <2>5. SumFunctionOnSet(h, R) = SumFunctionOnSet(f, Image(R))
    BY <1>2
  <2>. QED BY <1>0, <2>2, <2>3, <2>4, <2>5
<1>3. Image(S) = T
  OBVIOUS
<1>. HIDE DEF G
<1>4. S \in G
  BY <1>1, <1>2, SetInductionUp
<1>. QED BY <1>3, <1>4 DEF G

(* What is zero outside of a part of the set counts for nothing.           *)
LEMMA SumPart ==
  ASSUME NEW f, NEW S, IsFiniteSet(S), NEW A, A \subseteq S,
         \A x \in A : f[x] \in Int, \A x \in S : x \notin A => f[x] = 0
  PROVE  SumFunctionOnSet(f, S) = SumFunctionOnSet(f, A)
<1>. DEFINE B == S \ A
<1>1. IsFiniteSet(A) /\ IsFiniteSet(B) /\ A \cap B = {} /\ A \cup B = S
  BY FS_Subset
<1>2. (\A x \in B : f[x] = 0) /\ \A x \in A \cup B : f[x] \in Int
  OBVIOUS
<1>. HIDE DEF B
<1>3. SumFunctionOnSet(f, A \cup B) = SumFunctionOnSet(f, A) + SumFunctionOnSet(f, B)
  BY <1>1, <1>2, SumUnion
<1>4. SumFunctionOnSet(f, B) = 0
  <2>1. SumFunctionOnSet(f, B) = 0 * Cardinality(B) /\ Cardinality(B) \in Nat
    BY <1>1, <1>2, SumConst, FS_CardinalityType
  <2>. QED BY <2>1
<1>5. SumFunctionOnSet(f, A) \in Int
  <2>1. \A x \in A : f[x] \in Int
    OBVIOUS
  <2>. QED BY <1>1, <2>1, SumType
<1>6. SumFunctionOnSet(f, S) = SumFunctionOnSet(f, A \cup B)
  BY <1>1, Zenon
<1>. QED BY <1>3, <1>4, <1>5, <1>6

-----------------------------------------------------------------------------
(* The ledger.  A transaction is a row, or rows of several people at once,  *)
(* or two of these one after the other; each of them posts.                *)

Booked(L) ==
  /\ L.balance \in [Users -> Nat]
  /\ IsFiniteSet(L.rows) /\ \A r \in L.rows : r.delta \in Int
  /\ KeysUnique(L.rows)

(* A transaction posts, or it leaves the ledger alone.                     *)
Settles(L, K) == Booked(K) /\ (Posts(L, K) \/ K = L)

(* Rows put to a ledger, and what each balance gets by them.               *)
Put(L, K, Y, amount) ==
  /\ K.rows = L.rows \cup Y
  /\ K.balance = [u \in Users |-> L.balance[u] + amount[u]]

LEMMA NewIsBooked == Booked(NewLedger)
<1>1. StartingCoins \in Nat /\ IsFiniteSet({})
  BY StartingCoinsAssumption, FS_EmptySet
<1>2. NewLedger.balance \in [Users -> Nat] /\ NewLedger.rows = {}
  BY <1>1 DEF NewLedger
<1>. QED BY <1>1, <1>2 DEF Booked, KeysUnique

(* What is summed are the deltas, whatever set of rows they are given for.  *)
LEMMA DeltaOf ==
  ASSUME NEW X, NEW Y, NEW u, IsFiniteSet(X), X \subseteq Y, \A r \in Y : r.delta \in Int
  PROVE  /\ SumDelta(X, u) \in Int
         /\ SumDelta(X, u) = SumFunctionOnSet([r \in Y |-> r.delta], {r \in X : r.user = u})
<1>. DEFINE f == [r \in X |-> r.delta]
            g == [r \in Y |-> r.delta]
            S == {r \in X : r.user = u}
<1>1. IsFiniteSet(S)
  BY FS_Subset
<1>2. \A x \in S : f[x] = g[x] /\ f[x] \in Int
  OBVIOUS
<1>3. SumDelta(X, u) = SumFunctionOnSet(f, S)
  BY DEF SumDelta
<1>. HIDE DEF f, g, S
<1>4. SumFunctionOnSet(f, S) = SumFunctionOnSet(g, S)
  BY <1>1, <1>2, SumSame
<1>5. SumFunctionOnSet(f, S) \in Int
  BY <1>1, <1>2, SumType
<1>. QED BY <1>3, <1>4, <1>5 DEF g, S

(* Deltas of sets of rows without a common one add up.                      *)
LEMMA DeltasAdd ==
  ASSUME NEW X, NEW Y, NEW u, IsFiniteSet(X), IsFiniteSet(Y), X \cap Y = {},
         \A r \in X \cup Y : r.delta \in Int
  PROVE  /\ SumDelta(X \cup Y, u) = SumDelta(X, u) + SumDelta(Y, u)
         /\ SumDelta(X, u) \in Int /\ SumDelta(Y, u) \in Int
<1>. DEFINE Z == X \cup Y
            g == [r \in Z |-> r.delta]
            S == {r \in X : r.user = u}
            T == {r \in Y : r.user = u}
<1>1. IsFiniteSet(Z) /\ IsFiniteSet(S) /\ IsFiniteSet(T)
  BY FS_Union, FS_Subset
<1>2. S \cap T = {} /\ {r \in Z : r.user = u} = S \cup T
  OBVIOUS
<1>3. \A x \in S \cup T : g[x] \in Int
  OBVIOUS
<1>4. X \subseteq Z /\ Y \subseteq Z /\ Z \subseteq Z /\ \A r \in Z : r.delta \in Int
  OBVIOUS
<1>. HIDE DEF Z
<1>5. /\ SumDelta(X, u) \in Int /\ SumDelta(X, u) = SumFunctionOnSet(g, S)
      /\ SumDelta(Y, u) \in Int /\ SumDelta(Y, u) = SumFunctionOnSet(g, T)
      /\ SumDelta(Z, u) = SumFunctionOnSet(g, {r \in Z : r.user = u})
  BY <1>1, <1>4, DeltaOf
<1>. HIDE DEF g, S, T
<1>6. SumFunctionOnSet(g, S \cup T) = SumFunctionOnSet(g, S) + SumFunctionOnSet(g, T)
  BY <1>1, <1>2, <1>3, SumUnion
<1>. QED BY <1>2, <1>5, <1>6 DEF Z

(* The sum over the rows of one person, of whom there is one row or none.   *)
LEMMA DeltaOfOne ==
  ASSUME NEW Y, IsFiniteSet(Y), \A r \in Y : r.delta \in Int, NEW u, NEW x \in Y, x.user = u,
         \A r \in Y : r.user = u => r = x
  PROVE  SumDelta(Y, u) = x.delta
<1>. DEFINE f == [r \in Y |-> r.delta]
            S == {r \in Y : r.user = u}
<1>1. S = {x} /\ x \in S /\ f[x] = x.delta /\ f[x] \in Int
  OBVIOUS
<1>2. IsFiniteSet(S)
  BY FS_Subset
<1>3. SumDelta(Y, u) = SumFunctionOnSet(f, S)
  BY DEF SumDelta
<1>4. \A y \in S \ {x} : f[y] = 0
  BY <1>1
<1>. HIDE DEF f, S
<1>. QED BY <1>1, <1>2, <1>3, <1>4, SumOnly

LEMMA DeltaOfNone ==
  ASSUME NEW Y, NEW u, \A r \in Y : r.user # u
  PROVE  SumDelta(Y, u) = 0
<1>1. {r \in Y : r.user = u} = {}
  OBVIOUS
<1>. QED BY <1>1, SumEmpty DEF SumDelta

(* New rows under free keys post, if nobody falls below zero.               *)
LEMMA PutPosts ==
  ASSUME NEW L, Booked(L), NEW K, NEW Y, NEW amount, Put(L, K, Y, amount),
         IsFiniteSet(Y), L.rows \cap Y = {}, \A r \in Y : r.delta \in Int,
         KeysUnique(L.rows \cup Y),
         \A u \in Users : amount[u] = SumDelta(Y, u) /\ L.balance[u] + amount[u] >= 0
  PROVE  Booked(K) /\ Posts(L, K)
<1>1. K.rows \ L.rows = Y
  BY DEF Put
<1>2. \A u \in Users : SumDelta(Y, u) \in Int
  BY DeltaOf
<1>3. K.balance \in [Users -> Nat]
  <2>1. \A u \in Users : L.balance[u] + amount[u] \in Nat
    BY <1>2 DEF Booked
  <2>. QED BY <2>1 DEF Put
<1>4. IsFiniteSet(K.rows) /\ \A r \in K.rows : r.delta \in Int
  <2>1. IsFiniteSet(L.rows) /\ K.rows = L.rows \cup Y
    BY DEF Put, Booked
  <2>2. IsFiniteSet(K.rows)
    BY <2>1, FS_Union
  <2>. QED BY <2>1, <2>2 DEF Booked
<1>5. K.balance = [u \in Users |-> L.balance[u] + SumDelta(K.rows \ L.rows, u)]
  <2>1. \A u \in Users : amount[u] = SumDelta(K.rows \ L.rows, u)
    BY <1>1
  <2>. QED BY <2>1 DEF Put
<1>6. L.rows \subseteq K.rows /\ KeysUnique(K.rows)
  BY DEF Put
<1>7. \A u \in Users : K.balance[u] >= 0
  BY <1>3
<1>. QED BY <1>3, <1>4, <1>5, <1>6, <1>7 DEF Booked, Posts

(* One movement.                                                           *)
LEMMA MovePosts ==
  ASSUME NEW L, Booked(L), NEW u \in Users, NEW d \in Int, NEW kind, NEW ref,
         Fresh(L, u, kind, ref), L.balance[u] + d >= 0
  PROVE  Booked(Move(L, u, d, kind, ref)) /\ Posts(L, Move(L, u, d, kind, ref))
<1>. DEFINE x == Row(u, kind, ref, d)
            Y == {x}
            K == Move(L, u, d, kind, ref)
            amount == [v \in Users |-> IF v = u THEN d ELSE 0]
<1>1. x.user = u /\ x.kind = kind /\ x.ref = ref /\ x.delta = d
  BY DEF Row
<1>2. Put(L, K, Y, amount)
  <2>1. K.rows = L.rows \cup Y
    BY DEF Move
  <2>2. K.balance = [L.balance EXCEPT ![u] = @ + d]
    BY DEF Move
  <2>3. K.balance = [v \in Users |-> L.balance[v] + amount[v]]
    BY <2>2 DEF Booked
  <2>. HIDE DEF K, Y, amount
  <2>. QED BY <2>1, <2>3 DEF Put
<1>. HIDE DEF x, K
<1>3. IsFiniteSet(Y) /\ \A r \in Y : r.delta \in Int
  BY <1>1, FS_Singleton
<1>4. L.rows \cap Y = {} /\ KeysUnique(L.rows \cup Y)
  BY <1>1 DEF Fresh, KeysUnique, Booked
<1>5. ASSUME NEW v \in Users
      PROVE  amount[v] = SumDelta(Y, v) /\ L.balance[v] + amount[v] >= 0
  <2>1. CASE v = u
    <3>1. SumDelta(Y, v) = x.delta
      BY <1>1, <1>3, <2>1, DeltaOfOne
    <3>. QED BY <1>1, <2>1, <3>1
  <2>2. CASE v # u
    <3>1. SumDelta(Y, v) = 0
      BY <1>1, <2>2, DeltaOfNone
    <3>2. L.balance[v] \in Nat
      BY DEF Booked
    <3>. QED BY <2>2, <3>1, <3>2
  <2>. QED BY <2>1, <2>2
<1>. HIDE DEF Y, amount
<1>. QED BY <1>2, <1>3, <1>4, <1>5, PutPosts DEF K

(* A charge and a credit; one of zero leaves no trace.                      *)
LEMMA ChargePosts ==
  ASSUME NEW L, Booked(L), NEW u \in Users, NEW n \in Nat, NEW kind, NEW ref,
         CanCharge(L, u, n, kind, ref)
  PROVE  Settles(L, Charge(L, u, n, kind, ref))
<1>1. CASE n > 0
  <2>1. Fresh(L, u, kind, ref) /\ L.balance[u] >= n /\ L.balance[u] \in Nat
    BY <1>1 DEF CanCharge, Booked
  <2>2. - n \in Int /\ L.balance[u] + (- n) >= 0
    BY <2>1
  <2>3. Charge(L, u, n, kind, ref) = Move(L, u, - n, kind, ref)
    BY <1>1 DEF Charge
  <2>. QED BY <2>1, <2>2, <2>3, MovePosts DEF Settles
<1>2. CASE n = 0
  BY <1>2 DEF Charge, Settles
<1>. QED BY <1>1, <1>2

LEMMA CreditPosts ==
  ASSUME NEW L, Booked(L), NEW u \in Users, NEW n \in Nat, NEW kind, NEW ref,
         CanCredit(L, u, n, kind, ref)
  PROVE  Settles(L, Credit(L, u, n, kind, ref))
<1>1. CASE n > 0
  <2>1. Fresh(L, u, kind, ref) /\ L.balance[u] + n >= 0
    BY <1>1 DEF CanCredit, Booked
  <2>2. Credit(L, u, n, kind, ref) = Move(L, u, n, kind, ref)
    BY <1>1 DEF Credit
  <2>. QED BY <2>1, <2>2, MovePosts DEF Settles
<1>2. CASE n = 0
  BY <1>2 DEF Credit, Settles
<1>. QED BY <1>1, <1>2

(* A row for each of several people at once, under one kind.               *)
ForEach(L, K, U, amount, kind, ref) ==
  /\ U \subseteq Users
  /\ K.rows = L.rows \cup {Row(u, kind, ref[u], amount[u]) : u \in U}
  /\ K.balance = [u \in Users |-> L.balance[u] + IF u \in U THEN amount[u] ELSE 0]

LEMMA ForEachPosts ==
  ASSUME NEW L, Booked(L), NEW K, NEW U, NEW amount, NEW kind, NEW ref,
         ForEach(L, K, U, amount, kind, ref),
         \A u \in U : amount[u] \in Nat /\ Fresh(L, u, kind, ref[u])
  PROVE  Booked(K) /\ Posts(L, K)
<1>. DEFINE rowOf == [u \in U |-> Row(u, kind, ref[u], amount[u])]
            Y == {rowOf[u] : u \in U}
            share == [u \in Users |-> IF u \in U THEN amount[u] ELSE 0]
<1>1. \A u \in U : /\ rowOf[u].user = u /\ rowOf[u].kind = kind
                   /\ rowOf[u].ref = ref[u] /\ rowOf[u].delta = amount[u] /\ amount[u] \in Nat
  BY DEF Row
<1>2. Put(L, K, Y, share)
  <2>1. K.rows = L.rows \cup Y
    BY DEF ForEach
  <2>2. K.balance = [u \in Users |-> L.balance[u] + share[u]]
    BY DEF ForEach
  <2>. HIDE DEF Y, share
  <2>. QED BY <2>1, <2>2 DEF Put
<1>3. IsFiniteSet(Y)
  <2>1. IsFiniteSet(U)
    BY UsersAssumption, FS_Subset DEF ForEach
  <2>2. rowOf \in Surjection(U, Y)
    BY DEF Surjection
  <2>. QED BY <2>1, <2>2, FS_Surjection
<1>. HIDE DEF rowOf
<1>4. \A r \in Y : r.delta \in Int
  BY <1>1
<1>5. L.rows \cap Y = {}
  BY <1>1 DEF Fresh
<1>6. KeysUnique(L.rows \cup Y)
  <2>1. \A r, s \in Y : r.user = s.user => r = s
    BY <1>1
  <2>2. \A r \in L.rows, s \in Y : ~ (r.user = s.user /\ r.kind = s.kind /\ r.ref = s.ref)
    BY <1>1 DEF Fresh
  <2>3. KeysUnique(L.rows)
    BY DEF Booked
  <2>. HIDE DEF Y
  <2>. QED BY <2>1, <2>2, <2>3 DEF KeysUnique
<1>7. ASSUME NEW v \in Users
      PROVE  share[v] = SumDelta(Y, v) /\ L.balance[v] + share[v] >= 0
  <2>0. L.balance[v] \in Nat
    BY DEF Booked
  <2>1. CASE v \in U
    <3>1. rowOf[v] \in Y /\ rowOf[v].user = v /\ \A r \in Y : r.user = v => r = rowOf[v]
      BY <1>1, <2>1
    <3>. HIDE DEF Y
    <3>2. SumDelta(Y, v) = rowOf[v].delta
      BY <1>3, <1>4, <3>1, DeltaOfOne
    <3>. QED BY <1>1, <2>0, <2>1, <3>2
  <2>2. CASE v \notin U
    <3>1. \A r \in Y : r.user # v
      BY <1>1, <2>2
    <3>. HIDE DEF Y
    <3>2. SumDelta(Y, v) = 0
      BY <3>1, DeltaOfNone
    <3>. QED BY <2>0, <2>2, <3>2
  <2>. QED BY <2>1, <2>2
<1>. HIDE DEF Y, share
<1>. QED BY <1>2, <1>3, <1>4, <1>5, <1>6, <1>7, PutPosts

(* A transaction of two movements posts as one does.                       *)
LEMMA PostsAgain ==
  ASSUME NEW L, NEW M, NEW K, Booked(L), Booked(M), Booked(K), Posts(L, M), Posts(M, K)
  PROVE  Posts(L, K)
<1>. DEFINE X == M.rows \ L.rows
            Y == K.rows \ M.rows
<1>1. L.rows \subseteq M.rows /\ M.rows \subseteq K.rows /\ K.rows \ L.rows = X \cup Y
  BY DEF Posts
<1>2. X \cap Y = {} /\ X \cup Y \subseteq K.rows
  BY <1>1
<1>3. IsFiniteSet(X) /\ IsFiniteSet(Y) /\ \A r \in X \cup Y : r.delta \in Int
  BY <1>2, FS_Subset DEF Booked
<1>. HIDE DEF X, Y
<1>4. ASSUME NEW u \in Users
      PROVE  K.balance[u] = L.balance[u] + SumDelta(K.rows \ L.rows, u)
  <2>1. /\ SumDelta(X \cup Y, u) = SumDelta(X, u) + SumDelta(Y, u)
        /\ SumDelta(X, u) \in Int /\ SumDelta(Y, u) \in Int
    BY <1>2, <1>3, DeltasAdd
  <2>2. M.balance[u] = L.balance[u] + SumDelta(X, u)
    BY DEF Posts, X
  <2>3. K.balance[u] = M.balance[u] + SumDelta(Y, u)
    BY DEF Posts, Y
  <2>4. L.balance[u] \in Nat
    BY DEF Booked
  <2>5. SumDelta(K.rows \ L.rows, u) = SumDelta(X \cup Y, u)
    BY <1>1, Zenon
  <2>. QED BY <2>1, <2>2, <2>3, <2>4, <2>5
<1>5. K.balance = [u \in Users |-> L.balance[u] + SumDelta(K.rows \ L.rows, u)]
  <2>1. K.balance \in [Users -> Nat]
    BY DEF Booked
  <2>. QED BY <1>4, <2>1
<1>6. KeysUnique(K.rows) /\ \A u \in Users : K.balance[u] >= 0
  BY DEF Posts
<1>. QED BY <1>1, <1>5, <1>6 DEF Posts

LEMMA SettlesAgain ==
  ASSUME NEW L, NEW M, NEW K, Booked(L), Settles(L, M), Settles(M, K)
  PROVE  Settles(L, K)
BY PostsAgain DEF Settles

==============================================================================
