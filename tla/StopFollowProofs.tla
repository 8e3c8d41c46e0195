--------------------------- MODULE StopFollowProofs ---------------------------
(***************************************************************************)
(* What a plan counts, when it ends and which stop its steps set, for any  *)
(* grids, prices, bounds and faults.                                       *)
(***************************************************************************)
EXTENDS StopFollow, FiniteSetTheorems, SequenceTheorems, WellFoundedInduction, TLAPS

(* Folds over sequences.                                                   *)

LEMMA SetInduction ==
  ASSUME NEW S, IsFiniteSet(S), NEW G,
         \A T \in SUBSET S : (\A x \in T : T \ {x} \in G) => T \in G
  PROVE  S \in G
<1>. DEFINE Bad == {T \in SUBSET S : T \notin G}
<1>. SUFFICES ASSUME Bad # {} PROVE FALSE
  OBVIOUS
<1>1. Bad \subseteq FiniteSubsetsOf(S)
  BY FS_Subset DEF FiniteSubsetsOf
<1>2. PICK T \in Bad : \A U \in Bad : ~ (<<U, T>> \in StrictSubsetOrdering(S))
  <2>. HIDE DEF Bad
  <2>. QED BY <1>1, FS_StrictSubsetOrderingWellFounded, WFMin
<1>3. ASSUME NEW x \in T PROVE T \ {x} \in G
  <2>1. T \in SUBSET S /\ T \ {x} \in SUBSET S /\ T \ {x} # T
    BY <1>2
  <2>2. <<T \ {x}, T>> \in StrictSubsetOrdering(S)
    BY <2>1 DEF StrictSubsetOrdering
  <2>. QED BY <1>2, <2>1, <2>2
<1>. QED BY <1>2, <1>3

LEMMA MaxIsIn ==
  ASSUME NEW n \in Nat, NEW S \in SUBSET (1..n), S # {}
  PROVE  Max(S) \in S
<1>. DEFINE Above == {m \in Nat : \A x \in S : x <= m}
<1>1. n \in Above
  OBVIOUS
<1>2. PICK m \in Above : \A k \in Above : ~ (<<k, m>> \in OpToRel(<, Nat))
  <2>. Above \subseteq Nat
    OBVIOUS
  <2>. HIDE DEF Above
  <2>. QED BY <1>1, NatLessThanWellFounded, WFMin
<1>3. \A k \in Above : ~ (k < m)
  BY <1>2 DEF OpToRel
<1>4. m \in S
  <2>1. SUFFICES ASSUME m \notin S PROVE FALSE
    OBVIOUS
  <2>2. PICK x \in S : TRUE
    OBVIOUS
  <2>3. m - 1 \in Nat /\ \A y \in S : y <= m - 1
    BY <2>1, <2>2
  <2>. QED BY <1>3, <2>3
<1>5. \A y \in S : m >= y
  OBVIOUS
<1>. QED BY <1>4, <1>5 DEF Max

(* A fold goes over the subsets of the domain, the last element first; it   *)
(* exists, with its values where the step has them.                        *)
Folds(g, D, base, step) ==
  g = [s \in D |-> IF s = {} THEN base ELSE step[<<g[s \ {Max(s)}], Max(s)>>]]

UpTo(n, k) == {s \in SUBSET (1..n) : Cardinality(s) <= k}

LEMMA UpToStep ==
  ASSUME NEW n \in Nat, NEW k \in Nat, NEW s \in UpTo(n, k + 1), s # {}
  PROVE  s \ {Max(s)} \in UpTo(n, k)
<1>1. IsFiniteSet(1..n)
  BY FS_Interval
<1>2. s \in SUBSET (1..n) /\ IsFiniteSet(s) /\ Cardinality(s) \in Nat /\ Cardinality(s) <= k + 1
  BY <1>1, FS_Subset, FS_CardinalityType DEF UpTo
<1>3. Cardinality(s \ {Max(s)}) = Cardinality(s) - 1
  BY <1>2, MaxIsIn, FS_RemoveElement
<1>. DEFINE t == s \ {Max(s)}
<1>4. t \in SUBSET (1..n)
  BY <1>2
<1>6. Cardinality(t) = Cardinality(s) - 1
  BY <1>3
<1>. HIDE DEF t
<1>5. t \in UpTo(n, k)
  BY <1>2, <1>4, <1>6 DEF UpTo
<1>. QED BY <1>5 DEF t

LEMMA FoldExists ==
  ASSUME NEW n \in Nat, NEW base, NEW step
  PROVE  \E g : Folds(g, SUBSET (1..n), base, step)
<1>. DEFINE Bad == {k \in Nat : ~ \E g : Folds(g, UpTo(n, k), base, step)}
<1>0. IsFiniteSet(1..n) /\ Cardinality(1..n) = n
  BY FS_Interval
<1>1. Bad = {}
  <2>. SUFFICES ASSUME Bad # {} PROVE FALSE
    OBVIOUS
  <2>1. PICK m \in Bad : \A k \in Bad : ~ (<<k, m>> \in OpToRel(<, Nat))
    <3>. Bad \subseteq Nat
      OBVIOUS
    <3>. HIDE DEF Bad
    <3>. QED BY NatLessThanWellFounded, WFMin
  <2>2. \A k \in Bad : ~ (k < m)
    BY <2>1 DEF OpToRel
  <2>3. CASE m = 0
    <3>1. ASSUME NEW s \in UpTo(n, 0) PROVE s = {}
      <4>1. s \in SUBSET (1..n) /\ Cardinality(s) <= 0
        BY DEF UpTo
      <4>2. IsFiniteSet(s) /\ Cardinality(s) \in Nat
        BY <1>0, <4>1, FS_Subset, FS_CardinalityType
      <4>. QED BY <4>1, <4>2, FS_EmptySet
    <3>2. Folds([s \in UpTo(n, 0) |-> base], UpTo(n, 0), base, step)
      BY <3>1 DEF Folds
    <3>. QED BY <2>3, <3>2
  <2>4. CASE m # 0
    <3>1. m - 1 \in Nat /\ m - 1 < m /\ m = (m - 1) + 1
      BY <2>4
    <3>2. PICK g : Folds(g, UpTo(n, m - 1), base, step)
      BY <2>2, <3>1
    <3>. DEFINE h == [s \in UpTo(n, m) |-> IF s = {} THEN base ELSE step[<<g[s \ {Max(s)}], Max(s)>>]]
    <3>3. ASSUME NEW s \in UpTo(n, m), s # {}
          PROVE  h[s \ {Max(s)}] = g[s \ {Max(s)}]
      <4>. DEFINE t == s \ {Max(s)}
      <4>1. t \in UpTo(n, m - 1)
        BY <3>1, <3>3, UpToStep
      <4>2. t \in UpTo(n, m)
        BY <1>0, <3>1, <4>1, FS_Subset, FS_CardinalityType DEF UpTo
      <4>3. h[t] = IF t = {} THEN base ELSE step[<<g[t \ {Max(t)}], Max(t)>>]
        BY <4>2
      <4>4. g[t] = IF t = {} THEN base ELSE step[<<g[t \ {Max(t)}], Max(t)>>]
        <5>. HIDE DEF t
        <5>. QED BY <3>2, <4>1 DEF Folds
      <4>. QED BY <4>3, <4>4
    <3>4. Folds(h, UpTo(n, m), base, step)
      <4>. SUFFICES h = [s \in UpTo(n, m) |->
                         IF s = {} THEN base ELSE step[<<h[s \ {Max(s)}], Max(s)>>]]
        BY DEF Folds
      <4>1. \A s \in UpTo(n, m) :
              h[s] = IF s = {} THEN base ELSE step[<<h[s \ {Max(s)}], Max(s)>>]
        BY <3>3
      <4>. QED BY <4>1
    <3>. QED BY <3>4
  <2>. QED BY <2>3, <2>4
<1>3. UpTo(n, n) = SUBSET (1..n)
  BY <1>0, FS_Subset, FS_CardinalityType DEF UpTo
<1>4. \E g : Folds(g, UpTo(n, n), base, step)
  BY <1>1
<1>. QED BY <1>3, <1>4

(* The values of a fold are where its step leads from there.               *)
LEMMA FoldStays ==
  ASSUME NEW n \in Nat, NEW V, NEW base \in V, NEW g,
         \A s \in SUBSET (1..n) : s # {} => (g[s \ {Max(s)}] \in V => g[s] \in V),
         g[{}] = base
  PROVE  \A s \in SUBSET (1..n) : g[s] \in V
<1>. TAKE s \in SUBSET (1..n)
<1>. DEFINE G == {t \in SUBSET s : g[t] \in V}
<1>1. IsFiniteSet(s)
  <2>1. IsFiniteSet(1..n)
    BY FS_Interval
  <2>. QED BY <2>1, FS_Subset
<1>2. ASSUME NEW t \in SUBSET s, \A x \in t : t \ {x} \in G
      PROVE  t \in G
  <2>1. CASE t = {}
    BY <2>1
  <2>2. CASE t # {}
    BY <1>2, <2>2, MaxIsIn
  <2>. QED BY <2>1, <2>2
<1>3. s \in G
  <2>. HIDE DEF G
  <2>. QED BY <1>1, <1>2, SetInduction
<1>. QED BY <1>3

(* The folds of the model.                                                 *)
AdvanceFolds(g, p, rows) ==
  g = [s \in SUBSET DOMAIN rows |-> IF s = {} THEN p ELSE Advance(g[s \ {Max(s)}], rows[Max(s)])]

LEMMA AdvanceFold ==
  ASSUME NEW V, NEW S, NEW p \in V, NEW rows \in Seq(S),
         \A q \in V : \A o \in S : Advance(q, o) \in V
  PROVE  FoldLeft(Advance, p, rows) \in V
<1>. DEFINE n == Len(rows)
            step == [y \in V \X (1..n) |-> Advance(y[1], rows[y[2]])]
<1>1. n \in Nat /\ DOMAIN rows = 1..n /\ \A i \in 1..n : rows[i] \in S
  BY LenProperties, ElementOfSeq
<1>2. PICK g : Folds(g, SUBSET (1..n), p, step)
  BY <1>1, FoldExists
<1>. HIDE DEF n
<1>3. ASSUME NEW v \in V, NEW i \in 1..n
      PROVE  step[<<v, i>>] = Advance(v, rows[i]) /\ step[<<v, i>>] \in V
  BY <1>1
<1>. HIDE DEF step
<1>4. \A s \in SUBSET (1..n) : g[s] = IF s = {} THEN p ELSE step[<<g[s \ {Max(s)}], Max(s)>>]
  BY <1>2 DEF Folds
<1>5. \A s \in SUBSET (1..n) : s # {} => Max(s) \in 1..n /\ s \ {Max(s)} \in SUBSET (1..n)
  BY <1>1, MaxIsIn
<1>6. \A s \in SUBSET (1..n) : g[s] \in V
  <2>1. g[{}] = p
    BY <1>4
  <2>2. \A s \in SUBSET (1..n) : s # {} => (g[s \ {Max(s)}] \in V => g[s] \in V)
    BY <1>3, <1>4, <1>5
  <2>. QED BY <1>1, <2>1, <2>2, FoldStays
<1>7. AdvanceFolds(g, p, rows)
  <2>1. \A s \in SUBSET (1..n) : g[s] = IF s = {} THEN p ELSE Advance(g[s \ {Max(s)}], rows[Max(s)])
    BY <1>3, <1>4, <1>5, <1>6
  <2>2. g = [s \in SUBSET (1..n) |-> g[s]]
    BY <1>2 DEF Folds
  <2>. QED BY <1>1, <2>1, <2>2 DEF AdvanceFolds
<1>. DEFINE h == CHOOSE h : AdvanceFolds(h, p, rows)
<1>8. AdvanceFolds(h, p, rows)
  BY <1>7
<1>9. FoldLeft(Advance, p, rows) = h[DOMAIN rows]
  BY DEF FoldLeft, MapThenFoldSet, AdvanceFolds
<1>. HIDE DEF h
<1>10. \A s \in SUBSET (1..n) : h[s] = IF s = {} THEN p ELSE Advance(h[s \ {Max(s)}], rows[Max(s)])
  BY <1>1, <1>8 DEF AdvanceFolds
<1>11. \A s \in SUBSET (1..n) : h[s] \in V
  <2>1. h[{}] = p
    BY <1>10
  <2>2. \A s \in SUBSET (1..n) : s # {} => (h[s \ {Max(s)}] \in V => h[s] \in V)
    BY <1>1, <1>5, <1>10
  <2>. QED BY <1>1, <2>1, <2>2, FoldStays
<1>. QED BY <1>1, <1>9, <1>11
AppliedFolds(g, v0, events) ==
  g = [s \in SUBSET DOMAIN events |-> IF s = {} THEN v0 ELSE Applied(g[s \ {Max(s)}], events[Max(s)])]

LEMMA AppliedFold ==
  ASSUME NEW V, NEW S, NEW v0 \in V, NEW events \in Seq(S),
         \A q \in V : \A o \in S : Applied(q, o) \in V
  PROVE  FoldLeft(Applied, v0, events) \in V
<1>. DEFINE n == Len(events)
            step == [y \in V \X (1..n) |-> Applied(y[1], events[y[2]])]
<1>1. n \in Nat /\ DOMAIN events = 1..n /\ \A i \in 1..n : events[i] \in S
  BY LenProperties, ElementOfSeq
<1>2. PICK g : Folds(g, SUBSET (1..n), v0, step)
  BY <1>1, FoldExists
<1>. HIDE DEF n
<1>3. ASSUME NEW v \in V, NEW i \in 1..n
      PROVE  step[<<v, i>>] = Applied(v, events[i]) /\ step[<<v, i>>] \in V
  BY <1>1
<1>. HIDE DEF step
<1>4. \A s \in SUBSET (1..n) : g[s] = IF s = {} THEN v0 ELSE step[<<g[s \ {Max(s)}], Max(s)>>]
  BY <1>2 DEF Folds
<1>5. \A s \in SUBSET (1..n) : s # {} => Max(s) \in 1..n /\ s \ {Max(s)} \in SUBSET (1..n)
  BY <1>1, MaxIsIn
<1>6. \A s \in SUBSET (1..n) : g[s] \in V
  <2>1. g[{}] = v0
    BY <1>4
  <2>2. \A s \in SUBSET (1..n) : s # {} => (g[s \ {Max(s)}] \in V => g[s] \in V)
    BY <1>3, <1>4, <1>5
  <2>. QED BY <1>1, <2>1, <2>2, FoldStays
<1>7. AppliedFolds(g, v0, events)
  <2>1. \A s \in SUBSET (1..n) : g[s] = IF s = {} THEN v0 ELSE Applied(g[s \ {Max(s)}], events[Max(s)])
    BY <1>3, <1>4, <1>5, <1>6
  <2>2. g = [s \in SUBSET (1..n) |-> g[s]]
    BY <1>2 DEF Folds
  <2>. QED BY <1>1, <2>1, <2>2 DEF AppliedFolds
<1>. DEFINE h == CHOOSE h : AppliedFolds(h, v0, events)
<1>8. AppliedFolds(h, v0, events)
  BY <1>7
<1>9. FoldLeft(Applied, v0, events) = h[DOMAIN events]
  BY DEF FoldLeft, MapThenFoldSet, AppliedFolds
<1>. HIDE DEF h
<1>10. \A s \in SUBSET (1..n) : h[s] = IF s = {} THEN v0 ELSE Applied(h[s \ {Max(s)}], events[Max(s)])
  BY <1>1, <1>8 DEF AppliedFolds
<1>11. \A s \in SUBSET (1..n) : h[s] \in V
  <2>1. h[{}] = v0
    BY <1>10
  <2>2. \A s \in SUBSET (1..n) : s # {} => (h[s \ {Max(s)}] \in V => h[s] \in V)
    BY <1>1, <1>5, <1>10
  <2>. QED BY <1>1, <2>1, <2>2, FoldStays
<1>. QED BY <1>1, <1>9, <1>11

KeptOf(f, seq, T) ==
  f = [i \in 0..Len(seq) |-> IF i = 0 THEN <<>> ELSE IF seq[i] \in T THEN Append(f[i - 1], seq[i]) ELSE f[i - 1]]

LEMMA KeptExists ==
  ASSUME NEW S, NEW T, NEW seq \in Seq(S)
  PROVE  \E f : KeptOf(f, seq, T)
<1>. DEFINE n == Len(seq)
            step == [y \in Seq(S) \X (1..n) |-> IF seq[y[2]] \in T THEN Append(y[1], seq[y[2]]) ELSE y[1]]
<1>1. n \in Nat /\ \A i \in 1..n : seq[i] \in S
  BY LenProperties, ElementOfSeq
<1>2. PICK g : Folds(g, SUBSET (1..n), <<>>, step)
  BY <1>1, FoldExists
<1>3. ASSUME NEW v \in Seq(S), NEW i \in 1..n
      PROVE  /\ step[<<v, i>>] = IF seq[i] \in T THEN Append(v, seq[i]) ELSE v
             /\ step[<<v, i>>] \in Seq(S)
  BY <1>1, AppendProperties
<1>4. \A s \in SUBSET (1..n) : g[s] = IF s = {} THEN <<>> ELSE step[<<g[s \ {Max(s)}], Max(s)>>]
  <2>. HIDE DEF n, step
  <2>. QED BY <1>2 DEF Folds
<1>. HIDE DEF n, step
<1>5. \A s \in SUBSET (1..n) : s # {} => Max(s) \in 1..n /\ s \ {Max(s)} \in SUBSET (1..n)
  BY <1>1, MaxIsIn
<1>6. \A s \in SUBSET (1..n) : g[s] \in Seq(S)
  <2>1. g[{}] = <<>> /\ <<>> \in Seq(S)
    BY <1>4, EmptySeq
  <2>2. \A s \in SUBSET (1..n) : s # {} => (g[s \ {Max(s)}] \in Seq(S) => g[s] \in Seq(S))
    BY <1>3, <1>4, <1>5
  <2>. QED BY <1>1, <2>1, <2>2, FoldStays
<1>. DEFINE f == [i \in 0..n |-> g[1..i]]
<1>7. ASSUME NEW i \in 1..n
      PROVE  g[1..i] = IF seq[i] \in T THEN Append(g[1 .. (i - 1)], seq[i]) ELSE g[1 .. (i - 1)]
  <2>1. 1..i \in SUBSET (1..n) /\ 1..i # {}
    <3>1. i \in 1..i
      BY <1>1
    <3>2. \A x \in 1..i : x \in 1..n
      BY <1>1
    <3>. QED BY <3>1, <3>2
  <2>2. Max(1..i) = i
    <3>1. i \in 1..i /\ \A x \in 1..i : x \in Int /\ i >= x
      BY <1>1
    <3>2. \A m \in 1..i : (\A x \in 1..i : m >= x) => m = i
      BY <1>1
    <3>. QED BY <3>1, <3>2 DEF Max
  <2>3. (1..i) \ {i} = 1 .. (i - 1)
    BY <1>1
  <2>4. g[1 .. (i - 1)] \in Seq(S)
    BY <1>6, <2>1, <2>3
  <2>5. g[1..i] = step[<<g[1 .. (i - 1)], i>>]
    BY <1>4, <2>1, <2>2, <2>3
  <2>. QED BY <1>3, <2>4, <2>5
<1>8. g[{}] = <<>>
  BY <1>4
<1>9. 1..0 = {}
  OBVIOUS
<1>10. \A i \in 0..n : f[i] = IF i = 0 THEN <<>> ELSE IF seq[i] \in T THEN Append(f[i - 1], seq[i]) ELSE f[i - 1]
  <2>. SUFFICES ASSUME NEW i \in 0..n
                PROVE  f[i] = IF i = 0 THEN <<>> ELSE IF seq[i] \in T THEN Append(f[i - 1], seq[i]) ELSE f[i - 1]
    OBVIOUS
  <2>1. CASE i = 0
    BY <1>8, <1>9, <2>1
  <2>2. CASE i # 0
    <3>1. i \in 1..n /\ i - 1 \in 0..n
      BY <1>1, <2>2
    <3>2. f[i] = g[1..i] /\ f[i - 1] = g[1 .. (i - 1)]
      BY <3>1
    <3>. QED BY <1>7, <2>2, <3>1, <3>2
  <2>. QED BY <2>1, <2>2
<1>11. KeptOf(f, seq, T)
  BY <1>10 DEF KeptOf, n
<1>. QED BY <1>11

LEMMA KeptIsPart ==
  ASSUME NEW S, NEW T, NEW seq \in Seq(S), NEW f, KeptOf(f, seq, T)
  PROVE  f[Len(seq)] \in Seq(S \cap T)
<1>. DEFINE n == Len(seq)
            Bad == {i \in 0..n : f[i] \notin Seq(S \cap T)}
<1>1. n \in Nat /\ \A i \in 1..n : seq[i] \in S
  BY LenProperties, ElementOfSeq
<1>. SUFFICES ASSUME Bad # {} PROVE FALSE
  BY <1>1
<1>2. PICK m \in Bad : \A k \in Bad : ~ (<<k, m>> \in OpToRel(<, Nat))
  <2>. Bad \subseteq Nat
    BY <1>1
  <2>. HIDE DEF Bad
  <2>. QED BY NatLessThanWellFounded, WFMin
<1>3. \A k \in Bad : ~ (k < m)
  <2>1. \A k \in Bad : k \in Nat
    BY <1>1
  <2>. HIDE DEF Bad
  <2>. QED BY <1>2, <2>1 DEF OpToRel
<1>4. f[m] = IF m = 0 THEN <<>> ELSE IF seq[m] \in T THEN Append(f[m - 1], seq[m]) ELSE f[m - 1]
  BY DEF KeptOf
<1>5. m # 0
  BY <1>4, EmptySeq
<1>6. m \in 1..n /\ m - 1 \in 0..n /\ m - 1 < m
  BY <1>1, <1>5
<1>7. f[m - 1] \in Seq(S \cap T)
  BY <1>3, <1>6
<1>8. f[m] \in Seq(S \cap T)
  <2>1. CASE seq[m] \in T
    BY <1>1, <1>4, <1>5, <1>6, <1>7, <2>1, AppendProperties
  <2>2. CASE seq[m] \notin T
    BY <1>4, <1>5, <1>7, <2>2
  <2>. QED BY <2>1, <2>2
<1>. QED BY <1>8

LEMMA SeqOfSubset ==
  ASSUME NEW S, NEW T, S \subseteq T, NEW seq \in Seq(S)
  PROVE  seq \in Seq(T)
<1>1. Len(seq) \in Nat /\ seq \in [1..Len(seq) -> S]
  BY SeqDef, LenProperties
<1>2. seq \in [1..Len(seq) -> T]
  BY <1>1
<1>. QED BY <1>1, <1>2, SeqDef

(* What is known of a history is a part of it, and a snapshot leaves the    *)
(* events of orders.                                                       *)
LEMMA KnownRows ==
  ASSUME NEW S, NEW T, NEW seq \in Seq(S)
  PROVE  Kept(seq, T) \in Seq(S \cap T)
<1>. DEFINE f == CHOOSE f : KeptOf(f, seq, T)
<1>1. KeptOf(f, seq, T)
  BY KeptExists
<1>2. Kept(seq, T) = f[Len(seq)]
  BY DEF Kept, KeptOf
<1>. HIDE DEF f
<1>. QED BY <1>1, <1>2, KeptIsPart

LEMMA OrderRows ==
  ASSUME NEW S, NEW seq \in Seq(S)
  PROVE  Outdated(seq) \in Seq({e \in S : e.topic = "order"})
<1>. DEFINE T == {e \in ToSet(seq) : e.topic = "order"}
<1>1. Outdated(seq) \in Seq(S \cap T)
  BY KnownRows DEF Outdated
<1>2. S \cap T \subseteq {e \in S : e.topic = "order"}
  OBVIOUS
<1>. QED BY <1>1, <1>2, SeqOfSubset

-----------------------------------------------------------------------------
(* The invariant.                                                          *)

Statuses == {"none", "New", "Filled", "Cancelled"}
Plans == [id : Grids, takes : Seq(Orders), filled : Seq(Orders), cancelled : SUBSET Orders,
          target : Nat, applied : BOOLEAN, active : BOOLEAN]
Requests == [g : Grids, stale : Seq(Orders), had : BOOLEAN, placed : Nat]
Positions == [open : BOOLEAN, stop : Nat]
Views == [position : Positions, orders : SUBSET Orders]
Pcs == {"history", "save", "place", "cancel", "post", "closed", "applied", "stands", "end"}
Steps == [pc : Pcs, plan : Plans, moved : BOOLEAN, missing : SUBSET Orders]

Final(o) == orders[o] \in {"Filled", "Cancelled"}
Ended == {o \in Orders : Final(o)}

(* What is on the wire and in the queue is true, whenever it is read: an    *)
(* order told to be done is done, a position told to be gone is gone.       *)
OrderEvents == {e \in [topic : {"order"}, order : Orders, status : {"New", "Filled", "Cancelled"}] :
                  e.status # "New" => e.order \in Ended}
PositionEvents == {e \in [topic : {"position"}, open : BOOLEAN, stop : Nat] : e.open \/ size = 0}
Events == OrderEvents \cup PositionEvents
TruePositions == {p \in Positions : p.open \/ size = 0}
TrueJobs == {Reconciling, [kind |-> "gone"]} \cup {[kind |-> "orders", order |-> o] : o \in Ended}

Types ==
  /\ size \in 0..Size /\ stop \in Nat /\ mark \in Marks
  /\ orders \in [Orders -> Statuses] /\ done \in Seq(Ended)
  /\ grid # NoGrid => grid \in Requests /\ grid.placed <= Len(TakesOf[grid.g])
  /\ plan # NoPlan => plan \in Plans
  /\ up \in BOOLEAN /\ wire \in Seq(Events)
  /\ view # NoView => up /\ view \in Views /\ view.position \in TruePositions
  /\ planned \in BOOLEAN /\ due \in BOOLEAN /\ tries \in 0 .. UnknownTries + 1
  /\ queue \in Seq(TrueJobs) /\ (job # NoJob => job \in Steps)
  /\ own \in [Grids -> Nat]

(* A plan is made of takes that were placed, of the grid it is named after, *)
(* and counts them as the exchange does.                                    *)
Sound(p, rows, set) ==
  /\ p.takes # <<>> /\ ToSet(p.takes) \subseteq ToSet(TakesOf[p.id])
  /\ \A o \in ToSet(p.takes) : rows[o] # "none"
  /\ ToSet(p.filled) \cup p.cancelled \subseteq ToSet(p.takes)
  /\ Len(p.filled) = Cardinality(ToSet(p.filled))
  /\ \A o \in ToSet(p.filled) : rows[o] = "Filled"
  /\ \A o \in p.cancelled : rows[o] = "Cancelled"
  /\ set[p.id] <= p.target
PlansSound ==
  /\ plan # NoPlan => Sound(plan, orders, own)
  /\ job # NoJob => Sound(job.plan, orders, own)

(* The copy a step carries may be ahead of the plan until it is saved, and  *)
(* not otherwise.                                                           *)
CopyOfPlan ==
  plan # NoPlan /\ job # NoJob /\ plan.id = job.plan.id =>
    /\ plan.takes = job.plan.takes
    /\ IF job.pc = "save" THEN plan.target <= job.plan.target ELSE plan.target = job.plan.target

(* The grid under way is a new one: its takes are placed one by one, and no *)
(* plan and no stop were ever of it.                                        *)
NewGrid ==
  grid # NoGrid =>
    /\ \A i \in DOMAIN TakesOf[grid.g] : i > grid.placed <=> orders[TakesOf[grid.g][i]] = "none"
    /\ plan # NoPlan => plan.id # grid.g
    /\ job # NoJob => job.plan.id # grid.g
    /\ own[grid.g] = 0
OwnIsPlaced == \A g \in Grids : own[g] > 0 => \E o \in ToSet(TakesOf[g]) : orders[o] # "none"

EndIsDue ==
  job # NoJob =>
    /\ job.pc = "closed" => size = 0
    /\ job.pc = "end" => size = 0 \/ (job.plan.applied /\ Pending(job.plan) = {})

IInv == Types /\ PlansSound /\ CopyOfPlan /\ NewGrid /\ OwnIsPlaced /\ EndIsDue

-----------------------------------------------------------------------------
(* The exchange: an order that is done stays so, as does a position that    *)
(* is gone, so that what was true on the wire stays true.                   *)

ExchangeOK ==
  /\ size \in 0..Size /\ stop \in Nat /\ mark \in Marks
  /\ orders \in [Orders -> Statuses] /\ done \in Seq(Ended) /\ wire \in Seq(Events)

Lives ==
  /\ \A o \in Orders : /\ Final(o) => orders'[o] = orders[o]
                       /\ orders[o] # "none" => orders'[o] # "none"
  /\ size = 0 => size' = 0

LEMMA OrdersFinite == IsFiniteSet(Orders)
<1>. DEFINE T == {ToSet(TakesOf[g]) : g \in Grids}
            f == [g \in Grids |-> ToSet(TakesOf[g])]
<1>1. IsFiniteSet(T)
  <2>1. f \in Surjection(Grids, T)
    BY DEF Surjection
  <2>. HIDE DEF f, T
  <2>. QED BY <2>1, GridsAreSane, FS_Surjection
<1>2. ASSUME NEW g \in Grids PROVE IsFiniteSet(ToSet(TakesOf[g]))
  <2>. DEFINE s == TakesOf[g]
              h == [i \in 1..Len(s) |-> s[i]]
  <2>1. s \in Seq(Orders)
    BY GridsAreSane
  <2>. HIDE DEF s
  <2>2. DOMAIN s = 1..Len(s) /\ Len(s) \in Nat
    BY <2>1, LenProperties
  <2>3. h \in Surjection(1..Len(s), ToSet(s))
    BY <2>2 DEF Surjection, ToSet
  <2>4. IsFiniteSet(1..Len(s))
    BY <2>2, FS_Interval
  <2>. HIDE DEF h
  <2>5. IsFiniteSet(ToSet(s))
    BY <2>3, <2>4, FS_Surjection
  <2>. QED BY <2>5 DEF s
<1>3. \A S \in T : IsFiniteSet(S)
  BY <1>2
<1>4. Orders = UNION T
  BY DEF Orders
<1>. HIDE DEF T
<1>. QED BY <1>1, <1>3, <1>4, FS_UNION

LEMMA SetToSeqIs ==
  ASSUME NEW S \in SUBSET Orders
  PROVE  SetToSeq(S) \in Seq(S)
<1>1. IsFiniteSet(S)
  BY OrdersFinite, FS_Subset
<1>2. Cardinality(S) \in Nat
  BY <1>1, FS_CardinalityType
<1>3. PICK n \in Nat : ExistsBijection(1..n, S)
  BY <1>1, FS_NatBijection
<1>4. n = Cardinality(S)
  BY <1>3, FS_CountingElements
<1>5. \E f \in [1..Cardinality(S) -> S] : IsInjective(f)
  <2>1. PICK f \in Bijection(1..n, S) : TRUE
    BY <1>3 DEF ExistsBijection
  <2>2. f \in [1..n -> S] /\ IsInjective(f)
    BY <2>1 DEF Bijection, Injection, IsInjective
  <2>. QED BY <1>4, <2>2
<1>6. SetToSeq(S) \in [1..Cardinality(S) -> S]
  BY <1>5 DEF SetToSeq
<1>. HIDE DEF SetToSeq
<1>. QED BY <1>2, <1>6, SeqDef

LEMMA Monotone ==
  ASSUME ExchangeOK, Lives
  PROVE  /\ Ended \subseteq Ended' /\ Events \subseteq Events'
         /\ TrueJobs \subseteq TrueJobs' /\ TruePositions \subseteq TruePositions'
<1>1. Ended \subseteq Ended'
  BY DEF Lives, Ended, Final
<1>2. OrderEvents \subseteq OrderEvents'
  BY <1>1 DEF OrderEvents
<1>3. PositionEvents \subseteq PositionEvents'
  BY DEF PositionEvents, Lives
<1>4. TrueJobs \subseteq TrueJobs'
  BY <1>1 DEF TrueJobs
<1>5. TruePositions \subseteq TruePositions'
  BY DEF TruePositions, Lives
<1>. QED BY <1>1, <1>2, <1>3, <1>4, <1>5 DEF Events

EventsKnown ==
  /\ \A o \in Orders : OrderEvent(o, "New") \in Events
  /\ \A o \in Ended, s \in {"Filled", "Cancelled"} : OrderEvent(o, s) \in Events
  /\ \A s \in Nat : PositionEvent(TRUE, s) \in Events
  /\ size = 0 => PositionEvent(FALSE, 0) \in Events

LEMMA EventsAre == EventsKnown'
BY DEF EventsKnown, Events, OrderEvents, PositionEvents, OrderEvent, PositionEvent, Ended

LEMMA TellFacts ==
  ASSUME ExchangeOK, Lives, NEW events \in Seq(Events'), Tell(events)
  PROVE  wire' \in Seq(Events')
<1>1. wire \in Seq(Events')
  BY Monotone, SeqMonotonic DEF ExchangeOK
<1>. QED BY <1>1, ConcatProperties DEF Tell

LEMMA CanceledEvents ==
  ASSUME NEW S, NEW left \in Seq(S), NEW E, \A o \in S : OrderEvent(o, "Cancelled") \in E
  PROVE  [i \in DOMAIN left |-> OrderEvent(left[i], "Cancelled")] \in Seq(E)
<1>1. DOMAIN left = 1..Len(left) /\ Len(left) \in Nat /\ \A i \in 1..Len(left) : left[i] \in S
  BY LenProperties, ElementOfSeq
<1>2. [i \in 1..Len(left) |-> OrderEvent(left[i], "Cancelled")] \in [1..Len(left) -> E]
  BY <1>1
<1>. QED BY <1>1, <1>2, SeqDef

LEMMA One == ASSUME NEW S, NEW x \in S PROVE <<x>> \in Seq(S)
OBVIOUS

LEMMA GoneFacts ==
  ASSUME ExchangeOK, NEW o \in Orders, Gone(o)
  PROVE  Lives /\ ExchangeOK'
<1>1. orders' = [orders EXCEPT ![o] = IF @ = "New" THEN "Cancelled" ELSE @]
      /\ size' = size /\ stop' = stop /\ mark' = mark
  BY DEF Gone
<1>2. Lives
  BY <1>1 DEF Lives, Final, ExchangeOK, Statuses
<1>3. orders' \in [Orders -> Statuses]
  BY <1>1 DEF ExchangeOK, Statuses
<1>4. o \in Open => o \in Ended'
  BY <1>1 DEF Open, Ended, Final, ExchangeOK
<1>5. done' \in Seq(Ended')
  <2>1. done \in Seq(Ended')
    BY <1>2, Monotone, SeqMonotonic DEF ExchangeOK
  <2>. QED BY <1>4, <2>1, AppendProperties DEF Gone
<1>6. wire' \in Seq(Events')
  <2>. DEFINE told == IF o \in Open THEN <<OrderEvent(o, "Cancelled")>> ELSE <<>>
  <2>1. o \in Open => OrderEvent(o, "Cancelled") \in Events'
    BY <1>4, EventsAre DEF EventsKnown
  <2>2. told \in Seq(Events')
    BY <2>1, One, EmptySeq
  <2>3. Tell(told)
    BY DEF Gone
  <2>. HIDE DEF told
  <2>. QED BY <1>2, <2>2, <2>3, TellFacts
<1>. QED BY <1>1, <1>2, <1>3, <1>5, <1>6 DEF ExchangeOK

LEMMA ClosedFacts ==
  ASSUME ExchangeOK, Closed, mark' \in Marks
  PROVE  Lives /\ ExchangeOK'
<1>. DEFINE left == SetToSeq(Open)
            canceled == [i \in DOMAIN left |-> OrderEvent(left[i], "Cancelled")]
<1>1. orders' = [o \in Orders |-> IF o \in Open THEN "Cancelled" ELSE orders[o]] /\ size' = 0 /\ stop' = 0
  BY DEF Closed
<1>2. Lives
  BY <1>1 DEF Lives, Final, ExchangeOK, Statuses, Open
<1>3. orders' \in [Orders -> Statuses]
  BY <1>1 DEF ExchangeOK, Statuses
<1>4. Open \in SUBSET Orders /\ Open \subseteq Ended'
  BY <1>1 DEF Open, Ended, Final
<1>5. left \in Seq(Open)
  BY <1>4, SetToSeqIs
<1>6. done' = done \o left /\ Tell(canceled \o <<PositionEvent(FALSE, 0)>>)
  BY DEF Closed
<1>. HIDE DEF left
<1>7. done' \in Seq(Ended')
  <2>1. done \in Seq(Ended') /\ left \in Seq(Ended')
    BY <1>2, <1>4, <1>5, Monotone, SeqMonotonic DEF ExchangeOK
  <2>. QED BY <1>6, <2>1, ConcatProperties
<1>8. wire' \in Seq(Events')
  <2>1. \A o \in Open : OrderEvent(o, "Cancelled") \in Events'
    BY <1>4, EventsAre DEF EventsKnown
  <2>2. canceled \in Seq(Events')
    BY <1>5, <2>1, CanceledEvents
  <2>3. PositionEvent(FALSE, 0) \in Events'
    BY <1>1, EventsAre DEF EventsKnown
  <2>. HIDE DEF canceled
  <2>4. canceled \o <<PositionEvent(FALSE, 0)>> \in Seq(Events')
    BY <2>2, <2>3, One, ConcatProperties
  <2>. QED BY <1>2, <1>6, <2>4, TellFacts
<1>9. size' \in 0..Size /\ stop' \in Nat
  BY <1>1, GridsAreSane
<1>. QED BY <1>2, <1>3, <1>7, <1>8, <1>9 DEF ExchangeOK

LEMMA StopSetFacts ==
  ASSUME ExchangeOK, NEW s \in Nat, StopSet(s)
  PROVE  Lives /\ ExchangeOK'
<1>1. stop' = s /\ size' = size /\ mark' = mark /\ orders' = orders /\ done' = done
  BY DEF StopSet
<1>2. Lives
  BY <1>1 DEF Lives
<1>3. <<PositionEvent(TRUE, s)>> \in Seq(Events')
  <2>1. PositionEvent(TRUE, s) \in Events'
    BY EventsAre DEF EventsKnown
  <2>. QED BY <2>1, One
<1>4. wire' \in Seq(Events')
  BY <1>2, <1>3, TellFacts DEF StopSet
<1>5. Ended' = Ended
  BY <1>1 DEF Ended, Final
<1>. QED BY <1>1, <1>2, <1>4, <1>5 DEF ExchangeOK

LEMMA FillFacts ==
  ASSUME ExchangeOK, NEW o \in Orders, Fill(o)
  PROVE  Lives /\ ExchangeOK'
<1>. DEFINE left == IF size = 1 THEN SetToSeq(Open \ {o}) ELSE <<>>
            filled == <<OrderEvent(o, "Filled")>>
            canceled == [i \in DOMAIN left |-> OrderEvent(left[i], "Cancelled")]
            gone == IF size = 1 THEN <<PositionEvent(FALSE, 0)>> ELSE <<>>
            told == filled \o canceled \o gone
<1>1. /\ o \in Open /\ size > 0 /\ size' = size - 1 /\ mark' = mark
      /\ orders' = [x \in Orders |-> IF x = o THEN "Filled"
                                     ELSE IF x \in ToSet(left) THEN "Cancelled" ELSE orders[x]]
      /\ done' = Append(done, o) \o left
      /\ stop' = IF size = 1 THEN 0 ELSE stop
      /\ Tell(told) \/ Tell(filled \o told)
  BY DEF Fill
<1>2. left \in Seq(Open)
  <2>1. Open \ {o} \in SUBSET Orders
    BY DEF Open
  <2>2. SetToSeq(Open \ {o}) \in Seq(Open)
    BY <2>1, SetToSeqIs, SeqMonotonic
  <2>. QED BY <2>2, EmptySeq
<1>. HIDE DEF left
<1>3. ToSet(left) \subseteq Open
  BY <1>2, LenProperties, ElementOfSeq DEF ToSet
<1>4. Lives
  BY <1>1, <1>3 DEF Lives, Final, ExchangeOK, Statuses, Open
<1>5. orders' \in [Orders -> Statuses]
  BY <1>1 DEF ExchangeOK, Statuses
<1>6. o \in Ended' /\ ToSet(left) \subseteq Ended'
  BY <1>1, <1>3 DEF Open, Ended, Final
<1>7. left \in Seq(ToSet(left))
  <2>1. Len(left) \in Nat /\ DOMAIN left = 1..Len(left) /\ left \in [1..Len(left) -> ToSet(left)]
    BY <1>2, LenProperties DEF ToSet
  <2>. QED BY <2>1, SeqDef
<1>8. done' \in Seq(Ended')
  <2>1. done \in Seq(Ended') /\ left \in Seq(Ended')
    BY <1>4, <1>6, <1>7, Monotone, SeqMonotonic DEF ExchangeOK
  <2>2. Append(done, o) \in Seq(Ended')
    BY <1>6, <2>1, AppendProperties
  <2>. QED BY <1>1, <2>1, <2>2, ConcatProperties
<1>9. wire' \in Seq(Events')
  <2>1. filled \in Seq(Events')
    BY <1>6, One, EventsAre DEF EventsKnown
  <2>2. canceled \in Seq(Events')
    <3>1. \A x \in ToSet(left) : OrderEvent(x, "Cancelled") \in Events'
      BY <1>6, EventsAre DEF EventsKnown
    <3>. QED BY <1>7, <3>1, CanceledEvents
  <2>3. gone \in Seq(Events')
    <3>1. CASE size = 1
      <4>1. size' = 0
        BY <1>1, <3>1
      <4>2. PositionEvent(FALSE, 0) \in Events'
        BY <4>1, EventsAre DEF EventsKnown
      <4>. QED BY <3>1, <4>2, One
    <3>2. CASE size # 1
      BY <3>2, EmptySeq
    <3>. QED BY <3>1, <3>2
  <2>. HIDE DEF filled, canceled, gone
  <2>4. told \in Seq(Events') /\ filled \o told \in Seq(Events')
    BY <2>1, <2>2, <2>3, ConcatProperties
  <2>. HIDE DEF told
  <2>. QED BY <1>1, <1>4, <2>4, TellFacts
<1>10. size' \in 0..Size /\ stop' \in Nat /\ mark' \in Marks
  BY <1>1, GridsAreSane DEF ExchangeOK
<1>. QED BY <1>4, <1>5, <1>8, <1>9, <1>10 DEF ExchangeOK

LEMMA PlaceFacts ==
  ASSUME Types, NewGrid, GridPlace
  PROVE  /\ Lives /\ ExchangeOK'
         /\ \E i \in DOMAIN TakesOf[grid.g] :
              /\ i = grid.placed + 1 /\ orders[TakesOf[grid.g][i]] = "none"
              /\ orders' = [orders EXCEPT ![TakesOf[grid.g][i]] = "New"]
<1>. DEFINE i == grid.placed + 1
            o == TakesOf[grid.g][i]
<1>0. ExchangeOK
  BY DEF Types, ExchangeOK
<1>1. /\ grid # NoGrid /\ grid \in Requests /\ grid.placed < Len(TakesOf[grid.g]) /\ size' = size
      /\ orders' = [orders EXCEPT ![o] = "New"] /\ Tell(<<OrderEvent(o, "New")>>)
      /\ stop' = stop /\ mark' = mark /\ done' = done
  BY DEF GridPlace, Placing, Types
<1>2. grid.g \in Grids /\ grid.placed \in Nat /\ TakesOf[grid.g] \in Seq(Orders)
  BY <1>1, GridsAreSane DEF Requests
<1>3. i \in DOMAIN TakesOf[grid.g] /\ o \in Orders
  BY <1>1, <1>2, LenProperties, ElementOfSeq
<1>4. orders[o] = "none"
  BY <1>1, <1>2, <1>3 DEF NewGrid
<1>. HIDE DEF o
<1>5. Lives
  BY <1>1, <1>3, <1>4 DEF Lives, Final, Types
<1>6. orders' \in [Orders -> Statuses]
  BY <1>1 DEF Types, Statuses
<1>7. done' \in Seq(Ended')
  BY <1>0, <1>1, <1>5, Monotone, SeqMonotonic DEF Types
<1>8. <<OrderEvent(o, "New")>> \in Seq(Events')
  BY <1>3, One, EventsAre DEF EventsKnown
<1>9. wire' \in Seq(Events')
  BY <1>0, <1>1, <1>5, <1>8, TellFacts
<1>10. ExchangeOK'
  BY <1>1, <1>6, <1>7, <1>9 DEF ExchangeOK, Types
<1>. QED BY <1>1, <1>3, <1>4, <1>5, <1>10 DEF o

LEMMA Still ==
  ASSUME ExchangeOK, exchange' = exchange
  PROVE  /\ Lives /\ Ended' = Ended /\ Events' = Events
         /\ (wire' \in Seq(Events) => ExchangeOK')
<1>1. size' = size /\ stop' = stop /\ mark' = mark /\ orders' = orders /\ done' = done
  BY DEF exchange
<1>2. Lives
  BY <1>1 DEF Lives
<1>3. Ended' = Ended
  BY <1>1 DEF Ended, Final
<1>4. Events' = Events
  BY <1>1, <1>3 DEF Events, OrderEvents, PositionEvents
<1>. QED BY <1>1, <1>2, <1>3, <1>4 DEF ExchangeOK

(* Every step keeps the exchange in its type, and nothing that is over      *)
(* begins again.                                                           *)
LEMMA ExchangeStep ==
  ASSUME IInv, [Next]_vars
  PROVE  Lives /\ ExchangeOK'
<1>0. Types /\ NewGrid /\ ExchangeOK
  BY DEF IInv, Types, ExchangeOK
<1>1. ASSUME exchange' = exchange, wire' = wire
      PROVE  Lives /\ ExchangeOK'
  BY <1>0, <1>1, Still DEF ExchangeOK
<1>2. ASSUME NEW o \in Orders, Fill(o)
      PROVE  Lives /\ ExchangeOK'
  BY <1>0, <1>2, FillFacts
<1>3. ASSUME NEW m \in Marks, PriceMoves(m)
      PROVE  Lives /\ ExchangeOK'
  <2>1. CASE stop > 0 /\ m <= stop
    BY <1>0, <1>3, <2>1, ClosedFacts DEF PriceMoves
  <2>2. CASE ~ (stop > 0 /\ m <= stop)
    <3>1. size' = size /\ stop' = stop /\ orders' = orders /\ done' = done /\ wire' = wire /\ mark' \in Marks
      BY <1>3, <2>2 DEF PriceMoves
    <3>2. Ended' = Ended
      BY <3>1 DEF Ended, Final
    <3>3. Events' = Events
      BY <3>1, <3>2 DEF Events, OrderEvents, PositionEvents
    <3>. QED BY <1>0, <3>1, <3>2, <3>3 DEF ExchangeOK, Lives
  <2>. QED BY <2>1, <2>2
<1>4. ASSUME NEW s \in Stops, MoveByHand(s)
      PROVE  Lives /\ ExchangeOK'
  BY <1>0, <1>4, StopSetFacts, GridsAreSane DEF MoveByHand
<1>5. CASE GridCancel
  <2>1. grid \in Requests /\ grid.stale # <<>> /\ Gone(Head(grid.stale))
    BY <1>0, <1>5 DEF GridCancel, Types
  <2>2. Head(grid.stale) \in Orders
    BY <2>1, HeadTailProperties DEF Requests
  <2>. QED BY <1>0, <2>1, <2>2, GoneFacts
<1>6. CASE GridPlace
  BY <1>0, <1>6, PlaceFacts
<1>7. CASE GridRecord \/ GridLost \/ \E g \in Grids : GridStart(g)
  BY <1>1, <1>7 DEF GridRecord, GridLost, GridStart, stream
<1>8. CASE Snapshot \/ Deliver \/ Disconnect \/ Die
  <2>1. exchange' = exchange
    BY <1>8 DEF Snapshot, Deliver, Disconnect, Die
  <2>2. wire' \in Seq(Events)
    <3>1. CASE Snapshot
      <4>1. PICK k \in 0..Len(wire) : wire' = Outdated(SubSeq(wire, k + 1, Len(wire)))
        BY <3>1 DEF Snapshot
      <4>2. SubSeq(wire, k + 1, Len(wire)) \in Seq(Events)
        BY <1>0, <4>1, LenProperties, SubSeqProperties, ElementOfSeq DEF ExchangeOK
      <4>3. wire' \in Seq({e \in Events : e.topic = "order"})
        BY <4>1, <4>2, OrderRows
      <4>. QED BY <4>3, SeqMonotonic
    <3>2. CASE Deliver
      BY <1>0, <3>2, HeadTailProperties DEF Deliver, ExchangeOK
    <3>3. CASE Disconnect \/ Die
      BY <3>3, EmptySeq DEF Disconnect, Die
    <3>. QED BY <1>8, <3>1, <3>2, <3>3
  <2>. QED BY <1>0, <2>1, <2>2, Still
<1>9. CASE Connect \/ Resnapshot \/ Pinned \/ Idle
  BY <1>1, <1>9 DEF Connect, Resnapshot, Pinned, Idle, stream
<1>10. CASE Begin \/ History \/ Save \/ Place \/ PostRefused \/ TryFails \/ MarkApplied \/ End \/ StepFails
  BY <1>1, <1>10 DEF Begin, History, Save, Place, PostRefused, TryFails, MarkApplied, End, StepFails, stream
<1>11. ASSUME NEW o \in Orders, CancelTake(o)
       PROVE  Lives /\ ExchangeOK'
  BY <1>0, <1>11, GoneFacts DEF CancelTake
<1>12. CASE CloseAtMarket
  <2>1. CASE size > 0
    BY <1>0, <1>12, <2>1, ClosedFacts DEF CloseAtMarket, ExchangeOK
  <2>2. CASE ~ (size > 0)
    BY <1>1, <1>12, <2>2 DEF CloseAtMarket
  <2>. QED BY <2>1, <2>2
<1>13. CASE PostStop
  <2>1. CASE stop = job.plan.target
    BY <1>1, <1>13, <2>1 DEF PostStop
  <2>2. CASE stop # job.plan.target
    <3>1. job.plan.target \in Nat /\ StopSet(job.plan.target)
      BY <1>0, <1>13, <2>2 DEF PostStop, At, Types, Steps, Plans
    <3>. QED BY <1>0, <3>1, StopSetFacts
  <2>. QED BY <2>1, <2>2
<1>14. CASE UNCHANGED vars
  BY <1>1, <1>14 DEF vars, exchange, stream
<1>. QED
  BY <1>2, <1>3, <1>4, <1>5, <1>6, <1>7, <1>8, <1>9, <1>10, <1>11, <1>12, <1>13, <1>14
     DEF Next, Api, Socket, Worker

-----------------------------------------------------------------------------
(* What a step makes of a plan.                                            *)

LEMMA SoundKept ==
  ASSUME NEW p, NEW rows, NEW rows2, NEW set, NEW set2, p \in Plans, Sound(p, rows, set),
         \A o \in Orders : /\ rows[o] \in {"Filled", "Cancelled"} => rows2[o] = rows[o]
                           /\ rows[o] # "none" => rows2[o] # "none",
         set2[p.id] <= p.target
  PROVE  Sound(p, rows2, set2)
<1>1. ToSet(p.takes) \subseteq Orders /\ p.cancelled \subseteq Orders /\ ToSet(p.filled) \subseteq Orders
  BY LenProperties, ElementOfSeq DEF Plans, ToSet
<1>. QED BY <1>1 DEF Sound

LEMMA AppendSet ==
  ASSUME NEW S, NEW s \in Seq(S), NEW x \in S
  PROVE  ToSet(Append(s, x)) = ToSet(s) \cup {x}
<1>1. /\ Append(s, x) \in Seq(S) /\ Len(Append(s, x)) = Len(s) + 1 /\ Len(s) \in Nat
      /\ \A i \in 1..Len(s) : Append(s, x)[i] = s[i]
      /\ Append(s, x)[Len(s) + 1] = x
  BY AppendProperties, LenProperties
<1>2. DOMAIN s = 1..Len(s) /\ DOMAIN Append(s, x) = 1 .. Len(s) + 1
  BY <1>1, LenProperties
<1>. DEFINE t == Append(s, x)
<1>. HIDE DEF t
<1>3. ToSet(t) \subseteq ToSet(s) \cup {x}
  BY <1>1, <1>2 DEF ToSet, t
<1>4. ToSet(s) \cup {x} \subseteq ToSet(t)
  BY <1>1, <1>2 DEF ToSet, t
<1>. QED BY <1>3, <1>4 DEF t

LEMMA PositionIs ==
  ASSUME Types
  PROVE  /\ Position \in Positions
         /\ view # NoView /\ ~ Position.open => size = 0
BY DEF Types, Position, NoPosition, Positions, Views, TruePositions

LEMMA TargetIs ==
  ASSUME NEW fills \in Seq(Orders), fills # <<>>, NEW current \in Nat, NEW explicit \in Nat
  PROVE  /\ FollowTarget(fills, current, explicit) \in Nat
         /\ FollowTarget(fills, current, explicit) # 0 => FollowTarget(fills, current, explicit) > current
<1>. DEFINE n == Len(fills)
            target == IF explicit > 0 THEN explicit ELSE IF n >= 2 THEN Price[fills[n - 1]] ELSE Entry
<1>1. n \in Nat \ {0} /\ \A i \in 1..n : fills[i] \in Orders
  BY EmptySeq, ElementOfSeq
<1>2. n >= 2 => Price[fills[n - 1]] \in Nat
  <2>1. n >= 2 => n - 1 \in 1..n
    BY <1>1
  <2>. QED BY <1>1, <2>1, GridsAreSane
<1>3. target \in Nat
  BY <1>2, GridsAreSane
<1>4. FollowTarget(fills, current, explicit) = IF target < Price[fills[n]] /\ target > current THEN target ELSE 0
  BY DEF FollowTarget
<1>. HIDE DEF target, FollowTarget
<1>. QED BY <1>3, <1>4

(* A plan that follows another is the same plan, later.                    *)
Follows(p, q) ==
  /\ q \in Plans /\ q.id = p.id /\ q.takes = p.takes /\ q.target >= p.target
  /\ Sound(q, orders, own)

LEMMA FilledPlan ==
  ASSUME NEW q \in Plans, NEW fills \in Seq(Orders)
  PROVE  LET r == [q EXCEPT !.filled = fills]
         IN  /\ r \in Plans /\ r.takes = q.takes /\ r.id = q.id /\ r.filled = fills
             /\ r.cancelled = q.cancelled /\ r.target = q.target /\ r.target >= q.target
<1>. DEFINE r == [q EXCEPT !.filled = fills]
<1>1. r \in Plans
  BY DEF Plans
<1>2. r.takes = q.takes /\ r.id = q.id /\ r.filled = fills /\ r.cancelled = q.cancelled /\ r.target = q.target
  BY DEF Plans
<1>3. q.target \in Nat
  BY DEF Plans
<1>. HIDE DEF r
<1>. QED BY <1>1, <1>2, <1>3 DEF r

LEMMA AdvanceFollows ==
  ASSUME Types, NEW p, NEW q, Follows(p, q), p.target \in Nat, NEW o \in Ended
  PROVE  Follows(p, Advance(q, o))
<1>. DEFINE fills == Append(q.filled, o)
            target == FollowTarget(fills, Tightest(q), StopAfter[o])
<1>1. /\ q \in Plans /\ q.id = p.id /\ q.takes = p.takes /\ q.target >= p.target /\ Sound(q, orders, own)
      /\ q.id \in Grids /\ q.filled \in Seq(Orders) /\ q.target \in Nat /\ q.cancelled \subseteq Orders
      /\ own \in [Grids -> Nat]
  BY DEF Follows, Plans, Types
<1>2. o \in Orders /\ orders[o] \in {"Filled", "Cancelled"}
  BY DEF Ended, Final
<1>3. CASE o \notin Pending(q)
  BY <1>1, <1>3 DEF Advance, Follows
<1>4. CASE o \in Pending(q) /\ orders[o] # "Filled"
  <2>. DEFINE r == [q EXCEPT !.cancelled = @ \cup {o}]
  <2>1. Advance(q, o) = r
    BY <1>4 DEF Advance
  <2>2. /\ r.takes = q.takes /\ r.id = q.id /\ r.filled = q.filled /\ r.target = q.target
        /\ r.cancelled = q.cancelled \cup {o} /\ r \in Plans
    BY <1>1, <1>2 DEF Plans
  <2>3. o \in ToSet(q.takes) /\ orders[o] = "Cancelled"
    BY <1>2, <1>4 DEF Pending
  <2>. HIDE DEF r
  <2>4. Sound(r, orders, own)
    BY <1>1, <2>2, <2>3 DEF Sound
  <2>. QED BY <1>1, <2>1, <2>2, <2>4 DEF Follows
<1>5. CASE o \in Pending(q) /\ orders[o] = "Filled"
  <2>1. fills \in Seq(Orders) /\ fills # <<>> /\ Len(fills) = Len(q.filled) + 1 /\ ToSet(fills) = ToSet(q.filled) \cup {o}
    BY <1>1, <1>2, AppendProperties, AppendSet
  <2>2. Tightest(q) \in Nat /\ Tightest(q) >= q.target
    BY <1>1, PositionIs DEF Tightest, Positions
  <2>3. StopAfter[o] \in Nat
    BY <1>2, GridsAreSane
  <2>. HIDE DEF fills
  <2>4. target \in Nat /\ (target # 0 => target > Tightest(q))
    BY <2>1, <2>2, <2>3, TargetIs
  <2>. DEFINE r == Advance(q, o)
  <2>5. r = IF target = 0 THEN [q EXCEPT !.filled = fills]
            ELSE [q EXCEPT !.filled = fills, !.target = target, !.applied = FALSE]
    BY <1>5 DEF Advance, fills
  <2>. HIDE DEF target, r
  <2>6. /\ r.takes = q.takes /\ r.id = q.id /\ r.filled = fills /\ r.cancelled = q.cancelled
        /\ r.target >= q.target /\ r \in Plans
    <3>1. CASE target = 0
      BY <1>1, <2>1, <2>5, <3>1, FilledPlan
    <3>2. CASE target # 0
      <4>1. r = [q EXCEPT !.filled = fills, !.target = target, !.applied = FALSE]
        BY <2>5, <3>2
      <4>2. /\ r \in Plans /\ r.takes = q.takes /\ r.id = q.id /\ r.filled = fills
            /\ r.cancelled = q.cancelled /\ r.target = target
        <5>1. q \in Plans
          BY <1>1
        <5>2. fills \in Seq(Orders)
          BY <2>1
        <5>3. target \in Nat
          BY <2>4
        <5>4. r \in Plans
          BY ONLY <4>1, <5>1, <5>2, <5>3 DEF Plans
        <5>5. /\ r.takes = q.takes /\ r.id = q.id /\ r.filled = fills
              /\ r.cancelled = q.cancelled /\ r.target = target
          BY ONLY <4>1, <5>1, <5>2, <5>3 DEF Plans
        <5>. QED BY <5>4, <5>5
      <4>3. target >= q.target
        BY <1>1, <2>2, <2>4, <3>2
      <4>. QED BY <4>2, <4>3
    <3>. QED BY <3>1, <3>2
  <2>7. o \in ToSet(q.takes) /\ o \notin ToSet(q.filled)
    BY <1>5 DEF Pending
  <2>8. IsFiniteSet(ToSet(q.filled)) /\ Cardinality(ToSet(q.filled)) = Len(q.filled) /\ Len(q.filled) \in Nat
    <3>1. ToSet(q.filled) \subseteq Orders
      BY <1>1, LenProperties, ElementOfSeq DEF ToSet
    <3>. QED BY <1>1, <3>1, OrdersFinite, FS_Subset, LenProperties DEF Sound
  <2>9. Cardinality(ToSet(fills)) = Len(fills)
    BY <2>1, <2>7, <2>8, FS_AddElement
  <2>10. own[r.id] <= r.target
    BY <1>1, <2>6 DEF Sound, Plans
  <2>11. Sound(r, orders, own)
    BY <1>1, <1>5, <2>1, <2>6, <2>7, <2>9, <2>10 DEF Sound
  <2>12. r.target >= p.target
    BY <1>1, <2>6 DEF Plans
  <2>. QED BY <1>1, <2>6, <2>11, <2>12 DEF Follows, r
<1>. QED BY <1>2, <1>3, <1>4, <1>5

LEMMA SavingFollows ==
  ASSUME Types, NEW p, p \in Plans, Sound(p, orders, own), NEW rows \in Seq(Ended)
  PROVE  /\ Saving(p, rows) \in Steps /\ Saving(p, rows).pc = "save"
         /\ Follows(p, Saving(p, rows).plan)
<1>. DEFINE V == {q \in Plans : Follows(p, q)}
            q == FoldLeft(Advance, p, rows)
<1>1. p.target \in Nat
  BY DEF Plans
<1>2. p \in V
  BY <1>1 DEF Follows
<1>3. \A r \in V : \A o \in Ended : Advance(r, o) \in V
  BY <1>1, AdvanceFollows DEF Follows
<1>4. q \in V
  <2>. HIDE DEF V
  <2>. QED BY <1>2, <1>3, AdvanceFold
<1>5. Saving(p, rows) = [Step("save", q) EXCEPT !.moved = q.target # p.target]
  BY DEF Saving
<1>. HIDE DEF q
<1>6. Saving(p, rows) = [pc |-> "save", plan |-> q, moved |-> (q.target # p.target), missing |-> {}]
  BY <1>5 DEF Step
<1>. QED BY <1>4, <1>6 DEF Steps, Pcs

LEMMA FinishIs ==
  ASSUME Types, NEW p, p \in Plans
  PROVE  \/ Finish(p) = NoJob
         \/ /\ Finish(p) = Step("end", p) /\ Step("end", p) \in Steps
            /\ size = 0 \/ (p.applied /\ Pending(p) = {})
BY PositionIs DEF Finish, Step, Steps, Pcs

(* What a step becomes: it keeps the plan it carries, and ends it only when *)
(* the position is gone or nothing of the plan is left to do.               *)
Came(p, j) ==
  j # NoJob =>
    /\ j \in Steps /\ Follows(p, j.plan)
    /\ j.pc # "save" => j.plan.target = p.target
    /\ j.pc = "closed" => size' = 0
    /\ j.pc = "end" => size = 0 \/ (j.plan.applied /\ Pending(j.plan) = {})

LEMMA FollowsItself ==
  ASSUME NEW p, p \in Plans, Sound(p, orders, own)
  PROVE  Follows(p, p)
BY DEF Follows, Plans

LEMMA StepCame ==
  ASSUME NEW p, p \in Plans, Sound(p, orders, own), NEW pc \in Pcs \ {"save", "closed", "end"},
         NEW m \in SUBSET Orders, NEW b \in BOOLEAN, NEW j, j = [pc |-> pc, plan |-> p, moved |-> b, missing |-> m]
  PROVE  Came(p, j)
<1>1. j \in Steps /\ j.pc = pc /\ j.plan = p
  BY DEF Steps
<1>. QED BY <1>1, FollowsItself DEF Came

LEMMA FinishCame ==
  ASSUME Types, NEW p, NEW q, q \in Plans, Follows(p, q), q.target = p.target
  PROVE  Came(p, Finish(q))
<1>1. CASE Finish(q) = NoJob
  BY <1>1 DEF Came
<1>2. CASE /\ Finish(q) = Step("end", q) /\ Step("end", q) \in Steps
           /\ size = 0 \/ (q.applied /\ Pending(q) = {})
  <2>1. Finish(q).pc = "end" /\ Finish(q).plan = q
    BY <1>2 DEF Step
  <2>. QED BY <1>2, <2>1 DEF Came
<1>. QED BY <1>1, <1>2, FinishIs

LEMMA AppliedCame ==
  ASSUME Types, NEW p, p \in Plans, Sound(p, orders, own)
  PROVE  Came(p, Finish([p EXCEPT !.applied = TRUE]))
<1>. DEFINE q == [p EXCEPT !.applied = TRUE]
<1>1. /\ q \in Plans /\ q.id = p.id /\ q.takes = p.takes /\ q.filled = p.filled
      /\ q.cancelled = p.cancelled /\ q.target = p.target /\ p.target \in Nat
  BY DEF Plans
<1>. HIDE DEF q
<1>2. Sound(q, orders, own)
  BY <1>1 DEF Sound
<1>3. Follows(p, q)
  BY <1>1, <1>2 DEF Follows
<1>4. Came(p, Finish(q))
  BY <1>1, <1>3, FinishCame
<1>. QED BY <1>4 DEF q

LEMMA SavingCame ==
  ASSUME Types, NEW p, p \in Plans, Sound(p, orders, own), NEW rows \in Seq(Ended)
  PROVE  Came(p, Saving(p, rows))
<1>. DEFINE j == Saving(p, rows)
<1>1. j \in Steps /\ j.pc = "save" /\ Follows(p, j.plan)
  BY SavingFollows
<1>. HIDE DEF j
<1>2. Came(p, j)
  BY <1>1 DEF Came
<1>. QED BY <1>2 DEF j

LEMMA NoRowsCame ==
  ASSUME Types, NEW p, p \in Plans, Sound(p, orders, own)
  PROVE  Came(p, NoRows(p))
<1>1. CASE p.applied
  BY <1>1, FinishCame, FollowsItself DEF NoRows
<1>2. CASE ~ p.applied
  <2>1. NoRows(p) = [pc |-> "place", plan |-> p, moved |-> FALSE, missing |-> {}]
    BY <1>2 DEF NoRows, Step
  <2>2. "place" \in Pcs \ {"save", "closed", "end"}
    BY DEF Pcs
  <2>. QED BY <2>1, <2>2, StepCame
<1>. QED BY <1>1, <1>2

LEMMA GotoCame ==
  ASSUME Types, job # NoJob, Sound(job.plan, orders, own), NEW pc \in Pcs \ {"save", "closed", "end"}, Goto(pc)
  PROVE  Came(job.plan, job')
<1>1. job' = [pc |-> pc, plan |-> job.plan, moved |-> job.moved, missing |-> job.missing]
  BY DEF Goto, Types, Steps
<1>2. job.plan \in Plans /\ job.moved \in BOOLEAN /\ job.missing \in SUBSET Orders
  BY DEF Types, Steps
<1>. QED BY <1>1, <1>2, StepCame

(* Where the job goes: a step that is under way carries its plan on, a job  *)
(* that begins takes the plan as it stands.                                 *)
JobGoes ==
  job' # NoJob =>
    \/ job' = job
    \/ job # NoJob /\ Came(job.plan, job')
    \/ job = NoJob /\ plan # NoPlan /\ plan' = plan /\ own' = own /\ Came(plan, job')

LEMMA BeginGoes ==
  ASSUME IInv, Begin
  PROVE  JobGoes
<1>. USE DEF IInv, PlansSound
<1>. DEFINE j == Head(queue)
<1>1. Types /\ job = NoJob /\ plan' = plan /\ own' = own
  BY DEF Begin, budget
<1>2. j \in TrueJobs
  BY HeadTailProperties DEF Begin, Types
<1>3. job' = IF plan = NoPlan \/ (plan # NoPlan /\ ~plan.active) THEN NoJob
             ELSE IF j.kind = "orders"
               THEN IF j.order \in ToSet(plan.takes) THEN Saving(plan, <<j.order>>) ELSE NoJob
             ELSE IF view = NoView THEN NoJob
             ELSE IF ~Position.open THEN Step("end", plan)
             ELSE IF j.kind = "gone" THEN NoJob
             ELSE IF Pending(plan) \subseteq view.orders THEN NoRows(plan)
             ELSE [Step("history", plan) EXCEPT !.missing = Pending(plan) \ view.orders]
  BY DEF Begin
<1>. HIDE DEF j
<1>. SUFFICES ASSUME job' # NoJob PROVE Came(plan, job') /\ plan # NoPlan
  BY <1>1 DEF JobGoes
<1>4. plan # NoPlan /\ plan \in Plans /\ Sound(plan, orders, own)
  BY <1>1, <1>3 DEF Types
<1>5. CASE j.kind = "orders"
  <2>1. job' = Saving(plan, <<j.order>>)
    BY <1>3, <1>5
  <2>2. j.order \in Ended
    BY <1>2, <1>5 DEF TrueJobs, Reconciling
  <2>3. <<j.order>> \in Seq(Ended)
    BY <2>2, One
  <2>. QED BY <1>1, <1>4, <2>1, <2>3, SavingCame
<1>6. CASE j.kind # "orders" /\ ~ Position.open
  <2>1. job' = Step("end", plan) /\ view # NoView
    BY <1>3, <1>6
  <2>2. size = 0
    BY <1>1, <1>6, <2>1, PositionIs
  <2>3. Step("end", plan) \in Steps /\ Step("end", plan).pc = "end" /\ Step("end", plan).plan = plan
    BY <1>4 DEF Step, Steps, Pcs
  <2>4. Follows(plan, plan)
    BY <1>4, FollowsItself
  <2>. QED BY <1>4, <2>1, <2>2, <2>3, <2>4 DEF Came
<1>7. CASE j.kind # "orders" /\ Position.open
  <2>1. CASE job' = NoRows(plan)
    BY <1>1, <1>4, <2>1, NoRowsCame
  <2>2. CASE job' = [Step("history", plan) EXCEPT !.missing = Pending(plan) \ view.orders]
    <3>. DEFINE m == Pending(plan) \ view.orders
    <3>1. ToSet(plan.takes) \subseteq Orders
      BY <1>4, LenProperties, ElementOfSeq DEF Plans, ToSet
    <3>2. m \in SUBSET Orders
      BY <3>1 DEF Pending
    <3>3. job' = [pc |-> "history", plan |-> plan, moved |-> FALSE, missing |-> m]
      BY <2>2 DEF Step
    <3>4. "history" \in Pcs \ {"save", "closed", "end"}
      BY DEF Pcs
    <3>. HIDE DEF m
    <3>. QED BY <1>4, <3>2, <3>3, <3>4, StepCame
  <2>. QED BY <1>3, <1>7, <2>1, <2>2
<1>. QED BY <1>4, <1>5, <1>6, <1>7

LEMMA HistoryGoes ==
  ASSUME IInv, History
  PROVE  JobGoes
<1>1. Types /\ job # NoJob /\ job.plan \in Plans /\ Sound(job.plan, orders, own)
  BY DEF IInv, PlansSound, History, At, Types, Steps
<1>2. PICK known \in SUBSET (job.missing \cap ToSet(done)) :
        job' = IF Kept(done, known) # <<>>
                 THEN Saving(job.plan, Kept(done, known)) ELSE NoRows(job.plan)
  BY DEF History
<1>3. Kept(done, known) \in Seq(Ended \cap known)
  BY <1>1, KnownRows DEF Types
<1>4. Kept(done, known) \in Seq(Ended)
  BY <1>3, SeqMonotonic
<1>5. CASE job' = NoRows(job.plan)
  BY <1>1, <1>5, NoRowsCame DEF JobGoes
<1>6. CASE job' = Saving(job.plan, Kept(done, known))
  BY <1>1, <1>4, <1>6, SavingCame DEF JobGoes
<1>. QED BY <1>2, <1>5, <1>6

LEMMA JobStep ==
  ASSUME IInv, [Next]_vars
  PROVE  JobGoes
<1>1. CASE job' = job \/ job' = NoJob
  BY <1>1 DEF JobGoes
<1>2. CASE job # NoJob /\ Came(job.plan, job')
  BY <1>2 DEF JobGoes
<1>3. ASSUME job # NoJob
      PROVE  Types /\ job \in Steps /\ job.plan \in Plans /\ Sound(job.plan, orders, own) /\ Came(job.plan, Finish(job.plan))
  <2>1. Types /\ job \in Steps /\ job.plan \in Plans /\ Sound(job.plan, orders, own)
    BY <1>3 DEF IInv, PlansSound, Types, Steps
  <2>2. Follows(job.plan, job.plan)
    BY <2>1, FollowsItself
  <2>. QED BY <2>1, <2>2, FinishCame
<1>4. ASSUME job # NoJob, NEW pc \in Pcs \ {"save", "closed", "end"}, Goto(pc)
      PROVE  JobGoes
  BY <1>2, <1>3, <1>4, GotoCame
<1>5. CASE \/ \E o \in Orders : Fill(o)
           \/ \E m \in Marks : PriceMoves(m)
           \/ \E s \in Stops : MoveByHand(s)
           \/ \E g \in Grids : GridStart(g)
  BY <1>1, <1>5 DEF Fill, PriceMoves, MoveByHand, GridStart, memory
<1>6. CASE Api \/ Connect \/ Snapshot \/ Deliver
  BY <1>1, <1>6 DEF Api, GridCancel, GridPlace, GridRecord, GridLost, Connect, Snapshot, Deliver, memory
<1>7. CASE Resnapshot \/ Disconnect \/ Pinned \/ Idle
  BY <1>1, <1>7 DEF Resnapshot, Disconnect, Pinned, Idle, memory
<1>8. CASE Die \/ End \/ StepFails \/ (\E o \in Orders : CancelTake(o)) \/ UNCHANGED vars
  BY <1>1, <1>8 DEF Die, End, StepFails, CancelTake, vars, memory
<1>9. CASE Begin \/ History
  BY <1>9, BeginGoes, HistoryGoes
<1>10. CASE Save
  <2>1. job # NoJob
    BY <1>10 DEF Save, At
  <2>2. \/ job' = NoJob \/ job' = Finish(job.plan)
        \/ job' = [pc |-> "place", plan |-> job.plan, moved |-> FALSE, missing |-> {}]
    BY <1>10 DEF Save, Step
  <2>3. "place" \in Pcs \ {"save", "closed", "end"}
    BY DEF Pcs
  <2>4. ASSUME NEW j, j = [pc |-> "place", plan |-> job.plan, moved |-> FALSE, missing |-> {}]
        PROVE  Came(job.plan, j)
    BY <1>3, <2>1, <2>3, <2>4, StepCame
  <2>. QED BY <1>1, <1>2, <1>3, <2>1, <2>2, <2>4
<1>11. CASE Place
  <2>1. job # NoJob
    BY <1>11 DEF Place, At
  <2>2. job' = Finish(job.plan) \/ Goto("stands") \/ Goto("cancel") \/ Goto("post")
    BY <1>11 DEF Place
  <2>3. {"stands", "cancel", "post"} \subseteq Pcs \ {"save", "closed", "end"}
    BY DEF Pcs
  <2>. QED BY <1>2, <1>3, <1>4, <2>1, <2>2, <2>3
<1>12. CASE CloseAtMarket
  <2>1. job # NoJob
    BY <1>12 DEF CloseAtMarket, At
  <2>2. job' = Finish(job.plan) \/ (size > 0 /\ Goto("closed"))
    BY <1>12 DEF CloseAtMarket, Retry
  <2>3. CASE size > 0 /\ Goto("closed")
    <3>1. size' = 0
      BY <1>12, <2>3 DEF CloseAtMarket, Closed
    <3>2. job' = [pc |-> "closed", plan |-> job.plan, moved |-> job.moved, missing |-> job.missing]
      BY <1>3, <2>1, <2>3 DEF Goto, Steps
    <3>3. job' \in Steps /\ job'.pc = "closed" /\ job'.plan = job.plan
      BY <1>3, <2>1, <3>2 DEF Steps, Pcs
    <3>4. Follows(job.plan, job'.plan)
      BY <1>3, <2>1, <3>3, FollowsItself
    <3>5. Came(job.plan, job')
      BY <3>1, <3>3, <3>4 DEF Came
    <3>. QED BY <1>2, <2>1, <3>5
  <2>. QED BY <1>2, <1>3, <2>1, <2>2, <2>3
<1>13. CASE PostStop \/ PostRefused
  <2>1. job # NoJob
    BY <1>13 DEF PostStop, PostRefused, At
  <2>2. job' = Finish(job.plan) \/ Goto("applied")
    BY <1>13 DEF PostStop, PostRefused, Retry
  <2>3. "applied" \in Pcs \ {"save", "closed", "end"}
    BY DEF Pcs
  <2>. QED BY <1>2, <1>3, <1>4, <2>1, <2>2, <2>3
<1>14. CASE TryFails \/ MarkApplied
  <2>1. job # NoJob
    BY <1>14 DEF TryFails, MarkApplied, At
  <2>2. job' = Finish(job.plan) \/ job' = Finish([job.plan EXCEPT !.applied = TRUE])
    BY <1>14 DEF TryFails, MarkApplied, Retry
  <2>3. Came(job.plan, Finish([job.plan EXCEPT !.applied = TRUE]))
    BY <1>3, <2>1, AppliedCame
  <2>. QED BY <1>2, <1>3, <2>1, <2>2, <2>3
<1>. QED
  BY <1>5, <1>6, <1>7, <1>8, <1>9, <1>10, <1>11, <1>12, <1>13, <1>14 DEF Next, Api, Socket, Worker

(* A step that saves is left only by its write.                            *)
LEMMA SaveSaves ==
  ASSUME [Next]_vars, job # NoJob, job.pc = "save", job' # job, job' # NoJob
  PROVE  Save
<1>1. CASE \/ \E o \in Orders : Fill(o)
           \/ \E m \in Marks : PriceMoves(m)
           \/ \E s \in Stops : MoveByHand(s)
           \/ \E g \in Grids : GridStart(g)
  BY <1>1 DEF Fill, PriceMoves, MoveByHand, GridStart, memory
<1>2. CASE Api \/ Socket \/ Resnapshot \/ Disconnect \/ Pinned \/ Idle \/ UNCHANGED vars
  BY <1>2 DEF Api, GridCancel, GridPlace, GridRecord, GridLost, Socket, Connect, Snapshot, Deliver,
     Resnapshot, Disconnect, Pinned, Idle, memory, vars
<1>3. CASE Worker \/ Die
  BY <1>3 DEF Worker, Die, Begin, History, Place, CancelTake, CloseAtMarket, PostStop, PostRefused, TryFails,
     MarkApplied, End, StepFails, At, memory
<1>. QED BY <1>1, <1>2, <1>3 DEF Next

(* Where the plan goes: it stays, a step writes into it the one it carries, *)
(* or the grid under way gives its own.                                    *)
PlanWritten ==
  /\ plan # NoPlan /\ job # NoJob /\ plan.id = job.plan.id /\ own' = own
  /\ plan' \in Plans /\ plan'.id = plan.id /\ plan'.takes = plan.takes /\ plan'.target = job.plan.target
  /\ Sound(plan', orders, own)
  /\ job' # NoJob => job'.pc # "save" /\ job' # job
GridTaken ==
  /\ grid # NoGrid /\ grid.placed > 0 /\ plan' = NewPlan(grid.g, Placed) /\ grid' = NoGrid
  /\ job' = job /\ own' = own /\ orders' = orders
PlanGoes == plan' # NoPlan => plan' = plan \/ PlanWritten \/ GridTaken

LEMMA WriteGoes ==
  ASSUME IInv, Save \/ MarkApplied \/ End
  PROVE  PlanGoes
<1>. SUFFICES ASSUME plan' # NoPlan, plan' # plan PROVE PlanWritten
  BY DEF PlanGoes
<1>1. Types /\ PlansSound /\ CopyOfPlan /\ own' = own /\ job # NoJob
  BY DEF IInv, Save, MarkApplied, End, budget, At
<1>2. Mine
  BY DEF Save, MarkApplied, End, Write
<1>3. /\ plan # NoPlan /\ plan.id = job.plan.id /\ plan \in Plans /\ job.plan \in Plans
      /\ Sound(plan, orders, own) /\ Sound(job.plan, orders, own) /\ plan.takes = job.plan.takes
      /\ IF job.pc = "save" THEN plan.target <= job.plan.target ELSE plan.target = job.plan.target
  BY <1>1, <1>2 DEF Mine, PlansSound, CopyOfPlan, Types, Steps
<1>4. CASE Save
  <2>. DEFINE p == job.plan
  <2>1. plan' = [plan EXCEPT !.filled = p.filled, !.cancelled = p.cancelled, !.target = p.target, !.applied = p.applied]
    BY <1>2, <1>4 DEF Save, Write
  <2>2. plan' \in Plans
    BY ONLY <1>3, <2>1 DEF Plans
  <2>3. /\ plan'.id = plan.id /\ plan'.takes = plan.takes /\ plan'.target = p.target
        /\ plan'.filled = p.filled /\ plan'.cancelled = p.cancelled
    BY ONLY <1>3, <2>1 DEF Plans
  <2>4. Sound(plan', orders, own)
    BY <1>3, <2>3 DEF Sound
  <2>5. job' # NoJob => job'.pc # "save" /\ job' # job
    <3>1. job.pc = "save" /\ (job' = NoJob \/ job' = Step("place", job.plan) \/ job' = Finish(job.plan))
      BY <1>4 DEF Save, At
    <3>2. Finish(job.plan) # NoJob => Finish(job.plan).pc = "end"
      BY DEF Finish, Step
    <3>. QED BY <3>1, <3>2 DEF Step
  <2>. QED BY <1>1, <1>3, <2>2, <2>3, <2>4, <2>5 DEF PlanWritten
<1>5. CASE MarkApplied \/ End
  <2>1. \/ plan' = [plan EXCEPT !.applied = TRUE] \/ plan' = [plan EXCEPT !.active = FALSE]
        \/ plan' = [plan EXCEPT !.applied = TRUE, !.active = FALSE]
    BY <1>2, <1>5 DEF MarkApplied, End, Write
  <2>2. plan' \in Plans
    BY ONLY <1>3, <2>1 DEF Plans
  <2>3. /\ plan'.id = plan.id /\ plan'.takes = plan.takes /\ plan'.target = plan.target
        /\ plan'.filled = plan.filled /\ plan'.cancelled = plan.cancelled
    BY ONLY <1>3, <2>1 DEF Plans
  <2>4. Sound(plan', orders, own)
    BY <1>3, <2>3 DEF Sound
  <2>5. job.pc # "save"
    BY <1>5 DEF MarkApplied, End, At
  <2>6. job' # NoJob => job'.pc = "end" /\ job.pc # "end"
    BY <1>5 DEF MarkApplied, End, At, Finish, Step
  <2>. QED BY <1>1, <1>3, <2>2, <2>3, <2>4, <2>5, <2>6 DEF PlanWritten
<1>. QED BY <1>4, <1>5

LEMMA PlanStep ==
  ASSUME IInv, [Next]_vars
  PROVE  PlanGoes
<1>1. CASE plan' = plan
  BY <1>1 DEF PlanGoes
<1>2. CASE \/ \E o \in Orders : Fill(o) \/ CancelTake(o)
           \/ \E m \in Marks : PriceMoves(m)
           \/ \E s \in Stops : MoveByHand(s)
           \/ \E g \in Grids : GridStart(g)
  BY <1>1, <1>2 DEF Fill, CancelTake, PriceMoves, MoveByHand, GridStart
<1>3. CASE GridCancel \/ GridPlace \/ GridLost \/ Connect \/ Snapshot \/ Deliver
  BY <1>1, <1>3 DEF GridCancel, GridPlace, GridLost, Connect, Snapshot, Deliver
<1>4. CASE Resnapshot \/ Disconnect \/ Pinned \/ Idle \/ Die \/ UNCHANGED vars
  BY <1>1, <1>4 DEF Resnapshot, Disconnect, Pinned, Idle, Die, vars
<1>5. CASE Begin \/ History \/ Place \/ CloseAtMarket \/ PostStop \/ PostRefused \/ TryFails \/ StepFails
  BY <1>1, <1>5 DEF Begin, History, Place, CloseAtMarket, PostStop, PostRefused, TryFails, StepFails
<1>6. CASE Save \/ MarkApplied \/ End
  BY <1>6, WriteGoes
<1>7. CASE GridRecord
  <2>1. grid # NoGrid /\ grid' = NoGrid /\ job' = job /\ own' = own /\ orders' = orders
    BY <1>7 DEF GridRecord, memory, exchange
  <2>2. Recorded \/ plan' = plan
    BY <1>7 DEF GridRecord
  <2>3. CASE Recorded
    BY <2>1, <2>3 DEF Recorded, PlanGoes, GridTaken
  <2>. QED BY <1>1, <2>2, <2>3
<1>. QED BY <1>2, <1>3, <1>4, <1>5, <1>6, <1>7 DEF Next, Api, Socket, Worker

(* Where the remembered stops go: the person's move forgets them, a step    *)
(* that posts notes the one it set.                                        *)
Forgotten == own' = [g \in Grids |-> 0]
Noted ==
  /\ job # NoJob /\ job.pc = "post" /\ own' = [own EXCEPT ![job.plan.id] = job.plan.target]
  /\ plan' = plan /\ (job' # NoJob => job'.plan = job.plan)

LEMMA OwnStep ==
  ASSUME Types, [Next]_vars
  PROVE  own' = own \/ (Forgotten /\ plan' = plan /\ job' = job /\ stop' # stop) \/ Noted
<1>1. CASE \E s \in Stops : MoveByHand(s)
  BY <1>1 DEF MoveByHand, StopSet, Forgotten, memory
<1>2. CASE PostStop
  <2>1. /\ job # NoJob /\ job.pc = "post" /\ own' = [own EXCEPT ![job.plan.id] = job.plan.target]
        /\ plan' = plan /\ (Goto("applied") \/ job' = Finish(job.plan))
    BY <1>2 DEF PostStop, At, Retry
  <2>2. CASE Goto("applied")
    BY <2>1, <2>2 DEF Noted, Goto, Types, Steps
  <2>3. CASE job' = Finish(job.plan)
    BY <2>1, <2>3 DEF Noted, Finish, Step
  <2>. QED BY <2>1, <2>2, <2>3
<1>3. CASE \/ \E o \in Orders : Fill(o) \/ CancelTake(o)
           \/ \E m \in Marks : PriceMoves(m)
           \/ \E g \in Grids : GridStart(g)
  BY <1>3 DEF Fill, CancelTake, PriceMoves, GridStart, budget
<1>4. CASE Api \/ Socket
  BY <1>4 DEF Api, Socket, GridCancel, GridPlace, GridRecord, GridLost, Connect, Snapshot, Deliver, budget
<1>5. CASE Resnapshot \/ Disconnect \/ Pinned \/ Idle \/ Die \/ UNCHANGED vars
  BY <1>5 DEF Resnapshot, Disconnect, Pinned, Idle, Die, vars, budget
<1>6. CASE Begin \/ History \/ Save \/ Place \/ CloseAtMarket \/ PostRefused \/ TryFails \/ MarkApplied \/ End \/ StepFails
  BY <1>6 DEF Begin, History, Save, Place, CloseAtMarket, PostRefused, TryFails, MarkApplied, End, StepFails, budget
<1>. QED BY <1>1, <1>2, <1>3, <1>4, <1>5, <1>6 DEF Next, Worker

-----------------------------------------------------------------------------
(* The grid under way.                                                     *)

LEMMA NoneStays ==
  ASSUME IInv, [Next]_vars, ~ GridPlace
  PROVE  \A o \in Orders : orders'[o] = "none" <=> orders[o] = "none"
<1>1. CASE orders' = orders
  BY <1>1
<1>2. orders \in [Orders -> Statuses]
  BY DEF IInv, Types
<1>3. ASSUME NEW o \in Orders, Gone(o)
      PROVE  \A x \in Orders : orders'[x] = "none" <=> orders[x] = "none"
  BY <1>2, <1>3 DEF Gone, Statuses
<1>4. ASSUME Closed
      PROVE  \A o \in Orders : orders'[o] = "none" <=> orders[o] = "none"
  BY <1>2, <1>4 DEF Closed, Open, Statuses
<1>5. ASSUME NEW o \in Orders, Fill(o)
      PROVE  \A x \in Orders : orders'[x] = "none" <=> orders[x] = "none"
  <2>. DEFINE left == IF size = 1 THEN SetToSeq(Open \ {o}) ELSE <<>>
  <2>1. /\ o \in Open
        /\ orders' = [x \in Orders |-> IF x = o THEN "Filled"
                                       ELSE IF x \in ToSet(left) THEN "Cancelled" ELSE orders[x]]
    BY <1>5 DEF Fill
  <2>2. left \in Seq(Open)
    <3>1. Open \ {o} \in SUBSET Orders
      BY DEF Open
    <3>2. SetToSeq(Open \ {o}) \in Seq(Open)
      BY <3>1, SetToSeqIs, SeqMonotonic
    <3>. QED BY <3>2, EmptySeq
  <2>. HIDE DEF left
  <2>3. ToSet(left) \subseteq Open
    BY <2>2, LenProperties, ElementOfSeq DEF ToSet
  <2>. QED BY <1>2, <2>1, <2>3 DEF Open, Statuses
<1>6. ASSUME NEW m \in Marks, PriceMoves(m)
      PROVE  \A o \in Orders : orders'[o] = "none" <=> orders[o] = "none"
  BY <1>1, <1>4, <1>6 DEF PriceMoves
<1>7. CASE GridCancel
  <2>1. grid \in Requests /\ grid.stale # <<>> /\ Gone(Head(grid.stale))
    BY <1>7 DEF GridCancel, IInv, Types
  <2>2. Head(grid.stale) \in Orders
    BY <2>1, HeadTailProperties DEF Requests
  <2>. QED BY <1>3, <2>1, <2>2
<1>8. CASE (\E s \in Stops : MoveByHand(s)) \/ (\E g \in Grids : GridStart(g)) \/ GridRecord \/ GridLost
  BY <1>1, <1>8 DEF MoveByHand, StopSet, GridStart, GridRecord, GridLost, exchange
<1>9. CASE Socket \/ Resnapshot \/ Disconnect \/ Pinned \/ Idle \/ Die \/ UNCHANGED vars
  BY <1>1, <1>9 DEF Socket, Connect, Snapshot, Deliver, Resnapshot, Disconnect, Pinned, Idle, Die, vars, exchange
<1>10. CASE Begin \/ History \/ Save \/ Place \/ PostRefused \/ TryFails \/ MarkApplied \/ End \/ StepFails
  BY <1>1, <1>10 DEF Begin, History, Save, Place, PostRefused, TryFails, MarkApplied, End, StepFails, exchange
<1>11. CASE \E o \in Orders : CancelTake(o)
  BY <1>3, <1>11 DEF CancelTake
<1>12. CASE CloseAtMarket
  BY <1>1, <1>4, <1>12 DEF CloseAtMarket, exchange
<1>13. CASE PostStop
  BY <1>1, <1>13 DEF PostStop, StopSet, exchange
<1>. QED
  BY <1>5, <1>6, <1>7, <1>8, <1>9, <1>10, <1>11, <1>12, <1>13 DEF Next, Api, Worker

LEMMA GridGoes ==
  ASSUME [Next]_vars, grid' # NoGrid
  PROVE  \/ grid' = grid /\ ~ GridPlace
         \/ GridCancel /\ ~ GridPlace
         \/ GridPlace
         \/ (\E g \in Grids : GridStart(g)) /\ ~ GridPlace
<1>. SUFFICES ASSUME ~ GridPlace, ~ GridCancel, \A g \in Grids : ~ GridStart(g) PROVE grid' = grid
  OBVIOUS
<1>1. CASE \/ \E o \in Orders : Fill(o) \/ CancelTake(o)
           \/ \E m \in Marks : PriceMoves(m)
           \/ \E s \in Stops : MoveByHand(s)
  BY <1>1 DEF Fill, CancelTake, PriceMoves, MoveByHand
<1>2. CASE GridRecord \/ GridLost \/ Socket \/ Resnapshot \/ Disconnect \/ Pinned \/ Idle \/ Die \/ UNCHANGED vars
  BY <1>2 DEF GridRecord, GridLost, Socket, Connect, Snapshot, Deliver, Resnapshot, Disconnect, Pinned, Idle, Die, vars
<1>3. CASE Begin \/ History \/ Save \/ Place \/ CloseAtMarket \/ PostStop \/ PostRefused \/ TryFails \/ MarkApplied
           \/ End \/ StepFails
  BY <1>3 DEF Begin, History, Save, Place, CloseAtMarket, PostStop, PostRefused, TryFails, MarkApplied, End, StepFails
<1>. QED BY <1>1, <1>2, <1>3 DEF Next, Api, Worker

LEMMA TakesAre ==
  ASSUME NEW g \in Grids
  PROVE  /\ Len(TakesOf[g]) \in Nat /\ DOMAIN TakesOf[g] = 1..Len(TakesOf[g])
         /\ \A i \in DOMAIN TakesOf[g] : TakesOf[g][i] \in Orders /\ TakesOf[g][i] \in ToSet(TakesOf[g])
<1>1. TakesOf[g] \in Seq(Orders)
  BY GridsAreSane
<1>. QED BY <1>1, LenProperties, ElementOfSeq DEF ToSet

(* A plan or a step is of a grid some take of which was placed.            *)
LEMMA PlanIsPlaced ==
  ASSUME NEW p, NEW rows, NEW set, p \in Plans, Sound(p, rows, set)
  PROVE  p.id \in Grids /\ \E o \in ToSet(TakesOf[p.id]) : rows[o] # "none"
<1>1. p.id \in Grids /\ p.takes \in Seq(Orders) /\ p.takes # <<>>
  BY DEF Plans, Sound
<1>2. p.takes[1] \in ToSet(p.takes)
  BY <1>1, EmptySeq, LenProperties DEF ToSet
<1>. QED BY <1>1, <1>2 DEF Sound

LEMMA GridStep ==
  ASSUME IInv, [Next]_vars, grid' # NoGrid
  PROVE  grid' \in Requests /\ grid'.placed <= Len(TakesOf[grid'.g])
<1>1. CASE grid' = grid
  BY <1>1 DEF IInv, Types
<1>2. CASE GridCancel
  <2>1. grid \in Requests /\ grid.placed <= Len(TakesOf[grid.g]) /\ grid.stale # <<>>
    BY <1>2 DEF GridCancel, IInv, Types
  <2>2. Tail(grid.stale) \in Seq(Orders)
    BY <2>1, HeadTailProperties DEF Requests
  <2>. QED BY <1>2, <2>1, <2>2 DEF GridCancel, Requests
<1>3. CASE GridPlace
  <2>1. grid \in Requests /\ grid.placed < Len(TakesOf[grid.g]) /\ grid' = [grid EXCEPT !.placed = @ + 1]
    BY <1>3 DEF GridPlace, Placing, IInv, Types
  <2>2. grid.g \in Grids /\ grid.placed \in Nat /\ Len(TakesOf[grid.g]) \in Nat
    BY <2>1, TakesAre DEF Requests
  <2>3. grid' \in Requests /\ grid'.placed = grid.placed + 1 /\ grid'.g = grid.g
    BY <2>1, <2>2 DEF Requests
  <2>4. grid.placed + 1 <= Len(TakesOf[grid.g])
    BY <2>1, <2>2
  <2>. QED BY <2>3, <2>4
<1>4. ASSUME NEW g \in Grids, GridStart(g)
      PROVE  grid' \in Requests /\ grid'.placed <= Len(TakesOf[grid'.g])
  <2>1. grid' = [g |-> g, stale |-> SetToSeq(Open), had |-> Open # {}, placed |-> 0]
    BY <1>4 DEF GridStart
  <2>2. SetToSeq(Open) \in Seq(Orders)
    <3>1. Open \in SUBSET Orders
      BY DEF Open
    <3>. QED BY <3>1, SetToSeqIs, SeqMonotonic
  <2>3. Len(TakesOf[g]) \in Nat
    BY TakesAre
  <2>. QED BY <2>1, <2>2, <2>3 DEF Requests
<1>. QED BY <1>1, <1>2, <1>3, <1>4, GridGoes

LEMMA NewGridStep ==
  ASSUME IInv, [Next]_vars
  PROVE  NewGrid'
<1>. SUFFICES ASSUME grid' # NoGrid
              PROVE  /\ \A i \in DOMAIN TakesOf[grid'.g] : i > grid'.placed <=> orders'[TakesOf[grid'.g][i]] = "none"
                     /\ plan' # NoPlan => plan'.id # grid'.g
                     /\ job' # NoJob => job'.plan.id # grid'.g
                     /\ own'[grid'.g] = 0
  BY DEF NewGrid
<1>1. Types /\ PlansSound /\ NewGrid /\ OwnIsPlaced
  BY DEF IInv
<1>2. ASSUME grid # NoGrid, grid'.g = grid.g
      PROVE  /\ plan' # NoPlan => plan'.id # grid'.g
             /\ job' # NoJob => job'.plan.id # grid'.g
             /\ own'[grid'.g] = 0
  <2>1. /\ plan # NoPlan => plan.id # grid.g
        /\ job # NoJob => job.plan.id # grid.g
        /\ own[grid.g] = 0 /\ grid.g \in Grids
    BY <1>1, <1>2 DEF NewGrid, Types, Requests
  <2>2. plan' # NoPlan => plan'.id # grid.g
    BY <2>1, PlanStep DEF PlanGoes, PlanWritten, GridTaken
  <2>3. job' # NoJob => job'.plan.id # grid.g
    BY <2>1, JobStep DEF JobGoes, Came, Follows
  <2>4. own'[grid.g] = 0
    BY <1>1, <2>1, OwnStep DEF Forgotten, Noted, Types
  <2>. QED BY <1>2, <2>2, <2>3, <2>4
<1>3. CASE (grid' = grid \/ GridCancel) /\ ~ GridPlace
  <2>1. grid # NoGrid /\ grid'.g = grid.g /\ grid'.placed = grid.placed /\ grid.g \in Grids
    BY <1>1, <1>3 DEF GridCancel, Types, Requests
  <2>2. \A i \in DOMAIN TakesOf[grid.g] : i > grid.placed <=> orders[TakesOf[grid.g][i]] = "none"
    BY <1>1, <2>1 DEF NewGrid
  <2>3. \A i \in DOMAIN TakesOf[grid.g] : TakesOf[grid.g][i] \in Orders
    BY <2>1, TakesAre
  <2>4. \A i \in DOMAIN TakesOf[grid.g] : i > grid.placed <=> orders'[TakesOf[grid.g][i]] = "none"
    BY <1>3, <2>2, <2>3, NoneStays
  <2>. QED BY <1>2, <2>1, <2>4
<1>4. CASE GridPlace
  <2>. DEFINE n == grid.placed + 1
              s == TakesOf[grid.g]
  <2>1. /\ grid # NoGrid /\ grid \in Requests /\ grid' = [grid EXCEPT !.placed = @ + 1]
        /\ grid.placed < Len(s) /\ orders' = [orders EXCEPT ![s[n]] = "New"]
    BY <1>1, <1>4 DEF GridPlace, Placing, Types
  <2>2. grid'.g = grid.g /\ grid'.placed = n /\ grid.g \in Grids /\ grid.placed \in Nat
    BY <2>1 DEF Requests
  <2>. HIDE DEF n, s
  <2>3. /\ Len(s) \in Nat /\ DOMAIN s = 1..Len(s) /\ IsInjective(s)
        /\ \A i \in DOMAIN s : s[i] \in Orders
    BY <2>2, TakesAre, GridsAreSane DEF s
  <2>4. n \in DOMAIN s
    BY <2>1, <2>2, <2>3 DEF n
  <2>5. \A i \in DOMAIN s : i > grid.placed <=> orders[s[i]] = "none"
    BY <1>1, <2>1 DEF NewGrid, s
  <2>6. \A i \in DOMAIN s : i # n => s[i] # s[n]
    BY <2>3, <2>4 DEF IsInjective
  <2>7. orders \in [Orders -> Statuses]
    BY <1>1 DEF Types
  <2>8. \A i \in DOMAIN s : i > n <=> orders'[s[i]] = "none"
    <3>. TAKE i \in DOMAIN s
    <3>1. CASE i = n
      <4>1. orders'[s[i]] = "New" /\ ~ (i > n)
        BY <2>1, <2>2, <2>3, <2>4, <2>7, <3>1 DEF n
      <4>. QED BY <4>1
    <3>2. CASE i # n
      <4>1. orders'[s[i]] = orders[s[i]]
        BY <2>1, <2>3, <2>6, <2>7, <3>2
      <4>2. i \in Nat
        BY <2>3
      <4>3. i > n <=> i > grid.placed
        BY <2>2, <3>2, <4>2 DEF n
      <4>. QED BY <2>5, <4>1, <4>3
    <3>. QED BY <3>1, <3>2
  <2>. QED BY <1>2, <2>1, <2>2, <2>8 DEF s
<1>5. ASSUME NEW g \in Grids, GridStart(g), ~ GridPlace
      PROVE  /\ \A i \in DOMAIN TakesOf[grid'.g] : i > grid'.placed <=> orders'[TakesOf[grid'.g][i]] = "none"
             /\ plan' # NoPlan => plan'.id # grid'.g
             /\ job' # NoJob => job'.plan.id # grid'.g
             /\ own'[grid'.g] = 0
  <2>1. /\ grid'.g = g /\ grid'.placed = 0 /\ orders' = orders /\ plan' = plan /\ job' = job /\ own' = own
        /\ \A o \in ToSet(TakesOf[g]) : orders[o] = "none"
    BY <1>5 DEF GridStart, exchange, memory, budget
  <2>2. \A i \in DOMAIN TakesOf[g] : i > 0 /\ orders[TakesOf[g][i]] = "none"
    BY <2>1, TakesAre
  <2>3. plan # NoPlan => plan.id # g
    BY <1>1, <2>1, PlanIsPlaced DEF Types, PlansSound
  <2>4. job # NoJob => job.plan.id # g
    <3>1. job # NoJob => job.plan \in Plans
      BY <1>1 DEF Types, Steps
    <3>. QED BY <1>1, <2>1, <3>1, PlanIsPlaced DEF PlansSound
  <2>5. own[g] = 0
    BY <1>1, <2>1 DEF OwnIsPlaced, Types
  <2>. QED BY <2>1, <2>2, <2>3, <2>4, <2>5
<1>. QED BY <1>3, <1>4, <1>5, GridGoes

-----------------------------------------------------------------------------
(* The other parts of the invariant.                                       *)

LEMMA StatusesLive ==
  ASSUME Lives
  PROVE  \A o \in Orders : /\ orders[o] \in {"Filled", "Cancelled"} => orders'[o] = orders[o]
                           /\ orders[o] # "none" => orders'[o] # "none"
BY DEF Lives, Final

LEMMA OwnIsPlacedStep ==
  ASSUME IInv, [Next]_vars
  PROVE  OwnIsPlaced'
<1>1. Types /\ PlansSound /\ OwnIsPlaced /\ Lives
  BY ExchangeStep DEF IInv
<1>. SUFFICES ASSUME NEW g \in Grids, own'[g] > 0
              PROVE  \E o \in ToSet(TakesOf[g]) : orders'[o] # "none"
  BY DEF OwnIsPlaced
<1>2. own[g] > 0 \/ (job # NoJob /\ g = job.plan.id)
  BY <1>1, OwnStep DEF Types, Forgotten, Noted
<1>3. \E o \in ToSet(TakesOf[g]) : orders[o] # "none"
  <2>1. job # NoJob => job.plan \in Plans /\ Sound(job.plan, orders, own)
    BY <1>1 DEF Types, Steps, PlansSound
  <2>2. CASE own[g] > 0
    BY <1>1, <2>2 DEF OwnIsPlaced
  <2>3. CASE job # NoJob /\ g = job.plan.id
    BY <2>1, <2>3, PlanIsPlaced
  <2>. QED BY <1>2, <2>2, <2>3
<1>4. ToSet(TakesOf[g]) \subseteq Orders
  BY DEF Orders
<1>. QED BY <1>1, <1>3, <1>4, StatusesLive

LEMMA EndIsDueStep ==
  ASSUME IInv, [Next]_vars
  PROVE  EndIsDue'
<1>1. EndIsDue /\ Lives
  BY ExchangeStep DEF IInv
<1>. SUFFICES ASSUME job' # NoJob
              PROVE  /\ job'.pc = "closed" => size' = 0
                     /\ job'.pc = "end" => size' = 0 \/ (job'.plan.applied /\ Pending(job'.plan) = {})
  BY DEF EndIsDue, Pending
<1>2. CASE job' = job
  BY <1>1, <1>2 DEF EndIsDue, Lives, Pending
<1>3. ASSUME NEW p, Came(p, job')
      PROVE  /\ job'.pc = "closed" => size' = 0
             /\ job'.pc = "end" => size' = 0 \/ (job'.plan.applied /\ Pending(job'.plan) = {})
  BY <1>1, <1>3 DEF Came, Lives
<1>. QED BY <1>2, <1>3, JobStep DEF JobGoes

LEMMA CopyOfPlanStep ==
  ASSUME IInv, [Next]_vars
  PROVE  CopyOfPlan'
<1>1. Types /\ CopyOfPlan /\ NewGrid
  BY DEF IInv
<1>. SUFFICES ASSUME plan' # NoPlan, job' # NoJob, plan'.id = job'.plan.id
              PROVE  /\ plan'.takes = job'.plan.takes
                     /\ IF job'.pc = "save" THEN plan'.target <= job'.plan.target
                                            ELSE plan'.target = job'.plan.target
  BY DEF CopyOfPlan
<1>2. ASSUME plan' = plan, plan # NoPlan
      PROVE  /\ plan'.takes = job'.plan.takes
             /\ IF job'.pc = "save" THEN plan'.target <= job'.plan.target
                                    ELSE plan'.target = job'.plan.target
  <2>1. CASE job' = job
    BY <1>1, <1>2, <2>1 DEF CopyOfPlan
  <2>2. CASE job = NoJob /\ Came(plan, job')
    BY <1>1, <1>2, <2>2 DEF Came, Follows, Types, Plans
  <2>3. CASE job # NoJob /\ Came(job.plan, job') /\ job' # job
    <3>1. /\ job'.plan.id = job.plan.id /\ job'.plan.takes = job.plan.takes /\ job'.plan.target >= job.plan.target
          /\ job'.pc # "save" => job'.plan.target = job.plan.target
          /\ job.plan.target \in Nat /\ job'.plan.target \in Nat /\ plan.target \in Nat
      BY <1>1, <1>2, <2>3 DEF Came, Follows, Types, Steps, Plans
    <3>2. /\ plan.takes = job.plan.takes
          /\ IF job.pc = "save" THEN plan.target <= job.plan.target ELSE plan.target = job.plan.target
      BY <1>1, <1>2, <2>3, <3>1 DEF CopyOfPlan
    <3>3. CASE job.pc # "save"
      BY <1>2, <3>1, <3>2, <3>3
    <3>4. CASE job.pc = "save"
      <4>1. Save
        BY <2>3, <3>4, SaveSaves
      <4>2. Mine
        BY <4>1 DEF Save
      <4>3. job'.pc # "save"
        BY <4>1 DEF Save, Finish, Step
      <4>4. plan'.target = job.plan.target
        <5>1. plan' = [plan EXCEPT !.filled = job.plan.filled, !.cancelled = job.plan.cancelled,
                                   !.target = job.plan.target, !.applied = job.plan.applied]
          BY <4>1, <4>2 DEF Save, Write
        <5>2. plan \in Plans
          BY <1>1, <1>2 DEF Types
        <5>. QED BY ONLY <5>1, <5>2 DEF Plans
      <4>. QED BY <1>2, <3>1, <3>2, <4>3, <4>4
    <3>. QED BY <3>3, <3>4
  <2>. QED BY <2>1, <2>2, <2>3, JobStep DEF JobGoes
<1>3. CASE PlanWritten
  <2>1. /\ plan'.takes = plan.takes /\ plan'.target = job.plan.target /\ job'.pc # "save" /\ job' # job
        /\ job # NoJob /\ plan.takes = job.plan.takes
    BY <1>1, <1>3 DEF PlanWritten, CopyOfPlan
  <2>2. Came(job.plan, job')
    BY <2>1, JobStep DEF JobGoes
  <2>. QED BY <2>1, <2>2 DEF Came, Follows
<1>4. CASE GridTaken
  <2>1. plan'.id = grid.g /\ job' = job /\ grid # NoGrid
    BY <1>4 DEF GridTaken, NewPlan
  <2>. QED BY <1>1, <2>1 DEF NewGrid
<1>5. plan' = plan \/ PlanWritten \/ GridTaken
  BY PlanStep DEF PlanGoes
<1>. QED BY <1>2, <1>3, <1>4, <1>5

LEMMA PlacedIs ==
  ASSUME IInv, grid # NoGrid, grid.placed > 0
  PROVE  /\ Placed \in Seq(Orders) /\ Placed # <<>> /\ ToSet(Placed) \subseteq ToSet(TakesOf[grid.g])
         /\ \A o \in ToSet(Placed) : orders[o] # "none"
<1>. DEFINE s == TakesOf[grid.g]
            n == grid.placed
<1>1. grid.g \in Grids /\ n \in Nat /\ n <= Len(s) /\ n > 0
  BY DEF IInv, Types, Requests
<1>2. /\ Len(s) \in Nat /\ DOMAIN s = 1..Len(s) /\ s \in Seq(Orders)
      /\ \A i \in DOMAIN s : s[i] \in ToSet(s)
  BY <1>1, TakesAre, GridsAreSane
<1>3. \A i \in DOMAIN s : i > n <=> orders[s[i]] = "none"
  BY DEF IInv, NewGrid
<1>4. Placed = SubSeq(s, 1, n)
  BY DEF Placed
<1>. HIDE DEF s, n
<1>5. /\ Placed \in Seq(Orders) /\ Len(Placed) = n /\ DOMAIN Placed = 1..n
      /\ \A i \in 1..n : Placed[i] = s[i]
  <2>1. \A i \in 1..n : s[i] \in Orders
    BY <1>1, <1>2, ElementOfSeq
  <2>2. Placed = [i \in 1..n |-> s[i]]
    BY <1>1, <1>2, <1>4, SubSeqProperties
  <2>3. Placed \in [1..n -> Orders]
    BY <2>1, <2>2
  <2>. QED BY <1>1, <2>2, <2>3, SeqDef, LenProperties
<1>6. Placed # <<>>
  BY <1>1, <1>5
<1>7. \A i \in 1..n : i \in DOMAIN s /\ ~ (i > n)
  BY <1>1, <1>2
<1>8. ToSet(Placed) \subseteq ToSet(s)
  BY <1>2, <1>5, <1>7 DEF ToSet
<1>9. \A o \in ToSet(Placed) : orders[o] # "none"
  BY <1>3, <1>5, <1>7 DEF ToSet
<1>. QED BY <1>5, <1>6, <1>8, <1>9 DEF s

LEMMA TakenIsSound ==
  ASSUME IInv, GridTaken
  PROVE  plan' \in Plans /\ Sound(plan', orders, own)
<1>. DEFINE p == NewPlan(grid.g, Placed)
<1>1. grid # NoGrid /\ grid.placed > 0 /\ plan' = p
  BY DEF GridTaken
<1>2. grid.g \in Grids /\ own[grid.g] = 0
  BY <1>1 DEF IInv, Types, Requests, NewGrid
<1>3. /\ p.id = grid.g /\ p.takes = Placed /\ p.filled = <<>> /\ p.cancelled = {} /\ p.target = 0
      /\ p.applied = TRUE /\ p.active = TRUE
  BY DEF NewPlan
<1>4. p \in Plans
  BY <1>1, <1>2, PlacedIs, EmptySeq DEF NewPlan, Plans
<1>5. ToSet(<<>>) = {} /\ Cardinality({}) = 0 /\ Len(<<>>) = 0
  BY EmptySeq, FS_EmptySet DEF ToSet
<1>. HIDE DEF p
<1>6. Sound(p, orders, own)
  <2>1. /\ Placed # <<>> /\ ToSet(Placed) \subseteq ToSet(TakesOf[grid.g])
        /\ \A o \in ToSet(Placed) : orders[o] # "none"
    BY <1>1, PlacedIs
  <2>2. p.takes # <<>> /\ ToSet(p.takes) \subseteq ToSet(TakesOf[p.id]) /\ \A o \in ToSet(p.takes) : orders[o] # "none"
    BY <1>3, <2>1
  <2>3. ToSet(p.filled) = {} /\ Len(p.filled) = Cardinality(ToSet(p.filled))
    BY <1>3, <1>5
  <2>4. own[p.id] <= p.target
    BY <1>2, <1>3
  <2>. QED BY <1>3, <2>2, <2>3, <2>4 DEF Sound
<1>. QED BY <1>1, <1>4, <1>6

LEMMA PlansSoundStep ==
  ASSUME IInv, [Next]_vars
  PROVE  PlansSound' /\ (plan' # NoPlan => plan' \in Plans) /\ (job' # NoJob => job' \in Steps)
<1>1. Types /\ PlansSound /\ CopyOfPlan /\ Lives
  BY ExchangeStep DEF IInv
<1>2. plan' # NoPlan => plan' \in Plans /\ Sound(plan', orders, own)
  <2>1. CASE plan' = plan
    BY <1>1, <2>1 DEF Types, PlansSound
  <2>2. CASE PlanWritten
    BY <2>2 DEF PlanWritten
  <2>3. CASE GridTaken
    BY <2>3, TakenIsSound
  <2>. QED BY <2>1, <2>2, <2>3, PlanStep DEF PlanGoes
<1>3. job' # NoJob => job' \in Steps /\ job'.plan \in Plans /\ Sound(job'.plan, orders, own)
  <2>1. CASE job' = job
    BY <1>1, <2>1 DEF Types, PlansSound, Steps
  <2>2. ASSUME NEW p, Came(p, job'), job' # NoJob
        PROVE  job' \in Steps /\ job'.plan \in Plans /\ Sound(job'.plan, orders, own)
    BY <2>2 DEF Came, Follows
  <2>. QED BY <2>1, <2>2, JobStep DEF JobGoes
<1>4. ASSUME NEW p \in Plans, own[p.id] <= p.target,
             own' = own \/ Forgotten \/ (Noted /\ (p.id = job.plan.id => p.target = job.plan.target))
      PROVE  own'[p.id] <= p.target
  <2>1. p.id \in Grids /\ p.target \in Nat
    BY DEF Plans
  <2>2. CASE own' = own
    BY <1>4, <2>2
  <2>3. CASE Forgotten
    BY <2>1, <2>3 DEF Forgotten
  <2>4. CASE Noted /\ (p.id = job.plan.id => p.target = job.plan.target)
    <3>1. own' = [own EXCEPT ![job.plan.id] = job.plan.target] /\ own \in [Grids -> Nat]
      BY <1>1, <2>4 DEF Noted, Types
    <3>2. own'[p.id] = IF p.id = job.plan.id THEN job.plan.target ELSE own[p.id]
      BY <2>1, <3>1
    <3>. QED BY <1>4, <2>1, <2>4, <3>2
  <2>. QED BY <1>4, <2>2, <2>3, <2>4
<1>5. plan' # NoPlan => Sound(plan', orders', own')
  <2>. SUFFICES ASSUME plan' # NoPlan PROVE Sound(plan', orders', own')
    OBVIOUS
  <2>1. own' = own \/ Forgotten \/ (Noted /\ (plan'.id = job.plan.id => plan'.target = job.plan.target))
    <3>1. CASE Noted
      BY <1>1, <3>1 DEF Noted, CopyOfPlan
    <3>. QED BY <1>1, <3>1, OwnStep
  <2>2. own[plan'.id] <= plan'.target
    BY <1>2 DEF Sound
  <2>3. own'[plan'.id] <= plan'.target
    BY <1>2, <1>4, <2>1, <2>2
  <2>. QED BY <1>1, <1>2, <2>3, StatusesLive, SoundKept
<1>6. job' # NoJob => Sound(job'.plan, orders', own')
  <2>. SUFFICES ASSUME job' # NoJob PROVE Sound(job'.plan, orders', own')
    OBVIOUS
  <2>1. own' = own \/ Forgotten \/ (Noted /\ (job'.plan.id = job.plan.id => job'.plan.target = job.plan.target))
    <3>1. CASE Noted
      BY <3>1 DEF Noted
    <3>. QED BY <1>1, <3>1, OwnStep
  <2>2. own[job'.plan.id] <= job'.plan.target
    BY <1>3 DEF Sound
  <2>3. own'[job'.plan.id] <= job'.plan.target
    BY <1>3, <1>4, <2>1, <2>2
  <2>. QED BY <1>1, <1>3, <2>3, StatusesLive, SoundKept
<1>. QED BY <1>2, <1>3, <1>5, <1>6 DEF PlansSound

(* What the stream and the queue hold.                                     *)
LEMMA AppliedIs ==
  ASSUME NEW v \in {x \in Views : x.position \in TruePositions}, NEW e \in Events
  PROVE  Applied(v, e) \in {x \in Views : x.position \in TruePositions}
<1>1. CASE e \in PositionEvents
  <2>1. e.topic = "position" /\ [open |-> e.open, stop |-> e.stop] \in TruePositions
    BY <1>1 DEF PositionEvents, TruePositions, Positions
  <2>2. Applied(v, e) = [position |-> [open |-> e.open, stop |-> e.stop], orders |-> v.orders]
    BY <2>1 DEF Applied, Views
  <2>. QED BY <2>1, <2>2 DEF Views, TruePositions
<1>2. CASE e \in OrderEvents
  <2>1. e.topic = "order" /\ e.order \in Orders
    BY <1>2 DEF OrderEvents
  <2>. DEFINE os == IF e.status = "New" THEN v.orders \cup {e.order} ELSE v.orders \ {e.order}
  <2>2. Applied(v, e) = [position |-> v.position, orders |-> os]
    BY <2>1 DEF Applied, Views
  <2>3. os \in SUBSET Orders
    BY <2>1 DEF Views
  <2>. QED BY <2>2, <2>3 DEF Views
<1>. QED BY <1>1, <1>2 DEF Events

LEMMA FreshIs ==
  ASSUME size \in 0..Size, stop \in Nat
  PROVE  Fresh \in {x \in Views : x.position \in TruePositions}
<1>. DEFINE p == IF size > 0 THEN [open |-> TRUE, stop |-> stop] ELSE NoPosition
<1>1. p \in TruePositions
  BY DEF NoPosition, TruePositions, Positions
<1>2. Open \in SUBSET Orders /\ Fresh = [position |-> p, orders |-> Open]
  BY DEF Fresh, Open
<1>. HIDE DEF p
<1>. QED BY <1>1, <1>2 DEF Views, TruePositions

LEMMA SnapshotIs ==
  ASSUME Types, NEW events \in Seq(Events)
  PROVE  FoldLeft(Applied, Fresh, Outdated(events)) \in {x \in Views : x.position \in TruePositions}
<1>. DEFINE V == {x \in Views : x.position \in TruePositions}
            S == {e \in Events : e.topic = "order"}
<1>1. Outdated(events) \in Seq(S)
  BY OrderRows
<1>2. Fresh \in V
  BY FreshIs DEF Types
<1>3. \A v \in V : \A e \in S : Applied(v, e) \in V
  BY AppliedIs
<1>. HIDE DEF V, S
<1>4. FoldLeft(Applied, Fresh, Outdated(events)) \in V
  BY <1>1, <1>2, <1>3, AppliedFold
<1>. QED BY <1>4 DEF V

LEMMA ViewStep ==
  ASSUME IInv, [Next]_vars
  PROVE  /\ up' \in BOOLEAN
         /\ view' # NoView => up' /\ view' \in {x \in Views : x.position \in TruePositions}
<1>1. Types
  BY DEF IInv
<1>2. CASE UNCHANGED <<up, view>>
  BY <1>1, <1>2 DEF Types
<1>3. CASE Snapshot
  <2>1. PICK k \in 0..Len(wire) : view' = FoldLeft(Applied, Fresh, Outdated(SubSeq(wire, 1, k)))
    BY <1>3 DEF Snapshot
  <2>2. wire \in Seq(Events) /\ Len(wire) \in Nat
    BY <1>1, LenProperties DEF Types
  <2>3. SubSeq(wire, 1, k) \in Seq(Events)
    <3>1. \A i \in 1..k : wire[i] \in Events
      BY <2>2, ElementOfSeq
    <3>. QED BY <2>2, <3>1, SubSeqProperties
  <2>4. view' \in {x \in Views : x.position \in TruePositions}
    BY <1>1, <2>1, <2>3, SnapshotIs
  <2>5. up' = up /\ up = TRUE
    BY <1>1, <1>3 DEF Snapshot, Types
  <2>. QED BY <2>4, <2>5
<1>4. CASE Resnapshot
  BY <1>1, <1>4, FreshIs DEF Resnapshot, Types
<1>5. CASE Deliver
  <2>1. Head(wire) \in Events
    BY <1>1, <1>5, HeadTailProperties DEF Deliver, Types
  <2>2. view \in {x \in Views : x.position \in TruePositions}
    BY <1>1, <1>5 DEF Deliver, Types
  <2>3. view' = Applied(view, Head(wire)) /\ up' = up /\ up = TRUE
    BY <1>1, <1>5 DEF Deliver, Types
  <2>. QED BY <2>1, <2>2, <2>3, AppliedIs
<1>6. CASE Connect
  BY <1>1, <1>6 DEF Connect, Types
<1>7. CASE Disconnect \/ Die
  BY <1>7 DEF Disconnect, Die
<1>8. CASE \/ \E o \in Orders : Fill(o) \/ CancelTake(o)
           \/ \E m \in Marks : PriceMoves(m)
           \/ \E s \in Stops : MoveByHand(s)
           \/ \E g \in Grids : GridStart(g)
  BY <1>2, <1>8 DEF Fill, CancelTake, PriceMoves, MoveByHand, GridStart, stream
<1>9. CASE Api \/ Pinned \/ Idle \/ UNCHANGED vars
  BY <1>2, <1>9 DEF Api, GridCancel, GridPlace, GridRecord, GridLost, Pinned, Idle, vars, stream
<1>10. CASE Begin \/ History \/ Save \/ Place \/ CloseAtMarket \/ PostStop \/ PostRefused \/ TryFails \/ MarkApplied
            \/ End \/ StepFails
  BY <1>2, <1>10 DEF Begin, History, Save, Place, CloseAtMarket, PostStop, PostRefused, TryFails, MarkApplied, End,
     StepFails, stream
<1>. QED BY <1>3, <1>4, <1>5, <1>6, <1>7, <1>8, <1>9, <1>10 DEF Next, Socket, Worker

LEMMA QueueStep ==
  ASSUME IInv, [Next]_vars
  PROVE  queue' \in Seq(TrueJobs) /\ tries' \in 0 .. UnknownTries + 1 /\ planned' \in BOOLEAN /\ due' \in BOOLEAN
<1>1. /\ Types /\ queue \in Seq(TrueJobs) /\ tries \in 0 .. UnknownTries + 1 /\ UnknownTries \in Nat
      /\ planned \in BOOLEAN /\ due \in BOOLEAN
  BY GridsAreSane DEF IInv, Types
<1>2. CASE queue' = queue /\ tries' = tries /\ planned' = planned /\ due' \in {due, TRUE}
  BY <1>1, <1>2
<1>3. ASSUME NEW j \in TrueJobs, Enqueue(j), UNCHANGED <<tries, planned, due>>
      PROVE  queue' \in Seq(TrueJobs) /\ tries' \in 0 .. UnknownTries + 1 /\ planned' \in BOOLEAN /\ due' \in BOOLEAN
  BY <1>1, <1>3, AppendProperties DEF Enqueue
<1>4. Reconciling \in TrueJobs /\ [kind |-> "gone"] \in TrueJobs
  BY DEF TrueJobs
<1>5. CASE Snapshot \/ Resnapshot
  BY <1>3, <1>4, <1>5 DEF Snapshot, Resnapshot
<1>6. CASE Deliver
  <2>. DEFINE e == Head(wire)
  <2>1. e \in Events
    BY <1>1, <1>6, HeadTailProperties DEF Deliver, Types
  <2>2. \/ Enqueue([kind |-> "gone"])
        \/ e.topic = "order" /\ e.status # "New" /\ Enqueue([kind |-> "orders", order |-> e.order])
        \/ queue' = queue
    BY <1>6 DEF Deliver
  <2>3. UNCHANGED <<tries, planned, due>>
    BY <1>6 DEF Deliver
  <2>. HIDE DEF e
  <2>4. CASE e.topic = "order" /\ e.status # "New" /\ Enqueue([kind |-> "orders", order |-> e.order])
    <3>1. e.order \in Ended
      BY <2>1, <2>4 DEF Events, OrderEvents, PositionEvents
    <3>2. [kind |-> "orders", order |-> e.order] \in TrueJobs
      BY <3>1 DEF TrueJobs
    <3>. QED BY <1>3, <2>3, <2>4, <3>2
  <2>. QED BY <1>2, <1>3, <1>4, <2>2, <2>3, <2>4
<1>7. CASE Idle
  BY <1>1, <1>4, <1>7, AppendProperties DEF Idle
<1>8. CASE Begin
  BY <1>1, <1>8, HeadTailProperties DEF Begin
<1>9. CASE Pinned
  BY <1>1, <1>9 DEF Pinned
<1>10. CASE Die
  <2>1. queue' = <<>> /\ tries' = 0 /\ planned' = FALSE /\ due' = FALSE
    BY <1>10 DEF Die
  <2>2. 0 \in 0 .. UnknownTries + 1
    BY <1>1
  <2>. QED BY <2>1, <2>2, EmptySeq
<1>11. CASE History
  <2>1. queue' = queue /\ planned' = planned
    BY <1>11 DEF History
  <2>2. \/ tries' = 0 /\ due' = due
        \/ tries' = (IF tries > UnknownTries THEN tries ELSE tries + 1) /\ due' = (due \/ tries < UnknownTries)
    BY <1>11 DEF History
  <2>3. tries' \in 0 .. UnknownTries + 1
    BY <1>1, <2>2
  <2>4. due' \in BOOLEAN
    BY <1>1, <2>2
  <2>. QED BY <1>1, <2>1, <2>3, <2>4
<1>12. CASE \/ \E o \in Orders : Fill(o) \/ CancelTake(o)
            \/ \E m \in Marks : PriceMoves(m)
            \/ \E s \in Stops : MoveByHand(s)
            \/ \E g \in Grids : GridStart(g)
  BY <1>2, <1>12 DEF Fill, CancelTake, PriceMoves, MoveByHand, GridStart, memory
<1>13. CASE Api \/ Connect \/ Disconnect \/ UNCHANGED vars
  BY <1>2, <1>13 DEF Api, GridCancel, GridPlace, GridRecord, GridLost, Connect, Disconnect, vars, memory
<1>14. CASE Save \/ Place \/ CloseAtMarket \/ PostStop \/ PostRefused \/ TryFails \/ MarkApplied \/ End \/ StepFails
  BY <1>2, <1>14 DEF Save, Place, CloseAtMarket, PostStop, PostRefused, TryFails, MarkApplied, End, StepFails, Retry
<1>. QED
  BY <1>5, <1>6, <1>7, <1>8, <1>9, <1>10, <1>11, <1>12, <1>13, <1>14 DEF Next, Socket, Worker

LEMMA TypesStep ==
  ASSUME IInv, [Next]_vars
  PROVE  Types'
<1>1. Lives /\ ExchangeOK' /\ ExchangeOK /\ Types
  BY ExchangeStep DEF IInv, Types, ExchangeOK
<1>2. TrueJobs \subseteq TrueJobs' /\ TruePositions \subseteq TruePositions'
  BY <1>1, Monotone
<1>3. queue' \in Seq(TrueJobs')
  BY <1>2, QueueStep, SeqMonotonic
<1>4. view' # NoView => up' /\ view' \in Views /\ view'.position \in TruePositions'
  BY <1>2, ViewStep
<1>5. own' \in [Grids -> Nat]
  <2>1. own \in [Grids -> Nat]
    BY <1>1 DEF Types
  <2>2. CASE Forgotten
    BY <2>2 DEF Forgotten
  <2>3. CASE Noted
    <3>1. job.plan.target \in Nat /\ own' = [own EXCEPT ![job.plan.id] = job.plan.target]
      BY <1>1, <2>3 DEF Noted, Types, Steps, Plans
    <3>. QED BY <2>1, <3>1
  <2>. QED BY <1>1, <2>1, <2>2, <2>3, OwnStep
<1>6. grid' # NoGrid => grid' \in Requests /\ grid'.placed <= Len(TakesOf[grid'.g])
  BY GridStep
<1>7. (plan' # NoPlan => plan' \in Plans) /\ (job' # NoJob => job' \in Steps)
  BY PlansSoundStep
<1>8. up' \in BOOLEAN /\ planned' \in BOOLEAN /\ due' \in BOOLEAN /\ tries' \in 0 .. UnknownTries + 1
  BY ViewStep, QueueStep
<1>. QED BY <1>1, <1>3, <1>4, <1>5, <1>6, <1>7, <1>8 DEF Types, ExchangeOK

LEMMA Initially == Init => IInv
<1>. SUFFICES ASSUME Init PROVE IInv
  OBVIOUS
<1>. DEFINE s == TakesOf[First]
<1>1. /\ size = Size /\ stop = 0 /\ mark \in Marks /\ done = <<>> /\ grid = NoGrid /\ plan = NewPlan(First, s)
      /\ orders = [o \in Orders |-> IF o \in ToSet(s) THEN "New" ELSE "none"]
      /\ wire = <<>> /\ up = TRUE /\ view = Fresh /\ planned = FALSE /\ due = FALSE /\ tries = 0
      /\ queue = <<>> /\ job = NoJob /\ own = [g \in Grids |-> 0]
  BY DEF Init
<1>2. First \in Grids /\ s \in Seq(Orders) /\ s # <<>> /\ Size \in Nat /\ UnknownTries \in Nat
  BY GridsAreSane
<1>3. /\ plan.id = First /\ plan.takes = s /\ plan.filled = <<>> /\ plan.cancelled = {} /\ plan.target = 0
      /\ plan \in Plans
  BY <1>1, <1>2, EmptySeq DEF NewPlan, Plans
<1>. HIDE DEF s
<1>4. ToSet(s) \subseteq Orders
  BY <1>2, LenProperties, ElementOfSeq DEF ToSet
<1>5. ToSet(<<>>) = {} /\ Cardinality({}) = 0 /\ Len(<<>>) = 0
  BY EmptySeq, FS_EmptySet DEF ToSet
<1>6. Sound(plan, orders, own)
  <2>1. \A o \in ToSet(plan.takes) : orders[o] # "none"
    BY <1>1, <1>3, <1>4
  <2>2. own[plan.id] <= plan.target
    BY <1>1, <1>2, <1>3
  <2>3. ToSet(plan.takes) \subseteq ToSet(TakesOf[plan.id])
    BY <1>3 DEF s
  <2>4. ToSet(plan.filled) = {} /\ Len(plan.filled) = Cardinality(ToSet(plan.filled))
    BY <1>3, <1>5
  <2>. QED BY <1>2, <1>3, <2>1, <2>2, <2>3, <2>4 DEF Sound
<1>7. PlansSound
  BY <1>1, <1>6 DEF PlansSound
<1>8. size \in 0..Size /\ stop \in Nat
  BY <1>1, <1>2
<1>9. Types
  <2>1. view \in Views /\ view.position \in TruePositions
    BY <1>1, <1>8, FreshIs
  <2>2. orders \in [Orders -> Statuses]
    BY <1>1 DEF Statuses
  <2>3. tries \in 0 .. UnknownTries + 1 /\ own \in [Grids -> Nat]
    BY <1>1, <1>2
  <2>4. done \in Seq(Ended) /\ wire \in Seq(Events) /\ queue \in Seq(TrueJobs)
    BY <1>1, EmptySeq
  <2>. QED BY <1>1, <1>3, <1>8, <2>1, <2>2, <2>3, <2>4 DEF Types
<1>10. CopyOfPlan /\ NewGrid /\ EndIsDue
  BY <1>1 DEF CopyOfPlan, NewGrid, EndIsDue
<1>11. OwnIsPlaced
  BY <1>1 DEF OwnIsPlaced
<1>. QED BY <1>7, <1>9, <1>10, <1>11 DEF IInv

(***************************************************************************)
(* The inductive invariant holds in every state of the worker, the         *)
(* exchange and the api together.                                          *)
(***************************************************************************)
THEOREM Invariance == Spec => []IInv
<1>1. Init => IInv
  BY Initially
<1>2. IInv /\ [Next]_vars => IInv'
  <2>. SUFFICES ASSUME IInv, [Next]_vars PROVE IInv'
    OBVIOUS
  <2>. QED
    BY TypesStep, PlansSoundStep, CopyOfPlanStep, NewGridStep, OwnIsPlacedStep, EndIsDueStep DEF IInv
<1>. QED BY <1>1, <1>2, PTL DEF Spec

LEMMA TypeOKIs == IInv => TypeOK
<1>. SUFFICES ASSUME IInv PROVE TypeOK
  OBVIOUS
<1>1. Types
  BY DEF IInv
<1>2. ToSet(done) \subseteq Orders
  <2>1. done \in Seq(Ended) /\ Ended \subseteq Orders
    BY <1>1 DEF Types, Ended
  <2>. QED BY <2>1, LenProperties, ElementOfSeq DEF ToSet
<1>3. grid # NoGrid => ToSet(grid.stale) \subseteq Orders /\ grid.placed \in 0..Len(TakesOf[grid.g])
  <2>. SUFFICES ASSUME grid # NoGrid PROVE ToSet(grid.stale) \subseteq Orders /\ grid.placed \in 0..Len(TakesOf[grid.g])
    OBVIOUS
  <2>1. grid.stale \in Seq(Orders) /\ grid.placed \in Nat /\ grid.g \in Grids /\ grid.placed <= Len(TakesOf[grid.g])
    BY <1>1 DEF Types, Requests
  <2>2. ToSet(grid.stale) \subseteq Orders
    BY <2>1, LenProperties, ElementOfSeq DEF ToSet
  <2>. QED BY <2>1, <2>2, TakesAre
<1>4. plan # NoPlan => plan.id \in Grids /\ plan.target \in Nat
  BY <1>1 DEF Types, Plans
<1>5. view # NoView => up /\ view.orders \subseteq Orders
  BY <1>1 DEF Types, Views
<1>. QED BY <1>1, <1>2, <1>3, <1>4, <1>5 DEF Types, TypeOK, Statuses

(***************************************************************************)
(* Every variable of the stop that follows the takes has its type.         *)
(***************************************************************************)
THEOREM TypeCorrect == Spec => []TypeOK
BY Invariance, TypeOKIs, PTL

(***************************************************************************)
(* A plan counts only takes of its own, each once, and as what it was on   *)
(* the exchange (stop-follow.service.ts:154, stop-follow.store.ts:70).     *)
(***************************************************************************)
THEOREM CountsOwn == Spec => []CountsItsOwn
<1>1. IInv => CountsItsOwn
  BY DEF IInv, PlansSound, Sound, CountsItsOwn
<1>. QED BY <1>1, Invariance, PTL

LEMMA HoldsStep ==
  ASSUME IInv, [Next]_vars
  PROVE  (\A g \in Grids : own'[g] >= own[g]) \/ (job' = job /\ stop' # stop)
<1>1. Types /\ PlansSound
  BY DEF IInv
<1>2. own \in [Grids -> Nat]
  BY <1>1 DEF Types
<1>3. CASE own' = own
  BY <1>2, <1>3
<1>4. CASE Noted
  <2>1. /\ own' = [own EXCEPT ![job.plan.id] = job.plan.target]
        /\ own[job.plan.id] <= job.plan.target
    BY <1>1, <1>4 DEF Noted, PlansSound, Sound
  <2>. QED BY <1>2, <2>1
<1>. QED BY <1>1, <1>3, <1>4, OwnStep

(***************************************************************************)
(* The worker never takes the stop of a plan back: what a step sets is at  *)
(* least what the steps of that plan set before it, unless the person      *)
(* moved the stop in between (stop-follow.service.ts:196).                 *)
(***************************************************************************)
THEOREM OwnStop == Spec => OwnStopHolds
<1>1. IInv /\ [Next]_vars => [(\A g \in Grids : own'[g] >= own[g]) \/ (job' = job /\ stop' # stop)]_vars
  BY HoldsStep
<1>. QED BY <1>1, Invariance, PTL DEF Spec, OwnStopHolds

LEMMA EndedBy ==
  ASSUME IInv, [Next]_vars, plan # NoPlan, plan.active, plan' # NoPlan, plan'.id = plan.id, ~ plan'.active
  PROVE  End /\ Mine
<1>0. plan \in Plans /\ NewGrid
  BY DEF IInv, Types
<1>1. plan' # plan
  OBVIOUS
<1>2. CASE \/ \E o \in Orders : Fill(o) \/ CancelTake(o)
           \/ \E m \in Marks : PriceMoves(m)
           \/ \E s \in Stops : MoveByHand(s)
           \/ \E g \in Grids : GridStart(g)
  BY <1>1, <1>2 DEF Fill, CancelTake, PriceMoves, MoveByHand, GridStart
<1>3. CASE GridCancel \/ GridPlace \/ GridLost \/ Connect \/ Snapshot \/ Deliver
  BY <1>1, <1>3 DEF GridCancel, GridPlace, GridLost, Connect, Snapshot, Deliver
<1>4. CASE Resnapshot \/ Disconnect \/ Pinned \/ Idle \/ Die \/ UNCHANGED vars
  BY <1>1, <1>4 DEF Resnapshot, Disconnect, Pinned, Idle, Die, vars
<1>5. CASE Begin \/ History \/ Place \/ CloseAtMarket \/ PostStop \/ PostRefused \/ TryFails \/ StepFails
  BY <1>1, <1>5 DEF Begin, History, Place, CloseAtMarket, PostStop, PostRefused, TryFails, StepFails
<1>6. CASE GridRecord
  BY <1>0, <1>1, <1>6 DEF GridRecord, Recorded, NewPlan, NewGrid
<1>7. CASE Save
  <2>1. plan' = [plan EXCEPT !.filled = job.plan.filled, !.cancelled = job.plan.cancelled,
                             !.target = job.plan.target, !.applied = job.plan.applied]
    BY <1>1, <1>7 DEF Save, Write
  <2>2. plan'.active = plan.active
    BY ONLY <1>0, <2>1 DEF Plans
  <2>. QED BY <2>2
<1>8. CASE MarkApplied
  <2>1. plan' = [plan EXCEPT !.applied = TRUE]
    BY <1>1, <1>8 DEF MarkApplied, Write
  <2>2. plan'.active = plan.active
    BY ONLY <1>0, <2>1 DEF Plans
  <2>. QED BY <2>2
<1>9. CASE End
  BY <1>1, <1>9 DEF End, Write
<1>. QED BY <1>2, <1>3, <1>4, <1>5, <1>6, <1>7, <1>8, <1>9 DEF Next, Api, Socket, Worker

LEMMA EndsStep ==
  ASSUME IInv, [Next]_vars, plan # NoPlan, plan.active, plan' # NoPlan, plan'.id = plan.id, ~ plan'.active
  PROVE  size = 0 \/ (job.plan.applied /\ \A o \in ToSet(plan.takes) : orders[o] \in {"Filled", "Cancelled"})
<1>1. End /\ plan.id = job.plan.id /\ job # NoJob
  BY EndedBy DEF Mine, End, At
<1>2. /\ plan.takes = job.plan.takes /\ Sound(job.plan, orders, own)
      /\ job.pc = "closed" => size = 0
      /\ job.pc = "end" => size = 0 \/ (job.plan.applied /\ Pending(job.plan) = {})
  BY <1>1 DEF IInv, CopyOfPlan, PlansSound, EndIsDue
<1>3. job.pc = "end" \/ job.pc = "closed"
  BY <1>1 DEF End, At
<1>4. Pending(job.plan) = {} => \A o \in ToSet(plan.takes) : orders[o] \in {"Filled", "Cancelled"}
  BY <1>2 DEF Pending, Sound
<1>. QED BY <1>2, <1>3, <1>4

(***************************************************************************)
(* A plan ends only with its position, or when every take of it is done    *)
(* and its last stop was set (stop-follow.service.ts:300, 306).            *)
(***************************************************************************)
THEOREM EndsWhenDone == Spec => PlanEndsWhenDone
<1>1. IInv /\ [Next]_vars
        => [plan # NoPlan /\ plan.active /\ plan' # NoPlan /\ plan'.id = plan.id /\ ~plan'.active =>
              size = 0 \/ (job.plan.applied /\ \A o \in ToSet(plan.takes) : orders[o] \in {"Filled", "Cancelled"})]_vars
  BY EndsStep
<1>. QED BY <1>1, Invariance, PTL DEF Spec, PlanEndsWhenDone

=============================================================================
