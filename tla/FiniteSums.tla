----------------------------- MODULE FiniteSums -----------------------------
(***************************************************************************)
(* Facts about the sum of a function of naturals over a finite set, as     *)
(* SumFunctionOnSet of the community modules defines it: a fold that takes *)
(* the elements in the order of one CHOOSE.  None of them depends on that  *)
(* order.  Induction is over a set of subsets, which needs no theorem with *)
(* an operator for parameter.                                              *)
(***************************************************************************)
EXTENDS FiniteSetTheorems, TLAPS

Pick(T) == CHOOSE x \in T : TRUE
Rest(T) == T \ {Pick(T)}
Natural(f, S) == \A x \in S : f[x] \in Nat

(* it tabulates the sums of f over the subsets of S. *)
Tally(f, S, it) ==
  it = [T \in SUBSET S |-> IF T = {} THEN 0 ELSE f[Pick(T)] + it[Rest(T)]]

LEMMA MinimalElement ==
  ASSUME NEW R, NEW P, IsWellFoundedOn(R, P), NEW Bad, Bad \subseteq P, Bad # {}
  PROVE  \E x \in Bad : \A y \in Bad : ~ (<<y, x>> \in R)
BY WFMin

(* Well-founded induction over the subsets of a finite set. *)
LEMMA SubsetInduction ==
  ASSUME NEW S, IsFiniteSet(S), NEW Good,
         \A T \in SUBSET S : (\A U \in SUBSET T : U # T => U \in Good) => T \in Good
  PROVE  SUBSET S \subseteq Good
<1> SUFFICES ASSUME (SUBSET S) \ Good # {} PROVE FALSE
  OBVIOUS
<1>1. IsWellFoundedOn(StrictSubsetOrdering(S), SUBSET S)
  <2>1. IsWellFoundedOn(StrictSubsetOrdering(S), FiniteSubsetsOf(S))
    BY FS_StrictSubsetOrderingWellFounded, Zenon
  <2>2. FiniteSubsetsOf(S) = SUBSET S
    BY FS_FiniteSubsetsOfFinite, Zenon
  <2>. QED BY <2>1, <2>2, Zenon
<1>2. PICK T \in (SUBSET S) \ Good :
        \A U \in (SUBSET S) \ Good : ~ (<<U, T>> \in StrictSubsetOrdering(S))
  <2> DEFINE Bad == (SUBSET S) \ Good
  <2>1. Bad \subseteq SUBSET S
    OBVIOUS
  <2>2. Bad # {}
    OBVIOUS
  <2>3. \E T \in Bad : \A U \in Bad : ~ (<<U, T>> \in StrictSubsetOrdering(S))
    <3> HIDE DEF Bad
    <3>. QED BY ONLY <1>1, <2>1, <2>2, MinimalElement
  <2>. QED BY <2>3
<1>3. \A U \in SUBSET T : U # T => U \in Good
  <2> SUFFICES ASSUME NEW U \in SUBSET T, U # T, U \notin Good PROVE FALSE
    OBVIOUS
  <2>1. U \in SUBSET S
    OBVIOUS
  <2>2. <<U, T>> \in StrictSubsetOrdering(S)
    BY <2>1 DEF StrictSubsetOrdering
  <2>. QED BY <1>2, <2>1, <2>2
<1>. QED BY <1>2, <1>3

LEMMA PickInSet ==
  ASSUME NEW T, T # {}
  PROVE  Pick(T) \in T
BY DEF Pick

LEMMA RestIsSmaller ==
  ASSUME NEW T, T # {}
  PROVE  Rest(T) \in SUBSET T /\ Rest(T) # T
BY PickInSet DEF Rest

(* Two tables agree on the sets both are about. *)
LEMMA TallyUnique ==
  ASSUME NEW S, IsFiniteSet(S), NEW T \in SUBSET S, NEW f,
         NEW it, Tally(f, S, it), NEW jt, Tally(f, T, jt)
  PROVE  \A U \in SUBSET T : it[U] = jt[U]
<1> DEFINE Good == {U \in SUBSET T : it[U] = jt[U]}
<1>1. IsFiniteSet(T)
  BY FS_Subset
<1>2. ASSUME NEW U \in SUBSET T, \A W \in SUBSET U : W # U => W \in Good
      PROVE  U \in Good
  <2>1. CASE U = {}
    BY <2>1 DEF Tally
  <2>2. CASE U # {}
    <3>1. Rest(U) \in SUBSET U /\ Rest(U) # U
      BY <2>2, RestIsSmaller
    <3>2. it[Rest(U)] = jt[Rest(U)]
      BY <1>2, <3>1
    <3>3. it[U] = f[Pick(U)] + it[Rest(U)] /\ jt[U] = f[Pick(U)] + jt[Rest(U)]
      BY <2>2 DEF Tally
    <3>. QED BY <3>2, <3>3
  <2>. QED BY <2>1, <2>2
<1>3. SUBSET T \subseteq Good
  <2> HIDE DEF Good
  <2>. QED BY <1>1, <1>2, SubsetInduction
<1>. QED BY <1>3

LEMMA TallyExists ==
  ASSUME NEW S, IsFiniteSet(S), NEW f
  PROVE  \E it : Tally(f, S, it)
<1> DEFINE Good == {T \in SUBSET S : \E it : Tally(f, T, it)}
           table(T) == CHOOSE it : Tally(f, T, it)
           value(T) == table(T)[T]
<1>1. ASSUME NEW T \in SUBSET S, \A U \in SUBSET T : U # T => U \in Good
      PROVE  T \in Good
  <2> DEFINE it == [U \in SUBSET T |->
                      IF U = {} THEN 0 ELSE f[Pick(U)] + value(Rest(U))]
  <2>1. ASSUME NEW U \in SUBSET T, U # T
        PROVE  Tally(f, U, table(U))
    <3>1. \E jt : Tally(f, U, jt)
      BY <1>1, <2>1
    <3>. QED BY <3>1
  <2>2. ASSUME NEW W \in SUBSET T, W # T
        PROVE  it[W] = value(W)
    <3>1. Tally(f, W, table(W))
      BY <2>1, <2>2
    <3>2. CASE W = {}
      <4>1. table(W)[W] = 0
        BY <3>1, <3>2 DEF Tally
      <4>. QED BY <4>1, <3>2
    <3>3. CASE W # {}
      <4>1. Rest(W) \in SUBSET W /\ Rest(W) # W
        BY <3>3, RestIsSmaller
      <4>2. Tally(f, Rest(W), table(Rest(W)))
        <5>1. Rest(W) \in SUBSET T /\ Rest(W) # T
          BY <4>1
        <5>. QED BY <2>1, <5>1
      <4>3. IsFiniteSet(W)
        <5>1. W \in SUBSET S
          OBVIOUS
        <5>. QED BY <5>1, FS_Subset
      <4>4. table(W)[Rest(W)] = table(Rest(W))[Rest(W)]
        <5> HIDE DEF table
        <5>1. \A U \in SUBSET Rest(W) : table(W)[U] = table(Rest(W))[U]
          BY <3>1, <4>1, <4>2, <4>3, TallyUnique
        <5>. QED BY <5>1
      <4>5. table(W)[W] = f[Pick(W)] + table(W)[Rest(W)]
        <5> HIDE DEF table
        <5>. QED BY <3>1, <3>3 DEF Tally
      <4>6. it[W] = f[Pick(W)] + value(Rest(W))
        <5> HIDE DEF value
        <5>. QED BY <3>3
      <4> HIDE DEF table, it
      <4>. QED BY <4>4, <4>5, <4>6
    <3>. QED BY <3>2, <3>3
  <2>3. ASSUME NEW U \in SUBSET T, U # {}
        PROVE  it[Rest(U)] = value(Rest(U))
    <3>1. Rest(U) \in SUBSET T /\ Rest(U) # T
      BY <2>3, RestIsSmaller
    <3>. QED BY <2>2, <3>1
  <2>4. Tally(f, T, it)
    <3> DEFINE jt == [U \in SUBSET T |->
                        IF U = {} THEN 0 ELSE f[Pick(U)] + it[Rest(U)]]
    <3>1. \A U \in SUBSET T : it[U] = jt[U]
      <4> HIDE DEF value
      <4>. QED BY <2>3
    <3>2. it = jt
      <4> HIDE DEF value
      <4>. QED BY <3>1
    <3>3. Tally(f, T, it) <=> it = jt
      <4> HIDE DEF it
      <4>. QED BY DEF Tally
    <3>. QED BY <3>2, <3>3
  <2>. QED
    <3> HIDE DEF it
    <3>. QED BY <2>4
<1>2. SUBSET S \subseteq Good
  <2> HIDE DEF Good
  <2>. QED BY <1>1, SubsetInduction
<1>. QED BY <1>2

-----------------------------------------------------------------------------
(* The sum is a table's entry. *)
LEMMA SumIsTally ==
  ASSUME NEW S, IsFiniteSet(S), NEW f
  PROVE  \E it : Tally(f, S, it) /\ SumFunctionOnSet(f, S) = it[S]
<1> DEFINE it == CHOOSE it : Tally(f, S, it)
<1>1. Tally(f, S, it)
  BY TallyExists
<1>2. SumFunctionOnSet(f, S) = it[S]
  BY DEF SumFunctionOnSet, FoldFunctionOnSet, MapThenFoldSet, Tally, Pick, Rest
<1> HIDE DEF it
<1>. QED BY <1>1, <1>2

LEMMA SumOfNone ==
  ASSUME NEW f
  PROVE  SumFunctionOnSet(f, {}) = 0
<1>1. PICK it : Tally(f, {}, it) /\ SumFunctionOnSet(f, {}) = it[{}]
  BY SumIsTally, FS_EmptySet
<1>. QED BY <1>1 DEF Tally

LEMMA SumUnfolds ==
  ASSUME NEW S, IsFiniteSet(S), NEW f, S # {}
  PROVE  SumFunctionOnSet(f, S) = f[Pick(S)] + SumFunctionOnSet(f, Rest(S))
<1>1. PICK it : Tally(f, S, it) /\ SumFunctionOnSet(f, S) = it[S]
  BY SumIsTally
<1>2. Rest(S) \in SUBSET S /\ IsFiniteSet(Rest(S))
  BY RestIsSmaller, FS_Subset
<1>3. PICK jt : Tally(f, Rest(S), jt) /\ SumFunctionOnSet(f, Rest(S)) = jt[Rest(S)]
  BY SumIsTally, <1>2
<1>4. it[Rest(S)] = jt[Rest(S)]
  BY <1>1, <1>2, <1>3, TallyUnique
<1>5. it[S] = f[Pick(S)] + it[Rest(S)]
  BY <1>1 DEF Tally
<1>. QED BY <1>1, <1>3, <1>4, <1>5

LEMMA SumType ==
  ASSUME NEW S, IsFiniteSet(S), NEW f, Natural(f, S)
  PROVE  SumFunctionOnSet(f, S) \in Nat
<1> DEFINE Good == {T \in SUBSET S : SumFunctionOnSet(f, T) \in Nat}
<1>1. ASSUME NEW T \in SUBSET S, \A U \in SUBSET T : U # T => U \in Good
      PROVE  T \in Good
  <2>1. CASE T = {}
    BY <2>1, SumOfNone
  <2>2. CASE T # {}
    <3>1. IsFiniteSet(T)
      BY FS_Subset
    <3>2. SumFunctionOnSet(f, Rest(T)) \in Nat
      BY <1>1, <2>2, RestIsSmaller
    <3>3. f[Pick(T)] \in Nat
      BY <2>2, PickInSet DEF Natural
    <3>4. SumFunctionOnSet(f, T) = f[Pick(T)] + SumFunctionOnSet(f, Rest(T))
      BY <2>2, <3>1, SumUnfolds
    <3>. QED BY <3>2, <3>3, <3>4
  <2>. QED BY <2>1, <2>2
<1>2. SUBSET S \subseteq Good
  <2> HIDE DEF Good
  <2>. QED BY <1>1, SubsetInduction
<1>. QED BY <1>2

(* Any element can be taken out first. *)
LEMMA SumWithout ==
  ASSUME NEW S, IsFiniteSet(S), NEW f, Natural(f, S), NEW x \in S
  PROVE  SumFunctionOnSet(f, S) = f[x] + SumFunctionOnSet(f, S \ {x})
<1> DEFINE Splits(T, y) ==
             SumFunctionOnSet(f, T) = f[y] + SumFunctionOnSet(f, T \ {y})
           Good == {T \in SUBSET S : \A y \in T : Splits(T, y)}
<1>1. ASSUME NEW T \in SUBSET S, \A U \in SUBSET T : U # T => U \in Good
      PROVE  T \in Good
  <2>1. ASSUME NEW y \in T
        PROVE  Splits(T, y)
    <3> DEFINE p == Pick(T)
    <3>1. IsFiniteSet(T)
      BY FS_Subset
    <3>2. p \in T
      BY PickInSet
    <3>3. SumFunctionOnSet(f, T) = f[p] + SumFunctionOnSet(f, T \ {p})
      BY <3>1, SumUnfolds DEF Rest
    <3>4. CASE y = p
      BY <3>3, <3>4
    <3>5. CASE y # p
      <4> HIDE DEF p
      <4>1. T \ {p} \in SUBSET T /\ T \ {p} # T /\ T \ {y} \in SUBSET T /\ T \ {y} # T
        BY <3>2
      <4>2. y \in T \ {p} /\ p \in T \ {y} /\ (T \ {p}) \ {y} = (T \ {y}) \ {p}
        BY <3>2, <3>5
      <4> DEFINE both == SumFunctionOnSet(f, (T \ {y}) \ {p})
      <4>3. SumFunctionOnSet(f, T \ {p}) = f[y] + both
        BY <1>1, <4>1, <4>2
      <4>4. SumFunctionOnSet(f, T \ {y}) = f[p] + both
        BY <1>1, <4>1, <4>2
      <4>5. both \in Nat /\ f[p] \in Nat /\ f[y] \in Nat
        <5>1. IsFiniteSet((T \ {y}) \ {p}) /\ Natural(f, (T \ {y}) \ {p})
          BY <3>1, FS_Subset DEF Natural
        <5>2. both \in Nat
          BY <5>1, SumType
        <5>. QED BY <5>2, <3>2 DEF Natural
      <4> HIDE DEF both
      <4>. QED BY <3>3, <4>3, <4>4, <4>5
    <3>. QED BY <3>4, <3>5
  <2>. QED BY <2>1
<1>2. SUBSET S \subseteq Good
  <2> HIDE DEF Good
  <2>. QED BY <1>1, SubsetInduction
<1>. QED BY <1>2

(* Only the values on the set count. *)
LEMMA SumOfEqual ==
  ASSUME NEW S, IsFiniteSet(S), NEW f, NEW g, \A x \in S : f[x] = g[x]
  PROVE  SumFunctionOnSet(f, S) = SumFunctionOnSet(g, S)
<1> DEFINE Good == {T \in SUBSET S : SumFunctionOnSet(f, T) = SumFunctionOnSet(g, T)}
<1>1. ASSUME NEW T \in SUBSET S, \A U \in SUBSET T : U # T => U \in Good
      PROVE  T \in Good
  <2>1. CASE T = {}
    BY <2>1, SumOfNone
  <2>2. CASE T # {}
    <3>1. IsFiniteSet(T)
      BY FS_Subset
    <3>2. SumFunctionOnSet(f, Rest(T)) = SumFunctionOnSet(g, Rest(T))
      BY <1>1, <2>2, RestIsSmaller
    <3>3. f[Pick(T)] = g[Pick(T)]
      BY <2>2, PickInSet
    <3>4. SumFunctionOnSet(f, T) = f[Pick(T)] + SumFunctionOnSet(f, Rest(T))
      BY <2>2, <3>1, SumUnfolds
    <3>5. SumFunctionOnSet(g, T) = g[Pick(T)] + SumFunctionOnSet(g, Rest(T))
      BY <2>2, <3>1, SumUnfolds
    <3>. QED BY <3>2, <3>3, <3>4, <3>5
  <2>. QED BY <2>1, <2>2
<1>2. SUBSET S \subseteq Good
  <2> HIDE DEF Good
  <2>. QED BY <1>1, SubsetInduction
<1>. QED BY <1>2

(* A change of one value moves the sum by the difference. *)
LEMMA SumOfOneChanged ==
  ASSUME NEW S, IsFiniteSet(S), NEW f, NEW g, Natural(f, S), Natural(g, S),
         NEW x \in S, \A y \in S : y # x => g[y] = f[y]
  PROVE  SumFunctionOnSet(g, S) = SumFunctionOnSet(f, S) + (g[x] - f[x])
<1>1. SumFunctionOnSet(f, S) = f[x] + SumFunctionOnSet(f, S \ {x})
  BY SumWithout
<1>2. SumFunctionOnSet(g, S) = g[x] + SumFunctionOnSet(g, S \ {x})
  BY SumWithout
<1>3. IsFiniteSet(S \ {x}) /\ Natural(f, S \ {x})
  BY FS_Subset DEF Natural
<1>4. SumFunctionOnSet(f, S \ {x}) = SumFunctionOnSet(g, S \ {x})
  BY <1>3, SumOfEqual
<1>5. SumFunctionOnSet(f, S \ {x}) \in Nat
  BY <1>3, SumType
<1>6. f[x] \in Nat /\ g[x] \in Nat
  BY DEF Natural
<1>. QED BY <1>1, <1>2, <1>4, <1>5, <1>6

(* Values set to zero leave the sum. *)
LEMMA SumOfZeroed ==
  ASSUME NEW S, IsFiniteSet(S), NEW f, NEW g, Natural(f, S), NEW Z \in SUBSET S,
         \A x \in S : g[x] = IF x \in Z THEN 0 ELSE f[x]
  PROVE  SumFunctionOnSet(g, S) = SumFunctionOnSet(f, S) - SumFunctionOnSet(f, Z)
<1> DEFINE cut(T) == [x \in S |-> IF x \in T THEN 0 ELSE f[x]]
           Good == {T \in SUBSET S : SumFunctionOnSet(cut(T), S)
                       = SumFunctionOnSet(f, S) - SumFunctionOnSet(f, T)}
<1>1. ASSUME NEW T \in SUBSET S, \A U \in SUBSET T : U # T => U \in Good
      PROVE  T \in Good
  <2>1. CASE T = {}
    <3>1. SumFunctionOnSet(cut(T), S) = SumFunctionOnSet(f, S)
      <4>1. \A x \in S : cut(T)[x] = f[x]
        BY <2>1
      <4> HIDE DEF cut
      <4>. QED BY <4>1, SumOfEqual
    <3>2. SumFunctionOnSet(f, T) = 0 /\ SumFunctionOnSet(f, S) \in Nat
      BY <2>1, SumOfNone, SumType
    <3> HIDE DEF cut
    <3>. QED BY <3>1, <3>2
  <2>2. CASE T # {}
    <3> DEFINE p == Pick(T)
               U == T \ {p}
    <3>1. p \in T /\ U \in SUBSET T /\ U # T
      BY <2>2, PickInSet
    <3> HIDE DEF p
    <3>2. SumFunctionOnSet(cut(U), S) = SumFunctionOnSet(f, S) - SumFunctionOnSet(f, U)
      <4> HIDE DEF cut, U
      <4>. QED BY <1>1, <3>1
    <3>3. SumFunctionOnSet(f, T) = f[p] + SumFunctionOnSet(f, U)
      <4>1. IsFiniteSet(T) /\ Natural(f, T)
        BY FS_Subset DEF Natural
      <4>. QED BY <3>1, <4>1, SumWithout
    <3>4. SumFunctionOnSet(cut(T), S) = SumFunctionOnSet(cut(U), S) + (cut(T)[p] - cut(U)[p])
      <4>1. Natural(cut(T), S) /\ Natural(cut(U), S)
        BY DEF Natural
      <4>2. \A y \in S : y # p => cut(T)[y] = cut(U)[y]
        OBVIOUS
      <4>3. p \in S
        BY <3>1
      <4> DEFINE before == cut(U)
                 after == cut(T)
      <4> HIDE DEF cut
      <4>4. SumFunctionOnSet(after, S) = SumFunctionOnSet(before, S) + (after[p] - before[p])
        <5> HIDE DEF before, after
        <5>1. Natural(after, S) /\ Natural(before, S) /\ \A y \in S : y # p => after[y] = before[y]
          BY <4>1, <4>2 DEF before, after
        <5>. QED BY <4>3, <5>1, SumOfOneChanged
      <4>. QED BY <4>4
    <3>5. cut(T)[p] = 0 /\ cut(U)[p] = f[p]
      BY <3>1
    <3>6. SumFunctionOnSet(f, S) \in Nat /\ SumFunctionOnSet(f, U) \in Nat /\ f[p] \in Nat
      <4>1. IsFiniteSet(U) /\ Natural(f, U)
        BY FS_Subset DEF Natural
      <4> HIDE DEF U
      <4>. QED BY <3>1, <4>1, SumType DEF Natural
    <3> HIDE DEF cut, U
    <3>. QED BY <3>2, <3>3, <3>4, <3>5, <3>6
  <2>. QED BY <2>1, <2>2
<1>2. SUBSET S \subseteq Good
  <2> HIDE DEF Good
  <2>. QED BY <1>1, SubsetInduction
<1>3. SumFunctionOnSet(cut(Z), S) = SumFunctionOnSet(f, S) - SumFunctionOnSet(f, Z)
  BY <1>2
<1>4. SumFunctionOnSet(g, S) = SumFunctionOnSet(cut(Z), S)
  <2>1. \A x \in S : g[x] = cut(Z)[x]
    OBVIOUS
  <2> HIDE DEF cut
  <2>. QED BY <2>1, SumOfEqual
<1>. QED BY <1>3, <1>4

(* A part sums to no more than the whole. *)
LEMMA SumOfPart ==
  ASSUME NEW S, IsFiniteSet(S), NEW f, Natural(f, S), NEW Z \in SUBSET S
  PROVE  SumFunctionOnSet(f, Z) <= SumFunctionOnSet(f, S)
<1> DEFINE cut == [x \in S |-> IF x \in Z THEN 0 ELSE f[x]]
<1>1. Natural(cut, S) /\ \A x \in S : cut[x] = IF x \in Z THEN 0 ELSE f[x]
  BY DEF Natural
<1> HIDE DEF cut
<1>2. SumFunctionOnSet(cut, S) = SumFunctionOnSet(f, S) - SumFunctionOnSet(f, Z)
  BY <1>1, SumOfZeroed
<1>3. IsFiniteSet(Z) /\ Natural(f, Z)
  BY FS_Subset DEF Natural
<1>4. SumFunctionOnSet(cut, S) \in Nat /\ SumFunctionOnSet(f, S) \in Nat
        /\ SumFunctionOnSet(f, Z) \in Nat
  BY <1>1, <1>3, SumType
<1>. QED BY <1>2, <1>4
=============================================================================
