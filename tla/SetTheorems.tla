----------------------------- MODULE SetTheorems -----------------------------
(***************************************************************************)
(* Induction over finite sets and numbers, and with it what Max, folds and *)
(* SumFunctionOnSet of the community modules compute.  The job queue       *)
(* bounds the bytes of a log and the audit log those of a directory by     *)
(* such sums; the catalog is merged and the audit log read by folds.       *)
(*                                                                         *)
(* The induction theorems of the library take an operator as a parameter.  *)
(* Here the induction is over a set of subsets, whose smallest             *)
(* counterexample theorem WFMin provides.                                  *)
(***************************************************************************)
EXTENDS Integers, Sequences, FiniteSets, FiniteSetsExt, FiniteSetTheorems, TLAPS

-----------------------------------------------------------------------------
(* Induction.                                                              *)

\* Every non-empty set of subsets of a finite set has a smallest member: none of its
\* proper subsets is a member.
LEMMA SmallestSubset ==
  ASSUME NEW S, IsFiniteSet(S), NEW Bad \in SUBSET (SUBSET S), Bad # {}
  PROVE  \E T \in Bad : \A U \in SUBSET T : U # T => U \notin Bad
<1> DEFINE R == StrictSubsetOrdering(S)
<1>1. FiniteSubsetsOf(S) = SUBSET S
  BY FS_FiniteSubsetsOfFinite
<1>2. IsWellFoundedOn(R, SUBSET S)
  BY <1>1, FS_StrictSubsetOrderingWellFounded
<1>3. PICK T \in Bad : \A U \in Bad : <<U, T>> \notin R
  <2> HIDE DEF R
  <2> QED
    BY <1>2, WFMin
<1> QED
  BY <1>3 DEF StrictSubsetOrdering

\* Induction over a finite set: what holds of {} and survives the addition of one
\* element holds of the set.
LEMMA SetInduction ==
  ASSUME NEW S, IsFiniteSet(S), NEW Good \in SUBSET (SUBSET S),
         {} \in Good,
         \A T \in SUBSET S, x \in S : T \in Good => T \cup {x} \in Good
  PROVE  S \in Good
<1> DEFINE Bad == (SUBSET S) \ Good
<1>1. SUFFICES ASSUME Bad # {} PROVE FALSE
  OBVIOUS
<1>2. PICK T \in Bad : \A U \in SUBSET T : U # T => U \notin Bad
  <2>1. Bad \in SUBSET (SUBSET S)
    OBVIOUS
  <2> HIDE DEF Bad
  <2> QED
    BY <1>1, <2>1, SmallestSubset
<1>3. PICK x \in T : TRUE
  OBVIOUS
<1>4. T \ {x} \in Good /\ T = (T \ {x}) \cup {x}
  BY <1>2, <1>3
<1> QED
  BY <1>2, <1>3, <1>4

\* Induction over the natural numbers, by the number of elements of a set.
LEMMA NumberInduction ==
  ASSUME NEW Good \in SUBSET Nat, 0 \in Good, \A n \in Good : n + 1 \in Good
  PROVE  Nat \subseteq Good
<1> SUFFICES ASSUME NEW n \in Nat PROVE n \in Good
  OBVIOUS
<1> DEFINE S == 1..n
           Small == {T \in SUBSET S : Cardinality(T) \in Good}
<1>1. IsFiniteSet(S) /\ Cardinality(S) = n
  BY FS_Interval
<1>2. {} \in Small
  BY FS_EmptySet
<1>3. ASSUME NEW T \in SUBSET S, NEW x \in S, T \in Small
      PROVE  T \cup {x} \in Small
  <2>1. IsFiniteSet(T)
    BY <1>1, FS_Subset
  <2>2. Cardinality(T \cup {x}) \in {Cardinality(T), Cardinality(T) + 1}
    BY <2>1, FS_AddElement
  <2> QED
    BY <1>3, <2>2
<1>4. S \in Small
  <2> HIDE DEF Small
  <2>1. Small \in SUBSET (SUBSET S)
    BY DEF Small
  <2> QED
    BY <1>1, <1>2, <1>3, <2>1, SetInduction
<1> QED
  BY <1>1, <1>4

\* A finite, non-empty set of integers has a greatest element, and Max is it.
LEMMA MaxOfFinite ==
  ASSUME NEW S \in SUBSET Int, IsFiniteSet(S), S # {}
  PROVE  Max(S) \in S /\ \A x \in S : x <= Max(S)
<1> DEFINE Good == {T \in SUBSET S : T = {} \/ \E m \in T : \A x \in T : m >= x}
<1>1. {} \in Good
  OBVIOUS
<1>2. ASSUME NEW T \in SUBSET S, NEW x \in S, T \in Good
      PROVE  T \cup {x} \in Good
  <2>1. CASE T = {}
    BY <2>1
  <2>2. ASSUME NEW m \in T, \A y \in T : m >= y
        PROVE  \E n \in T \cup {x} : \A y \in T \cup {x} : n >= y
    BY <2>2
  <2> QED
    BY <1>2, <2>1, <2>2
<1>3. S \in Good
  <2> HIDE DEF Good
  <2>1. Good \in SUBSET (SUBSET S)
    BY DEF Good
  <2> QED
    BY <1>1, <1>2, <2>1, SetInduction
<1>4. PICK m \in S : \A x \in S : m >= x
  BY <1>3
<1> QED
  BY <1>4 DEF Max

\* Induction over an interval: what holds of 0 and of each number if it holds of the one before.
LEMMA PrefixInduction ==
  ASSUME NEW n \in Nat, NEW Good \in SUBSET (0..n), 0 \in Good,
         \A i \in 1..n : i - 1 \in Good => i \in Good
  PROVE  Good = 0..n
<1> DEFINE Upto == {i \in Nat : i <= n => i \in Good}
<1>1. 0 \in Upto
  OBVIOUS
<1>2. ASSUME NEW i \in Upto PROVE i + 1 \in Upto
  <2> SUFFICES ASSUME i + 1 <= n PROVE i + 1 \in Good
    OBVIOUS
  <2>1. PICK j \in 1..n : j = i + 1
    OBVIOUS
  <2>2. j - 1 = i /\ i \in Good
    BY <2>1
  <2> QED
    BY <2>1, <2>2
<1>3. Nat \subseteq Upto
  <2>1. Upto \in SUBSET Nat
    OBVIOUS
  <2> HIDE DEF Upto
  <2> QED
    BY <1>1, <1>2, <2>1, NumberInduction
<1>4. \A i \in 0..n : i \in Good
  BY <1>3
<1> QED
  BY <1>4

-----------------------------------------------------------------------------
(* Folds.                                                                  *)

\* A way to take an element of each non-empty subset of S.
Takes(next, S) == \A s \in SUBSET S : s # {} => next[s] \in s

\* The table of the results of a fold over the sets in D: the step for the element that is
\* taken, applied to the result for the rest.
FoldTable(it, b, G, next, D) ==
    it[{}] = b /\ \A s \in D : s # {} => it[s] = G[next[s]][it[s \ {next[s]}]]

\* A fold over a finite set, with a step that is a function, has a table of its results for all
\* subsets: it can be built up by the size of the sets.
LEMMA FoldTableExists ==
  ASSUME NEW S, IsFiniteSet(S), NEW X, NEW b \in X, NEW G \in [S -> [X -> X]],
         NEW next, Takes(next, S)
  PROVE  \E it \in [SUBSET S -> X] : FoldTable(it, b, G, next, SUBSET S)
<1> DEFINE Upto(T) == {s \in SUBSET S : Cardinality(s) <= Cardinality(T)}
           Table(it, D) == it \in [D -> X] /\ FoldTable(it, b, G, next, D)
           Good == {T \in SUBSET S : \E it : Table(it, Upto(T))}
<1>0. \A T \in SUBSET S : IsFiniteSet(T) /\ Cardinality(T) \in Nat /\ Cardinality(T) <= Cardinality(S)
  BY FS_Subset, FS_CardinalityType
<1>1. {} \in Good
  <2>1. Upto({}) = {{}}
    BY <1>0, FS_EmptySet
  <2>2. Table([s \in {{}} |-> b], {{}})
    BY DEF FoldTable
  <2> HIDE DEF Table, Upto
  <2> QED
    BY <2>1, <2>2
<1>2. ASSUME NEW T \in SUBSET S, NEW x \in S, T \in Good
      PROVE  T \cup {x} \in Good
  <2>1. CASE x \in T
    <3>1. T \cup {x} = T
      BY <2>1
    <3> HIDE DEF Good
    <3> QED
      BY <1>2, <3>1
  <2>2. CASE x \notin T
    <3>1. Cardinality(T \cup {x}) = Cardinality(T) + 1
      BY <1>0, <2>2, FS_AddElement
    <3>2. PICK it : Table(it, Upto(T))
      BY <1>2
    <3> DEFINE U == T \cup {x}
               jt == [s \in Upto(U) |-> IF s = {} THEN b ELSE G[next[s]][it[s \ {next[s]}]]]
    <3>3. ASSUME NEW s \in Upto(U), s # {}
          PROVE  /\ s \ {next[s]} \in Upto(T) /\ s \ {next[s]} \in Upto(U)
                 /\ next[s] \in S
      <4>1. next[s] \in s
        BY <3>3 DEF Takes
      <4>3. IsFiniteSet(s)
        BY <1>0
      <4>2. Cardinality(s \ {next[s]}) = Cardinality(s) - 1
        BY <4>1, <4>3, FS_RemoveElement
      <4> QED
        BY <1>0, <3>1, <4>1, <4>2
    <3>4. Upto(T) \subseteq Upto(U) /\ {} \in Upto(U)
      BY <1>0, <3>1, FS_EmptySet
    <3>5. ASSUME NEW s \in Upto(T)
          PROVE  it[s] = jt[s]
      BY <3>2, <3>4, <3>5 DEF FoldTable
    <3>6. ASSUME NEW s \in Upto(U), s # {}
          PROVE  /\ jt[s] = G[next[s]][it[s \ {next[s]}]]
                 /\ jt[s] = G[next[s]][jt[s \ {next[s]}]]
      <4>1. it[s \ {next[s]}] = jt[s \ {next[s]}]
        BY <3>3, <3>5, <3>6
      <4> QED
        BY <3>6, <4>1
    <3>7. \A s \in Upto(U) : s # {} => jt[s] \in X
      <4> SUFFICES ASSUME NEW s \in Upto(U), s # {} PROVE jt[s] \in X
        OBVIOUS
      <4>1. it[s \ {next[s]}] \in X /\ next[s] \in S
        BY <3>2, <3>3
      <4>2. G[next[s]][it[s \ {next[s]}]] \in X
        BY <4>1
      <4>3. jt[s] = G[next[s]][it[s \ {next[s]}]]
        BY <3>6
      <4> HIDE DEF jt
      <4> QED
        BY <4>2, <4>3
    <3>8. jt \in [Upto(U) -> X] /\ jt[{}] = b
      <4>1. jt[{}] = b
        BY <3>4
      <4>2. jt = [s \in Upto(U) |-> jt[s]]
        OBVIOUS
      <4> HIDE DEF jt, Upto
      <4> QED
        BY <3>7, <4>1, <4>2
    <3>9. Table(jt, Upto(U))
      <4> HIDE DEF jt, Upto
      <4> QED
        BY <3>6, <3>8 DEF FoldTable
    <3> QED
      <4> HIDE DEF jt, Upto, Table
      <4> QED
        BY <3>9
  <2> QED
    BY <2>1, <2>2
<1>3. S \in Good
  <2> HIDE DEF Good
  <2>1. Good \in SUBSET (SUBSET S)
    BY DEF Good
  <2> QED
    BY <1>1, <1>2, <2>1, SetInduction
<1>4. Upto(S) = SUBSET S
  BY <1>0
<1> QED
  BY <1>3, <1>4

\* The numbers up to one of them.
LEMMA UpTo ==
  ASSUME NEW n \in Nat, NEW i \in 1..n
  PROVE  /\ 1..i \in SUBSET (1..n) /\ 1..i # {} /\ Max(1..i) = i /\ (1..i) \ {i} = 1..(i - 1)
<1>1. 1..i \in SUBSET (1..n) /\ 1..i # {} /\ (1..i) \ {i} = 1..(i - 1)
  OBVIOUS
<1>2. i \in 1..i /\ \A x \in 1..i : x <= i
  OBVIOUS
<1>3. PICK s \in SUBSET Int : s = 1..i
  OBVIOUS
<1>4. IsFiniteSet(s) /\ s # {}
  BY <1>1, <1>3, FS_Interval
<1>5. Max(s) \in s /\ \A x \in s : x <= Max(s)
  BY <1>4, MaxOfFinite
<1>6. Max(s) = i
  BY <1>2, <1>3, <1>5
<1> QED
  BY <1>1, <1>3, <1>6

\* The table of a fold over the indices of a sequence, first one first.
IndexTable(it, b, G, n) ==
    /\ it[{}] = b
    /\ \A s \in SUBSET (1..n) : s # {} =>
          Max(s) \in s /\ it[s] = G[Max(s)][it[s \ {Max(s)}]]

\* There is such a table.
LEMMA IndexFoldExists ==
  ASSUME NEW n \in Nat, NEW X, NEW b \in X, NEW G \in [1..n -> [X -> X]]
  PROVE  \E it \in [SUBSET (1..n) -> X] : IndexTable(it, b, G, n)
<1>1. PICK S \in SUBSET Int : S = 1..n
  OBVIOUS
<1>2. IsFiniteSet(S)
  BY <1>1, FS_Interval
<1>3. PICK next : next = [s \in SUBSET S |-> Max(s)]
  OBVIOUS
<1>4. ASSUME NEW s \in SUBSET S, s # {}
      PROVE  Max(s) \in s /\ next[s] = Max(s)
  <2>1. s \in SUBSET Int /\ IsFiniteSet(s)
    BY <1>2, FS_Subset
  <2>2. Max(s) \in s
    BY <1>4, <2>1, MaxOfFinite
  <2> QED
    BY <1>3, <2>2
<1>5. Takes(next, S)
  BY <1>4 DEF Takes
<1>6. G \in [S -> [X -> X]]
  BY <1>1
<1>7. PICK it \in [SUBSET S -> X] : FoldTable(it, b, G, next, SUBSET S)
  BY <1>2, <1>5, <1>6, FoldTableExists
<1>8. \A s \in SUBSET S : s # {} => Max(s) \in s /\ it[s] = G[Max(s)][it[s \ {Max(s)}]]
  BY <1>4, <1>7 DEF FoldTable
<1>9. it[{}] = b
  BY <1>7 DEF FoldTable
<1>10. IndexTable(it, b, G, n)
  BY <1>1, <1>8, <1>9 DEF IndexTable
<1> QED
  BY <1>1, <1>7, <1>10

-----------------------------------------------------------------------------
(* Sums.                                                                   *)

\* The element the sum takes first.
Pick(s) == CHOOSE x \in s : TRUE

\* The equation that defines the table of the sums of f over the sets in D.
SumEq(it, f, D) ==
    it = [s \in D |-> IF s = {} THEN 0 ELSE f[Pick(s)] + it[s \ {Pick(s)}]]

\* The sum is an entry of a table that the recursion of the library chooses.
LEMMA SumUnfolds ==
  ASSUME NEW S, NEW f
  PROVE  SumFunctionOnSet(f, S) = (CHOOSE it : SumEq(it, f, SUBSET S))[S]
  BY DEF SumFunctionOnSet, FoldFunctionOnSet, MapThenFoldSet, SumEq, Pick

\* There is such a table: it can be built up by the size of the sets.
LEMMA SumTableExists ==
  ASSUME NEW S, IsFiniteSet(S), NEW f
  PROVE  \E it : SumEq(it, f, SUBSET S)
<1> DEFINE Upto(T) == {s \in SUBSET S : Cardinality(s) <= Cardinality(T)}
           Good == {T \in SUBSET S : \E it : SumEq(it, f, Upto(T))}
<1>0. \A T \in SUBSET S : IsFiniteSet(T) /\ Cardinality(T) \in Nat /\ Cardinality(T) <= Cardinality(S)
  BY FS_Subset, FS_CardinalityType
<1>1. {} \in Good
  <2>1. Upto({}) = {{}}
    BY <1>0, FS_EmptySet
  <2>2. SumEq([s \in {{}} |-> 0], f, {{}})
    BY DEF SumEq
  <2> QED
    BY <2>1, <2>2
<1>2. ASSUME NEW T \in SUBSET S, NEW x \in S, T \in Good
      PROVE  T \cup {x} \in Good
  <2>1. CASE x \in T
    <3>1. T \cup {x} = T
      BY <2>1
    <3> HIDE DEF Good
    <3> QED
      BY <1>2, <3>1
  <2>2. CASE x \notin T
    <3>1. Cardinality(T \cup {x}) = Cardinality(T) + 1
      BY <1>0, <2>2, FS_AddElement
    <3>2. PICK it : SumEq(it, f, Upto(T))
      BY <1>2
    <3> DEFINE U == T \cup {x}
               jt == [s \in Upto(U) |-> IF s = {} THEN 0 ELSE f[Pick(s)] + it[s \ {Pick(s)}]]
    <3>3. ASSUME NEW s \in Upto(U), s # {}
          PROVE  /\ s \ {Pick(s)} \in Upto(T) /\ s \ {Pick(s)} \in Upto(U)
      <4>1. Pick(s) \in s
        BY <3>3 DEF Pick
      <4>2. Cardinality(s \ {Pick(s)}) = Cardinality(s) - 1
        BY <1>0, <4>1, FS_RemoveElement
      <4> QED
        BY <1>0, <3>1, <4>1, <4>2
    <3>4. Upto(T) \subseteq Upto(U)
      BY <1>0, <3>1
    <3>5. ASSUME NEW s \in Upto(T)
          PROVE  it[s] = jt[s]
      BY <3>2, <3>4, <3>5 DEF SumEq
    <3>6. SumEq(jt, f, Upto(U))
      <4>1. \A s \in Upto(U) : s # {} => it[s \ {Pick(s)}] = jt[s \ {Pick(s)}]
        BY <3>3, <3>5
      <4>2. jt = [s \in Upto(U) |-> IF s = {} THEN 0 ELSE f[Pick(s)] + jt[s \ {Pick(s)}]]
        BY <4>1
      <4> HIDE DEF jt, Upto
      <4> QED
        BY <4>2 DEF SumEq
    <3> QED
      <4> HIDE DEF jt, Upto
      <4> QED
        BY <3>6
  <2> QED
    BY <2>1, <2>2
<1>3. S \in Good
  <2> HIDE DEF Good
  <2>1. Good \in SUBSET (SUBSET S)
    BY DEF Good
  <2> QED
    BY <1>1, <1>2, <2>1, SetInduction
<1>4. Upto(S) = SUBSET S
  BY <1>0
<1> QED
  BY <1>3, <1>4

\* The table of the sums of f over all subsets of S.
SumTable(f, S) == CHOOSE it : SumEq(it, f, SUBSET S)

\* The recursion as two equations.
LEMMA SumTableUnfolds ==
  ASSUME NEW S, IsFiniteSet(S), NEW f
  PROVE  /\ DOMAIN SumTable(f, S) = SUBSET S
         /\ SumTable(f, S)[{}] = 0
         /\ \A T \in SUBSET S : T # {} =>
               /\ Pick(T) \in T
               /\ SumTable(f, S)[T] = f[Pick(T)] + SumTable(f, S)[T \ {Pick(T)}]
<1>1. SumEq(SumTable(f, S), f, SUBSET S)
  BY SumTableExists, Zenon DEF SumTable
<1>2. \A T \in SUBSET S : T # {} => Pick(T) \in T
  BY DEF Pick
<1> HIDE DEF SumTable
<1> QED
  BY <1>1, <1>2 DEF SumEq

\* Sums of natural numbers are natural numbers.
LEMMA SumTableTyped ==
  ASSUME NEW S, IsFiniteSet(S), NEW f, \A x \in S : f[x] \in Nat
  PROVE  \A T \in SUBSET S : SumTable(f, S)[T] \in Nat
<1> DEFINE g == SumTable(f, S)
           Bad == {T \in SUBSET S : g[T] \notin Nat}
<1>1. SUFFICES ASSUME Bad # {} PROVE FALSE
  OBVIOUS
<1>2. PICK T \in Bad : \A U \in SUBSET T : U # T => U \notin Bad
  <2>1. Bad \in SUBSET (SUBSET S)
    OBVIOUS
  <2> HIDE DEF Bad
  <2> QED
    BY <1>1, <2>1, SmallestSubset
<1>3. \A U \in SUBSET S : U # {} =>
               Pick(U) \in U /\ g[U] = f[Pick(U)] + g[U \ {Pick(U)}]
  BY SumTableUnfolds
<1>a. g[{}] = 0
  BY SumTableUnfolds
<1> HIDE DEF g
<1>4. T # {}
  BY <1>2, <1>a
<1>5. Pick(T) \in T /\ g[T] = f[Pick(T)] + g[T \ {Pick(T)}]
  BY <1>3, <1>4
<1>6. g[T \ {Pick(T)}] \in Nat /\ f[Pick(T)] \in Nat
  BY <1>2, <1>5
<1> QED
  BY <1>2, <1>5, <1>6

\* Any element can be taken out of a sum.
LEMMA SumTableSplits ==
  ASSUME NEW S, IsFiniteSet(S), NEW f, \A x \in S : f[x] \in Nat
  PROVE  \A T \in SUBSET S : \A x \in T :
           SumTable(f, S)[T] = f[x] + SumTable(f, S)[T \ {x}]
<1> DEFINE g == SumTable(f, S)
           Bad == {T \in SUBSET S : \E x \in T : g[T] # f[x] + g[T \ {x}]}
<1>1. SUFFICES ASSUME Bad # {} PROVE FALSE
  OBVIOUS
<1>2. PICK T \in Bad : \A U \in SUBSET T : U # T => U \notin Bad
  <2>1. Bad \in SUBSET (SUBSET S)
    OBVIOUS
  <2> HIDE DEF Bad
  <2> QED
    BY <1>1, <2>1, SmallestSubset
<1>3. \A U \in SUBSET S : U # {} =>
               Pick(U) \in U /\ g[U] = f[Pick(U)] + g[U \ {Pick(U)}]
  BY SumTableUnfolds
<1>4. \A U \in SUBSET S : g[U] \in Nat
  BY SumTableTyped
<1> HIDE DEF g
<1>5. PICK x \in T : g[T] # f[x] + g[T \ {x}]
  BY <1>2
<1> DEFINE y == Pick(T)
<1>6. y \in T /\ g[T] = f[y] + g[T \ {y}]
  BY <1>3
<1> HIDE DEF y
<1>7. x # y
  BY <1>5, <1>6
<1>8. g[T \ {y}] = f[x] + g[(T \ {y}) \ {x}]
  BY <1>2, <1>6, <1>7
<1>9. g[T \ {x}] = f[y] + g[(T \ {x}) \ {y}]
  BY <1>2, <1>6, <1>7
<1>10. (T \ {x}) \ {y} = (T \ {y}) \ {x}
  OBVIOUS
<1>11. PICK z : z = g[(T \ {x}) \ {y}]
  OBVIOUS
<1>12. f[x] \in Nat /\ f[y] \in Nat /\ z \in Nat
  BY <1>4, <1>6, <1>11
<1>13. g[T] = f[y] + (f[x] + z) /\ g[T \ {x}] = f[y] + z
  BY <1>6, <1>8, <1>9, <1>10, <1>11
<1>14. f[y] + (f[x] + z) = f[x] + (f[y] + z)
  BY <1>12
<1> QED
  BY <1>5, <1>13, <1>14

\* The sums depend only on the values of f.
LEMMA SumTableAgrees ==
  ASSUME NEW S, IsFiniteSet(S), NEW R, IsFiniteSet(R), NEW f, NEW g,
         NEW V \in SUBSET (S \cap R), \A x \in V : f[x] = g[x]
  PROVE  SumTable(f, S)[V] = SumTable(g, R)[V]
<1> DEFINE a == SumTable(f, S)
           b == SumTable(g, R)
           Bad == {T \in SUBSET V : a[T] # b[T]}
<1>1. SUFFICES ASSUME Bad # {} PROVE FALSE
  OBVIOUS
<1>0. IsFiniteSet(V)
  BY FS_Subset
<1>2. PICK T \in Bad : \A U \in SUBSET T : U # T => U \notin Bad
  <2>1. Bad \in SUBSET (SUBSET V)
    OBVIOUS
  <2> HIDE DEF Bad
  <2> QED
    BY <1>0, <1>1, <2>1, SmallestSubset
<1>3. /\ a[{}] = 0
      /\ \A U \in SUBSET S : U # {} => Pick(U) \in U /\ a[U] = f[Pick(U)] + a[U \ {Pick(U)}]
  BY SumTableUnfolds, ZenonT(40)
<1>4. /\ b[{}] = 0
      /\ \A U \in SUBSET R : U # {} => Pick(U) \in U /\ b[U] = g[Pick(U)] + b[U \ {Pick(U)}]
  BY SumTableUnfolds, ZenonT(40)
<1> HIDE DEF a, b
<1>5. T # {}
  BY <1>2, <1>3, <1>4
<1>6. /\ Pick(T) \in T
      /\ a[T] = f[Pick(T)] + a[T \ {Pick(T)}]
      /\ b[T] = g[Pick(T)] + b[T \ {Pick(T)}]
  BY <1>2, <1>3, <1>4, <1>5
<1>7. a[T \ {Pick(T)}] = b[T \ {Pick(T)}]
  BY <1>2, <1>6
<1> QED
  BY <1>2, <1>6, <1>7

\* The facts that the proofs about byte counts cite: a sum of natural numbers is a
\* natural number, the sum over no elements is 0, and any element can be taken out.
LEMMA SumLaws ==
  ASSUME NEW S, IsFiniteSet(S), NEW f, \A x \in S : f[x] \in Nat
  PROVE  /\ SumFunctionOnSet(f, S) \in Nat
         /\ SumFunctionOnSet(f, {}) = 0
         /\ \A x \in S : /\ SumFunctionOnSet(f, S) = f[x] + SumFunctionOnSet(f, S \ {x})
                         /\ SumFunctionOnSet(f, S \ {x}) \in Nat
                         /\ f[x] <= SumFunctionOnSet(f, S)
<1>1. \A T : SumFunctionOnSet(f, T) = SumTable(f, T)[T]
  BY SumUnfolds DEF SumTable
<1>2. SumTable(f, S)[S] \in Nat
  BY SumTableTyped
<1>3. SumTable(f, {})[{}] = 0
  BY SumTableUnfolds, FS_EmptySet
<1>4. ASSUME NEW x \in S
      PROVE  /\ SumTable(f, S)[S] = f[x] + SumTable(f, S \ {x})[S \ {x}]
             /\ SumTable(f, S \ {x})[S \ {x}] \in Nat
  <2>1. IsFiniteSet(S \ {x})
    BY FS_RemoveElement
  <2>2. SumTable(f, S)[S] = f[x] + SumTable(f, S)[S \ {x}]
    BY SumTableSplits
  <2>3. SumTable(f, S)[S \ {x}] = SumTable(f, S \ {x})[S \ {x}]
    BY <2>1, SumTableAgrees
  <2>4. SumTable(f, S \ {x})[S \ {x}] \in Nat
    BY <2>1, SumTableTyped
  <2> QED
    BY <2>2, <2>3, <2>4
<1> QED
  BY <1>1, <1>2, <1>3, <1>4

\* A sum depends only on the values it adds up.
LEMMA SumAgrees ==
  ASSUME NEW S, IsFiniteSet(S), NEW f, NEW g, \A x \in S : f[x] = g[x]
  PROVE  SumFunctionOnSet(f, S) = SumFunctionOnSet(g, S)
<1>1. SumFunctionOnSet(f, S) = SumTable(f, S)[S] /\ SumFunctionOnSet(g, S) = SumTable(g, S)[S]
  BY SumUnfolds DEF SumTable
<1>2. SumTable(f, S)[S] = SumTable(g, S)[S]
  BY SumTableAgrees
<1> QED
  BY <1>1, <1>2

\* A sum over a part is at most the whole.
LEMMA SumMonotone ==
  ASSUME NEW S, IsFiniteSet(S), NEW f, \A x \in S : f[x] \in Nat, NEW T \in SUBSET S
  PROVE  SumFunctionOnSet(f, T) <= SumFunctionOnSet(f, S)
<1> DEFINE Sum(U) == SumFunctionOnSet(f, U)
           Good == {U \in SUBSET S : \A V \in SUBSET U : Sum(V) <= Sum(U)}
<1>1. \A U \in SUBSET S : /\ Sum(U) \in Nat /\ Sum({}) = 0
                         /\ \A x \in U : /\ Sum(U) = f[x] + Sum(U \ {x})
                                         /\ Sum(U \ {x}) \in Nat
  BY FS_Subset, SumLaws, ZenonT(40)
<1> HIDE DEF Sum
<1>2. {} \in Good
  BY <1>1
<1>3. ASSUME NEW U \in SUBSET S, NEW x \in S, U \in Good
      PROVE  U \cup {x} \in Good
  <2> DEFINE W == U \cup {x}
  <2>1. SUFFICES ASSUME x \notin U, NEW V \in SUBSET W PROVE Sum(V) <= Sum(W)
    <3>1. x \in U => W = U
      OBVIOUS
    <3> QED
      BY <1>3, <3>1
  <2>2. W \ {x} = U /\ x \in W /\ W \in SUBSET S /\ V \in SUBSET S
    BY <2>1
  <2>3. Sum(W) = f[x] + Sum(U) /\ Sum(U) \in Nat /\ f[x] \in Nat
    BY <1>1, <2>2
  <2>4. CASE x \in V
    <3>1. Sum(V) = f[x] + Sum(V \ {x}) /\ Sum(V \ {x}) \in Nat
      BY <1>1, <2>2, <2>4
    <3>2. Sum(V \ {x}) <= Sum(U)
      BY <1>3, <2>1
    <3> QED
      BY <2>3, <3>1, <3>2
  <2>5. CASE x \notin V
    <3>1. Sum(V) <= Sum(U) /\ Sum(V) \in Nat
      BY <1>1, <1>3, <2>2, <2>5
    <3> QED
      BY <2>3, <3>1
  <2> QED
    BY <2>4, <2>5
<1>4. S \in Good
  <2> HIDE DEF Good
  <2>1. Good \in SUBSET (SUBSET S)
    BY DEF Good
  <2> QED
    BY <1>2, <1>3, <2>1, SetInduction
<1> QED
  BY <1>4 DEF Sum
=============================================================================
