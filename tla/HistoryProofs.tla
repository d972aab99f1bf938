---------------------------- MODULE HistoryProofs ----------------------------
(***************************************************************************)
(* What the history of shifts adds up to: the aggregates behind the ETA,   *)
(* the idle baselines, the seconds, habits and hour meter of ShiftEnd, and *)
(* the generated shift of BatchShift, with the lemmas about sums over      *)
(* finite sets that they rest on.                                          *)
(***************************************************************************)
EXTENDS EtaAggregates, IdleBaselines, ShiftEnd, BatchShift, FiniteSetTheorems,
        SequenceTheorems, WellFoundedInduction, TLAPS

-----------------------------------------------------------------------------
(***************************************************************************)
(* Sums over finite sets, as the library's fold computes them.             *)
(***************************************************************************)

\* The natural numbers and the subsets of a finite set have no least counterexample.
LEMMA Induction ==
    ASSUME NEW S \in SUBSET Nat, 0 \in S, \A n \in S : n + 1 \in S
    PROVE  S = Nat
  <1> SUFFICES ASSUME Nat \ S # {} PROVE FALSE
    OBVIOUS
  <1> DEFINE R == OpToRel(<, Nat)
  <1>1. IsWellFoundedOn(R, Nat)
    BY NatLessThanWellFounded
  <1>2. \A x, y \in Nat : x < y => <<x, y>> \in R
    BY DEF OpToRel
  <1> HIDE DEF R
  <1>3. \E x \in Nat \ S : \A y \in Nat \ S : ~ (<<y, x>> \in R)
    BY <1>1, WFMin
  <1>4. PICK x \in Nat \ S : \A y \in Nat \ S : ~ (<<y, x>> \in R)
    BY <1>3
  <1>5. x # 0 /\ x - 1 \in Nat /\ x - 1 < x /\ (x - 1) + 1 = x
    BY <1>4
  <1>6. x - 1 \in S
    BY <1>2, <1>4, <1>5
  <1> QED
    BY <1>4, <1>5, <1>6

LEMMA SubsetInduction ==
    ASSUME NEW S, IsFiniteSet(S), NEW Good,
           \A T \in SUBSET S : (\A U \in SUBSET T : U # T => U \in Good) => T \in Good
    PROVE  SUBSET S \subseteq Good
  <1> SUFFICES ASSUME (SUBSET S) \ Good # {} PROVE FALSE
    OBVIOUS
  <1> DEFINE R == StrictSubsetOrdering(S)
  <1>1. IsWellFoundedOn(R, SUBSET S)
    <2>1. FiniteSubsetsOf(S) = SUBSET S
      BY FS_FiniteSubsetsOfFinite
    <2>2. IsWellFoundedOn(R, FiniteSubsetsOf(S))
      BY FS_StrictSubsetOrderingWellFounded
    <2> QED
      BY <2>1, <2>2
  <1>2. \A T, U \in SUBSET S : U \subseteq T /\ U # T => <<U, T>> \in R
    BY DEF StrictSubsetOrdering
  <1> HIDE DEF R
  <1> DEFINE Bad == (SUBSET S) \ Good
  <1>3. Bad \subseteq SUBSET S /\ Bad # {}
    OBVIOUS
  <1> HIDE DEF Bad
  <1>4. \E T \in Bad : \A U \in Bad : ~ (<<U, T>> \in R)
    BY <1>1, <1>3, WFMin
  <1>5. PICK T \in Bad : \A U \in Bad : ~ (<<U, T>> \in R)
    BY <1>4
  <1>6. T \in SUBSET S /\ T \notin Good
    BY DEF Bad
  <1>7. ASSUME NEW U \in SUBSET T, U # T PROVE U \in Good
    <2>1. U \in SUBSET S /\ U \subseteq T
      BY <1>6
    <2>2. <<U, T>> \in R
      BY <1>2, <1>6, <1>7, <2>1
    <2>3. U \notin Bad
      BY <1>5, <2>2
    <2> QED
      BY <2>1, <2>3 DEF Bad
  <1> QED
    BY <1>6, <1>7

\* g sums f over each of the sets in D, taking one element after the other.
Picked(T) == CHOOSE x \in T : TRUE
SumsOf(f, D, g) ==
    g = [T \in D |-> IF T = {} THEN 0 ELSE f[Picked(T)] + g[T \ {Picked(T)}]]
SumTo(f, S, g) == SumsOf(f, SUBSET S, g)

LEMMA PickedIsIn == ASSUME NEW T, T # {} PROVE Picked(T) \in T
  BY DEF Picked

LEMMA SumsExist ==
    ASSUME NEW S, IsFiniteSet(S), NEW f
    PROVE  \E g : SumTo(f, S, g)
  <1> DEFINE Small(n) == {T \in SUBSET S : Cardinality(T) <= n}
  <1> DEFINE Has == {n \in Nat : \E g : SumsOf(f, Small(n), g)}
  <1>1. \A T \in SUBSET S : IsFiniteSet(T) /\ Cardinality(T) \in Nat /\ Cardinality(T) <= Cardinality(S)
    BY FS_Subset, FS_CardinalityType
  <1>2. 0 \in Has
    <2> DEFINE g == [T \in Small(0) |-> 0]
    <2>1. \A T \in Small(0) : T = {}
      BY <1>1, FS_EmptySet
    <2>2. g = [T \in Small(0) |-> IF T = {} THEN 0 ELSE f[Picked(T)] + g[T \ {Picked(T)}]]
      BY <2>1
    <2> HIDE DEF g
    <2> QED
      BY <2>2 DEF SumsOf
  <1>3. ASSUME NEW n \in Has PROVE n + 1 \in Has
    <2>1. PICK h : SumsOf(f, Small(n), h)
      OBVIOUS
    <2> DEFINE g == [T \in Small(n + 1) |->
                        IF T = {} THEN 0 ELSE f[Picked(T)] + h[T \ {Picked(T)}]]
    <2>2. \A T \in Small(n) : T \in Small(n + 1) /\ g[T] = h[T]
      <3> SUFFICES ASSUME NEW T \in Small(n) PROVE T \in Small(n + 1) /\ g[T] = h[T]
        OBVIOUS
      <3>1. T \in Small(n + 1)
        BY <1>1
      <3>2. h[T] = IF T = {} THEN 0 ELSE f[Picked(T)] + h[T \ {Picked(T)}]
        BY <2>1 DEF SumsOf
      <3> QED
        BY <3>1, <3>2
    <2>3. ASSUME NEW T \in Small(n + 1), T # {}
          PROVE  T \ {Picked(T)} \in Small(n)
      <3>1. Picked(T) \in T /\ IsFiniteSet(T) /\ Cardinality(T) \in Nat
        BY <1>1, <2>3, PickedIsIn
      <3>2. Cardinality(T \ {Picked(T)}) = Cardinality(T) - 1
        BY <3>1, FS_RemoveElement
      <3> QED
        BY <3>1, <3>2
    <2>4. g = [T \in Small(n + 1) |->
                  IF T = {} THEN 0 ELSE f[Picked(T)] + g[T \ {Picked(T)}]]
      BY <2>2, <2>3
    <2> HIDE DEF g
    <2>5. SumsOf(f, Small(n + 1), g)
      BY <2>4 DEF SumsOf
    <2> QED
      BY <2>5
  <1>4. Has = Nat
    <2>1. Has \in SUBSET Nat
      OBVIOUS
    <2> HIDE DEF Has
    <2> QED
      BY <1>2, <1>3, <2>1, Induction
  <1>5. Cardinality(S) \in Nat /\ Small(Cardinality(S)) = SUBSET S
    BY <1>1
  <1>6. Cardinality(S) \in Has
    BY <1>4, <1>5
  <1> QED
    BY <1>5, <1>6 DEF SumTo

\* However large the set it was made for, a sum is the same.
LEMMA SumsAgree ==
    ASSUME NEW S, NEW Z, NEW f, NEW T, T \subseteq S, T \subseteq Z, IsFiniteSet(T),
           NEW g, SumTo(f, S, g), NEW h, SumTo(f, Z, h)
    PROVE  g[T] = h[T]
  <1> DEFINE Good == {U \in SUBSET T : g[U] = h[U]}
  <1>1. ASSUME NEW U \in SUBSET T, \A V \in SUBSET U : V # U => V \in Good
        PROVE  U \in Good
    <2>1. /\ g[U] = IF U = {} THEN 0 ELSE f[Picked(U)] + g[U \ {Picked(U)}]
          /\ h[U] = IF U = {} THEN 0 ELSE f[Picked(U)] + h[U \ {Picked(U)}]
      BY DEF SumTo, SumsOf
    <2>2. CASE U = {}
      BY <2>1, <2>2
    <2>3. CASE U # {}
      <3>1. U \ {Picked(U)} \in SUBSET U /\ U \ {Picked(U)} # U
        BY <2>3, PickedIsIn
      <3>2. g[U \ {Picked(U)}] = h[U \ {Picked(U)}]
        BY <1>1, <3>1
      <3> QED
        BY <2>1, <2>3, <3>2
    <2> QED
      BY <2>2, <2>3
  <1> HIDE DEF Good
  <1>2. SUBSET T \subseteq Good
    BY <1>1, SubsetInduction
  <1>3. T \in Good
    BY <1>2
  <1> QED
    BY <1>3 DEF Good

LEMMA SumIsSum ==
    ASSUME NEW S, IsFiniteSet(S), NEW f
    PROVE  \E g : SumTo(f, S, g) /\ SumFunctionOnSet(f, S) = g[S]
  <1>1. SumFunctionOnSet(f, S) = (CHOOSE g : SumTo(f, S, g))[S]
    BY DEF SumFunctionOnSet, FoldFunctionOnSet, MapThenFoldSet, SumTo, SumsOf, Picked
  <1>2. SumTo(f, S, CHOOSE g : SumTo(f, S, g))
    BY SumsExist
  <1> QED
    BY <1>1, <1>2

\* The sum over nothing, and over a set with an element picked by the fold.
LEMMA SumOfNothing == \A f : SumFunctionOnSet(f, {}) = 0
  <1> SUFFICES ASSUME NEW f PROVE SumFunctionOnSet(f, {}) = 0
    OBVIOUS
  <1>1. IsFiniteSet({})
    BY FS_EmptySet
  <1>2. PICK g : SumTo(f, {}, g) /\ SumFunctionOnSet(f, {}) = g[{}]
    BY <1>1, SumIsSum
  <1> QED
    BY <1>2 DEF SumTo, SumsOf

LEMMA SumPicked ==
    ASSUME NEW S, IsFiniteSet(S), S # {}, NEW f
    PROVE  SumFunctionOnSet(f, S) = f[Picked(S)] + SumFunctionOnSet(f, S \ {Picked(S)})
  <1> DEFINE R == S \ {Picked(S)}
  <1>1. IsFiniteSet(R) /\ R \in SUBSET S
    BY FS_Subset
  <1>2. PICK g : SumTo(f, S, g) /\ SumFunctionOnSet(f, S) = g[S]
    BY SumIsSum
  <1>3. PICK h : SumTo(f, R, h) /\ SumFunctionOnSet(f, R) = h[R]
    BY <1>1, SumIsSum
  <1>4. g[R] = h[R]
    BY <1>1, <1>2, <1>3, SumsAgree
  <1>5. g[S] = f[Picked(S)] + g[R]
    BY <1>2 DEF SumTo, SumsOf
  <1> QED
    BY <1>2, <1>3, <1>4, <1>5

\* A sum of integers is one, and one of natural numbers is natural.
LEMMA SumType ==
    ASSUME NEW S, IsFiniteSet(S), NEW f, \A x \in S : f[x] \in Int
    PROVE  /\ SumFunctionOnSet(f, S) \in Int
           /\ (\A x \in S : f[x] >= 0) => SumFunctionOnSet(f, S) >= 0
  <1> DEFINE Right(T) == /\ SumFunctionOnSet(f, T) \in Int
                         /\ (\A x \in T : f[x] >= 0) => SumFunctionOnSet(f, T) >= 0
  <1> DEFINE Good == {T \in SUBSET S : Right(T)}
  <1>1. ASSUME NEW T \in SUBSET S, \A U \in SUBSET T : U # T => U \in Good
        PROVE  T \in Good
    <2>1. CASE T = {}
      BY <2>1, SumOfNothing
    <2>2. CASE T # {}
      <3>1. PICK p : p = Picked(T)
        OBVIOUS
      <3>2. p \in T /\ T \ {p} # T /\ T \ {p} \in SUBSET T
        BY <2>2, <3>1, PickedIsIn
      <3>3. IsFiniteSet(T)
        BY FS_Subset
      <3>4. SumFunctionOnSet(f, T) = f[p] + SumFunctionOnSet(f, T \ {p})
        BY <2>2, <3>1, <3>3, SumPicked
      <3>5. Right(T \ {p})
        BY <1>1, <3>2
      <3>6. f[p] \in Int
        BY <3>2
      <3>7. SumFunctionOnSet(f, T) \in Int
        BY <3>4, <3>5, <3>6
      <3>8. ASSUME \A x \in T : f[x] >= 0 PROVE SumFunctionOnSet(f, T) >= 0
        <4>1. f[p] >= 0 /\ SumFunctionOnSet(f, T \ {p}) >= 0
          BY <3>2, <3>5, <3>8
        <4> QED
          BY <3>4, <3>5, <3>6, <4>1
      <3> QED
        BY <3>7, <3>8
    <2> QED
      BY <2>1, <2>2
  <1>2. SUBSET S \subseteq Good
    <2> HIDE DEF Good
    <2> QED
      BY <1>1, SubsetInduction
  <1>3. S \in Good
    BY <1>2
  <1> QED
    BY <1>3

\* Any element may be taken out first: the order of the fold does not matter.
LEMMA SumSplit ==
    ASSUME NEW S, IsFiniteSet(S), NEW f, \A x \in S : f[x] \in Int, NEW c \in S
    PROVE  SumFunctionOnSet(f, S) = f[c] + SumFunctionOnSet(f, S \ {c})
  <1> DEFINE Right(T) == \A x \in T : SumFunctionOnSet(f, T) = f[x] + SumFunctionOnSet(f, T \ {x})
  <1> DEFINE Good == {T \in SUBSET S : Right(T)}
  <1>1. ASSUME NEW T \in SUBSET S, \A U \in SUBSET T : U # T => U \in Good
        PROVE  T \in Good
    <2> SUFFICES ASSUME NEW x \in T
                 PROVE  SumFunctionOnSet(f, T) = f[x] + SumFunctionOnSet(f, T \ {x})
      OBVIOUS
    <2>1. PICK p : p = Picked(T)
      OBVIOUS
    <2>2. p \in T /\ T \ {p} # T /\ T \ {x} # T /\ T \ {p} \in SUBSET T /\ T \ {x} \in SUBSET T
      BY <2>1, PickedIsIn
    <2>3. IsFiniteSet(T)
      BY FS_Subset
    <2>4. SumFunctionOnSet(f, T) = f[p] + SumFunctionOnSet(f, T \ {p})
      BY <2>1, <2>3, SumPicked
    <2>5. CASE x = p
      BY <2>4, <2>5
    <2>6. CASE x # p
      <3>1. Right(T \ {p}) /\ Right(T \ {x})
        BY <1>1, <2>2
      <3>2. (T \ {p}) \ {x} = T \ {p, x} /\ (T \ {x}) \ {p} = T \ {p, x}
        OBVIOUS
      <3>3. x \in T \ {p} /\ p \in T \ {x}
        BY <2>2, <2>6
      <3>4. SumFunctionOnSet(f, T \ {p}) = f[x] + SumFunctionOnSet(f, T \ {p, x})
        BY <3>1, <3>2, <3>3
      <3>5. SumFunctionOnSet(f, T \ {x}) = f[p] + SumFunctionOnSet(f, T \ {p, x})
        BY <3>1, <3>2, <3>3
      <3>6. f[x] \in Int /\ f[p] \in Int
        BY <2>2
      <3>7. SumFunctionOnSet(f, T \ {p, x}) \in Int
        <4>1. IsFiniteSet(T \ {p, x}) /\ \A y \in T \ {p, x} : f[y] \in Int
          BY FS_Subset
        <4> QED
          BY <4>1, SumType
      <3> QED
        BY <2>4, <3>4, <3>5, <3>6, <3>7
    <2> QED
      BY <2>5, <2>6
  <1>2. SUBSET S \subseteq Good
    <2> HIDE DEF Good
    <2> QED
      BY <1>1, SubsetInduction
  <1>3. S \in Good
    BY <1>2
  <1> QED
    BY <1>3

\* Only the values on the set count.
LEMMA SumSame ==
    ASSUME NEW S, IsFiniteSet(S), NEW f, NEW g, \A x \in S : f[x] = g[x]
    PROVE  SumFunctionOnSet(f, S) = SumFunctionOnSet(g, S)
  <1> DEFINE Good == {T \in SUBSET S : SumFunctionOnSet(f, T) = SumFunctionOnSet(g, T)}
  <1>1. ASSUME NEW T \in SUBSET S, \A U \in SUBSET T : U # T => U \in Good
        PROVE  T \in Good
    <2>1. CASE T = {}
      BY <2>1, SumOfNothing
    <2>2. CASE T # {}
      <3>1. PICK p : p = Picked(T)
        OBVIOUS
      <3>2. p \in T /\ T \ {p} # T /\ T \ {p} \in SUBSET T /\ f[p] = g[p]
        BY <2>2, <3>1, PickedIsIn
      <3>3. IsFiniteSet(T)
        BY FS_Subset
      <3>4. /\ SumFunctionOnSet(f, T) = f[p] + SumFunctionOnSet(f, T \ {p})
            /\ SumFunctionOnSet(g, T) = g[p] + SumFunctionOnSet(g, T \ {p})
        BY <2>2, <3>1, <3>3, SumPicked
      <3>5. SumFunctionOnSet(f, T \ {p}) = SumFunctionOnSet(g, T \ {p})
        BY <1>1, <3>2
      <3> QED
        BY <3>2, <3>4, <3>5
    <2> QED
      BY <2>1, <2>2
  <1>2. SUBSET S \subseteq Good
    <2> HIDE DEF Good
    <2> QED
      BY <1>1, SubsetInduction
  <1>3. S \in Good
    BY <1>2
  <1> QED
    BY <1>3

\* One value more, and one value changed.
LEMMA SumAdded ==
    ASSUME NEW S, IsFiniteSet(S), NEW f, NEW c, c \notin S, \A x \in S \cup {c} : f[x] \in Int
    PROVE  SumFunctionOnSet(f, S \cup {c}) = f[c] + SumFunctionOnSet(f, S)
  <1>1. IsFiniteSet(S \cup {c}) /\ (S \cup {c}) \ {c} = S
    BY FS_AddElement
  <1> QED
    BY <1>1, SumSplit

LEMMA SumChanged ==
    ASSUME NEW S, IsFiniteSet(S), NEW f, NEW g, NEW c \in S,
           \A x \in S : f[x] \in Int /\ g[x] \in Int,
           \A x \in S \ {c} : f[x] = g[x]
    PROVE  SumFunctionOnSet(g, S) = SumFunctionOnSet(f, S) + (g[c] - f[c])
  <1>1. IsFiniteSet(S \ {c})
    BY FS_Subset
  <1>2. SumFunctionOnSet(f, S \ {c}) = SumFunctionOnSet(g, S \ {c})
    BY <1>1, SumSame
  <1>3. /\ SumFunctionOnSet(f, S) = f[c] + SumFunctionOnSet(f, S \ {c})
        /\ SumFunctionOnSet(g, S) = g[c] + SumFunctionOnSet(g, S \ {c})
    BY SumSplit
  <1>4. SumFunctionOnSet(f, S \ {c}) \in Int /\ f[c] \in Int /\ g[c] \in Int
    BY <1>1, SumType
  <1> QED
    BY <1>2, <1>3, <1>4

\* The greatest of a set of numbers is the one the library's Max chooses.
LEMMA MaxIs ==
    ASSUME NEW S \in SUBSET Int, NEW x \in S, \A y \in S : y <= x
    PROVE  Max(S) = x
  <1>1. \A y \in S : x >= y
    OBVIOUS
  <1>2. Max(S) \in S /\ \A y \in S : Max(S) >= y
    BY <1>1 DEF Max
  <1>3. Max(S) \in Int /\ x \in Int /\ Max(S) <= x /\ Max(S) >= x
    BY <1>2
  <1> QED
    BY <1>3

-----------------------------------------------------------------------------
(***************************************************************************)
(* Idle baselines.                                                         *)
(***************************************************************************)

Numbers == 1 .. Cardinality(tables)

\* The cloud's rows and those of every message are the rows of the summaries they
\* were computed from.
TablesComputed ==
    /\ IsFiniteSet(tables) /\ Cardinality(tables) \in Nat
    /\ DOMAIN computedOf = {0} \cup Numbers
    /\ ratios \subseteq ClosedShifts
    /\ \A i \in DOMAIN computedOf : computedOf[i] \subseteq ClosedShifts
    /\ baselines = Computed(computedOf[0])
    /\ \A m \in tables : m.seq \in Numbers /\ m.rows = Computed(computedOf[m.seq])

\* The edge has the rows of the newest message it has seen.
EdgeHasNewest ==
    /\ tablesSeen \subseteq Numbers
    /\ tablesSeen # {} =>
          \E newest \in tablesSeen :
              (\A seq \in tablesSeen : seq <= newest) /\ edgeRows = Computed(computedOf[newest])

IdleInv == TablesComputed /\ EdgeHasNewest

LEMMA IdleStarts == IdleInit => IdleInv
  <1> SUFFICES ASSUME IdleInit PROVE IdleInv
    OBVIOUS
  <1>1. IsFiniteSet(tables) /\ Cardinality(tables) = 0
    BY FS_EmptySet DEF IdleInit
  <1>2. computedOf[0] = {} /\ DOMAIN computedOf = {0} /\ Numbers = {}
    BY <1>1 DEF IdleInit, Numbers
  <1>3. Known({}) = {}
    BY DEF Known, BaselineKeys
  <1>4. Computed({}) = NoBaselines
    BY <1>3 DEF Computed, NoBaselines
  <1> QED
    BY <1>1, <1>2, <1>4 DEF IdleInit, IdleInv, TablesComputed, EdgeHasNewest

LEMMA IdleStep == IdleInv /\ [IdleNext]_idleVars => IdleInv'
  <1> SUFFICES ASSUME IdleInv, [IdleNext]_idleVars PROVE IdleInv'
    OBVIOUS
  <1> USE DEF IdleInv, TablesComputed, EdgeHasNewest
  <1>1. CASE UNCHANGED idleVars
    BY <1>1 DEF idleVars, Numbers
  <1>2. ASSUME NEW r \in ClosedShifts \ ratios, Summarise(r) PROVE IdleInv'
    BY <1>2 DEF Summarise, Numbers
  <1>3. CASE ComputeBaselines
    <2>1. Numbers' = Numbers /\ tables' = tables
      BY <1>3 DEF ComputeBaselines, Numbers
    <2>2. /\ DOMAIN computedOf' = DOMAIN computedOf /\ computedOf'[0] = ratios
          /\ \A i \in Numbers : i # 0 /\ computedOf'[i] = computedOf[i]
      BY <1>3 DEF ComputeBaselines, Numbers
    <2> QED
      BY <1>3, <2>1, <2>2 DEF ComputeBaselines
  <1>4. CASE PublishBaselines
    <2>1. PICK seq : seq = Cardinality(tables) + 1
      OBVIOUS
    <2>2. PICK m : m = [seq |-> seq, rows |-> baselines]
      OBVIOUS
    <2>3. tables' = tables \cup {m} /\ m.seq = seq /\ m.rows = baselines
      BY <1>4, <2>1, <2>2 DEF PublishBaselines
    <2>4. seq \in Nat /\ seq # 0 /\ seq \notin Numbers /\ m \notin tables
      BY <2>1, <2>3 DEF Numbers
    <2>5. IsFiniteSet(tables') /\ Cardinality(tables') = seq
      BY <2>1, <2>3, <2>4, FS_AddElement
    <2>6. Numbers' = Numbers \cup {seq}
      BY <2>1, <2>5 DEF Numbers
    <2>7. /\ DOMAIN computedOf' = {0} \cup Numbers'
          /\ computedOf'[0] = computedOf[0] /\ computedOf'[seq] = computedOf[0]
          /\ \A i \in Numbers : computedOf'[i] = computedOf[i]
      BY <1>4, <2>1, <2>4, <2>6 DEF PublishBaselines
    <2>8. tablesSeen' = tablesSeen /\ edgeRows' = edgeRows /\ baselines' = baselines
          /\ ratios' = ratios
      BY <1>4 DEF PublishBaselines
    <2> QED
      BY <2>3, <2>4, <2>5, <2>6, <2>7, <2>8
  <1>5. ASSUME NEW m \in tables, ApplyBaselines(m) PROVE IdleInv'
    <2>1. /\ Numbers' = Numbers /\ tables' = tables /\ computedOf' = computedOf
          /\ ratios' = ratios /\ baselines' = baselines
      BY <1>5 DEF ApplyBaselines, Numbers
    <2>2. tablesSeen' = tablesSeen \cup {m.seq} /\ m.seq \in Numbers /\ m.seq \notin tablesSeen
      BY <1>5 DEF ApplyBaselines
    <2>3. \A i \in Numbers : i \in Nat
      BY DEF Numbers
    <2>4. \E newest \in tablesSeen' :
             (\A seq \in tablesSeen' : seq <= newest) /\ edgeRows' = Computed(computedOf[newest])
      <3>1. CASE \A seq \in tablesSeen : seq < m.seq
        <4>1. edgeRows' = Computed(computedOf[m.seq])
          BY <1>5, <3>1 DEF ApplyBaselines
        <4> QED
          BY <2>2, <2>3, <3>1, <4>1
      <3>2. CASE ~ \A seq \in tablesSeen : seq < m.seq
        <4>1. edgeRows' = edgeRows
          BY <1>5, <3>2 DEF ApplyBaselines
        <4>2. PICK newest \in tablesSeen :
                 (\A seq \in tablesSeen : seq <= newest) /\ edgeRows = Computed(computedOf[newest])
          BY <3>2
        <4>3. PICK later \in tablesSeen : ~ (later < m.seq)
          BY <3>2
        <4>4. m.seq <= newest
          BY <2>2, <2>3, <4>2, <4>3
        <4> QED
          BY <2>2, <4>1, <4>2, <4>4
      <3> QED
        BY <3>1, <3>2
    <2> QED
      BY <2>1, <2>2, <2>4
  <1> QED
    BY <1>1, <1>2, <1>3, <1>4, <1>5 DEF IdleNext

\* The rows of a history of shifts.
LEMMA KnownIs ==
    ASSUME NEW rs, rs \subseteq ClosedShifts, NEW key
    PROVE  /\ IsFiniteSet(Of(rs, key)) /\ Cardinality(Of(rs, key)) \in Nat
           /\ Cardinality(Of(rs, key)) = 0 <=> Of(rs, key) = {}
           /\ key \in Known(rs) <=> Cardinality(Of(rs, key)) >= BaselineSamples
           /\ key \in Known(rs) => /\ Computed(rs)[key] = Baseline(Of(rs, key))
                                   /\ Computed(rs)[key].count = Cardinality(Of(rs, key))
  <1>1. IsFiniteSet(Of(rs, key))
    BY BaselineAssumption, FS_Subset DEF Of
  <1>2. Cardinality(Of(rs, key)) \in Nat /\ (Cardinality(Of(rs, key)) = 0 <=> Of(rs, key) = {})
    BY <1>1, FS_CardinalityType, FS_EmptySet
  <1>3. Of(rs, key) # {} => key \in BaselineKeys(rs)
    BY DEF Of, BaselineKeys
  <1>4. BaselineSamples \in Nat /\ BaselineSamples > 0
    BY BaselineAssumption
  <1>5. key \in Known(rs) <=> Cardinality(Of(rs, key)) >= BaselineSamples
    BY <1>2, <1>3, <1>4 DEF Known
  <1>6. key \in Known(rs) => Computed(rs)[key] = Baseline(Of(rs, key))
    BY DEF Computed
  <1>7. Baseline(Of(rs, key)).count = Cardinality(Of(rs, key))
    BY DEF Baseline
  <1> QED
    BY <1>1, <1>2, <1>5, <1>6, <1>7

\* A baseline asks for two samples at least (_MIN_SAMPLES): with more the edge would
\* pass over types that the generator judges by.
LEMMA SameJudgement ==
    ASSUME BaselineSamples <= 2, NEW rs, rs \subseteq ClosedShifts, NEW r,
           Cardinality(Of(rs, FleetKey(r))) # 1
    PROVE  Flagged(Computed(rs), r) <=> FlaggedInBatch(rs, r)
  <1> DEFINE own == OperatorKey(r)
             fleet == FleetKey(r)
  <1> HIDE DEF own, fleet
  <1>1. /\ BaselineSamples \in Nat /\ BaselineSamples > 0
        /\ MinShifts \in Nat /\ MinShifts >= BaselineSamples
    BY BaselineAssumption
  <1>2. DOMAIN Computed(rs) = Known(rs)
    BY DEF Computed
  <1>3. Usable(Computed(rs), r) <=> Cardinality(Of(rs, own)) >= MinShifts
    BY <1>1, <1>2, KnownIs DEF Usable, own
  <1>4. CASE Cardinality(Of(rs, own)) >= MinShifts
    <2>1. Of(rs, own) # {} /\ Computed(rs)[own] = Baseline(Of(rs, own))
      BY <1>1, <1>4, KnownIs
    <2>2. HistoryOf(rs, r) = Of(rs, own)
      BY <1>4 DEF HistoryOf, own
    <2>3. Flagged(Computed(rs), r) <=> Exceeds(r, Computed(rs)[own])
      BY <1>3, <1>4 DEF Flagged, own
    <2> QED
      BY <2>1, <2>2, <2>3 DEF FlaggedInBatch
  <1>5. CASE ~ (Cardinality(Of(rs, own)) >= MinShifts)
    <2>1. HistoryOf(rs, r) = Of(rs, fleet)
      BY <1>5 DEF HistoryOf, own, fleet
    <2>2. Flagged(Computed(rs), r) <=>
             fleet \in DOMAIN Computed(rs) /\ Exceeds(r, Computed(rs)[fleet])
      BY <1>3, <1>5 DEF Flagged, fleet
    <2>3. Cardinality(Of(rs, fleet)) # 1
      BY DEF fleet
    <2>4. fleet \in Known(rs) <=> Of(rs, fleet) # {}
      BY <1>1, <2>3, KnownIs
    <2>5. fleet \in Known(rs) => Computed(rs)[fleet] = Baseline(Of(rs, fleet))
      BY KnownIs
    <2> QED
      BY <1>2, <2>1, <2>2, <2>4, <2>5 DEF FlaggedInBatch
  <1> QED
    BY <1>4, <1>5

\* The edge's judgement of a shift and the generator's are the same on the same
\* history, for any shifts, any number of messages and any order of them
\* (behavior/baselines.py, idle_ratio_events).
THEOREM EdgeAndGeneratorAgree == BaselineSamples <= 2 => (IdleSpec => []JudgedAlike)
  <1> SUFFICES ASSUME BaselineSamples <= 2 PROVE IdleSpec => []JudgedAlike
    OBVIOUS
  <1>1. IdleInv => JudgedAlike
    <2> SUFFICES ASSUME IdleInv, tablesSeen # {}, NEW r \in ClosedShifts,
                        Cardinality(Of(computedOf[Max(tablesSeen)], FleetKey(r))) # 1
                 PROVE  Flagged(edgeRows, r) <=>
                            FlaggedInBatch(computedOf[Max(tablesSeen)], r)
      BY DEF JudgedAlike
    <2>1. PICK newest \in tablesSeen :
             (\A seq \in tablesSeen : seq <= newest) /\ edgeRows = Computed(computedOf[newest])
      BY DEF IdleInv, EdgeHasNewest
    <2>2. tablesSeen \subseteq Int
      BY DEF IdleInv, EdgeHasNewest, Numbers
    <2>3. Max(tablesSeen) = newest
      BY <2>1, <2>2, MaxIs
    <2>4. computedOf[newest] \subseteq ClosedShifts
      BY DEF IdleInv, EdgeHasNewest, TablesComputed
    <2> QED
      BY <2>1, <2>3, <2>4, SameJudgement
  <1> QED
    BY <1>1, IdleStarts, IdleStep, PTL DEF IdleSpec

-----------------------------------------------------------------------------
(***************************************************************************)
(* The history behind the ETA.                                             *)
(***************************************************************************)

\* The deployed rows are those of what the last training read, messages are told
\* apart by their sequences, and the edge has the rows of the newest it has applied.
DeployedIsTrained == deployed = Rows(DataSet(trained.tasks), trained.shifts)

ReferencesNumbered ==
    /\ IsFiniteSet(published)
    /\ \A m \in published : m.seq \in 1 .. Cardinality(published)
    /\ \A m, n \in published : m.seq = n.seq => m = n

ReferenceNewest ==
    /\ edgeApplied \subseteq {m.seq : m \in published}
    /\ edgeApplied # {} =>
          \E newest \in published :
              /\ newest.seq \in edgeApplied /\ edgeTable = newest.rows
              /\ \A seq \in edgeApplied : seq <= newest.seq

EtaInv ==
    /\ done \subseteq TaskPool /\ summarised \subseteq ShiftPool
    /\ DeployedIsTrained /\ ReferencesNumbered /\ ReferenceNewest

LEMMA EtaStarts == EtaInit => EtaInv
  <1> SUFFICES ASSUME EtaInit PROVE EtaInv
    OBVIOUS
  <1>1. Rows({}, {}) = NoRows
    BY DEF Rows, Keys, NoRows
  <1>2. DataSet({}) = {}
    BY DEF DataSet
  <1>3. DeployedIsTrained
    BY <1>1, <1>2 DEF EtaInit, DeployedIsTrained
  <1>4. IsFiniteSet({})
    BY FS_EmptySet
  <1> QED
    BY <1>3, <1>4 DEF EtaInit, EtaInv, ReferencesNumbered, ReferenceNewest

LEMMA EtaStep == EtaInv /\ [EtaNext]_etaVars => EtaInv'
  <1> SUFFICES ASSUME EtaInv, [EtaNext]_etaVars PROVE EtaInv'
    OBVIOUS
  <1> USE DEF EtaInv, DeployedIsTrained, ReferencesNumbered, ReferenceNewest
  <1>1. CASE UNCHANGED etaVars
    BY <1>1 DEF etaVars
  <1>2. ASSUME NEW t \in TaskPool \ done, FinishTask(t) PROVE EtaInv'
    BY <1>2 DEF FinishTask
  <1>3. ASSUME NEW s \in ShiftPool \ summarised, CloseShift(s) PROVE EtaInv'
    BY <1>3 DEF CloseShift
  <1>4. CASE Train
    <2>1. DataSet(DataSet(done)) = DataSet(done)
      BY DEF DataSet
    <2>2. trained'.tasks = DataSet(done) /\ trained'.shifts = summarised
      BY <1>4 DEF Train
    <2>3. deployed' = Rows(DataSet(done), summarised)
      BY <1>4 DEF Train, DeployedRows
    <2>4. DeployedIsTrained'
      BY <2>1, <2>2, <2>3
    <2> QED
      BY <1>4, <2>4 DEF Train
  <1>5. CASE PublishReference
    <2>1. PICK m : m = [seq |-> Cardinality(published) + 1, rows |-> deployed]
      OBVIOUS
    <2>2. published' = published \cup {m} /\ m.seq = Cardinality(published) + 1
      BY <1>5, <2>1 DEF PublishReference
    <2>3. Cardinality(published) \in Nat
      BY FS_CardinalityType
    <2>4. m \notin published
      BY <2>2, <2>3
    <2>5. IsFiniteSet(published') /\ Cardinality(published') = Cardinality(published) + 1
      BY <2>2, <2>4, FS_AddElement
    <2>6. \A n \in published : n.seq \in 1 .. Cardinality(published) /\ n.seq # m.seq
      BY <2>2, <2>3
    <2>7. \A n \in published' : n.seq \in 1 .. Cardinality(published')
      BY <2>2, <2>3, <2>5, <2>6
    <2>8. \A n, o \in published' : n.seq = o.seq => n = o
      BY <2>2, <2>6
    <2>9. ReferencesNumbered'
      BY <2>5, <2>7, <2>8
    <2>10. ReferenceNewest'
      <3>1. edgeApplied' = edgeApplied /\ edgeTable' = edgeTable /\ published \subseteq published'
        BY <1>5, <2>2 DEF PublishReference
      <3> QED
        BY <3>1
    <2> QED
      BY <1>5, <2>9, <2>10 DEF PublishReference
  <1>6. ASSUME NEW m \in published, ApplyReference(m) PROVE EtaInv'
    <2>1. published' = published /\ edgeApplied' = edgeApplied \cup {m.seq} /\ m.seq \notin edgeApplied
      BY <1>6 DEF ApplyReference
    <2>2. \A n \in published : n.seq \in Int
      OBVIOUS
    <2>3. \A seq \in edgeApplied : seq \in Int
      BY <2>2
    <2>4. \E newest \in published :
              /\ newest.seq \in edgeApplied' /\ edgeTable' = newest.rows
              /\ \A seq \in edgeApplied' : seq <= newest.seq
      <3>1. CASE NewestSnapshot(m)
        <4>1. edgeTable' = m.rows
          BY <1>6, <3>1 DEF ApplyReference
        <4>2. \A seq \in edgeApplied' : seq <= m.seq
          BY <2>1, <2>2, <2>3, <3>1 DEF NewestSnapshot
        <4> QED
          BY <2>1, <4>1, <4>2
      <3>2. CASE ~NewestSnapshot(m)
        <4>1. edgeTable' = edgeTable
          BY <1>6, <3>2 DEF ApplyReference
        <4>2. PICK later \in edgeApplied : ~ (later < m.seq)
          BY <3>2 DEF NewestSnapshot
        <4>3. PICK newest \in published :
                 /\ newest.seq \in edgeApplied /\ edgeTable = newest.rows
                 /\ \A seq \in edgeApplied : seq <= newest.seq
          BY <4>2
        <4>4. m.seq <= newest.seq
          BY <2>2, <2>3, <4>2, <4>3
        <4> QED
          BY <2>1, <4>1, <4>3, <4>4
      <3> QED
        BY <3>1, <3>2
    <2>5. ReferenceNewest'
      BY <2>1, <2>4
    <2> QED
      BY <1>6, <2>1, <2>5 DEF ApplyReference
  <1> QED
    BY <1>1, <1>2, <1>3, <1>4, <1>5, <1>6 DEF EtaNext

\* Leaving a task, or a shift, out of the sums is summing up without it.
LEMMA PaceWithout ==
    ASSUME NEW ts, ts \subseteq TaskPool, NEW t \in ts, NEW key
    PROVE  LeaveTask(Pace(ts, key), t, key) = Pace(ts \ {t}, key)
  <1> DEFINE of(us) == {u \in us : key \in TaskKeys(u)}
  <1>1. IsFiniteSet(of(ts)) /\ t # None
    BY EtaAssumption, FS_Subset
  <1>2. \A u \in of(ts) : TaskMinutes[u] \in Int /\ TaskQuantity[u] \in Int
    BY EtaAssumption DEF TaskMinutes, TaskQuantity
  <1>3. CASE key \in TaskKeys(t)
    <2>1. t \in of(ts) /\ of(ts \ {t}) = of(ts) \ {t}
      BY <1>3
    <2>2. PICK S : S = of(ts)
      OBVIOUS
    <2>3. /\ SumFunctionOnSet(TaskMinutes, S) = TaskMinutes[t] + SumFunctionOnSet(TaskMinutes, S \ {t})
          /\ SumFunctionOnSet(TaskQuantity, S) = TaskQuantity[t] + SumFunctionOnSet(TaskQuantity, S \ {t})
      BY <1>1, <1>2, <2>1, <2>2, SumSplit
    <2>4. Cardinality(S \ {t}) = Cardinality(S) - 1 /\ IsFiniteSet(S \ {t})
      BY <1>1, <2>1, <2>2, FS_RemoveElement
    <2>5. /\ SumFunctionOnSet(TaskMinutes, S \ {t}) \in Int
          /\ SumFunctionOnSet(TaskQuantity, S \ {t}) \in Int
      BY <1>2, <2>2, <2>4, SumType
    <2>6. TaskMinutes[t] = t.minutes /\ TaskQuantity[t] = t.quantity
      BY DEF TaskMinutes, TaskQuantity
    <2>7. TaskMinutes[t] \in Int /\ TaskQuantity[t] \in Int
      BY <1>2, <2>1
    <2>8. /\ SumFunctionOnSet(TaskMinutes, S) - t.minutes = SumFunctionOnSet(TaskMinutes, S \ {t})
          /\ SumFunctionOnSet(TaskQuantity, S) - t.quantity = SumFunctionOnSet(TaskQuantity, S \ {t})
      BY <2>3, <2>5, <2>6, <2>7
    <2>9. Pace(ts, key) = [minutes |-> SumFunctionOnSet(TaskMinutes, S),
                           quantity |-> SumFunctionOnSet(TaskQuantity, S), count |-> Cardinality(S)]
      BY <2>2 DEF Pace
    <2>10. Pace(ts \ {t}, key) = [minutes |-> SumFunctionOnSet(TaskMinutes, S \ {t}),
                                  quantity |-> SumFunctionOnSet(TaskQuantity, S \ {t}),
                                  count |-> Cardinality(S \ {t})]
      BY <2>1, <2>2 DEF Pace
    <2>11. LeaveTask(Pace(ts, key), t, key) =
              [minutes |-> Pace(ts, key).minutes - t.minutes,
               quantity |-> Pace(ts, key).quantity - t.quantity,
               count |-> Pace(ts, key).count - 1]
      BY <1>1, <1>3 DEF LeaveTask
    <2> QED
      BY <2>4, <2>8, <2>9, <2>10, <2>11
  <1>4. CASE key \notin TaskKeys(t)
    <2>1. of(ts \ {t}) = of(ts)
      BY <1>4
    <2> QED
      BY <1>4, <2>1 DEF Pace, LeaveTask
  <1> QED
    BY <1>3, <1>4

LEMMA ShiftWithout ==
    ASSUME NEW ss, ss \subseteq ShiftPool, NEW s \in ss, NEW key
    PROVE  LeaveShift(ShiftSums(ss, key), s, key) = ShiftSums(ss \ {s}, key)
  <1> DEFINE of(us) == {u \in us : key \in ShiftKeys(u)}
  <1>1. IsFiniteSet(of(ss)) /\ s # None
    BY EtaAssumption, FS_Subset
  <1>2. \A u \in of(ss) : ShiftIdle[u] \in Int /\ ShiftCycles[u] \in Int
    BY EtaAssumption DEF ShiftIdle, ShiftCycles
  <1>3. CASE key \in ShiftKeys(s)
    <2>1. s \in of(ss) /\ of(ss \ {s}) = of(ss) \ {s}
      BY <1>3
    <2>2. PICK S : S = of(ss)
      OBVIOUS
    <2>3. /\ SumFunctionOnSet(ShiftIdle, S) = ShiftIdle[s] + SumFunctionOnSet(ShiftIdle, S \ {s})
          /\ SumFunctionOnSet(ShiftCycles, S) = ShiftCycles[s] + SumFunctionOnSet(ShiftCycles, S \ {s})
      BY <1>1, <1>2, <2>1, <2>2, SumSplit
    <2>4. Cardinality(S \ {s}) = Cardinality(S) - 1 /\ IsFiniteSet(S \ {s})
      BY <1>1, <2>1, <2>2, FS_RemoveElement
    <2>5. /\ SumFunctionOnSet(ShiftIdle, S \ {s}) \in Int
          /\ SumFunctionOnSet(ShiftCycles, S \ {s}) \in Int
      BY <1>2, <2>2, <2>4, SumType
    <2>6. ShiftIdle[s] = s.idle /\ ShiftCycles[s] = s.cycles
      BY DEF ShiftIdle, ShiftCycles
    <2>7. ShiftIdle[s] \in Int /\ ShiftCycles[s] \in Int
      BY <1>2, <2>1
    <2>8. /\ SumFunctionOnSet(ShiftIdle, S) - s.idle = SumFunctionOnSet(ShiftIdle, S \ {s})
          /\ SumFunctionOnSet(ShiftCycles, S) - s.cycles = SumFunctionOnSet(ShiftCycles, S \ {s})
      BY <2>3, <2>5, <2>6, <2>7
    <2>9. ShiftSums(ss, key) = [idle |-> SumFunctionOnSet(ShiftIdle, S),
                                cycles |-> SumFunctionOnSet(ShiftCycles, S),
                                count |-> Cardinality(S)]
      BY <2>2 DEF ShiftSums
    <2>10. ShiftSums(ss \ {s}, key) = [idle |-> SumFunctionOnSet(ShiftIdle, S \ {s}),
                                       cycles |-> SumFunctionOnSet(ShiftCycles, S \ {s}),
                                       count |-> Cardinality(S \ {s})]
      BY <2>1, <2>2 DEF ShiftSums
    <2>11. LeaveShift(ShiftSums(ss, key), s, key) =
              [idle |-> ShiftSums(ss, key).idle - s.idle,
               cycles |-> ShiftSums(ss, key).cycles - s.cycles,
               count |-> ShiftSums(ss, key).count - 1]
      BY <1>1, <1>3 DEF LeaveShift
    <2> QED
      BY <2>4, <2>8, <2>9, <2>10, <2>11
  <1>4. CASE key \notin ShiftKeys(s)
    <2>1. of(ss \ {s}) = of(ss)
      BY <1>4
    <2> QED
      BY <1>4, <2>1 DEF ShiftSums, LeaveShift
  <1> QED
    BY <1>3, <1>4

\* The row of a scope that a training task is left out of is the row of the scope
\* in a history without the task and its shift.
LEMMA ResolveWithout ==
    ASSUME NEW ts, ts \subseteq TaskPool, NEW ss, ss \subseteq ShiftPool, NEW t \in ts,
           NEW s, s \in ss \/ s = None, NEW key
    PROVE  Resolve(ts, ss, t, s, key) = Resolve(ts \ {t}, ss \ {s}, None, None, key)
  <1>1. \A p : LeaveTask(p, None, key) = p
    BY DEF LeaveTask
  <1>2. LeaveTask(Pace(ts, key), t, key) = LeaveTask(Pace(ts \ {t}, key), None, key)
    BY <1>1, PaceWithout
  <1> DEFINE scope == <<key[1], key[2]>>
  <1> HIDE DEF scope
  <1>3. \A p : LeaveShift(p, None, scope) = p
    BY DEF LeaveShift
  <1>4. LeaveShift(ShiftSums(ss, scope), s, scope) =
            LeaveShift(ShiftSums(ss \ {s}, scope), None, scope)
    <2>1. CASE s \in ss
      BY <1>3, <2>1, ShiftWithout
    <2>2. CASE s = None
      <3>1. ss \ {s} = ss
        BY <2>2, EtaAssumption
      <3> QED
        BY <2>2, <3>1
    <2> QED
      BY <2>1, <2>2
  <1>5. ShiftMeans(ss, scope, s) = ShiftMeans(ss \ {s}, scope, None)
    BY <1>4 DEF ShiftMeans
  <1> QED
    BY <1>2, <1>5 DEF Resolve, scope

LEMMA LeftOut ==
    ASSUME NEW ts, ts \subseteq TaskPool, NEW ss, ss \subseteq ShiftPool, NEW t \in ts
    PROVE  TrainingHistory(ts, ss, t) =
               EvaluationHistory(ts \ {t}, ss \ {ShiftOf(ss, t)}, t)
  <1>1. PICK s : s = ShiftOf(ss, t)
    OBVIOUS
  <1>2. s \in ss \/ s = None
    BY <1>1 DEF ShiftOf
  <1>3. \A key : Resolve(ts, ss, t, s, key) = Resolve(ts \ {t}, ss \ {s}, None, None, key)
    BY <1>2, ResolveWithout
  <1>4. [key \in ChainKeys(t) |-> Resolve(ts, ss, t, s, key)] =
            [key \in ChainKeys(t) |-> Resolve(ts \ {t}, ss \ {s}, None, None, key)]
    BY <1>3
  <1> QED
    BY <1>1, <1>4 DEF TrainingHistory, EvaluationHistory

\* A table holds every row there is, and None is what the others would be.
LEMMA LookedUp ==
    ASSUME NEW ts, NEW ss, NEW key
    PROVE  Lookup(Rows(ts, ss), key) = Resolve(ts, ss, None, None, key)
  <1>1. CASE key \in Keys(ts)
    BY <1>1 DEF Lookup, Rows
  <1>2. CASE key \notin Keys(ts)
    <2>1. {t \in ts : key \in TaskKeys(t)} = {}
      BY <1>2 DEF Keys
    <2>2. Pace(ts, key).count = 0
      BY <2>1, FS_EmptySet DEF Pace
    <2>3. LeaveTask(Pace(ts, key), None, key).count < MIN_SAMPLES
      BY <2>2, EtaAssumption DEF LeaveTask
    <2>4. Resolve(ts, ss, None, None, key) = None
      BY <2>3 DEF Resolve
    <2>5. key \notin DOMAIN Rows(ts, ss)
      BY <1>2 DEF Rows
    <2> QED
      BY <2>4, <2>5 DEF Lookup
  <1> QED
    BY <1>1, <1>2

\* The features of a training task are those of a history without it, and what is
\* deployed is what was trained on, in the cloud and, once applied, on the edge: for
\* any history, any sample threshold and any order of the messages (features.py,
\* eta_aggregates.py, apply_eta_model_ref).
THEOREM HistoryIsRight == EtaSpec => []HistoryRight
  <1>1. EtaInv => LeaveOneOut
    <2> SUFFICES ASSUME EtaInv,
                        NEW t \in TrainingTasks(DataSet(done))
                 PROVE  TrainingHistory(TrainingTasks(DataSet(done)),
                                        TrainingShifts(DataSet(done), summarised), t) =
                        EvaluationHistory(TrainingTasks(DataSet(done)) \ {t},
                            TrainingShifts(DataSet(done), summarised)
                                \ {ShiftOf(TrainingShifts(DataSet(done), summarised), t)}, t)
      BY DEF LeaveOneOut
    <2>1. TrainingTasks(DataSet(done)) \subseteq TaskPool
      BY DEF EtaInv, TrainingTasks, DataSet
    <2>2. TrainingShifts(DataSet(done), summarised) \subseteq ShiftPool
      BY DEF EtaInv, TrainingShifts
    <2> QED
      BY <2>1, <2>2, LeftOut
  <1>2. EtaInv => TablesAgree
    <2> SUFFICES ASSUME EtaInv PROVE TablesAgree
      OBVIOUS
    <2>1. ASSUME NEW x \in TaskPool
          PROVE  TableHistory(deployed, x) =
                     EvaluationHistory(DataSet(trained.tasks), trained.shifts, x)
      <3>1. PICK ts, ss : ts = DataSet(trained.tasks) /\ ss = trained.shifts
        OBVIOUS
      <3>2. deployed = Rows(ts, ss)
        BY <3>1 DEF EtaInv, DeployedIsTrained
      <3>3. [key \in ChainKeys(x) |-> Lookup(deployed, key)] =
                [key \in ChainKeys(x) |-> Resolve(ts, ss, None, None, key)]
        BY <3>2, LookedUp
      <3> QED
        BY <3>1, <3>3 DEF TableHistory, EvaluationHistory
    <2>2. ASSUME NEW m \in published, edgeApplied # {}, m.seq = Max(edgeApplied)
          PROVE  edgeTable = m.rows
      <3>1. PICK newest \in published :
               /\ newest.seq \in edgeApplied /\ edgeTable = newest.rows
               /\ \A seq \in edgeApplied : seq <= newest.seq
        BY <2>2 DEF EtaInv, ReferenceNewest
      <3>2. edgeApplied \subseteq Int
        BY DEF EtaInv, ReferenceNewest, ReferencesNumbered
      <3>3. Max(edgeApplied) = newest.seq
        BY <3>1, <3>2, MaxIs
      <3>4. m = newest
        BY <2>2, <3>1, <3>3 DEF EtaInv, ReferencesNumbered
      <3> QED
        BY <3>1, <3>4
    <2> QED
      BY <2>1, <2>2 DEF TablesAgree
  <1>3. EtaInv => HistoryRight
    BY <1>1, <1>2 DEF HistoryRight
  <1> QED
    BY <1>3, EtaStarts, EtaStep, PTL DEF EtaSpec

-----------------------------------------------------------------------------
(***************************************************************************)
(* The end of a shift: types.                                              *)
(***************************************************************************)

Kinds == Spans \cup {"repeated", "high_idle_ratio"}
Memories == [engine : Int, idle : Int, last : Int, span : [Spans -> Int],
             emitted : [Spans -> SUBSET Int], opened : Seq(Int),
             noticed : BOOLEAN, ended : BOOLEAN]
Happenings == [kind : Kinds, by : Nat, shift : Shifts, start : Int, end : Int]
Engines == [shift : Shifts, mem : Memories, effects : SUBSET Happenings]
TickRows == [shift : Shifts, at : Int, reading : Readings, by : Nat]

\* A tick at work: its engine is the current one, or a new one, the last of all.
OpenTick ==
    /\ tick \in [pc : {"observe", "commit", "finish"}, ctx : Nat, before : SUBSET Nat,
                 closing : SUBSET Nat, saved : {tick.saved}, found : {tick.found},
                 seconds : Int, row : TickRows]
    /\ tick.ctx \in 1 .. Len(engines) /\ tick.row.by = tick.ctx
    /\ tick.before = IF current # 0 /\ tick.ctx # current THEN {current} ELSE {}
    /\ tick.closing \subseteq tick.before
    /\ tick.saved \in [tick.before \cup {tick.ctx} -> Memories]
    /\ tick.ctx # current => tick.ctx = Len(engines)

OpenEnd ==
    /\ end \in [pc : {"summary", "commit", "flush"}, eng : Nat, saved : Memories,
                found : {end.found}, seconds : Int]
    /\ end.eng \in 1 .. Len(engines)
    /\ tick.pc # "idle" /\ tick.ctx # current => end.eng # tick.ctx

ShiftTypes ==
    /\ clock \in Int /\ rows \in Seq(TickRows)
    /\ engines \in Seq(Engines) /\ current \in 0 .. Len(engines)
    /\ tick.pc # "idle" => OpenTick
    /\ end.pc # "idle" => OpenEnd

LEMMA SeqOfFunction ==
    ASSUME NEW T, NEW n \in Nat, NEW f \in [1 .. n -> T]
    PROVE  f \in Seq(T) /\ Len(f) = n /\ DOMAIN f = 1 .. n
  OBVIOUS

\* A nonempty set of positions has a greatest.
LEMMA Greatest ==
    ASSUME NEW n \in Nat, NEW T \in SUBSET (1 .. n), T # {}
    PROVE  \E x \in T : \A y \in T : y <= x
  <1> DEFINE Has == {m \in Nat : \A U \in SUBSET (1 .. m) :
                        U # {} => \E x \in U : \A y \in U : y <= x}
  <1>1. 0 \in Has
    <2>1. 1 .. 0 = {}
      OBVIOUS
    <2> QED
      BY <2>1
  <1>2. ASSUME NEW m \in Has PROVE m + 1 \in Has
    <2> SUFFICES ASSUME NEW U \in SUBSET (1 .. m + 1), U # {}
                 PROVE  \E x \in U : \A y \in U : y <= x
      OBVIOUS
    <2>1. CASE m + 1 \in U
      BY <2>1
    <2>2. CASE m + 1 \notin U
      <3>1. U \in SUBSET (1 .. m)
        BY <2>2
      <3> QED
        BY <3>1
    <2> QED
      BY <2>1, <2>2
  <1>3. Has = Nat
    <2>1. Has \in SUBSET Nat
      OBVIOUS
    <2> HIDE DEF Has
    <2> QED
      BY <1>1, <1>2, <2>1, Induction
  <1>4. n \in Has
    BY <1>3
  <1> QED
    BY <1>4

\* The last of a set of rows, as Stands finds it.
LastOf(among) == CHOOSE j \in among : \A k \in among : k <= j

LEMMA LastIsLast ==
    ASSUME NEW n \in Nat, NEW T \in SUBSET (1 .. n), T # {}
    PROVE  LastOf(T) \in T /\ \A k \in T : k <= LastOf(T)
  BY Greatest DEF LastOf

\* The seconds from the last of a set of rows to a time after it, and those of
\* the rows of a set that read as the given kinds, as Stands and Seconds have
\* them, for any sequence of rows.
SinceOf(rs, among, at) ==
    IF among = {} THEN AtMost(Nominal, GapCap) ELSE AtMost(at - rs[LastOf(among)].at, GapCap)
ReadAs(rs, among, kinds) == {j \in among : rs[j].reading \in kinds}
SecondsOf(rs, among, kinds) ==
    SumFunctionOnSet([i \in ReadAs(rs, among, kinds) |->
                         SinceOf(rs, {j \in among : j < i}, rs[i].at)], ReadAs(rs, among, kinds))

LEMMA SecondsAre == \A among, kinds : Seconds(among, kinds) = SecondsOf(rows, among, kinds)
  <1> SUFFICES ASSUME NEW among, NEW kinds
               PROVE  Seconds(among, kinds) = SecondsOf(rows, among, kinds)
    OBVIOUS
  <1>1. \A i : Stands(among, i) = SinceOf(rows, {j \in among : j < i}, rows[i].at)
    BY DEF Stands, SinceOf, LastOf
  <1>2. PICK S : S = ReadAs(rows, among, kinds)
    OBVIOUS
  <1>3. PICK f : f = [i \in S |-> SinceOf(rows, {j \in among : j < i}, rows[i].at)]
    OBVIOUS
  <1>4. f = [i \in S |-> Stands(among, i)] /\ DOMAIN f = S
    BY <1>1, <1>3
  <1>5. Seconds(among, kinds) = SumFunctionOnSet(f, S)
    BY <1>2, <1>4 DEF Seconds, SumFunction, ReadAs
  <1>6. SecondsOf(rows, among, kinds) = SumFunctionOnSet(f, S)
    BY <1>2, <1>3 DEF SecondsOf
  <1> QED
    BY <1>5, <1>6

LEMMA SinceType ==
    ASSUME NEW rs \in Seq(TickRows), NEW among \in SUBSET (DOMAIN rs), NEW at \in Int
    PROVE  SinceOf(rs, among, at) \in Int
  <1>1. Nominal \in Int /\ GapCap \in Int
    BY ShiftAssumption
  <1>2. CASE among = {}
    BY <1>1, <1>2 DEF SinceOf, AtMost
  <1>3. CASE among # {}
    <2>1. Len(rs) \in Nat /\ DOMAIN rs = 1 .. Len(rs)
      OBVIOUS
    <2>2. LastOf(among) \in among
      BY <1>3, <2>1, LastIsLast
    <2>3. rs[LastOf(among)] \in TickRows
      BY <2>1, <2>2
    <2>4. rs[LastOf(among)].at \in Int
      BY <2>3 DEF TickRows
    <2> QED
      BY <1>1, <1>3, <2>4 DEF SinceOf, AtMost
  <1> QED
    BY <1>2, <1>3

\* What the sum of the seconds adds up is finite, and seconds.
LEMMA SecondsOfRows ==
    ASSUME NEW rs \in Seq(TickRows), NEW among \in SUBSET (DOMAIN rs), NEW kinds
    PROVE  /\ IsFiniteSet(ReadAs(rs, among, kinds))
           /\ \A i \in ReadAs(rs, among, kinds) :
                 SinceOf(rs, {j \in among : j < i}, rs[i].at) \in Int
           /\ SecondsOf(rs, among, kinds) \in Int
  <1>1. PICK S : S = ReadAs(rs, among, kinds)
    OBVIOUS
  <1>2. PICK f : f = [i \in S |-> SinceOf(rs, {j \in among : j < i}, rs[i].at)]
    OBVIOUS
  <1>3. IsFiniteSet(S)
    <2>1. Len(rs) \in Nat /\ DOMAIN rs = 1 .. Len(rs)
      OBVIOUS
    <2>2. IsFiniteSet(1 .. Len(rs)) /\ S \in SUBSET (1 .. Len(rs))
      BY <1>1, <2>1, FS_Interval DEF ReadAs
    <2> QED
      BY <2>2, FS_Subset
  <1>4. ASSUME NEW i \in S PROVE SinceOf(rs, {j \in among : j < i}, rs[i].at) \in Int
    <2>1. i \in DOMAIN rs /\ rs[i] \in TickRows /\ {j \in among : j < i} \in SUBSET (DOMAIN rs)
      BY <1>1 DEF ReadAs
    <2>2. rs[i].at \in Int
      BY <2>1 DEF TickRows
    <2> QED
      BY <2>1, <2>2, SinceType
  <1>5. SumFunctionOnSet(f, S) \in Int
    BY <1>2, <1>3, <1>4, SumType
  <1> QED
    BY <1>1, <1>2, <1>3, <1>4, <1>5 DEF SecondsOf

LEMMA SecondsType ==
    ASSUME rows \in Seq(TickRows), NEW among \in SUBSET (DOMAIN rows), NEW kinds
    PROVE  Seconds(among, kinds) \in Int
  BY SecondsAre, SecondsOfRows

\* The steps of the behavior engine keep a memory a memory.
LEMMA TickSecondsType ==
    \A mem \in Memories, at \in Int : TickSeconds(mem, at) \in Int
  BY ShiftAssumption DEF TickSeconds, AtMost, Memories

LEMMA MeasuredIs ==
    ASSUME NEW mem \in Memories, NEW row \in TickRows
    PROVE  LET after == Measured(mem, row)
               seconds == TickSeconds(mem, row.at)
           IN  /\ after \in Memories
               /\ after.last = row.at /\ after.ended = mem.ended
               /\ after.engine = mem.engine + (IF row.reading \in Running THEN seconds ELSE 0)
               /\ after.idle = mem.idle + (IF row.reading \in Idle THEN seconds ELSE 0)
               /\ after.span = mem.span /\ after.emitted = mem.emitted
               /\ after.opened = mem.opened /\ after.noticed = mem.noticed
  <1>1. row.at \in Int
    BY DEF TickRows
  <1>2. TickSeconds(mem, row.at) \in Int
    BY <1>1, TickSecondsType
  <1>3. PICK seconds \in Int : seconds = TickSeconds(mem, row.at)
    BY <1>2
  <1>4. Measured(mem, row) =
            [mem EXCEPT !.last = row.at,
                        !.engine = @ + (IF row.reading \in Running THEN seconds ELSE 0),
                        !.idle = @ + (IF row.reading \in Idle THEN seconds ELSE 0)]
    BY <1>3 DEF Measured
  <1>5. PICK a, b \in Int : /\ a = mem.engine + (IF row.reading \in Running THEN seconds ELSE 0)
                           /\ b = mem.idle + (IF row.reading \in Idle THEN seconds ELSE 0)
    BY DEF Memories
  <1>6. Measured(mem, row) = [mem EXCEPT !.last = row.at, !.engine = a, !.idle = b]
    BY <1>4, <1>5 DEF Memories
  <1>7. /\ Measured(mem, row) \in Memories
        /\ Measured(mem, row).last = row.at /\ Measured(mem, row).ended = mem.ended
        /\ Measured(mem, row).engine = a /\ Measured(mem, row).idle = b
        /\ Measured(mem, row).span = mem.span /\ Measured(mem, row).emitted = mem.emitted
        /\ Measured(mem, row).opened = mem.opened /\ Measured(mem, row).noticed = mem.noticed
    BY <1>1, <1>6 DEF Memories
  <1> QED
    BY <1>3, <1>5, <1>7

LEMMA SpannedIs ==
    ASSUME NEW mem \in Memories, NEW row \in TickRows
    PROVE  LET after == Spanned(mem, row)
           IN  /\ after \in Memories
               /\ after.last = mem.last /\ after.ended = mem.ended
               /\ after.engine = mem.engine /\ after.idle = mem.idle
               /\ after.opened = mem.opened /\ after.noticed = mem.noticed
               /\ \A d \in Spans :
                     /\ after.span[d] = IF ~Continues(d, row.reading) THEN NoTime
                                        ELSE IF mem.span[d] = NoTime THEN row.at ELSE mem.span[d]
                     /\ after.emitted[d] = IF Emits(mem, d, row)
                                           THEN mem.emitted[d] \cup {mem.span[d]}
                                           ELSE mem.emitted[d]
  <1>1. row.at \in Int
    BY DEF TickRows
  <1>2. mem.span \in [Spans -> Int] /\ mem.emitted \in [Spans -> SUBSET Int]
    BY DEF Memories
  <1>3. PICK span : span = [d \in Spans |-> IF ~Continues(d, row.reading) THEN NoTime
                                      ELSE IF mem.span[d] = NoTime THEN row.at ELSE mem.span[d]]
    OBVIOUS
  <1>4. PICK emitted : emitted = [d \in Spans |-> IF Emits(mem, d, row)
                                            THEN mem.emitted[d] \cup {mem.span[d]}
                                            ELSE mem.emitted[d]]
    OBVIOUS
  <1>5. span \in [Spans -> Int]
    BY <1>1, <1>2, <1>3 DEF NoTime
  <1>6. emitted \in [Spans -> SUBSET Int]
    BY <1>2, <1>4
  <1>7. Spanned(mem, row) = [mem EXCEPT !.span = span, !.emitted = emitted]
    BY <1>2, <1>3, <1>4 DEF Spanned
  <1>8. LET after == Spanned(mem, row)
        IN  /\ after \in Memories
            /\ after.last = mem.last /\ after.ended = mem.ended
            /\ after.engine = mem.engine /\ after.idle = mem.idle
            /\ after.opened = mem.opened /\ after.noticed = mem.noticed
            /\ after.span = span /\ after.emitted = emitted
    BY <1>5, <1>6, <1>7 DEF Memories
  <1>9. \A d \in Spans :
           /\ span[d] = IF ~Continues(d, row.reading) THEN NoTime
                        ELSE IF mem.span[d] = NoTime THEN row.at ELSE mem.span[d]
           /\ emitted[d] = IF Emits(mem, d, row) THEN mem.emitted[d] \cup {mem.span[d]}
                                                 ELSE mem.emitted[d]
    BY <1>3, <1>4
  <1> QED
    BY <1>8, <1>9


LEMMA CountedIs ==
    ASSUME NEW mem \in Memories, NEW row \in TickRows
    PROVE  LET after == Counted(mem, row)
           IN  /\ after \in Memories
               /\ after.last = mem.last /\ after.ended = mem.ended
               /\ after.engine = mem.engine /\ after.idle = mem.idle
               /\ after.span = mem.span /\ after.emitted = mem.emitted
               /\ after.noticed /\ ~mem.noticed => after.opened[1] \in Int
  <1>1. CASE row.reading # "incident"
    BY <1>1 DEF Counted
  <1>2. CASE row.reading = "incident"
    <2>1. PICK opened : opened = Append(mem.opened, row.at)
      OBVIOUS
    <2>2. mem.opened \in Seq(Int) /\ row.at \in Int
      BY DEF Memories, TickRows
    <2>3. opened \in Seq(Int) /\ Len(opened) \in Nat /\ Len(opened) >= 1 /\ opened[1] \in Int
      BY <2>1, <2>2
    <2>4. Counted(mem, row) =
             [mem EXCEPT !.opened = opened, !.noticed = @ \/ Len(opened) >= Repeats]
      BY <1>2, <2>1 DEF Counted
    <2>5. (mem.noticed \/ Len(opened) >= Repeats) \in BOOLEAN
      BY DEF Memories
    <2> QED
      BY <2>3, <2>4, <2>5 DEF Memories
  <1> QED
    BY <1>1, <1>2

LEMMA EventType ==
    ASSUME engines \in Seq(Engines), NEW e \in 1 .. Len(engines), NEW kind \in Kinds,
           NEW start \in Int, NEW at \in Int
    PROVE  Event(kind, e, start, at) \in Happenings
  <1>1. engines[e] \in Engines
    OBVIOUS
  <1> QED
    BY <1>1 DEF Event, Happenings, Engines

LEMMA FoundType ==
    ASSUME engines \in Seq(Engines), NEW e \in 1 .. Len(engines), NEW mem \in Memories,
           NEW row \in TickRows
    PROVE  Found(mem, e, row) \subseteq Happenings
  <1>1. row.at \in Int /\ mem.span \in [Spans -> Int]
    BY DEF TickRows, Memories
  <1>2. \A d \in Spans : Event(d, e, mem.span[d], row.at) \in Happenings
    BY <1>1, EventType DEF Kinds
  <1>3. Counted(mem, row).noticed /\ ~mem.noticed =>
            Event("repeated", e, Counted(mem, row).opened[1], row.at) \in Happenings
    BY <1>1, CountedIs, EventType DEF Kinds
  <1> QED
    BY <1>2, <1>3 DEF Found

LEMMA RatioType ==
    ASSUME engines \in Seq(Engines), NEW e \in 1 .. Len(engines), NEW mem, NEW at \in Int
    PROVE  HighIdleRatio(mem, e, at) \subseteq Happenings
  <1>1. NoTime \in Int /\ "high_idle_ratio" \in Kinds
    BY DEF Kinds, NoTime
  <1>2. Event("high_idle_ratio", e, NoTime, at) \in Happenings
    BY <1>1, EventType
  <1> QED
    BY <1>2 DEF HighIdleRatio

LEMMA RememberIs ==
    ASSUME engines \in Seq(Engines), NEW e \in 1 .. Len(engines), NEW mem \in Memories,
           NEW found \in SUBSET Happenings
    PROVE  LET after == Remember(e, mem, found)
           IN  /\ after \in Engines /\ after.mem = mem /\ after.shift = engines[e].shift
               /\ after.effects = engines[e].effects \cup found
  <1>1. engines[e] \in Engines
    OBVIOUS
  <1> QED
    BY <1>1 DEF Remember, Engines

\* Sending effects, and going back to a memory, changes no engine's shift.
LEMMA FlushedIs ==
    ASSUME engines \in Seq(Engines), NEW ids
    PROVE  /\ Flushed(ids) \in Seq(Engines) /\ Len(Flushed(ids)) = Len(engines)
           /\ \A e \in 1 .. Len(engines) :
                 /\ Flushed(ids)[e].mem = engines[e].mem /\ Flushed(ids)[e].shift = engines[e].shift
                 /\ Flushed(ids)[e].effects = IF e \in ids THEN {} ELSE engines[e].effects
  <1>1. Len(engines) \in Nat /\ DOMAIN engines = 1 .. Len(engines)
    OBVIOUS
  <1>2. \A e \in 1 .. Len(engines) : engines[e] \in Engines
    OBVIOUS
  <1>3. \A e \in 1 .. Len(engines) :
            /\ Flushed(ids)[e] \in Engines /\ Flushed(ids)[e].mem = engines[e].mem
            /\ Flushed(ids)[e].shift = engines[e].shift
            /\ Flushed(ids)[e].effects = IF e \in ids THEN {} ELSE engines[e].effects
    BY <1>1, <1>2 DEF Flushed, Engines
  <1>4. Flushed(ids) \in [1 .. Len(engines) -> Engines]
    BY <1>1, <1>3 DEF Flushed
  <1> QED
    BY <1>1, <1>3, <1>4, SeqOfFunction

LEMMA RestoredIs ==
    ASSUME engines \in Seq(Engines), NEW D, NEW saved \in [D -> Memories]
    PROVE  /\ Restored(saved) \in Seq(Engines) /\ Len(Restored(saved)) = Len(engines)
           /\ \A e \in 1 .. Len(engines) :
                 /\ Restored(saved)[e].mem = IF e \in D THEN saved[e] ELSE engines[e].mem
                 /\ Restored(saved)[e].shift = engines[e].shift
                 /\ Restored(saved)[e].effects = IF e \in D THEN {} ELSE engines[e].effects
  <1>1. Len(engines) \in Nat /\ DOMAIN engines = 1 .. Len(engines)
    OBVIOUS
  <1>2. \A e \in 1 .. Len(engines) : engines[e] \in Engines
    OBVIOUS
  <1>3. \A e \in 1 .. Len(engines) :
            /\ Restored(saved)[e] \in Engines /\ Restored(saved)[e].shift = engines[e].shift
            /\ Restored(saved)[e].mem = IF e \in D THEN saved[e] ELSE engines[e].mem
            /\ Restored(saved)[e].effects = IF e \in D THEN {} ELSE engines[e].effects
    BY <1>1, <1>2 DEF Restored, Engines
  <1>4. Restored(saved) \in [1 .. Len(engines) -> Engines]
    <2> DEFINE Back(e) == IF e \in DOMAIN saved
                          THEN [engines[e] EXCEPT !.mem = saved[e], !.effects = {}]
                          ELSE engines[e]
    <2>1. Restored(saved) = [e \in DOMAIN engines |-> Back(e)]
      BY DEF Restored
    <2> HIDE DEF Back
    <2>2. \A e \in 1 .. Len(engines) : Back(e) \in Engines
      BY <1>1, <1>3, <2>1
    <2> QED
      BY <1>1, <2>1, <2>2
  <1> QED
    BY <1>1, <1>3, <1>4, SeqOfFunction

LEMMA FrontIs ==
    ASSUME NEW s \in Seq(Engines), NEW n \in 0 .. Len(s)
    PROVE  /\ SubSeq(s, 1, n) \in Seq(Engines) /\ Len(SubSeq(s, 1, n)) = n
           /\ \A e \in 1 .. n : SubSeq(s, 1, n)[e] = s[e]
  OBVIOUS

LEMMA FreshIs ==
    /\ Fresh \in Memories /\ Fresh.engine = 0 /\ Fresh.idle = 0 /\ Fresh.last = NoTime
    /\ Fresh.ended = FALSE
  <1>1. NoTime \in Int /\ <<>> \in Seq(Int)
    BY DEF NoTime
  <1> QED
    BY <1>1 DEF Fresh, Memories

\* What _context_for gives a tick.
LEMMA ContextIs ==
    ASSUME engines \in Seq(Engines), current \in 0 .. Len(engines), NEW shift \in Shifts
    PROVE  LET all == WithContext(shift)
               ctx == Context(shift)
           IN  /\ all \in Seq(Engines) /\ ctx \in 1 .. Len(all)
               /\ Len(all) = IF Changes(shift) THEN Len(engines) + 1 ELSE Len(engines)
               /\ \A e \in 1 .. Len(engines) : all[e] = engines[e]
               /\ Changes(shift) => ctx = Len(all) /\ all[ctx].mem = Fresh /\ all[ctx].effects = {}
               /\ Changes(shift) <=> ctx # current
               /\ all[ctx].shift = shift
               /\ Previous(shift) = IF current # 0 /\ ctx # current THEN {current} ELSE {}
  <1>1. Len(engines) \in Nat /\ current \in Nat
    OBVIOUS
  <1>2. PICK new : new = [shift |-> shift, mem |-> Fresh, effects |-> {}]
    OBVIOUS
  <1>3. new \in Engines /\ new.mem = Fresh /\ new.shift = shift /\ new.effects = {}
    BY <1>2, FreshIs DEF Engines
  <1>4. CASE Changes(shift)
    <2>1. WithContext(shift) = Append(engines, new) /\ Context(shift) = Len(engines) + 1
      BY <1>2, <1>4 DEF WithContext, Context
    <2>2. /\ Append(engines, new) \in Seq(Engines) /\ Len(Append(engines, new)) = Len(engines) + 1
          /\ Append(engines, new)[Len(engines) + 1] = new
          /\ \A e \in 1 .. Len(engines) : Append(engines, new)[e] = engines[e]
      BY <1>3
    <2>3. Len(engines) + 1 # current
      BY <1>1
    <2> QED
      BY <1>1, <1>3, <1>4, <2>1, <2>2, <2>3 DEF Previous
  <1>5. CASE ~Changes(shift)
    <2>1. WithContext(shift) = engines /\ Context(shift) = current /\ current # 0
          /\ engines[current].shift = shift
      BY <1>5 DEF WithContext, Context, Changes
    <2> QED
      BY <1>1, <1>5, <2>1 DEF Previous
  <1> QED
    BY <1>4, <1>5

LEMMA TypesStart == Init => ShiftTypes
  BY DEF Init, ShiftTypes, NoTick, NoEnd

\* A change of an engine's memory and effects, and of nothing the ticks and requests
\* at work refer to.
LEMMA TypesKept ==
    ASSUME ShiftTypes, engines' \in Seq(Engines), Len(engines') = Len(engines),
           UNCHANGED <<clock, rows, current, tick, end>>
    PROVE  ShiftTypes'
  BY DEF ShiftTypes, OpenTick, OpenEnd

LEMMA TypesBeginTick ==
    ASSUME ShiftTypes, NEW shift \in Shifts, NEW reading \in Readings, NEW gap \in Gaps,
           BeginTick(shift, reading, gap)
    PROVE  ShiftTypes'
  <1> DEFINE all == WithContext(shift)
             ctx == Context(shift)
             before == Previous(shift)
             closing == {e \in before : Closes(e)}
             found == UNION {HighIdleRatio(engines[e].mem, e, clock + gap) : e \in closing}
  <1>1. engines \in Seq(Engines) /\ current \in 0 .. Len(engines) /\ clock \in Int /\ gap \in Int
    BY ShiftAssumption DEF ShiftTypes
  <1>2. /\ all \in Seq(Engines) /\ ctx \in 1 .. Len(all) /\ Len(all) \in Nat
        /\ Len(all) = IF Changes(shift) THEN Len(engines) + 1 ELSE Len(engines)
        /\ \A e \in 1 .. Len(engines) : all[e] = engines[e]
        /\ Changes(shift) => ctx = Len(all)
        /\ Changes(shift) <=> ctx # current
        /\ before = IF current # 0 /\ ctx # current THEN {current} ELSE {}
    BY <1>1, ContextIs
  <1>3. before \subseteq 1 .. Len(engines) /\ closing \subseteq before
    BY <1>1, <1>2
  <1>4. found \subseteq Happenings
    <2>1. ASSUME NEW e \in closing
          PROVE  HighIdleRatio(engines[e].mem, e, clock + gap) \subseteq Happenings
      BY <1>1, <1>3, RatioType
    <2> QED
      BY <2>1
  <1>5. \A e \in closing : /\ Remember(e, Ended(engines[e].mem), found) \in Engines
    <2> SUFFICES ASSUME NEW e \in closing
                 PROVE  Remember(e, Ended(engines[e].mem), found) \in Engines
      OBVIOUS
    <2>1. e \in 1 .. Len(engines)
      BY <1>3
    <2>2. engines[e] \in Engines /\ engines[e].mem \in Memories
      <3>1. engines[e] \in Engines
        BY <1>1, <2>1
      <3> QED
        BY <3>1 DEF Engines
    <2>3. Ended(engines[e].mem) \in Memories
      BY <2>2 DEF Ended, Memories
    <2> HIDE DEF found, closing
    <2> QED
      BY <1>1, <1>4, <2>1, <2>3, RememberIs
  <1>6. tick' = [pc |-> "observe", ctx |-> ctx, before |-> before, closing |-> closing,
                 saved |-> [e \in before \cup {ctx} |-> all[e].mem],
                 found |-> found, seconds |-> 0,
                 row |-> [shift |-> shift, at |-> clock + gap, reading |-> reading,
                          by |-> ctx]]
    BY DEF BeginTick
  <1>7. engines' = [e \in DOMAIN all |-> IF e \in closing
                                         THEN Remember(e, Ended(engines[e].mem), found) ELSE all[e]]
    BY DEF BeginTick
  <1>8. UNCHANGED <<clock, rows, current, end>> /\ tick.pc = "idle"
    BY DEF BeginTick
  <1> HIDE DEF all, ctx, before, closing, found
  <1>9. engines' \in Seq(Engines) /\ Len(engines') = Len(all)
    <2>1. \A e \in DOMAIN all : engines'[e] \in Engines
      BY <1>2, <1>5, <1>7
    <2>2. engines' \in [1 .. Len(all) -> Engines]
      BY <1>2, <1>7, <2>1
    <2> QED
      BY <1>2, <2>2, SeqOfFunction
  <1>10. ctx \in Nat /\ clock + gap \in Int /\ before \subseteq Nat /\ closing \subseteq Nat
    BY <1>1, <1>2, <1>3
  <1>11. [shift |-> shift, at |-> clock + gap, reading |-> reading, by |-> ctx] \in TickRows
    BY <1>10 DEF TickRows
  <1>12. [e \in before \cup {ctx} |-> all[e].mem] \in [before \cup {ctx} -> Memories]
    <2>1. \A e \in before \cup {ctx} : e \in 1 .. Len(all)
      BY <1>2, <1>3
    <2>2. \A e \in 1 .. Len(all) : all[e] \in Engines
      BY <1>2
    <2> QED
      BY <2>1, <2>2 DEF Engines
  <1>13. OpenTick'
    BY <1>2, <1>3, <1>6, <1>8, <1>9, <1>10, <1>11, <1>12 DEF OpenTick
  <1>14. end.pc # "idle" => OpenEnd'
    <2> SUFFICES ASSUME end.pc # "idle" PROVE OpenEnd'
      OBVIOUS
    <2>1. OpenEnd
      BY DEF ShiftTypes
    <2>2. end.eng \in 1 .. Len(engines') /\ (ctx # current => end.eng # ctx)
      BY <1>1, <1>2, <1>9, <2>1 DEF OpenEnd
    <2> QED
      BY <1>6, <1>8, <2>1, <2>2 DEF OpenEnd
  <1> QED
    BY <1>1, <1>2, <1>8, <1>9, <1>13, <1>14 DEF ShiftTypes

LEMMA TypesObserveTick ==
    ASSUME ShiftTypes, ObserveTick
    PROVE  ShiftTypes'
  <1> DEFINE e == tick.ctx
             mem == engines[e].mem
             found == Found(mem, e, tick.row)
             after == Spanned(Measured(Counted(mem, tick.row), tick.row), tick.row)
             f == [c \in tick.closing |-> Seconds(TicksOf(engines[c].shift), Running)]
  <1>1. OpenTick /\ engines \in Seq(Engines)
    BY DEF ShiftTypes, ObserveTick
  <1>2. e \in 1 .. Len(engines) /\ tick.row \in TickRows /\ engines[e] \in Engines
    BY <1>1 DEF OpenTick
  <1>3. mem \in Memories
    BY <1>2 DEF Engines
  <1>4. after \in Memories
    BY <1>2, <1>3, CountedIs, MeasuredIs, SpannedIs
  <1>5. found \subseteq Happenings
    BY <1>1, <1>2, <1>3, FoundType
  <1>6. Remember(e, after, found) \in Engines
    <2> HIDE DEF after, found, e
    <2> QED
      BY <1>1, <1>2, <1>4, <1>5, RememberIs
  <1>7. engines' = [engines EXCEPT ![e] = Remember(e, after, found)]
    BY DEF ObserveTick
  <1>8. tick' = [tick EXCEPT !.pc = "commit", !.found = @ \cup found,
                             !.seconds = SumFunction(f)]
    BY DEF ObserveTick
  <1>9. clock' = tick.row.at /\ UNCHANGED <<rows, current, end>> /\ tick.pc = "observe"
    BY DEF ObserveTick
  <1>10. SumFunction(f) \in Int
    <2>1. IsFiniteSet(tick.closing)
      <3>1. tick.closing \subseteq {current}
        BY <1>1 DEF OpenTick
      <3> QED
        BY <3>1, FS_Singleton, FS_Subset
    <2>2. \A c \in tick.closing : TicksOf(engines[c].shift) \in SUBSET (DOMAIN rows)
      BY DEF TicksOf
    <2>3. \A c \in tick.closing : f[c] \in Int
      BY <2>2, SecondsType DEF ShiftTypes
    <2> HIDE DEF f
    <2>4. SumFunctionOnSet(f, tick.closing) \in Int
      BY <2>1, <2>3, SumType
    <2> QED
      BY <2>4 DEF SumFunction, f
  <1> HIDE DEF e, mem, found, after, f
  <1>11. engines' \in Seq(Engines) /\ Len(engines') = Len(engines)
    BY <1>1, <1>2, <1>6, <1>7
  <1>12. OpenTick'
    BY <1>1, <1>8, <1>9, <1>10, <1>11 DEF OpenTick
  <1>13. end.pc # "idle" => OpenEnd'
    BY <1>1, <1>8, <1>9, <1>11 DEF ShiftTypes, OpenEnd, OpenTick
  <1>14. clock' \in Int
    BY <1>2, <1>9 DEF TickRows
  <1> QED
    BY <1>9, <1>11, <1>12, <1>13, <1>14 DEF ShiftTypes

LEMMA TypesCommitTick ==
    ASSUME ShiftTypes, CommitTick
    PROVE  ShiftTypes'
  <1>1. OpenTick /\ tick.row \in TickRows
    BY DEF ShiftTypes, CommitTick, OpenTick
  <1>2. /\ rows' = Append(rows, tick.row) /\ tick' = [tick EXCEPT !.pc = "finish"]
        /\ UNCHANGED <<clock, engines, current, end>> /\ tick.pc = "commit"
    BY DEF CommitTick
  <1>3. rows' \in Seq(TickRows)
    BY <1>1, <1>2 DEF ShiftTypes
  <1>4. OpenTick'
    BY <1>1, <1>2 DEF OpenTick
  <1>5. end.pc # "idle" => OpenEnd'
    BY <1>1, <1>2 DEF ShiftTypes, OpenEnd, OpenTick
  <1> QED
    BY <1>2, <1>3, <1>4, <1>5 DEF ShiftTypes

\* The engines left when the open tick's new one, if there is one, is dropped.
LEMMA DiscardedIs ==
    ASSUME ShiftTypes, tick.pc # "idle", NEW all \in Seq(Engines), Len(all) = Len(engines)
    PROVE  LET n == IF tick.ctx # current THEN Len(engines) - 1 ELSE Len(engines)
           IN  /\ n \in Nat /\ Discarded(all) \in Seq(Engines) /\ Len(Discarded(all)) = n
               /\ \A e \in 1 .. n : Discarded(all)[e] = all[e]
               /\ current \in 0 .. n
               /\ end.pc # "idle" => end.eng \in 1 .. n
  <1>1. OpenTick /\ current \in 0 .. Len(engines) /\ Len(engines) \in Nat
    BY DEF ShiftTypes
  <1>2. CASE tick.ctx # current
    <2>1. tick.ctx = Len(engines) /\ tick.ctx - 1 \in 0 .. Len(all)
      BY <1>1, <1>2 DEF OpenTick
    <2>2. Discarded(all) = SubSeq(all, 1, tick.ctx - 1)
      BY <1>2 DEF Discarded
    <2>3. end.pc # "idle" => end.eng \in 1 .. Len(engines) /\ end.eng # Len(engines)
      BY <1>2, <2>1 DEF ShiftTypes, OpenEnd
    <2>4. end.pc # "idle" => end.eng \in 1 .. Len(engines) - 1
      BY <1>1, <2>3
    <2>5. current \in 0 .. Len(engines) - 1
      BY <1>1, <1>2, <2>1
    <2> QED
      BY <1>2, <2>1, <2>2, <2>4, <2>5, FrontIs
  <1>3. CASE tick.ctx = current
    <2>1. Discarded(all) = all
      BY <1>3 DEF Discarded
    <2> QED
      BY <1>1, <1>3, <2>1 DEF ShiftTypes, OpenEnd
  <1> QED
    BY <1>2, <1>3

LEMMA TypesRollbackTick ==
    ASSUME ShiftTypes, RollbackTick
    PROVE  ShiftTypes'
  <1>1. OpenTick /\ tick.pc # "idle" /\ engines \in Seq(Engines)
    BY DEF ShiftTypes, RollbackTick
  <1>2. /\ engines' = Discarded(Restored(tick.saved)) /\ tick'.pc = "idle"
        /\ UNCHANGED <<clock, rows, current, end>>
    BY DEF RollbackTick, NoTick
  <1>3. Restored(tick.saved) \in Seq(Engines) /\ Len(Restored(tick.saved)) = Len(engines)
    BY <1>1, RestoredIs DEF OpenTick
  <1>4. PICK n \in Nat : /\ engines' \in Seq(Engines) /\ Len(engines') = n /\ current \in 0 .. n
                         /\ end.pc # "idle" => end.eng \in 1 .. n
    BY <1>1, <1>2, <1>3, DiscardedIs
  <1>5. end.pc # "idle" => OpenEnd'
    BY <1>2, <1>4 DEF ShiftTypes, OpenEnd
  <1> QED
    BY <1>2, <1>4, <1>5 DEF ShiftTypes

LEMMA TypesFinishTick ==
    ASSUME ShiftTypes, FinishTick
    PROVE  ShiftTypes'
  <1>1. OpenTick /\ engines \in Seq(Engines)
    BY DEF ShiftTypes, FinishTick
  <1>2. /\ engines' = Flushed(tick.before \cup {tick.ctx}) /\ tick'.pc = "idle"
        /\ current' = tick.ctx /\ UNCHANGED <<clock, rows, end>>
    BY DEF FinishTick, Send, NoTick
  <1>3. engines' \in Seq(Engines) /\ Len(engines') = Len(engines)
    BY <1>1, <1>2, FlushedIs
  <1>4. end.pc # "idle" => OpenEnd'
    BY <1>2, <1>3 DEF ShiftTypes, OpenEnd
  <1>5. current' \in 0 .. Len(engines')
    BY <1>1, <1>2, <1>3 DEF OpenTick
  <1> QED
    BY <1>2, <1>3, <1>4, <1>5 DEF ShiftTypes

LEMMA TypesEnd ==
    ASSUME ShiftTypes,
           BeginEnd \/ EndAgain \/ SummarizeEnd \/ CommitEnd \/ RollbackEnd \/ FlushEnd
    PROVE  ShiftTypes'
  <1>1. engines \in Seq(Engines) /\ Len(engines) \in Nat /\ current \in 0 .. Len(engines)
    BY DEF ShiftTypes
  <1>2. CASE BeginEnd
    <2>1. PICK mem, found : mem = engines[current].mem /\ found = HighIdleRatio(mem, current, clock)
      OBVIOUS
    <2>2. /\ end' = [pc |-> "summary", eng |-> current, saved |-> mem, found |-> found,
                     seconds |-> 0]
          /\ engines' = [engines EXCEPT ![current] = Remember(current, Ended(mem), found)]
          /\ current # 0 /\ UNCHANGED <<clock, rows, current, tick>>
      BY <1>2, <2>1 DEF BeginEnd
    <2>3. current \in 1 .. Len(engines) /\ engines[current] \in Engines
      BY <1>1, <2>2
    <2>4. mem \in Memories /\ found \subseteq Happenings
      BY <1>1, <2>1, <2>3, RatioType DEF ShiftTypes, Engines
    <2>5. Ended(mem) \in Memories
      BY <2>4 DEF Ended, Memories
    <2>6. Remember(current, Ended(mem), found) \in Engines
      BY <1>1, <2>3, <2>4, <2>5, RememberIs
    <2>7. engines' \in Seq(Engines) /\ Len(engines') = Len(engines)
      BY <1>1, <2>2, <2>3, <2>6
    <2>8. OpenEnd'
      BY <2>2, <2>3, <2>4, <2>7 DEF OpenEnd
    <2>9. tick.pc # "idle" => OpenTick'
      BY <2>2, <2>7 DEF ShiftTypes, OpenTick
    <2> QED
      BY <2>2, <2>7, <2>8, <2>9 DEF ShiftTypes
  <1>3. CASE EndAgain
    BY <1>1, <1>3, FlushedIs, TypesKept DEF EndAgain, Send
  <1>4. ASSUME end.pc # "idle",
               engines' \in Seq(Engines), Len(engines') = Len(engines),
               UNCHANGED <<clock, rows, current, tick>>,
               end'.pc = "idle" \/ /\ end' \in [pc : {"summary", "commit", "flush"}, eng : Nat,
                                                saved : Memories, found : {end'.found}, seconds : Int]
                                   /\ end'.eng = end.eng
        PROVE  ShiftTypes'
    <2>1. OpenEnd
      BY <1>4 DEF ShiftTypes
    <2>2. end'.pc # "idle" => OpenEnd'
      BY <1>4, <2>1 DEF OpenEnd
    <2>3. tick.pc # "idle" => OpenTick'
      BY <1>4 DEF ShiftTypes, OpenTick
    <2> QED
      BY <1>4, <2>2, <2>3 DEF ShiftTypes
  <1>5. CASE SummarizeEnd
    <2>1. OpenEnd
      BY <1>5 DEF ShiftTypes, SummarizeEnd
    <2>2. PICK seconds : seconds = Seconds(TicksOf(engines[end.eng].shift), Running)
      OBVIOUS
    <2>3. TicksOf(engines[end.eng].shift) \in SUBSET (DOMAIN rows)
      BY DEF TicksOf
    <2>4. seconds \in Int
      BY <2>2, <2>3, SecondsType DEF ShiftTypes
    <2>5. end' = [end EXCEPT !.pc = "commit", !.seconds = seconds]
      BY <1>5, <2>2 DEF SummarizeEnd
    <2>6. /\ end' \in [pc : {"summary", "commit", "flush"}, eng : Nat,
                       saved : Memories, found : {end'.found}, seconds : Int]
          /\ end'.eng = end.eng
      BY <2>1, <2>4, <2>5 DEF OpenEnd
    <2> QED
      BY <1>1, <1>4, <1>5, <2>6 DEF SummarizeEnd
  <1>6. CASE CommitEnd
    <2>1. OpenEnd
      BY <1>6 DEF ShiftTypes, CommitEnd
    <2>2. end' = [end EXCEPT !.pc = "flush"]
      BY <1>6 DEF CommitEnd
    <2>3. /\ end' \in [pc : {"summary", "commit", "flush"}, eng : Nat,
                       saved : Memories, found : {end'.found}, seconds : Int]
          /\ end'.eng = end.eng
      BY <2>1, <2>2 DEF OpenEnd
    <2> QED
      BY <1>1, <1>4, <1>6, <2>3 DEF CommitEnd
  <1>7. CASE RollbackEnd
    <2>1. OpenEnd
      BY <1>7 DEF ShiftTypes, RollbackEnd
    <2>2. PICK saved : saved = [e \in {end.eng} |-> end.saved]
      OBVIOUS
    <2>3. saved \in [{end.eng} -> Memories]
      BY <2>1, <2>2 DEF OpenEnd
    <2>4. engines' = Restored(saved) /\ end'.pc = "idle"
      BY <1>7, <2>2 DEF RollbackEnd, NoEnd
    <2>5. engines' \in Seq(Engines) /\ Len(engines') = Len(engines)
      BY <1>1, <2>3, <2>4, RestoredIs
    <2> QED
      BY <1>4, <1>7, <2>4, <2>5 DEF RollbackEnd
  <1>8. CASE FlushEnd
    <2>1. engines' = Flushed({end.eng}) /\ end'.pc = "idle"
      BY <1>8 DEF FlushEnd, Send, NoEnd
    <2>2. engines' \in Seq(Engines) /\ Len(engines') = Len(engines)
      BY <1>1, <2>1, FlushedIs
    <2> QED
      BY <1>4, <1>8, <2>1, <2>2 DEF FlushEnd
  <1> QED
    BY <1>2, <1>3, <1>5, <1>6, <1>7, <1>8

LEMMA TypesStop ==
    ASSUME ShiftTypes, NEW process \in BOOLEAN, Stop(process)
    PROVE  ShiftTypes'
  <1>1. /\ tick'.pc = "idle" /\ current' = 0 /\ UNCHANGED <<clock, rows>>
        /\ engines' = IF tick.pc \in {"observe", "commit"} THEN Discarded(engines) ELSE engines
        /\ end' = IF process THEN NoEnd ELSE end
    BY DEF Stop, NoTick
  <1>2. engines \in Seq(Engines)
    BY DEF ShiftTypes
  <1>3. PICK n \in Nat : /\ engines' \in Seq(Engines) /\ Len(engines') = n
                         /\ end.pc # "idle" => end.eng \in 1 .. n
    <2>1. CASE tick.pc \in {"observe", "commit"}
      BY <1>1, <1>2, <2>1, DiscardedIs
    <2>2. CASE tick.pc \notin {"observe", "commit"}
      BY <1>1, <1>2, <2>2 DEF ShiftTypes, OpenEnd
    <2> QED
      BY <2>1, <2>2
  <1>4. end'.pc # "idle" => OpenEnd'
    BY <1>1, <1>3 DEF ShiftTypes, OpenEnd, NoEnd
  <1> QED
    BY <1>1, <1>3, <1>4 DEF ShiftTypes

LEMMA TypesStep == ShiftTypes /\ [Next]_vars => ShiftTypes'
  <1> SUFFICES ASSUME ShiftTypes, [Next]_vars PROVE ShiftTypes'
    OBVIOUS
  <1>1. CASE UNCHANGED edgeVars
    BY <1>1, TypesKept DEF edgeVars, ShiftTypes
  <1>2. CASE UNCHANGED vars
    BY <1>1, <1>2 DEF vars
  <1>3. ASSUME NEW m \in summaries, ApplySummary(m) \/ DeadLetter("summary", m)
        PROVE  ShiftTypes'
    BY <1>1, <1>3 DEF ApplySummary, DeadLetter
  <1>4. ASSUME NEW m \in machines, ApplyMachines(m) \/ DeadLetter("machines", m)
        PROVE  ShiftTypes'
    BY <1>1, <1>4 DEF ApplyMachines, DeadLetter
  <1>5. ASSUME NEW kind \in {"summary", "machines"}, NEW m \in dead[kind], Retry(kind, m)
        PROVE  ShiftTypes'
    BY <1>1, <1>5 DEF Retry
  <1> QED
    BY <1>2, <1>3, <1>4, <1>5, TypesBeginTick, TypesObserveTick, TypesCommitTick,
       TypesRollbackTick, TypesFinishTick, TypesEnd, TypesStop DEF Next


-----------------------------------------------------------------------------
(***************************************************************************)
(* The hour meter.  It moves with the hours of a shift, and every value it *)
(* takes goes out in a snapshot; the newest of them is on its way to the   *)
(* edge, by the queue or out of a dead letter, unless the edge has it.     *)
(***************************************************************************)

ToEdge == machines \cup dead["machines"]
ToCloud == summaries \cup dead["summary"]

\* What is on the way between the two sides.
MeterTypes ==
    /\ hours \in [Shifts -> Int] /\ meter \in Int
    /\ DOMAIN dead = {"summary", "machines"}
    /\ \A m \in ToCloud : m.shift \in Shifts /\ m.seconds \in Int
    /\ snapshots \in Nat /\ inboxSeq \in 0 .. snapshots
    /\ \A m \in ToEdge : m.seq \in 1 .. snapshots

\* Whoever has the newest snapshot has the meter.
NewestHasMeter ==
    /\ \A m \in ToEdge : m.seq = snapshots => m.meter = meter
    /\ inboxSeq = snapshots => edgeMeter = meter
    /\ inboxSeq = snapshots \/ \E m \in ToEdge : m.seq = snapshots

MeterInv ==
    /\ ShiftTypes /\ MeterTypes /\ NewestHasMeter
    /\ meter = SumFunctionOnSet(hours, Shifts)

LEMMA MeterStart == Init => MeterInv
  <1> SUFFICES ASSUME Init PROVE MeterInv
    OBVIOUS
  <1>1. IsFiniteSet(Shifts) /\ hours = [s \in Shifts |-> 0]
    BY ShiftAssumption DEF Init
  <1>2. SumFunctionOnSet(hours, Shifts) = 0
    <2> DEFINE Good == {T \in SUBSET Shifts : SumFunctionOnSet(hours, T) = 0}
    <2>1. ASSUME NEW T \in SUBSET Shifts, \A U \in SUBSET T : U # T => U \in Good
          PROVE  T \in Good
      <3>1. CASE T = {}
        BY <3>1, SumOfNothing
      <3>2. CASE T # {}
        <4>1. IsFiniteSet(T) /\ Picked(T) \in T
          BY <1>1, <3>2, FS_Subset, PickedIsIn
        <4>2. SumFunctionOnSet(hours, T) = hours[Picked(T)] + SumFunctionOnSet(hours, T \ {Picked(T)})
          BY <3>2, <4>1, SumPicked
        <4>3. T \ {Picked(T)} \in Good
          BY <2>1, <4>1
        <4>4. hours[Picked(T)] = 0 /\ SumFunctionOnSet(hours, T \ {Picked(T)}) = 0
          BY <1>1, <4>1, <4>3
        <4> QED
          BY <4>2, <4>4
      <3> QED
        BY <3>1, <3>2
    <2> HIDE DEF Good
    <2>2. SUBSET Shifts \subseteq Good
      BY <1>1, <2>1, SubsetInduction
    <2>3. Shifts \in Good
      BY <2>2
    <2> QED
      BY <2>3 DEF Good
  <1>3. ShiftTypes
    BY TypesStart
  <1> QED
    BY <1>1, <1>2, <1>3 DEF Init, MeterInv, MeterTypes, NewestHasMeter, ToEdge, ToCloud

\* A step of the edge: the messages to the edge stand, and the one it may queue
\* is a summary of a shift.
LEMMA MeterEdge ==
    ASSUME MeterInv, UNCHANGED <<cloudVars, machines, snapshots, dead>>,
           ShiftTypes', \A m \in summaries' \ summaries : m.shift \in Shifts /\ m.seconds \in Int
    PROVE  MeterInv'
  BY DEF MeterInv, MeterTypes, NewestHasMeter, ToEdge, ToCloud, cloudVars

LEMMA MeterSame ==
    ASSUME MeterInv, UNCHANGED <<cloudVars, messageVars>>, ShiftTypes'
    PROVE  MeterInv'
  BY MeterEdge DEF messageVars

LEMMA SummaryType ==
    ASSUME ShiftTypes, NEW e \in 1 .. Len(engines), NEW seconds \in Int, Queue(e, seconds)
    PROVE  \A m \in summaries' \ summaries : m.shift \in Shifts /\ m.seconds \in Int
  <1>1. engines[e] \in Engines
    BY DEF ShiftTypes
  <1>2. engines[e].shift \in Shifts
    BY <1>1 DEF Engines
  <1> QED
    BY <1>2 DEF Queue, Summary

LEMMA MeterApplySummary ==
    ASSUME MeterInv, NEW m \in summaries, ApplySummary(m), ShiftTypes'
    PROVE  MeterInv'
  <1> DEFINE delta == m.seconds - hours[m.shift]
  <1>1. /\ m.shift \in Shifts /\ m.seconds \in Int /\ hours \in [Shifts -> Int]
        /\ meter \in Int /\ snapshots \in Nat /\ IsFiniteSet(Shifts)
    BY ShiftAssumption DEF MeterInv, MeterTypes, ToCloud
  <1>2. /\ summaries' = summaries \ {m} /\ hours' = [hours EXCEPT ![m.shift] = m.seconds]
        /\ UNCHANGED <<edgeMeter, inboxSeq, dead>>
    BY DEF ApplySummary
  <1>3. hours' \in [Shifts -> Int] /\ delta \in Int
    BY <1>1, <1>2
  <1>4. SumFunctionOnSet(hours', Shifts) = SumFunctionOnSet(hours, Shifts) + delta
    <2>1. PICK before, after : before = hours /\ after = hours'
      OBVIOUS
    <2>2. /\ \A s \in Shifts : before[s] \in Int /\ after[s] \in Int
          /\ \A s \in Shifts \ {m.shift} : before[s] = after[s]
          /\ after[m.shift] - before[m.shift] = delta
      BY <1>1, <1>2, <1>3, <2>1
    <2>3. SumFunctionOnSet(after, Shifts)
              = SumFunctionOnSet(before, Shifts) + (after[m.shift] - before[m.shift])
      <3> HIDE DEF delta
      <3>1. IsFiniteSet(Shifts) /\ m.shift \in Shifts
        BY <1>1
      <3> QED
        BY <2>2, <3>1, SumChanged
    <2> QED
      BY <2>1, <2>2, <2>3
  <1>5. \A n \in ToCloud' : n.shift \in Shifts /\ n.seconds \in Int
    BY <1>2 DEF MeterInv, MeterTypes, ToCloud
  <1>6. CASE delta = 0
    <2>1. UNCHANGED <<meter, machines, snapshots>>
      BY <1>6 DEF ApplySummary, Delta
    <2>2. SumFunctionOnSet(hours', Shifts) = meter
      <3>1. meter = SumFunctionOnSet(hours, Shifts)
        BY DEF MeterInv
      <3> QED
        BY <1>1, <1>4, <1>6, <3>1
    <2> QED
      BY <1>2, <1>3, <1>5, <2>1, <2>2 DEF MeterInv, MeterTypes, NewestHasMeter, ToEdge
  <1>7. CASE delta # 0
    <2>1. /\ meter' = meter + delta /\ snapshots' = snapshots + 1
          /\ machines' = machines \cup {[seq |-> snapshots', meter |-> meter']}
      BY <1>7 DEF ApplySummary, Delta
    <2>2. meter' = SumFunctionOnSet(hours', Shifts)
      BY <1>4, <2>1 DEF MeterInv
    <2>3. /\ ToEdge' = ToEdge \cup {[seq |-> snapshots', meter |-> meter']}
          /\ \A n \in ToEdge : n.seq \in 1 .. snapshots
          /\ inboxSeq \in 0 .. snapshots /\ inboxSeq' = inboxSeq
      BY <1>2, <2>1 DEF ToEdge, MeterInv, MeterTypes
    <2>4. /\ snapshots' \in Nat /\ inboxSeq' \in 0 .. snapshots' /\ inboxSeq' # snapshots'
          /\ \A n \in ToEdge : n.seq \in 1 .. snapshots' /\ n.seq # snapshots'
          /\ meter' \in Int
      BY <1>1, <1>3, <2>1, <2>3
    <2>5. MeterTypes'
      BY <1>2, <1>3, <1>5, <2>3, <2>4 DEF MeterInv, MeterTypes
    <2>6. NewestHasMeter'
      <3>1. PICK new : new = [seq |-> snapshots', meter |-> meter']
        OBVIOUS
      <3>2. new.seq = snapshots' /\ new.meter = meter' /\ ToEdge' = ToEdge \cup {new}
        BY <2>3, <3>1
      <3> QED
        BY <2>4, <3>2 DEF NewestHasMeter
    <2> QED
      BY <2>2, <2>5, <2>6 DEF MeterInv
  <1> QED
    BY <1>6, <1>7

\* The edge takes the snapshot it gets unless it has a newer one.
LEMMA MeterApplyMachines ==
    ASSUME MeterInv, NEW m \in machines, ApplyMachines(m), ShiftTypes'
    PROVE  MeterInv'
  <1>1. m \in ToEdge /\ m.seq \in 1 .. snapshots /\ inboxSeq \in 0 .. snapshots /\ snapshots \in Nat
    BY DEF MeterInv, MeterTypes, ToEdge
  <1>2. /\ machines' = machines \ {m}
        /\ edgeMeter' = IF inboxSeq > m.seq THEN edgeMeter ELSE m.meter
        /\ inboxSeq' = IF inboxSeq > m.seq THEN inboxSeq ELSE m.seq
        /\ UNCHANGED <<hours, meter, summaries, snapshots, dead>>
    BY DEF ApplyMachines, NewerSnapshotApplied
  <1>3. ToEdge' \subseteq ToEdge /\ ToEdge \ {m} \subseteq ToEdge' /\ ToCloud' = ToCloud
    BY <1>2 DEF ToEdge, ToCloud
  <1>4. MeterTypes'
    BY <1>1, <1>2, <1>3 DEF MeterInv, MeterTypes
  <1>5. m.seq = snapshots => m.meter = meter
    BY <1>1 DEF MeterInv, NewestHasMeter
  <1>6. inboxSeq' = snapshots' => edgeMeter' = meter'
    BY <1>1, <1>2, <1>5 DEF MeterInv, NewestHasMeter
  <1>7. inboxSeq' = snapshots' \/ \E n \in ToEdge' : n.seq = snapshots'
    <2>1. CASE m.seq = snapshots
      BY <1>1, <1>2, <2>1
    <2>2. CASE m.seq # snapshots /\ inboxSeq = snapshots
      BY <1>1, <1>2, <2>2
    <2>3. CASE m.seq # snapshots /\ inboxSeq # snapshots
      BY <1>2, <1>3, <2>3 DEF MeterInv, NewestHasMeter
    <2> QED
      BY <2>1, <2>2, <2>3
  <1>8. NewestHasMeter'
    BY <1>2, <1>3, <1>6, <1>7 DEF MeterInv, NewestHasMeter
  <1> QED
    BY <1>2, <1>4, <1>8 DEF MeterInv

\* A dead letter, and its retry, keep every message on one of the two heaps.
LEMMA MeterMoved ==
    ASSUME MeterInv, ShiftTypes', UNCHANGED <<cloudVars, snapshots>>,
           ToEdge' = ToEdge, ToCloud' = ToCloud, DOMAIN dead' = DOMAIN dead
    PROVE  MeterInv'
  BY DEF MeterInv, MeterTypes, NewestHasMeter, cloudVars

LEMMA MeterStep == MeterInv /\ [Next]_vars => MeterInv'
  <1> SUFFICES ASSUME MeterInv, [Next]_vars PROVE MeterInv'
    OBVIOUS
  <1>1. ShiftTypes /\ ShiftTypes'
    BY TypesStep DEF MeterInv
  <1>2. DOMAIN dead = {"summary", "machines"}
    BY DEF MeterInv, MeterTypes
  <1>3. ASSUME NEW s \in Shifts, NEW reading \in Readings, NEW gap \in Gaps,
               BeginTick(s, reading, gap)
        PROVE  MeterInv'
    BY <1>1, <1>3, MeterSame DEF BeginTick
  <1>4. CASE ObserveTick
    BY <1>1, <1>4, MeterSame DEF ObserveTick
  <1>5. CASE CommitTick
    <2>1. OpenTick
      BY <1>1, <1>5 DEF ShiftTypes, CommitTick
    <2>2. \A m \in summaries' \ summaries : m.shift \in Shifts /\ m.seconds \in Int
      <3>1. CASE tick.closing = {}
        BY <1>5, <3>1 DEF CommitTick
      <3>2. CASE tick.closing # {}
        <4>1. PICK e \in tick.closing : Queue(e, tick.seconds)
          BY <1>5, <3>2 DEF CommitTick
        <4>2. e \in 1 .. Len(engines) /\ tick.seconds \in Int
          BY <1>1, <2>1 DEF ShiftTypes, OpenTick
        <4> QED
          BY <1>1, <4>1, <4>2, SummaryType
      <3> QED
        BY <3>1, <3>2
    <2> QED
      BY <1>1, <1>5, <2>2, MeterEdge DEF CommitTick
  <1>6. CASE RollbackTick
    BY <1>1, <1>6, MeterSame DEF RollbackTick
  <1>7. CASE FinishTick
    BY <1>1, <1>7, MeterSame DEF FinishTick
  <1>8. CASE BeginEnd \/ EndAgain \/ SummarizeEnd
    BY <1>1, <1>8, MeterSame DEF BeginEnd, EndAgain, SummarizeEnd
  <1>9. CASE CommitEnd
    <2>1. OpenEnd
      BY <1>1, <1>9 DEF ShiftTypes, CommitEnd
    <2>2. Queue(end.eng, end.seconds) /\ end.eng \in 1 .. Len(engines) /\ end.seconds \in Int
      BY <1>9, <2>1 DEF CommitEnd, OpenEnd
    <2>3. \A m \in summaries' \ summaries : m.shift \in Shifts /\ m.seconds \in Int
      BY <1>1, <2>2, SummaryType
    <2> QED
      BY <1>1, <1>9, <2>3, MeterEdge DEF CommitEnd
  <1>10. CASE RollbackEnd \/ FlushEnd
    BY <1>1, <1>10, MeterSame DEF RollbackEnd, FlushEnd
  <1>11. ASSUME NEW process \in BOOLEAN, Stop(process)
         PROVE  MeterInv'
    BY <1>1, <1>11, MeterSame DEF Stop
  <1>12. ASSUME NEW m \in summaries, ApplySummary(m)
         PROVE  MeterInv'
    BY <1>1, <1>12, MeterApplySummary
  <1>13. ASSUME NEW m \in summaries, DeadLetter("summary", m)
         PROVE  MeterInv'
    <2>1. ToEdge' = ToEdge /\ ToCloud' = ToCloud /\ DOMAIN dead' = DOMAIN dead
      BY <1>2, <1>13 DEF DeadLetter, ToEdge, ToCloud
    <2> QED
      BY <1>1, <1>13, <2>1, MeterMoved DEF DeadLetter
  <1>14. ASSUME NEW m \in machines, ApplyMachines(m)
         PROVE  MeterInv'
    BY <1>1, <1>14, MeterApplyMachines
  <1>15. ASSUME NEW m \in machines, DeadLetter("machines", m)
         PROVE  MeterInv'
    <2>1. ToEdge' = ToEdge /\ ToCloud' = ToCloud /\ DOMAIN dead' = DOMAIN dead
      BY <1>2, <1>15 DEF DeadLetter, ToEdge, ToCloud
    <2> QED
      BY <1>1, <1>15, <2>1, MeterMoved DEF DeadLetter
  <1>16. ASSUME NEW kind \in {"summary", "machines"}, NEW m \in dead[kind], Retry(kind, m)
         PROVE  MeterInv'
    <2>1. ToEdge' = ToEdge /\ ToCloud' = ToCloud /\ DOMAIN dead' = DOMAIN dead
      BY <1>2, <1>16 DEF Retry, ToEdge, ToCloud
    <2> QED
      BY <1>1, <1>16, <2>1, MeterMoved DEF Retry
  <1>17. CASE UNCHANGED vars
    BY <1>1, <1>17, MeterSame DEF vars
  <1> QED
    BY <1>3, <1>4, <1>5, <1>6, <1>7, <1>8, <1>9, <1>10, <1>11, <1>12, <1>13, <1>14, <1>15,
       <1>16, <1>17 DEF Next

\* The cloud's hour meter is the sum of the shifts' summaries, however often
\* and in whatever order they came, and the edge has it once the machine lists
\* are through.
THEOREM MeterIsExact == Spec => []MeterExact
  <1>1. Init => MeterInv
    BY MeterStart
  <1>2. MeterInv /\ [Next]_vars => MeterInv'
    BY MeterStep
  <1>3. MeterInv => MeterExact
    <2> SUFFICES ASSUME MeterInv PROVE MeterExact
      OBVIOUS
    <2>1. DOMAIN hours = Shifts
      BY DEF MeterInv, MeterTypes
    <2>2. meter = SumFunction(hours)
      BY <2>1 DEF MeterInv, SumFunction
    <2>3. machines = {} /\ dead["machines"] = {} => edgeMeter = meter
      BY DEF MeterInv, NewestHasMeter, ToEdge
    <2> QED
      BY <2>2, <2>3 DEF MeterExact
  <1> QED
    BY <1>1, <1>2, <1>3, PTL DEF Spec

\* A nonempty set of positions has a least.
LEMMA Least ==
    ASSUME NEW n \in Nat, NEW T \in SUBSET (1 .. n), T # {}
    PROVE  \E x \in T : \A y \in T : x <= y
  <1>1. PICK U : U = {n + 1 - x : x \in T}
    OBVIOUS
  <1>2. U \in SUBSET (1 .. n) /\ U # {}
    <2>1. \A x \in T : n + 1 - x \in 1 .. n
      OBVIOUS
    <2> QED
      BY <1>1, <2>1
  <1>3. PICK u \in U : \A v \in U : v <= u
    BY <1>2, Greatest
  <1>4. PICK x \in T : u = n + 1 - x
    BY <1>1, <1>3
  <1>5. \A y \in T : n + 1 - y <= n + 1 - x
    BY <1>1, <1>3, <1>4
  <1> QED
    BY <1>4, <1>5

-----------------------------------------------------------------------------
(***************************************************************************)
(* The events a history of rows calls for, for any sequence of rows, and   *)
(* what one more row adds to them.                                         *)
(***************************************************************************)

By(rs, e) == {i \in DOMAIN rs : rs[i].by = e}

LEMMA Appended ==
    ASSUME NEW rs \in Seq(TickRows), NEW row \in TickRows
    PROVE  /\ Append(rs, row) \in Seq(TickRows) /\ Len(rs) \in Nat
           /\ DOMAIN rs = 1 .. Len(rs) /\ DOMAIN Append(rs, row) = 1 .. Len(rs) + 1
           /\ \A i \in DOMAIN rs : Append(rs, row)[i] = rs[i]
           /\ Append(rs, row)[Len(rs) + 1] = row
  OBVIOUS

\* Time passes between any two rows, and before the next.
Ordered(rs) == \A i, j \in DOMAIN rs : i < j => rs[i].at < rs[j].at
Follows(rs, row) == \A i \in DOMAIN rs : rs[i].at < row.at

\* The runs of one habit, as SpanEvents has them: where they start, the rows at
\* which they have lasted long enough.
HoldsAt(rs, e, d, i) == i \in By(rs, e) /\ Continues(d, rs[i].reading)
RunStarts(rs, e, d) == {i \in By(rs, e) : HoldsAt(rs, e, d, i) /\ ~HoldsAt(rs, e, d, i - 1)}
ReachedBy(rs, e, d, i) ==
    {j \in By(rs, e) : /\ \A k \in i .. j : HoldsAt(rs, e, d, k)
                       /\ j > i /\ rs[j].at - rs[i].at >= Limit(d)}
FirstOf(S) == CHOOSE j \in S : \A k \in S : j <= k
LongRuns(rs, e, d) == {i \in RunStarts(rs, e, d) : ReachedBy(rs, e, d, i) # {}}

Happening(kind, e, shift, start, at) ==
    [kind |-> kind, by |-> e, shift |-> shift, start |-> start, end |-> at]
SpanEventsOf(rs, e, shift, d) ==
    {Happening(d, e, shift, rs[i].at, rs[FirstOf(ReachedBy(rs, e, d, i))].at) :
        i \in LongRuns(rs, e, d)}

\* The run that is open after the last row starts at i.
OpenFrom(rs, e, d, i) == \A k \in i .. Len(rs) : HoldsAt(rs, e, d, k)

\* What a memory has of one span detector.
SpanKept(rs, e, d, span, emitted) ==
    /\ ~HoldsAt(rs, e, d, Len(rs)) => span = NoTime
    /\ HoldsAt(rs, e, d, Len(rs)) =>
          \E i \in RunStarts(rs, e, d) : OpenFrom(rs, e, d, i) /\ span = rs[i].at
    /\ emitted = {rs[i].at : i \in LongRuns(rs, e, d)}

\* At most one run is open.
LEMMA OneOpen ==
    ASSUME NEW rs \in Seq(TickRows), NEW e, NEW d,
           NEW i \in RunStarts(rs, e, d), NEW j \in RunStarts(rs, e, d),
           OpenFrom(rs, e, d, i), OpenFrom(rs, e, d, j)
    PROVE  i = j
  <1>1. Len(rs) \in Nat /\ i \in 1 .. Len(rs) /\ j \in 1 .. Len(rs)
    BY DEF RunStarts, By
  <1>2. ~HoldsAt(rs, e, d, i - 1) /\ ~HoldsAt(rs, e, d, j - 1)
    BY DEF RunStarts
  <1>3. ~(i < j)
    <2> SUFFICES ASSUME i < j PROVE FALSE
      OBVIOUS
    <2>1. j - 1 \in i .. Len(rs)
      BY <1>1
    <2> QED
      BY <1>2, <2>1 DEF OpenFrom
  <1>4. ~(j < i)
    <2> SUFFICES ASSUME j < i PROVE FALSE
      OBVIOUS
    <2>1. i - 1 \in j .. Len(rs)
      BY <1>1
    <2> QED
      BY <1>2, <2>1 DEF OpenFrom
  <1> QED
    BY <1>1, <1>3, <1>4

\* A row of the engine continues the open run, or starts one.
LEMMA RunsMore ==
    ASSUME NEW rs \in Seq(TickRows), NEW row \in TickRows, NEW d
    PROVE  LET e == row.by
               more == Append(rs, row)
               n == Len(rs) + 1
           IN  /\ By(more, e) = By(rs, e) \cup {n} /\ n \notin By(rs, e)
               /\ \A i \in 0 .. Len(rs) : HoldsAt(more, e, d, i) <=> HoldsAt(rs, e, d, i)
               /\ HoldsAt(more, e, d, n) <=> Continues(d, row.reading)
               /\ RunStarts(more, e, d) =
                     RunStarts(rs, e, d) \cup
                     (IF Continues(d, row.reading) /\ ~HoldsAt(rs, e, d, Len(rs)) THEN {n} ELSE {})
  <1>1. PICK e, more, n : e = row.by /\ more = Append(rs, row) /\ n = Len(rs) + 1
    OBVIOUS
  <1>2. /\ Len(rs) \in Nat /\ n \in Nat /\ DOMAIN rs = 1 .. Len(rs)
        /\ DOMAIN more = DOMAIN rs \cup {n} /\ n \notin DOMAIN rs /\ n - 1 = Len(rs)
        /\ \A i \in DOMAIN rs : more[i] = rs[i]
        /\ more[n] = row
    BY <1>1, Appended
  <1>3. By(more, e) = By(rs, e) \cup {n} /\ n \notin By(rs, e) /\ By(rs, e) \subseteq DOMAIN rs
    BY <1>1, <1>2 DEF By
  <1>4. \A i \in 0 .. Len(rs) : HoldsAt(more, e, d, i) <=> HoldsAt(rs, e, d, i)
    <2> TAKE i \in 0 .. Len(rs)
    <2>1. i # n
      BY <1>1, <1>2
    <2> QED
      BY <1>2, <1>3, <2>1 DEF HoldsAt
  <1>5. HoldsAt(more, e, d, n) <=> Continues(d, row.reading)
    BY <1>2, <1>3 DEF HoldsAt
  <1>6. \A i \in By(rs, e) : i \in 0 .. Len(rs) /\ i - 1 \in 0 .. Len(rs)
    BY <1>2, <1>3
  <1>7. n - 1 = Len(rs) /\ Len(rs) \in 0 .. Len(rs)
    BY <1>1, <1>2
  <1>8. RunStarts(more, e, d) =
            RunStarts(rs, e, d) \cup
            (IF Continues(d, row.reading) /\ ~HoldsAt(rs, e, d, Len(rs)) THEN {n} ELSE {})
    <2>1. \A i \in By(rs, e) : i \in RunStarts(more, e, d) <=> i \in RunStarts(rs, e, d)
      BY <1>3, <1>4, <1>6 DEF RunStarts
    <2>2. n \in RunStarts(more, e, d) <=> Continues(d, row.reading) /\ ~HoldsAt(rs, e, d, Len(rs))
      BY <1>3, <1>4, <1>5, <1>7 DEF RunStarts
    <2>3. RunStarts(more, e, d) \subseteq By(rs, e) \cup {n} /\ RunStarts(rs, e, d) \subseteq By(rs, e)
      BY <1>3 DEF RunStarts
    <2> QED
      BY <2>1, <2>2, <2>3
  <1> QED
    BY <1>1, <1>3, <1>4, <1>5, <1>8

\* A run reaches its limit at one more row if it is open there and long enough.
Reaches(rs, e, d, i, row) ==
    /\ Continues(d, row.reading) /\ OpenFrom(rs, e, d, i)
    /\ row.at - rs[i].at >= Limit(d)

LEMMA ReachedMore ==
    ASSUME NEW rs \in Seq(TickRows), NEW row \in TickRows, NEW d, NEW i \in By(rs, row.by)
    PROVE  ReachedBy(Append(rs, row), row.by, d, i) =
             ReachedBy(rs, row.by, d, i) \cup
             (IF Reaches(rs, row.by, d, i, row) THEN {Len(rs) + 1} ELSE {})
  <1>1. PICK e, more, n : e = row.by /\ more = Append(rs, row) /\ n = Len(rs) + 1
    OBVIOUS
  <1>2. /\ Len(rs) \in Nat /\ n \in Nat /\ DOMAIN rs = 1 .. Len(rs)
        /\ \A j \in DOMAIN rs : more[j] = rs[j]
        /\ more[n] = row
    BY <1>1, Appended
  <1>3. /\ By(more, e) = By(rs, e) \cup {n} /\ By(rs, e) \subseteq DOMAIN rs
        /\ \A k \in 0 .. Len(rs) : HoldsAt(more, e, d, k) <=> HoldsAt(rs, e, d, k)
        /\ HoldsAt(more, e, d, n) <=> Continues(d, row.reading)
    <2>1. By(rs, e) \subseteq DOMAIN rs
      BY DEF By
    <2> QED
      BY <1>1, <2>1, RunsMore
  <1>4. i \in 1 .. Len(rs) /\ i < n /\ more[i] = rs[i]
    BY <1>1, <1>2, <1>3
  <1>5. ASSUME NEW j \in By(rs, e)
        PROVE  j \in ReachedBy(more, e, d, i) <=> j \in ReachedBy(rs, e, d, i)
    <2>1. j \in 1 .. Len(rs) /\ more[j] = rs[j] /\ j \in By(more, e)
      BY <1>2, <1>3
    <2>2. \A k \in i .. j : k \in 0 .. Len(rs)
      BY <1>2, <1>4, <2>1
    <2> QED
      BY <1>3, <1>4, <2>1, <2>2 DEF ReachedBy
  <1>6. n \in ReachedBy(more, e, d, i) <=> Reaches(rs, e, d, i, row)
    <2>1. (\A k \in i .. n : HoldsAt(more, e, d, k)) <=>
             Continues(d, row.reading) /\ OpenFrom(rs, e, d, i)
      <3>1. i .. n = (i .. Len(rs)) \cup {n}
        BY <1>1, <1>2, <1>4
      <3>2. \A k \in i .. Len(rs) : k \in 0 .. Len(rs)
        BY <1>2, <1>4
      <3> QED
        BY <1>3, <3>1, <3>2 DEF OpenFrom
    <2> QED
      BY <1>2, <1>3, <1>4, <2>1 DEF ReachedBy, Reaches
  <1>7. ReachedBy(more, e, d, i) \subseteq By(rs, e) \cup {n} /\ ReachedBy(rs, e, d, i) \subseteq By(rs, e)
    BY <1>3 DEF ReachedBy
  <1> QED
    BY <1>1, <1>5, <1>6, <1>7

LEMMA LongRunsMore ==
    ASSUME NEW rs \in Seq(TickRows), NEW row \in TickRows, NEW d
    PROVE  LongRuns(Append(rs, row), row.by, d) =
             LongRuns(rs, row.by, d) \cup
             {i \in RunStarts(rs, row.by, d) : Reaches(rs, row.by, d, i, row)}
  <1>1. PICK e, more, n : e = row.by /\ more = Append(rs, row) /\ n = Len(rs) + 1
    OBVIOUS
  <1>2. /\ By(more, e) = By(rs, e) \cup {n}
        /\ RunStarts(more, e, d) =
             RunStarts(rs, e, d) \cup
             (IF Continues(d, row.reading) /\ ~HoldsAt(rs, e, d, Len(rs)) THEN {n} ELSE {})
    BY <1>1, RunsMore
  <1>3. ReachedBy(more, e, d, n) = {}
    <2>1. \A j \in By(more, e) : ~(j > n)
      <3>1. \A j \in By(rs, e) : j \in 1 .. Len(rs)
        BY Appended DEF By
      <3>2. Len(rs) \in Nat
        OBVIOUS
      <3> QED
        BY <1>1, <1>2, <3>1, <3>2
    <2> QED
      BY <2>1 DEF ReachedBy
  <1>4. ASSUME NEW i \in RunStarts(rs, e, d)
        PROVE  ReachedBy(more, e, d, i) # {} <=>
                 ReachedBy(rs, e, d, i) # {} \/ Reaches(rs, e, d, i, row)
    <2>1. i \in By(rs, row.by)
      BY <1>1 DEF RunStarts
    <2>2. ReachedBy(Append(rs, row), row.by, d, i) =
            ReachedBy(rs, row.by, d, i) \cup
            (IF Reaches(rs, row.by, d, i, row) THEN {Len(rs) + 1} ELSE {})
      BY <2>1, ReachedMore
    <2>3. ReachedBy(more, e, d, i) =
            ReachedBy(rs, e, d, i) \cup (IF Reaches(rs, e, d, i, row) THEN {n} ELSE {})
      BY <1>1, <2>2
    <2> QED
      BY <2>3
  <1> QED
    BY <1>1, <1>2, <1>3, <1>4 DEF LongRuns

\* A run that was long enough before was so first where it was.
LEMMA FirstStays ==
    ASSUME NEW n \in Nat, NEW S \in SUBSET (1 .. n), S # {}
    PROVE  FirstOf(S \cup {n + 1}) = FirstOf(S)
  <1>1. \E j \in S : \A k \in S : j <= k
    BY Least
  <1>2. \A j \in S : j < n + 1
    OBVIOUS
  <1>3. ASSUME NEW j
        PROVE  (j \in S /\ \A k \in S : j <= k) <=>
                  (j \in S \cup {n + 1} /\ \A k \in S \cup {n + 1} : j <= k)
    <2>1. CASE j \in S
      BY <1>2, <2>1
    <2>2. CASE j = n + 1
      BY <1>1, <1>2, <2>2
    <2> QED
      BY <2>1, <2>2
  <1> QED
    BY <1>3 DEF FirstOf

\* What the detectors make of one more row is what it adds to the history.
LEMMA SpanRow ==
    ASSUME NEW rs \in Seq(TickRows), Ordered(rs), \A i \in DOMAIN rs : rs[i].at >= 0,
           NEW row \in TickRows, NEW d \in Spans, NEW shift,
           NEW mem \in Memories,
           SpanKept(rs, row.by, d, mem.span[d], mem.emitted[d])
    PROVE  LET e == row.by
               more == Append(rs, row)
           IN  /\ SpanKept(more, e, d, Spanned(mem, row).span[d], Spanned(mem, row).emitted[d])
               /\ SpanEventsOf(more, e, shift, d) =
                     SpanEventsOf(rs, e, shift, d) \cup
                     (IF Emits(mem, d, row)
                      THEN {Happening(d, e, shift, mem.span[d], row.at)} ELSE {})
  <1>1. PICK e, more, n : e = row.by /\ more = Append(rs, row) /\ n = Len(rs) + 1
    OBVIOUS
  <1>2. PICK span, emitted : span = mem.span[d] /\ emitted = mem.emitted[d]
    OBVIOUS
  <1>3. /\ Len(rs) \in Nat /\ n \in Nat /\ DOMAIN rs = 1 .. Len(rs) /\ n - 1 = Len(rs)
        /\ Len(more) = n
        /\ \A i \in DOMAIN rs : more[i] = rs[i]
        /\ more[n] = row
    BY <1>1, Appended
  <1>4. /\ \A i \in 0 .. Len(rs) : HoldsAt(more, e, d, i) <=> HoldsAt(rs, e, d, i)
        /\ HoldsAt(more, e, d, n) <=> Continues(d, row.reading)
        /\ RunStarts(more, e, d) =
              RunStarts(rs, e, d) \cup
              (IF Continues(d, row.reading) /\ ~HoldsAt(rs, e, d, Len(rs)) THEN {n} ELSE {})
    BY <1>1, RunsMore
  <1>5. LongRuns(more, e, d) =
            LongRuns(rs, e, d) \cup {i \in RunStarts(rs, e, d) : Reaches(rs, e, d, i, row)}
    BY <1>1, LongRunsMore
  <1>6. \A i \in RunStarts(rs, e, d) : i \in By(rs, e) /\ i \in DOMAIN rs /\ i \in 1 .. Len(rs)
    BY <1>3 DEF RunStarts, By
  <1>7. /\ ~HoldsAt(rs, e, d, Len(rs)) => span = NoTime
        /\ HoldsAt(rs, e, d, Len(rs)) =>
              \E i \in RunStarts(rs, e, d) : OpenFrom(rs, e, d, i) /\ span = rs[i].at
        /\ emitted = {rs[i].at : i \in LongRuns(rs, e, d)}
    BY <1>1, <1>2 DEF SpanKept
  <1>8. \A i \in RunStarts(rs, e, d) : rs[i].at \in Int /\ rs[i].at # NoTime
    <2>1. \A i \in DOMAIN rs : rs[i] \in TickRows
      OBVIOUS
    <2> QED
      BY <1>6, <2>1 DEF TickRows, NoTime
  <1>9. \A i \in RunStarts(rs, e, d) : OpenFrom(rs, e, d, i) => HoldsAt(rs, e, d, Len(rs))
    BY <1>6 DEF OpenFrom
  <1>10. \A i \in LongRuns(rs, e, d) : i \in RunStarts(rs, e, d) /\ ReachedBy(rs, e, d, i) # {}
    BY DEF LongRuns
  <1>11. /\ Spanned(mem, row).span[d] = IF ~Continues(d, row.reading) THEN NoTime
                                       ELSE IF span = NoTime THEN row.at ELSE span
         /\ Spanned(mem, row).emitted[d] = IF Emits(mem, d, row) THEN emitted \cup {span}
                                                                 ELSE emitted
    BY <1>2 DEF Spanned, Memories
  <1>12. Emits(mem, d, row) <=> /\ Continues(d, row.reading) /\ span # NoTime
                                /\ row.at - span >= Limit(d) /\ span \notin emitted
    BY <1>2 DEF Emits
  <1>13. \A i \in LongRuns(rs, e, d) :
            more[FirstOf(ReachedBy(more, e, d, i))].at = rs[FirstOf(ReachedBy(rs, e, d, i))].at
    <2> SUFFICES ASSUME NEW i \in LongRuns(rs, e, d)
                 PROVE  more[FirstOf(ReachedBy(more, e, d, i))] = rs[FirstOf(ReachedBy(rs, e, d, i))]
      OBVIOUS
    <2>1. i \in By(rs, row.by) /\ ReachedBy(rs, e, d, i) # {}
      BY <1>1, <1>6, <1>10
    <2>2. PICK S : S = ReachedBy(rs, e, d, i)
      OBVIOUS
    <2>3. S # {} /\ S \in SUBSET (1 .. Len(rs))
      BY <1>3, <2>1, <2>2 DEF ReachedBy, By
    <2>4. ReachedBy(more, e, d, i) = S \/ ReachedBy(more, e, d, i) = S \cup {n}
      <3>1. ReachedBy(more, e, d, i) = S \cup (IF Reaches(rs, e, d, i, row) THEN {n} ELSE {})
        BY <1>1, <2>1, <2>2, ReachedMore
      <3> QED
        BY <3>1
    <2>5. FirstOf(ReachedBy(more, e, d, i)) = FirstOf(S)
      BY <1>1, <1>3, <2>3, <2>4, FirstStays
    <2>6. FirstOf(S) \in S
      BY <1>3, <2>3, Least DEF FirstOf
    <2> QED
      BY <1>3, <2>2, <2>3, <2>5, <2>6
  <1>14. CASE HoldsAt(rs, e, d, Len(rs))
    <2>1. PICK i \in RunStarts(rs, e, d) : OpenFrom(rs, e, d, i) /\ span = rs[i].at
      BY <1>7, <1>14
    <2>2. \A j \in RunStarts(rs, e, d) : OpenFrom(rs, e, d, j) => j = i
      BY <2>1, OneOpen
    <2>3. span # NoTime /\ more[i] = rs[i] /\ i \in 1 .. Len(rs) /\ i \in By(rs, row.by)
      BY <1>1, <1>3, <1>6, <1>8, <2>1
    <2>4. span \in emitted <=> i \in LongRuns(rs, e, d)
      <3>1. \A j \in LongRuns(rs, e, d) : rs[j].at = rs[i].at => j = i
        <4>1. \A j, k \in DOMAIN rs : rs[j].at = rs[k].at => ~(j < k)
          <5>1. \A j \in DOMAIN rs : rs[j].at \in Int
            <6>1. \A j \in DOMAIN rs : rs[j] \in TickRows
              OBVIOUS
            <6> QED
              BY <6>1 DEF TickRows
          <5> QED
            BY <5>1 DEF Ordered
        <4>2. \A j \in LongRuns(rs, e, d) : j \in 1 .. Len(rs) /\ j \in DOMAIN rs
          BY <1>6, <1>10
        <4> QED
          BY <1>3, <2>3, <4>1, <4>2
      <3> QED
        BY <1>7, <2>1, <3>1
    <2>5. {j \in RunStarts(rs, e, d) : Reaches(rs, e, d, j, row)} =
              IF Continues(d, row.reading) /\ row.at - span >= Limit(d) THEN {i} ELSE {}
      <3>1. \A j \in RunStarts(rs, e, d) : Reaches(rs, e, d, j, row) => j = i
        BY <2>2 DEF Reaches
      <3>2. Reaches(rs, e, d, i, row) <=> Continues(d, row.reading) /\ row.at - span >= Limit(d)
        BY <2>1 DEF Reaches
      <3> QED
        BY <3>1, <3>2
    <2>6. Emits(mem, d, row) <=> /\ Continues(d, row.reading) /\ row.at - span >= Limit(d)
                                 /\ i \notin LongRuns(rs, e, d)
      BY <1>12, <2>3, <2>4
    <2>7. LongRuns(more, e, d) = IF Emits(mem, d, row) THEN LongRuns(rs, e, d) \cup {i}
                                                       ELSE LongRuns(rs, e, d)
      BY <1>5, <2>5, <2>6
    <2>8. SpanKept(more, e, d, Spanned(mem, row).span[d], Spanned(mem, row).emitted[d])
      <3>1. Continues(d, row.reading) =>
               /\ i \in RunStarts(more, e, d) /\ Spanned(mem, row).span[d] = more[i].at
               /\ OpenFrom(more, e, d, i)
        <4> SUFFICES ASSUME Continues(d, row.reading)
                     PROVE  /\ i \in RunStarts(more, e, d)
                            /\ Spanned(mem, row).span[d] = more[i].at
                            /\ OpenFrom(more, e, d, i)
          OBVIOUS
        <4>1. OpenFrom(more, e, d, i)
          <5>1. \A k \in i .. n : k = n \/ (k \in 0 .. Len(rs) /\ k \in i .. Len(rs))
            BY <1>3, <2>3
          <5> QED
            BY <1>3, <1>4, <2>1, <5>1 DEF OpenFrom
        <4> QED
          BY <1>4, <1>11, <2>1, <2>3, <4>1
      <3>2. Spanned(mem, row).emitted[d] = {more[j].at : j \in LongRuns(more, e, d)}
        <4>1. \A j \in LongRuns(rs, e, d) : more[j] = rs[j]
          BY <1>3, <1>6, <1>10
        <4>2. {more[j].at : j \in LongRuns(rs, e, d)} = emitted
          BY <1>7, <4>1
        <4>3. {more[j].at : j \in LongRuns(rs, e, d) \cup {i}} = emitted \cup {span}
          BY <2>1, <2>3, <4>2
        <4> QED
          BY <1>11, <2>7, <4>2, <4>3
      <3> QED
        BY <1>3, <1>4, <1>11, <3>1, <3>2 DEF SpanKept
    <2>9. SpanEventsOf(more, e, shift, d) =
             SpanEventsOf(rs, e, shift, d) \cup
             (IF Emits(mem, d, row)
              THEN {Happening(d, e, shift, mem.span[d], row.at)} ELSE {})
      <3> DEFINE ev(h, j) == Happening(d, e, shift, h[j].at, h[FirstOf(ReachedBy(h, e, d, j))].at)
      <3>1. \A j \in LongRuns(rs, e, d) : ev(more, j) = ev(rs, j)
        <4>1. \A j \in LongRuns(rs, e, d) : more[j] = rs[j]
          BY <1>3, <1>6, <1>10
        <4> QED
          BY <1>13, <4>1
      <3>2. Emits(mem, d, row) => ev(more, i) = Happening(d, e, shift, span, row.at)
        <4> SUFFICES ASSUME Emits(mem, d, row)
                     PROVE  ev(more, i) = Happening(d, e, shift, span, row.at)
          OBVIOUS
        <4>1. ReachedBy(rs, e, d, i) = {}
          BY <2>6 DEF LongRuns
        <4>2. Reaches(rs, e, d, i, row)
          BY <2>1, <2>6 DEF Reaches
        <4>3. ReachedBy(more, e, d, i) = {n}
          <5>1. ReachedBy(more, e, d, i) =
                  ReachedBy(rs, e, d, i) \cup (IF Reaches(rs, e, d, i, row) THEN {n} ELSE {})
            <6>1. ReachedBy(Append(rs, row), row.by, d, i) =
                    ReachedBy(rs, row.by, d, i) \cup
                    (IF Reaches(rs, row.by, d, i, row) THEN {Len(rs) + 1} ELSE {})
              <7>1. i \in By(rs, row.by)
                BY <2>3
              <7> QED
                BY <7>1, ReachedMore
            <6> QED
              BY <1>1, <6>1
          <5> QED
            BY <4>1, <4>2, <5>1
        <4>4. FirstOf({n}) = n
          BY <1>3 DEF FirstOf
        <4> QED
          BY <1>3, <2>1, <2>3, <4>3, <4>4
      <3>3. SpanEventsOf(more, e, shift, d) = {ev(more, j) : j \in LongRuns(more, e, d)}
        BY DEF SpanEventsOf
      <3>4. SpanEventsOf(rs, e, shift, d) = {ev(rs, j) : j \in LongRuns(rs, e, d)}
        BY DEF SpanEventsOf
      <3> HIDE DEF ev
      <3>5. {ev(more, j) : j \in LongRuns(rs, e, d)} = {ev(rs, j) : j \in LongRuns(rs, e, d)}
        BY <3>1
      <3> QED
        BY <1>2, <2>7, <3>2, <3>3, <3>4, <3>5
    <2> QED
      BY <1>1, <2>8, <2>9
  <1>15. CASE ~HoldsAt(rs, e, d, Len(rs))
    <2>1. span = NoTime /\ ~Emits(mem, d, row)
      BY <1>7, <1>12, <1>15
    <2>2. LongRuns(more, e, d) = LongRuns(rs, e, d)
      BY <1>5, <1>9, <1>15 DEF Reaches
    <2>3. \A j \in LongRuns(rs, e, d) : more[j] = rs[j]
      BY <1>3, <1>6, <1>10
    <2>4. SpanKept(more, e, d, Spanned(mem, row).span[d], Spanned(mem, row).emitted[d])
      <3>1. Continues(d, row.reading) =>
               /\ n \in RunStarts(more, e, d) /\ Spanned(mem, row).span[d] = more[n].at
               /\ OpenFrom(more, e, d, n)
        <4>1. n .. n = {n}
          BY <1>3
        <4> QED
          BY <1>3, <1>4, <1>11, <1>15, <2>1, <4>1 DEF OpenFrom
      <3>2. Spanned(mem, row).emitted[d] = {more[j].at : j \in LongRuns(more, e, d)}
        BY <1>7, <1>11, <2>1, <2>2, <2>3
      <3> QED
        BY <1>3, <1>4, <1>11, <3>1, <3>2 DEF SpanKept
    <2>5. SpanEventsOf(more, e, shift, d) = SpanEventsOf(rs, e, shift, d)
      BY <1>13, <2>2, <2>3 DEF SpanEventsOf
    <2> QED
      BY <1>1, <2>1, <2>4, <2>5
  <1> QED
    BY <1>14, <1>15

\* The incidents of a history, and the n-th of them, as HabitEvents has them.
Incidents(rs, e) == {i \in By(rs, e) : rs[i].reading = "incident"}
Nth(S, n) == CHOOSE i \in S : Cardinality({j \in S : j <= i}) = n
HabitEventsOf(rs, e, shift) ==
    IF Cardinality(Incidents(rs, e)) < Repeats THEN {}
    ELSE {Happening("repeated", e, shift, rs[Nth(Incidents(rs, e), 1)].at,
                    rs[Nth(Incidents(rs, e), Repeats)].at)}

\* What a memory has of the incidents.
HabitKept(rs, e, opened, noticed) ==
    /\ Len(opened) = Cardinality(Incidents(rs, e))
    /\ Incidents(rs, e) # {} => opened[1] = rs[Nth(Incidents(rs, e), 1)].at
    /\ noticed <=> Cardinality(Incidents(rs, e)) >= Repeats

LEMMA Counts ==
    ASSUME NEW n \in Nat, NEW S \in SUBSET (1 .. n)
    PROVE  /\ IsFiniteSet(S) /\ Cardinality(S) \in Nat /\ (S = {} <=> Cardinality(S) = 0)
           /\ IsFiniteSet(S \cup {n + 1}) /\ Cardinality(S \cup {n + 1}) = Cardinality(S) + 1
  <1>1. IsFiniteSet(1 .. n)
    BY FS_Interval
  <1>2. IsFiniteSet(S)
    BY <1>1, FS_Subset
  <1>3. n + 1 \notin S
    OBVIOUS
  <1> QED
    BY <1>2, <1>3, FS_CardinalityType, FS_EmptySet, FS_AddElement

\* There is an n-th member for every n up to their number.
LEMMA NthIs ==
    ASSUME NEW n \in Nat, NEW S \in SUBSET (1 .. n), NEW m \in Nat, m >= 1, m <= Cardinality(S)
    PROVE  Nth(S, m) \in S /\ Cardinality({j \in S : j <= Nth(S, m)}) = m
  <1> DEFINE Has == {k \in Nat : \A U \in SUBSET (1 .. k) : \A i \in Nat :
                        i >= 1 /\ i <= Cardinality(U) =>
                            \E x \in U : Cardinality({j \in U : j <= x}) = i}
  <1>1. 0 \in Has
    <2>1. 1 .. 0 = {} /\ Cardinality({}) = 0
      BY FS_EmptySet
    <2>2. \A U \in SUBSET (1 .. 0) : U = {}
      BY <2>1
    <2>3. \A U \in SUBSET (1 .. 0) : \A i \in Nat : ~(i >= 1 /\ i <= Cardinality(U))
      <3> SUFFICES ASSUME NEW U \in SUBSET (1 .. 0), NEW i \in Nat
                   PROVE  ~(i >= 1 /\ i <= Cardinality(U))
        OBVIOUS
      <3>1. Cardinality(U) = 0
        BY <2>1, <2>2
      <3> QED
        BY <3>1
    <2> QED
      BY <2>3
  <1>2. ASSUME NEW k \in Has PROVE k + 1 \in Has
    <2> SUFFICES ASSUME NEW U \in SUBSET (1 .. k + 1), NEW i \in Nat,
                        i >= 1, i <= Cardinality(U)
                 PROVE  \E x \in U : Cardinality({j \in U : j <= x}) = i
      OBVIOUS
    <2>1. k \in Nat
      OBVIOUS
    <2>2. CASE k + 1 \notin U
      <3>1. U \in SUBSET (1 .. k)
        BY <2>1, <2>2
      <3> QED
        BY <3>1
    <2>3. CASE k + 1 \in U
      <3>1. PICK V : V = U \ {k + 1}
        OBVIOUS
      <3>2. V \in SUBSET (1 .. k) /\ U = V \cup {k + 1}
        BY <2>1, <2>3, <3>1
      <3>3. Cardinality(U) = Cardinality(V) + 1 /\ Cardinality(V) \in Nat
        BY <2>1, <3>2, Counts
      <3>4. CASE i = Cardinality(U)
        <4>1. {j \in U : j <= k + 1} = U
          <5>1. \A j \in U : j \in 1 .. k + 1
            OBVIOUS
          <5>2. \A j \in U : j <= k + 1
            BY <2>1, <5>1
          <5> QED
            BY <5>2
        <4> QED
          BY <2>3, <3>4, <4>1
      <3>5. CASE i # Cardinality(U)
        <4>1. i <= Cardinality(V)
          BY <3>3, <3>5
        <4>2. PICK x \in V : Cardinality({j \in V : j <= x}) = i
          BY <3>2, <4>1
        <4>3. {j \in U : j <= x} = {j \in V : j <= x}
          BY <2>1, <3>2
        <4> QED
          BY <3>2, <4>2, <4>3
      <3> QED
        BY <3>4, <3>5
    <2> QED
      BY <2>2, <2>3
  <1>3. Has = Nat
    <2>1. Has \in SUBSET Nat
      OBVIOUS
    <2> HIDE DEF Has
    <2> QED
      BY <1>1, <1>2, <2>1, Induction
  <1>4. n \in Has
    BY <1>3
  <1>5. \E x \in S : Cardinality({j \in S : j <= x}) = m
    BY <1>4
  <1> QED
    BY <1>5 DEF Nth

\* One more incident is the last; the others keep their places.
LEMMA NthMore ==
    ASSUME NEW n \in Nat, NEW S \in SUBSET (1 .. n)
    PROVE  /\ \A m \in Nat : m <= Cardinality(S) => Nth(S \cup {n + 1}, m) = Nth(S, m)
           /\ Nth(S \cup {n + 1}, Cardinality(S) + 1) = n + 1
  <1>1. PICK T, c : T = S \cup {n + 1} /\ c = Cardinality(S)
    OBVIOUS
  <1>2. c \in Nat /\ Cardinality(T) = c + 1 /\ n + 1 \notin S
    <2>1. Cardinality(S) \in Nat /\ Cardinality(S \cup {n + 1}) = Cardinality(S) + 1
      BY Counts
    <2> QED
      BY <1>1, <2>1
  <1>3. {j \in T : j <= n + 1} = T
    <2>1. \A j \in T : j <= n + 1
      BY <1>1
    <2> QED
      BY <2>1
  <1>4. \A i \in S : {j \in T : j <= i} = {j \in S : j <= i}
    BY <1>1
  <1>5. \A i \in S : Cardinality({j \in S : j <= i}) \in Nat /\ Cardinality({j \in S : j <= i}) <= c
    <2> TAKE i \in S
    <2>1. IsFiniteSet(S) /\ {j \in S : j <= i} \in SUBSET S
      BY Counts
    <2> QED
      BY <1>1, <2>1, FS_Subset, FS_CardinalityType
  <1>6. ASSUME NEW m \in Nat, m <= c PROVE Nth(T, m) = Nth(S, m)
    <2>1. \A i : (i \in T /\ Cardinality({j \in T : j <= i}) = m) <=>
                 (i \in S /\ Cardinality({j \in S : j <= i}) = m)
      <3> TAKE i
      <3>1. CASE i \in S
        BY <1>1, <1>4, <3>1
      <3>2. CASE i = n + 1
        <4>1. Cardinality({j \in T : j <= i}) = c + 1
          BY <1>2, <1>3, <3>2
        <4> QED
          BY <1>2, <1>6, <3>2, <4>1
      <3> QED
        BY <1>1, <3>1, <3>2
    <2> QED
      BY <2>1 DEF Nth
  <1>7. Nth(T, c + 1) = n + 1
    <2>1. \A i \in T : Cardinality({j \in T : j <= i}) = c + 1 <=> i = n + 1
      <3> TAKE i \in T
      <3>1. CASE i \in S
        <4>1. Cardinality({j \in T : j <= i}) # c + 1
          BY <1>2, <1>4, <1>5, <3>1
        <4> QED
          BY <1>2, <3>1, <4>1
      <3>2. CASE i = n + 1
        BY <1>2, <1>3, <3>2
      <3> QED
        BY <1>1, <3>1, <3>2
    <2>2. n + 1 \in T
      BY <1>1
    <2> QED
      BY <2>1, <2>2 DEF Nth
  <1> QED
    BY <1>1, <1>6, <1>7

\* What counting one more incident makes of a memory is what it adds.
LEMMA HabitRow ==
    ASSUME NEW rs \in Seq(TickRows), NEW row \in TickRows, NEW shift, NEW mem \in Memories,
           HabitKept(rs, row.by, mem.opened, mem.noticed)
    PROVE  LET e == row.by
               more == Append(rs, row)
               after == Counted(mem, row)
           IN  /\ HabitKept(more, e, after.opened, after.noticed)
               /\ HabitEventsOf(more, e, shift) =
                     HabitEventsOf(rs, e, shift) \cup
                     (IF after.noticed /\ ~mem.noticed
                      THEN {Happening("repeated", e, shift, after.opened[1], row.at)} ELSE {})
  <1>1. PICK e, more, n, after :
            e = row.by /\ more = Append(rs, row) /\ n = Len(rs) + 1 /\ after = Counted(mem, row)
    OBVIOUS
  <1>2. PICK S, T, c : S = Incidents(rs, e) /\ T = Incidents(more, e) /\ c = Cardinality(S)
    OBVIOUS
  <1>3. /\ Len(rs) \in Nat /\ n \in Nat /\ DOMAIN rs = 1 .. Len(rs)
        /\ DOMAIN more = DOMAIN rs \cup {n} /\ n \notin DOMAIN rs
        /\ \A i \in DOMAIN rs : more[i] = rs[i]
        /\ more[n] = row
    BY <1>1, Appended
  <1>4. /\ S \in SUBSET (1 .. Len(rs))
        /\ T = IF row.reading = "incident" THEN S \cup {n} ELSE S
    BY <1>1, <1>2, <1>3 DEF Incidents, By
  <1>5. /\ c \in Nat /\ (S = {} <=> c = 0) /\ Cardinality(S \cup {n}) = c + 1
        /\ \A m \in Nat : m <= c => Nth(S \cup {n}, m) = Nth(S, m)
        /\ Nth(S \cup {n}, c + 1) = n
    <2>1. PICK k : k = Len(rs) /\ k \in Nat /\ n = k + 1 /\ S \in SUBSET (1 .. k)
      BY <1>1, <1>3, <1>4
    <2>2. /\ Cardinality(S) \in Nat /\ (S = {} <=> Cardinality(S) = 0)
          /\ Cardinality(S \cup {k + 1}) = Cardinality(S) + 1
      BY <2>1, Counts
    <2>3. /\ \A m \in Nat : m <= Cardinality(S) => Nth(S \cup {k + 1}, m) = Nth(S, m)
          /\ Nth(S \cup {k + 1}, Cardinality(S) + 1) = k + 1
      BY <2>1, NthMore
    <2> QED
      BY <1>2, <2>1, <2>2, <2>3
  <1>6. \A m \in Nat : m >= 1 /\ m <= c => Nth(S, m) \in DOMAIN rs /\ more[Nth(S, m)] = rs[Nth(S, m)]
    BY <1>2, <1>3, <1>4, NthIs
  <1>7. /\ Len(mem.opened) = c /\ (c # 0 => mem.opened[1] = rs[Nth(S, 1)].at)
        /\ mem.noticed <=> c >= Repeats
    BY <1>1, <1>2, <1>5 DEF HabitKept
  <1>8. mem.opened \in Seq(Int) /\ mem.noticed \in BOOLEAN /\ row.at \in Int
    BY DEF Memories, TickRows
  <1>9. Repeats \in Nat /\ Repeats >= 1
    BY ShiftAssumption
  <1>10. CASE row.reading # "incident"
    <2>1. after = mem /\ T = S
      BY <1>1, <1>4, <1>10 DEF Counted
    <2>2. HabitKept(more, e, after.opened, after.noticed)
      BY <1>2, <1>5, <1>6, <1>7, <2>1 DEF HabitKept
    <2>3. HabitEventsOf(more, e, shift) = HabitEventsOf(rs, e, shift)
      <3>1. CASE c < Repeats
        BY <1>2, <2>1, <3>1 DEF HabitEventsOf
      <3>2. CASE ~(c < Repeats)
        <4>1. more[Nth(S, 1)] = rs[Nth(S, 1)] /\ more[Nth(S, Repeats)] = rs[Nth(S, Repeats)]
          BY <1>5, <1>6, <1>9, <3>2
        <4> QED
          BY <1>2, <2>1, <4>1 DEF HabitEventsOf
      <3> QED
        BY <3>1, <3>2
    <2> QED
      BY <1>1, <2>1, <2>2, <2>3
  <1>11. CASE row.reading = "incident"
    <2>1. PICK opened : opened = Append(mem.opened, row.at)
      OBVIOUS
    <2>2. /\ after.opened = opened /\ (after.noticed <=> mem.noticed \/ Len(opened) >= Repeats)
      BY <1>1, <1>11, <2>1 DEF Counted, Memories
    <2>3. /\ Len(opened) = c + 1
          /\ opened[1] = IF c = 0 THEN row.at ELSE mem.opened[1]
      BY <1>5, <1>7, <1>8, <2>1
    <2>4. T = S \cup {n} /\ Cardinality(T) = c + 1
      BY <1>4, <1>5, <1>11
    <2>5. after.noticed <=> c + 1 >= Repeats
      BY <1>5, <1>7, <1>9, <2>2, <2>3
    <2>6. more[Nth(T, 1)].at = opened[1]
      <3>1. CASE c = 0
        BY <1>3, <1>5, <2>3, <2>4, <3>1
      <3>2. CASE c # 0
        <4>1. 1 \in Nat /\ 1 <= c /\ 1 >= 1
          BY <1>5, <3>2
        <4>2. Nth(T, 1) = Nth(S, 1) /\ more[Nth(S, 1)] = rs[Nth(S, 1)]
          BY <1>5, <1>6, <2>4, <4>1
        <4> QED
          BY <1>7, <2>3, <3>2, <4>2
      <3> QED
        BY <3>1, <3>2
    <2>7. HabitKept(more, e, after.opened, after.noticed)
      BY <1>2, <2>2, <2>3, <2>4, <2>5, <2>6 DEF HabitKept
    <2>8. HabitEventsOf(more, e, shift) =
             HabitEventsOf(rs, e, shift) \cup
             (IF after.noticed /\ ~mem.noticed
              THEN {Happening("repeated", e, shift, after.opened[1], row.at)} ELSE {})
      <3>1. CASE c + 1 < Repeats
        BY <1>2, <1>5, <1>7, <1>9, <2>4, <2>5, <3>1 DEF HabitEventsOf
      <3>2. CASE c + 1 = Repeats
        <4>1. more[Nth(T, Repeats)].at = row.at
          BY <1>3, <1>5, <2>4, <3>2
        <4>2. HabitEventsOf(rs, e, shift) = {} /\ ~mem.noticed /\ after.noticed
          BY <1>2, <1>5, <1>7, <1>9, <2>5, <3>2 DEF HabitEventsOf
        <4>3. ~(Cardinality(T) < Repeats)
          BY <1>5, <2>4, <3>2
        <4> QED
          BY <1>2, <2>2, <2>6, <4>1, <4>2, <4>3 DEF HabitEventsOf
      <3>3. CASE c >= Repeats
        <4>1. /\ more[Nth(T, 1)] = rs[Nth(S, 1)]
              /\ more[Nth(T, Repeats)] = rs[Nth(S, Repeats)]
          <5>1. 1 \in Nat /\ 1 <= c /\ Repeats <= c
            BY <1>5, <1>9, <3>3
          <5>2. Nth(T, 1) = Nth(S, 1) /\ Nth(T, Repeats) = Nth(S, Repeats)
            BY <1>5, <1>9, <2>4, <5>1
          <5> QED
            BY <1>6, <1>9, <5>1, <5>2
        <4>2. ~(Cardinality(T) < Repeats) /\ ~(c < Repeats) /\ mem.noticed
          BY <1>5, <1>7, <1>9, <2>4, <3>3
        <4> QED
          BY <1>2, <4>1, <4>2 DEF HabitEventsOf
      <3> QED
        BY <1>5, <1>9, <3>1, <3>2, <3>3
    <2> QED
      BY <1>1, <2>7, <2>8
  <1> QED
    BY <1>10, <1>11

\* Two memories the seconds do not tell apart.
SameAs(mem, other) == /\ mem.engine = other.engine /\ mem.idle = other.idle
                      /\ mem.last = other.last /\ mem.ended = other.ended

\* What the tick makes of a memory.
After(mem, row) == Spanned(Measured(Counted(mem, row), row), row)

LEMMA AfterIs ==
    ASSUME NEW mem \in Memories, NEW row \in TickRows
    PROVE  LET after == After(mem, row)
           IN  /\ after \in Memories /\ SameAs(after, Measured(mem, row))
               /\ \A d \in Spans : /\ after.span[d] = Spanned(mem, row).span[d]
                                   /\ after.emitted[d] = Spanned(mem, row).emitted[d]
               /\ after.opened = Counted(mem, row).opened
               /\ after.noticed = Counted(mem, row).noticed
  <1>1. PICK counted : counted = Counted(mem, row)
    OBVIOUS
  <1>2. /\ counted \in Memories /\ counted.last = mem.last /\ counted.ended = mem.ended
        /\ counted.engine = mem.engine /\ counted.idle = mem.idle
        /\ counted.span = mem.span /\ counted.emitted = mem.emitted
    BY <1>1, CountedIs
  <1>3. PICK seconds : seconds = TickSeconds(mem, row.at)
    OBVIOUS
  <1>4. seconds = TickSeconds(counted, row.at)
    BY <1>2, <1>3 DEF TickSeconds
  <1>5. PICK measured, plain : measured = Measured(counted, row) /\ plain = Measured(mem, row)
    OBVIOUS
  <1>6. /\ plain.last = row.at /\ plain.ended = mem.ended
        /\ plain.engine = mem.engine + (IF row.reading \in Running THEN seconds ELSE 0)
        /\ plain.idle = mem.idle + (IF row.reading \in Idle THEN seconds ELSE 0)
    BY <1>3, <1>5, MeasuredIs
  <1>7. /\ measured \in Memories
        /\ measured.last = row.at /\ measured.ended = counted.ended
        /\ measured.engine = counted.engine + (IF row.reading \in Running THEN seconds ELSE 0)
        /\ measured.idle = counted.idle + (IF row.reading \in Idle THEN seconds ELSE 0)
        /\ measured.span = counted.span /\ measured.emitted = counted.emitted
        /\ measured.opened = counted.opened /\ measured.noticed = counted.noticed
    BY <1>2, <1>4, <1>5, MeasuredIs
  <1>8. SameAs(measured, plain)
    BY <1>2, <1>6, <1>7 DEF SameAs
  <1>9. PICK after, spanned : after = Spanned(measured, row) /\ spanned = Spanned(mem, row)
    OBVIOUS
  <1>10. /\ after \in Memories
         /\ after.last = measured.last /\ after.ended = measured.ended
         /\ after.engine = measured.engine /\ after.idle = measured.idle
         /\ after.opened = measured.opened /\ after.noticed = measured.noticed
         /\ \A d \in Spans :
               /\ after.span[d] = IF ~Continues(d, row.reading) THEN NoTime
                                  ELSE IF measured.span[d] = NoTime THEN row.at ELSE measured.span[d]
               /\ after.emitted[d] = IF Emits(measured, d, row)
                                     THEN measured.emitted[d] \cup {measured.span[d]}
                                     ELSE measured.emitted[d]
    BY <1>7, <1>9, SpannedIs
  <1>11. \A d \in Spans :
            /\ spanned.span[d] = IF ~Continues(d, row.reading) THEN NoTime
                                 ELSE IF mem.span[d] = NoTime THEN row.at ELSE mem.span[d]
            /\ spanned.emitted[d] = IF Emits(mem, d, row)
                                    THEN mem.emitted[d] \cup {mem.span[d]} ELSE mem.emitted[d]
    BY <1>9, SpannedIs
  <1>12. \A d \in Spans : Emits(measured, d, row) <=> Emits(mem, d, row)
    BY <1>2, <1>7 DEF Emits
  <1>13. \A d \in Spans : after.span[d] = spanned.span[d] /\ after.emitted[d] = spanned.emitted[d]
    <2> TAKE d \in Spans
    <2>1. measured.span = mem.span /\ measured.emitted = mem.emitted
      BY <1>2, <1>7
    <2>2. Emits(measured, d, row) <=> Emits(mem, d, row)
      BY <1>12
    <2>3. after.span[d] = spanned.span[d]
      BY <1>10, <1>11, <2>1
    <2>4. after.emitted[d] = spanned.emitted[d]
      BY <1>10, <1>11, <2>1, <2>2
    <2> QED
      BY <2>3, <2>4
  <1>14. SameAs(after, plain)
    BY <1>8, <1>10 DEF SameAs
  <1>15. after = After(mem, row)
    BY <1>1, <1>5, <1>9 DEF After
  <1> QED
    BY <1>1, <1>5, <1>7, <1>9, <1>10, <1>13, <1>14, <1>15

-----------------------------------------------------------------------------
\* All the events of a history, and those a memory finds at one more row.
EventsOf(rs, e, shift) ==
    HabitEventsOf(rs, e, shift) \cup UNION {SpanEventsOf(rs, e, shift, d) : d \in Spans}
FoundOf(mem, e, shift, row) ==
    {Happening(d, e, shift, mem.span[d], row.at) : d \in {d \in Spans : Emits(mem, d, row)}}
    \cup IF Counted(mem, row).noticed /\ ~mem.noticed
         THEN {Happening("repeated", e, shift, Counted(mem, row).opened[1], row.at)} ELSE {}

\* A memory of all the detectors.
HabitsKept(rs, e, mem) ==
    /\ \A d \in Spans : SpanKept(rs, e, d, mem.span[d], mem.emitted[d])
    /\ HabitKept(rs, e, mem.opened, mem.noticed)

LEMMA FoundIs ==
    \A mem, e, row : Found(mem, e, row) = FoundOf(mem, e, engines[e].shift, row)
  BY DEF Found, FoundOf, Event, Happening

LEMMA HabitsRow ==
    ASSUME NEW rs \in Seq(TickRows), Ordered(rs), \A i \in DOMAIN rs : rs[i].at >= 0,
           NEW row \in TickRows, NEW shift, NEW mem \in Memories, HabitsKept(rs, row.by, mem)
    PROVE  /\ HabitsKept(Append(rs, row), row.by, After(mem, row))
           /\ EventsOf(Append(rs, row), row.by, shift) =
                 EventsOf(rs, row.by, shift) \cup FoundOf(mem, row.by, shift, row)
  <1>1. PICK e, more, after : e = row.by /\ more = Append(rs, row) /\ after = After(mem, row)
    OBVIOUS
  <1>2. ASSUME NEW d \in Spans
        PROVE  /\ SpanKept(more, e, d, Spanned(mem, row).span[d], Spanned(mem, row).emitted[d])
               /\ SpanEventsOf(more, e, shift, d) =
                     SpanEventsOf(rs, e, shift, d) \cup
                     (IF Emits(mem, d, row)
                      THEN {Happening(d, e, shift, mem.span[d], row.at)} ELSE {})
    <2>1. SpanKept(rs, row.by, d, mem.span[d], mem.emitted[d])
      BY DEF HabitsKept
    <2> QED
      BY <1>1, <2>1, SpanRow
  <1>3. /\ HabitKept(more, e, Counted(mem, row).opened, Counted(mem, row).noticed)
        /\ HabitEventsOf(more, e, shift) =
              HabitEventsOf(rs, e, shift) \cup
              (IF Counted(mem, row).noticed /\ ~mem.noticed
               THEN {Happening("repeated", e, shift, Counted(mem, row).opened[1], row.at)} ELSE {})
    <2>1. HabitKept(rs, row.by, mem.opened, mem.noticed)
      BY DEF HabitsKept
    <2> QED
      BY <1>1, <2>1, HabitRow
  <1>4. HabitsKept(more, e, after)
    <2>1. /\ \A d \in Spans : /\ after.span[d] = Spanned(mem, row).span[d]
                              /\ after.emitted[d] = Spanned(mem, row).emitted[d]
          /\ after.opened = Counted(mem, row).opened
          /\ after.noticed = Counted(mem, row).noticed
      BY <1>1, AfterIs
    <2> QED
      BY <1>2, <1>3, <2>1 DEF HabitsKept
  <1>5. UNION {SpanEventsOf(more, e, shift, d) : d \in Spans} =
           (UNION {SpanEventsOf(rs, e, shift, d) : d \in Spans}) \cup
           {Happening(d, e, shift, mem.span[d], row.at) : d \in {d \in Spans : Emits(mem, d, row)}}
    <2> DEFINE A(d) == SpanEventsOf(more, e, shift, d)
               B(d) == SpanEventsOf(rs, e, shift, d)
               h(d) == Happening(d, e, shift, mem.span[d], row.at)
               E(d) == Emits(mem, d, row)
    <2>1. \A d \in Spans : A(d) = B(d) \cup (IF E(d) THEN {h(d)} ELSE {})
      BY <1>2
    <2> HIDE DEF A, B, h, E
    <2>2. UNION {A(d) : d \in Spans} =
            (UNION {B(d) : d \in Spans}) \cup {h(d) : d \in {d \in Spans : E(d)}}
      BY <2>1
    <2> QED
      BY <2>2 DEF A, B, h, E
  <1>6. EventsOf(more, e, shift) = EventsOf(rs, e, shift) \cup FoundOf(mem, e, shift, row)
    BY <1>3, <1>5 DEF EventsOf, FoundOf
  <1> QED
    BY <1>1, <1>4, <1>6

\* A new engine has found nothing, and nothing is expected of it.
LEMMA NoHabits ==
    ASSUME NEW rs, NEW e, By(rs, e) = {}, NEW shift
    PROVE  HabitsKept(rs, e, Fresh) /\ EventsOf(rs, e, shift) = {}
  <1>1. \A d : \A i : ~HoldsAt(rs, e, d, i)
    BY DEF HoldsAt
  <1>2. \A d : LongRuns(rs, e, d) = {}
    BY <1>1 DEF LongRuns, RunStarts
  <1>3. Incidents(rs, e) = {} /\ Cardinality(Incidents(rs, e)) = 0
    BY FS_EmptySet DEF Incidents
  <1>4. 0 < Repeats /\ ~(0 >= Repeats)
    BY ShiftAssumption
  <1>5. /\ \A d \in Spans : Fresh.span[d] = NoTime /\ Fresh.emitted[d] = {}
        /\ Len(Fresh.opened) = 0 /\ Fresh.noticed = FALSE
    BY DEF Fresh
  <1>6. HabitsKept(rs, e, Fresh)
    BY <1>1, <1>2, <1>3, <1>4, <1>5 DEF HabitsKept, SpanKept, HabitKept
  <1>7. EventsOf(rs, e, shift) = {}
    BY <1>2, <1>3, <1>4 DEF EventsOf, HabitEventsOf, SpanEventsOf
  <1> QED
    BY <1>6, <1>7

\* The events of one engine are of its habits, and end at rows it measured.
LEMMA EventsOfEngine ==
    ASSUME NEW rs \in Seq(TickRows), NEW e, NEW shift, NEW h \in EventsOf(rs, e, shift)
    PROVE  h.by = e /\ h.kind # "high_idle_ratio" /\ \E i \in DOMAIN rs : h.end = rs[i].at
  <1>1. PICK n \in Nat : n = Len(rs) /\ DOMAIN rs = 1 .. n
    OBVIOUS
  <1>2. ASSUME NEW d \in Spans, h \in SpanEventsOf(rs, e, shift, d)
        PROVE  h.by = e /\ h.kind # "high_idle_ratio" /\ \E i \in DOMAIN rs : h.end = rs[i].at
    <2>1. PICK i \in LongRuns(rs, e, d) :
             h = Happening(d, e, shift, rs[i].at, rs[FirstOf(ReachedBy(rs, e, d, i))].at)
      BY <1>2 DEF SpanEventsOf
    <2>2. PICK S : S = ReachedBy(rs, e, d, i) /\ S # {} /\ S \in SUBSET (1 .. n)
      BY <1>1 DEF LongRuns, ReachedBy, By
    <2>3. FirstOf(S) \in S
      BY <2>2, Least DEF FirstOf
    <2>4. d # "high_idle_ratio"
      BY DEF Spans
    <2> QED
      BY <1>1, <2>1, <2>2, <2>3, <2>4 DEF Happening
  <1>3. ASSUME h \in HabitEventsOf(rs, e, shift)
        PROVE  h.by = e /\ h.kind # "high_idle_ratio" /\ \E i \in DOMAIN rs : h.end = rs[i].at
    <2>1. PICK S : S = Incidents(rs, e) /\ S \in SUBSET (1 .. n)
      BY <1>1 DEF Incidents, By
    <2>2. /\ ~(Cardinality(S) < Repeats)
          /\ h = Happening("repeated", e, shift, rs[Nth(S, 1)].at, rs[Nth(S, Repeats)].at)
      BY <1>3, <2>1 DEF HabitEventsOf
    <2>3. Nth(S, Repeats) \in S
      <3>1. Cardinality(S) \in Nat
        BY <2>1, Counts
      <3>2. Repeats \in Nat /\ Repeats >= 1 /\ Repeats <= Cardinality(S)
        BY <2>2, <3>1, ShiftAssumption
      <3> QED
        BY <2>1, <3>2, NthIs
    <2> QED
      BY <1>1, <2>1, <2>2, <2>3 DEF Happening
  <1> QED
    BY <1>2, <1>3 DEF EventsOf

LEMMA FoundOfEngine ==
    ASSUME NEW mem, NEW e, NEW shift, NEW row, NEW h \in FoundOf(mem, e, shift, row)
    PROVE  h.by = e /\ h.kind # "high_idle_ratio" /\ h.end = row.at
  BY DEF FoundOf, Happening, Spans

\* A row of another engine changes nothing of the events of this one.
LEMMA OthersRow ==
    ASSUME NEW rs \in Seq(TickRows), NEW row \in TickRows, NEW e, row.by # e, NEW shift
    PROVE  EventsOf(Append(rs, row), e, shift) = EventsOf(rs, e, shift)
  <1>1. PICK more, n : more = Append(rs, row) /\ n = Len(rs)
    OBVIOUS
  <1>2. /\ n \in Nat /\ DOMAIN rs = 1 .. n /\ DOMAIN more = 1 .. n + 1
        /\ \A i \in DOMAIN rs : more[i] = rs[i]
        /\ more[n + 1] = row
    BY <1>1, Appended
  <1>3. By(more, e) = By(rs, e) /\ By(rs, e) \in SUBSET (1 .. n)
    <2>1. \A i \in 1 .. n + 1 : i \in 1 .. n \/ i = n + 1
      BY <1>2
    <2>2. 1 .. n \subseteq 1 .. n + 1
      BY <1>2
    <2> QED
      BY <1>2, <2>1, <2>2 DEF By
  <1>4. \A i \in By(rs, e) : more[i] = rs[i]
    BY <1>2, <1>3
  <1>5. \A d, i : HoldsAt(more, e, d, i) <=> HoldsAt(rs, e, d, i)
    BY <1>3, <1>4 DEF HoldsAt
  <1>6. \A d : RunStarts(more, e, d) = RunStarts(rs, e, d)
    BY <1>3, <1>5 DEF RunStarts
  <1>7. \A d : \A i \in By(rs, e) : ReachedBy(more, e, d, i) = ReachedBy(rs, e, d, i)
    BY <1>3, <1>4, <1>5 DEF ReachedBy
  <1>8. \A d : LongRuns(more, e, d) = LongRuns(rs, e, d)
    BY <1>6, <1>7 DEF LongRuns, RunStarts
  <1>9. \A d : SpanEventsOf(more, e, shift, d) = SpanEventsOf(rs, e, shift, d)
    <2> SUFFICES ASSUME NEW d
                 PROVE  SpanEventsOf(more, e, shift, d) = SpanEventsOf(rs, e, shift, d)
      OBVIOUS
    <2>1. \A i \in LongRuns(rs, e, d) :
             /\ more[i] = rs[i] /\ ReachedBy(more, e, d, i) = ReachedBy(rs, e, d, i)
             /\ more[FirstOf(ReachedBy(rs, e, d, i))] = rs[FirstOf(ReachedBy(rs, e, d, i))]
      <3> TAKE i \in LongRuns(rs, e, d)
      <3>1. i \in By(rs, e) /\ ReachedBy(rs, e, d, i) # {}
        BY DEF LongRuns, RunStarts
      <3>2. PICK S : S = ReachedBy(rs, e, d, i) /\ S # {} /\ S \in SUBSET By(rs, e)
        BY <3>1 DEF ReachedBy
      <3>3. FirstOf(S) \in S
        BY <1>2, <1>3, <3>2, Least DEF FirstOf
      <3> QED
        BY <1>4, <1>7, <3>1, <3>2, <3>3
    <2> QED
      BY <1>8, <2>1 DEF SpanEventsOf
  <1>10. HabitEventsOf(more, e, shift) = HabitEventsOf(rs, e, shift)
    <2>1. PICK S : S = Incidents(rs, e) /\ S \in SUBSET (1 .. n) /\ S \in SUBSET By(rs, e)
      BY <1>3 DEF Incidents
    <2>2. Incidents(more, e) = S
      BY <1>3, <1>4, <2>1 DEF Incidents
    <2>3. CASE Cardinality(S) < Repeats
      BY <2>1, <2>2, <2>3 DEF HabitEventsOf
    <2>4. CASE ~(Cardinality(S) < Repeats)
      <3>1. Cardinality(S) \in Nat
        BY <1>2, <2>1, Counts
      <3>2. Repeats \in Nat /\ Repeats >= 1 /\ Repeats <= Cardinality(S) /\ 1 <= Cardinality(S)
        BY <2>4, <3>1, ShiftAssumption
      <3>3. Nth(S, 1) \in S /\ Nth(S, Repeats) \in S
        <4>1. 1 \in Nat /\ 1 >= 1 /\ n \in Nat /\ S \in SUBSET (1 .. n)
          BY <1>2, <2>1
        <4>2. Nth(S, 1) \in S
          BY <3>2, <4>1, NthIs
        <4>3. Nth(S, Repeats) \in S
          BY <3>2, <4>1, NthIs
        <4> QED
          BY <4>2, <4>3
      <3>4. more[Nth(S, 1)] = rs[Nth(S, 1)] /\ more[Nth(S, Repeats)] = rs[Nth(S, Repeats)]
        BY <1>4, <2>1, <3>3
      <3> QED
        BY <2>1, <2>2, <3>4 DEF HabitEventsOf
    <2> QED
      BY <2>3, <2>4
  <1> QED
    BY <1>1, <1>9, <1>10 DEF EventsOf

-----------------------------------------------------------------------------
(***************************************************************************)
(* What an engine remembers.  A memory is committed for an engine if it    *)
(* holds what the stored rows the engine measured come to, and whether the *)
(* engine's summary was queued.                                            *)
(***************************************************************************)

LastAt(rs, among) == IF among = {} THEN NoTime ELSE rs[LastOf(among)].at
SecondsKept(rs, e, mem) == /\ mem.engine = SecondsOf(rs, By(rs, e), Running)
                           /\ mem.idle = SecondsOf(rs, By(rs, e), Idle)
AsCommitted(rs, reported, e) ==
    {mem \in Memories : /\ Nominal <= GapCap => SecondsKept(rs, e, mem)
                        /\ mem.last = LastAt(rs, By(rs, e))
                        /\ mem.ended <=> e \in reported
                        /\ HabitsKept(rs, e, mem)}

LEMMA SinceSame ==
    ASSUME NEW rs \in Seq(TickRows), NEW row \in TickRows, NEW among \in SUBSET (DOMAIN rs), NEW at
    PROVE  /\ SinceOf(Append(rs, row), among, at) = SinceOf(rs, among, at)
           /\ LastAt(Append(rs, row), among) = LastAt(rs, among)
  <1>1. among # {} => LastOf(among) \in among
    BY Appended, LastIsLast
  <1> QED
    BY <1>1, Appended DEF SinceOf, LastAt

LEMMA SecondsSame ==
    ASSUME NEW rs \in Seq(TickRows), NEW row \in TickRows, NEW among \in SUBSET (DOMAIN rs),
           NEW kinds
    PROVE  SecondsOf(Append(rs, row), among, kinds) = SecondsOf(rs, among, kinds)
  <1>1. PICK more : more = Append(rs, row)
    OBVIOUS
  <1>2. \A i \in DOMAIN rs : more[i] = rs[i]
    BY <1>1, Appended
  <1>3. PICK S : S = ReadAs(rs, among, kinds)
    OBVIOUS
  <1>4. S = ReadAs(more, among, kinds) /\ S \subseteq DOMAIN rs
    BY <1>2, <1>3 DEF ReadAs
  <1>5. \A i \in S : SinceOf(more, {j \in among : j < i}, more[i].at)
                       = SinceOf(rs, {j \in among : j < i}, rs[i].at)
    BY <1>1, <1>2, <1>4, SinceSame
  <1>6. [i \in S |-> SinceOf(more, {j \in among : j < i}, more[i].at)]
            = [i \in S |-> SinceOf(rs, {j \in among : j < i}, rs[i].at)]
    BY <1>5
  <1> QED
    BY <1>1, <1>3, <1>4, <1>6 DEF SecondsOf

\* One more row adds what it stands for.
LEMMA SecondsMore ==
    ASSUME NEW rs \in Seq(TickRows), NEW row \in TickRows, NEW among \in SUBSET (DOMAIN rs),
           NEW kinds
    PROVE  SecondsOf(Append(rs, row), among \cup {Len(rs) + 1}, kinds)
             = SecondsOf(rs, among, kinds)
               + (IF row.reading \in kinds THEN SinceOf(rs, among, row.at) ELSE 0)
  <1>1. PICK more, n, all : more = Append(rs, row) /\ n = Len(rs) + 1 /\ all = among \cup {n}
    OBVIOUS
  <1>2. /\ more \in Seq(TickRows) /\ n \in Nat /\ all \in SUBSET (DOMAIN more)
        /\ \A i \in DOMAIN rs : more[i] = rs[i] /\ i \in Nat /\ i < n
        /\ more[n] = row /\ n \notin DOMAIN rs
    BY <1>1, Appended
  <1>3. PICK S, T : S = ReadAs(rs, among, kinds) /\ T = ReadAs(more, all, kinds)
    OBVIOUS
  <1>4. S \subseteq DOMAIN rs /\ n \notin S
        /\ T = IF row.reading \in kinds THEN S \cup {n} ELSE S
    BY <1>1, <1>2, <1>3 DEF ReadAs
  <1>5. PICK f, g : /\ f = [i \in S |-> SinceOf(rs, {j \in among : j < i}, rs[i].at)]
                    /\ g = [i \in T |-> SinceOf(more, {j \in all : j < i}, more[i].at)]
    OBVIOUS
  <1>6. SecondsOf(rs, among, kinds) = SumFunctionOnSet(f, S)
    BY <1>3, <1>5 DEF SecondsOf
  <1>7. SecondsOf(more, all, kinds) = SumFunctionOnSet(g, T)
    BY <1>3, <1>5 DEF SecondsOf
  <1>8. IsFiniteSet(S) /\ \A i \in S : f[i] \in Int
    BY <1>3, <1>5, SecondsOfRows
  <1>9. IsFiniteSet(T) /\ \A i \in T : g[i] \in Int
    BY <1>2, <1>3, <1>5, SecondsOfRows
  <1>10. ASSUME NEW i \in S PROVE f[i] = g[i]
    <2>1. i \in DOMAIN rs /\ i < n /\ n \in Nat /\ i \in Nat /\ i \in T /\ more[i] = rs[i]
      BY <1>2, <1>4
    <2>2. {j \in all : j < i} = {j \in among : j < i}
      BY <1>1, <2>1
    <2>3. SinceOf(more, {j \in among : j < i}, rs[i].at) = SinceOf(rs, {j \in among : j < i}, rs[i].at)
      BY <1>1, SinceSame
    <2> QED
      BY <1>5, <2>1, <2>2, <2>3
  <1>11. SumFunctionOnSet(f, S) = SumFunctionOnSet(g, S)
    BY <1>8, <1>10, SumSame
  <1>12. CASE row.reading \in kinds
    <2>1. {j \in all : j < n} = among
      BY <1>1, <1>2
    <2>2. T = S \cup {n}
      BY <1>4, <1>12
    <2>3. g[n] = SinceOf(rs, among, row.at)
      <3>1. SinceOf(more, among, row.at) = SinceOf(rs, among, row.at)
        BY <1>1, SinceSame
      <3> QED
        BY <1>2, <1>5, <2>1, <2>2, <3>1
    <2>4. SumFunctionOnSet(g, S \cup {n}) = g[n] + SumFunctionOnSet(g, S)
      BY <1>4, <1>8, <1>9, <2>2, SumAdded
    <2>5. SumFunctionOnSet(g, S) \in Int /\ g[n] \in Int
      <3>1. \A i \in S : g[i] \in Int
        BY <1>9, <2>2
      <3> QED
        BY <1>8, <1>9, <2>2, <3>1, SumType
    <2>6. SumFunctionOnSet(g, T) = SumFunctionOnSet(g, S) + g[n]
      BY <2>2, <2>4, <2>5
    <2> QED
      BY <1>1, <1>6, <1>7, <1>11, <1>12, <2>3, <2>6
  <1>13. CASE row.reading \notin kinds
    <2>1. SumFunctionOnSet(g, T) = SumFunctionOnSet(f, S)
      BY <1>4, <1>11, <1>13
    <2>2. SumFunctionOnSet(f, S) \in Int
      BY <1>8, SumType
    <2> QED
      BY <1>1, <1>6, <1>7, <1>13, <2>1, <2>2
  <1> QED
    BY <1>12, <1>13

\* An engine that measured a row remembers it as committed once it is stored:
\* the seconds of a tick are those the stored row stands for.
LEMMA OwnRow ==
    ASSUME NEW rs \in Seq(TickRows), Ordered(rs), \A i \in DOMAIN rs : rs[i].at >= 0,
           NEW row \in TickRows, NEW reported,
           NEW mem \in AsCommitted(rs, reported, row.by)
    PROVE  After(mem, row) \in AsCommitted(Append(rs, row), reported, row.by)
  <1> DEFINE after == After(mem, row)
  <1>1. PICK T, more, n : T = By(rs, row.by) /\ more = Append(rs, row) /\ n = Len(rs) + 1
    OBVIOUS
  <1>2. /\ By(more, row.by) = T \cup {n} /\ T \in SUBSET (DOMAIN rs)
        /\ DOMAIN rs = 1 .. Len(rs) /\ Len(rs) \in Nat /\ more[n] = row /\ n \in Nat
    BY <1>1, Appended DEF By
  <1>3. /\ mem \in Memories /\ row.at \in Int
        /\ Nominal <= GapCap => /\ mem.engine = SecondsOf(rs, T, Running)
                                /\ mem.idle = SecondsOf(rs, T, Idle)
        /\ mem.last = LastAt(rs, T)
        /\ mem.ended <=> row.by \in reported
        /\ HabitsKept(rs, row.by, mem)
    BY <1>1 DEF AsCommitted, SecondsKept, TickRows
  <1>4. PICK seconds : seconds = TickSeconds(mem, row.at)
    OBVIOUS
  <1>5. /\ after \in Memories
        /\ after.last = row.at /\ after.ended = mem.ended
        /\ after.engine = mem.engine + (IF row.reading \in Running THEN seconds ELSE 0)
        /\ after.idle = mem.idle + (IF row.reading \in Idle THEN seconds ELSE 0)
    BY <1>3, <1>4, AfterIs, MeasuredIs DEF SameAs
  <1>6. Nominal <= GapCap => seconds = SinceOf(rs, T, row.at)
    <2>1. CASE T = {}
      BY <1>3, <1>4, <2>1, ShiftAssumption DEF TickSeconds, SinceOf, LastAt, AtMost
    <2>2. CASE T # {}
      <3>1. LastOf(T) \in DOMAIN rs
        BY <1>2, <2>2, LastIsLast
      <3>2. rs[LastOf(T)].at \in Int /\ rs[LastOf(T)].at >= 0
        <4>1. rs[LastOf(T)] \in TickRows
          BY <3>1
        <4> QED
          BY <3>1, <4>1 DEF TickRows
      <3>3. mem.last = rs[LastOf(T)].at /\ mem.last # NoTime
        BY <1>3, <2>2, <3>2 DEF LastAt, NoTime
      <3> QED
        BY <1>4, <2>2, <3>3 DEF TickSeconds, SinceOf
    <2> QED
      BY <2>1, <2>2
  <1>7. Nominal <= GapCap => /\ after.engine = SecondsOf(more, T \cup {n}, Running)
                             /\ after.idle = SecondsOf(more, T \cup {n}, Idle)
    BY <1>1, <1>2, <1>3, <1>5, <1>6, SecondsMore
  <1>8. LastAt(more, T \cup {n}) = row.at
    <2>1. LastOf(T \cup {n}) = n
      <3>1. PICK U : U = T \cup {n} /\ U \in SUBSET (1 .. n) /\ U # {}
        BY <1>1, <1>2
      <3>2. LastOf(U) \in U /\ n <= LastOf(U)
        BY <1>2, <3>1, LastIsLast
      <3> QED
        BY <1>2, <3>1, <3>2
    <2> QED
      BY <1>2, <2>1 DEF LastAt
  <1>9. HabitsKept(more, row.by, after)
    BY <1>1, <1>3, HabitsRow
  <1> QED
    BY <1>1, <1>2, <1>3, <1>5, <1>7, <1>8, <1>9 DEF AsCommitted, SecondsKept

\* A new engine has nothing to remember.
LEMMA NothingYet ==
    ASSUME NEW rs, NEW e, By(rs, e) = {}, NEW reported, e \notin reported
    PROVE  Fresh \in AsCommitted(rs, reported, e)
  <1>1. \A kinds : ReadAs(rs, {}, kinds) = {}
    BY DEF ReadAs
  <1>2. \A kinds : SecondsOf(rs, {}, kinds) = 0
    BY <1>1, SumOfNothing DEF SecondsOf
  <1> QED
    BY <1>2, FreshIs, NoHabits DEF AsCommitted, SecondsKept, LastAt

\* The end of a shift is committed with its summary.
LEMMA EndCommitted ==
    ASSUME NEW rs, NEW reported, NEW e, NEW mem \in AsCommitted(rs, reported, e)
    PROVE  /\ Ended(mem) \in AsCommitted(rs, reported \cup {e}, e)
           /\ \A d : d # e => AsCommitted(rs, reported \cup {d}, e) = AsCommitted(rs, reported, e)
  <1>1. /\ mem \in Memories /\ Ended(mem) \in Memories /\ Ended(mem).ended
        /\ Ended(mem).engine = mem.engine /\ Ended(mem).idle = mem.idle
        /\ Ended(mem).last = mem.last
        /\ Ended(mem).span = mem.span /\ Ended(mem).emitted = mem.emitted
        /\ Ended(mem).opened = mem.opened /\ Ended(mem).noticed = mem.noticed
    BY DEF AsCommitted, Ended, Memories
  <1> QED
    BY <1>1 DEF AsCommitted, SecondsKept, HabitsKept

Reported == {closed[i] : i \in DOMAIN closed}

\* What rows and summaries there are.
Stored ==
    /\ clock >= 0
    /\ Ordered(rows)
    /\ \A i \in DOMAIN rows : /\ rows[i].at >= 0 /\ rows[i].at <= clock
                               /\ rows[i].by \in 1 .. Len(engines)
    /\ closed \in Seq(1 .. Len(engines))
    /\ \A i, j \in DOMAIN closed : closed[i] = closed[j] => i = j
    /\ left \subseteq Reported

\* The open tick and request know what to go back to, and how far they are.
TickMemory ==
    /\ tick.pc \in {"observe", "commit"} =>
          /\ \A e \in tick.before \cup {tick.ctx} :
                tick.saved[e] \in AsCommitted(rows, Reported, e)
          /\ tick.closing = {e \in tick.before : ~tick.saved[e].ended}
          /\ tick.ctx # current => By(rows, tick.ctx) = {} /\ tick.ctx \notin Reported
          /\ tick.row.at >= 0 /\ Follows(rows, tick.row)
    /\ tick.pc = "observe" => /\ engines[tick.ctx].mem = tick.saved[tick.ctx]
                              /\ tick.row.at >= clock
    /\ tick.pc = "commit" => /\ engines[tick.ctx].mem = After(tick.saved[tick.ctx], tick.row)
                             /\ tick.row.at <= clock
    /\ tick.pc = "finish" => /\ engines[tick.ctx].mem \in AsCommitted(rows, Reported, tick.ctx)
                             /\ tick.before \subseteq Reported

EndMemory ==
    /\ end.pc \in {"summary", "commit"} =>
          /\ end.saved \in AsCommitted(rows, Reported, end.eng) /\ ~end.saved.ended
          /\ engines[end.eng].mem = Ended(end.saved)
    /\ end.pc = "flush" => engines[end.eng].mem \in AsCommitted(rows, Reported, end.eng)
    /\ end.pc # "idle" => current \in {0, end.eng}

MemoryInv ==
    /\ ShiftTypes /\ Stored
    /\ tick.pc = "idle" \/ end.pc = "idle"
    /\ Settled /\ current # 0 => engines[current].mem \in AsCommitted(rows, Reported, current)
    /\ TickMemory /\ EndMemory

LEMMA MemoryStart == Init => MemoryInv
  <1> SUFFICES ASSUME Init PROVE MemoryInv
    OBVIOUS
  <1>1. /\ rows = <<>> /\ closed = <<>> /\ left = {} /\ clock = 0 /\ current = 0
        /\ tick.pc = "idle" /\ end.pc = "idle"
    BY DEF Init, NoTick, NoEnd
  <1>2. DOMAIN rows = {} /\ closed \in Seq(1 .. Len(engines)) /\ DOMAIN closed = {}
    BY <1>1
  <1>3. Stored
    BY <1>1, <1>2 DEF Stored, Ordered
  <1> QED
    BY <1>1, <1>3, TypesStart DEF MemoryInv, TickMemory, EndMemory

\* What was committed stays as it is while no row and no summary is added.
LEMMA ReportedKept == UNCHANGED closed => UNCHANGED Reported
  BY DEF Reported

LEMMA StoredKept ==
    ASSUME Stored, ShiftTypes, UNCHANGED <<rows, closed>>, clock' \in Int, clock' >= clock, left' \subseteq Reported,
           Len(engines) \in Nat, Len(engines') \in Nat, Len(engines) <= Len(engines')
    PROVE  Stored'
  <1>1. Reported' = Reported /\ 1 .. Len(engines) \subseteq 1 .. Len(engines')
    BY ReportedKept
  <1>2. closed' \in Seq(1 .. Len(engines'))
    <2>1. \A i \in DOMAIN closed : closed[i] \in 1 .. Len(engines')
      BY <1>1 DEF Stored
    <2> QED
      BY <2>1 DEF Stored
  <1>3. /\ clock' >= 0
        /\ \A i \in DOMAIN rows : /\ rows[i].at >= 0 /\ rows[i].at <= clock'
                                   /\ rows[i].by \in 1 .. Len(engines')
    <2>1. clock \in Int /\ \A i \in DOMAIN rows : rows[i] \in TickRows
      BY DEF ShiftTypes
    <2>2. \A i \in DOMAIN rows : rows[i].at \in Int
      BY <2>1 DEF TickRows
    <2> QED
      BY <1>1, <2>1, <2>2 DEF Stored
  <1> QED
    BY <1>1, <1>2, <1>3 DEF Stored

LEMMA MemoryBeginTick ==
    ASSUME MemoryInv, NEW shift \in Shifts, NEW reading \in Readings, NEW gap \in Gaps,
           BeginTick(shift, reading, gap), Serial, ShiftTypes'
    PROVE  MemoryInv'
  <1> DEFINE all == WithContext(shift)
             ctx == Context(shift)
             before == Previous(shift)
             closing == {e \in before : Closes(e)}
             found == UNION {HighIdleRatio(engines[e].mem, e, clock + gap) : e \in closing}
  <1>1. /\ engines \in Seq(Engines) /\ current \in 0 .. Len(engines) /\ clock \in Int /\ clock >= 0
        /\ gap \in Int /\ gap >= 1 /\ Len(engines) \in Nat /\ ShiftTypes /\ Stored
    BY ShiftAssumption DEF MemoryInv, ShiftTypes, Stored
  <1>2. /\ all \in Seq(Engines) /\ ctx \in 1 .. Len(all) /\ Len(all) \in Nat
        /\ Len(all) = IF Changes(shift) THEN Len(engines) + 1 ELSE Len(engines)
        /\ \A e \in 1 .. Len(engines) : all[e] = engines[e]
        /\ Changes(shift) => ctx = Len(all) /\ all[ctx].mem = Fresh
        /\ Changes(shift) <=> ctx # current
        /\ before = IF current # 0 /\ ctx # current THEN {current} ELSE {}
    BY <1>1, ContextIs
  <1>3. /\ tick.pc = "idle" /\ end.pc = "idle" /\ UNCHANGED <<clock, rows, closed, current, end, left>>
    BY DEF BeginTick
  <1>4. tick' = [pc |-> "observe", ctx |-> ctx, before |-> before, closing |-> closing,
                 saved |-> [e \in before \cup {ctx} |-> all[e].mem],
                 found |-> found, seconds |-> 0,
                 row |-> [shift |-> shift, at |-> clock + gap, reading |-> reading,
                          by |-> ctx]]
    BY DEF BeginTick
  <1>5. engines' = [e \in DOMAIN all |-> IF e \in closing
                                         THEN Remember(e, Ended(engines[e].mem), found) ELSE all[e]]
    BY DEF BeginTick
  <1>6. closing = {e \in before : ~engines[e].mem.ended}
    BY DEF Closes
  <1> HIDE DEF all, ctx, before, closing, found
  <1>7. DOMAIN all = 1 .. Len(all) /\ Len(engines') = Len(all) /\ Len(engines) <= Len(all)
    <2>1. DOMAIN all = 1 .. Len(all)
      BY <1>2
    <2>2. DOMAIN engines' = 1 .. Len(all)
      BY <1>5, <2>1
    <2>3. engines' \in Seq(Engines)
      BY DEF ShiftTypes
    <2> QED
      BY <1>1, <1>2, <2>1, <2>2, <2>3
  <1>8. Stored'
    BY <1>1, <1>2, <1>3, <1>7, StoredKept DEF Stored
  <1>9. Reported' = Reported
    BY <1>3, ReportedKept
  <1>10. ctx # current => By(rows, ctx) = {} /\ ctx \notin Reported /\ all[ctx].mem = Fresh
    <2> SUFFICES ASSUME ctx # current
                 PROVE  By(rows, ctx) = {} /\ ctx \notin Reported /\ all[ctx].mem = Fresh
      OBVIOUS
    <2>1. ctx = Len(engines) + 1 /\ ctx \notin 1 .. Len(engines) /\ all[ctx].mem = Fresh
      BY <1>1, <1>2
    <2> QED
      BY <1>1, <2>1 DEF By, Stored, Reported
  <1>11. \A e \in before \cup {ctx} : all[e].mem \in AsCommitted(rows, Reported, e)
    <2>1. current # 0 => engines[current].mem \in AsCommitted(rows, Reported, current)
      BY <1>3 DEF MemoryInv, Settled
    <2>2. current # 0 => all[current] = engines[current]
      BY <1>1, <1>2
    <2>3. ctx # 0
      BY <1>2
    <2>4. CASE ctx # current
      BY <1>2, <1>10, <2>1, <2>2, <2>4, NothingYet
    <2>5. CASE ctx = current
      BY <1>2, <2>1, <2>2, <2>3, <2>5
    <2> QED
      BY <2>4, <2>5
  <1>12. /\ \A e \in before : all[e] = engines[e]
         /\ ctx \notin closing
    BY <1>1, <1>2, <1>6
  <1>13. engines'[ctx].mem = all[ctx].mem
    BY <1>2, <1>5, <1>7, <1>12
  <1>14. /\ tick'.pc = "observe" /\ tick'.ctx = ctx /\ tick'.before = before
         /\ tick'.closing = closing /\ tick'.row.at = clock + gap
         /\ \A e \in before \cup {ctx} : tick'.saved[e] = all[e].mem
    BY <1>4
  <1>15. clock + gap >= 0 /\ clock + gap >= clock /\ Follows(rows, tick'.row)
    <2>1. \A i \in DOMAIN rows : rows[i] \in TickRows
      BY <1>1 DEF ShiftTypes
    <2>2. \A i \in DOMAIN rows : rows[i].at \in Int /\ rows[i].at <= clock
      BY <1>1, <2>1 DEF TickRows, Stored
    <2> QED
      BY <1>1, <1>14, <2>2 DEF Follows
  <1>16. closing = {e \in before : ~tick'.saved[e].ended}
    BY <1>6, <1>12, <1>14
  <1>17. TickMemory'
    BY <1>3, <1>9, <1>10, <1>11, <1>13, <1>14, <1>15, <1>16 DEF TickMemory
  <1>18. EndMemory'
    BY <1>3 DEF EndMemory
  <1> QED
    BY <1>3, <1>8, <1>14, <1>17, <1>18 DEF MemoryInv, Settled

LEMMA MemoryObserveTick ==
    ASSUME MemoryInv, ObserveTick, ShiftTypes'
    PROVE  MemoryInv'
  <1>1. /\ OpenTick /\ engines \in Seq(Engines) /\ Stored /\ TickMemory /\ tick.pc = "observe"
        /\ ShiftTypes /\ end.pc = "idle" /\ Len(engines) \in Nat
    BY DEF MemoryInv, ShiftTypes, ObserveTick
  <1>2. PICK e, row, mem : e = tick.ctx /\ row = tick.row /\ mem = engines[e].mem
    OBVIOUS
  <1>3. PICK found, after : /\ found = Found(mem, e, row)
                           /\ after = Spanned(Measured(Counted(mem, row), row), row)
    OBVIOUS
  <1>4. /\ engines' = [engines EXCEPT ![e] = Remember(e, after, found)]
        /\ clock' = row.at /\ UNCHANGED <<rows, closed, left, current, end>>
        /\ tick'.pc = "commit"
        /\ tick'.saved = tick.saved /\ tick'.ctx = e /\ tick'.row = row
        /\ tick'.before = tick.before /\ tick'.closing = tick.closing
    BY <1>1, <1>2, <1>3 DEF ObserveTick, OpenTick
  <1>5. e \in 1 .. Len(engines) /\ row \in TickRows /\ engines[e] \in Engines
    BY <1>1, <1>2 DEF OpenTick
  <1>6. mem \in Memories
    BY <1>2, <1>5 DEF Engines
  <1>7. after = After(mem, row)
    BY <1>3 DEF After
  <1>8. engines'[e].mem = after /\ Len(engines') = Len(engines)
    <2>1. [engines[e] EXCEPT !.mem = after, !.effects = @ \cup found].mem = after
      BY <1>5 DEF Engines
    <2> QED
      BY <1>1, <1>4, <1>5, <2>1 DEF Remember
  <1>9. mem = tick.saved[e] /\ row.at >= 0 /\ row.at >= clock /\ row.at \in Int /\ Follows(rows, row)
    BY <1>1, <1>2, <1>5 DEF TickMemory, TickRows
  <1>10. Stored'
    BY <1>1, <1>4, <1>8, <1>9, StoredKept DEF Stored
  <1>11. Reported' = Reported
    BY <1>4, ReportedKept
  <1>12. TickMemory'
    BY <1>1, <1>2, <1>4, <1>7, <1>8, <1>9, <1>11 DEF TickMemory
  <1>13. EndMemory'
    BY <1>1, <1>4 DEF EndMemory
  <1> QED
    BY <1>1, <1>4, <1>10, <1>12, <1>13 DEF MemoryInv, Settled

\* A summary is added for an engine that had none.
LEMMA ReportAdded ==
    ASSUME Stored, NEW e \in 1 .. Len(engines), e \notin Reported, closed' = Append(closed, e)
    PROVE  /\ Reported' = Reported \cup {e} /\ closed' \in Seq(1 .. Len(engines))
           /\ \A i, j \in DOMAIN closed' : closed'[i] = closed'[j] => i = j
  <1>1. PICK n \in Nat : n = Len(closed) + 1 /\ closed \in Seq(1 .. Len(engines))
    BY DEF Stored
  <1>2. /\ closed' \in Seq(1 .. Len(engines)) /\ DOMAIN closed' = DOMAIN closed \cup {n}
        /\ closed'[n] = e /\ \A i \in DOMAIN closed : closed'[i] = closed[i]
    BY <1>1
  <1> QED
    BY <1>2 DEF Stored, Reported

LEMMA MemoryCommitTick ==
    ASSUME MemoryInv, CommitTick, ShiftTypes'
    PROVE  MemoryInv'
  <1>1. /\ OpenTick /\ rows \in Seq(TickRows) /\ Stored /\ TickMemory /\ tick.pc = "commit"
        /\ end.pc = "idle" /\ Len(engines) \in Nat /\ engines \in Seq(Engines)
    BY DEF MemoryInv, ShiftTypes, CommitTick
  <1>2. /\ rows' = Append(rows, tick.row) /\ UNCHANGED <<clock, engines, current, end, left>>
        /\ tick'.pc = "finish" /\ tick'.ctx = tick.ctx /\ tick'.before = tick.before
    BY <1>1 DEF CommitTick, OpenTick
  <1>3. PICK e, row, mem : e = tick.ctx /\ row = tick.row /\ mem = engines[e].mem
    OBVIOUS
  <1>4. /\ row.by = e /\ e \in 1 .. Len(engines) /\ row \in TickRows /\ row.at >= 0
        /\ mem \in Memories
    <2>1. engines[e] \in Engines
      BY <1>1, <1>3 DEF OpenTick
    <2> QED
      BY <1>1, <1>3, <2>1 DEF OpenTick, TickMemory, Engines
  <1>5. mem \in AsCommitted(rows', Reported, e)
    <2>1. PICK before : before = tick.saved[e]
      OBVIOUS
    <2>2. before \in AsCommitted(rows, Reported, row.by) /\ mem = After(before, row)
      BY <1>1, <1>3, <1>4, <2>1 DEF TickMemory
    <2>3. Ordered(rows) /\ \A i \in DOMAIN rows : rows[i].at >= 0
      BY <1>1 DEF Stored
    <2> QED
      BY <1>1, <1>2, <1>3, <1>4, <2>2, <2>3, OwnRow
  <1>6. \A d \in tick.before : d \notin tick.closing => d \in Reported
    BY <1>1 DEF TickMemory, AsCommitted
  <1>7. /\ Reported' = Reported \cup tick.closing /\ closed' \in Seq(1 .. Len(engines))
        /\ \A i, j \in DOMAIN closed' : closed'[i] = closed'[j] => i = j
        /\ tick.before \subseteq Reported'
    <2>1. CASE tick.closing = {}
      <3>1. closed' = closed
        BY <2>1 DEF CommitTick
      <3>2. Reported' = Reported
        BY <3>1, ReportedKept
      <3> QED
        BY <1>1, <1>6, <2>1, <3>1, <3>2 DEF Stored
    <2>2. CASE tick.closing # {}
      <3>1. PICK d \in tick.closing : Queue(d, tick.seconds)
        BY <2>2 DEF CommitTick
      <3>2. d \in tick.before /\ tick.before = {d} /\ tick.closing = {d}
            /\ d \in 1 .. Len(engines)
        BY <1>1 DEF OpenTick, ShiftTypes, MemoryInv
      <3>3. d \notin Reported
        BY <1>1, <3>1, <3>2 DEF TickMemory, AsCommitted
      <3>4. closed' = Append(closed, d)
        BY <3>1 DEF Queue
      <3>5. /\ Reported' = Reported \cup {d} /\ closed' \in Seq(1 .. Len(engines))
            /\ \A i, j \in DOMAIN closed' : closed'[i] = closed'[j] => i = j
        BY <1>1, <3>2, <3>3, <3>4, ReportAdded
      <3> QED
        BY <3>2, <3>5
    <2> QED
      BY <2>1, <2>2
  <1>8. mem \in AsCommitted(rows', Reported', e)
    <2>1. CASE tick.closing = {}
      BY <1>5, <1>7, <2>1
    <2>2. CASE tick.closing # {}
      <3>1. PICK d : tick.closing = {d} /\ d # e
        <4>1. tick.closing \subseteq {current} /\ (tick.closing # {} => current # e)
          BY <1>1, <1>3 DEF OpenTick
        <4>2. tick.closing = {current} /\ current # e
          BY <2>2, <4>1
        <4> QED
          BY <4>2
      <3>2. PICK rs, reported : rs = rows' /\ reported = Reported
        OBVIOUS
      <3>3. AsCommitted(rs, reported \cup {d}, e) = AsCommitted(rs, reported, e)
        BY <1>5, <3>1, <3>2, EndCommitted
      <3> QED
        BY <1>5, <1>7, <3>1, <3>2, <3>3
    <2> QED
      BY <2>1, <2>2
  <1>9. Stored'
    <2>1. /\ \A i \in DOMAIN rows' : /\ rows'[i].at >= 0 /\ rows'[i].at <= clock
                                      /\ rows'[i].by \in 1 .. Len(engines)
          /\ Ordered(rows')
      <3>1. PICK n : n = Len(rows) + 1
        OBVIOUS
      <3>2. /\ DOMAIN rows' = DOMAIN rows \cup {n} /\ rows'[n] = row
            /\ \A i \in DOMAIN rows : rows'[i] = rows[i]
        BY <1>1, <1>2, <1>3, <1>4, <3>1, Appended
      <3>3. row.at <= clock /\ Follows(rows, row)
        BY <1>1, <1>3 DEF TickMemory
      <3>4. \A i \in DOMAIN rows' : /\ rows'[i].at >= 0 /\ rows'[i].at <= clock
                                     /\ rows'[i].by \in 1 .. Len(engines)
        BY <1>1, <1>4, <3>2, <3>3 DEF Stored
      <3>5. Ordered(rows')
        <4>1. \A i \in DOMAIN rows : i \in 1 .. Len(rows) /\ i < n /\ ~(n < i)
          BY <1>1, <3>1
        <4>2. ~(n < n)
          BY <1>1, <3>1
        <4> QED
          BY <1>1, <3>2, <3>3, <4>1, <4>2 DEF Stored, Ordered, Follows
      <3> QED
        BY <3>4, <3>5
    <2>2. left' \subseteq Reported'
      BY <1>1, <1>2, <1>7 DEF Stored
    <2> QED
      BY <1>1, <1>2, <1>7, <2>1, <2>2 DEF Stored
  <1>10. TickMemory'
    BY <1>2, <1>3, <1>7, <1>8 DEF TickMemory
  <1>11. EndMemory'
    BY <1>1, <1>2 DEF EndMemory
  <1> QED
    BY <1>1, <1>2, <1>9, <1>10, <1>11 DEF MemoryInv, Settled

\* A tick that did not commit leaves no row and no summary of a new engine.
LEMMA StoredWithout ==
    ASSUME Stored, ShiftTypes, TickMemory, tick.pc \in {"observe", "commit"},
           UNCHANGED <<clock, rows, closed, left>>,
           Len(engines') = IF tick.ctx # current THEN Len(engines) - 1 ELSE Len(engines)
    PROVE  Stored'
  <1>1. OpenTick /\ Len(engines) \in Nat /\ rows \in Seq(TickRows)
    BY DEF ShiftTypes
  <1>2. Reported' = Reported
    BY ReportedKept
  <1>3. CASE tick.ctx = current
    BY <1>2, <1>3 DEF Stored
  <1>4. CASE tick.ctx # current
    <2>1. PICK n : n = Len(engines)
      OBVIOUS
    <2>2. /\ n \in Nat /\ tick.ctx = n /\ Len(engines') = n - 1
          /\ By(rows, n) = {} /\ n \notin Reported
      BY <1>1, <1>4, <2>1 DEF OpenTick, TickMemory
    <2>3. \A i \in DOMAIN rows : rows[i].by \in 1 .. n - 1
      <3>1. \A i \in DOMAIN rows : rows[i].by \in 1 .. n /\ rows[i].by # n
        BY <2>1, <2>2 DEF Stored, By
      <3> QED
        BY <2>2, <3>1
    <2>4. closed \in Seq(1 .. n - 1)
      <3>1. \A i \in DOMAIN closed : closed[i] \in 1 .. n /\ closed[i] # n
        BY <2>1, <2>2 DEF Stored, Reported
      <3>2. \A i \in DOMAIN closed : closed[i] \in 1 .. n - 1
        BY <2>2, <3>1
      <3>3. Len(closed) \in Nat /\ closed \in [1 .. Len(closed) -> 1 .. n - 1]
        <4>1. closed \in Seq(1 .. Len(engines))
          BY DEF Stored
        <4>2. Len(closed) \in Nat /\ DOMAIN closed = 1 .. Len(closed)
              /\ closed = [i \in DOMAIN closed |-> closed[i]]
          BY <4>1
        <4> QED
          BY <3>2, <4>2
      <3> QED
        BY <3>3, SeqOfFunction
    <2> QED
      BY <1>2, <2>2, <2>3, <2>4 DEF Stored
  <1> QED
    BY <1>3, <1>4

LEMMA MemoryRollbackTick ==
    ASSUME MemoryInv, RollbackTick, ShiftTypes'
    PROVE  MemoryInv'
  <1>1. /\ OpenTick /\ Stored /\ TickMemory /\ tick.pc \in {"observe", "commit"} /\ ShiftTypes
        /\ end.pc = "idle" /\ Len(engines) \in Nat /\ engines \in Seq(Engines)
        /\ current \in 0 .. Len(engines)
    BY DEF MemoryInv, ShiftTypes, RollbackTick
  <1>2. /\ engines' = Discarded(Restored(tick.saved)) /\ tick'.pc = "idle"
        /\ UNCHANGED <<clock, rows, closed, left, current, end>>
    BY DEF RollbackTick, NoTick
  <1>3. PICK D, saved, back : D = tick.before \cup {tick.ctx} /\ saved = tick.saved
                             /\ back = Restored(saved)
    OBVIOUS
  <1>4. saved \in [D -> Memories]
    BY <1>1, <1>3 DEF OpenTick
  <1>5. /\ back \in Seq(Engines) /\ Len(back) = Len(engines)
        /\ \A e \in 1 .. Len(engines) :
              back[e].mem = IF e \in D THEN saved[e] ELSE engines[e].mem
    BY <1>1, <1>3, <1>4, RestoredIs
  <1>6. PICK n : n = IF tick.ctx # current THEN Len(engines) - 1 ELSE Len(engines)
    OBVIOUS
  <1>7. /\ Len(engines') = n /\ current \in 0 .. n /\ n \in Nat
        /\ \A e \in 1 .. n : engines'[e] = back[e]
    BY <1>1, <1>2, <1>3, <1>5, <1>6, DiscardedIs
  <1>8. Stored'
    BY <1>1, <1>2, <1>6, <1>7, StoredWithout
  <1>9. Reported' = Reported
    BY <1>2, ReportedKept
  <1>10. current # 0 => engines'[current].mem \in AsCommitted(rows, Reported, current)
    <2> SUFFICES ASSUME current # 0
                 PROVE  engines'[current].mem \in AsCommitted(rows, Reported, current)
      OBVIOUS
    <2>1. current \in D
      BY <1>1, <1>3 DEF OpenTick
    <2>2. engines'[current].mem = saved[current]
      BY <1>1, <1>5, <1>7, <2>1
    <2> QED
      BY <1>1, <1>3, <2>1, <2>2 DEF TickMemory
  <1>11. TickMemory' /\ EndMemory'
    BY <1>1, <1>2 DEF TickMemory, EndMemory
  <1> QED
    BY <1>1, <1>2, <1>8, <1>9, <1>10, <1>11 DEF MemoryInv, Settled

LEMMA MemoryFinishTick ==
    ASSUME MemoryInv, FinishTick, ShiftTypes'
    PROVE  MemoryInv'
  <1>1. /\ OpenTick /\ Stored /\ TickMemory /\ tick.pc = "finish" /\ ShiftTypes
        /\ end.pc = "idle" /\ Len(engines) \in Nat /\ engines \in Seq(Engines)
    BY DEF MemoryInv, ShiftTypes, FinishTick
  <1>2. PICK ids : ids = tick.before \cup {tick.ctx}
    OBVIOUS
  <1>3. /\ engines' = Flushed(ids) /\ tick'.pc = "idle" /\ current' = tick.ctx
        /\ left' = left \cup tick.before /\ UNCHANGED <<clock, rows, closed, end>>
    BY <1>2 DEF FinishTick, Send, NoTick
  <1>4. Len(engines') = Len(engines) /\ \A e \in 1 .. Len(engines) : engines'[e].mem = engines[e].mem
    BY <1>1, <1>3, FlushedIs
  <1>5. Reported' = Reported
    BY <1>3, ReportedKept
  <1>6. left' \subseteq Reported
    BY <1>1, <1>3 DEF Stored, TickMemory
  <1>7. Stored'
    <2>1. clock' \in Int /\ clock' >= clock /\ Len(engines') \in Nat /\ Len(engines) <= Len(engines')
      BY <1>1, <1>3, <1>4 DEF ShiftTypes
    <2>2. UNCHANGED <<rows, closed>>
      BY <1>3
    <2> QED
      BY <1>1, <1>6, <2>1, <2>2, StoredKept
  <1>8. engines'[current'].mem \in AsCommitted(rows', Reported', current')
    BY <1>1, <1>3, <1>4, <1>5 DEF OpenTick, TickMemory
  <1>9. TickMemory' /\ EndMemory'
    BY <1>1, <1>3 DEF TickMemory, EndMemory
  <1> QED
    BY <1>1, <1>3, <1>7, <1>8, <1>9 DEF MemoryInv, Settled

LEMMA MemoryEnd ==
    ASSUME MemoryInv, Serial, ShiftTypes',
           BeginEnd \/ EndAgain \/ SummarizeEnd \/ CommitEnd \/ RollbackEnd \/ FlushEnd
    PROVE  MemoryInv'
  <1>1. /\ Stored /\ TickMemory /\ EndMemory /\ ShiftTypes /\ Len(engines) \in Nat
        /\ engines \in Seq(Engines) /\ current \in 0 .. Len(engines)
    BY DEF MemoryInv, ShiftTypes
  <1>2. tick.pc = "idle" /\ UNCHANGED <<clock, rows, current, tick, left>>
    BY DEF MemoryInv, BeginEnd, EndAgain, SummarizeEnd, CommitEnd, RollbackEnd, FlushEnd
  <1>3. ASSUME Len(engines') = Len(engines), UNCHANGED closed
        PROVE  Stored' /\ TickMemory' /\ Reported' = Reported
    BY <1>1, <1>2, <1>3, StoredKept, ReportedKept DEF Stored, TickMemory
  <1>4. CASE BeginEnd
    <2>1. PICK mem, found : mem = engines[current].mem /\ found = HighIdleRatio(mem, current, clock)
      OBVIOUS
    <2>2. /\ end' = [pc |-> "summary", eng |-> current, saved |-> mem, found |-> found,
                     seconds |-> 0]
          /\ engines' = [engines EXCEPT ![current] = Remember(current, Ended(mem), found)]
          /\ current # 0 /\ end.pc = "idle" /\ ~mem.ended /\ UNCHANGED closed
      BY <1>4, <2>1 DEF BeginEnd, Closes
    <2>3. current \in 1 .. Len(engines) /\ engines[current] \in Engines
      BY <1>1, <2>2
    <2>4. engines'[current].mem = Ended(mem) /\ Len(engines') = Len(engines)
      <3>1. Remember(current, Ended(mem), found).mem = Ended(mem)
        BY <2>3 DEF Remember, Engines
      <3> QED
        BY <1>1, <2>2, <2>3, <3>1
    <2>5. mem \in AsCommitted(rows, Reported, current)
      BY <1>2, <2>1, <2>2 DEF MemoryInv, Settled
    <2>6. Stored' /\ TickMemory' /\ Reported' = Reported
      BY <1>3, <2>2, <2>4
    <2>7. EndMemory'
      BY <1>2, <2>2, <2>4, <2>5, <2>6 DEF EndMemory
    <2> QED
      BY <1>2, <2>2, <2>6, <2>7 DEF MemoryInv, Settled
  <1>5. CASE EndAgain
    <2>1. PICK ids : ids = {current} /\ engines' = Flushed(ids) /\ UNCHANGED <<closed, end>>
                     /\ end.pc = "idle"
      BY <1>5 DEF EndAgain, Send
    <2>2. Len(engines') = Len(engines)
          /\ \A e \in 1 .. Len(engines) : engines'[e].mem = engines[e].mem
      BY <1>1, <2>1, FlushedIs
    <2>3. Stored' /\ TickMemory' /\ Reported' = Reported
      BY <1>3, <2>1, <2>2
    <2>4. current # 0 => engines'[current].mem \in AsCommitted(rows, Reported, current)
      <3>1. current # 0 => engines[current].mem \in AsCommitted(rows, Reported, current)
        BY <1>2, <2>1 DEF MemoryInv, Settled
      <3>2. current # 0 => current \in 1 .. Len(engines)
        BY <1>1
      <3> QED
        BY <2>2, <3>1, <3>2
    <2>5. EndMemory'
      BY <2>1 DEF EndMemory
    <2> QED
      BY <1>2, <2>1, <2>3, <2>4, <2>5 DEF MemoryInv, Settled
  <1>6. CASE SummarizeEnd
    <2>1. OpenEnd /\ end.pc = "summary"
      BY <1>6 DEF SummarizeEnd, MemoryInv, ShiftTypes
    <2>2. /\ end'.pc = "commit" /\ end'.saved = end.saved /\ end'.eng = end.eng
          /\ UNCHANGED <<engines, closed>>
      BY <1>6, <2>1 DEF SummarizeEnd, OpenEnd
    <2>3. Stored' /\ TickMemory' /\ Reported' = Reported
      BY <1>3, <2>2
    <2>4. EndMemory'
      BY <1>1, <1>2, <2>1, <2>2, <2>3 DEF EndMemory
    <2> QED
      BY <1>2, <2>2, <2>3, <2>4 DEF MemoryInv, Settled
  <1>7. CASE CommitEnd
    <2>1. OpenEnd /\ end.pc = "commit"
      BY <1>7 DEF CommitEnd, MemoryInv, ShiftTypes
    <2>2. PICK e, saved : e = end.eng /\ saved = end.saved
      OBVIOUS
    <2>3. /\ end'.pc = "flush" /\ end'.eng = e /\ UNCHANGED engines
          /\ closed' = Append(closed, e)
      BY <1>7, <2>1, <2>2 DEF CommitEnd, OpenEnd, Queue
    <2>4. /\ e \in 1 .. Len(engines) /\ saved \in AsCommitted(rows, Reported, e) /\ ~saved.ended
          /\ engines[e].mem = Ended(saved) /\ current \in {0, e}
      BY <1>1, <2>1, <2>2 DEF OpenEnd, EndMemory
    <2>5. e \notin Reported
      BY <2>4 DEF AsCommitted
    <2>6. /\ Reported' = Reported \cup {e} /\ closed' \in Seq(1 .. Len(engines))
          /\ \A i, j \in DOMAIN closed' : closed'[i] = closed'[j] => i = j
      BY <1>1, <2>3, <2>4, <2>5, ReportAdded
    <2>7. engines[e].mem \in AsCommitted(rows, Reported', e)
      <3>1. PICK rs, reported : rs = rows /\ reported = Reported
        OBVIOUS
      <3>2. Ended(saved) \in AsCommitted(rs, reported \cup {e}, e)
        BY <2>4, <3>1, EndCommitted
      <3> QED
        BY <2>4, <2>6, <3>1, <3>2
    <2>8. Stored'
      BY <1>1, <1>2, <2>3, <2>6 DEF Stored
    <2>9. TickMemory'
      BY <1>2 DEF TickMemory
    <2>10. EndMemory'
      BY <1>2, <2>3, <2>4, <2>7 DEF EndMemory
    <2> QED
      BY <1>2, <2>3, <2>8, <2>9, <2>10 DEF MemoryInv, Settled
  <1>8. CASE RollbackEnd
    <2>1. OpenEnd /\ end.pc \in {"summary", "commit"}
      BY <1>8 DEF RollbackEnd, MemoryInv, ShiftTypes
    <2>2. PICK e, back : e = end.eng /\ back = [d \in {e} |-> end.saved]
      OBVIOUS
    <2>3. engines' = Restored(back) /\ end'.pc = "idle" /\ UNCHANGED closed
      BY <1>8, <2>2 DEF RollbackEnd, NoEnd
    <2>4. PICK D : D = {e} /\ back \in [D -> Memories]
      BY <2>1, <2>2 DEF OpenEnd
    <2>5. /\ Len(engines') = Len(engines) /\ e \in 1 .. Len(engines)
          /\ engines'[e].mem = end.saved
      <3>1. /\ Len(engines') = Len(engines)
            /\ \A d \in 1 .. Len(engines) :
                  engines'[d].mem = IF d \in D THEN back[d] ELSE engines[d].mem
        BY <1>1, <2>3, <2>4, RestoredIs
      <3> QED
        BY <2>1, <2>2, <2>4, <3>1 DEF OpenEnd
    <2>6. Stored' /\ TickMemory' /\ Reported' = Reported
      BY <1>3, <2>3, <2>5
    <2>7. current # 0 => engines'[current].mem \in AsCommitted(rows, Reported, current)
      BY <1>1, <2>1, <2>2, <2>5 DEF EndMemory
    <2>8. EndMemory'
      BY <2>3 DEF EndMemory
    <2> QED
      BY <1>2, <2>3, <2>6, <2>7, <2>8 DEF MemoryInv, Settled
  <1>9. CASE FlushEnd
    <2>1. OpenEnd /\ end.pc = "flush"
      BY <1>9 DEF FlushEnd, MemoryInv, ShiftTypes
    <2>2. PICK ids : ids = {end.eng} /\ engines' = Flushed(ids) /\ UNCHANGED closed
                     /\ end'.pc = "idle"
      BY <1>9 DEF FlushEnd, Send, NoEnd
    <2>3. Len(engines') = Len(engines)
          /\ \A e \in 1 .. Len(engines) : engines'[e].mem = engines[e].mem
      BY <1>1, <2>2, FlushedIs
    <2>4. Stored' /\ TickMemory' /\ Reported' = Reported
      BY <1>3, <2>2, <2>3
    <2>5. current # 0 => engines'[current].mem \in AsCommitted(rows, Reported, current)
      BY <1>1, <2>1, <2>3 DEF EndMemory
    <2>6. EndMemory'
      BY <2>2 DEF EndMemory
    <2> QED
      BY <1>2, <2>2, <2>4, <2>5, <2>6 DEF MemoryInv, Settled
  <1> QED
    BY <1>4, <1>5, <1>6, <1>7, <1>8, <1>9

LEMMA MemoryStop ==
    ASSUME MemoryInv, NEW process \in BOOLEAN, Stop(process), ShiftTypes'
    PROVE  MemoryInv'
  <1>1. /\ Stored /\ TickMemory /\ EndMemory /\ ShiftTypes /\ Len(engines) \in Nat
        /\ engines \in Seq(Engines)
    BY DEF MemoryInv, ShiftTypes
  <1>2. /\ tick'.pc = "idle" /\ current' = 0 /\ UNCHANGED <<clock, rows, closed, left>>
        /\ engines' = IF tick.pc \in {"observe", "commit"} THEN Discarded(engines) ELSE engines
        /\ end' = IF process THEN NoEnd ELSE end
    BY DEF Stop, NoTick
  <1>3. Reported' = Reported
    BY <1>2, ReportedKept
  <1>4. TickMemory'
    BY <1>2 DEF TickMemory
  <1>5. CASE tick.pc \in {"observe", "commit"}
    <2>1. engines' = Discarded(engines) /\ end'.pc = "idle"
      BY <1>2, <1>5 DEF MemoryInv, NoEnd
    <2>2. Len(engines') = IF tick.ctx # current THEN Len(engines) - 1 ELSE Len(engines)
      BY <1>1, <1>5, <2>1, DiscardedIs
    <2>3. Stored'
      BY <1>1, <1>2, <1>5, <2>2, StoredWithout
    <2>4. EndMemory'
      BY <2>1 DEF EndMemory
    <2> QED
      BY <1>2, <1>4, <2>3, <2>4 DEF MemoryInv
  <1>6. CASE tick.pc \notin {"observe", "commit"}
    <2>1. engines' = engines
      BY <1>2, <1>6
    <2>2. Stored'
      BY <1>1, <1>2, <1>3, <2>1 DEF Stored
    <2>3. EndMemory'
      BY <1>1, <1>2, <1>3, <2>1 DEF EndMemory, NoEnd
    <2> QED
      BY <1>2, <1>4, <2>2, <2>3 DEF MemoryInv
  <1> QED
    BY <1>5, <1>6

\* The messages touch nothing an engine remembers.
LEMMA MemorySame ==
    ASSUME MemoryInv, UNCHANGED edgeVars, ShiftTypes'
    PROVE  MemoryInv'
  <1>1. Reported' = Reported
    BY ReportedKept DEF edgeVars
  <1> QED
    BY <1>1 DEF MemoryInv, Stored, TickMemory, EndMemory, Settled, edgeVars

LEMMA MemoryStep ==
    ASSUME Serial, MemoryInv, [Next]_vars
    PROVE  MemoryInv'
  <1>1. ShiftTypes'
    BY TypesStep DEF MemoryInv
  <1>2. ASSUME NEW m \in summaries, ApplySummary(m) \/ DeadLetter("summary", m)
        PROVE  MemoryInv'
    BY <1>1, <1>2, MemorySame DEF ApplySummary, DeadLetter
  <1>3. ASSUME NEW m \in machines, ApplyMachines(m) \/ DeadLetter("machines", m)
        PROVE  MemoryInv'
    BY <1>1, <1>3, MemorySame DEF ApplyMachines, DeadLetter
  <1>4. ASSUME NEW kind \in {"summary", "machines"}, NEW m \in dead[kind], Retry(kind, m)
        PROVE  MemoryInv'
    BY <1>1, <1>4, MemorySame DEF Retry
  <1>5. CASE UNCHANGED vars
    BY <1>1, <1>5, MemorySame DEF vars
  <1> QED
    BY <1>1, <1>2, <1>3, <1>4, <1>5, MemoryBeginTick, MemoryObserveTick, MemoryCommitTick,
       MemoryRollbackTick, MemoryFinishTick, MemoryEnd, MemoryStop DEF Next

\* An engine is reported at most once, and once if it was reported.
LEMMA ClosingsAre ==
    ASSUME Stored, NEW e
    PROVE  Closings(e) = IF e \in Reported THEN 1 ELSE 0
  <1>1. PICK S : S = {i \in DOMAIN closed : closed[i] = e}
    OBVIOUS
  <1>2. CASE e \in Reported
    <2>1. PICK i \in DOMAIN closed : closed[i] = e
      BY <1>2 DEF Reported
    <2>2. S = {i}
      BY <1>1, <2>1 DEF Stored
    <2> QED
      BY <1>1, <1>2, <2>2, FS_Singleton DEF Closings
  <1>3. CASE e \notin Reported
    <2>1. S = {}
      BY <1>1, <1>3 DEF Reported
    <2> QED
      BY <1>1, <1>3, <2>1, FS_EmptySet DEF Closings
  <1> QED
    BY <1>2, <1>3

\* Between transactions that do not overlap, what the engine remembers is what
\* was committed, whatever was rolled back before: the seconds it measured are
\* those of the stored rows, measured as the summary measures them, and it
\* believes its shift ended exactly if the one summary was queued.  The first
\* tick counts as a nominal one, uncapped in behavior/engine.py and capped in
\* shift_summary.py; the settings have 1 second and a cap of 5.
THEOREM MemoryIsCommitted ==
    Serial /\ Nominal <= GapCap => (Spec => []MemoryCommitted)
  <1> SUFFICES ASSUME Serial, Nominal <= GapCap
               PROVE  Spec => []MemoryCommitted
    OBVIOUS
  <1>1. Init => MemoryInv
    BY MemoryStart
  <1>2. MemoryInv /\ [Next]_vars => MemoryInv'
    BY MemoryStep
  <1>3. MemoryInv => MemoryCommitted
    <2> SUFFICES ASSUME MemoryInv, Settled PROVE SecondsAgree /\ ClosedOnce
      BY DEF MemoryCommitted
    <2>1. Stored /\ (current # 0 => engines[current].mem \in AsCommitted(rows, Reported, current))
      BY DEF MemoryInv
    <2>2. SecondsAgree
      <3>1. RowsBy(current) = By(rows, current)
        BY DEF RowsBy, By
      <3> QED
        BY <2>1, <3>1, SecondsAre DEF SecondsAgree, AsCommitted, SecondsKept
    <2>3. \A e : Closings(e) = IF e \in Reported THEN 1 ELSE 0
      BY <2>1, ClosingsAre
    <2>4. \A e \in left : e \in Reported
      BY <2>1 DEF Stored
    <2>5. current # 0 => engines[current].mem.ended = (current \in Reported)
      <3>1. current # 0 => engines[current].mem.ended \in BOOLEAN
        BY <2>1 DEF AsCommitted, Memories
      <3> QED
        BY <2>1, <3>1 DEF AsCommitted
    <2>6. ClosedOnce
      BY <2>3, <2>4, <2>5 DEF ClosedOnce
    <2> QED
      BY <2>2, <2>6
  <1> QED
    BY <1>1, <1>2, <1>3, PTL DEF Spec

-----------------------------------------------------------------------------
(***************************************************************************)
(* The events on record.  Those of an engine's habits are the ones its     *)
(* stored rows call for; a high idle ratio is of an engine that reported   *)
(* its shift.  What the open transaction found is not on record yet.       *)
(***************************************************************************)

IsRatio(h) == h.kind = "high_idle_ratio"
OnRecord == {events[i] : i \in DOMAIN events}

\* What the open transaction found, and the engine whose shift it closes.
Pending == IF tick.pc \in {"observe", "commit"} THEN tick.found
           ELSE IF end.pc \in {"summary", "commit"} THEN end.found ELSE {}
Closing == IF tick.pc \in {"observe", "commit"} THEN tick.closing
           ELSE IF end.pc \in {"summary", "commit"} THEN {end.eng} ELSE {}

\* The engines something will still be sent for.
Live == {e \in 1 .. Len(engines) : \/ e = current
                                   \/ tick.pc # "idle" /\ e \in tick.before \cup {tick.ctx}
                                   \/ end.pc # "idle" /\ e = end.eng}

Listed == /\ events \in Seq(Happenings)
          /\ \A i, j \in DOMAIN events : events[i] = events[j] => i = j

HabitsOf(known, e) == {h \in known : h.by = e /\ ~IsRatio(h)}
Recorded ==
    /\ \A e \in 1 .. Len(engines) : HabitsOf(OnRecord, e) = EventsOf(rows, e, engines[e].shift)
    /\ \A h \in OnRecord : /\ h.by \in 1 .. Len(engines)
                           /\ IsRatio(h) => h.by \in Reported
    /\ \A h, g \in OnRecord : IsRatio(h) /\ IsRatio(g) /\ h.by = g.by => h = g

\* The tick finds habits when it measures, and the close of a shift one ratio.
Awaited ==
    /\ Pending \subseteq Happenings
    /\ {h \in Pending : ~IsRatio(h)} =
          IF tick.pc = "commit"
          THEN FoundOf(tick.saved[tick.ctx], tick.ctx, engines[tick.ctx].shift, tick.row) ELSE {}
    /\ \A h, g \in Pending : IsRatio(h) /\ IsRatio(g) => h = g
    /\ \A h \in Pending : IsRatio(h) => h.by \in Closing

\* Effects are of events on record, or of those the open transaction adds.
Sendable ==
    /\ announced \subseteq OnRecord
    /\ \A e \in Live : engines[e].effects \subseteq OnRecord \cup Pending

EventInv == Listed /\ Recorded /\ Awaited /\ Sendable

\* SetToSeq lists every member once.
LEMMA OnceEach ==
    ASSUME NEW S, IsFiniteSet(S)
    PROVE  LET s == SetToSeq(S)
           IN  /\ s \in Seq(S) /\ {s[i] : i \in DOMAIN s} = S
               /\ \A i, j \in DOMAIN s : s[i] = s[j] => i = j
  <1>1. PICK n : n = Cardinality(S)
    OBVIOUS
  <1>2. n \in Nat /\ ExistsBijection(1 .. n, S)
    BY <1>1, FS_CardinalityType
  <1>3. PICK g : g \in Bijection(1 .. n, S)
    BY <1>2 DEF ExistsBijection
  <1>4. g \in [1 .. n -> S] /\ IsInjective(g)
    BY <1>3 DEF Bijection, Injection
  <1>5. PICK s : s = SetToSeq(S)
    OBVIOUS
  <1>6. s \in [1 .. n -> S] /\ IsInjective(s)
    BY <1>1, <1>4, <1>5 DEF SetToSeq
  <1>7. IsFiniteSet(1 .. n) /\ Cardinality(1 .. n) = n
    BY <1>2, FS_Interval
  <1>8. PICK T : T = 1 .. n
    OBVIOUS
  <1>9. s \in Injection(T, S)
    BY <1>6, <1>8 DEF Injection
  <1>10. s \in Surjection(T, S)
    BY <1>1, <1>7, <1>8, <1>9, FS_Injection
  <1>11. {s[i] : i \in DOMAIN s} = S
    BY <1>6, <1>8, <1>10 DEF Surjection
  <1>12. s \in Seq(S)
    BY <1>2, <1>6
  <1> QED
    BY <1>5, <1>6, <1>11, <1>12 DEF IsInjective

\* What is added to a list that does not have it is listed once.
LEMMA Persisted ==
    ASSUME Listed, NEW found \in SUBSET Happenings, IsFiniteSet(found), found \cap OnRecord = {},
           Persist(found)
    PROVE  Listed' /\ OnRecord' = OnRecord \cup found
  <1>1. PICK s : s = SetToSeq(found)
    OBVIOUS
  <1>2. /\ s \in Seq(found) /\ {s[i] : i \in DOMAIN s} = found
        /\ \A i, j \in DOMAIN s : s[i] = s[j] => i = j
    BY <1>1, OnceEach
  <1>3. PICK m, n : m = Len(events) /\ n = Len(s)
    OBVIOUS
  <1>4. /\ events \in Seq(Happenings) /\ DOMAIN events = 1 .. m /\ DOMAIN s = 1 .. n
        /\ m \in Nat /\ n \in Nat /\ s \in Seq(Happenings)
    <2>1. s \in Seq(Happenings)
      BY <1>2
    <2> QED
      BY <1>3, <2>1 DEF Listed
  <1>5. events' = events \o s
    BY <1>1 DEF Persist
  <1>6. /\ events' \in Seq(Happenings) /\ DOMAIN events' = 1 .. m + n
        /\ \A i \in 1 .. m : events'[i] = events[i]
        /\ \A i \in 1 .. n : events'[m + i] = s[i]
        /\ \A k \in 1 .. m + n : k \in 1 .. m \/ (k - m \in 1 .. n /\ events'[k] = s[k - m])
    BY <1>3, <1>4, <1>5
  <1>7. OnRecord' = OnRecord \cup found
    <2>1. OnRecord' = {events'[k] : k \in 1 .. m + n}
      BY <1>6 DEF OnRecord
    <2>2. OnRecord = {events[i] : i \in 1 .. m} /\ found = {s[i] : i \in 1 .. n}
      BY <1>2, <1>4 DEF OnRecord
    <2>3. \A i \in 1 .. m : i \in 1 .. m + n
      BY <1>4
    <2>4. \A i \in 1 .. n : m + i \in 1 .. m + n
      BY <1>4
    <2>5. OnRecord' \subseteq OnRecord \cup found
      BY <1>6, <2>1, <2>2
    <2>6. OnRecord \subseteq OnRecord' /\ found \subseteq OnRecord'
      BY <1>6, <2>1, <2>2, <2>3, <2>4
    <2> QED
      BY <2>5, <2>6
  <1>8. ASSUME NEW i \in DOMAIN events', NEW j \in DOMAIN events', events'[i] = events'[j]
        PROVE  i = j
    <2>1. i \in 1 .. m + n /\ j \in 1 .. m + n
      BY <1>6, <1>8
    <2>2. ASSUME NEW a \in 1 .. m, NEW b \in 1 .. n PROVE events[a] # s[b]
      <3>1. events[a] \in OnRecord /\ s[b] \in found
        BY <1>2, <1>4 DEF OnRecord
      <3> QED
        BY <3>1
    <2>3. CASE i \in 1 .. m /\ j \in 1 .. m
      BY <1>4, <1>6, <1>8, <2>3 DEF Listed
    <2>4. CASE i \in 1 .. m /\ j \notin 1 .. m
      BY <1>6, <1>8, <2>1, <2>2, <2>4
    <2>5. CASE i \notin 1 .. m /\ j \in 1 .. m
      BY <1>6, <1>8, <2>1, <2>2, <2>5
    <2>6. CASE i \notin 1 .. m /\ j \notin 1 .. m
      <3>1. i - m \in 1 .. n /\ j - m \in 1 .. n /\ s[i - m] = s[j - m]
        BY <1>6, <1>8, <2>1, <2>6
      <3>2. i - m = j - m
        BY <1>2, <1>4, <3>1
      <3> QED
        BY <1>4, <2>1, <3>2
    <2> QED
      BY <2>3, <2>4, <2>5, <2>6
  <1> QED
    BY <1>6, <1>7, <1>8 DEF Listed

\* A tick finds one event of each habit at most, and a transaction one ratio.
LEMMA PendingFinite ==
    ASSUME Awaited
    PROVE  IsFiniteSet(Pending)
  <1>1. PICK mem, e, shift, row : /\ mem = tick.saved[tick.ctx] /\ e = tick.ctx
                                  /\ shift = engines[tick.ctx].shift /\ row = tick.row
    OBVIOUS
  <1>2. PICK a, b, c : /\ a = Happening("excessive_idling", e, shift, mem.span["excessive_idling"], row.at)
                       /\ b = Happening("high_rpm_travel", e, shift, mem.span["high_rpm_travel"], row.at)
                       /\ c = Happening("repeated", e, shift, Counted(mem, row).opened[1], row.at)
    OBVIOUS
  <1>3. FoundOf(mem, e, shift, row) \subseteq {a, b, c}
    BY <1>2 DEF FoundOf, Spans
  <1>4. {h \in Pending : ~IsRatio(h)} \subseteq {a, b, c}
    BY <1>1, <1>3 DEF Awaited
  <1>5. \E z : {h \in Pending : IsRatio(h)} \subseteq {z}
    <2>1. CASE {h \in Pending : IsRatio(h)} = {}
      BY <2>1
    <2>2. CASE {h \in Pending : IsRatio(h)} # {}
      <3>1. PICK z \in Pending : IsRatio(z)
        BY <2>2
      <3>2. \A h \in Pending : IsRatio(h) => h = z
        BY <3>1 DEF Awaited
      <3> QED
        BY <3>2
    <2> QED
      BY <2>1, <2>2
  <1>6. PICK z : {h \in Pending : IsRatio(h)} \subseteq {z}
    BY <1>5
  <1>7. Pending \subseteq {a, b, c, z}
    BY <1>4, <1>6
  <1>8. IsFiniteSet({a, b, c, z})
    <2>1. IsFiniteSet({a})
      BY FS_Singleton
    <2>2. IsFiniteSet({a} \cup {b})
      BY <2>1, FS_AddElement
    <2>3. IsFiniteSet(({a} \cup {b}) \cup {c})
      BY <2>2, FS_AddElement
    <2>4. IsFiniteSet((({a} \cup {b}) \cup {c}) \cup {z})
      BY <2>3, FS_AddElement
    <2>5. (({a} \cup {b}) \cup {c}) \cup {z} = {a, b, c, z}
      OBVIOUS
    <2> QED
      BY <2>4, <2>5
  <1> QED
    BY <1>7, <1>8, FS_Subset

\* The shift an open transaction closes is not reported yet.
LEMMA ClosingOpen ==
    ASSUME MemoryInv
    PROVE  /\ Closing \cap Reported = {}
           /\ \A c, d \in Closing : c = d
  <1>1. CASE tick.pc \in {"observe", "commit"}
    <2>1. OpenTick /\ TickMemory /\ Closing = tick.closing
      BY <1>1 DEF MemoryInv, ShiftTypes, Closing
    <2>2. tick.closing \subseteq {current} /\ tick.closing \subseteq tick.before
      BY <2>1 DEF OpenTick
    <2>3. \A e \in tick.closing : tick.saved[e] \in AsCommitted(rows, Reported, e) /\ ~tick.saved[e].ended
      BY <1>1, <2>1 DEF TickMemory
    <2> QED
      BY <2>1, <2>2, <2>3 DEF AsCommitted
  <1>2. CASE tick.pc \notin {"observe", "commit"} /\ end.pc \in {"summary", "commit"}
    <2>1. end.saved \in AsCommitted(rows, Reported, end.eng) /\ ~end.saved.ended
      BY <1>2 DEF MemoryInv, EndMemory
    <2>2. Closing = {end.eng}
      BY <1>2 DEF Closing
    <2> QED
      BY <2>1, <2>2 DEF AsCommitted
  <1>3. CASE tick.pc \notin {"observe", "commit"} /\ end.pc \notin {"summary", "commit"}
    BY <1>3 DEF Closing
  <1> QED
    BY <1>1, <1>2, <1>3

\* No open transaction finds what is on record already.
LEMMA PendingNew ==
    ASSUME MemoryInv, Recorded, Awaited
    PROVE  Pending \cap OnRecord = {}
  <1> SUFFICES ASSUME NEW h \in Pending, h \in OnRecord PROVE FALSE
    OBVIOUS
  <1>1. CASE IsRatio(h)
    BY <1>1, ClosingOpen DEF Recorded, Awaited
  <1>2. CASE ~IsRatio(h)
    <2>1. PICK mem, shift : mem = tick.saved[tick.ctx] /\ shift = engines[tick.ctx].shift
      OBVIOUS
    <2>2. tick.pc = "commit" /\ h \in FoundOf(mem, tick.ctx, shift, tick.row)
      BY <1>2, <2>1 DEF Awaited
    <2>3. h.by = tick.ctx /\ h.end = tick.row.at
      BY <2>2, FoundOfEngine
    <2>4. tick.ctx \in 1 .. Len(engines) /\ rows \in Seq(TickRows) /\ Follows(rows, tick.row)
          /\ tick.row.at \in Int
      BY <2>2 DEF MemoryInv, ShiftTypes, OpenTick, TickMemory, TickRows
    <2>5. h \in EventsOf(rows, tick.ctx, shift)
      BY <1>2, <2>1, <2>3, <2>4 DEF Recorded, HabitsOf
    <2>6. \E i \in DOMAIN rows : h.end = rows[i].at
      BY <2>4, <2>5, EventsOfEngine
    <2>7. PICK i \in DOMAIN rows : tick.row.at = rows[i].at
      BY <2>3, <2>6
    <2>8. rows[i].at < tick.row.at
      BY <2>4, <2>7 DEF Follows
    <2> QED
      BY <2>4, <2>7, <2>8
  <1> QED
    BY <1>1, <1>2

LEMMA ClosingReported ==
    ASSUME MemoryInv, NEW c \in Closing, NEW seconds, Queue(c, seconds)
    PROVE  Reported' = Reported \cup Closing
  <1>1. Closing = {c} /\ c \notin Reported
    BY ClosingOpen
  <1>2. c \in 1 .. Len(engines)
    <2>1. CASE tick.pc \in {"observe", "commit"}
      BY <2>1 DEF MemoryInv, ShiftTypes, OpenTick, Closing
    <2>2. CASE tick.pc \notin {"observe", "commit"}
      BY <2>2 DEF MemoryInv, ShiftTypes, OpenEnd, Closing
    <2> QED
      BY <2>1, <2>2
  <1>3. closed' = Append(closed, c) /\ Stored
    BY DEF Queue, MemoryInv
  <1> QED
    BY <1>1, <1>2, <1>3, ReportAdded

\* What the open transaction found goes on record when it commits.
LEMMA RecordedMore ==
    ASSUME MemoryInv, Listed, Recorded, Awaited, Persist(Pending), UNCHANGED engines,
           Reported' = Reported \cup Closing,
           \A e \in 1 .. Len(engines) :
              EventsOf(rows', e, engines[e].shift)
                = EventsOf(rows, e, engines[e].shift) \cup HabitsOf(Pending, e),
           \A h \in Pending : h.by \in 1 .. Len(engines)
    PROVE  Listed' /\ Recorded' /\ OnRecord' = OnRecord \cup Pending
  <1>1. Pending \cap OnRecord = {} /\ Pending \in SUBSET Happenings /\ IsFiniteSet(Pending)
    BY PendingNew, PendingFinite DEF Awaited
  <1>2. Listed' /\ OnRecord' = OnRecord \cup Pending
    BY <1>1, Persisted
  <1>3. \A e \in 1 .. Len(engines') : HabitsOf(OnRecord', e) = EventsOf(rows', e, engines'[e].shift)
    <2>1. \A e : HabitsOf(OnRecord', e) = HabitsOf(OnRecord, e) \cup HabitsOf(Pending, e)
      BY <1>2 DEF HabitsOf
    <2> QED
      BY <2>1 DEF Recorded
  <1>4. \A h \in OnRecord' : h.by \in 1 .. Len(engines') /\ (IsRatio(h) => h.by \in Reported')
    BY <1>2 DEF Recorded, Awaited
  <1>5. ASSUME NEW h \in OnRecord', NEW g \in OnRecord', IsRatio(h), IsRatio(g), h.by = g.by
        PROVE  h = g
    <2>1. \A x \in OnRecord : IsRatio(x) => x.by \in Reported
      BY DEF Recorded
    <2>2. \A x \in Pending : IsRatio(x) => x.by \notin Reported
      BY ClosingOpen DEF Awaited
    <2>3. CASE h \in OnRecord
      <3>1. g \in OnRecord
        BY <1>2, <1>5, <2>1, <2>2, <2>3
      <3> QED
        BY <1>5, <2>3, <3>1 DEF Recorded
    <2>4. CASE h \in Pending
      <3>1. g \in Pending
        BY <1>2, <1>5, <2>1, <2>2, <2>4
      <3> QED
        BY <1>5, <2>4, <3>1 DEF Awaited
    <2> QED
      BY <1>2, <2>3, <2>4
  <1> QED
    BY <1>2, <1>3, <1>4, <1>5 DEF Recorded

\* A change of the engines that keeps those with rows and a reported shift.
LEMMA RecordedKept ==
    ASSUME MemoryInv, Recorded, UNCHANGED <<rows, closed, events>>, Len(engines') \in Nat,
           \A e \in 1 .. Len(engines') : e \in 1 .. Len(engines) => engines'[e].shift = engines[e].shift,
           \A e \in 1 .. Len(engines) :
              e \in 1 .. Len(engines') \/ (By(rows, e) = {} /\ e \notin Reported)
    PROVE  Recorded'
  <1>1. Reported' = Reported /\ OnRecord' = OnRecord
    BY ReportedKept DEF OnRecord
  <1>2. ASSUME NEW e \in 1 .. Len(engines')
        PROVE  HabitsOf(OnRecord, e) = EventsOf(rows, e, engines'[e].shift)
    <2>1. CASE e \in 1 .. Len(engines)
      BY <2>1 DEF Recorded
    <2>2. CASE e \notin 1 .. Len(engines)
      <3>1. By(rows, e) = {}
        BY <2>2 DEF MemoryInv, Stored, By
      <3>2. EventsOf(rows, e, engines'[e].shift) = {}
        BY <3>1, NoHabits
      <3>3. HabitsOf(OnRecord, e) = {}
        BY <2>2 DEF Recorded, HabitsOf
      <3> QED
        BY <3>2, <3>3
    <2> QED
      BY <2>1, <2>2
  <1>3. ASSUME NEW h \in OnRecord PROVE h.by \in 1 .. Len(engines')
    <2>1. h.by \in 1 .. Len(engines) /\ (IsRatio(h) => h.by \in Reported)
      BY DEF Recorded
    <2>2. CASE IsRatio(h)
      BY <2>1, <2>2
    <2>3. CASE ~IsRatio(h)
      <3>1. h \in EventsOf(rows, h.by, engines[h.by].shift)
        BY <2>1, <2>3 DEF Recorded, HabitsOf
      <3>2. By(rows, h.by) # {}
        BY <3>1, NoHabits
      <3> QED
        BY <2>1, <3>2
    <2> QED
      BY <2>2, <2>3
  <1> QED
    BY <1>1, <1>2, <1>3 DEF Recorded

\* With nothing open, nothing is awaited.
LEMMA NothingAwaited ==
    ASSUME tick'.pc \notin {"observe", "commit"}, end'.pc \notin {"summary", "commit"}
    PROVE  Awaited' /\ Pending' = {}
  BY DEF Awaited, Pending

LEMMA ListedKept == UNCHANGED events /\ Listed => Listed' /\ UNCHANGED OnRecord
  BY DEF Listed, OnRecord

LEMMA EventStart == Init => EventInv
  <1> SUFFICES ASSUME Init PROVE EventInv
    OBVIOUS
  <1>1. /\ rows = <<>> /\ events = <<>> /\ engines = <<>> /\ announced = {} /\ tick.pc = "idle"
        /\ end.pc = "idle"
    BY DEF Init, NoTick, NoEnd
  <1>2. Pending = {} /\ OnRecord = {} /\ events \in Seq(Happenings) /\ DOMAIN events = {}
        /\ 1 .. Len(engines) = {}
    BY <1>1 DEF Pending, OnRecord
  <1>3. Listed
    BY <1>2 DEF Listed
  <1>4. Recorded
    BY <1>2 DEF Recorded
  <1>5. Awaited
    BY <1>1, <1>2 DEF Awaited
  <1>6. Sendable
    BY <1>1, <1>2 DEF Sendable, Live
  <1> QED
    BY <1>3, <1>4, <1>5, <1>6 DEF EventInv

\* The ratio of one engine is one event.
LEMMA OneRatio ==
    ASSUME NEW e, NEW mem, NEW at, NEW h \in HighIdleRatio(mem, e, at)
    PROVE  h = Event("high_idle_ratio", e, NoTime, at) /\ IsRatio(h) /\ h.by = e
  BY DEF HighIdleRatio, Event, IsRatio

LEMMA EventsBeginTick ==
    ASSUME MemoryInv, EventInv, NEW shift \in Shifts, NEW reading \in Readings, NEW gap \in Gaps,
           BeginTick(shift, reading, gap), Serial, ShiftTypes'
    PROVE  EventInv'
  <1> DEFINE all == WithContext(shift)
             ctx == Context(shift)
             before == Previous(shift)
             closing == {e \in before : Closes(e)}
             ratioOf(e) == HighIdleRatio(engines[e].mem, e, clock + gap)
             found == UNION {ratioOf(e) : e \in closing}
  <1>1. /\ engines \in Seq(Engines) /\ current \in 0 .. Len(engines) /\ clock \in Int
        /\ gap \in Int /\ Len(engines) \in Nat
    BY ShiftAssumption DEF MemoryInv, ShiftTypes
  <1>2. /\ all \in Seq(Engines) /\ ctx \in 1 .. Len(all) /\ Len(all) \in Nat
        /\ Len(all) = IF Changes(shift) THEN Len(engines) + 1 ELSE Len(engines)
        /\ \A e \in 1 .. Len(engines) : all[e] = engines[e]
        /\ Changes(shift) => ctx = Len(all) /\ all[ctx].effects = {}
        /\ Changes(shift) <=> ctx # current
        /\ before = IF current # 0 /\ ctx # current THEN {current} ELSE {}
    BY <1>1, ContextIs
  <1>3. /\ tick.pc = "idle" /\ end.pc = "idle"
        /\ UNCHANGED <<rows, events, closed, current, end, announced>>
    BY DEF BeginTick
  <1>4. tick' = [pc |-> "observe", ctx |-> ctx, before |-> before, closing |-> closing,
                 saved |-> [e \in before \cup {ctx} |-> all[e].mem],
                 found |-> found, seconds |-> 0,
                 row |-> [shift |-> shift, at |-> clock + gap, reading |-> reading,
                          by |-> ctx]]
    BY DEF BeginTick
  <1>5. engines' = [e \in DOMAIN all |-> IF e \in closing
                                         THEN Remember(e, Ended(engines[e].mem), found) ELSE all[e]]
    BY DEF BeginTick
  <1>6. closing \subseteq before /\ closing \subseteq {current} /\ closing \subseteq 1 .. Len(engines)
    BY <1>1, <1>2
  <1>7. found \subseteq Happenings
    BY <1>1, <1>6, RatioType
  <1>8. \A h \in found : IsRatio(h) /\ h.by \in closing
    <2>1. \A e \in closing : \A h \in ratioOf(e) : IsRatio(h) /\ h.by = e
      BY OneRatio
    <2> HIDE DEF ratioOf, closing
    <2> QED
      BY <2>1
  <1>9. \A h, g \in found : h = g
    <2>1. \A e \in closing : \A h, g \in ratioOf(e) : h = g
      BY OneRatio
    <2> HIDE DEF ratioOf, closing
    <2> QED
      BY <1>6, <2>1
  <1>10. \A e \in closing : engines[e] \in Engines
    BY <1>1, <1>6
  <1> HIDE DEF all, ctx, before, closing, ratioOf, found
  <1>11. \A e \in closing : /\ Remember(e, Ended(engines[e].mem), found).shift = engines[e].shift
                            /\ Remember(e, Ended(engines[e].mem), found).effects
                                  = engines[e].effects \cup found
    BY <1>10 DEF Remember, Engines
  <1>12. DOMAIN all = 1 .. Len(all) /\ Len(engines') = Len(all) /\ Len(engines) <= Len(all)
    <2>1. DOMAIN all = 1 .. Len(all)
      BY <1>2
    <2>2. DOMAIN engines' = 1 .. Len(all)
      BY <1>5, <2>1
    <2>3. engines' \in Seq(Engines)
      BY DEF ShiftTypes
    <2> QED
      BY <1>1, <1>2, <2>1, <2>2, <2>3
  <1>13. \A e \in 1 .. Len(all) :
            engines'[e] = IF e \in closing THEN Remember(e, Ended(engines[e].mem), found) ELSE all[e]
    BY <1>5, <1>12
  <1>14. tick'.pc = "observe" /\ tick'.found = found /\ tick'.closing = closing
         /\ tick'.before = before /\ tick'.ctx = ctx
    BY <1>4
  <1>15. Pending' = found /\ Closing' = closing /\ Pending = {}
    BY <1>3, <1>14 DEF Pending, Closing
  <1>16. Listed' /\ OnRecord' = OnRecord
    BY <1>3, ListedKept DEF EventInv
  <1>17. Recorded'
    <2>1. \A e \in 1 .. Len(engines) : engines'[e].shift = engines[e].shift /\ e \in 1 .. Len(engines')
      <3> TAKE e \in 1 .. Len(engines)
      <3>1. e \in 1 .. Len(all) /\ all[e] = engines[e]
        BY <1>1, <1>2, <1>12
      <3> QED
        BY <1>11, <1>12, <1>13, <3>1
    <2>2. Len(engines') \in Nat
      BY <1>2, <1>12
    <2> QED
      BY <1>3, <2>1, <2>2, RecordedKept DEF EventInv
  <1>18. Awaited'
    BY <1>7, <1>8, <1>9, <1>14, <1>15 DEF Awaited
  <1>19. Sendable'
    <2>1. announced' \subseteq OnRecord'
      BY <1>3, <1>16 DEF EventInv, Sendable
    <2>2. ASSUME NEW e \in Live' PROVE engines'[e].effects \subseteq OnRecord' \cup Pending'
      <3>1. e \in 1 .. Len(all) /\ (e = current \/ e = ctx)
        BY <1>2, <1>3, <1>12, <1>14 DEF Live
      <3>2. CASE e = current
        <4>1. e \in 1 .. Len(engines) /\ e \in Live /\ all[e] = engines[e]
          BY <1>1, <1>2, <3>1, <3>2 DEF Live
        <4>2. engines[e].effects \subseteq OnRecord
          BY <1>15, <4>1 DEF EventInv, Sendable
        <4> QED
          BY <1>11, <1>13, <1>15, <1>16, <3>1, <4>1, <4>2
      <3>3. CASE e # current
        <4>1. e = ctx /\ ctx # current /\ e \notin closing /\ all[e].effects = {}
          BY <1>2, <1>6, <3>1, <3>3
        <4> QED
          BY <1>13, <3>1, <4>1
      <3> QED
        BY <3>2, <3>3
    <2> QED
      BY <2>1, <2>2 DEF Sendable
  <1> QED
    BY <1>16, <1>17, <1>18, <1>19 DEF EventInv

LEMMA EventsObserveTick ==
    ASSUME MemoryInv, EventInv, ObserveTick, ShiftTypes'
    PROVE  EventInv'
  <1>1. /\ OpenTick /\ engines \in Seq(Engines) /\ TickMemory /\ tick.pc = "observe"
        /\ end.pc = "idle" /\ Len(engines) \in Nat
    BY DEF MemoryInv, ShiftTypes, ObserveTick
  <1>2. PICK e, row, mem : e = tick.ctx /\ row = tick.row /\ mem = engines[e].mem
    OBVIOUS
  <1>3. PICK found, after : /\ found = Found(mem, e, row)
                           /\ after = Spanned(Measured(Counted(mem, row), row), row)
    OBVIOUS
  <1>4. /\ engines' = [engines EXCEPT ![e] = Remember(e, after, found)]
        /\ UNCHANGED <<rows, events, closed, current, end, announced>>
        /\ tick'.pc = "commit" /\ tick'.found = tick.found \cup found
        /\ tick'.saved = tick.saved /\ tick'.ctx = e /\ tick'.row = row
        /\ tick'.before = tick.before /\ tick'.closing = tick.closing
    BY <1>1, <1>2, <1>3 DEF ObserveTick, OpenTick
  <1>5. e \in 1 .. Len(engines) /\ row \in TickRows /\ engines[e] \in Engines
    BY <1>1, <1>2 DEF OpenTick
  <1>6. mem \in Memories /\ mem = tick.saved[e]
    BY <1>1, <1>2, <1>5 DEF Engines, TickMemory
  <1>7. Remember(e, after, found).shift = engines[e].shift
        /\ Remember(e, after, found).effects = engines[e].effects \cup found
    BY <1>5 DEF Remember, Engines
  <1>8. /\ Len(engines') = Len(engines)
        /\ \A d \in 1 .. Len(engines) :
              /\ engines'[d].shift = engines[d].shift
              /\ engines'[d].effects \subseteq engines[d].effects \cup found
    BY <1>1, <1>4, <1>5, <1>7
  <1>9. PICK shift : shift = engines[e].shift
    OBVIOUS
  <1>10. found = FoundOf(mem, e, shift, row) /\ found \subseteq Happenings
    BY <1>1, <1>3, <1>5, <1>6, <1>9, FoundIs, FoundType
  <1>11. \A h \in found : ~IsRatio(h)
    BY <1>10, FoundOfEngine DEF IsRatio
  <1>12. Pending' = Pending \cup found /\ Closing' = Closing
    BY <1>1, <1>4 DEF Pending, Closing
  <1>13. \A h \in Pending : IsRatio(h)
    BY <1>1 DEF EventInv, Awaited
  <1>14. Awaited'
    <2>1. {h \in Pending' : ~IsRatio(h)} = found
      BY <1>11, <1>12, <1>13
    <2>2. FoundOf(tick'.saved[tick'.ctx], tick'.ctx, engines'[tick'.ctx].shift, tick'.row) = found
      BY <1>4, <1>5, <1>6, <1>8, <1>9, <1>10
    <2> QED
      BY <1>4, <1>10, <1>11, <1>12, <2>1, <2>2 DEF EventInv, Awaited
  <1>15. Listed' /\ OnRecord' = OnRecord
    BY <1>4, ListedKept DEF EventInv
  <1>16. Recorded'
    BY <1>1, <1>4, <1>8, RecordedKept DEF EventInv
  <1>17. Sendable'
    <2>1. Live' = Live
      BY <1>1, <1>2, <1>4, <1>8 DEF Live
    <2>2. Live \subseteq 1 .. Len(engines)
      BY DEF Live
    <2> QED
      BY <1>4, <1>8, <1>12, <1>15, <2>1, <2>2 DEF EventInv, Sendable
  <1> QED
    BY <1>14, <1>15, <1>16, <1>17 DEF EventInv

LEMMA EventsCommitTick ==
    ASSUME MemoryInv, EventInv, CommitTick
    PROVE  EventInv'
  <1>1. /\ OpenTick /\ rows \in Seq(TickRows) /\ Stored /\ TickMemory /\ tick.pc = "commit"
        /\ end.pc = "idle"
    BY DEF MemoryInv, ShiftTypes, CommitTick
  <1>2. /\ rows' = Append(rows, tick.row) /\ UNCHANGED <<engines, current, end, announced>>
        /\ tick'.pc = "finish" /\ tick'.ctx = tick.ctx /\ tick'.before = tick.before
        /\ Persist(tick.found)
    BY <1>1 DEF CommitTick, OpenTick
  <1>3. Pending = tick.found /\ Closing = tick.closing
    BY <1>1 DEF Pending, Closing
  <1>4. Reported' = Reported \cup Closing
    <2>1. CASE tick.closing = {}
      BY <1>3, <2>1, ReportedKept DEF CommitTick
    <2>2. CASE tick.closing # {}
      <3>1. PICK c \in Closing : Queue(c, tick.seconds)
        BY <1>3, <2>2 DEF CommitTick
      <3> QED
        BY <3>1, ClosingReported
    <2> QED
      BY <2>1, <2>2
  <1>5. PICK e, row, mem : e = tick.ctx /\ row = tick.row /\ mem = tick.saved[e]
    OBVIOUS
  <1>6. row.by = e /\ row \in TickRows /\ mem \in AsCommitted(rows, Reported, e)
        /\ e \in 1 .. Len(engines)
    BY <1>1, <1>5 DEF OpenTick, TickMemory
  <1>7. mem \in Memories /\ HabitsKept(rows, row.by, mem)
    BY <1>6 DEF AsCommitted
  <1>8. Ordered(rows) /\ \A i \in DOMAIN rows : rows[i].at >= 0
    BY <1>1 DEF Stored
  <1>9. {h \in Pending : ~IsRatio(h)} = FoundOf(mem, e, engines[e].shift, row)
    BY <1>1, <1>5 DEF EventInv, Awaited
  <1>10. \A h \in FoundOf(mem, e, engines[e].shift, row) : h.by = e
    BY FoundOfEngine
  <1>11. ASSUME NEW d \in 1 .. Len(engines)
         PROVE  EventsOf(rows', d, engines[d].shift)
                  = EventsOf(rows, d, engines[d].shift) \cup HabitsOf(Pending, d)
    <2>1. PICK shift : shift = engines[d].shift
      OBVIOUS
    <2>2. CASE d = e
      <3>1. EventsOf(Append(rows, row), row.by, shift)
              = EventsOf(rows, row.by, shift) \cup FoundOf(mem, row.by, shift, row)
        BY <1>1, <1>6, <1>7, <1>8, HabitsRow
      <3>2. HabitsOf(Pending, d) = FoundOf(mem, e, shift, row)
        BY <1>9, <1>10, <2>1, <2>2 DEF HabitsOf
      <3> QED
        BY <1>2, <1>5, <1>6, <2>1, <2>2, <3>1, <3>2
    <2>3. CASE d # e
      <3>1. EventsOf(Append(rows, row), d, shift) = EventsOf(rows, d, shift)
        BY <1>1, <1>6, <2>3, OthersRow
      <3>2. HabitsOf(Pending, d) = {}
        BY <1>9, <1>10, <2>3 DEF HabitsOf
      <3> QED
        BY <1>2, <1>5, <2>1, <3>1, <3>2
    <2> QED
      BY <2>2, <2>3
  <1>12. \A h \in Pending : h.by \in 1 .. Len(engines)
    <2>1. tick.closing \subseteq 1 .. Len(engines)
      BY <1>1 DEF OpenTick, MemoryInv, ShiftTypes
    <2>2. \A h \in Pending : IsRatio(h) => h.by \in tick.closing
      BY <1>3 DEF EventInv, Awaited
    <2>3. \A h \in Pending : ~IsRatio(h) => h.by = e
      BY <1>9, <1>10
    <2> QED
      BY <1>6, <2>1, <2>2, <2>3
  <1>13. Listed' /\ Recorded' /\ OnRecord' = OnRecord \cup Pending
    BY <1>2, <1>3, <1>4, <1>11, <1>12, RecordedMore DEF EventInv
  <1>14. Awaited' /\ Pending' = {}
    BY <1>1, <1>2, NothingAwaited
  <1>15. Live' = Live
    BY <1>1, <1>2 DEF Live
  <1>16. Sendable'
    BY <1>2, <1>13, <1>14, <1>15 DEF EventInv, Sendable
  <1> QED
    BY <1>13, <1>14, <1>16 DEF EventInv

LEMMA EventsRollbackTick ==
    ASSUME MemoryInv, EventInv, RollbackTick
    PROVE  EventInv'
  <1>1. /\ OpenTick /\ TickMemory /\ tick.pc \in {"observe", "commit"} /\ ShiftTypes
        /\ end.pc = "idle" /\ Len(engines) \in Nat /\ engines \in Seq(Engines)
        /\ current \in 0 .. Len(engines)
    BY DEF MemoryInv, ShiftTypes, RollbackTick
  <1>2. /\ engines' = Discarded(Restored(tick.saved)) /\ tick'.pc = "idle"
        /\ UNCHANGED <<rows, events, closed, current, end, announced>>
    BY DEF RollbackTick, NoTick
  <1>3. PICK D, saved, back : D = tick.before \cup {tick.ctx} /\ saved = tick.saved
                             /\ back = Restored(saved)
    OBVIOUS
  <1>4. saved \in [D -> Memories]
    BY <1>1, <1>3 DEF OpenTick
  <1>5. /\ back \in Seq(Engines) /\ Len(back) = Len(engines)
        /\ \A e \in 1 .. Len(engines) :
              /\ back[e].shift = engines[e].shift
              /\ back[e].effects = IF e \in D THEN {} ELSE engines[e].effects
    BY <1>1, <1>3, <1>4, RestoredIs
  <1>6. PICK n : n = IF tick.ctx # current THEN Len(engines) - 1 ELSE Len(engines)
    OBVIOUS
  <1>7. /\ Len(engines') = n /\ current \in 0 .. n /\ n \in Nat
        /\ \A e \in 1 .. n : engines'[e] = back[e]
    BY <1>1, <1>2, <1>3, <1>5, <1>6, DiscardedIs
  <1>8. Listed' /\ OnRecord' = OnRecord
    BY <1>2, ListedKept DEF EventInv
  <1>9. Recorded'
    <2>1. \A e \in 1 .. Len(engines') : engines'[e].shift = engines[e].shift
      BY <1>1, <1>5, <1>6, <1>7
    <2>2. \A e \in 1 .. Len(engines) :
             e \in 1 .. Len(engines') \/ (By(rows, e) = {} /\ e \notin Reported)
      <3>1. tick.ctx # current => /\ tick.ctx = Len(engines) /\ By(rows, tick.ctx) = {}
                                  /\ tick.ctx \notin Reported
        BY <1>1 DEF OpenTick, TickMemory
      <3>2. \A e \in 1 .. Len(engines) : e \in 1 .. Len(engines) - 1 \/ e = Len(engines)
        BY <1>1
      <3> QED
        BY <1>6, <1>7, <3>1, <3>2
    <2> QED
      BY <1>2, <1>7, <2>1, <2>2, RecordedKept DEF EventInv
  <1>10. Awaited' /\ Pending' = {}
    BY <1>1, <1>2, NothingAwaited
  <1>11. Sendable'
    <2>1. \A e \in Live' : e = current /\ e \in 1 .. n
      BY <1>1, <1>2, <1>7 DEF Live
    <2>2. current # 0 => current \in D
      BY <1>1, <1>3 DEF OpenTick
    <2>3. \A e \in Live' : engines'[e].effects = {}
      <3> TAKE e \in Live'
      <3>1. e \in D /\ e \in 1 .. n /\ e \in 1 .. Len(engines)
        BY <1>1, <1>6, <1>7, <2>1, <2>2
      <3> QED
        BY <1>5, <1>7, <3>1
    <2> QED
      BY <1>2, <1>8, <2>3 DEF EventInv, Sendable
  <1> QED
    BY <1>8, <1>9, <1>10, <1>11 DEF EventInv

\* Effects that are sent are of events on record.
LEMMA Sent ==
    ASSUME EventInv, engines \in Seq(Engines), Pending = {}, NEW ids \in SUBSET Live, Send(ids),
           UNCHANGED events, Pending' = {}, Live' \subseteq Live
    PROVE  Sendable'
  <1>1. OnRecord' = OnRecord
    BY ListedKept DEF EventInv
  <1>2. Live \subseteq 1 .. Len(engines) /\ \A e \in Live : engines[e].effects \subseteq OnRecord
    BY DEF EventInv, Sendable, Live
  <1>3. announced' \subseteq OnRecord
    BY <1>2 DEF Send, EventInv, Sendable
  <1>4. \A e \in 1 .. Len(engines) :
           engines'[e].effects = IF e \in ids THEN {} ELSE engines[e].effects
    BY FlushedIs DEF Send
  <1> QED
    BY <1>1, <1>2, <1>3, <1>4 DEF Sendable

LEMMA EventsFinishTick ==
    ASSUME MemoryInv, EventInv, FinishTick
    PROVE  EventInv'
  <1>1. /\ OpenTick /\ tick.pc = "finish" /\ end.pc = "idle" /\ engines \in Seq(Engines)
        /\ Len(engines) \in Nat /\ current \in 0 .. Len(engines)
    BY DEF MemoryInv, ShiftTypes, FinishTick
  <1>2. PICK ids : ids = tick.before \cup {tick.ctx}
    OBVIOUS
  <1>3. /\ Send(ids) /\ tick'.pc = "idle" /\ current' = tick.ctx
        /\ UNCHANGED <<rows, events, closed, end>>
    BY <1>2 DEF FinishTick, NoTick
  <1>4. /\ Len(engines') = Len(engines)
        /\ \A e \in 1 .. Len(engines) : engines'[e].shift = engines[e].shift
    BY <1>1, <1>3, FlushedIs DEF Send
  <1>5. Listed' /\ OnRecord' = OnRecord
    BY <1>3, ListedKept DEF EventInv
  <1>6. Recorded'
    BY <1>1, <1>3, <1>4, RecordedKept DEF EventInv
  <1>7. Awaited' /\ Pending' = {}
    BY <1>1, <1>3, NothingAwaited
  <1>8. Pending = {}
    BY <1>1 DEF Pending
  <1>9. ids \in SUBSET Live
    BY <1>1, <1>2 DEF OpenTick, Live
  <1>10. Live' \subseteq Live
    BY <1>1, <1>2, <1>3, <1>4, <1>9 DEF Live
  <1>11. Sendable'
    BY <1>1, <1>3, <1>7, <1>8, <1>9, <1>10, Sent
  <1> QED
    BY <1>5, <1>6, <1>7, <1>11 DEF EventInv

LEMMA EventsEnd ==
    ASSUME MemoryInv, EventInv, Serial, ShiftTypes',
           BeginEnd \/ EndAgain \/ SummarizeEnd \/ CommitEnd \/ RollbackEnd \/ FlushEnd
    PROVE  EventInv'
  <1>1. /\ ShiftTypes /\ engines \in Seq(Engines) /\ Len(engines) \in Nat
        /\ current \in 0 .. Len(engines) /\ EndMemory /\ Listed /\ Recorded /\ Awaited /\ Sendable
    BY DEF MemoryInv, ShiftTypes, EventInv
  <1>2. tick.pc = "idle" /\ UNCHANGED <<rows, current, tick>>
    BY DEF MemoryInv, BeginEnd, EndAgain, SummarizeEnd, CommitEnd, RollbackEnd, FlushEnd
  <1>3. CASE BeginEnd
    <2>1. PICK mem, found : mem = engines[current].mem /\ found = HighIdleRatio(mem, current, clock)
      OBVIOUS
    <2>2. /\ end' = [pc |-> "summary", eng |-> current, saved |-> mem, found |-> found,
                     seconds |-> 0]
          /\ engines' = [engines EXCEPT ![current] = Remember(current, Ended(mem), found)]
          /\ current # 0 /\ end.pc = "idle" /\ UNCHANGED <<events, closed, announced>>
      BY <1>3, <2>1 DEF BeginEnd
    <2>3. current \in 1 .. Len(engines) /\ engines[current] \in Engines
      BY <1>1, <2>2
    <2>4. Remember(current, Ended(mem), found).shift = engines[current].shift
          /\ Remember(current, Ended(mem), found).effects = engines[current].effects \cup found
      BY <2>3 DEF Remember, Engines
    <2>5. /\ Len(engines') = Len(engines)
          /\ \A e \in 1 .. Len(engines) :
                /\ engines'[e].shift = engines[e].shift
                /\ engines'[e].effects \subseteq engines[e].effects \cup found
      BY <1>1, <2>2, <2>3, <2>4
    <2>6. Pending' = found /\ Closing' = {current} /\ Pending = {}
      BY <1>2, <2>2 DEF Pending, Closing
    <2>7. Listed' /\ OnRecord' = OnRecord
      BY <1>1, <2>2, ListedKept
    <2>8. Recorded'
      BY <1>1, <1>2, <2>2, <2>5, RecordedKept
    <2>9. found \subseteq Happenings
      BY <1>1, <2>1, <2>3, RatioType DEF ShiftTypes
    <2>10. \A h \in found : /\ h = Event("high_idle_ratio", current, NoTime, clock)
                            /\ IsRatio(h) /\ h.by = current
      BY <2>1, OneRatio
    <2>11. Awaited'
      BY <1>2, <2>6, <2>9, <2>10 DEF Awaited
    <2>12. Live' = Live /\ Live \subseteq 1 .. Len(engines)
      BY <1>2, <2>2, <2>5 DEF Live
    <2>13. Sendable'
      BY <1>1, <2>2, <2>5, <2>6, <2>7, <2>12 DEF Sendable
    <2> QED
      BY <2>7, <2>8, <2>11, <2>13 DEF EventInv
  <1>4. CASE EndAgain
    <2>1. PICK ids : ids = {current} /\ Send(ids) /\ UNCHANGED <<events, closed, end>>
                     /\ end.pc = "idle" /\ current # 0
      BY <1>4 DEF EndAgain
    <2>2. /\ Len(engines') = Len(engines)
          /\ \A e \in 1 .. Len(engines) : engines'[e].shift = engines[e].shift
      BY <1>1, <2>1, FlushedIs DEF Send
    <2>3. Listed'
      BY <1>1, <2>1, ListedKept
    <2>4. Recorded'
      BY <1>1, <1>2, <2>1, <2>2, RecordedKept
    <2>5. Awaited' /\ Pending' = {} /\ Pending = {}
      BY <1>2, <2>1, NothingAwaited DEF Pending
    <2>6. ids \in SUBSET Live /\ Live' = Live
      BY <1>1, <1>2, <2>1, <2>2 DEF Live
    <2>7. Sendable'
      BY <1>1, <2>1, <2>5, <2>6, Sent DEF EventInv
    <2> QED
      BY <2>3, <2>4, <2>5, <2>7 DEF EventInv
  <1>5. CASE SummarizeEnd
    <2>1. OpenEnd /\ end.pc = "summary"
      BY <1>5 DEF SummarizeEnd, MemoryInv, ShiftTypes
    <2>2. /\ end'.pc = "commit" /\ end'.eng = end.eng /\ end'.found = end.found
          /\ UNCHANGED <<engines, events, closed, announced>>
      BY <1>5, <2>1 DEF SummarizeEnd, OpenEnd
    <2>3. Pending' = Pending /\ Closing' = Closing /\ Live' = Live
      BY <1>2, <2>1, <2>2 DEF Pending, Closing, Live
    <2>4. Listed' /\ OnRecord' = OnRecord
      BY <1>1, <2>2, ListedKept
    <2>5. Recorded'
      BY <1>1, <1>2, <2>2, RecordedKept
    <2>6. Awaited'
      BY <1>1, <1>2, <2>3 DEF Awaited
    <2>7. Sendable'
      BY <1>1, <2>2, <2>3, <2>4 DEF Sendable
    <2> QED
      BY <2>4, <2>5, <2>6, <2>7 DEF EventInv
  <1>6. CASE CommitEnd
    <2>1. OpenEnd /\ end.pc = "commit"
      BY <1>6 DEF CommitEnd, MemoryInv, ShiftTypes
    <2>2. /\ end'.pc = "flush" /\ end'.eng = end.eng /\ UNCHANGED <<engines, announced>>
          /\ Persist(end.found) /\ Queue(end.eng, end.seconds)
      BY <1>6, <2>1 DEF CommitEnd, OpenEnd
    <2>3. Pending = end.found /\ Closing = {end.eng}
      BY <1>2, <2>1 DEF Pending, Closing
    <2>4. Reported' = Reported \cup Closing
      <3>1. PICK c \in Closing : Queue(c, end.seconds)
        BY <2>2, <2>3
      <3> QED
        BY <3>1, ClosingReported
    <2>5. \A h \in Pending : IsRatio(h) /\ h.by = end.eng
      BY <1>1, <1>2, <2>3 DEF Awaited
    <2>6. \A e \in 1 .. Len(engines) :
             EventsOf(rows', e, engines[e].shift)
               = EventsOf(rows, e, engines[e].shift) \cup HabitsOf(Pending, e)
      BY <1>2, <2>5 DEF HabitsOf
    <2>7. \A h \in Pending : h.by \in 1 .. Len(engines)
      BY <2>1, <2>5 DEF OpenEnd
    <2>8. Listed' /\ Recorded' /\ OnRecord' = OnRecord \cup Pending
      BY <1>1, <2>2, <2>3, <2>4, <2>6, <2>7, RecordedMore
    <2>9. Awaited' /\ Pending' = {}
      BY <1>2, <2>2, NothingAwaited
    <2>10. Live' = Live
      BY <1>2, <2>1, <2>2 DEF Live
    <2>11. Sendable'
      BY <1>1, <2>2, <2>8, <2>9, <2>10 DEF Sendable
    <2> QED
      BY <2>8, <2>9, <2>11 DEF EventInv
  <1>7. CASE RollbackEnd
    <2>1. OpenEnd /\ end.pc \in {"summary", "commit"} /\ current \in {0, end.eng}
      BY <1>7 DEF RollbackEnd, MemoryInv, ShiftTypes, EndMemory
    <2>2. PICK e, back : e = end.eng /\ back = [d \in {e} |-> end.saved]
      OBVIOUS
    <2>3. engines' = Restored(back) /\ end'.pc = "idle" /\ UNCHANGED <<events, closed, announced>>
      BY <1>7, <2>2 DEF RollbackEnd, NoEnd
    <2>4. PICK D : D = {e} /\ back \in [D -> Memories]
      BY <2>1, <2>2 DEF OpenEnd
    <2>5. /\ Len(engines') = Len(engines)
          /\ \A d \in 1 .. Len(engines) :
                /\ engines'[d].shift = engines[d].shift
                /\ engines'[d].effects = IF d \in D THEN {} ELSE engines[d].effects
      BY <1>1, <2>3, <2>4, RestoredIs
    <2>6. Listed' /\ OnRecord' = OnRecord
      BY <1>1, <2>3, ListedKept
    <2>7. Recorded'
      BY <1>1, <1>2, <2>3, <2>5, RecordedKept
    <2>8. Awaited' /\ Pending' = {}
      BY <1>2, <2>3, NothingAwaited
    <2>9. \A d \in Live' : d \in D /\ d \in 1 .. Len(engines)
      BY <1>2, <2>1, <2>2, <2>3, <2>4, <2>5 DEF Live
    <2>10. Sendable'
      BY <1>1, <2>3, <2>5, <2>6, <2>9 DEF Sendable
    <2> QED
      BY <2>6, <2>7, <2>8, <2>10 DEF EventInv
  <1>8. CASE FlushEnd
    <2>1. OpenEnd /\ end.pc = "flush"
      BY <1>8 DEF FlushEnd, MemoryInv, ShiftTypes
    <2>2. PICK ids : ids = {end.eng} /\ Send(ids) /\ UNCHANGED <<events, closed>>
                     /\ end'.pc = "idle"
      BY <1>8 DEF FlushEnd, NoEnd
    <2>3. /\ Len(engines') = Len(engines)
          /\ \A e \in 1 .. Len(engines) : engines'[e].shift = engines[e].shift
      BY <1>1, <2>2, FlushedIs DEF Send
    <2>4. Listed'
      BY <1>1, <2>2, ListedKept
    <2>5. Recorded'
      BY <1>1, <1>2, <2>2, <2>3, RecordedKept
    <2>6. Awaited' /\ Pending' = {} /\ Pending = {}
      BY <1>2, <2>1, <2>2, NothingAwaited DEF Pending
    <2>7. ids \in SUBSET Live /\ Live' \subseteq Live
      BY <1>1, <1>2, <2>1, <2>2, <2>3 DEF Live, OpenEnd
    <2>8. Sendable'
      BY <1>1, <2>2, <2>6, <2>7, Sent DEF EventInv
    <2> QED
      BY <2>4, <2>5, <2>6, <2>8 DEF EventInv
  <1> QED
    BY <1>3, <1>4, <1>5, <1>6, <1>7, <1>8

LEMMA EventsStop ==
    ASSUME MemoryInv, EventInv, NEW process \in BOOLEAN, Stop(process)
    PROVE  EventInv'
  <1>1. /\ ShiftTypes /\ TickMemory /\ Len(engines) \in Nat /\ engines \in Seq(Engines)
        /\ current \in 0 .. Len(engines) /\ Listed /\ Recorded /\ Awaited /\ Sendable
    BY DEF MemoryInv, ShiftTypes, EventInv
  <1>2. /\ tick'.pc = "idle" /\ current' = 0 /\ UNCHANGED <<rows, events, closed, announced>>
        /\ engines' = IF tick.pc \in {"observe", "commit"} THEN Discarded(engines) ELSE engines
        /\ end' = IF process THEN NoEnd ELSE end
    BY DEF Stop, NoTick
  <1>3. Listed' /\ OnRecord' = OnRecord
    BY <1>1, <1>2, ListedKept
  <1>4. CASE tick.pc \in {"observe", "commit"}
    <2>1. engines' = Discarded(engines) /\ end'.pc = "idle"
      BY <1>2, <1>4 DEF MemoryInv, NoEnd
    <2>2. PICK n : n = IF tick.ctx # current THEN Len(engines) - 1 ELSE Len(engines)
      OBVIOUS
    <2>3. /\ Len(engines') = n /\ n \in Nat
          /\ \A e \in 1 .. n : engines'[e] = engines[e]
      BY <1>1, <1>4, <2>1, <2>2, DiscardedIs
    <2>4. \A e \in 1 .. Len(engines) :
             e \in 1 .. Len(engines') \/ (By(rows, e) = {} /\ e \notin Reported)
      <3>1. tick.ctx # current => /\ tick.ctx = Len(engines) /\ By(rows, tick.ctx) = {}
                                  /\ tick.ctx \notin Reported
        BY <1>1, <1>4 DEF ShiftTypes, OpenTick, TickMemory
      <3>2. \A e \in 1 .. Len(engines) : e \in 1 .. Len(engines) - 1 \/ e = Len(engines)
        BY <1>1
      <3> QED
        BY <2>2, <2>3, <3>1, <3>2
    <2>5. Recorded'
      BY <1>1, <1>2, <2>3, <2>4, RecordedKept
    <2>6. Awaited' /\ Pending' = {}
      BY <1>2, <2>1, NothingAwaited
    <2>7. Live' = {}
      BY <1>2, <2>1 DEF Live
    <2>8. Sendable'
      BY <1>1, <1>2, <1>3, <2>7 DEF Sendable
    <2> QED
      BY <1>3, <2>5, <2>6, <2>8 DEF EventInv
  <1>5. CASE tick.pc \notin {"observe", "commit"}
    <2>1. engines' = engines
      BY <1>2, <1>5
    <2>2. Recorded'
      BY <1>1, <1>2, <2>1, RecordedKept
    <2>3. CASE end'.pc \in {"summary", "commit"}
      <3>1. UNCHANGED end
        BY <1>2, <2>3 DEF NoEnd
      <3>2. tick.pc = "idle"
        BY <2>3, <3>1 DEF MemoryInv
      <3>3. Pending' = Pending /\ Closing' = Closing
        BY <1>2, <3>1, <3>2 DEF Pending, Closing
      <3>4. Live' \subseteq Live
        <4> SUFFICES ASSUME NEW e \in Live' PROVE e \in Live
          OBVIOUS
        <4>1. e \in 1 .. Len(engines) /\ e # 0
          BY <1>1, <2>1 DEF Live
        <4>2. end.pc # "idle" /\ e = end.eng
          BY <1>2, <3>1, <4>1 DEF Live
        <4> QED
          BY <4>1, <4>2 DEF Live
      <3>5. Awaited'
        BY <1>1, <1>2, <3>2, <3>3 DEF Awaited
      <3>6. Sendable'
        BY <1>1, <1>2, <1>3, <2>1, <3>3, <3>4 DEF Sendable
      <3> QED
        BY <1>3, <2>2, <3>5, <3>6 DEF EventInv
    <2>4. CASE end'.pc \notin {"summary", "commit"}
      <3>1. Awaited' /\ Pending' = {}
        BY <1>2, <2>4, NothingAwaited
      <3>2. \A e \in Live' : end.pc = "flush" /\ e \in Live
        BY <1>1, <1>2, <2>1, <2>4 DEF Live, ShiftTypes, OpenEnd, NoEnd
      <3>3. end.pc = "flush" => Pending = {}
        BY <1>5 DEF Pending
      <3>4. Sendable'
        BY <1>1, <1>2, <1>3, <2>1, <3>2, <3>3 DEF Sendable
      <3> QED
        BY <1>3, <2>2, <3>1, <3>4 DEF EventInv
    <2> QED
      BY <2>3, <2>4
  <1> QED
    BY <1>4, <1>5

\* The messages touch no event.
LEMMA EventsSame ==
    ASSUME EventInv, UNCHANGED edgeVars
    PROVE  EventInv'
  <1>1. Reported' = Reported /\ OnRecord' = OnRecord
    BY ReportedKept DEF edgeVars, OnRecord
  <1>2. Pending' = Pending /\ Closing' = Closing /\ Live' = Live
    BY DEF edgeVars, Pending, Closing, Live
  <1> QED
    BY <1>1, <1>2 DEF EventInv, Listed, Recorded, Awaited, Sendable, edgeVars

LEMMA EventStep ==
    ASSUME Serial, MemoryInv, EventInv, [Next]_vars
    PROVE  EventInv'
  <1>1. ShiftTypes'
    BY TypesStep DEF MemoryInv
  <1>2. ASSUME NEW m \in summaries, ApplySummary(m) \/ DeadLetter("summary", m)
        PROVE  EventInv'
    BY <1>2, EventsSame DEF ApplySummary, DeadLetter
  <1>3. ASSUME NEW m \in machines, ApplyMachines(m) \/ DeadLetter("machines", m)
        PROVE  EventInv'
    BY <1>3, EventsSame DEF ApplyMachines, DeadLetter
  <1>4. ASSUME NEW kind \in {"summary", "machines"}, NEW m \in dead[kind], Retry(kind, m)
        PROVE  EventInv'
    BY <1>4, EventsSame DEF Retry
  <1>5. CASE UNCHANGED vars
    BY <1>5, EventsSame DEF vars
  <1> QED
    BY <1>1, <1>2, <1>3, <1>4, <1>5, EventsBeginTick, EventsObserveTick, EventsCommitTick,
       EventsRollbackTick, EventsFinishTick, EventsEnd, EventsStop DEF Next

\* The events the stored ticks call for, as EventsExact has them.
LEMMA ExpectedAre ==
    ASSUME NEW e
    PROVE  HabitEvents(e) \cup UNION {SpanEvents(e, d) : d \in Spans}
             = EventsOf(rows, e, engines[e].shift)
  <1>1. PICK shift : shift = engines[e].shift
    OBVIOUS
  <1>2. RowsBy(e) = By(rows, e)
    BY DEF RowsBy, By
  <1>3. ASSUME NEW d PROVE SpanEvents(e, d) = SpanEventsOf(rows, e, shift, d)
    <2>1. \A i : Holds(d, RowsBy(e), i) <=> HoldsAt(rows, e, d, i)
      BY <1>2 DEF Holds, HoldsAt
    <2> DEFINE reached(i) == {j \in RowsBy(e) : /\ \A k \in i .. j : Holds(d, RowsBy(e), k)
                                                /\ j > i /\ rows[j].at - rows[i].at >= Limit(d)}
               starts == {i \in RowsBy(e) : Holds(d, RowsBy(e), i) /\ ~Holds(d, RowsBy(e), i - 1)}
    <2>2. \A i : reached(i) = ReachedBy(rows, e, d, i)
      BY <1>2, <2>1 DEF ReachedBy
    <2>3. starts = RunStarts(rows, e, d)
      BY <1>2, <2>1 DEF RunStarts
    <2>4. SpanEvents(e, d) =
            {Event(d, e, rows[i].at,
                   rows[CHOOSE j \in reached(i) : \A k \in reached(i) : j <= k].at) :
                i \in {i \in starts : reached(i) # {}}}
      BY DEF SpanEvents
    <2> HIDE DEF reached, starts
    <2>5. {i \in starts : reached(i) # {}} = LongRuns(rows, e, d)
      BY <2>2, <2>3 DEF LongRuns
    <2>6. \A i : Event(d, e, rows[i].at,
                       rows[CHOOSE j \in reached(i) : \A k \in reached(i) : j <= k].at)
                   = Happening(d, e, shift, rows[i].at, rows[FirstOf(ReachedBy(rows, e, d, i))].at)
      BY <1>1, <2>2 DEF Event, Happening, FirstOf
    <2> QED
      BY <2>4, <2>5, <2>6 DEF SpanEventsOf
  <1>4. HabitEvents(e) = HabitEventsOf(rows, e, shift)
    <2>1. {i \in RowsBy(e) : rows[i].reading = "incident"} = Incidents(rows, e)
      BY <1>2 DEF Incidents
    <2> QED
      BY <1>1, <2>1 DEF HabitEvents, HabitEventsOf, Nth, Event, Happening
  <1>5. UNION {SpanEvents(e, d) : d \in Spans} = UNION {SpanEventsOf(rows, e, shift, d) : d \in Spans}
    BY <1>3
  <1> QED
    BY <1>1, <1>4, <1>5 DEF EventsOf

\* Positions of a list without repetitions are as many as their members.
LEMMA AsMany ==
    ASSUME Listed, NEW I \in SUBSET (DOMAIN events)
    PROVE  /\ IsFiniteSet(I)
           /\ Cardinality(I) = Cardinality({events[i] : i \in I})
  <1>1. PICK n : n = Len(events)
    OBVIOUS
  <1>2. n \in Nat /\ DOMAIN events = 1 .. n
    BY <1>1 DEF Listed
  <1>3. IsFiniteSet(I)
    <2>1. IsFiniteSet(1 .. n)
      BY <1>2, FS_Interval
    <2> QED
      BY <1>2, <2>1, FS_Subset
  <1>4. PICK S, f : S = {events[i] : i \in I} /\ f = [i \in I |-> events[i]]
    OBVIOUS
  <1>5. f \in [I -> S] /\ IsInjective(f) /\ \A s \in S : \E i \in I : f[i] = s
    BY <1>4 DEF Listed, IsInjective
  <1>6. f \in Bijection(I, S)
    BY <1>5 DEF Bijection, Injection, Surjection
  <1>7. ExistsBijection(I, S)
    BY <1>6 DEF ExistsBijection
  <1> QED
    BY <1>3, <1>4, <1>7, FS_Bijection

\* Between transactions that do not overlap, the events on record of every
\* engine are, each once, those its stored ticks call for, whatever was rolled
\* back before; a shift has at most one high idle ratio, and only if it was
\* closed; and a coaching message was sent for events on record alone
\* (behavior/engine.py: "sent only after it commits").
THEOREM EventsAreExact == Serial => (Spec => []EventsExact)
  <1> SUFFICES ASSUME Serial
               PROVE  Spec => []EventsExact
    OBVIOUS
  <1>1. Init => MemoryInv /\ EventInv
    BY MemoryStart, EventStart
  <1>2. (MemoryInv /\ EventInv) /\ [Next]_vars => (MemoryInv /\ EventInv)'
    BY MemoryStep, EventStep
  <1>3. MemoryInv /\ EventInv => EventsExact
    <2> SUFFICES ASSUME MemoryInv, EventInv, NEW e \in DOMAIN engines
                 PROVE  LET found == {i \in DOMAIN events :
                                        events[i].by = e /\ events[i].kind # "high_idle_ratio"}
                            highs == {i \in DOMAIN events :
                                         events[i].by = e /\ events[i].kind = "high_idle_ratio"}
                            expected == HabitEvents(e) \cup UNION {SpanEvents(e, d) : d \in Spans}
                        IN  /\ {events[i] : i \in found} = expected
                            /\ Cardinality(found) = Cardinality(expected)
                            /\ Cardinality(highs) <= Closings(e)
                            /\ announced \subseteq ToSet(events)
      BY DEF EventsExact
    <2>1. PICK habits, highs, expected :
             /\ habits = {i \in DOMAIN events :
                             events[i].by = e /\ events[i].kind # "high_idle_ratio"}
             /\ highs = {i \in DOMAIN events :
                            events[i].by = e /\ events[i].kind = "high_idle_ratio"}
             /\ expected = HabitEvents(e) \cup UNION {SpanEvents(e, d) : d \in Spans}
      OBVIOUS
    <2>2. e \in 1 .. Len(engines) /\ Listed /\ Recorded /\ Sendable /\ Stored
      BY DEF EventInv, MemoryInv, ShiftTypes
    <2>3. {events[i] : i \in habits} = expected
      <3>1. {events[i] : i \in habits} = HabitsOf(OnRecord, e)
        BY <2>1 DEF HabitsOf, OnRecord, IsRatio
      <3>2. expected = EventsOf(rows, e, engines[e].shift)
        BY <2>1, ExpectedAre
      <3> QED
        BY <2>2, <3>1, <3>2 DEF Recorded
    <2>4. Cardinality(habits) = Cardinality(expected)
      BY <2>1, <2>2, <2>3, AsMany
    <2>5. Cardinality(highs) <= Closings(e)
      <3>1. CASE highs = {}
        <4>1. Cardinality(highs) = 0 /\ Closings(e) \in {0, 1}
          BY <2>2, <3>1, ClosingsAre, FS_EmptySet
        <4> QED
          BY <4>1
      <3>2. CASE highs # {}
        <4>1. PICK i \in highs : TRUE
          BY <3>2
        <4>2. \A j \in highs : /\ events[j] \in OnRecord /\ IsRatio(events[j])
                               /\ events[j].by = e /\ j \in DOMAIN events
          BY <2>1 DEF OnRecord, IsRatio
        <4>3. highs = {i}
          BY <2>2, <4>1, <4>2 DEF Recorded, Listed
        <4>4. e \in Reported
          BY <2>2, <4>1, <4>2 DEF Recorded
        <4>5. Cardinality(highs) = 1 /\ Closings(e) = 1
          BY <2>2, <4>3, <4>4, ClosingsAre, FS_Singleton
        <4> QED
          BY <4>5
      <3> QED
        BY <3>1, <3>2
    <2>6. announced \subseteq ToSet(events)
      BY <2>2 DEF Sendable, OnRecord, ToSet
    <2> QED
      BY <2>1, <2>3, <2>4, <2>5, <2>6
  <1> QED
    BY <1>1, <1>2, <1>3, PTL DEF Spec

-----------------------------------------------------------------------------
(***************************************************************************)
(* The generated shift (BatchShift).  Its ticks show the phases they were  *)
(* given, its tasks are worked in turn and without a break between their   *)
(* ticks, and the machine idles for as long as the detector's limit only   *)
(* in a window in which it is made to.                                     *)
(***************************************************************************)

PhaseNames == {"working", "travelling", "idle", "blocked", "paused", "engine_off"}
TaskRuns ==
    [elapsed : Nat, blockedAt : Nat \cup {-1}, blockedFor : Nat, blockedLeft : Nat, progress : Nat]
RawTicks ==
    [task : Nat, phase : PhaseNames, running : BOOLEAN, hydraulic : BOOLEAN, moving : BOOLEAN,
     highRpm : BOOLEAN, fuel : Int, moved : Nat]

Drafted ==
    /\ plan.tasks = PlannedTasks /\ plan.windows \in Injections(PlannedTasks)
    /\ plan.waits \in [DOMAIN PlannedTasks -> Waits]

BatchTypes ==
    /\ runs \in [DOMAIN PlannedTasks -> TaskRuns]
    /\ runIdx \in 1 .. Len(PlannedTasks) + 1 /\ gapLeft \in Nat
    /\ ticks \in Seq(RawTicks)
    /\ Now <= ShiftTicks + OvertimeTicks

\* What the sensors show of a phase, and which phases a window and a gap leave.
Shows(t, anomaly) ==
    /\ t.running = (t.phase \notin {"engine_off", "paused"})
    /\ t.hydraulic = (t.phase = "working") /\ t.moving = (t.phase = "travelling")
    /\ t.highRpm = (t.phase = "travelling" /\ anomaly = "high_rpm_travel")
    /\ anomaly \in IdleKinds => t.phase = "idle"
    /\ anomaly = "high_rpm_travel" => t.phase = "travelling"
    /\ IF t.task = NoRun THEN t.phase \notin {"blocked", "paused"} ELSE t.phase # "engine_off"
Sensed == \A k \in DOMAIN ticks : Shows(ticks[k], AnomalyAt(k - 1))

\* The ticks of a task follow each other, after those of every task before it.
InTurn ==
    /\ \A k \in DOMAIN ticks : ticks[k].task <= runIdx /\ ticks[k].task <= Len(PlannedTasks)
    /\ \A j \in DOMAIN ticks : ticks[j].task = runIdx =>
          gapLeft = 0 /\ \A l \in j .. Now : ticks[l].task = runIdx
    /\ \A j, k \in DOMAIN ticks : j <= k /\ ticks[j].task = ticks[k].task /\ ticks[j].task # NoRun
          => \A l \in j .. k : ticks[l].task = ticks[j].task
    /\ \A i \in DOMAIN PlannedTasks : RunDone(runs[i], i) <=> i < runIdx

\* A run's progress is what its ticks moved.
Tallied ==
    \A i \in DOMAIN PlannedTasks :
        /\ runs[i].progress = SumFunctionOnSet(Moved, TicksFor(i))
        /\ runs[i].elapsed > 0 <=> TicksFor(i) # {}

\* Where no window hides it, a wait that began has been met but for what is left of it.
Waited ==
    plan.windows = {} => \A i \in DOMAIN PlannedTasks :
        LET met == InPhase(TicksFor(i), {"blocked"})
            run == runs[i]
            wait == plan.waits[i]
        IN  /\ run.blockedFor = wait.for /\ run.blockedLeft <= wait.for
            /\ run.blockedAt \in {wait.at, -1}
            /\ met = IF run.blockedAt = wait.at THEN 0
                     ELSE IF run.blockedLeft = 0 THEN wait.for ELSE wait.for - run.blockedLeft + 1
            /\ run.blockedAt = wait.at => run.blockedLeft = 0

\* A gap and the idle moments that may follow it are together shorter than the limit of
\* the detector; the windows whose detectors read ticks are longer than its limit and in
\* the shift.
Apart ==
    /\ 0 < TravelTicks /\ MaxIdleRun < IdleTicks
    /\ \A g \in TaskGaps : g + MaxIdleRun < IdleTicks
    /\ \A kind \in DOMAIN WindowStarts \cap ReplayedKinds :
          \A i \in DOMAIN WindowStarts[kind], n \in WindowTicks[kind] :
              /\ (IF kind = "excessive_idling" THEN IdleTicks ELSE TravelTicks) < n
              /\ \A s \in WindowStarts[kind][i] : s + n <= ShiftTicks

OwnIdle(k) == ticks[k].phase = "idle" /\ AnomalyAt(k - 1) \notin IdleKinds
OwnIdling(s, t) == \A k \in s .. t : OwnIdle(k)
Rolling(s, t) == \A k \in s .. t : IdleRoll(k)
InGap(s, t) == \A k \in s .. t : OwnIdle(k) /\ ticks[k].task = NoRun

\* Idling of a machine's own is that of a gap and then that of the task after it, as a
\* task ends on a tick at work: there are no more rolls in a row than there may be, the
\* gap with what is left of it is short, and once a task idles so does what follows.
ShortRolls ==
    \A s \in DOMAIN ticks, e \in DOMAIN ticks : s <= e /\ Rolling(s, e) => e - s + 1 <= MaxIdleRun
ShortGaps ==
    Apart =>
        /\ gapLeft + MaxIdleRun < IdleTicks
        /\ \A s \in DOMAIN ticks, e \in DOMAIN ticks :
              s <= e /\ InGap(s, e) =>
                  /\ e - s + 1 + MaxIdleRun < IdleTicks
                  /\ e = Now => e - s + 1 + gapLeft + MaxIdleRun < IdleTicks
RollsLast ==
    /\ \A s \in DOMAIN ticks, e \in DOMAIN ticks :
          s <= e /\ IdleRoll(s) /\ OwnIdling(s, e) => IdleRoll(e)
    /\ \A k \in DOMAIN ticks : k = Now /\ IdleRoll(k) => runIdx \in DOMAIN PlannedTasks /\ gapLeft = 0
ShortIdling == ShortRolls /\ ShortGaps /\ RollsLast

\* What was filed is what the finished shift shows.
Finished ==
    filed # {} =>
        /\ Now >= ShiftTicks /\ ~FinishingInOvertime
        /\ filed = {[actuals |-> [i \in DOMAIN plan.tasks |-> Actual(i)],
                     status |-> [i \in DOMAIN plan.tasks |-> HistoryStatus(i, Actual(i))],
                     summary |-> BatchSummary, events |-> ReplayEvents]}

BatchInv ==
    /\ Drafted /\ BatchTypes /\ Sensed /\ InTurn /\ Tallied /\ Waited /\ ShortIdling /\ Finished

LEMMA LimitsAre ==
    /\ ShiftTicks \in Nat /\ OvertimeTicks \in Nat /\ IdleTicks \in Nat /\ TravelTicks \in Nat
    /\ MaxIdleRun \in Nat /\ TaskGaps \subseteq Nat \ {0}
    /\ Waits \subseteq [at : Nat \cup {-1}, for : Nat]
  BY BatchAssumption

LEMMA PlannedAre ==
    /\ PlannedTasks \in Seq([target : Nat \ {0}, cubic : BOOLEAN, cycle : Nat])
    /\ Len(PlannedTasks) \in Nat /\ DOMAIN PlannedTasks = 1 .. Len(PlannedTasks)
    /\ \A i \in DOMAIN PlannedTasks : PlannedTasks[i].target \in Nat \ {0}
  <1> DEFINE T == [target : Nat \ {0}, cubic : BOOLEAN, cycle : Nat]
             Early == {i \in DOMAIN Drawn : PlannedStart(i) < ShiftTicks}
  <1>1. Drawn \in Seq(T) /\ DOMAIN Drawn = 1 .. Len(Drawn) /\ Len(Drawn) \in Nat
    BY BatchAssumption
  <1> HIDE DEF T
  <1>2. Early \in SUBSET (1 .. Len(Drawn))
    BY <1>1
  <1>3. PlannedTasks = SubSeq(Drawn, 1, Cardinality(Early))
    BY DEF PlannedTasks
  <1> HIDE DEF Early
  <1>4. Cardinality(Early) \in Nat /\ Cardinality(Early) <= Len(Drawn)
    <2>0. PICK m : m = Len(Drawn)
      OBVIOUS
    <2>1. IsFiniteSet(1 .. m) /\ Cardinality(1 .. m) = m
      <3>1. m \in Nat
        BY <1>1, <2>0
      <3> QED
        BY <3>1, FS_Interval
    <2>2. IsFiniteSet(Early) /\ Cardinality(Early) <= Len(Drawn)
      BY <1>2, <2>0, <2>1, FS_Subset
    <2> QED
      BY <2>2, FS_CardinalityType
  <1>5. PICK n \in Nat : n = Cardinality(Early) /\ n <= Len(Drawn)
    BY <1>4
  <1>6. \A i \in 1 .. n : Drawn[i] \in T
    <2>1. \A i \in DOMAIN Drawn : Drawn[i] \in T
      BY <1>1
    <2>2. 1 .. n \subseteq DOMAIN Drawn
      BY <1>1, <1>5
    <2> QED
      BY <2>1, <2>2
  <1>7. SubSeq(Drawn, 1, n) \in Seq(T)
    BY <1>6, SubSeqProperties
  <1>8. PlannedTasks \in Seq(T)
    BY <1>3, <1>5, <1>7
  <1>9. /\ Len(PlannedTasks) \in Nat /\ DOMAIN PlannedTasks = 1 .. Len(PlannedTasks)
        /\ \A i \in DOMAIN PlannedTasks : PlannedTasks[i] \in T
    BY <1>8
  <1> QED
    BY <1>8, <1>9 DEF T

\* The windows of a shift are of one kind, and each is one that kind may have.
LEMMA WindowsAre ==
    ASSUME Drafted
    PROVE  /\ \A v \in plan.windows, w \in plan.windows : v.kind = w.kind
           /\ \A w \in plan.windows : w.start \in Int /\ w.end \in Int
           /\ \A w \in plan.windows : w.kind # "legit_wait" =>
                 /\ w.kind \in DOMAIN WindowStarts /\ w.start \in Nat
                 /\ \E i \in DOMAIN WindowStarts[w.kind], n \in WindowTicks[w.kind] :
                       w.start \in WindowStarts[w.kind][i] /\ n \in Nat /\ w.end = w.start + n
  <1>1. CASE plan.windows = {}
    BY <1>1
  <1>2. CASE plan.windows = LegitWait
    BY <1>2, BatchAssumption DEF LegitWait
  <1>3. ASSUME NEW kind \in DOMAIN WindowStarts, plan.windows \in BuildWindows(kind)
        PROVE  \A w \in plan.windows :
                  /\ w.kind = kind /\ w.start \in Nat /\ w.end \in Int
                  /\ \E i \in DOMAIN WindowStarts[kind], n \in WindowTicks[kind] :
                        w.start \in WindowStarts[kind][i] /\ n \in Nat /\ w.end = w.start + n
    <2>1. PICK start \in [DOMAIN WindowStarts[kind] -> 0 .. ShiftTicks],
               length \in [DOMAIN WindowStarts[kind] -> WindowTicks[kind]] :
             /\ \A i \in DOMAIN start : start[i] \in WindowStarts[kind][i]
             /\ plan.windows = {[kind |-> kind, start |-> start[i], end |-> start[i] + length[i]] :
                                   i \in DOMAIN start}
      BY <1>3 DEF BuildWindows
    <2> SUFFICES ASSUME NEW i \in DOMAIN WindowStarts[kind],
                        NEW w, w = [kind |-> kind, start |-> start[i], end |-> start[i] + length[i]]
                 PROVE  /\ w.kind = kind /\ w.start \in Nat /\ w.end \in Int
                        /\ \E n \in WindowTicks[kind] :
                              w.start \in WindowStarts[kind][i] /\ n \in Nat /\ w.end = w.start + n
      BY <2>1
    <2>2. start[i] \in 0 .. ShiftTicks /\ start[i] \in WindowStarts[kind][i]
          /\ length[i] \in WindowTicks[kind]
      BY <2>1
    <2>3. WindowTicks[kind] \subseteq Nat /\ ShiftTicks \in Nat
      BY BatchAssumption
    <2> QED
      BY <2>2, <2>3
  <1>4. \/ plan.windows = {} \/ plan.windows = LegitWait
        \/ \E kind \in DOMAIN WindowStarts : plan.windows \in BuildWindows(kind)
    BY DEF Drafted, Injections
  <1> QED
    BY <1>1, <1>2, <1>3, <1>4

LEMMA AnomalyOf ==
    ASSUME Drafted, NEW t
    PROVE  /\ \A w \in plan.windows : Covers(w, t) => AnomalyAt(t) = w.kind
           /\ AnomalyAt(t) # NoAnomaly =>
                 \E w \in plan.windows : Covers(w, t) /\ AnomalyAt(t) = w.kind
           /\ plan.windows = {} => AnomalyAt(t) = NoAnomaly
  <1>1. PICK active : active = {w \in plan.windows : Covers(w, t)}
    OBVIOUS
  <1>2. AnomalyAt(t) = IF active = {} THEN NoAnomaly ELSE (CHOOSE w \in active : TRUE).kind
    BY <1>1 DEF AnomalyAt
  <1>3. active # {} => (CHOOSE w \in active : TRUE) \in active
    OBVIOUS
  <1> QED
    BY <1>1, <1>2, <1>3, WindowsAre

LEMMA BatchStarts == BatchInit => BatchInv
  <1> SUFFICES ASSUME BatchInit PROVE BatchInv
    OBVIOUS
  <1> USE DEF BatchInit
  <1>1. Drafted
    <2>1. /\ plan.tasks \in {PlannedTasks} /\ plan.windows \in Injections(PlannedTasks)
          /\ plan.waits \in [DOMAIN PlannedTasks -> Waits]
      OBVIOUS
    <2> QED
      BY <2>1 DEF Drafted
  <1>2. \A i \in DOMAIN PlannedTasks :
           /\ plan.waits[i] \in [at : Nat \cup {-1}, for : Nat]
           /\ runs[i].elapsed = 0 /\ runs[i].progress = 0 /\ runs[i].blockedLeft = 0
           /\ runs[i].blockedAt = plan.waits[i].at /\ runs[i].blockedFor = plan.waits[i].for
           /\ plan.waits[i].for \in Nat /\ runs[i] \in TaskRuns
    BY <1>1, BatchAssumption DEF Drafted, NewRun, TaskRuns
  <1>3. DOMAIN ticks = {} /\ Now = 0
    BY DEF Now
  <1>4. BatchTypes
    <2>1. runs \in [DOMAIN PlannedTasks -> TaskRuns]
      BY <1>1, <1>2 DEF Drafted
    <2>2. ticks \in Seq(RawTicks)
      OBVIOUS
    <2>3. Now <= ShiftTicks + OvertimeTicks
      BY <1>3, BatchAssumption
    <2> QED
      BY <2>1, <2>2, <2>3, PlannedAre DEF BatchTypes
  <1>5. \A i \in DOMAIN PlannedTasks : TicksFor(i) = {}
    BY <1>3 DEF TicksFor
  <1>6. InTurn
    <2>1. \A i \in DOMAIN PlannedTasks : ~RunDone(runs[i], i) /\ ~(i < runIdx)
      BY <1>1, <1>2, PlannedAre DEF Drafted, NewRun, RunDone
    <2> QED
      BY <1>3, <2>1 DEF InTurn
  <1>7. Tallied
    <2> HIDE DEF BatchInit
    <2>1. SumFunctionOnSet(Moved, {}) = 0
      BY SumOfNothing
    <2> QED
      BY <1>2, <1>5, <2>1 DEF Tallied
  <1>8. Waited
    <2>1. InPhase({}, {"blocked"}) = 0
      BY FS_EmptySet DEF InPhase
    <2> HIDE DEF BatchInit
    <2>2. \A i \in DOMAIN PlannedTasks : InPhase(TicksFor(i), {"blocked"}) = 0
      BY <1>5, <2>1, Zenon
    <2> QED
      BY <1>2, <2>2 DEF Waited
  <1>9. ShortIdling
    <2>1. gapLeft = 0 /\ IdleTicks \in Nat /\ MaxIdleRun \in Nat
      BY BatchAssumption
    <2> HIDE DEF BatchInit
    <2> QED
      BY <1>3, <2>1 DEF ShortIdling, ShortRolls, ShortGaps, RollsLast, Apart
  <1> QED
    BY <1>1, <1>3, <1>4, <1>6, <1>7, <1>8, <1>9 DEF BatchInv, Sensed, Finished

\* One tick more.
LEMMA TicksGrow ==
    ASSUME BatchTypes, NEW t \in RawTicks, ticks' = Append(ticks, t)
    PROVE  /\ Now \in Nat /\ Now' = Now + 1 /\ ticks' \in Seq(RawTicks)
           /\ DOMAIN ticks = 1 .. Now /\ DOMAIN ticks' = 1 .. Now + 1
           /\ \A k \in 1 .. Now : ticks'[k] = ticks[k] /\ ticks[k] \in RawTicks
           /\ ticks'[Now + 1] = t
  <1>1. ticks \in Seq(RawTicks)
    BY DEF BatchTypes
  <1> QED
    BY <1>1 DEF Now

LEMMA TasksGrow ==
    ASSUME BatchTypes, NEW t \in RawTicks, ticks' = Append(ticks, t), NEW i
    PROVE  /\ IsFiniteSet(TicksFor(i)) /\ Now + 1 \notin TicksFor(i) /\ TicksFor(i) \subseteq 1 .. Now
           /\ TicksFor(i)' = IF t.task = i THEN TicksFor(i) \cup {Now + 1} ELSE TicksFor(i)
  <1>1. /\ Now \in Nat /\ DOMAIN ticks = 1 .. Now /\ DOMAIN ticks' = 1 .. Now + 1
        /\ \A k \in 1 .. Now : ticks'[k] = ticks[k]
        /\ ticks'[Now + 1] = t
    BY TicksGrow
  <1>2. IsFiniteSet(1 .. Now)
    BY <1>1, FS_Interval
  <1>3. TicksFor(i) \subseteq 1 .. Now
    BY <1>1 DEF TicksFor
  <1>4. IsFiniteSet(TicksFor(i))
    BY <1>2, <1>3, FS_Subset
  <1>5. TicksFor(i)' = {k \in 1 .. Now + 1 : ticks'[k].task = i}
    BY <1>1 DEF TicksFor
  <1>6. TicksFor(i) = {k \in 1 .. Now : ticks[k].task = i}
    BY <1>1 DEF TicksFor
  <1>7. TicksFor(i)' = IF t.task = i THEN TicksFor(i) \cup {Now + 1} ELSE TicksFor(i)
    BY <1>1, <1>5, <1>6
  <1> QED
    BY <1>1, <1>3, <1>4, <1>7

LEMMA MovedGrows ==
    ASSUME BatchTypes, NEW t \in RawTicks, ticks' = Append(ticks, t), NEW i
    PROVE  /\ SumFunctionOnSet(Moved, TicksFor(i)) \in Nat
           /\ SumFunctionOnSet(Moved', TicksFor(i)')
                 = SumFunctionOnSet(Moved, TicksFor(i)) + IF t.task = i THEN t.moved ELSE 0
  <1>1. PICK K, f, g, n : K = TicksFor(i) /\ f = Moved /\ g = Moved' /\ n = Now
    OBVIOUS
  <1>2. /\ n \in Nat /\ DOMAIN ticks = 1 .. n /\ DOMAIN ticks' = 1 .. n + 1
        /\ \A k \in 1 .. n : ticks'[k] = ticks[k] /\ ticks[k] \in RawTicks
        /\ ticks'[n + 1] = t
    BY <1>1, TicksGrow
  <1>3. IsFiniteSet(K) /\ n + 1 \notin K /\ K \subseteq 1 .. n
    BY <1>1, TasksGrow
  <1>4. \A k \in 1 .. n : f[k] = ticks[k].moved /\ g[k] = ticks[k].moved /\ f[k] \in Nat
    BY <1>1, <1>2 DEF Moved, RawTicks
  <1>5. g[n + 1] = t.moved /\ t.moved \in Nat
    BY <1>1, <1>2 DEF Moved, RawTicks
  <1>6. SumFunctionOnSet(g, K) = SumFunctionOnSet(f, K)
    <2>1. \A x \in K : g[x] = f[x]
      BY <1>3, <1>4
    <2> QED
      BY <1>3, <2>1, SumSame
  <1>7. SumFunctionOnSet(f, K) \in Nat
    <2>1. \A x \in K : f[x] \in Int /\ f[x] >= 0
      BY <1>3, <1>4
    <2>2. SumFunctionOnSet(f, K) \in Int /\ SumFunctionOnSet(f, K) >= 0
      BY <1>3, <2>1, SumType
    <2> QED
      BY <2>2
  <1>8. SumFunctionOnSet(g, K \cup {n + 1}) = t.moved + SumFunctionOnSet(g, K)
    <2>1. \A x \in K \cup {n + 1} : g[x] \in Int
      BY <1>3, <1>4, <1>5
    <2> QED
      BY <1>3, <1>5, <2>1, SumAdded
  <1>9. CASE t.task = i
    <2>1. TicksFor(i)' = K \cup {n + 1}
      BY <1>1, <1>9, TasksGrow
    <2>2. SumFunctionOnSet(Moved', TicksFor(i)') = SumFunctionOnSet(g, K \cup {n + 1})
      BY <1>1, <2>1, Zenon
    <2> QED
      BY <1>1, <1>5, <1>6, <1>7, <1>8, <1>9, <2>2
  <1>10. CASE t.task # i
    <2>1. TicksFor(i)' = K
      BY <1>1, <1>10, TasksGrow
    <2>2. SumFunctionOnSet(Moved', TicksFor(i)') = SumFunctionOnSet(g, K)
      BY <1>1, <2>1, Zenon
    <2> QED
      BY <1>1, <1>6, <1>7, <1>10, <2>2
  <1> QED
    BY <1>9, <1>10

LEMMA PhasesGrow ==
    ASSUME BatchTypes, NEW t \in RawTicks, ticks' = Append(ticks, t), NEW i, NEW names
    PROVE  /\ InPhase(TicksFor(i), names) \in Nat
           /\ InPhase(TicksFor(i), names)'
                 = InPhase(TicksFor(i), names) + IF t.task = i /\ t.phase \in names THEN 1 ELSE 0
  <1>1. PICK K, n : K = {k \in TicksFor(i) : ticks[k].phase \in names} /\ n = Now
    OBVIOUS
  <1>2. /\ n \in Nat /\ \A k \in 1 .. n : ticks'[k] = ticks[k]
        /\ ticks'[n + 1] = t
    BY <1>1, TicksGrow
  <1>3. IsFiniteSet(TicksFor(i)) /\ n + 1 \notin TicksFor(i) /\ TicksFor(i) \subseteq 1 .. n
    BY <1>1, TasksGrow
  <1>4. IsFiniteSet(K) /\ n + 1 \notin K
    BY <1>1, <1>3, FS_Subset
  <1>5. {k \in TicksFor(i)' : ticks'[k].phase \in names}
           = IF t.task = i /\ t.phase \in names THEN K \cup {n + 1} ELSE K
    <2>1. TicksFor(i)' = IF t.task = i THEN TicksFor(i) \cup {n + 1} ELSE TicksFor(i)
      BY <1>1, TasksGrow
    <2> QED
      BY <1>1, <1>2, <1>3, <2>1
  <1>6. InPhase(TicksFor(i), names) = Cardinality(K) /\ Cardinality(K) \in Nat
    BY <1>1, <1>4, FS_CardinalityType DEF InPhase
  <1>7. InPhase(TicksFor(i), names)' = Cardinality({k \in TicksFor(i)' : ticks'[k].phase \in names})
    BY DEF InPhase
  <1>8. Cardinality(K \cup {n + 1}) = Cardinality(K) + 1
    BY <1>4, FS_AddElement
  <1>9. CASE t.task = i /\ t.phase \in names
    <2>1. {k \in TicksFor(i)' : ticks'[k].phase \in names} = K \cup {n + 1}
      BY <1>5, <1>9
    <2>2. InPhase(TicksFor(i), names)' = Cardinality(K \cup {n + 1})
      BY <1>7, <2>1, Zenon
    <2> QED
      BY <1>6, <1>8, <1>9, <2>2
  <1>10. CASE ~(t.task = i /\ t.phase \in names)
    <2>1. {k \in TicksFor(i)' : ticks'[k].phase \in names} = K
      BY <1>5, <1>10
    <2>2. InPhase(TicksFor(i), names)' = Cardinality(K)
      BY <1>7, <2>1, Zenon
    <2> QED
      BY <1>6, <1>10, <2>2
  <1> QED
    BY <1>9, <1>10

\* The wait a run is in after its update.
LEMMA UpdateIs ==
    ASSUME NEW run \in TaskRuns
    PROVE  /\ UpdateBlocked(run) \in TaskRuns
           /\ UpdateBlocked(run).progress = run.progress
           /\ UpdateBlocked(run).elapsed = run.elapsed
           /\ UpdateBlocked(run).blockedFor = run.blockedFor
           /\ LET starts == run.blockedLeft = 0 /\ run.blockedAt >= 0 /\ run.elapsed >= run.blockedAt
              IN  /\ UpdateBlocked(run).blockedAt = IF starts THEN -1 ELSE run.blockedAt
                  /\ UpdateBlocked(run).blockedLeft =
                        IF starts THEN run.blockedFor
                        ELSE IF run.blockedLeft > 0 THEN run.blockedLeft - 1 ELSE 0
  <1>1. CASE run.blockedLeft > 0
    BY <1>1 DEF UpdateBlocked, TaskRuns
  <1>2. CASE run.blockedLeft = 0 /\ run.blockedAt >= 0 /\ run.elapsed >= run.blockedAt
    <2>1. PICK on : on = [run EXCEPT !.blockedLeft = run.blockedFor]
      OBVIOUS
    <2>2. on \in TaskRuns /\ on.blockedLeft = run.blockedFor /\ on.progress = run.progress
          /\ on.elapsed = run.elapsed /\ on.blockedFor = run.blockedFor
      BY <2>1 DEF TaskRuns
    <2>3. UpdateBlocked(run) = [on EXCEPT !.blockedAt = -1]
      BY <1>2, <2>1 DEF UpdateBlocked
    <2> QED
      BY <1>2, <2>2, <2>3 DEF TaskRuns
  <1>3. CASE run.blockedLeft = 0 /\ ~(run.blockedAt >= 0 /\ run.elapsed >= run.blockedAt)
    BY <1>3 DEF UpdateBlocked, TaskRuns
  <1> QED
    BY <1>1, <1>2, <1>3 DEF TaskRuns

\* What a tick of a task does, as far as the invariant tells it apart.
WorkedTick(t, after) ==
    /\ filed = {} /\ filed' = {} /\ plan' = plan
    /\ runIdx \in DOMAIN PlannedTasks /\ gapLeft = 0 /\ Now < ShiftTicks + OvertimeTicks
    /\ ticks' = Append(ticks, t) /\ t.task = runIdx /\ Shows(t, AnomalyAt(Now))
    /\ runs' = [runs EXCEPT ![runIdx] = after]
    /\ after.progress = runs[runIdx].progress + t.moved
    /\ after.elapsed = runs[runIdx].elapsed + 1
    /\ after.blockedAt = UpdateBlocked(runs[runIdx]).blockedAt
    /\ after.blockedFor = runs[runIdx].blockedFor
    /\ after.blockedLeft = UpdateBlocked(runs[runIdx]).blockedLeft
    /\ t.phase # "working" => t.moved = 0
    /\ AnomalyAt(Now) = NoAnomaly => (t.phase = "blocked" <=> after.blockedLeft > 0)
    /\ t.phase = "idle" /\ AnomalyAt(Now) \notin IdleKinds =>
          ~(Now >= MaxIdleRun /\ \A k \in Now - MaxIdleRun + 1 .. Now : IdleRoll(k))
    /\ IF RunDone(after, runIdx) THEN runIdx' = runIdx + 1 /\ gapLeft' \in TaskGaps
       ELSE runIdx' = runIdx /\ gapLeft' = 0

LEMMA TaskTickIs ==
    ASSUME BatchInv, TaskTick
    PROVE  \E t \in RawTicks, after \in TaskRuns : WorkedTick(t, after)
  <1>1. /\ runIdx \in 1 .. Len(PlannedTasks) + 1 /\ Len(PlannedTasks) \in Nat
        /\ DOMAIN PlannedTasks = 1 .. Len(PlannedTasks) /\ plan.tasks = PlannedTasks
        /\ AtWork /\ Generating
    BY PlannedAre DEF BatchInv, BatchTypes, Drafted, TaskTick
  <1>2. runIdx \in DOMAIN PlannedTasks /\ gapLeft = 0
    BY <1>1 DEF AtWork, AllDone
  <1>3. filed = {} /\ filed' = {} /\ plan' = plan
    BY DEF TaskTick, Generating
  <1>4. Now < ShiftTicks + OvertimeTicks
    <2>1. Now \in Nat
      BY DEF BatchInv, BatchTypes, Now
    <2> QED
      BY <1>1, <2>1, BatchAssumption DEF Generating, FinishingInOvertime
  <1>5. ActiveAnomaly = AnomalyAt(Now)
    BY DEF ActiveAnomaly
  <1>6. PICK run, anomaly : run = UpdateBlocked(runs[runIdx]) /\ anomaly = AnomalyAt(Now)
    OBVIOUS
  <1>7. runs[runIdx] \in TaskRuns /\ runs \in [DOMAIN PlannedTasks -> TaskRuns]
    BY <1>2 DEF BatchInv, BatchTypes
  <1>8. /\ run \in TaskRuns /\ run.progress = runs[runIdx].progress
        /\ run.elapsed = runs[runIdx].elapsed /\ run.blockedFor = runs[runIdx].blockedFor
    BY <1>6, <1>7, UpdateIs
  <1>9. PICK phase \in Phases(run.blockedLeft, anomaly) :
          LET digs == phase = "working"
              full == digs /\ cycleCounter + 1 >= plan.tasks[runIdx].cycle
          IN \E moved \in (IF full THEN CycleQuantity(runIdx, anomaly) ELSE {0}) :
             LET after == Worked(run, moved)
                 over == RunDone(after, runIdx)
             IN /\ ticks' = Append(ticks, RawTick(runIdx, phase, anomaly, moved))
                /\ runs' = [runs EXCEPT ![runIdx] = after]
                /\ runIdx' = IF over THEN runIdx + 1 ELSE runIdx
                /\ gapLeft' \in (IF over THEN TaskGaps ELSE {0})
    BY <1>5, <1>6 DEF TaskTick
  <1>10. PICK moved : LET after == Worked(run, moved)
                          over == RunDone(after, runIdx)
                      IN /\ moved \in {0, 2, 3, 4} /\ (phase # "working" => moved = 0)
                         /\ ticks' = Append(ticks, RawTick(runIdx, phase, anomaly, moved))
                         /\ runs' = [runs EXCEPT ![runIdx] = after]
                         /\ runIdx' = IF over THEN runIdx + 1 ELSE runIdx
                         /\ gapLeft' \in (IF over THEN TaskGaps ELSE {0})
    BY <1>9 DEF CycleQuantity
  <1>11. PICK t, after : /\ t = RawTick(runIdx, phase, anomaly, moved)
                         /\ after = Worked(run, moved)
    OBVIOUS
  <1>12. /\ after \in TaskRuns /\ after.progress = run.progress + moved
         /\ after.elapsed = run.elapsed + 1 /\ after.blockedAt = run.blockedAt
         /\ after.blockedFor = run.blockedFor /\ after.blockedLeft = run.blockedLeft
    <2>1. moved \in Nat
      BY <1>10
    <2>2. PICK on : on = [run EXCEPT !.progress = @ + moved]
      OBVIOUS
    <2>3. after = [on EXCEPT !.elapsed = @ + 1]
      BY <1>11, <2>2 DEF Worked
    <2>4. /\ on \in TaskRuns /\ on.progress = run.progress + moved
          /\ on.elapsed = run.elapsed /\ on.blockedAt = run.blockedAt
          /\ on.blockedFor = run.blockedFor /\ on.blockedLeft = run.blockedLeft
      BY <1>8, <2>1, <2>2 DEF TaskRuns
    <2> QED
      BY <2>3, <2>4 DEF TaskRuns
  <1>13. /\ t.task = runIdx /\ t.phase = phase /\ t.moved = moved
         /\ t.running = (phase \notin {"engine_off", "paused"})
         /\ t.hydraulic = (phase = "working") /\ t.moving = (phase = "travelling")
         /\ t.highRpm = (phase = "travelling" /\ anomaly = "high_rpm_travel")
    BY <1>11 DEF RawTick
  <1>14. /\ phase \in PhaseNames \ {"engine_off"}
         /\ anomaly \in IdleKinds => phase = "idle"
         /\ anomaly = "high_rpm_travel" => phase = "travelling"
         /\ anomaly = NoAnomaly => (phase = "blocked" <=> run.blockedLeft > 0)
         /\ phase = "idle" /\ anomaly \notin IdleKinds =>
               ~(Now >= MaxIdleRun /\ \A k \in Now - MaxIdleRun + 1 .. Now : IdleRoll(k))
    <2>1. Phases(run.blockedLeft, anomaly) =
            IF anomaly \in IdleKinds THEN {"idle"}
            ELSE IF anomaly = "repeated_overloading" THEN {"working"}
            ELSE IF anomaly \in TravelKinds THEN {"travelling"}
            ELSE IF anomaly = "legit_wait" \/ run.blockedLeft > 0 THEN {"blocked"}
            ELSE IF \E w \in plan.breaks : Covers(w, Now) THEN {"paused"}
            ELSE Rolled
      BY <1>1 DEF Phases
    <2>2. Rolled \subseteq {"working", "travelling", "idle"}
      BY DEF Rolled
    <2>3. "idle" \in Rolled =>
             ~(Now >= MaxIdleRun /\ \A k \in Now - MaxIdleRun + 1 .. Now : IdleRoll(k))
      BY DEF Rolled
    <2>5. phase \in PhaseNames \ {"engine_off"}
      BY <1>9, <2>1, <2>2 DEF PhaseNames
    <2>6. anomaly \in IdleKinds => phase = "idle"
      BY <1>9, <2>1
    <2>7. anomaly = "high_rpm_travel" => phase = "travelling"
      BY <1>9, <2>1 DEF IdleKinds, TravelKinds
    <2>8. anomaly = NoAnomaly => (phase = "blocked" <=> run.blockedLeft > 0)
      BY <1>9, <2>1, <2>2 DEF IdleKinds, TravelKinds, NoAnomaly
    <2>9. phase = "idle" /\ anomaly \notin IdleKinds => "idle" \in Rolled
      BY <1>9, <2>1
    <2> QED
      BY <2>3, <2>5, <2>6, <2>7, <2>8, <2>9
  <1>15. t \in RawTicks
    <2>1. t.fuel \in Int
      <3>1. FuelRate(phase) \in Int
        BY DEF FuelRate
      <3>2. ticks \in Seq(RawTicks) /\ Now = Len(ticks)
        BY DEF BatchInv, BatchTypes, Now
      <3>3. ticks # <<>> => ticks[Now].fuel \in Int
        <4>1. ticks # <<>> => ticks[Now] \in RawTicks
          BY <3>2
        <4> QED
          BY <4>1 DEF RawTicks
      <3> QED
        BY <1>11, <3>1, <3>3 DEF RawTick
    <2>2. runIdx \in Nat /\ moved \in Nat /\ phase \in PhaseNames
      BY <1>1, <1>10, <1>14
    <2> QED
      BY <1>11, <2>1, <2>2 DEF RawTick, RawTicks
  <1>16. Shows(t, anomaly)
    BY <1>1, <1>2, <1>13, <1>14 DEF Shows, NoRun
  <1>17. IF RunDone(after, runIdx) THEN runIdx' = runIdx + 1 /\ gapLeft' \in TaskGaps
         ELSE runIdx' = runIdx /\ gapLeft' = 0
    BY <1>10, <1>11
  <1>18. /\ ticks' = Append(ticks, t) /\ runs' = [runs EXCEPT ![runIdx] = after]
         /\ t.phase # "working" => t.moved = 0
    BY <1>10, <1>11, <1>13
  <1>19. WorkedTick(t, after)
    BY <1>2, <1>3, <1>4, <1>6, <1>8, <1>12, <1>13, <1>14, <1>16, <1>17, <1>18 DEF WorkedTick
  <1> QED
    BY <1>12, <1>15, <1>19

\* And one of no task.
GapTick(t) ==
    /\ filed = {} /\ filed' = {} /\ plan' = plan /\ Now < ShiftTicks + OvertimeTicks
    /\ ticks' = Append(ticks, t) /\ t.task = NoRun /\ Shows(t, AnomalyAt(Now))
    /\ runs' = runs /\ runIdx' = runIdx /\ t.moved = 0
    /\ runIdx \in DOMAIN PlannedTasks => gapLeft > 0
    /\ gapLeft' = IF gapLeft > 0 THEN gapLeft - 1 ELSE 0
    /\ t.phase = "idle" /\ AnomalyAt(Now) \notin IdleKinds => gapLeft > 0

LEMMA BetweenTickIs ==
    ASSUME BatchInv, BetweenTick
    PROVE  \E t \in RawTicks : GapTick(t)
  <1>1. /\ runIdx \in 1 .. Len(PlannedTasks) + 1 /\ Len(PlannedTasks) \in Nat /\ gapLeft \in Nat
        /\ DOMAIN PlannedTasks = 1 .. Len(PlannedTasks) /\ plan.tasks = PlannedTasks
        /\ ~AtWork /\ Generating
    BY PlannedAre DEF BatchInv, BatchTypes, Drafted, BetweenTick
  <1>2. runIdx \in DOMAIN PlannedTasks => gapLeft > 0
    BY <1>1 DEF AtWork, AllDone
  <1>3. /\ filed = {} /\ filed' = {} /\ plan' = plan /\ runs' = runs /\ runIdx' = runIdx
        /\ gapLeft' = IF gapLeft > 0 THEN gapLeft - 1 ELSE 0
    BY DEF BetweenTick, Generating
  <1>4. Now < ShiftTicks + OvertimeTicks
    <2>1. Now \in Nat
      BY DEF BatchInv, BatchTypes, Now
    <2> QED
      BY <1>1, <2>1, BatchAssumption DEF Generating, FinishingInOvertime
  <1>5. PICK anomaly : anomaly = AnomalyAt(Now) /\ anomaly = ActiveAnomaly
    BY DEF ActiveAnomaly
  <1>6. PICK phase \in Phases(0, anomaly) : ticks' = Append(ticks, RawTick(NoRun, phase, anomaly, 0))
    BY <1>5 DEF BetweenTick
  <1>7. PICK t : t = RawTick(NoRun, phase, anomaly, 0)
    OBVIOUS
  <1>8. /\ t.task = NoRun /\ t.phase = phase /\ t.moved = 0
        /\ t.running = (phase \notin {"engine_off", "paused"})
        /\ t.hydraulic = (phase = "working") /\ t.moving = (phase = "travelling")
        /\ t.highRpm = (phase = "travelling" /\ anomaly = "high_rpm_travel")
    BY <1>7 DEF RawTick
  <1>9. Phases(0, anomaly) =
          IF anomaly \in IdleKinds THEN {"idle"}
          ELSE IF anomaly = "repeated_overloading" THEN {"working"}
          ELSE IF anomaly \in TravelKinds THEN {"travelling"}
          ELSE {IF AllDone THEN "engine_off" ELSE "idle"}
    BY <1>1 DEF Phases
  <1>10. /\ phase \in PhaseNames \ {"blocked", "paused"}
         /\ anomaly \in IdleKinds => phase = "idle"
         /\ anomaly = "high_rpm_travel" => phase = "travelling"
         /\ phase = "idle" /\ anomaly \notin IdleKinds => ~AllDone
    BY <1>6, <1>9 DEF PhaseNames, IdleKinds, TravelKinds
  <1>11. t \in RawTicks
    <2>1. t.fuel \in Int
      <3>1. FuelRate(phase) \in Int
        BY DEF FuelRate
      <3>2. ticks \in Seq(RawTicks) /\ Now = Len(ticks)
        BY DEF BatchInv, BatchTypes, Now
      <3>3. ticks # <<>> => ticks[Now].fuel \in Int
        <4>1. ticks # <<>> => ticks[Now] \in RawTicks
          BY <3>2
        <4> QED
          BY <4>1 DEF RawTicks
      <3> QED
        BY <1>7, <3>1, <3>3 DEF RawTick
    <2> QED
      BY <1>7, <1>10, <2>1 DEF RawTick, RawTicks, NoRun
  <1>12. Shows(t, anomaly)
    BY <1>8, <1>10 DEF Shows
  <1>13. phase = "idle" /\ anomaly \notin IdleKinds => gapLeft > 0
    BY <1>1, <1>2, <1>10 DEF AllDone
  <1>14. ticks' = Append(ticks, t)
    BY <1>6, <1>7
  <1>15. GapTick(t)
    BY <1>2, <1>3, <1>4, <1>5, <1>8, <1>12, <1>13, <1>14 DEF GapTick
  <1> QED
    BY <1>11, <1>15

LEMMA BatchTypesStep ==
    ASSUME BatchInv, NEW t \in RawTicks
    PROVE  /\ (\E after \in TaskRuns : WorkedTick(t, after)) => BatchTypes' /\ Drafted'
           /\ GapTick(t) => BatchTypes' /\ Drafted'
  <1>1. /\ runs \in [DOMAIN PlannedTasks -> TaskRuns] /\ runIdx \in 1 .. Len(PlannedTasks) + 1
        /\ gapLeft \in Nat /\ Len(PlannedTasks) \in Nat /\ DOMAIN PlannedTasks = 1 .. Len(PlannedTasks)
        /\ BatchTypes /\ Drafted
    BY PlannedAre DEF BatchInv, BatchTypes
  <1>2. PlannedTasks' = PlannedTasks /\ ShiftTicks + OvertimeTicks \in Nat
    BY BatchAssumption DEF PlannedTasks, PlannedStart, EstimateDuration
  <1>3. ASSUME NEW after \in TaskRuns, WorkedTick(t, after) PROVE BatchTypes' /\ Drafted'
    <2>1. ticks' \in Seq(RawTicks) /\ Now' <= ShiftTicks + OvertimeTicks
      BY <1>1, <1>2, <1>3, TicksGrow DEF WorkedTick
    <2>2. runs' \in [DOMAIN PlannedTasks -> TaskRuns]
      BY <1>1, <1>3 DEF WorkedTick
    <2>3. runIdx' \in 1 .. Len(PlannedTasks) + 1 /\ gapLeft' \in Nat
      <3>1. IF RunDone(after, runIdx) THEN runIdx' = runIdx + 1 /\ gapLeft' \in TaskGaps
            ELSE runIdx' = runIdx /\ gapLeft' = 0
        BY <1>3 DEF WorkedTick
      <3>2. runIdx \in 1 .. Len(PlannedTasks)
        BY <1>1, <1>3 DEF WorkedTick
      <3>3. TaskGaps \subseteq Nat
        BY LimitsAre
      <3>4. gapLeft' = 0 \/ gapLeft' \in TaskGaps
        BY <3>1
      <3>5. gapLeft' \in Nat
        <4>1. 0 \in Nat
          OBVIOUS
        <4> QED
          BY <3>3, <3>4, <4>1
      <3>6. runIdx' = runIdx + 1 \/ runIdx' = runIdx
        BY <3>1
      <3>7. runIdx' \in 1 .. Len(PlannedTasks) + 1
        BY <1>1, <3>2, <3>6
      <3> QED
        BY <3>5, <3>7
    <2> QED
      BY <1>1, <1>3, <2>1, <2>2, <2>3 DEF WorkedTick, BatchTypes, Drafted
  <1>4. ASSUME GapTick(t) PROVE BatchTypes' /\ Drafted'
    <2>1. ticks' \in Seq(RawTicks) /\ Now' <= ShiftTicks + OvertimeTicks
      BY <1>1, <1>2, <1>4, TicksGrow DEF GapTick
    <2>2. gapLeft' \in Nat
      BY <1>1, <1>4 DEF GapTick
    <2> QED
      BY <1>1, <1>4, <2>1, <2>2 DEF GapTick, BatchTypes, Drafted
  <1> QED
    BY <1>3, <1>4

LEMMA SensedStep ==
    ASSUME BatchTypes, Sensed, NEW t \in RawTicks, ticks' = Append(ticks, t), plan' = plan,
           Shows(t, AnomalyAt(Now))
    PROVE  Sensed' /\ \A k : AnomalyAt(k)' = AnomalyAt(k)
  <1>1. \A k : AnomalyAt(k)' = AnomalyAt(k)
    BY DEF AnomalyAt, Covers
  <1>2. /\ Now \in Nat /\ DOMAIN ticks = 1 .. Now /\ DOMAIN ticks' = 1 .. Now + 1
        /\ \A k \in 1 .. Now : ticks'[k] = ticks[k]
        /\ ticks'[Now + 1] = t
    BY TicksGrow
  <1>3. \A k \in DOMAIN ticks' : Shows(ticks'[k], AnomalyAt(k - 1))
    <2> SUFFICES ASSUME NEW k \in 1 .. Now + 1 PROVE Shows(ticks'[k], AnomalyAt(k - 1))
      BY <1>2
    <2>1. CASE k \in 1 .. Now
      BY <1>2, <2>1 DEF Sensed
    <2>2. CASE k = Now + 1
      <3>1. k - 1 = Now /\ ticks'[k] = t
        BY <1>2, <2>2
      <3> QED
        BY <3>1
    <2> QED
      BY <1>2, <2>1, <2>2
  <1>4. \A k \in DOMAIN ticks' : Shows(ticks'[k], AnomalyAt(k - 1)')
    BY <1>1, <1>3
  <1>5. Sensed'
    BY <1>4 DEF Sensed, Shows
  <1> QED
    BY <1>1, <1>5

LEMMA InTurnStep ==
    ASSUME BatchInv, NEW t \in RawTicks
    PROVE  /\ (\E after \in TaskRuns : WorkedTick(t, after)) => InTurn'
           /\ GapTick(t) => InTurn'
  <1>1. /\ runs \in [DOMAIN PlannedTasks -> TaskRuns] /\ runIdx \in 1 .. Len(PlannedTasks) + 1
        /\ Len(PlannedTasks) \in Nat /\ DOMAIN PlannedTasks = 1 .. Len(PlannedTasks)
        /\ BatchTypes /\ InTurn
    BY PlannedAre DEF BatchInv, BatchTypes
  <1>2. PlannedTasks' = PlannedTasks
    BY DEF PlannedTasks, PlannedStart, EstimateDuration
  <1>3. ASSUME ticks' = Append(ticks, t)
        PROVE  /\ Now \in Nat /\ DOMAIN ticks = 1 .. Now /\ DOMAIN ticks' = 1 .. Now + 1
               /\ Now' = Now + 1 /\ ticks'[Now + 1] = t /\ t.task \in Nat
               /\ \A k \in 1 .. Now : ticks'[k] = ticks[k] /\ ticks[k].task \in Nat
    BY <1>1, <1>3, TicksGrow DEF RawTicks
  <1>4. PICK n : n = Now
    OBVIOUS
  <1>5. ASSUME NEW after \in TaskRuns, WorkedTick(t, after) PROVE InTurn'
    <2>1. ticks' = Append(ticks, t) /\ plan' = plan /\ runIdx \in DOMAIN PlannedTasks
          /\ t.task = runIdx /\ runs' = [runs EXCEPT ![runIdx] = after]
      BY <1>5 DEF WorkedTick
    <2>2. IF RunDone(after, runIdx) THEN runIdx' = runIdx + 1 ELSE runIdx' = runIdx /\ gapLeft' = 0
      BY <1>5 DEF WorkedTick
    <2>3. /\ n \in Nat /\ DOMAIN ticks = 1 .. n /\ DOMAIN ticks' = 1 .. n + 1
          /\ Now' = n + 1 /\ ticks'[n + 1] = t
          /\ \A k \in 1 .. n : ticks'[k] = ticks[k] /\ ticks[k].task \in Nat
      BY <1>3, <1>4, <2>1
    <2>4. \A k \in 1 .. n : ticks[k].task <= runIdx /\ ticks[k].task <= Len(PlannedTasks)
      BY <1>1, <2>3 DEF InTurn
    <2>5. \A j \in 1 .. n : ticks[j].task = runIdx => \A l \in j .. n : ticks[l].task = runIdx
      BY <1>1, <1>4, <2>3 DEF InTurn
    <2>10. \A j \in 1 .. n, k \in 1 .. n :
              j <= k /\ ticks[j].task = ticks[k].task /\ ticks[j].task # NoRun
              => \A l \in j .. k : ticks[l].task = ticks[j].task
      BY <1>1, <2>3 DEF InTurn
    <2>6. \A k \in DOMAIN ticks' : ticks'[k].task <= runIdx' /\ ticks'[k].task <= Len(PlannedTasks)
      BY <1>1, <2>1, <2>2, <2>3, <2>4
    <2>7. \A j \in DOMAIN ticks' : ticks'[j].task = runIdx' =>
             gapLeft' = 0 /\ \A l \in j .. Now' : ticks'[l].task = runIdx'
      <3>1. CASE RunDone(after, runIdx)
        BY <1>1, <2>1, <2>2, <2>3, <2>4, <3>1
      <3>2. CASE ~RunDone(after, runIdx)
        <4> SUFFICES ASSUME NEW j \in 1 .. n + 1, ticks'[j].task = runIdx, NEW l \in j .. n + 1
                     PROVE  ticks'[l].task = runIdx
          BY <2>2, <2>3, <3>2
        <4>1. CASE l = n + 1
          BY <2>1, <2>3, <4>1
        <4>2. CASE l # n + 1
          <5>1. j \in 1 .. n /\ l \in 1 .. n /\ l \in j .. n
            BY <2>3, <4>2
          <5> QED
            BY <2>3, <2>5, <5>1
        <4> QED
          BY <4>1, <4>2
      <3> QED
        BY <3>1, <3>2
    <2>8. \A j, k \in DOMAIN ticks' :
             j <= k /\ ticks'[j].task = ticks'[k].task /\ ticks'[j].task # NoRun
             => \A l \in j .. k : ticks'[l].task = ticks'[j].task
      <3> SUFFICES ASSUME NEW j \in 1 .. n + 1, NEW k \in 1 .. n + 1, j <= k,
                          ticks'[j].task = ticks'[k].task, ticks'[j].task # NoRun, NEW l \in j .. k
                   PROVE  ticks'[l].task = ticks'[j].task
        BY <2>3
      <3>1. CASE k \in 1 .. n
        <4>1. j \in 1 .. n /\ l \in 1 .. n
          BY <2>3, <3>1
        <4> QED
          BY <2>3, <2>10, <3>1, <4>1
      <3>2. CASE k = n + 1
        <4>1. ticks'[j].task = runIdx
          BY <2>1, <2>3, <3>2
        <4>2. CASE l = n + 1
          BY <2>1, <2>3, <4>1, <4>2
        <4>3. CASE l # n + 1
          <5>1. j \in 1 .. n /\ l \in 1 .. n /\ l \in j .. n
            BY <2>3, <3>2, <4>3
          <5> QED
            BY <2>3, <2>5, <4>1, <5>1
        <4> QED
          BY <4>2, <4>3
      <3> QED
        BY <2>3, <3>1, <3>2
    <2>9. \A i \in DOMAIN PlannedTasks : (runs'[i].progress >= 3 * plan'.tasks[i].target) <=> i < runIdx'
      <3> SUFFICES ASSUME NEW i \in DOMAIN PlannedTasks
                   PROVE  RunDone(runs'[i], i) <=> i < runIdx'
        BY <2>1 DEF RunDone
      <3>1. RunDone(runs[i], i) <=> i < runIdx
        BY <1>1 DEF InTurn
      <3>2. runs'[i] = IF i = runIdx THEN after ELSE runs[i]
        BY <1>1, <2>1
      <3>3. i \in Nat /\ runIdx \in Nat
        BY <1>1
      <3> QED
        BY <2>2, <3>1, <3>2, <3>3
    <2> QED
      BY <1>2, <2>6, <2>7, <2>8, <2>9 DEF InTurn, RunDone
  <1>6. ASSUME GapTick(t) PROVE InTurn'
    <2>1. ticks' = Append(ticks, t) /\ plan' = plan /\ (runIdx \in DOMAIN PlannedTasks => gapLeft > 0)
          /\ t.task = NoRun /\ runs' = runs /\ runIdx' = runIdx
      BY <1>6 DEF GapTick
    <2>2. /\ n \in Nat /\ DOMAIN ticks = 1 .. n /\ DOMAIN ticks' = 1 .. n + 1
          /\ Now' = n + 1 /\ ticks'[n + 1].task = 0
          /\ \A k \in 1 .. n : ticks'[k] = ticks[k] /\ ticks[k].task \in Nat
      BY <1>3, <1>4, <2>1 DEF NoRun
    <2>3. \A k \in DOMAIN ticks' : ticks'[k].task <= runIdx' /\ ticks'[k].task <= Len(PlannedTasks)
      BY <1>1, <2>1, <2>2 DEF InTurn
    <2>4. \A j \in DOMAIN ticks' : ticks'[j].task # runIdx'
      <3> SUFFICES ASSUME NEW j \in 1 .. n, ticks[j].task = runIdx PROVE FALSE
        BY <1>1, <2>1, <2>2
      <3>1. gapLeft = 0 /\ runIdx <= Len(PlannedTasks)
        BY <1>1, <2>2 DEF InTurn
      <3> QED
        BY <1>1, <2>1, <3>1
    <2>7. \A j \in 1 .. n, k \in 1 .. n :
              j <= k /\ ticks[j].task = ticks[k].task /\ ticks[j].task # NoRun
              => \A l \in j .. k : ticks[l].task = ticks[j].task
      BY <1>1, <2>2 DEF InTurn
    <2>5. \A j, k \in DOMAIN ticks' :
             j <= k /\ ticks'[j].task = ticks'[k].task /\ ticks'[j].task # NoRun
             => \A l \in j .. k : ticks'[l].task = ticks'[j].task
      <3> SUFFICES ASSUME NEW j \in 1 .. n + 1, NEW k \in 1 .. n + 1, j <= k,
                          ticks'[j].task = ticks'[k].task, ticks'[j].task # NoRun, NEW l \in j .. k
                   PROVE  ticks'[l].task = ticks'[j].task
        BY <2>2
      <3>1. j \in 1 .. n /\ k \in 1 .. n /\ l \in 1 .. n
        BY <2>2 DEF NoRun
      <3> QED
        BY <2>2, <2>7, <3>1
    <2>6. \A i \in DOMAIN PlannedTasks : (runs'[i].progress >= 3 * plan'.tasks[i].target) <=> i < runIdx'
      BY <1>1, <2>1 DEF InTurn, RunDone
    <2> QED
      BY <1>2, <2>3, <2>4, <2>5, <2>6 DEF InTurn, RunDone
  <1> QED
    BY <1>5, <1>6

LEMMA TalliedStep ==
    ASSUME BatchInv, NEW t \in RawTicks
    PROVE  /\ (\E after \in TaskRuns : WorkedTick(t, after)) => Tallied'
           /\ GapTick(t) => Tallied'
  <1>1. /\ runs \in [DOMAIN PlannedTasks -> TaskRuns] /\ BatchTypes /\ Tallied /\ Len(PlannedTasks) \in Nat
        /\ DOMAIN PlannedTasks = 1 .. Len(PlannedTasks)
    BY PlannedAre DEF BatchInv, BatchTypes
  <1>2. PlannedTasks' = PlannedTasks
    BY DEF PlannedTasks, PlannedStart, EstimateDuration
  <1>3. \A i \in DOMAIN PlannedTasks :
           /\ runs[i].progress = SumFunctionOnSet(Moved, TicksFor(i))
           /\ runs[i].elapsed > 0 <=> TicksFor(i) # {}
           /\ runs[i].elapsed \in Nat
    BY <1>1 DEF Tallied, TaskRuns
  <1>4. ASSUME ticks' = Append(ticks, t), NEW i \in DOMAIN PlannedTasks
        PROVE  /\ SumFunctionOnSet(Moved', TicksFor(i)')
                     = runs[i].progress + IF t.task = i THEN t.moved ELSE 0
               /\ TicksFor(i)' # {} <=> TicksFor(i) # {} \/ t.task = i
               /\ runs[i].progress \in Nat /\ t.moved \in Nat
    <2>1. t.moved \in Nat
      BY DEF RawTicks
    <2> QED
      BY <1>1, <1>3, <1>4, <2>1, MovedGrows, TasksGrow
  <1>5. ASSUME NEW after \in TaskRuns, WorkedTick(t, after) PROVE Tallied'
    <2>1. /\ ticks' = Append(ticks, t) /\ runIdx \in DOMAIN PlannedTasks /\ t.task = runIdx
          /\ runs' = [runs EXCEPT ![runIdx] = after]
          /\ after.progress = runs[runIdx].progress + t.moved
          /\ after.elapsed = runs[runIdx].elapsed + 1
      BY <1>5 DEF WorkedTick
    <2> SUFFICES ASSUME NEW i \in DOMAIN PlannedTasks
                 PROVE  /\ runs'[i].progress = SumFunctionOnSet(Moved', TicksFor(i)')
                        /\ runs'[i].elapsed > 0 <=> TicksFor(i)' # {}
      BY <1>2 DEF Tallied
    <2>2. /\ SumFunctionOnSet(Moved', TicksFor(i)')
                = runs[i].progress + IF t.task = i THEN t.moved ELSE 0
          /\ TicksFor(i)' # {} <=> TicksFor(i) # {} \/ t.task = i
          /\ runs[i].progress \in Nat /\ t.moved \in Nat
      BY <1>4, <2>1
    <2>3. runs'[i] = IF i = runIdx THEN after ELSE runs[i]
      BY <1>1, <2>1
    <2>4. PICK mine, old : mine = TicksFor(i)' /\ old = TicksFor(i)
      OBVIOUS
    <2>5. (mine # {} <=> old # {} \/ t.task = i) /\ (runs[i].elapsed > 0 <=> old # {})
          /\ runs[i].elapsed \in Nat
      BY <1>3, <2>2, <2>4
    <2>6. runs'[i].elapsed > 0 <=> mine # {}
      BY <2>1, <2>3, <2>5
    <2>7. runs'[i].progress = SumFunctionOnSet(Moved', TicksFor(i)')
      BY <2>1, <2>2, <2>3
    <2> QED
      BY <2>4, <2>6, <2>7
  <1>6. ASSUME GapTick(t) PROVE Tallied'
    <2>1. ticks' = Append(ticks, t) /\ t.task = 0 /\ runs' = runs
      BY <1>6 DEF GapTick, NoRun
    <2> SUFFICES ASSUME NEW i \in DOMAIN PlannedTasks
                 PROVE  /\ runs[i].progress = SumFunctionOnSet(Moved', TicksFor(i)')
                        /\ runs[i].elapsed > 0 <=> TicksFor(i)' # {}
      BY <1>2, <2>1 DEF Tallied
    <2>2. t.task # i
      BY <1>1, <2>1
    <2>3. /\ SumFunctionOnSet(Moved', TicksFor(i)') = runs[i].progress
          /\ TicksFor(i)' # {} <=> TicksFor(i) # {}
      BY <1>4, <2>1, <2>2
    <2> QED
      BY <1>3, <2>3
  <1> QED
    BY <1>5, <1>6

LEMMA WaitedStep ==
    ASSUME BatchInv, NEW t \in RawTicks
    PROVE  /\ (\E after \in TaskRuns : WorkedTick(t, after)) => Waited'
           /\ GapTick(t) => Waited'
  <1>1. /\ runs \in [DOMAIN PlannedTasks -> TaskRuns] /\ BatchTypes /\ Waited /\ Len(PlannedTasks) \in Nat
        /\ DOMAIN PlannedTasks = 1 .. Len(PlannedTasks) /\ Drafted
    BY PlannedAre DEF BatchInv, BatchTypes
  <1>2. PlannedTasks' = PlannedTasks
    BY DEF PlannedTasks, PlannedStart, EstimateDuration
  <1>3. ASSUME ticks' = Append(ticks, t), NEW i
        PROVE  /\ InPhase(TicksFor(i), {"blocked"}) \in Nat
               /\ InPhase(TicksFor(i), {"blocked"})'
                     = InPhase(TicksFor(i), {"blocked"})
                       + IF t.task = i /\ t.phase \in {"blocked"} THEN 1 ELSE 0
    BY <1>1, <1>3, PhasesGrow
  <1>4. ASSUME NEW after \in TaskRuns, WorkedTick(t, after) PROVE Waited'
    <2>1. /\ ticks' = Append(ticks, t) /\ runIdx \in DOMAIN PlannedTasks /\ t.task = runIdx
          /\ runs' = [runs EXCEPT ![runIdx] = after] /\ plan' = plan
          /\ after.blockedAt = UpdateBlocked(runs[runIdx]).blockedAt
          /\ after.blockedFor = runs[runIdx].blockedFor
          /\ after.blockedLeft = UpdateBlocked(runs[runIdx]).blockedLeft
          /\ AnomalyAt(Now) = NoAnomaly => (t.phase = "blocked" <=> after.blockedLeft > 0)
      BY <1>4 DEF WorkedTick
    <2> SUFFICES ASSUME plan.windows = {}, NEW i \in DOMAIN PlannedTasks
                 PROVE  LET met == InPhase(TicksFor(i), {"blocked"})'
                            run == runs'[i]
                            wait == plan.waits[i]
                        IN  /\ run.blockedFor = wait.for /\ run.blockedLeft <= wait.for
                            /\ run.blockedAt \in {wait.at, -1}
                            /\ met = IF run.blockedAt = wait.at THEN 0
                                     ELSE IF run.blockedLeft = 0 THEN wait.for
                                     ELSE wait.for - run.blockedLeft + 1
                            /\ run.blockedAt = wait.at => run.blockedLeft = 0
      BY <1>2, <2>1 DEF Waited
    <2>2. PICK met, metNow, run, wait :
             /\ met = InPhase(TicksFor(i), {"blocked"}) /\ run = runs[i] /\ wait = plan.waits[i]
             /\ metNow = InPhase(TicksFor(i), {"blocked"})'
      OBVIOUS
    <2>3. /\ run.blockedFor = wait.for /\ run.blockedLeft <= wait.for
          /\ run.blockedAt \in {wait.at, -1}
          /\ met = IF run.blockedAt = wait.at THEN 0
                   ELSE IF run.blockedLeft = 0 THEN wait.for ELSE wait.for - run.blockedLeft + 1
          /\ run.blockedAt = wait.at => run.blockedLeft = 0
      BY <1>1, <2>2 DEF Waited
    <2>4. run \in TaskRuns /\ wait.at \in Nat \cup {-1} /\ wait.for \in Nat
      <3>1. wait \in Waits
        BY <1>1, <2>2 DEF Drafted
      <3> QED
        BY <1>1, <2>2, <3>1, LimitsAre
    <2>5. metNow = met + IF t.task = i /\ t.phase = "blocked" THEN 1 ELSE 0
      BY <1>3, <2>1, <2>2
    <2>6. CASE i = runIdx
      <3>1. runs'[i] = after /\ UpdateBlocked(run) = UpdateBlocked(runs[runIdx])
        BY <1>1, <2>1, <2>2, <2>6
      <3> DEFINE starts == run.blockedLeft = 0 /\ run.blockedAt >= 0 /\ run.elapsed >= run.blockedAt
      <3>3. /\ after.blockedAt = IF starts THEN -1 ELSE run.blockedAt
            /\ after.blockedLeft = IF starts THEN run.blockedFor
                                   ELSE IF run.blockedLeft > 0 THEN run.blockedLeft - 1 ELSE 0
        BY <2>1, <2>4, <3>1, UpdateIs
      <3>4. after.blockedFor = wait.for /\ (t.phase = "blocked" <=> after.blockedLeft > 0)
        BY <1>1, <2>1, <2>2, <2>3, <2>6, AnomalyOf
      <3>5. /\ run.blockedLeft \in Nat /\ run.blockedAt \in Nat \cup {-1} /\ run.elapsed \in Nat
            /\ run.blockedFor \in Nat
        BY <2>4 DEF TaskRuns
      <3>6. CASE starts
        <4>1. run.blockedAt = wait.at /\ met = 0 /\ after.blockedAt = -1 /\ wait.at # -1
              /\ after.blockedLeft = wait.for
          BY <2>3, <3>3, <3>5, <3>6
        <4> QED
          BY <2>1, <2>2, <2>4, <2>5, <2>6, <3>1, <3>4, <4>1
      <3>7. CASE ~starts /\ run.blockedLeft > 0
        <4>1. run.blockedAt # wait.at /\ met = wait.for - run.blockedLeft + 1
              /\ after.blockedAt = run.blockedAt /\ after.blockedLeft = run.blockedLeft - 1
          BY <2>3, <3>3, <3>5, <3>7
        <4>2. metNow = met + IF after.blockedLeft > 0 THEN 1 ELSE 0
          BY <2>1, <2>5, <2>6, <3>4
        <4>3. /\ after.blockedAt # wait.at /\ after.blockedAt \in {wait.at, -1}
              /\ after.blockedLeft <= wait.for
              /\ metNow = IF after.blockedLeft = 0 THEN wait.for ELSE wait.for - after.blockedLeft + 1
          BY <2>3, <2>4, <3>5, <3>7, <4>1, <4>2
        <4> QED
          BY <2>2, <3>1, <3>4, <4>3
      <3>8. CASE ~starts /\ run.blockedLeft = 0
        <4>1. after.blockedAt = run.blockedAt /\ after.blockedLeft = 0 /\ metNow = met
          BY <2>3, <2>4, <2>5, <3>3, <3>4, <3>5, <3>8, <1>3, <2>1, <2>2
        <4> QED
          BY <2>2, <2>3, <2>4, <3>1, <3>4, <3>8, <4>1
      <3> QED
        BY <3>5, <3>6, <3>7, <3>8
    <2>7. CASE i # runIdx
      <3>1. runs'[i] = run
        BY <1>1, <2>1, <2>2, <2>7
      <3>2. met \in Nat /\ metNow = met
        BY <1>3, <2>1, <2>2, <2>5, <2>7
      <3> QED
        BY <2>2, <2>3, <3>1, <3>2
    <2> QED
      BY <2>6, <2>7
  <1>5. ASSUME GapTick(t) PROVE Waited'
    <2>1. ticks' = Append(ticks, t) /\ t.task = 0 /\ runs' = runs /\ plan' = plan
      BY <1>5 DEF GapTick, NoRun
    <2>2. ASSUME NEW i \in DOMAIN PlannedTasks
          PROVE  InPhase(TicksFor(i), {"blocked"})' = InPhase(TicksFor(i), {"blocked"})
      <3>1. t.task # i
        BY <1>1, <2>1
      <3> QED
        BY <1>3, <2>1, <3>1
    <2> QED
      BY <1>1, <1>2, <2>1, <2>2 DEF Waited
  <1> QED
    BY <1>4, <1>5

LEMMA ApartIs ==
    ASSUME Apart
    PROVE  /\ 0 < TravelTicks /\ MaxIdleRun < IdleTicks /\ 0 < IdleTicks
           /\ \A g \in TaskGaps : g + MaxIdleRun < IdleTicks
  <1>1. 0 < TravelTicks /\ MaxIdleRun < IdleTicks
    BY Zenon DEF Apart
  <1>2. \A g \in TaskGaps : g + MaxIdleRun < IdleTicks
    BY Zenon DEF Apart
  <1>3. 0 < IdleTicks
    BY <1>1, LimitsAre
  <1> QED
    BY <1>1, <1>2, <1>3

\* One tick more: idling of a machine's own is still a gap and then the rolls of a task.
LEMMA IdlingStep ==
    ASSUME BatchTypes, ShortIdling, NEW t \in RawTicks, ticks' = Append(ticks, t), plan' = plan,
           gapLeft \in Nat, gapLeft' \in Nat, Apart => gapLeft' + MaxIdleRun < IdleTicks,
           t.phase = "idle" /\ AnomalyAt(Now) \notin IdleKinds =>
              IF t.task = NoRun THEN gapLeft > 0 /\ gapLeft' = gapLeft - 1
              ELSE /\ runIdx' \in DOMAIN PlannedTasks /\ gapLeft' = 0
                   /\ ~(Now >= MaxIdleRun /\ \A k \in Now - MaxIdleRun + 1 .. Now : IdleRoll(k)),
           t.task = NoRun => ~(runIdx \in DOMAIN PlannedTasks /\ gapLeft = 0)
    PROVE  ShortIdling'
  <1>1. PICK n : n = Now
    OBVIOUS
  <1>2. /\ n \in Nat /\ DOMAIN ticks = 1 .. n /\ DOMAIN ticks' = 1 .. n + 1
        /\ \A k \in 1 .. n : ticks'[k] = ticks[k]
        /\ ticks'[n + 1] = t /\ Now' = n + 1
    BY <1>1, TicksGrow
  <1>0. n \in Nat
    BY <1>2
  <1>3. \A k : AnomalyAt(k)' = AnomalyAt(k)
    BY DEF AnomalyAt, Covers
  <1>4. /\ \A k \in 1 .. n : /\ OwnIdle(k)' = OwnIdle(k) /\ IdleRoll(k)' = IdleRoll(k)
                             /\ ticks'[k].task = ticks[k].task
        /\ OwnIdle(n + 1)' <=> (t.phase = "idle" /\ AnomalyAt(n) \notin IdleKinds)
        /\ IdleRoll(n + 1)' <=> (OwnIdle(n + 1)' /\ t.task # NoRun)
    <2>1. ASSUME NEW k \in 1 .. n
          PROVE  /\ OwnIdle(k)' = OwnIdle(k) /\ IdleRoll(k)' = IdleRoll(k)
                 /\ ticks'[k].task = ticks[k].task
      <3>1. ticks'[k] = ticks[k] /\ AnomalyAt(k - 1)' = AnomalyAt(k - 1)
        BY <1>2, <1>3
      <3> QED
        BY <3>1 DEF OwnIdle, IdleRoll, IdleKinds, NoRun
    <2>2. /\ OwnIdle(n + 1)' <=> (t.phase = "idle" /\ AnomalyAt(n) \notin IdleKinds)
          /\ IdleRoll(n + 1)' <=> (OwnIdle(n + 1)' /\ t.task # NoRun)
      <3>1. PICK k : k = n + 1
        OBVIOUS
      <3>2. k - 1 = n
        BY <1>0, <3>1
      <3>3. ticks'[k] = t /\ AnomalyAt(k - 1)' = AnomalyAt(n)
        BY <1>2, <1>3, <3>1, <3>2
      <3>4. /\ OwnIdle(k)' <=> (t.phase = "idle" /\ AnomalyAt(n) \notin IdleKinds)
            /\ IdleRoll(k)' <=> (OwnIdle(k)' /\ t.task # NoRun)
        BY <3>3 DEF OwnIdle, IdleRoll, IdleKinds, NoRun
      <3> QED
        BY <3>1, <3>4
    <2> QED
      BY <2>1, <2>2
  <1>5. MaxIdleRun \in Nat /\ IdleTicks \in Nat
    BY LimitsAre
  <1>6. /\ OwnIdle(n + 1)' => t.phase = "idle" /\ AnomalyAt(Now) \notin IdleKinds
        /\ ShortRolls /\ ShortGaps /\ RollsLast
    BY <1>1, <1>4 DEF ShortIdling
  <1>7. ASSUME IdleRoll(n + 1)'
        PROVE  /\ runIdx' \in DOMAIN PlannedTasks /\ gapLeft' = 0
               /\ n < MaxIdleRun \/ \E k \in n - MaxIdleRun + 1 .. n : ~IdleRoll(k)
    <2>1. /\ t.task # NoRun /\ runIdx' \in DOMAIN PlannedTasks /\ gapLeft' = 0
          /\ ~(n >= MaxIdleRun /\ \A k \in n - MaxIdleRun + 1 .. n : IdleRoll(k))
      BY <1>1, <1>4, <1>6, <1>7
    <2> QED
      BY <1>0, <1>5, <2>1
  <1>8. ShortRolls'
    <2> SUFFICES ASSUME NEW s \in 1 .. n + 1, NEW e \in 1 .. n + 1, s <= e, Rolling(s, e)'
                 PROVE  e - s + 1 <= MaxIdleRun
      BY <1>2 DEF ShortRolls
    <2>1. \A k \in s .. e : IdleRoll(k)'
      BY DEF Rolling
    <2>2. CASE e \in 1 .. n
      <3>1. \A k \in s .. e : IdleRoll(k)
        BY <1>0, <1>4, <2>1, <2>2
      <3>2. Rolling(s, e)
        BY <3>1 DEF Rolling
      <3>3. s \in DOMAIN ticks /\ e \in DOMAIN ticks
        BY <1>0, <1>2, <2>2
      <3> QED
        BY <1>6, <3>2, <3>3 DEF ShortRolls
    <2>3. CASE e = n + 1
      <3>1. IdleRoll(n + 1)' /\ \A k \in s .. n : IdleRoll(k)
        BY <1>0, <1>4, <2>1, <2>3
      <3>2. CASE n < MaxIdleRun
        BY <1>0, <1>5, <2>3, <3>2
      <3>3. CASE \E k \in n - MaxIdleRun + 1 .. n : ~IdleRoll(k)
        <4>1. PICK k \in n - MaxIdleRun + 1 .. n : ~IdleRoll(k)
          BY <3>3
        <4>2. ~(s <= k)
          BY <1>0, <1>5, <3>1, <4>1
        <4> QED
          BY <1>0, <1>5, <2>3, <4>1, <4>2
      <3> QED
        BY <1>7, <3>1, <3>2, <3>3
    <2> QED
      BY <1>0, <2>2, <2>3
  <1>9. RollsLast'
    <2>1. PlannedTasks' = PlannedTasks
      BY DEF PlannedTasks, PlannedStart, EstimateDuration
    <2>2. ASSUME NEW s \in 1 .. n + 1, NEW e \in 1 .. n + 1, s <= e, IdleRoll(s)', OwnIdling(s, e)'
          PROVE  IdleRoll(e)'
      <3>1. \A k \in s .. e : OwnIdle(k)'
        BY <2>2 DEF OwnIdling
      <3>2. CASE e \in 1 .. n
        <4>1. s \in 1 .. n /\ IdleRoll(s) /\ \A k \in s .. e : OwnIdle(k)
          BY <1>0, <1>4, <2>2, <3>1, <3>2
        <4>2. IdleRoll(e)
          BY <1>2, <1>6, <2>2, <3>2, <4>1 DEF RollsLast, OwnIdling
        <4> QED
          BY <1>4, <3>2, <4>2
      <3>3. CASE e = n + 1 /\ s # n + 1
        <4>1. s \in 1 .. n /\ n \in 1 .. n /\ IdleRoll(s) /\ \A k \in s .. n : OwnIdle(k)
          BY <1>0, <1>4, <2>2, <3>1, <3>3
        <4>2. IdleRoll(n)
          BY <1>0, <1>2, <1>6, <4>1 DEF RollsLast, OwnIdling
        <4>3. t.task # NoRun
          BY <1>1, <1>2, <1>6, <4>1, <4>2 DEF RollsLast
        <4>4. OwnIdle(n + 1)'
          BY <1>0, <2>2, <3>1, <3>3
        <4> QED
          BY <1>4, <3>3, <4>3, <4>4
      <3> QED
        BY <1>0, <2>2, <3>2, <3>3
    <2>3. IdleRoll(n + 1)' => runIdx' \in DOMAIN PlannedTasks' /\ gapLeft' = 0
      BY <1>7, <2>1
    <2> QED
      BY <1>2, <2>2, <2>3 DEF RollsLast
  <1>10. ShortGaps'
    <2>1. Apart' => Apart
      BY DEF Apart, ReplayedKinds
    <2> SUFFICES ASSUME Apart
                 PROVE  \A s \in 1 .. n + 1, e \in 1 .. n + 1 :
                            s <= e /\ InGap(s, e)' =>
                                /\ e - s + 1 + MaxIdleRun < IdleTicks
                                /\ e = n + 1 => e - s + 1 + gapLeft' + MaxIdleRun < IdleTicks
      BY <1>2, <2>1 DEF ShortGaps
    <2>2. gapLeft + MaxIdleRun < IdleTicks
      BY <1>6 DEF ShortGaps
    <2> SUFFICES ASSUME NEW s \in 1 .. n + 1, NEW e \in 1 .. n + 1, s <= e, InGap(s, e)'
                 PROVE  /\ e - s + 1 + MaxIdleRun < IdleTicks
                        /\ e = n + 1 => e - s + 1 + gapLeft' + MaxIdleRun < IdleTicks
      OBVIOUS
    <2>3. \A k \in s .. e : OwnIdle(k)' /\ ticks'[k].task = NoRun
      BY DEF InGap, NoRun
    <2>4. CASE e \in 1 .. n
      <3>0. s \in 1 .. n /\ \A k \in s .. e : k \in 1 .. n
        BY <1>0, <2>4
      <3>1. \A k \in s .. e : OwnIdle(k) /\ ticks[k].task = NoRun
        BY <1>4, <2>3, <3>0
      <3>2. e - s + 1 + MaxIdleRun < IdleTicks
        BY <1>2, <1>6, <2>4, <3>0, <3>1 DEF ShortGaps, InGap
      <3> QED
        BY <1>0, <2>4, <3>2
    <2>5. CASE e = n + 1
      <3>1. /\ OwnIdle(n + 1)' /\ t.task = NoRun
            /\ \A k \in s .. n : OwnIdle(k) /\ ticks[k].task = NoRun
        BY <1>0, <1>2, <1>4, <2>3, <2>5
      <3>2. gapLeft > 0 /\ gapLeft' = gapLeft - 1
        BY <1>6, <3>1
      <3>3. CASE s = n + 1
        <4>1. e - s + 1 = 1
          BY <1>0, <2>5, <3>3
        <4> QED
          BY <1>5, <2>2, <3>2, <4>1
      <3>4. CASE s # n + 1
        <4>1. s \in 1 .. n /\ n \in 1 .. n /\ s <= n
          BY <1>0, <3>4
        <4>2. n - s + 1 + gapLeft + MaxIdleRun < IdleTicks
          BY <1>1, <1>2, <1>6, <3>1, <4>1 DEF ShortGaps, InGap
        <4> QED
          BY <1>0, <1>5, <2>5, <3>2, <4>1, <4>2
      <3> QED
        BY <3>3, <3>4
    <2> QED
      BY <1>0, <2>4, <2>5
  <1> QED
    BY <1>8, <1>9, <1>10 DEF ShortIdling

\* Idling of a machine's own ends before the limit.
LEMMA OwnIdlingIsShort ==
    ASSUME BatchInv, Apart, NEW s \in DOMAIN ticks, NEW e \in DOMAIN ticks, s <= e, OwnIdling(s, e)
    PROVE  e - s + 1 < IdleTicks
  <1>1. ShortRolls /\ ShortGaps /\ RollsLast /\ ticks \in Seq(RawTicks)
    BY DEF BatchInv, ShortIdling, BatchTypes
  <1>2. PICK n : n = Now
    OBVIOUS
  <1>3. n \in Nat /\ DOMAIN ticks = 1 .. n
    BY <1>1, <1>2 DEF Now
  <1>4. MaxIdleRun \in Nat /\ IdleTicks \in Nat /\ MaxIdleRun < IdleTicks
    BY LimitsAre, ApartIs
  <1>5. \A k \in s .. e : k \in 1 .. n /\ OwnIdle(k)
    BY <1>3 DEF OwnIdling
  <1>6. \A k \in s .. e : ~IdleRoll(k) => ticks[k].task = NoRun
    BY <1>5 DEF OwnIdle, IdleRoll
  <1>7. CASE \A k \in s .. e : ~IdleRoll(k)
    <2>1. e - s + 1 + MaxIdleRun < IdleTicks
      BY <1>1, <1>5, <1>6, <1>7 DEF ShortGaps, InGap
    <2> QED
      BY <1>3, <1>4, <2>1
  <1>8. CASE \E k \in s .. e : IdleRoll(k)
    <2>1. PICK T : T = {k \in s .. e : IdleRoll(k)}
      OBVIOUS
    <2>2. T \in SUBSET (1 .. n) /\ T # {}
      BY <1>5, <1>8, <2>1
    <2>3. PICK c \in T : \A y \in T : c <= y
      BY <1>3, <2>2, Least
    <2>4. c \in s .. e /\ c \in 1 .. n /\ IdleRoll(c) /\ \A k \in s .. c - 1 : ~IdleRoll(k)
      BY <1>3, <2>1, <2>2, <2>3
    <2>5. Rolling(c, e)
      <3> SUFFICES ASSUME NEW k \in c .. e PROVE IdleRoll(k)
        BY DEF Rolling
      <3>1. k \in 1 .. n /\ c <= k /\ \A j \in c .. k : OwnIdle(j)
        BY <1>3, <1>5, <2>4
      <3> QED
        BY <1>1, <1>3, <2>4, <3>1 DEF RollsLast, OwnIdling
    <2>6. e - c + 1 <= MaxIdleRun
      <3>1. c \in DOMAIN ticks /\ c <= e
        BY <1>3, <2>4
      <3> QED
        BY <1>1, <2>5, <3>1 DEF ShortRolls
    <2>7. CASE c = s
      BY <1>3, <1>4, <2>6, <2>7
    <2>8. CASE c # s
      <3>1. c - 1 \in 1 .. n /\ s <= c - 1 /\ c - 1 \in Int
        BY <1>3, <2>4, <2>8
      <3>2. \A k \in s .. c - 1 : OwnIdle(k) /\ ticks[k].task = NoRun
        BY <1>3, <1>5, <1>6, <2>4
      <3>3. (c - 1) - s + 1 + MaxIdleRun < IdleTicks
        BY <1>1, <1>3, <3>1, <3>2 DEF ShortGaps, InGap
      <3> QED
        BY <1>3, <1>4, <2>4, <2>6, <3>3
    <2> QED
      BY <2>7, <2>8
  <1> QED
    BY <1>7, <1>8

LEMMA ShortIdlingStep ==
    ASSUME BatchInv, NEW t \in RawTicks
    PROVE  /\ (\E after \in TaskRuns : WorkedTick(t, after)) => ShortIdling'
           /\ GapTick(t) => ShortIdling'
  <1>1. /\ gapLeft \in Nat /\ BatchTypes /\ ShortIdling /\ IdleTicks \in Nat /\ MaxIdleRun \in Nat
        /\ Apart => gapLeft + MaxIdleRun < IdleTicks
    BY LimitsAre DEF BatchInv, BatchTypes, ShortIdling, ShortGaps
  <1>2. ASSUME NEW after \in TaskRuns, WorkedTick(t, after) PROVE ShortIdling'
    <2>1. /\ ticks' = Append(ticks, t) /\ plan' = plan
          /\ t.phase = "idle" /\ AnomalyAt(Now) \notin IdleKinds =>
                ~(Now >= MaxIdleRun /\ \A k \in Now - MaxIdleRun + 1 .. Now : IdleRoll(k))
      BY <1>2 DEF WorkedTick
    <2>2. gapLeft' \in Nat /\ (Apart => gapLeft' + MaxIdleRun < IdleTicks)
      <3>1. gapLeft' = 0 \/ gapLeft' \in TaskGaps
        BY <1>2 DEF WorkedTick
      <3>2. gapLeft' \in Nat
        <4>1. TaskGaps \subseteq Nat
          BY LimitsAre
        <4>2. 0 \in Nat
          OBVIOUS
        <4> QED
          BY <3>1, <4>1, <4>2
      <3>3. ASSUME Apart PROVE gapLeft' + MaxIdleRun < IdleTicks
        <4>1. MaxIdleRun < IdleTicks /\ \A g \in TaskGaps : g + MaxIdleRun < IdleTicks
          BY <3>3, ApartIs
        <4>2. 0 + MaxIdleRun = MaxIdleRun
          BY <1>1
        <4> QED
          BY <3>1, <4>1, <4>2
      <3> QED
        BY <3>2, <3>3
    <2>3. t.task # NoRun /\ runIdx \in DOMAIN PlannedTasks
      <3>1. t.task = runIdx /\ runIdx \in DOMAIN PlannedTasks
        BY <1>2 DEF WorkedTick
      <3> QED
        BY <3>1, PlannedAre DEF NoRun
    <2>4. t.phase = "idle" => runIdx' = runIdx /\ gapLeft' = 0
      <3> SUFFICES ASSUME t.phase = "idle" PROVE ~RunDone(after, runIdx)
        BY <1>2 DEF WorkedTick
      <3>1. t.moved = 0 /\ runIdx \in DOMAIN PlannedTasks /\ after.progress = runs[runIdx].progress + 0
        BY <1>2 DEF WorkedTick
      <3>2. ~RunDone(runs[runIdx], runIdx)
        <4>1. runIdx \in Nat
          BY <3>1, PlannedAre
        <4>2. RunDone(runs[runIdx], runIdx) <=> runIdx < runIdx
          BY <3>1 DEF BatchInv, InTurn
        <4> QED
          BY <4>1, <4>2
      <3>3. runs[runIdx].progress \in Nat
        BY <3>1 DEF BatchInv, BatchTypes, TaskRuns
      <3> QED
        BY <3>1, <3>2, <3>3 DEF RunDone
    <2> QED
      BY <1>1, <2>1, <2>2, <2>3, <2>4, IdlingStep
  <1>3. ASSUME GapTick(t) PROVE ShortIdling'
    <2>1. /\ ticks' = Append(ticks, t) /\ plan' = plan /\ t.task = NoRun
          /\ gapLeft' = IF gapLeft > 0 THEN gapLeft - 1 ELSE 0
          /\ t.phase = "idle" /\ AnomalyAt(Now) \notin IdleKinds => gapLeft > 0
          /\ runIdx \in DOMAIN PlannedTasks => gapLeft > 0
      BY <1>3 DEF GapTick
    <2>2. gapLeft' \in Nat /\ (Apart => gapLeft' + MaxIdleRun < IdleTicks)
      BY <1>1, <2>1
    <2>3. gapLeft > 0 => gapLeft' = gapLeft - 1 /\ gapLeft # 0
      BY <1>1, <2>1
    <2> QED
      BY <1>1, <2>1, <2>2, <2>3, IdlingStep
  <1> QED
    BY <1>2, <1>3

\* What is read of a shift whose ticks, runs and plan stand.
LEMMA Standing ==
    ASSUME BatchInv, UNCHANGED <<plan, runs, runIdx, gapLeft, ticks>>
    PROVE  /\ Drafted' /\ BatchTypes' /\ Sensed' /\ InTurn' /\ Tallied' /\ Waited' /\ ShortIdling'
           /\ \A i : Actual(i)' = Actual(i)
           /\ \A i, a : HistoryStatus(i, a)' = HistoryStatus(i, a)
           /\ BatchSummary' = BatchSummary /\ ReplayEvents' = ReplayEvents
           /\ Now' = Now /\ FinishingInOvertime' = FinishingInOvertime
  <1> USE DEF BatchInv
  <1>1. PlannedTasks' = PlannedTasks
    BY DEF PlannedTasks, PlannedStart, EstimateDuration
  <1>2. \A i : TicksFor(i)' = TicksFor(i)
    BY DEF TicksFor
  <1>3. Moved' = Moved
    BY DEF Moved
  <1>4. \A K, names : InPhase(K, names)' = InPhase(K, names)
    BY DEF InPhase
  <1>5. \A k : AnomalyAt(k)' = AnomalyAt(k)
    BY DEF AnomalyAt, Covers
  <1>6. Now' = Now
    BY DEF Now
  <1>7. \A run, i : RunDone(run, i)' = RunDone(run, i)
    BY DEF RunDone
  <1>8. Drafted'
    <2>1. Injections(PlannedTasks)' = Injections(PlannedTasks)
      BY <1>1 DEF Injections, LegitWait, BuildWindows
    <2> QED
      BY <1>1, <2>1 DEF Drafted
  <1>9. BatchTypes'
    BY <1>1, <1>6 DEF BatchTypes
  <1>10. Sensed'
    BY <1>5 DEF Sensed, Shows, NoRun, IdleKinds
  <1>11. InTurn'
    BY <1>1, <1>6, <1>7 DEF InTurn, NoRun
  <1>12. Tallied'
    BY <1>1, <1>2, <1>3 DEF Tallied
  <1>13. Waited'
    BY <1>1, <1>2, <1>4 DEF Waited
  <1>14. ShortIdling'
    <2>1. \A k : OwnIdle(k)' = OwnIdle(k) /\ IdleRoll(k)' = IdleRoll(k)
      BY <1>5 DEF OwnIdle, IdleRoll, IdleKinds, NoRun
    <2>2. \A s, e : /\ OwnIdling(s, e)' = OwnIdling(s, e) /\ Rolling(s, e)' = Rolling(s, e)
                    /\ InGap(s, e)' = InGap(s, e)
      BY <2>1 DEF OwnIdling, Rolling, InGap, NoRun
    <2>3. Apart' = Apart
      BY DEF Apart, ReplayedKinds
    <2>4. ShortRolls'
      BY <2>2 DEF ShortIdling, ShortRolls
    <2>5. ShortGaps'
      BY <1>6, <2>2, <2>3 DEF ShortIdling, ShortGaps
    <2>6. RollsLast'
      BY <1>1, <1>6, <2>1, <2>2 DEF ShortIdling, RollsLast
    <2> QED
      BY <2>4, <2>5, <2>6 DEF ShortIdling
  <1>15. \A i : Actual(i)' = Actual(i)
    BY <1>2, <1>3, <1>4 DEF Actual, RoundedTo3
  <1>16. \A i, a : HistoryStatus(i, a)' = HistoryStatus(i, a)
    BY DEF HistoryStatus
  <1>17. BatchSummary' = BatchSummary
    BY <1>4, <1>6 DEF BatchSummary
  <1>18. ReplayEvents' = ReplayEvents
    <2>1. \A kind, holds, limit :
             FlaggedSpans(kind, holds, limit)' = FlaggedSpans(kind, holds, limit)
      BY <1>6 DEF FlaggedSpans
    <2>2. [k \in DOMAIN ticks |-> IsIdling(k)]' = [k \in DOMAIN ticks |-> IsIdling(k)]
      BY DEF IsIdling, ReplayStatus, NoRun
    <2>3. [k \in DOMAIN ticks |-> IsHighRpmTravel(k)]' = [k \in DOMAIN ticks |-> IsHighRpmTravel(k)]
      BY DEF IsHighRpmTravel
    <2> QED
      BY <2>1, <2>2, <2>3 DEF ReplayEvents
  <1>19. FinishingInOvertime' = FinishingInOvertime
    BY <1>6, <1>7 DEF FinishingInOvertime, AtWork, AllDone
  <1> QED
    BY <1>6, <1>8, <1>9, <1>10, <1>11, <1>12, <1>13, <1>14, <1>15, <1>16, <1>17, <1>18, <1>19

LEMMA FiledIsFinished ==
    ASSUME BatchInv
    PROVE  /\ FileShift => BatchInv'
           /\ UNCHANGED batchVars => BatchInv'
  <1>1. ASSUME UNCHANGED <<plan, runs, runIdx, gapLeft, ticks>>, Finished' PROVE BatchInv'
    BY <1>1, Standing DEF BatchInv
  <1>2. ASSUME FileShift PROVE BatchInv'
    <2>1. UNCHANGED <<plan, runs, runIdx, gapLeft, ticks>>
      BY <1>2 DEF FileShift
    <2>2. Now >= ShiftTicks /\ ~FinishingInOvertime
      <3>1. Now \in Nat /\ ShiftTicks \in Nat
        BY LimitsAre DEF BatchInv, BatchTypes, Now
      <3>2. ~(Now < ShiftTicks) /\ ~FinishingInOvertime
        BY <1>2 DEF FileShift, Generating
      <3> QED
        BY <3>1, <3>2
    <2>3. filed' = {[actuals |-> [i \in DOMAIN plan.tasks |-> Actual(i)],
                     status |-> [i \in DOMAIN plan.tasks |-> HistoryStatus(i, Actual(i))],
                     summary |-> BatchSummary, events |-> ReplayEvents]}
      BY <1>2 DEF FileShift
    <2>4. Finished'
      <3>1. /\ Now' = Now /\ FinishingInOvertime' = FinishingInOvertime
            /\ \A i : Actual(i)' = Actual(i)
            /\ \A i, a : HistoryStatus(i, a)' = HistoryStatus(i, a)
            /\ BatchSummary' = BatchSummary /\ ReplayEvents' = ReplayEvents
        BY <2>1, Standing
      <3>2. [i \in DOMAIN plan.tasks |-> Actual(i)]' = [i \in DOMAIN plan.tasks |-> Actual(i)]
        BY <2>1, <3>1
      <3>3. [i \in DOMAIN plan.tasks |-> HistoryStatus(i, Actual(i))]'
               = [i \in DOMAIN plan.tasks |-> HistoryStatus(i, Actual(i))]
        BY <2>1, <3>1
      <3> QED
        BY <2>2, <2>3, <3>1, <3>2, <3>3 DEF Finished
    <2> QED
      BY <1>1, <2>1, <2>4
  <1>3. ASSUME UNCHANGED batchVars PROVE BatchInv'
    <2>1. UNCHANGED <<plan, runs, runIdx, gapLeft, ticks>> /\ filed' = filed
      BY <1>3 DEF batchVars
    <2>2. Finished'
      <3>1. /\ Now' = Now /\ FinishingInOvertime' = FinishingInOvertime
            /\ \A i : Actual(i)' = Actual(i)
            /\ \A i, a : HistoryStatus(i, a)' = HistoryStatus(i, a)
            /\ BatchSummary' = BatchSummary /\ ReplayEvents' = ReplayEvents
        BY <2>1, Standing
      <3>2. [i \in DOMAIN plan.tasks |-> Actual(i)]' = [i \in DOMAIN plan.tasks |-> Actual(i)]
        BY <2>1, <3>1
      <3>3. [i \in DOMAIN plan.tasks |-> HistoryStatus(i, Actual(i))]'
               = [i \in DOMAIN plan.tasks |-> HistoryStatus(i, Actual(i))]
        BY <2>1, <3>1
      <3>4. Finished
        BY DEF BatchInv
      <3> QED
        BY <2>1, <3>1, <3>2, <3>3, <3>4 DEF Finished
    <2> QED
      BY <1>1, <2>1, <2>2
  <1> QED
    BY <1>2, <1>3

LEMMA BatchStep == BatchInv /\ [BatchNext]_batchVars => BatchInv'
  <1> SUFFICES ASSUME BatchInv, [BatchNext]_batchVars PROVE BatchInv'
    OBVIOUS
  <1>0. BatchTypes /\ Sensed
    BY DEF BatchInv
  <1>1. CASE TaskTick
    <2>1. PICK t \in RawTicks, after \in TaskRuns : WorkedTick(t, after)
      BY <1>1, TaskTickIs
    <2>2. filed' = {} /\ ticks' = Append(ticks, t) /\ plan' = plan /\ Shows(t, AnomalyAt(Now))
      BY <2>1 DEF WorkedTick
    <2>3. BatchTypes' /\ Drafted' /\ InTurn' /\ Tallied' /\ Waited' /\ ShortIdling'
      BY <2>1, BatchTypesStep, InTurnStep, TalliedStep, WaitedStep, ShortIdlingStep
    <2>4. Sensed'
      BY <1>0, <2>2, SensedStep
    <2>5. Finished'
      BY <2>2 DEF Finished
    <2> QED
      BY <2>3, <2>4, <2>5 DEF BatchInv
  <1>2. CASE BetweenTick
    <2>1. PICK t \in RawTicks : GapTick(t)
      BY <1>2, BetweenTickIs
    <2>2. filed' = {} /\ ticks' = Append(ticks, t) /\ plan' = plan /\ Shows(t, AnomalyAt(Now))
      BY <2>1 DEF GapTick
    <2>3. BatchTypes' /\ Drafted' /\ InTurn' /\ Tallied' /\ Waited' /\ ShortIdling'
      BY <2>1, BatchTypesStep, InTurnStep, TalliedStep, WaitedStep, ShortIdlingStep
    <2>4. Sensed'
      BY <1>0, <2>2, SensedStep
    <2>5. Finished'
      BY <2>2 DEF Finished
    <2> QED
      BY <2>3, <2>4, <2>5 DEF BatchInv
  <1> QED
    BY <1>1, <1>2, FiledIsFinished DEF BatchNext

LEMMA MinIs ==
    ASSUME NEW S \in SUBSET Int, NEW x \in S, \A y \in S : x <= y
    PROVE  Min(S) = x
  <1>1. Min(S) \in S /\ \A y \in S : Min(S) <= y
    BY DEF Min
  <1>2. Min(S) \in Int /\ x \in Int /\ Min(S) <= x /\ x <= Min(S)
    BY <1>1
  <1> QED
    BY <1>2

\* The ticks of a task are those from its first to its last.
LEMMA TicksInOne ==
    ASSUME BatchInv, NEW i \in DOMAIN PlannedTasks
    PROVE  /\ i \in Nat \ {0} /\ Now \in Nat /\ DOMAIN ticks = 1 .. Now
           /\ IsFiniteSet(TicksFor(i)) /\ TicksFor(i) \subseteq 1 .. Now
           /\ TicksFor(i) # {} =>
                 \E a \in 1 .. Now, b \in 1 .. Now :
                    /\ a <= b /\ TicksFor(i) = a .. b /\ Min(TicksFor(i)) = a /\ Max(TicksFor(i)) = b
                    /\ b \in TicksFor(i)
  <1>1. i \in Nat \ {0}
    BY PlannedAre
  <1>2. ticks \in Seq(RawTicks)
    BY DEF BatchInv, BatchTypes
  <1>3. PICK n : n = Now
    OBVIOUS
  <1>4. n \in Nat /\ DOMAIN ticks = 1 .. n
    BY <1>2, <1>3 DEF Now
  <1>5. TicksFor(i) \subseteq 1 .. n
    BY <1>4 DEF TicksFor
  <1>6. IsFiniteSet(TicksFor(i))
    BY <1>4, <1>5, FS_Interval, FS_Subset
  <1>7. ASSUME TicksFor(i) # {}
        PROVE  \E a \in 1 .. n, b \in 1 .. n :
                  /\ a <= b /\ TicksFor(i) = a .. b /\ Min(TicksFor(i)) = a /\ Max(TicksFor(i)) = b
                  /\ b \in TicksFor(i)
    <2>1. PICK a \in TicksFor(i) : \A y \in TicksFor(i) : a <= y
      BY <1>4, <1>5, <1>7, Least
    <2>2. PICK b \in TicksFor(i) : \A y \in TicksFor(i) : y <= b
      BY <1>4, <1>5, <1>7, Greatest
    <2>3. a \in 1 .. n /\ b \in 1 .. n /\ a <= b
      BY <1>5, <2>1, <2>2
    <2>4. \A l \in a .. b : ticks[l].task = i
      <3>1. a \in DOMAIN ticks /\ b \in DOMAIN ticks /\ ticks[a].task = i /\ ticks[b].task = i
        BY <2>1, <2>2 DEF TicksFor
      <3>2. i # NoRun
        BY <1>1 DEF NoRun
      <3> QED
        BY <2>3, <3>1, <3>2 DEF BatchInv, InTurn
    <2>5. a .. b \subseteq TicksFor(i)
      <3>1. a .. b \subseteq 1 .. n
        BY <1>4, <2>3
      <3> QED
        BY <1>4, <2>4, <3>1 DEF TicksFor
    <2>6. TicksFor(i) \subseteq a .. b
      BY <1>5, <2>1, <2>2, <2>3
    <2>7. TicksFor(i) \in SUBSET Int
      BY <1>5
    <2>8. Min(TicksFor(i)) = a
      BY <2>1, <2>7, MinIs
    <2>9. Max(TicksFor(i)) = b
      BY <2>2, <2>7, MaxIs
    <2>10. TicksFor(i) = a .. b
      BY <2>5, <2>6
    <2> QED
      BY <2>2, <2>3, <2>8, <2>9, <2>10
  <1> QED
    BY <1>1, <1>3, <1>4, <1>5, <1>6, <1>7

\* The summary made from the phases of a shift is the one its sensors would give.
LEMMA SummariesAgree == BatchInv => SummaryAsOnEdge
  <1> SUFFICES ASSUME BatchInv, NEW f \in filed
               PROVE  [f.summary EXCEPT !.fuel = @ - ticks[1].fuel] = EdgeSummary
    BY DEF SummaryAsOnEdge
  <1>1. f.summary = BatchSummary
    BY DEF BatchInv, Finished
  <1>2. {k \in DOMAIN ticks : ticks[k].phase \in {"idle", "blocked"}}
          = {k \in DOMAIN ticks : ticks[k].running /\ ~ticks[k].hydraulic /\ ~ticks[k].moving}
    <2> SUFFICES ASSUME NEW k \in DOMAIN ticks
                 PROVE  ticks[k].phase \in {"idle", "blocked"}
                          <=> ticks[k].running /\ ~ticks[k].hydraulic /\ ~ticks[k].moving
      OBVIOUS
    <2>1. ticks[k].phase \in PhaseNames
      <3>1. ticks \in Seq(RawTicks)
        BY DEF BatchInv, BatchTypes
      <3>2. ticks[k] \in RawTicks
        BY <3>1
      <3> QED
        BY <3>2 DEF RawTicks
    <2>2. Shows(ticks[k], AnomalyAt(k - 1))
      BY DEF BatchInv, Sensed
    <2> QED
      BY <2>1, <2>2 DEF Shows, PhaseNames
  <1>3. BatchSummary.idle = EdgeSummary.idle
    BY <1>2 DEF BatchSummary, EdgeSummary, InPhase
  <1> QED
    BY <1>1, <1>3 DEF BatchSummary, EdgeSummary

\* The actuals of a task, from where its ticks begin and end and what it has moved.
LEMMA ActualIs ==
    ASSUME BatchInv, NEW i \in DOMAIN PlannedTasks
    PROVE  /\ TicksFor(i) = {} =>
                 /\ ~Actual(i).started /\ Actual(i).completed = 0 /\ Actual(i).blocked = 0
                 /\ runs[i].progress = 0 /\ runs[i].elapsed = 0
           /\ TicksFor(i) # {} =>
                 /\ Actual(i).started /\ Actual(i).completed = RoundedTo3(runs[i].progress)
                 /\ Actual(i).end <= Now /\ Actual(i).blocked = InPhase(TicksFor(i), {"blocked"})
                 /\ runs[i].elapsed > 0
           /\ runs[i].progress \in Nat
  <1>1. runs[i] \in TaskRuns
    BY DEF BatchInv, BatchTypes
  <1>2. runs[i].progress \in Nat /\ runs[i].elapsed \in Nat
    BY <1>1 DEF TaskRuns
  <1>3. /\ runs[i].progress = SumFunctionOnSet(Moved, TicksFor(i))
        /\ runs[i].elapsed > 0 <=> TicksFor(i) # {}
    BY DEF BatchInv, Tallied
  <1>4. ASSUME TicksFor(i) = {}
        PROVE  /\ ~Actual(i).started /\ Actual(i).completed = 0 /\ Actual(i).blocked = 0
               /\ runs[i].progress = 0 /\ runs[i].elapsed = 0
    <2>1. runs[i].progress = 0
      <3>1. runs[i].progress = SumFunctionOnSet(Moved, {})
        BY <1>3, <1>4, Zenon
      <3> QED
        BY <3>1, SumOfNothing
    <2> QED
      BY <1>2, <1>3, <1>4, <2>1 DEF Actual
  <1>5. ASSUME TicksFor(i) # {}
        PROVE  /\ Actual(i).started /\ Actual(i).completed = RoundedTo3(runs[i].progress)
               /\ Actual(i).end <= Now /\ Actual(i).blocked = InPhase(TicksFor(i), {"blocked"})
               /\ runs[i].elapsed > 0
    <2>1. PICK b \in 1 .. Now : Max(TicksFor(i)) = b
      BY <1>5, TicksInOne
    <2>2. Now \in Nat
      BY TicksInOne
    <2> QED
      BY <1>3, <1>5, <2>1, <2>2 DEF Actual
  <1> QED
    BY <1>2, <1>4, <1>5

\* Tasks are left in the order they were begun, and short only by the end of the overtime.
LEMMA LeftInOrder == BatchInv => StatusesInOrder
  <1> SUFFICES ASSUME BatchInv, NEW f \in filed, NEW i \in DOMAIN plan.tasks
               PROVE  /\ f.status[i] # "cancelled" => \A j \in 1 .. i - 1 : RunDone(runs[j], j)
                      /\ f.status[i] = "paused" => Now = ShiftTicks + OvertimeTicks
                      /\ f.status[i] = "done" => f.actuals[i].end <= ShiftTicks + OvertimeTicks
                      /\ RunDone(runs[i], i) => f.status[i] = "done"
    BY DEF StatusesInOrder
  <1>1. f.actuals[i] = Actual(i) /\ f.status[i] = HistoryStatus(i, Actual(i))
    BY DEF BatchInv, Finished
  <1>2. plan.tasks = PlannedTasks /\ i \in DOMAIN PlannedTasks
    BY DEF BatchInv, Drafted
  <1>3. /\ Len(PlannedTasks) \in Nat /\ DOMAIN PlannedTasks = 1 .. Len(PlannedTasks)
        /\ PlannedTasks[i].target \in Nat \ {0}
    BY <1>2, PlannedAre
  <1>4. PICK T \in Nat \ {0}, p \in Nat : T = plan.tasks[i].target /\ p = runs[i].progress
    BY <1>2, <1>3, ActualIs
  <1>5. RunDone(runs[i], i) <=> p >= 3 * T
    BY <1>4 DEF RunDone
  <1>6. RoundedTo3(p) >= T <=> p + 1 >= 3 * T
    BY <1>4 DEF RoundedTo3
  <1>7. /\ Now \in Nat /\ Now <= ShiftTicks + OvertimeTicks /\ ShiftTicks + OvertimeTicks \in Nat
        /\ DOMAIN ticks = 1 .. Now
    BY <1>2, TicksInOne, LimitsAre DEF BatchInv, BatchTypes
  <1>8. runIdx \in 1 .. Len(PlannedTasks) + 1
    BY DEF BatchInv, BatchTypes
  <1>9. CASE TicksFor(i) = {}
    <2>1. ~Actual(i).started /\ p = 0
      BY <1>2, <1>4, <1>9, ActualIs
    <2>2. f.status[i] = "cancelled" /\ ~RunDone(runs[i], i)
      BY <1>1, <1>4, <1>5, <2>1 DEF HistoryStatus
    <2> QED
      BY <2>2
  <1>10. CASE TicksFor(i) # {}
    <2>1. /\ Actual(i).started /\ Actual(i).completed = RoundedTo3(p) /\ Actual(i).end <= Now
          /\ runs[i].elapsed > 0
      BY <1>2, <1>4, <1>10, ActualIs
    <2>2. f.status[i] = IF RoundedTo3(p) >= T THEN "done" ELSE "paused"
      BY <1>1, <1>4, <2>1 DEF HistoryStatus
    <2>3. PICK k \in DOMAIN ticks : ticks[k].task = i
      BY <1>10 DEF TicksFor
    <2>4. i <= runIdx
      BY <2>3 DEF BatchInv, InTurn
    <2>5. \A j \in 1 .. i - 1 : RunDone(runs[j], j)
      <3> SUFFICES ASSUME NEW j \in 1 .. i - 1 PROVE RunDone(runs[j], j)
        OBVIOUS
      <3>1. j \in DOMAIN PlannedTasks /\ j < runIdx
        BY <1>2, <1>3, <1>8, <2>4
      <3> QED
        BY <3>1 DEF BatchInv, InTurn
    <2>6. ASSUME f.status[i] = "paused" PROVE Now = ShiftTicks + OvertimeTicks
      <3>1. ~RunDone(runs[i], i)
        BY <1>4, <1>5, <1>6, <2>2, <2>6
      <3>2. ~(i < runIdx)
        BY <1>2, <3>1 DEF BatchInv, InTurn
      <3>3. i = runIdx
        BY <1>2, <1>3, <1>8, <2>4, <3>2
      <3>4. gapLeft = 0
        BY <2>3, <3>3 DEF BatchInv, InTurn
      <3>5. AtWork
        BY <1>2, <1>3, <3>3, <3>4 DEF AtWork, AllDone
      <3>6. ~FinishingInOvertime
        BY DEF BatchInv, Finished
      <3>7. ~(Now < ShiftTicks + OvertimeTicks)
        BY <2>1, <3>1, <3>3, <3>5, <3>6 DEF FinishingInOvertime
      <3> QED
        BY <1>7, <3>7
    <2>7. f.actuals[i].end <= ShiftTicks + OvertimeTicks
      <3>1. PICK e \in 1 .. Now : Actual(i).end = e
        <4>1. PICK e \in 1 .. Now : Max(TicksFor(i)) = e
          BY <1>2, <1>10, TicksInOne
        <4> QED
          BY <1>10, <4>1 DEF Actual
      <3> QED
        BY <1>1, <1>7, <3>1
    <2>8. RunDone(runs[i], i) => f.status[i] = "done"
      BY <1>4, <1>5, <1>6, <2>2
    <2> QED
      BY <2>5, <2>6, <2>7, <2>8
  <1> QED
    BY <1>9, <1>10

\* The minutes of a task are its ticks at work.
LEMMA MinutesAreWorked ==
    ASSUME BatchInv, NEW i \in DOMAIN PlannedTasks
    PROVE  WorkedMinutes(Actual(i)) = Cardinality({k \in TicksFor(i) :
               ticks[k].phase \in {"working", "travelling", "idle"}})
  <1>1. PICK K : K = TicksFor(i)
    OBVIOUS
  <1>2. IsFiniteSet(K)
    BY <1>1, TicksInOne
  <1>3. PICK P, B, W : /\ P = {k \in K : ticks[k].phase \in {"paused"}}
                       /\ B = {k \in K : ticks[k].phase \in {"blocked"}}
                       /\ W = {k \in K : ticks[k].phase \in {"working", "travelling", "idle"}}
    OBVIOUS
  <1>4. /\ IsFiniteSet(P) /\ IsFiniteSet(B) /\ IsFiniteSet(W)
        /\ Cardinality(P) \in Nat /\ Cardinality(B) \in Nat /\ Cardinality(W) \in Nat
    <2>1. P \in SUBSET K /\ B \in SUBSET K /\ W \in SUBSET K
      BY <1>3
    <2>2. IsFiniteSet(P) /\ IsFiniteSet(B) /\ IsFiniteSet(W)
      BY <1>2, <2>1, FS_Subset
    <2> QED
      BY <2>2, FS_CardinalityType
  <1>5. \A k \in K : ticks[k].phase \in {"working", "travelling", "idle", "blocked", "paused"}
    <2> SUFFICES ASSUME NEW k \in K
                 PROVE  ticks[k].phase \in {"working", "travelling", "idle", "blocked", "paused"}
      OBVIOUS
    <2>1. k \in DOMAIN ticks /\ ticks[k].task = i /\ i # NoRun
      BY <1>1, TicksInOne DEF TicksFor, NoRun
    <2>2. ticks[k] \in RawTicks
      <3>1. ticks \in Seq(RawTicks)
        BY DEF BatchInv, BatchTypes
      <3> QED
        BY <2>1, <3>1
    <2>3. ticks[k].phase # "engine_off"
      BY <2>1 DEF BatchInv, Sensed, Shows
    <2> QED
      BY <2>2, <2>3 DEF RawTicks, PhaseNames
  <1>6. Cardinality(K) = Cardinality(W) + Cardinality(P) + Cardinality(B)
    <2>1. K = (P \cup B) \cup W
      BY <1>3, <1>5
    <2>2. P \cap B = {} /\ (P \cup B) \cap W = {}
      BY <1>3
    <2>3. IsFiniteSet(P \cup B) /\ Cardinality(P \cup B) = Cardinality(P) + Cardinality(B)
      <3>1. Cardinality(P \cap B) = 0
        BY <2>2, FS_EmptySet
      <3>2. /\ IsFiniteSet(P \cup B)
            /\ Cardinality(P \cup B) = Cardinality(P) + Cardinality(B) - Cardinality(P \cap B)
        BY <1>4, FS_Union
      <3> QED
        BY <1>4, <3>1, <3>2
    <2>4. Cardinality((P \cup B) \cup W) = Cardinality(P \cup B) + Cardinality(W)
      <3>1. Cardinality((P \cup B) \cap W) = 0
        BY <2>2, FS_EmptySet
      <3>2. Cardinality((P \cup B) \cup W)
              = Cardinality(P \cup B) + Cardinality(W) - Cardinality((P \cup B) \cap W)
        BY <1>4, <2>3, FS_Union
      <3> QED
        BY <1>4, <2>3, <3>1, <3>2
    <2> QED
      BY <1>4, <2>1, <2>3, <2>4
  <1>7. CASE K = {}
    <2>1. W = {}
      BY <1>3, <1>7
    <2>2. Cardinality(W) = 0
      BY <2>1, FS_EmptySet
    <2>3. WorkedMinutes(Actual(i)) = 0
      BY <1>1, <1>7 DEF WorkedMinutes, Actual
    <2> QED
      BY <1>1, <1>3, <2>2, <2>3
  <1>8. CASE K # {}
    <2>1. PICK a \in 1 .. Now, b \in 1 .. Now : a <= b /\ K = a .. b /\ Min(K) = a /\ Max(K) = b
      BY <1>1, <1>8, TicksInOne
    <2>2. a \in Int /\ b \in Int /\ a <= b
      BY <2>1
    <2>3. Cardinality(K) = b - a + 1
      BY <2>1, <2>2, FS_Interval
    <2>4. /\ Actual(i).start = a - 1 /\ Actual(i).end = b
          /\ Actual(i).paused = Cardinality(P) /\ Actual(i).blocked = Cardinality(B)
      BY <1>1, <1>3, <1>8, <2>1 DEF Actual, InPhase
    <2>5. WorkedMinutes(Actual(i)) = b - (a - 1) - Cardinality(P) - Cardinality(B)
      BY <2>4 DEF WorkedMinutes
    <2>6. WorkedMinutes(Actual(i)) = Cardinality(W)
      BY <1>4, <1>6, <2>2, <2>3, <2>5
    <2> QED
      BY <1>1, <1>3, <2>6
  <1> QED
    BY <1>7, <1>8

LEMMA ActualsAdd == BatchInv => ActualsExact
  <1> SUFFICES ASSUME BatchInv, NEW f \in filed, NEW i \in DOMAIN plan.tasks
               PROVE  /\ WorkedMinutes(f.actuals[i]) = Cardinality({k \in TicksFor(i) :
                              ticks[k].phase \in {"working", "travelling", "idle"}})
                      /\ plan.windows = {} => f.actuals[i].blocked <= plan.waits[i].for
                      /\ plan.windows = {} /\ plan.waits[i].at >= 0 /\ runs[i].elapsed > 0
                         /\ runs[i].blockedAt = -1 /\ runs[i].blockedLeft = 0
                         => f.actuals[i].blocked = plan.waits[i].for
    BY DEF ActualsExact
  <1>1. f.actuals[i] = Actual(i)
    BY DEF BatchInv, Finished
  <1>2. i \in DOMAIN PlannedTasks
    BY DEF BatchInv, Drafted
  <1>3. runs[i] \in TaskRuns /\ plan.waits[i] \in [at : Nat \cup {-1}, for : Nat]
    BY <1>2, LimitsAre DEF BatchInv, BatchTypes, Drafted
  <1>4. PICK met : met = InPhase(TicksFor(i), {"blocked"})
    OBVIOUS
  <1>5. ASSUME plan.windows = {}
        PROVE  /\ runs[i].blockedFor = plan.waits[i].for
               /\ runs[i].blockedLeft <= plan.waits[i].for
               /\ met = IF runs[i].blockedAt = plan.waits[i].at THEN 0
                        ELSE IF runs[i].blockedLeft = 0 THEN plan.waits[i].for
                        ELSE plan.waits[i].for - runs[i].blockedLeft + 1
    BY <1>2, <1>4, <1>5 DEF BatchInv, Waited
  <1>6. runs[i].blockedLeft \in Nat /\ plan.waits[i].for \in Nat
    BY <1>3 DEF TaskRuns
  <1>7. /\ TicksFor(i) = {} => Actual(i).blocked = 0 /\ runs[i].elapsed = 0
        /\ TicksFor(i) # {} => Actual(i).blocked = met
    BY <1>2, <1>4, ActualIs
  <1>8. plan.windows = {} => Actual(i).blocked <= plan.waits[i].for
    BY <1>5, <1>6, <1>7
  <1>9. ASSUME plan.windows = {}, plan.waits[i].at >= 0, runs[i].elapsed > 0,
               runs[i].blockedAt = -1, runs[i].blockedLeft = 0
        PROVE  Actual(i).blocked = plan.waits[i].for
    <2>1. TicksFor(i) # {}
      BY <1>7, <1>9
    <2>2. plan.waits[i].at # -1
      BY <1>9
    <2> QED
      BY <1>5, <1>7, <1>9, <2>1, <2>2
  <1>10. WorkedMinutes(Actual(i)) = Cardinality({k \in TicksFor(i) :
               ticks[k].phase \in {"working", "travelling", "idle"}})
    BY <1>2, MinutesAreWorked
  <1> QED
    BY <1>1, <1>8, <1>9, <1>10

\* What the detectors read: idling is the phase of that name, and only a window raises
\* the engine speed.
LEMMA ReadingsAre ==
    ASSUME BatchInv, NEW k \in DOMAIN ticks
    PROVE  /\ IsIdling(k) <=> ticks[k].phase = "idle"
           /\ IsHighRpmTravel(k) <=> AnomalyAt(k - 1) = "high_rpm_travel"
           /\ AnomalyAt(k - 1) \in IdleKinds => IsIdling(k)
  <1>1. ticks[k].phase \in PhaseNames
    <2>1. ticks \in Seq(RawTicks)
      BY DEF BatchInv, BatchTypes
    <2>2. ticks[k] \in RawTicks
      BY <2>1
    <2> QED
      BY <2>2 DEF RawTicks
  <1>2. Shows(ticks[k], AnomalyAt(k - 1))
    BY DEF BatchInv, Sensed
  <1>3. ReplayStatus(k) = "blocked" <=> ticks[k].task # NoRun /\ ticks[k].phase = "blocked"
    BY DEF ReplayStatus
  <1>4. IsIdling(k) <=> ticks[k].phase = "idle"
    BY <1>1, <1>2, <1>3 DEF IsIdling, Shows, PhaseNames
  <1>5. IsHighRpmTravel(k) <=> AnomalyAt(k - 1) = "high_rpm_travel"
    BY <1>2 DEF IsHighRpmTravel, Shows
  <1>6. AnomalyAt(k - 1) \in IdleKinds => IsIdling(k)
    BY <1>2, <1>4 DEF Shows
  <1> QED
    BY <1>4, <1>5, <1>6

\* A tick that an injected window covers overlaps every span of ticks it is in.
LEMMA InWindow ==
    ASSUME BatchInv, NEW s \in Int, NEW n \in Int, NEW k \in s .. s + n - 1,
           AnomalyAt(k - 1) # NoAnomaly, AnomalyAt(k - 1) # "legit_wait",
           NEW e, e.start = s - 1, e.end = s - 1 + n
    PROVE  \E w \in Injected : Overlaps(w, e) /\ w.kind = AnomalyAt(k - 1)
  <1>1. Drafted
    BY DEF BatchInv
  <1>2. PICK w \in plan.windows : Covers(w, k - 1) /\ AnomalyAt(k - 1) = w.kind
    BY <1>1, AnomalyOf
  <1>3. w.start \in Int /\ w.end \in Int
    BY <1>1, WindowsAre
  <1>4. w.start <= k - 1 /\ k - 1 < w.end
    BY <1>2 DEF Covers
  <1>5. Overlaps(w, e)
    BY <1>3, <1>4 DEF Overlaps
  <1>6. w \in Injected
    BY <1>2 DEF Injected
  <1> QED
    BY <1>2, <1>5, <1>6

\* Whatever is flagged overlaps an injected window whose kind explains it.
LEMMA FlaggedInWindow ==
    ASSUME BatchInv, Apart, NEW e \in ReplayEvents
    PROVE  \E w \in Injected : Overlaps(w, e) /\ (e.kind = w.kind \/ e.kind \in Explains(w.kind))
  <1>1. PICK n : n = Now
    OBVIOUS
  <1>2. n \in Nat /\ DOMAIN ticks = 1 .. n
    <2>1. ticks \in Seq(RawTicks)
      BY DEF BatchInv, BatchTypes
    <2> QED
      BY <1>1, <2>1 DEF Now
  <1>3. 0 < TravelTicks /\ 0 < IdleTicks /\ TravelTicks \in Nat /\ IdleTicks \in Nat
    BY ApartIs, LimitsAre
  <1>4. ASSUME NEW s \in DOMAIN ticks, s + IdleTicks <= n,
               \A j \in s .. s + IdleTicks : IsIdling(j),
               e = [kind |-> "excessive_idling", start |-> s - 1, end |-> s - 1 + IdleTicks]
        PROVE  \E w \in Injected : Overlaps(w, e) /\ (e.kind = w.kind \/ e.kind \in Explains(w.kind))
    <2>1. PICK t \in Int : t = s + IdleTicks - 1
      BY <1>2, <1>3
    <2>2. s \in Int /\ t \in DOMAIN ticks /\ s <= t /\ t - s + 1 = IdleTicks
      BY <1>2, <1>3, <1>4, <2>1
    <2>3. ~OwnIdling(s, t)
      <3>1. OwnIdling(s, t) => t - s + 1 < IdleTicks
        BY <2>2, OwnIdlingIsShort
      <3> QED
        BY <1>3, <2>2, <3>1
    <2>4. PICK k \in s .. t : ~OwnIdle(k)
      BY <2>3 DEF OwnIdling
    <2>5. k \in DOMAIN ticks /\ IsIdling(k)
      <3>1. k \in 1 .. n /\ k \in s .. s + IdleTicks
        <4>1. s \in Nat \ {0} /\ s <= k /\ k <= t /\ k \in Int /\ t <= n
          BY <1>2, <2>2
        <4> QED
          BY <1>2, <1>3, <2>1, <2>2, <4>1
      <3> QED
        BY <1>2, <1>4, <3>1
    <2>6. AnomalyAt(k - 1) \in IdleKinds
      BY <2>4, <2>5, ReadingsAre DEF OwnIdle
    <2>7. PICK w \in Injected : Overlaps(w, e) /\ w.kind = AnomalyAt(k - 1)
      <3>1. AnomalyAt(k - 1) # NoAnomaly /\ AnomalyAt(k - 1) # "legit_wait"
        BY <2>6 DEF IdleKinds, NoAnomaly
      <3>2. e.start = s - 1 /\ e.end = s - 1 + IdleTicks
        BY <1>4
      <3>3. k \in s .. s + IdleTicks - 1
        BY <2>1
      <3> QED
        BY <1>3, <2>2, <3>1, <3>2, <3>3, InWindow
    <2> QED
      BY <1>4, <2>6, <2>7 DEF IdleKinds, Explains
  <1>5. ASSUME NEW s \in DOMAIN ticks, IsHighRpmTravel(s),
               e = [kind |-> "high_rpm_travel", start |-> s - 1, end |-> s - 1 + TravelTicks]
        PROVE  \E w \in Injected : Overlaps(w, e) /\ (e.kind = w.kind \/ e.kind \in Explains(w.kind))
    <2>1. AnomalyAt(s - 1) = "high_rpm_travel"
      BY <1>5, ReadingsAre
    <2>2. AnomalyAt(s - 1) # NoAnomaly /\ AnomalyAt(s - 1) # "legit_wait"
      BY <2>1 DEF NoAnomaly
    <2>3. s \in Int /\ s \in s .. s + TravelTicks - 1
      BY <1>2, <1>3
    <2>4. e.start = s - 1 /\ e.end = s - 1 + TravelTicks
      BY <1>5
    <2>5. PICK w \in Injected : Overlaps(w, e) /\ w.kind = AnomalyAt(s - 1)
      BY <1>3, <2>2, <2>3, <2>4, InWindow
    <2> QED
      BY <1>5, <2>1, <2>5
  <1>6. CASE e \in FlaggedSpans("excessive_idling", [k \in DOMAIN ticks |-> IsIdling(k)], IdleTicks)
    <2>1. PICK s \in DOMAIN ticks :
             /\ s + IdleTicks <= n
             /\ \A j \in s .. s + IdleTicks : [k \in DOMAIN ticks |-> IsIdling(k)][j]
             /\ e = [kind |-> "excessive_idling", start |-> s - 1, end |-> s - 1 + IdleTicks]
      BY <1>1, <1>6 DEF FlaggedSpans
    <2>2. \A j \in s .. s + IdleTicks : j \in DOMAIN ticks
      BY <1>2, <1>3, <2>1
    <2>3. \A j \in s .. s + IdleTicks : IsIdling(j)
      BY <2>1, <2>2
    <2> QED
      BY <1>4, <2>1, <2>3
  <1>7. CASE e \in FlaggedSpans("high_rpm_travel", [k \in DOMAIN ticks |-> IsHighRpmTravel(k)],
                                TravelTicks)
    <2>1. PICK s \in DOMAIN ticks :
             /\ \A j \in s .. s + TravelTicks : [k \in DOMAIN ticks |-> IsHighRpmTravel(k)][j]
             /\ e = [kind |-> "high_rpm_travel", start |-> s - 1, end |-> s - 1 + TravelTicks]
      BY <1>7 DEF FlaggedSpans
    <2>2. s \in s .. s + TravelTicks
      BY <1>2, <1>3
    <2>3. IsHighRpmTravel(s)
      BY <2>1, <2>2
    <2> QED
      BY <1>5, <2>1, <2>3
  <1> QED
    BY <1>6, <1>7 DEF ReplayEvents

\* What holds for longer than a limit is flagged, from where it began to hold.
LEMMA LongIsFlagged ==
    ASSUME NEW kind, NEW holds, NEW limit \in Nat, Now \in Nat, DOMAIN ticks = 1 .. Now,
           NEW p \in 1 .. Now, NEW q \in 1 .. Now, p + limit <= q,
           \A j \in p .. q : holds[j]
    PROVE  \E e \in FlaggedSpans(kind, holds, limit) : e.kind = kind
  <1>1. PICK T : T = {s \in 1 .. p : \A j \in s .. p : holds[j]}
    OBVIOUS
  <1>2. p \in Nat /\ q \in Nat
    OBVIOUS
  <1>3. T \in SUBSET (1 .. p) /\ p \in T
    <2>1. \A j \in p .. p : holds[j]
      BY <1>2
    <2> QED
      BY <1>1, <1>2, <2>1
  <1>4. PICK s \in T : \A y \in T : s <= y
    BY <1>2, <1>3, Least
  <1>5. s \in 1 .. p /\ \A j \in s .. p : holds[j]
    BY <1>1, <1>4
  <1>6. s = 1 \/ ~holds[s - 1]
    <2> SUFFICES ASSUME s # 1, holds[s - 1] PROVE FALSE
      OBVIOUS
    <2>1. PICK r \in Int : r = s - 1
      BY <1>5
    <2>2. r \in 1 .. p /\ r < s
      BY <1>5, <2>1
    <2>3. \A j \in r .. p : holds[j]
      BY <1>5, <2>1
    <2>4. r \in T
      BY <1>1, <2>2, <2>3
    <2>5. s <= r
      BY <1>4, <2>4
    <2> QED
      BY <1>5, <2>2, <2>5
  <1>7. s + limit <= Now /\ s \in DOMAIN ticks
    BY <1>5
  <1>8. \A j \in s .. s + limit : holds[j]
    BY <1>5
  <1> DEFINE e == [kind |-> kind, start |-> s - 1, end |-> s - 1 + limit]
  <1>9. e \in FlaggedSpans(kind, holds, limit)
    BY <1>6, <1>7, <1>8 DEF FlaggedSpans
  <1> QED
    BY <1>9

\* A window whose detector reads ticks makes the machine do it for longer than the limit.
LEMMA WindowIsFlagged ==
    ASSUME BatchInv, Apart, Now >= ShiftTicks, NEW w \in Injected, w.kind \in ReplayedKinds
    PROVE  \E e \in ReplayEvents : e.kind = w.kind
  <1>1. PICK n : n = Now
    OBVIOUS
  <1>2. n \in Nat /\ DOMAIN ticks = 1 .. n
    <2>1. ticks \in Seq(RawTicks)
      BY DEF BatchInv, BatchTypes
    <2> QED
      BY <1>1, <2>1 DEF Now
  <1>3. TravelTicks \in Nat /\ IdleTicks \in Nat /\ ShiftTicks \in Nat
    BY LimitsAre
  <1>4. w \in plan.windows /\ w.kind # "legit_wait" /\ Drafted
    BY DEF Injected, BatchInv
  <1>5. PICK i \in DOMAIN WindowStarts[w.kind], m \in WindowTicks[w.kind] :
           w.start \in WindowStarts[w.kind][i] /\ m \in Nat /\ w.end = w.start + m
    BY <1>4, WindowsAre
  <1>6. w.kind \in DOMAIN WindowStarts /\ w.start \in Nat
    BY <1>4, WindowsAre
  <1>7. PICK limit \in Nat : limit = IF w.kind = "excessive_idling" THEN IdleTicks ELSE TravelTicks
    BY <1>3
  <1>8. limit < m /\ w.start + m <= ShiftTicks
    <2>1. w.kind \in DOMAIN WindowStarts \cap ReplayedKinds
      BY <1>6
    <2> QED
      BY <1>5, <1>7, <2>1 DEF Apart
  <1>9. PICK p \in Int, q \in Int : p = w.start + 1 /\ q = w.end
    BY <1>5, <1>6
  <1>10. p \in 1 .. n /\ q \in 1 .. n /\ p + limit <= q
    <2>1. PICK u \in Nat : u = w.start
      BY <1>6
    <2>2. p = u + 1 /\ q = u + m /\ m \in Nat /\ limit < m /\ u + m <= ShiftTicks
      BY <1>5, <1>8, <1>9, <2>1
    <2>3. n \in Nat /\ n >= ShiftTicks /\ ShiftTicks \in Nat
      BY <1>1, <1>2, <1>3
    <2>4. q <= n /\ 1 <= p /\ p <= q /\ p + limit <= q
      BY <2>2, <2>3
    <2> QED
      BY <1>2, <2>4
  <1>11. \A j \in p .. q : j \in DOMAIN ticks /\ AnomalyAt(j - 1) = w.kind
    <2> SUFFICES ASSUME NEW j \in p .. q PROVE j \in DOMAIN ticks /\ AnomalyAt(j - 1) = w.kind
      OBVIOUS
    <2>1. j \in DOMAIN ticks
      BY <1>2, <1>10
    <2>2. w.start <= j - 1 /\ j - 1 < w.end
      BY <1>5, <1>6, <1>9
    <2>3. Covers(w, j - 1)
      BY <2>2 DEF Covers
    <2> QED
      BY <1>4, <2>1, <2>3, AnomalyOf
  <1>12. CASE w.kind = "excessive_idling"
    <2>1. \A j \in p .. q : IsIdling(j)
      BY <1>11, <1>12, ReadingsAre DEF IdleKinds
    <2> DEFINE holds == [k \in DOMAIN ticks |-> IsIdling(k)]
    <2>2. \A j \in p .. q : holds[j]
      BY <1>11, <2>1
    <2>3. \E e \in FlaggedSpans("excessive_idling", holds, limit) : e.kind = "excessive_idling"
      <3> HIDE DEF holds
      <3> QED
        BY <1>1, <1>2, <1>10, <2>2, LongIsFlagged
    <2> QED
      BY <1>7, <1>12, <2>3 DEF ReplayEvents
  <1>13. CASE w.kind = "high_rpm_travel"
    <2>1. \A j \in p .. q : IsHighRpmTravel(j)
      BY <1>11, <1>13, ReadingsAre
    <2> DEFINE holds == [k \in DOMAIN ticks |-> IsHighRpmTravel(k)]
    <2>2. \A j \in p .. q : holds[j]
      BY <1>11, <2>1
    <2>3. \E e \in FlaggedSpans("high_rpm_travel", holds, limit) : e.kind = "high_rpm_travel"
      <3> HIDE DEF holds
      <3> QED
        BY <1>1, <1>2, <1>10, <2>2, LongIsFlagged
    <2> QED
      BY <1>7, <1>13, <2>3 DEF ReplayEvents
  <1> QED
    BY <1>12, <1>13 DEF ReplayedKinds

LEMMA FlagsAreInjected == BatchInv /\ Apart => FlaggedAsInjected
  <1> SUFFICES ASSUME BatchInv, Apart, NEW f \in filed
               PROVE  Missed(f.events) = {} /\ FalsePositives(f.events) = {}
    BY DEF FlaggedAsInjected
  <1>1. f.events = ReplayEvents /\ Now >= ShiftTicks
    BY DEF BatchInv, Finished
  <1>2. FalsePositives(f.events) = {}
    BY <1>1, FlaggedInWindow DEF FalsePositives
  <1>3. ASSUME NEW w \in Injected, w.kind \in ReplayedKinds
        PROVE  \E v \in Injected, e \in f.events :
                  v.kind = w.kind /\ e.kind = w.kind /\ Overlaps(v, e)
    <2>1. PICK e \in ReplayEvents : e.kind = w.kind
      BY <1>1, <1>3, WindowIsFlagged
    <2>2. PICK v \in Injected : Overlaps(v, e)
      BY <2>1, FlaggedInWindow
    <2>3. v.kind = w.kind
      <3>1. v \in plan.windows /\ w \in plan.windows /\ Drafted
        BY <1>3, <2>2 DEF Injected, BatchInv
      <3> QED
        BY <3>1, WindowsAre
    <2> QED
      BY <1>1, <2>1, <2>2, <2>3
  <1>4. Missed(f.events) = {}
    BY <1>3 DEF Missed
  <1> QED
    BY <1>2, <1>4

\* Whatever is drawn for a shift (its tasks, their truck waits, its breaks, one kind of
\* window or a legitimate wait), the summary made from the generator's phases is the one
\* the edge would make of the ticks, which do not tell them; the minutes a task is
\* trained on are its ticks at work; and its tasks are filed in the order they were
\* worked, short only by the end of the overtime (derive_actuals, shifts.py).
THEOREM ActualsAreSound ==
    BatchSpec => [](SummaryAsOnEdge /\ ActualsExact /\ StatusesInOrder)
  <1>1. BatchInv => SummaryAsOnEdge /\ ActualsExact /\ StatusesInOrder
    BY SummariesAgree, ActualsAdd, LeftInOrder
  <1> QED
    BY BatchStarts, BatchStep, <1>1, PTL DEF BatchSpec

\* Where a gap and the idle moments after it are together shorter than the detector's
\* limit, and the windows of the two kinds whose detectors read ticks are longer than
\* theirs and within the shift, the replayed history is sound: every such window is flagged
\* and nothing else is, and its actuals are as above (edge_replay.py, detection_report.py).
THEOREM HistoryIsSound == Apart => (BatchSpec => []HistorySound)
  <1> SUFFICES ASSUME Apart PROVE BatchSpec => []HistorySound
    OBVIOUS
  <1>1. BatchInv => HistorySound
    BY FlagsAreInjected, SummariesAgree, ActualsAdd, LeftInOrder DEF HistorySound
  <1> QED
    BY BatchStarts, BatchStep, <1>1, PTL DEF BatchSpec
=============================================================================
