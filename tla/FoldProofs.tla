------------------------------ MODULE FoldProofs ------------------------------
(***************************************************************************)
(* What the folds the models use compute, for every finite set: the        *)
(* existence of the function a fold is defined with, and the laws of a sum *)
(* of a function over a set, whatever the order the fold takes.            *)
(*                                                                         *)
(* The induction theorems of the library take a predicate as a parameter.  *)
(* Here induction is over a set T of numbers, or of subsets: its members   *)
(* are those the claim holds of.                                           *)
(***************************************************************************)
EXTENDS Integers, FiniteSets, Functions, FiniteSetsExt, FiniteSetTheorems,
        WellFoundedInduction, TLAPS

\* A set with 0 and every successor of a member has every number.
LEMMA NumbersBySet ==
  ASSUME NEW T, 0 \in T, \A n \in Nat : n \in T => n + 1 \in T
  PROVE  \A n \in Nat : n \in T
<1> DEFINE Less == {p \in Nat \X Nat : p[1] < p[2]}
           Bad == {n \in Nat : n \notin T}
<1>1. IsWellFoundedOn(Less, Nat)
  BY NatLessThanWellFounded DEF OpToRel
<1>2. SUFFICES ASSUME Bad # {} PROVE FALSE
  OBVIOUS
<1>3. PICK n \in Bad : \A m \in Bad : <<m, n>> \notin Less
  <2> HIDE DEF Less
  <2> QED
    BY <1>1, <1>2, WFMin
<1>4. n \in Nat /\ n # 0 /\ n - 1 \in Nat
  BY <1>3
<1>5. n - 1 \in T
  <2>1. SUFFICES ASSUME n - 1 \notin T PROVE FALSE
    OBVIOUS
  <2>2. n - 1 \in Bad
    BY <1>4, <2>1
  <2>3. <<n - 1, n>> \in Less
    BY <1>4
  <2> QED
    BY <1>3, <2>2, <2>3
<1>6. n \in T
  BY <1>4, <1>5
<1> QED
  BY <1>3, <1>6

\* Some number of a set is the least.
LEMMA LeastNumber ==
  ASSUME NEW S \in SUBSET Nat, S # {}
  PROVE  \E n \in S : \A m \in S : n <= m
<1> DEFINE Less == {p \in Nat \X Nat : p[1] < p[2]}
<1>1. IsWellFoundedOn(Less, Nat)
  BY NatLessThanWellFounded DEF OpToRel
<1>2. PICK n \in S : \A m \in S : <<m, n>> \notin Less
  <2> HIDE DEF Less
  <2> QED
    BY <1>1, WFMin
<1>3. ASSUME NEW m \in S PROVE n <= m
  <2>1. m \in Nat /\ n \in Nat /\ <<m, n>> \notin Less
    BY <1>2
  <2>2. ~(m < n)
    BY <2>1
  <2> QED
    BY <2>1, <2>2
<1> QED
  BY <1>3

\* A set that has a subset of U as soon as it has the strict subsets of that
\* one has them all.
LEMMA SubsetsBySet ==
  ASSUME NEW U, IsFiniteSet(U), NEW T,
         \A s \in SUBSET U : (\A t \in SUBSET U : t \subseteq s /\ t # s => t \in T) => s \in T
  PROVE  \A s \in SUBSET U : s \in T
<1> DEFINE Bad == {s \in SUBSET U : s \notin T}
<1>1. IsWellFoundedOn(StrictSubsetOrdering(U), SUBSET U)
  BY FS_StrictSubsetOrderingWellFounded, FS_FiniteSubsetsOfFinite
<1>2. SUFFICES ASSUME Bad # {} PROVE FALSE
  OBVIOUS
<1>3. PICK s \in Bad : \A t \in Bad : <<t, s>> \notin StrictSubsetOrdering(U)
  <2>1. Bad \subseteq SUBSET U
    OBVIOUS
  <2> HIDE DEF Bad
  <2> QED
    BY <1>1, <1>2, <2>1, WFMin
<1>4. ASSUME NEW t \in SUBSET U, t \subseteq s, t # s PROVE t \in T
  <2>1. <<t, s>> \in StrictSubsetOrdering(U)
    BY <1>3, <1>4 DEF StrictSubsetOrdering
  <2> QED
    BY <2>1, <1>3
<1> QED
  BY <1>3, <1>4

-----------------------------------------------------------------------------
(* Folds.                                                                   *)

\* What a fold over the set s is: the base, or one step from the fold over the
\* rest, the element that is taken next being the one `pick` names.
FoldOf(U, base, pick, step, g) ==
  g = [s \in SUBSET U |-> IF s = {} THEN base ELSE step[pick[s]][g[s \ {pick[s]}]]]

\* The function a fold over a finite set is defined with exists, and its values
\* are where the steps stay.
LEMMA FoldExists ==
  ASSUME NEW U, IsFiniteSet(U), NEW V, NEW base \in V, NEW pick, NEW step,
         \A s \in SUBSET U : s # {} => pick[s] \in s,
         \A x \in U, v \in V : step[x][v] \in V
  PROVE  \E g \in [SUBSET U -> V] : FoldOf(U, base, pick, step, g)
<1> DEFINE Small(n) == {s \in SUBSET U : Cardinality(s) <= n}
           Rec(g, s) == IF s = {} THEN base ELSE step[pick[s]][g[s \ {pick[s]}]]
           T == {n \in Nat : \E g \in [Small(n) -> V] : \A s \in Small(n) : g[s] = Rec(g, s)}
<1>1. \A s \in SUBSET U : IsFiniteSet(s) /\ Cardinality(s) \in Nat
  BY FS_Subset, FS_CardinalityType
<1>2. \A s \in SUBSET U : s # {} => Cardinality(s \ {pick[s]}) = Cardinality(s) - 1
  BY <1>1, FS_RemoveElement
<1>3. {} \in SUBSET U /\ Cardinality({}) = 0 /\ \A s \in SUBSET U : Cardinality(s) = 0 => s = {}
  BY <1>1, FS_EmptySet
<1>4. 0 \in T
  <2>1. ASSUME NEW s \in Small(0) PROVE s = {}
    <3>1. s \in SUBSET U /\ Cardinality(s) <= 0
      OBVIOUS
    <3>2. Cardinality(s) \in Nat
      BY <3>1, <1>1
    <3>3. Cardinality(s) = 0
      BY <3>1, <3>2
    <3> QED
      BY <3>1, <3>3, <1>3
  <2> DEFINE g == [s \in Small(0) |-> base]
  <2>2. g \in [Small(0) -> V] /\ \A s \in Small(0) : g[s] = Rec(g, s)
    BY <2>1
  <2> QED
    BY <2>2
<1>5. ASSUME NEW n \in Nat, n \in T PROVE n + 1 \in T
  <2>1. PICK g \in [Small(n) -> V] : \A s \in Small(n) : g[s] = Rec(g, s)
    BY <1>5
  <2> DEFINE h == [s \in Small(n + 1) |-> Rec(g, s)]
  <2>2. \A s \in Small(n + 1) : s # {} => s \ {pick[s]} \in Small(n)
    <3> SUFFICES ASSUME NEW s \in Small(n + 1), s # {} PROVE s \ {pick[s]} \in Small(n)
      OBVIOUS
    <3>1. s \in SUBSET U /\ Cardinality(s) <= n + 1 /\ s \ {pick[s]} \in SUBSET U
      OBVIOUS
    <3>2. Cardinality(s \ {pick[s]}) = Cardinality(s) - 1 /\ Cardinality(s) \in Nat
      BY <3>1, <1>1, <1>2
    <3>3. Cardinality(s \ {pick[s]}) <= n
      BY <3>1, <3>2
    <3> QED
      BY <3>1, <3>3
  <2>3. \A s \in Small(n + 1) : Rec(g, s) \in V
    <3> SUFFICES ASSUME NEW s \in Small(n + 1), s # {} PROVE Rec(g, s) \in V
      OBVIOUS
    <3>1. pick[s] \in U /\ g[s \ {pick[s]}] \in V
      BY <2>1, <2>2
    <3> QED
      BY <3>1
  <2>4. h \in [Small(n + 1) -> V]
    BY <2>3
  <2>5. ASSUME NEW s \in Small(n) PROVE s \in Small(n + 1) /\ h[s] = g[s]
    <3>0. s \in SUBSET U /\ Cardinality(s) <= n
      OBVIOUS
    <3>1. Cardinality(s) \in Nat
      BY <3>0, <1>1
    <3>4. Cardinality(s) <= n + 1
      BY <3>0, <3>1
    <3>2. s \in Small(n + 1)
      BY <3>0, <3>4
    <3>3. g[s] = Rec(g, s)
      BY <2>1
    <3> QED
      BY <3>2, <3>3
  <2>6. \A s \in Small(n + 1) : h[s] = Rec(h, s)
    <3> SUFFICES ASSUME NEW s \in Small(n + 1) PROVE h[s] = Rec(h, s)
      OBVIOUS
    <3>1. CASE s = {}
      BY <3>1
    <3>2. CASE s # {}
      <4>1. h[s \ {pick[s]}] = g[s \ {pick[s]}]
        BY <2>2, <2>5, <3>2
      <4> HIDE DEF Small
      <4> QED
        BY <4>1, <3>2
    <3> QED
      BY <3>1, <3>2
  <2> HIDE DEF h, Small, Rec
  <2>7. \E f \in [Small(n + 1) -> V] : \A s \in Small(n + 1) : f[s] = Rec(f, s)
    BY <2>4, <2>6
  <2>8. n + 1 \in Nat
    OBVIOUS
  <2> QED
    BY <2>7, <2>8
<1>6. Cardinality(U) \in Nat /\ Cardinality(U) \in T
  <2> HIDE DEF T
  <2> QED
    BY <1>1, <1>4, <1>5, NumbersBySet
<1>7. Small(Cardinality(U)) = SUBSET U
  BY FS_Subset
<1>8. PICK g \in [SUBSET U -> V] : \A s \in SUBSET U : g[s] = Rec(g, s)
  BY <1>6, <1>7
<1>9. g = [s \in SUBSET U |-> g[s]]
  BY <1>8
<1>10. g = [s \in SUBSET U |-> Rec(g, s)]
  BY <1>8, <1>9
<1> QED
  BY <1>8, <1>10 DEF FoldOf

-----------------------------------------------------------------------------
(* Sums of a function over a set.                                           *)

Some(s) == CHOOSE x \in s : TRUE

\* The recursion of SumFunctionOnSet.
SumOf(U, fun, g) ==
  /\ g[{}] = 0
  /\ \A s \in SUBSET U : s # {} => g[s] = fun[Some(s)] + g[s \ {Some(s)}]

LEMMA SomeIsIn == \A s : s # {} => Some(s) \in s
BY DEF Some

LEMMA SumIs ==
  ASSUME NEW U, IsFiniteSet(U), NEW fun, \A x \in U : fun[x] \in Nat
  PROVE  \E g \in [SUBSET U -> Nat] : SumOf(U, fun, g) /\ SumFunctionOnSet(fun, U) = g[U]
<1> DEFINE pick == [s \in SUBSET U |-> Some(s)]
           step == [x \in U |-> [v \in Nat |-> fun[x] + v]]
           Rec(g) == [s \in SUBSET U |-> IF s = {} THEN 0 ELSE fun[Some(s)] + g[s \ {Some(s)}]]
<1>1. \A s \in SUBSET U : s # {} => pick[s] \in s /\ Some(s) \in U
  BY SomeIsIn
<1>2. \A x \in U, v \in Nat : step[x][v] \in Nat /\ step[x][v] = fun[x] + v
  OBVIOUS
<1>3. PICK g \in [SUBSET U -> Nat] : FoldOf(U, 0, pick, step, g)
  <2> HIDE DEF pick, step
  <2> QED
    BY <1>1, <1>2, FoldExists
<1>4. ASSUME NEW s \in SUBSET U
      PROVE  g[s] = IF s = {} THEN 0 ELSE fun[Some(s)] + g[s \ {Some(s)}]
  <2>1. g[s] = IF s = {} THEN 0 ELSE step[pick[s]][g[s \ {pick[s]}]]
    BY <1>3 DEF FoldOf
  <2>2. CASE s = {}
    BY <2>1, <2>2
  <2>3. CASE s # {}
    <3>1. pick[s] = Some(s) /\ Some(s) \in U /\ s \ {Some(s)} \in SUBSET U
      BY <1>1, <2>3
    <3>2. g[s \ {Some(s)}] \in Nat
      BY <1>3, <3>1
    <3> HIDE DEF step
    <3> QED
      BY <2>1, <2>3, <3>1, <3>2, <1>2
  <2> QED
    BY <2>2, <2>3
<1>5. g = Rec(g)
  <2>1. g = [s \in SUBSET U |-> g[s]]
    BY <1>3
  <2> QED
    BY <2>1, <1>4
<1>6. PICK h : h = Rec(h) /\ SumFunctionOnSet(fun, U) = h[U]
  <2> DEFINE it == CHOOSE h : h = Rec(h)
  <2>1. SumFunctionOnSet(fun, U) = it[U]
    BY DEF SumFunctionOnSet, FoldFunctionOnSet, MapThenFoldSet, Some
  <2>2. it = Rec(it)
    BY <1>5
  <2> QED
    BY <2>1, <2>2
<1>7. ASSUME NEW s \in SUBSET U
      PROVE  h[s] = IF s = {} THEN 0 ELSE fun[Some(s)] + h[s \ {Some(s)}]
  BY <1>6
<1>8. \A s \in SUBSET U : g[s] = h[s]
  <2> DEFINE T == {s \in SUBSET U : g[s] = h[s]}
  <2>1. ASSUME NEW s \in SUBSET U, \A t \in SUBSET U : t \subseteq s /\ t # s => t \in T
        PROVE  s \in T
    <3>1. CASE s = {}
      BY <3>1, <1>4, <1>7
    <3>2. CASE s # {}
      <4>1. Some(s) \in s /\ s \ {Some(s)} \in T
        BY <3>2, <2>1, SomeIsIn
      <4> QED
        BY <4>1, <3>2, <1>4, <1>7
    <3> QED
      BY <3>1, <3>2
  <2> HIDE DEF T
  <2>2. \A s \in SUBSET U : s \in T
    BY <2>1, SubsetsBySet
  <2> QED
    BY <2>2 DEF T
<1>9. SumOf(U, fun, g)
  BY <1>4 DEF SumOf
<1> QED
  BY <1>3, <1>6, <1>8, <1>9

\* The recursion has one solution, and it depends on nothing but the function's
\* values.
LEMMA SumUnique ==
  ASSUME NEW U, IsFiniteSet(U), NEW W \in SUBSET U, NEW fun, NEW other,
         \A x \in W : fun[x] = other[x],
         NEW g, NEW h, SumOf(W, fun, g), SumOf(U, other, h)
  PROVE  \A s \in SUBSET W : g[s] = h[s]
<1> DEFINE T == {s \in SUBSET W : g[s] = h[s]}
<1>1. ASSUME NEW s \in SUBSET W, \A t \in SUBSET W : t \subseteq s /\ t # s => t \in T
      PROVE  s \in T
  <2>1. CASE s = {}
    BY <2>1 DEF SumOf
  <2>2. CASE s # {}
    <3>1. Some(s) \in s /\ Some(s) \in W /\ s \ {Some(s)} \in T
      BY <2>2, <1>1, SomeIsIn
    <3>2. g[s] = fun[Some(s)] + g[s \ {Some(s)}] /\ h[s] = other[Some(s)] + h[s \ {Some(s)}]
      BY <2>2 DEF SumOf
    <3> QED
      BY <3>1, <3>2
  <2> QED
    BY <2>1, <2>2
<1>2. IsFiniteSet(W)
  BY FS_Subset
<1> HIDE DEF T
<1>3. \A s \in SUBSET W : s \in T
  BY <1>1, <1>2, SubsetsBySet
<1> QED
  BY <1>3 DEF T

LEMMA SumAgree ==
  ASSUME NEW U, IsFiniteSet(U), NEW fun, NEW g, NEW h, SumOf(U, fun, g), SumOf(U, fun, h)
  PROVE  g[U] = h[U]
<1>1. U \in SUBSET U /\ \A x \in U : fun[x] = fun[x]
  OBVIOUS
<1>2. \A s \in SUBSET U : g[s] = h[s]
  BY <1>1, SumUnique
<1> QED
  BY <1>1, <1>2

\* One function of the subsets is the sum over each of them, and which element
\* it takes first does not matter.
SumsAll(U, fun, g) ==
  /\ g[{}] = 0
  /\ \A s \in SUBSET U : SumFunctionOnSet(fun, s) = g[s]
  /\ \A s \in SUBSET U : \A x \in s : g[s] = fun[x] + g[s \ {x}]

LEMMA SumOnSubsets ==
  ASSUME NEW U, IsFiniteSet(U), NEW fun, \A x \in U : fun[x] \in Nat
  PROVE  \E g \in [SUBSET U -> Nat] : SumsAll(U, fun, g)
<1>1. PICK g \in [SUBSET U -> Nat] : SumOf(U, fun, g)
  BY SumIs
<1>2. ASSUME NEW s \in SUBSET U PROVE SumFunctionOnSet(fun, s) = g[s]
  <2>1. IsFiniteSet(s)
    BY FS_Subset
  <2>2. PICK h \in [SUBSET s -> Nat] : SumOf(s, fun, h) /\ SumFunctionOnSet(fun, s) = h[s]
    BY <2>1, SumIs
  <2>3. \A t \in SUBSET s : h[t] = g[t]
    BY <1>1, <2>2, SumUnique
  <2> QED
    BY <2>2, <2>3
<1> DEFINE T == {s \in SUBSET U : \A x \in s : g[s] = fun[x] + g[s \ {x}]}
<1>3. ASSUME NEW s \in SUBSET U, \A t \in SUBSET U : t \subseteq s /\ t # s => t \in T
      PROVE  s \in T
  <2> SUFFICES ASSUME NEW x \in s PROVE g[s] = fun[x] + g[s \ {x}]
    OBVIOUS
  <2> DEFINE c == Some(s)
  <2>1. c \in s /\ g[s] = fun[c] + g[s \ {c}]
    BY <1>1, SomeIsIn DEF SumOf
  <2>2. CASE c = x
    BY <2>1, <2>2
  <2>3. CASE c # x
    <3>1. s \ {c} \in T /\ s \ {x} \in T /\ x \in s \ {c} /\ c \in s \ {x}
      BY <1>3, <2>1, <2>3
    <3>2. (s \ {c}) \ {x} = (s \ {x}) \ {c}
      OBVIOUS
    <3>3. g[s \ {c}] = fun[x] + g[(s \ {c}) \ {x}]
      BY <3>1
    <3>4. g[s \ {x}] = fun[c] + g[(s \ {x}) \ {c}]
      BY <3>1
    <3>5. fun[x] \in Nat /\ fun[c] \in Nat /\ g[(s \ {c}) \ {x}] \in Nat
      BY <1>1, <2>1
    <3> HIDE DEF c
    <3>6. g[s] = fun[c] + (fun[x] + g[(s \ {c}) \ {x}])
      BY <2>1, <3>3
    <3>7. g[s \ {x}] = fun[c] + g[(s \ {c}) \ {x}]
      BY <3>2, <3>4
    <3> QED
      BY <3>5, <3>6, <3>7
  <2> QED
    BY <2>2, <2>3
<1> HIDE DEF T
<1>4. \A s \in SUBSET U : s \in T
  BY <1>3, SubsetsBySet
<1>5. g[{}] = 0
  BY <1>1 DEF SumOf
<1>6. SumsAll(U, fun, g)
  BY <1>2, <1>4, <1>5 DEF T, SumsAll
<1> QED
  BY <1>1, <1>6

\* The laws of a sum of naturals over a finite set.
LEMMA SumOfNothing == ASSUME NEW fun PROVE SumFunctionOnSet(fun, {}) = 0
<1>1. IsFiniteSet({}) /\ \A x \in {} : fun[x] \in Nat
  BY FS_EmptySet
<1>2. PICK g \in [SUBSET {} -> Nat] : SumsAll({}, fun, g)
  BY <1>1, SumOnSubsets
<1> QED
  BY <1>2 DEF SumsAll

LEMMA SumIsNat ==
  ASSUME NEW S, IsFiniteSet(S), NEW fun, \A x \in S : fun[x] \in Nat
  PROVE  SumFunctionOnSet(fun, S) \in Nat
<1>1. PICK g \in [SUBSET S -> Nat] : SumOf(S, fun, g) /\ SumFunctionOnSet(fun, S) = g[S]
  BY SumIs
<1> QED
  BY <1>1

LEMMA SumWithout ==
  ASSUME NEW S, IsFiniteSet(S), NEW fun, \A x \in S : fun[x] \in Nat, NEW x \in S
  PROVE  SumFunctionOnSet(fun, S) = fun[x] + SumFunctionOnSet(fun, S \ {x})
<1>1. PICK g \in [SUBSET S -> Nat] : SumsAll(S, fun, g)
  BY SumOnSubsets
<1> QED
  BY <1>1 DEF SumsAll

LEMMA SumWith ==
  ASSUME NEW S, IsFiniteSet(S), NEW fun, NEW x, x \notin S,
         \A y \in S \cup {x} : fun[y] \in Nat
  PROVE  SumFunctionOnSet(fun, S \cup {x}) = SumFunctionOnSet(fun, S) + fun[x]
<1>1. IsFiniteSet(S \cup {x}) /\ (S \cup {x}) \ {x} = S /\ x \in S \cup {x}
  BY FS_AddElement
<1>2. SumFunctionOnSet(fun, S \cup {x}) = fun[x] + SumFunctionOnSet(fun, S)
  BY <1>1, SumWithout
<1>3. SumFunctionOnSet(fun, S) \in Nat /\ fun[x] \in Nat
  BY SumIsNat
<1> QED
  BY <1>2, <1>3

LEMMA SumSame ==
  ASSUME NEW S, IsFiniteSet(S), NEW fun, NEW other,
         \A x \in S : fun[x] \in Nat /\ fun[x] = other[x]
  PROVE  SumFunctionOnSet(fun, S) = SumFunctionOnSet(other, S)
<1>1. PICK g \in [SUBSET S -> Nat] : SumOf(S, fun, g) /\ SumFunctionOnSet(fun, S) = g[S]
  BY SumIs
<1>2. PICK h \in [SUBSET S -> Nat] : SumOf(S, other, h) /\ SumFunctionOnSet(other, S) = h[S]
  <2>1. \A x \in S : other[x] \in Nat
    OBVIOUS
  <2> QED
    BY <2>1, SumIs
<1>3. \A s \in SUBSET S : g[s] = h[s]
  BY <1>1, <1>2, SumUnique
<1> QED
  BY <1>1, <1>2, <1>3

LEMMA SumSplit ==
  ASSUME NEW S, IsFiniteSet(S), NEW fun, \A x \in S : fun[x] \in Nat, NEW part \in SUBSET S
  PROVE  SumFunctionOnSet(fun, S) = SumFunctionOnSet(fun, part) + SumFunctionOnSet(fun, S \ part)
<1>1. PICK g \in [SUBSET S -> Nat] : SumsAll(S, fun, g)
  BY SumOnSubsets
<1> DEFINE T == {s \in SUBSET S : g[S] = g[s] + g[S \ s]}
<1>2. ASSUME NEW s \in SUBSET S, \A t \in SUBSET S : t \subseteq s /\ t # s => t \in T
      PROVE  s \in T
  <2>1. CASE s = {}
    <3>1. S \ s = S
      BY <2>1
    <3>2. g[S] \in Nat /\ g[S \ s] = g[S] /\ g[s] = 0
      BY <1>1, <2>1, <3>1 DEF SumsAll
    <3>3. g[S] = g[s] + g[S \ s]
      BY ONLY <3>2
    <3> QED
      BY <3>3
  <2>2. CASE s # {}
    <3>1. PICK x \in s : TRUE
      BY <2>2
    <3> DEFINE less == s \ {x}
               more == S \ less
    <3>2. less \in SUBSET S /\ less \subseteq s /\ less # s
      BY <3>1
    <3>3. more \in SUBSET S /\ x \in more /\ more \ {x} = S \ s
      BY <3>1
    <3>4. g[S] = g[less] + g[more]
      BY <3>2, <1>2
    <3>5. g[s] = fun[x] + g[less] /\ g[more] = fun[x] + g[S \ s]
      BY <3>1, <3>3, <1>1 DEF SumsAll
    <3>6. fun[x] \in Nat /\ g[less] \in Nat /\ g[S \ s] \in Nat
      BY <3>1, <3>2, <1>1
    <3> HIDE DEF less, more
    <3>7. g[S] = g[s] + g[S \ s]
      BY <3>4, <3>5, <3>6
    <3> QED
      BY <3>7
  <2> QED
    BY <2>1, <2>2
<1> HIDE DEF T
<1>3. \A s \in SUBSET S : s \in T
  BY <1>2, SubsetsBySet
<1>4. part \in SUBSET S /\ S \ part \in SUBSET S /\ S \in SUBSET S
  OBVIOUS
<1>5. g[S] = g[part] + g[S \ part]
  BY <1>3, <1>4 DEF T
<1> QED
  BY <1>1, <1>4, <1>5 DEF SumsAll

-----------------------------------------------------------------------------
(* Folds over sequences take the last index first.                          *)

LastIn(n) == [s \in SUBSET (1..n) |-> Max(s)]

LEMMA MaxIsIn ==
  ASSUME NEW n \in Nat, NEW s \in SUBSET (1..n), s # {}
  PROVE  Max(s) \in s /\ \A x \in s : Max(s) >= x
<1> DEFINE less == {n - x : x \in s}
<1>1. less \in SUBSET Nat /\ less # {}
  <2>1. \A x \in s : n - x \in Nat
    OBVIOUS
  <2>2. \A y \in less : y \in Nat
    BY <2>1
  <2>3. PICK x \in s : TRUE
    OBVIOUS
  <2>4. n - x \in less
    BY <2>3
  <2> QED
    BY <2>2, <2>4
<1>2. PICK m \in less : \A k \in less : m <= k
  BY <1>1, LeastNumber
<1>3. PICK y \in s : m = n - y
  BY <1>2
<1>4. ASSUME NEW x \in s PROVE y >= x
  <2>1. n - y <= n - x /\ x \in 1..n /\ y \in 1..n
    BY <1>2, <1>3
  <2> QED
    BY <2>1
<1> QED
  BY <1>3, <1>4 DEF Max

LEMMA MaxOfSegment ==
  ASSUME NEW n \in Nat, NEW k \in 1..n
  PROVE  /\ 1..k \in SUBSET (1..n) /\ 1..k # {} /\ Max(1..k) = k
         /\ (1..k) \ {k} = 1 .. (k - 1) /\ k - 1 \in 0..n
<1>1. 1..k \in SUBSET (1..n) /\ 1..k # {} /\ k \in 1..k /\ (1..k) \ {k} = 1 .. (k - 1) /\ k - 1 \in 0..n
  OBVIOUS
<1>2. Max(1..k) \in 1..k /\ Max(1..k) >= k
  BY <1>1, MaxIsIn
<1> QED
  BY <1>1, <1>2

\* The function a fold over the indices of a sequence is defined with exists.
LEMMA SequenceFoldExists ==
  ASSUME NEW n \in Nat, NEW V, NEW base \in V, NEW step, \A i \in 1..n, v \in V : step[i][v] \in V
  PROVE  \E g \in [SUBSET (1..n) -> V] : FoldOf(1..n, base, LastIn(n), step, g)
<1>1. \A s \in SUBSET (1..n) : s # {} => LastIn(n)[s] \in s
  BY MaxIsIn DEF LastIn
<1>2. IsFiniteSet(1..n)
  BY FS_Interval
<1> QED
  BY <1>1, <1>2, FoldExists

\* The indices of a sequence are as many as it is long.
LEMMA UpToFinite ==
  ASSUME NEW n \in Nat
  PROVE  IsFiniteSet(1..n) /\ Cardinality(1..n) = n
<1>1. 1 \in Int /\ n \in Int
  OBVIOUS
<1>2. IsFiniteSet(1..n) /\ Cardinality(1..n) = IF 1 > n THEN 0 ELSE n - 1 + 1
  BY <1>1, FS_Interval
<1> QED
  BY <1>2

\* What holds of the base, and of an index after the one before it, holds of all.
LEMMA UpTo ==
  ASSUME NEW n \in Nat, NEW T, 0 \in T, \A k \in 1..n : k - 1 \in T => k \in T
  PROVE  \A k \in 0..n : k \in T
<1> DEFINE Q == {k \in Nat : k <= n => k \in T}
<1>1. 0 \in Q
  OBVIOUS
<1>2. ASSUME NEW k \in Nat, k \in Q PROVE k + 1 \in Q
  <2>1. CASE k + 1 <= n
    <3>1. k + 1 \in 1..n /\ (k + 1) - 1 = k /\ k \in T
      BY <1>2, <2>1
    <3> QED
      BY <3>1
  <2> QED
    BY <2>1
<1> HIDE DEF Q
<1>3. \A k \in Nat : k \in Q
  BY <1>1, <1>2, NumbersBySet
<1> QED
  BY <1>3 DEF Q

\* A fold over the indices 1..n whose function is given by its recursion only.
FoldsBy(n, V, base, step, h) ==
  /\ n \in Nat /\ base \in V /\ \A i \in 1..n, v \in V : step[i][v] \in V
  /\ h[{}] = base
  /\ \A s \in SUBSET (1..n) : s # {} /\ h[s \ {Max(s)}] \in V =>
       h[s] = step[Max(s)][h[s \ {Max(s)}]]

\* Its values on the prefixes are those of the steps, one after the other.
LEMMA FoldSteps ==
  ASSUME NEW n, NEW V, NEW base, NEW step, NEW h, FoldsBy(n, V, base, step, h)
  PROVE  \E run \in [0..n -> V] :
           /\ run[0] = base /\ run[n] = h[1..n]
           /\ \A k \in 1..n : run[k] = step[k][run[k - 1]]
<1>0. /\ n \in Nat /\ base \in V /\ \A i \in 1..n, v \in V : step[i][v] \in V
      /\ h[{}] = base
      /\ \A s \in SUBSET (1..n) : s # {} /\ h[s \ {Max(s)}] \in V =>
           h[s] = step[Max(s)][h[s \ {Max(s)}]]
  BY DEF FoldsBy
<1>1. h[1..0] = base
  <2>1. 1..0 = {}
    OBVIOUS
  <2> QED
    BY <1>0, <2>1
<1>2. ASSUME NEW k \in 1..n, h[1 .. (k - 1)] \in V
      PROVE  h[1..k] = step[k][h[1 .. (k - 1)]]
  <2>1. /\ 1..k \in SUBSET (1..n) /\ 1..k # {} /\ Max(1..k) = k
        /\ (1..k) \ {k} = 1 .. (k - 1)
    BY <1>0, MaxOfSegment
  <2> QED
    BY <1>0, <1>2, <2>1
<1> DEFINE T == {k \in 0..n : h[1..k] \in V}
<1>3. \A k \in 0..n : k \in T
  <2>1. 0 \in T
    BY <1>0, <1>1
  <2>2. ASSUME NEW k \in 1..n, k - 1 \in T PROVE k \in T
    BY <1>0, <1>2, <2>2
  <2> HIDE DEF T
  <2> QED
    BY <1>0, <2>1, <2>2, UpTo
<1> DEFINE run == [k \in 0..n |-> h[1..k]]
<1>4. run \in [0..n -> V]
  BY <1>3
<1>5. run[0] = base /\ run[n] = h[1..n]
  BY <1>0, <1>1
<1>6. ASSUME NEW k \in 1..n PROVE run[k] = step[k][run[k - 1]]
  <2>1. k \in 0..n /\ k - 1 \in 0..n /\ k - 1 \in T
    BY <1>0, <1>3
  <2> QED
    BY <1>2, <2>1
<1> HIDE DEF run
<1> QED
  BY <1>4, <1>5, <1>6

\* A sum over the first numbers grows by the next one.
LEMMA SumToNext ==
  ASSUME NEW n \in Nat, NEW fun, \A i \in 1 .. (n + 1) : fun[i] \in Nat
  PROVE  SumFunctionOnSet(fun, 1 .. (n + 1)) = SumFunctionOnSet(fun, 1..n) + fun[n + 1]
<1> DEFINE next == n + 1
           before == 1..n
<1>1. 1 .. (n + 1) = before \cup {next} /\ next \notin before
  OBVIOUS
<1>2. IsFiniteSet(before) /\ \A i \in before \cup {next} : fun[i] \in Nat
  BY FS_Interval
<1> HIDE DEF next, before
<1>3. SumFunctionOnSet(fun, before \cup {next}) = SumFunctionOnSet(fun, before) + fun[next]
  BY <1>1, <1>2, SumWith
<1> QED
  BY <1>1, <1>3 DEF next, before

\* A sum of nothing but zeros is zero.
LEMMA SumOfZeros ==
  ASSUME NEW S, IsFiniteSet(S), NEW fun, \A x \in S : fun[x] = 0
  PROVE  SumFunctionOnSet(fun, S) = 0
<1> DEFINE T == {s \in SUBSET S : SumFunctionOnSet(fun, s) = 0}
<1>1. ASSUME NEW s \in SUBSET S, \A t \in SUBSET S : t \subseteq s /\ t # s => t \in T
      PROVE  s \in T
  <2>1. CASE s = {}
    BY <2>1, SumOfNothing
  <2>2. CASE s # {}
    <3>1. PICK x \in s : TRUE
      BY <2>2
    <3>2. s \ {x} \in SUBSET S /\ s \ {x} \subseteq s /\ s \ {x} # s
      BY <3>1
    <3>3. SumFunctionOnSet(fun, s \ {x}) = 0
      BY <1>1, <3>2
    <3>4. IsFiniteSet(s)
      BY FS_Subset
    <3>5. \A y \in s : fun[y] \in Nat
      OBVIOUS
    <3>6. SumFunctionOnSet(fun, s) = fun[x] + SumFunctionOnSet(fun, s \ {x})
      BY <3>1, <3>4, <3>5, SumWithout
    <3> QED
      BY <3>1, <3>3, <3>6
  <2> QED
    BY <2>1, <2>2
<1>2. \A s \in SUBSET S : s \in T
  <2> HIDE DEF T
  <2> QED
    BY <1>1, SubsetsBySet
<1> QED
  BY <1>2

\* A sum is positive when one of its terms is.
LEMMA SumPositive ==
  ASSUME NEW S, IsFiniteSet(S), NEW fun, \A x \in S : fun[x] \in Nat
  PROVE  SumFunctionOnSet(fun, S) > 0 <=> \E x \in S : fun[x] > 0
<1>1. ASSUME \A x \in S : ~(fun[x] > 0) PROVE SumFunctionOnSet(fun, S) = 0
  <2>1. \A x \in S : fun[x] = 0
    BY <1>1
  <2> QED
    BY <2>1, SumOfZeros
<1>2. ASSUME NEW x \in S, fun[x] > 0 PROVE SumFunctionOnSet(fun, S) > 0
  <2>1. SumFunctionOnSet(fun, S) = fun[x] + SumFunctionOnSet(fun, S \ {x})
    BY SumWithout
  <2>2. IsFiniteSet(S \ {x})
    BY FS_Subset
  <2>3. SumFunctionOnSet(fun, S \ {x}) \in Nat
    BY <2>2, SumIsNat
  <2> QED
    BY <1>2, <2>1, <2>3
<1> QED
  BY <1>1, <1>2
=============================================================================
