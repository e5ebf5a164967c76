----------------------------- MODULE SumTheorems ------------------------------
(***************************************************************************)
(* Sums over finite sets, and induction on sets and numbers.  The wallets  *)
(* and ledgers of the bridge keep totals of money and of value; these      *)
(* lemmas say how a total follows its parts.                               *)
(*                                                                         *)
(* The sum is SumFunctionOnSet of the community modules: one element of    *)
(* the set is chosen, and what is left is summed the same way.  That the   *)
(* recursion is well defined, and that the order does not matter, is shown *)
(* by taking a smallest set for which it is not so.                        *)
(***************************************************************************)
EXTENDS Functions, FiniteSetTheorems, TLAPS

\* What holds of a set whenever it holds of its proper subsets holds of all.
LEMMA SubsetInduction ==
  ASSUME NEW S, IsFiniteSet(S), NEW Good,
         \A T \in SUBSET S : (\A U \in SUBSET T : U # T => U \in Good) => T \in Good
  PROVE  \A T \in SUBSET S : T \in Good
  <1> DEFINE Bad == {T \in SUBSET S : T \notin Good}
  <1> SUFFICES ASSUME Bad # {} PROVE FALSE
    OBVIOUS
  <1>1. IsWellFoundedOn(StrictSubsetOrdering(S), SUBSET S)
    <2>1. FiniteSubsetsOf(S) = SUBSET S
      BY FS_FiniteSubsetsOfFinite
    <2>2. IsWellFoundedOn(StrictSubsetOrdering(S), FiniteSubsetsOf(S))
      BY FS_StrictSubsetOrderingWellFounded
    <2> QED
      BY <2>1, <2>2
  <1>2. Bad \subseteq SUBSET S
    OBVIOUS
  <1> HIDE DEF Bad
  <1>3. PICK T \in Bad : \A U \in Bad : <<U, T>> \notin StrictSubsetOrdering(S)
    BY <1>1, <1>2, WFMin
  <1>4. ASSUME NEW U \in SUBSET T, U # T PROVE U \in Good
    <2>1. <<U, T>> \in StrictSubsetOrdering(S)
      BY <1>2, <1>3, <1>4 DEF StrictSubsetOrdering
    <2> QED
      BY <1>2, <1>3, <2>1 DEF Bad
  <1> QED
    BY <1>2, <1>3, <1>4 DEF Bad

\* A set that holds 0 and what follows each of its members holds every number.
LEMMA EveryNumber ==
  ASSUME NEW Good, 0 \in Good, \A n \in Nat : n \in Good => n + 1 \in Good
  PROVE  \A n \in Nat : n \in Good
  <1> SUFFICES ASSUME NEW n \in Nat PROVE n \in Good
    OBVIOUS
  <1> DEFINE Numbers == 0..n
             Upto == {T \in SUBSET Numbers : \A m \in Nat : T = 0..m => m \in Good}
  <1>1. IsFiniteSet(Numbers)
    BY FS_Interval
  <1>2. ASSUME NEW T \in SUBSET Numbers, \A U \in SUBSET T : U # T => U \in Upto
        PROVE  T \in Upto
    <2> SUFFICES ASSUME NEW m \in Nat, T = 0..m PROVE m \in Good
      OBVIOUS
    <2>1. CASE m = 0
      BY <2>1
    <2>2. CASE m # 0
      <3>1. PICK k \in Nat : m = k + 1
        <4>1. m - 1 \in Nat /\ m = (m - 1) + 1
          BY <2>2
        <4> QED
          BY <4>1
      <3>2. 0..k \in SUBSET T /\ m \in T /\ m \notin 0..k
        BY <3>1
      <3>3. 0..k \in Upto
        BY <1>2, <3>2
      <3> QED
        BY <3>1, <3>3
    <2> QED
      BY <2>1, <2>2
  <1>3. \A T \in SUBSET Numbers : T \in Upto
    <2> HIDE DEF Upto, Numbers
    <2> QED
      BY <1>1, <1>2, SubsetInduction
  <1> QED
    BY <1>3

-----------------------------------------------------------------------------
(* The recursion. *)

Picked(T) == CHOOSE x \in T : TRUE

IsFold(g, f, S) ==
  g = [T \in SUBSET S |-> IF T = {} THEN 0 ELSE f[Picked(T)] + g[T \ {Picked(T)}]]

FoldOf(f, S) == CHOOSE g : IsFold(g, f, S)

\* What is picked is a member.
LEMMA PickedIn == ASSUME NEW T, T # {} PROVE Picked(T) \in T
  BY DEF Picked

\* The sum is its fold's value at the whole set.
LEMMA SumIsFold ==
  ASSUME NEW f, NEW S
  PROVE  SumFunctionOnSet(f, S) = FoldOf(f, S)[S]
  BY DEF SumFunctionOnSet, FoldFunctionOnSet, MapThenFoldSet, IsFold, Picked, FoldOf

\* What a fold gives for one set.
StepsAt(g, f, T) ==
  g[T] = IF T = {} THEN 0 ELSE f[Picked(T)] + g[T \ {Picked(T)}]

\* A fold's values.
LEMMA FoldStep ==
  ASSUME NEW f, NEW S, NEW g, IsFold(g, f, S)
  PROVE  \A T : T \subseteq S => StepsAt(g, f, T)
  <1> DEFINE h == [U \in SUBSET S |->
                     IF U = {} THEN 0 ELSE f[Picked(U)] + g[U \ {Picked(U)}]]
  <1> SUFFICES ASSUME NEW T, T \subseteq S PROVE StepsAt(g, f, T)
    OBVIOUS
  <1>1. g = h
    BY DEF IsFold
  <1>2. h[T] = IF T = {} THEN 0 ELSE f[Picked(T)] + g[T \ {Picked(T)}]
    OBVIOUS
  <1> QED
    BY <1>1, <1>2 DEF StepsAt

\* Two folds agree where both are defined.
LEMMA FoldsAgree ==
  ASSUME NEW f, NEW S, IsFiniteSet(S), NEW R \in SUBSET S,
         NEW g, IsFold(g, f, S), NEW h, IsFold(h, f, R)
  PROVE  \A T \in SUBSET R : g[T] = h[T]
  <1> DEFINE Good == {T \in SUBSET R : g[T] = h[T]}
  <1>1. IsFiniteSet(R)
    BY FS_Subset
  <1>2. ASSUME NEW T \in SUBSET R, \A U \in SUBSET T : U # T => U \in Good
        PROVE  T \in Good
    <2>1. StepsAt(g, f, T) /\ StepsAt(h, f, T)
      <3>1. T \subseteq S /\ T \subseteq R
        OBVIOUS
      <3> HIDE DEF Good
      <3> QED
        BY <3>1, FoldStep
    <2>2. T # {} => T \ {Picked(T)} \in Good
      BY <1>2, PickedIn
    <2> QED
      BY <2>1, <2>2 DEF StepsAt
  <1>3. \A T \in SUBSET R : T \in Good
    <2> HIDE DEF Good
    <2> QED
      BY <1>1, <1>2, SubsetInduction
  <1> QED
    BY <1>3

\* Every finite set and every part of it has a fold.
LEMMA FoldExists ==
  ASSUME NEW f, NEW S, IsFiniteSet(S)
  PROVE  \A T \in SUBSET S : IsFold(FoldOf(f, T), f, T)
  <1> DEFINE Good == {T \in SUBSET S : IsFold(FoldOf(f, T), f, T)}
  <1>1. ASSUME NEW T \in SUBSET S, \A U \in SUBSET T : U # T => U \in Good
        PROVE  T \in Good
    <2> DEFINE Rest(U) == U \ {Picked(U)}
               g == [U \in SUBSET T |->
                       IF U = {} THEN 0
                       ELSE f[Picked(U)] + FoldOf(f, Rest(U))[Rest(U)]]
    <2>1. ASSUME NEW V \in SUBSET T, V # T PROVE g[V] = FoldOf(f, V)[V]
      <3>1. IsFold(FoldOf(f, V), f, V)
        BY <1>1, <2>1
      <3>2. StepsAt(FoldOf(f, V), f, V)
        BY <3>1, FoldStep
      <3>3. ASSUME V # {} PROVE FoldOf(f, V)[Rest(V)] = FoldOf(f, Rest(V))[Rest(V)]
        <4>1. Rest(V) \in SUBSET V /\ Rest(V) # T
          BY <3>3, PickedIn
        <4>2. IsFold(FoldOf(f, Rest(V)), f, Rest(V))
          BY <1>1, <4>1
        <4>3. IsFiniteSet(V)
          BY FS_Subset
        <4> QED
          BY SMTT(30), <3>1, <4>1, <4>2, <4>3, FoldsAgree
      <3> QED
        BY <3>2, <3>3 DEF StepsAt
    <2>2. ASSUME NEW U \in SUBSET T, U # {}
          PROVE  g[Rest(U)] = FoldOf(f, Rest(U))[Rest(U)]
      <3>1. Rest(U) \in SUBSET T /\ Rest(U) # T
        BY <2>2, PickedIn
      <3> QED
        BY <2>1, <3>1
    <2>3. \A U \in SUBSET T :
            g[U] = IF U = {} THEN 0 ELSE f[Picked(U)] + g[Rest(U)]
      BY <2>2
    <2>4. g = [U \in SUBSET T |-> IF U = {} THEN 0 ELSE f[Picked(U)] + g[U \ {Picked(U)}]]
      BY <2>3
    <2>5. IsFold(g, f, T)
      BY <2>4 DEF IsFold
    <2> QED
      BY <2>5 DEF FoldOf
  <1>2. \A T \in SUBSET S : T \in Good
    <2> HIDE DEF Good
    <2> QED
      BY <1>1, SubsetInduction
  <1> QED
    BY <1>2

\* The recursive definition of the sum defines one.
LEMMA SumStep ==
  ASSUME NEW f, NEW S, IsFiniteSet(S)
  PROVE  SumFunctionOnSet(f, S)
           = IF S = {} THEN 0
             ELSE f[Picked(S)] + SumFunctionOnSet(f, S \ {Picked(S)})
  <1> DEFINE Rest == S \ {Picked(S)}
  <1>1. IsFold(FoldOf(f, S), f, S) /\ IsFold(FoldOf(f, Rest), f, Rest)
    BY FoldExists
  <1>2. StepsAt(FoldOf(f, S), f, S)
    BY <1>1, FoldStep
  <1>3. FoldOf(f, S)[Rest] = FoldOf(f, Rest)[Rest]
    BY <1>1, FoldsAgree
  <1> QED
    BY <1>2, <1>3, SumIsFold DEF StepsAt

-----------------------------------------------------------------------------
(* Sums of whole numbers. *)

IsWhole(f, S) == \A x \in S : f[x] \in Int

\* The empty sum.
LEMMA SumOfNothing == ASSUME NEW f PROVE SumFunctionOnSet(f, {}) = 0
  BY SumStep, FS_EmptySet

\* Functions with the same values have the same sum.
LEMMA SumOfSame ==
  ASSUME NEW f, NEW g, NEW S, IsFiniteSet(S), \A x \in S : f[x] = g[x]
  PROVE  SumFunctionOnSet(f, S) = SumFunctionOnSet(g, S)
  <1> DEFINE Good == {T \in SUBSET S : SumFunctionOnSet(f, T) = SumFunctionOnSet(g, T)}
  <1>1. ASSUME NEW T \in SUBSET S, \A U \in SUBSET T : U # T => U \in Good
        PROVE  T \in Good
    <2>1. IsFiniteSet(T)
      BY FS_Subset
    <2>2. CASE T = {}
      BY <2>2, SumOfNothing
    <2>3. CASE T # {}
      <3>1. Picked(T) \in T
        BY <2>3, PickedIn
      <3>2. T \ {Picked(T)} \in Good
        BY <1>1, <3>1
      <3> QED
        BY <2>1, <2>3, <3>1, <3>2, SumStep
    <2> QED
      BY <2>2, <2>3
  <1>2. \A T \in SUBSET S : T \in Good
    <2> HIDE DEF Good
    <2> QED
      BY <1>1, SubsetInduction
  <1> QED
    BY <1>2

\* What is closed under addition holds the sum of its members.
LEMMA SumStaysIn ==
  ASSUME NEW V, 0 \in V, \A i, j \in V : i + j \in V,
         NEW f, NEW S, IsFiniteSet(S), \A x \in S : f[x] \in V
  PROVE  SumFunctionOnSet(f, S) \in V
  <1> DEFINE Good == {T \in SUBSET S : SumFunctionOnSet(f, T) \in V}
  <1>1. ASSUME NEW T \in SUBSET S, \A U \in SUBSET T : U # T => U \in Good
        PROVE  T \in Good
    <2>1. IsFiniteSet(T)
      BY FS_Subset
    <2>2. CASE T = {}
      BY <2>2, SumOfNothing
    <2>3. CASE T # {}
      <3>1. Picked(T) \in T
        BY <2>3, PickedIn
      <3>2. T \ {Picked(T)} \in Good
        BY <1>1, <3>1
      <3>3. f[Picked(T)] \in V
        BY <3>1
      <3> QED
        BY <2>1, <2>3, <3>2, <3>3, SumStep
    <2> QED
      BY <2>2, <2>3
  <1>2. \A T \in SUBSET S : T \in Good
    <2> HIDE DEF Good
    <2> QED
      BY <1>1, SubsetInduction
  <1> QED
    BY <1>2

\* Whole numbers have a whole sum, naturals a natural one, zeros none.
LEMMA SumIsWhole ==
  ASSUME NEW f, NEW S, IsFiniteSet(S), IsWhole(f, S)
  PROVE  SumFunctionOnSet(f, S) \in Int
  <1>1. 0 \in Int /\ \A i, j \in Int : i + j \in Int
    OBVIOUS
  <1> QED
    BY <1>1, SumStaysIn DEF IsWhole

LEMMA SumIsNat ==
  ASSUME NEW f, NEW S, IsFiniteSet(S), \A x \in S : f[x] \in Nat
  PROVE  SumFunctionOnSet(f, S) \in Nat
  <1>1. 0 \in Nat /\ \A i, j \in Nat : i + j \in Nat
    OBVIOUS
  <1> QED
    BY <1>1, SumStaysIn

LEMMA SumOfZeros ==
  ASSUME NEW f, NEW S, IsFiniteSet(S), \A x \in S : f[x] = 0
  PROVE  SumFunctionOnSet(f, S) = 0
  <1>1. 0 \in {0} /\ \A i, j \in {0} : i + j \in {0}
    OBVIOUS
  <1>2. SumFunctionOnSet(f, S) \in {0}
    BY <1>1, SumStaysIn
  <1> QED
    BY <1>2

\* Any member may be taken out first.
LEMMA SumTakeOut ==
  ASSUME NEW f, NEW S, IsFiniteSet(S), IsWhole(f, S), NEW x \in S
  PROVE  SumFunctionOnSet(f, S) = f[x] + SumFunctionOnSet(f, S \ {x})
  <1> DEFINE Good == {T \in SUBSET S : \A y \in T :
                        SumFunctionOnSet(f, T) = f[y] + SumFunctionOnSet(f, T \ {y})}
  <1>1. ASSUME NEW T \in SUBSET S, \A U \in SUBSET T : U # T => U \in Good
        PROVE  T \in Good
    <2> SUFFICES ASSUME NEW y \in T
                 PROVE  SumFunctionOnSet(f, T) = f[y] + SumFunctionOnSet(f, T \ {y})
      OBVIOUS
    <2> DEFINE p == Picked(T)
               Left == SumFunctionOnSet(f, (T \ {p}) \ {y})
    <2>1. IsFiniteSet(T) /\ IsFiniteSet(T \ {p}) /\ IsFiniteSet(T \ {y})
      BY FS_Subset
    <2>2. p \in T
      BY PickedIn
    <2>3. SumFunctionOnSet(f, T) = f[p] + SumFunctionOnSet(f, T \ {p})
      BY <2>1, SumStep
    <2>4. CASE p = y
      BY <2>3, <2>4
    <2>5. CASE p # y
      <3>1. y \in T \ {p} /\ p \in T \ {y} /\ (T \ {y}) \ {p} = (T \ {p}) \ {y}
        BY <2>2, <2>5
      <3>2. T \ {p} \in Good /\ T \ {y} \in Good
        BY <1>1, <2>2
      <3>3. SumFunctionOnSet(f, T \ {p}) = f[y] + Left
        BY <3>1, <3>2
      <3>4. SumFunctionOnSet(f, T \ {y}) = f[p] + Left
        BY <3>1, <3>2
      <3>5. f[p] \in Int /\ f[y] \in Int
        BY <2>2 DEF IsWhole
      <3>6. Left \in Int
        <4>1. IsFiniteSet((T \ {p}) \ {y})
          BY <2>1, FS_Subset
        <4>2. IsWhole(f, (T \ {p}) \ {y})
          BY DEF IsWhole
        <4> HIDE DEF Good, p
        <4> QED
          BY <4>1, <4>2, SumIsWhole
      <3> QED
        BY <2>3, <3>3, <3>4, <3>5, <3>6
    <2> QED
      BY <2>4, <2>5
  <1>2. \A T \in SUBSET S : T \in Good
    <2> HIDE DEF Good
    <2> QED
      BY <1>1, SubsetInduction
  <1> QED
    BY <1>2

\* A new member adds its value.
LEMMA SumPutIn ==
  ASSUME NEW f, NEW S, IsFiniteSet(S), NEW x, x \notin S, IsWhole(f, S \cup {x})
  PROVE  SumFunctionOnSet(f, S \cup {x}) = f[x] + SumFunctionOnSet(f, S)
  <1>1. IsFiniteSet(S \cup {x})
    BY FS_AddElement
  <1>2. (S \cup {x}) \ {x} = S
    OBVIOUS
  <1>3. x \in S \cup {x}
    OBVIOUS
  <1>4. SumFunctionOnSet(f, S \cup {x}) = f[x] + SumFunctionOnSet(f, (S \cup {x}) \ {x})
    BY <1>1, <1>3, SumTakeOut
  <1> QED
    BY <1>2, <1>4

\* When one value changes, the sum changes by as much.
LEMMA SumOfChanged ==
  ASSUME NEW f, NEW g, NEW S, IsFiniteSet(S), IsWhole(f, S), IsWhole(g, S),
         NEW x \in S, \A y \in S \ {x} : f[y] = g[y]
  PROVE  SumFunctionOnSet(g, S) = SumFunctionOnSet(f, S) + (g[x] - f[x])
  <1> DEFINE Left(h) == SumFunctionOnSet(h, S \ {x})
  <1>1. IsFiniteSet(S \ {x})
    BY FS_Subset
  <1>2. Left(f) = Left(g)
    BY <1>1, SumOfSame
  <1>3. SumFunctionOnSet(f, S) = f[x] + Left(f)
    BY SumTakeOut
  <1>4. SumFunctionOnSet(g, S) = g[x] + Left(g)
    BY SumTakeOut
  <1>5. Left(f) \in Int
    <2>1. IsWhole(f, S \ {x})
      BY DEF IsWhole
    <2> QED
      BY <1>1, <2>1, SumIsWhole
  <1>6. f[x] \in Int /\ g[x] \in Int
    BY DEF IsWhole
  <1> QED
    BY <1>2, <1>3, <1>4, <1>5, <1>6

\* When two values change, the sum changes by both.
LEMMA SumOfTwoChanged ==
  ASSUME NEW f, NEW g, NEW S, IsFiniteSet(S), IsWhole(f, S), IsWhole(g, S),
         NEW x \in S, NEW y \in S, x # y, \A z \in S \ {x, y} : f[z] = g[z]
  PROVE  SumFunctionOnSet(g, S)
           = SumFunctionOnSet(f, S) + (g[x] - f[x]) + (g[y] - f[y])
  <1> DEFINE h == [z \in S |-> IF z = x THEN g[x] ELSE f[z]]
  <1>1. IsWhole(h, S)
    BY DEF IsWhole
  <1>2. SumFunctionOnSet(h, S) = SumFunctionOnSet(f, S) + (h[x] - f[x])
    <2>1. \A z \in S \ {x} : f[z] = h[z]
      OBVIOUS
    <2> HIDE DEF h
    <2> QED
      BY <1>1, <2>1, SumOfChanged
  <1>3. SumFunctionOnSet(g, S) = SumFunctionOnSet(h, S) + (g[y] - h[y])
    <2>1. \A z \in S \ {y} : h[z] = g[z]
      OBVIOUS
    <2> HIDE DEF h
    <2> QED
      BY <1>1, <2>1, SumOfChanged
  <1>4. h[x] = g[x] /\ h[y] = f[y]
    OBVIOUS
  <1>5. SumFunctionOnSet(f, S) \in Int /\ f[x] \in Int /\ g[x] \in Int
                                       /\ f[y] \in Int /\ g[y] \in Int
    BY SumIsWhole DEF IsWhole
  <1> HIDE DEF h
  <1> QED
    BY <1>2, <1>3, <1>4, <1>5

\* No part of a sum of naturals is more than the sum.
LEMMA PartWithinSum ==
  ASSUME NEW f, NEW S, IsFiniteSet(S), \A y \in S : f[y] \in Nat, NEW x \in S
  PROVE  f[x] <= SumFunctionOnSet(f, S)
  <1>1. IsWhole(f, S)
    BY DEF IsWhole
  <1>2. SumFunctionOnSet(f, S) = f[x] + SumFunctionOnSet(f, S \ {x})
    BY <1>1, SumTakeOut
  <1>3. SumFunctionOnSet(f, S \ {x}) \in Nat
    <2>1. IsFiniteSet(S \ {x})
      BY FS_Subset
    <2> QED
      BY <2>1, SumIsNat
  <1> QED
    BY <1>2, <1>3
=============================================================================
