----------------------------- MODULE FoldTheorems -----------------------------
(***************************************************************************)
(* What folds over finite sets do: a fold exists, does not depend on the   *)
(* order in which the elements are picked when its operation commutes, and *)
(* grows by one operation with each element.  The sums and products of the *)
(* community modules are such folds.  And what a total order gives: least  *)
(* and greatest elements, and a place to each element.                     *)
(*                                                                         *)
(* A fold is stated here over functions, [x |-> g[x]] and op[<<x, y>>]: a  *)
(* theorem may take these as parameters, and its user names the functions  *)
(* that the operators of a specification are.                              *)
(***************************************************************************)
EXTENDS FiniteSetsExt, Functions, FiniteSetTheorems, TLAPS

Picked(s) == CHOOSE x \in s : TRUE

IsFold(f, op, base, g, S) ==
  f = [s \in SUBSET S |-> IF s = {} THEN base ELSE op[<<g[Picked(s)], f[s \ {Picked(s)}]>>]]

\* The same with the elements picked by a function
IsPickedFold(f, pick, op, base, g, S) ==
  f = [s \in SUBSET S |-> IF s = {} THEN base ELSE op[<<g[pick[s]], f[s \ {pick[s]}]>>]]

Folded(op, base, g, S) == (CHOOSE f : IsFold(f, op, base, g, S))[S]

\* An operation on integers that may be folded in any order
Commutes(op) ==
  /\ op \in [Int \X Int -> Int]
  /\ \A a, b, c \in Int : op[<<a, op[<<b, c>>]>>] = op[<<b, op[<<a, c>>]>>]

LEMMA PickedIsIn == \A s : s # {} => Picked(s) \in s
BY Zenon DEF Picked

LEMMA UpwardInduction ==
  ASSUME NEW H, 0 \in H, \A n \in Nat : n \in H => n + 1 \in H
  PROVE  Nat \subseteq H
<1> DEFINE T == Nat \ H
           R == OpToRel(<, Nat)
<1> SUFFICES ASSUME T # {} PROVE FALSE
  OBVIOUS
<1>1. IsWellFoundedOn(R, Nat)
  BY NatLessThanWellFounded
<1>2. PICK n \in T : \A m \in T : <<m, n>> \notin R
  <2>1. T \subseteq Nat
    OBVIOUS
  <2> HIDE DEF T, R
  <2> QED
    BY <1>1, <2>1, WFMin
<1>3. n \in Nat /\ n # 0 /\ n - 1 \in Nat
  OBVIOUS
<1>4. <<n - 1, n>> \in R
  BY <1>3 DEF OpToRel
<1>5. n - 1 \in H
  BY <1>2, <1>3, <1>4
<1> QED
  BY <1>3, <1>5

\* What holds of a set if it holds of the set without its elements holds of every subset.
LEMMA SubsetInduction ==
  ASSUME NEW S, IsFiniteSet(S), NEW H,
         \A T \in SUBSET S : (\A x \in T : T \ {x} \in H) => T \in H
  PROVE  SUBSET S \subseteq H
<1> DEFINE C == (SUBSET S) \ H
           R == StrictSubsetOrdering(S)
<1> SUFFICES ASSUME C # {} PROVE FALSE
  OBVIOUS
<1>1. IsWellFoundedOn(R, SUBSET S)
  <2>1. FiniteSubsetsOf(S) = SUBSET S
    BY FS_FiniteSubsetsOfFinite
  <2>2. IsWellFoundedOn(R, FiniteSubsetsOf(S))
    BY FS_StrictSubsetOrderingWellFounded
  <2> QED
    BY <2>1, <2>2, Zenon
<1>2. PICK T \in C : \A U \in C : <<U, T>> \notin R
  <2>1. C \subseteq SUBSET S
    OBVIOUS
  <2> HIDE DEF C, R
  <2> QED
    BY <1>1, <2>1, WFMin
<1>3. ASSUME NEW x \in T PROVE T \ {x} \in H
  <2>1. <<T \ {x}, T>> \in R
    BY <1>3 DEF StrictSubsetOrdering
  <2> QED
    BY <1>2, <2>1
<1> QED
  BY <1>3

\* A fold exists, in whatever order the elements are picked.
LEMMA PickedFoldExists ==
  ASSUME NEW S, IsFiniteSet(S), NEW op, NEW base, NEW g, NEW pick,
         \A s \in SUBSET S : s # {} => pick[s] \in s
  PROVE  \E f : IsPickedFold(f, pick, op, base, g, S)
<1> DEFINE Small(n) == {s \in SUBSET S : Cardinality(s) <= n}
           Value(h, s) == IF s = {} THEN base ELSE op[<<g[pick[s]], h[s \ {pick[s]}]>>]
           H == {n \in Nat : \E f : f = [s \in Small(n) |-> Value(f, s)]}
<1>1. \A s \in SUBSET S : IsFiniteSet(s) /\ Cardinality(s) \in Nat /\ Cardinality(s) <= Cardinality(S)
  BY FS_Subset, FS_CardinalityType
<1>2. \A s \in SUBSET S : s # {} => Cardinality(s) # 0 /\ Cardinality(s \ {pick[s]}) = Cardinality(s) - 1
  BY <1>1, FS_RemoveElement, FS_EmptySet
<1>3. 0 \in H
  <2> DEFINE f == [s \in Small(0) |-> base]
  <2>1. ASSUME NEW s \in Small(0)
        PROVE  s = {}
    <3>1. s \in SUBSET S /\ Cardinality(s) <= 0
      OBVIOUS
    <3>2. Cardinality(s) = 0
      BY <1>1, <3>1
    <3> QED
      BY <1>2, <3>1, <3>2
  <2>2. f = [s \in Small(0) |-> Value(f, s)]
    <3> HIDE DEF Small
    <3> QED
      BY <2>1
  <2> QED
    BY <2>2
<1>4. ASSUME NEW n \in Nat, n \in H
      PROVE  n + 1 \in H
  <2>1. PICK f : f = [s \in Small(n) |-> Value(f, s)]
    BY <1>4
  <2> DEFINE h == [s \in Small(n + 1) |-> Value(f, s)]
  <2>2. Small(n) \subseteq Small(n + 1)
    BY <1>1
  <2>3. \A s \in Small(n + 1) : s # {} => s \ {pick[s]} \in Small(n)
    BY <1>1, <1>2
  <2> HIDE DEF Small
  <2>4. \A s \in Small(n) : h[s] = f[s]
    BY <2>1, <2>2
  <2>5. \A s \in Small(n + 1) : Value(f, s) = Value(h, s)
    BY <2>3, <2>4
  <2>6. h = [s \in Small(n + 1) |-> Value(h, s)]
    <3> HIDE DEF Value
    <3>1. h = [s \in Small(n + 1) |-> Value(f, s)]
      OBVIOUS
    <3> HIDE DEF h
    <3> QED
      BY <2>5, <3>1
  <2> HIDE DEF Value, h
  <2> QED
    BY <2>6, n + 1 \in Nat
<1>5. Cardinality(S) \in H
  <2>1. Cardinality(S) \in Nat
    BY <1>1
  <2> HIDE DEF H
  <2> QED
    BY <1>3, <1>4, <2>1, UpwardInduction
<1>6. Small(Cardinality(S)) = SUBSET S
  BY <1>1
<1>7. PICK f : f = [s \in SUBSET S |-> Value(f, s)]
  BY <1>5, <1>6
<1> QED
  BY <1>7 DEF IsPickedFold

LEMMA FoldExists ==
  ASSUME NEW S, IsFiniteSet(S), NEW op, NEW base, NEW g
  PROVE  \E f : IsFold(f, op, base, g, S)
<1> DEFINE pick == [s \in SUBSET S |-> Picked(s)]
<1>1. \A s \in SUBSET S : s # {} => pick[s] \in s
  BY PickedIsIn
<1>2. \A s \in SUBSET S : pick[s] = Picked(s)
  OBVIOUS
<1> HIDE DEF pick
<1>3. PICK f : IsPickedFold(f, pick, op, base, g, S)
  BY <1>1, PickedFoldExists
<1>4. IsFold(f, op, base, g, S)
  BY <1>2, <1>3 DEF IsPickedFold, IsFold
<1> QED
  BY <1>4

\* Two folds agree on the sets on which the folded functions do.
LEMMA FoldsAgree ==
  ASSUME NEW S, IsFiniteSet(S), NEW R, NEW op, NEW base, NEW g, NEW h, NEW f, NEW e,
         IsFold(f, op, base, g, S), IsFold(e, op, base, h, R),
         S \subseteq R, \A x \in S : g[x] = h[x]
  PROVE  f[S] = e[S]
<1> DEFINE H == {T \in SUBSET S : f[T] = e[T]}
<1>1. ASSUME NEW T \in SUBSET S, \A x \in T : T \ {x} \in H
      PROVE  T \in H
  <2>1. /\ f[T] = IF T = {} THEN base ELSE op[<<g[Picked(T)], f[T \ {Picked(T)}]>>]
        /\ e[T] = IF T = {} THEN base ELSE op[<<h[Picked(T)], e[T \ {Picked(T)}]>>]
    BY Zenon DEF IsFold
  <2>2. CASE T = {}
    BY <2>1, <2>2
  <2>3. CASE T # {}
    <3>1. Picked(T) \in T
      BY <2>3, PickedIsIn
    <3>2. g[Picked(T)] = h[Picked(T)] /\ f[T \ {Picked(T)}] = e[T \ {Picked(T)}]
      BY <1>1, <3>1
    <3> QED
      BY <2>1, <2>3, <3>2
  <2> QED
    BY <2>2, <2>3
<1>2. SUBSET S \subseteq H
  <2> HIDE DEF H
  <2> QED
    BY <1>1, SubsetInduction
<1> QED
  BY <1>2

\* Whatever function was chosen as the fold, it is this one.
LEMMA FoldedIs ==
  ASSUME NEW S, IsFiniteSet(S), NEW op, NEW base, NEW g, NEW f, NEW R, S \subseteq R,
         IsFold(f, op, base, g, R)
  PROVE  f[S] = Folded(op, base, g, S)
<1>1. PICK e : IsFold(e, op, base, g, S)
  BY FoldExists
<1> DEFINE c == CHOOSE k : IsFold(k, op, base, g, S)
<1>3. IsFold(c, op, base, g, S)
  BY <1>1, Zenon
<1>4. c[S] = f[S]
  <2> HIDE DEF c
  <2> QED
    BY <1>3, FoldsAgree
<1> QED
  BY <1>4 DEF Folded

LEMMA FoldedEmpty == \A op, base, g : Folded(op, base, g, {}) = base
<1> TAKE op, base, g
<1>1. IsFiniteSet({})
  BY FS_EmptySet
<1>2. PICK f : IsFold(f, op, base, g, {})
  BY <1>1, FoldExists
<1>3. f[{}] = base
  BY <1>2, Zenon DEF IsFold
<1>4. f[{}] = Folded(op, base, g, {})
  BY <1>1, <1>2, FoldedIs
<1> QED
  BY <1>3, <1>4

LEMMA FoldedPicked ==
  ASSUME NEW S, IsFiniteSet(S), S # {}, NEW op, NEW base, NEW g
  PROVE  Folded(op, base, g, S) = op[<<g[Picked(S)], Folded(op, base, g, S \ {Picked(S)})>>]
<1> DEFINE R == S \ {Picked(S)}
<1>1. IsFiniteSet(R) /\ R \subseteq S
  BY FS_Subset
<1>2. PICK f : IsFold(f, op, base, g, S)
  BY FoldExists
<1>3. f[S] = op[<<g[Picked(S)], f[R]>>]
  BY <1>2, Zenon DEF IsFold
<1>4. f[S] = Folded(op, base, g, S)
  BY <1>2, FoldedIs
<1>5. f[R] = Folded(op, base, g, R)
  <2> HIDE DEF R
  <2> QED
    BY <1>1, <1>2, FoldedIs
<1> QED
  BY <1>3, <1>4, <1>5

LEMMA FoldedCongruent ==
  ASSUME NEW S, IsFiniteSet(S), NEW op, NEW base, NEW g, NEW h, \A x \in S : g[x] = h[x]
  PROVE  Folded(op, base, g, S) = Folded(op, base, h, S)
<1>1. PICK f : IsFold(f, op, base, g, S)
  BY FoldExists
<1>2. PICK e : IsFold(e, op, base, h, S)
  BY FoldExists
<1>3. f[S] = e[S]
  BY <1>1, <1>2, FoldsAgree
<1> QED
  BY <1>1, <1>2, <1>3, FoldedIs

\* A fold stays among the values the operation is closed on.
LEMMA FoldedType ==
  ASSUME NEW S, IsFiniteSet(S), NEW D, NEW op, NEW base \in D, NEW g,
         \A x \in S : g[x] \in D, \A a, b \in D : op[<<a, b>>] \in D
  PROVE  Folded(op, base, g, S) \in D
<1> DEFINE H == {T \in SUBSET S : Folded(op, base, g, T) \in D}
<1>1. ASSUME NEW T \in SUBSET S, \A x \in T : T \ {x} \in H
      PROVE  T \in H
  <2>1. CASE T = {}
    BY <2>1, FoldedEmpty
  <2>2. CASE T # {}
    <3>1. Picked(T) \in T /\ IsFiniteSet(T)
      BY <2>2, PickedIsIn, FS_Subset
    <3>2. Folded(op, base, g, T) = op[<<g[Picked(T)], Folded(op, base, g, T \ {Picked(T)})>>]
      BY <2>2, <3>1, FoldedPicked
    <3> QED
      BY <1>1, <3>1, <3>2
  <2> QED
    BY <2>1, <2>2
<1>2. SUBSET S \subseteq H
  <2> HIDE DEF H
  <2> QED
    BY <1>1, SubsetInduction
<1> QED
  BY <1>2

\* Any element may be taken first.
LEMMA FoldedAdd ==
  ASSUME NEW T, IsFiniteSet(T), NEW x, x \notin T, NEW op, Commutes(op), NEW base \in Int, NEW g,
         \A y \in T \cup {x} : g[y] \in Int
  PROVE  Folded(op, base, g, T \cup {x}) = op[<<g[x], Folded(op, base, g, T)>>]
<1> DEFINE S == T \cup {x}
           F(U) == Folded(op, base, g, U)
           H == {U \in SUBSET S : \A y \in S \ U : F(U \cup {y}) = op[<<g[y], F(U)>>]}
<1>1. IsFiniteSet(S) /\ \A U \in SUBSET S : IsFiniteSet(U)
  <2>1. IsFiniteSet(S)
    BY FS_AddElement
  <2> QED
    BY <2>1, FS_Subset
<1>2. \A U \in SUBSET S : F(U) \in Int
  <2> SUFFICES ASSUME NEW U \in SUBSET S PROVE F(U) \in Int
    OBVIOUS
  <2>1. IsFiniteSet(U) /\ (\A y \in U : g[y] \in Int) /\ \A a, b \in Int : op[<<a, b>>] \in Int
    BY <1>1 DEF Commutes
  <2> QED
    BY <2>1, FoldedType
<1>3. ASSUME NEW U \in SUBSET S, \A y \in U : U \ {y} \in H
      PROVE  U \in H
  <2> SUFFICES ASSUME NEW y \in S \ U PROVE F(U \cup {y}) = op[<<g[y], F(U)>>]
    OBVIOUS
  <2> DEFINE V == U \cup {y}
             p == Picked(V)
  <2>1. p \in V /\ F(V) = op[<<g[p], F(V \ {p})>>]
    <3>1. V # {} /\ V \in SUBSET S
      OBVIOUS
    <3> HIDE DEF V
    <3> QED
      BY <1>1, <3>1, PickedIsIn, FoldedPicked
  <2> HIDE DEF p, F
  <2>2. CASE p = y
    <3>1. V \ {p} = U
      BY <2>2
    <3> QED
      BY <2>1, <2>2, <3>1
  <2>3. CASE p # y
    <3>1. p \in U /\ V \ {p} = (U \ {p}) \cup {y} /\ U = (U \ {p}) \cup {p}
      BY <2>1, <2>3
    <3>2. U \ {p} \in H /\ y \in S \ (U \ {p}) /\ p \in S \ (U \ {p}) /\ U \ {p} \in SUBSET S
      BY <1>3, <3>1
    <3>3. F(V \ {p}) = op[<<g[y], F(U \ {p})>>]
      BY <3>1, <3>2
    <3>4. F(U) = op[<<g[p], F(U \ {p})>>]
      BY <3>1, <3>2
    <3>5. g[y] \in Int /\ g[p] \in Int /\ F(U \ {p}) \in Int
      BY <1>2, <3>2
    <3> QED
      BY <2>1, <3>3, <3>4, <3>5 DEF Commutes
  <2> QED
    BY <2>2, <2>3
<1>4. T \in H
  <2>1. SUBSET S \subseteq H
    <3> HIDE DEF H, S
    <3> QED
      BY <1>1, <1>3, SubsetInduction
  <2> QED
    BY <2>1
<1> QED
  BY <1>4

Plus == [p \in Int \X Int |-> p[1] + p[2]]
Times == [p \in Int \X Int |-> p[1] * p[2]]

Summed(g, S) == Folded(Plus, 0, g, S)
Multiplied(g, S) == Folded(Times, 1, g, S)

LEMMA PlusCommutes == Commutes(Plus) /\ \A a, b \in Int : Plus[<<a, b>>] = a + b
BY DEF Commutes, Plus

LEMMA TimesCommutes == Commutes(Times) /\ \A a, b \in Int : Times[<<a, b>>] = a * b
BY DEF Commutes, Times

LEMMA MultipliedInt ==
  ASSUME NEW S, IsFiniteSet(S), NEW g, \A x \in S : g[x] \in Int
  PROVE  Multiplied(g, S) \in Int
<1>1. 1 \in Int /\ \A a, b \in Int : Times[<<a, b>>] \in Int
  BY TimesCommutes DEF Commutes
<1> QED
  BY <1>1, FoldedType DEF Multiplied

\* A product without one factor, times the factor
LEMMA MultipliedWithout ==
  ASSUME NEW S, IsFiniteSet(S), NEW g, \A x \in S : g[x] \in Int, NEW x \in S
  PROVE  Multiplied(g, S) = Multiplied(g, S \ {x}) * g[x]
<1> DEFINE T == S \ {x}
<1>1. IsFiniteSet(T) /\ S = T \cup {x} /\ x \notin T /\ 1 \in Int
  BY FS_Subset
<1>2. Multiplied(g, T) \in Int
  <2>1. \A y \in T : g[y] \in Int
    OBVIOUS
  <2> HIDE DEF T
  <2> QED
    BY <1>1, <2>1, MultipliedInt
<1>3. Multiplied(g, T \cup {x}) = Times[<<g[x], Multiplied(g, T)>>]
  <2>1. (\A y \in T \cup {x} : g[y] \in Int) /\ Commutes(Times)
    BY TimesCommutes
  <2> HIDE DEF T
  <2>2. Folded(Times, 1, g, T \cup {x}) = Times[<<g[x], Folded(Times, 1, g, T)>>]
    <3>1. PICK op, base : base \in Int /\ op = Times /\ base = 1
      OBVIOUS
    <3>2. Folded(op, base, g, T \cup {x}) = op[<<g[x], Folded(op, base, g, T)>>]
      BY <1>1, <2>1, <3>1, FoldedAdd
    <3> QED
      BY <3>1, <3>2
  <2> QED
    BY <2>2 DEF Multiplied
<1>4. Times[<<g[x], Multiplied(g, T)>>] = g[x] * Multiplied(g, T)
  <2> HIDE DEF T
  <2> QED
    BY <1>2, TimesCommutes
<1>5. g[x] * Multiplied(g, T) = Multiplied(g, T) * g[x]
  <2>1. \A a, b \in Int : a * b = b * a
    OBVIOUS
  <2> QED
    BY <1>2, <2>1, Zenon
<1> QED
  BY <1>1, <1>3, <1>4, <1>5, Zenon

LEMMA SummedInt ==
  ASSUME NEW S, IsFiniteSet(S), NEW g, \A x \in S : g[x] \in Int
  PROVE  Summed(g, S) \in Int
<1>1. \A a, b \in Int : Plus[<<a, b>>] \in Int
  BY PlusCommutes DEF Commutes
<1> QED
  BY <1>1, FoldedType DEF Summed

\* The recursion of the community modules' sum, whichever function is chosen for it
IsSum(c, g, S) == c = [s \in SUBSET S |-> IF s = {} THEN 0 ELSE g[Picked(s)] + c[s \ {Picked(s)}]]
IsProduct(c, g, S) == c = [s \in SUBSET S |-> IF s = {} THEN 1 ELSE g[Picked(s)] * c[s \ {Picked(s)}]]

LEMMA SumExists ==
  ASSUME NEW S, IsFiniteSet(S), NEW g, \A x \in S : g[x] \in Int
  PROVE  \E c : IsSum(c, g, S)
<1>1. PICK f : IsFold(f, Plus, 0, g, S)
  BY FoldExists
<1>2. ASSUME NEW s \in SUBSET S
      PROVE  f[s] \in Int
  <2>1. IsFiniteSet(s) /\ \A x \in s : g[x] \in Int
    BY FS_Subset
  <2>2. f[s] = Summed(g, s)
    BY <1>1, <2>1, FoldedIs DEF Summed
  <2> QED
    BY <2>1, <2>2, SummedInt
<1>3. ASSUME NEW s \in SUBSET S, s # {}
      PROVE  Plus[<<g[Picked(s)], f[s \ {Picked(s)}]>>] = g[Picked(s)] + f[s \ {Picked(s)}]
  <2>1. g[Picked(s)] \in Int /\ f[s \ {Picked(s)}] \in Int
    BY <1>2, <1>3, PickedIsIn
  <2> QED
    BY <2>1, PlusCommutes
<1>4. f = [s \in SUBSET S |-> IF s = {} THEN 0 ELSE Plus[<<g[Picked(s)], f[s \ {Picked(s)}]>>]]
  BY <1>1, Zenon DEF IsFold
<1>5. f = [s \in SUBSET S |-> IF s = {} THEN 0 ELSE g[Picked(s)] + f[s \ {Picked(s)}]]
  BY <1>3, <1>4
<1> QED
  BY <1>5, Zenon DEF IsSum

LEMMA SumIs ==
  ASSUME NEW S, IsFiniteSet(S), NEW g, \A x \in S : g[x] \in Int, NEW c, IsSum(c, g, S)
  PROVE  c[S] = Summed(g, S)
<1> DEFINE H == {T \in SUBSET S : c[T] = Summed(g, T)}
<1>1. ASSUME NEW T \in SUBSET S, \A x \in T : T \ {x} \in H
      PROVE  T \in H
  <2>1. c[T] = IF T = {} THEN 0 ELSE g[Picked(T)] + c[T \ {Picked(T)}]
    BY Zenon DEF IsSum
  <2>2. CASE T = {}
    BY <2>1, <2>2, FoldedEmpty DEF Summed
  <2>3. CASE T # {}
    <3> DEFINE U == T \ {Picked(T)}
    <3>1. Picked(T) \in T /\ IsFiniteSet(T) /\ IsFiniteSet(U) /\ U \in SUBSET S
      BY <2>3, PickedIsIn, FS_Subset
    <3>2. Summed(g, T) = Plus[<<g[Picked(T)], Summed(g, U)>>]
      BY <2>3, <3>1, FoldedPicked DEF Summed
    <3>3. g[Picked(T)] \in Int /\ Summed(g, U) \in Int
      <4>1. \A x \in U : g[x] \in Int
        OBVIOUS
      <4> HIDE DEF U
      <4> QED
        BY <3>1, <4>1, SummedInt
    <3>4. c[U] = Summed(g, U)
      BY <1>1, <3>1
    <3> HIDE DEF U
    <3>5. Plus[<<g[Picked(T)], Summed(g, U)>>] = g[Picked(T)] + Summed(g, U)
      BY <3>3, PlusCommutes
    <3> QED
      BY <2>1, <2>3, <3>2, <3>4, <3>5 DEF U
  <2> QED
    BY <2>2, <2>3
<1>2. SUBSET S \subseteq H
  <2> HIDE DEF H
  <2> QED
    BY <1>1, SubsetInduction
<1> QED
  BY <1>2

LEMMA ProductExists ==
  ASSUME NEW S, IsFiniteSet(S), NEW g, \A x \in S : g[x] \in Int
  PROVE  \E c : IsProduct(c, g, S)
<1>1. PICK f : IsFold(f, Times, 1, g, S)
  BY FoldExists
<1>2. ASSUME NEW s \in SUBSET S
      PROVE  f[s] \in Int
  <2>1. IsFiniteSet(s) /\ \A x \in s : g[x] \in Int
    BY FS_Subset
  <2>2. f[s] = Multiplied(g, s)
    BY <1>1, <2>1, FoldedIs DEF Multiplied
  <2> QED
    BY <2>1, <2>2, MultipliedInt
<1>3. ASSUME NEW s \in SUBSET S, s # {}
      PROVE  Times[<<g[Picked(s)], f[s \ {Picked(s)}]>>] = g[Picked(s)] * f[s \ {Picked(s)}]
  <2>1. g[Picked(s)] \in Int /\ f[s \ {Picked(s)}] \in Int
    BY <1>2, <1>3, PickedIsIn
  <2> QED
    BY <2>1, TimesCommutes, Zenon
<1>4. f = [s \in SUBSET S |-> IF s = {} THEN 1 ELSE Times[<<g[Picked(s)], f[s \ {Picked(s)}]>>]]
  BY <1>1, Zenon DEF IsFold
<1>5. f = [s \in SUBSET S |-> IF s = {} THEN 1 ELSE g[Picked(s)] * f[s \ {Picked(s)}]]
  BY <1>3, <1>4
<1> QED
  BY <1>5, Zenon DEF IsProduct

LEMMA ProductIs ==
  ASSUME NEW S, IsFiniteSet(S), NEW g, \A x \in S : g[x] \in Int, NEW c, IsProduct(c, g, S)
  PROVE  c[S] = Multiplied(g, S)
<1> DEFINE H == {T \in SUBSET S : c[T] = Multiplied(g, T)}
<1>1. ASSUME NEW T \in SUBSET S, \A x \in T : T \ {x} \in H
      PROVE  T \in H
  <2>1. c[T] = IF T = {} THEN 1 ELSE g[Picked(T)] * c[T \ {Picked(T)}]
    BY Zenon DEF IsProduct
  <2>2. CASE T = {}
    BY <2>1, <2>2, FoldedEmpty DEF Multiplied
  <2>3. CASE T # {}
    <3> DEFINE U == T \ {Picked(T)}
    <3>1. Picked(T) \in T /\ IsFiniteSet(T) /\ IsFiniteSet(U) /\ U \in SUBSET S
      BY <2>3, PickedIsIn, FS_Subset
    <3>2. Multiplied(g, T) = Times[<<g[Picked(T)], Multiplied(g, U)>>]
      BY <2>3, <3>1, FoldedPicked DEF Multiplied
    <3>3. g[Picked(T)] \in Int /\ Multiplied(g, U) \in Int
      <4>1. \A x \in U : g[x] \in Int
        OBVIOUS
      <4> HIDE DEF U
      <4> QED
        BY <3>1, <4>1, MultipliedInt
    <3>4. c[U] = Multiplied(g, U)
      BY <1>1, <3>1
    <3> HIDE DEF U
    <3>5. Times[<<g[Picked(T)], Multiplied(g, U)>>] = g[Picked(T)] * Multiplied(g, U)
      BY <3>3, TimesCommutes, Zenon
    <3> QED
      BY <2>1, <2>3, <3>2, <3>4, <3>5, Zenon DEF U
  <2> QED
    BY <2>2, <2>3
<1>2. SUBSET S \subseteq H
  <2> HIDE DEF H
  <2> QED
    BY <1>1, SubsetInduction
<1> QED
  BY <1>2

-----------------------------------------------------------------------------
(* Sums *)

LEMMA SummedEmpty == \A g : Summed(g, {}) = 0
BY FoldedEmpty DEF Summed

LEMMA SummedAdd ==
  ASSUME NEW T, IsFiniteSet(T), NEW x, x \notin T, NEW g, \A y \in T \cup {x} : g[y] \in Int
  PROVE  Summed(g, T \cup {x}) = g[x] + Summed(g, T)
<1>1. Summed(g, T) \in Int /\ g[x] \in Int
  BY SummedInt
<1>2. PICK base \in Int : base = 0
  OBVIOUS
<1>3. Folded(Plus, base, g, T \cup {x}) = Plus[<<g[x], Folded(Plus, base, g, T)>>]
  BY PlusCommutes, FoldedAdd
<1> QED
  BY <1>1, <1>2, <1>3, PlusCommutes DEF Summed

LEMMA SummedCongruent ==
  ASSUME NEW S, IsFiniteSet(S), NEW g, NEW h, \A x \in S : g[x] = h[x]
  PROVE  Summed(g, S) = Summed(h, S)
BY FoldedCongruent DEF Summed

\* What holds of the empty set, and of a set with one more element, holds of a finite set.
LEMMA AddingInduction ==
  ASSUME NEW S, IsFiniteSet(S), NEW H, {} \in H,
         \A T \in SUBSET S : \A x \in S \ T : T \in H => T \cup {x} \in H
  PROVE  S \in H
<1>1. ASSUME NEW T \in SUBSET S, \A x \in T : T \ {x} \in H
      PROVE  T \in H
  <2>1. CASE T # {}
    <3>1. PICK x : x \in T
      BY <2>1
    <3>2. T \ {x} \in SUBSET S /\ x \in S \ (T \ {x}) /\ T = (T \ {x}) \cup {x}
      BY <3>1
    <3> QED
      BY <1>1, <3>1, <3>2
  <2> QED
    BY <2>1
<1> QED
  BY <1>1, SubsetInduction

LEMMA SummedNat ==
  ASSUME NEW S, IsFiniteSet(S), NEW g, \A x \in S : g[x] \in Nat
  PROVE  Summed(g, S) \in Nat
<1>1. 0 \in Nat /\ \A a, b \in Nat : Plus[<<a, b>>] \in Nat
  BY PlusCommutes
<1> QED
  BY <1>1, FoldedType DEF Summed

LEMMA SummedUnion ==
  ASSUME NEW A, NEW B, IsFiniteSet(A), IsFiniteSet(B), A \cap B = {},
         NEW g, \A x \in A \cup B : g[x] \in Int
  PROVE  Summed(g, A \cup B) = Summed(g, A) + Summed(g, B)
<1> DEFINE H == {T \in SUBSET B : Summed(g, A \cup T) = Summed(g, A) + Summed(g, T)}
<1>1. {} \in H
  <2>1. Summed(g, A) \in Int
    BY SummedInt
  <2> QED
    BY <2>1, SummedEmpty
<1>2. ASSUME NEW T \in SUBSET B, NEW x \in B \ T, T \in H
      PROVE  T \cup {x} \in H
  <2> DEFINE U == A \cup T
  <2>1. IsFiniteSet(T) /\ IsFiniteSet(U) /\ x \notin U /\ x \notin T
    BY FS_Subset, FS_Union
  <2>2. /\ \A y \in T \cup {x} : g[y] \in Int
        /\ \A y \in U \cup {x} : g[y] \in Int
        /\ \A y \in A : g[y] \in Int
    OBVIOUS
  <2>3. Summed(g, U) = Summed(g, A) + Summed(g, T)
    BY <1>2
  <2>4. A \cup (T \cup {x}) = U \cup {x}
    OBVIOUS
  <2> HIDE DEF U
  <2>5. Summed(g, U \cup {x}) = g[x] + Summed(g, U)
    BY <2>1, <2>2, SummedAdd
  <2>6. Summed(g, T \cup {x}) = g[x] + Summed(g, T)
    BY <2>1, <2>2, SummedAdd
  <2>7. Summed(g, A) \in Int /\ Summed(g, T) \in Int /\ g[x] \in Int
    BY <2>1, <2>2, SummedInt
  <2>8. Summed(g, U \cup {x}) = Summed(g, A) + Summed(g, T \cup {x})
    BY <2>3, <2>5, <2>6, <2>7
  <2> QED
    BY <2>4, <2>8
<1>3. B \in H
  <2> HIDE DEF H
  <2> QED
    BY <1>1, <1>2, AddingInduction
<1> QED
  BY <1>3

\* The sum of the community modules, of a function's values
LEMMA MapThenSumIs ==
  ASSUME NEW S, IsFiniteSet(S), NEW g, \A x \in S : g[x] \in Int
  PROVE  MapThenSumSet(LAMBDA x : g[x], S) = Summed(g, S)
<1> DEFINE c == CHOOSE k : k = [s \in SUBSET S |->
                     IF s = {} THEN 0
                     ELSE g[CHOOSE x \in s : TRUE] + k[s \ {CHOOSE x \in s : TRUE}]]
<1>1. MapThenSumSet(LAMBDA x : g[x], S) = c[S]
  BY Zenon DEF MapThenSumSet, MapThenFoldSet
<1>2. PICK k : IsSum(k, g, S)
  BY SumExists
<1>3. IsSum(c, g, S)
  BY <1>2, ZenonT(60) DEF IsSum, Picked
<1> HIDE DEF c
<1> QED
  BY <1>1, <1>3, SumIs

LEMMA SumFunctionIs ==
  ASSUME NEW S, IsFiniteSet(S), NEW g, DOMAIN g = S, \A x \in S : g[x] \in Int
  PROVE  SumFunction(g) = Summed(g, S)
<1> DEFINE c == CHOOSE k : k = [s \in SUBSET S |->
                     IF s = {} THEN 0
                     ELSE g[CHOOSE x \in s : TRUE] + k[s \ {CHOOSE x \in s : TRUE}]]
<1>1. SumFunction(g) = c[S]
  BY Zenon DEF SumFunction, SumFunctionOnSet, FoldFunctionOnSet, MapThenFoldSet
<1>2. PICK k : IsSum(k, g, S)
  BY SumExists
<1>3. IsSum(c, g, S)
  BY <1>2, ZenonT(60) DEF IsSum, Picked
<1> HIDE DEF c
<1> QED
  BY <1>1, <1>3, SumIs

LEMMA SumOfValues ==
  ASSUME NEW S, IsFiniteSet(S), NEW g, \A x \in S : g[x] \in Int
  PROVE  SumFunction([x \in S |-> g[x]]) = Summed(g, S)
<1> DEFINE h == [x \in S |-> g[x]]
<1>1. DOMAIN h = S /\ \A x \in S : h[x] \in Int /\ h[x] = g[x]
  OBVIOUS
<1> HIDE DEF h
<1>2. SumFunction(h) = Summed(h, S) /\ Summed(h, S) = Summed(g, S)
  BY <1>1, SumFunctionIs, SummedCongruent
<1> QED
  BY <1>2 DEF h

\* A sum of sums, of differences and of what is owned by someone
LEMMA SummedPlus ==
  ASSUME NEW S, IsFiniteSet(S), NEW f, NEW g, NEW h,
         \A x \in S : f[x] \in Int /\ g[x] \in Int /\ h[x] = f[x] + g[x]
  PROVE  Summed(h, S) = Summed(f, S) + Summed(g, S)
<1> DEFINE H == {T \in SUBSET S : Summed(h, T) = Summed(f, T) + Summed(g, T)}
<1>1. {} \in H
  BY SummedEmpty
<1>2. ASSUME NEW T \in SUBSET S, NEW x \in S \ T, T \in H PROVE T \cup {x} \in H
  <2>1. /\ IsFiniteSet(T) /\ \A y \in T \cup {x} : f[y] \in Int /\ g[y] \in Int /\ h[y] \in Int
    BY FS_Subset
  <2>2. /\ Summed(f, T \cup {x}) = f[x] + Summed(f, T)
        /\ Summed(g, T \cup {x}) = g[x] + Summed(g, T)
        /\ Summed(h, T \cup {x}) = h[x] + Summed(h, T)
    BY <2>1, SummedAdd
  <2>3. Summed(f, T) \in Int /\ Summed(g, T) \in Int /\ Summed(h, T) \in Int
    BY <2>1, SummedInt
  <2> QED
    BY <1>2, <2>2, <2>3
<1>3. S \in H
  <2> HIDE DEF H
  <2> QED
    BY <1>1, <1>2, AddingInduction
<1> QED
  BY <1>3

LEMMA SummedAtMost ==
  ASSUME NEW S, IsFiniteSet(S), NEW f, NEW g,
         \A x \in S : f[x] \in Int /\ g[x] \in Int /\ f[x] <= g[x]
  PROVE  Summed(f, S) <= Summed(g, S)
<1> DEFINE d == [x \in S |-> g[x] - f[x]]
<1>1. \A x \in S : d[x] \in Nat
  OBVIOUS
<1>2. \A x \in S : f[x] \in Int /\ d[x] \in Int /\ g[x] = f[x] + d[x]
  OBVIOUS
<1>3. Summed(f, S) \in Int
  BY SummedInt
<1> HIDE DEF d
<1>4. Summed(d, S) \in Nat
  BY <1>1, SummedNat
<1>5. Summed(g, S) = Summed(f, S) + Summed(d, S)
  BY <1>2, SummedPlus
<1> QED
  BY <1>3, <1>4, <1>5

\* Where each value is near to its share, the sum is as near as they are together.
LEMMA SummedNear ==
  ASSUME NEW S, IsFiniteSet(S), NEW f, NEW g, NEW a \in Int, NEW b \in Int, NEW d \in Int,
         \A x \in S : /\ f[x] \in Int /\ g[x] \in Int
                     /\ a * f[x] - b * g[x] <= d /\ b * g[x] - a * f[x] <= d
  PROVE  /\ a * Summed(f, S) - b * Summed(g, S) <= Cardinality(S) * d
         /\ b * Summed(g, S) - a * Summed(f, S) <= Cardinality(S) * d
<1> DEFINE Near(T) == /\ a * Summed(f, T) - b * Summed(g, T) <= Cardinality(T) * d
                      /\ b * Summed(g, T) - a * Summed(f, T) <= Cardinality(T) * d
           H == {T \in SUBSET S : Near(T)}
<1>1. {} \in H
  BY SummedEmpty, FS_EmptySet
<1>2. ASSUME NEW T \in SUBSET S, NEW x \in S \ T, T \in H PROVE T \cup {x} \in H
  <2>1. IsFiniteSet(T) /\ \A y \in T \cup {x} : f[y] \in Int /\ g[y] \in Int
    BY FS_Subset
  <2>2. /\ Summed(f, T \cup {x}) = f[x] + Summed(f, T)
        /\ Summed(g, T \cup {x}) = g[x] + Summed(g, T)
        /\ Cardinality(T \cup {x}) = Cardinality(T) + 1
    BY <2>1, SummedAdd, FS_AddElement
  <2>3. Summed(f, T) \in Int /\ Summed(g, T) \in Int /\ Cardinality(T) \in Int
    BY <2>1, SummedInt, FS_CardinalityType
  <2>4. PICK u \in Int, v \in Int, c \in Int, y \in Int, z \in Int :
          u = Summed(f, T) /\ v = Summed(g, T) /\ c = Cardinality(T) /\ y = f[x] /\ z = g[x]
    BY <2>1, <2>3
  <2>5. a * u - b * v <= c * d /\ b * v - a * u <= c * d
    BY <1>2, <2>4
  <2>6. a * y - b * z <= d /\ b * z - a * y <= d
    BY <2>4
  <2>7. a * (y + u) = a * y + a * u /\ b * (z + v) = b * z + b * v /\ (c + 1) * d = c * d + d
    BY <2>4
  <2>8. /\ a * (y + u) - b * (z + v) <= (c + 1) * d
        /\ b * (z + v) - a * (y + u) <= (c + 1) * d
    BY <2>4, <2>5, <2>6, <2>7
  <2> QED
    BY <2>2, <2>4, <2>8
<1>3. S \in H
  <2> HIDE DEF H
  <2> QED
    BY <1>1, <1>2, AddingInduction
<1> QED
  BY <1>3

LEMMA SummedZero ==
  ASSUME NEW S, IsFiniteSet(S), NEW f, \A x \in S : f[x] = 0
  PROVE  Summed(f, S) = 0
<1> DEFINE H == {T \in SUBSET S : Summed(f, T) = 0}
<1>1. {} \in H
  BY SummedEmpty
<1>2. ASSUME NEW T \in SUBSET S, NEW x \in S \ T, T \in H PROVE T \cup {x} \in H
  <2>1. IsFiniteSet(T) /\ \A y \in T \cup {x} : f[y] \in Int
    BY FS_Subset
  <2>2. Summed(f, T \cup {x}) = f[x] + Summed(f, T)
    BY <2>1, SummedAdd
  <2> QED
    BY <1>2, <2>2
<1>3. S \in H
  <2> HIDE DEF H
  <2> QED
    BY <1>1, <1>2, AddingInduction
<1> QED
  BY <1>3

OwnedBy(owner, S, o) == {x \in S : owner[x] = o}

LEMMA SummedByOwner ==
  ASSUME NEW S, IsFiniteSet(S), NEW O, IsFiniteSet(O), NEW f, NEW owner, NEW t,
         \A x \in S : f[x] \in Int /\ owner[x] \in O,
         \A o \in O : t[o] = Summed(f, OwnedBy(owner, S, o))
  PROVE  Summed(t, O) = Summed(f, S)
<1> DEFINE Of(P) == {x \in S : owner[x] \in P}
           H == {P \in SUBSET O : Summed(t, P) = Summed(f, Of(P))}
<1>1. {} \in H
  <2>1. Of({}) = {}
    OBVIOUS
  <2> QED
    BY <2>1, SummedEmpty
<1>2. ASSUME NEW P \in SUBSET O, NEW o \in O \ P, P \in H PROVE P \cup {o} \in H
  <2> DEFINE A == Of(P)
             B == OwnedBy(owner, S, o)
             U == Of(P \cup {o})
  <2>1. U = A \cup B /\ A \cap B = {}
    BY DEF OwnedBy
  <2>2. IsFiniteSet(A) /\ IsFiniteSet(B) /\ A \in SUBSET S /\ B \in SUBSET S /\ IsFiniteSet(P)
    BY FS_Subset DEF OwnedBy
  <2>3. Summed(t, P) = Summed(f, A) /\ t[o] = Summed(f, B)
    BY <1>2
  <2>4. \A p \in P \cup {o} : t[p] \in Int
    <3> SUFFICES ASSUME NEW p \in O PROVE t[p] \in Int
      OBVIOUS
    <3> DEFINE C == OwnedBy(owner, S, p)
    <3>1. IsFiniteSet(C) /\ (\A x \in C : f[x] \in Int) /\ t[p] = Summed(f, C)
      BY FS_Subset DEF OwnedBy
    <3> HIDE DEF C
    <3> QED
      BY <3>1, SummedInt
  <2> HIDE DEF A, B, U
  <2>5. Summed(t, P \cup {o}) = t[o] + Summed(t, P)
    BY <1>2, <2>2, <2>4, SummedAdd
  <2>6. Summed(f, A \cup B) = Summed(f, A) + Summed(f, B)
    BY <2>1, <2>2, SummedUnion
  <2>7. Summed(f, A) \in Int /\ Summed(f, B) \in Int
    BY <2>2, SummedInt
  <2>8. Summed(t, P) \in Int /\ t[o] \in Int
    BY <2>3, <2>7
  <2>9. Summed(t, P \cup {o}) = Summed(f, U)
    BY <2>1, <2>3, <2>5, <2>6, <2>7, <2>8
  <2> QED
    BY <2>9 DEF U
<1>3. O \in H
  <2> HIDE DEF H
  <2> QED
    BY <1>1, <1>2, AddingInduction
<1>4. Of(O) = S
  OBVIOUS
<1> QED
  BY <1>3, <1>4

LEMMA MultipliedNat ==
  ASSUME NEW S, IsFiniteSet(S), NEW g, \A x \in S : g[x] \in Nat
  PROVE  Multiplied(g, S) \in Nat
<1>1. 1 \in Nat /\ \A a, b \in Nat : Times[<<a, b>>] \in Nat
  <2>1. \A a \in Nat : a \in Int
    OBVIOUS
  <2>2. \A a, b \in Nat : Times[<<a, b>>] = a * b
    BY <2>1, TimesCommutes, Zenon
  <2>3. \A a, b \in Nat : a * b \in Nat
    OBVIOUS
  <2> QED
    BY <2>2, <2>3, Zenon
<1> QED
  BY <1>1, FoldedType DEF Multiplied

-----------------------------------------------------------------------------
(* Least and greatest elements *)

LEMMA MinIs ==
  ASSUME NEW S \in SUBSET Nat, S # {}
  PROVE  Min(S) \in S /\ \A y \in S : Min(S) <= y
<1> DEFINE R == OpToRel(<, Nat)
<1>1. IsWellFoundedOn(R, Nat)
  BY NatLessThanWellFounded
<1>2. PICK x \in S : \A y \in S : <<y, x>> \notin R
  <2> HIDE DEF R
  <2> QED
    BY <1>1, WFMin
<1>3. ASSUME NEW y \in S
      PROVE  x =< y
  <2>1. y < x => <<y, x>> \in R
    BY DEF OpToRel
  <2> HIDE DEF R
  <2> QED
    BY <1>2, <2>1
<1> QED
  BY <1>3, Zenon DEF Min

LEMMA MaxIs ==
  ASSUME NEW S \in SUBSET Int, IsFiniteSet(S), S # {}
  PROVE  Max(S) \in S /\ \A y \in S : Max(S) >= y
<1> DEFINE Top(T) == \E x \in T : \A y \in T : x >= y
           H == {T \in SUBSET S : T # {} => Top(T)}
<1>1. {} \in H
  OBVIOUS
<1>2. ASSUME NEW T \in SUBSET S, NEW x \in S \ T, T \in H PROVE T \cup {x} \in H
  <2>1. CASE T = {}
    BY <2>1
  <2>2. CASE T # {}
    <3>1. PICK z \in T : \A y \in T : z >= y
      BY <1>2, <2>2
    <3>2. z \in Int /\ x \in Int /\ \A y \in T : y \in Int
      OBVIOUS
    <3>3. CASE z >= x
      BY <3>1, <3>3
    <3>4. CASE ~ (z >= x)
      <4>1. \A y \in T \cup {x} : x >= y
        BY <3>1, <3>2, <3>4
      <4> QED
        BY <4>1
    <3> QED
      BY <3>3, <3>4
  <2> QED
    BY <2>1, <2>2
<1>3. S \in H
  <2> HIDE DEF H
  <2> QED
    BY <1>1, <1>2, AddingInduction
<1>4. \E x \in S : \A y \in S : x >= y
  BY <1>3
<1> QED
  BY <1>4, Zenon DEF Max

LEMMA MaxOfTwo ==
  ASSUME NEW a \in Int, NEW b \in Int
  PROVE  Max({a, b}) = IF a >= b THEN a ELSE b
<1>1. {a, b} \in SUBSET Int /\ {a, b} # {} /\ IsFiniteSet({a, b})
  <2>1. PICK t : t = {a}
    OBVIOUS
  <2>2. IsFiniteSet(t)
    BY <2>1, FS_Singleton
  <2>3. IsFiniteSet(t \cup {b})
    BY <2>2, FS_AddElement
  <2>4. t \cup {b} = {a, b}
    BY <2>1
  <2> QED
    BY <2>3, <2>4
<1>2. PICK s : s = {a, b}
  OBVIOUS
<1>3. Max(s) \in s /\ \A y \in s : Max(s) >= y
  BY <1>1, <1>2, MaxIs
<1> QED
  BY <1>2, <1>3

-----------------------------------------------------------------------------
(* The places that a total order gives *)

Orders(R, S) ==
  /\ \A x \in S : <<x, x>> \notin R
  /\ \A x, y \in S : x # y => <<x, y>> \in R \/ <<y, x>> \in R
  /\ \A x, y, z \in S : <<x, y>> \in R /\ <<y, z>> \in R => <<x, z>> \in R

Ahead(R, S, x) == {y \in S : <<y, x>> \in R}

LEMMA PlacesDiffer ==
  ASSUME NEW S, IsFiniteSet(S), NEW R, Orders(R, S)
  PROVE  /\ \A x \in S : Cardinality(Ahead(R, S, x)) \in 0 .. Cardinality(S) - 1
         /\ \A x, y \in S :
              Cardinality(Ahead(R, S, x)) = Cardinality(Ahead(R, S, y)) => x = y
         /\ \A x, y \in S :
              <<x, y>> \in R => Cardinality(Ahead(R, S, x)) < Cardinality(Ahead(R, S, y))
<1>1. Cardinality(S) \in Nat
  BY FS_CardinalityType
<1>2. ASSUME NEW x \in S PROVE Cardinality(Ahead(R, S, x)) \in 0 .. Cardinality(S) - 1
  <2>1. Ahead(R, S, x) \in SUBSET S /\ x \notin Ahead(R, S, x)
    BY DEF Ahead, Orders
  <2>2. /\ IsFiniteSet(Ahead(R, S, x)) /\ Cardinality(Ahead(R, S, x)) <= Cardinality(S)
        /\ Cardinality(S) # Cardinality(Ahead(R, S, x))
    BY <2>1, FS_Subset
  <2>3. Cardinality(Ahead(R, S, x)) \in Nat
    BY <2>2, FS_CardinalityType
  <2> QED
    BY <1>1, <2>2, <2>3
<1>3. ASSUME NEW x \in S, NEW y \in S, <<x, y>> \in R
      PROVE  Cardinality(Ahead(R, S, x)) < Cardinality(Ahead(R, S, y))
  <2>1. Ahead(R, S, x) \in SUBSET Ahead(R, S, y)
    BY <1>3 DEF Ahead, Orders
  <2>2. x \in Ahead(R, S, y) /\ x \notin Ahead(R, S, x)
    BY <1>3 DEF Ahead, Orders
  <2>3. Ahead(R, S, y) \in SUBSET S
    BY DEF Ahead
  <2>4. IsFiniteSet(Ahead(R, S, y))
    BY <2>3, FS_Subset
  <2>5. /\ Cardinality(Ahead(R, S, x)) <= Cardinality(Ahead(R, S, y))
        /\ Cardinality(Ahead(R, S, x)) # Cardinality(Ahead(R, S, y))
    BY <2>1, <2>2, <2>4, FS_Subset
  <2>6. Cardinality(Ahead(R, S, x)) \in Int /\ Cardinality(Ahead(R, S, y)) \in Int
    BY <1>2
  <2> QED
    BY <2>5, <2>6
<1>4. \A x \in S : Cardinality(Ahead(R, S, x)) \in Int
  BY <1>2
<1>5. ASSUME NEW x \in S, NEW y \in S, Cardinality(Ahead(R, S, x)) = Cardinality(Ahead(R, S, y))
      PROVE  x = y
  <2>1. <<x, y>> \notin R /\ <<y, x>> \notin R
    BY <1>3, <1>4, <1>5
  <2> QED
    BY <2>1 DEF Orders
<1> QED
  BY <1>2, <1>3, <1>5

LEMMA PlacesTaken ==
  ASSUME NEW S, IsFiniteSet(S), NEW R, Orders(R, S), NEW n \in 1 .. Cardinality(S)
  PROVE  \E x \in S : Cardinality(Ahead(R, S, x)) = n - 1
<1> DEFINE T == 0 .. Cardinality(S) - 1
           place == [x \in S |-> Cardinality(Ahead(R, S, x))]
<1>1. Cardinality(S) \in Nat
  BY FS_CardinalityType
<1>2. IsFiniteSet(T) /\ Cardinality(T) = Cardinality(S)
  <2>1. 0 \in Int /\ Cardinality(S) - 1 \in Int
    BY <1>1
  <2> QED
    BY <1>1, <2>1, FS_Interval
<1>3. place \in [S -> T] /\ \A x, y \in S : place[x] = place[y] => x = y
  BY PlacesDiffer
<1> HIDE DEF place
<1>4. place \in Injection(S, T)
  BY <1>3 DEF Injection, IsInjective
<1>5. place \in Surjection(S, T)
  <2> HIDE DEF T
  <2> QED
    BY <1>2, <1>4, FS_Injection
<1>6. n - 1 \in T
  BY <1>1
<1>7. \E x \in S : place[x] = n - 1
  <2> HIDE DEF T
  <2> QED
    BY <1>5, <1>6 DEF Surjection
<1> QED
  BY <1>7 DEF place

-----------------------------------------------------------------------------
(* Folds over sequences: the last place is picked first *)

LEMMA MinOfTwo ==
  ASSUME NEW a \in Nat, NEW b \in Nat
  PROVE  Min({a, b}) = IF a <= b THEN a ELSE b
<1>1. PICK s : s = {a, b}
  OBVIOUS
<1>2. Min(s) \in s /\ \A y \in s : Min(s) <= y
  <2>1. s \in SUBSET Nat /\ s # {}
    BY <1>1
  <2> QED
    BY <2>1, MinIs
<1> QED
  BY <1>1, <1>2

LEMMA LastPlace ==
  ASSUME NEW n \in Nat
  PROVE  /\ \A s \in SUBSET (1 .. n) : s # {} => Max(s) \in s
         /\ n # 0 => Max(1 .. n) = n /\ (1 .. n) \ {n} = 1 .. n - 1
<1>1. IsFiniteSet(1 .. n)
  <2>1. 1 \in Int /\ n \in Int
    OBVIOUS
  <2> QED
    BY <2>1, FS_Interval
<1>2. ASSUME NEW s \in SUBSET (1 .. n), s # {}
      PROVE  Max(s) \in s /\ \A y \in s : Max(s) >= y
  <2>1. IsFiniteSet(s)
    BY <1>1, FS_Subset
  <2>2. s \in SUBSET Int
    OBVIOUS
  <2> QED
    BY <1>2, <2>1, <2>2, MaxIs
<1>3. n # 0 => Max(1 .. n) = n
  <2> SUFFICES ASSUME n # 0 PROVE Max(1 .. n) = n
    OBVIOUS
  <2>1. n \in 1 .. n
    OBVIOUS
  <2>2. PICK s : s = 1 .. n
    OBVIOUS
  <2>3. Max(s) \in s /\ \A y \in s : Max(s) >= y
    BY <1>2, <2>1, <2>2
  <2> QED
    BY <2>1, <2>2, <2>3
<1> QED
  BY <1>2, <1>3

IsSequenceFold(f, op, base, seq, n) ==
  \A s \in SUBSET (1 .. n) : f[s] = IF s = {} THEN base ELSE op[<<seq[Max(s)], f[s \ {Max(s)}]>>]

StaysIn(op, X, V) == \A x \in X, v \in V : op[<<x, v>>] \in V

LEMMA SequenceFoldExists ==
  ASSUME NEW n \in Nat, NEW V, NEW base \in V, NEW X, NEW seq \in [1 .. n -> X],
         NEW op, StaysIn(op, X, V)
  PROVE  \E f \in [SUBSET (1 .. n) -> V] : IsSequenceFold(f, op, base, seq, n)
<1> DEFINE S == 1 .. n
           pick == [s \in SUBSET S |-> Max(s)]
<1>1. IsFiniteSet(S)
  <2>1. 1 \in Int /\ n \in Int
    OBVIOUS
  <2> QED
    BY <2>1, FS_Interval
<1>2. \A s \in SUBSET S : s # {} => pick[s] \in s
  BY LastPlace
<1>3. \A s \in SUBSET S : pick[s] = Max(s)
  OBVIOUS
<1> HIDE DEF pick, S
<1>4. PICK f : IsPickedFold(f, pick, op, base, seq, S)
  BY <1>1, <1>2, PickedFoldExists
<1>5. /\ f = [s \in SUBSET S |-> f[s]]
      /\ \A s \in SUBSET S : f[s] = IF s = {} THEN base ELSE op[<<seq[Max(s)], f[s \ {Max(s)}]>>]
  BY <1>3, <1>4 DEF IsPickedFold
<1> DEFINE H == {s \in SUBSET S : f[s] \in V}
<1>6. ASSUME NEW s \in SUBSET S, \A x \in s : s \ {x} \in H
      PROVE  s \in H
  <2>1. CASE s = {}
    BY <1>5, <2>1
  <2>2. CASE s # {}
    <3>1. Max(s) \in s
      BY <1>2, <1>3, <2>2
    <3>2. f[s \ {Max(s)}] \in V /\ seq[Max(s)] \in X
      BY <1>6, <3>1 DEF S
    <3>3. op[<<seq[Max(s)], f[s \ {Max(s)}]>>] \in V
      BY <3>2 DEF StaysIn
    <3> QED
      BY <1>5, <2>2, <3>3
  <2> QED
    BY <2>1, <2>2
<1>7. SUBSET S \subseteq H
  <2> HIDE DEF H
  <2> QED
    BY <1>1, <1>6, SubsetInduction
<1>8. f \in [SUBSET S -> V]
  BY <1>5, <1>7
<1> QED
  BY <1>5, <1>8 DEF S, IsSequenceFold

-----------------------------------------------------------------------------
(* Taking an amount from the first of some numbers, then from the next *)

Lower(P, i) == {j \in P : j < i}

LEMMA LowerIs ==
  ASSUME NEW n \in Nat, NEW P \in SUBSET (1 .. n)
  PROVE  /\ Lower(P, 0) = {} /\ Lower(P, n + 1) = P
         /\ \A i \in Nat : i \in P => Lower(P, i + 1) = Lower(P, i) \cup {i} /\ i \notin Lower(P, i)
         /\ \A i \in Nat : i \notin P => Lower(P, i + 1) = Lower(P, i)
         /\ \A i, j \in P : i < j => Lower(P, i + 1) \subseteq Lower(P, j)
<1>1. \A j \in P : j \in Nat /\ 0 < j /\ j <= n
  OBVIOUS
<1>2. \A i, j : j \in Lower(P, i) <=> j \in P /\ j < i
  BY DEF Lower
<1>3. \A j \in P : ~ (j < 0) /\ j < n + 1
  BY <1>1
<1>4. \A i \in Nat : \A j \in P : j < i + 1 <=> j < i \/ j = i
  BY <1>1
<1>5. \A i, j, k \in P : i < j /\ k < i + 1 => k < j
  BY <1>1
<1>6. Lower(P, 0) = {} /\ Lower(P, n + 1) = P
  BY <1>2, <1>3
<1>7. ASSUME NEW i \in Nat, i \in P
      PROVE  Lower(P, i + 1) = Lower(P, i) \cup {i} /\ i \notin Lower(P, i)
  <2>1. \A j : j \in Lower(P, i + 1) <=> j \in Lower(P, i) \cup {i}
    BY <1>2, <1>4, <1>7
  <2>2. i \notin Lower(P, i)
    BY <1>2
  <2> QED
    BY <2>1, <2>2
<1>8. ASSUME NEW i \in Nat, i \notin P
      PROVE  Lower(P, i + 1) = Lower(P, i)
  <2>1. \A j : j \in Lower(P, i + 1) <=> j \in Lower(P, i)
    BY <1>2, <1>4, <1>8
  <2> QED
    BY <2>1
<1>9. \A i, j \in P : i < j => Lower(P, i + 1) \subseteq Lower(P, j)
  BY <1>2, <1>5
<1> QED
  BY <1>6, <1>7, <1>8, <1>9

\* What is left of a number after t is taken from the first ones
AfterTaking(f, P, t, i) ==
  IF Summed(f, Lower(P, i)) < t THEN Max({f[i] - (t - Summed(f, Lower(P, i))), 0}) ELSE f[i]

IsTaken(g, f, P, t) == \A i \in P : g[i] = AfterTaking(f, P, t, i)

\* Nothing is left of the numbers before one that is not whole.
TakenFrom(P, t, f, g) ==
  /\ \A i \in P : g[i] \in Nat /\ g[i] <= f[i]
  /\ \A i, j \in P : i < j /\ g[i] > 0 => g[j] = f[j]
  /\ t <= Summed(f, P) => Summed(g, P) = Summed(f, P) - t

LEMMA FirstTaken ==
  ASSUME NEW n \in Nat, NEW P \in SUBSET (1 .. n), NEW f, \A i \in P : f[i] \in Nat, NEW t \in Nat,
         NEW g, IsTaken(g, f, P, t)
  PROVE  TakenFrom(P, t, f, g)
<1> DEFINE S(i) == Summed(f, Lower(P, i))
           G(i) == Summed(g, Lower(P, i))
<1>1. IsFiniteSet(P) /\ \A i : IsFiniteSet(Lower(P, i)) /\ Lower(P, i) \subseteq P
  <2>1. 1 \in Int /\ n \in Int
    OBVIOUS
  <2>2. IsFiniteSet(1 .. n)
    BY <2>1, FS_Interval
  <2>3. IsFiniteSet(P)
    BY <2>2, FS_Subset
  <2>4. \A i : Lower(P, i) \in SUBSET P
    BY DEF Lower
  <2> QED
    BY <2>3, <2>4, FS_Subset
<1>2. \A i : S(i) \in Nat
  BY <1>1, SummedNat
<1>3. ASSUME NEW i \in P
      PROVE  g[i] = IF S(i) < t THEN IF f[i] >= t - S(i) THEN f[i] - (t - S(i)) ELSE 0 ELSE f[i]
  <2>1. S(i) \in Nat /\ f[i] \in Nat
    BY <1>2
  <2>2. g[i] = IF S(i) < t THEN Max({f[i] - (t - S(i)), 0}) ELSE f[i]
    BY DEF IsTaken, AfterTaking
  <2> HIDE DEF S
  <2>3. PICK d \in Int : d = f[i] - (t - S(i))
    BY <2>1
  <2>4. Max({d, 0}) = IF d >= 0 THEN d ELSE 0
    BY MaxOfTwo
  <2> QED
    BY <2>1, <2>2, <2>3, <2>4
<1>4. ASSUME NEW i \in Nat
      PROVE  /\ i \in P => Lower(P, i + 1) = Lower(P, i) \cup {i} /\ i \notin Lower(P, i)
             /\ i \notin P => Lower(P, i + 1) = Lower(P, i)
  BY LowerIs
<1>5. \A i \in P : g[i] \in Nat /\ g[i] <= f[i]
  <2> HIDE DEF S
  <2> QED
    BY <1>2, <1>3
<1>6. ASSUME NEW i \in P
      PROVE  S(i + 1) = f[i] + S(i) /\ G(i + 1) = g[i] + G(i)
  <2>1. Lower(P, i + 1) = Lower(P, i) \cup {i} /\ i \notin Lower(P, i) /\ IsFiniteSet(Lower(P, i))
    BY <1>1, <1>4
  <2>2. \A y \in Lower(P, i) \cup {i} : f[y] \in Int /\ g[y] \in Int
    <3>1. \A y \in Lower(P, i) \cup {i} : y \in P
      BY <1>1
    <3>2. \A y \in P : f[y] \in Int /\ g[y] \in Int
      BY <1>5
    <3> QED
      BY <3>1, <3>2
  <2> QED
    BY <2>1, <2>2, SummedAdd
<1>7. ASSUME NEW i \in P, NEW j \in P, i < j
      PROVE  S(i + 1) <= S(j)
  <2> DEFINE A == Lower(P, i + 1)
             B == Lower(P, j) \ A
  <2>1. /\ IsFiniteSet(A) /\ IsFiniteSet(B) /\ A \cap B = {} /\ A \cup B = Lower(P, j)
        /\ A \subseteq P /\ B \subseteq P
    <3>1. A \subseteq Lower(P, j)
      BY <1>7, LowerIs
    <3>2. B \in SUBSET P /\ A \subseteq P
      BY <1>1
    <3>3. IsFiniteSet(A) /\ IsFiniteSet(B)
      BY <1>1, <3>2, FS_Subset
    <3> QED
      BY <3>1, <3>2, <3>3
  <2> HIDE DEF A, B
  <2>2. Summed(f, A \cup B) = Summed(f, A) + Summed(f, B) /\ Summed(f, A) \in Nat /\ Summed(f, B) \in Nat
    <3>1. /\ \A x \in A \cup B : f[x] \in Int
          /\ \A x \in A : f[x] \in Nat
          /\ \A x \in B : f[x] \in Nat
      BY <2>1
    <3> QED
      BY <2>1, <3>1, SummedUnion, SummedNat
  <2> QED
    BY <2>1, <2>2 DEF A
<1>8. ASSUME NEW i \in P, NEW j \in P, i < j, g[i] > 0
      PROVE  g[j] = f[j]
  <2>1. S(j) >= f[i] + S(i) /\ S(i) \in Nat /\ S(j) \in Nat /\ f[i] \in Nat
    BY <1>2, <1>6, <1>7, <1>8
  <2> HIDE DEF S
  <2>2. S(j) >= t
    BY <1>3, <1>8, <2>1
  <2> QED
    BY <1>3, <2>1, <2>2
<1>9. \A i \in Nat : G(i) = IF S(i) <= t THEN 0 ELSE S(i) - t
  <2> DEFINE H == {i \in Nat : G(i) = IF S(i) <= t THEN 0 ELSE S(i) - t}
  <2>1. 0 \in H
    <3>1. Lower(P, 0) = {}
      BY LowerIs
    <3>2. G(0) = 0 /\ S(0) = 0
      BY <3>1, SummedEmpty
    <3> QED
      BY <3>2
  <2>2. ASSUME NEW i \in Nat, i \in H
        PROVE  i + 1 \in H
    <3>1. CASE i \in P
      <4>1. S(i + 1) = f[i] + S(i) /\ G(i + 1) = g[i] + G(i) /\ S(i) \in Nat /\ f[i] \in Nat
        BY <1>2, <1>6, <3>1
      <4>2. G(i) = IF S(i) <= t THEN 0 ELSE S(i) - t
        BY <2>2
      <4>3. g[i] = IF S(i) < t THEN IF f[i] >= t - S(i) THEN f[i] - (t - S(i)) ELSE 0 ELSE f[i]
        BY <1>3, <3>1
      <4> HIDE DEF S, G
      <4>4. G(i + 1) = IF S(i + 1) <= t THEN 0 ELSE S(i + 1) - t
        BY <4>1, <4>2, <4>3
      <4> QED
        BY <4>4
    <3>2. CASE i \notin P
      BY <1>4, <2>2, <3>2
    <3> QED
      BY <3>1, <3>2
  <2>3. Nat \subseteq H
    <3> HIDE DEF H
    <3> QED
      BY <2>1, <2>2, UpwardInduction
  <2> QED
    BY <2>3
<1>10. t <= Summed(f, P) => Summed(g, P) = Summed(f, P) - t
  <2>1. Lower(P, n + 1) = P
    BY LowerIs
  <2>2. G(n + 1) = IF S(n + 1) <= t THEN 0 ELSE S(n + 1) - t
    BY <1>9
  <2>3. S(n + 1) \in Nat
    BY <1>2
  <2> QED
    BY <2>1, <2>2, <2>3
<1> QED
  BY <1>5, <1>8, <1>10 DEF TakenFrom
===============================================================================
