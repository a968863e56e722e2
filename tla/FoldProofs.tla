----------------------------- MODULE FoldProofs -----------------------------
(***************************************************************************)
(* What the folds of the model compute: sums over finite sets and the      *)
(* order of a listing.  The balance of a wallet, the total of a view and   *)
(* the size of a counter are sums; they are shown here to be independent   *)
(* of the order in which a fold takes the elements, and to split and join  *)
(* as sums do.  The arguments are inductions over the subsets of a finite  *)
(* set, stated of a family of sets, as no prover instantiates a predicate. *)
(***************************************************************************)
EXTENDS Ordering, Functions, FunctionTheorems, FiniteSetTheorems, SequenceTheorems, TLAPS

(* A family of sets that holds a set whenever it holds all smaller ones    *)
(* holds every subset of S.                                                *)
LEMMA SetInduction ==
  ASSUME NEW S, IsFiniteSet(S), NEW G,
         \A T \in SUBSET S : (\A U \in SUBSET T : U # T => U \in G) => T \in G
  PROVE  \A T \in SUBSET S : T \in G
<1> DEFINE Bad == {T \in SUBSET S : T \notin G}
<1>1. SUFFICES ASSUME Bad # {} PROVE FALSE
  OBVIOUS
<1>2. IsWellFoundedOn(StrictSubsetOrdering(S), SUBSET S)
  BY FS_StrictSubsetOrderingWellFounded, FS_FiniteSubsetsOfFinite
<1>3. Bad \subseteq SUBSET S
  OBVIOUS
<1>4. PICK T \in Bad : \A U \in Bad : ~(<<U, T>> \in StrictSubsetOrdering(S))
  <2> HIDE DEF Bad
  <2> QED BY <1>1, <1>2, <1>3, WFMin
<1>5. T \in SUBSET S /\ T \notin G
  OBVIOUS
<1>6. ASSUME NEW U \in SUBSET T, U # T PROVE U \in G
  <2>1. <<U, T>> \in StrictSubsetOrdering(S)
    <3>1. <<U, T>> \in (SUBSET S) \X (SUBSET S)
      BY <1>5
    <3> QED BY <3>1, <1>6 DEF StrictSubsetOrdering
  <2> QED BY <2>1, <1>4, <1>5
<1> QED BY <1>5, <1>6

(* The same one element at a time, which is how the sums below are taken.  *)
LEMMA SetInductionByElement ==
  ASSUME NEW S, IsFiniteSet(S), NEW G, {} \in G,
         \A T \in SUBSET S : \A x \in T : T \ {x} \in G => T \in G
  PROVE  S \in G
<1>1. ASSUME NEW T \in SUBSET S, \A U \in SUBSET T : U # T => U \in G
      PROVE  T \in G
  <2>1. CASE T = {}
    BY <2>1
  <2>2. CASE T # {}
    <3>1. PICK x \in T : TRUE
      BY <2>2
    <3>2. T \ {x} \in SUBSET T /\ T \ {x} # T
      OBVIOUS
    <3> QED BY <3>2, <1>1
  <2> QED BY <2>1, <2>2
<1>2. S \in SUBSET S
  OBVIOUS
<1>3. \A T \in SUBSET S : (\A U \in SUBSET T : U # T => U \in G) => T \in G
  BY <1>1
<1>4. \A T \in SUBSET S : T \in G
  BY <1>3, SetInduction
<1> QED BY <1>2, <1>4

(* Finitely many numbers have a largest one and a smallest one.            *)
LEMMA LargestAndSmallest ==
  ASSUME NEW S, IsFiniteSet(S), S # {}, \A x \in S : x \in Int
  PROVE  /\ \E x \in S : \A y \in S : x >= y
         /\ \E x \in S : \A y \in S : x <= y
<1> DEFINE Bounded(T) == T # {} => /\ \E x \in T : \A y \in T : x >= y
                                   /\ \E x \in T : \A y \in T : x <= y
           G == {T \in SUBSET S : Bounded(T)}
<1>1. {} \in G
  OBVIOUS
<1>2. ASSUME NEW T \in SUBSET S, NEW z \in T, T \ {z} \in G
      PROVE  T \in G
  <2>1. CASE T \ {z} = {}
    <3>1. \A y \in T : y = z
      BY <2>1
    <3> QED BY <3>1
  <2>2. CASE T \ {z} # {}
    <3>1. PICK x \in T \ {z} : \A y \in T \ {z} : x >= y
      BY <1>2, <2>2
    <3>2. PICK w \in T \ {z} : \A y \in T \ {z} : w <= y
      BY <1>2, <2>2
    <3>3. \E u \in T : \A y \in T : u >= y
      <4>1. CASE x >= z
        BY <3>1, <4>1
      <4>2. CASE z >= x
        BY <3>1, <4>2
      <4> QED BY <4>1, <4>2
    <3>4. \E u \in T : \A y \in T : u <= y
      <4>1. CASE w <= z
        BY <3>2, <4>1
      <4>2. CASE z <= w
        BY <3>2, <4>2
      <4> QED BY <4>1, <4>2
    <3> QED BY <3>3, <3>4
  <2> QED BY <2>1, <2>2
<1>3. S \in G
  <2> HIDE DEF G
  <2> QED BY <1>1, <1>2, SetInductionByElement
<1> QED BY <1>3

(* The element a fold takes next. *)
Chosen(s) == CHOOSE x \in s : TRUE

(* What the fold of a sum does. *)
SumStep(f, it, s) == IF s = {} THEN 0 ELSE f[Chosen(s)] + it[s \ {Chosen(s)}]
SumsUp(f, it, S) == it = [s \in SUBSET S |-> SumStep(f, it, s)]
Sums(f, S) == CHOOSE it : SumsUp(f, it, S)

(* What a fold takes next is an element.                                   *)
LEMMA ChosenIn == ASSUME NEW s, s # {} PROVE Chosen(s) \in s
BY DEF Chosen

(* SumFunctionOnSet is a recursive function over the subsets of S.         *)
LEMMA SumUnfolds ==
  ASSUME NEW f, NEW S PROVE SumFunctionOnSet(f, S) = Sums(f, S)[S]
BY Zenon DEF SumFunctionOnSet, FoldFunctionOnSet, MapThenFoldSet, Sums, SumsUp, SumStep, Chosen

(* That function exists, and does not depend on the set it was asked for.  *)
LEMMA SumsExist ==
  ASSUME NEW f, NEW S, IsFiniteSet(S)
  PROVE  \A T \in SUBSET S :
           /\ SumsUp(f, Sums(f, T), T)
           /\ \A U \in SUBSET T : Sums(f, T)[U] = Sums(f, U)[U]
<1> DEFINE V(T) == Sums(f, T)[T]
           P(T) == SumsUp(f, Sums(f, T), T) /\ \A U \in SUBSET T : Sums(f, T)[U] = V(U)
           G == {T \in SUBSET S : P(T)}
<1>1. ASSUME NEW T \in SUBSET S, \A U \in SUBSET T : U # T => U \in G
      PROVE  T \in G
  <2>1. ASSUME NEW s \in SUBSET T, s # T
        PROVE  V(s) = IF s = {} THEN 0 ELSE f[Chosen(s)] + V(s \ {Chosen(s)})
    <3>1. SumsUp(f, Sums(f, s), s) /\ \A U \in SUBSET s : Sums(f, s)[U] = V(U)
      BY <1>1, <2>1
    <3>2. V(s) = SumStep(f, Sums(f, s), s)
      <4>1. s \in SUBSET s
        OBVIOUS
      <4> QED BY <3>1, <4>1 DEF SumsUp
    <3>3. CASE s = {}
      BY <3>2, <3>3 DEF SumStep
    <3>4. CASE s # {}
      <4>1. s \ {Chosen(s)} \in SUBSET s
        OBVIOUS
      <4> HIDE DEF V
      <4> QED BY <3>1, <3>2, <3>4, <4>1 DEF SumStep
    <3> QED BY <3>3, <3>4
  <2> HIDE DEF V
  <2> DEFINE VT == IF T = {} THEN 0 ELSE f[Chosen(T)] + V(T \ {Chosen(T)})
             it == [s \in SUBSET T |-> IF s = T THEN VT ELSE V(s)]
  <2>2. \E i : SumsUp(f, i, T)
    <3>1. ASSUME NEW s \in SUBSET T PROVE it[s] = SumStep(f, it, s)
      <4>1. CASE s = {}
        BY <2>1, <4>1 DEF SumStep
      <4>2. CASE s # {}
        <5>1. s \ {Chosen(s)} \in SUBSET T /\ s \ {Chosen(s)} # T
          BY <4>2, ChosenIn
        <5>2. it[s \ {Chosen(s)}] = V(s \ {Chosen(s)})
          BY <5>1
        <5>3. it[s] = f[Chosen(s)] + V(s \ {Chosen(s)})
          BY <2>1, <4>2
        <5> HIDE DEF it
        <5> QED BY <4>2, <5>2, <5>3 DEF SumStep
      <4> QED BY <4>1, <4>2
    <3>2. it = [s \in SUBSET T |-> it[s]]
      OBVIOUS
    <3> HIDE DEF it
    <3>3. SumsUp(f, it, T)
      BY <3>1, <3>2 DEF SumsUp
    <3> QED BY <3>3
  <2>3. SumsUp(f, Sums(f, T), T)
    BY <2>2 DEF Sums
  <2> DEFINE H == {U \in SUBSET T : Sums(f, T)[U] = V(U)}
  <2>4. ASSUME NEW U \in SUBSET T, \A W \in SUBSET U : W # U => W \in H
        PROVE  U \in H
    <3>1. CASE U = T
      BY <3>1 DEF V
    <3>2. CASE U # T
      <4>1. Sums(f, T)[U] = SumStep(f, Sums(f, T), U)
        BY <2>3 DEF SumsUp
      <4>2. CASE U = {}
        BY <4>1, <4>2, <3>2, <2>1 DEF SumStep
      <4>3. CASE U # {}
        <5>1. U \ {Chosen(U)} \in SUBSET U /\ U \ {Chosen(U)} # U
          BY <4>3, ChosenIn
        <5>2. Sums(f, T)[U \ {Chosen(U)}] = V(U \ {Chosen(U)})
          BY <5>1, <2>4
        <5> QED BY <5>2, <4>1, <4>3, <3>2, <2>1 DEF SumStep
      <4> QED BY <4>2, <4>3
    <3> QED BY <3>1, <3>2
  <2>5. IsFiniteSet(T)
    BY FS_Subset
  <2>6. \A U \in SUBSET T : U \in H
    <3> HIDE DEF H
    <3> QED BY <2>4, <2>5, SetInduction
  <2> QED BY <2>3, <2>6
<1>2. \A T \in SUBSET S : T \in G
  <2> HIDE DEF G
  <2> QED BY <1>1, SetInduction
<1> QED BY <1>2

(* The equation the library defines a sum by.                              *)
LEMMA SumDef ==
  ASSUME NEW f, NEW S, IsFiniteSet(S)
  PROVE  SumFunctionOnSet(f, S) =
           IF S = {} THEN 0 ELSE f[Chosen(S)] + SumFunctionOnSet(f, S \ {Chosen(S)})
<1>1. SumsUp(f, Sums(f, S), S) /\ \A U \in SUBSET S : Sums(f, S)[U] = Sums(f, U)[U]
  BY SumsExist
<1>2. S \in SUBSET S /\ S \ {Chosen(S)} \in SUBSET S
  OBVIOUS
<1>3. Sums(f, S)[S] = SumStep(f, Sums(f, S), S)
  BY <1>1, <1>2 DEF SumsUp
<1> QED BY <1>1, <1>2, <1>3, SumUnfolds DEF SumStep

(* No terms sum to 0.                                                      *)
LEMMA SumEmpty ==
  ASSUME NEW f PROVE SumFunctionOnSet(f, {}) = 0
BY SumDef, FS_EmptySet

(* A sum of integers is an integer.                                        *)
LEMMA SumInt ==
  ASSUME NEW S, IsFiniteSet(S), NEW f, \A x \in S : f[x] \in Int
  PROVE  SumFunctionOnSet(f, S) \in Int
<1> DEFINE G == {T \in SUBSET S : SumFunctionOnSet(f, T) \in Int}
<1>1. ASSUME NEW T \in SUBSET S, \A U \in SUBSET T : U # T => U \in G
      PROVE  T \in G
  <2>1. IsFiniteSet(T)
    BY FS_Subset
  <2>2. CASE T = {}
    BY <2>2, SumEmpty
  <2>3. CASE T # {}
    <3>1. Chosen(T) \in T
      BY <2>3, ChosenIn
    <3>2. SumFunctionOnSet(f, T \ {Chosen(T)}) \in Int
      BY <1>1, <3>1
    <3> QED BY <2>1, <2>3, <3>1, <3>2, SumDef
  <2> QED BY <2>2, <2>3
<1>2. \A T \in SUBSET S : T \in G
  <2> HIDE DEF G
  <2> QED BY <1>1, SetInduction
<1> QED BY <1>2

(* Any term may be taken out, not only the one that the fold takes first.  *)
LEMMA SumRemove ==
  ASSUME NEW S, IsFiniteSet(S), NEW f, \A x \in S : f[x] \in Int, NEW x \in S
  PROVE  SumFunctionOnSet(f, S) = f[x] + SumFunctionOnSet(f, S \ {x})
<1> DEFINE Splits(T, y) == SumFunctionOnSet(f, T) = f[y] + SumFunctionOnSet(f, T \ {y})
           G == {T \in SUBSET S : \A y \in T : Splits(T, y)}
<1>1. ASSUME NEW T \in SUBSET S, \A U \in SUBSET T : U # T => U \in G, NEW y \in T
      PROVE  Splits(T, y)
  <2> DEFINE a == Chosen(T)
  <2>1. IsFiniteSet(T)
    BY FS_Subset
  <2>2. a \in T
    BY ChosenIn
  <2>3. Splits(T, a)
    BY <2>1, SumDef
  <2>4. CASE y = a
    BY <2>3, <2>4
  <2>5. CASE y # a
    <3> HIDE DEF a
    <3>1. Splits(T \ {a}, y)
      BY <1>1, <2>2, <2>5
    <3>2. Splits(T \ {y}, a)
      BY <1>1, <2>2, <2>5
    <3>3. SumFunctionOnSet(f, (T \ {a}) \ {y}) = SumFunctionOnSet(f, (T \ {y}) \ {a})
      <4>1. (T \ {a}) \ {y} = (T \ {y}) \ {a}
        OBVIOUS
      <4> QED BY ONLY <4>1, Zenon
    <3>4. IsFiniteSet((T \ {y}) \ {a}) /\ f[y] \in Int /\ f[a] \in Int
      BY <2>1, <2>2, FS_Subset
    <3>5. SumFunctionOnSet(f, (T \ {y}) \ {a}) \in Int
      BY <3>4, SumInt
    <3> DEFINE rest == SumFunctionOnSet(f, (T \ {y}) \ {a})
    <3>6. SumFunctionOnSet(f, T) = f[a] + (f[y] + rest)
      BY <2>3, <3>1, <3>3
    <3>7. SumFunctionOnSet(f, T \ {y}) = f[a] + rest
      BY <3>2
    <3>8. rest \in Int
      BY <3>5
    <3> HIDE DEF rest
    <3> QED BY <3>4, <3>6, <3>7, <3>8
  <2> QED BY <2>4, <2>5
<1>2. ASSUME NEW T \in SUBSET S, \A U \in SUBSET T : U # T => U \in G
      PROVE  T \in G
  <2> HIDE DEF Splits
  <2> QED BY <1>1, <1>2
<1>3. \A T \in SUBSET S : T \in G
  <2> HIDE DEF G
  <2> QED BY <1>2, SetInduction
<1> QED BY <1>3

(* A sum depends on its terms only.                                        *)
LEMMA SumAgree ==
  ASSUME NEW S, IsFiniteSet(S), NEW f, NEW g, \A x \in S : f[x] = g[x]
  PROVE  SumFunctionOnSet(f, S) = SumFunctionOnSet(g, S)
<1> DEFINE G == {T \in SUBSET S : SumFunctionOnSet(f, T) = SumFunctionOnSet(g, T)}
<1>1. ASSUME NEW T \in SUBSET S, \A U \in SUBSET T : U # T => U \in G
      PROVE  T \in G
  <2>1. IsFiniteSet(T)
    BY FS_Subset
  <2>2. CASE T = {}
    BY <2>2, SumEmpty
  <2>3. CASE T # {}
    <3>1. Chosen(T) \in T
      BY <2>3, ChosenIn
    <3>2. SumFunctionOnSet(f, T \ {Chosen(T)}) = SumFunctionOnSet(g, T \ {Chosen(T)})
      BY <1>1, <3>1
    <3> QED BY <2>1, <2>3, <3>1, <3>2, SumDef
  <2> QED BY <2>2, <2>3
<1>2. \A T \in SUBSET S : T \in G
  <2> HIDE DEF G
  <2> QED BY <1>1, SetInduction
<1> QED BY <1>2

(* The sum of sums.                                                        *)
LEMMA SumAdds ==
  ASSUME NEW S, IsFiniteSet(S), NEW f, NEW g, NEW h,
         \A x \in S : f[x] \in Int /\ g[x] \in Int /\ h[x] = f[x] + g[x]
  PROVE  SumFunctionOnSet(h, S) = SumFunctionOnSet(f, S) + SumFunctionOnSet(g, S)
<1> DEFINE Adds(T) == SumFunctionOnSet(h, T) = SumFunctionOnSet(f, T) + SumFunctionOnSet(g, T)
           G == {T \in SUBSET S : Adds(T)}
<1>1. {} \in G
  BY SumEmpty
<1>2. ASSUME NEW T \in SUBSET S, NEW x \in T, T \ {x} \in G
      PROVE  T \in G
  <2>1. IsFiniteSet(T) /\ IsFiniteSet(T \ {x})
    BY FS_Subset
  <2>2. /\ SumFunctionOnSet(f, T) = f[x] + SumFunctionOnSet(f, T \ {x})
        /\ SumFunctionOnSet(g, T) = g[x] + SumFunctionOnSet(g, T \ {x})
        /\ SumFunctionOnSet(h, T) = h[x] + SumFunctionOnSet(h, T \ {x})
    BY <2>1, SumRemove
  <2>3. SumFunctionOnSet(f, T \ {x}) \in Int /\ SumFunctionOnSet(g, T \ {x}) \in Int
    BY <2>1, SumInt
  <2> QED BY <1>2, <2>2, <2>3
<1>3. S \in G
  <2> HIDE DEF G
  <2> QED BY <1>1, <1>2, SetInductionByElement
<1> QED BY <1>3

(* Larger terms, larger sum.                                               *)
LEMMA SumMonotone ==
  ASSUME NEW S, IsFiniteSet(S), NEW f, NEW g,
         \A x \in S : f[x] \in Int /\ g[x] \in Int /\ f[x] <= g[x]
  PROVE  SumFunctionOnSet(f, S) <= SumFunctionOnSet(g, S)
<1> DEFINE Le(T) == SumFunctionOnSet(f, T) <= SumFunctionOnSet(g, T)
           G == {T \in SUBSET S : Le(T)}
<1>1. {} \in G
  BY SumEmpty
<1>2. ASSUME NEW T \in SUBSET S, NEW x \in T, T \ {x} \in G
      PROVE  T \in G
  <2>1. IsFiniteSet(T) /\ IsFiniteSet(T \ {x})
    BY FS_Subset
  <2>2. /\ SumFunctionOnSet(f, T) = f[x] + SumFunctionOnSet(f, T \ {x})
        /\ SumFunctionOnSet(g, T) = g[x] + SumFunctionOnSet(g, T \ {x})
    BY <2>1, SumRemove
  <2>3. SumFunctionOnSet(f, T \ {x}) \in Int /\ SumFunctionOnSet(g, T \ {x}) \in Int
    BY <2>1, SumInt
  <2> QED BY <1>2, <2>2, <2>3
<1>3. S \in G
  <2> HIDE DEF G
  <2> QED BY <1>1, <1>2, SetInductionByElement
<1> QED BY <1>3

(* Zeros sum to 0.                                                         *)
LEMMA SumZero ==
  ASSUME NEW S, IsFiniteSet(S), NEW f, \A x \in S : f[x] = 0
  PROVE  SumFunctionOnSet(f, S) = 0
<1> DEFINE G == {T \in SUBSET S : SumFunctionOnSet(f, T) = 0}
<1>1. {} \in G
  BY SumEmpty
<1>2. ASSUME NEW T \in SUBSET S, NEW x \in T, T \ {x} \in G
      PROVE  T \in G
  <2>1. IsFiniteSet(T)
    BY FS_Subset
  <2>2. SumFunctionOnSet(f, T) = f[x] + SumFunctionOnSet(f, T \ {x})
    BY <2>1, SumRemove
  <2> QED BY <1>2, <2>2
<1>3. S \in G
  <2> HIDE DEF G
  <2> QED BY <1>1, <1>2, SetInductionByElement
<1> QED BY <1>3

(* Opposite terms, opposite sum.                                           *)
LEMMA SumNegates ==
  ASSUME NEW S, IsFiniteSet(S), NEW f, NEW g,
         \A x \in S : f[x] \in Int /\ g[x] = -f[x]
  PROVE  SumFunctionOnSet(g, S) = -SumFunctionOnSet(f, S)
<1> DEFINE z == [x \in S |-> 0]
<1>1. \A x \in S : f[x] \in Int /\ g[x] \in Int /\ z[x] = f[x] + g[x]
  OBVIOUS
<1>2. SumFunctionOnSet(z, S) = 0
  BY SumZero
<1>3. SumFunctionOnSet(f, S) \in Int /\ SumFunctionOnSet(g, S) \in Int
  BY <1>1, SumInt
<1>4. SumFunctionOnSet(z, S) = SumFunctionOnSet(f, S) + SumFunctionOnSet(g, S)
  <2> HIDE DEF z
  <2> QED BY <1>1, SumAdds
<1> QED BY <1>2, <1>3, <1>4

(* The difference of sums.                                                 *)
LEMMA SumSubtracts ==
  ASSUME NEW S, IsFiniteSet(S), NEW f, NEW g, NEW h,
         \A x \in S : f[x] \in Int /\ g[x] \in Int /\ h[x] = f[x] - g[x]
  PROVE  SumFunctionOnSet(h, S) = SumFunctionOnSet(f, S) - SumFunctionOnSet(g, S)
<1>1. \A x \in S : h[x] \in Int /\ g[x] \in Int /\ f[x] = h[x] + g[x]
  OBVIOUS
<1>2. SumFunctionOnSet(f, S) = SumFunctionOnSet(h, S) + SumFunctionOnSet(g, S)
  BY <1>1, SumAdds
<1>3. SumFunctionOnSet(h, S) \in Int /\ SumFunctionOnSet(g, S) \in Int
  BY <1>1, SumInt
<1> QED BY <1>2, <1>3

(* Terms that are C/2 apart at most have sums that are as many times C/2   *)
(* apart at most as there are terms.                                       *)
LEMMA SumNear ==
  ASSUME NEW S, IsFiniteSet(S), NEW f, NEW g, NEW C \in Nat,
         \A x \in S : /\ f[x] \in Int /\ g[x] \in Int
                      /\ -C <= 2 * (f[x] - g[x]) /\ 2 * (f[x] - g[x]) <= C
  PROVE  LET d == 2 * (SumFunctionOnSet(f, S) - SumFunctionOnSet(g, S))
             n == Cardinality(S)
         IN  n \in Nat /\ -(n * C) <= d /\ d <= n * C
<1> DEFINE Apart(T) == 2 * (SumFunctionOnSet(f, T) - SumFunctionOnSet(g, T))
           Close(T) == /\ -(Cardinality(T) * C) <= Apart(T)
                       /\ Apart(T) <= Cardinality(T) * C
           G == {T \in SUBSET S : Close(T)}
<1>1. {} \in G
  BY SumEmpty, FS_EmptySet
<1>2. ASSUME NEW T \in SUBSET S, NEW x \in T, T \ {x} \in G
      PROVE  T \in G
  <2>1. IsFiniteSet(T) /\ IsFiniteSet(T \ {x})
    BY FS_Subset
  <2>2. /\ SumFunctionOnSet(f, T) = f[x] + SumFunctionOnSet(f, T \ {x})
        /\ SumFunctionOnSet(g, T) = g[x] + SumFunctionOnSet(g, T \ {x})
    BY <2>1, SumRemove
  <2>3. SumFunctionOnSet(f, T \ {x}) \in Int /\ SumFunctionOnSet(g, T \ {x}) \in Int
    BY <2>1, SumInt
  <2>4. Cardinality(T) \in Nat /\ Cardinality(T \ {x}) = Cardinality(T) - 1
    BY <2>1, FS_CardinalityType, FS_RemoveElement
  <2> DEFINE n == Cardinality(T)
  <2>5. (n - 1) * C = n * C - C /\ n * C \in Int
    BY <2>4
  <2>6. /\ -((n - 1) * C) <= Apart(T \ {x}) /\ Apart(T \ {x}) <= (n - 1) * C
    BY <1>2, <2>4
  <2>7. Apart(T) = 2 * (f[x] - g[x]) + Apart(T \ {x}) /\ Apart(T \ {x}) \in Int
    BY <2>2, <2>3
  <2>8. Close(T)
    <3> DEFINE nc == n * C
               a == Apart(T \ {x})
               e == 2 * (f[x] - g[x])
    <3>1. nc \in Int /\ a \in Int /\ e \in Int /\ -C <= e /\ e <= C
      BY <2>5, <2>7
    <3>2. -(nc - C) <= a /\ a <= nc - C
      BY <2>5, <2>6
    <3>3. Apart(T) = e + a
      BY <2>7
    <3> HIDE DEF nc, a, e
    <3>4. -nc <= e + a /\ e + a <= nc
      BY <3>1, <3>2
    <3> HIDE DEF Apart
    <3> QED BY <3>3, <3>4 DEF nc
  <2> QED BY <2>8
<1>3. S \in G
  <2> HIDE DEF G
  <2> QED BY <1>1, <1>2, SetInductionByElement
<1> QED BY <1>3, FS_CardinalityType

(* What is counted in two parts is counted once.                           *)
LEMMA SumUnion ==
  ASSUME NEW S, IsFiniteSet(S), NEW R, IsFiniteSet(R), R \cap S = {}, NEW f,
         \A x \in R \cup S : f[x] \in Int
  PROVE  SumFunctionOnSet(f, R \cup S) = SumFunctionOnSet(f, R) + SumFunctionOnSet(f, S)
<1> DEFINE Adds(T) == SumFunctionOnSet(f, R \cup T) = SumFunctionOnSet(f, R) + SumFunctionOnSet(f, T)
           G == {T \in SUBSET S : Adds(T)}
<1>1. SumFunctionOnSet(f, R) \in Int
  BY SumInt
<1>2. {} \in G
  <2>1. R \cup {} = R
    OBVIOUS
  <2> QED BY <1>1, <2>1, SumEmpty
<1>3. ASSUME NEW T \in SUBSET S, NEW x \in T, T \ {x} \in G
      PROVE  T \in G
  <2>1. IsFiniteSet(T) /\ IsFiniteSet(T \ {x}) /\ IsFiniteSet(R \cup T)
    BY FS_Subset, FS_Union
  <2>2. (R \cup T) \ {x} = R \cup (T \ {x})
    BY x \notin R
  <2>3. /\ SumFunctionOnSet(f, T) = f[x] + SumFunctionOnSet(f, T \ {x})
        /\ SumFunctionOnSet(f, R \cup T) = f[x] + SumFunctionOnSet(f, R \cup (T \ {x}))
    BY <2>1, <2>2, SumRemove
  <2>4. SumFunctionOnSet(f, T \ {x}) \in Int
    BY <2>1, SumInt
  <2> QED BY <1>1, <1>3, <2>3, <2>4
<1>4. S \in G
  <2> HIDE DEF G
  <2> QED BY <1>2, <1>3, SetInductionByElement
<1> QED BY <1>4

(* Rows may be summed group by group.                                      *)
LEMMA SumGroups ==
  ASSUME NEW S, IsFiniteSet(S), NEW f, \A x \in S : f[x] \in Int,
         NEW K, IsFiniteSet(K), NEW key, \A x \in S : key[x] \in K
  PROVE  SumFunctionOnSet([k \in K |-> SumFunctionOnSet(f, {x \in S : key[x] = k})], K)
           = SumFunctionOnSet(f, S)
<1> DEFINE Group(T, k) == {x \in T : key[x] = k}
           Groups(T) == [k \in K |-> SumFunctionOnSet(f, Group(T, k))]
           Same(T) == SumFunctionOnSet(Groups(T), K) = SumFunctionOnSet(f, T)
           G == {T \in SUBSET S : Same(T)}
<1>1. {} \in G
  <2>1. \A k \in K : Groups({})[k] = 0
    BY SumEmpty, \A k : Group({}, k) = {}
  <2> HIDE DEF Groups
  <2> QED BY <2>1, SumZero, SumEmpty
<1>2. ASSUME NEW T \in SUBSET S, NEW x \in T, T \ {x} \in G
      PROVE  T \in G
  <2> DEFINE delta == [k \in K |-> IF k = key[x] THEN f[x] ELSE 0]
  <2>1. \A k : IsFiniteSet(Group(T, k)) /\ IsFiniteSet(Group(T \ {x}, k))
    BY FS_Subset
  <2>2. IsFiniteSet(T) /\ f[x] \in Int /\ key[x] \in K
    BY FS_Subset
  <2>3. ASSUME NEW k \in K
        PROVE  Groups(T \ {x})[k] \in Int /\ delta[k] \in Int /\ Groups(T)[k] = Groups(T \ {x})[k] + delta[k]
    <3>1. SumFunctionOnSet(f, Group(T \ {x}, k)) \in Int
      BY <2>1, SumInt
    <3>2. CASE k = key[x]
      <4>1. x \in Group(T, k) /\ Group(T, k) \ {x} = Group(T \ {x}, k)
        BY <3>2
      <4>2. SumFunctionOnSet(f, Group(T, k)) = f[x] + SumFunctionOnSet(f, Group(T \ {x}, k))
        <5>1. \A y \in Group(T, k) : f[y] \in Int
          OBVIOUS
        <5> HIDE DEF Group
        <5>2. SumFunctionOnSet(f, Group(T, k)) = f[x] + SumFunctionOnSet(f, Group(T, k) \ {x})
          BY <2>1, <4>1, <5>1, SumRemove
        <5> QED BY <4>1, <5>2, Zenon
      <4>3. delta[k] = f[x]
        BY <3>2
      <4> HIDE DEF delta, Group
      <4> QED BY <2>2, <3>1, <4>2, <4>3
    <3>3. CASE k # key[x]
      <4>1. Group(T, k) = Group(T \ {x}, k)
        BY <3>3
      <4> QED BY <3>1, <3>3, <4>1
    <3> QED BY <3>2, <3>3
  <2>4. SumFunctionOnSet(Groups(T), K) = SumFunctionOnSet(Groups(T \ {x}), K) + SumFunctionOnSet(delta, K)
    <3> HIDE DEF Groups, delta
    <3> QED BY <2>3, SumAdds
  <2>5. SumFunctionOnSet(delta, K) = f[x]
    <3>1. SumFunctionOnSet(delta, K) = f[x] + SumFunctionOnSet(delta, K \ {key[x]})
      <4>1. \A k \in K : delta[k] \in Int
        BY <2>2
      <4>2. delta[key[x]] = f[x]
        BY <2>2
      <4> HIDE DEF delta
      <4> QED BY <2>2, <4>1, <4>2, SumRemove
    <3>2. SumFunctionOnSet(delta, K \ {key[x]}) = 0
      <4>1. IsFiniteSet(K \ {key[x]}) /\ \A k \in K \ {key[x]} : delta[k] = 0
        BY FS_RemoveElement
      <4> HIDE DEF delta
      <4> QED BY <4>1, SumZero
    <3> QED BY <2>2, <3>1, <3>2
  <2>6. SumFunctionOnSet(f, T) = f[x] + SumFunctionOnSet(f, T \ {x})
    BY <2>2, SumRemove
  <2>7. SumFunctionOnSet(f, T \ {x}) \in Int
    BY FS_RemoveElement, <2>2, SumInt
  <2>8. Same(T \ {x})
    BY <1>2
  <2> HIDE DEF Groups, delta
  <2> QED BY <2>2, <2>4, <2>5, <2>6, <2>7, <2>8
<1>3. S \in G
  <2> HIDE DEF G
  <2> QED BY <1>1, <1>2, SetInductionByElement
<1> QED BY <1>3

(* The groups are finitely many, and the sums of all groups sum to all.    *)
LEMMA GroupsAddUp ==
  ASSUME NEW S, IsFiniteSet(S), NEW f, \A x \in S : f[x] \in Int, NEW key,
         NEW K, \A x \in S : key[x] \in K, \A k \in K : \E x \in S : key[x] = k
  PROVE  /\ IsFiniteSet(K)
         /\ \A k \in K : SumFunctionOnSet(f, {x \in S : key[x] = k}) \in Int
         /\ SumFunctionOnSet([k \in K |-> SumFunctionOnSet(f, {x \in S : key[x] = k})], K)
              = SumFunctionOnSet(f, S)
<1> DEFINE name == [x \in S |-> key[x]]
<1>1. name \in [S -> K] /\ K = Range(name) /\ \A x \in S : name[x] = key[x]
  BY DEF Range
<1> HIDE DEF name
<1>2. IsFiniteSet(K)
  <2>1. name \in Surjection(S, Range(name))
    BY <1>1, Fun_RangeProperties
  <2> QED BY <1>1, <2>1, FS_Surjection
<1>3. ASSUME NEW k \in K PROVE SumFunctionOnSet(f, {x \in S : key[x] = k}) \in Int
  <2>1. IsFiniteSet({x \in S : key[x] = k})
    BY FS_Subset
  <2> QED BY <2>1, SumInt
<1>4. SumFunctionOnSet([k \in K |-> SumFunctionOnSet(f, {x \in S : key[x] = k})], K)
        = SumFunctionOnSet(f, S)
  BY <1>1, <1>2, SumGroups
<1> QED BY <1>2, <1>3, <1>4

(* Terms may be counted under other names.                                 *)
LEMMA SumReindexed ==
  ASSUME NEW S, IsFiniteSet(S), NEW T, IsFiniteSet(T), NEW f, NEW g, NEW b,
         \A x \in S : b[x] \in T /\ f[x] \in Int /\ f[x] = g[b[x]],
         \A x, y \in S : b[x] = b[y] => x = y,
         \A z \in T : \E x \in S : b[x] = z
  PROVE  SumFunctionOnSet(f, S) = SumFunctionOnSet(g, T)
<1>1. SumFunctionOnSet([z \in T |-> SumFunctionOnSet(f, {x \in S : b[x] = z})], T)
        = SumFunctionOnSet(f, S)
  BY SumGroups
<1>2. ASSUME NEW z \in T
      PROVE  SumFunctionOnSet(f, {x \in S : b[x] = z}) = g[z]
  <2>1. PICK x \in S : b[x] = z
    OBVIOUS
  <2>2. {y \in S : b[y] = z} = {x}
    BY <2>1
  <2>3. SumFunctionOnSet(f, {x}) = f[x] + SumFunctionOnSet(f, {x} \ {x})
    BY FS_Singleton, SumRemove
  <2>4. {x} \ {x} = {}
    OBVIOUS
  <2>5. SumFunctionOnSet(f, {x}) = f[x]
    BY <2>3, <2>4, SumEmpty
  <2> QED BY <2>1, <2>2, <2>5, Zenon
<1> DEFINE h == [z \in T |-> SumFunctionOnSet(f, {x \in S : b[x] = z})]
<1>3. \A z \in T : h[z] = g[z]
  BY <1>2
<1>4. SumFunctionOnSet(h, T) = SumFunctionOnSet(g, T)
  <2> HIDE DEF h
  <2> QED BY <1>3, SumAgree
<1> QED BY <1>1, <1>4

(* Terms may be counted from 1.                                            *)
LEMMA SumShifted ==
  ASSUME NEW l \in Int, NEW h \in Int, NEW f, NEW g,
         \A i \in 1..(h - l + 1) : f[i] \in Int /\ f[i] = g[l + i - 1]
  PROVE  SumFunctionOnSet(f, 1..(h - l + 1)) = SumFunctionOnSet(g, l..h)
<1> DEFINE I == 1..(h - l + 1)
           Z == l..h
           b == [i \in I |-> l + i - 1]
<1>1. /\ IsFiniteSet(I) /\ IsFiniteSet(Z)
      /\ \A i \in I : b[i] \in Z /\ f[i] \in Int /\ f[i] = g[b[i]]
      /\ \A i, j \in I : b[i] = b[j] => i = j
      /\ \A z \in Z : \E i \in I : b[i] = z
  <2>1. IsFiniteSet(I) /\ IsFiniteSet(Z)
    BY FS_Interval
  <2>2. \A i, j \in I : b[i] = b[j] => i = j
    OBVIOUS
  <2>3. ASSUME NEW z \in Z PROVE \E i \in I : b[i] = z
    <3>1. z - l + 1 \in I /\ l + (z - l + 1) - 1 = z
      OBVIOUS
    <3> QED BY <3>1
  <2> QED BY <2>1, <2>2, <2>3
<1>2. SumFunctionOnSet(f, I) = SumFunctionOnSet(g, Z)
  <2> HIDE DEF I, Z, b
  <2> QED BY ONLY <1>1, SumReindexed
<1> QED BY <1>2

-----------------------------------------------------------------------------
(* What the fold of an ordered listing does. *)
OrderStep(key, it, s) ==
  IF s = {} THEN <<>> ELSE Inserted(Chosen(s), it[s \ {Chosen(s)}], key)
Orders(key, it, S) == it = [s \in SUBSET S |-> OrderStep(key, it, s)]
Orderings(key, S) == CHOOSE it : Orders(key, it, S)

(* Ordered is a recursive function over the subsets of S.                  *)
LEMMA OrderUnfolds ==
  ASSUME NEW key, NEW S PROVE Ordered(S, key) = Orderings(key, S)[S]
BY Zenon DEF Ordered, FoldSet, MapThenFoldSet, Orderings, Orders, OrderStep, Chosen

(* That function exists, and does not depend on the set it was asked for.  *)
LEMMA OrderingsExist ==
  ASSUME NEW key, NEW S, IsFiniteSet(S)
  PROVE  \A T \in SUBSET S :
           /\ Orders(key, Orderings(key, T), T)
           /\ \A U \in SUBSET T : Orderings(key, T)[U] = Orderings(key, U)[U]
<1> DEFINE V(T) == Orderings(key, T)[T]
           P(T) == Orders(key, Orderings(key, T), T)
                   /\ \A U \in SUBSET T : Orderings(key, T)[U] = V(U)
           G == {T \in SUBSET S : P(T)}
<1>1. ASSUME NEW T \in SUBSET S, \A U \in SUBSET T : U # T => U \in G
      PROVE  T \in G
  <2>1. ASSUME NEW s \in SUBSET T, s # T
        PROVE  V(s) = IF s = {} THEN <<>> ELSE Inserted(Chosen(s), V(s \ {Chosen(s)}), key)
    <3>1. Orders(key, Orderings(key, s), s) /\ \A U \in SUBSET s : Orderings(key, s)[U] = V(U)
      BY <1>1, <2>1
    <3>2. V(s) = OrderStep(key, Orderings(key, s), s)
      <4>1. s \in SUBSET s
        OBVIOUS
      <4> QED BY <3>1, <4>1 DEF Orders
    <3>3. CASE s = {}
      BY <3>2, <3>3 DEF OrderStep
    <3>4. CASE s # {}
      <4>1. s \ {Chosen(s)} \in SUBSET s
        OBVIOUS
      <4> HIDE DEF V
      <4> QED BY <3>1, <3>2, <3>4, <4>1 DEF OrderStep
    <3> QED BY <3>3, <3>4
  <2> HIDE DEF V
  <2> DEFINE VT == IF T = {} THEN <<>> ELSE Inserted(Chosen(T), V(T \ {Chosen(T)}), key)
             it == [s \in SUBSET T |-> IF s = T THEN VT ELSE V(s)]
  <2>2. \E i : Orders(key, i, T)
    <3>1. ASSUME NEW s \in SUBSET T PROVE it[s] = OrderStep(key, it, s)
      <4>1. CASE s = {}
        BY <2>1, <4>1 DEF OrderStep
      <4>2. CASE s # {}
        <5>1. s \ {Chosen(s)} \in SUBSET T /\ s \ {Chosen(s)} # T
          BY <4>2, ChosenIn
        <5>2. it[s \ {Chosen(s)}] = V(s \ {Chosen(s)})
          BY <5>1
        <5>3. it[s] = Inserted(Chosen(s), V(s \ {Chosen(s)}), key)
          BY <2>1, <4>2
        <5> HIDE DEF it
        <5> QED BY <4>2, <5>2, <5>3 DEF OrderStep
      <4> QED BY <4>1, <4>2
    <3>2. it = [s \in SUBSET T |-> it[s]]
      OBVIOUS
    <3> HIDE DEF it
    <3>3. Orders(key, it, T)
      BY <3>1, <3>2 DEF Orders
    <3> QED BY <3>3
  <2>3. Orders(key, Orderings(key, T), T)
    BY <2>2 DEF Orderings
  <2> DEFINE H == {U \in SUBSET T : Orderings(key, T)[U] = V(U)}
  <2>4. ASSUME NEW U \in SUBSET T, \A W \in SUBSET U : W # U => W \in H
        PROVE  U \in H
    <3>1. CASE U = T
      BY <3>1 DEF V
    <3>2. CASE U # T
      <4>1. Orderings(key, T)[U] = OrderStep(key, Orderings(key, T), U)
        BY <2>3 DEF Orders
      <4>2. CASE U = {}
        BY <4>1, <4>2, <3>2, <2>1 DEF OrderStep
      <4>3. CASE U # {}
        <5>1. U \ {Chosen(U)} \in SUBSET U /\ U \ {Chosen(U)} # U
          BY <4>3, ChosenIn
        <5>2. Orderings(key, T)[U \ {Chosen(U)}] = V(U \ {Chosen(U)})
          BY <5>1, <2>4
        <5> QED BY <5>2, <4>1, <4>3, <3>2, <2>1 DEF OrderStep
      <4> QED BY <4>2, <4>3
    <3> QED BY <3>1, <3>2
  <2>5. IsFiniteSet(T)
    BY FS_Subset
  <2>6. \A U \in SUBSET T : U \in H
    <3> HIDE DEF H
    <3> QED BY <2>4, <2>5, SetInduction
  <2> QED BY <2>3, <2>6
<1>2. \A T \in SUBSET S : T \in G
  <2> HIDE DEF G
  <2> QED BY <1>1, SetInduction
<1> QED BY <1>2

(* The equation an ordered listing is defined by.                          *)
LEMMA OrderedDef ==
  ASSUME NEW key, NEW S, IsFiniteSet(S)
  PROVE  Ordered(S, key) =
           IF S = {} THEN <<>> ELSE Inserted(Chosen(S), Ordered(S \ {Chosen(S)}, key), key)
<1>1. /\ Orders(key, Orderings(key, S), S)
      /\ \A U \in SUBSET S : Orderings(key, S)[U] = Orderings(key, U)[U]
  BY OrderingsExist
<1>2. S \in SUBSET S /\ S \ {Chosen(S)} \in SUBSET S
  OBVIOUS
<1>3. Orderings(key, S)[S] = OrderStep(key, Orderings(key, S), S)
  BY <1>1, <1>2 DEF Orders
<1> QED BY <1>1, <1>2, <1>3, OrderUnfolds DEF OrderStep

(* s lists every element of S, once. *)
Lists(s, S) ==
  /\ s \in Seq(S)
  /\ \A i, j \in 1..Len(s) : s[i] = s[j] => i = j
  /\ \A x \in S : \E i \in 1..Len(s) : s[i] = x

(* An element is put in somewhere, and nothing else moves out or doubles.  *)
LEMMA InsertedLists ==
  ASSUME NEW S, NEW x, x \notin S, NEW s, Lists(s, S), NEW key
  PROVE  Lists(Inserted(x, s, key), S \cup {x})
<1> DEFINE before == {i \in DOMAIN s : key[s[i]] <= key[x]}
           n == Cardinality(before)
           m == Len(s)
           r == SubSeq(s, 1, n) \o <<x>> \o SubSeq(s, n + 1, m)
<1>1. m \in Nat /\ DOMAIN s = 1..m /\ s \in Seq(S)
  BY DEF Lists
<1>2. n \in 0..m
  <2>1. IsFiniteSet(1..m) /\ Cardinality(1..m) = m
    BY <1>1, FS_Interval
  <2>2. before \in SUBSET (1..m)
    BY <1>1
  <2>3. Cardinality(before) \in Nat /\ Cardinality(before) <= m
    <3> HIDE DEF before
    <3> QED BY <2>1, <2>2, FS_Subset, FS_CardinalityType
  <2> QED BY <1>1, <2>3
<1>3. r = Inserted(x, s, key)
  BY DEF Inserted
<1> HIDE DEF n, before
<1>4. /\ r \in Seq(S \cup {x}) /\ Len(r) = m + 1
      /\ \A i \in 1..(m + 1) : r[i] = IF i <= n THEN s[i] ELSE IF i = n + 1 THEN x ELSE s[i - 1]
  <2>1. s \in Seq(S \cup {x})
    BY <1>1
  <2> DEFINE a == SubSeq(s, 1, n)
             b == SubSeq(s, n + 1, m)
  <2>2. a \in Seq(S \cup {x}) /\ Len(a) = n /\ \A i \in 1..n : a[i] = s[i]
    BY <1>1, <1>2, <2>1
  <2>3. b \in Seq(S \cup {x}) /\ Len(b) = m - n /\ \A i \in 1..(m - n) : b[i] = s[n + i]
    <3>1. n \in Int /\ m \in Int /\ n + 1 \in Int /\ \A i \in (n + 1)..m : s[i] \in S \cup {x}
      BY <1>1, <1>2
    <3>2. /\ b \in Seq(S \cup {x})
          /\ Len(b) = IF n + 1 <= m THEN m - (n + 1) + 1 ELSE 0
          /\ \A i \in 1..(m - (n + 1) + 1) : b[i] = s[n + 1 + i - 1]
      <4> HIDE DEF m
      <4> QED BY <3>1, SubSeqProperties
    <3> HIDE DEF b, m
    <3>3. Len(b) = m - n
      BY <1>1, <1>2, <3>2
    <3>4. ASSUME NEW i \in 1..(m - n) PROVE b[i] = s[n + i]
      <4>1. i \in 1..(m - (n + 1) + 1) /\ n + 1 + i - 1 = n + i
        BY <1>1, <1>2
      <4>2. b[i] = s[n + 1 + i - 1]
        BY <3>2, <4>1
      <4> QED BY ONLY <4>1, <4>2, Zenon
    <3> QED BY <3>2, <3>3, <3>4
  <2> HIDE DEF a, b, m
  <2> DEFINE c == a \o <<x>>
  <2>4. c \in Seq(S \cup {x}) /\ Len(c) = n + 1
        /\ \A i \in 1..(n + 1) : c[i] = IF i <= n THEN s[i] ELSE x
    BY <1>1, <1>2, <2>2
  <2>5. r = c \o b
    BY DEF r, a, b, c
  <2> HIDE DEF c, r
  <2>6. /\ c \o b \in Seq(S \cup {x})
        /\ Len(c \o b) = Len(c) + Len(b)
        /\ \A i \in 1..(Len(c) + Len(b)) :
             (c \o b)[i] = IF i <= Len(c) THEN c[i] ELSE b[i - Len(c)]
    BY <2>3, <2>4, ConcatProperties
  <2>7. Len(c \o b) = m + 1
    BY <1>1, <1>2, <2>3, <2>4, <2>6
  <2>8. ASSUME NEW i \in 1..(m + 1)
        PROVE  (c \o b)[i] = IF i <= n THEN s[i] ELSE IF i = n + 1 THEN x ELSE s[i - 1]
    <3>1. (c \o b)[i] = IF i <= n + 1 THEN c[i] ELSE b[i - (n + 1)]
      BY <1>1, <1>2, <2>3, <2>4, <2>6
    <3>2. CASE i <= n + 1
      <4>1. i \in 1..(n + 1)
        BY <1>1, <1>2, <3>2
      <4> QED BY <1>1, <1>2, <2>4, <3>1, <3>2, <4>1
    <3>3. CASE i > n + 1
      <4>1. i - (n + 1) \in 1..(m - n) /\ n + (i - (n + 1)) = i - 1 /\ ~(i <= n) /\ i # n + 1
        BY <1>1, <1>2, <3>3
      <4>2. b[i - (n + 1)] = s[i - 1]
        BY <2>3, <4>1
      <4>3. ~(i <= n + 1)
        BY <1>1, <1>2, <3>3
      <4> QED BY <3>1, <4>1, <4>2, <4>3
    <3>4. i <= n + 1 \/ i > n + 1
      BY <1>1, <1>2
    <3> QED BY ONLY <3>2, <3>3, <3>4, Zenon
  <2> QED BY <2>5, <2>6, <2>7, <2>8
<1> HIDE DEF r, m
<1>5. ASSUME NEW i \in 1..(m + 1), NEW j \in 1..(m + 1), r[i] = r[j]
      PROVE  i = j
  BY <1>1, <1>2, <1>4, <1>5, SMTT(30) DEF Lists, m
<1>6. ASSUME NEW y \in S \cup {x} PROVE \E i \in 1..(m + 1) : r[i] = y
  <2>1. CASE y = x
    <3>1. n + 1 \in 1..(m + 1) /\ ~(n + 1 <= n)
      BY <1>1, <1>2
    <3> QED BY <1>4, <2>1, <3>1
  <2>2. CASE y \in S
    <3>1. PICK i \in 1..m : s[i] = y
      BY <2>2 DEF Lists, m
    <3>2. CASE i <= n
      BY <1>1, <1>2, <1>4, <3>1, <3>2
    <3>3. CASE i > n
      <4>1. i + 1 \in 1..(m + 1) /\ ~(i + 1 <= n) /\ i + 1 # n + 1 /\ (i + 1) - 1 = i
        BY <1>1, <1>2, <3>3
      <4> QED BY <1>4, <3>1, <4>1
    <3> QED BY <1>2, <3>2, <3>3
  <2> QED BY <2>1, <2>2
<1> QED BY <1>3, <1>4, <1>5, <1>6 DEF Lists

(* A listing in order lists the set it is asked for.                       *)
LEMMA OrderedLists ==
  ASSUME NEW S, IsFiniteSet(S), NEW key PROVE Lists(Ordered(S, key), S)
<1> DEFINE G == {T \in SUBSET S : Lists(Ordered(T, key), T)}
<1>1. ASSUME NEW T \in SUBSET S, \A U \in SUBSET T : U # T => U \in G
      PROVE  T \in G
  <2>1. IsFiniteSet(T)
    BY FS_Subset
  <2>2. CASE T = {}
    <3>1. Ordered(T, key) = <<>>
      BY <2>1, <2>2, OrderedDef
    <3>2. Lists(<<>>, {})
      BY DEF Lists
    <3> QED BY <2>2, <3>1, <3>2
  <2>3. CASE T # {}
    <3> DEFINE x == Chosen(T)
    <3>1. x \in T
      BY <2>3, ChosenIn
    <3>2. Ordered(T, key) = Inserted(x, Ordered(T \ {x}, key), key)
      BY <2>1, <2>3, OrderedDef
    <3>3. Lists(Ordered(T \ {x}, key), T \ {x})
      BY <1>1, <3>1
    <3> HIDE DEF x
    <3>4. Lists(Inserted(x, Ordered(T \ {x}, key), key), (T \ {x}) \cup {x})
      BY <3>3, InsertedLists
    <3>5. (T \ {x}) \cup {x} = T
      BY <3>1
    <3>6. Lists(Ordered(T, key), T)
      BY ONLY <3>2, <3>4, <3>5, Zenon
    <3> QED BY <3>6
  <2> QED BY <2>2, <2>3
<1>2. \A T \in SUBSET S : T \in G
  <2> HIDE DEF G
  <2> QED BY <1>1, SetInduction
<1> QED BY <1>2

(* A sum may be taken along a listing.                                     *)
LEMMA SumListed ==
  ASSUME NEW S, IsFiniteSet(S), NEW s, Lists(s, S), NEW f, NEW g,
         \A i \in 1..Len(s) : f[i] \in Int /\ f[i] = g[s[i]]
  PROVE  SumFunctionOnSet(f, 1..Len(s)) = SumFunctionOnSet(g, S)
<1>1. Len(s) \in Nat /\ IsFiniteSet(1..Len(s))
  BY FS_Interval DEF Lists
<1>2. \A i \in 1..Len(s) : s[i] \in S
  BY DEF Lists
<1>3. /\ \A i, j \in 1..Len(s) : s[i] = s[j] => i = j
      /\ \A x \in S : \E i \in 1..Len(s) : s[i] = x
  BY DEF Lists
<1>4. \A i \in 1..Len(s) : s[i] \in S /\ f[i] \in Int /\ f[i] = g[s[i]]
  BY <1>2
<1> DEFINE I == 1..Len(s)
<1>5. /\ IsFiniteSet(I)
      /\ \A i \in I : s[i] \in S /\ f[i] \in Int /\ f[i] = g[s[i]]
      /\ \A i, j \in I : s[i] = s[j] => i = j
      /\ \A x \in S : \E i \in I : s[i] = x
  BY <1>1, <1>3, <1>4
<1> HIDE DEF I
<1>6. SumFunctionOnSet(f, I) = SumFunctionOnSet(g, S)
  BY <1>5, SumReindexed
<1> QED BY <1>6 DEF I

(* A function over 1..n is a sequence of n elements.                       *)
LEMMA LengthOfListing ==
  ASSUME NEW n \in Nat, NEW s, s = [i \in 1..n |-> s[i]]
  PROVE  Len(s) = n /\ DOMAIN s = 1..n /\ (s = <<>> <=> n = 0)
<1> DEFINE X == {s[i] : i \in 1..n}
<1>1. s \in [1..n -> X]
  OBVIOUS
<1>2. s \in Seq(X)
  <2> HIDE DEF X
  <2> QED BY <1>1, SeqDef
<1>3. Len(s) \in Nat /\ DOMAIN s = 1..Len(s) /\ DOMAIN s = 1..n
  <2> HIDE DEF X
  <2> QED BY <1>1, <1>2, LenProperties
<1>4. Len(s) = n
  BY <1>3
<1>5. n = 0 => s = <<>>
  <2> HIDE DEF X
  <2> QED BY <1>2, <1>4, EmptySeq
<1> QED BY <1>3, <1>4, <1>5

(* A number lies between the multiples that its quotient names.            *)
LEMMA DivBounds ==
  ASSUME NEW d \in Int, NEW L \in Nat \ {0}, NEW m \in Int
  PROVE  d \div L = m <=> (m * L <= d /\ d < (m + 1) * L)
<1> DEFINE q == d \div L
<1>1. q \in Int /\ d % L \in 0..(L - 1) /\ d = L * q + (d % L)
  OBVIOUS
<1>2. ASSUME q = m PROVE m * L <= d /\ d < (m + 1) * L
  BY <1>1, <1>2
<1>3. ASSUME m * L <= d, d < (m + 1) * L PROVE q = m
  BY <1>1, <1>3
<1> QED BY <1>2, <1>3

=============================================================================
