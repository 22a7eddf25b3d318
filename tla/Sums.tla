-------------------------------- MODULE Sums --------------------------------
(***************************************************************************)
(* Sums over finite sets, and what the folds of the models compute: the    *)
(* community modules fold a set in the order of CHOOSE, one element after  *)
(* the other, and nothing that is proved of a sum may depend on the order. *)
(***************************************************************************)
EXTENDS Integers, Sequences, FiniteSets, FiniteSetTheorems, WellFoundedInduction, TLAPS

(***************************************************************************)
(* Induction over the subsets of a finite set, with the claim given as the *)
(* set of those it holds of.                                               *)
(***************************************************************************)
LEMMA StrongSetInduction ==
    ASSUME NEW S, IsFiniteSet(S), NEW Good,
           \A T \in SUBSET S : (\A x \in T : T \ {x} \in Good) => T \in Good
    PROVE  \A T \in SUBSET S : T \in Good
<1> DEFINE Bad == {T \in SUBSET S : T \notin Good}
           R == StrictSubsetOrdering(S)
<1>1. SUFFICES ASSUME Bad # {} PROVE FALSE
  OBVIOUS
<1>2. IsWellFoundedOn(R, SUBSET S)
  BY FS_StrictSubsetOrderingWellFounded, FS_FiniteSubsetsOfFinite
<1>3. \A T, U \in SUBSET S : T \subseteq U /\ T # U => <<T, U>> \in R
  BY DEF StrictSubsetOrdering
<1>4. Bad \subseteq SUBSET S
  OBVIOUS
<1>5. \E T \in Bad : \A U \in Bad : ~ (<<U, T>> \in R)
  <2> HIDE DEF Bad, R
  <2> QED BY <1>1, <1>2, <1>4, WFMin
<1>6. PICK T \in Bad : \A U \in Bad : ~ (<<U, T>> \in R)
  BY <1>5
<1>7. PICK x \in T : T \ {x} \notin Good
  OBVIOUS
<1>8. T \ {x} \in SUBSET S /\ T \ {x} # T /\ T \ {x} \subseteq T
  OBVIOUS
<1> QED BY <1>3, <1>6, <1>7, <1>8

LEMMA SetInduction ==
    ASSUME NEW S, IsFiniteSet(S), NEW Good, {} \in Good,
           \A T \in SUBSET S, x \in S : T \in Good /\ x \notin T => T \cup {x} \in Good
    PROVE  \A T \in SUBSET S : T \in Good
<1>1. ASSUME NEW T \in SUBSET S, \A x \in T : T \ {x} \in Good PROVE T \in Good
  <2>1. CASE T # {}
    <3>1. PICK x : x \in T
      BY <2>1
    <3>2. T \ {x} \in SUBSET S /\ x \in S /\ x \notin T \ {x} /\ (T \ {x}) \cup {x} = T
      BY <3>1
    <3> QED BY <1>1, <3>1, <3>2
  <2> QED BY <2>1
<1> QED BY <1>1, StrongSetInduction

(***************************************************************************)
(* g is the sum of f over each subset of S, whichever element comes first. *)
(***************************************************************************)
Summable(f, S) == IsFiniteSet(S) /\ \A x \in S : f[x] \in Int

Additive(g, f, S) ==
    /\ g \in [SUBSET S -> Int]
    /\ g[{}] = 0
    /\ \A T \in SUBSET S : \A x \in T : g[T] = f[x] + g[T \ {x}]

\* A sum over T carries over to one more element.
LEMMA AdditiveExtends ==
    ASSUME NEW S, NEW f, \A x \in S : f[x] \in Int, NEW T \in SUBSET S, NEW x \in S, x \notin T,
           NEW g, Additive(g, f, T)
    PROVE  Additive([U \in SUBSET (T \cup {x}) |-> IF x \in U THEN f[x] + g[U \ {x}] ELSE g[U]],
                    f, T \cup {x})
<1> DEFINE k == [U \in SUBSET (T \cup {x}) |-> IF x \in U THEN f[x] + g[U \ {x}] ELSE g[U]]
<1>1. g \in [SUBSET T -> Int] /\ g[{}] = 0
      /\ \A U \in SUBSET T : \A y \in U : g[U] = f[y] + g[U \ {y}]
  BY DEF Additive
<1>2. k \in [SUBSET (T \cup {x}) -> Int]
  <2> SUFFICES ASSUME NEW U \in SUBSET (T \cup {x})
               PROVE  (IF x \in U THEN f[x] + g[U \ {x}] ELSE g[U]) \in Int
    OBVIOUS
  <2>1. CASE x \in U
    <3>1. U \ {x} \in SUBSET T
      OBVIOUS
    <3> QED BY <2>1, <3>1, <1>1
  <2>2. CASE x \notin U
    <3>1. U \in SUBSET T
      BY <2>2
    <3> QED BY <2>2, <3>1, <1>1
  <2> QED BY <2>1, <2>2
<1>3. k[{}] = 0
  BY <1>1
<1>4. ASSUME NEW U \in SUBSET (T \cup {x}), NEW y \in U
      PROVE  k[U] = f[y] + k[U \ {y}]
  <2>0. U \ {y} \in SUBSET (T \cup {x}) /\ y \in S
    OBVIOUS
  <2>1. CASE x \notin U
    <3>1. U \in SUBSET T /\ x \notin U \ {y}
      BY <2>1
    <3> QED BY <2>0, <2>1, <3>1, <1>1
  <2>2. CASE x = y
    BY <2>0, <2>2
  <2>3. CASE x \in U /\ x # y
    <3>1. U \ {x} \in SUBSET T /\ y \in U \ {x} /\ x \in U \ {y}
      BY <2>3
    <3>2. g[U \ {x}] = f[y] + g[(U \ {x}) \ {y}]
      BY <3>1, <1>1
    <3>3. (U \ {x}) \ {y} = (U \ {y}) \ {x} /\ (U \ {x}) \ {y} \in SUBSET T
      OBVIOUS
    <3>4. k[U] = f[x] + g[U \ {x}] /\ k[U \ {y}] = f[x] + g[(U \ {x}) \ {y}]
      BY <2>0, <2>3, <3>1, <3>3
    <3>5. f[x] \in Int /\ f[y] \in Int /\ g[(U \ {x}) \ {y}] \in Int
      BY <2>0, <3>3, <1>1
    <3> QED BY <3>2, <3>4, <3>5
  <2> QED BY <2>1, <2>2, <2>3
<1> QED BY <1>2, <1>3, <1>4 DEF Additive

LEMMA AdditiveExists ==
    ASSUME NEW S, NEW f, Summable(f, S)
    PROVE  \E g : Additive(g, f, S)
<1> DEFINE Good == {T \in SUBSET S : \E g : Additive(g, f, T)}
<1>1. {} \in Good
  <2>1. Additive([T \in SUBSET {} |-> 0], f, {})
    BY DEF Additive
  <2> QED BY <2>1
<1>2. ASSUME NEW T \in SUBSET S, NEW x \in S, T \in Good, x \notin T
      PROVE  T \cup {x} \in Good
  <2>1. PICK g : Additive(g, f, T)
    BY <1>2
  <2> QED BY <1>2, <2>1, AdditiveExtends DEF Summable
<1>3. \A T \in SUBSET S : T \in Good
  <2> HIDE DEF Good
  <2> QED BY <1>1, <1>2, SetInduction DEF Summable
<1> QED BY <1>3

\* Two sums of what agrees on T agree on T.
LEMMA AdditiveAgrees ==
    ASSUME NEW S, NEW f, NEW g, Additive(g, f, S),
           NEW S2, NEW f2, NEW g2, Additive(g2, f2, S2),
           NEW T, T \subseteq S, T \subseteq S2, IsFiniteSet(T), \A x \in T : f[x] = f2[x]
    PROVE  g[T] = g2[T]
<1> DEFINE Good == {U \in SUBSET T : g[U] = g2[U]}
<1>1. {} \in Good
  BY DEF Additive
<1>2. ASSUME NEW U \in SUBSET T, NEW x \in T, U \in Good, x \notin U
      PROVE  U \cup {x} \in Good
  <2>1. U \cup {x} \in SUBSET S /\ U \cup {x} \in SUBSET S2 /\ (U \cup {x}) \ {x} = U
    BY <1>2
  <2>2. g[U \cup {x}] = f[x] + g[U]
    BY <2>1 DEF Additive
  <2>3. g2[U \cup {x}] = f2[x] + g2[U]
    BY <2>1 DEF Additive
  <2> QED BY <1>2, <2>2, <2>3
<1>3. \A U \in SUBSET T : U \in Good
  <2> HIDE DEF Good
  <2> QED BY <1>1, <1>2, SetInduction
<1> QED BY <1>3
(***************************************************************************)
(* The sum, and how it is reckoned with.                                   *)
(***************************************************************************)
Sum(f, S) == CHOOSE n : \E g : Additive(g, f, S) /\ n = g[S]

LEMMA SumIs ==
    ASSUME NEW S, NEW f, Summable(f, S), NEW D, S \subseteq D, NEW g, Additive(g, f, D)
    PROVE  Sum(f, S) = g[S]
<1>1. \E k : Additive(k, f, S)
  BY AdditiveExists
<1>2. \E n : \E k : Additive(k, f, S) /\ n = k[S]
  BY <1>1
<1>3. PICK k : Additive(k, f, S) /\ Sum(f, S) = k[S]
  BY <1>2 DEF Sum
<1>4. k[S] = g[S]
  BY <1>3, AdditiveAgrees DEF Summable
<1> QED BY <1>3, <1>4

LEMMA SumEmpty == ASSUME NEW f PROVE Sum(f, {}) = 0
<1>1. Summable(f, {})
  BY FS_EmptySet DEF Summable
<1>2. PICK g : Additive(g, f, {})
  BY <1>1, AdditiveExists
<1>3. Sum(f, {}) = g[{}]
  BY <1>1, <1>2, SumIs
<1> QED BY <1>2, <1>3 DEF Additive

LEMMA SumType == ASSUME NEW S, NEW f, Summable(f, S) PROVE Sum(f, S) \in Int
<1>1. PICK g : Additive(g, f, S)
  BY AdditiveExists
<1>2. Sum(f, S) = g[S]
  BY <1>1, SumIs
<1> QED BY <1>1, <1>2 DEF Additive

LEMMA SumAdd ==
    ASSUME NEW S, NEW x, x \notin S, NEW f, Summable(f, S \cup {x})
    PROVE  /\ Summable(f, S)
           /\ Sum(f, S \cup {x}) = f[x] + Sum(f, S)
<1>1. Summable(f, S)
  BY FS_Subset DEF Summable
<1>2. PICK g : Additive(g, f, S \cup {x})
  BY AdditiveExists
<1>3. Sum(f, S \cup {x}) = g[S \cup {x}] /\ Sum(f, S) = g[S]
  BY <1>1, <1>2, SumIs
<1>4. S \cup {x} \in SUBSET (S \cup {x}) /\ x \in S \cup {x} /\ (S \cup {x}) \ {x} = S
  OBVIOUS
<1>5. g[S \cup {x}] = f[x] + g[S]
  BY <1>2, <1>4 DEF Additive
<1> QED BY <1>1, <1>3, <1>5

\* An element taken out of the set.
LEMMA SumTake ==
    ASSUME NEW S, NEW x \in S, NEW f, Summable(f, S)
    PROVE  /\ Summable(f, S \ {x})
           /\ Sum(f, S) = f[x] + Sum(f, S \ {x})
<1>1. (S \ {x}) \cup {x} = S /\ x \notin S \ {x}
  OBVIOUS
<1> QED BY <1>1, SumAdd

LEMMA SumAgree ==
    ASSUME NEW S, NEW f, Summable(f, S), NEW k, \A x \in S : f[x] = k[x]
    PROVE  Summable(k, S) /\ Sum(k, S) = Sum(f, S)
<1>1. Summable(k, S)
  BY DEF Summable
<1>2. PICK g : Additive(g, f, S)
  BY AdditiveExists
<1>3. PICK g2 : Additive(g2, k, S)
  BY <1>1, AdditiveExists
<1>4. g[S] = g2[S]
  BY <1>2, <1>3, AdditiveAgrees DEF Summable
<1> QED BY <1>1, <1>2, <1>3, <1>4, SumIs

\* More elements, none below zero and each at least as large, have no smaller sum.
LEMMA SumMonotone ==
    ASSUME NEW S, NEW f, Summable(f, S), NEW T, S \subseteq T, NEW k, Summable(k, T),
           \A x \in T : k[x] >= 0, \A x \in S : f[x] <= k[x]
    PROVE  Sum(f, S) <= Sum(k, T)
<1> DEFINE Good == {U \in SUBSET T : Summable(k, U) /\ Summable(f, U \cap S)
                                     /\ Sum(f, U \cap S) <= Sum(k, U)}
<1>1. {} \in Good
  <2>1. {} \cap S = {} /\ Summable(k, {}) /\ Summable(f, {})
    BY FS_EmptySet DEF Summable
  <2> QED BY <2>1, SumEmpty
<1>2. ASSUME NEW U \in SUBSET T, NEW x \in T, U \in Good, x \notin U
      PROVE  U \cup {x} \in Good
  <2>1. Summable(k, U \cup {x}) /\ Summable(f, (U \cup {x}) \cap S)
    <3>1. U \cup {x} \in SUBSET T /\ (U \cup {x}) \cap S \in SUBSET S
      OBVIOUS
    <3>2. IsFiniteSet(U \cup {x}) /\ IsFiniteSet((U \cup {x}) \cap S)
      BY <3>1, FS_Subset DEF Summable
    <3> QED BY <3>1, <3>2 DEF Summable
  <2>2. Sum(k, U \cup {x}) = k[x] + Sum(k, U)
    BY <1>2, <2>1, SumAdd
  <2>3. Sum(k, U) \in Int /\ Sum(f, U \cap S) \in Int /\ Sum(f, U \cap S) <= Sum(k, U)
        /\ k[x] \in Int /\ k[x] >= 0
    BY <1>2, SumType DEF Summable
  <2>4. CASE x \in S
    <3>1. (U \cup {x}) \cap S = (U \cap S) \cup {x} /\ x \notin U \cap S
      BY <1>2, <2>4
    <3>2. Sum(f, (U \cup {x}) \cap S) = f[x] + Sum(f, U \cap S)
      <4>1. Summable(f, (U \cap S) \cup {x})
        BY <2>1, <3>1
      <4>2. Sum(f, (U \cap S) \cup {x}) = f[x] + Sum(f, U \cap S)
        BY <3>1, <4>1, SumAdd
      <4> QED BY <3>1, <4>2
    <3>3. f[x] \in Int /\ f[x] <= k[x]
      BY <2>4 DEF Summable
    <3>4. Sum(f, (U \cup {x}) \cap S) <= Sum(k, U \cup {x})
      BY <2>2, <2>3, <3>2, <3>3
    <3> QED BY <2>1, <3>4
  <2>5. CASE x \notin S
    <3>1. (U \cup {x}) \cap S = U \cap S
      BY <2>5
    <3>2. Sum(f, U \cap S) <= Sum(k, U \cup {x})
      BY <2>2, <2>3
    <3> QED BY <2>1, <3>1, <3>2
  <2> QED BY <2>4, <2>5
<1>3. \A U \in SUBSET T : U \in Good
  <2> HIDE DEF Good
  <2> QED BY <1>1, <1>2, SetInduction DEF Summable
<1>4. T \in Good /\ T \cap S = S
  BY <1>3
<1> QED BY <1>4

\* Two sets with nothing in common.
LEMMA SumUnion ==
    ASSUME NEW S, NEW T, S \cap T = {}, NEW f, Summable(f, S), Summable(f, T)
    PROVE  Summable(f, S \cup T) /\ Sum(f, S \cup T) = Sum(f, S) + Sum(f, T)
<1>1. Summable(f, S \cup T)
  BY FS_Union DEF Summable
<1> DEFINE Good == {U \in SUBSET T : Sum(f, S \cup U) = Sum(f, S) + Sum(f, U)}
<1>2. {} \in Good
  <2>1. S \cup {} = S /\ Sum(f, S) \in Int
    BY SumType
  <2> QED BY <2>1, SumEmpty
<1>3. ASSUME NEW U \in SUBSET T, NEW x \in T, U \in Good, x \notin U
      PROVE  U \cup {x} \in Good
  <2>1. S \cup (U \cup {x}) = (S \cup U) \cup {x} /\ x \notin S \cup U
    BY <1>3
  <2>2. Summable(f, U \cup {x}) /\ Summable(f, (S \cup U) \cup {x})
    BY <1>1, FS_Subset, U \cup {x} \in SUBSET T, (S \cup U) \cup {x} \in SUBSET (S \cup T)
       DEF Summable
  <2>3. Sum(f, (S \cup U) \cup {x}) = f[x] + Sum(f, S \cup U)
        /\ Sum(f, U \cup {x}) = f[x] + Sum(f, U) /\ Summable(f, U)
    BY <1>3, <2>1, <2>2, SumAdd
  <2>4. Sum(f, U) \in Int /\ Sum(f, S) \in Int /\ f[x] \in Int
    BY <2>3, SumType DEF Summable
  <2>5. Sum(f, S \cup U) = Sum(f, S) + Sum(f, U)
    BY <1>3
  <2>6. f[x] + (Sum(f, S) + Sum(f, U)) = Sum(f, S) + (f[x] + Sum(f, U))
    BY <2>4
  <2>7. Sum(f, S \cup (U \cup {x})) = Sum(f, S) + Sum(f, U \cup {x})
    BY <2>1, <2>3, <2>5, <2>6
  <2> QED BY <2>7
<1>4. \A U \in SUBSET T : U \in Good
  <2> HIDE DEF Good
  <2> QED BY <1>2, <1>3, SetInduction DEF Summable
<1>5. T \in Good
  BY <1>4
<1> QED BY <1>1, <1>5

(***************************************************************************)
(* What a fold in the order of CHOOSE computes.                            *)
(***************************************************************************)
First(T) == CHOOSE x \in T : TRUE

Folded(g, f, S) ==
    g = [T \in SUBSET S |-> IF T = {} THEN 0 ELSE f[First(T)] + g[T \ {First(T)}]]

FoldedAfter(g, f, S) ==
    g = [T \in SUBSET S |-> IF T = {} THEN 0 ELSE g[T \ {First(T)}] + f[First(T)]]

LEMMA FoldExists ==
    ASSUME NEW S, NEW f, Summable(f, S)
    PROVE  \E g : Folded(g, f, S) /\ FoldedAfter(g, f, S)
<1>1. PICK g : Additive(g, f, S)
  BY AdditiveExists
<1>2. g = [T \in SUBSET S |-> g[T]]
  BY <1>1 DEF Additive
<1>3. ASSUME NEW T \in SUBSET S
      PROVE  /\ g[T] = IF T = {} THEN 0 ELSE f[First(T)] + g[T \ {First(T)}]
             /\ g[T] = IF T = {} THEN 0 ELSE g[T \ {First(T)}] + f[First(T)]
  <2>1. CASE T = {}
    BY <2>1, <1>1 DEF Additive
  <2>2. CASE T # {}
    <3>1. First(T) \in T /\ f[First(T)] \in Int
      BY <2>2 DEF First, Summable
    <3>2. g[T] = f[First(T)] + g[T \ {First(T)}] /\ g[T \ {First(T)}] \in Int
      BY <3>1, <1>1 DEF Additive
    <3> QED BY <2>2, <3>1, <3>2
  <2> QED BY <2>1, <2>2
<1> QED BY <1>2, <1>3 DEF Folded, FoldedAfter

LEMMA FoldIsSum ==
    ASSUME NEW S, NEW f, Summable(f, S), NEW g, Folded(g, f, S) \/ FoldedAfter(g, f, S)
    PROVE  g[S] = Sum(f, S)
<1>1. PICK k : Additive(k, f, S)
  BY AdditiveExists
<1> DEFINE Good == {T \in SUBSET S : g[T] = k[T]}
<1>2. ASSUME NEW T \in SUBSET S, \A x \in T : T \ {x} \in Good
      PROVE  T \in Good
  <2>1. CASE T = {}
    BY <2>1, <1>1 DEF Folded, FoldedAfter, Additive
  <2>2. CASE T # {}
    <3>1. First(T) \in T /\ f[First(T)] \in Int
      BY <2>2 DEF First, Summable
    <3>2. g[T] = f[First(T)] + g[T \ {First(T)}] \/ g[T] = g[T \ {First(T)}] + f[First(T)]
      BY <2>2 DEF Folded, FoldedAfter
    <3>3. k[T] = f[First(T)] + k[T \ {First(T)}] /\ k[T \ {First(T)}] \in Int
      BY <3>1, <1>1 DEF Additive
    <3>4. g[T \ {First(T)}] = k[T \ {First(T)}]
      BY <1>2, <3>1
    <3>5. g[T] = k[T]
      BY <3>1, <3>2, <3>3, <3>4
    <3> QED BY <3>5
  <2> QED BY <2>1, <2>2
<1>3. \A T \in SUBSET S : T \in Good
  <2> HIDE DEF Good
  <2> QED BY <1>2, StrongSetInduction DEF Summable
<1>4. g[S] = k[S]
  BY <1>3
<1> QED BY <1>1, <1>4, SumIs

\* One summand replaced.
LEMMA SumChanged ==
    ASSUME NEW S, NEW x \in S, NEW f, Summable(f, S), NEW k, k[x] \in Int,
           \A y \in S : y # x => k[y] = f[y]
    PROVE  Summable(k, S) /\ Sum(k, S) = Sum(f, S) - f[x] + k[x]
<1>1. Summable(k, S) /\ f[x] \in Int
  BY DEF Summable
<1>2. Summable(f, S \ {x}) /\ Sum(f, S) = f[x] + Sum(f, S \ {x})
  BY SumTake
<1>3. Sum(k, S) = k[x] + Sum(k, S \ {x})
  BY <1>1, SumTake
<1>4. Sum(k, S \ {x}) = Sum(f, S \ {x})
  <2>1. \A y \in S \ {x} : f[y] = k[y]
    OBVIOUS
  <2> QED BY <1>2, <2>1, SumAgree
<1>5. Sum(f, S \ {x}) \in Int
  BY <1>2, SumType
<1> QED BY <1>1, <1>2, <1>3, <1>4, <1>5

LEMMA SumOfNothing ==
    ASSUME NEW S, IsFiniteSet(S), NEW f, \A x \in S : f[x] = 0
    PROVE  Summable(f, S) /\ Sum(f, S) = 0
<1> DEFINE Good == {T \in SUBSET S : Summable(f, T) /\ Sum(f, T) = 0}
<1>1. {} \in Good
  BY SumEmpty, FS_EmptySet DEF Summable
<1>2. ASSUME NEW T \in SUBSET S, NEW x \in S, T \in Good, x \notin T
      PROVE  T \cup {x} \in Good
  <2>1. Summable(f, T \cup {x})
    BY <1>2, FS_Subset DEF Summable
  <2>2. Sum(f, T \cup {x}) = f[x] + Sum(f, T)
    BY <1>2, <2>1, SumAdd
  <2> QED BY <1>2, <2>1, <2>2
<1>3. \A T \in SUBSET S : T \in Good
  <2> HIDE DEF Good
  <2> QED BY <1>1, <1>2, SetInduction
<1>4. S \in Good
  BY <1>3
<1> QED BY <1>4

(***************************************************************************)
(* Sums over the positions of a sequence.                                  *)
(***************************************************************************)
After(T) == {i + 1 : i \in T}

\* The same summands one position further on.
LEMMA SumShift ==
    ASSUME NEW n \in Nat, NEW f, NEW k,
           \A i \in 1 .. n : k[i] \in Int /\ f[i + 1] = k[i]
    PROVE  /\ Summable(k, 1 .. n) /\ Summable(f, After(1 .. n))
           /\ Sum(f, After(1 .. n)) = Sum(k, 1 .. n)
<1> DEFINE S == 1 .. n
           Good == {T \in SUBSET S : Summable(f, After(T)) /\ Summable(k, T)
                                     /\ Sum(f, After(T)) = Sum(k, T)}
<1>1. {} \in Good
  <2>1. After({}) = {}
    BY DEF After
  <2> QED BY <2>1, SumEmpty, FS_EmptySet DEF Summable
<1>2. ASSUME NEW T \in SUBSET S, NEW x \in S, T \in Good, x \notin T
      PROVE  T \cup {x} \in Good
  <2>1. /\ After(T \cup {x}) = After(T) \cup {x + 1} /\ x + 1 \notin After(T)
    BY <1>2 DEF After
  <2>2. f[x + 1] \in Int /\ k[x] \in Int /\ f[x + 1] = k[x]
    OBVIOUS
  <2>3. Summable(f, After(T) \cup {x + 1}) /\ Summable(k, T \cup {x})
    BY <1>2, <2>2, FS_AddElement DEF Summable
  <2>4. /\ Sum(f, After(T) \cup {x + 1}) = f[x + 1] + Sum(f, After(T))
        /\ Sum(k, T \cup {x}) = k[x] + Sum(k, T)
    BY <1>2, <2>1, <2>3, SumAdd
  <2> QED BY <1>2, <2>1, <2>2, <2>3, <2>4
<1>3. \A T \in SUBSET S : T \in Good
  <2>1. IsFiniteSet(S)
    BY FS_Interval
  <2> HIDE DEF Good
  <2> QED BY <1>1, <1>2, <2>1, SetInduction
<1>4. S \in Good
  BY <1>3
<1> QED BY <1>4

LEMMA SeqSummable ==
    ASSUME NEW q \in Seq(Int)
    PROVE  Summable(q, DOMAIN q) /\ DOMAIN q = 1 .. Len(q)
<1>1. DOMAIN q = 1 .. Len(q) /\ Len(q) \in Nat /\ \A i \in DOMAIN q : q[i] \in Int
  OBVIOUS
<1>2. IsFiniteSet(1 .. Len(q))
  BY <1>1, FS_Interval
<1> QED BY <1>1, <1>2 DEF Summable

LEMMA SeqSumHead ==
    ASSUME NEW q \in Seq(Int), q # <<>>
    PROVE  /\ Head(q) \in Int
           /\ Sum(q, DOMAIN q) = Head(q) + Sum(Tail(q), DOMAIN Tail(q))
<1> DEFINE n == Len(q) - 1
<1>1. /\ n \in Nat /\ Tail(q) \in Seq(Int) /\ Len(Tail(q)) = n /\ Head(q) = q[1]
      /\ \A i \in 1 .. n : Tail(q)[i] \in Int /\ q[i + 1] = Tail(q)[i]
      /\ DOMAIN q = 1 .. n + 1 /\ DOMAIN Tail(q) = 1 .. n
  OBVIOUS
<1> HIDE DEF n
<1>2. After(1 .. n) = (1 .. n + 1) \ {1} /\ 1 \in 1 .. n + 1
  <2>1. ASSUME NEW j \in (1 .. n + 1) \ {1} PROVE \E i \in 1 .. n : j = i + 1
    <3>1. j - 1 \in 1 .. n /\ j = (j - 1) + 1
      BY <1>1
    <3> QED BY <3>1
  <2>2. ASSUME NEW i \in 1 .. n PROVE i + 1 \in (1 .. n + 1) \ {1}
    BY <1>1
  <2>3. 1 \in 1 .. n + 1
    BY <1>1
  <2> HIDE DEF n
  <2> QED BY <2>1, <2>2, <2>3 DEF After
<1>3. Sum(q, DOMAIN q) = q[1] + Sum(q, After(1 .. n))
  <2>1. Summable(q, 1 .. n + 1)
    BY <1>1, SeqSummable
  <2>2. Sum(q, 1 .. n + 1) = q[1] + Sum(q, (1 .. n + 1) \ {1})
    BY <1>2, <2>1, SumTake
  <2>3. DOMAIN q = 1 .. n + 1
    BY <1>1
  <2> QED BY <1>2, <2>2, <2>3
<1>4. Sum(q, After(1 .. n)) = Sum(Tail(q), 1 .. n)
  BY <1>1, SumShift
<1>5. q[1] \in Int
  BY <1>1, <1>2
<1> QED BY <1>1, <1>3, <1>4, <1>5

LEMMA SeqSumAppend ==
    ASSUME NEW q \in Seq(Int), NEW n \in Int
    PROVE  Sum(Append(q, n), DOMAIN Append(q, n)) = Sum(q, DOMAIN q) + n
<1> DEFINE r == Append(q, n)
           k == Len(q) + 1
<1>1. /\ r \in Seq(Int) /\ DOMAIN r = (1 .. Len(q)) \cup {k} /\ k \notin 1 .. Len(q)
      /\ r[k] = n /\ DOMAIN q = 1 .. Len(q) /\ \A i \in 1 .. Len(q) : q[i] = r[i]
  OBVIOUS
<1> HIDE DEF r, k
<1>2. Summable(r, DOMAIN r) /\ Summable(q, DOMAIN q)
  BY <1>1, SeqSummable
<1>3. Sum(r, DOMAIN r) = r[k] + Sum(r, 1 .. Len(q))
  BY <1>1, <1>2, SumAdd
<1>4. Sum(r, 1 .. Len(q)) = Sum(q, DOMAIN q)
  BY <1>1, <1>2, SumAgree
<1>5. Sum(q, DOMAIN q) \in Int
  BY <1>2, SumType
<1> QED BY <1>1, <1>3, <1>4, <1>5 DEF r
=============================================================================
