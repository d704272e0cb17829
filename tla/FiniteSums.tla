----------------------------- MODULE FiniteSums -----------------------------
(***************************************************************************)
(* What SumFunction and SumFunctionOnSet of the community modules compute  *)
(* over a finite set: the laws of addition that the ledger, the screens    *)
(* and the counters rest on.                                               *)
(*                                                                         *)
(* The sum is a recursive function over subsets.  The prover knows it as a *)
(* CHOOSE among the tables that satisfy its definition, so the first       *)
(* lemmas show that there is such a table and that all of them agree; both *)
(* are inductions over a finite set, taken from the well-founded order of  *)
(* its subsets with a set in the place of the property.                    *)
(***************************************************************************)
EXTENDS Integers, Functions, FiniteSetTheorems, TLAPS

(* G holds of a part of S when it holds of that part less any one element. *)
Inductive(G, S) == \A T \in SUBSET S : (\A x \in T : T \ {x} \in G) => T \in G

(* Induction over the parts of a finite set, from the well-founded order   *)
(* of its subsets: no operator stands for the property, a set does.        *)
LEMMA SubsetInduction ==
    ASSUME NEW S, IsFiniteSet(S), NEW G, Inductive(G, S)
    PROVE  \A T \in SUBSET S : T \in G
<1> USE DEF Inductive
<1> DEFINE R == StrictSubsetOrdering(S)
           Bad == {T \in FiniteSubsetsOf(S) : T \notin G}
<1>1. FiniteSubsetsOf(S) = SUBSET S
  BY FS_FiniteSubsetsOfFinite
<1>2. SUFFICES ASSUME Bad # {} PROVE FALSE
  BY <1>1
<1>3. IsWellFoundedOn(R, FiniteSubsetsOf(S))
  BY FS_StrictSubsetOrderingWellFounded
<1>4. PICK T \in Bad : \A U \in Bad : <<U, T>> \notin R
  <2>1. Bad \subseteq FiniteSubsetsOf(S)
    OBVIOUS
  <2> HIDE DEF Bad, R
  <2> QED
    BY <1>2, <1>3, <2>1, WFMin
<1>5. T \in SUBSET S /\ T \notin G
  BY <1>1
<1>6. ASSUME NEW x \in T
      PROVE  T \ {x} \in G
  <2>1. T \ {x} \in SUBSET S /\ T \ {x} \subseteq T /\ T \ {x} # T
    BY <1>5
  <2>2. <<T \ {x}, T>> \in R
    BY <1>5, <2>1 DEF StrictSubsetOrdering
  <2>3. T \ {x} \notin Bad
    BY <1>4, <2>2
  <2> QED
    BY <1>1, <2>1, <2>3
<1> QED
  BY <1>5, <1>6

(* The fold behind SumFunctionOnSet takes the elements in the order CHOOSE *)
(* gives them; one step of it, over a table of the sums of the parts.      *)
FirstOf(s) == CHOOSE x \in s : TRUE

SumStep(g, f, s) == IF s = {} THEN 0 ELSE f[FirstOf(s)] + g[s \ {FirstOf(s)}]

(* g is the table of the sums of f over the parts of S.                    *)
IsSum(g, f, S) == g = [s \in SUBSET S |-> SumStep(g, f, s)]

(* What a recursive function is to the prover: a table chosen among those  *)
(* that satisfy its definition.                                            *)
LEMMA SumUnfolds ==
    ASSUME NEW f, NEW S
    PROVE  SumFunctionOnSet(f, S) = (CHOOSE g : IsSum(g, f, S))[S]
  BY DEF SumFunctionOnSet, FoldFunctionOnSet, MapThenFoldSet, SumStep, FirstOf, IsSum

(* Two such tables agree where their values do.                            *)
LEMMA SumTablesAgree ==
    ASSUME NEW S, IsFiniteSet(S), NEW f, NEW e, \A x \in S : f[x] = e[x],
           NEW T, S \subseteq T, NEW g, IsSum(g, f, S), NEW h, IsSum(h, e, T)
    PROVE  \A s \in SUBSET S : g[s] = h[s]
<1> DEFINE G == {s \in SUBSET S : g[s] = h[s]}
<1>1. ASSUME NEW s \in SUBSET S, \A x \in s : s \ {x} \in G
      PROVE  s \in G
  <2>1. g[s] = SumStep(g, f, s) /\ h[s] = SumStep(h, e, s)
    BY DEF IsSum
  <2>2. s # {} => FirstOf(s) \in s
    BY DEF FirstOf
  <2>3. s # {} => g[s \ {FirstOf(s)}] = h[s \ {FirstOf(s)}] /\ f[FirstOf(s)] = e[FirstOf(s)]
    BY <1>1, <2>2
  <2> QED
    BY <2>1, <2>3 DEF SumStep
<1> HIDE DEF G
<1>2. Inductive(G, S)
  BY <1>1 DEF Inductive
<1> QED
  BY <1>2, SubsetInduction DEF G

(* g is such a table as far as parts of n elements.                        *)
SmallSum(g, f, S, n) ==
    \A s \in SUBSET S : Cardinality(s) <= n => g[s] = SumStep(g, f, s)

(* Induction over the natural numbers, with a set for the property.        *)
LEMMA NatInduct ==
    ASSUME NEW G, 0 \in G, \A n \in Nat : n \in G => n + 1 \in G
    PROVE  \A n \in Nat : n \in G
<1> DEFINE R == OpToRel(<, Nat)
           Bad == Nat \ G
<1>1. SUFFICES ASSUME Bad # {} PROVE FALSE
  OBVIOUS
<1>2. PICK n \in Bad : \A m \in Bad : <<m, n>> \notin R
  <2>1. Bad \subseteq Nat
    OBVIOUS
  <2> HIDE DEF Bad, R
  <2> QED
    BY <1>1, <2>1, WFMin, NatLessThanWellFounded DEF R
<1>3. n # 0 /\ n - 1 \in Nat
  OBVIOUS
<1>4. <<n - 1, n>> \in R
  BY <1>3 DEF OpToRel
<1>5. n - 1 \notin Bad
  BY <1>2, <1>4
<1> QED
  BY <1>3, <1>5

(* There is such a table: it is built up by the size of the parts.         *)
LEMMA SumTableExists ==
    ASSUME NEW S, IsFiniteSet(S), NEW f, \A x \in S : f[x] \in Int
    PROVE  \E g \in [SUBSET S -> Int] : IsSum(g, f, S)
<1> DEFINE G == {n \in Nat : \E g \in [SUBSET S -> Int] : SmallSum(g, f, S, n)}
<1>0. \A s \in SUBSET S : IsFiniteSet(s) /\ Cardinality(s) \in Nat /\ Cardinality(s) <= Cardinality(S)
  BY FS_Subset, FS_CardinalityType
<1>1. 0 \in G
  <2> DEFINE g == [s \in SUBSET S |-> 0]
  <2>1. SmallSum(g, f, S, 0)
    BY <1>0, FS_EmptySet DEF SmallSum, SumStep
  <2>2. g \in [SUBSET S -> Int]
    OBVIOUS
  <2> HIDE DEF g
  <2> QED
    BY <2>1, <2>2
<1>2. ASSUME NEW n \in Nat, n \in G
      PROVE  n + 1 \in G
  <2>1. PICK g \in [SUBSET S -> Int] : SmallSum(g, f, S, n)
    BY <1>2
  <2> DEFINE h == [s \in SUBSET S |-> IF Cardinality(s) <= n THEN g[s] ELSE SumStep(g, f, s)]
  <2>2. h \in [SUBSET S -> Int]
    BY DEF SumStep, FirstOf
  <2>3. ASSUME NEW s \in SUBSET S, Cardinality(s) <= n + 1
        PROVE  h[s] = SumStep(h, f, s)
    <3>1. h[s] = SumStep(g, f, s)
      BY <2>1 DEF SmallSum
    <3>2. CASE s = {}
      BY <3>1, <3>2 DEF SumStep
    <3>3. CASE s # {}
      <4>1. FirstOf(s) \in s
        BY <3>3 DEF FirstOf
      <4>2. Cardinality(s \ {FirstOf(s)}) <= n
        BY <1>0, <2>3, <4>1, FS_RemoveElement
      <4> QED
        BY <3>1, <3>3, <4>1, <4>2 DEF SumStep
    <3> QED
      BY <3>2, <3>3
  <2>4. SmallSum(h, f, S, n + 1)
    BY <2>3 DEF SmallSum
  <2> HIDE DEF h
  <2> QED
    BY <2>2, <2>4
<1> HIDE DEF G
<1>3. Cardinality(S) \in G
  BY <1>0, <1>1, <1>2, NatInduct
<1>4. PICK g \in [SUBSET S -> Int] : SmallSum(g, f, S, Cardinality(S))
  BY <1>3 DEF G
<1>5. g = [s \in SUBSET S |-> SumStep(g, f, s)]
  BY <1>0, <1>4 DEF SmallSum
<1> QED
  BY <1>5 DEF IsSum

IntegersOn(f, S) == \A x \in S : f[x] \in Int

SumsOf(g, f, S) ==
    /\ g \in [SUBSET S -> Int]
    /\ IsSum(g, f, S)
    /\ \A T \in SUBSET S : SumFunctionOnSet(f, T) = g[T]

(* So the sums are what the table says.                                    *)
LEMMA SumIs ==
    ASSUME NEW S, IsFiniteSet(S), NEW f, IntegersOn(f, S)
    PROVE  \E g : SumsOf(g, f, S)
<1> USE DEF IntegersOn
<1>1. PICK g \in [SUBSET S -> Int] : IsSum(g, f, S)
  BY SumTableExists
<1>2. ASSUME NEW T \in SUBSET S
      PROVE  SumFunctionOnSet(f, T) = g[T]
  <2>1. IsFiniteSet(T)
    BY FS_Subset
  <2>2. \E h \in [SUBSET T -> Int] : IsSum(h, f, T)
    BY <2>1, SumTableExists
  <2>3. IsSum(CHOOSE h : IsSum(h, f, T), f, T)
    BY <2>2
  <2>4. \A s \in SUBSET T : (CHOOSE h : IsSum(h, f, T))[s] = g[s]
    BY <1>1, <2>1, <2>3, SumTablesAgree
  <2> QED
    BY <2>4, SumUnfolds
<1> QED
  BY <1>1, <1>2 DEF SumsOf

(* Nothing adds up to zero.                                                *)
LEMMA SumOfNone ==
    ASSUME NEW f
    PROVE  SumFunctionOnSet(f, {}) = 0
<1>1. IsFiniteSet({})
  BY FS_EmptySet
<1>2. PICK g : SumsOf(g, f, {})
  BY <1>1, SumIs DEF IntegersOn
<1> QED
  BY <1>2 DEF SumsOf, IsSum, SumStep

(* Integers add up to an integer.                                          *)
LEMMA SumIsInt ==
    ASSUME NEW S, IsFiniteSet(S), NEW f, \A x \in S : f[x] \in Int
    PROVE  SumFunctionOnSet(f, S) \in Int
<1>1. PICK g : SumsOf(g, f, S)
  BY SumIs DEF IntegersOn
<1> QED
  BY <1>1 DEF SumsOf

(* The sum takes out the element CHOOSE gives it ...                       *)
LEMMA SumTakesFirst ==
    ASSUME NEW S, IsFiniteSet(S), NEW f, \A x \in S : f[x] \in Int,
           NEW T \in SUBSET S, T # {}
    PROVE  /\ FirstOf(T) \in T
           /\ SumFunctionOnSet(f, T) = f[FirstOf(T)] + SumFunctionOnSet(f, T \ {FirstOf(T)})
<1>1. FirstOf(T) \in T
  BY DEF FirstOf
<1>2. PICK g : SumsOf(g, f, S)
  BY SumIs DEF IntegersOn
<1>3. g[T] = f[FirstOf(T)] + g[T \ {FirstOf(T)}]
  BY <1>2 DEF SumsOf, IsSum, SumStep
<1>4. T \ {FirstOf(T)} \in SUBSET S
  OBVIOUS
<1> QED
  BY <1>1, <1>2, <1>3, <1>4 DEF SumsOf

(* ... and any other just as well: the order does not matter.              *)
LEMMA SumTakesAny ==
    ASSUME NEW S, IsFiniteSet(S), NEW f, \A x \in S : f[x] \in Int, NEW a \in S
    PROVE  SumFunctionOnSet(f, S) = f[a] + SumFunctionOnSet(f, S \ {a})
<1> DEFINE Total(T) == SumFunctionOnSet(f, T)
           G == {T \in SUBSET S : \A x \in T : Total(T) = f[x] + Total(T \ {x})}
<1>0. ASSUME NEW T \in SUBSET S
      PROVE  Total(T) \in Int
  BY SumIsInt, FS_Subset
<1>1. ASSUME NEW T \in SUBSET S, \A x \in T : T \ {x} \in G
      PROVE  T \in G
  <2> SUFFICES ASSUME NEW x \in T
               PROVE  Total(T) = f[x] + Total(T \ {x})
    OBVIOUS
  <2> DEFINE y == FirstOf(T)
  <2>1. y \in T /\ Total(T) = f[y] + Total(T \ {y})
    <3>1. T # {}
      OBVIOUS
    <3>2. \A U \in SUBSET S : U # {} =>
            /\ FirstOf(U) \in U
            /\ SumFunctionOnSet(f, U) = f[FirstOf(U)] + SumFunctionOnSet(f, U \ {FirstOf(U)})
      BY SumTakesFirst
    <3> QED
      BY <3>1, <3>2
  <2>2. CASE x = y
    BY <2>1, <2>2
  <2>3. CASE x # y
    <3>1. Total(T \ {y}) = f[x] + Total((T \ {x}) \ {y})
      <4>1. (T \ {y}) \ {x} = (T \ {x}) \ {y}
        OBVIOUS
      <4> QED
        BY <1>1, <2>1, <2>3, <4>1
    <3>2. Total(T \ {x}) = f[y] + Total((T \ {x}) \ {y})
      BY <1>1, <2>1, <2>3
    <3>3. /\ Total(T \ {y}) \in Int /\ Total(T \ {x}) \in Int
          /\ Total((T \ {x}) \ {y}) \in Int /\ f[x] \in Int /\ f[y] \in Int
      BY <1>0, <2>1
    <3> HIDE DEF Total, y
    <3> QED
      BY <2>1, <3>1, <3>2, <3>3
  <2> QED
    BY <2>2, <2>3
<1> HIDE DEF G
<1>2. Inductive(G, S)
  BY <1>1 DEF Inductive
<1>3. S \in G
  BY <1>2, SubsetInduction
<1> QED
  BY <1>3 DEF G

(* Equal terms, equal sums.                                                *)
LEMMA SumsAgree ==
    ASSUME NEW S, IsFiniteSet(S), NEW f, NEW e,
           \A x \in S : f[x] \in Int /\ e[x] = f[x]
    PROVE  SumFunctionOnSet(e, S) = SumFunctionOnSet(f, S)
<1>1. PICK g : SumsOf(g, f, S)
  BY SumIs DEF IntegersOn
<1>2. PICK h : SumsOf(h, e, S)
  BY SumIs DEF IntegersOn
<1>3. g[S] = h[S]
  BY <1>1, <1>2, SumTablesAgree DEF SumsOf
<1> QED
  BY <1>1, <1>2, <1>3 DEF SumsOf

(* Smaller terms, a sum no larger.                                         *)
LEMMA SumAtMost ==
    ASSUME NEW S, IsFiniteSet(S), NEW f, NEW e,
           \A x \in S : f[x] \in Int /\ e[x] \in Int /\ f[x] <= e[x]
    PROVE  SumFunctionOnSet(f, S) <= SumFunctionOnSet(e, S)
<1> DEFINE G == {T \in SUBSET S : SumFunctionOnSet(f, T) <= SumFunctionOnSet(e, T)}
<1>1. ASSUME NEW T \in SUBSET S, \A x \in T : T \ {x} \in G
      PROVE  T \in G
  <2>1. CASE T = {}
    BY <2>1, SumOfNone
  <2>2. CASE T # {}
    <3>1. PICK x \in T : TRUE
      BY <2>2
    <3>2. IsFiniteSet(T) /\ IsFiniteSet(T \ {x})
      BY FS_Subset
    <3>3. /\ SumFunctionOnSet(f, T) = f[x] + SumFunctionOnSet(f, T \ {x})
          /\ SumFunctionOnSet(e, T) = e[x] + SumFunctionOnSet(e, T \ {x})
      BY <3>2, SumTakesAny
    <3>4. SumFunctionOnSet(f, T \ {x}) \in Int /\ SumFunctionOnSet(e, T \ {x}) \in Int
      BY <3>2, SumIsInt
    <3>5. SumFunctionOnSet(f, T \ {x}) <= SumFunctionOnSet(e, T \ {x})
      BY <1>1
    <3>6. SumFunctionOnSet(f, T) <= SumFunctionOnSet(e, T)
      BY <3>3, <3>4, <3>5
    <3> QED
      BY <3>6
  <2> QED
    BY <2>1, <2>2
<1> HIDE DEF G
<1>2. Inductive(G, S)
  BY <1>1 DEF Inductive
<1>3. S \in G
  BY <1>2, SubsetInduction
<1> QED
  BY <1>3 DEF G

(* Zeros add up to zero.                                                   *)
LEMMA SumOfZeros ==
    ASSUME NEW S, IsFiniteSet(S), NEW f, \A x \in S : f[x] = 0
    PROVE  SumFunctionOnSet(f, S) = 0
<1> DEFINE G == {T \in SUBSET S : SumFunctionOnSet(f, T) = 0}
<1>1. ASSUME NEW T \in SUBSET S, \A x \in T : T \ {x} \in G
      PROVE  T \in G
  <2>1. CASE T = {}
    BY <2>1, SumOfNone
  <2>2. CASE T # {}
    <3>1. PICK x \in T : TRUE
      BY <2>2
    <3>2. IsFiniteSet(T)
      BY FS_Subset
    <3>3. SumFunctionOnSet(f, T) = f[x] + SumFunctionOnSet(f, T \ {x})
      BY <3>2, SumTakesAny
    <3>4. SumFunctionOnSet(f, T \ {x}) = 0
      BY <1>1
    <3> QED
      BY <3>3, <3>4
  <2> QED
    BY <2>1, <2>2
<1> HIDE DEF G
<1>2. Inductive(G, S)
  BY <1>1 DEF Inductive
<1>3. S \in G
  BY <1>2, SubsetInduction
<1> QED
  BY <1>3 DEF G

(* The sum of sums is the sum of both.                                     *)
LEMMA SumOfSums ==
    ASSUME NEW S, IsFiniteSet(S), NEW f, NEW e, NEW h,
           \A x \in S : f[x] \in Int /\ e[x] \in Int /\ h[x] = f[x] + e[x]
    PROVE  SumFunctionOnSet(h, S) = SumFunctionOnSet(f, S) + SumFunctionOnSet(e, S)
<1> DEFINE G == {T \in SUBSET S : SumFunctionOnSet(h, T)
                                    = SumFunctionOnSet(f, T) + SumFunctionOnSet(e, T)}
<1>1. ASSUME NEW T \in SUBSET S, \A x \in T : T \ {x} \in G
      PROVE  T \in G
  <2>1. CASE T = {}
    BY <2>1, SumOfNone
  <2>2. CASE T # {}
    <3>1. PICK x \in T : TRUE
      BY <2>2
    <3>2. IsFiniteSet(T) /\ IsFiniteSet(T \ {x})
      BY FS_Subset
    <3>3. /\ SumFunctionOnSet(f, T) = f[x] + SumFunctionOnSet(f, T \ {x})
          /\ SumFunctionOnSet(e, T) = e[x] + SumFunctionOnSet(e, T \ {x})
          /\ SumFunctionOnSet(h, T) = h[x] + SumFunctionOnSet(h, T \ {x})
      BY <3>2, SumTakesAny
    <3>4. SumFunctionOnSet(f, T \ {x}) \in Int /\ SumFunctionOnSet(e, T \ {x}) \in Int
      BY <3>2, SumIsInt
    <3>5. SumFunctionOnSet(h, T \ {x})
            = SumFunctionOnSet(f, T \ {x}) + SumFunctionOnSet(e, T \ {x})
      BY <1>1
    <3>6. SumFunctionOnSet(h, T) = SumFunctionOnSet(f, T) + SumFunctionOnSet(e, T)
      BY <3>3, <3>4, <3>5
    <3> QED
      BY <3>6
  <2> QED
    BY <2>1, <2>2
<1> HIDE DEF G
<1>2. Inductive(G, S)
  BY <1>1 DEF Inductive
<1>3. S \in G
  BY <1>2, SubsetInduction
<1> QED
  BY <1>3 DEF G

(* Natural numbers add up to a natural number.                             *)
LEMMA SumIsNat ==
    ASSUME NEW S, IsFiniteSet(S), NEW f, \A x \in S : f[x] \in Nat
    PROVE  SumFunctionOnSet(f, S) \in Nat
<1> DEFINE zero == [x \in S |-> 0]
<1>1. SumFunctionOnSet(zero, S) = 0
  BY SumOfZeros
<1>2. SumFunctionOnSet(zero, S) <= SumFunctionOnSet(f, S)
  <2>1. \A x \in S : zero[x] \in Int /\ f[x] \in Int /\ zero[x] <= f[x]
    OBVIOUS
  <2> HIDE DEF zero
  <2> QED
    BY <2>1, SumAtMost
<1>3. SumFunctionOnSet(f, S) \in Int
  BY SumIsInt
<1> QED
  BY <1>1, <1>2, <1>3

(* No term is larger than a sum of natural numbers.                        *)
LEMMA PartOfSum ==
    ASSUME NEW S, IsFiniteSet(S), NEW f, \A x \in S : f[x] \in Nat, NEW a \in S
    PROVE  f[a] <= SumFunctionOnSet(f, S)
<1>1. SumFunctionOnSet(f, S) = f[a] + SumFunctionOnSet(f, S \ {a})
  BY SumTakesAny
<1>2. SumFunctionOnSet(f, S \ {a}) \in Nat
  BY SumIsNat, FS_Subset
<1> QED
  BY <1>1, <1>2

(* When one term changes, the sum changes by as much.                      *)
LEMMA SumChanges ==
    ASSUME NEW S, IsFiniteSet(S), NEW f, NEW e, NEW a \in S, f[a] \in Int, e[a] \in Int,
           \A x \in S : x # a => f[x] \in Int /\ e[x] = f[x]
    PROVE  SumFunctionOnSet(e, S) = SumFunctionOnSet(f, S) + (e[a] - f[a])
<1>1. /\ SumFunctionOnSet(f, S) = f[a] + SumFunctionOnSet(f, S \ {a})
      /\ SumFunctionOnSet(e, S) = e[a] + SumFunctionOnSet(e, S \ {a})
  BY SumTakesAny
<1>2. IsFiniteSet(S \ {a})
  BY FS_Subset
<1>3. SumFunctionOnSet(e, S \ {a}) = SumFunctionOnSet(f, S \ {a})
  BY <1>2, SumsAgree
<1>4. SumFunctionOnSet(f, S \ {a}) \in Int
  BY <1>2, SumIsInt
<1> QED
  BY <1>1, <1>3, <1>4

(* Terms that are zero can be left out.                                    *)
LEMMA SumOnPart ==
    ASSUME NEW S, IsFiniteSet(S), NEW T \in SUBSET S, NEW f,
           \A x \in T : f[x] \in Int, \A x \in S \ T : f[x] = 0
    PROVE  SumFunctionOnSet(f, S) = SumFunctionOnSet(f, T)
<1> DEFINE G == {U \in SUBSET S : SumFunctionOnSet(f, U) = SumFunctionOnSet(f, U \cap T)}
<1>0. \A x \in S : f[x] \in Int
  OBVIOUS
<1>1. ASSUME NEW U \in SUBSET S, \A x \in U : U \ {x} \in G
      PROVE  U \in G
  <2>1. CASE U \subseteq T
    <3>1. U \cap T = U
      BY <2>1
    <3> QED
      BY <3>1
  <2>2. CASE ~(U \subseteq T)
    <3>1. PICK x \in U : x \notin T
      BY <2>2
    <3>2. IsFiniteSet(U) /\ IsFiniteSet(U \ {x})
      BY FS_Subset
    <3>3. SumFunctionOnSet(f, U) = f[x] + SumFunctionOnSet(f, U \ {x})
      BY <1>0, <3>2, SumTakesAny
    <3>4. SumFunctionOnSet(f, U \ {x}) = SumFunctionOnSet(f, (U \ {x}) \cap T)
      BY <1>1
    <3>5. (U \ {x}) \cap T = U \cap T
      BY <3>1
    <3>6. SumFunctionOnSet(f, U \ {x}) \in Int
      BY <1>0, <3>2, SumIsInt
    <3>7. f[x] = 0
      BY <3>1
    <3>8. SumFunctionOnSet(f, U) = SumFunctionOnSet(f, U \ {x})
      BY <3>3, <3>6, <3>7
    <3>9. SumFunctionOnSet(f, U) = SumFunctionOnSet(f, U \cap T)
      BY <3>4, <3>5, <3>8
    <3> QED
      BY <3>9
  <2> QED
    BY <2>1, <2>2
<1> HIDE DEF G
<1>2. Inductive(G, S)
  BY <1>1 DEF Inductive
<1>3. S \in G
  BY <1>2, SubsetInduction
<1>4. S \cap T = T
  OBVIOUS
<1> QED
  BY <1>3, <1>4 DEF G

(* The sum of a function that agrees with f is the sum of f over its       *)
(* domain.                                                                 *)
LEMMA SumOfTable ==
    ASSUME NEW S, IsFiniteSet(S), NEW f, \A x \in S : f[x] \in Int,
           NEW g, DOMAIN g = S, \A x \in S : g[x] = f[x]
    PROVE  SumFunction(g) = SumFunctionOnSet(f, S)
<1>1. SumFunctionOnSet(g, S) = SumFunctionOnSet(f, S)
  BY SumsAgree
<1> QED
  BY <1>1 DEF SumFunction

(* Fewer natural numbers add up to no more.                                *)
LEMMA SumOfFewer ==
    ASSUME NEW S, IsFiniteSet(S), NEW T \in SUBSET S, NEW f, \A x \in S : f[x] \in Nat
    PROVE  SumFunctionOnSet(f, T) <= SumFunctionOnSet(f, S)
<1> DEFINE e == [x \in S |-> IF x \in T THEN f[x] ELSE 0]
<1>1. \A x \in S : e[x] \in Int /\ f[x] \in Int /\ e[x] <= f[x]
  OBVIOUS
<1>2. \A x \in T : e[x] \in Int
  BY <1>1
<1>3. \A x \in S \ T : e[x] = 0
  OBVIOUS
<1>4. IsFiniteSet(T) /\ \A x \in T : f[x] \in Int /\ e[x] = f[x]
  BY FS_Subset
<1> HIDE DEF e
<1>5. SumFunctionOnSet(e, S) <= SumFunctionOnSet(f, S)
  BY <1>1, SumAtMost
<1>6. SumFunctionOnSet(e, S) = SumFunctionOnSet(e, T)
  BY <1>2, <1>3, SumOnPart
<1>7. SumFunctionOnSet(e, T) = SumFunctionOnSet(f, T)
  BY <1>4, SumsAgree
<1> QED
  BY <1>5, <1>6, <1>7

(* A sum of natural numbers is positive when one of them is.               *)
LEMMA SumIsPositive ==
    ASSUME NEW S, IsFiniteSet(S), NEW f, \A x \in S : f[x] \in Nat
    PROVE  SumFunctionOnSet(f, S) > 0 <=> \E x \in S : f[x] > 0
<1>1. SumFunctionOnSet(f, S) \in Nat
  BY SumIsNat
<1>2. ASSUME NEW x \in S, f[x] > 0
      PROVE  SumFunctionOnSet(f, S) > 0
  <2>1. f[x] <= SumFunctionOnSet(f, S)
    BY PartOfSum
  <2> QED
    BY <1>1, <1>2, <2>1
<1>3. ASSUME ~\E x \in S : f[x] > 0
      PROVE  SumFunctionOnSet(f, S) = 0
  <2>1. \A x \in S : f[x] = 0
    BY <1>3
  <2> QED
    BY <2>1, SumOfZeros
<1> QED
  BY <1>1, <1>2, <1>3

(* The sums of the parts a set falls into, and that they add up to its     *)
(* sum.                                                                    *)
PartSums(f, T, K, part) == [k \in K |-> SumFunctionOnSet(f, {x \in T : part[x] = k})]

LEMMA SumOfParts ==
    ASSUME NEW S, IsFiniteSet(S), NEW f, \A x \in S : f[x] \in Int,
           NEW K, IsFiniteSet(K), NEW part, \A x \in S : part[x] \in K
    PROVE  SumFunctionOnSet(PartSums(f, S, K, part), K) = SumFunctionOnSet(f, S)
<1> DEFINE Parts(T) == PartSums(f, T, K, part)
           G == {T \in SUBSET S : SumFunctionOnSet(Parts(T), K) = SumFunctionOnSet(f, T)}
<1>0. ASSUME NEW T \in SUBSET S, NEW k \in K
      PROVE  /\ IsFiniteSet({x \in T : part[x] = k})
             /\ Parts(T)[k] = SumFunctionOnSet(f, {x \in T : part[x] = k})
             /\ Parts(T)[k] \in Int
  <2>1. IsFiniteSet({x \in T : part[x] = k})
    BY FS_Subset
  <2>2. SumFunctionOnSet(f, {x \in T : part[x] = k}) \in Int
    BY <2>1, SumIsInt
  <2> QED
    BY <2>1, <2>2 DEF PartSums
<1>1. ASSUME NEW T \in SUBSET S, \A x \in T : T \ {x} \in G
      PROVE  T \in G
  <2>1. CASE T = {}
    <3>1. \A k \in K : Parts(T)[k] = 0
      <4> TAKE k \in K
      <4>1. {x \in T : part[x] = k} = {}
        BY <2>1
      <4> QED
        BY <1>0, <4>1, SumOfNone
    <3>2. SumFunctionOnSet(Parts(T), K) = 0
      <4> HIDE DEF Parts
      <4> QED
        BY <3>1, SumOfZeros
    <3> QED
      BY <2>1, <3>2, SumOfNone
  <2>2. CASE T # {}
    <3>1. PICK x \in T : TRUE
      BY <2>2
    <3> DEFINE U == T \ {x}
               k == part[x]
    <3>2. U \in SUBSET S /\ IsFiniteSet(T) /\ IsFiniteSet(U) /\ k \in K
      BY FS_Subset
    <3>3. SumFunctionOnSet(f, T) = f[x] + SumFunctionOnSet(f, U)
      BY <3>2, SumTakesAny
    <3>4. \A l \in K : l # k => Parts(T)[l] = Parts(U)[l]
      <4> TAKE l \in K
      <4> HAVE l # k
      <4>1. {y \in T : part[y] = l} = {y \in U : part[y] = l}
        OBVIOUS
      <4>2. /\ Parts(T)[l] = SumFunctionOnSet(f, {y \in T : part[y] = l})
            /\ Parts(U)[l] = SumFunctionOnSet(f, {y \in U : part[y] = l})
        <5> HIDE DEF Parts, U
        <5> QED
          BY <1>0, <3>2
      <4> QED
        BY <4>1, <4>2
    <3>5. Parts(T)[k] = f[x] + Parts(U)[k]
      <4> DEFINE P == {y \in T : part[y] = k}
      <4>1. x \in P /\ {y \in U : part[y] = k} = P \ {x}
        BY <3>1
      <4>2. IsFiniteSet(P) /\ \A y \in P : f[y] \in Int
        BY <1>0, <3>2
      <4>3. SumFunctionOnSet(f, P) = f[x] + SumFunctionOnSet(f, P \ {x})
        <5> HIDE DEF P
        <5> QED
          BY <4>1, <4>2, SumTakesAny
      <4>4. /\ Parts(T)[k] = SumFunctionOnSet(f, P)
            /\ Parts(U)[k] = SumFunctionOnSet(f, {y \in U : part[y] = k})
        <5> HIDE DEF Parts, U, k
        <5> QED
          BY <1>0, <3>2
      <4> QED
        BY <4>1, <4>3, <4>4
    <3>6. \A l \in K : Parts(T)[l] \in Int /\ Parts(U)[l] \in Int
      BY <1>0, <3>2
    <3>7. SumFunctionOnSet(Parts(T), K)
            = SumFunctionOnSet(Parts(U), K) + (Parts(T)[k] - Parts(U)[k])
      <4> HIDE DEF Parts, U, k
      <4>1. \A l \in K : l # k => Parts(U)[l] \in Int /\ Parts(T)[l] = Parts(U)[l]
        BY <3>4, <3>6
      <4>2. Parts(U)[k] \in Int /\ Parts(T)[k] \in Int
        BY <3>2, <3>6
      <4> QED
        BY <3>2, <4>1, <4>2, SumChanges
    <3>8. SumFunctionOnSet(Parts(U), K) = SumFunctionOnSet(f, U)
      BY <1>1
    <3>9. SumFunctionOnSet(f, U) \in Int /\ f[x] \in Int
      BY <3>2, SumIsInt
    <3>10. SumFunctionOnSet(Parts(T), K) = SumFunctionOnSet(f, T)
      <4> HIDE DEF Parts, U, k
      <4> QED
        BY <3>2, <3>3, <3>5, <3>6, <3>7, <3>8, <3>9
    <3> QED
      BY <3>10
  <2> QED
    BY <2>1, <2>2
<1> HIDE DEF G
<1>2. Inductive(G, S)
  BY <1>1 DEF Inductive
<1>3. S \in G
  BY <1>2, SubsetInduction
<1> QED
  BY <1>3 DEF G

(* A table with two indices adds up to the same by rows and by columns.    *)
RowSums(m, A, B) == [a \in A |-> SumFunctionOnSet(m[a], B)]
Column(m, A, b) == [a \in A |-> m[a][b]]
ColumnSums(m, A, B) == [b \in B |-> SumFunctionOnSet(Column(m, A, b), A)]

LEMMA SumByRowOrColumn ==
    ASSUME NEW A, IsFiniteSet(A), NEW B, IsFiniteSet(B), NEW m,
           \A a \in A, b \in B : m[a][b] \in Int
    PROVE  SumFunctionOnSet(RowSums(m, A, B), A) = SumFunctionOnSet(ColumnSums(m, A, B), B)
<1> DEFINE R == RowSums(m, A, B)
           C(T) == [b \in B |-> SumFunctionOnSet(Column(m, A, b), T)]
           G == {T \in SUBSET A : SumFunctionOnSet(R, T) = SumFunctionOnSet(C(T), B)}
<1>0. \A a \in A : R[a] = SumFunctionOnSet(m[a], B) /\ R[a] \in Int
  BY SumIsInt DEF RowSums
<1>1. ASSUME NEW T \in SUBSET A, NEW b \in B
      PROVE  C(T)[b] = SumFunctionOnSet(Column(m, A, b), T) /\ C(T)[b] \in Int
  <2>1. IsFiniteSet(T) /\ \A a \in T : Column(m, A, b)[a] \in Int
    BY FS_Subset DEF Column
  <2> QED
    BY <2>1, SumIsInt
<1>2. ASSUME NEW T \in SUBSET A, \A a \in T : T \ {a} \in G
      PROVE  T \in G
  <2>1. CASE T = {}
    <3>1. \A b \in B : C(T)[b] = 0
      BY <1>1, <2>1, SumOfNone
    <3>2. SumFunctionOnSet(C(T), B) = 0
      <4> HIDE DEF C
      <4> QED
        BY <3>1, SumOfZeros
    <3> QED
      BY <2>1, <3>2, SumOfNone
  <2>2. CASE T # {}
    <3>1. PICK a \in T : TRUE
      BY <2>2
    <3> DEFINE U == T \ {a}
    <3>2. U \in SUBSET A /\ IsFiniteSet(T) /\ IsFiniteSet(U) /\ a \in A
      BY FS_Subset
    <3>3. SumFunctionOnSet(R, T) = R[a] + SumFunctionOnSet(R, U)
      <4> HIDE DEF R
      <4> QED
        BY <1>0, <3>2, SumTakesAny
    <3>4. \A b \in B : /\ m[a][b] \in Int /\ C(U)[b] \in Int
                       /\ C(T)[b] = m[a][b] + C(U)[b]
      <4> TAKE b \in B
      <4>1. \A x \in T : Column(m, A, b)[x] \in Int
        BY DEF Column
      <4>2. SumFunctionOnSet(Column(m, A, b), T)
              = Column(m, A, b)[a] + SumFunctionOnSet(Column(m, A, b), U)
        BY <3>2, <4>1, SumTakesAny
      <4>3. Column(m, A, b)[a] = m[a][b]
        BY <3>2 DEF Column
      <4> QED
        BY <1>1, <3>2, <4>2, <4>3
    <3>5. SumFunctionOnSet(C(T), B) = SumFunctionOnSet(m[a], B) + SumFunctionOnSet(C(U), B)
      <4> HIDE DEF C, U
      <4> QED
        BY <3>4, SumOfSums
    <3>6. SumFunctionOnSet(R, U) = SumFunctionOnSet(C(U), B)
      BY <1>2
    <3>7. SumFunctionOnSet(R, T) = SumFunctionOnSet(C(T), B)
      BY <1>0, <3>2, <3>3, <3>5, <3>6
    <3> QED
      BY <3>7
  <2> QED
    BY <2>1, <2>2
<1>3. Inductive(G, A)
  BY <1>2 DEF Inductive
<1>4. A \in G
  <2> HIDE DEF G
  <2> QED
    BY <1>3, SubsetInduction
<1>5. SumFunctionOnSet(R, A) = SumFunctionOnSet(C(A), B)
  BY <1>4
<1> QED
  BY <1>5 DEF ColumnSums

(* Two disjoint sets are counted by counting each.                         *)
LEMMA CountOfParts ==
    ASSUME NEW S, IsFiniteSet(S), NEW T, IsFiniteSet(T), S \cap T = {}
    PROVE  Cardinality(S \cup T) = Cardinality(S) + Cardinality(T)
<1>1. Cardinality(S \cup T) = Cardinality(S) + Cardinality(T) - Cardinality(S \cap T)
  BY FS_Union
<1>2. Cardinality(S \cap T) = 0
  BY FS_EmptySet
<1>3. Cardinality(S) \in Nat /\ Cardinality(T) \in Nat
  BY FS_CardinalityType
<1> QED
  BY <1>1, <1>2, <1>3

=============================================================================
