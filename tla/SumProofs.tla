------------------------------ MODULE SumProofs ------------------------------
(***************************************************************************)
(* Proofs about the modules that add up: EmissionAllocator, TileEconomy    *)
(* and TwinMerge, for any claims, amounts, accounts and points.            *)
(***************************************************************************)
EXTENDS EmissionAllocator, TileEconomy, TwinMerge, FiniteSetTheorems, WellFoundedInduction, TLAPS

-----------------------------------------------------------------------------
(* Sums over finite sets.  SumFunction takes its terms in an order that a  *)
(* CHOOSE fixes; these lemmas say that the order does not matter.  They go *)
(* by a least set for which they would fail.                               *)

(* < on the naturals, as a set of pairs. *)
Below == {ss \in Nat \X Nat : ss[1] < ss[2]}

LEMMA Smallest ==
  ASSUME NEW S \in SUBSET Nat, S # {}
  PROVE  \E m \in S : \A k \in S : m <= k
<1>1. IsWellFoundedOn(Below, Nat)
  BY NatLessThanWellFounded DEF OpToRel, Below
<1>2. PICK m \in S : \A y \in S : <<y, m>> \notin Below
  BY <1>1, WFMin
<1>3. SUFFICES ASSUME NEW k \in S, k < m PROVE FALSE
  OBVIOUS
<1>4. <<k, m>> \in Nat \X Nat /\ <<k, m>>[1] < <<k, m>>[2]
  BY <1>3
<1>. QED
  BY <1>2, <1>4 DEF Below

(* Induction over the parts of a finite set, for a set Good of them. *)
LEMMA PartByPart ==
  ASSUME NEW S, IsFiniteSet(S), NEW Good,
         \A X \in SUBSET S : (\A Y \in SUBSET X : Y # X => Y \in Good) => X \in Good
  PROVE  \A X \in SUBSET S : X \in Good
<1> DEFINE Bad == {X \in SUBSET S : X \notin Good}
           Sizes == {Cardinality(X) : X \in Bad}
<1>1. SUFFICES ASSUME Bad # {} PROVE FALSE
  OBVIOUS
<1>2. \A X \in SUBSET S : IsFiniteSet(X) /\ Cardinality(X) \in Nat
  BY FS_Subset, FS_CardinalityType
<1>3. Sizes \in SUBSET Nat /\ Sizes # {}
  BY <1>1, <1>2
<1>4. PICK n \in Sizes : \A k \in Sizes : n <= k
  BY <1>3, Smallest
<1>5. PICK X \in Bad : Cardinality(X) = n
  BY <1>4
<1>6. ASSUME NEW Y \in SUBSET X, Y # X, Y \notin Good PROVE FALSE
  <2>1. Y \in Bad /\ Cardinality(Y) <= Cardinality(X) /\ Cardinality(Y) # Cardinality(X)
    BY <1>2, <1>6, FS_Subset
  <2>. QED BY <1>2, <1>4, <1>5, <2>1
<1>. QED BY <1>5, <1>6

(* SumFunctionOnSet, by the function its definition builds. *)
Any(X) == CHOOSE x \in X : TRUE
Sums(T, f, S) == T = [X \in SUBSET S |-> IF X = {} THEN 0 ELSE f[Any(X)] + T[X \ {Any(X)}]]

LEMMA SumByDef ==
  ASSUME NEW f, NEW S
  PROVE  SumFunctionOnSet(f, S) = (CHOOSE T : Sums(T, f, S))[S]
BY DEF SumFunctionOnSet, FoldFunctionOnSet, MapThenFoldSet, Sums, Any

LEMMA AnyIn == ASSUME NEW X, X # {} PROVE Any(X) \in X
BY DEF Any

LEMMA SumsAgree ==
  ASSUME NEW S, IsFiniteSet(S), NEW f, NEW T, Sums(T, f, S), NEW R \in SUBSET S, NEW U, Sums(U, f, R)
  PROVE  U[R] = T[R]
<1> DEFINE Good == {X \in SUBSET R : U[X] = T[X]}
<1>1. IsFiniteSet(R)
  BY FS_Subset
<1>2. ASSUME NEW X \in SUBSET R, \A Y \in SUBSET X : Y # X => Y \in Good PROVE X \in Good
  <2>1. CASE X = {}
    BY <2>1 DEF Sums
  <2>2. CASE X # {}
    <3>1. X \ {Any(X)} \in Good
      BY <1>2, <2>2, AnyIn
    <3>2. U[X] = f[Any(X)] + U[X \ {Any(X)}] /\ T[X] = f[Any(X)] + T[X \ {Any(X)}]
      BY <2>2 DEF Sums
    <3>. QED BY <3>1, <3>2
  <2>. QED BY <2>1, <2>2
<1> HIDE DEF Good
<1>3. \A X \in SUBSET R : X \in Good
  BY <1>1, <1>2, PartByPart
<1>. QED BY <1>3 DEF Good

(* Such a function exists for every finite set. *)
LEMMA SumsExist ==
  ASSUME NEW S, IsFiniteSet(S), NEW f
  PROVE  \A X \in SUBSET S : \E T : Sums(T, f, X)
<1> DEFINE Good == {X \in SUBSET S : \E T : Sums(T, f, X)}
           V(X) == (CHOOSE T : Sums(T, f, X))[X]
<1>1. ASSUME NEW X \in SUBSET S, \A Y \in SUBSET X : Y # X => Y \in Good PROVE X \in Good
  <2> DEFINE T == [Y \in SUBSET X |-> IF Y # X THEN V(Y)
                                      ELSE IF Y = {} THEN 0 ELSE f[Any(Y)] + V(Y \ {Any(Y)})]
  <2>1. \A Y \in SUBSET X : IsFiniteSet(Y)
    BY FS_Subset
  <2>2. ASSUME NEW Y \in SUBSET X, Y # X
        PROVE  V(Y) = IF Y = {} THEN 0 ELSE f[Any(Y)] + V(Y \ {Any(Y)})
    <3> DEFINE U == CHOOSE W : Sums(W, f, Y)
    <3>1. Sums(U, f, Y)
      BY <1>1, <2>2
    <3>2. CASE Y = {}
      BY <3>1, <3>2 DEF Sums
    <3>3. CASE Y # {}
      <4> DEFINE Z == Y \ {Any(Y)}
                 W == CHOOSE W : Sums(W, f, Z)
      <4>1. Z \in SUBSET Y /\ Z \in SUBSET X /\ Z # X
        BY <2>2, <3>3, AnyIn
      <4>2. Sums(W, f, Z)
        BY <1>1, <4>1
      <4> HIDE DEF U, W
      <4>3. W[Z] = U[Z]
        BY <2>1, <3>1, <4>1, <4>2, SumsAgree
      <4>4. U[Y] = f[Any(Y)] + U[Z]
        BY <3>1, <3>3 DEF Sums
      <4>. QED BY <3>3, <4>3, <4>4 DEF U, W
    <3>. QED BY <3>2, <3>3
  <2>3. \A Y \in SUBSET X : T[Y] = IF Y = {} THEN 0 ELSE f[Any(Y)] + T[Y \ {Any(Y)}]
    <3>1. \A Y \in SUBSET X : Y # {} => Y \ {Any(Y)} \in SUBSET X /\ Y \ {Any(Y)} # X
      BY AnyIn
    <3> HIDE DEF V
    <3>. QED BY <2>2, <3>1
  <2>4. Sums(T, f, X)
    <3> HIDE DEF V
    <3>. QED BY <2>3 DEF Sums
  <2> HIDE DEF T
  <2>. QED BY <2>4
<1> HIDE DEF Good
<1>2. \A X \in SUBSET S : X \in Good
  BY <1>1, PartByPart
<1>. QED BY <1>2 DEF Good

(* What is used of SumFunctionOnSet: its value for nothing and for more. *)
LEMMA SumStep ==
  ASSUME NEW S, IsFiniteSet(S), NEW f
  PROVE  SumFunctionOnSet(f, S)
           = IF S = {} THEN 0 ELSE f[Any(S)] + SumFunctionOnSet(f, S \ {Any(S)})
<1> DEFINE T == CHOOSE T : Sums(T, f, S)
<1>1. Sums(T, f, S) /\ SumFunctionOnSet(f, S) = T[S]
  BY SumsExist, SumByDef
<1>2. CASE S = {}
  BY <1>1, <1>2 DEF Sums
<1>3. CASE S # {}
  <2> DEFINE R == S \ {Any(S)}
             U == CHOOSE U : Sums(U, f, R)
  <2>1. R \in SUBSET S
    OBVIOUS
  <2>2. Sums(U, f, R) /\ SumFunctionOnSet(f, R) = U[R]
    BY <2>1, SumsExist, SumByDef
  <2> HIDE DEF T, U
  <2>3. U[R] = T[R]
    BY <1>1, <2>1, <2>2, SumsAgree
  <2>4. T[S] = f[Any(S)] + T[R]
    BY <1>1, <1>3 DEF Sums
  <2>. QED BY <1>1, <1>3, <2>2, <2>3, <2>4
<1>. QED BY <1>2, <1>3

LEMMA SumType ==
  ASSUME NEW S, IsFiniteSet(S), NEW f, \A x \in S : f[x] \in Int
  PROVE  \A X \in SUBSET S : SumFunctionOnSet(f, X) \in Int
<1> DEFINE Good == {X \in SUBSET S : SumFunctionOnSet(f, X) \in Int}
<1>1. ASSUME NEW X \in SUBSET S, \A Y \in SUBSET X : Y # X => Y \in Good PROVE X \in Good
  <2>1. IsFiniteSet(X)
    BY FS_Subset
  <2>2. CASE X = {}
    BY <2>1, <2>2, SumStep
  <2>3. CASE X # {}
    <3>1. Any(X) \in X /\ X \ {Any(X)} \in Good
      BY <1>1, <2>3, AnyIn
    <3>2. SumFunctionOnSet(f, X) = f[Any(X)] + SumFunctionOnSet(f, X \ {Any(X)})
      BY <2>1, <2>3, SumStep
    <3>. QED BY <3>1, <3>2
  <2>. QED BY <2>2, <2>3
<1> HIDE DEF Good
<1>2. \A X \in SUBSET S : X \in Good
  BY <1>1, PartByPart
<1>. QED BY <1>2 DEF Good

(* Any element can be taken out, not only the one that the definition takes. *)
LEMMA SumSplit ==
  ASSUME NEW S, IsFiniteSet(S), NEW f, \A x \in S : f[x] \in Int
  PROVE  \A X \in SUBSET S : \A x \in X :
           SumFunctionOnSet(f, X) = f[x] + SumFunctionOnSet(f, X \ {x})
<1> DEFINE Sum(X) == SumFunctionOnSet(f, X)
           Good == {X \in SUBSET S : \A x \in X : Sum(X) = f[x] + Sum(X \ {x})}
<1>0. \A X \in SUBSET S : IsFiniteSet(X) /\ Sum(X) \in Int
  BY FS_Subset, SumType
<1>1. ASSUME NEW X \in SUBSET S, \A Y \in SUBSET X : Y # X => Y \in Good PROVE X \in Good
  <2>1. SUFFICES ASSUME NEW x \in X PROVE Sum(X) = f[x] + Sum(X \ {x})
    OBVIOUS
  <2> DEFINE c == Any(X)
  <2>2. c \in X /\ Sum(X) = f[c] + Sum(X \ {c})
    BY <1>0, AnyIn, SumStep
  <2>3. CASE x = c
    BY <2>2, <2>3
  <2>4. CASE x # c
    <3>1. X \ {c} \in Good /\ X \ {x} \in Good
      BY <1>1, <2>2
    <3>2. Sum(X \ {c}) = f[x] + Sum((X \ {c}) \ {x})
      BY <2>4, <3>1
    <3>3. Sum(X \ {x}) = f[c] + Sum((X \ {x}) \ {c})
      BY <2>2, <2>4, <3>1
    <3>4. (X \ {c}) \ {x} = (X \ {x}) \ {c}
      OBVIOUS
    <3> DEFINE R == (X \ {x}) \ {c}
    <3>5. R \in SUBSET S /\ f[x] \in Int /\ f[c] \in Int /\ Sum(R) \in Int
      BY <1>0, <2>2
    <3>6. Sum(X) = f[c] + (f[x] + Sum(R)) /\ Sum(X \ {x}) = f[c] + Sum(R)
      BY <2>2, <3>2, <3>3, <3>4
    <3> HIDE DEF Sum, R, c
    <3>. QED BY <3>5, <3>6
  <2>. QED BY <2>3, <2>4
<1> HIDE DEF Good
<1>2. \A X \in SUBSET S : X \in Good
  BY <1>1, PartByPart
<1>. QED BY <1>2 DEF Good

LEMMA SumTake ==
  ASSUME NEW S, IsFiniteSet(S), NEW f, \A x \in S : f[x] \in Int, NEW c \in S
  PROVE  /\ SumFunctionOnSet(f, S) = f[c] + SumFunctionOnSet(f, S \ {c})
         /\ SumFunctionOnSet(f, S) \in Int /\ SumFunctionOnSet(f, S \ {c}) \in Int
<1>1. S \in SUBSET S /\ S \ {c} \in SUBSET S
  OBVIOUS
<1>2. SumFunctionOnSet(f, S) \in Int /\ SumFunctionOnSet(f, S \ {c}) \in Int
  BY <1>1, SumType
<1>3. SumFunctionOnSet(f, S) = f[c] + SumFunctionOnSet(f, S \ {c})
  BY <1>1, SumSplit
<1>. QED BY <1>2, <1>3

(* A sum that is nowhere larger is not larger. *)
LEMMA SumLess ==
  ASSUME NEW S, IsFiniteSet(S), NEW f, NEW g,
         \A x \in S : f[x] \in Int /\ g[x] \in Int /\ f[x] <= g[x]
  PROVE  SumFunctionOnSet(f, S) <= SumFunctionOnSet(g, S)
<1> DEFINE Good == {X \in SUBSET S : SumFunctionOnSet(f, X) <= SumFunctionOnSet(g, X)}
<1>0. \A X \in SUBSET S : /\ IsFiniteSet(X)
                          /\ SumFunctionOnSet(f, X) \in Int /\ SumFunctionOnSet(g, X) \in Int
  BY FS_Subset, SumType
<1>1. ASSUME NEW X \in SUBSET S, \A Y \in SUBSET X : Y # X => Y \in Good PROVE X \in Good
  <2>1. CASE X = {}
    BY <1>0, <2>1, SumStep
  <2>2. CASE X # {}
    <3>1. Any(X) \in X /\ X \ {Any(X)} \in Good
      BY <1>1, <2>2, AnyIn
    <3>2. /\ SumFunctionOnSet(f, X) = f[Any(X)] + SumFunctionOnSet(f, X \ {Any(X)})
          /\ SumFunctionOnSet(g, X) = g[Any(X)] + SumFunctionOnSet(g, X \ {Any(X)})
      BY <1>0, <2>2, SumStep
    <3>. QED BY <1>0, <3>1, <3>2
  <2>. QED BY <2>1, <2>2
<1> HIDE DEF Good
<1>2. S \in Good
  BY <1>1, PartByPart
<1>. QED BY <1>2 DEF Good

LEMMA SumOfNaturals ==
  ASSUME NEW S, IsFiniteSet(S), NEW f, \A x \in S : f[x] \in Nat
  PROVE  SumFunctionOnSet(f, S) \in Nat
<1> DEFINE Good == {X \in SUBSET S : SumFunctionOnSet(f, X) \in Nat}
<1>1. ASSUME NEW X \in SUBSET S, \A Y \in SUBSET X : Y # X => Y \in Good PROVE X \in Good
  <2>1. IsFiniteSet(X)
    BY FS_Subset
  <2>2. CASE X = {}
    <3>1. SumFunctionOnSet(f, X) = 0
      BY <2>1, <2>2, SumStep
    <3>. QED BY <3>1
  <2>3. CASE X # {}
    <3>1. Any(X) \in X /\ X \ {Any(X)} \in Good
      BY <1>1, <2>3, AnyIn
    <3>2. SumFunctionOnSet(f, X) = f[Any(X)] + SumFunctionOnSet(f, X \ {Any(X)})
      BY <2>1, <2>3, SumStep
    <3>. QED BY <3>1, <3>2
  <2>. QED BY <2>2, <2>3
<1> HIDE DEF Good
<1>2. S \in Good
  BY <1>1, PartByPart
<1>. QED BY <1>2 DEF Good

(* Only the values on the set matter. *)
LEMMA SumSame ==
  ASSUME NEW S, IsFiniteSet(S), NEW f, NEW g, \A x \in S : f[x] \in Int /\ f[x] = g[x]
  PROVE  SumFunctionOnSet(f, S) = SumFunctionOnSet(g, S)
<1>1. SumFunctionOnSet(f, S) <= SumFunctionOnSet(g, S) /\ SumFunctionOnSet(g, S) <= SumFunctionOnSet(f, S)
  BY SumLess
<1>. QED BY <1>1, SumType

(* A sum changes as much as its one term that changes. *)
LEMMA SumChange ==
  ASSUME NEW S, IsFiniteSet(S), NEW f, NEW g, NEW c \in S,
         \A x \in S : f[x] \in Int /\ g[x] \in Int,
         \A x \in S : x # c => f[x] = g[x]
  PROVE  SumFunctionOnSet(g, S) = SumFunctionOnSet(f, S) + g[c] - f[c]
<1>1. IsFiniteSet(S \ {c})
  BY FS_Subset
<1>2. SumFunctionOnSet(f, S \ {c}) = SumFunctionOnSet(g, S \ {c})
  BY <1>1, SumSame
<1>3. /\ SumFunctionOnSet(f, S) = f[c] + SumFunctionOnSet(f, S \ {c})
      /\ SumFunctionOnSet(g, S) = g[c] + SumFunctionOnSet(g, S \ {c})
  BY SumSplit
<1>4. SumFunctionOnSet(f, S \ {c}) \in Int
  BY <1>1, SumType
<1>. QED BY <1>2, <1>3, <1>4

(* A sum gains the term of an element that joins. *)
LEMMA SumMore ==
  ASSUME NEW S, IsFiniteSet(S), NEW f, NEW g, NEW c, c \notin S, g[c] \in Int,
         \A x \in S : f[x] \in Int, \A x \in S : f[x] = g[x]
  PROVE  SumFunctionOnSet(g, S \cup {c}) = SumFunctionOnSet(f, S) + g[c]
<1>1. IsFiniteSet(S \cup {c})
  BY FS_AddElement
<1>2. SumFunctionOnSet(g, S \cup {c}) = g[c] + SumFunctionOnSet(g, (S \cup {c}) \ {c})
  BY <1>1, SumSplit
<1>3. (S \cup {c}) \ {c} = S /\ SumFunctionOnSet(g, S) = SumFunctionOnSet(f, S)
  BY SumSame
<1>4. SumFunctionOnSet(f, S) \in Int
  BY SumType
<1> DEFINE a == SumFunctionOnSet(f, S)
<1>5. SumFunctionOnSet(g, S \cup {c}) = g[c] + a
  BY <1>2, <1>3
<1> HIDE DEF a
<1>6. g[c] + a = a + g[c]
  BY <1>4 DEF a
<1>. QED BY <1>5, <1>6 DEF a

LEMMA SumGrows ==
  ASSUME NEW S, IsFiniteSet(S), NEW c, c \notin S, NEW g \in [S \cup {c} -> Int]
  PROVE  SumFunction(g) = SumFunction([x \in S |-> g[x]]) + g[c]
<1> DEFINE f == [x \in S |-> g[x]]
<1>1. DOMAIN f = S /\ DOMAIN g = S \cup {c} /\ g[c] \in Int
  OBVIOUS
<1>2. \A x \in S : f[x] \in Int
  OBVIOUS
<1>3. \A x \in S : f[x] = g[x]
  OBVIOUS
<1> HIDE DEF f
<1>4. SumFunctionOnSet(g, S \cup {c}) = SumFunctionOnSet(f, S) + g[c]
  BY <1>1, <1>2, <1>3, SumMore
<1>. QED BY <1>1, <1>4 DEF SumFunction, f

LEMMA SumConstant ==
  ASSUME NEW S, IsFiniteSet(S), NEW n \in Int, NEW f, \A x \in S : f[x] = n
  PROVE  SumFunctionOnSet(f, S) = Cardinality(S) * n
<1> DEFINE Good == {X \in SUBSET S : SumFunctionOnSet(f, X) = Cardinality(X) * n}
<1>0. \A X \in SUBSET S : IsFiniteSet(X) /\ Cardinality(X) \in Nat
  BY FS_Subset, FS_CardinalityType
<1>1. ASSUME NEW X \in SUBSET S, \A Y \in SUBSET X : Y # X => Y \in Good PROVE X \in Good
  <2>1. CASE X = {}
    <3>1. SumFunctionOnSet(f, X) = 0 /\ Cardinality(X) = 0
      BY <1>0, <2>1, SumStep, FS_EmptySet
    <3>. QED BY <3>1
  <2>2. CASE X # {}
    <3> DEFINE c == Any(X)  R == X \ {c}
    <3>1. c \in X /\ R \in Good /\ R \in SUBSET S
      BY <1>1, <2>2, AnyIn
    <3>2. SumFunctionOnSet(f, X) = n + Cardinality(R) * n
      BY <1>0, <2>2, <3>1, SumStep
    <3>3. Cardinality(X) = Cardinality(R) + 1
      BY <1>0, <3>1, FS_RemoveElement, FS_CardinalityType
    <3>4. Cardinality(R) \in Nat
      BY <1>0, <3>1
    <3>5. \A k \in Nat : n + k * n = (k + 1) * n
      OBVIOUS
    <3> HIDE DEF R
    <3>6. SumFunctionOnSet(f, X) = Cardinality(X) * n
      BY <3>2, <3>3, <3>4, <3>5
    <3>. QED BY <3>6
  <2>. QED BY <2>1, <2>2
<1> HIDE DEF Good
<1>2. S \in Good
  BY <1>1, PartByPart
<1>. QED BY <1>2 DEF Good

(* A common factor can be taken out. *)
(* A sum of naturals is above zero when one of them is. *)
LEMMA PositiveSum ==
  ASSUME NEW S, IsFiniteSet(S), NEW f, \A x \in S : f[x] \in Nat
  PROVE  /\ SumFunctionOnSet(f, S) \in Nat
         /\ SumFunctionOnSet(f, S) > 0 <=> \E x \in S : f[x] > 0
<1>1. SumFunctionOnSet(f, S) \in Nat
  BY SumOfNaturals
<1>2. ASSUME NEW c \in S, f[c] > 0 PROVE SumFunctionOnSet(f, S) > 0
  <2>1. SumFunctionOnSet(f, S) = f[c] + SumFunctionOnSet(f, S \ {c})
    BY SumSplit
  <2>2. SumFunctionOnSet(f, S \ {c}) \in Nat
    <3> DEFINE R == S \ {c}
    <3>1. IsFiniteSet(R) /\ \A x \in R : f[x] \in Nat
      BY FS_Subset
    <3> HIDE DEF R
    <3>2. SumFunctionOnSet(f, R) \in Nat
      BY <3>1, SumOfNaturals
    <3>. QED BY <3>2 DEF R
  <2>. QED BY <1>2, <2>1, <2>2
<1>3. ASSUME ~ \E x \in S : f[x] > 0 PROVE SumFunctionOnSet(f, S) = 0
  <2>1. \A x \in S : f[x] = 0
    BY <1>3
  <2>2. SumFunctionOnSet(f, S) = Cardinality(S) * 0
    BY <2>1, SumConstant
  <2>. QED BY <2>2, FS_CardinalityType
<1>. QED BY <1>1, <1>2, <1>3

LEMMA SumScaled ==
  ASSUME NEW S, IsFiniteSet(S), NEW n \in Int, NEW f, NEW g,
         \A x \in S : f[x] \in Int /\ g[x] = f[x] * n
  PROVE  SumFunctionOnSet(g, S) = SumFunctionOnSet(f, S) * n
<1> DEFINE Good == {X \in SUBSET S : SumFunctionOnSet(g, X) = SumFunctionOnSet(f, X) * n}
<1>0. \A X \in SUBSET S : IsFiniteSet(X) /\ SumFunctionOnSet(f, X) \in Int
  BY FS_Subset, SumType
<1>1. ASSUME NEW X \in SUBSET S, \A Y \in SUBSET X : Y # X => Y \in Good PROVE X \in Good
  <2>1. CASE X = {}
    <3>1. SumFunctionOnSet(f, X) = 0 /\ SumFunctionOnSet(g, X) = 0
      BY <1>0, <2>1, SumStep
    <3>. QED BY <3>1
  <2>2. CASE X # {}
    <3> DEFINE c == Any(X)  R == X \ {c}
    <3>1. c \in X /\ R \in Good /\ R \in SUBSET S
      BY <1>1, <2>2, AnyIn
    <3>2. /\ SumFunctionOnSet(g, X) = f[c] * n + SumFunctionOnSet(f, R) * n
          /\ SumFunctionOnSet(f, X) = f[c] + SumFunctionOnSet(f, R)
      BY <1>0, <2>2, <3>1, SumStep
    <3>3. f[c] \in Int /\ SumFunctionOnSet(f, R) \in Int
      BY <1>0, <3>1
    <3>4. \A a, b \in Int : a * n + b * n = (a + b) * n
      OBVIOUS
    <3> HIDE DEF R, c
    <3>5. SumFunctionOnSet(g, X) = SumFunctionOnSet(f, X) * n
      BY <3>2, <3>3, <3>4
    <3>. QED BY <3>5
  <2>. QED BY <2>1, <2>2
<1> HIDE DEF Good
<1>2. S \in Good
  BY <1>1, PartByPart
<1>. QED BY <1>2 DEF Good

LEMMA LargestIn ==
  ASSUME NEW S, IsFiniteSet(S), S # {}, S \subseteq Int
  PROVE  Max(S) \in S /\ \A x \in S : x <= Max(S)
<1> DEFINE Good == {X \in SUBSET S : X # {} => \E m \in X : \A x \in X : x <= m}
<1>1. ASSUME NEW X \in SUBSET S, \A Y \in SUBSET X : Y # X => Y \in Good PROVE X \in Good
  <2>1. CASE X = {}
    BY <2>1
  <2>2. CASE X # {}
    <3> DEFINE c == Any(X)
    <3>1. c \in X /\ X \ {c} \in Good
      BY <1>1, <2>2, AnyIn
    <3>2. CASE X \ {c} = {}
      <4>1. \A x \in X : x <= c
        BY <3>1, <3>2
      <4>. QED BY <3>1, <4>1
    <3>3. CASE X \ {c} # {}
      <4>1. PICK m \in X \ {c} : \A x \in X \ {c} : x <= m
        BY <3>1, <3>3
      <4>2. c \in Int /\ m \in Int /\ X \subseteq Int
        BY <3>1
      <4> HIDE DEF c
      <4>3. CASE c <= m
        BY <4>1, <4>2, <4>3
      <4>4. CASE ~ (c <= m)
        <5>1. \A x \in X : x <= c
          BY <4>1, <4>2, <4>4
        <5>. QED BY <3>1, <5>1
      <4>. QED BY <4>3, <4>4
    <3>. QED BY <3>2, <3>3
  <2>. QED BY <2>1, <2>2
<1> HIDE DEF Good
<1>2. S \in Good
  BY <1>1, PartByPart
<1>3. PICK m \in S : \A x \in S : x <= m
  BY <1>2 DEF Good
<1>4. \A x \in S : m >= x
  BY <1>3
<1>. QED BY <1>4 DEF Max

LEMMA SmallestIn ==
  ASSUME NEW S, IsFiniteSet(S), S # {}, S \subseteq Int
  PROVE  Min(S) \in S /\ \A x \in S : Min(S) <= x
<1> DEFINE N == {x \in Int : 0 - x \in S}
           f == [x \in S |-> 0 - x]
<1>1. f \in Surjection(S, N)
  BY DEF Surjection
<1>2. IsFiniteSet(N)
  BY <1>1, FS_Surjection
<1>3. PICK y \in N : \A x \in N : x <= y
  <2>1. N # {} /\ N \subseteq Int
    <3>1. PICK x \in S : TRUE
      OBVIOUS
    <3>2. 0 - x \in N
      BY <3>1
    <3>. QED BY <3>2
  <2>. QED BY <1>2, <2>1, LargestIn
<1>4. 0 - y \in S /\ \A x \in S : 0 - y <= x
  <2>1. \A x \in S : 0 - x \in N
    OBVIOUS
  <2>2. y \in Int /\ 0 - y \in S
    BY <1>3
  <2>3. \A x \in S : x \in Int /\ 0 - x <= y
    BY <1>3, <2>1
  <2>. QED BY <2>2, <2>3
<1>. QED BY <1>4 DEF Min

-----------------------------------------------------------------------------
(* The emission of a minute.  Shares are rounded down, so that the others' *)
(* never exceed the emission and the last one's is what it should be.      *)

LEMMA RoundedDown ==
  ASSUME NEW a \in Nat, NEW W \in Nat \ {0}
  PROVE  a \div W \in Nat /\ (a \div W) * W <= a
OBVIOUS

(* What is rounded down of the parts of a whole does not exceed it. *)
LEMMA PartsFit ==
  ASSUME NEW P, IsFiniteSet(P), NEW c \in P, NEW M \in Nat, NEW w, \A i \in P : w[i] \in Nat \ {0},
         NEW part, \A i \in P \ {c} : part[i] = (w[i] * M) \div SumFunctionOnSet(w, P)
  PROVE  /\ \A i \in P \ {c} : part[i] \in Nat
         /\ SumFunctionOnSet(part, P \ {c}) \in Nat
         /\ SumFunctionOnSet(part, P \ {c}) <= M
<1> DEFINE W == SumFunctionOnSet(w, P)
           R == P \ {c}
           scaled == [i \in P |-> w[i] * M]
           back == [i \in P |-> part[i] * W]
<1>1. IsFiniteSet(R) /\ \A i \in R : i \in P
  BY FS_Subset
<1>2. W \in Nat \ {0}
  <2>1. W = w[c] + SumFunctionOnSet(w, R)
    BY SumTake
  <2>2. SumFunctionOnSet(w, R) \in Nat
    <3>1. \A i \in R : w[i] \in Nat
      OBVIOUS
    <3> HIDE DEF R
    <3>. QED BY <1>1, <3>1, SumOfNaturals
  <2> HIDE DEF R, W
  <2>. QED BY <2>1, <2>2
<1>3. \A i \in P : scaled[i] \in Nat
  OBVIOUS
<1>4. ASSUME NEW i \in R
      PROVE  part[i] \in Nat /\ back[i] = part[i] * W /\ back[i] \in Int /\ back[i] <= scaled[i]
  <2>1. part[i] = scaled[i] \div W /\ back[i] = part[i] * W
    OBVIOUS
  <2> HIDE DEF scaled, back, W
  <2>2. scaled[i] \in Nat
    BY <1>3, <1>4
  <2>3. scaled[i] \div W \in Nat /\ (scaled[i] \div W) * W <= scaled[i]
    BY <1>2, <2>2, RoundedDown
  <2>. QED BY <1>2, <2>1, <2>3
<1>5. \A i \in P : scaled[i] = w[i] * M
  OBVIOUS
<1> HIDE DEF R, scaled, back
<1> DEFINE Sum(f) == SumFunctionOnSet(f, R)
<1>6. Sum(part) \in Nat
  BY <1>1, <1>4, SumOfNaturals
<1>7. Sum(back) = Sum(part) * W
  <2> HIDE DEF W
  <2>. QED BY <1>1, <1>2, <1>4, SumScaled
<1>8. SumFunctionOnSet(scaled, P) = W * M
  <2>1. \A i \in P : w[i] \in Int
    OBVIOUS
  <2>. QED BY <1>5, <2>1, SumScaled
<1>9. Sum(back) <= Sum(scaled)
  <2>1. \A i \in R : scaled[i] \in Int
    BY <1>1, <1>3
  <2>. QED BY <1>1, <1>4, <2>1, SumLess
<1>10. Sum(scaled) \in Int /\ Sum(scaled) <= W * M
  <2>1. W * M = scaled[c] + Sum(scaled) /\ Sum(scaled) \in Int
    <3>1. \A i \in P : scaled[i] \in Int
      BY <1>3
    <3> HIDE DEF W
    <3>. QED BY <1>8, <3>1, SumTake DEF R
  <2>2. scaled[c] \in Nat
    BY <1>3
  <2> HIDE DEF Sum
  <2>3. \A a \in Nat, b \in Int : b <= a + b
    OBVIOUS
  <2>. QED BY <2>1, <2>2, <2>3
<1> HIDE DEF Sum, W
<1>11. Sum(part) * W <= W * M
  BY <1>2, <1>6, <1>7, <1>9, <1>10
<1>12. \A a, b \in Nat, k \in Nat \ {0} : a * k <= k * b => a <= b
  OBVIOUS
<1>13. Sum(part) <= M
  BY <1>2, <1>6, <1>11, <1>12
<1>. QED BY <1>2, <1>4, <1>6, <1>13 DEF R, Sum

LEMMA SharesAddUp ==
  ASSUME NEW P, IsFiniteSet(P), P # {}, P \subseteq Int, NEW w \in [P -> Nat \ {0}], MicroPerMinute \in Nat
  PROVE  /\ Shares(w) \in [P -> Nat]
         /\ SumFunction(Shares(w)) = MicroPerMinute
<1> DEFINE last == Max(P)
           others == RoundedShares(w, P \ {last})
           share == Shares(w)
           R == SumFunctionOnSet(others, P \ {last})
<1>1. last \in P /\ DOMAIN w = P
  BY LargestIn
<1>2. /\ \A i \in P \ {last} : others[i] \in Nat
      /\ R \in Nat /\ R <= MicroPerMinute
  <2>1. \A i \in P \ {last} : others[i] = (w[i] * MicroPerMinute) \div SumFunctionOnSet(w, P)
    BY <1>1 DEF RoundedShares, SumFunction
  <2>2. \A i \in P : w[i] \in Nat \ {0}
    OBVIOUS
  <2>3. last \in P /\ MicroPerMinute \in Nat
    BY <1>1
  <2> HIDE DEF last, others
  <2>4. /\ \A i \in P \ {last} : others[i] \in Nat
        /\ SumFunctionOnSet(others, P \ {last}) \in Nat
        /\ SumFunctionOnSet(others, P \ {last}) <= MicroPerMinute
    BY <2>1, <2>2, <2>3, PartsFit
  <2>. QED BY <2>4
<1>3. share = [i \in P |-> IF i = last THEN MicroPerMinute - R ELSE others[i]]
  <2>1. R = SumFunction(others)
    BY DEF RoundedShares, SumFunction
  <2>. QED BY <1>1, <2>1 DEF Shares
<1> HIDE DEF last, others, R, share
<1>4. MicroPerMinute - R \in Nat
  BY <1>2
<1>5. share \in [P -> Nat]
  BY <1>2, <1>3, <1>4
<1>6. SumFunction(share) = share[last] + SumFunctionOnSet(share, P \ {last})
  <2>1. DOMAIN share = P /\ \A i \in P : share[i] \in Int
    BY <1>5
  <2>. QED BY <1>1, <2>1, SumTake DEF SumFunction
<1>7. SumFunctionOnSet(share, P \ {last}) = R
  <2>1. \A i \in P \ {last} : others[i] \in Int /\ others[i] = share[i]
    BY <1>2, <1>3
  <2>2. IsFiniteSet(P \ {last})
    BY FS_Subset
  <2>. QED BY <2>1, <2>2, SumSame DEF R
<1>8. share[last] = MicroPerMinute - R
  BY <1>1, <1>3
<1>9. SumFunction(share) = MicroPerMinute
  BY <1>2, <1>6, <1>7, <1>8
<1>. QED BY <1>5, <1>9 DEF share

(* The UTXOs that an allocation paid for. *)
UtxosOf(a) == {a.pays[n].claim.utxo : n \in DOMAIN a.pays}

Receipts == Minutes \X Nat \X Payments

EmissionShape ==
  /\ claimed \subseteq Utxos
  /\ envCount \in [Envs -> 0..(MaxBatch * Len(ledger))]
  /\ ledger \in Seq(Allocation) /\ Len(ledger) <= MaxCalls
  /\ chain \in Seq(Receipts) /\ Len(chain) <= Len(ledger)

PaidIsClaimed ==
  /\ \A i \in 1..Len(ledger) : UtxosOf(ledger[i]) \subseteq claimed
  /\ \A i, k \in 1..Len(ledger) : i # k => UtxosOf(ledger[i]) \cap UtxosOf(ledger[k]) = {}

AllPaidOut == \A i \in 1..Len(ledger) : PaidOut(ledger[i])

EmissionInv == EmissionShape /\ PaidIsClaimed /\ AllPaidOut

LEMMA NothingPaid ==
  /\ <<>> \in Payments
  /\ \A a : a.pays = <<>> /\ a.perWallet \in Nat /\ (a.sabbath => a.perWallet = 0) =>
       PaidOut(a) /\ UtxosOf(a) = {}
<1>1. DOMAIN <<>> = {}
  OBVIOUS
<1>2. <<>> = [i \in {} |-> 0]
  OBVIOUS
<1>3. <<>> \in [{} -> [claim : Claims, micro : Nat]]
  BY <1>2
<1>4. <<>> \in Payments
  BY <1>3 DEF Payments
<1>5. ASSUME NEW a, a.pays = <<>>, a.perWallet \in Nat, a.sabbath => a.perWallet = 0
      PROVE  PaidOut(a) /\ UtxosOf(a) = {}
  <2> DEFINE micro == [n \in DOMAIN a.pays |-> a.pays[n].micro]
  <2>1. DOMAIN micro = {} /\ DOMAIN a.pays = {}
    BY <1>1, <1>5
  <2>2. SumFunction(micro) = 0
    <3> HIDE DEF micro
    <3>. QED BY <2>1, SumStep, FS_EmptySet DEF SumFunction
  <2>. QED BY <1>5, <2>1, <2>2 DEF PaidOut, UtxosOf
<1>. QED BY <1>4, <1>5

(* What a call adds to a ledger, whatever it pays. *)
LEMMA LedgerGrows ==
  ASSUME EmissionInv, NEW a \in Allocation, PaidOut(a),
         Len(ledger) < MaxCalls, ledger' = Append(ledger, a),
         claimed' \subseteq Utxos, claimed' = claimed \cup UtxosOf(a), UtxosOf(a) \cap claimed = {}
  PROVE  /\ ledger' \in Seq(Allocation) /\ Len(ledger') = Len(ledger) + 1 /\ Len(ledger') <= MaxCalls
         /\ PaidIsClaimed' /\ AllPaidOut'
<1> USE DEF EmissionInv, EmissionShape
<1>1. /\ ledger' \in Seq(Allocation) /\ Len(ledger) \in Nat /\ Len(ledger') = Len(ledger) + 1
      /\ \A i \in 1..Len(ledger) : ledger'[i] = ledger[i]
      /\ ledger'[Len(ledger) + 1] = a
  OBVIOUS
<1>2. Len(ledger') <= MaxCalls
  BY <1>1, EmissionAssumption
<1>3. \A i \in 1..Len(ledger') : ledger'[i] = IF i = Len(ledger) + 1 THEN a ELSE ledger[i]
  BY <1>1
<1>4. \A i \in 1..Len(ledger') : i = Len(ledger) + 1 \/ i \in 1..Len(ledger)
  BY <1>1
<1>5. PaidIsClaimed'
  <2> HIDE DEF UtxosOf
  <2>1. \A i \in 1..Len(ledger') : UtxosOf(ledger'[i]) \subseteq claimed'
    BY <1>3, <1>4 DEF PaidIsClaimed
  <2>2. ASSUME NEW i \in 1..Len(ledger'), NEW k \in 1..Len(ledger'), i # k
        PROVE  UtxosOf(ledger'[i]) \cap UtxosOf(ledger'[k]) = {}
    BY <1>3, <1>4, <2>2 DEF PaidIsClaimed
  <2>. QED BY <2>1, <2>2 DEF PaidIsClaimed, UtxosOf
<1>6. AllPaidOut'
  BY <1>3, <1>4 DEF AllPaidOut, PaidOut
<1>. QED BY <1>1, <1>2, <1>5, <1>6

(* Every weight is positive: the novelty of an environment is known for as
   many payments as there can have been. *)
LEMMA WeightsPositive ==
  ASSUME EmissionInv, NEW n \in 0..MaxBatch, NEW batch \in [1..n -> Claims], NEW m \in Minutes
  PROVE  /\ Eligible(m, batch) \subseteq 1..n /\ IsFiniteSet(Eligible(m, batch))
         /\ Cardinality(Eligible(m, batch)) <= n
         /\ Weighted(batch, Eligible(m, batch)) \in [Eligible(m, batch) -> Nat \ {0}]
<1> DEFINE el == Eligible(m, batch)
<1>1. /\ el \subseteq 1..n
      /\ \A i \in el : batch[i] \in Claims /\ batch[i].score >= Difficulty[m]
  BY DEF Eligible
<1>2. n \in Nat /\ IsFiniteSet(1..n) /\ Cardinality(1..n) = n
  BY FS_Interval, EmissionAssumption
<1>3. IsFiniteSet(el) /\ Cardinality(el) <= n
  BY <1>1, <1>2, FS_Subset
<1>4. MaxBatch * Len(ledger) \in Nat /\ MaxBatch * Len(ledger) <= MaxBatch * MaxCalls
  <2>1. MaxBatch \in Nat /\ MaxCalls \in Nat /\ Len(ledger) \in Nat /\ Len(ledger) <= MaxCalls
    BY EmissionAssumption DEF EmissionInv, EmissionShape
  <2>2. \A a, b, c \in Nat : b <= c => a * b \in Nat /\ a * b <= a * c
    OBVIOUS
  <2>. QED BY <2>1, <2>2
<1>5. MaxBatch * MaxCalls \in Nat
  BY EmissionAssumption
<1>6. ASSUME NEW i \in el
      PROVE  batch[i].score * Novelty[envCount[batch[i].env]] \in Nat \ {0}
  <2>1. batch[i].score \in Nat /\ batch[i].env \in Envs
    BY <1>1, EmissionAssumption
  <2>2. batch[i].score \in Nat \ {0}
    BY <1>1, <2>1, EmissionAssumption
  <2>3. envCount[batch[i].env] \in 0..(MaxBatch * Len(ledger))
    BY <2>1 DEF EmissionInv, EmissionShape
  <2>4. envCount[batch[i].env] \in 0..(MaxBatch * MaxCalls)
    BY <1>4, <1>5, <2>3
  <2>5. Novelty[envCount[batch[i].env]] \in Nat \ {0}
    BY <2>4, EmissionAssumption
  <2>6. \A a, b \in Nat \ {0} : a * b \in Nat \ {0}
    OBVIOUS
  <2>. QED BY <2>2, <2>5, <2>6
<1>. QED BY <1>1, <1>3, <1>6 DEF Weighted

(* The counters stay below what the calls can have paid. *)
LEMMA CountsFit ==
  ASSUME EmissionInv, Len(ledger') = Len(ledger) + 1,
         envCount' = [e \in Envs |-> envCount'[e]],
         \A e \in Envs : \E k \in 0..MaxBatch : envCount'[e] = envCount[e] + k
  PROVE  envCount' \in [Envs -> 0..(MaxBatch * Len(ledger'))]
<1>1. MaxBatch \in Nat /\ Len(ledger) \in Nat
  BY EmissionAssumption DEF EmissionInv, EmissionShape
<1> DEFINE L == MaxBatch * Len(ledger)
           M == MaxBatch * (Len(ledger) + 1)
<1>2. L \in Nat /\ M \in Nat /\ M = L + MaxBatch
  <2> DEFINE k == Len(ledger)
  <2> HIDE DEF k
  <2>1. \A x, y \in Nat : x * y \in Nat /\ x * (y + 1) \in Nat /\ x * (y + 1) = x * y + x
    OBVIOUS
  <2>2. MaxBatch * k \in Nat /\ MaxBatch * (k + 1) \in Nat /\ MaxBatch * (k + 1) = MaxBatch * k + MaxBatch
    BY <1>1, <2>1 DEF k
  <2>. QED BY <2>2 DEF k
<1>3. envCount \in [Envs -> 0..L]
  BY DEF EmissionInv, EmissionShape
<1> HIDE DEF L, M
<1>4. \A e \in Envs : envCount'[e] \in 0..M
  BY <1>1, <1>2, <1>3
<1>5. envCount' \in [Envs -> 0..M]
  BY <1>4
<1>. QED BY <1>5 DEF M

LEMMA SabbathStep ==
  ASSUME EmissionInv, NEW m \in Minutes, NEW batch, Sabbath(m, batch), Len(ledger) < MaxCalls
  PROVE  EmissionInv'
<1> DEFINE a == [minute |-> m, sabbath |-> TRUE, pays |-> <<>>, perWallet |-> 0]
<1>1. a \in Allocation /\ PaidOut(a) /\ UtxosOf(a) = {}
  BY NothingPaid DEF Allocation
<1>2. ledger' = Append(ledger, a) /\ UNCHANGED <<claimed, envCount, chain>>
  BY DEF Sabbath
<1> HIDE DEF a
<1>3. /\ ledger' \in Seq(Allocation) /\ Len(ledger') = Len(ledger) + 1 /\ Len(ledger') <= MaxCalls
      /\ PaidIsClaimed' /\ AllPaidOut'
  BY <1>1, <1>2, LedgerGrows DEF EmissionInv, EmissionShape
<1>4. envCount' \in [Envs -> 0..(MaxBatch * Len(ledger'))]
  <2>1. 0 \in 0..MaxBatch /\ \A e \in Envs : envCount'[e] = envCount[e] + 0
    BY <1>2, EmissionAssumption DEF EmissionInv, EmissionShape
  <2>. QED BY <1>2, <1>3, <2>1, CountsFit DEF EmissionInv, EmissionShape
<1>. QED BY <1>2, <1>3, <1>4 DEF EmissionInv, EmissionShape

LEMMA InheritStep ==
  ASSUME EmissionInv, NEW m \in Minutes, NEW batch, Inherit(m, batch), Len(ledger) < MaxCalls
  PROVE  EmissionInv'
<1> DEFINE a == [minute |-> m, sabbath |-> FALSE, pays |-> <<>>, perWallet |-> MicroPerMinute \div Wallets]
<1>1. a \in Allocation /\ PaidOut(a) /\ UtxosOf(a) = {}
  <2>1. MicroPerMinute \div Wallets \in Nat
    BY EmissionAssumption, RoundedDown
  <2>. QED BY <2>1, NothingPaid DEF Allocation
<1>2. /\ ledger' = Append(ledger, a) /\ UNCHANGED <<claimed, envCount>>
      /\ chain' = Append(chain, <<m, MicroPerMinute, <<>>>>)
  BY DEF Inherit, Receipt
<1> HIDE DEF a
<1>3. /\ ledger' \in Seq(Allocation) /\ Len(ledger') = Len(ledger) + 1 /\ Len(ledger') <= MaxCalls
      /\ PaidIsClaimed' /\ AllPaidOut'
  BY <1>1, <1>2, LedgerGrows DEF EmissionInv, EmissionShape
<1>4. <<m, MicroPerMinute, <<>>>> \in Receipts
  BY NothingPaid, EmissionAssumption DEF Receipts
<1>5. chain' \in Seq(Receipts) /\ Len(chain') <= Len(ledger')
  BY <1>2, <1>3, <1>4 DEF EmissionInv, EmissionShape
<1>6. envCount' \in [Envs -> 0..(MaxBatch * Len(ledger'))]
  <2>1. 0 \in 0..MaxBatch /\ \A e \in Envs : envCount'[e] = envCount[e] + 0
    BY <1>2, EmissionAssumption DEF EmissionInv, EmissionShape
  <2>. QED BY <1>2, <1>3, <2>1, CountsFit DEF EmissionInv, EmissionShape
<1>. QED BY <1>2, <1>3, <1>5, <1>6 DEF EmissionInv, EmissionShape

LEMMA PayStep ==
  ASSUME EmissionInv, NEW n \in 0..MaxBatch, NEW batch \in [1..n -> Claims], NEW m \in Minutes,
         Pay(m, batch), Len(ledger) < MaxCalls
  PROVE  EmissionInv'
<1> DEFINE el == Eligible(m, batch)
           w == Weighted(batch, el)
           share == Shares(w)
           pays == [i \in el |-> [claim |-> batch[i], micro |-> share[i]]]
           a == [minute |-> m, sabbath |-> FALSE, perWallet |-> 0, pays |-> pays]
           Of(e) == {i \in el : batch[i].env = e}
<1>1. /\ el \subseteq 1..n /\ IsFiniteSet(el) /\ Cardinality(el) <= n /\ el # {}
      /\ w \in [el -> Nat \ {0}]
  BY WeightsPositive DEF Pay
<1>2. /\ ledger' = Append(ledger, a)
      /\ claimed' = claimed \cup {batch[i].utxo : i \in el}
      /\ chain' = Append(chain, <<m, MicroPerMinute, pays>>)
      /\ envCount' = [e \in Envs |-> envCount[e] + Cardinality(Of(e))]
  BY DEF Pay, Receipt
<1>3. \A i \in el : batch[i] \in Claims /\ batch[i].utxo \in Utxos /\ batch[i].utxo \notin claimed
  BY EmissionAssumption DEF Eligible
<1>4. \A e \in Envs : Of(e) \subseteq el
  OBVIOUS
<1> HIDE DEF el, w
<1>5. share \in [el -> Nat] /\ SumFunction(share) = MicroPerMinute
  <2>1. el \subseteq Int
    BY <1>1
  <2>. QED BY <1>1, <2>1, EmissionAssumption, SharesAddUp
<1> HIDE DEF share
<1>6. /\ DOMAIN pays = el /\ pays \in [el -> [claim : Claims, micro : Nat]]
      /\ \A i \in el : pays[i].micro = share[i] /\ pays[i].claim = batch[i]
  BY <1>3, <1>5
<1>7. pays \in Payments
  <2>1. el \in SUBSET (1..MaxBatch)
    BY <1>1, EmissionAssumption
  <2>. QED BY <1>6, <2>1 DEF Payments
<1> HIDE DEF pays, Of
<1>8. a \in Allocation /\ a.pays = pays /\ a.sabbath = FALSE
  BY <1>7 DEF Allocation
<1>9. UtxosOf(a) = {batch[i].utxo : i \in el}
  BY <1>6, <1>8 DEF UtxosOf
<1>10. PaidOut(a)
  <2>1. [k \in DOMAIN a.pays |-> a.pays[k].micro] = share
    BY <1>5, <1>6, <1>8
  <2>. QED BY <1>5, <1>8, <2>1 DEF PaidOut
<1> HIDE DEF a
<1>11. /\ ledger' \in Seq(Allocation) /\ Len(ledger') = Len(ledger) + 1 /\ Len(ledger') <= MaxCalls
       /\ PaidIsClaimed' /\ AllPaidOut' /\ claimed' \subseteq Utxos
  <2>1. claimed' \subseteq Utxos /\ claimed' = claimed \cup UtxosOf(a) /\ UtxosOf(a) \cap claimed = {}
    BY <1>2, <1>3, <1>9 DEF EmissionInv, EmissionShape
  <2>. QED BY <1>2, <1>8, <1>10, <2>1, LedgerGrows
<1>12. chain' \in Seq(Receipts) /\ Len(chain') <= Len(ledger')
  <2>1. <<m, MicroPerMinute, pays>> \in Receipts
    BY <1>7, EmissionAssumption DEF Receipts
  <2>. QED BY <1>2, <1>11, <2>1 DEF EmissionInv, EmissionShape
<1>13. envCount' \in [Envs -> 0..(MaxBatch * Len(ledger'))]
  <2>1. ASSUME NEW e \in Envs PROVE Cardinality(Of(e)) \in 0..MaxBatch
    <3>1. Cardinality(Of(e)) \in Nat /\ Cardinality(Of(e)) <= Cardinality(el)
      BY <1>1, <1>4, FS_Subset, FS_CardinalityType
    <3>2. Cardinality(el) \in Nat
      BY <1>1, FS_CardinalityType
    <3>. QED BY <1>1, <3>1, <3>2, EmissionAssumption
  <2>2. \A e \in Envs : envCount'[e] = envCount[e] + Cardinality(Of(e))
    BY <1>2
  <2>3. envCount' = [e \in Envs |-> envCount'[e]]
    BY <1>2
  <2>. QED BY <1>11, <2>1, <2>2, <2>3, CountsFit
<1>. QED BY <1>11, <1>12, <1>13 DEF EmissionInv, EmissionShape

LEMMA EmissionInvHolds == Spec => []EmissionInv
<1>1. Init => EmissionInv
  <2>1. MaxBatch * 0 = 0 /\ MaxCalls \in Nat
    BY EmissionAssumption
  <2>. QED BY <2>1 DEF Init, EmissionInv, EmissionShape, PaidIsClaimed, AllPaidOut
<1>2. EmissionInv /\ [AllocateMinute]_vars => EmissionInv'
  <2> SUFFICES ASSUME EmissionInv, [AllocateMinute]_vars PROVE EmissionInv'
    OBVIOUS
  <2>1. CASE UNCHANGED vars
    <3>1. EmissionShape' /\ AllPaidOut'
      BY <2>1 DEF vars, EmissionInv, EmissionShape, AllPaidOut, PaidOut
    <3>2. PaidIsClaimed'
      <4>1. claimed' = claimed /\ ledger' = ledger
        BY <2>1 DEF vars
      <4>. QED BY <4>1 DEF EmissionInv, PaidIsClaimed
    <3>. QED BY <3>1, <3>2 DEF EmissionInv
  <2>2. CASE AllocateMinute
    BY <2>2, SabbathStep, InheritStep, PayStep DEF AllocateMinute
  <2>. QED BY <2>1, <2>2
<1>. QED BY <1>1, <1>2, PTL DEF Spec

(* The allocator's tables stay what they are declared to be: counters never
   pass the number of claims, receipts never outnumber allocations. *)
THEOREM EmissionTypes == Spec => []EmissionTypeOK
<1>1. EmissionInv => EmissionTypeOK
  <2>1. ASSUME EmissionInv PROVE envCount \in [Envs -> 0..(MaxBatch * MaxCalls)]
    <3>1. MaxBatch \in Nat /\ MaxCalls \in Nat /\ Len(ledger) \in Nat /\ Len(ledger) <= MaxCalls
      BY <2>1, EmissionAssumption DEF EmissionInv, EmissionShape
    <3>2. \A x, y, z \in Nat : y <= z => x * y \in Nat /\ x * z \in Nat /\ x * y <= x * z
      OBVIOUS
    <3>3. MaxBatch * Len(ledger) <= MaxBatch * MaxCalls /\ MaxBatch * Len(ledger) \in Nat /\ MaxBatch * MaxCalls \in Nat
      BY <3>1, <3>2
    <3>. QED BY <2>1, <3>3 DEF EmissionInv, EmissionShape
  <2>. QED BY <2>1 DEF EmissionInv, EmissionShape, EmissionTypeOK, Receipts
<1>. QED BY EmissionInvHolds, <1>1, PTL

(* No two calls pay for the same UTXO, in whatever minutes and batches it is
   claimed (Eligible, Pay). *)
THEOREM OneRoundTheorem == Spec => []OneRoundPerUtxo
<1>1. ASSUME EmissionInv PROVE OneRoundPerUtxo
  <2>1. SUFFICES ASSUME NEW k \in Utxos PROVE Cardinality(PaidTo(k)) <= 1
    BY DEF OneRoundPerUtxo
  <2>2. \A i \in PaidTo(k) : i \in 1..Len(ledger) /\ k \in UtxosOf(ledger[i])
    BY <1>1 DEF PaidTo, UtxosOf, EmissionInv, EmissionShape
  <2>3. \A i, j \in PaidTo(k) : i = j
    BY <1>1, <2>2 DEF EmissionInv, PaidIsClaimed
  <2>4. CASE PaidTo(k) = {}
    BY <2>4, FS_EmptySet
  <2>5. CASE PaidTo(k) # {}
    <3>1. PICK i \in PaidTo(k) : TRUE
      BY <2>5
    <3>2. PaidTo(k) = {i}
      BY <2>3, <3>1
    <3>3. Cardinality(PaidTo(k)) = 1
      BY <3>2, FS_Singleton
    <3>. QED BY <3>3
  <2>. QED BY <2>4, <2>5
<1>. QED BY EmissionInvHolds, <1>1, PTL

(* Of a minute that pays workers nothing is left and nothing too much, and no
   worker owes any (Shares). *)
THEOREM MinuteTheorem == Spec => []MinuteIsPaidOut
<1>1. EmissionInv => MinuteIsPaidOut
  BY DEF EmissionInv, EmissionShape, AllPaidOut, MinuteIsPaidOut
<1>. QED BY EmissionInvHolds, <1>1, PTL

-----------------------------------------------------------------------------
(* The chain of the tiles.  A transaction moves what it takes from one     *)
(* account to one record, or back; a new record is a new object, since no  *)
(* id is drawn twice.                                                      *)

TileRecords == [tile : Tiles, owner : Addresses, holder : Addresses, stake : Nat, fee : Fees, captures : Nat]

ChainShape ==
  /\ coins \in [Addresses -> Nat]
  /\ records \in [Objects -> TileRecords \cup {NoRecord}]
  /\ \A o \in Objects : Exists(o) => o \in spent

ChainInv == ChainShape /\ StakesAreKept

LEMMA ExistsIsRecord ==
  ASSUME ChainShape, NEW o \in Objects
  PROVE  /\ Exists(o) <=> records[o] \in TileRecords
         /\ Kept[o] \in Nat /\ (Exists(o) => Kept[o] = records[o].stake)
<1>1. NoRecord \notin TileRecords
  <2>1. NoRecord.tile = NoTile
    BY DEF NoRecord
  <2>2. \A r \in TileRecords : r.tile \in Tiles
    BY DEF TileRecords
  <2>. QED BY <2>1, <2>2, EconomyAssumption
<1>2. Exists(o) <=> records[o] \in TileRecords
  BY <1>1 DEF ChainShape, Exists
<1>3. Kept[o] = IF Exists(o) THEN records[o].stake ELSE 0
  BY DEF Kept
<1>4. Exists(o) => records[o].stake \in Nat
  BY <1>2 DEF TileRecords
<1>. QED BY <1>2, <1>3, <1>4

(* What leaves an account comes into a record. *)
LEMMA AseMoves ==
  ASSUME ChainInv, ChainShape', NEW a \in Addresses, NEW o \in Objects, NEW n \in Int,
         coins'[a] = coins[a] - n, \A b \in Addresses \ {a} : coins'[b] = coins[b],
         Kept'[o] = Kept[o] + n, \A p \in Objects \ {o} : Kept'[p] = Kept[p]
  PROVE  StakesAreKept'
<1>1. /\ DOMAIN coins = Addresses /\ DOMAIN coins' = Addresses
      /\ \A b \in Addresses : coins[b] \in Int /\ coins'[b] \in Int
  BY DEF ChainInv, ChainShape
<1>2. DOMAIN Kept = Objects /\ DOMAIN Kept' = Objects
  BY DEF Kept
<1>3. \A p \in Objects : Kept[p] \in Int
  BY ExistsIsRecord DEF ChainInv
<1>4. \A p \in Objects : Kept'[p] \in Int
  BY <1>3
<1>5. IsFiniteSet(Addresses) /\ IsFiniteSet(Objects)
  BY EconomyAssumption
<1> DEFINE before == Kept
           after == Kept'
           spare == coins
           left == coins'
<1>6. /\ \A b \in Addresses : spare[b] \in Int /\ left[b] \in Int
      /\ left[a] = spare[a] - n /\ \A b \in Addresses : b # a => spare[b] = left[b]
  BY <1>1
<1>7. /\ \A p \in Objects : before[p] \in Int /\ after[p] \in Int
      /\ after[o] = before[o] + n /\ \A p \in Objects : p # o => before[p] = after[p]
  BY <1>3, <1>4
<1>8. SumFunctionOnSet(left, Addresses) + SumFunctionOnSet(after, Objects)
        = SumFunctionOnSet(spare, Addresses) + SumFunctionOnSet(before, Objects)
  <2> HIDE DEF before, after, spare, left
  <2>1. SumFunctionOnSet(left, Addresses) = SumFunctionOnSet(spare, Addresses) + left[a] - spare[a]
    BY <1>5, <1>6, SumChange
  <2>2. SumFunctionOnSet(after, Objects) = SumFunctionOnSet(before, Objects) + after[o] - before[o]
    BY <1>5, <1>7, SumChange
  <2>3. SumFunctionOnSet(spare, Addresses) \in Int /\ SumFunctionOnSet(before, Objects) \in Int
    BY <1>5, <1>6, <1>7, SumTake
  <2>4. spare[a] \in Int /\ before[o] \in Int
    BY <1>6, <1>7
  <2>. QED BY <1>6, <1>7, <2>1, <2>2, <2>3, <2>4
<1>9. SumFunction(coins') + SumFunction(Kept') = SumFunction(coins) + SumFunction(Kept)
  BY <1>1, <1>2, <1>8 DEF SumFunction
<1>. QED BY <1>9 DEF ChainInv, StakesAreKept

LEMMA NothingMoves ==
  ASSUME ChainInv, coins' = coins, Kept' = Kept
  PROVE  StakesAreKept'
BY DEF ChainInv, StakesAreKept

LEMMA ChainStep ==
  ASSUME ChainInv, [TileNext]_tileVars
  PROVE  ChainInv'
<1> USE DEF ChainInv
<1>1. \A r \in TileRecords : /\ r.tile \in Tiles /\ r.owner \in Addresses /\ r.holder \in Addresses
                             /\ r.stake \in Nat /\ r.fee \in Fees /\ r.captures \in Nat
  BY DEF TileRecords
<1>2. ASSUME UNCHANGED <<coins, records, spent>> PROVE ChainInv'
  <2>1. Kept' = Kept
    BY <1>2 DEF Kept, Exists
  <2>2. ChainShape'
    BY <1>2 DEF ChainShape, Exists
  <2>. QED BY <1>2, <2>1, <2>2, NothingMoves
<1>3. ASSUME NEW a \in Addresses, NEW t \in Tiles, NEW fee \in Fees, NEW o \in Objects, ClaimTile(a, t, fee, o)
      PROVE  ChainInv'
  <2> DEFINE r == [tile |-> t, owner |-> a, holder |-> a, stake |-> 0, fee |-> fee, captures |-> 0]
  <2>1. /\ o \notin spent /\ coins' = coins /\ spent' = spent \cup {o}
        /\ records' = [records EXCEPT ![o] = r]
    BY <1>3 DEF ClaimTile
  <2>2. r \in TileRecords /\ r.stake = 0
    BY DEF TileRecords
  <2> HIDE DEF r
  <2>3. ChainShape'
    <3>1. records' \in [Objects -> TileRecords \cup {NoRecord}]
      BY <2>1, <2>2 DEF ChainShape
    <3>2. \A p \in Objects : Exists(p)' => p \in spent'
      BY <2>1 DEF ChainShape, Exists
    <3>. QED BY <2>1, <3>1, <3>2 DEF ChainShape
  <2>4. ~ Exists(o)
    BY <2>1 DEF ChainShape
  <2>5. Kept' = Kept
    <3>1. records'[o] = r /\ \A p \in Objects \ {o} : records'[p] = records[p]
      BY <2>1 DEF ChainShape
    <3>2. \A p \in Objects : (IF records'[p] # NoRecord THEN records'[p].stake ELSE 0)
                              = (IF records[p] # NoRecord THEN records[p].stake ELSE 0)
      BY <2>2, <2>4, <3>1 DEF Exists
    <3>. QED BY <3>2 DEF Kept, Exists
  <2>. QED BY <2>1, <2>3, <2>5, NothingMoves
<1>4. ASSUME NEW o \in Objects, NEW r \in TileRecords, Exists(o), records' = [records EXCEPT ![o] = r],
             UNCHANGED spent, coins' \in [Addresses -> Nat]
      PROVE  /\ ChainShape' /\ Kept'[o] = r.stake
             /\ \A p \in Objects \ {o} : Kept'[p] = Kept[p]
  <2>1. records'[o] = r /\ \A p \in Objects \ {o} : records'[p] = records[p]
    BY <1>4 DEF ChainShape
  <2>2. records' \in [Objects -> TileRecords \cup {NoRecord}]
    BY <1>4 DEF ChainShape
  <2>3. \A p \in Objects : Exists(p)' => p \in spent'
    BY <1>4, <2>1 DEF ChainShape, Exists
  <2>4. ChainShape'
    BY <1>4, <2>2, <2>3 DEF ChainShape
  <2>5. Exists(o)'
    BY <2>1, <2>4, ExistsIsRecord DEF NoRecord, Exists, TileRecords
  <2>. QED BY <2>1, <2>4, <2>5 DEF Kept, Exists
<1>5. ASSUME NEW o \in Objects, NEW n \in Stakes, StakeTile(o, n) PROVE ChainInv'
  <2> DEFINE r == records[o]
             new == [r EXCEPT !.stake = @ + n]
  <2>1. /\ Exists(o) /\ coins[r.owner] >= n
        /\ coins' = [coins EXCEPT ![r.owner] = @ - n]
        /\ records' = [records EXCEPT ![o] = new] /\ spent' = spent
    BY <1>5 DEF StakeTile
  <2>2. r \in TileRecords /\ n \in Nat /\ Kept[o] = r.stake
    BY <2>1, ExistsIsRecord, EconomyAssumption
  <2>3. new \in TileRecords /\ new.stake = r.stake + n
    BY <2>2 DEF TileRecords
  <2> HIDE DEF r, new
  <2>4. /\ r.owner \in Addresses /\ coins' \in [Addresses -> Nat]
        /\ coins'[r.owner] = coins[r.owner] - n
        /\ \A b \in Addresses \ {r.owner} : coins'[b] = coins[b]
    BY <1>1, <2>1, <2>2 DEF ChainShape
  <2>5. ChainShape' /\ Kept'[o] = new.stake /\ \A p \in Objects \ {o} : Kept'[p] = Kept[p]
    BY <1>4, <2>1, <2>3, <2>4
  <2>6. n \in Int /\ Kept'[o] = Kept[o] + n
    BY <2>2, <2>3, <2>5
  <2>. QED BY <2>4, <2>5, <2>6, AseMoves
<1>6. ASSUME NEW o \in Objects, ReleaseTile(o) PROVE ChainInv'
  <2> DEFINE r == records[o]
  <2>1. /\ Exists(o) /\ coins' = [coins EXCEPT ![r.owner] = @ + r.stake]
        /\ records' = [records EXCEPT ![o] = NoRecord] /\ spent' = spent
    BY <1>6 DEF ReleaseTile, StakeReturned
  <2>2. r \in TileRecords /\ Kept[o] = r.stake
    BY <2>1, ExistsIsRecord
  <2> HIDE DEF r
  <2>3. /\ r.owner \in Addresses /\ r.stake \in Nat /\ coins' \in [Addresses -> Nat]
        /\ coins'[r.owner] = coins[r.owner] - (- r.stake)
        /\ \A b \in Addresses \ {r.owner} : coins'[b] = coins[b]
    BY <1>1, <2>1, <2>2 DEF ChainShape
  <2>4. records'[o] = NoRecord /\ \A p \in Objects \ {o} : records'[p] = records[p]
    BY <2>1 DEF ChainShape
  <2>5. ChainShape'
    <3>1. records' \in [Objects -> TileRecords \cup {NoRecord}]
      BY <2>1 DEF ChainShape
    <3>2. \A p \in Objects : Exists(p)' => p \in spent'
      BY <2>1, <2>4 DEF ChainShape, Exists
    <3>. QED BY <2>3, <3>1, <3>2 DEF ChainShape
  <2>6. Kept'[o] = Kept[o] + (- r.stake) /\ \A p \in Objects \ {o} : Kept'[p] = Kept[p]
    <3>1. Kept'[o] = 0
      BY <2>4 DEF Kept, Exists
    <3>2. \A p \in Objects \ {o} : Kept'[p] = Kept[p]
      BY <2>4 DEF Kept, Exists
    <3>. QED BY <2>2, <2>3, <3>1, <3>2
  <2>7. - r.stake \in Int
    BY <2>3
  <2>. QED BY <2>3, <2>5, <2>6, <2>7, AseMoves
<1>7. ASSUME NEW o \in Objects, NEW r \in TileRecords, Exists(o), records' = [records EXCEPT ![o] = r],
             r.stake = records[o].stake, UNCHANGED <<coins, spent>>
      PROVE  ChainInv'
  <2>1. /\ ChainShape' /\ Kept'[o] = r.stake
        /\ \A p \in Objects \ {o} : Kept'[p] = Kept[p]
    BY <1>4, <1>7 DEF ChainShape
  <2>2. Kept'[o] = Kept[o]
    BY <1>7, <2>1, ExistsIsRecord
  <2>3. Kept' = Kept
    BY <2>1, <2>2 DEF Kept
  <2>. QED BY <1>7, <2>1, <2>3, NothingMoves
<1>8. ASSUME NEW o \in Objects, NEW a \in Addresses, TransferRecord(o, a) PROVE ChainInv'
  <2> DEFINE r == [records[o] EXCEPT !.holder = a]
  <2>1. Exists(o) /\ records' = [records EXCEPT ![o] = r] /\ UNCHANGED <<coins, spent>>
    BY <1>8 DEF TransferRecord
  <2>2. records[o] \in TileRecords
    BY <2>1, ExistsIsRecord
  <2>3. r \in TileRecords /\ r.stake = records[o].stake
    BY <2>2 DEF TileRecords
  <2> HIDE DEF r
  <2>. QED BY <1>7, <2>1, <2>3
<1>9. ASSUME NEW o \in Objects, RecordCapture(o) PROVE ChainInv'
  <2> DEFINE r == [records[o] EXCEPT !.captures = @ + 1]
  <2>1. Exists(o) /\ records' = [records EXCEPT ![o] = r] /\ UNCHANGED <<coins, spent>>
    BY <1>9 DEF RecordCapture
  <2>2. records[o] \in TileRecords
    BY <2>1, ExistsIsRecord
  <2>3. r \in TileRecords /\ r.stake = records[o].stake
    BY <2>2 DEF TileRecords
  <2> HIDE DEF r
  <2>. QED BY <1>7, <2>1, <2>3
<1>10. CASE MintNext
  <2>1. UNCHANGED <<coins, records, spent>>
    BY <1>10 DEF MintNext, MintAse, UpdateTileEconomy, SetOwner
  <2>. QED BY <1>2, <2>1
<1>11. ASSUME NEW t, NEW keyed, AnchorClaim(t, keyed) \/ AnchorStake(t, keyed) PROVE ChainInv'
  BY <1>2, <1>11 DEF AnchorClaim, AnchorStake, Anchor
<1>12. CASE UNCHANGED tileVars
  BY <1>2, <1>12 DEF tileVars
<1>. QED
  BY <1>3, <1>5, <1>6, <1>8, <1>9, <1>10, <1>11, <1>12 DEF TileNext, ChainNext

(* No transaction makes ase or loses any: accounts and records together hold
   what the accounts held at first, for any number of accounts, records and
   tiles (StakeTile, ReleaseTile). *)
THEOREM StakesTheorem == TileSpec => []StakesAreKept
<1>1. ASSUME TileInit PROVE ChainInv
  <2>1. ChainShape
    BY <1>1, EconomyAssumption DEF TileInit, ChainShape, Exists
  <2>2. SumFunction(coins) = Cardinality(Addresses) * Coins
    <3>1. DOMAIN coins = Addresses /\ \A a \in Addresses : coins[a] = Coins
      BY <1>1 DEF TileInit
    <3>2. IsFiniteSet(Addresses) /\ Coins \in Int
      BY EconomyAssumption
    <3>. QED BY <3>1, <3>2, SumConstant DEF SumFunction
  <2>3. SumFunction(Kept) = 0
    <3> DEFINE kept == Kept
    <3>1. DOMAIN kept = Objects /\ \A o \in Objects : kept[o] = 0
      BY <1>1 DEF TileInit, Kept, Exists
    <3>2. IsFiniteSet(Objects) /\ Cardinality(Objects) * 0 = 0
      BY EconomyAssumption, FS_CardinalityType
    <3> HIDE DEF kept
    <3>3. SumFunctionOnSet(kept, Objects) = Cardinality(Objects) * 0
      BY <3>1, <3>2, SumConstant
    <3>. QED BY <3>1, <3>2, <3>3 DEF SumFunction, kept
  <2>4. Cardinality(Addresses) * Coins \in Int
    BY EconomyAssumption, FS_CardinalityType
  <2>. QED BY <2>1, <2>2, <2>3, <2>4 DEF ChainInv, StakesAreKept
<1>. QED BY <1>1, ChainStep, PTL DEF TileSpec, ChainInv

-----------------------------------------------------------------------------
(* The mint.  The last wallet takes what is left of the tithe, so that     *)
(* only the other seven must not take too much; a result does not change   *)
(* while it waits to be applied, whatever happens to its tile.             *)

LEMMA SumUpTo ==
  ASSUME NEW n \in Nat, NEW f, \A i \in 1..(n + 1) : f[i] \in Int
  PROVE  SumFunctionOnSet(f, 1..(n + 1)) = f[n + 1] + SumFunctionOnSet(f, 1..n)
<1>1. n + 1 \in 1..(n + 1) /\ (1..(n + 1)) \ {n + 1} = 1..n
  OBVIOUS
<1>2. IsFiniteSet(1..(n + 1))
  BY FS_Interval
<1>3. SumFunctionOnSet(f, 1..(n + 1)) = f[n + 1] + SumFunctionOnSet(f, (1..(n + 1)) \ {n + 1})
  BY <1>1, <1>2, SumTake
<1>. QED BY <1>1, <1>3

LEMMA SumOfSeven ==
  ASSUME NEW f, \A i \in 1..7 : f[i] \in Int
  PROVE  SumFunctionOnSet(f, 1..7) = f[1] + f[2] + f[3] + f[4] + f[5] + f[6] + f[7]
<1> DEFINE S(n) == SumFunctionOnSet(f, 1..n)
<1>1. S(0) = 0
  <2>1. 1..0 = {} /\ IsFiniteSet(1..0)
    BY FS_EmptySet
  <2>. QED BY <2>1, SumStep
<1>2. /\ S(0 + 1) = f[0 + 1] + S(0) /\ S(1 + 1) = f[1 + 1] + S(1) /\ S(2 + 1) = f[2 + 1] + S(2)
      /\ S(3 + 1) = f[3 + 1] + S(3) /\ S(4 + 1) = f[4 + 1] + S(4) /\ S(5 + 1) = f[5 + 1] + S(5)
      /\ S(6 + 1) = f[6 + 1] + S(6)
  <2>1. ASSUME NEW n \in 0..6 PROVE S(n + 1) = f[n + 1] + S(n)
    <3>1. n \in Nat /\ \A i \in 1..(n + 1) : f[i] \in Int
      OBVIOUS
    <3>. QED BY <3>1, SumUpTo
  <2> HIDE DEF S
  <2>. QED BY <2>1
<1> HIDE DEF S
<1>3. /\ S(1) = f[1] + S(0) /\ S(2) = f[2] + S(1) /\ S(3) = f[3] + S(2) /\ S(4) = f[4] + S(3)
      /\ S(5) = f[5] + S(4) /\ S(6) = f[6] + S(5) /\ S(7) = f[7] + S(6)
  BY <1>2
<1>4. S(7) = f[1] + f[2] + f[3] + f[4] + f[5] + f[6] + f[7]
  BY <1>1, <1>3
<1>. QED BY <1>4 DEF S

LEMMA RouteAddsUp ==
  ASSUME NEW n \in Nat
  PROVE  ElegbaraRoute(n) \in [1..8 -> Nat] /\ SumFunction(ElegbaraRoute(n)) = n
<1> DEFINE part == [i \in 1..7 |-> Part(n, i)]
           route == ElegbaraRoute(n)
           D == Distributed(n)
<1>1. /\ part[1] = (n * 3000) \div 10000 /\ part[2] = (n * 2000) \div 10000
      /\ part[3] = (n * 1000) \div 10000 /\ part[4] = (n * 1000) \div 10000
      /\ part[5] = (n * 1000) \div 10000 /\ part[6] = (n * 1000) \div 10000
      /\ part[7] = (n * 500) \div 10000
  BY DEF Part, ElegbaraParts
<1>2. \A i \in 1..7 : part[i] \in Nat
  <2>1. \A i \in 1..7 : i = 1 \/ i = 2 \/ i = 3 \/ i = 4 \/ i = 5 \/ i = 6 \/ i = 7
    OBVIOUS
  <2>2. part[1] \in Nat /\ part[2] \in Nat /\ part[3] \in Nat /\ part[4] \in Nat
        /\ part[5] \in Nat /\ part[6] \in Nat /\ part[7] \in Nat
    <3> HIDE DEF part
    <3>. QED BY <1>1
  <2> HIDE DEF part
  <2>. QED BY <2>1, <2>2
<1>3. D = SumFunctionOnSet(part, 1..7)
  BY DEF Distributed, SumFunction
<1>4. D \in Nat /\ D <= n
  <2> HIDE DEF part, D
  <2>1. D = part[1] + part[2] + part[3] + part[4] + part[5] + part[6] + part[7]
    BY <1>2, <1>3, SumOfSeven
  <2>2. /\ 10000 * part[1] <= n * 3000 /\ 10000 * part[2] <= n * 2000 /\ 10000 * part[3] <= n * 1000
        /\ 10000 * part[4] <= n * 1000 /\ 10000 * part[5] <= n * 1000 /\ 10000 * part[6] <= n * 1000
        /\ 10000 * part[7] <= n * 500
    BY <1>1
  <2>3. part[1] \in Nat /\ part[2] \in Nat /\ part[3] \in Nat /\ part[4] \in Nat
        /\ part[5] \in Nat /\ part[6] \in Nat /\ part[7] \in Nat
    BY <1>2
  <2>. QED BY <2>1, <2>2, <2>3
<1>5. /\ route \in [1..8 -> Nat] /\ route[8] = n - D
      /\ \A i \in 1..7 : route[i] = part[i]
  <2>1. route = [i \in 1..8 |-> IF i < 8 THEN Part(n, i) ELSE Saturating(n, D)]
    BY DEF ElegbaraRoute
  <2>2. Saturating(n, D) = n - D /\ n - D \in Nat
    <3> HIDE DEF D
    <3>. QED BY <1>4 DEF Saturating
  <2>3. \A i \in 1..7 : Part(n, i) = part[i]
    OBVIOUS
  <2> HIDE DEF route, part, D
  <2>. QED BY <1>2, <2>1, <2>2, <2>3
<1> HIDE DEF route, part, D
<1>6. SumFunctionOnSet(route, 1..8) = route[8] + SumFunctionOnSet(route, 1..7)
  <2>1. \A i \in 1..(7 + 1) : route[i] \in Int
    BY <1>5
  <2>2. SumFunctionOnSet(route, 1..(7 + 1)) = route[7 + 1] + SumFunctionOnSet(route, 1..7)
    BY <2>1, SumUpTo
  <2>3. 7 + 1 = 8
    OBVIOUS
  <2>. QED BY <2>2, <2>3
<1>7. SumFunctionOnSet(route, 1..7) = SumFunctionOnSet(part, 1..7)
  <2>1. \A i \in 1..7 : part[i] \in Int /\ part[i] = route[i]
    BY <1>2, <1>5
  <2>2. IsFiniteSet(1..7)
    <3>1. PICK k \in Int : k = 7
      OBVIOUS
    <3>2. IsFiniteSet(1..k)
      BY FS_Interval
    <3>. QED BY <3>1, <3>2
  <2>. QED BY <2>1, <2>2, SumSame
<1>8. SumFunction(route) = n
  <2>1. SumFunction(route) = SumFunctionOnSet(route, 1..8)
    BY <1>5 DEF SumFunction
  <2>. QED BY <1>3, <1>4, <1>5, <1>6, <1>7, <2>1
<1>. QED BY <1>5, <1>8 DEF route

LEMMA MintFits ==
  ASSUME NEW q \in Scores, NEW v \in Scores, NEW pct \in 0..100
  PROVE  LET tokens == MintAmount(q, v)
             net == Saturating(tokens, EshuTithe(tokens))
         IN  /\ tokens \in Nat /\ EshuTithe(tokens) \in Nat
             /\ net \in Nat /\ tokens = net + EshuTithe(tokens)
             /\ OwnerFee(net, pct) \in Nat /\ OwnerFee(net, pct) <= net
<1> DEFINE tokens == MintAmount(q, v)
           net == Saturating(tokens, EshuTithe(tokens))
<1>1. tokens \in Nat
  <2>1. q \in Nat /\ v \in Nat
    BY EconomyAssumption
  <2>2. 1000 + 2 * q \in Nat /\ 1000 + v \div 2 \in Nat
    BY <2>1
  <2>3. \A x, y \in Nat : x * y \in Nat
    OBVIOUS
  <2>. QED BY <2>2, <2>3 DEF MintAmount
<1> HIDE DEF tokens
<1>2. EshuTithe(tokens) \in Nat /\ EshuTithe(tokens) <= tokens
  BY <1>1 DEF EshuTithe
<1>3. net \in Nat /\ tokens = net + EshuTithe(tokens)
  BY <1>1, <1>2 DEF Saturating
<1> HIDE DEF net
<1>4. OwnerFee(net, pct) \in Nat /\ OwnerFee(net, pct) <= net
  <2>1. net * pct \in Nat /\ net * pct <= net * 100
    <3>1. \A x, y, z \in Nat : y <= z => x * y \in Nat /\ x * y <= x * z
      OBVIOUS
    <3>. QED BY <1>3, <3>1
  <2> DEFINE k == net * pct
  <2> HIDE DEF k
  <2>2. k \in Nat /\ k <= net * 100
    BY <2>1 DEF k
  <2>3. k \div 100 \in Nat /\ k \div 100 <= net
    BY <1>3, <2>2
  <2>. QED BY <2>3 DEF OwnerFee, k
<1>. QED BY <1>1, <1>2, <1>3, <1>4 DEF tokens, net

MintResults == [tile : Tiles, tokens : Nat, net : Nat, fee : Nat, route : [1..8 -> Nat], applied : BOOLEAN]
TileEconomies == [owned : BOOLEAN, fee : 0..100, earned : Nat, captures : Nat]

MintShape ==
  /\ economy \in [Tiles -> TileEconomies]
  /\ mints \in Seq(MintResults)

MintInv == MintShape /\ MintsAddUp

(* What the makers of the mints applied to a tile got. *)
MakersShares(t) == [i \in Applied(t) |-> mints[i].net - mints[i].fee]

LEMMA AppliedIsFinite ==
  ASSUME MintShape, NEW t
  PROVE  /\ Applied(t) \subseteq 1..Len(mints) /\ IsFiniteSet(Applied(t))
         /\ \A i \in 1..Len(mints) : mints[i] \in MintResults
         /\ \A i \in Applied(t) : mints[i].net - mints[i].fee \in Int
<1>1. Len(mints) \in Nat /\ DOMAIN mints = 1..Len(mints)
      /\ \A i \in 1..Len(mints) : mints[i] \in MintResults
  BY DEF MintShape
<1>2. Applied(t) \subseteq 1..Len(mints)
  BY <1>1 DEF Applied
<1>3. IsFiniteSet(Applied(t))
  <2>1. IsFiniteSet(1..Len(mints))
    BY <1>1, FS_Interval
  <2>. QED BY <1>2, <2>1, FS_Subset
<1>4. \A m \in MintResults : m.net - m.fee \in Int
  BY DEF MintResults
<1>. QED BY <1>1, <1>2, <1>3, <1>4

LEMMA MintAseStep ==
  ASSUME MintInv, NEW t \in Tiles, NEW q \in Scores, NEW v \in Scores, MintAse(t, q, v)
  PROVE  MintInv'
<1> DEFINE tokens == MintAmount(q, v)
           tithe == EshuTithe(tokens)
           net == Saturating(tokens, tithe)
           fee == IF economy[t].owned THEN OwnerFee(net, economy[t].fee) ELSE 0
           m == [tile |-> t, tokens |-> tokens, net |-> net, fee |-> fee,
                 route |-> ElegbaraRoute(tithe), applied |-> FALSE]
<1>1. economy[t].fee \in 0..100 /\ economy[t].owned \in BOOLEAN
  BY DEF MintInv, MintShape, TileEconomies
<1>2. /\ tokens \in Nat /\ tithe \in Nat /\ net \in Nat /\ tokens = net + tithe
      /\ OwnerFee(net, economy[t].fee) \in Nat /\ OwnerFee(net, economy[t].fee) <= net
  BY <1>1, MintFits
<1>3. mints' = Append(mints, m) /\ economy' = economy
  BY DEF MintAse
<1> HIDE DEF tokens, tithe, net
<1>4. fee \in Nat /\ fee <= net
  BY <1>1, <1>2
<1> HIDE DEF fee
<1>5. /\ m \in MintResults /\ ~ m.applied
      /\ m.fee <= m.net /\ m.tokens = m.net + SumFunction(m.route)
  BY <1>2, <1>4, RouteAddsUp DEF MintResults
<1> HIDE DEF m
<1>6. /\ Len(mints) \in Nat /\ DOMAIN mints = 1..Len(mints)
      /\ mints' \in Seq(MintResults) /\ DOMAIN mints' = 1..(Len(mints) + 1)
      /\ mints'[Len(mints) + 1] = m /\ \A i \in 1..Len(mints) : mints'[i] = mints[i]
  BY <1>3, <1>5 DEF MintInv, MintShape
<1>7. \A i \in DOMAIN mints' : i = Len(mints) + 1 \/ i \in DOMAIN mints
  BY <1>6
<1>8. ASSUME NEW s PROVE Applied(s)' = Applied(s)
  BY <1>5, <1>6, <1>7 DEF Applied
<1>9. \A s : MakersShares(s)' = MakersShares(s)
  <2>1. ASSUME NEW s, NEW i \in Applied(s) PROVE mints'[i] = mints[i]
    BY <1>6 DEF Applied
  <2>. QED BY <1>8, <2>1 DEF MakersShares
<1>10. \A i \in DOMAIN mints' : mints'[i].fee <= mints'[i].net
                                /\ mints'[i].tokens = mints'[i].net + SumFunction(mints'[i].route)
  BY <1>5, <1>6, <1>7 DEF MintInv, MintsAddUp
<1>11. \A s \in Tiles : /\ economy'[s].earned = SumFunction(MakersShares(s)')
                        /\ economy'[s].captures = Cardinality(Applied(s)')
  BY <1>3, <1>8, <1>9 DEF MintInv, MintsAddUp, MakersShares
<1>12. MintShape'
  BY <1>3, <1>6 DEF MintInv, MintShape
<1>. QED BY <1>10, <1>11, <1>12 DEF MintInv, MintsAddUp, MakersShares

LEMMA ApplyStep ==
  ASSUME MintInv, NEW k \in DOMAIN mints, NEW t, t = mints[k].tile, UpdateTileEconomy(k)
  PROVE  MintInv'
<1> DEFINE m == mints[k]
           new == [economy[t] EXCEPT !.captures = @ + 1, !.earned = @ + MinerShare(m)]
<1>1. /\ ~ m.applied
      /\ mints' = [mints EXCEPT ![k].applied = TRUE]
      /\ economy' = [economy EXCEPT ![t] = new]
  <2>1. ~ m.applied /\ mints' = [mints EXCEPT ![k].applied = TRUE]
    BY DEF UpdateTileEconomy
  <2>2. economy' = [economy EXCEPT ![t] = new]
    <3> DEFINE share == MinerShare(m)
    <3>1. economy' = [economy EXCEPT ![t].captures = @ + 1, ![t].earned = @ + share]
      BY DEF UpdateTileEconomy
    <3>2. economy \in [Tiles -> TileEconomies]
      BY DEF MintInv, MintShape
    <3>3. t \in Tiles
      <4>1. m \in MintResults
        BY DEF MintInv, MintShape
      <4>. QED BY <4>1 DEF MintResults
    <3>4. new = [economy[t] EXCEPT !.captures = @ + 1, !.earned = @ + share]
      OBVIOUS
    <3>5. economy[t] \in TileEconomies
      BY <3>2, <3>3
    <3> HIDE DEF share, new
    <3>6. [economy EXCEPT ![t].captures = @ + 1, ![t].earned = @ + share] = [economy EXCEPT ![t] = new]
      BY <3>2, <3>3, <3>4, <3>5 DEF TileEconomies
    <3>. QED BY <3>1, <3>6
  <2>. QED BY <2>1, <2>2
<1>2. /\ Len(mints) \in Nat /\ DOMAIN mints = 1..Len(mints) /\ m \in MintResults
      /\ \A i \in DOMAIN mints : mints[i] \in MintResults
  BY DEF MintInv, MintShape
<1>3. /\ t \in Tiles /\ m.net \in Nat /\ m.fee \in Nat
  BY <1>2 DEF MintResults
<1>4. m.fee <= m.net
  BY DEF MintInv, MintsAddUp
<1>5. MinerShare(m) = m.net - m.fee /\ MinerShare(m) \in Nat
  BY <1>3, <1>4 DEF MinerShare, Saturating
<1>6. economy[t] \in TileEconomies
  BY <1>3 DEF MintInv, MintShape
<1>7. /\ new \in TileEconomies
      /\ new.earned = economy[t].earned + (m.net - m.fee) /\ new.captures = economy[t].captures + 1
  <2> DEFINE e == economy[t]
             share == MinerShare(m)
  <2>1. new = [e EXCEPT !.captures = @ + 1, !.earned = @ + share]
    OBVIOUS
  <2>2. e \in TileEconomies /\ share = m.net - m.fee /\ share \in Nat
    BY <1>5, <1>6
  <2> HIDE DEF e, share, new
  <2>3. e.owned \in BOOLEAN /\ e.fee \in 0..100 /\ e.earned \in Nat /\ e.captures \in Nat
        /\ e = [owned |-> e.owned, fee |-> e.fee, earned |-> e.earned, captures |-> e.captures]
    BY <2>2 DEF TileEconomies
  <2>4. new = [owned |-> e.owned, fee |-> e.fee, earned |-> e.earned + share, captures |-> e.captures + 1]
    BY <2>1, <2>3
  <2>5. new.earned = e.earned + share /\ new.captures = e.captures + 1
    BY <2>4
  <2>6. new \in TileEconomies
    BY <2>2, <2>3, <2>4 DEF TileEconomies
  <2>. QED BY <2>2, <2>5, <2>6 DEF e
<1>8. /\ DOMAIN mints' = DOMAIN mints
      /\ mints'[k] = [m EXCEPT !.applied = TRUE]
      /\ \A i \in DOMAIN mints : i # k => mints'[i] = mints[i]
  BY <1>1, <1>2
<1>9. /\ mints'[k] \in MintResults /\ mints'[k].applied /\ mints'[k].tile = t
      /\ mints'[k].net = m.net /\ mints'[k].fee = m.fee
      /\ mints'[k].tokens = m.tokens /\ mints'[k].route = m.route
  BY <1>2, <1>8 DEF MintResults
<1>10. mints' \in Seq(MintResults)
  BY <1>1, <1>2, <1>9 DEF MintInv, MintShape
<1> HIDE DEF m, new
<1>11. economy' \in [Tiles -> TileEconomies]
       /\ economy'[t] = new /\ \A s \in Tiles : s # t => economy'[s] = economy[s]
  BY <1>1, <1>3, <1>7 DEF MintInv, MintShape
<1>12. \A i \in DOMAIN mints : /\ mints'[i].tile = mints[i].tile
                               /\ mints'[i].net - mints'[i].fee = mints[i].net - mints[i].fee
  BY <1>8, <1>9 DEF m
<1>13. \A i \in DOMAIN mints' : mints'[i].fee <= mints'[i].net
                                /\ mints'[i].tokens = mints'[i].net + SumFunction(mints'[i].route)
  <2>1. m.tokens = m.net + SumFunction(m.route)
    BY DEF m, MintInv, MintsAddUp
  <2>2. \A i \in DOMAIN mints : mints[i].fee <= mints[i].net
                                /\ mints[i].tokens = mints[i].net + SumFunction(mints[i].route)
    BY DEF MintInv, MintsAddUp
  <2>. QED BY <1>4, <1>8, <1>9, <2>1, <2>2
<1>14. k \notin Applied(t) /\ Applied(t)' = Applied(t) \cup {k}
  BY <1>1, <1>8, <1>9, <1>12 DEF Applied, m
<1>15. \A s : s # t => Applied(s)' = Applied(s)
  BY <1>8, <1>9, <1>12 DEF Applied, m
<1>16. MintShape
  BY DEF MintInv
<1>17. /\ SumFunction(MakersShares(t)') = SumFunction(MakersShares(t)) + (m.net - m.fee)
       /\ Cardinality(Applied(t)') = Cardinality(Applied(t)) + 1
  <2> DEFINE S == Applied(t)
             f == MakersShares(t)
             g == MakersShares(t)'
  <2>1. IsFiniteSet(S) /\ \A i \in S : i \in DOMAIN mints /\ mints[i].net - mints[i].fee \in Int
    BY <1>2, <1>16, AppliedIsFinite
  <2>2. DOMAIN f = S /\ \A i \in S : f[i] = mints[i].net - mints[i].fee
    BY DEF MakersShares
  <2>3. DOMAIN g = S \cup {k} /\ \A i \in S \cup {k} : g[i] = mints'[i].net - mints'[i].fee
    BY <1>14 DEF MakersShares
  <2>4. g[k] = m.net - m.fee /\ g[k] \in Int
    BY <1>3, <1>9, <2>3
  <2>5. \A i \in S : f[i] \in Int /\ f[i] = g[i]
    BY <1>12, <2>1, <2>2, <2>3
  <2>6. k \notin S
    BY <1>14
  <2>7. g \in [S \cup {k} -> Int] /\ f = [i \in S |-> g[i]]
    <3>1. g = [i \in S \cup {k} |-> g[i]] /\ f = [i \in S |-> f[i]]
      BY <1>14 DEF MakersShares
    <3> HIDE DEF f, g, S
    <3>2. \A i \in S \cup {k} : g[i] \in Int
      BY <2>4, <2>5
    <3>. QED BY <2>5, <3>1, <3>2
  <2> HIDE DEF f, g, S
  <2>8. SumFunction(g) = SumFunction(f) + (m.net - m.fee)
    BY <2>1, <2>4, <2>6, <2>7, SumGrows
  <2>9. Cardinality(S \cup {k}) = Cardinality(S) + 1
    BY <2>1, <2>6, FS_AddElement
  <2>. QED BY <1>14, <2>8, <2>9 DEF f, g, S
<1>18. \A s : s # t => MakersShares(s)' = MakersShares(s)
  <2>1. \A s : \A i \in Applied(s) : mints'[i].net - mints'[i].fee = mints[i].net - mints[i].fee
    BY <1>12 DEF Applied
  <2>. QED BY <1>15, <2>1 DEF MakersShares
<1>19. \A s \in Tiles : /\ economy[s].earned = SumFunction(MakersShares(s))
                        /\ economy[s].captures = Cardinality(Applied(s))
  BY DEF MintInv, MintsAddUp, MakersShares
<1>20. \A s \in Tiles : /\ economy'[s].earned = SumFunction(MakersShares(s)')
                        /\ economy'[s].captures = Cardinality(Applied(s)')
  <2>1. ASSUME NEW s \in Tiles
        PROVE  /\ economy'[s].earned = SumFunction(MakersShares(s)')
               /\ economy'[s].captures = Cardinality(Applied(s)')
    <3>1. CASE s = t
      <4>1. economy'[t].earned = economy[t].earned + (m.net - m.fee)
            /\ economy'[t].captures = economy[t].captures + 1
        BY <1>7, <1>11
      <4>2. economy[t].earned = SumFunction(MakersShares(t)) /\ economy[t].captures = Cardinality(Applied(t))
        BY <1>3, <1>19
      <4>3. economy'[t].earned = SumFunction(MakersShares(t)')
        BY <1>17, <4>1, <4>2
      <4>4. economy'[t].captures = Cardinality(Applied(t)')
        BY <1>17, <4>1, <4>2
      <4>. QED BY <3>1, <4>3, <4>4
    <3>2. CASE s # t
      BY <1>11, <1>15, <1>18, <1>19, <3>2
    <3>. QED BY <3>1, <3>2
  <2>. QED BY <2>1
<1>21. MintShape'
  BY <1>10, <1>11 DEF MintShape
<1>. QED BY <1>13, <1>20, <1>21 DEF MintInv, MintsAddUp, MakersShares

LEMMA MintStep ==
  ASSUME MintInv, [TileNext]_tileVars
  PROVE  MintInv'
<1>1. ASSUME UNCHANGED mints, economy' \in [Tiles -> TileEconomies],
             \A t \in Tiles : economy'[t].earned = economy[t].earned /\ economy'[t].captures = economy[t].captures
      PROVE  MintInv'
  <2>1. \A t : Applied(t)' = Applied(t)
    BY <1>1 DEF Applied
  <2>. QED BY <1>1, <2>1 DEF MintInv, MintShape, MintsAddUp
<1>2. ASSUME UNCHANGED <<mints, economy>> PROVE MintInv'
  BY <1>1, <1>2 DEF MintInv, MintShape
<1>3. CASE ChainNext \/ UNCHANGED tileVars
  <2>1. UNCHANGED <<mints, economy>>
    BY <1>3 DEF tileVars, ChainNext, ClaimTile, StakeTile, TransferRecord, RecordCapture, ReleaseTile,
                AnchorClaim, AnchorStake, Anchor
  <2>. QED BY <1>2, <2>1
<1>4. ASSUME NEW t \in Tiles, NEW fee \in Fees, SetOwner(t, fee) PROVE MintInv'
  <2> DEFINE new == [economy[t] EXCEPT !.owned = TRUE, !.fee = fee]
  <2>1. mints' = mints /\ economy' = [economy EXCEPT ![t] = new]
    BY <1>4 DEF SetOwner
  <2>2. economy \in [Tiles -> TileEconomies]
    BY DEF MintInv, MintShape
  <2>3. new \in TileEconomies /\ new.earned = economy[t].earned /\ new.captures = economy[t].captures
    <3> DEFINE e == economy[t]
    <3>1. new = [e EXCEPT !.owned = TRUE, !.fee = fee] /\ e \in TileEconomies /\ fee \in 0..100
      BY <2>2, EconomyAssumption
    <3> HIDE DEF e, new
    <3>2. e.earned \in Nat /\ e.captures \in Nat
          /\ e = [owned |-> e.owned, fee |-> e.fee, earned |-> e.earned, captures |-> e.captures]
      BY <3>1 DEF TileEconomies
    <3>3. new = [owned |-> TRUE, fee |-> fee, earned |-> e.earned, captures |-> e.captures]
      BY <3>1, <3>2
    <3>. QED BY <3>1, <3>2, <3>3 DEF TileEconomies, e
  <2> HIDE DEF new
  <2>. QED BY <1>1, <2>1, <2>2, <2>3
<1>. QED BY <1>3, <1>4, MintAseStep, ApplyStep DEF TileNext, MintNext

(* Mints are shared out to the last unit and credited once, for any amounts,
   fees and owners (MintAse, UpdateTileEconomy). *)
THEOREM MintsTheorem == TileSpec => []MintsAddUp
<1>1. ASSUME TileInit PROVE MintInv
  <2>1. MintShape
    BY <1>1 DEF TileInit, MintShape, Unowned, TileEconomies
  <2>2. DOMAIN mints = {} /\ \A t \in Tiles : economy[t].earned = 0 /\ economy[t].captures = 0
    BY <1>1 DEF TileInit, Unowned
  <2>3. \A t : Applied(t) = {}
    BY <2>2 DEF Applied
  <2>4. ASSUME NEW t \in Tiles
        PROVE  SumFunction([i \in Applied(t) |-> mints[i].net - mints[i].fee]) = 0 /\ Cardinality(Applied(t)) = 0
    <3> DEFINE f == [i \in Applied(t) |-> mints[i].net - mints[i].fee]
    <3>1. DOMAIN f = {}
      BY <2>3
    <3> HIDE DEF f
    <3>2. SumFunction(f) = 0
      BY <3>1, SumStep, FS_EmptySet DEF SumFunction
    <3>. QED BY <2>3, <3>2, FS_EmptySet DEF f
  <2>. QED BY <2>1, <2>2, <2>4 DEF MintInv, MintsAddUp
<1>. QED BY <1>1, MintStep, PTL DEF TileSpec, MintInv
-----------------------------------------------------------------------------
(* Merged clouds.  A voxel is an interval of coordinates, and the mean of  *)
(* the points in it is rounded to one between the least and the greatest.  *)

LEMMA TimesMore ==
  ASSUME NEW a \in Int, NEW b \in Int, a <= b, NEW n \in Nat
  PROVE  a * n <= b * n
<1>1. (b - a) * n \in Nat
  OBVIOUS
<1>2. (b - a) * n = b * n - a * n
  OBVIOUS
<1>. QED BY <1>1, <1>2

LEMMA RoundedBetween ==
  ASSUME NEW n \in Nat \ {0}, NEW s \in Int, NEW lo \in Int, NEW hi \in Int, lo * n <= s, s <= hi * n
  PROVE  Rounded(s, n) \in Int /\ lo <= Rounded(s, n) /\ Rounded(s, n) <= hi
<1> DEFINE k == (2 * s + n) \div (2 * n)
<1>1. k \in Int /\ k * (2 * n) <= 2 * s + n /\ 2 * s + n < (k + 1) * (2 * n)
  <2>1. 2 * s + n \in Int /\ 2 * n \in Nat \ {0}
    OBVIOUS
  <2>2. \A a \in Int : \A m \in Nat \ {0} : a \div m \in Int /\ (a \div m) * m <= a /\ a < ((a \div m) + 1) * m
    <3>1. SUFFICES ASSUME NEW a \in Int, NEW m \in Nat \ {0}
          PROVE a \div m \in Int /\ (a \div m) * m <= a /\ a < ((a \div m) + 1) * m
      OBVIOUS
    <3>2. a \div m \in Int /\ (a \div m) * m <= a
      OBVIOUS
    <3>3. a < (a \div m) * m + m
      OBVIOUS
    <3>. QED BY <3>2, <3>3
  <2>. QED BY <2>1, <2>2
<1>2. Rounded(s, n) = k
  BY DEF Rounded
<1> HIDE DEF k
<1>3. lo <= k
  <2>1. SUFFICES ASSUME k + 1 <= lo PROVE FALSE
    BY <1>1
  <2>2. (k + 1) * (2 * n) <= lo * (2 * n)
    BY <1>1, <2>1, TimesMore
  <2>3. lo * (2 * n) = 2 * (lo * n)
    OBVIOUS
  <2>4. lo * n \in Int /\ (k + 1) * (2 * n) \in Int
    BY <1>1
  <2>. QED BY <1>1, <2>2, <2>3, <2>4
<1>4. k <= hi
  <2>1. SUFFICES ASSUME hi + 1 <= k PROVE FALSE
    BY <1>1
  <2>2. (hi + 1) * (2 * n) <= k * (2 * n)
    BY <1>1, <2>1, TimesMore
  <2>3. (hi + 1) * (2 * n) = 2 * (hi * n) + 2 * n
    OBVIOUS
  <2>4. hi * n \in Int /\ k * (2 * n) \in Int
    BY <1>1
  <2>. QED BY <1>1, <2>2, <2>3, <2>4
<1>. QED BY <1>1, <1>2, <1>3, <1>4

LEMMA MeanBetween ==
  ASSUME NEW cloud, NEW v, IsFiniteSet(v), v # {}, v \subseteq Int, \A p \in v : cloud[p] \in Nat \ {0},
         NEW lo \in Int, NEW hi \in Int, \A p \in v : lo <= p /\ p <= hi
  PROVE  Mean(cloud, v) \in Int /\ lo <= Mean(cloud, v) /\ Mean(cloud, v) <= hi
<1> DEFINE w == [p \in v |-> cloud[p]]
           moments == [p \in v |-> p * cloud[p]]
           low == [p \in v |-> w[p] * lo]
           high == [p \in v |-> w[p] * hi]
           n == SumFunctionOnSet(w, v)
           s == SumFunctionOnSet(moments, v)
<1>1. Mean(cloud, v) = Rounded(s, n)
  BY DEF Mean, SumFunction
<1>2. \A p \in v : /\ w[p] \in Nat \ {0} /\ low[p] \in Int /\ high[p] \in Int /\ moments[p] \in Int
                   /\ low[p] = w[p] * lo /\ high[p] = w[p] * hi
  OBVIOUS
<1>3. \A p \in v : low[p] <= moments[p] /\ moments[p] <= high[p]
  <2>1. SUFFICES ASSUME NEW p \in v PROVE low[p] <= moments[p] /\ moments[p] <= high[p]
    OBVIOUS
  <2>2. p \in Int /\ cloud[p] \in Nat /\ lo <= p /\ p <= hi
    OBVIOUS
  <2>3. lo * cloud[p] <= p * cloud[p] /\ p * cloud[p] <= hi * cloud[p]
    BY <2>2, TimesMore
  <2>4. \A a \in Int : cloud[p] * a = a * cloud[p]
    BY <2>2
  <2>5. low[p] = lo * cloud[p] /\ high[p] = hi * cloud[p] /\ moments[p] = p * cloud[p]
    BY <2>4
  <2>. QED BY <2>3, <2>5
<1> HIDE DEF w, moments, low, high
<1>4. /\ SumFunctionOnSet(low, v) <= s /\ s <= SumFunctionOnSet(high, v)
  BY <1>2, <1>3, SumLess
<1>5. SumFunctionOnSet(low, v) = n * lo /\ SumFunctionOnSet(high, v) = n * hi
  <2>1. \A p \in v : w[p] \in Int /\ low[p] = w[p] * lo
    BY <1>2
  <2>2. \A p \in v : w[p] \in Int /\ high[p] = w[p] * hi
    BY <1>2
  <2>. QED BY <2>1, <2>2, SumScaled
<1>6. s \in Int
  BY <1>2, SumType
<1>7. n \in Nat \ {0}
  <2>1. \A p \in v : w[p] \in Nat
    BY <1>2
  <2>2. n \in Nat /\ (n > 0 <=> \E p \in v : w[p] > 0)
    BY <2>1, PositiveSum
  <2>3. \E p \in v : w[p] > 0
    <3>1. PICK p \in v : TRUE
      OBVIOUS
    <3>2. w[p] > 0
      BY <1>2
    <3>. QED BY <3>2
  <2>. QED BY <2>2, <2>3
<1> HIDE DEF n, s
<1>8. lo * n <= s /\ s <= hi * n
  <2>1. n * lo = lo * n /\ n * hi = hi * n
    BY <1>7
  <2>. QED BY <1>4, <1>5, <2>1
<1>. QED BY <1>1, <1>6, <1>7, <1>8, RoundedBetween

LEMMA HeldIsFinite ==
  ASSUME NEW cloud \in [Coords -> Nat]
  PROVE  /\ Held(cloud) \subseteq Coords /\ IsFiniteSet(Held(cloud)) /\ Held(cloud) \subseteq Int
         /\ \A p \in Held(cloud) : cloud[p] \in Nat \ {0}
<1>1. Held(cloud) \subseteq Coords
  BY DEF Held
<1>2. IsFiniteSet(Held(cloud))
  BY <1>1, FS_Subset, MergeAssumption
<1>3. \A p \in Held(cloud) : cloud[p] \in Nat \ {0}
  BY DEF Held
<1>. QED BY <1>1, <1>2, <1>3, MergeAssumption

LEMMA CellIsInterval ==
  ASSUME grid \in Nat \ {0}, NEW q \in Int, NEW k \in Int
  PROVE  Cell(q) = k <=> k * grid <= q /\ q <= k * grid + grid - 1
<1> DEFINE d == q \div grid
<1>1. d \in Int /\ d * grid <= q /\ q < d * grid + grid
  OBVIOUS
<1>2. Cell(q) = d
  BY DEF Cell
<1> HIDE DEF d
<1>3. CASE d = k
  <2>1. k * grid \in Int
    OBVIOUS
  <2>. QED BY <1>1, <1>2, <1>3, <2>1
<1>4. CASE d + 1 <= k
  <2>1. (d + 1) * grid <= k * grid
    BY <1>1, <1>4, TimesMore
  <2>2. (d + 1) * grid = d * grid + grid /\ d * grid \in Int /\ k * grid \in Int
    BY <1>1
  <2>. QED BY <1>1, <1>2, <1>4, <2>1, <2>2
<1>5. CASE k + 1 <= d
  <2>1. (k + 1) * grid <= d * grid
    BY <1>1, <1>5, TimesMore
  <2>2. (k + 1) * grid = k * grid + grid /\ d * grid \in Int /\ k * grid \in Int
    BY <1>1
  <2>. QED BY <1>1, <1>2, <1>5, <2>1, <2>2
<1>. QED BY <1>1, <1>3, <1>4, <1>5

LEMMA CellIsNarrow ==
  ASSUME grid \in Nat \ {0}, NEW p \in Int, NEW q \in Int, Cell(p) = Cell(q)
  PROVE  Distance(p, q) < grid
<1> DEFINE k == Cell(p)
<1>1. k \in Int
  BY DEF Cell
<1> HIDE DEF k
<1>2. Cell(p) = k /\ Cell(q) = k
  BY DEF k
<1>3. /\ k * grid <= p /\ p <= k * grid + grid - 1
      /\ k * grid <= q /\ q <= k * grid + grid - 1
  BY <1>1, <1>2, CellIsInterval
<1>4. k * grid \in Int
  BY <1>1
<1>. QED BY <1>3, <1>4 DEF Distance

Voxel(cloud, p) == {q \in Held(cloud) : Cell(q) = Cell(p)}

(* The point of a voxel is in the voxel, between two points of the cloud. *)
LEMMA MeanOfVoxel ==
  ASSUME NEW cloud \in [Coords -> Nat], grid \in Nat \ {0}, NEW p \in Held(cloud)
  PROVE  LET m == Mean(cloud, Voxel(cloud, p))
         IN  /\ m \in Coords /\ Cell(m) = Cell(p)
             /\ \E a, b \in Held(cloud) : a <= m /\ m <= b
<1> DEFINE v == Voxel(cloud, p)
           m == Mean(cloud, v)
           c == Cell(p)
<1>1. /\ IsFiniteSet(v) /\ v # {} /\ v \subseteq Int /\ v \subseteq Coords
      /\ v \subseteq Held(cloud) /\ \A q \in v : cloud[q] \in Nat \ {0}
  <2>1. v \subseteq Held(cloud) /\ p \in v
    BY DEF Voxel
  <2>. QED BY <2>1, HeldIsFinite, FS_Subset
<1>2. p \in Int /\ c \in Int /\ \A q \in v : q \in Int /\ Cell(q) = c
  <2>1. p \in Int
    BY HeldIsFinite
  <2>. QED BY <1>1, <2>1 DEF Cell, Voxel
<1>3. \A q, k \in Int : Cell(q) = k <=> k * grid <= q /\ q <= k * grid + grid - 1
  BY CellIsInterval
<1> HIDE DEF v, c
<1>4. \A q \in v : c * grid <= q /\ q <= c * grid + grid - 1
  BY <1>2, <1>3
<1>5. Cell(m) = c /\ m \in Int
  <2>1. c * grid \in Int /\ c * grid + grid - 1 \in Int
    BY <1>2
  <2>2. m \in Int /\ c * grid <= m /\ m <= c * grid + grid - 1
    BY <1>1, <1>4, <2>1, MeanBetween
  <2> HIDE DEF m
  <2>. QED BY <1>2, <1>3, <2>2
<1>6. /\ Min(v) \in v /\ Max(v) \in v
      /\ \A q \in v : Min(v) <= q /\ q <= Max(v)
  BY <1>1, SmallestIn, LargestIn
<1>7. Min(v) <= m /\ m <= Max(v)
  BY <1>1, <1>6, MeanBetween
<1> HIDE DEF m
<1>8. m \in Coords
  <2>1. Min(v) \in Coords /\ Max(v) \in Coords /\ Min(v) \in Int /\ Max(v) \in Int
    BY <1>1, <1>6
  <2>2. m \in Min(v)..Max(v)
    BY <1>5, <1>7, <2>1
  <2>. QED BY <2>1, <2>2, MergeAssumption
<1>9. \E a, b \in Held(cloud) : a <= m /\ m <= b
  BY <1>1, <1>6, <1>7
<1>. QED BY <1>5, <1>8, <1>9 DEF m, v, c

(* The points of a cloud that a merged one stands for. *)
Near(p, q) == IF grid = 0 THEN p = q ELSE Cell(p) = Cell(q)

LEMMA DownsampleKeeps ==
  ASSUME grid \in Nat, NEW cloud \in [Coords -> Nat]
  PROVE  /\ VoxelDownsample(cloud) \in [Coords -> Nat]
         /\ \A p \in Held(cloud) : \E q \in Held(VoxelDownsample(cloud)) : Near(p, q)
         /\ \A q \in Held(VoxelDownsample(cloud)) : \E a, b \in Held(cloud) : a <= q /\ q <= b
<1>1. CASE grid = 0
  <2>1. VoxelDownsample(cloud) = cloud
    BY <1>1 DEF VoxelDownsample
  <2>2. \A p \in Held(cloud) : p <= p
    BY HeldIsFinite
  <2>. QED BY <1>1, <2>1, <2>2 DEF Near
<1>2. CASE grid # 0
  <2> DEFINE voxels == {Voxel(cloud, p) : p \in Held(cloud)}
             these(m) == {v \in voxels : Mean(cloud, v) = m}
             down == VoxelDownsample(cloud)
  <2>1. down = [m \in Coords |-> Cardinality(these(m))]
    BY <1>2 DEF VoxelDownsample, Voxel
  <2>2. ASSUME NEW m PROVE IsFiniteSet(these(m)) /\ Cardinality(these(m)) \in Nat
                           /\ (Cardinality(these(m)) = 0 <=> these(m) = {})
    <3>1. voxels \subseteq SUBSET Held(cloud)
      BY DEF Voxel
    <3>2. IsFiniteSet(SUBSET Held(cloud))
      BY HeldIsFinite, FS_SUBSET
    <3>3. these(m) \in SUBSET (SUBSET Held(cloud))
      BY <3>1
    <3> HIDE DEF these
    <3>4. IsFiniteSet(these(m))
      BY <3>2, <3>3, FS_Subset
    <3>. QED BY <3>4, FS_CardinalityType, FS_EmptySet
  <2>3. down \in [Coords -> Nat]
    BY <2>1, <2>2
  <2>4. \A m \in Coords : m \in Held(down) <=> these(m) # {}
    <3> HIDE DEF these
    <3>. QED BY <2>1, <2>2 DEF Held
  <2>5. ASSUME NEW p \in Held(cloud) PROVE \E q \in Held(down) : Near(p, q)
    <3> DEFINE m == Mean(cloud, Voxel(cloud, p))
    <3>1. m \in Coords /\ Cell(m) = Cell(p)
      BY <1>2, MeanOfVoxel
    <3>2. Voxel(cloud, p) \in these(m)
      OBVIOUS
    <3>3. m \in Held(down)
      BY <2>4, <3>1, <3>2
    <3>. QED BY <1>2, <3>1, <3>3 DEF Near
  <2>6. ASSUME NEW q \in Held(down) PROVE \E a, b \in Held(cloud) : a <= q /\ q <= b
    <3>1. q \in Coords
      BY DEF Held
    <3>2. PICK p \in Held(cloud) : Mean(cloud, Voxel(cloud, p)) = q
      BY <2>4, <3>1
    <3>. QED BY <1>2, <3>2, MeanOfVoxel
  <2>. QED BY <2>3, <2>5, <2>6
<1>. QED BY <1>1, <1>2

MergeInv ==
  /\ grid \in Grids /\ scene \in [Coords -> Nat] /\ contributed \subseteq Coords
  /\ \A p \in contributed : \E q \in Held(scene) : Near(p, q)
  /\ \A q \in Held(scene) : \E a, b \in contributed : a <= q /\ q <= b

LEMMA ParsedIsCloud ==
  ASSUME NEW b \in Blobs
  PROVE  Parsed(b) \in [Coords -> Nat]
<1> DEFINE n == IF b.count < Len(b.lines) THEN b.count ELSE Len(b.lines)
<1>1. n \in Nat
  <2>1. b.count \in Nat /\ b.lines \in Seq(Coords \cup {Unreadable})
    BY MergeAssumption
  <2>2. Len(b.lines) \in Nat
    BY <2>1
  <2>. QED BY <2>1, <2>2
<1>2. Parsed(b) = [p \in Coords |-> Cardinality({i \in 1..n : b.lines[i] = p})]
  BY DEF Parsed
<1> HIDE DEF n
<1>3. ASSUME NEW p \in Coords PROVE Cardinality({i \in 1..n : b.lines[i] = p}) \in Nat
  <2>1. IsFiniteSet(1..n)
    BY <1>1, FS_Interval
  <2>2. {i \in 1..n : b.lines[i] = p} \in SUBSET (1..n)
    OBVIOUS
  <2>3. IsFiniteSet({i \in 1..n : b.lines[i] = p})
    BY <2>1, <2>2, FS_Subset
  <2>. QED BY <2>3, FS_CardinalityType
<1>. QED BY <1>2, <1>3

LEMMA MergeStep ==
  ASSUME MergeInv, [MergeNext]_mergeVars
  PROVE  MergeInv'
<1>1. CASE UNCHANGED mergeVars
  BY <1>1 DEF mergeVars, MergeInv, Held, Near, Cell
<1>2. ASSUME NEW sent \in SUBSET Blobs, NEW kept \in BOOLEAN, MergeSplats(sent, kept)
      PROVE  MergeInv'
  <2> DEFINE old == [p \in Coords |-> IF kept THEN scene[p] ELSE 0]
             new == [p \in Coords |-> SumFunction([b \in sent |-> Parsed(b)[p]])]
             total == [p \in Coords |-> SumFunction([b \in sent |-> Parsed(b)[p]])
                                            + (IF kept THEN scene[p] ELSE 0)]
  <2>1. /\ scene' = VoxelDownsample(total) /\ grid' = grid
        /\ contributed' = (IF kept THEN contributed ELSE {}) \cup UNION {Held(Parsed(b)) : b \in sent}
    BY <1>2 DEF MergeSplats
  <2>2. old \in [Coords -> Nat] /\ Held(old) = IF kept THEN Held(scene) ELSE {}
    BY DEF MergeInv, Held
  <2>3. ASSUME NEW p \in Coords
        PROVE  new[p] \in Nat /\ (new[p] > 0 <=> \E b \in sent : p \in Held(Parsed(b)))
    <3> DEFINE f == [b \in sent |-> Parsed(b)[p]]
    <3>1. \A b \in sent : f[b] \in Nat /\ (f[b] > 0 <=> p \in Held(Parsed(b)))
      BY ParsedIsCloud DEF Held
    <3>2. IsFiniteSet(sent)
      BY FS_Subset, MergeAssumption
    <3>3. new[p] = SumFunctionOnSet(f, sent)
      BY DEF SumFunction
    <3> HIDE DEF f, new
    <3>4. /\ SumFunctionOnSet(f, sent) \in Nat
          /\ SumFunctionOnSet(f, sent) > 0 <=> \E b \in sent : f[b] > 0
      BY <3>1, <3>2, PositiveSum
    <3>. QED BY <3>1, <3>3, <3>4
  <2>4. \A p \in Coords : total[p] = new[p] + old[p]
    OBVIOUS
  <2>5. total = [p \in Coords |-> total[p]]
    OBVIOUS
  <2> HIDE DEF old, new, total
  <2>6. total \in [Coords -> Nat]
    BY <2>2, <2>3, <2>4, <2>5
  <2>7. \A p \in Coords : p \in Held(total) <=> p \in Held(old) \/ \E b \in sent : p \in Held(Parsed(b))
    BY <2>2, <2>3, <2>4 DEF Held
  <2>8. contributed' \subseteq Coords
    BY <2>1 DEF MergeInv, Held
  <2>9. \A p \in contributed' : \E q \in Held(total) : Near(p, q)
    <3>1. SUFFICES ASSUME NEW p \in contributed' PROVE \E q \in Held(total) : Near(p, q)
      OBVIOUS
    <3>2. CASE \E b \in sent : p \in Held(Parsed(b))
      BY <2>7, <2>8, <3>2 DEF Near
    <3>3. CASE kept /\ p \in contributed
      <4>1. PICK q \in Held(scene) : Near(p, q)
        BY <3>3 DEF MergeInv
      <4>2. q \in Held(total)
        BY <2>2, <2>7, <3>3, <4>1 DEF Held
      <4>. QED BY <4>1, <4>2
    <3>. QED BY <2>1, <3>2, <3>3
  <2>10. \A q \in Held(total) : \E a, b \in contributed' : a <= q /\ q <= b
    <3>1. SUFFICES ASSUME NEW q \in Held(total) PROVE \E a, b \in contributed' : a <= q /\ q <= b
      OBVIOUS
    <3>2. q \in Coords /\ q \in Int
      BY MergeAssumption DEF Held
    <3>3. CASE \E b \in sent : q \in Held(Parsed(b))
      <4>1. q \in contributed' /\ q <= q
        BY <2>1, <3>2, <3>3
      <4>. QED BY <4>1
    <3>4. CASE q \in Held(old)
      <4>1. kept /\ q \in Held(scene)
        BY <2>2, <3>4
      <4>2. PICK a \in contributed, b \in contributed : a <= q /\ q <= b
        BY <4>1 DEF MergeInv
      <4>3. contributed \subseteq contributed'
        BY <2>1, <4>1
      <4>. QED BY <4>2, <4>3
    <3>. QED BY <2>7, <3>2, <3>3, <3>4
  <2>11. grid \in Nat
    BY MergeAssumption DEF MergeInv
  <2>12. /\ scene' \in [Coords -> Nat]
         /\ \A p \in Held(total) : \E q \in Held(scene') : Near(p, q)
         /\ \A q \in Held(scene') : \E a, b \in Held(total) : a <= q /\ q <= b
    BY <2>1, <2>6, <2>11, DownsampleKeeps
  <2>13. \A p \in contributed' : \E q \in Held(scene') : Near(p, q)
    <3>1. \A p, q, r : Near(p, q) /\ Near(q, r) => Near(p, r)
      BY DEF Near
    <3>. QED BY <2>9, <2>12, <3>1
  <2>14. \A q \in Held(scene') : \E a, b \in contributed' : a <= q /\ q <= b
    <3>1. SUFFICES ASSUME NEW q \in Held(scene') PROVE \E a, b \in contributed' : a <= q /\ q <= b
      OBVIOUS
    <3>2. PICK c \in Held(total), d \in Held(total) : c <= q /\ q <= d
      BY <2>12
    <3>3. PICK a \in contributed' : a <= c
      BY <2>10
    <3>4. PICK b \in contributed' : d <= b
      BY <2>10
    <3>5. a \in Int /\ b \in Int /\ c \in Int /\ d \in Int /\ q \in Int
      BY <2>8, MergeAssumption DEF Held
    <3>. QED BY <3>2, <3>3, <3>4, <3>5
  <2>15. \A p, q : Near(p, q)' <=> Near(p, q)
    BY <2>1 DEF Near, Cell
  <2>16. Held(scene)' = Held(scene')
    BY DEF Held
  <2>. QED BY <2>1, <2>8, <2>12, <2>13, <2>14, <2>15, <2>16 DEF MergeInv
<1>. QED BY <1>1, <1>2 DEF MergeNext

(* However often clouds are merged into the scene, for any voxel size and any
   blobs, it has a point near every point sent and none beyond them (MergeSplats). *)
THEOREM SceneTheorem == MergeSpec => []SceneCoversClouds
<1>1. ASSUME MergeInit PROVE MergeInv
  <2>1. scene \in [Coords -> Nat] /\ Held(scene) = {}
    BY <1>1 DEF MergeInit, NoPoints, Held
  <2>. QED BY <1>1, <2>1 DEF MergeInit, MergeInv
<1>2. ASSUME MergeInv PROVE SceneCoversClouds
  <2>1. grid \in Nat /\ contributed \subseteq Coords /\ contributed \subseteq Int
    BY <1>2, MergeAssumption DEF MergeInv
  <2>2. Max({grid, 1}) \in Int /\ grid <= Max({grid, 1}) /\ 1 <= Max({grid, 1})
    <3>1. IsFiniteSet({grid, 1})
      <4>1. IsFiniteSet({grid} \cup {1})
        BY FS_Singleton, FS_AddElement
      <4>2. {grid} \cup {1} = {grid, 1}
        OBVIOUS
      <4>. QED BY <4>1, <4>2
    <3>. QED BY <2>1, <3>1, LargestIn
  <2>3. ASSUME NEW p \in contributed PROVE \E q \in Held(scene) : Distance(p, q) < Max({grid, 1})
    <3>1. PICK q \in Held(scene) : Near(p, q)
      BY <1>2 DEF MergeInv
    <3>2. p \in Int /\ q \in Int
      BY <2>1, MergeAssumption DEF Held
    <3>3. CASE grid = 0
      BY <2>2, <3>1, <3>2, <3>3 DEF Near, Distance
    <3>4. CASE grid # 0
      <4>1. Distance(p, q) < grid
        BY <2>1, <3>1, <3>2, <3>4, CellIsNarrow DEF Near
      <4>2. Distance(p, q) \in Int
        BY <3>2 DEF Distance
      <4>. QED BY <2>1, <2>2, <4>1, <4>2
    <3>. QED BY <3>3, <3>4
  <2>4. ASSUME contributed # {}
        PROVE  Min(contributed) <= PlyStats(scene).low /\ PlyStats(scene).high <= Max(contributed)
    <3> DEFINE held == Held(scene)
    <3>1. IsFiniteSet(held) /\ held # {} /\ held \subseteq Int
      BY <1>2, <2>3, <2>4, HeldIsFinite DEF MergeInv
    <3>2. PlyStats(scene).low = Min(held) /\ PlyStats(scene).high = Max(held)
      BY <3>1 DEF PlyStats
    <3>3. Min(held) \in held /\ Max(held) \in held
      BY <3>1, SmallestIn, LargestIn
    <3>4. PICK a \in contributed : a <= Min(held)
      BY <1>2, <3>3 DEF MergeInv
    <3>5. PICK b \in contributed : Max(held) <= b
      BY <1>2, <3>3 DEF MergeInv
    <3>6. IsFiniteSet(contributed)
      BY <2>1, FS_Subset, MergeAssumption
    <3>7. /\ Min(contributed) \in contributed /\ Max(contributed) \in contributed
          /\ Min(contributed) <= a /\ b <= Max(contributed)
      BY <2>1, <2>4, <3>4, <3>5, <3>6, SmallestIn, LargestIn
    <3>8. {a, b, Min(contributed), Max(contributed), Min(held), Max(held)} \subseteq Int
      BY <2>1, <3>1, <3>3, <3>4, <3>5, <3>7
    <3> HIDE DEF held
    <3>. QED BY <3>2, <3>4, <3>5, <3>7, <3>8
  <2>. QED BY <2>3, <2>4 DEF SceneCoversClouds
<1>. QED BY <1>1, <1>2, MergeStep, PTL DEF MergeSpec

=============================================================================
