--------------------------- MODULE FiniteTheorems ---------------------------
(***************************************************************************)
(* Facts about finite sets that the proofs of several components rest on:  *)
(* a nonempty family of subsets has a minimal member, and from that, what  *)
(* a sum over a finite set is, how it moves with its summands, what it     *)
(* bounds and how it falls into parts; and what is least and greatest.     *)
(*                                                                         *)
(* The library's induction theorems take an operator as a parameter, which *)
(* the provers cannot instantiate; its theorem that inclusion is well      *)
(* founded on the subsets of a finite set does not, and serves instead: a  *)
(* statement that fails for some subset fails for a minimal one.           *)
(***************************************************************************)
EXTENDS FiniteSetsExt, FiniteSetTheorems, TLAPS

(* A nonempty family of subsets of a finite set has a minimal member.      *)
LEMMA SubsetMinimal ==
  ASSUME NEW S, IsFiniteSet(S), NEW T, T \subseteq SUBSET S, T # {}
  PROVE  \E U \in T : \A V \in T : V \subseteq U => V = U
  <1> DEFINE R == StrictSubsetOrdering(S)
  <1>1. IsWellFoundedOn(R, SUBSET S)
    BY FS_StrictSubsetOrderingWellFounded, FS_FiniteSubsetsOfFinite
  <1> HIDE DEF R
  <1>2. PICK U \in T : \A V \in T : ~ (<<V, U>> \in R)
    BY <1>1, WFMin
  <1>3. ASSUME NEW V \in T, V \subseteq U, V # U PROVE FALSE
    <2>1. <<V, U>> \in R
      BY <1>3 DEF R, StrictSubsetOrdering
    <2> QED BY <2>1, <1>2
  <1> QED BY <1>2, <1>3

-----------------------------------------------------------------------------
(* The sum of the values a function takes on a finite set, and the         *)
(* recursive function MapThenSumSet chooses: it takes one element out of   *)
(* each subset and adds its value to the sum of the rest.                  *)
AnyOf(s) == CHOOSE x \in s : TRUE
RestOf(s) == s \ {AnyOf(s)}
SumStep(f, g, s) == IF s = {} THEN 0 ELSE g[AnyOf(s)] + f[RestOf(s)]
IsSum(f, g, S) == f = [s \in SUBSET S |-> SumStep(f, g, s)]

(* (These are notation for the proofs, and no part of any model.)          *)
Total(g, S) == MapThenSumSet(LAMBDA x : g[x], S)

(* The element taken out is a member, and the rest is smaller.             *)
LEMMA AnyOfIn ==
  ASSUME NEW s, s # {}
  PROVE  AnyOf(s) \in s /\ RestOf(s) \subseteq s /\ RestOf(s) # s
  BY DEF AnyOf, RestOf

(* Two such recursive functions agree where both are defined.              *)
LEMMA SumsAgree ==
  ASSUME NEW S, IsFiniteSet(S), NEW f, NEW h, NEW g, NEW V, S \subseteq V,
         IsSum(f, g, S), IsSum(h, g, V)
  PROVE  \A s \in SUBSET S : f[s] = h[s]
  <1> DEFINE Bad == {s \in SUBSET S : f[s] # h[s]}
  <1> SUFFICES ASSUME Bad # {} PROVE FALSE
    OBVIOUS
  <1>1. PICK s \in Bad : \A t \in Bad : t \subseteq s => t = s
    <2>1. Bad \subseteq SUBSET S
      OBVIOUS
    <2> HIDE DEF Bad
    <2> QED BY <2>1, SubsetMinimal
  <1>2. f[s] = SumStep(f, g, s) /\ h[s] = SumStep(h, g, s)
    BY <1>1 DEF IsSum
  <1>3. s # {}
    BY <1>1, <1>2 DEF SumStep
  <1>4. f[RestOf(s)] = h[RestOf(s)]
    BY <1>1, <1>3, AnyOfIn
  <1> QED BY <1>1, <1>2, <1>4 DEF SumStep

(* There is such a recursive function on the subsets of a finite set.      *)
LEMMA SumExists ==
  ASSUME NEW S, IsFiniteSet(S), NEW g
  PROVE  \E f : IsSum(f, g, S)
  <1> DEFINE Bad == {s \in SUBSET S : ~ \E f : IsSum(f, g, s)}
  <1> SUFFICES ASSUME Bad # {} PROVE FALSE
    OBVIOUS
  <1>1. PICK U \in Bad : \A t \in Bad : t \subseteq U => t = U
    <2>1. Bad \subseteq SUBSET S
      OBVIOUS
    <2> HIDE DEF Bad
    <2> QED BY <2>1, SubsetMinimal
  <1> DEFINE F(t) == CHOOSE f : IsSum(f, g, t)
             h == [s \in SUBSET U |-> IF s = {} THEN 0 ELSE g[AnyOf(s)] + F(RestOf(s))[RestOf(s)]]
  <1>2. \A t \in SUBSET U : t # U => IsSum(F(t), g, t)
    <2> TAKE t \in SUBSET U
    <2> HAVE t # U
    <2>1. \E f : IsSum(f, g, t)
      BY <1>1
    <2> QED BY <2>1
  <1>3. \A t \in SUBSET U : IsFiniteSet(t)
    BY <1>1, FS_Subset
  <1> HIDE DEF F
  <1>4. ASSUME NEW t \in SUBSET U, t # U
        PROVE  h[t] = F(t)[t]
    <2>0. IsSum(F(t), g, t)
      BY <1>2, <1>4
    <2>1. F(t)[t] = SumStep(F(t), g, t)
      BY <2>0 DEF IsSum
    <2>2. CASE t = {}
      BY <2>1, <2>2 DEF SumStep
    <2>3. CASE t # {}
      <3>1. RestOf(t) \subseteq t /\ RestOf(t) # U
        BY <2>3, AnyOfIn, <1>4
      <3>2. IsSum(F(RestOf(t)), g, RestOf(t)) /\ IsFiniteSet(RestOf(t))
        BY <3>1, <1>2, <1>3
      <3>3. F(RestOf(t))[RestOf(t)] = F(t)[RestOf(t)]
        BY <3>1, <3>2, <2>0, SumsAgree
      <3> QED BY <2>1, <2>3, <3>3 DEF SumStep
    <2> QED BY <2>2, <2>3
  <1>5. \A s \in SUBSET U : h[s] = SumStep(h, g, s)
    <2> TAKE s \in SUBSET U
    <2>1. CASE s = {}
      BY <2>1 DEF SumStep
    <2>2. CASE s # {}
      <3>1. RestOf(s) \in SUBSET U /\ RestOf(s) # U
        BY <2>2, AnyOfIn
      <3>2. h[RestOf(s)] = F(RestOf(s))[RestOf(s)]
        BY <3>1, <1>4
      <3>3. h[s] = g[AnyOf(s)] + F(RestOf(s))[RestOf(s)]
        BY <2>2
      <3> HIDE DEF h
      <3> QED BY <2>2, <3>2, <3>3 DEF SumStep
    <2> QED BY <2>1, <2>2
  <1>6. h = [s \in SUBSET U |-> h[s]]
    OBVIOUS
  <1> HIDE DEF h
  <1>7. IsSum(h, g, U)
    BY <1>5, <1>6 DEF IsSum
  <1> QED BY <1>7, <1>1

(* The library's sum is the value of the function it chooses.              *)
LEMMA TotalIs ==
  ASSUME NEW g, NEW S
  PROVE  Total(g, S) = (CHOOSE f : IsSum(f, g, S))[S]
  BY DEF Total, MapThenSumSet, MapThenFoldSet, IsSum, SumStep, RestOf, AnyOf

(* Which recursive function is chosen does not matter.                     *)
LEMMA TotalIsSum ==
  ASSUME NEW g, NEW S, IsFiniteSet(S), NEW f, IsSum(f, g, S)
  PROVE  Total(g, S) = f[S]
  <1> DEFINE c == CHOOSE h : IsSum(h, g, S)
  <1>1. IsSum(c, g, S)
    OBVIOUS
  <1>2. Total(g, S) = c[S]
    BY TotalIs
  <1> HIDE DEF c
  <1> QED BY <1>1, <1>2, SumsAgree

(* An empty sum is zero.                                                   *)
LEMMA TotalEmpty ==
  ASSUME NEW g
  PROVE  Total(g, {}) = 0
  <1>1. IsFiniteSet({})
    BY FS_EmptySet
  <1>2. PICK f : IsSum(f, g, {})
    BY <1>1, SumExists
  <1>3. f[{}] = 0
    BY <1>2 DEF IsSum, SumStep
  <1> QED BY <1>1, <1>2, <1>3, TotalIsSum

(* A sum is one of its summands and the sum of the rest.                   *)
LEMMA TotalUnfolds ==
  ASSUME NEW g, NEW S, IsFiniteSet(S), S # {}
  PROVE  Total(g, S) = g[AnyOf(S)] + Total(g, RestOf(S))
  <1>1. PICK f : IsSum(f, g, S)
    BY SumExists
  <1>2. f[S] = g[AnyOf(S)] + f[RestOf(S)]
    BY <1>1 DEF IsSum, SumStep
  <1>3. RestOf(S) \subseteq S /\ IsFiniteSet(RestOf(S))
    BY AnyOfIn, FS_Subset
  <1>4. PICK h : IsSum(h, g, RestOf(S))
    BY <1>3, SumExists
  <1>5. f[RestOf(S)] = h[RestOf(S)]
    BY <1>1, <1>3, <1>4, SumsAgree
  <1> QED BY <1>1, <1>2, <1>3, <1>4, <1>5, TotalIsSum

(* A sum of integers is an integer.                                        *)
LEMMA TotalType ==
  ASSUME NEW S, IsFiniteSet(S), NEW g, \A x \in S : g[x] \in Int
  PROVE  \A s \in SUBSET S : Total(g, s) \in Int
  <1> DEFINE Bad == {s \in SUBSET S : Total(g, s) \notin Int}
  <1> SUFFICES ASSUME Bad # {} PROVE FALSE
    OBVIOUS
  <1>1. PICK s \in Bad : \A t \in Bad : t \subseteq s => t = s
    <2>1. Bad \subseteq SUBSET S
      OBVIOUS
    <2> HIDE DEF Bad
    <2> QED BY <2>1, SubsetMinimal
  <1>2. s # {} /\ IsFiniteSet(s)
    <2>1. Total(g, s) \notin Int /\ s \subseteq S
      BY <1>1
    <2>2. Total(g, {}) = 0
      BY TotalEmpty
    <2>3. s # {}
      <3> HIDE DEF Bad
      <3> QED BY <2>1, <2>2
    <2>4. IsFiniteSet(s)
      BY <2>1, FS_Subset
    <2> QED BY <2>3, <2>4
  <1>3. Total(g, s) = g[AnyOf(s)] + Total(g, RestOf(s))
    BY <1>2, TotalUnfolds
  <1>4. Total(g, RestOf(s)) \in Int /\ g[AnyOf(s)] \in Int
    BY <1>1, <1>2, AnyOfIn
  <1> QED BY <1>1, <1>3, <1>4

(* Any summand may be the one taken out, whatever the order of summation.  *)
LEMMA TotalWithout ==
  ASSUME NEW S, IsFiniteSet(S), NEW g, \A x \in S : g[x] \in Int
  PROVE  \A s \in SUBSET S : \A x \in s : Total(g, s) = g[x] + Total(g, s \ {x})
  <1> DEFINE Good(s) == \A x \in s : Total(g, s) = g[x] + Total(g, s \ {x})
             Bad == {s \in SUBSET S : ~Good(s)}
  <1> SUFFICES ASSUME Bad # {} PROVE FALSE
    OBVIOUS
  <1>1. PICK s \in Bad : \A t \in Bad : t \subseteq s => t = s
    <2>1. Bad \subseteq SUBSET S
      OBVIOUS
    <2> HIDE DEF Bad
    <2> QED BY <2>1, SubsetMinimal
  <1>2. PICK x \in s : Total(g, s) # g[x] + Total(g, s \ {x})
    BY <1>1
  <1> DEFINE p == AnyOf(s)
  <1>3. /\ IsFiniteSet(s) /\ s \subseteq S /\ p \in s
        /\ Total(g, s) = g[p] + Total(g, s \ {p})
    BY <1>1, FS_Subset, TotalUnfolds, AnyOfIn DEF RestOf
  <1> HIDE DEF p
  <1>4. p # x
    BY <1>2, <1>3
  <1>5. Good(s \ {p}) /\ Good(s \ {x})
    BY <1>1, <1>2, <1>3
  <1>6. /\ Total(g, s \ {p}) = g[x] + Total(g, (s \ {p}) \ {x})
        /\ Total(g, s \ {x}) = g[p] + Total(g, (s \ {x}) \ {p})
    BY <1>2, <1>3, <1>4, <1>5
  <1>7. (s \ {p}) \ {x} = (s \ {x}) \ {p}
    OBVIOUS
  <1> DEFINE rest == Total(g, (s \ {x}) \ {p})
  <1>8. g[x] \in Int /\ g[p] \in Int /\ rest \in Int
    BY <1>2, <1>3, TotalType
  <1>9. Total(g, s) = g[p] + (g[x] + rest) /\ Total(g, s \ {x}) = g[p] + rest
    BY <1>3, <1>6, <1>7
  <1> HIDE DEF rest
  <1> QED BY <1>2, <1>8, <1>9

(* Equal summands have equal sums.                                         *)
LEMMA TotalSame ==
  ASSUME NEW S, IsFiniteSet(S), NEW g, NEW h, \A x \in S : g[x] = h[x]
  PROVE  \A s \in SUBSET S : Total(g, s) = Total(h, s)
  <1> DEFINE Bad == {s \in SUBSET S : Total(g, s) # Total(h, s)}
  <1> SUFFICES ASSUME Bad # {} PROVE FALSE
    OBVIOUS
  <1>1. PICK s \in Bad : \A t \in Bad : t \subseteq s => t = s
    <2>1. Bad \subseteq SUBSET S
      OBVIOUS
    <2> HIDE DEF Bad
    <2> QED BY <2>1, SubsetMinimal
  <1>2. s # {} /\ IsFiniteSet(s)
    BY <1>1, TotalEmpty, FS_Subset
  <1>3. /\ Total(g, s) = g[AnyOf(s)] + Total(g, RestOf(s))
        /\ Total(h, s) = h[AnyOf(s)] + Total(h, RestOf(s))
    BY <1>2, TotalUnfolds
  <1>4. Total(g, RestOf(s)) = Total(h, RestOf(s)) /\ AnyOf(s) \in S
    BY <1>1, <1>2, AnyOfIn
  <1> QED BY <1>1, <1>3, <1>4

(* A sum moves by as much as the one summand that changes.                 *)
LEMMA TotalMoves ==
  ASSUME NEW S, IsFiniteSet(S), NEW g, NEW h, NEW x \in S,
         \A y \in S : g[y] \in Int /\ h[y] \in Int,
         \A y \in S \ {x} : h[y] = g[y]
  PROVE  Total(h, S) = Total(g, S) + (h[x] - g[x])
  <1>1. Total(g, S) = g[x] + Total(g, S \ {x}) /\ Total(h, S) = h[x] + Total(h, S \ {x})
    BY TotalWithout
  <1>2. IsFiniteSet(S \ {x})
    BY FS_Subset
  <1>3. Total(g, S \ {x}) = Total(h, S \ {x})
    BY <1>2, TotalSame
  <1>4. Total(g, S \ {x}) \in Int
    BY TotalType
  <1> QED BY <1>1, <1>3, <1>4

(* A sum of zeros is zero.                                                 *)
LEMMA TotalOfZeros ==
  ASSUME NEW S, IsFiniteSet(S), NEW g, \A x \in S : g[x] = 0
  PROVE  \A s \in SUBSET S : Total(g, s) = 0
  <1> DEFINE Bad == {s \in SUBSET S : Total(g, s) # 0}
  <1> SUFFICES ASSUME Bad # {} PROVE FALSE
    OBVIOUS
  <1>1. PICK s \in Bad : \A t \in Bad : t \subseteq s => t = s
    <2>1. Bad \subseteq SUBSET S
      OBVIOUS
    <2> HIDE DEF Bad
    <2> QED BY <2>1, SubsetMinimal
  <1>2. s # {} /\ IsFiniteSet(s)
    BY <1>1, TotalEmpty, FS_Subset
  <1>3. Total(g, s) = g[AnyOf(s)] + Total(g, RestOf(s))
    BY <1>2, TotalUnfolds
  <1>4. Total(g, RestOf(s)) = 0 /\ AnyOf(s) \in S
    BY <1>1, <1>2, AnyOfIn
  <1> QED BY <1>1, <1>3, <1>4

(* A sum grows with its summands,                                          *)
LEMMA TotalGrows ==
  ASSUME NEW S, IsFiniteSet(S), NEW g, NEW h, \A x \in S : g[x] \in Int /\ h[x] \in Int /\ g[x] <= h[x]
  PROVE  \A s \in SUBSET S : Total(g, s) <= Total(h, s)
  <1> DEFINE Bad == {s \in SUBSET S : ~(Total(g, s) <= Total(h, s))}
  <1> SUFFICES ASSUME Bad # {} PROVE FALSE
    OBVIOUS
  <1>1. PICK s \in Bad : \A t \in Bad : t \subseteq s => t = s
    <2>1. Bad \subseteq SUBSET S
      OBVIOUS
    <2> HIDE DEF Bad
    <2> QED BY <2>1, SubsetMinimal
  <1>2. s # {} /\ IsFiniteSet(s)
    <2>1. Total(g, {}) = 0 /\ Total(h, {}) = 0
      BY TotalEmpty
    <2>2. s \subseteq S /\ ~(Total(g, s) <= Total(h, s))
      BY <1>1
    <2>3. s # {}
      <3> HIDE DEF Bad
      <3> QED BY <2>1, <2>2
    <2> QED BY <2>2, <2>3, FS_Subset
  <1>3. /\ Total(g, s) = g[AnyOf(s)] + Total(g, RestOf(s))
        /\ Total(h, s) = h[AnyOf(s)] + Total(h, RestOf(s))
    BY <1>2, TotalUnfolds
  <1>4. Total(g, RestOf(s)) <= Total(h, RestOf(s)) /\ AnyOf(s) \in S /\ RestOf(s) \in SUBSET S
    BY <1>1, <1>2, AnyOfIn
  <1>5. Total(g, RestOf(s)) \in Int /\ Total(h, RestOf(s)) \in Int
    BY <1>4, TotalType
  <1> QED BY <1>1, <1>3, <1>4, <1>5

(* a common factor comes out of it,                                        *)
LEMMA TotalScaled ==
  ASSUME NEW S, IsFiniteSet(S), NEW g, NEW h, NEW k \in Int,
         \A x \in S : g[x] \in Int /\ h[x] = k * g[x]
  PROVE  \A s \in SUBSET S : Total(h, s) = k * Total(g, s)
  <1> DEFINE Bad == {s \in SUBSET S : Total(h, s) # k * Total(g, s)}
  <1> SUFFICES ASSUME Bad # {} PROVE FALSE
    OBVIOUS
  <1>1. PICK s \in Bad : \A t \in Bad : t \subseteq s => t = s
    <2>1. Bad \subseteq SUBSET S
      OBVIOUS
    <2> HIDE DEF Bad
    <2> QED BY <2>1, SubsetMinimal
  <1>2. s # {} /\ IsFiniteSet(s)
    <2>1. Total(h, {}) = k * Total(g, {})
      <3>1. Total(g, {}) = 0 /\ Total(h, {}) = 0 /\ k * 0 = 0
        BY TotalEmpty
      <3> QED BY <3>1
    <2>2. s \subseteq S /\ Total(h, s) # k * Total(g, s)
      BY <1>1
    <2>3. s # {}
      <3> HIDE DEF Bad
      <3> QED BY <2>1, <2>2
    <2> QED BY <2>2, <2>3, FS_Subset
  <1>3. /\ Total(g, s) = g[AnyOf(s)] + Total(g, RestOf(s))
        /\ Total(h, s) = h[AnyOf(s)] + Total(h, RestOf(s))
    BY <1>2, TotalUnfolds
  <1>4. Total(h, RestOf(s)) = k * Total(g, RestOf(s)) /\ AnyOf(s) \in S /\ RestOf(s) \in SUBSET S
    BY <1>1, <1>2, AnyOfIn
  <1> DEFINE a == g[AnyOf(s)]
             r == Total(g, RestOf(s))
  <1>5. r \in Int /\ a \in Int
    BY <1>4, TotalType
  <1>6. Total(h, s) = k * a + k * r /\ Total(g, s) = a + r
    BY <1>3, <1>4
  <1> HIDE DEF a, r
  <1>7. k * a + k * r = k * (a + r)
    BY <1>5
  <1> QED BY <1>1, <1>6, <1>7

(* and the sum of two is the two sums.                                     *)
LEMMA TotalAdds ==
  ASSUME NEW S, IsFiniteSet(S), NEW g, NEW h, NEW f,
         \A x \in S : g[x] \in Int /\ h[x] \in Int /\ f[x] = g[x] + h[x]
  PROVE  \A s \in SUBSET S : Total(f, s) = Total(g, s) + Total(h, s)
  <1> DEFINE Bad == {s \in SUBSET S : Total(f, s) # Total(g, s) + Total(h, s)}
  <1> SUFFICES ASSUME Bad # {} PROVE FALSE
    OBVIOUS
  <1>1. PICK s \in Bad : \A t \in Bad : t \subseteq s => t = s
    <2>1. Bad \subseteq SUBSET S
      OBVIOUS
    <2> HIDE DEF Bad
    <2> QED BY <2>1, SubsetMinimal
  <1>2. s # {} /\ IsFiniteSet(s)
    <2>1. Total(f, {}) = 0 /\ Total(g, {}) = 0 /\ Total(h, {}) = 0
      BY TotalEmpty
    <2>2. s \subseteq S /\ Total(f, s) # Total(g, s) + Total(h, s)
      BY <1>1
    <2>3. s # {}
      <3> HIDE DEF Bad
      <3> QED BY <2>1, <2>2
    <2> QED BY <2>2, <2>3, FS_Subset
  <1>3. /\ Total(g, s) = g[AnyOf(s)] + Total(g, RestOf(s))
        /\ Total(h, s) = h[AnyOf(s)] + Total(h, RestOf(s))
        /\ Total(f, s) = f[AnyOf(s)] + Total(f, RestOf(s))
    BY <1>2, TotalUnfolds
  <1>4. /\ Total(f, RestOf(s)) = Total(g, RestOf(s)) + Total(h, RestOf(s))
        /\ AnyOf(s) \in S /\ RestOf(s) \in SUBSET S
    BY <1>1, <1>2, AnyOfIn
  <1>5. Total(g, RestOf(s)) \in Int /\ Total(h, RestOf(s)) \in Int
    BY <1>4, TotalType
  <1> QED BY <1>1, <1>3, <1>4, <1>5

(* A sum of ones counts.                                                   *)
LEMMA TotalOfOnes ==
  ASSUME NEW S, IsFiniteSet(S), NEW g, \A x \in S : g[x] = 1
  PROVE  \A s \in SUBSET S : Total(g, s) = Cardinality(s)
  <1> DEFINE Bad == {s \in SUBSET S : Total(g, s) # Cardinality(s)}
  <1> SUFFICES ASSUME Bad # {} PROVE FALSE
    OBVIOUS
  <1>1. PICK s \in Bad : \A t \in Bad : t \subseteq s => t = s
    <2>1. Bad \subseteq SUBSET S
      OBVIOUS
    <2> HIDE DEF Bad
    <2> QED BY <2>1, SubsetMinimal
  <1>2. s # {} /\ IsFiniteSet(s)
    <2>1. Total(g, {}) = Cardinality({})
      BY TotalEmpty, FS_EmptySet
    <2>2. s \subseteq S /\ Total(g, s) # Cardinality(s)
      BY <1>1
    <2>3. s # {}
      <3> HIDE DEF Bad
      <3> QED BY <2>1, <2>2
    <2> QED BY <2>2, <2>3, FS_Subset
  <1>3. Total(g, s) = g[AnyOf(s)] + Total(g, RestOf(s))
    BY <1>2, TotalUnfolds
  <1>4. /\ Total(g, RestOf(s)) = Cardinality(RestOf(s))
        /\ AnyOf(s) \in s /\ AnyOf(s) \in S
    BY <1>1, <1>2, AnyOfIn
  <1>5. Cardinality(RestOf(s)) = Cardinality(s) - 1 /\ Cardinality(s) \in Nat
    BY <1>2, <1>4, FS_RemoveElement, FS_CardinalityType DEF RestOf
  <1> QED BY <1>1, <1>3, <1>4, <1>5

(* No summand is more than a sum of naturals.                              *)
LEMMA TotalCovers ==
  ASSUME NEW S, IsFiniteSet(S), NEW g, \A x \in S : g[x] \in Nat
  PROVE  Total(g, S) \in Nat /\ \A x \in S : g[x] <= Total(g, S)
  <1> DEFINE z == [x \in S |-> 0]
  <1>1. \A x \in S : z[x] \in Int /\ z[x] = 0 /\ g[x] \in Int /\ z[x] <= g[x]
    OBVIOUS
  <1> HIDE DEF z
  <1>2. \A s \in SUBSET S : Total(g, s) \in Int /\ 0 <= Total(g, s)
    <2>1. \A s \in SUBSET S : Total(z, s) = 0
      BY <1>1, TotalOfZeros
    <2>2. \A s \in SUBSET S : Total(z, s) <= Total(g, s)
      BY <1>1, TotalGrows
    <2>3. \A s \in SUBSET S : Total(g, s) \in Int
      BY <1>1, TotalType
    <2> QED BY <2>1, <2>2, <2>3
  <1>3. ASSUME NEW x \in S PROVE g[x] <= Total(g, S)
    <2>1. Total(g, S) = g[x] + Total(g, S \ {x})
      BY <1>1, TotalWithout
    <2>2. Total(g, S \ {x}) \in Int /\ 0 <= Total(g, S \ {x})
      BY <1>2
    <2> QED BY <2>1, <2>2
  <1> QED BY <1>2, <1>3

(* The parts of a sum by label are the whole.                              *)
LEMMA TotalByLabel ==
  ASSUME NEW S, IsFiniteSet(S), NEW g, \A x \in S : g[x] \in Int,
         NEW H, IsFiniteSet(H), NEW label, \A x \in S : label[x] \in H
  PROVE  \A t \in SUBSET S :
           Total([a \in H |-> Total(g, {x \in t : label[x] = a})], H) = Total(g, t)
  <1> DEFINE Part(t, a) == {x \in t : label[x] = a}
             Parts(t) == [a \in H |-> Total(g, Part(t, a))]
             Bad == {t \in SUBSET S : Total(Parts(t), H) # Total(g, t)}
  <1> SUFFICES ASSUME Bad # {} PROVE FALSE
    OBVIOUS
  <1>1. PICK t \in Bad : \A u \in Bad : u \subseteq t => u = t
    <2>1. Bad \subseteq SUBSET S
      OBVIOUS
    <2> HIDE DEF Bad
    <2> QED BY <2>1, SubsetMinimal
  <1>2. t # {} /\ IsFiniteSet(t) /\ t \subseteq S /\ Total(Parts(t), H) # Total(g, t)
    <2>1. t \subseteq S /\ Total(Parts(t), H) # Total(g, t)
      BY <1>1
    <2>2. Total(Parts({}), H) = Total(g, {})
      <3>1. \A a \in H : Part({}, a) = {}
        OBVIOUS
      <3>2. \A a \in H : Parts({})[a] = 0
        BY <3>1, TotalEmpty
      <3> HIDE DEF Parts
      <3> QED BY <3>2, TotalOfZeros, TotalEmpty
    <2>3. t # {}
      <3> HIDE DEF Bad, Parts
      <3> QED BY <2>1, <2>2
    <2> QED BY <2>1, <2>3, FS_Subset
  <1> DEFINE p == AnyOf(t)
             rest == RestOf(t)
  <1>3. p \in t /\ p \in S /\ rest = t \ {p} /\ rest \subseteq t /\ rest # t
    BY <1>2, AnyOfIn DEF RestOf
  <1>4. Total(g, t) = g[p] + Total(g, rest)
    BY <1>2, TotalUnfolds
  <1>5. Total(Parts(rest), H) = Total(g, rest)
    BY <1>1, <1>2, <1>3
  <1> HIDE DEF p, rest, Bad
  <1>6. \A a \in H \ {label[p]} : Part(t, a) = Part(rest, a)
    BY <1>3
  <1>7. Total(g, Part(t, label[p])) = g[p] + Total(g, Part(rest, label[p]))
    <2>1. p \in Part(t, label[p]) /\ Part(t, label[p]) \in SUBSET S
          /\ Part(t, label[p]) \ {p} = Part(rest, label[p])
      BY <1>2, <1>3
    <2> HIDE DEF Part
    <2> QED BY <2>1, TotalWithout
  <1>8. \A a \in H : Total(g, Part(t, a)) \in Int /\ Total(g, Part(rest, a)) \in Int
    <2>1. \A a \in H : Part(t, a) \in SUBSET S /\ Part(rest, a) \in SUBSET S
      BY <1>2, <1>3
    <2> HIDE DEF Part
    <2> QED BY <2>1, TotalType
  <1> DEFINE new == Parts(t)
             old == Parts(rest)
  <1>9. /\ \A a \in H : old[a] \in Int /\ new[a] \in Int
        /\ \A a \in H \ {label[p]} : new[a] = old[a]
        /\ label[p] \in H /\ new[label[p]] = g[p] + old[label[p]]
    <2> HIDE DEF Part
    <2> QED BY <1>3, <1>6, <1>7, <1>8
  <1> HIDE DEF new, old
  <1>10. Total(new, H) = Total(old, H) + (new[label[p]] - old[label[p]])
    <2> DEFINE x == label[p]
    <2>1. /\ x \in H /\ \A a \in H \ {x} : new[a] = old[a]
          /\ \A a \in H : old[a] \in Int /\ new[a] \in Int
      BY <1>9
    <2> HIDE DEF x
    <2>2. Total(new, H) = Total(old, H) + (new[x] - old[x])
      BY <2>1, TotalMoves
    <2> QED BY <2>2 DEF x
  <1>11. g[p] \in Int /\ Total(g, rest) \in Int
    BY <1>2, <1>3, TotalType
  <1>12. Total(new, H) = Total(g, t)
    <2>1. Total(old, H) = Total(g, rest)
      BY <1>5 DEF old
    <2> QED BY <1>4, <1>9, <1>10, <1>11, <2>1
  <1> QED BY <1>2, <1>12 DEF new

(* A quotient is rounded down, by less than one.                           *)
LEMMA RoundedDown ==
  ASSUME NEW a \in Int, NEW b \in Int, b > 0
  PROVE  /\ a \div b \in Int
         /\ (a \div b) * b <= a /\ a < (a \div b) * b + b
  OBVIOUS

(* Shares that are rounded down fall short by less than one each.          *)
LEMMA SharesFallShort ==
  ASSUME NEW S, IsFiniteSet(S), NEW g, \A x \in S : g[x] \in Int,
         NEW d \in Int, d > 0
  PROVE  LET shares == Total([x \in S |-> g[x] \div d], S)
         IN /\ shares \in Int /\ Cardinality(S) \in Nat
            /\ d * shares <= Total(g, S)
            /\ Total(g, S) <= d * shares + (d - 1) * Cardinality(S)
  <1> DEFINE share == [x \in S |-> g[x] \div d]
             low == [x \in S |-> d * (g[x] \div d)]
             one == [x \in S |-> 1]
             gap == [x \in S |-> (d - 1) * 1]
             high == [x \in S |-> d * (g[x] \div d) + (d - 1) * 1]
  <1>1. \A x \in S : /\ share[x] \in Int /\ low[x] \in Int /\ low[x] = d * share[x]
                     /\ low[x] <= g[x] /\ g[x] <= high[x]
                     /\ one[x] = 1 /\ gap[x] \in Int /\ gap[x] = (d - 1) * one[x]
                     /\ high[x] \in Int /\ high[x] = low[x] + gap[x]
    <2> TAKE x \in S
    <2> DEFINE k == g[x] \div d
    <2>1. k \in Int /\ d * k <= g[x] /\ g[x] < d * k + d
      BY RoundedDown
    <2>2. /\ share[x] = k /\ low[x] = d * k /\ one[x] = 1 /\ gap[x] = (d - 1) * 1
          /\ high[x] = d * k + (d - 1) * 1
      OBVIOUS
    <2> HIDE DEF k, share, low, one, gap, high
    <2>3. d * k \in Int /\ (d - 1) * 1 = d - 1
      BY <2>1
    <2> QED BY <2>1, <2>2, <2>3
  <1>0. Total([x \in S |-> g[x] \div d], S) = Total(share, S)
    OBVIOUS
  <1> HIDE DEF share, low, one, gap, high
  <1>2. Total(share, S) \in Int /\ Total(g, S) \in Int
    <2>1. Total(share, S) \in Int
      BY <1>1, TotalType
    <2>2. Total(g, S) \in Int
      BY TotalType
    <2> QED BY <2>1, <2>2
  <1>3. Total(low, S) = d * Total(share, S)
    <2>1. \A x \in S : share[x] \in Int /\ low[x] = d * share[x]
      BY <1>1
    <2> QED BY <2>1, TotalScaled
  <1>4. Total(gap, S) = (d - 1) * Cardinality(S) /\ Cardinality(S) \in Nat
    <2>1. Total(one, S) = Cardinality(S)
      BY <1>1, TotalOfOnes
    <2>2. \A x \in S : one[x] \in Int /\ gap[x] = (d - 1) * one[x]
      BY <1>1
    <2>3. d - 1 \in Int
      OBVIOUS
    <2>4. Total(gap, S) = (d - 1) * Total(one, S)
      BY <2>2, <2>3, TotalScaled
    <2> QED BY <2>1, <2>4, FS_CardinalityType
  <1>5. Total(low, S) <= Total(g, S)
    BY <1>1, TotalGrows
  <1>6. Total(high, S) = Total(low, S) + Total(gap, S)
    BY <1>1, TotalAdds
  <1>7. Total(g, S) <= Total(high, S)
    BY <1>1, TotalGrows
  <1> QED
    BY <1>0, <1>2, <1>3, <1>4, <1>5, <1>6, <1>7

-----------------------------------------------------------------------------
(* Of finitely many things, one has a minimal value when the values are    *)
(* subsets of a finite set.                                                *)
LEMMA MinimalBy ==
  ASSUME NEW S, IsFiniteSet(S), S # {}, NEW c, \A x \in S : c[x] \in SUBSET S
  PROVE  \E x \in S : \A y \in S : c[y] \subseteq c[x] => c[y] = c[x]
  <1> DEFINE T == {c[x] : x \in S}
  <1>1. T \subseteq SUBSET S /\ T # {}
    OBVIOUS
  <1> HIDE DEF T
  <1>2. PICK U \in T : \A V \in T : V \subseteq U => V = U
    BY <1>1, SubsetMinimal
  <1>3. PICK x \in S : U = c[x]
    BY <1>2 DEF T
  <1>4. \A y \in S : c[y] \in T
    BY DEF T
  <1> QED BY <1>2, <1>3, <1>4

(* A finite set of integers has a least member,                            *)
LEMMA LowestCut ==
  ASSUME NEW S, IsFiniteSet(S), S # {}
  PROVE  \E x \in S : \A y \in S :
           (\A z \in S : z <= y => z <= x) => (\A z \in S : z <= x => z <= y)
  <1> DEFINE c == [x \in S |-> {y \in S : y <= x}]
  <1>1. \A x \in S : c[x] \in SUBSET S
    OBVIOUS
  <1>2. PICK x \in S : \A y \in S : c[y] \subseteq c[x] => c[y] = c[x]
    <2> HIDE DEF c
    <2> QED BY <1>1, MinimalBy
  <1>3. ASSUME NEW y \in S, \A z \in S : z <= y => z <= x
        PROVE  \A z \in S : z <= x => z <= y
    <2>1. c[y] = {z \in S : z <= y} /\ c[x] = {z \in S : z <= x}
      OBVIOUS
    <2> HIDE DEF c
    <2>2. c[y] \subseteq c[x]
      BY <1>3, <2>1
    <2> QED BY <1>2, <2>1, <2>2
  <1> QED BY <1>3

(* A finite set of integers has a least.                                   *)
LEMMA LeastExists ==
  ASSUME NEW S, IsFiniteSet(S), S \subseteq Int, S # {}
  PROVE  \E x \in S : \A y \in S : x <= y
  <1>1. PICK x \in S : \A y \in S :
          (\A z \in S : z <= y => z <= x) => (\A z \in S : z <= x => z <= y)
    BY LowestCut
  <1>2. ASSUME NEW y \in S, ~(x <= y) PROVE FALSE
    <2>1. x \in Int /\ y \in Int /\ y <= x
      BY <1>2
    <2>2. \A z \in S : z <= y => z <= x
      BY <2>1
    <2>3. x <= x /\ ~(x <= y)
      BY <1>2, <2>1
    <2> QED BY <1>1, <2>2, <2>3
  <1> QED BY <1>2

(* and a greatest one.                                                     *)
LEMMA HighestCut ==
  ASSUME NEW S, IsFiniteSet(S), S # {}
  PROVE  \E x \in S : \A y \in S :
           (\A z \in S : z >= y => z >= x) => (\A z \in S : z >= x => z >= y)
  <1> DEFINE c == [x \in S |-> {y \in S : y >= x}]
  <1>1. \A x \in S : c[x] \in SUBSET S
    OBVIOUS
  <1>2. PICK x \in S : \A y \in S : c[y] \subseteq c[x] => c[y] = c[x]
    <2> HIDE DEF c
    <2> QED BY <1>1, MinimalBy
  <1>3. ASSUME NEW y \in S, \A z \in S : z >= y => z >= x
        PROVE  \A z \in S : z >= x => z >= y
    <2>1. c[y] = {z \in S : z >= y} /\ c[x] = {z \in S : z >= x}
      OBVIOUS
    <2> HIDE DEF c
    <2>2. c[y] \subseteq c[x]
      BY <1>3, <2>1
    <2> QED BY <1>2, <2>1, <2>2
  <1> QED BY <1>3

(* And a greatest.                                                         *)
LEMMA GreatestExists ==
  ASSUME NEW S, IsFiniteSet(S), S \subseteq Int, S # {}
  PROVE  \E x \in S : \A y \in S : x >= y
  <1>1. PICK x \in S : \A y \in S :
          (\A z \in S : z >= y => z >= x) => (\A z \in S : z >= x => z >= y)
    BY HighestCut
  <1>2. ASSUME NEW y \in S, ~(x >= y) PROVE FALSE
    <2>1. x \in Int /\ y \in Int /\ y >= x
      BY <1>2
    <2>2. \A z \in S : z >= y => z >= x
      BY <2>1
    <2>3. x >= x /\ ~(x >= y)
      BY <1>2, <2>1
    <2> QED BY <1>1, <2>2, <2>3
  <1> QED BY <1>2

(* Min and Max of such a set are its least and its greatest member.        *)
LEMMA Extremes ==
  ASSUME NEW m \in Int, NEW n \in Int, NEW S, S \subseteq m..n, S # {}
  PROVE  /\ Min(S) \in S /\ Max(S) \in S
         /\ \A x \in S : Min(S) <= x /\ x <= Max(S)
  <1>0. S \subseteq Int
    OBVIOUS
  <1>1. IsFiniteSet(S)
    <2>1. IsFiniteSet(m..n) /\ S \in SUBSET (m..n)
      BY FS_Interval
    <2> QED BY <2>1, FS_Subset
  <1>2. Min(S) \in S /\ \A x \in S : Min(S) <= x
    BY <1>0, <1>1, LeastExists DEF Min
  <1>3. Max(S) \in S /\ \A x \in S : Max(S) >= x
    BY <1>0, <1>1, GreatestExists DEF Max
  <1> QED BY <1>0, <1>2, <1>3

(* The lower and the higher of two.                                        *)
LEMMA ExtremesOfTwo ==
  ASSUME NEW x \in Int, NEW y \in Int
  PROVE  /\ Max({x, y}) \in {x, y} /\ x <= Max({x, y}) /\ y <= Max({x, y})
         /\ Min({x, y}) \in {x, y} /\ Min({x, y}) <= x /\ Min({x, y}) <= y
  <1>1. \E m \in Int, n \in Int : {x, y} \subseteq m..n
    <2>1. CASE x <= y
      BY <2>1
    <2>2. CASE y <= x
      BY <2>2
    <2> QED BY <2>1, <2>2
  <1> QED BY <1>1, Extremes
=============================================================================
