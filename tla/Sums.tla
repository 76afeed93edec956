-------------------------------- MODULE Sums --------------------------------
(***************************************************************************)
(* Facts about SumFunctionOnSet, the sum of the values that a function has *)
(* on a finite set.  Its definition is recursive over the set, in an order *)
(* that CHOOSE picks: that such a recursion has a solution, and one only,  *)
(* is proved first.                                                        *)
(*                                                                         *)
(* An induction over finite sets is made here on a set of sets: one that   *)
(* is not empty has a smallest member, so a claim that fails for a finite  *)
(* set fails for one below which it holds.                                 *)
(***************************************************************************)
EXTENDS Integers, FiniteSets, Functions, FiniteSetTheorems,
        WellFoundedInduction, TLAPS

LEMMA SmallestSet ==
  ASSUME NEW S, IsFiniteSet(S), NEW T \in SUBSET (SUBSET S), T # {}
  PROVE  \E x \in T : \A y \in T : y \subseteq x => y = x
<1> DEFINE R == StrictSubsetOrdering(S)
<1>1. IsWellFoundedOn(R, FiniteSubsetsOf(S))
  BY FS_StrictSubsetOrderingWellFounded
<1>2. T \subseteq FiniteSubsetsOf(S)
  BY FS_FiniteSubsetsOfFinite
<1>3. \E x \in T : \A y \in T : ~ (<<y, x>> \in R)
  <2> HIDE DEF R
  <2> QED BY <1>1, <1>2, WFMin
<1>4. QED
  BY <1>3 DEF StrictSubsetOrdering

-----------------------------------------------------------------------------
(* The recursion.  One step of it, and what it means to solve it on the    *)
(* subsets of S.                                                           *)

Pick(s) == CHOOSE x \in s : TRUE

SumStep(f, g, s) == IF s = {} THEN 0 ELSE f[Pick(s)] + g[s \ {Pick(s)}]

Solves(f, g, S) == g = [s \in SUBSET S |-> SumStep(f, g, s)]

Solution(f, S) == CHOOSE g : Solves(f, g, S)

LEMMA SumIsSolution ==
  ASSUME NEW f, NEW S
  PROVE  SumFunctionOnSet(f, S) = Solution(f, S)[S]
BY DEF SumFunctionOnSet, FoldFunctionOnSet, MapThenFoldSet, Solution, Solves,
       SumStep, Pick

LEMMA PickIsMember ==
  ASSUME NEW s, s # {}
  PROVE  Pick(s) \in s
BY DEF Pick

LEMMA RestrictionSolves ==
  ASSUME NEW f, NEW g, NEW S, Solves(f, g, S), NEW U \in SUBSET S
  PROVE  Solves(f, [s \in SUBSET U |-> g[s]], U)
<1> DEFINE h == [s \in SUBSET U |-> g[s]]
<1>1. ASSUME NEW s \in SUBSET U
      PROVE  g[s] = SumStep(f, h, s)
  <2>1. s \in SUBSET S /\ s \ {Pick(s)} \in SUBSET U
    OBVIOUS
  <2>2. g[s] = SumStep(f, g, s)
    BY <2>1 DEF Solves
  <2>3. QED
    BY <2>1, <2>2 DEF SumStep
<1>2. QED
  BY <1>1 DEF Solves

LEMMA SolutionIsUnique ==
  ASSUME NEW f, NEW g, NEW h, NEW S, IsFiniteSet(S), Solves(f, g, S), Solves(f, h, S)
  PROVE  g = h
<1> DEFINE T == {s \in SUBSET S : g[s] # h[s]}
<1>1. ASSUME T # {}
      PROVE  FALSE
  <2>1. PICK s \in T : \A y \in T : y \subseteq s => y = s
    <3>1. T \in SUBSET (SUBSET S)
      OBVIOUS
    <3> HIDE DEF T
    <3>2. QED
      BY <1>1, <3>1, SmallestSet
  <2>2. s \in SUBSET S /\ s \ {Pick(s)} \in SUBSET S
    OBVIOUS
  <2>3. g[s] = SumStep(f, g, s) /\ h[s] = SumStep(f, h, s)
    BY <2>2 DEF Solves
  <2>4. CASE s = {}
    BY <2>3, <2>4 DEF SumStep
  <2>5. CASE s # {}
    <3>1. g[s \ {Pick(s)}] = h[s \ {Pick(s)}]
      BY <2>1, <2>2, <2>5, PickIsMember
    <3>2. QED
      BY <2>3, <3>1 DEF SumStep
  <2>6. QED
    BY <2>4, <2>5
<1>2. g = [s \in SUBSET S |-> g[s]] /\ h = [s \in SUBSET S |-> h[s]]
  BY DEF Solves
<1>3. QED
  BY <1>1, <1>2

LEMMA SolutionExists ==
  ASSUME NEW f, NEW S, IsFiniteSet(S)
  PROVE  Solves(f, Solution(f, S), S)
<1> DEFINE T == {U \in SUBSET S : ~ Solves(f, Solution(f, U), U)}
<1>1. ASSUME T # {}
      PROVE  FALSE
  <2>1. PICK U \in T : \A y \in T : y \subseteq U => y = U
    <3>1. T \in SUBSET (SUBSET S)
      OBVIOUS
    <3> HIDE DEF T
    <3>2. QED
      BY <1>1, <3>1, SmallestSet
  <2> DEFINE Rest(s) == s \ {Pick(s)}
  <2> DEFINE V(s) == Solution(f, s)[s]
  <2> DEFINE g == [s \in SUBSET U |-> IF s = {} THEN 0 ELSE f[Pick(s)] + V(Rest(s))]
  <2>2. ASSUME NEW s \in SUBSET U, s # {}
        PROVE  g[Rest(s)] = V(Rest(s))
    <3> DEFINE u == Rest(s)
    <3>1. u \subseteq U /\ u # U /\ u \in SUBSET S
      BY <2>1, <2>2, PickIsMember
    <3>2. Solves(f, Solution(f, u), u)
      BY <2>1, <3>1
    <3>3. Solution(f, u)[u] = SumStep(f, Solution(f, u), u)
      <4> HIDE DEF u
      <4>1. u \in SUBSET u
        OBVIOUS
      <4>2. QED
        BY <3>2, <4>1 DEF Solves
    <3>4. CASE u = {}
      BY <3>1, <3>3, <3>4 DEF SumStep
    <3>5. CASE u # {}
      <4> DEFINE v == Rest(u)
      <4>1. v \in SUBSET u /\ v \subseteq U /\ v # U /\ v \in SUBSET S
        BY <3>1
      <4>2. Solves(f, Solution(f, v), v)
        BY <2>1, <4>1
      <4>3. Solves(f, [x \in SUBSET v |-> Solution(f, u)[x]], v)
        <5> HIDE DEF u, v
        <5>1. QED
          BY <3>2, <4>1, RestrictionSolves
      <4>4. IsFiniteSet(v)
        BY <4>1, FS_Subset
      <4>5. Solution(f, v) = [x \in SUBSET v |-> Solution(f, u)[x]]
        <5> HIDE DEF u, v
        <5>1. QED
          BY <4>2, <4>3, <4>4, SolutionIsUnique
      <4>6. V(v) = Solution(f, u)[v]
        BY <4>5
      <4>7. g[u] = f[Pick(u)] + V(v)
        BY <3>1, <3>5
      <4>8. V(u) = f[Pick(u)] + Solution(f, u)[v]
        BY <3>3, <3>5 DEF SumStep
      <4>9. QED
        BY <4>6, <4>7, <4>8
    <3>6. QED
      BY <3>4, <3>5
  <2>3. ASSUME NEW s \in SUBSET U
        PROVE  g[s] = SumStep(f, g, s)
    BY <2>2 DEF SumStep
  <2>4. Solves(f, g, U)
    BY <2>3 DEF Solves
  <2>5. Solves(f, Solution(f, U), U)
    <3> HIDE DEF g
    <3>1. QED
      BY <2>4 DEF Solution
  <2>6. QED
    BY <2>1, <2>5
<1>2. QED
  BY <1>1

-----------------------------------------------------------------------------
(* The sum. *)

LEMMA SumEmpty ==
  ASSUME NEW f
  PROVE  SumFunctionOnSet(f, {}) = 0
<1>1. Solves(f, Solution(f, {}), {})
  BY SolutionExists, FS_EmptySet
<1>2. Solution(f, {})[{}] = SumStep(f, Solution(f, {}), {})
  <2>1. {} \in SUBSET {}
    OBVIOUS
  <2>2. QED
    BY <1>1, <2>1 DEF Solves
<1>3. QED
  BY <1>2, SumIsSolution DEF SumStep

LEMMA SumPick ==
  ASSUME NEW f, NEW S, IsFiniteSet(S), S # {}
  PROVE  SumFunctionOnSet(f, S) = f[Pick(S)] + SumFunctionOnSet(f, S \ {Pick(S)})
<1> DEFINE u == S \ {Pick(S)}
<1>1. Solves(f, Solution(f, S), S) /\ Solves(f, Solution(f, u), u) /\ IsFiniteSet(u)
  BY SolutionExists, FS_Subset
<1>2. S \in SUBSET S /\ u \in SUBSET S /\ u \in SUBSET u
  OBVIOUS
<1>3. Solution(f, S)[S] = f[Pick(S)] + Solution(f, S)[u]
  BY <1>1, <1>2 DEF Solves, SumStep
<1>4. Solution(f, u)[u] = Solution(f, S)[u]
  <2> HIDE DEF u
  <2>1. Solves(f, [x \in SUBSET u |-> Solution(f, S)[x]], u)
    BY <1>1, <1>2, RestrictionSolves
  <2>2. Solution(f, u) = [x \in SUBSET u |-> Solution(f, S)[x]]
    BY <1>1, <2>1, SolutionIsUnique
  <2>3. QED
    BY <1>2, <2>2
<1>5. QED
  BY <1>3, <1>4, SumIsSolution

(* The sum of integers is an integer, of natural numbers a natural number. *)
LEMMA SumIsInt ==
  ASSUME NEW f, NEW S, IsFiniteSet(S), \A x \in S : f[x] \in Int
  PROVE  SumFunctionOnSet(f, S) \in Int
<1> DEFINE T == {U \in SUBSET S : SumFunctionOnSet(f, U) \notin Int}
<1>1. ASSUME T # {}
      PROVE  FALSE
  <2>1. PICK U \in T : \A y \in T : y \subseteq U => y = U
    <3>1. T \in SUBSET (SUBSET S)
      OBVIOUS
    <3> HIDE DEF T
    <3>2. QED
      BY <1>1, <3>1, SmallestSet
  <2>2. U # {}
    <3>1. SumFunctionOnSet(f, {}) \in Int
      BY SumEmpty
    <3>2. QED
      BY <2>1, <3>1
  <2>3. Pick(U) \in U /\ IsFiniteSet(U)
    BY <2>1, <2>2, PickIsMember, FS_Subset
  <2>4. SumFunctionOnSet(f, U \ {Pick(U)}) \in Int /\ f[Pick(U)] \in Int
    BY <2>1, <2>3
  <2>5. SumFunctionOnSet(f, U) \in Int
    BY <2>2, <2>3, <2>4, SumPick
  <2>6. QED
    BY <2>1, <2>5
<1>2. QED
  BY <1>1

(* The order in which the members are added up does not matter. *)
LEMMA SumRemove ==
  ASSUME NEW f, NEW S, IsFiniteSet(S), \A x \in S : f[x] \in Int, NEW a \in S
  PROVE  SumFunctionOnSet(f, S) = SumFunctionOnSet(f, S \ {a}) + f[a]
<1> DEFINE Fails(U, x) == SumFunctionOnSet(f, U) # SumFunctionOnSet(f, U \ {x}) + f[x]
           T == {U \in SUBSET S : \E x \in U : Fails(U, x)}
<1>1. ASSUME T # {}
      PROVE  FALSE
  <2>1. PICK U \in T : \A y \in T : y \subseteq U => y = U
    <3>1. T \in SUBSET (SUBSET S)
      OBVIOUS
    <3> HIDE DEF T
    <3>2. QED
      BY <1>1, <3>1, SmallestSet
  <2>2. PICK z \in U : Fails(U, z)
    BY <2>1
  <2> DEFINE x == Pick(U)
  <2>3. x \in U /\ IsFiniteSet(U) /\ z \in U /\ U \subseteq S
    BY <2>1, <2>2, PickIsMember, FS_Subset
  <2> HIDE DEF x
  <2>4. SumFunctionOnSet(f, U) = f[x] + SumFunctionOnSet(f, U \ {x})
    BY <2>3, SumPick DEF x
  <2>5. /\ SumFunctionOnSet(f, U \ {z}) \in Int
        /\ SumFunctionOnSet(f, U \ {x}) \in Int
        /\ SumFunctionOnSet(f, U \ {x, z}) \in Int
        /\ f[x] \in Int
        /\ f[z] \in Int
    <3>1. /\ IsFiniteSet(U \ {z})
          /\ IsFiniteSet(U \ {x})
          /\ IsFiniteSet(U \ {x, z})
      BY <2>3, FS_Subset
    <3>2. QED
      BY <2>3, <3>1, SumIsInt
  <2>6. CASE x = z
    BY <2>2, <2>4, <2>5, <2>6
  <2>7. CASE x # z
    <3>1. ASSUME NEW v \in U, NEW w \in U, v # w
          PROVE  SumFunctionOnSet(f, U \ {v}) = SumFunctionOnSet(f, U \ {v, w}) + f[w]
      <4>1. U \ {v} \in SUBSET S /\ w \in U \ {v} /\ U \ {v} # U /\ U \ {v} \subseteq U
        BY <2>3, <3>1
      <4>2. ~ Fails(U \ {v}, w)
        <5> HIDE DEF Fails
        <5>1. QED
          BY <2>1, <4>1
      <4>3. (U \ {v}) \ {w} = U \ {v, w}
        OBVIOUS
      <4>4. QED
        BY <4>2, <4>3
    <3>2. SumFunctionOnSet(f, U \ {x}) = SumFunctionOnSet(f, U \ {x, z}) + f[z]
      BY <2>3, <2>7, <3>1
    <3>3. SumFunctionOnSet(f, U \ {z}) = SumFunctionOnSet(f, U \ {x, z}) + f[x]
      <4>1. U \ {z, x} = U \ {x, z}
        OBVIOUS
      <4>2. QED
        BY <2>3, <2>7, <3>1, <4>1
    <3>4. QED
      BY <2>2, <2>4, <2>5, <3>2, <3>3
  <2>8. QED
    BY <2>6, <2>7
<1>2. QED
  <2>1. S \notin T
    BY <1>1
  <2>2. QED
    BY <2>1

LEMMA SumAdd ==
  ASSUME NEW f, NEW S, IsFiniteSet(S), NEW a, a \notin S,
         \A x \in S \cup {a} : f[x] \in Int
  PROVE  SumFunctionOnSet(f, S \cup {a}) = SumFunctionOnSet(f, S) + f[a]
<1>1. IsFiniteSet(S \cup {a}) /\ (S \cup {a}) \ {a} = S
  BY FS_AddElement
<1>2. QED
  BY <1>1, SumRemove

(* Two functions that agree, or are ordered, on a set. *)
LEMMA SumMonotone ==
  ASSUME NEW f, NEW g, NEW S, IsFiniteSet(S),
         \A x \in S : f[x] \in Int /\ g[x] \in Int /\ f[x] <= g[x]
  PROVE  SumFunctionOnSet(f, S) <= SumFunctionOnSet(g, S)
<1> DEFINE T == {U \in SUBSET S : ~ (SumFunctionOnSet(f, U) <= SumFunctionOnSet(g, U))}
<1>1. ASSUME T # {}
      PROVE  FALSE
  <2>1. PICK U \in T : \A y \in T : y \subseteq U => y = U
    <3>1. T \in SUBSET (SUBSET S)
      OBVIOUS
    <3> HIDE DEF T
    <3>2. QED
      BY <1>1, <3>1, SmallestSet
  <2>2. U # {}
    <3>1. SumFunctionOnSet(f, {}) <= SumFunctionOnSet(g, {})
      BY SumEmpty
    <3>2. QED
      BY <2>1, <3>1
  <2> DEFINE x == Pick(U)
  <2>3. x \in U /\ IsFiniteSet(U) /\ IsFiniteSet(U \ {x}) /\ U \subseteq S
    BY <2>1, <2>2, PickIsMember, FS_Subset
  <2>4. /\ SumFunctionOnSet(f, U) = f[x] + SumFunctionOnSet(f, U \ {x})
        /\ SumFunctionOnSet(g, U) = g[x] + SumFunctionOnSet(g, U \ {x})
    BY <2>2, <2>3, SumPick
  <2> HIDE DEF x
  <2>5. SumFunctionOnSet(f, U \ {x}) <= SumFunctionOnSet(g, U \ {x})
    <3>1. U \ {x} \in SUBSET S /\ U \ {x} # U /\ U \ {x} \subseteq U
      BY <2>3
    <3>2. QED
      BY <2>1, <3>1
  <2>6. SumFunctionOnSet(f, U \ {x}) \in Int /\ SumFunctionOnSet(g, U \ {x}) \in Int
    BY <2>3, SumIsInt
  <2>7. f[x] \in Int /\ g[x] \in Int /\ f[x] <= g[x]
    BY <2>3
  <2>8. SumFunctionOnSet(f, U) <= SumFunctionOnSet(g, U)
    BY <2>4, <2>5, <2>6, <2>7
  <2>9. QED
    BY <2>1, <2>8
<1>2. QED
  BY <1>1

LEMMA SumEqual ==
  ASSUME NEW f, NEW g, NEW S, IsFiniteSet(S),
         \A x \in S : f[x] \in Int /\ g[x] = f[x]
  PROVE  SumFunctionOnSet(f, S) = SumFunctionOnSet(g, S)
<1>1. SumFunctionOnSet(f, S) <= SumFunctionOnSet(g, S)
  BY SumMonotone
<1>2. SumFunctionOnSet(g, S) <= SumFunctionOnSet(f, S)
  BY SumMonotone
<1>3. SumFunctionOnSet(f, S) \in Int /\ SumFunctionOnSet(g, S) \in Int
  BY SumIsInt
<1>4. QED
  BY <1>1, <1>2, <1>3

(* A sum over a set of equal terms is a product. *)
LEMMA SumConstant ==
  ASSUME NEW f, NEW S, IsFiniteSet(S), NEW k \in Int, \A x \in S : f[x] = k
  PROVE  SumFunctionOnSet(f, S) = k * Cardinality(S)
<1> DEFINE T == {U \in SUBSET S : SumFunctionOnSet(f, U) # k * Cardinality(U)}
<1>1. ASSUME T # {}
      PROVE  FALSE
  <2>1. PICK U \in T : \A y \in T : y \subseteq U => y = U
    <3>1. T \in SUBSET (SUBSET S)
      OBVIOUS
    <3> HIDE DEF T
    <3>2. QED
      BY <1>1, <3>1, SmallestSet
  <2>2. U # {}
    <3>1. SumFunctionOnSet(f, {}) = k * Cardinality({})
      BY SumEmpty, FS_EmptySet
    <3>2. QED
      BY <2>1, <3>1
  <2> DEFINE x == Pick(U)
  <2>3. x \in U /\ IsFiniteSet(U) /\ IsFiniteSet(U \ {x}) /\ U \subseteq S
    BY <2>1, <2>2, PickIsMember, FS_Subset
  <2>4. SumFunctionOnSet(f, U) = f[x] + SumFunctionOnSet(f, U \ {x})
    BY <2>2, <2>3, SumPick
  <2>5. f[x] = k
    BY <2>3
  <2> HIDE DEF x
  <2>6. SumFunctionOnSet(f, U \ {x}) = k * Cardinality(U \ {x})
    <3>1. U \ {x} \in SUBSET S /\ U \ {x} # U /\ U \ {x} \subseteq U
      BY <2>3
    <3>2. QED
      BY <2>1, <3>1
  <2>7. /\ Cardinality(U) \in Nat
        /\ Cardinality(U \ {x}) = Cardinality(U) - 1
    BY <2>3, FS_CardinalityType, FS_RemoveElement
  <2> DEFINE n == Cardinality(U)
  <2> HIDE DEF n
  <2>8. k + k * (n - 1) = k * n
    BY <2>7 DEF n
  <2>9. SumFunctionOnSet(f, U) = k * n
    BY <2>4, <2>5, <2>6, <2>7, <2>8 DEF n
  <2>10. QED
    BY <2>1, <2>9 DEF n
<1>2. QED
  BY <1>1

LEMMA SumIsNat ==
  ASSUME NEW f, NEW S, IsFiniteSet(S), \A x \in S : f[x] \in Nat
  PROVE  SumFunctionOnSet(f, S) \in Nat
<1> DEFINE zero == [x \in S |-> 0]
<1>1. SumFunctionOnSet(zero, S) = 0
  <2>1. SumFunctionOnSet(zero, S) = 0 * Cardinality(S)
    <3>1. \A x \in S : zero[x] = 0
      OBVIOUS
    <3> HIDE DEF zero
    <3>2. QED
      BY <3>1, SumConstant
  <2>2. Cardinality(S) \in Nat
    BY FS_CardinalityType
  <2> HIDE DEF zero
  <2>3. QED
    BY <2>1, <2>2
<1>2. SumFunctionOnSet(zero, S) <= SumFunctionOnSet(f, S)
  <2>1. \A x \in S : zero[x] \in Int /\ f[x] \in Int /\ zero[x] <= f[x]
    OBVIOUS
  <2> HIDE DEF zero
  <2>2. QED
    BY <2>1, SumMonotone
<1>3. SumFunctionOnSet(f, S) \in Int
  BY SumIsInt
<1>4. QED
  BY <1>1, <1>2, <1>3

=============================================================================
