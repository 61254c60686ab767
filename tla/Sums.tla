-------------------------------- MODULE Sums --------------------------------
(***************************************************************************)
(* Facts about SumFunctionOnSet, the sum of a function's values over a     *)
(* finite set: the recursion that defines it is sound, the order in which  *)
(* it takes the elements does not matter, and how the sum changes with the *)
(* function and with the set.                                              *)
(*                                                                         *)
(* An induction is stated without a parameter for the formula: of any      *)
(* subsets of a finite set that fail it, one is minimal (Least).           *)
(***************************************************************************)
EXTENDS Integers, Functions, FiniteSetTheorems, TLAPS

Some(t) == CHOOSE x \in t : TRUE

\* One equation of the recursion, and the recursion over the subsets of S.
Next1(f, it, t) == IF t = {} THEN 0 ELSE f[Some(t)] + it[t \ {Some(t)}]
Solves(f, S, it) == it = [t \in SUBSET S |-> Next1(f, it, t)]
Iter(f, S) == CHOOSE it : Solves(f, S, it)

\* Of the subsets of S in D, one has no smaller one in D: with D the subsets
\* that fail a claim, the induction hypothesis holds below it.
LEMMA Least ==
    ASSUME NEW S, IsFiniteSet(S), NEW D, D \subseteq SUBSET S, D # {}
    PROVE  \E t \in D : \A u \in SUBSET t : u # t => u \notin D
<1>1. IsWellFoundedOn(StrictSubsetOrdering(S), FiniteSubsetsOf(S))
    BY FS_StrictSubsetOrderingWellFounded
<1>2. D \subseteq FiniteSubsetsOf(S)
    BY FS_FiniteSubsetsOfFinite
<1>3. PICK t \in D : \A u \in D : <<u, t>> \notin StrictSubsetOrdering(S)
    BY <1>1, <1>2, WFMin
<1>4. ASSUME NEW u \in SUBSET t, u # t, u \in D PROVE FALSE
    BY <1>3, <1>4 DEF StrictSubsetOrdering
<1> QED BY <1>4

\* The element the recursion takes next is in the set.
LEMMA SomeIn == ASSUME NEW t, t # {} PROVE Some(t) \in t
BY DEF Some

\* The sum of the community modules is the solution they choose, at S.
LEMMA SumIter == ASSUME NEW f, NEW S PROVE SumFunctionOnSet(f, S) = Iter(f, S)[S]
BY DEF SumFunctionOnSet, FoldFunctionOnSet, MapThenFoldSet, Iter, Solves, Next1, Some

\* A solution over S is one over its subsets.
LEMMA SolvesBelow ==
    ASSUME NEW f, NEW S, NEW T \in SUBSET S, NEW it, Solves(f, S, it),
           NEW jt, jt = [t \in SUBSET T |-> it[t]]
    PROVE  Solves(f, T, jt)
<1>1. ASSUME NEW t \in SUBSET T PROVE it[t] = Next1(f, jt, t)
    <2>1. it[t] = Next1(f, it, t)
        BY DEF Solves
    <2>2. CASE t = {}
        BY <2>1, <2>2 DEF Next1
    <2>3. CASE t # {}
        <3>1. jt[t \ {Some(t)}] = it[t \ {Some(t)}]
            OBVIOUS
        <3> QED BY <2>1, <2>3, <3>1 DEF Next1
    <2> QED BY <2>2, <2>3
<1> QED BY <1>1 DEF Solves

\* Two solutions agree: nothing smaller distinguishes them.
LEMMA OneSolution ==
    ASSUME NEW f, NEW S, IsFiniteSet(S), NEW it, Solves(f, S, it), NEW jt, Solves(f, S, jt)
    PROVE  it = jt
<1> DEFINE D == {t \in SUBSET S : it[t] # jt[t]}
<1>1. it = [t \in SUBSET S |-> it[t]] /\ jt = [t \in SUBSET S |-> jt[t]]
    BY DEF Solves
<1>2. SUFFICES ASSUME D # {} PROVE FALSE
    BY <1>1
<1>3. PICK t \in D : \A u \in SUBSET t : u # t => u \notin D
    <2> HIDE DEF D
    <2>1. D \subseteq SUBSET S
        BY DEF D
    <2> QED BY <1>2, <2>1, Least
<1>4. it[t] = Next1(f, it, t) /\ jt[t] = Next1(f, jt, t)
    BY DEF Solves
<1>5. t # {}
    BY <1>3, <1>4 DEF Next1
<1>6. it[t \ {Some(t)}] = jt[t \ {Some(t)}]
    BY <1>3, <1>5, SomeIn
<1> QED BY <1>3, <1>4, <1>5, <1>6 DEF Next1

\* Any solution gives the sum, at the whole set and at its subsets.
LEMMA SumOfSolution ==
    ASSUME NEW f, NEW S, IsFiniteSet(S), NEW it, Solves(f, S, it)
    PROVE  SumFunctionOnSet(f, S) = it[S]
<1>1. Solves(f, S, Iter(f, S))
    BY DEF Iter
<1> QED BY <1>1, OneSolution, SumIter

\* And so does a solution over a larger set.
LEMMA SumBelow ==
    ASSUME NEW f, NEW S, IsFiniteSet(S), NEW T \in SUBSET S, NEW it, Solves(f, S, it)
    PROVE  SumFunctionOnSet(f, T) = it[T]
<1> DEFINE jt == [t \in SUBSET T |-> it[t]]
<1>1. IsFiniteSet(T)
    BY FS_Subset
<1>2. Solves(f, T, jt)
    <2>1. jt = [t \in SUBSET T |-> it[t]]
        OBVIOUS
    <2> HIDE DEF jt
    <2> QED BY <2>1, SolvesBelow
<1>3. SumFunctionOnSet(f, T) = jt[T]
    <2> HIDE DEF jt
    <2> QED BY <1>1, <1>2, SumOfSolution
<1> QED BY <1>3

\* What the recursion comes to for a set that has a solution.
LEMMA SumOnce ==
    ASSUME NEW f, NEW S, IsFiniteSet(S), NEW it, Solves(f, S, it)
    PROVE  SumFunctionOnSet(f, S) =
               IF S = {} THEN 0
               ELSE f[Some(S)] + SumFunctionOnSet(f, S \ {Some(S)})
<1>1. SumFunctionOnSet(f, S) = Next1(f, it, S)
    <2>1. SumFunctionOnSet(f, S) = it[S]
        BY SumOfSolution
    <2>2. it[S] = Next1(f, it, S)
        BY DEF Solves
    <2> QED BY <2>1, <2>2
<1>2. CASE S = {}
    BY <1>1, <1>2 DEF Next1
<1>3. CASE S # {}
    <2> DEFINE T == S \ {Some(S)}
    <2>1. SumFunctionOnSet(f, T) = it[T]
        BY SumBelow
    <2> QED BY <1>1, <1>3, <2>1 DEF Next1
<1> QED BY <1>2, <1>3

\* There is a solution: the sums of the smaller sets make one.
LEMMA SomeSolution ==
    ASSUME NEW f, NEW S, IsFiniteSet(S)
    PROVE  \E it : Solves(f, S, it)
<1> DEFINE D == {t \in SUBSET S : ~\E it : Solves(f, t, it)}
<1>1. SUFFICES ASSUME D # {} PROVE FALSE
    OBVIOUS
<1>2. PICK t \in D : \A u \in SUBSET t : u # t => u \notin D
    <2> HIDE DEF D
    <2>1. D \subseteq SUBSET S
        BY DEF D
    <2> QED BY <1>1, <2>1, Least
<1> DEFINE it == [u \in SUBSET t |->
                     IF u # t THEN SumFunctionOnSet(f, u)
                     ELSE IF t = {} THEN 0
                     ELSE f[Some(t)] + SumFunctionOnSet(f, t \ {Some(t)})]
<1>3. ASSUME NEW u \in SUBSET t PROVE it[u] = Next1(f, it, u)
    <2>1. u # {} => u \ {Some(u)} # t /\ it[u \ {Some(u)}] = SumFunctionOnSet(f, u \ {Some(u)})
        BY SomeIn
    <2>2. CASE u = t
        BY <2>1, <2>2 DEF Next1
    <2>3. CASE u # t
        <3>1. PICK jt : Solves(f, u, jt)
            BY <1>2, <2>3
        <3>2. IsFiniteSet(u)
            BY FS_Subset
        <3>3. it[u] = SumFunctionOnSet(f, u)
            BY <2>3
        <3>4. CASE u = {}
            BY <3>1, <3>2, <3>3, <3>4, SumOnce DEF Next1
        <3>5. CASE u # {}
            BY <2>1, <3>1, <3>2, <3>3, <3>5, SumOnce DEF Next1
        <3> QED BY <3>4, <3>5
    <2> QED BY <2>2, <2>3
<1>4. Solves(f, t, it)
    BY <1>3 DEF Solves
<1> QED BY <1>2, <1>4

\* The recursion, without solutions.
LEMMA SumEquation ==
    ASSUME NEW f, NEW S, IsFiniteSet(S)
    PROVE  SumFunctionOnSet(f, S) =
               IF S = {} THEN 0
               ELSE f[Some(S)] + SumFunctionOnSet(f, S \ {Some(S)})
<1>1. PICK it : Solves(f, S, it)
    BY SomeSolution
<1> QED BY <1>1, SumOnce

-----------------------------------------------------------------------------
\* The sum does not depend on the element it starts with.

LEMMA SumEmpty == ASSUME NEW f PROVE SumFunctionOnSet(f, {}) = 0
BY SumEquation, FS_EmptySet

\* The sum is its first element and the sum of the rest.
LEMMA SumSome ==
    ASSUME NEW f, NEW S, IsFiniteSet(S), S # {}
    PROVE  SumFunctionOnSet(f, S) = f[Some(S)] + SumFunctionOnSet(f, S \ {Some(S)})
BY SumEquation

\* Integers add up to an integer.
LEMMA SumInt ==
    ASSUME NEW f, NEW S, IsFiniteSet(S), \A x \in S : f[x] \in Int
    PROVE  SumFunctionOnSet(f, S) \in Int
<1> DEFINE D == {t \in SUBSET S : SumFunctionOnSet(f, t) \notin Int}
<1>1. SUFFICES ASSUME D # {} PROVE FALSE
    OBVIOUS
<1>2. PICK t \in D : \A u \in SUBSET t : u # t => u \notin D
    <2> HIDE DEF D
    <2>1. D \subseteq SUBSET S
        BY DEF D
    <2> QED BY <1>1, <2>1, Least
<1>3. t # {} /\ IsFiniteSet(t)
    <2>1. t # {}
        BY SumEmpty
    <2> QED BY <2>1, FS_Subset
<1>4. Some(t) \in t
    BY <1>3, SomeIn
<1>5. SumFunctionOnSet(f, t \ {Some(t)}) \in Int
    BY <1>2, <1>4
<1>6. SumFunctionOnSet(f, t) \in Int
    BY <1>3, <1>4, <1>5, SumSome
<1> QED BY <1>6

\* Any element may be taken first: if a smallest set has one that may not, take
\* that one and the recursion's choice away in either order.
LEMMA SumRemove ==
    ASSUME NEW f, NEW S, IsFiniteSet(S), \A x \in S : f[x] \in Int, NEW x \in S
    PROVE  SumFunctionOnSet(f, S) = f[x] + SumFunctionOnSet(f, S \ {x})
<1> DEFINE Fails(t) == \E y \in t : SumFunctionOnSet(f, t)
                                       # f[y] + SumFunctionOnSet(f, t \ {y})
           D == {t \in SUBSET S : Fails(t)}
<1>1. SUFFICES ASSUME D # {} PROVE FALSE
    OBVIOUS
<1>2. PICK t \in D : \A u \in SUBSET t : u # t => u \notin D
    <2> HIDE DEF D
    <2>1. D \subseteq SUBSET S
        BY DEF D
    <2> QED BY <1>1, <2>1, Least
<1>3. PICK y \in t : SumFunctionOnSet(f, t) # f[y] + SumFunctionOnSet(f, t \ {y})
    OBVIOUS
<1> DEFINE z == Some(t)
<1>4. z \in t /\ IsFiniteSet(t)
    BY SomeIn, FS_Subset
<1>5. SumFunctionOnSet(f, t) = f[z] + SumFunctionOnSet(f, t \ {z})
    BY <1>4, SumSome
<1> HIDE DEF z
<1>6. y # z
    BY <1>3, <1>5
<1> DEFINE r == (t \ {y}) \ {z}
<1>7. (t \ {z}) \ {y} = r
    OBVIOUS
<1>8. SumFunctionOnSet(f, t \ {z}) = f[y] + SumFunctionOnSet(f, r)
    <2>1. SumFunctionOnSet(f, t \ {z}) = f[y] + SumFunctionOnSet(f, (t \ {z}) \ {y})
        BY <1>2, <1>4, <1>6
    <2> QED BY <2>1, <1>7
<1>9. SumFunctionOnSet(f, t \ {y}) = f[z] + SumFunctionOnSet(f, r)
    BY <1>2, <1>4, <1>6
<1>10. SumFunctionOnSet(f, r) \in Int
    <2>1. IsFiniteSet(r)
        BY FS_Subset
    <2>2. \A v \in r : f[v] \in Int
        OBVIOUS
    <2> HIDE DEF r
    <2> QED BY <2>1, <2>2, SumInt
<1>11. f[y] \in Int /\ f[z] \in Int
    BY <1>4
<1> HIDE DEF r, D
<1> QED BY <1>3, <1>5, <1>8, <1>9, <1>10, <1>11

\* A new element adds its value.
LEMMA SumAdd ==
    ASSUME NEW f, NEW S, IsFiniteSet(S), NEW x, x \notin S,
           \A y \in S \cup {x} : f[y] \in Int
    PROVE  SumFunctionOnSet(f, S \cup {x}) = f[x] + SumFunctionOnSet(f, S)
<1>1. IsFiniteSet(S \cup {x}) /\ (S \cup {x}) \ {x} = S
    BY FS_AddElement
<1> QED BY <1>1, SumRemove

-----------------------------------------------------------------------------
\* Comparing sums.

LEMMA SumAtMost ==
    ASSUME NEW f, NEW g, NEW S, IsFiniteSet(S),
           \A x \in S : f[x] \in Int /\ g[x] \in Int /\ f[x] <= g[x]
    PROVE  SumFunctionOnSet(f, S) <= SumFunctionOnSet(g, S)
<1> DEFINE D == {t \in SUBSET S : ~(SumFunctionOnSet(f, t) <= SumFunctionOnSet(g, t))}
<1>1. SUFFICES ASSUME D # {} PROVE FALSE
    OBVIOUS
<1>2. PICK t \in D : \A u \in SUBSET t : u # t => u \notin D
    <2> HIDE DEF D
    <2>1. D \subseteq SUBSET S
        BY DEF D
    <2> QED BY <1>1, <2>1, Least
<1>3. t # {} /\ IsFiniteSet(t)
    <2>1. t # {}
        BY SumEmpty
    <2> QED BY <2>1, FS_Subset
<1> DEFINE x == Some(t)
<1>4. x \in t
    BY <1>3, SomeIn
<1>5. /\ SumFunctionOnSet(f, t) = f[x] + SumFunctionOnSet(f, t \ {x})
      /\ SumFunctionOnSet(g, t) = g[x] + SumFunctionOnSet(g, t \ {x})
    BY <1>3, SumSome
<1> HIDE DEF x
<1>6. SumFunctionOnSet(f, t \ {x}) <= SumFunctionOnSet(g, t \ {x})
    BY <1>2, <1>4
<1>7. SumFunctionOnSet(f, t \ {x}) \in Int /\ SumFunctionOnSet(g, t \ {x}) \in Int
    <2>1. IsFiniteSet(t \ {x})
        BY FS_Subset
    <2> QED BY <2>1, SumInt
<1> QED BY <1>4, <1>5, <1>6, <1>7

\* The sum looks at the values in the set only.
LEMMA SumSame ==
    ASSUME NEW f, NEW g, NEW S, IsFiniteSet(S),
           \A x \in S : f[x] \in Int /\ g[x] = f[x]
    PROVE  SumFunctionOnSet(f, S) = SumFunctionOnSet(g, S)
<1>1. SumFunctionOnSet(f, S) <= SumFunctionOnSet(g, S)
    BY SumAtMost
<1>2. SumFunctionOnSet(g, S) <= SumFunctionOnSet(f, S)
    BY SumAtMost
<1> QED BY <1>1, <1>2, SumInt

\* The function changes at one place.
LEMMA SumChange ==
    ASSUME NEW f, NEW g, NEW S, IsFiniteSet(S), NEW x \in S,
           \A y \in S : f[y] \in Int /\ g[y] \in Int,
           \A y \in S \ {x} : g[y] = f[y]
    PROVE  SumFunctionOnSet(g, S) = SumFunctionOnSet(f, S) - f[x] + g[x]
<1>1. IsFiniteSet(S \ {x})
    BY FS_Subset
<1>2. SumFunctionOnSet(f, S \ {x}) = SumFunctionOnSet(g, S \ {x})
    BY <1>1, SumSame
<1>3. SumFunctionOnSet(f, S \ {x}) \in Int
    BY <1>1, SumInt
<1> QED BY <1>2, <1>3, SumRemove

\* Zeros add up to zero.
LEMMA SumZero ==
    ASSUME NEW f, NEW S, IsFiniteSet(S), \A x \in S : f[x] = 0
    PROVE  SumFunctionOnSet(f, S) = 0
<1> DEFINE D == {t \in SUBSET S : ~(SumFunctionOnSet(f, t) = 0)}
<1>1. SUFFICES ASSUME D # {} PROVE FALSE
    OBVIOUS
<1>2. PICK t \in D : \A u \in SUBSET t : u # t => u \notin D
    <2> HIDE DEF D
    <2>1. D \subseteq SUBSET S
        BY DEF D
    <2> QED BY <1>1, <2>1, Least
<1>3. t # {} /\ IsFiniteSet(t) /\ Some(t) \in t
    <2>1. t # {}
        BY SumEmpty
    <2> QED BY <2>1, FS_Subset, SomeIn
<1>4. SumFunctionOnSet(f, t \ {Some(t)}) = 0
    BY <1>2, <1>3
<1> QED BY <1>3, <1>4, SumSome

\* Numbers that are not negative have such a sum.
LEMMA SumNat ==
    ASSUME NEW f, NEW S, IsFiniteSet(S), \A x \in S : f[x] \in Nat
    PROVE  SumFunctionOnSet(f, S) \in Nat
<1> DEFINE z == [x \in S |-> 0]
<1>1. SumFunctionOnSet(z, S) <= SumFunctionOnSet(f, S)
    BY SumAtMost
<1>2. SumFunctionOnSet(z, S) = 0
    <2>1. \A x \in S : z[x] = 0
        OBVIOUS
    <2> HIDE DEF z
    <2> QED BY <2>1, SumZero
<1> QED BY <1>1, <1>2, SumInt

\* Only numbers that are not negative are added to a smaller set.
LEMMA SumPart ==
    ASSUME NEW f, NEW S, IsFiniteSet(S), NEW T \in SUBSET S, \A x \in S : f[x] \in Nat
    PROVE  SumFunctionOnSet(f, T) <= SumFunctionOnSet(f, S)
<1> DEFINE D == {t \in SUBSET S : T \subseteq t /\ ~(SumFunctionOnSet(f, T) <= SumFunctionOnSet(f, t))}
<1>1. SUFFICES ASSUME D # {} PROVE FALSE
    OBVIOUS
<1>2. PICK t \in D : \A u \in SUBSET t : u # t => u \notin D
    <2> HIDE DEF D
    <2>1. D \subseteq SUBSET S
        BY DEF D
    <2> QED BY <1>1, <2>1, Least
<1>3. IsFiniteSet(t) /\ IsFiniteSet(T)
    BY FS_Subset
<1>4. SumFunctionOnSet(f, t) \in Int /\ SumFunctionOnSet(f, T) \in Int
    BY <1>3, SumInt
<1>5. PICK x \in t \ T : TRUE
    BY <1>4
<1>6. IsFiniteSet(t \ {x}) /\ SumFunctionOnSet(f, t) = f[x] + SumFunctionOnSet(f, t \ {x})
    BY <1>3, FS_Subset, SumRemove
<1>7. SumFunctionOnSet(f, t \ {x}) \in Int
    BY <1>6, SumInt
<1>8. SumFunctionOnSet(f, T) <= SumFunctionOnSet(f, t \ {x})
    BY <1>2, <1>5
<1> QED BY <1>4, <1>5, <1>6, <1>7, <1>8
=============================================================================
