----------------------------- MODULE FiniteSums -----------------------------
(***************************************************************************)
(* Extremes and sums of natural numbers over finite sets, for the proofs   *)
(* about modules that use Min, Max and MapThenSumSet.  The recursion that  *)
(* defines MapThenSumSet is a CHOOSE: what it comes to follows only once a *)
(* solution exists and is the one counted here.  A sum is the number of    *)
(* units it is made of, so that what is known of finite cardinalities      *)
(* holds of sums.                                                          *)
(***************************************************************************)
EXTENDS Integers, FiniteSets, FiniteSetsExt, FiniteSetTheorems, WellFoundedInduction, TLAPS

(***************************************************************************)
(* The least of any set of natural numbers is reached.                     *)
(***************************************************************************)
LEMMA LeastOfNaturals ==
  ASSUME NEW T \in SUBSET Nat, T # {}
  PROVE  Min(T) \in T /\ \A y \in T : Min(T) <= y
<1>1. PICK x \in T : \A y \in T : ~(<<y, x>> \in OpToRel(<, Nat))
  BY NatLessThanWellFounded, WFMin
<1>2. \A y \in Nat : y < x => <<y, x>> \in OpToRel(<, Nat)
  BY Zenon DEF OpToRel
<1>3. \A y \in T : ~(y < x)
  BY <1>1, <1>2, Zenon
<1>4. \A y \in T : x <= y
  BY <1>3, SMT
<1> QED
  BY <1>4 DEF Min

\* The one with the fewest above it.
LEMMA GreatestOfNaturals ==
  ASSUME NEW S \in SUBSET Nat, S # {}, IsFiniteSet(S)
  PROVE  Max(S) \in S /\ \A y \in S : y <= Max(S)
<1> DEFINE Above(x) == {y \in S : y > x}
           counts   == {Cardinality(Above(x)) : x \in S}
<1>1. \A x \in S : IsFiniteSet(Above(x)) /\ Cardinality(Above(x)) \in Nat
  BY FS_Subset, FS_CardinalityType
<1>2. counts \in SUBSET Nat /\ counts # {}
  BY <1>1
<1>3. PICK n \in counts : \A m \in counts : n <= m
  <2> HIDE DEF counts
  <2> QED
    BY <1>2, LeastOfNaturals
<1>4. PICK x \in S : n = Cardinality(Above(x))
  OBVIOUS
<1>5. ASSUME NEW y \in S, y > x PROVE FALSE
  <2>1. Above(y) \in SUBSET Above(x) /\ y \in Above(x) /\ y \notin Above(y)
    <3>1. x \in Nat /\ y \in Nat /\ ~(y > y)
      OBVIOUS
    <3>2. ASSUME NEW z \in S, z > y PROVE z > x
      <4>1. z \in Nat
        OBVIOUS
      <4> QED
        BY <1>5, <3>1, <3>2, <4>1
    <3> QED
      BY <1>5, <3>1, <3>2
  <2>2. Cardinality(Above(y)) <= Cardinality(Above(x)) /\ Cardinality(Above(y)) # Cardinality(Above(x))
    <3> HIDE DEF Above
    <3> QED
      BY <1>1, <2>1, FS_Subset
  <2>3. Cardinality(Above(x)) <= Cardinality(Above(y))
    BY <1>3, <1>4
  <2>4. Cardinality(Above(x)) \in Nat /\ Cardinality(Above(y)) \in Nat
    BY <1>1
  <2> HIDE DEF Above
  <2> QED
    BY <2>2, <2>3, <2>4
<1>6. \A y \in S : x >= y
  BY <1>5
<1> QED
  BY <1>6 DEF Max

LEMMA GreatestUpTo ==
  ASSUME NEW top \in Nat, NEW S \in SUBSET (0 .. top), S # {}
  PROVE  Max(S) \in S /\ \A y \in S : y <= Max(S)
<1>1. IsFiniteSet(0 .. top) /\ S \in SUBSET Nat
  BY FS_Interval
<1>2. IsFiniteSet(S)
  BY <1>1, FS_Subset
<1> QED
  BY <1>1, <1>2, GreatestOfNaturals
-----------------------------------------------------------------------------
\* An amount f[x] is f[x] units of x.
UnitsOf(f, x) == {x} \X (1 .. f[x])
Units(f, s)   == UNION {UnitsOf(f, x) : x \in s}
CountOf(f, s) == Cardinality(Units(f, s))

Pick(s) == CHOOSE x \in s : TRUE

\* iter solves the recursion of MapThenSumSet for f, over the subsets of S.
Sums(f, S, iter) ==
  iter = [s \in SUBSET S |-> IF s = {} THEN 0 ELSE f[Pick(s)] + iter[s \ {Pick(s)}]]

LEMMA UnitsOfOne ==
  ASSUME NEW x, NEW f, f[x] \in Nat
  PROVE  IsFiniteSet(UnitsOf(f, x)) /\ Cardinality(UnitsOf(f, x)) = f[x]
<1>1. IsFiniteSet({x}) /\ Cardinality({x}) = 1
  BY FS_Singleton
<1>2. IsFiniteSet(1 .. f[x]) /\ Cardinality(1 .. f[x]) = f[x]
  BY FS_Interval
<1>3. IsFiniteSet(UnitsOf(f, x)) /\ Cardinality(UnitsOf(f, x)) = 1 * f[x]
  BY <1>1, <1>2, FS_Product DEF UnitsOf
<1> QED
  BY <1>3

LEMMA NoUnits ==
  ASSUME NEW f
  PROVE  IsFiniteSet(Units(f, {})) /\ CountOf(f, {}) = 0
<1>1. Units(f, {}) = {}
  BY DEF Units
<1> QED
  BY <1>1, FS_EmptySet DEF CountOf

LEMMA UnitsSplit ==
  ASSUME NEW f, NEW s, NEW x \in s, f[x] \in Nat, IsFiniteSet(Units(f, s \ {x}))
  PROVE  IsFiniteSet(Units(f, s)) /\ CountOf(f, s) = f[x] + CountOf(f, s \ {x})
<1>1. Units(f, s) = UnitsOf(f, x) \cup Units(f, s \ {x})
  BY DEF Units
<1>2. UnitsOf(f, x) \cap Units(f, s \ {x}) = {}
  BY DEF Units, UnitsOf
<1>3. IsFiniteSet(UnitsOf(f, x)) /\ Cardinality(UnitsOf(f, x)) = f[x]
  BY UnitsOfOne
<1>4. /\ IsFiniteSet(Units(f, s))
      /\ Cardinality(Units(f, s)) = f[x] + Cardinality(Units(f, s \ {x})) - Cardinality({})
  BY <1>1, <1>2, <1>3, FS_Union
<1>5. Cardinality({}) = 0 /\ Cardinality(Units(f, s \ {x})) \in Nat
  BY FS_EmptySet, FS_CardinalityType
<1> QED
  BY <1>4, <1>5 DEF CountOf

(***************************************************************************)
(* Whatever fails for some finite subset fails for a least one.            *)
(***************************************************************************)
LEMMA SmallestSubset ==
  ASSUME NEW S, IsFiniteSet(S), NEW bad \in SUBSET (SUBSET S), bad # {}
  PROVE  \E s \in bad : \A t \in bad : Cardinality(s) <= Cardinality(t)
<1>1. \A s \in bad : Cardinality(s) \in Nat
  BY FS_Subset, FS_CardinalityType
<1> DEFINE sizes == {Cardinality(s) : s \in bad}
<1>2. sizes \in SUBSET Nat /\ sizes # {}
  BY <1>1
<1>3. PICK n \in sizes : \A m \in sizes : n <= m
  BY <1>2, LeastOfNaturals
<1> QED
  BY <1>3

LEMMA UnitsAreFinite ==
  ASSUME NEW S, IsFiniteSet(S), NEW f, \A x \in S : f[x] \in Nat
  PROVE  \A s \in SUBSET S : IsFiniteSet(Units(f, s)) /\ CountOf(f, s) \in Nat
<1> DEFINE bad == {s \in SUBSET S : ~IsFiniteSet(Units(f, s))}
<1> SUFFICES ASSUME bad # {} PROVE FALSE
  BY FS_CardinalityType DEF CountOf
<1>1. PICK s \in bad : \A t \in bad : Cardinality(s) <= Cardinality(t)
  BY SmallestSubset
<1>2. s # {}
  BY NoUnits
<1>3. PICK x \in s : TRUE
  BY <1>2
<1>4. IsFiniteSet(s) /\ Cardinality(s) \in Nat /\ Cardinality(s \ {x}) = Cardinality(s) - 1
  BY FS_Subset, FS_CardinalityType, FS_RemoveElement
<1>5. s \ {x} \notin bad
  BY <1>1, <1>4
<1>6. IsFiniteSet(Units(f, s \ {x}))
  BY <1>5
<1> QED
  BY <1>6, UnitsSplit

(***************************************************************************)
(* The recursion has a solution, and every solution counts units.          *)
(***************************************************************************)
LEMMA SumExists ==
  ASSUME NEW S, IsFiniteSet(S), NEW f, \A x \in S : f[x] \in Nat
  PROVE  \E iter : Sums(f, S, iter)
<1> DEFINE count == [s \in SUBSET S |-> CountOf(f, s)]
<1>1. ASSUME NEW s \in SUBSET S
      PROVE  CountOf(f, s) = IF s = {} THEN 0 ELSE f[Pick(s)] + count[s \ {Pick(s)}]
  <2>1. CASE s = {}
    BY <2>1, NoUnits
  <2>2. CASE s # {}
    <3>1. Pick(s) \in s /\ f[Pick(s)] \in Nat
      BY <2>2 DEF Pick
    <3>2. IsFiniteSet(Units(f, s \ {Pick(s)}))
      BY UnitsAreFinite
    <3>3. CountOf(f, s) = f[Pick(s)] + CountOf(f, s \ {Pick(s)})
      BY <3>1, <3>2, UnitsSplit
    <3>4. s \ {Pick(s)} \in SUBSET S
      OBVIOUS
    <3> QED
      BY <2>2, <3>3, <3>4
  <2> QED
    BY <2>1, <2>2
<1>2. count = [s \in SUBSET S |-> IF s = {} THEN 0 ELSE f[Pick(s)] + count[s \ {Pick(s)}]]
  BY <1>1
<1> QED
  BY <1>2 DEF Sums

LEMMA SumsCount ==
  ASSUME NEW S, IsFiniteSet(S), NEW f, \A x \in S : f[x] \in Nat, NEW iter, Sums(f, S, iter)
  PROVE  iter[S] = CountOf(f, S)
<1> DEFINE bad == {s \in SUBSET S : iter[s] # CountOf(f, s)}
<1> SUFFICES ASSUME bad # {} PROVE FALSE
  OBVIOUS
<1>1. PICK s \in bad : \A t \in bad : Cardinality(s) <= Cardinality(t)
  BY SmallestSubset
<1>2. iter[s] = IF s = {} THEN 0 ELSE f[Pick(s)] + iter[s \ {Pick(s)}]
  BY DEF Sums
<1>3. s # {}
  BY <1>2, NoUnits
<1>4. Pick(s) \in s /\ f[Pick(s)] \in Nat
  BY <1>3 DEF Pick
<1>5. IsFiniteSet(s) /\ Cardinality(s) \in Nat /\ Cardinality(s \ {Pick(s)}) = Cardinality(s) - 1
  BY <1>4, FS_Subset, FS_CardinalityType, FS_RemoveElement
<1>6. s \ {Pick(s)} \notin bad
  BY <1>1, <1>5
<1>7. iter[s \ {Pick(s)}] = CountOf(f, s \ {Pick(s)})
  BY <1>6
<1>8. IsFiniteSet(Units(f, s \ {Pick(s)}))
  BY UnitsAreFinite
<1>9. CountOf(f, s) = f[Pick(s)] + CountOf(f, s \ {Pick(s)})
  BY <1>4, <1>8, UnitsSplit
<1> QED
  BY <1>2, <1>3, <1>7, <1>9

(***************************************************************************)
(* So the sum of the community modules is the number of units.             *)
(***************************************************************************)
LEMMA SumIsCount ==
  ASSUME NEW S, IsFiniteSet(S), NEW f, \A x \in S : f[x] \in Nat
  PROVE  MapThenSumSet(LAMBDA x : f[x], S) = CountOf(f, S)
<1> DEFINE sum == CHOOSE iter : Sums(f, S, iter)
<1>1. MapThenSumSet(LAMBDA x : f[x], S) = sum[S]
  BY DEF MapThenSumSet, MapThenFoldSet, Pick, Sums
<1>2. Sums(f, S, sum)
  BY SumExists
<1> HIDE DEF sum
<1> QED
  BY <1>1, <1>2, SumsCount

(***************************************************************************)
(* How sums change.                                                        *)
(***************************************************************************)
LEMMA CountSame ==
  ASSUME NEW f, NEW g, NEW s, \A x \in s : f[x] = g[x]
  PROVE  CountOf(f, s) = CountOf(g, s)
<1>1. \A x \in s : UnitsOf(f, x) = UnitsOf(g, x)
  BY DEF UnitsOf
<1>2. Units(f, s) = Units(g, s)
  BY <1>1 DEF Units
<1> QED
  BY <1>2 DEF CountOf

LEMMA CountJoin ==
  ASSUME NEW s, IsFiniteSet(s), NEW x \in s, NEW f, \A y \in s : f[y] \in Nat
  PROVE  /\ CountOf(f, s) = f[x] + CountOf(f, s \ {x})
         /\ CountOf(f, s) \in Nat /\ CountOf(f, s \ {x}) \in Nat
<1>1. s \in SUBSET s /\ s \ {x} \in SUBSET s
  OBVIOUS
<1>2. /\ IsFiniteSet(Units(f, s \ {x}))
      /\ CountOf(f, s) \in Nat /\ CountOf(f, s \ {x}) \in Nat
  BY <1>1, UnitsAreFinite
<1>3. f[x] \in Nat
  OBVIOUS
<1>4. CountOf(f, s) = f[x] + CountOf(f, s \ {x})
  BY <1>2, <1>3, UnitsSplit
<1> QED
  BY <1>2, <1>4

LEMMA CountChange ==
  ASSUME NEW s, IsFiniteSet(s), NEW x \in s,
         NEW f, \A y \in s : f[y] \in Nat, NEW g, g[x] \in Nat,
         \A y \in s \ {x} : g[y] = f[y]
  PROVE  CountOf(g, s) - g[x] = CountOf(f, s) - f[x] /\ CountOf(g, s) \in Nat
<1>1. CountOf(f, s) = f[x] + CountOf(f, s \ {x}) /\ CountOf(f, s \ {x}) \in Nat
  BY CountJoin
<1>2. \A y \in s : g[y] \in Nat
  OBVIOUS
<1>3. CountOf(g, s) = g[x] + CountOf(g, s \ {x}) /\ CountOf(g, s) \in Nat
  BY <1>2, CountJoin
<1>4. CountOf(g, s \ {x}) = CountOf(f, s \ {x})
  BY CountSame
<1> QED
  BY <1>1, <1>3, <1>4

LEMMA CountNothing ==
  ASSUME NEW f, NEW s, \A x \in s : f[x] = 0
  PROVE  CountOf(f, s) = 0
<1>1. 1 .. 0 = {}
  OBVIOUS
<1>2. Units(f, s) = {}
  BY <1>1 DEF Units, UnitsOf
<1> QED
  BY <1>2, FS_EmptySet DEF CountOf

LEMMA CountAtMost ==
  ASSUME NEW S, IsFiniteSet(S), NEW f, \A x \in S : f[x] \in Nat, NEW s \in SUBSET S
  PROVE  CountOf(f, s) <= CountOf(f, S)
<1>1. Units(f, s) \in SUBSET Units(f, S)
  BY DEF Units
<1>2. IsFiniteSet(Units(f, S))
  BY UnitsAreFinite
<1> QED
  BY <1>1, <1>2, FS_Subset DEF CountOf

LEMMA CountSupport ==
  ASSUME NEW f, NEW S, NEW s \in SUBSET S, \A x \in S \ s : f[x] = 0
  PROVE  CountOf(f, S) = CountOf(f, s)
<1>1. 1 .. 0 = {}
  OBVIOUS
<1>2. \A x \in S \ s : UnitsOf(f, x) = {}
  BY <1>1 DEF UnitsOf
<1>3. Units(f, S) = Units(f, s)
  BY <1>2 DEF Units
<1> QED
  BY <1>3 DEF CountOf

LEMMA CountUnion ==
  ASSUME NEW f, NEW s, IsFiniteSet(s), NEW t, IsFiniteSet(t), s \cap t = {},
         \A x \in s \cup t : f[x] \in Nat
  PROVE  CountOf(f, s \cup t) = CountOf(f, s) + CountOf(f, t)
<1>1. IsFiniteSet(Units(f, s)) /\ IsFiniteSet(Units(f, t))
  BY UnitsAreFinite
<1>2. Units(f, s \cup t) = Units(f, s) \cup Units(f, t)
  BY DEF Units
<1>3. Units(f, s) \cap Units(f, t) = {}
  BY DEF Units, UnitsOf
<1>4. /\ Cardinality(Units(f, s)) \in Nat /\ Cardinality(Units(f, t)) \in Nat
      /\ Cardinality(Units(f, s) \cup Units(f, t))
           = Cardinality(Units(f, s)) + Cardinality(Units(f, t)) - Cardinality({})
  BY <1>1, <1>3, FS_Union, FS_CardinalityType
<1>5. Cardinality({}) = 0
  BY FS_EmptySet
<1>6. Cardinality(Units(f, s) \cup Units(f, t)) = Cardinality(Units(f, s)) + Cardinality(Units(f, t))
  BY <1>4, <1>5
<1> QED
  BY <1>2, <1>6 DEF CountOf

LEMMA OnesCount ==
  ASSUME NEW S, IsFiniteSet(S), NEW f, \A x \in S : f[x] = 1
  PROVE  CountOf(f, S) = Cardinality(S)
<1>1. \A x \in S : UnitsOf(f, x) = {x} \X (1 .. 1)
  BY DEF UnitsOf
<1>2. Units(f, S) = S \X (1 .. 1)
  BY <1>1 DEF Units
<1>3. IsFiniteSet(1 .. 1) /\ Cardinality(1 .. 1) = 1
  <2>1. 1 .. 1 = {1}
    OBVIOUS
  <2>2. IsFiniteSet({1}) /\ Cardinality({1}) = 1
    BY FS_Singleton
  <2> QED
    BY <2>1, <2>2
<1>4. Cardinality(S \X (1 .. 1)) = Cardinality(S) * 1 /\ Cardinality(S) \in Nat
  BY <1>3, FS_Product, FS_CardinalityType
<1> QED
  BY <1>2, <1>4 DEF CountOf

(***************************************************************************)
(* A sum can be taken group by group: what the members of S add up to is   *)
(* what their groups do, a group being the members with one key.           *)
(***************************************************************************)
GroupedBy(s, key, k) == {x \in s : key[x] = k}

LEMMA GroupsAddUp ==
  ASSUME NEW S, IsFiniteSet(S), NEW K, IsFiniteSet(K), NEW key, \A x \in S : key[x] \in K,
         NEW f, \A x \in S : f[x] \in Nat,
         NEW g, \A k \in K : g[k] = CountOf(f, GroupedBy(S, key, k))
  PROVE  CountOf(g, K) = CountOf(f, S)
<1> DEFINE Group(s, k) == GroupedBy(s, key, k)
           Sizes(s) == [k \in K |-> CountOf(f, Group(s, k))]
           bad == {s \in SUBSET S : CountOf(Sizes(s), K) # CountOf(f, s)}
<1>1. ASSUME bad # {} PROVE FALSE
  <2>1. PICK s \in bad : \A t \in bad : Cardinality(s) <= Cardinality(t)
    BY <1>1, SmallestSubset
  <2>2. s # {}
    <3>1. ASSUME s = {} PROVE FALSE
      <4>1. \A k \in K : Sizes(s)[k] = 0
        <5>1. \A k \in K : Group(s, k) = {}
          BY <3>1 DEF GroupedBy
        <5> HIDE DEF Group
        <5> QED
          BY <5>1, NoUnits
      <4>2. CountOf(Sizes(s), K) = 0
        <5> HIDE DEF Sizes
        <5> QED
          BY <4>1, CountNothing
      <4> QED
        BY <3>1, <4>2, NoUnits
    <3> QED
      BY <3>1
  <2>3. PICK x \in s : TRUE
    BY <2>2
  <2> DEFINE r == s \ {x}
             k == key[x]
  <2>4. /\ IsFiniteSet(s) /\ Cardinality(s) \in Nat /\ Cardinality(r) = Cardinality(s) - 1
        /\ r \in SUBSET S /\ x \in S /\ k \in K
    BY FS_Subset, FS_CardinalityType, FS_RemoveElement
  <2>5. CountOf(Sizes(r), K) = CountOf(f, r)
    <3>1. r \notin bad
      <4> HIDE DEF bad, r
      <4> QED
        BY <2>1, <2>4
    <3> HIDE DEF r, Sizes
    <3> QED
      BY <2>4, <3>1
  <2>6. CountOf(f, s) = f[x] + CountOf(f, r) /\ CountOf(f, r) \in Nat
    BY <2>4, CountJoin
  <2>7. \A t \in SUBSET S : \A j \in K : CountOf(f, Group(t, j)) \in Nat
    <3>1. \A t \in SUBSET S : \A j \in K : Group(t, j) \in SUBSET S
      BY DEF GroupedBy
    <3> QED
      BY <3>1, UnitsAreFinite
  <2>8. CountOf(f, Group(s, k)) = f[x] + CountOf(f, Group(r, k))
    <3>1. Group(r, k) = Group(s, k) \ {x}
      BY DEF GroupedBy
    <3>2. x \in Group(s, k) /\ IsFiniteSet(Group(s, k)) /\ \A y \in Group(s, k) : f[y] \in Nat
      BY <2>4, FS_Subset DEF GroupedBy
    <3> HIDE DEF Group, r, k
    <3> QED
      BY <3>1, <3>2, CountJoin
  <2>9. \A j \in K \ {k} : Group(s, j) = Group(r, j)
    BY DEF GroupedBy
  <2>10. s \in SUBSET S
    BY <2>1
  <2> HIDE DEF Group, r, k
  <2>11. Sizes(s)[k] = f[x] + Sizes(r)[k] /\ Sizes(s)[k] \in Nat
    BY <2>4, <2>7, <2>8, <2>10
  <2>12. \A j \in K : Sizes(r)[j] \in Nat
    BY <2>4, <2>7
  <2>13. \A j \in K \ {k} : Sizes(s)[j] = Sizes(r)[j]
    BY <2>9
  <2> HIDE DEF Sizes
  <2>14. CountOf(Sizes(s), K) - Sizes(s)[k] = CountOf(Sizes(r), K) - Sizes(r)[k] /\ CountOf(Sizes(s), K) \in Nat
    BY <2>4, <2>11, <2>12, <2>13, CountChange
  <2>15. f[x] \in Nat /\ Sizes(r)[k] \in Nat
    BY <2>4, <2>12
  <2>16. CountOf(Sizes(s), K) = CountOf(f, s)
    BY <2>5, <2>6, <2>11, <2>14, <2>15
  <2>17. CountOf(Sizes(s), K) # CountOf(f, s)
    BY <2>1 DEF bad
  <2> QED
    BY <2>16, <2>17
<1>2. CountOf(Sizes(S), K) = CountOf(f, S)
  BY <1>1
<1>3. \A k \in K : g[k] = Sizes(S)[k]
  OBVIOUS
<1> HIDE DEF Sizes
<1>4. CountOf(g, K) = CountOf(Sizes(S), K)
  BY <1>3, CountSame
<1> QED
  BY <1>2, <1>4

\* So the sizes of the groups add up to the size of the set.
LEMMA GroupsCover ==
  ASSUME NEW S, IsFiniteSet(S), NEW K, IsFiniteSet(K), NEW key, \A x \in S : key[x] \in K,
         NEW g, \A k \in K : g[k] = Cardinality(GroupedBy(S, key, k))
  PROVE  CountOf(g, K) = Cardinality(S) /\ \A k \in K : g[k] \in Nat
<1> DEFINE one == [x \in S |-> 1]
<1>1. \A s \in SUBSET S : CountOf(one, s) = Cardinality(s)
  <2> TAKE s \in SUBSET S
  <2>1. IsFiniteSet(s) /\ \A x \in s : one[x] = 1
    BY FS_Subset
  <2> HIDE DEF one
  <2> QED
    BY <2>1, OnesCount
<1>2. \A k \in K : g[k] = CountOf(one, GroupedBy(S, key, k))
  <2>1. \A k \in K : GroupedBy(S, key, k) \in SUBSET S
    BY DEF GroupedBy
  <2> HIDE DEF one
  <2> QED
    BY <1>1, <2>1
<1>3. \A x \in S : one[x] \in Nat
  OBVIOUS
<1>4. \A k \in K : g[k] \in Nat
  BY FS_Subset, FS_CardinalityType DEF GroupedBy
<1> HIDE DEF one
<1>5. CountOf(g, K) = CountOf(one, S)
  BY <1>2, <1>3, GroupsAddUp
<1> QED
  BY <1>1, <1>4, <1>5
-----------------------------------------------------------------------------
(***************************************************************************)
(* Sets counted by their parts, and under a label each.                    *)
(***************************************************************************)
LEMMA ApartAddUp ==
  ASSUME NEW S, IsFiniteSet(S), NEW T, IsFiniteSet(T), S \cap T = {}
  PROVE  /\ IsFiniteSet(S \cup T) /\ Cardinality(S \cup T) = Cardinality(S) + Cardinality(T)
         /\ Cardinality(S) \in Nat /\ Cardinality(T) \in Nat
<1>1. Cardinality(S \cup T) = Cardinality(S) + Cardinality(T) - Cardinality(S \cap T) /\ IsFiniteSet(S \cup T)
  BY FS_Union
<1>2. Cardinality(S \cap T) = 0
  BY FS_EmptySet
<1>3. Cardinality(S) \in Nat /\ Cardinality(T) \in Nat
  BY FS_CardinalityType
<1> QED
  BY <1>1, <1>2, <1>3

Labelled(label, S) == {<<label[x], x>> : x \in S}

LEMMA LabelsCount ==
  ASSUME NEW S, IsFiniteSet(S), NEW label
  PROVE  IsFiniteSet(Labelled(label, S)) /\ Cardinality(Labelled(label, S)) = Cardinality(S)
<1> DEFINE f == [x \in S |-> <<label[x], x>>]
<1>1. f \in Surjection(S, Labelled(label, S))
  BY DEF Surjection, Labelled
<1>2. \A x \in S : f[x] = <<label[x], x>>
  OBVIOUS
<1>3. f \in [S -> Labelled(label, S)]
  BY <1>1 DEF Surjection
<1> HIDE DEF f
<1>4. \A x, y \in S : f[x] = f[y] => x = y
  BY <1>2
<1>5. f \in Injection(S, Labelled(label, S))
  BY <1>3, <1>4 DEF Injection, IsInjective
<1> QED
  BY <1>1, <1>5, FS_Surjection

\* What a column of finitely many rows holds.
ColumnOf(column, S) == {column[x] : x \in S}

LEMMA ColumnIsFinite ==
  ASSUME NEW S, IsFiniteSet(S), NEW column
  PROVE  IsFiniteSet(ColumnOf(column, S))
<1> DEFINE f == [x \in S |-> column[x]]
<1>1. f \in Surjection(S, ColumnOf(column, S))
  BY DEF Surjection, ColumnOf
<1> HIDE DEF f
<1> QED
  BY <1>1, FS_Surjection
==============================================================================
