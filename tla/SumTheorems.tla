------------------------------ MODULE SumTheorems ------------------------------
(***************************************************************************)
(* Facts about SumFunctionOnSet of the community module Functions: the     *)
(* sums of balances, amounts, stakes and votes in this project are all     *)
(* written with it.  The operator is a recursive function on the subsets   *)
(* of its index set, so each fact is an induction over a finite set.  The  *)
(* induction is taken from the well-foundedness of < on the naturals: a    *)
(* set that fails a claim and has the least cardinality among those that   *)
(* fail it (Least, Smaller).                                               *)
(***************************************************************************)
EXTENDS Integers, Functions, FiniteSetTheorems, WellFoundedInduction, TLAPS

(***************************************************************************)
(* The equation that SumFunctionOnSet solves on the subsets of an index    *)
(* set.                                                                    *)
(***************************************************************************)
Pick(s) == CHOOSE x \in s : TRUE

Equation(f, g, s) ==
    g[s] = IF s = {} THEN 0 ELSE f[Pick(s)] + g[s \ {Pick(s)}]

IsSum(f, S, g) ==
    g = [s \in SUBSET S |-> IF s = {} THEN 0 ELSE f[Pick(s)] + g[s \ {Pick(s)}]]

LEMMA Unfold ==
    \A f, S : SumFunctionOnSet(f, S) = (CHOOSE g : IsSum(f, S, g))[S]
BY DEF SumFunctionOnSet, FoldFunctionOnSet, MapThenFoldSet, IsSum, Pick

LEMMA PickIn == \A s : s # {} => Pick(s) \in s
BY DEF Pick

LEMMA IsSumEq ==
    \A f, S, g : IsSum(f, S, g)
        <=> g = [s \in SUBSET S |-> g[s]] /\ \A s \in SUBSET S : Equation(f, g, s)
<1> TAKE f, S, g
<1>1. ASSUME IsSum(f, S, g)
      PROVE  g = [s \in SUBSET S |-> g[s]] /\ \A s \in SUBSET S : Equation(f, g, s)
  <2>1. DOMAIN g = SUBSET S /\ g = [s \in SUBSET S |-> g[s]]
    BY <1>1 DEF IsSum
  <2>2. \A s \in SUBSET S :
            g[s] = [t \in SUBSET S |-> IF t = {} THEN 0
                                       ELSE f[Pick(t)] + g[t \ {Pick(t)}]][s]
    BY <1>1 DEF IsSum
  <2> QED
    BY <2>1, <2>2 DEF Equation
<1>2. ASSUME g = [s \in SUBSET S |-> g[s]], \A s \in SUBSET S : Equation(f, g, s)
      PROVE  IsSum(f, S, g)
  <2> DEFINE h == [t \in SUBSET S |-> IF t = {} THEN 0
                                      ELSE f[Pick(t)] + g[t \ {Pick(t)}]]
  <2>1. \A s \in SUBSET S : g[s] = h[s]
    BY <1>2 DEF Equation
  <2>2. [s \in SUBSET S |-> g[s]] = [s \in SUBSET S |-> h[s]]
    BY <2>1
  <2>3. h = [s \in SUBSET S |-> h[s]]
    OBVIOUS
  <2> QED
    BY <1>2, <2>2, <2>3 DEF IsSum
<1> QED
  BY <1>1, <1>2

--------------------------------------------------------------------------------
(***************************************************************************)
(* Induction.                                                              *)
(***************************************************************************)
LEMMA Least ==
    ASSUME NEW T, T \subseteq Nat, T # {}
    PROVE  \E n \in T : \A m \in T : n <= m
<1> DEFINE R == OpToRel(<, Nat)
<1>1. IsWellFoundedOn(R, Nat)
  BY NatLessThanWellFounded
<1>2. \A x, y \in T : <<y, x>> \in R <=> y < x
  BY DEF OpToRel
<1> HIDE DEF R
<1>3. PICK x \in T : \A y \in T : ~(<<y, x>> \in R)
  BY <1>1, WFMin
<1>4. \A y \in T : ~(y < x)
  BY <1>2, <1>3
<1> QED
  BY <1>4

LEMMA Counting ==
    ASSUME NEW S, 0 \in S, \A n \in S \cap Nat : n + 1 \in S
    PROVE  Nat \subseteq S
<1> SUFFICES ASSUME Nat \ S # {} PROVE FALSE
  OBVIOUS
<1>1. PICK n \in Nat \ S : \A m \in Nat \ S : n <= m
  BY Least
<1>2. n - 1 \in Nat /\ (n - 1) + 1 = n
  OBVIOUS
<1>3. n - 1 \in S \cap Nat
  BY <1>1, <1>2
<1> QED
  BY <1>2, <1>3

LEMMA Smaller ==
    ASSUME NEW S, IsFiniteSet(S), NEW Good,
           \A s \in SUBSET S : (\A t \in SUBSET s : t # s => t \in Good) => s \in Good
    PROVE  SUBSET S \subseteq Good
<1> SUFFICES ASSUME (SUBSET S) \ Good # {} PROVE FALSE
  OBVIOUS
<1> DEFINE Bad == (SUBSET S) \ Good
           T == {Cardinality(s) : s \in Bad}
<1>1. \A s \in SUBSET S : IsFiniteSet(s) /\ Cardinality(s) \in Nat
  BY FS_Subset, FS_CardinalityType
<1>2. T \subseteq Nat /\ T # {}
  BY <1>1
<1>3. \A s \in Bad : Cardinality(s) \in T
  OBVIOUS
<1>4. \A n \in T : \E s \in Bad : n = Cardinality(s)
  OBVIOUS
<1> HIDE DEF T
<1>5. PICK n \in T : \A m \in T : n <= m
  BY <1>2, Least
<1>6. PICK s \in Bad : n = Cardinality(s)
  BY <1>4, <1>5
<1>7. ASSUME NEW t \in SUBSET s, t # s PROVE t \in Good
  <2>1. Cardinality(t) <= Cardinality(s) /\ Cardinality(t) # Cardinality(s)
    BY <1>1, <1>7, FS_Subset
  <2>2. ~(n <= Cardinality(t))
    BY <2>1, <1>1, <1>6
  <2>3. t \notin Bad
    BY <2>2, <1>3, <1>5
  <2> QED
    BY <2>3
<1> QED
  BY <1>7
--------------------------------------------------------------------------------
(***************************************************************************)
(* The equation has one solution, so the sum of a set is the value of one  *)
(* element and the sum of the others.                                      *)
(***************************************************************************)
LEMMA Solvable ==
    ASSUME NEW f, NEW S, IsFiniteSet(S)
    PROVE  \E g : IsSum(f, S, g)
<1> DEFINE Solves(g, n) == \A s \in SUBSET S : Cardinality(s) <= n => Equation(f, g, s)
           N == {n \in Nat : \E g : Solves(g, n)}
<1>1. \A s \in SUBSET S : IsFiniteSet(s) /\ Cardinality(s) \in Nat /\ (Cardinality(s) = 0 <=> s = {})
  BY FS_Subset, FS_CardinalityType, FS_EmptySet
<1>2. 0 \in N
  <2> DEFINE g == [s \in SUBSET S |-> 0]
  <2>1. Solves(g, 0)
    BY <1>1 DEF Equation
  <2> QED
    BY <2>1
<1>3. ASSUME NEW n \in N PROVE n + 1 \in N
  <2>1. PICK g : Solves(g, n)
    OBVIOUS
  <2> DEFINE h == [s \in SUBSET S |-> IF Cardinality(s) <= n THEN g[s]
                                      ELSE f[Pick(s)] + g[s \ {Pick(s)}]]
  <2>2. ASSUME NEW s \in SUBSET S, Cardinality(s) <= n + 1 PROVE Equation(f, h, s)
    <3>1. CASE s = {}
      BY <3>1, <1>1, <2>1 DEF Equation
    <3>2. CASE s # {}
      <4>1. /\ s \ {Pick(s)} \in SUBSET S
            /\ Cardinality(s \ {Pick(s)}) = Cardinality(s) - 1
        BY <3>2, <1>1, PickIn, FS_RemoveElement
      <4>2. h[s \ {Pick(s)}] = g[s \ {Pick(s)}]
        BY <4>1, <2>2, <1>1
      <4>3. CASE Cardinality(s) <= n
        BY <4>2, <4>3, <2>1, <3>2 DEF Equation
      <4>4. CASE ~(Cardinality(s) <= n)
        BY <4>2, <4>4, <3>2 DEF Equation
      <4> QED
        BY <4>3, <4>4
    <3> QED
      BY <3>1, <3>2
  <2>3. Solves(h, n + 1)
    BY <2>2
  <2>4. \E k : Solves(k, n + 1)
    <3> HIDE DEF h
    <3> QED
      BY <2>3
  <2>5. n + 1 \in Nat
    OBVIOUS
  <2> QED
    BY <2>4, <2>5
<1>4. Nat \subseteq N
  BY <1>2, <1>3, Counting
<1>5. PICK g : Solves(g, Cardinality(S))
  BY <1>4, <1>1
<1>6. \A s \in SUBSET S : Equation(f, g, s)
  BY <1>5, <1>1, FS_Subset
<1> DEFINE h == [s \in SUBSET S |-> g[s]]
<1>7. h = [s \in SUBSET S |-> h[s]] /\ \A s \in SUBSET S : Equation(f, h, s)
  BY <1>6, PickIn DEF Equation
<1> QED
  BY <1>7, IsSumEq

LEMMA Unique ==
    ASSUME NEW f, NEW S, IsFiniteSet(S), NEW T \in SUBSET S, NEW g, IsSum(f, S, g), NEW h, IsSum(f, T, h)
    PROVE  g[T] = h[T]
<1> DEFINE Good == {s \in SUBSET T : g[s] = h[s]}
<1>1. ASSUME NEW s \in SUBSET T, \A t \in SUBSET s : t # s => t \in Good PROVE s \in Good
  <2>1. Equation(f, g, s) /\ Equation(f, h, s)
    BY IsSumEq
  <2>2. CASE s = {}
    BY <2>1, <2>2 DEF Equation
  <2>3. CASE s # {}
    <3>1. s \ {Pick(s)} \in Good
      BY <2>3, <1>1, PickIn
    <3> QED
      BY <3>1, <2>1, <2>3 DEF Equation
  <2> QED
    BY <2>2, <2>3
<1>2. IsFiniteSet(T)
  BY FS_Subset
<1> HIDE DEF Good
<1>3. T \in Good
  BY <1>1, <1>2, Smaller
<1> QED
  BY <1>3 DEF Good

LEMMA SumStep ==
    ASSUME NEW f, NEW S, IsFiniteSet(S)
    PROVE  SumFunctionOnSet(f, S) = IF S = {} THEN 0 ELSE f[Pick(S)] + SumFunctionOnSet(f, S \ {Pick(S)})
<1> DEFINE R == S \ {Pick(S)}
           g == CHOOSE g : IsSum(f, S, g)
           h == CHOOSE h : IsSum(f, R, h)
<1>1. IsFiniteSet(R)
  BY FS_Subset
<1>2. IsSum(f, S, g) /\ IsSum(f, R, h)
  BY <1>1, Solvable
<1>3. SumFunctionOnSet(f, S) = g[S] /\ SumFunctionOnSet(f, R) = h[R]
  BY Unfold
<1> HIDE DEF g, h
<1>4. g[R] = h[R]
  BY <1>2, Unique
<1>5. Equation(f, g, S)
  BY <1>2, IsSumEq
<1> QED
  BY <1>3, <1>4, <1>5 DEF Equation

--------------------------------------------------------------------------------
(***************************************************************************)
(* The facts the other modules cite.                                       *)
(***************************************************************************)
LEMMA SumEmpty == \A f : SumFunctionOnSet(f, {}) = 0
<1>1. IsFiniteSet({})
  BY FS_EmptySet
<1> QED
  BY <1>1, SumStep

LEMMA SumInt ==
    ASSUME NEW S, IsFiniteSet(S), NEW f, \A x \in S : f[x] \in Int
    PROVE  SumFunctionOnSet(f, S) \in Int
<1> DEFINE Good == {s \in SUBSET S : SumFunctionOnSet(f, s) \in Int}
<1>1. ASSUME NEW s \in SUBSET S, \A t \in SUBSET s : t # s => t \in Good
      PROVE  s \in Good
  <2>1. IsFiniteSet(s)
    BY FS_Subset
  <2>2. CASE s = {}
    BY <2>2, SumEmpty
  <2>3. CASE s # {}
    <3>1. s \ {Pick(s)} \in Good /\ Pick(s) \in s
      BY <2>3, <1>1, PickIn
    <3>2. SumFunctionOnSet(f, s) = f[Pick(s)] + SumFunctionOnSet(f, s \ {Pick(s)})
      BY <2>1, <2>3, SumStep
    <3>3. SumFunctionOnSet(f, s) \in Int
      BY <3>1, <3>2
    <3> QED
      BY <3>3
  <2> QED
    BY <2>2, <2>3
<1> HIDE DEF Good
<1>2. S \in Good
  BY <1>1, Smaller
<1> QED
  BY <1>2 DEF Good

LEMMA SumNat ==
    ASSUME NEW S, IsFiniteSet(S), NEW f, \A x \in S : f[x] \in Nat
    PROVE  SumFunctionOnSet(f, S) \in Nat
<1> DEFINE Good == {s \in SUBSET S : SumFunctionOnSet(f, s) \in Nat}
<1>1. ASSUME NEW s \in SUBSET S, \A t \in SUBSET s : t # s => t \in Good
      PROVE  s \in Good
  <2>1. IsFiniteSet(s)
    BY FS_Subset
  <2>2. CASE s = {}
    BY <2>2, SumEmpty
  <2>3. CASE s # {}
    <3>1. s \ {Pick(s)} \in Good /\ Pick(s) \in s
      BY <2>3, <1>1, PickIn
    <3>2. SumFunctionOnSet(f, s) = f[Pick(s)] + SumFunctionOnSet(f, s \ {Pick(s)})
      BY <2>1, <2>3, SumStep
    <3>3. SumFunctionOnSet(f, s) \in Nat
      BY <3>1, <3>2
    <3> QED
      BY <3>3
  <2> QED
    BY <2>2, <2>3
<1> HIDE DEF Good
<1>2. S \in Good
  BY <1>1, Smaller
<1> QED
  BY <1>2 DEF Good

(***************************************************************************)
(* The sum does not depend on the element that is taken first.             *)
(***************************************************************************)
LEMMA SumRemove ==
    ASSUME NEW S, IsFiniteSet(S), NEW f, \A x \in S : f[x] \in Int, NEW x \in S
    PROVE  SumFunctionOnSet(f, S) = f[x] + SumFunctionOnSet(f, S \ {x})
<1> DEFINE Good == {s \in SUBSET S : \A y \in s :
                       SumFunctionOnSet(f, s) = f[y] + SumFunctionOnSet(f, s \ {y})}
<1>1. \A s \in SUBSET S : IsFiniteSet(s) /\ SumFunctionOnSet(f, s) \in Int
  BY FS_Subset, SumInt
<1>2. ASSUME NEW s \in SUBSET S, \A t \in SUBSET s : t # s => t \in Good
      PROVE  s \in Good
  <2>1. ASSUME NEW y \in s
        PROVE  SumFunctionOnSet(f, s) = f[y] + SumFunctionOnSet(f, s \ {y})
    <3> DEFINE p == Pick(s)
    <3>1. p \in s
      BY PickIn
    <3>2. SumFunctionOnSet(f, s) = f[p] + SumFunctionOnSet(f, s \ {p})
      BY <1>1, SumStep
    <3> HIDE DEF p
    <3>3. CASE p = y
      BY <3>2, <3>3
    <3>4. CASE p # y
      <4> DEFINE r == s \ {p, y}
      <4>1. s \ {p} \in Good /\ s \ {y} \in Good
        BY <1>2, <3>1
      <4>2. SumFunctionOnSet(f, s \ {p}) = f[y] + SumFunctionOnSet(f, (s \ {p}) \ {y})
        BY <4>1, <3>4
      <4>3. SumFunctionOnSet(f, s \ {y}) = f[p] + SumFunctionOnSet(f, (s \ {y}) \ {p})
        BY <4>1, <3>1, <3>4
      <4>4. (s \ {p}) \ {y} = r /\ (s \ {y}) \ {p} = r /\ r \in SUBSET S
        OBVIOUS
      <4>5. SumFunctionOnSet(f, r) \in Int /\ f[p] \in Int /\ f[y] \in Int
        BY <1>1, <4>4, <3>1
      <4>6. SumFunctionOnSet(f, s) = f[p] + (f[y] + SumFunctionOnSet(f, r))
        BY <3>2, <4>2, <4>4
      <4>7. SumFunctionOnSet(f, s \ {y}) = f[p] + SumFunctionOnSet(f, r)
        BY <4>3, <4>4
      <4> HIDE DEF r
      <4> QED
        BY <4>5, <4>6, <4>7
    <3> QED
      BY <3>3, <3>4
  <2> QED
    BY <2>1
<1> HIDE DEF Good
<1>3. IsFiniteSet(S)
  OBVIOUS
<1>4. S \in Good
  BY <1>2, <1>3, Smaller
<1> QED
  BY <1>4 DEF Good

LEMMA SumAdd ==
    ASSUME NEW S, IsFiniteSet(S), NEW x, x \notin S, NEW f,
           \A y \in S \cup {x} : f[y] \in Int
    PROVE  SumFunctionOnSet(f, S \cup {x}) = f[x] + SumFunctionOnSet(f, S)
<1>1. IsFiniteSet(S \cup {x}) /\ (S \cup {x}) \ {x} = S
  BY FS_AddElement
<1> QED
  BY <1>1, SumRemove

(***************************************************************************)
(* Two functions that agree on the index set have the same sum.            *)
(***************************************************************************)
LEMMA SumSame ==
    ASSUME NEW S, IsFiniteSet(S), NEW f, NEW g, \A x \in S : f[x] = g[x]
    PROVE  SumFunctionOnSet(f, S) = SumFunctionOnSet(g, S)
<1> DEFINE Good == {s \in SUBSET S : SumFunctionOnSet(f, s) = SumFunctionOnSet(g, s)}
<1>1. ASSUME NEW s \in SUBSET S, \A t \in SUBSET s : t # s => t \in Good
      PROVE  s \in Good
  <2>1. IsFiniteSet(s)
    BY FS_Subset
  <2>2. CASE s = {}
    BY <2>2, SumEmpty
  <2>3. CASE s # {}
    <3>1. s \ {Pick(s)} \in Good /\ Pick(s) \in s
      BY <2>3, <1>1, PickIn
    <3>2. /\ SumFunctionOnSet(f, s) = f[Pick(s)] + SumFunctionOnSet(f, s \ {Pick(s)})
          /\ SumFunctionOnSet(g, s) = g[Pick(s)] + SumFunctionOnSet(g, s \ {Pick(s)})
      BY <2>1, <2>3, SumStep
    <3>3. SumFunctionOnSet(f, s) = SumFunctionOnSet(g, s)
      BY <3>1, <3>2
    <3> QED
      BY <3>3
  <2> QED
    BY <2>2, <2>3
<1> HIDE DEF Good
<1>2. S \in Good
  BY <1>1, Smaller
<1> QED
  BY <1>2 DEF Good

(***************************************************************************)
(* Changing one value changes the sum by the difference.                   *)
(***************************************************************************)
ChangedAt(f, g, S, x) ==
    /\ IsFiniteSet(S) /\ x \in S
    /\ \A y \in S : f[y] \in Int /\ g[y] \in Int
    /\ \A y \in S : y # x => f[y] = g[y]

LEMMA SumUpdate ==
    \A S, f, g, x : ChangedAt(f, g, S, x)
        => SumFunctionOnSet(g, S) = SumFunctionOnSet(f, S) - f[x] + g[x]
<1> SUFFICES ASSUME NEW S, NEW f, NEW g, NEW x, ChangedAt(f, g, S, x)
             PROVE  SumFunctionOnSet(g, S) = SumFunctionOnSet(f, S) - f[x] + g[x]
  OBVIOUS
<1> USE DEF ChangedAt
<1>1. IsFiniteSet(S \ {x})
  BY FS_Subset
<1>2. SumFunctionOnSet(f, S \ {x}) = SumFunctionOnSet(g, S \ {x})
  BY <1>1, SumSame
<1>3. SumFunctionOnSet(f, S \ {x}) \in Int
  BY <1>1, SumInt
<1>4. SumFunctionOnSet(f, S) = f[x] + SumFunctionOnSet(f, S \ {x})
  BY SumRemove
<1>5. SumFunctionOnSet(g, S) = g[x] + SumFunctionOnSet(g, S \ {x})
  BY SumRemove
<1>6. f[x] \in Int /\ g[x] \in Int
  OBVIOUS
<1> QED
  BY <1>2, <1>3, <1>4, <1>5, <1>6

(***************************************************************************)
(* The sum of a union of disjoint sets is the sum of the two sums.         *)
(***************************************************************************)
LEMMA SumUnion ==
    ASSUME NEW S, IsFiniteSet(S), NEW T, IsFiniteSet(T), S \cap T = {},
           NEW f, \A x \in S \cup T : f[x] \in Int
    PROVE  SumFunctionOnSet(f, S \cup T) = SumFunctionOnSet(f, S) + SumFunctionOnSet(f, T)
<1> DEFINE Good == {s \in SUBSET T : SumFunctionOnSet(f, S \cup s)
                        = SumFunctionOnSet(f, S) + SumFunctionOnSet(f, s)}
<1>1. SumFunctionOnSet(f, S) \in Int
  BY SumInt
<1>2. ASSUME NEW s \in SUBSET T, \A t \in SUBSET s : t # s => t \in Good
      PROVE  s \in Good
  <2>1. IsFiniteSet(s)
    BY FS_Subset
  <2>2. CASE s = {}
    <3>1. S \cup s = S /\ SumFunctionOnSet(f, s) = 0
      BY <2>2, SumEmpty
    <3>2. SumFunctionOnSet(f, S \cup s) = SumFunctionOnSet(f, S) + SumFunctionOnSet(f, s)
      BY <3>1, <1>1
    <3> QED
      BY <3>2
  <2>3. CASE s # {}
    <3>1. PICK x \in s : TRUE
      BY <2>3
    <3> DEFINE r == s \ {x}
    <3>2. r \in Good /\ IsFiniteSet(r) /\ IsFiniteSet(S \cup r)
      BY <1>2, <2>1, FS_Subset, FS_Union
    <3>3. SumFunctionOnSet(f, s) = f[x] + SumFunctionOnSet(f, r)
      BY <2>1, SumRemove
    <3>4. S \cup s = (S \cup r) \cup {x} /\ x \notin S \cup r /\ (S \cup r) \cup {x} \subseteq S \cup T
      OBVIOUS
    <3>5. SumFunctionOnSet(f, S \cup s) = f[x] + SumFunctionOnSet(f, S \cup r)
      BY <3>2, <3>4, SumAdd
    <3>6. SumFunctionOnSet(f, r) \in Int /\ f[x] \in Int
      BY <3>2, SumInt
    <3>7. SumFunctionOnSet(f, S \cup r) = SumFunctionOnSet(f, S) + SumFunctionOnSet(f, r)
      BY <3>2
    <3>8. SumFunctionOnSet(f, S \cup s) = SumFunctionOnSet(f, S) + SumFunctionOnSet(f, s)
      BY <3>3, <3>5, <3>6, <3>7, <1>1
    <3> QED
      BY <3>8
  <2> QED
    BY <2>2, <2>3
<1> HIDE DEF Good
<1>3. T \in Good
  BY <1>2, Smaller
<1> QED
  BY <1>3 DEF Good

(***************************************************************************)
(* A larger function has a larger sum; a part of a sum of naturals is at   *)
(* most the whole.                                                         *)
(***************************************************************************)
LEMMA SumMonotone ==
    ASSUME NEW S, IsFiniteSet(S), NEW f, NEW g,
           \A x \in S : f[x] \in Int /\ g[x] \in Int /\ f[x] <= g[x]
    PROVE  SumFunctionOnSet(f, S) <= SumFunctionOnSet(g, S)
<1> DEFINE Good == {s \in SUBSET S : SumFunctionOnSet(f, s) <= SumFunctionOnSet(g, s)}
<1>1. ASSUME NEW s \in SUBSET S, \A t \in SUBSET s : t # s => t \in Good
      PROVE  s \in Good
  <2>1. IsFiniteSet(s)
    BY FS_Subset
  <2>2. CASE s = {}
    BY <2>2, SumEmpty
  <2>3. CASE s # {}
    <3>1. PICK x \in s : TRUE
      BY <2>3
    <3> DEFINE r == s \ {x}
    <3>2. r \in Good /\ IsFiniteSet(r) /\ r \in SUBSET S
      BY <1>1, <2>1, FS_Subset
    <3>3. SumFunctionOnSet(f, s) = f[x] + SumFunctionOnSet(f, r)
      BY <2>1, SumRemove
    <3>4. SumFunctionOnSet(g, s) = g[x] + SumFunctionOnSet(g, r)
      BY <2>1, SumRemove
    <3>5. SumFunctionOnSet(f, r) \in Int
      BY <3>2, SumInt
    <3>6. SumFunctionOnSet(g, r) \in Int
      BY <3>2, SumInt
    <3>7. f[x] \in Int /\ g[x] \in Int /\ f[x] <= g[x]
      OBVIOUS
    <3>8. SumFunctionOnSet(f, r) <= SumFunctionOnSet(g, r)
      BY <3>2
    <3>9. SumFunctionOnSet(f, s) <= SumFunctionOnSet(g, s)
      BY <3>3, <3>4, <3>5, <3>6, <3>7, <3>8
    <3> QED
      BY <3>9
  <2> QED
    BY <2>2, <2>3
<1> HIDE DEF Good
<1>2. S \in Good
  BY <1>1, Smaller
<1> QED
  BY <1>2 DEF Good

LEMMA SumPart ==
    ASSUME NEW S, IsFiniteSet(S), NEW f, \A x \in S : f[x] \in Nat, NEW T \in SUBSET S
    PROVE  SumFunctionOnSet(f, T) <= SumFunctionOnSet(f, S)
<1>1. IsFiniteSet(T) /\ IsFiniteSet(S \ T) /\ T \cap (S \ T) = {} /\ T \cup (S \ T) = S
  BY FS_Subset
<1>2. SumFunctionOnSet(f, T) \in Nat /\ SumFunctionOnSet(f, S \ T) \in Nat
  BY <1>1, SumNat
<1> DEFINE R == S \ T
<1>3. SumFunctionOnSet(f, T \cup R) = SumFunctionOnSet(f, T) + SumFunctionOnSet(f, R)
  <2>1. IsFiniteSet(R) /\ T \cap R = {} /\ \A x \in T \cup R : f[x] \in Int
    BY <1>1
  <2> HIDE DEF R
  <2> QED
    BY <1>1, <2>1, SumUnion
<1>4. T \cup R = S /\ SumFunctionOnSet(f, R) \in Nat
  BY <1>1, <1>2
<1> HIDE DEF R
<1> QED
  BY <1>2, <1>3, <1>4

(***************************************************************************)
(* What is zero adds nothing, so the sum over a part of a set is the sum   *)
(* over the set of the function that is zero outside that part.            *)
(***************************************************************************)
LEMMA SumZero ==
    ASSUME NEW S, IsFiniteSet(S), NEW f, \A x \in S : f[x] = 0
    PROVE  SumFunctionOnSet(f, S) = 0
<1> DEFINE Good == {s \in SUBSET S : SumFunctionOnSet(f, s) = 0}
<1>1. ASSUME NEW s \in SUBSET S, \A t \in SUBSET s : t # s => t \in Good
      PROVE  s \in Good
  <2>1. IsFiniteSet(s)
    BY FS_Subset
  <2>2. CASE s = {}
    BY <2>2, SumEmpty
  <2>3. CASE s # {}
    <3>1. s \ {Pick(s)} \in Good /\ Pick(s) \in s
      BY <2>3, <1>1, PickIn
    <3>2. SumFunctionOnSet(f, s) = f[Pick(s)] + SumFunctionOnSet(f, s \ {Pick(s)})
      BY <2>1, <2>3, SumStep
    <3>3. SumFunctionOnSet(f, s) = 0
      BY <3>1, <3>2
    <3> QED
      BY <3>3
  <2> QED
    BY <2>2, <2>3
<1> HIDE DEF Good
<1>2. S \in Good
  BY <1>1, Smaller
<1> QED
  BY <1>2 DEF Good

LEMMA SumSupport ==
    ASSUME NEW S, IsFiniteSet(S), NEW T \in SUBSET S, NEW f, NEW g,
           \A x \in T : f[x] \in Int /\ g[x] = f[x],
           \A x \in S \ T : g[x] = 0
    PROVE  SumFunctionOnSet(g, S) = SumFunctionOnSet(f, T)
<1> DEFINE R == S \ T
<1>1. IsFiniteSet(T) /\ IsFiniteSet(R) /\ T \cap R = {} /\ T \cup R = S
  BY FS_Subset
<1>2. \A x \in T \cup R : g[x] \in Int
  OBVIOUS
<1>3. \A x \in R : g[x] = 0
  OBVIOUS
<1> HIDE DEF R
<1>4. SumFunctionOnSet(g, T \cup R) = SumFunctionOnSet(g, T) + SumFunctionOnSet(g, R)
  BY <1>1, <1>2, SumUnion
<1>5. SumFunctionOnSet(g, R) = 0
  BY <1>1, <1>3, SumZero
<1>6. SumFunctionOnSet(g, T) = SumFunctionOnSet(f, T)
  BY <1>1, SumSame
<1>7. SumFunctionOnSet(f, T) \in Int
  BY <1>1, SumInt
<1>8. SumFunctionOnSet(g, T \cup R) = SumFunctionOnSet(g, S)
  BY <1>1
<1> QED
  BY <1>4, <1>5, <1>6, <1>7, <1>8

(***************************************************************************)
(* The sum of two functions, and the sum over parts: what the parts of a   *)
(* set hold, counted part by part.                                         *)
(***************************************************************************)
LEMMA SumPlus ==
    ASSUME NEW S, IsFiniteSet(S), NEW f, NEW g, NEW h,
           \A x \in S : f[x] \in Int /\ g[x] \in Int /\ h[x] = f[x] + g[x]
    PROVE  SumFunctionOnSet(h, S) = SumFunctionOnSet(f, S) + SumFunctionOnSet(g, S)
<1> DEFINE Good == {s \in SUBSET S : SumFunctionOnSet(h, s)
                        = SumFunctionOnSet(f, s) + SumFunctionOnSet(g, s)}
<1>1. ASSUME NEW s \in SUBSET S, \A t \in SUBSET s : t # s => t \in Good
      PROVE  s \in Good
  <2>1. IsFiniteSet(s)
    BY FS_Subset
  <2>2. CASE s = {}
    BY <2>2, SumEmpty
  <2>3. CASE s # {}
    <3>1. PICK x \in s : TRUE
      BY <2>3
    <3> DEFINE r == s \ {x}
    <3>2. r \in Good /\ IsFiniteSet(r) /\ r \in SUBSET S
      BY <1>1, <2>1, FS_Subset
    <3>3. SumFunctionOnSet(f, s) = f[x] + SumFunctionOnSet(f, r)
      BY <2>1, SumRemove
    <3>4. SumFunctionOnSet(g, s) = g[x] + SumFunctionOnSet(g, r)
      BY <2>1, SumRemove
    <3>5. SumFunctionOnSet(h, s) = h[x] + SumFunctionOnSet(h, r)
      <4>1. \A y \in s : h[y] \in Int
        OBVIOUS
      <4> QED
        BY <2>1, <4>1, SumRemove
    <3>6. SumFunctionOnSet(f, r) \in Int
      BY <3>2, SumInt
    <3>7. SumFunctionOnSet(g, r) \in Int
      BY <3>2, SumInt
    <3>8. f[x] \in Int /\ g[x] \in Int /\ h[x] = f[x] + g[x]
      OBVIOUS
    <3>9. SumFunctionOnSet(h, r) = SumFunctionOnSet(f, r) + SumFunctionOnSet(g, r)
      BY <3>2
    <3>10. SumFunctionOnSet(h, s) = SumFunctionOnSet(f, s) + SumFunctionOnSet(g, s)
      BY <3>3, <3>4, <3>5, <3>6, <3>7, <3>8, <3>9
    <3> QED
      BY <3>10
  <2> QED
    BY <2>2, <2>3
<1> HIDE DEF Good
<1>2. S \in Good
  BY <1>1, Smaller
<1> QED
  BY <1>2 DEF Good

\* P cuts D into parts, one for each member of T, and g sums f over each.
Parts(P, T, D, f, g) ==
    /\ IsFiniteSet(T) /\ IsFiniteSet(D)
    /\ \A x \in D : f[x] \in Int
    /\ \A t \in T : P[t] \subseteq D
    /\ \A s, t \in T : s # t => P[s] \cap P[t] = {}
    /\ \A t \in T : g[t] = SumFunctionOnSet(f, P[t])

LEMMA SumParts ==
    ASSUME NEW P, NEW T, NEW D, NEW f, NEW g, Parts(P, T, D, f, g)
    PROVE  SumFunctionOnSet(f, UNION {P[t] : t \in T}) = SumFunctionOnSet(g, T)
<1> DEFINE All(s) == UNION {P[t] : t \in s}
           Good == {s \in SUBSET T : SumFunctionOnSet(f, All(s)) = SumFunctionOnSet(g, s)}
<1>1. \A t \in T : IsFiniteSet(P[t]) /\ g[t] \in Int
  <2> TAKE t \in T
  <2>1. P[t] \subseteq D /\ IsFiniteSet(P[t])
    BY FS_Subset DEF Parts
  <2>2. \A x \in P[t] : f[x] \in Int
    BY <2>1 DEF Parts
  <2>3. g[t] = SumFunctionOnSet(f, P[t])
    BY DEF Parts
  <2> QED
    BY <2>1, <2>2, <2>3, SumInt
<1>2. ASSUME NEW s \in SUBSET T, \A t \in SUBSET s : t # s => t \in Good
      PROVE  s \in Good
  <2>1. IsFiniteSet(s)
    BY FS_Subset DEF Parts
  <2>2. CASE s = {}
    <3>1. All(s) = {}
      BY <2>2
    <3>2. SumFunctionOnSet(f, All(s)) = 0 /\ SumFunctionOnSet(g, s) = 0
      BY <2>2, <3>1, SumEmpty
    <3> QED
      BY <3>2
  <2>3. CASE s # {}
    <3>1. PICK t \in s : TRUE
      BY <2>3
    <3> DEFINE r == s \ {t}
    <3>2. r \in Good /\ IsFiniteSet(r)
      BY <1>2, <2>1, FS_Subset
    <3>3. All(s) = All(r) \cup P[t]
      OBVIOUS
    <3>4. All(r) \cap P[t] = {}
      BY DEF Parts
    <3>5. All(r) \subseteq D /\ P[t] \subseteq D
      BY DEF Parts
    <3>6. IsFiniteSet(All(r)) /\ IsFiniteSet(P[t])
      BY <3>5, FS_Subset DEF Parts
    <3>7. \A x \in All(r) \cup P[t] : f[x] \in Int
      BY <3>5 DEF Parts
    <3>8. SumFunctionOnSet(f, All(r)) = SumFunctionOnSet(g, r)
      BY <3>2
    <3>9. SumFunctionOnSet(g, s) = g[t] + SumFunctionOnSet(g, r)
      BY <1>1, <2>1, SumRemove
    <3>10. SumFunctionOnSet(g, r) \in Int /\ g[t] \in Int
      BY <1>1, <3>2, SumInt
    <3>11. g[t] = SumFunctionOnSet(f, P[t])
      BY DEF Parts
    <3> HIDE DEF r, Good, All
    <3>12. SumFunctionOnSet(f, All(s)) = SumFunctionOnSet(f, All(r)) + SumFunctionOnSet(f, P[t])
      BY <3>3, <3>4, <3>6, <3>7, SumUnion
    <3>13. SumFunctionOnSet(f, All(s)) = SumFunctionOnSet(g, s)
      BY <3>8, <3>9, <3>10, <3>11, <3>12
    <3> QED
      BY <3>13 DEF Good
  <2> QED
    BY <2>2, <2>3
<1> HIDE DEF Good
<1>3. IsFiniteSet(T)
  BY DEF Parts
<1>4. T \in Good
  BY <1>2, <1>3, Smaller
<1> QED
  BY <1>4 DEF Good
================================================================================
