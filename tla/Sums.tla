-------------------------------- MODULE Sums --------------------------------
(***************************************************************************)
(* What SumFunctionOnSet of the community modules adds up to: the sum over *)
(* no index is 0, and over one index more it is larger by the value of     *)
(* that index, in whatever order the definition takes the indices.  Money  *)
(* in the wallets is stated with this sum.                                 *)
(*                                                                         *)
(* An induction over finite sets is a search for the smallest set that is  *)
(* an exception (SmallestSet).                                             *)
(***************************************************************************)
EXTENDS Integers, Functions, FiniteSetTheorems, TLAPS

\* A set of natural numbers has a least element.
LEMMA LeastNumber ==
  ASSUME NEW K \in SUBSET Nat, K # {}
  PROVE  \E k \in K : \A l \in K : k <= l
<1>1. PICK k \in K : \A l \in K : <<l, k>> \notin OpToRel(<, Nat)
  BY NatLessThanWellFounded, WFMin
<1>2. \A l \in K : k <= l
  <2> TAKE l \in K
  <2>1. k \in Nat /\ l \in Nat
    OBVIOUS
  <2>2. ~(l < k)
    BY <1>1, <2>1 DEF OpToRel
  <2> QED
    BY <2>1, <2>2
<1> QED
  BY <1>2

LEMMA SmallestSet ==
  ASSUME NEW F, F # {}, \A s \in F : IsFiniteSet(s)
  PROVE  \E s \in F : \A t \in F : Cardinality(s) <= Cardinality(t)
<1> DEFINE K == {Cardinality(s) : s \in F}
<1>1. K \in SUBSET Nat /\ K # {}
  BY FS_CardinalityType
<1> HIDE DEF K
<1>2. PICK k \in K : \A l \in K : k <= l
  BY <1>1, LeastNumber
<1> QED
  BY <1>2 DEF K

\* The order in which the indices are taken, and the function the sum is
\* defined by.
Chosen(s) == CHOOSE x \in s : TRUE
Adds(h, g, s) == IF s = {} THEN 0 ELSE g[Chosen(s)] + h[s \ {Chosen(s)}]
IsSum(h, g, S) == h = [s \in SUBSET S |-> Adds(h, g, s)]

LEMMA ChosenFacts ==
  ASSUME NEW s, IsFiniteSet(s), s # {}
  PROVE  /\ Chosen(s) \in s /\ IsFiniteSet(s \ {Chosen(s)})
         /\ Cardinality(s) \in Nat /\ Cardinality(s \ {Chosen(s)}) = Cardinality(s) - 1
<1>1. Chosen(s) \in s
  BY DEF Chosen
<1> QED
  BY <1>1, FS_RemoveElement, FS_CardinalityType

LEMMA AddsExists ==
  ASSUME NEW S, IsFiniteSet(S), NEW g, \A x \in S : g[x] \in Int
  PROVE  \E h \in [SUBSET S -> Int] : IsSum(h, g, S)
<1> DEFINE Upto(h, k) == \A s \in SUBSET S : Cardinality(s) <= k => h[s] = Adds(h, g, s)
           Good(k) == \E h \in [SUBSET S -> Int] : Upto(h, k)
           Bad == {k \in Nat : ~Good(k)}
<1>1. \A s \in SUBSET S : IsFiniteSet(s) /\ Cardinality(s) \in Nat /\ Cardinality(s) <= Cardinality(S)
  BY FS_Subset, FS_CardinalityType
<1>2. Good(0)
  <2> DEFINE h == [s \in SUBSET S |-> 0]
  <2>1. h \in [SUBSET S -> Int]
    OBVIOUS
  <2>2. \A s \in SUBSET S : Cardinality(s) <= 0 => s = {}
    BY <1>1, FS_EmptySet
  <2>3. Upto(h, 0)
    BY <2>2 DEF Adds
  <2> QED
    BY <2>1, <2>3
<1>3. ASSUME NEW k \in Nat, Good(k) PROVE Good(k + 1)
  <2>1. PICK h \in [SUBSET S -> Int] : Upto(h, k)
    BY <1>3
  <2>2. PICK n : n = [s \in SUBSET S |-> Adds(h, g, s)]
    OBVIOUS
  <2>3. ASSUME NEW s \in SUBSET S, s # {}
        PROVE  Chosen(s) \in S /\ g[Chosen(s)] \in Int /\ s \ {Chosen(s)} \in SUBSET S
    BY <1>1, <2>3, ChosenFacts
  <2>4. \A s \in SUBSET S : Adds(h, g, s) \in Int
    <3> TAKE s \in SUBSET S
    <3>1. CASE s = {}
      BY <3>1 DEF Adds
    <3>2. CASE s # {}
      <4>1. g[Chosen(s)] \in Int /\ h[s \ {Chosen(s)}] \in Int
        BY <2>3, <3>2
      <4> QED
        BY <3>2, <4>1 DEF Adds
    <3> QED
      BY <3>1, <3>2
  <2>5. n \in [SUBSET S -> Int]
    BY <2>2, <2>4
  <2>6. Upto(n, k + 1)
    <3> SUFFICES ASSUME NEW s \in SUBSET S, Cardinality(s) <= k + 1 PROVE n[s] = Adds(n, g, s)
      OBVIOUS
    <3>1. CASE s = {}
      BY <2>2, <3>1 DEF Adds
    <3>2. CASE s # {}
      <4> DEFINE r == s \ {Chosen(s)}
      <4>1. r \in SUBSET S /\ Cardinality(r) <= k
        BY <1>1, <2>3, <3>2, ChosenFacts
      <4>2. n[r] = h[r]
        <5>1. h[r] = Adds(h, g, r)
          BY <2>1, <4>1
        <5> QED
          BY <2>2, <4>1, <5>1
      <4>3. n[s] = g[Chosen(s)] + h[r]
        BY <2>2, <3>2 DEF Adds
      <4> QED
        BY <3>2, <4>2, <4>3 DEF Adds
    <3> QED
      BY <3>1, <3>2
  <2> QED
    BY <2>5, <2>6
<1> HIDE DEF Good
<1>4. Bad = {}
  <2> SUFFICES ASSUME Bad # {} PROVE FALSE
    OBVIOUS
  <2>1. PICK k \in Bad : \A l \in Bad : <<l, k>> \notin OpToRel(<, Nat)
    <3>1. Bad \in SUBSET Nat
      OBVIOUS
    <3> QED
      BY <3>1, NatLessThanWellFounded, WFMin
  <2>2. k \in Nat /\ ~Good(k) /\ k # 0
    BY <1>2
  <2>3. k - 1 \in Nat /\ k - 1 < k /\ (k - 1) + 1 = k
    BY <2>2
  <2>4. k - 1 \notin Bad
    BY <2>1, <2>2, <2>3 DEF OpToRel
  <2>5. Good(k - 1)
    BY <2>3, <2>4
  <2> QED
    BY <1>3, <2>2, <2>3, <2>5
<1>5. Good(Cardinality(S))
  BY <1>4, FS_CardinalityType
<1>6. PICK h \in [SUBSET S -> Int] : Upto(h, Cardinality(S))
  BY <1>5 DEF Good
<1>7. \A s \in SUBSET S : h[s] = Adds(h, g, s)
  BY <1>1, <1>6
<1> QED
  BY <1>7 DEF IsSum

LEMMA SumDef ==
  ASSUME NEW S, IsFiniteSet(S), NEW g, \A x \in S : g[x] \in Int
  PROVE  \E h \in [SUBSET S -> Int] :
           /\ IsSum(h, g, S)
           /\ SumFunctionOnSet(g, S) = h[S]
<1>1. PICK h \in [SUBSET S -> Int] : IsSum(h, g, S)
  BY AddsExists
<1> DEFINE sum == CHOOSE f : IsSum(f, g, S)
<1>2. SumFunctionOnSet(g, S) = sum[S]
  BY Zenon DEF SumFunctionOnSet, FoldFunctionOnSet, MapThenFoldSet, IsSum, Adds, Chosen
<1>3. IsSum(sum, g, S)
  BY <1>1
<1> HIDE DEF sum
<1>4. \A s \in SUBSET S : sum[s] = Adds(sum, g, s) /\ h[s] = Adds(h, g, s)
  BY <1>1, <1>3 DEF IsSum
<1> DEFINE Bad == {s \in SUBSET S : sum[s] # h[s]}
<1>5. Bad = {}
  <2> SUFFICES ASSUME Bad # {} PROVE FALSE
    OBVIOUS
  <2>1. \A s \in Bad : IsFiniteSet(s)
    BY FS_Subset
  <2>2. PICK s \in Bad : \A t \in Bad : Cardinality(s) <= Cardinality(t)
    BY <2>1, SmallestSet
  <2>3. s # {}
    BY <1>4 DEF Adds
  <2>4. /\ Chosen(s) \in s /\ Cardinality(s) \in Nat
        /\ Cardinality(s \ {Chosen(s)}) = Cardinality(s) - 1
    BY <2>1, <2>3, ChosenFacts
  <2>5. s \ {Chosen(s)} \notin Bad
    BY <2>2, <2>4
  <2>6. sum[s \ {Chosen(s)}] = h[s \ {Chosen(s)}]
    BY <2>5
  <2> QED
    BY <1>4, <2>3, <2>6 DEF Adds
<1>6. sum[S] = h[S]
  BY <1>5
<1> QED
  BY <1>1, <1>2, <1>6

-----------------------------------------------------------------------------
\* The sum over nothing, and what the definition adds first.
LEMMA SumFirst ==
  ASSUME NEW S, IsFiniteSet(S), NEW g, \A x \in S : g[x] \in Int
  PROVE  /\ SumFunctionOnSet(g, S) \in Int
         /\ SumFunctionOnSet(g, S) =
              IF S = {} THEN 0 ELSE g[Chosen(S)] + SumFunctionOnSet(g, S \ {Chosen(S)})
<1>1. PICK h \in [SUBSET S -> Int] :
        IsSum(h, g, S) /\ SumFunctionOnSet(g, S) = h[S]
  BY SumDef
<1>2. \A s \in SUBSET S : h[s] \in Int /\ h[s] = Adds(h, g, s)
  BY <1>1 DEF IsSum
<1>3. CASE S = {}
  BY <1>1, <1>2, <1>3 DEF Adds
<1>4. CASE S # {}
  <2> DEFINE T == S \ {Chosen(S)}
  <2>1. T \in SUBSET S /\ IsFiniteSet(T) /\ \A x \in T : g[x] \in Int
    BY <1>4, ChosenFacts
  <2>2. PICK k \in [SUBSET T -> Int] :
          IsSum(k, g, T) /\ SumFunctionOnSet(g, T) = k[T]
    BY <2>1, SumDef
  <2>3. \A s \in SUBSET T : s \in SUBSET S /\ k[s] = Adds(k, g, s)
    BY <2>1, <2>2 DEF IsSum
  <2> DEFINE Bad == {s \in SUBSET T : k[s] # h[s]}
  <2> HIDE DEF T
  <2>4. Bad = {}
    <3> SUFFICES ASSUME Bad # {} PROVE FALSE
      OBVIOUS
    <3>1. \A s \in Bad : IsFiniteSet(s)
      BY <2>1, FS_Subset
    <3>2. PICK s \in Bad : \A t \in Bad : Cardinality(s) <= Cardinality(t)
      BY <3>1, SmallestSet
    <3>3. s # {}
      BY <1>2, <2>3 DEF Adds
    <3>4. /\ Chosen(s) \in s /\ Cardinality(s) \in Nat
          /\ Cardinality(s \ {Chosen(s)}) = Cardinality(s) - 1
      BY <3>1, <3>3, ChosenFacts
    <3>5. s \ {Chosen(s)} \notin Bad
      BY <3>2, <3>4
    <3>6. k[s \ {Chosen(s)}] = h[s \ {Chosen(s)}]
      BY <3>5
    <3>7. k[s] = Adds(k, g, s) /\ h[s] = Adds(h, g, s)
      BY <1>2, <2>3
    <3> QED
      BY <3>3, <3>6, <3>7 DEF Adds
  <2>5. k[T] = h[T]
    BY <2>4
  <2>6. h[S] = g[Chosen(S)] + h[T]
    BY <1>2, <1>4 DEF Adds, T
  <2> QED
    BY <1>1, <1>2, <1>4, <2>2, <2>5, <2>6 DEF T
<1> QED
  BY <1>3, <1>4

\* Any index may be taken out.
LEMMA SumWithout ==
  ASSUME NEW S, IsFiniteSet(S), NEW g, \A x \in S : g[x] \in Int, NEW x \in S
  PROVE  SumFunctionOnSet(g, S) = SumFunctionOnSet(g, S \ {x}) + g[x]
<1> DEFINE Takes(s, y) == SumFunctionOnSet(g, s) = SumFunctionOnSet(g, s \ {y}) + g[y]
           Bad == {s \in SUBSET S : \E y \in s : ~Takes(s, y)}
<1>1. \A s \in SUBSET S : /\ IsFiniteSet(s) /\ \A y \in s : g[y] \in Int
                          /\ SumFunctionOnSet(g, s) \in Int
  <2> TAKE s \in SUBSET S
  <2>1. IsFiniteSet(s) /\ \A y \in s : g[y] \in Int
    BY FS_Subset
  <2> QED
    BY <2>1, SumFirst
<1>2. \A s \in SUBSET S : s # {} =>
        SumFunctionOnSet(g, s) = g[Chosen(s)] + SumFunctionOnSet(g, s \ {Chosen(s)})
  BY <1>1, SumFirst
<1>3. Bad = {}
  <2> SUFFICES ASSUME Bad # {} PROVE FALSE
    OBVIOUS
  <2>1. \A s \in Bad : IsFiniteSet(s)
    BY <1>1
  <2>2. PICK s \in Bad : \A t \in Bad : Cardinality(s) <= Cardinality(t)
    BY <2>1, SmallestSet
  <2>3. PICK y \in s : ~Takes(s, y)
    OBVIOUS
  <2> DEFINE f == Chosen(s)
  <2>4. f \in s /\ s \in SUBSET S /\ IsFiniteSet(s)
    BY <2>1, <2>3, ChosenFacts
  <2>5. \A z \in s : s \ {z} \notin Bad
    <3> TAKE z \in s
    <3>1. Cardinality(s \ {z}) = Cardinality(s) - 1 /\ Cardinality(s) \in Nat
      BY <2>4, FS_RemoveElement, FS_CardinalityType
    <3> QED
      BY <2>2, <3>1
  <2>6. SumFunctionOnSet(g, s) = g[f] + SumFunctionOnSet(g, s \ {f})
    BY <1>2, <2>3
  <2> HIDE DEF f
  <2>7. CASE y = f
    <3>1. g[f] \in Int /\ SumFunctionOnSet(g, s \ {f}) \in Int
      BY <1>1, <2>4
    <3> QED
      BY <2>3, <2>6, <2>7, <3>1
  <2>8. CASE y # f
    <3> DEFINE r == (s \ {f}) \ {y}
    <3>1. r = (s \ {y}) \ {f}
      OBVIOUS
    <3>2. /\ s \ {f} \in SUBSET S /\ s \ {y} \in SUBSET S /\ r \in SUBSET S
          /\ y \in s \ {f} /\ f \in s \ {y}
      BY <2>3, <2>4, <2>8
    <3>3. Takes(s \ {f}, y) /\ Takes(s \ {y}, f)
      BY <2>3, <2>4, <2>5, <3>2
    <3>4. /\ g[f] \in Int /\ g[y] \in Int /\ SumFunctionOnSet(g, s \ {f}) \in Int
          /\ SumFunctionOnSet(g, s \ {y}) \in Int /\ SumFunctionOnSet(g, r) \in Int
      BY <1>1, <2>4, <3>2
    <3>5. /\ SumFunctionOnSet(g, s \ {f}) = SumFunctionOnSet(g, r) + g[y]
          /\ SumFunctionOnSet(g, s \ {y}) = SumFunctionOnSet(g, r) + g[f]
      BY <3>1, <3>3
    <3> HIDE DEF r
    <3>6. SumFunctionOnSet(g, s) = SumFunctionOnSet(g, s \ {y}) + g[y]
      BY <2>6, <3>4, <3>5
    <3> QED
      BY <2>3, <3>6
  <2> QED
    BY <2>7, <2>8
<1> QED
  BY <1>3

\* The sum over one index more.
LEMMA SumWith ==
  ASSUME NEW S, IsFiniteSet(S), NEW x, x \notin S, NEW g, \A y \in S \cup {x} : g[y] \in Int
  PROVE  SumFunctionOnSet(g, S \cup {x}) = SumFunctionOnSet(g, S) + g[x]
<1>1. IsFiniteSet(S \cup {x}) /\ x \in S \cup {x} /\ (S \cup {x}) \ {x} = S
  BY FS_AddElement
<1> QED
  BY <1>1, SumWithout

\* Only the values of the indices count.
LEMMA SumAgrees ==
  ASSUME NEW S, IsFiniteSet(S), NEW g, NEW h, \A x \in S : g[x] \in Int /\ h[x] = g[x]
  PROVE  SumFunctionOnSet(h, S) = SumFunctionOnSet(g, S)
<1> DEFINE Bad == {s \in SUBSET S : SumFunctionOnSet(h, s) # SumFunctionOnSet(g, s)}
<1>1. \A s \in SUBSET S : IsFiniteSet(s) /\ \A x \in s : g[x] \in Int /\ h[x] \in Int
  BY FS_Subset
<1>2. \A s \in SUBSET S :
        /\ SumFunctionOnSet(g, s) = IF s = {} THEN 0 ELSE g[Chosen(s)] + SumFunctionOnSet(g, s \ {Chosen(s)})
        /\ SumFunctionOnSet(h, s) = IF s = {} THEN 0 ELSE h[Chosen(s)] + SumFunctionOnSet(h, s \ {Chosen(s)})
  BY <1>1, SumFirst
<1>3. Bad = {}
  <2> SUFFICES ASSUME Bad # {} PROVE FALSE
    OBVIOUS
  <2>1. \A s \in Bad : IsFiniteSet(s)
    BY <1>1
  <2>2. PICK s \in Bad : \A t \in Bad : Cardinality(s) <= Cardinality(t)
    BY <2>1, SmallestSet
  <2>3. s # {}
    BY <1>2
  <2>4. /\ Chosen(s) \in s /\ Cardinality(s) \in Nat
        /\ Cardinality(s \ {Chosen(s)}) = Cardinality(s) - 1
    BY <2>1, <2>3, ChosenFacts
  <2>5. s \ {Chosen(s)} \notin Bad
    BY <2>2, <2>4
  <2>6. SumFunctionOnSet(h, s \ {Chosen(s)}) = SumFunctionOnSet(g, s \ {Chosen(s)})
    BY <2>5
  <2>7. h[Chosen(s)] = g[Chosen(s)]
    BY <2>4
  <2> QED
    BY <1>2, <2>3, <2>6, <2>7
<1> QED
  BY <1>3
\* Over fewer indices the sum of what is not negative is not larger.
LEMMA SumWithin ==
  ASSUME NEW S, IsFiniteSet(S), NEW g, \A x \in S : g[x] \in Nat, NEW T \in SUBSET S
  PROVE  SumFunctionOnSet(g, T) <= SumFunctionOnSet(g, S)
<1> DEFINE Bad == {s \in SUBSET S : \E t \in SUBSET s : ~(SumFunctionOnSet(g, t) <= SumFunctionOnSet(g, s))}
<1>1. \A s \in SUBSET S : IsFiniteSet(s) /\ \A x \in s : g[x] \in Int
  BY FS_Subset
<1>2. \A s \in SUBSET S : SumFunctionOnSet(g, s) \in Int
  BY <1>1, SumFirst
<1>3. Bad = {}
  <2> SUFFICES ASSUME Bad # {} PROVE FALSE
    OBVIOUS
  <2>1. \A s \in Bad : IsFiniteSet(s)
    BY <1>1
  <2>2. PICK s \in Bad : \A r \in Bad : Cardinality(s) <= Cardinality(r)
    BY <2>1, SmallestSet
  <2>3. PICK t \in SUBSET s : ~(SumFunctionOnSet(g, t) <= SumFunctionOnSet(g, s))
    OBVIOUS
  <2>4. PICK x \in s : x \notin t
    BY <1>2, <2>3
  <2>5. Cardinality(s \ {x}) = Cardinality(s) - 1 /\ Cardinality(s) \in Nat
    BY <2>1, FS_RemoveElement, FS_CardinalityType
  <2>6. s \ {x} \notin Bad /\ s \ {x} \in SUBSET S /\ t \in SUBSET (s \ {x})
    BY <2>2, <2>4, <2>5
  <2>7. SumFunctionOnSet(g, t) <= SumFunctionOnSet(g, s \ {x})
    BY <2>6
  <2>8. SumFunctionOnSet(g, s) = SumFunctionOnSet(g, s \ {x}) + g[x]
    BY <1>1, SumWithout
  <2>9. /\ SumFunctionOnSet(g, t) \in Int /\ SumFunctionOnSet(g, s \ {x}) \in Int
        /\ SumFunctionOnSet(g, s) \in Int /\ g[x] \in Nat
    BY <1>2, <2>6
  <2> QED
    BY <2>3, <2>7, <2>8, <2>9
<1> QED
  BY <1>3
=============================================================================
