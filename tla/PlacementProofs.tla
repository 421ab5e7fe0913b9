--------------------------- MODULE PlacementProofs ---------------------------
(***************************************************************************)
(* What the proofs about every scheduler rest on.  First, facts about      *)
(* SumFunctionOnSet(f, S), the sum of f[x] for x in a finite set S: its    *)
(* value for the empty set and for one more element, its type, and how it  *)
(* changes when f does; the totals of slots, replicas and resources are    *)
(* such sums.  Then, what the placement algorithm guarantees for every     *)
(* cluster and every job: the packing it selects takes from no node more   *)
(* than it has left, and is complete, compact and the best of its kind.    *)
(***************************************************************************)
EXTENDS Scheduler, Release, Feasibility, Functions, FiniteSetTheorems,
        WellFoundedInduction, TLAPS

(***************************************************************************)
(* Induction over the naturals, for a set instead of a predicate: the      *)
(* smallest natural outside S would have a predecessor in S.               *)
(***************************************************************************)
LEMMA NatSetInduction ==
  ASSUME NEW S, 0 \in S, \A n \in Nat : n \in S => n + 1 \in S
  PROVE  Nat \subseteq S
<1> DEFINE T == Nat \ S
           R == OpToRel(<, Nat)
<1>1. SUFFICES ASSUME T # {} PROVE FALSE
  OBVIOUS
<1>2. IsWellFoundedOn(R, Nat)
  BY NatLessThanWellFounded
<1>3. PICK x \in T : \A y \in T : ~ (<<y, x>> \in R)
  <2> HIDE DEF R
  <2> QED BY <1>1, <1>2, WFMin
<1>4. x # 0 /\ x - 1 \in Nat
  OBVIOUS
<1>5. x - 1 \notin T
  <2>1. x - 1 < x
    BY <1>4
  <2>2. <<x - 1, x>> \in R
    BY <2>1, <1>4 DEF OpToRel
  <2> QED BY <1>3, <2>2
<1> QED BY <1>4, <1>5

(***************************************************************************)
(* The recursion of the fold: what a function g on the subsets of S must   *)
(* satisfy to hold the sums of f.  Pick(s) is the element folded first.    *)
(***************************************************************************)
Pick(s) == CHOOSE x \in s : TRUE

Sums(f, S, g) ==
  g = [s \in SUBSET S |-> IF s = {} THEN 0 ELSE f[Pick(s)] + g[s \ {Pick(s)}]]

LEMMA PickElement == ASSUME NEW s, s # {} PROVE Pick(s) \in s
BY DEF Pick

(***************************************************************************)
(* The recursion has a solution on every finite set: by induction on n, it *)
(* has one on the subsets with at most n elements.                         *)
(***************************************************************************)
SumsUpTo(f, S, n, g) ==
  \A s \in SUBSET S :
    Cardinality(s) <= n =>
      g[s] = IF s = {} THEN 0 ELSE f[Pick(s)] + g[s \ {Pick(s)}]

LEMMA SumsExist ==
  ASSUME NEW f, NEW S, IsFiniteSet(S)
  PROVE  \E g : Sums(f, S, g)
<1> DEFINE Solved == {n \in Nat : \E g : SumsUpTo(f, S, n, g)}
<1>0. \A s \in SUBSET S : /\ IsFiniteSet(s) /\ Cardinality(s) \in Nat
                          /\ Cardinality(s) <= Cardinality(S)
                          /\ Cardinality(s) = 0 <=> s = {}
  BY FS_Subset, FS_CardinalityType, FS_EmptySet
<1>1. 0 \in Solved
  <2> DEFINE g == [s \in SUBSET S |-> 0]
  <2>1. SumsUpTo(f, S, 0, g)
    BY <1>0 DEF SumsUpTo
  <2> QED BY <2>1
<1>2. ASSUME NEW n \in Nat, n \in Solved PROVE n + 1 \in Solved
  <2>1. PICK g : SumsUpTo(f, S, n, g)
    BY <1>2
  <2> DEFINE h == [s \in SUBSET S |-> IF Cardinality(s) <= n THEN g[s]
                                      ELSE f[Pick(s)] + g[s \ {Pick(s)}]]
  <2>2. ASSUME NEW s \in SUBSET S, Cardinality(s) <= n + 1
        PROVE  h[s] = IF s = {} THEN 0 ELSE f[Pick(s)] + h[s \ {Pick(s)}]
    <3>1. CASE s = {}
      <4>1. Cardinality(s) <= n
        BY <1>0, <3>1
      <4> QED BY <4>1, <3>1, <2>1 DEF SumsUpTo
    <3>2. CASE s # {}
      <4> DEFINE r == s \ {Pick(s)}
      <4>1. Pick(s) \in s /\ r \in SUBSET S
        BY <3>2, PickElement
      <4>2. Cardinality(r) = Cardinality(s) - 1
        BY <4>1, <1>0, FS_RemoveElement
      <4>3. Cardinality(r) <= n
        BY <4>2, <2>2, <1>0
      <4>4. h[r] = g[r]
        BY <4>1, <4>3
      <4>5. h[s] = f[Pick(s)] + g[r]
        <5>1. Cardinality(s) <= n => g[s] = f[Pick(s)] + g[r]
          BY <2>1, <3>2 DEF SumsUpTo
        <5> HIDE DEF r
        <5>2. h[s] = IF Cardinality(s) <= n THEN g[s] ELSE f[Pick(s)] + g[r]
          BY DEF r
        <5> QED BY <5>1, <5>2
      <4> QED BY <4>4, <4>5, <3>2
    <3> QED BY <3>1, <3>2
  <2> HIDE DEF h
  <2>3. SumsUpTo(f, S, n + 1, h)
    BY <2>2 DEF SumsUpTo
  <2> QED BY <2>3
<1>3. Nat \subseteq Solved
  <2> HIDE DEF Solved
  <2> QED BY <1>1, <1>2, NatSetInduction
<1>4. PICK g : SumsUpTo(f, S, Cardinality(S), g)
  BY <1>3, <1>0
<1> DEFINE h == [s \in SUBSET S |-> g[s]]
<1>5. Sums(f, S, h)
  <2>1. ASSUME NEW s \in SUBSET S
        PROVE  h[s] = IF s = {} THEN 0 ELSE f[Pick(s)] + h[s \ {Pick(s)}]
    BY <1>0, <1>4 DEF SumsUpTo
  <2> QED BY <2>1 DEF Sums
<1> QED BY <1>5

\* The sum is read off a solution of the recursion.
LEMMA SumSolves ==
  ASSUME NEW f, NEW S, IsFiniteSet(S)
  PROVE  \E g : Sums(f, S, g) /\ SumFunctionOnSet(f, S) = g[S]
<1> DEFINE g == CHOOSE h : Sums(f, S, h)
<1>1. Sums(f, S, g)
  BY SumsExist
<1>2. SumFunctionOnSet(f, S) = g[S]
  BY DEF SumFunctionOnSet, FoldFunctionOnSet, MapThenFoldSet, Sums, Pick
<1> QED BY <1>1, <1>2

-----------------------------------------------------------------------------
(***************************************************************************)
(* Two solutions agree on the subsets they share, on which the summed      *)
(* functions do: the sum of a set does not depend on the set it was        *)
(* computed within.                                                        *)
(***************************************************************************)
LEMMA SumsAgree ==
  ASSUME NEW f, NEW S, NEW g, Sums(f, S, g), IsFiniteSet(S),
         NEW e, NEW T, NEW h, Sums(e, T, h), IsFiniteSet(T),
         NEW U \in SUBSET (S \cap T), \A x \in U : f[x] = e[x]
  PROVE  g[U] = h[U]
<1> DEFINE Agreed == {n \in Nat : \A V \in SUBSET U : Cardinality(V) = n => g[V] = h[V]}
<1>0. \A V \in SUBSET U : /\ V \in SUBSET S /\ V \in SUBSET T
                          /\ IsFiniteSet(V) /\ Cardinality(V) \in Nat
                          /\ Cardinality(V) = 0 <=> V = {}
  BY FS_Subset, FS_CardinalityType, FS_EmptySet
<1>1. 0 \in Agreed
  <2>1. ASSUME NEW V \in SUBSET U, V = {} PROVE g[V] = h[V]
    BY <2>1, <1>0 DEF Sums
  <2> QED BY <2>1, <1>0
<1>2. ASSUME NEW n \in Nat, n \in Agreed PROVE n + 1 \in Agreed
  <2>1. ASSUME NEW V \in SUBSET U, Cardinality(V) = n + 1 PROVE g[V] = h[V]
    <3> DEFINE W == V \ {Pick(V)}
    <3>1. V # {}
      BY <2>1, <1>0
    <3>2. Pick(V) \in V /\ W \in SUBSET U
      BY <3>1, PickElement
    <3>3. Cardinality(W) = Cardinality(V) - 1
      BY <3>2, <1>0, FS_RemoveElement
    <3>4. g[W] = h[W]
      BY <3>2, <3>3, <2>1, <1>2
    <3>5. g[V] = f[Pick(V)] + g[W] /\ h[V] = e[Pick(V)] + h[W]
      BY <3>1, <1>0 DEF Sums
    <3>6. f[Pick(V)] = e[Pick(V)]
      BY <3>2
    <3> QED BY <3>4, <3>5, <3>6
  <2> QED BY <2>1
<1>3. Nat \subseteq Agreed
  <2> HIDE DEF Agreed
  <2> QED BY <1>1, <1>2, NatSetInduction
<1> QED BY <1>3, <1>0

\* A property of the sums of all subsets follows by adding one element.
LEMMA SumsInduction ==
  ASSUME NEW f, NEW S, NEW g, Sums(f, S, g), IsFiniteSet(S),
         NEW P, {} \in P,
         \A V \in SUBSET S : V # {} /\ V \ {Pick(V)} \in P => V \in P
  PROVE  S \in P
<1> DEFINE Sized == {n \in Nat : \A V \in SUBSET S : Cardinality(V) = n => V \in P}
<1>0. \A V \in SUBSET S : /\ IsFiniteSet(V) /\ Cardinality(V) \in Nat
                          /\ Cardinality(V) = 0 <=> V = {}
  BY FS_Subset, FS_CardinalityType, FS_EmptySet
<1>1. 0 \in Sized
  BY <1>0
<1>2. ASSUME NEW n \in Nat, n \in Sized PROVE n + 1 \in Sized
  <2>1. ASSUME NEW V \in SUBSET S, Cardinality(V) = n + 1 PROVE V \in P
    <3>1. V # {}
      BY <2>1, <1>0
    <3>2. Pick(V) \in V
      BY <3>1, PickElement
    <3>3. Cardinality(V \ {Pick(V)}) = n
      BY <3>2, <2>1, <1>0, FS_RemoveElement
    <3> QED BY <3>1, <3>3, <1>2
  <2> QED BY <2>1
<1>3. Nat \subseteq Sized
  <2> HIDE DEF Sized
  <2> QED BY <1>1, <1>2, NatSetInduction
<1> QED BY <1>3, <1>0

-----------------------------------------------------------------------------
(***************************************************************************)
(* The facts the specifications' proofs cite.                              *)
(***************************************************************************)
LEMMA SumEmpty == ASSUME NEW f PROVE SumFunctionOnSet(f, {}) = 0
<1>1. PICK g : Sums(f, {}, g) /\ SumFunctionOnSet(f, {}) = g[{}]
  BY SumSolves, FS_EmptySet
<1> QED BY <1>1 DEF Sums

LEMMA SumSame ==
  ASSUME NEW S, IsFiniteSet(S), NEW f, NEW e, \A x \in S : f[x] = e[x]
  PROVE  SumFunctionOnSet(f, S) = SumFunctionOnSet(e, S)
<1>1. PICK g : Sums(f, S, g) /\ SumFunctionOnSet(f, S) = g[S]
  BY SumSolves
<1>2. PICK h : Sums(e, S, h) /\ SumFunctionOnSet(e, S) = h[S]
  BY SumSolves
<1> QED BY <1>1, <1>2, SumsAgree

LEMMA SumInt ==
  ASSUME NEW S, IsFiniteSet(S), NEW f, \A x \in S : f[x] \in Int
  PROVE  SumFunctionOnSet(f, S) \in Int
<1>1. PICK g : Sums(f, S, g) /\ SumFunctionOnSet(f, S) = g[S]
  BY SumSolves
<1> DEFINE P == {V \in SUBSET S : g[V] \in Int}
<1>2. {} \in P
  BY <1>1 DEF Sums
<1>3. ASSUME NEW V \in SUBSET S, V # {}, V \ {Pick(V)} \in P PROVE V \in P
  <2>1. Pick(V) \in S
    BY <1>3, PickElement
  <2>2. g[V] = f[Pick(V)] + g[V \ {Pick(V)}]
    BY <1>1, <1>3 DEF Sums
  <2> QED BY <2>1, <2>2, <1>3
<1>4. S \in P
  <2> HIDE DEF P
  <2> QED BY <1>1, <1>2, <1>3, SumsInduction
<1> QED BY <1>1, <1>4

LEMMA SumNonNegative ==
  ASSUME NEW S, IsFiniteSet(S), NEW f, \A x \in S : f[x] \in Nat
  PROVE  SumFunctionOnSet(f, S) \in Nat
<1>1. PICK g : Sums(f, S, g) /\ SumFunctionOnSet(f, S) = g[S]
  BY SumSolves
<1> DEFINE P == {V \in SUBSET S : g[V] \in Nat}
<1>2. {} \in P
  BY <1>1 DEF Sums
<1>3. ASSUME NEW V \in SUBSET S, V # {}, V \ {Pick(V)} \in P PROVE V \in P
  <2>1. Pick(V) \in S
    BY <1>3, PickElement
  <2>2. g[V] = f[Pick(V)] + g[V \ {Pick(V)}]
    BY <1>1, <1>3 DEF Sums
  <2> QED BY <2>1, <2>2, <1>3
<1>4. S \in P
  <2> HIDE DEF P
  <2> QED BY <1>1, <1>2, <1>3, SumsInduction
<1> QED BY <1>1, <1>4

LEMMA SumZero ==
  ASSUME NEW S, IsFiniteSet(S), NEW f, \A x \in S : f[x] = 0
  PROVE  SumFunctionOnSet(f, S) = 0
<1>1. PICK g : Sums(f, S, g) /\ SumFunctionOnSet(f, S) = g[S]
  BY SumSolves
<1> DEFINE P == {V \in SUBSET S : g[V] = 0}
<1>2. {} \in P
  BY <1>1 DEF Sums
<1>3. ASSUME NEW V \in SUBSET S, V # {}, V \ {Pick(V)} \in P PROVE V \in P
  <2>1. Pick(V) \in S
    BY <1>3, PickElement
  <2>2. g[V] = f[Pick(V)] + g[V \ {Pick(V)}]
    BY <1>1, <1>3 DEF Sums
  <2> QED BY <2>1, <2>2, <1>3
<1>4. S \in P
  <2> HIDE DEF P
  <2> QED BY <1>1, <1>2, <1>3, SumsInduction
<1> QED BY <1>1, <1>4

(***************************************************************************)
(* Any element can be taken out first, not only the one the fold picks.    *)
(***************************************************************************)
LEMMA SumRemove ==
  ASSUME NEW S, IsFiniteSet(S), NEW f, \A x \in S : f[x] \in Int, NEW x \in S
  PROVE  SumFunctionOnSet(f, S) = f[x] + SumFunctionOnSet(f, S \ {x})
<1>1. PICK g : Sums(f, S, g) /\ SumFunctionOnSet(f, S) = g[S]
  BY SumSolves
<1>2. \A V \in SUBSET S : /\ IsFiniteSet(V)
                          /\ SumFunctionOnSet(f, V) = g[V]
                          /\ g[V] \in Int
  <2> SUFFICES ASSUME NEW V \in SUBSET S
               PROVE  /\ IsFiniteSet(V)
                      /\ SumFunctionOnSet(f, V) = g[V]
                      /\ g[V] \in Int
    OBVIOUS
  <2>1. IsFiniteSet(V)
    BY FS_Subset
  <2>2. PICK h : Sums(f, V, h) /\ SumFunctionOnSet(f, V) = h[V]
    BY <2>1, SumSolves
  <2>3. V \in SUBSET (S \cap V)
    OBVIOUS
  <2>4. g[V] = h[V]
    BY <1>1, <2>1, <2>2, <2>3, SumsAgree
  <2>5. SumFunctionOnSet(f, V) \in Int
    BY <2>1, SumInt
  <2> QED BY <2>1, <2>2, <2>4, <2>5
<1> DEFINE Sized == {n \in Nat : \A V \in SUBSET S :
                       Cardinality(V) = n => \A y \in V : g[V] = f[y] + g[V \ {y}]}
<1>3. \A V \in SUBSET S : /\ Cardinality(V) \in Nat
                          /\ Cardinality(V) = 0 <=> V = {}
                          /\ \A y \in V : Cardinality(V \ {y}) = Cardinality(V) - 1
  BY <1>2, FS_CardinalityType, FS_EmptySet, FS_RemoveElement
<1>4. 0 \in Sized
  BY <1>3
<1>5. ASSUME NEW n \in Nat, n \in Sized PROVE n + 1 \in Sized
  <2> SUFFICES ASSUME NEW V \in SUBSET S, Cardinality(V) = n + 1, NEW y \in V
               PROVE  g[V] = f[y] + g[V \ {y}]
    OBVIOUS
  <2> DEFINE c == Pick(V)
  <2>1. c \in V
    BY PickElement
  <2>2. g[V] = f[c] + g[V \ {c}]
    BY <1>1, <2>1 DEF Sums
  <2> HIDE DEF c
  <2>3. CASE y = c
    BY <2>2, <2>3
  <2>4. CASE y # c
    <3> DEFINE W == (V \ {c}) \ {y}
    <3>1. g[V \ {c}] = f[y] + g[W]
      <4>1. Cardinality(V \ {c}) = n
        BY <1>3, <2>1
      <4>2. V \ {c} \in SUBSET S /\ y \in V \ {c}
        BY <2>4
      <4> QED BY <4>1, <4>2, <1>5
    <3>2. g[V \ {y}] = f[c] + g[W]
      <4>1. Cardinality(V \ {y}) = n
        BY <1>3
      <4>2. V \ {y} \in SUBSET S /\ c \in V \ {y}
        BY <2>1, <2>4
      <4>3. g[V \ {y}] = f[c] + g[(V \ {y}) \ {c}]
        BY <4>1, <4>2, <1>5
      <4>4. (V \ {y}) \ {c} = W
        OBVIOUS
      <4> QED BY <4>3, <4>4
    <3>3. f[c] \in Int /\ f[y] \in Int /\ g[W] \in Int
      <4>1. c \in S /\ y \in S /\ W \in SUBSET S
        BY <2>1
      <4> QED BY <4>1, <1>2
    <3> QED BY <3>1, <3>2, <3>3, <2>2
  <2> QED BY <2>3, <2>4
<1>6. Nat \subseteq Sized
  <2> HIDE DEF Sized
  <2> QED BY <1>4, <1>5, NatSetInduction
<1>7. g[S] = f[x] + g[S \ {x}]
  BY <1>3, <1>6
<1> QED BY <1>1, <1>2, <1>7

\* Changing the function at one element changes the sum by as much.
LEMMA SumUpdate ==
  ASSUME NEW S, IsFiniteSet(S), NEW x \in S,
         NEW f, \A y \in S : f[y] \in Int,
         NEW e, \A y \in S : e[y] \in Int,
         \A y \in S \ {x} : e[y] = f[y]
  PROVE  SumFunctionOnSet(e, S) = SumFunctionOnSet(f, S) - f[x] + e[x]
<1> DEFINE R == S \ {x}
<1>1. IsFiniteSet(R) /\ \A y \in R : e[y] = f[y] /\ f[y] \in Int
  BY FS_RemoveElement
<1>2. SumFunctionOnSet(e, R) = SumFunctionOnSet(f, R)
  BY <1>1, SumSame
<1>3. SumFunctionOnSet(f, R) \in Int
  BY <1>1, SumInt
<1>4. SumFunctionOnSet(f, S) = f[x] + SumFunctionOnSet(f, R)
  BY SumRemove
<1>5. SumFunctionOnSet(e, S) = e[x] + SumFunctionOnSet(e, R)
  BY SumRemove
<1> HIDE DEF R
<1> QED BY <1>2, <1>3, <1>4, <1>5

\* A sum of naturals is at least each of them.
LEMMA SumAtLeast ==
  ASSUME NEW S, IsFiniteSet(S), NEW f, \A y \in S : f[y] \in Nat, NEW x \in S
  PROVE  SumFunctionOnSet(f, S) >= f[x]
<1> DEFINE R == S \ {x}
<1>1. IsFiniteSet(R) /\ \A y \in R : f[y] \in Nat
  BY FS_RemoveElement
<1>2. SumFunctionOnSet(f, R) \in Nat
  BY <1>1, SumNonNegative
<1>3. SumFunctionOnSet(f, S) = f[x] + SumFunctionOnSet(f, R)
  BY SumRemove
<1> HIDE DEF R
<1> QED BY <1>2, <1>3

-----------------------------------------------------------------------------
(***************************************************************************)
(* Sums of different functions, over different sets.                       *)
(***************************************************************************)
\* Induction over the subsets of a finite set, one element at a time.
LEMMA SubsetInduction ==
  ASSUME NEW S, IsFiniteSet(S), NEW P, {} \in P,
         \A V \in SUBSET S : \A x \in V : V \ {x} \in P => V \in P
  PROVE  S \in P
<1> DEFINE zero == [x \in S |-> 0]
<1>1. PICK g : Sums(zero, S, g)
  <2> HIDE DEF zero
  <2> QED BY SumSolves
<1>2. ASSUME NEW V \in SUBSET S, V # {}, V \ {Pick(V)} \in P PROVE V \in P
  BY <1>2, PickElement
<1> HIDE DEF zero
<1> QED BY <1>1, <1>2, SumsInduction

\* A product of integers is one, and distributes over a sum.
LEMMA TimesInt == \A x, y \in Int : x * y \in Int
OBVIOUS

\* Multiplying by a natural is monotone.
LEMMA TimesMonotone ==
  ASSUME NEW a \in Nat, NEW b \in Nat, a <= b, NEW c \in Nat
  PROVE  c * a <= c * b /\ c * a \in Nat /\ c * b \in Nat
OBVIOUS

LEMMA Distributes ==
  ASSUME NEW r \in Int, NEW x \in Int, NEW y \in Int
  PROVE  r * (x + y) = r * x + r * y /\ r * x \in Int /\ r * y \in Int
OBVIOUS

\* Taking r * a[x] from f[x] for x in T takes r times the sum of a.
LEMMA SumDecrease ==
  ASSUME NEW S, IsFiniteSet(S), NEW T, T \subseteq S,
         NEW f, \A x \in S : f[x] \in Int,
         NEW a, \A x \in T : a[x] \in Int, NEW r \in Int,
         NEW e, \A x \in S : e[x] = IF x \in T THEN f[x] - r * a[x] ELSE f[x]
  PROVE  SumFunctionOnSet(e, S) = SumFunctionOnSet(f, S) - r * SumFunctionOnSet(a, T)
<1> DEFINE Taken(V) == SumFunctionOnSet(a, V \cap T)
           P == {V \in SUBSET S :
                   SumFunctionOnSet(e, V) = SumFunctionOnSet(f, V) - r * Taken(V)}
<1>1. {} \in P
  <2>1. Taken({}) = 0
    <3>1. {} \cap T = {}
      OBVIOUS
    <3> QED BY <3>1, SumEmpty
  <2> QED BY <2>1, SumEmpty
<1>2. ASSUME NEW V \in SUBSET S, NEW x \in V, V \ {x} \in P PROVE V \in P
  <2> DEFINE W == V \ {x}
  <2>1. IsFiniteSet(V) /\ IsFiniteSet(W) /\ IsFiniteSet(V \cap T) /\ IsFiniteSet(W \cap T)
    BY FS_Subset
  <2>2. \A y \in V : e[y] \in Int /\ f[y] \in Int
    BY TimesInt
  <2>3. /\ SumFunctionOnSet(e, V) = e[x] + SumFunctionOnSet(e, W)
        /\ SumFunctionOnSet(f, V) = f[x] + SumFunctionOnSet(f, W)
    BY <2>1, <2>2, SumRemove
  <2>4. /\ SumFunctionOnSet(f, W) \in Int /\ Taken(W) \in Int
    BY <2>1, <2>2, SumInt
  <2>5. SumFunctionOnSet(e, W) = SumFunctionOnSet(f, W) - r * Taken(W)
    BY <1>2
  <2>6. CASE x \in T
    <3>1. (V \cap T) \ {x} = W \cap T
      OBVIOUS
    <3>2. Taken(V) = a[x] + Taken(W)
      BY <2>1, <2>6, <3>1, SumRemove
    <3> HIDE DEF W, Taken
    <3>3. a[x] \in Int /\ f[x] \in Int
      BY <2>6
    <3>4. r * (a[x] + Taken(W)) = r * a[x] + r * Taken(W)
          /\ r * a[x] \in Int /\ r * Taken(W) \in Int
      BY <2>4, <3>3, Distributes
    <3> QED BY <2>3, <2>4, <2>5, <2>6, <3>2, <3>3, <3>4
  <2>7. CASE x \notin T
    <3>1. V \cap T = W \cap T
      BY <2>7
    <3>2. Taken(V) = Taken(W)
      BY <3>1
    <3> HIDE DEF W, Taken
    <3>3. r * Taken(W) \in Int
      BY <2>4, TimesInt
    <3> QED BY <2>2, <2>3, <2>4, <2>5, <2>7, <3>2, <3>3
  <2> QED BY <2>6, <2>7
<1>3. S \in P
  <2> HIDE DEF P
  <2> QED BY <1>1, <1>2, SubsetInduction
<1>4. S \cap T = T
  OBVIOUS
<1> QED BY <1>3, <1>4

\* A sum over the names of some things is a sum over the things, when their
\* names differ.
LEMMA SumByName ==
  ASSUME NEW K, IsFiniteSet(K), NEW nameOf, NEW f, \A k \in K : f[k] \in Int,
         \A k, l \in K : nameOf[k] = nameOf[l] => k = l,
         NEW e, \A k \in K : e[nameOf[k]] = f[k]
  PROVE  SumFunctionOnSet(e, {nameOf[k] : k \in K}) = SumFunctionOnSet(f, K)
<1> DEFINE Names(V) == {nameOf[k] : k \in V}
           P == {V \in SUBSET K : SumFunctionOnSet(e, Names(V)) = SumFunctionOnSet(f, V)}
<1>1. {} \in P
  <2>1. Names({}) = {}
    OBVIOUS
  <2> QED BY <2>1, SumEmpty
<1>2. ASSUME NEW V \in SUBSET K, NEW x \in V, V \ {x} \in P PROVE V \in P
  <2>1. Names(V) \ {nameOf[x]} = Names(V \ {x}) /\ nameOf[x] \in Names(V)
    OBVIOUS
  <2>2. IsFiniteSet(V)
    BY FS_Subset
  <2>3. IsFiniteSet(Names(V))
    <3> DEFINE named == [k \in V |-> nameOf[k]]
    <3>1. named \in Surjection(V, Names(V))
      BY DEF Surjection
    <3> HIDE DEF named, Names
    <3> QED BY <2>2, <3>1, FS_Surjection
  <2>4. \A y \in Names(V) : e[y] \in Int
    OBVIOUS
  <2>5. SumFunctionOnSet(f, V) = f[x] + SumFunctionOnSet(f, V \ {x})
    BY <2>2, SumRemove
  <2> HIDE DEF Names
  <2>6. SumFunctionOnSet(e, Names(V)) = e[nameOf[x]] + SumFunctionOnSet(e, Names(V) \ {nameOf[x]})
    BY <2>1, <2>3, <2>4, SumRemove
  <2> QED BY <1>2, <2>1, <2>5, <2>6
<1>3. K \in P
  <2> HIDE DEF P
  <2> QED BY <1>1, <1>2, SubsetInduction
<1> QED BY <1>3

-----------------------------------------------------------------------------
(***************************************************************************)
(* Comparing sums.                                                         *)
(***************************************************************************)
\* Two sums over the same set compare as their terms do.
LEMMA SumMonotone ==
  ASSUME NEW S, IsFiniteSet(S),
         NEW f, \A x \in S : f[x] \in Int, NEW e, \A x \in S : e[x] \in Int,
         \A x \in S : f[x] <= e[x]
  PROVE  SumFunctionOnSet(f, S) <= SumFunctionOnSet(e, S)
<1> DEFINE P == {V \in SUBSET S : SumFunctionOnSet(f, V) <= SumFunctionOnSet(e, V)}
<1>1. {} \in P
  BY SumEmpty
<1>2. ASSUME NEW V \in SUBSET S, NEW x \in V, V \ {x} \in P PROVE V \in P
  <2> DEFINE W == V \ {x}
  <2>1. IsFiniteSet(V) /\ IsFiniteSet(W)
    BY FS_Subset
  <2>2. /\ SumFunctionOnSet(f, V) = f[x] + SumFunctionOnSet(f, W)
        /\ SumFunctionOnSet(e, V) = e[x] + SumFunctionOnSet(e, W)
    BY <2>1, SumRemove
  <2>3. SumFunctionOnSet(f, W) \in Int /\ SumFunctionOnSet(e, W) \in Int
    BY <2>1, SumInt
  <2>4. SumFunctionOnSet(f, W) <= SumFunctionOnSet(e, W)
    BY <1>2
  <2>5. f[x] \in Int /\ e[x] \in Int /\ f[x] <= e[x]
    OBVIOUS
  <2> HIDE DEF W
  <2> QED BY <2>2, <2>3, <2>4, <2>5
<1>3. S \in P
  <2> HIDE DEF P
  <2> QED BY <1>1, <1>2, SubsetInduction
<1> QED BY <1>3

\* A sum can be split in two.
LEMMA SumSplit ==
  ASSUME NEW S, IsFiniteSet(S), NEW T, T \subseteq S, NEW f, \A x \in S : f[x] \in Int
  PROVE  SumFunctionOnSet(f, S) = SumFunctionOnSet(f, T) + SumFunctionOnSet(f, S \ T)
<1> DEFINE P == {V \in SUBSET S :
                   SumFunctionOnSet(f, V) = SumFunctionOnSet(f, V \cap T)
                                              + SumFunctionOnSet(f, V \ T)}
<1>1. {} \in P
  <2>1. {} \cap T = {} /\ {} \ T = {}
    OBVIOUS
  <2> QED BY <2>1, SumEmpty
<1>2. ASSUME NEW V \in SUBSET S, NEW x \in V, V \ {x} \in P PROVE V \in P
  <2> DEFINE W == V \ {x}
  <2>1. /\ IsFiniteSet(V) /\ IsFiniteSet(W)
        /\ IsFiniteSet(V \cap T) /\ IsFiniteSet(V \ T)
        /\ IsFiniteSet(W \cap T) /\ IsFiniteSet(W \ T)
    BY FS_Subset
  <2>2. SumFunctionOnSet(f, V) = f[x] + SumFunctionOnSet(f, W)
    BY <2>1, SumRemove
  <2>3. SumFunctionOnSet(f, W \cap T) \in Int /\ SumFunctionOnSet(f, W \ T) \in Int
    BY <2>1, SumInt
  <2>4. SumFunctionOnSet(f, W) = SumFunctionOnSet(f, W \cap T) + SumFunctionOnSet(f, W \ T)
    BY <1>2
  <2>5. f[x] \in Int
    OBVIOUS
  <2>6. CASE x \in T
    <3>1. (V \cap T) \ {x} = W \cap T /\ V \ T = W \ T /\ x \in V \cap T
      BY <2>6
    <3>2. SumFunctionOnSet(f, V \cap T) = f[x] + SumFunctionOnSet(f, (V \cap T) \ {x})
      BY <2>1, <3>1, SumRemove
    <3>3. /\ SumFunctionOnSet(f, V \cap T) = f[x] + SumFunctionOnSet(f, W \cap T)
          /\ SumFunctionOnSet(f, V \ T) = SumFunctionOnSet(f, W \ T)
      <4> HIDE DEF W
      <4> QED BY <3>1, <3>2
    <3>4. SumFunctionOnSet(f, V) = SumFunctionOnSet(f, V \cap T) + SumFunctionOnSet(f, V \ T)
      <4> HIDE DEF W
      <4> QED BY <2>2, <2>3, <2>4, <2>5, <3>3
    <3> QED BY <3>4
  <2>7. CASE x \notin T
    <3>1. (V \ T) \ {x} = W \ T /\ V \cap T = W \cap T /\ x \in V \ T
      BY <2>7
    <3>2. SumFunctionOnSet(f, V \ T) = f[x] + SumFunctionOnSet(f, (V \ T) \ {x})
      BY <2>1, <3>1, SumRemove
    <3>3. /\ SumFunctionOnSet(f, V \ T) = f[x] + SumFunctionOnSet(f, W \ T)
          /\ SumFunctionOnSet(f, V \cap T) = SumFunctionOnSet(f, W \cap T)
      <4> HIDE DEF W
      <4> QED BY <3>1, <3>2
    <3>4. SumFunctionOnSet(f, V) = SumFunctionOnSet(f, V \cap T) + SumFunctionOnSet(f, V \ T)
      <4> HIDE DEF W
      <4> QED BY <2>2, <2>3, <2>4, <2>5, <3>3
    <3> QED BY <3>4
  <2> QED BY <2>6, <2>7
<1>3. S \in P
  <2> HIDE DEF P
  <2> QED BY <1>1, <1>2, SubsetInduction
<1>4. S \cap T = T
  OBVIOUS
<1> QED BY <1>3, <1>4

\* Terms that are zero do not count.
LEMMA SumSupport ==
  ASSUME NEW S, IsFiniteSet(S), NEW T, T \subseteq S, NEW f, \A x \in S : f[x] \in Int,
         \A x \in S \ T : f[x] = 0
  PROVE  SumFunctionOnSet(f, S) = SumFunctionOnSet(f, T)
<1>1. IsFiniteSet(T) /\ IsFiniteSet(S \ T)
  BY FS_Subset
<1>2. SumFunctionOnSet(f, S \ T) = 0
  BY <1>1, SumZero
<1>3. SumFunctionOnSet(f, S) = SumFunctionOnSet(f, T) + SumFunctionOnSet(f, S \ T)
  BY SumSplit
<1>4. SumFunctionOnSet(f, T) \in Int
  BY <1>1, SumInt
<1> QED BY <1>2, <1>3, <1>4

\* A part of a sum of naturals is at most the sum.
LEMMA SumOfPart ==
  ASSUME NEW S, IsFiniteSet(S), NEW T, T \subseteq S, NEW f, \A x \in S : f[x] \in Nat
  PROVE  /\ SumFunctionOnSet(f, T) \in Nat /\ SumFunctionOnSet(f, S) \in Nat
         /\ SumFunctionOnSet(f, T) <= SumFunctionOnSet(f, S)
<1>1. IsFiniteSet(T) /\ IsFiniteSet(S \ T)
  BY FS_Subset
<1>2. /\ SumFunctionOnSet(f, T) \in Nat /\ SumFunctionOnSet(f, S \ T) \in Nat
      /\ SumFunctionOnSet(f, S) \in Nat
  BY <1>1, SumNonNegative
<1>3. SumFunctionOnSet(f, S) = SumFunctionOnSet(f, T) + SumFunctionOnSet(f, S \ T)
  BY SumSplit
<1> QED BY <1>2, <1>3

\* The sum of as many terms as S has elements, each t.
LEMMA SumConstant ==
  ASSUME NEW S, IsFiniteSet(S), NEW t \in Int, NEW f, \A x \in S : f[x] = t
  PROVE  SumFunctionOnSet(f, S) = t * Cardinality(S)
<1> DEFINE P == {V \in SUBSET S : SumFunctionOnSet(f, V) = t * Cardinality(V)}
<1>1. {} \in P
  BY SumEmpty, FS_EmptySet
<1>2. ASSUME NEW V \in SUBSET S, NEW x \in V, V \ {x} \in P PROVE V \in P
  <2> DEFINE W == V \ {x}
  <2>1. IsFiniteSet(V) /\ IsFiniteSet(W)
    BY FS_Subset
  <2>2. SumFunctionOnSet(f, V) = f[x] + SumFunctionOnSet(f, W)
    BY <2>1, SumRemove
  <2>3. Cardinality(V) = Cardinality(W) + 1 /\ Cardinality(W) \in Nat
    BY <2>1, FS_RemoveElement, FS_CardinalityType
  <2>4. SumFunctionOnSet(f, W) = t * Cardinality(W)
    BY <1>2
  <2> DEFINE c == Cardinality(W)
  <2>5. t * (c + 1) = t * c + t /\ t * c \in Int
    <3> HIDE DEF c
    <3>1. c \in Int
      BY <2>3 DEF c
    <3> QED BY <3>1, Distributes
  <2>6. f[x] = t
    OBVIOUS
  <2>7. Cardinality(V) = c + 1
    BY <2>3
  <2> HIDE DEF c
  <2>8. SumFunctionOnSet(f, V) = t * c + t
    BY <2>2, <2>4, <2>5, <2>6 DEF c
  <2>9. SumFunctionOnSet(f, V) = t * Cardinality(V)
    BY <2>5, <2>7, <2>8
  <2> QED BY <2>9
<1>3. S \in P
  <2> HIDE DEF P
  <2> QED BY <1>1, <1>2, SubsetInduction
<1> QED BY <1>3

\* No more large terms than small ones: the sum of the large ones is larger.
LEMMA SumExchange ==
  ASSUME NEW A, IsFiniteSet(A), NEW B, IsFiniteSet(B), Cardinality(A) <= Cardinality(B),
         NEW f, \A x \in A \cup B : f[x] \in Nat, NEW t \in Nat,
         \A x \in A \ B : f[x] <= t, \A x \in B \ A : t <= f[x]
  PROVE  SumFunctionOnSet(f, A) <= SumFunctionOnSet(f, B)
<1> DEFINE constant == [x \in A \cup B |-> t]
           a == Cardinality(A \ B)
           b == Cardinality(B \ A)
<1>1. IsFiniteSet(A \ B) /\ IsFiniteSet(B \ A) /\ IsFiniteSet(A \cap B)
  BY FS_Subset
<1>2. a \in Nat /\ b \in Nat /\ a <= b
  <2>1. a = Cardinality(A) - Cardinality(A \cap B)
    BY FS_Difference
  <2>2. b = Cardinality(B) - Cardinality(B \cap A)
    BY FS_Difference
  <2>3. A \cap B = B \cap A
    OBVIOUS
  <2>4. /\ Cardinality(A) \in Nat /\ Cardinality(B) \in Nat /\ Cardinality(A \cap B) \in Nat
        /\ a \in Nat /\ b \in Nat
    BY <1>1, FS_CardinalityType
  <2> HIDE DEF a, b
  <2> QED BY <2>1, <2>2, <2>3, <2>4
<1>3. /\ SumFunctionOnSet(f, A) = SumFunctionOnSet(f, A \cap B) + SumFunctionOnSet(f, A \ B)
      /\ SumFunctionOnSet(f, B) = SumFunctionOnSet(f, A \cap B) + SumFunctionOnSet(f, B \ A)
  <2>1. A \ (A \cap B) = A \ B /\ B \ (A \cap B) = B \ A
    OBVIOUS
  <2>2. SumFunctionOnSet(f, A) = SumFunctionOnSet(f, A \cap B)
                                   + SumFunctionOnSet(f, A \ (A \cap B))
    BY SumSplit
  <2>3. SumFunctionOnSet(f, B) = SumFunctionOnSet(f, A \cap B)
                                   + SumFunctionOnSet(f, B \ (A \cap B))
    BY SumSplit
  <2> QED BY <2>1, <2>2, <2>3
<1>4. /\ SumFunctionOnSet(f, A \cap B) \in Nat /\ SumFunctionOnSet(f, A \ B) \in Nat
      /\ SumFunctionOnSet(f, B \ A) \in Nat
  BY <1>1, SumNonNegative
<1>5. SumFunctionOnSet(f, A \ B) <= t * a
  <2>1. SumFunctionOnSet(f, A \ B) <= SumFunctionOnSet(constant, A \ B)
    BY <1>1, SumMonotone
  <2>2. SumFunctionOnSet(constant, A \ B) = t * a
    BY <1>1, SumConstant
  <2> QED BY <2>1, <2>2
<1>6. t * b <= SumFunctionOnSet(f, B \ A)
  <2>1. SumFunctionOnSet(constant, B \ A) <= SumFunctionOnSet(f, B \ A)
    BY <1>1, SumMonotone
  <2>2. SumFunctionOnSet(constant, B \ A) = t * b
    BY <1>1, SumConstant
  <2> QED BY <2>1, <2>2
<1> HIDE DEF a, b
<1>7. t * a <= t * b /\ t * a \in Int /\ t * b \in Int
  BY <1>2, TimesMonotone
<1> QED BY <1>3, <1>4, <1>5, <1>6, <1>7

-----------------------------------------------------------------------------
(***************************************************************************)
(* Least elements and integer division.                                    *)
(***************************************************************************)
\* A non-empty set of naturals has a minimum, which Min chooses.
LEMMA MinProperty ==
  ASSUME NEW S \in SUBSET Nat, S # {}
  PROVE  Min(S) \in S /\ \A y \in S : Min(S) <= y
<1> DEFINE R == OpToRel(<, Nat)
<1>1. IsWellFoundedOn(R, Nat)
  BY NatLessThanWellFounded
<1>2. PICK x \in S : \A y \in S : ~ (<<y, x>> \in R)
  <2> HIDE DEF R
  <2> QED BY <1>1, WFMin
<1>3. \A y \in S : x <= y
  <2> SUFFICES ASSUME NEW y \in S, y < x PROVE FALSE
    OBVIOUS
  <2>1. <<y, x>> \in R
    BY DEF OpToRel
  <2> QED BY <2>1, <1>2
<1> QED BY <1>2, <1>3 DEF Min

\* Integer division rounds down.
LEMMA DivisionBound ==
  ASSUME NEW a \in Nat, NEW b \in Nat \ {0}
  PROVE  /\ a \div b \in Nat
         /\ b * (a \div b) <= a
         /\ a \div b <= a
OBVIOUS

-----------------------------------------------------------------------------
(***************************************************************************)
(* The replica slots of a node: so many replicas do fit.                   *)
(***************************************************************************)
LEMMA DivisionGreatest ==
  ASSUME NEW a \in Nat, NEW b \in Nat \ {0}, NEW k \in Nat, k * b <= a
  PROVE  k <= a \div b
OBVIOUS

\* No more do.
LEMMA SlotsGreatest ==
  ASSUME NEW rem \in [Dim -> NonNegInt64], NEW request \in [Dim -> Nat],
         \E d \in Dim : request[d] # 0,
         NEW k \in Nat, \A d \in Dim : k * request[d] <= rem[d]
  PROVE  k <= AvailableReplicaSlots(rem, request)
<1> DEFINE limiting == {d \in Dim : request[d] > 0}
           limits == {rem[d] \div request[d] : d \in limiting}
<1>1. \A d \in Dim : rem[d] \in Nat
  BY MaxInt64Assumption DEF NonNegInt64
<1>2. \A d \in limiting : rem[d] \div request[d] \in Nat /\ k <= rem[d] \div request[d]
  BY <1>1, DivisionBound, DivisionGreatest
<1>3. limiting # {}
  OBVIOUS
<1>4. limits # {} /\ limits \subseteq Nat /\ \A x \in limits : k <= x
  BY <1>2, <1>3
<1>5. AvailableReplicaSlots(rem, request) = Min(limits)
  BY <1>4 DEF AvailableReplicaSlots
<1> HIDE DEF limits
<1> QED BY <1>4, <1>5, MinProperty

LEMMA SlotsBound ==
  ASSUME NEW rem \in [Dim -> NonNegInt64], NEW request \in [Dim -> Nat]
  PROVE  /\ AvailableReplicaSlots(rem, request) \in NonNegInt64
         /\ \A d \in Dim : request[d] * AvailableReplicaSlots(rem, request) <= rem[d]
<1> DEFINE limiting == {d \in Dim : request[d] > 0}
           limits == {rem[d] \div request[d] : d \in limiting}
           slots == AvailableReplicaSlots(rem, request)
<1>1. \A d \in Dim : rem[d] \in Nat /\ rem[d] <= MaxInt64
  BY MaxInt64Assumption DEF NonNegInt64
<1>2. \A d \in limiting : /\ rem[d] \div request[d] \in Nat
                          /\ request[d] * (rem[d] \div request[d]) <= rem[d]
                          /\ rem[d] \div request[d] <= rem[d]
  BY <1>1, DivisionBound
<1>3. slots = IF limits = {} THEN 0 ELSE Min(limits)
  BY DEF AvailableReplicaSlots
<1>4. CASE limiting = {}
  <2>1. slots = 0 /\ \A d \in Dim : request[d] = 0
    BY <1>3, <1>4
  <2> QED BY <2>1, <1>1, MaxInt64Assumption DEF NonNegInt64
<1>5. CASE limiting # {}
  <2>1. limits # {} /\ limits \subseteq Nat
    BY <1>5, <1>2
  <2>2. slots \in limits /\ \A y \in limits : slots <= y
    <3> HIDE DEF limits, slots
    <3> QED BY <2>1, <1>3, MinProperty
  <2>3. slots \in NonNegInt64
    <3> HIDE DEF slots
    <3>1. PICK d \in limiting : slots = rem[d] \div request[d]
      BY <2>2
    <3> QED BY <3>1, <1>1, <1>2, MaxInt64Assumption DEF NonNegInt64
  <2>4. ASSUME NEW d \in Dim PROVE request[d] * slots <= rem[d]
    <3> HIDE DEF slots
    <3>1. CASE request[d] = 0
      BY <3>1, <2>3, <1>1 DEF NonNegInt64
    <3>2. CASE request[d] > 0
      <4> DEFINE q == rem[d] \div request[d]
      <4>1. d \in limiting /\ q \in limits
        BY <3>2
      <4>2. slots <= q /\ q \in Nat /\ request[d] * q <= rem[d]
        BY <4>1, <2>2, <1>2
      <4>3. slots \in Nat /\ request[d] \in Nat
        BY <2>3, MaxInt64Assumption DEF NonNegInt64
      <4> HIDE DEF q
      <4>4. request[d] * slots <= request[d] * q
            /\ request[d] * slots \in Nat /\ request[d] * q \in Nat
        BY <4>2, <4>3, TimesMonotone
      <4> QED BY <4>2, <4>4, <1>1
    <3> QED BY <3>1, <3>2
  <2> QED BY <2>3, <2>4
<1> QED BY <1>4, <1>5

(***************************************************************************)
(* The packing places replicas on nodes of its domain, at least one on     *)
(* each node it uses and no more than the node has slots.                  *)
(***************************************************************************)
LEMMA PackingBound ==
  ASSUME NEW members, IsFiniteSet(members), NEW slots,
         \A n \in members : slots[n] \in Nat, NEW replicas \in Int,
         NEW n \in DOMAIN CompactPacking(slots, members, replicas)
  PROVE  /\ n \in members
         /\ CompactPacking(slots, members, replicas)[n] \in Nat \ {0}
         /\ CompactPacking(slots, members, replicas)[n] <= slots[n]
<1> DEFINE Earlier(m) == {o \in members : PackedBefore(slots, o, m)}
           Unplaced(m) == replicas - SumFunctionOnSet(slots, Earlier(m))
           packed == {m \in members : slots[m] # 0 /\ Unplaced(m) > 0}
<1>1. CompactPacking(slots, members, replicas)
        = [m \in packed |-> IF slots[m] < Unplaced(m) THEN slots[m] ELSE Unplaced(m)]
  BY DEF CompactPacking
<1>2. ASSUME NEW m \in members PROVE Unplaced(m) \in Int
  <2>1. IsFiniteSet(Earlier(m)) /\ Earlier(m) \subseteq members
    BY FS_Subset
  <2>2. SumFunctionOnSet(slots, Earlier(m)) \in Int
    BY <2>1, SumInt
  <2> QED BY <2>2
<1> HIDE DEF Unplaced
<1>3. n \in members /\ slots[n] \in Nat /\ slots[n] # 0 /\ Unplaced(n) > 0
  BY <1>1
<1> QED BY <1>1, <1>2, <1>3

-----------------------------------------------------------------------------
(***************************************************************************)
(* The packing places all the replicas, on the fewest nodes.               *)
(***************************************************************************)
TotalOrder(R, S) ==
  /\ \A x, y \in S : x # y => <<x, y>> \in R \/ <<y, x>> \in R
  /\ \A x, y, z \in S : <<x, y>> \in R /\ <<y, z>> \in R => <<x, z>> \in R

\* A finite set has a last element in every total order.
LEMMA LastElement ==
  ASSUME NEW S, IsFiniteSet(S), S # {}, NEW R, TotalOrder(R, S)
  PROVE  \E last \in S : \A x \in S \ {last} : <<x, last>> \in R
<1> DEFINE P == {V \in SUBSET S :
                   V # {} => \E last \in V : \A x \in V \ {last} : <<x, last>> \in R}
<1>1. {} \in P
  OBVIOUS
<1>2. ASSUME NEW V \in SUBSET S, NEW z \in V, V \ {z} \in P PROVE V \in P
  <2>1. CASE V \ {z} = {}
    BY <2>1
  <2>2. CASE V \ {z} # {}
    <3>1. PICK last \in V \ {z} : \A x \in (V \ {z}) \ {last} : <<x, last>> \in R
      BY <1>2, <2>2
    <3>2. CASE <<last, z>> \in R
      <4>1. \A x \in V \ {z} : <<x, z>> \in R
        BY <3>1, <3>2 DEF TotalOrder
      <4> QED BY <4>1
    <3>3. CASE <<z, last>> \in R
      BY <3>1, <3>3
    <3> QED BY <3>1, <3>2, <3>3 DEF TotalOrder
  <2> QED BY <2>1, <2>2
<1>3. S \in P
  <2> HIDE DEF P
  <2> QED BY <1>1, <1>2, SubsetInduction
<1> QED BY <1>3

Order(slots, members) ==
  {pair \in members \X members : PackedBefore(slots, pair[1], pair[2])}

\* PackedBefore orders the nodes of a domain.
LEMMA PackingOrder ==
  ASSUME NEW members \in SUBSET Int, NEW slots, \A n \in members : slots[n] \in Nat
  PROVE  /\ \A m, n \in members : m # n => PackedBefore(slots, m, n) \/ PackedBefore(slots, n, m)
         /\ \A m, n \in members : PackedBefore(slots, m, n) => ~ PackedBefore(slots, n, m)
         /\ \A m, n, o \in members :
              PackedBefore(slots, m, n) /\ PackedBefore(slots, n, o) => PackedBefore(slots, m, o)
BY DEF PackedBefore

\* The packing ends at the first node with which there are slots for every replica.
EndsAt(packing, slots, members, replicas, last) ==
  LET earlier == {m \in members : PackedBefore(slots, m, last)}
      before == SumFunctionOnSet(slots, earlier)
  IN  /\ before \in Nat /\ before < replicas /\ replicas <= before + slots[last]
      /\ DOMAIN packing = {m \in earlier : slots[m] # 0} \cup {last}
      /\ \A m \in DOMAIN packing \ {last} : packing[m] = slots[m]
      /\ packing[last] = replicas - before

LEMMA PackingEnds ==
  ASSUME NEW members \in SUBSET Int, IsFiniteSet(members),
         NEW slots, \A n \in members : slots[n] \in Nat,
         NEW replicas \in Nat \ {0}, SumFunctionOnSet(slots, members) >= replicas
  PROVE  \E last \in members :
           EndsAt(CompactPacking(slots, members, replicas), slots, members, replicas, last)
<1> DEFINE Earlier(n) == {m \in members : PackedBefore(slots, m, n)}
           Before(n) == SumFunctionOnSet(slots, Earlier(n))
           enough == {n \in members : Before(n) + slots[n] >= replicas}
           forward == Order(slots, members)
           backward == {pair \in members \X members : PackedBefore(slots, pair[2], pair[1])}
<1>1. ASSUME NEW n \in members
      PROVE  /\ IsFiniteSet(Earlier(n)) /\ Before(n) \in Nat
             /\ SumFunctionOnSet(slots, Earlier(n) \cup {n}) = Before(n) + slots[n]
  <2>1. IsFiniteSet(Earlier(n)) /\ IsFiniteSet(Earlier(n) \cup {n})
    BY FS_Subset
  <2>2. (Earlier(n) \cup {n}) \ {n} = Earlier(n)
    BY PackingOrder
  <2>3. SumFunctionOnSet(slots, Earlier(n) \cup {n})
          = slots[n] + SumFunctionOnSet(slots, (Earlier(n) \cup {n}) \ {n})
    <3>1. \A m \in Earlier(n) \cup {n} : slots[m] \in Int
      OBVIOUS
    <3> HIDE DEF Earlier
    <3> QED BY <2>1, <3>1, SumRemove
  <2>4. Before(n) \in Nat
    BY <2>1, SumNonNegative
  <2> HIDE DEF Earlier
  <2> QED BY <2>1, <2>2, <2>3, <2>4
<1>2. ASSUME NEW W \in SUBSET members, W # {}
      PROVE  /\ \E n \in W : \A m \in W \ {n} : PackedBefore(slots, m, n)
             /\ \E n \in W : \A m \in W \ {n} : PackedBefore(slots, n, m)
  <2>1. IsFiniteSet(W)
    BY FS_Subset
  <2>2. TotalOrder(forward, W)
    BY PackingOrder DEF Order, TotalOrder
  <2>3. TotalOrder(backward, W)
    BY PackingOrder DEF TotalOrder
  <2>4. \A x, y \in W : /\ <<x, y>> \in forward <=> PackedBefore(slots, x, y)
                        /\ <<x, y>> \in backward <=> PackedBefore(slots, y, x)
    BY DEF Order
  <2> HIDE DEF forward, backward, Earlier, Before, enough
  <2>5. \E n \in W : \A m \in W \ {n} : <<m, n>> \in forward
    BY <1>2, <2>1, <2>2, LastElement
  <2>6. \E n \in W : \A m \in W \ {n} : <<m, n>> \in backward
    BY <1>2, <2>1, <2>3, LastElement
  <2> QED BY <2>4, <2>5, <2>6
<1>3. members # {}
  <2>1. SumFunctionOnSet(slots, {}) = 0
    BY SumEmpty
  <2> QED BY <2>1
<1>4. enough # {}
  <2>1. PICK n \in members : \A m \in members \ {n} : PackedBefore(slots, m, n)
    BY <1>2, <1>3
  <2>2. Earlier(n) \cup {n} = members
    BY <2>1, PackingOrder
  <2>3. SumFunctionOnSet(slots, members) = Before(n) + slots[n]
    BY <1>1, <2>2
  <2> QED BY <2>3
<1>5. PICK last \in enough : \A n \in enough \ {last} : PackedBefore(slots, last, n)
  BY <1>2, <1>4
<1> HIDE DEF forward, backward
<1>6. Before(last) < replicas
  <2>1. CASE Earlier(last) = {}
    <3>1. Before(last) = SumFunctionOnSet(slots, {})
      BY <2>1
    <3>2. Before(last) = 0
      BY <3>1, SumEmpty
    <3> QED BY <3>2
  <2>2. CASE Earlier(last) # {}
    <3>1. PICK n \in Earlier(last) : \A m \in Earlier(last) \ {n} : PackedBefore(slots, m, n)
      BY <1>2, <2>2
    <3>2. n \notin enough
      BY <1>5, <3>1, PackingOrder
    <3>3. Earlier(n) \cup {n} = Earlier(last)
      BY <3>1, PackingOrder
    <3>4. Before(last) = Before(n) + slots[n]
      BY <1>1, <3>1, <3>3
    <3>5. Before(n) \in Nat
      BY <1>1, <3>1
    <3> QED BY <3>1, <3>2, <3>4, <3>5
  <2> QED BY <2>1, <2>2
<1>7. ASSUME NEW m \in Earlier(last)
      PROVE  Before(m) + slots[m] <= Before(last)
  <2>1. Earlier(m) \cup {m} \subseteq Earlier(last)
    BY PackingOrder
  <2>2. SumFunctionOnSet(slots, Earlier(m) \cup {m}) <= Before(last)
    <3>1. IsFiniteSet(Earlier(last)) /\ \A n \in Earlier(last) : slots[n] \in Nat
      BY <1>1
    <3> HIDE DEF Earlier
    <3> QED BY <2>1, <3>1, SumOfPart
  <2> QED BY <1>1, <2>2
<1>8. ASSUME NEW m \in members, m \notin Earlier(last), m # last
      PROVE  Before(m) >= replicas
  <2>1. Earlier(last) \cup {last} \subseteq Earlier(m)
    <3>1. last \in members /\ PackedBefore(slots, last, m)
      BY <1>8, PackingOrder
    <3>2. ASSUME NEW o \in Earlier(last) PROVE o \in Earlier(m)
      <4>1. o \in members /\ PackedBefore(slots, o, last)
        OBVIOUS
      <4> QED BY ONLY <3>1, <4>1, PackingOrder, members \in SUBSET Int,
                      \A n \in members : slots[n] \in Nat
    <3>3. last \in Earlier(m)
      BY <3>1
    <3> QED BY <3>2, <3>3
  <2>2. SumFunctionOnSet(slots, Earlier(last) \cup {last}) <= Before(m)
    <3>1. IsFiniteSet(Earlier(m)) /\ \A n \in Earlier(m) : slots[n] \in Nat
      BY <1>1
    <3> HIDE DEF Earlier
    <3> QED BY <2>1, <3>1, SumOfPart
  <2>3. SumFunctionOnSet(slots, Earlier(last) \cup {last}) = Before(last) + slots[last]
    BY <1>1
  <2>4. Before(m) \in Nat /\ Before(last) \in Nat
    BY <1>1
  <2>5. Before(last) + slots[last] >= replicas /\ slots[last] \in Nat
    OBVIOUS
  <2> HIDE DEF Before, Earlier
  <2> QED BY <2>2, <2>3, <2>4, <2>5
<1> DEFINE packing == CompactPacking(slots, members, replicas)
           packed == {m \in members : slots[m] # 0 /\ replicas - Before(m) > 0}
<1>9. packing = [n \in packed |-> IF slots[n] < replicas - Before(n)
                                  THEN slots[n] ELSE replicas - Before(n)]
  BY DEF CompactPacking
<1>10. last \in members /\ Before(last) + slots[last] >= replicas
  OBVIOUS
<1>11. \A m \in members : Before(m) \in Nat /\ slots[m] \in Nat
  BY <1>1
<1>12. last \notin Earlier(last) /\ Earlier(last) \subseteq members
  BY PackingOrder
<1> HIDE DEF Before, Earlier, packing
<1>13. ASSUME NEW m \in Earlier(last) PROVE slots[m] < replicas - Before(m)
  <2>1. Before(m) \in Nat /\ slots[m] \in Nat /\ Before(last) \in Nat
    BY <1>10, <1>11, <1>12
  <2> QED BY <1>6, <1>7, <2>1
<1>14. packed = {m \in Earlier(last) : slots[m] # 0} \cup {last}
  <2>1. last \in packed
    BY <1>6, <1>10, <1>11
  <2>2. ASSUME NEW m \in Earlier(last), slots[m] # 0 PROVE m \in packed
    <3>1. m \in members /\ slots[m] \in Nat /\ Before(m) \in Nat
      BY <1>11, <1>12
    <3> QED BY <1>13, <2>2, <3>1
  <2>3. \A m \in packed : m \in Earlier(last) \cup {last}
    BY <1>8, <1>11
  <2> QED BY <2>1, <2>2, <2>3, <1>12
<1>15. packing[last] = replicas - Before(last)
  BY <1>6, <1>9, <1>10, <1>11, <1>14
<1>16. ASSUME NEW m \in DOMAIN packing \ {last} PROVE packing[m] = slots[m]
  <2>1. m \in packed /\ m \in Earlier(last)
    BY <1>9, <1>14
  <2> QED BY <1>9, <1>13, <2>1
<1> QED BY <1>6, <1>9, <1>10, <1>11, <1>14, <1>15, <1>16
        DEF EndsAt, Before, Earlier, packing

\* Every replica is placed.
LEMMA PackingComplete ==
  ASSUME NEW members \in SUBSET Int, IsFiniteSet(members),
         NEW slots, \A n \in members : slots[n] \in Nat,
         NEW replicas \in Nat \ {0}, SumFunctionOnSet(slots, members) >= replicas
  PROVE  SumFunction(CompactPacking(slots, members, replicas)) = replicas
<1> DEFINE packing == CompactPacking(slots, members, replicas)
           used == DOMAIN packing
<1>0. PICK last \in members : EndsAt(packing, slots, members, replicas, last)
  BY PackingEnds
<1> HIDE DEF packing
<1> DEFINE earlier == {m \in members : PackedBefore(slots, m, last)}
           before == SumFunctionOnSet(slots, earlier)
           full == {m \in earlier : slots[m] # 0}
<1>1. /\ before \in Nat /\ before < replicas /\ replicas <= before + slots[last]
      /\ used = full \cup {last}
      /\ \A m \in used \ {last} : packing[m] = slots[m]
      /\ packing[last] = replicas - before
  BY <1>0 DEF EndsAt
<1>2. last \notin earlier /\ earlier \subseteq members
  BY PackingOrder
<1>3. IsFiniteSet(earlier) /\ IsFiniteSet(full) /\ IsFiniteSet(used)
  <2>1. used \subseteq members
    BY <1>1
  <2> QED BY <2>1, FS_Subset
<1>4. before = SumFunctionOnSet(slots, full)
  <2>1. full \subseteq earlier /\ \A m \in earlier : slots[m] \in Int
    OBVIOUS
  <2>2. \A m \in earlier \ full : slots[m] = 0
    OBVIOUS
  <2> HIDE DEF earlier, full
  <2> QED BY <1>3, <2>1, <2>2, SumSupport
<1>5. SumFunctionOnSet(packing, full) = before
  <2>1. \A m \in full : packing[m] = slots[m]
    BY <1>1, <1>2
  <2> HIDE DEF full, before
  <2> QED BY <1>3, <1>4, <2>1, SumSame
<1>6. used \ {last} = full /\ last \in used
  BY <1>1, <1>2
<1>7. \A m \in used : packing[m] \in Int
  <2>1. \A m \in full : packing[m] \in Int
    BY <1>1, <1>2
  <2>2. packing[last] \in Int
    <3> HIDE DEF before
    <3> QED BY <1>1
  <2> HIDE DEF full
  <2> QED BY <1>1, <2>1, <2>2
<1> HIDE DEF full, before
<1>8. SumFunctionOnSet(packing, used) = packing[last] + SumFunctionOnSet(packing, used \ {last})
  BY <1>3, <1>6, <1>7, SumRemove
<1>9. packing[last] = replicas - before /\ before \in Nat
  BY <1>1
<1> QED BY <1>5, <1>6, <1>8, <1>9 DEF SumFunction, packing

\* No fewer nodes have as many slots: the packing fills the largest ones.
LEMMA PackingIsCompact ==
  ASSUME NEW members \in SUBSET Int, IsFiniteSet(members),
         NEW slots, \A n \in members : slots[n] \in Nat,
         NEW replicas \in Nat \ {0}, SumFunctionOnSet(slots, members) >= replicas,
         NEW A \in SUBSET members, SumFunctionOnSet(slots, A) >= replicas
  PROVE  Cardinality(DOMAIN CompactPacking(slots, members, replicas)) <= Cardinality(A)
<1> DEFINE packing == CompactPacking(slots, members, replicas)
           used == DOMAIN packing
<1>0. PICK last \in members : EndsAt(packing, slots, members, replicas, last)
  BY PackingEnds
<1> HIDE DEF packing
<1> DEFINE earlier == {m \in members : PackedBefore(slots, m, last)}
           full == {m \in earlier : slots[m] # 0}
<1>1. /\ SumFunctionOnSet(slots, earlier) \in Nat /\ SumFunctionOnSet(slots, earlier) < replicas /\ replicas <= SumFunctionOnSet(slots, earlier) + slots[last]
      /\ used = full \cup {last}
      /\ \A m \in used \ {last} : packing[m] = slots[m]
      /\ packing[last] = replicas - SumFunctionOnSet(slots, earlier)
  BY <1>0 DEF EndsAt
<1>2. last \notin earlier
  BY PackingOrder
<1>3. used = full \cup {last} /\ last \notin full
  BY <1>1, <1>2
<1>4. IsFiniteSet(full) /\ IsFiniteSet(used) /\ IsFiniteSet(A) /\ IsFiniteSet(earlier)
  <2>1. used \subseteq members
    BY <1>1
  <2> QED BY <2>1, FS_Subset
<1>5. SumFunctionOnSet(slots, full) < replicas
  <2>1. \A m \in earlier : slots[m] \in Nat
    OBVIOUS
  <2>2. /\ SumFunctionOnSet(slots, full) <= SumFunctionOnSet(slots, earlier)
        /\ SumFunctionOnSet(slots, full) \in Nat
    <3>1. full \subseteq earlier
      OBVIOUS
    <3> HIDE DEF earlier, full
    <3> QED BY <1>4, <2>1, <3>1, SumOfPart
  <2>3. SumFunctionOnSet(slots, earlier) < replicas /\ SumFunctionOnSet(slots, earlier) \in Nat
    BY <1>1
  <2> QED BY <2>2, <2>3
<1>6. Cardinality(used) = Cardinality(full) + 1
  BY <1>3, <1>4, FS_AddElement
<1>7. Cardinality(A) \in Nat /\ Cardinality(full) \in Nat
  BY <1>4, FS_CardinalityType
<1>8. ASSUME Cardinality(A) <= Cardinality(full) PROVE FALSE
  <2>1. \A m \in A \ full : slots[m] <= slots[last]
    BY DEF PackedBefore
  <2>2. \A m \in full \ A : slots[last] <= slots[m]
    BY DEF PackedBefore
  <2>3. \A m \in A \cup full : slots[m] \in Nat
    OBVIOUS
  <2>4. slots[last] \in Nat
    OBVIOUS
  <2>5. SumFunctionOnSet(slots, A) <= SumFunctionOnSet(slots, full)
    <3> HIDE DEF full
    <3> QED BY <1>4, <1>8, <2>1, <2>2, <2>3, <2>4, SumExchange
  <2>6. SumFunctionOnSet(slots, A) \in Nat /\ SumFunctionOnSet(slots, full) \in Nat
    BY <1>4, <2>3, SumNonNegative
  <2> QED BY <1>5, <2>5, <2>6
<1>9. Cardinality(full) < Cardinality(A)
  <2> HIDE DEF full
  <2> QED BY <1>7, <1>8
<1>10. Cardinality(used) <= Cardinality(A)
  <2> HIDE DEF full
  <2> QED BY <1>6, <1>7, <1>9
<1> QED BY <1>10 DEF packing

-----------------------------------------------------------------------------
(***************************************************************************)
(* What an outcome "placed" of placeJob gives: an allocation of all the    *)
(* replicas to nodes of the cluster, each charged at most what remains.    *)
(***************************************************************************)
PlacementInput(nodes, remaining, job) ==
  /\ IsFiniteSet(DOMAIN nodes) /\ DOMAIN nodes \subseteq Nat
  /\ remaining \in [DOMAIN nodes -> [Dim -> NonNegInt64]]
  /\ job.resourcesPerReplica \in [Dim -> Nat]
  /\ \E d \in Dim : job.resourcesPerReplica[d] # 0
  /\ job.replicas \in PosInt64

LEMMA PlacedAllocation ==
  ASSUME NEW nodes, NEW remaining, NEW job, PlacementInput(nodes, remaining, job),
         NEW placed \in PlaceJob(nodes, remaining, job), placed.kind = "placed"
  PROVE  /\ DOMAIN placed.allocation \subseteq DOMAIN nodes
         /\ placed.allocation \in [DOMAIN placed.allocation -> PosInt64]
         /\ \A n \in DOMAIN placed.allocation, d \in Dim :
              ResourcesForReplicas(job.resourcesPerReplica, placed.allocation[n])[d]
                \in 0 .. remaining[n][d]
         /\ SumFunction(placed.allocation) = job.replicas
         /\ placed.domain \in DOMAIN BuildDomains(nodes, job.requiredTopology)
<1> DEFINE request == job.resourcesPerReplica
           slots == NodeSlots(remaining, job)
           domains == BuildDomains(nodes, job.requiredTopology)
           candidates == Candidates(slots, domains, job.replicas)
<1>1. PICK c \in DOMAIN candidates : placed = Placed(c, candidates[c])
  <2> HIDE DEF slots, domains, candidates
  <2>1. placed # PlacementFailed
    BY DEF PlacementFailed
  <2>2. \A ds, cs : placed # Refusal(ds, cs, job)
    BY DEF Refusal, Rejected, PlacementFailed
  <2> QED BY <2>1, <2>2
          DEF PlaceJob, Selectable, slots, domains, candidates
<1>2. SumFunction(candidates[c]) = job.replicas
  <2> HIDE DEF slots, domains, candidates
  <2>1. placed # PlacementFailed
    BY DEF PlacementFailed
  <2> QED BY <2>1 DEF PlaceJob, slots, domains, candidates
<1>3. placed.allocation = candidates[c] /\ placed.domain = c
  BY <1>1 DEF Placed
<1>4. c \in DOMAIN domains /\ candidates[c] = CompactPacking(slots, domains[c], job.replicas)
  <2> HIDE DEF slots, domains
  <2> QED BY <1>1 DEF Candidates
<1>5. domains[c] \subseteq DOMAIN nodes /\ IsFiniteSet(domains[c])
  <2>1. domains[c] \subseteq DOMAIN nodes
    BY <1>4 DEF BuildDomains
  <2> QED BY <2>1, FS_Subset DEF PlacementInput
<1>6. ASSUME NEW n \in DOMAIN nodes
      PROVE  slots[n] \in NonNegInt64 /\ \A d \in Dim : request[d] * slots[n] <= remaining[n][d]
  <2>1. slots[n] = AvailableReplicaSlots(remaining[n], request)
    BY DEF NodeSlots, PlacementInput
  <2>2. remaining[n] \in [Dim -> NonNegInt64] /\ request \in [Dim -> Nat]
    BY DEF PlacementInput
  <2> HIDE DEF request, slots
  <2> QED BY <2>1, <2>2, SlotsBound
<1>7. \A n \in domains[c] : slots[n] \in Nat
  BY <1>5, <1>6, MaxInt64Assumption DEF NonNegInt64
<1>8. job.replicas \in Int
  BY MaxInt64Assumption DEF PlacementInput, PosInt64
<1> DEFINE alloc == candidates[c]
<1>9. \A n \in DOMAIN alloc : n \in DOMAIN nodes /\ alloc[n] \in Nat \ {0} /\ alloc[n] <= slots[n]
  <2> HIDE DEF slots, domains
  <2> QED BY <1>4, <1>5, <1>7, <1>8, PackingBound
<1>10. alloc = [n \in DOMAIN alloc |-> alloc[n]]
  <2> HIDE DEF slots, domains
  <2> QED BY <1>4 DEF CompactPacking
<1>11. alloc \in [DOMAIN alloc -> PosInt64]
  <2>1. \A n \in DOMAIN alloc : alloc[n] \in PosInt64
    <3> HIDE DEF slots, candidates
    <3> QED BY <1>6, <1>9, MaxInt64Assumption DEF NonNegInt64, PosInt64
  <2> HIDE DEF alloc
  <2> QED BY <1>10, <2>1
<1>12. ASSUME NEW n \in DOMAIN alloc, NEW d \in Dim
       PROVE  ResourcesForReplicas(request, alloc[n])[d] \in 0 .. remaining[n][d]
  <2>1. alloc[n] \in Nat /\ slots[n] \in Nat /\ alloc[n] <= slots[n]
    <3> HIDE DEF slots, candidates
    <3> QED BY <1>6, <1>9, MaxInt64Assumption DEF NonNegInt64
  <2>2. request[d] \in Nat
    BY DEF PlacementInput
  <2>3. request[d] * slots[n] <= remaining[n][d] /\ remaining[n][d] \in Nat
    <3>1. n \in DOMAIN nodes
      BY <1>9
    <3>2. remaining[n][d] \in Nat
      BY <3>1, MaxInt64Assumption DEF PlacementInput, NonNegInt64
    <3> QED BY <3>1, <3>2, <1>6
  <2>4. ResourcesForReplicas(request, alloc[n])[d] = request[d] * alloc[n]
    <3> HIDE DEF alloc, request
    <3> QED BY DEF ResourcesForReplicas
  <2> HIDE DEF alloc, request, slots
  <2>5. /\ request[d] * alloc[n] <= request[d] * slots[n]
        /\ request[d] * alloc[n] \in Nat /\ request[d] * slots[n] \in Nat
    BY <2>1, <2>2, TimesMonotone
  <2> QED BY <2>3, <2>4, <2>5
<1> HIDE DEF candidates
<1> QED BY <1>2, <1>3, <1>4, <1>9, <1>11, <1>12

-----------------------------------------------------------------------------
(***************************************************************************)
(* The slots of a domain tell whether a spread of the job over it exists.  *)
(***************************************************************************)
\* So many replicas fit on a node: no more than it has slots.
LEMMA SlotsExact ==
  ASSUME NEW nodes, NEW remaining, NEW job, PlacementInput(nodes, remaining, job)
  PROVE  /\ NodeSlots(remaining, job) \in [DOMAIN nodes -> NonNegInt64]
         /\ \A n \in DOMAIN nodes : NodeSlots(remaining, job)[n] \in Nat
         /\ \A n \in DOMAIN nodes, k \in Nat :
              k <= NodeSlots(remaining, job)[n]
                <=> \A d \in Dim : k * job.resourcesPerReplica[d] <= remaining[n][d]
<1> DEFINE slots == NodeSlots(remaining, job)
           request == job.resourcesPerReplica
<1>1. request \in [Dim -> Nat] /\ \E d \in Dim : request[d] # 0
  BY DEF PlacementInput
<1>2. ASSUME NEW n \in DOMAIN nodes
      PROVE  /\ slots[n] = AvailableReplicaSlots(remaining[n], request)
             /\ remaining[n] \in [Dim -> NonNegInt64]
             /\ slots[n] \in NonNegInt64 /\ slots[n] \in Nat
  <2>1. slots[n] = AvailableReplicaSlots(remaining[n], request)
    BY DEF NodeSlots, PlacementInput
  <2>2. remaining[n] \in [Dim -> NonNegInt64]
    BY DEF PlacementInput
  <2> HIDE DEF slots, request
  <2>3. slots[n] \in NonNegInt64
    BY <1>1, <2>1, <2>2, SlotsBound
  <2>4. slots[n] \in Nat
    BY <2>3, MaxInt64Assumption DEF NonNegInt64
  <2> QED BY <2>1, <2>2, <2>3, <2>4
<1>3. slots \in [DOMAIN nodes -> NonNegInt64]
  BY <1>2 DEF NodeSlots, PlacementInput
<1> HIDE DEF slots, request
<1>4. ASSUME NEW n \in DOMAIN nodes, NEW k \in Nat, k <= slots[n], NEW d \in Dim
      PROVE  k * request[d] <= remaining[n][d]
  <2>1. request[d] * slots[n] <= remaining[n][d]
    BY <1>1, <1>2, SlotsBound
  <2>2. request[d] \in Nat /\ slots[n] \in Nat /\ remaining[n][d] \in Nat
    <3>1. remaining[n][d] \in NonNegInt64
      BY <1>2
    <3> QED BY <1>1, <1>2, <3>1, MaxInt64Assumption DEF NonNegInt64
  <2>3. /\ request[d] * k <= request[d] * slots[n]
        /\ request[d] * k \in Nat /\ request[d] * slots[n] \in Nat
    BY <1>4, <2>2, TimesMonotone
  <2>4. k * request[d] = request[d] * k
    BY <2>2
  <2> QED BY <2>1, <2>2, <2>3, <2>4
<1>5. ASSUME NEW n \in DOMAIN nodes, NEW k \in Nat,
             \A d \in Dim : k * request[d] <= remaining[n][d]
      PROVE  k <= slots[n]
  BY <1>1, <1>2, <1>5, SlotsGreatest
<1> QED BY <1>2, <1>3, <1>4, <1>5 DEF slots, request

\* The nodes a spread uses have slots for all the replicas.
LEMMA SpreadNeedsSlots ==
  ASSUME NEW nodes, NEW remaining, NEW job, PlacementInput(nodes, remaining, job),
         NEW members \in SUBSET DOMAIN nodes,
         NEW spread \in Spreads(members, remaining, job)
  PROVE  LET used == {n \in DOMAIN spread : spread[n] > 0}
         IN  /\ used \subseteq members
             /\ SumFunctionOnSet(NodeSlots(remaining, job), used) >= job.replicas
             /\ SumFunctionOnSet(NodeSlots(remaining, job), members) >= job.replicas
<1> DEFINE used == {n \in DOMAIN spread : spread[n] > 0}
           slots == NodeSlots(remaining, job)
<1>1. /\ spread \in [members -> 0 .. job.replicas]
      /\ SumFunction(spread) = job.replicas
      /\ \A n \in members, d \in Dim : spread[n] * job.resourcesPerReplica[d] <= remaining[n][d]
  BY DEF Spreads
<1>2. job.replicas \in Nat
  BY MaxInt64Assumption DEF PlacementInput, PosInt64
<1>3. IsFiniteSet(members) /\ IsFiniteSet(used) /\ used \subseteq members
  BY <1>1, FS_Subset DEF PlacementInput
<1>4. \A n \in members : spread[n] \in Nat
  BY <1>1, <1>2
<1>5. \A n \in members : slots[n] \in Nat /\ spread[n] <= slots[n]
  <2> HIDE DEF slots
  <2> QED BY <1>1, <1>4, SlotsExact DEF slots
<1>6. \A n \in members \ used : spread[n] = 0
  BY <1>1, <1>4
<1> HIDE DEF used, slots
<1>7. SumFunctionOnSet(spread, members) = job.replicas
  BY <1>1 DEF SumFunction
<1>8. SumFunctionOnSet(spread, members) = SumFunctionOnSet(spread, used)
  BY <1>3, <1>4, <1>6, SumSupport
<1>9. SumFunctionOnSet(spread, used) <= SumFunctionOnSet(slots, used)
  BY <1>3, <1>4, <1>5, SumMonotone
<1>10. /\ SumFunctionOnSet(slots, used) <= SumFunctionOnSet(slots, members)
       /\ SumFunctionOnSet(slots, used) \in Nat /\ SumFunctionOnSet(slots, members) \in Nat
  BY <1>3, <1>5, SumOfPart
<1> QED BY <1>2, <1>3, <1>7, <1>8, <1>9, <1>10 DEF used, slots

\* With slots enough, the packing is a spread.
LEMMA PackingIsSpread ==
  ASSUME NEW nodes, NEW remaining, NEW job, PlacementInput(nodes, remaining, job),
         NEW members \in SUBSET DOMAIN nodes,
         SumFunctionOnSet(NodeSlots(remaining, job), members) >= job.replicas
  PROVE  LET packing == CompactPacking(NodeSlots(remaining, job), members, job.replicas)
         IN  /\ DOMAIN packing \subseteq members
             /\ \A n \in DOMAIN packing : packing[n] \in Nat \ {0}
             /\ SumFunction(packing) = job.replicas
             /\ [n \in members |-> IF n \in DOMAIN packing THEN packing[n] ELSE 0]
                  \in Spreads(members, remaining, job)
<1> DEFINE slots == NodeSlots(remaining, job)
           packing == CompactPacking(slots, members, job.replicas)
           used == DOMAIN packing
           spread == [n \in members |-> IF n \in used THEN packing[n] ELSE 0]
<1>1. /\ members \in SUBSET Int /\ IsFiniteSet(members)
      /\ job.replicas \in Nat \ {0} /\ job.replicas \in Int
  BY FS_Subset, MaxInt64Assumption DEF PlacementInput, PosInt64
<1>2. \A n \in members : slots[n] \in Nat
  <2> HIDE DEF slots
  <2> QED BY SlotsExact DEF slots
<1>3. SumFunctionOnSet(slots, members) >= job.replicas
      /\ packing = CompactPacking(slots, members, job.replicas)
  OBVIOUS
<1> HIDE DEF slots, packing
<1>4. /\ used \subseteq members
      /\ \A n \in used : packing[n] \in Nat \ {0} /\ packing[n] <= slots[n]
  BY <1>1, <1>2, <1>3, PackingBound
<1>5. SumFunction(packing) = job.replicas
  BY <1>1, <1>2, <1>3, PackingComplete
<1> HIDE DEF used
<1>6. /\ \A n \in members : spread[n] \in Nat /\ spread[n] <= slots[n]
      /\ \A n \in used : spread[n] = packing[n]
      /\ \A n \in members \ used : spread[n] = 0
  BY <1>2, <1>4
<1>7. SumFunctionOnSet(spread, members) = job.replicas
  <2> HIDE DEF spread
  <2>1. IsFiniteSet(used)
    BY <1>1, <1>4, FS_Subset
  <2>2. SumFunctionOnSet(spread, members) = SumFunctionOnSet(spread, used)
    BY <1>1, <1>4, <1>6, SumSupport
  <2>3. SumFunctionOnSet(spread, used) = SumFunctionOnSet(packing, used)
    BY <1>6, <2>1, SumSame
  <2> QED BY <1>5, <2>2, <2>3 DEF SumFunction, used
<1>8. ASSUME NEW n \in members PROVE spread[n] \in 0 .. job.replicas
  <2> HIDE DEF spread
  <2>1. SumFunctionOnSet(spread, members) >= spread[n]
    BY <1>1, <1>6, SumAtLeast
  <2> QED BY <1>1, <1>6, <1>7, <2>1
<1>9. ASSUME NEW n \in members, NEW d \in Dim
      PROVE  spread[n] * job.resourcesPerReplica[d] <= remaining[n][d]
  <2> HIDE DEF spread
  <2>1. spread[n] \in Nat /\ spread[n] <= slots[n] /\ n \in DOMAIN nodes
    BY <1>6
  <2> QED BY <2>1, SlotsExact DEF slots
<1>10. spread \in Spreads(members, remaining, job)
  <2>1. SumFunction(spread) = job.replicas
    BY <1>7 DEF SumFunction
  <2>2. spread \in [members -> 0 .. job.replicas]
    BY <1>8
  <2> HIDE DEF spread
  <2> QED BY <1>9, <2>1, <2>2 DEF Spreads
<1> QED BY <1>4, <1>5, <1>10 DEF used, packing, slots

-----------------------------------------------------------------------------
(***************************************************************************)
(* The outcomes of placeJob: it never fails with an error, and it places a *)
(* job exactly when the job fits.                                          *)
(***************************************************************************)
CandidatesOf(nodes, remaining, job) ==
  Candidates(NodeSlots(remaining, job), BuildDomains(nodes, job.requiredTopology),
             job.replicas)

LEMMA CandidatePackings ==
  ASSUME NEW nodes, NEW remaining, NEW job, PlacementInput(nodes, remaining, job),
         NEW c \in DOMAIN CandidatesOf(nodes, remaining, job)
  PROVE  LET members == BuildDomains(nodes, job.requiredTopology)[c]
         IN  /\ c \in DOMAIN BuildDomains(nodes, job.requiredTopology)
             /\ members \in SUBSET DOMAIN nodes
             /\ SumFunctionOnSet(NodeSlots(remaining, job), members) >= job.replicas
             /\ CandidatesOf(nodes, remaining, job)[c]
                  = CompactPacking(NodeSlots(remaining, job), members, job.replicas)
             /\ SumFunction(CandidatesOf(nodes, remaining, job)[c]) = job.replicas
<1> DEFINE slots == NodeSlots(remaining, job)
           domains == BuildDomains(nodes, job.requiredTopology)
           packing == CandidatesOf(nodes, remaining, job)[c]
<1>1. /\ c \in DOMAIN domains /\ SumFunctionOnSet(slots, domains[c]) >= job.replicas
      /\ packing = CompactPacking(slots, domains[c], job.replicas)
  <2> HIDE DEF slots, domains
  <2> QED BY DEF Candidates, CandidatesOf, slots, domains
<1>2. domains[c] \subseteq DOMAIN nodes
  BY <1>1 DEF BuildDomains
<1> HIDE DEF domains, packing
<1>3. domains[c] \in SUBSET DOMAIN nodes
  BY <1>2
<1> HIDE DEF slots
<1>4. SumFunction(CompactPacking(slots, domains[c], job.replicas)) = job.replicas
  <2>1. /\ domains[c] \in SUBSET Int /\ IsFiniteSet(domains[c])
        /\ job.replicas \in Nat \ {0}
    BY <1>3, FS_Subset, MaxInt64Assumption DEF PlacementInput, PosInt64
  <2>2. \A n \in domains[c] : slots[n] \in Nat
    BY <1>3, SlotsExact DEF slots
  <2> QED BY <1>1, <2>1, <2>2, PackingComplete
<1> QED BY <1>1, <1>2, <1>4 DEF domains, packing, slots

LEMMA Outcomes ==
  ASSUME NEW nodes, NEW remaining, NEW job, PlacementInput(nodes, remaining, job)
  PROVE  LET slots == NodeSlots(remaining, job)
             domains == BuildDomains(nodes, job.requiredTopology)
             candidates == CandidatesOf(nodes, remaining, job)
         IN  PlaceJob(nodes, remaining, job)
               = IF DOMAIN candidates = {}
                 THEN {Refusal(DomainSlots(slots, domains),
                               SumFunctionOnSet(slots, DOMAIN nodes), job)}
                 ELSE {Placed(c, candidates[c]) :
                         c \in Selectable(DomainSlots(slots, domains), candidates)}
<1>1. \A c \in DOMAIN CandidatesOf(nodes, remaining, job) :
        SumFunction(CandidatesOf(nodes, remaining, job)[c]) = job.replicas
  BY CandidatePackings
<1> QED BY <1>1 DEF PlaceJob, CandidatesOf

\* Without a candidate there is a reason: a job that needs no topology has
\* the whole cluster for its domain.
LEMMA RefusalIsReason ==
  ASSUME NEW nodes, NEW remaining, NEW job, PlacementInput(nodes, remaining, job),
         DOMAIN CandidatesOf(nodes, remaining, job) = {}
  PROVE  LET slots == NodeSlots(remaining, job)
             clusterSlots == SumFunctionOnSet(slots, DOMAIN nodes)
             domains == BuildDomains(nodes, job.requiredTopology)
         IN  Refusal(DomainSlots(slots, domains), clusterSlots, job)
               = Rejected(IF clusterSlots < job.replicas
                          THEN InsufficientCapacity(clusterSlots)
                          ELSE TopologyFragmented(job.requiredTopology, clusterSlots,
                                 LargestAvailableDomain(DomainSlots(slots, domains))))
<1> DEFINE slots == NodeSlots(remaining, job)
           clusterSlots == SumFunctionOnSet(slots, DOMAIN nodes)
           domains == BuildDomains(nodes, job.requiredTopology)
<1>1. CASE job.requiredTopology = NoTopology
  <2>1. GlobalTopologyDomain \in DOMAIN domains /\ domains[GlobalTopologyDomain] = DOMAIN nodes
    BY <1>1 DEF BuildDomains
  <2>2. ~ (clusterSlots >= job.replicas)
    <3> HIDE DEF slots, domains
    <3> QED BY <2>1 DEF Candidates, CandidatesOf, slots, domains
  <2>3. clusterSlots \in Int /\ job.replicas \in Int
    <3>1. \A n \in DOMAIN nodes : slots[n] \in Nat
      <4> HIDE DEF slots
      <4> QED BY SlotsExact DEF slots
    <3>2. clusterSlots \in Nat
      <4> HIDE DEF slots
      <4> QED BY <3>1, SumNonNegative DEF PlacementInput
    <3> QED BY <3>2, MaxInt64Assumption DEF PlacementInput, PosInt64
  <2>4. clusterSlots < job.replicas
    <3> HIDE DEF clusterSlots
    <3> QED BY <2>2, <2>3
  <2> HIDE DEF clusterSlots, domains, slots
  <2> QED BY <2>4 DEF Refusal, clusterSlots, domains, slots
<1>2. CASE job.requiredTopology # NoTopology
  BY <1>2 DEF Refusal
<1> QED BY <1>1, <1>2

\* The domains that buildDomains makes are the sets of nodes that may host a
\* whole job.
LEMMA DomainsAreEligible ==
  ASSUME NEW nodes, NEW key
  PROVE  LET domains == BuildDomains(nodes, key)
         IN  EligibleSets(nodes, key) = {domains[d] : d \in DOMAIN domains}
<1> DEFINE domains == BuildDomains(nodes, key)
<1>1. ASSUME key = NoTopology
      PROVE  EligibleSets(nodes, key) = {domains[d] : d \in DOMAIN domains}
  BY <1>1 DEF EligibleSets, BuildDomains
<1>2. ASSUME key # NoTopology
      PROVE  EligibleSets(nodes, key) = {domains[d] : d \in DOMAIN domains}
  <2>1. DOMAIN domains = {Label(nodes[n].topology, key) : n \in DOMAIN nodes}
    BY <1>2 DEF BuildDomains
  <2>2. \A m \in DOMAIN nodes :
          domains[Label(nodes[m].topology, key)]
            = {n \in DOMAIN nodes : Label(nodes[n].topology, key) = Label(nodes[m].topology, key)}
    BY <1>2 DEF BuildDomains
  <2>3. EligibleSets(nodes, key)
          = {domains[Label(nodes[m].topology, key)] : m \in DOMAIN nodes}
    <3> HIDE DEF domains
    <3> QED BY <1>2, <2>2 DEF EligibleSets
  <2> HIDE DEF domains
  <2> QED BY <2>1, <2>3
<1> QED BY <1>1, <1>2

LEMMA FeasibleMeansCandidate ==
  ASSUME NEW nodes, NEW remaining, NEW job, PlacementInput(nodes, remaining, job)
  PROVE  Feasible(nodes, remaining, job) <=> DOMAIN CandidatesOf(nodes, remaining, job) # {}
<1> DEFINE slots == NodeSlots(remaining, job)
           key == job.requiredTopology
           domains == BuildDomains(nodes, key)
<1>1. EligibleSets(nodes, key) = {domains[d] : d \in DOMAIN domains}
  BY DomainsAreEligible
<1>2. \A d \in DOMAIN domains : domains[d] \in SUBSET DOMAIN nodes
  BY DEF BuildDomains
<1> HIDE DEF domains, slots, key
<1>3. ASSUME NEW d \in DOMAIN domains
      PROVE  Spreads(domains[d], remaining, job) # {}
               <=> SumFunctionOnSet(slots, domains[d]) >= job.replicas
  <2>1. domains[d] \in SUBSET DOMAIN nodes
    BY <1>2
  <2>2. ASSUME NEW spread \in Spreads(domains[d], remaining, job)
        PROVE  SumFunctionOnSet(slots, domains[d]) >= job.replicas
    BY <2>1, SpreadNeedsSlots DEF slots
  <2>3. ASSUME SumFunctionOnSet(slots, domains[d]) >= job.replicas
        PROVE  Spreads(domains[d], remaining, job) # {}
    BY <2>1, <2>3, PackingIsSpread DEF slots
  <2> QED BY <2>2, <2>3
<1>4. DOMAIN CandidatesOf(nodes, remaining, job)
        = {d \in DOMAIN domains : SumFunctionOnSet(slots, domains[d]) >= job.replicas}
  BY DEF Candidates, CandidatesOf, slots, domains, key
<1> QED BY <1>1, <1>3, <1>4 DEF Feasible, key

LEMMA PlacedExactlyWhenFeasible ==
  ASSUME NEW nodes, NEW remaining, NEW job, PlacementInput(nodes, remaining, job),
         NEW placed \in PlaceJob(nodes, remaining, job)
  PROVE  placed.kind = IF Feasible(nodes, remaining, job) THEN "placed" ELSE "rejected"
<1>1. CASE DOMAIN CandidatesOf(nodes, remaining, job) = {}
  <2>1. \E reason : placed = Rejected(reason)
    BY <1>1, Outcomes, RefusalIsReason
  <2> QED BY <1>1, <2>1, FeasibleMeansCandidate DEF Rejected
<1>2. CASE DOMAIN CandidatesOf(nodes, remaining, job) # {}
  <2>1. \E c, a : placed = Placed(c, a)
    BY <1>2, Outcomes
  <2> QED BY <1>2, <2>1, FeasibleMeansCandidate DEF Placed
<1> QED BY <1>1, <1>2

(***************************************************************************)
(* A job that does not fit does not fit when less remains.                 *)
(***************************************************************************)
LEMMA FeasibleMonotone ==
  ASSUME NEW nodes, NEW job, job.resourcesPerReplica \in [Dim -> Nat], job.replicas \in Nat,
         NEW less \in [DOMAIN nodes -> [Dim -> NonNegInt64]],
         NEW more \in [DOMAIN nodes -> [Dim -> NonNegInt64]],
         \A n \in DOMAIN nodes, d \in Dim : less[n][d] <= more[n][d],
         Feasible(nodes, less, job)
  PROVE  Feasible(nodes, more, job)
<1>1. PICK members \in EligibleSets(nodes, job.requiredTopology) :
        Spreads(members, less, job) # {}
  BY DEF Feasible
<1>2. members \subseteq DOMAIN nodes
  BY DEF EligibleSets
<1>3. PICK spread \in Spreads(members, less, job) : TRUE
  BY <1>1
<1>4. /\ spread \in [members -> 0 .. job.replicas] /\ SumFunction(spread) = job.replicas
      /\ \A n \in members, d \in Dim : spread[n] * job.resourcesPerReplica[d] <= less[n][d]
  BY <1>3 DEF Spreads
<1>5. ASSUME NEW n \in members, NEW d \in Dim
      PROVE  spread[n] * job.resourcesPerReplica[d] <= more[n][d]
  <2>1. spread[n] \in Nat /\ job.resourcesPerReplica[d] \in Nat
    BY <1>4
  <2>2. spread[n] * job.resourcesPerReplica[d] \in Int
    BY <2>1, TimesInt
  <2>3. less[n][d] \in NonNegInt64 /\ more[n][d] \in NonNegInt64 /\ less[n][d] <= more[n][d]
    BY <1>2
  <2> QED BY <1>4, <2>2, <2>3, MaxInt64Assumption DEF NonNegInt64
<1>6. spread \in Spreads(members, more, job)
  BY <1>4, <1>5 DEF Spreads
<1> QED BY <1>6 DEF Feasible

-----------------------------------------------------------------------------
(***************************************************************************)
(* What is selected: one domain, the best fit.                             *)
(***************************************************************************)
LEMMA FiniteImage ==
  ASSUME NEW S, IsFiniteSet(S), NEW f
  PROVE  IsFiniteSet({f[x] : x \in S})
<1> DEFINE image == {f[x] : x \in S}
           g == [x \in S |-> f[x]]
<1>1. g \in Surjection(S, image)
  BY DEF Surjection
<1> HIDE DEF g, image
<1>2. IsFiniteSet(image)
  BY <1>1, FS_Surjection
<1> QED BY <1>2 DEF image

\* A finite set of integers has a maximum, which Max chooses, and a minimum.
LEMMA MaxProperty ==
  ASSUME NEW S \in SUBSET Int, S # {}, IsFiniteSet(S)
  PROVE  /\ Max(S) \in S /\ \A y \in S : y <= Max(S)
         /\ Min(S) \in S /\ \A y \in S : Min(S) <= y
<1> DEFINE up == {pair \in S \X S : pair[1] < pair[2]}
           down == {pair \in S \X S : pair[2] < pair[1]}
<1>1. TotalOrder(up, S) /\ TotalOrder(down, S)
  BY DEF TotalOrder
<1>2. \A x, y \in S : /\ <<x, y>> \in up <=> x < y
                      /\ <<x, y>> \in down <=> y < x
  OBVIOUS
<1> HIDE DEF up, down
<1>3. \A x \in S : x \in Int
  OBVIOUS
<1>4. \E x \in S : \A y \in S : x >= y
  <2>1. PICK x \in S : \A y \in S \ {x} : <<y, x>> \in up
    BY <1>1, LastElement
  <2>2. ASSUME NEW y \in S PROVE x >= y
    <3>1. y = x \/ y < x
      BY <1>2, <2>1
    <3> QED BY <1>3, <3>1
  <2> QED BY <2>2
<1>5. \E z \in S : \A y \in S : z <= y
  <2>1. PICK z \in S : \A y \in S \ {z} : <<y, z>> \in down
    BY <1>1, LastElement
  <2>2. ASSUME NEW y \in S PROVE z <= y
    <3>1. y = z \/ z < y
      BY <1>2, <2>1
    <3> QED BY <1>3, <3>1
  <2> QED BY <2>2
<1>6. Max(S) \in S /\ \A y \in S : Max(S) >= y
  BY <1>4 DEF Max
<1>7. Min(S) \in S /\ \A y \in S : Min(S) <= y
  BY <1>5 DEF Min
<1>8. \A y \in S : y <= Max(S)
  BY <1>3, <1>6
<1> QED BY <1>6, <1>7, <1>8

LEMMA DomainsFinite ==
  ASSUME NEW nodes, IsFiniteSet(DOMAIN nodes), NEW key
  PROVE  /\ IsFiniteSet(DOMAIN BuildDomains(nodes, key))
         /\ key # NoTopology => DOMAIN BuildDomains(nodes, key)
                                  = {Label(nodes[n].topology, key) : n \in DOMAIN nodes}
         /\ DOMAIN nodes # {} => DOMAIN BuildDomains(nodes, key) # {}
         /\ \A d \in DOMAIN BuildDomains(nodes, key) :
              /\ BuildDomains(nodes, key)[d]
                   = IF key = NoTopology THEN DOMAIN nodes
                     ELSE {n \in DOMAIN nodes : Label(nodes[n].topology, key) = d}
              /\ BuildDomains(nodes, key)[d] \in SUBSET DOMAIN nodes
              /\ IsFiniteSet(BuildDomains(nodes, key)[d])
<1> DEFINE domains == BuildDomains(nodes, key)
<1>1. CASE key = NoTopology
  BY <1>1, FS_Singleton DEF BuildDomains
<1>2. CASE key # NoTopology
  <2> DEFINE labels == [n \in DOMAIN nodes |-> Label(nodes[n].topology, key)]
  <2>1. DOMAIN domains = {labels[n] : n \in DOMAIN nodes}
    BY <1>2 DEF BuildDomains
  <2>2. IsFiniteSet({labels[n] : n \in DOMAIN nodes})
    <3> HIDE DEF labels
    <3> QED BY FiniteImage
  <2>3. DOMAIN domains = {Label(nodes[n].topology, key) : n \in DOMAIN nodes}
    BY <1>2 DEF BuildDomains
  <2>4. \A d \in DOMAIN domains :
          domains[d] = {n \in DOMAIN nodes : Label(nodes[n].topology, key) = d}
    BY <1>2 DEF BuildDomains
  <2>5. \A d \in DOMAIN domains : domains[d] \subseteq DOMAIN nodes
    BY <2>4
  <2> HIDE DEF domains, labels
  <2>6. \A d \in DOMAIN domains : IsFiniteSet(domains[d])
    BY <2>5, FS_Subset
  <2>7. DOMAIN nodes # {} => DOMAIN domains # {}
    BY <2>3
  <2> QED BY <1>2, <2>1, <2>2, <2>3, <2>4, <2>5, <2>6, <2>7 DEF domains
<1> QED BY <1>1, <1>2

\* Preferred is a strict order in which no two candidates are alike.
LEMMA PreferredOrder ==
  ASSUME NEW S \in SUBSET Int, NEW domainSlots, \A c \in S : domainSlots[c] \in Int,
         NEW candidates, \A c \in S : Cardinality(DOMAIN candidates[c]) \in Int
  PROVE  /\ \A c, d \in S : c # d => Preferred(domainSlots, candidates, c, d)
                                       \/ Preferred(domainSlots, candidates, d, c)
         /\ \A c, d \in S : Preferred(domainSlots, candidates, c, d)
                              => ~ Preferred(domainSlots, candidates, d, c)
         /\ \A c, d, e \in S :
              Preferred(domainSlots, candidates, c, d) /\ Preferred(domainSlots, candidates, d, e)
                => Preferred(domainSlots, candidates, c, e)
BY DEF Preferred

LEMMA OneSelectable ==
  ASSUME NEW domainSlots, NEW candidates,
         DOMAIN candidates \subseteq Int, DOMAIN candidates # {},
         IsFiniteSet(DOMAIN candidates),
         \A c \in DOMAIN candidates : /\ domainSlots[c] \in Int
                                      /\ Cardinality(DOMAIN candidates[c]) \in Int
  PROVE  \E c \in DOMAIN candidates :
           /\ Selectable(domainSlots, candidates) = {c}
           /\ \A d \in DOMAIN candidates \ {c} : Preferred(domainSlots, candidates, c, d)
<1> DEFINE S == DOMAIN candidates
           Better(c, d) == Preferred(domainSlots, candidates, c, d)
           order == {pair \in S \X S : Better(pair[2], pair[1])}
<1>1. /\ \A c, d \in S : c # d => Better(c, d) \/ Better(d, c)
      /\ \A c, d \in S : Better(c, d) => ~ Better(d, c)
      /\ \A c, d, e \in S : Better(c, d) /\ Better(d, e) => Better(c, e)
  BY PreferredOrder
<1>2. Selectable(domainSlots, candidates) = {c \in S : \A d \in S : ~ Better(d, c)}
  BY DEF Selectable
<1> HIDE DEF Better
<1>3. TotalOrder(order, S) /\ \A x, y \in S : <<x, y>> \in order <=> Better(y, x)
  BY <1>1 DEF TotalOrder
<1> HIDE DEF order
<1>4. PICK c \in S : \A d \in S \ {c} : <<d, c>> \in order
  BY <1>3, LastElement
<1>5. \A d \in S \ {c} : Better(c, d)
  BY <1>3, <1>4
<1>6. Selectable(domainSlots, candidates) = {c}
  BY <1>1, <1>2, <1>5
<1> QED BY <1>5, <1>6 DEF Better

\* Placement has one outcome; if the job fits, it is the packing of the best
\* of the domains it fits in.
LEMMA OutcomeIsBest ==
  ASSUME NEW nodes, NEW remaining, NEW job, PlacementInput(nodes, remaining, job),
         DOMAIN BuildDomains(nodes, job.requiredTopology) \subseteq Int
  PROVE  /\ \E outcome : PlaceJob(nodes, remaining, job) = {outcome}
         /\ \A placed \in PlaceJob(nodes, remaining, job) : placed.kind = "placed" =>
              LET domains == BuildDomains(nodes, job.requiredTopology)
                  candidates == CandidatesOf(nodes, remaining, job)
              IN  /\ placed.domain \in DOMAIN candidates
                  /\ placed.allocation = candidates[placed.domain]
                  /\ \A d \in DOMAIN candidates \ {placed.domain} :
                       Preferred(DomainSlots(NodeSlots(remaining, job), domains), candidates,
                                 placed.domain, d)
<1> DEFINE slots == NodeSlots(remaining, job)
           domains == BuildDomains(nodes, job.requiredTopology)
           candidates == CandidatesOf(nodes, remaining, job)
           domainSlots == DomainSlots(slots, domains)
<1>1. CASE DOMAIN candidates = {}
  <2>1. PlaceJob(nodes, remaining, job) = {Refusal(domainSlots, SumFunctionOnSet(slots, DOMAIN nodes), job)}
    BY <1>1, Outcomes
  <2>2. \E reason : Refusal(domainSlots, SumFunctionOnSet(slots, DOMAIN nodes), job) = Rejected(reason)
    BY <1>1, RefusalIsReason
  <2>3. PICK reason : PlaceJob(nodes, remaining, job) = {Rejected(reason)}
    BY <2>1, <2>2
  <2>4. Rejected(reason).kind # "placed"
    BY DEF Rejected
  <2> QED BY <2>3, <2>4
<1>2. CASE DOMAIN candidates # {}
  <2>1. PlaceJob(nodes, remaining, job)
          = {Placed(c, candidates[c]) : c \in Selectable(domainSlots, candidates)}
    BY <1>2, Outcomes
  <2>2. ASSUME NEW c \in DOMAIN candidates
        PROVE  /\ c \in DOMAIN domains /\ c \in Int
               /\ domainSlots[c] \in Int
               /\ Cardinality(DOMAIN candidates[c]) \in Int
    <3>1. /\ c \in DOMAIN domains /\ domains[c] \in SUBSET DOMAIN nodes
          /\ SumFunctionOnSet(slots, domains[c]) >= job.replicas
          /\ candidates[c] = CompactPacking(slots, domains[c], job.replicas)
      BY CandidatePackings
    <3>2. domainSlots[c] = SumFunctionOnSet(slots, domains[c])
      BY <3>1 DEF DomainSlots
    <3>3. IsFiniteSet(domains[c]) /\ \A n \in domains[c] : slots[n] \in Nat
      <4>1. IsFiniteSet(domains[c])
        <5> HIDE DEF domains
        <5> QED BY <3>1, FS_Subset DEF PlacementInput
      <4> HIDE DEF slots, domains
      <4> QED BY <3>1, <4>1, SlotsExact DEF slots
    <3>4. SumFunctionOnSet(slots, domains[c]) \in Nat
      <4> HIDE DEF slots, domains
      <4> QED BY <3>3, SumNonNegative
    <3>5. DOMAIN candidates[c] \subseteq domains[c]
      BY <3>1 DEF CompactPacking
    <3>6. Cardinality(DOMAIN candidates[c]) \in Nat
      <4> HIDE DEF slots, domains, candidates
      <4>1. IsFiniteSet(DOMAIN candidates[c])
        BY <3>3, <3>5, FS_Subset
      <4> QED BY <4>1, FS_CardinalityType
    <3> HIDE DEF slots, domains, candidates, domainSlots
    <3> QED BY <3>1, <3>2, <3>4, <3>6 DEF domains
  <2>3. IsFiniteSet(DOMAIN candidates)
    <3>1. IsFiniteSet(DOMAIN domains)
      BY DomainsFinite DEF PlacementInput
    <3>2. DOMAIN candidates \subseteq DOMAIN domains
      BY <2>2
    <3> HIDE DEF domains, candidates
    <3> QED BY <3>1, <3>2, FS_Subset
  <2> HIDE DEF slots, domains, candidates, domainSlots
  <2>4. PICK c \in DOMAIN candidates :
          /\ Selectable(domainSlots, candidates) = {c}
          /\ \A d \in DOMAIN candidates \ {c} : Preferred(domainSlots, candidates, c, d)
    <3>1. DOMAIN candidates \subseteq Int
      BY <2>2
    <3> QED BY <1>2, <2>2, <2>3, <3>1, OneSelectable
  <2>5. PlaceJob(nodes, remaining, job) = {Placed(c, candidates[c])}
    BY <2>1, <2>4
  <2>6. Placed(c, candidates[c]).domain = c /\ Placed(c, candidates[c]).allocation = candidates[c]
    BY DEF Placed
  <2>7. \A placed \in PlaceJob(nodes, remaining, job) :
          placed.domain = c /\ placed.allocation = candidates[c]
    BY <2>5, <2>6
  <2> QED BY <2>4, <2>5, <2>7 DEF slots, domains, candidates, domainSlots
<1> QED BY <1>1, <1>2

-----------------------------------------------------------------------------
(***************************************************************************)
(* The references a packing is measured against.                           *)
(***************************************************************************)
\* The slots of a node are the most replicas it can host.
LEMMA SlotsAreMost ==
  ASSUME NEW nodes, NEW remaining, NEW job, PlacementInput(nodes, remaining, job),
         NEW n \in DOMAIN nodes
  PROVE  Max({k \in 0 .. MaxInt64 :
                \A d \in Dim : k * job.resourcesPerReplica[d] <= remaining[n][d]})
           = NodeSlots(remaining, job)[n]
<1> DEFINE hosted == {k \in 0 .. MaxInt64 :
                        \A d \in Dim : k * job.resourcesPerReplica[d] <= remaining[n][d]}
           most == NodeSlots(remaining, job)[n]
<1>1. most \in NonNegInt64 /\ most \in Nat
  <2>1. NodeSlots(remaining, job) \in [DOMAIN nodes -> NonNegInt64]
    BY SlotsExact
  <2> QED BY <2>1, SlotsExact
<1>2. \A k \in 0 .. MaxInt64 : k \in hosted <=> k <= most
  <2>1. \A k \in 0 .. MaxInt64 : k \in Nat
    BY MaxInt64Assumption
  <2> QED BY <2>1, SlotsExact
<1> HIDE DEF hosted, most
<1>3. most \in hosted /\ \A k \in hosted : k <= most /\ k \in Nat
  <2>1. \A k \in hosted : k \in 0 .. MaxInt64
    BY DEF hosted
  <2>2. most \in 0 .. MaxInt64 /\ \A k \in 0 .. MaxInt64 : k \in Nat
    BY <1>1, MaxInt64Assumption DEF NonNegInt64
  <2> QED BY <1>1, <1>2, <2>1, <2>2
<1>4. Max(hosted) \in hosted /\ \A k \in hosted : Max(hosted) >= k
  <2>1. \E x \in hosted : \A y \in hosted : x >= y
    BY <1>1, <1>3
  <2> QED BY <2>1 DEF Max
<1>5. Max(hosted) = most
  <2>1. /\ Max(hosted) \in Nat /\ Max(hosted) <= most /\ Max(hosted) >= most
    BY <1>3, <1>4
  <2> QED BY <1>1, <2>1
<1> QED BY <1>5 DEF hosted, most

\* No spread uses fewer nodes than the packing.
LEMMA PackingUsesFewest ==
  ASSUME NEW nodes, NEW remaining, NEW job, PlacementInput(nodes, remaining, job),
         NEW members \in SUBSET DOMAIN nodes,
         SumFunctionOnSet(NodeSlots(remaining, job), members) >= job.replicas
  PROVE  Min({Cardinality({n \in DOMAIN spread : spread[n] > 0}) :
                spread \in Spreads(members, remaining, job)})
           = Cardinality(DOMAIN CompactPacking(NodeSlots(remaining, job), members, job.replicas))
<1> DEFINE slots == NodeSlots(remaining, job)
           packing == CompactPacking(slots, members, job.replicas)
           UsedBy(spread) == {n \in DOMAIN spread : spread[n] > 0}
           spreads == Spreads(members, remaining, job)
           sizes == {Cardinality(UsedBy(spread)) : spread \in spreads}
           padded == [n \in members |-> IF n \in DOMAIN packing THEN packing[n] ELSE 0]
           fewest == Cardinality(DOMAIN packing)
<1>1. /\ members \in SUBSET Int /\ IsFiniteSet(members)
      /\ job.replicas \in Nat \ {0}
  BY FS_Subset, MaxInt64Assumption DEF PlacementInput, PosInt64
<1>2. \A n \in members : slots[n] \in Nat
  <2> HIDE DEF slots
  <2> QED BY SlotsExact DEF slots
<1>3. SumFunctionOnSet(slots, members) >= job.replicas
  OBVIOUS
<1>4. /\ DOMAIN packing \subseteq members
      /\ \A n \in DOMAIN packing : packing[n] \in Nat \ {0}
      /\ padded \in spreads
  BY PackingIsSpread
<1>5. UsedBy(padded) = DOMAIN packing
  <2> HIDE DEF packing
  <2> QED BY <1>4
<1>6. fewest \in sizes
  <2> HIDE DEF padded, UsedBy, spreads, packing
  <2> QED BY <1>4, <1>5
<1>7. ASSUME NEW spread \in spreads
      PROVE  fewest <= Cardinality(UsedBy(spread)) /\ Cardinality(UsedBy(spread)) \in Nat
  <2>1. /\ UsedBy(spread) \subseteq members
        /\ SumFunctionOnSet(slots, UsedBy(spread)) >= job.replicas
    BY SpreadNeedsSlots
  <2>2. UsedBy(spread) \in SUBSET members
    BY <2>1
  <2> HIDE DEF UsedBy, slots
  <2>3. fewest <= Cardinality(UsedBy(spread))
    BY <1>1, <1>2, <1>3, <2>1, <2>2, PackingIsCompact
  <2>4. Cardinality(UsedBy(spread)) \in Nat
    BY <1>1, <2>1, FS_Subset, FS_CardinalityType
  <2> QED BY <2>3, <2>4
<1> HIDE DEF fewest, UsedBy, spreads
<1>8. sizes \subseteq Nat /\ sizes # {} /\ \A x \in sizes : fewest <= x /\ x \in Nat
  BY <1>6, <1>7
<1> HIDE DEF sizes
<1>9. Min(sizes) \in sizes /\ \A x \in sizes : Min(sizes) <= x
  BY <1>8, MinProperty
<1>10. Min(sizes) = fewest
  <2>1. /\ Min(sizes) \in Nat /\ fewest \in Nat
        /\ Min(sizes) <= fewest /\ fewest <= Min(sizes)
    BY <1>6, <1>8, <1>9
  <2> QED BY <2>1
<1> QED BY <1>10 DEF fewest, sizes, UsedBy, spreads

-----------------------------------------------------------------------------
(***************************************************************************)
(* What both schedulers need of the node states and of the outcomes.       *)
(***************************************************************************)
\* A name that may occur repeatedly is still one of finitely many.
LEMMA NodeStatesType ==
  ASSUME NEW cluster \in Seq(NodeInput), ValidateCluster(cluster)
  PROVE  LET names == {cluster[k].name : k \in DOMAIN cluster}
         IN  /\ IsFiniteSet(names) /\ names \subseteq Nat
             /\ MakeNodeStates(cluster) \in [names -> NodeInfo]
             /\ IdleResources(MakeNodeStates(cluster)) \in [names -> [Dim -> NonNegInt64]]
<1> DEFINE Names == {cluster[k].name : k \in DOMAIN cluster}
<1>2. IsFiniteSet(Names)
  <2>1. DOMAIN cluster = 1 .. Len(cluster) /\ Len(cluster) \in Nat
    OBVIOUS
  <2>2. IsFiniteSet(DOMAIN cluster)
    BY <2>1, FS_Interval
  <2> DEFINE nameOf == [k \in DOMAIN cluster |-> cluster[k].name]
  <2>3. nameOf \in Surjection(DOMAIN cluster, Names)
    BY DEF Surjection
  <2> HIDE DEF nameOf, Names
  <2> QED BY <2>2, <2>3, FS_Surjection
<1>3. ASSUME NEW k \in DOMAIN cluster
      PROVE  /\ cluster[k].name \in Nat
             /\ cluster[k].topology \in Topologies
             /\ cluster[k].capacity \in [Dim -> NonNegInt64]
  <2>1. cluster[k] \in NodeInput
    OBVIOUS
  <2>2. cluster[k].capacity \in [Dim -> Int64]
    BY <2>1 DEF NodeInput, Resources
  <2>3. \A d \in Dim : cluster[k].capacity[d] >= 0
    BY DEF ValidateCluster
  <2>4. cluster[k].capacity \in [Dim -> NonNegInt64]
    BY <2>2, <2>3, MaxInt64Assumption DEF Int64, NonNegInt64
  <2> QED BY <2>1, <2>4 DEF NodeInput
<1> DEFINE states == MakeNodeStates(cluster)
<1>4. states \in [Names -> NodeInfo]
  <2>1. ASSUME NEW n \in Names
        PROVE  \E k \in DOMAIN cluster :
                 states[n] = [topology |-> cluster[k].topology,
                              capacity |-> cluster[k].capacity]
    BY DEF MakeNodeStates
  <2>2. ASSUME NEW n \in Names PROVE states[n] \in NodeInfo
    <3>1. PICK k \in DOMAIN cluster :
            states[n] = [topology |-> cluster[k].topology,
                         capacity |-> cluster[k].capacity]
      BY <2>1
    <3>2. cluster[k].topology \in Topologies /\ cluster[k].capacity \in [Dim -> NonNegInt64]
      BY <1>3
    <3> HIDE DEF states
    <3> QED BY <3>1, <3>2 DEF NodeInfo
  <2>3. states = [n \in Names |-> states[n]]
    BY DEF MakeNodeStates
  <2> HIDE DEF states, Names
  <2> QED BY <2>2, <2>3
<1>5. IdleResources(states) \in [Names -> [Dim -> NonNegInt64]]
  <2> HIDE DEF Names, states
  <2> QED BY <1>4 DEF IdleResources, NodeInfo
<1> QED BY <1>2, <1>3, <1>4, <1>5

\* What idle nodes have adds up to the cluster's validated total.
LEMMA IdleTotal ==
  ASSUME NEW cluster \in Seq(NodeInput), ValidateCluster(cluster), NEW d \in Dim,
         NEW states, states = MakeNodeStates(cluster)
  PROVE  /\ SumFunction([n \in DOMAIN states |-> states[n].capacity[d]])
              = TotalCapacity(cluster, d)
         /\ TotalCapacity(cluster, d) \in NonNegInt64
<1> DEFINE names == {cluster[k].name : k \in DOMAIN cluster}
           nameOf == [k \in DOMAIN cluster |-> cluster[k].name]
           capacity == [k \in DOMAIN cluster |-> cluster[k].capacity[d]]
           idle == [n \in DOMAIN states |-> states[n].capacity[d]]
<1>1. DOMAIN states = names
  BY DEF MakeNodeStates
<1>2. ASSUME NEW k \in DOMAIN cluster PROVE capacity[k] \in Nat
  <2>1. cluster[k] \in NodeInput
    OBVIOUS
  <2>2. cluster[k].capacity \in [Dim -> Int64]
    BY <2>1 DEF NodeInput, Resources
  <2>3. cluster[k].capacity[d] >= 0 /\ cluster[k].capacity[d] \in Int
    BY <2>2, MaxInt64Assumption DEF ValidateCluster, Int64
  <2> QED BY <2>3
<1>3. \A k, l \in DOMAIN cluster : nameOf[k] = nameOf[l] => k = l
  BY DEF ValidateCluster, UniqueNames
<1>4. ASSUME NEW k \in DOMAIN cluster PROVE idle[nameOf[k]] = capacity[k]
  <2>1. cluster[k].name \in names
    OBVIOUS
  <2>2. \A j \in DOMAIN cluster : cluster[j].name = cluster[k].name => j = k
    BY <1>3
  <2>3. states[cluster[k].name].capacity = cluster[k].capacity
    BY <2>1, <2>2 DEF MakeNodeStates
  <2> QED BY <1>1, <2>1, <2>3
<1>5. names = {nameOf[k] : k \in DOMAIN cluster}
  OBVIOUS
<1>6. DOMAIN cluster = 1 .. Len(cluster) /\ Len(cluster) \in Nat
  OBVIOUS
<1>7. IsFiniteSet(DOMAIN cluster)
  BY <1>6, FS_Interval
<1>8. DOMAIN idle = names /\ DOMAIN capacity = DOMAIN cluster
  BY <1>1
<1>9. TotalCapacity(cluster, d) = SumFunction(capacity) /\ TotalCapacity(cluster, d) <= MaxInt64
  BY DEF ValidateCluster, TotalCapacity
<1> HIDE DEF nameOf, capacity, idle, names
<1>10. SumFunctionOnSet(idle, names) = SumFunctionOnSet(capacity, DOMAIN cluster)
  <2>1. PICK K : K = DOMAIN cluster
    OBVIOUS
  <2>2. /\ IsFiniteSet(K) /\ \A k \in K : capacity[k] \in Int
        /\ \A k, l \in K : nameOf[k] = nameOf[l] => k = l
        /\ \A k \in K : idle[nameOf[k]] = capacity[k]
        /\ names = {nameOf[k] : k \in K}
    BY <1>2, <1>3, <1>4, <1>5, <1>7, <2>1
  <2>3. SumFunctionOnSet(idle, names) = SumFunctionOnSet(capacity, K)
    BY ONLY <2>2, SumByName
  <2> QED BY <2>1, <2>3
<1>11. SumFunctionOnSet(capacity, DOMAIN cluster) \in Nat
  BY <1>2, <1>7, SumNonNegative
<1>12. /\ SumFunction(idle) = SumFunctionOnSet(idle, names)
       /\ SumFunction(capacity) = SumFunctionOnSet(capacity, DOMAIN cluster)
  BY <1>8 DEF SumFunction
<1>13. SumFunction(idle) = TotalCapacity(cluster, d) /\ TotalCapacity(cluster, d) \in Nat
  BY ONLY <1>9, <1>10, <1>11, <1>12
<1>14. TotalCapacity(cluster, d) \in NonNegInt64
  BY <1>9, <1>13, MaxInt64Assumption DEF NonNegInt64
<1> QED BY <1>13, <1>14 DEF idle

\* What ValidateJobs establishes for a job.
LEMMA ValidStaticJob ==
  ASSUME NEW jobs \in Seq(Job), ValidateJobs(jobs), NEW i \in DOMAIN jobs
  PROVE  /\ jobs[i] \in Job
         /\ jobs[i].replicas \in PosInt64
         /\ jobs[i].resourcesPerReplica \in [Dim -> Nat]
         /\ \E d \in Dim : jobs[i].resourcesPerReplica[d] # 0
<1>1. jobs[i] \in Job
  OBVIOUS
<1>2. /\ jobs[i].replicas > 0
      /\ \A d \in Dim : jobs[i].resourcesPerReplica[d] >= 0
      /\ \E d \in Dim : jobs[i].resourcesPerReplica[d] # 0
  BY DEF ValidateJobs
<1>3. jobs[i].resourcesPerReplica \in [Dim -> Int64] /\ jobs[i].replicas \in Int64
  BY <1>1 DEF Job, Resources
<1>4. jobs[i].resourcesPerReplica \in [Dim -> Nat]
  BY <1>2, <1>3, MaxInt64Assumption DEF Int64
<1>5. \A x \in Int64 : x > 0 => x \in PosInt64
  BY MaxInt64Assumption DEF Int64, PosInt64
<1> QED BY <1>1, <1>2, <1>3, <1>4, <1>5

\* What all the replicas of a validated job ask for is in range.
LEMMA RequestInRange ==
  ASSUME NEW jobs \in Seq(Job), ValidateJobs(jobs), NEW i \in DOMAIN jobs, NEW d \in Dim
  PROVE  jobs[i].resourcesPerReplica[d] * jobs[i].replicas \in NonNegInt64
<1> DEFINE r == jobs[i].resourcesPerReplica[d]
           m == jobs[i].replicas
<1>1. r \in Nat /\ m \in Nat /\ MaxInt64 \in Nat
  BY ValidStaticJob, MaxInt64Assumption DEF PosInt64
<1>2. r > 0 => m <= MaxInt64 \div r
  BY DEF ValidateJobs
<1> HIDE DEF r, m
<1>3. ASSUME r = 0 PROVE r * m \in NonNegInt64
  BY <1>1, <1>3 DEF NonNegInt64
<1>4. ASSUME r # 0 PROVE r * m \in NonNegInt64
  <2> DEFINE q == MaxInt64 \div r
  <2>1. q \in Nat /\ r * q <= MaxInt64
    BY <1>1, <1>4, DivisionBound
  <2>2. m <= q
    BY <1>1, <1>2, <1>4
  <2> HIDE DEF q
  <2>3. r * m <= r * q /\ r * m \in Nat /\ r * q \in Nat
    BY <1>1, <2>1, <2>2, TimesMonotone
  <2> QED BY <1>1, <2>1, <2>3 DEF NonNegInt64
<1> QED BY <1>3, <1>4 DEF r, m

\* A refusal carries one of the two reasons of a placement.
LEMMA RefusalReason ==
  ASSUME NEW someNodes, NEW rem, NEW job,
         NEW placed \in PlaceJob(someNodes, rem, job), placed.kind = "rejected"
  PROVE  placed.reason.code \in ReasonCodes \ {"none", "head_of_line_blocked"}
<1>1. placed # PlacementFailed
  BY DEF PlacementFailed
<1>2. \A d, a : placed # Placed(d, a)
  BY DEF Placed
<1> DEFINE slots == NodeSlots(rem, job)
           domains == BuildDomains(someNodes, job.requiredTopology)
<1>3. placed = Refusal(DomainSlots(slots, domains), SumFunctionOnSet(slots, DOMAIN someNodes), job)
  <2> HIDE DEF slots, domains
  <2> QED BY <1>1, <1>2 DEF PlaceJob, slots, domains
<1> HIDE DEF slots, domains
<1>4. PICK reason : /\ placed = Rejected(reason)
                    /\ \/ reason.code = "insufficient_capacity"
                       \/ reason.code = "topology_fragmented"
  BY <1>1, <1>3 DEF Refusal, InsufficientCapacity, TopologyFragmented
<1> QED BY <1>4 DEF Rejected, ReasonCodes, NoReason

\* What is charged for a placement is there.
LEMMA ConsumedType ==
  ASSUME NEW N, NEW rem \in [N -> [Dim -> NonNegInt64]], NEW job, NEW alloc,
         \A n \in DOMAIN alloc, d \in Dim :
           ResourcesForReplicas(job.resourcesPerReplica, alloc[n])[d] \in 0 .. rem[n][d]
  PROVE  Consumed(rem, job, alloc) \in [N -> [Dim -> NonNegInt64]]
<1>1. ASSUME NEW n \in N, n \in DOMAIN alloc, NEW d \in Dim
      PROVE  rem[n][d] - ResourcesForReplicas(job.resourcesPerReplica, alloc[n])[d]
               \in NonNegInt64
  <2> DEFINE use == ResourcesForReplicas(job.resourcesPerReplica, alloc[n])[d]
  <2>1. use \in 0 .. rem[n][d] /\ rem[n][d] \in NonNegInt64
    BY <1>1
  <2> HIDE DEF use
  <2>2. rem[n][d] - use \in NonNegInt64
    BY <2>1, MaxInt64Assumption DEF NonNegInt64
  <2> QED BY <2>2 DEF use
<1> QED BY <1>1 DEF Consumed

\* A charge leaves no node more than it had.
LEMMA ConsumedIsLess ==
  ASSUME NEW N, NEW rem \in [N -> [Dim -> NonNegInt64]], NEW job, NEW alloc,
         \A n \in DOMAIN alloc, d \in Dim :
           ResourcesForReplicas(job.resourcesPerReplica, alloc[n])[d] \in 0 .. rem[n][d]
  PROVE  \A n \in N, d \in Dim : Consumed(rem, job, alloc)[n][d] <= rem[n][d]
<1> SUFFICES ASSUME NEW n \in N, NEW d \in Dim
             PROVE  Consumed(rem, job, alloc)[n][d] <= rem[n][d]
  OBVIOUS
<1>1. rem[n][d] \in Nat
  <2>1. rem[n][d] \in NonNegInt64
    OBVIOUS
  <2> QED BY <2>1, MaxInt64Assumption DEF NonNegInt64
<1>2. CASE n \in DOMAIN alloc
  <2>1. PICK use : use = ResourcesForReplicas(job.resourcesPerReplica, alloc[n])[d]
    OBVIOUS
  <2>2. use \in 0 .. rem[n][d]
    BY <1>2, <2>1
  <2>3. Consumed(rem, job, alloc)[n][d] = rem[n][d] - use
    BY <1>2, <2>1 DEF Consumed
  <2> QED BY <1>1, <2>2, <2>3
<1>3. CASE n \notin DOMAIN alloc
  BY <1>1, <1>3 DEF Consumed
<1> QED BY <1>2, <1>3

\* A domain name is a label of some node, or that of the whole cluster.
LEMMA DomainType ==
  ASSUME NEW N, NEW info \in [N -> NodeInfo],
         NEW key \in TopologyKeys \cup {NoTopology},
         NEW d \in DOMAIN BuildDomains(info, key)
  PROVE  d \in Domains
<1>1. CASE key = NoTopology
  BY <1>1 DEF BuildDomains, Domains
<1>2. CASE key # NoTopology
  <2>1. PICK n \in N : d = Label(info[n].topology, key)
    BY <1>2 DEF BuildDomains
  <2>2. info[n].topology[key] \in Nat \cup {MissingKey}
    BY <1>2 DEF NodeInfo, Topologies
  <2> QED BY <2>1, <2>2 DEF Label, Domains, EmptyName
<1> QED BY <1>1, <1>2

\* What a placed job gets is the packing of a candidate domain.
LEMMA PlacedCandidate ==
  ASSUME NEW nodes, NEW remaining, NEW job, PlacementInput(nodes, remaining, job),
         NEW placed \in PlaceJob(nodes, remaining, job), placed.kind = "placed"
  PROVE  \E c \in DOMAIN CandidatesOf(nodes, remaining, job) :
           placed = Placed(c, CandidatesOf(nodes, remaining, job)[c])
<1>1. CASE DOMAIN CandidatesOf(nodes, remaining, job) = {}
  <2>1. \E reason : placed = Rejected(reason)
    BY <1>1, Outcomes, RefusalIsReason
  <2> QED BY <2>1 DEF Rejected
<1>2. CASE DOMAIN CandidatesOf(nodes, remaining, job) # {}
  BY <1>2, Outcomes DEF Selectable
<1> QED BY <1>1, <1>2

\* A job is placed in one domain: every node it gets has the label reported.
LEMMA PlacedInDomain ==
  ASSUME NEW nodes, NEW remaining, NEW job, PlacementInput(nodes, remaining, job),
         NEW placed \in PlaceJob(nodes, remaining, job), placed.kind = "placed",
         NEW n \in DOMAIN placed.allocation
  PROVE  placed.domain = IF job.requiredTopology = NoTopology THEN GlobalTopologyDomain
                         ELSE Label(nodes[n].topology, job.requiredTopology)
<1>1. PICK c \in DOMAIN CandidatesOf(nodes, remaining, job) :
        placed = Placed(c, CandidatesOf(nodes, remaining, job)[c])
  BY PlacedCandidate
<1>2. placed.domain = c /\ placed.allocation = CandidatesOf(nodes, remaining, job)[c]
  BY <1>1 DEF Placed
<1>3. PICK members : members = BuildDomains(nodes, job.requiredTopology)[c]
  OBVIOUS
<1>4. /\ c \in DOMAIN BuildDomains(nodes, job.requiredTopology)
      /\ placed.allocation = CompactPacking(NodeSlots(remaining, job), members, job.replicas)
  BY <1>2, <1>3, CandidatePackings
<1>5. n \in members
  BY <1>4 DEF CompactPacking
<1> QED BY <1>2, <1>3, <1>4, <1>5 DEF BuildDomains

\* What a placed job gets is a spread over one of the sets of nodes that may
\* host it whole.
LEMMA PlacedSpread ==
  ASSUME NEW nodes, NEW remaining, NEW job, PlacementInput(nodes, remaining, job),
         NEW placed \in PlaceJob(nodes, remaining, job), placed.kind = "placed"
  PROVE  \E members \in EligibleSets(nodes, job.requiredTopology) :
           /\ members \subseteq DOMAIN nodes
           /\ DOMAIN placed.allocation \subseteq members
           /\ [n \in members |->
                 IF n \in DOMAIN placed.allocation THEN placed.allocation[n] ELSE 0]
                \in Spreads(members, remaining, job)
<1>1. PICK c \in DOMAIN CandidatesOf(nodes, remaining, job) :
        placed.allocation = CandidatesOf(nodes, remaining, job)[c]
  BY PlacedCandidate DEF Placed
<1>2. PICK members : members = BuildDomains(nodes, job.requiredTopology)[c]
  OBVIOUS
<1>3. /\ c \in DOMAIN BuildDomains(nodes, job.requiredTopology)
      /\ members \in SUBSET DOMAIN nodes
      /\ SumFunctionOnSet(NodeSlots(remaining, job), members) >= job.replicas
      /\ placed.allocation = CompactPacking(NodeSlots(remaining, job), members, job.replicas)
  BY <1>1, <1>2, CandidatePackings
<1>4. members \in EligibleSets(nodes, job.requiredTopology)
  BY <1>2, <1>3, DomainsAreEligible
<1>5. PICK packing : packing = placed.allocation
  OBVIOUS
<1>6. /\ DOMAIN packing \subseteq members
      /\ [n \in members |-> IF n \in DOMAIN packing THEN packing[n] ELSE 0]
           \in Spreads(members, remaining, job)
  BY <1>3, <1>5, PackingIsSpread
<1> QED BY <1>3, <1>4, <1>5, <1>6

-----------------------------------------------------------------------------
(***************************************************************************)
(* Giving back.                                                            *)
(***************************************************************************)
\* A release is accepted when what is given back has been taken: every node
\* stays within its capacity, and all the replicas are there.
LEMMA ReleaseIsAccepted ==
  ASSUME NEW N, NEW info \in [N -> NodeInfo], NEW rem \in [N -> [Dim -> NonNegInt64]],
         \A n \in N, d \in Dim : rem[n][d] <= info[n].capacity[d],
         NEW job, job.resourcesPerReplica \in [Dim -> Nat],
         \E d \in Dim : job.resourcesPerReplica[d] # 0, job.replicas \in PosInt64,
         NEW alloc, DOMAIN alloc \subseteq N, alloc \in [DOMAIN alloc -> PosInt64],
         \A n \in DOMAIN alloc, d \in Dim :
           ResourcesForReplicas(job.resourcesPerReplica, alloc[n])[d]
             <= info[n].capacity[d] - rem[n][d],
         SumFunction(alloc) = job.replicas
  PROVE  ReleaseAccepted(info, rem, job, alloc)
<1> PICK request : request = job.resourcesPerReplica
  OBVIOUS
<1>1. ASSUME NEW n \in N, NEW d \in Dim
      PROVE  /\ rem[n][d] \in Nat /\ info[n].capacity[d] \in Nat
             /\ info[n].capacity[d] <= MaxInt64 /\ MaxInt64 \in Nat
             /\ rem[n][d] <= info[n].capacity[d]
  <2>1. info[n].capacity \in [Dim -> NonNegInt64]
    BY DEF NodeInfo
  <2>2. info[n].capacity[d] \in NonNegInt64 /\ rem[n][d] \in NonNegInt64
    BY <2>1
  <2> QED BY <2>2, MaxInt64Assumption DEF NonNegInt64
<1>2. ASSUME NEW n \in DOMAIN alloc PROVE ResourcesForReplicasFit(request, alloc[n])
  <2>1. alloc[n] \in Nat \ {0}
    <3>1. alloc[n] \in PosInt64
      OBVIOUS
    <3> QED BY <3>1, MaxInt64Assumption DEF PosInt64
  <2>2. ASSUME NEW d \in Dim, request[d] > 0 PROVE alloc[n] <= MaxInt64 \div request[d]
    <3>1. ResourcesForReplicas(request, alloc[n])[d] = request[d] * alloc[n]
      BY DEF ResourcesForReplicas
    <3>2. request[d] \in Nat \ {0} /\ MaxInt64 \in Nat
      BY <2>2, MaxInt64Assumption
    <3>3. request[d] * alloc[n] \in Nat /\ alloc[n] * request[d] = request[d] * alloc[n]
      BY <2>1, <3>2
    <3>4. request[d] * alloc[n] <= info[n].capacity[d] - rem[n][d] /\ n \in N
      BY <3>1
    <3>5. alloc[n] * request[d] <= MaxInt64
      <4> PICK use : use = request[d] * alloc[n]
        OBVIOUS
      <4>1. use \in Nat /\ use <= info[n].capacity[d] - rem[n][d]
        BY <3>3, <3>4
      <4>2. use <= MaxInt64
        BY <1>1, <3>4, <4>1
      <4> QED BY <3>3, <4>2
    <3> QED BY <2>1, <3>2, <3>5, DivisionGreatest
  <2> QED BY <2>1, <2>2 DEF ResourcesForReplicasFit
<1>3. \A n \in N : ValidateNodeResourceState(info[n].capacity, rem[n])
  BY <1>1 DEF ValidateNodeResourceState
<1>4. (\A d \in Dim : request[d] >= 0) /\ job.replicas > 0
  BY MaxInt64Assumption DEF PosInt64
<1> QED BY <1>2, <1>3, <1>4 DEF ReleaseAccepted

\* What was just placed can be released, and nothing is lost.
LEMMA RollbackAccepted ==
  ASSUME NEW nodes, NEW remaining, NEW job, PlacementInput(nodes, remaining, job),
         nodes \in [DOMAIN nodes -> NodeInfo],
         \A n \in DOMAIN nodes, d \in Dim : remaining[n][d] <= nodes[n].capacity[d],
         NEW placed \in PlaceJob(nodes, remaining, job), placed.kind = "placed"
  PROVE  LET charged == Consumed(remaining, job, placed.allocation)
         IN  /\ ReleaseAccepted(nodes, charged, job, placed.allocation)
             /\ Released(charged, job, placed.allocation) = remaining
<1> PICK request : request = job.resourcesPerReplica
  OBVIOUS
<1> PICK alloc : alloc = placed.allocation
  OBVIOUS
<1> PICK charged : charged = Consumed(remaining, job, alloc)
  OBVIOUS
<1>1. /\ DOMAIN alloc \subseteq DOMAIN nodes
      /\ alloc \in [DOMAIN alloc -> PosInt64]
      /\ \A n \in DOMAIN alloc, d \in Dim :
           ResourcesForReplicas(request, alloc[n])[d] \in 0 .. remaining[n][d]
      /\ SumFunction(alloc) = job.replicas
  BY PlacedAllocation
<1>2. /\ request \in [Dim -> Nat] /\ \E d \in Dim : request[d] # 0
      /\ job.replicas \in PosInt64
      /\ remaining \in [DOMAIN nodes -> [Dim -> NonNegInt64]]
  BY DEF PlacementInput
<1>3. charged \in [DOMAIN nodes -> [Dim -> NonNegInt64]]
  BY <1>1, <1>2, ConsumedType
<1>4. ASSUME NEW n \in DOMAIN nodes, NEW d \in Dim
      PROVE  /\ remaining[n][d] \in Nat /\ nodes[n].capacity[d] \in Nat
             /\ remaining[n][d] <= nodes[n].capacity[d]
  <2>1. nodes[n].capacity \in [Dim -> NonNegInt64]
    BY DEF NodeInfo
  <2>2. nodes[n].capacity[d] \in NonNegInt64 /\ remaining[n][d] \in NonNegInt64
    BY <1>2, <2>1
  <2> QED BY <2>2, MaxInt64Assumption DEF NonNegInt64
<1>5. ASSUME NEW n \in DOMAIN nodes, NEW d \in Dim
      PROVE  /\ charged[n][d] <= nodes[n].capacity[d]
             /\ n \in DOMAIN alloc =>
                  /\ ResourcesForReplicas(request, alloc[n])[d]
                       <= nodes[n].capacity[d] - charged[n][d]
                  /\ charged[n][d] + ResourcesForReplicas(request, alloc[n])[d]
                       = remaining[n][d]
  <2>1. CASE n \in DOMAIN alloc
    <3>1. PICK use : use = ResourcesForReplicas(request, alloc[n])[d]
      OBVIOUS
    <3>2. use \in 0 .. remaining[n][d]
      BY <1>1, <2>1, <3>1
    <3>3. charged[n][d] = remaining[n][d] - use
      BY <1>2, <2>1, <3>1 DEF Consumed
    <3> QED BY <1>4, <3>1, <3>2, <3>3
  <2>2. CASE n \notin DOMAIN alloc
    BY <1>2, <1>4, <2>2 DEF Consumed
  <2> QED BY <2>1, <2>2
<1>6. ReleaseAccepted(nodes, charged, job, alloc)
  BY <1>1, <1>2, <1>3, <1>5, ReleaseIsAccepted
<1>7. Released(charged, job, alloc) = remaining
  <2>1. ASSUME NEW n \in DOMAIN nodes
        PROVE  Released(charged, job, alloc)[n] = remaining[n]
    <3>1. CASE n \in DOMAIN alloc
      <4>1. Released(charged, job, alloc)[n]
              = [d \in Dim |-> charged[n][d] + ResourcesForReplicas(request, alloc[n])[d]]
        BY <1>3, <3>1 DEF Released
      <4>2. \A d \in Dim : charged[n][d] + ResourcesForReplicas(request, alloc[n])[d]
                             = remaining[n][d]
        BY <1>5, <3>1
      <4>3. remaining[n] = [d \in Dim |-> remaining[n][d]]
        BY <1>2
      <4> QED BY <4>1, <4>2, <4>3
    <3>2. CASE n \notin DOMAIN alloc
      <4>1. Released(charged, job, alloc)[n] = charged[n]
        BY <1>3, <3>2 DEF Released
      <4>2. charged[n] = remaining[n]
        BY <1>2, <3>2 DEF Consumed
      <4> QED BY <4>1, <4>2
    <3> QED BY <3>1, <3>2
  <2>2. Released(charged, job, alloc) = [n \in DOMAIN nodes |-> Released(charged, job, alloc)[n]]
    BY <1>3 DEF Released
  <2>3. remaining = [n \in DOMAIN nodes |-> remaining[n]]
    BY <1>2
  <2> QED BY <2>1, <2>2, <2>3
<1> QED BY <1>6, <1>7
=============================================================================
