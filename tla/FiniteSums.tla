------------------------------ MODULE FiniteSums -----------------------------
(***************************************************************************)
(* What the proofs of this project use of sums: SumFunctionOnSet of the    *)
(* community modules, by which the models add up fills, payments and open  *)
(* positions as the code does with reduce and with an aggregate query.     *)
(* The module Functions defines it by a recursive function over the        *)
(* subsets of its index set; everything below is derived from that         *)
(* definition, by an induction over finite sets that is itself derived     *)
(* from the least element of a set of natural numbers.                     *)
(***************************************************************************)
EXTENDS Integers, FiniteSets, Functions, FiniteSetTheorems, WellFoundedInduction, TLAPS

(* A set of natural numbers that is not empty has a least element.         *)
LEMMA LeastElement ==
  ASSUME NEW T \in SUBSET Nat, T # {}
  PROVE  \E x \in T : \A y \in T : x <= y
<1>1. PICK R : /\ IsWellFoundedOn(R, Nat)
               /\ \A x, y \in Nat : <<y, x>> \in R <=> y < x
  <2>1. IsWellFoundedOn(OpToRel(<, Nat), Nat)
    BY NatLessThanWellFounded
  <2>2. \A x, y \in Nat : <<y, x>> \in OpToRel(<, Nat) <=> y < x
    BY DEF OpToRel
  <2> DEFINE Q == OpToRel(<, Nat)
  <2> SUFFICES /\ IsWellFoundedOn(Q, Nat)
               /\ \A x, y \in Nat : <<y, x>> \in Q <=> y < x
    OBVIOUS
  <2> QED
    BY <2>1, <2>2
<1>2. PICK x \in T : \A y \in T : ~ (<<y, x>> \in R)
  BY <1>1, WFMin
<1>3. ASSUME NEW y \in T
      PROVE  x <= y
  <2>1. x \in Nat /\ y \in Nat
    OBVIOUS
  <2>2. ~(y < x)
    BY <1>1, <1>2, <2>1, Zenon
  <2> QED
    BY <2>1, <2>2
<1> QED
  BY <1>3


(* Induction over a finite set: what holds of the empty set, and of a set  *)
(* whenever it holds of the set without any one element, holds.            *)
LEMMA SetInduction ==
  ASSUME NEW S, IsFiniteSet(S), NEW Good \in SUBSET (SUBSET S), {} \in Good,
         \A u \in SUBSET S : u # {} /\ (\A x \in u : u \ {x} \in Good) => u \in Good
  PROVE  S \in Good
<1> SUFFICES ASSUME S \notin Good PROVE FALSE
  OBVIOUS
<1> DEFINE Bad == {u \in SUBSET S : u \notin Good}
           Sizes == {Cardinality(u) : u \in Bad}
<1>1. \A u \in SUBSET S : IsFiniteSet(u) /\ Cardinality(u) \in Nat
  BY FS_Subset, FS_CardinalityType
<1>2. Sizes \in SUBSET Nat
  BY <1>1
<1>3. Cardinality(S) \in Sizes
  OBVIOUS
<1>4. PICK n \in Sizes : \A m \in Sizes : n <= m
  <2> HIDE DEF Sizes
  <2> QED BY <1>2, <1>3, LeastElement
<1>5. PICK u \in Bad : n = Cardinality(u)
  BY <1>4
<1>6. ASSUME NEW x \in u
      PROVE  u \ {x} \in Good
  <2>1. u \ {x} \in SUBSET S /\ IsFiniteSet(u)
    BY <1>1, <1>5
  <2>2. Cardinality(u \ {x}) = Cardinality(u) - 1
    BY <1>6, <2>1, FS_RemoveElement
  <2>3. Cardinality(u \ {x}) \notin Sizes
    <3> HIDE DEF Sizes
    <3> QED BY <1>1, <1>4, <1>5, <2>1, <2>2
  <2> QED
    BY <2>1, <2>3
<1>7. u # {} /\ u \in SUBSET S
  BY <1>5
<1> QED
  BY <1>5, <1>6, <1>7

(* A sum over a set of indices, as the community modules define it: by a   *)
(* function on its subsets that takes out one element after the other.     *)
Any(s) == CHOOSE x \in s : TRUE
Adds(g, f, S) ==
  g = [s \in SUBSET S |-> IF s = {} THEN 0 ELSE f[Any(s)] + g[s \ {Any(s)}]]
Adder(f, S) == CHOOSE g : Adds(g, f, S)
(* SumFunctionOnSet is this function's value at the whole index set.       *)
LEMMA SumIsAdded ==
  ASSUME NEW f, NEW S
  PROVE  SumFunctionOnSet(f, S) = Adder(f, S)[S]
BY DEF SumFunctionOnSet, FoldFunctionOnSet, MapThenFoldSet, Adder, Adds, Any

(* The chosen element of a set that is not empty belongs to it.            *)
LEMMA AnyIsIn ==
  ASSUME NEW s, s # {}
  PROVE  Any(s) \in s
BY DEF Any

(* What the recursion says of one subset ...                               *)
LEMMA AddsStep ==
  ASSUME NEW g, NEW f, NEW S, Adds(g, f, S), NEW s \in SUBSET S
  PROVE  /\ s = {} => g[s] = 0
         /\ s # {} => g[s] = f[Any(s)] + g[s \ {Any(s)}]
BY DEF Adds

(* ... and of one that is not empty, in the form the proofs below use.     *)
LEMMA AddsMore ==
  ASSUME NEW g, NEW f, NEW S, Adds(g, f, S), NEW s \in SUBSET S, s # {}
  PROVE  g[s] = f[Any(s)] + g[s \ {Any(s)}]
BY DEF Adds

(* Two such functions over different index sets agree on common subsets.   *)
LEMMA AddsAlike ==
  ASSUME NEW f, NEW A, NEW B, NEW g, NEW h, Adds(g, f, A), Adds(h, f, B),
         NEW S, IsFiniteSet(S), S \subseteq A, S \subseteq B
  PROVE  g[S] = h[S]
<1> DEFINE Good == {s \in SUBSET S : g[s] = h[s]}
<1>1. {} \in Good
  BY AddsStep
<1>2. ASSUME NEW u \in SUBSET S, u # {}, \A x \in u : u \ {x} \in Good
      PROVE  u \in Good
  <2>1. Any(u) \in u /\ g[u \ {Any(u)}] = h[u \ {Any(u)}]
    BY <1>2, AnyIsIn
  <2>2. u \in SUBSET A /\ u \in SUBSET B
    OBVIOUS
  <2>a. u # {} /\ Adds(g, f, A) /\ Adds(h, f, B)
    BY <1>2
  <2> HIDE DEF Good
  <2>3. g[u] = f[Any(u)] + g[u \ {Any(u)}]
    BY <2>a, <2>2, AddsMore
  <2>4. h[u] = f[Any(u)] + h[u \ {Any(u)}]
    BY <2>a, <2>2, AddsMore
  <2>5. g[u] = h[u]
    BY <2>1, <2>3, <2>4
  <2> QED
    BY <2>5 DEF Good
<1>3. S \in Good
  <2>1. Good \in SUBSET (SUBSET S)
    OBVIOUS
  <2> HIDE DEF Good
  <2> QED BY <1>1, <1>2, <2>1, SetInduction
<1> QED
  BY <1>3

(* The chosen function exists: it satisfies the recursion.                 *)
LEMMA AdderAdds ==
  ASSUME NEW f, NEW S, IsFiniteSet(S)
  PROVE  Adds(Adder(f, S), f, S)
<1> DEFINE Sum(s) == SumFunctionOnSet(f, s)
           Good == {s \in SUBSET S : \A v \in SUBSET s : Adds(Adder(f, v), f, v)}
<1>1. ASSUME NEW u \in SUBSET S, \A v \in SUBSET u : v # u => Adds(Adder(f, v), f, v)
      PROVE  Adds(Adder(f, u), f, u)
  <2> DEFINE g == [s \in SUBSET u |-> IF s = {} THEN 0 ELSE f[Any(s)] + Sum(s \ {Any(s)})]
  <2>1. ASSUME NEW v \in SUBSET u, v # u
        PROVE  Sum(v) = IF v = {} THEN 0 ELSE f[Any(v)] + Sum(v \ {Any(v)})
    <3>1. Adds(Adder(f, v), f, v) /\ Sum(v) = Adder(f, v)[v]
      BY <1>1, <2>1, SumIsAdded
    <3>2. CASE v = {}
      BY <3>1, <3>2, AddsStep
    <3>3. CASE v # {}
      <4> DEFINE w == v \ {Any(v)}
      <4>1. w \in SUBSET v /\ w \in SUBSET u /\ w # u
        BY <2>1, <3>3, AnyIsIn
      <4>2. Adds(Adder(f, w), f, w) /\ Sum(w) = Adder(f, w)[w]
        BY <1>1, <4>1, SumIsAdded
      <4>3. IsFiniteSet(w)
        BY <4>1, FS_Subset
      <4>4. Adder(f, v)[w] = Adder(f, w)[w]
        <5> HIDE DEF w
        <5> QED BY <3>1, <4>1, <4>2, <4>3, AddsAlike
      <4>5. Adder(f, v)[v] = f[Any(v)] + Adder(f, v)[w]
        BY <3>1, <3>3, AddsStep
      <4> HIDE DEF w
      <4>6. Sum(v) = f[Any(v)] + Sum(w)
        BY <3>1, <4>2, <4>4, <4>5
      <4> QED
        BY <3>3, <4>6 DEF w
    <3> QED
      BY <3>2, <3>3
  <2>2. ASSUME NEW s \in SUBSET u, s # {}
        PROVE  g[s \ {Any(s)}] = Sum(s \ {Any(s)})
    <3> DEFINE v == s \ {Any(s)}
    <3>1. v \in SUBSET u /\ v # u
      BY <2>2, AnyIsIn
    <3>2. Sum(v) = IF v = {} THEN 0 ELSE f[Any(v)] + Sum(v \ {Any(v)})
      BY <2>1, <3>1
    <3> HIDE DEF v
    <3>3. g[v] = Sum(v)
      BY <3>1, <3>2
    <3> QED
      BY <3>3 DEF v
  <2>3. g = [s \in SUBSET u |-> IF s = {} THEN 0 ELSE f[Any(s)] + g[s \ {Any(s)}]]
    <3> DEFINE h == [s \in SUBSET u |-> IF s = {} THEN 0 ELSE f[Any(s)] + g[s \ {Any(s)}]]
    <3>1. \A s \in SUBSET u : g[s] = h[s]
      BY <2>2
    <3> QED
      BY <3>1
  <2>4. Adds(g, f, u)
    <3> HIDE DEF g
    <3> QED BY <2>3 DEF Adds
  <2> HIDE DEF g
  <2> QED
    BY <2>4 DEF Adder
<1>2. {} \in Good
  BY <1>1
<1>3. ASSUME NEW u \in SUBSET S, u # {}, \A x \in u : u \ {x} \in Good
      PROVE  u \in Good
  <2>1. ASSUME NEW v \in SUBSET u, v # u
        PROVE  Adds(Adder(f, v), f, v)
    <3>1. PICK x \in u : x \notin v
      BY <2>1
    <3>2. u \ {x} \in Good /\ v \in SUBSET (u \ {x})
      BY <1>3, <3>1
    <3> QED
      BY <3>2
  <2>2. Adds(Adder(f, u), f, u)
    BY <1>1, <2>1
  <2> QED
    BY <2>1, <2>2
<1>4. S \in Good
  <2>1. Good \in SUBSET (SUBSET S)
    OBVIOUS
  <2> HIDE DEF Good
  <2> QED BY <1>2, <1>3, <2>1, SetInduction
<1> QED
  BY <1>4

(* The sum over no index is zero.                                          *)
LEMMA SumEmpty ==
  ASSUME NEW f
  PROVE  SumFunctionOnSet(f, {}) = 0
<1>1. Adds(Adder(f, {}), f, {})
  BY AdderAdds, FS_EmptySet
<1>2. Adder(f, {})[{}] = 0
  BY <1>1, AddsStep
<1> QED
  BY <1>2, SumIsAdded

(* A sum over more is the value of one element and the sum of the others.  *)
LEMMA SumAny ==
  ASSUME NEW f, NEW S, IsFiniteSet(S), S # {}
  PROVE  SumFunctionOnSet(f, S) = f[Any(S)] + SumFunctionOnSet(f, S \ {Any(S)})
<1> DEFINE R == S \ {Any(S)}
<1>1. R \subseteq S /\ IsFiniteSet(R)
  BY FS_Subset
<1> HIDE DEF R
<1>2. Adds(Adder(f, S), f, S) /\ Adds(Adder(f, R), f, R)
  BY <1>1, AdderAdds
<1>3. Adder(f, S)[R] = Adder(f, R)[R]
  BY <1>1, <1>2, AddsAlike
<1>4. Adder(f, S)[S] = f[Any(S)] + Adder(f, S)[S \ {Any(S)}]
  BY <1>2, AddsMore
<1>5. SumFunctionOnSet(f, S) = Adder(f, S)[S] /\ SumFunctionOnSet(f, R) = Adder(f, R)[R]
  BY SumIsAdded
<1> QED
  BY <1>3, <1>4, <1>5 DEF R

(* Sums of integers are integers.                                          *)
LEMMA SumType ==
  ASSUME NEW f, NEW S, IsFiniteSet(S), \A x \in S : f[x] \in Int
  PROVE  SumFunctionOnSet(f, S) \in Int
<1> DEFINE Good == {s \in SUBSET S : SumFunctionOnSet(f, s) \in Int}
<1>1. {} \in Good
  BY SumEmpty
<1>2. ASSUME NEW u \in SUBSET S, u # {}, \A x \in u : u \ {x} \in Good
      PROVE  u \in Good
  <2>1. Any(u) \in u /\ IsFiniteSet(u)
    BY <1>2, AnyIsIn, FS_Subset
  <2>2. SumFunctionOnSet(f, u \ {Any(u)}) \in Int /\ f[Any(u)] \in Int
    BY <1>2, <2>1
  <2>3. SumFunctionOnSet(f, u) = f[Any(u)] + SumFunctionOnSet(f, u \ {Any(u)})
    BY <1>2, <2>1, SumAny
  <2> QED
    BY <2>2, <2>3
<1>3. S \in Good
  <2>1. Good \in SUBSET (SUBSET S)
    OBVIOUS
  <2> HIDE DEF Good
  <2> QED BY <1>1, <1>2, <2>1, SetInduction
<1> QED
  BY <1>3

(* Sums of natural numbers are natural numbers.                            *)
LEMMA SumNat ==
  ASSUME NEW f, NEW S, IsFiniteSet(S), \A x \in S : f[x] \in Nat
  PROVE  SumFunctionOnSet(f, S) \in Nat
<1> DEFINE Good == {s \in SUBSET S : SumFunctionOnSet(f, s) \in Nat}
<1>1. {} \in Good
  BY SumEmpty
<1>2. ASSUME NEW u \in SUBSET S, u # {}, \A x \in u : u \ {x} \in Good
      PROVE  u \in Good
  <2>1. Any(u) \in u /\ IsFiniteSet(u)
    BY <1>2, AnyIsIn, FS_Subset
  <2>2. SumFunctionOnSet(f, u \ {Any(u)}) \in Nat /\ f[Any(u)] \in Nat
    BY <1>2, <2>1
  <2>3. SumFunctionOnSet(f, u) = f[Any(u)] + SumFunctionOnSet(f, u \ {Any(u)})
    BY <1>2, <2>1, SumAny
  <2> QED
    BY <2>2, <2>3
<1>3. S \in Good
  <2>1. Good \in SUBSET (SUBSET S)
    OBVIOUS
  <2> HIDE DEF Good
  <2> QED BY <1>1, <1>2, <2>1, SetInduction
<1> QED
  BY <1>3

(* A sum is the value of any of its elements and the sum of the others.    *)
LEMMA SumTakes ==
  ASSUME NEW f, NEW S, IsFiniteSet(S), \A x \in S : f[x] \in Int, NEW e \in S
  PROVE  SumFunctionOnSet(f, S) = f[e] + SumFunctionOnSet(f, S \ {e})
<1> DEFINE Sum(s) == SumFunctionOnSet(f, s)
           Good == {s \in SUBSET S : \A x \in s : Sum(s) = f[x] + Sum(s \ {x})}
<1>1. {} \in Good
  OBVIOUS
<1>2. ASSUME NEW u \in SUBSET S, u # {}, \A x \in u : u \ {x} \in Good
      PROVE  u \in Good
  <2> DEFINE a == Any(u)
  <2>1. a \in u /\ IsFiniteSet(u)
    BY <1>2, AnyIsIn, FS_Subset
  <2>2. Sum(u) = f[a] + Sum(u \ {a})
    BY <1>2, <2>1, SumAny
  <2> HIDE DEF a
  <2>3. ASSUME NEW x \in u
        PROVE  Sum(u) = f[x] + Sum(u \ {x})
    <3>1. CASE x = a
      BY <2>2, <3>1
    <3>2. CASE x # a
      <4>1. Sum(u \ {a}) = f[x] + Sum((u \ {a}) \ {x})
        BY <1>2, <2>1, <3>2
      <4>2. Sum(u \ {x}) = f[a] + Sum((u \ {x}) \ {a})
        BY <1>2, <2>1, <3>2
      <4>3. (u \ {a}) \ {x} = (u \ {x}) \ {a}
        OBVIOUS
      <4>4. f[x] \in Int /\ f[a] \in Int
        BY <2>1
      <4>5. Sum((u \ {x}) \ {a}) \in Int
        <5>1. IsFiniteSet((u \ {x}) \ {a})
          BY <2>1, FS_Subset
        <5> QED
          BY <5>1, SumType
      <4> DEFINE w == Sum((u \ {x}) \ {a})
      <4>6. Sum(u) = f[a] + (f[x] + w)
        BY <2>2, <4>1, <4>3
      <4>7. w \in Int
        BY <4>5
      <4> HIDE DEF w
      <4>8. f[a] + (f[x] + w) = f[x] + (f[a] + w)
        BY <4>4, <4>7
      <4>9. f[a] + w = Sum(u \ {x})
        BY <4>2 DEF w
      <4> QED
        BY <4>6, <4>8, <4>9
    <3> QED
      BY <3>1, <3>2
  <2> QED
    BY <2>3
<1>3. S \in Good
  <2>1. Good \in SUBSET (SUBSET S)
    OBVIOUS
  <2> HIDE DEF Good
  <2> QED BY <1>1, <1>2, <2>1, SetInduction
<1> QED
  BY <1>3

(* A sum depends on the values of its own elements only.                   *)
LEMMA SumAlike ==
  ASSUME NEW f, NEW g, NEW S, IsFiniteSet(S), \A x \in S : f[x] = g[x]
  PROVE  SumFunctionOnSet(f, S) = SumFunctionOnSet(g, S)
<1> DEFINE Good == {s \in SUBSET S : SumFunctionOnSet(f, s) = SumFunctionOnSet(g, s)}
<1>1. {} \in Good
  BY SumEmpty
<1>2. ASSUME NEW u \in SUBSET S, u # {}, \A x \in u : u \ {x} \in Good
      PROVE  u \in Good
  <2>1. Any(u) \in u /\ IsFiniteSet(u)
    BY <1>2, AnyIsIn, FS_Subset
  <2>2. SumFunctionOnSet(f, u \ {Any(u)}) = SumFunctionOnSet(g, u \ {Any(u)})
    BY <1>2, <2>1
  <2>3. SumFunctionOnSet(f, u) = f[Any(u)] + SumFunctionOnSet(f, u \ {Any(u)})
    BY <1>2, <2>1, SumAny
  <2>4. SumFunctionOnSet(g, u) = g[Any(u)] + SumFunctionOnSet(g, u \ {Any(u)})
    BY <1>2, <2>1, SumAny
  <2>5. f[Any(u)] = g[Any(u)]
    BY <2>1
  <2> QED
    BY <2>2, <2>3, <2>4, <2>5
<1>3. S \in Good
  <2>1. Good \in SUBSET (SUBSET S)
    OBVIOUS
  <2> HIDE DEF Good
  <2> QED BY <1>1, <1>2, <2>1, SetInduction
<1> QED
  BY <1>3

(* Sums of two columns together never exceed the sum of a third that none  *)
(* of their rows exceeds.                                                  *)
LEMMA SumsBelow ==
  ASSUME NEW f, NEW g, NEW h, NEW S, IsFiniteSet(S),
         \A x \in S : f[x] \in Int /\ g[x] \in Int /\ h[x] \in Int,
         \A x \in S : f[x] + g[x] <= h[x]
  PROVE  SumFunctionOnSet(f, S) + SumFunctionOnSet(g, S) <= SumFunctionOnSet(h, S)
<1> DEFINE Good == {s \in SUBSET S : SumFunctionOnSet(f, s) + SumFunctionOnSet(g, s)
                                       <= SumFunctionOnSet(h, s)}
<1>1. {} \in Good
  BY SumEmpty
<1>2. ASSUME NEW u \in SUBSET S, u # {}, \A x \in u : u \ {x} \in Good
      PROVE  u \in Good
  <2> DEFINE a == Any(u)
             r == u \ {a}
  <2>1. a \in u /\ IsFiniteSet(u) /\ IsFiniteSet(r) /\ r \in SUBSET S
    BY <1>2, AnyIsIn, FS_Subset
  <2>2. /\ SumFunctionOnSet(f, u) = f[a] + SumFunctionOnSet(f, r)
        /\ SumFunctionOnSet(g, u) = g[a] + SumFunctionOnSet(g, r)
        /\ SumFunctionOnSet(h, u) = h[a] + SumFunctionOnSet(h, r)
    BY <1>2, <2>1, SumAny
  <2>3. SumFunctionOnSet(f, r) + SumFunctionOnSet(g, r) <= SumFunctionOnSet(h, r)
    BY <1>2, <2>1
  <2> HIDE DEF a, r
  <2>4. /\ SumFunctionOnSet(f, r) \in Int /\ SumFunctionOnSet(g, r) \in Int
        /\ SumFunctionOnSet(h, r) \in Int
    BY <2>1, SumType
  <2>5. f[a] \in Int /\ g[a] \in Int /\ h[a] \in Int /\ f[a] + g[a] <= h[a]
    BY <2>1
  <2>6. SumFunctionOnSet(f, u) + SumFunctionOnSet(g, u) <= SumFunctionOnSet(h, u)
    BY <2>2, <2>3, <2>4, <2>5
  <2> QED
    BY <2>6
<1>3. S \in Good
  <2>1. Good \in SUBSET (SUBSET S)
    OBVIOUS
  <2> HIDE DEF Good
  <2> QED BY <1>1, <1>2, <2>1, SetInduction
<1> QED
  BY <1>3

(* The sum of a column that adds two others row by row.                    *)
LEMMA SumsAdd ==
  ASSUME NEW f, NEW g, NEW h, NEW S, IsFiniteSet(S),
         \A x \in S : f[x] \in Int /\ g[x] \in Int /\ h[x] \in Int,
         \A x \in S : h[x] = f[x] + g[x]
  PROVE  SumFunctionOnSet(h, S) = SumFunctionOnSet(f, S) + SumFunctionOnSet(g, S)
<1> DEFINE Good == {s \in SUBSET S : SumFunctionOnSet(h, s) =
                                       SumFunctionOnSet(f, s) + SumFunctionOnSet(g, s)}
<1>1. {} \in Good
  BY SumEmpty
<1>2. ASSUME NEW u \in SUBSET S, u # {}, \A x \in u : u \ {x} \in Good
      PROVE  u \in Good
  <2> DEFINE a == Any(u)
             r == u \ {a}
  <2>1. a \in u /\ IsFiniteSet(u) /\ IsFiniteSet(r) /\ r \in SUBSET S
    BY <1>2, AnyIsIn, FS_Subset
  <2>2. /\ SumFunctionOnSet(f, u) = f[a] + SumFunctionOnSet(f, r)
        /\ SumFunctionOnSet(g, u) = g[a] + SumFunctionOnSet(g, r)
        /\ SumFunctionOnSet(h, u) = h[a] + SumFunctionOnSet(h, r)
    BY <1>2, <2>1, SumAny
  <2>3. SumFunctionOnSet(h, r) = SumFunctionOnSet(f, r) + SumFunctionOnSet(g, r)
    BY <1>2, <2>1
  <2> HIDE DEF a, r
  <2>4. /\ SumFunctionOnSet(f, r) \in Int /\ SumFunctionOnSet(g, r) \in Int
        /\ SumFunctionOnSet(h, r) \in Int
    BY <2>1, SumType
  <2>5. f[a] \in Int /\ g[a] \in Int /\ h[a] = f[a] + g[a]
    BY <2>1
  <2>6. SumFunctionOnSet(h, u) = SumFunctionOnSet(f, u) + SumFunctionOnSet(g, u)
    BY <2>2, <2>3, <2>4, <2>5
  <2> QED
    BY <2>6
<1>3. S \in Good
  <2>1. Good \in SUBSET (SUBSET S)
    OBVIOUS
  <2> HIDE DEF Good
  <2> QED BY <1>1, <1>2, <2>1, SetInduction
<1> QED
  BY <1>3

(* Elements whose value is zero add nothing.                               *)
LEMMA SumOfPart ==
  ASSUME NEW f, NEW S, IsFiniteSet(S), \A x \in S : f[x] \in Int, NEW P \in SUBSET S,
         \A x \in S \ P : f[x] = 0
  PROVE  SumFunctionOnSet(f, S) = SumFunctionOnSet(f, P)
<1> DEFINE Sum(s) == SumFunctionOnSet(f, s)
           Good == {s \in SUBSET (S \ P) : Sum(P \cup s) = Sum(P)}
<1>0. IsFiniteSet(S \ P)
  BY FS_Subset
<1>1. {} \in Good
  <2>1. P \cup {} = P
    OBVIOUS
  <2> QED
    BY <2>1
<1>2. ASSUME NEW u \in SUBSET (S \ P), u # {}, \A x \in u : u \ {x} \in Good
      PROVE  u \in Good
  <2>1. PICK a : a \in u
    BY <1>2
  <2>2. IsFiniteSet(P \cup u) /\ P \cup u \subseteq S
    BY FS_Subset
  <2>3. Sum(P \cup u) = f[a] + Sum((P \cup u) \ {a})
    BY <2>1, <2>2, SumTakes
  <2>4. (P \cup u) \ {a} = P \cup (u \ {a})
    BY <2>1
  <2>5. Sum(P \cup (u \ {a})) = Sum(P)
    BY <1>2, <2>1
  <2>6. IsFiniteSet(P) /\ f[a] = 0
    BY <2>1, FS_Subset
  <2>7. Sum(P) \in Int
    BY <2>6, SumType
  <2> DEFINE p == Sum(P)
  <2>8. Sum(P \cup u) = 0 + p
    BY <2>3, <2>4, <2>5, <2>6
  <2>9. p \in Int
    BY <2>7
  <2> HIDE DEF p
  <2>10. 0 + p = p
    BY <2>9
  <2>11. Sum(P \cup u) = Sum(P)
    BY <2>8, <2>10 DEF p
  <2> QED
    BY <2>11
<1>3. S \ P \in Good
  <2>1. Good \in SUBSET (SUBSET (S \ P))
    OBVIOUS
  <2> HIDE DEF Good
  <2> QED BY <1>0, <1>1, <1>2, <2>1, SetInduction
<1>4. P \cup (S \ P) = S
  OBVIOUS
<1> QED
  BY <1>3, <1>4

(* One more element adds its value.                                        *)
LEMMA SumGrows ==
  ASSUME NEW f, NEW g, NEW S, IsFiniteSet(S), NEW e, e \notin S, g[e] \in Int,
         \A x \in S : f[x] \in Int /\ g[x] = f[x]
  PROVE  SumFunctionOnSet(g, S \cup {e}) = SumFunctionOnSet(f, S) + g[e]
<1>1. IsFiniteSet(S \cup {e}) /\ \A x \in S \cup {e} : g[x] \in Int
  BY FS_AddElement
<1>2. e \in S \cup {e} /\ (S \cup {e}) \ {e} = S
  OBVIOUS
<1>3. SumFunctionOnSet(g, S \cup {e}) = g[e] + SumFunctionOnSet(g, S)
  BY <1>1, <1>2, SumTakes
<1>4. SumFunctionOnSet(g, S) = SumFunctionOnSet(f, S)
  BY SumAlike
<1> DEFINE m == SumFunctionOnSet(f, S)
<1>5. m \in Int
  BY SumType
<1>6. SumFunctionOnSet(g, S \cup {e}) = g[e] + m
  BY <1>3, <1>4
<1> HIDE DEF m
<1>7. g[e] + m = m + g[e]
  BY <1>5
<1> QED
  BY <1>6, <1>7 DEF m

(* Raising the values of a part raises the sum by the sum of the raises.   *)
LEMMA SumRaised ==
  ASSUME NEW f, NEW h, NEW d, NEW S, IsFiniteSet(S), NEW P \in SUBSET S,
         \A x \in S : f[x] \in Int, \A x \in P : d[x] \in Int,
         \A x \in S \ P : h[x] = f[x], \A x \in P : h[x] = f[x] + d[x]
  PROVE  SumFunctionOnSet(h, S) = SumFunctionOnSet(f, S) + SumFunctionOnSet(d, P)
<1> DEFINE r == [x \in S |-> IF x \in P THEN d[x] ELSE 0]
<1>1. \A x \in S : r[x] \in Int /\ h[x] = f[x] + r[x] /\ h[x] \in Int
  OBVIOUS
<1>2. \A x \in S \ P : r[x] = 0
  OBVIOUS
<1>3. \A x \in P : r[x] = d[x]
  OBVIOUS
<1>4. IsFiniteSet(P)
  BY FS_Subset
<1> HIDE DEF r
<1>5. SumFunctionOnSet(h, S) = SumFunctionOnSet(f, S) + SumFunctionOnSet(r, S)
  BY <1>1, SumsAdd
<1>6. SumFunctionOnSet(r, S) = SumFunctionOnSet(r, P)
  BY <1>1, <1>2, SumOfPart
<1>7. SumFunctionOnSet(r, P) = SumFunctionOnSet(d, P)
  BY <1>3, <1>4, SumAlike
<1> QED
  BY <1>5, <1>6, <1>7

(* A sum over a part is one over the whole in which the rest counts nothing.*)
LEMMA SumChosen ==
  ASSUME NEW f, NEW S, IsFiniteSet(S), NEW P \in SUBSET S, \A x \in P : f[x] \in Int
  PROVE  LET chosen == [x \in S |-> IF x \in P THEN f[x] ELSE 0] IN
         /\ \A x \in S : chosen[x] \in Int
         /\ SumFunctionOnSet(f, P) = SumFunctionOnSet(chosen, S)
<1> DEFINE chosen == [x \in S |-> IF x \in P THEN f[x] ELSE 0]
<1>1. /\ \A x \in S : chosen[x] \in Int
      /\ \A x \in S \ P : chosen[x] = 0
      /\ \A x \in P : f[x] = chosen[x]
  OBVIOUS
<1>2. IsFiniteSet(P)
  BY FS_Subset
<1> HIDE DEF chosen
<1>3. SumFunctionOnSet(chosen, S) = SumFunctionOnSet(chosen, P)
  BY <1>1, SumOfPart
<1>4. SumFunctionOnSet(f, P) = SumFunctionOnSet(chosen, P)
  BY <1>1, <1>2, SumAlike
<1> QED
  BY <1>1, <1>3, <1>4 DEF chosen

(* The sum over two sets that have nothing in common.                      *)
LEMMA SumJoined ==
  ASSUME NEW A, NEW B, IsFiniteSet(A), IsFiniteSet(B), A \cap B = {},
         NEW f, NEW g, NEW h,
         \A x \in A : f[x] \in Int /\ h[x] = f[x],
         \A x \in B : g[x] \in Int /\ h[x] = g[x]
  PROVE  /\ IsFiniteSet(A \cup B)
         /\ SumFunctionOnSet(h, A \cup B) = SumFunctionOnSet(f, A) + SumFunctionOnSet(g, B)
<1> DEFINE S == A \cup B
           chosen == [x \in S |-> IF x \in A THEN f[x] ELSE 0]
<1>1. IsFiniteSet(S) /\ A \in SUBSET S /\ B \in SUBSET S
  BY FS_Union
<1>2. /\ \A x \in S : chosen[x] \in Int
      /\ SumFunctionOnSet(f, A) = SumFunctionOnSet(chosen, S)
  BY <1>1, SumChosen
<1>3. /\ \A x \in S \ B : h[x] = chosen[x]
      /\ \A x \in B : h[x] = chosen[x] + g[x] /\ g[x] \in Int
  OBVIOUS
<1> HIDE DEF chosen, S
<1>4. SumFunctionOnSet(h, S) = SumFunctionOnSet(chosen, S) + SumFunctionOnSet(g, B)
  BY <1>1, <1>2, <1>3, SumRaised
<1> QED
  BY <1>1, <1>2, <1>4 DEF S

(* The sum over a set is that over a part and that over the rest.          *)
LEMMA SumSplit ==
  ASSUME NEW S, IsFiniteSet(S), NEW P \in SUBSET S, NEW h, \A x \in S : h[x] \in Int
  PROVE  SumFunctionOnSet(h, S) = SumFunctionOnSet(h, S \ P) + SumFunctionOnSet(h, P)
<1> DEFINE R == S \ P
           f == [x \in S |-> IF x \in R THEN h[x] ELSE 0]
<1>1. /\ R \in SUBSET S /\ P = S \ R /\ IsFiniteSet(R) /\ IsFiniteSet(P)
  BY FS_Subset
<1>2. /\ \A x \in S : f[x] \in Int
      /\ \A x \in S \ R : f[x] = 0
      /\ \A x \in R : f[x] = h[x]
      /\ \A x \in S \ P : h[x] = f[x]
      /\ \A x \in P : h[x] = f[x] + h[x] /\ h[x] \in Int
  OBVIOUS
<1> HIDE DEF f, R
<1>3. SumFunctionOnSet(h, S) = SumFunctionOnSet(f, S) + SumFunctionOnSet(h, P)
  BY <1>2, SumRaised
<1>4. SumFunctionOnSet(f, S) = SumFunctionOnSet(f, R)
  BY <1>1, <1>2, SumOfPart
<1>5. SumFunctionOnSet(f, R) = SumFunctionOnSet(h, R)
  BY <1>1, <1>2, SumAlike
<1> QED
  BY <1>3, <1>4, <1>5 DEF R

(* The sum over what a set is mapped to one to one.                        *)
LEMMA SumMoved ==
  ASSUME NEW S, IsFiniteSet(S), NEW m, NEW f, NEW g,
         \A x, y \in S : m[x] = m[y] => x = y,
         \A x \in S : g[x] \in Int /\ f[m[x]] = g[x]
  PROVE  /\ IsFiniteSet({m[x] : x \in S})
         /\ SumFunctionOnSet(f, {m[x] : x \in S}) = SumFunctionOnSet(g, S)
<1> DEFINE I(u) == {m[x] : x \in u}
           Good == {u \in SUBSET S : IsFiniteSet(I(u)) /\ SumFunctionOnSet(f, I(u)) = SumFunctionOnSet(g, u)}
<1>1. {} \in Good
  <2>1. I({}) = {}
    OBVIOUS
  <2> QED
    BY <2>1, SumEmpty, FS_EmptySet
<1>2. ASSUME NEW u \in SUBSET S, u # {}, \A x \in u : u \ {x} \in Good
      PROVE  u \in Good
  <2>1. PICK x \in u : u \ {x} \in Good
    BY <1>2
  <2> DEFINE v == u \ {x}
             J == I(v)
             e == m[x]
  <2>2. IsFiniteSet(J) /\ SumFunctionOnSet(f, J) = SumFunctionOnSet(g, v)
    BY <2>1
  <2>3. e \notin J /\ I(u) = J \cup {e} /\ f[e] \in Int /\ f[e] = g[x]
    OBVIOUS
  <2>4. \A y \in J : f[y] \in Int
    OBVIOUS
  <2>5. IsFiniteSet(u) /\ \A y \in u : g[y] \in Int
    BY FS_Subset
  <2>6. SumFunctionOnSet(g, u) = g[x] + SumFunctionOnSet(g, v)
    BY <2>5, SumTakes
  <2>7. SumFunctionOnSet(g, v) \in Int
    <3>1. IsFiniteSet(v) /\ \A y \in v : g[y] \in Int
      BY <2>5, FS_Subset
    <3> HIDE DEF v
    <3> QED BY <3>1, SumType
  <2> HIDE DEF J, e, v
  <2>8. IsFiniteSet(J \cup {e}) /\ SumFunctionOnSet(f, J \cup {e}) = SumFunctionOnSet(f, J) + f[e]
    BY <2>2, <2>3, <2>4, SumGrows, FS_AddElement
  <2>9. SumFunctionOnSet(f, J \cup {e}) = SumFunctionOnSet(g, u)
    BY <2>2, <2>3, <2>6, <2>7, <2>8
  <2> QED
    BY <2>3, <2>8, <2>9
<1>3. Good \in SUBSET (SUBSET S)
  OBVIOUS
<1>4. S \in Good
  <2> HIDE DEF Good
  <2> QED BY <1>1, <1>2, <1>3, SetInduction
<1> QED
  BY <1>4

(* The sum of a multiple.                                                  *)
LEMMA SumScaled ==
  ASSUME NEW S, IsFiniteSet(S), NEW f, NEW h, NEW k \in Int,
         \A x \in S : f[x] \in Int /\ h[x] = k * f[x]
  PROVE  SumFunctionOnSet(h, S) = k * SumFunctionOnSet(f, S)
<1> DEFINE Good == {u \in SUBSET S : SumFunctionOnSet(h, u) = k * SumFunctionOnSet(f, u)}
<1>1. {} \in Good
  BY SumEmpty
<1>2. ASSUME NEW u \in SUBSET S, u # {}, \A x \in u : u \ {x} \in Good
      PROVE  u \in Good
  <2>1. PICK x \in u : u \ {x} \in Good
    BY <1>2
  <2> DEFINE v == u \ {x}
             a == SumFunctionOnSet(f, v)
  <2>2. SumFunctionOnSet(h, v) = k * a
    BY <2>1
  <2>3. IsFiniteSet(u) /\ IsFiniteSet(v)
    BY FS_Subset
  <2>4. f[x] \in Int /\ h[x] = k * f[x]
    OBVIOUS
  <2>5. \A y \in u : f[y] \in Int /\ h[y] \in Int
    OBVIOUS
  <2>6. SumFunctionOnSet(h, u) = h[x] + SumFunctionOnSet(h, v)
    BY <2>3, <2>5, SumTakes
  <2>7. SumFunctionOnSet(f, u) = f[x] + a
    BY <2>3, <2>5, SumTakes
  <2>8. a \in Int
    BY <2>3, <2>5, SumType
  <2> HIDE DEF a
  <2>9. k * (f[x] + a) = k * f[x] + k * a
    BY <2>4, <2>8
  <2>10. SumFunctionOnSet(h, u) = k * SumFunctionOnSet(f, u)
    BY <2>2, <2>4, <2>6, <2>7, <2>9
  <2> QED
    BY <2>10
<1>3. Good \in SUBSET (SUBSET S)
  OBVIOUS
<1>4. S \in Good
  <2> HIDE DEF Good
  <2> QED BY <1>1, <1>2, <1>3, SetInduction
<1> QED
  BY <1>4

(* What a set counts is the sum of what its parts count.                   *)
LEMMA CountedByParts ==
  ASSUME NEW D, IsFiniteSet(D), NEW E, IsFiniteSet(E), NEW part, \A t \in D : part[t] \in E
  PROVE  Cardinality(D)
           = SumFunctionOnSet([e \in E |-> Cardinality({t \in D : part[t] = e})], E)
<1> DEFINE N(u) == [e \in E |-> Cardinality({t \in u : part[t] = e})]
           Good == {u \in SUBSET D : Cardinality(u) = SumFunctionOnSet(N(u), E)}
<1>a. ASSUME NEW u \in SUBSET D
      PROVE  /\ IsFiniteSet(u)
             /\ \A e \in E : IsFiniteSet({t \in u : part[t] = e}) /\ N(u)[e] \in Int
  <2>1. IsFiniteSet(u)
    BY FS_Subset
  <2>2. \A e \in E : IsFiniteSet({t \in u : part[t] = e})
    BY <2>1, FS_Subset
  <2> QED
    BY <2>1, <2>2, FS_CardinalityType
<1>1. {} \in Good
  <2>1. \A e \in E : N({})[e] = 0
    <3>1. \A e \in E : {t \in {} : part[t] = e} = {}
      OBVIOUS
    <3> QED BY <3>1, FS_EmptySet
  <2>2. SumFunctionOnSet(N({}), E) = 0
    <3> DEFINE f == N({})
    <3>1. \A e \in E : f[e] = 0 /\ f[e] \in Int
      BY <2>1
    <3> HIDE DEF f
    <3>2. SumFunctionOnSet(f, E) = SumFunctionOnSet(f, {})
      BY <3>1, SumOfPart
    <3>3. SumFunctionOnSet(f, E) = 0
      BY <3>2, SumEmpty
    <3> QED BY <3>3 DEF f
  <2> QED
    BY <2>2, FS_EmptySet
<1>2. ASSUME NEW u \in SUBSET D, u # {}, \A x \in u : u \ {x} \in Good
      PROVE  u \in Good
  <2>1. PICK x \in u : u \ {x} \in Good
    BY <1>2
  <2> DEFINE v == u \ {x}
             e == part[x]
             a == N(u)
             b == N(v)
  <2>2. Cardinality(v) = SumFunctionOnSet(b, E)
    BY <2>1
  <2>3. IsFiniteSet(v) /\ IsFiniteSet(u) /\ v \in SUBSET D
    BY FS_Subset
  <2>4. Cardinality(u) = Cardinality(v) + 1
    <3>1. u = v \cup {x} /\ x \notin v
      OBVIOUS
    <3> HIDE DEF v
    <3> QED BY <2>3, <3>1, FS_AddElement
  <2>5. e \in E
    OBVIOUS
  <2>6. \A c \in E \ {e} : a[c] = b[c]
    <3>1. \A c \in E \ {e} : {t \in u : part[t] = c} = {t \in v : part[t] = c}
      OBVIOUS
    <3> QED BY <3>1
  <2>7. a[e] = b[e] + 1
    <3> DEFINE P == {t \in v : part[t] = e}
               Q == {t \in u : part[t] = e}
    <3>1. Q = P \cup {x} /\ x \notin P
      OBVIOUS
    <3>2. IsFiniteSet(P)
      BY <2>3, FS_Subset
    <3>3. a[e] = Cardinality(Q) /\ b[e] = Cardinality(P)
      BY <2>5
    <3> HIDE DEF P, Q, a, b, e
    <3> QED BY <3>1, <3>2, <3>3, FS_AddElement
  <2>8. \A c \in E : a[c] \in Int /\ b[c] \in Int
    BY <1>a, <2>3
  <2> HIDE DEF a, b, e, v
  <2>9. SumFunctionOnSet(a, E) = a[e] + SumFunctionOnSet(a, E \ {e})
    BY <2>5, <2>8, SumTakes
  <2>10. SumFunctionOnSet(b, E) = b[e] + SumFunctionOnSet(b, E \ {e})
    BY <2>5, <2>8, SumTakes
  <2>11. SumFunctionOnSet(a, E \ {e}) = SumFunctionOnSet(b, E \ {e})
    <3>1. IsFiniteSet(E \ {e})
      BY FS_Subset
    <3> QED BY <2>6, <3>1, SumAlike
  <2>12. SumFunctionOnSet(b, E \ {e}) \in Int
    <3>1. IsFiniteSet(E \ {e}) /\ \A c \in E \ {e} : b[c] \in Int
      BY <2>8, FS_Subset
    <3> QED BY <3>1, SumType
  <2>13. Cardinality(u) = SumFunctionOnSet(a, E)
    BY <2>2, <2>4, <2>5, <2>7, <2>8, <2>9, <2>10, <2>11, <2>12
  <2> QED
    BY <2>13 DEF a
<1>3. Good \in SUBSET (SUBSET D)
  OBVIOUS
<1>4. D \in Good
  <2> HIDE DEF Good
  <2> QED BY <1>1, <1>2, <1>3, SetInduction
<1> QED
  BY <1>4
=============================================================================
