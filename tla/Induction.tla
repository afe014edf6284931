----------------------------- MODULE Induction -----------------------------
(***************************************************************************)
(* Induction as the least counterexample: a set of naturals that is not    *)
(* empty has a least element. A proof by induction on n takes the set of   *)
(* the n for which its statement fails.                                    *)
(*                                                                         *)
(* With it, the iteration of a step, and sums over finite sets: the fold   *)
(* of the community modules picks the elements in an order of its own, and *)
(* it does not matter which.                                               *)
(***************************************************************************)
EXTENDS Integers, FiniteSetsExt, FiniteSetTheorems, WellFoundedInduction, TLAPS

\* The least element of a set of naturals.
LEMMA LeastNat ==
  ASSUME NEW T, T \subseteq Nat, T # {}
  PROVE  \E x \in T : \A y \in T : x <= y
<1> DEFINE R == {p \in Nat \X Nat : p[1] < p[2]}
<1>1. IsWellFoundedOn(R, Nat)
  BY NatLessThanWellFounded DEF OpToRel
<1>2. \A x, y \in Nat : y < x => <<y, x>> \in R
  OBVIOUS
<1> HIDE DEF R
<1>3. PICK x \in T : \A y \in T : <<y, x>> \notin R
  BY <1>1, WFMin
<1>4. ASSUME NEW y \in T
      PROVE  x <= y
  <2>1. x \in Nat /\ y \in Nat
    OBVIOUS
  <2>2. ~(y < x)
    BY <1>2, <1>3, <2>1
  <2> QED
    BY <2>1, <2>2
<1> QED
  BY <1>4
-----------------------------------------------------------------------------
\* f goes from base by a step of G for each number up to n: what a function
\* declared by recursion on its index does.
Iterates(f, base, G, n) == \A i \in 0..n : f[i] = IF i = 0 THEN base ELSE G[<<f[i - 1], i>>]

\* A step that stays in a set can be iterated, and stays there.
LEMMA Iterated ==
  ASSUME NEW V, NEW base \in V, NEW n \in Nat, NEW G \in [V \X (1..n) -> V]
  PROVE  \E f \in [0..n -> V] : Iterates(f, base, G, n)
<1> DEFINE Good(m) == \E f \in [0..m -> V] : Iterates(f, base, G, m)
           T == {m \in 0..n : ~Good(m)}
<1>1. T = {}
  <2> SUFFICES ASSUME T # {} PROVE FALSE
    OBVIOUS
  <2>1. PICK m \in T : \A y \in T : m <= y
    <3>1. T \subseteq Nat
      OBVIOUS
    <3> QED
      BY <3>1, LeastNat
  <2>2. m \in 0..n /\ ~Good(m)
    OBVIOUS
  <2>3. m # 0
    <3>1. [i \in 0..0 |-> base] \in [0..0 -> V]
      OBVIOUS
    <3>2. Iterates([i \in 0..0 |-> base], base, G, 0)
      BY DEF Iterates
    <3> QED
      BY <2>2, <3>1, <3>2
  <2>4. PICK g \in [0..m - 1 -> V] : Iterates(g, base, G, m - 1)
    <3>1. m - 1 \in 0..n /\ m - 1 \notin T
      BY <2>1, <2>2, <2>3
    <3> QED
      BY <3>1
  <2> DEFINE f == [i \in 0..m |-> IF i < m THEN g[i] ELSE G[<<g[m - 1], m>>]]
  <2> HIDE DEF T
  <2>5. <<g[m - 1], m>> \in V \X (1..n)
    BY <2>2, <2>3
  <2>6. f \in [0..m -> V]
    BY <2>2, <2>3, <2>5
  <2>7. ASSUME NEW i \in 0..m
        PROVE  f[i] = IF i = 0 THEN base ELSE G[<<f[i - 1], i>>]
    <3>1. CASE i < m
      <4>1. i \in 0..m - 1 /\ f[i] = g[i]
        BY <2>2, <3>1
      <4>2. g[i] = IF i = 0 THEN base ELSE G[<<g[i - 1], i>>]
        BY <2>4, <4>1 DEF Iterates
      <4>3. i # 0 => f[i - 1] = g[i - 1]
        BY <2>2, <3>1
      <4> HIDE DEF f
      <4> QED
        BY <4>1, <4>2, <4>3
    <3>2. CASE i = m
      BY <2>2, <2>3, <3>2
    <3> QED
      BY <2>2, <3>1, <3>2
  <2> HIDE DEF f
  <2>8. Iterates(f, base, G, m)
    BY <2>7 DEF Iterates
  <2> QED
    BY <2>2, <2>6, <2>8
<1> QED
  BY <1>1

\* There is one way to do so.
LEMMA IteratesOnce ==
  ASSUME NEW base, NEW n \in Nat, NEW G, NEW f, NEW g,
         Iterates(f, base, G, n), Iterates(g, base, G, n)
  PROVE  \A i \in 0..n : f[i] = g[i]
<1> DEFINE T == {i \in 0..n : f[i] # g[i]}
<1>1. T = {}
  <2> SUFFICES ASSUME T # {} PROVE FALSE
    OBVIOUS
  <2>1. PICK i \in T : \A y \in T : i <= y
    <3>1. T \subseteq Nat
      OBVIOUS
    <3> QED
      BY <3>1, LeastNat
  <2>2. i \in 0..n /\ f[i] # g[i]
    OBVIOUS
  <2>3. i # 0 => f[i - 1] = g[i - 1]
    BY <2>1, <2>2
  <2> HIDE DEF T
  <2> QED
    BY <2>2, <2>3 DEF Iterates
<1> QED
  BY <1>1
-----------------------------------------------------------------------------
\* The sum of w over S, as the community modules fold it.
Total(w, S) == MapThenSumSet(LAMBDA n : w[n], S)

Pick(s) == CHOOSE x \in s : TRUE
TotalStep(f, w, s) == IF s = {} THEN 0 ELSE w[Pick(s)] + f[s \ {Pick(s)}]
Totals(f, w, S) == f = [s \in SUBSET S |-> TotalStep(f, w, s)]

\* Total is the last value of such a function.
LEMMA TotalIs ==
  ASSUME NEW w, NEW S
  PROVE  Total(w, S) = (CHOOSE f : Totals(f, w, S))[S]
BY DEF Total, MapThenSumSet, MapThenFoldSet, Totals, TotalStep, Pick

\* What is picked is an element.
LEMMA PickIn ==
  ASSUME NEW s, s # {}
  PROVE  Pick(s) \in s
BY DEF Pick

\* A smaller set has fewer elements.
LEMMA OneLess ==
  ASSUME NEW S, IsFiniteSet(S), NEW x \in S
  PROVE  /\ IsFiniteSet(S \ {x}) /\ Cardinality(S) \in Nat /\ Cardinality(S \ {x}) \in Nat
         /\ Cardinality(S \ {x}) < Cardinality(S)
BY FS_RemoveElement, FS_CardinalityType

\* Two functions that sum up agree on the sets both know.
LEMMA TotalsUnique ==
  ASSUME NEW w, NEW S, NEW R, IsFiniteSet(S), IsFiniteSet(R), NEW f, NEW g,
         Totals(f, w, S), Totals(g, w, R), NEW u, u \subseteq S, u \subseteq R
  PROVE  f[u] = g[u]
<1> DEFINE Bad == {s \in SUBSET u : f[s] # g[s]}
           T == {Cardinality(s) : s \in Bad}
<1> SUFFICES ASSUME Bad # {} PROVE FALSE
  OBVIOUS
<1>1. IsFiniteSet(u) /\ \A s \in SUBSET u : IsFiniteSet(s) /\ Cardinality(s) \in Nat
  BY FS_Subset, FS_CardinalityType
<1>2. T \subseteq Nat /\ T # {}
  BY <1>1
<1>3. PICK m \in T : \A y \in T : m <= y
  <2> HIDE DEF T
  <2> QED
    BY <1>2, LeastNat
<1>4. PICK s \in Bad : m = Cardinality(s)
  OBVIOUS
<1>5. f[s] = TotalStep(f, w, s) /\ g[s] = TotalStep(g, w, s)
  <2>1. s \in SUBSET S /\ s \in SUBSET R
    OBVIOUS
  <2> QED
    BY <2>1 DEF Totals
<1>6. CASE s = {}
  BY <1>4, <1>5, <1>6 DEF TotalStep
<1>7. CASE s # {}
  <2> DEFINE v == s \ {Pick(s)}
  <2>1. Pick(s) \in s /\ IsFiniteSet(s)
    BY <1>1, <1>7, PickIn
  <2>2. Cardinality(v) < m /\ Cardinality(v) \in Nat /\ m \in Nat
    BY <1>4, <2>1, OneLess
  <2>3. v \in SUBSET u
    OBVIOUS
  <2>4. v \notin Bad
    <3>1. ASSUME v \in Bad PROVE FALSE
      <4>1. Cardinality(v) \in T
        BY <3>1
      <4>2. m <= Cardinality(v)
        BY <1>3, <4>1
      <4> QED
        BY <2>2, <4>2
    <3> QED
      BY <3>1
  <2>5. f[v] = g[v]
    BY <2>3, <2>4
  <2> QED
    BY <1>4, <1>5, <1>7, <2>5 DEF TotalStep
<1> QED
  BY <1>6, <1>7

\* There is such a function for every finite set.
LEMMA TotalsExist ==
  ASSUME NEW w, NEW S0, IsFiniteSet(S0)
  PROVE  \E f : Totals(f, w, S0)
<1> DEFINE Bad == {s \in SUBSET S0 : ~\E f : Totals(f, w, s)}
           T == {Cardinality(s) : s \in Bad}
<1> SUFFICES ASSUME Bad # {} PROVE FALSE
  OBVIOUS
<1>1. \A s \in SUBSET S0 : IsFiniteSet(s) /\ Cardinality(s) \in Nat
  BY FS_Subset, FS_CardinalityType
<1>2. T \subseteq Nat /\ T # {}
  BY <1>1
<1>3. PICK m \in T : \A y \in T : m <= y
  <2> HIDE DEF T
  <2> QED
    BY <1>2, LeastNat
<1>4. PICK S \in Bad : m = Cardinality(S)
  OBVIOUS
<1>5. S \subseteq S0 /\ IsFiniteSet(S) /\ ~\E f : Totals(f, w, S)
  BY <1>1
<1> DEFINE F(u) == CHOOSE f : Totals(f, w, u)
           g == [s \in SUBSET S |-> IF s = {} THEN 0 ELSE w[Pick(s)] + F(s \ {Pick(s)})[s \ {Pick(s)}]]
<1>6. ASSUME NEW s, s \subseteq S, s # S
      PROVE  Totals(F(s), w, s)
  <2>1. s \notin Bad
    <3>1. ASSUME s \in Bad PROVE FALSE
      <4>1. PICK x \in S : x \notin s
        BY <1>6
      <4>2. s \subseteq S \ {x} /\ IsFiniteSet(S \ {x})
        BY <1>5, <1>6, <4>1, OneLess
      <4>3. Cardinality(s) <= Cardinality(S \ {x}) /\ Cardinality(s) \in Nat
        BY <4>2, FS_Subset, FS_CardinalityType
      <4>4. Cardinality(S \ {x}) < m /\ Cardinality(S \ {x}) \in Nat /\ m \in Nat
        BY <1>4, <1>5, OneLess
      <4>5. m <= Cardinality(s)
        BY <1>3, <3>1
      <4> QED
        BY <4>3, <4>4, <4>5
    <3> QED
      BY <3>1
  <2>2. \E f : Totals(f, w, s)
    BY <1>5, <1>6, <2>1
  <2> QED
    BY <2>2
<1> HIDE DEF F
<1>7. ASSUME NEW s, s \subseteq S, s # S
      PROVE  g[s] = F(s)[s]
  <2>1. Totals(F(s), w, s)
    BY <1>6, <1>7
  <2>2. F(s)[s] = TotalStep(F(s), w, s)
    BY <2>1 DEF Totals
  <2>3. CASE s = {}
    BY <1>7, <2>2, <2>3 DEF TotalStep
  <2>4. CASE s # {}
    <3> DEFINE v == s \ {Pick(s)}
    <3>1. v \subseteq s /\ v \subseteq S /\ v # S
      BY <1>7, <2>4, PickIn
    <3>2. Totals(F(v), w, v)
      BY <1>6, <3>1
    <3>3. IsFiniteSet(s) /\ IsFiniteSet(v)
      BY <1>5, <1>7, <3>1, FS_Subset
    <3>4. F(s)[v] = F(v)[v]
      <4> HIDE DEF v
      <4> QED
        BY <2>1, <3>1, <3>2, <3>3, TotalsUnique
    <3>5. g[s] = w[Pick(s)] + F(v)[v]
      BY <1>7, <2>4
    <3> QED
      BY <2>2, <2>4, <3>4, <3>5 DEF TotalStep
  <2> QED
    BY <2>3, <2>4
<1>8. ASSUME NEW s \in SUBSET S
      PROVE  g[s] = TotalStep(g, w, s)
  <2>1. CASE s = {}
    BY <2>1 DEF TotalStep
  <2>2. CASE s # {}
    <3> DEFINE v == s \ {Pick(s)}
    <3>1. v \subseteq S /\ v # S
      BY <2>2, PickIn
    <3>2. g[v] = F(v)[v]
      BY <1>7, <3>1
    <3>3. g[s] = w[Pick(s)] + F(v)[v]
      BY <2>2
    <3> HIDE DEF g
    <3> QED
      BY <2>2, <3>2, <3>3 DEF TotalStep
  <2> QED
    BY <2>1, <2>2
<1>9. g = [s \in SUBSET S |-> g[s]]
  OBVIOUS
<1> HIDE DEF g
<1>10. Totals(g, w, S)
  BY <1>8, <1>9 DEF Totals
<1> QED
  BY <1>5, <1>10

\* The recursion of a sum.
LEMMA TotalRec ==
  ASSUME NEW w, NEW S, IsFiniteSet(S)
  PROVE  Total(w, S) = IF S = {} THEN 0 ELSE w[Pick(S)] + Total(w, S \ {Pick(S)})
<1> DEFINE F(u) == CHOOSE f : Totals(f, w, u)
<1>1. Totals(F(S), w, S) /\ Total(w, S) = F(S)[S]
  BY TotalsExist, TotalIs
<1> HIDE DEF F
<1>2. F(S)[S] = TotalStep(F(S), w, S)
  BY <1>1 DEF Totals
<1>3. CASE S = {}
  BY <1>1, <1>2, <1>3 DEF TotalStep
<1>4. CASE S # {}
  <2> DEFINE v == S \ {Pick(S)}
  <2>1. v \subseteq S /\ IsFiniteSet(v)
    BY FS_Subset
  <2>2. Totals(F(v), w, v) /\ Total(w, v) = F(v)[v]
    BY <2>1, TotalsExist, TotalIs DEF F
  <2>3. F(S)[v] = F(v)[v]
    <3> HIDE DEF v
    <3> QED
      BY <1>1, <2>1, <2>2, TotalsUnique
  <2> QED
    BY <1>1, <1>2, <1>4, <2>2, <2>3 DEF TotalStep
<1> QED
  BY <1>3, <1>4

\* The sum over no elements.
LEMMA TotalEmpty ==
  ASSUME NEW w
  PROVE  Total(w, {}) = 0
BY TotalRec, FS_EmptySet

\* Any element may go first.
LEMMA TotalRemove ==
  ASSUME NEW S0, IsFiniteSet(S0), NEW w, \A x \in S0 : w[x] \in Nat
  PROVE  /\ Total(w, S0) \in Nat
         /\ \A k \in S0 : Total(w, S0) = w[k] + Total(w, S0 \ {k}) /\ Total(w, S0 \ {k}) \in Nat
<1> DEFINE Good(S) == /\ Total(w, S) \in Nat
                      /\ \A k \in S : Total(w, S) = w[k] + Total(w, S \ {k}) /\ Total(w, S \ {k}) \in Nat
           Bad == {s \in SUBSET S0 : ~Good(s)}
           T == {Cardinality(s) : s \in Bad}
<1> SUFFICES ASSUME Bad # {} PROVE FALSE
  OBVIOUS
<1>1. \A s \in SUBSET S0 : IsFiniteSet(s) /\ Cardinality(s) \in Nat
  BY FS_Subset, FS_CardinalityType
<1>2. T \subseteq Nat /\ T # {}
  BY <1>1
<1>3. PICK m \in T : \A y \in T : m <= y
  <2> HIDE DEF T
  <2> QED
    BY <1>2, LeastNat
<1>4. PICK S \in Bad : m = Cardinality(S)
  OBVIOUS
<1>5. S \subseteq S0 /\ IsFiniteSet(S) /\ ~Good(S)
  BY <1>1
<1> HIDE DEF Good
<1>6. ASSUME NEW x \in S
      PROVE  Good(S \ {x})
  <2>1. S \ {x} \notin Bad
    <3>1. ASSUME S \ {x} \in Bad PROVE FALSE
      <4>1. Cardinality(S \ {x}) < m /\ Cardinality(S \ {x}) \in Nat /\ m \in Nat
        BY <1>4, <1>5, OneLess
      <4>2. m <= Cardinality(S \ {x})
        BY <1>3, <3>1
      <4> QED
        BY <4>1, <4>2
    <3> QED
      BY <3>1
  <2> QED
    BY <1>5, <2>1
<1> HIDE DEF Bad, T
<1>7. CASE S = {}
  <2>1. Total(w, S) = 0
    BY <1>7, TotalEmpty
  <2> QED
    BY <1>5, <1>7, <2>1 DEF Good
<1>8. CASE S # {}
  <2> DEFINE x == Pick(S)
  <2>1. x \in S /\ Total(w, S) = w[x] + Total(w, S \ {x})
    BY <1>5, <1>8, PickIn, TotalRec
  <2> HIDE DEF x
  <2>2. Good(S \ {x}) /\ w[x] \in Nat
    BY <1>5, <1>6, <2>1
  <2>3. Total(w, S) \in Nat
    BY <2>1, <2>2 DEF Good
  <2>4. ASSUME NEW k \in S
        PROVE  Total(w, S) = w[k] + Total(w, S \ {k}) /\ Total(w, S \ {k}) \in Nat
    <3>0. Good(S \ {k})
      BY <1>6
    <3>1. CASE k = x
      BY <2>1, <2>2, <3>1 DEF Good
    <3>2. CASE k # x
      <4> DEFINE u == (S \ {x}) \ {k}
      <4>1. Total(w, S \ {x}) = w[k] + Total(w, u) /\ Total(w, u) \in Nat
        <5>1. k \in S \ {x}
          BY <3>2
        <5> QED
          BY <2>2, <5>1 DEF Good
      <4>2. Total(w, S \ {k}) = w[x] + Total(w, u)
        <5>1. x \in S \ {k} /\ (S \ {k}) \ {x} = u
          BY <2>1, <3>2
        <5>2. Total(w, S \ {k}) = w[x] + Total(w, (S \ {k}) \ {x})
          BY <3>0, <5>1 DEF Good
        <5> QED
          BY <5>1, <5>2
      <4>3. w[k] \in Nat /\ w[x] \in Nat
        BY <1>5, <2>1
      <4> HIDE DEF u
      <4> DEFINE a == Total(w, S)
                 b == Total(w, S \ {x})
                 c == Total(w, S \ {k})
                 d == Total(w, u)
      <4>4. a = w[x] + b /\ b = w[k] + d /\ c = w[x] + d /\ d \in Nat
        BY <2>1, <4>1, <4>2
      <4> HIDE DEF a, b, c, d
      <4>5. a = w[k] + c /\ c \in Nat
        BY <4>3, <4>4
      <4> QED
        BY <4>5 DEF a, c
    <3> QED
      BY <3>1, <3>2
  <2>5. Good(S)
    BY <2>3, <2>4 DEF Good
  <2> QED
    BY <1>5, <2>5
<1> QED
  BY <1>7, <1>8

\* Only the values on the set count.
LEMMA TotalAgree ==
  ASSUME NEW S, IsFiniteSet(S), NEW w, NEW v, \A x \in S : w[x] = v[x]
  PROVE  Total(w, S) = Total(v, S)
<1> DEFINE F == CHOOSE f : Totals(f, w, S)
           G == CHOOSE f : Totals(f, v, S)
<1>1. Totals(F, w, S) /\ Total(w, S) = F[S]
  BY TotalsExist, TotalIs
<1>2. Totals(G, v, S) /\ Total(v, S) = G[S]
  BY TotalsExist, TotalIs
<1> HIDE DEF F, G
<1>3. ASSUME NEW s \in SUBSET S
      PROVE  TotalStep(G, v, s) = TotalStep(G, w, s)
  <2>1. CASE s = {}
    BY <2>1 DEF TotalStep
  <2>2. CASE s # {}
    <3>1. v[Pick(s)] = w[Pick(s)]
      BY <2>2, PickIn
    <3> QED
      BY <2>2, <3>1 DEF TotalStep
  <2> QED
    BY <2>1, <2>2
<1>4. Totals(G, w, S)
  BY <1>2, <1>3 DEF Totals
<1>5. F[S] = G[S]
  BY <1>1, <1>4, TotalsUnique
<1> QED
  BY <1>1, <1>2, <1>5

\* The elements of S under the function m count at most what they counted.
LEMMA TotalImage ==
  ASSUME NEW S, IsFiniteSet(S), NEW w, \A x \in S : w[x] \in Nat,
         NEW m, NEW v, \A x \in S : v[m[x]] = w[x]
  PROVE  /\ Total(v, {m[x] : x \in S}) \in Nat
         /\ Total(v, {m[x] : x \in S}) <= Total(w, S)
<1> DEFINE Image(s) == {m[x] : x \in s}
           Good(s) == Total(v, Image(s)) \in Nat /\ Total(v, Image(s)) <= Total(w, s)
           Bad == {s \in SUBSET S : ~Good(s)}
           T == {Cardinality(s) : s \in Bad}
<1>0. SUFFICES ASSUME Bad # {} PROVE FALSE
  OBVIOUS
<1>1. \A s \in SUBSET S : IsFiniteSet(s) /\ Cardinality(s) \in Nat
  BY FS_Subset, FS_CardinalityType
<1>2. T \subseteq Nat /\ T # {}
  BY <1>0, <1>1
<1>3. PICK n \in T : \A y \in T : n <= y
  <2> HIDE DEF T
  <2> QED
    BY <1>2, LeastNat
<1>4. PICK s \in Bad : n = Cardinality(s)
  OBVIOUS
<1>5. s \subseteq S /\ IsFiniteSet(s) /\ ~Good(s)
  BY <1>1
<1>6. ASSUME NEW x \in s
      PROVE  Good(s \ {x})
  <2>1. s \ {x} \notin Bad
    <3>1. ASSUME s \ {x} \in Bad PROVE FALSE
      <4>1. Cardinality(s \ {x}) < n /\ Cardinality(s \ {x}) \in Nat /\ n \in Nat
        BY <1>4, <1>5, OneLess
      <4>2. n <= Cardinality(s \ {x})
        BY <1>3, <3>1
      <4> QED
        BY <4>1, <4>2
    <3> QED
      BY <3>1
  <2> QED
    BY <1>5, <2>1
<1> HIDE DEF Bad, T
<1>7. CASE s = {}
  <2>1. Image(s) = {} /\ Total(v, {}) = 0 /\ Total(w, {}) = 0
    BY <1>7, TotalEmpty
  <2> QED
    BY <1>5, <1>7, <2>1
<1>8. CASE s # {}
  <2>1. PICK x \in s : TRUE
    BY <1>8
  <2> DEFINE r == s \ {x}
  <2>2. /\ Total(v, Image(r)) \in Nat /\ Total(v, Image(r)) <= Total(w, r)
    BY <1>6
  <2>3. Total(w, s) = w[x] + Total(w, r) /\ Total(w, r) \in Nat /\ w[x] \in Nat
    BY <1>5, TotalRemove
  <2>4. CASE m[x] \in Image(r)
    <3>1. Image(s) = Image(r)
      BY <2>4
    <3> HIDE DEF Image, r
    <3>2. Total(v, Image(s)) \in Nat /\ Total(v, Image(s)) <= Total(w, s)
      BY <2>2, <2>3, <3>1
    <3> QED
      BY <1>5, <3>2 DEF Image
  <2>5. CASE m[x] \notin Image(r)
    <3>1. m[x] \in Image(s) /\ Image(r) = Image(s) \ {m[x]}
      BY <2>5
    <3>2. IsFiniteSet(Image(s))
      <4> DEFINE f == [y \in s |-> m[y]]
      <4>1. f \in Surjection(s, Image(s))
        BY DEF Surjection
      <4> HIDE DEF f
      <4> QED
        BY <1>5, <4>1, FS_Surjection
    <3>3. \A y \in Image(s) : v[y] \in Nat
      BY <1>5
    <3>4. v[m[x]] = w[x]
      BY <1>5
    <3> HIDE DEF Image, r
    <3>5. /\ Total(v, Image(s)) \in Nat
          /\ Total(v, Image(s)) = v[m[x]] + Total(v, Image(s) \ {m[x]})
      BY <3>1, <3>2, <3>3, TotalRemove
    <3>6. Total(v, Image(s)) <= Total(w, s)
      BY <2>2, <2>3, <3>1, <3>4, <3>5
    <3> QED
      BY <1>5, <3>5, <3>6 DEF Image
  <2> QED
    BY <2>4, <2>5
<1> QED
  BY <1>7, <1>8

\* A subset counts no more.
LEMMA TotalSubset ==
  ASSUME NEW S, IsFiniteSet(S), NEW w, \A x \in S : w[x] \in Nat, NEW R, R \subseteq S
  PROVE  Total(w, R) \in Nat /\ Total(w, R) <= Total(w, S)
<1> DEFINE Good(s) == Total(w, s) \in Nat /\ (R \subseteq s => Total(w, R) <= Total(w, s))
           Bad == {s \in SUBSET S : ~Good(s)}
           T == {Cardinality(s) : s \in Bad}
<1>0. SUFFICES ASSUME Bad # {} PROVE FALSE
  <2>1. CASE Bad = {}
    <3>1. Good(S) /\ Good(R)
      BY <2>1
    <3> QED
      BY <3>1
  <2> QED
    BY <2>1
<1>1. \A s \in SUBSET S : IsFiniteSet(s) /\ Cardinality(s) \in Nat
  BY FS_Subset, FS_CardinalityType
<1>2. T \subseteq Nat /\ T # {}
  BY <1>0, <1>1
<1>3. PICK n \in T : \A y \in T : n <= y
  <2> HIDE DEF T
  <2> QED
    BY <1>2, LeastNat
<1>4. PICK s \in Bad : n = Cardinality(s)
  OBVIOUS
<1>5. s \subseteq S /\ IsFiniteSet(s) /\ ~Good(s)
  BY <1>1
<1>6. \A x \in s : w[x] \in Nat
  BY <1>5
<1>7. Total(w, s) \in Nat
  BY <1>5, <1>6, TotalRemove
<1>8. R \subseteq s /\ ~(Total(w, R) <= Total(w, s))
  BY <1>5, <1>7
<1>9. R # s
  BY <1>7, <1>8
<1>10. PICK x \in s : x \notin R
  BY <1>8, <1>9
<1>11. Good(s \ {x})
  <2>1. s \ {x} \notin Bad
    <3>1. ASSUME s \ {x} \in Bad PROVE FALSE
      <4>1. Cardinality(s \ {x}) < n /\ Cardinality(s \ {x}) \in Nat /\ n \in Nat
        BY <1>4, <1>5, OneLess
      <4>2. n <= Cardinality(s \ {x})
        BY <1>3, <3>1
      <4> QED
        BY <4>1, <4>2
    <3> QED
      BY <3>1
  <2> QED
    BY <1>5, <2>1
<1>12. R \subseteq s \ {x}
  BY <1>8, <1>10
<1>13. Total(w, R) <= Total(w, s \ {x}) /\ Total(w, s \ {x}) \in Nat
  BY <1>11, <1>12
<1>14. Total(w, s) = w[x] + Total(w, s \ {x}) /\ w[x] \in Nat
  BY <1>5, <1>6, TotalRemove
<1>15. Total(w, R) \in Nat
  <2>1. IsFiniteSet(R) /\ \A y \in R : w[y] \in Nat
    BY FS_Subset
  <2> QED
    BY <2>1, TotalRemove
<1> QED
  BY <1>8, <1>13, <1>14, <1>15
=============================================================================
