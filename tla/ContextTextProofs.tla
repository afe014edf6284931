------------------------- MODULE ContextTextProofs --------------------------
(***************************************************************************)
(* What the operators of ContextMemory on texts return, for every text:    *)
(* the blocks of a text, the entries of its outline, its first lines, and  *)
(* how each passes through concatenation, which is why an item that grows  *)
(* reads as if it had been written at once.                                *)
(***************************************************************************)
EXTENDS ContextMemory, Integers, SequenceTheorems, Induction

-----------------------------------------------------------------------------
(* Arithmetic of the block size.                                           *)

\* Multiples of c are at least c apart.
LEMMA Products ==
  ASSUME NEW c \in Nat \ {0}, NEW p \in Int, NEW q \in Int, p < q
  PROVE  p * c + c <= q * c /\ p * c < q * c
<1>1. q - p \in Nat \ {0}
  OBVIOUS
<1>2. (q - p) * c >= c
  BY <1>1
<1>3. q * c = p * c + (q - p) * c
  OBVIOUS
<1> QED
  BY <1>2, <1>3

\* A remainder below c does not change the quotient by c.
LEMMA Quotient ==
  ASSUME NEW c \in Nat \ {0}, NEW q \in Nat, NEW r \in 0..c - 1
  PROVE  (q * c + r) \div c = q
<1> DEFINE a == q * c + r
<1>1. a \in Nat
  OBVIOUS
<1>2. /\ a \div c \in Int
      /\ (a \div c) * c <= a
      /\ a < (a \div c) * c + c
  BY <1>1
<1>3. ~(a \div c < q)
  <2>1. (a \div c < q) => (a \div c) * c + c <= q * c
    BY <1>2, Products
  <2> QED
    BY <1>2, <2>1
<1>4. ~(q < a \div c)
  <2>1. (q < a \div c) => q * c + c <= (a \div c) * c
    BY <1>2, Products
  <2> QED
    BY <1>2, <2>1
<1> QED
  BY <1>2, <1>3, <1>4

\* The lines of the first i full blocks.
Full(i) == i * Chunk

\* Lines of whole blocks add up.
LEMMA FullFacts ==
  /\ Full(0) = 0
  /\ \A i \in Nat : Full(i) \in Nat
  /\ \A i \in Nat : Full(i + 1) = Full(i) + Chunk
  /\ \A i, j \in Nat : Full(i + j) = Full(i) + Full(j)
BY MemoryAssumption DEF Full

\* A block ends Chunk lines behind the one before it.
LEMMA FullBefore ==
  ASSUME NEW i \in Nat \ {0}
  PROVE  i - 1 \in Nat /\ Full(i - 1) \in Nat /\ Full(i) = Full(i - 1) + Chunk
<1>1. i - 1 \in Nat /\ (i - 1) + 1 = i
  OBVIOUS
<1> QED
  BY <1>1, FullFacts

\* A later block ends at least Chunk lines later.
LEMMA FullOrder ==
  ASSUME NEW i \in Nat, NEW j \in Nat, i < j
  PROVE  Full(i) + Chunk <= Full(j)
BY Products, MemoryAssumption DEF Full

\* How many blocks n lines take.
Pieces(n) == (n + Chunk - 1) \div Chunk

\* The number of blocks is the only one with room for n lines and none to spare.
LEMMA PiecesUnique ==
  ASSUME NEW n \in Nat, NEW k \in Nat, n <= Full(k), Full(k) < n + Chunk
  PROVE  Pieces(n) = k
<1>0. Chunk \in Nat \ {0} /\ Full(k) \in Nat
  BY MemoryAssumption, FullFacts
<1> DEFINE r == n + Chunk - 1 - Full(k)
<1>1. r \in 0..Chunk - 1
  BY <1>0
<1>2. n + Chunk - 1 = Full(k) + r
  BY <1>0
<1> HIDE DEF r
<1>3. (k * Chunk + r) \div Chunk = k
  BY <1>0, <1>1, Quotient
<1> QED
  BY <1>2, <1>3 DEF Pieces, Full

\* n lines fill all their blocks but, perhaps, the last.
LEMMA PiecesFacts ==
  ASSUME NEW n \in Nat
  PROVE  /\ Pieces(n) \in Nat
         /\ n <= Full(Pieces(n))
         /\ Full(Pieces(n)) < n + Chunk
<1>0. Chunk \in Nat \ {0}
  BY MemoryAssumption
<1>1. n + Chunk - 1 \in Nat
  BY <1>0
<1>2. /\ Pieces(n) \in Nat
      /\ Pieces(n) * Chunk <= n + Chunk - 1
      /\ n + Chunk - 1 < Pieces(n) * Chunk + Chunk
  BY <1>0, <1>1 DEF Pieces
<1> QED
  BY <1>0, <1>2 DEF Full

\* Lines behind k full blocks are cut as if they were alone.
LEMMA PiecesSum ==
  ASSUME NEW k \in Nat, NEW m \in Nat
  PROVE  Pieces(Full(k) + m) = k + Pieces(m)
<1>0. Chunk \in Nat \ {0} /\ Full(k) \in Nat
  BY MemoryAssumption, FullFacts
<1>1. /\ Pieces(m) \in Nat
      /\ m <= Full(Pieces(m))
      /\ Full(Pieces(m)) < m + Chunk
  BY PiecesFacts
<1>2. Full(k + Pieces(m)) = Full(k) + Full(Pieces(m)) /\ Full(Pieces(m)) \in Nat
  BY <1>1, FullFacts
<1>3. /\ k + Pieces(m) \in Nat
      /\ Full(k) + m \in Nat
      /\ Full(k) + m <= Full(k + Pieces(m))
      /\ Full(k + Pieces(m)) < Full(k) + m + Chunk
  BY <1>0, <1>1, <1>2
<1> QED
  BY <1>3, PiecesUnique

\* The lesser of two ordered numbers is the first.
LEMMA LeastLow ==
  ASSUME NEW a \in Nat, NEW b \in Nat, a <= b
  PROVE  Least(a, b) = a
BY DEF Least

\* A common summand can be taken out of the lesser of two sums.
LEMMA LeastSum ==
  ASSUME NEW a \in Nat, NEW b \in Nat, NEW c \in Nat
  PROVE  Least(a + b, a + c) = a + Least(b, c)
BY DEF Least

\* Where piece i of n lines begins and ends.
LEMMA PieceBounds ==
  ASSUME NEW n \in Nat, NEW i \in 1..Pieces(n)
  PROVE  /\ i \in Nat /\ i - 1 \in Nat
         /\ Full(i - 1) \in Nat /\ Full(i) = Full(i - 1) + Chunk
         /\ Full(i - 1) < n
         /\ i < Pieces(n) => Full(i) < n
         /\ Least(Full(i), n) \in Full(i - 1) + 1..n
         /\ Least(Full(i), n) <= Full(i)
         /\ i < Pieces(n) => Least(Full(i), n) = Full(i)
         /\ i = Pieces(n) => Least(Full(i), n) = n
<1>0. Chunk \in Nat \ {0}
  BY MemoryAssumption
<1>1. /\ Pieces(n) \in Nat
      /\ n <= Full(Pieces(n))
      /\ Full(Pieces(n)) < n + Chunk
      /\ Full(Pieces(n)) \in Nat
  BY PiecesFacts, FullFacts
<1>2. i \in Nat \ {0} /\ i <= Pieces(n)
  BY <1>1
<1>3. i - 1 \in Nat /\ Full(i - 1) \in Nat /\ Full(i) = Full(i - 1) + Chunk
  BY <1>2, FullBefore
<1>4. i < Pieces(n) => Full(i) + Chunk <= Full(Pieces(n))
  BY <1>1, <1>2, FullOrder
<1>5. i < Pieces(n) => Full(i) < n
  BY <1>0, <1>1, <1>3, <1>4
<1>6. Full(i - 1) < n
  <2>1. CASE i < Pieces(n)
    BY <1>0, <1>3, <1>5, <2>1
  <2>2. CASE i = Pieces(n)
    BY <1>0, <1>1, <1>3, <2>2
  <2> QED
    BY <1>1, <1>2, <2>1, <2>2
<1> QED
  BY <1>0, <1>1, <1>2, <1>3, <1>5, <1>6 DEF Least

\* What Cut returns: how many blocks, and which lines in which.
LEMMA CutFacts ==
  ASSUME NEW S, NEW ls \in Seq(S)
  PROVE  /\ Len(ls) \in Nat /\ Pieces(Len(ls)) \in Nat
         /\ Cut(ls) \in Seq(Seq(S))
         /\ Len(Cut(ls)) = Pieces(Len(ls))
         /\ DOMAIN Cut(ls) = 1..Pieces(Len(ls))
         /\ \A i \in 1..Pieces(Len(ls)) :
               /\ Cut(ls)[i] \in Seq(S)
               /\ Len(Cut(ls)[i]) = Least(Full(i), Len(ls)) - Full(i - 1)
               /\ \A j \in 1..Least(Full(i), Len(ls)) - Full(i - 1) :
                     Cut(ls)[i][j] = ls[Full(i - 1) + j]
<1>0. Chunk \in Nat \ {0} /\ Len(ls) \in Nat
  BY MemoryAssumption
<1>1. Pieces(Len(ls)) \in Nat
  BY <1>0, PiecesFacts
<1>2. Cut(ls) = [i \in 1..Pieces(Len(ls)) |->
                   SubSeq(ls, Full(i - 1) + 1, Least(Full(i), Len(ls)))]
  BY DEF Cut, Pieces, Full
<1>3. ASSUME NEW i \in 1..Pieces(Len(ls))
      PROVE  /\ Cut(ls)[i] \in Seq(S)
             /\ Len(Cut(ls)[i]) = Least(Full(i), Len(ls)) - Full(i - 1)
             /\ \A j \in 1..Least(Full(i), Len(ls)) - Full(i - 1) :
                   Cut(ls)[i][j] = ls[Full(i - 1) + j]
  <2> DEFINE a == Full(i - 1)
             b == Least(Full(i), Len(ls))
  <2>1. a \in Nat /\ b \in a + 1..Len(ls)
    BY <1>0, PieceBounds
  <2>2. Cut(ls)[i] = SubSeq(ls, a + 1, b)
    BY <1>2
  <2> HIDE DEF a, b
  <2>3. a + 1 \in Int /\ b \in Int /\ a + 1 <= b
    BY <1>0, <2>1
  <2>4. \A j \in a + 1..b : ls[j] \in S
    BY <1>0, <2>1, ElementOfSeq
  <2>5. /\ SubSeq(ls, a + 1, b) \in Seq(S)
        /\ Len(SubSeq(ls, a + 1, b)) = b - (a + 1) + 1
        /\ \A j \in 1..b - (a + 1) + 1 : SubSeq(ls, a + 1, b)[j] = ls[a + 1 + j - 1]
    BY <2>3, <2>4, SubSeqProperties
  <2>6. b - (a + 1) + 1 = b - a
    BY <2>1
  <2>7. \A j \in 1..b - a : SubSeq(ls, a + 1, b)[j] = ls[a + j]
    BY <2>1, <2>5, <2>6
  <2>8. Cut(ls)[i] \in Seq(S) /\ Len(Cut(ls)[i]) = b - a
    BY <2>2, <2>5, <2>6
  <2>9. \A j \in 1..b - a : Cut(ls)[i][j] = ls[a + j]
    BY <2>2, <2>7
  <2> QED
    BY <2>8, <2>9 DEF a, b
<1>4. Cut(ls) \in [1..Pieces(Len(ls)) -> Seq(S)]
  BY <1>2, <1>3
<1>5. Cut(ls) \in Seq(Seq(S))
  BY <1>1, <1>4
<1>6. Len(Cut(ls)) = Pieces(Len(ls))
  BY <1>1, <1>4, <1>5
<1> QED
  BY <1>0, <1>1, <1>3, <1>4, <1>5, <1>6

\* Sequences of one length with the same elements are the same.
LEMMA SameSeq ==
  ASSUME NEW S, NEW s \in Seq(S), NEW t \in Seq(S), NEW m, Len(s) = m, Len(t) = m,
         \A i \in 1..m : s[i] = t[i]
  PROVE  s = t
BY SeqEqual

\* One block of Cut, with its bounds given names.
LEMMA PieceIs ==
  ASSUME NEW S, NEW ls \in Seq(S), NEW n, n = Len(ls), NEW i \in 1..Pieces(n),
         NEW a, a = Full(i - 1), NEW m, m = Least(Full(i), n) - a
  PROVE  /\ Cut(ls)[i] \in Seq(S)
         /\ Len(Cut(ls)[i]) = m
         /\ \A j \in 1..m : Cut(ls)[i][j] = ls[a + j]
BY CutFacts

\* Text after k full blocks is cut as if it stood alone.
LEMMA CutConcat ==
  ASSUME NEW S, NEW x \in Seq(S), NEW y \in Seq(S), NEW k \in Nat, Len(x) = Full(k)
  PROVE  Cut(x \o y) = Cut(x) \o Cut(y) /\ Pieces(Len(x)) = k
<1> DEFINE z == x \o y
           p == Len(x)
           q == Len(y)
<1>0. Chunk \in Nat \ {0} /\ p \in Nat /\ q \in Nat /\ p = Full(k)
  BY MemoryAssumption
<1>1. z \in Seq(S) /\ Len(z) = p + q
  BY ConcatProperties
<1>2. \A i \in 1..p + q : z[i] = IF i <= p THEN x[i] ELSE y[i - p]
  BY ConcatProperties
<1> HIDE DEF z
<1>3. Pieces(p) = k
  BY <1>0, PiecesUnique
<1>4. Pieces(p + q) = k + Pieces(q) /\ Pieces(q) \in Nat
  BY <1>0, PiecesSum, PiecesFacts
<1>5. /\ Cut(x) \in Seq(Seq(S)) /\ Len(Cut(x)) = k
      /\ Cut(y) \in Seq(Seq(S)) /\ Len(Cut(y)) = Pieces(q)
      /\ Cut(z) \in Seq(Seq(S)) /\ Len(Cut(z)) = k + Pieces(q)
  BY <1>1, <1>3, <1>4, CutFacts
<1>6. /\ Cut(x) \o Cut(y) \in Seq(Seq(S))
      /\ Len(Cut(x) \o Cut(y)) = k + Pieces(q)
      /\ \A i \in 1..k + Pieces(q) :
            (Cut(x) \o Cut(y))[i] = IF i <= k THEN Cut(x)[i] ELSE Cut(y)[i - k]
  <2> DEFINE a == Cut(x)
             b == Cut(y)
             m == Pieces(q)
  <2>1. a \in Seq(Seq(S)) /\ Len(a) = k /\ b \in Seq(Seq(S)) /\ Len(b) = m
    BY <1>5
  <2> HIDE DEF a, b, m
  <2>2. /\ a \o b \in Seq(Seq(S))
        /\ Len(a \o b) = Len(a) + Len(b)
        /\ \A i \in 1..Len(a) + Len(b) : (a \o b)[i] = IF i <= Len(a) THEN a[i] ELSE b[i - Len(a)]
    BY <2>1, ConcatProperties
  <2>3. /\ a \o b \in Seq(Seq(S))
        /\ Len(a \o b) = k + m
        /\ \A i \in 1..k + m : (a \o b)[i] = IF i <= k THEN a[i] ELSE b[i - k]
    BY <2>1, <2>2
  <2> QED
    BY <2>3 DEF a, b, m
<1>a. p = Len(x) /\ q = Len(y)
  OBVIOUS
<1> HIDE DEF p, q
<1>7. ASSUME NEW i \in 1..k
      PROVE  Cut(z)[i] = Cut(x)[i]
  <2> DEFINE a == Full(i - 1)
  <2>1. i \in Nat /\ a \in Nat /\ Full(i) = a + Chunk
    BY FullBefore
  <2>2. Full(i) <= p
    <3>1. i < k => Full(i) + Chunk <= Full(k)
      BY <2>1, FullOrder
    <3> QED
      BY <1>0, <2>1, <3>1
  <2>3. Least(Full(i), p) - a = Chunk /\ Least(Full(i), p + q) - a = Chunk
    <3>1. Full(i) \in Nat /\ Full(i) <= p + q /\ p + q \in Nat
      BY <1>0, <2>1, <2>2
    <3>2. Least(Full(i), p) = Full(i) /\ Least(Full(i), p + q) = Full(i)
      BY <1>0, <2>2, <3>1, LeastLow
    <3> QED
      BY <1>0, <2>1, <3>2
  <2>4. i \in 1..Pieces(p) /\ i \in 1..Pieces(p + q)
    BY <1>3, <1>4
  <2>5. a = Full(i - 1)
    OBVIOUS
  <2> HIDE DEF a
  <2>6. /\ Cut(x)[i] \in Seq(S) /\ Len(Cut(x)[i]) = Chunk
        /\ \A j \in 1..Chunk : Cut(x)[i][j] = x[a + j]
    BY <1>a, <2>3, <2>4, <2>5, PieceIs
  <2>7. /\ Cut(z)[i] \in Seq(S) /\ Len(Cut(z)[i]) = Chunk
        /\ \A j \in 1..Chunk : Cut(z)[i][j] = z[a + j]
    BY <1>1, <2>3, <2>4, <2>5, PieceIs
  <2>8. \A j \in 1..Chunk : z[a + j] = x[a + j]
    BY <1>0, <1>2, <2>1, <2>2
  <2>9. \A j \in 1..Chunk : Cut(z)[i][j] = Cut(x)[i][j]
    BY <2>6, <2>7, <2>8
  <2> QED
    BY <2>6, <2>7, <2>9, SameSeq
<1>8. ASSUME NEW j \in 1..Pieces(q), NEW i \in Nat, i = k + j
      PROVE  Cut(z)[i] = Cut(y)[j]
  <2> DEFINE a == Full(j - 1)
             m == Least(Full(j), q) - a
  <2>1. /\ j \in Nat /\ j - 1 \in Nat /\ a \in Nat /\ Full(j) = a + Chunk
        /\ Least(Full(j), q) \in a + 1..q
    BY <1>0, PieceBounds
  <2>2. Full(i) = p + Full(j)
    BY <1>0, <1>8, <2>1, FullFacts
  <2>3. Full(i - 1) = p + a
    <3>1. i - 1 = k + (j - 1)
      BY <1>8, <2>1
    <3> QED
      BY <1>0, <2>1, <3>1, FullFacts
  <2>4. a \in Nat /\ m \in Nat /\ a + m <= q
    BY <1>0, <2>1
  <2>5. Least(Full(i), p + q) = p + Least(Full(j), q)
    <3>1. Full(j) \in Nat
      BY <1>0, <2>1
    <3>2. Least(p + Full(j), p + q) = p + Least(Full(j), q)
      BY <1>0, <3>1, LeastSum
    <3> QED
      BY <2>2, <3>2
  <2>6. Least(Full(i), p + q) - (p + a) = m
    BY <1>0, <2>1, <2>5
  <2>7. m = Least(Full(j), q) - a /\ a = Full(j - 1)
    OBVIOUS
  <2> HIDE DEF m, a
  <2>8. /\ Cut(y)[j] \in Seq(S) /\ Len(Cut(y)[j]) = m
        /\ \A l \in 1..m : Cut(y)[j][l] = y[a + l]
    BY <1>a, <2>7, PieceIs
  <2>9. i \in 1..Pieces(p + q)
    BY <1>4, <1>8
  <2>10. /\ Cut(z)[i] \in Seq(S) /\ Len(Cut(z)[i]) = m
         /\ \A l \in 1..m : Cut(z)[i][l] = z[p + a + l]
    BY <1>1, <2>3, <2>6, <2>9, PieceIs
  <2>11. ASSUME NEW l \in 1..m
         PROVE  z[p + a + l] = y[a + l]
    <3>1. p + a + l \in 1..p + q /\ ~(p + a + l <= p) /\ (p + a + l) - p = a + l
      BY <1>0, <2>4
    <3> QED
      BY <1>2, <3>1
  <2>12. \A l \in 1..m : Cut(z)[i][l] = Cut(y)[j][l]
    BY <2>8, <2>10, <2>11
  <2> QED
    BY <2>8, <2>10, <2>12, SameSeq
<1>9. ASSUME NEW i \in 1..k + Pieces(q)
      PROVE  Cut(z)[i] = (Cut(x) \o Cut(y))[i]
  <2>1. CASE i <= k
    BY <1>4, <1>6, <1>7, <2>1
  <2>2. CASE ~(i <= k)
    <3>1. i \in Nat /\ i - k \in 1..Pieces(q) /\ i = k + (i - k)
      BY <1>4, <2>2
    <3>2. Cut(z)[i] = Cut(y)[i - k]
      BY <3>1, <1>8
    <3> QED
      BY <1>6, <2>2, <3>2
  <2> QED
    BY <2>1, <2>2
<1> QED
  BY <1>3, <1>5, <1>6, <1>9, <1>a, SameSeq DEF z
-----------------------------------------------------------------------------
(* Among: the elements of a sequence that are in a set, in their order.    *)

\* What the recursion of Among takes next.
AmongStep(f, s, S, i) ==
  IF i = 0 THEN <<>> ELSE IF s[i] \in S THEN Append(f[i - 1], s[i]) ELSE f[i - 1]

\* The recursive function behind Among exists on 0..n (least counterexample).
LEMMA AmongExists ==
  ASSUME NEW s, NEW S, NEW n \in Nat
  PROVE  \E f : f = [i \in 0..n |-> AmongStep(f, s, S, i)]
<1> DEFINE T == {m \in Nat : ~\E f : f = [i \in 0..m |-> AmongStep(f, s, S, i)]}
<1> SUFFICES ASSUME T # {} PROVE FALSE
  OBVIOUS
<1>1. PICK m \in T : \A y \in T : m <= y
  <2>1. T \subseteq Nat
    OBVIOUS
  <2> QED
    BY <2>1, LeastNat
<1>2. CASE m = 0
  <2>1. [i \in 0..0 |-> <<>>] = [i \in 0..0 |-> AmongStep([j \in 0..0 |-> <<>>], s, S, i)]
    BY DEF AmongStep
  <2> QED
    BY <2>1, <1>2
<1>3. CASE m > 0
  <2>1. PICK g : g = [i \in 0..m - 1 |-> AmongStep(g, s, S, i)]
    BY <1>1, <1>3
  <2> DEFINE f == [i \in 0..m |-> IF i < m THEN g[i] ELSE AmongStep(g, s, S, m)]
  <2>2. ASSUME NEW i \in 0..m
        PROVE  f[i] = AmongStep(f, s, S, i)
    <3>1. CASE i < m
      <4>1. f[i] = g[i]
        BY <3>1
      <4>2. g[i] = AmongStep(g, s, S, i)
        BY <3>1, <2>1
      <4>3. i # 0 => f[i - 1] = g[i - 1]
        BY <3>1
      <4> QED
        BY <4>1, <4>2, <4>3 DEF AmongStep
    <3>2. CASE i = m
      <4>1. f[i] = AmongStep(g, s, S, m)
        BY <3>2
      <4>2. f[i - 1] = g[i - 1]
        BY <3>2, <1>3
      <4> HIDE DEF f
      <4> QED
        BY <4>1, <4>2, <3>2, <1>3 DEF AmongStep
    <3> QED
      BY <3>1, <3>2
  <2>3. f = [i \in 0..m |-> f[i]]
    OBVIOUS
  <2> HIDE DEF f
  <2> QED
    BY <2>2, <2>3, <1>1
<1> QED
  BY <1>2, <1>3

Obeys(f, s, S, n) == \A i \in 0..n : f[i] = AmongStep(f, s, S, i)

\* Two functions that obey the recursion, over sequences that agree, agree.
LEMMA AmongUnique ==
  ASSUME NEW s, NEW u, NEW S, NEW n \in Nat, NEW f, NEW g,
         Obeys(f, s, S, n), Obeys(g, u, S, n),
         \A i \in 1..n : s[i] = u[i]
  PROVE  f[n] = g[n]
<1> DEFINE T == {i \in 0..n : f[i] # g[i]}
<1>1. T = {}
  <2> SUFFICES ASSUME T # {} PROVE FALSE
    OBVIOUS
  <2>1. PICK i \in T : \A y \in T : i <= y
    <3>1. T \subseteq Nat
      OBVIOUS
    <3> QED
      BY <3>1, LeastNat
  <2>2. i \in 0..n /\ f[i] # g[i]
    OBVIOUS
  <2>3. i # 0 => f[i - 1] = g[i - 1]
    BY <2>1, <2>2
  <2>4. f[i] = AmongStep(f, s, S, i) /\ g[i] = AmongStep(g, u, S, i)
    BY <2>2 DEF Obeys
  <2>5. i # 0 => s[i] = u[i]
    BY <2>2
  <2> HIDE DEF T
  <2> QED
    BY <2>2, <2>3, <2>4, <2>5 DEF AmongStep
<1> QED
  BY <1>1

\* Among is the last value of a function that obeys its recursion.
LEMMA AmongRec ==
  ASSUME NEW s, NEW S, Len(s) \in Nat
  PROVE  \E f : /\ f[Len(s)] = Among(s, S)
                /\ Obeys(f, s, S, Len(s))
<1> DEFINE f == CHOOSE f : f = [i \in 0..Len(s) |-> AmongStep(f, s, S, i)]
<1>1. f = [i \in 0..Len(s) |-> AmongStep(f, s, S, i)]
  BY AmongExists
<1>2. Among(s, S) = f[Len(s)]
  BY DEF Among, AmongStep
<1> HIDE DEF f
<1>3. Obeys(f, s, S, Len(s))
  BY <1>1 DEF Obeys
<1> QED
  BY <1>2, <1>3

\* No elements of the empty sequence are selected.
LEMMA AmongEmpty ==
  ASSUME NEW S
  PROVE  Among(<<>>, S) = <<>>
<1>1. Len(<<>>) = 0 /\ Len(<<>>) \in Nat
  OBVIOUS
<1>2. PICK f : /\ f[Len(<<>>)] = Among(<<>>, S)
               /\ Obeys(f, <<>>, S, Len(<<>>))
  BY <1>1, AmongRec
<1>3. f[0] = Among(<<>>, S) /\ f[0] = AmongStep(f, <<>>, S, 0)
  BY <1>1, <1>2 DEF Obeys
<1> QED
  BY <1>3 DEF AmongStep

\* One more element is selected or it is not.
LEMMA AmongAppend ==
  ASSUME NEW E, NEW s \in Seq(E), NEW e \in E, NEW S
  PROVE  Among(Append(s, e), S) = IF e \in S THEN Append(Among(s, S), e) ELSE Among(s, S)
<1> DEFINE u == Append(s, e)
           n == Len(s)
<1>1. /\ n \in Nat /\ Len(u) = n + 1 /\ u[n + 1] = e
      /\ \A i \in 1..n : u[i] = s[i]
  BY AppendProperties
<1> HIDE DEF u
<1>2. PICK f : /\ f[n] = Among(s, S)
               /\ Obeys(f, s, S, n)
  BY <1>1, AmongRec
<1>3. PICK g : /\ g[n + 1] = Among(u, S)
               /\ Obeys(g, u, S, n + 1)
  <2>1. Len(u) \in Nat
    BY <1>1
  <2> QED
    BY <1>1, <2>1, AmongRec
<1> HIDE DEF n
<1>4. f[n] = g[n]
  <2>1. Obeys(g, u, S, n)
    BY <1>1, <1>3 DEF Obeys
  <2>2. \A i \in 1..n : s[i] = u[i]
    BY <1>1
  <2> QED
    BY <1>1, <1>2, <2>1, <2>2, AmongUnique
<1>5. g[n + 1] = IF e \in S THEN Append(g[n], e) ELSE g[n]
  <2>1. n + 1 \in 0..n + 1 /\ n + 1 # 0 /\ (n + 1) - 1 = n
    BY <1>1
  <2>2. g[n + 1] = AmongStep(g, u, S, n + 1)
    BY <1>3, <2>1 DEF Obeys
  <2> QED
    BY <1>1, <2>1, <2>2 DEF AmongStep
<1> QED
  BY <1>2, <1>3, <1>4, <1>5 DEF u

\* Append passes through concatenation.
LEMMA AppendConcat ==
  ASSUME NEW E, NEW s \in Seq(E), NEW u \in Seq(E), NEW e \in E
  PROVE  s \o Append(u, e) = Append(s \o u, e)
<1>1. Append(u, e) = u \o <<e>> /\ <<e>> \in Seq(E)
  BY AppendIsConcat
<1>2. (s \o u) \o <<e>> = s \o (u \o <<e>>) /\ s \o u \in Seq(E)
  BY <1>1, ConcatAssociative, ConcatProperties
<1>3. Append(s \o u, e) = (s \o u) \o <<e>>
  BY <1>2, AppendIsConcat
<1> QED
  BY <1>1, <1>2, <1>3

\* The selected elements are elements of the sequence.
LEMMA AmongType ==
  ASSUME NEW E, NEW s \in Seq(E), NEW S
  PROVE  /\ Among(s, S) \in Seq(E)
         /\ \A i \in 1..Len(Among(s, S)) : Among(s, S)[i] \in S
         /\ Len(Among(s, S)) \in 0..Len(s)
         /\ Len(Among(s, S)) = Len(s) => Among(s, S) = s
         /\ (\A i \in 1..Len(s) : s[i] \in S) => Among(s, S) = s
         /\ (\A i \in 1..Len(s) : s[i] \notin S) => Among(s, S) = <<>>
<1> DEFINE Holds(u) == /\ Among(u, S) \in Seq(E)
                       /\ \A i \in 1..Len(Among(u, S)) : Among(u, S)[i] \in S
                       /\ Len(Among(u, S)) \in 0..Len(u)
                       /\ Len(Among(u, S)) = Len(u) => Among(u, S) = u
                       /\ (\A i \in 1..Len(u) : u[i] \in S) => Among(u, S) = u
                       /\ (\A i \in 1..Len(u) : u[i] \notin S) => Among(u, S) = <<>>
           T == {m \in Nat : \E u \in Seq(E) : Len(u) = m /\ ~Holds(u)}
<1>1. T = {}
  <2> SUFFICES ASSUME T # {} PROVE FALSE
    OBVIOUS
  <2>1. PICK m \in T : \A y \in T : m <= y
    <3>1. T \subseteq Nat
      OBVIOUS
    <3> QED
      BY <3>1, LeastNat
  <2>2. PICK u \in Seq(E) : Len(u) = m /\ ~Holds(u)
    BY <2>1
  <2>3. CASE u = <<>>
    <3>1. Among(<<>>, S) = <<>> /\ <<>> \in Seq(E) /\ Len(<<>>) = 0
      BY AmongEmpty
    <3> QED
      BY <2>2, <2>3, <3>1
  <2>4. CASE u # <<>>
    <3>1. PICK v \in Seq(E), e \in E : u = Append(v, e)
      BY <2>4, SequenceEmptyOrAppend
    <3>2. /\ Len(v) \in Nat /\ Len(u) = Len(v) + 1 /\ u[Len(v) + 1] = e
          /\ \A i \in 1..Len(v) : u[i] = v[i]
      BY <3>1, AppendProperties
    <3>3. Holds(v)
      <4>1. Len(v) \notin T
        <5>1. Len(v) < m /\ m \in Nat
          BY <2>2, <3>2
        <5> HIDE DEF T
        <5> QED
          BY <2>1, <3>2, <5>1
      <4> QED
        BY <3>2, <4>1
    <3>4. Among(u, S) = IF e \in S THEN Append(Among(v, S), e) ELSE Among(v, S)
      <4>1. Among(Append(v, e), S) = IF e \in S THEN Append(Among(v, S), e) ELSE Among(v, S)
        BY AmongAppend
      <4> QED
        BY <3>1, <4>1
    <3>5. /\ Append(Among(v, S), e) \in Seq(E)
          /\ Len(Append(Among(v, S), e)) = Len(Among(v, S)) + 1
      BY <3>3, AppendProperties
    <3>6. Among(u, S) \in Seq(E) /\ Len(Among(u, S)) \in 0..Len(u)
      BY <3>2, <3>3, <3>4, <3>5
    <3>10. \A i \in 1..Len(Among(u, S)) : Among(u, S)[i] \in S
      <4> DEFINE a == Among(v, S)
      <4>1. a \in Seq(E) /\ e \in E /\ \A i \in 1..Len(a) : a[i] \in S
        BY <3>1, <3>3
      <4>2. Among(u, S) = IF e \in S THEN Append(a, e) ELSE a
        BY <3>4
      <4> HIDE DEF a, T
      <4>3. \A i \in 1..Len(a) + 1 : Append(a, e)[i] = IF i = Len(a) + 1 THEN e ELSE a[i]
        BY <4>1, AppendProperties
      <4>4. Len(Append(a, e)) = Len(a) + 1 /\ Len(a) \in Nat
        BY <4>1, AppendProperties
      <4> QED
        BY <4>1, <4>2, <4>3, <4>4
    <3>7. Len(Among(u, S)) = Len(u) => Among(u, S) = u
      BY <3>1, <3>2, <3>3, <3>4, <3>5
    <3>8. (\A i \in 1..Len(u) : u[i] \in S) => Among(u, S) = u
      <4> SUFFICES ASSUME \A i \in 1..Len(u) : u[i] \in S
                   PROVE  Among(u, S) = u
        OBVIOUS
      <4>1. e \in S /\ \A i \in 1..Len(v) : v[i] \in S
        BY <3>2
      <4> QED
        BY <3>1, <3>3, <3>4, <4>1
    <3>9. (\A i \in 1..Len(u) : u[i] \notin S) => Among(u, S) = <<>>
      <4> SUFFICES ASSUME \A i \in 1..Len(u) : u[i] \notin S
                   PROVE  Among(u, S) = <<>>
        OBVIOUS
      <4>1. e \notin S /\ \A i \in 1..Len(v) : v[i] \notin S
        BY <3>2
      <4> QED
        BY <3>3, <3>4, <4>1
    <3> QED
      BY <2>2, <3>6, <3>7, <3>8, <3>9, <3>10
  <2> QED
    BY <2>3, <2>4
<1>2. Len(s) \in Nat
  OBVIOUS
<1> QED
  BY <1>1, <1>2

\* Selection passes through concatenation.
LEMMA AmongConcat ==
  ASSUME NEW E, NEW s \in Seq(E), NEW u \in Seq(E), NEW S
  PROVE  Among(s \o u, S) = Among(s, S) \o Among(u, S)
<1> DEFINE T == {m \in Nat : \E v \in Seq(E) : /\ Len(v) = m
                                               /\ Among(s \o v, S) # Among(s, S) \o Among(v, S)}
<1>1. T = {}
  <2> SUFFICES ASSUME T # {} PROVE FALSE
    OBVIOUS
  <2>1. PICK m \in T : \A y \in T : m <= y
    <3>1. T \subseteq Nat
      OBVIOUS
    <3> QED
      BY <3>1, LeastNat
  <2>2. PICK w \in Seq(E) : Len(w) = m /\ Among(s \o w, S) # Among(s, S) \o Among(w, S)
    BY <2>1
  <2>0. Among(s, S) \in Seq(E)
    BY AmongType
  <2>3. CASE w = <<>>
    <3>1. s \o <<>> = s /\ Among(s, S) \o <<>> = Among(s, S)
      BY <2>0, ConcatEmptySeq
    <3> QED
      BY <2>2, <2>3, <3>1, AmongEmpty
  <2>4. CASE w # <<>>
    <3>1. PICK v \in Seq(E), e \in E : w = Append(v, e)
      BY <2>4, SequenceEmptyOrAppend
    <3>2. Len(v) \in Nat /\ Len(w) = Len(v) + 1
      BY <3>1, AppendProperties
    <3>3. Among(s \o v, S) = Among(s, S) \o Among(v, S)
      <4>1. Len(v) \notin T
        <5>1. Len(v) < m /\ m \in Nat
          BY <2>2, <3>2
        <5> HIDE DEF T
        <5> QED
          BY <2>1, <3>2, <5>1
      <4> QED
        BY <3>2, <4>1
    <3>4. s \o w = Append(s \o v, e) /\ s \o v \in Seq(E)
      <4>1. s \o Append(v, e) = Append(s \o v, e)
        BY AppendConcat
      <4>2. s \o v \in Seq(E)
        BY ConcatProperties
      <4> QED
        BY <3>1, <4>1, <4>2
    <3>5. /\ Among(s \o w, S) = IF e \in S THEN Append(Among(s \o v, S), e) ELSE Among(s \o v, S)
          /\ Among(w, S) = IF e \in S THEN Append(Among(v, S), e) ELSE Among(v, S)
          /\ Among(v, S) \in Seq(E)
      <4> DEFINE z == s \o v
      <4>1. z \in Seq(E) /\ s \o w = Append(z, e)
        BY <3>4
      <4> HIDE DEF z
      <4>2. Among(Append(z, e), S) = IF e \in S THEN Append(Among(z, S), e) ELSE Among(z, S)
        BY <4>1, AmongAppend
      <4>3. Among(w, S) = IF e \in S THEN Append(Among(v, S), e) ELSE Among(v, S)
        BY <3>1, AmongAppend
      <4>4. Among(v, S) \in Seq(E)
        BY AmongType
      <4> QED
        BY <4>1, <4>2, <4>3, <4>4 DEF z
    <3>6. Among(s, S) \o Append(Among(v, S), e) = Append(Among(s, S) \o Among(v, S), e)
      <4> DEFINE a == Among(s, S)
                 b == Among(v, S)
      <4>1. a \in Seq(E) /\ b \in Seq(E) /\ e \in E
        BY <2>0, <3>1, <3>5
      <4> HIDE DEF a, b, T
      <4>2. a \o Append(b, e) = Append(a \o b, e)
        BY <4>1, AppendConcat
      <4> QED
        BY <4>2 DEF a, b
    <3> QED
      BY <2>2, <3>3, <3>5, <3>6
  <2> QED
    BY <2>3, <2>4
<1>2. Len(u) \in Nat
  OBVIOUS
<1> QED
  BY <1>1, <1>2

-----------------------------------------------------------------------------
(* Pieces of sequences.                                                    *)

\* The first m elements of a sequence.
LEMMA HeadOf ==
  ASSUME NEW S, NEW a \in Seq(S), NEW b \in Seq(S)
  PROVE  SubSeq(a \o b, 1, Len(a)) = a
<1> DEFINE n == Len(a)
<1>1. n \in Nat /\ Len(b) \in Nat
  OBVIOUS
<1>2. /\ a \o b \in Seq(S) /\ Len(a \o b) = n + Len(b)
      /\ \A i \in 1..n + Len(b) : (a \o b)[i] = IF i <= n THEN a[i] ELSE b[i - n]
  BY ConcatProperties
<1> DEFINE c == a \o b
<1>3. c \in Seq(S) /\ n <= Len(c) /\ \A i \in 1..n : c[i] = a[i]
  BY <1>1, <1>2
<1> HIDE DEF c
<1>4. \A i \in 1..n : c[i] \in S
  BY <1>3, ElementOfSeq
<1>5. CASE n = 0
  <2>1. a = <<>>
    BY <1>5, EmptySeq
  <2>2. SubSeq(c, 1, 0) = <<>>
    BY SubSeqEmpty
  <2> QED
    BY <1>5, <2>1, <2>2 DEF c
<1>6. CASE n # 0
  <2>1. 1 <= n
    BY <1>1, <1>6
  <2>2. /\ SubSeq(c, 1, n) \in Seq(S) /\ Len(SubSeq(c, 1, n)) = n
        /\ \A i \in 1..n : SubSeq(c, 1, n)[i] = c[i]
    BY <1>1, <1>4, <2>1, SubSeqProperties
  <2>3. \A i \in 1..n : SubSeq(c, 1, n)[i] = a[i]
    BY <1>3, <2>2
  <2>4. SubSeq(c, 1, n) = a
    BY <2>2, <2>3, SameSeq
  <2> QED
    BY <2>4 DEF c
<1> QED
  BY <1>5, <1>6

\* What AtMost returns.
LEMMA AtMostFacts ==
  ASSUME NEW S, NEW s \in Seq(S), NEW n \in Nat
  PROVE  /\ AtMost(s, n) \in Seq(S)
         /\ Len(AtMost(s, n)) = Least(n, Len(s))
         /\ \A i \in 1..Least(n, Len(s)) : AtMost(s, n)[i] = s[i]
<1> DEFINE m == Least(n, Len(s))
<1>1. m \in Nat /\ m <= Len(s) /\ Len(s) \in Nat
  BY DEF Least
<1>2. AtMost(s, n) = SubSeq(s, 1, m)
  BY DEF AtMost
<1> HIDE DEF m
<1>3. CASE m = 0
  <2>1. SubSeq(s, 1, m) = <<>>
    BY <1>3, SubSeqEmpty
  <2> QED
    BY <1>2, <1>3, <2>1 DEF m
<1>4. CASE m # 0
  <2>1. \A i \in 1..m : s[i] \in S
    BY <1>1, ElementOfSeq
  <2>2. 1 <= m
    BY <1>1, <1>4
  <2>3. /\ SubSeq(s, 1, m) \in Seq(S) /\ Len(SubSeq(s, 1, m)) = m
        /\ \A i \in 1..m : SubSeq(s, 1, m)[i] = s[i]
    BY <1>1, <2>1, <2>2, SubSeqProperties
  <2> QED
    BY <1>2, <2>3 DEF m
<1> QED
  BY <1>3, <1>4

\* Any part of a sequence, also one that is empty.
LEMMA PartOf ==
  ASSUME NEW S, NEW s \in Seq(S), NEW a \in Nat, NEW b \in Nat, b <= Len(s), a <= b
  PROVE  /\ SubSeq(s, a + 1, b) \in Seq(S)
         /\ Len(SubSeq(s, a + 1, b)) = b - a
         /\ \A j \in 1..b - a : SubSeq(s, a + 1, b)[j] = s[a + j]
<1>1. CASE a = b
  <2>1. SubSeq(s, a + 1, b) = <<>>
    BY <1>1, SubSeqEmpty
  <2> QED
    BY <1>1, <2>1
<1>2. CASE a < b
  <2>1. a + 1 \in Int /\ b \in Int /\ a + 1 <= b /\ Len(s) \in Nat
    BY <1>2
  <2>2. \A j \in a + 1..b : s[j] \in S
    BY <2>1, ElementOfSeq
  <2>3. /\ SubSeq(s, a + 1, b) \in Seq(S)
        /\ Len(SubSeq(s, a + 1, b)) = b - (a + 1) + 1
        /\ \A j \in 1..b - (a + 1) + 1 : SubSeq(s, a + 1, b)[j] = s[a + 1 + j - 1]
    BY <2>1, <2>2, SubSeqProperties
  <2> QED
    BY <2>1, <2>3
<1> QED
  BY <1>1, <1>2

\* A sequence is its first m elements and the rest.
LEMMA SplitAt ==
  ASSUME NEW S, NEW s \in Seq(S), NEW k \in Nat, k <= Len(s)
  PROVE  /\ SubSeq(s, 1, k) \in Seq(S) /\ Len(SubSeq(s, 1, k)) = k
         /\ SubSeq(s, k + 1, Len(s)) \in Seq(S) /\ Len(SubSeq(s, k + 1, Len(s))) = Len(s) - k
         /\ s = SubSeq(s, 1, k) \o SubSeq(s, k + 1, Len(s))
<1> DEFINE a == SubSeq(s, 1, k)
           b == SubSeq(s, k + 1, Len(s))
           n == Len(s)
<1>0. n \in Nat /\ k <= n
  OBVIOUS
<1>1. a \in Seq(S) /\ Len(a) = k /\ \A j \in 1..k : a[j] = s[j]
  <2>1. 0 + 1 = 1 /\ k - 0 = k /\ \A j \in 1..k : 0 + j = j
    OBVIOUS
  <2>2. /\ SubSeq(s, 0 + 1, k) \in Seq(S) /\ Len(SubSeq(s, 0 + 1, k)) = k - 0
        /\ \A j \in 1..k - 0 : SubSeq(s, 0 + 1, k)[j] = s[0 + j]
    BY <1>0, PartOf
  <2> QED
    BY <2>1, <2>2
<1>2. b \in Seq(S) /\ Len(b) = n - k /\ \A j \in 1..n - k : b[j] = s[k + j]
  BY <1>0, PartOf
<1>a. n = Len(s)
  OBVIOUS
<1> HIDE DEF a, b, n
<1>3. a \o b \in Seq(S) /\ Len(a \o b) = n
  BY <1>0, <1>1, <1>2, ConcatProperties
<1>4. \A i \in 1..n : (a \o b)[i] = IF i <= k THEN a[i] ELSE b[i - k]
  BY <1>0, <1>1, <1>2, ConcatProperties
<1>c. s \in Seq(S) /\ Len(s) = n /\ a \o b \in Seq(S) /\ Len(a \o b) = n
  BY <1>3, <1>a
<1>5. \A i \in 1..n : s[i] = (a \o b)[i]
  <2> TAKE i \in 1..n
  <2>1. CASE i <= k
    BY <1>0, <1>1, <1>4, <2>1
  <2>2. CASE ~(i <= k)
    <3>1. i - k \in 1..n - k /\ k + (i - k) = i
      BY <1>0, <2>2
    <3>2. b[i - k] = s[k + (i - k)]
      BY <1>2, <3>1
    <3> QED
      BY <1>4, <2>2, <3>1, <3>2
  <2> QED
    BY <2>1, <2>2
<1>6. s = a \o b
  BY <1>c, <1>5, SameSeq
<1> QED
  BY <1>1, <1>2, <1>6, <1>a DEF a, b, n

\* r elements more make n of them.
Room(h, n, r) == r = IF Len(h) < n THEN n - Len(h) ELSE 0

\* What follows a sequence that is short of n elements fills it up.
LEMMA AtMostConcat ==
  ASSUME NEW S, NEW a \in Seq(S), NEW b \in Seq(S), NEW n \in Nat,
         NEW r, Room(AtMost(a, n), n, r)
  PROVE  AtMost(a \o b, n) = AtMost(a, n) \o AtMost(b, r)
<1> DEFINE p == Len(a)
           q == Len(b)
           c == a \o b
           h == AtMost(a, n)
           g == AtMost(b, r)
<1>r. r = IF Len(h) < n THEN n - Len(h) ELSE 0
  BY DEF Room
<1>1. /\ h \in Seq(S) /\ Len(h) = Least(n, p)
      /\ \A i \in 1..Least(n, p) : h[i] = a[i]
  BY AtMostFacts
<1>2. c \in Seq(S) /\ Len(c) = p + q
  BY ConcatProperties
<1>3. \A i \in 1..p + q : c[i] = IF i <= p THEN a[i] ELSE b[i - p]
  BY ConcatProperties
<1>4. p \in Nat /\ q \in Nat
  OBVIOUS
<1>pq. p = Len(a) /\ q = Len(b)
  OBVIOUS
<1>5. r \in Nat /\ r = n - Least(n, p)
  <2>1. Len(h) = Least(n, p) /\ Least(n, p) \in Nat /\ Least(n, p) <= n
    BY <1>1, <1>4, <1>pq DEF Least
  <2> QED
    BY <1>r, <2>1
<1> HIDE DEF c, p, q, h
<1>6. g \in Seq(S) /\ Len(g) = Least(r, q) /\ \A i \in 1..Least(r, q) : g[i] = b[i]
  BY <1>5, <1>pq, AtMostFacts
<1>7. AtMost(c, n) \in Seq(S) /\ Len(AtMost(c, n)) = Least(n, p + q)
  BY <1>2, AtMostFacts
<1>8. \A i \in 1..Least(n, p + q) : AtMost(c, n)[i] = c[i]
  BY <1>2, AtMostFacts
<1>9. Least(n, p) + Least(r, q) = Least(n, p + q)
  <2>1. CASE n < p
    <3>1. Least(n, p) = n /\ Least(n, p + q) = n
      BY <1>4, <2>1 DEF Least
    <3>2. r = 0
      BY <1>5, <3>1
    <3> QED
      BY <1>4, <3>1, <3>2 DEF Least
  <2>2. CASE ~(n < p)
    <3>1. Least(n, p) = p /\ r = n - p
      BY <1>4, <1>5, <2>2 DEF Least
    <3> QED
      BY <1>4, <1>5, <2>2, <3>1 DEF Least
  <2> QED
    BY <2>1, <2>2
<1> DEFINE m == Least(n, p)
           l == Least(r, q)
<1>ml. m \in Nat /\ l \in Nat /\ m <= p /\ (m < p => l = 0) /\ l <= q
  BY <1>4, <1>5 DEF Least
<1>h. h \in Seq(S) /\ Len(h) = m /\ \A i \in 1..m : h[i] = a[i]
  BY <1>1, <1>pq
<1>g. g \in Seq(S) /\ Len(g) = l /\ \A i \in 1..l : g[i] = b[i]
  BY <1>6
<1>f. AtMost(c, n) \in Seq(S) /\ Len(AtMost(c, n)) = m + l
  BY <1>7, <1>9
<1>k. \A i \in 1..m + l : AtMost(c, n)[i] = c[i]
  BY <1>8, <1>9
<1> HIDE DEF g, m, l
<1>10. h \o g \in Seq(S) /\ Len(h \o g) = m + l
  BY <1>h, <1>g, ConcatProperties
<1>11. \A i \in 1..m + l : (h \o g)[i] = IF i <= m THEN h[i] ELSE g[i - m]
  BY <1>h, <1>g, ConcatProperties
<1>12. \A i \in 1..m + l : AtMost(c, n)[i] = (h \o g)[i]
  <2> TAKE i \in 1..m + l
  <2>1. CASE i <= m
    <3>1. i \in 1..m /\ i <= p /\ i \in 1..p + q
      BY <1>4, <1>ml, <2>1
    <3>2. c[i] = a[i] /\ h[i] = a[i]
      BY <1>3, <1>h, <3>1
    <3> QED
      BY <1>k, <1>11, <2>1, <3>2
  <2>2. CASE ~(i <= m)
    <3>1. m = p /\ i - m \in 1..l /\ i \in 1..p + q /\ ~(i <= p)
      BY <1>4, <1>ml, <2>2
    <3>2. c[i] = b[i - m] /\ g[i - m] = b[i - m]
      BY <1>3, <1>g, <3>1
    <3> QED
      BY <1>k, <1>11, <2>2, <3>2
  <2> QED
    BY <2>1, <2>2
<1>13. AtMost(c, n) = h \o g
  BY <1>f, <1>10, <1>12, SameSeq
<1> QED
  BY <1>13 DEF c, g, h

-----------------------------------------------------------------------------
(* The outline.                                                            *)

\* The lines ls with their numbers, the first of which is n.
Numbered(ls, n) == [i \in DOMAIN ls |-> <<n + i - 1, ls[i]>>]

\* Numbered lines are pairs of a number and a line.
LEMMA NumberedFacts ==
  ASSUME NEW L, NEW ls \in Seq(L), NEW n \in Nat \ {0}
  PROVE  /\ Numbered(ls, n) \in Seq((n..n + Len(ls) - 1) \X L)
         /\ Numbered(ls, n) \in Seq(Nat \X L)
         /\ Len(Numbered(ls, n)) = Len(ls)
         /\ \A i \in 1..Len(ls) : Numbered(ls, n)[i] = <<n + i - 1, ls[i]>>
<1> DEFINE p == Len(ls)
           f == Numbered(ls, n)
<1>1. p \in Nat /\ DOMAIN ls = 1..p
  OBVIOUS
<1>2. f = [i \in 1..p |-> <<n + i - 1, ls[i]>>]
  BY <1>1 DEF Numbered
<1>3. \A i \in 1..p : ls[i] \in L
  BY ElementOfSeq
<1> HIDE DEF p, f
<1>4. f \in [1..p -> (n..n + p - 1) \X L] /\ f \in [1..p -> Nat \X L]
  BY <1>1, <1>2, <1>3
<1>5. f \in Seq((n..n + p - 1) \X L) /\ f \in Seq(Nat \X L) /\ Len(f) = p
  BY <1>1, <1>4
<1> QED
  BY <1>2, <1>5 DEF p, f

\* Lines behind m others are numbered from m further on.
LEMMA NumberedConcat ==
  ASSUME NEW L, NEW x \in Seq(L), NEW y \in Seq(L), NEW n \in Nat \ {0}
  PROVE  Numbered(x \o y, n) = Numbered(x, n) \o Numbered(y, n + Len(x))
<1> DEFINE p == Len(x)
           q == Len(y)
           z == x \o y
           a == Numbered(x, n)
           b == Numbered(y, n + p)
           c == Numbered(z, n)
<1>1. p \in Nat /\ q \in Nat /\ z \in Seq(L) /\ Len(z) = p + q
  BY ConcatProperties
<1>2. \A i \in 1..p + q : z[i] = IF i <= p THEN x[i] ELSE y[i - p]
  BY ConcatProperties
<1>3. a \in Seq(Nat \X L) /\ Len(a) = p /\ \A i \in 1..p : a[i] = <<n + i - 1, x[i]>>
  BY NumberedFacts
<1>4. b \in Seq(Nat \X L) /\ Len(b) = q /\ \A i \in 1..q : b[i] = <<n + p + i - 1, y[i]>>
  <2>1. n + p \in Nat \ {0}
    BY <1>1
  <2> QED
    BY <2>1, NumberedFacts
<1> HIDE DEF z
<1>5. c \in Seq(Nat \X L) /\ Len(c) = p + q
  BY <1>1, NumberedFacts
<1>6. \A i \in 1..p + q : c[i] = <<n + i - 1, z[i]>>
  BY <1>1, NumberedFacts
<1> HIDE DEF p, q, a, b, c
<1>7. a \o b \in Seq(Nat \X L) /\ Len(a \o b) = p + q
  BY <1>3, <1>4, ConcatProperties
<1>8. \A i \in 1..p + q : (a \o b)[i] = IF i <= p THEN a[i] ELSE b[i - p]
  BY <1>3, <1>4, ConcatProperties
<1>9. \A i \in 1..p + q : c[i] = (a \o b)[i]
  <2> TAKE i \in 1..p + q
  <2>1. CASE i <= p
    <3>1. i \in 1..p
      BY <1>1, <2>1
    <3> QED
      BY <1>2, <1>3, <1>6, <1>8, <2>1, <3>1
  <2>2. CASE ~(i <= p)
    <3>1. i - p \in 1..q /\ n + p + (i - p) - 1 = n + i - 1
      BY <1>1, <2>2
    <3>2. b[i - p] = <<n + p + (i - p) - 1, y[i - p]>>
      BY <1>4, <3>1
    <3> QED
      BY <1>2, <1>6, <1>8, <2>2, <3>1, <3>2
  <2> QED
    BY <2>1, <2>2
<1>10. c = a \o b
  <2> DEFINE m == p + q
             E == Nat \X L
  <2>1. /\ c \in Seq(E) /\ Len(c) = m
        /\ a \o b \in Seq(E) /\ Len(a \o b) = m
    BY <1>5, <1>7
  <2>2. \A i \in 1..m : c[i] = (a \o b)[i]
    BY <1>9
  <2> HIDE DEF m, E
  <2> QED
    BY <2>1, <2>2, SameSeq
<1> QED
  BY <1>10 DEF a, b, c, z, p

\* Entries are pairs of a number and a line, none of no lines.
LEMMA EntryFacts ==
  ASSUME NEW L, NEW ls \in Seq(L), NEW n \in Nat \ {0}
  PROVE  /\ Entry(ls, n) \in Seq(Nat \X L)
         /\ Entry(ls, n) \in Seq((n..n + Len(ls) - 1) \X L)
         /\ \A i \in 1..Len(Entry(ls, n)) : Entry(ls, n)[i] \in Nat \X Headings
<1>1. Entry(ls, n) = Among(Numbered(ls, n), Nat \X Headings)
  BY DEF Entry, Numbered
<1> DEFINE f == Numbered(ls, n)
           R == (n..n + Len(ls) - 1) \X L
           H == Nat \X Headings
<1>2. f \in Seq(R) /\ f \in Seq(Nat \X L)
  BY NumberedFacts
<1> HIDE DEF f, R
<1>3. Among(f, H) \in Seq(R) /\ Among(f, H) \in Seq(Nat \X L)
  BY <1>2, AmongType
<1>4. \A i \in 1..Len(Among(f, H)) : Among(f, H)[i] \in H
  BY <1>2, AmongType
<1> QED
  BY <1>1, <1>3, <1>4 DEF f, R

\* The entries of two texts, one behind the other.
LEMMA EntryConcat ==
  ASSUME NEW L, NEW x \in Seq(L), NEW y \in Seq(L), NEW n \in Nat \ {0}
  PROVE  Entry(x \o y, n) = Entry(x, n) \o Entry(y, n + Len(x))
<1> DEFINE a == Numbered(x, n)
           b == Numbered(y, n + Len(x))
<1>1. Numbered(x \o y, n) = a \o b
  BY NumberedConcat
<1>2. a \in Seq(Nat \X L)
  BY NumberedFacts
<1>3. b \in Seq(Nat \X L)
  <2>1. n + Len(x) \in Nat \ {0}
    OBVIOUS
  <2> QED
    BY <2>1, NumberedFacts
<1> HIDE DEF a, b
<1>4. Among(a \o b, Nat \X Headings) = Among(a, Nat \X Headings) \o Among(b, Nat \X Headings)
  BY <1>2, <1>3, AmongConcat
<1> QED
  BY <1>1, <1>4 DEF Entry, Numbered, a, b

Outline(t) == AtMost(Entry(t, 1), MaxOutline)

\* Cutting an outline at the line where a text goes on leaves the outline of the text.
LEMMA OutlineBefore ==
  ASSUME NEW L, NEW x \in Seq(L), NEW y \in Seq(L)
  PROVE  Before(Outline(x \o y), Len(x) + 1) = Outline(x)
<1> DEFINE p == Len(x)
           S == (0..p) \X Headings
           a == Entry(x, 1)
           b == Entry(y, 1 + p)
           h == AtMost(a, MaxOutline)
           r == IF Len(h) < MaxOutline THEN MaxOutline - Len(h) ELSE 0
           g == AtMost(b, r)
<1>0. p \in Nat /\ MaxOutline \in Nat /\ 1 \in Nat \ {0} /\ 1 + p \in Nat \ {0}
  BY MemoryAssumption
<1>1. Entry(x \o y, 1) = a \o b
  BY <1>0, EntryConcat
<1>2. /\ a \in Seq(Nat \X L) /\ a \in Seq((1..p) \X L)
      /\ \A i \in 1..Len(a) : a[i] \in Nat \X Headings
  <2>1. 1 + p - 1 = p
    BY <1>0
  <2> QED
    BY <1>0, <2>1, EntryFacts
<1>3. /\ b \in Seq(Nat \X L) /\ b \in Seq((1 + p..1 + p + Len(y) - 1) \X L)
  BY <1>0, EntryFacts
<1>p. (0..p + 1 - 1) = 0..p
  BY <1>0
<1> HIDE DEF a, b
<1>4. /\ h \in Seq(Nat \X L) /\ Len(h) = Least(MaxOutline, Len(a))
      /\ \A i \in 1..Least(MaxOutline, Len(a)) : h[i] = a[i]
  BY <1>0, <1>2, AtMostFacts
<1>5. Len(a) \in Nat /\ Least(MaxOutline, Len(a)) \in Nat /\ Least(MaxOutline, Len(a)) <= Len(a)
  BY <1>0, <1>2 DEF Least
<1>6. \A i \in 1..Len(h) : h[i] \in S
  <2> TAKE i \in 1..Len(h)
  <2>1. i \in 1..Len(a) /\ h[i] = a[i]
    BY <1>4, <1>5
  <2>2. a[i] \in (1..p) \X L
    BY <1>2, <2>1, ElementOfSeq
  <2>3. a[i] \in Nat \X Headings
    BY <1>2, <2>1
  <2> QED
    BY <1>0, <2>1, <2>2, <2>3
<1>7. Among(h, S) = h
  BY <1>4, <1>6, AmongType
<1>8. r \in Nat
  BY <1>0, <1>4, <1>5
<1>h. h = AtMost(a, MaxOutline) /\ Room(h, MaxOutline, r)
  BY DEF Room
<1> HIDE DEF h, r
<1>9. AtMost(a \o b, MaxOutline) = h \o g
  <2> DEFINE E == Nat \X L
  <2>1. a \in Seq(E) /\ b \in Seq(E) /\ MaxOutline \in Nat
    BY <1>0, <1>2, <1>3
  <2> HIDE DEF E
  <2>2. Room(AtMost(a, MaxOutline), MaxOutline, r)
    BY <1>h
  <2>3. AtMost(a \o b, MaxOutline) = AtMost(a, MaxOutline) \o AtMost(b, r)
    BY <2>1, <2>2, AtMostConcat
  <2> QED
    BY <1>h, <2>3
<1>10. /\ g \in Seq(Nat \X L)
       /\ \A i \in 1..Len(g) : i \in 1..Len(b) /\ g[i] = b[i]
  <2>1. /\ g \in Seq(Nat \X L) /\ Len(g) = Least(r, Len(b))
        /\ \A i \in 1..Least(r, Len(b)) : g[i] = b[i]
    BY <1>3, <1>8, AtMostFacts
  <2>2. Least(r, Len(b)) \in Nat /\ Least(r, Len(b)) <= Len(b) /\ Len(b) \in Nat
    BY <1>3, <1>8 DEF Least
  <2> QED
    BY <2>1, <2>2
<1>11. \A i \in 1..Len(g) : g[i] \notin S
  <2> TAKE i \in 1..Len(g)
  <2>1. b[i] \in (1 + p..1 + p + Len(y) - 1) \X L
    BY <1>3, <1>10, ElementOfSeq
  <2>2. b[i] \notin S
    BY <1>0, <2>1
  <2> QED
    BY <1>10, <2>2
<1> HIDE DEF g, S
<1>12. Among(g, S) = <<>>
  BY <1>10, <1>11, AmongType
<1>13. Among(h \o g, S) = Among(h, S) \o Among(g, S)
  BY <1>4, <1>10, AmongConcat
<1>14. Among(h \o g, S) = h
  BY <1>4, <1>7, <1>12, <1>13, ConcatEmptySeq
<1>15. Before(h \o g, p + 1) = Among(h \o g, S)
  BY <1>p DEF Before, S
<1> QED
  BY <1>1, <1>9, <1>14, <1>15, <1>h DEF a, Outline
=============================================================================
