------------------------ MODULE ContextMemoryProofs -------------------------
(***************************************************************************)
(* Proofs about ContextMemory, for any names, texts, headings, widths and  *)
(* bounds: what an append makes of an item, the invariant of items and     *)
(* files through calls and crashes, and the properties it has.             *)
(***************************************************************************)
EXTENDS ContextTextProofs

-----------------------------------------------------------------------------
(* Items.                                                                  *)

Line == UNION {{t[i] : i \in DOMAIN t} : t \in Texts}
Digests == {<<>>} \cup {<<t>> : t \in Seq(Line)}
ChunkRec == [start : Nat, end : Nat, at : Nat]
MetaRec == [version : Nat, total : 0..MaxLines, digest : Digests,
            dim : {0} \cup Widths, linked : BOOLEAN, stamp : Nat]
Rows == Seq(Nat \X Seq(Line))
Outlines == Seq(Nat \X Line)
ItemRec == [meta : MetaRec, chunks : Seq(ChunkRec), data : Seq(Seq(Line)),
            vectors : Rows, outline : Outlines]

\* The blocks of n lines: full but for the last, and one behind the other.
Table(chunks, n) ==
  /\ Len(chunks) = Pieces(n)
  /\ \A i \in 1..Pieces(n) : /\ chunks[i].start = Full(i - 1) + 1
                             /\ chunks[i].end = Least(Full(i), n)

\* What callers pass is lines, and not too many.
LEMMA TextsAreLines ==
  ASSUME NEW t \in Texts
  PROVE  t \in Seq(Line) /\ Len(t) \in Nat /\ Len(t) <= MaxLines
<1> DEFINE A == {t[i] : i \in DOMAIN t}
<1>1. t \in Seq(A) /\ Len(t) <= MaxLines
  BY MemoryAssumption
<1>2. A \subseteq Line
  BY DEF Line
<1> HIDE DEF A
<1>3. t \in Seq(Line)
  BY <1>1, <1>2
<1> QED
  BY <1>1, <1>3

\* The last block ends with the text.
LEMMA TableEnd ==
  ASSUME NEW chunks \in Seq(ChunkRec), NEW n \in Nat, Table(chunks, n)
  PROVE  /\ Len(chunks) = Pieces(n) /\ Pieces(n) \in Nat
         /\ chunks = <<>> => n = 0
         /\ chunks # <<>> => /\ Len(chunks) \in 1..Pieces(n)
                             /\ chunks[Len(chunks)].end = n
                             /\ chunks[Len(chunks)].start = Full(Len(chunks) - 1) + 1
<1>1. Len(chunks) = Pieces(n) /\ Pieces(n) \in Nat /\ n <= Full(Pieces(n))
  BY PiecesFacts DEF Table
<1>2. CASE chunks = <<>>
  <2>1. Pieces(n) = 0
    BY <1>1, <1>2
  <2> QED
    BY <1>1, <1>2, <2>1, FullFacts
<1>3. CASE chunks # <<>>
  <2> DEFINE m == Pieces(n)
  <2>1. m # 0 /\ m \in 1..m
    BY <1>1, <1>3, EmptySeq
  <2>2. Least(Full(m), n) = n
    BY <2>1, PieceBounds
  <2>3. chunks[m].end = Least(Full(m), n) /\ chunks[m].start = Full(m - 1) + 1
    BY <2>1 DEF Table
  <2> QED
    BY <1>1, <1>3, <2>1, <2>2, <2>3
<1> QED
  BY <1>2, <1>3

\* The block a line is in.
LEMMA BlockOfLine ==
  ASSUME NEW n \in Nat, NEW l \in 1..n
  PROVE  /\ Pieces(l) \in 1..Pieces(n)
         /\ l \in Full(Pieces(l) - 1) + 1..Least(Full(Pieces(l)), n)
         /\ \A i \in 1..Pieces(n) : l \in Full(i - 1) + 1..Least(Full(i), n) => i = Pieces(l)
<1> DEFINE k == Pieces(l)
           m == Pieces(n)
<1>0. Chunk \in Nat \ {0} /\ l \in Nat \ {0} /\ l <= n
  BY MemoryAssumption
<1>1. k \in Nat /\ l <= Full(k) /\ Full(k) < l + Chunk
  BY <1>0, PiecesFacts
<1>2. m \in Nat /\ n <= Full(m)
  BY PiecesFacts
<1>3. Full(k) \in Nat /\ Full(m) \in Nat /\ Full(0) = 0
  BY <1>1, <1>2, FullFacts
<1>4. k # 0
  BY <1>0, <1>1, <1>3
<1>5. k - 1 \in Nat /\ Full(k - 1) \in Nat /\ Full(k) = Full(k - 1) + Chunk
  BY <1>1, <1>4, FullBefore
<1>6. k <= m
  <2> SUFFICES ASSUME m < k PROVE FALSE
    BY <1>1, <1>2
  <2>1. Full(m) + Chunk <= Full(k)
    BY <1>1, <1>2, FullOrder
  <2> QED
    BY <1>0, <1>1, <1>2, <1>3, <2>1
<1>7. l \in Full(k - 1) + 1..Least(Full(k), n)
  BY <1>0, <1>1, <1>3, <1>5 DEF Least
<1>8. ASSUME NEW i \in 1..m, l \in Full(i - 1) + 1..Least(Full(i), n)
      PROVE  i = k
  <2>1. i \in Nat /\ Full(i - 1) \in Nat /\ Full(i) = Full(i - 1) + Chunk
    BY <1>2, FullBefore
  <2>2. l <= Full(i) /\ Full(i) < l + Chunk
    BY <1>0, <1>8, <2>1 DEF Least
  <2> QED
    BY <1>0, <2>1, <2>2, PiecesUnique
<1> QED
  BY <1>1, <1>2, <1>4, <1>6, <1>7, <1>8

\* A line of the item is found in the block its number says.
LEMMA LineIs ==
  ASSUME NEW d, NEW n \in Nat, d.chunks \in Seq(ChunkRec), Table(d.chunks, n), NEW l \in 1..n
  PROVE  /\ Pieces(l) \in DOMAIN d.chunks
         /\ LineAt(d, l) = d.data[d.chunks[Pieces(l)].at][l - Full(Pieces(l) - 1)]
         /\ l - Full(Pieces(l) - 1) \in 1..Lines(d.chunks[Pieces(l)])
<1> DEFINE k == Pieces(l)
           s == d.chunks
           c == CHOOSE e \in {s[i] : i \in DOMAIN s} : l \in e.start..e.end
<1>0. /\ k \in 1..Pieces(n)
      /\ l \in Full(k - 1) + 1..Least(Full(k), n)
      /\ \A i \in 1..Pieces(n) : l \in Full(i - 1) + 1..Least(Full(i), n) => i = k
  BY BlockOfLine
<1>1. DOMAIN s = 1..Pieces(n)
  BY DEF Table
<1>2. \A i \in 1..Pieces(n) : s[i].start = Full(i - 1) + 1 /\ s[i].end = Least(Full(i), n)
  BY DEF Table
<1>3. LineAt(d, l) = d.data[c.at][l - c.start + 1]
  BY DEF LineAt, Block
<1> HIDE DEF k, s
<1>4. k \in DOMAIN s /\ l \in s[k].start..s[k].end
  BY <1>0, <1>1, <1>2
<1>5. c \in {s[i] : i \in DOMAIN s} /\ l \in c.start..c.end
  BY <1>4
<1>6. PICK i \in DOMAIN s : c = s[i]
  BY <1>5
<1> HIDE DEF c
<1>7. i = k
  BY <1>0, <1>1, <1>2, <1>5, <1>6
<1>8. c = s[k] /\ c.start = Full(k - 1) + 1 /\ c.end = Least(Full(k), n)
  BY <1>1, <1>2, <1>4, <1>6, <1>7
<1>9. Full(k - 1) \in Nat /\ l \in Nat /\ Least(Full(k), n) \in Nat
  <2>1. k \in Nat /\ k # 0 /\ Pieces(n) \in Nat
    BY <1>0, PiecesFacts
  <2>2. Full(k - 1) \in Nat /\ Full(k) \in Nat
    BY <2>1, FullFacts, FullBefore
  <2> QED
    BY <2>2 DEF Least
<1>10. l - c.start + 1 = l - Full(k - 1)
  BY <1>8, <1>9
<1>11. l - Full(k - 1) \in 1..Lines(c)
  BY <1>0, <1>8, <1>9 DEF Lines
<1> QED
  BY <1>3, <1>4, <1>8, <1>10, <1>11 DEF k, s

\* An item that can be read has a text of lines.
LEMMA TextTyped ==
  ASSUME NEW d \in ItemRec, NEW n \in Nat, End(d) = n, Table(d.chunks, n), Legible(d)
  PROVE  Text(d) \in Seq(Line) /\ Len(Text(d)) = n
<1>1. Text(d) = [l \in 1..n |-> LineAt(d, l)]
  BY DEF Text
<1>2. d.chunks \in Seq(ChunkRec) /\ d.data \in Seq(Seq(Line))
  BY DEF ItemRec
<1>3. ASSUME NEW l \in 1..n
      PROVE  LineAt(d, l) \in Line
  <2> DEFINE c == d.chunks[Pieces(l)]
             b == d.data[c.at]
             j == l - Full(Pieces(l) - 1)
  <2>1. /\ Pieces(l) \in DOMAIN d.chunks
        /\ LineAt(d, l) = b[j]
        /\ j \in 1..Lines(c)
    BY <1>2, LineIs
  <2>2. c.at \in DOMAIN d.data /\ Len(b) = Lines(c)
    BY <2>1 DEF Legible, Readable, Block
  <2>3. b \in Seq(Line)
    BY <1>2, <2>2
  <2> HIDE DEF b, j, c
  <2> QED
    BY <2>1, <2>2, <2>3, ElementOfSeq
<1>4. Text(d) \in [1..n -> Line]
  BY <1>1, <1>3
<1> QED
  BY <1>4

\* The records of an item are those of the text t.
MadeOf(d, t) ==
  /\ Table(d.chunks, Len(t))
  /\ \A i \in DOMAIN d.chunks : d.chunks[i].at = i
  /\ d.data = Cut(t)
  /\ d.outline = Outline(t)
  /\ d.vectors = IF d.meta.dim = 0 THEN <<>>
                 ELSE [i \in DOMAIN d.chunks |-> <<d.meta.dim, d.data[i]>>]

\* A table of n lines ends at line n.
LEMMA EndOf ==
  ASSUME NEW d, NEW n \in Nat, d.chunks \in Seq(ChunkRec), Table(d.chunks, n)
  PROVE  End(d) = n
BY TableEnd DEF End

\* An item made of a text reads as this text.
LEMMA TextOf ==
  ASSUME NEW d \in ItemRec, NEW t \in Seq(Line), MadeOf(d, t)
  PROVE  /\ Text(d) = t /\ End(d) = Len(t) /\ Legible(d)
         /\ [i \in DOMAIN d.chunks |-> Block(d, d.chunks[i])] = Cut(t)
<1> DEFINE n == Len(t)
<1>1. n \in Nat /\ d.chunks \in Seq(ChunkRec)
  BY DEF ItemRec
<1>2. Table(d.chunks, n) /\ d.data = Cut(t) /\ \A i \in DOMAIN d.chunks : d.chunks[i].at = i
  BY DEF MadeOf
<1>3. End(d) = n
  BY <1>1, <1>2, EndOf
<1>4. Text(d) = [l \in 1..n |-> LineAt(d, l)]
  BY <1>3 DEF Text
<1>a. n = Len(t)
  OBVIOUS
<1> HIDE DEF n
<1>5. ASSUME NEW l \in 1..n
      PROVE  LineAt(d, l) = t[l]
  <2> DEFINE k == Pieces(l)
             a == Full(k - 1)
             j == l - a
             m == Least(Full(k), n) - a
  <2>1. k \in DOMAIN d.chunks /\ LineAt(d, l) = d.data[d.chunks[k].at][j]
    BY <1>1, <1>2, LineIs
  <2>2. k \in 1..Pieces(n) /\ l \in a + 1..Least(Full(k), n)
    BY <1>1, BlockOfLine
  <2>3. k - 1 \in Nat /\ a \in Nat /\ Least(Full(k), n) \in a + 1..n
    BY <1>1, <2>2, PieceBounds
  <2>4. j \in 1..m /\ a + j = l
    BY <1>1, <2>2, <2>3
  <2>5. a = Full(k - 1) /\ m = Least(Full(k), n) - a
    OBVIOUS
  <2> HIDE DEF k, a, j, m
  <2>6. \A i \in 1..m : Cut(t)[k][i] = t[a + i]
    BY <1>a, <2>2, <2>5, PieceIs
  <2>7. LineAt(d, l) = Cut(t)[k][j]
    BY <1>2, <2>1
  <2> QED
    BY <2>4, <2>6, <2>7
<1>6. Text(d) = t
  <2>1. t = [l \in 1..n |-> t[l]]
    BY <1>a
  <2> QED
    BY <1>4, <1>5, <2>1
<1>7. DOMAIN d.chunks = 1..Pieces(n) /\ DOMAIN Cut(t) = 1..Pieces(n)
  BY <1>1, <1>2, <1>a, CutFacts DEF Table
<1>8. [i \in DOMAIN d.chunks |-> Block(d, d.chunks[i])] = Cut(t)
  <2>1. \A i \in 1..Pieces(n) : Block(d, d.chunks[i]) = Cut(t)[i]
    BY <1>2, <1>7 DEF Block
  <2>2. Cut(t) = [i \in 1..Pieces(n) |-> Cut(t)[i]]
    BY <1>7 DEF Cut
  <2> QED
    BY <1>7, <2>1, <2>2
<1>9. Legible(d)
  <2> SUFFICES ASSUME NEW i \in 1..Pieces(n)
               PROVE  Readable(d, d.chunks[i])
    BY <1>7 DEF Legible
  <2>1. d.chunks[i].at = i /\ i \in DOMAIN d.data
    BY <1>2, <1>7
  <2>2. Len(Cut(t)[i]) = Least(Full(i), n) - Full(i - 1)
    BY <1>a, CutFacts
  <2>3. d.chunks[i].start = Full(i - 1) + 1 /\ d.chunks[i].end = Least(Full(i), n)
    BY <1>2 DEF Table
  <2>4. Full(i - 1) \in Nat /\ Least(Full(i), n) \in Full(i - 1) + 1..n
    BY <1>1, PieceBounds
  <2>5. Lines(d.chunks[i]) = Least(Full(i), n) - Full(i - 1)
    BY <1>1, <2>3, <2>4 DEF Lines
  <2> QED
    BY <1>2, <2>1, <2>2, <2>5 DEF Readable, Block
<1> QED
  BY <1>3, <1>6, <1>8, <1>9, <1>a

-----------------------------------------------------------------------------
(* What an append does to the records of an item.                          *)

\* New blocks behind full ones make one table.
LEMMA TableGrown ==
  ASSUME NEW kept \in Seq(ChunkRec), NEW k \in Nat, Table(kept, Full(k)),
         NEW more \in Seq(ChunkRec), NEW m \in Nat, Len(more) = Pieces(m),
         \A j \in 1..Pieces(m) : /\ more[j].start = Full(k) + Full(j - 1) + 1
                                 /\ more[j].end = Full(k) + Least(Full(j), m)
  PROVE  Table(kept \o more, Full(k) + m) /\ Len(kept) = k /\ kept \o more \in Seq(ChunkRec)
<1> DEFINE f == Full(k)
           q == Pieces(m)
           all == kept \o more
<1>0. Chunk \in Nat \ {0} /\ f \in Nat /\ q \in Nat
  BY MemoryAssumption, FullFacts, PiecesFacts
<1>1. Pieces(f) = k
  BY <1>0, PiecesUnique
<1>2. Len(kept) = k /\ Pieces(f + m) = k + q /\ Len(more) = q
  <2>1. Len(kept) = k
    BY <1>1 DEF Table
  <2> QED
    BY <2>1, PiecesSum
<1>t. \A i \in 1..k : kept[i].start = Full(i - 1) + 1 /\ kept[i].end = Least(Full(i), f)
  <2> TAKE i \in 1..k
  <2>1. i \in 1..Pieces(f)
    BY <1>1
  <2> QED
    BY <2>1 DEF Table
<1>5. \A j \in 1..q : more[j].start = f + Full(j - 1) + 1 /\ more[j].end = f + Least(Full(j), m)
  OBVIOUS
<1>f. f = Full(k)
  OBVIOUS
<1> HIDE DEF f, q
<1>3. all \in Seq(ChunkRec) /\ Len(all) = k + q
  BY <1>2, ConcatProperties
<1>4. \A i \in 1..k + q : all[i] = IF i <= k THEN kept[i] ELSE more[i - k]
  BY <1>2, ConcatProperties
<1> HIDE DEF all
<1>6. ASSUME NEW i \in 1..k + q
      PROVE  all[i].start = Full(i - 1) + 1 /\ all[i].end = Least(Full(i), f + m)
  <2>i. i \in Nat \ {0}
    BY <1>0
  <2>0. i \in Nat /\ i - 1 \in Nat /\ Full(i - 1) \in Nat /\ Full(i) = Full(i - 1) + Chunk
    BY <2>i, FullBefore
  <2>1. CASE i <= k
    <3>1. Full(i) <= f
      <4>1. i < k => Full(i) + Chunk <= Full(k)
        BY <2>0, FullOrder
      <4> QED
        BY <1>0, <1>f, <2>0, <2>1, <4>1
    <3>2. kept[i].start = Full(i - 1) + 1 /\ kept[i].end = Least(Full(i), f)
      <4>1. i \in 1..k
        BY <2>1, <2>i
      <4> QED
        BY <1>t, <4>1
    <3>3. Least(Full(i), f) = Full(i) /\ Least(Full(i), f + m) = Full(i)
      <4>1. Full(i) \in Nat /\ f + m \in Nat /\ Full(i) <= f + m
        BY <1>0, <2>0, <3>1
      <4> QED
        BY <1>0, <3>1, <4>1, LeastLow
    <3> QED
      BY <1>4, <2>1, <3>2, <3>3
  <2>2. CASE ~(i <= k)
    <3> DEFINE j == i - k
    <3>1. j \in 1..q /\ j \in Nat /\ j - 1 \in Nat /\ i = k + j /\ i - 1 = k + (j - 1)
      BY <1>0, <2>0, <2>2
    <3>2. all[i] = more[j]
      BY <1>4, <2>2
    <3> HIDE DEF j
    <3>3. Full(i) = f + Full(j) /\ Full(i - 1) = f + Full(j - 1) /\ Full(j) \in Nat
      BY <1>f, <3>1, FullFacts
    <3>4. Least(f + Full(j), f + m) = f + Least(Full(j), m)
      BY <1>0, <3>3, LeastSum
    <3> QED
      BY <1>5, <3>1, <3>2, <3>3, <3>4
  <2> QED
    BY <2>1, <2>2
<1>7. Table(all, f + m)
  BY <1>2, <1>3, <1>6 DEF Table
<1> QED
  BY <1>2, <1>3, <1>7, <1>f DEF all

\* Without its last block.
LEMMA TableShorter ==
  ASSUME NEW chunks \in Seq(ChunkRec), NEW n \in Nat, Table(chunks, n), NEW k \in Nat, Pieces(n) = k + 1
  PROVE  /\ SubSeq(chunks, 1, k) \in Seq(ChunkRec) /\ Len(SubSeq(chunks, 1, k)) = k
         /\ \A i \in 1..k : SubSeq(chunks, 1, k)[i] = chunks[i]
         /\ Table(SubSeq(chunks, 1, k), Full(k))
         /\ Full(k) < n /\ n <= Full(k) + Chunk
<1> DEFINE f == Full(k)
           s == SubSeq(chunks, 1, k)
<1>0. Chunk \in Nat \ {0} /\ f \in Nat
  BY MemoryAssumption, FullFacts
<1>1. f < n /\ n <= f + Chunk
  <2>1. k + 1 \in 1..Pieces(n) /\ (k + 1) - 1 = k
    OBVIOUS
  <2>2. Full((k + 1) - 1) < n
    BY <2>1, PieceBounds
  <2>3. n <= Full(k + 1) /\ Full(k + 1) = f + Chunk
    BY PiecesFacts, FullFacts
  <2> QED
    BY <2>1, <2>2, <2>3
<1>2. Pieces(f) = k
  BY <1>0, PiecesUnique
<1>3. s \in Seq(ChunkRec) /\ Len(s) = k /\ \A i \in 1..k : s[i] = chunks[i]
  <2>1. Len(chunks) = k + 1
    BY DEF Table
  <2>2. /\ SubSeq(chunks, 0 + 1, k) \in Seq(ChunkRec) /\ Len(SubSeq(chunks, 0 + 1, k)) = k - 0
        /\ \A j \in 1..k - 0 : SubSeq(chunks, 0 + 1, k)[j] = chunks[0 + j]
    BY <2>1, PartOf
  <2> QED
    BY <2>2
<1>f. f = Full(k)
  OBVIOUS
<1> HIDE DEF s, f
<1>4. ASSUME NEW i \in 1..k
      PROVE  s[i].start = Full(i - 1) + 1 /\ s[i].end = Least(Full(i), f)
  <2>1. i \in 1..Pieces(n) /\ i < Pieces(n)
    OBVIOUS
  <2>2. chunks[i].start = Full(i - 1) + 1 /\ chunks[i].end = Least(Full(i), n)
    BY <2>1 DEF Table
  <2>3. Full(i) = Full(i - 1) + Chunk /\ Full(i - 1) \in Nat /\ Full(i) <= n
    <3>1. Full(i) = Full(i - 1) + Chunk /\ Full(i - 1) \in Nat /\ Full(i) < n
      BY <2>1, PieceBounds
    <3> QED
      BY <1>0, <3>1
  <2>4. Full(i) <= f
    <3>1. i < k => Full(i) + Chunk <= Full(k)
      BY FullOrder
    <3> QED
      BY <1>0, <1>f, <2>3, <3>1
  <2>5. Least(Full(i), n) = Full(i) /\ Least(Full(i), f) = Full(i)
    BY <1>0, <2>3, <2>4 DEF Least
  <2> QED
    BY <1>3, <2>2, <2>5
<1>5. Table(s, f)
  BY <1>2, <1>3, <1>4 DEF Table
<1> QED
  BY <1>1, <1>3, <1>5, <1>f DEF s

\* An item without a part block has no block to reopen.
LEMMA ClosedWhole ==
  ASSUME NEW d \in ItemRec, NEW n \in Nat, Table(d.chunks, n), ~Partial(d)
  PROVE  Closed(d) = d /\ Reopened(d) = <<>> /\ n = Full(Len(d.chunks)) /\ Len(d.chunks) \in Nat
<1>0. Chunk \in Nat \ {0}
  BY MemoryAssumption
<1>1. Closed(d) = d /\ Reopened(d) = <<>>
  BY DEF Closed, Reopened
<1>2. d.chunks \in Seq(ChunkRec)
  BY DEF ItemRec, Rows, Outlines
<1> DEFINE k == Len(d.chunks)
<1>3. /\ k = Pieces(n) /\ k \in Nat
      /\ d.chunks = <<>> => n = 0
      /\ d.chunks # <<>> => /\ k \in 1..Pieces(n)
                            /\ d.chunks[k].end = n
                            /\ d.chunks[k].start = Full(k - 1) + 1
  BY <1>2, TableEnd
<1>4. CASE d.chunks = <<>>
  BY <1>1, <1>3, <1>4, FullFacts
<1>5. CASE d.chunks # <<>>
  <2>1. ~(Lines(d.chunks[k]) < Chunk)
    BY <1>5 DEF Partial
  <2> HIDE DEF k
  <2>2. Lines(d.chunks[k]) = n - (Full(k - 1) + 1) + 1
    BY <1>3, <1>5 DEF Lines
  <2>3. Full(k) = Full(k - 1) + Chunk /\ Full(k - 1) \in Nat /\ n <= Full(k)
    BY <1>3, <1>5, PieceBounds, PiecesFacts
  <2>4. n = Full(k)
    BY <1>0, <2>1, <2>2, <2>3
  <2> QED
    BY <1>1, <1>3, <2>4 DEF k
<1> QED
  BY <1>4, <1>5

\* When the last block is not full it is reopened.
LEMMA ClosedFields ==
  ASSUME NEW d \in ItemRec, NEW n \in Nat, Table(d.chunks, n), Partial(d),
         Readable(d, d.chunks[Len(d.chunks)])
  PROVE  \E k \in Nat :
           /\ Len(d.chunks) = k + 1 /\ Pieces(n) = k + 1
           /\ d.chunks[k + 1].end = n /\ d.chunks[k + 1].start = Full(k) + 1
           /\ Closed(d).meta = d.meta
           /\ Closed(d).chunks = SubSeq(d.chunks, 1, k)
           /\ Closed(d).data = SubSeq(d.data, 1, d.chunks[k + 1].at - 1)
           /\ Closed(d).vectors = IF d.meta.dim # 0 THEN AtMost(d.vectors, k) ELSE d.vectors
           /\ Closed(d).outline = Before(d.outline, Full(k) + 1)
           /\ Closed(d) \in ItemRec
           /\ Reopened(d) = d.data[d.chunks[k + 1].at] /\ Reopened(d) \in Seq(Line)
           /\ Len(Reopened(d)) = n - Full(k)
<1>1. d.chunks \in Seq(ChunkRec) /\ d.chunks # <<>>
  BY DEF ItemRec, Rows, Outlines, Partial
<1>2. PICK k \in Nat : Len(d.chunks) = k + 1 /\ Pieces(n) = k + 1
  <2>1. Len(d.chunks) \in 1..Pieces(n) /\ Len(d.chunks) = Pieces(n) /\ Pieces(n) \in Nat
    BY <1>1, TableEnd
  <2>2. Len(d.chunks) - 1 \in Nat /\ Len(d.chunks) = (Len(d.chunks) - 1) + 1
    BY <2>1
  <2> QED
    BY <2>1, <2>2
<1> DEFINE last == d.chunks[k + 1]
           s == SubSeq(d.chunks, 1, k)
<1>3. last.end = n /\ last.start = Full(k) + 1
  <2>1. (k + 1) - 1 = k
    OBVIOUS
  <2> QED
    BY <1>1, <1>2, <2>1, TableEnd
<1>4. s \in Seq(ChunkRec) /\ Len(s) = k /\ Full(k) \in Nat
  BY <1>1, <1>2, TableShorter, FullFacts
<1>5. last.at \in DOMAIN d.data /\ Len(d.data[last.at]) = n - (Full(k) + 1) + 1
  BY <1>2, <1>3 DEF Readable, Lines, Block
<1>6. d.data \in Seq(Seq(Line)) /\ d.vectors \in Seq(Nat \X Seq(Line)) /\ d.outline \in Seq(Nat \X Line)
      /\ d.meta \in MetaRec
  BY DEF ItemRec, Rows, Outlines
<1>7. d.data[last.at] \in Seq(Line) /\ last.at \in 1..Len(d.data)
  <2> DEFINE a == last.at
  <2>1. a \in DOMAIN d.data
    BY <1>5
  <2>2. DOMAIN d.data = 1..Len(d.data)
    BY <1>6
  <2> HIDE DEF a
  <2>3. d.data[a] \in Seq(Line)
    BY <1>6, <2>1
  <2> QED
    BY <2>1, <2>2, <2>3 DEF a
<1> DEFINE data == SubSeq(d.data, 1, last.at - 1)
           vectors == IF d.meta.dim # 0 THEN AtMost(d.vectors, k) ELSE d.vectors
           outline == Before(d.outline, Full(k) + 1)
<1>8. data \in Seq(Seq(Line))
  <2>1. last.at - 1 \in Nat /\ last.at - 1 <= Len(d.data)
    <3> DEFINE a == last.at
    <3>1. a \in 1..Len(d.data) /\ Len(d.data) \in Nat
      BY <1>6, <1>7
    <3> HIDE DEF a
    <3>2. a - 1 \in Nat /\ a - 1 <= Len(d.data)
      BY <3>1
    <3> QED
      BY <3>2 DEF a
  <2> QED
    BY <1>6, <2>1, SplitAt
<1>9. vectors \in Seq(Nat \X Seq(Line))
  BY <1>6, AtMostFacts
<1>10. outline \in Seq(Nat \X Line)
  BY <1>6, AmongType DEF Before
<1>11. Closed(d) = [d EXCEPT !.chunks = s, !.data = data, !.vectors = vectors, !.outline = outline]
  <2>1. Len(d.chunks) - 1 = k
    BY <1>2
  <2>2. Len(s) = k
    BY <1>4
  <2> QED
    BY <1>2, <1>3, <2>1, <2>2 DEF Closed
<1>12. Reopened(d) = d.data[last.at]
  BY <1>2 DEF Reopened, Block
<1>13. Len(d.data[last.at]) = n - Full(k)
  BY <1>4, <1>5
<1> HIDE DEF s, data, vectors, outline
<1>14. /\ Closed(d).meta = d.meta /\ Closed(d).chunks = s /\ Closed(d).data = data
       /\ Closed(d).vectors = vectors /\ Closed(d).outline = outline
       /\ Closed(d) \in ItemRec
  BY <1>4, <1>6, <1>8, <1>9, <1>10, <1>11 DEF ItemRec, Rows, Outlines
<1> QED
  BY <1>2, <1>3, <1>7, <1>12, <1>13, <1>14 DEF s, data, vectors, outline

\* An item whose part block can be read is cut to full blocks.
LEMMA Closing ==
  ASSUME NEW d \in ItemRec, NEW n \in Nat, Table(d.chunks, n),
         Partial(d) => Readable(d, d.chunks[Len(d.chunks)])
  PROVE  \E k \in Nat :
           /\ Closed(d) \in ItemRec /\ Closed(d).meta = d.meta
           /\ Len(Closed(d).chunks) = k /\ Table(Closed(d).chunks, Full(k)) /\ End(Closed(d)) = Full(k)
           /\ Reopened(d) \in Seq(Line) /\ Full(k) + Len(Reopened(d)) = n
<1>0. d.chunks \in Seq(ChunkRec)
  BY DEF ItemRec, Rows, Outlines
<1>1. CASE Partial(d)
  <2>1. PICK k \in Nat :
           /\ Len(d.chunks) = k + 1 /\ Pieces(n) = k + 1
           /\ Closed(d).meta = d.meta
           /\ Closed(d).chunks = SubSeq(d.chunks, 1, k)
           /\ Closed(d) \in ItemRec
           /\ Reopened(d) \in Seq(Line)
           /\ Len(Reopened(d)) = n - Full(k)
    BY <1>1, ClosedFields
  <2>2. /\ Len(Closed(d).chunks) = k /\ Table(Closed(d).chunks, Full(k))
        /\ Closed(d).chunks \in Seq(ChunkRec)
    BY <1>0, <2>1, TableShorter
  <2>3. Full(k) \in Nat
    BY FullFacts
  <2>4. End(Closed(d)) = Full(k)
    BY <2>2, <2>3, EndOf
  <2>5. Full(k) + Len(Reopened(d)) = n
    BY <2>1, <2>3
  <2> QED
    BY <2>1, <2>2, <2>4, <2>5
<1>2. CASE ~Partial(d)
  <2>1. /\ Closed(d) = d /\ Reopened(d) = <<>>
        /\ n = Full(Len(d.chunks)) /\ Len(d.chunks) \in Nat
    BY <1>2, ClosedWhole
  <2>2. End(d) = n
    BY <1>0, EndOf
  <2> QED
    BY <2>1, <2>2
<1> QED
  BY <1>1, <1>2

\* What is left of an item when its last block is reopened is the item of the full blocks.
LEMMA ClosingMade ==
  ASSUME NEW d \in ItemRec, NEW x \in Seq(Line), MadeOf(d, x)
  PROVE  \E y \in Seq(Line) : /\ MadeOf(Closed(d), y)
                              /\ x = y \o Reopened(d)
                              /\ Len(y) = Full(Len(Closed(d).chunks))
<1> DEFINE n == Len(x)
<1>0. /\ n \in Nat /\ Table(d.chunks, n) /\ d.data = Cut(x)
      /\ \A i \in DOMAIN d.chunks : d.chunks[i].at = i
      /\ d.outline = Outline(x)
      /\ d.vectors = IF d.meta.dim = 0 THEN <<>>
                     ELSE [i \in DOMAIN d.chunks |-> <<d.meta.dim, d.data[i]>>]
  BY DEF MadeOf
<1>c. d.chunks \in Seq(ChunkRec) /\ d.vectors \in Seq(Nat \X Seq(Line))
  BY DEF ItemRec, Rows, Outlines
<1>a. n = Len(x)
  OBVIOUS
<1> HIDE DEF n
<1>1. CASE ~Partial(d)
  <2>1. /\ Closed(d) = d /\ Reopened(d) = <<>>
        /\ n = Full(Len(d.chunks)) /\ Len(d.chunks) \in Nat
    BY <1>0, <1>1, ClosedWhole
  <2>2. x = x \o <<>>
    BY ConcatEmptySeq
  <2> QED
    BY <2>1, <2>2, <1>a
<1>2. CASE Partial(d)
  <2>0. Legible(d)
    BY TextOf
  <2>l. d.chunks # <<>> /\ Len(d.chunks) \in DOMAIN d.chunks
    <3>1. d.chunks # <<>>
      BY <1>2 DEF Partial
    <3>2. Len(d.chunks) \in 1..Pieces(n) /\ Len(d.chunks) = Pieces(n)
      BY <1>0, <1>c, <3>1, TableEnd
    <3> QED
      BY <1>c, <3>1, <3>2
  <2>r. Readable(d, d.chunks[Len(d.chunks)])
    BY <2>0, <2>l DEF Legible
  <2>1. PICK k \in Nat :
           /\ Len(d.chunks) = k + 1 /\ Pieces(n) = k + 1
           /\ Closed(d).meta = d.meta
           /\ Closed(d).chunks = SubSeq(d.chunks, 1, k)
           /\ Closed(d).data = SubSeq(d.data, 1, d.chunks[k + 1].at - 1)
           /\ Closed(d).vectors = IF d.meta.dim # 0 THEN AtMost(d.vectors, k) ELSE d.vectors
           /\ Closed(d).outline = Before(d.outline, Full(k) + 1)
           /\ Reopened(d) = d.data[d.chunks[k + 1].at] /\ Reopened(d) \in Seq(Line)
           /\ Len(Reopened(d)) = n - Full(k)
    BY <1>0, <1>2, <2>r, ClosedFields
  <2>2. /\ Len(Closed(d).chunks) = k /\ Table(Closed(d).chunks, Full(k))
        /\ \A i \in 1..k : Closed(d).chunks[i] = d.chunks[i]
        /\ Full(k) < n /\ n <= Full(k) + Chunk /\ Full(k) \in Nat
        /\ Closed(d).chunks \in Seq(ChunkRec)
    <3>1. Full(k) \in Nat
      BY FullFacts
    <3> DEFINE s == SubSeq(d.chunks, 1, k)
    <3>2. /\ s \in Seq(ChunkRec) /\ Len(s) = k
          /\ Table(s, Full(k))
          /\ Full(k) < n /\ n <= Full(k) + Chunk
      BY <1>0, <1>c, <2>1, TableShorter
    <3>3. \A i \in 1..k : s[i] = d.chunks[i]
      BY <1>0, <1>c, <2>1, TableShorter
    <3>4. Closed(d).chunks = s
      BY <2>1
    <3> HIDE DEF s
    <3> QED
      BY <3>1, <3>2, <3>3, <3>4
  <2>3. d.chunks[k + 1].at = k + 1
    BY <1>0, <2>1, <2>l
  <2> DEFINE f == Full(k)
             y == SubSeq(x, 1, f)
             r == SubSeq(x, f + 1, n)
  <2>4. /\ y \in Seq(Line) /\ Len(y) = f /\ r \in Seq(Line) /\ Len(r) = n - f
        /\ x = y \o r
    <3>1. f \in Nat /\ f <= Len(x)
      BY <1>0, <1>a, <2>2
    <3> HIDE DEF f
    <3> QED
      BY <1>a, <3>1, SplitAt
  <2>5. /\ Cut(x)[k + 1] \in Seq(Line) /\ Len(Cut(x)[k + 1]) = n - f
        /\ \A j \in 1..n - f : Cut(x)[k + 1][j] = x[f + j]
    <3>1. k + 1 \in 1..Pieces(n) /\ (k + 1) - 1 = k /\ k + 1 = Pieces(n)
      BY <2>1
    <3>2. Least(Full(k + 1), n) = n
      BY <1>0, <3>1, PieceBounds
    <3>3. f = Full((k + 1) - 1) /\ n - f = Least(Full(k + 1), n) - f
      BY <3>1, <3>2
    <3> QED
      BY <1>a, <3>1, <3>3, PieceIs
  <2>6. \A j \in 1..n - f : r[j] = x[f + j]
    BY <1>0, <1>a, <2>2, PartOf
  <2>f. f \in Nat /\ n - f \in Nat /\ f = Full(k)
    BY <1>0, <2>2
  <2> HIDE DEF r, y
  <2>7. r = Cut(x)[k + 1]
    <3> DEFINE c == Cut(x)[k + 1]
               m == n - f
    <3>1. c \in Seq(Line) /\ Len(c) = m /\ Len(r) = m /\ \A j \in 1..m : c[j] = x[f + j]
      BY <2>4, <2>5
    <3>2. \A j \in 1..m : r[j] = c[j]
      BY <2>5, <2>6
    <3> HIDE DEF c, m
    <3>3. r = c
      BY <2>4, <3>1, <3>2, SameSeq
    <3> QED
      BY <3>3 DEF c
  <2>8. r = Reopened(d)
    BY <1>0, <2>1, <2>3, <2>7
  <2>9. Cut(x) = Cut(y) \o Cut(r) /\ Pieces(f) = k
    BY <2>4, CutConcat
  <2>10. /\ Cut(y) \in Seq(Seq(Line)) /\ Len(Cut(y)) = k
         /\ Cut(r) \in Seq(Seq(Line))
    <3>1. Len(Cut(y)) = Pieces(Len(y))
      BY <2>4, CutFacts
    <3> QED
      BY <2>4, <2>9, <3>1, CutFacts
  <2>11. Closed(d).data = Cut(y)
    <3>1. d.chunks[k + 1].at - 1 = k
      BY <2>3
    <3>2. Closed(d).data = SubSeq(Cut(y) \o Cut(r), 1, Len(Cut(y)))
      BY <1>0, <2>1, <2>9, <2>10, <3>1
    <3> QED
      BY <2>10, <3>2, HeadOf
  <2>12. Closed(d).outline = Outline(y)
    <3>1. Closed(d).outline = Before(Outline(y \o r), Len(y) + 1)
      BY <1>0, <2>1, <2>4
    <3>2. y \in Seq(Line) /\ r \in Seq(Line)
      BY <2>4
    <3>3. Before(Outline(y \o r), Len(y) + 1) = Outline(y)
      BY <3>2, OutlineBefore
    <3> QED
      BY <3>1, <3>3
  <2>13. \A i \in DOMAIN Closed(d).chunks : Closed(d).chunks[i].at = i
    <3>1. DOMAIN Closed(d).chunks = 1..k
      BY <2>2
    <3>2. DOMAIN d.chunks = 1..k + 1
      BY <1>c, <2>1
    <3>3. \A i \in 1..k : d.chunks[i].at = i
      BY <1>0, <3>2
    <3> QED
      BY <2>2, <3>1, <3>3
  <2>14. Closed(d).vectors = IF Closed(d).meta.dim = 0 THEN <<>>
                             ELSE [i \in DOMAIN Closed(d).chunks |-> <<Closed(d).meta.dim, Closed(d).data[i]>>]
    <3>1. CASE d.meta.dim = 0
      BY <1>0, <2>1, <3>1
    <3>2. CASE d.meta.dim # 0
      <4> DEFINE w == d.meta.dim
                 D == Cut(y)
                 v == d.vectors
                 u == AtMost(v, k)
      <4>1. v = [i \in 1..k + 1 |-> <<w, Cut(x)[i]>>] /\ DOMAIN d.chunks = 1..k + 1
        BY <1>0, <1>c, <2>1, <3>2
      <4>2. v \in Seq(Nat \X Seq(Line)) /\ Len(v) = k + 1
        BY <1>c, <4>1
      <4>3. \A i \in 1..k : v[i] = <<w, D[i]>>
        <5>1. \A i \in 1..k : Cut(x)[i] = D[i]
          BY <2>9, <2>10, ConcatProperties
        <5> QED
          BY <4>1, <5>1
      <4>4. Least(k, Len(v)) = k
        BY <4>2 DEF Least
      <4> HIDE DEF v
      <4>5. u \in Seq(Nat \X Seq(Line)) /\ Len(u) = k /\ \A i \in 1..k : u[i] = v[i]
        BY <4>2, <4>4, AtMostFacts
      <4>6. u = [i \in 1..k |-> u[i]]
        BY <4>5
      <4> HIDE DEF u
      <4>7. u = [i \in 1..k |-> <<w, D[i]>>]
        BY <4>3, <4>5, <4>6
      <4>8. DOMAIN Closed(d).chunks = 1..k
        BY <2>2
      <4>9. Closed(d).vectors = u
        BY <2>1, <3>2 DEF u, v
      <4> QED
        BY <2>1, <2>11, <3>2, <4>7, <4>8, <4>9
    <3> QED
      BY <3>1, <3>2
  <2>15. MadeOf(Closed(d), y)
    BY <2>2, <2>4, <2>11, <2>12, <2>13, <2>14, <2>f DEF MadeOf
  <2> QED
    BY <2>2, <2>4, <2>8, <2>15, <2>f
<1> QED
  BY <1>1, <1>2

\* What Grown adds, by name: b is the item with its last block reopened, and
\* blocks are what is cut from the reopened lines and the new ones.
GrownDim(b, blocks, good) ==
  IF b.meta.dim = 0 /\ b.chunks = <<>> /\ blocks # <<>>
  THEN IF 1 <= good THEN embedder ELSE 0
  ELSE b.meta.dim
More(b, blocks) ==
  [i \in DOMAIN blocks |-> [start |-> End(b) + 1 + Full(i - 1),
                            end |-> End(b) + 1 + Full(i - 1) + Len(blocks[i]) - 1,
                            at |-> Len(b.data) + i]]
Offered(blocks, good) == [i \in DOMAIN blocks |-> <<IF i <= good THEN embedder ELSE 0, blocks[i]>>]
RowsOf(dim, blocks, good) ==
  Among(Offered(blocks, good), ({dim} \ {0}) \X {blocks[i] : i \in DOMAIN blocks})
RoomIn(b) == IF Len(b.outline) < MaxOutline THEN MaxOutline - Len(b.outline) ELSE 0

\* The rows of new blocks: a prefix of them when the embedder fails.
LEMMA RowsFacts ==
  ASSUME NEW blocks \in Seq(Seq(Line)), NEW dim \in Nat, NEW good \in Nat, embedder \in Nat
  PROVE  /\ RowsOf(dim, blocks, good) \in Seq(Nat \X Seq(Line))
         /\ Len(RowsOf(dim, blocks, good)) <= Len(blocks)
         /\ dim = 0 => RowsOf(dim, blocks, good) = <<>>
         /\ Len(RowsOf(dim, blocks, good)) = Len(blocks)
              => \A i \in 1..Len(blocks) : RowsOf(dim, blocks, good)[i] = <<dim, blocks[i]>>
<1> DEFINE E == Nat \X Seq(Line)
           S == ({dim} \ {0}) \X {blocks[i] : i \in DOMAIN blocks}
           o == Offered(blocks, good)
           m == Len(blocks)
           rows == RowsOf(dim, blocks, good)
<1>1. m \in Nat /\ DOMAIN blocks = 1..m /\ \A i \in 1..m : blocks[i] \in Seq(Line)
  BY ElementOfSeq
<1>2. o \in [1..m -> E]
  BY <1>1 DEF Offered
<1>3. \A i \in 1..m : o[i] = <<IF i <= good THEN embedder ELSE 0, blocks[i]>>
  BY <1>1 DEF Offered
<1>m. m = Len(blocks)
  OBVIOUS
<1>4. rows = Among(o, S)
  BY DEF RowsOf
<1> HIDE DEF o, E, rows, m
<1>5. o \in Seq(E) /\ Len(o) = m
  BY <1>1, <1>2
<1>6. dim = 0 => S = {}
  OBVIOUS
<1>7. \A u \in S : u[1] = dim
  OBVIOUS
<1> HIDE DEF S
<1>8. /\ rows \in Seq(E) /\ Len(rows) \in 0..m
      /\ Len(rows) = m => rows = o
  BY <1>4, <1>5, AmongType
<1>9. \A i \in 1..Len(rows) : rows[i] \in S
  BY <1>4, <1>5, AmongType
<1>10. dim = 0 => rows = <<>>
  <2> SUFFICES ASSUME dim = 0 PROVE rows = <<>>
    OBVIOUS
  <2>1. \A i \in 1..Len(o) : o[i] \notin S
    BY <1>6
  <2> QED
    BY <1>4, <1>5, <2>1, AmongType
<1>11. ASSUME Len(rows) = m, NEW i \in 1..m
       PROVE  rows[i] = <<dim, blocks[i]>>
  <2>1. rows[i] = o[i] /\ rows[i] \in S
    BY <1>8, <1>9, <1>11
  <2>2. o[i] = <<IF i <= good THEN embedder ELSE 0, blocks[i]>>
    BY <1>3
  <2>3. rows[i][1] = dim
    BY <1>7, <2>1
  <2> QED
    BY <2>1, <2>2, <2>3
<1> QED
  BY <1>1, <1>8, <1>10, <1>11, <1>m DEF rows, E

\* The new entries of chunks.bin.
LEMMA MoreFacts ==
  ASSUME NEW b \in ItemRec, NEW k \in Nat, End(b) = Full(k), NEW p \in Seq(Line)
  PROVE  /\ More(b, Cut(p)) \in Seq(ChunkRec)
         /\ Len(More(b, Cut(p))) = Pieces(Len(p))
         /\ \A j \in 1..Pieces(Len(p)) :
               /\ More(b, Cut(p))[j].start = Full(k) + Full(j - 1) + 1
               /\ More(b, Cut(p))[j].end = Full(k) + Least(Full(j), Len(p))
               /\ More(b, Cut(p))[j].at = Len(b.data) + j
<1> DEFINE q == Pieces(Len(p))
           f == Full(k)
           m == Len(p)
           s == More(b, Cut(p))
           l == Len(b.data)
<1>0. q \in Nat /\ f \in Nat /\ m \in Nat /\ l \in Nat
  <2>1. b.data \in Seq(Seq(Line))
    BY DEF ItemRec
  <2>2. m \in Nat /\ f \in Nat
    BY FullFacts
  <2>3. q \in Nat
    BY <2>2, PiecesFacts
  <2> QED
    BY <2>1, <2>2, <2>3
<1>1. DOMAIN Cut(p) = 1..q
  BY CutFacts
<1>2. s = [j \in 1..q |-> [start |-> f + 1 + Full(j - 1),
                           end |-> f + 1 + Full(j - 1) + Len(Cut(p)[j]) - 1,
                           at |-> l + j]]
  BY <1>1 DEF More
<1>3. ASSUME NEW j \in 1..q
      PROVE  /\ s[j] \in ChunkRec
             /\ s[j].start = f + Full(j - 1) + 1
             /\ s[j].end = f + Least(Full(j), m)
             /\ s[j].at = l + j
  <2>1. Full(j - 1) \in Nat /\ Least(Full(j), m) \in Full(j - 1) + 1..m
    BY <1>0, PieceBounds
  <2>2. Len(Cut(p)[j]) = Least(Full(j), m) - Full(j - 1)
    BY CutFacts
  <2>3. s[j] = [start |-> f + 1 + Full(j - 1),
                end |-> f + 1 + Full(j - 1) + Len(Cut(p)[j]) - 1,
                at |-> l + j]
    BY <1>2
  <2> DEFINE a == Full(j - 1)
             e == Least(Full(j), m)
  <2>4. f + 1 + a = f + a + 1 /\ f + 1 + a + (e - a) - 1 = f + e /\ j \in Nat
    BY <1>0, <2>1
  <2>5. s[j] = [start |-> f + a + 1, end |-> f + e, at |-> l + j]
    BY <2>2, <2>3, <2>4
  <2> HIDE DEF a, e, s
  <2>6. f + a + 1 \in Nat /\ f + e \in Nat /\ l + j \in Nat
    BY <1>0, <2>1, <2>4 DEF a, e
  <2> QED
    BY <2>5, <2>6 DEF ChunkRec, a, e
<1>4. s \in [1..q -> ChunkRec]
  BY <1>2, <1>3
<1> HIDE DEF s
<1>5. s \in Seq(ChunkRec) /\ Len(s) = q
  BY <1>0, <1>4
<1> QED
  BY <1>3, <1>5 DEF s

\* An item with other records.
With(b, chunks, data, vectors, outline, meta) ==
  [b EXCEPT !.chunks = chunks, !.data = data, !.vectors = vectors, !.outline = outline,
            !.meta = meta]

\* The record append writes is an item.
LEMMA ItemWith ==
  ASSUME NEW b \in ItemRec, NEW c \in Seq(ChunkRec), NEW s \in Seq(Seq(Line)),
         NEW v \in Rows, NEW o \in Outlines, NEW m \in MetaRec
  PROVE  /\ With(b, c, s, v, o, m) \in ItemRec
         /\ With(b, c, s, v, o, m).chunks = c
         /\ With(b, c, s, v, o, m).data = s
         /\ With(b, c, s, v, o, m).vectors = v
         /\ With(b, c, s, v, o, m).outline = o
         /\ With(b, c, s, v, o, m).meta = m
BY DEF ItemRec, With

GrownWith(b, p, good) ==
  LET blocks == Cut(p)
      dim == GrownDim(b, blocks, good)
      chunks == b.chunks \o More(b, blocks)
      rows == RowsOf(dim, blocks, good)
      trusted == Trusted(dim, b.vectors \o rows, chunks)
  IN With(b, chunks, b.data \o blocks,
          IF dim # 0 /\ ~trusted THEN <<>> ELSE b.vectors \o rows,
          b.outline \o AtMost(Entry(p, End(b) + 1), RoomIn(b)),
          [b.meta EXCEPT !.dim = IF trusted THEN dim ELSE 0,
                         !.total = IF chunks = <<>> THEN 0 ELSE chunks[Len(chunks)].end])

\* Grown, with names for its parts.
LEMMA GrownIs ==
  ASSUME NEW d, NEW ls, NEW good, Closed(d) \in ItemRec
  PROVE  Grown(d, ls, good) = GrownWith(Closed(d), Reopened(d) \o ls, good)
<1> DEFINE b == Closed(d)
           p == Reopened(d) \o ls
           blocks == Cut(p)
           dim == GrownDim(b, blocks, good)
           chunks == b.chunks \o More(b, blocks)
           rows == RowsOf(dim, blocks, good)
           trusted == Trusted(dim, b.vectors \o rows, chunks)
           data == b.data \o blocks
           vectors == IF dim # 0 /\ ~trusted THEN <<>> ELSE b.vectors \o rows
           outline == b.outline \o AtMost(Entry(p, End(b) + 1), RoomIn(b))
           w == IF trusted THEN dim ELSE 0
           n == IF chunks = <<>> THEN 0 ELSE chunks[Len(chunks)].end
<1>1. Grown(d, ls, good) = [b EXCEPT !.chunks = chunks, !.data = data, !.vectors = vectors,
                                     !.outline = outline, !.meta.dim = w, !.meta.total = n]
  BY DEF Grown, GrownDim, More, Offered, RowsOf, RoomIn, Full
<1>2. GrownWith(b, p, good) = [b EXCEPT !.chunks = chunks, !.data = data, !.vectors = vectors,
                                     !.outline = outline, !.meta = [b.meta EXCEPT !.dim = w, !.total = n]]
  BY DEF GrownWith, With
<1>3. b \in ItemRec
  OBVIOUS
<1> HIDE DEF b, chunks, data, vectors, outline, w, n
<1>4. [b EXCEPT !.chunks = chunks, !.data = data, !.vectors = vectors,
                                     !.outline = outline, !.meta.dim = w, !.meta.total = n]
      = [b EXCEPT !.chunks = chunks, !.data = data, !.vectors = vectors,
                                     !.outline = outline, !.meta = [b.meta EXCEPT !.dim = w, !.total = n]]
  BY <1>3 DEF ItemRec, MetaRec
<1> QED
  BY <1>1, <1>2, <1>4 DEF b

\* The width of the embedder in use is a number.
LEMMA WidthIsNat ==
  ASSUME NEW w \in {0} \cup Widths
  PROVE  w \in Nat
BY MemoryAssumption

Appendable(d, n) == /\ Table(d.chunks, n)
                    /\ Partial(d) => Readable(d, d.chunks[Len(d.chunks)])

\* What Grown makes of an item of n lines: p is cut behind its first k blocks.
GrownBy(d, n, ls, good, k, p, dim) ==
  LET b == Closed(d)
      g == Grown(d, ls, good)
      rows == RowsOf(dim, Cut(p), good)
      trusted == Trusted(dim, b.vectors \o rows, g.chunks)
  IN /\ b \in ItemRec /\ b.meta = d.meta /\ End(b) = Full(k) /\ Len(b.chunks) = k
     /\ p = Reopened(d) \o ls /\ Full(k) + Len(p) = n + Len(ls)
     /\ dim = GrownDim(b, Cut(p), good)
     /\ rows \in Rows
     /\ g \in ItemRec
     /\ Table(g.chunks, n + Len(ls)) /\ g.chunks = b.chunks \o More(b, Cut(p))
     /\ g.data = b.data \o Cut(p)
     /\ g.vectors = IF dim # 0 /\ ~trusted THEN <<>> ELSE b.vectors \o rows
     /\ g.outline = b.outline \o AtMost(Entry(p, Full(k) + 1), RoomIn(b))
     /\ g.meta.dim = IF trusted THEN dim ELSE 0
     /\ g.meta.total = n + Len(ls)
     /\ g.meta.version = d.meta.version /\ g.meta.digest = d.meta.digest
     /\ g.meta.linked = d.meta.linked /\ g.meta.stamp = d.meta.stamp

\* Every file of an item after an append.
LEMMA GrownFields ==
  ASSUME NEW d \in ItemRec, NEW n \in Nat, Appendable(d, n), NEW ls \in Seq(Line),
         n + Len(ls) <= MaxLines, NEW good \in Nat, embedder \in {0} \cup Widths
  PROVE  \E k \in Nat, p \in Seq(Line), dim \in Nat : GrownBy(d, n, ls, good, k, p, dim)
<1> DEFINE b == Closed(d)
           p == Reopened(d) \o ls
           blocks == Cut(p)
           dim == GrownDim(b, blocks, good)
           more == More(b, blocks)
           chunks == b.chunks \o more
           rows == RowsOf(dim, blocks, good)
           trusted == Trusted(dim, b.vectors \o rows, chunks)
           N == n + Len(ls)
<1>1. PICK k \in Nat :
        /\ b \in ItemRec /\ b.meta = d.meta
        /\ Len(b.chunks) = k /\ Table(b.chunks, Full(k)) /\ End(b) = Full(k)
        /\ Reopened(d) \in Seq(Line) /\ Full(k) + Len(Reopened(d)) = n
  BY Closing DEF Appendable
<1> DEFINE f == Full(k)
<1>2. f \in Nat /\ Len(ls) \in Nat /\ N \in Nat
  <2>1. f \in Nat
    BY FullFacts
  <2>2. Len(ls) \in Nat /\ N \in Nat
    OBVIOUS
  <2> QED
    BY <2>1, <2>2
<1>e. embedder \in Nat
  BY WidthIsNat
<1>3. p \in Seq(Line) /\ Len(p) = Len(Reopened(d)) + Len(ls)
  BY <1>1, ConcatProperties
<1>4. f + Len(p) = N /\ Len(p) \in Nat
  BY <1>1, <1>2, <1>3
<1>b. b = Closed(d) /\ p = Reopened(d) \o ls /\ N = n + Len(ls)
  OBVIOUS
<1> HIDE DEF b, p, N
<1>5. /\ b.chunks \in Seq(ChunkRec) /\ b.data \in Seq(Seq(Line))
      /\ b.vectors \in Seq(Nat \X Seq(Line)) /\ b.outline \in Seq(Nat \X Line)
      /\ b.meta.dim \in {0} \cup Widths
  BY <1>1 DEF ItemRec, Rows, Outlines, MetaRec
<1>6. blocks \in Seq(Seq(Line))
  BY <1>3, CutFacts
<1>7. dim \in {0} \cup Widths /\ dim \in Nat
  <2>1. dim \in {0} \cup Widths
    BY <1>5 DEF GrownDim
  <2> HIDE DEF dim
  <2>2. dim \in Nat
    BY <2>1, WidthIsNat
  <2> QED
    BY <2>1, <2>2
<1>d. dim = GrownDim(b, blocks, good)
  OBVIOUS
<1> HIDE DEF dim
<1>8. rows \in Seq(Nat \X Seq(Line))
  BY <1>e, <1>6, <1>7, RowsFacts
<1>9. /\ more \in Seq(ChunkRec) /\ Len(more) = Pieces(Len(p))
      /\ \A j \in 1..Pieces(Len(p)) : /\ more[j].start = f + Full(j - 1) + 1
                                      /\ more[j].end = f + Least(Full(j), Len(p))
  <2>1. More(b, blocks) = more
    OBVIOUS
  <2> HIDE DEF more
  <2>2. b \in ItemRec /\ End(b) = Full(k) /\ p \in Seq(Line)
    BY <1>1, <1>3
  <2>3. More(b, blocks) \in Seq(ChunkRec) /\ Len(More(b, blocks)) = Pieces(Len(p))
    BY <2>2, MoreFacts
  <2>4. \A j \in 1..Pieces(Len(p)) :
              /\ More(b, blocks)[j].start = Full(k) + Full(j - 1) + 1
              /\ More(b, blocks)[j].end = Full(k) + Least(Full(j), Len(p))
    BY <2>2, MoreFacts
  <2> QED
    BY <2>1, <2>3, <2>4
<1>m. more = More(b, blocks)
  OBVIOUS
<1> HIDE DEF more
<1>10. Table(chunks, N) /\ chunks \in Seq(ChunkRec)
  <2> DEFINE m == Len(p)
  <2>1. /\ m \in Nat /\ Len(more) = Pieces(m) /\ Full(k) + m = N
        /\ \A j \in 1..Pieces(m) : /\ more[j].start = Full(k) + Full(j - 1) + 1
                                   /\ more[j].end = Full(k) + Least(Full(j), m)
    BY <1>4, <1>9
  <2> HIDE DEF m
  <2>2. Table(b.chunks \o more, Full(k) + m) /\ b.chunks \o more \in Seq(ChunkRec)
    BY <1>1, <1>5, <1>9, <2>1, TableGrown
  <2> QED
    BY <2>1, <2>2
<1>11. blocks \in Seq(Seq(Line)) /\ b.data \o blocks \in Seq(Seq(Line))
  BY <1>5, <1>6, ConcatProperties
<1>12. b.vectors \o rows \in Seq(Nat \X Seq(Line))
  BY <1>5, <1>8, ConcatProperties
<1> DEFINE heads == AtMost(Entry(p, f + 1), RoomIn(b))
<1>13. heads \in Seq(Nat \X Line) /\ b.outline \o heads \in Seq(Nat \X Line)
  <2> DEFINE e == Entry(p, f + 1)
             E == Nat \X Line
  <2>1. f + 1 \in Nat \ {0}
    BY <1>2
  <2>2. e \in Seq(E)
    BY <1>3, <2>1, EntryFacts
  <2>3. RoomIn(b) \in Nat
    BY <1>5, MemoryAssumption DEF RoomIn
  <2>4. b.outline \in Seq(E)
    BY <1>5
  <2> HIDE DEF e, E
  <2>5. AtMost(e, RoomIn(b)) \in Seq(E)
    BY <2>2, <2>3, AtMostFacts
  <2>6. b.outline \o AtMost(e, RoomIn(b)) \in Seq(E)
    BY <2>4, <2>5, ConcatProperties
  <2> QED
    BY <2>5, <2>6 DEF e, E
<1>14. (IF chunks = <<>> THEN 0 ELSE chunks[Len(chunks)].end) = N
  BY <1>2, <1>10, TableEnd
<1>15. N \in 0..MaxLines
  BY <1>2, <1>b, MemoryAssumption
<1> DEFINE vectors == IF dim # 0 /\ ~trusted THEN <<>> ELSE b.vectors \o rows
           w == IF trusted THEN dim ELSE 0
           g == Grown(d, ls, good)
<1>16. vectors \in Seq(Nat \X Seq(Line)) /\ w \in {0} \cup Widths
  BY <1>7, <1>12
<1> DEFINE data == b.data \o blocks
           outline == b.outline \o heads
<1>18. data \in Seq(Seq(Line)) /\ outline \in Seq(Nat \X Line)
  BY <1>11, <1>13
<1> DEFINE m == [b.meta EXCEPT !.dim = w, !.total = N]
<1>19. g = With(b, chunks, data, vectors, outline, m)
  <2>1. g = GrownWith(b, p, good)
    BY <1>1, <1>b, GrownIs
  <2>2. GrownWith(b, p, good) = With(b, chunks, data, vectors, outline, m)
    BY <1>1, <1>14, <1>d, <1>m DEF GrownWith
  <2> QED
    BY <2>1, <2>2
<1> HIDE DEF chunks, data, vectors, outline, w, g
<1>20. /\ g \in ItemRec
       /\ g.chunks = chunks /\ g.data = data /\ g.vectors = vectors /\ g.outline = outline
       /\ g.meta.dim = w /\ g.meta.total = N
       /\ g.meta.version = b.meta.version /\ g.meta.digest = b.meta.digest
       /\ g.meta.linked = b.meta.linked /\ g.meta.stamp = b.meta.stamp
  <2>1. b \in ItemRec /\ chunks \in Seq(ChunkRec) /\ data \in Seq(Seq(Line))
    BY <1>1, <1>10, <1>18
  <2>2. /\ vectors \in Seq(Nat \X Seq(Line)) /\ outline \in Seq(Nat \X Line)
        /\ w \in {0} \cup Widths /\ N \in 0..MaxLines
    BY <1>15, <1>16, <1>18
  <2>3. b.meta \in MetaRec
    BY <2>1 DEF ItemRec, Rows, Outlines
  <2>4. m \in MetaRec
    BY <2>2, <2>3 DEF MetaRec
  <2>5. /\ m.dim = w /\ m.total = N
        /\ m.version = b.meta.version /\ m.digest = b.meta.digest
        /\ m.linked = b.meta.linked /\ m.stamp = b.meta.stamp
    BY <2>3 DEF MetaRec
  <2> HIDE DEF f, blocks, rows, m
  <2> DEFINE u == With(b, chunks, data, vectors, outline, m)
  <2>9. /\ b \in ItemRec /\ chunks \in Seq(ChunkRec) /\ data \in Seq(Seq(Line))
        /\ vectors \in Rows /\ outline \in Outlines /\ m \in MetaRec
    BY <2>1, <2>2, <2>4 DEF Rows, Outlines
  <2>6. u \in ItemRec /\ u.chunks = chunks /\ u.data = data
    BY <2>9, ItemWith
  <2>7. u.vectors = vectors /\ u.outline = outline /\ u.meta = m
    BY <2>9, ItemWith
  <2> HIDE DEF u
  <2>8. g = u
    BY <1>19 DEF u
  <2> QED
    BY <2>5, <2>6, <2>7, <2>8
<1> HIDE DEF rows, blocks
<1>21. /\ g.vectors = IF dim # 0 /\ ~Trusted(dim, b.vectors \o rows, g.chunks) THEN <<>> ELSE b.vectors \o rows
       /\ g.meta.dim = IF Trusted(dim, b.vectors \o rows, g.chunks) THEN dim ELSE 0
  BY <1>20 DEF vectors, w
<1>22. g.chunks = b.chunks \o More(b, blocks) /\ Table(g.chunks, N)
  BY <1>10, <1>20, <1>m DEF chunks
<1>23. g.data = b.data \o blocks /\ g.outline = b.outline \o AtMost(Entry(p, Full(k) + 1), RoomIn(b))
  BY <1>20 DEF data, outline
<1>24. /\ g.meta.version = d.meta.version /\ g.meta.digest = d.meta.digest
       /\ g.meta.linked = d.meta.linked /\ g.meta.stamp = d.meta.stamp
       /\ g \in ItemRec /\ g.meta.total = N
  BY <1>1, <1>20
<1> QED
  <2>1. GrownBy(d, n, ls, good, k, p, dim)
    BY <1>1, <1>4, <1>8, <1>b, <1>d, <1>21, <1>22, <1>23, <1>24 DEF GrownBy, Rows, g, rows, blocks
  <2> QED
    BY <1>3, <1>7, <2>1

\* An item made of a text can be appended to.
LEMMA MadeAppendable ==
  ASSUME NEW d \in ItemRec, NEW x \in Seq(Line), MadeOf(d, x)
  PROVE  Appendable(d, Len(x)) /\ Len(x) \in Nat
<1>1. Table(d.chunks, Len(x)) /\ Len(x) \in Nat /\ d.chunks \in Seq(ChunkRec)
  BY DEF MadeOf, ItemRec
<1>2. Legible(d)
  BY TextOf
<1>3. ASSUME Partial(d)
      PROVE  Readable(d, d.chunks[Len(d.chunks)])
  <2>1. d.chunks # <<>>
    BY <1>3 DEF Partial
  <2>2. Len(d.chunks) \in DOMAIN d.chunks
    BY <1>1, <2>1, TableEnd
  <2> QED
    BY <1>2, <2>2 DEF Legible
<1> QED
  BY <1>1, <1>3 DEF Appendable

Joins(z, a, b) == z = a \o b

\* Concatenation regroups.
LEMMA Regroup ==
  ASSUME NEW S, NEW y \in Seq(S), NEW r \in Seq(S), NEW ls \in Seq(S),
         NEW x, Joins(x, y, r), NEW p, Joins(p, r, ls), NEW z, Joins(z, x, ls)
  PROVE  Joins(z, y, p)
<1>1. (y \o r) \o ls = y \o (r \o ls)
  BY ConcatAssociative
<1> QED
  BY <1>1 DEF Joins

\* One row of dim numbers per block.
RowPerBlock(v, dim, a) == v = [i \in DOMAIN a |-> <<dim, a[i]>>]

\* One row per block, for blocks behind blocks.
LEMMA RowsJoin ==
  ASSUME NEW v \in Rows, NEW rows \in Rows, NEW dim,
         NEW a \in Seq(Seq(Line)), NEW c \in Seq(Seq(Line)),
         RowPerBlock(v, dim, a), RowPerBlock(rows, dim, c)
  PROVE  RowPerBlock(v \o rows, dim, a \o c)
<1> DEFINE u == v \o rows
           z == a \o c
           E == Nat \X Seq(Line)
           F == Seq(Line)
           k == Len(a)
           q == Len(c)
<1>0. v \in Seq(E) /\ rows \in Seq(E) /\ a \in Seq(F) /\ c \in Seq(F)
  BY DEF Rows
<1>k. k \in Nat /\ q \in Nat /\ DOMAIN a = 1..k /\ DOMAIN c = 1..q
  OBVIOUS
<1>v. v = [i \in 1..k |-> <<dim, a[i]>>] /\ rows = [i \in 1..q |-> <<dim, c[i]>>]
  BY <1>k DEF RowPerBlock
<1>l. Len(v) = k /\ Len(rows) = q
  BY <1>0, <1>k, <1>v
<1> HIDE DEF E, F
<1>1. /\ u \in Seq(E) /\ Len(u) = Len(v) + Len(rows)
      /\ \A i \in 1..Len(v) + Len(rows) : u[i] = IF i <= Len(v) THEN v[i] ELSE rows[i - Len(v)]
  BY <1>0, ConcatProperties
<1>2. /\ z \in Seq(F) /\ Len(z) = Len(a) + Len(c)
      /\ \A i \in 1..Len(a) + Len(c) : z[i] = IF i <= Len(a) THEN a[i] ELSE c[i - Len(a)]
  BY <1>0, ConcatProperties
<1> HIDE DEF u, z
<1>3. /\ u \in Seq(E) /\ Len(u) = k + q
      /\ \A i \in 1..k + q : u[i] = IF i <= k THEN v[i] ELSE rows[i - k]
  BY <1>1, <1>l
<1>4. /\ z \in Seq(F) /\ Len(z) = k + q
      /\ \A i \in 1..k + q : z[i] = IF i <= k THEN a[i] ELSE c[i - k]
  BY <1>2
<1> HIDE DEF k, q
<1>5. ASSUME NEW i \in 1..k + q
      PROVE  u[i] = <<dim, z[i]>>
  <2>1. CASE i <= k
    <3>1. i \in 1..k
      BY <1>k, <2>1
    <3> QED
      BY <1>3, <1>4, <1>v, <2>1, <3>1
  <2>2. CASE ~(i <= k)
    <3>1. i - k \in 1..q
      BY <1>k, <2>2
    <3> QED
      BY <1>3, <1>4, <1>v, <2>2, <3>1
  <2> QED
    BY <2>1, <2>2
<1>6. u = [i \in 1..k + q |-> u[i]] /\ DOMAIN z = 1..k + q
  BY <1>3, <1>4, <1>k
<1>7. u = [i \in DOMAIN z |-> <<dim, z[i]>>]
  BY <1>5, <1>6
<1> QED
  BY <1>7 DEF RowPerBlock, u, z

\* An append makes of the item of the text x the item of x followed by ls.
LEMMA GrownMade ==
  ASSUME NEW d \in ItemRec, NEW x \in Seq(Line), MadeOf(d, x), NEW ls \in Seq(Line),
         Len(x) + Len(ls) <= MaxLines, NEW good \in Nat, embedder \in {0} \cup Widths
  PROVE  MadeOf(Grown(d, ls, good), x \o ls)
<1> DEFINE n == Len(x)
           b == Closed(d)
           g == Grown(d, ls, good)
           r == Reopened(d)
<1>0. Appendable(d, n) /\ n \in Nat
  BY MadeAppendable
<1>1. PICK k \in Nat, p \in Seq(Line), dim \in Nat : GrownBy(d, Len(x), ls, good, k, p, dim)
  <2>1. \A m \in Nat : Appendable(d, m) /\ m + Len(ls) <= MaxLines
          => \E k \in Nat, p \in Seq(Line), dim \in Nat : GrownBy(d, m, ls, good, k, p, dim)
    BY GrownFields
  <2> QED
    BY <1>0, <2>1
<1>2. PICK y \in Seq(Line) : MadeOf(b, y) /\ x = y \o r /\ Len(y) = Full(Len(b.chunks))
  BY ClosingMade
<1>3. PICK k2 \in Nat : Reopened(d) \in Seq(Line) /\ Full(k2) + Len(r) = n
  <2>1. Table(d.chunks, n) /\ (Partial(d) => Readable(d, d.chunks[Len(d.chunks)]))
    BY <1>0 DEF Appendable
  <2> HIDE DEF n
  <2> QED
    BY <1>0, <2>1, Closing
<1> DEFINE blocks == Cut(p)
           more == More(b, blocks)
           rows == RowsOf(dim, blocks, good)
           f == Full(k)
           q == Pieces(Len(p))
<1>k. Len(b.chunks) = k
  BY <1>1 DEF GrownBy
<1>r. r \in Seq(Line) /\ Len(y) = f /\ Len(b.chunks) = k
  BY <1>2, <1>3, <1>k
<1>g. /\ b \in ItemRec /\ b.meta = d.meta /\ End(b) = f /\ g \in ItemRec
      /\ p = r \o ls /\ dim = GrownDim(b, blocks, good)
      /\ rows \in Rows
      /\ Table(g.chunks, n + Len(ls)) /\ g.chunks = b.chunks \o more
      /\ g.data = b.data \o blocks
      /\ g.vectors = IF dim # 0 /\ ~Trusted(dim, b.vectors \o rows, g.chunks) THEN <<>> ELSE b.vectors \o rows
      /\ g.outline = b.outline \o AtMost(Entry(p, f + 1), RoomIn(b))
      /\ g.meta.dim = IF Trusted(dim, b.vectors \o rows, g.chunks) THEN dim ELSE 0
  BY <1>1 DEF GrownBy
<1>b. /\ Table(b.chunks, f) /\ b.data = Cut(y) /\ b.outline = Outline(y)
      /\ \A i \in DOMAIN b.chunks : b.chunks[i].at = i
      /\ b.vectors = IF b.meta.dim = 0 THEN <<>>
                     ELSE [i \in DOMAIN b.chunks |-> <<b.meta.dim, b.data[i]>>]
  BY <1>2, <1>r DEF MadeOf
<1> DEFINE z == x \o ls
<1>4. z = y \o p /\ z \in Seq(Line) /\ Len(z) = n + Len(ls)
  <2>0. y \in Seq(Line) /\ r \in Seq(Line) /\ ls \in Seq(Line)
    BY <1>r
  <2>j. Joins(x, y, r) /\ Joins(p, r, ls) /\ Joins(z, x, ls)
    BY <1>2, <1>g DEF Joins
  <2>1. Joins(z, y, p)
    BY <2>0, <2>j, Regroup
  <2>2. z \in Seq(Line) /\ Len(z) = n + Len(ls)
    BY ConcatProperties
  <2> QED
    BY <2>1, <2>2 DEF Joins
<1>f. f \in Nat /\ f = Full(k) /\ q \in Nat /\ Len(p) \in Nat
  <2>1. f \in Nat
    BY FullFacts
  <2>2. Len(p) \in Nat
    OBVIOUS
  <2>3. q \in Nat
    BY <2>2, PiecesFacts
  <2> QED
    BY <2>1, <2>2, <2>3
<1>q. q = Pieces(Len(p)) /\ blocks = Cut(p)
  OBVIOUS
<1> HIDE DEF n, b, g, r, z, rows, blocks, f, q
<1>5. Cut(z) = Cut(y) \o blocks /\ Pieces(f) = k
  BY <1>4, <1>r, <1>f, <1>q, CutConcat
<1>c. /\ Cut(y) \in Seq(Seq(Line)) /\ Len(Cut(y)) = k
      /\ blocks \in Seq(Seq(Line)) /\ Len(blocks) = q
  <2>1. Cut(y) \in Seq(Seq(Line)) /\ Len(Cut(y)) = Pieces(Len(y))
    BY CutFacts
  <2>2. Cut(p) \in Seq(Seq(Line)) /\ Len(Cut(p)) = Pieces(Len(p))
    BY CutFacts
  <2> QED
    BY <1>5, <1>r, <1>q, <2>1, <2>2
<1>6. g.data = Cut(z)
  BY <1>5, <1>b, <1>g
<1>7. g.outline = Outline(z)
  <2>1. 1 \in Nat \ {0} /\ 1 + f = f + 1 /\ f + 1 \in Nat \ {0}
    BY <1>f
  <2>2. Entry(z, 1) = Entry(y, 1) \o Entry(p, f + 1)
    <3>1. y \in Seq(Line) /\ p \in Seq(Line) /\ z = y \o p /\ Len(y) = f
      BY <1>4, <1>r
    <3>2. Entry(y \o p, 1) = Entry(y, 1) \o Entry(p, 1 + Len(y))
      BY <2>1, <3>1, EntryConcat
    <3> QED
      BY <2>1, <3>1, <3>2
  <2> DEFINE s == Entry(y, 1)
             t == Entry(p, f + 1)
             E == Nat \X Line
             h == AtMost(s, MaxOutline)
  <2>3. s \in Seq(E) /\ t \in Seq(E)
    BY <2>1, EntryFacts
  <2>4. b.outline = h
    BY <1>b DEF Outline
  <2>5. Room(h, MaxOutline, RoomIn(b))
    BY <2>4 DEF Room, RoomIn
  <2>6. MaxOutline \in Nat
    BY MemoryAssumption
  <2> HIDE DEF s, t, E
  <2>7. AtMost(s \o t, MaxOutline) = AtMost(s, MaxOutline) \o AtMost(t, RoomIn(b))
    BY <2>3, <2>5, <2>6, AtMostConcat
  <2> QED
    BY <1>g, <2>2, <2>4, <2>7 DEF Outline, s, t
<1>8. /\ b.chunks \in Seq(ChunkRec) /\ more \in Seq(ChunkRec) /\ Len(more) = q
      /\ \A j \in 1..q : more[j].at = k + j
  <2>1. b.chunks \in Seq(ChunkRec)
    BY <1>g DEF ItemRec
  <2>2. Len(b.data) = k
    BY <1>b, <1>c
  <2>3. End(b) = Full(k) /\ b \in ItemRec /\ k \in Nat /\ p \in Seq(Line)
    BY <1>g, <1>f
  <2>4. More(b, Cut(p)) \in Seq(ChunkRec) /\ Len(More(b, Cut(p))) = Pieces(Len(p))
    BY <2>3, MoreFacts
  <2>5. \A j \in 1..Pieces(Len(p)) : More(b, Cut(p))[j].at = Len(b.data) + j
    BY <2>3, MoreFacts
  <2> QED
    BY <1>q, <2>1, <2>2, <2>4, <2>5
<1> HIDE DEF more
<1>9. g.chunks \in Seq(ChunkRec) /\ Len(g.chunks) = k + q /\ DOMAIN g.chunks = 1..k + q
  <2> DEFINE c == b.chunks
  <2>1. /\ c \in Seq(ChunkRec) /\ more \in Seq(ChunkRec) /\ Len(c) = k /\ Len(more) = q
        /\ g.chunks = c \o more
    BY <1>8, <1>r, <1>g
  <2> HIDE DEF c
  <2>2. c \o more \in Seq(ChunkRec) /\ Len(c \o more) = k + q
    BY <2>1, ConcatProperties
  <2> QED
    BY <1>f, <2>1, <2>2
<1>10. \A i \in 1..k + q : g.chunks[i] = IF i <= k THEN b.chunks[i] ELSE more[i - k]
  <2> DEFINE c == b.chunks
  <2>1. /\ c \in Seq(ChunkRec) /\ more \in Seq(ChunkRec) /\ Len(c) = k /\ Len(more) = q
        /\ g.chunks = c \o more
    BY <1>8, <1>r, <1>g
  <2> HIDE DEF c
  <2>2. \A i \in 1..k + q : (c \o more)[i] = IF i <= k THEN c[i] ELSE more[i - k]
    BY <2>1, ConcatProperties
  <2> QED
    BY <2>1, <2>2 DEF c
<1>11. \A i \in 1..k + q : g.chunks[i].at = i
  <2> TAKE i \in 1..k + q
  <2>1. CASE i <= k
    <3>1. i \in DOMAIN b.chunks
      BY <1>8, <1>r, <1>f, <2>1
    <3> QED
      BY <1>10, <1>b, <2>1, <3>1
  <2>2. CASE ~(i <= k)
    <3>1. i - k \in 1..q /\ k + (i - k) = i
      BY <1>f, <2>2
    <3> QED
      BY <1>8, <1>10, <2>2, <3>1
  <2> QED
    BY <2>1, <2>2
<1>12. g.vectors = IF g.meta.dim = 0 THEN <<>>
                   ELSE [i \in DOMAIN g.chunks |-> <<g.meta.dim, g.data[i]>>]
  <2> DEFINE v == b.vectors
  <2>e. embedder \in Nat
    BY WidthIsNat
  <2>1. v \in Rows
    BY <1>g DEF ItemRec
  <2>2. rows \in Rows /\ (dim = 0 => rows = <<>>)
    BY <2>e, <1>c, <1>g, RowsFacts DEF rows
  <2>3. Len(rows) = q => \A i \in 1..q : rows[i] = <<dim, blocks[i]>>
    BY <2>e, <1>c, RowsFacts DEF rows
  <2>4. b.meta.dim \in Nat
    BY <1>g, WidthIsNat DEF ItemRec, MetaRec
  <2>5. dim = b.meta.dim \/ (b.meta.dim = 0 /\ b.chunks = <<>>)
    BY <1>g DEF GrownDim
  <2>6. CASE dim = 0
    <3>0. b.meta.dim = 0
      BY <2>5, <2>6
    <3>1. v = <<>>
      BY <1>b, <3>0
    <3>2. g.vectors = <<>>
      BY <1>g, <2>2, <2>6, <3>1
    <3>3. g.meta.dim = 0
      BY <1>g, <2>6
    <3> QED
      BY <3>2, <3>3
  <2>7. CASE dim # 0 /\ ~Trusted(dim, v \o rows, g.chunks)
    BY <1>g, <2>7
  <2>8. CASE dim # 0 /\ Trusted(dim, v \o rows, g.chunks)
    <3>1. g.meta.dim = dim /\ g.vectors = v \o rows /\ Len(v \o rows) = k + q
      BY <1>9, <1>g, <2>8 DEF Trusted
    <3> DEFINE a == b.data
    <3>5. /\ a \in Seq(Seq(Line)) /\ Len(a) = k /\ g.data = a \o blocks
          /\ blocks \in Seq(Seq(Line)) /\ Len(blocks) = q
      BY <1>b, <1>c, <1>g
    <3>2. RowPerBlock(v, dim, a) /\ Len(v) = k
      <4>1. CASE b.meta.dim = 0
        <5>1. b.chunks = <<>> /\ v = <<>>
          BY <1>b, <2>5, <2>8, <4>1
        <5>2. k = 0
          BY <1>r, <5>1
        <5>3. a = <<>>
          BY <3>5, <5>2, EmptySeq
        <5> QED
          BY <5>1, <5>2, <5>3 DEF RowPerBlock
      <4>2. CASE b.meta.dim # 0
        <5>1. dim = b.meta.dim /\ DOMAIN b.chunks = 1..k
          BY <1>r, <1>8, <2>5, <4>2
        <5>2. v = [i \in 1..k |-> <<dim, b.data[i]>>]
          BY <1>b, <4>2, <5>1
        <5>3. DOMAIN a = 1..k
          BY <3>5
        <5>4. Len(v) = k
          BY <1>f, <5>2
        <5> QED
          BY <5>2, <5>3, <5>4 DEF RowPerBlock
      <4> QED
        BY <4>1, <4>2
    <3>3. Len(v \o rows) = Len(v) + Len(rows) /\ Len(rows) \in Nat
      BY <2>1, <2>2, ConcatProperties DEF Rows
    <3>4. Len(rows) = q
      BY <1>f, <3>1, <3>2, <3>3
    <3>6. RowPerBlock(rows, dim, blocks)
      <4>1. DOMAIN blocks = 1..q /\ DOMAIN rows = 1..q
        BY <2>2, <3>4, <3>5 DEF Rows
      <4>2. rows = [i \in 1..q |-> rows[i]]
        BY <2>2, <4>1 DEF Rows
      <4> QED
        BY <2>3, <3>4, <4>1, <4>2 DEF RowPerBlock
    <3>7. v \in Rows /\ rows \in Rows /\ a \in Seq(Seq(Line)) /\ blocks \in Seq(Seq(Line))
      BY <2>1, <2>2, <3>5
    <3> DEFINE w == v \o rows
               z1 == a \o blocks
    <3>w. g.vectors = w /\ g.data = z1
      BY <3>1, <3>5
    <3> HIDE DEF v, a
    <3>8. RowPerBlock(w, dim, z1)
      BY <3>2, <3>6, <3>7, RowsJoin
    <3>9. DOMAIN z1 = DOMAIN g.chunks
      <4>1. z1 \in Seq(Seq(Line)) /\ Len(z1) = k + q
        <5>1. z1 \in Seq(Seq(Line)) /\ Len(z1) = Len(a) + Len(blocks)
          BY <3>7, ConcatProperties
        <5> QED
          BY <3>5, <5>1 DEF a
      <4> QED
        BY <1>9, <4>1
    <3> HIDE DEF w, z1
    <3> QED
      BY <2>8, <3>1, <3>8, <3>9, <3>w DEF RowPerBlock
  <2> QED
    BY <2>6, <2>7, <2>8
<1>13. Table(g.chunks, Len(z))
  BY <1>4, <1>g
<1>14. MadeOf(g, z)
  BY <1>6, <1>7, <1>9, <1>11, <1>12, <1>13 DEF MadeOf
<1> QED
  BY <1>14 DEF g, z

-----------------------------------------------------------------------------
(* Items, whole and torn.                                                  *)

\* What every item is, also one a crash left in pieces.
Shaped(d) == /\ d \in ItemRec /\ Table(d.chunks, End(d)) /\ End(d) \in 0..MaxLines
             /\ ~Exists(d) => d = Nothing

\* What an item is that no crash tore.
Sound(d) == /\ Text(d) \in Seq(Line) /\ MadeOf(d, Text(d)) /\ d.meta.total = Len(Text(d))
            /\ d.meta.digest # <<>> => d.meta.digest = <<Text(d)>>

\* Items whose records are the same and whose meta.bin is not.
Alike(d, e) == /\ e.chunks = d.chunks /\ e.data = d.data /\ e.vectors = d.vectors
               /\ e.outline = d.outline /\ e.meta.dim = d.meta.dim /\ e.meta.total = d.meta.total

\* What reads of an item does not depend on the rest of its meta.bin.
LEMMA AlikeMeans ==
  ASSUME NEW d, NEW e, Alike(d, e)
  PROVE  /\ Text(e) = Text(d) /\ End(e) = End(d) /\ Legible(e) = Legible(d)
         /\ \A t : MadeOf(d, t) => MadeOf(e, t)
<1>1. End(e) = End(d)
  BY DEF Alike, End
<1>2. \A n : LineAt(e, n) = LineAt(d, n)
  BY DEF Alike, LineAt, Block
<1>3. Text(e) = Text(d)
  BY <1>1, <1>2 DEF Text
<1>4. Legible(e) = Legible(d)
  BY DEF Alike, Legible, Readable, Block
<1>5. \A t : MadeOf(d, t) => MadeOf(e, t)
  BY DEF Alike, MadeOf
<1> QED
  BY <1>1, <1>3, <1>4, <1>5

\* No lines have no blocks and no entries.
LEMMA EmptyText ==
  /\ <<>> \in Seq(Line) /\ Len(<<>>) = 0 /\ Cut(<<>>) = <<>> /\ Outline(<<>>) = <<>>
  /\ Pieces(0) = 0
<1>1. <<>> \in Seq(Line) /\ Len(<<>>) = 0
  OBVIOUS
<1>2. Pieces(0) = 0
  BY PiecesUnique, FullFacts, MemoryAssumption
<1>3. Cut(<<>>) = <<>>
  <2>1. Cut(<<>>) \in Seq(Seq(Line)) /\ Len(Cut(<<>>)) = 0
    BY <1>1, <1>2, CutFacts
  <2> QED
    BY <2>1, EmptySeq
<1>4. Outline(<<>>) = <<>>
  <2> DEFINE e == Entry(<<>>, 1)
  <2>1. [i \in DOMAIN <<>> |-> <<1 + i - 1, <<>>[i]>>] = <<>>
    OBVIOUS
  <2>2. e = <<>>
    BY <2>1, AmongEmpty DEF Entry
  <2>3. AtMost(<<>>, MaxOutline) = <<>>
    <3>1. Least(MaxOutline, 0) = 0
      BY MemoryAssumption DEF Least
    <3>2. SubSeq(<<>>, 1, 0) = <<>>
      BY SubSeqEmpty
    <3> QED
      BY <1>1, <3>1, <3>2 DEF AtMost
  <2> QED
    BY <2>2, <2>3 DEF Outline
<1> QED
  BY <1>1, <1>2, <1>3, <1>4

\* A reset item is the item of no lines.
LEMMA FreshFacts ==
  ASSUME NEW v \in Nat
  PROVE  /\ Fresh(v) \in ItemRec /\ MadeOf(Fresh(v), <<>>) /\ Text(Fresh(v)) = <<>> /\ End(Fresh(v)) = 0
         /\ Table(Fresh(v).chunks, 0)
         /\ Fresh(v).meta = Meta(v) /\ Meta(v) \in MetaRec
<1> DEFINE d == Fresh(v)
<1>1. /\ d.meta = Meta(v) /\ d.chunks = <<>> /\ d.data = <<>> /\ d.vectors = <<>> /\ d.outline = <<>>
      /\ d.meta.dim = 0
  BY DEF Fresh, Meta
<1>2. Meta(v) \in MetaRec
  BY MemoryAssumption DEF Meta, MetaRec, Digests
<1>3. d \in ItemRec
  BY <1>2 DEF Fresh, ItemRec, Rows, Outlines
<1>4. Table(d.chunks, 0)
  BY <1>1, EmptyText DEF Table
<1> HIDE DEF d
<1>5. MadeOf(d, <<>>)
  <2>1. DOMAIN d.chunks = {}
    BY <1>1
  <2> QED
    BY <1>1, <1>4, <2>1, EmptyText DEF MadeOf
<1>6. Text(d) = <<>> /\ End(d) = 0
  BY <1>3, <1>5, EmptyText, TextOf
<1> QED
  BY <1>1, <1>2, <1>3, <1>4, <1>5, <1>6 DEF d

\* No item holds nothing.
LEMMA NothingFacts ==
  /\ Shaped(Nothing) /\ Sound(Nothing) /\ ~Exists(Nothing) /\ Held(Nothing) = <<>>
  /\ Nothing.meta.stamp = 0 /\ Partial(Nothing) = FALSE
<1>1. /\ Nothing.meta = Meta(0) /\ Nothing.meta.version = 0 /\ Nothing.meta.total = 0
      /\ Nothing.meta.digest = <<>> /\ Nothing.meta.stamp = 0 /\ Nothing.chunks = <<>>
  BY DEF Nothing, Fresh, Meta
<1>2. /\ Nothing \in ItemRec /\ MadeOf(Nothing, <<>>) /\ Text(Nothing) = <<>> /\ End(Nothing) = 0
      /\ Table(Nothing.chunks, 0)
  BY FreshFacts DEF Nothing
<1>3. ~Exists(Nothing)
  BY <1>1 DEF Exists
<1>4. Shaped(Nothing)
  BY <1>2, MemoryAssumption DEF Shaped
<1>5. Sound(Nothing)
  BY <1>1, <1>2, EmptyText DEF Sound
<1> QED
  BY <1>1, <1>3, <1>4, <1>5 DEF Held, Partial

\* An item written at once from the lines ls.
AtOnce(g, v, ls) ==
  /\ g \in ItemRec /\ MadeOf(g, ls) /\ Text(g) = ls /\ End(g) = Len(ls) /\ Table(g.chunks, End(g))
  /\ g.meta.total = Len(ls) /\ g.meta.version = v /\ g.meta.digest = <<>>
  /\ g.meta.linked = FALSE /\ g.meta.stamp = 0

\* What append makes of a reset item.
LEMMA WrittenAtOnce ==
  ASSUME NEW v \in Nat, NEW ls \in Seq(Line), Len(ls) <= MaxLines, NEW good \in Nat,
         embedder \in {0} \cup Widths
  PROVE  AtOnce(Grown(Fresh(v), ls, good), v, ls)
<1> DEFINE d == Fresh(v)
           g == Grown(d, ls, good)
<1>1. d \in ItemRec /\ MadeOf(d, <<>>) /\ d.meta = Meta(v)
  BY FreshFacts
<1>2. d.meta.version = v /\ d.meta.digest = <<>> /\ d.meta.linked = FALSE /\ d.meta.stamp = 0
  BY <1>1 DEF Meta
<1> HIDE DEF d
<1>3. Appendable(d, 0)
  BY <1>1, EmptyText, MadeAppendable
<1>4. 0 + Len(ls) = Len(ls) /\ 0 \in Nat
  OBVIOUS
<1>5. PICK k \in Nat, p \in Seq(Line), dim \in Nat : GrownBy(d, 0, ls, good, k, p, dim)
  <2>1. \A m \in Nat : Appendable(d, m) /\ m + Len(ls) <= MaxLines
          => \E k \in Nat, p \in Seq(Line), dim \in Nat : GrownBy(d, m, ls, good, k, p, dim)
    BY <1>1, GrownFields
  <2> QED
    BY <1>3, <1>4, <2>1
<1>6. /\ g \in ItemRec /\ Table(g.chunks, Len(ls)) /\ g.meta.total = Len(ls)
      /\ g.meta.version = v /\ g.meta.digest = <<>> /\ g.meta.linked = FALSE /\ g.meta.stamp = 0
  BY <1>2, <1>4, <1>5 DEF GrownBy
<1>7. MadeOf(g, ls)
  <2>1. <<>> \o ls = ls
    BY ConcatEmptySeq
  <2>2. \A x \in Seq(Line) : MadeOf(d, x) /\ Len(x) + Len(ls) <= MaxLines => MadeOf(g, x \o ls)
    BY <1>1, GrownMade
  <2> QED
    BY <1>1, <1>4, <2>1, <2>2, EmptyText
<1> HIDE DEF g
<1>8. Text(g) = ls /\ End(g) = Len(ls)
  BY <1>6, <1>7, TextOf
<1> QED
  BY <1>6, <1>7, <1>8 DEF g, d, AtOnce

\* The same item with another version, digest, path or stamp.
LEMMA Restamped ==
  ASSUME NEW d, Shaped(d), Exists(d), NEW e, Alike(d, e), e \in ItemRec, Exists(e)
  PROVE  /\ Shaped(e) /\ Text(e) = Text(d) /\ Legible(e) = Legible(d)
         /\ Sound(d) /\ (e.meta.digest = d.meta.digest \/ e.meta.digest = <<>>) => Sound(e)
<1>1. Text(e) = Text(d) /\ End(e) = End(d) /\ Legible(e) = Legible(d) /\ \A t : MadeOf(d, t) => MadeOf(e, t)
  BY AlikeMeans
<1>2. Shaped(e)
  BY <1>1 DEF Shaped, Alike
<1>3. ASSUME Sound(d), e.meta.digest = d.meta.digest \/ e.meta.digest = <<>>
      PROVE  Sound(e)
  BY <1>1, <1>3 DEF Sound, Alike
<1> QED
  BY <1>1, <1>2, <1>3

\* What put_impl writes: the item of the text, or the one it was.
LEMMA StoredFacts ==
  ASSUME NEW d, Shaped(d), NEW t \in Seq(Line), Len(t) <= MaxLines, NEW good \in Nat,
         embedder \in {0} \cup Widths
  PROVE  /\ Same(d, t) => Stored(d, t, good) = d
         /\ ~Same(d, t) => Sound(Stored(d, t, good)) /\ Text(Stored(d, t, good)) = t
                           /\ Stored(d, t, good).meta.stamp = 0
                           /\ Stored(d, t, good).meta.linked = FALSE
         /\ Shaped(Stored(d, t, good)) /\ Exists(Stored(d, t, good))
<1> DEFINE v == d.meta.version + 1
           g == Grown(Fresh(v), t, good)
           e == [g EXCEPT !.meta.digest = <<t>>]
<1>1. CASE Same(d, t)
  BY <1>1 DEF Stored, Same
<1>2. CASE ~Same(d, t)
  <2>1. v \in Nat /\ v # 0
    BY DEF Shaped, ItemRec, MetaRec
  <2>e. Stored(d, t, good) = e
    BY <1>2 DEF Stored
  <2> HIDE DEF v
  <2>w. AtOnce(g, v, t)
    BY <2>1, WrittenAtOnce
  <2> HIDE DEF g
  <2>2. /\ g \in ItemRec /\ MadeOf(g, t) /\ Text(g) = t /\ End(g) = Len(t) /\ Table(g.chunks, End(g))
        /\ g.meta.total = Len(t) /\ g.meta.version = v /\ g.meta.digest = <<>>
        /\ g.meta.linked = FALSE /\ g.meta.stamp = 0
    BY <2>w DEF AtOnce
  <2>3. Exists(g)
    BY <2>1, <2>2 DEF Exists
  <2>4. Shaped(g)
    BY <2>2, <2>3 DEF Shaped
  <2>5. <<t>> \in Digests
    BY DEF Digests
  <2>6. e \in ItemRec /\ Alike(g, e) /\ e.meta.version = v /\ e.meta.digest = <<t>> /\ e.meta.stamp = 0
        /\ e.meta.linked = FALSE
    BY <2>2, <2>5 DEF ItemRec, MetaRec, Alike
  <2>7. Exists(e)
    BY <2>1, <2>6 DEF Exists
  <2> HIDE DEF e
  <2>8. Shaped(e) /\ Text(e) = t /\ MadeOf(e, t)
    BY <2>2, <2>3, <2>4, <2>6, <2>7, Restamped, AlikeMeans
  <2>9. Sound(e)
    BY <2>2, <2>6, <2>8 DEF Sound, Alike
  <2> QED
    BY <1>2, <2>e, <2>6, <2>7, <2>8, <2>9
<1> QED
  BY <1>1, <1>2

\* Noting a path and a stamp leaves the text.
LEMMA LinkedFacts ==
  ASSUME NEW d, Shaped(d), Exists(d), NEW s, s.mtime \in Nat
  PROVE  /\ Shaped(Linked(d, s)) /\ Exists(Linked(d, s)) /\ Text(Linked(d, s)) = Text(d)
         /\ Sound(d) => Sound(Linked(d, s))
         /\ Linked(d, s).meta.stamp = s.mtime /\ Linked(d, s).meta.linked = TRUE
<1> DEFINE e == Linked(d, s)
<1>1. d \in ItemRec
  BY DEF Shaped
<1>2. /\ e \in ItemRec /\ Alike(d, e) /\ e.meta.version = d.meta.version /\ e.meta.digest = d.meta.digest
      /\ e.meta.stamp = s.mtime /\ e.meta.linked = TRUE
  BY <1>1 DEF Linked, ItemRec, MetaRec, Alike
<1> HIDE DEF e
<1>3. Exists(e)
  BY <1>2 DEF Exists
<1>4. Shaped(e) /\ Text(e) = Text(d) /\ (Sound(d) => Sound(e))
  BY <1>2, <1>3, Restamped
<1> QED
  BY <1>2, <1>3, <1>4 DEF e

\* Lines in the place of lines are lines.
LEMMA SpliceType ==
  ASSUME NEW ls \in Seq(Line), NEW first \in Nat \ {0}, NEW last \in Nat, NEW t \in Seq(Line)
  PROVE  Splice(ls, first, last, t) \in Seq(Line)
<1> DEFINE a == AtMost(ls, first - 1)
           b == IF first <= Len(ls) + 1 THEN t ELSE <<>>
           c == SubSeq(ls, last + 1, Len(ls))
<1>1. a \in Seq(Line)
  <2>1. first - 1 \in Nat
    OBVIOUS
  <2> QED
    BY <2>1, AtMostFacts
<1>2. b \in Seq(Line)
  OBVIOUS
<1>3. c \in Seq(Line)
  <2>1. CASE last <= Len(ls)
    BY <2>1, PartOf
  <2>2. CASE ~(last <= Len(ls))
    <3>1. c = <<>>
      BY <2>2, SubSeqEmpty
    <3> QED
      BY <3>1
  <2> QED
    BY <2>1, <2>2
<1>4. Splice(ls, first, last, t) = (a \o b) \o c
  BY DEF Splice
<1> HIDE DEF a, b, c
<1>5. a \o b \in Seq(Line)
  BY <1>1, <1>2, ConcatProperties
<1> DEFINE u == a \o b
<1>6. u \in Seq(Line)
  BY <1>5
<1> HIDE DEF u
<1>7. u \o c \in Seq(Line)
  BY <1>3, <1>6, ConcatProperties
<1> QED
  BY <1>4, <1>7 DEF u

\* The item an edit writes.
LEMMA EditedFacts ==
  ASSUME NEW d, Shaped(d), Exists(d), NEW ls \in Seq(Line), Len(ls) <= MaxLines,
         NEW first, NEW last, NEW t, ls = Splice(Text(d), first, last, t), NEW good \in Nat,
         embedder \in {0} \cup Widths
  PROVE  LET e == Edited(d, first, last, t, good) IN
         /\ Shaped(e) /\ Sound(e) /\ Exists(e) /\ Text(e) = ls
         /\ e.meta.stamp = 0 /\ e.meta.digest = <<>> /\ e.meta.linked = d.meta.linked
<1> DEFINE v == d.meta.version + 1
           g == Grown(Fresh(v), ls, good)
           e == [g EXCEPT !.meta.linked = d.meta.linked]
<1>1. v \in Nat /\ v # 0 /\ d.meta.linked \in BOOLEAN
  BY DEF Shaped, ItemRec, MetaRec
<1>e. Edited(d, first, last, t, good) = e
  BY DEF Edited
<1> HIDE DEF v
<1>w. AtOnce(g, v, ls)
  BY <1>1, WrittenAtOnce
<1> HIDE DEF g
<1>2. /\ g \in ItemRec /\ MadeOf(g, ls) /\ Text(g) = ls /\ End(g) = Len(ls) /\ Table(g.chunks, End(g))
      /\ g.meta.total = Len(ls) /\ g.meta.version = v /\ g.meta.digest = <<>>
      /\ g.meta.linked = FALSE /\ g.meta.stamp = 0
  BY <1>w DEF AtOnce
<1>3. Exists(g) /\ Len(ls) \in Nat
  BY <1>1, <1>2 DEF Exists
<1>4. Shaped(g) /\ Sound(g)
  BY <1>2, <1>3 DEF Shaped, Sound
<1>5. e \in ItemRec /\ Alike(g, e) /\ e.meta.version = v /\ e.meta.digest = <<>> /\ e.meta.stamp = 0
      /\ e.meta.linked = d.meta.linked
  BY <1>1, <1>2 DEF ItemRec, MetaRec, Alike
<1>6. Exists(e)
  BY <1>1, <1>5 DEF Exists
<1> HIDE DEF e
<1>7. Shaped(e) /\ Text(e) = ls /\ Sound(e)
  BY <1>2, <1>3, <1>4, <1>5, <1>6, Restamped
<1> QED
  BY <1>e, <1>5, <1>6, <1>7

\* How many blocks an append embeds.
LEMMA BlocksNat ==
  ASSUME NEW d, NEW ls, Reopened(d) \in Seq(Line), ls \in Seq(Line)
  PROVE  Blocks(d, ls) \in Nat
<1>1. Reopened(d) \o ls \in Seq(Line)
  BY ConcatProperties
<1> QED
  BY <1>1, CutFacts DEF Blocks

\* There is no block to reopen when there is no item.
LEMMA NothingReopened ==
  Reopened(Nothing) = <<>> /\ Reopened(Nothing) \in Seq(Line)
BY NothingFacts DEF Reopened

\* An item that AppendText accepts can be cut to full blocks.
LEMMA SoundAppendable ==
  ASSUME NEW d, Shaped(d), Partial(d) => Readable(d, d.chunks[Len(d.chunks)])
  PROVE  /\ Appendable(d, End(d)) /\ End(d) \in Nat /\ d \in ItemRec /\ Reopened(d) \in Seq(Line)
         /\ Closed(d) \in ItemRec /\ Closed(d).meta = d.meta
<1>1. d \in ItemRec /\ Table(d.chunks, End(d)) /\ End(d) \in Nat
  BY MemoryAssumption DEF Shaped
<1>2. PICK k \in Nat : /\ Closed(d) \in ItemRec /\ Closed(d).meta = d.meta
                       /\ Reopened(d) \in Seq(Line)
  <2> DEFINE n == End(d)
  <2>1. n \in Nat /\ Table(d.chunks, n)
    BY <1>1
  <2> HIDE DEF n
  <2> QED
    BY <1>1, <2>1, Closing
<1> QED
  BY <1>1, <1>2 DEF Appendable

\* The item an append writes.
LEMMA AppendedFacts ==
  ASSUME NEW d, Shaped(d), Partial(d) => Readable(d, d.chunks[Len(d.chunks)]),
         NEW ls \in Seq(Line), End(d) + Len(ls) <= MaxLines, NEW good \in Nat, embedder \in {0} \cup Widths
  PROVE  LET g == Grown(d, ls, good) IN
         /\ g \in ItemRec /\ End(g) \in 0..MaxLines /\ Table(g.chunks, End(g))
         /\ Sound(d) => /\ MadeOf(g, Text(d) \o ls) /\ Text(g) = Text(d) \o ls
                        /\ g.meta.total = Len(Text(g))
         /\ g.meta.version = d.meta.version /\ g.meta.digest = d.meta.digest
         /\ g.meta.linked = d.meta.linked /\ g.meta.stamp = d.meta.stamp
<1> DEFINE n == End(d)
           g == Grown(d, ls, good)
<1>1. Appendable(d, n) /\ n \in Nat /\ d \in ItemRec
  BY SoundAppendable
<1>2. n + Len(ls) \in 0..MaxLines
  BY <1>1
<1>n. n = End(d)
  OBVIOUS
<1> HIDE DEF n
<1>3. PICK k \in Nat, p \in Seq(Line), dim \in Nat : GrownBy(d, n, ls, good, k, p, dim)
  BY <1>1, <1>n, GrownFields
<1>4. /\ g \in ItemRec /\ Table(g.chunks, n + Len(ls)) /\ g.meta.total = n + Len(ls)
      /\ g.meta.version = d.meta.version /\ g.meta.digest = d.meta.digest
      /\ g.meta.linked = d.meta.linked /\ g.meta.stamp = d.meta.stamp
  BY <1>3 DEF GrownBy
<1>5. End(g) = n + Len(ls)
  <2> DEFINE m == n + Len(ls)
  <2>1. m \in Nat /\ Table(g.chunks, m) /\ g.chunks \in Seq(ChunkRec)
    BY <1>2, <1>4 DEF ItemRec
  <2> HIDE DEF m, g
  <2>2. End(g) = m
    BY <2>1, EndOf
  <2> QED
    BY <2>2 DEF m
<1>6. ASSUME Sound(d)
      PROVE  /\ MadeOf(g, Text(d) \o ls) /\ Text(g) = Text(d) \o ls
             /\ g.meta.total = Len(Text(g))
  <2> DEFINE x == Text(d)
             z == x \o ls
  <2>1. x \in Seq(Line) /\ MadeOf(d, x)
    BY <1>6 DEF Sound
  <2> HIDE DEF x
  <2>2. Len(x) = n
    BY <1>1, <1>n, <2>1, TextOf
  <2>3. z \in Seq(Line) /\ Len(z) = n + Len(ls)
    BY <2>1, <2>2, ConcatProperties
  <2>4. Len(x) + Len(ls) <= MaxLines
    BY <1>n, <2>2
  <2>5. MadeOf(g, z)
    <3>1. \A y \in Seq(Line) : MadeOf(d, y) /\ Len(y) + Len(ls) <= MaxLines => MadeOf(g, y \o ls)
      BY <1>1, GrownMade
    <3> QED
      BY <2>1, <2>4, <3>1
  <2> HIDE DEF g, z
  <2>6. Text(g) = z
    BY <1>4, <2>3, <2>5, TextOf
  <2> QED
    BY <1>4, <2>3, <2>5, <2>6 DEF x, z
<1> HIDE DEF g
<1> QED
  BY <1>2, <1>4, <1>5, <1>6 DEF g

-----------------------------------------------------------------------------
(* The invariant.                                                          *)

ShortTexts == {t \in Seq(Line) : Len(t) <= MaxLines}
SourceRec == [text : ShortTexts, mtime : Nat \ {0}, there : BOOLEAN]

\* A copy whose stamp is its file's has the file's text and, behind it, the lines a
\* appended since; one that has the digest of a text has had none appended.
InStep(d, s, a) ==
  Exists(d) /\ d.meta.linked =>
    /\ s.there /\ d.meta.stamp = s.mtime => Text(d) = s.text \o a
    /\ d.meta.digest # <<>> => a = <<>>

Fits(d, s) == Shaped(d) /\ s \in SourceRec /\ d.meta.stamp <= s.mtime
Kept(d, s, may, a) == Sound(d) /\ Held(d) \in may /\ InStep(d, s, a)

Functions == /\ items = [n \in Names |-> items[n]]
             /\ source = [n \in Names |-> source[n]]
             /\ told = [n \in Names |-> told[n]]
             /\ added \in [Names -> Seq(Line)]
Settled == /\ embedder \in {0} \cup Widths /\ torn \subseteq Names /\ seen \subseteq Names
           /\ calls \in 0..MaxCalls
IInv == /\ Functions /\ Settled
        /\ \A n \in Names : Fits(items[n], source[n])
        /\ \A n \in Names \ torn : Kept(items[n], source[n], told[n], added[n])

\* A step that is right for the name it is about keeps the invariant.
LEMMA Local ==
  ASSUME IInv, Settled', NEW n \in Names, NEW d, NEW s, NEW may, NEW a \in Seq(Line),
         items' = [items EXCEPT ![n] = d], source' = [source EXCEPT ![n] = s],
         told' = [told EXCEPT ![n] = may], added' = [added EXCEPT ![n] = a],
         torn' \ {n} = torn \ {n},
         Fits(d, s), n \notin torn' => Kept(d, s, may, a)
  PROVE  IInv'
<1>1. Functions
  BY DEF IInv
<1>2. /\ items'[n] = d /\ source'[n] = s /\ told'[n] = may /\ added'[n] = a
      /\ \A m \in Names : m # n => /\ items'[m] = items[m] /\ source'[m] = source[m]
                                   /\ told'[m] = told[m] /\ added'[m] = added[m]
  BY <1>1 DEF Functions
<1>3. Functions'
  BY <1>1 DEF Functions
<1>4. ASSUME NEW m \in Names
      PROVE  Fits(items'[m], source'[m])
  <2>1. CASE m = n
    BY <1>2, <2>1
  <2>2. CASE m # n
    <3>1. Fits(items[m], source[m])
      BY DEF IInv
    <3> QED
      BY <1>2, <2>2, <3>1
  <2> QED
    BY <2>1, <2>2
<1>5. ASSUME NEW m \in Names, m \notin torn'
      PROVE  Kept(items'[m], source'[m], told'[m], added'[m])
  <2>1. CASE m = n
    BY <1>2, <1>5, <2>1
  <2>2. CASE m # n
    <3>1. m \notin torn
      BY <1>5, <2>2
    <3>2. Kept(items[m], source[m], told[m], added[m])
      BY <3>1 DEF IInv
    <3> QED
      BY <1>2, <2>2, <3>2
  <2> QED
    BY <2>1, <2>2
<1> DEFINE F == \A m \in Names : Fits(items[m], source[m])
           K == \A m \in Names \ torn : Kept(items[m], source[m], told[m], added[m])
<1>6. F'
  <2>1. \A m \in Names : Fits(items'[m], source'[m])
    BY <1>4
  <2> QED
    BY <2>1 DEF Fits, Shaped, Exists, End, Table
<1>7. K'
  BY <1>5 DEF Kept, Sound, Held, InStep, Exists, Text, MadeOf
<1> QED
  BY <1>3, <1>6, <1>7 DEF IInv

\* A step that changes no item, file or answer keeps the invariant.
LEMMA UnmovedItems ==
  ASSUME IInv, Settled', UNCHANGED <<items, source, told, added, torn>>
  PROVE  IInv'
<1> DEFINE F == \A m \in Names : Fits(items[m], source[m])
           K == \A m \in Names \ torn : Kept(items[m], source[m], told[m], added[m])
<1>1. F /\ K /\ Functions
  BY DEF IInv
<1>2. Functions'
  BY <1>1 DEF Functions
<1>3. \A m \in Names : Fits(items'[m], source'[m])
  BY <1>1
<1>4. \A m \in Names \ torn' : Kept(items'[m], source'[m], told'[m], added'[m])
  BY <1>1
<1>5. F'
  BY <1>3
<1>6. K'
  BY <1>4
<1> QED
  BY <1>2, <1>5, <1>6 DEF IInv

\* What the invariant says of one name.
LEMMA AtName ==
  ASSUME IInv, NEW n \in Names
  PROVE  /\ Fits(items[n], source[n]) /\ Shaped(items[n]) /\ source[n] \in SourceRec
         /\ items[n].meta.stamp <= source[n].mtime
         /\ n \notin torn => Kept(items[n], source[n], told[n], added[n])
         /\ source' = source => source' = [source EXCEPT ![n] = source[n]]
         /\ items' = items => items' = [items EXCEPT ![n] = items[n]]
         /\ told' = told => told' = [told EXCEPT ![n] = told[n]]
         /\ added' = added => added' = [added EXCEPT ![n] = added[n]]
         /\ added[n] \in Seq(Line)
         /\ embedder \in {0} \cup Widths
BY DEF IInv, Fits, Functions, Settled

\* What a file is, also after a write.
LEMMA SourceFacts ==
  ASSUME NEW s \in SourceRec
  PROVE  /\ s.text \in ShortTexts /\ s.mtime \in Nat /\ s.mtime # 0 /\ s.there \in BOOLEAN
         /\ \A t \in ShortTexts : Written(s, t) \in SourceRec
BY DEF SourceRec, Written

\* Types of what meta.bin says.
LEMMA StampNat ==
  ASSUME NEW d, Shaped(d)
  PROVE  d.meta.stamp \in Nat /\ d.meta.version \in Nat /\ d.meta.linked \in BOOLEAN
BY DEF Shaped, ItemRec, MetaRec

\* How many blocks the embedder answers for is a number.
LEMMA GoodNat ==
  ASSUME NEW d, NEW ls, Reopened(d) \in Seq(Line), ls \in Seq(Line), NEW good \in 0..Blocks(d, ls)
  PROVE  good \in Nat
<1> DEFINE b == Blocks(d, ls)
<1>1. b \in Nat
  BY BlocksNat
<1> HIDE DEF b
<1>2. good \in 0..b
  BY DEF b
<1> QED
  BY <1>1, <1>2

\* The same for an item written at once.
LEMMA GoodAtOnce ==
  ASSUME NEW ls \in Seq(Line), NEW good \in 0..Blocks(Nothing, ls)
  PROVE  good \in Nat
BY NothingReopened, GoodNat

\* After an embedding there is the same embedder or none.
LEMMA EmbedsOk ==
  ASSUME NEW n, NEW good, Embeds(n, good), embedder \in {0} \cup Widths
  PROVE  embedder' \in {0} \cup Widths
BY DEF Embeds

\* Counting keeps the bound.
LEMMA CountedOk ==
  ASSUME Counted, Settled
  PROVE  calls' \in 0..MaxCalls
<1>1. MaxCalls \in Nat /\ calls \in Nat /\ calls < MaxCalls /\ calls' = calls + 1
  BY MemoryAssumption DEF Counted, Settled
<1> QED
  BY <1>1

\* What callers pass fits an item.
LEMMA ShortText ==
  ASSUME NEW t \in Texts
  PROVE  t \in ShortTexts /\ t \in Seq(Line)
BY TextsAreLines DEF ShortTexts

\* What put_impl makes of an item, with the text it is given.
LEMMA StoredKept ==
  ASSUME NEW d, Shaped(d), NEW s \in SourceRec, d.meta.stamp <= s.mtime,
         NEW t \in ShortTexts, NEW good \in 0..Blocks(Nothing, t), embedder \in {0} \cup Widths, NEW a
  PROVE  /\ Fits(Stored(d, t, good), s) /\ Exists(Stored(d, t, good))
         /\ ~Same(d, t) \/ Sound(d) => Sound(Stored(d, t, good)) /\ Text(Stored(d, t, good)) = t
         /\ InStep(d, s, a) \/ ~Same(d, t) => InStep(Stored(d, t, good), s, a)
<1> DEFINE e == Stored(d, t, good)
<1>1. t \in Seq(Line) /\ Len(t) <= MaxLines
  BY DEF ShortTexts
<1>2. good \in Nat
  BY <1>1, GoodAtOnce
<1>3. /\ Same(d, t) => e = d
      /\ ~Same(d, t) => Sound(e) /\ Text(e) = t /\ e.meta.stamp = 0 /\ e.meta.linked = FALSE
      /\ Shaped(e) /\ Exists(e)
  BY <1>1, <1>2, StoredFacts
<1> HIDE DEF e
<1>4. s.mtime \in Nat
  BY SourceFacts
<1>5. Fits(e, s)
  BY <1>3, <1>4 DEF Fits
<1>6. ASSUME Same(d, t), Sound(d)
      PROVE  Text(d) = t
  BY <1>6 DEF Same, Sound
<1>7. ASSUME ~Same(d, t) \/ Sound(d)
      PROVE  Sound(e) /\ Text(e) = t
  BY <1>3, <1>6, <1>7
<1>8. ASSUME InStep(d, s, a) \/ ~Same(d, t)
      PROVE  InStep(e, s, a)
  BY <1>3, <1>8 DEF InStep
<1> QED
  BY <1>3, <1>5, <1>7, <1>8 DEF e

\* put: the digest of an item that is whole is that of its text.
LEMMA PutKeeps ==
  ASSUME IInv, NEW n \in Names, NEW t \in Texts, Put(n, t)
  PROVE  IInv'
<1> DEFINE d == items[n]
           s == source[n]
           a == added[n]
<1>1. PICK good \in 0..Blocks(Nothing, t) :
        /\ IF Same(items[n], t) THEN UNCHANGED embedder ELSE Embeds(Blocks(Nothing, t), good)
        /\ Now(n, Stored(items[n], t, good), {<<t>>})
  BY DEF Put
<1> DEFINE e == Stored(d, t, good)
<1>2. /\ torn' = IF Same(d, t) THEN torn ELSE torn \ {n}
      /\ seen' = seen \cup {n} /\ source' = source /\ added' = added /\ Counted
  BY DEF Put
<1>3. items' = [items EXCEPT ![n] = e] /\ told' = [told EXCEPT ![n] = {<<t>>}]
  BY <1>1 DEF Now
<1>4. t \in ShortTexts /\ t \in Seq(Line)
  BY ShortText
<1>5. Settled /\ embedder \in {0} \cup Widths
  BY DEF IInv, Settled
<1>6. embedder' \in {0} \cup Widths
  BY <1>1, <1>5, EmbedsOk
<1>7. Settled'
  BY <1>2, <1>5, <1>6, CountedOk DEF Settled
<1>8. /\ Shaped(d) /\ s \in SourceRec /\ d.meta.stamp <= s.mtime
      /\ n \notin torn => Kept(d, s, told[n], a)
      /\ source' = [source EXCEPT ![n] = s]
      /\ added' = [added EXCEPT ![n] = a] /\ a \in Seq(Line)
  BY <1>2, AtName
<1> HIDE DEF d, s, a
<1>9. /\ Fits(e, s) /\ Exists(e)
      /\ ~Same(d, t) \/ Sound(d) => Sound(e) /\ Text(e) = t
      /\ InStep(d, s, a) \/ ~Same(d, t) => InStep(e, s, a)
  BY <1>4, <1>5, <1>8, StoredKept
<1> HIDE DEF e
<1>10. ASSUME n \notin torn'
       PROVE  Kept(e, s, {<<t>>}, a)
  <2>1. ~Same(d, t) \/ (Sound(d) /\ InStep(d, s, a))
    BY <1>2, <1>8, <1>10 DEF Kept
  <2>2. Held(e) = <<t>> /\ Sound(e) /\ InStep(e, s, a)
    BY <1>9, <2>1 DEF Held
  <2> QED
    BY <2>2 DEF Kept
<1>11. torn' \ {n} = torn \ {n}
  BY <1>2
<1> QED
  BY <1>3, <1>7, <1>8, <1>9, <1>10, <1>11, Local

\* put_file_locked: the copy is the file, and has its stamp.
LEMMA SyncKeeps ==
  ASSUME IInv, NEW n \in Names, Sync(n),
         seen' \subseteq Names, calls' \in 0..MaxCalls
  PROVE  IInv'
<1> DEFINE d == items[n]
           s == source[n]
           t == s.text
<1>1. PICK good \in 0..Blocks(Nothing, source[n].text) :
        /\ IF Same(items[n], source[n].text) THEN UNCHANGED embedder
           ELSE Embeds(Blocks(Nothing, source[n].text), good)
        /\ Now(n, Linked(Stored(items[n], source[n].text, good), source[n]), {<<source[n].text>>})
  BY DEF Sync
<1> DEFINE e == Stored(d, t, good)
           l == Linked(e, s)
<1>2. /\ torn' = IF Same(d, t) THEN torn ELSE torn \ {n}
      /\ source' = source /\ added' = [added EXCEPT ![n] = <<>>]
  BY DEF Sync
<1>3. items' = [items EXCEPT ![n] = l] /\ told' = [told EXCEPT ![n] = {<<t>>}]
  BY <1>1 DEF Now
<1>4. s \in SourceRec
  BY AtName
<1>5. Settled /\ embedder \in {0} \cup Widths
  BY DEF IInv, Settled
<1>6. embedder' \in {0} \cup Widths
  BY <1>1, <1>5, EmbedsOk
<1>7. Settled'
  BY <1>2, <1>5, <1>6 DEF Settled
<1>8. /\ Shaped(d) /\ d.meta.stamp <= s.mtime
      /\ n \notin torn => Kept(d, s, told[n], added[n])
      /\ source' = [source EXCEPT ![n] = s]
  BY <1>2, AtName
<1>b. good \in 0..Blocks(Nothing, t)
  BY <1>1
<1> HIDE DEF d, s
<1>t. t \in ShortTexts /\ s.mtime \in Nat
  BY <1>4, SourceFacts
<1> HIDE DEF t
<1>9. /\ Fits(e, s) /\ Exists(e)
      /\ ~Same(d, t) \/ Sound(d) => Sound(e) /\ Text(e) = t
  BY <1>b, <1>t, <1>4, <1>5, <1>8, StoredKept
<1> HIDE DEF e
<1>10. Shaped(e)
  BY <1>9 DEF Fits
<1>11. /\ Shaped(l) /\ Exists(l) /\ Text(l) = Text(e) /\ (Sound(e) => Sound(l))
       /\ l.meta.stamp = s.mtime
  BY <1>9, <1>10, <1>t, LinkedFacts
<1> HIDE DEF l
<1>12. Fits(l, s)
  BY <1>4, <1>t, <1>11 DEF Fits
<1>13. ASSUME n \notin torn'
       PROVE  Kept(l, s, {<<t>>}, <<>>)
  <2>1. ~Same(d, t) \/ Sound(d)
    BY <1>2, <1>8, <1>13 DEF Kept
  <2>2. Text(l) = t /\ Sound(l)
    BY <1>9, <1>11, <2>1
  <2>3. t \o <<>> = t
    BY <1>t, ConcatEmptySeq DEF ShortTexts
  <2> QED
    BY <1>11, <2>2, <2>3 DEF Kept, Held, InStep, t
<1>14. torn' \ {n} = torn \ {n} /\ <<>> \in Seq(Line)
  BY <1>2
<1> QED
  BY <1>2, <1>3, <1>7, <1>8, <1>12, <1>13, <1>14, Local

\* refresh_locked: put_file_locked or nothing.
LEMMA RefreshKeeps ==
  ASSUME IInv, NEW n \in Names, Refresh(n), seen' \subseteq Names, calls' \in 0..MaxCalls
  PROVE  IInv'
<1>1. CASE Stale(n)
  BY <1>1, SyncKeeps DEF Refresh
<1>2. CASE ~Stale(n)
  <2>1. UNCHANGED <<items, source, embedder, told, added, torn>>
    BY <1>2 DEF Refresh
  <2>2. Settled'
    BY <2>1 DEF IInv, Settled
  <2> QED
    BY <2>1, <2>2, UnmovedItems
<1> QED
  BY <1>1, <1>2

\* The text an edit is made on, and the one it makes.
LEMMA SplicedText ==
  ASSUME NEW d, Shaped(d), Legible(d), NEW first, NEW last, NEW t \in Texts, InRange(d, first, last),
         last \in Nat
  PROVE  /\ Text(d) \in Seq(Line)
         /\ Splice(Text(d), first, last, t) \in Seq(Line)
<1>1. d \in ItemRec /\ Table(d.chunks, End(d)) /\ End(d) \in Nat
  BY MemoryAssumption DEF Shaped
<1>2. Text(d) \in Seq(Line)
  <2> DEFINE n == End(d)
  <2>1. n \in Nat /\ Table(d.chunks, n) /\ End(d) = n
    BY <1>1
  <2> HIDE DEF n
  <2> QED
    BY <1>1, <2>1, TextTyped
<1>3. first \in Nat \ {0}
  <2>1. d.meta.total \in Nat
    BY <1>1, MemoryAssumption DEF ItemRec, MetaRec
  <2> QED
    BY <2>1 DEF InRange
<1>4. t \in Seq(Line)
  BY ShortText
<1> DEFINE x == Text(d)
<1>5. x \in Seq(Line)
  BY <1>2
<1> HIDE DEF x
<1>6. Splice(x, first, last, t) \in Seq(Line)
  BY <1>3, <1>4, <1>5, SpliceType
<1> QED
  BY <1>2, <1>6 DEF x

\* What an item written by an edit is, when the text was fit for one.
LEMMA EditedKept ==
  ASSUME NEW d, Shaped(d), Exists(d), Legible(d), NEW first, NEW last \in Nat, NEW t \in Texts,
         InRange(d, first, last), Len(Splice(Text(d), first, last, t)) <= MaxLines,
         NEW good \in 0..Blocks(Nothing, Splice(Text(d), first, last, t)),
         embedder \in {0} \cup Widths
  PROVE  /\ Shaped(Edited(d, first, last, t, good)) /\ Sound(Edited(d, first, last, t, good))
         /\ Exists(Edited(d, first, last, t, good))
         /\ Text(Edited(d, first, last, t, good)) = Splice(Text(d), first, last, t)
         /\ Text(Edited(d, first, last, t, good)) \in ShortTexts
         /\ Edited(d, first, last, t, good).meta.stamp = 0
         /\ Edited(d, first, last, t, good).meta.digest = <<>>
         /\ Edited(d, first, last, t, good).meta.linked = d.meta.linked
<1> DEFINE ls == Splice(Text(d), first, last, t)
           e == Edited(d, first, last, t, good)
<1>1. ls \in Seq(Line)
  BY SplicedText
<1>2. Len(ls) <= MaxLines /\ good \in 0..Blocks(Nothing, ls) /\ ls = Splice(Text(d), first, last, t)
  OBVIOUS
<1> HIDE DEF ls
<1>3. good \in Nat
  BY <1>1, <1>2, GoodAtOnce
<1>4. /\ Shaped(e) /\ Sound(e) /\ Exists(e) /\ Text(e) = ls
      /\ e.meta.stamp = 0 /\ e.meta.digest = <<>> /\ e.meta.linked = d.meta.linked
  BY <1>1, <1>2, <1>3, EditedFacts
<1> HIDE DEF e
<1>5. Text(e) \in ShortTexts
  BY <1>1, <1>2, <1>4 DEF ShortTexts
<1> QED
  BY <1>4, <1>5 DEF e, ls

\* The second line of a range is a number.
LEMMA RangesNat ==
  ASSUME NEW r \in Ranges
  PROVE  r[2] \in Nat
BY MemoryAssumption DEF Ranges

\* replace_lines, with and without a file to write through to.
LEMMA ReplaceKeeps ==
  ASSUME IInv, NEW n \in Names, NEW first, NEW last \in Nat, NEW t \in Texts,
         Replace(n, first, last, t)
  PROVE  IInv'
<1> DEFINE d == items[n]
           s == source[n]
           a == added[n]
           ls == Splice(Text(d), first, last, t)
           x == {Edits(y, first, last, t) : y \in told[n]}
<1>1. PICK good \in 0..Blocks(Nothing, ls) :
        /\ Embeds(Blocks(Nothing, ls), good)
        /\ IF d.meta.linked THEN WriteThrough(n, Edited(d, first, last, t, good))
           ELSE items' = [items EXCEPT ![n] = Edited(d, first, last, t, good)] /\ UNCHANGED <<source, added>>
  BY DEF Replace
<1> DEFINE e == Edited(d, first, last, t, good)
           w == Written(s, Text(e))
<1>2. /\ Counted /\ Exists(d) /\ Legible(d) /\ InRange(d, first, last) /\ Len(ls) <= MaxLines
      /\ told' = [told EXCEPT ![n] = x]
      /\ seen' = seen \cup {n} /\ torn' = torn
  BY <1>1 DEF Replace
<1>3. /\ Shaped(d) /\ s \in SourceRec /\ d.meta.stamp <= s.mtime
      /\ n \notin torn => Kept(d, s, told[n], a)
      /\ embedder \in {0} \cup Widths /\ a \in Seq(Line)
  BY AtName
<1>u. /\ source' = source => source' = [source EXCEPT ![n] = s]
      /\ added' = added => added' = [added EXCEPT ![n] = a]
  BY AtName
<1>4. Settled'
  <2>1. embedder' \in {0} \cup Widths
    BY <1>1, <1>3, EmbedsOk
  <2>2. Settled
    BY DEF IInv
  <2> QED
    BY <1>2, <2>1, <2>2, CountedOk DEF Settled
<1>5. /\ Shaped(e) /\ Sound(e) /\ Exists(e) /\ Text(e) = ls /\ Text(e) \in ShortTexts
      /\ e.meta.stamp = 0 /\ e.meta.digest = <<>> /\ e.meta.linked = d.meta.linked
  BY <1>2, <1>3, EditedKept
<1>b. d.meta.linked \in BOOLEAN
  BY <1>3, StampNat
<1>6. n \notin torn => <<ls>> \in x
  <2>1. ASSUME n \notin torn
        PROVE  <<Text(d)>> \in told[n]
    BY <1>2, <1>3, <2>1 DEF Kept, Held
  <2>2. Edits(<<Text(d)>>, first, last, t) = <<ls>>
    BY DEF Edits
  <2> QED
    BY <2>1, <2>2
<1>7. s.mtime \in Nat /\ s.mtime # 0
  BY <1>3, SourceFacts
<1>8. CASE ~d.meta.linked
  <2>1. items' = [items EXCEPT ![n] = e] /\ source' = [source EXCEPT ![n] = s]
        /\ added' = [added EXCEPT ![n] = a]
    BY <1>1, <1>8, <1>u
  <2> HIDE DEF e, d, s, a, ls, x
  <2>2. Fits(e, s)
    BY <1>3, <1>5, <1>7 DEF Fits
  <2>3. n \notin torn => Kept(e, s, x, a)
    BY <1>5, <1>6, <1>8 DEF Kept, Held, InStep
  <2> QED
    BY <1>2, <1>3, <1>4, <2>1, <2>2, <2>3, Local
<1>9. CASE d.meta.linked
  <2> DEFINE l == Linked(e, w)
  <2>1. items' = [items EXCEPT ![n] = l] /\ source' = [source EXCEPT ![n] = w]
        /\ added' = [added EXCEPT ![n] = <<>>] /\ <<>> \in Seq(Line)
    BY <1>1, <1>9 DEF WriteThrough
  <2>w. w.mtime \in Nat /\ w.text = Text(e) /\ w \in SourceRec
    BY <1>3, <1>5, <1>7, SourceFacts DEF Written
  <2> HIDE DEF e, d, s, a, ls, x, w
  <2>2. /\ Shaped(l) /\ Exists(l) /\ Text(l) = Text(e) /\ Sound(l)
        /\ l.meta.stamp = w.mtime
    BY <1>5, <2>w, LinkedFacts
  <2> HIDE DEF l
  <2>3. Fits(l, w)
    BY <2>w, <2>2 DEF Fits
  <2>e. Text(e) \o <<>> = Text(e)
    BY <1>5, ConcatEmptySeq DEF ShortTexts
  <2>4. n \notin torn => Kept(l, w, x, <<>>)
    BY <1>5, <1>6, <2>e, <2>w, <2>2 DEF Kept, Held, InStep
  <2> QED
    BY <1>2, <1>4, <2>1, <2>3, <2>4, Local
<1> QED
  BY <1>b, <1>8, <1>9

\* Lines behind lines behind a text.
LEMMA Behind ==
  ASSUME NEW x \in Seq(Line), NEW y \in Seq(Line), NEW z \in Seq(Line)
  PROVE  (x \o y) \o z = x \o (y \o z)
BY ConcatAssociative

\* append_text: an item reads as if written at once.
LEMMA AppendKeeps ==
  ASSUME IInv, NEW n \in Names, NEW t \in Texts, AppendText(n, t)
  PROVE  IInv'
<1> DEFINE d == items[n]
           s == source[n]
           a == added[n]
           base == IF Exists(d) THEN d ELSE Fresh(0)
           joined(x) == IF x = <<>> THEN <<t>> ELSE <<x[1] \o t>>
           may == {joined(x) : x \in told[n]}
<1>0. \E good \in 0..Blocks(base, t) :
        /\ Embeds(Blocks(base, t), good)
        /\ Now(n, [Grown(base, t, good) EXCEPT !.meta.version = @ + 1, !.meta.digest = <<>>], may)
  BY Zenon DEF AppendText
<1>1. PICK good \in 0..Blocks(base, t) :
        /\ Embeds(Blocks(base, t), good)
        /\ Now(n, [Grown(base, t, good) EXCEPT !.meta.version = @ + 1, !.meta.digest = <<>>], may)
  BY <1>0
<1> DEFINE g == Grown(base, t, good)
           e == [g EXCEPT !.meta.version = @ + 1, !.meta.digest = <<>>]
<1>2. /\ Counted /\ End(base) + Len(t) <= MaxLines
      /\ Partial(base) => Readable(base, base.chunks[Len(base.chunks)])
      /\ seen' = seen \cup {n} /\ torn' = torn /\ source' = source
      /\ added' = IF base.meta.linked THEN [added EXCEPT ![n] = @ \o t] ELSE added
  BY DEF AppendText
<1>3. /\ Shaped(d) /\ s \in SourceRec /\ d.meta.stamp <= s.mtime
      /\ n \notin torn => Kept(d, s, told[n], a)
      /\ embedder \in {0} \cup Widths
      /\ source' = [source EXCEPT ![n] = s] /\ a \in Seq(Line)
  BY <1>2, AtName
<1>4. Settled'
  <2>1. embedder' \in {0} \cup Widths
    BY <1>1, <1>3, EmbedsOk
  <2>2. Settled
    BY DEF IInv
  <2> QED
    BY <1>2, <2>1, <2>2, CountedOk DEF Settled
<1>5. base = d
  BY <1>3 DEF Shaped, Nothing
<1>6. items' = [items EXCEPT ![n] = e] /\ told' = [told EXCEPT ![n] = may]
  BY <1>1 DEF Now
<1>t. t \in Seq(Line)
  BY ShortText
<1> DEFINE b == IF d.meta.linked THEN a \o t ELSE a
<1>b. added' = [added EXCEPT ![n] = b] /\ b \in Seq(Line)
  <2>1. CASE d.meta.linked
    <3>1. added' = [added EXCEPT ![n] = a \o t]
      BY <1>2, <1>5, <2>1 DEF IInv, Functions
    <3>2. a \o t \in Seq(Line)
      BY <1>3, <1>t, ConcatProperties
    <3> QED
      BY <2>1, <3>1, <3>2
  <2>2. CASE ~d.meta.linked
    <3>1. added' = added
      BY <1>2, <1>5, <2>2
    <3>2. added' = [added EXCEPT ![n] = a]
      BY <3>1, AtName
    <3> QED
      BY <1>3, <2>2, <3>2
  <2> QED
    BY <2>1, <2>2
<1>j. n \notin torn => joined(Held(d)) \in may
  BY <1>3 DEF Kept
<1>k. good \in 0..Blocks(base, t) /\ g = Grown(base, t, good)
  OBVIOUS
<1> DEFINE j == joined(Held(d))
<1>m. j = IF Exists(d) THEN <<Text(d) \o t>> ELSE <<t>>
  BY DEF Held
<1> HIDE DEF base, d, s, a, may, g, j
<1>p. Shaped(d) /\ (Partial(d) => Readable(d, d.chunks[Len(d.chunks)])) /\ End(d) + Len(t) <= MaxLines
  BY <1>2, <1>3, <1>5
<1>q. Reopened(d) \in Seq(Line)
  BY <1>p, SoundAppendable
<1>r. good \in Nat
  BY <1>5, <1>k, <1>q, <1>t, GoodNat
<1>7. /\ g \in ItemRec /\ End(g) \in 0..MaxLines /\ Table(g.chunks, End(g))
      /\ Sound(d) => /\ MadeOf(g, Text(d) \o t) /\ Text(g) = Text(d) \o t
                     /\ g.meta.total = Len(Text(g))
      /\ g.meta.version = d.meta.version /\ g.meta.digest = d.meta.digest
      /\ g.meta.linked = d.meta.linked /\ g.meta.stamp = d.meta.stamp
  BY <1>3, <1>5, <1>k, <1>p, <1>r, <1>t, AppendedFacts
<1>8. /\ Alike(g, e) /\ e \in ItemRec /\ e.meta.version = d.meta.version + 1 /\ e.meta.digest = <<>>
      /\ e.meta.linked = d.meta.linked /\ e.meta.stamp = d.meta.stamp
  <2>1. g.meta \in MetaRec /\ g.meta.version \in Nat
    BY <1>7 DEF ItemRec, MetaRec
  <2> DEFINE m == [g.meta EXCEPT !.version = @ + 1, !.digest = <<>>]
  <2>2. m \in MetaRec
    <3>1. <<>> \in Digests
      BY DEF Digests
    <3>2. g.meta.version + 1 \in Nat
      BY <2>1
    <3> QED
      BY <2>1, <3>1, <3>2 DEF MetaRec
  <2>3. /\ m.version = g.meta.version + 1 /\ m.digest = <<>> /\ m.linked = g.meta.linked
        /\ m.stamp = g.meta.stamp /\ m.dim = g.meta.dim /\ m.total = g.meta.total
    BY <2>1 DEF MetaRec
  <2> HIDE DEF m
  <2>4. e = [g EXCEPT !.meta = m]
    BY <1>7 DEF ItemRec, m, e
  <2> HIDE DEF e
  <2>5. e \in ItemRec /\ e.meta = m /\ e.chunks = g.chunks /\ e.data = g.data
        /\ e.vectors = g.vectors /\ e.outline = g.outline
    BY <1>7, <2>2, <2>4 DEF ItemRec
  <2> QED
    BY <1>7, <2>3, <2>5 DEF Alike
<1>9. Exists(e)
  BY <1>3, <1>8, StampNat DEF Exists
<1> HIDE DEF e
<1>10. /\ Text(e) = Text(g) /\ End(e) = End(g) /\ \A y : MadeOf(g, y) => MadeOf(e, y)
  BY <1>8, AlikeMeans
<1>11. Shaped(e)
  BY <1>7, <1>8, <1>9, <1>10 DEF Shaped, Alike
<1>12. Fits(e, s)
  BY <1>3, <1>8, <1>11 DEF Fits
<1>13. ASSUME n \notin torn
       PROVE  Kept(e, s, may, b)
  <2>1. Sound(d)
    BY <1>3, <1>13 DEF Kept
  <2>2. Text(e) = Text(d) \o t /\ MadeOf(e, Text(e)) /\ e.meta.total = Len(Text(e))
    BY <1>7, <1>8, <1>10, <2>1 DEF Alike
  <2>3. Text(d) \in Seq(Line) /\ Text(d) \o t \in Seq(Line)
    <3>1. Text(d) \in Seq(Line)
      BY <2>1 DEF Sound
    <3> QED
      BY <1>t, <3>1, ConcatProperties
  <2>4. Sound(e)
    BY <1>8, <2>2, <2>3 DEF Sound
  <2>5. j = Held(e)
    <3>1. CASE Exists(d)
      BY <1>9, <1>m, <2>2, <3>1 DEF Held
    <3>2. CASE ~Exists(d)
      <4>1. Text(d) = <<>>
        BY <1>3, <3>2, FreshFacts DEF Shaped, Nothing
      <4>2. <<>> \o t = t
        BY <1>t, ConcatEmptySeq
      <4> QED
        BY <1>9, <1>m, <2>2, <3>2, <4>1, <4>2 DEF Held
    <3> QED
      BY <3>1, <3>2
  <2>6. InStep(e, s, b)
    <3> SUFFICES ASSUME d.meta.linked, s.there, d.meta.stamp = s.mtime
                 PROVE  Text(e) = s.text \o b
      BY <1>8 DEF InStep
    <3>1. Exists(d)
      BY <1>3 DEF Shaped, Nothing, Fresh, Meta
    <3>2. Text(d) = s.text \o a
      BY <1>3, <1>13, <3>1 DEF Kept, InStep
    <3>3. s.text \in Seq(Line)
      BY <1>3, SourceFacts DEF ShortTexts
    <3>4. (s.text \o a) \o t = s.text \o (a \o t)
      BY <1>3, <1>t, <3>3, Behind
    <3> QED
      BY <2>2, <3>2, <3>4
  <2> QED
    BY <1>13, <1>j, <2>4, <2>5, <2>6 DEF Kept, j
<1> QED
  BY <1>2, <1>3, <1>4, <1>6, <1>b, <1>12, <1>13, Local

\* No item fits any file and holds nothing.
LEMMA NothingFits ==
  ASSUME NEW s \in SourceRec
  PROVE  /\ Fits(Nothing, s) /\ Sound(Nothing) /\ (\A a : InStep(Nothing, s, a)) /\ Held(Nothing) = <<>>
         /\ \A may, a : <<>> \in may => Kept(Nothing, s, may, a)
BY NothingFacts, SourceFacts DEF Fits, Kept, InStep

\* drop_session leaves nothing.
LEMMA ForgetKeeps ==
  ASSUME IInv, Forget
  PROVE  IInv'
<1>1. /\ Counted /\ items' = [n \in Names |-> Nothing] /\ told' = [n \in Names |-> {<<>>}]
      /\ torn' = {} /\ seen' = {} /\ source' = source /\ added' = added /\ embedder' = embedder
  BY DEF Forget
<1>2. Settled'
  BY <1>1, CountedOk DEF IInv, Settled
<1>3. Functions'
  BY <1>1 DEF IInv, Functions
<1>4. \A m \in Names : source[m] \in SourceRec
  BY DEF IInv, Fits
<1> DEFINE F == \A m \in Names : Fits(items[m], source[m])
           K == \A m \in Names \ torn : Kept(items[m], source[m], told[m], added[m])
<1>5. \A m \in Names : /\ items'[m] = Nothing /\ source'[m] = source[m] /\ told'[m] = {<<>>} /\ added'[m] = added[m]
  BY <1>1
<1>6. \A m \in Names : Fits(items'[m], source'[m]) /\ Kept(items'[m], source'[m], told'[m], added'[m])
  <2> TAKE m \in Names
  <2>1. Fits(Nothing, source[m]) /\ Kept(Nothing, source[m], {<<>>}, added[m])
    BY <1>4, NothingFits
  <2> QED
    BY <1>5, <2>1
<1>7. F'
  BY <1>6
<1>8. K'
  BY <1>6
<1> QED
  BY <1>2, <1>3, <1>7, <1>8 DEF IInv

\* Another embedder changes no item.
LEMMA SetEmbedderKeeps ==
  ASSUME IInv, NEW w \in Widths, SetEmbedder(w)
  PROVE  IInv'
<1>1. Settled'
  BY DEF SetEmbedder, IInv, Settled
<1> QED
  BY <1>1, UnmovedItems DEF SetEmbedder

\* Another program gives a file the time and the text it likes.
LEMMA OthersKeep ==
  ASSUME IInv, NEW n \in Names, NEW s \in SourceRec, Counted,
         source' = [source EXCEPT ![n] = s],
         UNCHANGED <<items, embedder, told, added, seen, torn>>,
         s.mtime >= source[n].mtime, s.there => s.mtime # items[n].meta.stamp
  PROVE  IInv'
<1> DEFINE d == items[n]
           a == added[n]
<1>1. /\ Shaped(d) /\ source[n].mtime \in Nat /\ d.meta.stamp <= source[n].mtime
      /\ n \notin torn => Kept(d, source[n], told[n], a)
      /\ items' = [items EXCEPT ![n] = d] /\ told' = [told EXCEPT ![n] = told[n]]
      /\ added' = [added EXCEPT ![n] = a] /\ a \in Seq(Line)
  BY AtName, SourceFacts
<1>2. Settled'
  BY CountedOk DEF IInv, Settled
<1>3. s.mtime >= source[n].mtime /\ (s.there => s.mtime # d.meta.stamp) /\ torn' = torn
  OBVIOUS
<1> HIDE DEF d, a
<1>4. Fits(d, s)
  <2>1. s.mtime \in Nat /\ d.meta.stamp \in Nat
    BY <1>1, SourceFacts, StampNat
  <2> QED
    BY <1>1, <1>3, <2>1 DEF Fits
<1>5. n \notin torn' => Kept(d, s, told[n], a)
  BY <1>1, <1>3 DEF Kept, InStep
<1> QED
  BY <1>1, <1>2, <1>3, <1>4, <1>5, Local

\* A write by another program gives the file a time no copy has noted.
LEMMA OthersWriteKeeps ==
  ASSUME IInv, NEW n \in Names, NEW t \in Texts, OthersWrite(n, t)
  PROVE  IInv'
<1> DEFINE s == Written(source[n], t)
<1>1. source[n] \in SourceRec /\ items[n].meta.stamp <= source[n].mtime /\ Shaped(items[n])
  BY AtName
<1>2. s \in SourceRec /\ source[n].mtime \in Nat
  BY <1>1, ShortText, SourceFacts
<1>3. s.mtime = source[n].mtime + 1
  BY DEF Written
<1>4. items[n].meta.stamp \in Nat
  BY <1>1, StampNat
<1>5. Counted /\ source' = [source EXCEPT ![n] = s] /\ UNCHANGED <<items, embedder, told, added, seen, torn>>
  <2>1. source' = [source EXCEPT ![n] = Written(@, t)]
    BY DEF OthersWrite
  <2>2. source = [m \in Names |-> source[m]]
    BY DEF IInv, Functions
  <2>3. source' = [source EXCEPT ![n] = s]
    BY <2>1, <2>2
  <2> QED
    BY <2>3 DEF OthersWrite
<1> HIDE DEF s
<1>6. s.mtime >= source[n].mtime /\ s.mtime # items[n].meta.stamp
  BY <1>1, <1>2, <1>3, <1>4
<1> QED
  BY <1>2, <1>5, <1>6, OthersKeep

\* A removed file is nothing a copy could be in step with.
LEMMA OthersRemoveKeeps ==
  ASSUME IInv, NEW n \in Names, OthersRemove(n)
  PROVE  IInv'
<1> DEFINE s == [source[n] EXCEPT !.there = FALSE]
<1>1. source[n] \in SourceRec
  BY AtName
<1>2. s \in SourceRec /\ s.mtime = source[n].mtime /\ s.there = FALSE /\ s.mtime \in Nat
  BY <1>1 DEF SourceRec
<1>3. source' = [source EXCEPT ![n] = s]
  <2>1. source' = [source EXCEPT ![n].there = FALSE]
    BY DEF OthersRemove
  <2>2. source = [m \in Names |-> source[m]]
    BY DEF IInv, Functions
  <2> QED
    BY <2>1, <2>2
<1>4. Counted /\ UNCHANGED <<items, embedder, told, added, seen, torn>>
  BY DEF OthersRemove
<1> HIDE DEF s
<1>5. s.mtime >= source[n].mtime
  BY <1>2
<1> QED
  BY <1>2, <1>3, <1>4, <1>5, OthersKeep

-----------------------------------------------------------------------------
(* Crashes.                                                                *)

\* What a crash in reset leaves can still be read or reset.
LEMMA RemovingFacts ==
  ASSUME NEW d, Shaped(d), NEW e \in Removing(d)
  PROVE  Shaped(e) /\ (e.meta.stamp = d.meta.stamp \/ e = Nothing)
<1>1. CASE e = d
  BY <1>1
<1>2. CASE e = Nothing
  BY <1>2, NothingFacts
<1>3. CASE Exists(d) /\ e = [d EXCEPT !.data = <<>>]
  <2>1. d \in ItemRec
    BY DEF Shaped
  <2>2. <<>> \in Seq(Seq(Line))
    OBVIOUS
  <2>3. e \in ItemRec /\ e.meta = d.meta /\ e.chunks = d.chunks
    BY <1>3, <2>1, <2>2 DEF ItemRec
  <2> QED
    BY <1>3, <2>3 DEF Shaped, Exists, End
<1>4. CASE Exists(d) /\ e = [Fresh(0) EXCEPT !.meta = d.meta]
  <2>1. d.meta \in MetaRec
    BY DEF Shaped, ItemRec
  <2>2. Fresh(0) \in ItemRec /\ Table(Fresh(0).chunks, 0) /\ Fresh(0).chunks = <<>>
    BY FreshFacts DEF Fresh
  <2>3. e \in ItemRec /\ e.meta = d.meta /\ e.chunks = <<>>
    BY <1>4, <2>1, <2>2 DEF ItemRec
  <2>4. End(e) = 0
    BY <2>3 DEF End
  <2> QED
    BY <1>4, <2>2, <2>3, <2>4, MemoryAssumption DEF Shaped, Exists
<1> QED
  BY <1>1, <1>2, <1>3, <1>4 DEF Removing

\* What a crash in append leaves has the table of before or after, and the old meta.bin.
LEMMA AppendingFacts ==
  ASSUME NEW d, Shaped(d), Exists(d), Partial(d) => Readable(d, d.chunks[Len(d.chunks)]),
         NEW ls \in Seq(Line), End(d) + Len(ls) <= MaxLines, NEW good \in 0..Blocks(d, ls),
         embedder \in {0} \cup Widths, NEW e \in Appending(d, Grown(d, ls, good))
  PROVE  Shaped(e) /\ Exists(e) /\ e.meta = d.meta
<1> DEFINE g == Grown(d, ls, good)
           b == Closed(d)
<1>1. Reopened(d) \in Seq(Line) /\ b \in ItemRec /\ b.meta = d.meta
  BY SoundAppendable
<1>2. good \in Nat
  BY <1>1, GoodNat
<1>3. g \in ItemRec /\ End(g) \in 0..MaxLines /\ Table(g.chunks, End(g))
  BY <1>2, AppendedFacts
<1>4. /\ d \in ItemRec /\ d.meta \in MetaRec /\ d.chunks \in Seq(ChunkRec)
      /\ Table(d.chunks, End(d)) /\ End(d) \in 0..MaxLines
  BY DEF Shaped, ItemRec
<1>5. e \in {d, [b EXCEPT !.chunks = d.chunks], [g EXCEPT !.chunks = d.chunks, !.meta = d.meta],
             [g EXCEPT !.meta = d.meta]}
  BY DEF Appending
<1> HIDE DEF g, b
<1>6. CASE e = d
  BY <1>6
<1>7. CASE e = [b EXCEPT !.chunks = d.chunks]
  <2>1. e \in ItemRec /\ e.meta = d.meta /\ e.chunks = d.chunks
    BY <1>1, <1>4, <1>7 DEF ItemRec
  <2> QED
    BY <1>4, <2>1 DEF Shaped, Exists, End
<1>8. CASE e = [g EXCEPT !.chunks = d.chunks, !.meta = d.meta]
  <2>1. e \in ItemRec /\ e.meta = d.meta /\ e.chunks = d.chunks
    BY <1>3, <1>4, <1>8 DEF ItemRec
  <2> QED
    BY <1>4, <2>1 DEF Shaped, Exists, End
<1>9. CASE e = [g EXCEPT !.meta = d.meta]
  <2>1. e \in ItemRec /\ e.meta = d.meta /\ e.chunks = g.chunks
    BY <1>3, <1>4, <1>9 DEF ItemRec
  <2> QED
    BY <1>3, <2>1 DEF Shaped, Exists, End
<1> QED
  BY <1>5, <1>6, <1>7, <1>8, <1>9

\* After a crash there is no embedder.
LEMMA SettledAfterCrash ==
  ASSUME IInv, Counted, embedder' = 0, seen' = seen, torn' \subseteq Names
  PROVE  Settled'
BY CountedOk DEF IInv, Settled

\* The item is one a call writes, or none: it is not torn any more.
LEMMA CrashedKeeps ==
  ASSUME IInv, NEW n \in Names, NEW d, NEW texts, Crashed(n, d, texts), NEW s,
         source' = [source EXCEPT ![n] = s],
         Fits(d, s), Sound(d), InStep(d, s, added[n]), Held(d) \in told[n] \cup {<<>>} \cup texts
  PROVE  IInv'
<1>1. /\ Counted /\ items' = [items EXCEPT ![n] = d]
      /\ told' = [told EXCEPT ![n] = Outcome(n, d, texts)]
      /\ torn' = torn \ {n} /\ embedder' = 0 /\ seen' = seen
      /\ added' = [added EXCEPT ![n] = added[n]] /\ added[n] \in Seq(Line)
  BY AtName DEF Crashed, Now
<1>2. torn \subseteq Names
  BY DEF IInv, Settled
<1>3. Settled'
  BY <1>1, <1>2, SettledAfterCrash
<1>4. Held(d) \in Outcome(n, d, texts)
  BY DEF Outcome
<1>5. Kept(d, s, Outcome(n, d, texts), added[n])
  BY <1>4 DEF Kept
<1>6. torn' \ {n} = torn \ {n}
  BY <1>1
<1> QED
  BY <1>1, <1>3, <1>5, <1>6, Local

\* The item is one of those the crash can leave.
LEMMA BrokenKeeps ==
  ASSUME IInv, NEW n \in Names, NEW d, NEW texts, Broken(n, d, texts), NEW s,
         source' = [source EXCEPT ![n] = s], Fits(d, s),
         s = source[n] \/ (Exists(d) /\ n \in torn)
  PROVE  IInv'
<1>s. s \in SourceRec /\ Shaped(d)
  BY DEF Fits
<1>1. CASE ~Exists(d)
  <2>1. d = Nothing
    BY <1>1, <1>s DEF Shaped
  <2>2. Sound(d) /\ InStep(d, s, added[n]) /\ Held(d) = <<>>
    BY <1>s, <2>1, NothingFits
  <2>3. Crashed(n, d, texts)
    BY <1>1 DEF Broken
  <2>4. Held(d) \in told[n] \cup {<<>>} \cup texts
    BY <2>2
  <2> QED
    BY <2>2, <2>3, <2>4, CrashedKeeps
<1>2. CASE Exists(d) /\ d = items[n] /\ n \notin torn
  <2>1. Kept(items[n], source[n], told[n], added[n])
    BY <1>2, AtName
  <2>2. Kept(d, s, told[n], added[n])
    BY <1>2, <2>1
  <2>3. Crashed(n, d, texts)
    BY <1>2 DEF Broken
  <2>4. Sound(d) /\ InStep(d, s, added[n]) /\ Held(d) \in told[n] \cup {<<>>} \cup texts
    BY <2>2 DEF Kept
  <2> QED
    BY <2>3, <2>4, CrashedKeeps
<1>3. CASE Exists(d) /\ ~(d = items[n] /\ n \notin torn)
  <2>1. /\ Counted /\ items' = [items EXCEPT ![n] = d] /\ told' = [told EXCEPT ![n] = {<<>>}]
        /\ torn' = torn \cup {n} /\ embedder' = 0 /\ seen' = seen
        /\ added' = [added EXCEPT ![n] = added[n]] /\ added[n] \in Seq(Line)
    BY <1>3, AtName DEF Broken, Now
  <2>2. torn \subseteq Names
    BY DEF IInv, Settled
  <2>3. Settled'
    BY <2>1, <2>2, SettledAfterCrash
  <2>4. torn' \ {n} = torn \ {n} /\ n \in torn'
    BY <2>1
  <2> QED
    BY <2>1, <2>3, <2>4, Local
<1> QED
  BY <1>1, <1>2, <1>3

\* A crash between the reset and meta.bin.
LEMMA CrashInPutKeeps ==
  ASSUME IInv, NEW n \in Names, CrashInPut(n)
  PROVE  IInv'
<1> DEFINE s == source[n]
<1>0. PICK t \in Texts \cup (IF source[n].there THEN {source[n].text} ELSE {}) :
        \E d \in Removing(items[n]) : Broken(n, d, {<<t>>})
  BY DEF CrashInPut
<1>1. PICK d \in Removing(items[n]) : Broken(n, d, {<<t>>})
  BY <1>0
<1>2. Shaped(items[n]) /\ s \in SourceRec /\ items[n].meta.stamp <= s.mtime
      /\ (source' = source => source' = [source EXCEPT ![n] = s])
  BY AtName
<1>3. Shaped(d) /\ (d.meta.stamp = items[n].meta.stamp \/ d = Nothing)
  BY <1>2, RemovingFacts
<1>4. s.mtime \in Nat /\ Nothing.meta.stamp = 0
  BY <1>2, SourceFacts, NothingFacts
<1>5. source' = [source EXCEPT ![n] = s]
  BY <1>2 DEF CrashInPut
<1> HIDE DEF s
<1>6. Fits(d, s)
  BY <1>2, <1>3, <1>4 DEF Fits
<1> QED
  BY <1>1, <1>5, <1>6, BrokenKeeps DEF s

\* A crash between the two meta.bin of put_file_locked.
LEMMA CrashUnlinkedKeeps ==
  ASSUME IInv, NEW n \in Names, CrashUnlinked(n)
  PROVE  IInv'
<1> DEFINE s == source[n]
           d == items[n]
           t == s.text
<1>1. PICK good \in 0..Blocks(Nothing, t) : Crashed(n, Stored(d, t, good), {<<t>>})
  BY DEF CrashUnlinked
<1> DEFINE e == Stored(d, t, good)
<1>2. ~Same(d, t) /\ source' = source
  BY DEF CrashUnlinked
<1>3. /\ Shaped(d) /\ s \in SourceRec /\ d.meta.stamp <= s.mtime
      /\ source' = [source EXCEPT ![n] = s] /\ embedder \in {0} \cup Widths
  BY <1>2, AtName
<1>g. good \in 0..Blocks(Nothing, t)
  BY <1>1
<1> HIDE DEF d, s
<1>t. t \in ShortTexts
  BY <1>3, SourceFacts
<1> HIDE DEF t
<1>4. Fits(e, s) /\ Exists(e) /\ Sound(e) /\ Text(e) = t /\ InStep(e, s, added[n])
  BY <1>2, <1>3, <1>g, <1>t, StoredKept
<1>c. Crashed(n, e, {<<t>>})
  BY <1>1
<1> HIDE DEF e
<1>5. Held(e) \in told[n] \cup {<<>>} \cup {<<t>>}
  BY <1>4 DEF Held
<1> QED
  BY <1>3, <1>4, <1>5, <1>c, CrashedKeeps

\* A crash between two files of an append.
LEMMA CrashInAppendKeeps ==
  ASSUME IInv, NEW n \in Names, NEW t \in Texts, CrashInAppend(n, t)
  PROVE  IInv'
<1> DEFINE d == items[n]
           s == source[n]
<1>0. PICK good \in 0..Blocks(d, t) : \E e \in Appending(d, Grown(d, t, good)) : Broken(n, e, {})
  BY DEF CrashInAppend
<1>1. PICK e \in Appending(d, Grown(d, t, good)) : Broken(n, e, {})
  BY <1>0
<1>2. /\ Exists(d) /\ (Partial(d) => Readable(d, d.chunks[Len(d.chunks)]))
      /\ End(d) + Len(t) <= MaxLines /\ source' = source
  BY DEF CrashInAppend
<1>3. /\ Shaped(d) /\ s \in SourceRec /\ d.meta.stamp <= s.mtime
      /\ source' = [source EXCEPT ![n] = s] /\ embedder \in {0} \cup Widths
  BY <1>2, AtName
<1>t. t \in Seq(Line)
  BY ShortText
<1>g. good \in 0..Blocks(d, t) /\ e \in Appending(d, Grown(d, t, good))
  BY <1>0, <1>1
<1> HIDE DEF d
<1>4. Shaped(e) /\ Exists(e) /\ e.meta = d.meta
  BY <1>2, <1>3, <1>g, <1>t, AppendingFacts
<1>5. Fits(e, s)
  BY <1>3, <1>4 DEF Fits
<1> QED
  BY <1>1, <1>3, <1>5, BrokenKeeps

\* A crash while the old item goes, or around the write to the file.
LEMMA CrashInReplaceKeeps ==
  ASSUME IInv, NEW n \in Names, NEW first, NEW last \in Nat, NEW t \in Texts,
         CrashInReplace(n, first, last, t)
  PROVE  IInv'
<1> DEFINE d == items[n]
           s == source[n]
           ls == Splice(Text(d), first, last, t)
           texts == {Edits(x, first, last, t) : x \in told[n]}
<1>1. /\ Exists(d) /\ Legible(d) /\ InRange(d, first, last) /\ Len(ls) <= MaxLines
  BY DEF CrashInReplace
<1>2. /\ Shaped(d) /\ s \in SourceRec /\ d.meta.stamp <= s.mtime
      /\ n \notin torn => Kept(d, s, told[n], added[n])
      /\ embedder \in {0} \cup Widths
      /\ source' = source => source' = [source EXCEPT ![n] = s]
  BY AtName
<1>3. s.mtime \in Nat /\ s.mtime # 0 /\ Nothing.meta.stamp = 0
  BY <1>2, SourceFacts, NothingFacts
<1>4. ASSUME NEW e \in Removing(d), Broken(n, e, texts), source' = source
      PROVE  IInv'
  <2>1. Shaped(e) /\ (e.meta.stamp = d.meta.stamp \/ e = Nothing)
    BY <1>2, <1>4, RemovingFacts
  <2>2. Fits(e, s)
    BY <1>2, <1>3, <2>1 DEF Fits
  <2> QED
    BY <1>2, <1>4, <2>2, BrokenKeeps
<1>5. ASSUME NEW good \in 0..Blocks(Nothing, ls),
             IF n \in torn THEN Broken(n, Edited(d, first, last, t, good), texts)
             ELSE Crashed(n, Edited(d, first, last, t, good), texts),
             \/ UNCHANGED source
             \/ source' = [source EXCEPT ![n] = Written(@, Text(Edited(d, first, last, t, good)))]
      PROVE  IInv'
  <2> DEFINE e == Edited(d, first, last, t, good)
  <2>1. /\ Shaped(e) /\ Sound(e) /\ Exists(e) /\ Text(e) = ls /\ Text(e) \in ShortTexts
        /\ e.meta.stamp = 0 /\ e.meta.digest = <<>>
    BY <1>1, <1>2, <1>5, EditedKept
  <2>2. PICK w \in SourceRec : source' = [source EXCEPT ![n] = w] /\ w.mtime \in Nat /\ w.mtime # 0
    <3>1. CASE UNCHANGED source
      BY <1>2, <1>3, <3>1
    <3>2. CASE source' = [source EXCEPT ![n] = Written(@, Text(e))]
      <4> DEFINE w == Written(s, Text(e))
      <4>1. w \in SourceRec
        BY <1>2, <2>1, SourceFacts
      <4>2. w.mtime \in Nat /\ w.mtime # 0
        BY <4>1, SourceFacts
      <4>3. source' = [source EXCEPT ![n] = w]
        BY <3>2 DEF IInv, Functions
      <4> QED
        BY <4>1, <4>2, <4>3
    <3> QED
      BY <1>5, <3>1, <3>2
  <2>c. IF n \in torn THEN Broken(n, e, texts) ELSE Crashed(n, e, texts)
    BY <1>5
  <2>t. n \notin torn => <<ls>> \in texts
    <3>1. ASSUME n \notin torn
          PROVE  <<Text(d)>> \in told[n]
      BY <1>1, <1>2, <3>1 DEF Kept, Held
    <3>2. Edits(<<Text(d)>>, first, last, t) = <<ls>>
      BY DEF Edits
    <3> QED
      BY <3>1, <3>2
  <2> HIDE DEF e, d, s, ls, texts
  <2>f. Fits(e, w)
    BY <2>1, <2>2 DEF Fits
  <2>i. e.meta.stamp # w.mtime /\ e.meta.digest = <<>>
    BY <2>1, <2>2
  <2>3. InStep(e, w, added[n])
    BY <2>i DEF InStep
  <2>4. CASE n \in torn
    BY <2>1, <2>2, <2>f, <2>4, <2>c, BrokenKeeps
  <2>5. CASE n \notin torn
    <3>1. Held(e) \in told[n] \cup {<<>>} \cup texts
      BY <2>1, <2>5, <2>t DEF Held
    <3> QED
      BY <2>1, <2>2, <2>3, <2>f, <2>5, <2>c, <3>1, CrashedKeeps
  <2> QED
    BY <2>4, <2>5
<1> QED
  BY <1>4, <1>5 DEF CrashInReplace

-----------------------------------------------------------------------------
(* The specification.                                                      *)

\* At first there are no items.
LEMMA InitInv ==
  ASSUME Init
  PROVE  IInv
<1>1. Settled /\ Functions
  BY MemoryAssumption DEF Init, Settled, Functions
<1> DEFINE s == [text |-> <<>>, mtime |-> 1, there |-> TRUE]
<1>2. \A n \in Names : items[n] = Nothing /\ source[n] = s /\ told[n] = {<<>>} /\ added[n] = <<>>
  BY DEF Init
<1>3. <<>> \in ShortTexts
  BY EmptyText, MemoryAssumption DEF ShortTexts
<1>4. s \in SourceRec
  BY <1>3 DEF SourceRec
<1> HIDE DEF s
<1>5. Fits(Nothing, s) /\ Kept(Nothing, s, {<<>>}, <<>>)
  BY <1>4, NothingFits
<1> QED
  BY <1>1, <1>2, <1>5 DEF IInv

\* The calls.
LEMMA CallKeeps ==
  ASSUME IInv, Call
  PROVE  IInv'
<1>1. PICK n \in Names :
        \/ PutFile(n) \/ Look(n)
        \/ \E found \in BOOLEAN : Search(n, found)
        \/ \E t \in Texts : Put(n, t) \/ AppendText(n, t)
        \/ \E t \in Texts, r \in Ranges : Replace(n, r[1], r[2], t)
  BY DEF Call
<1>2. Settled
  BY DEF IInv
<1>3. CASE PutFile(n)
  <2>1. seen' \subseteq Names /\ calls' \in 0..MaxCalls /\ Sync(n)
    BY <1>2, <1>3, CountedOk DEF PutFile, Settled
  <2> QED
    BY <2>1, SyncKeeps
<1>4. CASE Look(n)
  <2>1. seen' \subseteq Names /\ calls' \in 0..MaxCalls /\ Refresh(n)
    BY <1>2, <1>4, CountedOk DEF Look, Settled
  <2> QED
    BY <2>1, RefreshKeeps
<1>5. ASSUME NEW found \in BOOLEAN, Search(n, found)
      PROVE  IInv'
  <2>1. seen' \subseteq Names /\ calls' \in 0..MaxCalls /\ Refresh(n)
    BY <1>2, <1>5, CountedOk DEF Search, Settled
  <2> QED
    BY <2>1, RefreshKeeps
<1>6. ASSUME NEW t \in Texts, NEW r \in Ranges, Replace(n, r[1], r[2], t)
      PROVE  IInv'
  BY <1>6, RangesNat, ReplaceKeeps
<1> QED
  BY <1>1, <1>3, <1>4, <1>5, <1>6, PutKeeps, AppendKeeps

\* The crashes.
LEMMA CrashKeeps ==
  ASSUME IInv, Crash
  PROVE  IInv'
<1>1. PICK n \in Names :
        \/ CrashInPut(n) \/ CrashUnlinked(n)
        \/ \E t \in Texts : CrashInAppend(n, t)
        \/ \E t \in Texts, r \in Ranges : CrashInReplace(n, r[1], r[2], t)
  BY DEF Crash
<1>2. ASSUME NEW t \in Texts, NEW r \in Ranges, CrashInReplace(n, r[1], r[2], t)
      PROVE  IInv'
  BY <1>2, RangesNat, CrashInReplaceKeeps
<1> QED
  BY <1>1, <1>2, CrashInPutKeeps, CrashUnlinkedKeeps, CrashInAppendKeeps

\* The invariant is inductive.
LEMMA StepInv ==
  ASSUME IInv, [Next]_vars
  PROVE  IInv'
<1>1. CASE Call
  BY <1>1, CallKeeps
<1>2. CASE Settings
  BY <1>2, ForgetKeeps, SetEmbedderKeeps DEF Settings
<1>3. CASE Others
  BY <1>3, OthersWriteKeeps, OthersRemoveKeeps DEF Others
<1>4. CASE Crash
  BY <1>4, CrashKeeps
<1>5. CASE UNCHANGED vars
  <2>1. Settled'
    BY <1>5 DEF vars, IInv, Settled
  <2> QED
    BY <1>5, <2>1, UnmovedItems DEF vars
<1> QED
  BY <1>1, <1>2, <1>3, <1>4, <1>5 DEF Next

\* The inductive invariant holds in every state, whatever the names, texts,
\* headings, widths and bounds: a crash may tear an item, and then only its table
\* of blocks is relied on, until it is put again.
THEOREM Invariant == Spec => []IInv
BY InitInv, StepInv, PTL DEF Spec

-----------------------------------------------------------------------------
(* What the invariant says.                                                *)

\* The entries of chunks.bin that the types speak of.
LEMMA ChunkBounds ==
  ASSUME NEW d, Shaped(d), NEW i \in DOMAIN d.chunks
  PROVE  /\ d.chunks[i].start \in 1..d.chunks[i].end /\ d.chunks[i].end <= MaxLines
         /\ d.chunks[i].start = (i - 1) * Chunk + 1
<1> DEFINE n == End(d)
           k == Pieces(n)
           c == d.chunks[i]
<1>1. n \in 0..MaxLines /\ n \in Nat /\ d.chunks \in Seq(ChunkRec) /\ Table(d.chunks, n)
  BY MemoryAssumption DEF Shaped, ItemRec
<1> HIDE DEF n
<1>2. k \in Nat /\ i \in 1..k
  <2>1. Len(d.chunks) = k /\ k \in Nat
    BY <1>1, TableEnd
  <2>2. DOMAIN d.chunks = 1..Len(d.chunks)
    BY <1>1
  <2> QED
    BY <2>1, <2>2
<1>3. c.start = Full(i - 1) + 1 /\ c.end = Least(Full(i), n)
  BY <1>1, <1>2 DEF Table
<1> HIDE DEF c, k
<1>4. Full(i - 1) \in Nat /\ Least(Full(i), n) \in Full(i - 1) + 1..n
  BY <1>1, <1>2, PieceBounds DEF k
<1>5. c.start \in 1..c.end /\ c.end <= MaxLines
  BY <1>1, <1>3, <1>4, MemoryAssumption
<1>6. Full(i - 1) = (i - 1) * Chunk
  BY DEF Full
<1> QED
  BY <1>3, <1>5, <1>6 DEF c

\* The invariant has the types.
LEMMA InvType ==
  ASSUME IInv
  PROVE  TypeOK
<1>1. ASSUME NEW n \in Names
      PROVE  IsItem(items[n]) /\ source[n].mtime \in Nat /\ source[n].there \in BOOLEAN
  <2> DEFINE d == items[n]
  <2>1. Shaped(d) /\ source[n] \in SourceRec
    BY AtName
  <2>2. /\ d.meta.version \in Nat /\ d.meta.total \in 0..MaxLines /\ d.meta.dim \in {0} \cup Widths
        /\ d.meta.linked \in BOOLEAN /\ d.meta.stamp \in Nat
    BY <2>1 DEF Shaped, ItemRec, MetaRec
  <2>3. ~Exists(d) => d = Nothing
    BY <2>1 DEF Shaped
  <2> HIDE DEF d
  <2>4. \A i \in DOMAIN d.chunks : d.chunks[i].start \in 1..d.chunks[i].end /\ d.chunks[i].end <= MaxLines
    BY <2>1, ChunkBounds
  <2>5. IsItem(d)
    BY <2>2, <2>3, <2>4 DEF IsItem
  <2> QED
    BY <2>1, <2>5, SourceFacts DEF d
<1>2. items \in [Names -> {items[n] : n \in Names}]
  BY DEF IInv, Functions
<1> QED
  BY <1>1, <1>2 DEF TypeOK, IInv, Settled

\* What the invariant says of an item no crash tore.
LEMMA InvKept ==
  ASSUME IInv, NEW n \in Names \ torn
  PROVE  /\ Shaped(items[n]) /\ items[n] \in ItemRec /\ Sound(items[n])
         /\ Text(items[n]) \in Seq(Line) /\ MadeOf(items[n], Text(items[n]))
         /\ Held(items[n]) \in told[n] /\ InStep(items[n], source[n], added[n])
BY DEF IInv, Fits, Kept, Shaped, Sound

\* The invariant has the records agree.
LEMMA InvWhole ==
  ASSUME IInv
  PROVE  Whole
<1> SUFFICES ASSUME NEW n \in Names \ torn
             PROVE  LET d == items[n]  ls == Text(d) IN
                    /\ [i \in DOMAIN d.chunks |-> Block(d, d.chunks[i])] = Cut(ls)
                    /\ \A i \in DOMAIN d.chunks : d.chunks[i].start = (i - 1) * Chunk + 1
                    /\ d.meta.total = Len(ls)
                    /\ d.outline = AtMost(Entry(ls, 1), MaxOutline)
  BY DEF Whole
<1> DEFINE d == items[n]
           ls == Text(d)
<1>1. Shaped(d) /\ d \in ItemRec /\ ls \in Seq(Line) /\ MadeOf(d, ls) /\ Sound(d)
  BY InvKept
<1>2. d.meta.total = Len(ls)
  BY <1>1 DEF Sound
<1> HIDE DEF d
<1>3. \A i \in DOMAIN d.chunks : d.chunks[i].start = (i - 1) * Chunk + 1
  BY <1>1, ChunkBounds
<1> HIDE DEF ls
<1>4. [i \in DOMAIN d.chunks |-> Block(d, d.chunks[i])] = Cut(ls)
  BY <1>1, TextOf
<1>5. d.outline = AtMost(Entry(ls, 1), MaxOutline)
  BY <1>1 DEF MadeOf, Outline
<1> QED
  BY <1>2, <1>3, <1>4, <1>5 DEF d, ls

\* The invariant has a row for every block.
LEMMA InvVectors ==
  ASSUME IInv
  PROVE  VectorsAligned
<1> SUFFICES ASSUME NEW n \in Names \ torn, items[n].meta.dim # 0
             PROVE  items[n].vectors =
                      [i \in DOMAIN items[n].chunks |-> <<items[n].meta.dim, Block(items[n], items[n].chunks[i])>>]
  BY DEF VectorsAligned
<1> DEFINE d == items[n]
<1>1. MadeOf(d, Text(d))
  BY InvKept
<1>2. d.vectors = [i \in DOMAIN d.chunks |-> <<d.meta.dim, d.data[i]>>]
  BY <1>1 DEF MadeOf
<1>3. \A i \in DOMAIN d.chunks : Block(d, d.chunks[i]) = d.data[i]
  BY <1>1 DEF MadeOf, Block
<1> QED
  BY <1>2, <1>3

\* The invariant has the answers and the files.
LEMMA InvHeld ==
  ASSUME IInv
  PROVE  AllOrNothing /\ SyncedCopy
BY InvKept DEF AllOrNothing, SyncedCopy, InStep

\* Types of items, files and settings; an item without a meta.bin is nothing
\* (Item::load, reset).
THEOREM TypeCorrect == Spec => []TypeOK
BY Invariant, InvType, PTL

\* The records of an item no crash tore agree with the text its blocks hold: any
\* mixture of puts, appends and edits leaves the blocks, the count of lines and
\* the outline of that text written at once (Item::append).
THEOREM ItemsAreWhole == Spec => []Whole
BY Invariant, InvWhole, PTL

\* Trusted vectors are one per block and in the blocks' order, whatever embedder
\* failed or was changed between two appends (Item::append).
THEOREM VectorsAreAligned == Spec => []VectorsAligned
BY Invariant, InvVectors, PTL

\* An item no crash tore holds what the calls made of it; a call that a crash
\* stopped has happened, has not, or has lost the item (put_impl, replace_lines).
THEOREM CallsAreAllOrNothing == Spec => []AllOrNothing
BY Invariant, InvHeld, PTL

\* A working copy with the stamp of its file has the text of its file and behind it
\* the lines appended since, no others, also when others write the file and when a
\* crash parts the two writes (put_file_locked, refresh_locked, append, replace_lines).
THEOREM CopiesAreInStep == Spec => []SyncedCopy
BY Invariant, InvHeld, PTL

-----------------------------------------------------------------------------
(* Edits.                                                                  *)

\* Only an edit that is written through changes an item and its file.
LEMMA WritesBoth ==
  ASSUME IInv, [Next]_vars, NEW n \in Names, items'[n] # items[n], source'[n] # source[n]
  PROVE  Exists(items[n]) /\ items[n].meta.linked /\ ~Rebuilds(n)
<1>f. Functions
  BY DEF IInv
<1>s. source' # source /\ items' # items
  OBVIOUS
<1>1. ASSUME NEW m \in Names, NEW s, source' = [source EXCEPT ![m] = s]
      PROVE  m = n
  BY <1>1, <1>f DEF Functions
<1>2. ASSUME NEW m \in Names, NEW t \in Texts, NEW r \in Ranges, Replace(m, r[1], r[2], t)
      PROVE  Exists(items[n]) /\ items[n].meta.linked /\ ~Rebuilds(n)
  <2>1. /\ Exists(items[m]) /\ ~Rebuilds(m)
        /\ items[m].meta.linked \/ UNCHANGED source
        /\ (\E s : source' = [source EXCEPT ![m] = s]) \/ UNCHANGED source
    BY <1>2 DEF Replace, WriteThrough
  <2>2. m = n
    BY <1>1, <1>s, <2>1
  <2> QED
    BY <1>s, <2>1, <2>2
<1>3. ASSUME NEW m \in Names, NEW t \in Texts, NEW r \in Ranges, CrashInReplace(m, r[1], r[2], t)
      PROVE  Exists(items[n]) /\ items[n].meta.linked /\ ~Rebuilds(n)
  <2>1. /\ Exists(items[m]) /\ ~Rebuilds(m)
        /\ UNCHANGED source \/ (items[m].meta.linked /\ \E e : source' = [source EXCEPT ![m] = Written(@, Text(e))])
    BY <1>3 DEF CrashInReplace
  <2>2. PICK e : items[m].meta.linked /\ source' = [source EXCEPT ![m] = Written(@, Text(e))]
    BY <1>s, <2>1
  <2>3. source' = [source EXCEPT ![m] = Written(source[m], Text(e))]
    BY <1>f, <2>2 DEF Functions
  <2>4. m = n
    BY <1>1, <2>3
  <2> QED
    BY <2>1, <2>2, <2>4
<1>4. CASE Call
  <2>1. PICK m \in Names :
          \/ PutFile(m) \/ Look(m)
          \/ \E found \in BOOLEAN : Search(m, found)
          \/ \E t \in Texts : Put(m, t) \/ AppendText(m, t)
          \/ \E t \in Texts, r \in Ranges : Replace(m, r[1], r[2], t)
    BY <1>4 DEF Call
  <2>2. ~PutFile(m) /\ ~Look(m) /\ ~\E found \in BOOLEAN : Search(m, found)
    BY <1>s DEF PutFile, Look, Search, Refresh, Sync
  <2>3. ASSUME NEW t \in Texts PROVE ~Put(m, t) /\ ~AppendText(m, t)
    <3>1. Put(m, t) => source' = source
      BY DEF Put
    <3>2. AppendText(m, t) => source' = source
      BY Zenon DEF AppendText
    <3> QED
      BY <1>s, <3>1, <3>2
  <2> QED
    BY <1>2, <2>1, <2>2, <2>3
<1>5. CASE Crash
  <2>1. PICK m \in Names :
          \/ CrashInPut(m) \/ CrashUnlinked(m)
          \/ \E t \in Texts : CrashInAppend(m, t)
          \/ \E t \in Texts, r \in Ranges : CrashInReplace(m, r[1], r[2], t)
    BY <1>5 DEF Crash
  <2>2. ~CrashInPut(m) /\ ~CrashUnlinked(m) /\ ~\E t \in Texts : CrashInAppend(m, t)
    BY <1>s DEF CrashInPut, CrashUnlinked, CrashInAppend
  <2> QED
    BY <1>3, <2>1, <2>2
<1>6. ~Settings /\ ~Others /\ ~UNCHANGED vars
  BY <1>s DEF Settings, Forget, SetEmbedder, Others, OthersWrite, OthersRemove, vars
<1> QED
  BY <1>4, <1>5, <1>6 DEF Next

\* A copy that an edit does not rebuild is the file's text and what was appended.
LEMMA ReadyHeld ==
  ASSUME IInv, NEW n \in Names \ torn, Exists(items[n]), items[n].meta.linked, ~Rebuilds(n),
         source[n].there
  PROVE  Held(items[n]) = <<source[n].text \o added[n]>>
<1>1. Sound(items[n]) /\ InStep(items[n], source[n], added[n])
  BY InvKept
<1>2. CASE Stale(n)
  <2>1. Same(items[n], source[n].text)
    BY <1>2 DEF Rebuilds
  <2>2. items[n].meta.digest = <<source[n].text>> /\ items[n].meta.digest # <<>>
    BY <2>1 DEF Same
  <2>3. Text(items[n]) = source[n].text
    BY <1>1, <2>2 DEF Sound
  <2>4. added[n] = <<>>
    BY <1>1, <2>2 DEF InStep
  <2>5. source[n].text \in Seq(Line)
    BY AtName, SourceFacts DEF ShortTexts
  <2>6. source[n].text \o added[n] = source[n].text
    BY <2>4, <2>5, ConcatEmptySeq
  <2> QED
    BY <2>3, <2>6 DEF Held
<1>3. CASE ~Stale(n)
  <2>1. Text(items[n]) = source[n].text \o added[n]
    BY <1>1, <1>3 DEF Stale, InStep
  <2> QED
    BY <2>1 DEF Held
<1> QED
  BY <1>2, <1>3

\* No step replaces the text of a file by an edit of anything but that text and the
\* lines appended to its copy: what another program wrote since is not lost
\* (replace_lines, refresh_locked, append).
THEOREM EditsOverwriteWhatIsThere == Spec => EditsWhatIsThere
<1> DEFINE A == \A n \in Names \ torn :
                  items'[n] # items[n] /\ source'[n] # source[n] /\ source[n].there
                    => Held(items[n]) = <<source[n].text \o added[n]>>
<1>1. IInv /\ [Next]_vars => [A]_vars
  BY WritesBoth, ReadyHeld
<1> QED
  BY <1>1, Invariant, PTL DEF Spec, EditsWhatIsThere
=============================================================================
