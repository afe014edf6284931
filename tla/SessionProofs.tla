--------------------------- MODULE SessionProofs ---------------------------
(***************************************************************************)
(* Proofs about Session, for every vocabulary, every set of prompts, every *)
(* setting and every bound.                                                *)
(*                                                                         *)
(* The invariant says that the session never takes the K/V of one text for *)
(* those of another. It needs two facts about the application              *)
(* (PlaceholderReserved): text prompts do not hold the image placeholder,  *)
(* and the model never draws it. Otherwise vectors left over from an image *)
(* prompt may take its place.                                              *)
(*                                                                         *)
(* On it rest the theorems about what the caller is told (NothingIsLost,   *)
(* DrawnInContext, OneContinuation), about the rows a cache and its copies *)
(* hold (CountsOnlyPrefilled, WeightsNeverMix) and about the prefix store  *)
(* (StoreStaysWithinBudget, StoreKeepsOneOfEach). Where the code needs a   *)
(* fact about its callers for one of them, the theorem names it as a       *)
(* hypothesis: KeepsEveryToken, Undisturbed, 2 \notin Modes, Copyless.     *)
(***************************************************************************)
EXTENDS Session, Induction, SequenceTheorems, FiniteSetTheorems, TLAPS

\* Text prompts never hold the image placeholder and the model never draws it.
PlaceholderReserved ==
  /\ \A p \in Prompts : \A i \in 1..Len(p) : p[i] # Img
  /\ \A s \in Seq(Tokens) : ~CanDraw(s, Img)

\* The step in flight consumes the token the caller holds, at the last row.
InFlight ==
  pipe => Len(cache) > 0 /\ cache[Len(cache)].tok = last /\ ~cache[Len(cache)].img

\* The token consumed next was drawn by the model.
Spoken == hasSession => last # Img

\* Entries a prompt may be restored from.
Restorable(S) ==
  /\ S \subseteq Entry
  /\ IsFiniteSet(S)
  /\ \A e \in S : Faithful(e.toks, e.rows)

\* Copies kept in files.
Saved(S) ==
  /\ S \subseteq Image
  /\ \A e \in S : Faithful(e.toks, e.rows)

\* Every copy of the cache pairs its tokens with the rows computed from them.
Copies == Restorable(store) /\ Saved(image) /\ Saved(disk) /\ Saved(loading)

\* The inductive invariant.
IInv ==
  /\ TypeOK
  /\ CacheFaithful
  /\ InFlight
  /\ Spoken
  /\ Copies
-----------------------------------------------------------------------------
(* Sequences of tokens and of rows.                                        *)

\* The lesser of two numbers is a number and bounded by both.
LEMMA LesserNat ==
  ASSUME NEW a \in Nat, NEW b \in Nat
  PROVE  Lesser(a, b) \in Nat /\ Lesser(a, b) <= a /\ Lesser(a, b) <= b
BY DEF Lesser

\* The first n elements of a sequence.
LEMMA FrontOf ==
  ASSUME NEW S, NEW s \in Seq(S), NEW n \in 0..Len(s)
  PROVE  /\ SubSeq(s, 1, n) \in Seq(S)
         /\ Len(SubSeq(s, 1, n)) = n
         /\ \A i \in 1..n : SubSeq(s, 1, n)[i] = s[i]
<1>1. \A i \in 1..n : s[i] \in S
  BY ElementOfSeq
<1>2. /\ SubSeq(s, 1, n) \in Seq(S)
      /\ Len(SubSeq(s, 1, n)) = IF 1 <= n THEN n - 1 + 1 ELSE 0
      /\ \A i \in 1..n - 1 + 1 : SubSeq(s, 1, n)[i] = s[1 + i - 1]
  BY <1>1, SubSeqProperties
<1> QED
  BY <1>2

\* The elements after the first n.
LEMMA RestOf ==
  ASSUME NEW S, NEW s \in Seq(S), NEW n \in 0..Len(s)
  PROVE  /\ SubSeq(s, n + 1, Len(s)) \in Seq(S)
         /\ Len(SubSeq(s, n + 1, Len(s))) = Len(s) - n
         /\ \A i \in 1..Len(s) - n : SubSeq(s, n + 1, Len(s))[i] = s[n + i]
<1>1. \A i \in n + 1..Len(s) : s[i] \in S
  BY ElementOfSeq
<1>2. /\ SubSeq(s, n + 1, Len(s)) \in Seq(S)
      /\ Len(SubSeq(s, n + 1, Len(s))) = IF n + 1 <= Len(s) THEN Len(s) - (n + 1) + 1 ELSE 0
      /\ \A i \in 1..Len(s) - (n + 1) + 1 : SubSeq(s, n + 1, Len(s))[i] = s[n + 1 + i - 1]
  BY <1>1, SubSeqProperties
<1> QED
  BY <1>2

\* A function on 1..n is a sequence of length n.
LEMMA FcnSeq ==
  ASSUME NEW S, NEW n \in Nat, NEW f \in [1..n -> S]
  PROVE  f \in Seq(S) /\ Len(f) = n
<1>1. f \in Seq(S)
  OBVIOUS
<1>2. Len(f) \in Nat /\ DOMAIN f = 1..Len(f)
  BY <1>1, LenProperties
<1> QED
  BY <1>1, <1>2

\* A sequence of one element.
LEMMA One ==
  ASSUME NEW S, NEW e \in S
  PROVE  <<e>> \in Seq(S) /\ Len(<<e>>) = 1 /\ <<e>>[1] = e
OBVIOUS

\* The tokens of rows: one for each row.
LEMMA ToksFacts ==
  ASSUME NEW rows \in Seq(Row)
  PROVE  /\ Toks(rows) \in Seq(Tokens)
         /\ Len(Toks(rows)) = Len(rows)
<1>1. Len(rows) \in Nat
  BY LenProperties
<1>2. \A i \in 1..Len(rows) : rows[i] \in Row
  BY ElementOfSeq
<1>3. \A i \in 1..Len(rows) : rows[i].tok \in Tokens
  BY <1>2 DEF Row
<1>4. Toks(rows) \in [1..Len(rows) -> Tokens]
  BY <1>3 DEF Toks
<1> QED
  BY <1>1, <1>4, FcnSeq

\* The rows of the tokens a prompt begins with are the rows of the prompt.
LEMMA FaithfulFront ==
  ASSUME NEW toks \in Seq(Tokens), NEW rows \in Seq(Row), Faithful(toks, rows),
         NEW p \in Seq(Tokens), NEW n \in 0..Len(rows), n <= Len(p),
         \A i \in 1..n : toks[i] = p[i]
  PROVE  Faithful(SubSeq(p, 1, n), SubSeq(rows, 1, n))
<1>1. /\ n \in 0..Len(p)
      /\ \A i \in 1..n : rows[i].tok = p[i] /\ ~rows[i].img
  BY LenProperties DEF Faithful
<1>2. /\ SubSeq(p, 1, n) \in Seq(Tokens)
      /\ Len(SubSeq(p, 1, n)) = n
      /\ \A i \in 1..n : SubSeq(p, 1, n)[i] = p[i]
  BY <1>1, FrontOf
<1>3. /\ SubSeq(rows, 1, n) \in Seq(Row)
      /\ Len(SubSeq(rows, 1, n)) = n
      /\ \A i \in 1..n : SubSeq(rows, 1, n)[i] = rows[i]
  BY FrontOf
<1> QED
  BY <1>1, <1>2, <1>3 DEF Faithful

\* Tokens and rows that match go on matching when matching ones follow.
LEMMA FaithfulConcat ==
  ASSUME NEW t1 \in Seq(Tokens), NEW r1 \in Seq(Row), Faithful(t1, r1),
         NEW t2 \in Seq(Tokens), NEW r2 \in Seq(Row), Faithful(t2, r2)
  PROVE  Faithful(t1 \o t2, r1 \o r2)
<1>1. /\ Len(t1 \o t2) = Len(t1) + Len(t2)
      /\ \A i \in 1..Len(t1) + Len(t2) :
            (t1 \o t2)[i] = IF i <= Len(t1) THEN t1[i] ELSE t2[i - Len(t1)]
  BY ConcatProperties
<1>2. /\ Len(r1 \o r2) = Len(r1) + Len(r2)
      /\ \A i \in 1..Len(r1) + Len(r2) :
            (r1 \o r2)[i] = IF i <= Len(r1) THEN r1[i] ELSE r2[i - Len(r1)]
  BY ConcatProperties
<1>3. /\ Len(t1) = Len(r1) /\ Len(t2) = Len(r2)
      /\ \A i \in 1..Len(r1) : r1[i].tok = t1[i] /\ ~r1[i].img
      /\ \A i \in 1..Len(r2) : r2[i].tok = t2[i] /\ ~r2[i].img
  BY DEF Faithful
<1>4. Len(r1) \in Nat /\ Len(r2) \in Nat
  BY LenProperties
<1>5. ASSUME NEW i \in 1..Len(r1) + Len(r2)
      PROVE  (r1 \o r2)[i].tok = (t1 \o t2)[i] /\ ~(r1 \o r2)[i].img
  <2>1. CASE i <= Len(r1)
    <3>1. i \in 1..Len(r1)
      BY <2>1, <1>4
    <3>2. (r1 \o r2)[i] = r1[i] /\ (t1 \o t2)[i] = t1[i]
      BY <1>1, <1>2, <1>3, <2>1
    <3> QED
      BY <3>1, <3>2, <1>3
  <2>2. CASE ~(i <= Len(r1))
    <3>1. i - Len(r1) \in 1..Len(r2)
      BY <2>2, <1>4
    <3>2. (r1 \o r2)[i] = r2[i - Len(r1)] /\ (t1 \o t2)[i] = t2[i - Len(r1)]
      BY <1>1, <1>2, <1>3, <2>2
    <3> QED
      BY <3>1, <3>2, <1>3
  <2> QED
    BY <2>1, <2>2
<1> QED
  BY <1>1, <1>2, <1>3, <1>5 DEF Faithful

\* Placeholders are counted by a number.
LEMMA PlaceholdersNat ==
  ASSUME NEW ts, NEW n \in Nat
  PROVE  Placeholders(ts, n) \in Nat
<1>1. IsFiniteSet(1..n)
  BY FS_Interval
<1>2. IsFiniteSet({i \in 1..n : ts[i] = Img})
  BY <1>1, FS_Subset
<1> QED
  BY <1>2, FS_CardinalityType DEF Placeholders

\* So are the vectors left.
LEMMA UnreadNat ==
  ASSUME NEW ts \in Seq(Tokens), unread \in Nat
  PROVE  UnreadAfter(ts) \in Nat
<1>1. Placeholders(ts, Len(ts)) \in Nat
  BY PlaceholdersNat, LenProperties
<1>2. /\ Lesser(unread, Placeholders(ts, Len(ts))) \in Nat
      /\ Lesser(unread, Placeholders(ts, Len(ts))) <= unread
  BY <1>1, LesserNat
<1> QED
  BY <1>2 DEF UnreadAfter

\* Computing tokens makes one row for each, of an image only at the placeholder.
LEMMA ComputeFacts ==
  ASSUME NEW ts \in Seq(Tokens), NEW kind \in Kinds, weights \in Weights
  PROVE  /\ Compute(ts, kind) \in Seq(Row)
         /\ Len(Compute(ts, kind)) = Len(ts)
         /\ \A i \in 1..Len(ts) : Compute(ts, kind)[i].tok = ts[i]
         /\ \A i \in 1..Len(ts) : ts[i] # Img => ~Compute(ts, kind)[i].img
<1>1. /\ Len(ts) \in Nat
      /\ \A i \in 1..Len(ts) : ts[i] \in Tokens
  BY LenProperties, ElementOfSeq
<1>2. Compute(ts, kind) \in [1..Len(ts) -> Row]
  BY <1>1 DEF Compute, Row
<1>3. Compute(ts, kind) \in Seq(Row) /\ Len(Compute(ts, kind)) = Len(ts)
  BY <1>1, <1>2, FcnSeq
<1>4. \A i \in 1..Len(ts) :
        Compute(ts, kind)[i].tok = ts[i] /\ (ts[i] # Img => ~Compute(ts, kind)[i].img)
  BY DEF Compute
<1> QED
  BY <1>3, <1>4

\* A step over ordinary tokens computes the rows of these tokens.
LEMMA ComputeFaithful ==
  ASSUME NEW ts \in Seq(Tokens), NEW kind \in Kinds, weights \in Weights,
         \A i \in 1..Len(ts) : ts[i] # Img
  PROVE  Faithful(ts, Compute(ts, kind))
BY ComputeFacts DEF Faithful

\* What the model draws is a token, and not the placeholder.
LEMMA DrawnSpoken ==
  ASSUME PlaceholderReserved, NEW rows \in Seq(Row), NEW t \in Draws(Toks(rows))
  PROVE  t \in Tokens /\ t # Img
<1>1. Toks(rows) \in Seq(Tokens)
  BY ToksFacts
<1>2. t \in Tokens /\ CanDraw(Toks(rows), t)
  BY DEF Draws
<1> QED
  BY <1>1, <1>2 DEF PlaceholderReserved

\* The rows of the cache without the step in flight.
LEMMA SettledFacts ==
  ASSUME TypeOK, InFlight
  PROVE  /\ Settled \in Seq(Row)
         /\ Len(Settled) = IF pipe THEN Len(cache) - 1 ELSE Len(cache)
<1>1. cache \in Seq(Row) /\ pipe \in BOOLEAN /\ Len(cache) \in Nat
  BY LenProperties DEF TypeOK
<1>2. CASE pipe
  <2>1. Len(cache) - 1 \in 0..Len(cache)
    BY <1>1, <1>2 DEF InFlight
  <2> QED
    BY <1>1, <1>2, <2>1, FrontOf DEF Settled
<1>3. CASE ~pipe
  BY <1>1, <1>3 DEF Settled
<1> QED
  BY <1>1, <1>2, <1>3
-----------------------------------------------------------------------------
(* Reuse gives a prompt nothing but its own rows.                          *)

\* What a prompt reuses of the live cache are the rows of its own first tokens.
LEMMA ReuseSound ==
  ASSUME TypeOK, InFlight, CacheFaithful,
         NEW p \in Seq(Tokens), p # <<>>, NEW n \in Reusable(p)
  PROVE  /\ n \in 0..Len(p) - 1
         /\ n \in 0..Len(Settled)
         /\ Faithful(SubSeq(p, 1, n), SubSeq(Settled, 1, n))
<1>1. Settled \in Seq(Row) /\ Len(Settled) \in Nat
  BY SettledFacts, LenProperties
<1>2. Len(p) \in Nat \ {0}
  BY EmptySeq
<1>3. CASE n = 0
  <2>1. n \in 0..Len(p) /\ n \in 0..Len(Settled)
    BY <1>1, <1>2, <1>3
  <2>2. Len(SubSeq(p, 1, n)) = 0
    BY <1>3, <2>1, FrontOf
  <2>3. SubSeq(Settled, 1, n) \in Seq(Row) /\ Len(SubSeq(Settled, 1, n)) = 0
    BY <1>1, <1>3, <2>1, FrontOf
  <2> QED
    BY <1>2, <1>3, <2>1, <2>2, <2>3 DEF Faithful
<1>4. CASE n # 0
  <2> DEFINE held == Lesser(Cached, Len(kvTokens))
             room == Lesser(Len(p) - 1, Len(Settled))
             limit == Lesser(held, room)
  <2>1. kvValid /\ n \in CommonPrefix(kvTokens, p, limit)
    BY <1>2, <1>4 DEF Reusable
  <2>2. kvTokens \in Seq(Tokens) /\ Len(kvTokens) \in Nat /\ Cached \in Nat
    BY LenProperties DEF TypeOK, Cached
  <2>3. held \in Nat /\ held <= Len(kvTokens)
    BY <2>2, LesserNat
  <2>4. room \in Nat /\ room <= Len(p) - 1 /\ room <= Len(Settled)
    <3>1. Len(p) - 1 \in Nat
      BY <1>2
    <3> QED
      BY <1>1, <3>1, LesserNat
  <2> HIDE DEF held, room
  <2>5. /\ limit \in Nat
        /\ limit <= Len(kvTokens) /\ limit <= Len(p) - 1 /\ limit <= Len(Settled)
    <3>1. limit \in Nat /\ limit <= held /\ limit <= room
      BY <2>3, <2>4, LesserNat
    <3> QED
      BY <1>1, <1>2, <2>2, <2>3, <2>4, <3>1
  <2> HIDE DEF limit
  <2>6. n \in 0..limit /\ \A i \in 1..n : kvTokens[i] = p[i]
    BY <2>1 DEF CommonPrefix
  <2>7. n \in 0..Len(kvTokens) /\ n \in 0..Len(p) - 1 /\ n \in 0..Len(p) /\ n \in 0..Len(Settled)
    BY <1>1, <1>2, <2>2, <2>5, <2>6
  <2>8. Faithful(kvTokens, Settled)
    BY <2>1 DEF CacheFaithful
  <2>9. Faithful(SubSeq(p, 1, n), SubSeq(Settled, 1, n))
    BY <1>1, <2>2, <2>6, <2>7, <2>8, FaithfulFront
  <2> QED
    BY <2>7, <2>9
<1> QED
  BY <1>3, <1>4

\* An entry of another age is an entry.
LEMMA AgedEntry ==
  ASSUME NEW e \in Entry, Faithful(e.toks, e.rows), NEW a \in Nat
  PROVE  /\ [e EXCEPT !.age = a] \in Entry
         /\ Faithful([e EXCEPT !.age = a].toks, [e EXCEPT !.age = a].rows)
         /\ [e EXCEPT !.age = a].age = a
BY DEF Entry

\* The image of a finite set is finite.
LEMMA FiniteImage ==
  ASSUME NEW S, IsFiniteSet(S), NEW f, f = [x \in S |-> f[x]]
  PROVE  IsFiniteSet({f[x] : x \in S})
<1>1. f \in Surjection(S, {f[x] : x \in S})
  BY DEF Surjection
<1> QED
  BY <1>1, FS_Surjection

\* Using an entry leaves a store that may be restored from.
LEMMA UseLastSound ==
  ASSUME NEW S, Restorable(S), NEW e \in Entry, Faithful(e.toks, e.rows)
  PROVE  Restorable(UseLast(S, e))
<1> DEFINE Others == S \ {e}
           Rank(f) == Cardinality({g \in Others : g.age < f.age})
           ranked == [f \in Others |-> [f EXCEPT !.age = Rank(f)]]
           aged == [f \in Others |-> [ranked[f] EXCEPT !.age = @ + 1]]
           front == [e EXCEPT !.age = 0]
<1>1. UseLast(S, e) = {front} \cup {aged[f] : f \in Others}
  <2>1. Ranked(Others) = {ranked[f] : f \in Others}
    BY DEF Ranked
  <2>2. {[f EXCEPT !.age = @ + 1] : f \in {ranked[g] : g \in Others}} = {aged[f] : f \in Others}
    OBVIOUS
  <2> QED
    BY <2>1, <2>2 DEF UseLast
<1>2. IsFiniteSet(Others)
  BY FS_Subset DEF Restorable
<1>3. ASSUME NEW f \in Others
      PROVE  aged[f] \in Entry /\ Faithful(aged[f].toks, aged[f].rows)
  <2>1. Rank(f) \in Nat
    <3>1. IsFiniteSet({g \in Others : g.age < f.age})
      BY <1>2, FS_Subset
    <3> QED
      BY <3>1, FS_CardinalityType
  <2>2. f \in Entry /\ Faithful(f.toks, f.rows)
    BY DEF Restorable
  <2> HIDE DEF Rank, Others
  <2>3. /\ ranked[f] \in Entry
        /\ Faithful(ranked[f].toks, ranked[f].rows)
        /\ ranked[f].age = Rank(f)
    BY <2>1, <2>2, AgedEntry
  <2> HIDE DEF ranked
  <2>4. aged[f] = [ranked[f] EXCEPT !.age = Rank(f) + 1]
    BY <2>3
  <2> HIDE DEF aged
  <2>5. Rank(f) + 1 \in Nat
    BY <2>1
  <2> QED
    BY <2>3, <2>4, <2>5, AgedEntry
<1>4. front \in Entry /\ Faithful(front.toks, front.rows)
  BY AgedEntry
<1>5. IsFiniteSet({aged[f] : f \in Others})
  <2> HIDE DEF Others, ranked
  <2>1. aged = [x \in Others |-> aged[x]]
    OBVIOUS
  <2> HIDE DEF aged
  <2> QED
    BY <1>2, <2>1, FiniteImage
<1> HIDE DEF aged, ranked, front, Others
<1>6. IsFiniteSet({front})
  BY FS_Singleton
<1>7. IsFiniteSet(UseLast(S, e))
  BY <1>1, <1>5, <1>6, FS_Union
<1> QED
  BY <1>1, <1>3, <1>4, <1>7 DEF Restorable

\* So does a trim.
LEMMA TrimmedSound ==
  ASSUME NEW S, Restorable(S), NEW limit
  PROVE  Restorable(Trimmed(S, limit))
<1>1. Trimmed(S, limit) \subseteq S
  BY DEF Trimmed
<1> QED
  BY <1>1, FS_Subset DEF Restorable

\* So does saving the live conversation.
LEMMA SaveSound ==
  ASSUME TypeOK, InFlight, CacheFaithful, Restorable(store),
         NEW reuse, NEW kept \in SaveLive(reuse)
  PROVE  Restorable(kept)
<1> DEFINE n == Lesser(kvPrefilled, Lesser(Len(kvTokens), Len(Settled)))
           live == [toks |-> SubSeq(kvTokens, 1, n), rows |-> SubSeq(Settled, 1, n), age |-> 0]
           covering == {e \in store : IsPrefix(live.toks, e.toks)}
           others == {e \in store : ~IsPrefix(e.toks, live.toks)}
           worthIt == kvValid /\ n >= MinTokens /\ n >= reuse + MinTokens
<1>1. \/ kept = store
      \/ \E e \in covering : kept = UseLast(store, e)
      \/ worthIt /\ kept = Trimmed(UseLast(others, live), budget)
  <2> HIDE DEF n, live, covering, others, worthIt
  <2>1. SaveLive(reuse) =
          CASE ~worthIt -> {store}
            [] worthIt /\ covering # {} -> {UseLast(store, e) : e \in covering}
            [] worthIt /\ covering = {} /\ n > budget -> {store}
            [] OTHER -> {Trimmed(UseLast(others, live), budget)}
    BY DEF SaveLive, n, live, covering, others, worthIt
  <2> QED
    BY <2>1
<1>2. ASSUME NEW e \in covering
      PROVE  Restorable(UseLast(store, e))
  BY UseLastSound DEF Restorable
<1>3. ASSUME worthIt
      PROVE  Restorable(Trimmed(UseLast(others, live), budget))
  <2>1. Settled \in Seq(Row) /\ Len(Settled) \in Nat
    BY SettledFacts, LenProperties
  <2>2. kvTokens \in Seq(Tokens) /\ Len(kvTokens) \in Nat /\ kvPrefilled \in Nat
    BY LenProperties DEF TypeOK
  <2>3. n \in 0..Len(Settled) /\ n \in 0..Len(kvTokens)
    BY <2>1, <2>2 DEF Lesser
  <2>4. Faithful(kvTokens, Settled)
    BY <1>3 DEF CacheFaithful
  <2> HIDE DEF n
  <2>5. Faithful(SubSeq(kvTokens, 1, n), SubSeq(Settled, 1, n))
    BY <2>1, <2>2, <2>3, <2>4, FaithfulFront
  <2>6. SubSeq(kvTokens, 1, n) \in Seq(Tokens) /\ SubSeq(Settled, 1, n) \in Seq(Row)
    BY <2>1, <2>2, <2>3, FrontOf
  <2>7. live \in Entry /\ Faithful(live.toks, live.rows)
    BY <2>5, <2>6 DEF Entry
  <2>8. Restorable(others)
    BY FS_Subset DEF Restorable
  <2> HIDE DEF live, others
  <2> QED
    BY <2>7, <2>8, UseLastSound, TrimmedSound
<1> HIDE DEF covering, others, live, worthIt
<1> QED
  BY <1>1, <1>2, <1>3

\* A match found in the store gives a prompt the rows of its own first tokens.
LEMMA FoundSound ==
  ASSUME NEW S, Restorable(S), NEW p \in Seq(Tokens), p # <<>>,
         NEW reuse, NEW m \in Found(S, p, reuse)
  PROVE  /\ m.entry \in Entry
         /\ Faithful(m.entry.toks, m.entry.rows)
         /\ m.len \in 0..Len(p) - 1
         /\ m.len \in 0..Len(m.entry.rows)
         /\ Faithful(SubSeq(p, 1, m.len), SubSeq(m.entry.rows, 1, m.len))
<1>1. m \in Matches(S, p)
  BY DEF Found
<1>2. PICK e \in S : \E n \in CommonPrefix(e.toks, p, Lesser(Len(e.toks), Len(p) - 1)) :
        m = [entry |-> e, len |-> n]
  BY <1>1 DEF Matches
<1> DEFINE n == m.len
<1>3. e \in Entry /\ Faithful(e.toks, e.rows)
  BY DEF Restorable
<1>4. e.toks \in Seq(Tokens) /\ e.rows \in Seq(Row)
  BY <1>3 DEF Entry
<1>5. Len(e.toks) = Len(e.rows) /\ Len(e.toks) \in Nat /\ Len(p) - 1 \in Nat
  BY <1>3, <1>4, LenProperties, EmptySeq DEF Faithful
<1>6. /\ n \in 0..Len(e.rows) /\ n \in 0..Len(p) - 1
      /\ \A i \in 1..n : e.toks[i] = p[i]
  BY <1>2, <1>5 DEF CommonPrefix, Lesser
<1>7. Faithful(SubSeq(p, 1, n), SubSeq(e.rows, 1, n))
  BY <1>3, <1>4, <1>5, <1>6, FaithfulFront
<1> QED
  BY <1>2, <1>3, <1>6, <1>7
-----------------------------------------------------------------------------
(* Every call preserves the invariant.                                     *)

\* A batch without placeholders makes rows of its tokens.
LEMMA BatchFaithful ==
  ASSUME TypeOK, NEW ts \in Seq(Tokens), \A i \in 1..Len(ts) : ts[i] # Img
  PROVE  Batch(ts) \in Seq(Row) /\ Faithful(ts, Batch(ts))
<1>1. weights \in Weights
  BY DEF TypeOK
<1>2. PICK kind \in Kinds : Batch(ts) = Compute(ts, kind)
  BY DEF Batch, Kinds
<1> QED
  BY <1>1, <1>2, ComputeFacts, ComputeFaithful

\* The rows reused followed by the rows computed are those of the prompt.
LEMMA FilledFaithful ==
  ASSUME TypeOK, NEW p \in Seq(Tokens), \A i \in 1..Len(p) : p[i] # Img,
         NEW rows \in Seq(Row), NEW n \in 0..Len(p), n <= Len(rows),
         Faithful(SubSeq(p, 1, n), SubSeq(rows, 1, n))
  PROVE  LET filled == SubSeq(rows, 1, n) \o Batch(SubSeq(p, n + 1, Len(p)))
         IN filled \in Seq(Row) /\ Faithful(p, filled)
<1> DEFINE head == SubSeq(p, 1, n)
           tail == SubSeq(p, n + 1, Len(p))
           kept == SubSeq(rows, 1, n)
<1>1. Len(p) \in Nat /\ Len(rows) \in Nat /\ n \in 0..Len(rows)
  BY LenProperties
<1>2. head \in Seq(Tokens) /\ kept \in Seq(Row)
  BY <1>1, FrontOf
<1>3. /\ tail \in Seq(Tokens)
      /\ Len(tail) = Len(p) - n
      /\ \A i \in 1..Len(p) - n : tail[i] = p[n + i]
  BY RestOf
<1>4. head \o tail = p
  <2>1. /\ 1 \in 1..Len(p) + 1
        /\ n \in (1 - 1)..Len(p)
        /\ Len(p) \in n..Len(p)
    BY <1>1
  <2>2. head \o tail = SubSeq(p, 1, Len(p))
    BY <2>1, ConcatAdjacentSubSeq
  <2> QED
    BY <2>2, SubSeqFull
<1>5. \A i \in 1..Len(tail) : tail[i] # Img
  BY <1>1, <1>3
<1> HIDE DEF head, tail, kept
<1>6. Batch(tail) \in Seq(Row) /\ Faithful(tail, Batch(tail))
  BY <1>3, <1>5, BatchFaithful
<1>7. Faithful(head, kept)
  BY DEF head, kept
<1>8. kept \o Batch(tail) \in Seq(Row)
  BY <1>2, <1>6, ConcatProperties
<1>9. Faithful(head \o tail, kept \o Batch(tail))
  BY <1>2, <1>3, <1>6, <1>7, FaithfulConcat
<1> QED
  BY <1>4, <1>8, <1>9 DEF head, tail, kept

\* With nothing in flight the rows in the cache are the ones that count.
LEMMA Drained ==
  ASSUME pipe' = FALSE
  PROVE  InFlight' /\ Settled' = cache'
BY DEF InFlight, Settled

\* Copies that do not change keep what they have.
LEMMA CopiesKept ==
  ASSUME Copies, UNCHANGED <<store, image, disk, loading>>
  PROVE  Copies'
BY DEF Copies, Restorable, Saved

\* TypeOK by parts: the copies have theirs from Copies.
TypeForward ==
  /\ cache \in Seq(Row) /\ unread \in Nat /\ overridden \in BOOLEAN /\ weights \in Weights
TypeKv == kvTokens \in Seq(Tokens) /\ kvValid \in BOOLEAN /\ kvPrefilled \in Nat
TypeGen ==
  /\ hasSession \in BOOLEAN /\ last \in Tokens
  /\ history \in Seq(Tokens) /\ queue \in Seq(Tokens)
TypeSettings == mode \in 0..2 /\ maxDraft \in Nat /\ budget \in Nat
TypeCall == pipe \in BOOLEAN /\ cancel \in BOOLEAN /\ text \in Seq(Tokens) /\ outcome \in Outcomes

\* TypeOK gives its parts.
LEMMA TypeParts ==
  ASSUME TypeOK
  PROVE  TypeForward /\ TypeKv /\ TypeGen /\ TypeSettings /\ TypeCall
BY DEF TypeOK, TypeForward, TypeKv, TypeGen, TypeSettings, TypeCall

\* The parts and the copies give TypeOK.
LEMMA TypeWhole ==
  ASSUME Copies', TypeForward', TypeKv', TypeGen', TypeSettings', TypeCall'
  PROVE  TypeOK'
<1>1. store' \subseteq Entry /\ loading' \subseteq Image /\ image' \subseteq Image /\ disk' \subseteq Image
  BY DEF Copies, Restorable, Saved
<1>2. (cache \in Seq(Row) /\ unread \in Nat /\ overridden \in BOOLEAN /\ weights \in Weights)'
  BY DEF TypeForward
<1>3. (kvTokens \in Seq(Tokens) /\ kvValid \in BOOLEAN /\ kvPrefilled \in Nat)'
  BY DEF TypeKv
<1>4. (/\ hasSession \in BOOLEAN /\ last \in Tokens
       /\ history \in Seq(Tokens) /\ queue \in Seq(Tokens))'
  BY DEF TypeGen
<1>5. (mode \in 0..2 /\ maxDraft \in Nat /\ budget \in Nat)'
  BY DEF TypeSettings
<1>6. (pipe \in BOOLEAN /\ cancel \in BOOLEAN /\ text \in Seq(Tokens) /\ outcome \in Outcomes)'
  BY DEF TypeCall
<1> QED
  BY <1>1, <1>2, <1>3, <1>4, <1>5, <1>6 DEF TypeOK

\* What does not change keeps its type.
LEMMA TypeKept ==
  ASSUME TypeOK
  PROVE  /\ UNCHANGED forward => TypeForward'
         /\ UNCHANGED kv => TypeKv'
         /\ Invalidate => TypeKv'
         /\ UNCHANGED gen => TypeGen'
         /\ UNCHANGED settings => TypeSettings'
<1>1. TypeForward /\ TypeKv /\ TypeGen /\ TypeSettings
  BY TypeParts
<1>2. UNCHANGED forward => TypeForward'
  BY <1>1 DEF forward, TypeForward
<1>3. UNCHANGED kv => TypeKv'
  BY <1>1 DEF kv, TypeKv
<1>4. ASSUME Invalidate
      PROVE  TypeKv'
  <2>1. kvTokens' \in Seq(Tokens)
    BY <1>4, EmptySeq DEF Invalidate
  <2>2. kvValid' \in BOOLEAN /\ kvPrefilled' \in Nat
    BY <1>4 DEF Invalidate
  <2> QED
    BY <2>1, <2>2 DEF TypeKv
<1>5. UNCHANGED gen => TypeGen'
  BY <1>1 DEF gen, TypeGen
<1>6. UNCHANGED settings => TypeSettings'
  BY <1>1 DEF settings, TypeSettings
<1> QED
  BY <1>2, <1>3, <1>4, <1>5, <1>6

\* A generation that begins has a drawn token to consume.
LEMMA BeginFacts ==
  ASSUME PlaceholderReserved, NEW p \in Seq(Tokens), NEW rows \in Seq(Row), Begin(p, rows)
  PROVE  TypeGen' /\ Spoken' /\ text' \in Seq(Tokens) /\ outcome' \in Outcomes
<1>1. PICK t \in Draws(Toks(rows)) :
        /\ hasSession' = TRUE /\ last' = t /\ history' = p /\ queue' = <<>>
        /\ text' = Append(p, t) /\ outcome' = "ok"
  BY DEF Begin
<1>2. t \in Tokens /\ t # Img
  BY <1>1, DrawnSpoken
<1>3. Append(p, t) \in Seq(Tokens) /\ <<>> \in Seq(Tokens)
  BY <1>2, EmptySeq
<1>4. TypeGen'
  BY <1>1, <1>2, <1>3 DEF TypeGen
<1>5. Spoken'
  BY <1>1, <1>2 DEF Spoken
<1> QED
  BY <1>1, <1>3, <1>4, <1>5 DEF Outcomes

\* A call that is interrupted leaves values of their kinds.
LEMMA InterruptedFacts ==
  ASSUME TypeOK, NEW ts \in Seq(Tokens), Interrupted(ts)
  PROVE  unread' \in Nat /\ cancel' \in BOOLEAN /\ outcome' \in Outcomes
<1>1. unread \in Nat /\ UnreadAfter(ts) \in Nat
  BY UnreadNat DEF TypeOK
<1> QED
  BY <1>1 DEF Interrupted, Outcomes

\* A call that drops the session leaves nothing to reuse.
LEMMA Dropped ==
  ASSUME Invalidate
  PROVE  CacheFaithful'
BY DEF Invalidate, CacheFaithful

\* A prefill over rows that match the prompt keeps the invariant.
LEMMA PrefillKeeps ==
  ASSUME PlaceholderReserved, IInv,
         NEW p \in Seq(Tokens), \A i \in 1..Len(p) : p[i] # Img,
         NEW rows \in Seq(Row), NEW n \in 0..Len(p), n <= Len(rows),
         Faithful(SubSeq(p, 1, n), SubSeq(rows, 1, n)),
         NEW kept, Restorable(kept),
         Prefill(p, rows, n, kept)
  PROVE  IInv'
<1> DEFINE tail == SubSeq(p, n + 1, Len(p))
           filled == SubSeq(rows, 1, n) \o Batch(tail)
<1>1. TypeOK
  BY DEF IInv
<1>2. filled \in Seq(Row) /\ Faithful(p, filled)
  BY <1>1, FilledFaithful
<1>3. /\ store' = kept /\ pipe' = FALSE
      /\ UNCHANGED <<overridden, weights, settings, loading, files>>
  BY DEF Prefill
<1>4. InFlight' /\ Settled' = cache'
  BY <1>3, Drained
<1>5. Copies'
  BY <1>3 DEF IInv, Copies, Restorable, Saved, files
<1>6. tail \in Seq(Tokens) /\ UnreadAfter(tail) \in Nat /\ Len(p) \in Nat
  BY <1>1, RestOf, UnreadNat, LenProperties DEF TypeOK
<1>7. CASE /\ cache' = filled
           /\ unread' = UnreadAfter(tail)
           /\ cancel' = FALSE
           /\ kvTokens' = p
           /\ kvPrefilled' = Len(p)
           /\ kvValid' = TRUE
           /\ Begin(p, filled)
  <2> HIDE DEF filled, tail
  <2>1. TypeGen' /\ Spoken' /\ text' \in Seq(Tokens) /\ outcome' \in Outcomes
    BY <1>2, <1>7, BeginFacts
  <2>2. TypeOK'
    <3>1. TypeForward' /\ TypeSettings'
      BY <1>1, <1>2, <1>3, <1>6, <1>7, TypeParts, TypeKept DEF TypeForward
    <3>2. TypeKv'
      BY <1>6, <1>7 DEF TypeKv
    <3>3. TypeCall'
      BY <1>3, <1>7, <2>1 DEF TypeCall
    <3> QED
      BY <1>5, <2>1, <3>1, <3>2, <3>3, TypeWhole
  <2>3. CacheFaithful'
    BY <1>2, <1>4, <1>7 DEF CacheFaithful
  <2> QED
    BY <1>4, <1>5, <2>1, <2>2, <2>3 DEF IInv
<1>8. CASE /\ Interrupted(tail)
           /\ cache' = <<>>
           /\ Invalidate
           /\ UNCHANGED <<gen, text>>
  <2> HIDE DEF filled, tail
  <2>1. unread' \in Nat /\ cancel' \in BOOLEAN /\ outcome' \in Outcomes
    BY <1>1, <1>6, <1>8, InterruptedFacts
  <2>2. TypeOK'
    <3>1. TypeForward'
      BY <1>1, <1>3, <1>8, <2>1, TypeParts, EmptySeq DEF TypeForward
    <3>2. TypeKv' /\ TypeGen' /\ TypeSettings'
      BY <1>1, <1>3, <1>8, TypeKept
    <3>3. TypeCall'
      BY <1>1, <1>3, <1>8, <2>1, TypeParts DEF TypeCall
    <3> QED
      BY <1>5, <3>1, <3>2, <3>3, TypeWhole
  <2>3. CacheFaithful'
    BY <1>8, Dropped
  <2>4. Spoken'
    BY <1>8 DEF IInv, Spoken, gen
  <2> QED
    BY <1>4, <1>5, <2>2, <2>3, <2>4 DEF IInv
<1> QED
  BY <1>7, <1>8 DEF Prefill

\* engine_predict keeps it.
LEMMA PredictKeeps ==
  ASSUME PlaceholderReserved, IInv, NEW p \in Prompts, Predict(p)
  PROVE  IInv'
<1>1. p \in Seq(Tokens) /\ p # <<>> /\ \A i \in 1..Len(p) : p[i] # Img
  BY PromptAssumption DEF PlaceholderReserved
<1>2. TypeOK /\ InFlight /\ CacheFaithful /\ Restorable(store)
  BY DEF IInv, Copies
<1>3. Settled \in Seq(Row) /\ Len(Settled) \in Nat /\ Len(p) \in Nat
  BY <1>1, <1>2, SettledFacts, LenProperties
<1>4. PICK reuse \in Reusable(p) :
        IF budget = 0 \/ mode = 0
        THEN Prefill(p, Settled, reuse, store)
        ELSE \E kept \in SaveLive(reuse) :
               IF Found(kept, p, reuse) = {}
               THEN Prefill(p, Settled, reuse, kept)
               ELSE \E m \in Found(kept, p, reuse) :
                      \/ Prefill(p, m.entry.rows, m.len, UseLast(kept, m.entry))
                      \/ Faults /\ Prefill(p, <<>>, 0, kept)
  BY DEF Predict
<1>5. /\ reuse \in 0..Len(p) /\ reuse <= Len(Settled)
      /\ Faithful(SubSeq(p, 1, reuse), SubSeq(Settled, 1, reuse))
  BY <1>1, <1>2, <1>3, ReuseSound
<1>6. ASSUME NEW kept, Restorable(kept), Prefill(p, Settled, reuse, kept)
      PROVE  IInv'
  BY <1>1, <1>3, <1>5, <1>6, PrefillKeeps
<1>7. ASSUME NEW kept \in SaveLive(reuse), NEW m \in Found(kept, p, reuse),
             \/ Prefill(p, m.entry.rows, m.len, UseLast(kept, m.entry))
             \/ Prefill(p, <<>>, 0, kept)
      PROVE  IInv'
  <2>1. Restorable(kept)
    BY <1>2, SaveSound
  <2>2. /\ m.entry \in Entry
        /\ Faithful(m.entry.toks, m.entry.rows)
        /\ m.len \in 0..Len(p) - 1
        /\ m.len \in 0..Len(m.entry.rows)
        /\ Faithful(SubSeq(p, 1, m.len), SubSeq(m.entry.rows, 1, m.len))
    BY <1>1, <2>1, FoundSound
  <2>3. CASE Prefill(p, m.entry.rows, m.len, UseLast(kept, m.entry))
    <3>1. m.entry.rows \in Seq(Row) /\ Len(m.entry.rows) \in Nat
      BY <2>2, LenProperties DEF Entry
    <3>2. m.len \in 0..Len(p) /\ m.len <= Len(m.entry.rows)
      BY <1>3, <2>2, <3>1
    <3>3. Restorable(UseLast(kept, m.entry))
      BY <2>1, <2>2, UseLastSound
    <3> QED
      BY <1>1, <2>2, <2>3, <3>1, <3>2, <3>3, PrefillKeeps
  <2>4. CASE Prefill(p, <<>>, 0, kept)
    <3>1. <<>> \in Seq(Row) /\ Len(<<>>) = 0 /\ 0 \in 0..Len(p) /\ 0 <= Len(<<>>)
      BY <1>3, EmptySeq
    <3>2. SubSeq(p, 1, 0) = <<>> /\ SubSeq(<<>>, 1, 0) = <<>>
      BY SubSeqEmpty
    <3>3. Faithful(SubSeq(p, 1, 0), SubSeq(<<>>, 1, 0))
      BY <3>1, <3>2 DEF Faithful
    <3> QED
      BY <1>1, <2>1, <2>4, <3>1, <3>3, PrefillKeeps
  <2> QED
    BY <1>7, <2>3, <2>4
<1>8. CASE budget = 0 \/ mode = 0
  BY <1>2, <1>4, <1>6, <1>8
<1>9. CASE ~(budget = 0 \/ mode = 0)
  <2>1. PICK kept \in SaveLive(reuse) :
          IF Found(kept, p, reuse) = {}
          THEN Prefill(p, Settled, reuse, kept)
          ELSE \E m \in Found(kept, p, reuse) :
                 \/ Prefill(p, m.entry.rows, m.len, UseLast(kept, m.entry))
                 \/ Faults /\ Prefill(p, <<>>, 0, kept)
    BY <1>4, <1>9
  <2>2. Restorable(kept)
    BY <1>2, SaveSound
  <2> QED
    BY <1>6, <1>7, <2>1, <2>2
<1> QED
  BY <1>8, <1>9

\* engine_predict_vision keeps it.
LEMMA PredictVisionKeeps ==
  ASSUME PlaceholderReserved, IInv, NEW p \in VisionPrompts, PredictVision(p)
  PROVE  IInv'
<1> DEFINE vectors == Placeholders(p, Len(p)) + Surplus
           kindOf == IF Len(p) = 1 THEN "lone" ELSE "prefill"
           rows == [i \in 1..Len(p) |-> [tok |-> p[i], w |-> weights, img |-> p[i] = Img,
                                         kind |-> kindOf]]
           heard == Len(p) > 1 /\ cancel
<1>1. /\ Invalidate /\ overridden' = TRUE /\ pipe' = FALSE
      /\ UNCHANGED <<weights, settings, store, loading, files>>
      /\ \/ /\ cache' = rows /\ unread' = Surplus /\ UNCHANGED cancel
            /\ Begin(p, rows)
         \/ /\ outcome' \in Outcomes
            /\ (cancel' = cancel \/ cancel' = TRUE)
            /\ unread' \in {vectors, Surplus}
            /\ cache' \in {<<>>, rows}
            /\ UNCHANGED <<gen, text>>
  BY DEF PredictVision, Outcomes
<1>2. TypeOK /\ weights \in Weights /\ cancel \in BOOLEAN /\ text \in Seq(Tokens)
  BY DEF IInv, TypeOK
<1>3. p \in Seq(Tokens) /\ Len(p) \in Nat /\ \A i \in 1..Len(p) : p[i] \in Tokens
  BY PromptAssumption, LenProperties, ElementOfSeq
<1>4. rows \in Seq(Row) /\ <<>> \in Seq(Row)
  <2>1. kindOf \in Kinds
    BY DEF Kinds
  <2> HIDE DEF kindOf
  <2>2. rows \in [1..Len(p) -> Row]
    BY <1>2, <1>3, <2>1 DEF Row
  <2> HIDE DEF rows
  <2> QED
    BY <1>3, <2>2, FcnSeq, EmptySeq
<1>5. vectors \in Nat /\ Surplus \in Nat
  BY <1>3, PlaceholdersNat, SettingAssumption
<1> HIDE DEF rows, vectors
<1>6. InFlight' /\ CacheFaithful'
  BY <1>1, Drained, Dropped
<1>7. Copies'
  BY <1>1, CopiesKept DEF IInv, files
<1>8. TypeForward' /\ TypeKv' /\ TypeSettings'
  <2>1. cache' \in Seq(Row) /\ unread' \in Nat
    BY <1>1, <1>4, <1>5
  <2> QED
    BY <1>1, <1>2, <2>1, TypeKept DEF TypeForward
<1>9. TypeGen' /\ Spoken' /\ text' \in Seq(Tokens) /\ outcome' \in Outcomes
  <2>1. CASE Begin(p, rows)
    BY <1>3, <1>4, <2>1, BeginFacts
  <2>2. CASE UNCHANGED <<gen, text>> /\ outcome' \in Outcomes
    BY <1>2, <2>2, TypeKept DEF IInv, Spoken, gen
  <2> QED
    BY <1>1, <2>1, <2>2
<1>10. TypeCall'
  BY <1>1, <1>2, <1>9 DEF TypeCall
<1>11. TypeOK'
  BY <1>7, <1>8, <1>9, <1>10, TypeWhole
<1> QED
  BY <1>6, <1>7, <1>9, <1>11 DEF IInv

\* A stretch of a text holds tokens of the text.
LEMMA Stretch ==
  ASSUME NEW ts \in Seq(Tokens), NEW a \in 1..Len(ts) + 1, NEW b \in 0..Len(ts)
  PROVE  /\ SubSeq(ts, a, b) \in Seq(Tokens)
         /\ \A i \in 1..Len(SubSeq(ts, a, b)) : \E j \in 1..Len(ts) : SubSeq(ts, a, b)[i] = ts[j]
<1>1. Len(ts) \in Nat /\ a \in Int /\ b \in Int
  BY LenProperties
<1>2. \A j \in a..b : ts[j] \in Tokens
  <2>1. \A j \in a..b : j \in 1..Len(ts)
    BY <1>1
  <2> QED
    BY <2>1, ElementOfSeq
<1>3. /\ SubSeq(ts, a, b) \in Seq(Tokens)
      /\ Len(SubSeq(ts, a, b)) = IF a <= b THEN b - a + 1 ELSE 0
      /\ \A i \in 1..b - a + 1 : SubSeq(ts, a, b)[i] = ts[a + i - 1]
  BY <1>1, <1>2, SubSeqProperties
<1>4. ASSUME NEW i \in 1..Len(SubSeq(ts, a, b))
      PROVE  \E j \in 1..Len(ts) : SubSeq(ts, a, b)[i] = ts[j]
  <2>1. i \in 1..b - a + 1 /\ a + i - 1 \in 1..Len(ts)
    BY <1>1, <1>3
  <2> QED
    BY <1>3, <2>1
<1> QED
  BY <1>3, <1>4

\* What is scored is stretched over three batches: rows reused, the rest of
\* the context, the scored tokens. Together they are the rows of the text.
LEMMA ScoredFaithful ==
  ASSUME TypeOK, InFlight, CacheFaithful,
         NEW ts \in Seq(Tokens), \A i \in 1..Len(ts) : ts[i] # Img,
         NEW from \in 1..Len(ts), NEW reuse \in Reusable(SubSeq(ts, 1, from))
  PROVE  LET context == SubSeq(ts, reuse + 1, from - 1)
             scored  == SubSeq(ts, from, Len(ts) - 1)
             filled  == SubSeq(Settled, 1, reuse) \o Batch(context) \o Batch(scored)
         IN /\ context \in Seq(Tokens) /\ scored \in Seq(Tokens)
            /\ filled \in Seq(Row)
            /\ Faithful(SubSeq(ts, 1, Len(ts) - 1), filled)
<1> DEFINE p == SubSeq(ts, 1, from)
           head == SubSeq(ts, 1, reuse)
           kept == SubSeq(Settled, 1, reuse)
           context == SubSeq(ts, reuse + 1, from - 1)
           scored  == SubSeq(ts, from, Len(ts) - 1)
<1>1. Len(ts) \in Nat /\ from \in 0..Len(ts)
  BY LenProperties
<1>2. /\ p \in Seq(Tokens) /\ Len(p) = from
      /\ \A i \in 1..from : p[i] = ts[i]
  BY <1>1, FrontOf
<1>3. p # <<>>
  BY <1>2, EmptySeq
<1>4. /\ reuse \in 0..from - 1 /\ reuse \in 0..Len(Settled)
      /\ Faithful(SubSeq(p, 1, reuse), kept)
  BY <1>2, <1>3, ReuseSound
<1>5. SubSeq(p, 1, reuse) = head
  <2>1. reuse \in 0..Len(p) /\ reuse \in 0..Len(ts)
    BY <1>1, <1>2, <1>4
  <2> HIDE DEF p
  <2>2. /\ SubSeq(p, 1, reuse) \in Seq(Tokens) /\ Len(SubSeq(p, 1, reuse)) = reuse
        /\ \A i \in 1..reuse : SubSeq(p, 1, reuse)[i] = p[i]
    BY <1>2, <2>1, FrontOf
  <2>3. /\ head \in Seq(Tokens) /\ Len(head) = reuse
        /\ \A i \in 1..reuse : head[i] = ts[i]
    BY <2>1, FrontOf
  <2>4. \A i \in 1..reuse : p[i] = ts[i]
    BY <1>2, <2>1
  <2> HIDE DEF head
  <2> QED
    BY <2>2, <2>3, <2>4, SeqEqual
<1>6. /\ context \in Seq(Tokens) /\ \A i \in 1..Len(context) : context[i] # Img
      /\ scored \in Seq(Tokens) /\ \A i \in 1..Len(scored) : scored[i] # Img
  <2>1. /\ reuse + 1 \in 1..Len(ts) + 1 /\ from - 1 \in 0..Len(ts)
        /\ from \in 1..Len(ts) + 1 /\ Len(ts) - 1 \in 0..Len(ts)
    BY <1>1, <1>4
  <2> QED
    BY <2>1, Stretch
<1>7. /\ Batch(context) \in Seq(Row) /\ Faithful(context, Batch(context))
      /\ Batch(scored) \in Seq(Row) /\ Faithful(scored, Batch(scored))
  BY <1>6, BatchFaithful
<1>8. head \o context \o scored = SubSeq(ts, 1, Len(ts) - 1)
  <2>1. head \o context = SubSeq(ts, 1, from - 1)
    <3>1. 1 \in 1..Len(ts) + 1 /\ reuse \in (1 - 1)..Len(ts) /\ from - 1 \in reuse..Len(ts)
      BY <1>1, <1>4
    <3> QED
      BY <3>1, ConcatAdjacentSubSeq
  <2>2. SubSeq(ts, 1, from - 1) \o scored = SubSeq(ts, 1, Len(ts) - 1)
    <3>1. /\ 1 \in 1..Len(ts) + 1 /\ from - 1 \in (1 - 1)..Len(ts)
          /\ Len(ts) - 1 \in (from - 1)..Len(ts) /\ from = (from - 1) + 1
      BY <1>1, <1>4
    <3>2. SubSeq(ts, 1, from - 1) \o SubSeq(ts, (from - 1) + 1, Len(ts) - 1)
            = SubSeq(ts, 1, Len(ts) - 1)
      BY <3>1, ConcatAdjacentSubSeq
    <3> QED
      BY <3>1, <3>2
  <2> QED
    BY <2>1, <2>2
<1>9. Settled \in Seq(Row) /\ kept \in Seq(Row) /\ head \in Seq(Tokens)
  <2>1. reuse \in 0..Len(ts) /\ Settled \in Seq(Row)
    BY <1>1, <1>4, SettledFacts
  <2> QED
    BY <1>4, <2>1, FrontOf
<1> HIDE DEF p, head, kept, context, scored
<1>10. /\ kept \o Batch(context) \in Seq(Row) /\ head \o context \in Seq(Tokens)
       /\ Faithful(head \o context, kept \o Batch(context))
  BY <1>4, <1>5, <1>6, <1>7, <1>9, ConcatProperties, FaithfulConcat
<1>11. /\ kept \o Batch(context) \o Batch(scored) \in Seq(Row)
       /\ Faithful(head \o context \o scored, kept \o Batch(context) \o Batch(scored))
  BY <1>6, <1>7, <1>10, ConcatProperties, FaithfulConcat
<1> QED
  BY <1>6, <1>8, <1>11 DEF kept, context, scored

\* engine_score_tokens keeps it.
LEMMA ScoreKeeps ==
  ASSUME IInv, NEW ts \in Texts, NEW from \in 1..Len(ts), Score(ts, from)
  PROVE  IInv'
<1>1. PICK reuse \in Reusable(SubSeq(ts, 1, from)) :
        LET context == SubSeq(ts, reuse + 1, from - 1)
            scored  == SubSeq(ts, from, Len(ts) - 1)
            filled  == SubSeq(Settled, 1, reuse) \o Batch(context) \o Batch(scored)
        IN /\ hasSession' = FALSE /\ queue' = <<>> /\ pipe' = FALSE
           /\ \/ /\ cache' = filled /\ cancel' = FALSE
                 /\ kvTokens' = SubSeq(ts, 1, Len(ts) - 1)
                 /\ kvPrefilled' = Len(ts) - 1
                 /\ kvValid' = TRUE /\ outcome' = "ok"
                 /\ UNCHANGED unread
              \/ /\ Interrupted(context) \/ Interrupted(scored)
                 /\ cache' = <<>>
                 /\ Invalidate
           /\ UNCHANGED <<overridden, weights, last, history, settings, store, loading, files, text>>
  BY DEF Score
<1> DEFINE context == SubSeq(ts, reuse + 1, from - 1)
           scored  == SubSeq(ts, from, Len(ts) - 1)
           filled  == SubSeq(Settled, 1, reuse) \o Batch(context) \o Batch(scored)
           all == SubSeq(ts, 1, Len(ts) - 1)
<1>2. TypeOK /\ InFlight /\ CacheFaithful /\ Copies
  BY DEF IInv
<1>3. ts \in Seq(Tokens) /\ (\A i \in 1..Len(ts) : ts[i] # Img) /\ Len(ts) \in Nat
  BY PromptAssumption, TextAssumption, LenProperties
<1>4. /\ context \in Seq(Tokens) /\ scored \in Seq(Tokens)
      /\ filled \in Seq(Row) /\ Faithful(all, filled)
  BY <1>2, <1>3, ScoredFaithful
<1>5. all \in Seq(Tokens) /\ Len(ts) - 1 \in Nat
  <2>1. Len(ts) - 1 \in 0..Len(ts)
    BY <1>3
  <2> QED
    BY <1>3, <2>1, FrontOf
<1> HIDE DEF context, scored, filled, all
<1>6. /\ hasSession' = FALSE /\ queue' = <<>> /\ pipe' = FALSE
      /\ \/ /\ cache' = filled /\ cancel' = FALSE
            /\ kvTokens' = all /\ kvPrefilled' = Len(ts) - 1
            /\ kvValid' = TRUE /\ outcome' = "ok"
            /\ UNCHANGED unread
         \/ /\ Interrupted(context) \/ Interrupted(scored)
            /\ cache' = <<>>
            /\ Invalidate
      /\ UNCHANGED <<overridden, weights, last, history, settings, store, loading, files, text>>
  BY <1>1 DEF context, scored, filled, all
<1>7. InFlight' /\ Settled' = cache'
  BY <1>6, Drained
<1>8. Copies'
  BY <1>2, <1>6, CopiesKept DEF files
<1>9. Spoken'
  BY <1>6 DEF Spoken
<1>10. <<>> \in Seq(Tokens) /\ <<>> \in Seq(Row)
  BY EmptySeq
<1>11. TypeGen' /\ TypeSettings'
  BY <1>2, <1>6, <1>10, TypeParts, TypeKept DEF TypeGen
<1>12. CASE /\ cache' = filled /\ cancel' = FALSE
            /\ kvTokens' = all /\ kvPrefilled' = Len(ts) - 1
            /\ kvValid' = TRUE /\ outcome' = "ok"
            /\ UNCHANGED unread
  <2>1. CacheFaithful'
    BY <1>4, <1>7, <1>12 DEF CacheFaithful
  <2>2. TypeForward' /\ TypeKv'
    BY <1>2, <1>4, <1>5, <1>6, <1>12, TypeParts DEF TypeForward, TypeKv
  <2>3. TypeCall'
    BY <1>2, <1>6, <1>12, TypeParts DEF TypeCall, Outcomes
  <2>4. TypeOK'
    BY <1>8, <1>11, <2>2, <2>3, TypeWhole
  <2> QED
    BY <1>7, <1>8, <1>9, <2>1, <2>4 DEF IInv
<1>13. CASE /\ Interrupted(context) \/ Interrupted(scored)
            /\ cache' = <<>>
            /\ Invalidate
  <2>1. unread' \in Nat /\ cancel' \in BOOLEAN /\ outcome' \in Outcomes
    BY <1>2, <1>4, <1>13, InterruptedFacts
  <2>2. CacheFaithful'
    BY <1>13, Dropped
  <2>3. TypeForward' /\ TypeKv'
    BY <1>2, <1>6, <1>10, <1>13, <2>1, TypeParts, TypeKept DEF TypeForward
  <2>4. TypeCall'
    BY <1>2, <1>6, <2>1, TypeParts DEF TypeCall
  <2>5. TypeOK'
    BY <1>8, <1>11, <2>3, <2>4, TypeWhole
  <2> QED
    BY <1>7, <1>8, <1>9, <2>2, <2>5 DEF IInv
<1> QED
  BY <1>6, <1>12, <1>13

\* A call that touches neither the rows nor what is said of them.
LEMMA CacheKept ==
  ASSUME IInv, UNCHANGED <<cache, kvTokens, kvValid, pipe, last>>
  PROVE  CacheFaithful' /\ InFlight'
<1>1. CacheFaithful /\ InFlight
  BY DEF IInv
<1>2. Settled' = Settled
  BY DEF Settled
<1> QED
  BY <1>1, <1>2 DEF CacheFaithful, InFlight

\* Handing out a queued token keeps it.
LEMMA DeliverKeeps ==
  ASSUME IInv, Deliver
  PROVE  IInv'
<1>1. TypeOK /\ Copies
  BY DEF IInv
<1>2. CacheFaithful' /\ InFlight'
  BY CacheKept DEF Deliver, forward, kv
<1>3. Copies'
  BY <1>1, CopiesKept DEF Deliver, files
<1>4. Spoken'
  BY DEF IInv, Spoken, Deliver
<1>5. queue' \in Seq(Tokens) /\ text' \in Seq(Tokens)
  <2>1. queue \in Seq(Tokens) /\ queue # <<>> /\ text \in Seq(Tokens)
    BY <1>1 DEF TypeOK, Deliver
  <2>2. Head(queue) \in Tokens /\ Tail(queue) \in Seq(Tokens)
    BY <2>1, HeadTailProperties
  <2> QED
    BY <2>1, <2>2 DEF Deliver
<1>6. TypeForward' /\ TypeKv' /\ TypeSettings'
  BY <1>1, TypeKept DEF Deliver
<1>7. TypeGen'
  BY <1>1, <1>5, TypeParts DEF TypeGen, Deliver
<1>8. TypeCall'
  BY <1>1, <1>5, TypeParts DEF TypeCall, Deliver, Outcomes
<1>9. TypeOK'
  BY <1>3, <1>6, <1>7, <1>8, TypeWhole
<1> QED
  BY <1>2, <1>3, <1>4, <1>9 DEF IInv

\* One decode step appends one faithful row.
LEMMA GrownByOne ==
  ASSUME TypeOK, NEW base \in Seq(Row), NEW t \in Tokens, NEW kind \in Kinds
  PROVE  LET grown == base \o Compute(<<t>>, kind)
         IN /\ grown \in Seq(Row)
            /\ Len(grown) = Len(base) + 1
            /\ \A i \in 1..Len(base) : grown[i] = base[i]
            /\ grown[Len(base) + 1].tok = t
            /\ t # Img => ~grown[Len(base) + 1].img
<1> DEFINE new == Compute(<<t>>, kind)
           grown == base \o new
<1>1. weights \in Weights /\ Len(base) \in Nat
  BY LenProperties DEF TypeOK
<1>2. <<t>> \in Seq(Tokens) /\ Len(<<t>>) = 1 /\ <<t>>[1] = t
  BY One
<1>3. /\ new \in Seq(Row) /\ Len(new) = 1
      /\ new[1].tok = t /\ (t # Img => ~new[1].img)
  <2>1. /\ new \in Seq(Row) /\ Len(new) = Len(<<t>>)
        /\ \A i \in 1..Len(<<t>>) : new[i].tok = <<t>>[i]
        /\ \A i \in 1..Len(<<t>>) : <<t>>[i] # Img => ~new[i].img
    BY <1>1, <1>2, ComputeFacts
  <2>2. 1 \in 1..Len(<<t>>)
    BY <1>2
  <2> QED
    BY <1>2, <2>1, <2>2
<1> HIDE DEF new
<1>4. /\ grown \in Seq(Row) /\ Len(grown) = Len(base) + 1
      /\ \A i \in 1..Len(base) + 1 : grown[i] = IF i <= Len(base) THEN base[i] ELSE new[i - Len(base)]
  <2>1. /\ grown \in Seq(Row) /\ Len(grown) = Len(base) + Len(new)
        /\ \A i \in 1..Len(base) + Len(new) :
              grown[i] = IF i <= Len(base) THEN base[i] ELSE new[i - Len(base)]
    BY <1>3, ConcatProperties
  <2> QED
    BY <1>3, <2>1
<1> HIDE DEF grown
<1>5. \A i \in 1..Len(base) : grown[i] = base[i]
  BY <1>1, <1>4
<1>6. grown[Len(base) + 1] = new[1]
  BY <1>1, <1>4
<1> QED
  BY <1>3, <1>4, <1>5, <1>6 DEF grown, new

\* One more token for one more row.
LEMMA FaithfulAppend ==
  ASSUME NEW toks \in Seq(Tokens), NEW base \in Seq(Row), Faithful(toks, base),
         NEW t \in Tokens, NEW grown \in Seq(Row), Len(grown) = Len(base) + 1,
         \A i \in 1..Len(base) : grown[i] = base[i],
         grown[Len(base) + 1].tok = t, ~grown[Len(base) + 1].img
  PROVE  toks \o <<t>> \in Seq(Tokens) /\ Faithful(toks \o <<t>>, grown)
<1>1. Len(toks) = Len(base) /\ Len(base) \in Nat
  BY LenProperties DEF Faithful
<1>2. <<t>> \in Seq(Tokens) /\ Len(<<t>>) = 1 /\ <<t>>[1] = t
  BY One
<1>3. /\ toks \o <<t>> \in Seq(Tokens)
      /\ Len(toks \o <<t>>) = Len(toks) + Len(<<t>>)
      /\ \A i \in 1..Len(toks) + Len(<<t>>) :
            (toks \o <<t>>)[i] = IF i <= Len(toks) THEN toks[i] ELSE <<t>>[i - Len(toks)]
  BY <1>2, ConcatProperties
<1>4. ASSUME NEW i \in 1..Len(base) + 1
      PROVE  grown[i].tok = (toks \o <<t>>)[i] /\ ~grown[i].img
  <2>1. CASE i \in 1..Len(base)
    <3>1. grown[i] = base[i] /\ (toks \o <<t>>)[i] = toks[i]
      BY <1>1, <1>2, <1>3, <2>1
    <3> QED
      BY <2>1, <3>1 DEF Faithful
  <2>2. CASE i = Len(base) + 1
    <3>1. (toks \o <<t>>)[i] = <<t>>[1]
      BY <1>1, <1>2, <1>3, <2>2
    <3> QED
      BY <1>2, <2>2, <3>1
  <2> QED
    BY <1>1, <2>1, <2>2
<1> QED
  BY <1>1, <1>2, <1>3, <1>4 DEF Faithful

\* A decode that fails leaves no valid cache.
LEMMA DecodeFailsFacts ==
  ASSUME TypeOK, NEW base \in Seq(Row), NEW t \in Tokens, DecodeFails(base, t)
  PROVE  /\ cache' \in Seq(Row) /\ unread' \in Nat
         /\ TypeKv' /\ CacheFaithful'
         /\ outcome' \in Outcomes
         /\ UNCHANGED <<last, queue, text>>
<1>1. base \o Compute(<<t>>, "decode") \in Seq(Row)
  BY GrownByOne DEF Kinds
<1>2. unread \in Nat /\ UnreadAfter(<<t>>) \in Nat
  <2>1. <<t>> \in Seq(Tokens) /\ unread \in Nat
    BY One DEF TypeOK
  <2> QED
    BY <2>1, UnreadNat
<1>3. TypeKv' /\ CacheFaithful'
  BY TypeKept, Dropped DEF DecodeFails
<1> QED
  BY <1>1, <1>2, <1>3 DEF DecodeFails, Outcomes

\* A decode step keeps it.
LEMMA DecodeOneKeeps ==
  ASSUME PlaceholderReserved, IInv, DecodeOne
  PROVE  IInv'
<1> DEFINE grown == Settled \o Compute(<<last>>, "decode")
<1>1. TypeOK /\ InFlight /\ CacheFaithful /\ Copies /\ Spoken
  BY DEF IInv
<1>2. /\ hasSession /\ pipe' = FALSE
      /\ \/ /\ cache' = grown
            /\ unread' = UnreadAfter(<<last>>)
            /\ history' = Append(history, last)
            /\ Consumed(<<last>>)
            /\ \E t \in Draws(Toks(grown)) : Returned(t)
            /\ UNCHANGED <<kvValid, kvPrefilled>>
         \/ DecodeFails(Settled, last) /\ UNCHANGED history
      /\ UNCHANGED <<overridden, weights, hasSession, settings, store, loading, cancel, files>>
  BY DEF DecodeOne, Decoding, Answering
<1>3. /\ last \in Tokens /\ last # Img /\ unread \in Nat
      /\ history \in Seq(Tokens) /\ kvTokens \in Seq(Tokens) /\ text \in Seq(Tokens)
  BY <1>1, <1>2 DEF TypeOK, Spoken
<1>4. Settled \in Seq(Row) /\ "decode" \in Kinds
  BY <1>1, SettledFacts DEF Kinds
<1>5. /\ grown \in Seq(Row)
      /\ Len(grown) = Len(Settled) + 1
      /\ \A i \in 1..Len(Settled) : grown[i] = Settled[i]
      /\ grown[Len(Settled) + 1].tok = last
      /\ ~grown[Len(Settled) + 1].img
  BY <1>1, <1>3, <1>4, GrownByOne
<1>6. UnreadAfter(<<last>>) \in Nat
  BY <1>3, One, UnreadNat
<1>7. InFlight' /\ Settled' = cache'
  BY <1>2, Drained
<1>8. Copies'
  BY <1>1, <1>2, CopiesKept DEF files
<1>9. TypeSettings'
  BY <1>1, <1>2, TypeKept
<1>10. CASE /\ cache' = grown
            /\ unread' = UnreadAfter(<<last>>)
            /\ history' = Append(history, last)
            /\ Consumed(<<last>>)
            /\ \E t \in Draws(Toks(grown)) : Returned(t)
            /\ UNCHANGED <<kvValid, kvPrefilled>>
  <2> HIDE DEF grown
  <2>1. PICK t \in Draws(Toks(grown)) : Returned(t)
    BY <1>10
  <2>2. t \in Tokens /\ t # Img
    BY <1>5, <2>1, DrawnSpoken
  <2>3. Spoken'
    BY <2>1, <2>2 DEF Spoken, Returned
  <2>4. kvTokens' \in Seq(Tokens) /\ CacheFaithful'
    <3>1. kvTokens \o <<last>> \in Seq(Tokens)
      BY <1>3, One, ConcatProperties
    <3>2. kvValid => Faithful(kvTokens \o <<last>>, grown)
      BY <1>1, <1>3, <1>4, <1>5, FaithfulAppend DEF CacheFaithful
    <3> QED
      BY <1>3, <1>7, <1>10, <3>1, <3>2 DEF Consumed, CacheFaithful
  <2>5. TypeForward' /\ TypeKv'
    BY <1>1, <1>2, <1>5, <1>6, <1>10, <2>4, TypeParts DEF TypeForward, TypeKv
  <2>6. TypeGen'
    BY <1>1, <1>2, <1>3, <1>10, <2>1, <2>2, TypeParts DEF TypeGen, Returned
  <2>7. TypeCall'
    <3>1. text' \in Seq(Tokens) /\ outcome' \in Outcomes
      BY <1>3, <2>1, <2>2 DEF Returned, Outcomes
    <3> QED
      BY <1>1, <1>2, <3>1, TypeParts DEF TypeCall
  <2>8. TypeOK'
    BY <1>8, <1>9, <2>5, <2>6, <2>7, TypeWhole
  <2> QED
    BY <1>7, <1>8, <2>3, <2>4, <2>8 DEF IInv
<1>11. CASE DecodeFails(Settled, last) /\ UNCHANGED history
  <2>1. /\ cache' \in Seq(Row) /\ unread' \in Nat
        /\ TypeKv' /\ CacheFaithful'
        /\ outcome' \in Outcomes
        /\ UNCHANGED <<last, queue, text>>
    BY <1>1, <1>3, <1>4, <1>11, DecodeFailsFacts
  <2>2. Spoken'
    BY <1>1, <1>2, <2>1 DEF Spoken
  <2>3. TypeForward' /\ TypeGen'
    BY <1>1, <1>2, <1>11, <2>1, TypeParts DEF TypeForward, TypeGen
  <2>4. TypeCall'
    BY <1>1, <1>2, <2>1, TypeParts DEF TypeCall
  <2>5. TypeOK'
    BY <1>8, <1>9, <2>1, <2>3, <2>4, TypeWhole
  <2> QED
    BY <1>7, <1>8, <2>1, <2>2, <2>5 DEF IInv
<1> QED
  BY <1>2, <1>10, <1>11

\* Whether the step that consumes last is in flight or is run now, the cache
\* it leaves is the settled one and the row of last.
LEMMA StepInFlight ==
  ASSUME TypeOK, InFlight, last # Img
  PROVE  LET grown == IF pipe THEN cache ELSE cache \o Compute(<<last>>, "decode")
         IN /\ grown \in Seq(Row)
            /\ Len(grown) = Len(Settled) + 1
            /\ \A i \in 1..Len(Settled) : grown[i] = Settled[i]
            /\ grown[Len(Settled) + 1].tok = last
            /\ ~grown[Len(Settled) + 1].img
<1>1. cache \in Seq(Row) /\ last \in Tokens /\ pipe \in BOOLEAN /\ "decode" \in Kinds
  BY DEF TypeOK, Kinds
<1>2. Len(cache) \in Nat
  BY <1>1, LenProperties
<1>3. CASE pipe
  <2>1. Len(cache) > 0 /\ cache[Len(cache)].tok = last /\ ~cache[Len(cache)].img
    BY <1>3 DEF InFlight
  <2>2. Settled = SubSeq(cache, 1, Len(cache) - 1) /\ Len(cache) - 1 \in 0..Len(cache)
    BY <1>2, <1>3, <2>1 DEF Settled
  <2>3. /\ Settled \in Seq(Row) /\ Len(Settled) = Len(cache) - 1
        /\ \A i \in 1..Len(cache) - 1 : Settled[i] = cache[i]
    BY <1>1, <2>2, FrontOf
  <2>4. Len(cache) = Len(Settled) + 1
    BY <1>2, <2>3
  <2> QED
    BY <1>1, <1>3, <2>1, <2>3, <2>4
<1>4. CASE ~pipe
  <2>1. Settled = cache
    BY <1>4 DEF Settled
  <2> QED
    BY <1>1, <1>4, <2>1, GrownByOne
<1> QED
  BY <1>1, <1>3, <1>4

\* A pipelined step keeps it.
LEMMA PipelinedKeeps ==
  ASSUME PlaceholderReserved, IInv, Pipelined
  PROVE  IInv'
<1> DEFINE grown == IF pipe THEN cache ELSE cache \o Compute(<<last>>, "decode")
           Launched(t) == grown \o Compute(<<t>>, "decode")
<1>1. TypeOK /\ InFlight /\ CacheFaithful /\ Copies /\ Spoken
  BY DEF IInv
<1>2. /\ hasSession
      /\ \/ /\ history' = Append(history, last)
            /\ \E t \in Draws(Toks(grown)) :
                 \/ /\ cache' = Launched(t)
                    /\ pipe' = TRUE
                    /\ Consumed(<<last>>)
                    /\ Returned(t)
                    /\ UNCHANGED <<unread, kvValid, kvPrefilled>>
                 \/ DecodeFails(grown, t) /\ pipe' = FALSE
         \/ ~pipe /\ DecodeFails(cache, last) /\ UNCHANGED <<history, pipe>>
      /\ UNCHANGED <<overridden, weights, hasSession, settings, store, loading, cancel, files>>
  BY DEF Pipelined, Decoding, Answering
<1>3. /\ cache \in Seq(Row) /\ last \in Tokens /\ last # Img /\ unread \in Nat
      /\ history \in Seq(Tokens) /\ kvTokens \in Seq(Tokens) /\ text \in Seq(Tokens)
  BY <1>1, <1>2 DEF TypeOK, Spoken
<1>4. Settled \in Seq(Row) /\ "decode" \in Kinds /\ Len(Settled) \in Nat
  BY <1>1, SettledFacts, LenProperties DEF Kinds
<1>5. /\ grown \in Seq(Row)
      /\ Len(grown) = Len(Settled) + 1
      /\ \A i \in 1..Len(Settled) : grown[i] = Settled[i]
      /\ grown[Len(Settled) + 1].tok = last
      /\ ~grown[Len(Settled) + 1].img
  BY <1>1, <1>3, StepInFlight
<1>6. Append(history, last) \in Seq(Tokens)
  BY <1>3
<1>7. Copies'
  BY <1>1, <1>2, CopiesKept DEF files
<1>8. TypeSettings'
  BY <1>1, <1>2, TypeKept
<1> HIDE DEF grown
<1>9. ASSUME NEW t \in Draws(Toks(grown)),
             history' = Append(history, last),
             cache' = Launched(t), pipe' = TRUE, Consumed(<<last>>), Returned(t),
             UNCHANGED <<unread, kvValid, kvPrefilled>>
      PROVE  IInv'
  <2>1. t \in Tokens /\ t # Img
    BY <1>5, DrawnSpoken
  <2>2. /\ Launched(t) \in Seq(Row)
        /\ Len(Launched(t)) = Len(grown) + 1
        /\ \A i \in 1..Len(grown) : Launched(t)[i] = grown[i]
        /\ Launched(t)[Len(grown) + 1].tok = t
        /\ ~Launched(t)[Len(grown) + 1].img
    BY <1>1, <1>4, <1>5, <2>1, GrownByOne
  <2> HIDE DEF Launched
  <2>3. cache' \in Seq(Row) /\ Len(cache') = Len(grown) + 1 /\ Len(grown) \in Nat
    BY <1>5, <1>9, <2>2, LenProperties
  <2>4. InFlight'
    BY <1>9, <2>2, <2>3 DEF InFlight, Returned
  <2>5. Settled' = grown
    <3>1. Settled' = SubSeq(cache', 1, Len(grown)) /\ Len(grown) \in 0..Len(cache')
      BY <1>9, <2>3 DEF Settled
    <3>2. /\ SubSeq(cache', 1, Len(grown)) \in Seq(Row)
          /\ Len(SubSeq(cache', 1, Len(grown))) = Len(grown)
          /\ \A i \in 1..Len(grown) : SubSeq(cache', 1, Len(grown))[i] = cache'[i]
      BY <2>3, <3>1, FrontOf
    <3>3. \A i \in 1..Len(grown) : cache'[i] = grown[i]
      BY <1>9, <2>2
    <3> QED
      BY <1>5, <3>1, <3>2, <3>3, SeqEqual
  <2>6. kvTokens' \in Seq(Tokens) /\ CacheFaithful'
    <3>1. kvTokens \o <<last>> \in Seq(Tokens)
      BY <1>3, One, ConcatProperties
    <3>2. kvValid => Faithful(kvTokens \o <<last>>, grown)
      BY <1>1, <1>3, <1>4, <1>5, FaithfulAppend DEF CacheFaithful
    <3> QED
      BY <1>3, <1>9, <2>5, <3>1, <3>2 DEF Consumed, CacheFaithful
  <2>7. Spoken'
    BY <1>9, <2>1 DEF Spoken, Returned
  <2>8. TypeForward' /\ TypeKv'
    BY <1>1, <1>2, <1>9, <2>3, <2>6, TypeParts DEF TypeForward, TypeKv
  <2>9. TypeGen'
    BY <1>1, <1>2, <1>6, <1>9, <2>1, TypeParts DEF TypeGen, Returned
  <2>10. TypeCall'
    <3>1. text' \in Seq(Tokens) /\ outcome' \in Outcomes
      BY <1>3, <1>9, <2>1 DEF Returned, Outcomes
    <3> QED
      BY <1>1, <1>2, <1>9, <3>1, TypeParts DEF TypeCall
  <2>11. TypeOK'
    BY <1>7, <1>8, <2>8, <2>9, <2>10, TypeWhole
  <2> QED
    BY <1>7, <2>4, <2>6, <2>7, <2>11 DEF IInv
<1>10. ASSUME NEW base \in Seq(Row), NEW t \in Tokens, DecodeFails(base, t), pipe' = FALSE,
              history' \in Seq(Tokens)
       PROVE  IInv'
  <2>1. /\ cache' \in Seq(Row) /\ unread' \in Nat
        /\ TypeKv' /\ CacheFaithful'
        /\ outcome' \in Outcomes
        /\ UNCHANGED <<last, queue, text>>
    BY <1>1, <1>10, DecodeFailsFacts
  <2>2. InFlight' /\ Spoken'
    BY <1>1, <1>2, <1>10, <2>1, Drained DEF Spoken
  <2>3. TypeForward' /\ TypeGen'
    BY <1>1, <1>2, <1>10, <2>1, TypeParts DEF TypeForward, TypeGen
  <2>4. TypeCall'
    BY <1>1, <1>2, <1>10, <2>1, TypeParts DEF TypeCall
  <2>5. TypeOK'
    BY <1>7, <1>8, <2>1, <2>3, <2>4, TypeWhole
  <2> QED
    BY <1>7, <2>1, <2>2, <2>5 DEF IInv
<1>11. ASSUME NEW t \in Draws(Toks(grown))
       PROVE  t \in Tokens
  BY DEF Draws
<1>12. pipe \in BOOLEAN
  BY <1>1 DEF TypeOK
<1> QED
  BY <1>2, <1>3, <1>5, <1>6, <1>9, <1>10, <1>11, <1>12

\* A front of a concatenation that reaches into its second part.
LEMMA FrontOfConcat ==
  ASSUME NEW S, NEW a \in Seq(S), NEW b \in Seq(S), NEW j \in 0..Len(b)
  PROVE  SubSeq(a \o b, 1, Len(a) + j) = a \o SubSeq(b, 1, j)
<1> DEFINE whole == a \o b
           front == SubSeq(b, 1, j)
           part == a \o front
<1>1. Len(a) \in Nat /\ Len(b) \in Nat
  BY LenProperties
<1>2. /\ front \in Seq(S) /\ Len(front) = j
      /\ \A i \in 1..j : front[i] = b[i]
  BY FrontOf
<1> HIDE DEF front
<1>3. /\ whole \in Seq(S) /\ Len(whole) = Len(a) + Len(b)
      /\ \A i \in 1..Len(a) + Len(b) : whole[i] = IF i <= Len(a) THEN a[i] ELSE b[i - Len(a)]
  BY ConcatProperties
<1>4. /\ part \in Seq(S) /\ Len(part) = Len(a) + Len(front)
      /\ \A i \in 1..Len(a) + Len(front) :
            part[i] = IF i <= Len(a) THEN a[i] ELSE front[i - Len(a)]
  BY <1>2, ConcatProperties
<1> HIDE DEF whole, part
<1>5. Len(a) + j \in 0..Len(whole)
  BY <1>1, <1>3
<1>6. /\ SubSeq(whole, 1, Len(a) + j) \in Seq(S)
      /\ Len(SubSeq(whole, 1, Len(a) + j)) = Len(a) + j
      /\ \A i \in 1..Len(a) + j : SubSeq(whole, 1, Len(a) + j)[i] = whole[i]
  BY <1>3, <1>5, FrontOf
<1>7. ASSUME NEW i \in 1..Len(a) + j
      PROVE  whole[i] = part[i]
  <2>1. CASE i <= Len(a)
    <3>1. i \in 1..Len(a) + Len(b) /\ i \in 1..Len(a) + Len(front)
      BY <1>1, <1>2
    <3>2. whole[i] = a[i]
      BY <1>3, <2>1, <3>1
    <3>3. part[i] = a[i]
      BY <1>4, <2>1, <3>1
    <3> QED
      BY <3>2, <3>3
  <2>2. CASE ~(i <= Len(a))
    <3>1. i - Len(a) \in 1..j /\ i \in 1..Len(a) + Len(b)
      BY <1>1, <2>2
    <3>2. whole[i] = b[i - Len(a)] /\ part[i] = front[i - Len(a)]
      BY <1>2, <1>3, <1>4, <2>2, <3>1
    <3> QED
      BY <1>2, <3>1, <3>2
  <2> QED
    BY <2>1, <2>2
<1>8. SubSeq(whole, 1, Len(a) + j) = part
  BY <1>2, <1>4, <1>6, <1>7, SeqEqual
<1> QED
  BY <1>8 DEF whole, part, front

\* The step over a guess leaves the rows of the tokens it kept.
LEMMA KeptFaithful ==
  ASSUME NEW toks \in Seq(Tokens), NEW base \in Seq(Row), Faithful(toks, base),
         NEW in \in Seq(Tokens), NEW new \in Seq(Row), Len(new) = Len(in),
         NEW j \in 0..Len(in),
         \A i \in 1..j : new[i].tok = in[i] /\ ~new[i].img
  PROVE  /\ toks \o SubSeq(in, 1, j) \in Seq(Tokens)
         /\ Faithful(toks \o SubSeq(in, 1, j), SubSeq(base \o new, 1, Len(base) + j))
<1>1. Len(base) \in Nat /\ Len(in) \in Nat
  BY LenProperties
<1>2. /\ SubSeq(in, 1, j) \in Seq(Tokens) /\ Len(SubSeq(in, 1, j)) = j
      /\ \A i \in 1..j : SubSeq(in, 1, j)[i] = in[i]
  BY FrontOf
<1>3. /\ SubSeq(new, 1, j) \in Seq(Row) /\ Len(SubSeq(new, 1, j)) = j
      /\ \A i \in 1..j : SubSeq(new, 1, j)[i] = new[i]
  BY FrontOf
<1>4. Faithful(SubSeq(in, 1, j), SubSeq(new, 1, j))
  BY <1>2, <1>3 DEF Faithful
<1>5. /\ toks \o SubSeq(in, 1, j) \in Seq(Tokens)
      /\ base \o SubSeq(new, 1, j) \in Seq(Row)
      /\ Faithful(toks \o SubSeq(in, 1, j), base \o SubSeq(new, 1, j))
  BY <1>2, <1>3, <1>4, ConcatProperties, FaithfulConcat
<1>6. SubSeq(base \o new, 1, Len(base) + j) = base \o SubSeq(new, 1, j)
  BY FrontOfConcat
<1> QED
  BY <1>5, <1>6

\* A guess is made of tokens.
LEMMA DraftTokens ==
  ASSUME TypeOK, NEW draft \in Drafts
  PROVE  draft \in Seq(Tokens)
<1> DEFINE all == Append(history, last)
           L == Len(all)
           top(s) == Lesser(s + NGram + maxDraft - 1, L - 1)
<1>1. all \in Seq(Tokens) /\ maxDraft \in Nat /\ NGram \in Nat \ {0}
  BY SettingAssumption DEF TypeOK
<1>2. L \in Nat
  BY <1>1, LenProperties
<1>3. PICK s \in 1..L - NGram : draft = SubSeq(all, s + NGram, top(s))
  BY DEF Drafts
<1> HIDE DEF all
<1>4. s + NGram \in 1..L + 1 /\ s \in Nat
  BY <1>1, <1>2
<1>5. top(s) \in 0..L
  BY <1>1, <1>2, <1>4 DEF Lesser
<1> HIDE DEF top, L
<1>6. s + NGram \in 1..Len(all) + 1 /\ top(s) \in 0..Len(all)
  BY <1>4, <1>5 DEF L
<1> QED
  BY <1>1, <1>3, <1>6, Stretch

\* What a round feeds, keeps and hands out.
LEMMA RoundFacts ==
  ASSUME PlaceholderReserved, TypeOK, InFlight, last # Img, NEW draft \in Seq(Tokens),
         NEW k \in 0..Len(draft)
  PROVE  LET in == <<last>> \o draft
             base == Settled
             new == Compute(in, "verify")
             filled == base \o new
             Drawn(i) == Draws(Toks(SubSeq(filled, 1, Len(base) + i)))
         IN (\A i \in 1..k : draft[i] \in Drawn(i)) =>
              /\ in \in Seq(Tokens) /\ new \in Seq(Row) /\ base \in Seq(Row)
              /\ Len(new) = Len(in) /\ k + 1 \in 0..Len(in)
              /\ filled \in Seq(Row)
              /\ SubSeq(in, 1, k + 1) \in Seq(Tokens)
              /\ SubSeq(filled, 1, Len(base) + (k + 1)) \in Seq(Row)
              /\ \A i \in 1..k + 1 : new[i].tok = in[i] /\ ~new[i].img
<1> DEFINE in == <<last>> \o draft
           base == Settled
           new == Compute(in, "verify")
           filled == base \o new
           Drawn(i) == Draws(Toks(SubSeq(filled, 1, Len(base) + i)))
<1> SUFFICES ASSUME \A i \in 1..k : draft[i] \in Drawn(i)
             PROVE  /\ in \in Seq(Tokens) /\ new \in Seq(Row) /\ base \in Seq(Row)
                    /\ Len(new) = Len(in) /\ k + 1 \in 0..Len(in)
                    /\ filled \in Seq(Row)
                    /\ SubSeq(in, 1, k + 1) \in Seq(Tokens)
                    /\ SubSeq(filled, 1, Len(base) + (k + 1)) \in Seq(Row)
                    /\ \A i \in 1..k + 1 : new[i].tok = in[i] /\ ~new[i].img
  OBVIOUS
<1>1. /\ last \in Tokens /\ weights \in Weights /\ "verify" \in Kinds
      /\ base \in Seq(Row) /\ Len(draft) \in Nat /\ Len(base) \in Nat
  BY SettledFacts, LenProperties DEF TypeOK, Kinds
<1>2. /\ in \in Seq(Tokens) /\ Len(in) = Len(draft) + 1 /\ in[1] = last
      /\ \A i \in 1..Len(draft) : in[i + 1] = draft[i]
  <2>1. <<last>> \in Seq(Tokens) /\ Len(<<last>>) = 1 /\ <<last>>[1] = last
    BY <1>1, One
  <2>2. /\ in \in Seq(Tokens) /\ Len(in) = Len(<<last>>) + Len(draft)
        /\ \A i \in 1..Len(<<last>>) + Len(draft) :
              in[i] = IF i <= Len(<<last>>) THEN <<last>>[i] ELSE draft[i - Len(<<last>>)]
    BY <2>1, ConcatProperties
  <2> HIDE DEF in
  <2>3. Len(in) = Len(draft) + 1 /\ in[1] = last
    BY <1>1, <2>1, <2>2
  <2>4. ASSUME NEW i \in 1..Len(draft)
        PROVE  in[i + 1] = draft[i]
    <3>1. i + 1 \in 1..Len(<<last>>) + Len(draft) /\ ~(i + 1 <= 1) /\ (i + 1) - 1 = i
      BY <1>1, <2>1
    <3> QED
      BY <2>1, <2>2, <3>1
  <2> QED
    BY <2>2, <2>3, <2>4
<1> HIDE DEF in, base
<1>3. /\ new \in Seq(Row) /\ Len(new) = Len(in)
      /\ \A i \in 1..Len(in) : new[i].tok = in[i]
      /\ \A i \in 1..Len(in) : in[i] # Img => ~new[i].img
  BY <1>1, <1>2, ComputeFacts
<1> HIDE DEF new
<1>4. filled \in Seq(Row) /\ Len(filled) = Len(base) + Len(in)
  <2>1. base \o new \in Seq(Row) /\ Len(base \o new) = Len(base) + Len(new)
    BY <1>1, <1>3, ConcatProperties
  <2> QED
    BY <1>3, <2>1
<1> HIDE DEF filled
<1>5. ASSUME NEW i \in 0..Len(in)
      PROVE  SubSeq(filled, 1, Len(base) + i) \in Seq(Row)
  <2>1. Len(base) + i \in 0..Len(filled)
    BY <1>1, <1>2, <1>4
  <2> QED
    BY <1>4, <2>1, FrontOf
<1>6. ASSUME NEW i \in 1..k
      PROVE  draft[i] # Img
  <2>1. i \in 0..Len(in)
    BY <1>1, <1>2
  <2>2. SubSeq(filled, 1, Len(base) + i) \in Seq(Row)
    BY <1>5, <2>1
  <2>3. draft[i] \in Draws(Toks(SubSeq(filled, 1, Len(base) + i)))
    BY DEF in, base, new, filled
  <2> QED
    BY <2>2, <2>3, DrawnSpoken
<1>7. ASSUME NEW i \in 1..k + 1
      PROVE  new[i].tok = in[i] /\ ~new[i].img
  <2>1. i \in 1..Len(in)
    BY <1>1, <1>2
  <2>2. in[i] # Img
    <3>1. CASE i = 1
      BY <1>2, <3>1
    <3>2. CASE i # 1
      <4>1. i - 1 \in 1..k /\ i - 1 \in 1..Len(draft) /\ (i - 1) + 1 = i
        BY <1>1, <3>2
      <4> QED
        BY <1>2, <1>6, <4>1
    <3> QED
      BY <3>1, <3>2
  <2> QED
    BY <1>3, <2>1, <2>2
<1>8. k + 1 \in 0..Len(in)
  BY <1>1, <1>2
<1>9. SubSeq(in, 1, k + 1) \in Seq(Tokens)
  BY <1>2, <1>8, FrontOf
<1> QED
  BY <1>1, <1>2, <1>3, <1>4, <1>5, <1>7, <1>8, <1>9

\* A round of speculation keeps it.
LEMMA SpecRoundKeeps ==
  ASSUME PlaceholderReserved, IInv, SpecRound
  PROVE  IInv'
<1>1. TypeOK /\ InFlight /\ CacheFaithful /\ Copies /\ Spoken
  BY DEF IInv
<1>2. PICK draft \in Drafts :
        LET in == <<last>> \o draft
            base == Settled
            filled == base \o Compute(in, "verify")
            m == Len(draft)
            Drawn(i) == Draws(Toks(SubSeq(filled, 1, Len(base) + i)))
        IN \/ \E k \in 0..m : \E t \in Drawn(k + 1) :
                LET outs == Append(SubSeq(draft, 1, k), t)
                IN /\ \A i \in 1..k : draft[i] \in Drawn(i)
                   /\ cache' = SubSeq(filled, 1, Len(base) + 1 + k)
                   /\ unread' = UnreadAfter(in)
                   /\ history' = history \o SubSeq(in, 1, k + 1)
                   /\ Consumed(SubSeq(in, 1, k + 1))
                   /\ last' = t
                   /\ queue' = Tail(outs)
                   /\ text' = Append(text, Head(outs))
                   /\ outcome' = "ok"
                   /\ UNCHANGED <<kvValid, kvPrefilled, cancel>>
           \/ /\ outcome' \in Outcomes
              /\ (UNCHANGED cancel \/ cancel' = TRUE)
              /\ cache' = base
              /\ unread' \in {unread, UnreadAfter(in)}
              /\ Invalidate
              /\ UNCHANGED <<history, last, queue, text>>
  BY DEF SpecRound, Outcomes
<1>3. /\ pipe' = FALSE /\ hasSession
      /\ UNCHANGED <<overridden, weights, hasSession, settings, store, loading, files>>
  BY DEF SpecRound, Decoding, Answering
<1> DEFINE in == <<last>> \o draft
           base == Settled
           filled == base \o Compute(in, "verify")
           Drawn(i) == Draws(Toks(SubSeq(filled, 1, Len(base) + i)))
<1>4. draft \in Seq(Tokens) /\ Len(draft) \in Nat
  BY <1>1, DraftTokens, LenProperties
<1>5. /\ last \in Tokens /\ last # Img /\ unread \in Nat /\ kvValid \in BOOLEAN
      /\ history \in Seq(Tokens) /\ kvTokens \in Seq(Tokens) /\ text \in Seq(Tokens)
  BY <1>1, <1>3 DEF TypeOK, Spoken
<1>6. base \in Seq(Row) /\ Len(base) \in Nat
  BY <1>1, SettledFacts, LenProperties
<1>7. in \in Seq(Tokens) /\ UnreadAfter(in) \in Nat
  <2>1. <<last>> \in Seq(Tokens)
    BY <1>5, One
  <2>2. in \in Seq(Tokens)
    BY <1>4, <2>1, ConcatProperties
  <2> HIDE DEF in
  <2> QED
    BY <1>5, <2>2, UnreadNat
<1>8. InFlight' /\ Settled' = cache'
  BY <1>3, Drained
<1>9. Copies'
  BY <1>1, <1>3, CopiesKept DEF files
<1>10. TypeSettings'
  BY <1>1, <1>3, TypeKept
<1>11. ASSUME NEW k \in 0..Len(draft), NEW t \in Drawn(k + 1),
              \A i \in 1..k : draft[i] \in Drawn(i),
              cache' = SubSeq(filled, 1, Len(base) + 1 + k),
              unread' = UnreadAfter(in),
              history' = history \o SubSeq(in, 1, k + 1),
              Consumed(SubSeq(in, 1, k + 1)),
              last' = t,
              queue' = Tail(Append(SubSeq(draft, 1, k), t)),
              text' = Append(text, Head(Append(SubSeq(draft, 1, k), t))),
              outcome' = "ok",
              UNCHANGED <<kvValid, kvPrefilled, cancel>>
       PROVE  IInv'
  <2> DEFINE new == Compute(in, "verify")
             eaten == SubSeq(in, 1, k + 1)
             rows == SubSeq(filled, 1, Len(base) + (k + 1))
             outs == Append(SubSeq(draft, 1, k), t)
  <2>1. /\ new \in Seq(Row) /\ Len(new) = Len(in) /\ k + 1 \in 0..Len(in)
        /\ eaten \in Seq(Tokens) /\ rows \in Seq(Row)
        /\ \A i \in 1..k + 1 : new[i].tok = in[i] /\ ~new[i].img
    BY <1>1, <1>4, <1>5, <1>11, RoundFacts
  <2>2. cache' = rows
    <3>1. Len(base) + 1 + k = Len(base) + (k + 1)
      BY <1>6
    <3> QED
      BY <1>11, <3>1
  <2>3. t \in Tokens /\ t # Img
    BY <2>1, <1>11, DrawnSpoken
  <2>4. kvValid => /\ kvTokens \o eaten \in Seq(Tokens)
                   /\ Faithful(kvTokens \o eaten, rows)
    <3>1. ASSUME kvValid
          PROVE  Faithful(kvTokens, base)
      BY <1>1, <3>1 DEF CacheFaithful
    <3> HIDE DEF new, base, in
    <3>2. ASSUME kvValid
          PROVE  /\ kvTokens \o SubSeq(in, 1, k + 1) \in Seq(Tokens)
                 /\ Faithful(kvTokens \o SubSeq(in, 1, k + 1),
                             SubSeq(base \o new, 1, Len(base) + (k + 1)))
      BY <1>5, <1>6, <1>7, <2>1, <3>1, <3>2, KeptFaithful
    <3> QED
      BY <3>2 DEF new
  <2>5. queue' \in Seq(Tokens) /\ text' \in Seq(Tokens)
    <3>1. k \in 0..Len(draft)
      BY <1>11
    <3>2. SubSeq(draft, 1, k) \in Seq(Tokens)
      BY <1>4, <3>1, FrontOf
    <3>3. outs \in Seq(Tokens) /\ Len(outs) = Len(SubSeq(draft, 1, k)) + 1
      BY <2>3, <3>2
    <3>4. outs # <<>>
      BY <3>2, <3>3, EmptySeq, LenProperties
    <3> HIDE DEF outs
    <3>5. Head(outs) \in Tokens /\ Tail(outs) \in Seq(Tokens)
      BY <3>3, <3>4, HeadTailProperties
    <3>6. queue' = Tail(outs) /\ text' = Append(text, Head(outs))
      BY <1>11 DEF outs
    <3> QED
      BY <1>5, <3>5, <3>6
  <2>6. history' \in Seq(Tokens)
    BY <1>5, <1>11, <2>1, ConcatProperties
  <2> HIDE DEF in, base, filled, Drawn, new, eaten, rows, outs
  <2>7. kvTokens' = IF kvValid THEN kvTokens \o eaten ELSE kvTokens
    BY <1>11 DEF Consumed, eaten
  <2>8. CacheFaithful'
    BY <1>8, <1>11, <2>2, <2>4, <2>7 DEF CacheFaithful
  <2>9. Spoken'
    BY <1>11, <2>3 DEF Spoken
  <2>10. TypeForward' /\ TypeKv'
    <3>1. kvTokens' \in Seq(Tokens)
      BY <1>5, <2>4, <2>7
    <3> QED
      BY <1>1, <1>3, <1>7, <1>11, <2>1, <2>2, <3>1, TypeParts DEF TypeForward, TypeKv
  <2>11. TypeGen'
    BY <1>1, <1>3, <1>11, <2>3, <2>5, <2>6, TypeParts DEF TypeGen
  <2>12. TypeCall'
    BY <1>1, <1>3, <1>11, <2>5, TypeParts DEF TypeCall, Outcomes
  <2>13. TypeOK'
    BY <1>9, <1>10, <2>10, <2>11, <2>12, TypeWhole
  <2> QED
    BY <1>8, <1>9, <2>8, <2>9, <2>13 DEF IInv
<1>12. ASSUME outcome' \in Outcomes, UNCHANGED cancel \/ cancel' = TRUE, cache' = base,
              unread' \in {unread, UnreadAfter(in)}, Invalidate,
              UNCHANGED <<history, last, queue, text>>
       PROVE  IInv'
  <2> HIDE DEF in, base
  <2>1. CacheFaithful' /\ TypeKv'
    BY <1>1, <1>12, Dropped, TypeKept
  <2>2. Spoken'
    BY <1>1, <1>3, <1>12 DEF Spoken
  <2>3. TypeForward'
    BY <1>1, <1>3, <1>5, <1>6, <1>7, <1>12, TypeParts DEF TypeForward
  <2>4. TypeGen'
    BY <1>1, <1>3, <1>12, TypeParts DEF TypeGen
  <2>5. TypeCall'
    BY <1>1, <1>3, <1>12, TypeParts DEF TypeCall
  <2>6. TypeOK'
    BY <1>9, <1>10, <2>1, <2>3, <2>4, <2>5, TypeWhole
  <2> QED
    BY <1>8, <1>9, <2>1, <2>2, <2>6 DEF IInv
<1> QED
  BY <1>2, <1>11, <1>12

\* So does the drain of the pipeline.
LEMMA DrainKeeps ==
  ASSUME IInv, pipe' = FALSE, cache' = Settled
  PROVE  /\ InFlight' /\ cache' \in Seq(Row)
         /\ UNCHANGED <<kvTokens, kvValid>> => CacheFaithful'
<1>1. Settled' = cache' /\ InFlight'
  BY Drained
<1>2. CacheFaithful /\ cache' \in Seq(Row)
  BY SettledFacts DEF IInv
<1> QED
  BY <1>1, <1>2 DEF CacheFaithful

\* Setting the reuse mode keeps it.
LEMMA SetSessionReuseKeeps ==
  ASSUME IInv, NEW m \in Modes, SetSessionReuse(m)
  PROVE  IInv'
<1>1. TypeOK /\ Copies /\ Spoken /\ m \in 0..2
  BY SettingAssumption DEF IInv
<1>2. /\ mode' = m /\ (Invalidate \/ UNCHANGED kv)
      /\ UNCHANGED <<forward, gen, maxDraft, budget, pipe, store, loading, cancel, files, ghosts>>
  BY DEF SetSessionReuse
<1>3. CacheFaithful' /\ InFlight'
  <2>1. CASE Invalidate
    BY <1>2, <2>1, Dropped DEF IInv, InFlight, forward, gen
  <2>2. CASE UNCHANGED kv
    BY <1>2, <2>2, CacheKept DEF forward, gen, kv
  <2> QED
    BY <1>2, <2>1, <2>2
<1>4. Copies'
  BY <1>1, <1>2, CopiesKept DEF files
<1>5. Spoken'
  BY <1>1, <1>2 DEF Spoken, gen
<1>6. TypeForward' /\ TypeKv' /\ TypeGen'
  BY <1>1, <1>2, TypeKept
<1>7. TypeSettings'
  BY <1>1, <1>2, TypeParts DEF TypeSettings
<1>8. TypeCall'
  BY <1>1, <1>2, TypeParts DEF TypeCall, ghosts
<1> QED
  BY <1>3, <1>4, <1>5, <1>6, <1>7, <1>8, TypeWhole DEF IInv

\* Setting the speculation limit keeps it.
LEMMA SetSpeculationKeeps ==
  ASSUME IInv, NEW d \in DraftLimits, SetSpeculation(d)
  PROVE  IInv'
<1>1. TypeOK /\ Copies /\ Spoken /\ d \in Nat
  BY SettingAssumption DEF IInv
<1>2. /\ pipe' = FALSE /\ cache' = Settled /\ maxDraft' = d
      /\ queue' \in {<<>>, queue}
      /\ UNCHANGED <<unread, overridden, weights, kv, hasSession, last, history, mode, budget, store,
                     loading, cancel, files, ghosts>>
  BY DEF SetSpeculation, Drain
<1>3. InFlight' /\ CacheFaithful' /\ cache' \in Seq(Row)
  BY <1>2, DrainKeeps DEF kv
<1>4. Copies'
  BY <1>1, <1>2, CopiesKept DEF files
<1>5. Spoken'
  BY <1>1, <1>2 DEF Spoken
<1>6. TypeForward' /\ TypeKv'
  BY <1>1, <1>2, <1>3, TypeParts, TypeKept DEF TypeForward
<1>7. TypeGen'
  <2>1. <<>> \in Seq(Tokens)
    BY EmptySeq
  <2> QED
    BY <1>1, <1>2, <2>1, TypeParts DEF TypeGen
<1>8. TypeSettings'
  BY <1>1, <1>2, TypeParts DEF TypeSettings
<1>9. TypeCall'
  BY <1>1, <1>2, TypeParts DEF TypeCall, ghosts
<1> QED
  BY <1>3, <1>4, <1>5, <1>6, <1>7, <1>8, <1>9, TypeWhole DEF IInv

\* Setting the budget of the store keeps it.
LEMMA SetPrefixCacheKeeps ==
  ASSUME IInv, NEW b \in Budgets, SetPrefixCache(b)
  PROVE  IInv'
<1>1. TypeOK /\ Copies /\ Spoken /\ b \in Nat
  BY SettingAssumption DEF IInv
<1>2. /\ pipe' = FALSE /\ cache' = Settled /\ budget' = b /\ store' = Trimmed(store, b)
      /\ UNCHANGED <<unread, overridden, weights, kv, gen, mode, maxDraft, loading, cancel, files, ghosts>>
  BY DEF SetPrefixCache, Drain
<1>3. InFlight' /\ CacheFaithful' /\ cache' \in Seq(Row)
  BY <1>2, DrainKeeps DEF kv
<1>4. Copies'
  <2>1. Restorable(Trimmed(store, b))
    BY <1>1, TrimmedSound DEF Copies
  <2> QED
    BY <1>1, <1>2, <2>1 DEF Copies, Restorable, Saved, files
<1>5. Spoken'
  BY <1>1, <1>2 DEF Spoken, gen
<1>6. TypeForward' /\ TypeKv' /\ TypeGen'
  BY <1>1, <1>2, <1>3, TypeParts, TypeKept DEF TypeForward
<1>7. TypeSettings'
  BY <1>1, <1>2, TypeParts DEF TypeSettings
<1>8. TypeCall'
  BY <1>1, <1>2, TypeParts DEF TypeCall, ghosts
<1> QED
  BY <1>3, <1>4, <1>5, <1>6, <1>7, <1>8, TypeWhole DEF IInv

\* Every other setting keeps it.
LEMMA ConfigureKeeps ==
  ASSUME IInv, Configure
  PROVE  IInv'
<1>1. TypeOK /\ Copies /\ Spoken
  BY DEF IInv
<1>2. /\ pipe' = FALSE /\ cache' = Settled
      /\ UNCHANGED <<unread, overridden, weights, kv, gen, settings, store, loading, cancel, files, ghosts>>
  BY DEF Configure, Drain
<1>3. InFlight' /\ CacheFaithful' /\ cache' \in Seq(Row)
  BY <1>2, DrainKeeps DEF kv
<1>4. Copies'
  BY <1>1, <1>2, CopiesKept DEF files
<1>5. Spoken'
  BY <1>1, <1>2 DEF Spoken, gen
<1>6. TypeForward' /\ TypeKv' /\ TypeGen' /\ TypeSettings'
  BY <1>1, <1>2, <1>3, TypeParts, TypeKept DEF TypeForward
<1>7. TypeCall'
  BY <1>1, <1>2, TypeParts DEF TypeCall, ghosts
<1> QED
  BY <1>3, <1>4, <1>5, <1>6, <1>7, TypeWhole DEF IInv

\* Loading or dropping an adapter keeps it.
LEMMA SetLoraKeeps ==
  ASSUME IInv, NEW w \in Weights, SetLora(w)
  PROVE  IInv'
<1>1. TypeOK /\ Copies /\ Spoken
  BY DEF IInv
<1>2. /\ pipe' = FALSE /\ cache' = Settled /\ Invalidate /\ weights' \in {w, weights}
      /\ UNCHANGED <<unread, overridden, gen, settings, store, loading, cancel, files, ghosts>>
  BY DEF SetLora, Drain
<1>3. InFlight' /\ CacheFaithful' /\ cache' \in Seq(Row)
  BY <1>2, DrainKeeps, Dropped
<1>4. Copies'
  BY <1>1, <1>2, CopiesKept DEF files
<1>5. Spoken'
  BY <1>1, <1>2 DEF Spoken, gen
<1>6. TypeForward' /\ TypeKv' /\ TypeGen' /\ TypeSettings'
  BY <1>1, <1>2, <1>3, TypeParts, TypeKept DEF TypeForward
<1>7. TypeCall'
  BY <1>1, <1>2, TypeParts DEF TypeCall, ghosts
<1> QED
  BY <1>3, <1>4, <1>5, <1>6, <1>7, TypeWhole DEF IInv

\* engine_session_reset and engine_trim_cache.
LEMMA EmptiedKeeps ==
  ASSUME IInv, SessionReset \/ TrimCache
  PROVE  IInv'
<1>1. TypeOK /\ Copies /\ Spoken
  BY DEF IInv
<1>2. /\ pipe' = FALSE /\ cache' = <<>> /\ Invalidate
      /\ hasSession' = FALSE \/ UNCHANGED hasSession
      /\ queue' \in {<<>>, queue}
      /\ UNCHANGED <<unread, overridden, weights, last, history, settings, store, loading, cancel, files, ghosts>>
  BY DEF SessionReset, TrimCache, gen
<1>3. InFlight' /\ CacheFaithful'
  BY <1>2, Drained, Dropped
<1>4. Copies'
  BY <1>1, <1>2, CopiesKept DEF files
<1>5. Spoken'
  BY <1>1, <1>2 DEF Spoken
<1>6. <<>> \in Seq(Tokens) /\ <<>> \in Seq(Row)
  BY EmptySeq
<1>7. TypeForward' /\ TypeKv' /\ TypeSettings'
  BY <1>1, <1>2, <1>6, TypeParts, TypeKept DEF TypeForward
<1>8. TypeGen'
  BY <1>1, <1>2, <1>6, TypeParts DEF TypeGen
<1>9. TypeCall'
  BY <1>1, <1>2, TypeParts DEF TypeCall, ghosts
<1> QED
  BY <1>3, <1>4, <1>5, <1>7, <1>8, <1>9, TypeWhole DEF IInv

\* A cancel keeps it.
LEMMA CancelKeeps ==
  ASSUME IInv, Cancel
  PROVE  IInv'
<1>1. TypeOK /\ Copies /\ Spoken
  BY DEF IInv
<1>2. cancel' = TRUE /\ UNCHANGED <<forward, kv, gen, settings, pipe, store, loading, files, ghosts>>
  BY DEF Cancel
<1>3. InFlight' /\ CacheFaithful'
  BY <1>2, CacheKept DEF forward, gen, kv
<1>4. Copies'
  BY <1>1, <1>2, CopiesKept DEF files
<1>5. Spoken'
  BY <1>1, <1>2 DEF Spoken, gen
<1>6. TypeForward' /\ TypeKv' /\ TypeGen' /\ TypeSettings'
  BY <1>1, <1>2, TypeKept
<1>7. TypeCall'
  BY <1>1, <1>2, TypeParts DEF TypeCall, ghosts
<1> QED
  BY <1>3, <1>4, <1>5, <1>6, <1>7, TypeWhole DEF IInv

\* Saving the session to a file keeps it.
LEMMA SaveSessionKeeps ==
  ASSUME IInv, NEW nPrefix \in 0..MaxLen, SaveSession(nPrefix)
  PROVE  IInv'
<1> DEFINE all == Lesser(kvPrefilled, Len(Settled))
           n == IF nPrefix = 0 THEN all ELSE Lesser(all, nPrefix)
           saved == [toks |-> SubSeq(kvTokens, 1, n), rows |-> SubSeq(Settled, 1, n)]
<1>1. TypeOK /\ InFlight /\ Copies /\ Spoken
  BY DEF IInv
<1>2. /\ pipe' = FALSE /\ cache' = Settled /\ kvValid /\ image' = {saved}
      /\ UNCHANGED <<unread, overridden, weights, kv, gen, settings, store, loading, cancel, disk, ghosts>>
  BY DEF SaveSession, Drain
<1>3. Faithful(kvTokens, Settled)
  BY <1>2 DEF IInv, CacheFaithful
<1>4. /\ Settled \in Seq(Row) /\ Len(Settled) \in Nat
      /\ kvTokens \in Seq(Tokens) /\ kvPrefilled \in Nat /\ MaxLen \in Nat
  BY <1>1, SettledFacts, LenProperties, SettingAssumption DEF TypeOK
<1>5. all \in Nat /\ all <= Len(Settled)
  BY <1>4, LesserNat
<1>6. n \in 0..Len(Settled) /\ n \in 0..Len(kvTokens)
  <2> HIDE DEF all
  <2>1. nPrefix \in Nat
    BY <1>4
  <2>2. n \in Nat /\ n <= all
    BY <1>5, <2>1 DEF Lesser
  <2> HIDE DEF n
  <2> QED
    BY <1>3, <1>4, <1>5, <2>2 DEF Faithful
<1> HIDE DEF n
<1>7. saved \in Image /\ Faithful(saved.toks, saved.rows)
  <2>1. /\ SubSeq(kvTokens, 1, n) \in Seq(Tokens) /\ SubSeq(Settled, 1, n) \in Seq(Row)
    BY <1>4, <1>6, FrontOf
  <2>2. Faithful(SubSeq(kvTokens, 1, n), SubSeq(Settled, 1, n))
    BY <1>3, <1>4, <1>6, FaithfulFront
  <2> QED
    BY <2>1, <2>2 DEF Image
<1> HIDE DEF saved
<1>8. InFlight' /\ CacheFaithful' /\ cache' \in Seq(Row)
  BY <1>2, DrainKeeps DEF kv
<1>9. Copies'
  BY <1>1, <1>2, <1>7 DEF Copies, Restorable, Saved
<1>10. Spoken'
  BY <1>1, <1>2 DEF Spoken, gen
<1>11. TypeForward' /\ TypeKv' /\ TypeGen' /\ TypeSettings'
  BY <1>1, <1>2, <1>8, TypeParts, TypeKept DEF TypeForward
<1>12. TypeCall'
  BY <1>1, <1>2, TypeParts DEF TypeCall, ghosts
<1> QED
  BY <1>8, <1>9, <1>10, <1>11, <1>12, TypeWhole DEF IInv

\* Loading it keeps it.
LEMMA LoadSessionKeeps ==
  ASSUME IInv, LoadSession
  PROVE  IInv'
<1>1. TypeOK /\ Copies /\ Spoken
  BY DEF IInv
<1>2. PICK saved \in image :
        \/ /\ cache' = saved.rows /\ kvTokens' = saved.toks
           /\ kvPrefilled' = Len(saved.toks) /\ kvValid' = TRUE
           /\ hasSession' = FALSE /\ queue' = <<>>
           /\ UNCHANGED <<last, history>>
        \/ cache' = Settled /\ UNCHANGED <<kv, gen>>
  BY DEF LoadSession
<1>3. /\ pipe' = FALSE
      /\ UNCHANGED <<unread, overridden, weights, settings, store, loading, cancel, files, ghosts>>
  BY DEF LoadSession
<1>4. saved \in Image /\ Faithful(saved.toks, saved.rows)
  BY <1>1 DEF Copies, Saved
<1>5. /\ saved.toks \in Seq(Tokens) /\ saved.rows \in Seq(Row) /\ Len(saved.toks) \in Nat
      /\ <<>> \in Seq(Tokens)
  <2>1. saved.toks \in Seq(Tokens) /\ saved.rows \in Seq(Row)
    BY <1>4 DEF Image
  <2> QED
    BY <2>1, LenProperties, EmptySeq
<1>6. InFlight' /\ Settled' = cache'
  BY <1>3, Drained
<1>7. Copies'
  BY <1>1, <1>3, CopiesKept DEF files
<1>8. TypeSettings'
  BY <1>1, <1>3, TypeKept
<1>9. TypeCall'
  BY <1>1, <1>3, TypeParts DEF TypeCall, ghosts
<1>10. CASE /\ cache' = saved.rows /\ kvTokens' = saved.toks
            /\ kvPrefilled' = Len(saved.toks) /\ kvValid' = TRUE
            /\ hasSession' = FALSE /\ queue' = <<>>
            /\ UNCHANGED <<last, history>>
  <2>1. CacheFaithful'
    BY <1>4, <1>6, <1>10 DEF CacheFaithful
  <2>2. Spoken'
    BY <1>10 DEF Spoken
  <2>3. TypeForward' /\ TypeKv'
    BY <1>1, <1>3, <1>5, <1>10, TypeParts DEF TypeForward, TypeKv
  <2>4. TypeGen'
    BY <1>1, <1>5, <1>10, TypeParts DEF TypeGen
  <2> QED
    BY <1>6, <1>7, <1>8, <1>9, <2>1, <2>2, <2>3, <2>4, TypeWhole DEF IInv
<1>11. CASE cache' = Settled /\ UNCHANGED <<kv, gen>>
  <2>1. CacheFaithful' /\ cache' \in Seq(Row)
    BY <1>3, <1>11, DrainKeeps DEF kv
  <2>2. Spoken'
    BY <1>1, <1>11 DEF Spoken, gen
  <2>3. TypeForward' /\ TypeKv' /\ TypeGen'
    BY <1>1, <1>3, <1>11, <2>1, TypeParts, TypeKept DEF TypeForward
  <2> QED
    BY <1>6, <1>7, <1>8, <1>9, <2>1, <2>2, <2>3, TypeWhole DEF IInv
<1> QED
  BY <1>2, <1>10, <1>11

\* engine_prefix_cache_save, and the start of engine_prefix_cache_load.
LEMMA DirectoryKeeps ==
  ASSUME IInv, SavePrefixes \/ LoadPrefixes
  PROVE  IInv'
<1>1. TypeOK /\ Copies /\ Spoken
  BY DEF IInv
<1>2. /\ pipe' = FALSE /\ cache' = Settled
      /\ UNCHANGED <<unread, overridden, weights, kv, gen, settings, store, cancel, image, ghosts>>
  BY DEF SavePrefixes, LoadPrefixes, Drain, files
<1>3. InFlight' /\ CacheFaithful' /\ cache' \in Seq(Row)
  BY <1>2, DrainKeeps DEF kv
<1>4. Copies'
  <2>1. CASE SavePrefixes
    <3>1. PICK written \in SUBSET store :
            disk' = {f \in disk : \A e \in written : e.toks # f.toks}
                    \cup {[toks |-> e.toks, rows |-> e.rows] : e \in written}
      BY <2>1 DEF SavePrefixes
    <3>2. ASSUME NEW e \in written
          PROVE  /\ [toks |-> e.toks, rows |-> e.rows] \in Image
                 /\ Faithful(e.toks, e.rows)
      BY <1>1 DEF Copies, Restorable, Entry, Image
    <3>3. Saved(disk)
      BY <1>1 DEF Copies
    <3>4. \A f \in disk' : f \in disk \/ \E e \in written : f = [toks |-> e.toks, rows |-> e.rows]
      BY <3>1
    <3>5. disk' \subseteq Image /\ \A f \in disk' : Faithful(f.toks, f.rows)
      BY <3>2, <3>3, <3>4 DEF Saved
    <3>6. UNCHANGED loading
      BY <2>1 DEF SavePrefixes
    <3> QED
      BY <1>1, <1>2, <3>5, <3>6 DEF Copies, Restorable, Saved
  <2>2. CASE LoadPrefixes
    <3>1. loading' = disk /\ UNCHANGED disk
      BY <2>2 DEF LoadPrefixes, files
    <3> QED
      BY <1>1, <1>2, <3>1 DEF Copies, Restorable, Saved
  <2> QED
    BY <2>1, <2>2
<1>5. Spoken'
  BY <1>1, <1>2 DEF Spoken, gen
<1>6. TypeForward' /\ TypeKv' /\ TypeGen' /\ TypeSettings'
  BY <1>1, <1>2, <1>3, TypeParts, TypeKept DEF TypeForward
<1>7. TypeCall'
  BY <1>1, <1>2, TypeParts DEF TypeCall, ghosts
<1> QED
  BY <1>3, <1>4, <1>5, <1>6, <1>7, TypeWhole DEF IInv

\* One file of prefixes loaded keeps it.
LEMMA LoadPrefixKeeps ==
  ASSUME IInv, NEW f \in loading, LoadPrefix(f)
  PROVE  IInv'
<1> DEFINE e == [toks |-> f.toks, rows |-> f.rows, age |-> 0]
<1>1. TypeOK /\ Copies /\ Spoken
  BY DEF IInv
<1>2. /\ loading' = loading \ {f}
      /\ store' \in {store, Trimmed(UseLast(store, e), budget)}
      /\ UNCHANGED <<forward, kv, gen, settings, pipe, cancel, files, ghosts>>
  BY DEF LoadPrefix
<1>3. InFlight' /\ CacheFaithful'
  BY <1>2, CacheKept DEF forward, gen, kv
<1>4. e \in Entry /\ Faithful(e.toks, e.rows)
  BY <1>1 DEF Copies, Saved, Image, Entry
<1> HIDE DEF e
<1>5. Restorable(Trimmed(UseLast(store, e), budget))
  BY <1>1, <1>4, UseLastSound, TrimmedSound DEF Copies
<1>6. Copies'
  BY <1>1, <1>2, <1>5 DEF Copies, Restorable, Saved, files
<1>7. Spoken'
  BY <1>1, <1>2 DEF Spoken, gen
<1>8. TypeForward' /\ TypeKv' /\ TypeGen' /\ TypeSettings'
  BY <1>1, <1>2, TypeKept
<1>9. TypeCall'
  BY <1>1, <1>2, TypeParts DEF TypeCall, ghosts
<1> QED
  BY <1>3, <1>6, <1>7, <1>8, <1>9, TypeWhole DEF IInv

\* A fresh context, with whatever files an earlier one left.
LEMMA RestartKeeps ==
  ASSUME IInv, Restart
  PROVE  IInv'
<1>1. TypeOK /\ Copies
  BY DEF IInv
<1>2. /\ cache' = <<>> /\ unread' = 0 /\ overridden' = FALSE /\ weights' = "base"
      /\ Invalidate
      /\ hasSession' = FALSE /\ last' = Img /\ history' = <<>> /\ queue' = <<>>
      /\ mode' = 1 /\ maxDraft' = 0 /\ budget' = 0
      /\ pipe' = FALSE /\ store' = {} /\ loading' = {} /\ cancel' = FALSE
      /\ text' = text /\ outcome' = "none" /\ UNCHANGED files
  BY DEF Restart
<1>3. <<>> \in Seq(Tokens) /\ <<>> \in Seq(Row)
  BY EmptySeq
<1>4. InFlight' /\ CacheFaithful' /\ Spoken'
  BY <1>2, Drained, Dropped DEF Spoken
<1>5. Copies'
  BY <1>1, <1>2, FS_EmptySet DEF Copies, Restorable, Saved, files
<1>6. TypeForward'
  BY <1>2, <1>3 DEF TypeForward, Weights
<1>7. TypeKv'
  BY <1>1, <1>2, TypeKept
<1>8. TypeGen'
  BY <1>2, <1>3, TokenAssumption DEF TypeGen
<1>9. TypeSettings' /\ TypeCall'
  <2>1. (mode \in 0..2 /\ maxDraft \in Nat /\ budget \in Nat)'
    BY <1>2
  <2>2. text' \in Seq(Tokens) /\ outcome' \in Outcomes
    BY <1>1, <1>2 DEF TypeOK, Outcomes
  <2>3. pipe' \in BOOLEAN /\ cancel' \in BOOLEAN
    BY <1>2
  <2> QED
    BY <2>1, <2>2, <2>3 DEF TypeSettings, TypeCall
<1> QED
  BY <1>4, <1>5, <1>6, <1>7, <1>8, <1>9, TypeWhole DEF IInv
-----------------------------------------------------------------------------
\* A new context has it.
LEMMA Initial == Init => IInv
<1> SUFFICES ASSUME Init PROVE IInv
  OBVIOUS
<1> USE DEF Init
<1>1. <<>> \in Seq(Tokens) /\ <<>> \in Seq(Row)
  BY EmptySeq
<1>2. TypeOK
  <2>1. cache \in Seq(Row) /\ unread \in Nat /\ overridden \in BOOLEAN /\ weights \in Weights
    BY <1>1 DEF Weights
  <2>2. kvTokens \in Seq(Tokens) /\ kvValid \in BOOLEAN /\ kvPrefilled \in Nat
    BY <1>1
  <2>3. mode \in 0..2 /\ maxDraft \in Nat /\ budget \in Nat
    OBVIOUS
  <2>4. /\ hasSession \in BOOLEAN /\ last \in Tokens
        /\ history \in Seq(Tokens) /\ queue \in Seq(Tokens)
    BY <1>1, TokenAssumption
  <2>5. /\ pipe \in BOOLEAN /\ store \subseteq Entry /\ loading \subseteq Image
        /\ cancel \in BOOLEAN /\ image \subseteq Image /\ disk \subseteq Image
    OBVIOUS
  <2>6. text \in Seq(Tokens) /\ outcome \in Outcomes
    BY <1>1 DEF Outcomes
  <2> QED
    BY <2>1, <2>2, <2>3, <2>4, <2>5, <2>6 DEF TypeOK
<1>3. CacheFaithful /\ InFlight /\ Spoken
  BY DEF CacheFaithful, InFlight, Spoken
<1>4. Copies
  BY FS_EmptySet DEF Copies, Restorable, Saved
<1> QED
  BY <1>2, <1>3, <1>4 DEF IInv

\* Every step keeps the invariant.
LEMMA Preserved ==
  ASSUME PlaceholderReserved, IInv, [Next]_vars
  PROVE  IInv'
<1>1. CASE UNCHANGED vars
  <2>1. TypeOK /\ Copies /\ Spoken
    BY DEF IInv
  <2>2. InFlight' /\ CacheFaithful'
    BY <1>1, CacheKept DEF vars, forward, gen, kv
  <2>3. Copies'
    BY <1>1, <2>1, CopiesKept DEF vars, files
  <2>4. Spoken'
    BY <1>1, <2>1 DEF vars, Spoken, gen
  <2>5. TypeForward' /\ TypeKv' /\ TypeGen' /\ TypeSettings'
    BY <1>1, <2>1, TypeKept DEF vars
  <2>6. TypeCall'
    BY <1>1, <2>1, TypeParts DEF vars, TypeCall, ghosts
  <2> QED
    BY <2>2, <2>3, <2>4, <2>5, <2>6, TypeWhole DEF IInv
<1>2. CASE Next
  BY <1>2, PredictKeeps, PredictVisionKeeps, ScoreKeeps, DeliverKeeps, SpecRoundKeeps,
     DecodeOneKeeps, PipelinedKeeps, SetSessionReuseKeeps, SetSpeculationKeeps,
     SetPrefixCacheKeeps, ConfigureKeeps, SetLoraKeeps, EmptiedKeeps, CancelKeeps,
     SaveSessionKeeps, LoadSessionKeeps, DirectoryKeeps, LoadPrefixKeeps, RestartKeeps
  DEF Next
<1> QED
  BY <1>1, <1>2

\* The invariant every result here rests on: the cache, the step in flight
\* and every copy agree with the tokens they are filed under.
THEOREM SessionInductive ==
  ASSUME PlaceholderReserved
  PROVE  Spec => []IInv
<1>1. Init => IInv
  BY Initial
<1>2. IInv /\ [Next]_vars => IInv'
  BY Preserved
<1> QED
  BY <1>1, <1>2, PTL DEF Spec

\* Every variable of the context keeps a value of its kind through every call.
THEOREM SessionTyped ==
  ASSUME PlaceholderReserved
  PROVE  Spec => []TypeOK
<1>1. IInv => TypeOK
  BY DEF IInv
<1> QED
  BY <1>1, SessionInductive, PTL

\* kv_tokens lists exactly the tokens whose K/V are in the cache whenever
\* kv_valid says so, so no prompt is ever given the K/V of another text.
THEOREM CacheNeverLies ==
  ASSUME PlaceholderReserved
  PROVE  Spec => []CacheFaithful
<1>1. IInv => CacheFaithful
  BY DEF IInv
<1> QED
  BY <1>1, SessionInductive, PTL

\* Every entry of the prefix store, session file and prefix file pairs its
\* tokens with the rows computed from them, so restoring one is always sound.
THEOREM CopiesNeverLie ==
  ASSUME PlaceholderReserved
  PROVE  Spec => []CopiesFaithful
<1>1. IInv => CopiesFaithful
  BY DEF IInv, Copies, Restorable, Saved, CopiesFaithful
<1> QED
  BY <1>1, SessionInductive, PTL
-----------------------------------------------------------------------------
(***************************************************************************)
(* What the caller is told.                                                *)
(***************************************************************************)
\* The application leaves speculation on once it is on, and no device step
\* fails behind one already answered: either would lose a token.
KeepsEveryToken == 0 \notin DraftLimits /\ ~(Faults /\ Cuda)

\* A sequence handed out from its head keeps what is said and queued.
LEMMA HandOut ==
  ASSUME NEW s \in Seq(Tokens), NEW q \in Seq(Tokens), q # <<>>
  PROVE  /\ Head(q) \in Tokens /\ Tail(q) \in Seq(Tokens)
         /\ Append(s, Head(q)) \in Seq(Tokens)
         /\ Append(s, Head(q)) \o Tail(q) = s \o q
<1> DEFINE h == Head(q)
           r == Tail(q)
<1>1. h \in Tokens /\ r \in Seq(Tokens)
  BY HeadTailProperties
<1>2. <<h>> \o r = q
  <2>1. Len(q) \in Nat \ {0} /\ 1 \in 1..Len(q) /\ Len(q) \in 1..Len(q)
    BY EmptySeq
  <2>2. SubSeq(q, 1, Len(q)) = <<q[1]>> \o SubSeq(q, 1 + 1, Len(q))
    BY <2>1, SubSeqRecursiveFirst
  <2>3. SubSeq(q, 1, Len(q)) = q /\ Tail(q) = SubSeq(q, 2, Len(q)) /\ 1 + 1 = 2
    BY SubSeqFull, TailIsSubSeq
  <2>4. Head(q) = q[1]
    OBVIOUS
  <2> QED
    BY <2>2, <2>3, <2>4
<1> HIDE DEF h, r
<1>3. Append(s, h) = s \o <<h>> /\ <<h>> \in Seq(Tokens) /\ Append(s, h) \in Seq(Tokens)
  BY <1>1, AppendIsConcat, One
<1>4. (s \o <<h>>) \o r = s \o (<<h>> \o r)
  BY <1>1, <1>3, ConcatAssociative
<1> QED
  BY <1>1, <1>2, <1>3, <1>4 DEF h, r

\* Concatenation keeps the kind.
LEMMA Joined ==
  ASSUME NEW s \in Seq(Tokens), NEW q \in Seq(Tokens)
  PROVE  s \o q \in Seq(Tokens)
BY ConcatProperties

\* Concatenation is associative.
LEMMA Regroup ==
  \A a, b, c \in Seq(Tokens) : (a \o b) \o c = a \o (b \o c)
BY ConcatAssociative

\* A new generation has told its prompt and one token.
LEMMA BeginNoGap ==
  ASSUME TypeOK, NEW p \in Seq(Tokens), NEW rows, Begin(p, rows)
  PROVE  NoGap'
<1>1. PICK t \in Draws(Toks(rows)) :
        /\ last' = t /\ history' = p /\ queue' = <<>> /\ text' = Append(p, t)
  BY DEF Begin
<1>2. t \in Tokens
  BY DEF Draws
<1>3. Append(p, t) \in Seq(Tokens)
  BY <1>2, AppendProperties
<1>4. Append(p, t) \o <<>> = Append(p, t)
  BY <1>3, ConcatEmptySeq
<1> QED
  BY <1>1, <1>4 DEF NoGap

\* A token decoded is told at once, when nothing is queued before it.
LEMMA ReturnedNoGap ==
  ASSUME TypeOK, NoGap, Decoding, NEW t \in Tokens, Returned(t),
         history' = Append(history, last)
  PROVE  NoGap'
<1>1. queue = <<>> /\ hasSession /\ queue' = <<>> /\ last' = t /\ text' = Append(text, t)
  BY DEF Decoding, Answering, Returned
<1>2. text \in Seq(Tokens) /\ Append(text, t) \in Seq(Tokens)
  BY AppendProperties DEF TypeOK
<1>3. text = Append(history, last)
  BY <1>1, <1>2, ConcatEmptySeq DEF NoGap
<1>4. Append(text, t) \o <<>> = Append(text, t)
  BY <1>2, ConcatEmptySeq
<1> QED
  BY <1>1, <1>3, <1>4 DEF NoGap

\* What a round consumes, l the token to consume and k tokens of the draft, and
\* what it answers, those k tokens and the one drawn last.
Eaten(l, draft, k) == SubSeq(<<l>> \o draft, 1, k + 1)
\* What a round of speculation answers: the accepted guesses and the token drawn after them.
Outs(draft, k, t) == Append(SubSeq(draft, 1, k), t)

\* The answer follows what was told as it follows the history h and l.
LEMMA RoundText ==
  ASSUME NEW h \in Seq(Tokens), NEW l \in Tokens, NEW draft \in Seq(Tokens),
         NEW k \in 0..Len(draft), NEW t \in Tokens
  PROVE  /\ Outs(draft, k, t) \in Seq(Tokens) /\ Outs(draft, k, t) # <<>>
         /\ h \o Eaten(l, draft, k) = Append(h, l) \o SubSeq(draft, 1, k)
         /\ Append(h, l) \o Outs(draft, k, t) = Append(h \o Eaten(l, draft, k), t)
<1> DEFINE kept == SubSeq(draft, 1, k)
           lk == <<l>> \o kept
           hl == Append(h, l)
           hk == h \o lk
<1>1. <<l>> \in Seq(Tokens) /\ <<t>> \in Seq(Tokens) /\ Len(<<l>>) = 1
  BY One
<1>2. kept \in Seq(Tokens)
  BY FrontOf
<1>3. Eaten(l, draft, k) = lk
  <2>1. SubSeq(<<l>> \o draft, 1, Len(<<l>>) + k) = <<l>> \o SubSeq(draft, 1, k)
    BY <1>1, FrontOfConcat
  <2>2. Len(<<l>>) + k = k + 1
    BY <1>1
  <2> QED
    BY <2>1, <2>2 DEF Eaten
<1> HIDE DEF kept
<1>4. hl \in Seq(Tokens) /\ hl = h \o <<l>>
  BY AppendProperties, AppendIsConcat
<1>5. hl \o kept = hk
  BY <1>1, <1>2, <1>4, ConcatAssociative
<1>6. lk \in Seq(Tokens)
  BY <1>1, <1>2, ConcatProperties
<1> HIDE DEF lk, hl
<1>7. hk \in Seq(Tokens)
  BY <1>6, ConcatProperties
<1> HIDE DEF hk
<1>8. Append(kept, t) \in Seq(Tokens) /\ Append(kept, t) # <<>> /\ Append(kept, t) = kept \o <<t>>
  BY <1>2, AppendProperties, AppendIsConcat
<1>9. hl \o Append(kept, t) = Append(hk, t)
  <2>1. (hl \o kept) \o <<t>> = hl \o (kept \o <<t>>)
    BY <1>1, <1>2, <1>4, ConcatAssociative
  <2>2. Append(hk, t) = hk \o <<t>>
    BY <1>7, AppendIsConcat
  <2> QED
    BY <1>5, <1>8, <2>1, <2>2
<1> QED
  BY <1>3, <1>5, <1>8, <1>9 DEF kept, lk, hl, hk, Outs

\* What a round consumed, drew and kept, told or queued.
LEMMA RoundNoGap ==
  ASSUME TypeOK, NoGap, Decoding, NEW draft \in Seq(Tokens), NEW k \in 0..Len(draft),
         NEW t \in Tokens,
         history' = history \o Eaten(last, draft, k), last' = t,
         queue' = Tail(Outs(draft, k, t)),
         text' = Append(text, Head(Outs(draft, k, t)))
  PROVE  NoGap'
<1> DEFINE outs == Outs(draft, k, t)
<1>1. last \in Tokens /\ text \in Seq(Tokens) /\ history \in Seq(Tokens)
  BY DEF TypeOK
<1>2. text = Append(history, last)
  <2>1. queue = <<>> /\ hasSession
    BY DEF Decoding, Answering
  <2> QED
    BY <1>1, <2>1, ConcatEmptySeq DEF NoGap
<1>3. /\ outs \in Seq(Tokens) /\ outs # <<>>
      /\ Append(history, last) \o outs = Append(history \o Eaten(last, draft, k), t)
  BY <1>1, RoundText
<1> HIDE DEF outs
<1>4. Append(text, Head(outs)) \o Tail(outs) = text \o outs
  BY <1>1, <1>3, HandOut
<1>5. queue' = Tail(outs) /\ text' = Append(text, Head(outs))
  BY DEF outs
<1> QED
  BY <1>2, <1>3, <1>4, <1>5 DEF NoGap

\* Nothing is lost where nothing is said.
LEMMA NoGapKept ==
  ASSUME NoGap, UNCHANGED <<history, last, queue, text>>, hasSession' => hasSession
  PROVE  NoGap'
BY DEF NoGap

\* A prefill begins a generation or leaves the one there is.
LEMMA PrefillNoGap ==
  ASSUME TypeOK, NoGap, NEW p \in Seq(Tokens), NEW rows, NEW n, NEW kept,
         Prefill(p, rows, n, kept)
  PROVE  NoGap'
<1>1. \/ \E filled : Begin(p, filled)
      \/ UNCHANGED <<gen, text>>
  BY DEF Prefill
<1>2. CASE UNCHANGED <<gen, text>>
  BY <1>2, NoGapKept DEF gen
<1> QED
  BY <1>1, <1>2, BeginNoGap

\* No call loses, repeats or reorders a token.
LEMMA NextNoGap ==
  ASSUME KeepsEveryToken, IInv, NoGap, [Next]_vars
  PROVE  NoGap'
<1>0. TypeOK
  BY DEF IInv
<1>1. ASSUME NEW p \in Prompts, Predict(p)
      PROVE  NoGap'
  <2>1. p \in Seq(Tokens)
    BY PromptAssumption
  <2>2. \E rows, n, kept : Prefill(p, rows, n, kept)
    BY <1>1 DEF Predict
  <2> QED
    BY <1>0, <2>1, <2>2, PrefillNoGap
<1>2. ASSUME NEW p \in VisionPrompts, PredictVision(p)
      PROVE  NoGap'
  <2>1. p \in Seq(Tokens)
    BY PromptAssumption
  <2>2. (\E rows : Begin(p, rows)) \/ UNCHANGED <<gen, text>>
    BY <1>2 DEF PredictVision
  <2>3. CASE UNCHANGED <<gen, text>>
    BY <2>3, NoGapKept DEF gen
  <2> QED
    BY <1>0, <2>1, <2>2, <2>3, BeginNoGap
<1>3. CASE Deliver
  <2>1. /\ queue # <<>> /\ queue' = Tail(queue) /\ text' = Append(text, Head(queue))
        /\ UNCHANGED <<hasSession, last, history>>
    BY <1>3 DEF Deliver
  <2>2. text \in Seq(Tokens) /\ queue \in Seq(Tokens)
    BY <1>0 DEF TypeOK
  <2>3. text' \o queue' = text \o queue
    BY <2>1, <2>2, HandOut
  <2> QED
    BY <2>1, <2>3 DEF NoGap
<1>4. CASE SpecRound
  <2>1. Decoding /\ UNCHANGED hasSession
    BY <1>4 DEF SpecRound
  <2>2. PICK draft \in Drafts :
          \/ \E k \in 0..Len(draft) : \E t \in Tokens :
                /\ history' = history \o Eaten(last, draft, k)
                /\ last' = t
                /\ queue' = Tail(Outs(draft, k, t))
                /\ text' = Append(text, Head(Outs(draft, k, t)))
          \/ UNCHANGED <<history, last, queue, text>>
    BY <1>4 DEF SpecRound, Draws, Eaten, Outs
  <2>3. draft \in Seq(Tokens)
    BY <1>0, DraftTokens
  <2>4. CASE UNCHANGED <<history, last, queue, text>>
    BY <2>1, <2>4, NoGapKept
  <2> QED
    BY <1>0, <2>1, <2>2, <2>3, <2>4, RoundNoGap
<1>5. CASE DecodeOne
  <2>1. Decoding /\ UNCHANGED hasSession
    BY <1>5 DEF DecodeOne
  <2>2. \/ history' = Append(history, last) /\ \E t \in Tokens : Returned(t)
        \/ UNCHANGED <<history, last, queue, text>>
    BY <1>5 DEF DecodeOne, DecodeFails, Draws
  <2>3. CASE UNCHANGED <<history, last, queue, text>>
    BY <2>1, <2>3, NoGapKept
  <2> QED
    BY <1>0, <2>1, <2>2, <2>3, ReturnedNoGap
<1>6. CASE Pipelined
  <2>1. Decoding /\ UNCHANGED hasSession /\ ~Faults
    BY <1>6 DEF Pipelined, KeepsEveryToken
  <2>2. history' = Append(history, last) /\ \E t \in Tokens : Returned(t)
    BY <1>6, <2>1 DEF Pipelined, DecodeFails, Draws
  <2> QED
    BY <1>0, <2>1, <2>2, ReturnedNoGap
<1>7. ASSUME NEW d \in DraftLimits, SetSpeculation(d)
      PROVE  NoGap'
  <2>1. UNCHANGED <<history, last, queue, text, hasSession>>
    BY <1>7 DEF SetSpeculation, KeepsEveryToken, ghosts
  <2> QED
    BY <2>1, NoGapKept
<1>8. CASE (\E ts \in Texts : \E from \in 1..Len(ts) : Score(ts, from)) \/ SessionReset \/ Restart
  BY <1>8 DEF Score, SessionReset, Restart, NoGap
<1>9. CASE LoadSession
  <2>1. hasSession' = FALSE \/ UNCHANGED <<gen, text>>
    BY <1>9 DEF LoadSession, ghosts
  <2> QED
    BY <2>1, NoGapKept DEF NoGap, gen
<1>10. CASE \/ \E m \in Modes : SetSessionReuse(m)
            \/ \E b \in Budgets : SetPrefixCache(b)
            \/ Configure
            \/ \E w \in Weights : SetLora(w)
            \/ TrimCache \/ Cancel \/ SavePrefixes \/ LoadPrefixes
            \/ \E n \in 0..MaxLen : SaveSession(n)
            \/ \E f \in loading : LoadPrefix(f)
            \/ UNCHANGED vars
  <2>1. UNCHANGED <<gen, text>>
    BY <1>10 DEF SetSessionReuse, SetPrefixCache, Configure, SetLora, TrimCache, Cancel,
                 SavePrefixes, LoadPrefixes, SaveSession, LoadPrefix, vars, ghosts
  <2> QED
    BY <2>1, NoGapKept DEF gen
<1> QED
  BY <1>1, <1>2, <1>3, <1>4, <1>5, <1>6, <1>7, <1>8, <1>9, <1>10 DEF Next

\* No token is lost, repeated or reordered on its way to the caller, whichever
\* of the decode paths of engine_next_token it takes.
THEOREM NothingIsLost ==
  ASSUME PlaceholderReserved, KeepsEveryToken
  PROVE  Spec => []NoGap
<1>1. Init => NoGap
  BY DEF Init, NoGap
<1>2. IInv /\ NoGap /\ [Next]_vars => NoGap'
  BY NextNoGap
<1> QED
  BY <1>1, <1>2, SessionInductive, PTL DEF Spec
-----------------------------------------------------------------------------
(***************************************************************************)
(* What each token is drawn after.                                         *)
(***************************************************************************)
\* No step fails, no call is interrupted, and the cache is not dropped under
\* an open generation: each leaves the generation as it was and the cache empty.
Undisturbed == ~Faults /\ "cancel" \notin Calls /\ "trim" \notin Calls

\* Rows whose tokens are toks.
LEMMA ToksAre ==
  ASSUME NEW rows \in Seq(Row), NEW toks \in Seq(Tokens), Len(toks) = Len(rows),
         \A i \in 1..Len(rows) : rows[i].tok = toks[i]
  PROVE  Toks(rows) = toks
<1>1. Toks(rows) \in Seq(Tokens) /\ Len(Toks(rows)) = Len(rows)
  BY ToksFacts
<1>2. \A i \in 1..Len(rows) : Toks(rows)[i] = toks[i]
  BY DEF Toks
<1> QED
  BY <1>1, <1>2, SeqEqual

\* The token of one row.
LEMMA ToksAt ==
  ASSUME NEW rows, NEW i \in 1..Len(rows)
  PROVE  Toks(rows)[i] = rows[i].tok
BY DEF Toks

\* Rows that match toks have these tokens.
LEMMA ToksOfFaithful ==
  ASSUME NEW rows \in Seq(Row), NEW toks \in Seq(Tokens), Faithful(toks, rows)
  PROVE  Toks(rows) = toks
BY ToksAre DEF Faithful

\* One row more is one token more.
LEMMA ToksGrown ==
  ASSUME NEW base \in Seq(Row), NEW grown \in Seq(Row), NEW t \in Tokens,
         Len(grown) = Len(base) + 1,
         \A i \in 1..Len(base) : grown[i] = base[i],
         grown[Len(base) + 1].tok = t
  PROVE  Toks(grown) = Append(Toks(base), t)
<1> DEFINE b == Toks(base)
           g == Append(b, t)
<1>1. b \in Seq(Tokens) /\ Len(b) = Len(base) /\ Len(base) \in Nat
  BY ToksFacts, LenProperties
<1>2. \A i \in 1..Len(base) : b[i] = base[i].tok
  BY ToksAt
<1> HIDE DEF b
<1>3. /\ g \in Seq(Tokens) /\ Len(g) = Len(b) + 1
      /\ \A i \in 1..Len(b) : g[i] = b[i]
      /\ g[Len(b) + 1] = t
  BY <1>1, AppendProperties
<1> HIDE DEF g
<1>4. ASSUME NEW i \in 1..Len(grown)
      PROVE  grown[i].tok = g[i]
  <2>1. CASE i = Len(base) + 1
    BY <1>1, <1>3, <2>1
  <2>2. CASE i # Len(base) + 1
    <3>1. i \in 1..Len(base)
      BY <1>1, <2>2
    <3> QED
      BY <1>1, <1>2, <1>3, <3>1
  <2> QED
    BY <2>1, <2>2
<1>5. Len(g) = Len(grown)
  BY <1>1, <1>3
<1>6. Toks(grown) = g
  BY <1>3, <1>4, <1>5, ToksAre
<1> QED
  BY <1>6 DEF g, b

\* The rows of a round, as far as i tokens of what it feeds.
LEMMA RoundToks ==
  ASSUME TypeOK, NEW base \in Seq(Row), NEW in \in Seq(Tokens), NEW i \in 0..Len(in)
  PROVE  LET rows == SubSeq(base \o Compute(in, "verify"), 1, Len(base) + i)
         IN rows \in Seq(Row) /\ Toks(rows) = Toks(base) \o SubSeq(in, 1, i)
<1> DEFINE new == Compute(in, "verify")
           part == SubSeq(new, 1, i)
           fed == SubSeq(in, 1, i)
           b == Toks(base)
<1>1. /\ new \in Seq(Row) /\ Len(new) = Len(in)
      /\ \A j \in 1..Len(in) : new[j].tok = in[j]
  BY ComputeFacts DEF TypeOK, Kinds
<1> HIDE DEF new
<1>2. /\ part \in Seq(Row) /\ Len(part) = i /\ \A j \in 1..i : part[j] = new[j]
      /\ SubSeq(base \o new, 1, Len(base) + i) = base \o part
  BY <1>1, FrontOf, FrontOfConcat
<1>3. fed \in Seq(Tokens) /\ Len(fed) = i /\ \A j \in 1..i : fed[j] = in[j]
  BY FrontOf
<1>4. Len(in) \in Nat /\ Len(base) \in Nat /\ b \in Seq(Tokens) /\ Len(b) = Len(base)
  BY ToksFacts, LenProperties
<1>5. \A j \in 1..Len(base) : b[j] = base[j].tok
  BY ToksAt
<1> HIDE DEF part, fed, b
<1> DEFINE whole == base \o part
           said == b \o fed
<1>6. /\ whole \in Seq(Row) /\ Len(whole) = Len(base) + Len(part)
      /\ \A j \in 1..Len(base) + Len(part) :
            whole[j] = IF j <= Len(base) THEN base[j] ELSE part[j - Len(base)]
  BY <1>2, ConcatProperties
<1>7. /\ said \in Seq(Tokens) /\ Len(said) = Len(b) + Len(fed)
      /\ \A j \in 1..Len(b) + Len(fed) :
            said[j] = IF j <= Len(b) THEN b[j] ELSE fed[j - Len(b)]
  BY <1>3, <1>4, ConcatProperties
<1> HIDE DEF whole, said
<1>8. ASSUME NEW j \in 1..Len(whole)
      PROVE  whole[j].tok = said[j]
  <2>1. CASE j <= Len(base)
    <3>1. whole[j] = base[j] /\ said[j] = b[j] /\ j \in 1..Len(base)
      BY <1>2, <1>3, <1>4, <1>6, <1>7, <2>1
    <3> QED
      BY <1>5, <3>1
  <2>2. CASE ~(j <= Len(base))
    <3>1. /\ whole[j] = part[j - Len(base)] /\ said[j] = fed[j - Len(base)]
          /\ j - Len(base) \in 1..i /\ j - Len(base) \in 1..Len(in)
      BY <1>2, <1>3, <1>4, <1>6, <1>7, <2>2
    <3> QED
      BY <1>1, <1>2, <1>3, <3>1
  <2> QED
    BY <2>1, <2>2
<1>9. Len(said) = Len(whole)
  BY <1>2, <1>3, <1>4, <1>6, <1>7
<1>10. Toks(whole) = said
  BY <1>6, <1>7, <1>8, <1>9, ToksAre
<1> QED
  BY <1>2, <1>6, <1>10 DEF whole, said, b, fed, part, new

\* The settled rows of an open generation are those of its history.
LEMMA SettledContext ==
  ASSUME TypeOK, InFlight, InContext, hasSession
  PROVE  Toks(Settled) = history
<1>1. /\ cache \in Seq(Row) /\ history \in Seq(Tokens) /\ last \in Tokens /\ pipe \in BOOLEAN
      /\ Len(history) \in Nat
  BY LenProperties DEF TypeOK
<1>2. CASE ~pipe
  BY <1>2 DEF Settled, InContext
<1>3. CASE pipe
  <2> DEFINE all == Append(history, last)
             n == Len(history)
  <2>1. Toks(cache) = all /\ Settled = SubSeq(cache, 1, Len(cache) - 1)
    BY <1>3 DEF InContext, Settled
  <2>2. /\ all \in Seq(Tokens) /\ Len(all) = n + 1 /\ \A i \in 1..n : all[i] = history[i]
    BY <1>1, AppendProperties
  <2>3. Len(cache) = n + 1 /\ Len(cache) - 1 = n /\ n \in 0..Len(cache)
    BY <1>1, <2>1, <2>2, ToksFacts
  <2> HIDE DEF all, n
  <2>4. /\ Settled \in Seq(Row) /\ Len(Settled) = n
        /\ \A i \in 1..n : Settled[i] = cache[i]
    BY <1>1, <2>1, <2>3, FrontOf
  <2>5. ASSUME NEW i \in 1..n
        PROVE  Settled[i].tok = history[i]
    <3>1. i \in 1..Len(cache)
      BY <2>3
    <3>2. Toks(cache)[i] = cache[i].tok
      BY <3>1, ToksAt
    <3> QED
      BY <2>1, <2>2, <2>4, <3>2
  <2>6. Len(history) = n
    BY DEF n
  <2> QED
    BY <1>1, <2>4, <2>5, <2>6, ToksAre
<1> QED
  BY <1>1, <1>2, <1>3

\* With nothing in flight after the call.
LEMMA SettledKeepsContext ==
  ASSUME TypeOK, InFlight, InContext, cache' = Settled, pipe' = FALSE,
         hasSession' => hasSession, history' = history
  PROVE  InContext'
<1>1. InContext' <=> (hasSession' => Toks(cache') = history')
  BY DEF InContext, Toks
<1>2. Toks(cache') = Toks(Settled)
  OBVIOUS
<1> QED
  BY <1>1, <1>2, SettledContext

\* The context stays where cache and history stay.
LEMMA ContextKept ==
  ASSUME InContext, UNCHANGED <<cache, pipe, history, last>>, hasSession' => hasSession
  PROVE  InContext'
BY DEF InContext, Toks

\* Without a generation there is no context to keep.
LEMMA Closed ==
  ASSUME hasSession' = FALSE
  PROVE  InContext'
BY DEF InContext

\* A prompt is consumed whole before its first token is drawn.
LEMMA PromptConsumed ==
  ASSUME Undisturbed, IInv, IInv', NEW p \in Prompts, Predict(p)
  PROVE  /\ cancel' = FALSE /\ Toks(cache') = p /\ Begin(p, cache')
         /\ pipe' = FALSE
<1>1. \E rows, n, kept : Prefill(p, rows, n, kept)
  BY DEF Predict
<1>2. /\ pipe' = FALSE /\ cancel' = FALSE /\ kvTokens' = p /\ kvValid' = TRUE
      /\ Begin(p, cache')
  BY <1>1 DEF Prefill, Interrupted, Undisturbed
<1>3. Faithful(kvTokens', Settled') /\ Settled' = cache'
  BY <1>2, Drained DEF IInv, CacheFaithful
<1>4. kvTokens' \in Seq(Tokens) /\ cache' \in Seq(Row)
  BY DEF IInv, TypeOK
<1>5. Toks(cache') = p
  BY <1>2, <1>3, <1>4, ToksOfFaithful
<1> QED
  BY <1>2, <1>5

\* A prompt with images is consumed whole before its first token is drawn.
LEMMA VisionConsumed ==
  ASSUME Undisturbed, IInv', ~cancel, NEW p \in VisionPrompts, PredictVision(p)
  PROVE  /\ cancel' = cancel /\ Toks(cache') = p /\ Begin(p, cache')
         /\ pipe' = FALSE
<1>1. /\ pipe' = FALSE /\ cancel' = cancel /\ Begin(p, cache')
      /\ Len(cache') = Len(p) /\ \A i \in 1..Len(cache') : cache'[i].tok = p[i]
  <2> DEFINE row(i) == [tok |-> p[i], w |-> weights, img |-> p[i] = Img,
                        kind |-> IF Len(p) = 1 THEN "lone" ELSE "prefill"]
  <2>1. /\ pipe' = FALSE /\ cancel' = cancel /\ Begin(p, cache')
        /\ cache' = [i \in 1..Len(p) |-> row(i)]
    BY DEF PredictVision, Undisturbed
  <2>2. p \in Seq(Tokens) /\ cache' \in Seq(Row)
    BY PromptAssumption DEF IInv, TypeOK
  <2>3. DOMAIN cache' = 1..Len(cache') /\ Len(cache') \in Nat /\ Len(p) \in Nat
    BY <2>2, LenProperties
  <2>4. DOMAIN cache' = 1..Len(p)
    BY <2>1
  <2>5. Len(cache') = Len(p)
    BY <2>3, <2>4
  <2> QED
    BY <2>1, <2>5
<1>2. p \in Seq(Tokens) /\ cache' \in Seq(Row)
  BY PromptAssumption DEF IInv, TypeOK
<1>3. Toks(cache') = p
  BY <1>1, <1>2, ToksAre
<1> QED
  BY <1>1, <1>3

\* A generation that begins on its prompt is in its context.
LEMMA BegunInContext ==
  ASSUME NEW p, Toks(cache') = p, Begin(p, cache'), pipe' = FALSE
  PROVE  InContext'
BY DEF Begin, InContext, Toks

\* One token consumed alone.
LEMMA OneInContext ==
  ASSUME Undisturbed, IInv, InContext, DecodeOne
  PROVE  /\ InContext' /\ history' = Append(history, last)
         /\ \E t \in Draws(Append(history, last)) : Returned(t)
<1> DEFINE grown == Settled \o Compute(<<last>>, "decode")
<1>1. TypeOK /\ InFlight /\ last \in Tokens /\ Settled \in Seq(Row) /\ "decode" \in Kinds
  BY SettledFacts DEF IInv, TypeOK, Kinds
<1>2. /\ hasSession /\ pipe' = FALSE /\ cache' = grown
      /\ history' = Append(history, last)
      /\ \E t \in Draws(Toks(grown)) : Returned(t)
  BY DEF DecodeOne, DecodeFails, Undisturbed, Decoding, Answering
<1>3. /\ grown \in Seq(Row) /\ Len(grown) = Len(Settled) + 1
      /\ \A i \in 1..Len(Settled) : grown[i] = Settled[i]
      /\ grown[Len(Settled) + 1].tok = last
  BY <1>1, GrownByOne
<1> HIDE DEF grown
<1>4. Toks(grown) = Append(history, last)
  BY <1>1, <1>2, <1>3, ToksGrown, SettledContext
<1>5. Toks(cache)' = Toks(cache')
  BY DEF Toks
<1> QED
  BY <1>2, <1>4, <1>5 DEF InContext

\* One token consumed, and the step of the next one sent after it.
LEMMA PipelinedInContext ==
  ASSUME Undisturbed, IInv, InContext, Pipelined
  PROVE  /\ InContext' /\ history' = Append(history, last)
         /\ \E t \in Draws(Append(history, last)) : Returned(t)
<1> DEFINE grown == IF pipe THEN cache ELSE cache \o Compute(<<last>>, "decode")
<1>1. /\ TypeOK /\ InFlight /\ cache \in Seq(Row) /\ last \in Tokens
      /\ pipe \in BOOLEAN /\ "decode" \in Kinds
  BY DEF IInv, TypeOK, Kinds
<1>2. /\ hasSession /\ pipe' = TRUE /\ history' = Append(history, last)
      /\ \E t \in Draws(Toks(grown)) : cache' = grown \o Compute(<<t>>, "decode") /\ Returned(t)
  BY DEF Pipelined, DecodeFails, Undisturbed, Decoding, Answering
<1>3. grown \in Seq(Row) /\ Toks(grown) = Append(history, last)
  <2>1. CASE pipe
    BY <1>1, <1>2, <2>1 DEF InContext
  <2>2. CASE ~pipe
    <3> DEFINE next == cache \o Compute(<<last>>, "decode")
    <3>1. /\ next \in Seq(Row) /\ Len(next) = Len(cache) + 1
          /\ \A i \in 1..Len(cache) : next[i] = cache[i]
          /\ next[Len(cache) + 1].tok = last
      BY <1>1, GrownByOne
    <3> HIDE DEF next
    <3>2. Toks(next) = Append(Toks(cache), last)
      BY <1>1, <3>1, ToksGrown
    <3>3. Toks(cache) = history
      BY <1>2, <2>2 DEF InContext
    <3> QED
      BY <2>2, <3>1, <3>2, <3>3 DEF next
  <2> QED
    BY <1>1, <2>1, <2>2
<1> HIDE DEF grown
<1>4. PICK t \in Draws(Toks(grown)) : cache' = grown \o Compute(<<t>>, "decode") /\ Returned(t)
  BY <1>2
<1> DEFINE sent == grown \o Compute(<<t>>, "decode")
<1>5. t \in Tokens
  BY DEF Draws
<1>6. /\ sent \in Seq(Row) /\ Len(sent) = Len(grown) + 1
      /\ \A i \in 1..Len(grown) : sent[i] = grown[i]
      /\ sent[Len(grown) + 1].tok = t
  BY <1>1, <1>3, <1>5, GrownByOne
<1> HIDE DEF sent
<1>7. Toks(sent) = Append(Toks(grown), t)
  BY <1>3, <1>5, <1>6, ToksGrown
<1>8. cache' = sent /\ last' = t /\ Toks(cache)' = Toks(cache')
  BY <1>4 DEF Returned, Toks, sent
<1> QED
  BY <1>2, <1>3, <1>4, <1>7, <1>8 DEF InContext

\* A text that goes on with s is said to whoever holds q of it in order.
Sayable(s, q) == \A i \in 1..Len(q) : q[i] \in Draws(s \o SubSeq(q, 1, i - 1))

\* What the answer of a round is drawn after.
LEMMA RoundSays ==
  ASSUME NEW s \in Seq(Tokens), NEW draft \in Seq(Tokens), NEW k \in 0..Len(draft),
         NEW t \in Tokens,
         \A i \in 1..k : draft[i] \in Draws(s \o SubSeq(draft, 1, i - 1)),
         t \in Draws(s \o SubSeq(draft, 1, k))
  PROVE  Sayable(s, Outs(draft, k, t))
<1> DEFINE kept == SubSeq(draft, 1, k)
           outs == Append(kept, t)
<1>1. kept \in Seq(Tokens) /\ Len(kept) = k /\ \A i \in 1..k : kept[i] = draft[i]
  BY FrontOf
<1> HIDE DEF kept
<1>2. /\ outs \in Seq(Tokens) /\ Len(outs) = k + 1
      /\ \A i \in 1..k : outs[i] = draft[i]
      /\ outs[k + 1] = t
  BY <1>1, AppendProperties
<1> HIDE DEF outs
<1>3. Len(draft) \in Nat /\ k \in Nat
  BY LenProperties
<1>4. ASSUME NEW i \in 1..k + 1
      PROVE  SubSeq(outs, 1, i - 1) = SubSeq(draft, 1, i - 1)
  <2>1. i - 1 \in 0..Len(outs) /\ i - 1 \in 0..Len(draft)
    BY <1>2, <1>3
  <2>2. /\ SubSeq(outs, 1, i - 1) \in Seq(Tokens) /\ Len(SubSeq(outs, 1, i - 1)) = i - 1
        /\ \A j \in 1..i - 1 : SubSeq(outs, 1, i - 1)[j] = outs[j]
    BY <1>2, <2>1, FrontOf
  <2>3. /\ SubSeq(draft, 1, i - 1) \in Seq(Tokens) /\ Len(SubSeq(draft, 1, i - 1)) = i - 1
        /\ \A j \in 1..i - 1 : SubSeq(draft, 1, i - 1)[j] = draft[j]
    BY <2>1, FrontOf
  <2>4. \A j \in 1..i - 1 : outs[j] = draft[j]
    BY <1>2, <1>3
  <2> QED
    BY <2>2, <2>3, <2>4, SeqEqual
<1>5. ASSUME NEW i \in 1..Len(outs)
      PROVE  outs[i] \in Draws(s \o SubSeq(outs, 1, i - 1))
  <2>1. SubSeq(outs, 1, i - 1) = SubSeq(draft, 1, i - 1)
    BY <1>2, <1>4
  <2>2. CASE i = k + 1
    <3>1. i - 1 = k
      BY <1>3, <2>2
    <3> QED
      BY <1>2, <2>1, <2>2, <3>1
  <2>3. CASE i # k + 1
    <3>1. i \in 1..k
      BY <1>2, <1>3, <2>3
    <3> QED
      BY <1>2, <2>1, <3>1
  <2> QED
    BY <2>2, <2>3
<1>6. outs = Outs(draft, k, t)
  BY DEF outs, kept, Outs
<1> QED
  BY <1>5, <1>6 DEF Sayable

\* The first of the tokens may be said now, the others after it.
LEMMA SayFirst ==
  ASSUME NEW s \in Seq(Tokens), NEW q \in Seq(Tokens), q # <<>>, Sayable(s, q)
  PROVE  Head(q) \in Draws(s) /\ Sayable(Append(s, Head(q)), Tail(q))
<1> DEFINE h == Head(q)
           r == Tail(q)
<1>1. /\ h \in Tokens /\ r \in Seq(Tokens) /\ Len(r) = Len(q) - 1 /\ Len(q) \in Nat \ {0}
      /\ \A i \in 1..Len(r) : r[i] = q[i + 1]
      /\ h = q[1]
  BY HeadTailProperties, EmptySeq
<1>2. h \in Draws(s)
  <2>1. q[1] \in Draws(s \o SubSeq(q, 1, 1 - 1)) /\ SubSeq(q, 1, 1 - 1) = <<>>
    BY <1>1, SubSeqEmpty DEF Sayable
  <2>2. s \o <<>> = s
    BY ConcatEmptySeq
  <2> QED
    BY <1>1, <2>1, <2>2
<1>3. <<h>> \o r = q
  <2>1. 1 \in 1..Len(q) /\ Len(q) \in 1..Len(q)
    BY <1>1
  <2>2. SubSeq(q, 1, Len(q)) = <<q[1]>> \o SubSeq(q, 1 + 1, Len(q))
    BY <2>1, SubSeqRecursiveFirst
  <2>3. SubSeq(q, 1, Len(q)) = q /\ Tail(q) = SubSeq(q, 2, Len(q)) /\ 1 + 1 = 2
    BY SubSeqFull, TailIsSubSeq
  <2> QED
    BY <1>1, <2>2, <2>3
<1> HIDE DEF h, r
<1>4. ASSUME NEW i \in 1..Len(r)
      PROVE  r[i] \in Draws(Append(s, h) \o SubSeq(r, 1, i - 1))
  <2>1. /\ i + 1 \in 1..Len(q) /\ i - 1 \in 0..Len(r) /\ (i + 1) - 1 = i
        /\ 1 + (i - 1) = i
    BY <1>1
  <2>2. q[i + 1] \in Draws(s \o SubSeq(q, 1, i))
    BY <2>1 DEF Sayable
  <2> DEFINE one == <<h>>
             f == SubSeq(r, 1, i - 1)
  <2>3. one \in Seq(Tokens) /\ Len(one) = 1 /\ f \in Seq(Tokens)
    BY <1>1, <2>1, One, FrontOf
  <2>4. SubSeq(one \o r, 1, Len(one) + (i - 1)) = one \o f
    BY <1>1, <2>1, <2>3, FrontOfConcat
  <2>5. SubSeq(q, 1, i) = one \o f
    BY <1>3, <2>1, <2>3, <2>4
  <2>6. Append(s, h) = s \o one
    BY <1>1, AppendIsConcat
  <2> HIDE DEF one, f
  <2>7. (s \o one) \o f = s \o (one \o f)
    BY <2>3, Regroup
  <2> QED
    BY <1>1, <2>2, <2>5, <2>6, <2>7 DEF f
<1> QED
  BY <1>2, <1>4 DEF Sayable, h, r

\* What a round leaves in the cache, and what its answer was drawn after.
LEMMA RoundInContext ==
  ASSUME Undisturbed, IInv, InContext, ~cancel, SpecRound
  PROVE  /\ InContext' /\ cancel' = cancel
         /\ \E draft \in Seq(Tokens) : \E k \in 0..Len(draft) : \E t \in Tokens :
               /\ history' = history \o Eaten(last, draft, k)
               /\ last' = t
               /\ queue' = Tail(Outs(draft, k, t))
               /\ text' = Append(text, Head(Outs(draft, k, t)))
               /\ Sayable(Append(history, last), Outs(draft, k, t))
<1>1. TypeOK /\ InFlight /\ last \in Tokens /\ Settled \in Seq(Row) /\ history \in Seq(Tokens)
  BY SettledFacts DEF IInv, TypeOK
<1>2. hasSession /\ Toks(Settled) = history
  BY <1>1, SettledContext DEF SpecRound, Decoding, Answering
<1> DEFINE in(draft) == <<last>> \o draft
           Part(draft, i) == SubSeq(Settled \o Compute(in(draft), "verify"), 1, Len(Settled) + i)
<1>3. PICK draft \in Drafts : \E k \in 0..Len(draft) : \E t \in Draws(Toks(Part(draft, k + 1))) :
        /\ \A i \in 1..k : draft[i] \in Draws(Toks(Part(draft, i)))
        /\ cache' = SubSeq(Settled \o Compute(in(draft), "verify"), 1, Len(Settled) + 1 + k)
        /\ history' = history \o Eaten(last, draft, k)
        /\ last' = t
        /\ queue' = Tail(Outs(draft, k, t))
        /\ text' = Append(text, Head(Outs(draft, k, t)))
        /\ cancel' = cancel
  BY DEF SpecRound, Undisturbed, Eaten, Outs
<1>4. PICK k \in 0..Len(draft) : \E t \in Draws(Toks(Part(draft, k + 1))) :
        /\ \A i \in 1..k : draft[i] \in Draws(Toks(Part(draft, i)))
        /\ cache' = SubSeq(Settled \o Compute(in(draft), "verify"), 1, Len(Settled) + 1 + k)
        /\ history' = history \o Eaten(last, draft, k)
        /\ last' = t
        /\ queue' = Tail(Outs(draft, k, t))
        /\ text' = Append(text, Head(Outs(draft, k, t)))
        /\ cancel' = cancel
  BY <1>3
<1>5. PICK t \in Draws(Toks(Part(draft, k + 1))) :
        /\ \A i \in 1..k : draft[i] \in Draws(Toks(Part(draft, i)))
        /\ cache' = SubSeq(Settled \o Compute(in(draft), "verify"), 1, Len(Settled) + 1 + k)
        /\ history' = history \o Eaten(last, draft, k)
        /\ last' = t
        /\ queue' = Tail(Outs(draft, k, t))
        /\ text' = Append(text, Head(Outs(draft, k, t)))
        /\ cancel' = cancel
  BY <1>4
<1>6. draft \in Seq(Tokens) /\ Len(draft) \in Nat /\ Len(Settled) \in Nat /\ k \in Nat
  BY <1>1, DraftTokens, LenProperties
<1>7. in(draft) \in Seq(Tokens) /\ Len(in(draft)) = Len(draft) + 1
  <2>1. <<last>> \in Seq(Tokens) /\ Len(<<last>>) = 1
    BY <1>1, One
  <2>2. in(draft) \in Seq(Tokens) /\ Len(in(draft)) = Len(<<last>>) + Len(draft)
    BY <1>6, <2>1, ConcatProperties
  <2> QED
    BY <1>6, <2>1, <2>2
<1>8. ASSUME NEW i \in 1..k + 1
      PROVE  Toks(Part(draft, i)) = history \o Eaten(last, draft, i - 1)
  <2> DEFINE fed == in(draft)
  <2>1. fed \in Seq(Tokens) /\ i \in 0..Len(fed)
    BY <1>6, <1>7
  <2> HIDE DEF fed
  <2>2. Toks(SubSeq(Settled \o Compute(fed, "verify"), 1, Len(Settled) + i))
          = Toks(Settled) \o SubSeq(fed, 1, i)
    BY <1>1, <2>1, RoundToks
  <2>3. SubSeq(fed, 1, i) = Eaten(last, draft, i - 1)
    <3>1. (i - 1) + 1 = i
      BY <1>6
    <3> QED
      BY <3>1 DEF Eaten, fed
  <2> QED
    BY <1>2, <2>2, <2>3 DEF fed
<1>9. ASSUME NEW i \in 1..k + 1
      PROVE  Toks(Part(draft, i)) = Append(history, last) \o SubSeq(draft, 1, i - 1)
  <2>1. i - 1 \in 0..Len(draft)
    BY <1>6
  <2>2. PICK u \in Tokens : TRUE
    BY <1>1
  <2>3. history \o Eaten(last, draft, i - 1) = Append(history, last) \o SubSeq(draft, 1, i - 1)
    BY <1>1, <1>6, <2>1, <2>2, RoundText
  <2> QED
    BY <1>8, <2>3
<1>10. cache' = Part(draft, k + 1)
  <2>1. Len(Settled) + 1 + k = Len(Settled) + (k + 1)
    BY <1>6
  <2> QED
    BY <1>5, <2>1
<1> HIDE DEF Part
<1>11. k + 1 \in 1..k + 1 /\ (k + 1) - 1 = k /\ \A i \in 1..k : i \in 1..k + 1
  BY <1>6
<1>12. Toks(cache') = history \o Eaten(last, draft, k)
  BY <1>8, <1>10, <1>11
<1>13. pipe' = FALSE /\ Toks(cache)' = Toks(cache')
  BY DEF SpecRound, Toks
<1>14. InContext'
  BY <1>5, <1>12, <1>13 DEF InContext
<1>15. t \in Tokens /\ Append(history, last) \in Seq(Tokens)
  BY <1>1, AppendProperties DEF Draws
<1>16. \A i \in 1..k : draft[i] \in Draws(Append(history, last) \o SubSeq(draft, 1, i - 1))
  BY <1>5, <1>9, <1>11
<1>17. t \in Draws(Append(history, last) \o SubSeq(draft, 1, k))
  BY <1>5, <1>9, <1>11
<1>18. Sayable(Append(history, last), Outs(draft, k, t))
  BY <1>6, <1>15, <1>16, <1>17, RoundSays
<1> QED
  BY <1>5, <1>6, <1>14, <1>15, <1>18

\* A generation goes on only with what it began with.
LEMMA NextInContext ==
  ASSUME Undisturbed, IInv, IInv', InContext, ~cancel, [Next]_vars
  PROVE  InContext' /\ ~cancel'
<1>0. TypeOK /\ InFlight
  BY DEF IInv
<1>1. ASSUME NEW p \in Prompts, Predict(p)
      PROVE  InContext' /\ ~cancel'
  BY <1>1, PromptConsumed, BegunInContext
<1>2. ASSUME NEW p \in VisionPrompts, PredictVision(p)
      PROVE  InContext' /\ ~cancel'
  BY <1>2, VisionConsumed, BegunInContext
<1>3. ASSUME NEW ts \in Texts, NEW from \in 1..Len(ts), Score(ts, from)
      PROVE  InContext' /\ ~cancel'
  BY <1>3, Closed DEF Score, Interrupted, Undisturbed
<1>4. CASE DecodeOne
  BY <1>4, OneInContext DEF DecodeOne
<1>5. CASE Pipelined
  BY <1>5, PipelinedInContext DEF Pipelined
<1>6. CASE SpecRound
  BY <1>6, RoundInContext
<1>7. CASE SessionReset \/ Restart \/ LoadSession
  <2>1. hasSession' = FALSE
    BY <1>7 DEF SessionReset, Restart, LoadSession, Undisturbed
  <2>2. cancel' \in {FALSE, cancel}
    <3>1. CASE SessionReset
      BY <3>1 DEF SessionReset
    <3>2. CASE Restart
      BY <3>2 DEF Restart
    <3>3. CASE LoadSession
      BY <3>3 DEF LoadSession
    <3> QED
      BY <1>7, <3>1, <3>2, <3>3
  <2>3. ~cancel'
    BY <2>2
  <2> QED
    BY <2>1, <2>3, Closed
<1>8. CASE TrimCache \/ Cancel
  BY <1>8 DEF TrimCache, Cancel, Locked, Undisturbed
<1>9. CASE \/ \E d \in DraftLimits : SetSpeculation(d)
           \/ \E b \in Budgets : SetPrefixCache(b)
           \/ Configure
           \/ \E w \in Weights : SetLora(w)
           \/ SavePrefixes \/ LoadPrefixes
           \/ \E n \in 0..MaxLen : SaveSession(n)
  <2>1. cache' = Settled /\ pipe' = FALSE /\ UNCHANGED <<cancel, hasSession, history>>
    BY <1>9 DEF SetSpeculation, SetPrefixCache, Configure, SetLora, SavePrefixes, LoadPrefixes,
                SaveSession, Drain, gen
  <2> QED
    BY <1>0, <2>1, SettledKeepsContext
<1>10. CASE \/ \E m \in Modes : SetSessionReuse(m)
            \/ \E f \in loading : LoadPrefix(f)
            \/ Deliver
            \/ UNCHANGED vars
  <2>1. UNCHANGED <<cache, pipe, history, last, hasSession, cancel>>
    BY <1>10 DEF SetSessionReuse, LoadPrefix, Deliver, vars, forward, gen
  <2> QED
    BY <2>1, ContextKept
<1> QED
  BY <1>1, <1>2, <1>3, <1>4, <1>5, <1>6, <1>7, <1>8, <1>9, <1>10 DEF Next

\* While a generation is open, the cache holds the tokens it has consumed.
THEOREM DrawnInContext ==
  ASSUME PlaceholderReserved, Undisturbed
  PROVE  Spec => []InContext
<1> DEFINE Inv == InContext /\ ~cancel
<1>1. Init => Inv
  BY DEF Init, InContext
<1>2. IInv /\ IInv' /\ Inv /\ [Next]_vars => Inv'
  BY NextInContext
<1>3. Spec => []Inv
  <2> HIDE DEF Inv
  <2> QED
    BY <1>1, <1>2, SessionInductive, PTL DEF Spec
<1> QED
  BY <1>3, PTL

\* The generation so far: in its context, whole, and what is queued may be said.
Continuing == InContext /\ ~cancel /\ NoGap /\ (hasSession => Sayable(text, queue))

\* A step that says s and leaves a queue that may be said.
Speaks(s) == Said!Say(s) /\ hasSession' = TRUE /\ (hasSession' => Sayable(text', queue'))

\* A step of the abstract specification, or none, that leaves such a queue.
StepSays == [Said!Next]_<<text, hasSession>> /\ (hasSession' => Sayable(text', queue'))

\* Nothing at all may be said anywhere.
LEMMA SayNothing ==
  ASSUME NEW s
  PROVE  Sayable(s, <<>>)
<1>1. <<>> \in Seq(Tokens) /\ Len(<<>>) = 0
  BY EmptySeq
<1> QED
  BY <1>1 DEF Sayable

\* A generation begins by saying a token after its prompt.
LEMMA BegunSpeaks ==
  ASSUME NEW p, Toks(cache') = p, Begin(p, cache')
  PROVE  Speaks(p)
<1>1. PICK t \in Draws(p) : text' = Append(p, t) /\ hasSession' = TRUE /\ queue' = <<>>
  BY DEF Begin
<1>2. t \in Tokens /\ CanDraw(p, t)
  BY DEF Draws
<1> QED
  BY <1>1, <1>2, SayNothing DEF Speaks, Said!Say

\* The caller is told a token drawn after what it holds.
LEMMA ReturnedSpeaks ==
  ASSUME TypeOK, NoGap, Decoding, hasSession' = TRUE,
         NEW t \in Draws(Append(history, last)), Returned(t)
  PROVE  Speaks(text)
<1>1. /\ queue = <<>> /\ hasSession /\ text \in Seq(Tokens)
      /\ queue' = <<>> /\ text' = Append(text, t)
  BY DEF Decoding, Answering, Returned, TypeOK
<1>2. text = Append(history, last)
  BY <1>1, ConcatEmptySeq DEF NoGap
<1>3. t \in Tokens /\ CanDraw(text, t)
  BY <1>2 DEF Draws
<1> QED
  BY <1>1, <1>3, SayNothing DEF Speaks, Said!Say

\* The head of what may be said next is told, the tail queued.
LEMMA HandedOutSpeaks ==
  ASSUME TypeOK, hasSession' = TRUE, NEW q \in Seq(Tokens), q # <<>>,
         Sayable(text, q), text' = Append(text, Head(q)), queue' = Tail(q)
  PROVE  Speaks(text)
<1>1. text \in Seq(Tokens)
  BY DEF TypeOK
<1>2. Head(q) \in Draws(text) /\ Sayable(Append(text, Head(q)), Tail(q))
  BY <1>1, SayFirst
<1>3. Head(q) \in Tokens /\ CanDraw(text, Head(q))
  BY <1>2 DEF Draws
<1> QED
  BY <1>1, <1>2, <1>3 DEF Speaks, Said!Say

\* Every step says one token after the text held, starts over, ends the
\* generation, or leaves the caller as it was.
LEMMA NextSays ==
  ASSUME PlaceholderReserved, Undisturbed, KeepsEveryToken, "vision" \notin Calls,
         IInv, IInv', Continuing, [Next]_vars
  PROVE  StepSays
<1>0. TypeOK /\ InContext /\ NoGap /\ ~cancel /\ (hasSession => Sayable(text, queue))
  BY DEF IInv, Continuing
<1>1. ASSUME NEW p \in Prompts, Speaks(p)
      PROVE  StepSays
  BY <1>1 DEF StepSays, Speaks, Said!Next, Said!Start
<1>2. ASSUME hasSession, Speaks(text)
      PROVE  StepSays
  BY <1>2 DEF StepSays, Speaks, Said!Next, Said!Continue
<1>3. ASSUME hasSession' = FALSE, text' = text
      PROVE  StepSays
  BY <1>3 DEF StepSays, Said!Next, Said!End
<1>4. ASSUME UNCHANGED <<text, hasSession, queue>>
      PROVE  StepSays
  BY <1>0, <1>4 DEF StepSays
<1>5. ASSUME NEW p \in Prompts, Predict(p)
      PROVE  StepSays
  <2>1. Speaks(p)
    BY <1>0, <1>5, PromptConsumed, BegunSpeaks
  <2> QED
    BY <1>1, <2>1
<1>6. ASSUME NEW p \in VisionPrompts, PredictVision(p)
      PROVE  StepSays
  BY <1>6 DEF PredictVision, Locked
<1>7. CASE Deliver
  <2>1. /\ hasSession /\ queue # <<>> /\ queue \in Seq(Tokens) /\ hasSession' = TRUE
        /\ queue' = Tail(queue) /\ text' = Append(text, Head(queue))
    BY <1>0, <1>7 DEF Deliver, Answering, TypeOK
  <2>2. Speaks(text)
    BY <1>0, <2>1, HandedOutSpeaks
  <2> QED
    BY <1>2, <2>1, <2>2
<1>8. CASE SpecRound
  <2>1. hasSession /\ hasSession' = TRUE /\ queue = <<>>
    BY <1>0, <1>8 DEF SpecRound, Decoding, Answering, TypeOK
  <2>2. text = Append(history, last)
    <3>1. text \in Seq(Tokens)
      BY <1>0 DEF TypeOK
    <3> QED
      BY <1>0, <2>1, <3>1, ConcatEmptySeq DEF NoGap
  <2>3. PICK draft \in Seq(Tokens) : \E k \in 0..Len(draft) : \E t \in Tokens :
               /\ queue' = Tail(Outs(draft, k, t))
               /\ text' = Append(text, Head(Outs(draft, k, t)))
               /\ Sayable(Append(history, last), Outs(draft, k, t))
    BY <1>0, <1>8, RoundInContext
  <2>4. PICK k \in 0..Len(draft) : \E t \in Tokens :
               /\ queue' = Tail(Outs(draft, k, t))
               /\ text' = Append(text, Head(Outs(draft, k, t)))
               /\ Sayable(Append(history, last), Outs(draft, k, t))
    BY <2>3
  <2>5. PICK t \in Tokens :
               /\ queue' = Tail(Outs(draft, k, t))
               /\ text' = Append(text, Head(Outs(draft, k, t)))
               /\ Sayable(Append(history, last), Outs(draft, k, t))
    BY <2>4
  <2>6. history \in Seq(Tokens) /\ last \in Tokens
    BY <1>0 DEF TypeOK
  <2>7. Outs(draft, k, t) \in Seq(Tokens) /\ Outs(draft, k, t) # <<>>
    BY <2>6, RoundText
  <2>8. Speaks(text)
    BY <1>0, <2>1, <2>2, <2>5, <2>7, HandedOutSpeaks
  <2> QED
    BY <1>2, <2>1, <2>8
<1>9. CASE DecodeOne
  <2>1. Decoding /\ hasSession /\ hasSession' = TRUE
    BY <1>0, <1>9 DEF DecodeOne, Decoding, Answering, TypeOK
  <2>2. \E t \in Draws(Append(history, last)) : Returned(t)
    BY <1>0, <1>9, OneInContext
  <2>3. Speaks(text)
    BY <1>0, <2>1, <2>2, ReturnedSpeaks
  <2> QED
    BY <1>2, <2>1, <2>3
<1>10. CASE Pipelined
  <2>1. Decoding /\ hasSession /\ hasSession' = TRUE
    BY <1>0, <1>10 DEF Pipelined, Decoding, Answering, TypeOK
  <2>2. \E t \in Draws(Append(history, last)) : Returned(t)
    BY <1>0, <1>10, PipelinedInContext
  <2>3. Speaks(text)
    BY <1>0, <2>1, <2>2, ReturnedSpeaks
  <2> QED
    BY <1>2, <2>1, <2>3
<1>11. CASE (\E ts \in Texts : \E from \in 1..Len(ts) : Score(ts, from)) \/ SessionReset \/ Restart \/ LoadSession
  <2>1. hasSession' = FALSE /\ text' = text
    <3>1. CASE \E ts \in Texts : \E from \in 1..Len(ts) : Score(ts, from)
      BY <3>1 DEF Score
    <3>2. CASE SessionReset
      BY <3>2 DEF SessionReset, ghosts
    <3>3. CASE Restart
      BY <3>3 DEF Restart
    <3>4. CASE LoadSession
      BY <3>4 DEF LoadSession, ghosts, Undisturbed
    <3> QED
      BY <1>11, <3>1, <3>2, <3>3, <3>4
  <2> QED
    BY <1>3, <2>1
<1>12. CASE \/ \E m \in Modes : SetSessionReuse(m)
            \/ \E d \in DraftLimits : SetSpeculation(d)
            \/ \E b \in Budgets : SetPrefixCache(b)
            \/ Configure
            \/ \E w \in Weights : SetLora(w)
            \/ TrimCache \/ Cancel \/ SavePrefixes \/ LoadPrefixes
            \/ \E n \in 0..MaxLen : SaveSession(n)
            \/ \E f \in loading : LoadPrefix(f)
            \/ UNCHANGED vars
  <2>1. UNCHANGED <<text, hasSession, queue>>
    BY <1>12 DEF SetSessionReuse, SetPrefixCache, Configure, SetLora, TrimCache, Cancel,
                 SavePrefixes, LoadPrefixes, SaveSession, LoadPrefix, SetSpeculation,
                 KeepsEveryToken, vars, ghosts, gen
  <2> QED
    BY <1>4, <2>1
<1> QED
  BY <1>5, <1>6, <1>7, <1>8, <1>9, <1>10, <1>11, <1>12 DEF Next

\* The caller reads one continuation of its prompt, whatever caches, guesses
\* and steps in flight it came from: the session implements Continuation.
THEOREM OneContinuation ==
  ASSUME PlaceholderReserved, Undisturbed, KeepsEveryToken, "vision" \notin Calls
  PROVE  Spec => ContinuesText
<1>1. Init => Continuing /\ Said!Init
  BY DEF Init, Continuing, InContext, NoGap, Said!Init
<1>2. IInv /\ IInv' /\ Continuing /\ [Next]_vars => Continuing' /\ [Said!Next]_<<text, hasSession>>
  <2> SUFFICES ASSUME IInv, IInv', Continuing, [Next]_vars
               PROVE  Continuing' /\ [Said!Next]_<<text, hasSession>>
    OBVIOUS
  <2>1. InContext' /\ ~cancel'
    BY NextInContext DEF Continuing
  <2>2. NoGap'
    BY NextNoGap DEF Continuing
  <2>3. [Said!Next]_<<text, hasSession>> /\ (hasSession' => Sayable(text', queue'))
    BY NextSays DEF StepSays
  <2> QED
    BY <2>1, <2>2, <2>3 DEF Continuing, Sayable, Draws
<1>3. Spec => []Continuing
  BY <1>1, <1>2, SessionInductive, PTL DEF Spec
<1> QED
  BY <1>1, <1>2, <1>3, SessionInductive, PTL DEF Spec, ContinuesText, Said!Spec, Said!vars
-----------------------------------------------------------------------------
(***************************************************************************)
(* Where the rows come from.                                               *)
(***************************************************************************)
\* The rows of entries.
RowsOf(S) == {e.rows : e \in S}

\* The rows kept in the copies.
Held == RowsOf(store \cup image \cup disk \cup loading)

\* What a call may copy out of the live cache: the front a prefill wrote.
Fronts ==
  IF kvValid THEN {SubSeq(Settled, 1, n) : n \in 0..Lesser(kvPrefilled, Len(Settled))} ELSE {}

\* A change of age changes no row.
LEMMA AgedRows ==
  ASSUME NEW e \in Entry, NEW a
  PROVE  [e EXCEPT !.age = a].rows = e.rows /\ [e EXCEPT !.age = a].toks = e.toks
BY DEF Entry

\* Using an entry brings in its rows and no others.
LEMMA UseLastRows ==
  ASSUME NEW S, S \subseteq Entry, NEW e \in Entry
  PROVE  RowsOf(UseLast(S, e)) \subseteq {e.rows} \cup RowsOf(S)
<1> SUFFICES ASSUME NEW f \in UseLast(S, e)
             PROVE  f.rows = e.rows \/ f.rows \in RowsOf(S)
  BY DEF RowsOf
<1>1. CASE f = [e EXCEPT !.age = 0]
  BY <1>1, AgedRows
<1>2. CASE f # [e EXCEPT !.age = 0]
  <2>1. PICK g \in Ranked(S \ {e}) : f = [g EXCEPT !.age = g.age + 1]
    BY <1>2 DEF UseLast
  <2>2. PICK h \in S \ {e} :
          g = [h EXCEPT !.age = Cardinality({k \in S \ {e} : k.age < h.age})]
    BY <2>1 DEF Ranked
  <2>3. h \in Entry /\ h.rows \in RowsOf(S)
    BY <2>2 DEF RowsOf
  <2>4. g.rows = h.rows
    BY <2>2, <2>3, AgedRows
  <2>5. f.rows = g.rows
    <3>1. g = [toks |-> h.toks, rows |-> h.rows, age |-> Cardinality({k \in S \ {e} : k.age < h.age})]
      BY <2>2, <2>3 DEF Entry
    <3> QED
      BY <2>1, <3>1
  <2> QED
    BY <2>3, <2>4, <2>5
<1> QED
  BY <1>1, <1>2

\* A trim brings in no rows.
LEMMA TrimmedRows ==
  ASSUME NEW S, NEW limit
  PROVE  RowsOf(Trimmed(S, limit)) \subseteq RowsOf(S)
BY DEF RowsOf, Trimmed

\* Saving the live conversation adds the front of its rows.
LEMMA SaveRows ==
  ASSUME TypeOK, InFlight, NEW reuse, NEW kept \in SaveLive(reuse)
  PROVE  RowsOf(kept) \subseteq RowsOf(store) \cup Fronts
<1> DEFINE n == Lesser(kvPrefilled, Lesser(Len(kvTokens), Len(Settled)))
           live == [toks |-> SubSeq(kvTokens, 1, n), rows |-> SubSeq(Settled, 1, n), age |-> 0]
           covering == {e \in store : IsPrefix(live.toks, e.toks)}
           others == {e \in store : ~IsPrefix(e.toks, live.toks)}
           worthIt == kvValid /\ n >= MinTokens /\ n >= reuse + MinTokens
<1>1. \/ kept = store
      \/ \E e \in covering : kept = UseLast(store, e)
      \/ worthIt /\ kept = Trimmed(UseLast(others, live), budget)
  <2> HIDE DEF n, live, covering, others, worthIt
  <2>1. SaveLive(reuse) =
          CASE ~worthIt -> {store}
            [] worthIt /\ covering # {} -> {UseLast(store, e) : e \in covering}
            [] worthIt /\ covering = {} /\ n > budget -> {store}
            [] OTHER -> {Trimmed(UseLast(others, live), budget)}
    BY DEF SaveLive, n, live, covering, others, worthIt
  <2> QED
    BY <2>1
<1>2. store \subseteq Entry
  BY DEF TypeOK
<1>3. ASSUME NEW e \in covering
      PROVE  RowsOf(UseLast(store, e)) \subseteq RowsOf(store)
  <2>1. e \in store /\ e \in Entry /\ e.rows \in RowsOf(store)
    BY <1>2 DEF RowsOf
  <2> QED
    BY <1>2, <2>1, UseLastRows
<1>4. ASSUME worthIt
      PROVE  RowsOf(Trimmed(UseLast(others, live), budget)) \subseteq RowsOf(store) \cup Fronts
  <2>1. Settled \in Seq(Row) /\ Len(Settled) \in Nat
    BY SettledFacts, LenProperties
  <2>2. kvTokens \in Seq(Tokens) /\ Len(kvTokens) \in Nat /\ kvPrefilled \in Nat
    BY LenProperties DEF TypeOK
  <2>3. n \in 0..Len(Settled) /\ n \in 0..Len(kvTokens) /\ n \in 0..Lesser(kvPrefilled, Len(Settled))
    BY <2>1, <2>2 DEF Lesser
  <2>4. kvValid
    BY <1>4
  <2> HIDE DEF n
  <2>5. SubSeq(kvTokens, 1, n) \in Seq(Tokens) /\ SubSeq(Settled, 1, n) \in Seq(Row)
    BY <2>1, <2>2, <2>3, FrontOf
  <2>6. live \in Entry /\ live.rows \in Fronts
    BY <2>3, <2>4, <2>5 DEF Entry, Fronts
  <2>7. others \subseteq Entry /\ RowsOf(others) \subseteq RowsOf(store)
    BY <1>2 DEF RowsOf
  <2> HIDE DEF live, others
  <2>8. RowsOf(UseLast(others, live)) \subseteq {live.rows} \cup RowsOf(others)
    BY <2>6, <2>7, UseLastRows
  <2> QED
    BY <2>6, <2>7, <2>8, TrimmedRows
<1> HIDE DEF covering, others, live, worthIt
<1> QED
  BY <1>1, <1>3, <1>4

\* The rows kept, by the place that keeps them.
LEMMA HeldParts ==
  Held = RowsOf(store) \cup RowsOf(image) \cup RowsOf(disk) \cup RowsOf(loading)
BY DEF Held, RowsOf

\* The same after a step.
LEMMA HeldPartsNext ==
  Held' = RowsOf(store') \cup RowsOf(image') \cup RowsOf(disk') \cup RowsOf(loading')
BY DEF Held, RowsOf

\* What a prompt leaves in the store.
LEMMA PredictRows ==
  ASSUME IInv, NEW p \in Prompts, Predict(p)
  PROVE  RowsOf(store') \subseteq RowsOf(store) \cup Fronts /\ UNCHANGED <<image, disk, loading>>
<1>1. TypeOK /\ InFlight /\ CacheFaithful /\ Restorable(store)
  BY DEF IInv, Copies
<1>2. p \in Seq(Tokens) /\ p # <<>>
  BY PromptAssumption
<1>3. PICK reuse \in Reusable(p) :
        IF budget = 0 \/ mode = 0
        THEN Prefill(p, Settled, reuse, store)
        ELSE \E kept \in SaveLive(reuse) :
               IF Found(kept, p, reuse) = {}
               THEN Prefill(p, Settled, reuse, kept)
               ELSE \E m \in Found(kept, p, reuse) :
                      \/ Prefill(p, m.entry.rows, m.len, UseLast(kept, m.entry))
                      \/ Faults /\ Prefill(p, <<>>, 0, kept)
  BY DEF Predict
<1>4. ASSUME NEW rows, NEW n, NEW kept, Prefill(p, rows, n, kept)
      PROVE  store' = kept /\ UNCHANGED <<image, disk, loading>>
  BY <1>4 DEF Prefill, files
<1>5. CASE budget = 0 \/ mode = 0
  BY <1>3, <1>4, <1>5
<1>6. CASE ~(budget = 0 \/ mode = 0)
  <2>1. PICK kept \in SaveLive(reuse) :
          IF Found(kept, p, reuse) = {}
          THEN Prefill(p, Settled, reuse, kept)
          ELSE \E m \in Found(kept, p, reuse) :
                 \/ Prefill(p, m.entry.rows, m.len, UseLast(kept, m.entry))
                 \/ Faults /\ Prefill(p, <<>>, 0, kept)
    BY <1>3, <1>6
  <2>2. Restorable(kept) /\ RowsOf(kept) \subseteq RowsOf(store) \cup Fronts
    BY <1>1, SaveSound, SaveRows
  <2>3. CASE store' = kept /\ UNCHANGED <<image, disk, loading>>
    BY <2>2, <2>3
  <2>4. ASSUME NEW m \in Found(kept, p, reuse),
               Prefill(p, m.entry.rows, m.len, UseLast(kept, m.entry))
        PROVE  RowsOf(store') \subseteq RowsOf(store) \cup Fronts /\ UNCHANGED <<image, disk, loading>>
    <3>1. m.entry \in kept
      BY DEF Found, Matches
    <3>2. m.entry.rows \in RowsOf(kept) /\ m.entry \in Entry /\ kept \subseteq Entry
      BY <2>2, <3>1 DEF RowsOf, Restorable
    <3>3. RowsOf(UseLast(kept, m.entry)) \subseteq RowsOf(kept)
      BY <3>2, UseLastRows
    <3> QED
      BY <1>4, <2>2, <2>4, <3>3
  <2> QED
    BY <1>4, <2>1, <2>3, <2>4
<1> QED
  BY <1>5, <1>6

\* Every copy holds the rows of an earlier copy, or the front of the live
\* cache a prefill wrote.
LEMMA HeldFrom ==
  ASSUME IInv, [Next]_vars
  PROVE  Held' \subseteq Held \cup Fronts
<1>0. TypeOK /\ InFlight /\ store \subseteq Entry /\ loading \subseteq Image
  BY DEF IInv, TypeOK
<1>1. ASSUME NEW p \in Prompts, Predict(p)
      PROVE  Held' \subseteq Held \cup Fronts
  BY <1>1, PredictRows, HeldParts, HeldPartsNext
<1>2. CASE \/ \E p \in VisionPrompts : PredictVision(p)
           \/ \E ts \in Texts : \E from \in 1..Len(ts) : Score(ts, from)
           \/ Deliver \/ SpecRound \/ DecodeOne \/ Pipelined
           \/ \E m \in Modes : SetSessionReuse(m)
           \/ \E d \in DraftLimits : SetSpeculation(d)
           \/ Configure
           \/ \E w \in Weights : SetLora(w)
           \/ SessionReset \/ TrimCache \/ Cancel \/ LoadSession
           \/ UNCHANGED vars
  <2>1. UNCHANGED <<store, loading, files>>
    BY <1>2 DEF PredictVision, Score, Deliver, SpecRound, DecodeOne, Pipelined, SetSessionReuse,
                SetSpeculation, Configure, SetLora, SessionReset, TrimCache, Cancel, LoadSession, vars
  <2> QED
    BY <2>1, HeldParts, HeldPartsNext DEF files
<1>3. ASSUME NEW b \in Budgets, SetPrefixCache(b)
      PROVE  Held' \subseteq Held \cup Fronts
  <2>1. store' = Trimmed(store, b) /\ UNCHANGED <<loading, files>>
    BY <1>3 DEF SetPrefixCache
  <2> QED
    BY <2>1, TrimmedRows, HeldParts, HeldPartsNext DEF files
<1>4. ASSUME NEW nPrefix \in 0..MaxLen, SaveSession(nPrefix)
      PROVE  Held' \subseteq Held \cup Fronts
  <2> DEFINE all == Lesser(kvPrefilled, Len(Settled))
             n == IF nPrefix = 0 THEN all ELSE Lesser(all, nPrefix)
  <2>1. /\ kvValid /\ UNCHANGED <<store, loading, disk>>
        /\ image' = {[toks |-> SubSeq(kvTokens, 1, n), rows |-> SubSeq(Settled, 1, n)]}
    BY <1>4 DEF SaveSession
  <2>2. n \in 0..all
    <3>1. kvPrefilled \in Nat /\ Len(Settled) \in Nat /\ nPrefix \in Nat
      BY <1>0, SettledFacts, LenProperties DEF TypeOK
    <3>2. all \in Nat
      BY <3>1, LesserNat
    <3> HIDE DEF all
    <3> QED
      BY <3>1, <3>2 DEF Lesser
  <2>3. SubSeq(Settled, 1, n) \in Fronts
    BY <2>1, <2>2 DEF Fronts
  <2> HIDE DEF n
  <2> DEFINE saved == [toks |-> SubSeq(kvTokens, 1, n), rows |-> SubSeq(Settled, 1, n)]
  <2>4. RowsOf(image') = {SubSeq(Settled, 1, n)}
    <3>1. saved.rows = SubSeq(Settled, 1, n) /\ image' = {saved}
      BY <2>1
    <3> HIDE DEF saved
    <3> QED
      BY <3>1 DEF RowsOf
  <2> QED
    BY <2>1, <2>3, <2>4, HeldParts, HeldPartsNext
<1>5. CASE SavePrefixes
  <2>1. PICK written \in {store} \cup (IF Faults THEN SUBSET store ELSE {}) :
          disk' = {f \in disk : \A e \in written : e.toks # f.toks}
                  \cup {[toks |-> e.toks, rows |-> e.rows] : e \in written}
    BY <1>5 DEF SavePrefixes
  <2>2. written \subseteq store
    OBVIOUS
  <2>3. RowsOf(disk') \subseteq RowsOf(disk) \cup RowsOf(store)
    BY <2>1, <2>2 DEF RowsOf
  <2>4. UNCHANGED <<store, loading, image>>
    BY <1>5 DEF SavePrefixes
  <2> QED
    BY <2>3, <2>4, HeldParts, HeldPartsNext
<1>6. CASE LoadPrefixes
  <2>1. loading' = disk /\ UNCHANGED <<store, image, disk>>
    BY <1>6 DEF LoadPrefixes, files
  <2> QED
    BY <2>1, HeldParts, HeldPartsNext
<1>7. ASSUME NEW f \in loading, LoadPrefix(f)
      PROVE  Held' \subseteq Held \cup Fronts
  <2> DEFINE e == [toks |-> f.toks, rows |-> f.rows, age |-> 0]
  <2>1. /\ loading' \subseteq loading /\ store' \in {store, Trimmed(UseLast(store, e), budget)}
        /\ UNCHANGED files
    BY <1>7 DEF LoadPrefix
  <2>2. e \in Entry /\ e.rows \in RowsOf(loading) /\ RowsOf(loading') \subseteq RowsOf(loading)
    BY <1>0, <2>1 DEF Image, Entry, RowsOf
  <2> HIDE DEF e
  <2>3. RowsOf(Trimmed(UseLast(store, e), budget)) \subseteq {e.rows} \cup RowsOf(store)
    BY <1>0, <2>2, UseLastRows, TrimmedRows
  <2> QED
    BY <2>1, <2>2, <2>3, HeldParts, HeldPartsNext DEF files
<1>8. CASE Restart
  <2>1. store' = {} /\ loading' = {} /\ UNCHANGED files
    BY <1>8 DEF Restart
  <2> QED
    BY <2>1, HeldParts, HeldPartsNext DEF files, RowsOf
<1> QED
  BY <1>1, <1>2, <1>3, <1>4, <1>5, <1>6, <1>7, <1>8 DEF Next

\* A row this call computes in a prefill.
Fresh(r) == r.w = weights /\ r.kind \in {"prefill", "lone"}

\* The valid cache goes on: what counted stays, new rows are of the weights now.
Extends ==
  /\ kvValid /\ kvPrefilled' = kvPrefilled /\ weights' = weights
  /\ Len(kvTokens) <= Len(kvTokens')
  /\ \A i \in 1..Len(Settled) : Settled'[i] = Settled[i]
  /\ \A i \in 1..Len(cache') : \/ cache'[i].w = weights
                               \/ i \in 1..Len(cache) /\ cache'[i] = cache[i]

\* Where one row of a refilled cache comes from.
Origin(i, r) ==
  \/ Fresh(r)
  \/ kvValid /\ i \in 1..Len(Settled) /\ i <= Cached /\ r = Settled[i]
  \/ \E h \in Held \cup Fronts : i \in 1..Len(h) /\ r = h[i]

\* The cache is filled anew, every position counted as prefilled.
Refilled ==
  /\ pipe' = FALSE /\ weights' = weights /\ kvPrefilled' = Len(kvTokens')
  /\ \A i \in 1..Len(cache') : Origin(i, cache'[i])

\* An element of a concatenation is one of its parts.
LEMMA ConcatOrigin ==
  ASSUME NEW a \in Seq(Row), NEW b \in Seq(Row), NEW i \in 1..Len(a \o b)
  PROVE  \/ i \in 1..Len(a) /\ (a \o b)[i] = a[i]
         \/ \E j \in 1..Len(b) : (a \o b)[i] = b[j]
<1>1. Len(a) \in Nat /\ Len(b) \in Nat
  BY LenProperties
<1>2. /\ Len(a \o b) = Len(a) + Len(b)
      /\ \A k \in 1..Len(a) + Len(b) :
            (a \o b)[k] = IF k <= Len(a) THEN a[k] ELSE b[k - Len(a)]
  BY ConcatProperties
<1>3. CASE i <= Len(a)
  BY <1>1, <1>2, <1>3
<1>4. CASE ~(i <= Len(a))
  <2>1. i - Len(a) \in 1..Len(b) /\ (a \o b)[i] = b[i - Len(a)]
    BY <1>1, <1>2, <1>4
  <2> QED
    BY <2>1
<1> QED
  BY <1>3, <1>4

\* Every row of a batch is fresh.
LEMMA BatchFresh ==
  ASSUME TypeOK, NEW ts \in Seq(Tokens)
  PROVE  Batch(ts) \in Seq(Row) /\ \A i \in 1..Len(Batch(ts)) : Fresh(Batch(ts)[i])
<1>1. PICK kind \in {"prefill", "lone"} : Batch(ts) = Compute(ts, kind)
  BY DEF Batch
<1>2. Compute(ts, kind) \in Seq(Row) /\ Len(Compute(ts, kind)) = Len(ts)
  BY <1>1, ComputeFacts DEF TypeOK, Kinds
<1>3. \A i \in 1..Len(ts) : Fresh(Compute(ts, kind)[i])
  BY <1>1 DEF Compute, Fresh
<1> QED
  BY <1>1, <1>2, <1>3

\* Rows kept, then a batch.
LEMMA KeptThenFresh ==
  ASSUME TypeOK, NEW rows \in Seq(Row), NEW n \in 0..Len(rows), NEW ts \in Seq(Tokens)
  PROVE  LET filled == SubSeq(rows, 1, n) \o Batch(ts)
         IN /\ filled \in Seq(Row)
            /\ \A i \in 1..Len(filled) : Fresh(filled[i]) \/ (i \in 1..n /\ filled[i] = rows[i])
<1> DEFINE kept == SubSeq(rows, 1, n)
           new == Batch(ts)
<1>1. kept \in Seq(Row) /\ Len(kept) = n /\ \A i \in 1..n : kept[i] = rows[i]
  BY FrontOf
<1>2. new \in Seq(Row) /\ \A i \in 1..Len(new) : Fresh(new[i])
  BY BatchFresh
<1> HIDE DEF kept, new
<1>3. kept \o new \in Seq(Row)
  BY <1>1, <1>2, ConcatProperties
<1>4. ASSUME NEW i \in 1..Len(kept \o new)
      PROVE  Fresh((kept \o new)[i]) \/ (i \in 1..n /\ (kept \o new)[i] = rows[i])
  BY <1>1, <1>2, ConcatOrigin
<1> QED
  BY <1>3, <1>4 DEF kept, new

\* A prefill that ends well.
LEMMA PrefillOrigin ==
  ASSUME TypeOK, NEW p \in Seq(Tokens), NEW rows \in Seq(Row), NEW n \in 0..Len(p),
         n \in 0..Len(rows), NEW kept, Prefill(p, rows, n, kept), kvValid',
         \A i \in 1..n : Origin(i, rows[i])
  PROVE  Refilled
<1> DEFINE tail == SubSeq(p, n + 1, Len(p))
           filled == SubSeq(rows, 1, n) \o Batch(tail)
<1>1. /\ pipe' = FALSE /\ weights' = weights /\ kvPrefilled' = Len(kvTokens')
      /\ cache' = filled
  BY DEF Prefill, Invalidate
<1>2. tail \in Seq(Tokens)
  BY RestOf
<1> HIDE DEF tail
<1>3. \A i \in 1..Len(filled) : Fresh(filled[i]) \/ (i \in 1..n /\ filled[i] = rows[i])
  BY <1>2, KeptThenFresh
<1> HIDE DEF filled
<1>4. \A i \in 1..Len(filled) : Origin(i, filled[i])
  <2> SUFFICES ASSUME NEW i \in 1..Len(filled) PROVE Origin(i, filled[i])
    OBVIOUS
  <2>1. CASE Fresh(filled[i])
    BY <2>1 DEF Origin
  <2>2. CASE i \in 1..n /\ filled[i] = rows[i]
    BY <2>2
  <2> QED
    BY <1>3, <2>1, <2>2
<1> QED
  BY <1>1, <1>4 DEF Refilled

\* The rows a prompt reuses count in the mode the session runs in.
LEMMA ReusedOrigin ==
  ASSUME TypeOK, InFlight, CacheFaithful, NEW p \in Seq(Tokens), p # <<>>,
         NEW n \in Reusable(p), NEW i \in 1..n
  PROVE  Origin(i, Settled[i])
<1>1. n \in 0..Len(Settled) /\ Len(Settled) \in Nat
  BY ReuseSound, SettledFacts, LenProperties
<1>2. kvPrefilled \in Nat /\ kvTokens \in Seq(Tokens) /\ Len(kvTokens) \in Nat /\ Len(p) \in Nat
  BY LenProperties DEF TypeOK
<1>3. Cached \in Nat
  BY <1>2 DEF Cached
<1>4. n # 0
  BY <1>1
<1> DEFINE limit == Lesser(Lesser(Cached, Len(kvTokens)), Lesser(Len(p) - 1, Len(Settled)))
<1>5. kvValid /\ n \in CommonPrefix(kvTokens, p, limit)
  BY <1>4 DEF Reusable
<1>6. n <= Cached
  <2>1. limit \in Int /\ limit <= Cached
    BY <1>1, <1>2, <1>3 DEF Lesser
  <2> HIDE DEF limit
  <2>2. n \in 0..limit
    BY <1>5 DEF CommonPrefix
  <2> QED
    BY <1>3, <2>1, <2>2
<1>7. i \in 1..Len(Settled) /\ i <= Cached
  BY <1>1, <1>3, <1>6
<1> QED
  BY <1>5, <1>7 DEF Origin

\* A prompt refills the cache from known places.
LEMMA PredictOrigin ==
  ASSUME IInv, NEW p \in Prompts, Predict(p), kvValid'
  PROVE  Refilled
<1>1. TypeOK /\ InFlight /\ CacheFaithful /\ Restorable(store)
  BY DEF IInv, Copies
<1>2. p \in Seq(Tokens) /\ p # <<>> /\ Len(p) \in Nat
  BY PromptAssumption, LenProperties
<1>3. PICK reuse \in Reusable(p) :
        IF budget = 0 \/ mode = 0
        THEN Prefill(p, Settled, reuse, store)
        ELSE \E kept \in SaveLive(reuse) :
               IF Found(kept, p, reuse) = {}
               THEN Prefill(p, Settled, reuse, kept)
               ELSE \E m \in Found(kept, p, reuse) :
                      \/ Prefill(p, m.entry.rows, m.len, UseLast(kept, m.entry))
                      \/ Faults /\ Prefill(p, <<>>, 0, kept)
  BY DEF Predict
<1>4. Settled \in Seq(Row) /\ reuse \in 0..Len(Settled) /\ reuse \in 0..Len(p)
  BY <1>1, <1>2, ReuseSound, SettledFacts
<1>5. \A i \in 1..reuse : Origin(i, Settled[i])
  BY <1>1, <1>2, ReusedOrigin
<1>6. ASSUME NEW kept, Prefill(p, Settled, reuse, kept)
      PROVE  Refilled
  BY <1>1, <1>2, <1>4, <1>5, <1>6, PrefillOrigin
<1>7. ASSUME NEW kept \in SaveLive(reuse), NEW m \in Found(kept, p, reuse),
             Prefill(p, m.entry.rows, m.len, UseLast(kept, m.entry))
      PROVE  Refilled
  <2> DEFINE rows == m.entry.rows
             n == m.len
  <2>1. Restorable(kept) /\ RowsOf(kept) \subseteq RowsOf(store) \cup Fronts
    BY <1>1, SaveSound, SaveRows
  <2>2. m.entry \in kept
    BY DEF Found, Matches
  <2>3. rows \in RowsOf(kept)
    BY <2>2 DEF RowsOf
  <2>4. /\ m.entry \in Entry /\ m.len \in 0..Len(p) - 1 /\ m.len \in 0..Len(m.entry.rows)
    BY <1>2, <2>1, FoundSound
  <2>5. rows \in Seq(Row) /\ n \in 0..Len(rows) /\ n \in 0..Len(p) /\ Len(rows) \in Nat
    BY <1>2, <2>4, LenProperties DEF Entry
  <2>6. Prefill(p, rows, n, UseLast(kept, m.entry))
    BY <1>7
  <2> HIDE DEF rows, n
  <2>7. rows \in Held \cup Fronts
    BY <2>1, <2>3, HeldParts
  <2>8. \A i \in 1..n : Origin(i, rows[i])
    BY <2>5, <2>7 DEF Origin
  <2> QED
    BY <1>1, <1>2, <2>5, <2>6, <2>8, PrefillOrigin
<1>8. ASSUME NEW kept, Prefill(p, <<>>, 0, kept)
      PROVE  Refilled
  <2>1. <<>> \in Seq(Row) /\ 0 \in 0..Len(p) /\ 0 \in 0..Len(<<>>)
    BY <1>2, EmptySeq
  <2>2. \A i \in 1..0 : Origin(i, <<>>[i])
    OBVIOUS
  <2> QED
    BY <1>1, <1>2, <1>8, <2>1, <2>2, PrefillOrigin
<1>9. CASE budget = 0 \/ mode = 0
  BY <1>3, <1>6, <1>9
<1>10. CASE ~(budget = 0 \/ mode = 0)
  BY <1>3, <1>6, <1>7, <1>8, <1>10
<1> QED
  BY <1>9, <1>10

\* Settled rows are rows of the cache.
LEMMA SettledRows ==
  ASSUME TypeOK, InFlight, NEW i \in 1..Len(Settled)
  PROVE  i \in 1..Len(cache) /\ Settled[i] = cache[i]
<1>1. cache \in Seq(Row) /\ Len(cache) \in Nat /\ pipe \in BOOLEAN
  BY LenProperties DEF TypeOK
<1>2. CASE pipe
  <2>1. Len(cache) - 1 \in 0..Len(cache) /\ Settled = SubSeq(cache, 1, Len(cache) - 1)
    BY <1>1, <1>2 DEF InFlight, Settled
  <2>2. Len(Settled) = Len(cache) - 1 /\ \A j \in 1..Len(cache) - 1 : Settled[j] = cache[j]
    BY <1>1, <2>1, FrontOf
  <2> QED
    BY <1>1, <2>2
<1>3. CASE ~pipe
  BY <1>3 DEF Settled
<1> QED
  BY <1>1, <1>2, <1>3

\* Rewinding the step in flight changes nothing that counts.
LEMMA DrainedExtends ==
  ASSUME TypeOK, InFlight, cache' = Settled, pipe' = FALSE, UNCHANGED <<kv, weights>>, kvValid'
  PROVE  Extends
<1>1. Settled' = Settled
  BY Drained
<1>2. kvValid /\ kvPrefilled' = kvPrefilled /\ kvTokens' = kvTokens
  BY DEF kv
<1>3. Len(kvTokens) \in Nat
  BY LenProperties DEF TypeOK
<1>4. \A i \in 1..Len(cache') : i \in 1..Len(cache) /\ cache'[i] = cache[i]
  BY SettledRows
<1> QED
  BY <1>1, <1>2, <1>3, <1>4 DEF Extends

\* A cache left as it was goes on.
LEMMA KeptExtends ==
  ASSUME TypeOK, InFlight, UNCHANGED <<cache, pipe, kv, weights>>, kvValid'
  PROVE  Extends
<1>1. Settled' = Settled
  BY DEF Settled
<1>2. kvValid /\ kvPrefilled' = kvPrefilled /\ kvTokens' = kvTokens
  BY DEF kv
<1>3. Len(kvTokens) \in Nat
  BY LenProperties DEF TypeOK
<1> QED
  BY <1>1, <1>2, <1>3 DEF Extends

\* A scored text refills the cache from known places.
LEMMA ScoreOrigin ==
  ASSUME IInv, NEW ts \in Texts, NEW from \in 1..Len(ts), Score(ts, from), kvValid'
  PROVE  Refilled
<1>1. TypeOK /\ InFlight /\ CacheFaithful
  BY DEF IInv
<1>2. ts \in Seq(Tokens) /\ (\A i \in 1..Len(ts) : ts[i] # Img) /\ Len(ts) \in Nat
  BY PromptAssumption, TextAssumption, LenProperties
<1>3. PICK reuse \in Reusable(SubSeq(ts, 1, from)) :
        /\ pipe' = FALSE /\ weights' = weights
        /\ \/ /\ cache' = SubSeq(Settled, 1, reuse) \o Batch(SubSeq(ts, reuse + 1, from - 1))
                          \o Batch(SubSeq(ts, from, Len(ts) - 1))
              /\ kvTokens' = SubSeq(ts, 1, Len(ts) - 1)
              /\ kvPrefilled' = Len(ts) - 1
           \/ Invalidate
  BY DEF Score
<1> DEFINE p == SubSeq(ts, 1, from)
           context == SubSeq(ts, reuse + 1, from - 1)
           scored  == SubSeq(ts, from, Len(ts) - 1)
           front == SubSeq(Settled, 1, reuse) \o Batch(context)
           new == Batch(scored)
<1>4. /\ cache' = front \o new
      /\ kvTokens' = SubSeq(ts, 1, Len(ts) - 1)
      /\ kvPrefilled' = Len(ts) - 1
  BY <1>3 DEF Invalidate
<1>5. context \in Seq(Tokens) /\ scored \in Seq(Tokens)
  BY <1>1, <1>2, ScoredFaithful
<1>6. Len(kvTokens') = Len(ts) - 1
  <2>1. Len(ts) - 1 \in 0..Len(ts)
    BY <1>2
  <2> QED
    BY <1>2, <1>4, <2>1, FrontOf
<1>7. p \in Seq(Tokens) /\ p # <<>>
  <2>1. from \in 0..Len(ts)
    BY <1>2
  <2>2. p \in Seq(Tokens) /\ Len(p) = from
    BY <1>2, <2>1, FrontOf
  <2> QED
    BY <2>2, EmptySeq
<1>8. reuse \in 0..Len(Settled) /\ Settled \in Seq(Row) /\ \A i \in 1..reuse : Origin(i, Settled[i])
  <2> HIDE DEF p
  <2>1. reuse \in Reusable(p)
    BY <1>3 DEF p
  <2> QED
    BY <1>1, <1>7, <2>1, ReuseSound, ReusedOrigin, SettledFacts
<1> HIDE DEF context, scored
<1>9. /\ front \in Seq(Row)
      /\ \A i \in 1..Len(front) : Fresh(front[i]) \/ (i \in 1..reuse /\ front[i] = Settled[i])
  BY <1>1, <1>5, <1>8, KeptThenFresh
<1>10. new \in Seq(Row) /\ \A i \in 1..Len(new) : Fresh(new[i])
  BY <1>1, <1>5, BatchFresh
<1> HIDE DEF front, new
<1>11. ASSUME NEW i \in 1..Len(front \o new)
       PROVE  Origin(i, (front \o new)[i])
  <2>1. Fresh((front \o new)[i]) \/ (i \in 1..reuse /\ (front \o new)[i] = Settled[i])
    BY <1>9, <1>10, ConcatOrigin
  <2>2. CASE Fresh((front \o new)[i])
    BY <2>2 DEF Origin
  <2>3. CASE i \in 1..reuse /\ (front \o new)[i] = Settled[i]
    BY <1>8, <2>3
  <2> QED
    BY <2>1, <2>2, <2>3
<1> QED
  BY <1>3, <1>4, <1>6, <1>11 DEF Refilled

\* So does a session loaded from a file.
LEMMA LoadSessionOrigin ==
  ASSUME IInv, LoadSession, kvValid'
  PROVE  Refilled \/ Extends
<1>1. TypeOK /\ InFlight /\ image \subseteq Image
  BY DEF IInv, TypeOK
<1>2. CASE \E saved \in image : /\ cache' = saved.rows /\ kvTokens' = saved.toks
                                /\ kvPrefilled' = Len(saved.toks)
  <2>1. PICK saved \in image : /\ cache' = saved.rows /\ kvTokens' = saved.toks
                               /\ kvPrefilled' = Len(saved.toks)
    BY <1>2
  <2>2. cache' \in Held
    BY <2>1, HeldParts DEF RowsOf
  <2>3. \A i \in 1..Len(cache') : Origin(i, cache'[i])
    BY <2>2 DEF Origin
  <2> QED
    BY <2>1, <2>3 DEF LoadSession, Refilled
<1>3. CASE cache' = Settled /\ UNCHANGED kv
  <2>1. pipe' = FALSE /\ weights' = weights
    BY DEF LoadSession
  <2> QED
    BY <1>1, <1>3, <2>1, DrainedExtends
<1> QED
  BY <1>2, <1>3 DEF LoadSession

\* Consuming tokens makes the list longer.
LEMMA ConsumedLonger ==
  ASSUME TypeOK, NEW ts \in Seq(Tokens), Consumed(ts)
  PROVE  Len(kvTokens) <= Len(kvTokens')
<1>1. kvTokens \in Seq(Tokens) /\ Len(kvTokens) \in Nat /\ Len(ts) \in Nat
  BY LenProperties DEF TypeOK
<1>2. Len(kvTokens \o ts) = Len(kvTokens) + Len(ts)
  BY <1>1, ConcatProperties
<1> QED
  BY <1>1, <1>2 DEF Consumed

\* Every row computed now is of the weights now.
LEMMA ComputeWeights ==
  ASSUME NEW ts, NEW kind
  PROVE  \A i \in 1..Len(ts) : Compute(ts, kind)[i].w = weights
BY DEF Compute

\* The rows of the cache one step longer.
LEMMA GrownOrigin ==
  ASSUME TypeOK, InFlight, NEW base \in Seq(Row), NEW ts \in Seq(Tokens), NEW kind \in Kinds,
         \A i \in 1..Len(base) : \/ base[i].w = weights
                                 \/ i \in 1..Len(cache) /\ base[i] = cache[i]
  PROVE  LET grown == base \o Compute(ts, kind)
         IN \A i \in 1..Len(grown) : \/ grown[i].w = weights
                                     \/ i \in 1..Len(cache) /\ grown[i] = cache[i]
<1> DEFINE new == Compute(ts, kind)
<1>1. new \in Seq(Row) /\ Len(new) = Len(ts)
  BY ComputeFacts DEF TypeOK
<1>2. \A j \in 1..Len(new) : new[j].w = weights
  BY <1>1, ComputeWeights
<1> HIDE DEF new
<1>3. ASSUME NEW i \in 1..Len(base \o new)
      PROVE  \/ (base \o new)[i].w = weights
             \/ i \in 1..Len(cache) /\ (base \o new)[i] = cache[i]
  <2>1. \/ i \in 1..Len(base) /\ (base \o new)[i] = base[i]
        \/ \E j \in 1..Len(new) : (base \o new)[i] = new[j]
    BY <1>1, ConcatOrigin
  <2> QED
    BY <1>2, <2>1
<1> QED
  BY <1>3 DEF new

\* A decode step goes on with the cache.
LEMMA OneExtends ==
  ASSUME IInv, DecodeOne, kvValid'
  PROVE  Extends
<1>1. TypeOK /\ InFlight /\ last \in Tokens /\ Settled \in Seq(Row) /\ "decode" \in Kinds
  BY SettledFacts DEF IInv, TypeOK, Kinds
<1> DEFINE grown == Settled \o Compute(<<last>>, "decode")
<1>2. /\ cache' = grown /\ pipe' = FALSE /\ Consumed(<<last>>)
      /\ kvValid /\ kvPrefilled' = kvPrefilled /\ weights' = weights
  BY DEF DecodeOne, DecodeFails, Invalidate
<1>3. <<last>> \in Seq(Tokens)
  BY <1>1, One
<1>4. \A i \in 1..Len(Settled) : grown[i] = Settled[i]
  BY <1>1, GrownByOne
<1>5. \A i \in 1..Len(grown) : \/ grown[i].w = weights
                               \/ i \in 1..Len(cache) /\ grown[i] = cache[i]
  BY <1>1, <1>3, SettledRows, GrownOrigin
<1> HIDE DEF grown
<1>6. Settled' = cache'
  BY <1>2, Drained
<1> QED
  BY <1>1, <1>2, <1>3, <1>4, <1>5, <1>6, ConsumedLonger DEF Extends

\* So does a pipelined step.
LEMMA PipelinedExtends ==
  ASSUME IInv, Pipelined, kvValid'
  PROVE  Extends
<1>1. /\ TypeOK /\ InFlight /\ last \in Tokens /\ Settled \in Seq(Row) /\ "decode" \in Kinds
      /\ cache \in Seq(Row) /\ pipe \in BOOLEAN
  BY SettledFacts DEF IInv, TypeOK, Kinds
<1> DEFINE grown == IF pipe THEN cache ELSE cache \o Compute(<<last>>, "decode")
<1>2. /\ pipe' = TRUE /\ Consumed(<<last>>)
      /\ kvValid /\ kvPrefilled' = kvPrefilled /\ weights' = weights
      /\ \E t \in Draws(Toks(grown)) : cache' = grown \o Compute(<<t>>, "decode")
  BY DEF Pipelined, DecodeFails, Invalidate
<1>3. PICK t \in Draws(Toks(grown)) : cache' = grown \o Compute(<<t>>, "decode")
  BY <1>2
<1>4. <<last>> \in Seq(Tokens) /\ t \in Tokens /\ <<t>> \in Seq(Tokens)
  BY <1>1, One DEF Draws
<1>5. last # Img
  BY DEF IInv, Spoken, Pipelined, Decoding, Answering
<1>6. /\ grown \in Seq(Row) /\ Len(grown) = Len(Settled) + 1
      /\ \A i \in 1..Len(Settled) : grown[i] = Settled[i]
  BY <1>1, <1>5, StepInFlight
<1>7. \A i \in 1..Len(grown) : \/ grown[i].w = weights
                               \/ i \in 1..Len(cache) /\ grown[i] = cache[i]
  <2>1. CASE pipe
    BY <2>1
  <2>2. CASE ~pipe
    <3>1. LET next == cache \o Compute(<<last>>, "decode")
          IN \A i \in 1..Len(next) : \/ next[i].w = weights
                                     \/ i \in 1..Len(cache) /\ next[i] = cache[i]
      BY <1>1, <1>4, GrownOrigin
    <3> QED
      BY <2>2, <3>1
  <2> QED
    BY <2>1, <2>2
<1> HIDE DEF grown
<1> DEFINE sent == grown \o Compute(<<t>>, "decode")
<1>8. \A i \in 1..Len(sent) : \/ sent[i].w = weights
                              \/ i \in 1..Len(cache) /\ sent[i] = cache[i]
  BY <1>1, <1>4, <1>6, <1>7, GrownOrigin
<1>9. sent \in Seq(Row) /\ Len(sent) = Len(grown) + 1 /\ \A i \in 1..Len(grown) : sent[i] = grown[i]
  BY <1>1, <1>4, <1>6, GrownByOne
<1>10. cache' = sent
  BY <1>3
<1> HIDE DEF sent
<1>11. \A i \in 1..Len(Settled) : Settled'[i] = Settled[i]
  <2>1. Len(Settled) \in Nat /\ Len(grown) \in Nat /\ Len(cache') - 1 = Len(grown)
    BY <1>1, <1>6, <1>9, <1>10, LenProperties
  <2>2. Settled' = SubSeq(cache', 1, Len(grown)) /\ Len(grown) \in 0..Len(cache')
    <3>1. Settled' = SubSeq(cache', 1, Len(cache') - 1)
      BY <1>2 DEF Settled
    <3>2. Len(grown) \in 0..Len(cache')
      BY <1>9, <1>10, <2>1
    <3> QED
      BY <2>1, <3>1, <3>2
  <2>3. \A i \in 1..Len(grown) : Settled'[i] = cache'[i]
    BY <1>9, <1>10, <2>2, FrontOf
  <2>4. \A i \in 1..Len(Settled) : i \in 1..Len(grown)
    BY <1>6, <2>1
  <2> QED
    BY <1>6, <1>9, <1>10, <2>3, <2>4
<1> QED
  BY <1>1, <1>2, <1>4, <1>8, <1>10, <1>11, ConsumedLonger DEF Extends

\* So does a round of speculation.
LEMMA RoundExtends ==
  ASSUME IInv, SpecRound, kvValid'
  PROVE  Extends
<1>1. TypeOK /\ InFlight /\ last \in Tokens /\ Settled \in Seq(Row) /\ "verify" \in Kinds
  BY SettledFacts DEF IInv, TypeOK, Kinds
<1>2. PICK draft \in Drafts :
        \/ \E k \in 0..Len(draft) :
             /\ cache' = SubSeq(Settled \o Compute(<<last>> \o draft, "verify"),
                                1, Len(Settled) + 1 + k)
             /\ Consumed(Eaten(last, draft, k))
             /\ kvValid' = kvValid /\ kvPrefilled' = kvPrefilled
        \/ Invalidate
  BY DEF SpecRound, Eaten
<1>3. PICK k \in 0..Len(draft) :
             /\ cache' = SubSeq(Settled \o Compute(<<last>> \o draft, "verify"),
                                1, Len(Settled) + 1 + k)
             /\ Consumed(Eaten(last, draft, k))
             /\ kvValid' = kvValid /\ kvPrefilled' = kvPrefilled
  BY <1>2 DEF Invalidate
<1>4. pipe' = FALSE /\ weights' = weights /\ kvValid
  BY <1>3 DEF SpecRound
<1> DEFINE in == <<last>> \o draft
           new == Compute(in, "verify")
           j == k + 1
<1>5. draft \in Seq(Tokens) /\ Len(draft) \in Nat /\ Len(Settled) \in Nat
  BY <1>1, DraftTokens, LenProperties
<1>6. in \in Seq(Tokens) /\ Len(in) = Len(draft) + 1
  <2>1. <<last>> \in Seq(Tokens) /\ Len(<<last>>) = 1
    BY <1>1, One
  <2> QED
    BY <1>5, <2>1, ConcatProperties
<1>7. j \in 0..Len(in) /\ Len(Settled) + 1 + k = Len(Settled) + j
  BY <1>5, <1>6
<1>8. Eaten(last, draft, k) \in Seq(Tokens)
  BY <1>6, <1>7, FrontOf DEF Eaten
<1> HIDE DEF in, j
<1>9. new \in Seq(Row) /\ Len(new) = Len(in)
  BY <1>1, <1>6, ComputeFacts DEF TypeOK
<1> DEFINE whole == Settled \o new
<1>10. /\ whole \in Seq(Row) /\ Len(whole) = Len(Settled) + Len(new)
       /\ \A i \in 1..Len(Settled) : whole[i] = Settled[i]
  <2> HIDE DEF new
  <2>1. /\ Len(Settled \o new) = Len(Settled) + Len(new) /\ Settled \o new \in Seq(Row)
        /\ \A i \in 1..Len(Settled) + Len(new) :
              (Settled \o new)[i] = IF i <= Len(Settled) THEN Settled[i] ELSE new[i - Len(Settled)]
    BY <1>1, <1>9, ConcatProperties
  <2>2. Len(new) \in Nat
    BY <1>9, LenProperties
  <2> QED
    BY <1>5, <2>1, <2>2
<1>11. \A i \in 1..Len(whole) : \/ whole[i].w = weights
                                \/ i \in 1..Len(cache) /\ whole[i] = cache[i]
  BY <1>1, <1>6, SettledRows, GrownOrigin
<1>12. cache' = SubSeq(whole, 1, Len(Settled) + j)
  BY <1>3, <1>7 DEF in
<1> HIDE DEF whole, new
<1>13. Len(Settled) + j \in 0..Len(whole) /\ j \in Nat /\ Len(whole) \in Nat
  BY <1>5, <1>7, <1>9, <1>10, LenProperties
<1>14. Len(cache') = Len(Settled) + j /\ \A i \in 1..Len(Settled) + j : cache'[i] = whole[i]
  BY <1>10, <1>12, <1>13, FrontOf
<1>15. \A i \in 1..Len(cache') : i \in 1..Len(whole) /\ cache'[i] = whole[i]
  BY <1>13, <1>14, <1>5
<1>16. \A i \in 1..Len(Settled) : cache'[i] = Settled[i]
  BY <1>5, <1>10, <1>13, <1>14
<1>17. Settled' = cache'
  BY <1>4, Drained
<1>18. Len(kvTokens) <= Len(kvTokens')
  BY <1>1, <1>3, <1>8, ConsumedLonger
<1>19. \A i \in 1..Len(cache') : \/ cache'[i].w = weights
                                 \/ i \in 1..Len(cache) /\ cache'[i] = cache[i]
  BY <1>11, <1>15
<1> QED
  BY <1>3, <1>4, <1>16, <1>17, <1>18, <1>19 DEF Extends

\* A valid cache went on from a valid one, or was filled anew.
LEMMA CacheOrigin ==
  ASSUME IInv, [Next]_vars, kvValid'
  PROVE  Extends \/ Refilled
<1>1. TypeOK /\ InFlight
  BY DEF IInv
<1>2. CASE \/ \E p \in Prompts : Predict(p)
           \/ \E ts \in Texts : \E from \in 1..Len(ts) : Score(ts, from)
           \/ LoadSession
  BY <1>2, PredictOrigin, ScoreOrigin, LoadSessionOrigin
<1>3. CASE DecodeOne \/ Pipelined \/ SpecRound
  BY <1>3, OneExtends, PipelinedExtends, RoundExtends
<1>4. CASE \/ \E d \in DraftLimits : SetSpeculation(d)
           \/ \E b \in Budgets : SetPrefixCache(b)
           \/ Configure \/ SavePrefixes \/ LoadPrefixes
           \/ \E n \in 0..MaxLen : SaveSession(n)
  <2>1. cache' = Settled /\ pipe' = FALSE /\ UNCHANGED <<kv, weights>>
    BY <1>4 DEF SetSpeculation, SetPrefixCache, Configure, SavePrefixes, LoadPrefixes, SaveSession,
                Drain
  <2> QED
    BY <1>1, <2>1, DrainedExtends
<1>5. CASE Deliver \/ Cancel \/ (\E f \in loading : LoadPrefix(f)) \/ UNCHANGED vars
  <2>1. UNCHANGED <<cache, pipe, kv, weights>>
    BY <1>5 DEF Deliver, Cancel, LoadPrefix, vars, forward
  <2> QED
    BY <1>1, <2>1, KeptExtends
<1>6. ASSUME NEW m \in Modes, SetSessionReuse(m)
      PROVE  Extends
  <2>1. UNCHANGED <<cache, pipe, kv, weights>>
    BY <1>6 DEF SetSessionReuse, forward, Invalidate
  <2> QED
    BY <1>1, <2>1, KeptExtends
<1>7. CASE \/ \E p \in VisionPrompts : PredictVision(p)
           \/ \E w \in Weights : SetLora(w)
           \/ SessionReset \/ TrimCache \/ Restart
  BY <1>7 DEF PredictVision, SetLora, SessionReset, TrimCache, Restart, Invalidate
<1> QED
  BY <1>2, <1>3, <1>4, <1>5, <1>6, <1>7 DEF Next
-----------------------------------------------------------------------------
(***************************************************************************)
(* What counts as prefilled was prefilled.                                 *)
(***************************************************************************)
\* The first n rows were written by a prefill.
ByPrefill(rows, n) == \A i \in 1..n : rows[i].kind \in {"prefill", "lone"}

\* Positions counted as prefilled lie within the tokens of the session, and a
\* prefill wrote them, in the live cache and in every copy.
Prefilled ==
  /\ mode # 2
  /\ kvValid => kvPrefilled <= Len(kvTokens) /\ ByPrefill(Settled, kvPrefilled)
  /\ \A h \in Held : ByPrefill(h, Len(h))

\* A front of the live cache is what it was.
LEMMA FrontRows ==
  ASSUME TypeOK, InFlight, NEW h \in Fronts
  PROVE  /\ kvValid
         /\ \A i \in 1..Len(h) : i \in 1..Len(Settled) /\ i <= kvPrefilled /\ h[i] = Settled[i]
<1>1. Settled \in Seq(Row) /\ Len(Settled) \in Nat /\ kvPrefilled \in Nat
  BY SettledFacts, LenProperties DEF TypeOK
<1>2. kvValid /\ \E n \in 0..Lesser(kvPrefilled, Len(Settled)) : h = SubSeq(Settled, 1, n)
  BY DEF Fronts
<1>3. PICK n \in 0..Lesser(kvPrefilled, Len(Settled)) : h = SubSeq(Settled, 1, n)
  BY <1>2
<1>4. n \in 0..Len(Settled) /\ n <= kvPrefilled
  BY <1>1 DEF Lesser
<1>5. Len(h) = n /\ \A i \in 1..n : h[i] = Settled[i]
  BY <1>1, <1>3, <1>4, FrontOf
<1> QED
  BY <1>1, <1>2, <1>4, <1>5

\* The mode is one the application sets, or the first one.
LEMMA ModeKept ==
  ASSUME 2 \notin Modes, mode # 2, [Next]_vars
  PROVE  mode' # 2
<1>1. CASE \/ \E p \in Prompts : Predict(p)
  <2>1. PICK p \in Prompts : Predict(p)
    BY <1>1
  <2>2. \E rows, n, kept : Prefill(p, rows, n, kept)
    BY <2>1 DEF Predict
  <2> QED
    BY <2>2 DEF Prefill, settings
<1>2. ASSUME NEW m \in Modes, SetSessionReuse(m)
      PROVE  mode' # 2
  BY <1>2 DEF SetSessionReuse
<1>3. CASE Restart
  BY <1>3 DEF Restart
<1>4. CASE \/ \E p \in VisionPrompts : PredictVision(p)
           \/ \E ts \in Texts : \E from \in 1..Len(ts) : Score(ts, from)
           \/ Deliver \/ SpecRound \/ DecodeOne \/ Pipelined
           \/ \E d \in DraftLimits : SetSpeculation(d)
           \/ \E b \in Budgets : SetPrefixCache(b)
           \/ Configure
           \/ \E w \in Weights : SetLora(w)
           \/ SessionReset \/ TrimCache \/ Cancel \/ LoadSession
           \/ \E n \in 0..MaxLen : SaveSession(n)
           \/ SavePrefixes \/ LoadPrefixes
           \/ \E f \in loading : LoadPrefix(f)
           \/ UNCHANGED vars
  <2>1. mode' = mode
    BY <1>4 DEF PredictVision, Score, Deliver, SpecRound, DecodeOne, Pipelined, SetSpeculation,
                SetPrefixCache, Configure, SetLora, SessionReset, TrimCache, Cancel, LoadSession,
                SaveSession, SavePrefixes, LoadPrefixes, LoadPrefix, vars, settings
  <2> QED
    BY <2>1
<1> QED
  BY <1>1, <1>2, <1>3, <1>4 DEF Next

\* Every step keeps what counts as prefilled written by a prefill.
LEMMA PrefilledKept ==
  ASSUME 2 \notin Modes, IInv, IInv', Prefilled, [Next]_vars
  PROVE  Prefilled'
<1>1. TypeOK /\ InFlight /\ mode # 2 /\ mode' # 2
  BY ModeKept DEF IInv, Prefilled
<1>2. ASSUME NEW h \in Held \cup Fronts
      PROVE  ByPrefill(h, Len(h))
  <2>1. CASE h \in Held
    BY <2>1 DEF Prefilled
  <2>2. CASE h \in Fronts
    <3>1. kvValid /\ \A i \in 1..Len(h) : i \in 1..Len(Settled) /\ i <= kvPrefilled /\ h[i] = Settled[i]
      BY <1>1, <2>2, FrontRows
    <3>2. ByPrefill(Settled, kvPrefilled) /\ kvPrefilled \in Nat
      BY <3>1 DEF Prefilled, IInv, TypeOK
    <3>3. \A i \in 1..Len(h) : i \in 1..kvPrefilled
      BY <3>1, <3>2
    <3> QED
      BY <3>1, <3>2, <3>3 DEF ByPrefill
  <2> QED
    BY <2>1, <2>2
<1>3. \A h \in Held' : ByPrefill(h, Len(h))
  BY <1>2, HeldFrom
<1>4. ASSUME kvValid'
      PROVE  kvPrefilled' <= Len(kvTokens') /\ ByPrefill(Settled', kvPrefilled')
  <2>1. /\ Len(kvTokens') = Len(Settled') /\ Len(kvTokens') \in Nat /\ kvPrefilled' \in Nat
    <3>1. (CacheFaithful /\ TypeOK)'
      BY DEF IInv
    <3>2. (kvTokens \in Seq(Tokens) /\ kvPrefilled \in Nat)'
      BY <3>1 DEF TypeOK
    <3> QED
      BY <1>4, <3>1, <3>2, LenProperties DEF CacheFaithful, Faithful
  <2>2. CASE Extends
    <3>1. kvValid /\ kvPrefilled' = kvPrefilled /\ Len(kvTokens) <= Len(kvTokens')
      BY <2>2 DEF Extends
    <3>2. kvPrefilled <= Len(kvTokens) /\ ByPrefill(Settled, kvPrefilled)
      BY <3>1 DEF Prefilled
    <3>3. Len(kvTokens) = Len(Settled) /\ Len(Settled) \in Nat /\ kvPrefilled \in Nat
      BY <1>1, <3>1, SettledFacts, LenProperties DEF IInv, CacheFaithful, Faithful, TypeOK
    <3>4. ASSUME NEW i \in 1..kvPrefilled
          PROVE  Settled'[i] = Settled[i] /\ Settled[i].kind \in {"prefill", "lone"}
      <4>1. i \in 1..Len(Settled)
        BY <3>2, <3>3
      <4> QED
        BY <2>2, <3>2, <4>1 DEF Extends, ByPrefill
    <3>5. kvPrefilled' <= Len(kvTokens')
      BY <2>1, <3>1, <3>2, <3>3
    <3> QED
      BY <3>1, <3>4, <3>5 DEF ByPrefill
  <2>3. CASE Refilled
    <3>1. Settled' = cache' /\ kvPrefilled' = Len(kvTokens')
      BY <2>3, Drained DEF Refilled
    <3>2. ASSUME NEW i \in 1..Len(cache')
          PROVE  cache'[i].kind \in {"prefill", "lone"}
      <4>1. Origin(i, cache'[i])
        BY <2>3 DEF Refilled
      <4>2. CASE Fresh(cache'[i])
        BY <4>2 DEF Fresh
      <4>3. CASE kvValid /\ i \in 1..Len(Settled) /\ i <= Cached /\ cache'[i] = Settled[i]
        <5>1. i \in 1..kvPrefilled /\ ByPrefill(Settled, kvPrefilled)
          BY <1>1, <4>3 DEF Cached, Prefilled, TypeOK
        <5> QED
          BY <4>3, <5>1 DEF ByPrefill
      <4>4. CASE \E h \in Held \cup Fronts : i \in 1..Len(h) /\ cache'[i] = h[i]
        BY <1>2, <4>4 DEF ByPrefill
      <4> QED
        BY <4>1, <4>2, <4>3, <4>4 DEF Origin
    <3>3. Len(kvTokens') = Len(cache')
      BY <2>1, <3>1
    <3> QED
      BY <2>1, <3>1, <3>2, <3>3 DEF ByPrefill
  <2> QED
    BY <1>4, <2>2, <2>3, CacheOrigin
<1> QED
  BY <1>1, <1>3, <1>4 DEF Prefilled, ByPrefill

\* Positions counted as prefilled, live or copied, were never written by a
\* decode or by the check of a guess, as long as mode 2 is never set.
THEOREM CountsOnlyPrefilled ==
  ASSUME PlaceholderReserved, 2 \notin Modes
  PROVE  Spec => []PrefilledOnly
<1>1. Init => Prefilled
  BY DEF Init, Prefilled, Held, RowsOf
<1>2. IInv /\ IInv' /\ Prefilled /\ [Next]_vars => Prefilled'
  BY PrefilledKept
<1>3. IInv /\ Prefilled => PrefilledOnly
  <2> SUFFICES ASSUME IInv, Prefilled PROVE PrefilledOnly
    OBVIOUS
  <2>1. ASSUME NEW e \in store \cup image \cup disk
        PROVE  ByPrefill(e.rows, Len(e.rows))
    BY DEF Prefilled, Held, RowsOf
  <2>2. ASSUME kvValid
        PROVE  ByPrefill(Settled, Lesser(kvPrefilled, Len(Settled)))
    <3>1. ByPrefill(Settled, kvPrefilled)
      BY <2>2 DEF Prefilled
    <3>2. kvPrefilled \in Nat /\ Len(Settled) \in Nat
      BY SettledFacts, LenProperties DEF IInv, TypeOK
    <3>3. Lesser(kvPrefilled, Len(Settled)) \in Nat /\ Lesser(kvPrefilled, Len(Settled)) <= kvPrefilled
      BY <3>2, LesserNat
    <3>4. \A i \in 1..Lesser(kvPrefilled, Len(Settled)) : i \in 1..kvPrefilled
      BY <3>2, <3>3
    <3> QED
      BY <3>1, <3>4 DEF ByPrefill
  <2> QED
    BY <2>1, <2>2 DEF PrefilledOnly, ByPrefill
<1> QED
  BY <1>1, <1>2, <1>3, SessionInductive, PTL DEF Spec
-----------------------------------------------------------------------------
(***************************************************************************)
(* No K/V of other weights.                                                *)
(***************************************************************************)
\* The application keeps no copy of a cache anywhere.
Copyless == Budgets \subseteq {0} /\ "image" \notin Calls /\ "disk" \notin Calls

\* Rows all computed with the weights w.
RunBy(rows, w) == \A i \in 1..Len(rows) : rows[i].w = w

\* The live cache and every copy are of the weights that run now. Without an
\* adapter there is only one kind, and with one there are no copies.
Apart ==
  /\ kvValid => RunBy(cache, weights)
  /\ \A h \in Held : RunBy(h, weights)
  /\ "lora" \notin Calls => weights = "base"
  /\ Copyless => budget = 0 /\ store = {} /\ image = {} /\ disk = {} /\ loading = {}

\* An application that keeps no copies never has one.
LEMMA StaysCopyless ==
  ASSUME Copyless, budget = 0, store = {}, image = {}, disk = {}, loading = {}, [Next]_vars
  PROVE  budget' = 0 /\ store' = {} /\ image' = {} /\ disk' = {} /\ loading' = {}
<1>1. ASSUME NEW p \in Prompts, Predict(p)
      PROVE  budget' = 0 /\ store' = {} /\ image' = {} /\ disk' = {} /\ loading' = {}
  <2>1. \E n : Prefill(p, Settled, n, store)
    BY <1>1 DEF Predict
  <2> QED
    BY <2>1 DEF Prefill, settings, files
<1>2. ASSUME NEW b \in Budgets, SetPrefixCache(b)
      PROVE  budget' = 0 /\ store' = {} /\ image' = {} /\ disk' = {} /\ loading' = {}
  <2>1. budget' = 0 /\ store' = Trimmed(store, b) /\ UNCHANGED <<loading, files>>
    BY <1>2 DEF SetPrefixCache, Copyless
  <2> QED
    BY <2>1 DEF Trimmed, files
<1>3. CASE \/ \E n \in 0..MaxLen : SaveSession(n)
           \/ SavePrefixes \/ LoadPrefixes \/ LoadSession
           \/ \E f \in loading : LoadPrefix(f)
  BY <1>3 DEF SaveSession, SavePrefixes, LoadPrefixes, LoadSession, Locked, Copyless
<1>4. CASE Restart
  BY <1>4 DEF Restart, files
<1>5. CASE \/ \E p \in VisionPrompts : PredictVision(p)
           \/ \E ts \in Texts : \E from \in 1..Len(ts) : Score(ts, from)
           \/ Deliver \/ SpecRound \/ DecodeOne \/ Pipelined
           \/ \E m \in Modes : SetSessionReuse(m)
           \/ \E d \in DraftLimits : SetSpeculation(d)
           \/ Configure
           \/ \E w \in Weights : SetLora(w)
           \/ SessionReset \/ TrimCache \/ Cancel
           \/ UNCHANGED vars
  <2>1. UNCHANGED <<budget, store, loading, files>>
    BY <1>5 DEF PredictVision, Score, Deliver, SpecRound, DecodeOne, Pipelined, SetSessionReuse,
                SetSpeculation, Configure, SetLora, SessionReset, TrimCache, Cancel, vars, settings
  <2> QED
    BY <2>1 DEF files
<1> QED
  BY <1>1, <1>2, <1>3, <1>4, <1>5 DEF Next

\* Only loading or clearing an adapter, or a new process, changes the weights.
LEMMA WeightsKept ==
  ASSUME "lora" \notin Calls, weights = "base", [Next]_vars
  PROVE  weights' = "base"
<1>1. ASSUME NEW p \in Prompts, Predict(p)
      PROVE  weights' = "base"
  <2>1. \E rows, n, kept : Prefill(p, rows, n, kept)
    BY <1>1 DEF Predict
  <2> QED
    BY <2>1 DEF Prefill
<1>2. CASE \/ \E w \in Weights : SetLora(w)
           \/ Restart
  BY <1>2 DEF SetLora, Locked, Restart
<1>3. CASE \/ \E p \in VisionPrompts : PredictVision(p)
           \/ \E ts \in Texts : \E from \in 1..Len(ts) : Score(ts, from)
           \/ Deliver \/ SpecRound \/ DecodeOne \/ Pipelined
           \/ \E m \in Modes : SetSessionReuse(m)
           \/ \E d \in DraftLimits : SetSpeculation(d)
           \/ \E b \in Budgets : SetPrefixCache(b)
           \/ Configure
           \/ SessionReset \/ TrimCache \/ Cancel \/ LoadSession
           \/ \E n \in 0..MaxLen : SaveSession(n)
           \/ SavePrefixes \/ LoadPrefixes
           \/ \E f \in loading : LoadPrefix(f)
           \/ UNCHANGED vars
  <2>1. weights' = weights
    BY <1>3 DEF PredictVision, Score, Deliver, SpecRound, DecodeOne, Pipelined, SetSessionReuse,
                SetSpeculation, SetPrefixCache, Configure, SessionReset, TrimCache, Cancel,
                LoadSession, SaveSession, SavePrefixes, LoadPrefixes, LoadPrefix, vars, forward
  <2> QED
    BY <2>1
<1> QED
  BY <1>1, <1>2, <1>3 DEF Next

\* Every step keeps the weights apart.
LEMMA ApartKept ==
  ASSUME "lora" \notin Calls \/ Copyless, IInv, IInv', Apart, [Next]_vars
  PROVE  Apart'
<1>1. TypeOK /\ InFlight
  BY DEF IInv
<1>2. ASSUME NEW h \in Held \cup Fronts
      PROVE  RunBy(h, weights)
  <2>1. CASE h \in Held
    BY <2>1 DEF Apart
  <2>2. CASE h \in Fronts
    <3>1. kvValid /\ \A i \in 1..Len(h) : i \in 1..Len(Settled) /\ h[i] = Settled[i]
      BY <1>1, <2>2, FrontRows
    <3>2. \A i \in 1..Len(h) : i \in 1..Len(cache) /\ h[i] = cache[i]
      BY <1>1, <3>1, SettledRows
    <3>3. RunBy(cache, weights)
      BY <3>1 DEF Apart
    <3> QED
      BY <3>2, <3>3 DEF RunBy
  <2> QED
    BY <2>1, <2>2
<1>3. "lora" \notin Calls => weights' = "base"
  BY WeightsKept DEF Apart
<1>4. Copyless => budget' = 0 /\ store' = {} /\ image' = {} /\ disk' = {} /\ loading' = {}
  BY StaysCopyless DEF Apart
<1>5. \A h \in Held' : RunBy(h, weights')
  <2>1. CASE "lora" \notin Calls
    <3>1. weights' = weights
      BY <1>3, <2>1 DEF Apart
    <3> QED
      BY <1>2, <3>1, HeldFrom
  <2>2. CASE Copyless
    <3>1. Held' = {}
      BY <1>4, <2>2, HeldPartsNext DEF RowsOf
    <3> QED
      BY <3>1
  <2> QED
    BY <2>1, <2>2
<1>6. ASSUME kvValid'
      PROVE  RunBy(cache', weights')
  <2>1. CASE Extends
    <3>1. weights' = weights /\ RunBy(cache, weights)
      BY <2>1 DEF Extends, Apart
    <3> QED
      BY <2>1, <3>1 DEF Extends, RunBy
  <2>2. CASE Refilled
    <3>1. weights' = weights
      BY <2>2 DEF Refilled
    <3>2. ASSUME NEW i \in 1..Len(cache')
          PROVE  cache'[i].w = weights
      <4>1. Origin(i, cache'[i])
        BY <2>2 DEF Refilled
      <4>2. CASE Fresh(cache'[i])
        BY <4>2 DEF Fresh
      <4>3. CASE kvValid /\ i \in 1..Len(Settled) /\ cache'[i] = Settled[i]
        <5>1. i \in 1..Len(cache) /\ cache'[i] = cache[i] /\ RunBy(cache, weights)
          BY <1>1, <4>3, SettledRows DEF Apart
        <5> QED
          BY <5>1 DEF RunBy
      <4>4. CASE \E h \in Held \cup Fronts : i \in 1..Len(h) /\ cache'[i] = h[i]
        BY <1>2, <4>4 DEF RunBy
      <4> QED
        BY <4>1, <4>2, <4>3, <4>4 DEF Origin
    <3> QED
      BY <3>1, <3>2 DEF RunBy
  <2> QED
    BY <1>6, <2>1, <2>2, CacheOrigin
<1> QED
  BY <1>3, <1>4, <1>5, <1>6 DEF Apart, RunBy, Copyless

\* No K/V of other weights is ever counted on, as long as the application
\* loads no adapter, or keeps no copy of a cache.
THEOREM WeightsNeverMix ==
  ASSUME PlaceholderReserved, "lora" \notin Calls \/ Copyless
  PROVE  Spec => []OneWeights
<1>1. Init => Apart
  BY DEF Init, Apart, Held, RowsOf
<1>2. IInv /\ IInv' /\ Apart /\ [Next]_vars => Apart'
  BY ApartKept
<1>3. Apart => OneWeights
  BY DEF Apart, OneWeights, RunBy, Held, RowsOf
<1> QED
  BY <1>1, <1>2, <1>3, SessionInductive, PTL DEF Spec
-----------------------------------------------------------------------------
(***************************************************************************)
(* The prefix store: its order and its size.                               *)
(***************************************************************************)
\* No prompt twice, no two entries used at the same time.
Strict(S) == \A e, f \in S : e.toks = f.toks \/ e.age = f.age => e = f

\* A store in order and within a budget.
Tidy(S, limit) == Restorable(S) /\ Strict(S) /\ StoreSize(S) <= limit

\* How many entries of S were used after e.
Rank(S, e) == Cardinality({f \in S : f.age < e.age})

\* e when one more was used after it, and e used just now.
Aged(S, e) == [toks |-> e.toks, rows |-> e.rows, age |-> Rank(S, e) + 1]
First(e) == [toks |-> e.toks, rows |-> e.rows, age |-> 0]

\* A rank is a number.
LEMMA RankNat ==
  ASSUME NEW S, IsFiniteSet(S), NEW e
  PROVE  Rank(S, e) \in Nat
<1>1. IsFiniteSet({f \in S : f.age < e.age})
  BY FS_Subset
<1> QED
  BY <1>1, FS_CardinalityType DEF Rank

\* An entry used longer ago ranks higher.
LEMMA RankLess ==
  ASSUME NEW S, IsFiniteSet(S), S \subseteq Entry, NEW e \in S, NEW f \in S, e.age < f.age
  PROVE  Rank(S, e) < Rank(S, f)
<1> DEFINE A == {g \in S : g.age < e.age}
           B == {g \in S : g.age < f.age}
<1>1. IsFiniteSet(A) /\ IsFiniteSet(B)
  BY FS_Subset
<1>2. \A g \in S : g.age \in Nat
  BY DEF Entry
<1>3. A \subseteq B \ {e} /\ e \in B
  BY <1>2
<1> HIDE DEF A, B
<1>4. Cardinality(B \ {e}) = Cardinality(B) - 1 /\ IsFiniteSet(B \ {e})
  BY <1>1, <1>3, FS_RemoveElement
<1>5. Cardinality(A) <= Cardinality(B \ {e})
  BY <1>3, <1>4, FS_Subset
<1>6. Cardinality(A) \in Nat /\ Cardinality(B) \in Nat
  BY <1>1, FS_CardinalityType
<1>7. Cardinality(A) < Cardinality(B)
  BY <1>4, <1>5, <1>6
<1> QED
  BY <1>7 DEF A, B, Rank

\* Using an entry puts it first and ages the others.
LEMMA UseLastIs ==
  ASSUME NEW S, Restorable(S), NEW e \in Entry
  PROVE  UseLast(S, e) = {First(e)} \cup {Aged(S \ {e}, f) : f \in S \ {e}}
<1> DEFINE O == S \ {e}
           ranked == [f \in O |-> [f EXCEPT !.age = Rank(O, f)]]
<1>1. Ranked(O) = {ranked[f] : f \in O}
  BY DEF Ranked, Rank
<1>2. [e EXCEPT !.age = 0] = First(e)
  BY DEF Entry, First
<1>3. ASSUME NEW f \in O
      PROVE  [ranked[f] EXCEPT !.age = @ + 1] = Aged(O, f)
  <2>1. f \in Entry
    BY DEF Restorable
  <2>2. ranked[f] = [toks |-> f.toks, rows |-> f.rows, age |-> Rank(O, f)]
    BY <2>1 DEF Entry
  <2> HIDE DEF ranked
  <2> QED
    BY <2>2 DEF Aged
<1>4. UseLast(S, e) = {First(e)} \cup {[f EXCEPT !.age = @ + 1] : f \in Ranked(O)}
  BY <1>2 DEF UseLast
<1>5. {[f EXCEPT !.age = @ + 1] : f \in Ranked(O)} = {[ranked[f] EXCEPT !.age = @ + 1] : f \in O}
  <2> HIDE DEF ranked
  <2> QED
    BY <1>1
<1> HIDE DEF ranked
<1>6. {[ranked[f] EXCEPT !.age = @ + 1] : f \in O} = {Aged(O, f) : f \in O}
  BY <1>3
<1> QED
  BY <1>4, <1>5, <1>6

\* Using an entry keeps the order strict when no other entry has its prompt.
LEMMA UseLastStrict ==
  ASSUME NEW S, Restorable(S), NEW e \in Entry, Strict(S \ {e}),
         \A f \in S \ {e} : f.toks # e.toks
  PROVE  Strict(UseLast(S, e))
<1> DEFINE O == S \ {e}
<1>1. IsFiniteSet(O) /\ O \subseteq Entry
  BY FS_Subset DEF Restorable
<1>2. UseLast(S, e) = {First(e)} \cup {Aged(O, f) : f \in O}
  BY UseLastIs
<1>3. Strict(O) /\ \A f \in O : f.toks # e.toks
  OBVIOUS
<1> HIDE DEF O
<1>4. ASSUME NEW f \in O
      PROVE  First(e).toks # Aged(O, f).toks /\ First(e).age # Aged(O, f).age
  <2>1. Rank(O, f) \in Nat
    BY <1>1, RankNat
  <2> QED
    BY <1>3, <2>1 DEF First, Aged
<1>5. ASSUME NEW f \in O, NEW g \in O,
             Aged(O, f).toks = Aged(O, g).toks \/ Aged(O, f).age = Aged(O, g).age
      PROVE  f = g
  <2>1. Rank(O, f) \in Nat /\ Rank(O, g) \in Nat /\ f.age \in Nat /\ g.age \in Nat
    BY <1>1, RankNat DEF Entry
  <2>2. f.toks = g.toks \/ Rank(O, f) = Rank(O, g)
    BY <1>5, <2>1 DEF Aged
  <2>3. CASE f.toks = g.toks
    BY <1>3, <2>3 DEF Strict
  <2>4. CASE Rank(O, f) = Rank(O, g)
    <3>1. ~(f.age < g.age) /\ ~(g.age < f.age)
      BY <1>1, <2>1, <2>4, RankLess
    <3>2. f.age = g.age
      BY <2>1, <3>1
    <3> QED
      BY <1>3, <3>2 DEF Strict
  <2> QED
    BY <2>2, <2>3, <2>4
<1>6. ASSUME NEW x \in UseLast(S, e), NEW y \in UseLast(S, e), x.toks = y.toks \/ x.age = y.age
      PROVE  x = y
  <2>1. CASE x = First(e) \/ y = First(e)
    BY <1>2, <1>4, <1>6, <2>1
  <2>2. CASE x # First(e) /\ y # First(e)
    <3>1. PICK f \in O : x = Aged(O, f)
      BY <1>2, <2>2
    <3>2. PICK g \in O : y = Aged(O, g)
      BY <1>2, <2>2
    <3>3. f = g
      BY <1>5, <1>6, <3>1, <3>2
    <3> QED
      BY <3>1, <3>2, <3>3
  <2> QED
    BY <2>1, <2>2
<1> QED
  BY <1>6 DEF Strict
-----------------------------------------------------------------------------
\* The length of an entry, as a function to sum.
Lens == [e \in Entry |-> Len(e.toks)]

\* Lengths are numbers.
LEMMA LensNat ==
  ASSUME NEW e \in Entry
  PROVE  Lens[e] = Len(e.toks) /\ Lens[e] \in Nat
<1>1. e.toks \in Seq(Tokens)
  BY DEF Entry
<1> QED
  BY <1>1, LenProperties DEF Lens

\* The size of a store is the sum of the lengths of its entries.
LEMMA SizeIsTotal ==
  ASSUME NEW S, S \subseteq Entry, IsFiniteSet(S)
  PROVE  StoreSize(S) = Total(Lens, S) /\ StoreSize(S) \in Nat
<1> DEFINE g == [e \in S |-> Len(e.toks)]
<1>1. StoreSize(S) = Total(g, S)
  <2>1. StoreSize(S) = SumFunction(g) /\ DOMAIN g = S
    BY DEF StoreSize
  <2> HIDE DEF g
  <2>2. SumFunction(g) = Total(g, DOMAIN g)
    BY DEF SumFunction, SumFunctionOnSet, FoldFunctionOnSet, Total, MapThenSumSet
  <2> QED
    BY <2>1, <2>2
<1>2. \A e \in S : g[e] = Lens[e] /\ Lens[e] \in Nat
  BY LensNat DEF Lens
<1> HIDE DEF g
<1>3. Total(g, S) = Total(Lens, S)
  BY <1>2, TotalAgree
<1>4. Total(Lens, S) \in Nat
  BY <1>2, TotalRemove
<1> QED
  BY <1>1, <1>3, <1>4

\* A part of a store is no larger.
LEMMA PartSize ==
  ASSUME NEW S, S \subseteq Entry, IsFiniteSet(S), NEW R, R \subseteq S
  PROVE  StoreSize(R) <= StoreSize(S) /\ StoreSize(R) \in Nat
<1>1. R \subseteq Entry /\ IsFiniteSet(R)
  BY FS_Subset
<1>2. \A e \in S : Lens[e] \in Nat
  BY LensNat
<1>3. Total(Lens, R) <= Total(Lens, S)
  BY <1>2, TotalSubset
<1> QED
  BY <1>1, <1>3, SizeIsTotal

\* Using an entry of the store changes no length.
LEMMA UseLastSize ==
  ASSUME NEW S, Restorable(S), NEW e \in S
  PROVE  StoreSize(UseLast(S, e)) <= StoreSize(S)
<1> DEFINE m == [f \in S |-> IF f = e THEN First(e) ELSE Aged(S \ {e}, f)]
<1>0. S \subseteq Entry /\ IsFiniteSet(S) /\ e \in Entry /\ Faithful(e.toks, e.rows)
  BY DEF Restorable
<1>1. UseLast(S, e) = {m[f] : f \in S}
  <2>1. UseLast(S, e) = {First(e)} \cup {Aged(S \ {e}, f) : f \in S \ {e}}
    BY <1>0, UseLastIs
  <2>2. m[e] = First(e) /\ \A f \in S \ {e} : m[f] = Aged(S \ {e}, f)
    OBVIOUS
  <2> HIDE DEF m
  <2>3. ASSUME NEW x \in {m[f] : f \in S}
        PROVE  x \in {First(e)} \cup {Aged(S \ {e}, f) : f \in S \ {e}}
    <3>1. PICK f \in S : x = m[f]
      OBVIOUS
    <3>2. CASE f = e
      BY <2>2, <3>1, <3>2
    <3>3. CASE f # e
      <4>1. f \in S \ {e}
        BY <3>3
      <4> QED
        BY <2>2, <3>1, <4>1
    <3> QED
      BY <3>2, <3>3
  <2>4. ASSUME NEW x \in {First(e)} \cup {Aged(S \ {e}, f) : f \in S \ {e}}
        PROVE  x \in {m[f] : f \in S}
    BY <2>2
  <2> QED
    BY <2>1, <2>3, <2>4
<1>2. UseLast(S, e) \subseteq Entry /\ IsFiniteSet(UseLast(S, e))
  BY <1>0, UseLastSound DEF Restorable
<1>3. ASSUME NEW f \in S
      PROVE  Lens[m[f]] = Lens[f] /\ Lens[f] \in Nat
  <2>1. m[f] \in Entry /\ f \in Entry
    BY <1>0, <1>1, <1>2
  <2>2. m[f].toks = f.toks
    BY DEF First, Aged
  <2> HIDE DEF m
  <2> QED
    BY <2>1, <2>2, LensNat
<1> HIDE DEF m
<1>4. Total(Lens, {m[f] : f \in S}) <= Total(Lens, S)
  BY <1>0, <1>3, TotalImage
<1> QED
  BY <1>0, <1>1, <1>2, <1>4, SizeIsTotal

\* Of the entries of a store that is not empty, one was used longest ago.
LEMMA Oldest ==
  ASSUME NEW S, S \subseteq Entry, IsFiniteSet(S), S # {}
  PROVE  \E e \in S : \A f \in S : f.age <= e.age
<1> DEFINE Above(e) == {f \in S : f.age > e.age}
           T == {Cardinality(Above(e)) : e \in S}
<1>1. \A e \in S : e.age \in Nat
  BY DEF Entry
<1>2. ASSUME NEW e \in S
      PROVE  IsFiniteSet(Above(e)) /\ Cardinality(Above(e)) \in Nat
  <2>1. IsFiniteSet(Above(e))
    BY FS_Subset
  <2> QED
    BY <2>1, FS_CardinalityType
<1>3. T \subseteq Nat /\ T # {}
  BY <1>2
<1>4. PICK n \in T : \A y \in T : n <= y
  <2> HIDE DEF T
  <2> QED
    BY <1>3, LeastNat
<1>5. PICK e \in S : n = Cardinality(Above(e))
  OBVIOUS
<1>6. ASSUME NEW f \in S, f.age > e.age
      PROVE  FALSE
  <2>1. Above(f) \subseteq Above(e) \ {f} /\ f \in Above(e)
    BY <1>1, <1>6
  <2>2. IsFiniteSet(Above(e)) /\ IsFiniteSet(Above(e) \ {f})
        /\ Cardinality(Above(e) \ {f}) < Cardinality(Above(e))
        /\ Cardinality(Above(e) \ {f}) \in Nat /\ Cardinality(Above(e)) \in Nat
    <3> HIDE DEF Above
    <3> QED
      BY <1>2, <2>1, OneLess
  <2>3. Cardinality(Above(f)) <= Cardinality(Above(e) \ {f}) /\ Cardinality(Above(f)) \in Nat
    <3> HIDE DEF Above
    <3> QED
      BY <1>2, <2>1, <2>2, FS_Subset
  <2>4. n <= Cardinality(Above(f))
    BY <1>4
  <2> HIDE DEF Above
  <2> QED
    BY <1>5, <2>2, <2>3, <2>4
<1>7. \A f \in S : f.age <= e.age
  BY <1>1, <1>6
<1> QED
  BY <1>7

\* What a trim leaves fits.
LEMMA TrimmedSize ==
  ASSUME NEW S, Restorable(S), NEW limit \in Nat
  PROVE  StoreSize(Trimmed(S, limit)) <= limit
<1> DEFINE Tr == Trimmed(S, limit)
<1>0. S \subseteq Entry /\ IsFiniteSet(S)
  BY DEF Restorable
<1>1. Tr \subseteq S /\ IsFiniteSet(Tr) /\ Tr \subseteq Entry
  <2>1. Tr \subseteq S
    BY DEF Trimmed
  <2> QED
    BY <1>0, <2>1, FS_Subset
<1>2. CASE Tr = {}
  <2>1. StoreSize(Tr) = 0
    BY <1>1, <1>2, SizeIsTotal, TotalEmpty
  <2> QED
    BY <2>1
<1>3. CASE Tr # {}
  <2>1. PICK e \in Tr : \A f \in Tr : f.age <= e.age
    <3> HIDE DEF Tr
    <3> QED
      BY <1>1, <1>3, Oldest
  <2> DEFINE Upto == {f \in S : f.age <= e.age}
  <2>2. StoreSize(Upto) <= limit
    BY DEF Trimmed
  <2>3. Tr \subseteq Upto
    BY <1>1, <2>1
  <2>4. Upto \subseteq Entry /\ IsFiniteSet(Upto)
    BY <1>0, FS_Subset
  <2> HIDE DEF Upto, Tr
  <2>5. StoreSize(Tr) <= StoreSize(Upto) /\ StoreSize(Tr) \in Nat /\ StoreSize(Upto) \in Nat
    BY <2>3, <2>4, PartSize, SizeIsTotal
  <2>6. StoreSize(Tr) <= limit
    BY <2>2, <2>5
  <2> QED
    BY <2>6 DEF Tr
<1> QED
  BY <1>2, <1>3
-----------------------------------------------------------------------------
\* A trim keeps the order and brings the store within the limit.
LEMMA TrimmedTidy ==
  ASSUME NEW S, Restorable(S), Strict(S), NEW limit \in Nat
  PROVE  Tidy(Trimmed(S, limit), limit)
<1>1. Trimmed(S, limit) \subseteq S
  BY DEF Trimmed
<1>2. Strict(Trimmed(S, limit))
  BY <1>1 DEF Strict
<1> QED
  BY <1>2, TrimmedSound, TrimmedSize DEF Tidy

\* Using an entry of a tidy store leaves it tidy.
LEMMA UsedTidy ==
  ASSUME NEW limit \in Nat, NEW S, Tidy(S, limit), NEW e \in S
  PROVE  Tidy(UseLast(S, e), limit)
<1>1. Restorable(S) /\ e \in Entry /\ Faithful(e.toks, e.rows) /\ S \subseteq Entry /\ IsFiniteSet(S)
  BY DEF Tidy, Restorable
<1>2. Strict(S \ {e}) /\ \A f \in S \ {e} : f.toks # e.toks
  BY DEF Tidy, Strict
<1>3. Restorable(UseLast(S, e)) /\ Strict(UseLast(S, e))
  BY <1>1, <1>2, UseLastSound, UseLastStrict
<1>4. StoreSize(UseLast(S, e)) <= StoreSize(S) /\ StoreSize(S) <= limit
  BY <1>1, UseLastSize DEF Tidy
<1>5. StoreSize(UseLast(S, e)) \in Nat /\ StoreSize(S) \in Nat
  BY <1>1, <1>3, SizeIsTotal DEF Restorable
<1>6. StoreSize(UseLast(S, e)) <= limit
  BY <1>4, <1>5
<1> QED
  BY <1>3, <1>6 DEF Tidy

\* A sequence is a prefix of itself.
LEMMA OwnPrefix ==
  ASSUME NEW s \in Seq(Tokens)
  PROVE  IsPrefix(s, s)
<1>1. Len(s) \in Nat
  BY LenProperties
<1> QED
  BY <1>1 DEF IsPrefix

\* Adding an entry and trimming leaves the store tidy when no entry has its prompt.
LEMMA AddedTidy ==
  ASSUME NEW limit \in Nat, NEW S, Restorable(S), Strict(S),
         NEW e \in Entry, Faithful(e.toks, e.rows), \A f \in S : f.toks # e.toks
  PROVE  Tidy(Trimmed(UseLast(S, e), limit), limit)
<1>1. Strict(S \ {e})
  BY DEF Strict
<1>2. Restorable(UseLast(S, e)) /\ Strict(UseLast(S, e))
  BY <1>1, UseLastSound, UseLastStrict
<1> QED
  BY <1>2, TrimmedTidy

\* Saving the live conversation leaves the store tidy.
LEMMA SaveTidy ==
  ASSUME TypeOK, InFlight, CacheFaithful, Tidy(store, budget),
         NEW reuse, NEW kept \in SaveLive(reuse)
  PROVE  Tidy(kept, budget)
<1> DEFINE n == Lesser(kvPrefilled, Lesser(Len(kvTokens), Len(Settled)))
           live == [toks |-> SubSeq(kvTokens, 1, n), rows |-> SubSeq(Settled, 1, n), age |-> 0]
           covering == {e \in store : IsPrefix(live.toks, e.toks)}
           others == {e \in store : ~IsPrefix(e.toks, live.toks)}
           worthIt == kvValid /\ n >= MinTokens /\ n >= reuse + MinTokens
<1>0. budget \in Nat
  BY DEF TypeOK
<1>1. \/ kept = store
      \/ \E e \in covering : kept = UseLast(store, e)
      \/ worthIt /\ kept = Trimmed(UseLast(others, live), budget)
  <2> HIDE DEF n, live, covering, others, worthIt
  <2>1. SaveLive(reuse) =
          CASE ~worthIt -> {store}
            [] worthIt /\ covering # {} -> {UseLast(store, e) : e \in covering}
            [] worthIt /\ covering = {} /\ n > budget -> {store}
            [] OTHER -> {Trimmed(UseLast(others, live), budget)}
    BY DEF SaveLive, n, live, covering, others, worthIt
  <2> QED
    BY <2>1
<1>2. ASSUME NEW e \in covering
      PROVE  Tidy(UseLast(store, e), budget)
  <2>1. e \in store
    OBVIOUS
  <2> HIDE DEF covering
  <2> QED
    BY <1>0, <2>1, UsedTidy
<1>3. ASSUME worthIt
      PROVE  Tidy(Trimmed(UseLast(others, live), budget), budget)
  <2>1. Settled \in Seq(Row) /\ Len(Settled) \in Nat
    BY SettledFacts, LenProperties
  <2>2. kvTokens \in Seq(Tokens) /\ Len(kvTokens) \in Nat /\ kvPrefilled \in Nat
    BY LenProperties DEF TypeOK
  <2>3. n \in 0..Len(Settled) /\ n \in 0..Len(kvTokens)
    BY <2>1, <2>2 DEF Lesser
  <2>4. Faithful(kvTokens, Settled)
    BY <1>3 DEF CacheFaithful
  <2> HIDE DEF n
  <2>5. Faithful(SubSeq(kvTokens, 1, n), SubSeq(Settled, 1, n))
    BY <2>1, <2>2, <2>3, <2>4, FaithfulFront
  <2>6. SubSeq(kvTokens, 1, n) \in Seq(Tokens) /\ SubSeq(Settled, 1, n) \in Seq(Row)
    BY <2>1, <2>2, <2>3, FrontOf
  <2>7. live \in Entry /\ Faithful(live.toks, live.rows) /\ live.toks \in Seq(Tokens)
    BY <2>5, <2>6 DEF Entry
  <2>8. Restorable(others)
    BY FS_Subset DEF Restorable, Tidy
  <2>9. Strict(others)
    BY DEF Strict, Tidy
  <2> HIDE DEF live
  <2>10. \A f \in others : f.toks # live.toks
    BY <2>7, OwnPrefix
  <2> HIDE DEF others
  <2> QED
    BY <1>0, <2>7, <2>8, <2>9, <2>10, AddedTidy
<1> HIDE DEF covering, others, live, worthIt
<1> QED
  BY <1>1, <1>2, <1>3

\* A prompt leaves the store tidy.
LEMMA PredictTidy ==
  ASSUME IInv, Tidy(store, budget), NEW p \in Prompts, Predict(p)
  PROVE  Tidy(store', budget')
<1>1. TypeOK /\ InFlight /\ CacheFaithful /\ budget \in Nat
  BY DEF IInv, TypeOK
<1>3. PICK reuse \in Reusable(p) :
        IF budget = 0 \/ mode = 0
        THEN Prefill(p, Settled, reuse, store)
        ELSE \E kept \in SaveLive(reuse) :
               IF Found(kept, p, reuse) = {}
               THEN Prefill(p, Settled, reuse, kept)
               ELSE \E m \in Found(kept, p, reuse) :
                      \/ Prefill(p, m.entry.rows, m.len, UseLast(kept, m.entry))
                      \/ Faults /\ Prefill(p, <<>>, 0, kept)
  BY DEF Predict
<1>4. ASSUME NEW rows, NEW n, NEW kept, Prefill(p, rows, n, kept)
      PROVE  store' = kept /\ budget' = budget
  BY <1>4 DEF Prefill, settings
<1>5. CASE budget = 0 \/ mode = 0
  BY <1>3, <1>4, <1>5
<1>6. CASE ~(budget = 0 \/ mode = 0)
  <2>1. PICK kept \in SaveLive(reuse) :
          IF Found(kept, p, reuse) = {}
          THEN Prefill(p, Settled, reuse, kept)
          ELSE \E m \in Found(kept, p, reuse) :
                 \/ Prefill(p, m.entry.rows, m.len, UseLast(kept, m.entry))
                 \/ Faults /\ Prefill(p, <<>>, 0, kept)
    BY <1>3, <1>6
  <2>2. Tidy(kept, budget)
    BY <1>1, SaveTidy
  <2>3. CASE store' = kept /\ budget' = budget
    BY <2>2, <2>3
  <2>4. ASSUME NEW m \in Found(kept, p, reuse),
               Prefill(p, m.entry.rows, m.len, UseLast(kept, m.entry))
        PROVE  Tidy(store', budget')
    <3>1. m.entry \in kept
      BY DEF Found, Matches
    <3>2. Tidy(UseLast(kept, m.entry), budget)
      BY <1>1, <2>2, <3>1, UsedTidy
    <3> QED
      BY <1>4, <2>4, <3>2
  <2> QED
    BY <1>4, <2>1, <2>3, <2>4
<1> QED
  BY <1>5, <1>6

\* An empty store is tidy.
LEMMA TidyEmpty == Tidy({}, 0)
<1>1. IsFiniteSet({}) /\ Restorable({}) /\ Strict({})
  BY FS_EmptySet DEF Restorable, Strict
<1>2. StoreSize({}) = 0
  BY <1>1, SizeIsTotal, TotalEmpty DEF Restorable
<1> QED
  BY <1>1, <1>2 DEF Tidy

\* Every call leaves the store tidy.
LEMMA TidyKept ==
  ASSUME IInv, Tidy(store, budget), [Next]_vars
  PROVE  Tidy(store', budget')
<1>0. budget \in Nat /\ Restorable(store) /\ Strict(store) /\ loading \subseteq Image /\ Saved(loading)
  BY DEF IInv, TypeOK, Copies, Tidy
<1>1. ASSUME NEW p \in Prompts, Predict(p)
      PROVE  Tidy(store', budget')
  BY <1>1, PredictTidy
<1>2. CASE \/ \E p \in VisionPrompts : PredictVision(p)
           \/ \E ts \in Texts : \E from \in 1..Len(ts) : Score(ts, from)
           \/ Deliver \/ SpecRound \/ DecodeOne \/ Pipelined
           \/ \E m \in Modes : SetSessionReuse(m)
           \/ \E d \in DraftLimits : SetSpeculation(d)
           \/ Configure
           \/ \E w \in Weights : SetLora(w)
           \/ SessionReset \/ TrimCache \/ Cancel
           \/ \E n \in 0..MaxLen : SaveSession(n)
           \/ LoadSession \/ SavePrefixes \/ LoadPrefixes
           \/ UNCHANGED vars
  <2>1. UNCHANGED <<store, budget>>
    BY <1>2 DEF PredictVision, Score, Deliver, SpecRound, DecodeOne, Pipelined, SetSessionReuse,
                SetSpeculation, Configure, SetLora, SessionReset, TrimCache, Cancel, SaveSession,
                LoadSession, SavePrefixes, LoadPrefixes, settings, vars
  <2> QED
    BY <2>1
<1>3. ASSUME NEW b \in Budgets, SetPrefixCache(b)
      PROVE  Tidy(store', budget')
  <2>1. store' = Trimmed(store, b) /\ budget' = b
    BY <1>3 DEF SetPrefixCache
  <2>2. b \in Nat
    BY SettingAssumption
  <2> QED
    BY <1>0, <2>1, <2>2, TrimmedTidy
<1>4. ASSUME NEW f \in loading, LoadPrefix(f)
      PROVE  Tidy(store', budget')
  <2> DEFINE e == [toks |-> f.toks, rows |-> f.rows, age |-> 0]
  <2>1. budget' = budget
    BY <1>4 DEF LoadPrefix, settings
  <2>2. CASE store' = store
    BY <2>1, <2>2
  <2>3. CASE store' # store
    <3>1. /\ store' = Trimmed(UseLast(store, e), budget)
          /\ \A g \in store : ~IsPrefix(f.toks, g.toks)
      BY <1>4, <2>3 DEF LoadPrefix
    <3>2. e \in Entry /\ e.toks \in Seq(Tokens) /\ e.toks = f.toks /\ e.rows = f.rows
      BY <1>0 DEF Image, Entry
    <3>3. Faithful(e.toks, e.rows)
      BY <1>0, <3>2 DEF Saved
    <3> HIDE DEF e
    <3>4. \A g \in store : g.toks # e.toks
      BY <3>1, <3>2, OwnPrefix
    <3> QED
      BY <1>0, <2>1, <3>1, <3>2, <3>3, <3>4, AddedTidy
  <2> QED
    BY <2>2, <2>3
<1>5. CASE Restart
  <2>1. store' = {} /\ budget' = 0
    BY <1>5 DEF Restart
  <2> QED
    BY <2>1, TidyEmpty
<1> QED
  BY <1>1, <1>2, <1>3, <1>4, <1>5 DEF Next

\* The prefix store never exceeds its budget, whatever is saved, restored,
\* reordered, loaded from files or trimmed by a new budget.
THEOREM StoreStaysWithinBudget ==
  ASSUME PlaceholderReserved
  PROVE  Spec => []StoreWithinBudget
<1>1. Init => Tidy(store, budget)
  BY TidyEmpty DEF Init
<1>2. IInv /\ Tidy(store, budget) /\ [Next]_vars => Tidy(store, budget)'
  BY TidyKept
<1>3. Tidy(store, budget) => StoreWithinBudget
  BY DEF Tidy, StoreWithinBudget
<1> QED
  BY <1>1, <1>2, <1>3, SessionInductive, PTL DEF Spec

\* The last-use order of the prefix store is strict and no prompt is kept twice.
THEOREM StoreKeepsOneOfEach ==
  ASSUME PlaceholderReserved
  PROVE  Spec => []OneOfEach
<1>1. Init => Tidy(store, budget)
  BY TidyEmpty DEF Init
<1>2. IInv /\ Tidy(store, budget) /\ [Next]_vars => Tidy(store, budget)'
  BY TidyKept
<1>3. Tidy(store, budget) => OneOfEach
  BY DEF Tidy, Strict, OneOfEach
<1> QED
  BY <1>1, <1>2, <1>3, SessionInductive, PTL DEF Spec
=============================================================================
