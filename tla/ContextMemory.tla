--------------------------- MODULE ContextMemory ---------------------------
(***************************************************************************)
(* The on-disk items of one session of the context memory: uploads and     *)
(* streams cut into blocks of Chunk lines, and working copies of files on  *)
(* disk, with the file system calls at which a crash can stop them.        *)
(*                                                                         *)
(* A session's mutex is held for a whole call, so a call is one action.    *)
(* `data' stands for data.br and terms.bin, cut and grown together; an     *)
(* offset is the number of a block.  A directory without a readable        *)
(* meta.bin is reset before anything reads it, so it is the same as none.  *)
(***************************************************************************)
EXTENDS Naturals, Sequences, FiniteSets

CONSTANTS Names,       \* names of items; the handle is a digest of the name
          Texts,       \* what is put, appended or written, as lines
          Headings,    \* the lines an outline lists
          Chunk,       \* CHUNK_LINES
          MaxOutline,  \* MAX_OUTLINE_ENTRIES
          Widths,      \* sizes of the vectors of the embedders there are
          MaxLines,    \* bound: lines of an item
          MaxCalls     \* bound: calls, writes by others, crashes

ASSUME MemoryAssumption ==
  /\ Chunk \in Nat \ {0} /\ MaxOutline \in Nat /\ Widths \subseteq Nat \ {0}
  /\ MaxLines \in Nat /\ MaxCalls \in Nat
  /\ \A t \in Texts : t \in Seq({t[i] : i \in DOMAIN t}) /\ Len(t) <= MaxLines

VARIABLES items,     \* per name: the item's directory
          source,    \* per name: the file it is the path of
          embedder,  \* width of the vectors of the embedder in use, 0: none
          told,      \* history: what an item may hold, given the calls so far
          added,     \* history: lines appended to a linked item since it was its file
          seen,      \* history: items whose lines the caller was shown as they are
          torn,      \* history: items a crash left in pieces
          calls

vars == <<items, source, embedder, told, added, seen, torn, calls>>

(***************************************************************************)
(* Meta and the files of an item.                                          *)
(***************************************************************************)
\* version 0: no meta.bin.  digest <<t>>: that of the text t; <<>>: one mixed
\* from appends and edits.  stamp: the file's time at the last look, 0: never.
Meta(v) == [version |-> v, total |-> 0, digest |-> <<>>, dim |-> 0,
            linked |-> FALSE, stamp |-> 0]
Fresh(v) == [meta |-> Meta(v), chunks |-> <<>>, data |-> <<>>, vectors |-> <<>>, outline |-> <<>>]
Nothing == Fresh(0)
Exists(d) == d.meta.version # 0

Least(i, j) == IF i < j THEN i ELSE j
Lines(c) == c.end - c.start + 1
Block(d, c) == d.data[c.at]
Readable(d, c) == c.at \in DOMAIN d.data /\ Len(Block(d, c)) = Lines(c)

\* The lines a window over the whole item finds, block by block.
End(d) == IF d.chunks = <<>> THEN 0 ELSE d.chunks[Len(d.chunks)].end
LineAt(d, n) == LET c == CHOOSE c \in {d.chunks[i] : i \in DOMAIN d.chunks} : n \in c.start..c.end
                IN Block(d, c)[n - c.start + 1]
Text(d) == [n \in 1..End(d) |-> LineAt(d, n)]
Held(d) == IF Exists(d) THEN <<Text(d)>> ELSE <<>>

Cut(ls) == [i \in 1..(Len(ls) + Chunk - 1) \div Chunk |->
              SubSeq(ls, (i - 1) * Chunk + 1, Least(i * Chunk, Len(ls)))]

\* The elements of s that are in S, in their order.
Among(s, S) ==
  LET among[i \in 0..Len(s)] ==
        IF i = 0 THEN <<>> ELSE IF s[i] \in S THEN Append(among[i - 1], s[i]) ELSE among[i - 1]
  IN among[Len(s)]

\* The entries of an outline: the headings among ls, whose first line is line n.
Entry(ls, n) == Among([i \in DOMAIN ls |-> <<n + i - 1, ls[i]>>], Nat \X Headings)
Before(entries, line) == Among(entries, (0..line - 1) \X Headings)
AtMost(s, n) == SubSeq(s, 1, Least(n, Len(s)))

(***************************************************************************)
(* Item::append: the lines ls behind those of d, the last block reopened   *)
(* when it is not full.  The embedder answers for the first `good' blocks. *)
(***************************************************************************)
Partial(d) == d.chunks # <<>> /\ Lines(d.chunks[Len(d.chunks)]) < Chunk
\* A mistake append could make: the outline keeps the reopened block.
ClosedOutline(d) ==
  IF ~Partial(d) THEN d
  ELSE LET last == d.chunks[Len(d.chunks)]
           kept == SubSeq(d.chunks, 1, Len(d.chunks) - 1)
       IN [d EXCEPT !.chunks = kept,
                    !.data = SubSeq(d.data, 1, last.at - 1),
                    !.vectors = IF d.meta.dim # 0 THEN AtMost(d.vectors, Len(kept)) ELSE d.vectors]

Closed(d) ==
  IF ~Partial(d) THEN d
  ELSE LET last == d.chunks[Len(d.chunks)]
           kept == SubSeq(d.chunks, 1, Len(d.chunks) - 1)
       IN [d EXCEPT !.chunks = kept,
                    !.data = SubSeq(d.data, 1, last.at - 1),
                    !.vectors = IF d.meta.dim # 0 THEN AtMost(d.vectors, Len(kept)) ELSE d.vectors,
                    !.outline = Before(d.outline, last.start)]

\* A mistake append could make: the reopened block is cut before it is read.
ReopenedLate(d) == <<>>

Reopened(d) == IF Partial(d) THEN Block(d, d.chunks[Len(d.chunks)]) ELSE <<>>

\* A mistake append could make: rows are not counted.
TrustedBlind(dim, vectors, chunks) == dim # 0

\* Vectors count only when there is one row per block.
Trusted(dim, vectors, chunks) == dim # 0 /\ Len(vectors) = Len(chunks)

Grown(d, ls, good) ==
  LET b == Closed(d)
      pending == Reopened(d) \o ls
      blocks == Cut(pending)
      next == End(b) + 1
      width(i) == IF i <= good THEN embedder ELSE 0
      dim == IF b.meta.dim = 0 /\ b.chunks = <<>> /\ blocks # <<>> THEN width(1) ELSE b.meta.dim
      chunks == b.chunks \o [i \in DOMAIN blocks |->
                  [start |-> next + (i - 1) * Chunk,
                   end |-> next + (i - 1) * Chunk + Len(blocks[i]) - 1,
                   at |-> Len(b.data) + i]]
      rows == Among([i \in DOMAIN blocks |-> <<width(i), blocks[i]>>],
                    ({dim} \ {0}) \X {blocks[i] : i \in DOMAIN blocks})
      trusted == Trusted(dim, b.vectors \o rows, chunks)
  IN [b EXCEPT !.chunks = chunks,
               !.data = @ \o blocks,
               !.vectors = IF dim # 0 /\ ~trusted THEN <<>> ELSE @ \o rows,
               !.outline = @ \o AtMost(Entry(pending, next), IF Len(@) < MaxOutline THEN MaxOutline - Len(@) ELSE 0),
               !.meta.dim = IF trusted THEN dim ELSE 0,
               !.meta.total = IF chunks = <<>> THEN 0 ELSE chunks[Len(chunks)].end]

\* An embedder that fails once is not asked again.
Embeds(n, good) == /\ good \in 0..n
                   /\ embedder' = IF good < n THEN 0 ELSE embedder
Blocks(d, ls) == Len(Cut(Reopened(d) \o ls))

\* put_impl: nothing to do when the digest is the stored one.
Same(d, t) == Exists(d) /\ d.meta.digest = <<t>>
\* A mistake put_impl could make: the version stays.
StoredAgain(d, t, good) ==
  IF Same(d, t) THEN d ELSE [Grown(Fresh(d.meta.version), t, good) EXCEPT !.meta.digest = <<t>>]

Stored(d, t, good) ==
  IF Same(d, t) THEN d
  ELSE [Grown(Fresh(d.meta.version + 1), t, good) EXCEPT !.meta.digest = <<t>>]

Linked(d, s) == [d EXCEPT !.meta.linked = TRUE, !.meta.stamp = s.mtime]

Written(s, t) == [text |-> t, mtime |-> s.mtime + 1, there |-> TRUE]

(***************************************************************************)
(* What a crash can leave.                                                 *)
(***************************************************************************)
\* remove_all takes the files in no particular order: data.br gone first, and
\* meta.bin last, stand for the orders.  reset ends with no meta.bin.
Removing(d) ==
  {d, Nothing} \cup
    (IF Exists(d) THEN {[d EXCEPT !.data = <<>>], [Fresh(0) EXCEPT !.meta = d.meta]} ELSE {})

\* An append cuts, then writes blocks, vectors and outline, then chunks.bin, then meta.bin.
Appending(d, g) ==
  IF ~Exists(d) THEN {Nothing}
  ELSE {d, [Closed(d) EXCEPT !.chunks = d.chunks],
        [g EXCEPT !.chunks = d.chunks, !.meta = d.meta], [g EXCEPT !.meta = d.meta]}

(***************************************************************************)
(* The calls.                                                              *)
(***************************************************************************)
Init == /\ items = [n \in Names |-> Nothing]
        /\ source = [n \in Names |-> [text |-> <<>>, mtime |-> 1, there |-> TRUE]]
        /\ embedder = 0
        /\ told = [n \in Names |-> {<<>>}]
        /\ added = [n \in Names |-> <<>>]
        /\ seen = {}
        /\ torn = {}
        /\ calls = 0

Counted == calls < MaxCalls /\ calls' = calls + 1
Now(n, d, texts) == /\ items' = [items EXCEPT ![n] = d]
                    /\ told' = [told EXCEPT ![n] = texts]

Put(n, t) ==
  /\ Counted
  /\ \E good \in 0..Blocks(Nothing, t) :
       /\ IF Same(items[n], t) THEN UNCHANGED embedder ELSE Embeds(Blocks(Nothing, t), good)
       /\ Now(n, Stored(items[n], t, good), {<<t>>})
  /\ torn' = IF Same(items[n], t) THEN torn ELSE torn \ {n}
  /\ seen' = seen \cup {n}
  /\ UNCHANGED <<source, added>>

\* put_file_locked: the file is read and stored, then looked at for its stamp.
Sync(n) ==
  LET s == source[n]  d == items[n] IN
  /\ s.there
  /\ \E good \in 0..Blocks(Nothing, s.text) :
       /\ IF Same(d, s.text) THEN UNCHANGED embedder ELSE Embeds(Blocks(Nothing, s.text), good)
       /\ Now(n, Linked(Stored(d, s.text, good), s), {<<s.text>>})
  /\ torn' = IF Same(d, s.text) THEN torn ELSE torn \ {n}
  /\ added' = [added EXCEPT ![n] = <<>>]
  /\ UNCHANGED source

PutFile(n) == Counted /\ Sync(n) /\ seen' = seen \cup {n}

\* refresh_locked: what read, search and replace_lines do first.
Stale(n) == /\ Exists(items[n]) /\ items[n].meta.linked
            /\ source[n].there /\ items[n].meta.stamp # source[n].mtime
\* A mistake replace_lines could make: what refresh_locked returns is ignored.
RebuildsUnasked(n) == FALSE

Rebuilds(n) == Stale(n) /\ ~Same(items[n], source[n].text)
Refresh(n) == IF Stale(n) THEN Sync(n) ELSE UNCHANGED <<items, source, embedder, told, added, torn>>

\* read, and replace_lines when it refuses: the caller is shown the lines.
Look(n) == Counted /\ Exists(items[n]) /\ Refresh(n) /\ seen' = seen \cup {n}

\* search refreshes every item it ranks, and shows those it finds.
Search(n, found) ==
  /\ Counted /\ Exists(items[n]) /\ Refresh(n)
  /\ seen' = IF found THEN seen \cup {n} ELSE IF Rebuilds(n) THEN seen \ {n} ELSE seen

\* When the file is as it was stored, its new stamp is noted and the edit goes on.
Splice(ls, first, last, t) ==
  AtMost(ls, first - 1) \o (IF first <= Len(ls) + 1 THEN t ELSE <<>>)
    \o SubSeq(ls, last + 1, Len(ls))
Edits(x, first, last, t) == IF x = <<>> THEN <<>> ELSE <<Splice(x[1], first, last, t)>>
InRange(d, first, last) == /\ first \in 1..d.meta.total + 1
                           /\ last + 1 >= first /\ last <= d.meta.total
Legible(d) == \A i \in DOMAIN d.chunks : Readable(d, d.chunks[i])
\* A mistake replace_lines could make: the stamp is carried over with the path.
EditedStamped(d, first, last, t, good) ==
  [Grown(Fresh(d.meta.version + 1), Splice(Text(d), first, last, t), good)
     EXCEPT !.meta.linked = d.meta.linked, !.meta.stamp = d.meta.stamp]

Edited(d, first, last, t, good) ==
  [Grown(Fresh(d.meta.version + 1), Splice(Text(d), first, last, t), good)
     EXCEPT !.meta.linked = d.meta.linked]

\* The rebuilt item replaces the old one and, for a linked item, is written to the file.
WriteThrough(n, d) ==
  LET s == Written(source[n], Text(d)) IN
  /\ items' = [items EXCEPT ![n] = Linked(d, s)]
  /\ source' = [source EXCEPT ![n] = s]
  /\ added' = [added EXCEPT ![n] = <<>>]

Replace(n, first, last, t) ==
  LET d == items[n]
      ls == Splice(Text(d), first, last, t)
  IN /\ Counted /\ Exists(d) /\ Legible(d) /\ InRange(d, first, last)
     /\ ~Rebuilds(n)
     /\ Len(ls) <= MaxLines
     /\ \E good \in 0..Blocks(Nothing, ls) :
          /\ Embeds(Blocks(Nothing, ls), good)
          /\ LET e == Edited(d, first, last, t, good) IN
             IF d.meta.linked THEN WriteThrough(n, e)
             ELSE items' = [items EXCEPT ![n] = e] /\ UNCHANGED <<source, added>>
     /\ told' = [told EXCEPT ![n] = {Edits(x, first, last, t) : x \in @}]
     /\ seen' = seen \cup {n}
     /\ UNCHANGED torn

\* append, of an item with a file like any other: neither the file nor the stamp
\* follows.
AppendText(n, t) ==
  LET d == items[n]
      base == IF Exists(d) THEN d ELSE Fresh(0)
      joined(x) == IF x = <<>> THEN <<t>> ELSE <<x[1] \o t>>
  IN /\ Counted
     /\ Partial(base) => Readable(base, base.chunks[Len(base.chunks)])
     /\ End(base) + Len(t) <= MaxLines
     /\ \E good \in 0..Blocks(base, t) :
          /\ Embeds(Blocks(base, t), good)
          /\ Now(n, [Grown(base, t, good) EXCEPT !.meta.version = @ + 1, !.meta.digest = <<>>],
                 {joined(x) : x \in told[n]})
     /\ added' = IF base.meta.linked THEN [added EXCEPT ![n] = @ \o t] ELSE added
     /\ seen' = seen \cup {n}
     /\ UNCHANGED <<source, torn>>

\* drop_session, and the sweep of a session idle for longer than its time to live.
Forget == /\ Counted
          /\ items' = [n \in Names |-> Nothing]
          /\ told' = [n \in Names |-> {<<>>}]
          /\ torn' = {} /\ seen' = {}
          /\ UNCHANGED <<source, added, embedder>>

SetEmbedder(w) == /\ embedder # w /\ embedder' = w
                  /\ UNCHANGED <<items, source, told, added, seen, torn, calls>>

\* Another program writes or removes a file.
OthersWrite(n, t) == /\ Counted
                     /\ source' = [source EXCEPT ![n] = Written(@, t)]
                     /\ UNCHANGED <<items, embedder, told, added, seen, torn>>
OthersRemove(n) == /\ Counted /\ source[n].there
                   /\ source' = [source EXCEPT ![n].there = FALSE]
                   /\ UNCHANGED <<items, embedder, told, added, seen, torn>>

(***************************************************************************)
(* The process ends in the middle of a call, and starts again.             *)
(***************************************************************************)
\* The call has happened, has not, or has lost the item; the caller finds out which.
Outcome(n, d, texts) == LET may == told[n] \cup {<<>>} \cup texts
                        IN IF Held(d) \in may THEN {Held(d)} ELSE may
Crashed(n, d, texts) ==
  /\ Counted
  /\ Now(n, d, Outcome(n, d, texts))
  /\ torn' = torn \ {n}
  /\ embedder' = 0 /\ UNCHANGED <<added, seen>>

\* The crash came before the first change, after the last, or between.
Broken(n, d, texts) ==
  IF ~Exists(d) \/ (d = items[n] /\ n \notin torn) THEN Crashed(n, d, texts)
  ELSE /\ Counted
       /\ Now(n, d, {<<>>})
       /\ torn' = torn \cup {n}
       /\ embedder' = 0 /\ UNCHANGED <<added, seen>>

CrashInPut(n) ==
  /\ \E t \in Texts \cup (IF source[n].there THEN {source[n].text} ELSE {}) :
       /\ ~Same(items[n], t)
       /\ \E d \in Removing(items[n]) : Broken(n, d, {<<t>>})
  /\ UNCHANGED source

\* put_impl has written its meta.bin, put_file_locked has not.
CrashUnlinked(n) ==
  LET s == source[n] IN
  /\ s.there /\ ~Same(items[n], s.text)
  /\ \E good \in 0..Blocks(Nothing, s.text) :
       Crashed(n, Stored(items[n], s.text, good), {<<s.text>>})
  /\ UNCHANGED source

CrashInAppend(n, t) ==
  LET d == items[n] IN
  /\ Exists(d)
  /\ Partial(d) => Readable(d, d.chunks[Len(d.chunks)])
  /\ End(d) + Len(t) <= MaxLines
  /\ \E good \in 0..Blocks(d, t) : \E e \in Appending(d, Grown(d, t, good)) :
       Broken(n, e, {})
  /\ UNCHANGED source

\* The old item is being removed, or the rebuilt one is in its place and the
\* file is not written yet, or it is and the new stamp is not noted.
CrashInReplace(n, first, last, t) ==
  LET d == items[n]
      ls == Splice(Text(d), first, last, t)
      texts == {Edits(x, first, last, t) : x \in told[n]}
  IN /\ Exists(d) /\ Legible(d) /\ InRange(d, first, last)
     /\ ~Rebuilds(n)
     /\ Len(ls) <= MaxLines
     /\ \/ \E e \in Removing(d) : Broken(n, e, texts) /\ UNCHANGED source
        \/ \E good \in 0..Blocks(Nothing, ls) :
             LET e == Edited(d, first, last, t, good) IN
             /\ IF n \in torn THEN Broken(n, e, texts) ELSE Crashed(n, e, texts)
             /\ \/ UNCHANGED source
                \/ d.meta.linked /\ source' = [source EXCEPT ![n] = Written(@, Text(e))]

Ranges == (1..MaxLines + 1) \X (0..MaxLines)

Call == \E n \in Names :
          \/ PutFile(n) \/ Look(n)
          \/ \E found \in BOOLEAN : Search(n, found)
          \/ \E t \in Texts : Put(n, t) \/ AppendText(n, t)
          \/ \E t \in Texts, r \in Ranges : Replace(n, r[1], r[2], t)
Settings == Forget \/ \E w \in Widths : SetEmbedder(w)
Others == \E n \in Names : OthersRemove(n) \/ \E t \in Texts : OthersWrite(n, t)
Crash == \E n \in Names :
           \/ CrashInPut(n) \/ CrashUnlinked(n)
           \/ \E t \in Texts : CrashInAppend(n, t)
           \/ \E t \in Texts, r \in Ranges : CrashInReplace(n, r[1], r[2], t)
Next == Call \/ Settings \/ Others \/ Crash

Spec == Init /\ [][Next]_vars

(***************************************************************************)
(* Properties.                                                             *)
(***************************************************************************)
IsItem(d) ==
  /\ d.meta.version \in Nat /\ d.meta.total \in 0..MaxLines
  /\ d.meta.dim \in {0} \cup Widths /\ d.meta.linked \in BOOLEAN /\ d.meta.stamp \in Nat
  /\ \A i \in DOMAIN d.chunks : d.chunks[i].start \in 1..d.chunks[i].end /\ d.chunks[i].end <= MaxLines
  /\ ~Exists(d) => d = Nothing

\* Types; nothing of an item is on disk before its first meta.bin.
TypeOK ==
  /\ items \in [Names -> {items[n] : n \in Names}] /\ \A n \in Names : IsItem(items[n])
  /\ \A n \in Names : source[n].mtime \in Nat /\ source[n].there \in BOOLEAN
  /\ embedder \in {0} \cup Widths
  /\ torn \subseteq Names /\ seen \subseteq Names /\ calls \in 0..MaxCalls

\* The records of an item agree: its blocks are full but for the last, follow
\* each other, and are where chunks.bin says; meta.bin counts their lines; the
\* outline is the first headings of the text (Item::append, an item that grows
\* by any mixture of appends reads as if it had been written at once).
Whole ==
  \A n \in Names \ torn :
    LET d == items[n]  ls == Text(d) IN
    /\ [i \in DOMAIN d.chunks |-> Block(d, d.chunks[i])] = Cut(ls)
    /\ \A i \in DOMAIN d.chunks : d.chunks[i].start = (i - 1) * Chunk + 1
    /\ d.meta.total = Len(ls)
    /\ d.outline = AtMost(Entry(ls, 1), MaxOutline)

\* When vectors are trusted, row i is the vector of block i, whatever embedder
\* failed or was changed on the way (append, "a gap would shift every later row").
VectorsAligned ==
  \A n \in Names \ torn :
    LET d == items[n] IN
    d.meta.dim # 0 => d.vectors = [i \in DOMAIN d.chunks |-> <<d.meta.dim, Block(d, d.chunks[i])>>]

\* An item holds the text the calls made of it; a call a crash stopped has
\* happened, has not happened, or has lost the item.
AllOrNothing == \A n \in Names \ torn : Held(items[n]) \in told[n]

\* The copy of a file whose stamp is the file's has the file's text, with nothing
\* but the lines appended since behind it, after refreshes, edits written through
\* and crashes between the two (put_file_locked, refresh_locked, append).
SyncedCopy ==
  \A n \in Names \ torn :
    LET d == items[n]  s == source[n] IN
    Exists(d) /\ d.meta.linked /\ s.there /\ d.meta.stamp = s.mtime => Text(d) = s.text \o added[n]

\* An edit overwrites a file only when the copy it was made on was the file's
\* text, with the lines appended since behind it: what another program wrote is
\* not lost (replace_lines, "don't edit blindly").
EditsWhatIsThere ==
  [][\A n \in Names \ torn :
       items'[n] # items[n] /\ source'[n] # source[n] /\ source[n].there
         => Held(items[n]) = <<source[n].text \o added[n]>>]_vars

\* The copy of a file only mirrors it (context_memory.cpp:880).  The code does not
\* keep it: append changes the copy alone, and its stamp still is the file's.
CopyMirrorsFile ==
  \A n \in Names \ torn :
    LET d == items[n]  s == source[n] IN
    Exists(d) /\ d.meta.linked /\ s.there /\ d.meta.stamp = s.mtime => Text(d) = s.text

\* An edit that overwrites a file was made on the file's own lines (README.md:104,
\* "an edit based on line numbers the file no longer has is refused").  The code
\* does not keep it: after an append the stamp is the file's, so nothing is refused.
EditsTheFilesLines ==
  [][\A n \in Names \ torn :
       items'[n] # items[n] /\ source'[n] # source[n] /\ source[n].there
         => Held(items[n]) = <<source[n].text>>]_vars

\* An edit is made on lines the caller was shown (README.md:104, "an edit based
\* on line numbers the file no longer has is refused").
EditsWhatWasSeen ==
  [][\A n \in Names \ torn : source'[n] # source[n] /\ items'[n] # items[n] => n \in seen]_vars
=============================================================================
