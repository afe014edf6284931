------------------------------ MODULE Session ------------------------------
(***************************************************************************)
(* The conversation session of one native engine context (core/ctx.cpp)    *)
(* and the KV cache under it (models/dense_forward.cpp).                   *)
(*                                                                         *)
(* Every call takes the context's mutex for its whole body, so a call is   *)
(* one action; only engine_cancel writes its flag without the mutex, and   *)
(* the one call that loops over files (engine_prefix_cache_load) is one    *)
(* action per file, with every other call but cancel locked out meanwhile. *)
(*                                                                         *)
(* A row of the cache remembers what its K/V were computed from: the       *)
(* token, the weights, the kind of step, and whether an image vector took  *)
(* the place of the token's embedding.                                     *)
(*                                                                         *)
(* Left out: what the sampler, the grammars and the reasoning budget do to *)
(* a draw (a draw is any token CanDraw admits in that context), the gate   *)
(* of the speculation (a round may or may not be tried), statistics,       *)
(* logging, and bytes: a budget counts tokens.                             *)
(***************************************************************************)
EXTENDS Integers, Sequences, FiniteSets, SequencesExt

CONSTANTS
  Tokens,         \* the vocabulary
  Img,            \* the image placeholder, a token
  CanDraw(_, _),  \* CanDraw(s, t): the sampler may draw t after the tokens s
  Prompts,        \* text prompts the application sends
  VisionPrompts,  \* prompts it sends with image vectors
  Surplus,        \* image vectors beyond the placeholders of a vision prompt
  Texts,          \* texts it asks to score
  Modes,          \* session reuse modes it sets (the first one is 1, exact)
  DraftLimits,    \* speculation limits it sets (0 is off)
  Budgets,        \* prefix store budgets it sets, in tokens (0 is off)
  MinTokens,      \* prefix_min_tokens
  NGram,          \* kSpecNgram
  MinDraft,       \* kSpecMinDraft
  Calls,          \* the optional calls the application makes
  Cuda,           \* built with CUDA: decode may be pipelined
  Faults,         \* steps, imports and file writes may fail
  MaxLen          \* bound: positions the cache and the history may reach

AllCalls == {"score", "reset", "trim", "configure", "lora", "image", "disk", "vision",
             "restart", "cancel"}

ASSUME TokenAssumption == Img \in Tokens
ASSUME PromptAssumption ==
  \A p \in Prompts \cup VisionPrompts \cup Texts : p \in Seq(Tokens) /\ p # <<>>
ASSUME TextAssumption == \A p \in Texts : \A i \in 1..Len(p) : p[i] # Img
ASSUME SettingAssumption ==
  /\ Surplus \in Nat
  /\ Modes \subseteq 0..2
  /\ DraftLimits \subseteq Nat
  /\ Budgets \subseteq Nat
  /\ MinTokens \in Nat \ {0}
  /\ NGram \in Nat \ {0}
  /\ MinDraft \in Nat \ {0}
  /\ MaxLen \in Nat
  /\ Calls \subseteq AllCalls
  /\ Cuda \in BOOLEAN
  /\ Faults \in BOOLEAN

VARIABLES
  cache,        \* DenseForward: the rows [0, cache_cols_), oldest first
  unread,       \* DenseForward: vectors of the embedding override not read yet
  overridden,   \* DenseForward: an embedding override was set (none is ever cleared)
  weights,      \* DenseForward: "base", or "lora" once an adapter is loaded
  kvTokens,     \* kv_tokens
  kvValid,      \* kv_valid
  kvPrefilled,  \* kv_prefilled
  mode,         \* session_mode
  hasSession,   \* has_session
  last,         \* last_token
  history,      \* history
  queue,        \* spec_out
  maxDraft,     \* spec_max_draft
  pipe,         \* pipe: a decode step is in flight on the device
  store,        \* prefix_store, each entry with its age in last-use order
  budget,       \* prefix_budget
  loading,      \* files engine_prefix_cache_load has still to read
  cancel,       \* cancel
  image,        \* the session file on disk: at most one session image
  disk,         \* the prefix store directory
  text,         \* what the caller holds: its prompt and the tokens returned since
  outcome       \* how the last call that ran the model ended

forward  == <<cache, unread, overridden, weights>>
kv       == <<kvTokens, kvValid, kvPrefilled>>
gen      == <<hasSession, last, history, queue>>
settings == <<mode, maxDraft, budget>>
files    == <<image, disk>>
ghosts   == <<text, outcome>>
vars     == <<forward, kv, gen, settings, pipe, store, loading, cancel, files, ghosts>>

Kinds    == {"prefill", "lone", "decode", "verify"}
Weights  == {"base", "lora"}
Row      == [tok: Tokens, w: Weights, kind: Kinds, img: BOOLEAN]
Entry    == [toks: Seq(Tokens), rows: Seq(Row), age: Nat]
Image    == [toks: Seq(Tokens), rows: Seq(Row)]
Outcomes == {"none", "ok", "failed", "cancelled", "stale"}
-----------------------------------------------------------------------------
(* The forward engine.                                                     *)

Lesser(a, b) == IF a <= b THEN a ELSE b

Toks(rows) == [i \in 1..Len(rows) |-> rows[i].tok]

\* Placeholders among the first n tokens of ts.
Placeholders(ts, n) == Cardinality({i \in 1..n : ts[i] = Img})

\* The rows one step over ts writes: a placeholder takes the next override
\* vector while there is one, and is an ordinary token after that.
Compute(ts, kind) ==
  [i \in 1..Len(ts) |->
     [tok |-> ts[i], w |-> weights, kind |-> kind,
      img |-> ts[i] = Img /\ Placeholders(ts, i) <= unread]]

\* Mutant: every placeholder takes a vector, left or not.
UnreadUnchecked(ts) == unread - Placeholders(ts, Len(ts))

UnreadAfter(ts) == unread - Lesser(unread, Placeholders(ts, Len(ts)))

\* The batched path, or the single-token path when the batch is one token.
Batch(ts) == Compute(ts, IF Len(ts) = 1 THEN "lone" ELSE "prefill")

Draws(ts) == {t \in Tokens : CanDraw(ts, t)}

\* Mutant: the position of the step in flight is not rewound.
NeverRewound == cache

\* drain_pipeline: the cache once the position of the step in flight is rewound.
Settled == IF pipe THEN SubSeq(cache, 1, Len(cache) - 1) ELSE cache

Locked(call) == loading = {} /\ call \in Calls

\* Mutants: the session keeps its validity; the session is kept whole.
InvalidateTokens == kvTokens' = <<>> /\ kvPrefilled' = 0 /\ UNCHANGED kvValid
InvalidateNothing == UNCHANGED kv
Invalidate ==
  /\ kvTokens' = <<>>
  /\ kvValid' = FALSE
  /\ kvPrefilled' = 0

Consumed(ts) == kvTokens' = IF kvValid THEN kvTokens \o ts ELSE kvTokens
-----------------------------------------------------------------------------
(* Reuse of the live cache and of the prefix store.                        *)

\* Mutant: the tokens are not compared.
LimitOnly(s, t, limit) == {limit}

\* Where the loop that walks s and t together stops: one value.
CommonPrefix(s, t, limit) ==
  {n \in 0..limit : /\ \A i \in 1..n : s[i] = t[i]
                    /\ n = limit \/ s[n + 1] # t[n + 1]}

\* How many positions may be reused. Mutant: decoded ones in every mode.
CachedAll == Len(kvTokens)
Cached == IF mode = 2 THEN Len(kvTokens) ELSE kvPrefilled

Reusable(p) ==
  IF mode = 0 \/ ~kvValid \/ Len(p) < 2
  THEN {0}
  ELSE CommonPrefix(kvTokens, p,
         Lesser(Lesser(Cached, Len(kvTokens)), Lesser(Len(p) - 1, Len(Settled))))

StoreSize(S) == SumFunction([e \in S |-> Len(e.toks)])

\* Ages are ranks in last-use order: 0 is the entry used last.
Ranked(S) == {[e EXCEPT !.age = Cardinality({f \in S : f.age < e.age})] : e \in S}

\* Mutant: the entry used last goes in without its older copy going out.
UseLastTwice(S, e) == {[e EXCEPT !.age = 0]} \cup {[f EXCEPT !.age = @ + 1] : f \in Ranked(S)}

UseLast(S, e) == {[e EXCEPT !.age = 0]} \cup {[f EXCEPT !.age = @ + 1] : f \in Ranked(S \ {e})}

\* Mutant: an entry's own size is not counted.
TrimmedLate(S, limit) == {e \in S : StoreSize({f \in S : f.age < e.age}) <= limit}

\* Dropping the least recently used until the rest fits keeps exactly the
\* entries that fit together with everything used after them.
Trimmed(S, limit) == {e \in S : StoreSize({f \in S : f.age <= e.age}) <= limit}

SaveLive(reuse) ==
  LET n == Lesser(kvPrefilled, Lesser(Len(kvTokens), Len(Settled)))
      live == [toks |-> SubSeq(kvTokens, 1, n), rows |-> SubSeq(Settled, 1, n), age |-> 0]
      covering == {e \in store : IsPrefix(live.toks, e.toks)}
      others == {e \in store : ~IsPrefix(e.toks, live.toks)}
      worthIt == kvValid /\ n >= MinTokens /\ n >= reuse + MinTokens
  IN CASE ~worthIt -> {store}
       [] worthIt /\ covering # {} -> {UseLast(store, e) : e \in covering}
       [] worthIt /\ covering = {} /\ n > budget -> {store}
       [] OTHER -> {Trimmed(UseLast(others, live), budget)}

Matches(S, p) ==
  UNION {{[entry |-> e, len |-> n] :
             n \in CommonPrefix(e.toks, p, Lesser(Len(e.toks), Len(p) - 1))} : e \in S}

\* The longest match, when it is worth restoring and beats the live cache.
Found(S, p, reuse) ==
  {m \in Matches(S, p) : /\ m.len >= MinTokens
                         /\ m.len > reuse
                         /\ \A o \in Matches(S, p) : o.len <= m.len}
-----------------------------------------------------------------------------
(* Prefill: engine_predict, engine_predict_vision, engine_score_tokens.    *)

\* The first token is drawn after the whole prompt and the generation begins.
Begin(p, rows) ==
  \E t \in Draws(Toks(rows)) :
    /\ hasSession' = TRUE
    /\ last' = t
    /\ history' = p
    /\ queue' = <<>>
    /\ text' = Append(p, t)
    /\ outcome' = "ok"

\* A failed step may have read its override vectors or not. Only a batch of
\* several tokens looks at the cancel flag, which a cancel sets during the call.
Interrupted(ts) ==
  /\ unread' \in {unread, UnreadAfter(ts)}
  /\ \/ Faults /\ outcome' = "failed" /\ cancel' = FALSE
     \/ "cancel" \in Calls /\ Len(ts) > 1 /\ outcome' = "cancelled" /\ cancel' = TRUE

\* The part of engine_predict after the reuse is decided: rows[1..n] stay.
Prefill(p, rows, n, kept) ==
  LET tail == SubSeq(p, n + 1, Len(p))
      filled == SubSeq(rows, 1, n) \o Batch(tail)
  IN /\ store' = kept
     /\ pipe' = FALSE
     /\ \/ /\ cache' = filled
           /\ unread' = UnreadAfter(tail)
           /\ cancel' = FALSE
           /\ kvTokens' = p
           /\ kvPrefilled' = Len(p)
           /\ kvValid' = TRUE
           /\ Begin(p, filled)
        \/ /\ Interrupted(tail)
           /\ cache' = <<>>
           /\ Invalidate
           /\ UNCHANGED <<gen, text>>
     /\ UNCHANGED <<overridden, weights, settings, loading, files>>

Predict(p) ==
  /\ loading = {}
  /\ Len(p) <= MaxLen
  /\ \E reuse \in Reusable(p) :
       IF budget = 0 \/ mode = 0
       THEN Prefill(p, Settled, reuse, store)
       ELSE \E kept \in SaveLive(reuse) :
              IF Found(kept, p, reuse) = {}
              THEN Prefill(p, Settled, reuse, kept)
              ELSE \E m \in Found(kept, p, reuse) :
                     \/ Prefill(p, m.entry.rows, m.len, UseLast(kept, m.entry))
                     \/ Faults /\ Prefill(p, <<>>, 0, kept)     \* import_kv failed

\* The override replaces the one set before; the flag of an earlier cancel is
\* not cleared; a failure leaves the generation as it was.
PredictVision(p) ==
  LET vectors == Placeholders(p, Len(p)) + Surplus
      rows == [i \in 1..Len(p) |-> [tok |-> p[i], w |-> weights, img |-> p[i] = Img,
                                    kind |-> IF Len(p) = 1 THEN "lone" ELSE "prefill"]]
      heard == Len(p) > 1 /\ cancel
  IN /\ Locked("vision")
     /\ Len(p) <= MaxLen
     /\ Invalidate
     /\ overridden' = TRUE
     /\ pipe' = FALSE
     /\ \/ /\ ~heard
           /\ cache' = rows
           /\ unread' = Surplus
           /\ UNCHANGED cancel
           /\ Begin(p, rows)
        \/ /\ \/ Faults /\ ~heard /\ outcome' = "failed" /\ UNCHANGED cancel
              \/ heard /\ outcome' = "stale" /\ UNCHANGED cancel
              \/ ~heard /\ "cancel" \in Calls /\ Len(p) > 1
                 /\ outcome' = "cancelled" /\ cancel' = TRUE
           /\ unread' \in {vectors, Surplus}
           /\ \/ cache' = <<>>
              \/ Cuda /\ Len(p) = 1 /\ outcome' = "failed" /\ cache' = rows
           /\ UNCHANGED <<gen, text>>
     /\ UNCHANGED <<weights, settings, store, loading, files>>

\* Scores ts[from + 1 ..] : consumes all but the last token, in a prefill of
\* the context and then a batch of the rest (chunks of 64 rows: one here).
Score(ts, from) ==
  \E reuse \in Reusable(SubSeq(ts, 1, from)) :
    LET context == SubSeq(ts, reuse + 1, from - 1)
        scored  == SubSeq(ts, from, Len(ts) - 1)
        filled  == SubSeq(Settled, 1, reuse) \o Batch(context) \o Batch(scored)
    IN /\ Locked("score")
       /\ from < Len(ts)
       /\ Len(ts) <= MaxLen
       /\ hasSession' = FALSE
       /\ queue' = <<>>
       /\ pipe' = FALSE
       /\ \/ /\ cache' = filled
             /\ cancel' = FALSE
             /\ kvTokens' = SubSeq(ts, 1, Len(ts) - 1)
             /\ kvPrefilled' = Len(ts) - 1
             /\ kvValid' = TRUE
             /\ outcome' = "ok"
             /\ UNCHANGED unread
          \/ /\ Interrupted(context) \/ Interrupted(scored)
             /\ cache' = <<>>
             /\ Invalidate
       /\ UNCHANGED <<overridden, weights, last, history, settings, store, loading, files, text>>
-----------------------------------------------------------------------------
(* Decode: engine_next_token.                                              *)

Answering == loading = {} /\ hasSession

\* Nothing decided ahead is left to hand out. The history is bounded like the
\* cache: the two part only after a failure.
Decoding == Answering /\ queue = <<>> /\ Len(history) < MaxLen

\* Mutant: the token handed out stays queued.
DeliverAgain ==
  /\ Answering
  /\ queue # <<>>
  /\ text' = Append(text, Head(queue))
  /\ outcome' = "ok"
  /\ UNCHANGED <<forward, kv, gen, settings, pipe, store, loading, cancel, files>>

\* A token an earlier speculative round decided.
Deliver ==
  /\ Answering
  /\ queue # <<>>
  /\ queue' = Tail(queue)
  /\ text' = Append(text, Head(queue))
  /\ outcome' = "ok"
  /\ UNCHANGED <<forward, kv, hasSession, last, history, settings, pipe, store, loading, cancel, files>>

\* What spec_draft may return: what followed an earlier occurrence of the last
\* NGram tokens (which occurrence, among several, is left open).
Drafts ==
  LET all == Append(history, last)
      L == Len(all)
      Occurs(s) == \A j \in 0..NGram - 1 : all[s + j] = all[L - NGram + 1 + j]
      Guess(s) == SubSeq(all, s + NGram, Lesser(s + NGram + maxDraft - 1, L - 1))
  IN {d \in {Guess(s) : s \in {s \in 1..L - NGram : Occurs(s)}} : Len(d) >= MinDraft}

\* One batched pass over the last token and a guess of m tokens, k of them kept.
SpecRound ==
  /\ Decoding
  /\ maxDraft > 0
  /\ pipe' = FALSE
  /\ \E draft \in Drafts :
       LET in == <<last>> \o draft
           base == Settled
           filled == base \o Compute(in, "verify")
           m == Len(draft)
           Drawn(i) == Draws(Toks(SubSeq(filled, 1, Len(base) + i)))
       IN /\ Len(filled) <= MaxLen
          /\ \/ \E k \in 0..m : \E t \in Drawn(k + 1) :
                  LET outs == Append(SubSeq(draft, 1, k), t)
                  IN /\ ~cancel
                     /\ \A i \in 1..k : draft[i] \in Drawn(i)
                     /\ k < m => t # draft[k + 1]
                     /\ cache' = SubSeq(filled, 1, Len(base) + 1 + k)
                     /\ unread' = UnreadAfter(in)
                     /\ history' = history \o SubSeq(in, 1, k + 1)
                     /\ Consumed(SubSeq(in, 1, k + 1))
                     /\ last' = t
                     /\ queue' = Tail(outs)
                     /\ text' = Append(text, Head(outs))
                     /\ outcome' = "ok"
                     /\ UNCHANGED <<kvValid, kvPrefilled, cancel>>
             \/ /\ \/ Faults /\ ~cancel /\ outcome' = "failed" /\ UNCHANGED cancel
                   \/ cancel /\ outcome' = "stale" /\ UNCHANGED cancel
                   \/ ~cancel /\ "cancel" \in Calls /\ outcome' = "cancelled" /\ cancel' = TRUE
                /\ cache' = base
                /\ unread' \in {unread, UnreadAfter(in)}
                /\ Invalidate
                /\ UNCHANGED <<history, last, queue, text>>
  /\ UNCHANGED <<overridden, weights, hasSession, settings, store, loading, files>>

\* A decode step that fails may have advanced the cache before (the head runs
\* after the layers, on the device). base is the cache the step started from.
DecodeFails(base, t) ==
  /\ Faults
  /\ cache' \in {base} \cup (IF Cuda THEN {base \o Compute(<<t>>, "decode")} ELSE {})
  /\ unread' \in {unread, UnreadAfter(<<t>>)}
  /\ Invalidate
  /\ outcome' = "failed"
  /\ UNCHANGED <<last, queue, text>>

Returned(t) ==
  /\ last' = t
  /\ text' = Append(text, t)
  /\ outcome' = "ok"
  /\ UNCHANGED queue

\* The one-token path.
DecodeOne ==
  LET grown == Settled \o Compute(<<last>>, "decode")
  IN /\ Decoding
     /\ Len(grown) <= MaxLen
     /\ pipe' = FALSE
     /\ \/ /\ cache' = grown
           /\ unread' = UnreadAfter(<<last>>)
           /\ history' = Append(history, last)
           /\ Consumed(<<last>>)
           /\ \E t \in Draws(Toks(grown)) : Returned(t)
           /\ UNCHANGED <<kvValid, kvPrefilled>>
        \/ DecodeFails(Settled, last) /\ UNCHANGED history
     /\ UNCHANGED <<overridden, weights, hasSession, settings, store, loading, cancel, files>>

\* The pipelined path: the step that consumes last (run now when none is in
\* flight) and, queued behind it, the step that consumes the token drawn.
\* It is never entered once a vision prompt was sent.
Pipelined ==
  LET grown == IF pipe THEN cache ELSE cache \o Compute(<<last>>, "decode")
  IN /\ Decoding
     /\ Cuda
     /\ pipe \/ ~overridden
     /\ Len(grown) < MaxLen
     /\ \/ /\ history' = Append(history, last)
           /\ \E t \in Draws(Toks(grown)) :
                \/ /\ cache' = grown \o Compute(<<t>>, "decode")
                   /\ pipe' = TRUE
                   /\ Consumed(<<last>>)
                   /\ Returned(t)
                   /\ UNCHANGED <<unread, kvValid, kvPrefilled>>
                \/ DecodeFails(grown, t) /\ pipe' = FALSE     \* the second launch
        \/ ~pipe /\ DecodeFails(cache, last) /\ UNCHANGED <<history, pipe>>
     /\ UNCHANGED <<overridden, weights, hasSession, settings, store, loading, cancel, files>>
-----------------------------------------------------------------------------
(* Settings and the life of the session.                                   *)

\* The one setting call that does not drain the pipeline.
SetSessionReuse(m) ==
  /\ loading = {}
  /\ mode' = m
  /\ IF m = 0 THEN Invalidate ELSE UNCHANGED kv
  /\ UNCHANGED <<forward, gen, maxDraft, budget, pipe, store, loading, cancel, files, ghosts>>

Drain == loading = {} /\ pipe' = FALSE /\ cache' = Settled

SetSpeculation(d) ==
  /\ Drain
  /\ maxDraft' = d
  /\ queue' = IF d = 0 THEN <<>> ELSE queue
  /\ UNCHANGED <<unread, overridden, weights, kv, hasSession, last, history, mode, budget, store,
                 loading, cancel, files, ghosts>>

SetPrefixCache(b) ==
  /\ Drain
  /\ budget' = b
  /\ store' = Trimmed(store, b)
  /\ UNCHANGED <<unread, overridden, weights, kv, gen, mode, maxDraft, loading, cancel, files, ghosts>>

\* Every other setting (sampling, bias, schema, tool constraint, reasoning
\* budget, tracking, probe, reserve): nothing here but the drain.
Configure ==
  /\ Locked("configure")
  /\ Drain
  /\ UNCHANGED <<unread, overridden, weights, kv, gen, settings, store, loading, cancel, files, ghosts>>

\* engine_load_lora (which drops the session even when the load fails) and
\* engine_clear_lora.
SetLora(w) ==
  /\ Locked("lora")
  /\ Drain
  /\ Invalidate
  /\ weights' \in {w} \cup (IF Faults /\ w = "lora" THEN {weights} ELSE {})
  /\ UNCHANGED <<unread, overridden, gen, settings, store, loading, cancel, files, ghosts>>

SessionReset ==
  /\ Locked("reset")
  /\ cache' = <<>>
  /\ pipe' = FALSE
  /\ Invalidate
  /\ hasSession' = FALSE
  /\ queue' = <<>>
  /\ UNCHANGED <<unread, overridden, weights, last, history, settings, store, loading, cancel, files, ghosts>>

TrimCache ==
  /\ Locked("trim")
  /\ cache' = <<>>
  /\ pipe' = FALSE
  /\ Invalidate
  /\ UNCHANGED <<unread, overridden, weights, gen, settings, store, loading, cancel, files, ghosts>>

\* From any thread, without the mutex, whatever runs.
Cancel ==
  /\ "cancel" \in Calls
  /\ cancel' = TRUE
  /\ UNCHANGED <<forward, kv, gen, settings, pipe, store, loading, files, ghosts>>
-----------------------------------------------------------------------------
(* Session images and the prefix store on disk.                            *)

\* Written to a temporary file and renamed, so a failure changes nothing.
SaveSession(nPrefix) ==
  LET all == Lesser(kvPrefilled, Len(Settled))
      n == IF nPrefix = 0 THEN all ELSE Lesser(all, nPrefix)
  IN /\ Locked("image")
     /\ Drain
     /\ kvValid
     /\ kvPrefilled > 0
     /\ image' = {[toks |-> SubSeq(kvTokens, 1, n), rows |-> SubSeq(Settled, 1, n)]}
     /\ UNCHANGED <<unread, overridden, weights, kv, gen, settings, store, loading, cancel, disk, ghosts>>

LoadSession ==
  /\ Locked("image")
  /\ pipe' = FALSE
  /\ \E saved \in image :
       \/ /\ cache' = saved.rows
          /\ kvTokens' = saved.toks
          /\ kvPrefilled' = Len(saved.toks)
          /\ kvValid' = TRUE
          /\ hasSession' = FALSE
          /\ queue' = <<>>
          /\ UNCHANGED <<last, history>>
       \/ /\ Faults                           \* import_kv failed before it wrote
          /\ cache' = Settled
          /\ UNCHANGED <<kv, gen>>
  /\ UNCHANGED <<unread, overridden, weights, settings, store, loading, cancel, files, ghosts>>

\* One file per entry, named after its tokens: an older file of the same
\* tokens is replaced. A failed write leaves the files written before it.
SavePrefixes ==
  /\ Locked("disk")
  /\ Drain
  /\ store # {}
  /\ \E written \in {store} \cup (IF Faults THEN SUBSET store ELSE {}) :
       disk' = {f \in disk : \A e \in written : e.toks # f.toks}
               \cup {[toks |-> e.toks, rows |-> e.rows] : e \in written}
  /\ UNCHANGED <<unread, overridden, weights, kv, gen, settings, store, loading, cancel, image, ghosts>>

LoadPrefixes ==
  /\ Locked("disk")
  /\ Drain
  /\ budget > 0
  /\ loading' = disk
  /\ UNCHANGED <<unread, overridden, weights, kv, gen, settings, store, cancel, files, ghosts>>

\* One turn of the loop over the directory, the mutex still held.
LoadPrefix(f) ==
  /\ loading' = loading \ {f}
  /\ store' = IF Len(f.toks) > budget \/ \E e \in store : IsPrefix(f.toks, e.toks)
              THEN store
              ELSE Trimmed(UseLast(store, [toks |-> f.toks, rows |-> f.rows, age |-> 0]), budget)
  /\ UNCHANGED <<forward, kv, gen, settings, pipe, cancel, files, ghosts>>
-----------------------------------------------------------------------------
\* last_token is -1 until a first token is drawn; no call reads it before.
Init ==
  /\ cache = <<>> /\ unread = 0 /\ overridden = FALSE /\ weights = "base"
  /\ kvTokens = <<>> /\ kvValid = FALSE /\ kvPrefilled = 0
  /\ hasSession = FALSE /\ last = Img /\ history = <<>> /\ queue = <<>>
  /\ mode = 1 /\ maxDraft = 0 /\ budget = 0
  /\ pipe = FALSE /\ store = {} /\ loading = {} /\ cancel = FALSE
  /\ image = {} /\ disk = {}
  /\ text = <<>> /\ outcome = "none"

\* The process ends and a new one opens the model; the files stay.
Restart ==
  /\ "restart" \in Calls
  /\ cache' = <<>> /\ unread' = 0 /\ overridden' = FALSE /\ weights' = "base"
  /\ Invalidate
  /\ hasSession' = FALSE /\ last' = Img /\ history' = <<>> /\ queue' = <<>>
  /\ mode' = 1 /\ maxDraft' = 0 /\ budget' = 0
  /\ pipe' = FALSE /\ store' = {} /\ loading' = {} /\ cancel' = FALSE
  /\ text' = text /\ outcome' = "none"
  /\ UNCHANGED files

Next ==
  \/ \E p \in Prompts : Predict(p)
  \/ \E p \in VisionPrompts : PredictVision(p)
  \/ \E ts \in Texts : \E from \in 1..Len(ts) : Score(ts, from)
  \/ Deliver
  \/ SpecRound
  \/ DecodeOne
  \/ Pipelined
  \/ \E m \in Modes : SetSessionReuse(m)
  \/ \E d \in DraftLimits : SetSpeculation(d)
  \/ \E b \in Budgets : SetPrefixCache(b)
  \/ Configure
  \/ \E w \in Weights : SetLora(w)
  \/ SessionReset
  \/ TrimCache
  \/ Cancel
  \/ \E n \in 0..MaxLen : SaveSession(n)
  \/ LoadSession
  \/ SavePrefixes
  \/ LoadPrefixes
  \/ \E f \in loading : LoadPrefix(f)
  \/ Restart

Spec == Init /\ [][Next]_vars
-----------------------------------------------------------------------------
(* Properties.                                                             *)

\* Every variable of the context holds a value of its kind.
TypeOK ==
  /\ cache \in Seq(Row) /\ unread \in Nat /\ overridden \in BOOLEAN /\ weights \in Weights
  /\ kvTokens \in Seq(Tokens) /\ kvValid \in BOOLEAN /\ kvPrefilled \in Nat
  /\ mode \in 0..2 /\ maxDraft \in Nat /\ budget \in Nat
  /\ hasSession \in BOOLEAN /\ last \in Tokens /\ history \in Seq(Tokens)
  /\ queue \in Seq(Tokens) /\ pipe \in BOOLEAN /\ store \subseteq Entry
  /\ loading \subseteq Image /\ cancel \in BOOLEAN
  /\ image \subseteq Image /\ disk \subseteq Image
  /\ text \in Seq(Tokens) /\ outcome \in Outcomes

\* The rows are the K/V of exactly these tokens, no image among them.
Faithful(toks, rows) ==
  /\ Len(toks) = Len(rows)
  /\ \A i \in 1..Len(rows) : rows[i].tok = toks[i] /\ ~rows[i].img

\* kv_tokens lists exactly the tokens whose K/V are in the cache whenever
\* kv_valid says so, whatever mixture of prefills, decodes, speculative rounds,
\* rewound pipeline steps, restores and failures led there: reusing a prefix of
\* it can never give a prompt the K/V of another text.
CacheFaithful == kvValid => Faithful(kvTokens, Settled)

\* Every copy of a cache kept outside it (prefix store, session file, prefix
\* files) pairs its tokens with the rows computed from them.
CopiesFaithful ==
  \A e \in store \cup image \cup disk \cup loading : Faithful(e.toks, e.rows)

\* No valid cache and no copy that can be restored holds K/V of other weights
\* than those the context runs now.
OneWeights ==
  /\ kvValid => \A i \in 1..Len(cache) : cache[i].w = weights
  /\ \A e \in store : \A i \in 1..Len(e.rows) : e.rows[i].w = weights

\* Positions counted as prefilled, live or kept in a copy, were written by a
\* prefill and never by a decode or by the check of a guess.
PrefilledOnly ==
  LET ByPrefill(rows, n) == \A i \in 1..n : rows[i].kind \in {"prefill", "lone"}
  IN /\ kvValid => ByPrefill(Settled, Lesser(kvPrefilled, Len(Settled)))
     /\ \A e \in store \cup image \cup disk : ByPrefill(e.rows, Len(e.rows))

\* The store never exceeds its budget, and its last-use order is strict with no
\* prompt kept twice: the entry dropped first is always the one used longest ago.
StoreWithinBudget == StoreSize(store) <= budget
OneOfEach ==
  \A e, f \in store : e.toks = f.toks \/ e.age = f.age => e = f

\* While a generation is open the cache holds its history (and, with a step
\* in flight, the token being consumed): every token is drawn in its context.
InContext ==
  hasSession => Toks(cache) = IF pipe THEN Append(history, last) ELSE history

\* What the caller was told, followed by what is queued for it, is what the
\* model consumed followed by the token it consumes next: no token is lost,
\* repeated or reordered on its way to the caller.
NoGap == hasSession => text \o queue = Append(history, last)

\* A request to cancel that arrives while nothing runs stops no later call.
CancelHitsOnlyRunningCall == outcome # "stale"

\* Whatever the order of calls, the caller reads one continuation of its
\* prompt, each token drawn after exactly the tokens before it.
Said == INSTANCE Continuation WITH live <- hasSession
ContinuesText == Said!Spec
=============================================================================
