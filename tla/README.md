# DesireeIA: a formal model

DesireeIA runs language models on one machine: a native C++ engine behind a C
ABI, C# and Python bindings over it, and an HTTP server. This directory holds
TLA+ modules that model its core, the TLC configurations that check them on
small instances, and proofs that TLAPS checks for every value of the constants.
Paths below are relative to the repository; `ctx.cpp` is
`src/DesireeIA.LocaleEngine/src/core/ctx.cpp`, and so on.

## The system

| Component | State | Operations | What must hold | Modules |
|---|---|---|---|---|
| Conversation session (`core/ctx.cpp`) | `kv_tokens`, `kv_valid`, `kv_prefilled`, `session_mode`; `has_session`, `last_token`, `history`, `spec_out`; `pipe`; the cancel flag | `engine_predict`, `engine_next_token`, `engine_predict_vision`, `engine_score_tokens`, settings, reset, trim, adapters, cancel | a cached row is never taken for the K/V of another text or other weights; the caller reads one continuation of its prompt | `Session`, `Continuation` |
| Prefix store (`core/ctx.cpp`) | entries with last-use stamps, a budget; one file per entry | save, find, restore, trim; save and load of the directory | within budget, strict last-use order, each entry holds the K/V of its own tokens | `Session` |
| KV cache (`models/dense_forward.cpp`) | `cache_cols_` rows, embedding override and its cursor | `step`, `step_candidates`, `decode_launch`, truncate, reset, release, export, import | a failed or cancelled step leaves a cache that is rewound or invalidated | `Session` |
| Tool-call constraint (`core/tool_grammar.cpp`, `core/ctx.cpp`) | the automaton's state, the tail of the text, the tables of pieces | configure, reset, accept, allows, mask | every token of a call is drawn under the mask; what may end is a call of a declared tool | `ToolGrammar`, `CallText`, `TextBytes`, `Grammars`, `Constraints`, `FinishedTexts` |
| JSON schema constraint (`core/json_grammar.cpp`, `core/ctx.cpp`) | the compiled schema, up to 48 stacks of frames, the masks kept by state key | configure, reset, accept, allows, mask | what may end is a document of the schema; no text is led into a corner; a kept mask is the mask of its state | `JsonGrammar`, `JsonText`, `TextBytes`, `Grammars`, `Constraints`, `FinishedTexts` |
| Thread pool (`core/thread_pool.cpp`) | the published task, `next_`, `pending_`, `generation_`, one mutex and condition variable | `parallel_for`, `parallel_for_units`, `worker_loop` | a call returns once its whole loop has been run, and always returns | `ThreadPool`, `ParallelFor` |
| Expert store (`expert/expert_store.cpp`) | an LRU map with pins and hit counts, one waiting prediction, usage counts and their file | fetch, prefetch worker, eviction, closing | hot experts stay, the cache stays bounded, nothing freed is read, every call returns | `ExpertStore`, `Lru` |
| Memory tier (`ssd_tier/hybrid_tier.cpp`) | three LRU caches over the model file, one byte count | the three reads, eviction | room can always be made, the byte count is the bytes held | `HybridTier`, `Lru` |
| Context memory (`memory/context_memory.cpp`) | per item: blocks, their index, vectors, outline, `meta.bin`; linked files | put, put_file, append, replace_lines, read, search, drop, sweep | the records agree, no crash mixes two texts, a copy with its file's stamp is the file and what was appended since, no edit overwrites another program's | `ContextMemory` |
| Server slots (`desireeiaserver/slots.py`, `generation.py`) | per replica: state, busy flag, locks, loaded model, settings on it; groups, cursor | resolve, load, run, score, decide, unload, idle sweep, reconfigure, rescan | a replica serves one generation under its own settings; a model in use is not closed; every call ends | `Slots`, `Lease` |
| Planner and probe (`core/plan.cpp`, `core/probe.cpp`) | none | budgets from the hardware | budgets add up and never underflow | none |
| Kernels, quantisation, CUDA, other forward engines, readers, tokenizers, vision | numeric buffers | arithmetic, parsing | numerical agreement | none |
| C# and Python bindings (`src/DesireeIA`, `python/desireeia`) | handles; the stop-sequence scanner | marshalling, streaming | no text after a stop sequence | none |
| Server files and events (`models_store.py`, `models_events.py`) | uploads, subscribers' queues | chunked upload, publish | no partial file is served | none |

How they interact. The server's slots call the Python binding, which calls the
C ABI. The ABI forwards each call to one context; the call takes the context's
mutex for its whole body, so calls on one context never overlap. The exceptions
are `engine_cancel`, which writes its flag without the mutex, and the readers of
the last error. A call runs the forward engine, which owns the KV cache, fetches
experts from the expert store and other weights through the memory tier, and
hands every matrix product to the one thread pool of the process; contexts do
not share a mutex, so two of them may call the pool at once. On a CUDA build the
session leaves a decode step in flight on the device between calls. The context
memory is a library of its own, with one mutex per session. The session image,
the prefix files, the usage files and the items of the context memory are what
survives a restart.

What is hard. Between two prompts the session must decide, from token ids alone,
which rows of the cache are still true, after any mixture of prefills, decodes,
speculative rounds that wrote too many rows, a step in flight, failures, cancels
and restores. Between two tokens of one answer the caller may change settings,
score another text, restore a session or trim the cache. In the pool a worker on
its way to sleep races the publication of a task, and the task itself lives on
the caller's stack. In the server a request holds a model it loaded before it
marked the replica busy. The prefetch worker inserts into the cache the engine
reads, and may be reading when the model is closed. The context memory changes
five files per append and survives a crash between any two. `PROJECT.json` lists
these hazards at their lines.

## The modules

`Session.tla` models the conversation session together with the KV cache under
it. One action per call, since a call holds the mutex throughout; `LoadPrefix`
is the exception, one turn of the loop of `engine_prefix_cache_load` over the
directory, with every other call locked out (`loading`) and only `Cancel` in
between. A row of `cache` records what its K/V were computed from: token,
weights, kind of step (batched prefill, one-token tail of a prefill, decode,
verification of a guess), and whether an image vector replaced the embedding.
The session's own records (`kvTokens`, `kvValid`, `kvPrefilled`, `history`,
`last`, `queue`) are separate variables, so that the two can disagree. `text` and
`outcome` are history variables: what the caller holds, and how the last call
that ran the model ended.

| Action | Code |
|---|---|
| `Predict` (`Reusable`, `SaveLive`, `Found`, `Prefill`, `Begin`) | `engine_predict` with `reusable_prefix` and the prefix store |
| `PredictVision`, `Score` | `engine_predict_vision`, `engine_score_tokens` |
| `Deliver`, `SpecRound`, `DecodeOne`, `Pipelined` | the four ways through `engine_next_token` |
| `SetSessionReuse`, `SetSpeculation`, `SetPrefixCache`, `Configure`, `SetLora` | the settings; `Configure` stands for those that only drain the pipeline |
| `SessionReset`, `TrimCache`, `Cancel` | `engine_session_reset`, `engine_trim`, `engine_cancel` |
| `SaveSession`, `LoadSession`, `SavePrefixes`, `LoadPrefixes`, `LoadPrefix` | the session image and the prefix files |
| `Restart` | the process ends and another opens the model |

A draw is any token `CanDraw` admits after the tokens in the cache, so the
sampler, its penalties, the grammars and the reasoning budget are choices within
it. The gate of the speculation is left out: a round may or may not be tried
whenever a guess exists. Greedy sampling, which speculation requires, is one of
the choices. A token counts one unit of the prefix budget. `NGram`, `MinDraft`
and `MinTokens` are 1 in the runs (4, 2 and 64 in the code), so that guesses and
restores happen in texts of a few tokens. A vision prompt brings a vector for
each placeholder and `Surplus` more; the code checks neither.

`Continuation.tla` is the abstract promise: after a prompt the caller receives
tokens one at a time, each drawn after exactly the text the caller holds.
`Session` refines it with `text` and `hasSession` (property `ContinuesText`).

`ThreadPool.tla` models the pool with one action per access to a shared field
where another thread may come between: filling in the task under the mutex,
`generation_`, the notification, `next_.fetch_add`, the call of the task, the
decrement of `pending_`, and each look a worker takes at the generation.
`generation_` is only compared with `local_gen`, so `fresh[w]` says whether they
differ. The task is known by the caller whose stack it is on. A condition
variable may wake spuriously. The profile counters and `stop_`, which nothing
sets, are left out. `ParallelFor.tla` is its abstract promise: a call comes back
when every unit of its loop has been run. `ThreadPool` refines it (property
`Synchronous`).

`Slots.tla` models the server's replicas. A request runs in a thread of its own,
whether a stream's pump, a worker of the pool or the event loop, and takes one
step per lock it takes or gives back: `Resolve`, `BeginLoad`, `EndLoad`, `Claim`
(the gate), `Enter` (the inference lock), `Tune`, `Finish`, `Leave`, `Release`.
Administrators unload, sweep, reconfigure, remove and rescan, one replica at a
time. A lock is the thread that holds it. `held` says what the request's own
reference to the model is worth, so that a model can be closed under it. The
settings on a model (`tuning`) are numbered in the order `_apply_sampling` resets
them, since one the engine refuses leaves those after it as they were.
`Lease.tla` is the abstract promise: a replica is let to one request and comes
back before it is let again; `Slots` refines it with the set of requests between
the gate and its release (property `LetToOne`).

`Lru.tla` holds the list-and-map cache that the store and the tier share, as a
function from keys to entries with their place in the list. `HybridTier.tla` is
the tier: one mutex, three caches, a read that holds the mutex from its first
look to its answer, one action per turn of a loop that makes room.
`ExpertStore.tla` composes it with the store: the engine's thread and the
prefetch worker, `mtx_` held for one look or one insertion (one action),
`reader_mtx_` across a read (a variable), the condition variable with a flag set
under `qmtx_` and a notification after it, and the steps of `engine_destroy`.

`ContextMemory.tla` models the items of one session. A call holds the session's
mutex and is one action; what a crash leaves is an action of its own for each
call, with the states between the file system calls (`Removing`, `Appending`,
and those of `CrashInReplace`). Chunks, vectors and outline are kept as the files
keep them, so that they can disagree. Other programs write and remove the linked
files between calls. An append to the copy of a linked file changes the copy and
neither file nor stamp, as in the code; `added` remembers those lines until the copy
is made anew from the file or written to it. `told` says what an item may hold given the calls so far:
after a crash, the text before it, the text after it, or nothing.

`ToolGrammar.tla` is the byte automaton of a tool call, one operator per case of
`step`; a byte that is refused leaves no state. `JsonGrammar.tla` is that of a
JSON schema: `Ways` and `Node` compile one level of it, `Leaves` goes down
references and unions to the schemas a value may begin as, `Begin` is
`start_value`, and `Step` is the code's loop over the frames of a stack. A node
keeps the keywords, and a frame the text it has read, where the code keeps a range
of sorted keys or literals. `TextBytes.tla` sorts the bytes for both.
`Grammars.tla` has both automata and what is known of the schemas of an instance:
`SchemaAssumption` says that what lies inside of a schema is one of `Subschemas`,
and that none nests more references and unions in a row than `MaxNesting`.
`Constraints.tla` puts the two into the decode: `SetToolConstraint`, `SetJsonSchema`, `Predict`, `NextHost` and
`NextDeadEnd` (the mask), `NextPipelined`, `NextSpeculated`, `NextQueued`; a
schema takes the place of the tool constraint while it is set. `KeptOfCall` and
`KeptOfDoc` are the mask with its shortcuts: first bytes, plain strings, and for a
document whatever mask was kept for another state of the same key.

The automata are compared with references that know nothing of them. `CallText.tla`
is a recursive reader of a finished call (`IsCall`) and the bytes that head for an
end (`CanFinish`). `JsonText.tla` reads a whole text into a value, says what makes
it one of a schema (`Fits`, from what the keywords mean), and heads for the end of
a document (`CanFinishDoc`). `FinishedTexts.tla` states the properties that compare
the automata with them.

The `MC*.tla` modules give the small instances, and the `*Proofs.tla` modules
hold the theorems. `Induction.tla` has the least-counterexample form of induction
they use and the facts about sums over a finite set; `ContextTextProofs.tla` has
what the text operators of `ContextMemory` return.

## What the runs check

| Run | Question | Result |
|---|---|---|
| `SessionDecode` | Over every order of prompts, decode paths, settings, scoring, image and restart: is each token drawn in its context (`InContext`), is none lost or repeated (`NoGap`), do only prefilled rows count as prefilled in modes 0 and 1 (`PrefilledOnly`), and is the answer one continuation (`ContinuesText`)? | holds |
| `SessionStore` | Does the store keep its budget (`StoreWithinBudget`) and its last-use order with no entry twice (`OneOfEach`), and is every copy of a cache, in memory or on disk, made of the rows of its tokens (`CopiesFaithful`), with failing imports and writes, and restarts? | holds |
| `SessionFaults` | With failing steps, cancels, surplus image vectors, adapters and trims, is a valid cache always the K/V of `kv_tokens` (`CacheFaithful`) under the present weights (`OneWeights`)? | holds |
| `PoolOneCaller` | With one caller: whole loop (`ReturnedDone`), each unit once (`OnceEach`), no thread in the task after its caller left (`TaskAlive`), `pending_` never below zero (`TypeOK`), every call returns (`EveryCallReturns`), and the loop is synchronous (`Synchronous`)? | holds |
| `PoolTwoCallers` | May two contexts share the pool at once? | no |
| `Slots` | Is a replica let to one generation at a time (`LetToOne`), under exactly the settings it asked for (`OwnSettings`), never unloaded while marked busy (`UnloadsOnlyIdle`), with a state that tells whether it has a model (`StateTellsTheModel`), and does every request and every sweep end (`EveryCallEnds`)? | holds |
| `SlotsUnloaded` | Is a model never closed under a request that is about to run on it? | no |
| `Experts` | Do cache and tier keep to their plan (`CacheWithinPlan`, `TierWithinPlan`), do hot experts stay (`HotStays`), is nothing read that was freed (`ReadersAlive`), and does every call return unless a loop of the tier spins (`EveryCallReturns`)? | holds |
| `ExpertsSpin` | Do the tier's loops end when everything is pinned? | no |
| `Memory` | Do blocks, index, outline and counts of an item agree (`Whole`), and its vectors with its blocks (`VectorsAligned`); is its text what the calls made of it (`AllOrNothing`); is a copy with its file's stamp the file with nothing but the lines appended since behind it (`SyncedCopy`); and does an edit overwrite nothing but the file it was made on, with those lines (`EditsWhatIsThere`)? | holds |
| `Constraints` | Is the mask what the automata allow (`MaskIsExact`), is the call's automaton where the whole text puts it (`TracksTheText`), is what may end a call of a declared tool (`FinishedIsACall`) or a document of the schema (`FinishedIsADocument`), can every call and document be finished (`EveryTextCanFinish`), and is every token of one drawn under the mask (`DrawnUnderTheMask`)? | holds |
| `ToolSpeculation` | Does the constraint hold once the open tag was said, with speculation on? | no |

The runs that answer "no" compare the code with what a header or a comment of it
says; `PROJECT.json` quotes each line under `findings`.

### Further configurations that TLC refutes

These are kept beside the runs for a reader who wants the trace; each checks one
property, by hand, with `tlc -config <file> <module>` (the two of JSON also the types
of `Constraints`).

| Configuration | What it shows | What the repository says |
|---|---|---|
| `SessionLoraStore.cfg` (`OneWeights`) | the prefix store survives a change of adapter, so K/V of other weights are restored (`ctx.cpp:1796-1822`) | `ctx.cpp:177-178`, "bit for bit" what a full prefill would have computed; `CHANGELOG.md:719` |
| `SessionModeChange.cfg` (`PrefilledOnly`) | after a reuse in mode 2, decoded positions count as prefilled and exact mode reuses them (`ctx.cpp:1417-1419`) | `abi.h:167-169`, `abi.h:686` |
| `SessionSpeculationOff.cfg` (`NoGap`) | turning speculation off in the middle of an answer discards tokens already decided (`ctx.cpp:1328`) | `abi.h:578`, "the one the model would have written" |
| `SessionTrimmed.cfg` (`InContext`) | after a trim the generation goes on over an empty cache (`ctx.cpp:2127-2136`) | `abi.h:559-560`, "drops the session" |
| `SessionIdleCancel.cfg` (`CancelHitsOnlyRunningCall`) | a cancel of nothing stops the next speculative round (`ctx.cpp:1199`) | `abi.h:536`, "no effect on the next call" |
| `SlotsOrphan.cfg` (`OpenModelsReachable`) | a rescan looks files up with their extension (`slots.py:505`) while groups are registered without it, and replaces a group without unloading it; a reconfigure drops groups whose busy replica its unload skipped (`slots.py:590-601`): such a model stays open and nothing can reach it | `slots.py:174-176`, "catches it on the next pass" |
| `ExpertsUsage.cfg` (`UsageGuarded`) | `save_usage` walks `usage_` without `mtx_` while the worker may insert (`expert_store.cpp:240`, called at `ctx.cpp:892` before the worker is stopped) | `engine.h:239`, what `mtx_` protects |
| `JsonRepeated.cfg` (`EveryMemberFits`) | where free keys are allowed, a listed key that was used is read again as a free one, with a value of any type (`json_grammar.cpp:453`, `474`); of a repeated key parsers take the last | `abi.h:605-608`, "always has the required keys and types" |
| `JsonDepth.cfg` (`EveryDepthCanFinish`) | with the stack as deep as it may grow a key may begin and its value may not (`json_grammar.cpp:320`): no token fits and the constraint gives up | `abi.h:605-608`, "the result always parses" |
| `MemoryBlindEdit.cfg` (`EditsWhatWasSeen`) | a search refreshes the copy of a changed file without showing it, and the next edit goes by line numbers of the old one (`context_memory.cpp:1000`, `803`) | `README.md:104`, "refused" |
| `MemoryLinkedAppend.cfg` (`CopyMirrorsFile`) | an append to the copy of a file writes the copy only and keeps the stamp (`context_memory.cpp:925-947`): the copy has lines the file has not, and no refresh notices (`775`) | `context_memory.cpp:880-881`, "the memory copy only mirrors it" |
| `MemoryAppendedEdit.cfg` (`EditsTheFilesLines`) | the edit after such an append is not refused: the copy with its appended lines is written over the file (`context_memory.cpp:775`, `883`) | `README.md:104`, "refused" |

The last two show where a copy and its file part: `put_file`, `append`,
`replace_lines`. The append keeps path, time and size in `meta.bin`, so
`refresh_locked` finds nothing changed (`context_memory.cpp:775`), the edit is not
refused, and the whole copy is written over the file, with the appended lines and
the edit that may be of them. If the file changes first, or is put again, the
copy is made anew from it and the appended lines are gone. `SyncedCopy` and
`EditsWhatIsThere` say how far the two can part, appends to linked items
included: by the lines appended since the copy was the file, and by nothing that
another program wrote.

### Divergences without a configuration

- A cancelled `engine_predict` leaves `has_session` set when a generation was
  open (`abi.h:534` says the session is dropped).
- A prefill tail of one token goes through the single-token path yet counts as
  prefilled (kind `lone`).
- The embedding override is never cleared, so surplus vectors of an image prompt
  can replace placeholders of a later text prompt; the runs exclude text prompts
  with placeholders, and the theorems about `Session` state that as hypothesis.
- `engine_prefix_cache_load` keeps an entry that is a prefix of one it loads
  later, which `prefix_store_save_live` would drop.
- In a tool call `\u` is taken before the test that keeps escapes out of names
  (`tool_grammar.cpp:133`, `135`), and no escape becomes part of the key or name
  that is compared: `"name\u0067"` passes for the key `name`. `FinishedIsACall`
  lets calls with an escape off. Numbers are a run of number bytes (`-`, `1-`).
  `give_up` says it stays off until the next generation; it arms again at the
  next open tag.
- `_apply_sampling` tests the parameters for truth (`slots.py:253`), so a request
  for temperature 0 and nothing else is ignored.
- The `HybridTier` header calls all public methods thread-safe; its prefetch
  touches the maps without the mutex and its demotion uses an erased iterator.
  The engine calls neither. Both `save_usage` write the same file.

### Bounds

Session: a vocabulary of two words and the placeholder; `MCCanDraw` admits `b`
only after an even number of `b`s, so a token drawn after the wrong text is one
the model could not have drawn. `SessionDecode`: prompts of one to three tokens
that are prefixes of each other and fork, a cache of 6 rows: a prompt of 1, a
guess of 3 with its correction and a following token fit, as does a restored
prompt with a step in flight. `SessionStore`: prompts of 2 and 3, budget 0 or 4,
so that two short entries fill the store, a third evicts, and a lowered budget
empties it. `SessionFaults`: cache of 4 rows, guesses of up to 2, one surplus
vector.

`PoolOneCaller`: two workers, loops of 0, 1, 3 and 5 units, lines of 2 units and
a serial threshold of 4, so that a loop is empty, serial, of one unit per slice,
or of two slices and a cut third. Two workers are the fewest that can be at
different tasks; the theorems cover any number.

`Slots`: a generation, beside it a request of any kind, one administrator; a
group of two replicas and, after a reconfiguration, one whose model has no
tokenizer; two settings, the second of which may be refused. Each request comes
once; the theorems have any number of each.

`Experts`: two experts of two parts, one of them faulty, two tensors, one of the
whole budget; every cache holds one entry and pins at the second use, so that
four calls fill, evict, pin and outgrow each, with a prediction of both experts
under way. A closing may start at any time.

`Memory`: one item, blocks of two lines, an outline of two, texts of none, one
and three lines, embedders of two widths, four calls, crashes or writes of
others. Items do not share state other than the embedder. Three lines reopen a
partial block, cross a block boundary and fill the outline; four events are the
fewest for put, outside write, edit with a crash, and the look after it.

`Constraints`: a vocabulary of 27 pieces that cut tag, keys, names, numbers and
escape in different places; every mask is compared over all of them, and what is
drawn comes from those the model thinks of (`Likely` for each schema and for
none, `Chatter` inside a string or a free key). Two tools of which one name is a
prefix of the other, calls of up to 11 tokens (a shortest call takes 8), 3 tokens
outside of one, drafts of one. Four schemas: an object with a bounded string, a
key that begins like another and one that is only required; a union of a list of
two integers and a list of numbers or null; literals of which one begins another,
beside a string; a recursive object with free keys. Documents of 7, 9 or 11
tokens, which finish one of each kind and repeat its keys. `MaxDepth`,
`MaxConfigs` and `MaxBlanks` are 3, 3 and 1 for 64, 48 and 8, so that the limits
bite. `MaxNesting` is 2: a union whose alternative refers to a schema, or is a list
of types, is the deepest chain in the four; the code follows up to 40. A schema is set before a generation, or in it right after the tools were
(`MaxSwitch` tokens later).

Deadlock is checked in the Session, Pool and Constraints runs. Slots, Experts and
Memory end: every request is answered, the model is closed, the calls are used up.

### Fairness

`Session`, `ContextMemory` and `Constraints` state only safety: every call returns,
nothing is awaited. In `ThreadPool` every thread is weakly fair, which is what a
preemptive scheduler gives a runnable thread; spurious wake-ups are not fair, so
`EveryCallReturns` does not lean on them. The mutex is free infinitely often and
no thread holds it for ever, so weak fairness of a worker that wants it suffices
with a single caller. In `ExpertStore` each of the two threads is weakly fair; of
the mutexes they share each holds one across a single read, so neither waits for
ever. In `Slots` a thread waits for locks that others take again and again, so
its steps are strongly fair: what a lock that is given back infinitely often
gives a waiter; no request has to come and no administrator has to start.

## What is proved

`SessionProofs.tla` proves, for any vocabulary, prompts, texts, settings and
bounds:

| Theorem | Property | Hypotheses beside `PlaceholderReserved` |
|---|---|---|
| `SessionTyped` | `TypeOK` | |
| `CacheNeverLies` | `CacheFaithful` | |
| `CopiesNeverLie` | `CopiesFaithful` | |
| `StoreStaysWithinBudget` | `StoreWithinBudget` | |
| `StoreKeepsOneOfEach` | `OneOfEach` | |
| `CountsOnlyPrefilled` | `PrefilledOnly` | mode 2 is never set |
| `WeightsNeverMix` | `OneWeights` | no adapter, or no copies of a cache (`Copyless`) |
| `NothingIsLost` | `NoGap` | `KeepsEveryToken`: speculation is never turned off; no CUDA build with failing steps |
| `DrawnInContext` | `InContext` | `Undisturbed`: no failing step, cancel or trim |
| `OneContinuation` | `ContinuesText` (refinement of `Continuation`) | both of these, and text prompts only |

`PlaceholderReserved` says that text prompts do not contain the image placeholder
and the model does not draw it. Without it `CacheFaithful` fails, by the surplus
vectors described above; the theorems of the store have it only because they rest
on the same invariant. The other hypotheses are what the code leaves to its
callers, and the configurations above show that it does: `SessionModeChange`
drops the one about mode 2, `SessionLoraStore` that about adapters,
`SessionSpeculationOff` half of `KeepsEveryToken`, `SessionTrimmed` a part of
`Undisturbed`. The other half of `KeepsEveryToken`: when the launch of the next
step fails, a pipelined step has put the token it consumed into the history and
gives up the one it drew. The passing runs satisfy the hypotheses of the properties they check.

`CacheFaithful` alone is not inductive. A restore copies rows from the store or a
file into the cache, and a save copies them back, so cache and copies must be
faithful together (`Copies`). A step in flight has written a row `kv_tokens` does
not list yet; the next call either rewinds it or takes it over, so that row must
be the row of `last` (`InFlight`), and `last` must be a token the model drew
(`Spoken`). `ReuseSound`, `FoundSound` and `SaveSound` are the three ways rows
move; `RoundFacts` and `KeptFaithful` show that a speculative round keeps the rows
of the tokens it kept and no others; and each action has a lemma that it keeps the
invariant.

The rest is built on it. What is told: `Continuing` adds that what is queued may
be said after what was told (`Sayable`); `RoundText` and `RoundInContext` follow
the accepted guesses of a round into history and queue, and `NextSays` shows that
each step is one of `Continuation` or a stutter. What the rows are: `CacheOrigin`
says that each row of a cache that is valid after a step was computed by this
call, was in the valid cache before, or comes from a copy, and `HeldFrom` that
each copy is an earlier copy or a front of the live cache within `kv_prefilled`;
from these two follow `Prefilled` (nothing but prefilled rows within
`kv_prefilled` and in copies, and `kv_prefilled` within `kv_tokens`) and `Apart`
(all rows of the present weights). The store: `Tidy` is strict order and size
together. A use re-ranks the entries and keeps their order (`RankLess`) and their
lengths (`UseLastSize`); a trim keeps entries that fit together with everything
used after them, so what it leaves fits with the oldest of them (`TrimmedSize`).

`ThreadPoolProofs.tla` proves, for any finite set of workers, any loop sizes and
any line size and threshold, under `OneCallerOnly` (the callers are at most one
thread, what a process with one context gives; `PoolTwoCallers` shows why the
hypothesis is needed):

- `TypeSafe`, `ReturnsComplete`, `RunsOnce`, `NeverStrays`: the four invariants
  that `PoolOneCaller` checks;
- `ImplementsParallelFor`: the pool implements `ParallelFor`.

The invariant `IInv` behind them says: a worker reads each generation once per
task (`LoadsOnce`); `pending_` is the number of workers still late for the
announced task (`Counted`); while anyone works, the task is the caller's
(`Current`); the slices in hand are below `next_` and apart (`HandsApart`); and
what is below `next_` has been run or is in a hand, while nothing above it has
(`Covered`). `ReturnedDone` alone is not inductive: the caller leaves its barrier
because `pending_` is zero, and only `Counted` turns that into "no worker has a
slice in hand", and only `Covered` turns that into "the loop is done". Each
action has a lemma that it keeps `IInv`; `RowsPositive` shows that a slice is
never empty, whatever the size of the loop.

`SlotsProofs.tla` proves, for any requests, mixes of endpoints, replicas,
administrators and bound on the groups:

- `SlotsTyped`, `StateIsTrue` (`StateTellsTheModel`), `GenerationsTunedAlone`
  (`OwnSettings`), `UnloadsSpareGenerations` (`UnloadsOnlyIdle`);
- `OneRequestPerReplica` (`LetToOne`): the slots implement `Lease`.

None is inductive alone. `LetToOne` needs that the gate of a replica that is let
is shut and that only its holder opens it (`Gate`); `OwnSettings` needs that a
request past `Enter` holds the inference lock (`Inference`), and, since a load
starts with fresh settings and closes no reference, that an open reference is to
the model the replica has (`Reference`); `StateTellsTheModel` needs that a load
in progress belongs to one request (`Loading`). A reconfiguration numbers its new
group from what is left (`Reconfiguring`), which is what keeps replicas apart.

`ExpertStoreProofs.tla` proves, for any experts, tensors, capacities, thresholds,
predictions and saved usage: `ExpertsTyped`, `CacheStaysWithinPlan`
(`CacheWithinPlan`), `NobodyReadsFreed` (`ReadersAlive`) and `HotExpertsStay`
(`HotStays`). Its invariant adds to the properties that a thread holds each mutex
in the step that needs it and in no other (`Locks`), that the key and the list a
thread works on are of the model (`Wants`, `Lists`), that the cache is finite,
and that past the join the worker is gone (`Joined`). `CacheWithinPlan` is an
invariant only in this form: with one entry that is not pinned above capacity,
the next insertion evicts that one; the naive bound, capacity plus pins, is not
kept by an insertion that finds no victim. `TierStaysWithinPlan` (`TierWithinPlan`)
is proved of the tier below: `TierPlan` ties the byte count to the sum of the bytes
held, and says that what a thread makes room for is not held yet, so that an
eviction subtracts what it dropped and an insertion adds what it brought.

`ContextMemoryProofs.tla` proves, for any names, texts, headings, widths of
vectors and bounds, with crashes between any two writes and other programs writing
the linked files: `TypeCorrect` (`TypeOK`), `ItemsAreWhole` (`Whole`),
`VectorsAreAligned` (`VectorsAligned`), `CallsAreAllOrNothing` (`AllOrNothing`),
`CopiesAreInStep` (`SyncedCopy`) and `EditsOverwriteWhatIsThere`
(`EditsWhatIsThere`). Its invariant has two parts. `Fits` holds of every item, torn
by a crash or not: the table of blocks has its shape, and the stamp of a copy is not
later than its file, so that a write by another program always shows. `Kept` holds
of items no crash tore: blocks, outline, vectors and digest are those of one text,
that text is among what the calls may have left (`told`), and a copy with its
file's stamp has its text and behind it the lines appended since (`added`); a copy
whose digest is that of a text has none of those, so a put that finds the digest
unchanged leaves nothing of them. An append does not write the item anew: it takes
back the last block if it is not full, with its vector and its entries of the
outline, and goes on. That the result is what one write of the whole text would
have left is a fact about blocks, headings and first lines of concatenated texts,
proved in `ContextTextProofs.tla`. The digest is what a put compares to leave an
item alone, so it must be true of the text or absent.

Induction over data is made of least counterexamples: the set of the lengths or
sizes for which a statement fails has a least element if it has any (`LeastNat`,
from the well-foundedness of the naturals). `Induction.tla` gets from it that a sum
over a finite set may take its elements in any order, which the choice in the
library's fold does not show.

`ConstraintsProofs.tla` proves, for any vocabulary whose end tokens have no bytes,
any tags, any sets of tools and any schemas that `SchemaAssumption` lets through:

| Theorem | Property | What it says |
|---|---|---|
| `InvariantKept` | | `IInv` holds in every reachable state |
| `TypeCorrect` | `TypeOK` | stacks, configurations and blanks stay within the limits of the code |
| `MaskExact` | `MaskIsExact` | the shortcuts of the mask change nothing |
| `KeyDecidesMask` | | two states of one state key allow the same tokens |
| `TextTracked` | `TracksTheText` | the automaton is where the whole text puts it, however it is cut into tokens |
| `MaskedDraws` | `DrawnUnderTheMask` | no decode path ends a call or a document that some token could go on with |

`MaskIsExact` is about a state and the bytes of every piece, so it needs what the
automata do with a text. Of a call that is: in a live state (`Live`: a bracket is
open once the call began, a literal has letters left, the close tag is not at its
end) a byte has one outcome at most (`StepSingle`, one lemma for each mode), hence
`Feed` is a walk along the piece (`FeedReached`) and a text cut in two is read in
two (`FeedConcat`). A first byte that is refused then refuses the piece
(`HeadFeed`), and a piece without quote, backslash or control bytes leaves a plain
string where it is (`PlainFeed`). Of a document it is a bisimulation: `Twins` are
two configurations whose frames differ in counts only, and only where no bound of
the schema reads the count (`Alike`). Every byte is refused by both or leads both
to twins (`StepTwins`, along `StringTwins`, `ObjectTwins`, `ArrayTwins`,
`BeginTwins`), also when the configurations past the limit are dropped
(`SteppedTwins`), and both can end or neither (`CanEndTwins`). A state is a twin of
what its `state_key` stands for (`KeyTwin`), so the mask kept for the key is its
mask. The `TwinLists` of a list with itself are the typing of the stacks: what
grows is bounded there, not in `TypeOK`, which is not inductive.

`TracksTheText` is not inductive either: outside of a call nothing ties the kept
end of the text to the history. `Follow` does: both see the open tag at the same
place, whatever was cut off before (`Heeds`, `TrimmedIs`, `FollowTag`), and inside
of a call the automaton is the one state the text since the tag leads to.
`FlattenSeq` and `Feed` are turned into walks once (`Followed`, `ReachedConcat`),
which is where the induction over the length of a text is done.

Model-checked only: what hangs on fairness (`EveryCallReturns` of pool and store,
`EveryCallEnds`), and the three properties of `FinishedTexts`.
`FinishedIsACall` and `FinishedIsADocument` compare the automata with reference
readers that are recursive operators, and so are out of the prover's reach;
`EveryTextCanFinish` says that some continuation exists within a bound, which TLC
searches for, and `JsonDepth` shows that it does not hold at every depth.

## What is not modelled, and the plan

Floating-point code (kernels, sampler, quantisation, CUDA, other forward
engines), file formats, tokenizers and templates are out of reach of a model
checker or sequential and covered by fixtures. They are most of the
implementation's lines, so the share of lines the model covers stays small.

Left out of what is modelled:

- Session: the sampler's arithmetic, the reasoning budget, the speculation gate.
- Slots: the text, names of models (there is one), times; cancellation ends a
  bounded generation earlier.
- Expert store: `fetch_union` and `prefetch_layer`, which the engine never calls.
  Of the tier: writes, prefetch, promote, demote, pins by hand, statistics; the
  engine calls none of them. The mirror has no caller either.
- Context memory: the map of sessions (a drop or sweep erases a session that
  another thread may still hold), the sweeper's clock, the ranking of a search,
  other programs writing in the middle of a call, a change that keeps time and
  size, full disks. Items in `torn` (a crash left them in pieces, which the code
  notices by unreadable blocks) are exempt from the properties until they are put
  again.
- Constraints: the vision prompt, which resets the automata likewise; the refusals
  of a schema (`configure` leaves none set, as an empty text does); the trie, which
  walks the same steps as `allows`; collisions of the state key's hash. The
  tokens of the queue and of the step in flight are chosen when given out. An
  empty tool set, which admits any name, is in the module and not the instance.
  `oneOf` means one or more alternatives, as in the code (`json_grammar.cpp:153`); a
  schema that is nothing but a reference to itself is left out.

Planned, most important first: the map of sessions of the context memory with its
locks; the stop-sequence scanner of the bindings as a bounded check.
