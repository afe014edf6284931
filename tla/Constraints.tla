---------------------------- MODULE Constraints -----------------------------
(***************************************************************************)
(* How a generation lives with the tool-call constraint and with the JSON  *)
(* schema, which takes its place while it is set: which tokens are drawn   *)
(* under the mask, and which an automaton gets to see (ctx.cpp:            *)
(* engine_predict, engine_next_token, tool_mask, tool_accept).             *)
(*                                                                         *)
(* One action per call of the engine, which holds EngineContext::mtx from  *)
(* one end to the other. The decode itself is Session; here a token is     *)
(* what its piece says. said, tagged, text and missed are history: what    *)
(* the generation said since the constraint began to watch it.             *)
(***************************************************************************)
EXTENDS Grammars

CONSTANTS
  Tokens,
  Piece,        \* tool_pieces: the bytes of a token
  Eog,          \* eog_ids
  ToolSets,     \* the sets of tool names a request declares
  Schemas,      \* the JSON schemas a request asks for
  Off,          \* no constraint configured
  Likely,       \* bound: the tokens the model thinks of under a schema, or under none
  Chatter,      \* bound: those of them it thinks of in a string or a free key
  Cuda,         \* the pipelined decode is built in
  Speculation,  \* spec_max_draft > 0, greedy
  MaxDraft,     \* longest draft of a round
  MaxTokens,    \* bound: tokens of a call
  MaxDoc,       \* bound: tokens of a document of each schema
  MaxSwitch,    \* bound: tokens given out before a schema is set
  MaxPlain      \* bound: tokens in a row outside of a call

ASSUME ConstraintsAssumption ==
  /\ Piece \in [Tokens -> Seq(Bytes)]
  /\ Eog \subseteq Tokens /\ \A t \in Eog : Piece[t] = <<>>
  /\ \A names \in ToolSets : names \subseteq Seq(Bytes)
  /\ Schemas \subseteq Subschemas
  /\ Off \notin ToolSets /\ Off \notin Schemas
  /\ Likely \in [Schemas \cup {Off} -> SUBSET Tokens]
  /\ Chatter \subseteq Tokens
  /\ Cuda \in BOOLEAN /\ Speculation \in BOOLEAN
  /\ MaxDraft \in Nat /\ MaxTokens \in Nat /\ MaxPlain \in Nat
  /\ MaxDoc \in [Schemas -> Nat] /\ MaxSwitch \in Nat

VARIABLES
  st,        \* ToolCallConstraint::st_
  declared,  \* names_, or Off when open_tag_ is empty
  schema,    \* the JSON schema configured, or Off
  doc,       \* JsonSchemaConstraint::cfgs_, none when off or given up
  live,      \* has_session
  queue,     \* spec_out: how many decided tokens wait (nothing looks at them before)
  flight,    \* pipe: a pipelined step drew the next token already
  said,      \* history: tokens given out in the call, or outside of one
  tagged,    \* history: an open tag was said
  text,      \* history: what was said after it, or the end of what was said
  missed     \* history: a token the automaton was not shown was given out

vars == <<st, declared, schema, doc, live, queue, flight, said, tagged, text, missed>>

Names == IF declared = Off THEN {} ELSE declared

\* The fields of both automata stay in their ranges; with no tools declared, and
\* with no schema set, theirs is at rest.
TypeOK ==
  /\ st.phase \in {"scanning", "json", "close", "finished"}
  /\ st.stack \in Seq({"{", "["}) /\ st.hex \in 0..4 /\ st.closing \in 0..Len(CloseTag)
  /\ declared \in ToolSets \cup {Off}
  /\ live \in BOOLEAN /\ flight \in BOOLEAN /\ tagged \in BOOLEAN /\ missed \in BOOLEAN
  /\ queue \in 0..MaxDraft /\ text \in Seq(Bytes)
  /\ said \in Nat
  /\ declared = Off => st = Idle
  /\ schema \in Schemas \cup {Off} /\ (schema = Off => doc = <<>>)
  /\ Len(doc) <= MaxConfigs
  /\ \A i \in DOMAIN doc : Len(doc[i].stack) <= MaxDepth + 1 /\ doc[i].ws \in 0..MaxBlanks

Init ==
  /\ st = Idle
  /\ declared = Off
  /\ schema = Off
  /\ doc = <<>>
  /\ live = FALSE
  /\ queue = 0
  /\ flight = FALSE
  /\ said = 0
  /\ tagged = FALSE
  /\ text = <<>>
  /\ missed = FALSE

\* tool_plain: pieces the mask keeps without a walk inside a plain string.
Plain(t) ==
  /\ Piece[t] # <<>> /\ t \notin Eog
  /\ \A i \in DOMAIN Piece[t] : Piece[t][i] \notin Control \cup {Quote, Escape}

\* tool_mask of a tool call: the tokens that keep their logit. The first byte
\* is looked at before the whole piece.
KeptOfCall(s) ==
  {t \in Tokens :
     \/ InPlainString(s) /\ Plain(t)
     \/ t \in Eog /\ Allows(Names, s, <<>>, TRUE)
     \/ /\ t \notin Eog /\ Piece[t] # <<>>
        /\ Allows(Names, s, <<Head(Piece[t])>>, FALSE)
        /\ Allows(Names, s, Piece[t], FALSE)}

\* tool_mask of a document: the mask kept for any state of the same key is
\* taken for this one. In a plain string only the special pieces are walked.
KeptOfDoc(cfgs) ==
  LET key == J!KeyOf(cfgs) IN
  {t \in Tokens :
     \/ J!InPlainString(key) /\ Plain(t)
     \/ t \in Eog /\ J!Allows(key, <<>>, TRUE)
     \/ t \notin Eog /\ J!Allows(key, Piece[t], FALSE)}

Kept == IF doc # <<>> THEN KeptOfDoc(doc) ELSE KeptOfCall(st)

\* Bounds: the tokens the model thinks of.
InText(c) ==
  /\ c.stack # <<>>
  /\ J!Top(c).kind = "string" \/ J!Top(c).st \in {"other", "otherEscape", "otherHex"}
Thought(cfgs) == Likely[schema] \cap IF \E i \in DOMAIN cfgs : InText(cfgs[i]) THEN Chatter ELSE Tokens

\* The tokens that may be drawn: under a mask that keeps none, any.
Drawn(cfgs, kept) == Thought(cfgs) \cap IF kept = {} THEN Tokens ELSE kept

Constrained == Constraining(st) \/ doc # <<>>

\* tool_accept: while a schema is configured, given up or not, the tool-call
\* automaton is shown nothing.
Seen(s, token) == IF declared = Off \/ schema # Off THEN s ELSE Accept(Names, s, Piece[token])

SeenOfDoc(cfgs, token) == J!Feed(cfgs, Piece[token])

FreshDoc(s) == IF s = Off THEN <<>> ELSE J!Start(s)

SpecPossible ==
  Speculation /\ ~Constrained /\ ~(declared # Off /\ Armed(st))

\* MUTANT: only the tag sends the decode to the host, not the call.
NeedsHostForTag == doc # <<>> \/ (declared # Off /\ Armed(st))

\* tool_needs_host, apart from a speculative round that is possible.
NeedsHost == doc # <<>> \/ (declared # Off /\ (Constraining(st) \/ Armed(st)))

-----------------------------------------------------------------------------
\* What the history becomes when a piece is given out: a text that no call
\* starts with is given up, and what follows counts afresh.
Heard(started, heard, piece) ==
  LET all == heard \o piece
      at == Found(OpenTag, all)
      call == IF started THEN all ELSE SubSeq(all, Min(at) + Len(OpenTag), Len(all))
  IN IF declared = Off THEN [tag |-> FALSE, words |-> <<>>]
     ELSE IF ~started /\ at = {}
     THEN [tag |-> FALSE, words |-> LastBytes(all, Len(OpenTag) - 1)]
     ELSE IF Feed(Names, {InCall}, call) = {} THEN [tag |-> FALSE, words |-> <<>>]
     ELSE [tag |-> TRUE, words |-> call]

Counted == said' = IF Constrained' = Constrained THEN said + 1 ELSE 1

\* Of a document all is kept while it is watched.
HeardOfDoc(heard, piece) == [tag |-> FALSE, words |-> IF doc' = <<>> THEN <<>> ELSE heard \o piece]

GiveOut(started, heard, token) ==
  LET h == IF missed THEN [tag |-> started, words |-> <<>>]
           ELSE IF schema # Off THEN HeardOfDoc(heard, Piece[token])
           ELSE Heard(started, heard, Piece[token])
  IN /\ tagged' = h.tag
     /\ text' = h.words
     /\ Counted

\* A token no automaton is shown. Of a call it misses only the tag counts.
GiveOutUnseen(token) ==
  /\ missed' = TRUE
  /\ tagged' = (tagged \/ (declared # Off /\ schema = Off /\ Found(OpenTag, text \o Piece[token]) # {}))
  /\ text' = IF declared = Off \/ schema # Off \/ tagged' THEN <<>>
             ELSE LastBytes(text \o Piece[token], Len(OpenTag) - 1)
  /\ Counted

Fresh ==
  /\ tagged' = FALSE
  /\ text' = <<>>
  /\ missed' = FALSE
  /\ said' = 0

\* engine_set_tool_constraint.
SetToolConstraint ==
  \E names \in ToolSets \cup {Off} :
    /\ declared' = names
    /\ st' = Idle
    /\ flight' = FALSE
    /\ IF schema = Off THEN Fresh ELSE UNCHANGED <<said, tagged, text, missed>>
    /\ UNCHANGED <<schema, doc, live, queue>>

\* engine_set_json_schema. Off stands for an empty schema and for one that
\* configure refuses. The tool-call automaton stays where it was, and in the
\* middle of a generation neither has seen all of it.
SetJsonSchema ==
  \E s \in Schemas \cup {Off} :
    /\ live => said <= MaxSwitch
    /\ schema' = s
    /\ doc' = FreshDoc(s)
    /\ flight' = FALSE
    /\ said' = 0 /\ tagged' = FALSE /\ text' = <<>>
    /\ missed' = live
    /\ UNCHANGED <<st, declared, live, queue>>

\* engine_predict: the automata start over. The first token of a document is
\* drawn under its mask, that of an answer with tools is free.
Predict ==
  LET fresh == FreshDoc(schema) IN
  \E kept \in {IF fresh = <<>> THEN {} ELSE KeptOfDoc(fresh)} :
     \E token \in Drawn(fresh, kept) :
       /\ st' = Seen(Idle, token)
       /\ doc' = IF kept = {} THEN <<>> ELSE SeenOfDoc(fresh, token)
       /\ live' = TRUE
       /\ queue' = 0
       /\ flight' = FALSE
       /\ missed' = FALSE
       /\ LET h == IF schema # Off THEN HeardOfDoc(<<>>, Piece[token])
                   ELSE Heard(FALSE, <<>>, Piece[token])
          IN tagged' = h.tag /\ text' = h.words /\ said' = 1
       /\ UNCHANGED <<declared, schema>>

Turns ==
  /\ live
  /\ said < IF doc # <<>> THEN MaxDoc[schema] ELSE IF Constraining(st) THEN MaxTokens ELSE MaxPlain

\* engine_next_token: the tokens a speculative round decided.
NextQueued ==
  /\ Turns /\ queue > 0
  /\ queue' = queue - 1
  /\ UNCHANGED <<st, declared, schema, doc, live, flight>>
  /\ \E token \in Drawn(<<>>, {}) : GiveOutUnseen(token)

\* next_token_pipelined: the token is the one the step in flight drew, or a
\* first one; the next step is queued before it is known. A step that needs
\* the host afterwards takes the one in flight back.
NextPipelined ==
  /\ Turns /\ queue = 0
  /\ Cuda /\ ~NeedsHost
  /\ UNCHANGED <<declared, schema, doc, live, queue, missed>>
  /\ \E token \in Drawn(<<>>, {}), queued \in BOOLEAN :
       /\ st' = Seen(st, token)
       /\ flight' = (queued /\ ~NeedsHost')
       /\ GiveOut(tagged, text, token)

\* spec_round: the model's own tokens at every position of the draft.
NextSpeculated ==
  /\ Turns /\ queue = 0
  /\ SpecPossible
  /\ UNCHANGED <<st, declared, schema, doc, live>>
  /\ queue' \in 0..MaxDraft
  /\ \E token \in Drawn(<<>>, {}) : GiveOutUnseen(token)
  /\ flight' = FALSE

\* The step-by-step path, free or under the mask.
NextHost ==
  /\ Turns /\ queue = 0
  /\ flight' = FALSE
  /\ \E kept \in {IF Constrained THEN Kept ELSE {}} :
       /\ Constrained => kept # {}
       /\ \E token \in Drawn(doc, kept) :
            /\ st' = Seen(st, token)
            /\ doc' = SeenOfDoc(doc, token)
            /\ GiveOut(tagged, text, token)
  /\ UNCHANGED <<declared, schema, live, queue, missed>>

\* The step-by-step path at a dead end: the constraint that masks gives up,
\* the token is drawn free.
NextDeadEnd ==
  /\ Turns /\ queue = 0
  /\ Constrained /\ Kept = {}
  /\ \E token \in Drawn(<<>>, {}) :
       /\ st' = IF doc # <<>> THEN st ELSE Seen(Idle, token)
       /\ doc' = <<>>
       /\ GiveOut(FALSE, <<>>, token)
  /\ flight' = FALSE
  /\ UNCHANGED <<declared, schema, live, queue, missed>>

\* A prefill or a pipelined decode that fails: the step in flight is gone.
StepFails ==
  /\ flight
  /\ flight' = FALSE
  /\ UNCHANGED <<st, declared, schema, doc, live, queue, said, tagged, text, missed>>

NextToken == NextQueued \/ NextPipelined \/ NextSpeculated \/ NextHost \/ NextDeadEnd

Next == SetToolConstraint \/ SetJsonSchema \/ Predict \/ NextToken \/ StepFails

Spec == Init /\ [][Next]_vars
-----------------------------------------------------------------------------
\* The shortcuts of the mask change nothing: first bytes, plain strings and
\* the masks kept for a state key keep exactly the tokens the automaton allows.
MaskIsExact ==
  /\ doc # <<>> => KeptOfDoc(doc) = {t \in Tokens : J!Allows(doc, Piece[t], t \in Eog)}
  /\ Constraining(st) =>
       KeptOfCall(st) = {t \in Tokens : Allows(Names, st, Piece[t], t \in Eog)}

\* Unless a speculative round gave out tokens or a schema was set meanwhile,
\* the automaton is where the whole text of the call puts it, however the tag
\* and the call were cut into tokens; and it is scanning while no tag was
\* said, so a plain answer is free.
TracksTheText ==
  ~missed /\ schema = Off =>
    /\ tagged <=> Constraining(st)
    /\ tagged => Feed(Names, {InCall}, text) = {st}

\* Inside a call or a document every token is drawn under the mask: whichever
\* path draws it, the text stays a valid prefix unless no token fits.
DrawnUnderTheMask ==
  [][Constrained /\ ~Constrained' /\ NextToken => Kept = {}]_vars

\* Once the open tag was said the constraint holds (tool_grammar.h), through
\* speculative rounds too. The code does not keep it: spec_round and the queue
\* never show their tokens to the automaton.
OpenTagIsSeen == tagged => Constraining(st)
=============================================================================
