---------------------------- MODULE JsonGrammar -----------------------------
(***************************************************************************)
(* The constraint that makes a text a document of a JSON schema            *)
(* (JsonSchemaConstraint of json_grammar.cpp): a stack of frames follows   *)
(* the text byte by byte, and a union goes on as one stack for each        *)
(* alternative that still fits.                                            *)
(*                                                                         *)
(* A schema is the record of the keywords it has. The code compiles the    *)
(* whole schema into nodes before it starts; here a frame holds the schema *)
(* of its value and Leaves and Node compile that schema alone, so that one *)
(* that refers to itself needs no loop of nodes. A node of the code keeps  *)
(* its keys and literals sorted, and the range of those that still fit;    *)
(* here the text read so far says which they are.                          *)
(***************************************************************************)
EXTENDS TextBytes, Integers, Sequences, SequencesExt, FiniteSetsExt

CONSTANTS
  Definition,    \* what each $ref stands for
  Continuation,  \* the bytes of a character after its first
  MaxNesting,    \* how many references and unions in a row compile follows
  MaxDepth,      \* kMaxDepth
  MaxConfigs,    \* kMaxConfigs
  MaxBlanks      \* kMaxBlanks

NoLimit == -1
AnyJson == [any |-> TRUE]
Null == <<"n", "u", "l", "l">>
True == <<"t", "r", "u", "e">>
False == <<"f", "a", "l", "s", "e">>

Keyword(s, k, default) == IF k \in DOMAIN s THEN s[k] ELSE default

-----------------------------------------------------------------------------
\* The keywords that decide alone, in the order compile looks for them.
Rules == <<"ref", "enum", "const", "anyOf", "oneOf", "allOf", "types">>

Rule(s) ==
  LET present == {i \in DOMAIN Rules : Rules[i] \in DOMAIN s}
  IN IF present = {} THEN "type" ELSE Rules[Min(present)]

\* A schema without a type is told by its other keywords.
TypeOf(s) ==
  IF "type" \in DOMAIN s THEN s.type
  ELSE IF {"properties", "required"} \cap DOMAIN s # {} THEN "object"
  ELSE IF "items" \in DOMAIN s THEN "array"
  ELSE "any"

\* any_obj_, any_arr_, any_str_, any_num_, any_lits_: by the first byte, at
\* most one of them fits.
AnyValue ==
  <<[type |-> "object"], [type |-> "array"], [type |-> "string"], [type |-> "number"],
    [enum |-> {Null, True, False}]>>

\* MUTANT: a required key that is not listed is forgotten.
ObjectNodeListed(s) ==
  LET listed == Keyword(s, "properties", <<>>) IN
  [kind |-> "object", keys |-> DOMAIN listed, prop |-> listed,
   required |-> Keyword(s, "required", {}) \cap DOMAIN listed,
   extra |-> Keyword(s, "additional", DOMAIN listed = {} \/ "additionalSchema" \in DOMAIN s),
   others |-> Keyword(s, "additionalSchema", AnyJson)]

\* compile, "object": a required key is listed even when properties leaves it
\* out; the keys of an object that lists any are the only ones, unless
\* additionalProperties says otherwise.
ObjectNode(s) ==
  LET listed == Keyword(s, "properties", <<>>)
      required == Keyword(s, "required", {})
      keys == DOMAIN listed \cup required
  IN [kind |-> "object", keys |-> keys,
      prop |-> [k \in keys |-> IF k \in DOMAIN listed THEN listed[k] ELSE AnyJson],
      required |-> required,
      extra |-> Keyword(s, "additional", keys = {} \/ "additionalSchema" \in DOMAIN s),
      others |-> Keyword(s, "additionalSchema", AnyJson)]

\* A schema that compile refuses: it is never configured.
Refused == [kind |-> "refused"]

TypeNode(s, type) ==
  CASE type = "null" -> [kind |-> "literals", texts |-> {Null}]
    [] type = "boolean" -> [kind |-> "literals", texts |-> {False, True}]
    [] type \in {"number", "integer"} -> [kind |-> "number", whole |-> type = "integer"]
    [] type = "string" -> [kind |-> "string", min |-> Keyword(s, "minLength", 0),
                                              max |-> Keyword(s, "maxLength", NoLimit)]
    [] type = "array" -> [kind |-> "array", items |-> Keyword(s, "items", AnyJson),
                          min |-> Keyword(s, "minItems", 0), max |-> Keyword(s, "maxItems", NoLimit)]
    [] type = "object" -> ObjectNode(s)
    [] OTHER -> Refused

\* compile, of a schema that is not a way to others.
Node(s) ==
  CASE Rule(s) = "enum" -> [kind |-> "literals", texts |-> s.enum]
    [] Rule(s) = "const" -> [kind |-> "literals", texts |-> {s.const}]
    [] Rule(s) = "type" -> TypeNode(s, TypeOf(s))
    [] OTHER -> Refused

OfType(s, type) == [k \in (DOMAIN s \ {"types"}) \cup {"type"} |-> IF k = "type" THEN type ELSE s[k]]

\* Where compile goes on: the target of a reference, the alternatives of a union.
Ways(s) ==
  LET rule == Rule(s) IN
  CASE rule = "ref" -> <<Definition[s.ref]>>
    [] rule \in {"anyOf", "oneOf"} -> s[rule]
    [] rule = "allOf" -> <<s.allOf[1]>>
    [] rule = "types" -> [i \in DOMAIN s.types |-> OfType(s, s.types[i])]
    [] rule = "type" /\ TypeOf(s) = "any" -> AnyValue
    [] OTHER -> <<s>>

\* The schemas a value of s may begin as, in the order start_value tries them.
Leaves(s) ==
  LET level[n \in 0..MaxNesting] ==
        IF n = 0 THEN <<s>>
        ELSE LET above == level[n - 1] IN FlattenSeq([i \in DOMAIN above |-> Ways(above[i])])
  IN level[MaxNesting]

-----------------------------------------------------------------------------
\* A frame, and a stack of them with the blanks read in a row. A value that has
\* not begun keeps its schema, the others the node of it.
Frame(kind, st, s) ==
  [kind |-> kind, st |-> st, of |-> s, text |-> <<>>, used |-> {}, child |-> AnyJson, count |-> 0, hex |-> 0]

Start(s) == <<[stack |-> <<Frame("value", "", s)>>, ws |-> 0]>>

Top(c) == Last(c.stack)
Popped(c) == [c EXCEPT !.stack = Front(@)]
Pushed(c, f) == [c EXCEPT !.stack = Append(@, f)]
Turned(c, f) == [c EXCEPT !.stack = Append(Front(@), f)]
Tight(c) == [c EXCEPT !.ws = 0]

\* The configuration c, if p lets the byte through.
One(p, c) == IF p THEN <<c>> ELSE <<>>

Blank(c) == One(c.ws < MaxBlanks, [c EXCEPT !.ws = @ + 1])

\* Where a number goes on a byte that belongs to it.
NumberTo(st, whole, b) ==
  CASE b = "-" /\ st = "start" -> "minus"
    [] b = "0" /\ st \in {"start", "minus"} -> "zero"
    [] b \in Digit \ {"0"} /\ st \in {"start", "minus"} -> "int"
    [] b \in Digit /\ st = "int" -> "int"
    [] b \in Digit /\ st \in {"dot", "frac"} -> "frac"
    [] b \in Digit /\ st \in {"e", "sign", "exp"} -> "exp"
    [] b = "." /\ st \in {"zero", "int"} /\ ~whole -> "dot"
    [] b \in {"e", "E"} /\ (st = "frac" \/ (st \in {"zero", "int"} /\ ~whole)) -> "e"
    [] b \in {"+", "-"} /\ st = "e" -> "sign"
    [] OTHER -> "none"

NumberEnds == {"zero", "int", "frac", "exp"}

\* The byte goes on in the number on top.
Digits(c, b) ==
  LET f == Top(c)
      to == NumberTo(f.st, f.of.whole, b)
  IN One(to # "none", Turned(c, [f EXCEPT !.st = to]))

\* The byte goes on in the literal on top, which ends when no other one
\* continues it.
Letters(c, b) ==
  LET f == Top(c)
      text == Append(f.text, b)
      texts == f.of.texts
  IN IF \E t \in texts : IsStrictPrefix(text, t) THEN <<Turned(c, [f EXCEPT !.text = text])>>
     ELSE One(text \in texts, Popped(c))

\* K_STR.
String(c, b) ==
  LET f == Top(c)
      n == f.of
      full == n.max # NoLimit /\ f.count >= n.max
      Counted(st, hex) == <<Turned(c, [f EXCEPT !.st = st, !.hex = hex, !.count = @ + 1])>>
  IN CASE f.st = "hex" ->
            One(b \in Hex, Turned(c, [f EXCEPT !.hex = @ - 1, !.st = IF f.hex = 1 THEN "text" ELSE "hex"]))
       [] f.st = "escape" ->
            IF b = "u" THEN Counted("hex", 4) ELSE IF b \in Escapable THEN Counted("text", 0) ELSE <<>>
       [] f.st = "text" ->
            IF b = Quote THEN One(f.count >= n.min, Popped(c))
            ELSE IF b \in Control THEN <<>>
            ELSE IF b = Escape THEN One(~full, Turned(c, [f EXCEPT !.st = "escape"]))
            ELSE IF b \in Continuation THEN <<c>>
            ELSE IF full THEN <<>> ELSE Counted("text", 0)
-----------------------------------------------------------------------------
Free(f) == f.of.keys \ f.used
Complete(f) == f.of.required \subseteq f.used

\* MUTANT: a comma is taken whether or not a key is left.
MoreKeysAlways(f) == TRUE

\* Another key may follow.
MoreKeys(f) == f.of.extra \/ Free(f) # {}

\* The key is read; a value of schema s follows.
KeyRead(c, f, s, key) ==
  <<Turned(c, [f EXCEPT !.st = "colon", !.child = s, !.text = <<>>, !.used = @ \cup key])>>

\* O_KEY: a listed key that was not used, or the way out to a free one.
Key(c, b) ==
  LET f == Top(c)
      n == f.of
      text == Append(f.text, b)
  IN IF b = Quote
     THEN IF f.text \in Free(f) THEN KeyRead(c, f, n.prop[f.text], {f.text})
          ELSE IF n.extra THEN KeyRead(c, f, n.others, {})
          ELSE <<>>
     ELSE IF \E k \in Free(f) : IsPrefix(text, k) THEN <<Turned(c, [f EXCEPT !.text = text])>>
     ELSE One(n.extra /\ b \notin Control \cup {Escape}, Turned(c, [f EXCEPT !.st = "other", !.text = <<>>]))

\* O_FKEY, O_FKEY_ESC, O_FKEY_HEX.
OtherKey(c, b) ==
  LET f == Top(c)
      To(st, hex) == <<Turned(c, [f EXCEPT !.st = st, !.hex = hex])>>
  IN CASE f.st = "otherHex" -> IF b \in Hex THEN To(IF f.hex = 1 THEN "other" ELSE "otherHex", f.hex - 1) ELSE <<>>
       [] f.st = "otherEscape" ->
            IF b = "u" THEN To("otherHex", 4) ELSE IF b \in Escapable THEN To("other", 0) ELSE <<>>
       [] f.st = "other" ->
            IF b = Quote THEN KeyRead(c, f, f.of.others, {})
            ELSE IF b = Escape THEN To("otherEscape", 0)
            ELSE IF b \in Control THEN <<>> ELSE <<c>>

\* O_OPEN, O_NEXT, O_COLON, O_COMMA: between the keys and the values.
Member(c, b) ==
  LET f == Top(c)
      n == f.of
      To(st) == Turned(Tight(c), [f EXCEPT !.st = st, !.text = <<>>])
  IN CASE b \in Space -> Blank(c)
       [] b = Quote /\ f.st \in {"open", "next"} ->
            IF Free(f) # {} THEN <<To("key")>> ELSE One(n.extra, To("other"))
       [] b = "}" /\ f.st \in {"open", "comma"} -> One(Complete(f), Popped(Tight(c)))
       [] b = ":" /\ f.st = "colon" -> <<Pushed(To("comma"), Frame("value", "", f.child))>>
       [] b = "," /\ f.st = "comma" -> One(MoreKeys(f), To("next"))
       [] OTHER -> <<>>

Object(c, b) ==
  CASE Top(c).st = "key" -> Key(c, b)
    [] Top(c).st \in {"other", "otherEscape", "otherHex"} -> OtherKey(c, b)
    [] Top(c).st \in {"open", "next", "colon", "comma"} -> Member(c, b)

\* start_value, of one node.
BeginNode(c, n, b) ==
  LET In(kind, st) == Pushed(c, Frame(kind, st, n)) IN
  CASE n.kind = "object" -> One(b = "{", In("object", "open"))
    [] n.kind = "array" -> One(b = "[", In("array", "open"))
    [] n.kind = "string" -> One(b = Quote, In("string", "text"))
    [] n.kind = "number" -> Digits(In("number", "start"), b)
    [] n.kind = "literals" -> Letters(In("literal", ""), b)
    [] OTHER -> <<>>

\* Each alternative that the byte begins has its configuration.
BeginAny(c, leaves, b) == FlattenSeq([i \in DOMAIN leaves |-> BeginNode(c, Node(leaves[i]), b)])

\* start_value.
Begin(c, s, b) == IF Len(c.stack) >= MaxDepth THEN <<>> ELSE BeginAny(c, Leaves(s), b)

\* K_ARR: a byte that is neither a comma nor the end begins an item.
Array(c, b) ==
  LET f == Top(c)
      n == f.of
      more == n.max = NoLimit \/ f.count < n.max
      Item == Begin(Turned(Tight(c), [f EXCEPT !.st = "comma", !.count = @ + 1]), n.items, b)
  IN CASE b \in Space -> Blank(c)
       [] b = "]" /\ f.st \in {"open", "comma"} -> One(f.count >= n.min, Popped(Tight(c)))
       [] b = "," /\ f.st = "comma" -> One(more, Turned(Tight(c), [f EXCEPT !.st = "next"]))
       [] b \notin Space \cup {"]"} /\ f.st = "open" -> IF n.max = 0 THEN <<>> ELSE Item
       [] b \notin Space /\ f.st = "next" -> Item
       [] OTHER -> <<>>

\* step, where no number or literal is on top: they lie in an object, in an
\* array or alone.
Outside(c, b) ==
  IF c.stack = <<>> THEN IF b \in Space THEN Blank(c) ELSE <<>>
  ELSE IF Top(c).kind = "object" THEN Object(c, b) ELSE Array(c, b)

\* K_NUM: a byte that is not part of it ends the number and is its parent's.
Number(c, b) ==
  IF Digits(c, b) # <<>> THEN Digits(c, b)
  ELSE IF Top(c).st \in NumberEnds THEN Outside(Popped(c), b) ELSE <<>>

\* K_LIT.
Literal(c, b) ==
  IF Letters(c, b) # <<>> THEN Letters(c, b)
  ELSE IF Top(c).text \in Top(c).of.texts THEN Outside(Popped(c), b) ELSE <<>>

\* step.
Step(c, b) ==
  LET kind == IF c.stack = <<>> THEN "none" ELSE Top(c).kind IN
  CASE kind = "value" -> IF b \in Space THEN Blank(c) ELSE Begin(Tight(Popped(c)), Top(c).of, b)
    [] kind = "string" -> String(c, b)
    [] kind = "number" -> Number(c, b)
    [] kind = "literal" -> Literal(c, b)
    [] kind \in {"object", "array", "none"} -> Outside(c, b)

\* The configurations past kMaxConfigs are dropped.
Capped(all) == SubSeq(all, 1, Min({MaxConfigs, Len(all)}))

\* What a byte makes of the configurations.
Stepped(cfgs, b) == Capped(FlattenSeq([i \in DOMAIN cfgs |-> Step(cfgs[i], b)]))

\* run_piece, and a branch of the walk over the trie: none is left when a byte
\* of the piece is refused.
Feed(cfgs, piece) ==
  LET after[n \in 0..Len(piece)] == IF n = 0 THEN cfgs ELSE Stepped(after[n - 1], piece[n])
  IN after[Len(piece)]

\* can_end.
Ends(c) ==
  \A i \in DOMAIN c.stack :
    LET f == c.stack[i] IN
    \/ f.kind = "number" /\ f.st \in NumberEnds
    \/ f.kind = "literal" /\ f.text \in f.of.texts

CanEnd(cfgs) == \E i \in DOMAIN cfgs : Ends(cfgs[i])

\* JsonSchemaConstraint::allows, of a constraint that is on.
Allows(cfgs, piece, isEog) ==
  IF isEog THEN CanEnd(cfgs) ELSE piece # <<>> /\ Feed(cfgs, piece) # <<>>

\* in_plain_string: a string the schema does not bound.
InPlainString(cfgs) ==
  /\ Len(cfgs) = 1 /\ cfgs[1].stack # <<>>
  /\ LET f == Top(cfgs[1]) IN
       /\ f.kind = "string" /\ f.st = "text"
       /\ f.of.max = NoLimit

\* MUTANT: any count is left out.
KeyOfUncounted(cfgs) ==
  [i \in DOMAIN cfgs |->
    [cfgs[i] EXCEPT !.stack = [k \in DOMAIN @ |-> [@[k] EXCEPT !.count = 0]]]]

\* state_key, as the configurations it stands for: a count that changes nothing
\* is left out.
Uncounted(f) ==
  /\ f.kind \in {"string", "array"}
  /\ f.of.max = NoLimit /\ f.of.min <= 0

KeyOf(cfgs) ==
  [i \in DOMAIN cfgs |->
    [cfgs[i] EXCEPT !.stack =
      [k \in DOMAIN @ |-> IF Uncounted(@[k]) THEN [@[k] EXCEPT !.count = 0] ELSE @[k]]]]
=============================================================================
