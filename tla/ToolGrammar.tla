---------------------------- MODULE ToolGrammar ----------------------------
(***************************************************************************)
(* The byte automaton of a tool call (ToolCallConstraint of                *)
(* tool_grammar.cpp):                                                      *)
(*                                                                         *)
(*   <open> {"name": "<a declared tool>", "arguments": {...}} <close>      *)
(*                                                                         *)
(* A step that the code refuses has no next state.                         *)
(***************************************************************************)
EXTENDS TextBytes, Integers, Sequences, SequencesExt, FiniteSetsExt

CONSTANTS
  OpenTag,   \* open_tag_
  CloseTag   \* close_tag_

ASSUME GrammarAssumption ==
  /\ OpenTag \in Seq(Bytes) /\ OpenTag # <<>>
  /\ CloseTag \in Seq(Bytes)

NumberByte == Digit \cup {".", "e", "E", "+", "-"}
NameKey == <<"n", "a", "m", "e">>
ArgsKey == <<"a", "r", "g", "u", "m", "e", "n", "t", "s">>
Literals == [t |-> <<"r", "u", "e">>, f |-> <<"a", "l", "s", "e">>, n |-> <<"u", "l", "l">>]

Idle == [phase |-> "scanning", tail |-> <<>>, started |-> FALSE, mode |-> "value",
         stack |-> <<>>, inKey |-> FALSE, esc |-> FALSE, hex |-> 0, rest |-> <<>>,
         key |-> <<>>, topKey |-> <<>>, name |-> <<>>, reading |-> FALSE, closing |-> 0]

InCall == [Idle EXCEPT !.phase = "json"]

Constraining(s) == s.phase # "scanning"

\* The state s, if p lets the byte through.
Only(p, s) == {x \in {s} : p}

Found(tag, text) ==
  {i \in 1..(Len(text) - Len(tag) + 1) : SubSeq(text, i, i + Len(tag) - 1) = tag}

LastBytes(text, n) == SubSeq(text, Max({0, Len(text) - n}) + 1, Len(text))

Armed(s) ==
  /\ ~Constraining(s)
  /\ \E k \in 1..(Len(OpenTag) - 1) : k <= Len(s.tail) /\ LastBytes(s.tail, k) = SubSeq(OpenTag, 1, k)

\* name_prefix_ok: with no tool declared every name will do.
PrefixOk(names, name) == names = {} \/ \E n \in names : IsPrefix(name, n)
NameOk(names, name) == IF names = {} THEN name # <<>> ELSE name \in names

AtTop(s) == Len(s.stack) = 1
Turn(s, mode) == [s EXCEPT !.mode = mode]
Opened(s, bracket, mode) == [s EXCEPT !.stack = Append(@, bracket), !.mode = mode]

AfterValue(s) ==
  IF s.stack = <<>>
  THEN [s EXCEPT !.mode = "done", !.closing = 0,
                 !.phase = IF CloseTag = <<>> THEN "finished" ELSE "close"]
  ELSE Turn(s, IF Last(s.stack) = "{" THEN "objCommaOrEnd" ELSE "arrCommaOrEnd")

Closed(s) == AfterValue([s EXCEPT !.stack = Front(@)])

\* What follows a member or an element: a comma or the end.
CommaOrEnd(names, s, c) ==
  IF s.mode = "objCommaOrEnd"
  THEN Only(c = ",", Turn(s, "objKey"))
       \cup Only(c = "}" /\ (AtTop(s) => NameOk(names, s.name)), Closed(s))
  ELSE Only(c = ",", Turn(s, "value")) \cup Only(c = "]", Closed(s))

\* MUTANT: the arguments may be anything.
WrongTypeOfName(s, c) == AtTop(s) /\ s.topKey = NameKey /\ c # Quote

\* The two top-level members have their types.
WrongType(s, c) ==
  /\ AtTop(s)
  /\ (s.topKey = NameKey /\ c # Quote) \/ (s.topKey = ArgsKey /\ c # "{")

\* ToolCallConstraint::step, case Value.
Value(s, c) ==
  IF c \in Space THEN {s}
  ELSE IF WrongType(s, c) THEN {}
  ELSE LET reading == AtTop(s) /\ s.topKey = NameKey IN
       Only(c = "{", Opened(s, "{", "objKeyOrEnd"))
       \cup Only(c = "[", Opened(s, "[", "arrValueOrEnd"))
       \cup Only(c = Quote, [s EXCEPT !.mode = "string", !.inKey = FALSE, !.reading = reading,
                                      !.name = IF reading THEN <<>> ELSE @])
       \cup {[Turn(s, "literal") EXCEPT !.rest = Literals[c]] : x \in {c} \cap DOMAIN Literals}
       \cup Only(c \in Digit \cup {"-"}, Turn(s, "number"))

\* Cases ObjKeyOrEnd (an end is allowed) and ObjKey.
Key(s, c) ==
  Only(c \in Space, s)
  \cup Only(c = Quote, [s EXCEPT !.mode = "string", !.inKey = TRUE, !.key = <<>>])
  \cup Only(c = "}" /\ s.mode = "objKeyOrEnd" /\ ~AtTop(s), Closed(s))

\* The quote that ends a string.
StringEnd(names, s) ==
  IF s.inKey THEN Only(AtTop(s) => s.key \in {NameKey, ArgsKey}, Turn(s, "colon"))
  ELSE Only(s.reading => NameOk(names, s.name), AfterValue([s EXCEPT !.reading = FALSE]))

\* A byte after a backslash: \u wants four hexadecimal digits.
Escaped(s, c) ==
  LET t == [s EXCEPT !.esc = FALSE] IN
  Only(c = "u", [t EXCEPT !.hex = 4])
  \cup Only(c \in Escapable /\ ~s.reading, t)

\* A byte of a top-level key, of the name, or of any other string.
StringByte(names, s, c) ==
  LET key == Append(s.key, c)
      name == Append(s.name, c)
  IN IF s.inKey /\ AtTop(s)
     THEN Only(IsPrefix(key, NameKey) \/ IsPrefix(key, ArgsKey), [s EXCEPT !.key = key])
     ELSE IF ~s.inKey /\ s.reading
     THEN Only(PrefixOk(names, name), [s EXCEPT !.name = name])
     ELSE {s}

\* Case String.
String(names, s, c) ==
  IF s.hex > 0 THEN Only(c \in Hex, [s EXCEPT !.hex = @ - 1])
  ELSE IF s.esc THEN Escaped(s, c)
  ELSE IF c = Escape THEN {[s EXCEPT !.esc = TRUE]}
  ELSE IF c \in Control THEN {}
  ELSE IF c = Quote THEN StringEnd(names, s)
  ELSE StringByte(names, s, c)

\* Case Number: a byte that is not part of it is what follows the value.
Number(names, s, c) ==
  IF c \in NumberByte THEN {s}
  ELSE IF c \in Space THEN {AfterValue(s)}
  ELSE CommaOrEnd(names, AfterValue(s), c)

Literal(s, c) ==
  LET t == [s EXCEPT !.rest = Tail(@)] IN
  Only(c = Head(s.rest), IF t.rest = <<>> THEN AfterValue(t) ELSE t)

InJson(names, s, c) ==
  CASE ~s.started -> Only(c \in Space, s)
                     \cup Only(c = "{", Opened([s EXCEPT !.started = TRUE], "{", "objKeyOrEnd"))
    [] s.started /\ s.mode = "value" -> Value(s, c)
    [] s.mode \in {"objKeyOrEnd", "objKey"} -> Key(s, c)
    [] s.mode = "string" -> String(names, s, c)
    [] s.mode = "colon" ->
         Only(c \in Space, s)
         \cup Only(c = ":", [s EXCEPT !.mode = "value", !.topKey = IF AtTop(s) THEN s.key ELSE @])
    [] s.mode \in {"objCommaOrEnd", "arrCommaOrEnd"} ->
         Only(c \in Space, s) \cup CommaOrEnd(names, s, c)
    [] s.mode = "arrValueOrEnd" ->
         IF c \in Space THEN {s}
         ELSE IF c = "]" THEN {Closed(s)}
         ELSE Value(Turn(s, "value"), c)
    [] s.mode = "number" -> Number(names, s, c)
    [] s.mode = "literal" -> Literal(s, c)
    [] OTHER -> {}

Closing(s, c) ==
  IF s.closing = 0 /\ c \in Space THEN {s}
  ELSE LET t == [s EXCEPT !.closing = @ + 1] IN
       Only(c = CloseTag[t.closing],
            IF t.closing = Len(CloseTag) THEN [t EXCEPT !.phase = "finished"] ELSE t)

Step(names, s, c) ==
  CASE s.phase = "json" -> InJson(names, s, c)
    [] s.phase = "close" -> Closing(s, c)
    [] OTHER -> {}

\* The states after a piece: one, or none when a byte of it is refused.
Feed(names, S, piece) ==
  LET after[n \in 0..Len(piece)] ==
        IF n = 0 THEN S ELSE UNION {Step(names, s, piece[n]) : s \in after[n - 1]}
  IN after[Len(piece)]

\* give_up: back to scanning, with an empty tail.
OrGivenUp(S) == IF S = {} THEN Idle ELSE CHOOSE s \in S : TRUE

\* MUTANT: the long tail is cleared, with the start of a tag in it.
TrimmedAway(tail) == IF Len(tail) > 2 * Len(OpenTag) THEN <<>> ELSE tail

\* The tail that is kept to find the tag in.
Trimmed(tail) == IF Len(tail) > 2 * Len(OpenTag) THEN LastBytes(tail, Len(OpenTag)) ELSE tail

\* ToolCallConstraint::accept, of a configured constraint.
Accept(names, s, piece) ==
  LET tail == s.tail \o piece
      at == Found(OpenTag, tail)
  IN IF Constraining(s) THEN OrGivenUp(Feed(names, {s}, piece))
     ELSE IF at = {}
     THEN [s EXCEPT !.tail = Trimmed(tail)]
     ELSE OrGivenUp(Feed(names, {InCall}, SubSeq(tail, Min(at) + Len(OpenTag), Len(tail))))

\* ToolCallConstraint::allows.
Allows(names, s, piece, isEog) ==
  \/ ~Constraining(s)
  \/ s.phase = "finished" /\ isEog
  \/ s.phase \in {"json", "close"} /\ ~isEog /\ piece # <<>> /\ Feed(names, {s}, piece) # {}

\* in_plain_string: inside a string the grammar does not look into.
InPlainString(s) ==
  /\ s.phase = "json" /\ s.mode = "string"
  /\ ~s.esc /\ s.hex = 0
  /\ ~s.reading
  /\ ~(s.inKey /\ AtTop(s))
=============================================================================
