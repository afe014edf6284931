------------------------------ MODULE CallText ------------------------------
(***************************************************************************)
(* A reference reader of a finished tool call, written from what the call  *)
(* has to be and not from the automaton: recursive descent over the whole  *)
(* text. A string decodes to its bytes, an escape to one value of its own, *)
(* so no escaped name equals a plain one. Numbers are read as the engine   *)
(* reads them: a run of number bytes.                                      *)
(***************************************************************************)
EXTENDS ToolGrammar

\* The first position from i on whose byte is not in S.
After(t, i, S) == Min({j \in i..(Len(t) + 1) : j = Len(t) + 1 \/ t[j] \notin S})

At(t, i) == IF i \in 1..Len(t) THEN t[i] ELSE "end"

\* Where the string that starts at i ends (one past its quote), and what it
\* says; 0 for a string that is broken.
RECURSIVE Said(_, _, _)
Said(t, i, bytes) ==
  CASE At(t, i) = Quote -> [end |-> i + 1, says |-> bytes]
    [] At(t, i) = Escape /\ At(t, i + 1) = "u" -> Said(t, i + 6, Append(bytes, SubSeq(t, i, Min({i + 5, Len(t)}))))
    [] At(t, i) = Escape /\ At(t, i + 1) \in Escapable -> Said(t, i + 2, Append(bytes, SubSeq(t, i, i + 1)))
    [] At(t, i) \in Bytes \ (Control \cup {Quote, Escape}) -> Said(t, i + 1, Append(bytes, t[i]))
    [] OTHER -> [end |-> 0, says |-> <<>>]

Words == {<<"t", "r", "u", "e">>, <<"f", "a", "l", "s", "e">>, <<"n", "u", "l", "l">>}

Broken == [end |-> 0, members |-> <<>>]

\* The value at i: where it ends and, for an object, its members in order as
\* <<key, first byte, what it says>>.
RECURSIVE Read(_, _), ReadMembers(_, _, _), ReadElements(_, _)
Read(t, i) ==
  LET one == After(t, i + 1, Space) IN
  CASE At(t, i) = "{" /\ At(t, one) = "}" -> [end |-> one + 1, members |-> <<>>]
    [] At(t, i) = "{" /\ At(t, one) # "}" -> ReadMembers(t, one, <<>>)
    [] At(t, i) = "[" /\ At(t, one) = "]" -> [end |-> one + 1, members |-> <<>>]
    [] At(t, i) = "[" /\ At(t, one) # "]" -> ReadElements(t, one)
    [] At(t, i) = Quote -> [end |-> Said(t, i + 1, <<>>).end, members |-> <<>>]
    [] At(t, i) \in Digit \cup {"-"} -> [end |-> After(t, i, NumberByte), members |-> <<>>]
    [] OTHER -> [end |-> Max({0} \cup {i + Len(w) : w \in {v \in Words : IsPrefix(v, SubSeq(t, i, Len(t)))}}),
                 members |-> <<>>]

ReadMembers(t, i, sofar) ==
  LET key == Said(t, i + 1, <<>>)
      colon == After(t, key.end, Space)
      at == After(t, colon + 1, Space)
      value == Read(t, at)
      next == After(t, value.end, Space)
      all == Append(sofar, [key |-> key.says, first |-> At(t, at),
                            says |-> IF At(t, at) = Quote THEN Said(t, at + 1, <<>>).says ELSE <<>>])
  IN IF At(t, i) # Quote \/ key.end = 0 \/ At(t, colon) # ":" \/ value.end = 0 THEN Broken
     ELSE IF At(t, next) = "}" THEN [end |-> next + 1, members |-> all]
     ELSE IF At(t, next) = "," THEN ReadMembers(t, After(t, next + 1, Space), all)
     ELSE Broken

ReadElements(t, i) ==
  LET value == Read(t, i)
      next == After(t, value.end, Space)
  IN IF value.end = 0 THEN Broken
     ELSE IF At(t, next) = "]" THEN [end |-> next + 1, members |-> <<>>]
     ELSE IF At(t, next) = "," THEN ReadElements(t, After(t, next + 1, Space))
     ELSE Broken

\* text is one call of a tool in names, up to a cut in the closing tag.
IsCall(names, text) ==
  LET at == After(text, 1, Space)
      call == Read(text, at)
      m == call.members
      named == {k \in DOMAIN m : m[k].key = NameKey}
      rest == After(text, call.end, Space)
  IN /\ At(text, at) = "{" /\ call.end # 0
     /\ \A k \in DOMAIN m : \/ m[k].key = NameKey /\ m[k].first = Quote
                            \/ m[k].key = ArgsKey /\ m[k].first = "{"
     /\ named # {} /\ NameOk(names, m[Max(named)].says)
     /\ IsPrefix(SubSeq(text, rest, Len(text)), CloseTag)
-----------------------------------------------------------------------------
\* The bytes with which a call heads for its end.
TowardsWord(words, sofar) == {w[Len(sofar) + 1] : w \in {v \in words : IsStrictPrefix(sofar, v)}}

InString(names, s) ==
  IF s.hex > 0 THEN {"0"}
  ELSE IF s.esc THEN IF s.reading THEN {"u"} ELSE {"n"}
  ELSE IF s.inKey /\ AtTop(s)
  THEN IF s.key \in {NameKey, ArgsKey} THEN {Quote}
       ELSE TowardsWord({IF IsPrefix(s.key, NameKey) THEN NameKey ELSE ArgsKey}, s.key)
  ELSE IF ~s.reading \/ NameOk(names, s.name) THEN {Quote}
  ELSE IF names = {} THEN {"a"} ELSE TowardsWord(names, s.name)

Aims(names, s) ==
  CASE s.phase = "close" -> {CloseTag[s.closing + 1]}
    [] s.phase = "json" /\ ~s.started -> {"{"}
    [] s.phase = "json" /\ s.started ->
         CASE s.mode = "value" -> {IF AtTop(s) /\ s.topKey = ArgsKey THEN "{" ELSE Quote}
           [] s.mode = "objKeyOrEnd" -> {IF AtTop(s) THEN Quote ELSE "}"}
           [] s.mode = "objKey" -> {Quote}
           [] s.mode = "string" -> InString(names, s)
           [] s.mode = "colon" -> {":"}
           [] s.mode = "objCommaOrEnd" -> {IF AtTop(s) /\ ~NameOk(names, s.name) THEN "," ELSE "}"}
           [] s.mode \in {"arrValueOrEnd", "arrCommaOrEnd"} -> {"]"}
           [] s.mode = "number" -> {IF Last(s.stack) = "{" THEN "}" ELSE "]"}
           [] s.mode = "literal" -> {Head(s.rest)}
           [] OTHER -> {}
    [] OTHER -> {}

RECURSIVE CanFinish(_, _, _)
CanFinish(names, s, bytes) ==
  \/ s.phase = "finished"
  \/ bytes > 0 /\ \E c \in Aims(names, s) : \E t \in Step(names, s, c) : CanFinish(names, t, bytes - 1)
=============================================================================
