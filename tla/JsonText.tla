------------------------------ MODULE JsonText ------------------------------
(***************************************************************************)
(* A reference for what the schema constraint promises, written from JSON  *)
(* and from what the keywords of a schema mean, not from the automaton: a  *)
(* reader that turns a whole text into a value, and what makes a value one *)
(* of a schema.                                                            *)
(***************************************************************************)
EXTENDS CallText, Grammars

\* Values: what they are, their text, and their parts.
Nothing == [is |-> "nothing", end |-> 0, text |-> <<>>, parts |-> <<>>]

NumberAt(t, i) ==
  LET minus == i + (IF At(t, i) = "-" THEN 1 ELSE 0)
      whole == After(t, minus, Digit)
      frac == IF At(t, whole) = "." THEN After(t, whole + 1, Digit) ELSE whole
      mark == frac + 1 + (IF At(t, frac + 1) \in {"+", "-"} THEN 1 ELSE 0)
      exp == IF At(t, frac) \in {"e", "E"} THEN After(t, mark, Digit) ELSE frac
  IN IF \/ whole = minus \/ (At(t, minus) = "0" /\ whole > minus + 1)
        \/ frac = whole + 1 \/ (exp # frac /\ exp = mark)
     THEN Nothing
     ELSE [is |-> IF exp = whole THEN "integer" ELSE "number", end |-> exp,
           text |-> SubSeq(t, i, exp - 1), parts |-> <<>>]

\* The value that starts at i, nothing if none does.
RECURSIVE ValueAt(_, _), Members(_, _, _), Elements(_, _, _)
ValueAt(t, i) ==
  LET one == After(t, i + 1, Space)
      said == Said(t, i + 1, <<>>)
      word == {w \in Words : IsPrefix(w, SubSeq(t, i, Len(t)))}
      Spelled(is, end, parts) == [is |-> is, end |-> end, text |-> SubSeq(t, i, end - 1), parts |-> parts]
  IN CASE At(t, i) = "{" -> IF At(t, one) = "}" THEN Spelled("object", one + 1, <<>>) ELSE Members(t, one, <<>>)
       [] At(t, i) = "[" -> IF At(t, one) = "]" THEN Spelled("array", one + 1, <<>>) ELSE Elements(t, one, <<>>)
       [] At(t, i) = Quote -> IF said.end = 0 THEN Nothing ELSE Spelled("string", said.end, said.says)
       [] At(t, i) \in Digit \cup {"-"} -> NumberAt(t, i)
       [] word # {} -> LET w == CHOOSE w \in word : TRUE IN Spelled("word", i + Len(w), <<>>)
       [] OTHER -> Nothing

Members(t, i, sofar) ==
  LET key == Said(t, i + 1, <<>>)
      colon == After(t, key.end, Space)
      value == ValueAt(t, After(t, colon + 1, Space))
      next == After(t, value.end, Space)
      all == Append(sofar, [key |-> key.says, value |-> value])
  IN IF At(t, i) # Quote \/ key.end = 0 \/ At(t, colon) # ":" \/ value.end = 0 THEN Nothing
     ELSE IF At(t, next) = "}" THEN [is |-> "object", end |-> next + 1, text |-> <<>>, parts |-> all]
     ELSE IF At(t, next) = "," THEN Members(t, After(t, next + 1, Space), all)
     ELSE Nothing

Elements(t, i, sofar) ==
  LET value == ValueAt(t, i)
      next == After(t, value.end, Space)
      all == Append(sofar, value)
  IN IF value.end = 0 THEN Nothing
     ELSE IF At(t, next) = "]" THEN [is |-> "array", end |-> next + 1, text |-> <<>>, parts |-> all]
     ELSE IF At(t, next) = "," THEN Elements(t, After(t, next + 1, Space), all)
     ELSE Nothing
-----------------------------------------------------------------------------
Given(s, k) == k \in DOMAIN s
Within(n, s, least, most) == (Given(s, least) => n >= s[least]) /\ (Given(s, most) => n <= s[most])

Named(v, key) == {i \in DOMAIN v.parts : v.parts[i].key = key}

\* Which member of a key counts: the first one, or the last as parsers take it.
FirstMember(v, key) == v.parts[Min(Named(v, key))].value
LastMember(v, key) == v.parts[Max(Named(v, key))].value

\* v is a value of the schema s; Member says which of the members of a listed
\* key counts.
Fits(s, v, Member(_, _)) ==
  LET RECURSIVE Valid(_, _), HasType(_, _, _)
      Valid(schema, x) ==
        /\ Given(schema, "ref") => Valid(Definition[schema.ref], x)
        /\ Given(schema, "enum") => x.text \in schema.enum
        /\ Given(schema, "const") => x.text = schema.const
        /\ Given(schema, "anyOf") => \E i \in DOMAIN schema.anyOf : Valid(schema.anyOf[i], x)
        /\ Given(schema, "oneOf") => \E i \in DOMAIN schema.oneOf : Valid(schema.oneOf[i], x)
        /\ Given(schema, "allOf") => \A i \in DOMAIN schema.allOf : Valid(schema.allOf[i], x)
        /\ Given(schema, "type") => HasType(schema, schema.type, x)
        /\ Given(schema, "types") => \E i \in DOMAIN schema.types : HasType(schema, schema.types[i], x)
      HasType(schema, type, x) ==
        CASE type = "null" -> x.text = <<"n", "u", "l", "l">>
          [] type = "boolean" -> x.text \in {<<"t", "r", "u", "e">>, <<"f", "a", "l", "s", "e">>}
          [] type = "number" -> x.is \in {"integer", "number"}
          [] type = "integer" -> x.is = "integer"
          [] type = "string" ->
               /\ x.is = "string"
               /\ Within(Cardinality({i \in DOMAIN x.parts : x.parts[i] \notin Continuation}), schema, "minLength", "maxLength")
          [] type = "array" ->
               /\ x.is = "array"
               /\ Within(Len(x.parts), schema, "minItems", "maxItems")
               /\ Given(schema, "items") => \A i \in DOMAIN x.parts : Valid(schema.items, x.parts[i])
          [] type = "object" ->
               LET keys == {x.parts[i].key : i \in DOMAIN x.parts}
                   listed == IF Given(schema, "properties") THEN DOMAIN schema.properties ELSE {}
                   required == IF Given(schema, "required") THEN schema.required ELSE {}
               IN /\ x.is = "object"
                  /\ required \subseteq keys
                  /\ \A k \in keys \cap listed : Valid(schema.properties[k], Member(x, k))
                  /\ \A k \in keys \ (listed \cup required) :
                       /\ Given(schema, "additional") => schema.additional
                       /\ Given(schema, "additionalSchema") => Valid(schema.additionalSchema, Member(x, k))
                       /\ listed \cup required = {} \/ Given(schema, "additional") \/ Given(schema, "additionalSchema")
  IN Valid(s, v)

\* text is a document of s with blanks around it.
IsDocument(s, text, Member(_, _)) ==
  LET v == ValueAt(text, After(text, 1, Space)) IN
  /\ v.end # 0 /\ After(text, v.end, Space) = Len(text) + 1
  /\ Fits(s, v, Member)
-----------------------------------------------------------------------------
\* The bytes with which a document heads for its end.
TowardsKey(f) ==
  LET free == {k \in J!Free(f) : IsPrefix(f.text, k)}
      wanted == free \cap f.of.required
  IN IF f.text \in free THEN {Quote}
     ELSE IF free = {} THEN {Quote}
     ELSE TowardsWord(IF wanted = {} THEN free ELSE wanted, f.text)

RECURSIVE AimsOf(_)
AimsOf(c) ==
  LET f == J!Top(c) IN
  CASE f.kind = "value" -> Bytes
    [] f.kind = "number" -> IF f.st \in J!NumberEnds THEN AimsOf(J!Popped(c)) ELSE {"0"}
    [] f.kind = "literal" -> IF f.text \in f.of.texts THEN AimsOf(J!Popped(c))
                             ELSE TowardsWord(f.of.texts, f.text)
    [] f.kind = "array" -> IF f.st # "next" /\ f.count >= f.of.min THEN {"]"}
                           ELSE IF f.st = "comma" THEN {","} ELSE Bytes
    [] f.kind = "string" -> (CASE f.st = "hex" -> {"0"}
                               [] f.st = "escape" -> {"n"}
                               [] f.st = "text" -> IF f.count >= f.of.min THEN {Quote} ELSE {"a"})
    [] f.kind = "object" -> (CASE f.st \in {"open", "comma"} /\ J!Complete(f) -> {"}"}
                               [] f.st = "comma" /\ ~J!Complete(f) -> {","}
                               [] f.st = "open" /\ ~J!Complete(f) -> {Quote}
                               [] f.st \in {"next", "other"} -> {Quote}
                               [] f.st = "key" -> TowardsKey(f)
                               [] f.st = "otherEscape" -> {"n"}
                               [] f.st = "otherHex" -> {"0"}
                               [] f.st = "colon" -> {":"})

RECURSIVE CanFinishDoc(_, _)
CanFinishDoc(c, bytes) ==
  \/ J!Ends(c)
  \/ bytes > 0 /\ \E b \in AimsOf(c) : \E i \in DOMAIN J!Step(c, b) : CanFinishDoc(J!Step(c, b)[i], bytes - 1)
=============================================================================
