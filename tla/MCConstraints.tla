--------------------------- MODULE MCConstraints ----------------------------
(***************************************************************************)
(* A vocabulary of pieces that cut the tag, the keys and the names in      *)
(* different places, with two tools of which one is a prefix of the other. *)
(* The schemas: an object with a required key that begins like another and *)
(* one that is only required; a union of a bounded list and of two kinds   *)
(* of number; literals and string that begin alike; a recursive object     *)
(* with free keys.                                                         *)
(***************************************************************************)
EXTENDS FinishedTexts, TLC

MCOpen == <<"<", "t">>
MCClose == <<"<", "/">>
MCContinuation == {"~"}
MCBytes == {"<", "/", "{", "}", "[", "]", ":", ",", "\"", "\\", " ", "nl", "-", ".", "~",
            "0", "1", "6", "7", "a", "e", "f", "g", "l", "m", "n", "o", "r", "s", "t", "u"}
Go == <<"g", "o">>
Gone == <<"g", "o", "n", "e">>
MCToolSets == {{Go, Gone}}

Null == <<"n", "u", "l", "l">>
Na == <<"n", "a">>
Name == <<"n", "a", "m", "e">>
Quoted(word) == <<Quote>> \o word \o <<Quote>>
Whole == [type |-> "integer"]
Tree == [ref |-> "tree"]
MCDefinition == "tree" :>
  [type |-> "object", properties |-> Na :> [anyOf |-> <<Tree, Whole>>], additionalSchema |-> [const |-> Null]]

Person == [type |-> "object", properties |-> Na :> [type |-> "string", minLength |-> 1, maxLength |-> 2],
           required |-> {Name}, additional |-> FALSE]
Numbers == [anyOf |-> <<[items |-> Whole, minItems |-> 2, maxItems |-> 2],
                        [type |-> "array", items |-> [types |-> <<"number", "null">>]]>>]
Word == [oneOf |-> <<[enum |-> {Quoted(Go), Quoted(Gone), <<"1">>, <<"1", "0">>}], [type |-> "string"]>>]
MCSchemas == {Person, Numbers, Word, Tree}

\* Every schema inside of these, and what a list of types stands for.
Anything == [any |-> TRUE]
Kinds == {[type |-> t] : t \in {"object", "array", "string", "number", "null", "integer"}}
MCSubschemas ==
  MCSchemas \cup Kinds
  \cup {Anything, [enum |-> {Null, <<"t", "r", "u", "e">>, <<"f", "a", "l", "s", "e">>}], [const |-> Null]}
  \cup {Person.properties[Na], MCDefinition["tree"], MCDefinition["tree"].properties[Na]}
  \cup {Numbers.anyOf[1], Numbers.anyOf[2], Numbers.anyOf[2].items, Word.oneOf[1]}

MCPiece ==
     " <" :> <<" ", "<">>
  @@ "t" :> <<"t">>
  @@ "t{q" :> <<"t", "{", "\"">>
  @@ "na" :> <<"n", "a">>
  @@ "me" :> <<"m", "e">>
  @@ "q:" :> <<"\"", ":", " ">>
  @@ "qgo" :> <<"\"", "g", "o">>
  @@ "ne" :> <<"n", "e">>
  @@ "q" :> <<"\"">>
  @@ "q,args" :> <<"\"", ",", "\"">> \o ArgsKey
  @@ "{" :> <<"{">>
  @@ "}" :> <<"}">>
  @@ "\\u" :> <<"\\", "u", "0", "0", "6", "7">>
  @@ "</" :> <<"<", "/">>
  @@ "-" :> <<"-", "0">>
  @@ "{q" :> <<"{", "\"">>
  @@ ",q" :> <<",", "\"">>
  @@ "na:" :> <<"n", "a", "\"", ":">>
  @@ "[" :> <<"[">>
  @@ "]" :> <<"]">>
  @@ "," :> <<",">>
  @@ "1" :> <<"1">>
  @@ "0" :> <<"0">>
  @@ ".6" :> <<".", "6">>
  @@ "g~" :> <<"g", "~">>
  @@ "null" :> Null
  @@ "end" :> <<>>
MCTokens == DOMAIN MCPiece

MCLikely ==
     Off :> {" <", "t", "t{q", "na", "me", "q:", "qgo", "ne", "q", "q,args", "{", "}", "\\u", "</", "-", "end"}
  @@ Person :> {"{q", "na", "na:", "me", "q:", "q", "g~", ",q", ",", "1", "}", "end"}
  @@ Numbers :> {"[", "]", ",", "-", "1", "0", ".6", "null", "end"}
  @@ Word :> {"qgo", "ne", "q", "\\u", "1", "0", "end"}
  @@ Tree :> {"{q", "na:", "1", "}", ",q", "me", "q:", "null", "end"}

MCMaxDoc == Person :> 11 @@ Numbers :> 7 @@ Word :> 7 @@ Tree :> 9
MCChatter == {"g~", "ne", "me", "q", "q:", "na:", ",q", "\\u", "end"}
=============================================================================
