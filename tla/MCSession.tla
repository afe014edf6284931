----------------------------- MODULE MCSession -----------------------------
(* Small instances of Session: two words and the image placeholder.        *)
EXTENDS Session

MCTokens == {"a", "b", "img"}

\* A model that looks at its whole context: after an odd number of "b" it says
\* "a", otherwise either word.
MCCanDraw(s, t) ==
  \/ t = "a"
  \/ t = "b" /\ Cardinality({i \in 1..Len(s) : s[i] = "b"}) % 2 = 0

NoText == {}
TwoPrompts   == {<<"a", "b">>, <<"a", "a">>}
ForkPrompts  == {<<"a">>, <<"a", "b">>, <<"a", "b", "a">>, <<"b", "a">>}
StorePrompts == {<<"a", "b", "a">>, <<"a", "b">>, <<"b", "b">>, <<"b", "b", "a">>}
DiskPrompts  == {<<"a", "b", "a">>, <<"b", "b">>}
ImagePrompts == {<<"a", "img">>}
ScoreTexts   == {<<"a", "b", "b">>, <<"b", "a">>}
=============================================================================
