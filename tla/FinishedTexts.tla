--------------------------- MODULE FinishedTexts ----------------------------
(***************************************************************************)
(* The constraints of a generation against the reference readers: what     *)
(* their automata let end is what was asked for, and they lead no text     *)
(* into a corner.                                                          *)
(***************************************************************************)
EXTENDS Constraints, JsonText

CONSTANT MaxWayOut  \* how many bytes finish any call or document of the instance

ASSUME FinishAssumption == MaxWayOut \in Nat

\* A call whose object has ended is one object with the two members, names a
\* declared tool and is followed by the closing tag. A call with an escape in
\* it is let off: \u is taken before the test that keeps escapes out of names,
\* and no escape is part of the key or the name that is compared.
FinishedIsACall ==
  st.phase \in {"close", "finished"} /\ ~missed /\ schema = Off =>
    Escape \in Range(text) \/ IsCall(Names, text)

\* A text the schema lets end is a JSON document and one of that schema: its
\* required keys are there, its values have their types and lengths, and no
\* key is in it that the schema does not take. Of a key that is repeated, the
\* first member counts.
FinishedIsADocument ==
  doc # <<>> /\ ~missed /\ J!CanEnd(doc) => IsDocument(schema, text, FirstMember)

\* The mask leads no text into a corner: from every state of a call or of a
\* document some bytes finish it, and a dead end is the vocabulary's alone.
\* Let off are documents as deep as the stack may grow: a value there cannot
\* begin, though its key could.
EveryTextCanFinish ==
  /\ Constraining(st) => CanFinish(Names, st, MaxWayOut)
  /\ doc # <<>> => \/ \E i \in DOMAIN doc : CanFinishDoc(doc[i], MaxWayOut)
                   \/ \A i \in DOMAIN doc : Len(doc[i].stack) >= MaxDepth

\* No key of a document is repeated with a value of another type (abi.h: the
\* result always has the required keys and types). The code does not keep it:
\* where free keys are allowed, a listed key that was used is read as one.
EveryMemberFits ==
  doc # <<>> /\ ~missed /\ J!CanEnd(doc) => IsDocument(schema, text, LastMember)

\* No document is led into a corner, however deep. The code does not keep it:
\* at the depth limit a key may begin and its value may not.
EveryDepthCanFinish ==
  doc # <<>> => \E i \in DOMAIN doc : CanFinishDoc(doc[i], MaxWayOut)
=============================================================================
