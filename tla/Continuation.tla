---------------------------- MODULE Continuation ----------------------------
(***************************************************************************)
(* What a text generator promises: after a prompt the caller receives, one *)
(* at a time, tokens each of which was drawn after exactly the text the    *)
(* caller holds. Caches, batches, guesses and work in flight do not show.  *)
(***************************************************************************)
EXTENDS Naturals, Sequences

CONSTANTS
  Tokens,
  CanDraw(_, _),   \* CanDraw(s, t): the model may say t after the tokens s
  Prompts

VARIABLES
  text,            \* the prompt and what was said since
  live             \* a generation is open

vars == <<text, live>>

Init == text = <<>> /\ live = FALSE

Say(s) == \E t \in Tokens : CanDraw(s, t) /\ text' = Append(s, t)

Start == \E p \in Prompts : Say(p) /\ live' = TRUE

Continue == live /\ Say(text) /\ live' = TRUE

End == live' = FALSE /\ UNCHANGED text

Next == Start \/ Continue \/ End

Spec == Init /\ [][Next]_vars
=============================================================================
