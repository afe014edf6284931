------------------------------ MODULE MCMemory ------------------------------
(***************************************************************************)
(* One item, blocks of two lines, an outline of two entries.               *)
(***************************************************************************)
EXTENDS ContextMemory, TLC

CONSTANTS doc, head, body
MCTexts == {<<>>, <<head>>, <<head, body, head>>}
=============================================================================
