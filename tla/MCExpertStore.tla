--------------------------- MODULE MCExpertStore ---------------------------
(***************************************************************************)
(* Two experts of two parts, a store and a tier that hold one entry.       *)
(***************************************************************************)
EXTENDS ExpertStore, TLC

CONSTANTS e1, e2, Gate, Down, n1, n2
MCKeys == {e1, e2} \X {Gate, Down}
MCParts == <<Gate, Down>>
MCBytes == n1 :> 1 @@ n2 :> 2
MCPredictions == {<<e1, e2>>}
MCFaulty == {<<e2, Gate>>, n1}
MCSaved == <<e2, Gate>> :> 1
=============================================================================
