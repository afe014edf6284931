------------------------------ MODULE MCSlots ------------------------------
(* Small instances of Slots: two requests and one administrator.           *)
EXTENDS Slots, TLC

CONSTANTS g1, g2, a1

\* A generation, and any request beside it.
MCMixes == {(g1 :> "generate") @@ (g2 :> k) : k \in Kinds}

\* Settings: 1 the sampling, 2 a schema, which the engine may refuse.
MCWish == (g1 :> {1, 2}) @@ (g2 :> {})

\* A new configuration may change the number of replicas.
MCParallel == <<2, 1>>
=============================================================================
