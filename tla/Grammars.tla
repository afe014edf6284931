------------------------------ MODULE Grammars ------------------------------
(***************************************************************************)
(* The two constraints of a generation side by side, and what is known of  *)
(* the schemas of an instance.                                             *)
(***************************************************************************)
EXTENDS ToolGrammar

CONSTANTS
  Definition, Continuation, MaxNesting, MaxDepth, MaxConfigs, MaxBlanks,
  Subschemas     \* every schema of the instance, with those inside of it

J == INSTANCE JsonGrammar

ASSUME JsonAssumption ==
  /\ Continuation \subseteq Bytes
  /\ MaxNesting \in Nat
  /\ MaxDepth \in Nat \ {0} /\ MaxConfigs \in Nat \ {0} /\ MaxBlanks \in Nat

\* What compile meets in a schema is a schema, lengths are integers (as_int), and
\* no schema is nested deeper than it follows (configure refuses such a one).
ASSUME SchemaAssumption ==
  /\ J!AnyJson \in Subschemas
  /\ \A s \in Subschemas :
       LET n == J!Node(s) IN
       /\ J!Ways(s) \in Seq(Subschemas)
       /\ \A i \in DOMAIN J!Leaves(s) : J!Node(J!Leaves(s)[i]) # J!Refused
       /\ n.kind \in {"string", "array"} => n.min \in Int /\ n.max \in Int
       /\ n.kind = "array" => n.items \in Subschemas
       /\ n.kind = "object" => n.prop \in [n.keys -> Subschemas] /\ n.others \in Subschemas
=============================================================================
