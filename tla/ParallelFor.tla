---------------------------- MODULE ParallelFor ----------------------------
(***************************************************************************)
(* What a data-parallel loop promises its callers: the call comes back     *)
(* when every unit of the loop has been run, and no earlier. Who runs the  *)
(* units, in what order and in what groups does not show.                  *)
(***************************************************************************)
EXTENDS Integers

CONSTANTS Callers, Totals

VARIABLES
  left,       \* units of the caller's loop still to run
  calling     \* the caller is inside its call

vars == <<left, calling>>

Init == left = [c \in Callers |-> {}] /\ calling = [c \in Callers |-> FALSE]

Call(c) ==
  /\ ~calling[c]
  /\ \E n \in Totals : left' = [left EXCEPT ![c] = 0..n - 1]
  /\ calling' = [calling EXCEPT ![c] = TRUE]

\* Some units are run; the call may come back once none is left.
Advance(c) ==
  /\ calling[c]
  /\ \E rest \in SUBSET left[c] : \E stays \in BOOLEAN :
       /\ rest # {} => stays
       /\ left' = [left EXCEPT ![c] = rest]
       /\ calling' = [calling EXCEPT ![c] = stays]

Next == \E c \in Callers : Call(c) \/ Advance(c)

Spec == Init /\ [][Next]_vars
=============================================================================
