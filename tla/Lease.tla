------------------------------- MODULE Lease -------------------------------
(***************************************************************************)
(* What the replicas of a model promise to the requests that generate      *)
(* (the gate of slots.py): a replica is let to one request at a time, and  *)
(* comes back before it is let again.                                      *)
(***************************************************************************)
CONSTANTS Slots, Requests

VARIABLE holders   \* holders[s]: the requests that hold replica s

LeaseInit == holders = [s \in Slots |-> {}]

Let(s, r) ==
  /\ holders[s] = {}
  /\ holders' = [holders EXCEPT ![s] = {r}]

GiveBack(s) ==
  /\ holders[s] # {}
  /\ holders' = [holders EXCEPT ![s] = {}]

LeaseNext == \E s \in Slots : GiveBack(s) \/ \E r \in Requests : Let(s, r)

Spec == LeaseInit /\ [][LeaseNext]_holders
=============================================================================
