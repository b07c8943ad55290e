------------------------ MODULE MCConfigPublication ------------------------
(* Model values and symmetry for the TLC runs of ConfigPublication. *)
EXTENDS ConfigPublication, TLC

Symmetry == Permutations(Slot) \cup Permutations(Instance) \cup Permutations(Broker)

(* A process has a packet out whose wait has timed out, and its next one. *)
Overlap == \E i \in Instance : Cardinality({s \in Slot : attempt[s].owner = i}) > 1

(* One move, crash, failed completion or publication that overlaps its retry; or
   the gateway moves twice while its first revision is desired. *)
Disturbances ==
  \/ moves + faults + (IF Overlap THEN 1 ELSE 0) <= 1
  \/ moves = 2 /\ faults = 0 /\ ~Overlap /\ desired = 1
=============================================================================
