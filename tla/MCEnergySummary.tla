-------------------------- MODULE MCEnergySummary --------------------------
(* Two register values, and a second mapping that reads the later one. *)
EXTENDS EnergySummary
CONSTANTS m, n

Readings == {[kwh |-> 0, mapping |-> m], [kwh |-> 1, mapping |-> m],
             [kwh |-> 1, mapping |-> n]}
=============================================================================
