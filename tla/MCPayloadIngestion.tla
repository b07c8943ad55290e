------------------------- MODULE MCPayloadIngestion -------------------------
(* Symmetry and bounds for the TLC run of PayloadIngestion. *)
EXTENDS PayloadIngestion, TLC

HandlerSymmetry == Permutations(Handler)

(* No reports but those that activate, and no proposals but those that can be
   approved and change something: the others do not matter to telemetry. *)
OnlyActivations ==
  /\ configState \notin {"drifted", "failed"}
  /\ acknowledged <= applied
  /\ \A p \in Proposal :
       /\ proposal[p].status # "rejected"
       /\ proposal[p].status = "pending" =>
            proposal[p].base = applied /\ proposal[p].plan # plan[applied]

(* A message names a version or a profile, or neither. *)
NamesOne ==
  \A h \in Handler : handler[h] # Idle =>
    handler[h].body.version = 0 \/ handler[h].body.hint = NoProfile

(* Two messages are handled at once while none was acknowledged and no proposal
   waits; neither names a profile or a version that is not active. *)
PlainPairs ==
  (\A h \in Handler : handler[h] # Idle) =>
    /\ \A h \in Handler : /\ handler[h].body.hint = NoProfile
                          /\ handler[h].body.version \in {0, handler[h].applied}
    /\ \A p \in Proposal : proposal[p].status # "pending"
    /\ acked = {}

Disturbances == OnlyActivations /\ NamesOne /\ PlainPairs
=============================================================================
