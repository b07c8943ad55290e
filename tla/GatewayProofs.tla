---------------------------- MODULE GatewayProofs ----------------------------
(* Theorems of GatewayConfiguration, for every set of devices, decoders, links and
   proposals and every number of revisions: each action gets a lemma for the types
   and one for IInv.  In the second part, theorems of PayloadIngestion, for every
   set of handlers and messages: it is a run of the configuration in which
   telemetry comes in, so the theorems of GatewayConfiguration hold of it; and what
   is stored is decoded by its version, right at the commit and stored before it is
   acknowledged. *)
EXTENDS PayloadIngestion, TLAPS

Pinned == Profile \cup {NoProfile}
USE DEF Pinned

(* What applyDevices pins is a profile of each device, or none. *)
LEMMA MaterialisedType ==
  ASSUME TypeOK, NEW pl \in Plan, NEW v \in Version
  PROVE  Materialised(pl, v) \in [Device -> Pinned]
<1> SUFFICES ASSUME NEW d \in Device
             PROVE  (IF pl[d] = Off THEN NoProfile
                     ELSE IF SameDecoder(d, pl[d]) THEN profile[d]
                     ELSE [since |-> v, decoder |-> pl[d].decoder]) \in Pinned
  BY DEF Materialised
<1>1. profile[d] \in Pinned BY DEF TypeOK
<1>2. CASE pl[d] = Off BY <1>2
<1>3. CASE pl[d] # Off
  <2>1. pl[d].decoder \in Decoder BY <1>3 DEF Plan, Setting
  <2>2. v \in 0 .. MaxVersion BY ConstantsAssumption DEF Version
  <2>3. [since |-> v, decoder |-> pl[d].decoder] \in Profile BY <2>1, <2>2 DEF Profile
  <2>. QED BY <1>1, <1>3, <2>3
<1>. QED BY <1>2, <1>3

(* bindAppliedDevices changes the row of one version, to profiles or nothing. *)
LEMMA BoundType ==
  ASSUME TypeOK, NEW pl \in Plan, NEW v \in Version, NEW pinned \in [Device -> Pinned]
  PROVE  Bound(pl, v, pinned) \in [Version -> [Device -> Pinned]]
<1>1. binding \in [Version -> [Device -> Pinned]] BY DEF TypeOK
<1> DEFINE row == [d \in Device |->
     IF /\ binding[v][d] = NoProfile
        /\ pl[d] # Off
        /\ pinned[d] # NoProfile
        /\ pinned[d].decoder = pl[d].decoder
       THEN pinned[d] ELSE binding[v][d]]
<1>2. row \in [Device -> Pinned] BY <1>1
<1>3. Bound(pl, v, pinned) = [binding EXCEPT ![v] = row] BY DEF Bound
<1> HIDE DEF row
<1>. QED BY <1>1, <1>2, <1>3

(* A saved revision keeps the revisions well typed. *)
LEMMA SaveRevisionType ==
  ASSUME TypeOK, NEW pl \in Plan, SaveRevision(pl)
  PROVE  /\ desired + 1 \in Version
         /\ desired' = desired + 1
         /\ desired' \in 0 .. MaxVersion
         /\ plan' \in [Version -> Plan \cup {NoPlan}]
<1>1. desired \in 0 .. MaxVersion /\ desired < MaxVersion /\ desired' = desired + 1
  BY DEF TypeOK, SaveRevision
<1>2. desired + 1 \in Version /\ desired + 1 \in 0 .. MaxVersion
  BY <1>1, ConstantsAssumption DEF Version
<1>3. plan' \in [Version -> Plan \cup {NoPlan}] BY DEF TypeOK, SaveRevision
<1>. QED BY <1>1, <1>2, <1>3

LEMMA OnboardingType == ASSUME TypeOK, Onboarding PROVE TypeOK'
<1> PICK pl \in Plan : Confirm(pl) \/ CorrectInitialConfig(pl) \/ AdoptExisting(pl)
  BY DEF Onboarding
<1>0. SaveRevision(pl) BY DEF Confirm, CorrectInitialConfig, AdoptExisting
<1>1. /\ desired + 1 \in Version /\ desired' = desired + 1
      /\ desired' \in 0 .. MaxVersion
      /\ plan' \in [Version -> Plan \cup {NoPlan}]
  BY <1>0, SaveRevisionType
<1>2. CASE Confirm(pl)
  <2>1. 1 \in Version /\ 1 \in 0 .. MaxVersion
    BY <1>1, ConstantsAssumption DEF Version, TypeOK
  <2>2. profile' \in [Device -> Pinned] BY <1>2, <2>1, MaterialisedType DEF Confirm
  <2>3. binding' \in [Version -> [Device -> Pinned]]
    BY <1>2, <2>1, <2>2, BoundType DEF Confirm
  <2>4. /\ lifecycle' \in {"unassigned", "configuring", "active"}
        /\ configState' \in {"pending_sync", "applied", "failed", "drifted"}
        /\ applied' \in 0 .. MaxVersion
    BY <1>2, <2>1 DEF Confirm, TypeOK
  <2>. QED BY <1>1, <1>2, <2>2, <2>3, <2>4 DEF Confirm, TypeOK, billingVars
<1>3. CASE CorrectInitialConfig(pl)
  BY <1>1, <1>3 DEF CorrectInitialConfig, TypeOK, deviceVars, billingVars
<1>4. CASE AdoptExisting(pl)
  <2>1. profile' \in [Device -> Pinned] BY <1>1, <1>4, MaterialisedType DEF AdoptExisting
  <2>2. binding' \in [Version -> [Device -> Pinned]]
    BY <1>1, <1>4, <2>1, BoundType DEF AdoptExisting
  <2>. QED BY <1>1, <1>4, <2>1, <2>2 DEF AdoptExisting, TypeOK, billingVars
<1>. QED BY <1>2, <1>3, <1>4

LEMMA UpgradeType ==
  ASSUME TypeOK, NEW d \in Device, NEW revision \in Profile,
         UpgradePayloadProfile(d, revision)
  PROVE  TypeOK'
<1>1. desired + 1 \in 0 .. MaxVersion
  BY ConstantsAssumption DEF UpgradePayloadProfile, SnapshotGatewayConfiguration, TypeOK
<1>2. profile' \in [Device -> Pinned] BY DEF UpgradePayloadProfile, TypeOK
<1>. QED BY <1>1, <1>2
         DEF UpgradePayloadProfile, SnapshotGatewayConfiguration, TypeOK, billingVars

LEMMA LegacyType == ASSUME TypeOK, Legacy PROVE TypeOK'
<1>1. CASE \E d \in Device, revision \in Profile : UpgradePayloadProfile(d, revision)
  BY <1>1, UpgradeType
<1>2. CASE \E sent \in BOOLEAN : PublishGatewayConfiguration(sent)
  <2> PICK sent \in BOOLEAN : PublishGatewayConfiguration(sent) BY <1>2
  <2>1. desired + 1 \in Version /\ desired + 1 \in 0 .. MaxVersion /\ desired' = desired + 1
    BY ConstantsAssumption
       DEF PublishGatewayConfiguration, SnapshotGatewayConfiguration, TypeOK, Version
  <2>2. published' \subseteq Version BY <2>1 DEF PublishGatewayConfiguration, TypeOK
  <2>. QED BY <2>1, <2>2
           DEF PublishGatewayConfiguration, TypeOK, deviceVars, billingVars
<1>3. CASE \E v \in Version, done \in BOOLEAN : AcknowledgeGatewayConfiguration(v, done)
  <2> PICK v \in Version, done \in BOOLEAN : AcknowledgeGatewayConfiguration(v, done)
    BY <1>3
  <2>1. v \in 0 .. MaxVersion BY ConstantsAssumption DEF Version
  <2>2. acknowledged' \in 0 .. MaxVersion /\ applied' \in 0 .. MaxVersion
    BY <2>1 DEF AcknowledgeGatewayConfiguration, TypeOK
  <2>. QED BY <2>2 DEF AcknowledgeGatewayConfiguration, TypeOK, deviceVars, billingVars
<1>. QED BY <1>1, <1>2, <1>3 DEF Legacy

ProposalRow ==
  [status: {"none", "pending", "approved", "rejected"}, base: 0 .. MaxVersion,
   plan: Plan \cup {NoPlan}, version: 0 .. MaxVersion]

LEMMA ReviewType == ASSUME TypeOK, Review PROVE TypeOK'
<1>0. proposal \in [Proposal -> ProposalRow] BY DEF TypeOK, ProposalRow
<1> PICK p \in Proposal :
      \/ \E b \in Version, pl \in Plan : RecordProposal(p, b, pl)
      \/ ApproveProposal(p)
      \/ RejectProposal(p)
  BY DEF Review
<1>1. CASE \E b \in Version, pl \in Plan : RecordProposal(p, b, pl)
  <2> PICK b \in Version, pl \in Plan : RecordProposal(p, b, pl) BY <1>1
  <2>1. b \in 0 .. MaxVersion BY ConstantsAssumption DEF Version
  <2>2. [status |-> "pending", base |-> b, plan |-> pl, version |-> 0] \in ProposalRow
    BY <2>1, ConstantsAssumption DEF ProposalRow
  <2> DEFINE row == [status |-> "pending", base |-> b, plan |-> pl, version |-> 0]
  <2>3. proposal' = [proposal EXCEPT ![p] = row] BY DEF RecordProposal
  <2> HIDE DEF row
  <2>4. proposal' \in [Proposal -> ProposalRow] BY <1>0, <2>2, <2>3 DEF row
  <2>. QED BY <2>4 DEF RecordProposal, TypeOK, ProposalRow, deviceVars, billingVars
<1>2. CASE ApproveProposal(p)
  <2>1. proposal[p] \in ProposalRow /\ SaveRevision(proposal[p].plan)
    BY <1>0, <1>2 DEF ApproveProposal
  <2>2. desired + 1 \in 0 .. MaxVersion /\ desired' = desired + 1
    BY <2>1, ConstantsAssumption DEF SaveRevision, TypeOK
  <2>3. proposal[p].plan \in Plan \cup {NoPlan} BY <2>1 DEF ProposalRow
  <2>4. plan' \in [Version -> Plan \cup {NoPlan}] BY <2>1, <2>3 DEF SaveRevision, TypeOK
  <2>5. [proposal[p] EXCEPT !.status = "approved", !.version = desired + 1] \in ProposalRow
    BY <2>1, <2>2 DEF ProposalRow
  <2> DEFINE row == [proposal[p] EXCEPT !.status = "approved", !.version = desired + 1]
  <2>6. proposal' = [proposal EXCEPT ![p] = row] BY <1>2 DEF ApproveProposal
  <2> HIDE DEF row
  <2>7. proposal' \in [Proposal -> ProposalRow] BY <1>0, <2>5, <2>6 DEF row
  <2>. QED BY <1>2, <2>2, <2>4, <2>7
           DEF ApproveProposal, TypeOK, ProposalRow, deviceVars, billingVars
<1>3. CASE RejectProposal(p)
  <2>1. [proposal[p] EXCEPT !.status = "rejected"] \in ProposalRow BY <1>0 DEF ProposalRow
  <2> DEFINE row == [proposal[p] EXCEPT !.status = "rejected"]
  <2>2. proposal' = [proposal EXCEPT ![p] = row] BY <1>3 DEF RejectProposal
  <2> HIDE DEF row
  <2>3. proposal' \in [Proposal -> ProposalRow] BY <1>0, <2>1, <2>2 DEF row
  <2>. QED BY <1>3, <2>3 DEF RejectProposal, TypeOK, ProposalRow, deviceVars, billingVars
<1>. QED BY <1>1, <1>2, <1>3

(* An issued version's plan is a plan. *)
LEMMA MatchingPlan ==
  ASSUME TypeOK, NEW v, v \in Version, plan[v] # NoPlan
  PROVE  plan[v] \in Plan
BY DEF TypeOK

LEMMA AcknowledgeType ==
  ASSUME TypeOK, NEW v, Matching(v), Acknowledge(v)
  PROVE  acknowledged' \in 0 .. MaxVersion
BY ConstantsAssumption DEF TypeOK, Matching, Acknowledge, Version

LEMMA ReportType == ASSUME TypeOK, Report PROVE TypeOK'
<1> PICK v \in 0 .. desired :
      \/ \E status \in {"received", "applied", "failed"} : ReportMismatch(status, v)
      \/ ReportFailed(v)
      \/ ReportReceived(v)
      \/ ReportAppliedAgain(v)
      \/ Activate(v)
      \/ ReportRedelivered(v)
      \/ ReportConnection(v)
  BY DEF Report
<1>0. v \in 0 .. MaxVersion /\ reported \cup {v} \subseteq 0 .. MaxVersion
  BY ConstantsAssumption DEF TypeOK
<1>1. CASE \E status \in {"received", "applied", "failed"} : ReportMismatch(status, v)
  BY <1>0, <1>1 DEF ReportMismatch, TypeOK, deviceVars, billingVars
<1>2. CASE ReportFailed(v)
  BY <1>2 DEF ReportFailed, TypeOK, deviceVars, billingVars
<1>3. CASE ReportReceived(v)
  <2>1. acknowledged' \in 0 .. MaxVersion BY <1>3, AcknowledgeType DEF ReportReceived
  <2>. QED BY <1>3, <2>1 DEF ReportReceived, TypeOK, deviceVars, billingVars
<1>4. CASE ReportAppliedAgain(v)
  <2>1. acknowledged' \in 0 .. MaxVersion
    BY <1>4, AcknowledgeType DEF ReportAppliedAgain
  <2>2. v \in Version /\ plan[v] \in Plan
    BY <1>4, MatchingPlan DEF ReportAppliedAgain, Matching
  <2>3. profile \in [Device -> Pinned] BY DEF TypeOK
  <2>4. binding' \in [Version -> [Device -> Pinned]]
    BY <1>4, <2>2, <2>3, BoundType DEF ReportAppliedAgain
  <2>. QED BY <1>0, <1>4, <2>1, <2>4 DEF ReportAppliedAgain, TypeOK, billingVars
<1>5. CASE Activate(v)
  <2>1. acknowledged' \in 0 .. MaxVersion BY <1>5, AcknowledgeType DEF Activate
  <2>2. v \in Version /\ plan[v] \in Plan
    BY <1>5, MatchingPlan DEF Activate, Matching
  <2>3. profile' \in [Device -> Pinned] BY <1>5, <2>2, MaterialisedType DEF Activate
  <2>4. binding' \in [Version -> [Device -> Pinned]]
    BY <1>5, <2>2, <2>3, BoundType DEF Activate
  <2>. QED BY <1>0, <1>5, <2>1, <2>3, <2>4 DEF Activate, TypeOK, billingVars
<1>6. CASE ReportRedelivered(v)
  <2>2. v \in Version /\ plan[v] \in Plan
    BY <1>6, MatchingPlan DEF ReportRedelivered
  <2>3. profile \in [Device -> Pinned] BY DEF TypeOK
  <2>4. binding' \in [Version -> [Device -> Pinned]]
    BY <1>6, <2>2, <2>3, BoundType DEF ReportRedelivered
  <2>. QED BY <1>6, <2>4 DEF ReportRedelivered, TypeOK, billingVars
<1>7. CASE ReportConnection(v)
  BY <1>7 DEF ReportConnection, TypeOK, deviceVars, billingVars
<1>. QED BY <1>1, <1>2, <1>3, <1>4, <1>5, <1>6, <1>7

LEMMA BillingType == ASSUME TypeOK, Billing PROVE TypeOK'
<1> PICK d \in Device : BindBillingSource(d) BY DEF Billing
<1>1. profile[d] \in Pinned BY DEF TypeOK
<1>. QED BY <1>1 DEF BindBillingSource, TypeOK, deviceVars

LEMMA InitType == Init => TypeOK
<1> SUFFICES ASSUME Init PROVE TypeOK OBVIOUS
<1>1. 0 \in 0 .. MaxVersion BY ConstantsAssumption
<1>2. profile \in [Device -> Pinned]
  <2>1. [since: {0}, decoder: Decoder] \subseteq Profile BY <1>1 DEF Profile
  <2>. QED BY <2>1 DEF Init
<1>3. NoProposal \in ProposalRow BY <1>1 DEF NoProposal, ProposalRow
<1>4. proposal \in [Proposal -> ProposalRow] BY <1>3 DEF Init
<1>5. meter \in Device \cup {NoDevice} /\ source \in Pinned
  BY <1>2 DEF Init, LegacyMeter
<1>. QED BY <1>1, <1>2, <1>4, <1>5 DEF Init, TypeOK, ProposalRow

LEMMA NextType == TypeOK /\ [Next]_vars => TypeOK'
<1> SUFFICES ASSUME TypeOK, [Next]_vars PROVE TypeOK' OBVIOUS
<1>1. CASE Next
  BY <1>1, OnboardingType, LegacyType, ReviewType, ReportType, BillingType DEF Next
<1>2. CASE UNCHANGED vars BY <1>2 DEF vars, TypeOK
<1>. QED BY <1>1, <1>2

(* Every reachable state is well typed: versions stay in range and the rows of
   the control plane well formed, whatever the operations interleave. *)
THEOREM TypeCorrect == Spec => []TypeOK
BY InitType, NextType, PTL DEF Spec

-----------------------------------------------------------------------------
(* The inductive invariant *)

(* A revision put in force: every device it enables is pinned to a profile that
   decodes what it configures, the others to none, and the version is bound to
   exactly those profiles, provided what is bound to it already agrees. *)
LEMMA InForce ==
  ASSUME TypeOK, NEW pl \in Plan, NEW v \in Version,
         \A d \in Device : binding[v][d] # NoProfile =>
            pl[d] # Off /\ pl[d].decoder = binding[v][d].decoder /\ binding[v][d] = profile[d]
  PROVE  /\ \A d \in Device :
              IF pl[d] = Off THEN Materialised(pl, v)[d] = NoProfile
              ELSE /\ Materialised(pl, v)[d] # NoProfile
                   /\ Materialised(pl, v)[d].decoder = pl[d].decoder
         /\ Bound(pl, v, Materialised(pl, v))[v] = Materialised(pl, v)
         /\ \A w \in Version \ {v} : Bound(pl, v, Materialised(pl, v))[w] = binding[w]
<1> DEFINE P == Materialised(pl, v)
<1>1. P \in [Device -> Pinned] BY MaterialisedType
<1>2. ASSUME NEW d \in Device
      PROVE  IF pl[d] = Off THEN P[d] = NoProfile
             ELSE P[d] # NoProfile /\ P[d].decoder = pl[d].decoder
  <2>1. CASE pl[d] = Off BY <2>1 DEF Materialised
  <2>2. CASE pl[d] # Off /\ SameDecoder(d, pl[d])
    BY <2>2 DEF Materialised, SameDecoder
  <2>3. CASE pl[d] # Off /\ ~SameDecoder(d, pl[d])
    <3>1. pl[d].decoder \in Decoder /\ v \in 0 .. MaxVersion
      BY <2>3, ConstantsAssumption DEF Plan, Setting, Version
    <3>2. [since |-> v, decoder |-> pl[d].decoder] \in Profile BY <3>1 DEF Profile
    <3>3. P[d] = [since |-> v, decoder |-> pl[d].decoder] BY <2>3 DEF Materialised
    <3>. QED BY <2>3, <3>2, <3>3, NullsAssumption
  <2>. QED BY <2>1, <2>2, <2>3
<1>3. ASSUME NEW d \in Device, binding[v][d] # NoProfile PROVE binding[v][d] = P[d]
  BY <1>3 DEF Materialised, SameDecoder
<1> DEFINE row == [d \in Device |->
     IF /\ binding[v][d] = NoProfile
        /\ pl[d] # Off
        /\ P[d] # NoProfile
        /\ P[d].decoder = pl[d].decoder
       THEN P[d] ELSE binding[v][d]]
<1>4. Bound(pl, v, P) = [binding EXCEPT ![v] = row] BY DEF Bound
<1> HIDE DEF P
<1>5. row = P
  <2>1. \A d \in Device : row[d] = P[d] BY <1>2, <1>3
  <2>. QED BY <1>1, <2>1
<1> HIDE DEF row
<1>6. binding \in [Version -> [Device -> Pinned]] BY DEF TypeOK
<1>7. Bound(pl, v, P)[v] = P /\ \A w \in Version \ {v} : Bound(pl, v, P)[w] = binding[w]
  BY <1>4, <1>5, <1>6
<1>. QED BY <1>2, <1>7 DEF P

(* Binding the active version again adds nothing. *)
LEMMA BoundAlready ==
  ASSUME TypeOK, ActiveVersionIsBound, PlanActive, applied \in Version
  PROVE  Bound(plan[applied], applied, profile) = binding
<1> DEFINE row == [d \in Device |->
     IF /\ binding[applied][d] = NoProfile
        /\ plan[applied][d] # Off
        /\ profile[d] # NoProfile
        /\ profile[d].decoder = plan[applied][d].decoder
       THEN profile[d] ELSE binding[applied][d]]
<1>1. binding[applied] = profile /\ profile \in [Device -> Pinned]
  BY DEF ActiveVersionIsBound, TypeOK
<1>2. row = profile
  <2>1. \A d \in Device : row[d] = profile[d] BY <1>1
  <2>. QED BY <1>1, <2>1
<1>3. Bound(plan[applied], applied, profile) = [binding EXCEPT ![applied] = row]
  BY DEF Bound
<1> HIDE DEF row
<1>4. binding \in [Version -> [Device -> Pinned]] BY DEF TypeOK
<1>. QED BY <1>1, <1>2, <1>3, <1>4

(* A saved revision is the newest one; the others stay. *)
LEMMA Saved ==
  ASSUME TypeOK, RevisionsInOrder, NEW pl, SaveRevision(pl)
  PROVE  /\ desired + 1 \in Version /\ desired' = desired + 1
         /\ plan[desired + 1] = NoPlan
         /\ plan'[desired + 1] = pl
         /\ \A w \in Version : w # desired + 1 => plan'[w] = plan[w]
         /\ \A w \in Version : w > desired' => plan'[w] = NoPlan /\ w \notin published
<1>1. desired + 1 \in Version /\ desired' = desired + 1 /\ desired \in 0 .. MaxVersion
  BY ConstantsAssumption DEF TypeOK, SaveRevision, Version
<1>2. plan' = [plan EXCEPT ![desired + 1] = pl] /\ plan \in [Version -> Plan \cup {NoPlan}]
  BY DEF SaveRevision, TypeOK
<1>3. \A w \in Version : w \in Int BY ConstantsAssumption DEF Version
<1>4. \A w \in Version : w # desired + 1 => plan'[w] = plan[w]
  BY <1>1, <1>2
<1>5. plan'[desired + 1] = pl BY <1>1, <1>2
<1>6. plan[desired + 1] = NoPlan BY <1>1 DEF RevisionsInOrder
<1>7. \A w \in Version : w > desired' => plan'[w] = NoPlan /\ w \notin published
  BY <1>1, <1>3, <1>4 DEF RevisionsInOrder
<1>. QED BY <1>1, <1>4, <1>5, <1>6, <1>7

(* A revision that is saved and not yet in force changes nothing that the
   invariant says of the devices and their bindings. *)
LEMMA SavedOnly ==
  ASSUME TypeOK, IInv, NEW pl, SaveRevision(pl),
         UNCHANGED <<lifecycle, applied, profile, binding, published>>
  PROVE  RevisionsInOrder' /\ ActiveMatchesDevices' /\ ActiveVersionIsBound' /\ BindingsDecode'
<1>1. /\ desired + 1 \in Version /\ desired' = desired + 1
      /\ plan[desired + 1] = NoPlan
      /\ \A w \in Version : w # desired + 1 => plan'[w] = plan[w]
      /\ \A w \in Version : w > desired' => plan'[w] = NoPlan /\ w \notin published
  BY Saved DEF IInv
<1>2. applied \in 0 .. MaxVersion /\ desired \in 0 .. MaxVersion /\ applied <= desired
  BY DEF TypeOK, IInv, RevisionsInOrder
<1>3. applied > 0 => applied \in Version /\ plan'[applied] = plan[applied]
  BY <1>1, <1>2, ConstantsAssumption DEF Version
<1>4. RevisionsInOrder'
  BY <1>1, <1>2, <1>3 DEF IInv, RevisionsInOrder
<1>5. ActiveMatchesDevices'
  BY <1>3 DEF IInv, ActiveMatchesDevices, PlanActive, SameDecoder
<1>6. ActiveVersionIsBound' BY <1>3 DEF IInv, ActiveVersionIsBound, PlanActive
<1>7. BindingsDecode'
  <2> SUFFICES ASSUME NEW w \in Version, NEW d \in Device, binding[w][d] # NoProfile
               PROVE  /\ plan'[w] # NoPlan
                      /\ plan'[w][d] # Off
                      /\ plan'[w][d].decoder = binding[w][d].decoder
                      /\ w > applied => lifecycle = "configuring" /\ binding[w][d] = profile[d]
    BY DEF BindingsDecode
  <2>1. /\ plan[w] # NoPlan /\ plan[w][d] # Off
        /\ plan[w][d].decoder = binding[w][d].decoder
        /\ w > applied => lifecycle = "configuring" /\ binding[w][d] = profile[d]
    BY DEF IInv, BindingsDecode
  <2>2. plan'[w] = plan[w] BY <1>1, <2>1
  <2>. QED BY <2>1, <2>2
<1>. QED BY <1>4, <1>5, <1>6, <1>7

(* Before the control plane issued a revision nothing is bound or approved. *)
LEMMA NotManaged ==
  ASSUME TypeOK, IInv, ~Managed
  PROVE  /\ ~PlanActive
         /\ \A w \in Version, d \in Device : binding[w][d] = NoProfile
         /\ \A p \in Proposal : proposal[p].status # "approved"
<1>1. \A w \in Version : plan[w] = NoPlan BY DEF Managed
<1>2. applied \in 0 .. MaxVersion /\ desired \in 0 .. MaxVersion BY DEF TypeOK
<1>3. applied > 0 => applied \in Version BY <1>2, ConstantsAssumption DEF Version
<1>4. 1 .. desired \subseteq Version BY <1>2, ConstantsAssumption DEF Version
<1>. QED BY <1>1, <1>3, <1>4
         DEF IInv, PlanActive, BindingsDecode, ApprovalsBasedOnActive

(* Proposals that were approved are about earlier revisions than a new one. *)
LEMMA ApprovalsPass ==
  ASSUME TypeOK, IInv, desired' = desired + 1, UNCHANGED proposal,
         \A w \in Version : w # desired + 1 => plan'[w] = plan[w]
  PROVE  ApprovalsBasedOnActive' /\ ProposalsWellFormed'
<1>1. desired \in 0 .. MaxVersion /\ 1 .. desired \subseteq Version
  BY ConstantsAssumption DEF TypeOK, Version
<1>2. ASSUME NEW p \in Proposal, proposal[p].status = "approved"
      PROVE  /\ proposal[p].version \in 1 .. desired'
             /\ plan'[proposal[p].version] # NoPlan
             /\ proposal[p].version # desired'
  BY <1>1, <1>2 DEF IInv, ApprovalsBasedOnActive
<1>. QED BY <1>2 DEF IInv, ApprovalsBasedOnActive, ProposalsWellFormed

LEMMA ConfirmInv ==
  ASSUME TypeOK, IInv, NEW pl \in Plan, Confirm(pl)
  PROVE  IInv'
<1>1. SaveRevision(pl) /\ desired = 0 /\ lifecycle = "unassigned"
  BY DEF Confirm, IInv, LifecycleMatches
<1>2. applied = 0 /\ UNCHANGED <<meter, source, proposal, published>>
  BY <1>1 DEF TypeOK, IInv, RevisionsInOrder, Confirm, billingVars
<1>3. /\ 1 \in Version /\ desired' = 1 /\ plan[1] = NoPlan /\ plan'[1] = pl
      /\ \A w \in Version : w # 1 => plan'[w] = plan[w]
      /\ \A w \in Version : w > 1 => plan'[w] = NoPlan /\ w \notin published
  BY <1>1, Saved DEF IInv
<1>4. \A w \in Version : plan[w] = NoPlan
  <2>1. \A w \in Version : w > 0 BY ConstantsAssumption DEF Version
  <2>. QED BY <1>1, <2>1 DEF IInv, RevisionsInOrder
<1>5. \A w \in Version, d \in Device : binding[w][d] = NoProfile
  BY <1>4 DEF IInv, BindingsDecode
<1>6. /\ \A d \in Device : IF pl[d] = Off THEN profile'[d] = NoProfile
                         ELSE profile'[d] # NoProfile /\ profile'[d].decoder = pl[d].decoder
      /\ binding'[1] = profile'
      /\ \A w \in Version \ {1} : binding'[w] = binding[w]
  BY <1>3, <1>5, InForce DEF Confirm
<1>7. /\ applied' \in {0, 1}
      /\ applied' = 0 => lifecycle' = "configuring" /\ configState' = "pending_sync"
      /\ applied' = 1 => lifecycle' = "active" /\ configState' = "applied"
  BY <1>2 DEF Confirm
<1>8. pl # NoPlan BY NullsAssumption
<1>9. RevisionsInOrder' BY <1>2, <1>3, <1>7 DEF RevisionsInOrder
<1>10. LifecycleMatches'
  BY <1>3, <1>7, <1>8 DEF LifecycleMatches, Managed
<1>11. ActiveMatchesDevices'
  BY <1>3, <1>6, <1>7 DEF ActiveMatchesDevices, PlanActive, SameDecoder
<1>12. ActiveVersionIsBound' BY <1>6, <1>7 DEF ActiveVersionIsBound, PlanActive
<1>13. BindingsDecode'
  <2> SUFFICES ASSUME NEW w \in Version, NEW d \in Device, binding'[w][d] # NoProfile
               PROVE  /\ plan'[w] # NoPlan
                      /\ plan'[w][d] # Off
                      /\ plan'[w][d].decoder = binding'[w][d].decoder
                      /\ w > applied' =>
                           lifecycle' = "configuring" /\ binding'[w][d] = profile'[d]
    BY DEF BindingsDecode
  <2>1. w = 1 BY <1>5, <1>6
  <2>2. binding'[w][d] = profile'[d] /\ profile'[d] # NoProfile BY <1>6, <2>1
  <2>3. w > applied' => lifecycle' = "configuring" BY <1>7, <2>1
  <2>. QED BY <1>3, <1>6, <1>8, <2>1, <2>2, <2>3
<1>14. SyncStateIsTruthful' BY <1>3, <1>7 DEF SyncStateIsTruthful
<1>15. MeterInService' BY <1>1, <1>2 DEF IInv, MeterInService
<1>16. ApprovalsBasedOnActive' /\ ProposalsWellFormed'
  BY <1>1, <1>2, <1>3, ApprovalsPass
<1>. QED BY <1>9, <1>10, <1>11, <1>12, <1>13, <1>14, <1>15, <1>16 DEF IInv

LEMMA CorrectInitialConfigInv ==
  ASSUME TypeOK, IInv, NEW pl \in Plan, CorrectInitialConfig(pl)
  PROVE  IInv'
<1>1. /\ SaveRevision(pl) /\ lifecycle = "configuring" /\ applied = 0
      /\ UNCHANGED <<lifecycle, applied, profile, binding, meter, source, proposal, published>>
      /\ configState' = "pending_sync"
  BY DEF CorrectInitialConfig, deviceVars, billingVars
<1>2. RevisionsInOrder' /\ ActiveMatchesDevices' /\ ActiveVersionIsBound' /\ BindingsDecode'
  BY <1>1, SavedOnly
<1>3. /\ desired + 1 \in Version /\ desired' = desired + 1 /\ plan'[desired + 1] = pl
      /\ \A w \in Version : w # desired + 1 => plan'[w] = plan[w]
  BY <1>1, Saved DEF IInv
<1>4. desired \in 0 .. MaxVersion BY DEF TypeOK
<1>5. LifecycleMatches'
  BY <1>1, <1>3, NullsAssumption DEF LifecycleMatches, Managed
<1>6. SyncStateIsTruthful' BY <1>1, <1>3, <1>4 DEF SyncStateIsTruthful
<1>7. MeterInService' BY <1>1 DEF IInv, MeterInService, PlanActive
<1>8. ApprovalsBasedOnActive' /\ ProposalsWellFormed' BY <1>1, <1>3, ApprovalsPass
<1>. QED BY <1>2, <1>5, <1>6, <1>7, <1>8 DEF IInv

LEMMA AdoptExistingInv ==
  ASSUME TypeOK, IInv, NEW pl \in Plan, AdoptExisting(pl)
  PROVE  IInv'
<1> DEFINE v == desired + 1
<1>1. /\ SaveRevision(pl) /\ lifecycle # "unassigned" /\ ~Managed /\ ContinuousPlan(pl)
      /\ applied' = v /\ lifecycle' = "active" /\ configState' = "applied"
      /\ UNCHANGED <<meter, source, proposal, published>>
  BY DEF AdoptExisting, billingVars
<1>2. \A w \in Version, d \in Device : binding[w][d] = NoProfile
  BY <1>1, NotManaged
<1>3. /\ v \in Version /\ desired' = v /\ plan'[v] = pl
      /\ \A w \in Version : w # v => plan'[w] = plan[w]
      /\ \A w \in Version : w > desired' => plan'[w] = NoPlan /\ w \notin published
  BY <1>1, Saved DEF IInv
<1>4. v > 0 BY <1>3, ConstantsAssumption DEF Version
<1>5. profile' = Materialised(pl, v) /\ binding' = Bound(pl, v, profile')
  BY DEF AdoptExisting
<1>. HIDE DEF v
<1>6. /\ \A d \in Device : IF pl[d] = Off THEN profile'[d] = NoProfile
                         ELSE profile'[d] # NoProfile /\ profile'[d].decoder = pl[d].decoder
      /\ binding'[v] = profile'
      /\ \A w \in Version \ {v} : binding'[w] = binding[w]
  BY <1>2, <1>3, <1>5, InForce
<1>7. pl # NoPlan BY NullsAssumption
<1>8. v \in Int BY <1>3, ConstantsAssumption DEF Version
<1>9. RevisionsInOrder'
  <2>1. \A w \in Version : w > desired' => plan'[w] = NoPlan /\ w \notin published'
    BY <1>1, <1>3
  <2>2. applied' <= desired' BY <1>1, <1>3, <1>8
  <2>. QED BY <2>1, <2>2 DEF RevisionsInOrder
<1>10. LifecycleMatches' BY <1>1, <1>4, <1>8 DEF LifecycleMatches
<1>11. ActiveMatchesDevices'
  BY <1>1, <1>3, <1>6 DEF ActiveMatchesDevices, PlanActive, SameDecoder
<1>12. ActiveVersionIsBound' BY <1>1, <1>6 DEF ActiveVersionIsBound, PlanActive
<1>13. BindingsDecode'
  <2> SUFFICES ASSUME NEW w \in Version, NEW d \in Device, binding'[w][d] # NoProfile
               PROVE  /\ plan'[w] # NoPlan
                      /\ plan'[w][d] # Off
                      /\ plan'[w][d].decoder = binding'[w][d].decoder
                      /\ w > applied' =>
                           lifecycle' = "configuring" /\ binding'[w][d] = profile'[d]
    BY DEF BindingsDecode
  <2>1. w = v BY <1>2, <1>6
  <2>2. binding'[w][d] = profile'[d] /\ profile'[d] # NoProfile BY <1>6, <2>1
  <2>3. ~(w > applied') BY <1>1, <1>8, <2>1
  <2>. QED BY <1>3, <1>6, <1>7, <2>1, <2>2, <2>3
<1>14. SyncStateIsTruthful' BY <1>1, <1>3, <1>8 DEF SyncStateIsTruthful
<1>15. MeterInService'
  <2>1. meter # NoDevice =>
          meter \in Device /\ pl[meter] # Off /\ pl[meter].decoder \in Metering
    BY <1>1 DEF TypeOK, ContinuousPlan
  <2>. QED BY <1>1, <1>6, <2>1 DEF MeterInService
<1>16. ApprovalsBasedOnActive' /\ ProposalsWellFormed'
  BY <1>1, <1>3, ApprovalsPass DEF v
<1>. QED BY <1>9, <1>10, <1>11, <1>12, <1>13, <1>14, <1>15, <1>16 DEF IInv

(* A legacy revision is desired, whatever happens to the profiles. *)
LEMMA SnapshotInv ==
  ASSUME TypeOK, IInv, SnapshotGatewayConfiguration, MeterInService',
         \A w \in Version : w > desired + 1 => w \notin published',
         UNCHANGED <<lifecycle, configState, applied, plan, binding, proposal>>
  PROVE  IInv'
<1>1. /\ lifecycle # "unassigned" /\ ~Managed /\ desired' = desired + 1
      /\ desired \in 0 .. MaxVersion /\ applied \in 0 .. MaxVersion
      /\ \A w \in Version : w \in Int
  BY ConstantsAssumption DEF SnapshotGatewayConfiguration, TypeOK, Version
<1>2. ~PlanActive /\ \A w \in Version, e \in Device : binding[w][e] = NoProfile
  BY <1>1, NotManaged
<1>3. \A w \in Version : plan'[w] = NoPlan BY <1>1 DEF Managed
<1>4. RevisionsInOrder' BY <1>1, <1>3 DEF IInv, RevisionsInOrder
<1>5. LifecycleMatches' BY <1>1 DEF IInv, LifecycleMatches, Managed
<1>6. ActiveMatchesDevices' /\ ActiveVersionIsBound'
  BY <1>2 DEF ActiveMatchesDevices, ActiveVersionIsBound, PlanActive
<1>7. BindingsDecode' BY <1>2 DEF BindingsDecode
<1>8. SyncStateIsTruthful' BY <1>3 DEF SyncStateIsTruthful, Managed
<1>9. ApprovalsBasedOnActive' /\ ProposalsWellFormed' BY <1>1, ApprovalsPass
<1>. QED BY <1>4, <1>5, <1>6, <1>7, <1>8, <1>9 DEF IInv

LEMMA UpgradeInv ==
  ASSUME TypeOK, IInv, NEW d \in Device, NEW revision \in Profile,
         UpgradePayloadProfile(d, revision)
  PROVE  IInv'
<1>1. /\ SnapshotGatewayConfiguration /\ ~Managed
      /\ desired \in 0 .. MaxVersion /\ desired < MaxVersion
      /\ meter = d => revision.decoder \in Metering
      /\ UNCHANGED <<lifecycle, configState, applied, plan, binding, meter, source,
                     proposal, published>>
  BY DEF UpgradePayloadProfile, SnapshotGatewayConfiguration, billingVars, TypeOK
<1>2. MeterInService'
  <2>1. profile \in [Device -> Pinned] /\ meter \in Device \cup {NoDevice} BY DEF TypeOK
  <2>2. profile' = [profile EXCEPT ![d] = revision] /\ revision # NoProfile
    BY NullsAssumption DEF UpgradePayloadProfile
  <2>3. ~PlanActive' BY <1>1, NotManaged DEF PlanActive
  <2>. QED BY <1>1, <2>1, <2>2, <2>3 DEF IInv, MeterInService
<1>3. \A w \in Version : w > desired + 1 => w \notin published'
  BY <1>1, ConstantsAssumption DEF IInv, RevisionsInOrder, Version
<1>. QED BY <1>1, <1>2, <1>3, SnapshotInv

LEMMA PublishInv ==
  ASSUME TypeOK, IInv, NEW sent \in BOOLEAN, PublishGatewayConfiguration(sent)
  PROVE  IInv'
<1>1. /\ SnapshotGatewayConfiguration /\ desired \in 0 .. MaxVersion
      /\ published' \subseteq published \cup {desired + 1}
      /\ UNCHANGED <<lifecycle, configState, applied, plan, profile, binding, meter, source,
                     proposal>>
  BY DEF PublishGatewayConfiguration, TypeOK, deviceVars, billingVars
<1>2. MeterInService' BY <1>1 DEF IInv, MeterInService, PlanActive
<1>3. \A w \in Version : w > desired + 1 => w \notin published'
  BY <1>1, ConstantsAssumption DEF IInv, RevisionsInOrder, Version
<1>. QED BY <1>1, <1>2, <1>3, SnapshotInv

LEMMA AcknowledgeInv ==
  ASSUME TypeOK, IInv, NEW v \in Version, NEW done \in BOOLEAN,
         AcknowledgeGatewayConfiguration(v, done)
  PROVE  IInv'
<1>1. /\ ~Managed /\ v \in published
      /\ applied' = IF done /\ applied < v THEN v ELSE applied
      /\ UNCHANGED <<lifecycle, configState, desired, plan, profile, binding, meter, source,
                     proposal, published>>
  BY DEF AcknowledgeGatewayConfiguration, deviceVars, billingVars
<1>2. /\ v <= desired /\ desired \in 0 .. MaxVersion /\ applied \in 0 .. MaxVersion
      /\ v \in Int
  BY <1>1, ConstantsAssumption DEF IInv, RevisionsInOrder, TypeOK, Version
<1>3. /\ \A w \in Version, e \in Device : binding[w][e] = NoProfile
      /\ \A p \in Proposal : proposal[p].status # "approved"
  BY <1>1, NotManaged
<1>4. ~PlanActive'
  <2>1. applied' > 0 => applied' \in Version
    BY <1>1, <1>2, ConstantsAssumption DEF Version
  <2>. QED BY <1>1, <2>1 DEF PlanActive, Managed
<1>5. RevisionsInOrder' BY <1>1, <1>2 DEF IInv, RevisionsInOrder
<1>6. LifecycleMatches' BY <1>1 DEF IInv, LifecycleMatches, Managed
<1>7. ActiveMatchesDevices' /\ ActiveVersionIsBound'
  BY <1>4 DEF ActiveMatchesDevices, ActiveVersionIsBound
<1>8. BindingsDecode' BY <1>1, <1>3 DEF BindingsDecode
<1>9. SyncStateIsTruthful' BY <1>1 DEF SyncStateIsTruthful, Managed
<1>10. MeterInService' BY <1>1, <1>4 DEF IInv, MeterInService
<1>11. ApprovalsBasedOnActive' /\ ProposalsWellFormed'
  BY <1>1, <1>3 DEF IInv, ApprovalsBasedOnActive, ProposalsWellFormed
<1>. QED BY <1>5, <1>6, <1>7, <1>8, <1>9, <1>10, <1>11 DEF IInv

LEMMA LegacyInv == ASSUME TypeOK, IInv, Legacy PROVE IInv'
BY UpgradeInv, PublishInv, AcknowledgeInv DEF Legacy

(* Steps that leave revisions, devices and bindings alone keep what the
   invariant says of them. *)
LEMMA Untouched ==
  ASSUME IInv, UNCHANGED <<lifecycle, desired, applied, plan, profile, binding, meter, source,
                          published>>
  PROVE  /\ RevisionsInOrder' /\ LifecycleMatches' /\ ActiveMatchesDevices'
         /\ ActiveVersionIsBound' /\ BindingsDecode' /\ MeterInService'
<1>1. RevisionsInOrder' BY DEF IInv, RevisionsInOrder
<1>2. LifecycleMatches' BY DEF IInv, LifecycleMatches, Managed
<1>3. ActiveMatchesDevices' BY DEF IInv, ActiveMatchesDevices, PlanActive, SameDecoder
<1>4. ActiveVersionIsBound' BY DEF IInv, ActiveVersionIsBound, PlanActive
<1>5. BindingsDecode' BY DEF IInv, BindingsDecode
<1>6. MeterInService' BY DEF IInv, MeterInService, PlanActive
<1>. QED BY <1>1, <1>2, <1>3, <1>4, <1>5, <1>6

LEMMA ProposalsUntouched ==
  ASSUME IInv, UNCHANGED <<desired, applied, plan, proposal>>
  PROVE  ApprovalsBasedOnActive' /\ ProposalsWellFormed'
BY DEF IInv, ApprovalsBasedOnActive, ProposalsWellFormed

LEMMA ApproveProposalInv ==
  ASSUME TypeOK, IInv, NEW p \in Proposal, ApproveProposal(p)
  PROVE  IInv'
<1>1. /\ SaveRevision(proposal[p].plan) /\ lifecycle = "active"
      /\ proposal[p].status = "pending" /\ proposal[p].base = applied
      /\ configState' = "pending_sync"
      /\ UNCHANGED <<lifecycle, applied, profile, binding, meter, source, published>>
  BY DEF ApproveProposal, deviceVars, billingVars
<1>2. RevisionsInOrder' /\ ActiveMatchesDevices' /\ ActiveVersionIsBound' /\ BindingsDecode'
  BY <1>1, SavedOnly
<1>3. /\ desired + 1 \in Version /\ desired' = desired + 1
      /\ desired \in 0 .. MaxVersion /\ applied \in 0 .. MaxVersion
      /\ plan'[desired + 1] = proposal[p].plan
      /\ \A w \in Version : w # desired + 1 => plan'[w] = plan[w]
  BY <1>1, Saved DEF IInv, TypeOK
<1>4. applied > 0 /\ applied <= desired /\ proposal[p].plan # NoPlan
  BY <1>1 DEF IInv, ProposalsWellFormed, RevisionsInOrder
<1>5. LifecycleMatches' BY <1>1, <1>4 DEF LifecycleMatches
<1>6. SyncStateIsTruthful' BY <1>1, <1>3, <1>4 DEF SyncStateIsTruthful
<1>7. MeterInService'
  <2>1. PlanActive' => PlanActive
    BY <1>1, <1>3, <1>4, ConstantsAssumption DEF PlanActive, Version
  <2>. QED BY <1>1, <2>1 DEF IInv, MeterInService
<1>8. ApprovalsBasedOnActive' /\ ProposalsWellFormed'
  <2>1. proposal \in [Proposal -> ProposalRow] BY DEF TypeOK, ProposalRow
  <2> DEFINE row == [proposal[p] EXCEPT !.status = "approved", !.version = desired + 1]
  <2>2. proposal' = [proposal EXCEPT ![p] = row] BY DEF ApproveProposal
  <2>3. /\ row.status = "approved" /\ row.version = desired + 1 /\ row.base = applied
        /\ row.plan = proposal[p].plan
    BY <1>1, <2>1 DEF ProposalRow
  <2> HIDE DEF row
  <2>4. proposal'[p] = row /\ \A q \in Proposal \ {p} : proposal'[q] = proposal[q]
    BY <2>1, <2>2
  <2>5. 1 .. desired \subseteq Version BY <1>3, ConstantsAssumption DEF Version
  <2>6. ASSUME NEW q \in Proposal \ {p}, proposal[q].status = "approved"
        PROVE  /\ proposal[q].version \in 1 .. desired'
               /\ plan'[proposal[q].version] # NoPlan
               /\ proposal[q].version # desired'
    BY <1>3, <2>5, <2>6 DEF IInv, ApprovalsBasedOnActive
  <2>7. ApprovalsBasedOnActive'
    BY <1>1, <1>3, <1>4, <2>3, <2>4, <2>6 DEF ApprovalsBasedOnActive
  <2>8. ProposalsWellFormed'
    BY <1>1, <1>4, <2>3, <2>4 DEF IInv, ProposalsWellFormed
  <2>. QED BY <2>7, <2>8
<1>. QED BY <1>2, <1>5, <1>6, <1>7, <1>8 DEF IInv

LEMMA ReviewInv == ASSUME TypeOK, IInv, Review PROVE IInv'
<1> PICK p \in Proposal :
      \/ \E b \in Version, pl \in Plan : RecordProposal(p, b, pl)
      \/ ApproveProposal(p)
      \/ RejectProposal(p)
  BY DEF Review
<1>0. proposal \in [Proposal -> ProposalRow] BY DEF TypeOK, ProposalRow
<1>1. CASE \E b \in Version, pl \in Plan : RecordProposal(p, b, pl)
  <2> PICK b \in Version, pl \in Plan : RecordProposal(p, b, pl) BY <1>1
  <2>1. UNCHANGED <<lifecycle, configState, desired, applied, plan, profile, binding, meter,
                    source, published>>
    BY DEF RecordProposal, deviceVars, billingVars
  <2> DEFINE row == [status |-> "pending", base |-> b, plan |-> pl, version |-> 0]
  <2>2. proposal' = [proposal EXCEPT ![p] = row] BY DEF RecordProposal
  <2>3. row.status = "pending" /\ row.base > 0 /\ row.plan # NoPlan
    BY ConstantsAssumption, NullsAssumption DEF Version
  <2> HIDE DEF row
  <2>4. proposal'[p] = row /\ \A q \in Proposal \ {p} : proposal'[q] = proposal[q]
    BY <1>0, <2>2
  <2>5. ApprovalsBasedOnActive' /\ ProposalsWellFormed'
    BY <2>1, <2>3, <2>4 DEF IInv, ApprovalsBasedOnActive, ProposalsWellFormed
  <2>6. SyncStateIsTruthful' BY <2>1 DEF IInv, SyncStateIsTruthful, Managed
  <2>. QED BY <2>1, <2>5, <2>6, Untouched DEF IInv
<1>2. CASE ApproveProposal(p) BY <1>2, ApproveProposalInv
<1>3. CASE RejectProposal(p)
  <2>1. UNCHANGED <<lifecycle, configState, desired, applied, plan, profile, binding, meter,
                    source, published>>
    BY <1>3 DEF RejectProposal, deviceVars, billingVars
  <2> DEFINE row == [proposal[p] EXCEPT !.status = "rejected"]
  <2>2. proposal' = [proposal EXCEPT ![p] = row] /\ proposal[p].status = "pending"
    BY <1>3 DEF RejectProposal
  <2>3. row.status = "rejected" /\ row.base = proposal[p].base /\ row.plan = proposal[p].plan
    BY <1>0 DEF ProposalRow
  <2> HIDE DEF row
  <2>4. proposal'[p] = row /\ \A q \in Proposal \ {p} : proposal'[q] = proposal[q]
    BY <1>0, <2>2
  <2>5. ApprovalsBasedOnActive' /\ ProposalsWellFormed'
    BY <2>1, <2>2, <2>3, <2>4 DEF IInv, ApprovalsBasedOnActive, ProposalsWellFormed
  <2>6. SyncStateIsTruthful' BY <2>1 DEF IInv, SyncStateIsTruthful, Managed
  <2>. QED BY <2>1, <2>5, <2>6, Untouched DEF IInv
<1>. QED BY <1>1, <1>2, <1>3

LEMMA ActivateInv ==
  ASSUME TypeOK, IInv, NEW v, Activate(v)
  PROVE  IInv'
<1>1. /\ v \in Version /\ v = desired /\ plan[v] # NoPlan /\ applied < v /\ ValidPlan(plan[v])
      /\ applied' = v /\ lifecycle' = "active" /\ configState' = "applied"
      /\ UNCHANGED <<desired, plan, meter, source, proposal, published>>
  BY DEF Activate, Matching, billingVars
<1>2. plan[v] \in Plan BY <1>1, MatchingPlan
<1>3. profile' = Materialised(plan[v], v) /\ binding' = Bound(plan[v], v, profile')
  BY DEF Activate
<1>4. \A d \in Device : binding[v][d] # NoProfile =>
        /\ plan[v][d] # Off /\ plan[v][d].decoder = binding[v][d].decoder
        /\ binding[v][d] = profile[d]
  BY <1>1 DEF IInv, BindingsDecode
<1>5. /\ \A d \in Device : IF plan[v][d] = Off THEN profile'[d] = NoProfile
            ELSE profile'[d] # NoProfile /\ profile'[d].decoder = plan[v][d].decoder
      /\ binding'[v] = profile'
      /\ \A w \in Version \ {v} : binding'[w] = binding[w]
  BY <1>1, <1>2, <1>3, <1>4, InForce
<1>6. v \in Int /\ v > 0 BY <1>1, ConstantsAssumption DEF Version
<1>7. RevisionsInOrder' BY <1>1, <1>6 DEF IInv, RevisionsInOrder
<1>8. LifecycleMatches' BY <1>1, <1>6 DEF LifecycleMatches
<1>9. ActiveMatchesDevices' BY <1>1, <1>5 DEF ActiveMatchesDevices, PlanActive, SameDecoder
<1>10. ActiveVersionIsBound' BY <1>1, <1>5 DEF ActiveVersionIsBound, PlanActive
<1>11. BindingsDecode'
  <2> SUFFICES ASSUME NEW w \in Version, NEW d \in Device, binding'[w][d] # NoProfile
               PROVE  /\ plan[w] # NoPlan
                      /\ plan[w][d] # Off
                      /\ plan[w][d].decoder = binding'[w][d].decoder
                      /\ ~(w > v)
    BY <1>1 DEF BindingsDecode
  <2>1. CASE w = v
    <3>1. binding'[w][d] = profile'[d] /\ profile'[d] # NoProfile BY <1>5, <2>1
    <3>. QED BY <1>1, <1>5, <1>6, <2>1, <3>1
  <2>2. CASE w # v
    <3>1. binding[w][d] # NoProfile /\ binding'[w][d] = binding[w][d] BY <1>5, <2>2
    <3>2. /\ plan[w] # NoPlan /\ plan[w][d] # Off
          /\ plan[w][d].decoder = binding[w][d].decoder
      BY <3>1 DEF IInv, BindingsDecode
    <3>3. ~(w > v) BY <1>1, <3>2 DEF IInv, RevisionsInOrder
    <3>. QED BY <3>1, <3>2, <3>3
  <2>. QED BY <2>1, <2>2
<1>12. SyncStateIsTruthful' BY <1>1, <1>6 DEF SyncStateIsTruthful
<1>13. MeterInService'
  <2>1. meter # NoDevice =>
          meter \in Device /\ plan[v][meter] # Off /\ plan[v][meter].decoder \in Metering
    BY <1>1 DEF TypeOK, ValidPlan, ContinuousPlan
  <2>. QED BY <1>1, <1>5, <2>1 DEF IInv, MeterInService
<1>14. ApprovalsBasedOnActive' /\ ProposalsWellFormed'
  BY <1>1, <1>6 DEF IInv, ApprovalsBasedOnActive, ProposalsWellFormed
<1>. QED BY <1>7, <1>8, <1>9, <1>10, <1>11, <1>12, <1>13, <1>14 DEF IInv

(* A report of the active revision, new or redelivered, binds nothing new. *)
LEMMA BoundAgain ==
  ASSUME TypeOK, IInv, NEW v,
         ReportAppliedAgain(v) \/ ReportRedelivered(v)
  PROVE  v = applied /\ binding' = binding
<1>1. v \in Version /\ v = applied /\ plan[v] # NoPlan /\ binding' = Bound(plan[v], v, profile)
  <2>1. CASE ReportAppliedAgain(v)
    <3>1. v \in Version /\ v = desired /\ plan[v] # NoPlan /\ applied >= v
      BY <2>1 DEF ReportAppliedAgain, Matching
    <3>2. applied <= desired /\ applied \in Int /\ desired \in Int
      BY DEF IInv, RevisionsInOrder, TypeOK
    <3>. QED BY <2>1, <3>1, <3>2 DEF ReportAppliedAgain
  <2>2. CASE ReportRedelivered(v) BY <2>2 DEF ReportRedelivered
  <2>. QED BY <2>1, <2>2
<1>2. PlanActive BY <1>1, ConstantsAssumption DEF PlanActive, Version
<1>. QED BY <1>1, <1>2, BoundAlready DEF IInv

LEMMA ReportInv == ASSUME TypeOK, IInv, Report PROVE IInv'
<1> PICK v \in 0 .. desired :
      \/ \E status \in {"received", "applied", "failed"} : ReportMismatch(status, v)
      \/ ReportFailed(v)
      \/ ReportReceived(v)
      \/ ReportAppliedAgain(v)
      \/ Activate(v)
      \/ ReportRedelivered(v)
      \/ ReportConnection(v)
  BY DEF Report
<1>0. applied <= desired /\ applied \in 0 .. MaxVersion /\ desired \in 0 .. MaxVersion
  BY DEF IInv, RevisionsInOrder, TypeOK
<1>1. CASE \/ \E status \in {"received", "applied", "failed"} : ReportMismatch(status, v)
           \/ ReportConnection(v)
  <2>1. /\ UNCHANGED <<lifecycle, desired, applied, plan, profile, binding, meter, source,
                       proposal, published>>
        /\ configState' = "drifted"
    BY <1>1 DEF ReportMismatch, ReportConnection, deviceVars, billingVars
  <2>2. SyncStateIsTruthful' BY <2>1 DEF SyncStateIsTruthful
  <2>. QED BY <2>1, <2>2, Untouched, ProposalsUntouched DEF IInv
<1>2. CASE ReportFailed(v)
  <2>1. /\ UNCHANGED <<lifecycle, desired, applied, plan, profile, binding, meter, source,
                       proposal, published>>
        /\ v = desired /\ configState' = IF applied < v THEN "failed" ELSE configState
    BY <1>2 DEF ReportFailed, Matching, deviceVars, billingVars
  <2>2. SyncStateIsTruthful' BY <2>1 DEF IInv, SyncStateIsTruthful, Managed
  <2>. QED BY <2>1, <2>2, Untouched, ProposalsUntouched DEF IInv
<1>3. CASE ReportReceived(v)
  <2>1. UNCHANGED <<lifecycle, configState, desired, applied, plan, profile, binding, meter,
                    source, proposal, published>>
    BY <1>3 DEF ReportReceived, deviceVars, billingVars
  <2>2. SyncStateIsTruthful' BY <2>1 DEF IInv, SyncStateIsTruthful, Managed
  <2>. QED BY <2>1, <2>2, Untouched, ProposalsUntouched DEF IInv
<1>4. CASE ReportAppliedAgain(v)
  <2>1. /\ UNCHANGED <<lifecycle, desired, applied, plan, profile, binding, meter, source,
                       proposal, published>>
        /\ configState' = "applied" /\ v = desired /\ v = applied
    BY <1>4, BoundAgain DEF ReportAppliedAgain, Matching, billingVars
  <2>2. SyncStateIsTruthful' BY <2>1 DEF SyncStateIsTruthful
  <2>. QED BY <2>1, <2>2, Untouched, ProposalsUntouched DEF IInv
<1>5. CASE Activate(v) BY <1>5, ActivateInv
<1>6. CASE ReportRedelivered(v)
  <2>1. UNCHANGED <<lifecycle, configState, desired, applied, plan, profile, binding, meter,
                    source, proposal, published>>
    BY <1>6, BoundAgain DEF ReportRedelivered, billingVars
  <2>2. SyncStateIsTruthful' BY <2>1 DEF IInv, SyncStateIsTruthful, Managed
  <2>. QED BY <2>1, <2>2, Untouched, ProposalsUntouched DEF IInv
<1>. QED BY <1>1, <1>2, <1>3, <1>4, <1>5, <1>6

LEMMA BillingInv == ASSUME TypeOK, IInv, Billing PROVE IInv'
<1> PICK d \in Device : BindBillingSource(d) BY DEF Billing
<1>1. /\ UNCHANGED <<lifecycle, configState, desired, applied, plan, profile, binding, proposal,
                     published>>
      /\ lifecycle # "unassigned" /\ meter' = d
      /\ profile[d] # NoProfile /\ profile[d].decoder \in Metering
  BY DEF BindBillingSource, deviceVars
<1>2. RevisionsInOrder' BY <1>1 DEF IInv, RevisionsInOrder
<1>3. LifecycleMatches' BY <1>1 DEF IInv, LifecycleMatches, Managed
<1>4. ActiveMatchesDevices' BY <1>1 DEF IInv, ActiveMatchesDevices, PlanActive, SameDecoder
<1>5. ActiveVersionIsBound' BY <1>1 DEF IInv, ActiveVersionIsBound, PlanActive
<1>6. BindingsDecode' BY <1>1 DEF IInv, BindingsDecode
<1>7. SyncStateIsTruthful' BY <1>1 DEF IInv, SyncStateIsTruthful, Managed
<1>8. MeterInService' BY <1>1 DEF MeterInService
<1>. QED BY <1>1, <1>2, <1>3, <1>4, <1>5, <1>6, <1>7, <1>8, ProposalsUntouched DEF IInv

LEMMA InitInv == Init => IInv
<1> SUFFICES ASSUME Init PROVE IInv OBVIOUS
<1>1. ~Managed BY DEF Init, Managed
<1>2. RevisionsInOrder BY DEF Init, RevisionsInOrder
<1>3. LifecycleMatches BY <1>1 DEF Init, LifecycleMatches
<1>4. ActiveMatchesDevices /\ ActiveVersionIsBound
  BY DEF Init, PlanActive, ActiveMatchesDevices, ActiveVersionIsBound
<1>5. BindingsDecode BY DEF Init, BindingsDecode
<1>6. SyncStateIsTruthful BY <1>1 DEF SyncStateIsTruthful
<1>7. MeterInService BY DEF Init, LegacyMeter, PlanActive, MeterInService
<1>8. ApprovalsBasedOnActive /\ ProposalsWellFormed
  BY DEF Init, NoProposal, ApprovalsBasedOnActive, ProposalsWellFormed
<1>. QED BY <1>2, <1>3, <1>4, <1>5, <1>6, <1>7, <1>8 DEF IInv

LEMMA NextInv == TypeOK /\ IInv /\ [Next]_vars => IInv'
<1> SUFFICES ASSUME TypeOK, IInv, [Next]_vars PROVE IInv' OBVIOUS
<1>1. CASE Onboarding
  BY <1>1, ConfirmInv, CorrectInitialConfigInv, AdoptExistingInv DEF Onboarding
<1>2. CASE Legacy \/ Review \/ Report \/ Billing
  BY <1>2, LegacyInv, ReviewInv, ReportInv, BillingInv
<1>3. CASE UNCHANGED vars
  <2>1. UNCHANGED <<lifecycle, configState, desired, applied, plan, profile, binding, meter,
                    source, proposal, published>>
    BY <1>3 DEF vars
  <2>2. SyncStateIsTruthful' BY <2>1 DEF IInv, SyncStateIsTruthful, Managed
  <2>. QED BY <2>1, <2>2, Untouched, ProposalsUntouched DEF IInv
<1>. QED BY <1>1, <1>2, <1>3 DEF Next

(* In every reachable state the devices in service, the profiles they are pinned
   to, the bindings telemetry is decoded by and the state shown to the
   administrator agree with the active and the desired revision. *)
THEOREM InvariantHolds == Spec => []IInv
<1>1. Spec => [](TypeOK /\ IInv)
  <2>1. TypeOK /\ IInv /\ [Next]_vars => TypeOK' /\ IInv' BY NextType, NextInv
  <2>. QED BY <2>1, InitType, InitInv, PTL DEF Spec
<1>. QED BY <1>1, PTL

(* Every device of the active revision is in service and decoded as configured. *)
THEOREM ActiveRevisionInForce == Spec => []ActiveMatchesDevices
<1>1. IInv => ActiveMatchesDevices BY DEF IInv
<1>. QED BY <1>1, InvariantHolds, PTL

(* The active version is bound to exactly the pinned profiles. *)
THEOREM ActiveVersionBound == Spec => []ActiveVersionIsBound
<1>1. IInv => ActiveVersionIsBound BY DEF IInv
<1>. QED BY <1>1, InvariantHolds, PTL

(* "In sync" is only shown of a gateway whose desired revision is active. *)
THEOREM SyncStateHolds == Spec => []SyncStateIsTruthful
<1>1. IInv => SyncStateIsTruthful BY DEF IInv
<1>. QED BY <1>1, InvariantHolds, PTL

-----------------------------------------------------------------------------
(* Action properties *)

BasedOnActive ==
  applied' # applied => \A p \in Proposal :
    proposal[p].status = "approved" /\ proposal[p].version = applied'
      => proposal[p].base = applied

LEMMA NextBasedOnActive == TypeOK /\ IInv /\ [Next]_vars => BasedOnActive
<1> SUFFICES ASSUME TypeOK, IInv, Next, applied' # applied,
                    NEW p \in Proposal, proposal[p].status = "approved",
                    proposal[p].version = applied'
             PROVE  proposal[p].base = applied
  BY DEF BasedOnActive, vars
<1>1. /\ proposal[p].version <= desired
      /\ proposal[p].version = desired /\ applied < desired => proposal[p].base = applied
  BY DEF IInv, ApprovalsBasedOnActive
<1>2. desired \in 0 .. MaxVersion BY DEF TypeOK
<1>3. CASE Onboarding
  <2> PICK pl \in Plan : Confirm(pl) \/ CorrectInitialConfig(pl) \/ AdoptExisting(pl)
    BY <1>3 DEF Onboarding
  <2>1. CASE Confirm(pl)
    BY <1>1, <2>1 DEF Confirm, IInv, LifecycleMatches
  <2>2. CASE CorrectInitialConfig(pl) BY <2>2 DEF CorrectInitialConfig
  <2>3. CASE AdoptExisting(pl) BY <1>1, <1>2, <2>3 DEF AdoptExisting
  <2>. QED BY <2>1, <2>2, <2>3
<1>4. CASE Report
  <2> PICK v \in 0 .. desired : Activate(v)
    BY <1>4 DEF Report, ReportMismatch, ReportFailed, ReportReceived, ReportAppliedAgain,
                ReportRedelivered, ReportConnection
  <2>. QED BY <1>1 DEF Activate, Matching
<1>5. CASE Legacy
  <2>1. ~Managed
    BY <1>5 DEF Legacy, UpgradePayloadProfile, PublishGatewayConfiguration,
                SnapshotGatewayConfiguration, AcknowledgeGatewayConfiguration
  <2>. QED BY <2>1, NotManaged
<1>6. CASE Review BY <1>6 DEF Review, RecordProposal, ApproveProposal, RejectProposal
<1>7. CASE Billing BY <1>7 DEF Billing, BindBillingSource
<1>. QED BY <1>3, <1>4, <1>5, <1>6, <1>7 DEF Next

(* A proposal is only put in force on top of the revision it was computed from. *)
THEOREM ProposalBasedOnActiveHolds == Spec => ProposalBasedOnActive
<1>1. TypeOK /\ IInv /\ [Next]_vars => [BasedOnActive]_vars BY NextBasedOnActive
<1>. QED BY <1>1, TypeCorrect, InvariantHolds, PTL
         DEF Spec, ProposalBasedOnActive, BasedOnActive

MeterFrozen ==
  Managed /\ meter # NoDevice /\ source # NoProfile =>
    /\ profile'[meter] = profile[meter]
    /\ PlanActive => plan'[applied'][meter].link = plan[applied][meter].link

LEMMA NextMeterFrozen == TypeOK /\ IInv /\ [Next]_vars => MeterFrozen
<1> SUFFICES ASSUME TypeOK, IInv, [Next]_vars, Managed, meter # NoDevice,
                    source # NoProfile
             PROVE  /\ profile'[meter] = profile[meter]
                    /\ PlanActive => plan'[applied'][meter].link = plan[applied][meter].link
  BY DEF MeterFrozen
<1>0. meter \in Device /\ lifecycle # "unassigned"
  BY DEF TypeOK, IInv, MeterInService
<1>1. applied <= desired /\ applied \in 0 .. MaxVersion /\ desired \in 0 .. MaxVersion
  BY DEF IInv, RevisionsInOrder, TypeOK
<1>2. CASE Onboarding
  <2> PICK pl \in Plan : CorrectInitialConfig(pl)
    BY <1>0, <1>2 DEF Onboarding, Confirm, AdoptExisting
  <2>. QED BY DEF CorrectInitialConfig, PlanActive, deviceVars
<1>3. CASE Legacy
  BY <1>3 DEF Legacy, UpgradePayloadProfile, PublishGatewayConfiguration,
              SnapshotGatewayConfiguration, AcknowledgeGatewayConfiguration
<1>4. CASE Review
  <2> PICK p \in Proposal :
        \/ \E b \in Version, pl \in Plan : RecordProposal(p, b, pl)
        \/ ApproveProposal(p)
        \/ RejectProposal(p)
    BY <1>4 DEF Review
  <2>1. CASE ApproveProposal(p)
    <3>1. SaveRevision(proposal[p].plan) /\ profile' = profile /\ applied' = applied
      BY <2>1 DEF ApproveProposal, deviceVars
    <3>2. \A w \in Version : w # desired + 1 => plan'[w] = plan[w]
      BY <3>1, Saved DEF IInv
    <3>3. applied > 0 => applied \in Version /\ applied # desired + 1
      BY <1>1, ConstantsAssumption DEF Version
    <3>. QED BY <3>1, <3>2, <3>3 DEF PlanActive
  <2>2. CASE ~ApproveProposal(p)
    BY <2>2 DEF RecordProposal, RejectProposal, deviceVars
  <2>. QED BY <2>1, <2>2
<1>5. CASE Report
  <2>1. ASSUME NEW v, Activate(v)
        PROVE  /\ profile'[meter] = profile[meter]
               /\ plan'[applied'][meter].link = plan[applied][meter].link
    <3>1. /\ ValidPlan(plan[v]) /\ profile' = Materialised(plan[v], v)
          /\ applied' = v /\ plan' = plan
      BY <2>1 DEF Activate
    <3>2. /\ plan[v][meter] # Off /\ SameDecoder(meter, plan[v][meter])
          /\ plan[applied][meter].link = plan[v][meter].link
      BY <3>1 DEF ValidPlan, ContinuousPlan
    <3>3. profile'[meter] = profile[meter] BY <1>0, <3>1, <3>2 DEF Materialised
    <3>. QED BY <3>1, <3>2, <3>3
  <2>2. CASE ~ \E v \in 0 .. desired : Activate(v)
    BY <1>5, <2>2 DEF Report, ReportMismatch, ReportFailed, ReportReceived,
         ReportAppliedAgain, ReportRedelivered, ReportConnection, deviceVars
  <2>. QED BY <2>1, <2>2
<1>6. CASE Billing BY <1>6 DEF Billing, BindBillingSource, deviceVars
<1>7. CASE UNCHANGED vars BY <1>7 DEF vars
<1>. QED BY <1>2, <1>3, <1>4, <1>5, <1>6, <1>7 DEF Next

(* Under the control plane the device of the active billing meter keeps the
   profile revision its readings are decoded by, and its connection. *)
THEOREM BillingDeviceFrozenHolds == Spec => BillingDeviceFrozen
<1>1. TypeOK /\ IInv /\ [Next]_vars => [MeterFrozen]_vars BY NextMeterFrozen
<1>. QED BY <1>1, TypeCorrect, InvariantHolds, PTL
         DEF Spec, BillingDeviceFrozen, MeterFrozen

-----------------------------------------------------------------------------
(* TELEMETRY *)

(* The configuration *)

(* A step of a handler. *)
Handling(h) ==
  Receive(h) \/ FindReplay(h) \/ Resolve(h) \/ Write(h) \/ Reply(h) \/ GiveUp(h)

LEMMA HandlingKeepsConfiguration ==
  ASSUME NEW h \in Handler, Handling(h)
  PROVE  UNCHANGED <<vars, snapshot, assigned>>
BY DEF Handling, Receive, Admit, FindReplay, Resolve, Write, Reply, GiveUp,
       configVars, historyVars

LEMMA IngestionSteps ==
  ASSUME [IngestionNext]_allVars
  PROVE  Configure \/ (\E h \in Handler : Handling(h)) \/ UNCHANGED allVars
BY DEF IngestionNext, Handling

LEMMA IngestionIsConfiguration == [IngestionNext]_allVars => [Next]_vars
<1> SUFFICES ASSUME [IngestionNext]_allVars PROVE [Next]_vars
  OBVIOUS
<1>1. CASE Configure
  BY <1>1 DEF Configure
<1>2. CASE \E h \in Handler : Handling(h)
  BY <1>2, HandlingKeepsConfiguration
<1>3. CASE UNCHANGED allVars
  BY <1>3 DEF allVars
<1>4. QED
  BY <1>1, <1>2, <1>3, IngestionSteps

(* Whatever telemetry does, the configuration takes the steps of
   GatewayConfiguration. *)
THEOREM IngestionRefinesConfiguration == IngestionSpec => Spec
<1>1. IngestionInit => Init
  BY DEF IngestionInit
<1>2. QED
  BY <1>1, IngestionIsConfiguration, PTL DEF IngestionSpec, Spec

-----------------------------------------------------------------------------
(* What configurations keep *)

(* Rows of bound devices stay: ON CONFLICT DO NOTHING. *)
LEMMA BoundKeeps ==
  ASSUME TypeOK, NEW pl, NEW v \in Version, NEW pinned,
         NEW w \in Version, NEW d \in Device, binding[w][d] # NoProfile
  PROVE  Bound(pl, v, pinned)[w][d] = binding[w][d]
<1>1. binding \in [Version -> [Device -> Pinned]]
  BY DEF TypeOK
<1>2. QED
  BY <1>1 DEF Bound

(* Revisions are never rewritten, and no binding is. *)
KeepsRevisions ==
  /\ desired <= desired'
  /\ \A w \in Version : w <= desired => plan'[w] = plan[w]
  /\ \A w \in Version, d \in Device :
       binding[w][d] # NoProfile => binding'[w][d] = binding[w][d]

LEMMA SavedKeeps ==
  ASSUME TypeOK, IInv, NEW pl, SaveRevision(pl)
  PROVE  /\ desired' = desired + 1 /\ desired + 1 \in Version
         /\ desired <= desired'
         /\ \A w \in Version : w <= desired => plan'[w] = plan[w]
<1>1. /\ desired + 1 \in Version /\ desired' = desired + 1
      /\ \A w \in Version : w # desired + 1 => plan'[w] = plan[w]
  BY Saved DEF IInv
<1>2. desired \in Int /\ \A w \in Version : w \in Int
  BY ConstantsAssumption DEF TypeOK, Version
<1>3. QED
  BY <1>1, <1>2

LEMMA OnboardingKeeps == ASSUME TypeOK, IInv, Onboarding PROVE KeepsRevisions
<1> PICK pl \in Plan : Confirm(pl) \/ CorrectInitialConfig(pl) \/ AdoptExisting(pl)
  BY DEF Onboarding
<1>1. SaveRevision(pl)
  BY DEF Confirm, CorrectInitialConfig, AdoptExisting
<1>2. desired <= desired' /\ \A w \in Version : w <= desired => plan'[w] = plan[w]
  BY <1>1, SavedKeeps
<1>3. desired + 1 \in Version
  BY <1>1, SavedKeeps
<1>4. CASE Confirm(pl)
  <2>1. 1 \in Version
    BY <1>3, <1>4, ConstantsAssumption DEF Confirm, IInv, LifecycleMatches, Version
  <2>2. binding' = Bound(pl, 1, profile')
    BY <1>4 DEF Confirm
  <2>3. QED
    BY <1>2, <2>1, <2>2, BoundKeeps DEF KeepsRevisions
<1>5. CASE CorrectInitialConfig(pl)
  BY <1>2, <1>5 DEF CorrectInitialConfig, deviceVars, KeepsRevisions
<1>6. CASE AdoptExisting(pl)
  <2>1. binding' = Bound(pl, desired + 1, profile')
    BY <1>6 DEF AdoptExisting
  <2>2. QED
    BY <1>2, <1>3, <2>1, BoundKeeps DEF KeepsRevisions
<1>7. QED
  BY <1>4, <1>5, <1>6

LEMMA LegacyKeeps == ASSUME TypeOK, IInv, Legacy PROVE KeepsRevisions
<1>1. plan' = plan /\ binding' = binding
  BY DEF Legacy, UpgradePayloadProfile, PublishGatewayConfiguration,
         AcknowledgeGatewayConfiguration, deviceVars
<1>2. desired' = desired \/ desired' = desired + 1
  BY DEF Legacy, UpgradePayloadProfile, PublishGatewayConfiguration,
         AcknowledgeGatewayConfiguration, SnapshotGatewayConfiguration
<1>3. QED
  BY <1>1, <1>2 DEF KeepsRevisions, TypeOK

LEMMA ReviewKeeps == ASSUME TypeOK, IInv, Review PROVE KeepsRevisions
<1> PICK p \in Proposal :
      \/ \E b \in Version, pl \in Plan : RecordProposal(p, b, pl)
      \/ ApproveProposal(p)
      \/ RejectProposal(p)
  BY DEF Review
<1>1. CASE ApproveProposal(p)
  <2>1. SaveRevision(proposal[p].plan) /\ binding' = binding
    BY <1>1 DEF ApproveProposal, deviceVars
  <2>2. QED
    BY <2>1, SavedKeeps DEF KeepsRevisions
<1>2. CASE ~ApproveProposal(p)
  <2>1. UNCHANGED <<desired, plan, binding>>
    BY <1>2 DEF RecordProposal, RejectProposal, deviceVars
  <2>2. QED
    BY <2>1 DEF KeepsRevisions, TypeOK
<1>3. QED
  BY <1>1, <1>2

LEMMA ReportKeeps == ASSUME TypeOK, IInv, Report PROVE KeepsRevisions
<1>1. desired' = desired /\ plan' = plan
  BY DEF Report, ReportMismatch, ReportFailed, ReportReceived, ReportAppliedAgain,
         Activate, ReportRedelivered, ReportConnection
<1>2. binding' = binding \/ \E v \in Version : binding' = Bound(plan[v], v, profile')
  BY DEF Report, ReportMismatch, ReportFailed, ReportReceived, ReportAppliedAgain,
         Activate, ReportRedelivered, ReportConnection, Matching, deviceVars
<1>3. \A w \in Version, d \in Device :
        binding[w][d] # NoProfile => binding'[w][d] = binding[w][d]
  BY <1>2, BoundKeeps
<1>4. QED
  BY <1>1, <1>3 DEF KeepsRevisions, TypeOK

LEMMA NextKeeps == ASSUME TypeOK, IInv, [Next]_vars PROVE KeepsRevisions
<1>1. CASE Billing
  BY <1>1 DEF Billing, BindBillingSource, deviceVars, KeepsRevisions, TypeOK
<1>2. CASE UNCHANGED vars
  BY <1>2 DEF vars, KeepsRevisions, TypeOK
<1>3. QED
  BY <1>1, <1>2, OnboardingKeeps, LegacyKeeps, ReviewKeeps, ReportKeeps DEF Next

-----------------------------------------------------------------------------
(* Types *)

HistoryTypeOK ==
  /\ snapshot \in [Version -> [Device -> Pinned]]
  /\ assigned \in [Device -> SUBSET Profile]

HandlingTypeOK ==
  /\ stored \in [Device -> [MessageId -> Row \cup {NoRow}]]
  /\ acked \subseteq [device: Device, id: MessageId, body: Body]
  /\ handler \in [Handler -> Reading \cup {Idle}]

LEMMA TypeParts == IngestionTypeOK <=> TypeOK /\ HistoryTypeOK /\ HandlingTypeOK
BY DEF IngestionTypeOK, HistoryTypeOK, HandlingTypeOK

(* A handler that is not idle has read a device. *)
LEMMA BusyReads ==
  ASSUME HandlingTypeOK, NEW h \in Handler, handler[h] # Idle
  PROVE  /\ handler[h] \in Reading
         /\ handler[h].device \in Device /\ handler[h].id \in MessageId
         /\ handler[h].body \in Body /\ handler[h].profile \in Profile
         /\ handler[h].pinned \in Profile
         /\ handler[h].source \in Profile \cup {NoProfile}
         /\ handler[h].applied \in 0 .. MaxVersion
         /\ handler[h].at \in {"replay", "resolve", "write", "reply"}
<1>1. handler[h] \in Reading
  BY DEF HandlingTypeOK
<1>2. QED
  BY <1>1 DEF Reading

(* A handler at one of the steps is not idle. *)
LEMMA AtIsBusy ==
  ASSUME NEW h \in Handler, handler[h].at \in {"replay", "resolve", "write", "reply"}
  PROVE  handler[h] # Idle
BY DEF Idle

LEMMA GoToType ==
  ASSUME HandlingTypeOK, NEW h \in Handler, handler[h] # Idle,
         NEW at \in {"replay", "resolve", "write", "reply"}, GoTo(h, at)
  PROVE  /\ handler' \in [Handler -> Reading \cup {Idle}]
         /\ handler' = [handler EXCEPT ![h] = [handler[h] EXCEPT !.at = at]]
<1> DEFINE r == [handler[h] EXCEPT !.at = at]
<1>1. handler[h] \in Reading
  BY BusyReads
<1>2. r \in Reading
  BY <1>1 DEF Reading
<1>3. handler' = [handler EXCEPT ![h] = r]
  BY DEF GoTo
<1> HIDE DEF r
<1>4. handler' \in [Handler -> Reading \cup {Idle}]
  BY <1>2, <1>3 DEF HandlingTypeOK
<1>5. QED
  BY <1>3, <1>4 DEF r

LEMMA ConfigureType ==
  ASSUME TypeOK, TypeOK', HistoryTypeOK, Configure
  PROVE  HistoryTypeOK'
<1>1. profile' \in [Device -> Pinned]
  BY DEF TypeOK
<1>2. assigned' \in [Device -> SUBSET Profile]
  <2>1. assigned' = [d \in Device |-> assigned[d] \cup ({profile'[d]} \ {NoProfile})]
    BY DEF Configure, Assign
  <2>2. \A d \in Device : assigned[d] \cup ({profile'[d]} \ {NoProfile}) \in SUBSET Profile
    BY <1>1 DEF HistoryTypeOK
  <2>3. QED
    BY <2>1, <2>2
<1>3. snapshot' \in [Version -> [Device -> Pinned]]
  BY <1>1 DEF Configure, HistoryTypeOK
<1>4. QED
  BY <1>2, <1>3 DEF HistoryTypeOK

LEMMA AdmitType ==
  ASSUME TypeOK, HandlingTypeOK, NEW h \in Handler, NEW d \in Device,
         NEW i \in MessageId, NEW b \in Body, Admit(h, d, i, b)
  PROVE  HandlingTypeOK'
<1> DEFINE r == [at |-> "replay", device |-> d, id |-> i, body |-> b, applied |-> applied,
                 managed |-> Managed, pinned |-> profile[d], source |-> SourceOf(d),
                 profile |-> profile[d]]
<1>1. profile[d] \in Profile
  BY DEF Admit, Admitted, TypeOK
<1>2. SourceOf(d) \in Profile \cup {NoProfile}
  BY DEF SourceOf, TypeOK
<1>3. Managed \in BOOLEAN
  BY DEF Managed
<1>4. r \in Reading
  BY <1>1, <1>2, <1>3 DEF Reading, TypeOK
<1>5. handler' = [handler EXCEPT ![h] = r] /\ UNCHANGED <<stored, acked>>
  BY DEF Admit
<1> HIDE DEF r
<1>6. QED
  BY <1>4, <1>5 DEF HandlingTypeOK

LEMMA ReceiveBody ==
  ASSUME TypeOK, HistoryTypeOK, NEW h \in Handler, Receive(h)
  PROVE  \E d \in Device, i \in MessageId, b \in Body : Admit(h, d, i, b)
<1> PICK d \in Device, i \in MessageId, v \in 0 .. desired, c \in Content :
      \E p \in assigned[d] \cup {NoProfile} :
        Admit(h, d, i, [version |-> v, hint |-> p, content |-> c])
  BY DEF Receive
<1> PICK p \in assigned[d] \cup {NoProfile} :
      Admit(h, d, i, [version |-> v, hint |-> p, content |-> c])
  OBVIOUS
<1>1. v \in 0 .. MaxVersion
  BY ConstantsAssumption DEF TypeOK
<1>2. p \in Profile \cup {NoProfile}
  BY DEF HistoryTypeOK
<1>3. [version |-> v, hint |-> p, content |-> c] \in Body
  BY <1>1, <1>2 DEF Body
<1>4. QED
  BY <1>3

(* What the transaction stores is a row of the message. *)
LEMMA NewRowType ==
  ASSUME HandlingTypeOK, NEW h \in Handler, handler[h] # Idle
  PROVE  NewRow(handler[h]) \in Row /\ NewRow(handler[h]) # NoRow
<1>1. NewRow(handler[h]) \in Row
  BY BusyReads DEF NewRow, Row
<1>2. QED
  BY <1>1, NoRowAssumption

LEMMA HandlingType ==
  ASSUME TypeOK, HistoryTypeOK, HandlingTypeOK, NEW h \in Handler, Handling(h)
  PROVE  HandlingTypeOK'
<1>1. CASE Receive(h)
  BY <1>1, ReceiveBody, AdmitType
<1>2. CASE FindReplay(h)
  <2>1. handler[h] # Idle
    BY <1>2, AtIsBusy DEF FindReplay
  <2>2. handler' \in [Handler -> Reading \cup {Idle}]
    <3>1. GoTo(h, "resolve") \/ GoTo(h, "write")
      BY <1>2 DEF FindReplay
    <3>2. QED
      BY <2>1, <3>1, GoToType
  <2>3. QED
    BY <1>2, <2>2 DEF FindReplay, HandlingTypeOK
<1>3. CASE Resolve(h)
  <2>1. handler[h] # Idle
    BY <1>3, AtIsBusy DEF Resolve
  <2>2. PICK p \in Candidates(handler[h]) :
          handler' = [handler EXCEPT ![h].at = "write", ![h].profile = p]
    BY <1>3 DEF Resolve
  <2> DEFINE r == [handler[h] EXCEPT !.at = "write", !.profile = p]
  <2>3. p \in Profile
    BY <2>1, BusyReads DEF Candidates, HistoryTypeOK
  <2>4. r \in Reading
    BY <2>1, <2>3, BusyReads DEF Reading
  <2>5. handler' = [handler EXCEPT ![h] = r]
    BY <2>2
  <2> HIDE DEF r
  <2>6. QED
    BY <1>3, <2>4, <2>5 DEF Resolve, HandlingTypeOK
<1>4. CASE Write(h)
  <2>1. handler[h] # Idle
    BY <1>4, AtIsBusy DEF Write
  <2>2. CASE stored[handler[h].device][handler[h].id] = NoRow
    <3>1. /\ stored' = [stored EXCEPT ![handler[h].device][handler[h].id] = NewRow(handler[h])]
          /\ GoTo(h, "reply") /\ acked' = acked
      BY <1>4, <2>2 DEF Write
    <3>2. stored' \in [Device -> [MessageId -> Row \cup {NoRow}]]
      BY <2>1, <3>1, NewRowType, BusyReads DEF HandlingTypeOK
    <3>3. QED
      BY <2>1, <3>1, <3>2, GoToType DEF HandlingTypeOK
  <2>3. CASE stored[handler[h].device][handler[h].id] # NoRow
    <3> DEFINE r == [handler[h] EXCEPT !.at = "reply"]
    <3>1. r \in Reading
      BY <2>1, BusyReads DEF Reading
    <3>2. /\ handler' = [handler EXCEPT ![h] = r] \/ handler' = [handler EXCEPT ![h] = Idle]
          /\ UNCHANGED <<stored, acked>>
      BY <1>4, <2>3 DEF Write
    <3> HIDE DEF r
    <3>3. QED
      BY <3>1, <3>2 DEF HandlingTypeOK
  <2>4. QED
    BY <2>2, <2>3
<1>5. CASE Reply(h)
  <2>1. handler[h] # Idle
    BY <1>5, AtIsBusy DEF Reply
  <2>2. [device |-> handler[h].device, id |-> handler[h].id, body |-> handler[h].body]
          \in [device: Device, id: MessageId, body: Body]
    BY <2>1, BusyReads
  <2>3. QED
    BY <1>5, <2>2 DEF Reply, HandlingTypeOK
<1>6. CASE GiveUp(h)
  BY <1>6 DEF GiveUp, HandlingTypeOK
<1>7. QED
  BY <1>1, <1>2, <1>3, <1>4, <1>5, <1>6 DEF Handling

LEMMA IngestionTypeInit == IngestionInit => HistoryTypeOK /\ HandlingTypeOK
<1> SUFFICES ASSUME IngestionInit PROVE HistoryTypeOK /\ HandlingTypeOK
  OBVIOUS
<1>1. TypeOK
  BY InitType DEF IngestionInit
<1>2. assigned \in [Device -> SUBSET Profile]
  <2>1. \A d \in Device : {profile[d]} \ {NoProfile} \in SUBSET Profile
    BY <1>1 DEF TypeOK
  <2>2. QED
    BY <2>1 DEF IngestionInit
<1>3. QED
  BY <1>2 DEF IngestionInit, HistoryTypeOK, HandlingTypeOK

LEMMA IngestionTypeNext ==
  ASSUME TypeOK, TypeOK', HistoryTypeOK, HandlingTypeOK, [IngestionNext]_allVars
  PROVE  HistoryTypeOK' /\ HandlingTypeOK'
<1>1. CASE Configure
  BY <1>1, ConfigureType DEF Configure, ingestVars, HandlingTypeOK
<1>2. CASE \E h \in Handler : Handling(h)
  BY <1>2, HandlingType, HandlingKeepsConfiguration DEF HistoryTypeOK
<1>3. CASE UNCHANGED allVars
  BY <1>3 DEF allVars, historyVars, ingestVars, HistoryTypeOK, HandlingTypeOK
<1>4. QED
  BY <1>1, <1>2, <1>3, IngestionSteps

(* The configuration, as the first part proves it, and the types of
   what telemetry adds. *)
Sound == TypeOK /\ IInv /\ HistoryTypeOK /\ HandlingTypeOK

LEMMA AlwaysSound == IngestionSpec => []Sound
<1>1. IngestionSpec => [](TypeOK /\ IInv)
  BY IngestionRefinesConfiguration, TypeCorrect, InvariantHolds, PTL
<1>2. IngestionInit => HistoryTypeOK /\ HandlingTypeOK
  BY IngestionTypeInit
<1>3. /\ TypeOK /\ IInv /\ (TypeOK /\ IInv)'
      /\ HistoryTypeOK /\ HandlingTypeOK /\ [IngestionNext]_allVars
      => HistoryTypeOK' /\ HandlingTypeOK'
  BY IngestionTypeNext
<1>4. QED
  BY <1>1, <1>2, <1>3, PTL DEF IngestionSpec, Sound

(* Every reachable state is well typed: a message that is stored has a profile
   its device was assigned, in particular. *)
THEOREM IngestionTypeCorrect == IngestionSpec => []IngestionTypeOK
<1>1. Sound => IngestionTypeOK
  BY TypeParts DEF Sound
<1>2. QED
  BY <1>1, AlwaysSound, PTL

-----------------------------------------------------------------------------
(* The inductive invariant *)

(* Version v was issued, and decodes device d by profile p. *)
DecodesAs(v, d, p) ==
  /\ v \in 1 .. desired
  /\ IF plan[v] = NoPlan THEN p = snapshot[v][d] ELSE binding[v][d] = p

(* The profile a handler chose is that of the version the message names, which
   was active when the device was read; or, if the message names nothing,
   decodes like the profile the device was pinned to. *)
Chosen(r) ==
  /\ r.body.version > 0 =>
       r.body.version = r.applied /\ DecodesAs(r.body.version, r.device, r.profile)
  /\ r.body.version = 0 /\ r.body.hint = NoProfile => r.profile.decoder = r.pinned.decoder

StoredOf(r) == stored[r.device][r.id]

(* What a handler read was true: versions that were active stay issued, a legacy
   one stays a legacy one. *)
ReadingHolds(r) ==
  /\ r.applied <= desired
  /\ ~r.managed /\ r.applied > 0 => plan[r.applied] = NoPlan
  /\ r.pinned \in assigned[r.device]
  /\ r.at = "write" /\ StoredOf(r) = NoRow => Chosen(r)
  /\ r.at = "reply" => StoredOf(r) # NoRow /\ StoredOf(r).body = r.body

PinnedIsAssigned == \A d \in Device : profile[d] # NoProfile => profile[d] \in assigned[d]

ReadingsHold == \A h \in Handler : handler[h] # Idle => ReadingHolds(handler[h])

RowsDecode ==
  \A d \in Device, i \in MessageId :
    stored[d][i] # NoRow /\ stored[d][i].body.version > 0 =>
      DecodesAs(stored[d][i].body.version, d, stored[d][i].profile)

IngestionInv == PinnedIsAssigned /\ ReadingsHold /\ RowsDecode /\ AckedIsStored

(* A step of the configuration takes nothing back of what was issued. *)
LEMMA ConfigureKeeps ==
  ASSUME Sound, Configure
  PROVE  /\ KeepsRevisions
         /\ \A w \in 1 .. desired : snapshot'[w] = snapshot[w]
         /\ \A d \in Device : assigned[d] \subseteq assigned'[d]
<1>1. KeepsRevisions
  BY NextKeeps DEF Configure, Sound
<1>2. desired' = desired \/ desired' > desired
  <2>1. desired \in Int /\ desired' \in Int
    BY NextType DEF Configure, Sound, TypeOK
  <2>2. QED
    BY <1>1, <2>1 DEF KeepsRevisions
<1>3. \A w \in 1 .. desired : w # desired' => snapshot'[w] = snapshot[w]
  BY ConstantsAssumption DEF Configure, Sound, HistoryTypeOK, TypeOK, Version
<1>4. desired' # desired => \A w \in 1 .. desired : w # desired'
  BY <1>2 DEF Sound, TypeOK
<1>5. \A w \in 1 .. desired : snapshot'[w] = snapshot[w]
  BY <1>3, <1>4 DEF Configure
<1>6. \A d \in Device : assigned[d] \subseteq assigned'[d]
  BY DEF Configure, Assign
<1>7. QED
  BY <1>1, <1>5, <1>6

LEMMA ConfigureKeepsDecoding ==
  ASSUME Sound, Configure, NEW v, NEW d \in Device, NEW p \in Profile, DecodesAs(v, d, p)
  PROVE  DecodesAs(v, d, p)'
<1>1. /\ desired \in 0 .. MaxVersion /\ desired' \in 0 .. MaxVersion /\ desired <= desired'
      /\ \A w \in Version : w <= desired => plan'[w] = plan[w]
      /\ \A w \in Version, e \in Device :
           binding[w][e] # NoProfile => binding'[w][e] = binding[w][e]
  BY ConfigureKeeps, NextType DEF KeepsRevisions, Configure, Sound, TypeOK
<1>2. v \in 1 .. desired /\ v \in Version
  BY <1>1, ConstantsAssumption DEF DecodesAs, Version
<1>3. v \in 1 .. desired' /\ plan'[v] = plan[v] /\ snapshot'[v] = snapshot[v]
  BY <1>1, <1>2, ConfigureKeeps
<1>4. p # NoProfile
  BY NullsAssumption
<1>5. QED
  BY <1>1, <1>2, <1>3, <1>4 DEF DecodesAs

LEMMA ConfigureInv ==
  ASSUME Sound, IngestionInv, Configure
  PROVE  IngestionInv'
<1>1. UNCHANGED <<stored, acked, handler>>
  BY DEF Configure, ingestVars
<1>2. PinnedIsAssigned'
  BY DEF Configure, Assign, PinnedIsAssigned
<1>3. RowsDecode'
  <2> SUFFICES ASSUME NEW d \in Device, NEW i \in MessageId, stored[d][i] # NoRow,
                      stored[d][i].body.version > 0
               PROVE  DecodesAs(stored[d][i].body.version, d, stored[d][i].profile)'
    BY <1>1 DEF RowsDecode
  <2>1. stored[d][i].profile \in Profile
    BY DEF Sound, HandlingTypeOK, Row
  <2>2. DecodesAs(stored[d][i].body.version, d, stored[d][i].profile)
    BY DEF IngestionInv, RowsDecode
  <2>3. QED
    BY <1>1, <2>1, <2>2, ConfigureKeepsDecoding
<1>4. ReadingsHold'
  <2> SUFFICES ASSUME NEW h \in Handler, handler[h] # Idle
               PROVE  ReadingHolds(handler[h])'
    BY <1>1 DEF ReadingsHold
  <2>1. /\ ReadingHolds(handler[h]) /\ handler[h].device \in Device
        /\ handler[h].applied \in 0 .. MaxVersion /\ handler[h].profile \in Profile
    BY BusyReads DEF IngestionInv, ReadingsHold, Sound
  <2>2. handler[h].applied <= desired'
    <3>1. desired \in Int /\ desired' \in Int /\ desired <= desired'
      BY ConfigureKeeps, NextType DEF KeepsRevisions, Configure, Sound, TypeOK
    <3>2. QED
      BY <2>1, <3>1 DEF ReadingHolds
  <2>3. ~handler[h].managed /\ handler[h].applied > 0 => plan'[handler[h].applied] = NoPlan
    <3>1. handler[h].applied > 0 => handler[h].applied \in Version
      BY <2>1, ConstantsAssumption DEF Version
    <3>2. QED
      BY <2>1, <3>1, ConfigureKeeps DEF ReadingHolds, KeepsRevisions
  <2>4. handler[h].pinned \in assigned'[handler[h].device]
    BY <2>1, ConfigureKeeps DEF ReadingHolds
  <2>5. Chosen(handler[h]) => Chosen(handler[h])'
    BY <1>1, <2>1, ConfigureKeepsDecoding DEF Chosen
  <2>6. QED
    BY <1>1, <2>1, <2>2, <2>3, <2>4, <2>5 DEF ReadingHolds, StoredOf
<1>5. AckedIsStored'
  BY <1>1 DEF IngestionInv, AckedIsStored
<1>6. QED
  BY <1>2, <1>3, <1>4, <1>5 DEF IngestionInv

-----------------------------------------------------------------------------
(* The steps of a handler *)

(* A handler that does not touch what is stored disturbs only its own reading. *)
LEMMA OwnReading ==
  ASSUME Sound, IngestionInv, NEW h \in Handler, NEW r, handler' = [handler EXCEPT ![h] = r],
         UNCHANGED <<vars, snapshot, assigned, stored>>,
         r # Idle => ReadingHolds(r)
  PROVE  ReadingsHold' /\ PinnedIsAssigned' /\ RowsDecode'
<1>1. UNCHANGED <<desired, plan, binding, profile>>
  BY DEF vars
<1>2. PinnedIsAssigned' /\ RowsDecode'
  BY <1>1 DEF IngestionInv, PinnedIsAssigned, RowsDecode, DecodesAs
<1>3. ReadingsHold'
  <2> SUFFICES ASSUME NEW g \in Handler, handler'[g] # Idle
               PROVE  ReadingHolds(handler[g])'
    BY DEF ReadingsHold
  <2>1. ReadingHolds(handler'[g])
    <3>1. handler'[g] = IF g = h THEN r ELSE handler[g]
      BY DEF Sound, HandlingTypeOK
    <3>2. QED
      BY <3>1 DEF IngestionInv, ReadingsHold
  <2>2. QED
    BY <1>1, <2>1 DEF ReadingHolds, Chosen, DecodesAs, StoredOf
<1>4. QED
  BY <1>2, <1>3

LEMMA AdmitInv ==
  ASSUME Sound, IngestionInv, NEW h \in Handler, NEW d \in Device, NEW i \in MessageId,
         NEW b \in Body, Admit(h, d, i, b)
  PROVE  IngestionInv'
<1> DEFINE r == [at |-> "replay", device |-> d, id |-> i, body |-> b, applied |-> applied,
                 managed |-> Managed, pinned |-> profile[d], source |-> SourceOf(d),
                 profile |-> profile[d]]
<1>1. handler' = [handler EXCEPT ![h] = r] /\ UNCHANGED <<vars, snapshot, assigned, stored, acked>>
  BY DEF Admit, configVars, historyVars
<1>2. applied <= desired /\ applied \in 0 .. MaxVersion
  BY DEF Sound, IInv, RevisionsInOrder, TypeOK
<1>3. ~Managed /\ applied > 0 => plan[applied] = NoPlan
  BY <1>2, ConstantsAssumption DEF Managed, Version
<1>4. profile[d] \in assigned[d]
  BY DEF Admit, Admitted, IngestionInv, PinnedIsAssigned
<1>5. ReadingHolds(r)
  BY <1>2, <1>3, <1>4 DEF ReadingHolds
<1> HIDE DEF r
<1>6. ReadingsHold' /\ PinnedIsAssigned' /\ RowsDecode'
  BY <1>1, <1>5, OwnReading
<1>7. AckedIsStored'
  BY <1>1 DEF IngestionInv, AckedIsStored
<1>8. QED
  BY <1>6, <1>7 DEF IngestionInv

LEMMA FindReplayInv ==
  ASSUME Sound, IngestionInv, NEW h \in Handler, FindReplay(h)
  PROVE  IngestionInv'
<1> DEFINE at == IF StoredOf(handler[h]) = NoRow THEN "resolve" ELSE "write"
           r == [handler[h] EXCEPT !.at = at]
<1>1. handler[h] # Idle
  BY AtIsBusy DEF FindReplay
<1>2. handler[h] \in Reading /\ ReadingHolds(handler[h])
  BY <1>1, BusyReads DEF Sound, IngestionInv, ReadingsHold
<1>3. GoTo(h, at) /\ UNCHANGED <<vars, snapshot, assigned, stored, acked>>
  BY DEF FindReplay, StoredOf, configVars, historyVars
<1>4. handler' = [handler EXCEPT ![h] = r]
  BY <1>3 DEF GoTo
<1>5. /\ r.at = at /\ r.device = handler[h].device /\ r.id = handler[h].id
      /\ r.applied = handler[h].applied /\ r.managed = handler[h].managed
      /\ r.pinned = handler[h].pinned
  BY <1>2 DEF Reading
<1>6. ReadingHolds(r)
  BY <1>2, <1>5 DEF ReadingHolds, StoredOf
<1> HIDE DEF r, at
<1>7. ReadingsHold' /\ PinnedIsAssigned' /\ RowsDecode'
  BY <1>3, <1>4, <1>6, OwnReading
<1>8. AckedIsStored'
  BY <1>3 DEF IngestionInv, AckedIsStored
<1>9. QED
  BY <1>7, <1>8 DEF IngestionInv

(* The profile that is chosen for a message of the active version is the one
   registered for it; a version that a legacy gateway had active has no binding. *)
LEMMA RegisteredDecodes ==
  ASSUME Sound, IngestionInv, NEW r \in Reading, ReadingHolds(r), ~Refused(r),
         r.body.version > 0
  PROVE  r.body.version = r.applied /\ DecodesAs(r.body.version, r.device, Registered(r))
<1> DEFINE v == r.body.version
<1>1. v = r.applied /\ Registered(r) # NoProfile
  BY DEF Refused
<1>2. v \in Version /\ v \in 1 .. desired /\ r.device \in Device
  BY <1>1, ConstantsAssumption DEF ReadingHolds, Reading, Version, Sound, TypeOK
<1>3. CASE binding[v][r.device] # NoProfile
  <2>1. plan[v] # NoPlan
    BY <1>2, <1>3 DEF Sound, IInv, BindingsDecode
  <2>2. QED
    BY <1>1, <1>2, <1>3, <2>1 DEF Registered, DecodesAs
<1>4. CASE binding[v][r.device] = NoProfile
  <2>1. ~r.managed /\ Registered(r) = snapshot[v][r.device]
    BY <1>1, <1>4 DEF Registered
  <2>2. plan[v] = NoPlan
    BY <1>1, <1>2, <2>1 DEF ReadingHolds
  <2>3. QED
    BY <1>1, <1>2, <2>1, <2>2 DEF DecodesAs
<1>5. QED
  BY <1>3, <1>4

LEMMA ResolveInv ==
  ASSUME Sound, IngestionInv, NEW h \in Handler, Resolve(h)
  PROVE  IngestionInv'
<1>1. handler[h] # Idle
  BY AtIsBusy DEF Resolve
<1>2. handler[h] \in Reading /\ ReadingHolds(handler[h]) /\ handler[h].body \in Body
  BY <1>1, BusyReads DEF Sound, IngestionInv, ReadingsHold
<1>3. /\ ~Refused(handler[h])
      /\ \A p, q \in Candidates(handler[h]) : p.decoder = q.decoder
      /\ UNCHANGED <<vars, snapshot, assigned, stored, acked>>
  BY DEF Resolve, configVars, historyVars
<1>4. PICK p \in Candidates(handler[h]) :
        handler' = [handler EXCEPT ![h].at = "write", ![h].profile = p]
  BY DEF Resolve
<1> DEFINE r == [handler[h] EXCEPT !.at = "write", !.profile = p]
<1>5. handler' = [handler EXCEPT ![h] = r]
  BY <1>4
<1>6. /\ r.at = "write" /\ r.device = handler[h].device /\ r.id = handler[h].id
      /\ r.applied = handler[h].applied /\ r.managed = handler[h].managed
      /\ r.pinned = handler[h].pinned /\ r.body = handler[h].body /\ r.profile = p
  BY <1>2 DEF Reading
<1> HIDE DEF r
<1>7. r.body.version > 0 =>
        r.body.version = r.applied /\ DecodesAs(r.body.version, r.device, r.profile)
  <2> HAVE r.body.version > 0
  <2>1. /\ r.body.version = r.applied
        /\ DecodesAs(r.body.version, r.device, Registered(handler[h]))
    BY <1>2, <1>3, <1>6, RegisteredDecodes
  <2>2. Registered(handler[h]) # NoProfile /\ r.body.version # 0
    BY <1>3, <1>6 DEF Refused
  <2>3. p = Registered(handler[h])
    BY <1>6, <2>2 DEF Candidates, Wanted
  <2>4. QED
    BY <1>6, <2>1, <2>3
<1>8. r.body.version = 0 /\ r.body.hint = NoProfile => r.profile.decoder = r.pinned.decoder
  <2> HAVE r.body.version = 0 /\ r.body.hint = NoProfile
  <2>1. r.pinned \in Candidates(handler[h])
    BY <1>2, <1>6 DEF Candidates, Wanted, ReadingHolds
  <2>2. QED
    BY <1>3, <1>6, <2>1
<1>9. ReadingHolds(r)
  BY <1>2, <1>6, <1>7, <1>8 DEF ReadingHolds, Chosen, StoredOf
<1>10. ReadingsHold' /\ PinnedIsAssigned' /\ RowsDecode'
  BY <1>3, <1>5, <1>9, OwnReading
<1>11. AckedIsStored'
  BY <1>3 DEF IngestionInv, AckedIsStored
<1>12. QED
  BY <1>10, <1>11 DEF IngestionInv

(* The first transaction of an identity stores the row, and touches no other. *)
LEMMA StoreInv ==
  ASSUME Sound, IngestionInv, NEW h \in Handler, Write(h), StoredOf(handler[h]) = NoRow
  PROVE  IngestionInv'
<1> DEFINE r == handler[h]
           row == NewRow(r)
           done == [r EXCEPT !.at = "reply"]
<1>1. r # Idle /\ r.at = "write"
  BY AtIsBusy DEF Write
<1>2. /\ r \in Reading /\ r.device \in Device /\ r.id \in MessageId
      /\ ReadingHolds(r) /\ Chosen(r)
  BY <1>1, BusyReads DEF Sound, IngestionInv, ReadingsHold, ReadingHolds
<1>3. /\ stored' = [stored EXCEPT ![r.device][r.id] = row]
      /\ GoTo(h, "reply") /\ UNCHANGED <<vars, snapshot, assigned, acked>>
  BY DEF Write, StoredOf, configVars, historyVars
<1>4. row # NoRow /\ row.body = r.body /\ row.profile = r.profile
  BY <1>1, NewRowType DEF Sound, NewRow
<1>5. handler' = [handler EXCEPT ![h] = done]
  BY <1>3 DEF GoTo
<1>6. /\ done.at = "reply" /\ done.device = r.device /\ done.id = r.id
      /\ done.applied = r.applied /\ done.managed = r.managed
      /\ done.pinned = r.pinned /\ done.body = r.body
  BY <1>2 DEF Reading
<1>7. UNCHANGED <<desired, plan, binding, profile>>
  BY <1>3 DEF vars
<1>8. /\ stored'[r.device][r.id] = row
      /\ \A d \in Device, i \in MessageId :
           stored[d][i] # NoRow => stored'[d][i] = stored[d][i]
      /\ \A d \in Device, i \in MessageId :
           \/ stored'[d][i] = stored[d][i]
           \/ d = r.device /\ stored'[d][i] = row
  <2>1. /\ stored \in [Device -> [MessageId -> Row \cup {NoRow}]]
        /\ stored[r.device][r.id] = NoRow
    BY DEF Sound, HandlingTypeOK, StoredOf
  <2> HIDE DEF row
  <2>2. \A d \in Device, i \in MessageId :
          stored'[d][i] = IF d = r.device /\ i = r.id THEN row ELSE stored[d][i]
    BY <1>2, <1>3, <2>1
  <2>3. QED
    BY <1>2, <2>1, <2>2
<1> HIDE DEF done, row
<1>9. PinnedIsAssigned'
  BY <1>3, <1>7 DEF IngestionInv, PinnedIsAssigned
<1>10. RowsDecode'
  <2> SUFFICES ASSUME NEW d \in Device, NEW i \in MessageId, stored'[d][i] # NoRow,
                      stored'[d][i].body.version > 0
               PROVE  DecodesAs(stored[d][i].body.version, d, stored[d][i].profile)'
    BY DEF RowsDecode
  <2>1. CASE stored'[d][i] = stored[d][i]
    BY <1>3, <1>7, <2>1 DEF IngestionInv, RowsDecode, DecodesAs
  <2>2. CASE d = r.device /\ stored'[d][i] = row
    <3>1. DecodesAs(r.body.version, d, r.profile)
      BY <1>2, <1>4, <2>2 DEF Chosen
    <3>2. QED
      BY <1>3, <1>4, <1>7, <2>2, <3>1 DEF DecodesAs
  <2>3. QED
    BY <1>8, <2>1, <2>2
<1>11. ReadingsHold'
  <2> SUFFICES ASSUME NEW g \in Handler, handler'[g] # Idle
               PROVE  ReadingHolds(handler[g])'
    BY DEF ReadingsHold
  <2>1. CASE g = h
    <3>1. handler'[g] = done
      BY <1>5, <2>1 DEF Sound, HandlingTypeOK
    <3>2. QED
      BY <1>2, <1>3, <1>4, <1>6, <1>7, <1>8, <3>1 DEF ReadingHolds, StoredOf
  <2>2. CASE g # h
    <3>1. handler'[g] = handler[g]
      BY <1>5, <2>2 DEF Sound, HandlingTypeOK
    <3>2. /\ ReadingHolds(handler[g])
          /\ handler[g].device \in Device /\ handler[g].id \in MessageId
      BY <3>1, BusyReads DEF IngestionInv, ReadingsHold, Sound
    <3>3. StoredOf(handler[g]) # NoRow =>
            stored'[handler[g].device][handler[g].id] = StoredOf(handler[g])
      BY <1>8, <3>2 DEF StoredOf
    <3>4. Chosen(handler[g]) => Chosen(handler[g])'
      BY <1>3, <1>7, <3>1 DEF Chosen, DecodesAs
    <3>5. QED
      BY <1>3, <1>7, <3>1, <3>2, <3>3, <3>4 DEF ReadingHolds, StoredOf
  <2>3. QED
    BY <2>1, <2>2
<1>12. AckedIsStored'
  <2> SUFFICES ASSUME NEW a \in acked
               PROVE  stored'[a.device][a.id] # NoRow /\ stored'[a.device][a.id].body = a.body
    BY <1>3 DEF AckedIsStored
  <2>1. a.device \in Device /\ a.id \in MessageId
    BY DEF Sound, HandlingTypeOK
  <2>2. QED
    BY <1>8, <2>1 DEF IngestionInv, AckedIsStored
<1>13. QED
  BY <1>9, <1>10, <1>11, <1>12 DEF IngestionInv

LEMMA WriteInv ==
  ASSUME Sound, IngestionInv, NEW h \in Handler, Write(h)
  PROVE  IngestionInv'
<1>1. CASE StoredOf(handler[h]) = NoRow
  BY <1>1, StoreInv
<1>2. CASE StoredOf(handler[h]) # NoRow
  <2> DEFINE done == [handler[h] EXCEPT !.at = "reply"]
             r == IF StoredOf(handler[h]).body = handler[h].body THEN done ELSE Idle
  <2>1. handler[h] # Idle
    BY AtIsBusy DEF Write
  <2>2. handler[h] \in Reading /\ ReadingHolds(handler[h])
    BY <2>1, BusyReads DEF Sound, IngestionInv, ReadingsHold
  <2>3. /\ handler' = [handler EXCEPT ![h] = r]
        /\ UNCHANGED <<vars, snapshot, assigned, stored, acked>>
    BY <1>2 DEF Write, StoredOf, configVars, historyVars
  <2>4. /\ done.at = "reply" /\ done.device = handler[h].device /\ done.id = handler[h].id
        /\ done.applied = handler[h].applied /\ done.managed = handler[h].managed
        /\ done.pinned = handler[h].pinned /\ done.body = handler[h].body
    BY <2>2 DEF Reading
  <2>5. StoredOf(handler[h]).body = handler[h].body => ReadingHolds(done)
    BY <1>2, <2>2, <2>4 DEF ReadingHolds, StoredOf
  <2> HIDE DEF done
  <2>6. r # Idle => ReadingHolds(r)
    BY <2>5
  <2> HIDE DEF r
  <2>7. ReadingsHold' /\ PinnedIsAssigned' /\ RowsDecode'
    BY <2>3, <2>6, OwnReading
  <2>8. AckedIsStored'
    BY <2>3 DEF IngestionInv, AckedIsStored
  <2>9. QED
    BY <2>7, <2>8 DEF IngestionInv
<1>3. QED
  BY <1>1, <1>2

LEMMA ReplyInv ==
  ASSUME Sound, IngestionInv, NEW h \in Handler, Reply(h)
  PROVE  IngestionInv'
<1>1. handler[h] # Idle
  BY AtIsBusy DEF Reply
<1>2. ReadingHolds(handler[h]) /\ handler[h].at = "reply"
  BY <1>1 DEF Reply, IngestionInv, ReadingsHold
<1>3. /\ handler' = [handler EXCEPT ![h] = Idle]
      /\ UNCHANGED <<vars, snapshot, assigned, stored>>
      /\ acked' = acked \cup {[device |-> handler[h].device, id |-> handler[h].id,
                               body |-> handler[h].body]}
  BY DEF Reply, configVars, historyVars
<1>4. ReadingsHold' /\ PinnedIsAssigned' /\ RowsDecode'
  BY <1>3, OwnReading
<1>5. AckedIsStored'
  BY <1>2, <1>3 DEF IngestionInv, AckedIsStored, ReadingHolds, StoredOf
<1>6. QED
  BY <1>4, <1>5 DEF IngestionInv

LEMMA GiveUpInv ==
  ASSUME Sound, IngestionInv, NEW h \in Handler, GiveUp(h)
  PROVE  IngestionInv'
<1>1. /\ handler' = [handler EXCEPT ![h] = Idle]
      /\ UNCHANGED <<vars, snapshot, assigned, stored, acked>>
  BY DEF GiveUp, configVars, historyVars
<1>2. ReadingsHold' /\ PinnedIsAssigned' /\ RowsDecode'
  BY <1>1, OwnReading
<1>3. QED
  BY <1>1, <1>2 DEF IngestionInv, AckedIsStored

LEMMA IngestionInvInit == IngestionInit => IngestionInv
<1> SUFFICES ASSUME IngestionInit PROVE IngestionInv
  OBVIOUS
<1>1. PinnedIsAssigned
  BY DEF IngestionInit, PinnedIsAssigned
<1>2. ReadingsHold /\ RowsDecode /\ AckedIsStored
  BY DEF IngestionInit, ReadingsHold, RowsDecode, AckedIsStored
<1>3. QED
  BY <1>1, <1>2 DEF IngestionInv

LEMMA IngestionInvNext ==
  ASSUME Sound, IngestionInv, [IngestionNext]_allVars
  PROVE  IngestionInv'
<1>1. CASE Configure
  BY <1>1, ConfigureInv
<1>2. ASSUME NEW h \in Handler, Handling(h) PROVE IngestionInv'
  <2>1. CASE Receive(h)
    BY <2>1, ReceiveBody, AdmitInv DEF Sound
  <2>2. QED
    BY <1>2, <2>1, FindReplayInv, ResolveInv, WriteInv, ReplyInv, GiveUpInv DEF Handling
<1>3. CASE UNCHANGED allVars
  BY <1>3 DEF allVars, vars, historyVars, ingestVars, IngestionInv, PinnedIsAssigned,
              ReadingsHold, ReadingHolds, Chosen, DecodesAs, StoredOf, RowsDecode, AckedIsStored
<1>4. QED
  BY <1>1, <1>2, <1>3, IngestionSteps

(* What every handler has read and chosen stays true until it stores, and what is
   stored and acknowledged stays so, whatever the configuration does meanwhile. *)
THEOREM IngestionInvHolds == IngestionSpec => [](Sound /\ IngestionInv)
<1>1. Sound /\ IngestionInv /\ [IngestionNext]_allVars => IngestionInv'
  BY IngestionInvNext
<1>2. QED
  BY <1>1, AlwaysSound, IngestionInvInit, PTL DEF IngestionSpec

-----------------------------------------------------------------------------
(* The properties *)

(* A stored message that names a version is decoded as that version says. *)
THEOREM DecodedByItsVersionHolds == IngestionSpec => []DecodedByItsVersion
<1>1. Sound /\ IngestionInv => DecodedByItsVersion
  <2> SUFFICES ASSUME Sound, IngestionInv, NEW d \in Device, NEW i \in MessageId,
                      stored[d][i] # NoRow, stored[d][i].body.version > 0
               PROVE  LET row == stored[d][i]
                          v   == row.body.version
                      IN IF plan[v] = NoPlan THEN row.profile = snapshot[v][d]
                         ELSE /\ plan[v][d] # Off
                              /\ row.profile = binding[v][d]
                              /\ row.profile.decoder = plan[v][d].decoder
    BY DEF DecodedByItsVersion
  <2> DEFINE row == stored[d][i]
             v == row.body.version
  <2>1. row.profile \in Profile
    BY DEF Sound, HandlingTypeOK, Row
  <2>2. DecodesAs(v, d, row.profile)
    BY DEF IngestionInv, RowsDecode
  <2>3. v \in Version
    BY <2>2, ConstantsAssumption DEF DecodesAs, Sound, TypeOK, Version
  <2>4. CASE plan[v] = NoPlan
    BY <2>2, <2>4 DEF DecodesAs
  <2>5. CASE plan[v] # NoPlan
    <3>1. binding[v][d] = row.profile /\ binding[v][d] # NoProfile
      BY <2>1, <2>2, <2>5, NullsAssumption DEF DecodesAs
    <3>2. plan[v][d] # Off /\ plan[v][d].decoder = binding[v][d].decoder
      BY <2>3, <3>1 DEF Sound, IInv, BindingsDecode
    <3>3. QED
      BY <2>5, <3>1, <3>2
  <2>6. QED
    BY <2>4, <2>5
<1>2. QED
  BY <1>1, IngestionInvHolds, PTL

(* What is acknowledged is stored, as it was sent, and stays stored. *)
THEOREM AckedIsStoredHolds == IngestionSpec => []AckedIsStored
<1>1. IngestionInv => AckedIsStored
  BY DEF IngestionInv
<1>2. QED
  BY <1>1, IngestionInvHolds, PTL

StoresAsOfCommit ==
  \A d \in Device, i \in MessageId : stored'[d][i] # stored[d][i] =>
    LET row == stored'[d][i] IN
    /\ stored[d][i] = NoRow
    /\ profile[d] # NoProfile
    /\ Managed /\ row.body.version > 0 => row.body.version = applied
    /\ row.body.version = 0 /\ row.body.hint = NoProfile =>
         row.profile.decoder = profile[d].decoder
    /\ row.billed # NoProfile =>
         meter = d /\ source = row.billed /\ row.profile = row.billed

LEMMA WriteAsOfCommit ==
  ASSUME Sound, IngestionInv, NEW h \in Handler, Write(h)
  PROVE  StoresAsOfCommit
<1> DEFINE r == handler[h]
<1>1. r # Idle /\ r.at = "write" /\ StillHolds(r)
  BY AtIsBusy DEF Write
<1>2. /\ r.device \in Device /\ r.id \in MessageId /\ r.pinned \in Profile
      /\ r.profile \in Profile /\ r.body \in Body
  BY <1>1, BusyReads DEF Sound
<1>3. CASE StoredOf(r) # NoRow
  BY <1>3 DEF Write, StoredOf, StoresAsOfCommit
<1>4. CASE StoredOf(r) = NoRow
  <2>1. Chosen(r)
    BY <1>1, <1>4 DEF IngestionInv, ReadingsHold, ReadingHolds
  <2>2. stored' = [stored EXCEPT ![r.device][r.id] = NewRow(r)]
    BY <1>4 DEF Write, StoredOf
  <2>3. /\ profile[r.device] = r.pinned /\ r.pinned # NoProfile
        /\ Managed => applied = r.applied
        /\ SourceOf(r.device) = r.source
    BY <1>1, <1>2, NullsAssumption DEF StillHolds
  <2>4. NewRow(r).billed # NoProfile =>
          /\ meter = r.device /\ source = NewRow(r).billed
          /\ NewRow(r).profile = NewRow(r).billed
    BY <2>3 DEF NewRow, SourceOf
  <2>5. NewRow(r).body = r.body /\ NewRow(r).profile = r.profile
    BY DEF NewRow
  <2> SUFFICES ASSUME NEW d \in Device, NEW i \in MessageId, stored'[d][i] # stored[d][i]
               PROVE  LET row == stored'[d][i] IN
                      /\ stored[d][i] = NoRow
                      /\ profile[d] # NoProfile
                      /\ Managed /\ row.body.version > 0 => row.body.version = applied
                      /\ row.body.version = 0 /\ row.body.hint = NoProfile =>
                           row.profile.decoder = profile[d].decoder
                      /\ row.billed # NoProfile =>
                           meter = d /\ source = row.billed /\ row.profile = row.billed
    BY DEF StoresAsOfCommit
  <2>6. d = r.device /\ i = r.id /\ stored'[d][i] = NewRow(r)
    BY <1>2, <2>2 DEF Sound, HandlingTypeOK
  <2>7. QED
    BY <1>4, <2>1, <2>3, <2>4, <2>5, <2>6 DEF Chosen, StoredOf
<1>5. QED
  BY <1>3, <1>4

(* What is stored is right at the moment of the commit and is not touched again. *)
THEOREM StoredAsOfCommitHolds == IngestionSpec => StoredAsOfCommit
<1>1. Sound /\ IngestionInv /\ [IngestionNext]_allVars => [StoresAsOfCommit]_allVars
  <2> SUFFICES ASSUME Sound, IngestionInv, [IngestionNext]_allVars PROVE StoresAsOfCommit
    OBVIOUS
  <2>1. CASE \E h \in Handler : Write(h)
    BY <2>1, WriteAsOfCommit
  <2>2. CASE ~ \E h \in Handler : Write(h)
    <3>1. stored' = stored
      <4>1. CASE Configure
        BY <4>1 DEF Configure, ingestVars
      <4>2. CASE \E h \in Handler : Handling(h)
        BY <2>2, <4>2 DEF Handling, Receive, Admit, FindReplay, Resolve, Reply, GiveUp
      <4>3. CASE UNCHANGED allVars
        BY <4>3 DEF allVars, ingestVars
      <4>4. QED
        BY <4>1, <4>2, <4>3, IngestionSteps
    <3>2. QED
      BY <3>1 DEF StoresAsOfCommit
  <2>3. QED
    BY <2>1, <2>2
<1>2. QED
  BY <1>1, IngestionInvHolds, PTL DEF IngestionSpec, StoredAsOfCommit, StoresAsOfCommit
=============================================================================
