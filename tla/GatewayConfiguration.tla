------------------------ MODULE GatewayConfiguration ------------------------
(***************************************************************************)
(* The control plane of one gateway (gateway-configuration.service.ts):    *)
(* onboarding, adoption of a legacy gateway, proposals, immutable desired  *)
(* revisions, and the reports by which the gateway activates one, together *)
(* with the billing source binding that pins a device's decoder            *)
(* (billing-source-binding.service.ts).                                    *)
(*                                                                         *)
(* Every operation is one transaction that locks the site, then the        *)
(* gateway, so an action is an operation; an operation the code refuses    *)
(* rolls back and is no step.  What the actions leave to chance is which   *)
(* of them comes next: a revision is approved, waits, and is applied by a  *)
(* report that may come after other approvals, reports and billing changes.*)
(***************************************************************************)
EXTENDS Integers

CONSTANTS
  Device,        \* external device identities of the gateway
  Decoder,       \* what sameDecoder compares, for one device type
  Metering,      \* the decoders with a cumulative billing-import field
  Link,          \* protocol, connection and serial number of a device
  NoLink,        \* a telemetry-only device: no connection; may be in Link
  Proposal,      \* proposal identities the gateway may use
  Off,           \* a device that a configuration disables or does not list
  NoPlan,        \* no control-plane revision has this version
  NoProfile,     \* payload_profile_revision_id IS NULL (device disabled)
  NoDevice,      \* no active billing meter
  DemoAnonymous, \* gatewayAuthenticationMode() = 'demo-anonymous'
  MaxVersion     \* bound: configuration revisions

ASSUME ConstantsAssumption ==
  /\ MaxVersion \in Nat
  /\ DemoAnonymous \in BOOLEAN
  /\ Metering \subseteq Decoder
  /\ NoDevice \notin Device

Version == 1 .. MaxVersion

(* A configuration: per device what it sets when it enables the device. *)
Setting == [decoder: Decoder, link: Link]
Plan == [Device -> Setting \cup {Off}]

(* A pinned payload profile revision: the version that created it (0: before
   the control plane) tells it from the device's other ones. *)
Profile == [since: 0 .. MaxVersion, decoder: Decoder]

ASSUME NullsAssumption ==
  /\ Off \notin Setting
  /\ NoPlan \notin Plan
  /\ NoProfile \notin Profile

VARIABLES
  lifecycle,   \* "unassigned" (only discovered) or gateways.lifecycle_state
  configState, \* gateways.config_state
  desired,     \* gateways.desired_config_version
  acknowledged,\* gateways.acknowledged_config_version
  applied,     \* gateways.applied_config_version, active_config_hash
  plan,        \* gateway_configuration_revisions of the control plane
  profile,     \* devices.payload_profile_revision_id
  binding,     \* gateway_configuration_device_bindings
  meter,       \* device of the site's active billing meter
  source,      \* profile_revision_id of its billing source binding
  proposal,    \* gateway_config_proposals
  reported,    \* versions an 'applied' report was recorded for
  published    \* legacy revisions with published_at

vars == <<lifecycle, configState, desired, acknowledged, applied, plan, profile,
          binding, meter, source, proposal, reported, published>>
deviceVars  == <<profile, binding>>
billingVars == <<meter, source>>

NoProposal == [status |-> "none", base |-> 0, plan |-> NoPlan, version |-> 0]

TypeOK ==
  /\ lifecycle \in {"unassigned", "configuring", "active"}
  /\ configState \in {"pending_sync", "applied", "failed", "drifted"}
  /\ desired \in 0 .. MaxVersion
  /\ acknowledged \in 0 .. MaxVersion
  /\ applied \in 0 .. MaxVersion
  /\ plan \in [Version -> Plan \cup {NoPlan}]
  /\ profile \in [Device -> Profile \cup {NoProfile}]
  /\ binding \in [Version -> [Device -> Profile \cup {NoProfile}]]
  /\ meter \in Device \cup {NoDevice}
  /\ source \in Profile \cup {NoProfile}
  /\ proposal \in [Proposal ->
       [status: {"none", "pending", "approved", "rejected"}, base: 0 .. MaxVersion,
        plan: Plan \cup {NoPlan}, version: 0 .. MaxVersion]]
  /\ reported \subseteq 0 .. MaxVersion
  /\ published \subseteq Version

(* A legacy site has devices and perhaps a main meter, whose billing source is
   bound if its profile has a billing field. *)
LegacyMeter ==
  \/ meter = NoDevice /\ source = NoProfile
  \/ /\ meter \in Device
     /\ \/ source = NoProfile
        \/ /\ profile[meter] # NoProfile
           /\ profile[meter].decoder \in Metering
           /\ source = profile[meter]

(* A gateway that was only discovered, or a legacy one in service with nothing
   applied yet. *)
Init ==
  /\ \/ /\ lifecycle = "unassigned"
        /\ profile = [d \in Device |-> NoProfile]
        /\ meter = NoDevice
        /\ source = NoProfile
     \/ /\ lifecycle = "active"
        /\ profile \in [Device -> [since: {0}, decoder: Decoder] \cup {NoProfile}]
        /\ LegacyMeter
  /\ configState = "applied"
  /\ desired = 0
  /\ acknowledged = 0
  /\ applied = 0
  /\ plan = [v \in Version |-> NoPlan]
  /\ binding = [v \in Version |-> [d \in Device |-> NoProfile]]
  /\ proposal = [p \in Proposal |-> NoProposal]
  /\ reported = {}
  /\ published = {}

-----------------------------------------------------------------------------
(* The control plane has issued a revision of this gateway. *)
Managed == \E v \in Version : plan[v] # NoPlan

(* The active revision is one of the control plane: a legacy gateway may have
   applied legacy ones, which carry neither plan nor connection. *)
PlanActive == applied > 0 /\ plan[applied] # NoPlan

SameDecoder(d, s) == profile[d] # NoProfile /\ profile[d].decoder = s.decoder

(* validateExistingPlan: the billing device may not be removed, must keep a
   billing field and, once its source is bound, its decoder. *)
ContinuousPlan(pl) ==
  meter # NoDevice =>
    /\ pl[meter] # Off
    /\ pl[meter].decoder \in Metering
    /\ source # NoProfile => SameDecoder(meter, pl[meter])

(* Mutant: the connection is not compared. *)
ValidPlanAnyLink(pl) ==
  /\ ContinuousPlan(pl)
  /\ meter # NoDevice /\ source # NoProfile =>
       PlanActive /\ plan[applied][meter] # Off /\ plan[applied][meter].link # NoLink

(* Without the administrator's continuity evidence a bound device keeps its
   connection too, and only one known from the active revision can be kept. *)
ValidPlan(pl) ==
  /\ ContinuousPlan(pl)
  /\ meter # NoDevice /\ source # NoProfile =>
       /\ PlanActive
       /\ plan[applied][meter] # Off
       /\ plan[applied][meter].link # NoLink
       /\ plan[applied][meter].link = pl[meter].link

(* Mutant: devices the configuration drops stay enabled. *)
MaterialisedKeepingOff(pl, v) ==
  [d \in Device |->
     IF pl[d] = Off \/ SameDecoder(d, pl[d]) THEN profile[d]
     ELSE [since |-> v, decoder |-> pl[d].decoder]]

(* applyDevices: disable what the configuration does not enable, keep the
   pinned profile of a device whose decoder is the same, pin a new profile
   revision to the others. *)
Materialised(pl, v) ==
  [d \in Device |->
     IF pl[d] = Off THEN NoProfile
     ELSE IF SameDecoder(d, pl[d]) THEN profile[d]
     ELSE [since |-> v, decoder |-> pl[d].decoder]]

(* bindAppliedDevices: bind the enabled devices whose pinned profile decodes
   what revision v configures; rows that exist stay (ON CONFLICT DO NOTHING). *)
Bound(pl, v, pinned) ==
  [binding EXCEPT ![v] = [d \in Device |->
     IF /\ binding[v][d] = NoProfile
        /\ pl[d] # Off
        /\ pinned[d] # NoProfile
        /\ pinned[d].decoder = pl[d].decoder
       THEN pinned[d] ELSE binding[v][d]]]

(* saveRevision: an immutable revision with the next version is desired. *)
SaveRevision(pl) ==
  /\ desired < MaxVersion
  /\ desired' = desired + 1
  /\ plan' = [plan EXCEPT ![desired + 1] = pl]

(* confirm: an administrator onboards the discovered gateway. *)
Confirm(pl) ==
  /\ lifecycle = "unassigned"
  /\ SaveRevision(pl)
  /\ profile' = Materialised(pl, 1)
  /\ binding' = Bound(pl, 1, profile')
  /\ IF DemoAnonymous
       THEN lifecycle' = "active" /\ configState' = "applied" /\ applied' = 1
       ELSE lifecycle' = "configuring" /\ configState' = "pending_sync" /\ UNCHANGED applied
  /\ UNCHANGED <<acknowledged, billingVars, proposal, reported, published>>

(* correctInitialConfig *)
CorrectInitialConfig(pl) ==
  /\ lifecycle = "configuring"
  /\ applied = 0
  /\ configState \in {"pending_sync", "failed"}
  /\ ValidPlan(pl)
  /\ SaveRevision(pl)
  /\ configState' = "pending_sync"
  /\ UNCHANGED <<lifecycle, acknowledged, applied, deviceVars, billingVars, proposal,
                 reported, published>>

(* adoptExisting: a legacy gateway comes under the control plane, its plan in
   force at once. *)
AdoptExisting(pl) ==
  /\ lifecycle # "unassigned"
  /\ ~Managed
  /\ ContinuousPlan(pl)
  /\ SaveRevision(pl)
  /\ profile' = Materialised(pl, desired + 1)
  /\ binding' = Bound(pl, desired + 1, profile')
  /\ applied' = desired + 1
  /\ lifecycle' = "active"
  /\ configState' = "applied"
  /\ UNCHANGED <<acknowledged, billingVars, proposal, reported, published>>

(* snapshotGatewayConfiguration: a legacy revision, which is no plan, is
   desired of a gateway that no control-plane revision was issued for. *)
SnapshotGatewayConfiguration ==
  /\ lifecycle # "unassigned"
  /\ ~Managed
  /\ desired < MaxVersion
  /\ desired' = desired + 1

(* upgradePayloadProfile: a legacy device gets a new revision of its own, or one
   that exists, perhaps one it had before. *)
UpgradePayloadProfile(d, revision) ==
  /\ revision.since <= desired + 1
  /\ meter = d => revision.decoder \in Metering
  /\ SnapshotGatewayConfiguration
  /\ profile' = [profile EXCEPT ![d] = revision]
  /\ UNCHANGED <<lifecycle, configState, acknowledged, applied, plan, binding,
                 billingVars, proposal, reported, published>>

(* publishGatewayConfiguration: the legacy configuration is sent to the
   hardware, and recorded as published if the broker took it. *)
PublishGatewayConfiguration(sent) ==
  /\ SnapshotGatewayConfiguration
  /\ published' = IF sent THEN published \cup {desired + 1} ELSE published
  /\ UNCHANGED <<lifecycle, configState, acknowledged, applied, plan, deviceVars,
                 billingVars, proposal, reported>>

(* acknowledgeGatewayConfiguration: configAck of a published legacy revision. *)
AcknowledgeGatewayConfiguration(v, done) ==
  /\ ~Managed
  /\ v \in published
  /\ acknowledged' = IF acknowledged < v THEN v ELSE acknowledged
  /\ applied' = IF done /\ applied < v THEN v ELSE applied
  /\ UNCHANGED <<lifecycle, configState, desired, plan, deviceVars, billingVars,
                 proposal, reported, published>>

-----------------------------------------------------------------------------
(* recordProposal: configUpdate from the gateway, which may name any version as
   its base.  A proposal identity that is known already changes nothing. *)
RecordProposal(p, b, pl) ==
  /\ lifecycle = "active"
  /\ proposal[p] = NoProposal
  /\ proposal' = [proposal EXCEPT ![p] =
       [status |-> "pending", base |-> b, plan |-> pl, version |-> 0]]
  /\ UNCHANGED <<lifecycle, configState, desired, acknowledged, applied, plan,
                 deviceVars, billingVars, reported, published>>

(* Mutant: approval that does not compare the base with the active version. *)
ApproveStaleProposal(p) ==
  /\ lifecycle = "active"
  /\ proposal[p].status = "pending"
  /\ ValidPlan(proposal[p].plan)
  /\ SaveRevision(proposal[p].plan)
  /\ configState' = "pending_sync"
  /\ proposal' = [proposal EXCEPT ![p].status = "approved", ![p].version = desired + 1]
  /\ UNCHANGED <<lifecycle, acknowledged, applied, deviceVars, billingVars, reported, published>>

(* approveProposal *)
ApproveProposal(p) ==
  /\ lifecycle = "active"
  /\ proposal[p].status = "pending"
  /\ proposal[p].base = applied
  /\ ValidPlan(proposal[p].plan)
  /\ SaveRevision(proposal[p].plan)
  /\ configState' = "pending_sync"
  /\ proposal' = [proposal EXCEPT ![p].status = "approved", ![p].version = desired + 1]
  /\ UNCHANGED <<lifecycle, acknowledged, applied, deviceVars, billingVars, reported, published>>

(* rejectProposal *)
RejectProposal(p) ==
  /\ lifecycle # "unassigned"
  /\ proposal[p].status = "pending"
  /\ proposal' = [proposal EXCEPT ![p].status = "rejected"]
  /\ UNCHANGED <<lifecycle, configState, desired, acknowledged, applied, plan,
                 deviceVars, billingVars, reported, published>>

-----------------------------------------------------------------------------
(* Mutants: a report of any issued revision counts, or only while no drift
   was seen. *)
MatchingAnyRevision(v) == v \in 1 .. desired /\ plan[v] # NoPlan
MatchingUndrifted(v) ==
  v \in Version /\ v = desired /\ plan[v] # NoPlan /\ configState # "drifted"

(* A report is about the desired revision, version and hash.  Version 0 stands
   for a version or hash that no revision has. *)
Matching(v) == v \in Version /\ v = desired /\ plan[v] # NoPlan

(* recordConfigStatus, one action per outcome; v is the reported version, and
   the message identity is new. *)
ReportMismatch(status, v) ==
  /\ lifecycle # "unassigned"
  /\ ~Matching(v)
  /\ configState' = "drifted"
  /\ reported' = IF status = "applied" THEN reported \cup {v} ELSE reported
  /\ UNCHANGED <<lifecycle, desired, acknowledged, applied, plan, deviceVars,
                 billingVars, proposal, published>>

ReportFailed(v) ==
  /\ Matching(v)
  /\ configState' = IF applied < v THEN "failed" ELSE configState
  /\ UNCHANGED <<lifecycle, desired, acknowledged, applied, plan, deviceVars,
                 billingVars, proposal, reported, published>>

Acknowledge(v) == acknowledged' = IF acknowledged < v THEN v ELSE acknowledged

ReportReceived(v) ==
  /\ Matching(v)
  /\ Acknowledge(v)
  /\ UNCHANGED <<lifecycle, configState, desired, applied, plan, deviceVars,
                 billingVars, proposal, reported, published>>

ReportAppliedAgain(v) ==
  /\ Matching(v)
  /\ applied >= v
  /\ Acknowledge(v)
  /\ binding' = Bound(plan[v], v, profile)
  /\ configState' = "applied"
  /\ reported' = reported \cup {v}
  /\ UNCHANGED <<lifecycle, desired, applied, plan, profile, billingVars, proposal, published>>

(* Mutant: devices are bound before they are materialised. *)
ActivateBindingFirst(v) ==
  /\ Matching(v)
  /\ applied < v
  /\ ValidPlan(plan[v])
  /\ Acknowledge(v)
  /\ binding' = Bound(plan[v], v, profile)
  /\ profile' = Materialised(plan[v], v)
  /\ applied' = v
  /\ lifecycle' = "active"
  /\ configState' = "applied"
  /\ reported' = reported \cup {v}
  /\ UNCHANGED <<desired, plan, billingVars, proposal, published>>

(* The desired revision becomes the active one.  When applyDevices refuses the
   plan the whole transaction rolls back and not even the report is kept. *)
Activate(v) ==
  /\ Matching(v)
  /\ applied < v
  /\ ValidPlan(plan[v])
  /\ Acknowledge(v)
  /\ profile' = Materialised(plan[v], v)
  /\ binding' = Bound(plan[v], v, profile')
  /\ applied' = v
  /\ lifecycle' = "active"
  /\ configState' = "applied"
  /\ reported' = reported \cup {v}
  /\ UNCHANGED <<desired, plan, billingVars, proposal, published>>

(* The same message again: an 'applied' report of the active revision repairs
   its bindings and nothing else. *)
ReportRedelivered(v) ==
  /\ v \in reported \cap Version
  /\ plan[v] # NoPlan
  /\ applied = v
  /\ binding' = Bound(plan[v], v, profile)
  /\ UNCHANGED <<lifecycle, configState, desired, acknowledged, applied, plan, profile,
                 billingVars, proposal, reported, published>>

(* recordConnectionStatus: the gateway names the revision it runs, 0 for none
   or an unknown one; a legacy revision has no active hash to agree with. *)
ReportConnection(v) ==
  /\ applied > 0
  /\ v # applied \/ ~PlanActive
  /\ configState' = "drifted"
  /\ UNCHANGED <<lifecycle, desired, acknowledged, applied, plan, deviceVars,
                 billingVars, proposal, reported, published>>

-----------------------------------------------------------------------------
(* bind: an administrator makes device d the billing source, or replaces the
   source of the same meter by the device's present profile. *)
BindBillingSource(d) ==
  /\ lifecycle # "unassigned"
  /\ profile[d] # NoProfile
  /\ profile[d].decoder \in Metering
  /\ meter \in {NoDevice, d}
  /\ meter' = d
  /\ source' = profile[d]
  /\ UNCHANGED <<lifecycle, configState, desired, acknowledged, applied, plan,
                 deviceVars, proposal, reported, published>>

-----------------------------------------------------------------------------
Onboarding == \E pl \in Plan :
  Confirm(pl) \/ CorrectInitialConfig(pl) \/ AdoptExisting(pl)

Legacy ==
  \/ \E d \in Device, revision \in Profile : UpgradePayloadProfile(d, revision)
  \/ \E sent \in BOOLEAN : PublishGatewayConfiguration(sent)
  \/ \E v \in Version, done \in BOOLEAN : AcknowledgeGatewayConfiguration(v, done)

Review == \E p \in Proposal :
  \/ \E b \in Version, pl \in Plan : RecordProposal(p, b, pl)
  \/ ApproveProposal(p)
  \/ RejectProposal(p)

Report == \E v \in 0 .. desired :
  \/ \E status \in {"received", "applied", "failed"} : ReportMismatch(status, v)
  \/ ReportFailed(v)
  \/ ReportReceived(v)
  \/ ReportAppliedAgain(v)
  \/ Activate(v)
  \/ ReportRedelivered(v)
  \/ ReportConnection(v)

Billing == \E d \in Device : BindBillingSource(d)

Next == Onboarding \/ Legacy \/ Review \/ Report \/ Billing

Spec == Init /\ [][Next]_vars

(* The gateway reconnects, gets the retained desired configuration and keeps
   reporting it as applied, with a new message each time. *)
Fairness == SF_vars(\E v \in Version : Activate(v))

FairSpec == Spec /\ Fairness
-----------------------------------------------------------------------------
(* PROPERTIES *)

(* Exactly the devices of the active revision are enabled, and each is decoded
   as that revision says, however many revisions were approved, refused or
   superseded in between (applyDevices, recordConfigStatus). *)
ActiveMatchesDevices ==
  PlanActive => \A d \in Device :
    IF plan[applied][d] = Off THEN profile[d] = NoProfile
    ELSE SameDecoder(d, plan[applied][d])

(* Telemetry stamped with the active version finds for every enabled device the
   very profile the device is pinned to, also when the profile was kept over
   several revisions (bindAppliedDevices). *)
ActiveVersionIsBound == PlanActive => binding[applied] = profile

(* The state shown to the administrator: in sync only when the desired revision
   is the active one, waiting or failed only when it is not
   (recordConfigStatus, recordConnectionStatus, saveRevision). *)
SyncStateIsTruthful ==
  Managed =>
    /\ configState = "applied" => applied = desired
    /\ configState \in {"pending_sync", "failed"} => applied < desired

(* Revisions are issued in order, legacy or not, and the active one was issued. *)
RevisionsInOrder ==
  /\ \A v \in Version : v > desired => plan[v] = NoPlan /\ v \notin published
  /\ applied <= desired

(* Where a gateway stands: nothing exists before onboarding, and a gateway is
   under the control plane and not yet active exactly while it is configuring. *)
LifecycleMatches ==
  /\ lifecycle = "unassigned" => desired = 0 /\ \A d \in Device : profile[d] = NoProfile
  /\ lifecycle = "configuring" <=> Managed /\ applied = 0

(* A binding decodes what its revision says; ahead of activation only the
   devices of a gateway being onboarded are bound, to what they are pinned to. *)
BindingsDecode ==
  \A v \in Version, d \in Device : binding[v][d] # NoProfile =>
    /\ plan[v] # NoPlan
    /\ plan[v][d] # Off
    /\ plan[v][d].decoder = binding[v][d].decoder
    /\ v > applied => lifecycle = "configuring" /\ binding[v][d] = profile[d]

(* Once its source is bound or a control-plane revision is active, the billing
   device is in service with a decoder that has a billing field. *)
MeterInService ==
  /\ meter # NoDevice => lifecycle # "unassigned"
  /\ meter # NoDevice /\ (source # NoProfile \/ PlanActive) =>
       profile[meter] # NoProfile /\ profile[meter].decoder \in Metering

(* An approved proposal that still waits is based on the active revision. *)
ApprovalsBasedOnActive ==
  \A p \in Proposal : proposal[p].status = "approved" =>
    /\ proposal[p].version \in 1 .. desired
    /\ plan[proposal[p].version] # NoPlan
    /\ proposal[p].version = desired /\ applied < desired => proposal[p].base = applied

(* A proposal names a revision as its base and carries a plan. *)
ProposalsWellFormed ==
  \A p \in Proposal : proposal[p].status # "none" =>
    proposal[p].base > 0 /\ proposal[p].plan # NoPlan

(* The strengthening that is inductive. *)
IInv ==
  /\ RevisionsInOrder
  /\ LifecycleMatches
  /\ ActiveMatchesDevices
  /\ ActiveVersionIsBound
  /\ BindingsDecode
  /\ SyncStateIsTruthful
  /\ MeterInService
  /\ ApprovalsBasedOnActive
  /\ ProposalsWellFormed

(* A proposal is only ever put in force on top of the revision it was computed
   from, although approvals, reports and other proposals come in any order
   (approveProposal compares the base, recordConfigStatus the version). *)
ProposalBasedOnActive ==
  [][applied' # applied => \A p \in Proposal :
       proposal[p].status = "approved" /\ proposal[p].version = applied'
         => proposal[p].base = applied]_vars

(* Under the control plane a bound billing device keeps its profile revision,
   so the meaning of its billed readings never changes, and once a revision is
   active it keeps its connection (validateExistingPlan, applyDevices). *)
BillingDeviceFrozen ==
  [][Managed /\ meter # NoDevice /\ source # NoProfile =>
       /\ profile'[meter] = profile[meter]
       /\ PlanActive => plan'[applied'][meter].link = plan[applied][meter].link]_vars

(* Every revision the gateway keeps reporting as applied is in force in the
   end, or a newer one is, as long as no billing source is bound
   (recordConfigStatus: drift is no dead end). *)
UnboundIsEventuallyApplied ==
  [](source = NoProfile) => (Managed /\ applied < desired ~> applied = desired)
=============================================================================
