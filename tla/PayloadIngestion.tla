-------------------------- MODULE PayloadIngestion --------------------------
(* How telemetry of one gateway is accepted while its configuration changes
   (PayloadIngestion.accept, composed with GatewayConfiguration).

   Messages are handled at the same time by the handlers of one or several
   processes, and the broker delivers a message again until it is acknowledged.
   A handler reads the registered device, then what it stored of the message,
   then the assigned profiles and bindings, in statements of their own; the
   transaction that stores the message looks again, under its locks, whether
   what was read still holds.

   Left out: what a value means once its profile is chosen; the site's, broker's
   and credentials' admission, which is read and looked at again like the
   configuration; receive aliases.  A message refused for any of these is given
   up, like one whose process ends. *)
EXTENDS GatewayConfiguration

CONSTANTS
  Handler,     \* messages handled at the same time
  MessageId,
  Content,     \* the values of a message, all that its digest covers besides
  NoRow

VARIABLES
  snapshot,    \* the devices of legacy revisions: profileRevisionId
  assigned,    \* device_profile_assignments
  stored,      \* payload_messages, with what telemetry_raw makes billable
  acked,       \* the acknowledgements sent
  handler

configVars  == vars
ingestVars  == <<stored, acked, handler>>
historyVars == <<snapshot, assigned>>
allVars     == <<vars, historyVars, ingestVars>>

(* version 0: the message names no configuration; hint is its profile reference. *)
Body == [version: 0 .. MaxVersion, hint: Profile \cup {NoProfile}, content: Content]

(* billed: the billing source whose reading the message is. *)
Row == [body: Body, profile: Profile, billed: Profile \cup {NoProfile}]

ASSUME NoRowAssumption == NoRow \notin Row

(* What a handler has read: the active version, whether the gateway is under the
   control plane, the pinned profile and the billing source of the device; and
   the profile it chose. *)
Reading ==
  [at: {"replay", "resolve", "write", "reply"}, device: Device, id: MessageId, body: Body,
   applied: 0 .. MaxVersion, managed: BOOLEAN, pinned: Profile,
   source: Profile \cup {NoProfile}, profile: Profile]

Idle == [at |-> "idle"]

IngestionTypeOK ==
  /\ TypeOK
  /\ snapshot \in [Version -> [Device -> Profile \cup {NoProfile}]]
  /\ assigned \in [Device -> SUBSET Profile]
  /\ stored \in [Device -> [MessageId -> Row \cup {NoRow}]]
  /\ acked \subseteq [device: Device, id: MessageId, body: Body]
  /\ handler \in [Handler -> Reading \cup {Idle}]

IngestionInit ==
  /\ Init
  /\ snapshot = [v \in Version |-> [d \in Device |-> NoProfile]]
  /\ assigned = [d \in Device |-> {profile[d]} \ {NoProfile}]
  /\ stored = [d \in Device |-> [i \in MessageId |-> NoRow]]
  /\ acked = {}
  /\ handler = [h \in Handler |-> Idle]

-----------------------------------------------------------------------------
(* A step of the configuration.  The trigger on devices keeps what was ever
   assigned, and a legacy revision lists the profiles of the moment. *)
Assign == assigned' = [d \in Device |-> assigned[d] \cup ({profile'[d]} \ {NoProfile})]

Configure ==
  /\ Next
  /\ Assign
  /\ snapshot' = IF desired' # desired /\ plan'[desired'] = NoPlan
                   THEN [snapshot EXCEPT ![desired'] = profile'] ELSE snapshot
  /\ UNCHANGED ingestVars

-----------------------------------------------------------------------------
(* Where a message is at home: the gateway is in service with an active
   configuration, or it is a legacy one; the device is enabled. *)
Admitted(d) ==
  /\ lifecycle = "active"
  /\ PlanActive \/ ~Managed
  /\ profile[d] # NoProfile

(* billing_source_binding_id of the device's active meter *)
SourceOf(d) == IF meter = d THEN source ELSE NoProfile

(* A message comes, and the registered device is read. *)
Admit(h, d, i, b) ==
  /\ handler[h] = Idle
  /\ Admitted(d)
  /\ handler' = [handler EXCEPT ![h] =
       [at |-> "replay", device |-> d, id |-> i, body |-> b, applied |-> applied,
        managed |-> Managed, pinned |-> profile[d], source |-> SourceOf(d),
        profile |-> profile[d]]]
  /\ UNCHANGED <<configVars, historyVars, stored, acked>>

GoTo(h, at) == handler' = [handler EXCEPT ![h].at = at]

(* A message that is stored is read as it was then: its profile is not chosen
   again. *)
FindReplay(h) ==
  /\ handler[h].at = "replay"
  /\ GoTo(h, IF stored[handler[h].device][handler[h].id] = NoRow THEN "resolve" ELSE "write")
  /\ UNCHANGED <<configVars, historyVars, stored, acked>>

(* Mutant: a configuration that was not found is taken for the present one. *)
RegisteredOrPinned(r) ==
  IF binding[r.body.version][r.device] # NoProfile THEN binding[r.body.version][r.device]
  ELSE r.pinned

(* The profile registered for the device in the version a message names: the
   binding or, while the gateway is a legacy one, the snapshot. *)
Registered(r) ==
  IF binding[r.body.version][r.device] # NoProfile THEN binding[r.body.version][r.device]
  ELSE IF r.managed THEN NoProfile ELSE snapshot[r.body.version][r.device]

(* A message whose version is not the active one, has no profile registered, or
   contradicts its own profile reference. *)
Refused(r) ==
  /\ r.body.version # 0
  /\ \/ r.body.version # r.applied
     \/ Registered(r) = NoProfile
     \/ r.body.hint \notin {NoProfile, Registered(r)}

(* The profile a message asks for, if any. *)
Wanted(r) == IF r.body.version = 0 THEN r.body.hint ELSE Registered(r)

Candidates(r) == {p \in assigned[r.device] : Wanted(r) \in {NoProfile, p}}

(* The profile is chosen: the latest of the candidates, which must all decode
   alike.  Two statements read them; a profile that is assigned in between can
   only make the handler give up. *)
Resolve(h) ==
  /\ handler[h].at = "resolve"
  /\ ~Refused(handler[h])
  /\ \A p, q \in Candidates(handler[h]) : p.decoder = q.decoder
  /\ \E p \in Candidates(handler[h]) :
       /\ \A q \in Candidates(handler[h]) : q.since <= p.since
       /\ handler' = [handler EXCEPT ![h].at = "write", ![h].profile = p]
  /\ UNCHANGED <<configVars, historyVars, stored, acked>>

-----------------------------------------------------------------------------
(* Mutant: the transaction does not look again at the device and its billing
   source. *)
HoldsForGateway(r) ==
  /\ lifecycle = "active"
  /\ (PlanActive /\ applied = r.applied) \/ ~Managed

(* What was read still holds. *)
StillHolds(r) ==
  /\ lifecycle = "active"
  /\ (PlanActive /\ applied = r.applied) \/ ~Managed
  /\ profile[r.device] = r.pinned
  /\ SourceOf(r.device) = r.source

(* A reading is billable when the source was bound for the very profile that
   decodes it. *)
NewRow(r) ==
  [body |-> r.body, profile |-> r.profile,
   billed |-> IF r.source = r.profile THEN r.source ELSE NoProfile]

(* Mutant: whatever is found under the identity is acknowledged. *)
WriteWithoutDigest(h) ==
  LET r == handler[h] IN
  /\ r.at = "write"
  /\ StillHolds(r)
  /\ stored' = IF stored[r.device][r.id] = NoRow
                 THEN [stored EXCEPT ![r.device][r.id] = NewRow(r)] ELSE stored
  /\ GoTo(h, "reply")
  /\ UNCHANGED <<configVars, historyVars, acked>>

(* The transaction: ON CONFLICT DO NOTHING, then the digest is compared. *)
Write(h) ==
  LET r == handler[h]  old == stored[r.device][r.id] IN
  /\ r.at = "write"
  /\ StillHolds(r)
  /\ \/ /\ old = NoRow
        /\ stored' = [stored EXCEPT ![r.device][r.id] = NewRow(r)]
        /\ GoTo(h, "reply")
     \/ /\ old # NoRow
        /\ handler' = [handler EXCEPT ![h] =
                         IF old.body = r.body THEN [r EXCEPT !.at = "reply"] ELSE Idle]
        /\ UNCHANGED stored
  /\ UNCHANGED <<configVars, historyVars, acked>>

(* The acknowledgement is published after the commit. *)
Reply(h) ==
  LET r == handler[h] IN
  /\ r.at = "reply"
  /\ acked' = acked \cup {[device |-> r.device, id |-> r.id, body |-> r.body]}
  /\ handler' = [handler EXCEPT ![h] = Idle]
  /\ UNCHANGED <<configVars, historyVars, stored>>

(* The message is refused, the transaction rolls back, the broker is gone, or
   the process ends. *)
GiveUp(h) ==
  /\ handler[h] # Idle
  /\ handler' = [handler EXCEPT ![h] = Idle]
  /\ UNCHANGED <<configVars, historyVars, stored, acked>>

Receive(h) ==
  \E d \in Device, i \in MessageId, v \in 0 .. desired, c \in Content :
    \E p \in assigned[d] \cup {NoProfile} :
      Admit(h, d, i, [version |-> v, hint |-> p, content |-> c])

IngestionNext ==
  \/ Configure
  \/ \E h \in Handler :
       Receive(h) \/ FindReplay(h) \/ Resolve(h) \/ Write(h) \/ Reply(h) \/ GiveUp(h)

IngestionSpec == IngestionInit /\ [][IngestionNext]_allVars
-----------------------------------------------------------------------------
(* PROPERTIES *)

(* A stored message that names a configuration is decoded as that configuration
   says, for ever: by the profile bound to its version under the control plane,
   by that of the snapshot in a legacy one, although the version was superseded,
   adopted or applied again while it was handled or since (accept, which trusts
   bindings read outside the transaction that stores). *)
DecodedByItsVersion ==
  \A d \in Device, i \in MessageId :
    LET row == stored[d][i]
        v   == row.body.version
    IN row # NoRow /\ v > 0 =>
         IF plan[v] = NoPlan THEN row.profile = snapshot[v][d]
         ELSE /\ plan[v][d] # Off
              /\ row.profile = binding[v][d]
              /\ row.profile.decoder = plan[v][d].decoder

(* What is acknowledged is stored and stays stored: the message itself, not
   another one under its identity, whatever was delivered twice or given up
   (the acknowledgement after commit, the digest of a replay). *)
AckedIsStored ==
  \A a \in acked : stored[a.device][a.id] # NoRow /\ stored[a.device][a.id].body = a.body

(* What is stored is right at the moment of the commit, although it was read
   before: a version that is named is the active one of a managed gateway; a
   message that names nothing is decoded as the device is now; a reading counts
   for the bill only under the source of now, bound for its profile.  And what
   was stored is not touched again. *)
StoredAsOfCommit ==
  [][\A d \in Device, i \in MessageId : stored'[d][i] # stored[d][i] =>
       LET row == stored'[d][i] IN
       /\ stored[d][i] = NoRow
       /\ profile[d] # NoProfile
       /\ Managed /\ row.body.version > 0 => row.body.version = applied
       /\ row.body.version = 0 /\ row.body.hint = NoProfile =>
            row.profile.decoder = profile[d].decoder
       /\ row.billed # NoProfile =>
            meter = d /\ source = row.billed /\ row.profile = row.billed]_allVars
=============================================================================
