------------------------- MODULE ConfigPublication -------------------------
(***************************************************************************)
(* How the API publishes a gateway's desired configuration as the RETAINED *)
(* message of its MQTT config topic (gateway-configuration.service.ts,     *)
(* mqtt-ingestion.service.ts).                                             *)
(*                                                                         *)
(* One gateway is modelled: every row the protocol locks or compares is    *)
(* keyed by the gateway.  Several API instances run the publisher at once. *)
(* A publication is two database transactions with the MQTT exchange       *)
(* between them, so an old packet can reach the broker after a newer one   *)
(* was already acknowledged.  A durable attempt row per packet and the     *)
(* gateway's publication epoch are what keeps "published" truthful.        *)
(*                                                                         *)
(* A configuration revision is immutable, so its version stands for its    *)
(* payload and its hash.                                                   *)
(***************************************************************************)
EXTENDS Integers, FiniteSets

CONSTANTS
  Instance,     \* API processes running MqttIngestionService
  Broker,       \* MQTT brokers; the default broker (NULL column) is one
  Slot,         \* identities of publication attempts, reused when retired
  NoInstance,   \* owner of an attempt whose process or callback is gone
  NoBroker,     \* published_mqtt_broker_id IS NULL
  AnyBroker,    \* expectedBrokerId === undefined
  MaxOutstanding, \* bound: packets of one instance without a callback yet
  MaxVersion,   \* bound: configuration revisions
  MaxMoves,     \* bound: broker reassignments
  MaxFaults     \* bound: crashes and failed completion transactions

ASSUME BoundsAssumption ==
  /\ MaxVersion \in Nat /\ MaxMoves \in Nat /\ MaxFaults \in Nat
  /\ MaxOutstanding \in Nat
ASSUME NullsAssumption ==
  NoInstance \notin Instance /\ NoBroker \notin Broker /\ AnyBroker \notin Broker

VARIABLES
  desired,          \* gateways.desired_config_version
  broker,           \* gateways.mqtt_broker_id
  epoch,            \* gateways.config_publication_epoch
  retired,          \* gateways.retired_at IS NOT NULL
  publishedAt,      \* per revision: published_at IS NOT NULL
  publishedBroker,  \* per revision: published_mqtt_broker_id
  publishedVersion, \* gateways.published_config_version
  attempt,          \* rows of gateway_configuration_publications, their packets
  proc,             \* per instance: its entry of the configPublications map
  retained,         \* per broker: the retained message of the config topic
  moves, faults     \* what MaxMoves and MaxFaults bound

gatewayVars  == <<desired, broker, epoch, retired>>
revisionVars == <<publishedAt, publishedBroker, publishedVersion>>
boundVars    == <<moves, faults>>
vars == <<desired, broker, epoch, retired, publishedAt, publishedBroker,
          publishedVersion, attempt, proc, retained, moves, faults>>

Version == 1 .. MaxVersion

(* A publication attempt: the database row (row), the identity it recorded,
   and the MQTT packet handed to the client library.  inNet: the packet may
   still reach the broker; landed: it reached it at least once; owner: the
   process that will get the completion callback; awaited: publishGatewayConfig
   still waits for it (FALSE after the 5 second timeout). *)
Attempt ==
  [row: BOOLEAN, version: 0 .. MaxVersion, broker: Broker \cup {NoBroker},
   epoch: Nat, owner: Instance \cup {NoInstance}, awaited: BOOLEAN,
   expected: Broker \cup {AnyBroker}, inNet: BOOLEAN, landed: BOOLEAN]

(* The row of an attempt whose callback will never come. *)
Orphaned(a) == [a EXCEPT !.owner = NoInstance, !.awaited = FALSE,
                         !.expected = AnyBroker]

NoAttempt ==
  [row |-> FALSE, version |-> 0, broker |-> NoBroker, epoch |-> 0,
   owner |-> NoInstance, awaited |-> FALSE, expected |-> AnyBroker,
   inNet |-> FALSE, landed |-> FALSE]

(* One instance's publishGatewayConfig loop: called (before desiredForPublish),
   fetched (between desiredForPublish and beginPublication), awaiting (the
   packet is out), or idle (no entry in the map). *)
Proc ==
  [pc: {"idle", "called", "fetched", "awaiting"}, version: 0 .. MaxVersion,
   broker: Broker \cup {NoBroker}, epoch: Nat,
   expected: Broker \cup {AnyBroker}, pass: {0, 1}]

Idle == [pc |-> "idle", version |-> 0, broker |-> NoBroker, epoch |-> 0,
         expected |-> AnyBroker, pass |-> 0]

Called(v, e, p) ==
  [pc |-> "called", version |-> v, broker |-> NoBroker, epoch |-> 0,
   expected |-> e, pass |-> p]

TypeOK ==
  /\ desired \in 0 .. MaxVersion
  /\ broker \in Broker
  /\ epoch \in Nat
  /\ retired \in BOOLEAN
  /\ publishedAt \in [Version -> BOOLEAN]
  /\ publishedBroker \in [Version -> Broker \cup {NoBroker}]
  /\ publishedVersion \in 0 .. MaxVersion
  /\ attempt \in [Slot -> Attempt]
  /\ proc \in [Instance -> Proc]
  /\ retained \in [Broker -> 0 .. MaxVersion]
  /\ moves \in 0 .. MaxMoves
  /\ faults \in 0 .. MaxFaults

Init ==
  /\ desired = 0
  /\ broker \in Broker
  /\ epoch = 0
  /\ retired = FALSE
  /\ publishedAt = [v \in Version |-> FALSE]
  /\ publishedBroker = [v \in Version |-> NoBroker]
  /\ publishedVersion = 0
  /\ attempt = [s \in Slot |-> NoAttempt]
  /\ proc = [i \in Instance |-> Idle]
  /\ retained = [b \in Broker |-> 0]
  /\ moves = 0
  /\ faults = 0

-----------------------------------------------------------------------------
(* Mutant: the scan that forgets the attempt rows. *)
PendingForPublishIgnoringRows ==
  /\ ~retired
  /\ desired > 0
  /\ ~publishedAt[desired] \/ publishedBroker[desired] # broker

(* pendingForPublish: what every scanner selects as unfinished work. *)
AttemptRowExists == \E s \in Slot : attempt[s].row

PendingForPublish ==
  /\ ~retired
  /\ desired > 0
  /\ \/ ~publishedAt[desired]
     \/ publishedBroker[desired] # broker
     \/ AttemptRowExists

(* saveRevision, reached from confirm, approve, adopt and correct: the next
   version becomes desired, not yet published.  desiredCommitted then calls
   the listener of the process that served the request: instance i, or none
   when that process has no publisher or stopped.  A busy listener answers
   "pending" and changes nothing. *)
SaveRevision(i) ==
  /\ ~retired
  /\ desired < MaxVersion
  /\ desired' = desired + 1
  /\ proc' = IF i \in Instance /\ proc[i].pc = "idle"
               THEN [proc EXCEPT ![i] = Called(desired + 1, AnyBroker, 0)]
               ELSE proc
  /\ UNCHANGED <<broker, epoch, retired, revisionVars, attempt, retained, boundVars>>

(* retryPendingConfigurations: on connect and every 5 seconds. *)
RetryPendingConfigurations(i) ==
  /\ proc[i].pc = "idle"
  /\ PendingForPublish
  /\ proc' = [proc EXCEPT ![i] = Called(desired, broker, 0)]
  /\ UNCHANGED <<gatewayVars, revisionVars, attempt, retained, boundVars>>

(* desiredForPublish succeeds and the client of its broker is connected. *)
DesiredForPublish(i) ==
  /\ proc[i].pc = "called"
  /\ ~retired
  /\ proc[i].version = desired
  /\ proc[i].expected \in {AnyBroker, broker}
  /\ proc' = [proc EXCEPT ![i].pc = "fetched", ![i].broker = broker,
                          ![i].epoch = epoch]
  /\ UNCHANGED <<gatewayVars, revisionVars, attempt, retained, boundVars>>

(* desiredForPublish refuses (retired, superseded), answers another broker than
   the scanner asked for, or the broker's client is not connected. *)
GiveUp(i) ==
  /\ proc[i].pc = "called"
  /\ proc' = [proc EXCEPT ![i] = Idle]
  /\ UNCHANGED <<gatewayVars, revisionVars, attempt, retained, boundVars>>

(* The checks beginPublication repeats under the gateway lock. *)
StillDesired(p) ==
  /\ ~retired
  /\ p.version = desired
  /\ p.broker = broker
  /\ p.epoch = epoch

(* The new row's random identity: which of the unused ones makes no difference. *)
FreshAttempt == CHOOSE s \in Slot : attempt[s] = NoAttempt

(* beginPublication commits the attempt row, then client.publish hands the
   packet to the MQTT client. *)
BeginPublication(i) ==
  /\ proc[i].pc = "fetched"
  /\ StillDesired(proc[i])
  /\ Cardinality({s \in Slot : attempt[s].owner = i}) < MaxOutstanding
  /\ \E s \in Slot : attempt[s] = NoAttempt
  /\ attempt' = [attempt EXCEPT ![FreshAttempt] =
            [row |-> TRUE, version |-> proc[i].version, broker |-> proc[i].broker,
             epoch |-> proc[i].epoch, owner |-> i, awaited |-> TRUE,
             expected |-> proc[i].expected, inNet |-> TRUE, landed |-> FALSE]]
  /\ proc' = [proc EXCEPT ![i] = [Idle EXCEPT !.pc = "awaiting",
                                              !.pass = proc[i].pass]]
  /\ UNCHANGED <<gatewayVars, revisionVars, retained, boundVars>>

(* beginPublication throws "Desired publication changed". *)
PublicationChanged(i) ==
  /\ proc[i].pc = "fetched"
  /\ ~StillDesired(proc[i])
  /\ proc' = [proc EXCEPT ![i] = Idle]
  /\ UNCHANGED <<gatewayVars, revisionVars, attempt, retained, boundVars>>

(* The 5 second timer, or shutdown, stops the wait and not the packet. *)
Timeout(i) ==
  /\ proc[i].pc = "awaiting"
  /\ proc' = [proc EXCEPT ![i] = Idle]
  /\ attempt' = [s \in Slot |->
       IF attempt[s].owner = i THEN [attempt[s] EXCEPT !.awaited = FALSE]
                               ELSE attempt[s]]
  /\ UNCHANGED <<gatewayVars, revisionVars, retained, boundVars>>

-----------------------------------------------------------------------------
(* The broker stores the packet as the topic's retained message.  QoS 1 may
   deliver it again until it is acknowledged. *)
Land(s) ==
  /\ attempt[s].inNet
  /\ retained' = [retained EXCEPT ![attempt[s].broker] = attempt[s].version]
  /\ attempt' = [attempt EXCEPT ![s] =
       [attempt[s] EXCEPT !.landed = TRUE, !.inNet = attempt[s].owner # NoInstance]]
  /\ UNCHANGED <<gatewayVars, revisionVars, proc, boundVars>>

(* The packet of a dead process never arrives. *)
Lose(s) ==
  /\ attempt[s].inNet
  /\ attempt[s].owner = NoInstance
  /\ attempt' = [attempt EXCEPT ![s].inNet = FALSE]
  /\ UNCHANGED <<gatewayVars, revisionVars, proc, retained, boundVars>>

-----------------------------------------------------------------------------
(* The completion callback and recordPublished.  The callback reports success
   only for a packet the broker acknowledged; after it the packet is gone. *)
CallbackFires(s, delivered) ==
  /\ attempt[s].owner # NoInstance
  /\ delivered => attempt[s].landed

(* What the waiting loop (at most one corrective pass) or, after a timeout,
   the late callback does with recordPublished's answer. *)
Resume(s, retry) ==
  LET a == attempt[s]
      p == proc[a.owner] IN
  proc' = [proc EXCEPT ![a.owner] =
    IF a.awaited
      THEN IF retry /\ p.pass = 0 THEN Called(desired, a.expected, 1) ELSE Idle
      ELSE IF retry /\ p.pc = "idle" THEN Called(desired, a.expected, 0) ELSE p]

(* Mutant: completion compares the version only. *)
OutdatedByVersion(a) == a.version # desired

Outdated(a) == a.version # desired \/ a.broker # broker

(* recordPublished of a packet that is no longer the desired one: the retained
   message may now be the old one, so the desired revision is unpublished and
   every attempt of the current epoch loses the right to certify. *)
RecordOutdated(s, delivered) ==
  /\ CallbackFires(s, delivered)
  /\ ~retired
  /\ Outdated(attempt[s])
  /\ attempt' = [attempt EXCEPT ![s] = NoAttempt]
  /\ epoch' = epoch + 1
  /\ publishedAt' = [publishedAt EXCEPT ![desired] = FALSE]
  /\ Resume(s, TRUE)
  /\ UNCHANGED <<desired, broker, retired, publishedBroker, publishedVersion,
                 retained, boundVars>>

(* recordPublished of the desired revision, from before an invalidation. *)
RecordOldEpoch(s, delivered) ==
  /\ CallbackFires(s, delivered)
  /\ ~retired
  /\ ~Outdated(attempt[s])
  /\ attempt[s].epoch # epoch
  /\ attempt' = [attempt EXCEPT ![s] = NoAttempt]
  /\ Resume(s, TRUE)
  /\ UNCHANGED <<gatewayVars, revisionVars, retained, boundVars>>

(* recordPublished(delivered = false) of the current attempt. *)
RecordUndelivered(s) ==
  /\ CallbackFires(s, FALSE)
  /\ ~retired
  /\ ~Outdated(attempt[s])
  /\ attempt[s].epoch = epoch
  /\ attempt' = [attempt EXCEPT ![s] = NoAttempt]
  /\ Resume(s, FALSE)
  /\ UNCHANGED <<gatewayVars, revisionVars, retained, boundVars>>


(* recordPublished certifies the desired revision on the current broker. *)
RecordDelivered(s) ==
  /\ CallbackFires(s, TRUE)
  /\ ~retired
  /\ ~Outdated(attempt[s])
  /\ attempt[s].epoch = epoch
  /\ attempt' = [attempt EXCEPT ![s] = NoAttempt]
  /\ publishedAt' = [publishedAt EXCEPT ![desired] = TRUE]
  /\ publishedBroker' = [publishedBroker EXCEPT ![desired] = broker]
  /\ publishedVersion' = IF publishedVersion < desired THEN desired
                                                       ELSE publishedVersion
  /\ Resume(s, FALSE)
  /\ UNCHANGED <<gatewayVars, retained, boundVars>>

RecordPublished(s) ==
  \/ \E delivered \in BOOLEAN : RecordOutdated(s, delivered)
  \/ \E delivered \in BOOLEAN : RecordOldEpoch(s, delivered)
  \/ RecordUndelivered(s)
  \/ RecordDelivered(s)

(* The callback fires and the completion transaction rolls back, because the
   gateway is retired (mutationGateway finds no row) or the database failed:
   the row stays for the scanners and no callback will come again. *)
CompletionFails(s) ==
  /\ attempt[s].owner # NoInstance
  /\ IF retired THEN UNCHANGED faults
                ELSE faults < MaxFaults /\ faults' = faults + 1
  /\ attempt' = [attempt EXCEPT ![s] = [Orphaned(attempt[s]) EXCEPT !.inNet = FALSE]]
  /\ Resume(s, FALSE)
  /\ UNCHANGED <<gatewayVars, revisionVars, retained, moves>>

-----------------------------------------------------------------------------
(* A process dies and restarts: its map, timers and callbacks are gone, its
   rows and the packets on the wire are not. *)
Crash(i) ==
  /\ faults < MaxFaults
  /\ faults' = faults + 1
  /\ proc' = [proc EXCEPT ![i] = Idle]
  /\ attempt' = [s \in Slot |->
       IF attempt[s].owner = i THEN Orphaned(attempt[s]) ELSE attempt[s]]
  /\ UNCHANGED <<gatewayVars, revisionVars, retained, moves>>

(* The gateway is assigned to another broker.  The handler refuses this for a
   control-managed gateway; the protocol and its tests provide for it. *)
MoveBroker(b) ==
  /\ b # broker
  /\ moves < MaxMoves
  /\ moves' = moves + 1
  /\ broker' = b
  /\ UNCHANGED <<desired, epoch, retired, revisionVars, attempt, proc, retained,
                 faults>>

(* retireGateway *)
RetireGateway ==
  /\ ~retired
  /\ retired' = TRUE
  /\ UNCHANGED <<desired, broker, epoch, revisionVars, attempt, proc, retained,
                 boundVars>>

-----------------------------------------------------------------------------
Publisher(i) ==
  \/ RetryPendingConfigurations(i)
  \/ DesiredForPublish(i)
  \/ GiveUp(i)
  \/ BeginPublication(i)
  \/ PublicationChanged(i)
  \/ Timeout(i)

Packet(s) == Land(s) \/ Lose(s) \/ RecordPublished(s) \/ CompletionFails(s)

Environment ==
  \/ \E i \in Instance \cup {NoInstance} : SaveRevision(i)
  \/ \E i \in Instance : Crash(i)
  \/ \E b \in Broker : MoveBroker(b)
  \/ RetireGateway

Next ==
  \/ \E i \in Instance : Publisher(i)
  \/ \E s \in Slot : Packet(s)
  \/ Environment

Spec == Init /\ [][Next]_vars

(* The scanner runs every 5 seconds in every live instance; a client that
   keeps trying is connected again and again; a packet handed over again and
   again reaches the broker; every packet's callback fires or its process
   dies.  Nothing is assumed of administrators, crashes or timeouts. *)
Fairness ==
  /\ \A i \in Instance :
       /\ WF_vars(RetryPendingConfigurations(i))
       /\ WF_vars(GiveUp(i) \/ DesiredForPublish(i))
       /\ SF_vars(DesiredForPublish(i))
       /\ WF_vars(BeginPublication(i) \/ PublicationChanged(i))
  /\ SF_vars(\E s \in Slot : Land(s))
  /\ SF_vars(\E s \in Slot : RecordDelivered(s))
  /\ \A s \in Slot :
       /\ WF_vars(Land(s) \/ Lose(s))
       /\ WF_vars(RecordPublished(s) \/ CompletionFails(s))

FairSpec == Spec /\ Fairness
-----------------------------------------------------------------------------
(* PROPERTIES *)

(* A packet of another version may still have overwritten broker b, and its
   attempt row is there to say so. *)
UncertainOn(b) ==
  \E s \in Slot : /\ attempt[s].row
                  /\ attempt[s].broker = b
                  /\ attempt[s].version # desired

(* The scanners' reason to skip a gateway is sound: when pendingForPublish does
   not select it, a gateway that subscribes to its config topic on its current
   broker receives exactly the desired revision, however late old packets came,
   whoever crashed, and wherever the gateway was moved in between
   (pendingForPublish, recordPublished). *)
SkippedIsRetained ==
  ~retired /\ desired > 0 /\ ~PendingForPublish => retained[broker] = desired

(* A published_at that stands is a claim about the broker it names: either that
   broker retains the revision or the attempt row of the packet that may have
   replaced it is still there to be repaired (recordPublished invalidates and
   retires the attempt in one transaction). *)
PublishedIsRetainedOrUncertain ==
  desired > 0 /\ publishedAt[desired] =>
    \/ retained[publishedBroker[desired]] = desired
    \/ UncertainOn(publishedBroker[desired])

(* No packet is ever on the wire, nor its callback outstanding, without its
   durable row, so no crash, timeout
   or failed completion can hide a delayed retained write from the scanners
   (beginPublication commits before client.publish). *)
PacketHasRow ==
  \A s \in Slot :
    attempt[s].inNet \/ attempt[s].owner # NoInstance => attempt[s].row

(* What certification rests on: a landed packet of the desired revision whose
   epoch is still current has not been overwritten unnoticed
   (config_publication_epoch). *)
CurrentEpochNotOverwritten ==
  \A s \in Slot :
    /\ attempt[s].row /\ attempt[s].landed
    /\ attempt[s].version = desired /\ attempt[s].epoch = epoch
    => \/ retained[attempt[s].broker] = desired
       \/ UncertainOn(attempt[s].broker)

(* Rows name revisions, brokers and epochs that exist. *)
RowsAreOfThePast ==
  \A s \in Slot : attempt[s].row =>
    /\ attempt[s].version <= desired
    /\ attempt[s].broker \in Broker
    /\ attempt[s].epoch <= epoch

(* Only revisions that were desired are published, and on a broker. *)
NothingPublishedAhead ==
  \A v \in Version : publishedAt[v] => v <= desired /\ publishedBroker[v] \in Broker

(* The strengthening that is inductive. *)
IInv ==
  /\ PacketHasRow
  /\ RowsAreOfThePast
  /\ NothingPublishedAhead
  /\ CurrentEpochNotOverwritten
  /\ PublishedIsRetainedOrUncertain

(* While a gateway is skipped nothing can replace what its broker retains: the
   step in which the message changes is a step in which the gateway became
   pending before (pendingForPublish, gateway_configuration_publications). *)
SkippedIsStable ==
  [][~PendingForPublish /\ ~retired /\ desired > 0 => retained' = retained]_vars

(* The desired revision wins in the end: once administrators stop, the broker
   of a gateway in service retains the desired revision for ever, after any
   crashes, lost callbacks, timeouts and moves, and although rows of crashed
   processes are never deleted (retryPendingConfigurations). *)
DesiredIsEventuallyRetained ==
  <>[](retired \/ desired = 0 \/ retained[broker] = desired)

(* No publication outlasts the five second wait, or a shutdown. *)
InTime == \A i \in Instance : ~Timeout(i)

(* A row whose process died or failed to complete is never deleted, and keeps
   the scanners at work. *)
RowLeftBehind == \E s \in Slot : attempt[s].row /\ attempt[s].owner = NoInstance

=============================================================================
