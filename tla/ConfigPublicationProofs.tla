----------------------- MODULE ConfigPublicationProofs -----------------------
(***************************************************************************)
(* Theorems of ConfigPublication, for every set of instances, brokers and  *)
(* attempt slots and every bound.                                          *)
(***************************************************************************)
EXTENDS ConfigPublication, TLAPS

-----------------------------------------------------------------------------
(* Types of the record constructors. *)

LEMMA NoAttemptType == NoAttempt \in Attempt
BY BoundsAssumption DEF NoAttempt, Attempt

LEMMA IdleType == Idle \in Proc
BY BoundsAssumption DEF Idle, Proc

(* publishGatewayConfig is only ever entered with a version, an expected broker
   and a pass of the right kind. *)
LEMMA CalledType ==
  ASSUME NEW v \in 0 .. MaxVersion, NEW e \in Broker \cup {AnyBroker}, NEW p \in {0, 1}
  PROVE  Called(v, e, p) \in Proc
BY BoundsAssumption DEF Called, Proc

LEMMA OrphanedType ==
  ASSUME NEW a \in Attempt
  PROVE  Orphaned(a) \in Attempt
BY DEF Orphaned, Attempt

(* The continuation after recordPublished keeps every map entry well formed. *)
LEMMA ResumeType ==
  ASSUME TypeOK, NEW s \in Slot, attempt[s].owner # NoInstance,
         NEW retry \in BOOLEAN, Resume(s, retry)
  PROVE  proc' \in [Instance -> Proc]
<1> DEFINE a == attempt[s]
<1>1. a.owner \in Instance /\ a.expected \in Broker \cup {AnyBroker}
  BY DEF TypeOK, Attempt
<1>2. desired \in 0 .. MaxVersion /\ proc[a.owner] \in Proc
  BY <1>1 DEF TypeOK
<1>3. Called(desired, a.expected, 1) \in Proc /\ Called(desired, a.expected, 0) \in Proc
  BY <1>1, <1>2, CalledType
<1>4. PICK q \in Proc : proc' = [proc EXCEPT ![a.owner] = q]
  BY <1>2, <1>3, IdleType DEF Resume
<1>5. QED
  BY <1>4 DEF TypeOK

(* Giving an attempt of the table another well-formed value keeps the table
   well formed. *)
LEMMA RetireType ==
  ASSUME TypeOK, NEW s \in Slot, attempt' = [attempt EXCEPT ![s] = NoAttempt]
  PROVE  attempt' \in [Slot -> Attempt]
BY NoAttemptType DEF TypeOK

-----------------------------------------------------------------------------
(* Type correctness *)

LEMMA InitType == Init => TypeOK
<1> SUFFICES ASSUME Init PROVE TypeOK
  OBVIOUS
<1>1. attempt \in [Slot -> Attempt] /\ proc \in [Instance -> Proc]
  BY NoAttemptType, IdleType DEF Init
<1>2. /\ publishedAt \in [Version -> BOOLEAN]
      /\ publishedBroker \in [Version -> Broker \cup {NoBroker}]
  BY DEF Init
<1>3. 0 \in 0 .. MaxVersion /\ 0 \in 0 .. MaxMoves /\ 0 \in 0 .. MaxFaults
  BY BoundsAssumption
<1>4. QED
  BY <1>1, <1>2, <1>3 DEF Init, TypeOK

LEMMA PublisherType ==
  ASSUME TypeOK, NEW i \in Instance, Publisher(i)
  PROVE  TypeOK'
<1>1. CASE RetryPendingConfigurations(i)
  <2>1. Called(desired, broker, 0) \in Proc
    BY CalledType DEF TypeOK
  <2>2. QED
    BY <1>1, <2>1 DEF RetryPendingConfigurations, TypeOK, gatewayVars, revisionVars,
                      boundVars
<1>2. CASE DesiredForPublish(i)
  <2>1. proc' \in [Instance -> Proc]
    <3>1. proc[i] \in Proc /\ broker \in Broker /\ epoch \in Nat
      BY DEF TypeOK
    <3>2. [proc[i] EXCEPT !.pc = "fetched", !.broker = broker, !.epoch = epoch] \in Proc
      BY <3>1 DEF Proc
    <3>3. QED
      BY <1>2, <3>2 DEF DesiredForPublish, TypeOK
  <2>2. QED
    BY <1>2, <2>1 DEF DesiredForPublish, TypeOK, gatewayVars, revisionVars, boundVars
<1>3. CASE GiveUp(i)
  BY <1>3, IdleType DEF GiveUp, TypeOK, gatewayVars, revisionVars, boundVars
<1>4. CASE BeginPublication(i)
  <2>1. proc[i] \in Proc
    BY DEF TypeOK
  <2>2. [Idle EXCEPT !.pc = "awaiting", !.pass = proc[i].pass] \in Proc
    BY <2>1, IdleType DEF Proc
  <2>3. [row |-> TRUE, version |-> proc[i].version, broker |-> proc[i].broker,
         epoch |-> proc[i].epoch, owner |-> i, awaited |-> TRUE,
         expected |-> proc[i].expected, inNet |-> TRUE, landed |-> FALSE] \in Attempt
    BY <2>1 DEF Proc, Attempt
  <2>4. QED
    BY <1>4, <2>2, <2>3 DEF BeginPublication, TypeOK, gatewayVars, revisionVars, boundVars
<1>5. CASE PublicationChanged(i)
  BY <1>5, IdleType DEF PublicationChanged, TypeOK, gatewayVars, revisionVars, boundVars
<1>6. CASE Timeout(i)
  <2>1. \A s \in Slot : [attempt[s] EXCEPT !.awaited = FALSE] \in Attempt
    BY DEF TypeOK, Attempt
  <2>2. QED
    BY <1>6, <2>1, IdleType DEF Timeout, TypeOK, gatewayVars, revisionVars, boundVars
<1>7. QED
  BY <1>1, <1>2, <1>3, <1>4, <1>5, <1>6 DEF Publisher

LEMMA PacketType ==
  ASSUME TypeOK, NEW s \in Slot, Packet(s)
  PROVE  TypeOK'
<1> DEFINE a == attempt[s]
<1>0. a \in Attempt /\ a.version \in 0 .. MaxVersion
  BY DEF TypeOK, Attempt
<1>1. CASE Land(s)
  <2> DEFINE a2 == [a EXCEPT !.landed = TRUE, !.inNet = a.owner # NoInstance]
  <2>1. a2 \in Attempt
    BY <1>0 DEF Attempt
  <2>2. attempt' = [attempt EXCEPT ![s] = a2]
    BY <1>1 DEF Land
  <2> HIDE DEF a2
  <2>3. attempt' \in [Slot -> Attempt]
    BY <2>1, <2>2 DEF TypeOK
  <2>4. retained' \in [Broker -> 0 .. MaxVersion]
    BY <1>0, <1>1 DEF Land, TypeOK
  <2>5. QED
    BY <1>1, <2>3, <2>4 DEF Land, TypeOK, gatewayVars, revisionVars, boundVars
<1>2. CASE Lose(s)
  <2>1. [a EXCEPT !.inNet = FALSE] \in Attempt
    BY <1>0 DEF Attempt
  <2>2. QED
    BY <1>2, <2>1 DEF Lose, TypeOK, gatewayVars, revisionVars, boundVars
<1>3. ASSUME NEW delivered \in BOOLEAN, RecordOutdated(s, delivered)
      PROVE  TypeOK'
  <2>1. attempt' \in [Slot -> Attempt] /\ proc' \in [Instance -> Proc]
    BY <1>3, RetireType, ResumeType DEF RecordOutdated, CallbackFires
  <2>2. publishedAt' \in [Version -> BOOLEAN]
    BY <1>3 DEF RecordOutdated, TypeOK
  <2>3. epoch' \in Nat
    BY <1>3 DEF RecordOutdated, TypeOK
  <2>4. QED
    BY <1>3, <2>1, <2>2, <2>3 DEF RecordOutdated, TypeOK, boundVars
<1>4. ASSUME NEW delivered \in BOOLEAN, RecordOldEpoch(s, delivered)
      PROVE  TypeOK'
  BY <1>4, RetireType, ResumeType
     DEF RecordOldEpoch, CallbackFires, TypeOK, gatewayVars, revisionVars, boundVars
<1>5. CASE RecordUndelivered(s)
  BY <1>5, RetireType, ResumeType
     DEF RecordUndelivered, CallbackFires, TypeOK, gatewayVars, revisionVars, boundVars
<1>6. CASE RecordDelivered(s)
  <2>1. attempt' \in [Slot -> Attempt] /\ proc' \in [Instance -> Proc]
    BY <1>6, RetireType, ResumeType DEF RecordDelivered, CallbackFires
  <2>2. publishedAt' \in [Version -> BOOLEAN]
    BY <1>6 DEF RecordDelivered, TypeOK
  <2>3. publishedBroker' \in [Version -> Broker \cup {NoBroker}]
    BY <1>6 DEF RecordDelivered, TypeOK
  <2>4. QED
    BY <1>6, <2>1, <2>2, <2>3 DEF RecordDelivered, TypeOK, gatewayVars, boundVars
<1>7. CASE CompletionFails(s)
  <2>1. Orphaned(a) \in Attempt
    BY <1>0, OrphanedType
  <2>2. [Orphaned(a) EXCEPT !.inNet = FALSE] \in Attempt
    BY <2>1 DEF Attempt
  <2>3. attempt' \in [Slot -> Attempt] /\ proc' \in [Instance -> Proc]
    BY <1>7, <2>2, ResumeType DEF CompletionFails, TypeOK
  <2>4. faults' \in 0 .. MaxFaults
    BY <1>7, BoundsAssumption DEF CompletionFails, TypeOK
  <2>5. QED
    BY <1>7, <2>3, <2>4 DEF CompletionFails, TypeOK, gatewayVars, revisionVars
<1>8. QED
  BY <1>1, <1>2, <1>3, <1>4, <1>5, <1>6, <1>7 DEF Packet, RecordPublished

LEMMA EnvironmentType ==
  ASSUME TypeOK, Environment
  PROVE  TypeOK'
<1>1. ASSUME NEW i \in Instance \cup {NoInstance}, SaveRevision(i)
      PROVE  TypeOK'
  <2>1. desired + 1 \in 0 .. MaxVersion
    BY <1>1, BoundsAssumption DEF SaveRevision, TypeOK
  <2>2. Called(desired + 1, AnyBroker, 0) \in Proc
    BY <2>1, CalledType
  <2>3. proc' \in [Instance -> Proc]
    BY <1>1, <2>2 DEF SaveRevision, TypeOK
  <2>4. QED
    BY <1>1, <2>1, <2>3 DEF SaveRevision, TypeOK, revisionVars, boundVars
<1>2. ASSUME NEW i \in Instance, Crash(i)
      PROVE  TypeOK'
  <2>1. attempt' \in [Slot -> Attempt]
    BY <1>2, OrphanedType DEF Crash, TypeOK
  <2>2. proc' \in [Instance -> Proc] /\ faults' \in 0 .. MaxFaults
    BY <1>2, IdleType, BoundsAssumption DEF Crash, TypeOK
  <2>3. QED
    BY <1>2, <2>1, <2>2 DEF Crash, TypeOK, gatewayVars, revisionVars
<1>3. ASSUME NEW b \in Broker, MoveBroker(b)
      PROVE  TypeOK'
  BY <1>3, BoundsAssumption DEF MoveBroker, TypeOK, revisionVars
<1>4. CASE RetireGateway
  BY <1>4 DEF RetireGateway, TypeOK, revisionVars, boundVars
<1>5. QED
  BY <1>1, <1>2, <1>3, <1>4 DEF Environment

LEMMA StepType == TypeOK /\ [Next]_vars => TypeOK'
<1> SUFFICES ASSUME TypeOK, [Next]_vars PROVE TypeOK'
  OBVIOUS
<1>1. CASE Next
  BY <1>1, PublisherType, PacketType, EnvironmentType DEF Next
<1>2. CASE UNCHANGED vars
  BY <1>2 DEF vars, TypeOK
<1>3. QED
  BY <1>1, <1>2

(* Every reachable state is well typed (the whole publication protocol). *)
THEOREM TypeCorrect == Spec => []TypeOK
BY InitType, StepType, PTL DEF Spec

-----------------------------------------------------------------------------
(* The inductive invariant *)

(* A step that leaves the revisions, the broker's messages and the facts the
   rows record alone preserves the invariant, whatever it does to processes,
   owners and lost packets. *)
LEMMA RowsKept ==
  ASSUME IInv, UNCHANGED <<desired, epoch, publishedAt, publishedBroker, retained>>,
         \A s \in Slot : /\ attempt'[s].row = attempt[s].row
                         /\ attempt'[s].version = attempt[s].version
                         /\ attempt'[s].broker = attempt[s].broker
                         /\ attempt'[s].epoch = attempt[s].epoch
                         /\ attempt'[s].landed = attempt[s].landed
                         /\ attempt'[s].inNet => attempt[s].inNet
                         /\ attempt'[s].owner \in {attempt[s].owner, NoInstance}
  PROVE  IInv'
<1>1. \A b : UncertainOn(b) <=> UncertainOn(b)'
  BY DEF UncertainOn
<1>2. PacketHasRow' /\ RowsAreOfThePast' /\ NothingPublishedAhead'
  BY DEF IInv, PacketHasRow, RowsAreOfThePast, NothingPublishedAhead
<1>3. CurrentEpochNotOverwritten'
  BY <1>1 DEF IInv, CurrentEpochNotOverwritten
<1>4. PublishedIsRetainedOrUncertain'
  BY <1>1 DEF IInv, PublishedIsRetainedOrUncertain
<1>5. QED
  BY <1>2, <1>3, <1>4 DEF IInv

(* What an attempt that just became NoAttempt no longer claims. *)
LEMMA Retired ==
  ASSUME TypeOK, NEW s \in Slot, attempt' = [attempt EXCEPT ![s] = NoAttempt]
  PROVE  /\ ~attempt'[s].row /\ ~attempt'[s].inNet /\ attempt'[s].owner = NoInstance
         /\ \A t \in Slot \ {s} : attempt'[t] = attempt[t]
BY DEF NoAttempt, TypeOK

(* Retiring a row of the desired revision takes no witness away. *)
LEMMA DesiredRowRetired ==
  ASSUME TypeOK, IInv, UNCHANGED <<desired, epoch, retained>>,
         NEW s \in Slot, attempt[s].version = desired,
         attempt' = [attempt EXCEPT ![s] = NoAttempt]
  PROVE  /\ \A b : UncertainOn(b) => UncertainOn(b)'
         /\ PacketHasRow' /\ RowsAreOfThePast' /\ CurrentEpochNotOverwritten'
<1>1. \A b : UncertainOn(b) => UncertainOn(b)'
  BY Retired DEF UncertainOn
<1>2. PacketHasRow' /\ RowsAreOfThePast'
  BY Retired DEF IInv, PacketHasRow, RowsAreOfThePast
<1>3. CurrentEpochNotOverwritten'
  BY <1>1, Retired DEF IInv, CurrentEpochNotOverwritten
<1>4. QED
  BY <1>1, <1>2, <1>3

LEMMA InitInv == Init => IInv
BY DEF Init, IInv, PacketHasRow, RowsAreOfThePast, NothingPublishedAhead,
       CurrentEpochNotOverwritten, PublishedIsRetainedOrUncertain, NoAttempt

(* A new row claims nothing yet: its packet did not land. *)
LEMMA BeginPublicationInv ==
  ASSUME TypeOK, IInv, NEW i \in Instance, BeginPublication(i)
  PROVE  IInv'
<1>1. PICK s \in Slot :
        /\ attempt[s] = NoAttempt
        /\ attempt' = [attempt EXCEPT ![s] =
             [row |-> TRUE, version |-> proc[i].version, broker |-> proc[i].broker,
              epoch |-> proc[i].epoch, owner |-> i, awaited |-> TRUE,
              expected |-> proc[i].expected, inNet |-> TRUE, landed |-> FALSE]]
  BY DEF BeginPublication, FreshAttempt
<1>2. proc[i].version = desired /\ proc[i].broker = broker /\ proc[i].epoch = epoch
  BY DEF BeginPublication, StillDesired
<1>3. /\ attempt'[s].row /\ ~attempt'[s].landed /\ attempt'[s].version = desired
      /\ attempt'[s].broker = broker /\ attempt'[s].epoch = epoch
      /\ \A t \in Slot \ {s} : attempt'[t] = attempt[t]
  BY <1>1, <1>2 DEF TypeOK
<1>4. ~attempt[s].row
  BY <1>1 DEF NoAttempt
<1>5. UNCHANGED <<desired, broker, epoch, retained, publishedAt, publishedBroker>>
  BY DEF BeginPublication, gatewayVars, revisionVars
<1>6. \A b : UncertainOn(b) => UncertainOn(b)'
  BY <1>3, <1>4, <1>5 DEF UncertainOn
<1>7. PacketHasRow' /\ RowsAreOfThePast' /\ NothingPublishedAhead'
  BY <1>3, <1>5 DEF TypeOK, IInv, PacketHasRow, RowsAreOfThePast, NothingPublishedAhead
<1>8. CurrentEpochNotOverwritten'
  BY <1>3, <1>5, <1>6 DEF IInv, CurrentEpochNotOverwritten
<1>9. PublishedIsRetainedOrUncertain'
  BY <1>5, <1>6 DEF IInv, PublishedIsRetainedOrUncertain
<1>10. QED
  BY <1>7, <1>8, <1>9 DEF IInv

(* A landing packet either is the desired revision or is itself the witness
   that the retained message may be another one. *)
LEMMA LandInv ==
  ASSUME TypeOK, IInv, NEW s \in Slot, Land(s)
  PROVE  IInv'
<1> DEFINE a == attempt[s]
<1>1. a.inNet /\ a.row /\ a.broker \in Broker
  BY DEF Land, IInv, PacketHasRow, RowsAreOfThePast
<1>2. /\ attempt'[s].row = a.row /\ attempt'[s].version = a.version
      /\ attempt'[s].broker = a.broker /\ attempt'[s].epoch = a.epoch
      /\ \A t \in Slot \ {s} : attempt'[t] = attempt[t]
  BY DEF Land, TypeOK, Attempt
<1>3. retained'[a.broker] = a.version
      /\ \A b \in Broker \ {a.broker} : retained'[b] = retained[b]
  BY <1>1 DEF Land, TypeOK
<1>4. UNCHANGED <<desired, epoch, publishedAt, publishedBroker>>
  BY DEF Land, gatewayVars, revisionVars
<1>5. \A b : UncertainOn(b) <=> UncertainOn(b)'
  BY <1>2, <1>4 DEF UncertainOn
<1>6. retained'[a.broker] = desired \/ UncertainOn(a.broker)
  BY <1>1, <1>3 DEF UncertainOn
<1>7. PacketHasRow' /\ RowsAreOfThePast' /\ NothingPublishedAhead'
  BY <1>1, <1>2, <1>4 DEF IInv, PacketHasRow, RowsAreOfThePast, NothingPublishedAhead
<1>8. CurrentEpochNotOverwritten'
  <2>1. ASSUME NEW t \in Slot, attempt'[t].row, attempt'[t].landed,
               attempt'[t].version = desired, attempt'[t].epoch = epoch
        PROVE  retained'[attempt[t].broker] = desired \/ UncertainOn(attempt[t].broker)
    <3>1. CASE attempt[t].broker = a.broker
      BY <3>1, <1>6
    <3>2. CASE attempt[t].broker # a.broker
      <4>1. t # s /\ attempt[t].broker \in Broker
        BY <2>1, <3>2, <1>2 DEF IInv, RowsAreOfThePast
      <4>2. QED
        BY <2>1, <3>2, <4>1, <1>2, <1>3 DEF IInv, CurrentEpochNotOverwritten
    <3>3. QED
      BY <3>1, <3>2
  <2>2. QED
    BY <2>1, <1>2, <1>4, <1>5 DEF CurrentEpochNotOverwritten
<1>9. PublishedIsRetainedOrUncertain'
  <2>1. ASSUME desired > 0, publishedAt[desired]
        PROVE  \/ retained'[publishedBroker[desired]] = desired
               \/ UncertainOn(publishedBroker[desired])
    <3>1. publishedBroker[desired] \in Broker
      BY <2>1 DEF TypeOK, Version, IInv, NothingPublishedAhead
    <3>2. QED
      BY <2>1, <3>1, <1>3, <1>6 DEF IInv, PublishedIsRetainedOrUncertain
  <2>2. QED
    BY <2>1, <1>4, <1>5 DEF PublishedIsRetainedOrUncertain
<1>10. QED
  BY <1>7, <1>8, <1>9 DEF IInv

(* A stale completion may take the last witness away, so it takes the claims
   away with it: the epoch moves past every row and published_at is cleared. *)
LEMMA RecordOutdatedInv ==
  ASSUME TypeOK, IInv, NEW s \in Slot, NEW delivered \in BOOLEAN,
         RecordOutdated(s, delivered)
  PROVE  IInv'
<1>1. /\ ~attempt'[s].row /\ ~attempt'[s].inNet /\ attempt'[s].owner = NoInstance
      /\ \A t \in Slot \ {s} : attempt'[t] = attempt[t]
  BY Retired DEF RecordOutdated
<1>2. epoch' = epoch + 1 /\ UNCHANGED <<desired, retained, publishedBroker>>
  BY DEF RecordOutdated
<1>3. \A v \in Version : publishedAt'[v] => publishedAt[v] /\ v # desired
  BY DEF RecordOutdated, TypeOK
<1>4. \A t \in Slot : attempt[t].epoch \in Nat
  BY DEF TypeOK, Attempt
<1>5. PacketHasRow' /\ RowsAreOfThePast'
  BY <1>1, <1>2, <1>4 DEF TypeOK, IInv, PacketHasRow, RowsAreOfThePast
<1>6. NothingPublishedAhead'
  BY <1>2, <1>3 DEF IInv, NothingPublishedAhead
<1>7. CurrentEpochNotOverwritten'
  BY <1>1, <1>2, <1>4 DEF TypeOK, IInv, RowsAreOfThePast, CurrentEpochNotOverwritten
<1>8. PublishedIsRetainedOrUncertain'
  BY <1>2, <1>3 DEF TypeOK, Version, PublishedIsRetainedOrUncertain
<1>9. QED
  BY <1>5, <1>6, <1>7, <1>8 DEF IInv

(* Certification turns the claim of a landed packet of the current epoch into
   the claim of published_at. *)
LEMMA RecordDeliveredInv ==
  ASSUME TypeOK, IInv, NEW s \in Slot, RecordDelivered(s)
  PROVE  IInv'
<1>1. /\ attempt[s].landed /\ attempt[s].version = desired
      /\ attempt[s].broker = broker /\ attempt[s].epoch = epoch
      /\ attempt[s].row
  BY DEF RecordDelivered, CallbackFires, Outdated, IInv, PacketHasRow
<1>2. UNCHANGED <<desired, epoch, retained>>
  BY DEF RecordDelivered, gatewayVars
<1>3. /\ \A b : UncertainOn(b) => UncertainOn(b)'
      /\ PacketHasRow' /\ RowsAreOfThePast' /\ CurrentEpochNotOverwritten'
  BY <1>1, <1>2, DesiredRowRetired DEF RecordDelivered
<1>4. \A v \in Version : \/ v = desired /\ publishedBroker'[v] = broker
                         \/ publishedAt'[v] = publishedAt[v]
                              /\ publishedBroker'[v] = publishedBroker[v]
  BY DEF RecordDelivered, TypeOK
<1>5. NothingPublishedAhead'
  BY <1>2, <1>4 DEF TypeOK, IInv, NothingPublishedAhead
<1>6. PublishedIsRetainedOrUncertain'
  <2>1. ASSUME desired > 0
        PROVE  retained[broker] = desired \/ UncertainOn(broker)
    BY <1>1 DEF IInv, CurrentEpochNotOverwritten
  <2>2. QED
    BY <2>1, <1>2, <1>3, <1>4
       DEF TypeOK, Version, IInv, PublishedIsRetainedOrUncertain
<1>7. QED
  BY <1>3, <1>5, <1>6 DEF IInv

(* No row and no published_at names a revision that was not desired yet. *)
LEMMA SaveRevisionInv ==
  ASSUME TypeOK, IInv, NEW i, SaveRevision(i)
  PROVE  IInv'
<1>1. /\ desired' = desired + 1
      /\ UNCHANGED <<epoch, publishedAt, publishedBroker, attempt, retained>>
  BY DEF SaveRevision, revisionVars
<1>2. \A s \in Slot : attempt[s].version \in Int
  BY DEF TypeOK, Attempt
<1>3. PacketHasRow' /\ RowsAreOfThePast' /\ NothingPublishedAhead'
  BY <1>1, <1>2 DEF TypeOK, Version, IInv, PacketHasRow, RowsAreOfThePast,
                    NothingPublishedAhead
<1>4. CurrentEpochNotOverwritten'
  BY <1>1, <1>2 DEF TypeOK, IInv, RowsAreOfThePast, CurrentEpochNotOverwritten
<1>5. PublishedIsRetainedOrUncertain'
  <2>1. desired + 1 \in Version
    BY BoundsAssumption DEF SaveRevision, TypeOK, Version
  <2>2. ~publishedAt[desired + 1]
    BY <2>1 DEF TypeOK, IInv, NothingPublishedAhead
  <2>3. QED
    BY <1>1, <2>2 DEF PublishedIsRetainedOrUncertain
<1>6. QED
  BY <1>3, <1>4, <1>5 DEF IInv

LEMMA PublisherInv ==
  ASSUME TypeOK, IInv, NEW i \in Instance, Publisher(i)
  PROVE  IInv'
<1>1. CASE RetryPendingConfigurations(i)
  BY <1>1, RowsKept DEF RetryPendingConfigurations, gatewayVars, revisionVars
<1>2. CASE DesiredForPublish(i)
  BY <1>2, RowsKept DEF DesiredForPublish, gatewayVars, revisionVars
<1>3. CASE GiveUp(i)
  BY <1>3, RowsKept DEF GiveUp, gatewayVars, revisionVars
<1>4. CASE BeginPublication(i)
  BY <1>4, BeginPublicationInv
<1>5. CASE PublicationChanged(i)
  BY <1>5, RowsKept DEF PublicationChanged, gatewayVars, revisionVars
<1>6. CASE Timeout(i)
  BY <1>6, RowsKept DEF Timeout, gatewayVars, revisionVars, TypeOK, Attempt
<1>7. QED
  BY <1>1, <1>2, <1>3, <1>4, <1>5, <1>6 DEF Publisher

LEMMA PacketInv ==
  ASSUME TypeOK, IInv, NEW s \in Slot, Packet(s)
  PROVE  IInv'
<1>1. CASE Land(s)
  BY <1>1, LandInv
<1>2. CASE Lose(s)
  BY <1>2, RowsKept DEF Lose, gatewayVars, revisionVars, TypeOK, Attempt
<1>3. ASSUME NEW delivered \in BOOLEAN, RecordOutdated(s, delivered)
      PROVE  IInv'
  BY <1>3, RecordOutdatedInv
<1>4. ASSUME NEW delivered \in BOOLEAN, RecordOldEpoch(s, delivered)
      PROVE  IInv'
  BY <1>4, DesiredRowRetired
     DEF RecordOldEpoch, Outdated, gatewayVars, revisionVars, IInv,
         NothingPublishedAhead, PublishedIsRetainedOrUncertain
<1>5. CASE RecordUndelivered(s)
  BY <1>5, DesiredRowRetired
     DEF RecordUndelivered, Outdated, gatewayVars, revisionVars, IInv,
         NothingPublishedAhead, PublishedIsRetainedOrUncertain
<1>6. CASE RecordDelivered(s)
  BY <1>6, RecordDeliveredInv
<1>7. CASE CompletionFails(s)
  <2>1. \A t \in Slot : attempt'[t] = IF t = s THEN [Orphaned(attempt[s]) EXCEPT !.inNet = FALSE]
                                             ELSE attempt[t]
    BY <1>7 DEF CompletionFails, TypeOK
  <2>2. QED
    BY <1>7, <2>1, RowsKept
       DEF CompletionFails, Orphaned, gatewayVars, revisionVars, TypeOK, Attempt
<1>8. QED
  BY <1>1, <1>2, <1>3, <1>4, <1>5, <1>6, <1>7 DEF Packet, RecordPublished

LEMMA EnvironmentInv ==
  ASSUME TypeOK, IInv, Environment
  PROVE  IInv'
<1>1. ASSUME NEW i \in Instance, Crash(i)
      PROVE  IInv'
  <2>1. \A s \in Slot : \/ attempt'[s] = attempt[s]
                        \/ attempt'[s] = Orphaned(attempt[s])
    BY <1>1 DEF Crash
  <2>2. UNCHANGED <<desired, epoch, publishedAt, publishedBroker, retained>>
    BY <1>1 DEF Crash, gatewayVars, revisionVars
  <2>3. \A s \in Slot : attempt[s] \in Attempt
    BY DEF TypeOK
  <2>4. QED
    BY <2>1, <2>2, <2>3, RowsKept DEF Orphaned, Attempt
<1>2. ASSUME NEW b \in Broker, MoveBroker(b)
      PROVE  IInv'
  BY <1>2, RowsKept DEF MoveBroker, revisionVars
<1>3. CASE RetireGateway
  BY <1>3, RowsKept DEF RetireGateway, revisionVars
<1>4. QED
  BY <1>1, <1>2, <1>3, SaveRevisionInv DEF Environment

LEMMA StepInv == TypeOK /\ IInv /\ [Next]_vars => IInv'
<1> SUFFICES ASSUME TypeOK, IInv, [Next]_vars PROVE IInv'
  OBVIOUS
<1>1. CASE Next
  BY <1>1, PublisherInv, PacketInv, EnvironmentInv DEF Next
<1>2. CASE UNCHANGED vars
  BY <1>2, RowsKept DEF vars
<1>3. QED
  BY <1>1, <1>2

(* Rows of the publication table account for every packet that may still
   replace a retained message (beginPublication, recordPublished). *)
THEOREM InvariantHolds == Spec => []IInv
BY InitInv, StepInv, TypeCorrect, PTL DEF Spec

(* When pendingForPublish lets the scanners skip a gateway, its broker retains
   exactly the desired revision. *)
THEOREM SkippedIsRetainedHolds == Spec => []SkippedIsRetained
<1>1. TypeOK /\ IInv => SkippedIsRetained
  BY DEF TypeOK, IInv, PublishedIsRetainedOrUncertain, SkippedIsRetained,
         PendingForPublish, AttemptRowExists, UncertainOn
<1>2. QED
  BY <1>1, TypeCorrect, InvariantHolds, PTL

(* While the scanners skip a gateway, no packet can replace what its broker
   retains. *)
THEOREM SkippedIsStableHolds == Spec => SkippedIsStable
<1> DEFINE Skipped == ~PendingForPublish /\ ~retired /\ desired > 0
<1>1. ASSUME IInv, Skipped, Next PROVE retained' = retained
  <2>1. \A s \in Slot : ~attempt[s].inNet /\ attempt[s].owner = NoInstance
    BY <1>1 DEF PendingForPublish, AttemptRowExists, IInv, PacketHasRow
  <2>2. CASE \E i \in Instance : Publisher(i)
    BY <2>2 DEF Publisher, RetryPendingConfigurations, DesiredForPublish, GiveUp,
                BeginPublication, PublicationChanged, Timeout
  <2>3. CASE \E s \in Slot : Packet(s)
    BY <2>1, <2>3 DEF Packet, Land, Lose, RecordPublished, RecordOutdated,
       RecordOldEpoch, RecordUndelivered, RecordDelivered, CallbackFires, CompletionFails
  <2>4. CASE Environment
    BY <2>4 DEF Environment, SaveRevision, Crash, MoveBroker, RetireGateway
  <2>5. QED
    BY <1>1, <2>2, <2>3, <2>4 DEF Next
<1>2. IInv /\ [Next]_vars => [Skipped => retained' = retained]_vars
  BY <1>1
<1>3. QED
  BY <1>2, InvariantHolds, PTL DEF Spec, SkippedIsStable
=============================================================================
