--------------------------- MODULE OperationalOutbox ---------------------------
(***************************************************************************)
(* The delivery of operational notifications                               *)
(* (operational-automation.service.ts): alerts, payment reminders and      *)
(* payment decisions are rows of two outbox tables.  Every API process     *)
(* runs a tick each minute: it reconciles abandoned claims, claims due     *)
(* rows, and for each of them re-checks recipient and bill, marks the      *)
(* attempt, hands the message to SMTP or to the feed, and records the      *)
(* outcome.  Each of these is a statement or transaction of its own, so    *)
(* another process, a settlement or a crash may come between any two.      *)
(*                                                                         *)
(* A claim has a random token.  A process works on one batch at a time, so *)
(* "the row has the token of this claim" is "its holder is this process    *)
(* and the row is in the batch".  Time is left out: a lease may be stale,  *)
(* and a row due, whenever it matters.                                     *)
(***************************************************************************)
EXTENDS Integers, FiniteSets

CONSTANTS
  Worker,       \* API processes
  Mail,         \* rows with channel = 'email'
  Feed,         \* rows with channel = 'in_app'
  Reminder,     \* the rows of one billing cycle (billing_cycle_id)
  Decision,     \* the rows of payment_decision_outbox
  NoWorker,     \* claim_token IS NULL
  NoRow,        \* a process that works on no row
  MaxAttempts,  \* attempts allowed per row (5 in the code)
  MaxBalance,   \* bound: the amount of the bill
  MaxQueued,    \* bound: rows queued
  MaxFaults     \* bound: crashes, database errors and leases outlived

Row == Mail \cup Feed

ASSUME RowsAssumption ==
  /\ Mail \cap Feed = {}
  /\ Reminder \subseteq Row
  /\ Decision \subseteq Mail \ Reminder
  /\ NoRow \notin Row
  /\ NoWorker \notin Worker
ASSUME BoundsAssumption ==
  /\ MaxAttempts \in Nat \ {0}
  /\ MaxBalance \in Nat \ {0}
  /\ MaxQueued \in Nat
  /\ MaxFaults \in Nat

VARIABLES
  state,     \* per row: state; "none" before the row is queued
  attempts,  \* per row: attempts
  holder,    \* per row: whose claim its claim_token is
  marker,    \* operational_delivery_attempts, per row and attempt
  notice,    \* per decision: notification_deliveries.status
  balance,   \* outstanding balance of the bill; 0: paid
  evidence,  \* a payment of the bill is pending verification
  worker,    \* per process: its tick
  handed,    \* history: messages handed over, per row
  accepted,  \* history: messages accepted by SMTP or shown in the feed
  dueSince,  \* history: the bill was due at some time since the last claim of a process
  misread,   \* history: database errors taken for a refusal by SMTP, per row
  faults     \* what MaxFaults bounds

rowVars     == <<state, attempts, holder>>
billVars    == <<balance, evidence>>
historyVars == <<handed, accepted, dueSince, misread>>
vars == <<state, attempts, holder, marker, notice, balance, evidence,
          worker, handed, accepted, dueSince, misread, faults>>

(* One process: the tables left to claim from, the claimed rows not begun, and
   the row it works on with the attempt number of its claim (a process that has
   lost the claim may have another number, and never uses it). *)
Step == {"take", "bill", "cancel", "pause", "prepare", "send", "record", "fail",
         "finish", "notice"}

Outcome == {"none", "sent", "failed", "uncertain"}

Tick == [pc: Step, left: 0 .. 2, todo: SUBSET Row, row: Row \cup {NoRow},
         number: 0 .. MaxAttempts, outcome: Outcome]

Idle == [pc |-> "take", left |-> 0, todo |-> {}, row |-> NoRow,
         number |-> 0, outcome |-> "none"]

TypeOK ==
  /\ state \in [Row -> {"none", "pending", "sending", "sent", "failed",
                        "uncertain", "cancelled"}]
  /\ attempts \in [Row -> 0 .. MaxAttempts]
  /\ holder \in [Row -> Worker \cup {NoWorker}]
  /\ marker \in [Row -> [1 .. MaxAttempts ->
                  {"none", "sending", "sent", "failed", "uncertain", "paused"}]]
  /\ notice \in [Decision -> {"queued", "sent", "failed"}]
  /\ balance \in 0 .. MaxBalance
  /\ evidence \in BOOLEAN
  /\ worker \in [Worker -> Tick]
  /\ handed \in [Row -> Nat]
  /\ accepted \in [Row -> Nat]
  /\ dueSince \in [Worker -> BOOLEAN]
  /\ misread \in [Row -> Nat]
  /\ faults \in 0 .. MaxFaults

Init ==
  /\ state = [r \in Row |-> "none"]
  /\ attempts = [r \in Row |-> 0]
  /\ holder = [r \in Row |-> NoWorker]
  /\ marker = [r \in Row |-> [n \in 1 .. MaxAttempts |-> "none"]]
  /\ notice = [r \in Decision |-> "queued"]
  /\ balance = MaxBalance
  /\ evidence = FALSE
  /\ worker = [w \in Worker |-> Idle]
  /\ handed = [r \in Row |-> 0]
  /\ accepted = [r \in Row |-> 0]
  /\ dueSince = [w \in Worker |-> FALSE]
  /\ misread = [r \in Row |-> 0]
  /\ faults = 0

-----------------------------------------------------------------------------
Due == balance > 0 /\ ~evidence

(* queueReminders, evaluateRules and the rejection trigger: the dedupe key is
   unique, so a row is queued once. *)
Queue(r) ==
  /\ state[r] = "none"
  /\ Cardinality({q \in Row : state[q] # "none"}) < MaxQueued
  /\ r \in Reminder => Due
  /\ state' = [state EXCEPT ![r] = "pending"]
  /\ UNCHANGED <<attempts, holder, marker, notice, billVars, worker, historyVars, faults>>

(* recordCashPayment: the settlement of the bill cancels what waits. *)
RecordCashPayment(left) ==
  /\ Due
  /\ left < balance
  /\ balance' = left
  /\ state' = IF left = 0
       THEN [r \in Row |-> IF r \in Reminder /\ state[r] \in {"pending", "failed"}
                             THEN "cancelled" ELSE state[r]]
       ELSE state
  /\ UNCHANGED <<attempts, holder, marker, notice, evidence, worker,
                 historyVars, faults>>

(* A customer submits transfer evidence. *)
SubmitEvidence ==
  /\ Due
  /\ evidence' = TRUE
  /\ UNCHANGED <<rowVars, marker, notice, balance, worker, historyVars, faults>>

(* verifyPayment: approval, which must cover the balance, or rejection. *)
VerifyPayment(left) ==
  /\ evidence
  /\ left \in {0, balance}
  /\ evidence' = FALSE
  /\ balance' = left
  /\ dueSince' = [w \in Worker |-> dueSince[w] \/ left > 0]
  /\ UNCHANGED <<rowVars, marker, notice, worker, handed, accepted, misread, faults>>

-----------------------------------------------------------------------------
(* Process w is between two ticks, or between two batches of one. *)
BatchDone(w) == worker[w].pc = "take" /\ worker[w].todo = {}

Working(w, r) == worker[w].row = r \/ r \in worker[w].todo

(* Mutant: the attempt markers are not looked at. *)
SafeToRetryAny(r) == TRUE

(* reconcileClaims: an abandoned claim is safe to retry if its message cannot
   have been accepted or showing it twice does no harm. *)
SafeToRetry(r) == r \in Feed \/ marker[r][attempts[r]] = "none"

(* Mutant: the notices are not repaired. *)
NoticesAsTheyAre(next) == notice

(* The repair of the public status of decisions from the outbox. *)
RepairedNotices(next) ==
  [r \in Decision |->
     IF next[r] = "sent" THEN "sent"
     ELSE IF next[r] \in {"failed", "uncertain"} THEN "failed" ELSE notice[r]]

(* A tick of process w begins with reconcileClaims, which finds the rows of S
   with a stale lease.  A lease of a process still at work is stale only if
   that process outlived it. *)
ReconcileClaims(w, S) ==
  /\ BatchDone(w) /\ worker[w].left = 0
  /\ \A r \in S : state[r] = "sending"
  /\ LET outlived == \E r \in S, v \in Worker : holder[r] = v /\ Working(v, r)
         safe == {r \in S : SafeToRetry(r)}
     IN /\ IF outlived THEN faults < MaxFaults /\ faults' = faults + 1
                       ELSE UNCHANGED faults
        /\ state' = [r \in Row |-> IF r \in safe THEN "pending"
                                   ELSE IF r \in S THEN "uncertain" ELSE state[r]]
        /\ attempts' = [r \in Row |-> IF r \in safe /\ attempts[r] > 0
                                        THEN attempts[r] - 1 ELSE attempts[r]]
        /\ holder' = [r \in Row |-> IF r \in safe THEN NoWorker ELSE holder[r]]
        /\ marker' = [r \in Row |->
             IF r \in S /\ attempts[r] > 0 /\ marker[r][attempts[r]] # "none"
               THEN [marker[r] EXCEPT ![attempts[r]] =
                       IF r \in safe THEN "paused" ELSE "uncertain"]
               ELSE marker[r]]
        /\ notice' = RepairedNotices(state')
  /\ worker' = [worker EXCEPT ![w].left = 2]
  /\ UNCHANGED <<billVars, historyVars>>

(* Mutant: failed rows are not looked at. *)
ClaimableNew(r) == state[r] = "pending" /\ attempts[r] < MaxAttempts

Claimable(r) == state[r] \in {"pending", "failed"} /\ attempts[r] < MaxAttempts

(* claimDeliveries of one table; S are the rows that are due. *)
ClaimDeliveries(w, S) ==
  /\ BatchDone(w) /\ worker[w].left > 0
  /\ S \subseteq IF worker[w].left = 2 THEN Row \ Decision ELSE Decision
  /\ \A r \in S : Claimable(r)
  /\ state' = [r \in Row |-> IF r \in S THEN "sending" ELSE state[r]]
  /\ attempts' = [r \in Row |-> IF r \in S THEN attempts[r] + 1 ELSE attempts[r]]
  /\ holder' = [r \in Row |-> IF r \in S THEN w ELSE holder[r]]
  /\ dueSince' = [dueSince EXCEPT ![w] = Due]
  /\ worker' = [worker EXCEPT ![w].left = @ - 1, ![w].todo = S]
  /\ UNCHANGED <<marker, notice, billVars, handed, accepted, misread, faults>>

Goto(w, pc) == worker' = [worker EXCEPT ![w].pc = pc]

GotoWith(w, pc, outcome) ==
  worker' = [worker EXCEPT ![w].pc = pc, ![w].outcome = outcome]

(* The next row of the batch. *)
Done(w) ==
  worker' = [worker EXCEPT ![w] = [Idle EXCEPT !.left = worker[w].left,
                                               !.todo = worker[w].todo]]

(* The next row; is its recipient still verified and allowed to see it? *)
TakeRow(w, r, eligible) ==
  /\ worker[w].pc = "take"
  /\ r \in worker[w].todo
  /\ worker' = [worker EXCEPT
       ![w].todo = @ \ {r}, ![w].row = r, ![w].number = attempts[r],
       ![w].outcome = IF eligible THEN "none" ELSE "uncertain",
       ![w].pc = IF ~eligible THEN "fail"
                 ELSE IF r \in Reminder THEN "bill" ELSE "prepare"]
  /\ UNCHANGED <<rowVars, marker, notice, billVars, historyVars, faults>>

(* Mutant: only cancellation and payment are checked. *)
CheckBillWithoutEvidence(w) ==
  /\ worker[w].pc = "bill"
  /\ Goto(w, IF balance = 0 THEN "cancel" ELSE "prepare")
  /\ UNCHANGED <<rowVars, marker, notice, billVars, historyVars, faults>>

(* The bill is read again before a reminder is delivered. *)
CheckBill(w) ==
  /\ worker[w].pc = "bill"
  /\ Goto(w, IF balance = 0 THEN "cancel" ELSE IF evidence THEN "pause" ELSE "prepare")
  /\ UNCHANGED <<rowVars, marker, notice, billVars, historyVars, faults>>

(* The row still has the token of w's claim. *)
Owns(w) == holder[worker[w].row] = w

CancelReminder(w) ==
  /\ worker[w].pc = "cancel"
  /\ state' = IF Owns(w) THEN [state EXCEPT ![worker[w].row] = "cancelled"] ELSE state
  /\ Done(w)
  /\ UNCHANGED <<attempts, holder, marker, notice, billVars, historyVars, faults>>

(* Mutant: a paused reminder counts as an attempt. *)
PauseConsuming(w) ==
  /\ worker[w].pc = "pause"
  /\ LET r == worker[w].row IN
     /\ state' = IF Owns(w) THEN [state EXCEPT ![r] = "pending"] ELSE state
     /\ holder' = IF Owns(w) THEN [holder EXCEPT ![r] = NoWorker] ELSE holder
  /\ Done(w)
  /\ UNCHANGED <<attempts, marker, notice, billVars, historyVars, faults>>

PauseReminder(w) ==
  /\ worker[w].pc = "pause"
  /\ LET r == worker[w].row IN
     /\ state' = IF Owns(w) THEN [state EXCEPT ![r] = "pending"] ELSE state
     /\ attempts' = IF Owns(w) THEN [attempts EXCEPT ![r] = @ - 1] ELSE attempts
     /\ holder' = IF Owns(w) THEN [holder EXCEPT ![r] = NoWorker] ELSE holder
  /\ Done(w)
  /\ UNCHANGED <<marker, notice, billVars, historyVars, faults>>

MayPrepare(w) == Owns(w) /\ state[worker[w].row] = "sending"

(* prepareAttempt: the lease is renewed and the attempt marked in one
   transaction, unless the claim was lost. *)
PrepareAttempt(w) ==
  /\ worker[w].pc = "prepare"
  /\ IF MayPrepare(w)
       THEN /\ marker' = [marker EXCEPT ![worker[w].row][worker[w].number] = "sending"]
            /\ Goto(w, "send")
       ELSE UNCHANGED marker /\ Done(w)
  /\ UNCHANGED <<rowVars, notice, billVars, historyVars, faults>>

-----------------------------------------------------------------------------
(* An in_app row: the feed event, idempotent, and the state in one transaction
   (the event of an alert was written when it was raised). *)
ShowInFeed(w) ==
  /\ worker[w].pc = "send"
  /\ LET r == worker[w].row IN
     /\ r \in Feed
     /\ handed' = [handed EXCEPT ![r] = 1]
     /\ accepted' = [accepted EXCEPT ![r] = 1]
     /\ state' = IF Owns(w) THEN [state EXCEPT ![r] = "sent"] ELSE state
  /\ GotoWith(w, "finish", "sent")
  /\ UNCHANGED <<attempts, holder, marker, notice, billVars, dueSince, misread, faults>>

(* sendMail: SMTP accepts or not; the sender learns that it did, that it
   certainly did not (a refusal, no transport), or nothing. *)
SendMail(w, taken, answer) ==
  /\ worker[w].pc = "send"
  /\ answer = "accepted" => taken
  /\ answer = "refused" => ~taken
  /\ LET r == worker[w].row IN
     /\ r \in Mail
     /\ handed' = [handed EXCEPT ![r] = @ + 1]
     /\ accepted' = [accepted EXCEPT ![r] = IF taken THEN @ + 1 ELSE @]
  /\ CASE answer = "accepted" -> Goto(w, "record")
       [] answer = "refused"  -> GotoWith(w, "fail", "failed")
       [] answer = "unknown"  -> GotoWith(w, "fail", "uncertain")
  /\ UNCHANGED <<rowVars, marker, notice, billVars, dueSince, misread, faults>>

(* The outbox row of an accepted mail. *)
RecordSent(w) ==
  /\ worker[w].pc = "record"
  /\ state' = IF Owns(w) THEN [state EXCEPT ![worker[w].row] = "sent"] ELSE state
  /\ GotoWith(w, "finish", "sent")
  /\ UNCHANGED <<attempts, holder, marker, notice, billVars, historyVars, faults>>

(* A statement that records an accepted mail fails, inside the block that
   catches SMTP's errors, and its error is taken for one of SMTP's: a database
   that refuses the connection looks like an SMTP server that did. *)
RecordingFails(w, refused) ==
  /\ faults < MaxFaults
  /\ faults' = faults + 1
  /\ worker[w].row \in Mail
  /\ \/ worker[w].pc = "record"
     \/ worker[w].pc \in {"finish", "notice"} /\ worker[w].outcome = "sent"
  /\ GotoWith(w, "fail", IF refused THEN "failed" ELSE "uncertain")
  /\ misread' = IF refused THEN [misread EXCEPT ![worker[w].row] = @ + 1] ELSE misread
  /\ UNCHANGED <<rowVars, marker, notice, billVars, handed, accepted, dueSince>>

(* Mutant: every failure may be retried. *)
FailRetrying(w) ==
  /\ worker[w].pc = "fail"
  /\ IF Owns(w)
       THEN /\ state' = [state EXCEPT ![worker[w].row] = "failed"]
            /\ Goto(w, "finish")
       ELSE UNCHANGED state /\ Done(w)
  /\ UNCHANGED <<attempts, holder, marker, notice, billVars, historyVars, faults>>

(* fail: a lost claim changes nothing. *)
Fail(w) ==
  /\ worker[w].pc = "fail"
  /\ IF Owns(w)
       THEN /\ state' = [state EXCEPT ![worker[w].row] = worker[w].outcome]
            /\ Goto(w, "finish")
       ELSE UNCHANGED state /\ Done(w)
  /\ UNCHANGED <<attempts, holder, marker, notice, billVars, historyVars, faults>>

(* finishAttempt updates the marker, if there is one, whoever holds the row. *)
FinishAttempt(w) ==
  /\ worker[w].pc = "finish"
  /\ LET r == worker[w].row
         n == worker[w].number IN
     /\ marker' = IF marker[r][n] # "none"
                    THEN [marker EXCEPT ![r][n] = worker[w].outcome] ELSE marker
     /\ IF r \in Decision THEN Goto(w, "notice") ELSE Done(w)
  /\ UNCHANGED <<rowVars, notice, billVars, historyVars, faults>>

UpdateNotice(w) ==
  /\ worker[w].pc = "notice"
  /\ notice' = [notice EXCEPT ![worker[w].row] =
       IF worker[w].outcome = "sent" THEN "sent" ELSE "failed"]
  /\ Done(w)
  /\ UNCHANGED <<rowVars, marker, billVars, historyVars, faults>>

(* The process dies, or an error leaves deliver: the batch is abandoned. *)
Crash(w) ==
  /\ worker[w] # Idle
  /\ faults < MaxFaults
  /\ faults' = faults + 1
  /\ worker' = [worker EXCEPT ![w] = Idle]
  /\ UNCHANGED <<rowVars, marker, notice, billVars, historyVars>>

-----------------------------------------------------------------------------
DeliverRow(w) ==
  \/ \E r \in Row, eligible \in BOOLEAN : TakeRow(w, r, eligible)
  \/ CheckBill(w)
  \/ CancelReminder(w)
  \/ PauseReminder(w)
  \/ PrepareAttempt(w)
  \/ ShowInFeed(w)
  \/ \E taken \in BOOLEAN, answer \in {"accepted", "refused", "unknown"} :
       SendMail(w, taken, answer)
  \/ RecordSent(w)
  \/ Fail(w)
  \/ FinishAttempt(w)
  \/ UpdateNotice(w)

Deliver(w) ==
  \/ \E S \in SUBSET Row : ReconcileClaims(w, S) \/ ClaimDeliveries(w, S)
  \/ DeliverRow(w)
  \/ \E refused \in BOOLEAN : RecordingFails(w, refused)
  \/ Crash(w)

Billing ==
  \/ \E left \in 0 .. MaxBalance : RecordCashPayment(left) \/ VerifyPayment(left)
  \/ SubmitEvidence

Next ==
  \/ \E r \in Row : Queue(r)
  \/ \E w \in Worker : Deliver(w)
  \/ Billing

Spec == Init /\ [][Next]_vars

(* The timer of every process fires again and again; a tick goes through its
   batch; some tick finds an abandoned claim stale, and some tick a row due.
   Nothing is assumed of payments, crashes or what SMTP answers. *)
Abandoned(r) == state[r] = "sending" /\ \A w \in Worker : ~(holder[r] = w /\ Working(w, r))

Fairness ==
  /\ \A w \in Worker :
       /\ WF_vars(\E S \in SUBSET Row : ReconcileClaims(w, S))
       /\ WF_vars(\E S \in SUBSET Row : ClaimDeliveries(w, S))
       /\ WF_vars(DeliverRow(w))
  /\ SF_vars(\E r \in Row, w \in Worker, S \in SUBSET Row :
               Abandoned(r) /\ r \in S /\ ReconcileClaims(w, S))
  /\ SF_vars(\E w \in Worker, S \in SUBSET Row \ {{}} : ClaimDeliveries(w, S))

FairSpec == Spec /\ Fairness
-----------------------------------------------------------------------------
(* PROPERTIES *)

(* "Possibly delivered mail requires reconciliation rather than blind resend"
   (docs/superpowers/plans/2026-10-09-customer-feedback-implementation.md:47):
   no mail is accepted by SMTP twice.  The code breaks it: a database error that
   looks like a refusal by SMTP, thrown when the accepted mail is recorded, makes
   the row claimable again (the catch of deliver). *)
AcceptedAtMostOnce == \A r \in Mail : accepted[r] <= 1

(* That error is the only way: a mail is accepted once, and once more at most
   for each database error taken for a refusal, whichever process dies, is
   overtaken by its lease, is recovered twice or loses SMTP's answer
   (reconcileClaims, prepareAttempt, the claim_token guards). *)
ResentOnlyIfMisread == \A r \in Mail : accepted[r] <= misread[r] + 1

(* What the outbox says of a row is so: one that may be sent (again) or was
   cancelled was not accepted, misread acceptances apart, and a sent one was
   (fail, reconcileClaims and the claim_token guards). *)
OutcomeIsTruthful ==
  \A r \in Row :
    /\ state[r] \in {"none", "pending", "failed", "cancelled"} /\ r \in Mail
         => accepted[r] <= misread[r]
    /\ state[r] = "sent" => accepted[r] >= 1

(* The retry budget counts every message handed to SMTP, although attempts is
   also decremented (paused reminders, recovered claims), and a row never waits
   without budget, where no claim would find it. *)
BudgetHolds ==
  /\ \A r \in Mail : handed[r] <= attempts[r]
  /\ \A r \in Row : state[r] = "pending" => attempts[r] < MaxAttempts

(* A reminder goes out only if the bill was due after the claim under which it
   is sent, however long it waited and however often its claims were recovered
   (deliver re-reads the bill). *)
ReminderStillDue ==
  [][\A w \in Worker : worker[w].row \in Reminder /\ worker[w].pc = "send" /\ handed' # handed
       => dueSince[w] \/ worker'[w] = worker[w]]_vars

(* The public status of a decision ends up as what became of its mail, although
   it is written apart from the outbox row and by processes that were
   overtaken (reconcileClaims repairs it). *)
NoticesConverge ==
  \A r \in Decision : <>[](state[r] = "sent") => <>[](notice[r] = "sent")

(* Nothing is left to be done about the row. *)
Settled(r) ==
  \/ state[r] \in {"none", "sent", "cancelled", "uncertain"}
  \/ state[r] = "failed" /\ attempts[r] = MaxAttempts

(* Every queued row is settled in the end, for good, unless evidence stays
   unverified or keeps coming, although pauses and recoveries give attempts back
   (deliver, claimDeliveries, reconcileClaims). *)
EveryRowSettles ==
  <>[]~evidence => <>[](\A r \in Row : Settled(r))
-----------------------------------------------------------------------------
(* The inductive invariant (OperationalOutboxProofs).  Acceptances that were
   taken for refusals are forgiven. *)
Unaccepted(r) == accepted[r] <= misread[r]
AcceptedOnce(r) == 1 <= accepted[r] /\ accepted[r] <= misread[r] + 1

Waits(r) == state[r] \in {"none", "pending", "failed", "cancelled"}

(* Where a process stands, and what is in its hands. *)
TickConsistent(w) ==
  /\ worker[w].pc = "take" <=> worker[w].row = NoRow
  /\ worker[w].row \notin worker[w].todo
  /\ worker[w].pc = "record" => worker[w].row \in Mail
  /\ worker[w].pc = "fail" => worker[w].outcome \in {"failed", "uncertain"}
  /\ worker[w].pc = "finish" => worker[w].outcome # "none"

(* A claimed row has an attempt, one that waits to be sent has one left.  The
   attempt markers of a mail are never ahead of its attempts; if it waits, or its
   attempt is not marked, it was not accepted, nor handed over under this
   attempt. *)
RowConsistent(r) ==
  /\ state[r] = "sending" => attempts[r] >= 1
  /\ state[r] \in {"none", "pending"} => attempts[r] < MaxAttempts
  /\ state[r] = "sent" => AcceptedOnce(r)
  /\ r \in Mail =>
       /\ \A n \in 1 .. MaxAttempts : n > attempts[r] => marker[r][n] = "none"
       /\ handed[r] <= attempts[r]
       /\ accepted[r] <= misread[r] + 1
       /\ Waits(r) => Unaccepted(r)
       /\ state[r] = "sending" /\ marker[r][attempts[r]] = "none"
            => Unaccepted(r) /\ handed[r] < attempts[r]

BeforeSend == {"bill", "cancel", "pause", "prepare"}

(* A row that w has not begun to send is as it was claimed, if w still has the
   claim. *)
ClaimFresh(w) ==
  \A r \in Row :
    /\ holder[r] = w
    /\ r \in worker[w].todo \/ (worker[w].row = r /\ worker[w].pc \in BeforeSend)
    => /\ state[r] = "sending"
       /\ r \in Mail => marker[r][attempts[r]] = "none"
       /\ worker[w].row = r => worker[w].number = attempts[r]

(* The mail w is about to send has its marker, which keeps every other process
   away from it; so does one just accepted or refused, while w has the claim. *)
SendProtected(w) ==
  \A r \in Mail :
    worker[w].row = r =>
      /\ worker[w].pc = "send" =>
           /\ holder[r] = w
           /\ state[r] \in {"sending", "uncertain"}
           /\ attempts[r] >= 1 /\ marker[r][attempts[r]] # "none"
           /\ Unaccepted(r) /\ handed[r] < attempts[r]
      /\ worker[w].pc = "record" /\ holder[r] = w => AcceptedOnce(r)
      /\ worker[w].pc = "fail" /\ worker[w].outcome = "failed" /\ holder[r] = w
           => Unaccepted(r)

(* If the bill is due, a process that has rows knows it was; one about to
   deliver a reminder has seen it so. *)
DueKnown(w) ==
  /\ Due /\ ~BatchDone(w) => dueSince[w]
  /\ worker[w].row \in Reminder /\ worker[w].pc \in {"prepare", "send"} => dueSince[w]

IInv ==
  /\ TypeOK
  /\ \A r \in Row : RowConsistent(r)
  /\ \A w \in Worker : /\ TickConsistent(w)
                       /\ ClaimFresh(w)
                       /\ SendProtected(w)
                       /\ DueKnown(w)
=============================================================================
