------------------------ MODULE SavedDocumentDelivery ------------------------
(* Delivery by mail of the saved originals of one bill: its invoices and receipts
   (saved-document-delivery.ts, FinancialApplicationService.send).

   A call holds a session lock of the database for the bill, reads the outbox
   once and works through the documents in the order they were issued; the first
   that cannot be sent ends the call.  The mail server may take a mail and its
   answer get lost, and a call may lose its session, and with it the lock, at any
   statement.

   Left out: the wording and hash of the documents, and contracts, which have the
   same delivery with a lock and one document each. *)
EXTENDS Naturals, FiniteSets

CONSTANTS
  Caller,        \* requests to send the documents of the bill
  NoCaller,
  Recipient,     \* the recipients frozen in the documents
  NoRecipient,
  RetryBudget,   \* attempts of a document: 5 in the code
  MaxDocument,   \* bound: documents of the bill
  MaxFaults      \* bound: lost sessions and recipients found ineligible

ASSUME DeliveryAssumption ==
  /\ NoCaller \notin Caller
  /\ NoRecipient \notin Recipient
  /\ RetryBudget \in Nat \ {0}
  /\ MaxDocument \in Nat
  /\ MaxFaults \in Nat

VARIABLES
  issued,       \* documents 1 .. issued exist, in the order of created_at
  superseded,   \* those replaced by a later one
  outbox,       \* financial_delivery_outbox
  audit,        \* audit_events of a delivery
  lock,         \* who holds the advisory lock
  call,         \* what the callers are doing
  accepted,     \* how often the mail server took a document for a recipient
  faults        \* bound

billVars == <<issued, superseded>>
vars == <<issued, superseded, outbox, audit, lock, call, accepted, faults>>

Document == 1 .. MaxDocument

Row == [state: {"pending", "sending", "sent", "failed", "uncertain"},
        attempts: 0 .. RetryBudget, delivered: SUBSET Recipient]

(* seen: the rows as the call read them. *)
Call ==
  [at: {"idle", "select", "job", "loop", "mail", "taken", "cut"},
   todo: SUBSET Document, doc: {0} \cup Document,
   left: SUBSET Recipient, to: Recipient \cup {NoRecipient},
   seen: [Document -> Row]]

NewRow == [state |-> "pending", attempts |-> 0, delivered |-> {}]

Idle == [at |-> "idle", todo |-> {}, doc |-> 0, left |-> {}, to |-> NoRecipient,
         seen |-> [d \in Document |-> NewRow]]

TypeOK ==
  /\ issued \in 0 .. MaxDocument
  /\ superseded \subseteq 1 .. issued
  /\ outbox \in [Document -> Row]
  /\ audit \in [Document -> {"none", "started", "completed"}]
  /\ lock \in Caller \cup {NoCaller}
  /\ call \in [Caller -> Call]
  /\ accepted \in [Document -> [Recipient -> Nat]]
  /\ faults \in 0 .. MaxFaults

Init ==
  /\ issued = 0
  /\ superseded = {}
  /\ outbox = [d \in Document |-> NewRow]
  /\ audit = [d \in Document |-> "none"]
  /\ lock = NoCaller
  /\ call = [k \in Caller |-> Idle]
  /\ accepted = [d \in Document |-> [u \in Recipient |-> 0]]
  /\ faults = 0

-----------------------------------------------------------------------------
(* The bill gets a document, with its row in the outbox; the invoice of a
   correction supersedes an earlier one. *)
Issue(old) ==
  /\ issued < MaxDocument
  /\ issued' = issued + 1
  /\ superseded' = superseded \cup old
  /\ UNCHANGED <<outbox, audit, lock, call, accepted, faults>>

-----------------------------------------------------------------------------
(* What a call makes of a row. *)

Confirmed(row) == Recipient \subseteq row.delivered

(* Mutant: what was left in the state sending counts as a failure. *)
RefusedIfUncertain(row) ==
  \/ row.state = "uncertain"
  \/ (row.attempts >= RetryBudget /\ row.state # "sent")

(* Mutant: a delivery that was only not concluded is not concluded. *)
RefusedIfSending(row) ==
  \/ row.state \in {"uncertain", "sending"}
  \/ (row.attempts >= RetryBudget /\ row.state # "sent")

(* deliverSavedArtifacts: a row that staff have to reconcile. *)
Refused(row) ==
  \/ row.state = "uncertain"
  \/ (row.state = "sending" /\ ~Confirmed(row))
  \/ (row.attempts >= RetryBudget /\ row.state \notin {"sent", "sending"})

Concluded(row) == row.state = "sent" \/ (row.state = "sending" /\ Confirmed(row))

(* The call ends: finally releases the lock. *)
Leave(k) ==
  /\ call' = [call EXCEPT ![k] = Idle]
  /\ lock' = NoCaller

(* completeDelivery, one transaction. *)
Complete(d) ==
  /\ outbox' = [outbox EXCEPT ![d].state = "sent"]
  /\ audit' = [audit EXCEPT ![d] = "completed"]

(* The document of a call, the first of those it has left. *)
First(k, d) == d \in call[k].todo /\ \A e \in call[k].todo : d <= e

NextJob(k) == [call[k] EXCEPT !.at = "job", !.todo = @ \ {call[k].doc}, !.doc = 0]
-----------------------------------------------------------------------------
(* send: pg_try_advisory_lock; a call that does not get the lock is answered
   that another is under way. *)
Send(k) ==
  /\ call[k].at = "idle"
  /\ lock = NoCaller
  /\ lock' = k
  /\ call' = [call EXCEPT ![k] = [Idle EXCEPT !.at = "select"]]
  /\ UNCHANGED <<billVars, outbox, audit, accepted, faults>>

(* The outbox of the documents in force. *)
SelectJobs(k) ==
  /\ call[k].at = "select"
  /\ call' = [call EXCEPT ![k] = [Idle EXCEPT !.at = "job",
                                    !.todo = (1 .. issued) \ superseded, !.seen = outbox]]
  /\ UNCHANGED <<billVars, outbox, audit, lock, accepted, faults>>

Finish(k) ==
  /\ call[k].at = "job" /\ call[k].todo = {}
  /\ Leave(k)
  /\ UNCHANGED <<billVars, outbox, audit, accepted, faults>>

(* A document that was sent, or of which only the conclusion is missing. *)
Reconcile(k, d) ==
  /\ call[k].at = "job" /\ First(k, d)
  /\ ~Refused(call[k].seen[d])
  /\ Concluded(call[k].seen[d])
  /\ Complete(d)
  /\ call' = [call EXCEPT ![k].todo = @ \ {d}]
  /\ UNCHANGED <<billVars, lock, accepted, faults>>

Refuse(k, d) ==
  /\ call[k].at = "job" /\ First(k, d)
  /\ Refused(call[k].seen[d])
  /\ Leave(k)
  /\ UNCHANGED <<billVars, outbox, audit, accepted, faults>>

(* A recipient is no longer verified, active or of the site. *)
Ineligible(k, d) ==
  /\ call[k].at = "job" /\ First(k, d)
  /\ ~Refused(call[k].seen[d]) /\ ~Concluded(call[k].seen[d])
  /\ faults < MaxFaults /\ faults' = faults + 1
  /\ outbox' = [outbox EXCEPT ![d].state = "failed"]
  /\ Leave(k)
  /\ UNCHANGED <<billVars, audit, accepted>>

(* Mutant: the intent is recorded with the first attempt only if it succeeds. *)
BeginUnaudited(k, d) ==
  /\ call[k].at = "job" /\ First(k, d)
  /\ ~Refused(call[k].seen[d]) /\ ~Concluded(call[k].seen[d])
  /\ outbox' = [outbox EXCEPT ![d].state = "sending", ![d].attempts = @ + 1]
  /\ call' = [call EXCEPT ![k].at = "loop", ![k].doc = d,
                          ![k].left = Recipient \ call[k].seen[d].delivered]
  /\ UNCHANGED <<billVars, audit, lock, accepted, faults>>

(* The transaction of deliveryIntent: the attempt is on record before the first
   mail; recipients who have the document are passed over. *)
Begin(k, d) ==
  /\ call[k].at = "job" /\ First(k, d)
  /\ ~Refused(call[k].seen[d]) /\ ~Concluded(call[k].seen[d])
  /\ outbox' = [outbox EXCEPT ![d].state = "sending", ![d].attempts = @ + 1]
  /\ audit' = [audit EXCEPT ![d] = IF @ = "none" THEN "started" ELSE @]
  /\ call' = [call EXCEPT ![k].at = "loop", ![k].doc = d,
                          ![k].left = Recipient \ call[k].seen[d].delivered]
  /\ UNCHANGED <<billVars, lock, accepted, faults>>

(* sendMail is called. *)
SendMail(k, u) ==
  /\ call[k].at = "loop"
  /\ u \in call[k].left
  /\ call' = [call EXCEPT ![k].at = "mail", ![k].to = u]
  /\ UNCHANGED <<billVars, outbox, audit, lock, accepted, faults>>

Take(k) == accepted' = [accepted EXCEPT ![call[k].doc][call[k].to] = @ + 1]

(* The server takes the mail and says so. *)
Accepted(k) ==
  /\ call[k].at = "mail"
  /\ Take(k)
  /\ call' = [call EXCEPT ![k].at = "taken"]
  /\ UNCHANGED <<billVars, outbox, audit, lock, faults>>

(* delivered_user_ids *)
Record(k) ==
  /\ call[k].at = "taken"
  /\ outbox' = [outbox EXCEPT ![call[k].doc].delivered = @ \cup {call[k].to}]
  /\ call' = [call EXCEPT ![k].at = "loop", ![k].to = NoRecipient,
                          ![k].left = @ \ {call[k].to}]
  /\ UNCHANGED <<billVars, audit, lock, accepted, faults>>

(* An error that says the mail was not taken: no connection, a recipient or a
   command refused. *)
SafeFailure(k) ==
  /\ call[k].at = "mail"
  /\ outbox' = [outbox EXCEPT ![call[k].doc].state = "failed"]
  /\ Leave(k)
  /\ UNCHANGED <<billVars, audit, accepted, faults>>

(* Any other error: the mail may have been taken. *)
UnknownOutcome(k) ==
  /\ call[k].at = "mail"
  /\ Take(k) \/ UNCHANGED accepted
  /\ outbox' = [outbox EXCEPT ![call[k].doc].state = "uncertain"]
  /\ Leave(k)
  /\ UNCHANGED <<billVars, audit, faults>>

(* All have it. *)
Conclude(k) ==
  /\ call[k].at = "loop" /\ call[k].left = {}
  /\ Complete(call[k].doc)
  /\ call' = [call EXCEPT ![k] = NextJob(k)]
  /\ UNCHANGED <<billVars, lock, accepted, faults>>

(* The session ends, with or without the process: the lock is free and no
   statement of the call succeeds any more; a mail under way goes on. *)
Disconnect(k) ==
  /\ call[k].at \notin {"idle", "cut"}
  /\ faults < MaxFaults /\ faults' = faults + 1
  /\ lock' = NoCaller
  /\ call' = [call EXCEPT ![k] = IF @.at = "mail" THEN [@ EXCEPT !.at = "cut"] ELSE Idle]
  /\ UNCHANGED <<billVars, outbox, audit, accepted>>

Cut(k) ==
  /\ call[k].at = "cut"
  /\ Take(k) \/ UNCHANGED accepted
  /\ call' = [call EXCEPT ![k] = Idle]
  /\ UNCHANGED <<billVars, outbox, audit, lock, faults>>

-----------------------------------------------------------------------------
Deliver(k) ==
  \/ SelectJobs(k) \/ Finish(k) \/ Conclude(k)
  \/ \E d \in Document : Reconcile(k, d) \/ Refuse(k, d) \/ Ineligible(k, d) \/ Begin(k, d)
  \/ \E u \in Recipient : SendMail(k, u)
  \/ Accepted(k) \/ Record(k) \/ SafeFailure(k) \/ UnknownOutcome(k) \/ Cut(k)

Next ==
  \/ \E old \in SUBSET (1 .. issued) : Cardinality(old) <= 1 /\ Issue(old)
  \/ \E k \in Caller : Send(k) \/ Deliver(k) \/ Disconnect(k)

Spec == Init /\ [][Next]_vars

(* A call that started goes on, the mail server or its timeout answers, and
   staff ask again. *)
FairSpec ==
  /\ Spec
  /\ \A k \in Caller : WF_vars(Deliver(k))
  /\ WF_vars(\E k \in Caller : Send(k))
-----------------------------------------------------------------------------
(* PROPERTIES *)

(* Whatever is retried, lost or run at the same time: the mail server takes each
   document for each recipient at most once, and a document marked sent was
   taken for all (deliverSavedArtifacts: "retry budget and uncertain-SMTP
   handling"; the design's "a delivery that may have been accepted is reconciled
   before retry so redeployment or scheduler retries cannot duplicate an
   email"). *)
Promise == INSTANCE AtMostOnceDelivery
             WITH sent <- {d \in Document : outbox[d].state = "sent"}

DeliversAtMostOnce == Promise!PromiseSpec

(* The audit trail tells the truth: no mail without a recorded intent, and
   completion is recorded exactly for the documents all recipients have
   (deliveryIntent, completeDelivery). *)
AuditIsTruthful ==
  \A d \in Document :
    /\ audit[d] = "none" => \A u \in Recipient : accepted[d][u] = 0
    /\ audit[d] = "completed" <=> outbox[d].state = "sent"
    /\ outbox[d].state = "sent" => outbox[d].delivered = Recipient

(* A document whose mail may be out with a recipient and not on record, or whose
   attempts failed as often as allowed; no call is at it. *)
NeedsStaff(d) ==
  /\ \/ outbox[d].state \in {"sending", "uncertain"} /\ outbox[d].delivered # Recipient
     \/ outbox[d].state = "failed" /\ outbox[d].attempts = RetryBudget
  /\ ~ \E k \in Caller : call[k].doc = d /\ call[k].at # "cut"

(* If staff keep asking, a document is sent, or it is replaced, or it or one
   issued before it waits for reconciliation: no crash leaves a document
   undelivered that could be delivered (the resumption of a sending row). *)
DocumentsSettle ==
  \A d \in Document :
    d <= issued ~> \/ d \in superseded \/ outbox[d].state = "sent"
                   \/ \E e \in (1 .. d) \ superseded : NeedsStaff(e)
=============================================================================
