---------------------------- MODULE BillingCycle ----------------------------
(* The bills of one site: how a bill is calculated, prepared, reviewed, issued,
   corrected, reopened and paid (financial-application.service.ts,
   site-billing.service.ts, billing.controller.ts).

   Every handler is one transaction that locks the row of its bill before it
   reads it (and the configuration or the site before the bill), so an action
   is a whole handler; a refused request changes nothing and is no step.  What
   happens between requests - a reviewer looks at a bill, others act, the
   reviewer approves - is between actions.

   Dates, tax, numbers and layout are left out: the terms of a bill are its
   amount and the version of the billing settings it was calculated with.
   Missing configuration, and a bank reference that is already used, refuse a
   request and are not told apart from a request that was never made. *)
EXTENDS Integers, Sequences, FiniteSets, FiniteSetsExt

CONSTANTS
  Cycle,        \* bills; the name of a manual one stands for its idempotency key
  Manual,       \* the manual ones: lines typed in, no tariff
  Payment,      \* rows of the table payments
  Evidence,     \* slips of transfers
  CashKey,      \* idempotency keys of cash payments (with their actor)
  Amount,       \* the amounts a bill can come to
  Production,   \* whether the financial scope is PRODUCTION, not TEST
  NoPayment, NoDraft, NoToken, NoTerms,
  MaxVersion,   \* bound: versions of the billing settings
  MaxRevision   \* bound: invoices of a bill

ASSUME BillingAssumption ==
  /\ Manual \subseteq Cycle
  /\ Amount \subseteq Nat
  /\ Production \in BOOLEAN
  /\ Evidence \cap CashKey = {}
  /\ IsFiniteSet(Payment)
  /\ MaxVersion \in Nat \ {0}
  /\ MaxRevision \in Nat \ {0}

VARIABLES
  settings,   \* site_billing_settings.version
  status,     \* billing_cycles.status; "none" before the row exists
  terms,      \* what billing_cycles says is owed
  invoices,   \* documents of type invoice of a bill, oldest first
  draft,      \* billing_replacement_drafts: the row pending_issue_approval
  review,     \* the token of the last preview of a bill
  payment     \* the table payments

vars == <<settings, status, terms, invoices, draft, review, payment>>

Status == {"none", "pending_review", "rejected", "pending_issue_approval", "approved",
           "pending_verification", "partially_paid", "paid"}

Version == 1 .. MaxVersion

Terms == [amount: Amount, version: Version]

(* reviewToken: the facts an approver saw, with the settings of that moment. *)
Token == Terms \cup {NoToken}

(* asReviewed is a history field: the invoice states what the approver who sent a
   token had seen. *)
Invoice == [terms: Terms, current: BOOLEAN, asReviewed: BOOLEAN]

Draft == [supersedes: 1 .. MaxRevision, terms: Terms] \cup {NoDraft}

(* receipt is the number of the receipt issued for the payment, 0 before. *)
PaymentRow ==
  [cycle: Cycle, proof: Evidence \cup CashKey, amount: Nat,
   state: {"pending_verification", "paid", "rejected"}, receipt: Nat]

ASSUME SentinelAssumption ==
  /\ NoToken \notin Terms
  /\ NoDraft \notin [supersedes: 1 .. MaxRevision, terms: Terms]
  /\ NoPayment \notin PaymentRow

TypeOK ==
  /\ settings \in Version
  /\ status \in [Cycle -> Status]
  /\ terms \in [Cycle -> Terms \cup {NoTerms}]
  /\ \A c \in Cycle : status[c] # "none" => terms[c] \in Terms
  /\ invoices \in [Cycle -> Seq(Invoice)]
  /\ \A c \in Cycle : Len(invoices[c]) <= MaxRevision
  /\ draft \in [Cycle -> Draft]
  /\ review \in [Cycle -> Token]
  /\ payment \in [Payment -> PaymentRow \cup {NoPayment}]

Init ==
  /\ settings = 1
  /\ status = [c \in Cycle |-> "none"]
  /\ terms = [c \in Cycle |-> NoTerms]
  /\ invoices = [c \in Cycle |-> <<>>]
  /\ draft = [c \in Cycle |-> NoDraft]
  /\ review = [c \in Cycle |-> NoToken]
  /\ payment = [p \in Payment |-> NoPayment]

-----------------------------------------------------------------------------
(* What the handlers read. *)

Rows(c, state) ==
  {p \in Payment : payment[p] # NoPayment /\ payment[p].cycle = c /\ payment[p].state = state}

Paid(c)    == Rows(c, "paid")
Pending(c) == Rows(c, "pending_verification")

(* settlementBalance, outstandingBalance: sums over the paid rows. *)
Collected(c)   == MapThenSumSet(LAMBDA p : payment[p].amount, Paid(c))
Outstanding(c) == terms[c].amount - Collected(c)

(* financial-readiness: in PRODUCTION every step on a bill asks that it was
   calculated with the present settings; a TEST installation asks nothing. *)
Gate(c) == Production => terms[c].version = settings

CurrentInvoices(c) == {r \in DOMAIN invoices[c] : invoices[c][r].current}

(* assertRateEditable, and the readiness of a correction in PRODUCTION. *)
RateEditable(c) ==
  /\ status[c] # "paid"
  /\ Paid(c) = {}
  /\ Pending(c) = {}

(* Mutant: an approver's token is never compared. *)
ReviewedAnything(token, t) == TRUE

(* A token is compared only if the client sent one. *)
Reviewed(token, t) == token = NoToken \/ token = [amount |-> t.amount, version |-> settings]

(* Mutant: a proof is looked for on its own bill only. *)
ProofFreeInCycle(proof, c) ==
  \A p \in Payment : payment[p] # NoPayment /\ payment[p].proof = proof /\ payment[p].cycle = c
    => payment[p].state = "rejected"

(* submitPayment's duplicate query and its unique indexes: evidence may be sent
   again only after it was rejected.  recordCashPayment's replay and unique index:
   a key that was used answers as before or is refused, on whatever bill. *)
ProofFree(proof, c) ==
  \A p \in Payment : payment[p] # NoPayment /\ payment[p].proof = proof
    => payment[p].state = "rejected"
-----------------------------------------------------------------------------
(* saveSettings *)
SaveSettings ==
  /\ settings < MaxVersion
  /\ settings' = settings + 1
  /\ UNCHANGED <<status, terms, invoices, draft, review, payment>>

SetStatus(c, s) == status' = [status EXCEPT ![c] = s]

(* calculate: the bill of a period is calculated once; asked again, the saved
   one is returned as it is. *)
Calculate(c, a) ==
  /\ c \notin Manual
  /\ status[c] = "none"
  /\ SetStatus(c, "pending_review")
  /\ terms' = [terms EXCEPT ![c] = [amount |-> a, version |-> settings]]
  /\ UNCHANGED <<settings, invoices, draft, review, payment>>

(* manualInvoice: saved and prepared at once; sent again with the same key it
   prepares a bill that was reopened. *)
ManualInvoice(c, a) ==
  /\ c \in Manual
  /\ \/ status[c] = "none" /\ terms' = [terms EXCEPT ![c] = [amount |-> a, version |-> settings]]
     \/ status[c] = "pending_review" /\ terms[c].amount = a /\ Gate(c) /\ UNCHANGED terms
  /\ SetStatus(c, "pending_issue_approval")
  /\ UNCHANGED <<settings, invoices, draft, review, payment>>

(* prepareInvoice *)
PrepareInvoice(c) ==
  /\ status[c] \in {"pending_review", "rejected"}
  /\ Gate(c)
  /\ SetStatus(c, "pending_issue_approval")
  /\ UNCHANGED <<settings, terms, invoices, draft, review, payment>>

(* updateBillingCycleStatus, to review or rejected: whatever was issued, unless
   the bill is settled or a transfer is under review. *)
Reopened == {"pending_review", "rejected"}

UpdateStatus(c, s) ==
  /\ s \in Reopened
  /\ status[c] \notin {"none", "paid", "pending_verification"}
  /\ Gate(c)
  /\ SetStatus(c, s)
  /\ UNCHANGED <<settings, terms, invoices, draft, review, payment>>

(* previewInvoice: what would be issued, the replacement if there is one. *)
Proposed(c) == IF draft[c] = NoDraft THEN terms[c] ELSE draft[c].terms

PreviewInvoice(c) ==
  /\ status[c] = IF draft[c] = NoDraft THEN "pending_issue_approval" ELSE "approved"
  /\ review' = [review EXCEPT ![c] = [amount |-> Proposed(c).amount, version |-> settings]]
  /\ UNCHANGED <<settings, status, terms, invoices, draft, payment>>
-----------------------------------------------------------------------------
NewInvoice(t, token) ==
  [terms |-> t, current |-> TRUE, asReviewed |-> token \in {NoToken, t}]

(* Mutant: a bill that was issued is issued again when it is approved again. *)
IssueInvoiceAgain(c, token) ==
  /\ draft[c] = NoDraft
  /\ status[c] = "pending_issue_approval"
  /\ terms[c].version = settings
  /\ Reviewed(token, terms[c])
  /\ Len(invoices[c]) < MaxRevision
  /\ invoices' = [invoices EXCEPT ![c] =
                    Append(@, NewInvoice(terms[c], token))]
  /\ SetStatus(c, "approved")
  /\ UNCHANGED <<settings, terms, draft, review, payment>>

(* approveInvoice of a bill that has no invoice; one that has is answered with
   it and stays as it is.  documentFacts refuses a bill of other settings. *)
IssueInvoice(c, token) ==
  /\ draft[c] = NoDraft
  /\ CurrentInvoices(c) = {}
  /\ status[c] = "pending_issue_approval"
  /\ terms[c].version = settings
  /\ Reviewed(token, terms[c])
  /\ Len(invoices[c]) < MaxRevision
  /\ invoices' = [invoices EXCEPT ![c] =
                    Append(@, NewInvoice(terms[c], token))]
  /\ SetStatus(c, "approved")
  /\ UNCHANGED <<settings, terms, draft, review, payment>>

(* Mutant: payments since the proposal was made are not looked at. *)
ReplaceableAnyway(c) == TRUE

(* approveInvoice of a replacement: the new original takes the place of the one
   it supersedes, and the bill takes over its terms.  Replaceable is what the
   bill must be for it. *)
Replaceable(c) == status[c] = "approved" /\ (Production => RateEditable(c))

Superseded(original, k) ==
  [r \in DOMAIN original |-> [original[r] EXCEPT !.current = @ /\ r # k]]

IssueReplacement(c, token) ==
  /\ draft[c] # NoDraft
  /\ Replaceable(c)
  /\ CurrentInvoices(c) = {draft[c].supersedes}
  /\ Gate(c)
  /\ draft[c].terms.version = settings
  /\ Reviewed(token, draft[c].terms)
  /\ Len(invoices[c]) < MaxRevision
  /\ invoices' = [invoices EXCEPT ![c] =
                    Append(Superseded(invoices[c], draft[c].supersedes),
                           NewInvoice(draft[c].terms, token))]
  /\ terms' = [terms EXCEPT ![c] = draft[c].terms]
  /\ draft' = [draft EXCEPT ![c] = NoDraft]
  /\ UNCHANGED <<settings, status, review, payment>>

(* reprice and reviseInvoiceInTransaction: a correction of the tariff becomes a
   proposal; the invoice stays in force until the proposal is approved.  One
   that changes nothing is made only for a new renderer, so any amount can be
   proposed; a second proposal is refused. *)
Reprice(c, a) ==
  /\ c \notin Manual
  /\ status[c] = "approved"
  /\ RateEditable(c)
  /\ Gate(c)
  /\ draft[c] = NoDraft
  /\ \E r \in CurrentInvoices(c) :
       draft' = [draft EXCEPT ![c] =
                   [supersedes |-> r, terms |-> [amount |-> a, version |-> settings]]]
  /\ UNCHANGED <<settings, status, terms, invoices, review, payment>>
-----------------------------------------------------------------------------
Payable(c) == status[c] \in {"approved", "partially_paid"}

NewRow(c, p, proof, a, state, receipt) ==
  /\ payment[p] = NoPayment
  /\ payment' = [payment EXCEPT ![p] = [cycle |-> c, proof |-> proof, amount |-> a,
                                        state |-> state, receipt |-> receipt]]

(* Mutant: instalments are numbered over the payments, not over the receipts. *)
NextReceiptOfRows(c) ==
  Cardinality({p \in Payment : payment[p] # NoPayment /\ payment[p].cycle = c}) + 1

(* issueSettlementReceipt: numbered after the receipts there are. *)
NextReceipt(c) == Cardinality(Paid(c)) + 1

(* submitPayment: evidence of a transfer of all that is outstanding. *)
SubmitPayment(c, p, e, a) ==
  /\ Payable(c)
  /\ Gate(c)
  /\ CurrentInvoices(c) # {}
  /\ a > 0 /\ a = Outstanding(c)
  /\ ProofFree(e, c)
  /\ NewRow(c, p, e, a, "pending_verification", 0)
  /\ SetStatus(c, "pending_verification")
  /\ UNCHANGED <<settings, terms, invoices, draft, review>>

(* recordCashPayment: any part of what is outstanding, with its receipt. *)
RecordCashPayment(c, p, k, a) ==
  /\ Payable(c)
  /\ Gate(c)
  /\ CurrentInvoices(c) # {}
  /\ a > 0 /\ a <= Outstanding(c)
  /\ ProofFree(k, c)
  /\ NewRow(c, p, k, a, "paid", NextReceipt(c))
  /\ SetStatus(c, IF a = Outstanding(c) THEN "paid" ELSE "partially_paid")
  /\ UNCHANGED <<settings, terms, invoices, draft, review>>

(* verifyPayment, approved: the reviewed amount must settle the bill. *)
ApprovePayment(c, p, a) ==
  /\ p \in Pending(c)
  /\ status[c] # "paid"
  /\ Gate(c)
  /\ a > 0 /\ a = Outstanding(c)
  /\ payment' = [payment EXCEPT ![p].state = "paid", ![p].amount = a,
                                ![p].receipt = NextReceipt(c)]
  /\ SetStatus(c, "paid")
  /\ UNCHANGED <<settings, terms, invoices, draft, review>>

(* Mutant: a rejected transfer reopens the whole bill. *)
AfterRejectionApproved(c, p) == "approved"

AfterRejection(c, p) ==
  IF Pending(c) \ {p} # {} THEN "pending_verification"
  ELSE IF Paid(c) # {} THEN "partially_paid" ELSE "approved"

(* verifyPayment, rejected *)
RejectPayment(c, p) ==
  /\ p \in Pending(c)
  /\ status[c] # "paid"
  /\ Gate(c)
  /\ payment' = [payment EXCEPT ![p].state = "rejected"]
  /\ SetStatus(c, AfterRejection(c, p))
  /\ UNCHANGED <<settings, terms, invoices, draft, review>>
-----------------------------------------------------------------------------
Draw(c) ==
  \/ \E a \in Amount : Calculate(c, a) \/ ManualInvoice(c, a) \/ Reprice(c, a)
  \/ PrepareInvoice(c)
  \/ \E s \in Reopened : UpdateStatus(c, s)
  \/ PreviewInvoice(c)

Approve(c) ==
  \E token \in {NoToken, review[c]} : IssueInvoice(c, token) \/ IssueReplacement(c, token)

Settle(c) ==
  \E p \in Payment :
    \/ \E a \in 1 .. terms[c].amount :
         \/ \E e \in Evidence : SubmitPayment(c, p, e, a)
         \/ \E k \in CashKey : RecordCashPayment(c, p, k, a)
         \/ ApprovePayment(c, p, a)
    \/ RejectPayment(c, p)

Next ==
  \/ SaveSettings
  \/ \E c \in Cycle : Draw(c) \/ Approve(c) \/ (status[c] # "none" /\ Settle(c))

Spec == Init /\ [][Next]_vars
-----------------------------------------------------------------------------
(* PROPERTIES *)

(* A bill is paid exactly when the confirmed payments come to its amount, and a
   status that invites payment never hides money already received: nothing is
   collected twice, although bills are repriced, reopened and paid in parts by
   cash and transfers (settlementBalance, verifyPayment). *)
SettlementIsExact ==
  \A c \in Cycle :
    /\ status[c] = "paid" => Collected(c) = terms[c].amount
    /\ status[c] = "partially_paid" => 0 < Collected(c) /\ Collected(c) < terms[c].amount
    /\ status[c] = "approved" => Collected(c) = 0
    /\ status[c] # "none" => Collected(c) <= terms[c].amount

(* A bill that can be paid has exactly one invoice in force, the latest, and it
   states what the bill says is owed; a proposal replaces that one; no money is
   taken on a bill without an invoice, and none is confirmed on one that is
   offered as unpaid (approveInvoice, reviseInvoiceInTransaction,
   updateBillingCycleStatus, verifyPayment). *)
CurrentInvoiceStatesTheBill ==
  \A c \in Cycle :
    /\ invoices[c] # <<>> =>
         /\ status[c] # "none"
         /\ CurrentInvoices(c) = {Len(invoices[c])}
         /\ invoices[c][Len(invoices[c])].terms = terms[c]
    /\ invoices[c] = <<>> =>
         /\ Paid(c) \cup Pending(c) = {}
         /\ status[c] \notin {"approved", "pending_verification", "partially_paid", "paid"}
    /\ status[c] = "approved" => Paid(c) = {}
    /\ draft[c] # NoDraft => CurrentInvoices(c) = {draft[c].supersedes}

(* An approver who sends the token of a preview issues what the preview showed,
   whatever was proposed, approved or saved by others in between
   (reviewToken). *)
ReviewedFactsAreIssued ==
  \A c \in Cycle : \A r \in DOMAIN invoices[c] : invoices[c][r].asReviewed

(* A slip or a cash receipt counts once, on whatever bill it is presented
   (the duplicate query, the replay and their unique indexes). *)
ProofPaysOnce ==
  \A p, q \in Payment :
    /\ payment[p] # NoPayment /\ payment[q] # NoPayment
    /\ payment[p].proof = payment[q].proof
    /\ payment[p].state # "rejected" /\ payment[q].state # "rejected"
    => p = q

(* A bill is under review exactly while one transfer is, so that no transfer is
   forgotten and no second payment is taken meanwhile (submitPayment,
   recordCashPayment, verifyPayment, updateBillingCycleStatus). *)
OneReviewAtATime ==
  \A c \in Cycle :
    /\ status[c] = "pending_verification" <=> Pending(c) # {}
    /\ \A p, q \in Pending(c) : p = q

(* The receipts of a bill are numbered from 1 without gap or repetition. *)
ReceiptsAreNumbered ==
  \A c \in Cycle : {payment[p].receipt : p \in Paid(c)} = 1 .. Cardinality(Paid(c))

(* What a bill amounts to, and its invoice, never change while a payment counts
   or is under review, and a settled bill stays settled (assertRateEditable, the
   status checks). *)
FrozenOnceMoneyMoves ==
  [][\A c \in Cycle :
       /\ Paid(c) \cup Pending(c) # {} => terms'[c] = terms[c] /\ invoices'[c] = invoices[c]
       /\ status[c] = "paid" => status'[c] = "paid"]_vars
=============================================================================
