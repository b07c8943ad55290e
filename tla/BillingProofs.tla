---------------------------- MODULE BillingProofs ----------------------------
(* Theorems of BillingCycle, for every set of bills, payments, slips and keys,
   every set of amounts and every bound; and, in the second part, of
   MonthlyBilling, for every set of replicas: the monthly run implements the rules
   of bills, so the theorems of BillingCycle hold of it, and a completed job stays
   completed. *)
EXTENDS MonthlyBilling, FiniteSums

-----------------------------------------------------------------------------
(* The rows of the table payments *)

(* A new row is in no set of rows before, and is afterwards in that of its bill
   and state. *)
LEMMA NewRowRows ==
  ASSUME TypeOK, NEW c \in Cycle, NEW p \in Payment, NEW proof \in Evidence \cup CashKey,
         NEW a \in Nat, NEW state \in {"pending_verification", "paid"}, NEW n \in Nat,
         NewRow(c, p, proof, a, state, n)
  PROVE  /\ payment' \in [Payment -> PaymentRow \cup {NoPayment}]
         /\ payment'[p].proof = proof /\ payment'[p].receipt = n
         /\ payment'[p].cycle = c /\ payment'[p].state = state /\ payment'[p].amount = a
         /\ payment[p] = NoPayment /\ payment'[p] # NoPayment
         /\ \A q \in Payment \ {p} : payment'[q] = payment[q]
<1> DEFINE row == [cycle |-> c, proof |-> proof, amount |-> a, state |-> state, receipt |-> n]
<1>1. row \in PaymentRow
  BY DEF PaymentRow
<1>2. row # NoPayment
  BY <1>1, SentinelAssumption
<1>3. payment \in [Payment -> PaymentRow \cup {NoPayment}]
  BY DEF TypeOK
<1>4. payment' = [payment EXCEPT ![p] = row] /\ payment[p] = NoPayment
  BY DEF NewRow
<1>5. payment'[p] = row /\ \A q \in Payment \ {p} : payment'[q] = payment[q]
  BY <1>3, <1>4
<1>6. payment' \in [Payment -> PaymentRow \cup {NoPayment}]
  BY <1>1, <1>3, <1>4
<1>7. QED
  BY <1>2, <1>4, <1>5, <1>6

LEMMA NewTransfer ==
  ASSUME TypeOK, NEW c \in Cycle, NEW p \in Payment, NEW proof \in Evidence \cup CashKey,
         NEW a \in Nat, NEW n \in Nat, NewRow(c, p, proof, a, "pending_verification", n)
  PROVE  /\ payment'[p].proof = proof
         /\ \A q \in Payment \ {p} : payment'[q] = payment[q]
         /\ \A d \in Cycle : p \notin Paid(d) /\ Paid(d)' = Paid(d)
         /\ Pending(c)' = Pending(c) \cup {p}
         /\ \A d \in Cycle \ {c} : Pending(d)' = Pending(d)
<1>1. /\ payment'[p].proof = proof /\ payment'[p].cycle = c
      /\ payment'[p].state = "pending_verification"
      /\ payment[p] = NoPayment /\ payment'[p] # NoPayment
      /\ \A q \in Payment \ {p} : payment'[q] = payment[q]
  BY NewRowRows
<1>2. \A d \in Cycle : p \notin Paid(d) /\ Paid(d)' = Paid(d)
  BY <1>1 DEF Paid, Rows
<1>3. Pending(c)' = Pending(c) \cup {p}
  BY <1>1 DEF Pending, Rows
<1>4. \A d \in Cycle \ {c} : Pending(d)' = Pending(d)
  BY <1>1 DEF Pending, Rows
<1>5. QED
  BY <1>1, <1>2, <1>3, <1>4

LEMMA NewCash ==
  ASSUME TypeOK, NEW c \in Cycle, NEW p \in Payment, NEW proof \in Evidence \cup CashKey,
         NEW a \in Nat, NEW n \in Nat, NewRow(c, p, proof, a, "paid", n)
  PROVE  /\ payment'[p].proof = proof /\ payment'[p].receipt = n /\ payment'[p].amount = a
         /\ \A q \in Payment \ {p} : payment'[q] = payment[q]
         /\ \A d \in Cycle : p \notin Paid(d) /\ Pending(d)' = Pending(d)
         /\ Paid(c)' = Paid(c) \cup {p}
         /\ \A d \in Cycle \ {c} : Paid(d)' = Paid(d)
<1>1. /\ payment'[p].proof = proof /\ payment'[p].receipt = n /\ payment'[p].amount = a
      /\ payment'[p].cycle = c /\ payment'[p].state = "paid"
      /\ payment[p] = NoPayment /\ payment'[p] # NoPayment
      /\ \A q \in Payment \ {p} : payment'[q] = payment[q]
  BY NewRowRows
<1>2. \A d \in Cycle : Pending(d)' = Pending(d)
  BY <1>1 DEF Pending, Rows
<1>3. \A d \in Cycle : p \notin Paid(d)
  BY <1>1 DEF Paid, Rows
<1>4. Paid(c)' = Paid(c) \cup {p}
  BY <1>1 DEF Paid, Rows
<1>5. \A d \in Cycle \ {c} : Paid(d)' = Paid(d)
  BY <1>1 DEF Paid, Rows
<1>6. QED
  BY <1>1, <1>2, <1>3, <1>4, <1>5

(* A reviewed row leaves the rows under review and joins those of its verdict. *)
LEMMA ReviewedRows ==
  ASSUME TypeOK, NEW c \in Cycle, NEW p \in Pending(c), NEW row \in PaymentRow,
         payment' = [payment EXCEPT ![p] = row]
  PROVE  /\ payment' \in [Payment -> PaymentRow \cup {NoPayment}]
         /\ p \in Payment /\ payment'[p] = row /\ row # NoPayment
         /\ payment[p] # NoPayment /\ payment[p].cycle = c
         /\ payment[p].state = "pending_verification"
         /\ \A q \in Payment \ {p} : payment'[q] = payment[q]
<1>1. row # NoPayment
  BY SentinelAssumption
<1>2. p \in Payment /\ payment[p] # NoPayment /\ payment[p].cycle = c
      /\ payment[p].state = "pending_verification"
  BY DEF Pending, Rows
<1>3. payment \in [Payment -> PaymentRow \cup {NoPayment}]
  BY DEF TypeOK
<1>4. payment'[p] = row /\ \A q \in Payment \ {p} : payment'[q] = payment[q]
  BY <1>2, <1>3
<1>5. payment' \in [Payment -> PaymentRow \cup {NoPayment}]
  BY <1>3
<1>6. QED
  BY <1>1, <1>2, <1>4, <1>5

JoinsPaid(c, p, row) ==
  /\ payment'[p] = row
  /\ \A q \in Payment \ {p} : payment'[q] = payment[q]
  /\ \A d \in Cycle : p \notin Paid(d)
  /\ Paid(c)' = Paid(c) \cup {p}
  /\ Pending(c)' = Pending(c) \ {p}
  /\ \A d \in Cycle \ {c} : Paid(d)' = Paid(d) /\ Pending(d)' = Pending(d)

LEMMA ReviewedApproved ==
  ASSUME TypeOK, NEW c \in Cycle, NEW p \in Pending(c), NEW row \in PaymentRow,
         row.cycle = c, row.state = "paid", payment' = [payment EXCEPT ![p] = row]
  PROVE  JoinsPaid(c, p, row)
<1>1. /\ p \in Payment /\ payment'[p] = row /\ row # NoPayment
      /\ payment[p] # NoPayment /\ payment[p].cycle = c
      /\ payment[p].state = "pending_verification"
      /\ \A q \in Payment \ {p} : payment'[q] = payment[q]
  BY ReviewedRows
<1>2. \A d \in Cycle : p \notin Paid(d)
  BY <1>1 DEF Paid, Rows
<1>3. Paid(c)' = Paid(c) \cup {p}
  BY <1>1 DEF Paid, Rows
<1>4. Pending(c)' = Pending(c) \ {p}
  BY <1>1 DEF Pending, Rows
<1>5. ASSUME NEW d \in Cycle \ {c}
      PROVE  Paid(d)' = Paid(d) /\ Pending(d)' = Pending(d)
  <2>1. Paid(d)' = Paid(d)
    BY <1>1 DEF Paid, Rows
  <2>2. Pending(d)' = Pending(d)
    BY <1>1 DEF Pending, Rows
  <2>3. QED
    BY <2>1, <2>2
<1>6. QED
  BY <1>1, <1>2, <1>3, <1>4, <1>5 DEF JoinsPaid

LEMMA ReviewedRejected ==
  ASSUME TypeOK, NEW c \in Cycle, NEW p \in Pending(c), NEW row \in PaymentRow,
         row.cycle = c, row.state = "rejected", payment' = [payment EXCEPT ![p] = row]
  PROVE  /\ payment'[p] = row
         /\ \A q \in Payment \ {p} : payment'[q] = payment[q]
         /\ \A d \in Cycle : p \notin Paid(d) /\ Paid(d)' = Paid(d)
         /\ Pending(c)' = Pending(c) \ {p}
         /\ \A d \in Cycle \ {c} : Pending(d)' = Pending(d)
<1>1. /\ p \in Payment /\ payment'[p] = row /\ row # NoPayment
      /\ payment[p] # NoPayment /\ payment[p].cycle = c
      /\ payment[p].state = "pending_verification"
      /\ \A q \in Payment \ {p} : payment'[q] = payment[q]
  BY ReviewedRows
<1>2. \A d \in Cycle : p \notin Paid(d) /\ Paid(d)' = Paid(d)
  BY <1>1 DEF Paid, Rows
<1>3. Pending(c)' = Pending(c) \ {p}
  BY <1>1 DEF Pending, Rows
<1>4. \A d \in Cycle \ {c} : Pending(d)' = Pending(d)
  BY <1>1 DEF Pending, Rows
<1>5. QED
  BY <1>1, <1>2, <1>3, <1>4

LEMMA NextReceiptType ==
  ASSUME NEW c \in Cycle
  PROVE  NextReceipt(c) \in Nat \ {0} /\ IsFiniteSet(Paid(c)) /\ Cardinality(Paid(c)) \in Nat
<1>1. IsFiniteSet(Paid(c))
  <2>1. Paid(c) \subseteq Payment
    BY DEF Paid, Rows
  <2>2. QED
    BY <2>1, BillingAssumption, FS_Subset
<1>2. QED
  BY <1>1, FS_CardinalityType DEF NextReceipt

-----------------------------------------------------------------------------
(* Type correctness *)

LEMMA InitType == Init => TypeOK
BY BillingAssumption DEF Init, TypeOK, Version, Draft, Token, Status, Terms

LEMMA SettingsType ==
  ASSUME TypeOK, SaveSettings
  PROVE  TypeOK'
BY BillingAssumption DEF SaveSettings, TypeOK, Version

LEMMA StatusType ==
  ASSUME TypeOK, NEW c \in Cycle, NEW s \in Status, SetStatus(c, s)
  PROVE  status' \in [Cycle -> Status] /\ status'[c] = s
         /\ \A d \in Cycle \ {c} : status'[d] = status[d]
BY DEF SetStatus, TypeOK

LEMMA TermsType ==
  ASSUME TypeOK, NEW a \in Amount
  PROVE  [amount |-> a, version |-> settings] \in Terms
BY DEF TypeOK, Terms

LEMMA InvoiceType ==
  ASSUME NEW t \in Terms, NEW token
  PROVE  NewInvoice(t, token) \in Invoice
BY DEF NewInvoice, Invoice

(* Bills that are drawn up: the invoices, proposals and payments stay. *)
LEMMA DrawnType ==
  ASSUME TypeOK, NEW c \in Cycle, NEW s \in Status, SetStatus(c, s),
         terms' \in [Cycle -> Terms \cup {NoTerms}],
         \/ terms'[c] \in Terms
         \/ terms'[c] = terms[c] /\ status[c] # "none",
         \A d \in Cycle \ {c} : terms'[d] = terms[d],
         UNCHANGED <<settings, invoices, draft, review, payment>>
  PROVE  TypeOK'
<1>1. status' \in [Cycle -> Status] /\ \A d \in Cycle \ {c} : status'[d] = status[d]
  BY StatusType
<1>2. \A d \in Cycle : status'[d] # "none" => terms'[d] \in Terms
  BY <1>1 DEF TypeOK
<1>3. QED
  BY <1>1, <1>2 DEF TypeOK

(* Bills that are paid: the terms, invoices and proposals stay. *)
LEMMA SettledType ==
  ASSUME TypeOK, NEW c \in Cycle, NEW s \in Status, SetStatus(c, s), status[c] # "none",
         payment' \in [Payment -> PaymentRow \cup {NoPayment}],
         UNCHANGED <<settings, terms, invoices, draft, review>>
  PROVE  TypeOK'
<1>1. status' \in [Cycle -> Status] /\ \A d \in Cycle \ {c} : status'[d] = status[d]
  BY StatusType
<1>2. \A d \in Cycle : status'[d] # "none" => terms'[d] \in Terms
  BY <1>1 DEF TypeOK
<1>3. QED
  BY <1>1, <1>2 DEF TypeOK

LEMMA PreviewType ==
  ASSUME TypeOK, NEW c \in Cycle, PreviewInvoice(c)
  PROVE  TypeOK'
<1>1. Proposed(c) \in Terms
  BY DEF PreviewInvoice, Proposed, TypeOK, Draft
<1>2. [amount |-> Proposed(c).amount, version |-> settings] \in Token
  BY <1>1 DEF Terms, Token, TypeOK
<1>3. review' \in [Cycle -> Token]
  BY <1>2 DEF PreviewInvoice, TypeOK
<1>4. QED
  BY <1>3 DEF PreviewInvoice, TypeOK

LEMMA RepriceType ==
  ASSUME TypeOK, NEW c \in Cycle, NEW a \in Amount, Reprice(c, a)
  PROVE  TypeOK'
<1>1. PICK r \in CurrentInvoices(c) :
        draft' = [draft EXCEPT ![c] =
                    [supersedes |-> r, terms |-> [amount |-> a, version |-> settings]]]
  BY DEF Reprice
<1>2. r \in 1 .. MaxRevision
  <2>1. invoices[c] \in Seq(Invoice) /\ Len(invoices[c]) <= MaxRevision
    BY DEF TypeOK
  <2>2. r \in 1 .. Len(invoices[c])
    BY <2>1 DEF CurrentInvoices
  <2>3. QED
    BY <2>1, <2>2, BillingAssumption
<1>3. [supersedes |-> r, terms |-> [amount |-> a, version |-> settings]] \in Draft
  BY <1>2, TermsType DEF Draft
<1>4. draft' \in [Cycle -> Draft]
  BY <1>1, <1>3 DEF TypeOK
<1>5. QED
  BY <1>4 DEF Reprice, TypeOK

(* An invoice is added to those of a bill. *)
LEMMA AppendType ==
  ASSUME TypeOK, NEW c \in Cycle, NEW old \in Seq(Invoice), NEW new \in Invoice,
         Len(old) = Len(invoices[c]), Len(invoices[c]) < MaxRevision,
         invoices' = [invoices EXCEPT ![c] = Append(old, new)]
  PROVE  /\ invoices' \in [Cycle -> Seq(Invoice)]
         /\ \A d \in Cycle : Len(invoices'[d]) <= MaxRevision
         /\ invoices'[c] = Append(old, new)
         /\ \A d \in Cycle \ {c} : invoices'[d] = invoices[d]
<1>1. Append(old, new) \in Seq(Invoice) /\ Len(Append(old, new)) = Len(invoices[c]) + 1
  OBVIOUS
<1>2. invoices \in [Cycle -> Seq(Invoice)] /\ \A d \in Cycle : Len(invoices[d]) <= MaxRevision
  BY DEF TypeOK
<1>3. invoices'[c] = Append(old, new) /\ \A d \in Cycle \ {c} : invoices'[d] = invoices[d]
  BY <1>2
<1>4. invoices' \in [Cycle -> Seq(Invoice)]
  BY <1>1, <1>2
<1>5. Len(invoices'[c]) <= MaxRevision
  BY <1>1, <1>2, <1>3, BillingAssumption
<1>6. \A d \in Cycle : Len(invoices'[d]) <= MaxRevision
  BY <1>2, <1>3, <1>5
<1>7. QED
  BY <1>3, <1>4, <1>6

LEMMA IssueInvoiceType ==
  ASSUME TypeOK, NEW c \in Cycle, NEW token, IssueInvoice(c, token)
  PROVE  TypeOK'
<1>1. terms[c] \in Terms /\ invoices[c] \in Seq(Invoice)
  BY DEF IssueInvoice, TypeOK
<1>2. NewInvoice(terms[c], token) \in Invoice
  BY <1>1, InvoiceType
<1>3. /\ invoices' \in [Cycle -> Seq(Invoice)]
      /\ \A d \in Cycle : Len(invoices'[d]) <= MaxRevision
  <2>1. /\ Len(invoices[c]) < MaxRevision
        /\ invoices' = [invoices EXCEPT ![c] =
                          Append(invoices[c], NewInvoice(terms[c], token))]
    BY DEF IssueInvoice
  <2>2. QED
    BY <1>1, <1>2, <2>1, AppendType
<1>4. SetStatus(c, "approved") /\ "approved" \in Status
  BY DEF IssueInvoice, Status
<1>5. status' \in [Cycle -> Status] /\ \A d \in Cycle \ {c} : status'[d] = status[d]
  BY <1>4, StatusType
<1>6. \A d \in Cycle : status'[d] # "none" => terms'[d] \in Terms
  BY <1>1, <1>5 DEF TypeOK, IssueInvoice
<1>7. QED
  BY <1>3, <1>5, <1>6 DEF TypeOK, IssueInvoice

(* The superseded invoice stays an invoice, and no other changes. *)
LEMMA SupersededType ==
  ASSUME NEW original \in Seq(Invoice), NEW k
  PROVE  /\ Superseded(original, k) \in Seq(Invoice)
         /\ Len(Superseded(original, k)) = Len(original)
         /\ \A r \in 1 .. Len(original) :
              /\ Superseded(original, k)[r].current = (original[r].current /\ r # k)
              /\ Superseded(original, k)[r].asReviewed = original[r].asReviewed
<1> DEFINE new(r) == [original[r] EXCEPT !.current = @ /\ r # k]
<1>1. PICK n \in Nat : original \in [1 .. n -> Invoice] /\ Len(original) = n
                       /\ DOMAIN original = 1 .. n
  OBVIOUS
<1>2. ASSUME NEW r \in 1 .. n
      PROVE  /\ new(r) \in Invoice
             /\ new(r).current = (original[r].current /\ r # k)
             /\ new(r).asReviewed = original[r].asReviewed
  <2>1. original[r] \in Invoice
    BY <1>1
  <2>2. QED
    BY <2>1 DEF Invoice
<1>3. Superseded(original, k) = [r \in 1 .. n |-> new(r)]
  BY <1>1 DEF Superseded
<1> HIDE DEF new
<1>4. Superseded(original, k) \in [1 .. n -> Invoice]
  BY <1>2, <1>3
<1>5. Superseded(original, k) \in Seq(Invoice) /\ Len(Superseded(original, k)) = n
  BY <1>4
<1>6. QED
  BY <1>1, <1>2, <1>3, <1>5

LEMMA IssueReplacementType ==
  ASSUME TypeOK, NEW c \in Cycle, NEW token, IssueReplacement(c, token)
  PROVE  TypeOK'
<1>1. draft[c].terms \in Terms /\ invoices[c] \in Seq(Invoice)
  BY DEF IssueReplacement, TypeOK, Draft
<1>2. /\ invoices' \in [Cycle -> Seq(Invoice)]
      /\ \A d \in Cycle : Len(invoices'[d]) <= MaxRevision
  <2> DEFINE old == Superseded(invoices[c], draft[c].supersedes)
             new == NewInvoice(draft[c].terms, token)
  <2>1. old \in Seq(Invoice) /\ Len(old) = Len(invoices[c])
    BY <1>1, SupersededType
  <2>2. new \in Invoice
    BY <1>1, InvoiceType
  <2>3. Len(invoices[c]) < MaxRevision /\ invoices' = [invoices EXCEPT ![c] = Append(old, new)]
    BY DEF IssueReplacement
  <2> HIDE DEF old, new
  <2>4. QED
    BY <2>1, <2>2, <2>3, AppendType
<1>3. terms' \in [Cycle -> Terms \cup {NoTerms}] /\ draft' \in [Cycle -> Draft]
  BY <1>1 DEF IssueReplacement, TypeOK, Draft
<1>4. \A d \in Cycle : status'[d] # "none" => terms'[d] \in Terms
  BY <1>1 DEF IssueReplacement, TypeOK
<1>5. QED
  BY <1>2, <1>3, <1>4 DEF IssueReplacement, TypeOK

(* What each action on a payment does to its row. *)
LEMMA SubmittedRow ==
  ASSUME NEW c \in Cycle, NEW p \in Payment, NEW e \in Evidence, NEW a \in Nat,
         SubmitPayment(c, p, e, a)
  PROVE  NewRow(c, p, e, a, "pending_verification", 0)
BY DEF SubmitPayment

LEMMA ApprovedRow ==
  ASSUME TypeOK, NEW c \in Cycle, NEW p \in Payment, NEW a \in Nat, ApprovePayment(c, p, a)
  PROVE  \E row \in PaymentRow :
           /\ row.cycle = c /\ row.state = "paid" /\ row.receipt = NextReceipt(c)
           /\ row.amount = a /\ row.proof = payment[p].proof
           /\ payment' = [payment EXCEPT ![p] = row]
<1> DEFINE row == [payment[p] EXCEPT !.state = "paid", !.amount = a, !.receipt = NextReceipt(c)]
<1>1. payment[p] \in PaymentRow /\ payment[p].cycle = c
  BY DEF ApprovePayment, Pending, Rows, TypeOK
<1>2. NextReceipt(c) \in Nat
  BY NextReceiptType
<1>3. /\ row \in PaymentRow /\ row.cycle = c /\ row.state = "paid" /\ row.amount = a
      /\ row.receipt = NextReceipt(c) /\ row.proof = payment[p].proof
  BY <1>1, <1>2 DEF PaymentRow
<1>4. payment' = [payment EXCEPT ![p] = row]
  BY DEF ApprovePayment
<1>5. QED
  BY <1>3, <1>4

LEMMA RejectedRow ==
  ASSUME TypeOK, NEW c \in Cycle, NEW p \in Payment, RejectPayment(c, p)
  PROVE  \E row \in PaymentRow :
           /\ row.cycle = c /\ row.state = "rejected" /\ row.proof = payment[p].proof
           /\ payment' = [payment EXCEPT ![p] = row]
<1> DEFINE row == [payment[p] EXCEPT !.state = "rejected"]
<1>1. payment[p] \in PaymentRow /\ payment[p].cycle = c
  BY DEF RejectPayment, Pending, Rows, TypeOK
<1>2. row \in PaymentRow /\ row.cycle = c /\ row.state = "rejected"
      /\ row.proof = payment[p].proof
  BY <1>1 DEF PaymentRow
<1>3. payment' = [payment EXCEPT ![p] = row]
  BY DEF RejectPayment
<1>4. QED
  BY <1>2, <1>3

-----------------------------------------------------------------------------
(* Which action a step is: the proofs below treat one operation each. *)

LEMMA StepCases ==
  ASSUME Next
  PROVE  \/ SaveSettings
         \/ \E c \in Cycle :
              \/ \E a \in Amount : Calculate(c, a) \/ ManualInvoice(c, a) \/ Reprice(c, a)
              \/ PrepareInvoice(c)
              \/ \E s \in Reopened : UpdateStatus(c, s)
              \/ PreviewInvoice(c)
              \/ \E token \in {NoToken, review[c]} :
                   IssueInvoice(c, token) \/ IssueReplacement(c, token)
              \/ /\ status[c] # "none"
                 /\ \E p \in Payment :
                      \/ \E a \in 1 .. terms[c].amount :
                           \/ \E e \in Evidence : SubmitPayment(c, p, e, a)
                           \/ \E k \in CashKey : RecordCashPayment(c, p, k, a)
                           \/ ApprovePayment(c, p, a)
                      \/ RejectPayment(c, p)
BY DEF Next, Draw, Approve, Settle

(* Type correctness of every step. *)
LEMMA StepType ==
  ASSUME TypeOK, [Next]_vars
  PROVE  TypeOK'
<1>1. CASE SaveSettings
  BY <1>1, SettingsType
<1>2. ASSUME NEW c \in Cycle, NEW a \in Amount, Calculate(c, a)
      PROVE  TypeOK'
  <2>1. "pending_review" \in Status
    BY DEF Status
  <2>2. terms' = [terms EXCEPT ![c] = [amount |-> a, version |-> settings]]
    BY <1>2 DEF Calculate
  <2>3. /\ terms' \in [Cycle -> Terms \cup {NoTerms}] /\ terms'[c] \in Terms
        /\ \A d \in Cycle \ {c} : terms'[d] = terms[d]
    BY <2>2, TermsType DEF TypeOK
  <2>4. QED
    BY <1>2, <2>1, <2>3, DrawnType DEF Calculate
<1>3. ASSUME NEW c \in Cycle, NEW a \in Amount, ManualInvoice(c, a)
      PROVE  TypeOK'
  <2>1. "pending_issue_approval" \in Status
    BY DEF Status
  <2>2. CASE status[c] = "none" /\ terms' = [terms EXCEPT ![c] = [amount |-> a, version |-> settings]]
    <3>1. /\ terms' \in [Cycle -> Terms \cup {NoTerms}] /\ terms'[c] \in Terms
          /\ \A d \in Cycle \ {c} : terms'[d] = terms[d]
      BY <2>2, TermsType DEF TypeOK
    <3>2. QED
      BY <1>3, <2>1, <3>1, DrawnType DEF ManualInvoice
  <2>3. CASE status[c] = "pending_review" /\ UNCHANGED terms
    BY <1>3, <2>1, <2>3, DrawnType DEF ManualInvoice, TypeOK
  <2>4. QED
    BY <1>3, <2>2, <2>3 DEF ManualInvoice
<1>4. ASSUME NEW c \in Cycle, PrepareInvoice(c)
      PROVE  TypeOK'
  <2>1. "pending_issue_approval" \in Status
    BY DEF Status
  <2>2. QED
    BY <1>4, <2>1, DrawnType DEF PrepareInvoice, TypeOK
<1>5. ASSUME NEW c \in Cycle, NEW s \in Reopened, UpdateStatus(c, s)
      PROVE  TypeOK'
  <2>1. s \in Status
    BY DEF Status, Reopened
  <2>2. QED
    BY <1>5, <2>1, DrawnType DEF UpdateStatus, TypeOK
<1>6. ASSUME NEW c \in Cycle, status[c] # "none", NEW p \in Payment, NEW a \in Nat,
             NEW e \in Evidence, SubmitPayment(c, p, e, a)
      PROVE  TypeOK'
  <2>1. payment' \in [Payment -> PaymentRow \cup {NoPayment}]
    BY <1>6, SubmittedRow, NewRowRows
  <2>2. "pending_verification" \in Status
    BY DEF Status
  <2>3. QED
    BY <1>6, <2>1, <2>2, SettledType DEF SubmitPayment
<1>7. ASSUME NEW c \in Cycle, status[c] # "none", NEW p \in Payment, NEW a \in Nat,
             NEW k \in CashKey, RecordCashPayment(c, p, k, a)
      PROVE  TypeOK'
  <2>1. payment' \in [Payment -> PaymentRow \cup {NoPayment}]
    BY <1>7, NewRowRows, NextReceiptType DEF RecordCashPayment
  <2>2. (IF a = Outstanding(c) THEN "paid" ELSE "partially_paid") \in Status
    BY DEF Status
  <2>3. QED
    BY <1>7, <2>1, <2>2, SettledType DEF RecordCashPayment
<1>8. ASSUME NEW c \in Cycle, status[c] # "none", NEW p \in Payment, NEW a \in Nat,
             ApprovePayment(c, p, a)
      PROVE  TypeOK'
  <2>1. payment' \in [Payment -> PaymentRow \cup {NoPayment}]
    BY <1>8, ApprovedRow DEF TypeOK
  <2>2. "paid" \in Status
    BY DEF Status
  <2>3. QED
    BY <1>8, <2>1, <2>2, SettledType DEF ApprovePayment
<1>9. ASSUME NEW c \in Cycle, status[c] # "none", NEW p \in Payment, RejectPayment(c, p)
      PROVE  TypeOK'
  <2>1. payment' \in [Payment -> PaymentRow \cup {NoPayment}]
    BY <1>9, RejectedRow DEF TypeOK
  <2>2. AfterRejection(c, p) \in Status
    BY DEF Status, AfterRejection
  <2>3. QED
    BY <1>9, <2>1, <2>2, SettledType DEF RejectPayment
<1>10. ASSUME NEW c \in Cycle, status[c] # "none"
       PROVE  terms[c] \in Terms /\ 1 .. terms[c].amount \subseteq Nat
  BY <1>10, BillingAssumption DEF TypeOK, Terms
<1>11. CASE UNCHANGED vars
  BY <1>11 DEF vars, TypeOK
<1>12. QED
  BY <1>1, <1>2, <1>3, <1>4, <1>5, <1>6, <1>7, <1>8, <1>9, <1>10, <1>11, StepCases,
     PreviewType, RepriceType, IssueInvoiceType, IssueReplacementType

(* Every state has the types of the tables. *)
THEOREM TypeCorrect == Spec => []TypeOK
BY InitType, StepType, PTL DEF Spec

-----------------------------------------------------------------------------
(* What the invariants say of one bill. *)

InForce(d) ==
  /\ invoices[d] # <<>> =>
       /\ status[d] # "none"
       /\ CurrentInvoices(d) = {Len(invoices[d])}
       /\ invoices[d][Len(invoices[d])].terms = terms[d]
  /\ invoices[d] = <<>> =>
       /\ Paid(d) \cup Pending(d) = {}
       /\ status[d] \notin {"approved", "pending_verification", "partially_paid", "paid"}
  /\ status[d] = "approved" => Paid(d) = {}
  /\ draft[d] # NoDraft => CurrentInvoices(d) = {draft[d].supersedes}

Seen(d) == \A r \in DOMAIN invoices[d] : invoices[d][r].asReviewed

UnderReview(d) ==
  /\ status[d] = "pending_verification" <=> Pending(d) # {}
  /\ \A p, q \in Pending(d) : p = q

Bill(d) == InForce(d) /\ Seen(d) /\ UnderReview(d)

Numbered(d) == {payment[p].receipt : p \in Paid(d)} = 1 .. Cardinality(Paid(d))

IInv ==
  /\ TypeOK
  /\ \A c \in Cycle : Bill(c) /\ Numbered(c)
  /\ ProofPaysOnce

LEMMA IInvMeaning ==
  IInv => /\ CurrentInvoiceStatesTheBill /\ ReviewedFactsAreIssued /\ OneReviewAtATime
          /\ ReceiptsAreNumbered
BY DEF IInv, Bill, InForce, Seen, UnderReview, Numbered, CurrentInvoiceStatesTheBill,
       ReviewedFactsAreIssued, OneReviewAtATime, ReceiptsAreNumbered

LEMMA SameInvoices ==
  ASSUME NEW d \in Cycle, invoices'[d] = invoices[d]
  PROVE  CurrentInvoices(d)' = CurrentInvoices(d) /\ (Seen(d) => Seen(d)')
BY DEF CurrentInvoices, Seen

LEMMA SamePayments ==
  ASSUME payment' = payment
  PROVE  /\ \A d \in Cycle : Paid(d)' = Paid(d) /\ Pending(d)' = Pending(d)
         /\ \A d \in Cycle : Numbered(d) => Numbered(d)'
         /\ ProofPaysOnce => ProofPaysOnce'
BY DEF Paid, Pending, Rows, Numbered, ProofPaysOnce

(* A bill that a step leaves alone. *)
LEMMA OtherBill ==
  ASSUME NEW d \in Cycle, Bill(d),
         status'[d] = status[d], terms'[d] = terms[d], invoices'[d] = invoices[d],
         draft'[d] = draft[d], Paid(d)' = Paid(d), Pending(d)' = Pending(d)
  PROVE  Bill(d)'
BY SameInvoices DEF Bill, InForce, UnderReview

(* A bill gets another status and perhaps another proposal; payments and invoices
   stay. *)
LEMMA DrawnBill ==
  ASSUME TypeOK, NEW c \in Cycle, NEW s \in Status, \A d \in Cycle : Bill(d), SetStatus(c, s),
         s \notin {"none", "approved", "pending_verification", "partially_paid", "paid"},
         status[c] # "pending_verification",
         terms'[c] = terms[c] \/ status[c] = "none",
         \A d \in Cycle \ {c} : terms'[d] = terms[d],
         UNCHANGED <<invoices, draft, payment>>
  PROVE  \A d \in Cycle : Bill(d)'
<1>1. status'[c] = s /\ \A d \in Cycle \ {c} : status'[d] = status[d]
  BY StatusType
<1>2. ASSUME NEW d \in Cycle
      PROVE  CurrentInvoices(d)' = CurrentInvoices(d) /\ Seen(d)'
             /\ Paid(d)' = Paid(d) /\ Pending(d)' = Pending(d)
             /\ invoices'[d] = invoices[d] /\ draft'[d] = draft[d]
  BY SameInvoices, SamePayments DEF Bill
<1>3. ASSUME NEW d \in Cycle \ {c}
      PROVE  Bill(d)'
  BY <1>1, <1>2, OtherBill
<1>4. Bill(c)'
  <2>1. InForce(c) /\ UnderReview(c)
    BY DEF Bill
  <2>2. InForce(c)'
    BY <1>1, <1>2, <2>1 DEF InForce
  <2>3. UnderReview(c)'
    BY <1>1, <1>2, <2>1 DEF UnderReview
  <2>4. QED
    BY <1>2, <2>2, <2>3 DEF Bill
<1>5. QED
  BY <1>3, <1>4

(* A proposal names the invoice in force. *)
LEMMA RepricedBill ==
  ASSUME TypeOK, NEW c \in Cycle, NEW a \in Amount, \A d \in Cycle : Bill(d), Reprice(c, a)
  PROVE  \A d \in Cycle : Bill(d)'
<1>1. PICK r \in CurrentInvoices(c) :
        draft' = [draft EXCEPT ![c] =
                    [supersedes |-> r, terms |-> [amount |-> a, version |-> settings]]]
  BY DEF Reprice
<1>2. draft'[c].supersedes = r /\ \A d \in Cycle \ {c} : draft'[d] = draft[d]
  BY <1>1 DEF TypeOK
<1>3. UNCHANGED <<status, terms, invoices, payment>>
  BY DEF Reprice
<1>4. ASSUME NEW d \in Cycle
      PROVE  CurrentInvoices(d)' = CurrentInvoices(d) /\ Seen(d)'
             /\ Paid(d)' = Paid(d) /\ Pending(d)' = Pending(d)
  BY <1>3, SameInvoices, SamePayments DEF Bill
<1>5. ASSUME NEW d \in Cycle \ {c}
      PROVE  Bill(d)'
  BY <1>2, <1>3, <1>4, OtherBill
<1>6. Bill(c)'
  <2>1. InForce(c) /\ UnderReview(c) /\ status[c] = "approved"
    BY DEF Bill, Reprice
  <2>2. CurrentInvoices(c) = {r}
    BY <2>1 DEF InForce
  <2>3. InForce(c)'
    BY <1>2, <1>3, <1>4, <2>1, <2>2 DEF InForce
  <2>4. UnderReview(c)'
    BY <1>3, <1>4, <2>1 DEF UnderReview
  <2>5. QED
    BY <1>4, <2>3, <2>4 DEF Bill
<1>7. QED
  BY <1>5, <1>6

(* The invoice that is added becomes the one in force. *)
LEMMA Appended ==
  ASSUME TypeOK, NEW c \in Cycle, NEW old \in Seq(Invoice), NEW new \in Invoice,
         Len(old) = Len(invoices[c]), Len(invoices[c]) < MaxRevision,
         \A r \in 1 .. Len(old) : ~old[r].current /\ old[r].asReviewed,
         new.current, new.asReviewed,
         invoices' = [invoices EXCEPT ![c] = Append(old, new)]
  PROVE  /\ invoices'[c] # <<>> /\ Seen(c)'
         /\ invoices'[c][Len(invoices'[c])] = new
         /\ CurrentInvoices(c)' = {Len(invoices'[c])}
         /\ \A d \in Cycle \ {c} : invoices'[d] = invoices[d]
<1>1. invoices'[c] = Append(old, new) /\ \A d \in Cycle \ {c} : invoices'[d] = invoices[d]
  BY AppendType
<1> DEFINE s == invoices'[c]
<1>2. /\ s \in Seq(Invoice) /\ Len(s) = Len(old) + 1 /\ DOMAIN s = 1 .. Len(s)
      /\ s[Len(s)] = new /\ \A r \in 1 .. Len(old) : s[r] = old[r]
      /\ Len(old) \in Nat
  BY <1>1
<1>3. \A r \in DOMAIN s : r = Len(s) \/ r \in 1 .. Len(old)
  BY <1>2
<1>4. \A r \in DOMAIN s : s[r].asReviewed /\ (s[r].current <=> r = Len(s))
  BY <1>2, <1>3
<1>5. CurrentInvoices(c)' = {Len(s)}
  <2>1. CurrentInvoices(c)' = {r \in DOMAIN s : s[r].current}
    BY DEF CurrentInvoices
  <2> HIDE DEF s
  <2>2. Len(s) \in DOMAIN s
    BY <1>2
  <2>3. QED
    BY <1>4, <2>1, <2>2
<1>6. Seen(c)'
  BY <1>4 DEF Seen
<1>7. s # <<>>
  BY <1>2
<1>8. QED
  BY <1>1, <1>2, <1>5, <1>6, <1>7

(* The approver saw what the invoice says. *)
LEMMA SeenTerms ==
  ASSUME NEW t \in Terms, NEW token, Reviewed(token, t), t.version = settings
  PROVE  LET i == NewInvoice(t, token) IN i.terms = t /\ i.current /\ i.asReviewed
<1>1. t = [amount |-> t.amount, version |-> settings]
  BY DEF Terms
<1>2. token = NoToken \/ token = t
  BY <1>1 DEF Reviewed
<1>3. QED
  BY <1>2 DEF NewInvoice

LEMMA IssuedBill ==
  ASSUME TypeOK, NEW c \in Cycle, NEW token, \A d \in Cycle : Bill(d), IssueInvoice(c, token)
  PROVE  \A d \in Cycle : Bill(d)'
<1> DEFINE new == NewInvoice(terms[c], token)
<1>1. InForce(c) /\ Seen(c) /\ UnderReview(c)
  BY DEF Bill
<1>2. /\ draft[c] = NoDraft /\ CurrentInvoices(c) = {}
      /\ status[c] = "pending_issue_approval" /\ terms[c].version = settings
      /\ Reviewed(token, terms[c]) /\ Len(invoices[c]) < MaxRevision
      /\ invoices' = [invoices EXCEPT ![c] = Append(invoices[c], new)]
      /\ SetStatus(c, "approved") /\ UNCHANGED <<terms, draft, payment>>
  BY DEF IssueInvoice
<1>3. terms[c] \in Terms /\ invoices[c] \in Seq(Invoice)
  BY <1>2 DEF TypeOK
<1>4. invoices[c] = <<>>
  BY <1>1, <1>2 DEF InForce
<1>5. new \in Invoice /\ new.terms = terms[c] /\ new.current /\ new.asReviewed
  BY <1>2, <1>3, InvoiceType, SeenTerms
<1> HIDE DEF new
<1>6. \A r \in 1 .. Len(invoices[c]) : ~invoices[c][r].current /\ invoices[c][r].asReviewed
  BY <1>4
<1>7. /\ invoices'[c] # <<>> /\ Seen(c)'
      /\ invoices'[c][Len(invoices'[c])] = new
      /\ CurrentInvoices(c)' = {Len(invoices'[c])}
      /\ \A d \in Cycle \ {c} : invoices'[d] = invoices[d]
  BY <1>2, <1>3, <1>5, <1>6, Appended
<1>8. \A d \in Cycle : Paid(d)' = Paid(d) /\ Pending(d)' = Pending(d)
  BY <1>2, SamePayments
<1>9. status'[c] = "approved" /\ \A d \in Cycle \ {c} : status'[d] = status[d]
  BY <1>2, StatusType DEF Status
<1>10. ASSUME NEW d \in Cycle \ {c}
       PROVE  Bill(d)'
  BY <1>2, <1>7, <1>8, <1>9, OtherBill
<1>11. Bill(c)'
  <2>1. Paid(c) = {} /\ Pending(c) = {}
    BY <1>1, <1>4 DEF InForce
  <2>2. InForce(c)'
    BY <1>2, <1>5, <1>7, <1>8, <1>9, <2>1 DEF InForce
  <2>3. UnderReview(c)'
    BY <1>8, <1>9, <2>1 DEF UnderReview
  <2>4. QED
    BY <1>7, <2>2, <2>3 DEF Bill
<1>12. QED
  BY <1>10, <1>11

LEMMA ReplacedBill ==
  ASSUME TypeOK, NEW c \in Cycle, NEW token, \A d \in Cycle : Bill(d), IssueReplacement(c, token)
  PROVE  \A d \in Cycle : Bill(d)'
<1> DEFINE old == Superseded(invoices[c], draft[c].supersedes)
           new == NewInvoice(draft[c].terms, token)
<1>1. InForce(c) /\ Seen(c) /\ UnderReview(c)
  BY DEF Bill
<1>2. /\ draft[c] # NoDraft /\ CurrentInvoices(c) = {draft[c].supersedes}
      /\ status[c] = "approved" /\ draft[c].terms.version = settings
      /\ Reviewed(token, draft[c].terms) /\ Len(invoices[c]) < MaxRevision
      /\ invoices' = [invoices EXCEPT ![c] = Append(old, new)]
      /\ terms' = [terms EXCEPT ![c] = draft[c].terms]
      /\ draft' = [draft EXCEPT ![c] = NoDraft]
      /\ UNCHANGED <<status, payment>>
  BY DEF IssueReplacement, Replaceable
<1>3. draft[c].terms \in Terms /\ invoices[c] \in Seq(Invoice)
  BY <1>2 DEF TypeOK, Draft
<1>4. new \in Invoice /\ new.terms = draft[c].terms /\ new.current /\ new.asReviewed
  BY <1>2, <1>3, InvoiceType, SeenTerms
<1>5. /\ old \in Seq(Invoice) /\ Len(old) = Len(invoices[c])
      /\ \A r \in 1 .. Len(old) : ~old[r].current /\ old[r].asReviewed
  <2>1. /\ old \in Seq(Invoice) /\ Len(old) = Len(invoices[c])
        /\ \A r \in 1 .. Len(invoices[c]) :
             /\ old[r].current = (invoices[c][r].current /\ r # draft[c].supersedes)
             /\ old[r].asReviewed = invoices[c][r].asReviewed
    BY <1>3, SupersededType
  <2>2. DOMAIN invoices[c] = 1 .. Len(invoices[c])
    BY <1>3
  <2>3. \A r \in 1 .. Len(invoices[c]) :
          (invoices[c][r].current => r = draft[c].supersedes) /\ invoices[c][r].asReviewed
    BY <1>1, <1>2, <2>2 DEF CurrentInvoices, Seen
  <2> HIDE DEF old
  <2>4. QED
    BY <2>1, <2>3
<1> HIDE DEF old, new
<1>6. /\ invoices'[c] # <<>> /\ Seen(c)'
      /\ invoices'[c][Len(invoices'[c])] = new
      /\ CurrentInvoices(c)' = {Len(invoices'[c])}
      /\ \A d \in Cycle \ {c} : invoices'[d] = invoices[d]
  BY <1>2, <1>4, <1>5, Appended
<1>7. \A d \in Cycle : Paid(d)' = Paid(d) /\ Pending(d)' = Pending(d)
  BY <1>2, SamePayments
<1>8. /\ terms'[c] = draft[c].terms /\ draft'[c] = NoDraft
      /\ \A d \in Cycle \ {c} : terms'[d] = terms[d] /\ draft'[d] = draft[d]
  BY <1>2 DEF TypeOK
<1>9. ASSUME NEW d \in Cycle \ {c}
      PROVE  Bill(d)'
  BY <1>2, <1>6, <1>7, <1>8, OtherBill
<1>10. Bill(c)'
  <2>1. InForce(c)'
    BY <1>1, <1>2, <1>4, <1>6, <1>7, <1>8 DEF InForce
  <2>2. UnderReview(c)'
    BY <1>1, <1>2, <1>7 DEF UnderReview
  <2>3. QED
    BY <1>6, <2>1, <2>2 DEF Bill
<1>11. QED
  BY <1>9, <1>10

-----------------------------------------------------------------------------
(* Payments *)

(* A bill with invoices gets another set of rows; the others keep theirs. *)
LEMMA SettledBill ==
  ASSUME TypeOK, NEW c \in Cycle, NEW s \in Status, \A d \in Cycle : Bill(d),
         SetStatus(c, s), invoices[c] # <<>>, s # "none",
         UNCHANGED <<terms, invoices, draft>>,
         \A d \in Cycle \ {c} : Paid(d)' = Paid(d) /\ Pending(d)' = Pending(d),
         s = "approved" => Paid(c)' = {},
         s = "pending_verification" <=> Pending(c)' # {},
         \A p, q \in Pending(c)' : p = q
  PROVE  \A d \in Cycle : Bill(d)'
<1>1. status'[c] = s /\ \A d \in Cycle \ {c} : status'[d] = status[d]
  BY StatusType
<1>2. ASSUME NEW d \in Cycle \ {c}
      PROVE  Bill(d)'
  BY <1>1, OtherBill
<1>3. CurrentInvoices(c)' = CurrentInvoices(c) /\ Seen(c)'
  BY SameInvoices DEF Bill
<1>4. InForce(c)'
  BY <1>1, <1>3 DEF Bill, InForce
<1>5. UnderReview(c)'
  BY <1>1 DEF UnderReview
<1>6. QED
  BY <1>2, <1>3, <1>4, <1>5 DEF Bill

LEMMA Invoiced ==
  ASSUME NEW c \in Cycle, Bill(c), CurrentInvoices(c) # {} \/ Pending(c) # {}
  PROVE  invoices[c] # <<>>
BY DEF Bill, InForce, CurrentInvoices

(* The receipts keep their numbers when a row joins the paid ones with the next
   number, and when none does. *)
LEMMA NextNumber ==
  ASSUME NEW d \in Cycle, Numbered(d), NEW p \in Payment, p \notin Paid(d),
         Paid(d)' = Paid(d) \cup {p}, payment'[p].receipt = NextReceipt(d),
         \A q \in Paid(d) : payment'[q].receipt = payment[q].receipt
  PROVE  Numbered(d)'
<1> DEFINE n == Cardinality(Paid(d))
<1>1. n \in Nat /\ IsFiniteSet(Paid(d))
  BY NextReceiptType
<1>2. Cardinality(Paid(d)') = n + 1
  BY <1>1, FS_AddElement
<1>3. {payment'[q].receipt : q \in Paid(d)'} = {payment[q].receipt : q \in Paid(d)} \cup {n + 1}
  BY DEF NextReceipt
<1>4. {payment[q].receipt : q \in Paid(d)} = 1 .. n
  BY DEF Numbered
<1>5. 1 .. (n + 1) = (1 .. n) \cup {n + 1}
  BY <1>1
<1>6. QED
  BY <1>2, <1>3, <1>4, <1>5 DEF Numbered

LEMMA SameNumbers ==
  ASSUME NEW d \in Cycle, Numbered(d), Paid(d)' = Paid(d),
         \A q \in Paid(d) : payment'[q].receipt = payment[q].receipt
  PROVE  Numbered(d)'
BY DEF Numbered

(* A row with a proof that is free keeps the proofs apart. *)
LEMMA NewProof ==
  ASSUME ProofPaysOnce, NEW c \in Cycle, NEW p \in Payment, NEW proof, ProofFree(proof, c),
         payment'[p].proof = proof,
         \A q \in Payment \ {p} : payment'[q] = payment[q]
  PROVE  ProofPaysOnce'
BY DEF ProofPaysOnce, ProofFree

LEMMA SameProof ==
  ASSUME ProofPaysOnce, NEW p \in Payment, payment[p] # NoPayment,
         payment[p].state # "rejected", payment'[p].proof = payment[p].proof,
         \A q \in Payment \ {p} : payment'[q] = payment[q]
  PROVE  ProofPaysOnce'
BY DEF ProofPaysOnce

(* What a payment keeps of the invariant. *)
Kept == (\A d \in Cycle : Bill(d)' /\ Numbered(d)') /\ ProofPaysOnce'

LEMMA SubmittedBill ==
  ASSUME IInv, NEW c \in Cycle, NEW p \in Payment, NEW e \in Evidence, NEW a \in Nat,
         SubmitPayment(c, p, e, a)
  PROVE  Kept
<1>1. TypeOK /\ ProofPaysOnce /\ \A d \in Cycle : Bill(d) /\ Numbered(d)
  BY DEF IInv
<1>2. /\ payment'[p].proof = e
      /\ \A q \in Payment \ {p} : payment'[q] = payment[q]
      /\ \A d \in Cycle : p \notin Paid(d) /\ Paid(d)' = Paid(d)
      /\ Pending(c)' = Pending(c) \cup {p}
      /\ \A d \in Cycle \ {c} : Pending(d)' = Pending(d)
  BY <1>1, SubmittedRow, NewTransfer
<1>3. Pending(c) = {}
  BY <1>1 DEF SubmitPayment, Payable, Bill, UnderReview
<1>4. \A d \in Cycle : Bill(d)'
  <2>1. invoices[c] # <<>>
    BY <1>1, Invoiced DEF SubmitPayment
  <2>2. SetStatus(c, "pending_verification") /\ UNCHANGED <<terms, invoices, draft>>
    BY DEF SubmitPayment
  <2>3. "pending_verification" \in Status
    BY DEF Status
  <2>4. QED
    BY <1>1, <1>2, <1>3, <2>1, <2>2, <2>3, SettledBill
<1>5. \A d \in Cycle : Numbered(d)'
  <2>1. \A d \in Cycle : \A q \in Paid(d) : q \in Payment \ {p}
    BY <1>2 DEF Paid, Rows
  <2>2. QED
    BY <1>1, <1>2, <2>1, SameNumbers
<1>6. ProofPaysOnce'
  BY <1>1, <1>2, NewProof DEF SubmitPayment
<1>7. QED
  BY <1>4, <1>5, <1>6 DEF Kept

LEMMA CashBill ==
  ASSUME IInv, NEW c \in Cycle, NEW p \in Payment, NEW k \in CashKey, NEW a \in Nat,
         RecordCashPayment(c, p, k, a)
  PROVE  Kept
<1>1. TypeOK /\ ProofPaysOnce /\ \A d \in Cycle : Bill(d) /\ Numbered(d)
  BY DEF IInv
<1>2. NewRow(c, p, k, a, "paid", NextReceipt(c)) /\ NextReceipt(c) \in Nat
  BY NextReceiptType DEF RecordCashPayment
<1>3. /\ payment'[p].proof = k /\ payment'[p].receipt = NextReceipt(c)
      /\ \A q \in Payment \ {p} : payment'[q] = payment[q]
      /\ \A d \in Cycle : p \notin Paid(d) /\ Pending(d)' = Pending(d)
      /\ Paid(c)' = Paid(c) \cup {p}
      /\ \A d \in Cycle \ {c} : Paid(d)' = Paid(d)
  BY <1>1, <1>2, NewCash
<1>4. Pending(c) = {}
  BY <1>1 DEF RecordCashPayment, Payable, Bill, UnderReview
<1>5. \A d \in Cycle : Bill(d)'
  <2> DEFINE s == IF a = Outstanding(c) THEN "paid" ELSE "partially_paid"
  <2>1. invoices[c] # <<>>
    BY <1>1, Invoiced DEF RecordCashPayment
  <2>2. SetStatus(c, s) /\ UNCHANGED <<terms, invoices, draft>>
    BY DEF RecordCashPayment
  <2>3. s \in Status /\ s \notin {"none", "approved", "pending_verification"}
    BY DEF Status
  <2> HIDE DEF s
  <2>4. QED
    BY <1>1, <1>3, <1>4, <2>1, <2>2, <2>3, SettledBill
<1>6. \A d \in Cycle : Numbered(d)'
  <2>1. \A d \in Cycle : \A q \in Paid(d) : q \in Payment \ {p}
    BY <1>3 DEF Paid, Rows
  <2>2. Numbered(c)'
    BY <1>1, <1>3, <2>1, NextNumber
  <2>3. \A d \in Cycle \ {c} : Numbered(d)'
    BY <1>1, <1>3, <2>1, SameNumbers
  <2>4. QED
    BY <2>2, <2>3
<1>7. ProofPaysOnce'
  BY <1>1, <1>3, NewProof DEF RecordCashPayment
<1>8. QED
  BY <1>5, <1>6, <1>7 DEF Kept

LEMMA ApprovedBill ==
  ASSUME IInv, NEW c \in Cycle, NEW p \in Payment, NEW a \in Nat, ApprovePayment(c, p, a)
  PROVE  Kept
<1>1. TypeOK /\ ProofPaysOnce /\ \A d \in Cycle : Bill(d) /\ Numbered(d)
  BY DEF IInv
<1>2. p \in Pending(c) /\ payment[p] # NoPayment /\ payment[p].state # "rejected"
  BY DEF ApprovePayment, Pending, Rows
<1>3. PICK row \in PaymentRow :
        /\ row.cycle = c /\ row.state = "paid" /\ row.receipt = NextReceipt(c)
        /\ row.proof = payment[p].proof
        /\ payment' = [payment EXCEPT ![p] = row]
  BY <1>1, ApprovedRow
<1>4. /\ payment'[p] = row
      /\ \A q \in Payment \ {p} : payment'[q] = payment[q]
      /\ \A d \in Cycle : p \notin Paid(d)
      /\ Paid(c)' = Paid(c) \cup {p}
      /\ Pending(c)' = Pending(c) \ {p}
      /\ \A d \in Cycle \ {c} : Paid(d)' = Paid(d) /\ Pending(d)' = Pending(d)
  <2>1. JoinsPaid(c, p, row)
    BY <1>1, <1>2, <1>3, ReviewedApproved
  <2>2. QED
    BY <2>1 DEF JoinsPaid
<1>5. Pending(c)' = {}
  BY <1>1, <1>2, <1>4 DEF Bill, UnderReview
<1>6. \A d \in Cycle : Bill(d)'
  <2>1. invoices[c] # <<>>
    BY <1>1, <1>2, Invoiced
  <2>2. SetStatus(c, "paid") /\ UNCHANGED <<terms, invoices, draft>>
    BY DEF ApprovePayment
  <2>3. "paid" \in Status
    BY DEF Status
  <2>4. QED
    BY <1>1, <1>4, <1>5, <2>1, <2>2, <2>3, SettledBill
<1>7. \A d \in Cycle : Numbered(d)'
  <2>1. \A d \in Cycle : \A q \in Paid(d) : q \in Payment \ {p}
    BY <1>4 DEF Paid, Rows
  <2>2. Numbered(c)'
    BY <1>1, <1>3, <1>4, <2>1, NextNumber
  <2>3. \A d \in Cycle \ {c} : Numbered(d)'
    BY <1>1, <1>4, <2>1, SameNumbers
  <2>4. QED
    BY <2>2, <2>3
<1>8. ProofPaysOnce'
  BY <1>1, <1>2, <1>3, <1>4, SameProof
<1>9. QED
  BY <1>6, <1>7, <1>8 DEF Kept

LEMMA RejectedBill ==
  ASSUME IInv, NEW c \in Cycle, NEW p \in Payment, RejectPayment(c, p)
  PROVE  Kept
<1>1. TypeOK /\ ProofPaysOnce /\ \A d \in Cycle : Bill(d) /\ Numbered(d)
  BY DEF IInv
<1>2. p \in Pending(c) /\ payment[p] # NoPayment /\ payment[p].state # "rejected"
  BY DEF RejectPayment, Pending, Rows
<1>3. PICK row \in PaymentRow :
        /\ row.cycle = c /\ row.state = "rejected" /\ row.proof = payment[p].proof
        /\ payment' = [payment EXCEPT ![p] = row]
  BY <1>1, RejectedRow
<1>4. /\ payment'[p] = row
      /\ \A q \in Payment \ {p} : payment'[q] = payment[q]
      /\ \A d \in Cycle : p \notin Paid(d) /\ Paid(d)' = Paid(d)
      /\ Pending(c)' = Pending(c) \ {p}
      /\ \A d \in Cycle \ {c} : Pending(d)' = Pending(d)
  BY <1>1, <1>2, <1>3, ReviewedRejected
<1>5. Pending(c)' = {} /\ Pending(c) \ {p} = {}
  BY <1>1, <1>2, <1>4 DEF Bill, UnderReview
<1>6. \A d \in Cycle : Bill(d)'
  <2> DEFINE s == IF Paid(c) # {} THEN "partially_paid" ELSE "approved"
  <2>1. invoices[c] # <<>>
    BY <1>1, <1>2, Invoiced
  <2>2. SetStatus(c, s) /\ UNCHANGED <<terms, invoices, draft>>
    BY <1>5 DEF RejectPayment, AfterRejection
  <2>3. s \in Status /\ s \notin {"none", "pending_verification"} /\ (s = "approved" => Paid(c) = {})
    BY DEF Status
  <2> HIDE DEF s
  <2>4. QED
    BY <1>1, <1>4, <1>5, <2>1, <2>2, <2>3, SettledBill
<1>7. \A d \in Cycle : Numbered(d)'
  <2>1. \A d \in Cycle : \A q \in Paid(d) : q \in Payment \ {p}
    BY <1>4 DEF Paid, Rows
  <2>2. QED
    BY <1>1, <1>4, <2>1, SameNumbers
<1>8. ProofPaysOnce'
  BY <1>1, <1>2, <1>3, <1>4, SameProof
<1>9. QED
  BY <1>6, <1>7, <1>8 DEF Kept

-----------------------------------------------------------------------------
(* The invariant *)

LEMMA InitInv == Init => IInv
<1> SUFFICES ASSUME Init PROVE IInv
  OBVIOUS
<1>1. \A c \in Cycle : Paid(c) = {} /\ Pending(c) = {}
  BY DEF Init, Paid, Pending, Rows
<1>2. ProofPaysOnce
  BY DEF Init, ProofPaysOnce
<1>3. ASSUME NEW c \in Cycle
      PROVE  Bill(c) /\ Numbered(c)
  <2>1. status[c] = "none" /\ invoices[c] = <<>> /\ draft[c] = NoDraft
    BY DEF Init
  <2>2. Bill(c)
    BY <1>1, <2>1 DEF Bill, InForce, Seen, UnderReview
  <2>3. Numbered(c)
    BY <1>1, FS_EmptySet DEF Numbered
  <2>4. QED
    BY <2>2, <2>3
<1>4. QED
  BY <1>2, <1>3, InitType DEF IInv

(* A step that changes no payment keeps what is said of the payments. *)
LEMMA DrawnKept ==
  ASSUME IInv, payment' = payment, \A d \in Cycle : Bill(d)'
  PROVE  Kept
BY SamePayments DEF IInv, Kept

LEMMA StepKept ==
  ASSUME IInv, [Next]_vars
  PROVE  Kept
<1>1. TypeOK /\ \A d \in Cycle : Bill(d)
  BY DEF IInv
<1>2. CASE SaveSettings \/ UNCHANGED vars \/ \E c \in Cycle : PreviewInvoice(c)
  <2>1. UNCHANGED <<status, terms, invoices, draft, payment>>
    BY <1>2 DEF SaveSettings, PreviewInvoice, vars
  <2>2. \A d \in Cycle : Bill(d)'
    BY <1>1, <2>1, SamePayments, OtherBill
  <2>3. QED
    BY <2>1, <2>2, DrawnKept
<1>3. ASSUME NEW c \in Cycle, NEW a \in Amount, Calculate(c, a)
      PROVE  Kept
  <2>1. /\ SetStatus(c, "pending_review") /\ status[c] = "none"
        /\ UNCHANGED <<invoices, draft, payment>>
        /\ \A d \in Cycle \ {c} : terms'[d] = terms[d]
    BY <1>1, <1>3 DEF Calculate, TypeOK
  <2>2. "pending_review" \in Status
    BY DEF Status
  <2>3. \A d \in Cycle : Bill(d)'
    BY <1>1, <2>1, <2>2, DrawnBill
  <2>4. QED
    BY <2>1, <2>3, DrawnKept
<1>4. ASSUME NEW c \in Cycle, NEW a \in Amount, ManualInvoice(c, a)
      PROVE  Kept
  <2>1. /\ SetStatus(c, "pending_issue_approval") /\ status[c] # "pending_verification"
        /\ UNCHANGED <<invoices, draft, payment>>
        /\ terms'[c] = terms[c] \/ status[c] = "none"
        /\ \A d \in Cycle \ {c} : terms'[d] = terms[d]
    BY <1>1, <1>4 DEF ManualInvoice, TypeOK
  <2>2. "pending_issue_approval" \in Status
    BY DEF Status
  <2>3. \A d \in Cycle : Bill(d)'
    BY <1>1, <2>1, <2>2, DrawnBill
  <2>4. QED
    BY <2>1, <2>3, DrawnKept
<1>5. ASSUME NEW c \in Cycle, PrepareInvoice(c)
      PROVE  Kept
  <2>1. /\ SetStatus(c, "pending_issue_approval") /\ status[c] # "pending_verification"
        /\ UNCHANGED <<terms, invoices, draft, payment>>
    BY <1>5 DEF PrepareInvoice
  <2>2. "pending_issue_approval" \in Status
    BY DEF Status
  <2>3. \A d \in Cycle : Bill(d)'
    BY <1>1, <2>1, <2>2, DrawnBill
  <2>4. QED
    BY <2>1, <2>3, DrawnKept
<1>6. ASSUME NEW c \in Cycle, NEW s \in Reopened, UpdateStatus(c, s)
      PROVE  Kept
  <2>1. /\ SetStatus(c, s) /\ status[c] # "pending_verification"
        /\ UNCHANGED <<terms, invoices, draft, payment>>
    BY <1>6 DEF UpdateStatus
  <2>2. s \in Status /\ s \notin {"none", "approved", "pending_verification", "partially_paid", "paid"}
    BY DEF Status, Reopened
  <2>3. \A d \in Cycle : Bill(d)'
    BY <1>1, <2>1, <2>2, DrawnBill
  <2>4. QED
    BY <2>1, <2>3, DrawnKept
<1>7. ASSUME NEW c \in Cycle,
             \/ \E a \in Amount : Reprice(c, a)
             \/ \E token \in {NoToken, review[c]} :
                  IssueInvoice(c, token) \/ IssueReplacement(c, token)
      PROVE  Kept
  <2>1. payment' = payment
    BY <1>7 DEF Reprice, IssueInvoice, IssueReplacement
  <2>2. \A d \in Cycle : Bill(d)'
    BY <1>1, <1>7, RepricedBill, IssuedBill, ReplacedBill
  <2>3. QED
    BY <2>1, <2>2, DrawnKept
<1>8. ASSUME NEW c \in Cycle, status[c] # "none", NEW p \in Payment,
             \/ \E a \in 1 .. terms[c].amount :
                  \/ \E e \in Evidence : SubmitPayment(c, p, e, a)
                  \/ \E k \in CashKey : RecordCashPayment(c, p, k, a)
                  \/ ApprovePayment(c, p, a)
             \/ RejectPayment(c, p)
      PROVE  Kept
  <2>1. 1 .. terms[c].amount \subseteq Nat
    BY <1>1, <1>8, BillingAssumption DEF TypeOK, Terms
  <2>2. QED
    BY <1>8, <2>1, SubmittedBill, CashBill, ApprovedBill, RejectedBill
<1>9. QED
  BY <1>2, <1>3, <1>4, <1>5, <1>6, <1>7, <1>8, StepCases

LEMMA StepInv ==
  ASSUME IInv, [Next]_vars
  PROVE  IInv'
<1>1. TypeOK'
  BY StepType DEF IInv
<1>2. QED
  BY <1>1, StepKept DEF Kept, IInv

LEMMA Invariant == Spec => []IInv
BY InitInv, StepInv, PTL DEF Spec

(* Whatever is calculated, approved, corrected, reopened and paid, in whatever
   order: a bill that can be paid has one invoice in force and it states the
   bill. *)
THEOREM InvoiceInForce == Spec => []CurrentInvoiceStatesTheBill
BY Invariant, IInvMeaning, PTL

(* An approver issues what the preview showed. *)
THEOREM IssuedAsReviewed == Spec => []ReviewedFactsAreIssued
BY Invariant, IInvMeaning, PTL

(* No slip and no cash receipt counts twice, on one bill or on two. *)
THEOREM ProofCountsOnce == Spec => []ProofPaysOnce
<1>1. IInv => ProofPaysOnce
  BY DEF IInv
<1>2. QED
  BY <1>1, Invariant, PTL

(* A bill is under review exactly while one transfer is. *)
THEOREM ReviewIsExclusive == Spec => []OneReviewAtATime
BY Invariant, IInvMeaning, PTL

(* Receipts are numbered without gap or repetition. *)
THEOREM ReceiptNumbering == Spec => []ReceiptsAreNumbered
BY Invariant, IInvMeaning, PTL

-----------------------------------------------------------------------------
(* The action property *)

Frozen ==
  \A c \in Cycle :
    /\ Paid(c) \cup Pending(c) # {} => terms'[c] = terms[c] /\ invoices'[c] = invoices[c]
    /\ status[c] = "paid" => status'[c] = "paid"

(* A bill that is issued or replaced has no money yet. *)
LEMMA IssuedUnpaid ==
  ASSUME IInv, NEW c \in Cycle, NEW token, IssueInvoice(c, token) \/ IssueReplacement(c, token)
  PROVE  Paid(c) \cup Pending(c) = {}
<1>1. InForce(c) /\ UnderReview(c)
  BY DEF IInv, Bill
<1>2. CASE IssueInvoice(c, token)
  BY <1>1, <1>2 DEF IssueInvoice, InForce
<1>3. CASE IssueReplacement(c, token)
  <2>1. status[c] = "approved"
    BY <1>3 DEF IssueReplacement, Replaceable
  <2>2. QED
    BY <1>1, <2>1 DEF InForce, UnderReview
<1>4. QED
  BY <1>2, <1>3

LEMMA StepFrozen ==
  ASSUME IInv, [Next]_vars
  PROVE  Frozen
<1>1. TypeOK /\ \A d \in Cycle : InForce(d) /\ UnderReview(d)
  BY DEF IInv, Bill
<1>2. CASE SaveSettings \/ UNCHANGED vars \/ \E c \in Cycle : PreviewInvoice(c)
  BY <1>2 DEF SaveSettings, PreviewInvoice, vars, Frozen
<1>3. ASSUME NEW c \in Cycle, NEW a \in Amount, Calculate(c, a) \/ ManualInvoice(c, a)
      PROVE  Frozen
  <2>1. /\ status[c] # "paid" /\ invoices' = invoices
        /\ \A d \in Cycle \ {c} : terms'[d] = terms[d] /\ status'[d] = status[d]
        /\ terms'[c] = terms[c] \/ status[c] = "none"
    BY <1>1, <1>3 DEF Calculate, ManualInvoice, SetStatus, TypeOK
  <2>2. status[c] = "none" => Paid(c) \cup Pending(c) = {}
    BY <1>1 DEF InForce
  <2>3. QED
    BY <2>1, <2>2 DEF Frozen
<1>4. ASSUME NEW c \in Cycle,
             PrepareInvoice(c) \/ \E s \in Reopened : UpdateStatus(c, s)
      PROVE  Frozen
  <2>1. /\ status[c] # "paid" /\ UNCHANGED <<terms, invoices>>
        /\ \A d \in Cycle \ {c} : status'[d] = status[d]
    BY <1>1, <1>4 DEF PrepareInvoice, UpdateStatus, SetStatus, TypeOK
  <2>2. QED
    BY <2>1 DEF Frozen
<1>5. ASSUME NEW c \in Cycle, NEW a \in Amount, Reprice(c, a)
      PROVE  Frozen
  BY <1>5 DEF Reprice, Frozen
<1>6. ASSUME NEW c \in Cycle, NEW token, IssueInvoice(c, token) \/ IssueReplacement(c, token)
      PROVE  Frozen
  <2>1. Paid(c) \cup Pending(c) = {}
    BY <1>6, IssuedUnpaid
  <2>2. /\ status[c] # "paid"
        /\ \A d \in Cycle \ {c} :
             terms'[d] = terms[d] /\ invoices'[d] = invoices[d] /\ status'[d] = status[d]
    BY <1>1, <1>6 DEF IssueInvoice, IssueReplacement, Replaceable, SetStatus, TypeOK
  <2>3. QED
    BY <2>1, <2>2 DEF Frozen
<1>7. ASSUME NEW c \in Cycle, NEW p \in Payment,
             \/ \E a \in 1 .. terms[c].amount :
                  \/ \E e \in Evidence : SubmitPayment(c, p, e, a)
                  \/ \E k \in CashKey : RecordCashPayment(c, p, k, a)
                  \/ ApprovePayment(c, p, a)
             \/ RejectPayment(c, p)
      PROVE  Frozen
  <2>1. status[c] # "paid" /\ UNCHANGED <<terms, invoices>>
    BY <1>7 DEF SubmitPayment, RecordCashPayment, ApprovePayment, RejectPayment, Payable
  <2>2. \A d \in Cycle \ {c} : status'[d] = status[d]
    BY <1>1, <1>7 DEF SubmitPayment, RecordCashPayment, ApprovePayment, RejectPayment,
                      SetStatus, TypeOK
  <2>3. QED
    BY <2>1, <2>2 DEF Frozen
<1>8. QED
  BY <1>2, <1>3, <1>4, <1>5, <1>6, <1>7, StepCases

(* What a bill amounts to never changes once money moved on it. *)
THEOREM FrozenBills == Spec => FrozenOnceMoneyMoves
<1>1. IInv /\ [Next]_vars => [Frozen]_vars
  BY StepFrozen
<1>2. FrozenOnceMoneyMoves <=> [][Frozen]_vars
  BY PTL DEF FrozenOnceMoneyMoves, Frozen
<1>3. QED
  BY <1>1, <1>2, Invariant, PTL DEF Spec

-----------------------------------------------------------------------------
(* What is collected *)

(* The sum over a set of rows, of a table of payments. *)
AmountSum(table, S) == MapThenSumSet(LAMBDA p : table[p].amount, S)

LEMMA CollectedSum ==
  ASSUME NEW c \in Cycle
  PROVE  /\ Collected(c) = AmountSum(payment, Paid(c))
         /\ Collected(c)' = AmountSum(payment', Paid(c)')
<1>1. Collected(c) = AmountSum(payment, Paid(c))
  BY DEF Collected, AmountSum, MapThenSumSet, MapThenFoldSet
<1>2. Collected(c)' = AmountSum(payment', Paid(c)')
  BY DEF Collected, AmountSum, MapThenSumSet, MapThenFoldSet
<1>3. QED
  BY <1>1, <1>2

LEMMA AmountSumOf ==
  ASSUME NEW S, IsFiniteSet(S), NEW table, NEW f, \A p \in S : f[p] = table[p].amount
  PROVE  AmountSum(table, S) = SumOf(f, S)
<1> DEFINE amount(p) == table[p].amount
           t == CHOOSE r : r = [s \in SUBSET S |->
                  IF s = {} THEN 0 ELSE amount(Pick(s)) + r[s \ {Pick(s)}]]
<1>1. AmountSum(table, S) = t[S]
  BY DEF AmountSum, MapThenSumSet, MapThenFoldSet, Pick
<1>2. PICK u : IsSumTable(u, f, S)
  BY TableExists
<1>3. \A s \in SUBSET S : s # {} => f[Pick(s)] = amount(Pick(s))
  BY PickIn
<1>4. u = [s \in SUBSET S |-> IF s = {} THEN 0 ELSE amount(Pick(s)) + u[s \ {Pick(s)}]]
  <2> HIDE DEF amount
  <2>1. QED
    BY <1>2, <1>3 DEF IsSumTable
<1>5. t = [s \in SUBSET S |-> IF s = {} THEN 0 ELSE amount(Pick(s)) + t[s \ {Pick(s)}]]
  <2> HIDE DEF amount
  <2>1. QED
    BY <1>4
<1>6. IsSumTable(t, f, S)
  <2> HIDE DEF amount, t
  <2>1. t = [s \in SUBSET S |-> IF s = {} THEN 0 ELSE f[Pick(s)] + t[s \ {Pick(s)}]]
    BY <1>3, <1>5
  <2>2. QED
    BY <2>1 DEF IsSumTable
<1> HIDE DEF t
<1>7. QED
  BY <1>1, <1>6, SumOfTable

(* The rows that are paid are finitely many, and each has an amount. *)
LEMMA PaidRows ==
  ASSUME TypeOK, NEW c \in Cycle
  PROVE  IsFiniteSet(Paid(c)) /\ \A p \in Paid(c) : payment[p].amount \in Nat
<1>1. \A p \in Paid(c) : payment[p] \in PaymentRow
  BY DEF Paid, Rows, TypeOK
<1>2. QED
  BY <1>1, NextReceiptType DEF PaymentRow

LEMMA CollectedType ==
  ASSUME TypeOK, NEW c \in Cycle
  PROVE  /\ Collected(c) \in Nat
         /\ Paid(c) = {} => Collected(c) = 0
         /\ \A p \in Paid(c) : payment[p].amount <= Collected(c)
<1> DEFINE f == [p \in Paid(c) |-> payment[p].amount]
<1>1. IsFiniteSet(Paid(c)) /\ \A p \in Paid(c) : f[p] = payment[p].amount /\ f[p] \in Nat
  BY PaidRows
<1> HIDE DEF f
<1>2. Collected(c) = SumOf(f, Paid(c))
  BY <1>1, AmountSumOf, CollectedSum
<1>3. QED
  BY <1>1, <1>2, SumNat, SumEmpty, SumBoundsElement

(* What a bill has collected does not change with the rows of others. *)
LEMMA SameCollected ==
  ASSUME TypeOK, NEW c \in Cycle, Paid(c)' = Paid(c),
         \A p \in Paid(c) : payment'[p].amount = payment[p].amount
  PROVE  Collected(c)' = Collected(c)
<1> DEFINE f == [p \in Paid(c) |-> payment[p].amount]
<1>1. IsFiniteSet(Paid(c)) /\ \A p \in Paid(c) : f[p] = payment[p].amount
  BY PaidRows
<1> HIDE DEF f
<1>2. AmountSum(payment, Paid(c)) = SumOf(f, Paid(c))
  BY <1>1, AmountSumOf
<1>3. AmountSum(payment', Paid(c)) = SumOf(f, Paid(c))
  BY <1>1, AmountSumOf
<1>4. QED
  BY <1>2, <1>3, CollectedSum

(* A row that joins adds its amount. *)
LEMMA MoreCollected ==
  ASSUME TypeOK, NEW c \in Cycle, NEW p, p \notin Paid(c), Paid(c)' = Paid(c) \cup {p},
         payment'[p].amount \in Nat,
         \A q \in Paid(c) : payment'[q].amount = payment[q].amount
  PROVE  Collected(c)' = Collected(c) + payment'[p].amount
<1> DEFINE f == [q \in Paid(c) \cup {p} |-> payment'[q].amount]
<1>1. IsFiniteSet(Paid(c)) /\ IsFiniteSet(Paid(c) \cup {p})
  BY PaidRows, FS_AddElement
<1>2. /\ \A q \in Paid(c) \cup {p} : f[q] = payment'[q].amount /\ f[q] \in Nat
      /\ \A q \in Paid(c) : f[q] = payment[q].amount
  BY PaidRows
<1> HIDE DEF f
<1>3. AmountSum(payment, Paid(c)) = SumOf(f, Paid(c))
  BY <1>1, <1>2, AmountSumOf
<1>4. AmountSum(payment', Paid(c) \cup {p}) = SumOf(f, Paid(c) \cup {p})
  BY <1>1, <1>2, AmountSumOf
<1>5. SumOf(f, Paid(c) \cup {p}) = f[p] + SumOf(f, Paid(c))
  <2>1. \A q \in Paid(c) \cup {p} : f[q] \in Int
    BY <1>2
  <2>2. QED
    BY <1>1, <2>1, SumAdd
<1>6. SumOf(f, Paid(c)) \in Nat
  BY <1>1, <1>2, SumNat
<1>7. Collected(c) = SumOf(f, Paid(c))
  BY <1>3, CollectedSum
<1>8. Collected(c)' = SumOf(f, Paid(c) \cup {p})
  BY <1>4, CollectedSum
<1>9. f[p] = payment'[p].amount
  BY <1>2
<1>10. QED
  BY <1>5, <1>6, <1>7, <1>8, <1>9

(* What the invariant adds to say of one bill: the rows that are paid are amounts,
   they come to less than the bill while another transfer can be accepted, and
   never to more. *)
Balanced(d) ==
  /\ \A p \in Paid(d) : payment[p].amount > 0
  /\ status[d] = "paid" => Collected(d) = terms[d].amount
  /\ status[d] \in {"partially_paid", "pending_verification"} => Collected(d) < terms[d].amount
  /\ status[d] = "partially_paid" => Paid(d) # {}
  /\ status[d] # "none" => Collected(d) <= terms[d].amount

BalancedInv == IInv /\ \A c \in Cycle : Balanced(c)

LEMMA BalancedMeaning == BalancedInv => SettlementIsExact
<1> SUFFICES ASSUME BalancedInv, NEW c \in Cycle
             PROVE  /\ status[c] = "paid" => Collected(c) = terms[c].amount
                    /\ status[c] = "partially_paid"
                         => 0 < Collected(c) /\ Collected(c) < terms[c].amount
                    /\ status[c] = "approved" => Collected(c) = 0
                    /\ status[c] # "none" => Collected(c) <= terms[c].amount
  BY DEF SettlementIsExact
<1>1. TypeOK /\ InForce(c) /\ Balanced(c)
  BY DEF BalancedInv, IInv, Bill
<1>2. /\ Collected(c) \in Nat
      /\ Paid(c) = {} => Collected(c) = 0
      /\ \A p \in Paid(c) : payment[p].amount \in Nat /\ payment[p].amount <= Collected(c)
  BY <1>1, CollectedType, PaidRows
<1>3. Paid(c) # {} => 0 < Collected(c)
  BY <1>1, <1>2 DEF Balanced
<1>4. status[c] = "approved" => Collected(c) = 0
  BY <1>1, <1>2 DEF InForce
<1>5. QED
  BY <1>1, <1>3, <1>4 DEF Balanced

(* A bill whose rows, status and terms a step leaves alone. *)
LEMMA OtherBalanced ==
  ASSUME TypeOK, NEW d \in Cycle, Balanced(d), Paid(d)' = Paid(d),
         \A p \in Paid(d) : payment'[p].amount = payment[p].amount,
         status'[d] = status[d], terms'[d] = terms[d]
  PROVE  Balanced(d)'
BY SameCollected DEF Balanced

(* A bill that is drawn up: its rows stay, and it has none if it gets other
   terms. *)
LEMMA DrawnBalanced ==
  ASSUME TypeOK, TypeOK', NEW c \in Cycle, Balanced(c), Paid(c)' = Paid(c),
         \A p \in Paid(c) : payment'[p].amount = payment[p].amount,
         status'[c] \notin {"none", "paid", "partially_paid", "pending_verification"},
         (terms'[c] = terms[c] /\ status[c] # "none") \/ Paid(c) = {}
  PROVE  Balanced(c)'
<1>1. Collected(c)' = Collected(c)
  BY SameCollected
<1>2. Collected(c)' <= terms'[c].amount
  <2>1. CASE terms'[c] = terms[c] /\ status[c] # "none"
    BY <1>1, <2>1 DEF Balanced
  <2>2. CASE Paid(c) = {}
    <3>1. Collected(c) = 0
      BY <2>2, CollectedType
    <3>2. terms'[c] \in Terms
      BY DEF TypeOK
    <3>3. terms'[c].amount \in Nat
      BY <3>2, BillingAssumption DEF Terms
    <3>4. QED
      BY <1>1, <3>1, <3>3
  <2>3. QED
    BY <2>1, <2>2
<1>3. QED
  BY <1>2 DEF Balanced

(* The terms of a bill there is, in numbers. *)
LEMMA OwedType ==
  ASSUME TypeOK, NEW c \in Cycle, status[c] # "none"
  PROVE  terms[c].amount \in Nat /\ Collected(c) \in Nat
         /\ Outstanding(c) = terms[c].amount - Collected(c)
<1>1. terms[c] \in Terms
  BY DEF TypeOK
<1>2. QED
  BY <1>1, CollectedType, BillingAssumption DEF Terms, Outstanding

LEMMA SubmittedBalanced ==
  ASSUME BalancedInv, NEW c \in Cycle, status[c] # "none", NEW p \in Payment,
         NEW e \in Evidence, NEW a \in Nat, SubmitPayment(c, p, e, a)
  PROVE  \A d \in Cycle : Balanced(d)'
<1>1. TypeOK /\ \A d \in Cycle : Balanced(d)
  BY DEF BalancedInv, IInv
<1>2. /\ \A q \in Payment \ {p} : payment'[q] = payment[q]
      /\ \A d \in Cycle : p \notin Paid(d) /\ Paid(d)' = Paid(d)
  BY <1>1, SubmittedRow, NewTransfer
<1>3. \A d \in Cycle : \A q \in Paid(d) : payment'[q].amount = payment[q].amount
  BY <1>2 DEF Paid, Rows
<1>4. /\ status'[c] = "pending_verification" /\ terms' = terms
      /\ \A d \in Cycle \ {c} : status'[d] = status[d]
  BY <1>1, StatusType DEF SubmitPayment, Status
<1>5. Collected(c)' = Collected(c)
  BY <1>1, <1>2, <1>3, SameCollected
<1>6. Collected(c) < terms[c].amount
  BY <1>1, OwedType DEF SubmitPayment
<1>7. Balanced(c)'
  <2>1. Collected(c)' <= terms[c].amount /\ Collected(c)' < terms[c].amount
    BY <1>1, <1>5, <1>6, OwedType
  <2>2. \A q \in Paid(c)' : payment'[q].amount > 0
    BY <1>1, <1>2, <1>3 DEF Balanced
  <2>3. QED
    BY <1>4, <2>1, <2>2 DEF Balanced
<1>8. QED
  BY <1>1, <1>2, <1>3, <1>4, <1>7, OtherBalanced

LEMMA CashBalanced ==
  ASSUME BalancedInv, NEW c \in Cycle, status[c] # "none", NEW p \in Payment,
         NEW k \in CashKey, NEW a \in Nat, RecordCashPayment(c, p, k, a)
  PROVE  \A d \in Cycle : Balanced(d)'
<1> DEFINE s == IF a = Outstanding(c) THEN "paid" ELSE "partially_paid"
<1>1. TypeOK /\ \A d \in Cycle : Balanced(d)
  BY DEF BalancedInv, IInv
<1>2. NewRow(c, p, k, a, "paid", NextReceipt(c)) /\ NextReceipt(c) \in Nat
  BY NextReceiptType DEF RecordCashPayment
<1>3. /\ payment'[p].amount = a
      /\ \A q \in Payment \ {p} : payment'[q] = payment[q]
      /\ \A d \in Cycle : p \notin Paid(d)
      /\ Paid(c)' = Paid(c) \cup {p}
      /\ \A d \in Cycle \ {c} : Paid(d)' = Paid(d)
  BY <1>1, <1>2, NewCash
<1>4. \A d \in Cycle : \A q \in Paid(d) : payment'[q].amount = payment[q].amount
  BY <1>3 DEF Paid, Rows
<1>5. /\ SetStatus(c, s) /\ s \in Status /\ terms' = terms
  BY DEF RecordCashPayment, Status
<1>6. status'[c] = s /\ \A d \in Cycle \ {c} : status'[d] = status[d]
  <2> HIDE DEF s
  <2>1. QED
    BY <1>1, <1>5, StatusType
<1>7. Collected(c)' = Collected(c) + a
  BY <1>1, <1>3, <1>4, MoreCollected
<1>8. a > 0 /\ a <= Outstanding(c)
  BY DEF RecordCashPayment
<1>9. Balanced(c)'
  <2>1. /\ Collected(c)' <= terms[c].amount
        /\ s = "paid" => Collected(c)' = terms[c].amount
        /\ s # "paid" => Collected(c)' < terms[c].amount
    BY <1>1, <1>7, <1>8, OwedType
  <2>2. \A q \in Paid(c)' : payment'[q].amount > 0
    BY <1>1, <1>3, <1>4, <1>8 DEF Balanced
  <2>3. Paid(c)' # {}
    BY <1>3
  <2>4. QED
    BY <1>5, <1>6, <2>1, <2>2, <2>3 DEF Balanced
<1>10. QED
  BY <1>1, <1>3, <1>4, <1>5, <1>6, <1>9, OtherBalanced

LEMMA ApprovedEffect ==
  ASSUME TypeOK, NEW c \in Cycle, NEW p \in Payment, NEW a \in Nat, ApprovePayment(c, p, a)
  PROVE  /\ payment'[p].amount = a
         /\ \A q \in Payment \ {p} : payment'[q] = payment[q]
         /\ \A d \in Cycle : p \notin Paid(d)
         /\ Paid(c)' = Paid(c) \cup {p}
         /\ \A d \in Cycle \ {c} : Paid(d)' = Paid(d)
<1>1. p \in Pending(c)
  BY DEF ApprovePayment
<1>2. PICK row \in PaymentRow :
        /\ row.cycle = c /\ row.state = "paid" /\ row.amount = a
        /\ payment' = [payment EXCEPT ![p] = row]
  BY ApprovedRow
<1>3. JoinsPaid(c, p, row)
  BY <1>1, <1>2, ReviewedApproved
<1>4. QED
  BY <1>2, <1>3 DEF JoinsPaid

LEMMA ApprovedBalanced ==
  ASSUME BalancedInv, NEW c \in Cycle, status[c] # "none", NEW p \in Payment, NEW a \in Nat,
         ApprovePayment(c, p, a)
  PROVE  \A d \in Cycle : Balanced(d)'
<1>1. TypeOK /\ \A d \in Cycle : Balanced(d)
  BY DEF BalancedInv, IInv
<1>2. /\ payment'[p].amount = a
      /\ \A q \in Payment \ {p} : payment'[q] = payment[q]
      /\ \A d \in Cycle : p \notin Paid(d)
      /\ Paid(c)' = Paid(c) \cup {p}
      /\ \A d \in Cycle \ {c} : Paid(d)' = Paid(d)
  BY <1>1, ApprovedEffect
<1>3. \A d \in Cycle : \A q \in Paid(d) : payment'[q].amount = payment[q].amount
  BY <1>2 DEF Paid, Rows
<1>4. /\ status'[c] = "paid" /\ terms' = terms
      /\ \A d \in Cycle \ {c} : status'[d] = status[d]
  BY <1>1, StatusType DEF ApprovePayment, Status
<1>5. Collected(c)' = Collected(c) + a
  BY <1>1, <1>2, <1>3, MoreCollected
<1>6. a > 0 /\ a = Outstanding(c)
  BY DEF ApprovePayment
<1>7. Balanced(c)'
  <2>1. Collected(c)' = terms[c].amount /\ Collected(c)' <= terms[c].amount
    BY <1>1, <1>5, <1>6, OwedType
  <2>2. \A q \in Paid(c)' : payment'[q].amount > 0
    BY <1>1, <1>2, <1>3, <1>6 DEF Balanced
  <2>3. QED
    BY <1>4, <2>1, <2>2 DEF Balanced
<1>8. QED
  BY <1>1, <1>2, <1>3, <1>4, <1>7, OtherBalanced

(* A rejected transfer leaves what was collected, and a bill that was under review
   was not settled. *)
LEMMA RejectedBalanced ==
  ASSUME BalancedInv, NEW c \in Cycle, status[c] # "none", NEW p \in Payment,
         RejectPayment(c, p)
  PROVE  \A d \in Cycle : Balanced(d)'
<1>1. TypeOK /\ \A d \in Cycle : Balanced(d) /\ UnderReview(d)
  BY DEF BalancedInv, IInv, Bill
<1>2. PICK row \in PaymentRow :
        /\ row.cycle = c /\ row.state = "rejected"
        /\ payment' = [payment EXCEPT ![p] = row]
  BY <1>1, RejectedRow
<1>3. /\ \A q \in Payment \ {p} : payment'[q] = payment[q]
      /\ \A d \in Cycle : p \notin Paid(d) /\ Paid(d)' = Paid(d)
  <2>1. p \in Pending(c)
    BY DEF RejectPayment
  <2>2. QED
    BY <1>1, <1>2, <2>1, ReviewedRejected
<1>4. \A d \in Cycle : \A q \in Paid(d) : payment'[q].amount = payment[q].amount
  BY <1>3 DEF Paid, Rows
<1>5. status[c] = "pending_verification"
  BY <1>1 DEF RejectPayment, UnderReview
<1>6. AfterRejection(c, p) \in {"pending_verification", "partially_paid", "approved"}
      /\ (AfterRejection(c, p) = "partially_paid" => Paid(c) # {})
  BY DEF AfterRejection
<1>7. /\ status'[c] = AfterRejection(c, p) /\ terms' = terms
      /\ \A d \in Cycle \ {c} : status'[d] = status[d]
  BY <1>1, <1>6, StatusType DEF RejectPayment, Status
<1>8. Collected(c)' = Collected(c)
  BY <1>1, <1>3, <1>4, SameCollected
<1>9. Balanced(c)'
  <2>1. Collected(c)' < terms[c].amount /\ Collected(c)' <= terms[c].amount
    BY <1>1, <1>5, <1>8 DEF Balanced
  <2>2. \A q \in Paid(c)' : payment'[q].amount > 0
    BY <1>1, <1>3, <1>4 DEF Balanced
  <2>3. QED
    BY <1>3, <1>6, <1>7, <2>1, <2>2 DEF Balanced
<1>10. QED
  BY <1>1, <1>3, <1>4, <1>7, <1>9, OtherBalanced

(* The operations that leave the payments alone. *)
LEMMA UnpaidStepBalanced ==
  ASSUME BalancedInv, TypeOK', payment' = payment, NEW c \in Cycle,
         \A d \in Cycle \ {c} : status'[d] = status[d] /\ terms'[d] = terms[d],
         \/ status'[c] = status[c] /\ terms'[c] = terms[c]
         \/ /\ status'[c] \notin {"none", "paid", "partially_paid", "pending_verification"}
            /\ (terms'[c] = terms[c] /\ status[c] # "none") \/ Paid(c) = {}
  PROVE  \A d \in Cycle : Balanced(d)'
<1>1. TypeOK /\ \A d \in Cycle : Balanced(d)
  BY DEF BalancedInv, IInv
<1>2. \A d \in Cycle : Paid(d)' = Paid(d)
  BY SamePayments
<1>3. \A d \in Cycle : \A q \in Paid(d) : payment'[q].amount = payment[q].amount
  OBVIOUS
<1>4. Balanced(c)'
  BY <1>1, <1>2, <1>3, OtherBalanced, DrawnBalanced
<1>5. QED
  BY <1>1, <1>2, <1>3, <1>4, OtherBalanced

LEMMA StepBalanced ==
  ASSUME BalancedInv, TypeOK', [Next]_vars
  PROVE  \A d \in Cycle : Balanced(d)'
<1>1. TypeOK /\ IInv /\ \A d \in Cycle : InForce(d) /\ Balanced(d)
  BY DEF BalancedInv, IInv, Bill
<1>2. CASE SaveSettings \/ UNCHANGED vars \/ \E c \in Cycle : PreviewInvoice(c)
  <2>1. UNCHANGED <<status, terms, payment>>
    BY <1>2 DEF SaveSettings, PreviewInvoice, vars
  <2>2. \A d \in Cycle : Paid(d)' = Paid(d)
    BY <2>1, SamePayments
  <2>3. QED
    BY <1>1, <2>1, <2>2, OtherBalanced
<1>3. ASSUME NEW c \in Cycle, NEW a \in Amount, Calculate(c, a) \/ ManualInvoice(c, a)
      PROVE  \A d \in Cycle : Balanced(d)'
  <2>1. /\ payment' = payment
        /\ \A d \in Cycle \ {c} : status'[d] = status[d] /\ terms'[d] = terms[d]
        /\ status'[c] \in {"pending_review", "pending_issue_approval"}
        /\ (terms'[c] = terms[c] /\ status[c] # "none") \/ status[c] = "none"
    BY <1>1, <1>3 DEF Calculate, ManualInvoice, SetStatus, TypeOK
  <2>2. status[c] = "none" => Paid(c) = {}
    BY <1>1 DEF InForce
  <2>3. QED
    BY <2>1, <2>2, UnpaidStepBalanced
<1>4. ASSUME NEW c \in Cycle,
             PrepareInvoice(c) \/ \E s \in Reopened : UpdateStatus(c, s)
      PROVE  \A d \in Cycle : Balanced(d)'
  <2>1. /\ payment' = payment /\ terms' = terms /\ status[c] # "none"
        /\ \A d \in Cycle \ {c} : status'[d] = status[d]
        /\ status'[c] \in {"pending_review", "rejected", "pending_issue_approval"}
    BY <1>1, <1>4 DEF PrepareInvoice, UpdateStatus, Reopened, SetStatus, TypeOK
  <2>2. QED
    BY <2>1, UnpaidStepBalanced
<1>5. ASSUME NEW c \in Cycle, NEW a \in Amount, Reprice(c, a)
      PROVE  \A d \in Cycle : Balanced(d)'
  BY <1>5, UnpaidStepBalanced DEF Reprice
<1>6. ASSUME NEW c \in Cycle, NEW token, IssueInvoice(c, token) \/ IssueReplacement(c, token)
      PROVE  \A d \in Cycle : Balanced(d)'
  <2>1. Paid(c) = {}
    BY <1>1, <1>6, IssuedUnpaid
  <2>2. /\ payment' = payment /\ status'[c] = "approved"
        /\ \A d \in Cycle \ {c} : terms'[d] = terms[d] /\ status'[d] = status[d]
    BY <1>1, <1>6 DEF IssueInvoice, IssueReplacement, Replaceable, SetStatus, TypeOK
  <2>3. QED
    BY <2>1, <2>2, UnpaidStepBalanced
<1>7. ASSUME NEW c \in Cycle, status[c] # "none", NEW p \in Payment,
             \/ \E a \in 1 .. terms[c].amount :
                  \/ \E e \in Evidence : SubmitPayment(c, p, e, a)
                  \/ \E k \in CashKey : RecordCashPayment(c, p, k, a)
                  \/ ApprovePayment(c, p, a)
             \/ RejectPayment(c, p)
      PROVE  \A d \in Cycle : Balanced(d)'
  <2>1. 1 .. terms[c].amount \subseteq Nat
    BY <1>1, <1>7, OwedType
  <2>2. QED
    BY <1>7, <2>1, SubmittedBalanced, CashBalanced, ApprovedBalanced, RejectedBalanced
<1>8. QED
  BY <1>2, <1>3, <1>4, <1>5, <1>6, <1>7, StepCases

LEMMA BalancedInvariant == Spec => []BalancedInv
<1>1. Init => BalancedInv
  <2> SUFFICES ASSUME Init, NEW c \in Cycle PROVE IInv /\ Balanced(c)
    BY InitInv DEF BalancedInv
  <2>1. IInv /\ status[c] = "none" /\ Paid(c) = {}
    BY InitInv DEF Init, Paid, Rows
  <2>2. QED
    BY <2>1 DEF Balanced
<1>2. BalancedInv /\ [Next]_vars => BalancedInv'
  <2> SUFFICES ASSUME BalancedInv, [Next]_vars PROVE BalancedInv'
    OBVIOUS
  <2>1. IInv'
    BY StepInv DEF BalancedInv
  <2>2. TypeOK'
    BY <2>1 DEF IInv
  <2>3. QED
    BY <2>1, <2>2, StepBalanced DEF BalancedInv
<1>3. QED
  BY <1>1, <1>2, PTL DEF Spec

(* A bill is paid exactly when the confirmed payments come to its amount, and never
   more is collected than it amounts to, whatever is paid in cash and by transfer,
   rejected, reopened and corrected in between. *)
THEOREM ExactSettlement == Spec => []SettlementIsExact
BY BalancedInvariant, BalancedMeaning, PTL

-----------------------------------------------------------------------------
(* THE MONTHLY RUN *)

-----------------------------------------------------------------------------
(* Types of the runs *)

RunTypeOK ==
  /\ job \in [Energy -> {"none", "pending", "blocked", "done"}]
  /\ replica \in [Replica -> Run]
  /\ \A r \in Replica : replica[r].at \notin {"idle", "next"} => replica[r].bill # NoBill
  /\ faults \in 0 .. MaxFaults

LEMMA IdleType == Idle \in Run
BY DEF Idle, Run

LEMMA AfterType ==
  ASSUME NEW s
  PROVE  After(s) \in {"calculate", "check", "prepare"}
BY DEF After

(* The bill a run is at is an energy bill. *)
LEMMA BillType ==
  ASSUME RunTypeOK, NEW r \in Replica, replica[r].at \notin {"idle", "next"}
  PROVE  replica[r].bill \in Energy /\ replica[r].bill \in Cycle
BY DEF RunTypeOK, Run, Energy

(* Going on with the same bill. *)
LEMMA GoToType ==
  ASSUME RunTypeOK, NEW r \in Replica, replica[r].at \notin {"idle", "next"},
         NEW at \in {"next", "calculate", "check", "prepare", "close", "failed"}, GoTo(r, at)
  PROVE  /\ replica' \in [Replica -> Run]
         /\ \A q \in Replica : replica'[q].at \notin {"idle", "next"} => replica'[q].bill # NoBill
<1> DEFINE run == [replica[r] EXCEPT !.at = at]
<1>1. replica[r] \in Run /\ replica[r].bill # NoBill
  BY DEF RunTypeOK
<1>2. run \in Run /\ run.bill = replica[r].bill
  BY <1>1 DEF Run
<1>3. replica' = [replica EXCEPT ![r] = run]
  BY DEF GoTo
<1> HIDE DEF run
<1>4. QED
  BY <1>1, <1>2, <1>3 DEF RunTypeOK

(* Starting afresh. *)
LEMMA RestType ==
  ASSUME RunTypeOK, NEW r \in Replica, NEW run \in Run,
         run.at \in {"idle", "next"} \/ run.bill # NoBill,
         replica' = [replica EXCEPT ![r] = run]
  PROVE  /\ replica' \in [Replica -> Run]
         /\ \A q \in Replica : replica'[q].at \notin {"idle", "next"} => replica'[q].bill # NoBill
BY DEF RunTypeOK

LEMMA JobType ==
  ASSUME RunTypeOK, NEW c \in Energy, NEW s \in {"pending", "blocked", "done"},
         job' = [job EXCEPT ![c] = s]
  PROVE  job' \in [Energy -> {"none", "pending", "blocked", "done"}]
BY DEF RunTypeOK

LEMMA TickType ==
  ASSUME RunTypeOK, NEW r \in Replica, NEW month \in Energy, NEW later \in SUBSET Blocked,
         Tick(r, month, later)
  PROVE  RunTypeOK'
<1> DEFINE jobs == [job EXCEPT ![month] = IF @ = "none" THEN "pending" ELSE @]
           run == [at |-> "next", todo |-> Waiting(jobs) \ later, bill |-> NoBill]
<1>1. jobs \in [Energy -> {"none", "pending", "blocked", "done"}]
  BY DEF RunTypeOK
<1>2. Waiting(jobs) \ later \in SUBSET Energy
  BY DEF Waiting
<1>3. run \in Run /\ run.at = "next"
  BY <1>2 DEF Run
<1>4. job' = jobs /\ replica' = [replica EXCEPT ![r] = run] /\ faults' = faults
  BY DEF Tick
<1> HIDE DEF jobs, run
<1>5. QED
  BY <1>1, <1>3, <1>4, RestType DEF RunTypeOK

LEMMA ReadBillType ==
  ASSUME RunTypeOK, NEW r \in Replica, NEW c \in Energy, ReadBill(r, c)
  PROVE  RunTypeOK'
<1> DEFINE run == [at |-> After(status[c]), todo |-> replica[r].todo \ {c}, bill |-> c]
<1>1. replica[r] \in Run
  BY DEF RunTypeOK
<1>2. replica[r].todo \ {c} \in SUBSET Energy
  BY <1>1 DEF Run
<1>3. After(status[c]) \in {"calculate", "check", "prepare"}
  BY AfterType
<1>4. run \in Run /\ run.bill # NoBill
  BY <1>2, <1>3, MonthAssumption DEF Run, Energy
<1>5. replica' = [replica EXCEPT ![r] = run] /\ job' = job /\ faults' = faults
  BY DEF ReadBill
<1> HIDE DEF run
<1>6. QED
  BY <1>4, <1>5, RestType DEF RunTypeOK

LEMMA MonthlyType ==
  ASSUME RunTypeOK, NEW r \in Replica, Monthly(r)
  PROVE  RunTypeOK'
<1>1. CASE \E c \in Energy : ReadBill(r, c)
  BY <1>1, ReadBillType
<1>2. CASE CalculateBill(r)
  <2>1. After(status'[replica[r].bill]) \in {"calculate", "check", "prepare"}
    BY AfterType
  <2>2. QED
    BY <1>2, <2>1, GoToType DEF CalculateBill, RunTypeOK
<1>3. CASE CheckCurrent(r)
  BY <1>3, GoToType DEF CheckCurrent, RunTypeOK
<1>4. CASE PrepareBill(r)
  BY <1>4, GoToType DEF PrepareBill, RunTypeOK
<1>5. CASE Close(r)
  <2>1. replica[r].bill \in Energy
    BY <1>5, BillType DEF Close
  <2>2. QED
    BY <1>5, <2>1, GoToType, JobType DEF Close, RunTypeOK
<1>6. CASE Block(r)
  <2>1. replica[r].bill \in Energy
    BY <1>6, BillType DEF Block
  <2>2. job' \in [Energy -> {"none", "pending", "blocked", "done"}]
    BY <1>6, <2>1 DEF Block, RunTypeOK
  <2>3. QED
    BY <1>6, <2>2, GoToType DEF Block, RunTypeOK
<1>7. CASE EndRun(r)
  BY <1>7, IdleType, RestType DEF EndRun, RunTypeOK, Idle
<1>8. QED
  BY <1>1, <1>2, <1>3, <1>4, <1>5, <1>6, <1>7 DEF Monthly

LEMMA StepRunType ==
  ASSUME RunTypeOK, [MonthNext]_monthVars
  PROVE  RunTypeOK'
<1>1. CASE Staff \/ UNCHANGED monthVars
  BY <1>1 DEF Staff, monthVars, runVars, RunTypeOK
<1>2. ASSUME NEW r \in Replica,
             \E month \in Energy, later \in SUBSET Blocked : Tick(r, month, later)
      PROVE  RunTypeOK'
  BY <1>2, TickType
<1>3. ASSUME NEW r \in Replica, Monthly(r)
      PROVE  RunTypeOK'
  BY <1>3, MonthlyType
<1>4. ASSUME NEW r \in Replica, CallFails(r)
      PROVE  RunTypeOK'
  <2>1. faults' \in 0 .. MaxFaults
    BY <1>4, MonthAssumption DEF CallFails, RunTypeOK
  <2>2. QED
    BY <1>4, <2>1, GoToType DEF CallFails, RunTypeOK
<1>5. ASSUME NEW r \in Replica, Crash(r)
      PROVE  RunTypeOK'
  <2>1. faults' \in 0 .. MaxFaults
    BY <1>5, MonthAssumption DEF Crash, RunTypeOK
  <2>2. QED
    BY <1>5, <2>1, IdleType, RestType DEF Crash, RunTypeOK, Idle
<1>6. QED
  BY <1>1, <1>2, <1>3, <1>4, <1>5 DEF MonthNext

LEMMA InitRunType == MonthInit => RunTypeOK
BY IdleType, MonthAssumption DEF MonthInit, RunTypeOK, Idle

-----------------------------------------------------------------------------
(* Refinement *)

LEMMA CalculateStep ==
  ASSUME NEW c \in Cycle, NEW a \in Amount, Calculate(c, a)
  PROVE  Next
BY DEF Next, Draw

LEMMA PrepareStep ==
  ASSUME NEW c \in Cycle, PrepareInvoice(c)
  PROVE  Next
BY DEF Next, Draw

(* What a replica does is an operation of BillingCycle or leaves the bills
   alone, whatever it read before. *)
LEMMA StepRefines ==
  ASSUME RunTypeOK, [MonthNext]_monthVars
  PROVE  [Next]_vars
<1>1. CASE Staff \/ UNCHANGED monthVars
  BY <1>1 DEF Staff, monthVars
<1>2. ASSUME NEW r \in Replica, CalculateBill(r)
      PROVE  [Next]_vars
  <2>1. replica[r].bill \in Cycle
    BY <1>2, BillType DEF CalculateBill
  <2>2. QED
    BY <1>2, <2>1, CalculateStep DEF CalculateBill
<1>3. ASSUME NEW r \in Replica, PrepareBill(r)
      PROVE  [Next]_vars
  <2>1. replica[r].bill \in Cycle
    BY <1>3, BillType DEF PrepareBill
  <2>2. QED
    BY <1>3, <2>1, PrepareStep DEF PrepareBill
<1>4. ASSUME NEW r \in Replica,
             \/ \E month \in Energy, later \in SUBSET Blocked : Tick(r, month, later)
             \/ \E c \in Energy : ReadBill(r, c)
             \/ CheckCurrent(r) \/ Close(r) \/ Block(r) \/ EndRun(r)
             \/ CallFails(r) \/ Crash(r)
      PROVE  UNCHANGED vars
  BY <1>4 DEF Tick, ReadBill, CheckCurrent, Close, Block, EndRun, CallFails, Crash
<1>5. QED
  BY <1>1, <1>2, <1>3, <1>4 DEF MonthNext, Monthly

LEMMA RunTypes == MonthSpec => []RunTypeOK
BY InitRunType, StepRunType, PTL DEF MonthSpec

(* The monthly run, by any number of replicas and with any failures, implements
   the rules of bills. *)
THEOREM MonthlyRunRefinesBilling == MonthSpec => OnlyBillingSteps
<1>1. MonthInit => Init
  BY DEF MonthInit
<1>2. RunTypeOK /\ [MonthNext]_monthVars => [Next]_vars
  BY StepRefines
<1>3. QED
  BY <1>1, <1>2, RunTypes, PTL DEF MonthSpec, OnlyBillingSteps, Spec

(* Types of the whole state. *)
THEOREM MonthTypeCorrect == MonthSpec => []MonthTypeOK
<1>1. MonthTypeOK <=> TypeOK /\ RunTypeOK
  BY DEF MonthTypeOK, RunTypeOK
<1>2. MonthSpec => Spec
  BY MonthlyRunRefinesBilling DEF OnlyBillingSteps
<1>3. QED
  BY <1>1, <1>2, RunTypes, TypeCorrect, PTL

(* With the monthly run as well, a bill that can be paid has one invoice in
   force and it states the bill. *)
THEOREM MonthlyInvoiceInForce == MonthSpec => []CurrentInvoiceStatesTheBill
<1>1. MonthSpec => Spec
  BY MonthlyRunRefinesBilling DEF OnlyBillingSteps
<1>2. QED
  BY <1>1, InvoiceInForce, PTL

(* Whatever replicas and staff do at once, the status of a bill agrees with the
   money collected for it, and its terms are frozen once money moves. *)
THEOREM MonthlySettlement ==
  MonthSpec => []SettlementIsExact /\ FrozenOnceMoneyMoves
<1>1. MonthSpec => Spec
  BY MonthlyRunRefinesBilling DEF OnlyBillingSteps
<1>2. QED
  BY <1>1, ExactSettlement, FrozenBills, PTL

-----------------------------------------------------------------------------
(* Completed jobs *)

Final == \A c \in Energy : job[c] = "done" => job'[c] = "done"

LEMMA StepFinal ==
  ASSUME RunTypeOK, [MonthNext]_monthVars
  PROVE  Final
<1>1. ASSUME job' = job
      PROVE  Final
  BY <1>1 DEF Final
<1>2. ASSUME NEW r \in Replica, NEW month \in Energy, NEW later \in SUBSET Blocked,
             Tick(r, month, later)
      PROVE  Final
  BY <1>2 DEF Tick, Final, RunTypeOK
<1>3. ASSUME NEW r \in Replica, Close(r) \/ Block(r)
      PROVE  Final
  BY <1>3 DEF Close, Block, Final, RunTypeOK
<1>4. CASE Staff \/ UNCHANGED monthVars
  BY <1>1, <1>4 DEF Staff, monthVars, runVars
<1>5. ASSUME NEW r \in Replica,
             \/ \E c \in Energy : ReadBill(r, c)
             \/ CalculateBill(r) \/ CheckCurrent(r) \/ PrepareBill(r) \/ EndRun(r)
             \/ CallFails(r) \/ Crash(r)
      PROVE  job' = job
  BY <1>5 DEF ReadBill, CalculateBill, CheckCurrent, PrepareBill, EndRun, CallFails, Crash
<1>6. QED
  BY <1>1, <1>2, <1>3, <1>4, <1>5 DEF MonthNext, Monthly

(* A job that one replica completed is never reopened by another's failure. *)
THEOREM CompletedJobs == MonthSpec => DoneIsFinal
<1>1. RunTypeOK /\ [MonthNext]_monthVars => [Final]_monthVars
  BY StepFinal
<1>2. DoneIsFinal <=> [][Final]_monthVars
  BY PTL DEF DoneIsFinal, Final
<1>3. QED
  BY <1>1, <1>2, RunTypes, PTL DEF MonthSpec
=============================================================================
