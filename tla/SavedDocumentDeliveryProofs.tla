--------------------- MODULE SavedDocumentDeliveryProofs ---------------------
(* Theorems of SavedDocumentDelivery, for every number of callers, recipients,
   documents, faults and attempts.

   The promise is kept by the row: before the first mail of a document its row
   says "sending", and a row that says so, with a recipient not on record, is
   never taken up again.  The invariant relates each row to what the mail server
   took (DocumentInv) and each call to the row it works at (CallInv); a call that
   lost its session while a mail was under way keeps its document apart from
   those of all other calls (Apart). *)
EXTENDS SavedDocumentDelivery, TLAPS

-----------------------------------------------------------------------------
(* The invariant *)

DocumentInv(d) ==
  /\ \A u \in Recipient : accepted[d][u] \in {0, 1}
  /\ \A u \in outbox[d].delivered : accepted[d][u] = 1
  /\ outbox[d].state \notin {"sending", "uncertain"} =>
       \A u \in Recipient : accepted[d][u] = 1 => u \in outbox[d].delivered
  /\ outbox[d].state = "sent" => outbox[d].delivered = Recipient
  /\ audit[d] = "completed" <=> outbox[d].state = "sent"
  /\ audit[d] = "none" => \A u \in Recipient : accepted[d][u] = 0

(* Under way with the mails of a document, with or without the lock. *)
Active(k) == call[k].at \in {"loop", "mail", "taken", "cut"}

CallInv(k) ==
  LET d == call[k].doc
      u == call[k].to
      left == call[k].left IN
  /\ call[k].at \notin {"idle", "cut"} => lock = k
  /\ call[k].at = "job" => d = 0
  /\ call[k].at \in {"job", "loop", "mail", "taken"} =>
       \A e \in call[k].todo : e # d => call[k].seen[e] = outbox[e]
  /\ Active(k) => d \in Document /\ outbox[d].state = "sending" /\ audit[d] # "none"
  /\ call[k].at \in {"loop", "mail", "taken"} =>
       \A v \in Recipient : v \in left <=> v \notin outbox[d].delivered
  /\ call[k].at \in {"loop", "mail"} => \A v \in left : accepted[d][v] = 0
  /\ call[k].at = "taken" => accepted[d][u] = 1 /\ \A v \in left : v # u => accepted[d][v] = 0
  /\ call[k].at \in {"mail", "taken"} => u \in left
  /\ call[k].at \in {"mail", "cut"} =>
       u \in Recipient /\ u \notin outbox[d].delivered /\ accepted[d][u] = 0

Apart == \A j, k \in Caller : j # k /\ Active(j) /\ Active(k) => call[j].doc # call[k].doc

IInv ==
  /\ TypeOK
  /\ \A d \in Document : DocumentInv(d)
  /\ \A k \in Caller : CallInv(k)
  /\ Apart

-----------------------------------------------------------------------------
(* Types *)

LEMMA NewRowType == NewRow \in Row
BY DeliveryAssumption DEF NewRow, Row

LEMMA IdleType == Idle \in Call /\ Idle.at = "idle"
BY NewRowType, DeliveryAssumption DEF Idle, Call

LEMMA InitInvariant == Init => IInv
<1> SUFFICES ASSUME Init PROVE IInv
  OBVIOUS
<1>1. TypeOK
  BY NewRowType, IdleType, DeliveryAssumption DEF Init, TypeOK
<1>2. \A d \in Document : DocumentInv(d)
  BY DEF Init, DocumentInv, NewRow
<1>3. \A k \in Caller : CallInv(k) /\ ~Active(k)
  BY IdleType DEF Init, CallInv, Active
<1>4. QED
  BY <1>1, <1>2, <1>3 DEF IInv, Apart

(* A row whose state changes. *)
LEMMA RowState ==
  ASSUME TypeOK, NEW d \in Document,
         NEW s \in {"pending", "sending", "sent", "failed", "uncertain"},
         outbox' = [outbox EXCEPT ![d].state = s]
  PROVE  /\ outbox' \in [Document -> Row]
         /\ outbox'[d].state = s /\ outbox'[d].delivered = outbox[d].delivered
         /\ \A e \in Document : e # d => outbox'[e] = outbox[e]
<1>1. outbox \in [Document -> Row] /\ outbox[d] \in Row
  BY DEF TypeOK
<1> DEFINE row == [outbox[d] EXCEPT !.state = s]
<1>2. row \in Row /\ row.state = s /\ row.delivered = outbox[d].delivered
  BY <1>1 DEF Row
<1>3. outbox' = [outbox EXCEPT ![d] = row]
  OBVIOUS
<1> HIDE DEF row
<1>4. QED
  BY <1>1, <1>2, <1>3

(* A call goes to another point, or is over. *)
LEMMA CallType ==
  ASSUME TypeOK, NEW k \in Caller, NEW c \in Call, call' = [call EXCEPT ![k] = c]
  PROVE  /\ call' \in [Caller -> Call] /\ call'[k] = c
         /\ \A j \in Caller : j # k => call'[j] = call[j]
BY DEF TypeOK

LEMMA LeaveFacts ==
  ASSUME TypeOK, NEW k \in Caller, Leave(k)
  PROVE  /\ call' \in [Caller -> Call] /\ call'[k] = Idle
         /\ \A j \in Caller : j # k => call'[j] = call[j]
         /\ lock' \in Caller \cup {NoCaller}
BY IdleType, CallType DEF Leave

(* The mail server takes the mail of a call. *)
LEMMA TakeFacts ==
  ASSUME TypeOK, NEW k \in Caller, call[k].doc \in Document, call[k].to \in Recipient, Take(k)
  PROVE  /\ accepted' \in [Document -> [Recipient -> Nat]]
         /\ accepted'[call[k].doc][call[k].to] = accepted[call[k].doc][call[k].to] + 1
         /\ \A v \in Recipient : v # call[k].to =>
              accepted'[call[k].doc][v] = accepted[call[k].doc][v]
         /\ \A e \in Document : e # call[k].doc => accepted'[e] = accepted[e]
<1> DEFINE d == call[k].doc
           u == call[k].to
           row == [accepted[d] EXCEPT ![u] = @ + 1]
<1>1. accepted \in [Document -> [Recipient -> Nat]] /\ accepted[d] \in [Recipient -> Nat]
  BY DEF TypeOK
<1>2. row \in [Recipient -> Nat] /\ row[u] = accepted[d][u] + 1
      /\ \A v \in Recipient : v # u => row[v] = accepted[d][v]
  BY <1>1
<1>3. accepted' = [accepted EXCEPT ![d] = row]
  BY DEF Take
<1> HIDE DEF row
<1>4. QED
  BY <1>1, <1>2, <1>3

-----------------------------------------------------------------------------
(* What a step of one call leaves alone *)

(* A holder of the lock changes one document, at which no other call is. *)
LEMMA OthersKept ==
  ASSUME IInv, NEW k \in Caller, NEW d, lock = k,
         \A j \in Caller : j # k => call'[j] = call[j],
         \A e \in Document : e # d =>
           outbox'[e] = outbox[e] /\ accepted'[e] = accepted[e] /\ audit'[e] = audit[e],
         \A j \in Caller : j # k /\ Active(j) => call[j].doc # d
  PROVE  /\ \A e \in Document : e # d => DocumentInv(e)'
         /\ \A j \in Caller : j # k => CallInv(j)'
<1>1. \A e \in Document : e # d => DocumentInv(e)'
  BY DEF IInv, DocumentInv
<1>2. ASSUME NEW j \in Caller, j # k
      PROVE  CallInv(j)'
  <2>1. CallInv(j) /\ call[j].at \in {"idle", "cut"} /\ call'[j] = call[j]
    BY <1>2 DEF IInv, CallInv, TypeOK, Call
  <2>2. CASE call[j].at = "idle"
    BY <2>1, <2>2 DEF CallInv, Active
  <2>3. CASE call[j].at = "cut"
    <3>1. call[j].doc \in Document /\ call[j].doc # d
      BY <1>2, <2>1, <2>3 DEF CallInv, Active
    <3>2. QED
      BY <2>1, <2>3, <3>1 DEF CallInv, Active
  <2>4. QED
    BY <2>1, <2>2, <2>3
<1>3. QED
  BY <1>1, <1>2

(* Nobody else is at the document a call is at. *)
LEMMA Alone ==
  ASSUME IInv, NEW k \in Caller, Active(k)
  PROVE  \A j \in Caller : j # k /\ Active(j) => call[j].doc # call[k].doc
BY DEF IInv, Apart

(* Nobody is at a document that the holder of the lock does not refuse. *)
LEMMA NobodyAt ==
  ASSUME IInv, NEW k \in Caller, lock = k, call[k].at = "job",
         NEW d \in Document, ~Refused(outbox[d])
  PROVE  \A j \in Caller : Active(j) => call[j].doc # d
<1> SUFFICES ASSUME NEW j \in Caller, Active(j), call[j].doc = d PROVE FALSE
  OBVIOUS
<1>1. CallInv(j) /\ j # k
  BY DEF IInv, Active
<1>2. call[j].at = "cut"
  BY <1>1 DEF CallInv, Active
<1>3. outbox[d].state = "sending" /\ call[j].to \in Recipient
      /\ call[j].to \notin outbox[d].delivered
  BY <1>1, <1>2 DEF CallInv, Active
<1>4. QED
  BY <1>3 DEF Refused, Confirmed

(* A step after which the call is nowhere, or where it was. *)
LEMMA ApartKept ==
  ASSUME IInv, NEW k \in Caller,
         \A j \in Caller : j # k => call'[j] = call[j],
         Active(k)' => Active(k) /\ call'[k].doc = call[k].doc
  PROVE  Apart'
BY DEF IInv, Apart, Active

(* The row a call at "job" looks at is the row as it is. *)
LEMMA SeenIsCurrent ==
  ASSUME IInv, NEW k \in Caller, NEW d \in Document, call[k].at = "job", First(k, d)
  PROVE  lock = k /\ call[k].seen[d] = outbox[d] /\ call[k].doc = 0 /\ d # 0
BY DEF IInv, CallInv, First, Document

-----------------------------------------------------------------------------
(* Steps *)

(* The call is over and no row has changed, or only that of one document. *)
LEMMA IdleCall ==
  ASSUME NEW k \in Caller, call'[k] = Idle
  PROVE  CallInv(k)' /\ ~Active(k)'
BY IdleType DEF CallInv, Active

LEMMA IssueInvariant ==
  ASSUME IInv, NEW old \in SUBSET (1 .. issued), Issue(old)
  PROVE  IInv'
<1>1. TypeOK'
  BY DeliveryAssumption DEF IInv, Issue, TypeOK
<1>2. UNCHANGED <<outbox, audit, lock, call, accepted, faults>>
  BY DEF Issue
<1>3. /\ \A d \in Document : DocumentInv(d)'
      /\ \A k \in Caller : CallInv(k)'
  BY <1>2 DEF IInv, DocumentInv, CallInv, Active
<1>4. Apart'
  BY <1>2 DEF IInv, Apart, Active
<1>5. QED
  BY <1>1, <1>3, <1>4 DEF IInv

LEMMA SendInvariant ==
  ASSUME IInv, NEW k \in Caller, Send(k)
  PROVE  IInv'
<1> DEFINE c == [Idle EXCEPT !.at = "select"]
<1>1. c \in Call /\ c.at = "select"
  BY IdleType DEF Call
<1>2. TypeOK /\ call' = [call EXCEPT ![k] = c]
  BY DEF IInv, Send
<1> HIDE DEF c
<1>3. call' \in [Caller -> Call] /\ call'[k] = c
      /\ \A j \in Caller : j # k => call'[j] = call[j]
  BY <1>1, <1>2, CallType
<1>4. TypeOK'
  BY <1>3 DEF IInv, TypeOK, Send, billVars
<1>5. CallInv(k)' /\ ~Active(k)'
  BY <1>1, <1>3 DEF CallInv, Active, Send
<1>6. ASSUME NEW j \in Caller, j # k PROVE CallInv(j)'
  <2>1. CallInv(j) /\ call'[j] = call[j]
    BY <1>3, <1>6 DEF IInv
  <2>2. call[j].at \in {"idle", "cut"}
    BY <2>1, DeliveryAssumption DEF CallInv, Send
  <2>3. QED
    BY <2>1, <2>2 DEF CallInv, Active, Send
<1>7. Apart'
  BY <1>3, <1>5, ApartKept
<1>8. QED
  BY <1>4, <1>5, <1>6, <1>7 DEF IInv, Send, DocumentInv

LEMMA SelectJobsInvariant ==
  ASSUME IInv, NEW k \in Caller, SelectJobs(k)
  PROVE  IInv'
<1> DEFINE c == [Idle EXCEPT !.at = "job", !.todo = (1 .. issued) \ superseded, !.seen = outbox]
<1>1. c \in Call /\ c.at = "job" /\ c.seen = outbox /\ c.doc = 0
  <2>1. (1 .. issued) \ superseded \in SUBSET Document /\ outbox \in [Document -> Row]
    BY DeliveryAssumption DEF IInv, TypeOK, Document
  <2>2. QED
    BY <2>1, IdleType DEF Call, Idle
<1>2. TypeOK /\ call' = [call EXCEPT ![k] = c] /\ lock = k
  BY DEF IInv, SelectJobs, CallInv
<1> HIDE DEF c
<1>3. call' \in [Caller -> Call] /\ call'[k] = c
      /\ \A j \in Caller : j # k => call'[j] = call[j]
  BY <1>1, <1>2, CallType
<1>4. TypeOK'
  BY <1>3 DEF IInv, TypeOK, SelectJobs, billVars
<1>5. CallInv(k)' /\ ~Active(k)'
  BY <1>1, <1>2, <1>3 DEF CallInv, Active, SelectJobs
<1>6. /\ \A e \in Document : e # 0 => DocumentInv(e)'
      /\ \A j \in Caller : j # k => CallInv(j)'
  <2>1. \A j \in Caller : j # k /\ Active(j) => call[j].doc # 0
    BY DEF IInv, CallInv, Document
  <2>2. QED
    BY <1>2, <1>3, <2>1, OthersKept DEF SelectJobs
<1>7. Apart'
  BY <1>3, <1>5, ApartKept
<1>8. QED
  BY <1>4, <1>5, <1>6, <1>7 DEF IInv, Document

(* The call ends without another change. *)
LEMMA LeaveInvariant ==
  ASSUME IInv, NEW k \in Caller, lock = k, Leave(k),
         UNCHANGED <<billVars, outbox, audit, accepted, faults>>
  PROVE  IInv'
<1>1. /\ call' \in [Caller -> Call] /\ call'[k] = Idle
      /\ \A j \in Caller : j # k => call'[j] = call[j]
      /\ lock' \in Caller \cup {NoCaller}
  BY LeaveFacts DEF IInv
<1>2. CallInv(k)' /\ ~Active(k)'
  BY <1>1, IdleCall
<1>3. /\ \A e \in Document : e # 0 => DocumentInv(e)'
      /\ \A j \in Caller : j # k => CallInv(j)'
  <2>1. \A j \in Caller : j # k /\ Active(j) => call[j].doc # 0
    BY DEF IInv, CallInv, Document
  <2>2. QED
    BY <1>1, <2>1, OthersKept
<1>4. Apart'
  BY <1>1, <1>2, ApartKept
<1>5. QED
  BY <1>1, <1>2, <1>3, <1>4 DEF IInv, Document, TypeOK, billVars

LEMMA ReconcileInvariant ==
  ASSUME IInv, NEW k \in Caller, NEW d \in Document, Reconcile(k, d)
  PROVE  IInv'
<1>1. lock = k /\ call[k].seen[d] = outbox[d] /\ call[k].doc = 0 /\ d # 0 /\ call[k].at = "job"
  BY SeenIsCurrent DEF Reconcile
<1>2. ~Refused(outbox[d]) /\ Concluded(outbox[d]) /\ TypeOK /\ CallInv(k) /\ DocumentInv(d)
  BY <1>1 DEF Reconcile, IInv
<1>3. \A j \in Caller : Active(j) => call[j].doc # d
  BY <1>1, <1>2, NobodyAt
<1>4. /\ outbox' \in [Document -> Row]
      /\ outbox'[d].state = "sent" /\ outbox'[d].delivered = outbox[d].delivered
      /\ \A e \in Document : e # d => outbox'[e] = outbox[e]
  BY <1>2, RowState DEF Reconcile, Complete
<1> DEFINE c == [call[k] EXCEPT !.todo = @ \ {d}]
<1>5. c \in Call /\ c.at = "job" /\ c.doc = 0 /\ c.seen = call[k].seen /\ c.todo = call[k].todo \ {d}
  BY <1>1, <1>2 DEF TypeOK, Call
<1>6. call' = [call EXCEPT ![k] = c]
  BY DEF Reconcile
<1> HIDE DEF c
<1>7. call' \in [Caller -> Call] /\ call'[k] = c
      /\ \A j \in Caller : j # k => call'[j] = call[j]
  BY <1>2, <1>5, <1>6, CallType
<1>8. TypeOK'
  BY <1>4, <1>7 DEF IInv, TypeOK, Reconcile, Complete, billVars
<1>9. CallInv(k)' /\ ~Active(k)'
  BY <1>1, <1>2, <1>4, <1>5, <1>7 DEF CallInv, Active, Reconcile, TypeOK, Call
<1>10. audit'[d] = "completed" /\ \A e \in Document : e # d => audit'[e] = audit[e]
  BY <1>2 DEF Reconcile, Complete, TypeOK
<1>11. DocumentInv(d)'
  <2>1. outbox[d].delivered = Recipient
    BY <1>2 DEF DocumentInv, Concluded, Confirmed, TypeOK, Row
  <2>2. QED
    BY <1>2, <1>4, <1>10, <2>1 DEF DocumentInv, Reconcile
<1>12. /\ \A e \in Document : e # d => DocumentInv(e)'
       /\ \A j \in Caller : j # k => CallInv(j)'
  BY <1>1, <1>3, <1>4, <1>7, <1>10, OthersKept DEF Reconcile
<1>13. Apart'
  BY <1>7, <1>9, ApartKept
<1>14. QED
  BY <1>8, <1>9, <1>11, <1>12, <1>13 DEF IInv

LEMMA IneligibleInvariant ==
  ASSUME IInv, NEW k \in Caller, NEW d \in Document, Ineligible(k, d)
  PROVE  IInv'
<1>1. lock = k /\ call[k].seen[d] = outbox[d] /\ call[k].doc = 0 /\ d # 0 /\ call[k].at = "job"
  BY SeenIsCurrent DEF Ineligible
<1>2. ~Refused(outbox[d]) /\ ~Concluded(outbox[d]) /\ TypeOK /\ DocumentInv(d)
  BY <1>1 DEF Ineligible, IInv
<1>3. \A j \in Caller : Active(j) => call[j].doc # d
  BY <1>1, <1>2, NobodyAt
<1>4. /\ outbox' \in [Document -> Row]
      /\ outbox'[d].state = "failed" /\ outbox'[d].delivered = outbox[d].delivered
      /\ \A e \in Document : e # d => outbox'[e] = outbox[e]
  BY <1>2, RowState DEF Ineligible
<1>5. /\ call' \in [Caller -> Call] /\ call'[k] = Idle
      /\ \A j \in Caller : j # k => call'[j] = call[j]
      /\ lock' \in Caller \cup {NoCaller}
  BY <1>2, LeaveFacts DEF Ineligible
<1>6. TypeOK'
  BY <1>4, <1>5, DeliveryAssumption DEF IInv, TypeOK, Ineligible, billVars
<1>7. CallInv(k)' /\ ~Active(k)'
  BY <1>5, IdleCall
<1>8. DocumentInv(d)'
  BY <1>2, <1>4 DEF DocumentInv, Ineligible, Refused, Concluded, Confirmed
<1>9. /\ \A e \in Document : e # d => DocumentInv(e)'
      /\ \A j \in Caller : j # k => CallInv(j)'
  BY <1>1, <1>3, <1>4, <1>5, OthersKept DEF Ineligible
<1>10. Apart'
  BY <1>5, <1>7, ApartKept
<1>11. QED
  BY <1>6, <1>7, <1>8, <1>9, <1>10 DEF IInv

(* Only a row that is not at its budget, and of which no mail can be out that is
   not on record, becomes "sending". *)
LEMMA BeginInvariant ==
  ASSUME IInv, NEW k \in Caller, NEW d \in Document, Begin(k, d)
  PROVE  IInv'
<1>1. lock = k /\ call[k].seen[d] = outbox[d] /\ call[k].doc = 0 /\ d # 0 /\ call[k].at = "job"
  BY SeenIsCurrent DEF Begin
<1>2. ~Refused(outbox[d]) /\ ~Concluded(outbox[d]) /\ TypeOK /\ DocumentInv(d) /\ CallInv(k)
  BY <1>1 DEF Begin, IInv
<1>3. \A j \in Caller : Active(j) => call[j].doc # d
  BY <1>1, <1>2, NobodyAt
<1> DEFINE row == [outbox[d] EXCEPT !.state = "sending", !.attempts = @ + 1]
<1>4. outbox[d] \in Row /\ outbox \in [Document -> Row]
  BY <1>2 DEF TypeOK
<1>5. row \in Row /\ row.state = "sending" /\ row.delivered = outbox[d].delivered
  <2>1. outbox[d].attempts + 1 \in 0 .. RetryBudget
    BY <1>2, <1>4, DeliveryAssumption DEF Row, Refused, Concluded, Confirmed
  <2>2. QED
    BY <1>4, <2>1 DEF Row
<1>6. outbox' = [outbox EXCEPT ![d] = row]
  BY DEF Begin
<1> HIDE DEF row
<1>7. /\ outbox' \in [Document -> Row]
      /\ outbox'[d].state = "sending" /\ outbox'[d].delivered = outbox[d].delivered
      /\ \A e \in Document : e # d => outbox'[e] = outbox[e]
  BY <1>4, <1>5, <1>6
<1> DEFINE c == [call[k] EXCEPT !.at = "loop", !.doc = d, !.left = Recipient \ outbox[d].delivered]
<1>8. /\ c \in Call /\ c.at = "loop" /\ c.doc = d /\ c.left = Recipient \ outbox[d].delivered
      /\ c.seen = call[k].seen /\ c.todo = call[k].todo
  BY <1>2 DEF TypeOK, Call
<1>9. call' = [call EXCEPT ![k] = c]
  BY <1>1 DEF Begin
<1> HIDE DEF c
<1>10. call' \in [Caller -> Call] /\ call'[k] = c
       /\ \A j \in Caller : j # k => call'[j] = call[j]
  BY <1>2, <1>8, <1>9, CallType
<1>11. /\ audit' \in [Document -> {"none", "started", "completed"}]
       /\ audit'[d] = "started"
       /\ \A e \in Document : e # d => audit'[e] = audit[e]
  <2>1. audit[d] # "completed"
    BY <1>2 DEF DocumentInv, Concluded
  <2>2. QED
    BY <1>2, <2>1 DEF Begin, TypeOK
<1>12. TypeOK'
  BY <1>7, <1>10, <1>11 DEF IInv, TypeOK, Begin, billVars
<1>13. DocumentInv(d)'
  BY <1>2, <1>7, <1>11 DEF DocumentInv, Begin
<1>14. CallInv(k)'
  <2>1. \A v \in Recipient \ outbox[d].delivered : accepted[d][v] = 0
    BY <1>2 DEF DocumentInv, Refused, Concluded
  <2>2. \A e \in call[k].todo : e # d => call[k].seen[e] = outbox'[e]
    <3>1. \A e \in call[k].todo : e # 0 /\ e \in Document
      BY <1>2 DEF TypeOK, Call, Document
    <3>2. \A e \in call[k].todo : call[k].seen[e] = outbox[e]
      BY <1>1, <1>2, <3>1 DEF CallInv
    <3>3. QED
      BY <1>7, <3>1, <3>2
  <2>3. accepted' = accepted /\ lock' = k /\ outbox[d].delivered \subseteq Recipient
    BY <1>1, <1>4 DEF Begin, Row
  <2>4. QED
    BY <1>7, <1>8, <1>10, <1>11, <2>1, <2>2, <2>3 DEF CallInv, Active
<1>15. /\ \A e \in Document : e # d => DocumentInv(e)'
       /\ \A j \in Caller : j # k => CallInv(j)'
  <2>1. accepted' = accepted
    BY DEF Begin
  <2>2. QED
    BY <1>1, <1>3, <1>7, <1>10, <1>11, <2>1, OthersKept
<1>16. Apart'
  BY <1>3, <1>8, <1>10 DEF IInv, Apart, Active
<1>17. QED
  BY <1>12, <1>13, <1>14, <1>15, <1>16 DEF IInv

LEMMA SendMailInvariant ==
  ASSUME IInv, NEW k \in Caller, NEW u \in Recipient, SendMail(k, u)
  PROVE  IInv'
<1> DEFINE c == [call[k] EXCEPT !.at = "mail", !.to = u]
<1>1. TypeOK /\ CallInv(k) /\ call[k].at = "loop" /\ Active(k) /\ lock = k
  BY DEF IInv, SendMail, CallInv, Active
<1>2. /\ c \in Call /\ c.at = "mail" /\ c.doc = call[k].doc /\ c.left = call[k].left
      /\ c.to = u /\ c.seen = call[k].seen /\ c.todo = call[k].todo
  BY <1>1 DEF TypeOK, Call
<1>3. call' = [call EXCEPT ![k] = c]
  BY DEF SendMail
<1> HIDE DEF c
<1>4. call' \in [Caller -> Call] /\ call'[k] = c
      /\ \A j \in Caller : j # k => call'[j] = call[j]
  BY <1>1, <1>2, <1>3, CallType
<1>5. TypeOK'
  BY <1>4 DEF IInv, TypeOK, SendMail, billVars
<1>6. CallInv(k)'
  BY <1>1, <1>2, <1>4 DEF CallInv, Active, SendMail
<1>7. /\ \A e \in Document : e # call[k].doc => DocumentInv(e)'
      /\ \A j \in Caller : j # k => CallInv(j)'
  BY <1>1, <1>4, Alone, OthersKept DEF SendMail
<1>8. \A e \in Document : DocumentInv(e)'
  BY DEF IInv, DocumentInv, SendMail
<1>9. Apart'
  BY <1>1, <1>2, <1>4, ApartKept
<1>10. QED
  BY <1>5, <1>6, <1>7, <1>8, <1>9 DEF IInv

(* Where a mail is under way it is the first to its recipient. *)
LEMMA MailFacts ==
  ASSUME IInv, NEW k \in Caller, call[k].at \in {"mail", "cut"}
  PROVE  /\ TypeOK /\ Active(k) /\ CallInv(k) /\ DocumentInv(call[k].doc)
         /\ call[k].doc \in Document /\ call[k].to \in Recipient
         /\ accepted[call[k].doc][call[k].to] = 0
         /\ outbox[call[k].doc].state = "sending" /\ audit[call[k].doc] # "none"
         /\ call[k].to \notin outbox[call[k].doc].delivered
<1>1. CallInv(k) /\ Active(k)
  BY DEF IInv, Active
<1>2. call[k].doc \in Document
  BY <1>1 DEF CallInv
<1>3. QED
  BY <1>1, <1>2 DEF IInv, CallInv

(* The server takes a mail: the row of its document says "sending". *)
LEMMA TakeInvariant ==
  ASSUME IInv, NEW k \in Caller, call[k].at \in {"mail", "cut"}, Take(k),
         outbox' = outbox, audit' = audit
  PROVE  /\ accepted' \in [Document -> [Recipient -> Nat]]
         /\ \A d \in Document : d = call[k].doc => DocumentInv(d)'
         /\ accepted'[call[k].doc][call[k].to] = 1
         /\ \A v \in Recipient : v # call[k].to =>
              accepted'[call[k].doc][v] = accepted[call[k].doc][v]
         /\ \A e \in Document : e # call[k].doc => accepted'[e] = accepted[e]
<1>1. /\ TypeOK /\ DocumentInv(call[k].doc) /\ call[k].doc \in Document
      /\ call[k].to \in Recipient /\ accepted[call[k].doc][call[k].to] = 0
      /\ outbox[call[k].doc].state = "sending" /\ audit[call[k].doc] # "none"
      /\ call[k].to \notin outbox[call[k].doc].delivered
  BY MailFacts
<1>2. /\ accepted' \in [Document -> [Recipient -> Nat]]
      /\ accepted'[call[k].doc][call[k].to] = accepted[call[k].doc][call[k].to] + 1
      /\ \A v \in Recipient : v # call[k].to =>
           accepted'[call[k].doc][v] = accepted[call[k].doc][v]
      /\ \A e \in Document : e # call[k].doc => accepted'[e] = accepted[e]
  BY <1>1, TakeFacts
<1>3. PICK d \in Document : d = call[k].doc
  BY <1>1
<1>4. PICK u \in Recipient : u = call[k].to
  BY <1>1
<1>5. accepted'[d][u] = 1 /\ \A v \in Recipient : v # u => accepted'[d][v] = accepted[d][v]
  BY <1>1, <1>2, <1>3, <1>4
<1>6. DocumentInv(d)'
  <2>1. outbox[d].delivered \subseteq Recipient
    BY <1>1 DEF TypeOK, Row
  <2>2. DocumentInv(d) /\ u \notin outbox[d].delivered /\ outbox[d].state = "sending"
        /\ audit[d] # "none"
    BY <1>1, <1>3, <1>4
  <2>3. QED
    BY <1>5, <2>1, <2>2 DEF DocumentInv
<1>7. QED
  BY <1>1, <1>2, <1>3, <1>6

LEMMA AcceptedInvariant ==
  ASSUME IInv, NEW k \in Caller, Accepted(k)
  PROVE  IInv'
<1> DEFINE c == [call[k] EXCEPT !.at = "taken"]
<1>1. TypeOK /\ CallInv(k) /\ call[k].at = "mail" /\ Active(k) /\ lock = k
  BY DEF IInv, Accepted, CallInv, Active
<1>2. /\ c \in Call /\ c.at = "taken" /\ c.doc = call[k].doc /\ c.left = call[k].left
      /\ c.to = call[k].to /\ c.seen = call[k].seen /\ c.todo = call[k].todo
  BY <1>1 DEF TypeOK, Call
<1>3. call' = [call EXCEPT ![k] = c]
  BY DEF Accepted
<1> HIDE DEF c
<1>4. call' \in [Caller -> Call] /\ call'[k] = c
      /\ \A j \in Caller : j # k => call'[j] = call[j]
  BY <1>1, <1>2, <1>3, CallType
<1>5. outbox' = outbox /\ audit' = audit /\ lock' = lock
  BY DEF Accepted
<1>6. /\ accepted' \in [Document -> [Recipient -> Nat]]
      /\ \A d \in Document : d = call[k].doc => DocumentInv(d)'
      /\ accepted'[call[k].doc][call[k].to] = 1
      /\ \A v \in Recipient : v # call[k].to =>
           accepted'[call[k].doc][v] = accepted[call[k].doc][v]
      /\ \A e \in Document : e # call[k].doc => accepted'[e] = accepted[e]
  BY <1>1, <1>5, TakeInvariant DEF Accepted
<1>7. TypeOK'
  BY <1>4, <1>6 DEF IInv, TypeOK, Accepted, billVars
<1>8. CallInv(k)'
  <2>1. call[k].left \subseteq Recipient
    BY <1>1 DEF TypeOK, Call
  <2>2. \A v \in call[k].left : v # call[k].to => accepted'[call[k].doc][v] = 0
    BY <1>1, <1>6, <2>1 DEF CallInv
  <2>3. QED
    BY <1>1, <1>2, <1>4, <1>5, <1>6, <2>2 DEF CallInv, Active
<1>9. /\ \A e \in Document : e # call[k].doc => DocumentInv(e)'
      /\ \A j \in Caller : j # k => CallInv(j)'
  <2>1. \A j \in Caller : j # k /\ Active(j) => call[j].doc # call[k].doc
    BY <1>1, Alone
  <2>2. \A e \in Document : e # call[k].doc =>
          outbox'[e] = outbox[e] /\ accepted'[e] = accepted[e] /\ audit'[e] = audit[e]
    BY <1>5, <1>6
  <2>3. PICK d \in Document : d = call[k].doc
    BY <1>1 DEF CallInv
  <2>4. QED
    BY <1>1, <1>4, <2>1, <2>2, <2>3, OthersKept
<1>10. Apart'
  BY <1>1, <1>2, <1>4, ApartKept
<1>11. QED
  BY <1>6, <1>7, <1>8, <1>9, <1>10 DEF IInv

LEMMA RecordInvariant ==
  ASSUME IInv, NEW k \in Caller, Record(k)
  PROVE  IInv'
<1>1. TypeOK /\ CallInv(k) /\ call[k].at = "taken" /\ Active(k) /\ lock = k
  BY DEF IInv, Record, CallInv, Active
<1>2. PICK d \in Document : d = call[k].doc
  BY <1>1 DEF CallInv
<1>3. call[k].left \subseteq Recipient /\ call[k].to \in call[k].left
  BY <1>1 DEF CallInv, TypeOK, Call
<1>4. PICK u \in Recipient : u = call[k].to
  BY <1>3
<1> DEFINE row == [outbox[d] EXCEPT !.delivered = @ \cup {u}]
<1>5. outbox[d] \in Row /\ outbox \in [Document -> Row]
  BY <1>1 DEF TypeOK
<1>6. row \in Row /\ row.state = outbox[d].state /\ row.delivered = outbox[d].delivered \cup {u}
  BY <1>5 DEF Row
<1>7. outbox' = [outbox EXCEPT ![d] = row]
  BY <1>2, <1>4 DEF Record
<1> HIDE DEF row
<1>8. /\ outbox' \in [Document -> Row]
      /\ outbox'[d].state = "sending" /\ outbox'[d].delivered = outbox[d].delivered \cup {u}
      /\ \A e \in Document : e # d => outbox'[e] = outbox[e]
  BY <1>1, <1>2, <1>5, <1>6, <1>7 DEF CallInv
<1> DEFINE c == [call[k] EXCEPT !.at = "loop", !.to = NoRecipient, !.left = @ \ {u}]
<1>9. /\ c \in Call /\ c.at = "loop" /\ c.doc = d /\ c.left = call[k].left \ {u}
      /\ c.seen = call[k].seen /\ c.todo = call[k].todo
  BY <1>1, <1>2 DEF TypeOK, Call
<1>10. call' = [call EXCEPT ![k] = c]
  BY <1>4 DEF Record
<1> HIDE DEF c
<1>11. call' \in [Caller -> Call] /\ call'[k] = c
       /\ \A j \in Caller : j # k => call'[j] = call[j]
  BY <1>1, <1>9, <1>10, CallType
<1>12. accepted' = accepted /\ audit' = audit /\ lock' = lock
  BY DEF Record
<1>13. TypeOK'
  BY <1>8, <1>11, <1>12 DEF IInv, TypeOK, Record, billVars
<1>14. accepted[d][u] = 1 /\ DocumentInv(d)
  BY <1>1, <1>2, <1>4 DEF CallInv, IInv
<1>15. DocumentInv(d)'
  <2>1. outbox[d].state = "sending"
    BY <1>1, <1>2 DEF CallInv, Active
  <2>2. QED
    BY <1>8, <1>12, <1>14, <2>1 DEF DocumentInv
<1>16. CallInv(k)'
  <2>1. \A e \in call[k].todo : e # d => e \in Document /\ call[k].seen[e] = outbox'[e]
    <3>1. call[k].todo \subseteq Document
      BY <1>1 DEF TypeOK, Call
    <3>2. \A e \in call[k].todo : e # d => call[k].seen[e] = outbox[e]
      BY <1>1, <1>2 DEF CallInv
    <3>3. QED
      BY <1>8, <3>1, <3>2
  <2>2. \A v \in Recipient : v \in c.left <=> v \notin outbox'[d].delivered
    BY <1>1, <1>2, <1>8, <1>9 DEF CallInv
  <2>3. \A v \in c.left : accepted'[d][v] = 0
    BY <1>1, <1>2, <1>4, <1>9, <1>12 DEF CallInv
  <2>4. audit[d] # "none"
    BY <1>1, <1>2 DEF CallInv
  <2>5. QED
    BY <1>1, <1>8, <1>9, <1>11, <1>12, <2>1, <2>2, <2>3, <2>4 DEF CallInv, Active
<1>17. /\ \A e \in Document : e # d => DocumentInv(e)'
       /\ \A j \in Caller : j # k => CallInv(j)'
  <2>1. \A j \in Caller : j # k /\ Active(j) => call[j].doc # d
    BY <1>1, <1>2, Alone
  <2>2. QED
    BY <1>1, <1>8, <1>11, <1>12, <2>1, OthersKept
<1>18. Apart'
  BY <1>1, <1>2, <1>9, <1>11, ApartKept
<1>19. QED
  BY <1>13, <1>15, <1>16, <1>17, <1>18 DEF IInv

(* A call ends with an error at a mail: not taken, and the row says "failed", or
   not known, and it says "uncertain". *)
LEMMA FailedMailInvariant ==
  ASSUME IInv, NEW k \in Caller, call[k].at = "mail", NEW s \in {"failed", "uncertain"},
         outbox' = [outbox EXCEPT ![call[k].doc].state = s],
         Leave(k), UNCHANGED <<billVars, audit, faults>>,
         UNCHANGED accepted \/ (s = "uncertain" /\ Take(k))
  PROVE  IInv'
<1>1. TypeOK /\ CallInv(k) /\ Active(k) /\ lock = k
  BY DEF IInv, CallInv, Active
<1>2. PICK d \in Document : d = call[k].doc
  BY <1>1 DEF CallInv
<1>3. PICK u \in Recipient : u = call[k].to
  BY <1>1 DEF CallInv
<1>4. /\ outbox' \in [Document -> Row]
      /\ outbox'[d].state = s /\ outbox'[d].delivered = outbox[d].delivered
      /\ \A e \in Document : e # d => outbox'[e] = outbox[e]
  BY <1>1, <1>2, RowState
<1>5. /\ call' \in [Caller -> Call] /\ call'[k] = Idle
      /\ \A j \in Caller : j # k => call'[j] = call[j]
      /\ lock' \in Caller \cup {NoCaller}
  BY <1>1, LeaveFacts
<1>6. DocumentInv(d) /\ outbox[d].state = "sending" /\ audit[d] # "none" /\ accepted[d][u] = 0
      /\ u \notin outbox[d].delivered /\ outbox[d].delivered \subseteq Recipient
  BY <1>1, <1>2, <1>3 DEF IInv, CallInv, TypeOK, Row
<1>7. /\ accepted' \in [Document -> [Recipient -> Nat]]
      /\ \A e \in Document : e # d => accepted'[e] = accepted[e]
      /\ accepted'[d][u] \in {0, 1}
      /\ \A v \in Recipient : v # u => accepted'[d][v] = accepted[d][v]
      /\ s = "failed" => accepted' = accepted
  <2>1. CASE UNCHANGED accepted
    BY <1>1, <1>6, <2>1 DEF TypeOK
  <2>2. CASE s = "uncertain" /\ Take(k)
    BY <1>1, <1>2, <1>3, <1>6, <2>2, TakeFacts
  <2>3. QED
    BY <2>1, <2>2
<1>8. TypeOK'
  BY <1>4, <1>5, <1>7 DEF IInv, TypeOK, billVars
<1>9. CallInv(k)' /\ ~Active(k)'
  BY <1>5, IdleCall
<1>10. DocumentInv(d)'
  <2>1. CASE s = "failed"
    <3>1. \A v \in Recipient : v \notin outbox[d].delivered => accepted[d][v] = 0
      BY <1>1, <1>2 DEF CallInv
    <3>2. QED
      BY <1>4, <1>6, <1>7, <2>1, <3>1 DEF DocumentInv
  <2>2. CASE s = "uncertain"
    BY <1>4, <1>6, <1>7, <2>2 DEF DocumentInv
  <2>3. QED
    BY <2>1, <2>2
<1>11. /\ \A e \in Document : e # d => DocumentInv(e)'
       /\ \A j \in Caller : j # k => CallInv(j)'
  <2>1. \A j \in Caller : j # k /\ Active(j) => call[j].doc # d
    BY <1>1, <1>2, Alone
  <2>2. QED
    BY <1>1, <1>4, <1>5, <1>7, <2>1, OthersKept
<1>12. Apart'
  BY <1>5, <1>9, ApartKept
<1>13. QED
  BY <1>8, <1>9, <1>10, <1>11, <1>12 DEF IInv

LEMMA ConcludeInvariant ==
  ASSUME IInv, NEW k \in Caller, Conclude(k)
  PROVE  IInv'
<1>1. TypeOK /\ CallInv(k) /\ call[k].at = "loop" /\ Active(k) /\ lock = k /\ call[k].left = {}
  BY DEF IInv, CallInv, Active, Conclude
<1>2. PICK d \in Document : d = call[k].doc
  BY <1>1 DEF CallInv
<1>3. DocumentInv(d) /\ outbox[d].delivered = Recipient
  BY <1>1, <1>2 DEF IInv, CallInv, TypeOK, Row
<1>4. /\ outbox' \in [Document -> Row]
      /\ outbox'[d].state = "sent" /\ outbox'[d].delivered = Recipient
      /\ \A e \in Document : e # d => outbox'[e] = outbox[e]
  BY <1>1, <1>2, <1>3, RowState DEF Conclude, Complete
<1> DEFINE c == NextJob(k)
<1>5. /\ c \in Call /\ c.at = "job" /\ c.doc = 0 /\ c.todo = call[k].todo \ {d}
      /\ c.seen = call[k].seen
  BY <1>1, <1>2 DEF NextJob, TypeOK, Call
<1>6. call' = [call EXCEPT ![k] = c]
  BY DEF Conclude
<1> HIDE DEF c
<1>7. call' \in [Caller -> Call] /\ call'[k] = c
      /\ \A j \in Caller : j # k => call'[j] = call[j]
  BY <1>1, <1>5, <1>6, CallType
<1>8. audit' \in [Document -> {"none", "started", "completed"}] /\ audit'[d] = "completed"
      /\ \A e \in Document : e # d => audit'[e] = audit[e]
  BY <1>1, <1>2 DEF Conclude, Complete, TypeOK
<1>9. accepted' = accepted /\ lock' = lock
  BY DEF Conclude
<1>10. TypeOK'
  BY <1>4, <1>7, <1>8, <1>9 DEF IInv, TypeOK, Conclude, billVars
<1>11. DocumentInv(d)'
  BY <1>3, <1>4, <1>8, <1>9 DEF DocumentInv
<1>12. CallInv(k)' /\ ~Active(k)'
  <2>1. call[k].todo \subseteq Document
    BY <1>1 DEF TypeOK, Call
  <2>2. \A e \in call[k].todo : e # d => call[k].seen[e] = outbox'[e]
    BY <1>1, <1>2, <1>4, <2>1 DEF CallInv
  <2>3. QED
    BY <1>1, <1>5, <1>7, <1>9, <2>2 DEF CallInv, Active
<1>13. /\ \A e \in Document : e # d => DocumentInv(e)'
       /\ \A j \in Caller : j # k => CallInv(j)'
  <2>1. \A j \in Caller : j # k /\ Active(j) => call[j].doc # d
    BY <1>1, <1>2, Alone
  <2>2. QED
    BY <1>1, <1>4, <1>7, <1>8, <1>9, <2>1, OthersKept
<1>14. Apart'
  BY <1>7, <1>12, ApartKept
<1>15. QED
  BY <1>10, <1>11, <1>12, <1>13, <1>14 DEF IInv

(* The lock is lost; what changes is only the call. *)
LEMMA DisconnectInvariant ==
  ASSUME IInv, NEW k \in Caller, Disconnect(k)
  PROVE  IInv'
<1>1. TypeOK /\ CallInv(k) /\ lock = k
  BY DEF IInv, CallInv, Disconnect
<1> DEFINE c == IF call[k].at = "mail" THEN [call[k] EXCEPT !.at = "cut"] ELSE Idle
<1>2. /\ c \in Call /\ c.at \in {"idle", "cut"}
      /\ c.at = "cut" => call[k].at = "mail" /\ c.doc = call[k].doc /\ c.to = call[k].to
  BY <1>1, IdleType DEF TypeOK, Call
<1>3. call' = [call EXCEPT ![k] = c]
  BY DEF Disconnect
<1> HIDE DEF c
<1>4. call' \in [Caller -> Call] /\ call'[k] = c
      /\ \A j \in Caller : j # k => call'[j] = call[j]
  BY <1>1, <1>2, <1>3, CallType
<1>5. TypeOK'
  BY <1>4, DeliveryAssumption DEF IInv, TypeOK, Disconnect, billVars
<1>6. outbox' = outbox /\ accepted' = accepted /\ audit' = audit
  BY DEF Disconnect
<1>7. CallInv(k)'
  BY <1>1, <1>2, <1>4, <1>6 DEF CallInv, Active
<1>8. /\ \A e \in Document : e # 0 => DocumentInv(e)'
      /\ \A j \in Caller : j # k => CallInv(j)'
  <2>1. \A j \in Caller : j # k /\ Active(j) => call[j].doc # 0
    BY DEF IInv, CallInv, Document
  <2>2. QED
    BY <1>1, <1>4, <1>6, <2>1, OthersKept
<1>9. Apart'
  <2>1. Active(k)' => Active(k) /\ call'[k].doc = call[k].doc
    BY <1>2, <1>4 DEF Active
  <2>2. QED
    BY <1>4, <2>1, ApartKept
<1>10. QED
  BY <1>5, <1>7, <1>8, <1>9 DEF IInv, Document

(* A mail that was under way when the session was lost is taken, or is not. *)
LEMMA CutInvariant ==
  ASSUME IInv, NEW k \in Caller, Cut(k)
  PROVE  IInv'
<1>1. TypeOK /\ CallInv(k) /\ Active(k) /\ call[k].at = "cut"
  BY DEF IInv, Active, Cut
<1>2. PICK d \in Document : d = call[k].doc
  BY <1>1 DEF CallInv
<1>3. PICK u \in Recipient : u = call[k].to
  BY <1>1 DEF CallInv
<1>4. call' = [call EXCEPT ![k] = Idle] /\ lock' = lock /\ outbox' = outbox /\ audit' = audit
  BY DEF Cut
<1>5. call' \in [Caller -> Call] /\ call'[k] = Idle
      /\ \A j \in Caller : j # k => call'[j] = call[j]
  BY <1>1, <1>4, IdleType, CallType
<1>6. /\ accepted' \in [Document -> [Recipient -> Nat]]
      /\ \A e \in Document : e # d => accepted'[e] = accepted[e]
      /\ \A e \in Document : e = call[k].doc => DocumentInv(e)'
  <2>1. CASE UNCHANGED accepted
    BY <1>1, <1>4, <2>1 DEF TypeOK, IInv, DocumentInv
  <2>2. CASE Take(k)
    BY <1>1, <1>2, <1>4, <2>2, TakeInvariant
  <2>3. QED
    BY <2>1, <2>2 DEF Cut
<1>7. TypeOK'
  BY <1>4, <1>5, <1>6 DEF IInv, TypeOK, Cut, billVars
<1>8. CallInv(k)' /\ ~Active(k)'
  BY <1>5, IdleCall
<1>9. ASSUME NEW e \in Document, e # d PROVE DocumentInv(e)'
  BY <1>4, <1>6, <1>9 DEF IInv, DocumentInv
<1>10. ASSUME NEW j \in Caller, j # k PROVE CallInv(j)'
  <2>1. CallInv(j) /\ call'[j] = call[j]
    BY <1>5, <1>10 DEF IInv
  <2>2. CASE ~Active(j)
    BY <1>4, <2>1, <2>2 DEF CallInv, Active
  <2>3. CASE Active(j)
    <3>1. call[j].doc \in Document /\ call[j].doc # d
      BY <1>1, <1>2, <1>10, <2>1, <2>3, Alone DEF CallInv
    <3>2. accepted'[call[j].doc] = accepted[call[j].doc]
      BY <1>6, <3>1
    <3>3. QED
      BY <1>4, <2>1, <3>2 DEF CallInv, Active
  <2>4. QED
    BY <2>2, <2>3
<1>11. Apart'
  BY <1>5, <1>8, ApartKept
<1>12. QED
  BY <1>2, <1>6, <1>7, <1>8, <1>9, <1>10, <1>11 DEF IInv

-----------------------------------------------------------------------------
LEMMA DeliverInvariant ==
  ASSUME IInv, NEW k \in Caller, Deliver(k)
  PROVE  IInv'
<1>1. ASSUME call[k].at \in {"job", "mail"} PROVE lock = k
  BY <1>1 DEF IInv, CallInv
<1>2. CASE SelectJobs(k)
  BY <1>2, SelectJobsInvariant
<1>3. CASE Finish(k)
  BY <1>1, <1>3, LeaveInvariant DEF Finish
<1>4. CASE Conclude(k)
  BY <1>4, ConcludeInvariant
<1>5. CASE \E d \in Document : Reconcile(k, d)
  BY <1>5, ReconcileInvariant
<1>6. CASE \E d \in Document : Refuse(k, d)
  BY <1>1, <1>6, LeaveInvariant DEF Refuse
<1>7. CASE \E d \in Document : Ineligible(k, d)
  BY <1>7, IneligibleInvariant
<1>8. CASE \E d \in Document : Begin(k, d)
  BY <1>8, BeginInvariant
<1>9. CASE \E u \in Recipient : SendMail(k, u)
  BY <1>9, SendMailInvariant
<1>10. CASE Accepted(k)
  BY <1>10, AcceptedInvariant
<1>11. CASE Record(k)
  BY <1>11, RecordInvariant
<1>12. CASE SafeFailure(k)
  BY <1>12, FailedMailInvariant DEF SafeFailure
<1>13. CASE UnknownOutcome(k)
  BY <1>13, FailedMailInvariant DEF UnknownOutcome
<1>14. CASE Cut(k)
  BY <1>14, CutInvariant
<1>15. QED
  BY <1>2, <1>3, <1>4, <1>5, <1>6, <1>7, <1>8, <1>9, <1>10, <1>11, <1>12, <1>13, <1>14 DEF Deliver

LEMMA NextInvariant ==
  ASSUME IInv, [Next]_vars
  PROVE  IInv'
<1>1. CASE \E old \in SUBSET (1 .. issued) : Cardinality(old) <= 1 /\ Issue(old)
  BY <1>1, IssueInvariant
<1>2. CASE \E k \in Caller : Send(k)
  BY <1>2, SendInvariant
<1>3. CASE \E k \in Caller : Deliver(k)
  BY <1>3, DeliverInvariant
<1>4. CASE \E k \in Caller : Disconnect(k)
  BY <1>4, DisconnectInvariant
<1>5. CASE UNCHANGED vars
  <2>1. UNCHANGED <<issued, superseded, outbox, audit, lock, call, accepted, faults>>
    BY <1>5 DEF vars
  <2>2. TypeOK'
    BY <2>1 DEF IInv, TypeOK
  <2>3. (\A d \in Document : DocumentInv(d)') /\ (\A k \in Caller : CallInv(k)')
    BY <2>1 DEF IInv, DocumentInv, CallInv, Active
  <2>4. Apart'
    BY <2>1 DEF IInv, Apart, Active
  <2>5. QED
    BY <2>2, <2>3, <2>4 DEF IInv
<1>6. QED
  BY <1>1, <1>2, <1>3, <1>4, <1>5 DEF Next

-----------------------------------------------------------------------------
(* The steps of the promise *)

Sent == {d \in Document : outbox[d].state = "sent"}

(* Nothing is taken and nothing becomes sent. *)
LEMMA Quiet ==
  ASSUME accepted' = accepted, \A d \in Document : outbox'[d].state = "sent" <=> outbox[d].state = "sent"
  PROVE  [Promise!PromiseNext]_(Promise!deliveryVars)
BY DEF Promise!deliveryVars

(* A mail is taken. *)
LEMMA TakeStep ==
  ASSUME IInv, NEW k \in Caller, call[k].at \in {"mail", "cut"}, Take(k),
         \A d \in Document : outbox'[d].state = "sent" <=> outbox[d].state = "sent"
  PROVE  [Promise!PromiseNext]_(Promise!deliveryVars)
<1>1. /\ TypeOK /\ call[k].doc \in Document /\ call[k].to \in Recipient
      /\ accepted[call[k].doc][call[k].to] = 0 /\ outbox[call[k].doc].state = "sending"
  BY MailFacts
<1>2. PICK d \in Document, u \in Recipient : d = call[k].doc /\ u = call[k].to
  BY <1>1
<1>3. accepted' = [accepted EXCEPT ![d][u] = 1]
  <2>1. accepted[d][u] + 1 = 1
    BY <1>1, <1>2
  <2>2. accepted' = [accepted EXCEPT ![d][u] = accepted[d][u] + 1]
    BY <1>1, <1>2 DEF Take, TypeOK
  <2>3. QED
    BY <2>1, <2>2
<1>4. Promise!Accept(d, u)
  BY <1>1, <1>2, <1>3 DEF Promise!Accept
<1>5. QED
  BY <1>4 DEF Promise!PromiseNext

(* A document is called sent: all have it. *)
LEMMA CompleteStep ==
  ASSUME IInv, NEW d \in Document, outbox[d].delivered = Recipient, Complete(d), accepted' = accepted
  PROVE  [Promise!PromiseNext]_(Promise!deliveryVars)
<1>1. \A u \in Recipient : accepted[d][u] = 1
  BY DEF IInv, DocumentInv
<1>2. /\ outbox'[d].state = "sent"
      /\ \A e \in Document : e # d => outbox'[e] = outbox[e]
  BY RowState DEF IInv, Complete
<1>3. Sent' = Sent \cup {d}
  BY <1>2 DEF Sent
<1>4. Promise!Conclude(d)
  BY <1>1, <1>3 DEF Promise!Conclude, Sent
<1>5. QED
  BY <1>4 DEF Promise!PromiseNext

(* The state of a row that is not sent becomes another. *)
LEMMA QuietRow ==
  ASSUME IInv, NEW d \in Document, outbox[d].state # "sent",
         NEW s \in {"sending", "failed", "uncertain"},
         outbox' = [outbox EXCEPT ![d].state = s]
  PROVE  \A e \in Document : outbox'[e].state = "sent" <=> outbox[e].state = "sent"
BY RowState DEF IInv

LEMMA DeliverStep ==
  ASSUME IInv, NEW k \in Caller, Deliver(k)
  PROVE  [Promise!PromiseNext]_(Promise!deliveryVars)
<1>1. TypeOK /\ CallInv(k)
  BY DEF IInv
<1>2. CASE SelectJobs(k) \/ Finish(k) \/ \E d \in Document : Refuse(k, d)
  BY <1>2, Quiet DEF SelectJobs, Finish, Refuse
<1>3. CASE Conclude(k)
  <2>1. call[k].doc \in Document /\ outbox[call[k].doc].delivered = Recipient
    BY <1>1, <1>3 DEF Conclude, CallInv, Active, TypeOK, Row
  <2>2. QED
    BY <1>3, <2>1, CompleteStep DEF Conclude
<1>4. ASSUME NEW d \in Document, Reconcile(k, d)
      PROVE  [Promise!PromiseNext]_(Promise!deliveryVars)
  <2>1. call[k].seen[d] = outbox[d]
    BY <1>4, SeenIsCurrent DEF Reconcile
  <2>2. outbox[d].delivered = Recipient
    BY <1>1, <1>4, <2>1 DEF Reconcile, Concluded, Confirmed, IInv, DocumentInv, TypeOK, Row
  <2>3. QED
    BY <1>4, <2>2, CompleteStep DEF Reconcile
<1>5. ASSUME NEW d \in Document, Ineligible(k, d)
      PROVE  [Promise!PromiseNext]_(Promise!deliveryVars)
  <2>1. outbox[d].state # "sent"
    BY <1>5, SeenIsCurrent DEF Ineligible, Concluded
  <2>2. QED
    BY <1>5, <2>1, QuietRow, Quiet DEF Ineligible
<1>6. ASSUME NEW d \in Document, Begin(k, d)
      PROVE  [Promise!PromiseNext]_(Promise!deliveryVars)
  <2>1. outbox[d].state # "sent" /\ outbox[d] \in Row /\ outbox \in [Document -> Row]
    BY <1>1, <1>6, SeenIsCurrent DEF Begin, Concluded, TypeOK
  <2>2. /\ outbox'[d].state = "sending"
        /\ \A e \in Document : e # d => outbox'[e] = outbox[e]
    <3> DEFINE row == [outbox[d] EXCEPT !.state = "sending", !.attempts = @ + 1]
    <3>1. row.state = "sending" /\ outbox' = [outbox EXCEPT ![d] = row]
      BY <1>6, <2>1 DEF Begin, Row
    <3> HIDE DEF row
    <3>2. QED
      BY <2>1, <3>1
  <2>3. QED
    BY <1>6, <2>1, <2>2, Quiet DEF Begin
<1>7. CASE \E u \in Recipient : SendMail(k, u)
  BY <1>7, Quiet DEF SendMail
<1>8. CASE Accepted(k)
  BY <1>8, TakeStep DEF Accepted
<1>9. CASE Record(k)
  <2>1. PICK d \in Document : d = call[k].doc
    BY <1>1, <1>9 DEF Record, CallInv, Active
  <2>2. outbox[d] \in Row /\ outbox \in [Document -> Row]
    BY <1>1 DEF TypeOK
  <2> DEFINE row == [outbox[d] EXCEPT !.delivered = @ \cup {call[k].to}]
  <2>3. row.state = outbox[d].state /\ outbox' = [outbox EXCEPT ![d] = row]
    BY <1>9, <2>1, <2>2 DEF Record, Row
  <2> HIDE DEF row
  <2>4. QED
    BY <1>9, <2>2, <2>3, Quiet DEF Record
<1>10. ASSUME call[k].at = "mail"
       PROVE  call[k].doc \in Document /\ outbox[call[k].doc].state = "sending"
  BY <1>1, <1>10 DEF CallInv, Active
<1>11. CASE SafeFailure(k)
  BY <1>10, <1>11, QuietRow, Quiet DEF SafeFailure
<1>12. CASE UnknownOutcome(k)
  <2>1. \A e \in Document : outbox'[e].state = "sent" <=> outbox[e].state = "sent"
    BY <1>10, <1>12, QuietRow DEF UnknownOutcome
  <2>2. QED
    BY <1>12, <2>1, Quiet, TakeStep DEF UnknownOutcome
<1>13. CASE Cut(k)
  BY <1>13, Quiet, TakeStep DEF Cut
<1>14. QED
  BY <1>2, <1>3, <1>4, <1>5, <1>6, <1>7, <1>8, <1>9, <1>11, <1>12, <1>13 DEF Deliver

LEMMA PromiseStep ==
  ASSUME IInv, [Next]_vars
  PROVE  [Promise!PromiseNext]_(Promise!deliveryVars)
<1>1. CASE \E old \in SUBSET (1 .. issued) : Cardinality(old) <= 1 /\ Issue(old)
  BY <1>1, Quiet DEF Issue
<1>2. CASE \E k \in Caller : Send(k)
  BY <1>2, Quiet DEF Send
<1>3. CASE \E k \in Caller : Deliver(k)
  BY <1>3, DeliverStep
<1>4. CASE \E k \in Caller : Disconnect(k)
  BY <1>4, Quiet DEF Disconnect
<1>5. CASE UNCHANGED vars
  BY <1>5, Quiet DEF vars
<1>6. QED
  BY <1>1, <1>2, <1>3, <1>4, <1>5 DEF Next

-----------------------------------------------------------------------------
(* The theorems *)

(* The invariant is one of the specification. *)
THEOREM InvariantHolds == Spec => []IInv
BY InitInvariant, NextInvariant, PTL DEF Spec

(* The types: among them, no document is attempted more often than the budget
   allows (deliverSavedArtifacts, attempts >= 5). *)
THEOREM TypeCorrect == Spec => []TypeOK
BY InvariantHolds, PTL DEF IInv

(* The audit trail tells the truth (deliveryIntent, completeDelivery): no mail
   without a recorded intent, and completion exactly for what all have. *)
THEOREM TruthfulAudit == Spec => []AuditIsTruthful
<1>1. IInv => AuditIsTruthful
  BY DEF IInv, DocumentInv, AuditIsTruthful
<1>2. QED
  BY <1>1, InvariantHolds, PTL

(* The delivery keeps its promise: whatever is retried, lost or cut off, the mail
   server takes a document for a recipient at most once (deliverSavedArtifacts). *)
THEOREM AtMostOnce == Spec => DeliversAtMostOnce
<1>1. Init => Promise!PromiseInit
  BY DEF Init, Promise!PromiseInit, NewRow
<1>2. QED
  BY <1>1, PromiseStep, InvariantHolds, PTL DEF Spec, DeliversAtMostOnce, Promise!PromiseSpec
=============================================================================
