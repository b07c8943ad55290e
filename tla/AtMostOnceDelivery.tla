------------------------- MODULE AtMostOnceDelivery -------------------------
(* What the delivery of documents promises: a mail server takes each document
   for each of its recipients at most once, a document is called sent only when
   it was taken for all of them, and it is not sent any more afterwards. *)
EXTENDS Naturals

CONSTANTS
  Document, Recipient

VARIABLES
  accepted,   \* how often a mail server took a document for a recipient
  sent        \* documents called sent

deliveryVars == <<accepted, sent>>

PromiseInit ==
  /\ accepted = [d \in Document |-> [u \in Recipient |-> 0]]
  /\ sent = {}

Accept(d, u) ==
  /\ accepted[d][u] = 0
  /\ d \notin sent
  /\ accepted' = [accepted EXCEPT ![d][u] = 1]
  /\ UNCHANGED sent

Conclude(d) ==
  /\ \A u \in Recipient : accepted[d][u] = 1
  /\ sent' = sent \cup {d}
  /\ UNCHANGED accepted

PromiseNext ==
  \E d \in Document : Conclude(d) \/ \E u \in Recipient : Accept(d, u)

PromiseSpec == PromiseInit /\ [][PromiseNext]_deliveryVars
=============================================================================
