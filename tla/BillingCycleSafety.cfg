\* An energy bill and a manual one of the same site.
SPECIFICATION Spec
CONSTANTS
  Cycle = {c1, m1}
  Manual = {m1}
  Payment = {p1, p2}
  Evidence = {e1}
  CashKey = {k1}
  Amount = {1, 2}
  Production = FALSE
  NoPayment = NoPayment
  NoDraft = NoDraft
  NoToken = NoToken
  NoTerms = NoTerms
  MaxVersion = 2
  MaxRevision = 2
SYMMETRY RowSymmetry
CHECK_DEADLOCK FALSE
INVARIANTS SettlementIsExact CurrentInvoiceStatesTheBill ReviewedFactsAreIssued
  ProofPaysOnce ReceiptsAreNumbered
PROPERTY FrozenOnceMoneyMoves
