\* One month prepared by two replicas while staff act; PRODUCTION, where the
\* scheduler runs.
SPECIFICATION FairMonthSpec
CONSTANTS
  Cycle = {c1}
  Manual = {}
  Payment = {p1}
  Evidence = {}
  CashKey = {k1}
  Amount = {1}
  Production = TRUE
  NoPayment = NoPayment
  NoDraft = NoDraft
  NoToken = NoToken
  NoTerms = NoTerms
  MaxVersion = 2
  MaxRevision = 2
  Replica = {a, b}
  NoBill = NoBill
  MaxFaults = 2
CHECK_DEADLOCK FALSE
PROPERTIES DoneIsFinal OnlyBillingSteps JobsSettle
