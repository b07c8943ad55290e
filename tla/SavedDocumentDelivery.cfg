\* An invoice and another document of a bill, two recipients, two calls.
SPECIFICATION FairSpec
CONSTANTS
  Caller = {a, b}
  NoCaller = NoCaller
  Recipient = {u, v}
  NoRecipient = NoRecipient
  RetryBudget = 2
  MaxDocument = 2
  MaxFaults = 2
CHECK_DEADLOCK FALSE
INVARIANTS AuditIsTruthful
PROPERTIES DeliversAtMostOnce DocumentsSettle
