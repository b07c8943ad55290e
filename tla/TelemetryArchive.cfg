\* Two processes archive a day that changes meanwhile, with one fault.
SPECIFICATION FairSpec
CONSTANTS
  Worker = {p, q}
  NoWorker = NoWorker
  MaxDay = 1
  MaxVersion = 2
  MaxJob = 3
  MaxObject = 4
  MaxAttempt = 2
  MaxFaults = 1
CHECK_DEADLOCK FALSE
INVARIANTS ReadyIsArchived CatalogIsSound NoMarkedChangeIsForgotten
PROPERTIES ReadyIsFinal ChangesAreArchived
