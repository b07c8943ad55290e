SPECIFICATION FairSpec
CONSTANTS
  Worker = {p}
  NoWorker = NoWorker
  MaxDay = 1
  MaxVersion = 2
  MaxJob = 2
  MaxObject = 3
  MaxAttempt = 2
  MaxFaults = 2
CHECK_DEADLOCK FALSE
PROPERTIES FailedRequestsRetry
