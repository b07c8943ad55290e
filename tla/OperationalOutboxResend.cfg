\* One mail and one process; the database refuses a connection once.
SPECIFICATION Spec
CONSTANTS
  Worker = {w1}
  Mail = {r1}
  Feed = {}
  Reminder = {}
  Decision = {}
  NoWorker = NoWorker
  NoRow = NoRow
  MaxAttempts = 2
  MaxBalance = 1
  MaxQueued = 1
  MaxFaults = 1
CHECK_DEADLOCK FALSE
INVARIANT AcceptedAtMostOnce
