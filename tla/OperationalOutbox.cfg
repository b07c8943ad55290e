\* Two processes deliver a decision by mail, a reminder by mail or one in the feed.
SPECIFICATION FairSpec
CONSTANTS
  Worker = {w1, w2}
  Mail = {r1, d1}
  Feed = {r2}
  Reminder = {r1, r2}
  Decision = {d1}
  NoWorker = NoWorker
  NoRow = NoRow
  MaxAttempts = 2
  MaxBalance = 1
  MaxQueued = 1
  MaxFaults = 2
CHECK_DEADLOCK FALSE
INVARIANTS ResentOnlyIfMisread OutcomeIsTruthful BudgetHolds
PROPERTIES ReminderStillDue NoticesConverge EveryRowSettles
