\* One device, a day and the next, three samples.
SPECIFICATION FairSpec
CONSTANTS
  Worker = {p}
  Writer = {a}
  m = m
  n = n
  Reading <- Readings
  NoRow = NoRow
  NoEnergy = NoEnergy
  Free = Free
  DayLength = 2
  MaxDay = 0
  MaxSamples = 3
  MaxFaults = 1
CHECK_DEADLOCK FALSE
INVARIANTS TypeOK ReportedIsMeasured GapsAreReal
PROPERTY MeasuredIsReported
