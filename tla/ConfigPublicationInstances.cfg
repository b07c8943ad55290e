\* Two API processes publish at once while the gateway moves between two brokers,
\* or a process crashes or fails to complete.
SPECIFICATION Spec
CONSTANTS
  Instance = {i1, i2}
  Broker = {b1, b2}
  Slot = {s1, s2}
  NoInstance = NoInstance
  NoBroker = NoBroker
  AnyBroker = AnyBroker
  MaxOutstanding = 2
  MaxVersion = 2
  MaxMoves = 2
  MaxFaults = 1
CONSTRAINT Disturbances
SYMMETRY Symmetry
CHECK_DEADLOCK FALSE
INVARIANT SkippedIsRetained
PROPERTY SkippedIsStable
