\* One process, one crash or failed completion; packets time out.
SPECIFICATION FairSpec
CONSTANTS
  Instance = {i1}
  Broker = {b1}
  Slot = {s1, s2, s3}
  NoInstance = NoInstance
  NoBroker = NoBroker
  AnyBroker = AnyBroker
  MaxOutstanding = 2
  MaxVersion = 2
  MaxMoves = 0
  MaxFaults = 1
CHECK_DEADLOCK FALSE
PROPERTIES DesiredIsEventuallyRetained 
