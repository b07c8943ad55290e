\* Two deliveries of messages under one identity, while the configuration changes.
SPECIFICATION IngestionSpec
CONSTANTS
  Device = {d1}
  Decoder = {k1, k2}
  Metering = {k1}
  Link = {NoLink}
  NoLink = NoLink
  Proposal = {p1}
  Off = Off
  NoPlan = NoPlan
  NoProfile = NoProfile
  NoDevice = NoDevice
  DemoAnonymous = FALSE
  MaxVersion = 2
  Handler = {h1, h2}
  MessageId = {i1}
  Content = {x}
  NoRow = NoRow
CONSTRAINT Disturbances
SYMMETRY HandlerSymmetry
CHECK_DEADLOCK FALSE
INVARIANTS DecodedByItsVersion AckedIsStored
PROPERTY StoredAsOfCommit
