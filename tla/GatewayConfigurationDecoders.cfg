\* One device with two decoders and an optional connection, one proposal.
SPECIFICATION FairSpec
CONSTANTS
  Device = {d1}
  Decoder = {k1, k2}
  Metering = {k1}
  Link = {l1, NoLink}
  NoLink = NoLink
  Proposal = {p1}
  Off = Off
  NoPlan = NoPlan
  NoProfile = NoProfile
  NoDevice = NoDevice
  DemoAnonymous = FALSE
  MaxVersion = 3
CHECK_DEADLOCK FALSE
INVARIANTS ActiveMatchesDevices ActiveVersionIsBound SyncStateIsTruthful
PROPERTIES ProposalBasedOnActive BillingDeviceFrozen UnboundIsEventuallyApplied
