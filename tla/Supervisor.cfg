CONSTANTS
  a = a
  b = b
  Ids = {a, b}
  NoSpec = NoSpec
  Specs <- AllSpecs
  FirstSpec <- TwoSpecs
  Stubborn = {b}
  MaxTroubles = 3
SPECIFICATION FairSpec
CHECK_DEADLOCK FALSE
INVARIANTS
  TypeOK
  Supervised
  RestartsFollowPolicy
PROPERTIES
  ManifestIsObeyed
  SignalEnds
