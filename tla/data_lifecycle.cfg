SPECIFICATION Spec
CONSTANTS
  u1 = u1
  u2 = u2
  anonymous1 = anonymous1
  anonymous2 = anonymous2
  NoOne = NoOne
  Users = {u1}
  Anonymous <- MCAnonymous
  Intents <- MCIntents
  Catalogs <- MCCatalogs
  Producers = {p1}
  Workers = {w1}
  Batches = {b1}
  PersonalRows <- MCPersonalRows
  HoldSets <- MCHoldSets
  ExternalChannels = {"mail"}
  SensitiveVariables = {"password"}
  Retention = 1
  RepeatFor = 0
  LeaseDuration = 1
  MaximumAttempts = 1
  BatchLimit = 3
  MaxTime = 1
  LastIntent = 0
INVARIANTS TypeOK IntentsAreIdempotent ErasureIsComplete
PROPERTIES PurgeLosesNothing
CHECK_DEADLOCK FALSE
