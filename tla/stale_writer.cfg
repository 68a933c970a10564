\* The claim's UPDATE and its read back as the code has them, unguarded.
SPECIFICATION Spec
CONSTANTS
  Plans = {1}
  Workers = {w1, w2}
  NoOwner = NoOwner
  NoClaimant = NoClaimant
  NoDigest = NoDigest
  OwnerOf <- OwnProcess
  DigestKey <- NoPlanDigested
  FirstAttempt <- DueAtOnce
  RetryDelay <- Exponential
  ActionBound = {}
  LeaseDuration = 1
  MaximumAttempts = 2
  BatchLimit = 2
  DigestMaximum = 2
  MaxPlans = 2
  MaxTime = 2
  MaxAbandons = 1
SYMMETRY WorkerSymmetry
PROPERTIES
  LeaseProtectsClaimant
CHECK_DEADLOCK FALSE
