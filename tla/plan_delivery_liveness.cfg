\* Time passes only when no work is under way: every plan settles.
SPECIFICATION LiveSpec
CONSTANTS
  Plans = {1, 2}
  Workers = {w1, w2}
  NoOwner = NoOwner
  NoClaimant = NoClaimant
  NoDigest = NoDigest
  OwnerOf <- OwnProcess
  DigestKey <- SecondPlanDigested
  FirstAttempt <- DueAtOnce
  RetryDelay <- Exponential
  ActionBound = {1}
  LeaseDuration = 1
  MaximumAttempts = 2
  BatchLimit = 2
  DigestMaximum = 2
  MaxPlans = 2
  MaxTime = 3
  MaxAbandons = 1
PROPERTIES
  EveryPlanSettles
CHECK_DEADLOCK FALSE
