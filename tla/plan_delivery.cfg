\* Two workers and any two of three plans: an immediate one and two of one
\* digest; two are bound to an action; every lease can expire under its holder.
SPECIFICATION WatchSpec
CONSTANTS
  Plans = {1, 2, 3}
  Workers = {w1, w2}
  NoOwner = NoOwner
  NoClaimant = NoClaimant
  NoDigest = NoDigest
  OwnerOf <- OwnProcess
  DigestKey <- OneAndTwoDigested
  FirstAttempt <- DueAtOnce
  RetryDelay <- Exponential
  ActionBound = {3}
  LeaseDuration = 1
  MaximumAttempts = 2
  BatchLimit = 2
  DigestMaximum = 2
  MaxPlans = 2
  MaxTime = 2
  MaxAbandons = 1
SYMMETRY WorkerSymmetry
INVARIANTS
  TypeOK
  FailedIffExhausted
  PlannedWasAccepted
  ImmediatePlanHasOneIdentity
  PromptFencesAreExclusive
PROPERTIES
  ImplementsDurableWork
  PromptLeaseProtectsClaimant
CHECK_DEADLOCK FALSE
