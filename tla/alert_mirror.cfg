\* Alerts and plain events share a group key, which the validation allows.
SPECIFICATION Spec
CONSTANTS
  Events = {1, 2}
  Workers = {w1, w2}
  NoOwner = NoOwner
  Users = {u1}
  NoGroup = NoGroup
  NoAlert = NoAlert
  NoRow = NoRow
  NoClaim = NoClaim
  OwnerOf <- OwnProcess
  Recipients <- Everybody
  GroupOf <- OneGroup
  OccurredAt <- InOrder
  AlertStates = {NoAlert, "firing"}
  WithPlans = {2}
  RetryDelay <- Exponential
  LeaseDuration = 1
  MaximumAttempts = 2
  BatchLimit = 2
  MaxTime = 2
  MaxAbandons = 1
SYMMETRY WorkerSymmetry

INVARIANTS
  InboxMirrorsAlert
CHECK_DEADLOCK FALSE
