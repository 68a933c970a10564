\* Two workers and two events of one alert, of every kind and in any order.
SPECIFICATION Spec
CONSTANTS
  Events = {1, 2}
  Workers = {w1, w2}
  NoOwner = NoOwner
  Users = {u1}
  NoGroup = NoGroup
  NoAlert = NoAlert
  NoRow = NoRow
  NoClaim = NoClaim
  OwnerOf <- OwnProcess
  Recipients <- Everybody
  GroupOf <- OneGroup
  OccurredAt <- InOrder
  AlertStates = {"firing", "acknowledged", "resolved"}
  WithPlans = {2}
  RetryDelay <- Exponential
  LeaseDuration = 1
  MaximumAttempts = 2
  BatchLimit = 2
  MaxTime = 2
  MaxAbandons = 1
SYMMETRY WorkerSymmetry
INVARIANTS
  TypeOK
  EvidenceIsComplete
  EffectsHappenOnce
  RowsShowNewestEvent
  InboxMirrorsAlert
PROPERTIES
  AcknowledgementStands
  ImplementsDurableWork
CHECK_DEADLOCK FALSE
