\* One template, two requests, two workers, an editor, and a fault.
SPECIFICATION Spec
CONSTANTS
  Contents = {c1, c2}
  NoContent = NoContent
  Seeds = {c1}
  DraftVersions = {2}
  Requests = {r1, r2}
  NoRequest = NoRequest
  Admins = {a1, a2}
  Nobody = Nobody
  Editors = {e1}
  Workers = {w1, w2}
  OwnerOf <- OwnProcess
  NoOwner = NoOwner
  Delays = {0}
  LeaseDuration = 1
  MaxTime = 2
  MaxWrites = 3
  MaxFaults = 1
SYMMETRY ActorSymmetry
INVARIANTS
  TypeOK
  LockIsOpenRequest
  PublishedWasReviewed
  PublishesOnce
  PublishedMeansVersion
PROPERTIES
  DraftIsNotLost
CHECK_DEADLOCK FALSE
