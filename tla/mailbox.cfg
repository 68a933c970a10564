\* Ann's two items and one of Bob's, who may read Ann's mailbox for a while.
SPECIFICATION Spec
CONSTANTS
  ann = ann
  bob = bob
  Users = {ann, bob}
  Nobody = Nobody
  Items = {1, 2}
  NoItem = NoItem
  DelegationIDs = {1}
  NoDelegation = NoDelegation
  Callers = {c1, c2}
  RecipientOf <- AnnsItems
  Contents <- FiringOrPlain
  Reports <- BobManagesAnn
  Windows <- OpenOrOneSided
  Queries <- UsualQueries
  Limit = 1
  WorkerDelay = 1
  MaxTime = 2
  MaxChanges = 3
SYMMETRY CallerSymmetry
INVARIANTS
  TypeOK
  PagingMissesNothing
  AccessIsEntitled
PROPERTIES
  MailboxesArePersonal
CHECK_DEADLOCK FALSE
