\* Two evaluators, a delivery to two recipients, one on the same matter and a
\* digest; the hour is two units, the dedupe window one, and nights are quiet.
SPECIFICATION Spec
CONSTANTS
  Deliveries = {1, 2}
  Evaluators = {e1, e2}
  Users = {u1, u2}
  Channels = {"email"}
  NoTopic = NoTopic
  NoAnswer = NoAnswer
  Recipients <- FirstForAll
  ChannelOf <- ByEmail
  TopicOf <- SharedTopic
  Digests = {2}
  Mandatory = {}
  Limits = {1, 2}
  Hour = 2
  DedupeWindow = 1
  Day = 4
  QuietStart = 3
  QuietEnd = 1
  MaxTime = 3
  MaxRetries = 1
  MaxChanges = 1
SYMMETRY EvaluatorSymmetry
INVARIANTS
  TypeOK
  HourlyLimitIsKept
  DedupeWindowIsKept
  RetryReservesOnce
  ReservationsAreComplete
  QuietHoursAreKept
CHECK_DEADLOCK FALSE
