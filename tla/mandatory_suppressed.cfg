\* A mandatory channel and a recipient who has disabled it.
SPECIFICATION Spec
CONSTANTS
  Deliveries = {1}
  Evaluators = {e1}
  Users = {u1, u2}
  Channels = {"email"}
  NoTopic = NoTopic
  NoAnswer = NoAnswer
  Recipients <- FirstForAll
  ChannelOf <- ByEmail
  TopicOf <- SharedTopic
  Digests = {}
  Mandatory = {1}
  Limits = {1}
  Hour = 2
  DedupeWindow = 1
  Day = 4
  QuietStart = 3
  QuietEnd = 1
  MaxTime = 1
  MaxRetries = 0
  MaxChanges = 1
INVARIANT MandatoryIsNotSuppressed
CHECK_DEADLOCK FALSE
