CONSTANTS
  MaxReconnections = 2
  PublisherCount = 2
  MaxAttempts = 6
  MaxPayloads = 2
  HeaderSizes = {1, 4, 12, 13, 65535}
SPECIFICATION FairSpec
CHECK_DEADLOCK FALSE
INVARIANTS
  TypeOK
  ClosedHoldsNoSocket
  AttemptsBounded
  GivesUpExhausted
  HeaderConsumed
  ReportsConnectedPublisher
PROPERTY
  CancelCloses
  ResolvesEveryPublisher
  EndsAgainOnlyByLastTask
