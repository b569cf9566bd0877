CONSTANTS
  MaxReconnections <- NoLimit
  PublisherCount = 1
  MaxAttempts = 3
  MaxPayloads = 0
  HeaderSizes = {12}
SPECIFICATION Spec
CHECK_DEADLOCK FALSE
PROPERTY
  WaitsBeforeRetry
