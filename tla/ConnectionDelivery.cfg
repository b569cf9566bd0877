CONSTANTS
  MaxReconnections = 1
  PublisherCount = 1
  MaxAttempts = 1
  MaxPayloads = 4
  HeaderSizes = {3, 12}
  MaxConnections = 1
  MaxMessages = 3
  NoBuffer = NoBuffer
  Handshake = Handshake
  Chunks = 2
SPECIFICATION ConnectionFairSpec
CHECK_DEADLOCK FALSE
PROPERTY
  NewestIsDelivered
