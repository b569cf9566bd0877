CONSTANTS
  MaxReconnections = 1
  PublisherCount = 1
  MaxAttempts = 2
  MaxPayloads = 4
  HeaderSizes = {3, 12}
  MaxConnections = 2
  MaxMessages = 2
  NoBuffer = NoBuffer
  Handshake = Handshake
  Chunks = 2
SPECIFICATION ConnectionSpec
CHECK_DEADLOCK FALSE
INVARIANTS
  FramesReadWhole
  OutOfTurnOnlyWhenEarly
PROPERTY
  DeliveredInOrder
