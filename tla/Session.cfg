CONSTANTS
  Session = {s1}
  User = {u1, u2}
  NoSession = NoSession
  Chunks = 2
  MaxSends = 3
  SendDuringHandshake = TRUE
SPECIFICATION FairSpec
INVARIANTS
  TypeOK
  NextIsServed
  HandshakeLeadsLiveWire
  WrittenAtMostOnce
  ClosedTwiceOnlyByRestore
PROPERTIES
  NextIsWritten
  CancelIsFinal
  ImplementsChannel
