CONSTANTS
  Session = {s1}
  User = {u1, u2}
  NoSession = NoSession
  Chunks = 1
  MaxSends = 1
  SendDuringHandshake = TRUE
  ThreadCount = 1
SPECIFICATION PublisherFairSpec
INVARIANTS
  LiveSessionsListed
PROPERTIES
  SendReachesAll
  CallsReturn
  CancelEmptiesList
