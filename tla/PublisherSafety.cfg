CONSTANTS
  Session = {s1, s2}
  User = {u1}
  NoSession = NoSession
  Chunks = 1
  MaxSends = 2
  SendDuringHandshake = TRUE
  ThreadCount = 2
SPECIFICATION PublisherSpec
SYMMETRY Symmetry
INVARIANTS
  PublisherTypeOK
  LiveSessionsListed
PROPERTIES
  SendReachesAll
  StaleOnlyWhenOvertaken
