CONSTANTS
  Session = {s1}
  User = {u1}
  NoSession = NoSession
  Chunks = 2
  MaxSends = 2
  SendDuringHandshake = TRUE
SPECIFICATION Spec
INVARIANT
  FramesAreWhole
