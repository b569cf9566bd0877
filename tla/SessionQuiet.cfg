CONSTANTS
  Session = {s1}
  User = {u1, u2}
  NoSession = NoSession
  Chunks = 2
  MaxSends = 4
  SendDuringHandshake = FALSE
SPECIFICATION Spec
SYMMETRY UserSymmetry
INVARIANT
  WireInOrder
PROPERTY
  ImplementsQueue
