CONSTANTS
  Thread = {t1, t2}
  Publisher = {p}
  Subscriber = {s}
  Session = {s1}
  Accept = Accept
  Refuse = Refuse
  Nobody = Nobody
  Outside = Outside
SPECIFICATION FairSpec
CHECK_DEADLOCK FALSE
INVARIANTS NothingAbandoned HeldPoolServes
PROPERTY PoolEnds
