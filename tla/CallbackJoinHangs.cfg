CONSTANTS
  Session = {s1}
  Thread = {t1}
  User = {u1}
  NoThread = NoThread
  Nobody = Nobody
  UserCalls = {"setAsynchronous", "cancel"}
  CallbackCalls = {}
  ConcurrentCalls = FALSE
  MaxCalls = 2
  MaxMessages = 0
SPECIFICATION FairSpec
CHECK_DEADLOCK FALSE
PROPERTY
  CancelReturns
