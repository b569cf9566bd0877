CONSTANTS
  Session = {s1, s2}
  Thread = {t1, t2}
  User = {u1}
  NoThread = NoThread
  Nobody = Nobody
  UserCalls = {"setSynchronous", "setAsynchronous", "addSession", "cancel"}
  CallbackCalls = {"setSynchronous", "setAsynchronous", "addSession", "cancel"}
  ConcurrentCalls = FALSE
  MaxCalls = 2
  MaxMessages = 3
SPECIFICATION FairSpec
CHECK_DEADLOCK FALSE
INVARIANTS
  TypeOK
  SlotFreed
  SessionsUpToDate
PROPERTIES
  
  SlotIsServed
  CallFromThreadReturns
