SPECIFICATION FairSpec
CONSTANTS
  t1 = t1
  t2 = t2
  o1 = o1
  o2 = o2
  Threads = {t1, t2}
  Orders = {o1, o2}
  Values = {"packed", "delivering"}
  Initial = "ordered"
  NoThread = NoThread
  MaxConnections = 3
  MaxFailures = 3
  DbMayVanish = TRUE
INVARIANTS TypeOK ExitNeedsLeaks
PROPERTIES ImplementsRegister CallsReturn
CHECK_DEADLOCK FALSE
