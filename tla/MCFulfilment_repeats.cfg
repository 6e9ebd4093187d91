CONSTANTS
  Orders = {o1, o2}
  Warehouses = {w1, w2}
  Things = {o1, o2}
  Trucks = {t1}
  whOf <- OneWarehouse
  thingsOf <- Different
  NoWarehouse = NoWarehouse
  NoTruck = NoTruck
  NoMsg = NoMsg
  MaxResends = 1
  MaxErrors = 0
  SharedNumbers = TRUE
  Racy = FALSE
  DbMayFail = FALSE
  UpsMayFail = FALSE
  o1 = o1
  w1 = w1
SPECIFICATION FairSpec
INVARIANT CauseChain
INVARIANT AckedArrivalIsPacked
INVARIANT LoadKnowsWarehouse
INVARIANT NumbersBudget
PROPERTY ListStableDuringScan
PROPERTY StaysDelivered
PROPERTY AnswersAcked
CHECK_DEADLOCK FALSE
