CONSTANTS
  Orders = {o1, o2, o3}
  Warehouses = {w1, w2}
  Things = {o1, o2, o3}
  Trucks = {t1}
  whOf <- OneWarehouse
  thingsOf <- Different
  NoWarehouse = NoWarehouse
  NoTruck = NoTruck
  NoMsg = NoMsg
  MaxResends = 0
  MaxErrors = 1
  SharedNumbers = FALSE
  Racy = FALSE
  DbMayFail = FALSE
  UpsMayFail = TRUE
  MaxCrashes = 1
  o1 = o1
  w1 = w1
SPECIFICATION FairRestartSpec
INVARIANT OneShipment
PROPERTY Lifecycle
CHECK_DEADLOCK FALSE
INVARIANT NothingForStranded
PROPERTY StrandedStandStill
PROPERTY FreshDelivered
