CONSTANTS
  Orders = {o1, o2}
  Warehouses = {w1, w2}
  Things = {o1, o2}
  Trucks = {t1}
  whOf <- OneWarehouse
  thingsOf <- Different
  NoWarehouse = NoWarehouse
  NoTruck = NoTruck
  NoMsg = NoMsg
  MaxResends = 1
  MaxErrors = 1
  SharedNumbers = TRUE
  Racy = TRUE
  DbMayFail = TRUE
  UpsMayFail = TRUE
  o1 = o1
  w1 = w1
SPECIFICATION Spec
INVARIANT TypeOK
INVARIANT StatusIsEarned
CHECK_DEADLOCK FALSE
