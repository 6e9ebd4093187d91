CONSTANTS
  Orders = {o1, o2}
  Warehouses = {w1, w2}
  Things = {o1, o2}
  Trucks = {t1}
  whOf <- OneWarehouse
  thingsOf <- Alike
  NoWarehouse = NoWarehouse
  NoTruck = NoTruck
  NoMsg = NoMsg
  MaxResends = 0
  MaxErrors = 0
  SharedNumbers = FALSE
  Racy = FALSE
  DbMayFail = FALSE
  UpsMayFail = FALSE
  o1 = o1
  w1 = w1
SPECIFICATION Spec
INVARIANT PackedOnce
CHECK_DEADLOCK FALSE
