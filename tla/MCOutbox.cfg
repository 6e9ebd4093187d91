CONSTANTS
  Commands = {purchase, pickup}
  Peers = {World, UPS}
  Fragile = {UPS}
  to <- Addressee
  AckBits = 3
  WordBits = 4
  None = None
  SendMayFail = TRUE
  purchase = purchase
  pickup = pickup
  World = World
  UPS = UPS
SPECIFICATION FairSpec
INVARIANT TypeOK
INVARIANT UniqueNumbers
INVARIANT StoppedMeansCarriedOut
PROPERTY ImplementsHandover
PROPERTY EverySenderStops
CHECK_DEADLOCK FALSE
