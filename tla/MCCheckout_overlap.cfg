CONSTANTS
  Products = {tea, bread}
  Requests = {r1, r2, r3}
  Quantities = {1}
  MaxOpen = 2
  NoOrder = NoOrder
  ServerMayFail = FALSE
  MayVanish = TRUE
SPECIFICATION FairSpec
INVARIANT TypeOK
INVARIANT ShippedWhole
PROPERTY VanishedLineStays
PROPERTY SavedIsSent
CHECK_DEADLOCK FALSE
