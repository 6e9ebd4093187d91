CONSTANTS
  Products = {tea}
  Requests = {r1, r2, r3}
  Quantities = {1}
  MaxOpen = 2
  NoOrder = NoOrder
  ServerMayFail = FALSE
  MayVanish = FALSE
SPECIFICATION Spec
INVARIANT OrderedAtMostAdded
CHECK_DEADLOCK FALSE
