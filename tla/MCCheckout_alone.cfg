CONSTANTS
  Products = {tea, bread}
  Requests = {r1, r2, r3, r4}
  Quantities = {1, 2}
  MaxOpen = 1
  NoOrder = NoOrder
  ServerMayFail = TRUE
  MayVanish = TRUE
SYMMETRY RequestsAndProducts
SPECIFICATION Spec
PROPERTY AtomicBasket
CHECK_DEADLOCK FALSE
