CONSTANTS
  w_list <- Diagonal
  Coords <- Near
  IntMin <- SevenBitMin
  IntMax = 63
  FarAway = 100
SPECIFICATION Spec
INVARIANT SomeChosen
INVARIANT NearestChosen
CHECK_DEADLOCK FALSE
