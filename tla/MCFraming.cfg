SPECIFICATION Spec
CONSTANTS
  Noise = Noise
  ack = ack
  arrived = arrived
  purchase = purchase
  ready = ready
  Messages = {ack, arrived, purchase, ready}
  pieces <- Pieces
  Long = {purchase, ready}
INVARIANTS NothingWrongWithoutCause TakingTurnsIsSafe
 
CHECK_DEADLOCK FALSE
