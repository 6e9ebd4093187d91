SPECIFICATION FairIntakeSpec
CONSTANTS
  o1 = o1
  o2 = o2
  o3 = o3
  Orders = {o1, o2, o3}
  Unfit = {o3}
  parts <- Lengths
  MaxFds = 2
  MaxBroken = 1
  MaxLost = 1
  MaxRestarts = 1
INVARIANTS SameWorld NoSecondChance IntakeTypeOK ProcessedIsWhole OnlyBrokenHarm
PROPERTIES StartsOrFails SentIsProcessed
CHECK_DEADLOCK FALSE
