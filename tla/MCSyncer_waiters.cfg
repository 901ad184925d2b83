\* A verifier waits for a parent that the resolver then fetches.
SPECIFICATION LiveSpec
CONSTANTS
    f1 = f1  f2 = f2  x = x
    Genesis = Genesis  None = None
    Block <- PairBlocks  Certified <- PairBlocks  Final <- PairFinal
    heightOf <- PairHeight  viewOf <- PairView  parentOf <- PairParent
    TopHeight = 2  MaxView = 3
    ActivityTimeout = 1  ItemsPerSection = 1  RepairBatch = 20  WakeCapacity = 1
    MaxCrashes = 0
    Gossiped <- Nobody  Verifiable <- Nobody  Reported <- Nobody  Decided <- BothFinal  Asked <- First
PROPERTIES
    WaitersServed
CHECK_DEADLOCK FALSE
