\* A peer asks for a block that only the notarized archive holds.
SPECIFICATION Spec
CONSTANTS
    f1 = f1  f2 = f2  x = x
    Genesis = Genesis  None = None
    Block <- PairBlocks  Certified <- PairBlocks  Final <- PairFinal
    heightOf <- PairHeight  viewOf <- PairView  parentOf <- PairParent
    TopHeight = 2  MaxView = 3
    ActivityTimeout = 1  ItemsPerSection = 1  RepairBatch = 20  WakeCapacity = 1
    MaxCrashes = 0
    Gossiped <- Nobody  Verifiable <- First  Reported <- First  Decided <- BothFinal  Asked <- Nobody
INVARIANTS
    ServedBlocksAccepted
CHECK_DEADLOCK FALSE
