\* Finding.
SPECIFICATION Spec
CONSTANTS
    f1 = f1  f2 = f2  x = x
    Genesis = Genesis  None = None
    Block <- PairBlocks  Certified <- PairBlocks  Final <- PairFinal
    heightOf <- PairHeight  viewOf <- PairView  parentOf <- PairParent
    TopHeight = 2  MaxView = 3
    WakeCapacity = 1  OrchCapacity = 2
    MaxAsks = 0  MaxRefusals = 1  MaxCrashes = 0
INVARIANTS
    WaitsOnlyWhenIdle
CHECK_DEADLOCK FALSE
