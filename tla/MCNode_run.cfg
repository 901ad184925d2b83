\* The node hears of the second finalization only and backfills the first height, with a
\* proposer and a crash on the way.
SPECIFICATION LiveSpec
CONSTANTS
    f1 = f1  f2 = f2  x = x
    Genesis = Genesis  None = None
    Block <- PairBlocks  Certified <- PairBlocks  Final <- PairFinal
    heightOf <- PairHeight  viewOf <- PairView  parentOf <- PairParent
    TopHeight = 2  MaxView = 2
    ActivityTimeout = 0  ItemsPerSection = 1  RepairBatch = 20
    WakeCapacity = 1  OrchCapacity = 2
    MaxAsks = 1  MaxRefusals = 0  MaxCrashes = 1
    Gossiped <- Nobody  Verifiable <- First  Reported <- Nobody
    Decided <- Second  Asked <- Nobody  Extended <- One
INVARIANTS
    RequestsInOrder NoLostWakeup GapIsFetched
PROPERTIES
    SyncerRuns FinalizerRuns CatchesUp
CHECK_DEADLOCK FALSE
