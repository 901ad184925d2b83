\* Blocks in any order, two proposers, refused payloads and a crash.
SPECIFICATION LiveSpec
CONSTANTS
    f1 = f1  f2 = f2  x = x
    Genesis = Genesis  None = None
    Block <- PairBlocks  Certified <- PairBlocks  Final <- PairFinal
    heightOf <- PairHeight  viewOf <- PairView  parentOf <- PairParent
    TopHeight = 2  MaxView = 3
    WakeCapacity = 2  OrchCapacity = 2
    MaxAsks = 2  MaxRefusals = 1  MaxCrashes = 1
INVARIANTS
    TypeOK PendingAhead NoLostWakeup OrchestratorNeverBlocks ForkchoiceCaughtUp
PROPERTIES
    ExecutesInOrder ExecutesAll ProposersReleased
CHECK_DEADLOCK FALSE
