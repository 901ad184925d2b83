\* Messages in any order, and a crash that loses part of the archives: a height to backfill
\* below a stored block, and the block notarized in view 2 loses to the final one of view 3.
SPECIFICATION Spec
CONSTANTS
    f1 = f1  f2 = f2  x = x
    Genesis = Genesis  None = None
    Block <- ForkBlocks  Certified <- ForkBlocks  Final <- ForkFinal
    heightOf <- ForkHeight  viewOf <- ForkView  parentOf <- ForkParent
    TopHeight = 2  MaxView = 3
    ActivityTimeout = 0  ItemsPerSection = 1  RepairBatch = 20  WakeCapacity = 1
    MaxCrashes = 1
    Gossiped <- Second  Verifiable <- First  Reported <- ForkOnly
    Decided <- BothFinal  Asked <- ForkOnly
INVARIANTS
    TypeOK BlocksAreFinal PruneKeepsUnprocessed NothingFetchedBehind RequestsStayAlive ServedCertificatesAccepted
PROPERTIES
    PursuedUntilDone
CHECK_DEADLOCK FALSE
