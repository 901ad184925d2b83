\* Proposals and verdicts in three views, the second of which loses its block.
SPECIFICATION LiveSpec
CONSTANTS
    f1 = f1  f2 = f2  x = x
    Genesis = Genesis  None = None
    Block <- ForkBlocks  Certified <- ForkBlocks  Final <- ForkFinal
    heightOf <- ForkHeight  viewOf <- ForkView  parentOf <- ForkParent
    TopHeight = 2  MaxView = 3
    Offered <- PeerBlocks
INVARIANTS
    TypeOK BroadcastIsBuilt ProposalsVerify
PROPERTIES
    RequestsTaken
CHECK_DEADLOCK FALSE
