\* The files of two nodes, and the registry of the second, whose set changes twice.
SPECIFICATION Spec
CONSTANTS
    N = 2  Key <- SixKeys  FirstKeys <- CommittedKeys  self = 2  MaxRuns = 2
    Unreadable = Unreadable
    Candidate <- Three  MaxViews = 3
INVARIANTS
    TypeOK OwnIndexHasShare MapMatchesList LookupsAnswer ResolverNotStale
PROPERTIES
    ViewsStay KeepsMembership
CHECK_DEADLOCK FALSE
