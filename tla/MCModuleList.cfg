SPECIFICATION FairSpec
CONSTANTS
    Top = 4
    None = None
    Count = 3
    Entries = {1, 2, 3}
    Dump <- AnyButEmptyAtZero
    Shrinks = {TRUE, FALSE}
INVARIANT RetrievesAsPromised
INVARIANT ModulesOwnTheirAddresses
INVARIANT ShrunkCopyAgrees
PROPERTY KeepsPromise
PROPERTY ReadingEnds
CHECK_DEADLOCK FALSE
