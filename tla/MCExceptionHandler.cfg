SPECIFICATION FairSpec
CONSTANTS
    t1 = t1
    t2 = t2
    segv = segv
    h1 = h1
    h2 = h2
    abrt = abrt
    Threads <- MCThreads
    Signals <- MCSignals
    Handlers = {h1, h2}
    Plans <- CleanPlans
    None = None
INVARIANT TypeOK
INVARIANT HandlersSerialized
INVARIANT DumpsOwnContext
INVARIANT DumpIsAllowed
INVARIANT AltStackIsAllocated
INVARIANT PipesClosed
INVARIANT RejectedReachesPrevious
INVARIANT OfferedBeforeDeath
PROPERTY CrashKills
CHECK_DEADLOCK FALSE
