SPECIFICATION FairSpec
CONSTANTS
    c1 = c1
    c2 = c2
    Clients = {c1, c2}
    None = None
    MaxRequests <- OneAsks
    WaitsStartLate = TRUE
INVARIANT InfoIsValid
INVARIANT NoLateIo
INVARIANT ServerOutlivesCallbacks
PROPERTY RequestAnswered
PROPERTY NextClientServed
PROPERTY DestructorEnds
CHECK_DEADLOCK FALSE
