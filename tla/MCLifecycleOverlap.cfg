SPECIFICATION Spec
CONSTANTS
    MaxSessions = 2
    Events = {"overlap"}
INVARIANT OldSessionsStop
CHECK_DEADLOCK FALSE
