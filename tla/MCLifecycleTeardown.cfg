SPECIFICATION Spec
CONSTANTS
    MaxSessions = 2
    Events = {"userStop", "revoke", "lateExit"}
INVARIANT OldSessionsStop
CHECK_DEADLOCK FALSE
