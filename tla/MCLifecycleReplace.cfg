SPECIFICATION FairSpec
CONSTANTS
    MaxSessions = 2
    Events = {"failure", "lateExit"}
PROPERTY ReplacedIsSilent
 
PROPERTY ServiceStops
CHECK_DEADLOCK FALSE
