SPECIFICATION HoldSpec
CONSTANTS
    Nets = {wifi, mobile}
    NoNet = NoNet
    MaxTimers = 2
    Events = {"connected", "lost", "screen", "user", "traffic", "restart"}
    HoldIgnoresUsr1 = TRUE
    MaxCmds = 3
    MaxMsgs = 2
INVARIANT HoldTypeOK
INVARIANT HoldOwedOnce
INVARIANT PendingIsCovered
INVARIANT StatusAgrees
PROPERTY UserPauseHolds
PROPERTY WakeupIssued
PROPERTY ResumeOnlyWhenWanted
