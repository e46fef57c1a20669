SPECIFICATION FairHoldSpec
CONSTANTS
    Nets = {wifi}
    NoNet = NoNet
    MaxTimers = 1
    Events = {"connected", "screen"}
    HoldIgnoresUsr1 = FALSE
    MaxCmds = 2
    MaxMsgs = 1
PROPERTY ConnectsWhenWanted
