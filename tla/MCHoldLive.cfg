SPECIFICATION FairHoldSpec
CONSTANTS
    Nets = {wifi}
    NoNet = NoNet
    MaxTimers = 1
    Events = {"connected", "lost", "screen", "user", "traffic", "restart"}
    HoldIgnoresUsr1 = TRUE
    MaxCmds = 2
    MaxMsgs = 1
PROPERTY PauseTakesEffect
PROPERTY LostNetworkPauses
