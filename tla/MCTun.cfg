SPECIFICATION Spec
CONSTANTS
    Replies <- AllReplies
    Lans <- LocalNets
    mAllowLocalLAN = TRUE
    None = None
    MaxDns = 3
INVARIANT TunMatchesReply
INVARIANT UpHasReply
PROPERTY UnchangedIsKept
