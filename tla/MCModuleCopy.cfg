SPECIFICATION ModulesSpec
CONSTANTS
    Top = 4
    None = None
    Count = 3
    Entries = {1, 2, 3}
    Dump <- AnyButEmptyAtZero
    Shrinks = {FALSE}
INVARIANT CopyAgrees
CHECK_DEADLOCK FALSE
