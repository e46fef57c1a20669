SPECIFICATION Spec
CONSTANTS
    Width = 3
    MaxNets = 4
INVARIANT NoAddressLost
INVARIANT DoneIsDisjoint
INVARIANT RoutesMatch
PROPERTY Terminates
