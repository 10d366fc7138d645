CONSTANTS
    Users = {1, 2}
    Admins = {1, 2}
    Calls = {c1, c2}
    NoUser = NoUser
    NoCall = NoCall
    MaxAttempts = 2
SPECIFICATION FairSpec
INVARIANT OrderAvoidsDeadlock
PROPERTY EveryCallEnds
