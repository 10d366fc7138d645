CONSTANTS
    Users = {1, 2, 3}
    Admins = {1, 2}
    Calls = {c1, c2}
    NoUser = NoUser
    NoCall = NoCall
    MaxAttempts = 2
SPECIFICATION Spec
SYMMETRY Symmetry
INVARIANTS TypeOK AdminRemains ActiveBelowLimit
PROPERTIES OnlyLockoutsExpire
