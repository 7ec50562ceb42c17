SPECIFICATION PageSpec
CONSTANTS
    User = {u1, u2}
    Password = {p1, p2}
    Jti = {j1, j2, j3}
    Slot = {s1, s2}
    MaxAged = 1
    Parallel = 2
    MaxFaults = 1
    NoUser = NoUser
    NoPassword = NoPassword
    NoJti = NoJti
    NoSlot = NoSlot
SYMMETRY Interchangeable
CONSTRAINT OnePassword
 
INVARIANT CookiesWork
INVARIANT CookiesFollowTheUser
INVARIANT NoDashboardSignedOut
