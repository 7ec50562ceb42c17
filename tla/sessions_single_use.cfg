SPECIFICATION Spec
CONSTANTS
    User = {u1}
    Password = {p1, p2}
    Jti = {j1, j2, j3}
    Slot = {s1, s2}
    MaxAged = 1
    NoUser = NoUser
    NoPassword = NoPassword
    NoJti = NoJti
    NoSlot = NoSlot
INVARIANT SingleUse
