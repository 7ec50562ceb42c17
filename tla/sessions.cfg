SPECIFICATION Spec
CONSTANTS
    User = {u1, u2}
    Password = {p1, p2}
    Jti = {j1, j2, j3}
    Slot = {s1, s2}
    MaxAged = 1
    NoUser = NoUser
    NoPassword = NoPassword
    NoJti = NoJti
    NoSlot = NoSlot
SYMMETRY Interchangeable
INVARIANT TypeOK
INVARIANT WinnerKeepsPassword
INVARIANT OneSuccessorPerHandler
INVARIANT SameAccount
INVARIANT RotationCompletes
INVARIANT LogoutIsFinal
INVARIANT AnsweredPairIsLive
PROPERTY OnlyPresentedTokensDie
PROPERTY ImplementsLedger
