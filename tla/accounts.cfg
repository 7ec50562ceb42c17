SPECIFICATION FairSpec
CONSTANTS
    UserId = {1, 2, 3}
    Telegram = {t1, t2}
    EmailUser = {1}
    Secret = {k1}
    RowId = {1, 2, 3, 4}
    Slot = {s1, s2}
    MaxFaults = 1
    NoTelegram = NoTelegram
    NoRow = NoRow
    NoUser = NoUser
    NoSecret = NoSecret
INVARIANT TypeOK
INVARIANT GreetedAsThemselves
INVARIANT OneTokenPerUser
PROPERTY DeletedTokenStaysDeleted
PROPERTY KeepsGettingIn
