SPECIFICATION FairSpec
CONSTANTS
    User = {u1}
    Notified = {u1}
    Account = {a1}
    Tx = {t1}
    AccountOf <- MCAccountOf
    Worker = {w1, w2}
    Slot = {s1, s2}
    WorkerOf <- MCApart
    LoaderUser = u1
    LoaderAccount = a1
    Statement = {t1}
    MaxKey = 2
    MaxFaults = 1
    NoUser = NoUser
    NoTx = NoTx
PROPERTY StoredInTheEnd
