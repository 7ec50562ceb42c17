SPECIFICATION Spec
CONSTANTS
    User = {u1, u2}
    Notified = {u1}
    Account = {a1}
    Tx = {t1, t2}
    AccountOf <- MCAccountOf
    Worker = {w1}
    Slot = {s1, s2}
    WorkerOf <- MCOneWorker
    LoaderUser = u1
    LoaderAccount = a1
    Statement = {t1, t2}
    MaxKey = 2
    MaxFaults = 1
    NoUser = NoUser
    NoTx = NoTx
INVARIANT TypeOK
INVARIANT AnnouncedOnceStored
INVARIANT AckedIsStored
INVARIANT OnlySignedIsStored
INVARIANT StatementLoadedWhole
INVARIANT LoadedAndDated
PROPERTY ImplementsBook
