SPECIFICATION Spec
CONSTANTS
    Account = {a1, a2}
    All = All
    CurrencyOf <- MCCurrencyOf
    Kind <- MCKind
    Category <- MCCategory
    DayLength = 2
    LastDay = 2
    ShortWindow = 2
    LongWindow = 3
    MaxTx = 3
SYMMETRY Interchangeable
INVARIANT TypeOK
INVARIANT BalanceCatchesUp
 
INVARIANT ExpensesAgree
INVARIANT SummaryIsRecent
CHECK_DEADLOCK FALSE
