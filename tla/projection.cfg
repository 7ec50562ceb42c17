SPECIFICATION Spec
CONSTANTS
    DaysBefore <- MCDaysBefore
    IncomeDay = {1, 3, 5, 6}
    IncomeWindow = {1, 2}
    Amount = {13, 22}
    Limit = {1, 2}
    Percent = {60}
    Target = {9, 20}
    GoalDays = {8}
    MaxPayments = 2
INVARIANT WindowOpenedLast
INVARIANT OnTrackArrives
INVARIANT ShortfallMakesUp
PROPERTY SalaryKept
 
