----------------------------- MODULE Projection -----------------------------
(***************************************************************************)
(* What a savings goal shows from day to day: the salary detection and the *)
(* progress arithmetic of src/services/goals.py.                           *)
(*                                                                         *)
(* Everything shown is computed at the moment of the request from today's  *)
(* date, the user's configuration and the payments in user_transaction;    *)
(* nothing is kept from one day to the next.  So the state is what those   *)
(* are, and the steps are what changes them.                               *)
(*                                                                         *)
(* Days are numbered from the first day of month 1.  Amounts are in        *)
(* kopecks; // and int() of non-negative numbers are \div (their floats    *)
(* are exact far beyond any amount).  The income day and its window are    *)
(* set, as they are whenever a goal can be shown without set_income.       *)
(* A definition X_Y is definition X with the plausible bug Y.              *)
(***************************************************************************)
EXTENDS Integers, Sequences, FiniteSets, FiniteSetsExt

CONSTANTS
    DaysBefore,     \* the days before consecutive months; the first month only lies before
    IncomeDay,      \* the income days and windows a user may have configured
    IncomeWindow,
    Amount,         \* the payments and incomes that occur
    Limit,          \* the daily limits a user may set
    Percent, Target,
    GoalDays,       \* how many days before its deadline a goal may be created
    MaxPayments     \* the bound on payments

ASSUME ProjectionAssumption ==
    /\ DaysBefore \in Seq(Nat) /\ Len(DaysBefore) > 2
    /\ \A m, n \in DOMAIN DaysBefore : m < n => DaysBefore[m] < DaysBefore[n]
    /\ IncomeDay \subseteq Nat \ {0}
    /\ IncomeWindow \subseteq Nat \ {0}
    /\ \A m \in 1..(Len(DaysBefore) - 1) : \A w \in IncomeWindow :
           w < DaysBefore[m + 1] - DaysBefore[m]
    /\ Amount \subseteq Nat \ {0}
    /\ Limit \subseteq Nat \ {0}
    /\ Percent \subseteq 1..100
    /\ Target \subseteq Nat \ {0}
    /\ GoalDays \subseteq Nat
    /\ MaxPayments \in Nat

VARIABLES
    month, day,    \* date.today()
    paid,          \* the positive transactions of the user: [day, amount]
    config,        \* the row in spending_config
    goal           \* the row in savings_goal

vars == <<month, day, paid, config, goal>>

\* The last of DaysBefore is where the last month ends.
Month == 1..(Len(DaysBefore) - 1)

MonthLength == [m \in Month |-> DaysBefore[m + 1] - DaysBefore[m]]

DayNumber(m, d) == DaysBefore[m] + d

Today == DayNumber(month, day)

\* set_income is 0 when it is not set.
Init ==
    /\ month = 2
    /\ day = 1
    /\ paid = {}
    /\ config \in [income_day : IncomeDay, income_window : IncomeWindow,
                   daily_limit : Limit, set_income : {0}]
    /\ goal \in [created : {DayNumber(2, 1)}, percent : Percent, target : Target,
                 deadline : {DayNumber(2, 1) + n : n \in GoalDays}]
-----------------------------------------------------------------------------
(* _detect_salary *)

\* Which month's salary is looked for.  The income day is not clamped here.
RefMonth_Late(m, d, c) == IF d > c.income_day - c.income_window THEN m ELSE m - 1
RefMonth(m, d, c) == IF d >= c.income_day - c.income_window THEN m ELSE m - 1

Clamped(m, c) == IF c.income_day < MonthLength[m] THEN c.income_day ELSE MonthLength[m]

Center(m, c) == DayNumber(m, Clamped(m, c))

SalaryWindow(m, c) == (Center(m, c) - c.income_window)..(Center(m, c) + c.income_window)

Payments == {p \in paid : p.day \in SalaryWindow(RefMonth(month, day, config), config)}

\* The salary of a set of payments: the largest of them.
SalaryOf_Latest(P) == (CHOOSE p \in P : \A q \in P : q.day <= p.day).amount
SalaryOf(P) == Max({p.amount : p \in P})

\* The detected income, 0 when there is none.
Salary ==
    IF config.set_income # 0 THEN config.set_income
    ELSE IF Payments = {} THEN 0 ELSE SalaryOf(Payments)
-----------------------------------------------------------------------------
(* _build_response *)

DaysInMonth_SoFar == day
DaysInMonth == MonthLength[month]

DailyBudget == IF Salary # 0 THEN Salary \div DaysInMonth ELSE config.daily_limit

PlannedPerDay ==
    IF DailyBudget > config.daily_limit THEN DailyBudget - config.daily_limit ELSE 0

TotalDays == IF Today >= goal.created THEN Today - goal.created + 1 ELSE 1

CurrentSaved == (TotalDays * PlannedPerDay * goal.percent) \div 100

DailyRate_WholeBudget == PlannedPerDay
DailyRate == CurrentSaved \div TotalDays

Reached == CurrentSaved >= goal.target

Remaining == goal.target - CurrentSaved

\* projected_completion is a day when there is one.
IsProjected == DailyRate > 0 /\ ~Reached

ProjectedDay == Today + Remaining \div DailyRate

DaysRemaining == goal.deadline - Today

OnTrack ==
    \/ Reached
    \/ DaysRemaining > 0 /\ IsProjected /\ ProjectedDay <= goal.deadline

\* needed_per_day - daily_savings_rate, when it is asked for.
Shortfall_OfTarget ==
    LET needed == goal.target \div (DaysRemaining + TotalDays)
    IN  IF needed > DailyRate THEN needed - DailyRate ELSE 0
Shortfall ==
    LET needed == Remaining \div DaysRemaining
    IN  IF needed > DailyRate THEN needed - DailyRate ELSE 0
-----------------------------------------------------------------------------
(* What changes from one request to the next *)

Tick ==
    /\ IF day < MonthLength[month]
         THEN day' = day + 1 /\ UNCHANGED month
         ELSE /\ month + 1 \in Month
              /\ month' = month + 1
              /\ day' = 1
    /\ UNCHANGED <<paid, config, goal>>

\* A positive transaction is stored.
Pay(a) ==
    /\ Cardinality(paid) < MaxPayments
    /\ paid' = paid \cup {[day |-> Today, amount |-> a]}
    /\ UNCHANGED <<month, day, config, goal>>

\* PUT /goals/config
upsert_daily_limit(l) ==
    /\ config' = [config EXCEPT !.daily_limit = l]
    /\ UNCHANGED <<month, day, paid, goal>>

\* PUT /goals/config/set_income, with 0 or null to unset it.
upsert_set_income(a) ==
    /\ config' = [config EXCEPT !.set_income = a]
    /\ UNCHANGED <<month, day, paid, goal>>

Next ==
    \/ Tick
    \/ \E a \in Amount : Pay(a)
    \/ \E l \in Limit : upsert_daily_limit(l)
    \/ \E a \in Amount \cup {0} : upsert_set_income(a)

Spec == Init /\ [][Next]_vars
-----------------------------------------------------------------------------
(* Properties *)

\* The month, up to the next one, whose window opened last: what "the current
\* budget period" means for a clamped income day.
Opened == {m \in Month : Center(m, config) - config.income_window <= Today}

\* The salary looked for is the one whose window opened last, when the window lies
\* in its month and the month has the income day.  At the ends of a month, where
\* the two comparisons disagree, it is one period behind at most; a window that
\* is not open yet is never taken.
WindowOpenedLast ==
    LET m == RefMonth(month, day, config) IN
    /\ m \in {Max(Opened), Max(Opened) - 1}
    /\ /\ config.income_day - config.income_window >= 1
       /\ config.income_day <= MonthLength[month]
       => m = Max(Opened)

\* A detected salary is neither forgotten nor replaced by a smaller payment until
\* the next window opens.
SalaryKept ==
    [][/\ config' = config
       /\ RefMonth(month', day', config) = RefMonth(month, day, config)
       => Salary' >= Salary]_vars

\* Savings do not go backwards within a month while the salary and the limit stay.
\* (They do at the turn of a month, which all days are then budgeted by.)
SavedGrowsWithinMonth ==
    [][/\ config' = config /\ month' = month /\ Salary' = Salary
       => CurrentSaved' >= CurrentSaved]_vars

\* What the goal will show as saved in n days, if nothing changes until then.
SavedIn(n) == ((TotalDays + n) * PlannedPerDay * goal.percent) \div 100

\* A goal that is shown as on track will be shown as reached by the day after its
\* deadline, if nothing changes: the projection rounds the rate and the days down.
OnTrackArrives ==
    OnTrack /\ DaysRemaining > 0 => SavedIn(DaysRemaining + 1) >= goal.target

\* A goal that is not on track does fall short at the rate shown, and saving the
\* shortfall and one more kopeck each day makes up for it.
ShortfallMakesUp ==
    ~OnTrack /\ DaysRemaining > 0 =>
        /\ CurrentSaved + DaysRemaining * DailyRate < goal.target
        /\ CurrentSaved + DaysRemaining * (DailyRate + Shortfall + 1) >= goal.target
=============================================================================
