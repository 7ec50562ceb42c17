-------------------------- MODULE ProjectionProofs --------------------------
(***************************************************************************)
(* Theorems about Projection for every calendar, configuration, goal and   *)
(* set of payments: which salary is looked for, and what the roundings of  *)
(* the progress arithmetic can cost.                                       *)
(***************************************************************************)
EXTENDS Projection, TLAPS

-----------------------------------------------------------------------------
(* Integer division *)

LEMMA Quotient ==
    ASSUME NEW a \in Nat, NEW b \in Nat \ {0}
    PROVE  /\ a \div b \in Nat
           /\ b * (a \div b) <= a
           /\ a < b * (a \div b) + b
OBVIOUS

LEMMA QuotientGrows ==
    ASSUME NEW a \in Nat, NEW b \in Nat, NEW c \in Nat \ {0}, a <= b
    PROVE  a \div c <= b \div c
OBVIOUS

LEMMA ProductGrows ==
    ASSUME NEW a \in Nat, NEW b \in Nat, NEW c \in Nat, a <= b
    PROVE  a * c <= b * c
OBVIOUS

LEMMA ProductTyped ==
    ASSUME NEW a \in Nat, NEW b \in Nat
    PROVE  a * b \in Nat
OBVIOUS

\* The rate shown is at most what a day adds: n more days at the rate shown are
\* worth no more than what the goal will show.
LEMMA RateIsCautious ==
    ASSUME NEW days \in Nat \ {0}, NEW perDay \in Nat, NEW n \in Nat
    PROVE  LET saved == (days * perDay) \div 100
               rate == saved \div days
           IN  saved + n * rate <= ((days + n) * perDay) \div 100
<1> DEFINE saved == (days * perDay) \div 100
           rate == saved \div days
           later == ((days + n) * perDay) \div 100
<1>1. days * perDay \in Nat /\ n * perDay \in Nat
  BY ProductTyped
<1>2. saved \in Nat /\ 100 * saved <= days * perDay
  BY <1>1, Quotient
<1>3. rate \in Nat /\ days * rate <= saved
  BY <1>2, Quotient
<1>4. 100 * rate <= perDay
  <2>1. SUFFICES ASSUME perDay + 1 <= 100 * rate PROVE FALSE
    BY <1>3
  <2>2. days * (perDay + 1) <= days * (100 * rate)
    BY <2>1, <1>3, SMTT(30)
  <2>3. days * (100 * rate) = 100 * (days * rate) /\ days * (perDay + 1) = days * perDay + days
    BY <1>3, SMTT(30)
  <2> QED
    BY <1>1, <1>2, <1>3, <2>2, <2>3
<1>5. n * rate \in Nat /\ 100 * (n * rate) <= n * perDay
  <2>1. n * (100 * rate) <= n * perDay
    BY <1>3, <1>4, SMTT(30)
  <2>2. n * (100 * rate) = 100 * (n * rate)
    BY <1>3, SMTT(30)
  <2> QED
    BY <1>3, <2>1, <2>2, ProductTyped
<1>6. (days + n) * perDay = days * perDay + n * perDay
  BY SMTT(30)
<1>7. later \in Nat /\ (days + n) * perDay < 100 * later + 100
  BY <1>1, <1>6, Quotient
<1>8. saved + n * rate <= later
  <2> HIDE DEF saved, rate, later
  <2> QED
    BY <1>1, <1>2, <1>3, <1>5, <1>6, <1>7
<1> QED
  BY <1>8

-----------------------------------------------------------------------------
(* The calendar *)

LEMMA Calendar ==
    /\ Len(DaysBefore) \in Nat /\ Len(DaysBefore) > 2
    /\ \A m \in Month : /\ m \in Nat /\ m + 1 \in 1..Len(DaysBefore)
                        /\ DaysBefore[m] \in Nat
                        /\ MonthLength[m] \in Nat \ {0}
                        /\ DaysBefore[m + 1] = DaysBefore[m] + MonthLength[m]
                        /\ \A n \in Month : m < n => DaysBefore[m + 1] <= DaysBefore[n]
<1>1. /\ DaysBefore \in Seq(Nat) /\ Len(DaysBefore) > 2
      /\ \A m, n \in DOMAIN DaysBefore : m < n => DaysBefore[m] < DaysBefore[n]
  BY ProjectionAssumption
<1>2. Len(DaysBefore) \in Nat /\ DOMAIN DaysBefore = 1..Len(DaysBefore)
  BY <1>1
<1>3. \A m \in 1..Len(DaysBefore) : DaysBefore[m] \in Nat
  BY <1>1, <1>2
<1>4. ASSUME NEW m \in Month
      PROVE  /\ m \in Nat /\ m + 1 \in 1..Len(DaysBefore)
             /\ DaysBefore[m] \in Nat
             /\ MonthLength[m] \in Nat \ {0}
             /\ DaysBefore[m + 1] = DaysBefore[m] + MonthLength[m]
             /\ \A n \in Month : m < n => DaysBefore[m + 1] <= DaysBefore[n]
  <2>1. m \in 1..(Len(DaysBefore) - 1)
    BY DEF Month
  <2>2. m \in 1..Len(DaysBefore) /\ m + 1 \in 1..Len(DaysBefore) /\ m < m + 1
    BY <2>1, <1>2
  <2>3. DaysBefore[m] \in Nat /\ DaysBefore[m + 1] \in Nat
    BY <2>2, <1>3
  <2>4. DaysBefore[m] < DaysBefore[m + 1]
    BY <2>2, <1>1, <1>2
  <2>5. MonthLength[m] = DaysBefore[m + 1] - DaysBefore[m]
    BY DEF MonthLength
  <2>6. ASSUME NEW n \in Month, m < n PROVE DaysBefore[m + 1] <= DaysBefore[n]
    <3>1. n \in 1..Len(DaysBefore) /\ (m + 1 = n \/ m + 1 < n)
      BY <2>1, <2>6, <1>2 DEF Month
    <3>2. DaysBefore[n] \in Nat
      BY <3>1, <1>3
    <3>3. CASE m + 1 = n
      BY <3>2, <3>3
    <3>4. CASE m + 1 < n
      <4>1. DaysBefore[m + 1] < DaysBefore[n]
        BY <3>1, <3>4, <2>2, <1>1, <1>2
      <4> QED
        BY <4>1, <3>2, <2>3
    <3> QED
      BY <3>1, <3>3, <3>4
  <2> QED
    BY <2>1, <2>2, <2>3, <2>4, <2>5, <2>6
<1> QED
  BY <1>1, <1>2, <1>4

-----------------------------------------------------------------------------
(* The invariant *)

\* Today is a day of its month, and what is stored is well formed.
TypeInv ==
    /\ month \in Month \ {1}
    /\ day \in 1..MonthLength[month]
    /\ paid \subseteq [day : Int, amount : Amount]
    /\ config \in [income_day : IncomeDay, income_window : IncomeWindow, daily_limit : Limit,
                   set_income : Amount \cup {0}]
    /\ goal \in [created : Nat, percent : Percent, target : Target, deadline : Nat]

\* Of any payments one is the largest: the salary they show is one of them.
LargestInv ==
    \A P \in SUBSET paid : P # {} => \E p \in P : \A q \in P : p.amount >= q.amount

ProjectionInv == TypeInv /\ LargestInv

LEMMA ProjectionInvInit == Init => ProjectionInv
<1> SUFFICES ASSUME Init PROVE ProjectionInv
    OBVIOUS
<1>1. 2 \in Month /\ DayNumber(2, 1) \in Nat /\ 1 \in 1..MonthLength[2]
  <2>1. 2 \in Month
    BY Calendar DEF Month
  <2> QED
    BY <2>1, Calendar DEF DayNumber
<1>2. goal.deadline \in Nat
  <2>1. PICK n \in GoalDays : goal.deadline = DayNumber(2, 1) + n
    BY DEF Init
  <2> QED
    BY <2>1, <1>1, ProjectionAssumption
<1>3. goal \in [created : Nat, percent : Percent, target : Target, deadline : Nat]
  BY <1>1, <1>2 DEF Init
<1>4. TypeInv
  BY <1>1, <1>3 DEF Init, TypeInv
<1> QED
  BY <1>4 DEF Init, LargestInv, ProjectionInv

\* A payment more leaves a largest one.
LEMMA LargestOfMore ==
    ASSUME NEW Q, NEW x, x.amount \in Nat, \A p \in Q : p.amount \in Nat,
           \A P \in SUBSET Q : P # {} => \E p \in P : \A q \in P : p.amount >= q.amount
    PROVE  \A P \in SUBSET (Q \cup {x}) : P # {} => \E p \in P : \A q \in P : p.amount >= q.amount
<1> TAKE P \in SUBSET (Q \cup {x})
<1> HAVE P # {}
<1> DEFINE R == P \ {x}
<1>1. R \in SUBSET Q
  OBVIOUS
<1>2. CASE R = {}
  BY <1>2
<1>3. CASE R # {}
  <2>1. PICK p \in R : \A q \in R : p.amount >= q.amount
    BY <1>1, <1>3
  <2>2. CASE x \in P /\ x.amount > p.amount
    <3>1. \A q \in P : x.amount >= q.amount
      BY <2>1, <2>2, <1>1
    <3> QED
      BY <2>2, <3>1
  <2>3. CASE x \notin P \/ x.amount <= p.amount
    <3>1. \A q \in P : p.amount >= q.amount
      BY <2>1, <2>3, <1>1
    <3> QED
      BY <2>1, <3>1
  <2> QED
    BY <2>1, <2>2, <2>3, <1>1
<1> QED
  BY <1>2, <1>3

LEMMA ProjectionInvStep == ProjectionInv /\ [Next]_vars => ProjectionInv'
<1> SUFFICES ASSUME ProjectionInv, [Next]_vars PROVE ProjectionInv'
    OBVIOUS
<1>1. CASE Tick
  <2>1. UNCHANGED <<paid, config, goal>>
    BY <1>1 DEF Tick
  <2>2. month' \in Month \ {1} /\ day' \in 1..MonthLength[month']
    <3>1. CASE day < MonthLength[month]
      BY <1>1, <3>1, Calendar DEF Tick, ProjectionInv, TypeInv
    <3>2. CASE ~(day < MonthLength[month])
      <4>1. month + 1 \in Month /\ month' = month + 1 /\ day' = 1
        BY <1>1, <3>2 DEF Tick
      <4>2. month \in Nat \ {0}
        BY DEF ProjectionInv, TypeInv, Month
      <4> QED
        BY <4>1, <4>2, Calendar
    <3> QED
      BY <3>1, <3>2
  <2> QED
    BY <2>1, <2>2 DEF ProjectionInv, TypeInv, LargestInv
<1>2. ASSUME NEW a \in Amount, Pay(a) PROVE ProjectionInv'
  <2> DEFINE x == [day |-> Today, amount |-> a]
  <2>1. UNCHANGED <<month, day, config, goal>> /\ paid' = paid \cup {x}
    BY <1>2 DEF Pay
  <2>2. Today \in Int
    BY Calendar DEF ProjectionInv, TypeInv, Today, DayNumber
  <2>3. x \in [day : Int, amount : Amount]
    BY <2>2
  <2>4. TypeInv'
    BY <2>1, <2>3 DEF ProjectionInv, TypeInv
  <2>5. x.amount \in Nat /\ \A p \in paid : p.amount \in Nat
    BY <2>3, ProjectionAssumption DEF ProjectionInv, TypeInv
  <2>6. LargestInv'
    <3> HIDE DEF x
    <3>1. \A P \in SUBSET (paid \cup {x}) :
              P # {} => \E p \in P : \A q \in P : p.amount >= q.amount
      BY <2>5, LargestOfMore DEF ProjectionInv, LargestInv
    <3> QED
      BY <2>1, <3>1 DEF LargestInv
  <2> QED
    BY <2>4, <2>6 DEF ProjectionInv
<1>3. ASSUME NEW l \in Limit, upsert_daily_limit(l) PROVE ProjectionInv'
  <2>1. UNCHANGED <<month, day, paid, goal>> /\ config' = [config EXCEPT !.daily_limit = l]
    BY <1>3 DEF upsert_daily_limit
  <2> QED
    BY <2>1 DEF ProjectionInv, TypeInv, LargestInv
<1>4. ASSUME NEW a \in Amount \cup {0}, upsert_set_income(a) PROVE ProjectionInv'
  <2>1. UNCHANGED <<month, day, paid, goal>> /\ config' = [config EXCEPT !.set_income = a]
    BY <1>4 DEF upsert_set_income
  <2> QED
    BY <2>1 DEF ProjectionInv, TypeInv, LargestInv
<1>5. CASE UNCHANGED vars
  BY <1>5 DEF vars, ProjectionInv, TypeInv, LargestInv
<1> QED
  BY <1>1, <1>2, <1>3, <1>4, <1>5 DEF Next

\* Dates, rows and payments keep their shape, and among any payments one is the largest.
THEOREM ProjectionInvariant == Spec => []ProjectionInv
<1> QED
  BY ProjectionInvInit, ProjectionInvStep, PTL DEF Spec

-----------------------------------------------------------------------------
(* The salary *)

\* Detection has a set of payments to choose from, and a larger set never shows a
\* smaller salary.
LEMMA LargestIsSalary ==
    ASSUME NEW P, P # {}, \A p \in P : p.amount \in Nat,
           \E p \in P : \A q \in P : p.amount >= q.amount
    PROVE  /\ SalaryOf(P) \in {p.amount : p \in P}
           /\ \A q \in P : SalaryOf(P) >= q.amount
<1> DEFINE A == {p.amount : p \in P}
<1>1. PICK p \in P : \A q \in P : p.amount >= q.amount
  OBVIOUS
<1>2. p.amount \in A /\ \A y \in A : p.amount >= y
  BY <1>1
<1>3. Max(A) \in A /\ \A y \in A : Max(A) >= y
  <2> HIDE DEF A
  <2> QED
    BY <1>2 DEF Max
<1> QED
  BY <1>3 DEF SalaryOf

LEMMA SalaryOfPaid ==
    ASSUME ProjectionInv, NEW P \in SUBSET paid, P # {}
    PROVE  /\ SalaryOf(P) \in Amount
           /\ \A q \in P : SalaryOf(P) >= q.amount
           /\ \E p \in P : SalaryOf(P) = p.amount
<1>1. \A p \in P : p.amount \in Amount /\ p.amount \in Nat
  BY ProjectionAssumption DEF ProjectionInv, TypeInv
<1>2. \E p \in P : \A q \in P : p.amount >= q.amount
  BY DEF ProjectionInv, LargestInv
<1>3. SalaryOf(P) \in {p.amount : p \in P} /\ \A q \in P : SalaryOf(P) >= q.amount
  BY <1>1, <1>2, LargestIsSalary
<1> QED
  BY <1>1, <1>3

LEMMA SalaryIsNatural ==
    ASSUME ProjectionInv
    PROVE  Salary \in Nat
<1>1. Payments \in SUBSET paid
  BY DEF Payments
<1>2. CASE config.set_income # 0
  BY <1>2, ProjectionAssumption DEF Salary, ProjectionInv, TypeInv
<1>3. CASE config.set_income = 0 /\ Payments = {}
  BY <1>3 DEF Salary
<1>4. CASE config.set_income = 0 /\ Payments # {}
  BY <1>1, <1>4, SalaryOfPaid, ProjectionAssumption DEF Salary
<1> QED
  BY <1>2, <1>3, <1>4

LEMMA SalaryKeptStep ==
    ASSUME ProjectionInv, ProjectionInv', [Next]_vars, config' = config,
           RefMonth(month', day', config) = RefMonth(month, day, config)
    PROVE  Salary' >= Salary
<1>1. paid \subseteq paid'
  BY DEF Next, vars, Tick, Pay, upsert_daily_limit, upsert_set_income
<1>2. Salary \in Nat
  BY SalaryIsNatural
<1>3. Salary' \in Nat
  <2>1. Payments' \in SUBSET paid'
    BY DEF Payments
  <2>2. CASE config.set_income # 0
    BY <2>2, ProjectionAssumption DEF Salary, ProjectionInv, TypeInv
  <2>3. CASE config.set_income = 0 /\ Payments' = {}
    BY <2>3 DEF Salary
  <2>4. CASE config.set_income = 0 /\ Payments' # {}
    <3>1. \A p \in Payments' : p.amount \in Amount /\ p.amount \in Nat
      BY <2>1, ProjectionAssumption DEF ProjectionInv, TypeInv
    <3>2. \E p \in Payments' : \A q \in Payments' : p.amount >= q.amount
      BY <2>1, <2>4 DEF ProjectionInv, LargestInv
    <3>3. SalaryOf(Payments') \in {p.amount : p \in Payments'}
      BY <2>4, <3>1, <3>2, LargestIsSalary
    <3> QED
      BY <2>4, <3>1, <3>3 DEF Salary
  <2> QED
    BY <2>2, <2>3, <2>4
<1>4. Payments \subseteq Payments'
  BY <1>1 DEF Payments
<1>5. CASE config.set_income # 0
  BY <1>5, <1>2 DEF Salary
<1>6. CASE config.set_income = 0 /\ Payments = {}
  BY <1>6, <1>3 DEF Salary
<1>7. CASE config.set_income = 0 /\ Payments # {}
  <2>1. Payments' # {} /\ Payments' \in SUBSET paid'
    BY <1>4, <1>7 DEF Payments
  <2>2. \A p \in Payments' : p.amount \in Nat
    BY <2>1, ProjectionAssumption DEF ProjectionInv, TypeInv
  <2>3. \E p \in Payments' : \A q \in Payments' : p.amount >= q.amount
    BY <2>1 DEF ProjectionInv, LargestInv
  <2>4. \A q \in Payments' : SalaryOf(Payments') >= q.amount
    BY <2>1, <2>2, <2>3, LargestIsSalary
  <2>5. PICK p \in Payments : SalaryOf(Payments) = p.amount
    BY <1>7, SalaryOfPaid DEF Payments
  <2>6. Salary' = SalaryOf(Payments') /\ Salary = SalaryOf(Payments)
    BY <1>7, <2>1 DEF Salary
  <2> QED
    BY <1>4, <2>4, <2>5, <2>6
<1> QED
  BY <1>5, <1>6, <1>7

\* A detected salary does not shrink until the next window opens, whatever is paid.
THEOREM SalaryIsKept == Spec => SalaryKept
<1>1. ProjectionInv /\ ProjectionInv' /\ [Next]_vars =>
        [config' = config
         /\ RefMonth(month', day', config) = RefMonth(month, day, config)
         => Salary' >= Salary]_vars
  BY SalaryKeptStep
<1> QED
  BY <1>1, ProjectionInvariant, PTL DEF Spec, SalaryKept

-----------------------------------------------------------------------------
(* Progress *)

\* What the goal saves on a day, in hundredths of a kopeck.
PerDay == PlannedPerDay * goal.percent

LEMMA ProgressTyped ==
    ASSUME ProjectionInv
    PROVE  /\ Today \in Nat /\ goal.created \in Nat /\ goal.deadline \in Nat
           /\ goal.target \in Nat
           /\ DaysRemaining \in Int
           /\ TotalDays \in Nat \ {0}
           /\ PlannedPerDay \in Nat /\ goal.percent \in Nat /\ PerDay \in Nat
<1>1. Today \in Nat /\ MonthLength[month] \in Nat \ {0}
  BY Calendar DEF ProjectionInv, TypeInv, Today, DayNumber
<1>2. goal.created \in Nat /\ goal.deadline \in Nat /\ goal.target \in Nat /\ goal.percent \in Nat
  <2>1. goal.created \in Nat /\ goal.deadline \in Nat /\ goal.target \in Target /\ goal.percent \in Percent
    BY DEF ProjectionInv, TypeInv
  <2>2. (\A p \in Percent : p \in Nat) /\ (\A t \in Target : t \in Nat)
    <3>1. Percent \subseteq 1..100 /\ 1..100 \subseteq Nat
      BY ProjectionAssumption
    <3>2. Target \subseteq Nat \ {0}
      BY ProjectionAssumption
    <3> QED
      BY <3>1, <3>2
  <2> QED
    BY <2>1, <2>2
<1>3. config.daily_limit \in Nat
  BY ProjectionAssumption DEF ProjectionInv, TypeInv
<1>4. DailyBudget \in Nat
  <2>1. Salary \div MonthLength[month] \in Nat
    BY <1>1, SalaryIsNatural, Quotient
  <2> QED
    BY <2>1, <1>3 DEF DailyBudget, DaysInMonth
<1>5. PlannedPerDay \in Nat
  BY <1>3, <1>4 DEF PlannedPerDay
<1> QED
  BY <1>1, <1>2, <1>5, ProductTyped DEF DaysRemaining, TotalDays, PerDay

LEMMA SavedByDays ==
    ASSUME ProjectionInv
    PROVE  /\ CurrentSaved = (TotalDays * PerDay) \div 100
           /\ \A n \in Nat : SavedIn(n) = ((TotalDays + n) * PerDay) \div 100
           /\ CurrentSaved \in Nat
           /\ DailyRate \in Nat
<1>1. TotalDays \in Nat \ {0} /\ PlannedPerDay \in Nat /\ goal.percent \in Nat /\ PerDay \in Nat
  BY ProgressTyped
<1>2. \A n \in Nat : (n * PlannedPerDay) * goal.percent = n * PerDay
  BY <1>1, SMTT(30) DEF PerDay
<1>3. CurrentSaved = (TotalDays * PerDay) \div 100
  BY <1>1, <1>2 DEF CurrentSaved
<1>4. \A n \in Nat : SavedIn(n) = ((TotalDays + n) * PerDay) \div 100
  <2> TAKE n \in Nat
  <2>1. TotalDays + n \in Nat
    BY <1>1
  <2> QED
    BY <2>1, <1>2 DEF SavedIn
<1>5. TotalDays * PerDay \in Nat
  BY <1>1, ProductTyped
<1>6. CurrentSaved \in Nat
  BY <1>3, <1>5, Quotient
<1>7. DailyRate \in Nat
  BY <1>1, <1>6, Quotient DEF DailyRate
<1> QED
  BY <1>3, <1>4, <1>6, <1>7

LEMMA OnTrackArrivesNow ==
    ASSUME ProjectionInv PROVE OnTrackArrives
<1> SUFFICES ASSUME OnTrack, DaysRemaining > 0
             PROVE  SavedIn(DaysRemaining + 1) >= goal.target
    BY DEF OnTrackArrives
<1> DEFINE n == DaysRemaining + 1
<1>1. n \in Nat /\ TotalDays \in Nat \ {0} /\ PerDay \in Nat /\ goal.target \in Nat
  BY ProgressTyped
<1>2. CurrentSaved \in Nat /\ DailyRate \in Nat /\ n * DailyRate \in Nat
  BY <1>1, SavedByDays, ProductTyped
<1>3. CurrentSaved + n * DailyRate <= SavedIn(n)
  <2>1. LET saved == (TotalDays * PerDay) \div 100
            rate == saved \div TotalDays
        IN  saved + n * rate <= ((TotalDays + n) * PerDay) \div 100
    BY <1>1, RateIsCautious
  <2> QED
    BY <2>1, <1>1, SavedByDays DEF DailyRate
<1>4. SavedIn(n) \in Nat
  <2>1. (TotalDays + n) * PerDay \in Nat
    BY <1>1, ProductTyped
  <2> QED
    BY <2>1, <1>1, SavedByDays, Quotient
<1>5. CurrentSaved + n * DailyRate >= goal.target
  <2>1. CASE Reached
    BY <2>1, <1>1, <1>2 DEF Reached
  <2>2. CASE ~Reached /\ IsProjected /\ ProjectedDay <= goal.deadline
    <3>1. Remaining \in Nat /\ Remaining = goal.target - CurrentSaved
      BY <2>2, <1>1, <1>2 DEF Reached, Remaining
    <3>2. DailyRate \in Nat \ {0}
      BY <2>2, <1>2 DEF IsProjected
    <3> DEFINE q == Remaining \div DailyRate
    <3>3. q \in Nat /\ Remaining < DailyRate * q + DailyRate
      BY <3>1, <3>2, Quotient
    <3>4. q <= DaysRemaining
      BY <2>2, <3>3, ProgressTyped DEF ProjectedDay, DaysRemaining
    <3>5. (q + 1) * DailyRate <= n * DailyRate
      BY <3>2, <3>3, <3>4, <1>1, ProgressTyped, ProductGrows
    <3>6. (q + 1) * DailyRate = DailyRate * q + DailyRate
      <4> HIDE DEF q
      <4> QED
        BY <3>2, <3>3
    <3>7. DailyRate * q \in Nat
      BY <3>2, <3>3, ProductTyped
    <3> QED
      <4> HIDE DEF q, n
      <4> QED
        BY <3>1, <3>2, <3>3, <3>5, <3>6, <3>7, <1>1, <1>2
  <2> QED
    BY <2>1, <2>2 DEF OnTrack
<1> QED
  <2> HIDE DEF n
  <2>1. SavedIn(n) >= goal.target
    BY <1>1, <1>2, <1>3, <1>4, <1>5
  <2> USE DEF n
  <2> QED
    BY <2>1

\* A goal shown as on track is reached by the day after its deadline: two roundings
\* down cost a day and no more.
THEOREM OnTrackIsTrue == Spec => []OnTrackArrives
<1> QED
  BY ProjectionInvariant, OnTrackArrivesNow, PTL

LEMMA ShortfallMakesUpNow ==
    ASSUME ProjectionInv PROVE ShortfallMakesUp
<1> SUFFICES ASSUME ~OnTrack, DaysRemaining > 0
             PROVE  /\ CurrentSaved + DaysRemaining * DailyRate < goal.target
                    /\ CurrentSaved + DaysRemaining * (DailyRate + Shortfall + 1) >= goal.target
    BY DEF ShortfallMakesUp
<1>1. DaysRemaining \in Nat \ {0} /\ goal.target \in Nat /\ Today \in Nat /\ goal.deadline \in Nat
  BY ProgressTyped
<1>2. CurrentSaved \in Nat /\ DailyRate \in Nat
  BY SavedByDays
<1>3. Remaining \in Nat \ {0} /\ Remaining = goal.target - CurrentSaved
  BY <1>1, <1>2 DEF OnTrack, Reached, Remaining
<1>4. DaysRemaining * DailyRate \in Nat /\ DaysRemaining * DailyRate < Remaining
  <2>1. CASE DailyRate = 0
    BY <2>1, <1>1, <1>3
  <2>2. CASE DailyRate # 0
    <3> DEFINE q == Remaining \div DailyRate
    <3>1. q \in Nat /\ DailyRate * q <= Remaining
      BY <2>2, <1>2, <1>3, Quotient
    <3>2. DaysRemaining + 1 <= q
      BY <2>2, <3>1, <1>1, <1>2 DEF OnTrack, IsProjected, ProjectedDay, DaysRemaining
    <3> HIDE DEF q
    <3>3. (DaysRemaining + 1) * DailyRate <= q * DailyRate
      BY <3>1, <3>2, <1>1, <1>2, ProductGrows
    <3>4. (DaysRemaining + 1) * DailyRate = DaysRemaining * DailyRate + DailyRate
      BY <1>1, <1>2
    <3>5. q * DailyRate = DailyRate * q
      BY <3>1, <1>2
    <3>6. DaysRemaining * DailyRate \in Nat /\ q * DailyRate \in Nat
      BY <3>1, <1>1, <1>2, ProductTyped
    <3> QED
      BY <2>2, <3>1, <3>3, <3>4, <3>5, <3>6, <1>2, <1>3
  <2> QED
    BY <2>1, <2>2
<1>5. CurrentSaved + DaysRemaining * (DailyRate + Shortfall + 1) >= goal.target
  <2> DEFINE needed == Remaining \div DaysRemaining
             rate == DailyRate + Shortfall + 1
  <2>1. needed \in Nat /\ Remaining < DaysRemaining * needed + DaysRemaining
    BY <1>1, <1>3, Quotient
  <2>2. Shortfall = IF needed > DailyRate THEN needed - DailyRate ELSE 0
    BY DEF Shortfall
  <2>3. rate \in Nat /\ needed + 1 <= rate
    <3> HIDE DEF needed
    <3> QED
      BY <2>1, <2>2, <1>2
  <2> HIDE DEF needed, rate
  <2>4. (needed + 1) * DaysRemaining <= rate * DaysRemaining
    BY <2>1, <2>3, <1>1, ProductGrows
  <2>5. (needed + 1) * DaysRemaining = DaysRemaining * needed + DaysRemaining
    BY <2>1, <1>1
  <2>6. rate * DaysRemaining = DaysRemaining * rate /\ DaysRemaining * rate \in Nat
    BY <2>3, <1>1, ProductTyped
  <2>7. DaysRemaining * needed \in Nat
    BY <2>1, <1>1, ProductTyped
  <2>8. CurrentSaved + DaysRemaining * rate >= goal.target
    BY <2>1, <2>4, <2>5, <2>6, <2>7, <1>1, <1>2, <1>3
  <2> QED
    BY <2>8 DEF rate
<1> QED
  BY <1>1, <1>2, <1>3, <1>4, <1>5

\* A goal that is not on track falls short at the rate shown, and the shortfall and
\* one kopeck more each day make up for it, whatever was rounded.
THEOREM ShortfallIsTrue == Spec => []ShortfallMakesUp
<1> QED
  BY ProjectionInvariant, ShortfallMakesUpNow, PTL

LEMMA SavedGrowsStep ==
    ASSUME ProjectionInv, ProjectionInv', [Next]_vars,
           config' = config, month' = month, Salary' = Salary
    PROVE  CurrentSaved' >= CurrentSaved
<1>1. goal' = goal
  BY DEF Next, vars, Tick, Pay, upsert_daily_limit, upsert_set_income
<1>2. day' = day \/ day' = day + 1
  <2>1. month + 1 # month
    BY DEF ProjectionInv, TypeInv, Month
  <2> QED
    BY <2>1 DEF Next, vars, Tick, Pay, upsert_daily_limit, upsert_set_income
<1>3. PlannedPerDay' = PlannedPerDay
  BY DEF PlannedPerDay, DailyBudget, DaysInMonth
<1>4. PerDay' = PerDay
  BY <1>1, <1>3 DEF PerDay
<1>5. Today \in Nat /\ goal.created \in Nat /\ TotalDays \in Nat \ {0} /\ PerDay \in Nat
  BY ProgressTyped
<1>6. Today' = Today \/ Today' = Today + 1
  <2>1. DaysBefore[month] \in Nat /\ day \in Nat
    BY Calendar DEF ProjectionInv, TypeInv
  <2>2. Today = DaysBefore[month] + day /\ Today' = DaysBefore[month] + day'
    BY DEF Today, DayNumber
  <2> QED
    BY <1>2, <2>1, <2>2
<1>7. TotalDays' \in Nat \ {0} /\ TotalDays <= TotalDays'
  BY <1>1, <1>5, <1>6 DEF TotalDays
<1>8. TotalDays * PerDay \in Nat /\ TotalDays' * PerDay \in Nat
      /\ TotalDays * PerDay <= TotalDays' * PerDay
  BY <1>5, <1>7, ProductTyped, ProductGrows
<1>9. CurrentSaved = (TotalDays * PerDay) \div 100
  BY SavedByDays
<1>10. CurrentSaved' = (TotalDays' * PerDay) \div 100
  <2>1. PlannedPerDay \in Nat /\ goal.percent \in Nat
    BY ProgressTyped
  <2>2. (TotalDays' * PlannedPerDay) * goal.percent = TotalDays' * PerDay
    BY <1>7, <2>1, SMTT(30) DEF PerDay
  <2> QED
    BY <1>1, <1>3, <2>2 DEF CurrentSaved
<1>11. (TotalDays * PerDay) \div 100 <= (TotalDays' * PerDay) \div 100
  BY <1>8, QuotientGrows
<1>12. CurrentSaved \in Nat /\ CurrentSaved' \in Nat
  BY <1>8, <1>9, <1>10, Quotient
<1> QED
  BY <1>9, <1>10, <1>11, <1>12

\* Within a month savings do not go backwards while salary and limit stay.
THEOREM SavingsGrow == Spec => SavedGrowsWithinMonth
<1>1. ProjectionInv /\ ProjectionInv' /\ [Next]_vars =>
        [config' = config /\ month' = month /\ Salary' = Salary
         => CurrentSaved' >= CurrentSaved]_vars
  BY SavedGrowsStep
<1> QED
  BY <1>1, ProjectionInvariant, PTL DEF Spec, SavedGrowsWithinMonth

-----------------------------------------------------------------------------
(* The month whose salary is looked for *)

LEMMA MaxIs ==
    ASSUME NEW S \in SUBSET Nat, NEW x \in S, \A y \in S : y <= x
    PROVE  Max(S) = x
<1>1. \A y \in S : x >= y
  OBVIOUS
<1>2. Max(S) \in S /\ \A y \in S : Max(S) >= y
  BY <1>1 DEF Max
<1>3. Max(S) \in Nat /\ x \in Nat
  BY <1>2
<1>4. Max(S) >= x /\ x >= Max(S)
  BY <1>1, <1>2
<1> QED
  BY <1>3, <1>4

\* When the window of month k opens.
Opens(k) == DaysBefore[k] + Clamped(k, config) - config.income_window

LEMMA OpenedByMonth ==
    ASSUME ProjectionInv
    PROVE  /\ Opened \in SUBSET Nat
           /\ month \in Nat /\ month - 1 \in Month /\ month - 1 \in Opened
           /\ \A k \in Opened : k <= month + 1
           /\ day >= config.income_day - config.income_window => month \in Opened
           /\ config.income_day - config.income_window >= 1 => month + 1 \notin Opened
           /\ day < config.income_day - config.income_window
              /\ config.income_day <= MonthLength[month] => month \notin Opened
<1> DEFINE inc == config.income_day
           w == config.income_window
<1>1. inc \in Nat \ {0} /\ w \in Nat \ {0} /\ w \in IncomeWindow
  BY ProjectionAssumption DEF ProjectionInv, TypeInv
<1>2. \A k \in Month : w < MonthLength[k]
  BY <1>1, ProjectionAssumption DEF Month, MonthLength
<1>3. month \in Month /\ month # 1 /\ month \in Nat /\ month - 1 \in Month
  BY Calendar DEF ProjectionInv, TypeInv, Month
<1>4. /\ day \in Nat \ {0} /\ day <= MonthLength[month]
      /\ Today = DaysBefore[month] + day
  <2>1. day \in 1..MonthLength[month] /\ MonthLength[month] \in Nat
    BY <1>3, Calendar DEF ProjectionInv, TypeInv
  <2> QED
    BY <2>1 DEF Today, DayNumber
<1>5. ASSUME NEW k \in Month
      PROVE  /\ k \in Opened <=> Opens(k) <= Today
             /\ Opens(k) \in Int
             /\ DaysBefore[k] \in Nat /\ MonthLength[k] \in Nat
             /\ Clamped(k, config) \in Nat \ {0}
             /\ Clamped(k, config) <= inc /\ Clamped(k, config) <= MonthLength[k]
             /\ Clamped(k, config) = inc \/ Clamped(k, config) = MonthLength[k]
  <2>1. DaysBefore[k] \in Nat /\ MonthLength[k] \in Nat \ {0}
    BY Calendar
  <2>2. /\ Clamped(k, config) \in Nat \ {0}
        /\ Clamped(k, config) <= inc /\ Clamped(k, config) <= MonthLength[k]
        /\ Clamped(k, config) = inc \/ Clamped(k, config) = MonthLength[k]
    BY <1>1, <2>1 DEF Clamped
  <2>3. Opens(k) = Center(k, config) - w
    BY <1>1, <2>1, <2>2 DEF Opens, Center, DayNumber
  <2> QED
    BY <1>1, <2>1, <2>2, <2>3 DEF Opened, Opens
<1>6. Opened \in SUBSET Nat /\ Opened \subseteq Month
  BY DEF Opened, Month
<1> HIDE DEF inc, w
<1>7. month - 1 \in Opened
  <2>1. DaysBefore[month] = DaysBefore[month - 1] + MonthLength[month - 1]
    <3>1. (month - 1) + 1 = month
      BY <1>3
    <3> QED
      BY <1>3, <3>1, Calendar
  <2>2. Opens(month - 1) <= DaysBefore[month]
    BY <2>1, <1>1, <1>3, <1>5 DEF Opens, w
  <2> QED
    BY <2>2, <1>3, <1>4, <1>5
<1>8. DaysBefore[month] + MonthLength[month] = DaysBefore[month + 1]
  BY <1>3, Calendar
<1>9. ASSUME month + 1 \in Month, inc - w >= 1 PROVE month + 1 \notin Opened
  <2>1. w < Clamped(month + 1, config)
    BY <1>1, <1>2, <1>5, <1>9
  <2>2. DaysBefore[month + 1] < Opens(month + 1)
    BY <2>1, <1>1, <1>5, <1>9 DEF Opens, w
  <2> QED
    BY <2>2, <1>3, <1>4, <1>5, <1>8, <1>9
<1>10. ASSUME NEW k \in Opened PROVE k <= month + 1
  <2>1. SUFFICES ASSUME month + 1 < k PROVE FALSE
    BY <1>3, <1>6
  <2>2. k \in Month /\ month + 1 \in Month
    BY <1>3, <1>6, <2>1 DEF Month
  <2>3. DaysBefore[month + 1] + MonthLength[month + 1] <= DaysBefore[k]
    BY <2>1, <2>2, Calendar
  <2>4. DaysBefore[month + 1] < Opens(k)
    BY <2>2, <2>3, <1>1, <1>2, <1>5 DEF Opens, w
  <2> QED
    BY <2>2, <2>4, <1>3, <1>4, <1>5, <1>8
<1>11. ASSUME day >= inc - w PROVE month \in Opened
  BY <1>1, <1>3, <1>4, <1>5, <1>11 DEF Opens, w
<1>12. ASSUME day < inc - w, inc <= MonthLength[month] PROVE month \notin Opened
  <2>1. Clamped(month, config) = inc
    BY <1>1, <1>3, <1>5, <1>12
  <2> QED
    BY <2>1, <1>1, <1>3, <1>4, <1>5, <1>12 DEF Opens, w
<1> QED
  BY <1>3, <1>6, <1>7, <1>9, <1>10, <1>11, <1>12 DEF inc, w

LEMMA WindowOpenedLastNow ==
    ASSUME ProjectionInv PROVE WindowOpenedLast
<1> DEFINE start == config.income_day - config.income_window
           exact == start >= 1 /\ config.income_day <= MonthLength[month]
<1>1. start \in Int /\ day \in Int
  <2>1. config.income_day \in Nat \ {0} /\ config.income_window \in Nat \ {0}
    BY ProjectionAssumption DEF ProjectionInv, TypeInv
  <2> QED
    BY <2>1, Calendar DEF ProjectionInv, TypeInv
<1>2. SUFFICES /\ RefMonth(month, day, config) \in {Max(Opened), Max(Opened) - 1}
               /\ exact => RefMonth(month, day, config) = Max(Opened)
  BY DEF WindowOpenedLast
<1>3. CASE day >= start
  <2>1. RefMonth(month, day, config) = month
    BY <1>3 DEF RefMonth
  <2>2. CASE month + 1 \in Opened
    <3>1. Max(Opened) = month + 1
      BY <2>2, OpenedByMonth, MaxIs
    <3> QED
      BY <2>1, <2>2, <3>1, OpenedByMonth
  <2>3. CASE month + 1 \notin Opened
    <3>1. \A k \in Opened : k <= month
      BY <2>3, OpenedByMonth
    <3>2. Max(Opened) = month
      BY <1>3, <3>1, OpenedByMonth, MaxIs
    <3> QED
      BY <2>1, <3>2
  <2> QED
    BY <2>2, <2>3
<1>4. CASE day < start
  <2>1. RefMonth(month, day, config) = month - 1
    BY <1>1, <1>4 DEF RefMonth
  <2>2. month + 1 \notin Opened
    <3>1. start >= 1
      <4>1. day >= 1
        BY Calendar DEF ProjectionInv, TypeInv
      <4> QED
        BY <4>1, <1>1, <1>4
    <3> QED
      BY <3>1, OpenedByMonth
  <2>3. \A k \in Opened : k <= month
    BY <2>2, OpenedByMonth
  <2>4. CASE month \in Opened
    <3>1. Max(Opened) = month
      BY <2>3, <2>4, OpenedByMonth, MaxIs
    <3> QED
      BY <1>4, <2>1, <2>4, <3>1, OpenedByMonth
  <2>5. CASE month \notin Opened
    <3>1. \A k \in Opened : k <= month - 1
      BY <2>3, <2>5, OpenedByMonth
    <3>2. Max(Opened) = month - 1
      BY <3>1, OpenedByMonth, MaxIs
    <3> QED
      BY <2>1, <3>2
  <2> QED
    BY <2>4, <2>5
<1> QED
  BY <1>1, <1>3, <1>4

\* The salary looked for is the one whose window opened last, or at the ends of a
\* month the one before, for every calendar, income day and window.
THEOREM SalaryOfThePeriod == Spec => []WindowOpenedLast
<1> QED
  BY ProjectionInvariant, WindowOpenedLastNow, PTL
=============================================================================
