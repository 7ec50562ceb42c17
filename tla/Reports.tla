------------------------------ MODULE Reports ------------------------------
(***************************************************************************)
(* The reports of src/services/balance.py behind src/routers/balance.py:   *)
(* what one user's stored transactions are summed up to.                   *)
(*                                                                         *)
(* Reports only read.  Those made of one SELECT are operators over the     *)
(* stored transactions; the balance summary asks for one account after the *)
(* other while transactions are being stored, so it is a reader with steps *)
(* of its own.  What all must agree with is the bank's own ledger, of      *)
(* which the webhook stores the entries one by one, late ones after        *)
(* younger ones.                                                           *)
(*                                                                         *)
(* Times are counted from the start of day 0, DayLength (86400) of them a  *)
(* day; a report is asked for from one day to another, both included.  An  *)
(* account of All stands for a report about every account.                 *)
(* A definition X_Y is definition X with the plausible bug Y.              *)
(***************************************************************************)
EXTENDS Integers, FiniteSets, Functions

CONSTANTS
    Account, All,
    CurrencyOf,    \* user_account's currency_code: [Account -> currency]
    Kind,          \* what transactions there are: sets of [amount, mcc]
    Category,      \* mcc_category: [known mcc -> category], a finite table
    DayLength,
    LastDay,       \* the bound on time
    ShortWindow, LongWindow,    \* the moving averages' 7 and 30 days
    MaxTx          \* the bound on transactions

ASSUME ReportsAssumption ==
    /\ All \notin Account
    /\ \A k \in Kind : k.amount \in Int
    /\ {DayLength, ShortWindow, LongWindow} \subseteq Nat \ {0}
    /\ ShortWindow <= LongWindow
    /\ {LastDay, MaxTx} \subseteq Nat
    /\ IsFiniteSet(DOMAIN Category)

VARIABLES
    ledger,    \* the bank's transactions
    stored,    \* those in user_transaction
    summary    \* get_user_balance_summary in flight: the accounts it has left,
               \* the row it found for the others, and what was stored at its start

vars == <<ledger, stored, summary>>

Time == 0..((LastDay + 1) * DayLength - 1)

Transaction ==
    [id : 1..MaxTx, account : Account, time : Time, kind : Kind, balance : Int]

\* last_tx.first() of an account without transactions
NoRow == [id |-> 0, balance |-> 0]

NoSummary == [asked |-> FALSE, left |-> {}, row |-> [a \in Account |-> NoRow], begun |-> {}]

Init == ledger = {} /\ stored = {} /\ summary = NoSummary
-----------------------------------------------------------------------------
(* The bank *)

BankBalance(a) == SumFunction([x \in {y \in ledger : y.account = a} |-> x.kind.amount])

\* The bank books a transaction after all others, perhaps in the same second.
Book(a, t, k) ==
    /\ Cardinality(ledger) < MaxTx
    /\ \A x \in ledger : x.time <= t
    /\ ledger' = ledger \cup
         {[id |-> Cardinality(ledger) + 1, account |-> a, time |-> t, kind |-> k,
           balance |-> BankBalance(a) + k.amount]}
    /\ UNCHANGED <<stored, summary>>

\* Its webhook is stored; see Ingest.
Store(x) ==
    /\ x \in ledger \ stored
    /\ stored' = stored \cup {x}
    /\ UNCHANGED <<ledger, summary>>
-----------------------------------------------------------------------------
(* What all reports share *)

DayOf(t) == t \div DayLength

\* The route's from_date and to_date as timestamps.
From(d) == d * DayLength
To(d) == d * DayLength + DayLength

Within(x, f, t) == f <= x.time /\ x.time < t

Selected(f, t, a) == {x \in stored : Within(x, f, t) /\ a \in {x.account, All}}

Income(S) == SumFunction([x \in {y \in S : y.kind.amount > 0} |-> x.kind.amount])
Expenses(S) == SumFunction([x \in {y \in S : y.kind.amount < 0} |-> -x.kind.amount])
-----------------------------------------------------------------------------
(* get_current_balance, get_user_balances, get_user_balance_summary *)

\* The transactions a report may take an account's balance from: the youngest,
\* of which the database picks one when they are of the same second.
Youngest_Ascending(S) == {x \in S : \A y \in S : y.time >= x.time}
Youngest(S) == {x \in S : \A y \in S : y.time <= x.time}

LastRows_NoDefault(a) == Youngest({x \in stored : x.account = a})
LastRows(a) ==
    LET mine == {x \in stored : x.account = a}
    IN  IF mine = {} THEN {NoRow} ELSE Youngest(mine)

CurrentBalances(a) == {x.balance : x \in LastRows(a)}

\* The user's accounts are selected; their transactions are not yet.
SummaryAsked ==
    /\ ~summary.asked
    /\ summary' = [NoSummary EXCEPT !.asked = TRUE, !.left = Account, !.begun = stored]
    /\ UNCHANGED <<ledger, stored>>

\* One SELECT, of what is stored by now, for the next account.
BalanceRead(a) ==
    /\ summary.asked /\ a \in summary.left
    /\ \E x \in LastRows(a) :
          summary' = [summary EXCEPT !.left = @ \ {a}, !.row[a] = x]
    /\ UNCHANGED <<ledger, stored>>

\* totals_by_currency
TotalIn_Overwritten(c) ==
    LET mine == {a \in Account : CurrencyOf[a] = c}
    IN  IF mine = {} THEN 0 ELSE summary.row[CHOOSE a \in mine : TRUE].balance
TotalIn(c) ==
    SumFunction([a \in {b \in Account : CurrencyOf[b] = c} |-> summary.row[a].balance])

\* The answer is sent, or the request is given up.
SummaryOver ==
    /\ summary.asked
    /\ summary' = NoSummary
    /\ UNCHANGED <<ledger, stored>>
-----------------------------------------------------------------------------
Next ==
    \/ \E a \in Account, t \in Time, k \in Kind : Book(a, t, k)
    \/ \E x \in ledger : Store(x)
    \/ SummaryAsked
    \/ \E a \in Account : BalanceRead(a)
    \/ SummaryOver

Spec == Init /\ [][Next]_vars
-----------------------------------------------------------------------------
(* get_balance_history, get_spending_by_category *)

OnDay(S, d) == {x \in S : DayOf(x.time) = d}

HistoryDays(f, t, a) == {DayOf(x.time) : x \in Selected(f, t, a)}

\* The row of day d, with every closing balance it may show.
HistoryRow(f, t, a, d) ==
    LET rows == OnDay(Selected(f, t, a), d)
    IN  [income   |-> Income(rows),
         expenses |-> Expenses(rows),
         net      |-> Income(rows) - Expenses(rows),
         closing  |-> {x.balance : x \in Youngest(rows)},
         count    |-> Cardinality(rows)]

\* SQL's abs
Size(n) == IF n < 0 THEN -n ELSE n

Spending_Turnover(S) == S
Spending(S) == {x \in S : x.kind.amount < 0}

\* A transaction whose mcc has no category is in no row: the join is an inner one.
CategoryTotal(f, t, a, c) ==
    LET rows == {x \in Spending(Selected(f, t, a)) :
                   x.kind.mcc \in DOMAIN Category /\ Category[x.kind.mcc] = c}
    IN  SumFunction([x \in rows |-> Size(x.kind.amount)])

CategoriesTotal(f, t, a) ==
    SumFunction([c \in {Category[m] : m \in DOMAIN Category} |-> CategoryTotal(f, t, a, c)])
-----------------------------------------------------------------------------
(* get_burn_rate *)

ExtendedFrom_Unwidened(f) == f
ExtendedFrom(f) == f - LongWindow * DayLength

\* expenses_map
ExpensesOn(f, t, a, d) == Expenses(OnDay(Selected(ExtendedFrom(f), t, a), d))

PeriodStart(f) == DayOf(f)
PeriodEnd_OneMore(t) == DayOf(t)
PeriodEnd(t) == DayOf(t) - 1

PeriodDays(f, t) == PeriodStart(f)..PeriodEnd(t)

MovingAvg(f, t, a, d, window) ==
    SumFunction([i \in 0..(window - 1) |-> ExpensesOn(f, t, a, d - i)]) \div window

TotalExpenses(f, t, a) == SumFunction([d \in PeriodDays(f, t) |-> ExpensesOn(f, t, a, d)])

DaysInPeriod(f, t) == Cardinality(PeriodDays(f, t))

AvgDaily(f, t, a) ==
    IF PeriodDays(f, t) = {} THEN 0 ELSE TotalExpenses(f, t, a) \div DaysInPeriod(f, t)

PrevFrom(f, t) == f - DaysInPeriod(f, t) * DayLength

PrevAvg(f, t, a) ==
    IF PeriodDays(f, t) = {} THEN 0
    ELSE Expenses(Selected(PrevFrom(f, t), f, a)) \div DaysInPeriod(f, t)
-----------------------------------------------------------------------------
(* Properties *)

\* Reports are asked for any days, about all accounts or one.
Scope == Account \cup {All}

\* The database holds only what the bank booked, an account always has a balance to
\* show (`row.balance if row else 0`), and a summary shows stored rows.
TypeOK ==
    /\ ledger \subseteq Transaction
    /\ stored \subseteq ledger
    /\ \A a \in Account : CurrentBalances(a) # {}
    /\ summary.left \subseteq Account /\ summary.begun \subseteq stored
    /\ \A a \in Account : summary.row[a] \in stored \cup {NoRow}

\* The reports of one SELECT depend on what is stored alone: nothing is lost by
\* looking at them only while no summary is asked for.
Quiet == ~summary.asked

\* Everything the bank booked on account a is stored, no two in one second.
CaughtUp(a) ==
    /\ \A x \in ledger : x.account = a => x \in stored
    /\ \A x, y \in ledger : x.account = a /\ y.account = a /\ x.time = y.time => x = y

\* Once all webhooks of an account have been stored, in whatever order they came,
\* the balance get_current_balance shows is the bank's, if no two transactions
\* are of one second.
BalanceCatchesUp == \A a \in Account : CaughtUp(a) => CurrentBalances(a) = {BankBalance(a)}

\* A summary mixes moments, but none before it was asked for: each balance it shows
\* is at least as young as the youngest stored at its start.  When everything was
\* stored by then and nothing has come since, its totals are what the bank holds in
\* each currency.
SummaryIsRecent ==
    summary.asked /\ summary.left = {} =>
        /\ \A a \in Account, x \in summary.begun :
             x.account = a => summary.row[a] # NoRow /\ summary.row[a].time >= x.time
        /\ (\A a \in Account : CaughtUp(a)) /\ stored = summary.begun =>
             \A c \in {CurrencyOf[a] : a \in Account} :
               TotalIn(c) = SumFunction([a \in {b \in Account : CurrencyOf[b] = c} |-> BankBalance(a)])

\* The history of an account reconciles: the closing balance get_balance_history
\* finds for a day by its own join is the sum of the net amounts of the days so far.
HistoryReconciles ==
    Quiet => \A a \in Account, d \in 0..LastDay :
        CaughtUp(a) /\ d \in HistoryDays(From(0), To(d), a) =>
            HistoryRow(From(0), To(d), a, d).closing =
              {SumFunction([e \in HistoryDays(From(0), To(d), a) |->
                              HistoryRow(From(0), To(d), a, e).net])}

\* What all transactions of days d to e, stored so far, cost on average.
AverageOver(a, d, e) ==
    Expenses({x \in stored : a \in {x.account, All} /\ DayOf(x.time) \in d..e}) \div (e - d + 1)

\* get_burn_rate walks over the period day by day, get_income_vs_expenses sums it
\* in one query: both come to the same expenses.  And the averages it shows see
\* every stored expense of their days, also of those before the period asked for:
\* the daily one, the moving ones (the short one of each day, the long one of the
\* last), and that of the days before, for the trend.
\* get_spending_by_category adds up to no more than these expenses, and to less only
\* for want of a category.
ExpensesAgree ==
    Quiet => \A a \in Scope, d, e \in 0..LastDay :
        d <= e =>
            /\ TotalExpenses(From(d), To(e), a) = Expenses(Selected(From(d), To(e), a))
            /\ AvgDaily(From(d), To(e), a) = AverageOver(a, d, e)
            /\ \A day \in d..e :
                 MovingAvg(From(d), To(e), a, day, ShortWindow)
                   = AverageOver(a, day - ShortWindow + 1, day)
            /\ MovingAvg(From(d), To(e), a, e, LongWindow)
                 = AverageOver(a, e - LongWindow + 1, e)
            /\ PrevAvg(From(d), To(e), a) = AverageOver(a, d - (e - d + 1), d - 1)
            /\ CategoriesTotal(From(d), To(e), a) <= TotalExpenses(From(d), To(e), a)
            /\ (\A x \in Spending(Selected(From(d), To(e), a)) :
                    x.kind.mcc \in DOMAIN Category)
                 => CategoriesTotal(From(d), To(e), a) = TotalExpenses(From(d), To(e), a)
=============================================================================
