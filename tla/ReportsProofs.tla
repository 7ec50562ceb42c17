--------------------------- MODULE ReportsProofs ---------------------------
(***************************************************************************)
(* Theorems about Reports for every set of accounts and kinds of           *)
(* transactions, every length of day and of the moving averages' windows.  *)
(*                                                                         *)
(* What the reports are summed up from is a ledger in which every entry    *)
(* has the balance of its account: LedgerInv.  The rest is about sums, and *)
(* about days: which transactions a report from one day to another selects.*)
(***************************************************************************)
EXTENDS Reports, SumLemmas

-----------------------------------------------------------------------------
(* Sums of amounts. *)

Amount == [x \in Transaction |-> x.kind.amount]

Net(S) == SumFunctionOnSet(Amount, S)

Mine(S, a) == {x \in S : x.account = a}

LEMMA TransactionFields ==
    ASSUME NEW x \in Transaction
    PROVE  /\ x.id \in Nat /\ x.id # 0 /\ x.id \in 1..MaxTx
           /\ x.account \in Account /\ x.kind \in Kind /\ x.balance \in Int
           /\ x.time \in Nat
           /\ x.kind.amount \in Int /\ Amount[x] = x.kind.amount
           /\ x # NoRow
<1>1. /\ x.id \in 1..MaxTx /\ x.time \in Time
      /\ x.account \in Account /\ x.kind \in Kind /\ x.balance \in Int
  BY DEF Transaction
<1>2. x.id \in Nat /\ x.id # 0
  BY <1>1, ReportsAssumption
<1>3. x.time \in Nat
  BY <1>1, ReportsAssumption DEF Time
<1>4. x.kind.amount \in Int /\ Amount[x] = x.kind.amount
  BY <1>1, ReportsAssumption DEF Amount
<1>5. x # NoRow
  BY <1>2 DEF NoRow
<1>6. QED
  BY <1>1, <1>2, <1>3, <1>4, <1>5

LEMMA NetType ==
    ASSUME NEW S \in SUBSET Transaction, IsFiniteSet(S)
    PROVE  Net(S) \in Int
<1>1. \A x \in S : Amount[x] \in Int
  BY TransactionFields
<1>2. QED
  BY <1>1, SumType DEF Net

LEMMA NetIsSum ==
    ASSUME NEW S \in SUBSET Transaction, IsFiniteSet(S)
    PROVE  SumFunction([x \in S |-> x.kind.amount]) = Net(S)
<1> DEFINE f == [x \in S |-> x.kind.amount]
<1>1. \A x \in S : f[x] = Amount[x]
  BY DEF Amount
<1>2. SumFunction(f) = SumFunctionOnSet(f, S)
  BY DEF SumFunction
<1> HIDE DEF f
<1>3. SumFunctionOnSet(f, S) = Net(S)
  BY <1>1, SumSame DEF Net
<1>4. QED
  BY <1>2, <1>3 DEF f

-----------------------------------------------------------------------------
(* The inductive invariant. *)

\* The bank numbers its transactions in the order of their times, and the balance of
\* each is what the amounts of its account come to so far.
UpTo(S, x) == {y \in S : y.account = x.account /\ y.id <= x.id}

LedgerInv ==
    /\ ledger \subseteq Transaction /\ IsFiniteSet(ledger)
    /\ \A x \in ledger : x.id <= Cardinality(ledger)
    /\ \A x, y \in ledger : x.id = y.id => x = y
    /\ \A x, y \in ledger : x.id < y.id => x.time <= y.time
    /\ \A x \in ledger : x.balance = Net(UpTo(ledger, x))

\* A summary in flight has for each account read so far a row as young as any stored
\* when it was asked for.
SummaryInv ==
    /\ stored \subseteq ledger
    /\ summary \in [asked : BOOLEAN, left : SUBSET Account,
                    row : [Account -> Transaction \cup {NoRow}], begun : SUBSET stored]
    /\ \A a \in Account : summary.row[a] # NoRow =>
          summary.row[a] \in stored /\ summary.row[a].account = a
    /\ \A a \in Account \ summary.left, x \in summary.begun : x.account = a =>
          summary.row[a] # NoRow /\ x.time <= summary.row[a].time

ReportsInv == LedgerInv /\ SummaryInv

LEMMA BankBalanceIsNet ==
    ASSUME LedgerInv, NEW a
    PROVE  BankBalance(a) = Net(Mine(ledger, a)) /\ BankBalance(a) \in Int
<1> DEFINE S == Mine(ledger, a)
<1>1. S \in SUBSET Transaction /\ IsFiniteSet(S)
  BY FS_Subset DEF LedgerInv, Mine
<1>2. BankBalance(a) = SumFunction([x \in S |-> x.kind.amount])
  BY DEF BankBalance, Mine
<1> HIDE DEF S
<1>3. QED
  BY <1>1, <1>2, NetIsSum, NetType DEF S

LEMMA BookKeepsLedger ==
    ASSUME LedgerInv, NEW a \in Account, NEW t \in Time, NEW k \in Kind, Book(a, t, k)
    PROVE  LedgerInv'
<1> DEFINE c == Cardinality(ledger)
           b == BankBalance(a) + k.amount
           n == [id |-> c + 1, account |-> a, time |-> t, kind |-> k, balance |-> b]
<1>1. ledger' = ledger \cup {n} /\ c < MaxTx /\ \A x \in ledger : x.time <= t
  BY DEF Book
<1>2. c \in Nat
  BY FS_CardinalityType DEF LedgerInv
<1>3. b \in Int
  BY BankBalanceIsNet, ReportsAssumption
<1>4. c + 1 \in 1..MaxTx
  BY <1>1, <1>2, ReportsAssumption
<1>5. /\ n \in Transaction
      /\ n.id = c + 1 /\ n.account = a /\ n.time = t /\ n.balance = b /\ n.kind = k
  <2> HIDE DEF c, b
  <2>1. QED
    BY <1>3, <1>4 DEF Transaction
<1> HIDE DEF n, b
<1>6. n \notin ledger /\ \A x \in ledger : x.id < n.id /\ x.id \in Nat
  <2>1. \A x \in ledger : x.id <= c /\ x.id \in Nat
    BY TransactionFields DEF LedgerInv
  <2>2. \A x \in ledger : x.id < n.id
    BY <1>2, <1>5, <2>1
  <2>3. n.id \in Nat
    BY <1>5, TransactionFields
  <2>4. QED
    BY <2>1, <2>2, <2>3
<1>7. IsFiniteSet(ledger') /\ Cardinality(ledger') = c + 1
  BY <1>1, <1>6, FS_AddElement DEF LedgerInv
<1>8. ledger' \subseteq Transaction
  BY <1>1, <1>5 DEF LedgerInv
<1>9. \A x \in ledger' : x.id <= Cardinality(ledger')
  BY <1>1, <1>2, <1>5, <1>6, <1>7 DEF LedgerInv
<1>10. \A x, y \in ledger' : x.id = y.id => x = y
  BY <1>1, <1>2, <1>5, <1>6 DEF LedgerInv
<1>11. \A x, y \in ledger' : x.id < y.id => x.time <= y.time
  <2>1. ASSUME NEW x \in ledger', NEW y \in ledger', x.id < y.id PROVE x.time <= y.time
    <3>1. CASE x \in ledger /\ y \in ledger
      BY <2>1, <3>1 DEF LedgerInv
    <3>2. CASE x \in ledger /\ y = n
      BY <1>1, <1>5, <3>2
    <3>3. x # n
      BY <1>1, <1>2, <1>5, <1>6, <2>1
    <3>4. QED
      BY <1>1, <3>1, <3>2, <3>3
  <2>2. QED
    BY <2>1
<1>12. ASSUME NEW x \in ledger' PROVE x.balance = Net(UpTo(ledger', x))
  <2>1. CASE x \in ledger
    <3>1. UpTo(ledger', x) = UpTo(ledger, x)
      BY <1>1, <1>2, <1>5, <1>6, <2>1 DEF UpTo
    <3>2. QED
      BY <2>1, <3>1 DEF LedgerInv
  <2>2. CASE x = n
    <3> DEFINE S == UpTo(ledger', n)
    <3>1. S \ {n} = Mine(ledger, a) /\ n \in S
      BY <1>1, <1>2, <1>5, <1>6 DEF UpTo, Mine
    <3>2. IsFiniteSet(S) /\ \A y \in S : Amount[y] \in Int
      BY <1>7, <1>8, FS_Subset, TransactionFields DEF UpTo
    <3> HIDE DEF S
    <3>3. Net(S) = Amount[n] + Net(S \ {n})
      BY <3>1, <3>2, SumWithout DEF Net
    <3>4. Amount[n] = k.amount /\ k.amount \in Int
      BY <1>5, TransactionFields
    <3>5. Net(S) = b
      <4>1. Net(S \ {n}) = BankBalance(a) /\ BankBalance(a) \in Int
        BY <3>1, BankBalanceIsNet
      <4> HIDE DEF S
      <4>2. QED
        BY <3>3, <3>4, <4>1 DEF b
    <3>6. QED
      BY <1>5, <2>2, <3>5 DEF S
  <2>3. QED
    BY <1>1, <2>1, <2>2
<1>13. QED
  BY <1>7, <1>8, <1>9, <1>10, <1>11, <1>12 DEF LedgerInv

LEMMA ReportsInvInit == Init => ReportsInv
<1> SUFFICES ASSUME Init PROVE ReportsInv
    OBVIOUS
<1>1. LedgerInv
  BY FS_EmptySet DEF Init, LedgerInv
<1>2. SummaryInv
  BY DEF Init, NoSummary, SummaryInv
<1>3. QED
  BY <1>1, <1>2 DEF ReportsInv

\* What LastRows gives is a row of the account as young as any stored, or NoRow where
\* there is none.
LEMMA LastRow ==
    ASSUME ReportsInv, NEW a \in Account, NEW x \in LastRows(a)
    PROVE  \/ /\ x = NoRow /\ Mine(stored, a) = {}
           \/ /\ x \in stored /\ x \in Transaction /\ x.account = a /\ x # NoRow
              /\ \A y \in Mine(stored, a) : y.time <= x.time
<1>1. CASE Mine(stored, a) = {}
  BY <1>1 DEF LastRows, Mine
<1>2. CASE Mine(stored, a) # {}
  <2>1. x \in Youngest(Mine(stored, a))
    BY <1>2 DEF LastRows, Mine
  <2>2. x \in stored /\ x.account = a /\ \A y \in Mine(stored, a) : y.time <= x.time
    BY <2>1 DEF Youngest, Mine
  <2>3. x \in Transaction
    BY <2>2 DEF ReportsInv, SummaryInv, LedgerInv
  <2>4. QED
    BY <2>2, <2>3, TransactionFields
<1>3. QED
  BY <1>1, <1>2

LEMMA ReportsInvStep == ReportsInv /\ [Next]_vars => ReportsInv'
<1> SUFFICES ASSUME ReportsInv, [Next]_vars PROVE ReportsInv'
    OBVIOUS
<1>1. ASSUME NEW a \in Account, NEW t \in Time, NEW k \in Kind, Book(a, t, k)
      PROVE  ReportsInv'
  <2>1. LedgerInv'
    BY <1>1, BookKeepsLedger DEF ReportsInv
  <2>2. UNCHANGED <<stored, summary>> /\ ledger \subseteq ledger'
    BY <1>1 DEF Book
  <2>3. SummaryInv'
    BY <2>2 DEF ReportsInv, SummaryInv
  <2>4. QED
    BY <2>1, <2>3 DEF ReportsInv
<1>2. ASSUME UNCHANGED ledger PROVE LedgerInv'
  BY <1>2 DEF ReportsInv, LedgerInv, UpTo
<1>3. ASSUME NEW x \in ledger, Store(x) PROVE ReportsInv'
  <2>1. UNCHANGED <<ledger, summary>> /\ stored' = stored \cup {x}
    BY <1>3 DEF Store
  <2>2. summary \in [asked : BOOLEAN, left : SUBSET Account,
                     row : [Account -> Transaction \cup {NoRow}], begun : SUBSET stored']
    BY <2>1 DEF ReportsInv, SummaryInv
  <2>3. SummaryInv'
    BY <2>1, <2>2 DEF ReportsInv, SummaryInv
  <2>4. QED
    BY <1>2, <2>1, <2>3 DEF ReportsInv
<1>4. ASSUME SummaryAsked PROVE ReportsInv'
  <2>1. UNCHANGED <<ledger, stored>>
        /\ summary' = [NoSummary EXCEPT !.asked = TRUE, !.left = Account, !.begun = stored]
    BY <1>4 DEF SummaryAsked
  <2>2. /\ summary' \in [asked : BOOLEAN, left : SUBSET Account,
                         row : [Account -> Transaction \cup {NoRow}], begun : SUBSET stored]
        /\ summary'.left = Account /\ summary'.row = [a \in Account |-> NoRow]
    BY <2>1 DEF NoSummary
  <2>3. SummaryInv'
    BY <2>1, <2>2 DEF ReportsInv, SummaryInv
  <2>4. QED
    BY <1>2, <2>1, <2>3 DEF ReportsInv
<1>5. ASSUME NEW a \in Account, BalanceRead(a) PROVE ReportsInv'
  <2>1. PICK x \in LastRows(a) : summary' = [summary EXCEPT !.left = @ \ {a}, !.row[a] = x]
    BY <1>5 DEF BalanceRead
  <2>2. UNCHANGED <<ledger, stored>>
    BY <1>5 DEF BalanceRead
  <2>3. \/ /\ x = NoRow /\ Mine(stored, a) = {}
        \/ /\ x \in stored /\ x \in Transaction /\ x.account = a /\ x # NoRow
           /\ \A y \in Mine(stored, a) : y.time <= x.time
    BY LastRow
  <2>4. summary \in [asked : BOOLEAN, left : SUBSET Account,
                     row : [Account -> Transaction \cup {NoRow}], begun : SUBSET stored]
    BY DEF ReportsInv, SummaryInv
  <2>5. /\ summary' \in [asked : BOOLEAN, left : SUBSET Account,
                         row : [Account -> Transaction \cup {NoRow}], begun : SUBSET stored]
        /\ summary'.left = summary.left \ {a}
        /\ summary'.row = [summary.row EXCEPT ![a] = x]
        /\ summary'.begun = summary.begun
    <3>1. x \in Transaction \cup {NoRow}
      BY <2>3
    <3>2. QED
      BY <2>1, <2>4, <3>1
  <2>6. /\ summary'.row[a] = x
        /\ \A b \in Account \ {a} : summary'.row[b] = summary.row[b]
    BY <2>4, <2>5
  <2>7. ASSUME NEW b \in Account, summary'.row[b] # NoRow
        PROVE  summary'.row[b] \in stored /\ summary'.row[b].account = b
    <3>1. CASE b = a
      BY <2>3, <2>6, <2>7, <3>1
    <3>2. CASE b # a
      BY <2>6, <2>7, <3>2 DEF ReportsInv, SummaryInv
    <3>3. QED
      BY <3>1, <3>2
  <2>8. ASSUME NEW b \in Account \ summary'.left, NEW y \in summary'.begun, y.account = b
        PROVE  summary'.row[b] # NoRow /\ y.time <= summary'.row[b].time
    <3>1. CASE b = a
      <4>1. y \in Mine(stored, a)
        BY <2>4, <2>5, <2>8, <3>1 DEF Mine
      <4>2. QED
        BY <2>3, <2>6, <3>1, <4>1
    <3>2. CASE b # a
      BY <2>5, <2>6, <2>8, <3>2 DEF ReportsInv, SummaryInv
    <3>3. QED
      BY <3>1, <3>2
  <2>9. SummaryInv'
    BY <2>2, <2>5, <2>7, <2>8 DEF ReportsInv, SummaryInv
  <2>10. QED
    BY <1>2, <2>2, <2>9 DEF ReportsInv
<1>6. ASSUME SummaryOver PROVE ReportsInv'
  <2>1. UNCHANGED <<ledger, stored>> /\ summary' = NoSummary
    BY <1>6 DEF SummaryOver
  <2>2. SummaryInv'
    BY <2>1 DEF ReportsInv, SummaryInv, NoSummary
  <2>3. QED
    BY <1>2, <2>1, <2>2 DEF ReportsInv
<1>7. CASE UNCHANGED vars
  BY <1>2, <1>7 DEF vars, ReportsInv, SummaryInv
<1>8. QED
  BY <1>1, <1>3, <1>4, <1>5, <1>6, <1>7 DEF Next

\* Every entry of the bank's ledger has the balance of its account at that moment, and
\* a summary knows rows as young as those stored when it was asked for.
THEOREM ReportsInvariant == Spec => []ReportsInv
<1>1. QED
  BY ReportsInvInit, ReportsInvStep, PTL DEF Spec

-----------------------------------------------------------------------------
(* Balances. *)

\* Of stored transactions some are the youngest.
LEMMA YoungestExists ==
    ASSUME ReportsInv, NEW S \in SUBSET ledger, S # {}
    PROVE  Youngest(S) # {}
<1> DEFINE f == [x \in S |-> x.time]
<1>1. IsFiniteSet(S) /\ S \subseteq Transaction
  BY FS_Subset DEF ReportsInv, LedgerInv
<1>2. \A x \in S : f[x] \in Int
  BY <1>1, TransactionFields
<1>3. PICK x \in S : \A y \in S : f[y] <= f[x]
  <2> HIDE DEF f
  <2>1. QED
    BY <1>1, <1>2, LargestExists
<1>4. QED
  BY <1>3 DEF Youngest

\* Where no two are of one second, that is the last one booked.
LEMMA YoungestIsLast ==
    ASSUME ReportsInv, NEW S \in SUBSET ledger, S # {},
           \A x, y \in S : x.time = y.time => x = y
    PROVE  \E x \in S : Youngest(S) = {x} /\ \A y \in S : y.id <= x.id
<1>1. PICK x \in S : x \in Youngest(S)
  BY YoungestExists DEF Youngest
<1>2. \A y \in S : y.id \in Nat /\ y.time \in Nat
  BY TransactionFields DEF ReportsInv, LedgerInv
<1>3. ASSUME NEW y \in Youngest(S) PROVE y = x
  <2>1. y \in S /\ y.time <= x.time /\ x.time <= y.time
    BY <1>1, <1>3 DEF Youngest
  <2>2. QED
    BY <1>2, <2>1
<1>4. ASSUME NEW y \in S PROVE y.id <= x.id
  <2>1. SUFFICES ASSUME x.id < y.id PROVE FALSE
    BY <1>2
  <2>2. x.time <= y.time /\ y.time <= x.time
    BY <1>1, <2>1 DEF Youngest, ReportsInv, LedgerInv
  <2>3. x = y
    BY <1>2, <2>2
  <2>4. QED
    BY <1>2, <2>1, <2>3
<1>5. QED
  BY <1>1, <1>3, <1>4

LEMMA BalanceIsBanks ==
    ASSUME ReportsInv, NEW a \in Account, CaughtUp(a)
    PROVE  CurrentBalances(a) = {BankBalance(a)}
<1> DEFINE S == Mine(ledger, a)
<1>1. Mine(stored, a) = S
  BY DEF CaughtUp, ReportsInv, SummaryInv, Mine
<1>2. BankBalance(a) = Net(S)
  BY BankBalanceIsNet DEF ReportsInv
<1>3. CASE S = {}
  <2>1. Net(S) = 0
    BY <1>3, SumEmpty DEF Net
  <2>2. LastRows(a) = {NoRow}
    BY <1>1, <1>3 DEF LastRows, Mine
  <2>3. QED
    BY <1>2, <2>1, <2>2 DEF CurrentBalances, NoRow
<1>4. CASE S # {}
  <2>1. LastRows(a) = Youngest(S)
    BY <1>1, <1>4 DEF LastRows, Mine
  <2>2. S \in SUBSET ledger /\ \A x, y \in S : x.time = y.time => x = y
    BY DEF CaughtUp, Mine
  <2>3. PICK x \in S : Youngest(S) = {x} /\ \A y \in S : y.id <= x.id
    <3> HIDE DEF S
    <3>1. QED
      BY <1>4, <2>2, YoungestIsLast
  <2>4. UpTo(ledger, x) = S
    BY <2>3 DEF UpTo, Mine
  <2>5. x.balance = Net(S)
    BY <2>2, <2>3, <2>4 DEF ReportsInv, LedgerInv
  <2>6. QED
    BY <1>2, <2>1, <2>3, <2>5 DEF CurrentBalances
<1>5. QED
  BY <1>3, <1>4

\* Whatever the order in which the webhooks of an account came, once all are stored
\* the balance shown for it is the bank's, if no two of them are of one second.
THEOREM BalancesCatchUp == Spec => []BalanceCatchesUp
<1>1. ReportsInv => BalanceCatchesUp
  BY BalanceIsBanks DEF BalanceCatchesUp
<1>2. QED
  BY <1>1, ReportsInvariant, PTL

\* The database holds only what the bank booked, every account has a balance to show,
\* and a summary shows stored rows.
THEOREM TypesHold == Spec => []TypeOK
<1>1. ASSUME ReportsInv, NEW a \in Account PROVE CurrentBalances(a) # {}
  <2>1. LastRows(a) # {}
    <3>1. CASE Mine(stored, a) = {}
      BY <3>1 DEF LastRows, Mine
    <3>2. CASE Mine(stored, a) # {}
      <4>1. LastRows(a) = Youngest(Mine(stored, a))
        BY <3>2 DEF LastRows, Mine
      <4>2. Mine(stored, a) \in SUBSET ledger
        BY <1>1 DEF Mine, ReportsInv, SummaryInv
      <4>3. QED
        BY <1>1, <3>2, <4>1, <4>2, YoungestExists
    <3>3. QED
      BY <3>1, <3>2
  <2>2. QED
    BY <2>1 DEF CurrentBalances
<1>2. ReportsInv => TypeOK
  <2>1. SUFFICES ASSUME ReportsInv PROVE TypeOK
    OBVIOUS
  <2>2. \A a \in Account : summary.row[a] \in stored \cup {NoRow}
    BY <2>1 DEF ReportsInv, SummaryInv
  <2>3. summary.left \subseteq Account /\ summary.begun \subseteq stored
    BY <2>1 DEF ReportsInv, SummaryInv
  <2>4. QED
    BY <1>1, <2>1, <2>2, <2>3 DEF TypeOK, ReportsInv, SummaryInv, LedgerInv
<1>3. QED
  BY <1>2, ReportsInvariant, PTL

\* A summary shows no balance older than the youngest stored when it was asked for; and
\* when all was stored by then, and nothing came since, its totals are the bank's.
THEOREM SummariesAreRecent == Spec => []SummaryIsRecent
<1>1. ASSUME ReportsInv, summary.left = {}, NEW a \in Account, CaughtUp(a),
             stored = summary.begun
      PROVE  summary.row[a].balance = BankBalance(a)
  <2> DEFINE x == summary.row[a]
  <2>1. /\ x # NoRow => x \in stored /\ x.account = a
        /\ \A y \in Mine(stored, a) : x # NoRow /\ y.time <= x.time
    BY <1>1 DEF ReportsInv, SummaryInv, Mine
  <2>2. x \in LastRows(a)
    <3>1. CASE Mine(stored, a) = {}
      BY <2>1, <3>1 DEF LastRows, Mine
    <3>2. CASE Mine(stored, a) # {}
      <4>1. x \in Mine(stored, a)
        BY <2>1, <3>2 DEF Mine
      <4>2. x \in Youngest(Mine(stored, a))
        BY <2>1, <4>1 DEF Youngest
      <4>3. QED
        BY <3>2, <4>2 DEF LastRows, Mine
    <3>3. QED
      BY <3>1, <3>2
  <2>3. x.balance \in CurrentBalances(a)
    BY <2>2 DEF CurrentBalances
  <2>4. QED
    BY <1>1, <2>3, BalanceIsBanks
<1>2. ReportsInv => SummaryIsRecent
  <2>1. SUFFICES ASSUME ReportsInv, summary.asked, summary.left = {}
                 PROVE  /\ \A a \in Account, x \in summary.begun :
                             x.account = a => /\ summary.row[a] # NoRow
                                              /\ summary.row[a].time >= x.time
                        /\ (\A a \in Account : CaughtUp(a)) /\ stored = summary.begun =>
                             \A c \in {CurrencyOf[a] : a \in Account} :
                               TotalIn(c) = SumFunction([a \in {b \in Account : CurrencyOf[b] = c}
                                                           |-> BankBalance(a)])
    BY DEF SummaryIsRecent
  <2>2. ASSUME NEW a \in Account, NEW x \in summary.begun, x.account = a
        PROVE  summary.row[a] # NoRow /\ summary.row[a].time >= x.time
    <3>1. summary.row[a] # NoRow /\ x.time <= summary.row[a].time
      BY <2>1, <2>2 DEF ReportsInv, SummaryInv
    <3>2. x \in Transaction /\ summary.row[a] \in Transaction
      <4>1. summary.begun \subseteq stored /\ summary.row[a] \in stored
        BY <2>1, <3>1 DEF ReportsInv, SummaryInv
      <4>2. stored \subseteq Transaction
        BY <2>1 DEF ReportsInv, SummaryInv, LedgerInv
      <4>3. QED
        BY <4>1, <4>2
    <3>3. QED
      BY <3>1, <3>2, TransactionFields
  <2>3. ASSUME \A a \in Account : CaughtUp(a), stored = summary.begun, NEW c
        PROVE  TotalIn(c) = SumFunction([a \in {b \in Account : CurrencyOf[b] = c}
                                           |-> BankBalance(a)])
    <3>1. \A a \in Account : summary.row[a].balance = BankBalance(a)
      BY <1>1, <2>1, <2>3
    <3>2. [a \in {b \in Account : CurrencyOf[b] = c} |-> summary.row[a].balance]
            = [a \in {b \in Account : CurrencyOf[b] = c} |-> BankBalance(a)]
      BY <3>1
    <3>3. QED
      BY <3>2 DEF TotalIn
  <2>4. QED
    BY <2>2, <2>3
<1>3. QED
  BY <1>2, ReportsInvariant, PTL

-----------------------------------------------------------------------------
(* Days. *)

LEMMA ProductGrows ==
    ASSUME NEW a \in Int, NEW b \in Int, NEW c \in Nat, a <= b
    PROVE  a * c <= b * c
OBVIOUS

LEMMA ProductParts ==
    ASSUME NEW a \in Int, NEW b \in Int, NEW c \in Int
    PROVE  /\ a * c \in Int /\ (a - b) * c = a * c - b * c
           /\ (a + 1) * c = a * c + c /\ (a - 1) * c + c = a * c
OBVIOUS

LEMMA Quotient ==
    ASSUME NEW a \in Nat, NEW b \in Nat \ {0}
    PROVE  /\ a \div b \in Nat
           /\ (a \div b) * b <= a
           /\ a < (a \div b) * b + b
OBVIOUS

\* A moment is in the days up to d if it is before the end of day d, and in the days
\* from d on if it is not before its start.
LEMMA DayBounds ==
    ASSUME NEW t \in Nat, NEW d \in Int
    PROVE  /\ DayOf(t) \in Nat
           /\ From(d) <= t <=> d <= DayOf(t)
           /\ t < To(d) <=> DayOf(t) <= d
<1> DEFINE q == DayOf(t)
           L == DayLength
<1>1. L \in Nat \ {0}
  BY ReportsAssumption
<1>2. q \in Nat /\ q * L <= t /\ t < q * L + L
  BY <1>1, Quotient DEF DayOf
<1> HIDE DEF q, L
<1>3. d * L \in Int /\ q * L \in Int /\ (d + 1) * L = d * L + L /\ (q + 1) * L = q * L + L
  BY <1>1, <1>2, ProductParts
<1>4. d <= q => d * L <= t
  <2>1. d <= q => d * L <= q * L
    BY <1>1, <1>2, ProductGrows
  <2>2. QED
    BY <1>2, <1>3, <2>1
<1>5. q < d => t < d * L
  <2>1. q < d => (q + 1) * L <= d * L
    BY <1>1, <1>2, ProductGrows
  <2>2. QED
    BY <1>1, <1>2, <1>3, <2>1
<1>6. q <= d => t < d * L + L
  <2>1. q <= d => q * L <= d * L
    BY <1>1, <1>2, ProductGrows
  <2>2. QED
    BY <1>1, <1>2, <1>3, <2>1
<1>7. d < q => d * L + L <= t
  <2>1. d < q => (d + 1) * L <= q * L
    BY <1>1, <1>2, ProductGrows
  <2>2. QED
    BY <1>1, <1>2, <1>3, <2>1
<1>8. From(d) = d * L /\ To(d) = d * L + L
  BY DEF From, To, L
<1>9. QED
  BY <1>1, <1>2, <1>3, <1>4, <1>5, <1>6, <1>7, <1>8 DEF q

\* The dates of a report as days.
LEMMA Dates ==
    ASSUME NEW d \in Int, NEW n \in Int
    PROVE  /\ From(d) \in Int /\ To(d) \in Int
           /\ To(d) = From(d + 1)
           /\ From(d) - n * DayLength = From(d - n)
           /\ d \in Nat => DayOf(From(d)) = d /\ DayOf(To(d)) - 1 = d
<1>1. DayLength \in Int /\ DayLength \in Nat \ {0}
  BY ReportsAssumption
<1>2. /\ From(d) \in Int /\ To(d) \in Int
      /\ To(d) = From(d + 1) /\ From(d) - n * DayLength = From(d - n)
  BY <1>1, ProductParts DEF From, To
<1>3. ASSUME NEW e \in Nat PROVE DayOf(From(e)) = e
  <2>1. From(e) \in Int /\ To(e) = From(e) + DayLength
    BY <1>1, ProductParts DEF From, To
  <2>2. From(e) \in Nat
    <3>1. 0 * DayLength <= e * DayLength
      BY <1>1, ProductGrows
    <3>2. QED
      BY <1>1, <2>1, <3>1 DEF From
  <2>3. From(e) <= From(e) /\ From(e) < To(e)
    BY <1>1, <2>1
  <2>4. e <= DayOf(From(e)) /\ DayOf(From(e)) <= e /\ DayOf(From(e)) \in Nat
    BY <2>2, <2>3, DayBounds
  <2>5. QED
    BY <2>4
<1>4. d \in Nat => DayOf(From(d)) = d /\ DayOf(From(d + 1)) = d + 1
  BY <1>3
<1>5. QED
  BY <1>2, <1>4

\* What is stored of days d to e.
InDays(a, d, e) == {x \in stored : a \in {x.account, All} /\ DayOf(x.time) \in d..e}

LEMMA StoredDays ==
    ASSUME ReportsInv, NEW x \in stored
    PROVE  x \in ledger /\ x \in Transaction /\ x.time \in Nat /\ DayOf(x.time) \in Nat
<1>1. x \in ledger /\ x \in Transaction
  BY DEF ReportsInv, SummaryInv, LedgerInv
<1>2. x.time \in Nat
  BY <1>1, TransactionFields
<1>3. QED
  BY <1>1, <1>2, DayBounds

LEMMA InDaysFinite ==
    ASSUME ReportsInv, NEW S \in SUBSET stored
    PROVE  S \in SUBSET Transaction /\ IsFiniteSet(S) /\ S \in SUBSET ledger
<1>1. S \in SUBSET ledger
  BY DEF ReportsInv, SummaryInv
<1>2. QED
  BY <1>1, FS_Subset DEF ReportsInv, LedgerInv

\* A report from one day to another is about the transactions of these days.
LEMMA SelectedDays ==
    ASSUME ReportsInv, NEW a, NEW d \in Int, NEW e \in Int
    PROVE  Selected(From(d), To(e), a) = InDays(a, d, e)
<1>1. ASSUME NEW x \in stored
      PROVE  Within(x, From(d), To(e)) <=> DayOf(x.time) \in d..e
  <2>1. /\ DayOf(x.time) \in Nat
        /\ From(d) <= x.time <=> d <= DayOf(x.time)
        /\ x.time < To(e) <=> DayOf(x.time) <= e
    BY <1>1, StoredDays, DayBounds
  <2>2. QED
    BY <2>1 DEF Within
<1>2. QED
  BY <1>1 DEF Selected, InDays

LEMMA OneDay ==
    ASSUME ReportsInv, NEW a, NEW d \in Int, NEW e \in Int, NEW day \in d..e
    PROVE  OnDay(InDays(a, d, e), day) = InDays(a, day, day)
<1>1. \A x \in stored : DayOf(x.time) \in Nat
  BY StoredDays
<1>2. QED
  BY <1>1 DEF OnDay, InDays

-----------------------------------------------------------------------------
(* Expenses. *)

Cost == [x \in Transaction |-> -x.kind.amount]

LEMMA ExpensesIsSum ==
    ASSUME ReportsInv, NEW S \in SUBSET stored
    PROVE  /\ Expenses(S) = SumFunctionOnSet(Cost, Spending(S))
           /\ IsFiniteSet(Spending(S)) /\ Spending(S) \in SUBSET Transaction
           /\ \A x \in Spending(S) : Cost[x] \in Int /\ Cost[x] \in Nat
<1> DEFINE T == Spending(S)
           f == [x \in T |-> -x.kind.amount]
<1>1. T \in SUBSET S
  BY DEF Spending
<1>2. IsFiniteSet(T) /\ T \in SUBSET Transaction
  BY <1>1, InDaysFinite
<1>3. Expenses(S) = SumFunctionOnSet(f, T)
  BY DEF Expenses, SumFunction, Spending
<1>4. ASSUME NEW x \in T PROVE f[x] = Cost[x] /\ Cost[x] \in Int /\ Cost[x] \in Nat
  <2>1. x \in Transaction /\ x.kind.amount < 0 /\ x.kind.amount \in Int
    BY <1>2, TransactionFields DEF Spending
  <2>2. QED
    BY <2>1 DEF Cost
<1> HIDE DEF T, f
<1>5. SumFunctionOnSet(f, T) = SumFunctionOnSet(Cost, T)
  BY <1>2, <1>4, SumSame
<1>6. QED
  BY <1>2, <1>3, <1>4, <1>5 DEF T

\* Expenses taken day by day, the days given by a key, are the expenses of all days.
LEMMA DaysAddUp ==
    ASSUME ReportsInv, NEW S \in SUBSET stored, NEW K, IsFiniteSet(K),
           NEW k, \A x \in S : k[x] \in K,
           NEW h, \A i \in K : h[i] = Expenses(Group(S, k, i))
    PROVE  SumFunctionOnSet(h, K) = Expenses(S)
<1> DEFINE T == Spending(S)
<1>1. /\ Expenses(S) = SumFunctionOnSet(Cost, T) /\ IsFiniteSet(T)
      /\ \A x \in T : Cost[x] \in Int
  BY ExpensesIsSum
<1>2. ASSUME NEW i \in K PROVE h[i] = SumFunctionOnSet(Cost, Group(T, k, i))
  <2> DEFINE U == Group(S, k, i)
  <2>1. U \in SUBSET stored /\ Spending(U) = Group(T, k, i) /\ h[i] = Expenses(U)
    BY DEF Spending, Group
  <2> HIDE DEF U
  <2>2. QED
    BY <2>1, ExpensesIsSum
<1>3. \A x \in T : k[x] \in K
  BY DEF Spending
<1> HIDE DEF T
<1>4. SumFunctionOnSet(h, K) = SumFunctionOnSet(Cost, T)
  BY <1>1, <1>2, <1>3, SumByGroup
<1>5. QED
  BY <1>1, <1>4

LEMMA ExpensesOfDay ==
    ASSUME ReportsInv, NEW a, NEW d \in Int, NEW e \in Int, NEW day \in (d - LongWindow)..e
    PROVE  ExpensesOn(From(d), To(e), a, day) = Expenses(InDays(a, day, day))
<1>1. LongWindow \in Int /\ d - LongWindow \in Int
  BY ReportsAssumption
<1>2. ExtendedFrom(From(d)) = From(d - LongWindow)
  BY <1>1, Dates DEF ExtendedFrom
<1>3. Selected(ExtendedFrom(From(d)), To(e), a) = InDays(a, d - LongWindow, e)
  BY <1>1, <1>2, SelectedDays
<1>4. QED
  BY <1>1, <1>3, OneDay DEF ExpensesOn

LEMMA TotalIsExpenses ==
    ASSUME ReportsInv, NEW a, NEW d \in Nat, NEW e \in Nat, d <= e
    PROVE  /\ PeriodDays(From(d), To(e)) = d..e
           /\ TotalExpenses(From(d), To(e), a) = Expenses(InDays(a, d, e))
<1> DEFINE S == InDays(a, d, e)
           k == [x \in S |-> DayOf(x.time)]
           h == [i \in d..e |-> ExpensesOn(From(d), To(e), a, i)]
<1>1. PeriodDays(From(d), To(e)) = d..e
  BY Dates DEF PeriodDays, PeriodStart, PeriodEnd
<1>2. TotalExpenses(From(d), To(e), a) = SumFunctionOnSet(h, d..e)
  BY <1>1 DEF TotalExpenses, SumFunction
<1>3. S \in SUBSET stored /\ \A x \in S : k[x] \in d..e
  BY DEF InDays
<1>4. ASSUME NEW i \in d..e PROVE h[i] = Expenses(Group(S, k, i))
  <2>1. i \in (d - LongWindow)..e
    BY ReportsAssumption
  <2>2. h[i] = Expenses(InDays(a, i, i))
    BY <2>1, ExpensesOfDay
  <2>3. Group(S, k, i) = InDays(a, i, i)
    <3>1. Group(S, k, i) = OnDay(InDays(a, d, e), i)
      BY DEF OnDay, Group
    <3>2. QED
      BY <3>1, OneDay
  <2>4. QED
    BY <2>2, <2>3
<1>5. IsFiniteSet(d..e)
  BY FS_Interval
<1> HIDE DEF S, k, h
<1>6. SumFunctionOnSet(h, d..e) = Expenses(S)
  BY <1>3, <1>4, <1>5, DaysAddUp
<1>7. QED
  BY <1>1, <1>2, <1>6 DEF S

LEMMA MovingIsAverage ==
    ASSUME ReportsInv, NEW a, NEW d \in Nat, NEW e \in Nat, NEW day \in d..e,
           NEW w \in Nat \ {0}, w <= LongWindow
    PROVE  MovingAvg(From(d), To(e), a, day, w) = AverageOver(a, day - w + 1, day)
<1> DEFINE S == InDays(a, day - w + 1, day)
           k == [x \in S |-> day - DayOf(x.time)]
           K == 0..(w - 1)
           h == [i \in K |-> ExpensesOn(From(d), To(e), a, day - i)]
<1>1. MovingAvg(From(d), To(e), a, day, w) = SumFunctionOnSet(h, K) \div w
  BY DEF MovingAvg, SumFunction
<1>2. S \in SUBSET stored /\ \A x \in S : k[x] \in K
  <2>1. ASSUME NEW x \in S PROVE k[x] \in K
    <3>1. DayOf(x.time) \in Nat /\ DayOf(x.time) \in (day - w + 1)..day
      BY StoredDays DEF InDays
    <3>2. QED
      BY <3>1
  <2>2. QED
    BY <2>1 DEF InDays
<1>3. ASSUME NEW i \in K PROVE h[i] = Expenses(Group(S, k, i))
  <2>1. /\ day - i \in (d - LongWindow)..e /\ day - i \in (day - w + 1)..day
        /\ day - w + 1 \in Int /\ day \in Int
    BY ReportsAssumption
  <2>2. h[i] = Expenses(InDays(a, day - i, day - i))
    BY <2>1, ExpensesOfDay
  <2>3. Group(S, k, i) = OnDay(S, day - i)
    <3>1. \A x \in S : DayOf(x.time) \in Nat
      BY StoredDays DEF InDays
    <3>2. \A x \in S : k[x] = i <=> DayOf(x.time) = day - i
      BY <2>1, <3>1
    <3>3. QED
      BY <3>2 DEF OnDay, Group
  <2>4. OnDay(S, day - i) = InDays(a, day - i, day - i)
    BY <2>1, OneDay
  <2>5. QED
    BY <2>2, <2>3, <2>4
<1>4. IsFiniteSet(K)
  BY FS_Interval
<1>5. AverageOver(a, day - w + 1, day) = Expenses(S) \div w
  BY DEF AverageOver, InDays
<1> HIDE DEF S, k, K, h
<1>6. SumFunctionOnSet(h, K) = Expenses(S)
  BY <1>2, <1>3, <1>4, DaysAddUp
<1>7. QED
  BY <1>1, <1>5, <1>6

LEMMA AveragesAgree ==
    ASSUME ReportsInv, NEW a, NEW d \in Nat, NEW e \in Nat, d <= e
    PROVE  /\ AvgDaily(From(d), To(e), a) = AverageOver(a, d, e)
           /\ PrevAvg(From(d), To(e), a) = AverageOver(a, d - (e - d + 1), d - 1)
<1>1. PeriodDays(From(d), To(e)) = d..e /\ d..e # {}
  BY TotalIsExpenses
<1>2. DaysInPeriod(From(d), To(e)) = e - d + 1
  BY <1>1, FS_Interval DEF DaysInPeriod
<1> DEFINE n == e - d + 1
<1>3. n \in Int /\ d - n \in Int /\ d - 1 \in Int
  OBVIOUS
<1>4. AvgDaily(From(d), To(e), a) = AverageOver(a, d, e)
  BY <1>1, <1>2, TotalIsExpenses DEF AvgDaily, AverageOver, InDays
<1>5. PrevFrom(From(d), To(e)) = From(d - n)
  BY <1>2, <1>3, Dates DEF PrevFrom
<1>6. From(d) = To(d - 1)
  BY <1>3, Dates
<1>7. Selected(PrevFrom(From(d), To(e)), From(d), a) = InDays(a, d - n, d - 1)
  <2> HIDE DEF n
  <2>1. Selected(From(d - n), To(d - 1), a) = InDays(a, d - n, d - 1)
    BY <1>3, SelectedDays
  <2>2. QED
    BY <1>5, <1>6, <2>1
<1>8. PrevAvg(From(d), To(e), a) = Expenses(InDays(a, d - n, d - 1)) \div n
  BY <1>1, <1>2, <1>7 DEF PrevAvg
<1>9. AverageOver(a, d - n, d - 1) = Expenses(InDays(a, d - n, d - 1)) \div n
  <2>1. (d - 1) - (d - n) + 1 = n
    OBVIOUS
  <2>2. QED
    BY <2>1 DEF AverageOver, InDays
<1>10. QED
  BY <1>4, <1>8, <1>9

\* What is in a category is spent, and what is in none is missing.
LEMMA CategoriesAddUp ==
    ASSUME ReportsInv, NEW a, NEW f, NEW t
    PROVE  LET S == Selected(f, t, a)
           IN  /\ CategoriesTotal(f, t, a) <= Expenses(S)
               /\ (\A x \in Spending(S) : x.kind.mcc \in DOMAIN Category)
                    => CategoriesTotal(f, t, a) = Expenses(S)
<1> DEFINE S == Selected(f, t, a)
           T == Spending(S)
           U == {x \in T : x.kind.mcc \in DOMAIN Category}
           K == {Category[m] : m \in DOMAIN Category}
           k == [x \in U |-> Category[x.kind.mcc]]
           h == [c \in K |-> CategoryTotal(f, t, a, c)]
<1>1. /\ S \in SUBSET stored
      /\ Expenses(S) = SumFunctionOnSet(Cost, T) /\ IsFiniteSet(T) /\ T \in SUBSET Transaction
      /\ \A x \in T : Cost[x] \in Int /\ Cost[x] \in Nat
  <2>1. S \in SUBSET stored
    BY DEF Selected
  <2> HIDE DEF S
  <2>2. QED
    BY <2>1, ExpensesIsSum
<1>2. U \in SUBSET T /\ IsFiniteSet(U) /\ \A x \in U : Cost[x] \in Int
  <2>1. U \in SUBSET T
    OBVIOUS
  <2> HIDE DEF T, U
  <2>2. QED
    BY <1>1, <2>1, FS_Subset
<1>3. IsFiniteSet(K)
  <2> DEFINE cat == [m \in DOMAIN Category |-> Category[m]]
  <2>1. cat \in Surjection(DOMAIN Category, K)
    BY DEF Surjection
  <2>2. QED
    BY <2>1, ReportsAssumption, FS_Surjection
<1>4. \A x \in U : k[x] \in K
  OBVIOUS
<1>5. ASSUME NEW c \in K PROVE h[c] = SumFunctionOnSet(Cost, Group(U, k, c))
  <2> DEFINE V == Group(U, k, c)
             g == [x \in V |-> Size(x.kind.amount)]
  <2>1. V = {x \in T : x.kind.mcc \in DOMAIN Category /\ Category[x.kind.mcc] = c}
    BY DEF Group
  <2>2. h[c] = SumFunctionOnSet(g, V)
    BY <2>1 DEF CategoryTotal, SumFunction
  <2>3. IsFiniteSet(V)
    <3>1. V \in SUBSET U
      BY DEF Group
    <3> HIDE DEF U, V
    <3>2. QED
      BY <1>2, <3>1, FS_Subset
  <2>4. ASSUME NEW x \in V PROVE g[x] = Cost[x]
    <3>1. x \in Transaction /\ x.kind.amount < 0
      BY <1>1 DEF Spending, Group
    <3>2. QED
      BY <3>1 DEF Size, Cost
  <2> HIDE DEF V, g
  <2>5. SumFunctionOnSet(g, V) = SumFunctionOnSet(Cost, V)
    BY <2>3, <2>4, SumSame
  <2>6. QED
    BY <2>2, <2>5 DEF V
<1>6. CategoriesTotal(f, t, a) = SumFunctionOnSet(h, K)
  BY DEF CategoriesTotal, SumFunction
<1>7. (\A x \in T : x.kind.mcc \in DOMAIN Category) => U = T
  OBVIOUS
<1> HIDE DEF T, U, K, k, h
<1>8. SumFunctionOnSet(h, K) = SumFunctionOnSet(Cost, U)
  BY <1>2, <1>3, <1>4, <1>5, SumByGroup
<1>9. SumFunctionOnSet(Cost, U) <= SumFunctionOnSet(Cost, T)
  BY <1>1, <1>2, SumMonotone
<1>10. QED
  BY <1>1, <1>6, <1>7, <1>8, <1>9 DEF T

\* The burn rate, which walks over the period day by day, and the other reports, which
\* ask for it in one query, come to the same expenses; its averages see every stored
\* expense of their days, also of those before the period; and the categories leave out
\* nothing but what has no category.
THEOREM ExpensesDoAgree == Spec => []ExpensesAgree
<1> DEFINE Agree(a, d, e) ==
             /\ TotalExpenses(From(d), To(e), a) = Expenses(Selected(From(d), To(e), a))
             /\ AvgDaily(From(d), To(e), a) = AverageOver(a, d, e)
             /\ \A day \in d..e :
                  MovingAvg(From(d), To(e), a, day, ShortWindow)
                    = AverageOver(a, day - ShortWindow + 1, day)
             /\ MovingAvg(From(d), To(e), a, e, LongWindow)
                  = AverageOver(a, e - LongWindow + 1, e)
             /\ PrevAvg(From(d), To(e), a) = AverageOver(a, d - (e - d + 1), d - 1)
             /\ CategoriesTotal(From(d), To(e), a) <= TotalExpenses(From(d), To(e), a)
             /\ (\A x \in Spending(Selected(From(d), To(e), a)) :
                     x.kind.mcc \in DOMAIN Category)
                  => CategoriesTotal(From(d), To(e), a) = TotalExpenses(From(d), To(e), a)
<1>1. ASSUME ReportsInv, NEW a, NEW d \in Nat, NEW e \in Nat, d <= e
      PROVE  Agree(a, d, e)
  <2>1. TotalExpenses(From(d), To(e), a) = Expenses(Selected(From(d), To(e), a))
    BY <1>1, TotalIsExpenses, SelectedDays
  <2>2. /\ AvgDaily(From(d), To(e), a) = AverageOver(a, d, e)
        /\ PrevAvg(From(d), To(e), a) = AverageOver(a, d - (e - d + 1), d - 1)
    BY <1>1, AveragesAgree
  <2>3. /\ ShortWindow \in Nat \ {0} /\ ShortWindow <= LongWindow
        /\ LongWindow \in Nat \ {0} /\ LongWindow <= LongWindow
    BY ReportsAssumption
  <2>4. \A day \in d..e :
          MovingAvg(From(d), To(e), a, day, ShortWindow)
            = AverageOver(a, day - ShortWindow + 1, day)
    BY <1>1, <2>3, MovingIsAverage
  <2>5. MovingAvg(From(d), To(e), a, e, LongWindow) = AverageOver(a, e - LongWindow + 1, e)
    <3>1. e \in d..e
      BY <1>1
    <3>2. QED
      BY <1>1, <2>3, <3>1, MovingIsAverage
  <2>6. /\ CategoriesTotal(From(d), To(e), a) <= TotalExpenses(From(d), To(e), a)
        /\ (\A x \in Spending(Selected(From(d), To(e), a)) :
                x.kind.mcc \in DOMAIN Category)
             => CategoriesTotal(From(d), To(e), a) = TotalExpenses(From(d), To(e), a)
    BY <1>1, <2>1, CategoriesAddUp
  <2>7. QED
    BY <2>1, <2>2, <2>4, <2>5, <2>6
<1>2. \A d \in 0..LastDay : d \in Nat
  BY ReportsAssumption
<1>3. ReportsInv => ExpensesAgree
  <2>1. SUFFICES ASSUME ReportsInv, NEW a \in Scope, NEW d \in 0..LastDay, NEW e \in 0..LastDay,
                        d <= e
                 PROVE  Agree(a, d, e)
    BY DEF ExpensesAgree
  <2> HIDE DEF Agree
  <2>2. QED
    BY <1>1, <1>2, <2>1
<1>4. QED
  BY <1>3, ReportsInvariant, PTL

-----------------------------------------------------------------------------
(* History. *)

\* Income less expenses is what the amounts come to.
LEMMA NetOfDay ==
    ASSUME ReportsInv, NEW S \in SUBSET stored
    PROVE  Income(S) - Expenses(S) = Net(S)
<1> DEFINE P == {x \in S : x.kind.amount > 0}
           N == Spending(S)
           Z == S \ (P \cup N)
<1>1. IsFiniteSet(S) /\ S \in SUBSET Transaction
  BY InDaysFinite
<1>2. /\ P \in SUBSET S /\ N \in SUBSET S /\ Z \in SUBSET S
      /\ P \cup N \in SUBSET S /\ (P \cup N) \cup Z = S /\ (P \cup N) \cap Z = {}
  BY DEF Spending
<1>3. \A x \in S : /\ Amount[x] = x.kind.amount /\ x.kind.amount \in Int
                   /\ Amount[x] \in Int /\ Cost[x] = -Amount[x]
  <2>1. \A x \in S : x \in Transaction /\ Amount[x] = x.kind.amount /\ x.kind.amount \in Int
    BY <1>1, TransactionFields
  <2>2. QED
    BY <2>1 DEF Cost
<1>4. P \cap N = {}
  BY <1>3 DEF Spending
<1>5. Income(S) = Net(P)
  <2>1. P \in SUBSET Transaction /\ IsFiniteSet(P)
    BY <1>1, <1>2, FS_Subset
  <2>2. Income(S) = SumFunction([x \in P |-> x.kind.amount])
    BY DEF Income
  <2> HIDE DEF P
  <2>3. QED
    BY <2>1, <2>2, NetIsSum
<1>6. Expenses(S) = SumFunctionOnSet(Cost, N)
  BY ExpensesIsSum
<1>7. \A x \in Z : Amount[x] = 0
  BY <1>3 DEF Spending
<1> HIDE DEF P, N, Z
<1>8. IsFiniteSet(P) /\ IsFiniteSet(N) /\ IsFiniteSet(Z) /\ IsFiniteSet(P \cup N)
  BY <1>1, <1>2, FS_Subset
<1>9. SumFunctionOnSet(Cost, N) = -Net(N)
  <2>1. \A x \in N : Amount[x] \in Int /\ Cost[x] = -Amount[x]
    BY <1>2, <1>3
  <2>2. QED
    BY <1>8, <2>1, SumOpposite DEF Net
<1>10. Net(P) \in Int /\ Net(N) \in Int /\ Net(Z) \in Int
  BY <1>1, <1>2, <1>8, NetType
<1>11. Net(Z) = 0
  <2>1. \A x \in Z : Amount[x] \in Int /\ Amount[x] = -Amount[x]
    BY <1>7
  <2>2. Net(Z) = -Net(Z)
    BY <1>8, <2>1, SumOpposite DEF Net
  <2>3. QED
    BY <1>10, <2>2
<1>12. Net(P \cup N) = Net(P) + Net(N)
  <2>1. \A x \in P \cup N : Amount[x] \in Int
    BY <1>2, <1>3
  <2>2. QED
    BY <1>4, <1>8, <2>1, SumUnion DEF Net
<1>13. Net((P \cup N) \cup Z) = Net(P \cup N) + Net(Z)
  <2>1. \A x \in (P \cup N) \cup Z : Amount[x] \in Int
    BY <1>2, <1>3
  <2>2. QED
    BY <1>2, <1>8, <2>1, SumUnion DEF Net
<1>14. Net(S) = Net((P \cup N) \cup Z)
  BY <1>2
<1>15. Net(S) = Net(P) + Net(N)
  BY <1>10, <1>11, <1>12, <1>13, <1>14
<1>16. Expenses(S) = -Net(N)
  BY <1>6, <1>9
<1>17. QED
  BY <1>5, <1>10, <1>15, <1>16

\* The transactions of an account up to the end of day d are the entries of the ledger
\* up to the last one of that day.
LEMMA UpToDay ==
    ASSUME ReportsInv, NEW a \in Account, NEW d \in Nat, CaughtUp(a),
           OnDay(InDays(a, 0, d), d) # {}
    PROVE  \E x \in ledger : /\ Youngest(OnDay(InDays(a, 0, d), d)) = {x}
                             /\ UpTo(ledger, x) = InDays(a, 0, d)
<1> DEFINE S == InDays(a, 0, d)
           rows == OnDay(S, d)
<1>1. ASSUME NEW x \in S
      PROVE  x \in stored /\ x \in ledger /\ x.account = a /\ DayOf(x.time) <= d
  <2>1. x \in stored /\ a \in {x.account, All} /\ DayOf(x.time) \in 0..d
    BY DEF InDays
  <2>2. x \in ledger
    BY <2>1, StoredDays
  <2>3. a # All
    BY ReportsAssumption
  <2>4. QED
    BY <2>1, <2>2, <2>3
<1>2. rows \in SUBSET ledger /\ \A x, y \in rows : x.time = y.time => x = y
  <2>1. \A x \in rows : x \in ledger /\ x.account = a
    BY <1>1 DEF OnDay
  <2>2. QED
    BY <2>1 DEF CaughtUp
<1>3. PICK x \in rows : Youngest(rows) = {x} /\ \A y \in rows : y.id <= x.id
  <2> HIDE DEF rows
  <2>1. QED
    BY <1>2, YoungestIsLast DEF rows
<1>4. x \in S /\ x \in ledger /\ x.account = a /\ DayOf(x.time) = d
  BY <1>1, <1>3 DEF OnDay
<1>5. \A y \in ledger : y.id \in Nat /\ y.time \in Nat
  BY TransactionFields DEF ReportsInv, LedgerInv
<1>6. From(d) <= x.time /\ x.time < To(d)
  BY <1>4, <1>5, DayBounds
<1>7. From(d) \in Int /\ To(d) \in Int
  BY Dates
<1>8. ASSUME NEW y \in ledger, y.account = a, y.id <= x.id PROVE y \in S
  <2>1. y.time <= x.time
    <3>1. CASE y.id = x.id
      BY <1>4, <1>5, <3>1 DEF ReportsInv, LedgerInv
    <3>2. CASE y.id < x.id
      BY <1>4, <3>2 DEF ReportsInv, LedgerInv
    <3>3. QED
      BY <1>4, <1>5, <1>8, <3>1, <3>2
  <2>2. y.time < To(d)
    BY <1>4, <1>5, <1>6, <1>7, <2>1
  <2>3. DayOf(y.time) \in Nat /\ DayOf(y.time) <= d
    BY <1>5, <2>2, DayBounds
  <2>4. y \in stored
    BY <1>8 DEF CaughtUp
  <2>5. QED
    BY <1>8, <2>3, <2>4 DEF InDays
<1>9. ASSUME NEW y \in S PROVE y.account = a /\ y \in ledger /\ y.id <= x.id
  <2>1. y.account = a /\ y \in ledger /\ DayOf(y.time) <= d
    BY <1>1
  <2>2. SUFFICES ASSUME x.id < y.id PROVE FALSE
    BY <1>4, <1>5, <2>1
  <2>3. x.time <= y.time
    BY <1>4, <2>1, <2>2 DEF ReportsInv, LedgerInv
  <2>4. From(d) <= y.time
    BY <1>4, <1>5, <1>6, <1>7, <2>1, <2>3
  <2>5. DayOf(y.time) = d
    BY <1>5, <2>1, <2>4, DayBounds
  <2>6. y \in rows
    BY <1>9, <2>5 DEF OnDay
  <2>7. QED
    BY <1>3, <1>4, <1>5, <2>1, <2>2, <2>6
<1>10. UpTo(ledger, x) = S
  BY <1>4, <1>8, <1>9 DEF UpTo
<1>11. QED
  BY <1>3, <1>4, <1>10

LEMMA HistoryAddsUp ==
    ASSUME ReportsInv, NEW a \in Account, NEW d \in Nat, CaughtUp(a),
           d \in HistoryDays(From(0), To(d), a)
    PROVE  HistoryRow(From(0), To(d), a, d).closing =
             {SumFunction([e \in HistoryDays(From(0), To(d), a) |->
                             HistoryRow(From(0), To(d), a, e).net])}
<1> DEFINE S == InDays(a, 0, d)
           K == HistoryDays(From(0), To(d), a)
           k == [x \in S |-> DayOf(x.time)]
           h == [e \in K |-> HistoryRow(From(0), To(d), a, e).net]
<1>1. Selected(From(0), To(d), a) = S
  BY SelectedDays
<1>2. K = {DayOf(x.time) : x \in S}
  BY <1>1 DEF HistoryDays
<1>3. S \in SUBSET stored /\ IsFiniteSet(S) /\ S \in SUBSET Transaction
  <2>1. S \in SUBSET stored
    BY DEF InDays
  <2> HIDE DEF S
  <2>2. QED
    BY <2>1, InDaysFinite
<1>4. OnDay(S, d) # {}
  BY <1>2 DEF OnDay
<1>5. PICK x \in ledger : Youngest(OnDay(S, d)) = {x} /\ UpTo(ledger, x) = S
  BY <1>4, UpToDay
<1>6. x.balance = Net(S)
  BY <1>5 DEF ReportsInv, LedgerInv
<1>7. HistoryRow(From(0), To(d), a, d).closing = {Net(S)}
  BY <1>1, <1>5, <1>6 DEF HistoryRow
<1>8. ASSUME NEW e \in K PROVE h[e] = SumFunctionOnSet(Amount, Group(S, k, e))
  <2> DEFINE R == OnDay(S, e)
  <2>1. h[e] = Income(R) - Expenses(R)
    BY <1>1 DEF HistoryRow
  <2>2. R \in SUBSET stored
    BY <1>3 DEF OnDay
  <2>3. Group(S, k, e) = R
    BY DEF Group, OnDay
  <2> HIDE DEF R, S, k, h, K
  <2>4. Income(R) - Expenses(R) = Net(R)
    BY <2>2, NetOfDay
  <2>5. QED
    BY <2>1, <2>3, <2>4 DEF Net
<1>9. IsFiniteSet(K) /\ \A y \in S : k[y] \in K
  <2>1. k \in Surjection(S, K)
    BY <1>2 DEF Surjection
  <2>2. \A y \in S : k[y] \in K
    BY <1>2
  <2> HIDE DEF S, K, k
  <2>3. QED
    BY <1>3, <2>1, <2>2, FS_Surjection
<1>10. \A y \in S : Amount[y] \in Int
  BY <1>3, TransactionFields
<1>11. SumFunction(h) = SumFunctionOnSet(h, K)
  BY DEF SumFunction
<1> HIDE DEF S, K, k, h
<1>12. SumFunctionOnSet(h, K) = Net(S)
  BY <1>3, <1>8, <1>9, <1>10, SumByGroup DEF Net
<1>13. QED
  BY <1>7, <1>11, <1>12 DEF h, K

\* The history of an account whose transactions are all stored, no two of one second,
\* reconciles: the closing balance found for a day by its own join is the sum of the
\* net amounts of the days so far.
THEOREM HistoriesReconcile == Spec => []HistoryReconciles
<1>1. \A d \in 0..LastDay : d \in Nat
  BY ReportsAssumption
<1>2. ReportsInv => HistoryReconciles
  BY <1>1, HistoryAddsUp DEF HistoryReconciles
<1>3. QED
  BY <1>2, ReportsInvariant, PTL
=============================================================================
