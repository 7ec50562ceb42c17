# Monobot in TLA+

Monobot is a FastAPI service beside a Telegram bot. It keeps users, their
Monobank transactions (which the bank sends to a webhook) and their savings
goals in PostgreSQL, and reports balances and progress to a web page, a
Telegram mini app and a mobile client. This directory specifies its behaviour
in TLA+, model-checks it with TLC and proves all the safety properties it checks with TLAPS. Paths
below are relative to the repository.

What makes the service hard to test is the same everywhere: a request handler
is a coroutine that awaits the database several times; two workers run
(`docker-compose.prod.yml`), each with many handlers in flight; PostgreSQL
runs READ COMMITTED, nothing takes a lock (`SELECT ... FOR UPDATE` occurs
nowhere) and sessions are opened with `expire_on_commit=False`. What a handler
read may be stale when it uses it, several commits of one handler can be
interrupted, and only unique indexes and foreign keys decide a race.

## Inventory

| component | state | operations | hard behaviour | what makes it correct |
|---|---|---|---|---|
| JWT sessions (`services/jwt_auth.py`, `routers/jwt_auth.py`, `core/dependencies.py`, `core/jwt.py`) | tables `user`, `refresh_token`; tokens at clients | register, login, refresh, logout, access check | rotation is read, DELETE commit, INSERT commit; overlapping refreshes and logouts; crashes; expiry | a session never changes account, a retired token stays retired, an answered pair works, logout is final |
| Savings goals (`services/goals.py`, `routers/goals.py`) | tables `savings_goal`, `spending_config` | create, update, delete, list goals; show the configuration, set limit and income | the allocation sum is checked before the write; the ORM writes changed columns of stale rows; a request answers with the configuration it started from; date and rounding arithmetic | allocation stays within 100%, no update lost, deleted stays deleted; the right salary, consistent progress |
| Transaction ingestion (`routers/transaction.py`, `services/transaction.py`, `core/webhook_verify.py`, `core/telegram_notify.py`, `scripts/load_vipiska.py`) | tables `user_account`, `user_transaction`; a public key cached per worker | webhook, statement loader, linking an account | redelivery, lost answers, crashes between commit and notice, key rotation, the loader beside webhooks | stored once, announced once, acknowledged means stored, nothing unsigned, statement whole |
| Monobank token (`services/auth.py`, `routers/auth.py`) | table `user_token` | save, read, delete | read-then-insert, read-then-update | one row per user, deleted stays deleted, errors say what happened |
| Telegram accounts (`services/telegram_auth.py`, `bot/handlers/start.py`) | table `user` | mini-app login, `/start` | both read-then-insert the same row | one account per Telegram user, everyone gets in eventually |
| Balance reports (`services/balance.py`, `routers/balance.py`) | none, reads `user_transaction`, `user_account`, `mcc_category` | balances, history, income and expenses, burn rate, categories | late and reordered webhooks; a summary read account by account; period boundaries; the same sums computed in different ways | reports agree with the bank and with one another |
| Dashboard page (`static/index.html`) | the browser's cookies, what the page shows, the calls it awaits | open, sign in, load, filter, refresh after 401, log out, reload | several calls refresh at once with one set of cookies; an answer of the old session comes in after a new sign-in; lost answers, 429 | the cookies keep working and are those of whoever signed in last; no dashboard without a session |
| Application shell, operator scripts, schema (`main.py`, `core/config.py`, `bot/main.py`, `scripts/`, `alembic/`) | configuration | start-up, wiring | none of its own | not modelled; what others rely on is in their modules |

How they interact: every operation of goals, reports and the token goes through
the access check of the sessions; the page is a client of the sessions and of the reports;
the webhook finds a transaction's user
through `user_account` and tells Telegram through the `telegram_id` of the
accounts; goals and reports read what ingestion stored. The components share
rows, not memory: the only state in a process is the cached key (and slowapi's
counters).

The hazards of the code, each at its line with the properties that cover it,
are the `hazards` of `PROJECT.json`.

## Modules

| module | models | abstract specification, composition |
|---|---|---|
| `Sessions` | the session API, split at each awaited database access | implements `RefreshTokenLedger` |
| `RefreshTokenLedger` | what the table of refresh tokens promises, without requests | |
| `Dashboard` | the web page and its browser | composes with `Sessions`, whose only client it is here |
| `Goals` | requests for goals and the spending configuration, split likewise, with the ORM's choice of the columns it writes | |
| `Projection` | salary detection and progress arithmetic, day by day | |
| `Ingest` | webhook, key cache, loader, account links | implements `TransactionBook` |
| `TransactionBook` | what webhook and loader promise together: a book that is only added to, told of once | |
| `Accounts` | Telegram entry and the Monobank token | |
| `Reports` | the reports over the stored transactions, and the bank's ledger they must agree with | |
| `MC...` | instances for TLC: symmetry, constraints, and constants that are functions | |
| `SessionsProofs`, `DashboardProofs`, `GoalsProofs`, `IngestProofs`, `AccountsProofs`, `ProjectionProofs`, `ReportsProofs` | the theorems about the module of that name | |
| `SumLemmas` | nothing of the program: lemmas about sums over finite sets | used by `GoalsProofs` and `ReportsProofs` |

Conventions. A request is a record in `req[slot]`; its field `at` is the
database access it awaits next, and every action is what a handler does from
one await to the next, its commit included. `"answer"` is the point after the
last commit and before the client has the answer; `Deliver` is the answer's
arrival. `Crash` ends a handler between two steps: what was committed stays.
Variables marked as history are read by no guard. A definition `X_Y` is
definition `X` with a plausible bug; each property in a passing run is
violated when one of the mapped definitions is replaced by such a variant
(`mutants` in `PROJECT.json`). `map` in `PROJECT.json` gives the lines each
definition stands for.

### Sessions

`RegisterSelect`/`RegisterInsert`, `LoginSelect`, `RefreshSelect`/`RefreshDelete`
and `LogoutSelect`/`LogoutRevoke` are the handlers up to each await, `IssuePair`
is `create_token_pair`, which three of them end with. A `jti` stands for a pair:
its access and its refresh token. `AgePair` lets the access token, then the
refresh token expire. Cookies, bodies and the web/mobile branch decide only
where a token travels; they are abstracted to the token a client presents, one
it has received before. `live` is the table; `Rows`/`owner` map it to
`RefreshTokenLedger`, whose steps are only "issue a token nobody ever had" and
"retire a live one".

### Dashboard

The page is single threaded, so an action is what one of its scripts does from one
await to the next. `Api` is `api()` (`index.html:168`): `SendFirst`, then
`DataArrives`, or on 401 `FirstRefused`, which sends the refresh at once, then
`RefreshArrives` and `SendSecond`, or `RefreshRefused`, which shows the login screen.
`SubmitLogin`, `LoginArrives`, `LoginRefused` are the form (`:199`), `ClickLogout`,
`LogoutArrives` the button (`:230`), `ClickFilter` the filters (`:246`), `DueAfter`
what `init`, `loadAll` and `loadFiltered` (`:468`) call next. `ServerStep` are the
handlers of `Sessions` going on behind it. `Reload`, `AnswerDropped` and the cookies
(`jar`) are the browser; both cookies are set and deleted together, so they are one pair. `RequestDies`,
`DataDies`, `RefreshLimited` are a lost answer, a 5xx of the proxy and a 429.
A data request is its access check, of which the page learns later. `overtaken`
marks a call sent before the last answer to a sign-in or a logout.

### Goals and Projection

`Goals` keeps each goal's user, percentage and status; name, target and
deadline take no part in a check. `CreateLoad`, `UpdateLoad`, `DeleteLoad` read,
`Validate` is the SUM query with its limit, `CreateInsert`, `UpdateCommit`,
`DeleteCommit` commit, `GoalReload` is the refresh and `_detect_salary`
afterwards. `UpdateCommit` writes the columns whose new value differs from the
*loaded* one, as the ORM does.

Of the configuration `Goals` keeps the limit and whether an income, and an income day
with its window, are set. A goal request loads it first and answers with what
it loaded: `_detect_salary` selects the row again (`services/goals.py:218`), but the session's identity
map returns the object it has, with its old values. `GivesSalary` tells whether that answer is
a 500. `ConfigLoad` and `ConfigCommit` are the two PUT routes: a value equal to the
loaded one is not written, and the answer is a 500 after the commit when the income
day is missing (`Presentable`). `ConfigShow` and `GoalShow` are the GET routes.

`Projection` has no requests: everything shown is computed from today, the
configuration, the payments and the goal, so these are its state, and its
operators are the lines of `_detect_salary` and `_build_response`. `Tick` is
midnight, `Pay` a stored income, `upsert_daily_limit` and `upsert_set_income`
what the two PUT routes come to (`Goals` has their steps).
The date of today and the UTC day boundaries of the payments are taken to be of one
time zone, and the goal has a deadline; without one the code computes nothing more.

### Ingest

`Receive` is the webhook up to its first await: with a cached key that is the
verdict on the signature already. `FetchKey`, `FetchFails`, `Verify` are the
download and caching of the key, `ResolveAccount`, `StoreRow`, `Notify`,
`Deliver` the rest of the handler, up to the 200. `Restart` kills a worker with its
handlers and its cache. `LoaderSelect`, `LoaderInsert`, `LoaderRedate`,
`LoaderCrash` are the loader with its two commits. The bank (`RotateKey`, and
what arrives in `Receive`) is external.

`TransactionBook` has no workers, handlers or loader: it enters transactions, redates them, tells users of
transactions entered by the webhook, and confirms what is entered. `ImplementsBook` maps `row`,
`announced` and `acked` to it; the loader's commit enters a whole statement in one step.

### Accounts

`EnterSelect`/`CreateAccount` are `get_or_create_user` as well as `/start`,
which take the same two steps. `SaveSelect` then `SaveInsert` or `SaveUpdate`,
and `SaveReload`, are `save_token`; `Delete` is `delete_token`. A token may be
saved for an account that does not exist, which the foreign key refuses.

### Reports

`Book` is the bank's own ledger; `Store` is a webhook whose row was committed,
in any order. All else are operators: `Selected` is the WHERE clause all
reports share, `CurrentBalances`, `HistoryRow`, `Income`, `Expenses`,
`MovingAvg`, `AvgDaily`, `PrevAvg`, `CategoryTotal` the reports. Where the
database may choose (two transactions of one second) the operator gives the set of
outcomes. The summary of balances is the one report of several queries: `SummaryAsked`
lists the accounts, `BalanceRead` reads the last balance of one, and webhooks may be stored in
between; `TotalIn` is the total of a currency. Percentages and rounding are left out.

## Runs

| run | instance | shows |
|---|---|---|
| `sessions` | 2 users, 2 passwords, 3 pairs, 2 handlers, 1 pair may age | accounts, answers and rows of sessions stay consistent under any interleaving and crash; the table implements the ledger |
| `sessions_single_use` | 1 user | **violation**: two overlapping refreshes with one token both get a pair (`docs/auth.md` says rotation invalidates the token) |
| `sessions_reuse` | 2 users | **violation**: reuse of a token revokes nothing, although the docstring says it revokes all tokens of the user |
| `dashboard` | 2 users, 3 pairs, a browser with 2 connections and 2 charts, 1 fault | overlapping refreshes leave working cookies; the cookies are those of whoever signed in last; the dashboard finds out when they are gone |
| `goals` | 2 users (1 configured), 2 goals, 40% and 60%, 2 limits, 2 handlers | the cap is broken only by a stale check, a stale row or an unchecked activation; no column of a goal or configuration is lost to a request for another; no resurrection |
| `goals_cap` | 2 handlers | **violation**: two creations of 60% together exceed "max is 100%" |
| `goals_advice` | 1 unconfigured user | **violation**: the PUT that such a user is told to make is refused because there is no configuration |
| `ingest` | 2 users, 1 account, 2 transactions (both in the statement), 1 worker with 2 handlers, 2 keys, 1 fault | stored, announced and acknowledged agree; the loader loads all or nothing; both implement the book |
| `ingest_live` | 1 transaction, 2 workers with a handler each, 2 keys, 1 fault | what the bank sends again is stored in the end, unless a worker caches an outdated key |
| `accounts` | 3 accounts (1 by e-mail), 2 Telegram users, 4 token rows, 2 handlers, 1 crash | one account per Telegram user, one token per account, deleted tokens stay deleted, whoever keeps trying gets in |
| `projection` | months of 4, 6 and 5 days after one of 5, 2 payments | the salary is that of the period; savings, projection and shortfall agree up to the roundings |
| `reports` | 2 accounts, 3 transactions of 3 kinds, 3 days of 2 seconds, averages over 2 and 3 days | reports agree with the bank's ledger and with one another for every period and account; a summary shows nothing older than what was stored when it was asked for |

The violations are the `findings` of `PROJECT.json`, with the lines they refute.

### The bounds and why they are enough

- *Handlers* (`Slot`): 2. Every race of this code is between two requests that
  read before either writes; a third reader adds no new kind of overlap. The
  theorems hold for any number. `dashboard` has 2 connections likewise, each with one call of the page.
- *Identifiers* (`Jti`, `Goal`, `RowId`, `UserId`): these are uuid4 values, so the
  bound limits how much happens, not what. Three pairs allow a login, a rotation and
  a second rotation of the same token; two goals allow a sum above 100%; four token
  rows allow two tables' worth of deletion and re-creation with both requests in flight.
  In `Sessions` and `Goals`, `IdentifiersLeft` keeps a request from being admitted when none would be
  left for it; in `Accounts`, `FreeUsers` and `FreeRows` hold the insert back.
- *Faults* (`MaxFaults`: crashes, failed downloads, lost answers, answers 429): 1. No handler has more
  than two commits. `Sessions` and `Goals` do not bound crashes, `Dashboard` does not bound reloads.
- *The page* (`Parallel`): 2 charts instead of four: two calls that are refused together are
  what matters, and the charts differ in nothing else. A user signs in or filters again
  only when all calls made before have been sent (`due`), which bounds the queue; those
  in flight are still overtaken. `dashboard.cfg` has the constraint that both accounts have one
  password: the other one is the wrong password.
- *Configurations* (`Limit`): 2 limits, as only "equal to the loaded one or not" counts. The
  constraint `FewGoalsWhileConfiguring` of `goals.cfg` explores changes of the limit without goals,
  changes of the income with one goal, and two goals under a plain configuration: goals do not
  read the limit, and configurations do not read goals.
- *Age* (`MaxAged`): how many pairs may grow old, 1: old and fresh tokens meet.
- *Keys* (`MaxKey`): 2, before and after a rotation.
- *Days, seconds, amounts* (`DaysBefore`, `DayLength`, `Amount`, ...): the code
  compares and divides; the small calendar has months shorter and longer than the
  income day, windows that reach into the neighbouring months, amounts that divide
  with and without remainder. Two seconds in a day separate the first from the last
  and let two transactions share one.
- *Reports*: while a summary is being put together (`~Quiet`), the single-query reports are
  not compared again: they are the same operators of `stored`. Both accounts have one currency, which makes them
  interchangeable; the operators take any `CurrencyOf`.

`CHECK_DEADLOCK FALSE` occurs in `reports.cfg` only: when `MaxTx` transactions are
booked and stored nothing is left to happen.

### Fairness

Only `ingest_live` and `accounts` state liveness.
`WF_vars(Proceed(s))`: a handler that awaits the database, the bank or Telegram
goes on; the event loop and the database justify it, and the faults
that would end it are bounded (`MaxFaults`), which says "once faults are over".
`SF_vars(Receive)`: the bank sends a transaction again, signed with its key of the
moment, as long as it may. A bank that gives up after some attempts loses what
every attempt met with a fault; the property says what the program contributes: it never refuses
a resent webhook for ever, except for a cached key (`core/webhook_verify.py:19`), which
the property names. `SF_vars(EnterSelect)`: a Telegram user tries again. Both
are strong because the handlers that could take the request are busy again and again.
`Sessions`, `Dashboard`, `Goals`, `Projection` and `Reports` check safety only and need none.

### What the runs say that a reader of the code may not expect

- A goal may exceed 100% in three ways: a stale sum, an activation without
  percentage, and a PATCH that sets the percentage a stale row already shows (the
  ORM writes nothing of it) together with `status: active`. `CapBrokenOnlyByRaces`
  says there is no fourth. The second needs no race: one request that reactivates a cancelled goal is
  not checked at all (`services/goals.py:195`).
- The salary window compares today with the unclamped income day
  (`services/goals.py:226`): for income days 29 to 31, and for windows that begin in the
  month before, the previous period's salary is used for some days.
- Savings drop at the turn of a month (all days are rebudgeted with the new month's
  length, `:319`), and fall to zero between the opening of a window and the salary's
  arrival (`:323`). `SavedGrowsWithinMonth` excludes both.
- A goal that is on track may arrive a day after its deadline (`:347`), and one that is
  not may be shown a shortfall of 0 (`:364`).
- The loser of two registrations of one e-mail is answered 500, not the 400 of the
  docstring (`services/jwt_auth.py:23`); `WinnerKeepsPassword` says that it does no other harm.
- `services/goals.py:397` asks for `PUT /goals/config`, but that route only updates:
  no route creates a configuration.
- A configuration without an income day answers 500 to every PUT, after having
  committed the change (`services/goals.py:59`), and a goal created under it is there although its creation was answered 500.
- Of two overlapping first saves of a token the loser is told 404 "User does not exist"
  (`services/auth.py:41`): both the unique index and the foreign key raise the error it looks at.
- A logout after the access token expired is answered 401 by the access check: the session and the
  cookies stay, and the page shows the login screen all the same (`static/index.html:230`).
  Opening the page again is enough to be signed in.
- Calls that refresh together do not lose the browser its session: a refused
  refresh leaves the cookies alone, and an accepted one replaces them by a live pair (`CookiesWork`). What
  is lost is the screen: the refused one shows the login screen. Only an answer
  that never arrives leaves cookies that do not work.
- The answer to a refresh sent before a logout or a new sign-in may arrive after it, and brings the cookies
  of the old session back (`stray` in `CookiesFollowTheUser`).
- A summary of several accounts is read one account at a time (`services/balance.py:58`): its total
  may be one that never was. `SummaryIsRecent` says how old it can be.

## Proofs

Seven modules prove 44 listed theorems, an eighth the lemmas about sums two of them share, for any values of the constants, from the
assumptions named in the modules alone (the "no such" values are none of the values they stand
beside, bounds are natural numbers, constants that are functions have their domain, the table of
categories is finite). Lemmas first say
what each action does to the records it updates (`...Effect`, `...Fields`), so that the
preservation proofs, one step per action, need not expand record updates.

`SessionsProofs`: the nine properties of the run `sessions`.

- `SessionInv` is inductive: type correctness, and for every request in flight what its step implies
  (`StepTellsOperation`, `KnowsUser`), that a rotation acts on a token some client
  holds for the account owning it (`PresentsToken`), and that a pair waiting in an
  answer is live, in nobody's hands and in one answer only (`NewPairIsPrivate`).
  The last is why `AnsweredPairIsLive` holds, which is not inductive alone: only
  held tokens can be presented, only presented tokens are deleted.
- `ExchangeInv` adds the history of rotations: an exchanged token is out of the table,
  and a handler in the middle of a rotation has not exchanged that token before. It
  gives `OneSuccessorPerHandler` and `SameAccount`; and where there is one
  handler only, `SerialSingleUse`: the documented rule that the run
  `sessions_single_use` refutes for two.
- `OutcomeInv` relates answers to tables: `WinnerKeepsPassword`, `RotationCompletes`,
  `LogoutIsFinal`.
- `SessionsImplementLedger`: initial states map to `LedgerInit`; a DELETE
  retires its token or finds nothing (`DeleteRetires`), `IssuePair` issues one
  (`IssueIssues`), every other step stutters.
- `NoForeignRevocation` is the action property `OnlyPresentedTokensDie`.

`DashboardProofs`: the four properties of the run `dashboard`, and the composition.

- `PageShape` adds to the type invariant which operation the server is at for each call of the page;
  `RequestInv` what the server knows of it. With them each step of the page is a step of `Sessions` or leaves its
  variables alone (`PageRunsSessions`), and the page's server implements the ledger too (`PageImplementsLedger`).
- `CookiesWork` is not inductive: it says that some request took the row away, not that its answer is
  going to replace the cookies. `CookieInv` says that (`Awaited`), and that what a reload
  leaves behind counts as lost.
- `CookiesFollowTheUser` rests on `OwnRefreshes`: a refresh nothing has overtaken presents a token of
  whoever signed in last; with `SameAccount`'s argument its answer is theirs too.
- `NoDashboardSignedOut` rests on `ScreenInv`: a dashboard without cookies has a call of
  `loadAll` waiting or refused that will show the login screen.

`GoalsProofs`: the four properties of the run `goals`.

- `GoalsInv` is `TableInv`, the shape of the tables, with `RequestInv`, what a request about
  to write has established: whose row it writes, that its percentage fits beside the sum it read, and that it asks for one column of a
  configuration only. It gives `DeletionIsFinal` and `ColumnsKept`.
- `CapInv` is `CapBrokenOnlyByRaces` with `OwnRow`: the row an update is going to write is its own user's, if it is
  still there, since goals do not change hands and no identifier comes back. A write changes the
  weight of one row (`OneRowWritten`). If neither sum nor row was stale, the new
  weight is the one that was checked; if no percentage was asked for, only an activation adds weight.
  So `CapHolds`: there is no fourth way above 100%, whatever the number of goals and handlers.
- `SerialCap`: with one handler what a request loaded and summed up is still so when it writes
  (`Fresh`), and of the three ways only the activation without a check is left. The
  documented cap, which the run `goals_cap` refutes for two handlers, otherwise fails by overlap only.

`IngestProofs`: `IngestInv` has `HandlerInv` (a handler past the signature has a signed transaction, one past
the insert its row, one about to notify nobody told before it), `NotifiesAlone` (two handlers never have the same notice to send; the unique
index on the bank's identifier decides) and `LoaderInv` (the rows a loader saw are its user's; the
others it has dated itself). It gives the six invariants, and with them
each step is a step of `TransactionBook` or a stutter (`KeepsTheBook`).

`AccountsProofs`: `AccountsInv` has the unique indexes as facts about the tables (`OneAccount`, `OneToken`) and that a
request past its insert serves the account of its Telegram user. It gives
the two invariants and `DeletionHolds`.

`ProjectionProofs`: the five properties of the run `projection`, for every calendar whose months are longer
than the window. `ProjectionInv` has the types and `LargestInv`: of any of the payments one
is the largest, so that the detected salary is one of them (the maximum of a set needs
finiteness otherwise). `OpenedByMonth` compares the unclamped income day with the clamped windows;
`RateIsCautious` is the heart of the roundings: n more days at the rate shown are
worth no more than what the goal will show after them.

`ReportsProofs`: the five properties of the run `reports`, for any accounts, currencies, kinds of
transactions, lengths of a day and of the averages' windows.

- `ReportsInv` is `LedgerInv` (identifiers count the bookings, time does not
  go back along them, and every entry's balance is the sum of its account's amounts up to it) with `SummaryInv`
  (what a summary in progress holds for an account is stored, and as young as what was stored at its start).
- `BalancesCatchUp`: when all of an account is stored, the row `last_tx` finds is the last booked
  (`YoungestIsLast`), so its balance is the bank's. `SummariesAreRecent` carries that to the total of each
  currency: all that a summary adds up is the bank's then.
- `ExpensesDoAgree`: `DayBounds` and `SelectedDays` say which seconds a period is made of; the
  queries then select unions of days, and a sum over them is the sum of the days' sums
  (`DaysAddUp`, `MovingIsAverage`, `CategoriesAddUp`), by `SumByGroup`.
- `HistoriesReconcile`: the closing balance that the history finds for a day by its own join is the balance
  of the last entry up to that day (`UpToDay`), hence by `LedgerInv` a sum, which the days' net amounts add up to.

`SumLemmas`: `SumFunctionOnSet` of the community modules adds up a function over a set by a recursion that
picks one element after the other. That the sum does not depend on the picks is
proved with tables of partial sums (`Tabulates`), which exist (`TabulatesExists`) and agree
(`TabulatesUnique`). Each fact is an induction over a finite set, done without the library's
induction theorems: `LeastSubset` takes the least subset for which the fact
fails. The rest are the rules one computes with: one element more or less, a disjoint union,
a larger summand, grouping.

Only model-checked: the two liveness properties, `StoredInTheEnd` and `KeepsGettingIn`. They rest on fairness, hence on
ENABLED, which the provers do not handle. All other properties of the runs that pass are stated by a theorem.

## What is not modelled

- The wiring of the application and the bot (`main.py`, `bot/main.py`, `core/config.py`): start-up without state of
  its own. Rate limits: a library's counters, per worker; their 429 is a fault of `Dashboard`.
- Password hashing, the encryption of the Monobank token, `verify_init_data`: pure
  checks, taken as passed or failed.
- `_sync_mono_accounts`, `upsert_spending_config`, `_fetch_daily_expenses`: nothing calls them.
- Percentages, rounding for display, charts, messages and layout.
- `scripts/send_test_webhooks.py` and the HTTP half of `setup_real_account.py`: input and output of an operator. The
  migrations: they run before the program.
- The Telegram mini app and the mobile client hold tokens in a way the repository does not show; `Sessions`
  lets its clients present any token they ever received.

## Plan

Done, in this order: `RefreshTokenLedger`, `Sessions`, `SessionsProofs`; `Goals`;
`Ingest`; `Accounts`; `Projection`; `Reports`; `Dashboard` with its proofs;
`TransactionBook` and `IngestProofs`; `AccountsProofs`; the spending configuration and `GoalsProofs`;
the summary of `Reports`; `ProjectionProofs`; `SumLemmas`, the cap in `GoalsProofs`, `ReportsProofs`. Left, should the program be developed on:

1. An abstract specification for `Accounts` (a map from Telegram users to accounts). `AccountsProofs`
   already proves what it would say.
2. Two currencies in `MCReports`, once symmetry is not needed to keep the run short.
