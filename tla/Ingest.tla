------------------------------- MODULE Ingest -------------------------------
(***************************************************************************)
(* How transactions get into user_transaction: the bank's webhook          *)
(* (src/routers/transaction.py, src/services/transaction.py), with its     *)
(* signature check (src/core/webhook_verify.py) and its Telegram notice    *)
(* (src/core/telegram_notify.py), beside the operator's statement loader   *)
(* (src/scripts/load_vipiska.py) and account set-up.                       *)
(*                                                                         *)
(* The bank and Telegram are external.  The bank sends a transaction again *)
(* until it is answered 200, so it may arrive any number of times, also    *)
(* late.  It signs with a key that it may replace; keys are numbered in    *)
(* the order the bank uses them.                                           *)
(*                                                                         *)
(* DEBUG is off: the signature is checked.  No code unlinks an account, so *)
(* the re-insertion in _save_inexistent_account never finds one missing    *)
(* after the lookup of the owner, and has no step here.                    *)
(* A definition X_Y is definition X with the plausible bug Y.              *)
(***************************************************************************)
EXTENDS Naturals

CONSTANTS
    User,
    Notified,        \* the users with a telegram_id
    Account,
    Tx,              \* the transaction identifiers the bank gives
    AccountOf,       \* [Tx -> Account]: the account in the webhook's payload
    Worker,
    Slot,            \* the webhook handlers that may be in flight together
    WorkerOf,        \* [Slot -> Worker]
    LoaderUser, LoaderAccount,   \* USER_ID and ACCOUNT_ID of load_vipiska.py
    Statement,       \* the transactions of vipiska.json
    MaxKey,          \* the bound on the bank's keys
    MaxFaults,       \* the bound on crashes and failed downloads
    NoUser, NoTx

ASSUME IngestAssumption ==
    /\ NoUser \notin User
    /\ NoTx \notin Tx
    /\ Notified \subseteq User
    /\ AccountOf \in [Tx -> Account]
    /\ WorkerOf \in [Slot -> Worker]
    /\ LoaderUser \in User
    /\ LoaderAccount \in Account
    /\ Statement \subseteq Tx
    /\ MaxKey \in Nat \ {0}
    /\ MaxFaults \in Nat

VARIABLES
    owner,      \* user_account: [Account -> User], NoUser = no such row
    row,        \* user_transaction: [Tx -> its row], Absent = no such row
    bankKey,    \* the key the bank signs with now
    cachedKey,  \* _cached_pub_key of each worker, 0 = None
    req,        \* the webhooks in flight
    loader,     \* the run of load_vipiska.py
    faults,
    \* History, read by no guard.
    announced,  \* [Tx -> how many Telegram notices were sent]
    signed,     \* the transactions that ever arrived with a signature of the bank
    acked       \* the transactions the bank was answered 200 for

vars == <<owner, row, bankKey, cachedKey, req, loader, faults, announced, signed, acked>>

\* from: who stored the row.  dated: whether created_at is when it was stored or
\* when the transaction was made.
Row == [user : User, from : {"webhook", "statement"}, dated : {"stored", "made"}]
Absent == [user |-> NoUser, from |-> "nobody", dated |-> "never"]

Stored == {t \in Tx : row[t] # Absent}

\* sig: the key of the X-Sign header, 0 when it is missing or not the bank's.
Webhook ==
    [at : {"idle", "fetch", "verify", "resolve", "store", "notify", "answer"},
     tx : Tx \cup {NoTx}, sig : 0..MaxKey, key : 0..MaxKey, user : User \cup {NoUser},
     answer : {"none", "ok", "refused", "not_found", "error"}]

Idle == [at |-> "idle", tx |-> NoTx, sig |-> 0, key |-> 0, user |-> NoUser, answer |-> "none"]

LoaderIdle == [at |-> "idle", seen |-> {}]

Init ==
    /\ owner = [a \in Account |-> NoUser]
    /\ row = [t \in Tx |-> Absent]
    /\ bankKey = 1
    /\ cachedKey = [w \in Worker |-> 0]
    /\ req = [s \in Slot |-> Idle]
    /\ loader = LoaderIdle
    /\ faults = 0
    /\ announced = [t \in Tx |-> 0]
    /\ signed = {}
    /\ acked = {}
-----------------------------------------------------------------------------
tables == <<owner, row>>
keys == <<bankKey, cachedKey>>
history == <<announced, signed, acked>>

Becomes(s, r) == req' = [req EXCEPT ![s] = r]

\* A handler is past its checks, or answers: the fields it no longer reads are reset.
At(t, step) == [Idle EXCEPT !.at = step, !.tx = t]
Answered(t, a) == [At(t, "answer") EXCEPT !.answer = a]

Fault == faults < MaxFaults /\ faults' = faults + 1
-----------------------------------------------------------------------------
(* POST /transaction/webhook: the signature *)

KeyAccepts_Any(sig, key) == TRUE
KeyAccepts(sig, key) == sig # 0 /\ sig = key

Verdict(t, sig, key) ==
    IF KeyAccepts(sig, key) THEN At(t, "resolve") ELSE Answered(t, "refused")

\* A webhook arrives, signed with one of the keys the bank has used or not at
\* all.  With a key in the worker's cache nothing is awaited before the verdict.
Receive(s, t, sig) ==
    LET cached == cachedKey[WorkerOf[s]] IN
    /\ req[s].at = "idle"
    /\ sig <= bankKey
    /\ Becomes(s, IF cached = 0 THEN [At(t, "fetch") EXCEPT !.sig = sig]
                                ELSE Verdict(t, sig, cached))
    /\ signed' = IF sig # 0 THEN signed \cup {t} ELSE signed
    /\ UNCHANGED <<tables, keys, loader, faults, announced, acked>>

\* The bank answers _get_monobank_pubkey with its key of the moment ...
FetchKey(s) ==
    /\ req[s].at = "fetch"
    /\ Becomes(s, [req[s] EXCEPT !.at = "verify", !.key = bankKey])
    /\ UNCHANGED <<tables, keys, loader, faults, history>>

\* ... or not at all; any failure of the check counts as a bad signature.
FetchFails(s) ==
    /\ req[s].at = "fetch"
    /\ Fault
    /\ Becomes(s, Answered(req[s].tx, "refused"))
    /\ UNCHANGED <<tables, keys, loader, history>>

\* The connection is closed, the key cached (over whatever another handler of
\* the worker cached meanwhile) and the signature checked with it.
Verify(s) ==
    /\ req[s].at = "verify"
    /\ cachedKey' = [cachedKey EXCEPT ![WorkerOf[s]] = req[s].key]
    /\ Becomes(s, Verdict(req[s].tx, req[s].sig, req[s].key))
    /\ UNCHANGED <<tables, bankKey, loader, faults, history>>
-----------------------------------------------------------------------------
(* POST /transaction/webhook: owner, row, notice, answer *)

\* get_user_id_by_account, and 404 when nobody owns the account.
ResolveAccount_NoCheck(s) ==
    /\ req[s].at = "resolve"
    /\ Becomes(s, [At(req[s].tx, "store") EXCEPT !.user = owner[AccountOf[req[s].tx]]])
    /\ UNCHANGED <<tables, keys, loader, faults, history>>

ResolveAccount(s) ==
    LET u == owner[AccountOf[req[s].tx]] IN
    /\ req[s].at = "resolve"
    /\ Becomes(s, IF u = NoUser THEN Answered(req[s].tx, "not_found")
                                ELSE [At(req[s].tx, "store") EXCEPT !.user = u])
    /\ UNCHANGED <<tables, keys, loader, faults, history>>

\* The unique index on transaction_id refuses the row.
Duplicate_NoIndex(t) == FALSE
Duplicate(t) == t \in Stored

\* create_transaction: INSERT and commit.  A duplicate is caught nowhere: 500.
StoreRow_AfterAnswer(s) ==
    /\ req[s].at = "store"
    /\ IF Duplicate(req[s].tx) THEN Becomes(s, Answered(req[s].tx, "error"))
                               ELSE Becomes(s, [req[s] EXCEPT !.at = "notify"])
    /\ UNCHANGED <<tables, keys, loader, faults, history>>

StoreRow(s) ==
    /\ req[s].at = "store"
    /\ IF Duplicate(req[s].tx)
         THEN Becomes(s, Answered(req[s].tx, "error")) /\ UNCHANGED row
         ELSE /\ row' = [row EXCEPT ![req[s].tx] =
                           [user |-> req[s].user, from |-> "webhook", dated |-> "stored"]]
              /\ Becomes(s, [req[s] EXCEPT !.at = "notify"])
    /\ UNCHANGED <<owner, keys, loader, faults, history>>

\* A user with a telegram_id is sent the notice; no failure of Telegram or of
\* the lookup keeps the handler from answering 200.
Notify(s) ==
    /\ req[s].at = "notify"
    /\ \/ /\ req[s].user \in Notified
          /\ announced' = [announced EXCEPT ![req[s].tx] = @ + 1]
       \/ UNCHANGED announced
    /\ Becomes(s, Answered(req[s].tx, "ok"))
    /\ UNCHANGED <<tables, keys, loader, faults, signed, acked>>

Deliver(s) ==
    /\ req[s].at = "answer"
    /\ acked' = IF req[s].answer = "ok" THEN acked \cup {req[s].tx} ELSE acked
    /\ Becomes(s, Idle)
    /\ UNCHANGED <<tables, keys, loader, faults, announced, signed>>

\* The worker or the connection dies: no answer.  A worker that restarts has no
\* cached key, and its other handlers die with it.
Crash(s) ==
    /\ req[s].at # "idle"
    /\ Fault
    /\ Becomes(s, Idle)
    /\ UNCHANGED <<tables, keys, loader, history>>

Restart(w) ==
    /\ cachedKey[w] # 0
    /\ Fault
    /\ cachedKey' = [cachedKey EXCEPT ![w] = 0]
    /\ req' = [s \in Slot |-> IF WorkerOf[s] = w THEN Idle ELSE req[s]]
    /\ UNCHANGED <<tables, bankKey, loader, history>>
-----------------------------------------------------------------------------
(* load_vipiska.py *)

\* The script starts (again): the identifiers its user already has.
LoaderSelect ==
    /\ loader.at \in {"idle", "done"}
    /\ loader' = [at |-> "insert", seen |-> {t \in Stored : row[t].user = LoaderUser}]
    /\ UNCHANGED <<tables, keys, req, faults, history>>

\* The rows the loader adds.  The plausible bug: those that meet a conflict are
\* left out (ON CONFLICT DO NOTHING).
Added_ButConflicts == Statement \ (loader.seen \cup Stored)
Added == Statement \ loader.seen

\* The foreign key to the account and the unique index hold for every added row,
\* or the one commit for all of them fails and the script ends.
BatchRefused == Added # {} /\ (owner[LoaderAccount] = NoUser \/ Added \cap Stored # {})

\* When the second commit has nothing to do the script is done.
AfterInsert == [loader EXCEPT !.at = IF Statement \cap loader.seen # {} THEN "redate" ELSE "done"]

WithRowsOf(batch) ==
    [t \in Tx |-> IF t \in batch
                    THEN [user |-> LoaderUser, from |-> "statement", dated |-> "made"]
                    ELSE row[t]]

LoaderInsert_RowByRow ==
    /\ loader.at = "insert"
    /\ \E t \in Added \ Stored :
         /\ row' = WithRowsOf({t})
         /\ loader' = IF Added \subseteq Stored \cup {t} THEN AfterInsert ELSE loader
    /\ UNCHANGED <<owner, keys, req, faults, history>>

LoaderInsert ==
    /\ loader.at = "insert"
    /\ IF BatchRefused THEN loader' = LoaderIdle /\ UNCHANGED row
                       ELSE loader' = AfterInsert /\ row' = WithRowsOf(Added)
    /\ UNCHANGED <<owner, keys, req, faults, history>>

Redated(t) == t \in Statement \cap loader.seen

\* The second commit: created_at of the rows that were there already.
LoaderRedate ==
    /\ loader.at = "redate"
    /\ row' = [t \in Tx |-> IF Redated(t) THEN [row[t] EXCEPT !.dated = "made"] ELSE row[t]]
    /\ loader' = [loader EXCEPT !.at = "done"]
    /\ UNCHANGED <<owner, keys, req, faults, history>>

LoaderCrash ==
    /\ loader.at \in {"insert", "redate"}
    /\ Fault
    /\ loader' = LoaderIdle
    /\ UNCHANGED <<tables, keys, req, history>>
-----------------------------------------------------------------------------
(* Around the program *)

\* setup_real_account.py and send_test_webhooks.py link an account that is not linked.
LinkAccount(a, u) ==
    /\ owner[a] = NoUser
    /\ owner' = [owner EXCEPT ![a] = u]
    /\ UNCHANGED <<row, keys, req, loader, faults, history>>

RotateKey ==
    /\ bankKey < MaxKey
    /\ bankKey' = bankKey + 1
    /\ UNCHANGED <<tables, cachedKey, req, loader, faults, history>>

Proceed(s) ==
    FetchKey(s) \/ Verify(s) \/ ResolveAccount(s) \/ StoreRow(s) \/ Notify(s) \/ Deliver(s)

Next ==
    \/ \E s \in Slot :
         \/ \E t \in Tx, sig \in 0..MaxKey : Receive(s, t, sig)
         \/ Proceed(s)
         \/ FetchFails(s)
         \/ Crash(s)
    \/ \E w \in Worker : Restart(w)
    \/ LoaderSelect \/ LoaderInsert \/ LoaderRedate \/ LoaderCrash
    \/ \E a \in Account, u \in User : LinkAccount(a, u)
    \/ RotateKey

Spec == Init /\ [][Next]_vars

\* Once crashes and failed downloads are over, a handler that awaits the database,
\* the bank or Telegram goes on; and the bank sends again what it has no answer
\* for, signed with its key of the moment.
FairSpec ==
    /\ Spec
    /\ \A s \in Slot : WF_vars(Proceed(s))
    /\ \A t \in Tx : SF_vars(\E s \in Slot : Receive(s, t, bankKey))
-----------------------------------------------------------------------------
(* Properties *)

\* The tables, the requests in flight and the loader have the shape the models give.
TypeOK ==
    /\ owner \in [Account -> User \cup {NoUser}]
    /\ row \in [Tx -> Row \cup {Absent}]
    /\ bankKey \in 1..MaxKey
    /\ cachedKey \in [Worker -> 0..bankKey]
    /\ req \in [Slot -> Webhook]
    /\ loader \in [at : {"idle", "insert", "redate", "done"}, seen : SUBSET Stored]
    /\ faults \in 0..MaxFaults
    /\ announced \in [Tx -> Nat]
    /\ signed \subseteq Tx
    /\ acked \subseteq Tx

\* The table, the notices and the answers as the book of transactions sees them.
Book == INSTANCE TransactionBook
          WITH Owner <- User, Blank <- Absent, book <- row, told <- announced, confirmed <- acked

\* However webhooks repeat and overlap with the loader, crash and restart, the
\* table is only added to, by whole batches; a notice and an answer 200 follow
\* the entry they are about.
ImplementsBook == Book!BookSpec

\* A user hears of a transaction once at most, and only of one that is stored: a
\* repeated webhook stops at the duplicate row, before the notice.
AnnouncedOnceStored ==
    \A t \in Tx : /\ announced[t] <= 1
                  /\ announced[t] = 1 => row[t].from = "webhook"

\* The bank may forget what it was answered 200 for: it is in the table for good.
AckedIsStored == acked \subseteq Stored

\* Nothing gets into the table through the webhook unless the bank signed it,
\* whichever worker cached which key when.
OnlySignedIsStored ==
    \A t \in Tx : row[t].from = "webhook" => t \in signed

\* Of a statement either nothing was loaded or all of it is there, however
\* the loader's commit met concurrent webhooks and crashes.
StatementLoadedWhole ==
    (\E t \in Tx : row[t].from = "statement") => Statement \subseteq Stored

\* When the loader ends normally every transaction of the statement is its user's
\* and bears the date it was made, those the webhook stored before it included.
LoadedAndDated ==
    loader.at = "done" =>
        \A t \in Statement : row[t].user = LoaderUser /\ row[t].dated = "made"

\* A transaction of a linked account gets stored once faults are over, unless
\* a worker keeps a key the bank no longer signs with: the cache is never renewed,
\* and that worker refuses every webhook until it restarts.
StoredInTheEnd ==
    \A t \in Tx :
        [](owner[AccountOf[t]] # NoUser =>
             <>(t \in Stored \/ \E w \in Worker : cachedKey[w] \notin {0, bankKey}))
=============================================================================
