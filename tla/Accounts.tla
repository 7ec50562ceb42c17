------------------------------ MODULE Accounts ------------------------------
(***************************************************************************)
(* How Telegram users get an account (src/services/telegram_auth.py behind *)
(* POST /auth/telegram, and /start in src/bot/handlers/start.py) and how a *)
(* user's Monobank token is kept (src/services/auth.py behind              *)
(* /token in src/routers/auth.py).                                         *)
(*                                                                         *)
(* Both read a row and then insert one when there is none, in a request    *)
(* that other requests overlap.  The mini app and /start take the same two *)
(* steps; they differ in what the answer looks like.  initData has been    *)
(* verified, and the routes of the token are reached by a signed-in user.  *)
(* No operation of the program deletes a user.                             *)
(* A definition X_Y is definition X with the plausible bug Y.              *)
(***************************************************************************)
EXTENDS Naturals, FiniteSets

CONSTANTS
    UserId,       \* uuid4 values: the bound on how many accounts there are
    Telegram,     \* telegram identifiers
    EmailUser,    \* the accounts made by registration, without a telegram_id
    Secret,       \* Monobank tokens
    RowId,        \* uuid4 values of user_token rows; reused when nothing refers to one
    Slot,         \* the request handlers that may be in flight together
    MaxFaults,    \* the bound on crashes
    NoTelegram, NoRow, NoUser, NoSecret

ASSUME AccountsAssumption ==
    /\ EmailUser \subseteq UserId
    /\ NoUser \notin UserId
    /\ NoSecret \notin Secret
    /\ NoRow \notin RowId
    /\ {NoTelegram, NoRow} \cap Telegram = {}
    /\ NoTelegram # NoRow
    /\ MaxFaults \in Nat

VARIABLES
    telegram,   \* "user" table: the telegram_id of an account, NoRow = no such account
    token,      \* "user_token" table: [RowId -> its row], Absent = no such row
    req,        \* the requests in flight
    faults

vars == <<telegram, token, req, faults>>

TokenRow == [user : UserId, secret : Secret]
Absent == [user |-> NoUser, secret |-> NoSecret]

\* row: the token row that was loaded or inserted.
Request ==
    [op : {"none", "enter", "save", "delete"},
     at : {"idle", "create", "insert", "update", "reload", "answer"},
     telegram : Telegram \cup {NoTelegram}, user : UserId \cup {NoUser},
     secret : Secret \cup {NoSecret}, row : RowId \cup {NoRow},
     answer : {"none", "ok", "missing", "error"}]

Idle ==
    [op |-> "none", at |-> "idle", telegram |-> NoTelegram, user |-> NoUser,
     secret |-> NoSecret, row |-> NoRow, answer |-> "none"]

Init ==
    /\ telegram = [u \in UserId |-> IF u \in EmailUser THEN NoTelegram ELSE NoRow]
    /\ token = [i \in RowId |-> Absent]
    /\ req = [s \in Slot |-> Idle]
    /\ faults = 0
-----------------------------------------------------------------------------
Becomes(s, r) == req' = [req EXCEPT ![s] = r]

Answer(s, a) == Becomes(s, [req[s] EXCEPT !.at = "answer", !.row = NoRow, !.secret = NoSecret,
                                         !.answer = a])

Admit(s, r) == req[s].at = "idle" /\ Becomes(s, r)

Exists(u) == telegram[u] # NoRow

AccountsOf(t) == {u \in UserId : telegram[u] = t}

TokenRowsOf(u) == {i \in RowId : token[i].user = u}

\* uuid4: an identifier that is in no table and that no request remembers, as long
\* as the bounds UserId and RowId leave one.
FreeUsers == {u \in UserId : ~Exists(u)}
NewUser == CHOOSE u \in FreeUsers : TRUE

FreeRows == {i \in RowId : token[i] = Absent /\ \A s \in Slot : req[s].row # i}
NewRow == CHOOSE i \in FreeRows : TRUE
-----------------------------------------------------------------------------
(* POST /auth/telegram and /start *)

\* get_or_create_user and cmd_start up to their first await.  Two rows of one
\* telegram_id would make scalar_one_or_none raise.
EnterSelect(s, t) ==
    /\ Admit(s, [Idle EXCEPT !.op = "enter", !.telegram = t,
                             !.at = IF AccountsOf(t) = {} THEN "create" ELSE "answer",
                             !.user = IF Cardinality(AccountsOf(t)) = 1
                                        THEN CHOOSE u \in AccountsOf(t) : TRUE ELSE NoUser,
                             !.answer = IF AccountsOf(t) = {} THEN "none"
                                        ELSE IF Cardinality(AccountsOf(t)) = 1 THEN "ok"
                                        ELSE "error"])
    /\ UNCHANGED <<telegram, token, faults>>

\* The unique indexes on user.telegram_id and user.name (tg_<telegram_id>).
TelegramIndexRefuses_NoIndex(t) == FALSE
TelegramIndexRefuses(t) == AccountsOf(t) # {}

\* INSERT and commit.  The loser of a race is answered 500, or not greeted at all.
CreateAccount(s) ==
    /\ req[s].at = "create"
    /\ IF TelegramIndexRefuses(req[s].telegram)
         THEN Answer(s, "error") /\ UNCHANGED telegram
         ELSE /\ FreeUsers # {}
              /\ telegram' = [telegram EXCEPT ![NewUser] = req[s].telegram]
              /\ Becomes(s, [req[s] EXCEPT !.at = "answer", !.user = NewUser, !.answer = "ok"])
    /\ UNCHANGED <<token, faults>>
-----------------------------------------------------------------------------
(* POST /token and DELETE /token/{user_id} *)

\* save_token up to its first await.  The user it names need not exist.
SaveSelect(s, u, k) ==
    /\ Admit(s, [Idle EXCEPT !.op = "save", !.user = u, !.secret = k,
                             !.at = IF TokenRowsOf(u) = {} THEN "insert" ELSE "update",
                             !.row = IF TokenRowsOf(u) = {} THEN NoRow
                                     ELSE CHOOSE i \in TokenRowsOf(u) : TRUE])
    /\ UNCHANGED <<telegram, token, faults>>

\* The unique index on user_token.user_id, and its foreign key to "user".
TokenIndexRefuses_NoIndex(u) == FALSE
TokenIndexRefuses(u) == TokenRowsOf(u) # {}

ForeignKeyRefuses_NoKey(u) == FALSE
ForeignKeyRefuses(u) == ~Exists(u)

\* INSERT and commit.  Either refusal is an IntegrityError, which becomes the
\* 404 "User ... does not exist".
SaveInsert(s) ==
    LET u == req[s].user IN
    /\ req[s].op = "save" /\ req[s].at = "insert"
    /\ IF TokenIndexRefuses(u) \/ ForeignKeyRefuses(u)
         THEN Answer(s, "missing") /\ UNCHANGED token
         ELSE /\ FreeRows # {}
              /\ token' = [token EXCEPT ![NewRow] = [user |-> u, secret |-> req[s].secret]]
              /\ Becomes(s, [req[s] EXCEPT !.at = "reload", !.row = NewRow])
    /\ UNCHANGED <<telegram, faults>>

\* UPDATE and commit.  The encryption is salted, so there is always something to
\* write; a row that was deleted meanwhile is a StaleDataError: 500.
RowMatched_Upsert(i) == TRUE
RowMatched(i) == token[i] # Absent

SaveUpdate(s) ==
    /\ req[s].op = "save" /\ req[s].at = "update"
    /\ IF RowMatched(req[s].row)
         THEN /\ token' = [token EXCEPT ![req[s].row] =
                             [user |-> req[s].user, secret |-> req[s].secret]]
              /\ Becomes(s, [req[s] EXCEPT !.at = "reload"])
         ELSE Answer(s, "error") /\ UNCHANGED token
    /\ UNCHANGED <<telegram, faults>>

\* session.refresh fails when the row was deleted after the commit: 500.
SaveReload(s) ==
    /\ req[s].op = "save" /\ req[s].at = "reload"
    /\ Answer(s, IF token[req[s].row] # Absent THEN "ok" ELSE "error")
    /\ UNCHANGED <<telegram, token, faults>>

\* One DELETE and its commit; 404 when it matched nothing.
Delete(s, u) ==
    /\ Exists(u)
    /\ Admit(s, [Idle EXCEPT !.op = "delete", !.user = u, !.at = "answer",
                             !.answer = IF TokenRowsOf(u) = {} THEN "missing" ELSE "ok"])
    /\ token' = [i \in RowId |-> IF token[i].user = u THEN Absent ELSE token[i]]
    /\ UNCHANGED <<telegram, faults>>
-----------------------------------------------------------------------------
Deliver(s) ==
    /\ req[s].at = "answer"
    /\ Becomes(s, Idle)
    /\ UNCHANGED <<telegram, token, faults>>

\* The worker or the connection dies between two steps.
Crash(s) ==
    /\ req[s].at # "idle"
    /\ faults < MaxFaults
    /\ faults' = faults + 1
    /\ Becomes(s, Idle)
    /\ UNCHANGED <<telegram, token>>

Proceed(s) ==
    CreateAccount(s) \/ SaveInsert(s) \/ SaveUpdate(s) \/ SaveReload(s) \/ Deliver(s)

Next ==
    \E s \in Slot :
        \/ \E t \in Telegram : EnterSelect(s, t)
        \/ \E u \in UserId, k \in Secret : SaveSelect(s, u, k)
        \/ \E u \in UserId : Delete(s, u)
        \/ Proceed(s)
        \/ Crash(s)

Spec == Init /\ [][Next]_vars

\* A handler that awaits the database goes on once crashes are over, and a
\* Telegram user tries again and again.
FairSpec ==
    /\ Spec
    /\ \A s \in Slot : WF_vars(Proceed(s))
    /\ \A t \in Telegram : SF_vars(\E s \in Slot : EnterSelect(s, t))
-----------------------------------------------------------------------------
(* Properties *)

\* The tables and the requests have the shape the models give them, and every
\* token is of an account that exists.
TypeOK ==
    /\ telegram \in [UserId -> Telegram \cup {NoTelegram, NoRow}]
    /\ token \in [RowId -> TokenRow \cup {Absent}]
    /\ \A i \in RowId : token[i] # Absent => Exists(token[i].user)
    /\ req \in [Slot -> Request]
    /\ faults \in 0..MaxFaults

\* However the mini app and /start race, a Telegram user who is let in gets the one
\* account there is for them, and it is the same at every later entry.
GreetedAsThemselves ==
    \A s \in Slot :
        req[s].op = "enter" /\ req[s].answer = "ok" =>
            AccountsOf(req[s].telegram) = {req[s].user}

\* Racing first saves leave a user one token row at most; with two, every later
\* save, read and deletion of the token would fail.
OneTokenPerUser == \A u \in UserId : Cardinality(TokenRowsOf(u)) <= 1

\* A save that found the token and was overtaken by its deletion does not bring
\* it back: only a save that found none creates one.
DeletedTokenStaysDeleted ==
    [][\A u \in UserId :
         TokenRowsOf(u) = {} /\ TokenRowsOf(u)' # {} =>
             \E s \in Slot : req[s].at = "insert" /\ req[s].user = u]_vars

\* A Telegram user who keeps trying keeps getting in: the error of a lost race
\* is never the answer to every attempt.
KeepsGettingIn ==
    \A t \in Telegram :
        []<>(\E s \in Slot : /\ req[s].op = "enter"
                            /\ req[s].telegram = t
                            /\ req[s].answer = "ok")
=============================================================================
