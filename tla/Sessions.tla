------------------------------ MODULE Sessions ------------------------------
(***************************************************************************)
(* The JWT session API: src/services/jwt_auth.py behind                    *)
(* src/routers/jwt_auth.py and the access check of src/core/dependencies.  *)
(*                                                                         *)
(* Every `await` on the database is a point where another request, in this *)
(* worker or in the other one (docker-compose.prod.yml runs two), may run. *)
(* So a request is a record that moves through the steps between those     *)
(* points; each step ends with the one statement or commit it waits for.   *)
(* PostgreSQL runs READ COMMITTED: a statement sees what is committed when *)
(* it starts, row locks and unique indexes serialise conflicting writes.   *)
(*                                                                         *)
(* A jti names a token pair: its refresh token carries the jti, its access *)
(* token was created with it.  No operation of the program deletes a user  *)
(* or changes a password, and the user read of the web branch of           *)
(* /auth/refresh (routers/jwt_auth.py:98) therefore always succeeds.       *)
(*                                                                         *)
(* A definition X_Y is definition X with the plausible bug Y: a property   *)
(* is worth checking when such a variant violates it.                      *)
(***************************************************************************)
EXTENDS Naturals, FiniteSets

CONSTANTS
    User,        \* the e-mail addresses, which are also the accounts
    Password,
    Jti,         \* uuid4 values: the bound on how many pairs are ever issued
    Slot,        \* the request handlers that may be in flight together
    MaxAged,     \* the bound on how many pairs grow old
    NoUser, NoPassword, NoJti, NoSlot

ASSUME ConstantsAssumption ==
    /\ NoUser \notin User
    /\ NoPassword \notin Password
    /\ NoJti \notin Jti
    /\ NoSlot \notin Slot
    /\ MaxAged \in Nat

VARIABLES
    password,    \* "user" table: [User -> Password], NoPassword = no such row
    live,        \* "refresh_token" table: the jti of its rows
    owner,       \* the user a jti was issued to (the row's user_id, sub of its access token)
    age,         \* how old a pair is: see AgePair
    held,        \* the pairs some client has received
    req,         \* the requests in flight
    \* History, read by no guard: it lets properties speak of earlier steps.
    parent,      \* the jti a pair was exchanged for, NoJti after a login or a registration
    minter,      \* the handler that exchanged it, NoSlot after a login or a registration
    rotated,     \* the rows a rotation deleted
    cut          \* the presented jti of rotations that a crash stopped before the second commit

vars == <<password, live, owner, age, held, req, parent, minter, rotated, cut>>

history == <<parent, minter, rotated, cut>>

Credential == [kind : {"access", "refresh", "none"}, jti : Jti \cup {NoJti}]

NoCredential == [kind |-> "none", jti |-> NoJti]

Request ==
    [op       : {"none", "register", "login", "refresh", "logout"},
     at       : {"idle", "insert", "delete", "issue", "revoke", "answer"},
     user     : User \cup {NoUser},
     password : Password \cup {NoPassword},
     token    : Credential,
     new      : Jti \cup {NoJti},
     answer   : {"none", "ok", "taken", "refused", "reuse", "error"}]

Idle ==
    [op |-> "none", at |-> "idle", user |-> NoUser, password |-> NoPassword,
     token |-> NoCredential, new |-> NoJti, answer |-> "none"]

Init ==
    /\ password = [u \in User |-> NoPassword]
    /\ live = {}
    /\ owner = [j \in Jti |-> NoUser]
    /\ age = [j \in Jti |-> "fresh"]
    /\ held = {}
    /\ req = [s \in Slot |-> Idle]
    /\ parent = [j \in Jti |-> NoJti]
    /\ minter = [j \in Jti |-> NoSlot]
    /\ rotated = {}
    /\ cut = {}
-----------------------------------------------------------------------------
(* The tables and tokens as the handlers see them. *)

Issued == {j \in Jti : owner[j] # NoUser}

\* What a client can present: nothing, or one half of a pair it received.
Presentable ==
    {NoCredential} \cup [kind : {"access", "refresh"}, jti : held]

\* decode_token succeeds.  An access token is refused earlier than the refresh
\* token of its pair.
Decodes(c) ==
    \/ c.kind = "access" /\ age[c.jti] = "fresh"
    \/ c.kind = "refresh" /\ age[c.jti] # "expired"

EmailTaken(u) == password[u] # NoPassword

\* The unique indexes on user.email and user.name (which register fills with the e-mail).
EmailIndexRefuses_NoIndex(u) == FALSE
EmailIndexRefuses(u) == EmailTaken(u)

\* get_current_user lets the request through.
Authenticated(c) ==
    /\ c.kind = "access"
    /\ Decodes(c)
    /\ password[owner[c.jti]] # NoPassword

\* The bound Jti leaves an identifier for every request already admitted.
IdentifiersLeft ==
    Cardinality({s \in Slot : req[s].at \in {"insert", "delete", "issue"}})
        < Cardinality(Jti \ Issued)

\* Handler s moves on, or answers.
Becomes(s, r) == req' = [req EXCEPT ![s] = r]

Advance(s, step) == Becomes(s, [req[s] EXCEPT !.at = step])

Answer(s, a) == Becomes(s, [req[s] EXCEPT !.at = "answer", !.answer = a])

\* A request arrives at an idle handler.
Admit(s, r) == req[s].at = "idle" /\ Becomes(s, r)

\* A request that is answered a before it wrote anything: all that is left is to answer.
AnswerAtOnce(s, a) == Admit(s, [Idle EXCEPT !.at = "answer", !.answer = a])
-----------------------------------------------------------------------------
(* POST /auth/register *)

\* register_user up to its first await: the e-mail is looked up.
RegisterSelect(s, u, p) ==
    /\ IdentifiersLeft
    /\ IF EmailTaken(u)
         THEN AnswerAtOnce(s, "taken")
         ELSE Admit(s, [Idle EXCEPT !.op = "register", !.user = u, !.password = p,
                                    !.at = "insert"])
    /\ UNCHANGED <<password, live, owner, age, held, history>>

\* After the hash was computed: INSERT and commit.  The unique indexes decide a
\* race; the loser's IntegrityError is caught nowhere and answers 500.
RegisterInsert(s) ==
    /\ req[s].op = "register" /\ req[s].at = "insert"
    /\ IF EmailIndexRefuses(req[s].user)
         THEN /\ Answer(s, "error")
              /\ UNCHANGED password
         ELSE /\ password' = [password EXCEPT ![req[s].user] = req[s].password]
              /\ Advance(s, "issue")
    /\ UNCHANGED <<live, owner, age, held, history>>
-----------------------------------------------------------------------------
(* POST /auth/login *)

PasswordMatches(u, p) == password[u] = p

LoginSelect(s, u, p) ==
    /\ IdentifiersLeft
    /\ IF PasswordMatches(u, p)
         THEN Admit(s, [Idle EXCEPT !.op = "login", !.user = u, !.at = "issue"])
         ELSE AnswerAtOnce(s, "refused")
    /\ UNCHANGED <<password, live, owner, age, held, history>>
-----------------------------------------------------------------------------
(* POST /auth/refresh *)

RefreshTokenValid(c) == c.kind = "refresh" /\ Decodes(c)

RowFound_EverIssued(j) == j \in Issued
RowFound(j) == j \in live

\* token_record.user_id
TokenUser_Unread(j) == NoUser
TokenUser_AnyRow(j) == owner[CHOOSE k \in live : TRUE]
TokenUser(j) == owner[j]

\* From the missing or invalid token (401) through the SELECT of its row.
RefreshSelect(s, c) ==
    /\ IdentifiersLeft
    /\ \/ /\ ~RefreshTokenValid(c)
          /\ AnswerAtOnce(s, "refused")
       \/ /\ RefreshTokenValid(c)
          /\ ~RowFound(c.jti)
          /\ Admit(s, [Idle EXCEPT !.op = "refresh", !.token = c,
                                   !.at = "answer", !.answer = "reuse"])
       \/ /\ RefreshTokenValid(c)
          /\ RowFound(c.jti)
          /\ Admit(s, [Idle EXCEPT !.op = "refresh", !.token = c,
                                   !.at = "delete", !.user = TokenUser(c.jti)])
    /\ UNCHANGED <<password, live, owner, age, held, history>>

\* The rows left by a committed DELETE of jti j.
RowsWithout_NotCommitted(j) == live
RowsWithout_WholeAccount(j) == {k \in live : owner[k] # owner[j]}
RowsWithout(j) == live \ {j}

\* db.delete and its commit.  When another handler already deleted the row, the
\* DELETE matches nothing: SQLAlchemy only warns, and the rotation goes on.
RefreshDelete_NoNewPair(s) ==
    /\ req[s].op = "refresh" /\ req[s].at = "delete"
    /\ live' = RowsWithout(req[s].token.jti)
    /\ rotated' = rotated \cup {req[s].token.jti}
    /\ Answer(s, "refused")
    /\ UNCHANGED <<password, owner, age, held, parent, minter, cut>>

RefreshDelete(s) ==
    /\ req[s].op = "refresh" /\ req[s].at = "delete"
    /\ live' = RowsWithout(req[s].token.jti)
    /\ rotated' = rotated \cup {req[s].token.jti}
    /\ Advance(s, "issue")
    /\ UNCHANGED <<password, owner, age, held, parent, minter, cut>>
-----------------------------------------------------------------------------
(* create_token_pair, the last step of register, login and refresh *)

\* uuid4 gives an identifier no token ever had.
NewIdentifier_NotInTable(j) == j \notin live
NewIdentifier(j) == j \notin Issued

IssuePair(s, j) ==
    /\ req[s].at = "issue"
    /\ NewIdentifier(j)
    /\ live' = live \cup {j}
    /\ owner' = [owner EXCEPT ![j] = req[s].user]
    /\ Becomes(s, [req[s] EXCEPT !.at = "answer", !.answer = "ok", !.new = j])
    /\ parent' = [parent EXCEPT ![j] = req[s].token.jti]
    /\ minter' = [minter EXCEPT ![j] = IF req[s].op = "refresh" THEN s ELSE NoSlot]
    /\ UNCHANGED <<password, age, held, rotated, cut>>
-----------------------------------------------------------------------------
(* POST /auth/logout *)

\* revoke_refresh_token finds a jti to delete: a refresh token that decodes.
\* An access token in its place decodes too, has no jti, and nothing is deleted.
LogoutSelect(s, a, c) ==
    /\ \/ /\ ~Authenticated(a) \/ (c # NoCredential /\ ~Decodes(c))
          /\ AnswerAtOnce(s, "refused")
       \/ /\ Authenticated(a)
          /\ c.kind = "none" \/ (c.kind = "access" /\ Decodes(c))
          /\ AnswerAtOnce(s, "ok")
       \/ /\ Authenticated(a)
          /\ RefreshTokenValid(c)
          /\ Admit(s, [Idle EXCEPT !.op = "logout", !.token = c, !.at = "revoke"])
    /\ UNCHANGED <<password, live, owner, age, held, history>>

LogoutRevoke(s) ==
    /\ req[s].op = "logout" /\ req[s].at = "revoke"
    /\ live' = RowsWithout(req[s].token.jti)
    /\ Answer(s, "ok")
    /\ UNCHANGED <<password, owner, age, held, history>>
-----------------------------------------------------------------------------
(* What is common to all requests, and the passing of time *)

\* The answer reaches the client, which keeps the pair it may hold.
Deliver(s) ==
    /\ req[s].at = "answer"
    /\ held' = held \cup ({req[s].new} \ {NoJti})
    /\ Becomes(s, Idle)
    /\ UNCHANGED <<password, live, owner, age, history>>

\* The worker or the connection dies between two steps: what was committed
\* stays, the rest of the handler never runs and no answer arrives.
Crash(s) ==
    /\ req[s].at # "idle"
    /\ Becomes(s, Idle)
    /\ cut' = IF req[s].op = "refresh" /\ req[s].at = "issue"
                 THEN cut \cup {req[s].token.jti} ELSE cut
    /\ UNCHANGED <<password, live, owner, age, held, parent, minter, rotated>>

\* ACCESS_TOKEN_EXPIRE_MINUTES (15) pass, then REFRESH_TOKEN_EXPIRE_DAYS (30).
\* No row is removed: nothing in the program reads expires_at.
AgePair(j) ==
    /\ j \in Issued
    /\ age[j] # "expired"
    /\ Cardinality({k \in Jti \ {j} : age[k] # "fresh"}) < MaxAged
    /\ age' = [age EXCEPT ![j] = IF age[j] = "fresh" THEN "stale" ELSE "expired"]
    /\ UNCHANGED <<password, live, owner, held, req, history>>
-----------------------------------------------------------------------------
Arrive(s) ==
    \/ \E u \in User, p \in Password : RegisterSelect(s, u, p) \/ LoginSelect(s, u, p)
    \/ \E c \in Presentable : RefreshSelect(s, c)
    \/ \E a, c \in Presentable : LogoutSelect(s, a, c)

Proceed(s) ==
    \/ RegisterInsert(s)
    \/ RefreshDelete(s)
    \/ \E j \in Jti : IssuePair(s, j)
    \/ LogoutRevoke(s)
    \/ Deliver(s)

Next ==
    \/ \E s \in Slot : Arrive(s) \/ Proceed(s) \/ Crash(s)
    \/ \E j \in Jti : AgePair(j)

Spec == Init /\ [][Next]_vars
-----------------------------------------------------------------------------
(* Properties *)

\* The tables and the requests in flight have the shape the models give them.
TypeOK ==
    /\ password \in [User -> Password \cup {NoPassword}]
    /\ live \subseteq Issued
    /\ owner \in [Jti -> User \cup {NoUser}]
    /\ age \in [Jti -> {"fresh", "stale", "expired"}]
    /\ held \subseteq Issued
    /\ req \in [Slot -> Request]
    /\ parent \in [Jti -> Jti \cup {NoJti}]
    /\ minter \in [Jti -> Slot \cup {NoSlot}]
    /\ rotated \subseteq Jti
    /\ cut \subseteq Jti

\* Two registrations of one e-mail race: the one that goes on to a session is the
\* one whose password was stored, so its owner can log in again.
WinnerKeepsPassword ==
    \A s \in Slot :
        /\ req[s].op = "register"
        /\ req[s].at = "issue" \/ req[s].answer = "ok"
        => password[req[s].user] = req[s].password

\* One request handler exchanges a refresh token at most once, however the
\* handlers interleave and crash: two pairs obtained for one token were issued
\* by two handlers that overlapped.
OneSuccessorPerHandler ==
    \A a, b \in Jti :
        /\ parent[a] # NoJti
        /\ parent[a] = parent[b]
        /\ minter[a] = minter[b]
        => a = b

\* Refresh never moves a session to another account.
SameAccount ==
    \A j \in Jti : parent[j] # NoJti => owner[j] = owner[parent[j]]

\* A rotation deletes the old row in one commit and stores the new one in
\* another: a token that a rotation deleted was exchanged, is being exchanged,
\* or belongs to a request that a crash stopped in between.
RotationCompletes ==
    \A j \in rotated :
        \/ \E k \in Jti : parent[k] = j
        \/ \E s \in Slot : req[s].op = "refresh" /\ req[s].at = "issue" /\ req[s].token.jti = j
        \/ j \in cut

\* Once logout has answered "logged out", the refresh token it was given is out
\* of the table, whatever rotations of the same token were in flight.
LogoutIsFinal ==
    \A s \in Slot :
        /\ req[s].op = "logout"
        /\ req[s].answer = "ok"
        /\ req[s].token.kind = "refresh"
        => req[s].token.jti \notin live

\* The pair in an answer works when the answer is sent: no concurrent rotation
\* or logout, of this account or another, has removed its row.
AnsweredPairIsLive ==
    \A s \in Slot : req[s].at = "answer" /\ req[s].new # NoJti => req[s].new \in live

\* A row leaves the table only through a request that presented its token:
\* nobody's session is ended by somebody else's.
OnlyPresentedTokensDie ==
    [][\A j \in live \ live' :
         \E s \in Slot : /\ req[s].at \in {"delete", "revoke"}
                        /\ req[s].token = [kind |-> "refresh", jti |-> j]]_vars

\* The refresh_token table as the ledger sees it.
Rows == [j \in Jti |-> IF j \in live THEN "live"
                       ELSE IF j \in Issued THEN "retired" ELSE "unissued"]

\* Seen as a ledger of tokens, the tables go through the steps of
\* RefreshTokenLedger only: no token comes back, none changes hands.
Ledger == INSTANCE RefreshTokenLedger WITH
    Account <- User,
    Nobody <- NoUser,
    Token <- Jti,
    status <- Rows,
    holder <- owner

ImplementsLedger == Ledger!LedgerSpec
-----------------------------------------------------------------------------
(* What the documentation says and concurrent or reused tokens refute *)

\* docs/auth.md:70, 83 and 133: rotation invalidates the old refresh token and
\* using it again answers 401; so a token is exchanged at most once.
SingleUse ==
    \A a, b \in Jti : parent[a] # NoJti /\ parent[a] = parent[b] => a = b

\* The docstring of rotate_refresh_token (services/jwt_auth.py:91): a token that
\* is not found revokes every refresh token of its user.
ReuseRevokesAll ==
    [][\A s \in Slot :
         req[s].at = "idle" /\ req'[s].answer = "reuse"
         => \A j \in live' : owner[j] # owner[req'[s].token.jti]]_vars
=============================================================================
