--------------------------- MODULE AccountsProofs ---------------------------
(***************************************************************************)
(* Theorems about Accounts for every set of users, Telegram identifiers,   *)
(* token rows and handlers, and every number of crashes.                   *)
(***************************************************************************)
EXTENDS Accounts, FiniteSetTheorems, TLAPS

-----------------------------------------------------------------------------
(* The inductive invariant. *)

\* The unique indexes: on telegram_id, and on user_token.user_id.
OneAccount ==
    \A u, v \in UserId : telegram[u] \in Telegram /\ telegram[u] = telegram[v] => u = v

OneToken ==
    \A i, j \in RowId : token[i] # Absent /\ token[i].user = token[j].user => i = j

\* What a request has established: whom it serves, and that a row it loaded is
\* still that user's, or gone.
Knows(r) ==
    /\ r.at = "create" => r.telegram \in Telegram
    /\ r.op = "enter" /\ r.answer = "ok" =>
           r.telegram \in Telegram /\ r.user \in UserId /\ telegram[r.user] = r.telegram
    /\ r.at \in {"insert", "update", "reload"} => r.user \in UserId /\ r.secret \in Secret
    /\ r.at = "create" => r.op = "enter" /\ r.answer # "ok"
    /\ r.at = "update" =>
           /\ r.row \in RowId
           /\ token[r.row] # Absent => token[r.row].user = r.user

RequestInv == \A s \in Slot : Knows(req[s])

AccountsInv == TypeOK /\ OneAccount /\ OneToken /\ RequestInv

LEMMA AbsentUser == /\ Absent.user = NoUser /\ NoUser \notin UserId /\ Absent \notin TokenRow
                    /\ \A r \in TokenRow : r # Absent /\ r.user \in UserId
BY AccountsAssumption DEF Absent, TokenRow

LEMMA IdleFields ==
    /\ Idle \in Request
    /\ Idle.op = "none" /\ Idle.at = "idle" /\ Idle.answer = "none" /\ Idle.row = NoRow
BY DEF Idle, Request

LEMMA AccountsInvInit == Init => AccountsInv
<1> SUFFICES ASSUME Init PROVE AccountsInv
    OBVIOUS
<1>1. TypeOK
  <2>1. 0 \in 0..MaxFaults
    BY AccountsAssumption
  <2>2. QED
    BY <2>1, IdleFields DEF Init, TypeOK
<1>2. OneAccount /\ OneToken
  BY AccountsAssumption DEF Init, OneAccount, OneToken
<1>3. RequestInv
  BY IdleFields DEF Init, RequestInv, Knows
<1>4. QED
  BY <1>1, <1>2, <1>3 DEF AccountsInv

-----------------------------------------------------------------------------
(* Steps that leave the tables alone. *)

\* Only request s changes.
Serves(s) ==
    /\ req' \in [Slot -> Request]
    /\ \A q \in Slot \ {s} : req'[q] = req[q]

LEMMA BecomesServes ==
    ASSUME req \in [Slot -> Request], NEW s \in Slot, NEW r \in Request, Becomes(s, r)
    PROVE  Serves(s) /\ req'[s] = r
BY DEF Becomes, Serves

LEMMA RequestStep ==
    ASSUME AccountsInv, NEW s \in Slot, Serves(s), Knows(req[s])',
           UNCHANGED <<telegram, token>>, faults' \in 0..MaxFaults
    PROVE  AccountsInv'
<1>1. TypeOK'
  BY DEF AccountsInv, TypeOK, Serves, Exists
<1>2. OneAccount' /\ OneToken'
  BY DEF AccountsInv, OneAccount, OneToken
<1>3. ASSUME NEW q \in Slot, q # s PROVE Knows(req[q])'
  <2>1. Knows(req[q]) /\ req'[q] = req[q]
    BY <1>3 DEF AccountsInv, RequestInv, Serves
  <2>2. QED
    BY <2>1 DEF Knows
<1>4. RequestInv'
  BY <1>3 DEF RequestInv
<1>5. QED
  BY <1>1, <1>2, <1>4 DEF AccountsInv

\* An answer of a request r that is not, or not yet, let in.
Refusal(r, a) == [r EXCEPT !.at = "answer", !.row = NoRow, !.secret = NoSecret, !.answer = a]

LEMMA RefusalFields ==
    ASSUME NEW r \in Request, NEW a \in {"ok", "missing", "error"}
    PROVE  /\ Refusal(r, a) \in Request
           /\ Refusal(r, a).at = "answer" /\ Refusal(r, a).op = r.op
           /\ Refusal(r, a).answer = a /\ Refusal(r, a).row = NoRow
BY DEF Refusal, Request

\* A request that is not an entry is answered, or an entry is answered with an error.
LEMMA AnswerStep ==
    ASSUME AccountsInv, NEW s \in Slot, NEW a \in {"ok", "missing", "error"},
           Answer(s, a), req[s].op = "enter" => a # "ok",
           UNCHANGED <<telegram, token, faults>>
    PROVE  AccountsInv'
<1>1. req \in [Slot -> Request] /\ req[s] \in Request /\ faults \in 0..MaxFaults
  BY DEF AccountsInv, TypeOK
<1>2. Refusal(req[s], a) \in Request /\ Becomes(s, Refusal(req[s], a))
  BY <1>1, RefusalFields DEF Answer, Refusal
<1>3. Serves(s) /\ req'[s] = Refusal(req[s], a)
  BY <1>1, <1>2, BecomesServes
<1>4. Knows(req[s])'
  BY <1>1, <1>3, RefusalFields DEF Knows
<1>5. QED
  BY <1>1, <1>3, <1>4, RequestStep

LEMMA EndStep ==
    ASSUME AccountsInv, NEW s \in Slot, Deliver(s) \/ Crash(s)
    PROVE  AccountsInv'
<1>1. req \in [Slot -> Request] /\ faults \in 0..MaxFaults
  BY DEF AccountsInv, TypeOK
<1>2. Becomes(s, Idle) /\ UNCHANGED <<telegram, token>>
  BY DEF Deliver, Crash
<1>3. faults' \in 0..MaxFaults
  BY <1>1, AccountsAssumption DEF Deliver, Crash
<1>4. Serves(s) /\ req'[s] = Idle
  BY <1>1, <1>2, IdleFields, BecomesServes
<1>5. Knows(req[s])'
  BY <1>4, IdleFields DEF Knows
<1>6. QED
  BY <1>2, <1>3, <1>4, <1>5, RequestStep

-----------------------------------------------------------------------------
(* Telegram users come in. *)

\* A single account is the one chosen.
LEMMA OnlyAccount ==
    ASSUME AccountsInv, NEW t \in Telegram, AccountsOf(t) # {}
    PROVE  \E u \in UserId : AccountsOf(t) = {u} /\ telegram[u] = t
BY DEF AccountsInv, OneAccount, AccountsOf

LEMMA EnterSelectStep ==
    ASSUME AccountsInv, NEW s \in Slot, NEW t \in Telegram, EnterSelect(s, t)
    PROVE  AccountsInv'
<1>1. /\ req \in [Slot -> Request] /\ faults \in 0..MaxFaults
      /\ UNCHANGED <<telegram, token, faults>>
  BY DEF AccountsInv, TypeOK, EnterSelect
<1>2. CASE AccountsOf(t) = {}
  <2> DEFINE r == [Idle EXCEPT !.op = "enter", !.telegram = t, !.at = "create",
                               !.user = NoUser, !.answer = "none"]
  <2>1. Cardinality(AccountsOf(t)) # 1
    BY <1>2, FS_EmptySet
  <2>2. Becomes(s, r)
    BY <1>2, <2>1 DEF EnterSelect, Admit
  <2>3. r \in Request /\ r.op = "enter" /\ r.at = "create" /\ r.telegram = t /\ r.answer = "none"
    BY DEF Idle, Request
  <2>4. Serves(s) /\ req'[s] = r
    BY <1>1, <2>2, <2>3, BecomesServes
  <2>5. Knows(req[s])'
    BY <2>3, <2>4 DEF Knows
  <2>6. QED
    BY <1>1, <2>4, <2>5, RequestStep
<1>3. CASE AccountsOf(t) # {}
  <2>1. PICK u \in UserId : AccountsOf(t) = {u} /\ telegram[u] = t
    BY <1>3, OnlyAccount
  <2>2. Cardinality(AccountsOf(t)) = 1 /\ (CHOOSE v \in AccountsOf(t) : TRUE) = u
    BY <2>1, FS_Singleton
  <2> DEFINE r == [Idle EXCEPT !.op = "enter", !.telegram = t, !.at = "answer",
                               !.user = u, !.answer = "ok"]
  <2>3. Becomes(s, r)
    BY <1>3, <2>2 DEF EnterSelect, Admit
  <2>4. /\ r \in Request /\ r.op = "enter" /\ r.at = "answer" /\ r.telegram = t
        /\ r.user = u /\ r.answer = "ok"
    BY DEF Idle, Request
  <2>5. Serves(s) /\ req'[s] = r
    BY <1>1, <2>3, <2>4, BecomesServes
  <2>6. Knows(req[s])'
    BY <1>1, <2>1, <2>4, <2>5 DEF Knows
  <2>7. QED
    BY <1>1, <2>5, <2>6, RequestStep
<1>4. QED
  BY <1>2, <1>3

LEMMA CreateAccountStep ==
    ASSUME AccountsInv, NEW s \in Slot, CreateAccount(s)
    PROVE  AccountsInv'
<1> DEFINE t == req[s].telegram
<1>1. /\ TypeOK /\ req \in [Slot -> Request] /\ req[s] \in Request /\ faults \in 0..MaxFaults
      /\ req[s].at = "create" /\ UNCHANGED <<token, faults>>
  BY DEF AccountsInv, TypeOK, CreateAccount
<1>2. t \in Telegram /\ req[s].op = "enter" /\ req[s].answer # "ok"
  BY <1>1 DEF AccountsInv, RequestInv, Knows
<1>3. CASE TelegramIndexRefuses(t)
  BY <1>1, <1>3, AnswerStep DEF CreateAccount
<1>4. CASE ~TelegramIndexRefuses(t)
  <2>1. /\ FreeUsers # {} /\ telegram' = [telegram EXCEPT ![NewUser] = t]
        /\ Becomes(s, [req[s] EXCEPT !.at = "answer", !.user = NewUser, !.answer = "ok"])
    BY <1>4 DEF CreateAccount
  <2>2. PICK n \in UserId : n = NewUser /\ ~Exists(n)
    BY <2>1 DEF NewUser, FreeUsers
  <2> DEFINE r == [req[s] EXCEPT !.at = "answer", !.user = n, !.answer = "ok"]
  <2>3. /\ r \in Request /\ r.at = "answer" /\ r.user = n /\ r.answer = "ok"
        /\ r.op = "enter" /\ r.telegram = t
    BY <1>1, <1>2 DEF Request
  <2>4. Serves(s) /\ req'[s] = r
    BY <1>1, <2>1, <2>2, <2>3, BecomesServes
  <2>5. /\ telegram' \in [UserId -> Telegram \cup {NoTelegram, NoRow}]
        /\ telegram'[n] = t
        /\ \A u \in UserId \ {n} : telegram'[u] = telegram[u]
    BY <1>1, <1>2, <2>1, <2>2 DEF TypeOK
  <2>6. \A u \in UserId : Exists(u) => Exists(u)' /\ telegram'[u] = telegram[u]
    BY <2>2, <2>5 DEF Exists
  <2>7. TypeOK'
    <3>1. \A i \in RowId : token[i] # Absent => Exists(token[i].user)'
      BY <1>1, <2>6, AbsentUser DEF TypeOK
    <3>2. QED
      BY <1>1, <2>4, <2>5, <3>1 DEF TypeOK, Serves
  <2>8. OneAccount'
    <3>1. \A u \in UserId : telegram[u] # t
      BY <1>4 DEF TelegramIndexRefuses, AccountsOf
    <3>2. QED
      BY <2>5, <3>1 DEF AccountsInv, OneAccount
  <2>9. OneToken'
    BY <1>1 DEF AccountsInv, OneToken
  <2>10. RequestInv'
    <3>1. Knows(req[s])'
      BY <1>2, <2>3, <2>4, <2>5 DEF Knows
    <3>2. ASSUME NEW q \in Slot, q # s PROVE Knows(req[q])'
      <4>1. Knows(req[q]) /\ req'[q] = req[q]
        BY <2>4, <3>2 DEF AccountsInv, RequestInv, Serves
      <4>2. req[q].op = "enter" /\ req[q].answer = "ok" => Exists(req[q].user)
        BY <4>1, AccountsAssumption DEF Knows, Exists
      <4>3. QED
        BY <1>1, <2>6, <4>1, <4>2 DEF Knows
    <3>3. QED
      BY <3>1, <3>2 DEF RequestInv
  <2>11. QED
    BY <2>7, <2>8, <2>9, <2>10 DEF AccountsInv
<1>5. QED
  BY <1>3, <1>4

-----------------------------------------------------------------------------
(* Tokens are saved and deleted. *)

LEMMA SaveSelectStep ==
    ASSUME AccountsInv, NEW s \in Slot, NEW u \in UserId, NEW k \in Secret, SaveSelect(s, u, k)
    PROVE  AccountsInv'
<1>1. /\ req \in [Slot -> Request] /\ faults \in 0..MaxFaults
      /\ UNCHANGED <<telegram, token, faults>>
  BY DEF AccountsInv, TypeOK, SaveSelect
<1>2. CASE TokenRowsOf(u) = {}
  <2> DEFINE r == [Idle EXCEPT !.op = "save", !.user = u, !.secret = k, !.at = "insert",
                               !.row = NoRow]
  <2>1. Becomes(s, r)
    BY <1>2 DEF SaveSelect, Admit
  <2>2. /\ r \in Request /\ r.op = "save" /\ r.at = "insert" /\ r.user = u /\ r.secret = k
    BY DEF Idle, Request
  <2>3. Serves(s) /\ req'[s] = r
    BY <1>1, <2>1, <2>2, BecomesServes
  <2>4. Knows(req[s])'
    BY <2>2, <2>3 DEF Knows
  <2>5. QED
    BY <1>1, <2>3, <2>4, RequestStep
<1>3. CASE TokenRowsOf(u) # {}
  <2>1. PICK i \in RowId : i = (CHOOSE j \in TokenRowsOf(u) : TRUE) /\ token[i].user = u
    BY <1>3 DEF TokenRowsOf
  <2> DEFINE r == [Idle EXCEPT !.op = "save", !.user = u, !.secret = k, !.at = "update",
                               !.row = i]
  <2>2. Becomes(s, r)
    BY <1>3, <2>1 DEF SaveSelect, Admit
  <2>3. /\ r \in Request /\ r.op = "save" /\ r.at = "update" /\ r.user = u /\ r.secret = k
        /\ r.row = i
    BY DEF Idle, Request
  <2>4. Serves(s) /\ req'[s] = r
    BY <1>1, <2>2, <2>3, BecomesServes
  <2>5. Knows(req[s])'
    BY <1>1, <2>1, <2>3, <2>4 DEF Knows
  <2>6. QED
    BY <1>1, <2>4, <2>5, RequestStep
<1>4. QED
  BY <1>2, <1>3

\* A token is written to a row that was free or the same user's.
LEMMA TokenWritten ==
    ASSUME AccountsInv, NEW s \in Slot, NEW i \in RowId, NEW u \in UserId, NEW k \in Secret,
           token' = [token EXCEPT ![i] = [user |-> u, secret |-> k]],
           Exists(u), \A j \in TokenRowsOf(u) : j = i,
           \A q \in Slot : req[q].row = i /\ req[q].at = "update" => req[q].user = u,
           UNCHANGED telegram, Serves(s), Knows(req[s])', faults' \in 0..MaxFaults
    PROVE  AccountsInv'
<1> DEFINE new == [user |-> u, secret |-> k]
<1>1. /\ TypeOK
      /\ new \in TokenRow /\ new # Absent /\ new.user = u
  BY AbsentUser DEF AccountsInv, TokenRow
<1>2. /\ token' \in [RowId -> TokenRow \cup {Absent}]
      /\ token'[i] = new
      /\ \A j \in RowId \ {i} : token'[j] = token[j]
  BY <1>1 DEF TypeOK
<1>3. TypeOK'
  <2>1. \A j \in RowId : token'[j] # Absent => Exists(token'[j].user)
    BY <1>1, <1>2 DEF TypeOK
  <2>2. QED
    BY <1>1, <1>2, <2>1 DEF TypeOK, Serves, Exists
<1>4. OneAccount'
  BY DEF AccountsInv, OneAccount
<1>5. OneToken'
  <2>1. \A j \in RowId : token[j].user = u => j = i
    BY DEF TokenRowsOf
  <2>2. QED
    BY <1>1, <1>2, <2>1 DEF AccountsInv, OneToken
<1>6. ASSUME NEW q \in Slot, q # s PROVE Knows(req[q])'
  <2>1. Knows(req[q]) /\ req'[q] = req[q]
    BY <1>6 DEF AccountsInv, RequestInv, Serves
  <2>2. req[q].at = "update" /\ req[q].row = i => token'[i].user = req[q].user
    BY <1>1, <1>2
  <2>3. QED
    BY <1>2, <2>1, <2>2 DEF Knows
<1>7. RequestInv'
  BY <1>6 DEF RequestInv
<1>8. QED
  BY <1>3, <1>4, <1>5, <1>7 DEF AccountsInv

LEMMA SaveInsertStep ==
    ASSUME AccountsInv, NEW s \in Slot, SaveInsert(s)
    PROVE  AccountsInv'
<1> DEFINE u == req[s].user
           k == req[s].secret
<1>1. /\ TypeOK /\ req \in [Slot -> Request] /\ req[s] \in Request /\ faults \in 0..MaxFaults
      /\ req[s].op = "save" /\ req[s].at = "insert" /\ UNCHANGED <<telegram, faults>>
  BY DEF AccountsInv, TypeOK, SaveInsert
<1>2. u \in UserId /\ k \in Secret
  BY <1>1 DEF AccountsInv, RequestInv, Knows
<1>3. CASE TokenIndexRefuses(u) \/ ForeignKeyRefuses(u)
  <2>1. Answer(s, "missing") /\ UNCHANGED token
    BY <1>3 DEF SaveInsert
  <2>2. QED
    BY <1>1, <2>1, AnswerStep
<1>4. CASE ~(TokenIndexRefuses(u) \/ ForeignKeyRefuses(u))
  <2>1. /\ FreeRows # {}
        /\ token' = [token EXCEPT ![NewRow] = [user |-> u, secret |-> k]]
        /\ Becomes(s, [req[s] EXCEPT !.at = "reload", !.row = NewRow])
    BY <1>4 DEF SaveInsert
  <2>2. PICK i \in RowId : i = NewRow /\ \A q \in Slot : req[q].row # i
    BY <2>1 DEF NewRow, FreeRows
  <2> DEFINE r == [req[s] EXCEPT !.at = "reload", !.row = i]
  <2>3. /\ r \in Request /\ r.at = "reload" /\ r.op = "save" /\ r.user = u /\ r.secret = k
    BY <1>1 DEF Request
  <2>4. Serves(s) /\ req'[s] = r
    BY <1>1, <2>1, <2>2, <2>3, BecomesServes
  <2>5. Knows(req[s])'
    BY <1>2, <2>3, <2>4 DEF Knows
  <2>6. Exists(u) /\ \A j \in TokenRowsOf(u) : j = i
    BY <1>4 DEF TokenIndexRefuses, ForeignKeyRefuses
  <2>7. token' = [token EXCEPT ![i] = [user |-> u, secret |-> k]]
    BY <2>1, <2>2
  <2>8. \A q \in Slot : req[q].row = i /\ req[q].at = "update" => req[q].user = u
    BY <2>2
  <2>9. UNCHANGED telegram /\ faults' \in 0..MaxFaults
    BY <1>1
  <2> HIDE DEF u, k, r
  <2>10. QED
    BY <1>2, <2>4, <2>5, <2>6, <2>7, <2>8, <2>9, TokenWritten
<1>5. QED
  BY <1>3, <1>4

LEMMA SaveUpdateStep ==
    ASSUME AccountsInv, NEW s \in Slot, SaveUpdate(s)
    PROVE  AccountsInv'
<1> DEFINE i == req[s].row
           u == req[s].user
           k == req[s].secret
<1>1. /\ TypeOK /\ req \in [Slot -> Request] /\ req[s] \in Request /\ faults \in 0..MaxFaults
      /\ req[s].op = "save" /\ req[s].at = "update" /\ UNCHANGED <<telegram, faults>>
  BY DEF AccountsInv, TypeOK, SaveUpdate
<1>2. /\ u \in UserId /\ k \in Secret /\ i \in RowId
      /\ token[i] # Absent => token[i].user = u
  BY <1>1 DEF AccountsInv, RequestInv, Knows
<1>3. CASE ~RowMatched(i)
  <2>1. Answer(s, "error") /\ UNCHANGED token
    BY <1>3 DEF SaveUpdate
  <2>2. QED
    BY <1>1, <2>1, AnswerStep
<1>4. CASE RowMatched(i)
  <2> DEFINE r == [req[s] EXCEPT !.at = "reload"]
  <2>1. token' = [token EXCEPT ![i] = [user |-> u, secret |-> k]] /\ Becomes(s, r)
    BY <1>4 DEF SaveUpdate
  <2>2. r \in Request /\ r.at = "reload" /\ r.op = "save" /\ r.user = u /\ r.secret = k
    BY <1>1 DEF Request
  <2>3. Serves(s) /\ req'[s] = r
    BY <1>1, <2>1, <2>2, BecomesServes
  <2>4. Knows(req[s])'
    BY <1>2, <2>2, <2>3 DEF Knows
  <2>5. token[i] # Absent /\ token[i].user = u
    BY <1>2, <1>4 DEF RowMatched
  <2>6. Exists(u)
    BY <1>1, <1>2, <2>5 DEF TypeOK
  <2>7. \A j \in TokenRowsOf(u) : j = i
    BY <1>2, <2>5 DEF AccountsInv, OneToken, TokenRowsOf
  <2>8. \A q \in Slot : req[q].row = i /\ req[q].at = "update" => req[q].user = u
    BY <1>2, <2>5 DEF AccountsInv, RequestInv, Knows
  <2>9. QED
    BY <1>1, <1>2, <2>1, <2>3, <2>4, <2>6, <2>7, <2>8, TokenWritten
<1>5. QED
  BY <1>3, <1>4

LEMMA SaveReloadStep ==
    ASSUME AccountsInv, NEW s \in Slot, SaveReload(s)
    PROVE  AccountsInv'
<1>1. /\ req[s].op = "save" /\ UNCHANGED <<telegram, token, faults>>
      /\ Answer(s, "ok") \/ Answer(s, "error")
  BY DEF SaveReload
<1>2. QED
  BY <1>1, AnswerStep

LEMMA DeleteStep ==
    ASSUME AccountsInv, NEW s \in Slot, NEW u \in UserId, Delete(s, u)
    PROVE  AccountsInv'
<1> DEFINE a == IF TokenRowsOf(u) = {} THEN "missing" ELSE "ok"
           r == [Idle EXCEPT !.op = "delete", !.user = u, !.at = "answer", !.answer = a]
<1>1. /\ TypeOK /\ req \in [Slot -> Request] /\ faults \in 0..MaxFaults
      /\ UNCHANGED <<telegram, faults>>
      /\ token' = [i \in RowId |-> IF token[i].user = u THEN Absent ELSE token[i]]
  BY DEF AccountsInv, TypeOK, Delete
<1>2. Becomes(s, r)
  BY DEF Delete, Admit
<1>3. r \in Request /\ r.op = "delete" /\ r.at = "answer"
  BY DEF Idle, Request
<1>4. Serves(s) /\ req'[s] = r
  BY <1>1, <1>2, <1>3, BecomesServes
<1>5. \A i \in RowId : token'[i] # Absent => token'[i] = token[i]
  BY <1>1
<1>6. TypeOK'
  <2>1. token' \in [RowId -> TokenRow \cup {Absent}]
    BY <1>1 DEF TypeOK
  <2>2. \A i \in RowId : token'[i] # Absent => Exists(token'[i].user)
    BY <1>1, <1>5 DEF TypeOK
  <2>3. QED
    BY <1>1, <1>4, <2>1, <2>2 DEF TypeOK, Serves, Exists
<1>7. OneAccount'
  BY <1>1 DEF AccountsInv, OneAccount
<1>8. OneToken'
  <2> SUFFICES ASSUME NEW i \in RowId, NEW j \in RowId,
                      token'[i] # Absent, token'[i].user = token'[j].user
               PROVE  i = j
      BY DEF OneToken
  <2>1. token'[i] = token[i] /\ token[i] \in TokenRow /\ token'[i].user \in UserId
    BY <1>1, <1>5, AbsentUser DEF TypeOK
  <2>2. token'[j] # Absent
    BY <2>1, AbsentUser
  <2>3. QED
    BY <1>5, <2>1, <2>2 DEF AccountsInv, OneToken
<1>9. RequestInv'
  <2>1. Knows(req[s])'
    BY <1>3, <1>4 DEF Knows
  <2>2. ASSUME NEW q \in Slot, q # s PROVE Knows(req[q])'
    <3>1. Knows(req[q]) /\ req'[q] = req[q]
      BY <1>4, <2>2 DEF AccountsInv, RequestInv, Serves
    <3>2. QED
      BY <1>1, <1>5, <3>1 DEF Knows
  <2>3. QED
    BY <2>1, <2>2 DEF RequestInv
<1>10. QED
  BY <1>6, <1>7, <1>8, <1>9 DEF AccountsInv

LEMMA AccountsInvStep == AccountsInv /\ [Next]_vars => AccountsInv'
<1> SUFFICES ASSUME AccountsInv, [Next]_vars PROVE AccountsInv'
    OBVIOUS
<1>1. CASE UNCHANGED vars
  BY <1>1 DEF vars, AccountsInv, TypeOK, OneAccount, OneToken, RequestInv, Knows, Exists
<1>2. ASSUME NEW s \in Slot, NEW t \in Telegram, EnterSelect(s, t) PROVE AccountsInv'
  BY <1>2, EnterSelectStep
<1>3. ASSUME NEW s \in Slot, NEW u \in UserId, NEW k \in Secret, SaveSelect(s, u, k)
      PROVE  AccountsInv'
  BY <1>3, SaveSelectStep
<1>4. ASSUME NEW s \in Slot, NEW u \in UserId, Delete(s, u) PROVE AccountsInv'
  BY <1>4, DeleteStep
<1>5. ASSUME NEW s \in Slot, Proceed(s) \/ Crash(s) PROVE AccountsInv'
  BY <1>5, CreateAccountStep, SaveInsertStep, SaveUpdateStep, SaveReloadStep, EndStep
     DEF Proceed
<1>6. QED
  BY <1>1, <1>2, <1>3, <1>4, <1>5 DEF Next

-----------------------------------------------------------------------------
(* The theorems. *)

\* Accounts, tokens and requests have their shape, and no token is of an account that
\* does not exist (src/models/user.py, src/models/auth.py).
THEOREM AccountTypes == Spec => []TypeOK
<1>1. AccountsInv => TypeOK
  BY DEF AccountsInv
<1>2. QED
  BY <1>1, AccountsInvInit, AccountsInvStep, PTL DEF Spec

\* The inductive invariant: what the unique indexes keep, and what a request knows
\* of the row it loaded (src/services/auth.py, src/services/telegram_auth.py).
THEOREM AccountsInvariant == Spec => []AccountsInv
BY AccountsInvInit, AccountsInvStep, PTL DEF Spec

\* Whoever is let in by /auth/telegram or /start is let into the one account there
\* is for their Telegram identifier, whatever races created it.
THEOREM EverybodyAsThemselves == Spec => []GreetedAsThemselves
<1>1. AccountsInv => GreetedAsThemselves
  <2> SUFFICES ASSUME AccountsInv, NEW s \in Slot, req[s].op = "enter", req[s].answer = "ok"
               PROVE  AccountsOf(req[s].telegram) = {req[s].user}
      BY DEF GreetedAsThemselves
  <2>1. /\ req[s].telegram \in Telegram /\ req[s].user \in UserId
        /\ telegram[req[s].user] = req[s].telegram
    BY DEF AccountsInv, RequestInv, Knows
  <2>2. QED
    BY <2>1 DEF AccountsInv, OneAccount, AccountsOf
<1>2. QED
  BY <1>1, AccountsInvariant, PTL

\* Racing saves never leave a user two token rows (src/services/auth.py).
THEOREM OneTokenEach == Spec => []OneTokenPerUser
<1>1. AccountsInv => OneTokenPerUser
  <2> SUFFICES ASSUME AccountsInv, NEW u \in UserId PROVE Cardinality(TokenRowsOf(u)) <= 1
      BY DEF OneTokenPerUser
  <2>1. CASE TokenRowsOf(u) = {}
    BY <2>1, FS_EmptySet
  <2>2. ASSUME NEW i \in TokenRowsOf(u) PROVE Cardinality(TokenRowsOf(u)) <= 1
    <3>1. token[i] # Absent
      BY <2>2, AbsentUser DEF TokenRowsOf
    <3>2. TokenRowsOf(u) = {i}
      BY <2>2, <3>1 DEF AccountsInv, OneToken, TokenRowsOf
    <3>3. Cardinality({i}) = 1
      BY FS_Singleton
    <3>4. QED
      BY <3>2, <3>3
  <2>3. QED
    BY <2>1, <2>2
<1>2. QED
  BY <1>1, AccountsInvariant, PTL

\* No save in flight brings a deleted token back (src/services/auth.py).
THEOREM DeletionHolds == Spec => DeletedTokenStaysDeleted
<1>1. ASSUME AccountsInv, [Next]_vars, NEW u \in UserId,
             TokenRowsOf(u) = {}, TokenRowsOf(u)' # {}
      PROVE  \E s \in Slot : req[s].at = "insert" /\ req[s].user = u
  <2>1. PICK i \in RowId : token'[i].user = u /\ token[i].user # u
    BY <1>1 DEF TokenRowsOf
  <2>2. token' # token
    BY <2>1
  <2>3. CASE \E s \in Slot : SaveInsert(s)
    <3>1. PICK s \in Slot : SaveInsert(s)
      BY <2>3
    <3>2. token' = [token EXCEPT ![NewRow] = [user |-> req[s].user, secret |-> req[s].secret]]
      BY <2>2, <3>1 DEF SaveInsert
    <3>3. token \in [RowId -> TokenRow \cup {Absent}]
      BY <1>1 DEF AccountsInv, TypeOK
    <3>4. token'[i].user = req[s].user
      <4>1. CASE i = NewRow
        BY <3>2, <3>3, <4>1
      <4>2. CASE i # NewRow
        BY <2>1, <3>2, <3>3, <4>2
      <4>3. QED
        BY <4>1, <4>2
    <3>5. req[s].at = "insert"
      BY <3>1 DEF SaveInsert
    <3>6. QED
      BY <2>1, <3>4, <3>5
  <2>4. ASSUME NEW s \in Slot, SaveUpdate(s) PROVE FALSE
    <3>1. /\ token' = [token EXCEPT ![req[s].row] =
                         [user |-> req[s].user, secret |-> req[s].secret]]
          /\ token[req[s].row] # Absent
      BY <2>2, <2>4 DEF SaveUpdate, RowMatched
    <3>2. req[s].row \in RowId /\ token[req[s].row].user = req[s].user
      BY <1>1, <2>4, <3>1 DEF AccountsInv, RequestInv, Knows, SaveUpdate
    <3>3. token \in [RowId -> TokenRow \cup {Absent}]
      BY <1>1 DEF AccountsInv, TypeOK
    <3>4. token'[i].user = token[i].user
      BY <3>1, <3>2, <3>3
    <3>5. QED
      BY <2>1, <3>4
  <2>5. ASSUME NEW s \in Slot, NEW v \in UserId, Delete(s, v) PROVE FALSE
    <3>1. token'[i] \in {Absent, token[i]}
      BY <2>5 DEF Delete
    <3>2. QED
      BY <2>1, <3>1, AbsentUser
  <2>6. QED
    BY <1>1, <2>2, <2>3, <2>4, <2>5
       DEF Next, Proceed, vars, EnterSelect, CreateAccount, SaveSelect, SaveReload, Deliver, Crash
<1>2. AccountsInv /\ [Next]_vars =>
          [\A u \in UserId :
              TokenRowsOf(u) = {} /\ TokenRowsOf(u)' # {} =>
                  \E s \in Slot : req[s].at = "insert" /\ req[s].user = u]_vars
  BY <1>1
<1>3. QED
  BY <1>2, AccountsInvariant, PTL DEF Spec, DeletedTokenStaysDeleted
=============================================================================
