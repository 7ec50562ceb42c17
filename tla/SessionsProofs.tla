--------------------------- MODULE SessionsProofs ---------------------------
(***************************************************************************)
(* Theorems about Sessions for every set of users, passwords, identifiers  *)
(* and handlers.                                                           *)
(***************************************************************************)
EXTENDS Sessions, TLAPS

-----------------------------------------------------------------------------
(* What each step does to the request it serves, field by field. *)

tables == <<password, live, owner, age, held>>

\* Only the request of handler s changes, and req stays well typed.
Serves(s) ==
    /\ req' \in [Slot -> Request]
    /\ \A t \in Slot \ {s} : req'[t] = req[t]

\* Handler s is left with nothing but an answer to give, or idle.
Blank(s) ==
    /\ req'[s].op = "none"
    /\ req'[s].at \in {"idle", "answer"}
    /\ req'[s].new = NoJti

\* Handler s goes on with the request it has, and answers nothing new.
Keeps(s) ==
    /\ req'[s].op = req[s].op
    /\ req'[s].user = req[s].user
    /\ req'[s].password = req[s].password
    /\ req'[s].token = req[s].token

LEMMA IdleIsRequest ==
    /\ Idle \in Request
    /\ Idle.at = "idle" /\ Idle.op = "none" /\ Idle.new = NoJti /\ Idle.answer = "none"
    /\ Idle.token = NoCredential
BY DEF Idle, Request, Credential, NoCredential

LEMMA BecomesServes ==
    ASSUME TypeOK, NEW s \in Slot, NEW r \in Request, Becomes(s, r)
    PROVE  Serves(s) /\ req'[s] = r
BY DEF TypeOK, Becomes, Serves

LEMMA AnswerAtOnceEffect ==
    ASSUME TypeOK, NEW s \in Slot, NEW a \in {"ok", "taken", "refused"}, AnswerAtOnce(s, a)
    PROVE  Serves(s) /\ Blank(s) /\ req[s].at = "idle" /\ req'[s].answer = a
<1> DEFINE r == [Idle EXCEPT !.at = "answer", !.answer = a]
<1>1. r \in Request /\ r.op = "none" /\ r.at = "answer" /\ r.new = NoJti /\ r.answer = a
  BY DEF Idle, Request, Credential, NoCredential
<1>2. Becomes(s, r) /\ req[s].at = "idle"
  BY DEF AnswerAtOnce, Admit
<1> HIDE DEF r
<1>3. QED
  BY <1>1, <1>2, BecomesServes DEF Blank

LEMMA AdvanceEffect ==
    ASSUME TypeOK, NEW s \in Slot, NEW step \in {"issue"}, Advance(s, step)
    PROVE  /\ Serves(s) /\ Keeps(s) /\ req'[s].at = step
           /\ req'[s].new = req[s].new /\ req'[s].answer = req[s].answer
<1> DEFINE r == [req[s] EXCEPT !.at = step]
<1>1. req[s] \in Request
  BY DEF TypeOK
<1>2. /\ r \in Request /\ r.op = req[s].op /\ r.user = req[s].user /\ r.at = step
      /\ r.password = req[s].password /\ r.token = req[s].token
      /\ r.new = req[s].new /\ r.answer = req[s].answer
  BY <1>1 DEF Request
<1>3. Becomes(s, r)
  BY DEF Advance
<1> HIDE DEF r
<1>4. QED
  BY <1>2, <1>3, BecomesServes DEF Keeps

LEMMA AnswerEffect ==
    ASSUME TypeOK, NEW s \in Slot, NEW a \in {"ok", "error"}, Answer(s, a)
    PROVE  /\ Serves(s) /\ Keeps(s) /\ req'[s].at = "answer"
           /\ req'[s].new = req[s].new /\ req'[s].answer = a
<1> DEFINE r == [req[s] EXCEPT !.at = "answer", !.answer = a]
<1>1. req[s] \in Request
  BY DEF TypeOK
<1>2. /\ r \in Request /\ r.op = req[s].op /\ r.user = req[s].user /\ r.at = "answer"
      /\ r.password = req[s].password /\ r.token = req[s].token
      /\ r.new = req[s].new /\ r.answer = a
  BY <1>1 DEF Request
<1>3. Becomes(s, r)
  BY DEF Answer
<1> HIDE DEF r
<1>4. QED
  BY <1>2, <1>3, BecomesServes DEF Keeps

-----------------------------------------------------------------------------
(* What each action does.  Opens(s, ...) describes a request that was just  *)
(* admitted and has not been answered.                                      *)

Opens(s, op, at, u, c) ==
    /\ Serves(s)
    /\ req[s].at = "idle"
    /\ req'[s].op = op
    /\ req'[s].at = at
    /\ req'[s].user = u
    /\ req'[s].token = c
    /\ req'[s].new = NoJti
    /\ req'[s].answer = "none"

LEMMA PresentableIsCredential ==
    ASSUME TypeOK, NEW c \in Presentable
    PROVE  /\ c \in Credential
           /\ c # NoCredential => c.jti \in held /\ c.jti \in Issued /\ c.jti \in Jti
           /\ c.kind \in {"access", "refresh"} => c # NoCredential
BY DEF TypeOK, Presentable, Credential, NoCredential, Issued

LEMMA RegisterSelectEffect ==
    ASSUME TypeOK, NEW s \in Slot, NEW u \in User, NEW p \in Password, RegisterSelect(s, u, p)
    PROVE  /\ UNCHANGED <<tables, history>>
           /\ \/ Serves(s) /\ Blank(s) /\ req[s].at = "idle"
              \/ /\ Opens(s, "register", "insert", u, NoCredential)
                 /\ req'[s].password = p
<1> DEFINE r == [Idle EXCEPT !.op = "register", !.user = u, !.password = p, !.at = "insert"]
<1>1. /\ r \in Request /\ r.op = "register" /\ r.at = "insert" /\ r.user = u
      /\ r.password = p /\ r.token = NoCredential /\ r.new = NoJti /\ r.answer = "none"
  BY DEF Idle, Request, Credential, NoCredential
<1>2. UNCHANGED <<tables, history>>
  BY DEF RegisterSelect, tables, history
<1>3. AnswerAtOnce(s, "taken") \/ Admit(s, r)
  BY DEF RegisterSelect
<1> HIDE DEF r
<1>4. QED
  BY <1>1, <1>2, <1>3, AnswerAtOnceEffect, BecomesServes DEF Admit, Opens

LEMMA LoginSelectEffect ==
    ASSUME TypeOK, NEW s \in Slot, NEW u \in User, NEW p \in Password, LoginSelect(s, u, p)
    PROVE  /\ UNCHANGED <<tables, history>>
           /\ \/ Serves(s) /\ Blank(s) /\ req[s].at = "idle" /\ req'[s].answer = "refused"
              \/ Opens(s, "login", "issue", u, NoCredential)
<1> DEFINE r == [Idle EXCEPT !.op = "login", !.user = u, !.at = "issue"]
<1>1. /\ r \in Request /\ r.op = "login" /\ r.at = "issue" /\ r.user = u
      /\ r.token = NoCredential /\ r.new = NoJti /\ r.answer = "none"
  BY DEF Idle, Request, Credential, NoCredential
<1>2. UNCHANGED <<tables, history>>
  BY DEF LoginSelect, tables, history
<1>3. AnswerAtOnce(s, "refused") \/ Admit(s, r)
  BY DEF LoginSelect
<1> HIDE DEF r
<1>4. QED
  BY <1>1, <1>2, <1>3, AnswerAtOnceEffect, BecomesServes DEF Admit, Opens

\* A rotation begins: the token's row is there, or the answer is "reuse".
RotationOpens(s, c) ==
    /\ c.kind = "refresh"
    /\ c.jti \in live
    /\ Opens(s, "refresh", "delete", owner[c.jti], c)

ReuseAnswered(s, c) ==
    /\ Serves(s)
    /\ req[s].at = "idle"
    /\ req'[s].op = "refresh"
    /\ req'[s].token = c
    /\ req'[s].at = "answer"
    /\ req'[s].answer = "reuse"
    /\ req'[s].new = NoJti

LEMMA RefreshSelectEffect ==
    ASSUME TypeOK, NEW s \in Slot, NEW c \in Presentable, RefreshSelect(s, c)
    PROVE  /\ UNCHANGED <<tables, history>>
           /\ \/ Serves(s) /\ Blank(s) /\ req[s].at = "idle" /\ req'[s].answer = "refused"
              \/ c # NoCredential /\ ReuseAnswered(s, c)
              \/ RotationOpens(s, c)
<1> DEFINE r == [Idle EXCEPT !.op = "refresh", !.token = c, !.at = "answer", !.answer = "reuse"]
           q == [Idle EXCEPT !.op = "refresh", !.token = c, !.at = "delete", !.user = owner[c.jti]]
<1>1. UNCHANGED <<tables, history>>
  BY DEF RefreshSelect, tables, history
<1>2. CASE AnswerAtOnce(s, "refused")
  BY <1>1, <1>2, AnswerAtOnceEffect
<1>3. CASE RefreshTokenValid(c) /\ ~RowFound(c.jti) /\ Admit(s, r)
  <2>0. c # NoCredential
    BY <1>3 DEF RefreshTokenValid, NoCredential
  <2>1. /\ r \in Request /\ r.op = "refresh" /\ r.at = "answer" /\ r.new = NoJti
        /\ r.answer = "reuse" /\ r.token = c
    BY PresentableIsCredential DEF Idle, Request, NoCredential
  <2> HIDE DEF r
  <2>2. QED
    BY <1>1, <1>3, <2>0, <2>1, BecomesServes DEF Admit, ReuseAnswered
<1>4. CASE RefreshTokenValid(c) /\ RowFound(c.jti) /\ Admit(s, q)
  <2>1. c.jti \in live /\ c.jti \in Jti /\ c.kind = "refresh"
    BY <1>4 DEF RowFound, RefreshTokenValid, TypeOK, Issued
  <2>2. c \in Credential /\ owner[c.jti] \in User \cup {NoUser}
    BY <2>1, PresentableIsCredential DEF TypeOK
  <2>3. /\ q \in Request /\ q.op = "refresh" /\ q.at = "delete" /\ q.user = owner[c.jti]
        /\ q.token = c /\ q.new = NoJti /\ q.answer = "none"
    BY <2>2 DEF Idle, Request, NoCredential
  <2> HIDE DEF q
  <2>4. QED
    BY <1>1, <1>4, <2>1, <2>3, BecomesServes DEF Admit, RotationOpens, Opens
<1>5. QED
  BY <1>2, <1>3, <1>4 DEF RefreshSelect, TokenUser

LEMMA LogoutSelectEffect ==
    ASSUME TypeOK, NEW s \in Slot, NEW a \in Presentable, NEW c \in Presentable,
           LogoutSelect(s, a, c)
    PROVE  /\ UNCHANGED <<tables, history>>
           /\ \/ Serves(s) /\ Blank(s) /\ req[s].at = "idle"
              \/ c.kind = "refresh" /\ Opens(s, "logout", "revoke", NoUser, c)
<1> DEFINE r == [Idle EXCEPT !.op = "logout", !.token = c, !.at = "revoke"]
<1>1. /\ r \in Request /\ r.op = "logout" /\ r.at = "revoke" /\ r.user = NoUser
      /\ r.token = c /\ r.new = NoJti /\ r.answer = "none"
  BY PresentableIsCredential DEF Idle, Request, NoCredential
<1>2. UNCHANGED <<tables, history>>
  BY DEF LogoutSelect, tables, history
<1>3. \/ AnswerAtOnce(s, "refused")
      \/ AnswerAtOnce(s, "ok")
      \/ RefreshTokenValid(c) /\ Admit(s, r)
  BY DEF LogoutSelect
<1> HIDE DEF r
<1>4. QED
  BY <1>1, <1>2, <1>3, AnswerAtOnceEffect, BecomesServes DEF Admit, Opens, RefreshTokenValid

LEMMA IssuePairEffect ==
    ASSUME TypeOK, NEW s \in Slot, NEW j \in Jti, IssuePair(s, j)
    PROVE  /\ Serves(s) /\ Keeps(s) /\ req[s].at = "issue" /\ req'[s].at = "answer"
           /\ req'[s].answer = "ok" /\ req'[s].new = j
<1> DEFINE r == [req[s] EXCEPT !.at = "answer", !.answer = "ok", !.new = j]
<1>1. req[s] \in Request
  BY DEF TypeOK
<1>2. /\ r \in Request /\ r.op = req[s].op /\ r.user = req[s].user /\ r.at = "answer"
      /\ r.password = req[s].password /\ r.token = req[s].token
      /\ r.new = j /\ r.answer = "ok"
  BY <1>1 DEF Request
<1>3. Becomes(s, r) /\ req[s].at = "issue"
  BY DEF IssuePair
<1> HIDE DEF r
<1>4. QED
  BY <1>2, <1>3, BecomesServes DEF Keeps

LEMMA IdleEffect ==
    ASSUME TypeOK, NEW s \in Slot, Becomes(s, Idle)
    PROVE  Serves(s) /\ Blank(s) /\ req'[s].at = "idle" /\ req'[s].answer = "none"
BY IdleIsRequest, BecomesServes DEF Blank

-----------------------------------------------------------------------------
(* The inductive invariant.  Each conjunct is about all requests at once.  *)

\* The step a request has reached tells its operation; only a request that is
\* ready to answer has an answer or a new pair.
StepTellsOperation ==
    \A s \in Slot :
        /\ req[s].at = "insert" => req[s].op = "register"
        /\ req[s].at = "delete" => req[s].op = "refresh"
        /\ req[s].at = "revoke" => req[s].op = "logout"
        /\ req[s].at = "issue" => req[s].op \in {"register", "login", "refresh"}
        /\ req[s].at \notin {"idle", "answer"} => req[s].answer = "none" /\ req[s].new = NoJti

\* Registrations and logins know their user and exchange no token.
KnowsUser ==
    \A s \in Slot :
        /\ req[s].op \in {"register", "login"} =>
               req[s].user \in User /\ req[s].token = NoCredential
        /\ req[s].op = "register" => req[s].password \in Password

\* A rotation acts on a token some client holds, for the account that owns it.
\* So does the deletion that ends a logout.
PresentsToken ==
    \A s \in Slot :
        /\ req[s].at = "delete" \/ (req[s].at = "issue" /\ req[s].op = "refresh") =>
               /\ req[s].token.kind = "refresh"
               /\ req[s].token.jti \in held
               /\ req[s].user = owner[req[s].token.jti]
        /\ req[s].at = "revoke" \/ (req[s].op = "logout" /\ req[s].answer = "ok") =>
               /\ req[s].token.kind = "refresh"
               /\ req[s].token.jti \in held

\* A pair waiting in an answer is live, nobody holds it yet and it is in one
\* answer only: so no request can present it, and none can remove its row.
NewPairIsPrivate ==
    \A s \in Slot :
        req[s].new # NoJti =>
            /\ req[s].at = "answer"
            /\ req[s].new \in live
            /\ req[s].new \notin held
            /\ \A t \in Slot : req[t].new = req[s].new => t = s

SessionInv ==
    /\ TypeOK
    /\ StepTellsOperation
    /\ KnowsUser
    /\ PresentsToken
    /\ NewPairIsPrivate

LEMMA SessionInvInit == Init => SessionInv
BY IdleIsRequest, ConstantsAssumption
   DEF Init, SessionInv, TypeOK, StepTellsOperation, KnowsUser, PresentsToken, NewPairIsPrivate, Issued

LEMMA SessionInvStep == SessionInv /\ [Next]_vars => SessionInv'
<1> SUFFICES ASSUME SessionInv, [Next]_vars PROVE SessionInv'
    OBVIOUS
<1> USE ConstantsAssumption DEF SessionInv
<1>a. TypeOK
  OBVIOUS
<1>1. ASSUME NEW s \in Slot, NEW u \in User, NEW p \in Password, RegisterSelect(s, u, p)
      PROVE  SessionInv'
  <2>t. TypeOK'
    BY <1>1, RegisterSelectEffect DEF Opens, Serves, Blank, tables, history, NoCredential, TypeOK, Issued
  <2>o. StepTellsOperation'
    BY <1>1, RegisterSelectEffect DEF Opens, Serves, Blank, tables, history, NoCredential, StepTellsOperation
  <2>u. KnowsUser'
    BY <1>1, RegisterSelectEffect DEF Opens, Serves, Blank, tables, history, NoCredential, KnowsUser
  <2>p. PresentsToken'
    BY <1>1, RegisterSelectEffect DEF Opens, Serves, Blank, tables, history, NoCredential, PresentsToken, TypeOK, Issued
  <2>n. NewPairIsPrivate'
    BY <1>1, RegisterSelectEffect DEF Opens, Serves, Blank, tables, history, NoCredential, NewPairIsPrivate, TypeOK
  <2>q. QED
    BY <2>t, <2>o, <2>u, <2>p, <2>n
<1>2. ASSUME NEW s \in Slot, NEW u \in User, NEW p \in Password, LoginSelect(s, u, p)
      PROVE  SessionInv'
  <2>t. TypeOK'
    BY <1>2, LoginSelectEffect DEF Opens, Serves, Blank, tables, history, NoCredential, TypeOK, Issued
  <2>o. StepTellsOperation'
    BY <1>2, LoginSelectEffect DEF Opens, Serves, Blank, tables, history, NoCredential, StepTellsOperation
  <2>u. KnowsUser'
    BY <1>2, LoginSelectEffect DEF Opens, Serves, Blank, tables, history, NoCredential, KnowsUser
  <2>p. PresentsToken'
    BY <1>2, LoginSelectEffect DEF Opens, Serves, Blank, tables, history, NoCredential, PresentsToken, TypeOK, Issued
  <2>n. NewPairIsPrivate'
    BY <1>2, LoginSelectEffect DEF Opens, Serves, Blank, tables, history, NoCredential, NewPairIsPrivate, TypeOK
  <2>q. QED
    BY <2>t, <2>o, <2>u, <2>p, <2>n
<1>3. ASSUME NEW s \in Slot, NEW c \in Presentable, RefreshSelect(s, c)
      PROVE  SessionInv'
  <2>t. TypeOK'
    BY <1>3, RefreshSelectEffect, PresentableIsCredential DEF RotationOpens, ReuseAnswered, Opens, Serves, Blank, tables, history, TypeOK, Issued
  <2>o. StepTellsOperation'
    BY <1>3, RefreshSelectEffect, PresentableIsCredential DEF RotationOpens, ReuseAnswered, Opens, Serves, Blank, tables, history, StepTellsOperation
  <2>u. KnowsUser'
    BY <1>3, RefreshSelectEffect, PresentableIsCredential DEF RotationOpens, ReuseAnswered, Opens, Serves, Blank, tables, history, KnowsUser
  <2>p. PresentsToken'
    BY <1>3, RefreshSelectEffect, PresentableIsCredential DEF RotationOpens, ReuseAnswered, Opens, Serves, Blank, tables, history, PresentsToken, TypeOK, Issued
  <2>n. NewPairIsPrivate'
    BY <1>3, RefreshSelectEffect, PresentableIsCredential DEF RotationOpens, ReuseAnswered, Opens, Serves, Blank, tables, history, NewPairIsPrivate, TypeOK
  <2>q. QED
    BY <2>t, <2>o, <2>u, <2>p, <2>n
<1>4. ASSUME NEW s \in Slot, NEW a \in Presentable, NEW c \in Presentable, LogoutSelect(s, a, c)
      PROVE  SessionInv'
  <2>t. TypeOK'
    BY <1>4, LogoutSelectEffect, PresentableIsCredential DEF Opens, Serves, Blank, tables, history, TypeOK, Issued
  <2>o. StepTellsOperation'
    BY <1>4, LogoutSelectEffect, PresentableIsCredential DEF Opens, Serves, Blank, tables, history, StepTellsOperation
  <2>u. KnowsUser'
    BY <1>4, LogoutSelectEffect, PresentableIsCredential DEF Opens, Serves, Blank, tables, history, KnowsUser
  <2>p. PresentsToken'
    BY <1>4, LogoutSelectEffect, PresentableIsCredential DEF Opens, Serves, Blank, tables, history, PresentsToken, TypeOK, Issued
  <2>n. NewPairIsPrivate'
    BY <1>4, LogoutSelectEffect, PresentableIsCredential DEF Opens, Serves, Blank, tables, history, NewPairIsPrivate, TypeOK
  <2>q. QED
    BY <2>t, <2>o, <2>u, <2>p, <2>n
<1>5. ASSUME NEW s \in Slot, RegisterInsert(s) PROVE SessionInv'
  <2>1. Serves(s) /\ Keeps(s) /\ req'[s].new = req[s].new
        /\ (\/ req'[s].at = "issue" /\ req'[s].answer = req[s].answer
            \/ req'[s].at = "answer")
    BY <1>5, AdvanceEffect, AnswerEffect DEF RegisterInsert
  <2>2. password' \in [User -> Password \cup {NoPassword}]
    BY <1>5 DEF RegisterInsert, TypeOK, KnowsUser
  <2>3. QED
    BY <1>5, <2>1, <2>2
       DEF RegisterInsert, Keeps, Serves, history,
           TypeOK, StepTellsOperation, KnowsUser, PresentsToken, NewPairIsPrivate, Issued
<1>6. ASSUME NEW s \in Slot, RefreshDelete(s) PROVE SessionInv'
  <2>1. Serves(s) /\ Keeps(s) /\ req'[s].at = "issue"
        /\ req'[s].new = req[s].new /\ req'[s].answer = req[s].answer
    BY <1>6, AdvanceEffect DEF RefreshDelete
  <2>2. req[s].token.jti \in Jti
    BY <1>6 DEF RefreshDelete, PresentsToken, TypeOK, Issued
  <2>3. QED
    BY <1>6, <2>1, <2>2
       DEF RefreshDelete, RowsWithout, Keeps, Serves,
           TypeOK, StepTellsOperation, KnowsUser, PresentsToken, NewPairIsPrivate, Issued
<1>7. ASSUME NEW s \in Slot, NEW j \in Jti, IssuePair(s, j) PROVE SessionInv'
  <2>1. Serves(s) /\ Keeps(s) /\ req'[s].at = "answer" /\ req'[s].answer = "ok"
        /\ req'[s].new = j /\ req[s].at = "issue"
    BY <1>7, IssuePairEffect
  <2>2. req[s].user \in User
    BY <2>1 DEF StepTellsOperation, KnowsUser, PresentsToken, TypeOK, Issued
  <2>3. req[s].token.jti \in Jti \cup {NoJti}
    BY DEF TypeOK, Request, Credential
  <2>4. Issued' = Issued \cup {j} /\ \A k \in Issued : owner'[k] = owner[k]
    BY <1>7, <2>2 DEF IssuePair, NewIdentifier, Issued, TypeOK
  <2>5. TypeOK'
    BY <1>7, <2>1, <2>2, <2>3, <2>4 DEF IssuePair, Serves, TypeOK
  <2>6. StepTellsOperation' /\ KnowsUser'
    BY <2>1 DEF Serves, Keeps, StepTellsOperation, KnowsUser
  <2>7. PresentsToken'
    BY <1>7, <2>1, <2>4 DEF IssuePair, Serves, Keeps, StepTellsOperation, PresentsToken, TypeOK
  <2>8. NewPairIsPrivate'
    BY <1>7, <2>1 DEF IssuePair, NewIdentifier, Serves, NewPairIsPrivate, TypeOK
  <2>9. QED
    BY <2>5, <2>6, <2>7, <2>8
<1>8. ASSUME NEW s \in Slot, LogoutRevoke(s) PROVE SessionInv'
  <2>1. Serves(s) /\ Keeps(s) /\ req'[s].at = "answer" /\ req'[s].answer = "ok"
        /\ req'[s].new = req[s].new
    BY <1>8, AnswerEffect DEF LogoutRevoke
  <2>2. QED
    BY <1>8, <2>1
       DEF LogoutRevoke, RowsWithout, Keeps, Serves, history,
           TypeOK, StepTellsOperation, KnowsUser, PresentsToken, NewPairIsPrivate, Issued
<1>9. ASSUME NEW s \in Slot, Deliver(s) PROVE SessionInv'
  BY <1>9, IdleEffect
     DEF Deliver, Serves, Blank, history,
         TypeOK, StepTellsOperation, KnowsUser, PresentsToken, NewPairIsPrivate, Issued
<1>10. ASSUME NEW s \in Slot, Crash(s) PROVE SessionInv'
  <2>1. req[s].op = "refresh" /\ req[s].at = "issue" => req[s].token.jti \in Jti
    BY DEF PresentsToken, TypeOK, Issued
  <2>2. QED
    BY <1>10, <2>1, IdleEffect
       DEF Crash, Serves, Blank,
           TypeOK, StepTellsOperation, KnowsUser, PresentsToken, NewPairIsPrivate, Issued
<1>11. ASSUME NEW j \in Jti, AgePair(j) PROVE SessionInv'
  BY <1>11
     DEF AgePair, history, TypeOK, StepTellsOperation, KnowsUser, PresentsToken, NewPairIsPrivate, Issued
<1>12. CASE UNCHANGED vars
  BY <1>12
     DEF vars, TypeOK, StepTellsOperation, KnowsUser, PresentsToken, NewPairIsPrivate, Issued
<1>13. QED
  BY <1>1, <1>2, <1>3, <1>4, <1>5, <1>6, <1>7, <1>8, <1>9, <1>10, <1>11, <1>12
     DEF Next, Arrive, Proceed

\* Every request in flight agrees with the tables: what it has read, the pair it
\* will answer with and the tokens clients hold are those the handlers stored.
THEOREM SessionInvariant == Spec => []SessionInv
BY SessionInvInit, SessionInvStep, PTL DEF Spec

\* The tables and the requests in flight keep their shape: in particular every
\* row and every pair a client holds was issued to a user.
THEOREM TypeCorrect == Spec => []TypeOK
<1>1. SessionInv => TypeOK
  BY DEF SessionInv
<1>2. QED
  BY <1>1, SessionInvariant, PTL

\* The pair in an answer works when it is sent: other rotations and logouts can
\* only name tokens that some client already holds.
THEOREM AnswersAreUsable == Spec => []AnsweredPairIsLive
<1>1. SessionInv => AnsweredPairIsLive
  BY DEF SessionInv, NewPairIsPrivate, AnsweredPairIsLive
<1>2. QED
  BY <1>1, SessionInvariant, PTL

-----------------------------------------------------------------------------
(* One handler exchanges a token at most once. *)

\* An exchanged token is out of the table for good; a rotation past its DELETE
\* has its own token out of the table; and a handler in the middle of a rotation
\* has not exchanged that token before, since it found the row.
ExchangeInv ==
    /\ \A j \in Jti :
           parent[j] # NoJti => parent[j] \in Issued \ live /\ j \in Issued /\ minter[j] \in Slot
    /\ \A s \in Slot :
           /\ req[s].at = "issue" /\ req[s].op = "refresh" => req[s].token.jti \notin live
           /\ req[s].at = "delete" \/ (req[s].at = "issue" /\ req[s].op = "refresh") =>
                  \A j \in Jti : parent[j] = req[s].token.jti => minter[j] # s
    /\ OneSuccessorPerHandler
    /\ SameAccount

LEMMA ExchangeInvInit == Init => ExchangeInv
BY IdleIsRequest
   DEF Init, ExchangeInv, OneSuccessorPerHandler, SameAccount, Issued

LEMMA ExchangeInvStep == SessionInv /\ ExchangeInv /\ [Next]_vars => ExchangeInv'
<1> SUFFICES ASSUME SessionInv, ExchangeInv, [Next]_vars PROVE ExchangeInv'
    OBVIOUS
<1> USE ConstantsAssumption DEF ExchangeInv, OneSuccessorPerHandler, SameAccount, Issued
<1>a. TypeOK /\ PresentsToken /\ KnowsUser /\ StepTellsOperation
  BY DEF SessionInv
<1>1. ASSUME NEW s \in Slot, NEW u \in User, NEW p \in Password, RegisterSelect(s, u, p)
      PROVE  ExchangeInv'
  BY <1>1, <1>a, RegisterSelectEffect DEF Opens, Serves, Blank, tables, history
<1>2. ASSUME NEW s \in Slot, NEW u \in User, NEW p \in Password, LoginSelect(s, u, p)
      PROVE  ExchangeInv'
  BY <1>2, <1>a, LoginSelectEffect DEF Opens, Serves, Blank, tables, history
<1>3. ASSUME NEW s \in Slot, NEW c \in Presentable, RefreshSelect(s, c)
      PROVE  ExchangeInv'
  BY <1>3, <1>a, RefreshSelectEffect
     DEF RotationOpens, ReuseAnswered, Opens, Serves, Blank, tables, history, TypeOK
<1>4. ASSUME NEW s \in Slot, NEW a \in Presentable, NEW c \in Presentable, LogoutSelect(s, a, c)
      PROVE  ExchangeInv'
  BY <1>4, <1>a, LogoutSelectEffect DEF Opens, Serves, Blank, tables, history
<1>5. ASSUME NEW s \in Slot, RegisterInsert(s) PROVE ExchangeInv'
  <2>1. Serves(s) /\ Keeps(s) /\ req'[s].at \in {"issue", "answer"}
    BY <1>5, <1>a, AdvanceEffect, AnswerEffect DEF RegisterInsert
  <2>2. QED
    BY <1>5, <2>1 DEF RegisterInsert, Keeps, Serves, history
<1>6. ASSUME NEW s \in Slot, RefreshDelete(s) PROVE ExchangeInv'
  <2>1. Serves(s) /\ Keeps(s) /\ req[s].at = "delete"
    BY <1>6, <1>a, AdvanceEffect DEF RefreshDelete
  <2>2. live' \subseteq live /\ req[s].token.jti \notin live'
    BY <1>6 DEF RefreshDelete, RowsWithout
  <2>3. QED
    BY <1>6, <2>1, <2>2 DEF RefreshDelete, Keeps, Serves
<1>7. ASSUME NEW s \in Slot, NEW j \in Jti, IssuePair(s, j) PROVE ExchangeInv'
  <2>1. Serves(s) /\ Keeps(s) /\ req'[s].at = "answer" /\ req[s].at = "issue"
    BY <1>7, <1>a, IssuePairEffect
  <2>2. req[s].op # "refresh" => req[s].token.jti = NoJti
    BY <1>a, <2>1 DEF KnowsUser, StepTellsOperation, NoCredential
  <2>3. req[s].op = "refresh" => /\ req[s].token.jti \in Issued \ live
                                 /\ req[s].user = owner[req[s].token.jti]
    BY <1>a, <2>1 DEF PresentsToken, TypeOK
  <2>4. req[s].user \in User
    BY <1>a, <2>1, <2>3 DEF KnowsUser, StepTellsOperation, TypeOK
  <2>5. /\ parent' = [parent EXCEPT ![j] = req[s].token.jti]
        /\ minter' = [minter EXCEPT ![j] = IF req[s].op = "refresh" THEN s ELSE NoSlot]
        /\ owner' = [owner EXCEPT ![j] = req[s].user]
        /\ live' = live \cup {j}
        /\ j \notin Issued
    BY <1>7 DEF IssuePair, NewIdentifier
  <2>6. \A k \in Jti : parent[k] # j
    BY <2>5, <1>a DEF TypeOK
  <2>7. /\ parent'[j] = req[s].token.jti
        /\ minter'[j] = IF req[s].op = "refresh" THEN s ELSE NoSlot
        /\ owner'[j] = req[s].user
        /\ \A k \in Jti \ {j} : /\ parent'[k] = parent[k]
                               /\ minter'[k] = minter[k]
                               /\ owner'[k] = owner[k]
    BY <1>a, <2>5 DEF TypeOK
  <2>8. \A k \in Jti : parent'[k] # NoJti =>
            /\ parent'[k] \in Issued' \ live'
            /\ k \in Issued'
            /\ minter'[k] \in Slot
    BY <2>2, <2>3, <2>4, <2>5, <2>6, <2>7
  <2>9. ASSUME NEW t \in Slot
        PROVE  /\ req'[t].at = "issue" /\ req'[t].op = "refresh" => req'[t].token.jti \notin live'
               /\ req'[t].at = "delete" \/ (req'[t].at = "issue" /\ req'[t].op = "refresh") =>
                     \A k \in Jti : parent'[k] = req'[t].token.jti => minter'[k] # t
    <3>1. CASE t = s
      BY <2>1, <3>1
    <3>2. CASE t # s
      <4>1. req'[t] = req[t]
        BY <2>1, <3>2 DEF Serves
      <4>2. req[t].at = "delete" \/ (req[t].at = "issue" /\ req[t].op = "refresh")
              => req[t].token.jti \in Issued
        BY <1>a DEF PresentsToken, TypeOK
      <4>3. minter'[j] # t
        BY <2>7, <3>2
      <4>4. QED
        BY <2>5, <2>7, <4>1, <4>2, <4>3
    <3>3. QED
      BY <3>1, <3>2
  <2>10. \A k \in Jti \ {j} : parent[k] = req[s].token.jti /\ parent[k] # NoJti => minter[k] # s
    BY <2>1, <2>2
  <2>11. OneSuccessorPerHandler'
    BY <2>2, <2>7, <2>10
  <2>12. SameAccount'
    BY <2>2, <2>3, <2>6, <2>7, <1>a DEF TypeOK
  <2>13. QED
    BY <2>8, <2>9, <2>11, <2>12
<1>8. ASSUME NEW s \in Slot, LogoutRevoke(s) PROVE ExchangeInv'
  <2>1. Serves(s) /\ Keeps(s) /\ req'[s].at = "answer"
    BY <1>8, <1>a, AnswerEffect DEF LogoutRevoke
  <2>2. QED
    BY <1>8, <2>1 DEF LogoutRevoke, RowsWithout, Keeps, Serves, history
<1>9. ASSUME NEW s \in Slot, Deliver(s) PROVE ExchangeInv'
  BY <1>9, <1>a, IdleEffect DEF Deliver, Serves, Blank, history
<1>10. ASSUME NEW s \in Slot, Crash(s) PROVE ExchangeInv'
  BY <1>10, <1>a, IdleEffect DEF Crash, Serves, Blank
<1>11. ASSUME NEW j \in Jti, AgePair(j) PROVE ExchangeInv'
  BY <1>11 DEF AgePair, history
<1>12. CASE UNCHANGED vars
  BY <1>12 DEF vars
<1>13. QED
  BY <1>1, <1>2, <1>3, <1>4, <1>5, <1>6, <1>7, <1>8, <1>9, <1>10, <1>11, <1>12
     DEF Next, Arrive, Proceed

\* An exchanged token is gone, and a rotation that found its row has not
\* exchanged it before.
THEOREM ExchangeInvariant == Spec => []ExchangeInv
BY SessionInvariant, ExchangeInvInit, ExchangeInvStep, PTL DEF Spec

\* Two pairs obtained for one refresh token come from two handlers that
\* overlapped, whatever the number of users, tokens, handlers and crashes.
THEOREM OneSuccessor == Spec => []OneSuccessorPerHandler
<1>1. ExchangeInv => OneSuccessorPerHandler
  BY DEF ExchangeInv
<1>2. QED
  BY <1>1, ExchangeInvariant, PTL

\* Where requests never overlap, the documented rule holds: a refresh token is
\* exchanged at most once.  The run sessions_single_use refutes it for two handlers.
THEOREM SerialSingleUse ==
    ASSUME NEW s \in Slot, Slot = {s}
    PROVE  Spec => []SingleUse
<1>1. SessionInv /\ ExchangeInv => SingleUse
  <2>1. ASSUME ExchangeInv, NEW a \in Jti, NEW b \in Jti, parent[a] # NoJti, parent[a] = parent[b]
        PROVE  minter[a] = minter[b]
    BY <2>1 DEF ExchangeInv
  <2>2. QED
    BY <2>1 DEF ExchangeInv, OneSuccessorPerHandler, SingleUse
<1>2. QED
  BY <1>1, SessionInvariant, ExchangeInvariant, PTL

\* A session never moves to another account.
THEOREM SessionsKeepAccount == Spec => []SameAccount
<1>1. ExchangeInv => SameAccount
  BY DEF ExchangeInv
<1>2. QED
  BY <1>1, ExchangeInvariant, PTL

-----------------------------------------------------------------------------
(* How a request ends agrees with what it left in the tables. *)

OutcomeInv == WinnerKeepsPassword /\ RotationCompletes /\ LogoutIsFinal

LEMMA OutcomeInvInit == Init => OutcomeInv
BY IdleIsRequest
   DEF Init, OutcomeInv, WinnerKeepsPassword, RotationCompletes, LogoutIsFinal

LEMMA OutcomeInvStep == SessionInv /\ ExchangeInv /\ OutcomeInv /\ [Next]_vars => OutcomeInv'
<1> SUFFICES ASSUME SessionInv, ExchangeInv, OutcomeInv, [Next]_vars PROVE OutcomeInv'
    OBVIOUS
<1> USE ConstantsAssumption DEF OutcomeInv, WinnerKeepsPassword, RotationCompletes, LogoutIsFinal
<1>a. TypeOK /\ PresentsToken /\ KnowsUser /\ StepTellsOperation
  BY DEF SessionInv
<1>1. ASSUME NEW s \in Slot, NEW u \in User, NEW p \in Password, RegisterSelect(s, u, p)
      PROVE  OutcomeInv'
  BY <1>1, <1>a, RegisterSelectEffect DEF Opens, Serves, Blank, tables, history
<1>2. ASSUME NEW s \in Slot, NEW u \in User, NEW p \in Password, LoginSelect(s, u, p)
      PROVE  OutcomeInv'
  BY <1>2, <1>a, LoginSelectEffect DEF Opens, Serves, Blank, tables, history
<1>3. ASSUME NEW s \in Slot, NEW c \in Presentable, RefreshSelect(s, c)
      PROVE  OutcomeInv'
  BY <1>3, <1>a, RefreshSelectEffect
     DEF RotationOpens, ReuseAnswered, Opens, Serves, Blank, tables, history
<1>4. ASSUME NEW s \in Slot, NEW a \in Presentable, NEW c \in Presentable, LogoutSelect(s, a, c)
      PROVE  OutcomeInv'
  BY <1>4, <1>a, LogoutSelectEffect DEF Opens, Serves, Blank, tables, history
<1>5. ASSUME NEW s \in Slot, RegisterInsert(s) PROVE OutcomeInv'
  <2>1. /\ Serves(s) /\ Keeps(s)
        /\ req[s].op = "register" /\ req[s].at = "insert"
        /\ \/ /\ req'[s].at = "answer" /\ req'[s].answer = "error"
              /\ password' = password
           \/ /\ req'[s].at = "issue"
              /\ password' = [password EXCEPT ![req[s].user] = req[s].password]
              /\ password[req[s].user] = NoPassword
    BY <1>5, <1>a, AdvanceEffect, AnswerEffect DEF RegisterInsert, EmailIndexRefuses, EmailTaken
  <2>2. WinnerKeepsPassword'
    <3>1. SUFFICES ASSUME NEW t \in Slot, req'[t].op = "register",
                          req'[t].at = "issue" \/ req'[t].answer = "ok"
                   PROVE  password'[req'[t].user] = req'[t].password
      OBVIOUS
    <3>2. CASE t = s
      BY <1>a, <2>1, <3>1, <3>2 DEF Keeps, KnowsUser, TypeOK
    <3>3. CASE t # s
      <4>1. req'[t] = req[t] /\ req[t].password \in Password
        BY <1>a, <2>1, <3>1, <3>3 DEF Serves, KnowsUser
      <4>2. password[req[t].user] = req[t].password
        BY <3>1, <4>1
      <4>3. password[req[t].user] # NoPassword /\ req[t].user \in User
        BY <1>a, <3>1, <4>1, <4>2 DEF KnowsUser
      <4>4. password'[req[t].user] = password[req[t].user]
        BY <1>a, <2>1, <4>3 DEF TypeOK
      <4>5. QED
        BY <4>1, <4>2, <4>4
    <3>4. QED
      BY <3>2, <3>3
  <2>3. RotationCompletes' /\ LogoutIsFinal'
    BY <1>5, <2>1 DEF RegisterInsert, Keeps, Serves, history
  <2>4. QED
    BY <2>2, <2>3
<1>6. ASSUME NEW s \in Slot, RefreshDelete(s) PROVE OutcomeInv'
  <2>1. Serves(s) /\ Keeps(s) /\ req'[s].at = "issue"
    BY <1>6, <1>a, AdvanceEffect DEF RefreshDelete
  <2>2. QED
    BY <1>6, <2>1 DEF RefreshDelete, RowsWithout, Keeps, Serves
<1>7. ASSUME NEW s \in Slot, NEW j \in Jti, IssuePair(s, j) PROVE OutcomeInv'
  <2>1. Serves(s) /\ Keeps(s) /\ req[s].at = "issue"
    BY <1>7, <1>a, IssuePairEffect
  <2>2. WinnerKeepsPassword'
    BY <1>7, <2>1 DEF IssuePair, Keeps, Serves
  <2>3. RotationCompletes'
    <3>1. parent'[j] = req[s].token.jti /\ \A k \in Jti \ {j} : parent'[k] = parent[k]
      BY <1>7, <1>a DEF IssuePair, TypeOK
    <3>2. parent[j] = NoJti
      BY <1>7 DEF IssuePair, NewIdentifier, ExchangeInv
    <3>3. QED
      BY <1>7, <1>a, <2>1, <3>1, <3>2 DEF IssuePair, Keeps, Serves, TypeOK
  <2>4. LogoutIsFinal'
    BY <1>7, <1>a, <2>1
       DEF IssuePair, NewIdentifier, Keeps, Serves, PresentsToken, StepTellsOperation, TypeOK
  <2>5. QED
    BY <2>2, <2>3, <2>4
<1>8. ASSUME NEW s \in Slot, LogoutRevoke(s) PROVE OutcomeInv'
  <2>1. Serves(s) /\ Keeps(s) /\ req[s].op = "logout" /\ req'[s].at = "answer"
    BY <1>8, <1>a, AnswerEffect DEF LogoutRevoke
  <2>2. QED
    BY <1>8, <2>1 DEF LogoutRevoke, RowsWithout, Keeps, Serves, history
<1>9. ASSUME NEW s \in Slot, Deliver(s) PROVE OutcomeInv'
  BY <1>9, <1>a, IdleEffect DEF Deliver, Serves, Blank, history
<1>10. ASSUME NEW s \in Slot, Crash(s) PROVE OutcomeInv'
  BY <1>10, <1>a, IdleEffect DEF Crash, Serves, Blank
<1>11. ASSUME NEW j \in Jti, AgePair(j) PROVE OutcomeInv'
  BY <1>11 DEF AgePair, history
<1>12. CASE UNCHANGED vars
  BY <1>12 DEF vars
<1>13. QED
  BY <1>1, <1>2, <1>3, <1>4, <1>5, <1>6, <1>7, <1>8, <1>9, <1>10, <1>11, <1>12
     DEF Next, Arrive, Proceed

\* Registrations, rotations and logouts that moved on left the tables as their
\* answer says they did.
THEOREM OutcomeInvariant == Spec => []OutcomeInv
BY SessionInvariant, ExchangeInvariant, OutcomeInvInit, OutcomeInvStep, PTL DEF Spec

\* The registration that wins an e-mail is the one whose password is stored.
THEOREM RegistrationWinner == Spec => []WinnerKeepsPassword
<1>1. OutcomeInv => WinnerKeepsPassword
  BY DEF OutcomeInv
<1>2. QED
  BY <1>1, OutcomeInvariant, PTL

\* Only a crash between its two commits makes a rotation lose the session.
THEOREM RotationsComplete == Spec => []RotationCompletes
<1>1. OutcomeInv => RotationCompletes
  BY DEF OutcomeInv
<1>2. QED
  BY <1>1, OutcomeInvariant, PTL

\* An acknowledged logout has removed the token it was given.
THEOREM LogoutRemovesToken == Spec => []LogoutIsFinal
<1>1. OutcomeInv => LogoutIsFinal
  BY DEF OutcomeInv
<1>2. QED
  BY <1>1, OutcomeInvariant, PTL

-----------------------------------------------------------------------------
(* The refresh_token table implements its ledger. *)

\* A DELETE of one row retires that token, or finds nothing to retire.
LEMMA DeleteRetires ==
    ASSUME SessionInv, NEW j \in Jti, live' = RowsWithout(j), UNCHANGED owner
    PROVE  (\E t \in Jti : Ledger!RetireToken(t)) \/ (live' = live)
<1>1. CASE j \notin live
  BY <1>1 DEF RowsWithout
<1>2. CASE j \in live
  <2>1. j \in Issued /\ Issued' = Issued /\ live' = live \ {j}
    BY <1>2 DEF SessionInv, TypeOK, RowsWithout, Issued
  <2>2. Rows[j] = "live"
    BY <1>2 DEF Rows
  <2>3. Rows' = [Rows EXCEPT ![j] = "retired"]
    BY <2>1 DEF Rows
  <2>4. Ledger!RetireToken(j)
    BY <2>2, <2>3 DEF Ledger!RetireToken, Rows
  <2>5. QED
    BY <2>4
<1>3. QED
  BY <1>1, <1>2

\* create_token_pair issues a token nobody ever had.
LEMMA IssueIssues ==
    ASSUME SessionInv, NEW s \in Slot, NEW j \in Jti, IssuePair(s, j)
    PROVE  \E u \in User : Ledger!IssueToken(j, u)
<1>1. req[s].user \in User
  BY DEF IssuePair, SessionInv, StepTellsOperation, KnowsUser, PresentsToken, TypeOK, Issued
<1>2. owner' = [owner EXCEPT ![j] = req[s].user] /\ live' = live \cup {j} /\ j \notin Issued
  BY DEF IssuePair, NewIdentifier
<1>3. Issued' = Issued \cup {j}
  BY <1>1, <1>2, ConstantsAssumption DEF Issued, SessionInv, TypeOK
<1>4. Rows[j] = "unissued"
  BY <1>2 DEF Rows, SessionInv, TypeOK
<1>5. Rows' = [Rows EXCEPT ![j] = "live"]
  BY <1>2, <1>3 DEF Rows
<1>6. Ledger!IssueToken(j, req[s].user)
  BY <1>2, <1>4, <1>5 DEF Ledger!IssueToken, Rows
<1>7. QED
  BY <1>1, <1>6 DEF Ledger!IssueToken

LEMMA LedgerStep == SessionInv /\ [Next]_vars => [Ledger!LedgerNext]_(Ledger!ledgerVars)
<1> SUFFICES ASSUME SessionInv, [Next]_vars PROVE [Ledger!LedgerNext]_(Ledger!ledgerVars)
    OBVIOUS
<1>1. ASSUME UNCHANGED <<live, owner>> PROVE UNCHANGED Ledger!ledgerVars
  BY <1>1 DEF Ledger!ledgerVars, Rows, Issued
<1>2. ASSUME NEW s \in Slot, RefreshDelete(s) \/ LogoutRevoke(s)
      PROVE  Ledger!LedgerNext \/ UNCHANGED Ledger!ledgerVars
  <2>1. req[s].token.jti \in Jti /\ live' = RowsWithout(req[s].token.jti) /\ UNCHANGED owner
    BY <1>2 DEF RefreshDelete, LogoutRevoke, SessionInv, PresentsToken, TypeOK, Issued
  <2>2. QED
    BY <1>1, <2>1, DeleteRetires DEF Ledger!LedgerNext
<1>3. ASSUME NEW s \in Slot, NEW j \in Jti, IssuePair(s, j)
      PROVE  Ledger!LedgerNext
  BY <1>3, IssueIssues DEF Ledger!LedgerNext
<1>4. ASSUME NEW s \in Slot, Arrive(s) \/ RegisterInsert(s) \/ Deliver(s) \/ Crash(s)
      PROVE  UNCHANGED <<live, owner>>
  BY <1>4
     DEF Arrive, RegisterSelect, LoginSelect, RefreshSelect, LogoutSelect, RegisterInsert,
         Deliver, Crash
<1>5. ASSUME NEW j \in Jti, AgePair(j) PROVE UNCHANGED <<live, owner>>
  BY <1>5 DEF AgePair
<1>6. CASE UNCHANGED vars
  BY <1>1, <1>6 DEF vars
<1>7. QED
  BY <1>1, <1>2, <1>3, <1>4, <1>5, <1>6 DEF Next, Proceed

\* No interleaving or crash of handlers takes the tables through a step the
\* ledger does not have: tokens do not come back and do not change hands.
THEOREM SessionsImplementLedger == Spec => ImplementsLedger
<1>1. Init => Ledger!LedgerInit
  BY DEF Init, Ledger!LedgerInit, Rows, Issued
<1>2. QED
  BY <1>1, LedgerStep, SessionInvariant, PTL DEF Spec, ImplementsLedger, Ledger!LedgerSpec

\* A row leaves the table only through a request that presented its token.
THEOREM NoForeignRevocation == Spec => OnlyPresentedTokensDie
<1> DEFINE Presented ==
      \A j \in live \ live' :
         \E s \in Slot : /\ req[s].at \in {"delete", "revoke"}
                        /\ req[s].token = [kind |-> "refresh", jti |-> j]
<1>1. SessionInv /\ [Next]_vars => [Presented]_vars
  <2> SUFFICES ASSUME SessionInv, Next PROVE Presented
      OBVIOUS
  <2>1. ASSUME NEW s \in Slot, RefreshDelete(s) \/ LogoutRevoke(s) PROVE Presented
    <3>1. live' = RowsWithout(req[s].token.jti) /\ req[s].at \in {"delete", "revoke"}
      BY <2>1 DEF RefreshDelete, LogoutRevoke
    <3>2. req[s].token \in Credential /\ req[s].token.kind = "refresh"
      BY <3>1 DEF SessionInv, PresentsToken, TypeOK, Request
    <3>3. req[s].token = [kind |-> "refresh", jti |-> req[s].token.jti]
      BY <3>2 DEF Credential
    <3>4. QED
      BY <3>1, <3>3 DEF RowsWithout
  <2>2. ASSUME NEW s \in Slot, NEW j \in Jti, IssuePair(s, j) PROVE Presented
    BY <2>2 DEF IssuePair
  <2>3. ASSUME NEW s \in Slot, Arrive(s) \/ RegisterInsert(s) \/ Deliver(s) \/ Crash(s)
        PROVE  Presented
    BY <2>3
       DEF Arrive, RegisterSelect, LoginSelect, RefreshSelect, LogoutSelect, RegisterInsert,
           Deliver, Crash
  <2>4. ASSUME NEW j \in Jti, AgePair(j) PROVE Presented
    BY <2>4 DEF AgePair
  <2>5. QED
    BY <2>1, <2>2, <2>3, <2>4 DEF Next, Proceed
<1>2. QED
  BY <1>1, SessionInvariant, PTL DEF Spec, OnlyPresentedTokensDie
=============================================================================
