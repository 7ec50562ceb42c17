--------------------------- MODULE DashboardProofs ---------------------------
(***************************************************************************)
(* Theorems about Dashboard for every number of users, pairs, calls in     *)
(* flight and faults.  The page is one client of Sessions: each of its     *)
(* steps is a step of Sessions or leaves the server alone, so what         *)
(* SessionsProofs shows of the server's steps holds here too.              *)
(***************************************************************************)
EXTENDS Dashboard, SessionsProofs

-----------------------------------------------------------------------------
(* What each step does to the calls of the page, field by field. *)

\* Only call s changes, and call stays well typed.
CallChanges(s) ==
    /\ call' \in [Slot -> PageCall]
    /\ \A t \in Slot \ {s} : call'[t] = call[t]

CallIs(s, script, stage, verdict) ==
    /\ CallChanges(s)
    /\ call'[s].script = script
    /\ call'[s].stage = stage
    /\ call'[s].verdict = verdict
    /\ call'[s].overtaken = FALSE

LEMMA NoCallFields ==
    /\ NoCall \in PageCall
    /\ NoCall.script = "none" /\ NoCall.stage = "first" /\ NoCall.verdict = "none"
    /\ NoCall.overtaken = FALSE
BY DEF NoCall, PageCall

LEMMA CallOfFields ==
    ASSUME NEW k \in Load \cup {"login", "logout", "gone"}
    PROVE  /\ CallOf(k) \in PageCall
           /\ CallOf(k).script = k /\ CallOf(k).stage = "first" /\ CallOf(k).verdict = "none"
           /\ CallOf(k).overtaken = FALSE
BY DEF CallOf, NoCall, PageCall

LEMMA CallsEffect ==
    ASSUME call \in [Slot -> PageCall], NEW s \in Slot, NEW c \in PageCall, Calls(s, c)
    PROVE  CallChanges(s) /\ call'[s] = c
BY DEF Calls, CallChanges

LEMMA EndsEffect ==
    ASSUME call \in [Slot -> PageCall], NEW s \in Slot, Ends(s)
    PROVE  CallIs(s, "none", "first", "none")
BY NoCallFields, CallsEffect DEF Ends, CallIs

LEMMA BeginsEffect ==
    ASSUME call \in [Slot -> PageCall], NEW s \in Slot,
           NEW k \in Load \cup {"login", "logout"}, Calls(s, CallOf(k))
    PROVE  CallIs(s, k, "first", "none")
<1>1. CallChanges(s) /\ call'[s] = CallOf(k)
  BY CallOfFields, CallsEffect
<1>2. QED
  BY <1>1, CallOfFields DEF CallIs

LEMMA SendFirstEffect ==
    ASSUME call \in [Slot -> PageCall], NEW s \in Slot, NEW k \in Load, SendFirst(s, k)
    PROVE  CallIs(s, k, "first", AccessCheck)
<1> DEFINE c == [CallOf(k) EXCEPT !.verdict = AccessCheck]
<1>1. AccessCheck \in {"ok", "refused"}
  BY DEF AccessCheck
<1>2. /\ c \in PageCall /\ c.script = k /\ c.stage = "first" /\ c.verdict = AccessCheck
      /\ c.overtaken = FALSE
  BY <1>1 DEF CallOf, NoCall, PageCall
<1>3. Calls(s, c)
  BY DEF SendFirst
<1> HIDE DEF c
<1>4. QED
  BY <1>2, <1>3, CallsEffect DEF CallIs

\* Call s moves to a later stage of its api().
LEMMA StageEffect ==
    ASSUME call \in [Slot -> PageCall], NEW s \in Slot, call[s].script \in Load,
           NEW st \in {"refresh", "second"},
           Calls(s, [CallOf(call[s].script) EXCEPT !.stage = st])
    PROVE  CallIs(s, call[s].script, st, "none")
<1> DEFINE c == [CallOf(call[s].script) EXCEPT !.stage = st]
<1>1. /\ c \in PageCall /\ c.script = call[s].script /\ c.stage = st /\ c.verdict = "none"
      /\ c.overtaken = FALSE
  BY DEF CallOf, NoCall, PageCall
<1>2. Calls(s, c)
  OBVIOUS
<1> HIDE DEF c
<1>3. QED
  BY <1>1, <1>2, CallsEffect DEF CallIs

LEMMA SendSecondEffect ==
    ASSUME call \in [Slot -> PageCall], NEW s \in Slot, SendSecond(s)
    PROVE  /\ CallChanges(s)
           /\ call'[s].script = call[s].script /\ call'[s].stage = call[s].stage
           /\ call'[s].verdict = AccessCheck
<1> DEFINE c == [call[s] EXCEPT !.verdict = AccessCheck]
<1>1. AccessCheck \in {"ok", "refused"}
  BY DEF AccessCheck
<1>2. /\ c \in PageCall /\ c.script = call[s].script /\ c.stage = call[s].stage
      /\ c.verdict = AccessCheck
  BY <1>1 DEF PageCall
<1>3. Calls(s, c)
  BY DEF SendSecond
<1> HIDE DEF c
<1>4. QED
  BY <1>2, <1>3, CallsEffect

\* The other calls that were in flight are marked, and nothing else changes.
LEMMA OvertakesEffect ==
    ASSUME call \in [Slot -> PageCall], NEW s \in Slot, EndsAndOvertakes(s)
    PROVE  /\ call' \in [Slot -> PageCall]
           /\ call'[s] = NoCall
           /\ \A t \in Slot \ {s} :
                  /\ call'[t].script = call[t].script
                  /\ call'[t].stage = call[t].stage
                  /\ call'[t].verdict = call[t].verdict
                  /\ call[t].script \in Load => call'[t].overtaken = TRUE
<1>1. ASSUME NEW t \in Slot
      PROVE  LET c == [call[t] EXCEPT !.overtaken = call[t] # NoCall]
             IN  /\ c \in PageCall /\ c.script = call[t].script /\ c.stage = call[t].stage
                 /\ c.verdict = call[t].verdict
                 /\ call[t].script \in Load => c.overtaken = TRUE
  BY NoCallFields DEF PageCall, Load
<1>2. QED
  BY <1>1, NoCallFields DEF EndsAndOvertakes

LEMMA ReloadEffect ==
    ASSUME call \in [Slot -> PageCall], Reload
    PROVE  /\ call' \in [Slot -> PageCall]
           /\ \A s \in Slot : /\ call'[s].script = IF req[s].at = "idle" THEN "none" ELSE "gone"
                             /\ call'[s].stage = "first" /\ call'[s].verdict = "none"
                             /\ call'[s].overtaken = FALSE
BY NoCallFields, CallOfFields DEF Reload

-----------------------------------------------------------------------------
(* The page is a client of Sessions. *)

LEMMA CookiePresentable ==
    ASSUME PageTypeOK, NEW kind \in {"access", "refresh"}
    PROVE  Cookie(kind) \in Presentable
BY DEF PageTypeOK, Cookie, Presentable, NoCredential

\* A step of the page is a step of the server for the requests it sends.
LEMMA PageStepIsSessionStep == PageTypeOK /\ [PageNext]_allVars => [Next]_vars
<1> SUFFICES ASSUME PageTypeOK, [PageNext]_allVars PROVE [Next]_vars
    OBVIOUS
<1>1. ASSUME NEW s \in Slot, Api(s) PROVE [Next]_vars
  <2>1. CASE FirstRefused(s)
    BY <2>1, CookiePresentable DEF FirstRefused, Next, Arrive
  <2>2. CASE RefreshArrives(s) \/ RefreshRefused(s)
    BY <2>2 DEF RefreshArrives, RefreshRefused, Next, Proceed
  <2>3. QED
    BY <1>1, <2>1, <2>2 DEF Api, SendFirst, SendSecond, DataArrives, SecondRefused
<1>2. ASSUME NEW s \in Slot, SignInAndOut(s) PROVE [Next]_vars
  <2>1. ASSUME NEW u \in User, NEW p \in Password, SubmitLogin(s, u, p) PROVE Next
    BY <2>1 DEF SubmitLogin, Next, Arrive
  <2>2. CASE ClickLogout(s)
    BY <2>2, CookiePresentable DEF ClickLogout, Next, Arrive
  <2>3. CASE LoginArrives(s) \/ LoginRefused(s) \/ LogoutArrives(s)
    BY <2>3 DEF LoginArrives, LoginRefused, LogoutArrives, Next, Proceed
  <2>4. QED
    BY <1>2, <2>1, <2>2, <2>3 DEF SignInAndOut
<1>3. ASSUME NEW s \in Slot, ServerStep(s) PROVE [Next]_vars
  BY <1>3 DEF ServerStep, Next, Proceed
<1>4. ASSUME NEW s \in Slot, AnswerDropped(s) \/ Dies(s) PROVE [Next]_vars
  BY <1>4 DEF AnswerDropped, Dies, RequestDies, DataDies, RefreshLimited, Next
<1>5. CASE ClickFilter \/ Reload
  BY <1>5 DEF ClickFilter, Reload
<1>6. CASE CookiesAge
  <2>1. jar \in Jti
    BY <1>6 DEF CookiesAge, AgePair, Issued
  <2>2. QED
    BY <1>6, <2>1 DEF CookiesAge, Next
<1>7. CASE UNCHANGED allVars
  BY <1>7 DEF allVars, vars
<1>8. QED
  BY <1>1, <1>2, <1>3, <1>4, <1>5, <1>6, <1>7 DEF PageNext

-----------------------------------------------------------------------------
(* What the requests of any client keep, beyond SessionInv. *)

\* An answer "ok" to a login or a refresh brings a pair.
AnswersHavePairs ==
    \A s \in Slot :
        req[s].op \in {"login", "refresh"} /\ req[s].answer = "ok" => req[s].new # NoJti

\* Refreshes and logouts present a token some client received.
TokensAreHeld ==
    \A s \in Slot : req[s].op \in {"refresh", "logout"} => req[s].token.jti \in held

\* A new pair belongs to the user of its request, and the pair of a refresh to
\* whoever the presented token belongs to.
PairsOfUser ==
    \A s \in Slot :
        req[s].new # NoJti =>
            /\ owner[req[s].new] = req[s].user
            /\ req[s].op = "refresh" => req[s].user = owner[req[s].token.jti]

\* An idle handler is at no operation.
IdleHasNoOperation == \A s \in Slot : req[s].at = "idle" => req[s].op = "none"

RequestInv == AnswersHavePairs /\ TokensAreHeld /\ PairsOfUser /\ IdleHasNoOperation

LEMMA RequestInvStep == SessionInv /\ RequestInv /\ [Next]_vars => RequestInv'
<1> SUFFICES ASSUME SessionInv, RequestInv, [Next]_vars PROVE RequestInv'
    OBVIOUS
<1> USE ConstantsAssumption
    DEF RequestInv, AnswersHavePairs, TokensAreHeld, PairsOfUser, IdleHasNoOperation
<1>a. /\ TypeOK /\ StepTellsOperation /\ PresentsToken /\ NewPairIsPrivate
  BY DEF SessionInv
<1>1. ASSUME NEW s \in Slot, NEW u \in User, NEW p \in Password, RegisterSelect(s, u, p)
      PROVE  RequestInv'
  BY <1>1, <1>a, RegisterSelectEffect DEF Opens, Serves, Blank, tables
<1>2. ASSUME NEW s \in Slot, NEW u \in User, NEW p \in Password, LoginSelect(s, u, p)
      PROVE  RequestInv'
  BY <1>2, <1>a, LoginSelectEffect DEF Opens, Serves, Blank, tables
<1>3. ASSUME NEW s \in Slot, NEW c \in Presentable, RefreshSelect(s, c)
      PROVE  RequestInv'
  BY <1>3, <1>a, RefreshSelectEffect, PresentableIsCredential
     DEF RotationOpens, ReuseAnswered, Opens, Serves, Blank, tables
<1>4. ASSUME NEW s \in Slot, NEW a \in Presentable, NEW c \in Presentable, LogoutSelect(s, a, c)
      PROVE  RequestInv'
  BY <1>4, <1>a, LogoutSelectEffect, PresentableIsCredential DEF Opens, Serves, Blank, tables
<1>5. ASSUME NEW s \in Slot, RegisterInsert(s) PROVE RequestInv'
  BY <1>5, <1>a, AdvanceEffect, AnswerEffect DEF RegisterInsert, Serves, Keeps
<1>6. ASSUME NEW s \in Slot, RefreshDelete(s) PROVE RequestInv'
  BY <1>6, <1>a, AdvanceEffect DEF RefreshDelete, Serves, Keeps
<1>7. ASSUME NEW s \in Slot, NEW j \in Jti, IssuePair(s, j) PROVE RequestInv'
  <2>1. /\ Serves(s) /\ Keeps(s) /\ req[s].at = "issue" /\ req'[s].new = j
        /\ req'[s].answer = "ok"
    BY <1>7, <1>a, IssuePairEffect
  <2>2. /\ owner'[j] = req[s].user /\ j \notin Issued /\ UNCHANGED held
        /\ \A k \in Jti \ {j} : owner'[k] = owner[k]
    BY <1>7, <1>a DEF IssuePair, NewIdentifier, TypeOK
  <2>3. AnswersHavePairs' /\ TokensAreHeld' /\ IdleHasNoOperation'
    BY <1>7, <1>a, <2>1, <2>2, IssuePairEffect DEF Serves, Keeps
  <2>4. ASSUME NEW t \in Slot, req'[t].new # NoJti
        PROVE  /\ owner'[req'[t].new] = req'[t].user
               /\ req'[t].op = "refresh" => req'[t].user = owner'[req'[t].token.jti]
    <3>1. \A k \in Issued : k \in Jti /\ owner'[k] = owner[k]
      BY <2>2 DEF Issued
    <3>2. CASE t = s
      BY <1>a, <2>1, <2>2, <3>1, <3>2 DEF Keeps, PresentsToken, TypeOK
    <3>3. CASE t # s
      <4>1. req'[t] = req[t] /\ req[t].new \in Issued
        BY <1>a, <2>1, <2>4, <3>3 DEF Serves, NewPairIsPrivate, TypeOK
      <4>2. req[t].op = "refresh" => req[t].token.jti \in Issued
        BY <1>a DEF TypeOK
      <4>3. QED
        BY <2>4, <3>1, <4>1, <4>2
    <3>4. QED
      BY <3>2, <3>3
  <2>5. QED
    BY <2>3, <2>4
<1>8. ASSUME NEW s \in Slot, LogoutRevoke(s) PROVE RequestInv'
  BY <1>8, <1>a, AnswerEffect DEF LogoutRevoke, Serves, Keeps
<1>9. ASSUME NEW s \in Slot, Deliver(s) PROVE RequestInv'
  BY <1>9, <1>a, IdleEffect DEF Deliver, Serves, Blank
<1>10. ASSUME NEW s \in Slot, Crash(s) PROVE RequestInv'
  BY <1>10, <1>a, IdleEffect DEF Crash, Serves, Blank
<1>11. ASSUME NEW j \in Jti, AgePair(j) PROVE RequestInv'
  BY <1>11 DEF AgePair
<1>12. CASE UNCHANGED vars
  BY <1>12 DEF vars
<1>13. QED
  BY <1>1, <1>2, <1>3, <1>4, <1>5, <1>6, <1>7, <1>8, <1>9, <1>10, <1>11, <1>12
     DEF Next, Arrive, Proceed

-----------------------------------------------------------------------------
(* The page's calls and the requests they make. *)

\* Which request a script has in flight, and what its answer can be.
ScriptTellsOperation ==
    \A s \in Slot :
        /\ call[s].script = "none" => req[s].at = "idle"
        /\ call[s].script \in Load =>
               /\ req[s].op \in {"none", "refresh"}
               /\ req[s].at # "idle" => call[s].stage = "refresh"
               /\ req[s].at = "answer" /\ req[s].answer = "ok" => req[s].op = "refresh"
        /\ call[s].stage = "refresh" => call[s].verdict = "none"
        /\ call[s].script \notin Load => call[s].stage = "first" /\ call[s].verdict = "none"
        /\ call[s].script = "login" =>
               /\ req[s].op \in {"none", "login"}
               /\ req[s].at = "answer" /\ req[s].answer = "ok" => req[s].op = "login"
        /\ call[s].script = "logout" => req[s].op \in {"none", "logout"}

PageShape == PageTypeOK /\ ScriptTellsOperation

LEMMA PageShapeInit == PageInit => PageShape
<1> SUFFICES ASSUME PageInit PROVE PageShape
    OBVIOUS
<1>1. due \in [Load -> Nat]
  BY DEF PageInit, NothingDue, Load
<1>2. \A s \in Slot : call[s] = NoCall /\ req[s] = Idle
  BY DEF PageInit
<1>3. ScriptTellsOperation
  BY <1>2, IdleIsRequest, NoCallFields DEF ScriptTellsOperation, Load
<1>4. call \in [Slot -> PageCall]
  BY NoCallFields DEF PageInit
<1>5. stray \in BOOLEAN /\ lost \in BOOLEAN
  BY DEF PageInit
<1>6. jar \in held \cup {NoJti} /\ screen \in {"login", "dashboard"}
  BY DEF PageInit
<1>7. faults \in 0..MaxFaults /\ who \in User \cup {NoUser}
  BY DashboardAssumption DEF PageInit
<1>8. PageTypeOK
  BY <1>1, <1>2, <1>4, <1>5, <1>6, <1>7, IdleIsRequest DEF PageTypeOK
<1>9. QED
  BY <1>3, <1>8 DEF PageShape

\* The page's refresh is answered at once, or presents the token in the cookies.
LEMMA PageRefreshEffect ==
    ASSUME TypeOK, PageTypeOK, NEW s \in Slot, RefreshSelect(s, Cookie("refresh"))
    PROVE  /\ Serves(s) /\ req[s].at = "idle" /\ UNCHANGED tables
           /\ req'[s].op \in {"none", "refresh"}
           /\ req'[s].answer = "ok" => req'[s].op = "refresh"
           /\ req'[s].at # "issue" /\ (req'[s].op = "refresh" => req'[s].answer # "ok")
           /\ req'[s].op = "refresh" => jar # NoJti /\ req'[s].token.jti = jar
<1>1. Cookie("refresh") \in Presentable
  BY CookiePresentable
<1>2. Cookie("refresh") # NoCredential => jar # NoJti /\ Cookie("refresh").jti = jar
  BY DEF Cookie
<1>3. Cookie("refresh").kind = "refresh" => Cookie("refresh") # NoCredential
  BY DEF NoCredential
<1>4. QED
  BY <1>1, <1>2, <1>3, RefreshSelectEffect DEF RotationOpens, ReuseAnswered, Opens, Blank

\* The server's own steps keep the token and the operation.
LEMMA ServerStepEffect ==
    ASSUME SessionInv, NEW s \in Slot, ServerStep(s)
    PROVE  /\ Serves(s) /\ Keeps(s) /\ req[s].at \notin {"idle", "answer"}
           /\ UNCHANGED <<held, pageVars>>
           /\ req'[s].at \in {"issue", "answer"}
           /\ req[s].op # "none"
<1>a. TypeOK /\ StepTellsOperation
  BY DEF SessionInv
<1>1. CASE RefreshDelete(s)
  BY <1>1, <1>a, AdvanceEffect DEF RefreshDelete, ServerStep
<1>2. CASE LogoutRevoke(s)
  BY <1>2, <1>a, AnswerEffect DEF LogoutRevoke, ServerStep
<1>3. CASE \E j \in Jti : IssuePair(s, j)
  BY <1>3, <1>a, IssuePairEffect DEF IssuePair, StepTellsOperation, ServerStep
<1>4. QED
  BY <1>1, <1>2, <1>3 DEF ServerStep

LEMMA DueAfterEffect ==
    ASSUME due \in [Load -> Nat], NEW k \in Load
    PROVE  /\ DueAfter(k) \in [Load -> Nat]
           /\ DueAfter(k)["summary"] = due["summary"] + (IF k = "me" THEN 1 ELSE 0)
BY DashboardAssumption DEF DueAfter, Load

LEMMA PageShapeStep == SessionInv /\ RequestInv /\ PageShape /\ [PageNext]_allVars => PageShape'
<1> SUFFICES ASSUME SessionInv, RequestInv, PageShape, [PageNext]_allVars PROVE PageShape'
    OBVIOUS
<1> USE DEF PageShape
<1>a. /\ TypeOK /\ call \in [Slot -> PageCall] /\ due \in [Load -> Nat]
      /\ faults \in 0..MaxFaults /\ MaxFaults \in Nat
  BY DashboardAssumption DEF SessionInv, PageTypeOK
<1>b. ScriptTellsOperation /\ PageTypeOK /\ IdleHasNoOperation
  BY DEF RequestInv
<1> USE DEF CallIs, CallChanges
<1>1. ASSUME NEW s \in Slot, NEW k \in Load, SendFirst(s, k) PROVE PageShape'
  <2>1. CallIs(s, k, "first", AccessCheck) /\ UNCHANGED vars /\ req[s].at = "idle"
    BY <1>1, <1>a, SendFirstEffect DEF SendFirst, Free
  <2>0. due' \in [Load -> Nat]
    BY <1>1, <1>a DEF SendFirst
  <2>2. ScriptTellsOperation'
    BY <1>b, <2>1 DEF ScriptTellsOperation, IdleHasNoOperation, Load, vars
  <2>3. PageTypeOK'
    BY <1>1, <1>b, <2>0, <2>1, NoCallFields DEF SendFirst, PageTypeOK, vars, Load
  <2>4. QED
    BY <2>2, <2>3
<1>2. ASSUME NEW s \in Slot, FirstRefused(s) PROVE PageShape'
  <2>1. CallIs(s, call[s].script, "refresh", "none") /\ call[s].script \in Load
        /\ RefreshSelect(s, Cookie("refresh"))
    BY <1>2, <1>a, StageEffect DEF FirstRefused, DataAnswer
  <2>2. /\ Serves(s)
        /\ req'[s].op \in {"none", "refresh"}
        /\ req'[s].answer = "ok" => req'[s].op = "refresh"
        /\ UNCHANGED tables
    BY <2>1, <1>a, <1>b, PageRefreshEffect
  <2>3. ScriptTellsOperation'
    BY <1>b, <2>1, <2>2 DEF ScriptTellsOperation, Serves, Load
  <2>4. PageTypeOK'
    BY <1>2, <1>b, <2>1, <2>2, NoCallFields DEF FirstRefused, PageTypeOK, Serves, tables, Load
  <2>5. QED
    BY <2>3, <2>4
<1>3. ASSUME NEW s \in Slot, RefreshArrives(s) PROVE PageShape'
  <2>1. CallIs(s, call[s].script, "second", "none") /\ call[s].script \in Load
    BY <1>3, <1>a, StageEffect DEF RefreshArrives, Answered
  <2>2. Serves(s) /\ Blank(s) /\ req'[s].at = "idle" /\ req'[s].answer = "none"
    BY <1>3, <1>a, IdleEffect DEF RefreshArrives, Deliver
  <2>3. ScriptTellsOperation'
    BY <1>b, <2>1, <2>2 DEF ScriptTellsOperation, Serves, Blank
  <2>4. jar' \in held' \cup {NoJti}
    BY <1>3 DEF RefreshArrives, Deliver, CookiesAfter
  <2>5. stray' \in BOOLEAN /\ lost' \in BOOLEAN
    BY <1>3 DEF RefreshArrives
  <2>6. PageTypeOK'
    BY <1>3, <1>b, <2>1, <2>2, <2>4, <2>5, NoCallFields
       DEF RefreshArrives, PageTypeOK, Serves, Load
  <2>7. QED
    BY <2>3, <2>6
\* The answers of which the page takes no new cookies.
<1>4. ASSUME NEW s \in Slot, Deliver(s) \/ Crash(s), Ends(s), UNCHANGED <<due, who, stray>>,
             jar' \in {jar, NoJti}, screen' \in {"login", "dashboard"}, lost' \in BOOLEAN,
             faults' \in 0..MaxFaults
      PROVE  PageShape'
  <2>1. CallIs(s, "none", "first", "none")
    BY <1>4, <1>a, EndsEffect
  <2>2. /\ Serves(s) /\ Blank(s) /\ req'[s].at = "idle" /\ req'[s].answer = "none"
        /\ held \subseteq held'
    BY <1>4, <1>a, IdleEffect DEF Deliver, Crash
  <2>3. ScriptTellsOperation'
    BY <1>b, <2>1, <2>2 DEF ScriptTellsOperation, Serves, Blank, Load
  <2>4. PageTypeOK'
    BY <1>4, <1>b, <2>1, <2>2 DEF PageTypeOK, Serves
  <2>5. QED
    BY <2>3, <2>4
<1>5. ASSUME NEW s \in Slot, RefreshRefused(s) \/ LoginRefused(s) \/ AnswerDropped(s)
      PROVE  PageShape'
  BY <1>4, <1>5, <1>b DEF RefreshRefused, LoginRefused, AnswerDropped, PageTypeOK
<1>6. ASSUME NEW s \in Slot, RequestDies(s) PROVE PageShape'
  <2>1. lost' \in BOOLEAN
    BY <1>6 DEF RequestDies
  <2>2. faults' \in 0..MaxFaults /\ screen' \in {"login", "dashboard"}
    BY <1>6, <1>a, <1>b DEF RequestDies, Fault, ScreenAfterFailure, PageTypeOK
  <2>3. QED
    BY <1>4, <1>6, <2>1, <2>2 DEF RequestDies
<1>7. ASSUME NEW s \in Slot, SendSecond(s) PROVE PageShape'
  <2>1. /\ CallChanges(s) /\ call'[s].script = call[s].script /\ call'[s].stage = "second"
        /\ call[s].script \in Load /\ UNCHANGED vars
    BY <1>7, <1>a, SendSecondEffect DEF SendSecond, DataAnswer
  <2>2. ScriptTellsOperation'
    BY <1>b, <2>1, <1>7 DEF ScriptTellsOperation, vars, SendSecond, DataAnswer
  <2>3. PageTypeOK'
    BY <1>7, <1>b, <2>1, NoCallFields DEF SendSecond, PageTypeOK, vars, Load
  <2>4. QED
    BY <2>2, <2>3
\* A data request ends.
<1>8. ASSUME NEW s \in Slot, UNCHANGED <<vars, jar, who, stray, lost>>, Ends(s),
             call[s].verdict # "none", due' \in [Load -> Nat], faults' \in 0..MaxFaults,
             screen' \in {"login", "dashboard"}
      PROVE  PageShape'
  <2>1. CallIs(s, "none", "first", "none") /\ req[s].at = "idle"
    BY <1>8, <1>a, <1>b, EndsEffect DEF ScriptTellsOperation
  <2>2. ScriptTellsOperation'
    BY <1>8, <1>b, <2>1 DEF ScriptTellsOperation, vars, Load
  <2>3. PageTypeOK'
    BY <1>8, <1>b, <2>1 DEF PageTypeOK, vars
  <2>4. QED
    BY <2>2, <2>3
<1>9. ASSUME NEW s \in Slot, DataArrives(s) PROVE PageShape'
  BY <1>8, <1>9, <1>a, <1>b, DueAfterEffect DEF DataArrives, DataAnswer, PageTypeOK
<1>10. ASSUME NEW s \in Slot, SecondRefused(s) PROVE PageShape'
  BY <1>8, <1>10, <1>a, <1>b DEF SecondRefused, DataAnswer, ScreenAfterFailure, PageTypeOK
<1>11. ASSUME NEW s \in Slot, DataDies(s) \/ RefreshLimited(s) PROVE PageShape'
  BY <1>8, <1>11, <1>a, <1>b
     DEF DataDies, RefreshLimited, DataAnswer, Fault, ScreenAfterFailure, PageTypeOK
<1>12. ASSUME NEW s \in Slot, NEW u \in User, NEW p \in Password, SubmitLogin(s, u, p)
       PROVE  PageShape'
  <2>1. CallIs(s, "login", "first", "none")
    BY <1>12, <1>a, BeginsEffect DEF SubmitLogin
  <2>2. /\ Serves(s)
        /\ req'[s].op \in {"none", "login"}
        /\ req'[s].at = "answer" /\ req'[s].answer = "ok" => req'[s].op = "login"
        /\ UNCHANGED tables
    BY <1>12, <1>a, LoginSelectEffect DEF SubmitLogin, Opens, Blank
  <2>3. ScriptTellsOperation'
    BY <1>b, <2>1, <2>2 DEF ScriptTellsOperation, Serves, Load
  <2>4. PageTypeOK'
    BY <1>12, <1>b, <2>1, <2>2, NoCallFields DEF SubmitLogin, PageTypeOK, Serves, tables
  <2>5. QED
    BY <2>3, <2>4
<1>13. ASSUME NEW s \in Slot, ClickLogout(s) PROVE PageShape'
  <2>1. CallIs(s, "logout", "first", "none")
    BY <1>13, <1>a, BeginsEffect DEF ClickLogout
  <2>2. Serves(s) /\ req'[s].op \in {"none", "logout"} /\ UNCHANGED tables
    BY <1>13, <1>a, <1>b, CookiePresentable, LogoutSelectEffect DEF ClickLogout, Opens, Blank
  <2>3. ScriptTellsOperation'
    BY <1>b, <2>1, <2>2 DEF ScriptTellsOperation, Serves, Load
  <2>4. PageTypeOK'
    BY <1>13, <1>b, <2>1, <2>2, NoCallFields DEF ClickLogout, PageTypeOK, Serves, tables
  <2>5. QED
    BY <2>3, <2>4
\* The answers that change the cookies for all calls.
<1>14. ASSUME NEW s \in Slot, Deliver(s), EndsAndOvertakes(s), jar' \in held' \cup {NoJti},
              who' \in User \cup {NoUser}, stray' \in BOOLEAN, lost' \in BOOLEAN,
              screen' \in {"login", "dashboard"}, due' \in [Load -> Nat], UNCHANGED faults
       PROVE  PageShape'
  <2>1. /\ call' \in [Slot -> PageCall] /\ call'[s] = NoCall
        /\ \A t \in Slot \ {s} : /\ call'[t].script = call[t].script
                                /\ call'[t].stage = call[t].stage
                                /\ call'[t].verdict = call[t].verdict
    BY <1>14, <1>a, OvertakesEffect
  <2>2. Serves(s) /\ Blank(s) /\ req'[s].at = "idle" /\ req'[s].answer = "none"
    BY <1>14, <1>a, IdleEffect DEF Deliver
  <2>3. ScriptTellsOperation'
    BY <1>b, <2>1, <2>2, NoCallFields DEF ScriptTellsOperation, Serves, Blank, Load
  <2>4. \A t \in Slot : req'[t].at # "idle" => call'[t] # NoCall
    BY <2>1, <2>2, <2>3, NoCallFields DEF ScriptTellsOperation
  <2>5. PageTypeOK'
    BY <1>14, <1>b, <2>1, <2>4 DEF PageTypeOK
  <2>6. QED
    BY <2>3, <2>5
<1>15. ASSUME NEW s \in Slot, LoginArrives(s) PROVE PageShape'
  <2>1. req[s].op = "login"
    BY <1>15, <1>b DEF LoginArrives, Answered, ScriptTellsOperation
  <2>2. req[s].user \in User
    BY <2>1 DEF SessionInv, KnowsUser
  <2>3. due' \in [Load -> Nat]
    BY <1>15, <1>a, DueAfterEffect DEF LoginArrives, Load
  <2>4. QED
    BY <1>14, <1>15, <2>2, <2>3 DEF LoginArrives, Deliver, CookiesAfter
<1>16. ASSUME NEW s \in Slot, LogoutArrives(s) PROVE PageShape'
  <2>1. CASE req[s].answer = "ok"
    BY <1>14, <1>16, <1>a, <2>1 DEF LogoutArrives, CookiesAfterLogout
  <2>2. CASE req[s].answer # "ok"
    BY <1>4, <1>16, <1>a, <1>b, <2>2 DEF LogoutArrives, PageTypeOK
  <2>3. QED
    BY <2>1, <2>2
<1>17. CASE ClickFilter
  <2>1. due' \in [Load -> Nat] /\ UNCHANGED <<vars, jar, screen, call, faults, who, stray, lost>>
    BY <1>17, <1>a, DueAfterEffect DEF ClickFilter, Load
  <2>2. QED
    BY <1>b, <2>1 DEF PageTypeOK, ScriptTellsOperation, vars
<1>18. CASE Reload
  <2>1. UNCHANGED vars
    BY <1>18 DEF Reload
  <2>2. ScriptTellsOperation'
    BY <1>18, <1>a, <2>1, ReloadEffect DEF ScriptTellsOperation, vars, Load
  <2>3. \A t \in Slot : req'[t].at # "idle" => call'[t] # NoCall
    BY <1>18, <1>a, <2>1, ReloadEffect, NoCallFields DEF vars
  <2>4. due' \in [Load -> Nat] /\ lost' \in BOOLEAN
    BY <1>18 DEF Reload, NothingDue, Load
  <2>5. PageTypeOK'
    BY <1>18, <1>a, <1>b, <2>1, <2>3, <2>4, ReloadEffect DEF Reload, PageTypeOK, vars
  <2>6. QED
    BY <2>2, <2>5
<1>19. ASSUME NEW s \in Slot, ServerStep(s) PROVE PageShape'
  <2>1. /\ Serves(s) /\ Keeps(s) /\ req[s].at # "idle" /\ UNCHANGED held
        /\ req[s].op # "none"
    BY <1>19, ServerStepEffect
  <2>2. UNCHANGED pageVars
    BY <1>19, ServerStepEffect
  <2>3. ScriptTellsOperation'
    BY <1>b, <2>1, <2>2 DEF ScriptTellsOperation, Serves, Keeps, pageVars
  <2>4. PageTypeOK'
    BY <1>b, <2>1, <2>2 DEF PageTypeOK, Serves, pageVars
  <2>5. QED
    BY <2>3, <2>4
<1>20. CASE CookiesAge
  BY <1>20, <1>b DEF CookiesAge, AgePair, pageVars, PageTypeOK, ScriptTellsOperation
<1>21. CASE UNCHANGED allVars
  BY <1>21, <1>b DEF allVars, vars, pageVars, PageTypeOK, ScriptTellsOperation
<1>22. QED
  BY <1>1, <1>2, <1>3, <1>5, <1>6, <1>7, <1>9, <1>10, <1>11, <1>12, <1>13, <1>15, <1>16, <1>17,
     <1>18, <1>19, <1>20, <1>21
     DEF PageNext, Api, SignInAndOut, Dies

\* The page's calls, cookies and screens keep their shape whatever the user
\* clicks, the server answers and the network loses.
THEOREM PageTypeCorrect == PageSpec => [](SessionInv /\ RequestInv /\ PageShape)
<1>1. PageInit => SessionInv /\ RequestInv /\ PageShape
  <2>1. PageInit => SessionInv
    BY IdleIsRequest, ConstantsAssumption
       DEF PageInit, SessionInv, TypeOK, StepTellsOperation, KnowsUser, PresentsToken,
           NewPairIsPrivate, Issued
  <2>2. PageInit => RequestInv
    BY IdleIsRequest
       DEF PageInit, RequestInv, AnswersHavePairs, TokensAreHeld, PairsOfUser, IdleHasNoOperation
  <2>3. QED
    BY <2>1, <2>2, PageShapeInit
<1>2. SessionInv /\ RequestInv /\ PageShape /\ [PageNext]_allVars
        => (SessionInv /\ RequestInv /\ PageShape)'
  BY PageStepIsSessionStep, SessionInvStep, RequestInvStep, PageShapeStep DEF PageShape
<1>3. QED
  BY <1>1, <1>2, PTL DEF PageSpec

\* The page only does what a client of the session API can do: each of its steps
\* is one of Sessions or leaves the server alone.
THEOREM PageRunsSessions == PageSpec => [][Next]_vars
<1>1. PageShape => PageTypeOK
  BY DEF PageShape
<1>2. QED
  BY <1>1, PageTypeCorrect, PageStepIsSessionStep, PTL DEF PageSpec

\* With the page as the client the table still implements the ledger of tokens.
THEOREM PageImplementsLedger == PageSpec => ImplementsLedger
<1>1. PageInit => Ledger!LedgerInit
  BY DEF PageInit, Ledger!LedgerInit, Rows, Issued
<1>2. QED
  BY <1>1, LedgerStep, PageTypeCorrect, PageRunsSessions, PTL
     DEF PageSpec, ImplementsLedger, Ledger!LedgerSpec

-----------------------------------------------------------------------------
(* Cookies that work. *)

\* Request s took the row of the cookies away and its answer will replace them.
Awaited(s) ==
    /\ call[s].script # "gone"
    /\ SpendsCookies(s)
    /\ \/ req[s].op = "refresh" /\ (req[s].at = "issue" \/ req[s].answer = "ok")
       \/ req[s].op = "logout" /\ req[s].answer = "ok"

SpentIsAwaited == jar # NoJti /\ jar \notin live => lost \/ \E s \in Slot : Awaited(s)

\* What a reload leaves behind may still take the row away, and is known to be lost.
ForgottenIsLost == \A s \in Slot : call[s].script = "gone" /\ SpendsCookies(s) => lost

CookieInv == SpentIsAwaited /\ ForgottenIsLost

LEMMA CookieInvStep ==
    SessionInv /\ RequestInv /\ PageShape /\ CookieInv /\ [PageNext]_allVars => CookieInv'
<1> SUFFICES ASSUME SessionInv, RequestInv, PageShape, CookieInv, [PageNext]_allVars
             PROVE  CookieInv'
    OBVIOUS
<1> USE DEF CookieInv, SpentIsAwaited, ForgottenIsLost, Awaited, SpendsCookies, CallIs, CallChanges
<1>a. /\ TypeOK /\ call \in [Slot -> PageCall] /\ PageTypeOK /\ ScriptTellsOperation
      /\ TokensAreHeld /\ AnswersHavePairs /\ IdleHasNoOperation
      /\ StepTellsOperation /\ PresentsToken /\ NewPairIsPrivate
  BY DEF SessionInv, RequestInv, PageShape, PageTypeOK
<1>b. \A s \in Slot : req[s].at = "idle" => req[s].op = "none"
  BY <1>a DEF IdleHasNoOperation
\* The server and the cookies stay, and no request in flight is forgotten.
<1>1. ASSUME UNCHANGED <<vars, jar, lost>>,
             \A s \in Slot : req[s].at = "idle" \/ call'[s].script = call[s].script
      PROVE  CookieInv'
  BY <1>1, <1>b DEF vars
<1>2. ASSUME NEW s \in Slot, NEW k \in Load, SendFirst(s, k) PROVE CookieInv'
  BY <1>1, <1>2, <1>a, SendFirstEffect DEF SendFirst, Free
<1>3. ASSUME NEW s \in Slot, SendSecond(s) PROVE CookieInv'
  BY <1>1, <1>3, <1>a, SendSecondEffect DEF SendSecond
<1>4. ASSUME NEW s \in Slot, DataArrives(s) \/ SecondRefused(s) \/ DataDies(s) \/ RefreshLimited(s)
      PROVE  CookieInv'
  <2>1. UNCHANGED <<vars, jar, lost>> /\ Ends(s) /\ call[s].verdict # "none"
    BY <1>4 DEF DataArrives, SecondRefused, DataDies, RefreshLimited, DataAnswer
  <2>2. req[s].at = "idle"
    BY <1>a, <2>1 DEF ScriptTellsOperation
  <2>3. QED
    BY <1>1, <1>a, <2>1, <2>2, EndsEffect
<1>5. CASE ClickFilter
  BY <1>1, <1>5 DEF ClickFilter
\* A request begins or goes on, and presents the cookies or nothing.
<1>6. ASSUME NEW s \in Slot, FirstRefused(s) PROVE CookieInv'
  <2>1. CallIs(s, call[s].script, "refresh", "none") /\ call[s].script \in Load
        /\ UNCHANGED <<jar, lost>>
    BY <1>6, <1>a, StageEffect DEF FirstRefused, DataAnswer
  <2>2. Serves(s) /\ req[s].at = "idle" /\ UNCHANGED tables
    BY <1>6, <1>a, PageRefreshEffect DEF FirstRefused
  <2>3. QED
    BY <1>b, <2>1, <2>2 DEF Serves, tables, Load
<1>7. ASSUME NEW s \in Slot, NEW u \in User, NEW p \in Password, SubmitLogin(s, u, p)
      PROVE  CookieInv'
  <2>1. CallIs(s, "login", "first", "none") /\ UNCHANGED <<jar, lost>>
    BY <1>7, <1>a, BeginsEffect DEF SubmitLogin
  <2>2. Serves(s) /\ req[s].at = "idle" /\ UNCHANGED tables
    BY <1>7, <1>a, LoginSelectEffect DEF SubmitLogin, Opens
  <2>3. QED
    BY <1>b, <2>1, <2>2 DEF Serves, tables
<1>8. ASSUME NEW s \in Slot, ClickLogout(s) PROVE CookieInv'
  <2>1. CallIs(s, "logout", "first", "none") /\ UNCHANGED <<jar, lost>>
    BY <1>8, <1>a, BeginsEffect DEF ClickLogout
  <2>2. Serves(s) /\ req[s].at = "idle" /\ UNCHANGED tables
    BY <1>8, <1>a, CookiePresentable, LogoutSelectEffect DEF ClickLogout, Opens
  <2>3. QED
    BY <1>b, <2>1, <2>2 DEF Serves, tables
<1>9. ASSUME NEW s \in Slot, ServerStep(s) PROVE CookieInv'
  <2>1. /\ Serves(s) /\ Keeps(s) /\ req[s].at \notin {"idle", "answer"}
        /\ UNCHANGED <<held, pageVars>>
    BY <1>9, ServerStepEffect
  <2>2. req[s].answer = "none"
    BY <1>a, <2>1 DEF StepTellsOperation
  <2>3. ForgottenIsLost'
    BY <2>1 DEF Serves, Keeps, pageVars
  <2>4. CASE RefreshDelete(s)
    <3>1. live' = live \ {req[s].token.jti} /\ req'[s].at = "issue" /\ req'[s].op = "refresh"
          /\ req[s].at = "delete" /\ req[s].op = "refresh"
      BY <1>a, <2>4, AdvanceEffect DEF RefreshDelete, RowsWithout, Keeps
    <3>2. QED
      BY <2>1, <2>2, <2>3, <3>1 DEF Serves, Keeps, pageVars
  <2>5. CASE LogoutRevoke(s)
    <3>1. live' = live \ {req[s].token.jti} /\ req'[s].answer = "ok" /\ req'[s].op = "logout"
          /\ req[s].at = "revoke" /\ req[s].op = "logout"
      BY <1>a, <2>5, AnswerEffect DEF LogoutRevoke, RowsWithout, Keeps
    <3>2. QED
      BY <2>1, <2>2, <2>3, <3>1 DEF Serves, Keeps, pageVars
  <2>6. ASSUME NEW j \in Jti, IssuePair(s, j) PROVE CookieInv'
    <3>1. live \subseteq live' /\ req'[s].answer = "ok" /\ req[s].at = "issue"
      BY <1>a, <2>6, IssuePairEffect DEF IssuePair
    <3>2. QED
      BY <2>1, <2>2, <2>3, <3>1 DEF Serves, Keeps, pageVars
  <2>7. QED
    BY <1>9, <2>4, <2>5, <2>6 DEF ServerStep
\* The cookies are replaced by a pair nobody has presented, or are deleted.
<1>10. ASSUME NEW s \in Slot, Deliver(s), jar' = req[s].new \/ jar' = NoJti,
              \A t \in Slot \ {s} : call'[t].script = call[t].script
       PROVE  CookieInv'
  <2>1. Serves(s) /\ Blank(s) /\ UNCHANGED live
    BY <1>10, <1>a, IdleEffect DEF Deliver
  <2>2. jar' # NoJti => jar' \in live /\ jar' \notin held
    BY <1>10, <1>a DEF NewPairIsPrivate
  <2>3. \A t \in Slot :
            req[t].op \in {"refresh", "logout"} =>
                req[t].token.jti \in held /\ req[t].token.jti # NoJti
    BY <1>a, ConstantsAssumption DEF TokensAreHeld, TypeOK, Issued
  <2>4. SpentIsAwaited'
    BY <2>1, <2>2
  <2>5. ForgottenIsLost'
    BY <2>1, <2>2, <2>3 DEF Serves, Blank
  <2>6. QED
    BY <2>4, <2>5
<1>11. ASSUME NEW s \in Slot, RefreshArrives(s) PROVE CookieInv'
  BY <1>10, <1>11, <1>a, StageEffect DEF RefreshArrives, Answered, CookiesAfter
<1>12. ASSUME NEW s \in Slot, LoginArrives(s) PROVE CookieInv'
  BY <1>10, <1>12, <1>a, OvertakesEffect DEF LoginArrives, CookiesAfter
\* An answer of which the page takes no cookies did not take their row.
<1>13. ASSUME NEW s \in Slot, Deliver(s), Ends(s), req[s].answer # "ok", UNCHANGED <<jar, lost>>
       PROVE  CookieInv'
  <2>1. Serves(s) /\ Blank(s) /\ UNCHANGED live /\ req[s].at = "answer"
    BY <1>13, <1>a, IdleEffect DEF Deliver
  <2>2. CallIs(s, "none", "first", "none")
    BY <1>13, <1>a, EndsEffect
  <2>3. QED
    BY <1>13, <2>1, <2>2 DEF Serves, Blank
<1>14. ASSUME NEW s \in Slot, RefreshRefused(s) \/ LoginRefused(s) PROVE CookieInv'
  BY <1>13, <1>14 DEF RefreshRefused, LoginRefused, Answered
<1>15. ASSUME NEW s \in Slot, LogoutArrives(s) PROVE CookieInv'
  <2>1. CASE req[s].answer = "ok"
    BY <1>10, <1>15, <1>a, <2>1, OvertakesEffect DEF LogoutArrives, CookiesAfterLogout
  <2>2. CASE req[s].answer # "ok"
    BY <1>13, <1>15, <2>2 DEF LogoutArrives
  <2>3. QED
    BY <2>1, <2>2
<1>16. ASSUME NEW s \in Slot, AnswerDropped(s) \/ RequestDies(s) PROVE CookieInv'
  <2>1. CallIs(s, "none", "first", "none") /\ UNCHANGED jar
    BY <1>16, <1>a, EndsEffect DEF AnswerDropped, RequestDies
  <2>2. Serves(s) /\ Blank(s) /\ UNCHANGED live
    BY <1>16, <1>a, IdleEffect DEF AnswerDropped, RequestDies, Crash
  <2>3. ~SpendsCookies(s)' /\ \A t \in Slot \ {s} : Awaited(t)' = Awaited(t)
    BY <2>1, <2>2 DEF Serves, Blank
  <2>4. (lost => lost') /\ (call[s].script # "gone" /\ SpendsCookies(s) => lost')
    <3>1. CASE AnswerDropped(s)
      BY <3>1 DEF AnswerDropped
    <3>2. CASE RequestDies(s)
      <4> HIDE DEF SpendsCookies
      <4>1. lost' = (lost \/ SpendsCookies(s))
        BY <3>2 DEF RequestDies
      <4>2. QED
        BY <4>1
    <3>3. QED
      BY <1>16, <3>1, <3>2
  <2>5. SpentIsAwaited'
    BY <2>1, <2>2, <2>3, <2>4
  <2>6. ForgottenIsLost'
    BY <2>1, <2>2, <2>4 DEF Serves, Blank
  <2>7. QED
    BY <2>5, <2>6
<1>17. CASE Reload
  <2>1. UNCHANGED <<vars, jar>> /\ lost' = (lost \/ \E s \in Slot : SpendsCookies(s))
    BY <1>17 DEF Reload
  <2>2. QED
    BY <2>1 DEF vars
<1>18. CASE CookiesAge
  BY <1>18 DEF CookiesAge, AgePair, pageVars
<1>19. CASE UNCHANGED allVars
  BY <1>19 DEF allVars, vars, pageVars
<1>20. QED
  BY <1>2, <1>3, <1>4, <1>5, <1>6, <1>7, <1>8, <1>9, <1>11, <1>12, <1>14, <1>15, <1>16, <1>17,
     <1>18, <1>19
     DEF PageNext, Api, SignInAndOut, Dies

\* However many calls refresh at once, in whatever order their answers arrive, the
\* browser keeps cookies that work, or a request that replaces them is in flight,
\* or an answer was lost.
THEOREM CookiesKeepWorking == PageSpec => []CookiesWork
<1>1. PageInit => CookieInv
  BY NoCallFields DEF PageInit, CookieInv, SpentIsAwaited, ForgottenIsLost
<1>2. CookieInv => CookiesWork
  BY DEF CookieInv, SpentIsAwaited, CookiesWork, Awaited
<1>3. QED
  BY <1>1, <1>2, PageTypeCorrect, CookieInvStep, PTL DEF PageSpec

-----------------------------------------------------------------------------
(* Cookies of whoever signed in last. *)

\* A refresh whose cookies no sign-in or logout has replaced since presents a
\* token of the account that signed in last.
OwnRefreshes ==
    \A s \in Slot :
        /\ call[s].script \in Load
        /\ ~call[s].overtaken
        /\ req[s].op = "refresh"
        => owner[req[s].token.jti] = who

UserInv == ~stray => CookiesFollowTheUser /\ OwnRefreshes

LEMMA UserInvStep ==
    SessionInv /\ RequestInv /\ PageShape /\ UserInv /\ [PageNext]_allVars => UserInv'
<1> SUFFICES ASSUME SessionInv, RequestInv, PageShape, UserInv, [PageNext]_allVars
             PROVE  UserInv'
    OBVIOUS
<1> USE ConstantsAssumption
    DEF UserInv, CookiesFollowTheUser, OwnRefreshes, CallIs, CallChanges
<1>a. /\ TypeOK /\ call \in [Slot -> PageCall] /\ PageTypeOK /\ ScriptTellsOperation
      /\ TokensAreHeld /\ PairsOfUser /\ AnswersHavePairs /\ IdleHasNoOperation
      /\ StepTellsOperation
  BY DEF SessionInv, RequestInv, PageShape, PageTypeOK
<1>b. \A s \in Slot : req[s].at = "idle" => req[s].op = "none"
  BY <1>a DEF IdleHasNoOperation
\* The server and the cookies stay, and no request in flight changes its call.
<1>1. ASSUME UNCHANGED <<vars, jar, who, stray>>,
             \A s \in Slot : req[s].at = "idle" \/ call'[s] = call[s] \/ call'[s].script \notin Load
      PROVE  UserInv'
  BY <1>1, <1>b DEF vars
<1>2. ASSUME NEW s \in Slot, NEW k \in Load, SendFirst(s, k) PROVE UserInv'
  BY <1>1, <1>2, <1>a, SendFirstEffect DEF SendFirst, Free
<1>3. ASSUME NEW s \in Slot, SendSecond(s) PROVE UserInv'
  <2>1. req[s].at = "idle"
    BY <1>3, <1>a DEF SendSecond, DataAnswer, ScriptTellsOperation
  <2>2. QED
    BY <1>1, <1>3, <1>a, <2>1, SendSecondEffect DEF SendSecond
<1>4. ASSUME NEW s \in Slot, DataArrives(s) \/ SecondRefused(s) \/ DataDies(s) \/ RefreshLimited(s)
      PROVE  UserInv'
  <2>1. UNCHANGED <<vars, jar, who, stray>> /\ Ends(s)
    BY <1>4 DEF DataArrives, SecondRefused, DataDies, RefreshLimited
  <2>2. QED
    BY <1>1, <1>a, <2>1, EndsEffect DEF Load
<1>5. CASE ClickFilter
  BY <1>1, <1>5 DEF ClickFilter
<1>6. ASSUME NEW s \in Slot, FirstRefused(s) PROVE UserInv'
  <2>1. CallIs(s, call[s].script, "refresh", "none") /\ UNCHANGED <<jar, who, stray>>
    BY <1>6, <1>a, StageEffect DEF FirstRefused, DataAnswer
  <2>2. /\ Serves(s) /\ UNCHANGED tables
        /\ req'[s].op = "refresh" => jar # NoJti /\ req'[s].token.jti = jar
    BY <1>6, <1>a, PageRefreshEffect DEF FirstRefused
  <2>3. QED
    BY <2>1, <2>2 DEF Serves, tables
<1>7. ASSUME NEW s \in Slot, NEW u \in User, NEW p \in Password, SubmitLogin(s, u, p)
      PROVE  UserInv'
  <2>1. CallIs(s, "login", "first", "none") /\ UNCHANGED <<jar, who, stray>>
    BY <1>7, <1>a, BeginsEffect DEF SubmitLogin
  <2>2. Serves(s) /\ UNCHANGED tables
    BY <1>7, <1>a, LoginSelectEffect DEF SubmitLogin, Opens
  <2>3. QED
    BY <2>1, <2>2 DEF Serves, tables, Load
<1>8. ASSUME NEW s \in Slot, ClickLogout(s) PROVE UserInv'
  <2>1. CallIs(s, "logout", "first", "none") /\ UNCHANGED <<jar, who, stray>>
    BY <1>8, <1>a, BeginsEffect DEF ClickLogout
  <2>2. Serves(s) /\ UNCHANGED tables
    BY <1>8, <1>a, CookiePresentable, LogoutSelectEffect DEF ClickLogout, Opens
  <2>3. QED
    BY <2>1, <2>2 DEF Serves, tables, Load
<1>9. ASSUME NEW s \in Slot, ServerStep(s) PROVE UserInv'
  <2>1. Serves(s) /\ Keeps(s) /\ UNCHANGED <<held, pageVars>>
    BY <1>9, ServerStepEffect
  <2>2. \A k \in Issued : owner'[k] = owner[k]
    BY <1>9, <1>a
       DEF ServerStep, RefreshDelete, LogoutRevoke, IssuePair, NewIdentifier, TypeOK, Issued
  <2>3. jar = NoJti \/ jar \in Issued
    BY <1>a DEF PageTypeOK, TypeOK
  <2>4. \A t \in Slot : req[t].op = "refresh" => req[t].token.jti \in Issued
    BY <1>a DEF TokensAreHeld, TypeOK
  <2>5. QED
    BY <2>1, <2>2, <2>3, <2>4 DEF Serves, Keeps, pageVars
<1>10. ASSUME NEW s \in Slot, RefreshArrives(s) PROVE UserInv'
  <2>1. CallIs(s, call[s].script, "second", "none") /\ call[s].script \in Load
    BY <1>10, <1>a, StageEffect DEF RefreshArrives, Answered
  <2>2. Serves(s) /\ Blank(s) /\ UNCHANGED <<owner, who>>
    BY <1>10, <1>a, IdleEffect DEF RefreshArrives, Deliver
  <2>3. /\ req[s].op = "refresh" /\ req[s].new # NoJti
        /\ owner[req[s].new] = owner[req[s].token.jti]
    BY <1>10, <1>a
       DEF RefreshArrives, Answered, ScriptTellsOperation, AnswersHavePairs, PairsOfUser
  <2>4. ~stray' => ~stray /\ ~call[s].overtaken
    BY <1>10 DEF RefreshArrives
  <2>5. jar' = req[s].new
    BY <1>10 DEF RefreshArrives, CookiesAfter
  <2>6. QED
    BY <2>1, <2>2, <2>3, <2>4, <2>5 DEF Serves, Blank
<1>11. ASSUME NEW s \in Slot, LoginArrives(s) PROVE UserInv'
  <2>1. Serves(s) /\ Blank(s) /\ UNCHANGED owner
    BY <1>11, <1>a, IdleEffect DEF LoginArrives, Deliver
  <2>2. req[s].new # NoJti /\ owner[req[s].new] = req[s].user
    BY <1>11, <1>a
       DEF LoginArrives, Answered, ScriptTellsOperation, AnswersHavePairs, PairsOfUser
  <2>3. jar' = req[s].new /\ who' = req[s].user
    BY <1>11 DEF LoginArrives, CookiesAfter
  <2>4. \A t \in Slot : call'[t].script \in Load => call'[t].overtaken
    BY <1>11, <1>a, OvertakesEffect, NoCallFields DEF LoginArrives, Load
  <2>5. QED
    BY <2>1, <2>2, <2>3, <2>4
\* An answer the page takes no cookies from.
<1>12. ASSUME NEW s \in Slot, Deliver(s) \/ Crash(s), Ends(s), UNCHANGED <<jar, who, stray>>
       PROVE  UserInv'
  <2>1. Serves(s) /\ UNCHANGED owner
    BY <1>12, <1>a, IdleEffect DEF Deliver, Crash
  <2>2. CallIs(s, "none", "first", "none")
    BY <1>12, <1>a, EndsEffect
  <2>3. QED
    BY <1>12, <2>1, <2>2 DEF Serves, Load
<1>13. ASSUME NEW s \in Slot,
              RefreshRefused(s) \/ LoginRefused(s) \/ AnswerDropped(s) \/ RequestDies(s)
       PROVE  UserInv'
  BY <1>12, <1>13 DEF RefreshRefused, LoginRefused, AnswerDropped, RequestDies
<1>14. ASSUME NEW s \in Slot, LogoutArrives(s) PROVE UserInv'
  <2>1. CASE req[s].answer = "ok"
    <3>1. jar' = NoJti /\ who' = NoUser /\ EndsAndOvertakes(s)
      BY <1>14, <2>1 DEF LogoutArrives, CookiesAfterLogout
    <3>2. \A t \in Slot : call'[t].script \in Load => call'[t].overtaken
      BY <1>a, <3>1, OvertakesEffect, NoCallFields DEF Load
    <3>3. QED
      BY <3>1, <3>2
  <2>2. CASE req[s].answer # "ok"
    BY <1>12, <1>14, <2>2 DEF LogoutArrives
  <2>3. QED
    BY <2>1, <2>2
<1>15. CASE Reload
  <2>1. UNCHANGED <<vars, jar, who, stray>> /\ \A s \in Slot : call'[s].script \notin Load
    BY <1>15, <1>a, ReloadEffect DEF Reload, Load
  <2>2. QED
    BY <1>1, <2>1
<1>16. CASE CookiesAge
  BY <1>16 DEF CookiesAge, AgePair, pageVars
<1>17. CASE UNCHANGED allVars
  BY <1>17 DEF allVars, vars, pageVars
<1>18. QED
  BY <1>2, <1>3, <1>4, <1>5, <1>6, <1>7, <1>8, <1>9, <1>10, <1>11, <1>13, <1>14, <1>15, <1>16, <1>17
     DEF PageNext, Api, SignInAndOut, Dies

\* The cookies are those of the account that signed in last, or of none after a
\* logout; only the late answer of an earlier refresh can change that.
THEOREM CookiesStayWithUser == PageSpec => []CookiesFollowTheUser
<1>1. PageInit => UserInv
  BY NoCallFields, IdleIsRequest DEF PageInit, UserInv, CookiesFollowTheUser, OwnRefreshes
<1>2. UserInv => CookiesFollowTheUser
  BY DEF UserInv, CookiesFollowTheUser
<1>3. QED
  BY <1>1, <1>2, PageTypeCorrect, UserInvStep, PTL DEF PageSpec

-----------------------------------------------------------------------------
(* A dashboard without cookies finds out. *)

\* A summary call that will end in 'Session expired'.
FindsOut(s) ==
    /\ call[s].script = "summary"
    /\ \/ call[s].stage = "refresh"
       \/ call[s].stage = "first" /\ call[s].verdict = "refused"

ScreenInv ==
    faults = 0 /\ screen = "dashboard" /\ jar = NoJti =>
        due["summary"] > 0 \/ \E s \in Slot : FindsOut(s)

LEMMA ScreenInvStep ==
    SessionInv /\ RequestInv /\ PageShape /\ ScreenInv /\ [PageNext]_allVars => ScreenInv'
<1> SUFFICES ASSUME SessionInv, RequestInv, PageShape, ScreenInv, [PageNext]_allVars
             PROVE  ScreenInv'
    OBVIOUS
<1> USE DEF ScreenInv, FindsOut, CallIs, CallChanges
<1>a. /\ TypeOK /\ call \in [Slot -> PageCall] /\ PageTypeOK /\ ScriptTellsOperation
      /\ AnswersHavePairs /\ due \in [Load -> Nat] /\ "summary" \in Load
      /\ faults \in 0..MaxFaults /\ MaxFaults \in Nat
  BY DashboardAssumption DEF SessionInv, RequestInv, PageShape, PageTypeOK, Load
<1>1. ASSUME NEW s \in Slot, NEW k \in Load, SendFirst(s, k) PROVE ScreenInv'
  <2>1. CallIs(s, k, "first", AccessCheck) /\ call[s] = NoCall /\ UNCHANGED <<jar, screen, faults>>
    BY <1>1, <1>a, SendFirstEffect DEF SendFirst, Free
  <2>2. jar = NoJti => AccessCheck = "refused"
    BY DEF AccessCheck, Authenticated, Cookie, NoCredential
  <2>3. k # "summary" => due'["summary"] = due["summary"]
    BY <1>1, <1>a DEF SendFirst
  <2>4. QED
    BY <2>1, <2>2, <2>3, NoCallFields
<1>2. ASSUME NEW s \in Slot, FirstRefused(s) PROVE ScreenInv'
  <2>1. CallIs(s, call[s].script, "refresh", "none") /\ UNCHANGED <<jar, screen, faults, due>>
    BY <1>2, <1>a, StageEffect DEF FirstRefused, DataAnswer
  <2>2. QED
    BY <2>1
<1>3. ASSUME NEW s \in Slot, SendSecond(s) PROVE ScreenInv'
  <2>1. /\ CallChanges(s) /\ call'[s].script = call[s].script /\ call[s].stage = "second"
        /\ UNCHANGED <<jar, screen, faults, due>>
    BY <1>3, <1>a, SendSecondEffect DEF SendSecond, DataAnswer
  <2>2. QED
    BY <2>1
<1>4. ASSUME NEW s \in Slot, DataArrives(s) PROVE ScreenInv'
  <2>1. /\ CallIs(s, "none", "first", "none") /\ call[s].verdict = "ok"
        /\ call[s].script \in Load /\ call[s].stage # "refresh" /\ UNCHANGED <<jar, faults>>
    BY <1>4, <1>a, EndsEffect DEF DataArrives, DataAnswer
  <2>2. due'["summary"] = due["summary"] + (IF call[s].script = "me" THEN 1 ELSE 0)
    BY <1>4, <1>a, <2>1, DueAfterEffect DEF DataArrives
  <2>3. due["summary"] \in Nat /\ (call[s].script # "me" => UNCHANGED screen)
    BY <1>4, <1>a DEF DataArrives
  <2>4. QED
    BY <2>1, <2>2, <2>3
<1>5. ASSUME NEW s \in Slot, SecondRefused(s) PROVE ScreenInv'
  <2>1. /\ CallIs(s, "none", "first", "none") /\ call[s].stage = "second"
        /\ UNCHANGED <<jar, faults, due>> /\ screen' \in {screen, "login"}
    BY <1>5, <1>a, EndsEffect DEF SecondRefused, DataAnswer, ScreenAfterFailure
  <2>2. QED
    BY <2>1
<1>6. ASSUME NEW s \in Slot, RefreshArrives(s) PROVE ScreenInv'
  <2>1. req[s].new # NoJti
    BY <1>6, <1>a DEF RefreshArrives, Answered, ScriptTellsOperation, AnswersHavePairs
  <2>2. QED
    BY <1>6, <2>1 DEF RefreshArrives, CookiesAfter
<1>7. ASSUME NEW s \in Slot, LoginArrives(s) PROVE ScreenInv'
  <2>1. req[s].new # NoJti
    BY <1>7, <1>a DEF LoginArrives, Answered, ScriptTellsOperation, AnswersHavePairs
  <2>2. QED
    BY <1>7, <2>1 DEF LoginArrives, CookiesAfter
<1>8. ASSUME NEW s \in Slot, RefreshRefused(s) \/ LogoutArrives(s) PROVE ScreenInv'
  BY <1>8 DEF RefreshRefused, LogoutArrives
<1>9. CASE Reload
  BY <1>9 DEF Reload
<1>10. ASSUME NEW s \in Slot, Dies(s) PROVE ScreenInv'
  <2>1. faults' # 0
    BY <1>10, <1>a DEF Dies, RequestDies, DataDies, RefreshLimited, Fault
  <2>2. QED
    BY <2>1
\* A call that is none of the page's data calls begins or ends.
<1>11. ASSUME NEW s \in Slot, call[s].script \notin Load \/ call[s] = NoCall,
              CallChanges(s), UNCHANGED <<jar, screen, faults, due>>
       PROVE  ScreenInv'
  BY <1>11, NoCallFields DEF Load
<1>12. ASSUME NEW s \in Slot, NEW u \in User, NEW p \in Password, SubmitLogin(s, u, p)
       PROVE  ScreenInv'
  BY <1>11, <1>12, <1>a, BeginsEffect DEF SubmitLogin, Free
<1>13. ASSUME NEW s \in Slot, ClickLogout(s) PROVE ScreenInv'
  BY <1>11, <1>13, <1>a, BeginsEffect DEF ClickLogout, Free
<1>14. ASSUME NEW s \in Slot, LoginRefused(s) \/ AnswerDropped(s) PROVE ScreenInv'
  BY <1>11, <1>14, <1>a, EndsEffect DEF LoginRefused, AnswerDropped, Answered, Load
<1>15. CASE ClickFilter
  BY <1>15, <1>a, DueAfterEffect DEF ClickFilter
<1>16. ASSUME NEW s \in Slot, ServerStep(s) PROVE ScreenInv'
  BY <1>16 DEF ServerStep, pageVars
<1>17. CASE CookiesAge
  BY <1>17 DEF CookiesAge, pageVars
<1>18. CASE UNCHANGED allVars
  BY <1>18 DEF allVars, pageVars
<1>19. QED
  BY <1>1, <1>2, <1>3, <1>4, <1>5, <1>6, <1>7, <1>8, <1>9, <1>10, <1>12, <1>13, <1>14, <1>15,
     <1>16, <1>17, <1>18
     DEF PageNext, Api, SignInAndOut

\* Without faults no dashboard stands without cookies once the page is at rest.
THEOREM DashboardFindsOut == PageSpec => []NoDashboardSignedOut
<1>1. PageInit => ScreenInv
  BY DEF PageInit, ScreenInv
<1>2. ScreenInv => NoDashboardSignedOut
  BY DEF ScreenInv, FindsOut, NoDashboardSignedOut, Settled, NothingDue, Load
<1>3. QED
  BY <1>1, <1>2, PageTypeCorrect, ScreenInvStep, PTL DEF PageSpec

\* The type invariant of the page.
THEOREM PageTypes == PageSpec => []PageTypeOK
<1>1. PageShape => PageTypeOK
  BY DEF PageShape
<1>2. QED
  BY <1>1, PageTypeCorrect, PTL
=============================================================================
