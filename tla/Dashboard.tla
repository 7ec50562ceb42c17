------------------------------ MODULE Dashboard ------------------------------
(***************************************************************************)
(* The web page static/index.html at the session API: Sessions, with one   *)
(* browser as its client.  All requests of the page share the browser's    *)
(* cookies, and several are in flight at once: each api() call that is     *)
(* answered 401 refreshes the session for itself and then tries again.     *)
(*                                                                         *)
(* The page is single threaded: an action is what a script does from one   *)
(* await to the next, the arrival of the answer it waited for included.  A *)
(* request takes its cookies along and reaches its handler in one step; a  *)
(* data request (GET /balance/..., /auth/me) is its access check.          *)
(*                                                                         *)
(* access_token and refresh_token are set together and deleted together,   *)
(* so the cookies are one pair; the access cookie disappears from the      *)
(* browser when its token expires, and either way the server answers 401.  *)
(*                                                                         *)
(* A definition X_Y is definition X with the plausible bug Y.              *)
(***************************************************************************)
EXTENDS Sessions

CONSTANTS
    Parallel,    \* the charts loaded at once (the page has four)
    MaxFaults    \* the bound on lost answers and on answers 429

ASSUME DashboardAssumption == Parallel \in Nat /\ MaxFaults \in Nat

VARIABLES
    jar,         \* the pair in the browser's cookies, NoJti = no cookies
    screen,      \* what the page shows
    due,         \* calls the page has made that no connection has sent yet
    call,        \* [Slot -> what the page awaits there]
    faults,      \* the faults so far
    \* History, read by no guard.
    who,         \* the account that signed in last, NoUser after a logout
    stray,       \* a refresh sent before the last sign-in or logout was answered after it
    lost         \* no answer will come to a refresh or logout with the cookies the browser has

pageVars == <<jar, screen, due, call, faults, who, stray, lost>>
allVars == <<vars, pageVars>>

Load == {"me", "summary", "chart"}

\* verdict: what the access check said to the data request in flight.
\* overtaken: a sign-in or a logout was answered after this request was sent.
PageCall ==
    [script    : Load \cup {"none", "login", "logout", "gone"},
     stage     : {"first", "refresh", "second"},
     verdict   : {"none", "ok", "refused"},
     overtaken : BOOLEAN]

NoCall ==
    [script |-> "none", stage |-> "first", verdict |-> "none", overtaken |-> FALSE]

\* A call by one of the page's scripts, or what is left of one when the page is reloaded.
CallOf(k) == [NoCall EXCEPT !.script = k]

NothingDue == [k \in Load |-> 0]

\* Every account exists (some other client registered it), the browser has no
\* cookies, and the page has just been opened.
PageInit ==
    /\ password \in [User -> Password]
    /\ live = {}
    /\ owner = [j \in Jti |-> NoUser]
    /\ age = [j \in Jti |-> "fresh"]
    /\ held = {}
    /\ req = [s \in Slot |-> Idle]
    /\ parent = [j \in Jti |-> NoJti]
    /\ minter = [j \in Jti |-> NoSlot]
    /\ rotated = {}
    /\ cut = {}
    /\ jar = NoJti
    /\ screen = "login"
    /\ due = [NothingDue EXCEPT !["me"] = 1]
    /\ call = [s \in Slot |-> NoCall]
    /\ faults = 0
    /\ who = NoUser
    /\ stray = FALSE
    /\ lost = FALSE
-----------------------------------------------------------------------------
Free(s) == call[s] = NoCall /\ req[s].at = "idle"

Cookie(kind) == IF jar = NoJti THEN NoCredential ELSE [kind |-> kind, jti |-> jar]

\* What a data request sent now will be answered.
AccessCheck == IF Authenticated(Cookie("access")) THEN "ok" ELSE "refused"

Calls(s, c) == call' = [call EXCEPT ![s] = c]

Ends(s) == Calls(s, NoCall)

\* Call s has a data request in flight, and the answer is a.
DataAnswer(s, stages, a) ==
    call[s].script \in Load /\ call[s].stage \in stages /\ call[s].verdict = a

\* A request of call s to the session API has its answer.
Answered(s, scripts, answers) ==
    call[s].script \in scripts /\ req[s].at = "answer" /\ req[s].answer \in answers
-----------------------------------------------------------------------------
(* api(url): the request, the refresh after a 401, the request again *)

\* A call that a script has made gets a connection.
SendFirst(s, k) ==
    /\ Free(s)
    /\ due[k] > 0
    /\ due' = [due EXCEPT ![k] = @ - 1]
    /\ Calls(s, [CallOf(k) EXCEPT !.verdict = AccessCheck])
    /\ UNCHANGED <<vars, jar, screen, faults, who, stray, lost>>

\* The 401 arrives, and the refresh is sent at once.
FirstRefused(s) ==
    /\ DataAnswer(s, {"first"}, "refused")
    /\ RefreshSelect(s, Cookie("refresh"))
    /\ Calls(s, [CallOf(call[s].script) EXCEPT !.stage = "refresh"])
    /\ UNCHANGED <<jar, screen, due, faults, who, stray, lost>>

\* The browser replaces its cookies by those of an answer.
CookiesAfter_OnlyFirst(j) == IF jar = NoJti THEN j ELSE jar
CookiesAfter(j) == j

RefreshArrives(s) ==
    /\ Answered(s, Load, {"ok"})
    /\ Deliver(s)
    /\ jar' = CookiesAfter(req[s].new)
    /\ stray' = (stray \/ call[s].overtaken)
    /\ lost' = FALSE
    /\ Calls(s, [CallOf(call[s].script) EXCEPT !.stage = "second"])
    /\ UNCHANGED <<screen, due, faults, who>>

\* 'Session expired': the login screen comes, the cookies stay.
RefreshRefused_KeepsScreen(s) ==
    /\ Answered(s, Load, {"refused", "reuse"})
    /\ Deliver(s)
    /\ Ends(s)
    /\ UNCHANGED <<jar, screen, due, faults, who, stray, lost>>

RefreshRefused(s) ==
    /\ Answered(s, Load, {"refused", "reuse"})
    /\ Deliver(s)
    /\ screen' = "login"
    /\ Ends(s)
    /\ UNCHANGED <<jar, due, faults, who, stray, lost>>

\* Once more, with whatever cookies the browser has by now.
SendSecond(s) ==
    /\ DataAnswer(s, {"second"}, "none")
    /\ Calls(s, [call[s] EXCEPT !.verdict = AccessCheck])
    /\ UNCHANGED <<vars, jar, screen, due, faults, who, stray, lost>>

\* What the script of a call does once it has its data: init shows the dashboard
\* and loads all, loadAll then loads the charts.  The bound: no more than
\* Parallel charts wait for a connection.
DueAfter(k) ==
    IF k = "me" THEN [due EXCEPT !["summary"] = @ + 1]
    ELSE IF k = "summary" THEN [due EXCEPT !["chart"] = Parallel]
    ELSE due

DataArrives(s) ==
    /\ DataAnswer(s, {"first", "second"}, "ok")
    /\ due' = DueAfter(call[s].script)
    /\ screen' = IF call[s].script = "me" THEN "dashboard" ELSE screen
    /\ Ends(s)
    /\ UNCHANGED <<vars, jar, faults, who, stray, lost>>

\* When its call fails, init shows the login screen; the other scripts only log it.
ScreenAfterFailure(s) == IF call[s].script = "me" THEN "login" ELSE screen

\* 'API error: 401'.
SecondRefused(s) ==
    /\ DataAnswer(s, {"second"}, "refused")
    /\ screen' = ScreenAfterFailure(s)
    /\ Ends(s)
    /\ UNCHANGED <<vars, jar, due, faults, who, stray, lost>>
-----------------------------------------------------------------------------
(* The login form and the logout button *)

\* The form is there whenever the dashboard is not.  The bound: what the
\* page has called before is sent.
SubmitLogin(s, u, p) ==
    /\ screen = "login"
    /\ Free(s)
    /\ due = NothingDue
    /\ LoginSelect(s, u, p)
    /\ Calls(s, CallOf("login"))
    /\ UNCHANGED <<jar, screen, due, faults, who, stray, lost>>

ClickLogout(s) ==
    /\ screen = "dashboard"
    /\ Free(s)
    /\ LogoutSelect(s, Cookie("access"), Cookie("refresh"))
    /\ Calls(s, CallOf("logout"))
    /\ UNCHANGED <<jar, screen, due, faults, who, stray, lost>>

\* A new state of the cookies overtakes what was sent with the old ones.
EndsAndOvertakes(s) ==
    call' = [t \in Slot |-> IF t = s THEN NoCall ELSE [call[t] EXCEPT !.overtaken = call[t] # NoCall]]

LoginArrives(s) ==
    /\ Answered(s, {"login"}, {"ok"})
    /\ Deliver(s)
    /\ jar' = CookiesAfter(req[s].new)
    /\ who' = req[s].user
    /\ stray' = FALSE
    /\ lost' = FALSE
    /\ screen' = "dashboard"
    /\ due' = DueAfter("me")
    /\ EndsAndOvertakes(s)
    /\ UNCHANGED faults

LoginRefused(s) ==
    /\ Answered(s, {"login"}, {"refused"})
    /\ Deliver(s)
    /\ Ends(s)
    /\ UNCHANGED <<jar, screen, due, faults, who, stray, lost>>

\* Cookies go only with the answer of a logout that was let through; the login
\* screen comes with any.
CookiesAfterLogout_Kept == jar
CookiesAfterLogout == NoJti

LogoutArrives(s) ==
    /\ Answered(s, {"logout"}, {"ok", "refused"})
    /\ Deliver(s)
    /\ screen' = "login"
    /\ IF req[s].answer = "ok"
         THEN /\ jar' = CookiesAfterLogout
              /\ who' = NoUser
              /\ stray' = FALSE
              /\ lost' = FALSE
              /\ EndsAndOvertakes(s)
         ELSE Ends(s) /\ UNCHANGED <<jar, who, stray, lost>>
    /\ UNCHANGED <<due, faults>>
-----------------------------------------------------------------------------
(* Other clicks, the server and the faults *)

\* Apply, or one of the periods.  The bound: what was called before is sent.
ClickFilter ==
    /\ screen = "dashboard"
    /\ due = NothingDue
    /\ due' = DueAfter("summary")
    /\ UNCHANGED <<vars, jar, screen, call, faults, who, stray, lost>>

\* Request s may have removed the row of the cookies.
SpendsCookies(s) == req[s].op \in {"refresh", "logout"} /\ req[s].token.jti = jar

\* The browser forgets the calls of the page; their handlers go on.
Reload_ForgetsHandlers ==
    /\ call' = [s \in Slot |-> NoCall]
    /\ lost' = (lost \/ \E s \in Slot : SpendsCookies(s))
    /\ screen' = "login"
    /\ due' = [NothingDue EXCEPT !["me"] = 1]
    /\ UNCHANGED <<vars, jar, faults, who, stray>>

Reload ==
    /\ call' = [s \in Slot |-> IF req[s].at = "idle" THEN NoCall ELSE CallOf("gone")]
    /\ lost' = (lost \/ \E s \in Slot : SpendsCookies(s))
    /\ screen' = "login"
    /\ due' = [NothingDue EXCEPT !["me"] = 1]
    /\ UNCHANGED <<vars, jar, faults, who, stray>>

\* Nobody takes the answer of a request the page forgot.
AnswerDropped(s) ==
    /\ call[s].script = "gone" /\ req[s].at = "answer"
    /\ Crash(s)
    /\ Ends(s)
    /\ UNCHANGED <<jar, screen, due, faults, who, stray, lost>>

Fault == faults < MaxFaults /\ faults' = faults + 1

\* The worker or the connection dies: fetch rejects, or the proxy answers 5xx,
\* which to a refresh and to a logout is an answer like 401.
RequestDies(s) ==
    /\ Fault
    /\ call[s] # NoCall
    /\ Crash(s)
    /\ lost' = (lost \/ SpendsCookies(s))
    /\ \/ screen' = ScreenAfterFailure(s)
       \/ call[s].script \in Load \cup {"logout"} /\ screen' = "login"
    /\ Ends(s)
    /\ UNCHANGED <<jar, due, who, stray>>

DataDies(s) ==
    /\ Fault
    /\ call[s].verdict # "none"
    /\ screen' = ScreenAfterFailure(s)
    /\ Ends(s)
    /\ UNCHANGED <<vars, jar, due, who, stray, lost>>

\* slowapi answers a refresh with 429: more than ten in this minute.
RefreshLimited(s) ==
    /\ Fault
    /\ DataAnswer(s, {"first"}, "refused")
    /\ screen' = "login"
    /\ Ends(s)
    /\ UNCHANGED <<vars, jar, due, who, stray, lost>>

ServerStep(s) ==
    /\ RefreshDelete(s) \/ LogoutRevoke(s) \/ \E j \in Jti : IssuePair(s, j)
    /\ UNCHANGED pageVars

\* Only the pair in the cookies can be presented again.
CookiesAge ==
    /\ jar # NoJti /\ AgePair(jar)
    /\ UNCHANGED pageVars
-----------------------------------------------------------------------------
Api(s) ==
    \/ \E k \in Load : SendFirst(s, k)
    \/ FirstRefused(s)
    \/ RefreshArrives(s)
    \/ RefreshRefused(s)
    \/ SendSecond(s)
    \/ DataArrives(s)
    \/ SecondRefused(s)

SignInAndOut(s) ==
    \/ \E u \in User, p \in Password : SubmitLogin(s, u, p)
    \/ LoginArrives(s)
    \/ LoginRefused(s)
    \/ ClickLogout(s)
    \/ LogoutArrives(s)

Dies(s) == RequestDies(s) \/ DataDies(s) \/ RefreshLimited(s)

PageNext ==
    \/ \E s \in Slot : Api(s) \/ SignInAndOut(s) \/ ServerStep(s) \/ AnswerDropped(s) \/ Dies(s)
    \/ ClickFilter
    \/ Reload
    \/ CookiesAge

PageSpec == PageInit /\ [][PageNext]_allVars
-----------------------------------------------------------------------------
(* Properties *)

\* The page's state has its shape, and its cookies are a pair it received.
PageTypeOK ==
    /\ jar \in held \cup {NoJti}
    /\ screen \in {"login", "dashboard"}
    /\ due \in [Load -> Nat]
    /\ call \in [Slot -> PageCall]
    /\ \A s \in Slot : req[s].at # "idle" => call[s] # NoCall
    /\ faults \in 0..MaxFaults
    /\ who \in User \cup {NoUser}
    /\ stray \in BOOLEAN
    /\ lost \in BOOLEAN

\* Calls that refresh at the same time, with the same or with different tokens,
\* leave the browser with cookies that work: a refresh token in the cookies
\* whose row is gone was sent in a request that is still to be answered, or
\* whose answer was lost.
CookiesWork ==
    jar # NoJti /\ jar \notin live =>
        lost \/ \E s \in Slot : SpendsCookies(s)

\* Whoever signed in last has the cookies, and after a logout nobody has them,
\* unless the answer to a refresh sent before came in after it.
CookiesFollowTheUser ==
    ~stray => who = IF jar = NoJti THEN NoUser ELSE owner[jar]

Settled ==
    due = NothingDue /\ \A s \in Slot : call[s].script \in {"none", "gone"}

\* The dashboard is not left standing without cookies: answers that came in late
\* may show it after a logout, but what it loads then finds out.
NoDashboardSignedOut ==
    Settled /\ faults = 0 /\ screen = "dashboard" => jar # NoJti
=============================================================================
