-------------------------------- MODULE Goals --------------------------------
(***************************************************************************)
(* Savings goals: src/services/goals.py behind src/routers/goals.py.       *)
(*                                                                         *)
(* A request is a record that moves from one awaited database access to    *)
(* the next, as in Sessions.  What a handler read earlier stays in its     *)
(* session objects (expire_on_commit=False) and may be stale when it is    *)
(* used: the loaded columns decide which columns an UPDATE writes.         *)
(*                                                                         *)
(* Every goal request starts from the user's spending configuration and    *)
(* answers with the salary of the one it loaded, however old that is.  No  *)
(* route creates a configuration (PUT /goals/config only updates one), so  *)
(* a user is Configured from the start or never.                           *)
(* A definition X_Y is definition X with the plausible bug Y.               *)
(*                                                                         *)
(* "completed" and "cancelled" are alike to this code: both are inactive.  *)
(***************************************************************************)
EXTENDS Naturals, FiniteSets, Functions

CONSTANTS
    User,
    Goal,          \* goal identifiers: the bound on how many goals are created
    Percent,       \* the allocations requests ask for, out of 1..100
    Slot,          \* the request handlers that may be in flight together
    Configured,    \* the users with a row in spending_config
    Limit,         \* the daily limits requests ask for
    NoUser, NoGoal

VARIABLES
    goal,      \* savings_goal: [Goal -> its row], Absent = no such row
    config,    \* spending_config: [User -> its row], Unset = no such row
    req,       \* the requests in flight
    created,   \* history: the goals ever inserted
    excused    \* history: users whose allocation a race or an unchecked activation touched

vars == <<goal, config, req, created, excused>>

Status == {"active", "inactive"}

GoalRow == [user : User, percent : 1..100, status : Status]
Absent == [user |-> NoUser, percent |-> 0, status |-> "none"]

ASSUME GoalsAssumption ==
    /\ NoUser \notin User
    /\ NoGoal \notin Goal
    /\ Percent \subseteq 1..100
    /\ Configured \subseteq User
    /\ Limit \subseteq Nat \ {0}

\* income: set_income is set, and not 0.  dated: the income day and its window are
\* set, as no request changes.
Setting == [limit : Limit, income : BOOLEAN, dated : BOOLEAN]
Unset == [limit |-> 0, income |-> FALSE, dated |-> FALSE]

\* ask*: what the request asks for, 0 or "none" when it does not say.
\* row: the goal as the handler loaded it.
\* sum: what _validate_allocation read, 0 before.
\* loaded: the configuration as the handler loaded it, without the limit where no
\* request reads it; asked: what it is to be.
Request ==
    [op : {"none", "create", "update", "delete", "limit", "income"},
     at : {"idle", "validate", "write", "reload", "answer"},
     user : User \cup {NoUser},
     goal : Goal \cup {NoGoal},
     askPercent : {0} \cup Percent,
     askStatus : Status \cup {"none", "unknown"},
     row : GoalRow \cup {Absent},
     sum : Nat,
     loaded : [limit : Limit \cup {0}, income : BOOLEAN, dated : BOOLEAN],
     asked : Setting \cup {Unset},
     answer : {"none", "ok", "no_config", "not_found", "over_limit", "bad_status", "error"}]

Idle ==
    [op |-> "none", at |-> "idle", user |-> NoUser, goal |-> NoGoal, askPercent |-> 0,
     askStatus |-> "none", row |-> Absent, sum |-> 0, loaded |-> Unset, asked |-> Unset,
     answer |-> "none"]

Init ==
    /\ goal = [g \in Goal |-> Absent]
    /\ config \in [User -> Setting \cup {Unset}]
    /\ \A u \in User : config[u] = Unset <=> u \notin Configured
    /\ req = [s \in Slot |-> Idle]
    /\ created = {}
    /\ excused = {}
-----------------------------------------------------------------------------
Becomes(s, r) == req' = [req EXCEPT ![s] = r]

\* Past its last write a handler needs only to know whom it serves.
Past(r, step, a) ==
    [Idle EXCEPT !.op = r.op, !.user = r.user, !.goal = r.goal, !.at = step, !.answer = a,
                 !.loaded = IF step = "reload" THEN r.loaded ELSE Unset]

Answer(s, a) == Becomes(s, Past(req[s], "answer", a))

Admit(s, r) == req[s].at = "idle" /\ Becomes(s, r)

AnswerAtOnce(s, a) == Admit(s, [Idle EXCEPT !.at = "answer", !.answer = a])

\* The bound Goal leaves an identifier for every creation in flight.
IdentifiersLeft ==
    Cardinality({s \in Slot : req[s].op = "create" /\ req[s].at \in {"validate", "write"}})
        < Cardinality(Goal \ created)

\* SELECT ... WHERE id = g AND user_id = u
GoalOf(g, u) == goal[g] # Absent /\ goal[g].user = u

\* The active percentage of u's goals other than g, as one SELECT sum() sees it.
ActiveGoals(u, g) == {h \in Goal \ {g} : GoalOf(h, u) /\ goal[h].status = "active"}

AllocatedBeside(u, g) == SumFunction([h \in ActiveGoals(u, g) |-> goal[h].percent])

\* What a goal request uses of the configuration.  _detect_salary selects the row
\* again, but the session keeps the object, and so the values, it has.
Known(u) == [config[u] EXCEPT !.limit = 0]

\* _detect_salary compares with the income day unless set_income is set.
GivesSalary(c) == c.income \/ c.dated

\* SpendingConfigResponse wants an income day and a window, salary or not.
Presentable(c) == c.dated
-----------------------------------------------------------------------------
(* GET, PUT /goals/config and PUT /goals/config/set_income *)

\* get_spending_config: None when there is no row.
ConfigShow(s, u) ==
    /\ AnswerAtOnce(s, IF config[u] = Unset \/ Presentable(config[u]) THEN "ok" ELSE "error")
    /\ UNCHANGED <<goal, config, created, excused>>

\* upsert_daily_limit and upsert_set_income up to their commit; neither inserts.
ConfigLoad(s, u, op, new) ==
    LET r == [Idle EXCEPT !.op = op, !.user = u] IN
    /\ Admit(s, IF config[u] = Unset
                  THEN [r EXCEPT !.at = "answer", !.answer = "no_config"]
                  ELSE [r EXCEPT !.at = "write", !.loaded = config[u], !.asked = new])
    /\ UNCHANGED <<goal, config, created, excused>>

\* The ORM writes the column whose new value differs from the loaded one.
Configure_AllColumns(row, loaded, asked) == asked
Configure(row, loaded, asked) ==
    [row EXCEPT !.limit = IF asked.limit # loaded.limit THEN asked.limit ELSE @,
                !.income = IF asked.income # loaded.income THEN asked.income ELSE @]

\* The commit; the answer is made of the row read again, and may fail after it.
ConfigCommit(s) ==
    LET r == req[s] IN
    /\ r.op \in {"limit", "income"} /\ r.at = "write"
    /\ config' = [config EXCEPT ![r.user] = Configure(@, r.loaded, r.asked)]
    /\ Answer(s, IF Presentable(config[r.user]) THEN "ok" ELSE "error")
    /\ UNCHANGED <<goal, created, excused>>
-----------------------------------------------------------------------------
(* GET, POST, PATCH and DELETE /goals: what is read before the first write *)

\* get_goal; get_goals is the same without the two refusals.
GoalShow(s, u, g) ==
    /\ AnswerAtOnce(s, IF u \notin Configured THEN "no_config"
                       ELSE IF ~GoalOf(g, u) THEN "not_found"
                       ELSE IF GivesSalary(config[u]) THEN "ok" ELSE "error")
    /\ UNCHANGED <<goal, config, created, excused>>

\* _require_spending_config.
CreateLoad(s, u, p) ==
    /\ IdentifiersLeft
    /\ IF u \notin Configured
         THEN AnswerAtOnce(s, "no_config")
         ELSE Admit(s, [Idle EXCEPT !.op = "create", !.at = "validate", !.user = u,
                                    !.askPercent = p, !.loaded = Known(u)])
    /\ UNCHANGED <<goal, config, created, excused>>

\* _require_spending_config and _get_goal_or_404.  A request without a
\* percentage meets no further read before its status is looked at.
UpdateLoad(s, u, g, p, st) ==
    /\ \/ u \notin Configured /\ AnswerAtOnce(s, "no_config")
       \/ u \in Configured /\ ~GoalOf(g, u) /\ AnswerAtOnce(s, "not_found")
       \/ u \in Configured /\ GoalOf(g, u) /\ p = 0 /\ st = "unknown"
          /\ AnswerAtOnce(s, "bad_status")
       \/ /\ u \in Configured
          /\ GoalOf(g, u)
          /\ p # 0 \/ st # "unknown"
          /\ Admit(s, [Idle EXCEPT !.op = "update", !.user = u, !.goal = g,
                                   !.at = IF p # 0 THEN "validate" ELSE "write",
                                   !.askPercent = p, !.askStatus = st,
                                   !.row = goal[g], !.loaded = Known(u)])
    /\ UNCHANGED <<goal, config, created, excused>>

DeleteLoad(s, u, g) ==
    /\ IF GoalOf(g, u)
         THEN Admit(s, [Idle EXCEPT !.op = "delete", !.at = "write", !.user = u, !.goal = g])
         ELSE AnswerAtOnce(s, "not_found")
    /\ UNCHANGED <<goal, config, created, excused>>

Fits_OldSumOnly(sum, p) == sum <= 100
Fits(sum, p) == sum + p <= 100

\* _validate_allocation, then the check of the status before anything is written.
Validate(s) ==
    /\ req[s].at = "validate"
    /\ LET sum == AllocatedBeside(req[s].user, req[s].goal) IN
       \/ ~Fits(sum, req[s].askPercent) /\ Answer(s, "over_limit")
       \/ /\ Fits(sum, req[s].askPercent)
          /\ req[s].askStatus = "unknown"
          /\ Answer(s, "bad_status")
       \/ /\ Fits(sum, req[s].askPercent)
          /\ req[s].askStatus # "unknown"
          /\ Becomes(s, [req[s] EXCEPT !.at = "write", !.sum = sum])
    /\ UNCHANGED <<goal, config, created, excused>>
-----------------------------------------------------------------------------
(* The writes, each with its commit *)

\* History: the percentage was checked against a sum that is no longer the sum.
StaleCheck(s) ==
    req[s].askPercent # 0 /\ req[s].sum # AllocatedBeside(req[s].user, req[s].goal)

\* History: the percentage the goal now has is not the one that was loaded.  When
\* it is asked for again, the ORM sees no change and leaves the newer one.
StaleRow(s) ==
    /\ req[s].op = "update"
    /\ req[s].askPercent # 0
    /\ goal[req[s].goal].percent # req[s].row.percent

\* History: a goal becomes active again without a check.
UncheckedActivation(s) ==
    req[s].askPercent = 0 /\ req[s].askStatus = "active" /\ req[s].row.status # "active"

Excuse(s) ==
    excused' = IF StaleCheck(s) \/ StaleRow(s) \/ UncheckedActivation(s)
                 THEN excused \cup {req[s].user} ELSE excused

CreateInsert(s, g) ==
    /\ req[s].op = "create" /\ req[s].at = "write"
    /\ g \notin created
    /\ goal' = [goal EXCEPT ![g] =
                  [user |-> req[s].user, percent |-> req[s].askPercent, status |-> "active"]]
    /\ created' = created \cup {g}
    /\ Excuse(s)
    /\ Becomes(s, [Past(req[s], "reload", "none") EXCEPT !.goal = g])
    /\ UNCHANGED config

\* The ORM writes the columns whose new value differs from the loaded one.
PercentWritten_Unasked(r) == r.askPercent # r.row.percent
PercentWritten(r) == r.askPercent # 0 /\ r.askPercent # r.row.percent

StatusWritten(r) == r.askStatus # "none" /\ r.askStatus # r.row.status

Written_AllColumns(row, r) ==
    [row EXCEPT !.percent = IF r.askPercent # 0 THEN r.askPercent ELSE r.row.percent,
                !.status = IF r.askStatus # "none" THEN r.askStatus ELSE r.row.status]
Written(row, r) ==
    [row EXCEPT !.percent = IF PercentWritten(r) THEN r.askPercent ELSE @,
                !.status = IF StatusWritten(r) THEN r.askStatus ELSE @]

RowMatched_Upsert(g) == TRUE
RowMatched(g) == goal[g] # Absent

\* With nothing to write the commit is empty; an UPDATE that matches no row is a
\* StaleDataError: 500, and the transaction is rolled back.
UpdateCommit(s) ==
    LET r == req[s]
        dirty == PercentWritten(r) \/ StatusWritten(r) IN
    /\ r.op = "update" /\ r.at = "write"
    /\ IF dirty /\ RowMatched(r.goal)
         THEN goal' = [goal EXCEPT ![r.goal] = Written(@, r)] /\ Excuse(s)
         ELSE UNCHANGED <<goal, excused>>
    /\ Becomes(s, IF dirty /\ ~RowMatched(r.goal) THEN Past(r, "answer", "error")
                                                  ELSE Past(r, "reload", "none"))
    /\ UNCHANGED <<config, created>>

\* The DELETE of a row that is already gone matches nothing and only warns.
DeleteCommit(s) ==
    /\ req[s].op = "delete" /\ req[s].at = "write"
    /\ goal' = [goal EXCEPT ![req[s].goal] = Absent]
    /\ Answer(s, "ok")
    /\ UNCHANGED <<config, created, excused>>

\* session.refresh(goal) fails when the goal was deleted meanwhile; _detect_salary
\* fails when the configuration the request started from gives no salary.
RowReloaded(g) == goal[g] # Absent

GoalReload(s) ==
    /\ req[s].at = "reload"
    /\ Answer(s, IF RowReloaded(req[s].goal) /\ GivesSalary(req[s].loaded)
                   THEN "ok" ELSE "error")
    /\ UNCHANGED <<goal, config, created, excused>>
-----------------------------------------------------------------------------
Deliver(s) ==
    /\ req[s].at = "answer"
    /\ Becomes(s, Idle)
    /\ UNCHANGED <<goal, config, created, excused>>

\* The worker or the connection dies between two steps.
Crash(s) ==
    /\ req[s].at \notin {"idle", "answer"}
    /\ Becomes(s, Idle)
    /\ UNCHANGED <<goal, config, created, excused>>

Arrive(s) ==
    \E u \in User :
        \/ ConfigShow(s, u)
        \/ \E l \in Limit : ConfigLoad(s, u, "limit", [config[u] EXCEPT !.limit = l])
        \/ \E i \in BOOLEAN : ConfigLoad(s, u, "income", [config[u] EXCEPT !.income = i])
        \/ \E g \in created : GoalShow(s, u, g)
        \/ \E p \in Percent : CreateLoad(s, u, p)
        \/ \E g \in created, p \in {0} \cup Percent, st \in Status \cup {"none", "unknown"} :
               UpdateLoad(s, u, g, p, st)
        \/ \E g \in created : DeleteLoad(s, u, g)

Proceed(s) ==
    \/ ConfigCommit(s)
    \/ Validate(s)
    \/ \E g \in Goal : CreateInsert(s, g)
    \/ UpdateCommit(s)
    \/ DeleteCommit(s)
    \/ GoalReload(s)
    \/ Deliver(s)

Next == \E s \in Slot : Arrive(s) \/ Proceed(s) \/ Crash(s)

Spec == Init /\ [][Next]_vars
-----------------------------------------------------------------------------
(* Properties *)

\* The tables and the requests in flight have the shape the models give them.
TypeOK ==
    /\ goal \in [Goal -> GoalRow \cup {Absent}]
    /\ config \in [User -> Setting \cup {Unset}]
    /\ \A u \in User : config[u] = Unset <=> u \notin Configured
    /\ req \in [Slot -> Request]
    /\ {g \in Goal : goal[g] # Absent} \subseteq created
    /\ excused \subseteq User

\* What _validate_allocation promises a user: active goals share out 100% at most.
AllocationCap == \A u \in User : AllocatedBeside(u, NoGoal) <= 100

\* The cap is broken by nothing but a check that was stale when its goal was
\* written, a percentage that changed after it was loaded, or an activation that
\* no check precedes.
CapBrokenOnlyByRaces ==
    \A u \in User \ excused : AllocatedBeside(u, NoGoal) <= 100

\* A goal that was deleted stays deleted, whatever updates were in flight.
DeletedStaysDeleted ==
    [][\A g \in created : goal[g] = Absent => goal'[g] = Absent]_vars

\* A request changes no column it does not mention, however stale what it loaded:
\* of two requests for different columns of a goal or of a configuration neither
\* is lost.
ColumnsAreIndependent ==
    [][/\ \A g \in Goal :
            goal[g] # Absent /\ goal'[g] # Absent =>
                /\ goal'[g].percent # goal[g].percent =>
                      \E s \in Slot : /\ req[s].at = "write" /\ req[s].goal = g
                                     /\ req[s].askPercent = goal'[g].percent
                /\ goal'[g].status # goal[g].status =>
                      \E s \in Slot : /\ req[s].at = "write" /\ req[s].goal = g
                                     /\ req[s].askStatus = goal'[g].status
       /\ \A u \in User :
            /\ config'[u].limit # config[u].limit =>
                  \E s \in Slot : /\ req[s].op = "limit" /\ req[s].user = u
                                 /\ req[s].asked.limit = config'[u].limit
            /\ config'[u].income # config[u].income =>
                  \E s \in Slot : /\ req[s].op = "income" /\ req[s].user = u
                                 /\ req[s].asked.income = config'[u].income]_vars
-----------------------------------------------------------------------------
(* What the program says and no request can do *)

\* Without a configuration every goal request is refused with the advice "Set
\* spending config first (PUT /goals/config)" (services/goals.py:397); so that PUT
\* is not refused for want of a configuration.
AdviceHelps == \A s \in Slot : req[s].op = "limit" => req[s].answer # "no_config"
=============================================================================
