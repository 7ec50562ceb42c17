---------------------------- MODULE GoalsProofs ----------------------------
(***************************************************************************)
(* Theorems about Goals for every set of users, goals, percentages and     *)
(* handlers.  GoalsInv says what a request about to write has established  *)
(* about its row, CapInv what the rows written so come to: the percentages *)
(* of a user's active goals, summed up (SumLemmas).                        *)
(***************************************************************************)
EXTENDS Goals, SumLemmas

-----------------------------------------------------------------------------
(* The inductive invariant. *)

\* Rows of goals are of goals that were created; a configuration is there from the
\* start or never.
TableInv ==
    /\ goal \in [Goal -> GoalRow \cup {Absent}]
    /\ created \subseteq Goal /\ IsFiniteSet(created)
    /\ \A g \in Goal : goal[g] # Absent => g \in created
    /\ config \in [User -> Setting \cup {Unset}]
    /\ \A u \in User : config[u] = Unset <=> u \notin Configured

\* What a request that is about to write has established: whose row it writes, that
\* the status it asks for is a status and the percentage fits beside the sum it read,
\* and that of a configuration it asks for one column only.
Knows(r) ==
    /\ r.at \in {"validate", "write"} /\ r.op = "update" =>
           r.goal \in created /\ r.row \in GoalRow /\ r.user \in User
    /\ r.at \in {"validate", "write"} /\ r.op = "create" =>
           r.user \in User /\ r.askPercent \in Percent /\ r.goal = NoGoal
    /\ r.at = "validate" => r.op \in {"create", "update"}
    /\ r.at = "write" => r.askStatus # "unknown"
    /\ r.at = "write" /\ r.askPercent # 0 => Fits(r.sum, r.askPercent)
    /\ r.op = "create" => r.askStatus = "none"
    /\ r.at = "write" /\ r.op \in {"limit", "income"} =>
           /\ r.user \in Configured /\ r.asked \in Setting
           /\ r.op = "limit" => r.asked.income = r.loaded.income
           /\ r.op = "income" => r.asked.limit = r.loaded.limit

Requests == [Slot -> Request]

RequestInv ==
    /\ req \in Requests
    /\ \A s \in Slot : Knows(req[s])

GoalsInv == TableInv /\ RequestInv

LEMMA UnsetFields ==
    /\ Unset \notin Setting
    /\ Unset \in [limit : Limit \cup {0}, income : BOOLEAN, dated : BOOLEAN]
    /\ \A c \in Setting : c \in [limit : Limit \cup {0}, income : BOOLEAN, dated : BOOLEAN]
BY GoalsAssumption DEF Unset, Setting

LEMMA AbsentFields == Absent \notin GoalRow
BY GoalsAssumption DEF Absent, GoalRow

LEMMA KnownFields ==
    ASSUME NEW u \in User, config[u] \in Setting \cup {Unset}
    PROVE  Known(u) \in [limit : Limit \cup {0}, income : BOOLEAN, dated : BOOLEAN]
BY UnsetFields DEF Known

LEMMA IdleFields ==
    /\ Idle \in Request
    /\ Idle.op = "none" /\ Idle.at = "idle" /\ Idle.askStatus = "none"
BY UnsetFields DEF Idle, Request

-----------------------------------------------------------------------------
(* Sums of percentages. *)

\* The goals of u that a table gives as active, and what they come to without one.
ActiveOf(table, u) ==
    {h \in Goal : table[h] # Absent /\ table[h].user = u /\ table[h].status = "active"}

Beside(table, u, g) ==
    SumFunctionOnSet([h \in ActiveOf(table, u) \ {g} |-> table[h].percent],
                     ActiveOf(table, u) \ {g})

Weight(table, u, g) == IF g \in ActiveOf(table, u) THEN table[g].percent ELSE 0

IsTable(table) ==
    /\ table \in [Goal -> GoalRow \cup {Absent}]
    /\ IsFiniteSet({g \in Goal : table[g] # Absent})

LEMMA AllocatedIsBeside ==
    ASSUME NEW u, NEW g
    PROVE  /\ AllocatedBeside(u, g) = Beside(goal, u, g)
           /\ AllocatedBeside(u, g)' = Beside(goal', u, g)
BY DEF AllocatedBeside, Beside, ActiveGoals, ActiveOf, GoalOf, SumFunction

LEMMA ActiveRows ==
    ASSUME NEW table, IsTable(table), NEW u
    PROVE  /\ IsFiniteSet(ActiveOf(table, u))
           /\ \A h \in ActiveOf(table, u) : h \in Goal /\ table[h].percent \in 1..100
<1>1. ActiveOf(table, u) \in SUBSET {g \in Goal : table[g] # Absent}
  BY DEF ActiveOf
<1>2. IsFiniteSet(ActiveOf(table, u))
  BY <1>1, FS_Subset DEF IsTable
<1>3. ASSUME NEW h \in ActiveOf(table, u) PROVE h \in Goal /\ table[h].percent \in 1..100
  <2>1. h \in Goal /\ table[h] \in GoalRow
    BY DEF ActiveOf, IsTable
  <2>2. QED
    BY <2>1 DEF GoalRow
<1>4. QED
  BY <1>2, <1>3

LEMMA BesideType ==
    ASSUME NEW table, IsTable(table), NEW u, NEW g
    PROVE  Beside(table, u, g) \in Nat
<1> DEFINE A == ActiveOf(table, u) \ {g}
           f == [h \in A |-> table[h].percent]
<1>1. IsFiniteSet(A)
  BY ActiveRows, FS_Subset
<1>2. \A h \in A : f[h] \in Nat
  BY ActiveRows
<1> HIDE DEF A, f
<1>3. SumFunctionOnSet(f, A) \in Nat
  BY <1>1, <1>2, SumType
<1>4. QED
  BY <1>3 DEF Beside, A, f

\* Goal g counts as one summand.
LEMMA BesideOne ==
    ASSUME NEW table, IsTable(table), NEW u, NEW g \in Goal
    PROVE  Beside(table, u, NoGoal) = Weight(table, u, g) + Beside(table, u, g)
<1> DEFINE A == ActiveOf(table, u)
           f == [h \in A |-> table[h].percent]
<1>0. A \ {NoGoal} = A
  BY GoalsAssumption DEF ActiveOf
<1>1. IsFiniteSet(A) /\ IsFiniteSet(A \ {g}) /\ \A h \in A : f[h] \in Int
  BY ActiveRows, FS_Subset
<1>2. SumFunctionOnSet(f, A) = Beside(table, u, NoGoal)
  BY <1>0 DEF Beside
<1>3. SumFunctionOnSet(f, A \ {g}) = Beside(table, u, g)
  <2> DEFINE B == A \ {g}
             e == [h \in B |-> table[h].percent]
  <2>1. IsFiniteSet(B) /\ \A h \in B : f[h] = e[h]
    BY <1>1
  <2>2. SumFunctionOnSet(e, B) = Beside(table, u, g)
    BY DEF Beside
  <2> HIDE DEF B, e, f
  <2>3. SumFunctionOnSet(f, B) = SumFunctionOnSet(e, B)
    BY <2>1, SumSame
  <2>4. QED
    BY <2>2, <2>3 DEF B
<1>4. CASE g \in A
  <2>1. f[g] = Weight(table, u, g)
    BY <1>4 DEF Weight
  <2> HIDE DEF f, A
  <2>2. SumFunctionOnSet(f, A) = f[g] + SumFunctionOnSet(f, A \ {g})
    BY <1>1, <1>4, SumWithout
  <2>3. QED
    BY <1>2, <1>3, <2>1, <2>2
<1>5. CASE g \notin A
  <2>1. A \ {g} = A /\ Weight(table, u, g) = 0
    BY <1>5 DEF Weight
  <2>2. Beside(table, u, NoGoal) = Beside(table, u, g) /\ Beside(table, u, g) \in Nat
    BY <1>2, <1>3, <2>1, BesideType
  <2>3. QED
    BY <2>1, <2>2
<1>6. QED
  BY <1>4, <1>5

\* A write to row g leaves what the other goals come to.
LEMMA BesideKept ==
    ASSUME NEW old, IsTable(old), NEW new, IsTable(new), NEW u, NEW g,
           \A h \in Goal \ {g} : new[h] = old[h]
    PROVE  Beside(new, u, g) = Beside(old, u, g)
<1> DEFINE A == ActiveOf(old, u) \ {g}
           e == [h \in A |-> old[h].percent]
           f == [h \in A |-> new[h].percent]
<1>1. ActiveOf(new, u) \ {g} = A
  BY DEF ActiveOf
<1>2. e = f
  BY DEF ActiveOf
<1>3. Beside(new, u, g) = SumFunctionOnSet(f, A) /\ Beside(old, u, g) = SumFunctionOnSet(e, A)
  BY <1>1 DEF Beside
<1>4. QED
  BY <1>2, <1>3

LEMMA CreatedTable ==
    ASSUME NEW table \in [Goal -> GoalRow \cup {Absent}], NEW C, IsFiniteSet(C),
           \A g \in Goal : table[g] # Absent => g \in C
    PROVE  IsTable(table)
<1>1. {g \in Goal : table[g] # Absent} \in SUBSET C
  OBVIOUS
<1>2. QED
  BY <1>1, FS_Subset DEF IsTable

LEMMA GoalTable ==
    /\ TableInv => IsTable(goal)
    /\ TableInv' => IsTable(goal')
BY CreatedTable DEF TableInv

LEMMA AllocatedType == ASSUME TableInv, NEW u, NEW g PROVE AllocatedBeside(u, g) \in Nat
BY GoalTable, AllocatedIsBeside, BesideType

LEMMA GoalsInvInit == Init => GoalsInv
<1> SUFFICES ASSUME Init PROVE GoalsInv
    OBVIOUS
<1>1. TableInv
  BY FS_EmptySet DEF Init, TableInv
<1>2. req \in Requests
  BY IdleFields DEF Init, Requests
<1>3. \A s \in Slot : Knows(req[s])
  <2>1. Idle.op = "none" /\ Idle.at = "idle" /\ Idle.askStatus = "none"
    BY DEF Idle
  <2>2. QED
    BY <2>1 DEF Init, Knows
<1>4. QED
  BY <1>1, <1>2, <1>3 DEF GoalsInv, RequestInv

-----------------------------------------------------------------------------
(* Steps of one request. *)

\* Only request s changes.
Serves(s) ==
    /\ req' \in Requests
    /\ \A q \in Slot \ {s} : req'[q] = req[q]

LEMMA BecomesServes ==
    ASSUME req \in [Slot -> Request],
           NEW s \in Slot, NEW r \in Request, Becomes(s, r)
    PROVE  Serves(s) /\ req'[s] = r
BY DEF Becomes, Serves, Requests

\* The requests' half of the invariant.
LEMMA Served ==
    ASSUME GoalsInv, NEW s \in Slot, Serves(s), Knows(req[s])', created \subseteq created'
    PROVE  RequestInv'
<1>1. ASSUME NEW q \in Slot, q # s PROVE Knows(req[q])'
  <2>1. Knows(req[q]) /\ req'[q] = req[q]
    BY <1>1 DEF GoalsInv, RequestInv, Serves
  <2>2. QED
    BY <2>1 DEF Knows
<1>2. QED
  BY <1>1 DEF RequestInv, Serves, Requests

LEMMA WrittenRow ==
    ASSUME NEW r \in Request, r.askStatus # "unknown", NEW row \in GoalRow
    PROVE  Written(row, r) \in GoalRow
<1>1. /\ r.askPercent \in {0} \cup Percent
      /\ r.askStatus \in Status \cup {"none"}
  BY DEF Request
<1>2. /\ (IF PercentWritten(r) THEN r.askPercent ELSE row.percent) \in 1..100
      /\ (IF StatusWritten(r) THEN r.askStatus ELSE row.status) \in Status
  BY <1>1, GoalsAssumption DEF PercentWritten, StatusWritten, GoalRow
<1>3. QED
  BY <1>2 DEF Written, GoalRow

LEMMA ConfiguredRow ==
    ASSUME NEW row \in Setting, NEW loaded, NEW asked \in Setting
    PROVE  Configure(row, loaded, asked) \in Setting
BY DEF Configure, Setting

LEMMA IdleFor ==
    ASSUME NEW u \in User \cup {NoUser}, NEW g \in Goal \cup {NoGoal},
           NEW c \in [limit : Limit \cup {0}, income : BOOLEAN, dated : BOOLEAN]
    PROVE  [Idle EXCEPT !.user = u, !.goal = g, !.loaded = c] \in Request
BY UnsetFields DEF Idle, Request

LEMMA PastFields ==
    ASSUME NEW r \in Request,
           NEW step \in {"reload", "answer"},
           NEW a \in {"none", "ok", "no_config", "not_found", "over_limit", "bad_status", "error"}
    PROVE  /\ Past(r, step, a) \in Request
           /\ Past(r, step, a).at = step
           /\ Past(r, step, a).op = r.op
           /\ Past(r, step, a).goal = r.goal
           /\ Past(r, step, a).askStatus = "none"
<1> DEFINE c == IF step = "reload" THEN r.loaded ELSE Unset
<1>1. /\ r.op \in {"none", "create", "update", "delete", "limit", "income"}
      /\ r.user \in User \cup {NoUser}
      /\ r.goal \in Goal \cup {NoGoal}
  BY DEF Request
<1>2. c \in [limit : Limit \cup {0}, income : BOOLEAN, dated : BOOLEAN]
  BY UnsetFields DEF Request
<1>3. Past(r, step, a) = [Idle EXCEPT !.op = r.op, !.user = r.user, !.goal = r.goal, !.at = step,
                                      !.answer = a, !.loaded = c]
  BY DEF Past
<1> DEFINE op == r.op
           u == r.user
           g == r.goal
           p == Past(r, step, a)
<1> HIDE DEF c, op, u, g, p
<1>4. p = [Idle EXCEPT !.op = op, !.user = u, !.goal = g, !.at = step,
                       !.answer = a, !.loaded = c]
  BY <1>3 DEF op, u, g, p
<1>5. /\ op \in {"none", "create", "update", "delete", "limit", "income"}
      /\ u \in User \cup {NoUser}
      /\ g \in Goal \cup {NoGoal}
  BY <1>1 DEF op, u, g
<1>6. p \in Request /\ p.at = step /\ p.op = op /\ p.goal = g /\ p.askStatus = "none"
  <2>1. p.at = step /\ p.op = op /\ p.goal = g /\ p.askStatus = "none"
    BY <1>4 DEF Idle
  <2> DEFINE t == [Idle EXCEPT !.user = u, !.goal = g, !.loaded = c]
             t1 == [t EXCEPT !.op = op]
             t2 == [t1 EXCEPT !.at = step]
             t3 == [t2 EXCEPT !.answer = a]
  <2>2. p = t3
    BY <1>4 DEF Idle
  <2>3. t \in Request
    BY <1>2, <1>5, IdleFor
  <2> HIDE DEF t
  <2>4. t1 \in Request
    BY <1>5, <2>3 DEF Request
  <2> HIDE DEF t1
  <2>5. t2 \in Request
    BY <2>4 DEF Request
  <2> HIDE DEF t2
  <2>6. t3 \in Request
    BY <2>5 DEF Request
  <2> HIDE DEF t3
  <2>7. QED
    BY <2>1, <2>2, <2>6
<1>7. QED
  BY <1>6 DEF op, g, p

LEMMA TablesKept ==
    ASSUME TableInv, UNCHANGED <<goal, config, created>> PROVE TableInv'
BY DEF TableInv

\* Nothing is known of a request that is answered, or over.
LEMMA QuietStep ==
    ASSUME GoalsInv, NEW s \in Slot,
           \/ \E a \in {"ok", "no_config", "not_found", "over_limit", "bad_status", "error"} :
                Answer(s, a) \/ AnswerAtOnce(s, a)
           \/ Becomes(s, Idle)
    PROVE  Serves(s) /\ req'[s].at \in {"answer", "idle"} /\ Knows(req[s])'
<1>1. req \in [Slot -> Request]
  BY DEF GoalsInv, RequestInv, Requests
<1>2. Knows(req[s]) /\ req[s] \in Request
  BY <1>1 DEF GoalsInv, RequestInv
<1>3. ASSUME NEW a \in {"ok", "no_config", "not_found", "over_limit", "bad_status", "error"},
             Answer(s, a)
      PROVE  Serves(s) /\ req'[s].at = "answer" /\ Knows(req[s])'
  <2> DEFINE r == Past(req[s], "answer", a)
  <2>1. r \in Request /\ r.at = "answer" /\ r.op = req[s].op /\ r.askStatus = "none"
    BY <1>1, <1>2, PastFields
  <2>2. Serves(s) /\ req'[s] = r
    BY <1>1, <1>3, <2>1, BecomesServes DEF Answer
  <2>3. QED
    BY <2>1, <2>2 DEF Knows
<1>4. ASSUME NEW a \in {"ok", "no_config", "not_found", "over_limit", "bad_status", "error"},
             AnswerAtOnce(s, a)
      PROVE  Serves(s) /\ req'[s].at = "answer" /\ Knows(req[s])'
  <2> DEFINE r == [Idle EXCEPT !.at = "answer", !.answer = a]
  <2>1. r \in Request /\ r.at = "answer" /\ r.op = "none" /\ r.askStatus = "none"
    BY <1>1, UnsetFields DEF Idle, Request
  <2>2. Serves(s) /\ req'[s] = r
    BY <1>1, <1>4, <2>1, BecomesServes DEF AnswerAtOnce, Admit
  <2>3. QED
    BY <2>1, <2>2 DEF Knows
<1>5. ASSUME Becomes(s, Idle)
      PROVE  Serves(s) /\ req'[s].at = "idle" /\ Knows(req[s])'
  <2>1. Serves(s) /\ req'[s] = Idle
    BY <1>1, <1>5, IdleFields, BecomesServes
  <2>2. QED
    BY <1>1, <2>1, IdleFields DEF Knows
<1>6. QED
  BY <1>3, <1>4, <1>5

LEMMA ArriveKeeps ==
    ASSUME NEW s \in Slot, Arrive(s) PROVE UNCHANGED <<goal, config, created>>
<1>1. PICK u \in User :
        \/ ConfigShow(s, u)
        \/ \E l \in Limit : ConfigLoad(s, u, "limit", [config[u] EXCEPT !.limit = l])
        \/ \E i \in BOOLEAN : ConfigLoad(s, u, "income", [config[u] EXCEPT !.income = i])
        \/ \E g \in created : GoalShow(s, u, g)
        \/ \E p \in Percent : CreateLoad(s, u, p)
        \/ \E g \in created, p \in {0} \cup Percent, st \in Status \cup {"none", "unknown"} :
               UpdateLoad(s, u, g, p, st)
        \/ \E g \in created : DeleteLoad(s, u, g)
  BY DEF Arrive
<1>2. ASSUME NEW op, NEW new, ConfigLoad(s, u, op, new)
      PROVE  UNCHANGED <<goal, config, created>>
  BY <1>2 DEF ConfigLoad
<1>3. ASSUME NEW p, CreateLoad(s, u, p) PROVE UNCHANGED <<goal, config, created>>
  BY <1>3 DEF CreateLoad
<1>4. ASSUME NEW g, NEW p, NEW st, UpdateLoad(s, u, g, p, st)
      PROVE  UNCHANGED <<goal, config, created>>
  BY <1>4 DEF UpdateLoad
<1>5. ASSUME NEW g, ConfigShow(s, u) \/ GoalShow(s, u, g) \/ DeleteLoad(s, u, g)
      PROVE  UNCHANGED <<goal, config, created>>
  BY <1>5 DEF ConfigShow, GoalShow, DeleteLoad
<1>6. QED
  BY <1>1, <1>2, <1>3, <1>4, <1>5

LEMMA ReadersKeep ==
    ASSUME NEW s \in Slot, Validate(s) \/ GoalReload(s) \/ Deliver(s) \/ Crash(s)
    PROVE  UNCHANGED <<goal, config, created>>
BY DEF Validate, GoalReload, Deliver, Crash

-----------------------------------------------------------------------------
(* The invariant is inductive: one step for each action. *)

LEMMA GoalsInvStep == GoalsInv /\ [Next]_vars => GoalsInv'
<1> SUFFICES ASSUME GoalsInv, [Next]_vars PROVE GoalsInv'
    OBVIOUS
<1> USE DEF GoalsInv
<1>q. ASSUME NEW s \in Slot, UNCHANGED <<goal, config, created>>,
             Serves(s), Knows(req[s])'
      PROVE  GoalsInv'
  BY <1>q, TablesKept, Served
<1>a. ASSUME NEW s \in Slot, UNCHANGED <<goal, config, created>>,
             \/ \E a \in {"ok", "no_config", "not_found", "over_limit", "bad_status", "error"} :
                  Answer(s, a) \/ AnswerAtOnce(s, a)
             \/ Becomes(s, Idle)
      PROVE  GoalsInv'
  BY <1>a, <1>q, QuietStep
<1>p. req \in [Slot -> Request]
  BY DEF RequestInv, Requests
<1>1. ASSUME NEW s \in Slot, NEW u \in User, ConfigShow(s, u) PROVE GoalsInv'
  BY <1>1, <1>a DEF ConfigShow
<1>2. ASSUME NEW s \in Slot, NEW u \in User, NEW op \in {"limit", "income"},
             NEW new, ConfigLoad(s, u, op, new),
             config[u] # Unset => /\ new \in Setting
                                  /\ op = "limit" => new.income = config[u].income
                                  /\ op = "income" => new.limit = config[u].limit
      PROVE  GoalsInv'
  <2> DEFINE q == [Idle EXCEPT !.op = op, !.user = u]
             refused == [q EXCEPT !.at = "answer", !.answer = "no_config"]
             loads == [q EXCEPT !.at = "write", !.loaded = config[u], !.asked = new]
  <2>1. /\ q \in Request /\ q.op = op /\ q.user = u
        /\ q.askStatus = "none" /\ q.askPercent = 0
    BY <1>p, UnsetFields DEF Idle, Request
  <2> HIDE DEF q
  <2>2. CASE config[u] = Unset
    <3> DEFINE q1 == [q EXCEPT !.at = "answer"]
    <3>0. q1 \in Request
      BY <2>1 DEF Request
    <3>r. refused = [q1 EXCEPT !.answer = "no_config"]
      OBVIOUS
    <3> HIDE DEF q1, refused
    <3>1. refused \in Request
      BY <3>0, <3>r DEF Request
    <3>2. refused.at = "answer" /\ refused.op = op /\ refused.askStatus = "none"
      BY <2>1 DEF Request, refused
    <3>3. Serves(s) /\ req'[s] = refused
      BY <1>p, <1>2, <2>2, <3>1, BecomesServes DEF ConfigLoad, Admit, q, refused
    <3>4. Knows(req[s])'
      BY <3>2, <3>3 DEF Knows
    <3>5. QED
      BY <1>2, <1>q, <3>3, <3>4 DEF ConfigLoad
  <2>3. CASE config[u] # Unset
    <3>1. /\ config[u] \in Setting /\ u \in Configured
          /\ config[u] \in [limit : Limit \cup {0}, income : BOOLEAN, dated : BOOLEAN]
      BY <2>3, UnsetFields DEF TableInv
    <3> DEFINE q1 == [q EXCEPT !.at = "write"]
               q2 == [q1 EXCEPT !.loaded = config[u]]
    <3>a. loads = [q2 EXCEPT !.asked = new]
      OBVIOUS
    <3>b. q1 \in Request
      BY <2>1 DEF Request
    <3> HIDE DEF q1
    <3>c. q2 \in Request
      BY <3>1, <3>b DEF Request
    <3>n. new \in Setting
      BY <1>2, <2>3
    <3> HIDE DEF q2, loads
    <3>2. loads \in Request
      BY <3>a, <3>c, <3>n DEF Request
    <3>3. /\ loads.at = "write" /\ loads.op = op /\ loads.user = u
          /\ loads.loaded = config[u] /\ loads.asked = new
          /\ loads.askStatus = "none" /\ loads.askPercent = 0
      BY <2>1 DEF Request, loads
    <3>4. Serves(s) /\ req'[s] = loads
      BY <1>p, <1>2, <2>3, <3>2, BecomesServes DEF ConfigLoad, Admit, q, loads
    <3>5. Knows(req[s])'
      BY <1>2, <2>3, <3>1, <3>3, <3>4 DEF Knows
    <3>6. QED
      BY <1>2, <1>q, <3>4, <3>5 DEF ConfigLoad
  <2>4. QED
    BY <2>2, <2>3
<1>3. ASSUME NEW s \in Slot, NEW u \in User, NEW g \in created, GoalShow(s, u, g)
      PROVE  GoalsInv'
  BY <1>3, <1>a DEF GoalShow
<1>4. ASSUME NEW s \in Slot, NEW u \in User, NEW p \in Percent, CreateLoad(s, u, p)
      PROVE  GoalsInv'
  <2>1. CASE u \notin Configured
    BY <1>4, <1>a, <2>1 DEF CreateLoad
  <2>2. CASE u \in Configured
    <3> DEFINE k == Known(u)
               r == [Idle EXCEPT !.op = "create", !.at = "validate", !.user = u,
                                 !.askPercent = p, !.loaded = k]
    <3>1. k \in [limit : Limit \cup {0}, income : BOOLEAN, dated : BOOLEAN]
      BY <2>2, KnownFields DEF TableInv
    <3>2. Becomes(s, r)
      BY <1>4, <2>2 DEF CreateLoad, Admit
    <3> HIDE DEF k
    <3>3. r \in Request
      BY <1>p, <3>1, UnsetFields DEF Idle, Request
    <3>4. /\ r.op = "create" /\ r.at = "validate" /\ r.user = u
          /\ r.askPercent = p /\ r.askStatus = "none" /\ r.goal = NoGoal
      BY DEF Idle
    <3> HIDE DEF r
    <3>5. Serves(s) /\ req'[s] = r
      BY <1>p, <3>2, <3>3, BecomesServes
    <3>6. Knows(req[s])'
      BY <3>4, <3>5 DEF Knows
    <3>7. QED
      BY <1>4, <1>q, <3>5, <3>6 DEF CreateLoad
  <2>3. QED
    BY <2>1, <2>2
<1>5. ASSUME NEW s \in Slot, NEW u \in User, NEW g \in created, NEW p \in {0} \cup Percent,
             NEW st \in Status \cup {"none", "unknown"}, UpdateLoad(s, u, g, p, st)
      PROVE  GoalsInv'
  <2> DEFINE k == Known(u)
             step == IF p # 0 THEN "validate" ELSE "write"
             r == [Idle EXCEPT !.op = "update", !.user = u, !.goal = g, !.at = step,
                               !.askPercent = p, !.askStatus = st,
                               !.row = goal[g], !.loaded = k]
  <2>1. UNCHANGED <<goal, config, created>>
    BY <1>5 DEF UpdateLoad
  <2>2. CASE AnswerAtOnce(s, "no_config") \/ AnswerAtOnce(s, "not_found")
             \/ AnswerAtOnce(s, "bad_status")
    BY <1>a, <2>1, <2>2
  <2>3. CASE /\ u \in Configured /\ GoalOf(g, u) /\ (p # 0 \/ st # "unknown")
             /\ Becomes(s, r)
    <3>1. k \in [limit : Limit \cup {0}, income : BOOLEAN, dated : BOOLEAN]
      BY <2>3, KnownFields DEF TableInv
    <3>2. goal[g] \in GoalRow /\ g \in Goal
      BY <2>3 DEF GoalOf, TableInv
    <3>3. step \in {"validate", "write"} /\ (step = "write" => st # "unknown" /\ p = 0)
      BY <2>3
    <3> HIDE DEF k, step
    <3>4. r \in Request
      BY <1>p, <3>1, <3>2, <3>3, UnsetFields DEF Idle, Request
    <3>5. /\ r.op = "update" /\ r.at = step /\ r.goal = g /\ r.row = goal[g]
          /\ r.user = u /\ r.askStatus = st /\ r.askPercent = p
      BY DEF Idle
    <3> HIDE DEF r
    <3>6. Serves(s) /\ req'[s] = r
      BY <1>p, <2>3, <3>4, BecomesServes
    <3>7. Knows(req[s])'
      BY <2>1, <3>2, <3>3, <3>5, <3>6 DEF Knows
    <3>8. QED
      BY <1>q, <2>1, <3>6, <3>7
  <2>4. QED
    BY <1>5, <2>2, <2>3 DEF UpdateLoad, Admit
<1>6. ASSUME NEW s \in Slot, NEW u \in User, NEW g \in created, DeleteLoad(s, u, g)
      PROVE  GoalsInv'
  <2>1. CASE ~GoalOf(g, u)
    BY <1>6, <1>a, <2>1 DEF DeleteLoad
  <2>2. CASE GoalOf(g, u)
    <3> DEFINE r == [Idle EXCEPT !.op = "delete", !.at = "write", !.user = u, !.goal = g]
    <3>1. g \in Goal
      BY DEF TableInv
    <3>2. r \in Request
      BY <1>p, <3>1, UnsetFields DEF Idle, Request
    <3>3. r.op = "delete" /\ r.at = "write" /\ r.askStatus = "none" /\ r.askPercent = 0
      BY DEF Idle
    <3>4. Becomes(s, r)
      BY <1>6, <2>2 DEF DeleteLoad, Admit
    <3> HIDE DEF r
    <3>5. Serves(s) /\ req'[s] = r
      BY <1>p, <3>2, <3>4, BecomesServes
    <3>6. Knows(req[s])'
      BY <3>3, <3>5 DEF Knows
    <3>7. QED
      BY <1>6, <1>q, <3>5, <3>6 DEF DeleteLoad
  <2>3. QED
    BY <2>1, <2>2
<1>7. ASSUME NEW s \in Slot, Validate(s) PROVE GoalsInv'
  <2> DEFINE sum == AllocatedBeside(req[s].user, req[s].goal)
             r == [req[s] EXCEPT !.at = "write", !.sum = sum]
  <2>1. UNCHANGED <<goal, config, created>> /\ req[s].at = "validate"
    BY <1>7 DEF Validate
  <2>2. CASE Answer(s, "over_limit") \/ Answer(s, "bad_status")
    BY <1>a, <2>1, <2>2
  <2>3. CASE /\ req[s].askStatus # "unknown" /\ Fits(sum, req[s].askPercent)
             /\ Becomes(s, r)
    <3>1. sum \in Nat
      BY AllocatedType
    <3> HIDE DEF sum
    <3>r. req[s] \in Request
      BY <1>p
    <3> DEFINE r1 == [req[s] EXCEPT !.at = "write"]
    <3>a. r = [r1 EXCEPT !.sum = sum]
      OBVIOUS
    <3>b. r1 \in Request
      BY <3>r DEF Request
    <3> HIDE DEF r1, r
    <3>2. r \in Request
      BY <3>1, <3>a, <3>b DEF Request
    <3>3. /\ r.op = req[s].op /\ r.at = "write" /\ r.goal = req[s].goal
          /\ r.row = req[s].row /\ r.askStatus = req[s].askStatus /\ r.user = req[s].user
          /\ r.askPercent = req[s].askPercent /\ r.sum = sum
      BY <3>1, <3>r DEF Request, r
    <3>4. Knows(req[s])
      BY DEF RequestInv
    <3>5. Becomes(s, r)
      BY <2>3 DEF r
    <3>6. Serves(s) /\ req'[s] = r
      BY <1>p, <3>2, <3>5, BecomesServes
    <3>7. Knows(req[s])'
      BY <2>1, <2>3, <3>3, <3>4, <3>6 DEF Knows
    <3>8. QED
      BY <1>q, <2>1, <3>6, <3>7
  <2>4. QED
    BY <1>7, <2>2, <2>3 DEF Validate
<1>8. ASSUME NEW s \in Slot, NEW g \in Goal, CreateInsert(s, g) PROVE GoalsInv'
  <2> DEFINE row == [user |-> req[s].user, percent |-> req[s].askPercent, status |-> "active"]
  <2>1. /\ req[s].op = "create" /\ req[s].at = "write" /\ Knows(req[s])
        /\ goal' = [goal EXCEPT ![g] = row]
        /\ created' = created \cup {g} /\ UNCHANGED config
    BY <1>8 DEF CreateInsert, RequestInv
  <2>2. row \in GoalRow
    BY <2>1, GoalsAssumption DEF Knows, GoalRow, Status
  <2> HIDE DEF row
  <2>3. TableInv'
    BY <2>1, <2>2, FS_AddElement DEF TableInv
  <2> DEFINE p == Past(req[s], "reload", "none")
             r == [p EXCEPT !.goal = g]
  <2>4. req[s] \in Request
    BY <1>p
  <2>5. p \in Request /\ p.at = "reload" /\ p.askStatus = "none"
    BY <1>p, <2>4, PastFields
  <2>6. Becomes(s, r)
    BY <1>8 DEF CreateInsert
  <2> HIDE DEF p
  <2>7. r \in Request /\ r.at = "reload" /\ r.askStatus = "none"
    BY <2>5 DEF Request
  <2> HIDE DEF r
  <2>8. Serves(s) /\ req'[s] = r
    BY <1>p, <2>6, <2>7, BecomesServes
  <2>9. Knows(req[s])'
    BY <2>7, <2>8 DEF Knows
  <2>10. QED
    BY <2>1, <2>3, <2>8, <2>9, Served
<1>9. ASSUME NEW s \in Slot, UpdateCommit(s) PROVE GoalsInv'
  <2> DEFINE a == req[s]
  <2>1. /\ a \in Request /\ Knows(a) /\ a.op = "update" /\ a.at = "write"
        /\ UNCHANGED <<config, created>>
    BY <1>p, <1>9 DEF UpdateCommit, RequestInv
  <2>2. goal' = goal \/ (RowMatched(a.goal) /\ goal' = [goal EXCEPT ![a.goal] = Written(@, a)])
    BY <1>9 DEF UpdateCommit
  <2>3. Becomes(s, Past(a, "answer", "error")) \/ Becomes(s, Past(a, "reload", "none"))
    BY <1>9 DEF UpdateCommit
  <2>4. ASSUME NEW row \in GoalRow PROVE Written(row, a) \in GoalRow
    <3>1. a.askStatus # "unknown"
      BY <2>1 DEF Knows
    <3>2. QED
      BY <2>1, <3>1, WrittenRow
  <2>5. TableInv'
    <3>1. CASE goal' = goal
      BY <2>1, <3>1, TablesKept
    <3>2. CASE RowMatched(a.goal) /\ goal' = [goal EXCEPT ![a.goal] = Written(@, a)]
      <4>1. a.goal \in created /\ goal[a.goal] \in GoalRow
        BY <2>1, <3>2 DEF Knows, RowMatched, TableInv
      <4>2. Written(goal[a.goal], a) \in GoalRow
        BY <2>4, <4>1
      <4>3. QED
        BY <2>1, <3>2, <4>1, <4>2 DEF TableInv
    <3>3. QED
      BY <2>2, <3>1, <3>2
  <2>6. ASSUME NEW step \in {"reload", "answer"}, NEW w \in {"none", "error"},
               Becomes(s, Past(a, step, w))
        PROVE  GoalsInv'
    <3> DEFINE p == Past(a, step, w)
    <3>1. p \in Request /\ p.at = step /\ p.op = "update" /\ p.askStatus = "none"
      BY <1>p, <2>1, PastFields
    <3>2. Becomes(s, p)
      BY <2>6
    <3> HIDE DEF p
    <3>3. Serves(s) /\ req'[s] = p
      BY <1>p, <3>1, <3>2, BecomesServes
    <3>4. Knows(req[s])'
      BY <3>1, <3>3 DEF Knows
    <3>5. QED
      BY <2>1, <2>5, <3>3, <3>4, Served
  <2>7. QED
    BY <2>3, <2>6
<1>10. ASSUME NEW s \in Slot, DeleteCommit(s) PROVE GoalsInv'
  <2>1. UNCHANGED <<config, created>> /\ goal' = [goal EXCEPT ![req[s].goal] = Absent]
    BY <1>10 DEF DeleteCommit
  <2>2. TableInv'
    BY <2>1 DEF TableInv
  <2>3. Serves(s) /\ Knows(req[s])'
    BY <1>10, QuietStep DEF DeleteCommit
  <2>4. QED
    BY <2>1, <2>2, <2>3, Served
<1>11. ASSUME NEW s \in Slot, ConfigCommit(s) PROVE GoalsInv'
  <2> DEFINE a == req[s]
  <2>1. /\ a \in Request /\ Knows(a)
        /\ a.op \in {"limit", "income"} /\ a.at = "write"
        /\ config' = [config EXCEPT ![a.user] = Configure(@, a.loaded, a.asked)]
        /\ UNCHANGED <<goal, created>>
    BY <1>p, <1>11 DEF ConfigCommit, RequestInv
  <2>2. a.user \in Configured /\ a.user \in User /\ a.asked \in Setting
    BY <2>1, GoalsAssumption DEF Knows
  <2>3. config[a.user] \in Setting
    BY <2>2 DEF TableInv
  <2>4. Configure(config[a.user], a.loaded, a.asked) \in Setting
    BY <2>2, <2>3, ConfiguredRow
  <2>5. TableInv'
    BY <2>1, <2>2, <2>4, UnsetFields DEF TableInv
  <2>6. Serves(s) /\ Knows(req[s])'
    BY <1>11, QuietStep DEF ConfigCommit
  <2>7. QED
    BY <2>1, <2>5, <2>6, Served
<1>12. ASSUME NEW s \in Slot, GoalReload(s) \/ Deliver(s) \/ Crash(s) PROVE GoalsInv'
  BY <1>12, <1>a DEF GoalReload, Deliver, Crash
<1>13. CASE UNCHANGED vars
  <2>1. TableInv'
    BY <1>13, TablesKept DEF vars
  <2>2. RequestInv'
    BY <1>13 DEF vars, RequestInv, Requests, Knows
  <2>3. QED
    BY <2>1, <2>2
<1>14. ASSUME NEW s \in Slot, Arrive(s) PROVE GoalsInv'
  <2>1. PICK u \in User :
          \/ ConfigShow(s, u)
          \/ \E l \in Limit : ConfigLoad(s, u, "limit", [config[u] EXCEPT !.limit = l])
          \/ \E i \in BOOLEAN : ConfigLoad(s, u, "income", [config[u] EXCEPT !.income = i])
          \/ \E g \in created : GoalShow(s, u, g)
          \/ \E p \in Percent : CreateLoad(s, u, p)
          \/ \E g \in created, p \in {0} \cup Percent, st \in Status \cup {"none", "unknown"} :
                 UpdateLoad(s, u, g, p, st)
          \/ \E g \in created : DeleteLoad(s, u, g)
    BY <1>14 DEF Arrive
  <2>2. config[u] # Unset => config[u] \in Setting
    BY DEF TableInv
  <2>3. ASSUME NEW l \in Limit, ConfigLoad(s, u, "limit", [config[u] EXCEPT !.limit = l])
        PROVE  GoalsInv'
    <3>1. config[u] # Unset => /\ [config[u] EXCEPT !.limit = l] \in Setting
                              /\ [config[u] EXCEPT !.limit = l].income = config[u].income
      BY <2>2 DEF Setting
    <3>2. QED
      BY <1>2, <2>3, <3>1
  <2>4. ASSUME NEW i \in BOOLEAN, ConfigLoad(s, u, "income", [config[u] EXCEPT !.income = i])
        PROVE  GoalsInv'
    <3>1. config[u] # Unset => /\ [config[u] EXCEPT !.income = i] \in Setting
                              /\ [config[u] EXCEPT !.income = i].limit = config[u].limit
      BY <2>2 DEF Setting
    <3>2. QED
      BY <1>2, <2>4, <3>1
  <2>5. QED
    BY <1>1, <1>3, <1>4, <1>5, <1>6, <2>1, <2>3, <2>4
<1>15. ASSUME NEW s \in Slot, Proceed(s) \/ Crash(s) PROVE GoalsInv'
  BY <1>7, <1>8, <1>9, <1>10, <1>11, <1>12, <1>15 DEF Proceed
<1>16. QED
  BY <1>13, <1>14, <1>15 DEF Next

\* The tables keep their shape, and every request about to write knows its row.
THEOREM GoalsInvariant == Spec => []GoalsInv
<1>1. QED
  BY GoalsInvInit, GoalsInvStep, PTL DEF Spec

-----------------------------------------------------------------------------
(* Two properties of the steps. *)

\* A goal that was deleted stays deleted: no UPDATE in flight puts a row back, and
\* no goal gets the identifier of an earlier one.
THEOREM DeletionIsFinal == Spec => DeletedStaysDeleted
<1>1. ASSUME GoalsInv, [Next]_vars, NEW g \in created, goal[g] = Absent
      PROVE  goal'[g] = Absent
  <2>1. g \in Goal
    BY <1>1 DEF GoalsInv, TableInv
  <2>2. ASSUME NEW s \in Slot, NEW h \in Goal, CreateInsert(s, h) PROVE goal'[g] = Absent
    BY <1>1, <2>1, <2>2 DEF CreateInsert, GoalsInv, TableInv
  <2>3. ASSUME NEW s \in Slot, UpdateCommit(s) PROVE goal'[g] = Absent
    BY <1>1, <2>1, <2>3 DEF UpdateCommit, RowMatched, GoalsInv, TableInv
  <2>4. ASSUME NEW s \in Slot, DeleteCommit(s) PROVE goal'[g] = Absent
    BY <1>1, <2>1, <2>4 DEF DeleteCommit, GoalsInv, TableInv
  <2>5. ASSUME NEW s \in Slot, Arrive(s) \/ Crash(s) \/ ConfigCommit(s) \/ Validate(s)
                               \/ GoalReload(s) \/ Deliver(s)
        PROVE  goal' = goal
    BY <2>5, ArriveKeeps, ReadersKeep DEF ConfigCommit
  <2>6. CASE UNCHANGED vars
    BY <1>1, <2>6 DEF vars
  <2>7. QED
    BY <1>1, <2>2, <2>3, <2>4, <2>5, <2>6 DEF Next, Proceed
<1>2. GoalsInv /\ [Next]_vars => [\A g \in created : goal[g] = Absent => goal'[g] = Absent]_vars
  BY <1>1
<1>3. QED
  BY <1>2, GoalsInvariant, PTL DEF Spec, DeletedStaysDeleted

\* A write changes only the columns that its request asks for.
LEMMA WrittenColumns ==
    ASSUME NEW row, NEW r
    PROVE  /\ row \in GoalRow /\ Written(row, r).percent # row.percent =>
                  r.askPercent = Written(row, r).percent
           /\ row \in GoalRow /\ Written(row, r).status # row.status =>
                  r.askStatus = Written(row, r).status
BY DEF Written, PercentWritten, StatusWritten, GoalRow

LEMMA ConfiguredColumns ==
    ASSUME NEW row \in Setting, NEW loaded, NEW asked
    PROVE  LET new == Configure(row, loaded, asked)
           IN  /\ new.limit # row.limit => asked.limit # loaded.limit /\ asked.limit = new.limit
               /\ new.income # row.income => asked.income # loaded.income /\ asked.income = new.income
BY DEF Configure, Setting

GoalColumns(g) ==
    goal[g] # Absent /\ goal'[g] # Absent =>
        /\ goal'[g].percent # goal[g].percent =>
              \E s \in Slot : /\ req[s].at = "write" /\ req[s].goal = g
                             /\ req[s].askPercent = goal'[g].percent
        /\ goal'[g].status # goal[g].status =>
              \E s \in Slot : /\ req[s].at = "write" /\ req[s].goal = g
                             /\ req[s].askStatus = goal'[g].status

ConfigColumns(u) ==
    /\ config'[u].limit # config[u].limit =>
          \E s \in Slot : /\ req[s].op = "limit" /\ req[s].user = u
                         /\ req[s].asked.limit = config'[u].limit
    /\ config'[u].income # config[u].income =>
          \E s \in Slot : /\ req[s].op = "income" /\ req[s].user = u
                         /\ req[s].asked.income = config'[u].income

LEMMA GoalColumnsKept == ASSUME GoalsInv, [Next]_vars, NEW g \in Goal PROVE GoalColumns(g)
<1>1. CASE goal' = goal
  BY <1>1 DEF GoalColumns
<1>2. ASSUME NEW s \in Slot, NEW h \in Goal, CreateInsert(s, h) PROVE GoalColumns(g)
  <2>1. goal' = [goal EXCEPT ![h] = goal'[h]] /\ goal[h] = Absent
    BY <1>2 DEF CreateInsert, GoalsInv, TableInv
  <2>2. CASE g = h
    BY <2>1, <2>2 DEF GoalColumns
  <2>3. CASE g # h
    BY <2>1, <2>3 DEF GoalColumns, GoalsInv, TableInv
  <2>4. QED
    BY <2>2, <2>3
<1>3. ASSUME NEW s \in Slot, UpdateCommit(s), goal' # goal PROVE GoalColumns(g)
  <2> DEFINE h == req[s].goal
  <2>1. req[s].at = "write" /\ goal[h] # Absent /\ goal' = [goal EXCEPT ![h] = Written(@, req[s])]
    BY <1>3 DEF UpdateCommit, RowMatched
  <2>2. CASE g = h
    <3>1. goal'[g] = Written(goal[g], req[s]) /\ (goal[g] # Absent => goal[g] \in GoalRow)
      BY <2>1, <2>2 DEF GoalsInv, TableInv
    <3>2. QED
      BY <2>1, <2>2, <3>1, WrittenColumns DEF GoalColumns
  <2>3. CASE g # h
    BY <2>1, <2>3 DEF GoalColumns, GoalsInv, TableInv
  <2>4. QED
    BY <2>2, <2>3
<1>4. ASSUME NEW s \in Slot, DeleteCommit(s) PROVE GoalColumns(g)
  <2>1. goal' = [goal EXCEPT ![req[s].goal] = Absent]
    BY <1>4 DEF DeleteCommit
  <2>2. CASE g = req[s].goal
    BY <2>1, <2>2 DEF GoalColumns, GoalsInv, TableInv
  <2>3. CASE g # req[s].goal
    BY <2>1, <2>3 DEF GoalColumns, GoalsInv, TableInv
  <2>4. QED
    BY <2>2, <2>3
<1>5. ASSUME NEW s \in Slot, Arrive(s) \/ Crash(s) \/ ConfigCommit(s) \/ Validate(s)
                             \/ GoalReload(s) \/ Deliver(s)
      PROVE  goal' = goal
  BY <1>5, ArriveKeeps, ReadersKeep DEF ConfigCommit
<1>6. UNCHANGED vars => goal' = goal
  BY DEF vars
<1>7. QED
  BY <1>1, <1>2, <1>3, <1>4, <1>5, <1>6 DEF Next, Proceed

LEMMA ConfigColumnsKept == ASSUME GoalsInv, [Next]_vars, NEW u \in User PROVE ConfigColumns(u)
<1>1. CASE config' = config
  BY <1>1 DEF ConfigColumns
<1>2. ASSUME NEW s \in Slot, ConfigCommit(s) PROVE ConfigColumns(u)
  <2> DEFINE v == req[s].user
             asked == req[s].asked
             loaded == req[s].loaded
  <2>1. /\ req[s].op \in {"limit", "income"} /\ req[s].at = "write" /\ Knows(req[s])
        /\ config' = [config EXCEPT ![v] = Configure(@, loaded, asked)]
    BY <1>2 DEF ConfigCommit, GoalsInv, RequestInv
  <2>2. /\ v \in Configured
        /\ req[s].op = "limit" => asked.income = loaded.income
        /\ req[s].op = "income" => asked.limit = loaded.limit
    BY <2>1 DEF Knows
  <2>3. CASE u = v
    <3>1. config[u] \in Setting /\ config'[u] = Configure(config[u], loaded, asked)
      BY <2>1, <2>2, <2>3 DEF GoalsInv, TableInv
    <3>2. /\ config'[u].limit # config[u].limit =>
                asked.limit # loaded.limit /\ asked.limit = config'[u].limit
          /\ config'[u].income # config[u].income =>
                asked.income # loaded.income /\ asked.income = config'[u].income
      BY <3>1, ConfiguredColumns
    <3>3. QED
      BY <2>1, <2>2, <2>3, <3>2 DEF ConfigColumns
  <2>4. CASE u # v
    BY <2>1, <2>4 DEF ConfigColumns, GoalsInv, TableInv
  <2>5. QED
    BY <2>3, <2>4
<1>3. ASSUME NEW s \in Slot, Arrive(s) \/ Crash(s) \/ Validate(s) \/ GoalReload(s) \/ Deliver(s)
                             \/ UpdateCommit(s) \/ DeleteCommit(s)
      PROVE  config' = config
  BY <1>3, ArriveKeeps, ReadersKeep DEF UpdateCommit, DeleteCommit
<1>4. ASSUME NEW s \in Slot, NEW g \in Goal, CreateInsert(s, g) PROVE config' = config
  BY <1>4 DEF CreateInsert
<1>5. UNCHANGED vars => config' = config
  BY DEF vars
<1>6. QED
  BY <1>1, <1>2, <1>3, <1>4, <1>5 DEF Next, Proceed

\* Of two requests for different columns of a goal, or of a configuration, neither
\* is lost: a column changes only to what a request writing it asks for.
THEOREM ColumnsKept == Spec => ColumnsAreIndependent
<1>1. GoalsInv /\ [Next]_vars =>
          [(\A g \in Goal : GoalColumns(g)) /\ (\A u \in User : ConfigColumns(u))]_vars
  BY GoalColumnsKept, ConfigColumnsKept
<1>2. QED
  BY <1>1, GoalsInvariant, PTL DEF Spec, ColumnsAreIndependent, GoalColumns, ConfigColumns
-----------------------------------------------------------------------------
(* The cap. *)

\* An update in flight is of a goal of the user who asked for it: goals do not
\* change hands, and no identifier comes back.
OwnRow(r) ==
    r.at \in {"validate", "write"} /\ r.op = "update" /\ goal[r.goal] # Absent =>
        goal[r.goal].user = r.user

CapInv ==
    /\ excused \subseteq User
    /\ \A s \in Slot : OwnRow(req[s])
    /\ CapBrokenOnlyByRaces

LEMMA OwnerKept ==
    ASSUME GoalsInv, [Next]_vars, NEW g \in created, goal'[g] # Absent
    PROVE  goal[g] # Absent /\ goal'[g].user = goal[g].user
<1>1. g \in Goal /\ goal[g] \in GoalRow \cup {Absent}
  BY DEF GoalsInv, TableInv
<1>2. ASSUME NEW s \in Slot, NEW h \in Goal, CreateInsert(s, h) PROVE goal'[g] = goal[g]
  BY <1>1, <1>2 DEF CreateInsert, GoalsInv, TableInv
<1>3. ASSUME NEW s \in Slot, UpdateCommit(s)
      PROVE  goal[g] # Absent /\ goal'[g].user = goal[g].user
  <2>1. \/ goal' = goal
        \/ /\ goal[req[s].goal] # Absent
           /\ goal' = [goal EXCEPT ![req[s].goal] = Written(@, req[s])]
    BY <1>3 DEF UpdateCommit, RowMatched
  <2>2. \A row \in GoalRow : Written(row, req[s]).user = row.user
    BY DEF Written, GoalRow
  <2>3. QED
    BY <1>1, <2>1, <2>2 DEF GoalsInv, TableInv
<1>4. ASSUME NEW s \in Slot, DeleteCommit(s) PROVE goal'[g] = goal[g]
  BY <1>1, <1>4 DEF DeleteCommit, GoalsInv, TableInv
<1>5. ASSUME NEW s \in Slot, Arrive(s) \/ Crash(s) \/ ConfigCommit(s) \/ Validate(s)
                             \/ GoalReload(s) \/ Deliver(s)
      PROVE  goal' = goal
  BY <1>5, ArriveKeeps, ReadersKeep DEF ConfigCommit
<1>6. CASE UNCHANGED vars
  BY <1>6 DEF vars
<1>7. QED
  BY <1>2, <1>3, <1>4, <1>5, <1>6 DEF Next, Proceed

LEMMA BecomesOne ==
    ASSUME req \in Requests, NEW s \in Slot, NEW r, Becomes(s, r)
    PROVE  req'[s] = r /\ \A q \in Slot \ {s} : req'[q] = req[q]
BY DEF Becomes, Requests

\* The row of an update is one of its user when the update is admitted, and
\* what it says of row and user does not change.
UpdateAt(r) == r.at \in {"validate", "write"} /\ r.op = "update"

Moves(q) ==
    \/ req'[q] = req[q]
    \/ ~UpdateAt(req'[q])
    \/ /\ UpdateAt(req[q]) /\ req'[q].goal = req[q].goal /\ req'[q].user = req[q].user
    \/ goal' = goal /\ GoalOf(req'[q].goal, req'[q].user)

LEMMA ArriveMoves ==
    ASSUME GoalsInv, NEW s \in Slot, Arrive(s), NEW q \in Slot
    PROVE  Moves(q)
<1>0. req \in Requests
  BY DEF GoalsInv, RequestInv
<1>a. ASSUME NEW r, Becomes(s, r), ~UpdateAt(r) PROVE Moves(q)
  BY <1>0, <1>a, BecomesOne DEF Moves
<1>b. ASSUME NEW a, AnswerAtOnce(s, a) PROVE Moves(q)
  <2>1. ~UpdateAt([Idle EXCEPT !.at = "answer", !.answer = a])
    BY DEF Idle, UpdateAt
  <2>2. QED
    BY <1>a, <1>b, <2>1 DEF AnswerAtOnce, Admit
<1>1. PICK u \in User :
        \/ ConfigShow(s, u)
        \/ \E l \in Limit : ConfigLoad(s, u, "limit", [config[u] EXCEPT !.limit = l])
        \/ \E i \in BOOLEAN : ConfigLoad(s, u, "income", [config[u] EXCEPT !.income = i])
        \/ \E g \in created : GoalShow(s, u, g)
        \/ \E p \in Percent : CreateLoad(s, u, p)
        \/ \E g \in created, p \in {0} \cup Percent, st \in Status \cup {"none", "unknown"} :
               UpdateLoad(s, u, g, p, st)
        \/ \E g \in created : DeleteLoad(s, u, g)
  BY DEF Arrive
<1>2. ASSUME NEW op \in {"limit", "income"}, NEW new, ConfigLoad(s, u, op, new) PROVE Moves(q)
  <2> DEFINE r == [Idle EXCEPT !.op = op, !.user = u]
             r1 == [r EXCEPT !.at = "answer", !.answer = "no_config"]
             r2 == [r EXCEPT !.at = "write", !.loaded = config[u], !.asked = new]
  <2>1. ~UpdateAt(r1) /\ ~UpdateAt(r2)
    BY DEF Idle, UpdateAt
  <2>2. Becomes(s, r1) \/ Becomes(s, r2)
    BY <1>2 DEF ConfigLoad, Admit
  <2> HIDE DEF r1, r2
  <2>3. QED
    BY <1>a, <2>1, <2>2
<1>3. ASSUME NEW p \in Percent, CreateLoad(s, u, p) PROVE Moves(q)
  <2> DEFINE r == [Idle EXCEPT !.op = "create", !.at = "validate", !.user = u,
                               !.askPercent = p, !.loaded = Known(u)]
  <2>1. ~UpdateAt(r)
    BY DEF Idle, UpdateAt
  <2>2. AnswerAtOnce(s, "no_config") \/ Becomes(s, r)
    BY <1>3 DEF CreateLoad, Admit
  <2> HIDE DEF r
  <2>3. QED
    BY <1>a, <1>b, <2>1, <2>2
<1>4. ASSUME NEW g \in created, NEW p \in {0} \cup Percent,
             NEW st \in Status \cup {"none", "unknown"}, UpdateLoad(s, u, g, p, st)
      PROVE  Moves(q)
  <2> DEFINE r == [Idle EXCEPT !.op = "update", !.user = u, !.goal = g,
                               !.at = IF p # 0 THEN "validate" ELSE "write",
                               !.askPercent = p, !.askStatus = st,
                               !.row = goal[g], !.loaded = Known(u)]
  <2>1. \/ AnswerAtOnce(s, "no_config") \/ AnswerAtOnce(s, "not_found")
        \/ AnswerAtOnce(s, "bad_status")
        \/ GoalOf(g, u) /\ Becomes(s, r)
    BY <1>4 DEF UpdateLoad, Admit
  <2>2. r.goal = g /\ r.user = u
    BY DEF Idle
  <2>3. goal' = goal
    BY <1>4 DEF UpdateLoad
  <2> HIDE DEF r
  <2>4. QED
    BY <1>0, <1>b, <2>1, <2>2, <2>3, BecomesOne DEF Moves
<1>5. ASSUME NEW g \in created, DeleteLoad(s, u, g) PROVE Moves(q)
  <2> DEFINE r == [Idle EXCEPT !.op = "delete", !.at = "write", !.user = u, !.goal = g]
  <2>1. ~UpdateAt(r)
    BY DEF Idle, UpdateAt
  <2>2. AnswerAtOnce(s, "not_found") \/ Becomes(s, r)
    BY <1>5 DEF DeleteLoad, Admit
  <2> HIDE DEF r
  <2>3. QED
    BY <1>a, <1>b, <2>1, <2>2
<1>6. ASSUME NEW g \in created, GoalShow(s, u, g) PROVE Moves(q)
  BY <1>6, <1>b DEF GoalShow
<1>7. ASSUME ConfigShow(s, u) PROVE Moves(q)
  BY <1>7, <1>b DEF ConfigShow
<1>8. QED
  BY <1>1, <1>2, <1>3, <1>4, <1>5, <1>6, <1>7

LEMMA ProceedMoves ==
    ASSUME GoalsInv, NEW s \in Slot, Proceed(s) \/ Crash(s), NEW q \in Slot
    PROVE  Moves(q)
<1>0. req \in Requests /\ req[s] \in Request
  BY DEF GoalsInv, RequestInv, Requests
<1>a. ASSUME NEW r, Becomes(s, r), ~UpdateAt(r) PROVE Moves(q)
  BY <1>0, <1>a, BecomesOne DEF Moves
<1>b. ASSUME NEW step \in {"reload", "answer"},
             NEW w \in {"none", "ok", "no_config", "not_found", "over_limit", "bad_status", "error"},
             Becomes(s, Past(req[s], step, w))
      PROVE  Moves(q)
  <2>1. ~UpdateAt(Past(req[s], step, w))
    BY <1>0, PastFields DEF UpdateAt
  <2>2. QED
    BY <1>a, <1>b, <2>1
<1>1. ASSUME Becomes(s, Idle) PROVE Moves(q)
  BY <1>1, <1>a, IdleFields DEF UpdateAt
<1>2. ASSUME Validate(s) PROVE Moves(q)
  <2> DEFINE r == [req[s] EXCEPT !.at = "write",
                                 !.sum = AllocatedBeside(req[s].user, req[s].goal)]
  <2>1. Answer(s, "over_limit") \/ Answer(s, "bad_status") \/ Becomes(s, r)
    BY <1>2 DEF Validate
  <2>2. r.op = req[s].op /\ r.goal = req[s].goal /\ r.user = req[s].user
    BY <1>0 DEF Request
  <2>3. req[s].at = "validate"
    BY <1>2 DEF Validate
  <2> HIDE DEF r
  <2>4. CASE Becomes(s, r)
    BY <1>0, <2>2, <2>3, <2>4, BecomesOne DEF Moves, UpdateAt
  <2>5. QED
    BY <1>b, <2>1, <2>4 DEF Answer
<1>3. ASSUME NEW g \in Goal, CreateInsert(s, g) PROVE Moves(q)
  <2> DEFINE p == Past(req[s], "reload", "none")
             r == [p EXCEPT !.goal = g]
  <2>1. p \in Request /\ p.at = "reload"
    BY <1>0, PastFields
  <2>2. Becomes(s, r)
    BY <1>3 DEF CreateInsert
  <2> HIDE DEF p
  <2>3. ~UpdateAt(r)
    BY <2>1 DEF Request, UpdateAt
  <2> HIDE DEF r
  <2>4. QED
    BY <1>a, <2>2, <2>3
<1>4. ASSUME ConfigCommit(s) \/ DeleteCommit(s) \/ GoalReload(s) PROVE Moves(q)
  BY <1>4, <1>b DEF ConfigCommit, DeleteCommit, GoalReload, Answer
<1>5. ASSUME UpdateCommit(s) PROVE Moves(q)
  BY <1>5, <1>b DEF UpdateCommit
<1>6. ASSUME Deliver(s) \/ Crash(s) PROVE Moves(q)
  BY <1>1, <1>6 DEF Deliver, Crash
<1>7. QED
  BY <1>2, <1>3, <1>4, <1>5, <1>6 DEF Proceed

LEMMA OwnRowStep ==
    ASSUME GoalsInv, NEW q \in Slot, OwnRow(req[q]), [Next]_vars
    PROVE  OwnRow(req[q])'
<1>1. Moves(q)
  <2>1. CASE UNCHANGED vars
    BY <2>1 DEF vars, Moves
  <2>2. QED
    BY <2>1, ArriveMoves, ProceedMoves DEF Next
<1>2. SUFFICES ASSUME UpdateAt(req'[q]), goal'[req'[q].goal] # Absent
               PROVE  goal'[req'[q].goal].user = req'[q].user
  BY DEF OwnRow, UpdateAt
<1>3. CASE UpdateAt(req[q]) /\ req'[q].goal = req[q].goal /\ req'[q].user = req[q].user
  <2>1. req[q].goal \in created
    BY <1>3 DEF GoalsInv, RequestInv, Knows, UpdateAt
  <2>2. goal[req[q].goal] # Absent /\ goal'[req[q].goal].user = goal[req[q].goal].user
    BY <1>2, <1>3, <2>1, OwnerKept
  <2>3. QED
    BY <1>3, <2>2 DEF OwnRow, UpdateAt
<1>4. CASE goal' = goal /\ GoalOf(req'[q].goal, req'[q].user)
  BY <1>4 DEF GoalOf
<1>5. QED
  BY <1>1, <1>2, <1>3, <1>4 DEF Moves

\* What users' goals come to after a write to one row, from what they came to
\* before it: the weight of that row is all that changes.
Total(table, u) == Beside(table, u, NoGoal)

LEMMA OneRowWritten ==
    ASSUME GoalsInv, GoalsInv', NEW g \in Goal, \A h \in Goal \ {g} : goal'[h] = goal[h],
           NEW u
    PROVE  /\ Beside(goal, u, g) \in Nat
           /\ Total(goal, u) = Weight(goal, u, g) + Beside(goal, u, g)
           /\ Total(goal', u) = Weight(goal', u, g) + Beside(goal, u, g)
<1>1. IsTable(goal) /\ IsTable(goal')
  BY GoalTable DEF GoalsInv
<1>2. Beside(goal', u, g) = Beside(goal, u, g)
  BY <1>1, BesideKept
<1>3. QED
  BY <1>1, <1>2, BesideType, BesideOne DEF Total

LEMMA InsertKeepsCap ==
    ASSUME GoalsInv, GoalsInv', CapInv, NEW s \in Slot, NEW g \in Goal, CreateInsert(s, g),
           NEW u \in User, u \notin excused'
    PROVE  Total(goal', u) <= 100
<1> DEFINE r == req[s]
<1>1. /\ r.op = "create" /\ r.at = "write" /\ Knows(r) /\ r \in Request
      /\ g \notin created /\ goal[g] = Absent
      /\ goal' = [goal EXCEPT ![g] =
                    [user |-> r.user, percent |-> r.askPercent, status |-> "active"]]
  BY DEF CreateInsert, GoalsInv, RequestInv, TableInv, Requests
<1>2. r.askPercent \in 1..100 /\ r.goal = NoGoal /\ Fits(r.sum, r.askPercent) /\ r.sum \in Nat
  <2>1. r.sum \in Nat
    BY <1>1 DEF Request
  <2>2. r.askPercent \in 1..100
    BY <1>1, GoalsAssumption DEF Knows
  <2>3. r.goal = NoGoal
    BY <1>1 DEF Knows
  <2>4. r.askPercent # 0
    BY <2>2
  <2>5. QED
    BY <1>1, <2>1, <2>2, <2>3, <2>4 DEF Knows
<1>3. /\ Beside(goal, u, g) \in Nat
      /\ Total(goal, u) = Weight(goal, u, g) + Beside(goal, u, g)
      /\ Total(goal', u) = Weight(goal', u, g) + Beside(goal, u, g)
  BY <1>1, OneRowWritten DEF GoalsInv, TableInv
<1>4. Weight(goal, u, g) = 0
  BY <1>1 DEF Weight, ActiveOf
<1>5. excused \subseteq excused' /\ (StaleCheck(s) => r.user \in excused')
  BY DEF CreateInsert, Excuse
<1>6. Total(goal, u) <= 100
  BY <1>5, AllocatedIsBeside DEF CapInv, CapBrokenOnlyByRaces, Total
<1>7. goal'[g] = [user |-> r.user, percent |-> r.askPercent, status |-> "active"]
  BY <1>1 DEF GoalsInv, TableInv
<1>8. CASE r.user = u
  <2>1. r.sum = Total(goal, u)
    BY <1>1, <1>2, <1>5, <1>8, AllocatedIsBeside DEF StaleCheck, Total
  <2>2. Weight(goal', u, g) <= r.askPercent
    BY <1>2, <1>7 DEF Weight, ActiveOf
  <2>3. Weight(goal', u, g) \in Nat
    BY <1>2, <1>7 DEF Weight, ActiveOf
  <2>4. QED
    BY <1>2, <1>3, <1>4, <2>1, <2>2, <2>3 DEF Fits
<1>9. CASE r.user # u
  <2>1. Weight(goal', u, g) = 0
    BY <1>7, <1>9 DEF Weight, ActiveOf
  <2>2. QED
    BY <1>3, <1>4, <1>6, <2>1
<1>10. QED
  BY <1>8, <1>9

LEMMA UpdateKeepsCap ==
    ASSUME GoalsInv, GoalsInv', CapInv, NEW s \in Slot, UpdateCommit(s), goal' # goal,
           NEW u \in User, u \notin excused'
    PROVE  Total(goal', u) <= 100
<1> DEFINE r == req[s]
           g == r.goal
           row == goal[g]
<1>1. /\ r.op = "update" /\ r.at = "write" /\ Knows(r) /\ OwnRow(r) /\ r \in Request
      /\ row # Absent /\ goal' = [goal EXCEPT ![g] = Written(@, r)] /\ Excuse(s)
  BY DEF UpdateCommit, RowMatched, GoalsInv, RequestInv, CapInv, Requests
<1>2. /\ g \in Goal /\ row \in GoalRow /\ row.user = r.user
      /\ r.row \in GoalRow /\ r.askStatus \in Status \cup {"none"}
      /\ r.askPercent # 0 => r.askPercent \in 1..100 /\ Fits(r.sum, r.askPercent)
      /\ r.sum \in Nat
  BY <1>1, GoalsAssumption DEF Knows, OwnRow, GoalsInv, TableInv, Request
<1>3. goal'[g] = Written(row, r) /\ \A h \in Goal \ {g} : goal'[h] = goal[h]
  BY <1>1, <1>2 DEF GoalsInv, TableInv
<1>4. /\ Beside(goal, u, g) \in Nat
      /\ Total(goal, u) = Weight(goal, u, g) + Beside(goal, u, g)
      /\ Total(goal', u) = Weight(goal', u, g) + Beside(goal, u, g)
  BY <1>2, <1>3, OneRowWritten
<1>5. /\ excused \subseteq excused'
      /\ StaleCheck(s) \/ StaleRow(s) \/ UncheckedActivation(s) => r.user \in excused'
  BY <1>1 DEF Excuse
<1>6. Total(goal, u) <= 100
  BY <1>5, AllocatedIsBeside DEF CapInv, CapBrokenOnlyByRaces, Total
<1> DEFINE new == Written(row, r)
<1>7. new \in GoalRow /\ new.user = row.user
  <2>1. new.user = row.user
    BY <1>2 DEF Written, GoalRow
  <2>2. new \in GoalRow
    BY <1>1, <1>2, WrittenRow DEF Knows
  <2>3. QED
    BY <2>1, <2>2
<1>8. new # Absent
  BY <1>7, AbsentFields
<1>9. /\ Weight(goal, u, g) = IF row.user = u /\ row.status = "active" THEN row.percent ELSE 0
      /\ Weight(goal', u, g) = IF row.user = u /\ new.status = "active" THEN new.percent ELSE 0
  BY <1>1, <1>2, <1>3, <1>7, <1>8 DEF Weight, ActiveOf
<1>10. row.percent \in 1..100 /\ new.percent \in 1..100
  BY <1>2, <1>7 DEF GoalRow
<1>11. CASE row.user # u
  BY <1>4, <1>6, <1>9, <1>11
<1>12. CASE row.user = u /\ r.askPercent # 0
  <2>1. r.sum = Beside(goal, u, g) /\ row.percent = r.row.percent
    BY <1>1, <1>2, <1>5, <1>12, AllocatedIsBeside DEF StaleCheck, StaleRow
  <2>2. new.percent = r.askPercent
    BY <1>2, <1>12, <2>1 DEF Written, PercentWritten, GoalRow
  <2>3. Weight(goal', u, g) \in Nat /\ Weight(goal', u, g) <= r.askPercent
    BY <1>9, <1>10, <2>2
  <2>4. QED
    BY <1>2, <1>4, <1>12, <2>1, <2>3 DEF Fits
<1>13. CASE row.user = u /\ r.askPercent = 0
  <2>1. new.percent = row.percent
    BY <1>2, <1>13 DEF Written, PercentWritten, GoalRow
  <2>2. new.status = "active" => row.status = "active"
    <3>1. r.askStatus = "active" => r.row.status = "active"
      BY <1>2, <1>5, <1>13 DEF UncheckedActivation
    <3>2. new.status = IF StatusWritten(r) THEN r.askStatus ELSE row.status
      BY <1>2 DEF Written, GoalRow
    <3>3. QED
      BY <3>1, <3>2 DEF StatusWritten
  <2>3. Weight(goal', u, g) <= Weight(goal, u, g)
    BY <1>9, <1>10, <2>1, <2>2
  <2>4. Weight(goal', u, g) \in Nat /\ Weight(goal, u, g) \in Nat
    BY <1>9, <1>10
  <2>5. QED
    BY <1>4, <1>6, <2>3, <2>4
<1>14. QED
  BY <1>11, <1>12, <1>13

LEMMA DeleteKeepsCap ==
    ASSUME GoalsInv, GoalsInv', CapInv, NEW s \in Slot, DeleteCommit(s), goal' # goal,
           NEW u \in User, u \notin excused
    PROVE  Total(goal', u) <= 100
<1> DEFINE g == req[s].goal
<1>1. goal' = [goal EXCEPT ![g] = Absent]
  BY DEF DeleteCommit
<1>2. g \in Goal
  BY <1>1 DEF GoalsInv, TableInv
<1>3. goal'[g] = Absent /\ \A h \in Goal \ {g} : goal'[h] = goal[h]
  BY <1>1, <1>2 DEF GoalsInv, TableInv
<1>4. /\ Beside(goal, u, g) \in Nat
      /\ Total(goal, u) = Weight(goal, u, g) + Beside(goal, u, g)
      /\ Total(goal', u) = Weight(goal', u, g) + Beside(goal, u, g)
  BY <1>2, <1>3, OneRowWritten
<1>5. Weight(goal', u, g) = 0
  BY <1>3 DEF Weight, ActiveOf
<1>6. Weight(goal, u, g) \in Nat
  <2>1. g \in ActiveOf(goal, u) => goal[g] \in GoalRow
    BY DEF ActiveOf, GoalsInv, TableInv
  <2>2. QED
    BY <2>1 DEF Weight, GoalRow
<1>7. Total(goal, u) <= 100
  BY AllocatedIsBeside DEF CapInv, CapBrokenOnlyByRaces, Total
<1>8. QED
  BY <1>4, <1>5, <1>6, <1>7

LEMMA CapInvInit == Init => CapInv
<1> SUFFICES ASSUME Init PROVE CapInv
    OBVIOUS
<1>1. \A s \in Slot : OwnRow(req[s])
  BY DEF Init, OwnRow, Idle
<1>2. ASSUME NEW u \in User PROVE AllocatedBeside(u, NoGoal) <= 100
  <2>1. ActiveOf(goal, u) \ {NoGoal} = {}
    BY DEF Init, ActiveOf
  <2>2. Beside(goal, u, NoGoal) = 0
    BY <2>1, SumEmpty DEF Beside
  <2>3. QED
    BY <2>2, AllocatedIsBeside
<1>3. QED
  BY <1>1, <1>2 DEF Init, CapInv, CapBrokenOnlyByRaces

\* The rows change in three actions only, and only these touch what is excused.
LEMMA ThreeWrites ==
    ASSUME [Next]_vars
    PROVE  \/ goal' = goal /\ excused' = excused
           \/ \E s \in Slot, g \in Goal : CreateInsert(s, g)
           \/ \E s \in Slot : UpdateCommit(s) \/ DeleteCommit(s)
<1>1. ASSUME NEW s \in Slot, Arrive(s) PROVE excused' = excused
  <2>1. PICK u \in User :
          \/ ConfigShow(s, u)
          \/ \E l \in Limit : ConfigLoad(s, u, "limit", [config[u] EXCEPT !.limit = l])
          \/ \E i \in BOOLEAN : ConfigLoad(s, u, "income", [config[u] EXCEPT !.income = i])
          \/ \E g \in created : GoalShow(s, u, g)
          \/ \E p \in Percent : CreateLoad(s, u, p)
          \/ \E g \in created, p \in {0} \cup Percent, st \in Status \cup {"none", "unknown"} :
                 UpdateLoad(s, u, g, p, st)
          \/ \E g \in created : DeleteLoad(s, u, g)
    BY <1>1 DEF Arrive
  <2>2. QED
    BY <2>1 DEF ConfigShow, ConfigLoad, GoalShow, CreateLoad, UpdateLoad, DeleteLoad
<1>2. ASSUME NEW s \in Slot, Validate(s) \/ GoalReload(s) \/ Deliver(s) \/ Crash(s)
                             \/ ConfigCommit(s)
      PROVE  goal' = goal /\ excused' = excused
  BY <1>2 DEF Validate, GoalReload, Deliver, Crash, ConfigCommit
<1>3. UNCHANGED vars => goal' = goal /\ excused' = excused
  BY DEF vars
<1>4. QED
  BY <1>1, <1>2, <1>3, ArriveKeeps DEF Next, Proceed

LEMMA CapInvStep == GoalsInv /\ GoalsInv' /\ CapInv /\ [Next]_vars => CapInv'
<1> SUFFICES ASSUME GoalsInv, GoalsInv', CapInv, [Next]_vars PROVE CapInv'
    OBVIOUS
<1>1. \A s \in Slot : OwnRow(req[s])'
  BY OwnRowStep DEF CapInv
<1>2. excused' \subseteq User /\ excused \subseteq excused'
  <2>1. ASSUME NEW s \in Slot, Excuse(s), req[s].user \in User
        PROVE  excused' \subseteq User /\ excused \subseteq excused'
    BY <2>1 DEF Excuse, CapInv
  <2>2. ASSUME NEW s \in Slot, NEW g \in Goal, CreateInsert(s, g)
        PROVE  Excuse(s) /\ req[s].user \in User
    BY <2>2 DEF CreateInsert, GoalsInv, RequestInv, Knows
  <2>3. ASSUME NEW s \in Slot, UpdateCommit(s)
        PROVE  excused' = excused \/ (Excuse(s) /\ req[s].user \in User)
    BY <2>3 DEF UpdateCommit, GoalsInv, RequestInv, Knows
  <2>4. ASSUME NEW s \in Slot, DeleteCommit(s) PROVE excused' = excused
    BY <2>4 DEF DeleteCommit
  <2>5. QED
    BY <2>1, <2>2, <2>3, <2>4, ThreeWrites DEF CapInv
<1>3. ASSUME NEW u \in User, u \notin excused' PROVE Total(goal', u) <= 100
  <2>1. CASE goal' = goal
    BY <1>2, <1>3, <2>1, AllocatedIsBeside DEF CapInv, CapBrokenOnlyByRaces, Total
  <2>2. ASSUME NEW s \in Slot, DeleteCommit(s), goal' # goal PROVE Total(goal', u) <= 100
    BY <1>2, <1>3, <2>2, DeleteKeepsCap
  <2>3. QED
    BY <1>3, <2>1, <2>2, ThreeWrites, InsertKeepsCap, UpdateKeepsCap
<1>4. CapBrokenOnlyByRaces'
  BY <1>3, AllocatedIsBeside DEF CapBrokenOnlyByRaces, Total
<1>5. QED
  BY <1>1, <1>2, <1>4 DEF CapInv

\* The tables and the requests have the shape the models give them: the sum a request
\* has read is a number, whatever the percentages, and only users are excused.
THEOREM TypesHold == Spec => []TypeOK
<1>1. GoalsInv /\ CapInv => TypeOK
  BY DEF GoalsInv, TableInv, RequestInv, Requests, CapInv, TypeOK
<1>2. QED
  BY <1>1, GoalsInvInit, GoalsInvStep, CapInvInit, CapInvStep, PTL DEF Spec

\* However many requests are in flight, the active goals of a user come to more than
\* 100% only after a check that was stale when its goal was written, a percentage
\* that changed after it was loaded, or an activation that no check precedes.
THEOREM CapHolds == Spec => []CapBrokenOnlyByRaces
<1>1. CapInv => CapBrokenOnlyByRaces
  BY DEF CapInv
<1>2. QED
  BY <1>1, GoalsInvInit, GoalsInvStep, CapInvInit, CapInvStep, PTL DEF Spec
-----------------------------------------------------------------------------
(* Where requests never overlap. *)

\* What a request knows is still so when it writes: the row it loaded, and the sum
\* its percentage was checked against.
Fresh(r) ==
    /\ UpdateAt(r) => r.row = goal[r.goal]
    /\ r.op \in {"create", "update"} /\ r.at = "write" /\ r.askPercent # 0 =>
           r.sum = Beside(goal, r.user, r.goal)

\* Before the validation, and past the last write, there is nothing to be stale.
Begins(r) ==
    /\ ~UpdateAt(r)
    /\ r.op \in {"create", "update"} => r.at # "write"

LEMMA FreshArrival ==
    ASSUME GoalsInv, NEW s \in Slot, Arrive(s)
    PROVE  Fresh(req[s])'
<1>0. req \in Requests /\ goal' = goal
  BY ArriveKeeps DEF GoalsInv, RequestInv
<1>a. ASSUME NEW r, Becomes(s, r), Begins(r) PROVE Fresh(req[s])'
  BY <1>0, <1>a, BecomesOne DEF Fresh, Begins
<1>b. ASSUME NEW a, AnswerAtOnce(s, a) PROVE Fresh(req[s])'
  <2>1. Begins([Idle EXCEPT !.at = "answer", !.answer = a])
    BY DEF Idle, UpdateAt, Begins
  <2>2. QED
    BY <1>a, <1>b, <2>1 DEF AnswerAtOnce, Admit
<1>1. PICK u \in User :
        \/ ConfigShow(s, u)
        \/ \E l \in Limit : ConfigLoad(s, u, "limit", [config[u] EXCEPT !.limit = l])
        \/ \E i \in BOOLEAN : ConfigLoad(s, u, "income", [config[u] EXCEPT !.income = i])
        \/ \E g \in created : GoalShow(s, u, g)
        \/ \E p \in Percent : CreateLoad(s, u, p)
        \/ \E g \in created, p \in {0} \cup Percent, st \in Status \cup {"none", "unknown"} :
               UpdateLoad(s, u, g, p, st)
        \/ \E g \in created : DeleteLoad(s, u, g)
  BY DEF Arrive
<1>2. ASSUME NEW op \in {"limit", "income"}, NEW new, ConfigLoad(s, u, op, new)
      PROVE  Fresh(req[s])'
  <2> DEFINE r == [Idle EXCEPT !.op = op, !.user = u]
             r1 == [r EXCEPT !.at = "answer", !.answer = "no_config"]
             r2 == [r EXCEPT !.at = "write", !.loaded = config[u], !.asked = new]
  <2>1. Begins(r1) /\ Begins(r2)
    BY DEF Idle, UpdateAt, Begins
  <2>2. Becomes(s, r1) \/ Becomes(s, r2)
    BY <1>2 DEF ConfigLoad, Admit
  <2> HIDE DEF r1, r2
  <2>3. QED
    BY <1>a, <2>1, <2>2
<1>3. ASSUME NEW p \in Percent, CreateLoad(s, u, p) PROVE Fresh(req[s])'
  <2> DEFINE r == [Idle EXCEPT !.op = "create", !.at = "validate", !.user = u,
                               !.askPercent = p, !.loaded = Known(u)]
  <2>1. Begins(r)
    BY DEF Idle, UpdateAt, Begins
  <2>2. AnswerAtOnce(s, "no_config") \/ Becomes(s, r)
    BY <1>3 DEF CreateLoad, Admit
  <2> HIDE DEF r
  <2>3. QED
    BY <1>a, <1>b, <2>1, <2>2
<1>4. ASSUME NEW g \in created, NEW p \in {0} \cup Percent,
             NEW st \in Status \cup {"none", "unknown"}, UpdateLoad(s, u, g, p, st)
      PROVE  Fresh(req[s])'
  <2> DEFINE step == IF p # 0 THEN "validate" ELSE "write"
             r == [Idle EXCEPT !.op = "update", !.user = u, !.goal = g, !.at = step,
                               !.askPercent = p, !.askStatus = st,
                               !.row = goal[g], !.loaded = Known(u)]
  <2>1. \/ AnswerAtOnce(s, "no_config") \/ AnswerAtOnce(s, "not_found")
        \/ AnswerAtOnce(s, "bad_status") \/ Becomes(s, r)
    BY <1>4 DEF UpdateLoad, Admit
  <2>2. r.goal = g /\ r.row = goal[g] /\ r.at = step /\ r.askPercent = p
    BY DEF Idle
  <2> HIDE DEF r
  <2>3. ASSUME Becomes(s, r) PROVE Fresh(req[s])'
    <3>1. req'[s] = r
      BY <1>0, <2>3, BecomesOne
    <3>2. QED
      BY <1>0, <2>2, <3>1 DEF Fresh
  <2>4. QED
    BY <1>b, <2>1, <2>3
<1>5. ASSUME NEW g \in created, DeleteLoad(s, u, g) PROVE Fresh(req[s])'
  <2> DEFINE r == [Idle EXCEPT !.op = "delete", !.at = "write", !.user = u, !.goal = g]
  <2>1. Begins(r)
    BY DEF Idle, UpdateAt, Begins
  <2>2. AnswerAtOnce(s, "not_found") \/ Becomes(s, r)
    BY <1>5 DEF DeleteLoad, Admit
  <2> HIDE DEF r
  <2>3. QED
    BY <1>a, <1>b, <2>1, <2>2
<1>6. ASSUME NEW g \in created, GoalShow(s, u, g) PROVE Fresh(req[s])'
  BY <1>6, <1>b DEF GoalShow
<1>7. ASSUME ConfigShow(s, u) PROVE Fresh(req[s])'
  BY <1>7, <1>b DEF ConfigShow
<1>8. QED
  BY <1>1, <1>2, <1>3, <1>4, <1>5, <1>6, <1>7

\* The handler's own steps: only the validation reads, and it leaves the rows alone.
LEMMA FreshProgress ==
    ASSUME GoalsInv, NEW s \in Slot, Fresh(req[s]), Proceed(s) \/ Crash(s)
    PROVE  Fresh(req[s])'
<1>0. req \in Requests /\ req[s] \in Request
  BY DEF GoalsInv, RequestInv, Requests
<1>a. ASSUME NEW r, Becomes(s, r), Begins(r) PROVE Fresh(req[s])'
  BY <1>0, <1>a, BecomesOne DEF Fresh, Begins
<1>b. ASSUME NEW step \in {"reload", "answer"},
             NEW w \in {"none", "ok", "no_config", "not_found", "over_limit", "bad_status", "error"},
             Becomes(s, Past(req[s], step, w))
      PROVE  Fresh(req[s])'
  <2>1. Begins(Past(req[s], step, w))
    BY <1>0, PastFields DEF UpdateAt, Begins
  <2>2. QED
    BY <1>a, <1>b, <2>1
<1>1. ASSUME Deliver(s) \/ Crash(s) PROVE Fresh(req[s])'
  BY <1>1, <1>a, IdleFields DEF UpdateAt, Begins, Deliver, Crash
<1>2. ASSUME Validate(s) PROVE Fresh(req[s])'
  <2> DEFINE r == [req[s] EXCEPT !.at = "write",
                                 !.sum = AllocatedBeside(req[s].user, req[s].goal)]
  <2>1. Answer(s, "over_limit") \/ Answer(s, "bad_status") \/ Becomes(s, r)
    BY <1>2 DEF Validate
  <2>2. /\ r.op = req[s].op /\ r.goal = req[s].goal /\ r.user = req[s].user
        /\ r.row = req[s].row /\ r.sum = AllocatedBeside(req[s].user, req[s].goal)
    BY <1>0 DEF Request
  <2>3. req[s].at = "validate" /\ goal' = goal
    BY <1>2 DEF Validate
  <2>4. r.sum = Beside(goal, req[s].user, req[s].goal)
    BY <2>2, AllocatedIsBeside
  <2> HIDE DEF r
  <2>5. ASSUME Becomes(s, r) PROVE Fresh(req[s])'
    <3>1. req'[s] = r
      BY <1>0, <2>5, BecomesOne
    <3>2. QED
      BY <2>2, <2>3, <2>4, <3>1 DEF Fresh, UpdateAt
  <2>6. QED
    BY <1>b, <2>1, <2>5 DEF Answer
<1>3. ASSUME NEW g \in Goal, CreateInsert(s, g) PROVE Fresh(req[s])'
  <2> DEFINE p == Past(req[s], "reload", "none")
             r == [p EXCEPT !.goal = g]
  <2>1. p \in Request /\ p.at = "reload"
    BY <1>0, PastFields
  <2>2. Becomes(s, r)
    BY <1>3 DEF CreateInsert
  <2> HIDE DEF p
  <2>3. Begins(r)
    BY <2>1 DEF Request, UpdateAt, Begins
  <2> HIDE DEF r
  <2>4. QED
    BY <1>a, <2>2, <2>3
<1>4. ASSUME ConfigCommit(s) \/ DeleteCommit(s) \/ GoalReload(s) PROVE Fresh(req[s])'
  BY <1>4, <1>b DEF ConfigCommit, DeleteCommit, GoalReload, Answer
<1>5. ASSUME UpdateCommit(s) PROVE Fresh(req[s])'
  BY <1>5, <1>b DEF UpdateCommit
<1>6. QED
  BY <1>1, <1>2, <1>3, <1>4, <1>5 DEF Proceed

\* A write of what is still so is no race.
LEMMA FreshWrite ==
    ASSUME GoalsInv, [Next]_vars, \A s \in Slot : Fresh(req[s]), excused' # excused
    PROVE  \E s \in Slot : UncheckedActivation(s)
<1>1. ASSUME NEW s \in Slot, Excuse(s), req[s].at = "write", req[s].op \in {"create", "update"}
      PROVE  UncheckedActivation(s)
  <2>1. StaleCheck(s) \/ StaleRow(s) \/ UncheckedActivation(s)
    BY <1>1 DEF Excuse
  <2>2. ~StaleCheck(s)
    BY <1>1, AllocatedIsBeside DEF StaleCheck, Fresh
  <2>3. ~StaleRow(s)
    BY <1>1 DEF StaleRow, Fresh, UpdateAt
  <2>4. QED
    BY <2>1, <2>2, <2>3
<1>2. \/ \E s \in Slot, g \in Goal : CreateInsert(s, g)
      \/ \E s \in Slot : UpdateCommit(s) \/ DeleteCommit(s)
  BY ThreeWrites
<1>3. ASSUME NEW s \in Slot, NEW g \in Goal, CreateInsert(s, g) PROVE UncheckedActivation(s)
  BY <1>1, <1>3 DEF CreateInsert
<1>4. ASSUME NEW s \in Slot, UpdateCommit(s) PROVE UncheckedActivation(s)
  BY <1>1, <1>4 DEF UpdateCommit
<1>5. ASSUME NEW s \in Slot, DeleteCommit(s) PROVE FALSE
  BY <1>5 DEF DeleteCommit
<1>6. QED
  BY <1>2, <1>3, <1>4, <1>5

\* Where requests never overlap, the documented cap has one hole only: a user is
\* excused by nothing but the reactivation of a goal, which no check precedes.  The run
\* goals_cap breaks the cap with two handlers and no reactivation.
THEOREM SerialCap ==
    ASSUME NEW s \in Slot, Slot = {s}
    PROVE  Spec => [][excused' # excused => UncheckedActivation(s)]_vars
<1> DEFINE Inv == GoalsInv /\ \A t \in Slot : Fresh(req[t])
<1>1. Init => Inv
  BY GoalsInvInit DEF Init, Fresh, UpdateAt, Idle
<1>2. Inv /\ [Next]_vars => Inv'
  <2> SUFFICES ASSUME Inv, [Next]_vars PROVE Inv'
      OBVIOUS
  <2>1. CASE UNCHANGED vars
    BY <2>1, GoalsInvStep DEF vars, Fresh
  <2>2. Next => Fresh(req[s])'
    BY FreshArrival, FreshProgress DEF Next
  <2>3. QED
    BY <2>1, <2>2, GoalsInvStep
<1>3. Inv /\ [Next]_vars => [excused' # excused => UncheckedActivation(s)]_vars
  BY FreshWrite
<1>4. QED
  BY <1>1, <1>2, <1>3, PTL DEF Spec
=============================================================================
