---------------------------- MODULE IngestProofs ----------------------------
(***************************************************************************)
(* Theorems about Ingest for every set of transactions, handlers, workers  *)
(* and accounts, and every bound on keys and faults.                       *)
(***************************************************************************)
EXTENDS Ingest, TLAPS

-----------------------------------------------------------------------------
(* The rows and the webhooks in flight, field by field. *)

LEMMA IdleFields ==
    /\ Idle \in Webhook
    /\ Idle.at = "idle" /\ Idle.tx = NoTx /\ Idle.sig = 0 /\ Idle.key = 0
    /\ Idle.user = NoUser /\ Idle.answer = "none"
BY IngestAssumption DEF Idle, Webhook

LEMMA AtFields ==
    ASSUME NEW t \in Tx, NEW step \in {"fetch", "resolve", "store", "answer"}
    PROVE  /\ At(t, step) \in Webhook
           /\ At(t, step).at = step /\ At(t, step).tx = t /\ At(t, step).sig = 0
           /\ At(t, step).key = 0 /\ At(t, step).user = NoUser /\ At(t, step).answer = "none"
<1>1. 0 \in 0..MaxKey
  BY IngestAssumption
<1>2. At(t, step) \in Webhook
  BY <1>1 DEF At, Idle, Webhook
<1>3. At(t, step).at = step /\ At(t, step).tx = t /\ At(t, step).sig = 0
  BY DEF At, Idle
<1>4. At(t, step).key = 0 /\ At(t, step).user = NoUser /\ At(t, step).answer = "none"
  BY DEF At, Idle
<1>5. QED
  BY <1>2, <1>3, <1>4

LEMMA AnsweredFields ==
    ASSUME NEW t \in Tx, NEW a \in {"ok", "refused", "not_found", "error"}
    PROVE  /\ Answered(t, a) \in Webhook
           /\ Answered(t, a).at = "answer" /\ Answered(t, a).tx = t
           /\ Answered(t, a).sig = 0 /\ Answered(t, a).key = 0 /\ Answered(t, a).answer = a
<1>1. At(t, "answer") \in Webhook
  BY AtFields
<1>2. Answered(t, a) \in Webhook
  BY <1>1 DEF Answered, Webhook
<1>3. Answered(t, a).answer = a
  BY <1>1 DEF Answered, Webhook
<1>4. /\ Answered(t, a).at = "answer" /\ Answered(t, a).tx = t
      /\ Answered(t, a).sig = 0 /\ Answered(t, a).key = 0
  BY <1>1, AtFields DEF Answered, Webhook
<1>5. QED
  BY <1>2, <1>3, <1>4

\* Only webhook s changes.
Serves(s) ==
    /\ req' \in [Slot -> Webhook]
    /\ \A q \in Slot \ {s} : req'[q] = req[q]

LEMMA BecomesServes ==
    ASSUME req \in [Slot -> Webhook], NEW s \in Slot, NEW r \in Webhook, Becomes(s, r)
    PROVE  Serves(s) /\ req'[s] = r
BY DEF Becomes, Serves

\* Without a row, or with one that the webhook or the loader wrote.
LEMMA AbsentFields ==
    /\ Absent \notin Row
    /\ Absent.from = "nobody" /\ Absent.user = NoUser
    /\ \A r \in Row : r # Absent /\ r.user \in User /\ r.from \in {"webhook", "statement"}
BY IngestAssumption DEF Absent, Row

-----------------------------------------------------------------------------
(* The inductive invariant. *)

\* What a webhook in flight has established: which transaction it is about, that
\* the bank signed it once a check let it through, that its row is stored before
\* the notice and the answer.
Knows(r) ==
    /\ r.at # "idle" => r.tx \in Tx
    /\ r.key <= bankKey
    /\ r.at \in {"fetch", "verify"} /\ r.sig # 0 => r.tx \in signed
    /\ r.at \in {"resolve", "store", "notify"} => r.tx \in signed
    /\ r.at \in {"store", "notify"} => r.user \in User
    /\ r.at = "notify" =>
           row[r.tx] # Absent /\ row[r.tx].from = "webhook" /\ announced[r.tx] = 0
    /\ r.at = "answer" /\ r.answer = "ok" => r.tx \in Stored

HandlerInv == \A s \in Slot : Knows(req[s])

\* A transaction has one notice to send at most.
NotifiesAlone ==
    \A s, q \in Slot :
        req[s].at = "notify" /\ req[q].at = "notify" /\ req[s].tx = req[q].tx => s = q

\* Between its commits the loader knows whose the rows of the statement are, and
\* which of them already bear their date.
LoaderInv ==
    /\ \A t \in loader.seen : row[t].user = LoaderUser
    /\ loader.at = "redate" =>
           \A t \in Statement :
               /\ row[t].user = LoaderUser
               /\ t \notin loader.seen => row[t].dated = "made"

\* What the tables and the history alone say.
BookInv ==
    /\ AnnouncedOnceStored
    /\ AckedIsStored
    /\ OnlySignedIsStored
    /\ StatementLoadedWhole
    /\ LoadedAndDated

IngestInv == TypeOK /\ HandlerInv /\ NotifiesAlone /\ LoaderInv /\ BookInv

LEMMA IngestInvInit == Init => IngestInv
<1> SUFFICES ASSUME Init PROVE IngestInv
    OBVIOUS
<1>1. TypeOK
  <2>1. 0 \in 0..MaxFaults /\ 1 \in 1..MaxKey /\ 0 \in 0..bankKey
    BY IngestAssumption DEF Init
  <2>2. loader \in [at : {"idle", "insert", "redate", "done"}, seen : SUBSET Stored]
    BY DEF Init, LoaderIdle
  <2>3. QED
    BY <2>1, <2>2, IdleFields DEF TypeOK, Init
<1>2. HandlerInv /\ NotifiesAlone
  BY IdleFields DEF HandlerInv, Knows, NotifiesAlone, Init
<1>3. LoaderInv /\ LoadedAndDated
  BY DEF LoaderInv, LoadedAndDated, LoaderIdle, Init
<1>4. AnnouncedOnceStored /\ AckedIsStored /\ OnlySignedIsStored /\ StatementLoadedWhole
  BY AbsentFields DEF AnnouncedOnceStored, AckedIsStored, OnlySignedIsStored,
                      StatementLoadedWhole, Init
<1>5. QED
  BY <1>1, <1>2, <1>3, <1>4 DEF IngestInv, BookInv

-----------------------------------------------------------------------------
(* Steps that leave the tables alone. *)

\* A webhook goes on without a new row and without a notice to send.
LEMMA RequestStep ==
    ASSUME IngestInv, NEW s \in Slot, Serves(s),
           req'[s].at # "notify", Knows(req[s])',
           UNCHANGED <<owner, row, bankKey, loader, announced>>,
           faults' \in 0..MaxFaults,
           cachedKey' \in [Worker -> 0..bankKey],
           signed \subseteq signed', signed' \subseteq Tx,
           acked' \subseteq Stored
    PROVE  IngestInv'
<1>1. TypeOK'
  BY DEF IngestInv, TypeOK, Serves, Stored
<1>2. HandlerInv'
  <2> SUFFICES ASSUME NEW q \in Slot, q # s PROVE Knows(req[q])'
      BY DEF HandlerInv
  <2>1. Knows(req[q]) /\ req'[q] = req[q]
    BY DEF IngestInv, HandlerInv, Serves
  <2>2. QED
    BY <2>1 DEF Knows, Stored
<1>3. NotifiesAlone'
  BY DEF IngestInv, NotifiesAlone, Serves
<1>4. LoaderInv'
  BY DEF IngestInv, LoaderInv
<1>5. BookInv'
  BY DEF IngestInv, BookInv, AnnouncedOnceStored, AckedIsStored, OnlySignedIsStored,
         StatementLoadedWhole, LoadedAndDated, Stored
<1>6. QED
  BY <1>1, <1>2, <1>3, <1>4, <1>5 DEF IngestInv

\* The verdict is that of the signature, and what it lets through was signed.
LEMMA VerdictFields ==
    ASSUME NEW t \in Tx, NEW sig \in Nat, NEW key \in Nat
    PROVE  /\ Verdict(t, sig, key) \in Webhook
           /\ Verdict(t, sig, key).tx = t /\ Verdict(t, sig, key).key = 0
           /\ \/ Verdict(t, sig, key).at = "resolve" /\ sig # 0
              \/ Verdict(t, sig, key).at = "answer" /\ Verdict(t, sig, key).answer = "refused"
<1>1. CASE KeyAccepts(sig, key)
  BY <1>1, AtFields DEF Verdict, KeyAccepts
<1>2. CASE ~KeyAccepts(sig, key)
  BY <1>2, AnsweredFields DEF Verdict
<1>3. QED
  BY <1>1, <1>2

\* The numbers of the faults and of the keys.
LEMMA Bounds ==
    ASSUME TypeOK
    PROVE  /\ faults \in 0..MaxFaults
           /\ Fault => faults' \in 0..MaxFaults
           /\ bankKey \in Nat /\ 1 <= bankKey /\ bankKey <= MaxKey
           /\ 0..bankKey \subseteq 0..MaxKey
           /\ 0 \in 0..bankKey
BY IngestAssumption DEF TypeOK, Fault

LEMMA ReceiveStep ==
    ASSUME IngestInv, NEW s \in Slot, NEW t \in Tx, NEW sig \in 0..MaxKey, Receive(s, t, sig)
    PROVE  IngestInv'
<1> DEFINE cached == cachedKey[WorkerOf[s]]
<1>1. TypeOK /\ cached \in Nat /\ sig \in Nat
  BY IngestAssumption, Bounds DEF IngestInv, TypeOK
<1>2. sig # 0 => t \in signed'
  BY DEF Receive
<1>3. Serves(s) /\ req'[s].at # "notify" /\ Knows(req[s])'
  <2>1. CASE cached = 0
    <3> DEFINE r == [At(t, "fetch") EXCEPT !.sig = sig]
    <3>1. At(t, "fetch") \in Webhook
      BY AtFields
    <3>2. r \in Webhook /\ r.at = "fetch" /\ r.tx = t /\ r.sig = sig /\ r.key = 0
      BY <3>1, AtFields DEF Webhook
    <3>3. Becomes(s, r)
      BY <2>1 DEF Receive
    <3>4. Serves(s) /\ req'[s] = r
      BY <1>1, <3>2, <3>3, BecomesServes DEF TypeOK
    <3>5. bankKey' \in Nat /\ 0 <= bankKey'
      BY <1>1, Bounds DEF Receive, keys
    <3>6. QED
      BY <1>2, <3>2, <3>4, <3>5 DEF Knows
  <2>2. CASE cached # 0
    <3>1. Becomes(s, Verdict(t, sig, cached))
      BY <2>2 DEF Receive
    <3>2. Serves(s) /\ req'[s] = Verdict(t, sig, cached)
      BY <1>1, <3>1, VerdictFields, BecomesServes DEF TypeOK
    <3>3. bankKey' \in Nat /\ 0 <= bankKey'
      BY <1>1, Bounds DEF Receive, keys
    <3>4. QED
      BY <1>1, <1>2, <3>2, <3>3, VerdictFields DEF Knows
  <2>3. QED
    BY <2>1, <2>2
<1>4. UNCHANGED <<owner, row, bankKey, cachedKey, loader, faults, announced, acked>>
  BY DEF Receive, tables, keys
<1>5. signed \subseteq signed' /\ signed' \subseteq Tx
  BY <1>1 DEF Receive, TypeOK
<1>6. acked \subseteq Stored /\ cachedKey \in [Worker -> 0..bankKey]
  BY DEF IngestInv, BookInv, AckedIsStored, TypeOK
<1>7. QED
  BY <1>1, <1>3, <1>4, <1>5, <1>6, RequestStep, Bounds

\* What is known of a webhook in flight.
LEMMA InFlight ==
    ASSUME IngestInv, NEW s \in Slot, req[s].at # "idle"
    PROVE  /\ req \in [Slot -> Webhook] /\ req[s] \in Webhook
           /\ req[s].tx \in Tx /\ req[s].sig \in Nat /\ req[s].sig \in 0..MaxKey
           /\ req[s].key \in Nat /\ req[s].key <= bankKey
           /\ req[s].user \in User \cup {NoUser}
           /\ Knows(req[s])
           /\ bankKey \in Nat /\ 0 <= bankKey /\ bankKey \in 0..MaxKey
<1>1. TypeOK /\ Knows(req[s])
  BY DEF IngestInv, HandlerInv
<1>2. req \in [Slot -> Webhook] /\ req[s] \in Webhook
  BY <1>1 DEF TypeOK
<1>3. /\ req[s].sig \in 0..MaxKey /\ req[s].key \in 0..MaxKey
      /\ req[s].user \in User \cup {NoUser}
  BY <1>2 DEF Webhook
<1>4. req[s].tx \in Tx /\ req[s].key <= bankKey
  BY <1>1 DEF Knows
<1>5. QED
  BY <1>1, <1>2, <1>3, <1>4, Bounds, IngestAssumption

\* An answer other than 200, and the end of a webhook, claim nothing.
LEMMA RefusalStep ==
    ASSUME IngestInv, NEW s \in Slot, req[s].at # "idle",
           \/ Becomes(s, Idle)
           \/ \E a \in {"refused", "not_found", "error"} : Becomes(s, Answered(req[s].tx, a)),
           UNCHANGED <<owner, row, bankKey, loader, announced, signed>>,
           faults' \in 0..MaxFaults,
           cachedKey' \in [Worker -> 0..bankKey],
           acked' \subseteq Stored
    PROVE  IngestInv'
<1>1. /\ req \in [Slot -> Webhook] /\ req[s].tx \in Tx
      /\ bankKey \in Nat /\ 0 <= bankKey
  BY InFlight
<1>2. Serves(s) /\ req'[s].at # "notify" /\ Knows(req[s])'
  <2>1. CASE Becomes(s, Idle)
    <3>1. Serves(s) /\ req'[s] = Idle
      BY <1>1, <2>1, IdleFields, BecomesServes
    <3>2. QED
      BY <1>1, <3>1, IdleFields DEF Knows
  <2>2. ASSUME NEW a \in {"refused", "not_found", "error"},
               Becomes(s, Answered(req[s].tx, a))
        PROVE  Serves(s) /\ req'[s].at # "notify" /\ Knows(req[s])'
    <3>1. Serves(s) /\ req'[s] = Answered(req[s].tx, a)
      BY <1>1, <2>2, AnsweredFields, BecomesServes
    <3>2. QED
      BY <1>1, <3>1, AnsweredFields DEF Knows
  <2>3. QED
    BY <2>1, <2>2
<1>3. signed' \subseteq Tx
  BY DEF IngestInv, TypeOK
<1>4. QED
  BY <1>2, <1>3, RequestStep

LEMMA FetchKeyStep ==
    ASSUME IngestInv, NEW s \in Slot, FetchKey(s)
    PROVE  IngestInv'
<1> DEFINE r == [req[s] EXCEPT !.at = "verify", !.key = bankKey]
<1>1. req[s].at = "fetch" /\ Becomes(s, r)
  BY DEF FetchKey
<1>2. UNCHANGED <<owner, row, bankKey, cachedKey, loader, faults, announced, signed, acked>>
  BY DEF FetchKey, tables, keys, history
<1>3. /\ r \in Webhook
      /\ r.at = "verify" /\ r.tx = req[s].tx /\ r.sig = req[s].sig /\ r.key = bankKey
  BY <1>1, InFlight DEF Webhook
<1>4. Serves(s) /\ req'[s] = r
  BY <1>1, <1>3, InFlight, BecomesServes
<1>5. Knows(req[s])' /\ req'[s].at # "notify"
  <2>1. req[s].tx \in Tx /\ (req[s].sig # 0 => req[s].tx \in signed) /\ bankKey \in Nat
    BY <1>1, InFlight DEF Knows
  <2>2. QED
    BY <1>2, <1>3, <1>4, <2>1 DEF Knows
<1>6. /\ acked \subseteq Stored /\ cachedKey \in [Worker -> 0..bankKey]
      /\ signed \subseteq Tx /\ faults \in 0..MaxFaults
  BY DEF IngestInv, BookInv, AckedIsStored, TypeOK
<1>7. QED
  BY <1>2, <1>4, <1>5, <1>6, RequestStep

LEMMA VerifyStep ==
    ASSUME IngestInv, NEW s \in Slot, Verify(s)
    PROVE  IngestInv'
<1> DEFINE r == Verdict(req[s].tx, req[s].sig, req[s].key)
<1>1. req[s].at = "verify" /\ Becomes(s, r)
  BY DEF Verify
<1>2. UNCHANGED <<owner, row, bankKey, loader, faults, announced, signed, acked>>
  BY DEF Verify, tables, history
<1>3. Serves(s) /\ req'[s] = r
  BY <1>1, InFlight, VerdictFields, BecomesServes
<1>4. Knows(req[s])' /\ req'[s].at # "notify"
  <2>1. /\ req[s].tx \in Tx /\ (req[s].sig # 0 => req[s].tx \in signed)
        /\ bankKey \in Nat /\ 0 <= bankKey
    BY <1>1, InFlight DEF Knows
  <2>2. /\ r.tx = req[s].tx /\ r.key = 0
        /\ \/ r.at = "resolve" /\ req[s].sig # 0
           \/ r.at = "answer" /\ r.answer = "refused"
    BY <1>1, InFlight, VerdictFields
  <2> HIDE DEF r
  <2>3. QED
    BY <1>2, <1>3, <2>1, <2>2 DEF Knows
<1>5. cachedKey' \in [Worker -> 0..bankKey]
  <2>1. req[s].key \in 0..bankKey
    BY <1>1, InFlight
  <2>2. QED
    BY <2>1 DEF Verify, IngestInv, TypeOK
<1>6. acked \subseteq Stored /\ signed \subseteq Tx /\ faults \in 0..MaxFaults
  BY DEF IngestInv, BookInv, AckedIsStored, TypeOK
<1>7. QED
  BY <1>2, <1>3, <1>4, <1>5, <1>6, RequestStep

LEMMA ResolveAccountStep ==
    ASSUME IngestInv, NEW s \in Slot, ResolveAccount(s)
    PROVE  IngestInv'
<1> DEFINE u == owner[AccountOf[req[s].tx]]
<1>1. req[s].at = "resolve" /\ req[s].tx \in Tx
  BY InFlight DEF ResolveAccount
<1>2. UNCHANGED <<owner, row, bankKey, cachedKey, loader, faults, announced, signed, acked>>
  BY DEF ResolveAccount, tables, keys, history
<1>3. /\ acked \subseteq Stored /\ cachedKey \in [Worker -> 0..bankKey]
      /\ signed \subseteq Tx /\ faults \in 0..MaxFaults
  BY DEF IngestInv, BookInv, AckedIsStored, TypeOK
<1>4. CASE u = NoUser
  <2>1. Becomes(s, Answered(req[s].tx, "not_found"))
    BY <1>4 DEF ResolveAccount
  <2>2. QED
    BY <1>1, <1>2, <1>3, <2>1, RefusalStep
<1>5. CASE u # NoUser
  <2> DEFINE r == [At(req[s].tx, "store") EXCEPT !.user = u]
  <2>1. u \in User
    BY <1>1, <1>5, IngestAssumption DEF IngestInv, TypeOK
  <2>2. At(req[s].tx, "store") \in Webhook
    BY <1>1, AtFields
  <2>3. r \in Webhook /\ r.at = "store" /\ r.tx = req[s].tx /\ r.user = u /\ r.key = 0
    BY <1>1, <2>1, <2>2, AtFields DEF Webhook
  <2>4. Becomes(s, r)
    BY <1>5 DEF ResolveAccount
  <2>5. Serves(s) /\ req'[s] = r
    BY <1>1, <2>3, <2>4, InFlight, BecomesServes
  <2>6. req[s].tx \in signed /\ bankKey \in Nat /\ 0 <= bankKey
    BY <1>1, InFlight DEF Knows
  <2> HIDE DEF r, u
  <2>7. Knows(req[s])' /\ req'[s].at # "notify"
    BY <1>1, <1>2, <2>1, <2>3, <2>5, <2>6 DEF Knows
  <2>8. QED
    BY <1>2, <1>3, <2>5, <2>7, RequestStep
<1>6. QED
  BY <1>4, <1>5

LEMMA DeliverStep ==
    ASSUME IngestInv, NEW s \in Slot, Deliver(s)
    PROVE  IngestInv'
<1>1. req[s].at = "answer" /\ Becomes(s, Idle)
  BY DEF Deliver
<1>2. UNCHANGED <<owner, row, bankKey, cachedKey, loader, faults, announced, signed>>
  BY DEF Deliver, tables, keys
<1>3. acked' \subseteq Stored
  <2>1. req[s].answer = "ok" => req[s].tx \in Stored
    BY <1>1, InFlight DEF Knows
  <2>2. QED
    BY <2>1 DEF Deliver, IngestInv, BookInv, AckedIsStored
<1>4. cachedKey \in [Worker -> 0..bankKey] /\ faults \in 0..MaxFaults
  BY DEF IngestInv, TypeOK
<1>5. QED
  BY <1>1, <1>2, <1>3, <1>4, RefusalStep

\* The download of the key fails, or the handler dies.
LEMMA FailureStep ==
    ASSUME IngestInv, NEW s \in Slot, FetchFails(s) \/ Crash(s)
    PROVE  IngestInv'
<1>1. /\ req[s].at # "idle" /\ Fault
      /\ Becomes(s, Idle) \/ Becomes(s, Answered(req[s].tx, "refused"))
  BY DEF FetchFails, Crash
<1>2. UNCHANGED <<owner, row, bankKey, cachedKey, loader, announced, signed, acked>>
  BY DEF FetchFails, Crash, tables, keys, history
<1>3. acked \subseteq Stored /\ cachedKey \in [Worker -> 0..bankKey] /\ faults' \in 0..MaxFaults
  BY <1>1, Bounds DEF IngestInv, BookInv, AckedIsStored, TypeOK
<1>4. QED
  BY <1>1, <1>2, <1>3, RefusalStep

-----------------------------------------------------------------------------
(* Steps that change the tables. *)

\* No row is lost, and of a stored row only the date changes, to the one it was made.
RowsKept ==
    /\ row' \in [Tx -> Row \cup {Absent}]
    /\ \A t \in Stored :
         /\ row'[t] # Absent
         /\ row'[t].user = row[t].user
         /\ row'[t].from = row[t].from
         /\ row[t].dated = "made" => row'[t].dated = "made"

LEMMA RowFields ==
    ASSUME TypeOK, NEW t \in Tx
    PROVE  /\ row[t] = Absent <=> t \notin Stored
           /\ row[t] = Absent => row[t].user \notin User /\ row[t].from = "nobody"
           /\ row[t] # Absent => row[t] \in Row
BY AbsentFields, IngestAssumption DEF TypeOK, Stored

\* Handlers and history keep what they know of the rows.
LEMMA KeepingStep ==
    ASSUME IngestInv, RowsKept, bankKey' \in Nat, bankKey <= bankKey',
           UNCHANGED <<announced, signed, acked>>
    PROVE  /\ \A r \in Webhook : Knows(r) => Knows(r)'
           /\ AnnouncedOnceStored'
           /\ AckedIsStored'
           /\ Stored \subseteq Stored'
<1>1. TypeOK
  BY DEF IngestInv
<1>2. Stored \subseteq Stored'
  BY DEF RowsKept, Stored
<1>3. AckedIsStored'
  BY <1>2 DEF IngestInv, BookInv, AckedIsStored
<1>4. AnnouncedOnceStored'
  <2> SUFFICES ASSUME NEW t \in Tx
               PROVE  announced[t] <= 1 /\ (announced[t] = 1 => row'[t].from = "webhook")
      BY DEF AnnouncedOnceStored
  <2>1. announced[t] <= 1 /\ (announced[t] = 1 => row[t].from = "webhook")
    BY DEF IngestInv, BookInv, AnnouncedOnceStored
  <2>2. announced[t] = 1 => t \in Stored
    BY <1>1, <2>1, RowFields
  <2>3. QED
    BY <2>1, <2>2 DEF RowsKept
<1>5. ASSUME NEW r \in Webhook, Knows(r) PROVE Knows(r)'
  <2>1. r.key \in Nat /\ bankKey \in Nat
    BY <1>1, Bounds, IngestAssumption DEF Webhook
  <2>2. r.at = "notify" => r.tx \in Stored
    BY <1>5 DEF Knows, Stored
  <2>3. r.key <= bankKey'
    BY <1>5, <2>1 DEF Knows
  <2>4. QED
    BY <1>2, <1>5, <2>2, <2>3 DEF Knows, RowsKept
<1>6. QED
  BY <1>2, <1>3, <1>4, <1>5

\* The loader and the accounts: no webhook moves.
LEMMA TableStep ==
    ASSUME IngestInv, RowsKept,
           bankKey' \in 1..MaxKey, bankKey <= bankKey',
           owner' \in [Account -> User \cup {NoUser}],
           faults' \in 0..MaxFaults,
           loader' \in [at : {"idle", "insert", "redate", "done"}, seen : SUBSET Stored'],
           UNCHANGED <<req, cachedKey, announced, signed, acked>>,
           LoaderInv', OnlySignedIsStored', StatementLoadedWhole', LoadedAndDated'
    PROVE  IngestInv'
<1>1. bankKey \in Nat /\ bankKey' \in Nat /\ cachedKey \in [Worker -> 0..bankKey]
  BY Bounds, IngestAssumption DEF IngestInv, TypeOK
<1>2. TypeOK'
  <2>1. cachedKey' \in [Worker -> 0..bankKey']
    BY <1>1
  <2>2. QED
    BY <2>1 DEF IngestInv, TypeOK, RowsKept
<1>3. /\ \A r \in Webhook : Knows(r) => Knows(r)'
      /\ AnnouncedOnceStored'
      /\ AckedIsStored'
  BY <1>1, KeepingStep
<1>4. HandlerInv'
  <2> SUFFICES ASSUME NEW s \in Slot PROVE Knows(req[s])'
      BY DEF HandlerInv
  <2>1. req[s] \in Webhook /\ Knows(req[s])
    BY DEF IngestInv, TypeOK, HandlerInv
  <2>2. PICK r \in Webhook : r = req[s]
    BY <2>1
  <2>3. Knows(r)'
    BY <1>3, <2>1, <2>2
  <2>4. req'[s] = r
    BY <2>2
  <2>5. QED
    BY <2>3, <2>4 DEF Knows
<1>5. NotifiesAlone'
  BY DEF IngestInv, NotifiesAlone
<1>6. QED
  BY <1>2, <1>3, <1>4, <1>5 DEF IngestInv, BookInv

\* Rows and loader as they are.
LEMMA RowsUnchanged ==
    ASSUME IngestInv, UNCHANGED <<row, signed>>
    PROVE  /\ RowsKept /\ OnlySignedIsStored' /\ StatementLoadedWhole'
           /\ loader' = loader => LoaderInv' /\ LoadedAndDated'
           /\ loader' = LoaderIdle => LoaderInv' /\ LoadedAndDated'
<1>1. RowsKept
  BY DEF RowsKept, IngestInv, TypeOK, Stored
<1>2. OnlySignedIsStored' /\ StatementLoadedWhole'
  BY DEF IngestInv, BookInv, OnlySignedIsStored, StatementLoadedWhole, Stored
<1>3. ASSUME loader' = loader PROVE LoaderInv' /\ LoadedAndDated'
  BY <1>3 DEF IngestInv, BookInv, LoaderInv, LoadedAndDated
<1>4. ASSUME loader' = LoaderIdle PROVE LoaderInv' /\ LoadedAndDated'
  BY <1>4 DEF LoaderInv, LoadedAndDated, LoaderIdle
<1>5. QED
  BY <1>1, <1>2, <1>3, <1>4

LEMMA AroundStep ==
    ASSUME IngestInv,
           RotateKey \/ LoaderCrash \/ \E a \in Account, u \in User : LinkAccount(a, u)
    PROVE  IngestInv'
<1>1. TypeOK /\ bankKey \in Nat /\ 1 <= bankKey /\ bankKey <= MaxKey /\ faults \in 0..MaxFaults
  BY Bounds DEF IngestInv
<1>2. CASE RotateKey
  <2>1. bankKey' \in 1..MaxKey /\ bankKey <= bankKey'
    BY <1>1, <1>2, IngestAssumption DEF RotateKey
  <2>2. UNCHANGED <<owner, row, cachedKey, req, loader, faults, announced, signed, acked>>
    BY <1>2 DEF RotateKey, tables, history
  <2>3. QED
    BY <1>1, <2>1, <2>2, RowsUnchanged, TableStep DEF TypeOK, Stored
<1>3. CASE LoaderCrash
  <2>1. loader' = LoaderIdle /\ faults' \in 0..MaxFaults
    BY <1>1, <1>3, Bounds DEF LoaderCrash
  <2>2. UNCHANGED <<owner, row, bankKey, cachedKey, req, announced, signed, acked>>
    BY <1>3 DEF LoaderCrash, tables, keys, history
  <2>3. loader' \in [at : {"idle", "insert", "redate", "done"}, seen : SUBSET Stored']
    BY <2>1 DEF LoaderIdle
  <2>4. bankKey' \in 1..MaxKey /\ bankKey <= bankKey'
    BY <1>1, <2>2, IngestAssumption
  <2>5. QED
    BY <1>1, <2>1, <2>2, <2>3, <2>4, RowsUnchanged, TableStep DEF TypeOK
<1>4. ASSUME NEW a \in Account, NEW u \in User, LinkAccount(a, u) PROVE IngestInv'
  <2>1. owner' \in [Account -> User \cup {NoUser}]
    BY <1>1, <1>4 DEF LinkAccount, TypeOK
  <2>2. UNCHANGED <<row, bankKey, cachedKey, req, loader, faults, announced, signed, acked>>
    BY <1>4 DEF LinkAccount, keys, history
  <2>3. bankKey' \in 1..MaxKey /\ bankKey <= bankKey'
    BY <1>1, <2>2, IngestAssumption
  <2>4. QED
    BY <1>1, <2>1, <2>2, <2>3, RowsUnchanged, TableStep DEF TypeOK, Stored
<1>5. QED
  BY <1>2, <1>3, <1>4

LEMMA LoaderSelectStep ==
    ASSUME IngestInv, LoaderSelect
    PROVE  IngestInv'
<1>1. TypeOK /\ bankKey \in 1..MaxKey /\ bankKey \in Nat
  BY Bounds, IngestAssumption DEF IngestInv, TypeOK
<1>2. loader' = [at |-> "insert", seen |-> {t \in Stored : row[t].user = LoaderUser}]
  BY DEF LoaderSelect
<1>3. UNCHANGED <<owner, row, bankKey, cachedKey, req, faults, announced, signed, acked>>
  BY DEF LoaderSelect, tables, keys, history
<1>4. Stored' = Stored
  BY <1>3 DEF Stored
<1>5. loader' \in [at : {"idle", "insert", "redate", "done"}, seen : SUBSET Stored']
  BY <1>2, <1>4
<1>6. LoaderInv' /\ LoadedAndDated'
  BY <1>2, <1>3 DEF LoaderInv, LoadedAndDated
<1>7. QED
  BY <1>1, <1>3, <1>5, <1>6, RowsUnchanged, TableStep DEF TypeOK

\* What the first commit of the loader does when it succeeds.
LEMMA InsertedRows ==
    ASSUME IngestInv, row' = WithRowsOf(Added), ~BatchRefused
    PROVE  /\ RowsKept
           /\ Statement \subseteq Stored'
           /\ \A t \in Statement :
                /\ row'[t].user = LoaderUser
                /\ t \notin loader.seen => row'[t].dated = "made"
           /\ \A t \in Tx : row'[t].from = "webhook" => row[t].from = "webhook"
           /\ \A t \in Tx \ Statement : row'[t] = row[t]
<1> DEFINE new == [user |-> LoaderUser, from |-> "statement", dated |-> "made"]
<1>1. /\ Statement \subseteq Tx /\ Added \subseteq Statement
      /\ Added \cap Stored = {}
      /\ Statement \ Added \subseteq loader.seen
      /\ \A t \in loader.seen : t \in Stored /\ row[t].user = LoaderUser
  BY IngestAssumption DEF BatchRefused, Added, IngestInv, TypeOK, LoaderInv
<1>2. new \in Row /\ new # Absent /\ new.user = LoaderUser /\ new.dated = "made"
  BY IngestAssumption, AbsentFields DEF Row
<1>3. \A t \in Tx : row'[t] = IF t \in Added THEN new ELSE row[t]
  BY DEF WithRowsOf
<1>4. row' \in [Tx -> Row \cup {Absent}]
  BY <1>2 DEF WithRowsOf, IngestInv, TypeOK
<1>5. RowsKept
  BY <1>1, <1>3, <1>4 DEF RowsKept, Stored
<1>6. Statement \subseteq Stored'
  BY <1>1, <1>2, <1>3 DEF Stored
<1>7. \A t \in Statement : row'[t].user = LoaderUser /\ (t \notin loader.seen => row'[t].dated = "made")
  BY <1>1, <1>2, <1>3
<1>8. \A t \in Tx : row'[t].from = "webhook" => row[t].from = "webhook"
  BY <1>3
<1>9. QED
  BY <1>1, <1>3, <1>5, <1>6, <1>7, <1>8

LEMMA LoaderInsertStep ==
    ASSUME IngestInv, LoaderInsert
    PROVE  IngestInv'
<1>1. TypeOK /\ bankKey \in 1..MaxKey /\ bankKey \in Nat
  BY Bounds, IngestAssumption DEF IngestInv, TypeOK
<1>2. UNCHANGED <<owner, bankKey, cachedKey, req, faults, announced, signed, acked>>
  BY DEF LoaderInsert, keys, history
<1>3. CASE BatchRefused
  <2>1. loader' = LoaderIdle /\ row' = row
    BY <1>3 DEF LoaderInsert
  <2>2. loader' \in [at : {"idle", "insert", "redate", "done"}, seen : SUBSET Stored']
    BY <2>1 DEF LoaderIdle
  <2>3. QED
    BY <1>1, <1>2, <2>1, <2>2, RowsUnchanged, TableStep DEF TypeOK
<1>4. CASE ~BatchRefused
  <2>1. loader' = AfterInsert /\ row' = WithRowsOf(Added)
    BY <1>4 DEF LoaderInsert
  <2>2. /\ loader' \in [at : {"redate", "done"}, seen : SUBSET Stored]
        /\ loader'.seen = loader.seen
        /\ loader'.at = "done" => Statement \cap loader.seen = {}
    BY <1>1, <2>1 DEF AfterInsert, TypeOK
  <2>3. RowsKept
    BY <1>4, <2>1, InsertedRows
  <2>4. Stored \subseteq Stored'
    BY <2>3 DEF RowsKept, Stored
  <2>5. LoaderInv'
    <3>1. \A t \in loader.seen : row'[t].user = LoaderUser
      BY <1>1, <2>3 DEF RowsKept, IngestInv, LoaderInv, TypeOK
    <3>2. QED
      BY <1>4, <2>1, <2>2, <3>1, InsertedRows DEF LoaderInv
  <2>6. LoadedAndDated'
    BY <1>4, <2>1, <2>2, InsertedRows DEF LoadedAndDated
  <2>7. StatementLoadedWhole'
    BY <1>4, <2>1, InsertedRows DEF StatementLoadedWhole
  <2>8. OnlySignedIsStored'
    BY <1>2, <1>4, <2>1, InsertedRows DEF OnlySignedIsStored, IngestInv, BookInv
  <2>9. loader' \in [at : {"idle", "insert", "redate", "done"}, seen : SUBSET Stored']
    BY <2>2, <2>4
  <2>10. QED
    BY <1>1, <1>2, <2>3, <2>5, <2>6, <2>7, <2>8, <2>9, TableStep DEF TypeOK
<1>5. QED
  BY <1>3, <1>4

\* The second commit of the loader.
LEMMA RedatedRows ==
    ASSUME IngestInv, LoaderRedate
    PROVE  /\ RowsKept /\ Stored' = Stored
           /\ \A t \in Tx : row'[t].user = row[t].user /\ row'[t].from = row[t].from
           /\ \A t \in Statement : row'[t].user = LoaderUser /\ row'[t].dated = "made"
<1>1. loader.at = "redate" /\ loader.seen \subseteq Stored /\ Statement \subseteq Tx /\ TypeOK
  BY IngestAssumption DEF LoaderRedate, IngestInv, TypeOK
<1>2. \A t \in Tx : row'[t] = IF Redated(t) THEN [row[t] EXCEPT !.dated = "made"] ELSE row[t]
  BY DEF LoaderRedate
<1>3. ASSUME NEW t \in Tx, Redated(t)
      PROVE  /\ row'[t] \in Row /\ row'[t] # Absent
             /\ row'[t].dated = "made"
             /\ row'[t].user = row[t].user /\ row'[t].from = row[t].from
  <2>1. row[t] \in Row
    BY <1>1, <1>3, RowFields DEF Redated
  <2>2. row'[t] = [row[t] EXCEPT !.dated = "made"]
    BY <1>2, <1>3
  <2>3. QED
    BY <2>1, <2>2, AbsentFields DEF Row
<1>4. ASSUME NEW t \in Tx, ~Redated(t) PROVE row'[t] = row[t]
  BY <1>2, <1>4
<1>5. row' \in [Tx -> Row \cup {Absent}]
  <2>1. \A t \in Tx : row'[t] \in Row \cup {Absent}
    BY <1>1, <1>3, <1>4 DEF TypeOK
  <2>2. row' = [t \in Tx |-> row'[t]]
    BY DEF LoaderRedate
  <2>3. QED
    BY <2>1, <2>2
<1>6. \A t \in Tx : row'[t].user = row[t].user /\ row'[t].from = row[t].from
  BY <1>3, <1>4
<1>7. RowsKept /\ Stored' = Stored
  BY <1>1, <1>3, <1>4, <1>5 DEF RowsKept, Stored, Redated
<1>8. ASSUME NEW t \in Statement PROVE row'[t].user = LoaderUser /\ row'[t].dated = "made"
  <2>1. row[t].user = LoaderUser /\ (t \notin loader.seen => row[t].dated = "made")
    BY <1>1 DEF IngestInv, LoaderInv
  <2>2. QED
    BY <1>1, <1>3, <1>4, <2>1 DEF Redated
<1>9. QED
  BY <1>6, <1>7, <1>8

LEMMA LoaderRedateStep ==
    ASSUME IngestInv, LoaderRedate
    PROVE  IngestInv'
<1>1. TypeOK /\ bankKey \in 1..MaxKey /\ bankKey \in Nat
  BY Bounds, IngestAssumption DEF IngestInv, TypeOK
<1>2. UNCHANGED <<owner, bankKey, cachedKey, req, faults, announced, signed, acked>>
  BY DEF LoaderRedate, keys, history
<1>3. /\ loader' \in [at : {"idle", "insert", "redate", "done"}, seen : SUBSET Stored]
      /\ loader'.at = "done" /\ loader'.seen = loader.seen
  BY <1>1 DEF LoaderRedate, TypeOK
<1>4. LoaderInv'
  BY <1>1, <1>3, RedatedRows DEF LoaderInv, IngestInv, TypeOK, Stored
<1>5. LoadedAndDated'
  BY RedatedRows DEF LoadedAndDated
<1>6. StatementLoadedWhole'
  BY RedatedRows DEF StatementLoadedWhole, IngestInv, BookInv
<1>7. OnlySignedIsStored'
  BY <1>2, RedatedRows DEF OnlySignedIsStored, IngestInv, BookInv
<1>8. QED
  BY <1>1, <1>2, <1>3, <1>4, <1>5, <1>6, <1>7, RedatedRows, TableStep DEF TypeOK

\* A webhook stores its row: its transaction had none, so nobody was told of it
\* and no other webhook has a notice to send for it.
LEMMA NewRow ==
    ASSUME IngestInv, NEW s \in Slot, StoreRow(s), ~Duplicate(req[s].tx)
    PROVE  /\ RowsKept
           /\ req[s].tx \in Tx \ Stored
           /\ req'[s].at = "notify" /\ req'[s].tx = req[s].tx /\ Serves(s)
           /\ row'[req[s].tx] = [user |-> req[s].user, from |-> "webhook", dated |-> "stored"]
           /\ row'[req[s].tx] \in Row
           /\ \A t \in Tx \ {req[s].tx} : row'[t] = row[t]
           /\ Knows(req[s])'
<1> DEFINE t == req[s].tx
           new == [user |-> req[s].user, from |-> "webhook", dated |-> "stored"]
           r == [req[s] EXCEPT !.at = "notify"]
<1>1. req[s].at = "store" /\ t \notin Stored /\ Becomes(s, r) /\ row' = [row EXCEPT ![t] = new]
  BY DEF StoreRow, Duplicate
<1>2. UNCHANGED <<bankKey, loader, announced, signed>>
  BY DEF StoreRow, keys, history
<1>3. t \in Tx /\ req[s] \in Webhook /\ req \in [Slot -> Webhook]
  BY <1>1, InFlight
<1>4. req[s].user \in User /\ t \in signed /\ req[s].key <= bankKey
  BY <1>1, InFlight DEF Knows
<1>5. new \in Row /\ new # Absent
  BY <1>4, AbsentFields DEF Row
<1>6. /\ r \in Webhook /\ r.at = "notify" /\ r.tx = t
      /\ r.key = req[s].key /\ r.user = req[s].user
  BY <1>3 DEF Webhook
<1>7. Serves(s) /\ req'[s] = r
  BY <1>1, <1>3, <1>6, BecomesServes
<1>8. row \in [Tx -> Row \cup {Absent}]
  BY DEF IngestInv, TypeOK
<1>9. row'[t] = new /\ (\A q \in Tx \ {t} : row'[q] = row[q]) /\ row' \in [Tx -> Row \cup {Absent}]
  BY <1>1, <1>3, <1>5, <1>8
<1>10. RowsKept
  BY <1>1, <1>9 DEF RowsKept, Stored
<1>11. announced[t] = 0
  <2>1. row[t].from # "webhook"
    BY <1>1, <1>3, RowFields DEF IngestInv
  <2>2. announced[t] \in Nat /\ announced[t] <= 1 /\ (announced[t] = 1 => row[t].from = "webhook")
    BY <1>3 DEF IngestInv, BookInv, AnnouncedOnceStored, TypeOK
  <2>3. QED
    BY <2>1, <2>2
<1>12. Knows(req[s])'
  <2>1. new.from = "webhook"
    OBVIOUS
  <2> HIDE DEF new, r
  <2>2. QED
    BY <1>2, <1>3, <1>4, <1>5, <1>6, <1>7, <1>9, <1>11, <2>1 DEF Knows
<1>13. QED
  BY <1>1, <1>3, <1>5, <1>6, <1>7, <1>9, <1>10, <1>12

LEMMA StoreRowStep ==
    ASSUME IngestInv, NEW s \in Slot, StoreRow(s)
    PROVE  IngestInv'
<1>1. UNCHANGED <<owner, bankKey, cachedKey, loader, faults, announced, signed, acked>>
  BY DEF StoreRow, keys, history
<1>2. /\ TypeOK /\ bankKey \in Nat /\ cachedKey \in [Worker -> 0..bankKey]
      /\ acked \subseteq Stored /\ faults \in 0..MaxFaults
  BY Bounds DEF IngestInv, BookInv, AckedIsStored, TypeOK
<1>3. CASE Duplicate(req[s].tx)
  <2>1. /\ Becomes(s, Answered(req[s].tx, "error")) /\ row' = row
        /\ req[s].at # "idle"
    BY <1>3 DEF StoreRow
  <2>2. QED
    BY <1>1, <1>2, <2>1, RefusalStep
<1>4. CASE ~Duplicate(req[s].tx)
  <2> DEFINE t == req[s].tx
  <2>1. /\ RowsKept /\ t \in Tx \ Stored
        /\ req'[s].at = "notify" /\ req'[s].tx = t /\ Serves(s)
        /\ row'[t].from = "webhook"
        /\ \A q \in Tx \ {t} : row'[q] = row[q]
        /\ Knows(req[s])'
    <3>1. row'[t] = [user |-> req[s].user, from |-> "webhook", dated |-> "stored"]
      BY <1>4, NewRow
    <3>2. row'[t].from = "webhook"
      BY <3>1
    <3>3. RowsKept /\ t \in Tx \ Stored /\ \A q \in Tx \ {t} : row'[q] = row[q]
      BY <1>4, NewRow
    <3>4. req'[s].at = "notify" /\ req'[s].tx = t /\ Serves(s) /\ Knows(req[s])'
      BY <1>4, NewRow
    <3>5. QED
      BY <3>2, <3>3, <3>4
  <2>2. /\ \A r \in Webhook : Knows(r) => Knows(r)'
        /\ AnnouncedOnceStored'
        /\ AckedIsStored'
        /\ Stored \subseteq Stored'
    BY <1>1, <1>2, <2>1, KeepingStep
  <2>3. HandlerInv'
    <3> SUFFICES ASSUME NEW q \in Slot, q # s PROVE Knows(req[q])'
        BY <2>1 DEF HandlerInv
    <3>1. req[q] \in Webhook /\ Knows(req[q]) /\ req'[q] = req[q]
      BY <1>2, <2>1 DEF IngestInv, TypeOK, HandlerInv, Serves
    <3>2. PICK r \in Webhook : r = req[q]
      BY <3>1
    <3>3. Knows(r)'
      BY <2>2, <3>1, <3>2
    <3>4. QED
      BY <3>1, <3>2, <3>3 DEF Knows
  <2>4. NotifiesAlone'
    <3>1. ASSUME NEW q \in Slot \ {s}, req[q].at = "notify" PROVE req[q].tx # t
      <4>1. Knows(req[q])
        BY DEF IngestInv, HandlerInv
      <4>2. req[q].tx \in Stored
        BY <3>1, <4>1 DEF Knows, Stored
      <4>3. QED
        BY <2>1, <4>2
    <3>2. QED
      BY <2>1, <3>1 DEF NotifiesAlone, IngestInv, Serves
  <2>5. LoaderInv'
    <3>1. /\ loader.seen \subseteq Stored /\ Statement \subseteq Tx
          /\ row[t].user \notin User /\ LoaderUser \in User
      BY <1>2, <2>1, RowFields, IngestAssumption DEF TypeOK
    <3>2. QED
      BY <1>1, <2>1, <3>1 DEF LoaderInv, IngestInv, RowsKept
  <2>6. LoadedAndDated'
    <3>1. row[t].user \notin User /\ LoaderUser \in User /\ Statement \subseteq Tx
      BY <1>2, <2>1, RowFields, IngestAssumption
    <3>2. QED
      BY <1>1, <2>1, <3>1 DEF LoadedAndDated, IngestInv, BookInv
  <2>7. StatementLoadedWhole'
    BY <2>1, <2>2 DEF StatementLoadedWhole, IngestInv, BookInv
  <2>8. OnlySignedIsStored'
    <3>1. t \in signed
      BY InFlight DEF StoreRow, Knows
    <3>2. QED
      BY <1>1, <2>1, <3>1 DEF OnlySignedIsStored, IngestInv, BookInv
  <2>9. TypeOK'
    BY <1>1, <1>2, <2>1, <2>2 DEF TypeOK, RowsKept, Serves
  <2>10. QED
    BY <2>2, <2>3, <2>4, <2>5, <2>6, <2>7, <2>8, <2>9 DEF IngestInv, BookInv
<1>5. QED
  BY <1>3, <1>4

\* What is sent, once.
LEMMA NoticeSent ==
    ASSUME IngestInv, NEW s \in Slot, Notify(s)
    PROVE  /\ req[s].tx \in Tx /\ req[s].tx \in Stored
           /\ row[req[s].tx].from = "webhook" /\ announced[req[s].tx] = 0
           /\ Serves(s) /\ req'[s].at = "answer" /\ req'[s].tx = req[s].tx
           /\ req'[s].sig = 0 /\ req'[s].key = 0
           /\ \/ announced' = [announced EXCEPT ![req[s].tx] = 1]
              \/ announced' = announced
<1>1. req[s].at = "notify" /\ Becomes(s, Answered(req[s].tx, "ok"))
  BY DEF Notify
<1>2. /\ req[s].tx \in Tx /\ row[req[s].tx] # Absent
      /\ row[req[s].tx].from = "webhook" /\ announced[req[s].tx] = 0
  BY <1>1, InFlight DEF Knows
<1>3. Serves(s) /\ req'[s] = Answered(req[s].tx, "ok")
  BY <1>1, <1>2, InFlight, AnsweredFields, BecomesServes
<1>4. \/ announced' = [announced EXCEPT ![req[s].tx] = 1]
      \/ announced' = announced
  BY <1>2 DEF Notify
<1>5. QED
  BY <1>2, <1>3, <1>4, AnsweredFields DEF Stored

LEMMA NotifyStep ==
    ASSUME IngestInv, NEW s \in Slot, Notify(s)
    PROVE  IngestInv'
<1> DEFINE t == req[s].tx
<1>1. UNCHANGED <<owner, row, bankKey, cachedKey, loader, faults, signed, acked>>
  BY DEF Notify, tables, keys
<1>2. TypeOK /\ bankKey \in Nat /\ 0 <= bankKey
  BY Bounds DEF IngestInv
<1>3. /\ t \in Tx /\ t \in Stored /\ row[t].from = "webhook" /\ announced[t] = 0
      /\ Serves(s) /\ req'[s].at = "answer" /\ req'[s].tx = t /\ req'[s].sig = 0
      /\ req'[s].key = 0
  BY NoticeSent
<1>4. \/ announced' = [announced EXCEPT ![t] = 1]
      \/ announced' = announced
  BY NoticeSent
<1>5. /\ announced' \in [Tx -> Nat]
      /\ announced'[t] <= 1
      /\ \A q \in Tx \ {t} : announced'[q] = announced[q]
  BY <1>2, <1>3, <1>4 DEF TypeOK
<1>6. TypeOK'
  BY <1>1, <1>2, <1>3, <1>5 DEF TypeOK, Serves, Stored
<1>7. HandlerInv'
  <2>1. Knows(req[s])'
    BY <1>1, <1>2, <1>3 DEF Knows, Stored
  <2>2. ASSUME NEW q \in Slot, q # s PROVE Knows(req[q])'
    <3>1. Knows(req[q]) /\ req'[q] = req[q]
      BY <1>3, <2>2 DEF IngestInv, HandlerInv, Serves
    <3>2. req[q].at = "notify" => req[q].tx # t
      BY <2>2 DEF IngestInv, NotifiesAlone, Notify
    <3>3. QED
      BY <1>1, <1>5, <3>1, <3>2 DEF Knows, Stored
  <2>3. QED
    BY <2>1, <2>2 DEF HandlerInv
<1>8. NotifiesAlone'
  BY <1>3 DEF IngestInv, NotifiesAlone, Serves
<1>9. AnnouncedOnceStored'
  BY <1>1, <1>3, <1>5 DEF AnnouncedOnceStored, IngestInv, BookInv
<1>10. LoaderInv'
  BY <1>1 DEF IngestInv, LoaderInv
<1>11. AckedIsStored' /\ OnlySignedIsStored' /\ StatementLoadedWhole' /\ LoadedAndDated'
  BY <1>1 DEF IngestInv, BookInv, AckedIsStored, OnlySignedIsStored, StatementLoadedWhole,
              LoadedAndDated, Stored
<1>12. QED
  BY <1>6, <1>7, <1>8, <1>9, <1>10, <1>11 DEF IngestInv, BookInv

LEMMA RestartStep ==
    ASSUME IngestInv, NEW w \in Worker, Restart(w)
    PROVE  IngestInv'
<1>1. UNCHANGED <<owner, row, bankKey, loader, announced, signed, acked>>
  BY DEF Restart, tables, history
<1>2. TypeOK /\ bankKey \in Nat /\ 0 <= bankKey /\ 0 \in 0..bankKey /\ faults' \in 0..MaxFaults
  BY Bounds DEF IngestInv, Restart
<1>3. \A s \in Slot : req'[s] = Idle \/ req'[s] = req[s]
  BY DEF Restart
<1>4. req' \in [Slot -> Webhook]
  BY <1>2, IdleFields DEF Restart, TypeOK
<1>5. cachedKey' \in [Worker -> 0..bankKey]
  BY <1>2 DEF Restart, TypeOK
<1>6. TypeOK'
  BY <1>1, <1>2, <1>4, <1>5 DEF TypeOK, Stored
<1>7. HandlerInv'
  <2> SUFFICES ASSUME NEW s \in Slot PROVE Knows(req[s])'
      BY DEF HandlerInv
  <2>1. CASE req'[s] = Idle
    BY <1>1, <1>2, <2>1, IdleFields DEF Knows
  <2>2. CASE req'[s] = req[s]
    BY <1>1, <2>2 DEF IngestInv, HandlerInv, Knows, Stored
  <2>3. QED
    BY <1>3, <2>1, <2>2
<1>8. NotifiesAlone'
  BY <1>3, IdleFields DEF IngestInv, NotifiesAlone
<1>9. LoaderInv' /\ BookInv'
  BY <1>1 DEF IngestInv, LoaderInv, BookInv, AnnouncedOnceStored, AckedIsStored,
              OnlySignedIsStored, StatementLoadedWhole, LoadedAndDated, Stored
<1>10. QED
  BY <1>6, <1>7, <1>8, <1>9 DEF IngestInv

LEMMA IngestInvStep == IngestInv /\ [Next]_vars => IngestInv'
<1> SUFFICES ASSUME IngestInv, [Next]_vars PROVE IngestInv'
    OBVIOUS
<1>1. CASE UNCHANGED vars
  BY <1>1 DEF vars, IngestInv, TypeOK, HandlerInv, Knows, NotifiesAlone, LoaderInv, BookInv,
              AnnouncedOnceStored, AckedIsStored, OnlySignedIsStored, StatementLoadedWhole,
              LoadedAndDated, Stored
<1>2. ASSUME NEW s \in Slot, NEW t \in Tx, NEW sig \in 0..MaxKey, Receive(s, t, sig)
      PROVE  IngestInv'
  BY <1>2, ReceiveStep
<1>3. ASSUME NEW s \in Slot, Proceed(s) PROVE IngestInv'
  BY <1>3, FetchKeyStep, VerifyStep, ResolveAccountStep, StoreRowStep, NotifyStep, DeliverStep
     DEF Proceed
<1>4. ASSUME NEW s \in Slot, FetchFails(s) \/ Crash(s) PROVE IngestInv'
  BY <1>4, FailureStep
<1>5. ASSUME NEW w \in Worker, Restart(w) PROVE IngestInv'
  BY <1>5, RestartStep
<1>6. CASE LoaderSelect
  BY <1>6, LoaderSelectStep
<1>7. CASE LoaderInsert
  BY <1>7, LoaderInsertStep
<1>8. CASE LoaderRedate
  BY <1>8, LoaderRedateStep
<1>9. CASE RotateKey \/ LoaderCrash \/ \E a \in Account, u \in User : LinkAccount(a, u)
  BY <1>9, AroundStep
<1>10. QED
  BY <1>1, <1>2, <1>3, <1>4, <1>5, <1>6, <1>7, <1>8, <1>9 DEF Next

-----------------------------------------------------------------------------
(* The theorems. *)

\* Tables, webhooks in flight, loader and history always have their shape
\* (src/models/transaction.py, src/models/user_account.py, src/core/webhook_verify.py).
THEOREM IngestTypes == Spec => []TypeOK
<1>1. IngestInv => TypeOK
  BY DEF IngestInv
<1>2. QED
  BY <1>1, IngestInvInit, IngestInvStep, PTL DEF Spec

\* The inductive invariant: what a handler knows at each await, and what the loader
\* knows between its commits (src/services/transaction.py, src/scripts/load_vipiska.py).
THEOREM IngestInvariant == Spec => []IngestInv
BY IngestInvInit, IngestInvStep, PTL DEF Spec

\* A user is told of a transaction once at most, however often the bank repeats the
\* webhook and whatever other handlers do meanwhile (src/core/telegram_notify.py).
THEOREM ToldOnce == Spec => []AnnouncedOnceStored
<1>1. IngestInv => AnnouncedOnceStored
  BY DEF IngestInv, BookInv
<1>2. QED
  BY <1>1, IngestInvariant, PTL

\* What the bank was answered 200 for is in the table (src/routers/transaction.py).
THEOREM AnsweredIsStored == Spec => []AckedIsStored
<1>1. IngestInv => AckedIsStored
  BY DEF IngestInv, BookInv
<1>2. QED
  BY <1>1, IngestInvariant, PTL

\* What the webhook stored arrived signed by the bank, for every number of workers
\* and keys (src/core/webhook_verify.py).
THEOREM StoredWasSigned == Spec => []OnlySignedIsStored
<1>1. IngestInv => OnlySignedIsStored
  BY DEF IngestInv, BookInv
<1>2. QED
  BY <1>1, IngestInvariant, PTL

\* A statement of any length is loaded as a whole or not at all
\* (src/scripts/load_vipiska.py).
THEOREM StatementIsWhole == Spec => []StatementLoadedWhole
<1>1. IngestInv => StatementLoadedWhole
  BY DEF IngestInv, BookInv
<1>2. QED
  BY <1>1, IngestInvariant, PTL

\* A loader that ends normally leaves every row of the statement its user's and
\* dated, concurrent webhooks or not (src/scripts/load_vipiska.py).
THEOREM LoaderFinishes == Spec => []LoadedAndDated
<1>1. IngestInv => LoadedAndDated
  BY DEF IngestInv, BookInv
<1>2. QED
  BY <1>1, IngestInvariant, PTL

-----------------------------------------------------------------------------
(* The refinement. *)

\* A step of the book, or none.
BookStep == [Book!BookNext]_Book!bookVars

LEMMA StutterBook ==
    ASSUME UNCHANGED <<row, announced, acked>> PROVE BookStep
BY DEF BookStep, Book!bookVars

LEMMA StoreRowBook ==
    ASSUME IngestInv, NEW s \in Slot, StoreRow(s) PROVE BookStep
<1>1. UNCHANGED <<announced, acked>>
  BY DEF StoreRow, history
<1>2. CASE Duplicate(req[s].tx)
  BY <1>1, <1>2, StutterBook DEF StoreRow
<1>3. CASE ~Duplicate(req[s].tx)
  <2> DEFINE t == req[s].tx
             new == [user |-> req[s].user, from |-> "webhook", dated |-> "stored"]
  <2>1. /\ RowsKept /\ t \in Tx \ Stored
        /\ row'[t] = new /\ new \in Row
        /\ \A q \in Tx \ {t} : row'[q] = row[q]
    BY <1>3, NewRow
  <2>2. row' = [q \in Tx |-> IF q \in {t} THEN new ELSE row[q]]
    BY <2>1 DEF RowsKept
  <2>3. Book!Enter({t}, new)
    BY <1>1, <2>1, <2>2 DEF Book!Enter, Stored
  <2>4. {t} \in SUBSET Tx /\ new \in Book!Entry
    BY <2>1 DEF Book!Entry, Row
  <2>5. QED
    BY <2>3, <2>4 DEF BookStep, Book!BookNext
<1>4. QED
  BY <1>2, <1>3

LEMMA LoaderInsertBook ==
    ASSUME IngestInv, LoaderInsert PROVE BookStep
<1>1. UNCHANGED <<announced, acked>>
  BY DEF LoaderInsert, history
<1>2. CASE BatchRefused
  BY <1>1, <1>2, StutterBook DEF LoaderInsert
<1>3. CASE ~BatchRefused
  <2> DEFINE new == [user |-> LoaderUser, from |-> "statement", dated |-> "made"]
  <2>1. row' = WithRowsOf(Added)
    BY <1>3 DEF LoaderInsert
  <2>2. Added \in SUBSET Tx /\ Added \cap Stored = {}
    BY <1>3, IngestAssumption DEF BatchRefused, Added
  <2>3. new \in Book!Entry /\ new.from # "webhook"
    BY IngestAssumption DEF Book!Entry
  <2>4. Book!Enter(Added, new)
    BY <1>1, <2>1, <2>2, <2>3 DEF Book!Enter, WithRowsOf, Stored
  <2>5. QED
    BY <2>2, <2>3, <2>4 DEF BookStep, Book!BookNext
<1>4. QED
  BY <1>2, <1>3

LEMMA LoaderRedateBook ==
    ASSUME IngestInv, LoaderRedate PROVE BookStep
<1> DEFINE batch == Statement \cap loader.seen
<1>1. UNCHANGED <<announced, acked>>
  BY DEF LoaderRedate, history
<1>2. batch \in SUBSET Tx /\ \A t \in batch : row[t] # Absent
  BY IngestAssumption DEF IngestInv, TypeOK, Stored
<1>3. Book!Redate(batch)
  BY <1>1, <1>2 DEF Book!Redate, LoaderRedate, Redated
<1>4. QED
  BY <1>2, <1>3 DEF BookStep, Book!BookNext

LEMMA NotifyBook ==
    ASSUME IngestInv, NEW s \in Slot, Notify(s) PROVE BookStep
<1>1. UNCHANGED <<row, acked>>
  BY DEF Notify, tables
<1>2. /\ req[s].tx \in Tx /\ row[req[s].tx] # Absent
      /\ row[req[s].tx].from = "webhook" /\ announced[req[s].tx] = 0
  BY NoticeSent DEF Stored
<1>3. CASE announced' = announced
  BY <1>1, <1>3, StutterBook
<1>4. CASE announced' = [announced EXCEPT ![req[s].tx] = 1]
  <2>1. Book!Tell(req[s].tx)
    BY <1>1, <1>2, <1>4 DEF Book!Tell
  <2>2. QED
    BY <1>2, <2>1 DEF BookStep, Book!BookNext
<1>5. QED
  BY <1>3, <1>4, NoticeSent

LEMMA DeliverBook ==
    ASSUME IngestInv, NEW s \in Slot, Deliver(s) PROVE BookStep
<1>1. UNCHANGED <<row, announced>> /\ req[s].at = "answer"
  BY DEF Deliver, tables
<1>2. CASE req[s].answer = "ok"
  <2>1. req[s].tx \in Tx /\ row[req[s].tx] # Absent
    BY <1>1, <1>2, InFlight DEF Knows, Stored
  <2>2. Book!Confirm(req[s].tx)
    BY <1>1, <1>2, <2>1 DEF Book!Confirm, Deliver
  <2>3. QED
    BY <2>1, <2>2 DEF BookStep, Book!BookNext
<1>3. CASE req[s].answer # "ok"
  BY <1>1, <1>3, StutterBook DEF Deliver
<1>4. QED
  BY <1>2, <1>3

\* Webhook, notice, answer and loader together keep the book of transactions:
\* entries are never lost, doubled or moved to another user, and are entered by
\* whole batches, with any number of handlers and workers.
THEOREM KeepsTheBook == Spec => ImplementsBook
<1>1. Init => Book!BookInit
  BY DEF Init, Book!BookInit
<1>2. IngestInv /\ [Next]_vars => BookStep
  <2> SUFFICES ASSUME IngestInv, [Next]_vars PROVE BookStep
      OBVIOUS
  <2>1. CASE UNCHANGED vars
    BY <2>1, StutterBook DEF vars
  <2>2. ASSUME NEW s \in Slot, Proceed(s) PROVE BookStep
    <3>1. CASE FetchKey(s) \/ Verify(s) \/ ResolveAccount(s)
      BY <3>1, StutterBook DEF FetchKey, Verify, ResolveAccount, tables, history
    <3>2. QED
      BY <2>2, <3>1, StoreRowBook, NotifyBook, DeliverBook DEF Proceed
  <2>3. ASSUME NEW s \in Slot,
               FetchFails(s) \/ Crash(s) \/ \E t \in Tx, sig \in 0..MaxKey : Receive(s, t, sig)
        PROVE  BookStep
    BY <2>3, StutterBook DEF FetchFails, Crash, Receive, tables, history
  <2>4. CASE \/ \E w \in Worker : Restart(w)
             \/ LoaderSelect \/ LoaderCrash \/ RotateKey
             \/ \E a \in Account, u \in User : LinkAccount(a, u)
    BY <2>4, StutterBook DEF Restart, LoaderSelect, LoaderCrash, RotateKey, LinkAccount,
                             tables, history
  <2>5. QED
    BY <2>1, <2>2, <2>3, <2>4, LoaderInsertBook, LoaderRedateBook DEF Next
<1>3. QED
  BY <1>1, <1>2, IngestInvariant, PTL DEF Spec, ImplementsBook, Book!BookSpec, BookStep
=============================================================================
