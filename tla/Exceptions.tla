----------------------------- MODULE Exceptions -----------------------------
(***************************************************************************)
(* The exceptions of one bank: how transactions raise them (classifier),   *)
(* close or route them (AutoResolver, EscalationManager), escalate them    *)
(* when their SLA passes (SlaScanner), and what people do with them        *)
(* (api/v1/exceptions.py).                                                 *)
(*                                                                         *)
(* A session runs one transaction at a time: a reconciliation run, the     *)
(* upload of a file, an SLA scan, or one request of a person.  What it     *)
(* writes is its draft until it commits; a row it writes is locked for the *)
(* others until then, and so is the audit chain of the exceptions from its *)
(* first entry on (AuditChain has the chain itself).                       *)
(***************************************************************************)
EXTENDS Naturals

CONSTANTS
    RunKeys,      \* dedupe keys of what a run can raise
    FileKeys,     \* dedupe keys of the quarantined rows of files
    Sessions,     \* database sessions
    People,       \* names of people
    Assignees,    \* what a person may enter as the new assignee
    None,         \* nobody
    MaxTxns       \* bound: transactions begun

Keys == RunKeys \cup FileKeys
Tiers == 1 .. 4

\* queues.py: the queue of a tier; tier 1 has none.
QUEUE_BY_TIER == [t \in 2 .. 4 |->
    IF t = 2 THEN "queue:analyst" ELSE IF t = 3 THEN "queue:senior-ops" ELSE "queue:compliance"]
Queues == {QUEUE_BY_TIER[t] : t \in 2 .. 4}
queue_for_tier(t) == IF t \in 2 .. 4 THEN QUEUE_BY_TIER[t] ELSE None
is_queue(owner) == owner \in Queues \cup {None}

ASSUME BoundAssumption == MaxTxns \in Nat
ASSUME KeysAssumption == RunKeys \cap FileKeys = {}
ASSUME NamesAssumption ==
    /\ None \notin Sessions \cup Queues \cup People
    /\ People \cap Queues = {}
    /\ Assignees \subseteq People \cup Queues

VARIABLES
    row,      \* row[k]: the committed exception with the key
    due,      \* keys whose sla_deadline has passed
    events,   \* events[k]: escalations and breaches the scanner has recorded
    chain,    \* the session that holds the lock of the exceptions' audit chain
    pc,       \* pc[s]: where the session's transaction is
    mine,     \* mine[s]: rows the transaction has written, hence locked
    draft,    \* draft[s][k]: what it has written
    scanned,  \* scanned[s]: rows its SLA scan has stamped
    todo,     \* todo[s]: rows it is about to insert, or to put in a queue
    tier,     \* tier[s]: the tier whose queue it fills
    begun     \* transactions begun

vars == <<row, due, events, chain, pc, mine, draft, scanned, todo, tier, begun>>

-----------------------------------------------------------------------------
(* Rows.                                                                   *)

\* (IN_REVIEW is in the code's lists too; nothing ever sets it.)
OpenStatuses == {"OPEN", "ESCALATED", "REOPENED"}
ClosedStatuses == {"RESOLVED", "WRITTEN_OFF"}
Closers == {"auto-resolver", "ANALYST", "ADMIN"}

Exception ==
    [status : {"NONE"} \cup OpenStatuses \cup ClosedStatuses,
     tier : Tiers, owner : {None} \cup Queues \cup People,
     breached : BOOLEAN, closer : {None} \cup Closers]

Raised(t) ==
    [status |-> "OPEN", tier |-> t, owner |-> None, breached |-> FALSE, closer |-> None]
NoException ==
    [status |-> "NONE", tier |-> 1, owner |-> None, breached |-> FALSE, closer |-> None]

Open(x) == x.status \in OpenStatuses
Closed(x) == x.status \in ClosedStatuses
SameButOwner(x, y) ==
    /\ x.status = y.status /\ x.tier = y.tier
    /\ x.breached = y.breached /\ x.closer = y.closer
Closing(x, outcome, by) == [x EXCEPT !.status = outcome, !.closer = by]

\* Mutant: no cap at the highest tier.
tier_after_sla_check_Uncapped(t) == t + 1

tier_after_sla_check(t) == IF t < 4 THEN t + 1 ELSE 4

\* What SlaScanner.scan makes of a row that is due.
Breach(x) ==
    LET new == tier_after_sla_check(x.tier) IN
    IF new = x.tier THEN [x EXCEPT !.breached = TRUE]
    ELSE [x EXCEPT !.breached = TRUE, !.tier = new, !.status = "ESCALATED",
                   !.owner = IF is_queue(@) THEN queue_for_tier(new) ELSE @]

-----------------------------------------------------------------------------

TypeOK ==
    /\ row \in [Keys -> Exception]
    /\ due \subseteq Keys
    /\ events \in [Keys -> Nat]
    /\ chain \in Sessions \cup {None}
    /\ pc \in [Sessions -> {"idle", "classify", "insert", "created", "resolve",
                            "select", "update", "scan", "audit", "commit"}]
    /\ mine \in [Sessions -> SUBSET Keys]
    /\ draft \in [Sessions -> [Keys -> Exception]]
    /\ scanned \in [Sessions -> SUBSET Keys]
    /\ todo \in [Sessions -> SUBSET Keys]
    /\ tier \in [Sessions -> 2 .. 4]
    /\ begun \in Nat

Init ==
    /\ row = [k \in Keys |-> NoException]
    /\ due = {}
    /\ events = [k \in Keys |-> 0]
    /\ chain = None
    /\ pc = [s \in Sessions |-> "idle"]
    /\ mine = [s \in Sessions |-> {}]
    /\ draft = [s \in Sessions |-> [k \in Keys |-> NoException]]
    /\ scanned = [s \in Sessions |-> {}]
    /\ todo = [s \in Sessions |-> {}]
    /\ tier = [s \in Sessions |-> 2]
    /\ begun = 0

\* The row as the session's transaction reads it (READ COMMITTED).
Seen(s, k) == IF k \in mine[s] THEN draft[s][k] ELSE row[k]

\* No other transaction has locked the row.
Free(s, k) == \A t \in Sessions \ {s} : k \notin mine[t]

\* The session writes the rows K, each as new(k).
Write(s, K, new(_)) ==
    /\ mine' = [mine EXCEPT ![s] = @ \cup K]
    /\ draft' = [draft EXCEPT ![s] = [k \in Keys |-> IF k \in K THEN new(k) ELSE @[k]]]

GoTo(s, place) == pc' = [pc EXCEPT ![s] = place]

\* An idle session begins a transaction (bounded).
Begin(s) ==
    /\ pc[s] = "idle"
    /\ begun < MaxTxns
    /\ begun' = begun + 1

-----------------------------------------------------------------------------
(* A run: classify_run, then EscalationManager.process.                    *)

BeginRun(s) ==
    /\ Begin(s)
    /\ GoTo(s, "classify")
    /\ UNCHANGED <<row, due, events, chain, mine, draft, scanned, todo, tier>>

\* One pass of the classifier finds candidates and reads which keys exist.
\* (A pass without a new key changes nothing.)
ReadKeys(s, candidates) ==
    /\ pc[s] = "classify"
    /\ LET new == {k \in candidates : Seen(s, k).status = "NONE"} IN
       /\ new # {}
       /\ todo' = [todo EXCEPT ![s] = new]
    /\ GoTo(s, "insert")
    /\ UNCHANGED <<row, due, events, chain, mine, draft, scanned, tier, begun>>

\* route(): the tier of each; what it depends on (category, value, FX variance,
\* size of the batch) is left open.
Routes(K) == [K -> Tiers]

\* _persist inserts the new ones, routed to a tier each.  The unique key makes
\* it wait for another transaction that has inserted one of them.
InsertRows(s, route) ==
    /\ pc[s] = "insert"
    /\ \A k \in todo[s] : Free(s, k) /\ row[k].status = "NONE"
    /\ Write(s, todo[s], LAMBDA k : Raised(route[k]))
    /\ todo' = [todo EXCEPT ![s] = {}]
    /\ GoTo(s, "created")
    /\ UNCHANGED <<row, due, events, chain, scanned, tier, begun>>

\* The transaction is over: its drafts are gone, its locks are free.
EndTxn(s) ==
    /\ chain' = IF chain = s THEN None ELSE chain
    /\ mine' = [mine EXCEPT ![s] = {}]
    /\ draft' = [draft EXCEPT ![s] = [k \in Keys |-> NoException]]
    /\ scanned' = [scanned EXCEPT ![s] = {}]
    /\ todo' = [todo EXCEPT ![s] = {}]
    /\ tier' = [tier EXCEPT ![s] = 2]
    /\ GoTo(s, "idle")
    /\ UNCHANGED <<due, begun>>

\* Mutant: the insert is tried again, with the keys that were read.
InsertConflict_Retry(s) ==
    /\ pc[s] = "insert"
    /\ \E k \in todo[s] : row[k].status # "NONE"
    /\ UNCHANGED vars

\* A key was committed by another transaction since it was read: the run fails.
InsertConflict(s) ==
    /\ pc[s] = "insert"
    /\ \E k \in todo[s] : row[k].status # "NONE"
    /\ EndTxn(s)
    /\ UNCHANGED <<row, events>>

\* The audit entries: the chain's lock, held from here to the end.
LockChain(s) ==
    /\ chain \in {s, None}
    /\ chain' = s

AuditCreated(s) ==
    /\ pc[s] = "created"
    /\ LockChain(s)
    /\ GoTo(s, "classify")
    /\ UNCHANGED <<row, due, events, mine, draft, scanned, todo, tier, begun>>

EndClassify(s) ==
    /\ pc[s] = "classify"
    /\ GoTo(s, "resolve")
    /\ UNCHANGED <<row, due, events, chain, mine, draft, scanned, todo, tier, begun>>

\* AutoResolver.run over the run's own OPEN rows at tier 1: the action works
\* for those in done (MatchLedger has the actions) and the others go to tier 2.
AutoResolve(s, done) ==
    /\ pc[s] = "resolve"
    /\ LET auto == {k \in mine[s] : draft[s][k].status = "OPEN" /\ draft[s][k].tier = 1} IN
       /\ done \subseteq auto
       /\ Write(s, auto, LAMBDA k :
              IF k \in done THEN Closing(draft[s][k], "RESOLVED", "auto-resolver")
              ELSE [draft[s][k] EXCEPT !.tier = 2])
    /\ GoTo(s, "select")
    /\ UNCHANGED <<row, due, events, chain, scanned, todo, tier, begun>>

\* _assign_queues goes on to the next tier, and after the last to the scan.
NextQueue(s) ==
    /\ tier' = [tier EXCEPT ![s] = IF @ = 4 THEN 2 ELSE @ + 1]
    /\ GoTo(s, IF tier[s] = 4 THEN "scan" ELSE "select")

Unassigned(x, t) == Open(x) /\ x.tier = t /\ x.owner = None

\* Mutant: what the transaction wrote is not flushed before the SELECT.
ToQueue_Unflushed(s) == {k \in Keys : Unassigned(row[k], tier[s])}

\* The SELECT of _assign_queues: it locks nothing.
ToQueue(s) == {k \in Keys : Unassigned(Seen(s, k), tier[s])}

SelectQueue(s) ==
    /\ pc[s] = "select"
    /\ todo' = [todo EXCEPT ![s] = ToQueue(s)]
    /\ IF ToQueue(s) = {} THEN NextQueue(s) ELSE GoTo(s, "update") /\ UNCHANGED tier
    /\ UNCHANGED <<row, due, events, chain, mine, draft, scanned, begun>>

\* Its UPDATE, by id: each row is locked, once no other transaction holds it,
\* and given the queue as it is then.
UpdateRow(s, k) ==
    /\ pc[s] = "update"
    /\ k \in todo[s]
    /\ Free(s, k)
    /\ Write(s, {k}, LAMBDA j : [Seen(s, j) EXCEPT !.owner = queue_for_tier(tier[s])])
    /\ todo' = [todo EXCEPT ![s] = @ \ {k}]
    /\ IF todo[s] = {k} THEN NextQueue(s) ELSE UNCHANGED <<tier, pc>>
    /\ UNCHANGED <<row, due, events, chain, scanned, begun>>

-----------------------------------------------------------------------------
(* The SLA scan, of a run and of POST /sla-scan.                           *)

Breaching(s, k) == k \in due /\ Open(Seen(s, k)) /\ ~ Seen(s, k).breached

\* Mutant: the rows are read without FOR UPDATE.
DueRows_NoLock(s) == {k \in Keys : Breaching(s, k)}

\* FOR UPDATE SKIP LOCKED.
DueRows(s) == {k \in Keys : Breaching(s, k) /\ Free(s, k)}

\* SlaScanner.scan.
Scan(s) ==
    /\ Write(s, DueRows(s), LAMBDA k : Breach(Seen(s, k)))
    /\ scanned' = [scanned EXCEPT ![s] = DueRows(s)]
    /\ GoTo(s, IF DueRows(s) = {} THEN "commit" ELSE "audit")
    /\ UNCHANGED <<row, due, events, chain, todo, tier>>

ScanInRun(s) == pc[s] = "scan" /\ Scan(s) /\ UNCHANGED begun

run_sla_scan(s) == Begin(s) /\ DueRows(s) # {} /\ Scan(s)

-----------------------------------------------------------------------------
(* Uploads and people.                                                     *)

\* classify_ingestion_file: a key is a row of the file, so nobody else has it.
\* Never auto-resolvable; tier 4 when the file has many.
Upload(s, K, t) ==
    /\ Begin(s)
    /\ K # {}
    /\ \A k \in K : row[k].status = "NONE" /\ Free(s, k)
    /\ Write(s, K, LAMBDA k : Raised(t))
    /\ GoTo(s, "audit")
    /\ UNCHANGED <<row, due, events, chain, scanned, todo, tier>>

\* A request that has locked its row, found it fit, and written it.
Request(s, k, fit, new) ==
    /\ Begin(s)
    /\ Free(s, k)
    /\ fit
    /\ Write(s, {k}, LAMBDA j : new)
    /\ GoTo(s, "audit")
    /\ UNCHANGED <<row, due, events, chain, scanned, todo, tier>>

\* Mutant: the tier of the row is not looked at.
role_needed_OutcomeOnly(x, outcome) == IF outcome = "WRITTEN_OFF" THEN "ADMIN" ELSE "ANALYST"

role_needed(x, outcome) ==
    IF outcome = "WRITTEN_OFF" \/ x.tier >= 3 THEN "ADMIN" ELSE "ANALYST"

resolve_exception(s, k, outcome, role) ==
    Request(s, k, Open(row[k]) /\ role \in {"ADMIN", role_needed(row[k], outcome)},
            Closing(row[k], outcome, role))

assign_exception(s, k, assignee) ==
    Request(s, k, Open(row[k]), [row[k] EXCEPT !.owner = assignee])

override_exception(s, k, t) ==
    Request(s, k, Open(row[k]),
            [row[k] EXCEPT !.tier = t, !.owner = IF is_queue(@) THEN queue_for_tier(t) ELSE @])

\* Back to a person: at least tier 2, and its queue.
Reopened(x) ==
    LET t == IF x.tier < 2 THEN 2 ELSE x.tier IN
    [x EXCEPT !.status = "REOPENED", !.tier = t, !.closer = None, !.owner = queue_for_tier(t)]

reopen_exception(s, k) == Request(s, k, Closed(row[k]), Reopened(row[k]))

-----------------------------------------------------------------------------
(* The end of a transaction, time, deadlocks.                              *)

\* The audit entry of an upload, a scan or a request.
Audit(s) ==
    /\ pc[s] = "audit"
    /\ LockChain(s)
    /\ GoTo(s, "commit")
    /\ UNCHANGED <<row, due, events, mine, draft, scanned, todo, tier, begun>>

Commit(s) ==
    /\ pc[s] = "commit"
    /\ row' = [k \in Keys |-> IF k \in mine[s] THEN draft[s][k] ELSE row[k]]
    /\ events' = [k \in Keys |-> IF k \in scanned[s] THEN events[k] + 1 ELSE events[k]]
    /\ EndTxn(s)

\* A run or a request fails, or its process dies: PostgreSQL rolls it back.
Fail(s) ==
    /\ pc[s] # "idle"
    /\ EndTxn(s)
    /\ UNCHANGED <<row, events>>

DeadlinePasses(k) ==
    /\ row[k].status # "NONE"
    /\ k \notin due
    /\ due' = due \cup {k}
    /\ UNCHANGED <<row, events, chain, pc, mine, draft, scanned, todo, tier, begun>>

\* The sessions whose locks a session waits for.
WaitsFor(s) ==
    IF pc[s] \in {"insert", "update"} THEN {t \in Sessions \ {s} : todo[s] \cap mine[t] # {}}
    ELSE IF pc[s] \in {"created", "audit"} THEN {chain} \ {s, None}
    ELSE {}

\* A circle of them: the detector cancels one.
DeadlockVictim(s) ==
    /\ \E C \in SUBSET Sessions : s \in C /\ \A t \in C : WaitsFor(t) \cap C # {}
    /\ EndTxn(s)
    /\ UNCHANGED <<row, events>>

\* The statement a transaction is at.
Step(s) ==
    \/ \E route \in Routes(todo[s]) : InsertRows(s, route)
    \/ InsertConflict(s)
    \/ AuditCreated(s)
    \/ EndClassify(s)
    \/ \E done \in SUBSET mine[s] : AutoResolve(s, done)
    \/ SelectQueue(s)
    \/ \E k \in Keys : UpdateRow(s, k)
    \/ ScanInRun(s)
    \/ Audit(s)
    \/ Commit(s)

Next ==
    \/ \E s \in Sessions :
         \/ BeginRun(s)
         \/ \E candidates \in SUBSET RunKeys : ReadKeys(s, candidates)
         \/ Step(s)
         \/ run_sla_scan(s)
         \/ \E K \in SUBSET FileKeys, t \in {2, 4} : Upload(s, K, t)
         \/ \E k \in Keys :
              \/ \E outcome \in ClosedStatuses, role \in {"ANALYST", "ADMIN"} :
                   resolve_exception(s, k, outcome, role)
              \/ \E assignee \in Assignees : assign_exception(s, k, assignee)
              \/ \E t \in Tiers : override_exception(s, k, t)
              \/ reopen_exception(s, k)
         \/ Fail(s)
         \/ DeadlockVictim(s)
    \/ \E k \in Keys : DeadlinePasses(k)

Spec == Init /\ [][Next]_vars

\* A transaction whose next statement can run, or can run again and again
\* (locks are granted in the order of PostgreSQL's queue), runs it; the
\* deadlock detector runs.  Nothing makes anyone begin, or fail.
Fairness ==
    \A s \in Sessions : SF_vars(Step(s)) /\ WF_vars(DeadlockVictim(s))

FairSpec == Spec /\ Fairness

-----------------------------------------------------------------------------
(* What exception management promises.                                     *)

\* A write-off, and an exception that is closed at tier 3 or 4, were decided by
\* an ADMIN, whatever escalated, was overridden or was reopened around it
\* (_role_needed, read under the row's lock).
SeniorCloses ==
    \A k \in Keys : Closed(row[k]) /\ (row[k].tier >= 3 \/ row[k].status = "WRITTEN_OFF")
        => row[k].closer = "ADMIN"

\* sla.py: an exception breaches once.  The scanner has recorded one escalation
\* of a stamped exception and none of another, though every run and every
\* /sla-scan scans all rows.
BreachesOnce == \A k \in Keys : events[k] = IF row[k].breached THEN 1 ELSE 0

\* No scan, run or request changes the status, tier or closer of a closed
\* exception but to reopen it.
ClosedStaysClosed ==
    [][\A k \in Keys : Closed(row[k]) =>
         \/ row'[k].status = "REOPENED"
         \/ SameButOwner(row[k], row'[k])]_vars

\* An exception a run raised, once committed, is in somebody's hands while it is
\* open above tier 1: auto-resolution, queues, scan, overrides and reopening
\* never leave one unassigned.
RunRowsRouted ==
    \A k \in RunKeys : Open(row[k]) /\ row[k].tier >= 2 => row[k].owner # None

\* Every transaction ends: waits for rows and for the audit chain never hold
\* each other up for good.
TransactionsEnd == \A s \in Sessions : (pc[s] # "idle") ~> (pc[s] = "idle")

\* escalation.py: a person already assigned is never overwritten by the queues.
PersonKept ==
    [][\A s \in Sessions : \A k \in Keys :
         UpdateRow(s, k) => Seen(s, k).owner \notin People]_vars
=============================================================================
