-------------------------------- MODULE Runs --------------------------------
(***************************************************************************)
(* The life of a reconciliation run: RunService (start, activate, execute),*)
(* the callers that commit around it (the run endpoint, the upload hook,   *)
(* the backlog pass with its deferred FULL run) and the row each of them   *)
(* shares, reconciliation_runs, with its two unique indexes.               *)
(*                                                                         *)
(* Workers are request threads, each with a database session of its own.   *)
(* One step is one transaction, except that start() is two: its first      *)
(* SELECT (StartLookup) and the rest (StartInsert), because other          *)
(* transactions commit between them.  Everything execute() does to the     *)
(* books is one unit of work, which its commit makes visible (applied).    *)
(* A worker may die at any point, which rolls its transaction back.        *)
(***************************************************************************)
EXTENDS Naturals, Sequences

CONSTANTS
    Workers,     \* request threads and background tasks
    RunIds,      \* ids of rows of reconciliation_runs
    Requests,    \* [key, bank, scope, defer]: what clients ask start() for
    NoRequest,   \* the request of a row that does not exist
    StaleAfter,  \* RunSettings.stale_run_after, in clock ticks
    MaxCrashes   \* bound: how many workers die

ASSUME RunIdsAssumption == RunIds \subseteq Nat
ASSUME StaleAssumption == StaleAfter \in Nat
ASSUME MaxCrashesAssumption == MaxCrashes \in Nat
ASSUME RequestsAssumption ==
    /\ NoRequest \notin Requests
    /\ \A q \in Requests : q.defer \in BOOLEAN

VARIABLES
    status,      \* status[r]: the row's status column, "NONE" before it exists
    request,     \* request[r]: its idempotency key, bank, mode and dates
    age,         \* age[r]: ticks since started_at, counted up to StaleAfter + 1
    error,       \* error[r]: where its error_summary comes from
    trail,       \* trail[r]: the run's RUN_STATE_CHANGE entries on the audit chain
    applied,     \* applied[r]: how often the run's matching work was committed
    pc,          \* pc[w]: where the worker is
    req,         \* req[w]: the request it serves
    cur,         \* cur[w]: the run it executes or will activate
    seen,        \* seen[w]: the run's status in the session's identity map
    answer,      \* answer[w]: what the last call of start() told its caller
    crashes      \* how many workers have died so far

vars == <<status, request, age, error, trail, applied, pc, req, cur, seen, answer,
          crashes>>
rowVars == <<status, request, age, error, trail, applied>>
workerVars == <<pc, req, cur, seen, answer>>

Statuses == {"NONE", "PENDING", "RUNNING", "COMPLETED", "FAILED"}
Errors == {"none", "reaped", "queue", "raised"}
Answers == {"none", "created", "replayed", "conflict", "active"}
Change == [before : Statuses, after : Statuses]

TypeOK ==
    /\ status \in [RunIds -> Statuses]
    /\ request \in [RunIds -> Requests \cup {NoRequest}]
    /\ age \in [RunIds -> 0 .. StaleAfter + 1]
    /\ error \in [RunIds -> Errors]
    /\ trail \in [RunIds -> Seq(Change)]
    /\ applied \in [RunIds -> Nat]
    /\ pc \in [Workers -> {"idle", "insert", "queued", "working"}]
    /\ req \in [Workers -> Requests \cup {NoRequest}]
    /\ cur \in [Workers -> RunIds \cup {0}]
    /\ seen \in [Workers -> Statuses]
    /\ answer \in [Workers -> Answers]
    /\ crashes \in 0 .. MaxCrashes

Init ==
    /\ status = [r \in RunIds |-> "NONE"]
    /\ request = [r \in RunIds |-> NoRequest]
    /\ age = [r \in RunIds |-> 0]
    /\ error = [r \in RunIds |-> "none"]
    /\ trail = [r \in RunIds |-> <<>>]
    /\ applied = [r \in RunIds |-> 0]
    /\ pc = [w \in Workers |-> "idle"]
    /\ req = [w \in Workers |-> NoRequest]
    /\ cur = [w \in Workers |-> 0]
    /\ seen = [w \in Workers |-> "NONE"]
    /\ answer = [w \in Workers |-> "none"]
    /\ crashes = 0

-----------------------------------------------------------------------------
(* Queries and the pieces of a transaction.                                *)

Exists(r) == status[r] # "NONE"

\* _by_key: the committed row with this idempotency key.
ByKey(r, q) == Exists(r) /\ request[r].key = q.key

\* _replay: the earlier request asked for the same bank, mode and date range.
SameRequest(r, q) == request[r].bank = q.bank /\ request[r].scope = q.scope

\* Mutant: the WHERE clause without the status.
Stale_AnyStatus(r, b) ==
    /\ Exists(r)
    /\ request[r].bank = b
    /\ age[r] > StaleAfter

\* _reap_stale's WHERE clause.
Stale(r, b) ==
    /\ status[r] = "RUNNING"
    /\ request[r].bank = b
    /\ age[r] > StaleAfter

\* Mutant: a status the CHECK constraint does not know.
ReapedStatus_Unknown(b) == [r \in RunIds |-> IF Stale(r, b) THEN "REAPED" ELSE status[r]]

\* The rows as _reap_stale leaves them: FAILED, and no audit entry.
ReapedStatus(b) == [r \in RunIds |-> IF Stale(r, b) THEN "FAILED" ELSE status[r]]
ReapedError(b) == [r \in RunIds |-> IF Stale(r, b) THEN "reaped" ELSE error[r]]

\* Mutant: no reaping before the INSERT.
BankBusy_NoReap(b) ==
    \E r \in RunIds : status[r] = "RUNNING" /\ request[r].bank = b

\* The partial unique index refuses a second RUNNING row of the bank, among
\* the rows the reaper left RUNNING.
BankBusy(b) ==
    \E r \in RunIds : ReapedStatus(b)[r] = "RUNNING" /\ request[r].bank = b

\* _audit_state, on the RUNS chain in the same transaction.
Audited(r, before, after) ==
    [trail EXCEPT ![r] = Append(@, [before |-> before, after |-> after])]

\* Row ids are random; the model hands them out in order.
NextId(r) ==
    /\ ~ Exists(r)
    /\ \A s \in RunIds : s < r => Exists(s)

\* The call returns to its caller and the worker is free again.
Return(w, how) ==
    /\ pc' = [pc EXCEPT ![w] = "idle"]
    /\ req' = [req EXCEPT ![w] = NoRequest]
    /\ cur' = [cur EXCEPT ![w] = 0]
    /\ seen' = [seen EXCEPT ![w] = "NONE"]
    /\ answer' = [answer EXCEPT ![w] = how]

\* The worker goes on with run r: to execute it, or to activate it after the
\* response has been sent.  How the identity map sees the row: s.
Continue(w, where, r, s, how) ==
    /\ pc' = [pc EXCEPT ![w] = where]
    /\ cur' = [cur EXCEPT ![w] = r]
    /\ seen' = [seen EXCEPT ![w] = s]
    /\ answer' = [answer EXCEPT ![w] = how]
    /\ UNCHANGED req

\* start() found run r under the request's key.  A backlog pass that finds its
\* deferred run still PENDING schedules run_queued for it again.
Replay(w, r, q) ==
    \/ /\ ~ SameRequest(r, q)
       /\ Return(w, "conflict")
    \/ /\ SameRequest(r, q)
       /\ ~ (q.defer /\ status[r] = "PENDING")
       /\ Return(w, "replayed")
    \/ /\ SameRequest(r, q)
       /\ q.defer /\ status[r] = "PENDING"
       /\ req' = [req EXCEPT ![w] = q]
       /\ pc' = [pc EXCEPT ![w] = "queued"]
       /\ cur' = [cur EXCEPT ![w] = r]
       /\ seen' = [seen EXCEPT ![w] = "PENDING"]
       /\ answer' = [answer EXCEPT ![w] = "replayed"]

-----------------------------------------------------------------------------
(* The operations.                                                         *)

\* start(), up to its first SELECT: replay the run the key names, if any.
StartLookup(w, q) ==
    /\ pc[w] = "idle"
    /\ \/ \E r \in RunIds : ByKey(r, q) /\ Replay(w, r, q)
       \/ /\ \A r \in RunIds : ~ ByKey(r, q)
          /\ pc' = [pc EXCEPT ![w] = "insert"]
          /\ req' = [req EXCEPT ![w] = q]
          /\ answer' = [answer EXCEPT ![w] = "none"]
          /\ UNCHANGED <<cur, seen>>
    /\ UNCHANGED <<rowVars, crashes>>

\* start(), the INSERT lost to a concurrent request with the same key.  A
\* replay is committed by the caller, the reaper's UPDATE with it; a conflict
\* is an error response and rolls the transaction back.
StartLost(w) ==
    LET q == req[w] IN
    /\ pc[w] = "insert"
    /\ \E r \in RunIds :
         /\ ByKey(r, q)
         /\ Replay(w, r, q)
         /\ IF SameRequest(r, q)
            THEN status' = ReapedStatus(q.bank) /\ error' = ReapedError(q.bank)
            ELSE UNCHANGED <<status, error>>
    /\ UNCHANGED <<request, age, trail, applied, crashes>>

\* start(), the INSERT refused by the one-running-per-bank index; the caller
\* answers 409, skips the upload's run or counts a failed day, and rolls back.
StartRefused(w) ==
    LET q == req[w] IN
    /\ pc[w] = "insert"
    /\ \A r \in RunIds : ~ ByKey(r, q)
    /\ ~ q.defer
    /\ BankBusy(q.bank)
    /\ Return(w, "active")
    /\ UNCHANGED <<rowVars, crashes>>

\* Mutant: no unique constraint on the idempotency key.
StartInsert_NoKeyConstraint(w) ==
    LET q == req[w]
        first == IF q.defer THEN "PENDING" ELSE "RUNNING"
    IN
    /\ pc[w] = "insert"
    /\ q.defer \/ ~ BankBusy(q.bank)
    /\ \E r \in RunIds :
         /\ NextId(r)
         /\ status' = [ReapedStatus(q.bank) EXCEPT ![r] = first]
         /\ error' = ReapedError(q.bank)
         /\ request' = [request EXCEPT ![r] = q]
         /\ trail' = Audited(r, "NONE", first)
         /\ Continue(w, IF q.defer THEN "queued" ELSE "working", r, first, "created")
    /\ UNCHANGED <<age, applied, crashes>>

\* start(), the row is inserted and audited and the caller commits it.
StartInsert(w) ==
    LET q == req[w]
        first == IF q.defer THEN "PENDING" ELSE "RUNNING"
    IN
    /\ pc[w] = "insert"
    /\ \A r \in RunIds : ~ ByKey(r, q)
    /\ q.defer \/ ~ BankBusy(q.bank)
    /\ \E r \in RunIds :
         /\ NextId(r)
         /\ status' = [ReapedStatus(q.bank) EXCEPT ![r] = first]
         /\ error' = ReapedError(q.bank)
         /\ request' = [request EXCEPT ![r] = q]
         /\ trail' = Audited(r, "NONE", first)
         /\ Continue(w, IF q.defer THEN "queued" ELSE "working", r, first, "created")
    /\ UNCHANGED <<age, applied, crashes>>

\* run_queued(): activate() finds a run that is no longer PENDING; the
\* RunStateError ends the background task.
ActivateNotPending(w) ==
    /\ pc[w] = "queued"
    /\ status[cur[w]] # "PENDING"
    /\ Return(w, answer[w])
    /\ UNCHANGED <<rowVars, crashes>>

\* Mutant: activate() trusts its caller that the run is PENDING.
Activate_NoStateCheck(w) ==
    LET r == cur[w]
        b == request[r].bank
    IN
    /\ pc[w] = "queued"
    /\ ~ BankBusy(b)
    /\ status' = [ReapedStatus(b) EXCEPT ![r] = "RUNNING"]
    /\ error' = ReapedError(b)
    /\ trail' = Audited(r, "PENDING", "RUNNING")
    /\ Continue(w, "working", r, "RUNNING", answer[w])
    /\ UNCHANGED <<request, age, applied, crashes>>

\* Mutant: activate() without the one-running-per-bank index.
Activate_NoIndex(w) ==
    LET r == cur[w]
        b == request[r].bank
    IN
    /\ pc[w] = "queued"
    /\ status[r] = "PENDING"
    /\ status' = [ReapedStatus(b) EXCEPT ![r] = "RUNNING"]
    /\ error' = ReapedError(b)
    /\ trail' = Audited(r, "PENDING", "RUNNING")
    /\ Continue(w, "working", r, "RUNNING", answer[w])
    /\ UNCHANGED <<request, age, applied, crashes>>

\* run_queued(): PENDING -> RUNNING under the row's lock, committed, then the
\* run is executed.
Activate(w) ==
    LET r == cur[w]
        b == request[r].bank
    IN
    /\ pc[w] = "queued"
    /\ status[r] = "PENDING"
    /\ ~ BankBusy(b)
    /\ status' = [ReapedStatus(b) EXCEPT ![r] = "RUNNING"]
    /\ error' = ReapedError(b)
    /\ trail' = Audited(r, "PENDING", "RUNNING")
    /\ Continue(w, "working", r, "RUNNING", answer[w])
    /\ UNCHANGED <<request, age, applied, crashes>>

\* Mutant: the task waits for the bank instead of closing its run.
ActivateBusy_Wait(w) ==
    /\ pc[w] = "queued"
    /\ status[cur[w]] = "PENDING"
    /\ BankBusy(request[cur[w]].bank)
    /\ UNCHANGED vars

\* run_queued(): the bank is busy, so the queued run is closed as FAILED, with
\* no audit entry, and the reaper's UPDATE is committed with it.
ActivateBusy(w) ==
    LET r == cur[w]
        b == request[r].bank
    IN
    /\ pc[w] = "queued"
    /\ status[r] = "PENDING"
    /\ BankBusy(b)
    /\ status' = [ReapedStatus(b) EXCEPT ![r] = "FAILED"]
    /\ error' = [ReapedError(b) EXCEPT ![r] = "queue"]
    /\ Return(w, answer[w])
    /\ UNCHANGED <<request, age, trail, applied, crashes>>

\* execute(): the set-based exact stage expires the session, so the run's row
\* is read again.
Refresh(w) ==
    /\ pc[w] = "working"
    /\ seen[w] # status[cur[w]]
    /\ seen' = [seen EXCEPT ![w] = status[cur[w]]]
    /\ UNCHANGED <<rowVars, pc, req, cur, answer, crashes>>

\* execute() to its end and the caller's commit: the work and the COMPLETED
\* row become visible together.  _finish does not look at the stored status.
FinishCompleted(w) ==
    LET r == cur[w] IN
    /\ pc[w] = "working"
    /\ status' = [status EXCEPT ![r] = "COMPLETED"]
    /\ error' = [error EXCEPT ![r] = "none"]
    /\ trail' = Audited(r, seen[w], "COMPLETED")
    /\ applied' = [applied EXCEPT ![r] = @ + 1]
    /\ Return(w, answer[w])
    /\ UNCHANGED <<request, age, crashes>>

\* Mutant: the failure is stored but not audited.
FinishFailed_NoAudit(w) ==
    LET r == cur[w] IN
    /\ pc[w] = "working"
    /\ status' = [status EXCEPT ![r] = "FAILED"]
    /\ error' = [error EXCEPT ![r] = "raised"]
    /\ Return(w, answer[w])
    /\ UNCHANGED <<request, age, trail, applied, crashes>>

\* execute(), a stage raised: the work is rolled back, which also expires the
\* session, and the run is finished as FAILED.
FinishFailed(w) ==
    LET r == cur[w] IN
    /\ pc[w] = "working"
    /\ status' = [status EXCEPT ![r] = "FAILED"]
    /\ error' = [error EXCEPT ![r] = "raised"]
    /\ trail' = Audited(r, status[r], "FAILED")
    /\ Return(w, answer[w])
    /\ UNCHANGED <<request, age, applied, crashes>>

\* The worker dies, or execute() raises after its try block (metrics, anomaly
\* evaluation, the last commit): the open transaction is rolled back.
Crash(w) ==
    /\ pc[w] # "idle"
    /\ crashes < MaxCrashes
    /\ crashes' = crashes + 1
    /\ Return(w, "none")
    /\ UNCHANGED rowVars

\* Time passes for the runs in progress.
Tick ==
    /\ \E r \in RunIds : status[r] = "RUNNING" /\ age[r] <= StaleAfter
    /\ age' = [r \in RunIds |->
                 IF status[r] = "RUNNING" /\ age[r] <= StaleAfter
                 THEN age[r] + 1 ELSE age[r]]
    /\ UNCHANGED <<status, request, error, trail, applied, workerVars, crashes>>

WorkerStep(w) ==
    \/ StartLost(w)
    \/ StartRefused(w)
    \/ StartInsert(w)
    \/ ActivateNotPending(w)
    \/ Activate(w)
    \/ ActivateBusy(w)
    \/ FinishCompleted(w)
    \/ FinishFailed(w)

Next ==
    \/ \E w \in Workers, q \in Requests : StartLookup(w, q)
    \/ \E w \in Workers : WorkerStep(w)
    \/ \E w \in Workers : Refresh(w)
    \/ \E w \in Workers : Crash(w)
    \/ Tick

\* A request thread that is not killed runs on: PostgreSQL and the thread pool
\* keep serving it.  Nothing makes clients send requests or the clock matter.
Fairness == \A w \in Workers : WF_vars(WorkerStep(w))

Spec == Init /\ [][Next]_vars
FairSpec == Spec /\ Fairness

-----------------------------------------------------------------------------
(* What the run lifecycle promises.                                        *)

\* At most one RUNNING run per bank, through starts, queued activations, reaped
\* rows and dead workers alike (the guard the index gives start and activate).
OneRunningPerBank ==
    \A r, s \in RunIds :
        /\ status[r] = "RUNNING" /\ status[s] = "RUNNING"
        /\ request[r].bank = request[s].bank
        => r = s

\* A run's matching and classification work is in the books exactly when the
\* run is COMPLETED, and at most once: replays, duplicate background tasks,
\* failures, crashes and reaping never leave half a run or two of them.
WorkIffCompleted ==
    \A r \in RunIds :
        applied[r] = (IF status[r] = "COMPLETED" THEN 1 ELSE 0)

\* A worker that executes or is to activate a run has one that exists.
HoldsRun ==
    \A w \in Workers :
        pc[w] \in {"queued", "working"} => cur[w] \in RunIds /\ Exists(cur[w])

\* The run a worker executes is RUNNING, or was reaped under it: never queued
\* again, completed by another worker or missing.
ExecutesLive ==
    \A w \in Workers :
        pc[w] = "working" => status[cur[w]] \in {"RUNNING", "FAILED"}

\* No run is executed by two workers, although duplicate background tasks are
\* scheduled for it and its row may be reaped and replayed meanwhile.
ExecutesAlone ==
    \A v, w \in Workers :
        pc[v] = "working" /\ pc[w] = "working" /\ cur[v] = cur[w] => v = w

OneExecutor == HoldsRun /\ ExecutesLive /\ ExecutesAlone

\* One run per idempotency key, however requests with the key interleave.
OneRunPerKey ==
    \A r, s \in RunIds :
        Exists(r) /\ Exists(s) /\ request[r].key = request[s].key => r = s

LastAudited(r) == trail[r][Len(trail[r])].after

\* The audit chain's last word on a run is its status, except for the two
\* FAILED transitions that are written without an entry: the reaper's and the
\* queued run's that found its bank busy.
AuditAgreesUnlessSwept ==
    \A r \in RunIds : Exists(r) =>
        /\ trail[r] # <<>>
        /\ \/ LastAudited(r) = status[r]
           \/ status[r] = "FAILED" /\ error[r] \in {"reaped", "queue"}

\* A COMPLETED run stays COMPLETED: no reaper, replay or late worker takes the
\* work's verdict back once it is in the books.
CompletedIsFinal ==
    [][\A r \in RunIds : status[r] = "COMPLETED" => status'[r] = "COMPLETED"]_vars

\* start() answers "already in progress" only when the bank has a run that is
\* RUNNING and inside the stale window: a dead worker's row older than that
\* never keeps a bank closed.
RefusedOnlyWhenBusy ==
    [][\A w \in Workers :
          pc[w] = "insert" /\ answer'[w] = "active" =>
              \E r \in RunIds :
                  /\ status[r] = "RUNNING"
                  /\ request[r].bank = req[w].bank
                  /\ age[r] <= StaleAfter]_vars

\* A worker is executing the run.
Owned(r) == \E w \in Workers : pc[w] = "working" /\ cur[w] = r

\* A background task for the queued run is still scheduled.
Scheduled(r) == \E w \in Workers : pc[w] = "queued" /\ cur[w] = r

\* Every run a client was given leaves PENDING and RUNNING, unless the worker
\* that had it died.
RunsSettle ==
    \A r \in RunIds :
        /\ (status[r] = "RUNNING") ~> (status[r] # "RUNNING" \/ ~ Owned(r))
        /\ (status[r] = "PENDING") ~> (status[r] # "PENDING" \/ ~ Scheduled(r))

\* The state machine in the docstring of runs/service.py: RUNNING -> COMPLETED
\* or FAILED, and nothing leaves FAILED.
FailedIsFinal ==
    [][\A r \in RunIds : status[r] = "FAILED" => status'[r] = "FAILED"]_vars

=============================================================================
