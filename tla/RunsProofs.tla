----------------------------- MODULE RunsProofs -----------------------------
(***************************************************************************)
(* The run lifecycle's safety, for any number of workers, runs, requests   *)
(* and any stale window.                                                   *)
(***************************************************************************)
EXTENDS Runs, TLAPS

\* What start() holds between its first SELECT and its INSERT is a request.
InsertsRequest == \A w \in Workers : pc[w] = "insert" => req[w] \in Requests

\* The inductive invariant: the promises rest on who executes which run.
IInv ==
    /\ TypeOK
    /\ InsertsRequest
    /\ OneExecutor
    /\ OneRunningPerBank
    /\ OneRunPerKey
    /\ WorkIffCompleted

USE RunIdsAssumption, StaleAssumption, MaxCrashesAssumption, RequestsAssumption

\* Appending to a trail keeps it a sequence of status changes.
LEMMA AuditedType ==
    ASSUME TypeOK, NEW r \in RunIds, NEW b \in Statuses, NEW a \in Statuses
    PROVE  Audited(r, b, a) \in [RunIds -> Seq(Change)]
<1>1. [before |-> b, after |-> a] \in Change
  BY DEF Change
<1>2. Append(trail[r], [before |-> b, after |-> a]) \in Seq(Change)
  BY <1>1 DEF TypeOK
<1> QED BY <1>2 DEF Audited, TypeOK

\* Reaping keeps the columns' types, adds no RUNNING row, and moves only
\* RUNNING rows, to FAILED.
LEMMA ReapedFacts ==
    ASSUME TypeOK, NEW b
    PROVE  /\ ReapedStatus(b) \in [RunIds -> Statuses]
           /\ ReapedError(b) \in [RunIds -> Errors]
           /\ \A r \in RunIds :
                \/ ReapedStatus(b)[r] = status[r]
                \/ status[r] = "RUNNING" /\ ReapedStatus(b)[r] = "FAILED"
  BY DEF TypeOK, ReapedStatus, ReapedError, Stale, Statuses, Errors

LEMMA InitIInv == Init => IInv
  BY DEF Init, IInv, TypeOK, InsertsRequest, OneExecutor, OneRunningPerBank,
         HoldsRun, ExecutesLive, ExecutesAlone, OneRunPerKey, WorkIffCompleted,
         Exists, Statuses, Errors, Answers

\* A worker that returns holds nothing.
LEMMA ReturnType ==
    ASSUME TypeOK, NEW w \in Workers, NEW how \in Answers, Return(w, how)
    PROVE  /\ pc' \in [Workers -> {"idle", "insert", "queued", "working"}]
           /\ req' \in [Workers -> Requests \cup {NoRequest}]
           /\ cur' \in [Workers -> RunIds \cup {0}]
           /\ seen' \in [Workers -> Statuses]
           /\ answer' \in [Workers -> Answers]
           /\ pc'[w] = "idle"
           /\ \A v \in Workers \ {w} : pc'[v] = pc[v] /\ cur'[v] = cur[v] /\ req'[v] = req[v]
  BY DEF TypeOK, Return, Statuses

LEMMA ContinueType ==
    ASSUME TypeOK, NEW w \in Workers, NEW where \in {"queued", "working"},
           NEW r \in RunIds, NEW s \in Statuses, NEW how \in Answers,
           Continue(w, where, r, s, how)
    PROVE  /\ pc' \in [Workers -> {"idle", "insert", "queued", "working"}]
           /\ req' \in [Workers -> Requests \cup {NoRequest}]
           /\ cur' \in [Workers -> RunIds \cup {0}]
           /\ seen' \in [Workers -> Statuses]
           /\ answer' \in [Workers -> Answers]
           /\ pc'[w] = where /\ cur'[w] = r
           /\ \A v \in Workers \ {w} : pc'[v] = pc[v] /\ cur'[v] = cur[v] /\ req'[v] = req[v]
  BY DEF TypeOK, Continue

\* Whatever start() does with a run it finds: the worker returns, or waits to
\* activate that run.
LEMMA ReplayType ==
    ASSUME TypeOK, NEW w \in Workers, NEW r \in RunIds, NEW q \in Requests,
           Replay(w, r, q)
    PROVE  /\ pc' \in [Workers -> {"idle", "insert", "queued", "working"}]
           /\ req' \in [Workers -> Requests \cup {NoRequest}]
           /\ cur' \in [Workers -> RunIds \cup {0}]
           /\ seen' \in [Workers -> Statuses]
           /\ answer' \in [Workers -> Answers]
           /\ pc'[w] = "idle" \/ (pc'[w] = "queued" /\ cur'[w] = r)
           /\ \A v \in Workers \ {w} : pc'[v] = pc[v] /\ cur'[v] = cur[v] /\ req'[v] = req[v]
<1>1. CASE ~ SameRequest(r, q) /\ Return(w, "conflict")
  BY <1>1, ReturnType DEF Answers
<1>2. CASE Return(w, "replayed")
  BY <1>2, ReturnType DEF Answers
<1>3. CASE /\ req' = [req EXCEPT ![w] = q]
           /\ pc' = [pc EXCEPT ![w] = "queued"]
           /\ cur' = [cur EXCEPT ![w] = r]
           /\ seen' = [seen EXCEPT ![w] = "PENDING"]
           /\ answer' = [answer EXCEPT ![w] = "replayed"]
  BY <1>3 DEF TypeOK, Statuses, Answers
<1> QED BY <1>1, <1>2, <1>3 DEF Replay

\* A step in which worker w ends up idle, or waiting to activate run r, keeps
\* OneExecutor if it moves rows only as the reaper does, or row r of worker w's
\* own execution.
LEMMA WorkerLeaves ==
    ASSUME OneExecutor, NEW w \in Workers, NEW r \in RunIds,
           pc'[w] = "idle" \/ (pc'[w] = "queued" /\ cur'[w] = r),
           pc'[w] = "queued" => status'[r] # "NONE",
           \A v \in Workers \ {w} : pc'[v] = pc[v] /\ cur'[v] = cur[v],
           \A s \in RunIds : status[s] # "NONE" => status'[s] # "NONE",
           \A s \in RunIds :
              \/ status'[s] = status[s]
              \/ status'[s] = "FAILED"
              \/ pc[w] = "working" /\ cur[w] = s
    PROVE  OneExecutor'
<1>1. HoldsRun'
  BY DEF OneExecutor, HoldsRun, Exists
<1>2. ExecutesLive'
  <2> SUFFICES ASSUME NEW v \in Workers, pc'[v] = "working"
               PROVE  status'[cur'[v]] \in {"RUNNING", "FAILED"}
    BY DEF ExecutesLive
  <2>1. v # w /\ pc[v] = "working" /\ cur'[v] = cur[v]
    OBVIOUS
  <2>2. cur[v] \in RunIds /\ status[cur[v]] \in {"RUNNING", "FAILED"}
    BY <2>1 DEF OneExecutor, HoldsRun, ExecutesLive
  <2>3. ~ (pc[w] = "working" /\ cur[w] = cur[v])
    BY <2>1 DEF OneExecutor, ExecutesAlone
  <2> QED BY <2>1, <2>2, <2>3
<1>3. ExecutesAlone'
  BY DEF OneExecutor, ExecutesAlone
<1> QED BY <1>1, <1>2, <1>3 DEF OneExecutor

\* A step in which worker w takes run r up, which nobody can be executing.
LEMMA WorkerTakesUp ==
    ASSUME OneExecutor, NEW w \in Workers, NEW r \in RunIds,
           status[r] \in {"NONE", "PENDING"},
           status'[r] \in {"PENDING", "RUNNING"},
           pc'[w] \in {"queued", "working"} /\ cur'[w] = r,
           pc'[w] = "working" => status'[r] = "RUNNING",
           \A v \in Workers \ {w} : pc'[v] = pc[v] /\ cur'[v] = cur[v],
           \A s \in RunIds \ {r} :
              \/ status'[s] = status[s]
              \/ status[s] = "RUNNING" /\ status'[s] = "FAILED"
    PROVE  OneExecutor'
<1>0. \A v \in Workers : pc[v] = "working" => cur[v] # r
  BY DEF OneExecutor, ExecutesLive
<1>1. HoldsRun'
  BY DEF OneExecutor, HoldsRun, Exists
<1>2. ExecutesLive'
  <2> SUFFICES ASSUME NEW v \in Workers, pc'[v] = "working"
               PROVE  status'[cur'[v]] \in {"RUNNING", "FAILED"}
    BY DEF ExecutesLive
  <2>1. CASE v = w
    BY <2>1
  <2>2. CASE v # w
    <3>1. pc[v] = "working" /\ cur'[v] = cur[v] /\ cur[v] \in RunIds \ {r}
      BY <2>2, <1>0 DEF OneExecutor, HoldsRun
    <3>2. status[cur[v]] \in {"RUNNING", "FAILED"}
      BY <3>1 DEF OneExecutor, ExecutesLive
    <3> QED BY <3>1, <3>2
  <2> QED BY <2>1, <2>2
<1>3. ExecutesAlone'
  BY <1>0 DEF OneExecutor, ExecutesAlone
<1> QED BY <1>1, <1>2, <1>3 DEF OneExecutor

\* Unchanged rows and unchanged workers keep every part but the types.
LEMMA Frame ==
    ASSUME InsertsRequest, OneExecutor, OneRunningPerBank, OneRunPerKey, WorkIffCompleted,
           UNCHANGED <<status, request, applied, pc, req, cur>>
    PROVE  InsertsRequest' /\ OneExecutor' /\ OneRunningPerBank' /\ OneRunPerKey'
           /\ WorkIffCompleted'
  BY DEF InsertsRequest, OneExecutor, HoldsRun, ExecutesLive, ExecutesAlone,
         OneRunningPerBank, OneRunPerKey, WorkIffCompleted, Exists

\* A worker that only returns, leaving the rows alone.
LEMMA ReturnKeeps ==
    ASSUME IInv, NEW w \in Workers, NEW how \in Answers, Return(w, how),
           UNCHANGED rowVars, crashes' \in 0 .. MaxCrashes
    PROVE  IInv'
<1> USE DEF IInv
<1>1. /\ pc'[w] = "idle"
      /\ \A v \in Workers \ {w} : pc'[v] = pc[v] /\ cur'[v] = cur[v] /\ req'[v] = req[v]
  BY ReturnType
<1>2. UNCHANGED <<status, request, age, error, trail, applied>>
  BY DEF rowVars
<1>3. TypeOK'
  BY <1>2, ReturnType DEF TypeOK
<1>4. InsertsRequest'
  BY <1>1 DEF InsertsRequest
<1>5. OneExecutor'
  <2>1. HoldsRun'
    BY <1>1, <1>2 DEF OneExecutor, HoldsRun, Exists
  <2>2. ExecutesLive'
    BY <1>1, <1>2 DEF OneExecutor, ExecutesLive
  <2>3. ExecutesAlone'
    BY <1>1 DEF OneExecutor, ExecutesAlone
  <2> QED BY <2>1, <2>2, <2>3 DEF OneExecutor
<1> QED BY <1>2, <1>3, <1>4, <1>5 DEF OneRunningPerBank, OneRunPerKey, WorkIffCompleted, Exists

\* Every step keeps the inductive invariant.
LEMMA StepIInv == IInv /\ [Next]_vars => IInv'
<1> SUFFICES ASSUME IInv, [Next]_vars PROVE IInv'
  OBVIOUS
<1> USE DEF IInv
<1>1. ASSUME NEW w \in Workers, NEW q \in Requests, StartLookup(w, q)
      PROVE  IInv'
  <2>0. UNCHANGED <<rowVars, crashes>>
    BY <1>1 DEF StartLookup
  <2>1. CASE \E r \in RunIds : ByKey(r, q) /\ Replay(w, r, q)
    <3>1. PICK r \in RunIds : ByKey(r, q) /\ Replay(w, r, q)
      BY <2>1
    <3>2. TypeOK'
      BY <3>1, <2>0, ReplayType DEF TypeOK, rowVars
    <3>3. InsertsRequest'
      BY <3>1, ReplayType DEF InsertsRequest
    <3>a. /\ pc'[w] = "idle" \/ (pc'[w] = "queued" /\ cur'[w] = r)
          /\ \A v \in Workers \ {w} : pc'[v] = pc[v] /\ cur'[v] = cur[v]
      BY <3>1, ReplayType
    <3>b. status' = status /\ status[r] # "NONE"
      BY <3>1, <2>0 DEF rowVars, ByKey, Exists
    <3>4. OneExecutor'
      BY <3>a, <3>b, WorkerLeaves
    <3> QED BY <3>2, <3>3, <3>4, <2>0
          DEF OneRunningPerBank, OneRunPerKey, WorkIffCompleted, rowVars, Exists
  <2>2. CASE /\ pc' = [pc EXCEPT ![w] = "insert"]
             /\ req' = [req EXCEPT ![w] = q]
             /\ answer' = [answer EXCEPT ![w] = "none"]
             /\ UNCHANGED <<cur, seen>>
    BY <2>0, <2>2 DEF TypeOK, InsertsRequest, OneExecutor, OneRunningPerBank,
         HoldsRun, ExecutesLive, ExecutesAlone, OneRunPerKey, WorkIffCompleted,
         rowVars, Exists, Answers
  <2> QED BY <1>1, <2>1, <2>2 DEF StartLookup
<1>2. ASSUME NEW w \in Workers, StartLost(w)
      PROVE  IInv'
  <2> DEFINE q == req[w]
  <2>0. q \in Requests /\ crashes' = crashes
        /\ UNCHANGED <<request, age, trail, applied>>
    BY <1>2 DEF StartLost, InsertsRequest
  <2>1. PICK r \in RunIds :
          /\ ByKey(r, q) /\ Replay(w, r, q)
          /\ \/ status' = ReapedStatus(q.bank) /\ error' = ReapedError(q.bank)
             \/ UNCHANGED <<status, error>>
    BY <1>2 DEF StartLost
  <2>2. /\ status' \in [RunIds -> Statuses] /\ error' \in [RunIds -> Errors]
        /\ \A s \in RunIds : \/ status'[s] = status[s]
                             \/ status[s] = "RUNNING" /\ status'[s] = "FAILED"
    BY <2>1, ReapedFacts DEF TypeOK
  <2>3. TypeOK'
    BY <2>0, <2>1, <2>2, ReplayType DEF TypeOK
  <2>4. InsertsRequest'
    BY <2>0, <2>1, ReplayType DEF InsertsRequest
  <2>a. /\ pc'[w] = "idle" \/ (pc'[w] = "queued" /\ cur'[w] = r)
        /\ \A v \in Workers \ {w} : pc'[v] = pc[v] /\ cur'[v] = cur[v]
    BY <2>0, <2>1, ReplayType
  <2>b. status[r] # "NONE"
    BY <2>1 DEF ByKey, Exists
  <2>5. OneExecutor'
    BY <2>a, <2>b, <2>2, WorkerLeaves
  <2> QED BY <2>0, <2>2, <2>3, <2>4, <2>5
        DEF OneRunningPerBank, OneRunPerKey, WorkIffCompleted, Exists
<1>3. ASSUME NEW w \in Workers, StartRefused(w)
      PROVE  IInv'
  <2>1. UNCHANGED <<rowVars, crashes>> /\ Return(w, "active")
    BY <1>3 DEF StartRefused
  <2>2. "active" \in Answers /\ UNCHANGED rowVars /\ crashes' \in 0 .. MaxCrashes
    BY <2>1 DEF Answers, TypeOK
  <2> QED BY <2>1, <2>2, ReturnKeeps
<1>4. ASSUME NEW w \in Workers, StartInsert(w)
      PROVE  IInv'
  <2> DEFINE q == req[w]
             first == IF q.defer THEN "PENDING" ELSE "RUNNING"
             where == IF q.defer THEN "queued" ELSE "working"
  <2>0. q \in Requests /\ UNCHANGED <<age, applied, crashes>>
    BY <1>4 DEF StartInsert, InsertsRequest
  <2>1. PICK r \in RunIds :
          /\ ~ Exists(r)
          /\ status' = [ReapedStatus(q.bank) EXCEPT ![r] = first]
          /\ error' = ReapedError(q.bank)
          /\ request' = [request EXCEPT ![r] = q]
          /\ trail' = Audited(r, "NONE", first)
          /\ Continue(w, where, r, first, "created")
    BY <1>4 DEF StartInsert, NextId
  <2>2. first \in Statuses /\ first \in {"PENDING", "RUNNING"}
        /\ where \in {"queued", "working"} /\ "created" \in Answers /\ "NONE" \in Statuses
    BY DEF Statuses, Answers
  <2>3. /\ status' \in [RunIds -> Statuses] /\ error' \in [RunIds -> Errors]
        /\ status'[r] = first
        /\ \A s \in RunIds \ {r} :
              /\ status'[s] = ReapedStatus(q.bank)[s]
              /\ \/ status'[s] = status[s]
                 \/ status[s] = "RUNNING" /\ status'[s] = "FAILED"
    BY <2>1, <2>2, ReapedFacts
  <2>4. /\ request' \in [RunIds -> Requests \cup {NoRequest}]
        /\ request'[r] = q
        /\ \A s \in RunIds \ {r} : request'[s] = request[s]
    BY <2>0, <2>1 DEF TypeOK
  <2>5. TypeOK'
    BY <2>0, <2>1, <2>2, <2>3, <2>4, AuditedType, ContinueType DEF TypeOK
  <2>6. InsertsRequest'
    BY <2>1, <2>2, ContinueType DEF InsertsRequest
  <2>a. /\ pc'[w] = where /\ cur'[w] = r
        /\ \A v \in Workers \ {w} : pc'[v] = pc[v] /\ cur'[v] = cur[v]
    BY <2>1, <2>2, ContinueType
  <2>b. where = "working" => first = "RUNNING"
    OBVIOUS
  <2>c. status[r] = "NONE"
    BY <2>1 DEF Exists
  <2>7. OneExecutor'
    <3> HIDE DEF first, where
    <3> QED BY <2>a, <2>b, <2>c, <2>2, <2>3, WorkerTakesUp
  <2>8. OneRunningPerBank'
    <3>1. first = "RUNNING" => ~ BankBusy(q.bank)
      BY <1>4 DEF StartInsert
    <3> HIDE DEF first
    <3> SUFFICES ASSUME NEW s \in RunIds, NEW t \in RunIds, s # t,
                        status'[s] = "RUNNING", status'[t] = "RUNNING",
                        request'[s].bank = request'[t].bank
                 PROVE  FALSE
      BY DEF OneRunningPerBank
    <3>2. CASE s # r /\ t # r
      BY <3>2, <2>3, <2>4 DEF OneRunningPerBank
    <3>3. CASE s = r \/ t = r
      <4>1. PICK u \in RunIds \ {r} : status'[u] = "RUNNING" /\ request'[u].bank = q.bank
        BY <3>3, <2>4
      <4>2. first = "RUNNING"
        BY <3>3, <2>3
      <4> QED BY <4>1, <4>2, <3>1, <2>3, <2>4 DEF BankBusy
    <3> QED BY <3>2, <3>3
  <2>9. OneRunPerKey'
    <3>1. \A s \in RunIds : Exists(s) => request[s].key # q.key
      BY <1>4 DEF StartInsert, ByKey
    <3>2. \A s \in RunIds \ {r} : Exists(s)' => Exists(s)
      BY <2>3 DEF Exists
    <3> QED BY <3>1, <3>2, <2>4 DEF OneRunPerKey
  <2>10. WorkIffCompleted'
    BY <2>0, <2>1, <2>2, <2>3 DEF WorkIffCompleted, Exists
  <2> QED BY <2>5, <2>6, <2>7, <2>8, <2>9, <2>10
<1>5. ASSUME NEW w \in Workers, ActivateNotPending(w)
      PROVE  IInv'
  <2>1. UNCHANGED <<rowVars, crashes>> /\ Return(w, answer[w]) /\ answer[w] \in Answers
    BY <1>5 DEF ActivateNotPending, TypeOK
  <2>2. UNCHANGED rowVars /\ crashes' \in 0 .. MaxCrashes
    BY <2>1 DEF TypeOK
  <2> QED BY <2>1, <2>2, ReturnKeeps
<1>6. ASSUME NEW w \in Workers, Activate(w)
      PROVE  IInv'
  <2> DEFINE r == cur[w]
             b == request[r].bank
  <2>1. /\ r \in RunIds /\ status[r] = "PENDING" /\ ~ BankBusy(b)
        /\ status' = [ReapedStatus(b) EXCEPT ![r] = "RUNNING"]
        /\ error' = ReapedError(b)
        /\ trail' = Audited(r, "PENDING", "RUNNING")
        /\ Continue(w, "working", r, "RUNNING", answer[w])
        /\ UNCHANGED <<request, age, applied, crashes>>
    BY <1>6 DEF Activate, OneExecutor, HoldsRun
  <2>2. /\ answer[w] \in Answers /\ "PENDING" \in Statuses /\ "RUNNING" \in Statuses
    BY DEF TypeOK, Statuses
  <2>3. /\ status' \in [RunIds -> Statuses] /\ error' \in [RunIds -> Errors]
        /\ status'[r] = "RUNNING"
        /\ \A s \in RunIds \ {r} :
              /\ status'[s] = ReapedStatus(b)[s]
              /\ \/ status'[s] = status[s]
                 \/ status[s] = "RUNNING" /\ status'[s] = "FAILED"
    BY <2>1, <2>2, ReapedFacts
  <2>4. TypeOK'
    BY <2>1, <2>2, <2>3, AuditedType, ContinueType DEF TypeOK
  <2>5. InsertsRequest'
    BY <2>1, <2>2, ContinueType DEF InsertsRequest
  <2>a. /\ pc'[w] = "working" /\ cur'[w] = r
        /\ \A v \in Workers \ {w} : pc'[v] = pc[v] /\ cur'[v] = cur[v]
    BY <2>1, <2>2, ContinueType
  <2>6. OneExecutor'
    <3> HIDE DEF r, b
    <3> QED BY <2>a, <2>1, <2>3, WorkerTakesUp
  <2>7. OneRunningPerBank'
    <3> SUFFICES ASSUME NEW s \in RunIds, NEW t \in RunIds, s # t,
                        status'[s] = "RUNNING", status'[t] = "RUNNING",
                        request'[s].bank = request'[t].bank
                 PROVE  FALSE
      BY DEF OneRunningPerBank
    <3> HIDE DEF r
    <3>2. CASE s # r /\ t # r
      BY <3>2, <2>1, <2>3 DEF OneRunningPerBank
    <3>3. CASE s = r \/ t = r
      <4>1. PICK u \in RunIds \ {r} : status'[u] = "RUNNING" /\ request[u].bank = b
        BY <3>3, <2>1
      <4> QED BY <4>1, <2>1, <2>3 DEF BankBusy
    <3> QED BY <3>2, <3>3
  <2>8. OneRunPerKey'
    <3> HIDE DEF r, b
    <3>1. \A s \in RunIds : Exists(s)' => Exists(s)
      BY <2>1, <2>3 DEF Exists
    <3> QED BY <3>1, <2>1 DEF OneRunPerKey
  <2>9. WorkIffCompleted'
    <3> HIDE DEF r, b
    <3> QED BY <2>1, <2>3 DEF WorkIffCompleted
  <2> QED BY <2>4, <2>5, <2>6, <2>7, <2>8, <2>9
<1>7. ASSUME NEW w \in Workers, ActivateBusy(w)
      PROVE  IInv'
  <2> DEFINE r == cur[w]
             b == request[r].bank
  <2>1. /\ r \in RunIds /\ status[r] = "PENDING"
        /\ status' = [ReapedStatus(b) EXCEPT ![r] = "FAILED"]
        /\ error' = [ReapedError(b) EXCEPT ![r] = "queue"]
        /\ Return(w, answer[w])
        /\ UNCHANGED <<request, age, trail, applied, crashes>>
    BY <1>7 DEF ActivateBusy, OneExecutor, HoldsRun
  <2>2. answer[w] \in Answers /\ "queue" \in Errors /\ "FAILED" \in Statuses
    BY DEF TypeOK, Errors, Statuses
  <2>3. /\ status' \in [RunIds -> Statuses] /\ error' \in [RunIds -> Errors]
        /\ status'[r] = "FAILED"
        /\ \A s \in RunIds \ {r} :
              \/ status'[s] = status[s]
              \/ status[s] = "RUNNING" /\ status'[s] = "FAILED"
    BY <2>1, <2>2, ReapedFacts
  <2>4. TypeOK' /\ InsertsRequest'
    BY <2>1, <2>2, <2>3, ReturnType DEF TypeOK, InsertsRequest
  <2>a. pc'[w] = "idle" /\ \A v \in Workers \ {w} : pc'[v] = pc[v] /\ cur'[v] = cur[v]
    BY <2>1, <2>2, ReturnType
  <2>5. OneExecutor'
    <3> HIDE DEF r, b
    <3> QED BY <2>a, <2>1, <2>3, WorkerLeaves
  <2>6. OneRunningPerBank' /\ OneRunPerKey' /\ WorkIffCompleted'
    BY <2>1, <2>3 DEF OneRunningPerBank, OneRunPerKey, WorkIffCompleted, Exists
  <2> QED BY <2>4, <2>5, <2>6
<1>8. ASSUME NEW w \in Workers, FinishCompleted(w)
      PROVE  IInv'
  <2> DEFINE r == cur[w]
  <2>1. /\ pc[w] = "working" /\ r \in RunIds /\ status[r] \in {"RUNNING", "FAILED"}
        /\ status' = [status EXCEPT ![r] = "COMPLETED"]
        /\ error' = [error EXCEPT ![r] = "none"]
        /\ trail' = Audited(r, seen[w], "COMPLETED")
        /\ applied' = [applied EXCEPT ![r] = @ + 1]
        /\ Return(w, answer[w])
        /\ UNCHANGED <<request, age, crashes>>
    BY <1>8 DEF FinishCompleted, OneExecutor, HoldsRun, ExecutesLive
  <2>2. /\ answer[w] \in Answers /\ seen[w] \in Statuses /\ "COMPLETED" \in Statuses
        /\ "none" \in Errors
    BY DEF TypeOK, Errors, Statuses
  <2>3. TypeOK'
    <3>1. trail' \in [RunIds -> Seq(Change)]
      BY <2>1, <2>2, AuditedType
    <3>2. status' \in [RunIds -> Statuses] /\ error' \in [RunIds -> Errors]
      BY <2>1, <2>2 DEF TypeOK
    <3>3. applied' \in [RunIds -> Nat]
      <4>1. applied \in [RunIds -> Nat] /\ r \in RunIds
            /\ applied' = [applied EXCEPT ![r] = @ + 1]
        BY <2>1 DEF TypeOK
      <4> HIDE DEF r
      <4> QED BY <4>1
    <3> QED BY <2>1, <2>2, <3>1, <3>2, <3>3, ReturnType DEF TypeOK
  <2>4. InsertsRequest'
    BY <2>1, <2>2, ReturnType DEF InsertsRequest
  <2>a. pc'[w] = "idle" /\ \A v \in Workers \ {w} : pc'[v] = pc[v] /\ cur'[v] = cur[v]
    BY <2>1, <2>2, ReturnType
  <2>b. \A s \in RunIds : s # r => status'[s] = status[s]
    BY <2>1 DEF TypeOK
  <2>c. status'[r] # "NONE"
    BY <2>1 DEF TypeOK
  <2>5. OneExecutor'
    BY <2>a, <2>b, <2>c, <2>1, WorkerLeaves
  <2>6. OneRunningPerBank' /\ OneRunPerKey'
    BY <2>1 DEF OneRunningPerBank, OneRunPerKey, Exists, TypeOK
  <2>7. WorkIffCompleted'
    BY <2>1 DEF WorkIffCompleted, TypeOK
  <2> QED BY <2>3, <2>4, <2>5, <2>6, <2>7
<1>9. ASSUME NEW w \in Workers, FinishFailed(w)
      PROVE  IInv'
  <2> DEFINE r == cur[w]
  <2>1. /\ pc[w] = "working" /\ r \in RunIds /\ status[r] \in {"RUNNING", "FAILED"}
        /\ status' = [status EXCEPT ![r] = "FAILED"]
        /\ error' = [error EXCEPT ![r] = "raised"]
        /\ trail' = Audited(r, status[r], "FAILED")
        /\ Return(w, answer[w])
        /\ UNCHANGED <<request, age, applied, crashes>>
    BY <1>9 DEF FinishFailed, OneExecutor, HoldsRun, ExecutesLive
  <2>2. /\ answer[w] \in Answers /\ status[r] \in Statuses /\ "FAILED" \in Statuses
        /\ "raised" \in Errors
    BY <2>1 DEF TypeOK, Errors, Statuses
  <2>3. TypeOK'
    BY <2>1, <2>2, AuditedType, ReturnType DEF TypeOK
  <2>4. InsertsRequest'
    BY <2>1, <2>2, ReturnType DEF InsertsRequest
  <2>a. pc'[w] = "idle" /\ \A v \in Workers \ {w} : pc'[v] = pc[v] /\ cur'[v] = cur[v]
    BY <2>1, <2>2, ReturnType
  <2>b. \A s \in RunIds : s # r => status'[s] = status[s]
    BY <2>1 DEF TypeOK
  <2>c. status'[r] # "NONE"
    BY <2>1 DEF TypeOK
  <2>5. OneExecutor'
    BY <2>a, <2>b, <2>c, <2>1, WorkerLeaves
  <2>6. OneRunningPerBank' /\ OneRunPerKey' /\ WorkIffCompleted'
    BY <2>1 DEF OneRunningPerBank, OneRunPerKey, WorkIffCompleted, Exists, TypeOK
  <2> QED BY <2>3, <2>4, <2>5, <2>6
<1>10. ASSUME NEW w \in Workers, Refresh(w)
       PROVE  IInv'
  <2>1. /\ cur[w] \in RunIds
        /\ seen' = [seen EXCEPT ![w] = status[cur[w]]]
        /\ UNCHANGED <<rowVars, pc, req, cur, answer, crashes>>
    BY <1>10 DEF Refresh, OneExecutor, HoldsRun
  <2>2. TypeOK'
    BY <2>1 DEF TypeOK, rowVars
  <2> QED BY <2>1, <2>2, Frame DEF rowVars
<1>11. ASSUME NEW w \in Workers, Crash(w)
       PROVE  IInv'
  <2>1. /\ UNCHANGED rowVars /\ Return(w, "none")
        /\ crashes' \in 0 .. MaxCrashes
    BY <1>11 DEF Crash, TypeOK
  <2>2. "none" \in Answers
    BY DEF Answers
  <2> QED BY <2>1, <2>2, ReturnKeeps
<1>12. CASE Tick
  <2>1. /\ age' \in [RunIds -> 0 .. StaleAfter + 1]
        /\ UNCHANGED <<status, request, error, trail, applied, workerVars, crashes>>
    BY <1>12 DEF Tick, TypeOK
  <2>2. TypeOK'
    BY <2>1 DEF TypeOK, workerVars
  <2> QED BY <2>1, <2>2, Frame DEF workerVars
<1>13. CASE UNCHANGED vars
  <2>1. TypeOK'
    BY <1>13 DEF TypeOK, vars
  <2> QED BY <1>13, <2>1, Frame DEF vars
<1> QED BY <1>1, <1>2, <1>3, <1>4, <1>5, <1>6, <1>7, <1>8, <1>9, <1>10, <1>11,
           <1>12, <1>13 DEF Next, WorkerStep

\* The inductive invariant holds in every reachable state.
THEOREM Inductive == Spec => []IInv
  BY InitIInv, StepIInv, PTL DEF Spec

\* Every column, and what every worker holds, keeps its type.
THEOREM TypeCorrect == Spec => []TypeOK
  BY Inductive, PTL DEF IInv

\* At most one RUNNING run per bank, whatever workers do and die of.
THEOREM OneRunning == Spec => []OneRunningPerBank
  BY Inductive, PTL DEF IInv

\* A run's work is committed once if the run is COMPLETED and never otherwise.
THEOREM WorkExactlyOnce == Spec => []WorkIffCompleted
  BY Inductive, PTL DEF IInv

\* The idempotency key names at most one run.
THEOREM Idempotent == Spec => []OneRunPerKey
  BY Inductive, PTL DEF IInv

\* No run is executed by two workers.
THEOREM SingleExecutor == Spec => []OneExecutor
  BY Inductive, PTL DEF IInv

\* No step takes a COMPLETED run back: a worker finishes only the run it alone
\* executes, and the reaper and activate() look at the status first.
LEMMA StepCompleted ==
    IInv /\ [Next]_vars =>
        \A r \in RunIds : status[r] = "COMPLETED" => status'[r] = "COMPLETED"
<1> SUFFICES ASSUME IInv, [Next]_vars, NEW r \in RunIds, status[r] = "COMPLETED"
             PROVE  status'[r] = "COMPLETED"
  OBVIOUS
<1>0. TypeOK /\ OneExecutor
  BY DEF IInv
<1>1. \A b : ReapedStatus(b)[r] = "COMPLETED"
  BY DEF ReapedStatus, Stale
<1>2. CASE UNCHANGED status
  BY <1>2
<1>3. ASSUME NEW w \in Workers, StartLost(w)
      PROVE  status'[r] = "COMPLETED"
  BY <1>1, <1>3 DEF StartLost
<1>4. ASSUME NEW w \in Workers, StartInsert(w)
      PROVE  status'[r] = "COMPLETED"
  <2>1. PICK s \in RunIds : ~ Exists(s)
          /\ status' = [ReapedStatus(req[w].bank) EXCEPT
                          ![s] = IF req[w].defer THEN "PENDING" ELSE "RUNNING"]
    BY <1>4 DEF StartInsert, NextId
  <2>2. s # r
    BY <2>1 DEF Exists
  <2>3. ReapedStatus(req[w].bank) \in [RunIds -> Statuses]
    BY <1>0, ReapedFacts
  <2> QED BY <2>1, <2>2, <2>3, <1>1
<1>5. ASSUME NEW w \in Workers, Activate(w) \/ ActivateBusy(w)
      PROVE  status'[r] = "COMPLETED"
  <2> DEFINE b == request[cur[w]].bank
  <2>1. /\ status[cur[w]] = "PENDING"
        /\ \/ status' = [ReapedStatus(b) EXCEPT ![cur[w]] = "RUNNING"]
           \/ status' = [ReapedStatus(b) EXCEPT ![cur[w]] = "FAILED"]
    BY <1>5 DEF Activate, ActivateBusy
  <2>2. ReapedStatus(b) \in [RunIds -> Statuses] /\ cur[w] # r
    BY <2>1, <1>0, ReapedFacts
  <2> QED BY <2>1, <2>2, <1>1
<1>6. ASSUME NEW w \in Workers, FinishCompleted(w) \/ FinishFailed(w)
      PROVE  status'[r] = "COMPLETED"
  <2>1. /\ status[cur[w]] \in {"RUNNING", "FAILED"}
        /\ \/ status' = [status EXCEPT ![cur[w]] = "COMPLETED"]
           \/ status' = [status EXCEPT ![cur[w]] = "FAILED"]
    BY <1>0, <1>6 DEF FinishCompleted, FinishFailed, OneExecutor, ExecutesLive
  <2> QED BY <2>1, <1>0 DEF TypeOK
<1>7. ASSUME NEW w \in Workers,
             \/ StartRefused(w)
             \/ ActivateNotPending(w)
             \/ Refresh(w)
             \/ Crash(w)
             \/ \E q \in Requests : StartLookup(w, q)
      PROVE  UNCHANGED status
  BY <1>7 DEF StartRefused, ActivateNotPending, Refresh, Crash, StartLookup, rowVars
<1>8. Tick \/ UNCHANGED vars => UNCHANGED status
  BY DEF Tick, vars
<1> QED BY <1>2, <1>3, <1>4, <1>5, <1>6, <1>7, <1>8 DEF Next, WorkerStep

\* The verdict COMPLETED is final.
THEOREM CompletedStays == Spec => CompletedIsFinal
<1>1. IInv /\ [Next]_vars =>
        [\A r \in RunIds : status[r] = "COMPLETED" => status'[r] = "COMPLETED"]_vars
  BY StepCompleted
<1> QED BY <1>1, Inductive, PTL DEF Spec, CompletedIsFinal


\* A row's audit trail agrees with it after a step that leaves the row alone,
\* closes it as FAILED with one of the two unaudited reasons, or audits the
\* status it gives the row.
LEMMA RowAgrees ==
    ASSUME TypeOK, AuditAgreesUnlessSwept, NEW r \in RunIds,
           \/ /\ status'[r] = status[r] /\ error'[r] = error[r] /\ trail'[r] = trail[r]
           \/ /\ status[r] # "NONE" /\ trail'[r] = trail[r]
              /\ status'[r] = "FAILED" /\ error'[r] \in {"reaped", "queue"}
           \/ \E b \in Statuses :
                 trail'[r] = Append(trail[r], [before |-> b, after |-> status'[r]])
    PROVE  Exists(r)' =>
              /\ trail'[r] # <<>>
              /\ \/ LastAudited(r)' = status'[r]
                 \/ status'[r] = "FAILED" /\ error'[r] \in {"reaped", "queue"}
<1>1. CASE status'[r] = status[r] /\ error'[r] = error[r] /\ trail'[r] = trail[r]
  BY <1>1 DEF AuditAgreesUnlessSwept, LastAudited, Exists
<1>2. CASE /\ status[r] # "NONE" /\ trail'[r] = trail[r]
           /\ status'[r] = "FAILED" /\ error'[r] \in {"reaped", "queue"}
  BY <1>2 DEF AuditAgreesUnlessSwept, Exists
<1>3. ASSUME NEW b \in Statuses,
             trail'[r] = Append(trail[r], [before |-> b, after |-> status'[r]])
      PROVE  trail'[r] # <<>> /\ LastAudited(r)' = status'[r]
  <2>1. trail[r] \in Seq(Change)
    BY DEF TypeOK
  <2>2. /\ Len(trail'[r]) = Len(trail[r]) + 1
        /\ trail'[r][Len(trail[r]) + 1] = [before |-> b, after |-> status'[r]]
        /\ Len(trail[r]) \in Nat
    BY <1>3, <2>1
  <2>3. trail'[r] # <<>>
    BY <2>2
  <2> QED BY <2>2, <2>3 DEF LastAudited
<1> QED BY <1>1, <1>2, <1>3

\* Reaping a row other than one that the step audits: the row is left alone, or
\* closed with the reason "reaped".
LEMMA ReapedRow ==
    ASSUME NEW b, NEW s \in RunIds
    PROVE  \/ ReapedStatus(b)[s] = status[s] /\ ReapedError(b)[s] = error[s]
           \/ /\ status[s] # "NONE" /\ ReapedStatus(b)[s] = "FAILED"
              /\ ReapedError(b)[s] = "reaped"
  BY DEF ReapedStatus, ReapedError, Stale

\* Audited appends to one row's trail.
LEMMA AuditedRow ==
    ASSUME TypeOK, NEW r \in RunIds, NEW b, NEW a
    PROVE  Audited(r, b, a)[r] = Append(trail[r], [before |-> b, after |-> a])
  BY DEF TypeOK, Audited

\* Every step keeps the audit trail in agreement with the rows: what changes a
\* status without auditing it is the reaper or a queued run's busy bank.
LEMMA StepAudit == IInv /\ AuditAgreesUnlessSwept /\ [Next]_vars => AuditAgreesUnlessSwept'
<1> SUFFICES ASSUME IInv, AuditAgreesUnlessSwept, [Next]_vars, NEW r \in RunIds
             PROVE  Exists(r)' =>
                      /\ trail'[r] # <<>>
                      /\ \/ LastAudited(r)' = status'[r]
                         \/ status'[r] = "FAILED" /\ error'[r] \in {"reaped", "queue"}
  BY DEF AuditAgreesUnlessSwept, Exists, LastAudited
<1>0. TypeOK /\ OneExecutor
  BY DEF IInv
<1> DEFINE Alone == status'[r] = status[r] /\ error'[r] = error[r] /\ trail'[r] = trail[r]
           Swept == /\ status[r] # "NONE" /\ trail'[r] = trail[r]
                    /\ status'[r] = "FAILED" /\ error'[r] \in {"reaped", "queue"}
           Told == \E b \in Statuses :
                      trail'[r] = Append(trail[r], [before |-> b, after |-> status'[r]])
<1> SUFFICES Alone \/ Swept \/ Told
  BY <1>0, RowAgrees
<1>1. ASSUME NEW w \in Workers, StartLost(w)
      PROVE  Alone \/ Swept \/ Told
  <2>1. /\ \/ status' = ReapedStatus(req[w].bank) /\ error' = ReapedError(req[w].bank)
           \/ UNCHANGED <<status, error>>
        /\ trail' = trail
    BY <1>1 DEF StartLost
  <2> QED BY <2>1, ReapedRow
<1>2. ASSUME NEW w \in Workers, StartInsert(w)
      PROVE  Alone \/ Swept \/ Told
  <2> DEFINE q == req[w]
             first == IF q.defer THEN "PENDING" ELSE "RUNNING"
  <2>1. PICK s \in RunIds :
          /\ status' = [ReapedStatus(q.bank) EXCEPT ![s] = first]
          /\ error' = ReapedError(q.bank)
          /\ trail' = Audited(s, "NONE", first)
    BY <1>2 DEF StartInsert
  <2>2. ReapedStatus(q.bank) \in [RunIds -> Statuses] /\ "NONE" \in Statuses
    BY <1>0, ReapedFacts DEF Statuses
  <2>3. CASE s = r
    <3>1. status'[r] = first
      BY <2>1, <2>2, <2>3
    <3>2. trail'[r] = Append(trail[r], [before |-> "NONE", after |-> first])
      BY <2>1, <2>3, <1>0, AuditedRow
    <3> HIDE DEF first
    <3> QED BY <3>1, <3>2, <2>2
  <2>4. CASE s # r
    <3>1. status'[r] = ReapedStatus(q.bank)[r] /\ error'[r] = ReapedError(q.bank)[r]
      BY <2>1, <2>2, <2>4
    <3>2. trail'[r] = trail[r]
      BY <2>1, <2>4, <1>0 DEF Audited, TypeOK
    <3> QED BY <3>1, <3>2, ReapedRow
  <2> QED BY <2>3, <2>4
<1>3. ASSUME NEW w \in Workers, Activate(w)
      PROVE  Alone \/ Swept \/ Told
  <2> DEFINE s == cur[w]
             b == request[s].bank
  <2>1. /\ s \in RunIds
        /\ status' = [ReapedStatus(b) EXCEPT ![s] = "RUNNING"]
        /\ error' = ReapedError(b)
        /\ trail' = Audited(s, "PENDING", "RUNNING")
    BY <1>0, <1>3 DEF Activate, OneExecutor, HoldsRun
  <2>2. ReapedStatus(b) \in [RunIds -> Statuses] /\ "PENDING" \in Statuses
    BY <1>0, ReapedFacts DEF Statuses
  <2>3. CASE s = r
    <3>1. status'[r] = "RUNNING"
      BY <2>1, <2>2, <2>3
    <3>2. trail'[r] = Append(trail[r], [before |-> "PENDING", after |-> "RUNNING"])
      BY <2>1, <2>3, <1>0, AuditedRow
    <3> QED BY <3>1, <3>2, <2>2
  <2>4. CASE s # r
    <3>1. status'[r] = ReapedStatus(b)[r] /\ error'[r] = ReapedError(b)[r]
      BY <2>1, <2>2, <2>4
    <3>2. trail'[r] = trail[r]
      BY <2>1, <2>4, <1>0 DEF Audited, TypeOK
    <3> QED BY <3>1, <3>2, ReapedRow
  <2> QED BY <2>3, <2>4
<1>4. ASSUME NEW w \in Workers, ActivateBusy(w)
      PROVE  Alone \/ Swept \/ Told
  <2> DEFINE s == cur[w]
             b == request[s].bank
  <2>1. /\ s \in RunIds /\ status[s] = "PENDING"
        /\ status' = [ReapedStatus(b) EXCEPT ![s] = "FAILED"]
        /\ error' = [ReapedError(b) EXCEPT ![s] = "queue"]
        /\ trail' = trail
    BY <1>0, <1>4 DEF ActivateBusy, OneExecutor, HoldsRun
  <2>2. ReapedStatus(b) \in [RunIds -> Statuses] /\ ReapedError(b) \in [RunIds -> Errors]
    BY <1>0, ReapedFacts
  <2>3. CASE s = r
    BY <2>1, <2>2, <2>3
  <2>4. CASE s # r
    <3>1. status'[r] = ReapedStatus(b)[r] /\ error'[r] = ReapedError(b)[r]
      BY <2>1, <2>2, <2>4
    <3> QED BY <3>1, <2>1, ReapedRow
  <2> QED BY <2>3, <2>4
<1>5. ASSUME NEW w \in Workers, FinishCompleted(w) \/ FinishFailed(w)
      PROVE  Alone \/ Swept \/ Told
  <2>1. cur[w] \in RunIds /\ seen[w] \in Statuses /\ status[cur[w]] \in Statuses
    BY <1>0, <1>5 DEF FinishCompleted, FinishFailed, OneExecutor, HoldsRun, TypeOK
  <2>2. PICK b \in Statuses, a \in {"COMPLETED", "FAILED"}, e \in Errors :
          /\ status' = [status EXCEPT ![cur[w]] = a]
          /\ error' = [error EXCEPT ![cur[w]] = e]
          /\ trail' = Audited(cur[w], b, a)
    BY <1>5, <2>1 DEF FinishCompleted, FinishFailed, Errors
  <2>3. CASE cur[w] = r
    <3>1. status'[r] = a
      BY <1>0, <2>2, <2>3 DEF TypeOK
    <3>2. trail'[r] = Append(trail[r], [before |-> b, after |-> a])
      BY <2>2, <2>3, <1>0, AuditedRow
    <3> QED BY <3>1, <3>2
  <2>4. CASE cur[w] # r
    BY <1>0, <2>1, <2>2, <2>4 DEF TypeOK, Audited
  <2> QED BY <2>3, <2>4
<1>6. ASSUME NEW w \in Workers,
             \/ StartRefused(w)
             \/ ActivateNotPending(w)
             \/ Refresh(w)
             \/ Crash(w)
             \/ \E q \in Requests : StartLookup(w, q)
      PROVE  Alone
  BY <1>6 DEF StartRefused, ActivateNotPending, Refresh, Crash, StartLookup, rowVars
<1>7. Tick \/ UNCHANGED vars => Alone
  BY DEF Tick, vars
<1> QED BY <1>1, <1>2, <1>3, <1>4, <1>5, <1>6, <1>7 DEF Next, WorkerStep

\* The audit chain's last word on a run is its status, but for the reaper and
\* for the queued run that found its bank busy, in every reachable state.
THEOREM AuditAgrees == Spec => []AuditAgreesUnlessSwept
<1>1. Init => AuditAgreesUnlessSwept
  BY DEF Init, AuditAgreesUnlessSwept, Exists
<1> QED BY <1>1, StepAudit, Inductive, PTL DEF Spec

\* A start() that goes on to its INSERT has not answered yet.
NoAnswerYet == \A w \in Workers : pc[w] = "insert" => answer[w] = "none"

\* start() reaches its INSERT only through StartLookup, which forgets the last
\* answer; nothing answers for it meanwhile.
LEMMA StepNoAnswer == IInv /\ NoAnswerYet /\ [Next]_vars => NoAnswerYet'
<1> SUFFICES ASSUME IInv, NoAnswerYet, [Next]_vars, NEW v \in Workers, pc'[v] = "insert"
             PROVE  answer'[v] = "none"
  BY DEF NoAnswerYet
<1>0. TypeOK
  BY DEF IInv
<1>a. ASSUME NEW w \in Workers, NEW how, Return(w, how)
      PROVE  answer'[v] = "none"
  BY <1>0, <1>a DEF Return, NoAnswerYet, TypeOK
<1>b. ASSUME NEW w \in Workers, NEW r, NEW s, NEW how, NEW where \in {"queued", "working"},
             Continue(w, where, r, s, how)
      PROVE  answer'[v] = "none"
  BY <1>0, <1>b DEF Continue, NoAnswerYet, TypeOK
<1>c. ASSUME NEW w \in Workers, NEW r, NEW q, Replay(w, r, q)
      PROVE  answer'[v] = "none"
  <2>1. CASE Return(w, "conflict") \/ Return(w, "replayed")
    BY <2>1, <1>a
  <2>2. CASE /\ pc' = [pc EXCEPT ![w] = "queued"]
             /\ answer' = [answer EXCEPT ![w] = "replayed"]
    BY <1>0, <2>2 DEF NoAnswerYet, TypeOK
  <2> QED BY <1>c, <2>1, <2>2 DEF Replay
<1>1. ASSUME NEW w \in Workers, NEW q \in Requests, StartLookup(w, q)
      PROVE  answer'[v] = "none"
  <2>1. CASE \E r \in RunIds : ByKey(r, q) /\ Replay(w, r, q)
    BY <2>1, <1>c
  <2>2. CASE /\ pc' = [pc EXCEPT ![w] = "insert"]
             /\ answer' = [answer EXCEPT ![w] = "none"]
    BY <1>0, <2>2 DEF NoAnswerYet, TypeOK
  <2> QED BY <1>1, <2>1, <2>2 DEF StartLookup
<1>2. ASSUME NEW w \in Workers, StartLost(w)
      PROVE  answer'[v] = "none"
  BY <1>2, <1>c DEF StartLost
<1>3. ASSUME NEW w \in Workers,
             \/ StartRefused(w)
             \/ ActivateNotPending(w)
             \/ ActivateBusy(w)
             \/ FinishCompleted(w)
             \/ FinishFailed(w)
             \/ Crash(w)
      PROVE  answer'[v] = "none"
  BY <1>3, <1>a DEF StartRefused, ActivateNotPending, ActivateBusy, FinishCompleted,
                    FinishFailed, Crash
<1>4. ASSUME NEW w \in Workers, StartInsert(w)
      PROVE  answer'[v] = "none"
  BY <1>4, <1>b DEF StartInsert
<1>5. ASSUME NEW w \in Workers, Activate(w)
      PROVE  answer'[v] = "none"
  BY <1>5, <1>b DEF Activate
<1>6. ASSUME NEW w \in Workers, Refresh(w)
      PROVE  answer'[v] = "none"
  BY <1>6 DEF Refresh, NoAnswerYet
<1>7. Tick \/ UNCHANGED vars => answer'[v] = "none"
  BY DEF Tick, vars, workerVars, NoAnswerYet
<1> QED BY <1>1, <1>2, <1>3, <1>4, <1>5, <1>6, <1>7 DEF Next, WorkerStep


\* Only the one-running-per-bank index makes start() answer "active", and it
\* looks at the rows that reaping leaves RUNNING.
LEMMA StepRefused ==
    ASSUME IInv, NoAnswerYet, [Next]_vars, NEW v \in Workers,
           pc[v] = "insert", answer'[v] = "active"
    PROVE  \E r \in RunIds :
              /\ status[r] = "RUNNING"
              /\ request[r].bank = req[v].bank
              /\ age[r] <= StaleAfter
<1>0. TypeOK /\ answer[v] = "none"
  BY DEF IInv, NoAnswerYet
<1>a. ASSUME NEW w \in Workers, pc[w] # "insert", NEW how,
             answer' = [answer EXCEPT ![w] = how]
      PROVE  FALSE
  BY <1>0, <1>a DEF TypeOK
<1>b. ASSUME NEW w \in Workers, NEW how, how # "active",
             answer' = [answer EXCEPT ![w] = how]
      PROVE  FALSE
  BY <1>0, <1>b DEF TypeOK
<1>c. ASSUME UNCHANGED answer PROVE FALSE
  BY <1>0, <1>c
<1>d. ASSUME NEW w \in Workers, NEW r, NEW q, Replay(w, r, q)
      PROVE  FALSE
  BY <1>d, <1>b DEF Replay, Return
<1>1. ASSUME NEW w \in Workers, NEW q \in Requests, StartLookup(w, q)
      PROVE  FALSE
  <2>1. CASE \E r \in RunIds : ByKey(r, q) /\ Replay(w, r, q)
    BY <2>1, <1>d
  <2>2. CASE answer' = [answer EXCEPT ![w] = "none"]
    BY <2>2, <1>b
  <2> QED BY <1>1, <2>1, <2>2 DEF StartLookup
<1>2. ASSUME NEW w \in Workers, StartLost(w)
      PROVE  FALSE
  BY <1>2, <1>d DEF StartLost
<1>3. ASSUME NEW w \in Workers,
             \/ ActivateNotPending(w)
             \/ Activate(w)
             \/ ActivateBusy(w)
             \/ FinishCompleted(w)
             \/ FinishFailed(w)
      PROVE  FALSE
  <2>1. pc[w] # "insert" /\ answer' = [answer EXCEPT ![w] = answer[w]]
    BY <1>3 DEF ActivateNotPending, Activate, ActivateBusy, FinishCompleted,
                FinishFailed, Return, Continue
  <2> QED BY <2>1, <1>a
<1>4. ASSUME NEW w \in Workers, StartInsert(w) \/ Crash(w)
      PROVE  FALSE
  <2>1. \/ answer' = [answer EXCEPT ![w] = "created"]
        \/ answer' = [answer EXCEPT ![w] = "none"]
    BY <1>4 DEF StartInsert, Crash, Return, Continue
  <2> QED BY <2>1, <1>b
<1>5. ASSUME NEW w \in Workers, Refresh(w)
      PROVE  FALSE
  BY <1>5, <1>c DEF Refresh
<1>6. ~ Tick /\ ~ UNCHANGED vars
  BY <1>c DEF Tick, vars, workerVars
<1>7. PICK w \in Workers : StartRefused(w)
  BY <1>1, <1>2, <1>3, <1>4, <1>5, <1>6 DEF Next, WorkerStep
<1>8. w = v
  BY <1>0, <1>7 DEF StartRefused, Return, TypeOK
<1>9. PICK r \in RunIds : ReapedStatus(req[v].bank)[r] = "RUNNING"
                          /\ request[r].bank = req[v].bank
  BY <1>7, <1>8 DEF StartRefused, BankBusy
<1>10. status[r] = "RUNNING" /\ ~ (age[r] > StaleAfter)
  BY <1>9 DEF ReapedStatus, Stale
<1>11. age[r] <= StaleAfter
  BY <1>0, <1>10 DEF TypeOK
<1> QED BY <1>9, <1>10, <1>11

\* start() refuses a request only for a run of the bank that is RUNNING inside
\* the stale window.
THEOREM RefusedOnlyBusy == Spec => RefusedOnlyWhenBusy
<1>1. Init => NoAnswerYet
  BY DEF Init, NoAnswerYet
<1>2. IInv /\ NoAnswerYet /\ [Next]_vars =>
        [\A w \in Workers :
            pc[w] = "insert" /\ answer'[w] = "active" =>
              \E r \in RunIds :
                  /\ status[r] = "RUNNING"
                  /\ request[r].bank = req[w].bank
                  /\ age[r] <= StaleAfter]_vars
  BY StepRefused
<1>3. Spec => []NoAnswerYet
  BY <1>1, StepNoAnswer, Inductive, PTL DEF Spec
<1> QED BY <1>2, <1>3, Inductive, PTL DEF Spec, RefusedOnlyWhenBusy

=============================================================================
