---------------------------- MODULE MatchLedger ----------------------------
(***************************************************************************)
(* Who may consume a transaction: normalised_transactions.match_status,    *)
(* match_results and match_claims, and everyone who writes them.           *)
(*                                                                         *)
(* A run is one database transaction that lasts through all its stages:    *)
(* each stage reads its pools and the rejected pairs once, then claims and *)
(* records matches one by one; the auto-resolver follows; then it commits. *)
(* Its uncommitted writes are kept apart (w...), seen by nobody else: an   *)
(* uncommitted claim makes the next claim of the transaction wait on the   *)
(* unique index, an uncommitted status makes the next writer wait on the   *)
(* row.  The analysts' operations (manual match, unmatch, confirm, reject) *)
(* are short transactions, one step each, under row locks.                 *)
(*                                                                         *)
(* A stage's scoring decides which pairs match; here any pair may, so what *)
(* holds below holds for every scoring.  Two runs of one bank can overlap  *)
(* when the first outlives the stale window (see Runs).                    *)
(***************************************************************************)
EXTENDS Naturals, FiniteSets, Sequences, Functions

CONSTANTS
    Internals, Externals,  \* the bank's transactions, by source
    Duplicates,            \* internals a classifier would call copies
    Runs,                  \* runs in progress, each a worker's transaction
    Stages,                \* the stages of a run, in the orchestrator's order
    ResultIds              \* ids of rows of match_results (a bound for TLC)

Txns == Internals \cup Externals
PairStages == {"exact", "cross", "fuzzy", "rule"}
AllStages == PairStages \cup {"group"}

ASSUME SourcesAssumption == Internals \cap Externals = {} /\ Duplicates \subseteq Internals
ASSUME ResultIdsAssumption == ResultIds \subseteq Nat \ {0}
ASSUME StagesAssumption == Stages \in Seq(AllStages)

VARIABLES
    matchStatus,   \* matchStatus[t]: the transaction's column
    claim,         \* claim[t]: the result of its ACTIVE claim, 0 if it has none
    result,        \* result[k]: status of the row, "NONE" before it exists
    pair,          \* pair[k]: the row's transactions, group and author
    phase,         \* phase[r]: what the run does next in its stage
    stage,         \* stage[r]: index of that stage
    pool,          \* pool[r]: the unmatched pools as the stage read them
    rejected,      \* rejected[r]: the rejected pairs as the stage read them
    plan,          \* plan[r]: what the auto-resolver checked and will write
    wStatus, wClaim, wResult   \* the run's uncommitted writes

bookVars == <<matchStatus, claim, result>>
runVars == <<phase, stage, pool, rejected, plan>>
writeVars == <<wStatus, wClaim, wResult>>
vars == <<matchStatus, claim, result, pair, phase, stage, pool, rejected, plan,
          wStatus, wClaim, wResult>>

TxnStatuses == {"UNMATCHED", "MATCHED", "VOIDED"}
Decided == {"AUTO_MATCHED", "CONFIRMED"}
Live == Decided \cup {"PENDING_REVIEW"}
ResultStatuses == Live \cup {"REJECTED"}

NoPair == [int |-> 0, ext |-> 0, group |-> 0, by |-> "nobody"]
PairRow == [int : Internals, ext : Externals, group : ResultIds,
            by : {"level", "person"}]
NoPlan == [act |-> "none"]

Phases == {"idle", "fetch", "rejected", "match", "resolve"}

TypeOK ==
    /\ matchStatus \in [Txns -> TxnStatuses]
    /\ claim \in [Txns -> ResultIds \cup {0}]
    /\ result \in [ResultIds -> ResultStatuses \cup {"NONE"}]
    /\ pair \in [ResultIds -> PairRow \cup {NoPair}]
    /\ phase \in [Runs -> Phases]
    /\ stage \in [Runs -> 1 .. Len(Stages) + 1]
    /\ pool \in [Runs -> SUBSET Txns]
    /\ rejected \in [Runs -> SUBSET (Internals \X Externals)]
    /\ plan \in [Runs -> {NoPlan}
                  \cup [act : {"void"}, copy : Duplicates]
                  \cup [act : {"settle"}, int : Internals, ext : Externals]]
    /\ wStatus \in [Runs -> [Txns -> {"NONE", "MATCHED", "VOIDED"}]]
    /\ wClaim \in [Runs -> [Txns -> ResultIds \cup {0}]]
    /\ wResult \in [Runs -> [ResultIds -> Live \cup {"NONE"}]]

NoStatusWrites == [t \in Txns |-> "NONE"]
NoClaimWrites == [t \in Txns |-> 0]
NoResultWrites == [k \in ResultIds |-> "NONE"]

Init ==
    /\ matchStatus = [t \in Txns |-> "UNMATCHED"]
    /\ claim = [t \in Txns |-> 0]
    /\ result = [k \in ResultIds |-> "NONE"]
    /\ pair = [k \in ResultIds |-> NoPair]
    /\ phase = [r \in Runs |-> "idle"]
    /\ stage = [r \in Runs |-> 1]
    /\ pool = [r \in Runs |-> {}]
    /\ rejected = [r \in Runs |-> {}]
    /\ plan = [r \in Runs |-> NoPlan]
    /\ wStatus = [r \in Runs |-> NoStatusWrites]
    /\ wClaim = [r \in Runs |-> NoClaimWrites]
    /\ wResult = [r \in Runs |-> NoResultWrites]

-----------------------------------------------------------------------------
(* What a transaction sees, and what it has to wait for.                   *)

\* READ COMMITTED: the run's own writes over the committed rows.
SeenStatus(r, t) == IF wStatus[r][t] # "NONE" THEN wStatus[r][t] ELSE matchStatus[t]
SeenClaim(r, t) == IF wClaim[r][t] # 0 THEN wClaim[r][t] ELSE claim[t]
SeenResult(r, k) == IF wResult[r][k] # "NONE" THEN wResult[r][k] ELSE result[k]

\* Another run has written the row's status, or claimed it, uncommitted.
LockedByOther(r, t) == \E o \in Runs \ {r} : wStatus[o][t] # "NONE"
ClaimedByOther(r, t) == \E o \in Runs \ {r} : wClaim[o][t] # 0

\* What a person's FOR UPDATE or claim has to wait for.
Held(t) == \E r \in Runs : wStatus[r][t] # "NONE" \/ wClaim[r][t] # 0

\* MatchingRepository._available: UNMATCHED and holding no ACTIVE claim.
Available(r, t) == SeenStatus(r, t) = "UNMATCHED" /\ SeenClaim(r, t) = 0

\* MatchingRepository.rejected_pairs.
RejectedPairs == { <<pair[k].int, pair[k].ext>> :
                     k \in {l \in ResultIds : result[l] = "REJECTED"} }

\* The two transactions of a row.
Sides(k) == {pair[k].int, pair[k].ext}

\* The rows of a match: one, or one per member of a split or netted group.
Group(k) == {l \in ResultIds : result[l] # "NONE" /\ pair[l].group = pair[k].group}
MembersOf(K) == {pair[l].int : l \in K} \cup {pair[l].ext : l \in K}

\* Result ids are random; the model hands out the lowest unused ones.
Unused(k) == result[k] = "NONE" /\ \A r \in Runs : wResult[r][k] = "NONE"
NextResult(k) == Unused(k) /\ \A l \in ResultIds : l < k => ~ Unused(l)
NextResults(K) ==
    /\ \A k \in K : Unused(k)
    /\ \A k \in K, l \in ResultIds : l < k => l \in K \/ ~ Unused(l)

\* What a stage may record: review is for the scored levels only.
Verdicts(s) == IF s \in {"fuzzy", "rule"}
               THEN {"AUTO_MATCHED", "PENDING_REVIEW"} ELSE {"AUTO_MATCHED"}

-----------------------------------------------------------------------------
(* A run's stages.                                                         *)

BeginRun(r) ==
    /\ phase[r] = "idle"
    /\ phase' = [phase EXCEPT ![r] = "fetch"]
    /\ UNCHANGED <<bookVars, pair, stage, pool, rejected, plan, writeVars>>

\* A stage is handed the current pools (find_unmatched, both sources).
FetchPools(r) ==
    /\ phase[r] = "fetch"
    /\ stage[r] <= Len(Stages)
    /\ pool' = [pool EXCEPT ![r] = {t \in Txns : Available(r, t)}]
    /\ phase' = [phase EXCEPT ![r] = "rejected"]
    /\ UNCHANGED <<bookVars, pair, stage, rejected, plan, writeVars>>

\* ... and reads the rejected pairs once, before its first candidate.
ReadRejected(r) ==
    /\ phase[r] = "rejected"
    /\ rejected' = [rejected EXCEPT ![r] = RejectedPairs]
    /\ phase' = [phase EXCEPT ![r] = "match"]
    /\ UNCHANGED <<bookVars, pair, stage, pool, plan, writeVars>>

\* Mutant: a claim without the unique index, which nothing can refuse.
Claimable_NoIndex(r, t) == r \in Runs /\ t \in Txns

\* claim_pair in a savepoint: both claims or neither.  The index refuses a
\* transaction that has an ACTIVE claim (the pair is then skipped); one that
\* another transaction is claiming has to be waited for.
Claimable(r, t) == SeenClaim(r, t) = 0 /\ ~ ClaimedByOther(r, t)

\* Mutant: a pair left for review is marked MATCHED too.
RecordPair_ReviewMatched(r, i, e, k, verdict) ==
    /\ wClaim' = [wClaim EXCEPT ![r][i] = k, ![r][e] = k]
    /\ wResult' = [wResult EXCEPT ![r][k] = verdict]
    /\ pair' = [pair EXCEPT ![k] = [int |-> i, ext |-> e, group |-> k, by |-> "level"]]
    /\ wStatus' = [wStatus EXCEPT ![r][i] = "MATCHED", ![r][e] = "MATCHED"]

\* The writes that record a match of i and e as row k: both claims, the
\* result, and MATCHED (once the rows are free) unless it is left for review.
RecordPair(r, i, e, k, verdict) ==
    /\ wClaim' = [wClaim EXCEPT ![r][i] = k, ![r][e] = k]
    /\ wResult' = [wResult EXCEPT ![r][k] = verdict]
    /\ pair' = [pair EXCEPT ![k] = [int |-> i, ext |-> e, group |-> k, by |-> "level"]]
    /\ \/ verdict = "PENDING_REVIEW" /\ UNCHANGED wStatus
       \/ /\ verdict # "PENDING_REVIEW"
          /\ ~ LockedByOther(r, i) /\ ~ LockedByOther(r, e)
          /\ wStatus' = [wStatus EXCEPT ![r][i] = "MATCHED", ![r][e] = "MATCHED"]

\* One candidate of a pairwise stage (exact, cross-currency, fuzzy, rule):
\* claimed, recorded, and both sides consumed for the rest of the stage.
MatchPair(r, i, e) ==
    /\ phase[r] = "match"
    /\ Stages[stage[r]] \in PairStages
    /\ {i, e} \subseteq pool[r]
    /\ <<i, e>> \notin rejected[r]
    /\ Claimable(r, i) /\ Claimable(r, e)
    /\ \E k \in ResultIds, verdict \in Verdicts(Stages[stage[r]]) :
         NextResult(k) /\ RecordPair(r, i, e, k, verdict)
    /\ pool' = [pool EXCEPT ![r] = @ \ {i, e}]
    /\ UNCHANGED <<bookVars, phase, stage, rejected, plan>>

\* The row of member m in the group with this id: the single side is an
\* internal in a split, an external in a netted settlement.
GroupRow(single, m, id) ==
    [int |-> IF single \in Internals THEN single ELSE m,
     ext |-> IF single \in Internals THEN m ELSE single,
     group |-> id, by |-> "level"]

\* The writes that record a group: one row per member, row[m]; the single
\* side's claim belongs to the first of them, which names the group.
RecordGroup(r, single, members, row, first) ==
    /\ wClaim' = [wClaim EXCEPT ![r] = [t \in Txns |->
           IF t \in members THEN row[t]
           ELSE IF t = single THEN row[first] ELSE wClaim[r][t]]]
    /\ wResult' = [wResult EXCEPT ![r] = [k \in ResultIds |->
           IF \E m \in members : row[m] = k THEN "AUTO_MATCHED" ELSE wResult[r][k]]]
    /\ wStatus' = [wStatus EXCEPT ![r] = [t \in Txns |->
           IF t \in {single} \cup members THEN "MATCHED" ELSE wStatus[r][t]]]
    /\ pair' = [k \in ResultIds |->
           IF \E m \in members : row[m] = k
           THEN GroupRow(single, CHOOSE m \in members : row[m] = k, row[first])
           ELSE pair[k]]

\* GroupMatchingStrategy._record: all claims or none, and both sides consumed
\* for the rest of the stage.
MatchGroup(r, single, members) ==
    /\ phase[r] = "match"
    /\ Stages[stage[r]] = "group"
    /\ Cardinality(members) >= 2
    /\ {single} \cup members \subseteq pool[r]
    /\ \A m \in members : <<single, m>> \notin rejected[r] /\ <<m, single>> \notin rejected[r]
    /\ \A t \in {single} \cup members : Claimable(r, t) /\ ~ LockedByOther(r, t)
    /\ \E row \in Injection(members, ResultIds), first \in members :
         /\ NextResults({row[m] : m \in members})
         /\ RecordGroup(r, single, members, row, first)
    /\ pool' = [pool EXCEPT ![r] = @ \ ({single} \cup members)]
    /\ UNCHANGED <<bookVars, phase, stage, rejected, plan>>

\* The stage is through its candidates.
EndStage(r) ==
    /\ phase[r] = "match"
    /\ phase' = [phase EXCEPT ![r] = "fetch"]
    /\ stage' = [stage EXCEPT ![r] = @ + 1]
    /\ pool' = [pool EXCEPT ![r] = {}]
    /\ rejected' = [rejected EXCEPT ![r] = {}]
    /\ UNCHANGED <<bookVars, pair, plan, writeVars>>

\* After the last stage the leftovers are classified and the auto-resolver
\* works through the run's tier-1 exceptions.
BeginResolve(r) ==
    /\ phase[r] = "fetch"
    /\ stage[r] > Len(Stages)
    /\ phase' = [phase EXCEPT ![r] = "resolve"]
    /\ UNCHANGED <<bookVars, pair, stage, pool, rejected, plan, writeVars>>

-----------------------------------------------------------------------------
(* The auto-resolver, inside the run's transaction.                        *)

\* _void_duplicate reads the copy and its claim, without a lock ...
VoidCheck(r, d) ==
    /\ phase[r] = "resolve"
    /\ plan[r] = NoPlan
    /\ Available(r, d)
    /\ plan' = [plan EXCEPT ![r] = [act |-> "void", copy |-> d]]
    /\ UNCHANGED <<bookVars, pair, phase, stage, pool, rejected, writeVars>>

\* ... and the savepoint's flush writes VOIDED, once the row's lock is free.
VoidWrite(r) ==
    LET d == plan[r].copy IN
    /\ plan[r].act = "void"
    /\ ~ LockedByOther(r, d)
    /\ wStatus' = [wStatus EXCEPT ![r][d] = "VOIDED"]
    /\ plan' = [plan EXCEPT ![r] = NoPlan]
    /\ UNCHANGED <<bookVars, pair, phase, stage, pool, rejected, wClaim, wResult>>

\* _settle_pair of a leftover pair: both still unmatched and the pair not
\* rejected (a missing claim is for claim_pair to find out) ...
SettleCheck(r, i, e) ==
    /\ phase[r] = "resolve"
    /\ plan[r] = NoPlan
    /\ SeenStatus(r, i) = "UNMATCHED" /\ SeenStatus(r, e) = "UNMATCHED"
    /\ <<i, e>> \notin RejectedPairs
    /\ plan' = [plan EXCEPT ![r] = [act |-> "settle", int |-> i, ext |-> e]]
    /\ UNCHANGED <<bookVars, pair, phase, stage, pool, rejected, writeVars>>

\* ... then claimed and recorded as a RULE match ...
SettleWrite(r) ==
    LET i == plan[r].int
        e == plan[r].ext
    IN
    /\ plan[r].act = "settle"
    /\ Claimable(r, i) /\ Claimable(r, e)
    /\ \E k \in ResultIds : NextResult(k) /\ RecordPair(r, i, e, k, "AUTO_MATCHED")
    /\ plan' = [plan EXCEPT ![r] = NoPlan]
    /\ UNCHANGED <<bookVars, phase, stage, pool, rejected>>

\* ... or, on a claim conflict, rolled back to the savepoint and escalated.
SettleConflict(r) ==
    /\ plan[r].act = "settle"
    /\ SeenClaim(r, plan[r].int) # 0 \/ SeenClaim(r, plan[r].ext) # 0
    /\ plan' = [plan EXCEPT ![r] = NoPlan]
    /\ UNCHANGED <<bookVars, pair, phase, stage, pool, rejected, writeVars>>

\* _settle_pair of a pair this run left for review (classify_pending_review
\* names only the run's own): confirmed by the system, under the checks of
\* MatchReviewService.confirm.
SettlePending(r, k) ==
    LET txns == Sides(k) IN
    /\ phase[r] = "resolve"
    /\ plan[r] = NoPlan
    /\ wResult[r][k] = "PENDING_REVIEW"
    /\ \A t \in txns : /\ SeenClaim(r, t) = k
                      /\ SeenStatus(r, t) = "UNMATCHED"
                      /\ ~ LockedByOther(r, t)
    /\ wResult' = [wResult EXCEPT ![r][k] = "CONFIRMED"]
    /\ wStatus' = [wStatus EXCEPT ![r] = [t \in Txns |->
                      IF t \in txns THEN "MATCHED" ELSE wStatus[r][t]]]
    /\ UNCHANGED <<bookVars, pair, phase, stage, pool, rejected, plan, wClaim>>

-----------------------------------------------------------------------------
(* The end of a run.                                                       *)

\* The run is idle again and holds no writes.
Finished(r) ==
    /\ phase' = [phase EXCEPT ![r] = "idle"]
    /\ stage' = [stage EXCEPT ![r] = 1]
    /\ pool' = [pool EXCEPT ![r] = {}]
    /\ rejected' = [rejected EXCEPT ![r] = {}]
    /\ plan' = [plan EXCEPT ![r] = NoPlan]
    /\ wStatus' = [wStatus EXCEPT ![r] = NoStatusWrites]
    /\ wClaim' = [wClaim EXCEPT ![r] = NoClaimWrites]
    /\ wResult' = [wResult EXCEPT ![r] = NoResultWrites]

\* The caller's commit: every write becomes visible at once.
Commit(r) ==
    /\ phase[r] = "resolve"
    /\ plan[r] = NoPlan
    /\ matchStatus' = [t \in Txns |-> SeenStatus(r, t)]
    /\ claim' = [t \in Txns |-> SeenClaim(r, t)]
    /\ result' = [k \in ResultIds |-> SeenResult(r, k)]
    /\ Finished(r)
    /\ UNCHANGED pair

\* A stage raised (a deadlock victim and a failed set-based statement too) or
\* the worker died: nothing of the run remains.
Rollback(r) ==
    /\ phase[r] # "idle"
    /\ pair' = [k \in ResultIds |->
                  IF wResult[r][k] # "NONE" THEN NoPair ELSE pair[k]]
    /\ Finished(r)
    /\ UNCHANGED bookVars

-----------------------------------------------------------------------------
(* The analysts' operations.                                               *)

\* ManualMatchService.create: both rows locked, free, and claimed.
Create(i, e) ==
    /\ ~ Held(i) /\ ~ Held(e)
    /\ \A t \in {i, e} : matchStatus[t] = "UNMATCHED" /\ claim[t] = 0
    /\ \E k \in ResultIds :
         /\ NextResult(k)
         /\ claim' = [claim EXCEPT ![i] = k, ![e] = k]
         /\ result' = [result EXCEPT ![k] = "CONFIRMED"]
         /\ pair' = [pair EXCEPT ![k] = [int |-> i, ext |-> e, group |-> k, by |-> "person"]]
    /\ matchStatus' = [matchStatus EXCEPT ![i] = "MATCHED", ![e] = "MATCHED"]
    /\ UNCHANGED <<runVars, writeVars>>

\* Mutant: unmatch without the rows of the group.
Unmatch_OneRow(k) ==
    LET txns == Sides(k) IN
    /\ result[k] \in Decided
    /\ \A t \in txns : ~ Held(t)
    /\ claim' = [t \in Txns |-> IF claim[t] = k THEN 0 ELSE claim[t]]
    /\ matchStatus' = [t \in Txns |-> IF t \in txns THEN "UNMATCHED" ELSE matchStatus[t]]
    /\ result' = [result EXCEPT ![k] = "REJECTED"]
    /\ UNCHANGED <<pair, runVars, writeVars>>

\* Mutant: unmatch gives the transactions the status of the row.
Unmatch_StatusOfRow(k) ==
    LET rows == Group(k)
        txns == MembersOf(rows)
    IN
    /\ result[k] # "NONE"
    /\ \A t \in txns : ~ Held(t)
    /\ \A l \in rows : result[l] \in Decided
    /\ claim' = [t \in Txns |-> IF claim[t] \in rows THEN 0 ELSE claim[t]]
    /\ matchStatus' = [t \in Txns |-> IF t \in txns THEN "REJECTED" ELSE matchStatus[t]]
    /\ result' = [l \in ResultIds |-> IF l \in rows THEN "REJECTED" ELSE result[l]]
    /\ UNCHANGED <<pair, runVars, writeVars>>

\* ManualMatchService.unmatch: every row of the match is REJECTED, its claims
\* released and its transactions returned to the pool.
Unmatch(k) ==
    LET rows == Group(k)
        txns == MembersOf(rows)
    IN
    /\ result[k] # "NONE"
    /\ \A t \in txns : ~ Held(t)
    /\ \A l \in rows : result[l] \in Decided
    /\ claim' = [t \in Txns |-> IF claim[t] \in rows THEN 0 ELSE claim[t]]
    /\ matchStatus' = [t \in Txns |-> IF t \in txns THEN "UNMATCHED" ELSE matchStatus[t]]
    /\ result' = [l \in ResultIds |-> IF l \in rows THEN "REJECTED" ELSE result[l]]
    /\ UNCHANGED <<pair, runVars, writeVars>>

\* MatchReviewService.confirm.
Confirm(k) ==
    LET txns == Sides(k) IN
    /\ result[k] = "PENDING_REVIEW"
    /\ \A t \in txns : ~ Held(t)
    /\ \A t \in txns : claim[t] = k /\ matchStatus[t] = "UNMATCHED"
    /\ result' = [result EXCEPT ![k] = "CONFIRMED"]
    /\ matchStatus' = [t \in Txns |-> IF t \in txns THEN "MATCHED" ELSE matchStatus[t]]
    /\ UNCHANGED <<claim, pair, runVars, writeVars>>

\* Mutant: the claims are not released.
Reject_KeepsClaims(k) ==
    /\ result[k] = "PENDING_REVIEW"
    /\ result' = [result EXCEPT ![k] = "REJECTED"]
    /\ UNCHANGED <<claim, matchStatus, pair, runVars, writeVars>>

\* Mutant: _lock_pending without the check that the row is pending.
Reject_AnyStatus(k) ==
    /\ result[k] # "NONE"
    /\ result' = [result EXCEPT ![k] = "REJECTED"]
    /\ claim' = [t \in Txns |-> IF claim[t] = k THEN 0 ELSE claim[t]]
    /\ UNCHANGED <<matchStatus, pair, runVars, writeVars>>

\* MatchReviewService.reject: the claims are released, the row is kept.
Reject(k) ==
    /\ result[k] = "PENDING_REVIEW"
    /\ result' = [result EXCEPT ![k] = "REJECTED"]
    /\ claim' = [t \in Txns |-> IF claim[t] = k THEN 0 ELSE claim[t]]
    /\ UNCHANGED <<matchStatus, pair, runVars, writeVars>>

RunStep(r) ==
    \/ BeginRun(r)
    \/ FetchPools(r)
    \/ ReadRejected(r)
    \/ \E i \in Internals, e \in Externals : MatchPair(r, i, e)
    \/ \E i \in Internals, M \in SUBSET Externals : MatchGroup(r, i, M)
    \/ \E e \in Externals, M \in SUBSET Internals : MatchGroup(r, e, M)
    \/ EndStage(r)
    \/ BeginResolve(r)
    \/ \E d \in Duplicates : VoidCheck(r, d)
    \/ VoidWrite(r)
    \/ \E i \in Internals, e \in Externals : SettleCheck(r, i, e)
    \/ SettleWrite(r)
    \/ SettleConflict(r)
    \/ \E k \in ResultIds : SettlePending(r, k)
    \/ Commit(r)
    \/ Rollback(r)

PersonStep ==
    \/ \E i \in Internals, e \in Externals : Create(i, e)
    \/ \E k \in ResultIds : Unmatch(k) \/ Confirm(k) \/ Reject(k)

Next == (\E r \in Runs : RunStep(r)) \/ PersonStep

Spec == Init /\ [][Next]_vars

-----------------------------------------------------------------------------
(* What the ledger promises.                                               *)

\* Every row that stands holds the claims of both its transactions, through
\* itself or another row of its group: nobody else can consume them.
LiveHoldsClaims ==
    \A k \in ResultIds : result[k] \in Live =>
        \A t \in Sides(k) :
            /\ claim[t] # 0
            /\ result[claim[t]] \in Live
            /\ pair[claim[t]].group = pair[k].group

\* No claim outlives its match, and none is held for a row it is no part of:
\* a rejected, unmatched, conflicting or rolled-back match leaves none behind.
NoOrphanClaim ==
    \A t \in Txns : claim[t] # 0 =>
        /\ result[claim[t]] \in Live
        /\ t \in Sides(claim[t])

\* Two standing matches never share a transaction, whichever stages, runs and
\* people made them.
NoDoubleMatch ==
    \A k, l \in ResultIds :
        /\ result[k] \in Live /\ result[l] \in Live
        /\ Sides(k) \cap Sides(l) # {}
        => pair[k].group = pair[l].group

\* A MATCHED transaction is in a match that was decided; a decided match has
\* no transaction back in the pool; one under review has none MATCHED.
StatusTellsMatch ==
    /\ \A t \in Txns :
         matchStatus[t] = "MATCHED" => claim[t] # 0 /\ result[claim[t]] \in Decided
    /\ \A k \in ResultIds : \A t \in Sides(k) :
         /\ result[k] \in Decided => matchStatus[t] # "UNMATCHED"
         /\ result[k] = "PENDING_REVIEW" => matchStatus[t] # "MATCHED"

\* A match is decided once: a reviewed row is never reviewed again, a rejected
\* or unmatched one never returns, and a group stands or falls as a whole.
DecidedOnce ==
    [][\A k \in ResultIds :
         /\ result[k] = "REJECTED" => result'[k] = "REJECTED"
         /\ result[k] \in Decided => result'[k] \in {result[k], "REJECTED"}
         /\ result[k] = "PENDING_REVIEW" =>
                result'[k] \in {"PENDING_REVIEW", "CONFIRMED", "REJECTED"}
         /\ result[k] # "NONE" /\ result'[k] = "REJECTED" =>
                \A l \in Group(k) : result'[l] = "REJECTED"]_vars

\* The matches that stand, as their readers see them.
Standing(k) == {l \in ResultIds : result[l] \in Live /\ pair[l].group = pair[k].group}
StandingBook ==
    { [txns |-> MembersOf(Standing(k)), decided |-> result[k] \in Decided] :
        k \in {l \in ResultIds : result[l] \in Live} }

Book == INSTANCE MatchBook WITH book <- StandingBook

\* The ledger implements the book: whatever the stages, runs and people do, a
\* commit only posts matches of free transactions, decides one, or undoes one.
ImplementsBook == Book!Spec

\* manual.py: a REJECTED pair is never matched again by any level.
RejectedNeverRematched ==
    \A k, l \in ResultIds :
        ~ /\ result[k] = "REJECTED"
          /\ result[l] \in Live /\ pair[l].by = "level"
          /\ pair[k].int = pair[l].int /\ pair[k].ext = pair[l].ext
=============================================================================
