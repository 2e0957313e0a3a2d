# The reconciliation engine in TLA+

This directory is a verification project for the service under `src/src/recon`: a FastAPI
application that reads bank statements and internal ledgers into PostgreSQL, matches the
two sides, raises an exception for what does not match, and records everything on a
hash-chained audit log. The modules model what happens to the shared rows when requests,
background tasks and people work on them at the same time, and what the matching stages, the
classifier and the parsers decide. TLC checks them on small instances, and TLAPS proves every
safety property that the passing runs check, and the ledger's refinement, for every value of
the constants; liveness is TLC's alone.

`PROJECT.json` lists components, runs, mutants, the map from definitions to source lines,
findings, hazards and theorems. Paths below are relative to `src/src/recon` unless they
start with `src/`.

    tlc -workers 2 -config Runs.cfg MCRuns      # any run: its cfg, its MC module
    tlapm RunsProofs.tla                        # any proof module

## 1. Inventory

| Component | State it keeps | Operations | Modelled in |
|---|---|---|---|
| Run lifecycle (`runs/`) | `reconciliation_runs`: status, key, bank, dates; unique key, unique RUNNING row per bank | `start`, `activate`, `execute`, `_finish`, `_reap_stale`, `BacklogService.run`/`run_queued`, upload hook | `Runs` |
| Match ledger (`matching/`, `excmgmt/autoresolve/`) | `match_status` of a transaction, `match_results`, `match_claims` (one ACTIVE claim per transaction) | stages of the orchestrator, manual match, unmatch, review, auto-resolution | `MatchLedger`, `MatchBook` |
| Blocking, scoring, rules, group fit (`matching/`) | a stage's pools | candidates, confidence, verdict, rules, legs, unique subset with a sum | `Scoring`, `SubsetSum`, `SubsetSearch`, `Matching` |
| Audit log (`audit/`) | `audit_log`, one hash chain per domain; an advisory lock per chain | `append`, `verify_chain`, `/anchors` | `AuditChain` |
| Exception management (`excmgmt/`, `api/v1/exceptions.py`) | `exceptions`: status, tier, assignee, SLA deadline, breach stamp; unique dedupe key | classification, routing, auto-resolution, queues, SLA scan, resolve, assign, override, reopen | `Exceptions` |
| Classifier, pair analysis, taxonomy, routing (`excmgmt/`) | none | findings, category and tier of an exception | `Findings`, `Matching` |
| File ingestion (`ingestion/`, `api/v1/upload.py`) | stored bytes, `ingestion_files`, raw and quarantined rows, integrity status | upload, re-verification of one or all files | `Ingestion` |
| Anomaly alerts (`anomaly/`) | `anomaly_alerts` with unique keys, `counterparty_stats` | raise, fold a file into the statistics | `Ingestion` (what an upload and a verification raise) |
| Statement parsers, balance check, normalisation | none | MT940, CAMT.053, CSV to rows; rows to canonical amounts | `Statements`, `Money` |
| FX, calendar (`fx/`, `calendar.py`) | `fx_rates`; a run's cache of rates | load a file, rate of a day, conversion, business days | `Money`, `Matching` |
| Bank configuration registry (`config/`) | files, a process's loaded copy and signature; `bank_configs` | load, reload, sync with audit entry | `BankConfigs` |
| Users and API keys (`api/v1/admin.py`, `security/`) | `users`, `api_keys` | create, issue, deactivate, authenticate | `Accounts` |
| Rate limiter, response cache | a bucket per key in one process; Redis values with a time to live | take a token; get, set, invalidate | not modelled |
| Reporting, analytics, samples, benchmarks, command line | none of their own | queries, formatting, test data | not modelled |

How they interact. A request of a client, an upload or a backlog pass calls
`RunService.start`, commits the RUNNING (or PENDING) row, and then `execute` in one more
transaction: configuration sync, match stages, classification, auto-resolution, queues, SLA
scan, run statistics, and the commit that makes all of it visible together with COMPLETED.
Uploads and people's requests (manual match, unmatch, review, exception handling,
administration) are transactions of their own that meet the run and each other only through
PostgreSQL: unique indexes, row locks, `SKIP LOCKED`, savepoints, and the audit chain's
advisory lock that every transaction takes at its first audit entry and keeps to its end.
Sessions are READ COMMITTED and have `autoflush=False`, so what a statement sees depends on
what was flushed and committed before it. Files on disk (uploads, bank configurations) are
outside all transactions.

What is hard about it, and so what the properties are about (all hazards with their lines
are in `PROJECT.json`):

- a run that outlives its stale window while another has taken its place; a worker that
  dies between two commits; duplicated background tasks; two requests with one key;
- pools and rejected pairs read once per stage, used long after; the resolver's check and
  its write; claims in a savepoint against a person's claim; groups that must stand or fall
  as a whole;
- two writers of one chain, rolled-back entries, chains locked in different orders;
- a SELECT without a lock followed by an UPDATE by id; two SLA scans of one row; an
  escalation between a person's permission check and the closing; rows and the chain locked
  in opposite orders;
- one file uploaded twice at once; bytes saved before and removed after a transaction that may
  or may not have committed, or not removed by an error that no except clause catches; alerts
  skipped because another transaction has their key;
- a directory's signature taken at another moment than its files are read; processes with
  different configurations writing one table, past its unique index when the row is active
  already; a key issued while its owner is deactivated;
- amounts read in one currency by the balance check and stored in another; thresholds met only
  after rounding; rates loaded while a run is using them; a candidate in another currency; a
  search that gives up at a limit; passes over what earlier passes left.

## 2. Modules and the code

**Runs.** A worker is a thread with its own session. `start` is two steps, because others
commit between its first SELECT (`StartLookup`) and the INSERT (`StartInsert`, or
`StartLost` when the key was taken meanwhile, or `StartRefused` when the bank is busy); each
includes the reaper's UPDATE and the caller's commit or rollback. `Activate`,
`ActivateBusy` and `ActivateNotPending` are `run_queued`. `FinishCompleted` and
`FinishFailed` are the two ends of `execute`; its whole work is one counter, `applied`.
`seen` is the status in the session's identity map, which is what `_finish` audits as the
old state; `Refresh` is the expiry by the set-based stage. `Crash` is a dead worker or an
exception outside `execute`'s try block. `Tick` ages RUNNING rows up to one past
`StaleAfter`, since only "older than the window" is ever asked.

**MatchLedger.** A run keeps its uncommitted writes (`wStatus`, `wClaim`, `wResult`) apart
from the committed rows until `Commit`; `Rollback` drops them. A stage is `FetchPools`,
`ReadRejected`, any number of `MatchPair` or `MatchGroup`, and `EndStage`. Which pairs a
stage would propose is left open, so what holds, holds for every scoring, rule, rate and
sum. The resolver's `VoidCheck`/`VoidWrite` and `SettleCheck`/`SettleWrite`/`SettleConflict`
are separate steps because nothing is locked between them. `Create`, `Unmatch`, `Confirm`
and `Reject` are people's transactions, one step each: they lock their rows first, and wait
(are disabled) while a run holds one. A group is its rows with one group id; the single
side's claim belongs to its first row, as in `group.py`.

**MatchBook** is the abstract specification of the ledger: a set of matches in which no
transaction stands twice; a step posts matches, decides one, or undoes one as a whole.

**AuditChain.** `append` is its three statements (`LockChain`, `ReadHead`, `InsertEntry`),
interleaved with those of other sessions. A hash is the sequence of everything hashed so
far: SHA-256 is taken as injective. `verify_chain` is translated with its order of checks,
and damage is applied to committed rows inside the properties, not by an action.

**Exceptions.** A session runs one transaction at a time: a run (classification passes,
auto-resolution, the three queues, the scan), an upload, `POST /sla-scan`, or one request of
a person. What it wrote is its `draft`, locked for others, until `Commit`. Which tier
`route` gives and for which rows an automatic action works are open choices. One bank; the
audit chain is only its lock here.

**Ingestion.** An upload is a request numbered by its file row: the bytes (`SaveStream`), the
look for its hash (`CheckHash`), the header check that may block it (`Block`, `AlertBlocked`),
the file row with its raw rows, normalisation and FORMAT_ERROR exceptions (`CreateFile`), the
counterparty's statistics in three steps, alerts, audit entries, commit. Each step that writes
what another open transaction has written (a hash, a key, the counterparty's row, the chain)
waits for it, as its guard; verifications that wait in a ring are cancelled by the database
(`CancelVerify`). Every step can fail. An error inside the `try` of `upload_file` is discarded
(`FailUpload`), bytes and all, the `unlink` itself taken to succeed. One that no except clause
is there for (`FailUnhandled`) is answered 500 and leaves what bytes there are: in the first
look for the hash, which comes before the `try`; in the alert of a blocked file; or in the
rollback of `_discard` when the connection is gone. A crash leaves them too. `CommitUnanswered`
is a commit that went through and whose answer was lost, after which the code unlinks the bytes
of a committed row; such a file counts as damaged, as do bytes altered from outside (`Damage`).
`VerifyFile` and `VerifyAll` begin requests of their own with their locks in the code's order.

**BankConfigs.** A process takes the directory's signature and reads its files one after the
other, while somebody edits them; `Swap` installs what was read, `KeepPrevious` keeps the old
copy and takes the signature again. `sync_bank_configurations`, in the transaction of a run or
of the reload endpoint, goes from bank to bank in order: it looks at the active row without a
lock (`LookActive`), turns it off by its id, whatever has become of it (`DeactivateRow`), and
looks for its own version's row (`FindVersion`). A row it finds active already is only stamped
(`StampVersion`): to the session `is_active = True` is no change, so the UPDATE waits for the
row's lock and no unique index is asked. Otherwise `SetActive` inserts the row or turns it on,
waits for the index over a bank's active rows and fails if a committed row is in the way. Then
CONFIG_CHANGE is appended, and all of it commits with the run. `lastChange` is the version the
bank's last entry names, `lastMade` the same of the entries whose transaction set `is_active`.

**Accounts.** Creating a user, issuing a key, deactivating a user and authenticating, with
the row locks the statements take (FOR UPDATE, the foreign key's FOR KEY SHARE).

**Money, Scoring, SubsetSum, Findings** hold operators: conversion and rounding for all ten
currencies of the code (with two decimals, none and three), which rate a day has, business
days; field scores, confidence and verdict; the dynamic program, whose table is a set of
entries and whose loop is the function `After`; every finding of `pair_analysis`, eligibility,
categories and tiers. A reference is a root, a number, an instalment and whether it was cut;
the rapidfuzz similarities are the external relation `Alike`; a narration is what the keyword
patterns find in it.

**Matching** is the inside of one bank's run without other writers: set-based and streaming
exact, cross-currency, split, netted, fuzzy and rule stages over pools, each proposing what the
operators above decide, then the four passes of the classifier. A pool and what is left of a
stage's queue are sets; the code's order of day, line in the file and id is `Before`, and
`First`, `InOrder` (by rank) and `FirstOf` take from a set what comes first in it.
`ToleranceOf` is what a pair's stage compares amounts by. Rate files are loaded between any two
steps (`upload_fx_rates`), later transactions arrive and a second run follows. An exception in
the group stage (`_fx_details` without a foreign leg) fails the run.

**SubsetSearch** runs the dynamic program's loop one amount at a time and compares the answer
with all subsets, and with `find_unique_subset` as `Matching` uses it.

**Statements** reads a document: the MT940 lexer line by line with its pairing of `:61:` and
`:86:`, CAMT.053 and CSV entries, the balance check, marks to direction and reversal, and texts
of amounts to minor units. A text is a number of thousandths, and what it is in minor units
depends on the currency it is read in: for an entry that names none that is the opening
balance's in `check_statement` and the bank's default in `normalise`, which passes no
statement's currency to `resolve_currency`. What a bank writes is a `BankStatement`: its
currency, entries, balances, how far the closing balance is off, and how the text is laid out.
`canonical` is the transactions by the row each came from.

**MCParts** holds the instances of the parts that share no state; the variable `part` says
which of them a behaviour belongs to.

The other `MC*` modules give the constants their values and nothing else. `RunsProofs`,
`MatchLedgerProofs`, `AuditChainProofs`, `ExceptionsProofs`, `IngestionProofs`,
`MatchingProofs`, `SubsetProofs` and `PartsProofs` (accounts, configurations, statements) hold
the theorems.

## 3. Runs

Passing runs:

| Run | Instance | What it shows |
|---|---|---|
| `Runs` | 2 workers, 2 rows, 3 requests, 2 crashes | one RUNNING run per bank (`OneRunningPerBank`), one run per key (`OneRunPerKey`), one executor of a run (`OneExecutor`), work in the books exactly when COMPLETED (`WorkIffCompleted`), COMPLETED is final (`CompletedIsFinal`), 409 only for a run inside the stale window (`RefusedOnlyWhenBusy`), the audit trail agrees except for two known transitions (`AuditAgreesUnlessSwept`), a run with a living worker settles (`RunsSettle`) |
| `Ledger` | 2 internals, 2 externals, two overlapping runs of a group stage, the fuzzy stage and the resolver, 2 result rows | standing matches hold their claims (`LiveHoldsClaims`), no claim is left behind (`NoOrphanClaim`), no transaction is matched twice (`NoDoubleMatch`), `match_status` agrees (`StatusTellsMatch`), matches are decided once and whole (`DecidedOnce`), the ledger implements the book (`ImplementsBook`) |
| `AuditChains` | 2 chains, 2 sessions, 2 entries, chains and transactions of up to 2 | every committed chain verifies (`ChainsVerify`), the head that was read is still the head at the INSERT (`HeadStaysCurrent`), damage is located (`DamageIsLocated`), an anchor exposes a cut or replaced tail (`AnchorSeesCut`), every append gets its lock or is cancelled (`AppendsReturn`) |
| `Exceptions` | 1 key of a run, 1 of a file, 2 sessions, 4 transactions | senior decisions stay senior (`SeniorCloses`), one breach each (`BreachesOnce`), nothing open is left without an owner (`RunRowsRouted`), closed stays closed (`ClosedStaysClosed`), transactions end (`TransactionsEnd`) |
| `Ingestion` | 2 uploads of any of 4 files, a verification of one file and one of all, 1 damage | one row per content (`ContentOnce`), bytes and rows agree but for crashes, damage and the errors nobody handles (`BytesAgree`), every finding has its alert (`FindingsAlerted`), every request ends (`RequestsEnd`) |
| `Parts`, configurations | 2 processes, 2 banks, 1 edit, 3 syncs | one active version per bank, the one that the last sync that activated any was to activate, and audited (`ActiveIsMade`) |
| `Parts`, accounts | 2 administrators, 2 users, 2 keys | every key inserted before its owner's deactivation is revoked, later ones are refused (`DeactivatedLockedOut`) |
| `Parts`, decisions | 657 ledgers, FULL and FAST, 2 rate files, 2 runs | automatic matches, pairs and groups, agree in direction and amount, fuzzy pairs also in date (`MatchesAgree`); the classifier partitions what is left (`LeftoversExplained`); holds reach compliance (`HoldsReachCompliance`); one rate per currency and day in a run (`OneRatePerDay`) |
| `Parts`, search | 1875 inputs | a subset is answered only if it is the only one that fits, and NONE or AMBIGUOUS only if none or several do (`SearchAnswersRight`) |
| `Parts`, statements | 8067 documents in rupees, yen and dinars | every entry has its row with its own narration, the balance check reports exactly the bank's slip and what could not be read, and exactly the entries without fault become transactions, each moving the account, in its currency, as its entry did, unless the entry names no currency and the statement's is not the bank's default (`StatementAccounted`) |

Runs that end in a violation show what the code does against what the repository says of
it; each has one property and one finding:

| Run | The statement | What the code does |
|---|---|---|
| `RunsZombie` | RUNNING -> COMPLETED or FAILED, and no more (`runs/service.py:4`) | a reaped run is stored as COMPLETED when its slow worker finishes |
| `LedgerRejected` | a REJECTED pair is never matched again by any level (`matching/manual.py:10`) | a pair that people match and unmatch after the stage read the rejected pairs is matched by that stage |
| `ExceptionsPerson` | a person already assigned is never overwritten (`excmgmt/escalation.py:52`) | an assignment between the unlocked SELECT and the UPDATE is replaced by the queue |
| `ConfigMissed` | files are reloaded when one changes (`config/registry.py:3`) | an edit between reading and the next signature is taken as loaded (`config/registry.py:138`, and `:99` at start) |
| `ConfigMisnamed` | the table and the chain record which configuration was live and when (`config/store.py:4`) | a sync whose version another one activated after the look, and a third replaced before the flush, appends a CONFIG_CHANGE entry for a version that is not active (`config/store.py:64`) |
| `GroupsMixed` | same-currency sums agree within `tolerance_minor` (`matching/strategies/group.py:20`) | a linked candidate in another currency, chosen or not, makes the group be compared at the FX tolerance (`:328`) |

More disagreements are in the models and not kept as runs:

- the reaper's FAILED, and the FAILED of a queued run on a busy bank, have no audit entry
  (`AuditAgreesUnlessSwept` excepts exactly these);
- an old anchor fails an untouched chain as soon as it has grown (`AnchorSeesCut` speaks of the
  chain as it was anchored);
- a manual match that commits between the resolver's check and its flush leaves a matched
  transaction VOIDED (`StatusTellsMatch` admits it);
- "any failure rolls everything back and deletes the saved file" (`api/v1/upload.py:5`), but
  one before the `try`, in an except clause or in the rollback leaves the bytes (`FailUnhandled`;
  `BytesAgree` excepts it);
- "nothing is silently dropped" (`src/docs/ARCHITECTURE.md:124`), but a row that parses and
  cannot be normalised is only counted (`ingestion/normalisation_service.py:64`; `Normalised`
  and `FormatErrors` have no place for it);
- an entry's currency comes second from the statement (`normalisation/currency.py:51`,
  `src/docs/ASSESSMENT_ERRORS_AND_CORRECTIONS.md:99`), but `normalisation/pipeline.py:107` passes
  None: an MT940 entry of 300 yen is balanced as 300 yen and stored as 300 rupees, 30000 minor
  units (`StatementAccounted` excepts it).

### Bounds, and why they are enough

- `Runs`: a violation of exclusion needs two workers; two rows are a reaped run and its
  successor, or a run and a queued one (`RunsZombie` has three rows of one bank, which are all
  of these at once). The three requests meet in each way `start` tells apart: the same one
  again, another key of the same bank, deferred, and that key again for another bank.
  `StaleAfter = 1` gives an age inside the window, at it, and past it. Two crashes let both
  the first worker and its successor die. There is one row id per key, so an INSERT never
  fails for lack of one.
- `MatchLedger`: two transactions per side allow a split and a netted group and a pair that
  competes with it; two result rows are a group, or a match and the one made of its
  transactions after it was undone. The five stages differ only in pairs or groups, and
  with or without review, so the group and the fuzzy stage take every kind of step.
- `AuditChain`: a deadlock needs two sessions and two chains; a fork, two sessions on one
  chain; a link, two entries; a transaction must see its own first entry when it appends
  its second.
- `Exceptions`: an inversion of locks needs two sessions; four transactions are a run that
  raises, a second run, and two requests or scans around them.
- `Ingestion`: a collision needs two uploads. The four files are chosen so that any two of
  them, or one twice, share a hash, a drifted header's alert key, a settlement reference, or
  nothing; each finding and each kind of row occurs in one. Two verifications hold the file
  row and the chain in opposite orders.
- `BankConfigs`: two processes with one edit have different files loaded; three syncs let one
  look, another activate what the first wants, and a third replace it (the trace of
  `ConfigMisnamed`); two banks are enough for a ring of waits. The liveness run has one process
  and two edits: one that breaks a file, one that repairs it.
- `Accounts`: a key of each kind (inserted before, inserted after the deactivation) and two
  requests at once.
- Decisions: 640 ledgers are one internal and every combination of reference, amount, day,
  currency, direction and hold of its external; 17 are made for what takes more than two
  transactions (copies, competing candidates, a list cut at `MaxCandidates`, instalments,
  netting, groups in two currencies, a group whose run fails, a currency of three decimals).
  Limits are scaled down (two candidates, three members, twelve states) so that each is hit.
- Search: amounts include zero, equal ones, and several ways to the same sum; the twelve
  states are exceeded by some inputs and not by others.
- Statements: three entries of every mark, with every kind of error, with and without
  narration and a wrong balance; layouts without header, with wrapped narration, with the
  closing dash; two statements in a file; accounts in a currency without decimals and in one
  with three, with entries that name their currency and entries that do not.

`CHECK_DEADLOCK FALSE` stands where a budget or an input runs out: transactions in
`Exceptions`, requests in `Ingestion`, and the parts of `MCParts`, which end when an
instance's edits and syncs are used up, the document is read, the search answered or the last
run done. That nobody is stuck is `TransactionsEnd` and `RequestsEnd`.

### Fairness, and why the code justifies it

- `Runs`: weak fairness of each worker's next step. A thread that is not killed is served;
  no client has to send anything, no clock has to tick, no worker has to die.
- `AuditChain`: weak fairness of statements that can run and of the deadlock detector;
  strong fairness of `LockChain`, since PostgreSQL queues waiters in order and passes none
  over. Nobody is forced to call or to fail.
- `Exceptions`: strong fairness of each transaction's next statement for the same reason,
  weak fairness of the deadlock detector. Nobody is forced to begin, to fail, or to find
  further candidates.
- `Ingestion`: weak fairness of each begun request's steps, the deadlock detector's
  cancelling included. Nobody is forced to upload, to verify or to fail.
- `BankConfigs` (only for `EditsGoLive`): weak fairness of the registry's and the sync's
  steps: requests keep arriving and each reads `current()`, which looks for changes. Nobody
  is forced to edit.

Every property of a passing run has a mutant: a definition changed as a plausible slip would
change it (a dropped guard, a missing lock, a check on one row of a group) under which TLC
finds that property violated.

## 4. Proofs

Each proof module proves that an inductive invariant holds and derives the run's properties
from it, for every set of workers, runs, sessions, transactions, keys, files and ledgers and
every bound. The assumptions on constants are the named ASSUMEs of the component modules:

- bounds, tolerances and limits are naturals, a rate's unit is positive; the FX tolerance is
  below 200 %, from where `_legs` would divide by zero or a negative number;
- "nobody" is not somebody (a worker, a user, a key), internals and externals are disjoint,
  keys of runs are not keys of files, names of people are not queues, uploads are not
  verifications;
- the banks are finitely many and numbered in the order their files are read;
- a ledger is a sequence of transactions with the normalised columns, in one of the ten
  currencies; amounts are not negative (`domain/canonical.py:148`);
- a file of rates holds rows of `fx_rates` with a known currency and source;
- the search is given a sequence of integers, two integers as bounds and a natural as maximum;
- a document is a nonempty sequence of statements as a bank may write them, the amounts of
  entries naturals, balances any integers, the entries in the currency of their account; that
  and the bank's default are among the ten currencies.

The modules, and why their invariants are what they are:

- **RunsProofs**: `TypeCorrect`, `OneRunning`, `WorkExactlyOnce`, `Idempotent`,
  `SingleExecutor`, `CompletedStays`, `AuditAgrees`, `RefusedOnlyBusy`. That a run is applied
  once is not inductive alone: it
  needs that the run of a working worker is RUNNING or reaped and that no other worker has
  it (`OneExecutor`), which in turn needs that a queued run is activated only from PENDING.
  `OneRunPerKey` needs that a worker about to INSERT holds a request (`InsertsRequest`); that
  a 409 is given only inside the stale window needs that such a worker has no answer yet
  (`NoAnswerYet`), so that the answer was made in the step that looked at the clock.
- **MatchLedgerProofs**: `TypeCorrect`, `ClaimsHeld`, `NoneOrphaned`, `Disjoint`,
  `StatusTells`, `DecidedForGood`, `LedgerImplementsBook`. The public facts are inductive only
  with their private counterparts: no row or transaction is written by two runs
  (`RowsPrivate`, `ClaimsPrivate`), a run's uncommitted rows hold uncommitted claims on
  transactions that no committed match has (`RowsHoldClaims`), groups are named by one of
  their rows and are wholly standing or wholly not (`GroupsNamed`, `GroupsWhole`), and a row
  under review is alone in its group (`PendingAlone`). `Commit` then merges two disjoint
  books. For the refinement an entry of the book is a group of standing rows, with all its
  transactions: `Commit` posts the run's groups at once, `Create` posts one, `Confirm` decides
  an entry, `Unmatch` and `Reject` take a whole one out, and every other step stutters. That
  an entry's transactions stay the same while rows come and go is what `GroupsWhole` is for.
- **AuditChainProofs**: `TypeCorrect`, `ChainsIntact`, `HeadCurrent`, `DamageLocated`,
  `AnchorExposes`. The argument: rows of
  an open transaction exist only under the chain's lock (`OpenOwned`, `AppendOwned`), the
  lock has one owner, so the committed chain does not move under it (`HeadStaysCurrent`),
  and so committed and open rows together are linked (`LogLinked`, `OpenLinked`). For damage
  the checks of `verify_chain` are followed in their order over a linked chain with one row
  altered, altered and hashed again, of another version, or removed: the first row that fails
  is the one named. For anchors the
  invariant keeps that an anchor is the head of the chain as it was then (`AnchorTrue`).
- **ExceptionsProofs**: `TypeCorrect`, `ClosedBySeniors`, `BreachedOnce`, `Routing`,
  `ClosedForGood`. Every draft must already satisfy what the committed row will have to
  (`DraftSound`, `DraftStamp`), may only follow from the row it was made from, which nobody
  else can have changed (`Exclusive`, `DraftFollows`), and at the end of a run is routed
  (`DraftRouted`, by how far through the queues the run is).
- **IngestionProofs**: `OneRowPerContent`, `BytesFollowRows`, `EveryFindingAlerted`. How far a
  request is fixes what its bytes, its open transaction and its alerts must be (`UploadOK`,
  `VerifyOK`); the unique hash must be stated over rows that are not committed yet
  (`Distinct`), since that is what makes the second upload wait; that an upload answered
  without a row has no bytes is kept step by step, `FailUnhandled` alone answering in another
  way; and a finding whose key another transaction has is reported only because alerts are
  never taken back.
- **MatchingProofs**: `OneRate`, `MatchedAgree`, `NothingUnexplained`, `HoldsReported`, for
  every ledger, rate file and configuration. A pair's rupee values are compared once and must
  agree in every later state though rates are loaded meanwhile: the invariant says that the
  rates they were valued at are in the run's cache (`Pinned`), from which nothing is dropped
  (`CacheAnswers`). That fuzzy pairs agree rests on the weights: without the amount, or
  without the date, the other fields reach at most 850 thousandths, and an automatic match
  needs more than that. A group agrees because the sum of its members is the one the search
  was asked for (`SearchIsRight`, through `ChosenSum`), because the bounds `_legs` computes
  are where the tolerance ends (`Fits`), and because its rates, like a pair's, stay in the
  cache for good (`RatesRight`, `GroupsAgreed`). That the classifier's candidates partition
  what is left rests on pairs by reference having no transaction in common. `HoldsReported`
  needs to know by stage which pass is over (`PassOver`), that an exception names what its key
  names (`RaisedFormed`), so that one skipped for its key is already named by an earlier one,
  and that no stage raises anything (`NothingYet`).
- **SubsetProofs**: `SearchIsRight`, `SearchAnswers`, for any number of amounts of any size.
  After n amounts the table has an entry for each size and total, within the limits, that some
  set of them reaches (`Reached`), its witness is one of those sets, and it says "one" only if
  there is no other (`CountsRight`); `_merge` keeps this because the sets that have the new
  amount and those that have not are disjoint, and counting to two loses nothing that is
  asked. The module's first part is sums over finite sets: by their equation when an element
  is put in or taken out.
- **PartsProofs**, accounts: `LockedOut`. That earlier keys are revoked needs that a
  deactivation's lock and an inserted key's share of the user's row never stand together
  (`Apart`), so that the keys the UPDATE found are all there are (`Covers`) and an inserted key
  knows whether it came after the deactivation (`Told`).
- **PartsProofs**, configurations: `ActiveMade`, `ActivationsApart`. The look at the active row
  is not locked, so what a transaction read there need not hold later, and two transactions may
  write rows of one bank at once. What holds is that they write different rows (`RowsApart`,
  from the row locks) and that one at most activates a version (`OneActivator`, from the unique
  index over active rows). So a transaction that activates one is, until its commit, alone in
  deciding about the row that is active, which is the one it turned off or the one it turns on
  (`TxnOK`); and one that ends with a bank without activating a version has turned off no row
  that is active.
- **PartsProofs**, statements: `StatementsAccounted`, for any number of entries, any amounts
  and every layout. The text is the entries' lines one after the other between the two balances
  (`Laid`); the fields lexed so far are the lines that open one, each with as many lines as
  were wrapped onto it (`Lexed`); so the k-th `:61:` is the k-th entry, and the `:86:` after
  it, if there is one, is that entry's and not a remark on the statement. Then the rows are the
  entries' (`RowsFor`); a text read in the entry's own currency is its minor units again, with
  nothing to round; and the balance check's sum over readable rows and the sum of what was lost
  are the two parts of the statement's total (`SumApart`, `TotalApart`).

Some lemmas are inductions over data: over the amounts of a search, over the parts of a text,
over finite sets for their sums and the ranks of their members. The library states induction
with an operator as parameter; here it is stated with the set of the numbers, or of the finite
sets, for which the claim holds (`NatSteps`, `SetSteps` in `SubsetProofs`), which the provers
can instantiate.

Model-checked only:

- liveness: a run with a living worker settles (`RunsSettle`), every append returns
  (`AppendsReturn`), transactions and requests end (`TransactionsEnd`, `RequestsEnd`). Fairness
  and ENABLED are beyond the prover, so these hold at the bounds of the runs and no further;
- the six properties that fail, `EditsGoLive` among them: a counterexample needs no proof.

No safety property of a passing run is left to TLC alone. What the proofs say is about the
modules: that these are the code is by reading, and the external relations (`Alike`, and the
free choices of section 5) are arbitrary in the proofs as in the runs.

## 5. What the models leave out

- In `MatchLedger` and `Exceptions`, which pairs score, fit or fall under a rule, and which
  category and tier an exception gets, are free choices, so their properties hold whatever
  `Matching` says these compute; `Matching` in turn has no other writer. Fee adjustments
  written by the auto-resolver, severities and SLA hours are left out.
- `Exceptions` has one bank; the code's statements filter by bank, and banks meet only at
  the chain's lock. The status IN_REVIEW is in the code's lists but nothing sets it.
- The row locks of a person's transaction in `MatchLedger` are taken in one step; a deadlock
  between a person and a run ends one of them, which is `Rollback` or no step at all.
- The set-based exact stage is the same matches as the streaming one, recorded one by one.
- `Ingestion` has one counterparty, and an upload's alerts are one step: shared keys are
  inserted in one order, so uploads cannot deadlock over them. The statistical alerts
  (deviation, velocity, volume, absence, rates of a run) compare stored numbers with
  thresholds and change nothing else.
- `Matching`: in the ledgers checked fuzzy matching leaves the rule stage few pairs, since
  both ask for nearly the same agreement. Held transactions that are members of
  a group, or copies of another transaction, are reported with the group or as copies and
  not as holds: that is what the code does, and `HoldsReachCompliance` excepts them. Two
  blank references score as equal, and a whole linked set that fits is accepted without
  asking whether a smaller one fits too; both are modelled as they are.
- `Statements`: `StatementAccounted` is about files with one statement. An MT940 file with
  several is read as one with the last opening and the last closing balance, CAMT.053 takes the
  first `Stmt` only, and a closing "-" line makes an MT940 balance unreadable: the model has
  all three. Entries are in the currency of their account; currencies nobody registered are
  left out. Separators of thousands, dates, columns, XML and character sets are string work, as
  are the parsing of rate files and the rewriting of references and names.
- The rate limiter (a counter in one process), the cache (values with a time to live before
  read-only queries), reporting, analytics, samples, benchmarks and the command line.
- Entries' contents, time stamps, error texts and metrics.

## 6. Plan

1. Composition: `Ingestion` with `Runs` through the upload hook, `BankConfigs` with the
   run that syncs, with the invariants proved here used for both.
2. The rate limiter at its limits; alerts' acknowledgement; fee adjustments.
3. `MatchLedger` with `Matching` deciding which pairs a stage proposes, so that agreement of
   matches is stated with other writers present.
