----------------------------- MODULE Ingestion -----------------------------
(***************************************************************************)
(* Uploading a bank file and re-verifying it later.                        *)
(*                                                                         *)
(* An upload is one request: it saves the bytes under a name of its own,   *)
(* then works through one database transaction (file row, raw rows,        *)
(* normalisation, exceptions, counterparty statistics, alerts, audit       *)
(* entries) and commits.  Two requests meet at the unique content hash, at *)
(* the counterparty's row, at alert keys and at the ingestion chain's      *)
(* lock.  A rejected upload must leave neither a row nor bytes behind.     *)
(*                                                                         *)
(* The database runs READ COMMITTED: a step sees what others committed,    *)
(* and one that writes what another transaction has written waits for it.  *)
(* A guard that names another open transaction is such a wait.             *)
(***************************************************************************)
EXTENDS Naturals, FiniteSets, Sequences, SequencesExt

CONSTANTS
    Uploads,       \* upload requests, numbered: the order of their file rows
    Contents,      \* the files a bank may send
    Verifiers,     \* verification requests
    Sweeps,        \* the ones for all files (verify_all)
    MaxDamage      \* how many files are damaged from outside or by a lost answer

\* What a file is made of, as far as the pipeline tells files apart: the
\* kinds of its lines ("good"; "bad" lines fail parsing; "odd" lines parse but
\* cannot be normalised), its header against the bank's configuration, what
\* ingestion finds in it, and the settlement references it repeats.
Content == [ rows : SUBSET {"good", "bad", "odd"},
             header : {"same", "drift", "missing"},
             flags : SUBSET {"pan", "balance"},
             refs : Nat ]

ASSUME IngestAssumption ==
    /\ Uploads \subseteq Nat /\ IsFiniteSet(Uploads)
    /\ Contents \subseteq Content
    /\ Sweeps \subseteq Verifiers /\ Uploads \cap Verifiers = {}
    /\ MaxDamage \in Nat

None == "none"

VARIABLES
    step,          \* what an upload or a verification does next
    content,       \* the content of each upload
    disk,          \* the bytes under each upload's path
    file,          \* the committed file rows: uploads with one
    integrity,     \* integrity_status of each file row
    raised,        \* the committed FORMAT_ERROR exceptions: (upload, line kind)
    alerts,        \* dedupe keys of the committed alerts
    stat,          \* the committed counterparty row: the files it counts
    draft,         \* what each open transaction has written and not committed
    chain,         \* the holder, if any, of the ingestion chain's lock
    answer,        \* the response of each upload
    damage,        \* files altered from outside or whose commit went unanswered
    before         \* history: the files committed when an upload's row was made

ingestVars == <<step, content, disk, file, integrity, raised, alerts,
                stat, draft, chain, answer, damage, before>>

tables == <<file, integrity, raised, alerts, stat>>

NoDraft == [row |-> FALSE, seen |-> {}, found |-> FALSE, stat |-> FALSE,
            keys |-> {}, todo |-> <<>>, result |-> None, locks |-> {}, marks |-> <<>>]

NoContent == [rows |-> {}, header |-> "same", flags |-> {}, refs |-> 0]

Open == {"created", "based", "found", "counted", "alerted", "audited"}
Ended == {"done", "crashed"}
---------------------------------------------------------------------------
\* find_parsed_raw_transactions and normalise: the lines that become
\* transactions.  A NormalisationError is counted and the line left as it is.
Normalised(c) == c.rows \cap {"good"}

\* classify_ingestion_file: quarantined lines become FORMAT_ERROR exceptions.
FormatErrors(u, c) == {<<u, kind>> : kind \in c.rows \cap {"bad"}}

\* scan_ingestion_file touches the counterparty's statistics if it has lines.
Counts(c) == Normalised(c) # {}

\* Keys of the alerts a file calls for.  A format change is keyed by its
\* header, so files with one header share it; the others are the file's own.
FormatKey(c, outcome) == <<"format", c.header, outcome>>
FileKeys(u, c) ==
    {<<flag, u>> : flag \in c.flags}
        \cup IF c.header = "drift" THEN {FormatKey(c, "drift")} ELSE {}

TamperKey(u, result) == <<"tamper", u, result>>

\* check_settlement_uniqueness: one of these files has the same references.
SettlementKeys(u, others) ==
    IF /\ Normalised(content[u]) # {}
       /\ \E o \in others \ {u} : /\ Normalised(content[o]) # {}
                                 /\ content[o].refs = content[u].refs
    THEN {<<"duplicate-settlement", u>>}
    ELSE {}

\* An INSERT waits for another transaction's uncommitted row of the same key.
KeysFree(p, keys) == \A q \in DOMAIN draft \ {p} : draft[q].keys \cap keys = {}
HashFree(u) == \A o \in Uploads \ {u} :
                  ~(draft[o].row /\ content[o] = content[u])
StatFree(u) == \A o \in Uploads \ {u} : ~draft[o].stat
\* Who raised an exception holds the exceptions chain's lock to its commit.
ErrorChainFree(u) ==
    \A o \in Uploads \ {u} :
        step[o] \in Open \ {"created"} => FormatErrors(o, content[o]) = {}
RowFree(v, u) == \A w \in Verifiers \ {v} : u \notin draft[w].locks

SameHash(u) == \E o \in file : content[o] = content[u]

\* ROLLBACK, and the end of a transaction in general.
Released(p) ==
    /\ draft' = [draft EXCEPT ![p] = NoDraft]
    /\ chain' = chain \ {p}
---------------------------------------------------------------------------
IngestInit ==
    /\ step = [p \in Uploads \cup Verifiers |-> "idle"]
    /\ content = [u \in Uploads |-> NoContent]
    /\ disk = [u \in Uploads |-> None]
    /\ file = {}
    /\ integrity = [u \in Uploads |-> None]
    /\ raised = {} /\ alerts = {}
    /\ stat = [exists |-> FALSE, counted |-> {}]
    /\ draft = [p \in Uploads \cup Verifiers |-> NoDraft]
    /\ chain = {}
    /\ answer = [u \in Uploads |-> None]
    /\ damage = {}
    /\ before = [u \in Uploads |-> {}]

Goto(p, s) == step' = [step EXCEPT ![p] = s]
Answer(u, a) == Goto(u, "done") /\ answer' = [answer EXCEPT ![u] = a]

\* save_stream: the bytes go to a path of their own, hashed on the way.
SaveStream(u) ==
    /\ step[u] = "idle"
    /\ \E c \in Contents : content' = [content EXCEPT ![u] = c]
    /\ disk' = [disk EXCEPT ![u] = "ok"]
    /\ Goto(u, "saved")
    /\ UNCHANGED <<tables, draft, chain, answer, damage, before>>

\* _validate_target and save_stream refuse: wrong target, empty or too large.
RefuseStream(u) ==
    /\ step[u] = "idle"
    /\ Answer(u, "refused")
    /\ UNCHANGED <<content, disk, tables, draft, chain, damage, before>>

\* The first look for a file with this hash.
CheckHash(u) ==
    /\ step[u] = "saved"
    /\ IF SameHash(u)
       THEN /\ disk' = [disk EXCEPT ![u] = None]
            /\ Answer(u, "conflict")
       ELSE /\ Goto(u, "checked")
            /\ UNCHANGED <<disk, answer>>
    /\ UNCHANGED <<content, tables, draft, chain, damage, before>>

Discard_NoRollback(u, a) ==
    /\ disk' = [disk EXCEPT ![u] = None]
    /\ Answer(u, a)
    /\ UNCHANGED <<content, tables, draft, chain, damage, before>>

\* _discard: roll back, then unlink the bytes; the request ends with a.
Discard(u, a) ==
    /\ Released(u)
    /\ disk' = [disk EXCEPT ![u] = None]
    /\ Answer(u, a)
    /\ UNCHANGED <<content, tables, damage, before>>

\* _parse raises FormatChangeDetectedError: the upload is discarded and a
\* second transaction raises the alert.
Block(u) ==
    /\ step[u] = "checked"
    /\ content[u].header = "missing"
    /\ Released(u)
    /\ disk' = [disk EXCEPT ![u] = None]
    /\ Goto(u, "blocked")
    /\ UNCHANGED <<content, tables, answer, damage, before>>

AlertBlocked(u) ==
    /\ step[u] = "blocked"
    /\ LET key == FormatKey(content[u], "blocked") IN
        /\ KeysFree(u, {key})
        /\ alerts' = alerts \cup {key}
    /\ Answer(u, "blocked")
    /\ UNCHANGED <<content, disk, file, integrity, raised, stat, draft, chain, damage, before>>

\* create_ingestion_file: a second look, then the INSERT, which waits for
\* another upload of the same content.  Raw rows, balances, normalised rows
\* and exceptions follow in the same transaction.
CreateFile_NoUnique(u) ==
    /\ step[u] = "checked"
    /\ content[u].header # "missing"
    /\ draft' = [draft EXCEPT ![u].row = TRUE]
    /\ before' = [before EXCEPT ![u] = file]
    /\ Goto(u, "created")
    /\ UNCHANGED <<content, disk, tables, chain, answer, damage>>

CreateFile(u) ==
    /\ step[u] = "checked"
    /\ content[u].header # "missing"
    /\ HashFree(u)
    /\ IF SameHash(u)
       THEN Discard(u, "conflict")
       ELSE /\ draft' = [draft EXCEPT ![u].row = TRUE]
            /\ before' = [before EXCEPT ![u] = file]
            /\ Goto(u, "created")
            /\ UNCHANGED <<content, disk, tables, chain, answer, damage>>

\* classify_ingestion_file audits what it raised, then _load_stats reads the
\* baseline the new values are computed from.
LoadStats(u) ==
    /\ step[u] = "created"
    /\ FormatErrors(u, content[u]) # {} => ErrorChainFree(u)
    /\ draft' = [draft EXCEPT ![u].seen = stat.counted]
    /\ Goto(u, "based")
    /\ UNCHANGED <<content, disk, tables, chain, answer, damage, before>>

\* _update_stats looks for the row again.
FindStats(u) ==
    /\ step[u] = "based"
    /\ draft' = [draft EXCEPT ![u].found = stat.exists]
    /\ Goto(u, "found")
    /\ UNCHANGED <<content, disk, tables, chain, answer, damage, before>>

\* ... and writes it: an UPDATE with absolute values, or an INSERT that fails
\* on the unique key if another upload's row has been committed meanwhile.
UpdateStats(u) ==
    /\ step[u] = "found"
    /\ Counts(content[u]) => StatFree(u)
    /\ IF Counts(content[u]) /\ stat.exists /\ ~draft[u].found
       THEN Discard(u, "conflict")
       ELSE /\ draft' = [draft EXCEPT ![u].stat = Counts(content[u])]
            /\ Goto(u, "counted")
            /\ UNCHANGED <<content, disk, tables, chain, answer, damage, before>>

\* raise_alerts: INSERT ... ON CONFLICT DO NOTHING.  It waits for another
\* transaction's key, and skips the keys that are committed.
RaiseAlerts_SkipPending(u) ==
    /\ step[u] = "counted"
    /\ LET keys == FileKeys(u, content[u]) \cup SettlementKeys(u, file)
           taken == UNION {draft[q].keys : q \in DOMAIN draft \ {u}} IN
        draft' = [draft EXCEPT ![u].keys = (keys \ alerts) \ taken]
    /\ Goto(u, "alerted")
    /\ UNCHANGED <<content, disk, tables, chain, answer, damage, before>>

RaiseAlerts(u) ==
    /\ step[u] = "counted"
    /\ LET keys == FileKeys(u, content[u]) \cup SettlementKeys(u, file) IN
        /\ KeysFree(u, keys)
        /\ draft' = [draft EXCEPT ![u].keys = keys \ alerts]
    /\ Goto(u, "alerted")
    /\ UNCHANGED <<content, disk, tables, chain, answer, damage, before>>

\* The INGEST and NORMALISE entries: the chain's lock is held to the commit.
AuditIngest(u) ==
    /\ step[u] = "alerted"
    /\ chain = {}
    /\ chain' = {u}
    /\ Goto(u, "audited")
    /\ UNCHANGED <<content, disk, tables, draft, answer, damage, before>>

\* What COMMIT publishes.
Publish(u) ==
    /\ step[u] = "audited"
    /\ file' = file \cup {u}
    /\ raised' = raised \cup FormatErrors(u, content[u])
    /\ alerts' = alerts \cup draft[u].keys
    /\ stat' = IF draft[u].stat
               THEN [exists |-> TRUE, counted |-> draft[u].seen \cup {u}]
               ELSE stat
    /\ Released(u)
    /\ UNCHANGED <<content, integrity, before>>

CommitUpload(u) ==
    /\ Publish(u)
    /\ Answer(u, "created")
    /\ UNCHANGED <<disk, damage>>

\* The commit succeeds but its answer is lost: the handler discards the bytes.
CommitUnanswered(u) ==
    /\ Publish(u)
    /\ disk' = [disk EXCEPT ![u] = None]
    /\ damage' = damage \cup {u}
    /\ Cardinality(damage) < MaxDamage
    /\ Answer(u, "error")

\* An error inside the try of upload_file (an unreadable file, a cancelled
\* statement, a full disk): every except clause discards.
FailUpload_KeepsBytes(u) ==
    /\ step[u] \in Open \cup {"checked"}
    /\ Released(u)
    /\ Answer(u, "error")
    /\ UNCHANGED <<content, disk, tables, damage, before>>

FailUpload(u) ==
    /\ step[u] \in Open \cup {"checked"}
    /\ Discard(u, "error")

\* An error no except clause is there for ends in a 500, and what bytes there
\* are stay: the first look for the hash is before the try, the alert of a
\* blocked file is in an except clause, and _discard's own rollback raises if
\* the connection is gone, before it unlinks.
FailUnhandled(u) ==
    /\ step[u] \in Open \cup {"saved", "checked", "blocked"}
    /\ Released(u)
    /\ Answer(u, "unhandled")
    /\ UNCHANGED <<content, disk, tables, damage, before>>

\* The process dies: the database rolls back, the bytes stay.
CrashUpload(u) ==
    /\ step[u] \in Open \cup {"saved", "checked", "blocked"}
    /\ Released(u)
    /\ Goto(u, "crashed")
    /\ UNCHANGED <<content, disk, tables, answer, damage, before>>
---------------------------------------------------------------------------
\* verify_file locks the one row; verify_all lists the committed rows and
\* locks none of them.
VerifyFile(v, u) ==
    /\ v \notin Sweeps
    /\ step[v] = "idle"
    /\ u \in file /\ RowFree(v, u)
    /\ draft' = [draft EXCEPT ![v].todo = <<u>>, ![v].locks = {u}]
    /\ Goto(v, "hash")
    /\ UNCHANGED <<content, disk, tables, chain, answer, damage, before>>

VerifyAll(v) ==
    /\ v \in Sweeps
    /\ step[v] = "idle"
    /\ file # {}
    /\ draft' = [draft EXCEPT ![v].todo = SetToSortSeq(file, <)]
    /\ Goto(v, "hash")
    /\ UNCHANGED <<content, disk, tables, chain, answer, damage, before>>

\* verify: the hash of the bytes that are there now.
HashFile(v) ==
    /\ step[v] = "hash"
    /\ LET u == Head(draft[v].todo) IN
        draft' = [draft EXCEPT ![v].result =
                    CASE disk[u] = None -> "MISSING"
                      [] disk[u] = "ok" -> "OK"
                      [] OTHER -> "TAMPERED"]
    /\ Goto(v, "hashed")
    /\ UNCHANGED <<content, disk, tables, chain, answer, damage, before>>

AlertTampered(v) ==
    /\ step[v] = "hashed"
    /\ LET key == TamperKey(Head(draft[v].todo), draft[v].result) IN
        IF draft[v].result = "OK"
        THEN UNCHANGED draft
        ELSE /\ KeysFree(v, {key})
             /\ draft' = [draft EXCEPT ![v].keys = @ \cup ({key} \ alerts)]
    /\ Goto(v, "alerted")
    /\ UNCHANGED <<content, disk, tables, chain, answer, damage, before>>

\* The FILE_VERIFY entry: the chain's lock, kept while verify_all goes on.
AuditVerify(v) ==
    /\ step[v] = "alerted"
    /\ chain \subseteq {v}
    /\ chain' = {v}
    /\ Goto(v, "audited")
    /\ UNCHANGED <<content, disk, tables, draft, answer, damage, before>>

\* The flush writes integrity_status and so takes the row's lock.
MarkFile(v) ==
    /\ step[v] = "audited"
    /\ LET u == Head(draft[v].todo) IN
        /\ RowFree(v, u)
        /\ draft' = [draft EXCEPT ![v].locks = @ \cup {u},
                                  ![v].marks = Append(@, <<u, draft[v].result>>),
                                  ![v].todo = Tail(@)]
        /\ Goto(v, IF Len(draft[v].todo) = 1 THEN "marked" ELSE "hash")
    /\ UNCHANGED <<content, disk, tables, chain, answer, damage, before>>

Marked(v, u) == \E m \in ToSet(draft[v].marks) : m[1] = u

CommitVerify(v) ==
    /\ step[v] = "marked"
    /\ integrity' = [u \in Uploads |->
                        IF Marked(v, u)
                        THEN (CHOOSE m \in ToSet(draft[v].marks) : m[1] = u)[2]
                        ELSE integrity[u]]
    /\ alerts' = alerts \cup draft[v].keys
    /\ Released(v)
    /\ Goto(v, "done")
    /\ UNCHANGED <<content, disk, file, raised, stat, answer, damage, before>>

\* What a verification waits for: an alert key, the chain, a row.  verify_all
\* takes a row's lock after the chain and the key, verify_file before them,
\* so two of them can wait for each other; the database cancels one.
Waits(v, w) ==
    \/ /\ step[v] = "hashed" /\ draft[v].result # "OK"
       /\ TamperKey(Head(draft[v].todo), draft[v].result) \in draft[w].keys
    \/ step[v] = "alerted" /\ chain = {w}
    \/ step[v] = "audited" /\ Head(draft[v].todo) \in draft[w].locks

CancelVerify(v) ==
    /\ \E ring \in SUBSET Verifiers :
        /\ v \in ring
        /\ \A a \in ring : \E b \in ring \ {a} : Waits(a, b)
    /\ Released(v)
    /\ Goto(v, "done")
    /\ UNCHANGED <<content, disk, tables, answer, damage, before>>

\* From outside: a stored file is altered or removed.
Damage(u, bytes) ==
    /\ u \in file /\ disk[u] = "ok"
    /\ Cardinality(damage) < MaxDamage
    /\ disk' = [disk EXCEPT ![u] = bytes]
    /\ damage' = damage \cup {u}
    /\ UNCHANGED <<step, content, tables, draft, chain, answer, before>>
---------------------------------------------------------------------------
UploadStep(u) ==
    \/ CheckHash(u) \/ Block(u) \/ AlertBlocked(u) \/ CreateFile(u)
    \/ LoadStats(u) \/ FindStats(u) \/ UpdateStats(u) \/ RaiseAlerts(u)
    \/ AuditIngest(u) \/ CommitUpload(u)

VerifyStep(v) ==
    \/ HashFile(v) \/ AlertTampered(v) \/ AuditVerify(v) \/ MarkFile(v)
    \/ CommitVerify(v) \/ CancelVerify(v)

IngestNext ==
    \/ \E u \in Uploads : SaveStream(u) \/ RefuseStream(u) \/ UploadStep(u)
    \/ \E u \in Uploads : CommitUnanswered(u) \/ FailUpload(u)
    \/ \E u \in Uploads : FailUnhandled(u) \/ CrashUpload(u)
    \/ \E v \in Verifiers : VerifyAll(v) \/ VerifyStep(v) \/ (\E u \in Uploads : VerifyFile(v, u))
    \/ \E u \in Uploads, bytes \in {"altered", None} : Damage(u, bytes)

\* A request that has begun goes on: its server thread is scheduled, a lock is
\* granted once it is free, and the database breaks deadlocks.
IngestFairness ==
    /\ \A u \in Uploads : WF_ingestVars(UploadStep(u))
    /\ \A v \in Verifiers : WF_ingestVars(VerifyStep(v))

IngestSpec == IngestInit /\ [][IngestNext]_ingestVars /\ IngestFairness
---------------------------------------------------------------------------
(* Properties.                                                             *)

\* One file row per content, however many uploads of it overlap: the two
\* looks of upload_file and create_ingestion_file are backed by the unique
\* content_sha256.  An upload that was answered "conflict" never has a row,
\* and a file counts in the statistics only once its row is committed.
ContentOnce ==
    /\ \A u, o \in file : content[u] = content[o] => u = o
    /\ \A u \in Uploads : answer[u] = "conflict" => u \notin file
    /\ stat.counted \subseteq file

\* Bytes and rows agree: a committed row's bytes are on disk as they were
\* hashed unless they were damaged from outside or the commit's answer was
\* lost, and an upload that is answered without a row leaves no bytes behind:
\* only a crash does, and an error outside the try or in the rollback.
BytesAgree ==
    \A u \in Uploads :
        /\ u \in file /\ u \notin damage => disk[u] = "ok"
        /\ step[u] = "done" /\ u \notin file /\ answer[u] # "unhandled" => disk[u] = None

\* No finding goes unheard: a committed file with drift, card numbers or a
\* balance that does not add up, a blocked upload and a file verified as
\* TAMPERED or MISSING each have their alert, although alerts with a taken
\* key are skipped and the transaction that took the key may roll back.  So
\* has a file whose references an earlier file settled, if that file was
\* committed when this one's row was made.
FindingsAlerted ==
    /\ \A u \in file :
        FileKeys(u, content[u]) \cup SettlementKeys(u, before[u]) \subseteq alerts
    /\ \A u \in Uploads :
        /\ answer[u] = "blocked" => FormatKey(content[u], "blocked") \in alerts
        /\ integrity[u] \in {"TAMPERED", "MISSING"} => TamperKey(u, integrity[u]) \in alerts

\* Every upload that began ends, and so does every verification, whatever it
\* waits for: hashes, the counterparty's row, alert keys, the chain.
RequestsEnd ==
    \A p \in Uploads \cup Verifiers : step[p] # "idle" ~> step[p] \in Ended
=============================================================================
