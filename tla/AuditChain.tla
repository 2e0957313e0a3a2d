----------------------------- MODULE AuditChain -----------------------------
(***************************************************************************)
(* The hash-chained audit log: AuditLogger.append, as the transactions of  *)
(* several sessions interleave its statements, and the verifier with its   *)
(* exported anchors.                                                       *)
(*                                                                         *)
(* append() is three statements: the chain's advisory lock, which its      *)
(* transaction then holds until it ends; the SELECT of the chain's head;   *)
(* the INSERT.  A transaction may append to several chains, several times. *)
(* Its rows are seen by itself at once (append flushes) and by the others  *)
(* when it commits.                                                        *)
(*                                                                         *)
(* SHA-256 over the canonical bytes is modelled as an injective function:  *)
(* a hash is the sequence of everything hashed so far.                     *)
(***************************************************************************)
EXTENDS Naturals, Sequences

CONSTANTS
    Chains,       \* the audit chains
    Sessions,     \* database sessions that append
    Entries,      \* what an entry says: actor, action, records, states
    None,         \* no owner of a lock, no chain to append to
    MaxLength,    \* bound: entries of a chain
    MaxPerTxn     \* bound: appends of one transaction

ASSUME BoundsAssumption == MaxLength \in Nat /\ MaxPerTxn \in Nat
ASSUME NoneAssumption == None \notin Sessions /\ None \notin Chains

VARIABLES
    log,      \* log[c]: the chain's committed rows, by sequence_no
    open,     \* open[s][c]: rows the session's transaction has inserted
    owner,    \* owner[c]: the session that holds the chain's advisory lock
    pc,       \* pc[s]: the statement of append() the session is at
    want,     \* want[s]: the chain it appends to
    head,     \* head[s]: the head it read
    anchor    \* anchor[c]: a head exported by /anchors and kept outside

vars == <<log, open, owner, pc, want, head, anchor>>

-----------------------------------------------------------------------------
(* Entries, hashes, heads.                                                 *)

SERIALISATION_VERSION == 1
Versions == {0, SERIALISATION_VERSION}

Hashed == [chain : Chains, seq : Nat, entry : Entries, version : Versions]
Hash == Seq(Hashed)
NoHash == <<>>

\* Mutant: a column is left out of the canonical bytes.
compute_hash_NoVersion(c, row) ==
    Append(row.prev, [chain |-> c, seq |-> row.seq, entry |-> row.entry])

\* compute_hash: over every column, the previous entry's hash among them.
compute_hash(c, row) ==
    Append(row.prev, [chain |-> c, seq |-> row.seq, entry |-> row.entry,
                      version |-> row.version])

Row == [seq : Nat, entry : Entries, version : Versions, prev : Hash, hash : Hash]
ChainHead == [seq : Nat, hash : Hash]
NoHead == [seq |-> 0, hash |-> NoHash]

\* The head of rows in sequence order (append's SELECT, and chain_head).
chain_head(rows) ==
    IF rows = <<>> THEN NoHead
    ELSE [seq |-> rows[Len(rows)].seq, hash |-> rows[Len(rows)].hash]

\* The row append() builds on the head it read.
NewRow(c, h, e) ==
    LET row == [seq |-> h.seq + 1, entry |-> e, version |-> SERIALISATION_VERSION,
                prev |-> h.hash, hash |-> NoHash]
    IN  [row EXCEPT !.hash = compute_hash(c, row)]

-----------------------------------------------------------------------------
(* The verifier.                                                           *)

PreviousHash(rows, i) == IF i = 1 THEN NoHash ELSE rows[i - 1].hash

\* Mutant: the link to the previous entry is not checked.
CheckRow_NoLink(c, rows, i) ==
    LET row == rows[i] IN
    IF row.seq # i THEN "SEQUENCE_GAP"
    ELSE IF row.version # SERIALISATION_VERSION THEN "UNSUPPORTED_VERSION"
    ELSE IF row.hash # compute_hash(c, row) THEN "HASH_MISMATCH"
    ELSE "ok"

\* _check_row, for the i-th row of the walk.
CheckRow(c, rows, i) ==
    LET row == rows[i] IN
    IF row.seq # i THEN "SEQUENCE_GAP"
    ELSE IF row.version # SERIALISATION_VERSION THEN "UNSUPPORTED_VERSION"
    ELSE IF row.prev # PreviousHash(rows, i) THEN "PREV_HASH_MISMATCH"
    ELSE IF row.hash # compute_hash(c, row) THEN "HASH_MISMATCH"
    ELSE "ok"

Passed == [kind |-> "ok", at |-> 0]

\* Mutant: an anchor is compared by its sequence number alone.
HeadMatches_SeqOnly(rows, expected) == chain_head(rows).seq = expected.seq

\* The comparison with an expected head, after a walk without a failure.
HeadMatches(rows, expected) == chain_head(rows) = expected

\* verify_chain: the walk's first failure, then the anchor (NoHead: none given).
verify_chain(c, rows, expected) ==
    LET bad == {i \in DOMAIN rows : CheckRow(c, rows, i) # "ok"}
        first == CHOOSE i \in bad : \A j \in bad : i <= j
    IN  IF bad # {} THEN [kind |-> CheckRow(c, rows, first), at |-> rows[first].seq]
        ELSE IF expected # NoHead /\ ~ HeadMatches(rows, expected)
             THEN [kind |-> "HEAD_MISMATCH", at |-> 0]
        ELSE Passed

-----------------------------------------------------------------------------

TypeOK ==
    /\ log \in [Chains -> Seq(Row)]
    /\ open \in [Sessions -> [Chains -> Seq(Row)]]
    /\ owner \in [Chains -> Sessions \cup {None}]
    /\ pc \in [Sessions -> {"idle", "lock", "read", "insert"}]
    /\ want \in [Sessions -> Chains \cup {None}]
    /\ head \in [Sessions -> ChainHead]
    /\ anchor \in [Chains -> ChainHead]

Init ==
    /\ log = [c \in Chains |-> <<>>]
    /\ open = [s \in Sessions |-> [c \in Chains |-> <<>>]]
    /\ owner = [c \in Chains |-> None]
    /\ pc = [s \in Sessions |-> "idle"]
    /\ want = [s \in Sessions |-> None]
    /\ head = [s \in Sessions |-> NoHead]
    /\ anchor = [c \in Chains |-> NoHead]

\* Mutant: the inserted row is not flushed, and the session does not autoflush.
SeenRows_NotFlushed(s, c) == IF s \in Sessions THEN log[c] ELSE <<>>

\* The chain as the session's transaction reads it (READ COMMITTED).
SeenRows(s, c) == log[c] \o open[s][c]

\* Bounds of the model.
MayCall(s, c) ==
    /\ Len(SeenRows(s, c)) < MaxLength
    /\ \A d \in Chains : Len(open[s][d]) < MaxPerTxn

\* append() is called.
Call(s, c) ==
    /\ pc[s] = "idle"
    /\ MayCall(s, c)
    /\ pc' = [pc EXCEPT ![s] = "lock"]
    /\ want' = [want EXCEPT ![s] = c]
    /\ UNCHANGED <<log, open, owner, head, anchor>>

\* Mutant: nothing serialises the writers.
LockChain_NoLock(s) ==
    /\ pc[s] = "lock"
    /\ pc' = [pc EXCEPT ![s] = "read"]
    /\ UNCHANGED <<log, open, owner, want, head, anchor>>

\* pg_advisory_xact_lock: waits for the transaction that holds the chain's
\* lock; one that already holds it goes on.
LockChain(s) ==
    /\ pc[s] = "lock"
    /\ owner[want[s]] \in {s, None}
    /\ owner' = [owner EXCEPT ![want[s]] = s]
    /\ pc' = [pc EXCEPT ![s] = "read"]
    /\ UNCHANGED <<log, open, want, head, anchor>>

\* The SELECT of the head.
ReadHead(s) ==
    /\ pc[s] = "read"
    /\ head' = [head EXCEPT ![s] = chain_head(SeenRows(s, want[s]))]
    /\ pc' = [pc EXCEPT ![s] = "insert"]
    /\ UNCHANGED <<log, open, owner, want, anchor>>

\* The session is between two calls.
Returned(s) ==
    /\ pc' = [pc EXCEPT ![s] = "idle"]
    /\ want' = [want EXCEPT ![s] = None]
    /\ head' = [head EXCEPT ![s] = NoHead]

\* The row is hashed, added and flushed, and append() returns.
InsertEntry(s, e) ==
    /\ pc[s] = "insert"
    /\ open' = [open EXCEPT ![s][want[s]] = Append(@, NewRow(want[s], head[s], e))]
    /\ Returned(s)
    /\ UNCHANGED <<log, owner, anchor>>

\* Mutant: a session-level lock, which outlives the transaction.
EndTxn_KeepsLocks(s) ==
    /\ open' = [open EXCEPT ![s] = [c \in Chains |-> <<>>]]
    /\ Returned(s)
    /\ UNCHANGED <<owner, anchor>>

\* The transaction ends, and its advisory locks with it.
EndTxn(s) ==
    /\ open' = [open EXCEPT ![s] = [c \in Chains |-> <<>>]]
    /\ owner' = [c \in Chains |-> IF owner[c] = s THEN None ELSE owner[c]]
    /\ Returned(s)
    /\ UNCHANGED anchor

\* The session has taken a lock or inserted a row.
InTxn(s) == \E c \in Chains : owner[c] = s \/ open[s][c] # <<>>

Commit(s) ==
    /\ pc[s] = "idle"
    /\ InTxn(s)
    /\ log' = [c \in Chains |-> log[c] \o open[s][c]]
    /\ EndTxn(s)

\* The caller failed (an entry that cannot be serialised too), or died.
Rollback(s) ==
    /\ InTxn(s) \/ pc[s] # "idle"
    /\ EndTxn(s)
    /\ UNCHANGED log

\* Sessions that wait for each other's chains in a circle.
Deadlocked(s) ==
    \E C \in SUBSET Sessions :
        /\ s \in C
        /\ \A t \in C : pc[t] = "lock" /\ owner[want[t]] \in C \ {t}

\* PostgreSQL's deadlock detector cancels one of them.
DeadlockVictim(s) ==
    /\ Deadlocked(s)
    /\ EndTxn(s)
    /\ UNCHANGED log

\* GET /anchors, kept outside the database.
Anchor(c) ==
    /\ anchor' = [anchor EXCEPT ![c] = chain_head(log[c])]
    /\ UNCHANGED <<log, open, owner, pc, want, head>>

Next ==
    \/ \E s \in Sessions :
         \/ \E c \in Chains : Call(s, c)
         \/ LockChain(s)
         \/ ReadHead(s)
         \/ \E e \in Entries : InsertEntry(s, e)
         \/ Commit(s)
         \/ Rollback(s)
         \/ DeadlockVictim(s)
    \/ \E c \in Chains : Anchor(c)

Spec == Init /\ [][Next]_vars

\* A session whose statement can run runs it and ends its transaction; locks
\* are granted in the order of PostgreSQL's queue, so none is passed over for
\* ever; the deadlock detector runs.  Nothing makes sessions call or fail.
Fairness ==
    \A s \in Sessions :
        /\ WF_vars(ReadHead(s))
        /\ WF_vars(\E e \in Entries : InsertEntry(s, e))
        /\ WF_vars(Commit(s))
        /\ SF_vars(LockChain(s))
        /\ WF_vars(DeadlockVictim(s))

FairSpec == Spec /\ Fairness

-----------------------------------------------------------------------------
(* What the audit chain promises.                                          *)

\* Every committed chain verifies, whatever transactions appended to it,
\* interleaved, were rolled back or were cancelled: no fork, no gap.
ChainsVerify == \A c \in Chains : verify_chain(c, log[c], NoHead) = Passed

\* The head a session read stays the head it must build on until its INSERT:
\* nobody commits to the chain in between, and it sees its own earlier rows.
HeadStaysCurrent ==
    \A s \in Sessions : pc[s] = "insert" =>
        head[s] = chain_head(log[want[s]] \o open[s][want[s]])

Without(rows, i) ==
    SubSeq(rows, 1, i - 1) \o SubSeq(rows, i + 1, Len(rows))
Altered(rows, i, e) == [rows EXCEPT ![i].entry = e]
Rehashed(c, rows, i) == [rows EXCEPT ![i].hash = compute_hash(c, rows[i])]

\* Damage to one row of a committed chain is reported, as the first failure,
\* with its kind and place: an altered row, an altered row whose hash was
\* recomputed (at the row after it), an unknown version, a deleted row that is
\* not the newest.
DamageIsLocated ==
    \A c \in Chains : \A i \in DOMAIN log[c] :
        LET rows == log[c] IN
        /\ \A e \in Entries \ {rows[i].entry} :
             /\ verify_chain(c, Altered(rows, i, e), NoHead)
                    = [kind |-> "HASH_MISMATCH", at |-> i]
             /\ i < Len(rows) =>
                    verify_chain(c, Rehashed(c, Altered(rows, i, e), i), NoHead)
                        = [kind |-> "PREV_HASH_MISMATCH", at |-> i + 1]
        /\ verify_chain(c, [rows EXCEPT ![i].version = 0], NoHead)
               = [kind |-> "UNSUPPORTED_VERSION", at |-> i]
        /\ i < Len(rows) =>
             verify_chain(c, Without(rows, i), NoHead)
                 = [kind |-> "SEQUENCE_GAP", at |-> i + 1]

\* An anchor exposes what the walk cannot see: the chain cut back below it, and
\* the anchored entry replaced by another with a hash of its own.
AnchorSeesCut ==
    \A c \in Chains :
        LET n == anchor[c].seq
            kept == SubSeq(log[c], 1, n)
        IN  n > 0 =>
              /\ \A m \in 0 .. n - 1 :
                   verify_chain(c, SubSeq(log[c], 1, m), anchor[c]).kind = "HEAD_MISMATCH"
              /\ \A e \in Entries \ {log[c][n].entry} :
                   verify_chain(c, Rehashed(c, Altered(kept, n, e), n), anchor[c]).kind
                       = "HEAD_MISMATCH"

\* Every call of append() gets the chain's lock or is told that it will not.
AppendsReturn == \A s \in Sessions : (pc[s] = "lock") ~> (pc[s] # "lock")
=============================================================================
