---------------------------- MODULE BankConfigs ----------------------------
(***************************************************************************)
(* The hot-swapped bank configurations and their record in the database.   *)
(*                                                                         *)
(* Every server process keeps a registry: the configurations it loaded from*)
(* the directory of YAML files, and the signature (names, times, sizes) of *)
(* the directory it loaded them from.  People edit the files at any time,  *)
(* between any two reads of a reload.  Runs and the reload endpoint bring  *)
(* the bank_configurations table in line with the registry of their        *)
(* process, in one transaction, and audit what they changed.               *)
(***************************************************************************)
EXTENDS Naturals, FiniteSets, Sequences

CONSTANTS
    Procs,         \* server processes
    Banks,         \* the banks, numbered in the order their files are read
    Versions,      \* valid contents of a bank's file
    FirstVersion,  \* the one every file starts with
    MaxEdits,      \* how often a file is edited
    MaxSyncs       \* how many transactions record the live configurations

ASSUME ConfigAssumption ==
    /\ IsFiniteSet(Banks) /\ Banks = 1 .. Cardinality(Banks)
    /\ MaxEdits \in Nat /\ MaxSyncs \in Nat
    /\ FirstVersion \in Versions
    /\ {"bad", "unset"} \cap Versions = {}

Unset == "unset"

VARIABLES
    dir,           \* the content of each bank's file, "bad" when it is invalid
    stamp,         \* the directory's signature: every edit changes it
    reg,           \* the registry of each process
    active,        \* committed rows with is_active: the versions of each bank
    known,         \* committed rows: the recorded versions of each bank
    lastChange,    \* the version the last committed CONFIG_CHANGE entry names
    lastMade,      \* the same, of the entries whose transaction set is_active
    sync,          \* the open sync of each process
    configLock,    \* the holder, if any, of the configuration chain's lock
    syncs          \* transactions begun so far

configVars == <<dir, stamp, reg, active, known, lastChange, lastMade, sync, configLock, syncs>>

Nowhere == [b \in Banks |-> Unset]

\* Of each bank: the row turned off, the row turned on, and the row that was on
\* already and is only stamped with loaded_by and loaded_at.
NoTxn == [at |-> "idle", bank |-> 1, want |-> <<>>, seen |-> Unset, found |-> "none",
          off |-> Nowhere, on |-> Nowhere, kept |-> Nowhere]

configTable == <<active, known, lastChange, lastMade>>
---------------------------------------------------------------------------
ConfigInit ==
    /\ dir = [b \in Banks |-> FirstVersion]
    /\ stamp = 0
    /\ reg = [p \in Procs |-> [at |-> "boot", loaded |-> Nowhere, signature |-> 0,
                               taken |-> 0, fresh |-> Nowhere, error |-> FALSE]]
    /\ active = [b \in Banks |-> {}]
    /\ known = [b \in Banks |-> {}]
    /\ lastChange = Nowhere
    /\ lastMade = Nowhere
    /\ sync = [p \in Procs |-> NoTxn]
    /\ configLock = {}
    /\ syncs = 0

\* A person saves a file.
Edit(b, v) ==
    /\ stamp < MaxEdits
    /\ dir[b] # v
    /\ dir' = [dir EXCEPT ![b] = v]
    /\ stamp' = stamp + 1
    /\ UNCHANGED <<reg, configTable, sync, configLock, syncs>>

\* __init__ loads the directory (an invalid file stops the process), then
\* takes its signature.
BootLoad(p) ==
    /\ reg[p].at = "boot"
    /\ \A b \in Banks : dir[b] # "bad"
    /\ reg' = [reg EXCEPT ![p].loaded = dir, ![p].at = "booted"]
    /\ UNCHANGED <<dir, stamp, configTable, sync, configLock, syncs>>

BootSign(p) ==
    /\ reg[p].at = "booted"
    /\ reg' = [reg EXCEPT ![p].signature = stamp, ![p].at = "up"]
    /\ UNCHANGED <<dir, stamp, configTable, sync, configLock, syncs>>

\* _reload_locked: nothing to do unless the signature differs.  Both the
\* periodic check of current() and the endpoint's reload() come here, one
\* thread of a process at a time.
TakeSignature(p) ==
    /\ reg[p].at = "up"
    /\ stamp # reg[p].signature
    /\ reg' = [reg EXCEPT ![p].taken = stamp, ![p].fresh = Nowhere, ![p].at = "read"]
    /\ UNCHANGED <<dir, stamp, configTable, sync, configLock, syncs>>

\* _load_directory reads the files one after the other and gives up at the
\* first invalid one.
ReadFile(p, b) ==
    /\ reg[p].at = "read"
    /\ reg[p].fresh[b] = Unset
    /\ \A c \in Banks : c < b => reg[p].fresh[c] # Unset
    /\ reg' = [reg EXCEPT
                ![p].fresh[b] = IF dir[b] = "bad" THEN Unset ELSE dir[b],
                ![p].at = IF dir[b] = "bad" THEN "failed" ELSE "read"]
    /\ UNCHANGED <<dir, stamp, configTable, sync, configLock, syncs>>

\* The swap, with the signature taken before the files were read.
Swap(p) ==
    /\ reg[p].at = "read"
    /\ \A b \in Banks : reg[p].fresh[b] # Unset
    /\ reg' = [reg EXCEPT ![p].loaded = reg[p].fresh, ![p].signature = reg[p].taken,
                          ![p].error = FALSE, ![p].at = "up"]
    /\ UNCHANGED <<dir, stamp, configTable, sync, configLock, syncs>>

\* The failure keeps the last good configuration and remembers the signature
\* the directory has now.
KeepPrevious(p) ==
    /\ reg[p].at = "failed"
    /\ reg' = [reg EXCEPT ![p].signature = stamp, ![p].error = TRUE, ![p].at = "up"]
    /\ UNCHANGED <<dir, stamp, configTable, sync, configLock, syncs>>
---------------------------------------------------------------------------
(* sync_bank_configurations, in the transaction of a run or of the reload  *)
(* endpoint: bank after bank, in order.                                    *)

BeginSync(p) ==
    /\ sync[p].at = "idle"
    /\ reg[p].loaded # Nowhere
    /\ syncs < MaxSyncs
    /\ syncs' = syncs + 1
    /\ sync' = [sync EXCEPT ![p] = [NoTxn EXCEPT !.at = "look", !.want = reg[p].loaded]]
    /\ UNCHANGED <<dir, stamp, reg, configTable, configLock>>

\* To the next bank, or to the rest of the run.
Onward(t) == IF t.bank = Cardinality(Banks)
             THEN [t EXCEPT !.at = "synced"]
             ELSE [t EXCEPT !.at = "look", !.bank = t.bank + 1]

\* A transaction with one more row written.
Deactivated(t) == [t EXCEPT !.off[t.bank] = t.seen, !.at = "find"]
Activated(t) == [t EXCEPT !.on[t.bank] = t.want[t.bank], !.at = "audit"]
Stamped(t) == [t EXCEPT !.kept[t.bank] = t.want[t.bank], !.at = "audit"]

\* Transaction q has written the bank's row of version v: it holds its lock.
Wrote(q, b, v) == v \in {sync[q].off[b], sync[q].on[b], sync[q].kept[b]}

\* The unique index over the bank's active rows has an entry whose fate q has
\* yet to decide: a row q turned on, or an active one q has written.
IndexFreeOf(q, b) == sync[q].on[b] = Unset /\ \A v \in active[b] : ~Wrote(q, b, v)

RowFree(p, b, v) == \A q \in Procs \ {p} : ~Wrote(q, b, v)
IndexFree(p, b) == \A q \in Procs \ {p} : IndexFreeOf(q, b)

\* The active row as committed.  Recorded already: nothing to do.
LookActive(p) ==
    /\ sync[p].at = "look"
    /\ LET b == sync[p].bank
           seen == IF active[b] = {} THEN Unset ELSE CHOOSE v \in active[b] : TRUE IN
        sync' = [sync EXCEPT ![p] =
                    IF seen = @.want[b] THEN Onward(@)
                    ELSE [@ EXCEPT !.seen = seen,
                                   !.at = IF seen = Unset THEN "find" ELSE "off"]]
    /\ UNCHANGED <<dir, stamp, reg, configTable, configLock, syncs>>

\* UPDATE ... SET is_active = false by id, whatever has become of the row: it
\* waits for that row's lock only.
DeactivateRow(p) ==
    /\ sync[p].at = "off"
    /\ RowFree(p, sync[p].bank, sync[p].seen)
    /\ sync' = [sync EXCEPT ![p] = Deactivated(@)]
    /\ UNCHANGED <<dir, stamp, reg, configTable, configLock, syncs>>

\* The wanted version's row as committed: absent, idle or active.
FindVersion(p) ==
    /\ sync[p].at = "find"
    /\ LET b == sync[p].bank
           v == sync[p].want[b] IN
        sync' = [sync EXCEPT ![p] =
                    [@ EXCEPT !.found = IF v \notin known[b] THEN "none"
                                        ELSE IF v \in active[b] THEN "active" ELSE "idle",
                              !.at = "write"]]
    /\ UNCHANGED <<dir, stamp, reg, configTable, configLock, syncs>>

\* End of a transaction without effect.
AbortSync(p) ==
    /\ sync' = [sync EXCEPT ![p] = NoTxn]
    /\ configLock' = configLock \ {p}
    /\ UNCHANGED <<dir, stamp, reg, configTable, syncs>>

\* A row found active: is_active = True is no change, so the UPDATE is of
\* loaded_by and loaded_at, waits for the row's lock and meets no index.
StampVersion(p) ==
    /\ sync[p].at = "write" /\ sync[p].found = "active"
    /\ LET b == sync[p].bank IN
        /\ RowFree(p, b, sync[p].want[b])
        /\ sync' = [sync EXCEPT ![p] = Stamped(@)]
    /\ UNCHANGED <<dir, stamp, reg, configTable, configLock, syncs>>

\* The rows that a unique constraint holds against the new one: another
\* active row of the bank, or a row with the same content.
Conflicts(p) ==
    LET t == sync[p]
        b == t.bank
    IN  \/ active[b] \ {t.off[b], t.want[b]} # {}
        \/ t.found = "none" /\ t.want[b] \in known[b]

SetActive_NoIndex(p) ==
    /\ sync[p].at = "write" /\ sync[p].found # "active"
    /\ sync' = [sync EXCEPT ![p] = Activated(@)]
    /\ UNCHANGED <<dir, stamp, reg, configTable, configLock, syncs>>

\* INSERT, or UPDATE with is_active = true of a row found idle: both wait for
\* the row and for the index, and fail if what they waited for is in the way.
SetActive(p) ==
    /\ sync[p].at = "write" /\ sync[p].found # "active"
    /\ RowFree(p, sync[p].bank, sync[p].want[sync[p].bank])
    /\ IndexFree(p, sync[p].bank)
    /\ IF Conflicts(p)
       THEN AbortSync(p)
       ELSE /\ sync' = [sync EXCEPT ![p] = Activated(@)]
            /\ UNCHANGED <<dir, stamp, reg, configTable, configLock, syncs>>

\* The CONFIG_CHANGE entry: the chain's lock, held to the commit.
AuditChange(p) ==
    /\ sync[p].at = "audit"
    /\ configLock \subseteq {p}
    /\ configLock' = {p}
    /\ sync' = [sync EXCEPT ![p] = Onward(@)]
    /\ UNCHANGED <<dir, stamp, reg, configTable, syncs>>

CommitSync(p) ==
    /\ sync[p].at = "synced"
    /\ LET t == sync[p]
           on(b) == {t.on[b]} \ {Unset}
           latest(b, old) == IF t.on[b] # Unset THEN t.on[b] ELSE old
       IN  /\ active' = [b \in Banks |-> (active[b] \ {t.off[b]}) \cup on(b)]
           /\ known' = [b \in Banks |-> known[b] \cup on(b)]
           /\ lastMade' = [b \in Banks |-> latest(b, lastMade[b])]
           /\ lastChange' = [b \in Banks |->
                   latest(b, IF t.kept[b] # Unset THEN t.kept[b] ELSE lastChange[b])]
    /\ sync' = [sync EXCEPT ![p] = NoTxn]
    /\ configLock' = configLock \ {p}
    /\ UNCHANGED <<dir, stamp, reg, syncs>>

\* The run fails, or its process dies.
FailSync(p) ==
    /\ sync[p].at # "idle"
    /\ AbortSync(p)

\* One has the chain and waits for a row that the other wrote before it asked
\* for the chain; the database cancels one of them.
SyncWaits(p, q) ==
    LET t == sync[p]
        b == t.bank
    IN  \/ t.at = "off" /\ Wrote(q, b, t.seen)
        \/ t.at = "write" /\ Wrote(q, b, t.want[b])
        \/ t.at = "write" /\ t.found # "active" /\ ~IndexFreeOf(q, b)
        \/ t.at = "audit" /\ configLock = {q}

CancelSync(p) ==
    /\ \E ring \in SUBSET Procs :
        /\ p \in ring
        /\ \A a \in ring : \E b \in ring \ {a} : SyncWaits(a, b)
    /\ AbortSync(p)
---------------------------------------------------------------------------
RegistryStep(p) ==
    BootLoad(p) \/ BootSign(p) \/ TakeSignature(p)
        \/ (\E b \in Banks : ReadFile(p, b)) \/ Swap(p) \/ KeepPrevious(p)

SyncStep(p) ==
    LookActive(p) \/ DeactivateRow(p) \/ FindVersion(p) \/ StampVersion(p) \/ SetActive(p)
        \/ AuditChange(p) \/ CommitSync(p) \/ CancelSync(p)

ConfigNext ==
    \/ \E b \in Banks, v \in Versions \cup {"bad"} : Edit(b, v)
    \/ \E p \in Procs : RegistryStep(p) \/ BeginSync(p) \/ SyncStep(p) \/ FailSync(p)

\* Requests keep arriving at every process, and each of them reads current().
ConfigFairness == \A p \in Procs : WF_configVars(RegistryStep(p)) /\ WF_configVars(SyncStep(p))

ConfigSpec == ConfigInit /\ [][ConfigNext]_configVars /\ ConfigFairness
---------------------------------------------------------------------------
(* Properties.                                                             *)

\* One version of a bank is active, from its first record on and never two,
\* though sync reads the active row without a lock and processes with different
\* files write at the same time; and it is the one that the last CONFIG_CHANGE
\* entry of a transaction that set is_active names.
ActiveIsMade ==
    \A b \in Banks : active[b] = {lastMade[b]} \ {Unset}

\* "This records [...] which configuration was live and when [...]  Every change
\* is also written to the audit chain" (store.py): the last CONFIG_CHANGE entry
\* of a bank names the version that is active.
ActiveIsAudited ==
    \A b \in Banks : active[b] = {lastChange[b]} \ {Unset}

\* "reloads them WITHOUT restarting the service when a file changes"
\* (registry.py): once the edits are over and the files are valid, every
\* process that started has them live.
EditsGoLive ==
    \A p \in Procs : <>[](\/ reg[p].at = "boot"
                          \/ \E b \in Banks : dir[b] = "bad"
                          \/ reg[p].loaded = dir)
=============================================================================
