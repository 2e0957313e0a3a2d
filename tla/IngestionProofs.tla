-------------------------- MODULE IngestionProofs --------------------------
(***************************************************************************)
(* Proofs about Ingestion, for any number of uploads, contents, verifiers  *)
(* and damaged files.  What one request has done so far fixes what its     *)
(* bytes, its open transaction and its alerts must be (UploadOK, VerifyOK);*)
(* requests meet only in the unique content hash (Distinct) and in the     *)
(* tables that grow: a step of one request keeps the others' parts because *)
(* rows and alerts are never taken back.                                   *)
(***************************************************************************)
EXTENDS Ingestion, SequenceTheorems, TLAPS

Requests == Uploads \cup Verifiers
Steps == {"idle", "saved", "checked", "blocked", "hash", "hashed", "marked"}
            \cup Open \cup Ended
Answers == {None, "refused", "conflict", "blocked", "created", "error", "unhandled"}
Fields == {"row", "seen", "found", "stat", "keys", "todo", "result", "locks", "marks"}

\* Every transaction has all its fields.
DraftShape ==
    /\ draft = [p \in Requests |-> draft[p]]
    /\ \A p \in Requests : DOMAIN draft[p] = Fields

IngestTypeOK ==
    /\ step \in [Requests -> Steps]
    /\ content \in [Uploads -> Contents \cup {NoContent}]
    /\ disk \in [Uploads -> {None, "ok", "altered"}]
    /\ file \subseteq Uploads
    /\ DOMAIN integrity = Uploads
    /\ DraftShape
    /\ answer \in [Uploads -> Answers]
    /\ damage \subseteq Uploads
    /\ before \in [Uploads -> SUBSET Uploads]

\* The upload has a row with its content's hash, committed or not.
Holds(u) == u \in file \/ draft[u].row

\* The unique content hash, over the rows of open transactions too.
Distinct ==
    \A u, o \in Uploads : Holds(u) /\ Holds(o) /\ content[u] = content[o] => u = o

\* What the alerts about a file must tell.
Findings(u) == FileKeys(u, content[u]) \cup SettlementKeys(u, before[u])

\* An upload's row, bytes and answer follow from where it is, and the tables
\* hold what it read of them.
UploadOK(u) ==
    /\ step[u] \in Open => draft[u].row = TRUE
    /\ step[u] \notin Open => draft[u].row = FALSE
    /\ u \in file => step[u] = "done"
    /\ answer[u] # None => step[u] = "done"
    /\ answer[u] = "conflict" => u \notin file
    /\ draft[u].seen \subseteq file
    /\ before[u] \subseteq file
    /\ step[u] \in Open \cup {"saved", "checked"} => disk[u] = "ok"
    /\ step[u] \in {"idle", "blocked"} => disk[u] = None
    /\ step[u] = "done" /\ u \notin file /\ answer[u] # "unhandled" => disk[u] = None
    /\ u \in file /\ u \notin damage => disk[u] = "ok"
    /\ u \in file => Findings(u) \subseteq alerts
    /\ step[u] \in {"alerted", "audited"} => Findings(u) \subseteq alerts \cup draft[u].keys
    /\ answer[u] = "blocked" => FormatKey(content[u], "blocked") \in alerts

BadResults == {"TAMPERED", "MISSING"}

\* A verification has an alert, its own or an earlier one's, for every bad
\* result it is about to mark or has marked.
VerifyOK(v) ==
    /\ \E S : draft[v].marks \in Seq(S)
    /\ \A m \in ToSet(draft[v].marks) :
         m[2] \in BadResults => TamperKey(m[1], m[2]) \in alerts \cup draft[v].keys
    /\ step[v] \in {"alerted", "audited"} /\ draft[v].result \in BadResults =>
         TamperKey(Head(draft[v].todo), draft[v].result) \in alerts \cup draft[v].keys

IntegrityAlerted ==
    \A u \in Uploads :
        integrity[u] \in BadResults => TamperKey(u, integrity[u]) \in alerts

IInv ==
    /\ IngestTypeOK
    /\ Distinct
    /\ \A u \in Uploads : UploadOK(u)
    /\ \A v \in Verifiers : VerifyOK(v)
    /\ IntegrityAlerted
    /\ stat.counted \subseteq file

-----------------------------------------------------------------------------
(* Steps of one request keep the others' parts.                            *)

\* What the settlement check of an upload found does not depend on uploads that
\* are not among the files it looked at.
LEMMA FindingsStay ==
    ASSUME NEW u \in Uploads, before'[u] = before[u], content'[u] = content[u],
           \A o \in before[u] : content'[o] = content[o]
    PROVE  Findings(u)' = Findings(u)
  BY DEF Findings, SettlementKeys, FileKeys, FormatKey, Normalised

\* An upload that a step leaves alone stays in order: rows and alerts are only
\* added, and no file's content changes.
LEMMA OtherUpload ==
    ASSUME NEW o \in Uploads, UploadOK(o),
           step'[o] = step[o], draft'[o] = draft[o], content'[o] = content[o],
           disk'[o] = disk[o], answer'[o] = answer[o], before'[o] = before[o],
           file \subseteq file', o \in file' => o \in file,
           alerts \subseteq alerts', damage \subseteq damage',
           \A f \in file : content'[f] = content[f]
    PROVE  UploadOK(o)'
  <1>1. Findings(o)' = Findings(o)
    BY FindingsStay DEF UploadOK
  <1> QED BY <1>1 DEF UploadOK

\* A verification that a step leaves alone stays in order.
LEMMA OtherVerify ==
    ASSUME NEW v \in Verifiers, VerifyOK(v), step'[v] = step[v], draft'[v] = draft[v],
           alerts \subseteq alerts'
    PROVE  VerifyOK(v)'
  BY DEF VerifyOK

\* A step of upload u: it is in order afterwards, and it has come to hold a
\* hash only if nobody else held it.
LEMMA UploadMoves ==
    ASSUME IInv, NEW u \in Uploads, IngestTypeOK',
           \A p \in Requests \ {u} : step'[p] = step[p] /\ draft'[p] = draft[p],
           \A o \in Uploads \ {u} :
              /\ content'[o] = content[o] /\ disk'[o] = disk[o]
              /\ answer'[o] = answer[o] /\ before'[o] = before[o],
           file \subseteq file', file' \subseteq file \cup {u},
           alerts \subseteq alerts', damage \subseteq damage',
           integrity' = integrity,
           u \in file => content'[u] = content[u],
           \/ ~ Holds(u)'
           \/ Holds(u) /\ content'[u] = content[u]
           \/ \A o \in Uploads \ {u} : Holds(o) => content[o] # content'[u],
           UploadOK(u)',
           stat'.counted \subseteq file'
    PROVE  IInv'
  <1>1. \A f \in file : content'[f] = content[f]
    BY DEF IInv, IngestTypeOK
  <1>2. \A o \in Uploads : UploadOK(o)'
    <2> SUFFICES ASSUME NEW o \in Uploads, o # u
                 PROVE  UploadOK(o)'
      OBVIOUS
    <2>1. UploadOK(o) /\ step'[o] = step[o] /\ draft'[o] = draft[o]
      BY DEF IInv, Requests
    <2>2. o \in file' => o \in file
      OBVIOUS
    <2> QED BY <1>1, <2>1, <2>2, OtherUpload
  <1>3. \A v \in Verifiers : VerifyOK(v)'
    <2> SUFFICES ASSUME NEW v \in Verifiers
                 PROVE  VerifyOK(v)'
      OBVIOUS
    <2>1. v # u
      BY IngestAssumption
    <2>2. VerifyOK(v) /\ step'[v] = step[v] /\ draft'[v] = draft[v]
      BY <2>1 DEF IInv, Requests
    <2> QED BY <2>2, OtherVerify
  <1>4. IntegrityAlerted'
    BY DEF IInv, IntegrityAlerted
  <1>5. Distinct'
    <2>1. \A o \in Uploads \ {u} : Holds(o)' => Holds(o)
      BY DEF Holds, Requests
    <2>2. Distinct
      BY DEF IInv
    <2> QED BY <2>1, <2>2 DEF Distinct
  <1> QED BY <1>2, <1>3, <1>4, <1>5 DEF IInv

\* A step of verification v, which writes no file, no bytes and no answer.
LEMMA VerifyMoves ==
    ASSUME IInv, NEW v \in Verifiers, IngestTypeOK',
           \A p \in Requests \ {v} : step'[p] = step[p] /\ draft'[p] = draft[p],
           UNCHANGED <<content, disk, file, stat, answer, damage, before>>,
           alerts \subseteq alerts',
           VerifyOK(v)', IntegrityAlerted'
    PROVE  IInv'
  <1>1. \A u \in Uploads : UploadOK(u)' /\ (Holds(u)' <=> Holds(u))
    <2> SUFFICES ASSUME NEW u \in Uploads
                 PROVE  UploadOK(u)' /\ (Holds(u)' <=> Holds(u))
      OBVIOUS
    <2>1. u # v
      BY IngestAssumption
    <2>2. UploadOK(u) /\ step'[u] = step[u] /\ draft'[u] = draft[u]
      BY <2>1 DEF IInv, Requests
    <2>3. /\ content'[u] = content[u] /\ disk'[u] = disk[u] /\ answer'[u] = answer[u]
          /\ before'[u] = before[u] /\ file' = file /\ damage' = damage
          /\ \A f \in file : content'[f] = content[f]
      OBVIOUS
    <2>4. UploadOK(u)'
      BY <2>2, <2>3, OtherUpload
    <2> QED BY <2>2, <2>3, <2>4 DEF Holds
  <1>2. \A w \in Verifiers : VerifyOK(w)'
    <2> SUFFICES ASSUME NEW w \in Verifiers, w # v
                 PROVE  VerifyOK(w)'
      OBVIOUS
    <2>1. VerifyOK(w) /\ step'[w] = step[w] /\ draft'[w] = draft[w]
      BY DEF IInv, Requests
    <2> QED BY <2>1, OtherVerify
  <1>3. Distinct'
    <2>1. Distinct
      BY DEF IInv
    <2> QED BY <1>1, <2>1 DEF Distinct
  <1> QED BY <1>1, <1>2, <1>3 DEF IInv

-----------------------------------------------------------------------------
(* The pieces of a step.                                                   *)

\* A request goes on to step s; the others stay where they are.
LEMMA GotoFacts ==
    ASSUME IngestTypeOK, NEW p \in Requests, NEW s \in Steps, Goto(p, s)
    PROVE  /\ step' \in [Requests -> Steps]
           /\ step'[p] = s
           /\ \A q \in Requests \ {p} : step'[q] = step[q]
  BY DEF IngestTypeOK, Goto

\* One request's transaction is written to.
LEMMA DraftFacts ==
    ASSUME DraftShape, NEW p \in Requests, NEW r, DOMAIN r = Fields,
           draft' = [draft EXCEPT ![p] = r]
    PROVE  /\ DraftShape'
           /\ draft'[p] = r
           /\ \A q \in Requests \ {p} : draft'[q] = draft[q]
  BY DEF DraftShape

\* The end of a transaction.
LEMMA ReleasedFacts ==
    ASSUME DraftShape, NEW p \in Requests, Released(p)
    PROVE  /\ DraftShape'
           /\ draft'[p] = NoDraft
           /\ \A q \in Requests \ {p} : draft'[q] = draft[q]
  <1>1. DOMAIN NoDraft = Fields
    BY DEF NoDraft, Fields
  <1> QED BY <1>1, DraftFacts DEF Released

\* An upload that has not been committed is not in the file table.
LEMMA NotYetFile ==
    ASSUME IInv, NEW u \in Uploads, step[u] # "done"
    PROVE  u \notin file /\ answer[u] = None
  BY DEF IInv, UploadOK

\* A discarded upload leaves no bytes, no row and no transaction.
LEMMA DiscardKeeps ==
    ASSUME IInv, NEW u \in Uploads, NEW a \in {"conflict", "error"},
           step[u] \in Open \cup {"checked"}, Discard(u, a)
    PROVE  IInv'
  <1>1. IngestTypeOK /\ u \in Requests /\ UploadOK(u) /\ DraftShape
    BY DEF IInv, Requests, IngestTypeOK
  <1>2. u \notin file
    BY NotYetFile DEF Open
  <1>3. /\ step' \in [Requests -> Steps] /\ step'[u] = "done"
        /\ \A p \in Requests \ {u} : step'[p] = step[p]
    BY <1>1, GotoFacts DEF Discard, Answer, Steps, Ended
  <1>4. /\ DraftShape' /\ draft'[u] = NoDraft
        /\ \A p \in Requests \ {u} : draft'[p] = draft[p]
    BY <1>1, ReleasedFacts DEF Discard
  <1>5. UNCHANGED <<content, file, integrity, alerts, stat, damage, before>>
    BY DEF Discard, tables
  <1>6. /\ disk' = [disk EXCEPT ![u] = None] /\ answer' = [answer EXCEPT ![u] = a]
    BY DEF Discard, Answer
  <1>7. IngestTypeOK'
    BY <1>1, <1>3, <1>4, <1>5, <1>6 DEF IngestTypeOK, Answers
  <1>8. disk'[u] = None /\ answer'[u] = a
    BY <1>1, <1>6 DEF IngestTypeOK
  <1>9. \A o \in Uploads \ {u} :
          /\ content'[o] = content[o] /\ disk'[o] = disk[o]
          /\ answer'[o] = answer[o] /\ before'[o] = before[o]
    BY <1>1, <1>5, <1>6 DEF IngestTypeOK
  <1>10. UploadOK(u)'
    BY <1>1, <1>2, <1>3, <1>4, <1>5, <1>8 DEF UploadOK, NoDraft, Open, None
  <1>11. ~ Holds(u)' /\ stat'.counted \subseteq file'
    BY <1>2, <1>4, <1>5 DEF Holds, NoDraft, IInv
  <1> QED BY <1>2, <1>3, <1>4, <1>5, <1>7, <1>9, <1>10, <1>11, UploadMoves

\* A step in which an upload of which no alert is due moves on with its own
\* transaction, holding the hash it held.
LEMMA DraftMoves ==
    ASSUME IInv, NEW u \in Uploads, step[u] \in Open, NEW s \in Open, Goto(u, s),
           NEW r, DOMAIN r = Fields, draft' = [draft EXCEPT ![u] = r],
           r.row = TRUE, r.seen \subseteq file,
           s \in {"alerted", "audited"} => Findings(u) \subseteq alerts \cup r.keys,
           UNCHANGED <<content, disk, file, integrity, alerts, stat, answer, damage, before>>
    PROVE  IInv'
  <1>1. IngestTypeOK /\ u \in Requests /\ UploadOK(u) /\ DraftShape
    BY DEF IInv, Requests, IngestTypeOK
  <1>2. u \notin file /\ answer[u] = None
    BY NotYetFile DEF Open
  <1>3. /\ step' \in [Requests -> Steps] /\ step'[u] = s
        /\ \A p \in Requests \ {u} : step'[p] = step[p]
    BY <1>1, GotoFacts DEF Steps
  <1>4. /\ DraftShape' /\ draft'[u] = r
        /\ \A p \in Requests \ {u} : draft'[p] = draft[p]
    BY <1>1, DraftFacts
  <1>5. IngestTypeOK'
    BY <1>1, <1>3, <1>4 DEF IngestTypeOK
  <1>6. Findings(u)' = Findings(u)
    BY FindingsStay
  <1>7. UploadOK(u)'
    BY <1>1, <1>2, <1>3, <1>4, <1>6 DEF UploadOK, Open
  <1>8. Holds(u) /\ stat'.counted \subseteq file'
    BY <1>1 DEF Holds, UploadOK, IInv
  <1>9. \A o \in Uploads \ {u} :
          /\ content'[o] = content[o] /\ disk'[o] = disk[o]
          /\ answer'[o] = answer[o] /\ before'[o] = before[o]
    OBVIOUS
  <1> QED BY <1>2, <1>3, <1>4, <1>5, <1>7, <1>8, <1>9, UploadMoves

-----------------------------------------------------------------------------
(* The upload's steps.                                                     *)

\* save_stream gives an upload its content and its bytes.
LEMMA SaveKeeps ==
    ASSUME IInv, NEW u \in Uploads, SaveStream(u)
    PROVE  IInv'
  <1>1. IngestTypeOK /\ u \in Requests /\ UploadOK(u)
    BY DEF IInv, Requests
  <1>2. u \notin file /\ answer[u] = None /\ step[u] = "idle"
    BY NotYetFile DEF SaveStream
  <1>3. /\ step' \in [Requests -> Steps] /\ step'[u] = "saved"
        /\ \A p \in Requests \ {u} : step'[p] = step[p]
    BY <1>1, GotoFacts DEF SaveStream, Steps
  <1>4. UNCHANGED <<draft, file, integrity, alerts, stat, answer, damage, before>>
    BY DEF SaveStream, tables
  <1>5. PICK c \in Contents : content' = [content EXCEPT ![u] = c]
    BY DEF SaveStream
  <1>6. disk' = [disk EXCEPT ![u] = "ok"]
    BY DEF SaveStream
  <1>7. IngestTypeOK'
    BY <1>1, <1>3, <1>4, <1>5, <1>6 DEF IngestTypeOK, DraftShape
  <1>8. disk'[u] = "ok"
    BY <1>1, <1>6 DEF IngestTypeOK
  <1>9. \A o \in Uploads \ {u} :
          /\ content'[o] = content[o] /\ disk'[o] = disk[o]
          /\ answer'[o] = answer[o] /\ before'[o] = before[o]
    BY <1>1, <1>4, <1>5, <1>6 DEF IngestTypeOK
  <1>10. UploadOK(u)'
    BY <1>1, <1>2, <1>3, <1>4, <1>8 DEF UploadOK, Open, None
  <1>11. ~ Holds(u)' /\ stat'.counted \subseteq file'
    BY <1>1, <1>2, <1>4 DEF Holds, UploadOK, IInv, Open
  <1> QED BY <1>2, <1>3, <1>4, <1>7, <1>9, <1>10, <1>11, UploadMoves

\* An upload that ends, or goes on before it has a row, without touching a
\* table: RefuseStream, CheckHash, Block.
LEMMA EarlyKeeps ==
    ASSUME IInv, NEW u \in Uploads, RefuseStream(u) \/ CheckHash(u) \/ Block(u)
    PROVE  IInv'
  <1>1. IngestTypeOK /\ u \in Requests /\ UploadOK(u) /\ DraftShape
    BY DEF IInv, Requests, IngestTypeOK
  <1>2. /\ u \notin file /\ answer[u] = None
        /\ step[u] \in {"idle", "saved", "checked"}
    BY NotYetFile DEF RefuseStream, CheckHash, Block
  <1>3. UNCHANGED <<content, file, integrity, alerts, stat, damage, before>>
    BY DEF RefuseStream, CheckHash, Block, tables
  <1>4. PICK s \in {"done", "checked", "blocked"}, d \in {None, "ok"},
             a \in {None, "refused", "conflict"} :
          /\ Goto(u, s)
          /\ disk' = [disk EXCEPT ![u] = d]
          /\ answer' = [answer EXCEPT ![u] = a]
          /\ s = "checked" <=> d = "ok"
          /\ a # None => s = "done"
    <2>1. CASE RefuseStream(u)
      <3>1. disk' = [disk EXCEPT ![u] = None]
        BY <1>1, <2>1 DEF RefuseStream, IngestTypeOK, UploadOK
      <3>2. Goto(u, "done") /\ answer' = [answer EXCEPT ![u] = "refused"]
        BY <2>1 DEF RefuseStream, Answer
      <3> QED BY <3>1, <3>2 DEF None
    <2>2. CASE CheckHash(u) /\ SameHash(u)
      <3>1. /\ disk' = [disk EXCEPT ![u] = None]
            /\ Goto(u, "done") /\ answer' = [answer EXCEPT ![u] = "conflict"]
        BY <2>2 DEF CheckHash, Answer
      <3> QED BY <3>1 DEF None
    <2>3. CASE CheckHash(u) /\ ~ SameHash(u)
      <3>1. disk[u] = "ok" /\ UNCHANGED <<disk, answer>> /\ Goto(u, "checked")
        BY <1>1, <2>3 DEF CheckHash, UploadOK
      <3>2. disk' = [disk EXCEPT ![u] = "ok"] /\ answer' = [answer EXCEPT ![u] = None]
        BY <1>1, <1>2, <3>1 DEF IngestTypeOK
      <3> QED BY <3>1, <3>2 DEF None
    <2>4. CASE Block(u)
      <3>1. /\ disk' = [disk EXCEPT ![u] = None]
            /\ Goto(u, "blocked") /\ UNCHANGED answer
        BY <2>4 DEF Block
      <3>2. answer' = [answer EXCEPT ![u] = None]
        BY <1>1, <1>2, <3>1 DEF IngestTypeOK
      <3> QED BY <3>1, <3>2 DEF None
    <2> QED BY <2>1, <2>2, <2>3, <2>4
  <1>5. /\ DraftShape'
        /\ draft'[u].row = FALSE /\ draft'[u].seen \subseteq file
        /\ \A p \in Requests \ {u} : draft'[p] = draft[p]
    <2>1. CASE Released(u)
      BY <1>1, <2>1, ReleasedFacts DEF NoDraft
    <2>2. CASE UNCHANGED draft
      BY <1>1, <1>2, <2>2 DEF UploadOK, Open, DraftShape
    <2> QED BY <2>1, <2>2 DEF RefuseStream, CheckHash, Block
  <1>6. /\ step' \in [Requests -> Steps] /\ step'[u] = s
        /\ \A p \in Requests \ {u} : step'[p] = step[p]
    BY <1>1, <1>4, GotoFacts DEF Steps, Ended
  <1>7. IngestTypeOK'
    BY <1>1, <1>3, <1>4, <1>5, <1>6 DEF IngestTypeOK, Answers
  <1>8. disk'[u] = d /\ answer'[u] = a
    BY <1>1, <1>4 DEF IngestTypeOK
  <1>9. \A o \in Uploads \ {u} :
          /\ content'[o] = content[o] /\ disk'[o] = disk[o]
          /\ answer'[o] = answer[o] /\ before'[o] = before[o]
    BY <1>1, <1>3, <1>4 DEF IngestTypeOK
  <1>10. UploadOK(u)'
    BY <1>1, <1>2, <1>3, <1>4, <1>5, <1>6, <1>8 DEF UploadOK, Open, None
  <1>11. ~ Holds(u)' /\ stat'.counted \subseteq file'
    BY <1>2, <1>3, <1>5 DEF Holds, IInv
  <1> QED BY <1>2, <1>3, <1>5, <1>6, <1>7, <1>9, <1>10, <1>11, UploadMoves

\* A blocked upload is answered once its alert is committed.
LEMMA BlockedKeeps ==
    ASSUME IInv, NEW u \in Uploads, AlertBlocked(u)
    PROVE  IInv'
  <1>1. IngestTypeOK /\ u \in Requests /\ UploadOK(u)
    BY DEF IInv, Requests
  <1>2. u \notin file /\ answer[u] = None /\ step[u] = "blocked"
    BY NotYetFile DEF AlertBlocked
  <1>3. /\ step' \in [Requests -> Steps] /\ step'[u] = "done"
        /\ \A p \in Requests \ {u} : step'[p] = step[p]
    BY <1>1, GotoFacts DEF AlertBlocked, Answer, Steps, Ended
  <1>4. UNCHANGED <<draft, content, disk, file, integrity, stat, damage, before>>
    BY DEF AlertBlocked
  <1>5. /\ alerts' = alerts \cup {FormatKey(content[u], "blocked")}
        /\ answer' = [answer EXCEPT ![u] = "blocked"]
    BY DEF AlertBlocked, Answer
  <1>6. IngestTypeOK'
    BY <1>1, <1>3, <1>4, <1>5 DEF IngestTypeOK, DraftShape, Answers
  <1>7. answer'[u] = "blocked"
    BY <1>1, <1>5 DEF IngestTypeOK
  <1>8. \A o \in Uploads \ {u} :
          /\ content'[o] = content[o] /\ disk'[o] = disk[o]
          /\ answer'[o] = answer[o] /\ before'[o] = before[o]
    BY <1>1, <1>4, <1>5 DEF IngestTypeOK
  <1>9. UploadOK(u)'
    BY <1>1, <1>2, <1>3, <1>4, <1>5, <1>7 DEF UploadOK, Open, None
  <1>10. ~ Holds(u)' /\ stat'.counted \subseteq file' /\ alerts \subseteq alerts'
    BY <1>1, <1>2, <1>4, <1>5 DEF Holds, UploadOK, IInv, Open
  <1>11. \A p \in Requests \ {u} : step'[p] = step[p] /\ draft'[p] = draft[p]
    BY <1>3, <1>4
  <1> QED BY <1>2, <1>4, <1>6, <1>8, <1>9, <1>10, <1>11, UploadMoves

\* The INSERT of the file row: nobody else holds the hash.
LEMMA CreateKeeps ==
    ASSUME IInv, NEW u \in Uploads, CreateFile(u)
    PROVE  IInv'
  <1>1. IngestTypeOK /\ u \in Requests /\ UploadOK(u) /\ DraftShape
    BY DEF IInv, Requests, IngestTypeOK
  <1>2. u \notin file /\ answer[u] = None /\ step[u] = "checked"
    BY NotYetFile DEF CreateFile
  <1>3. CASE SameHash(u)
    <2>1. Discard(u, "conflict")
      BY <1>3 DEF CreateFile
    <2> QED BY <1>2, <2>1, DiscardKeeps
  <1>4. CASE ~ SameHash(u)
    <2> DEFINE r == [draft[u] EXCEPT !.row = TRUE]
    <2>1. /\ draft' = [draft EXCEPT ![u] = r]
          /\ before' = [before EXCEPT ![u] = file]
          /\ Goto(u, "created")
          /\ UNCHANGED <<content, disk, file, integrity, alerts, stat, answer, damage>>
      BY <1>4 DEF CreateFile, tables
    <2>2. DOMAIN r = Fields /\ r.row = TRUE /\ r.seen = draft[u].seen
      BY <1>1 DEF DraftShape, Fields
    <2> HIDE DEF r
    <2>3. /\ DraftShape' /\ draft'[u] = r
          /\ \A p \in Requests \ {u} : draft'[p] = draft[p]
      BY <1>1, <2>1, <2>2, DraftFacts
    <2>4. /\ step' \in [Requests -> Steps] /\ step'[u] = "created"
          /\ \A p \in Requests \ {u} : step'[p] = step[p]
      BY <1>1, <2>1, GotoFacts DEF Steps, Open
    <2>5. IngestTypeOK'
      BY <1>1, <2>1, <2>3, <2>4 DEF IngestTypeOK
    <2>6. before'[u] = file
      BY <1>1, <2>1 DEF IngestTypeOK
    <2>7. UploadOK(u)'
      BY <1>1, <1>2, <2>1, <2>2, <2>3, <2>4, <2>6 DEF UploadOK, Open
    <2>8. \A o \in Uploads \ {u} : Holds(o) => content[o] # content'[u]
      <3>1. HashFree(u)
        BY DEF CreateFile
      <3> QED BY <1>4, <2>1, <3>1 DEF HashFree, SameHash, Holds
    <2>9. \A o \in Uploads \ {u} :
            /\ content'[o] = content[o] /\ disk'[o] = disk[o]
            /\ answer'[o] = answer[o] /\ before'[o] = before[o]
      BY <1>1, <2>1 DEF IngestTypeOK
    <2>10. stat'.counted \subseteq file'
      BY <2>1 DEF IInv
    <2> QED BY <1>2, <2>1, <2>3, <2>4, <2>5, <2>7, <2>8, <2>9, <2>10, UploadMoves
  <1> QED BY <1>3, <1>4

\* The transaction's later statements.
LEMMA TransactionKeeps ==
    ASSUME IInv, NEW u \in Uploads,
           LoadStats(u) \/ FindStats(u) \/ UpdateStats(u) \/ RaiseAlerts(u) \/ AuditIngest(u)
    PROVE  IInv'
  <1>1. IngestTypeOK /\ u \in Requests /\ UploadOK(u) /\ DraftShape
    BY DEF IInv, Requests, IngestTypeOK
  <1>2. step[u] \in Open
    BY DEF LoadStats, FindStats, UpdateStats, RaiseAlerts, AuditIngest, Open
  <1>3. draft[u].row = TRUE /\ draft[u].seen \subseteq file /\ DOMAIN draft[u] = Fields
    BY <1>1, <1>2 DEF UploadOK, DraftShape
  <1>4. CASE LoadStats(u)
    <2> DEFINE r == [draft[u] EXCEPT !.seen = stat.counted]
    <2>1. /\ draft' = [draft EXCEPT ![u] = r] /\ Goto(u, "based")
          /\ UNCHANGED <<content, disk, file, integrity, alerts, stat, answer, damage, before>>
      BY <1>4 DEF LoadStats, tables
    <2>2. DOMAIN r = Fields /\ r.row = TRUE /\ r.seen \subseteq file
      BY <1>3 DEF Fields, IInv
    <2>3. "based" \in Open /\ "based" \notin {"alerted", "audited"}
      BY DEF Open
    <2> HIDE DEF r
    <2> QED BY <1>2, <2>1, <2>2, <2>3, DraftMoves
  <1>5. CASE FindStats(u)
    <2> DEFINE r == [draft[u] EXCEPT !.found = stat.exists]
    <2>1. /\ draft' = [draft EXCEPT ![u] = r] /\ Goto(u, "found")
          /\ UNCHANGED <<content, disk, file, integrity, alerts, stat, answer, damage, before>>
      BY <1>5 DEF FindStats, tables
    <2>2. DOMAIN r = Fields /\ r.row = TRUE /\ r.seen \subseteq file
      BY <1>3 DEF Fields
    <2>3. "found" \in Open /\ "found" \notin {"alerted", "audited"}
      BY DEF Open
    <2> HIDE DEF r
    <2> QED BY <1>2, <2>1, <2>2, <2>3, DraftMoves
  <1>6. CASE UpdateStats(u)
    <2>1. CASE Discard(u, "conflict")
      BY <1>2, <2>1, DiscardKeeps
    <2>2. CASE ~ Discard(u, "conflict")
      <3> DEFINE r == [draft[u] EXCEPT !.stat = Counts(content[u])]
      <3>1. /\ draft' = [draft EXCEPT ![u] = r] /\ Goto(u, "counted")
            /\ UNCHANGED <<content, disk, file, integrity, alerts, stat, answer, damage, before>>
        BY <1>6, <2>2 DEF UpdateStats, tables
      <3>2. DOMAIN r = Fields /\ r.row = TRUE /\ r.seen \subseteq file
        BY <1>3 DEF Fields
      <3>3. "counted" \in Open /\ "counted" \notin {"alerted", "audited"}
        BY DEF Open
      <3> HIDE DEF r
      <3> QED BY <1>2, <3>1, <3>2, <3>3, DraftMoves
    <2> QED BY <2>1, <2>2
  <1>7. CASE RaiseAlerts(u)
    <2> DEFINE keys == FileKeys(u, content[u]) \cup SettlementKeys(u, file)
               r == [draft[u] EXCEPT !.keys = keys \ alerts]
    <2>1. /\ draft' = [draft EXCEPT ![u] = r] /\ Goto(u, "alerted")
          /\ UNCHANGED <<content, disk, file, integrity, alerts, stat, answer, damage, before>>
      BY <1>7 DEF RaiseAlerts, tables
    <2>2. Findings(u) \subseteq keys
      BY <1>1 DEF Findings, SettlementKeys, UploadOK
    <2> HIDE DEF keys
    <2>3. /\ DOMAIN r = Fields /\ r.row = TRUE /\ r.seen \subseteq file
          /\ r.keys = keys \ alerts
      BY <1>3 DEF Fields
    <2> HIDE DEF r
    <2>4. "alerted" \in Open /\ Findings(u) \subseteq alerts \cup r.keys
      BY <2>2, <2>3 DEF Open
    <2> QED BY <1>2, <2>1, <2>3, <2>4, DraftMoves
  <1>8. CASE AuditIngest(u)
    <2> DEFINE r == draft[u]
    <2>1. /\ Goto(u, "audited")
          /\ UNCHANGED <<draft, content, disk, file, integrity, alerts, stat, answer, damage,
                         before>>
      BY <1>8 DEF AuditIngest, tables
    <2>2. draft' = [draft EXCEPT ![u] = r]
      BY <1>1, <2>1 DEF DraftShape
    <2>3. "audited" \in Open /\ Findings(u) \subseteq alerts \cup r.keys
      BY <1>1, <1>8 DEF AuditIngest, UploadOK, Open
    <2>4. DOMAIN r = Fields /\ r.row = TRUE /\ r.seen \subseteq file
      BY <1>3
    <2> HIDE DEF r
    <2> QED BY <1>2, <2>1, <2>2, <2>3, <2>4, DraftMoves
  <1> QED BY <1>4, <1>5, <1>6, <1>7, <1>8

\* COMMIT, answered or not.
LEMMA CommitKeeps ==
    ASSUME IInv, NEW u \in Uploads, CommitUpload(u) \/ CommitUnanswered(u)
    PROVE  IInv'
  <1>1. IngestTypeOK /\ u \in Requests /\ UploadOK(u) /\ DraftShape
    BY DEF IInv, Requests, IngestTypeOK
  <1>2. u \notin file /\ step[u] = "audited" /\ Publish(u)
    BY NotYetFile DEF CommitUpload, CommitUnanswered, Publish
  <1>3. disk[u] = "ok" /\ draft[u].row = TRUE
    BY <1>1, <1>2 DEF UploadOK, Open
  <1>4. PICK a \in {"created", "error"}, d \in {None, "ok"} :
          /\ Answer(u, a)
          /\ disk' = [disk EXCEPT ![u] = d]
          /\ damage \subseteq damage' /\ damage' \subseteq damage \cup {u}
          /\ d = None => u \in damage'
    <2>1. CASE CommitUpload(u)
      <3>1. Answer(u, "created") /\ UNCHANGED <<disk, damage>>
        BY <2>1 DEF CommitUpload
      <3>2. disk' = [disk EXCEPT ![u] = "ok"]
        BY <1>1, <1>3, <3>1 DEF IngestTypeOK
      <3> QED BY <3>1, <3>2 DEF None
    <2>2. CASE CommitUnanswered(u)
      <3>1. /\ Answer(u, "error") /\ disk' = [disk EXCEPT ![u] = None]
            /\ damage' = damage \cup {u}
        BY <2>2 DEF CommitUnanswered
      <3> QED BY <3>1
    <2> QED BY <2>1, <2>2
  <1>5. /\ step' \in [Requests -> Steps] /\ step'[u] = "done"
        /\ \A p \in Requests \ {u} : step'[p] = step[p]
    BY <1>1, <1>4, GotoFacts DEF Answer, Steps, Ended
  <1>6. /\ DraftShape' /\ draft'[u] = NoDraft
        /\ \A p \in Requests \ {u} : draft'[p] = draft[p]
    BY <1>1, <1>2, ReleasedFacts DEF Publish
  <1>7. /\ file' = file \cup {u} /\ alerts' = alerts \cup draft[u].keys
        /\ UNCHANGED <<content, integrity, before>>
        /\ answer' = [answer EXCEPT ![u] = a]
    BY <1>2, <1>4 DEF Publish, Answer
  <1>8. IngestTypeOK'
    BY <1>1, <1>4, <1>5, <1>6, <1>7 DEF IngestTypeOK, Answers
  <1>9. answer'[u] = a /\ disk'[u] = d
    BY <1>1, <1>4, <1>7 DEF IngestTypeOK
  <1>10. \A o \in Uploads \ {u} :
          /\ content'[o] = content[o] /\ disk'[o] = disk[o]
          /\ answer'[o] = answer[o] /\ before'[o] = before[o]
    BY <1>1, <1>4, <1>7 DEF IngestTypeOK
  <1>11. Findings(u)' = Findings(u) /\ Findings(u) \subseteq alerts'
    <2>1. Findings(u)' = Findings(u)
      BY <1>7, FindingsStay
    <2> QED BY <1>1, <1>2, <1>7, <2>1 DEF UploadOK
  <1>12. UploadOK(u)'
    BY <1>1, <1>4, <1>5, <1>6, <1>7, <1>9, <1>11 DEF UploadOK, NoDraft, Open, None
  <1>13. stat'.counted \subseteq file'
    BY <1>1, <1>2, <1>7 DEF Publish, UploadOK, IInv
  <1>14. Holds(u) /\ content'[u] = content[u] /\ file \subseteq file' /\ alerts \subseteq alerts'
    BY <1>3, <1>7 DEF Holds
  <1>15. \A p \in Requests \ {u} : step'[p] = step[p] /\ draft'[p] = draft[p]
    BY <1>5, <1>6
  <1>16. file' \subseteq file \cup {u} /\ integrity' = integrity
    BY <1>7
  <1> QED BY <1>4, <1>8, <1>10, <1>12, <1>13, <1>14, <1>15, <1>16, UploadMoves

\* A dead process leaves its bytes and nothing else.
LEMMA CrashKeeps ==
    ASSUME IInv, NEW u \in Uploads, CrashUpload(u)
    PROVE  IInv'
  <1>1. IngestTypeOK /\ u \in Requests /\ UploadOK(u) /\ DraftShape
    BY DEF IInv, Requests, IngestTypeOK
  <1>2. u \notin file /\ answer[u] = None
    <2>1. step[u] # "done"
      BY DEF CrashUpload, Open
    <2> QED BY <2>1, NotYetFile
  <1>3. /\ step' \in [Requests -> Steps] /\ step'[u] = "crashed"
        /\ \A p \in Requests \ {u} : step'[p] = step[p]
    BY <1>1, GotoFacts DEF CrashUpload, Steps, Ended
  <1>4. /\ DraftShape' /\ draft'[u] = NoDraft
        /\ \A p \in Requests \ {u} : draft'[p] = draft[p]
    BY <1>1, ReleasedFacts DEF CrashUpload
  <1>5. UNCHANGED <<content, disk, file, integrity, alerts, stat, answer, damage, before>>
    BY DEF CrashUpload, tables
  <1>6. IngestTypeOK'
    BY <1>1, <1>3, <1>4, <1>5 DEF IngestTypeOK
  <1>7. UploadOK(u)'
    BY <1>1, <1>2, <1>3, <1>4, <1>5 DEF UploadOK, NoDraft, Open, None
  <1>8. ~ Holds(u)' /\ stat'.counted \subseteq file'
    BY <1>2, <1>4, <1>5 DEF Holds, NoDraft, IInv
  <1>9. \A o \in Uploads \ {u} :
          /\ content'[o] = content[o] /\ disk'[o] = disk[o]
          /\ answer'[o] = answer[o] /\ before'[o] = before[o]
    BY <1>5
  <1> QED BY <1>2, <1>3, <1>4, <1>5, <1>6, <1>7, <1>8, <1>9, UploadMoves

\* An error that nobody handles rolls back and leaves the bytes.
LEMMA UnhandledKeeps ==
    ASSUME IInv, NEW u \in Uploads, FailUnhandled(u)
    PROVE  IInv'
  <1>1. IngestTypeOK /\ u \in Requests /\ UploadOK(u) /\ DraftShape
    BY DEF IInv, Requests, IngestTypeOK
  <1>2. u \notin file
    BY NotYetFile DEF FailUnhandled, Open
  <1>3. /\ step' \in [Requests -> Steps] /\ step'[u] = "done"
        /\ \A p \in Requests \ {u} : step'[p] = step[p]
    BY <1>1, GotoFacts DEF FailUnhandled, Answer, Steps, Ended
  <1>4. /\ DraftShape' /\ draft'[u] = NoDraft
        /\ \A p \in Requests \ {u} : draft'[p] = draft[p]
    BY <1>1, ReleasedFacts DEF FailUnhandled
  <1>5. /\ UNCHANGED <<content, disk, file, integrity, alerts, stat, damage, before>>
        /\ answer' = [answer EXCEPT ![u] = "unhandled"]
    BY DEF FailUnhandled, Answer, tables
  <1>6. IngestTypeOK'
    BY <1>1, <1>3, <1>4, <1>5 DEF IngestTypeOK, Answers
  <1>7. answer'[u] = "unhandled"
    BY <1>1, <1>5 DEF IngestTypeOK
  <1>8. UploadOK(u)'
    BY <1>1, <1>2, <1>3, <1>4, <1>5, <1>7 DEF UploadOK, NoDraft, Open, None
  <1>9. ~ Holds(u)' /\ stat'.counted \subseteq file'
    BY <1>2, <1>4, <1>5 DEF Holds, NoDraft, IInv
  <1>10. \A o \in Uploads \ {u} :
          /\ content'[o] = content[o] /\ disk'[o] = disk[o]
          /\ answer'[o] = answer[o] /\ before'[o] = before[o]
    BY <1>1, <1>5 DEF IngestTypeOK
  <1> QED BY <1>2, <1>3, <1>4, <1>5, <1>6, <1>8, <1>9, <1>10, UploadMoves

\* Damage from outside touches a committed file's bytes.
LEMMA DamageKeeps ==
    ASSUME IInv, NEW u \in Uploads, NEW bytes \in {"altered", None}, Damage(u, bytes)
    PROVE  IInv'
  <1>1. IngestTypeOK /\ u \in Requests /\ UploadOK(u)
    BY DEF IInv, Requests
  <1>2. /\ u \in file /\ disk' = [disk EXCEPT ![u] = bytes] /\ damage' = damage \cup {u}
        /\ UNCHANGED <<step, content, file, integrity, alerts, stat, draft, answer, before>>
    BY DEF Damage, tables
  <1>3. IngestTypeOK'
    BY <1>1, <1>2 DEF IngestTypeOK, DraftShape
  <1>4. Findings(u)' = Findings(u)
    BY <1>2, FindingsStay
  <1>5. UploadOK(u)'
    BY <1>1, <1>2, <1>4 DEF UploadOK, Open
  <1>6. \A o \in Uploads \ {u} :
          /\ content'[o] = content[o] /\ disk'[o] = disk[o]
          /\ answer'[o] = answer[o] /\ before'[o] = before[o]
    BY <1>1, <1>2 DEF IngestTypeOK
  <1>7. Holds(u) /\ stat'.counted \subseteq file'
    BY <1>2 DEF Holds, IInv
  <1>8. \A p \in Requests \ {u} : step'[p] = step[p] /\ draft'[p] = draft[p]
    BY <1>2
  <1> QED BY <1>2, <1>3, <1>5, <1>6, <1>7, <1>8, UploadMoves

-----------------------------------------------------------------------------
(* The verification's steps.                                               *)

\* A verification that writes no table.
LEMMA VerifyWrites ==
    ASSUME IInv, NEW v \in Verifiers, NEW s \in Steps, Goto(v, s), DraftShape',
           \A p \in Requests \ {v} : draft'[p] = draft[p],
           UNCHANGED <<content, disk, file, integrity, alerts, stat, answer, damage, before>>,
           VerifyOK(v)'
    PROVE  IInv'
  <1>1. IngestTypeOK /\ v \in Requests
    BY DEF IInv, Requests
  <1>2. /\ step' \in [Requests -> Steps]
        /\ \A p \in Requests \ {v} : step'[p] = step[p]
    BY <1>1, GotoFacts
  <1>3. IngestTypeOK'
    BY <1>1, <1>2 DEF IngestTypeOK
  <1>4. IntegrityAlerted'
    BY DEF IInv, IntegrityAlerted
  <1>5. \A p \in Requests \ {v} : step'[p] = step[p] /\ draft'[p] = draft[p]
    BY <1>2
  <1> QED BY <1>3, <1>4, <1>5, VerifyMoves

\* verify_file notes its file and locks its row.
LEMMA LockedFile ==
    ASSUME DraftShape, NEW v \in Requests, NEW u, NEW d,
           d = [draft EXCEPT ![v].todo = <<u>>], draft' = [d EXCEPT ![v].locks = {u}]
    PROVE  /\ DraftShape'
           /\ \A p \in Requests \ {v} : draft'[p] = draft[p]
           /\ draft'[v].marks = draft[v].marks /\ draft'[v].keys = draft[v].keys
  <1>1. /\ d = [p \in Requests |-> d[p]]
        /\ \A p \in Requests : DOMAIN d[p] = Fields
        /\ \A p \in Requests \ {v} : d[p] = draft[p]
        /\ d[v].marks = draft[v].marks /\ d[v].keys = draft[v].keys
    BY DEF DraftShape, Fields
  <1> QED BY <1>1 DEF DraftShape, Fields

\* A verification begins with nothing marked.
LEMMA BeginKeeps ==
    ASSUME IInv, NEW v \in Verifiers,
           VerifyAll(v) \/ \E u \in Uploads : VerifyFile(v, u)
    PROVE  IInv'
  <1>1. IngestTypeOK /\ v \in Requests /\ VerifyOK(v) /\ DraftShape
    BY DEF IInv, Requests, IngestTypeOK
  <1>2. /\ Goto(v, "hash") /\ "hash" \in Steps
        /\ UNCHANGED <<content, disk, file, integrity, alerts, stat, answer, damage, before>>
    BY DEF VerifyAll, VerifyFile, tables, Steps
  <1>3. /\ DraftShape' /\ \A p \in Requests \ {v} : draft'[p] = draft[p]
        /\ draft'[v].marks = draft[v].marks /\ draft'[v].keys = draft[v].keys
    <2>1. CASE VerifyAll(v)
      <3> DEFINE r == [draft[v] EXCEPT !.todo = SetToSortSeq(file, <)]
      <3>1. draft' = [draft EXCEPT ![v] = r]
        BY <2>1 DEF VerifyAll
      <3>2. DOMAIN r = Fields /\ r.marks = draft[v].marks /\ r.keys = draft[v].keys
        BY <1>1 DEF DraftShape, Fields
      <3> HIDE DEF r
      <3> QED BY <1>1, <3>1, <3>2, DraftFacts
    <2>2. ASSUME NEW u \in Uploads, VerifyFile(v, u)
          PROVE  /\ DraftShape' /\ \A p \in Requests \ {v} : draft'[p] = draft[p]
                 /\ draft'[v].marks = draft[v].marks /\ draft'[v].keys = draft[v].keys
      <3> DEFINE d == [draft EXCEPT ![v].todo = <<u>>]
      <3>1. draft' = [d EXCEPT ![v].locks = {u}]
        BY <2>2 DEF VerifyFile
      <3>2. d = [draft EXCEPT ![v].todo = <<u>>]
        OBVIOUS
      <3> HIDE DEF d
      <3> QED BY <1>1, <3>1, <3>2, LockedFile
    <2> QED BY <2>1, <2>2
  <1>4. step'[v] = "hash"
    BY <1>1, <1>2, GotoFacts
  <1>5. VerifyOK(v)'
    BY <1>1, <1>2, <1>3, <1>4 DEF VerifyOK
  <1> QED BY <1>2, <1>3, <1>5, VerifyWrites

\* The hash is taken, the alert raised, the chain locked.
LEMMA HashKeeps ==
    ASSUME IInv, NEW v \in Verifiers, HashFile(v) \/ AlertTampered(v) \/ AuditVerify(v)
    PROVE  IInv'
  <1>1. IngestTypeOK /\ v \in Requests /\ VerifyOK(v) /\ DraftShape
    BY DEF IInv, Requests, IngestTypeOK
  <1>2. CASE HashFile(v)
    <2>1. PICK x : draft' = [draft EXCEPT ![v].result = x]
      BY <1>2 DEF HashFile
    <2>2. /\ Goto(v, "hashed") /\ "hashed" \in Steps
          /\ UNCHANGED <<content, disk, file, integrity, alerts, stat, answer, damage, before>>
      BY <1>2 DEF HashFile, tables, Steps
    <2> DEFINE r == [draft[v] EXCEPT !.result = x]
    <2>3. DOMAIN r = Fields /\ r.marks = draft[v].marks /\ r.keys = draft[v].keys
      BY <1>1 DEF DraftShape, Fields
    <2>4. draft' = [draft EXCEPT ![v] = r]
      BY <2>1
    <2> HIDE DEF r
    <2>5. /\ DraftShape' /\ draft'[v] = r
          /\ \A p \in Requests \ {v} : draft'[p] = draft[p]
      BY <1>1, <2>3, <2>4, DraftFacts
    <2>6. step'[v] = "hashed"
      BY <1>1, <2>2, GotoFacts
    <2>7. VerifyOK(v)'
      BY <1>1, <2>2, <2>3, <2>5, <2>6 DEF VerifyOK
    <2> QED BY <2>2, <2>5, <2>7, VerifyWrites
  <1>3. CASE AlertTampered(v)
    <2> DEFINE key == TamperKey(Head(draft[v].todo), draft[v].result)
    <2>1. /\ Goto(v, "alerted") /\ "alerted" \in Steps
          /\ UNCHANGED <<content, disk, file, integrity, alerts, stat, answer, damage, before>>
      BY <1>3 DEF AlertTampered, tables, Steps, Open
    <2>2. step'[v] = "alerted"
      BY <1>1, <2>1, GotoFacts
    <2>3. CASE draft[v].result = "OK"
      <3>1. UNCHANGED draft
        BY <1>3, <2>3 DEF AlertTampered
      <3>2. VerifyOK(v)'
        BY <1>1, <2>1, <2>3, <3>1 DEF VerifyOK, BadResults
      <3>3. DraftShape' /\ \A p \in Requests \ {v} : draft'[p] = draft[p]
        BY <1>1, <3>1 DEF DraftShape
      <3> QED BY <2>1, <3>2, <3>3, VerifyWrites
    <2>4. CASE draft[v].result # "OK"
      <3> DEFINE keys == draft[v].keys \cup ({key} \ alerts)
                 r == [draft[v] EXCEPT !.keys = keys]
      <3>1. draft' = [draft EXCEPT ![v] = r]
        BY <1>3, <2>4 DEF AlertTampered
      <3>2. /\ draft[v].keys \subseteq keys /\ key \in alerts \cup keys
        OBVIOUS
      <3> HIDE DEF keys
      <3>3. /\ DOMAIN r = Fields /\ r.marks = draft[v].marks /\ r.keys = keys
            /\ r.todo = draft[v].todo /\ r.result = draft[v].result
        BY <1>1 DEF DraftShape, Fields
      <3> HIDE DEF r
      <3>4. /\ DraftShape' /\ draft'[v] = r
            /\ \A p \in Requests \ {v} : draft'[p] = draft[p]
        BY <1>1, <3>1, <3>3, DraftFacts
      <3>5. VerifyOK(v)'
        BY <1>1, <2>1, <3>2, <3>3, <3>4 DEF VerifyOK
      <3> QED BY <2>1, <3>4, <3>5, VerifyWrites
    <2> QED BY <2>3, <2>4
  <1>4. CASE AuditVerify(v)
    <2>1. /\ Goto(v, "audited") /\ "audited" \in Steps /\ step[v] = "alerted"
          /\ UNCHANGED <<draft, content, disk, file, integrity, alerts, stat, answer, damage,
                         before>>
      BY <1>4 DEF AuditVerify, tables, Steps, Open
    <2>2. DraftShape' /\ \A p \in Requests \ {v} : draft'[p] = draft[p]
      BY <1>1, <2>1 DEF DraftShape
    <2>3. VerifyOK(v)'
      BY <1>1, <2>1 DEF VerifyOK
    <2> QED BY <2>1, <2>2, <2>3, VerifyWrites
  <1> QED BY <1>2, <1>3, <1>4

\* Appending to a sequence of marks adds one mark.
LEMMA AppendMark ==
    ASSUME NEW S, NEW s \in Seq(S), NEW x
    PROVE  /\ Append(s, x) \in Seq(S \cup {x})
           /\ ToSet(Append(s, x)) = ToSet(s) \cup {x}
  <1>1. s \in Seq(S \cup {x})
    OBVIOUS
  <1> DEFINE t == Append(s, x)
  <1>2. /\ t \in Seq(S \cup {x})
        /\ DOMAIN s = 1 .. Len(s) /\ DOMAIN t = 1 .. Len(s) + 1 /\ Len(s) \in Nat
        /\ \A i \in 1 .. Len(s) : t[i] = s[i]
        /\ t[Len(s) + 1] = x
    BY <1>1, AppendProperties, LenProperties
  <1> HIDE DEF t
  <1>3. \A y : y \in ToSet(t) <=> y \in ToSet(s) \cup {x}
    BY <1>2 DEF ToSet
  <1> QED BY <1>2, <1>3 DEF t

\* The result is marked, behind its alert.
LEMMA MarkKeeps ==
    ASSUME IInv, NEW v \in Verifiers, MarkFile(v)
    PROVE  IInv'
  <1> DEFINE u == Head(draft[v].todo)
             mark == <<u, draft[v].result>>
             r == [draft[v] EXCEPT !.locks = @ \cup {u}]
             s == [r EXCEPT !.marks = Append(@, mark)]
             t == [s EXCEPT !.todo = Tail(@)]
             d == [draft EXCEPT ![v].locks = @ \cup {u}]
             e == [d EXCEPT ![v].marks = Append(@, mark)]
  <1>1. IngestTypeOK /\ v \in Requests /\ VerifyOK(v) /\ DraftShape
    BY DEF IInv, Requests, IngestTypeOK
  <1>2. draft' = [e EXCEPT ![v].todo = Tail(@)]
    BY DEF MarkFile
  <1>3. step[v] = "audited"
        /\ UNCHANGED <<content, disk, file, integrity, alerts, stat, answer, damage, before>>
    BY DEF MarkFile, tables
  <1>4. PICK where \in {"marked", "hash"} : Goto(v, where)
    BY DEF MarkFile
  <1>5. step'[v] = where /\ where \in Steps
    <2>1. where \in Steps
      BY DEF Steps
    <2> QED BY <1>1, <1>4, <2>1, GotoFacts
  <1>6. /\ DOMAIN t = Fields /\ t.keys = draft[v].keys
        /\ t.marks = Append(draft[v].marks, mark)
    <2> HIDE DEF u, mark
    <2>1. /\ DOMAIN r = Fields /\ r.keys = draft[v].keys /\ r.marks = draft[v].marks
      BY <1>1 DEF DraftShape, Fields
    <2> HIDE DEF r
    <2>2. DOMAIN s = Fields /\ s.keys = draft[v].keys /\ s.marks = Append(draft[v].marks, mark)
      BY <2>1 DEF Fields
    <2> HIDE DEF s
    <2> QED BY <2>2 DEF Fields
  <1>7. draft' = [draft EXCEPT ![v] = t]
    <2>1. d = [draft EXCEPT ![v] = r] /\ draft = [p \in Requests |-> draft[p]]
      BY <1>1 DEF DraftShape
    <2> HIDE DEF r
    <2>2. d[v] = r
      BY <1>1, <2>1
    <2>3. e = [d EXCEPT ![v] = s]
      BY <2>2
    <2> HIDE DEF s, d
    <2>4. e[v] = s /\ e = [draft EXCEPT ![v] = s]
      BY <1>1, <2>1, <2>3
    <2>5. draft' = [e EXCEPT ![v] = t]
      BY <1>2, <2>4
    <2> HIDE DEF t, e
    <2> QED BY <1>1, <2>1, <2>4, <2>5
  <1> HIDE DEF t, e, d, s, r
  <1>8. /\ DraftShape' /\ draft'[v] = t
        /\ \A p \in Requests \ {v} : draft'[p] = draft[p]
    BY <1>1, <1>6, <1>7, DraftFacts
  <1>9. VerifyOK(v)'
    <2>1. PICK S : draft[v].marks \in Seq(S)
      BY <1>1 DEF VerifyOK
    <2>3. mark[1] = u /\ mark[2] = draft[v].result
      OBVIOUS
    <2>4. draft[v].result \in BadResults =>
             TamperKey(u, draft[v].result) \in alerts \cup draft[v].keys
      BY <1>1, <1>3 DEF VerifyOK
    <2> HIDE DEF mark, u
    <2>2. /\ t.marks \in Seq(S \cup {mark})
          /\ ToSet(t.marks) = ToSet(draft[v].marks) \cup {mark}
      <3>1. \A x : /\ Append(draft[v].marks, x) \in Seq(S \cup {x})
                   /\ ToSet(Append(draft[v].marks, x)) = ToSet(draft[v].marks) \cup {x}
        BY <2>1, AppendMark, Zenon
      <3>2. t.marks = Append(draft[v].marks, mark)
        BY <1>6
      <3> QED BY <3>1, <3>2, Zenon
    <2>5. \A m \in ToSet(t.marks) :
             m[2] \in BadResults => TamperKey(m[1], m[2]) \in alerts \cup t.keys
      BY <1>1, <1>6, <2>2, <2>3, <2>4 DEF VerifyOK
    <2> QED BY <1>3, <1>5, <1>8, <2>2, <2>5 DEF VerifyOK
  <1> QED BY <1>3, <1>4, <1>5, <1>8, <1>9, VerifyWrites

\* COMMIT publishes the marks with their alerts.
LEMMA CommitVerifyKeeps ==
    ASSUME IInv, NEW v \in Verifiers, CommitVerify(v)
    PROVE  IInv'
  <1>1. IngestTypeOK /\ v \in Requests /\ VerifyOK(v) /\ DraftShape
    BY DEF IInv, Requests, IngestTypeOK
  <1>2. /\ DraftShape' /\ draft'[v] = NoDraft
        /\ \A p \in Requests \ {v} : draft'[p] = draft[p]
    BY <1>1, ReleasedFacts DEF CommitVerify
  <1>3. /\ step' \in [Requests -> Steps] /\ step'[v] = "done"
        /\ \A p \in Requests \ {v} : step'[p] = step[p]
    BY <1>1, GotoFacts DEF CommitVerify, Steps, Ended
  <1>4. /\ alerts' = alerts \cup draft[v].keys
        /\ UNCHANGED <<content, disk, file, stat, answer, damage, before>>
    BY DEF CommitVerify
  <1>5. /\ DOMAIN integrity' = Uploads
        /\ \A u \in Uploads :
             integrity'[u] = IF Marked(v, u)
                             THEN (CHOOSE m \in ToSet(draft[v].marks) : m[1] = u)[2]
                             ELSE integrity[u]
    BY DEF CommitVerify
  <1>6. IngestTypeOK'
    BY <1>1, <1>2, <1>3, <1>4, <1>5 DEF IngestTypeOK
  <1>7. VerifyOK(v)'
    <2>1. draft'[v].marks = <<>>
      BY <1>2 DEF NoDraft
    <2>2. <<>> \in Seq({}) /\ ToSet(<<>>) = {}
      BY DEF ToSet
    <2> QED BY <1>3, <2>1, <2>2 DEF VerifyOK
  <1>8. IntegrityAlerted'
    <2> SUFFICES ASSUME NEW u \in Uploads, integrity'[u] \in BadResults
                 PROVE  TamperKey(u, integrity'[u]) \in alerts'
      BY DEF IntegrityAlerted
    <2>1. CASE Marked(v, u)
      <3> DEFINE m == CHOOSE m \in ToSet(draft[v].marks) : m[1] = u
      <3>1. m \in ToSet(draft[v].marks) /\ m[1] = u
        BY <2>1 DEF Marked
      <3>2. integrity'[u] = m[2]
        BY <1>5, <2>1
      <3> HIDE DEF m
      <3>3. TamperKey(m[1], m[2]) \in alerts \cup draft[v].keys
        BY <1>1, <3>1, <3>2 DEF VerifyOK
      <3> QED BY <1>4, <3>1, <3>2, <3>3
    <2>2. CASE ~ Marked(v, u)
      BY <1>4, <1>5, <2>2 DEF IInv, IntegrityAlerted
    <2> QED BY <2>1, <2>2
  <1>9. \A p \in Requests \ {v} : step'[p] = step[p] /\ draft'[p] = draft[p]
    BY <1>2, <1>3
  <1>10. alerts \subseteq alerts'
    BY <1>4
  <1> QED BY <1>4, <1>6, <1>7, <1>8, <1>9, <1>10, VerifyMoves

\* A verification the database cancels leaves nothing.
LEMMA CancelKeeps ==
    ASSUME IInv, NEW v \in Verifiers, CancelVerify(v)
    PROVE  IInv'
  <1>1. IngestTypeOK /\ v \in Requests /\ DraftShape
    BY DEF IInv, Requests, IngestTypeOK
  <1>2. /\ DraftShape' /\ draft'[v] = NoDraft
        /\ \A p \in Requests \ {v} : draft'[p] = draft[p]
    BY <1>1, ReleasedFacts DEF CancelVerify
  <1>3. /\ Goto(v, "done") /\ "done" \in Steps
        /\ UNCHANGED <<content, disk, file, integrity, alerts, stat, answer, damage, before>>
    BY DEF CancelVerify, tables, Steps, Ended
  <1>4. step'[v] = "done"
    BY <1>1, <1>3, GotoFacts
  <1>5. VerifyOK(v)'
    <2>1. draft'[v].marks = <<>>
      BY <1>2 DEF NoDraft
    <2>2. <<>> \in Seq({}) /\ ToSet(<<>>) = {}
      BY DEF ToSet
    <2> QED BY <1>4, <2>1, <2>2 DEF VerifyOK
  <1> QED BY <1>2, <1>3, <1>5, VerifyWrites

-----------------------------------------------------------------------------
(* The invariant.                                                          *)

\* Before the first request, nothing is stored and nothing is open.
LEMMA InitIInv == IngestInit => IInv
  <1> SUFFICES ASSUME IngestInit PROVE IInv
    OBVIOUS
  <1> USE DEF IngestInit
  <1>1. DOMAIN NoDraft = Fields /\ NoDraft.row = FALSE /\ NoDraft.seen = {}
        /\ NoDraft.marks = <<>> /\ NoDraft.keys = {}
    BY DEF NoDraft, Fields
  <1>2. \A p \in Requests : draft[p] = NoDraft /\ step[p] = "idle"
    BY DEF Requests
  <1>3. IngestTypeOK
    BY <1>1 DEF IngestTypeOK, DraftShape, Requests, Steps, Answers
  <1>4. \A u \in Uploads : UploadOK(u) /\ ~ Holds(u)
    BY <1>1, <1>2 DEF UploadOK, Holds, Requests, Open, None
  <1>5. \A v \in Verifiers : VerifyOK(v)
    <2>1. <<>> \in Seq({}) /\ ToSet(<<>>) = {}
      BY DEF ToSet
    <2> QED BY <1>1, <1>2, <2>1 DEF VerifyOK, Requests
  <1>6. IntegrityAlerted /\ stat.counted \subseteq file
    BY DEF IntegrityAlerted, BadResults, None
  <1>7. Distinct
    BY <1>4 DEF Distinct
  <1> QED BY <1>3, <1>4, <1>5, <1>6, <1>7 DEF IInv

\* Every step keeps the invariant.
LEMMA StepIInv == IInv /\ [IngestNext]_ingestVars => IInv'
  <1> SUFFICES ASSUME IInv, [IngestNext]_ingestVars
               PROVE  IInv'
    OBVIOUS
  <1>1. ASSUME NEW u \in Uploads, UploadStep(u)
        PROVE  IInv'
    BY <1>1, EarlyKeeps, BlockedKeeps, CreateKeeps, TransactionKeeps, CommitKeeps
       DEF UploadStep
  <1>2. ASSUME NEW u \in Uploads, SaveStream(u) \/ RefuseStream(u) \/ CommitUnanswered(u)
                                  \/ CrashUpload(u) \/ FailUnhandled(u)
        PROVE  IInv'
    BY <1>2, SaveKeeps, EarlyKeeps, CommitKeeps, CrashKeeps, UnhandledKeeps
  <1>3. ASSUME NEW u \in Uploads, FailUpload(u)
        PROVE  IInv'
    BY <1>3, DiscardKeeps DEF FailUpload
  <1>4. ASSUME NEW v \in Verifiers, VerifyStep(v)
        PROVE  IInv'
    BY <1>4, HashKeeps, MarkKeeps, CommitVerifyKeeps, CancelKeeps DEF VerifyStep
  <1>5. ASSUME NEW v \in Verifiers, VerifyAll(v) \/ \E u \in Uploads : VerifyFile(v, u)
        PROVE  IInv'
    BY <1>5, BeginKeeps
  <1>6. ASSUME NEW u \in Uploads, NEW bytes \in {"altered", None}, Damage(u, bytes)
        PROVE  IInv'
    BY <1>6, DamageKeeps
  <1>7. CASE UNCHANGED ingestVars
    <2>1. UNCHANGED <<step, content, disk, file, integrity, alerts, stat, draft, answer,
                      damage, before>>
      BY <1>7 DEF ingestVars
    <2>2. IngestTypeOK' /\ Distinct' /\ IntegrityAlerted'
      BY <2>1 DEF IInv, IngestTypeOK, DraftShape, Distinct, Holds, IntegrityAlerted
    <2>3. \A v \in Verifiers : VerifyOK(v)'
      BY <2>1 DEF IInv, VerifyOK
    <2>4. \A u \in Uploads : UploadOK(u)'
      BY <2>1, OtherUpload DEF IInv
    <2> QED BY <2>1, <2>2, <2>3, <2>4 DEF IInv
  <1> QED BY <1>1, <1>2, <1>3, <1>4, <1>5, <1>6, <1>7 DEF IngestNext

\* The requests, their transactions and the tables agree in every reachable
\* state.
THEOREM Inductive == IngestSpec => []IInv
  BY InitIInv, StepIInv, PTL DEF IngestSpec

\* One row per content, none for a rejected upload, and no counted file without
\* its row, however uploads of one content overlap.
THEOREM OneRowPerContent == IngestSpec => []ContentOnce
  <1>1. IInv => ContentOnce
    BY DEF IInv, ContentOnce, Distinct, Holds, UploadOK, IngestTypeOK
  <1> QED BY <1>1, Inductive, PTL

\* Bytes without a row are a crash's or an unhandled error's, a row without its
\* bytes is damage.
THEOREM BytesFollowRows == IngestSpec => []BytesAgree
  <1>1. IInv => BytesAgree
    BY DEF IInv, BytesAgree, UploadOK
  <1> QED BY <1>1, Inductive, PTL

\* Every finding of an upload, a blocked file and a verification has its alert.
THEOREM EveryFindingAlerted == IngestSpec => []FindingsAlerted
  <1>1. IInv => FindingsAlerted
    BY DEF IInv, FindingsAlerted, UploadOK, Findings, IntegrityAlerted, BadResults,
           IngestTypeOK
  <1> QED BY <1>1, Inductive, PTL
=============================================================================
