-------------------------- MODULE ExceptionsProofs --------------------------
(***************************************************************************)
(* Proofs about Exceptions.  A row is written by one transaction at a time *)
(* (Exclusive), so the committed row under a draft does not move: what the *)
(* draft says relative to it when it is written still holds when it is     *)
(* committed.  A draft stamps only what is not yet stamped (DraftStamp),   *)
(* leaves a closed row closed or reopens it (DraftFollows), is closed by   *)
(* the right role (DraftSound), and  is routed by the time the queues have *)
(* been filled (DraftRouted).                                              *)
(***************************************************************************)
EXTENDS Exceptions, TLAPS

Sound(x) ==
    /\ Closed(x) /\ (x.tier >= 3 \/ x.status = "WRITTEN_OFF") => x.closer = "ADMIN"
    /\ x.status = "NONE" => ~ x.breached
Routed(x) == Open(x) /\ x.tier >= 2 => x.owner # None
Ending == {"audit", "commit"}

Exclusive == \A s, t \in Sessions : s # t => mine[s] \cap mine[t] = {}
RowsSound == \A k \in Keys : Sound(row[k])

\* Where a transaction is, what it has written and scanned so far.
LocalOK(s) ==
    /\ pc[s] = "idle" => mine[s] = {}
    /\ scanned[s] \subseteq mine[s]
    /\ pc[s] \notin Ending => scanned[s] = {}
    /\ pc[s] \notin {"select", "update"} => tier[s] = 2

\* A draft, relative to the committed row.
DraftSound(s, k) == Sound(draft[s][k])
DraftStamp(s, k) ==
    /\ draft[s][k].breached <=> row[k].breached \/ k \in scanned[s]
    /\ k \in scanned[s] => ~ row[k].breached
DraftFollows(s, k) ==
    Closed(row[k]) =>
        \/ SameButOwner(row[k], draft[s][k])
        \/ pc[s] \in Ending /\ draft[s][k].status = "REOPENED"

\* How far the draft of what a run raised is routed.
DraftRouted(s, k) ==
    /\ pc[s] \in Ending \cup {"scan"} => Routed(draft[s][k])
    /\ pc[s] \in {"select", "update"} /\ draft[s][k].tier < tier[s] => Routed(draft[s][k])
    /\ pc[s] = "update" /\ Unassigned(draft[s][k], tier[s]) => k \in todo[s]

SessionOK(s) ==
    /\ LocalOK(s)
    /\ \A k \in mine[s] : DraftSound(s, k) /\ DraftStamp(s, k) /\ DraftFollows(s, k)
    /\ \A k \in mine[s] \cap RunKeys : DraftRouted(s, k)

IInv ==
    /\ TypeOK
    /\ Exclusive
    /\ RowsSound
    /\ BreachesOnce
    /\ RunRowsRouted
    /\ \A s \in Sessions : SessionOK(s)

-----------------------------------------------------------------------------
(* Rows.                                                                   *)

\* Tiers 2 to 4 have a queue, which is not nobody.
LEMMA QueueFacts ==
    /\ None \notin Queues
    /\ \A t \in 2 .. 4 : queue_for_tier(t) \in Queues /\ queue_for_tier(t) # None
    /\ \A t \in Tiers : queue_for_tier(t) \in {None} \cup Queues
    /\ queue_for_tier(1) = None
  <1>1. None \notin Queues
    BY NamesAssumption
  <1>2. \A t \in 2 .. 4 : queue_for_tier(t) \in Queues
    BY DEF queue_for_tier, Queues
  <1>3. \A t \in Tiers : queue_for_tier(t) \in {None} \cup Queues
    BY DEF queue_for_tier, Queues, Tiers
  <1>4. queue_for_tier(1) = None
    BY DEF queue_for_tier
  <1> QED BY <1>1, <1>2, <1>3, <1>4

\* The fields of an exception.
LEMMA Fields ==
    ASSUME NEW x \in Exception
    PROVE  /\ x.status \in {"NONE"} \cup OpenStatuses \cup ClosedStatuses
           /\ x.tier \in Tiers
           /\ x.owner \in {None} \cup Queues \cup People
           /\ x.breached \in BOOLEAN
           /\ x.closer \in {None} \cup Closers
  BY DEF Exception

\* A new exception is open, sound and not stamped.
LEMMA RaisedFacts ==
    ASSUME NEW t \in Tiers
    PROVE  /\ Raised(t) \in Exception
           /\ Raised(t).status = "OPEN" /\ Raised(t).tier = t
           /\ Raised(t).breached = FALSE
           /\ Sound(Raised(t))
  BY DEF Raised, Exception, Sound, Closed, OpenStatuses, ClosedStatuses

LEMMA NoExceptionFacts ==
    /\ NoException \in Exception
    /\ NoException.status = "NONE"
    /\ NoException.breached = FALSE
    /\ Sound(NoException) /\ Routed(NoException)
  BY DEF NoException, Exception, Tiers, Sound, Routed, Open, Closed, OpenStatuses,
         ClosedStatuses

\* A closed exception, by the role its tier and outcome need or above.
LEMMA ClosingFacts ==
    ASSUME NEW x \in Exception, NEW outcome \in ClosedStatuses, NEW by \in Closers
    PROVE  /\ Closing(x, outcome, by) \in Exception
           /\ Closing(x, outcome, by).status = outcome
           /\ Closing(x, outcome, by).tier = x.tier
           /\ Closing(x, outcome, by).breached = x.breached
           /\ Closing(x, outcome, by).closer = by
           /\ Routed(Closing(x, outcome, by))
  BY DEF Closing, Exception, Routed, Open, OpenStatuses, ClosedStatuses

\* Another owner.
LEMMA OwnerFacts ==
    ASSUME NEW x \in Exception, NEW o \in {None} \cup Queues \cup People
    PROVE  LET y == [x EXCEPT !.owner = o] IN
           /\ y \in Exception
           /\ SameButOwner(x, y)
           /\ y.owner = o
           /\ Sound(x) => Sound(y)
  BY DEF SameButOwner, Exception, Sound, Closed

\* Another tier, with the queue that follows it unless a person has it.
LEMMA TierFacts ==
    ASSUME NEW x \in Exception, NEW t \in Tiers, Open(x)
    PROVE  LET y == [x EXCEPT !.tier = t, !.owner = IF is_queue(@) THEN queue_for_tier(t) ELSE @]
           IN  /\ y \in Exception
               /\ y.status = x.status /\ y.breached = x.breached
               /\ Sound(x) => Sound(y)
               /\ Routed(y)
  <1>1. x.owner \in {None} \cup Queues \cup People
    BY DEF Exception
  <1>2. PICK o : o = IF is_queue(x.owner) THEN queue_for_tier(t) ELSE x.owner
    OBVIOUS
  <1>3. o \in {None} \cup Queues \cup People /\ (t >= 2 => o # None)
    BY <1>1, <1>2, QueueFacts DEF is_queue, Tiers
  <1>4. [x EXCEPT !.tier = t, !.owner = IF is_queue(@) THEN queue_for_tier(t) ELSE @]
            = [x EXCEPT !.tier = t, !.owner = o]
    BY <1>2
  <1> QED
    BY <1>3, <1>4 DEF Exception, Routed, Sound, Open, Closed, OpenStatuses, ClosedStatuses

\* What the scanner makes of a row that is open and not stamped.
LEMMA BreachFacts ==
    ASSUME NEW x \in Exception, Open(x)
    PROVE  /\ Breach(x) \in Exception
           /\ Breach(x).breached = TRUE
           /\ Open(Breach(x))
           /\ Sound(Breach(x))
           /\ Routed(x) => Routed(Breach(x))
  <1>0. x.tier \in Tiers /\ x.owner \in {None} \cup Queues \cup People
    BY DEF Exception
  <1>1. CASE x.tier = 4
    <2>1. Breach(x) = [x EXCEPT !.breached = TRUE]
      BY <1>1 DEF Breach, tier_after_sla_check
    <2> QED
      BY <2>1 DEF Exception, Routed, Sound, Open, Closed, OpenStatuses, ClosedStatuses
  <1>2. CASE x.tier # 4
    <2>0. x.tier < 4 /\ x.tier + 1 \in 2 .. 4 /\ x.tier + 1 # x.tier /\ x.tier + 1 \in Tiers
      BY <1>0, <1>2 DEF Tiers
    <2> DEFINE t == x.tier + 1
               o == IF is_queue(x.owner) THEN queue_for_tier(t) ELSE x.owner
    <2>1. o \in {None} \cup Queues \cup People /\ o # None
      BY <1>0, <2>0, QueueFacts DEF is_queue
    <2>2. Breach(x) = [x EXCEPT !.breached = TRUE, !.tier = t, !.status = "ESCALATED", !.owner = o]
      BY <2>0 DEF Breach, tier_after_sla_check
    <2>3. t \in Tiers
      BY <2>0
    <2> HIDE DEF t, o
    <2> QED
      BY <2>1, <2>2, <2>3 DEF Exception, Routed, Sound, Open, Closed, OpenStatuses, ClosedStatuses
  <1> QED BY <1>1, <1>2

\* A reopened exception.
LEMMA ReopenedFacts ==
    ASSUME NEW x \in Exception
    PROVE  /\ Reopened(x) \in Exception
           /\ Reopened(x).status = "REOPENED"
           /\ Reopened(x).breached = x.breached
           /\ Sound(Reopened(x)) /\ Routed(Reopened(x))
  <1> DEFINE t == IF x.tier < 2 THEN 2 ELSE x.tier
             o == queue_for_tier(t)
  <1>1. t \in 2 .. 4 /\ t \in Tiers
    BY DEF Exception, Tiers
  <1>2. o \in Queues /\ o # None
    BY <1>1, QueueFacts
  <1>3. Reopened(x) = [x EXCEPT !.status = "REOPENED", !.tier = t, !.closer = None, !.owner = o]
    BY DEF Reopened
  <1> HIDE DEF t, o
  <1> QED
    BY <1>1, <1>2, <1>3 DEF Exception, Routed, Sound, Open, Closed, OpenStatuses, ClosedStatuses
-----------------------------------------------------------------------------
(* Steps of one session.                                                   *)

\* Only the session's own part of the state changes.
Only(s) ==
    \A t \in Sessions \ {s} :
        /\ pc'[t] = pc[t] /\ mine'[t] = mine[t] /\ draft'[t] = draft[t]
        /\ scanned'[t] = scanned[t] /\ todo'[t] = todo[t] /\ tier'[t] = tier[t]

\* A session whose part, and whose rows, do not change stays as it should be.
LEMMA SessionKept ==
    ASSUME NEW t \in Sessions, SessionOK(t),
           pc'[t] = pc[t], mine'[t] = mine[t], draft'[t] = draft[t],
           scanned'[t] = scanned[t], todo'[t] = todo[t], tier'[t] = tier[t],
           \A k \in mine[t] : row'[k] = row[k]
    PROVE  SessionOK(t)'
  <1>1. LocalOK(t)'
    BY DEF SessionOK, LocalOK
  <1>2. ASSUME NEW k \in mine[t]
        PROVE  DraftSound(t, k)' /\ DraftStamp(t, k)' /\ DraftFollows(t, k)'
    BY <1>2 DEF SessionOK, DraftSound, DraftStamp, DraftFollows
  <1>3. ASSUME NEW k \in mine[t] \cap RunKeys
        PROVE  DraftRouted(t, k)'
    BY <1>3 DEF SessionOK, DraftRouted
  <1> QED BY <1>1, <1>2, <1>3 DEF SessionOK

\* A step that commits nothing keeps the invariant if it does in its session.
LEMMA SessionStep ==
    ASSUME IInv, NEW s \in Sessions, TypeOK', Exclusive', Only(s),
           row' = row, events' = events, SessionOK(s)'
    PROVE  IInv'
  <1>1. ASSUME NEW t \in Sessions PROVE SessionOK(t)'
    <2>1. CASE t = s
      BY <2>1
    <2>2. CASE t # s
      BY <2>2, SessionKept DEF IInv, Only
    <2> QED BY <2>1, <2>2
  <1>2. RowsSound' /\ BreachesOnce' /\ RunRowsRouted'
    BY DEF IInv, RowsSound, BreachesOnce, RunRowsRouted
  <1> QED BY <1>1, <1>2 DEF IInv

Places == {"idle", "classify", "insert", "created", "resolve",
           "select", "update", "scan", "audit", "commit"}

\* What a session writes, when nobody else holds the rows.
LEMMA Wrote ==
    ASSUME TypeOK, Exclusive, NEW s \in Sessions, NEW K \in SUBSET Keys,
           NEW g \in [Keys -> Exception],
           mine' = [mine EXCEPT ![s] = mine[s] \cup K],
           draft' = [draft EXCEPT ![s] = g],
           \A k \in K : Free(s, k)
    PROVE  /\ mine' \in [Sessions -> SUBSET Keys]
           /\ draft' \in [Sessions -> [Keys -> Exception]]
           /\ Exclusive'
           /\ mine'[s] = mine[s] \cup K /\ draft'[s] = g
           /\ \A t \in Sessions \ {s} : mine'[t] = mine[t] /\ draft'[t] = draft[t]
  <1>1. mine \in [Sessions -> SUBSET Keys] /\ draft \in [Sessions -> [Keys -> Exception]]
    BY DEF TypeOK
  <1>2. mine' \in [Sessions -> SUBSET Keys] /\ draft' \in [Sessions -> [Keys -> Exception]]
    BY <1>1
  <1>3. mine'[s] = mine[s] \cup K /\ draft'[s] = g
    BY <1>1
  <1>4. \A t \in Sessions \ {s} : mine'[t] = mine[t] /\ draft'[t] = draft[t]
    BY <1>1
  <1>5. \A t \in Sessions \ {s} : K \cap mine[t] = {}
    BY DEF Free
  <1>6. Exclusive'
    BY <1>3, <1>4, <1>5 DEF Exclusive
  <1> QED BY <1>2, <1>3, <1>4, <1>6

\* The session is at another place.
LEMMA Went ==
    ASSUME TypeOK, NEW s \in Sessions, NEW p \in Places, GoTo(s, p)
    PROVE  /\ pc' \in [Sessions -> Places]
           /\ pc'[s] = p
           /\ \A t \in Sessions \ {s} : pc'[t] = pc[t]
  BY DEF TypeOK, GoTo, Places

\* What a session reads is an exception.
LEMMA SeenType ==
    ASSUME TypeOK, NEW s \in Sessions, NEW k \in Keys
    PROVE  Seen(s, k) \in Exception /\ row[k] \in Exception /\ draft[s][k] \in Exception
  BY DEF TypeOK, Seen

-----------------------------------------------------------------------------
(* Steps that write nothing, and the end of a transaction.                 *)

LEMMA InitOK == Init => IInv
  <1> SUFFICES ASSUME Init PROVE IInv
    OBVIOUS
  <1>1. TypeOK
    BY NoExceptionFacts DEF Init, TypeOK
  <1>2. Exclusive
    BY DEF Init, Exclusive
  <1>3. RowsSound /\ BreachesOnce
    BY NoExceptionFacts DEF Init, RowsSound, BreachesOnce
  <1>4. RunRowsRouted
    BY NoExceptionFacts DEF Init, RunRowsRouted, Routed, Keys
  <1>5. \A s \in Sessions : SessionOK(s)
    BY DEF Init, SessionOK, LocalOK, Ending
  <1> QED BY <1>1, <1>2, <1>3, <1>4, <1>5 DEF IInv

\* EndTxn leaves the session clean.
LEMMA Ended ==
    ASSUME TypeOK, Exclusive, NEW s \in Sessions, EndTxn(s)
    PROVE  /\ mine' \in [Sessions -> SUBSET Keys]
           /\ draft' \in [Sessions -> [Keys -> Exception]]
           /\ scanned' \in [Sessions -> SUBSET Keys]
           /\ todo' \in [Sessions -> SUBSET Keys]
           /\ tier' \in [Sessions -> 2 .. 4]
           /\ pc' \in [Sessions -> Places]
           /\ chain' \in Sessions \cup {None} /\ due' \subseteq Keys /\ begun' \in Nat
           /\ Exclusive' /\ Only(s) /\ SessionOK(s)'
  <1>1. "idle" \in Places /\ GoTo(s, "idle")
    BY DEF Places, EndTxn
  <1>2. pc' \in [Sessions -> Places] /\ pc'[s] = "idle" /\ \A t \in Sessions \ {s} : pc'[t] = pc[t]
    BY <1>1, Went
  <1>3. /\ mine' \in [Sessions -> SUBSET Keys]
        /\ scanned' \in [Sessions -> SUBSET Keys]
        /\ todo' \in [Sessions -> SUBSET Keys]
        /\ tier' \in [Sessions -> 2 .. 4]
    BY DEF TypeOK, EndTxn
  <1>4. draft' \in [Sessions -> [Keys -> Exception]]
    <2>1. [k \in Keys |-> NoException] \in [Keys -> Exception]
      BY NoExceptionFacts
    <2> QED BY <2>1 DEF TypeOK, EndTxn
  <1>5. /\ chain' \in Sessions \cup {None} /\ due' \subseteq Keys /\ begun' \in Nat
    BY DEF TypeOK, EndTxn
  <1>6. mine'[s] = {} /\ scanned'[s] = {} /\ tier'[s] = 2
    BY DEF TypeOK, EndTxn
  <1>7. Only(s)
    BY <1>2 DEF TypeOK, EndTxn, Only
  <1>8. Exclusive'
    BY <1>6, <1>7 DEF Exclusive, Only
  <1>9. SessionOK(s)'
    BY <1>2, <1>6 DEF SessionOK, LocalOK
  <1> QED BY <1>2, <1>3, <1>4, <1>5, <1>7, <1>8, <1>9

\* A failed transaction.
LEMMA EndOK ==
    ASSUME IInv, NEW s \in Sessions, EndTxn(s), row' = row, events' = events
    PROVE  IInv'
  <1>1. TypeOK'
    BY Ended DEF IInv, TypeOK, Places
  <1> QED BY <1>1, Ended, SessionStep DEF IInv

\* Where a step that writes nothing leaves its session as it should be.
LEMMA QuietOK ==
    ASSUME IInv, NEW s \in Sessions, NEW p \in Places, GoTo(s, p),
           UNCHANGED <<row, events, mine, draft, scanned, due>>,
           chain' \in Sessions \cup {None}, begun' \in Nat,
           todo' \in [Sessions -> SUBSET Keys], tier' \in [Sessions -> 2 .. 4],
           \A t \in Sessions \ {s} : todo'[t] = todo[t] /\ tier'[t] = tier[t],
           p # "idle",
           pc[s] \in Ending => p \in Ending,
           p \notin {"select", "update"} => tier'[s] = 2,
           \A k \in mine[s] \cap RunKeys : DraftRouted(s, k)'
    PROVE  IInv'
  <1>1. /\ pc' \in [Sessions -> Places] /\ pc'[s] = p
        /\ \A t \in Sessions \ {s} : pc'[t] = pc[t]
    BY Went DEF IInv
  <1>2. TypeOK'
    BY <1>1 DEF IInv, TypeOK, Places
  <1>3. Exclusive' /\ Only(s)
    BY <1>1 DEF IInv, Exclusive, Only
  <1>4. LocalOK(s)'
    BY <1>1 DEF IInv, SessionOK, LocalOK, Ending
  <1>5. ASSUME NEW k \in mine[s]
        PROVE  DraftSound(s, k)' /\ DraftStamp(s, k)' /\ DraftFollows(s, k)'
    BY <1>1, <1>5 DEF IInv, SessionOK, DraftSound, DraftStamp, DraftFollows
  <1>6. SessionOK(s)'
    BY <1>4, <1>5 DEF SessionOK
  <1> QED BY <1>2, <1>3, <1>6, SessionStep

LEMMA BeginRunOK == ASSUME IInv, NEW s \in Sessions, BeginRun(s) PROVE IInv'
  <1>1. \A k \in mine[s] \cap RunKeys : DraftRouted(s, k)'
    BY DEF IInv, SessionOK, LocalOK, BeginRun, Begin
  <1>2. tier[s] = 2 /\ pc[s] = "idle"
    BY DEF IInv, SessionOK, LocalOK, BeginRun, Begin
  <1> QED
    BY <1>1, <1>2, QuietOK DEF BeginRun, Begin, IInv, TypeOK, Places, Ending

LEMMA ReadKeysOK ==
    ASSUME IInv, NEW s \in Sessions, NEW candidates \in SUBSET RunKeys, ReadKeys(s, candidates)
    PROVE  IInv'
  <1>1. pc[s] = "classify" /\ pc'[s] = "insert" /\ tier[s] = 2
    BY DEF IInv, TypeOK, SessionOK, LocalOK, ReadKeys, GoTo
  <1>2. \A k \in mine[s] \cap RunKeys : DraftRouted(s, k)'
    BY <1>1 DEF DraftRouted, Ending
  <1>3. PICK new \in SUBSET Keys : todo' = [todo EXCEPT ![s] = new]
    BY DEF ReadKeys, Keys
  <1>4. /\ todo' \in [Sessions -> SUBSET Keys]
        /\ \A t \in Sessions \ {s} : todo'[t] = todo[t]
    BY <1>3 DEF IInv, TypeOK
  <1> QED
    BY <1>1, <1>2, <1>4, QuietOK DEF ReadKeys, IInv, TypeOK, Places, Ending

LEMMA AuditCreatedOK == ASSUME IInv, NEW s \in Sessions, AuditCreated(s) PROVE IInv'
  <1>1. pc[s] = "created" /\ pc'[s] = "classify" /\ tier[s] = 2
    BY DEF IInv, TypeOK, SessionOK, LocalOK, AuditCreated, GoTo
  <1>2. \A k \in mine[s] \cap RunKeys : DraftRouted(s, k)'
    BY <1>1 DEF DraftRouted, Ending
  <1> QED
    BY <1>1, <1>2, QuietOK DEF AuditCreated, LockChain, IInv, TypeOK, Places, Ending

LEMMA EndClassifyOK == ASSUME IInv, NEW s \in Sessions, EndClassify(s) PROVE IInv'
  <1>1. pc[s] = "classify" /\ pc'[s] = "resolve" /\ tier[s] = 2
    BY DEF IInv, TypeOK, SessionOK, LocalOK, EndClassify, GoTo
  <1>2. \A k \in mine[s] \cap RunKeys : DraftRouted(s, k)'
    BY <1>1 DEF DraftRouted, Ending
  <1> QED
    BY <1>1, <1>2, QuietOK DEF EndClassify, IInv, TypeOK, Places, Ending

LEMMA AuditOK == ASSUME IInv, NEW s \in Sessions, Audit(s) PROVE IInv'
  <1>1. pc[s] = "audit" /\ pc'[s] = "commit" /\ tier[s] = 2
    BY DEF IInv, TypeOK, SessionOK, LocalOK, Audit, GoTo
  <1>2. ASSUME NEW k \in mine[s] \cap RunKeys PROVE DraftRouted(s, k)'
    <2>1. Routed(draft[s][k])
      BY <1>1, <1>2 DEF IInv, SessionOK, DraftRouted, Ending
    <2> QED BY <1>1, <2>1 DEF DraftRouted, Audit, Routed
  <1> QED
    BY <1>1, <1>2, QuietOK DEF Audit, LockChain, IInv, TypeOK, Places, Ending

\* With every open draft of its tier in a queue the session goes on.
LEMMA NextQueueFacts ==
    ASSUME IInv, NEW s \in Sessions, pc[s] \in {"select", "update"}, NextQueue(s)
    PROVE  LET p == IF tier[s] = 4 THEN "scan" ELSE "select" IN
           /\ p \in Places /\ GoTo(s, p) /\ pc'[s] = p
           /\ tier' \in [Sessions -> 2 .. 4]
           /\ \A t \in Sessions \ {s} : tier'[t] = tier[t]
           /\ tier[s] \in 2 .. 4
           /\ tier'[s] = IF tier[s] = 4 THEN 2 ELSE tier[s] + 1
  <1>1. tier \in [Sessions -> 2 .. 4] /\ pc \in [Sessions -> Places]
    BY DEF IInv, TypeOK, Places
  <1>2. tier[s] \in 2 .. 4 /\ (tier[s] # 4 => tier[s] + 1 \in 2 .. 4)
    BY <1>1
  <1>3. tier' \in [Sessions -> 2 .. 4]
    BY <1>1, <1>2 DEF NextQueue
  <1> QED BY <1>1, <1>2, <1>3 DEF NextQueue, GoTo, Places

LEMMA SelectQueueOK == ASSUME IInv, NEW s \in Sessions, SelectQueue(s) PROVE IInv'
  <1>0. pc[s] = "select" /\ ToQueue(s) \in SUBSET Keys
    BY DEF SelectQueue, ToQueue
  <1>1. /\ todo' \in [Sessions -> SUBSET Keys] /\ todo'[s] = ToQueue(s)
        /\ \A t \in Sessions \ {s} : todo'[t] = todo[t]
    BY <1>0 DEF SelectQueue, IInv, TypeOK
  <1>2. UNCHANGED <<row, events, mine, draft, scanned, due, chain, begun>>
    BY DEF SelectQueue
  <1>3. \A k \in mine[s] \cap RunKeys :
            /\ draft[s][k].tier < tier[s] => Routed(draft[s][k])
            /\ Unassigned(draft[s][k], tier[s]) => k \in ToQueue(s)
            /\ draft[s][k].tier \in 1 .. 4
    <2>1. mine[s] \subseteq Keys
      BY DEF IInv, TypeOK
    <2>2. \A k \in mine[s] : draft[s][k].tier \in 1 .. 4
      BY <2>1, SeenType, Fields DEF IInv, Tiers
    <2> QED BY <1>0, <2>1, <2>2 DEF IInv, SessionOK, DraftRouted, ToQueue, Seen
  <1>4. CASE ToQueue(s) = {}
    <2>1. NextQueue(s)
      BY <1>4 DEF SelectQueue
    <2> DEFINE p == IF tier[s] = 4 THEN "scan" ELSE "select"
    <2>2. /\ p \in Places /\ GoTo(s, p) /\ pc'[s] = p
          /\ tier' \in [Sessions -> 2 .. 4]
          /\ \A t \in Sessions \ {s} : tier'[t] = tier[t]
          /\ tier[s] \in 2 .. 4
          /\ tier'[s] = IF tier[s] = 4 THEN 2 ELSE tier[s] + 1
      BY <1>0, <2>1, NextQueueFacts
    <2>3. ASSUME NEW k \in mine[s] \cap RunKeys PROVE DraftRouted(s, k)'
      <3>1. draft[s][k].tier <= tier[s] => Routed(draft[s][k])
        BY <1>3, <1>4, <2>2, <2>3 DEF Unassigned, Routed
      <3>2. draft'[s][k] = draft[s][k] /\ draft[s][k].tier \in 1 .. 4
        BY <1>2, <1>3, <2>3
      <3> QED BY <2>2, <3>1, <3>2 DEF DraftRouted, Ending
    <2>4. /\ p # "idle" /\ (p \notin {"select", "update"} => tier'[s] = 2)
          /\ pc[s] \notin Ending
      BY <1>0, <2>2 DEF Ending
    <2>5. chain' \in Sessions \cup {None} /\ begun' \in Nat
      BY <1>2 DEF IInv, TypeOK
    <2> HIDE DEF p
    <2> QED BY <1>1, <1>2, <2>2, <2>3, <2>4, <2>5, QuietOK
  <1>5. CASE ToQueue(s) # {}
    <2>1. GoTo(s, "update") /\ tier' = tier /\ pc'[s] = "update"
      BY <1>5 DEF SelectQueue, GoTo, IInv, TypeOK
    <2>2. ASSUME NEW k \in mine[s] \cap RunKeys PROVE DraftRouted(s, k)'
      BY <1>1, <1>2, <1>3, <2>1, <2>2 DEF DraftRouted, Ending
    <2>3. chain' \in Sessions \cup {None} /\ begun' \in Nat /\ tier' \in [Sessions -> 2 .. 4]
      BY <1>2, <2>1 DEF IInv, TypeOK
    <2> QED BY <1>0, <1>1, <1>2, <2>1, <2>2, <2>3, QuietOK DEF Places, Ending
  <1> QED BY <1>4, <1>5
-----------------------------------------------------------------------------
(* Steps that write.                                                       *)

\* What a draft must be, x of a session at p that has scanned sc.
FitDraft(k, x, sc, p) ==
    /\ Sound(x)
    /\ x.breached <=> row[k].breached \/ k \in sc
    /\ k \in sc => ~ row[k].breached
    /\ Closed(row[k]) => \/ SameButOwner(row[k], x)
                         \/ p \in Ending /\ x.status = "REOPENED"
FitRoute(k, x, p, td, ti) ==
    /\ p \in Ending \cup {"scan"} => Routed(x)
    /\ p \in {"select", "update"} /\ x.tier < ti => Routed(x)
    /\ p = "update" /\ Unassigned(x, ti) => k \in td

LEMMA WriteOK ==
    ASSUME IInv, NEW s \in Sessions, NEW K \in SUBSET Keys, NEW g \in [Keys -> Exception],
           mine' = [mine EXCEPT ![s] = mine[s] \cup K],
           draft' = [draft EXCEPT ![s] = g],
           \A k \in K : Free(s, k),
           NEW p \in Places \ {"idle"}, GoTo(s, p),
           row' = row, events' = events, due' = due,
           chain' \in Sessions \cup {None}, begun' \in Nat,
           scanned' \in [Sessions -> SUBSET Keys],
           todo' \in [Sessions -> SUBSET Keys], tier' \in [Sessions -> 2 .. 4],
           \A t \in Sessions \ {s} :
               scanned'[t] = scanned[t] /\ todo'[t] = todo[t] /\ tier'[t] = tier[t],
           scanned'[s] \subseteq mine[s] \cup K,
           p \notin Ending => scanned'[s] = {},
           p \notin {"select", "update"} => tier'[s] = 2,
           \A k \in mine[s] \cup K : FitDraft(k, g[k], scanned'[s], p),
           \A k \in (mine[s] \cup K) \cap RunKeys : FitRoute(k, g[k], p, todo'[s], tier'[s])
    PROVE  IInv'
  <1>1. /\ pc' \in [Sessions -> Places] /\ pc'[s] = p
        /\ \A t \in Sessions \ {s} : pc'[t] = pc[t]
    BY Went DEF IInv
  <1>2. /\ mine' \in [Sessions -> SUBSET Keys]
        /\ draft' \in [Sessions -> [Keys -> Exception]]
        /\ Exclusive'
        /\ mine'[s] = mine[s] \cup K /\ draft'[s] = g
        /\ \A t \in Sessions \ {s} : mine'[t] = mine[t] /\ draft'[t] = draft[t]
    BY Wrote DEF IInv
  <1>3. TypeOK'
    BY <1>1, <1>2 DEF IInv, TypeOK, Places
  <1>4. Only(s)
    BY <1>1, <1>2 DEF Only
  <1>5. LocalOK(s)'
    BY <1>1, <1>2 DEF LocalOK
  <1>6. ASSUME NEW k \in mine'[s]
        PROVE  DraftSound(s, k)' /\ DraftStamp(s, k)' /\ DraftFollows(s, k)'
    <2>1. FitDraft(k, g[k], scanned'[s], p)
      BY <1>2, <1>6
    <2> QED BY <1>1, <1>2, <2>1 DEF FitDraft, DraftSound, DraftStamp, DraftFollows
  <1>7. ASSUME NEW k \in mine'[s] \cap RunKeys PROVE DraftRouted(s, k)'
    <2>1. FitRoute(k, g[k], p, todo'[s], tier'[s])
      BY <1>2, <1>7
    <2> QED BY <1>1, <1>2, <2>1 DEF FitRoute, DraftRouted
  <1>8. SessionOK(s)'
    BY <1>5, <1>6, <1>7 DEF SessionOK
  <1> QED BY <1>2, <1>3, <1>4, <1>8, SessionStep

\* What the drafts of a session satisfy.
LEMMA DraftFacts ==
    ASSUME IInv, NEW s \in Sessions, NEW k \in mine[s]
    PROVE  /\ k \in Keys /\ draft[s][k] \in Exception
           /\ FitDraft(k, draft[s][k], scanned[s], pc[s])
           /\ k \in RunKeys => FitRoute(k, draft[s][k], pc[s], todo[s], tier[s])
  <1>1. k \in Keys /\ draft[s][k] \in Exception
    BY DEF IInv, TypeOK
  <1>2. DraftSound(s, k) /\ DraftStamp(s, k) /\ DraftFollows(s, k)
    BY DEF IInv, SessionOK
  <1>3. k \in RunKeys => DraftRouted(s, k)
    BY DEF IInv, SessionOK
  <1>4. FitDraft(k, draft[s][k], scanned[s], pc[s])
    BY <1>2 DEF FitDraft, DraftSound, DraftStamp, DraftFollows
  <1> QED BY <1>1, <1>3, <1>4 DEF FitRoute, DraftRouted

\* A draft that is fit while the run goes on is fit wherever it goes.
LEMMA FitStays ==
    ASSUME NEW k, NEW x, NEW sc, NEW p, NEW q, p \notin Ending, FitDraft(k, x, sc, p)
    PROVE  FitDraft(k, x, sc, q)
  BY DEF FitDraft

\* A new exception under a free key.
LEMMA FitRaised ==
    ASSUME IInv, NEW k \in Keys, row[k].status = "NONE", NEW t \in Tiers, NEW p
    PROVE  FitDraft(k, Raised(t), {}, p)
  <1>1. row[k].breached = FALSE
    <2>1. row[k].breached \in BOOLEAN
      BY Fields DEF IInv, TypeOK
    <2>2. ~ row[k].breached
      BY DEF IInv, RowsSound, Sound
    <2> QED BY <2>1, <2>2
  <1>2. ~ Closed(row[k])
    BY DEF Closed, ClosedStatuses
  <1>3. Sound(Raised(t)) /\ Raised(t).breached = FALSE
    BY RaisedFacts
  <1> QED BY <1>1, <1>2, <1>3 DEF FitDraft

LEMMA InsertRowsOK ==
    ASSUME IInv, NEW s \in Sessions, NEW route \in Routes(todo[s]), InsertRows(s, route)
    PROVE  IInv'
  <1> DEFINE K == todo[s]
             g == [k \in Keys |-> IF k \in K THEN Raised(route[k]) ELSE draft[s][k]]
  <1>1. pc[s] = "insert" /\ K \in SUBSET Keys /\ tier[s] = 2 /\ scanned[s] = {}
    BY DEF InsertRows, IInv, TypeOK, SessionOK, LocalOK, Ending
  <1>2. \A k \in K : route[k] \in Tiers /\ Free(s, k) /\ row[k].status = "NONE"
    BY DEF InsertRows, Routes
  <1>3. g \in [Keys -> Exception]
    <2>1. \A k \in K : Raised(route[k]) \in Exception
      BY <1>2, RaisedFacts
    <2>2. \A k \in Keys : draft[s][k] \in Exception
      BY DEF IInv, TypeOK
    <2> QED BY <2>1, <2>2
  <1>4. mine' = [mine EXCEPT ![s] = mine[s] \cup K] /\ draft' = [draft EXCEPT ![s] = g]
    BY DEF InsertRows, Write, IInv, TypeOK
  <1>5. /\ UNCHANGED <<row, due, events, chain, scanned, tier, begun>>
        /\ GoTo(s, "created") /\ todo' = [todo EXCEPT ![s] = {}]
    BY DEF InsertRows
  <1>6. ASSUME NEW k \in mine[s] \cup K PROVE FitDraft(k, g[k], scanned'[s], "created")
    <2>1. CASE k \in K
      <3>1. k \in Keys /\ g[k] = Raised(route[k])
        BY <1>1, <2>1
      <3>2. FitDraft(k, Raised(route[k]), {}, "created")
        BY <1>2, <2>1, <3>1, FitRaised
      <3> QED BY <1>1, <1>5, <3>1, <3>2
    <2>2. CASE k \notin K
      <3>1. k \in mine[s] /\ k \in Keys /\ g[k] = draft[s][k]
        BY <1>6, <2>2, DraftFacts
      <3>2. FitDraft(k, draft[s][k], scanned[s], "created")
        BY <1>1, <3>1, DraftFacts, FitStays DEF Ending
      <3> QED BY <1>5, <3>1, <3>2
    <2> QED BY <2>1, <2>2
  <1>7. \A k \in (mine[s] \cup K) \cap RunKeys : FitRoute(k, g[k], "created", todo'[s], tier'[s])
    BY DEF FitRoute, Ending
  <1>8. /\ "created" \in Places \ {"idle"} /\ "created" \notin Ending
        /\ chain' \in Sessions \cup {None} /\ begun' \in Nat
        /\ scanned' \in [Sessions -> SUBSET Keys]
        /\ todo' \in [Sessions -> SUBSET Keys] /\ tier' \in [Sessions -> 2 .. 4]
        /\ \A t \in Sessions \ {s} :
               scanned'[t] = scanned[t] /\ todo'[t] = todo[t] /\ tier'[t] = tier[t]
        /\ scanned'[s] = {} /\ tier'[s] = 2
    BY <1>1, <1>5 DEF IInv, TypeOK, Places, Ending
  <1> HIDE DEF g, K
  <1> QED BY <1>1, <1>2, <1>3, <1>4, <1>5, <1>6, <1>7, <1>8, WriteOK

\* A row that a transaction has written is locked for the others only.
LEMMA MineFree ==
    ASSUME IInv, NEW s \in Sessions, NEW k \in mine[s]
    PROVE  Free(s, k)
  BY DEF IInv, Exclusive, Free

\* The draft of a closed row, while the run goes on, is closed as it is.
LEMMA OpenDraft ==
    ASSUME IInv, NEW s \in Sessions, NEW k \in mine[s], pc[s] \notin Ending, Open(draft[s][k])
    PROVE  ~ Closed(row[k])
  <1>1. Closed(row[k]) => draft[s][k].status = row[k].status
    BY DraftFacts DEF FitDraft, SameButOwner
  <1> QED BY <1>1 DEF Open, Closed, OpenStatuses, ClosedStatuses

LEMMA AutoResolveOK ==
    ASSUME IInv, NEW s \in Sessions, NEW done \in SUBSET mine[s], AutoResolve(s, done)
    PROVE  IInv'
  <1> DEFINE K == {k \in mine[s] : draft[s][k].status = "OPEN" /\ draft[s][k].tier = 1}
             new(k) == IF k \in done THEN Closing(draft[s][k], "RESOLVED", "auto-resolver")
                       ELSE [draft[s][k] EXCEPT !.tier = 2]
             g == [k \in Keys |-> IF k \in K THEN new(k) ELSE draft[s][k]]
  <1>1. /\ pc[s] = "resolve" /\ K \in SUBSET Keys /\ K \subseteq mine[s]
        /\ tier[s] = 2 /\ scanned[s] = {}
    BY DEF AutoResolve, IInv, TypeOK, SessionOK, LocalOK, Ending
  <1>2. ASSUME NEW k \in K
        PROVE  new(k) \in Exception /\ FitDraft(k, new(k), {}, "select")
    <2> DEFINE x == draft[s][k]
    <2>1. k \in mine[s] /\ x.status = "OPEN" /\ x.tier = 1
      BY <1>2
    <2>2. x \in Exception /\ FitDraft(k, x, {}, "resolve")
      BY <1>1, <2>1, DraftFacts
    <2>3. ~ Closed(row[k])
      BY <1>1, <2>1, OpenDraft DEF Open, OpenStatuses, Ending
    <2>4. CASE k \in done
      <3>0. "RESOLVED" \in ClosedStatuses /\ "auto-resolver" \in Closers
        BY DEF ClosedStatuses, Closers
      <3> DEFINE y == Closing(x, "RESOLVED", "auto-resolver")
      <3>1. y \in Exception /\ y.status = "RESOLVED" /\ y.tier = x.tier /\ y.breached = x.breached
        BY <2>2, <3>0, ClosingFacts
      <3>2. new(k) = y
        BY <2>4
      <3> HIDE DEF new, x, y
      <3>3. FitDraft(k, y, {}, "select")
        BY <2>1, <2>2, <2>3, <3>1 DEF FitDraft, Sound
      <3> QED BY <3>1, <3>2, <3>3
    <2>5. CASE k \notin done
      <3> DEFINE y == [x EXCEPT !.tier = 2]
      <3>1. new(k) = y
        BY <2>5
      <3> HIDE DEF new, x
      <3>2. y \in Exception /\ y.status = "OPEN" /\ y.breached = x.breached
        BY <2>1, <2>2 DEF Exception, Tiers
      <3> HIDE DEF y
      <3>3. FitDraft(k, y, {}, "select")
        BY <2>2, <2>3, <3>2 DEF FitDraft, Sound, Closed, ClosedStatuses
      <3> QED BY <3>1, <3>2, <3>3
    <2> QED BY <2>4, <2>5
  <1>3. g \in [Keys -> Exception]
    <2>1. \A k \in Keys : draft[s][k] \in Exception
      BY DEF IInv, TypeOK
    <2> HIDE DEF new, K
    <2> QED BY <1>2, <2>1
  <1>4. /\ mine' = [mine EXCEPT ![s] = mine[s] \cup K] /\ draft' = [draft EXCEPT ![s] = g]
        /\ UNCHANGED <<row, due, events, chain, scanned, todo, tier, begun>>
        /\ GoTo(s, "select")
    BY DEF AutoResolve, Write, IInv, TypeOK
  <1>5. ASSUME NEW k \in mine[s] \cup K PROVE FitDraft(k, g[k], scanned'[s], "select")
    <2>0. k \in mine[s] /\ k \in Keys
      BY <1>1, <1>5, DraftFacts
    <2>1. CASE k \in K
      <3>1. g[k] = new(k)
        BY <2>0, <2>1
      <3> QED BY <1>1, <1>2, <1>4, <2>1, <3>1
    <2>2. CASE k \notin K
      <3>1. g[k] = draft[s][k]
        BY <2>0, <2>2
      <3>2. FitDraft(k, draft[s][k], scanned[s], "select")
        BY <1>1, <2>0, DraftFacts, FitStays DEF Ending
      <3> QED BY <1>4, <3>1, <3>2
    <2> QED BY <2>1, <2>2
  <1>6. /\ "select" \in Places \ {"idle"}
        /\ chain' \in Sessions \cup {None} /\ begun' \in Nat
        /\ scanned' \in [Sessions -> SUBSET Keys]
        /\ todo' \in [Sessions -> SUBSET Keys] /\ tier' \in [Sessions -> 2 .. 4]
        /\ \A t \in Sessions \ {s} :
               scanned'[t] = scanned[t] /\ todo'[t] = todo[t] /\ tier'[t] = tier[t]
        /\ scanned'[s] = {} /\ tier'[s] = 2
    BY <1>1, <1>4 DEF IInv, TypeOK, Places
  <1>7. ASSUME NEW k \in (mine[s] \cup K) \cap RunKeys
        PROVE  FitRoute(k, g[k], "select", todo'[s], tier'[s])
    <2>1. g[k] \in Exception
      BY <1>1, <1>3, <1>7, DraftFacts
    <2>2. g[k].tier \in 1 .. 4
      BY <2>1, Fields DEF Tiers
    <2> HIDE DEF g
    <2> QED BY <1>6, <2>2 DEF FitRoute, Routed, Ending
  <1>8. \A k \in K : Free(s, k)
    BY <1>1, MineFree
  <1> HIDE DEF g, K, new
  <1> QED BY <1>1, <1>3, <1>4, <1>5, <1>6, <1>7, <1>8, WriteOK

\* What a session in a run reads of a row is fit to be written with a new owner.
LEMMA FitSeen ==
    ASSUME IInv, NEW s \in Sessions, NEW k \in Keys, pc[s] \notin Ending
    PROVE  FitDraft(k, Seen(s, k), {}, pc[s])
  <1>0. scanned[s] = {}
    BY DEF IInv, SessionOK, LocalOK
  <1>1. CASE k \in mine[s]
    BY <1>0, <1>1, DraftFacts DEF Seen
  <1>2. CASE k \notin mine[s]
    <2>1. Seen(s, k) = row[k] /\ Sound(row[k])
      BY <1>2 DEF Seen, IInv, RowsSound
    <2> QED BY <2>1 DEF FitDraft, SameButOwner
  <1> QED BY <1>1, <1>2

LEMMA FitOwner ==
    ASSUME NEW k, NEW x \in Exception, NEW o \in {None} \cup Queues \cup People, NEW sc, NEW p,
           FitDraft(k, x, sc, p)
    PROVE  FitDraft(k, [x EXCEPT !.owner = o], sc, p)
  <1> DEFINE y == [x EXCEPT !.owner = o]
  <1>1. SameButOwner(x, y) /\ (Sound(x) => Sound(y))
    BY OwnerFacts
  <1> HIDE DEF y
  <1>2. FitDraft(k, y, sc, p)
    BY <1>1 DEF FitDraft, SameButOwner
  <1> QED BY <1>2 DEF y

LEMMA UpdateRowOK ==
    ASSUME IInv, NEW s \in Sessions, NEW j \in Keys, UpdateRow(s, j)
    PROVE  IInv'
  <1> DEFINE K == {j}
             q == queue_for_tier(tier[s])
             y == [Seen(s, j) EXCEPT !.owner = q]
             g == [k \in Keys |-> IF k \in K THEN y ELSE draft[s][k]]
  <1>1. /\ pc[s] = "update" /\ j \in todo[s] /\ Free(s, j) /\ scanned[s] = {}
        /\ tier[s] \in 2 .. 4
    BY DEF UpdateRow, IInv, TypeOK, SessionOK, LocalOK, Ending
  <1>2. q \in Queues /\ q # None
    BY <1>1, QueueFacts
  <1>3. Seen(s, j) \in Exception
    BY SeenType DEF IInv
  <1>4. y \in Exception /\ y.owner = q
    BY <1>2, <1>3, OwnerFacts
  <1>5. g \in [Keys -> Exception]
    <2>1. \A k \in Keys : draft[s][k] \in Exception
      BY DEF IInv, TypeOK
    <2> HIDE DEF y
    <2> QED BY <1>4, <2>1
  <1>6. /\ mine' = [mine EXCEPT ![s] = mine[s] \cup K] /\ draft' = [draft EXCEPT ![s] = g]
        /\ UNCHANGED <<row, due, events, chain, scanned, begun>>
        /\ todo' = [todo EXCEPT ![s] = todo[s] \ {j}]
    <2>1. \A k \in Keys : k \in K => [Seen(s, k) EXCEPT !.owner = queue_for_tier(tier[s])] = y
      OBVIOUS
    <2>2. draft' = [draft EXCEPT ![s] = [k \in Keys |->
                       IF k \in {j} THEN [Seen(s, k) EXCEPT !.owner = queue_for_tier(tier[s])]
                       ELSE draft[s][k]]]
      BY DEF UpdateRow, Write, IInv, TypeOK
    <2>3. [k \in Keys |-> IF k \in {j} THEN [Seen(s, k) EXCEPT !.owner = queue_for_tier(tier[s])]
                          ELSE draft[s][k]] = g
      BY <2>1
    <2>4. draft' = [draft EXCEPT ![s] = g]
      BY <2>2, <2>3
    <2> QED BY <2>4 DEF UpdateRow, Write, IInv, TypeOK
  <1>7. \A k \in mine[s] \cup K : k \in Keys /\ (k = j => g[k] = y) /\ (k # j => g[k] = draft[s][k])
    <2> HIDE DEF y
    <2> QED BY DraftFacts
  <1>8. ASSUME NEW k \in mine[s] \cup K, NEW p PROVE FitDraft(k, g[k], scanned'[s], p)
    <2>1. CASE k = j
      <3>1. FitDraft(j, Seen(s, j), {}, pc[s])
        BY <1>1, FitSeen DEF Ending
      <3>2. FitDraft(j, y, {}, pc[s])
        BY <1>2, <1>3, <3>1, FitOwner
      <3>3. FitDraft(j, y, {}, p)
        BY <1>1, <3>2, FitStays DEF Ending
      <3> QED BY <1>1, <1>6, <1>7, <2>1, <3>3
    <2>2. CASE k # j
      <3>1. k \in mine[s] /\ g[k] = draft[s][k]
        BY <1>7, <1>8, <2>2
      <3>2. FitDraft(k, draft[s][k], scanned[s], p)
        BY <1>1, <3>1, DraftFacts, FitStays DEF Ending
      <3> QED BY <1>6, <3>1, <3>2
    <2> QED BY <2>1, <2>2
  <1>9. ASSUME NEW k \in (mine[s] \cup K) \cap RunKeys
        PROVE  /\ g[k].tier \in 1 .. 4
               /\ g[k].tier < tier[s] => Routed(g[k])
               /\ Unassigned(g[k], tier[s]) => k \in todo[s] \ {j}
    <2>0. g[k].tier \in 1 .. 4
      BY <1>5, <1>7, <1>9, Fields DEF Tiers
    <2>1. CASE k = j
      BY <1>2, <1>4, <1>7, <2>0, <2>1 DEF Routed, Unassigned
    <2>2. CASE k # j
      <3>1. k \in mine[s] /\ g[k] = draft[s][k] /\ k \in RunKeys
        BY <1>7, <1>9, <2>2
      <3>2. FitRoute(k, draft[s][k], "update", todo[s], tier[s])
        BY <1>1, <3>1, DraftFacts
      <3> QED BY <2>0, <2>2, <3>1, <3>2 DEF FitRoute
    <2> QED BY <2>1, <2>2
  <1>10. /\ chain' \in Sessions \cup {None} /\ begun' \in Nat
         /\ scanned' \in [Sessions -> SUBSET Keys]
         /\ todo' \in [Sessions -> SUBSET Keys]
         /\ todo'[s] = todo[s] \ {j}
         /\ \A t \in Sessions \ {s} : scanned'[t] = scanned[t] /\ todo'[t] = todo[t]
         /\ scanned'[s] = {}
    BY <1>1, <1>6 DEF IInv, TypeOK
  <1>11. K \in SUBSET Keys /\ \A k \in K : Free(s, k)
    BY <1>1
  <1>12. CASE todo[s] = {j}
    <2> DEFINE p == IF tier[s] = 4 THEN "scan" ELSE "select"
    <2>1. /\ p \in Places /\ GoTo(s, p) /\ pc'[s] = p
          /\ tier' \in [Sessions -> 2 .. 4]
          /\ \A t \in Sessions \ {s} : tier'[t] = tier[t]
          /\ tier'[s] = IF tier[s] = 4 THEN 2 ELSE tier[s] + 1
      <3>1. NextQueue(s)
        BY <1>12 DEF UpdateRow
      <3> QED BY <1>1, <3>1, NextQueueFacts
    <2>2. /\ p \in Places \ {"idle"} /\ p \notin Ending /\ p # "update"
          /\ (p \notin {"select", "update"} => tier'[s] = 2)
          /\ (p = "select" => tier'[s] = tier[s] + 1 /\ tier[s] < 4)
          /\ (p = "scan" => tier[s] = 4)
          /\ p \in {"select", "scan"}
      BY <1>1, <2>1 DEF Ending
    <2>3. ASSUME NEW k \in (mine[s] \cup K) \cap RunKeys
          PROVE  FitRoute(k, g[k], p, todo'[s], tier'[s])
      <3>1. g[k].tier <= tier[s] => Routed(g[k])
        <4> HIDE DEF g, p
        <4> QED BY <1>1, <1>9, <1>12, <2>3 DEF Unassigned, Routed
      <3>2. g[k].tier \in 1 .. 4
        BY <1>9, <2>3
      <3> HIDE DEF g, p
      <3> QED BY <1>1, <2>2, <3>1, <3>2 DEF FitRoute
    <2> HIDE DEF g, p, K
    <2> QED BY <1>5, <1>6, <1>8, <1>10, <1>11, <2>1, <2>2, <2>3, WriteOK, ZenonT(60)
  <1>13. CASE todo[s] # {j}
    <2>1. GoTo(s, "update") /\ tier' = tier
      BY <1>1, <1>13 DEF UpdateRow, GoTo, IInv, TypeOK
    <2>2. ASSUME NEW k \in (mine[s] \cup K) \cap RunKeys
          PROVE  FitRoute(k, g[k], "update", todo'[s], tier'[s])
      <3> HIDE DEF g
      <3> QED BY <1>9, <1>10, <2>1, <2>2 DEF FitRoute, Ending
    <2>3. tier' \in [Sessions -> 2 .. 4] /\ \A t \in Sessions \ {s} : tier'[t] = tier[t]
      BY <2>1 DEF IInv, TypeOK
    <2>4. "update" \in Places \ {"idle"} /\ "update" \notin Ending
      BY DEF Places, Ending
    <2> HIDE DEF g, K
    <2> QED BY <1>5, <1>6, <1>8, <1>10, <1>11, <2>1, <2>2, <2>3, <2>4, WriteOK, ZenonT(60)
  <1> QED BY <1>12, <1>13

\* SlaScanner.scan, in a run and on request.
LEMMA ScanOK ==
    ASSUME IInv, NEW s \in Sessions, pc[s] \in {"idle", "scan"}, Scan(s), begun' \in Nat
    PROVE  IInv'
  <1> DEFINE K == DueRows(s)
             g == [k \in Keys |-> IF k \in K THEN Breach(Seen(s, k)) ELSE draft[s][k]]
             p == IF K = {} THEN "commit" ELSE "audit"
  <1>1. /\ K \in SUBSET Keys /\ scanned[s] = {} /\ tier[s] = 2
        /\ pc[s] \notin Ending
    BY DEF DueRows, IInv, SessionOK, LocalOK, Ending
  <1>2. \A k \in K : Free(s, k) /\ Open(Seen(s, k)) /\ ~ Seen(s, k).breached
    BY DEF DueRows, Breaching
  <1>3. \A k \in Keys : Seen(s, k) \in Exception /\ draft[s][k] \in Exception
    BY SeenType DEF IInv
  <1>4. \A k \in K : /\ Breach(Seen(s, k)) \in Exception /\ Breach(Seen(s, k)).breached = TRUE
                     /\ Sound(Breach(Seen(s, k)))
                     /\ Routed(Seen(s, k)) => Routed(Breach(Seen(s, k)))
    BY <1>1, <1>2, <1>3, BreachFacts
  <1>5. g \in [Keys -> Exception]
    <2> HIDE DEF K
    <2> QED BY <1>3, <1>4
  <1>6. /\ mine' = [mine EXCEPT ![s] = mine[s] \cup K] /\ draft' = [draft EXCEPT ![s] = g]
        /\ UNCHANGED <<row, due, events, chain, todo, tier>>
        /\ scanned' = [scanned EXCEPT ![s] = K]
        /\ GoTo(s, p)
    BY DEF Scan, Write, IInv, TypeOK
  <1>7. p \in Places \ {"idle"} /\ p \in Ending /\ p \notin {"select", "update"}
    BY DEF Places, Ending
  <1>8. /\ chain' \in Sessions \cup {None}
        /\ scanned' \in [Sessions -> SUBSET Keys] /\ scanned'[s] = K
        /\ todo' \in [Sessions -> SUBSET Keys] /\ tier' \in [Sessions -> 2 .. 4]
        /\ \A t \in Sessions \ {s} :
               scanned'[t] = scanned[t] /\ todo'[t] = todo[t] /\ tier'[t] = tier[t]
        /\ tier'[s] = 2
    BY <1>1, <1>6 DEF IInv, TypeOK
  <1>9. ASSUME NEW k \in mine[s] \cup K PROVE FitDraft(k, g[k], scanned'[s], p)
    <2>0. k \in Keys
      BY <1>1, <1>9, DraftFacts
    <2>a. FitDraft(k, Seen(s, k), {}, pc[s])
      BY <1>1, <2>0, FitSeen
    <2>1. CASE k \in K
      <3>1. g[k] = Breach(Seen(s, k))
        BY <2>0, <2>1
      <3>2. ~ Closed(row[k])
        BY <1>1, <1>2, <2>a, <2>1 DEF FitDraft, SameButOwner, Open, Closed, OpenStatuses,
                                       ClosedStatuses
      <3>3. ~ row[k].breached
        BY <1>2, <2>a, <2>1 DEF FitDraft
      <3> HIDE DEF g, K, p
      <3> QED BY <1>4, <1>8, <2>1, <3>1, <3>2, <3>3 DEF FitDraft
    <2>2. CASE k \notin K
      <3>1. k \in mine[s] /\ g[k] = draft[s][k] /\ Seen(s, k) = draft[s][k]
        BY <1>9, <2>0, <2>2 DEF Seen
      <3>2. FitDraft(k, g[k], {}, p)
        BY <1>1, <2>a, <3>1, FitStays
      <3> HIDE DEF g, K, p
      <3> QED BY <1>8, <2>2, <3>2 DEF FitDraft
    <2> QED BY <2>1, <2>2
  <1>10. ASSUME NEW k \in (mine[s] \cup K) \cap RunKeys
         PROVE  FitRoute(k, g[k], p, todo'[s], tier'[s])
    <2>0. k \in Keys /\ k \in RunKeys
      BY <1>1, <1>10, DraftFacts
    <2>1. Routed(Seen(s, k))
      <3>1. CASE k \in mine[s]
        <4>1. pc[s] = "scan"
          BY <3>1 DEF IInv, SessionOK, LocalOK
        <4> QED BY <2>0, <3>1, <4>1, DraftFacts DEF FitRoute, Seen
      <3>2. CASE k \notin mine[s]
        BY <2>0, <3>2 DEF Seen, IInv, RunRowsRouted, Routed
      <3> QED BY <3>1, <3>2
    <2>2. Routed(g[k])
      <3>1. CASE k \in K
        BY <1>4, <2>0, <2>1, <3>1
      <3>2. CASE k \notin K
        BY <1>10, <2>0, <2>1, <3>2 DEF Seen
      <3> QED BY <3>1, <3>2
    <2> HIDE DEF g, p
    <2> QED BY <1>7, <2>2 DEF FitRoute
  <1>11. \A k \in K : Free(s, k)
    BY <1>2
  <1> HIDE DEF g, p, K
  <1> QED BY <1>1, <1>5, <1>6, <1>7, <1>8, <1>9, <1>10, <1>11, WriteOK

LEMMA UploadOK ==
    ASSUME IInv, NEW s \in Sessions, NEW K \in SUBSET FileKeys, NEW t \in {2, 4}, Upload(s, K, t)
    PROVE  IInv'
  <1> DEFINE g == [k \in Keys |-> IF k \in K THEN Raised(t) ELSE draft[s][k]]
  <1>1. /\ pc[s] = "idle" /\ K \in SUBSET Keys /\ tier[s] = 2 /\ scanned[s] = {} /\ mine[s] = {}
        /\ t \in Tiers /\ K \cap RunKeys = {}
    BY KeysAssumption DEF Upload, Begin, IInv, SessionOK, LocalOK, Ending, Keys, Tiers
  <1>2. \A k \in K : Free(s, k) /\ row[k].status = "NONE"
    BY DEF Upload
  <1>3. g \in [Keys -> Exception]
    <2>1. Raised(t) \in Exception
      BY <1>1, RaisedFacts
    <2>2. \A k \in Keys : draft[s][k] \in Exception
      BY DEF IInv, TypeOK
    <2> QED BY <2>1, <2>2
  <1>4. /\ mine' = [mine EXCEPT ![s] = mine[s] \cup K] /\ draft' = [draft EXCEPT ![s] = g]
        /\ UNCHANGED <<row, due, events, chain, scanned, todo, tier>>
        /\ GoTo(s, "audit") /\ begun' \in Nat
    BY DEF Upload, Begin, Write, IInv, TypeOK
  <1>5. ASSUME NEW k \in mine[s] \cup K PROVE FitDraft(k, g[k], scanned'[s], "audit")
    <2>1. k \in K /\ k \in Keys /\ g[k] = Raised(t)
      BY <1>1, <1>5
    <2>2. FitDraft(k, Raised(t), {}, "audit")
      BY <1>1, <1>2, <2>1, FitRaised
    <2> QED BY <1>1, <1>4, <2>1, <2>2
  <1>6. (mine[s] \cup K) \cap RunKeys = {}
    BY <1>1
  <1>7. /\ "audit" \in Places \ {"idle"} /\ "audit" \in Ending
        /\ chain' \in Sessions \cup {None}
        /\ scanned' \in [Sessions -> SUBSET Keys]
        /\ todo' \in [Sessions -> SUBSET Keys] /\ tier' \in [Sessions -> 2 .. 4]
        /\ \A u \in Sessions \ {s} :
               scanned'[u] = scanned[u] /\ todo'[u] = todo[u] /\ tier'[u] = tier[u]
        /\ scanned'[s] = {} /\ tier'[s] = 2
    BY <1>1, <1>4 DEF IInv, TypeOK, Places, Ending
  <1> HIDE DEF g
  <1> QED BY <1>1, <1>2, <1>3, <1>4, <1>5, <1>6, <1>7, WriteOK

\* A person's request, whose new row is fit and routed.
LEMMA RequestOK ==
    ASSUME IInv, NEW s \in Sessions, NEW j \in Keys, NEW fit, NEW new \in Exception,
           Request(s, j, fit, new),
           FitDraft(j, new, {}, "audit"), j \in RunKeys => Routed(new)
    PROVE  IInv'
  <1> DEFINE K == {j}
             g == [k \in Keys |-> IF k \in K THEN new ELSE draft[s][k]]
  <1>1. /\ pc[s] = "idle" /\ K \in SUBSET Keys /\ tier[s] = 2 /\ scanned[s] = {} /\ mine[s] = {}
        /\ Free(s, j)
    BY DEF Request, Begin, IInv, SessionOK, LocalOK, Ending
  <1>2. g \in [Keys -> Exception]
    BY DEF IInv, TypeOK
  <1>3. /\ mine' = [mine EXCEPT ![s] = mine[s] \cup K] /\ draft' = [draft EXCEPT ![s] = g]
        /\ UNCHANGED <<row, due, events, chain, scanned, todo, tier>>
        /\ GoTo(s, "audit") /\ begun' \in Nat
    BY DEF Request, Begin, Write, IInv, TypeOK
  <1>4. /\ "audit" \in Places \ {"idle"} /\ "audit" \in Ending
        /\ chain' \in Sessions \cup {None}
        /\ scanned' \in [Sessions -> SUBSET Keys]
        /\ todo' \in [Sessions -> SUBSET Keys] /\ tier' \in [Sessions -> 2 .. 4]
        /\ \A u \in Sessions \ {s} :
               scanned'[u] = scanned[u] /\ todo'[u] = todo[u] /\ tier'[u] = tier[u]
        /\ scanned'[s] = {} /\ tier'[s] = 2
    BY <1>1, <1>3 DEF IInv, TypeOK, Places, Ending
  <1>5. \A k \in mine[s] \cup K : k = j /\ g[k] = new
    BY <1>1
  <1>6. \A k \in mine[s] \cup K : FitDraft(k, g[k], scanned'[s], "audit")
    BY <1>4, <1>5
  <1>7. \A k \in (mine[s] \cup K) \cap RunKeys : FitRoute(k, g[k], "audit", todo'[s], tier'[s])
    BY <1>5 DEF FitRoute
  <1>8. \A k \in K : Free(s, k)
    BY <1>1
  <1> HIDE DEF g, K
  <1> QED BY <1>1, <1>2, <1>3, <1>4, <1>6, <1>7, <1>8, WriteOK

\* A committed row, and that of what a run raised.
LEMMA RowFacts ==
    ASSUME IInv, NEW k \in Keys
    PROVE  /\ row[k] \in Exception /\ Sound(row[k])
           /\ k \in RunKeys => Routed(row[k])
           /\ Open(row[k]) => ~ Closed(row[k])
  BY DEF IInv, TypeOK, RowsSound, RunRowsRouted, Routed, Open, Closed, OpenStatuses,
         ClosedStatuses

LEMMA ResolveOK ==
    ASSUME IInv, NEW s \in Sessions, NEW k \in Keys, NEW outcome \in ClosedStatuses,
           NEW role \in {"ANALYST", "ADMIN"}, resolve_exception(s, k, outcome, role)
    PROVE  IInv'
  <1> DEFINE x == row[k]
             y == Closing(x, outcome, role)
             fit == Open(x) /\ role \in {"ADMIN", role_needed(x, outcome)}
  <1>1. x \in Exception /\ role \in Closers /\ Request(s, k, fit, y)
    BY RowFacts DEF resolve_exception, Closers
  <1>2. fit
    <2> HIDE DEF y, fit
    <2> QED BY <1>1 DEF Request
  <1>3. /\ y \in Exception /\ y.status = outcome /\ y.tier = x.tier /\ y.closer = role
        /\ y.breached = x.breached /\ Routed(y)
    BY <1>1, ClosingFacts
  <1>4. Open(x) /\ ~ Closed(x)
    BY <1>2, RowFacts
  <1>5. Sound(y)
    <2> HIDE DEF x, y
    <2> QED BY <1>2, <1>3 DEF fit, Sound, role_needed, ClosedStatuses
  <1>6. FitDraft(k, y, {}, "audit")
    <2> HIDE DEF y
    <2> QED BY <1>3, <1>4, <1>5 DEF FitDraft
  <1> HIDE DEF x, y, fit
  <1> QED BY <1>1, <1>3, <1>6, RequestOK

LEMMA AssignOK ==
    ASSUME IInv, NEW s \in Sessions, NEW k \in Keys, NEW assignee \in Assignees,
           assign_exception(s, k, assignee)
    PROVE  IInv'
  <1> DEFINE x == row[k]
             y == [x EXCEPT !.owner = assignee]
             fit == Open(x)
  <1>1. x \in Exception /\ Sound(x) /\ Request(s, k, fit, y)
    BY RowFacts DEF assign_exception
  <1>2. ~ Closed(x)
    BY <1>1, RowFacts DEF Request
  <1>3. assignee \in {None} \cup Queues \cup People /\ assignee # None
    BY NamesAssumption
  <1>4. y \in Exception /\ y.owner = assignee /\ SameButOwner(x, y) /\ Sound(y)
    BY <1>1, <1>3, OwnerFacts
  <1> HIDE DEF y
  <1>5. Routed(y)
    BY <1>3, <1>4 DEF Routed
  <1>6. FitDraft(k, y, {}, "audit")
    BY <1>2, <1>4 DEF FitDraft, SameButOwner
  <1> HIDE DEF x, fit
  <1> QED BY <1>1, <1>4, <1>5, <1>6, RequestOK

LEMMA OverrideOK ==
    ASSUME IInv, NEW s \in Sessions, NEW k \in Keys, NEW t \in Tiers, override_exception(s, k, t)
    PROVE  IInv'
  <1> DEFINE x == row[k]
             y == [x EXCEPT !.tier = t, !.owner = IF is_queue(@) THEN queue_for_tier(t) ELSE @]
             fit == Open(x)
  <1>1. x \in Exception /\ Sound(x) /\ Request(s, k, fit, y)
    BY RowFacts DEF override_exception
  <1>2. Open(x) /\ ~ Closed(x)
    BY <1>1, RowFacts DEF Request
  <1>3. y \in Exception /\ y.breached = x.breached /\ Sound(y) /\ Routed(y)
    BY <1>1, <1>2, TierFacts
  <1> HIDE DEF y
  <1>4. FitDraft(k, y, {}, "audit")
    BY <1>2, <1>3 DEF FitDraft
  <1> HIDE DEF x, fit
  <1> QED BY <1>1, <1>3, <1>4, RequestOK

LEMMA ReopenOK ==
    ASSUME IInv, NEW s \in Sessions, NEW k \in Keys, reopen_exception(s, k)
    PROVE  IInv'
  <1> DEFINE x == row[k]
             y == Reopened(x)
             fit == Closed(x)
  <1>1. x \in Exception /\ Request(s, k, fit, y)
    BY RowFacts DEF reopen_exception
  <1>2. /\ y \in Exception /\ y.breached = x.breached /\ y.status = "REOPENED"
        /\ Sound(y) /\ Routed(y)
    BY <1>1, ReopenedFacts
  <1> HIDE DEF y
  <1>3. FitDraft(k, y, {}, "audit")
    BY <1>2 DEF FitDraft, Ending
  <1> HIDE DEF x, fit
  <1> QED BY <1>1, <1>2, <1>3, RequestOK

LEMMA DeadlineOK == ASSUME IInv, NEW k \in Keys, DeadlinePasses(k) PROVE IInv'
  <1>1. TypeOK'
    BY DEF IInv, TypeOK, DeadlinePasses
  <1>2. Exclusive' /\ RowsSound' /\ BreachesOnce' /\ RunRowsRouted'
    BY DEF IInv, Exclusive, RowsSound, BreachesOnce, RunRowsRouted, DeadlinePasses
  <1>3. \A s \in Sessions : SessionOK(s)'
    BY SessionKept DEF IInv, DeadlinePasses
  <1> QED BY <1>1, <1>2, <1>3 DEF IInv
-----------------------------------------------------------------------------
(* Commit.                                                                 *)

\* What is committed, and how it differs from what was there.
LEMMA Committed ==
    ASSUME IInv, NEW s \in Sessions, Commit(s), NEW k \in Keys
    PROVE  /\ row'[k] \in Exception /\ Sound(row'[k])
           /\ k \in RunKeys => Routed(row'[k])
           /\ row'[k].breached <=> row[k].breached \/ k \in scanned[s]
           /\ k \in scanned[s] => ~ row[k].breached
           /\ events'[k] = IF k \in scanned[s] THEN events[k] + 1 ELSE events[k]
           /\ Closed(row[k]) => row'[k].status = "REOPENED" \/ SameButOwner(row[k], row'[k])
           /\ k \notin mine[s] => row'[k] = row[k]
  <1>1. events'[k] = IF k \in scanned[s] THEN events[k] + 1 ELSE events[k]
    BY DEF Commit
  <1>2. row'[k] = IF k \in mine[s] THEN draft[s][k] ELSE row[k]
    BY DEF Commit
  <1>3. CASE k \in mine[s]
    <2>1. pc[s] = "commit"
      BY DEF Commit
    <2>2. /\ draft[s][k] \in Exception /\ FitDraft(k, draft[s][k], scanned[s], "commit")
          /\ k \in RunKeys => Routed(draft[s][k])
      BY <1>3, <2>1, DraftFacts DEF FitRoute, Ending
    <2>3. row'[k] = draft[s][k]
      BY <1>2, <1>3
    <2> QED BY <1>1, <1>3, <2>2, <2>3 DEF FitDraft
  <1>4. CASE k \notin mine[s]
    <2>1. k \notin scanned[s]
      BY <1>4 DEF IInv, SessionOK, LocalOK
    <2>2. row'[k] = row[k]
      BY <1>2, <1>4
    <2> QED BY <1>1, <2>1, <2>2, RowFacts DEF SameButOwner
  <1> QED BY <1>3, <1>4

LEMMA CommitOK == ASSUME IInv, NEW s \in Sessions, Commit(s) PROVE IInv'
  <1>0. EndTxn(s) /\ TypeOK /\ Exclusive
    BY DEF Commit, IInv
  <1>1. row' \in [Keys -> Exception]
    <2>1. \A k \in Keys : row'[k] \in Exception
      BY Committed
    <2>2. row' = [k \in Keys |-> row'[k]]
      BY DEF Commit
    <2> QED BY <2>1, <2>2
  <1>2. events' \in [Keys -> Nat]
    BY <1>0 DEF Commit, TypeOK
  <1>3. TypeOK'
    BY <1>0, <1>1, <1>2, Ended DEF TypeOK, Places
  <1>4. RowsSound'
    BY Committed DEF RowsSound
  <1>5. RunRowsRouted'
    <2>1. \A k \in RunKeys : k \in Keys /\ Routed(row'[k])
      BY Committed DEF Keys
    <2> QED BY <2>1 DEF RunRowsRouted, Routed
  <1>6. BreachesOnce'
    <2>1. ASSUME NEW k \in Keys PROVE events'[k] = IF row'[k].breached THEN 1 ELSE 0
      <3>1. events[k] = IF row[k].breached THEN 1 ELSE 0
        BY DEF IInv, BreachesOnce
      <3>2. CASE k \in scanned[s]
        <4>1. ~ row[k].breached /\ row'[k].breached /\ events'[k] = events[k] + 1
          BY <3>2, Committed
        <4> QED BY <3>1, <4>1
      <3>3. CASE k \notin scanned[s]
        <4>1. (row[k].breached <=> row'[k].breached) /\ events'[k] = events[k]
          BY <3>3, Committed
        <4> QED BY <3>1, <4>1
      <3> QED BY <3>2, <3>3
    <2> QED BY <2>1 DEF BreachesOnce
  <1>7. Exclusive' /\ Only(s) /\ SessionOK(s)'
    BY <1>0, Ended
  <1>8. ASSUME NEW t \in Sessions PROVE SessionOK(t)'
    <2>1. CASE t = s
      BY <1>7, <2>1
    <2>2. CASE t # s
      <3>1. \A k \in mine[t] : k \in Keys /\ k \notin mine[s]
        BY <1>0, <2>2 DEF Exclusive, TypeOK
      <3>2. \A k \in mine[t] : row'[k] = row[k]
        BY <3>1, Committed
      <3>3. SessionOK(t)
        BY DEF IInv
      <3> QED BY <1>7, <2>2, <3>2, <3>3, SessionKept DEF Only
    <2> QED BY <2>1, <2>2
  <1> QED BY <1>3, <1>4, <1>5, <1>6, <1>7, <1>8 DEF IInv

-----------------------------------------------------------------------------
(* The theorems.                                                           *)

LEMMA NextOK == IInv /\ [Next]_vars => IInv'
  <1> SUFFICES ASSUME IInv, [Next]_vars PROVE IInv'
    OBVIOUS
  <1>1. ASSUME NEW s \in Sessions, Step(s) PROVE IInv'
    <2>1. ASSUME NEW route \in Routes(todo[s]), InsertRows(s, route) PROVE IInv'
      BY <2>1, InsertRowsOK
    <2>2. CASE InsertConflict(s)
      BY <2>2, EndOK DEF InsertConflict
    <2>3. CASE AuditCreated(s)
      BY <2>3, AuditCreatedOK
    <2>4. CASE EndClassify(s)
      BY <2>4, EndClassifyOK
    <2>5. ASSUME NEW done \in SUBSET mine[s], AutoResolve(s, done) PROVE IInv'
      BY <2>5, AutoResolveOK
    <2>6. CASE SelectQueue(s)
      BY <2>6, SelectQueueOK
    <2>7. ASSUME NEW k \in Keys, UpdateRow(s, k) PROVE IInv'
      BY <2>7, UpdateRowOK
    <2>8. CASE ScanInRun(s)
      BY <2>8, ScanOK DEF ScanInRun, IInv, TypeOK
    <2>9. CASE Audit(s)
      BY <2>9, AuditOK
    <2>10. CASE Commit(s)
      BY <2>10, CommitOK
    <2> QED
      BY <1>1, <2>1, <2>2, <2>3, <2>4, <2>5, <2>6, <2>7, <2>8, <2>9, <2>10 DEF Step
  <1>2. ASSUME NEW s \in Sessions, BeginRun(s) PROVE IInv'
    BY <1>2, BeginRunOK
  <1>3. ASSUME NEW s \in Sessions, NEW candidates \in SUBSET RunKeys, ReadKeys(s, candidates)
        PROVE  IInv'
    BY <1>3, ReadKeysOK
  <1>4. ASSUME NEW s \in Sessions, run_sla_scan(s) PROVE IInv'
    BY <1>4, ScanOK DEF run_sla_scan, Begin, IInv, TypeOK
  <1>5. ASSUME NEW s \in Sessions, NEW K \in SUBSET FileKeys, NEW t \in {2, 4}, Upload(s, K, t)
        PROVE  IInv'
    BY <1>5, UploadOK
  <1>6. ASSUME NEW s \in Sessions, NEW k \in Keys, NEW outcome \in ClosedStatuses,
               NEW role \in {"ANALYST", "ADMIN"}, resolve_exception(s, k, outcome, role)
        PROVE  IInv'
    BY <1>6, ResolveOK
  <1>7. ASSUME NEW s \in Sessions, NEW k \in Keys, NEW assignee \in Assignees,
               assign_exception(s, k, assignee)
        PROVE  IInv'
    BY <1>7, AssignOK
  <1>8. ASSUME NEW s \in Sessions, NEW k \in Keys, NEW t \in Tiers, override_exception(s, k, t)
        PROVE  IInv'
    BY <1>8, OverrideOK
  <1>9. ASSUME NEW s \in Sessions, NEW k \in Keys, reopen_exception(s, k) PROVE IInv'
    BY <1>9, ReopenOK
  <1>10. ASSUME NEW s \in Sessions, Fail(s) \/ DeadlockVictim(s) PROVE IInv'
    BY <1>10, EndOK DEF Fail, DeadlockVictim
  <1>11. ASSUME NEW k \in Keys, DeadlinePasses(k) PROVE IInv'
    BY <1>11, DeadlineOK
  <1>12. CASE UNCHANGED vars
    BY <1>12 DEF vars, IInv, TypeOK, Exclusive, RowsSound, BreachesOnce, RunRowsRouted,
                 SessionOK, LocalOK, DraftSound, DraftStamp, DraftFollows, DraftRouted
  <1> QED
    BY <1>1, <1>2, <1>3, <1>4, <1>5, <1>6, <1>7, <1>8, <1>9, <1>10, <1>11, <1>12 DEF Next

\* Rows, drafts and the transactions' places agree in every reachable state.
THEOREM Inductive == Spec => []IInv
  <1>1. Init => IInv
    BY InitOK
  <1>2. IInv /\ [Next]_vars => IInv'
    BY NextOK
  <1> QED BY <1>1, <1>2, PTL DEF Spec

\* Exceptions, drafts and transactions keep their types.
THEOREM TypeCorrect == Spec => []TypeOK
  <1>1. IInv => TypeOK
    BY DEF IInv
  <1> QED BY <1>1, Inductive, PTL

\* resolve_exception: write-offs and closures at tier 3 or 4 are an ADMIN's.
THEOREM ClosedBySeniors == Spec => []SeniorCloses
  <1>1. IInv => SeniorCloses
    BY DEF IInv, RowsSound, Sound, SeniorCloses
  <1> QED BY <1>1, Inductive, PTL

\* SlaScanner.scan: an exception is stamped and recorded at most once, together.
THEOREM BreachedOnce == Spec => []BreachesOnce
  <1>1. IInv => BreachesOnce
    BY DEF IInv
  <1> QED BY <1>1, Inductive, PTL

\* EscalationManager.process: what a run raised is never open above tier 1
\* without an owner.
THEOREM Routing == Spec => []RunRowsRouted
  <1>1. IInv => RunRowsRouted
    BY DEF IInv
  <1> QED BY <1>1, Inductive, PTL

\* A closed exception is only ever reopened.
THEOREM ClosedForGood == Spec => ClosedStaysClosed
  <1> DEFINE Kept == \A k \in Keys : Closed(row[k]) =>
                       \/ row'[k].status = "REOPENED"
                       \/ SameButOwner(row[k], row'[k])
  <1>1. IInv /\ [Next]_vars => [Kept]_vars
    <2> SUFFICES ASSUME IInv, Next PROVE Kept
      OBVIOUS
    <2>1. CASE row' = row
      BY <2>1 DEF SameButOwner
    <2>2. ASSUME NEW s \in Sessions, Commit(s) PROVE Kept
      BY <2>2, Committed
    <2>3. ASSUME NEW s \in Sessions, Step(s) PROVE (row' = row) \/ Commit(s)
      <3>1. ASSUME NEW route, InsertRows(s, route) PROVE row' = row
        BY <3>1 DEF InsertRows
      <3>2. ASSUME NEW done, AutoResolve(s, done) PROVE row' = row
        BY <3>2 DEF AutoResolve
      <3>3. ASSUME NEW k, UpdateRow(s, k) PROVE row' = row
        BY <3>3 DEF UpdateRow
      <3>4. InsertConflict(s) \/ AuditCreated(s) \/ EndClassify(s) \/ SelectQueue(s) \/ Audit(s)
                => row' = row
        BY DEF InsertConflict, AuditCreated, EndClassify, SelectQueue, Audit
      <3>5. ScanInRun(s) => row' = row
        BY DEF ScanInRun, Scan
      <3> QED BY <2>3, <3>1, <3>2, <3>3, <3>4, <3>5 DEF Step
    <2>4. ASSUME NEW s \in Sessions, NEW k, NEW fit, NEW new, Request(s, k, fit, new)
          PROVE  row' = row
      BY <2>4 DEF Request
    <2>5. ASSUME NEW s \in Sessions, NEW k \in Keys,
                 \/ \E outcome \in ClosedStatuses, role \in {"ANALYST", "ADMIN"} :
                      resolve_exception(s, k, outcome, role)
                 \/ \E assignee \in Assignees : assign_exception(s, k, assignee)
                 \/ \E t \in Tiers : override_exception(s, k, t)
                 \/ reopen_exception(s, k)
          PROVE  row' = row
      BY <2>4, <2>5 DEF resolve_exception, assign_exception, override_exception, reopen_exception
    <2>6. ASSUME NEW s \in Sessions, NEW K, NEW t, Upload(s, K, t) PROVE row' = row
      BY <2>6 DEF Upload
    <2>7. ASSUME NEW s \in Sessions, NEW C, ReadKeys(s, C) PROVE row' = row
      BY <2>7 DEF ReadKeys
    <2>8. ASSUME NEW s \in Sessions,
                 BeginRun(s) \/ run_sla_scan(s) \/ Fail(s) \/ DeadlockVictim(s)
          PROVE  row' = row
      BY <2>8 DEF BeginRun, run_sla_scan, Scan, Fail, DeadlockVictim
    <2>9. ASSUME NEW k \in Keys, DeadlinePasses(k) PROVE row' = row
      BY <2>9 DEF DeadlinePasses
    <2>10. (row' = row) \/ \E s \in Sessions : Commit(s)
      BY <2>3, <2>5, <2>6, <2>7, <2>8, <2>9 DEF Next
    <2> QED BY <2>1, <2>2, <2>10
  <1> QED BY <1>1, Inductive, PTL DEF Spec, ClosedStaysClosed
=============================================================================
