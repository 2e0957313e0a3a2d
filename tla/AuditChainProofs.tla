-------------------------- MODULE AuditChainProofs --------------------------
(***************************************************************************)
(* Proofs about AuditChain.  A chain verifies because it is linked: row i  *)
(* has number i, row i - 1's hash and the hash of itself.  Appending to a  *)
(* linked chain keeps it linked if the head that was read is still its     *)
(* head, which holds because the advisory lock lasts until the transaction *)
(* ends; so open rows are always next in line after the committed ones.    *)
(***************************************************************************)
EXTENDS AuditChain, TLAPS, SequenceTheorems

RowLinked(c, rows, i) ==
    /\ rows[i].seq = i
    /\ rows[i].version = SERIALISATION_VERSION
    /\ rows[i].prev = PreviousHash(rows, i)
    /\ rows[i].hash = compute_hash(c, rows[i])

Linked(c, rows) == \A i \in DOMAIN rows : RowLinked(c, rows, i)

\* Rows not yet committed, and the statements after the lock, are the lock
\* owner's alone; a session inside append() has a chain.
OpenOwned == \A s \in Sessions, c \in Chains : open[s][c] # <<>> => owner[c] = s
WantsChain == \A s \in Sessions : pc[s] # "idle" => want[s] \in Chains
AppendOwned == \A s \in Sessions : pc[s] \in {"read", "insert"} => owner[want[s]] = s

LogLinked == \A c \in Chains : Linked(c, log[c])
OpenLinked == \A s \in Sessions, c \in Chains : Linked(c, log[c] \o open[s][c])

\* An anchor is the head its chain had when it was as long.
AnchorTrue ==
    \A c \in Chains :
        /\ anchor[c].seq <= Len(log[c])
        /\ anchor[c].seq > 0 => anchor[c].hash = log[c][anchor[c].seq].hash

IInv ==
    /\ TypeOK
    /\ WantsChain
    /\ OpenOwned
    /\ AppendOwned
    /\ HeadStaysCurrent
    /\ LogLinked
    /\ OpenLinked
    /\ AnchorTrue

-----------------------------------------------------------------------------

\* A concatenation starts with its first part.
LEMMA ConcatPrefix ==
    ASSUME NEW S, NEW p \in Seq(S), NEW q \in Seq(S)
    PROVE  /\ Len(p) \in Nat /\ Len(q) \in Nat
           /\ Len(p \o q) = Len(p) + Len(q)
           /\ \A i \in 1 .. Len(p) : (p \o q)[i] = p[i]
  <1>1. Len(p) \in Nat /\ Len(q) \in Nat
    BY LenProperties
  <1>2. /\ Len(p \o q) = Len(p) + Len(q)
        /\ \A i \in 1 .. Len(p) + Len(q) : (p \o q)[i] =
                IF i <= Len(p) THEN p[i] ELSE q[i - Len(p)]
    BY ConcatProperties
  <1>3. \A i \in 1 .. Len(p) : i \in 1 .. Len(p) + Len(q) /\ i <= Len(p)
    BY <1>1
  <1> QED BY <1>1, <1>2, <1>3

\* Appending to the second part of a concatenation appends to the whole.
LEMMA ConcatAppend ==
    ASSUME NEW S, NEW p \in Seq(S), NEW q \in Seq(S), NEW x \in S
    PROVE  p \o Append(q, x) = Append(p \o q, x)
  <1>1. Append(q, x) = q \o <<x>> /\ <<x>> \in Seq(S)
    BY AppendIsConcat
  <1>2. p \o q \in Seq(S)
    BY ConcatProperties
  <1>3. Append(p \o q, x) = (p \o q) \o <<x>>
    BY <1>2, AppendIsConcat
  <1> QED BY <1>1, <1>3, ConcatAssociative

\* compute_hash yields a hash.
LEMMA HashType ==
    ASSUME NEW c \in Chains, NEW row \in [seq : Nat, entry : Entries, version : Versions,
                                          prev : Hash, hash : Hash]
    PROVE  compute_hash(c, row) \in Hash
  BY DEF compute_hash, Hash, Hashed

\* The row append() builds is well formed.
LEMMA NewRowType ==
    ASSUME NEW c \in Chains, NEW h \in ChainHead, NEW e \in Entries
    PROVE  NewRow(c, h, e) \in Row
  <1> DEFINE row == [seq |-> h.seq + 1, entry |-> e, version |-> SERIALISATION_VERSION,
                     prev |-> h.hash, hash |-> NoHash]
  <1>1. row \in Row
    BY DEF Row, ChainHead, Versions, Hash, NoHash, Hashed
  <1>2. compute_hash(c, row) \in Hash
    BY <1>1, HashType DEF Row
  <1> QED BY <1>1, <1>2 DEF NewRow, Row

\* The head of a chain is a head.
LEMMA HeadType ==
    ASSUME NEW rows \in Seq(Row)
    PROVE  chain_head(rows) \in ChainHead
  <1>1. CASE rows = <<>>
    BY <1>1 DEF chain_head, ChainHead, NoHead, NoHash, Hash
  <1>2. CASE rows # <<>>
    <2>1. Len(rows) \in DOMAIN rows
      BY <1>2, EmptySeq, LenProperties
    <2>2. rows[Len(rows)] \in Row
      BY <2>1
    <2> QED BY <1>2, <2>2 DEF chain_head, ChainHead, Row
  <1> QED BY <1>1, <1>2

\* The fields of a new row.
LEMMA NewRowFields ==
    ASSUME NEW c \in Chains, NEW h \in ChainHead, NEW e \in Entries
    PROVE  /\ NewRow(c, h, e).seq = h.seq + 1
           /\ NewRow(c, h, e).version = SERIALISATION_VERSION
           /\ NewRow(c, h, e).prev = h.hash
           /\ NewRow(c, h, e).hash = compute_hash(c, NewRow(c, h, e))
  BY DEF NewRow, compute_hash

\* A row built on the head of a linked chain extends it to a linked chain.
LEMMA AppendLinked ==
    ASSUME NEW c \in Chains, NEW rows \in Seq(Row), NEW e \in Entries,
           Linked(c, rows)
    PROVE  Linked(c, Append(rows, NewRow(c, chain_head(rows), e)))
  <1> DEFINE h == chain_head(rows)
             row == NewRow(c, h, e)
             new == Append(rows, row)
  <1>1. h \in ChainHead /\ row \in Row
    BY HeadType, NewRowType
  <1>2. /\ new \in Seq(Row)
        /\ Len(new) = Len(rows) + 1
        /\ \A i \in 1 .. Len(rows) : new[i] = rows[i]
        /\ new[Len(rows) + 1] = row
    BY <1>1, AppendProperties
  <1>3. DOMAIN new = 1 .. Len(rows) + 1 /\ DOMAIN rows = 1 .. Len(rows) /\ Len(rows) \in Nat
    BY <1>2, LenProperties
  <1>4. SUFFICES ASSUME NEW i \in 1 .. Len(rows) + 1
                 PROVE  RowLinked(c, new, i)
    BY <1>3 DEF Linked
  <1>5. CASE i \in 1 .. Len(rows)
    <2>1. RowLinked(c, rows, i)
      BY <1>3, <1>5 DEF Linked
    <2>2. new[i] = rows[i]
      BY <1>2, <1>5
    <2>3. PreviousHash(new, i) = PreviousHash(rows, i)
      BY <1>2, <1>3, <1>5 DEF PreviousHash
    <2> QED BY <2>1, <2>2, <2>3 DEF RowLinked
  <1>6. CASE i = Len(rows) + 1
    <2>1. /\ row.seq = h.seq + 1
          /\ row.version = SERIALISATION_VERSION
          /\ row.prev = h.hash
          /\ row.hash = compute_hash(c, row)
      BY <1>1, NewRowFields
    <2>2. new[i] = row
      BY <1>2, <1>6
    <2>3. CASE Len(rows) = 0
      <3>1. rows = <<>> BY <2>3, EmptySeq
      <3>2. h.seq = 0 /\ h.hash = NoHash
        BY <3>1 DEF chain_head, NoHead
      <3> HIDE DEF h, row, new
      <3> QED BY <2>1, <2>2, <2>3, <3>2, <1>6 DEF RowLinked, PreviousHash
    <2>4. CASE Len(rows) # 0
      <3>1. rows # <<>> BY <2>4, EmptySeq
      <3>2. h.seq = rows[Len(rows)].seq /\ h.hash = rows[Len(rows)].hash
        BY <3>1 DEF chain_head
      <3>3. Len(rows) \in DOMAIN rows BY <1>3, <2>4
      <3>4. rows[Len(rows)].seq = Len(rows)
        BY <3>3 DEF Linked, RowLinked
      <3>5. new[i - 1] = rows[Len(rows)] /\ i # 1
        <4> HIDE DEF new
        <4>1. i - 1 = Len(rows) /\ Len(rows) \in 1 .. Len(rows) BY <1>3, <1>6, <2>4
        <4> QED BY <4>1, <1>2, <1>3
      <3>6. PreviousHash(new, i) = rows[Len(rows)].hash
        BY <3>5 DEF PreviousHash
      <3> HIDE DEF h, row, new
      <3> QED BY <2>1, <2>2, <3>2, <3>4, <3>6, <1>6 DEF RowLinked
    <2> QED BY <2>3, <2>4
  <1> QED BY <1>3, <1>4, <1>5, <1>6

\* A linked chain passes the walk.
LEMMA LinkedVerifies ==
    ASSUME NEW c \in Chains, NEW rows \in Seq(Row), Linked(c, rows)
    PROVE  verify_chain(c, rows, NoHead) = Passed
  <1>1. \A i \in DOMAIN rows : CheckRow(c, rows, i) = "ok"
    BY DEF Linked, RowLinked, CheckRow
  <1>2. {i \in DOMAIN rows : CheckRow(c, rows, i) # "ok"} = {}
    BY <1>1
  <1> QED BY <1>2 DEF verify_chain
-----------------------------------------------------------------------------
(* The invariant.                                                          *)

LEMMA InitIInv == Init => IInv
  <1> SUFFICES ASSUME Init PROVE IInv
    OBVIOUS
  <1> USE DEF Init
  <1>1. TypeOK
    BY EmptySeq DEF TypeOK, NoHead, ChainHead, NoHash, Hash
  <1>2. WantsChain /\ OpenOwned /\ AppendOwned /\ HeadStaysCurrent
    BY DEF WantsChain, OpenOwned, AppendOwned, HeadStaysCurrent
  <1>3. LogLinked
    BY DEF LogLinked, Linked
  <1>4. OpenLinked
    <2> SUFFICES ASSUME NEW s \in Sessions, NEW c \in Chains
                 PROVE  Linked(c, log[c] \o open[s][c])
      BY DEF OpenLinked
    <2>1. log[c] \o open[s][c] = <<>>
      BY EmptySeq, ConcatEmptySeq
    <2> QED BY <2>1 DEF Linked
  <1>5. AnchorTrue
    <2>1. ASSUME NEW c \in Chains
          PROVE  anchor[c].seq <= Len(log[c]) /\ ~ (anchor[c].seq > 0)
      <3>1. anchor[c].seq = 0 /\ Len(log[c]) = 0
        BY DEF NoHead
      <3> HIDE DEF Init
      <3> QED BY <3>1
    <2> QED BY <2>1, Zenon DEF AnchorTrue
  <1> QED BY <1>1, <1>2, <1>3, <1>4, <1>5 DEF IInv

\* The rows a session sees are rows.
LEMMA SeenType ==
    ASSUME TypeOK, NEW s \in Sessions, NEW c \in Chains
    PROVE  log[c] \in Seq(Row) /\ open[s][c] \in Seq(Row) /\ SeenRows(s, c) \in Seq(Row)
  BY ConcatProperties DEF TypeOK, SeenRows

\* Ending a transaction, by commit or rollback, keeps the locks consistent.
LEMMA EndTxnStep ==
    ASSUME IInv, NEW s \in Sessions, EndTxn(s)
    PROVE  /\ open' \in [Sessions -> [Chains -> Seq(Row)]]
           /\ owner' \in [Chains -> Sessions \cup {None}]
           /\ pc' \in [Sessions -> {"idle", "lock", "read", "insert"}]
           /\ want' \in [Sessions -> Chains \cup {None}]
           /\ head' \in [Sessions -> ChainHead]
           /\ WantsChain'
           /\ OpenOwned'
           /\ AppendOwned'
           /\ \A t \in Sessions \ {s} : /\ open'[t] = open[t] /\ pc'[t] = pc[t]
                                        /\ want'[t] = want[t] /\ head'[t] = head[t]
           /\ \A c \in Chains : open'[s][c] = <<>>
           /\ pc'[s] = "idle"
  <1> USE DEF IInv, EndTxn, Returned
  <1>1. /\ open' \in [Sessions -> [Chains -> Seq(Row)]]
        /\ owner' \in [Chains -> Sessions \cup {None}]
        /\ pc' \in [Sessions -> {"idle", "lock", "read", "insert"}]
        /\ want' \in [Sessions -> Chains \cup {None}]
    BY EmptySeq DEF TypeOK
  <1>5. head' \in [Sessions -> ChainHead]
    BY DEF TypeOK, NoHead, ChainHead, NoHash, Hash
  <1>2. /\ \A t \in Sessions \ {s} : /\ open'[t] = open[t] /\ pc'[t] = pc[t]
                                     /\ want'[t] = want[t] /\ head'[t] = head[t]
        /\ \A c \in Chains : open'[s][c] = <<>>
        /\ pc'[s] = "idle"
    BY DEF TypeOK
  <1>3. OpenOwned'
    BY <1>2 DEF OpenOwned, TypeOK
  <1>4. AppendOwned'
    <2> SUFFICES ASSUME NEW t \in Sessions, pc'[t] \in {"read", "insert"}
                 PROVE  owner'[want'[t]] = t
      BY DEF AppendOwned
    <2>1. t # s /\ pc[t] \in {"read", "insert"} /\ want'[t] = want[t]
      BY <1>2
    <2>2. want[t] \in Chains /\ owner[want[t]] = t
      BY <2>1 DEF AppendOwned, WantsChain
    <2> QED BY <2>1, <2>2
  <1>6. WantsChain'
    BY <1>2 DEF WantsChain
  <1> QED BY <1>1, <1>2, <1>3, <1>4, <1>5, <1>6

\* A transaction that is rolled back leaves the chains as they were.
LEMMA RollbackKeeps ==
    ASSUME IInv, NEW s \in Sessions, EndTxn(s), UNCHANGED log
    PROVE  IInv'
  <1>1. /\ open' \in [Sessions -> [Chains -> Seq(Row)]]
        /\ owner' \in [Chains -> Sessions \cup {None}]
        /\ pc' \in [Sessions -> {"idle", "lock", "read", "insert"}]
        /\ want' \in [Sessions -> Chains \cup {None}]
        /\ head' \in [Sessions -> ChainHead]
        /\ WantsChain'
        /\ OpenOwned'
        /\ AppendOwned'
        /\ \A t \in Sessions \ {s} : /\ open'[t] = open[t] /\ pc'[t] = pc[t]
                                     /\ want'[t] = want[t] /\ head'[t] = head[t]
        /\ \A c \in Chains : open'[s][c] = <<>>
        /\ pc'[s] = "idle"
    BY EndTxnStep
  <1>2. UNCHANGED anchor
    BY DEF EndTxn
  <1>3. TypeOK'
    BY <1>1, <1>2 DEF IInv, TypeOK
  <1>4. HeadStaysCurrent'
    BY <1>1, <1>2 DEF IInv, HeadStaysCurrent
  <1>5. LogLinked' /\ AnchorTrue'
    BY <1>2 DEF IInv, LogLinked, AnchorTrue
  <1>6. OpenLinked'
    <2> SUFFICES ASSUME NEW t \in Sessions, NEW c \in Chains
                 PROVE  Linked(c, log[c] \o open'[t][c])
      BY DEF OpenLinked
    <2>1. CASE t # s
      BY <1>1, <2>1 DEF IInv, OpenLinked
    <2>2. CASE t = s
      <3>1. log[c] \o open'[t][c] = log[c]
        BY <1>1, <2>2, ConcatEmptySeq DEF IInv, TypeOK
      <3> QED BY <3>1 DEF IInv, LogLinked
    <2> QED BY <2>1, <2>2
  <1> QED BY <1>1, <1>3, <1>4, <1>5, <1>6 DEF IInv

\* A commit moves the open rows behind the committed ones.
LEMMA CommitKeeps ==
    ASSUME IInv, NEW s \in Sessions, Commit(s)
    PROVE  IInv'
  <1>1. /\ open' \in [Sessions -> [Chains -> Seq(Row)]]
        /\ owner' \in [Chains -> Sessions \cup {None}]
        /\ pc' \in [Sessions -> {"idle", "lock", "read", "insert"}]
        /\ want' \in [Sessions -> Chains \cup {None}]
        /\ head' \in [Sessions -> ChainHead]
        /\ WantsChain'
        /\ OpenOwned'
        /\ AppendOwned'
        /\ \A t \in Sessions \ {s} : /\ open'[t] = open[t] /\ pc'[t] = pc[t]
                                     /\ want'[t] = want[t] /\ head'[t] = head[t]
        /\ \A c \in Chains : open'[s][c] = <<>>
        /\ pc'[s] = "idle"
    BY EndTxnStep DEF Commit
  <1>2. UNCHANGED anchor
    BY DEF Commit, EndTxn
  <1>3. \A c \in Chains : log'[c] = log[c] \o open[s][c]
    BY DEF Commit
  <1>4. \A c \in Chains : log'[c] \in Seq(Row)
    BY <1>3, SeenType DEF SeenRows, IInv
  <1>5. log' \in [Chains -> Seq(Row)]
    BY <1>4 DEF Commit
  <1>6. TypeOK'
    BY <1>1, <1>2, <1>5 DEF IInv, TypeOK
  <1>7. \A c \in Chains : open[s][c] = <<>> => log'[c] = log[c]
    BY <1>3, ConcatEmptySeq DEF IInv, TypeOK
  <1>8. HeadStaysCurrent'
    <2> SUFFICES ASSUME NEW t \in Sessions, pc'[t] = "insert"
                 PROVE  head'[t] = chain_head(log'[want'[t]] \o open'[t][want'[t]])
      BY DEF HeadStaysCurrent
    <2>1. /\ t # s /\ pc[t] = "insert" /\ want[t] \in Chains
          /\ open'[t] = open[t] /\ want'[t] = want[t] /\ head'[t] = head[t]
      BY <1>1 DEF IInv, WantsChain
    <2>2. owner[want[t]] = t
      BY <2>1 DEF IInv, AppendOwned
    <2>3. open[s][want[t]] = <<>>
      BY <2>1, <2>2 DEF IInv, OpenOwned
    <2> QED BY <1>7, <2>1, <2>3 DEF IInv, HeadStaysCurrent
  <1>9. LogLinked'
    BY <1>3 DEF IInv, LogLinked, OpenLinked
  <1>10. OpenLinked'
    <2> SUFFICES ASSUME NEW t \in Sessions, NEW c \in Chains
                 PROVE  Linked(c, log'[c] \o open'[t][c])
      BY DEF OpenLinked
    <2>1. CASE open'[t][c] = <<>>
      <3>1. log'[c] \o open'[t][c] = log'[c]
        BY <1>4, <2>1, ConcatEmptySeq
      <3> QED BY <1>9, <3>1 DEF LogLinked
    <2>2. CASE open'[t][c] # <<>>
      <3>1. t # s /\ open'[t][c] = open[t][c]
        BY <1>1, <2>2
      <3>2. open[s][c] = <<>>
        BY <2>2, <3>1 DEF IInv, OpenOwned
      <3> QED BY <1>7, <3>1, <3>2 DEF IInv, OpenLinked
    <2> QED BY <2>1, <2>2
  <1>11. AnchorTrue'
    <2> SUFFICES ASSUME NEW c \in Chains
                 PROVE  /\ anchor[c].seq <= Len(log'[c])
                        /\ anchor[c].seq > 0 => anchor[c].hash = log'[c][anchor[c].seq].hash
      BY <1>2 DEF AnchorTrue
    <2>1. log[c] \in Seq(Row) /\ open[s][c] \in Seq(Row) /\ anchor[c].seq \in Nat
      BY DEF IInv, TypeOK, ChainHead
    <2>2. /\ Len(log'[c]) = Len(log[c]) + Len(open[s][c])
          /\ \A i \in 1 .. Len(log[c]) : log'[c][i] = log[c][i]
      <3>1. /\ Len(log[c] \o open[s][c]) = Len(log[c]) + Len(open[s][c])
            /\ \A i \in 1 .. Len(log[c]) : (log[c] \o open[s][c])[i] = log[c][i]
        BY <2>1, ConcatPrefix, Zenon
      <3> QED BY <1>3, <3>1, Zenon
    <2>3. Len(log[c]) \in Nat /\ Len(open[s][c]) \in Nat
      BY <2>1, LenProperties
    <2>4. /\ anchor[c].seq <= Len(log[c])
          /\ anchor[c].seq > 0 => anchor[c].hash = log[c][anchor[c].seq].hash
      BY DEF IInv, AnchorTrue
    <2>5. anchor[c].seq > 0 => anchor[c].seq \in 1 .. Len(log[c])
      BY <2>1, <2>3, <2>4
    <2>6. anchor[c].seq <= Len(log'[c])
      <3>1. Len(log'[c]) = Len(log[c]) + Len(open[s][c])
        BY <2>2, Zenon
      <3>2. anchor[c].seq \in Nat /\ anchor[c].seq <= Len(log[c])
        BY <2>1, <2>4, Zenon
      <3>3. \A m, n, k \in Nat : m <= n => m <= n + k
        OBVIOUS
      <3>4. anchor[c].seq <= Len(log[c]) + Len(open[s][c])
        BY <2>3, <3>2, <3>3, Zenon
      <3> QED BY <3>1, <3>4, Zenon
    <2> QED BY <2>2, <2>4, <2>5, <2>6
  <1> QED BY <1>1, <1>6, <1>8, <1>9, <1>10, <1>11 DEF IInv

\* The INSERT extends what its session sees of the chain it has locked.
LEMMA InsertKeeps ==
    ASSUME IInv, NEW s \in Sessions, NEW e \in Entries, InsertEntry(s, e)
    PROVE  IInv'
  <1> DEFINE c == want[s]
             row == NewRow(c, head[s], e)
  <1>1. c \in Chains /\ head[s] \in ChainHead /\ pc[s] = "insert"
    BY DEF IInv, TypeOK, WantsChain, InsertEntry
  <1>2. row \in Row
    BY <1>1, NewRowType
  <1>3. head[s] = chain_head(SeenRows(s, c))
    BY <1>1 DEF IInv, HeadStaysCurrent, SeenRows
  <1>4. owner[c] = s
    BY <1>1 DEF IInv, AppendOwned
  <1>5. /\ open'[s][c] = Append(open[s][c], row)
        /\ \A d \in Chains \ {c} : open'[s][d] = open[s][d]
        /\ \A t \in Sessions \ {s} : /\ open'[t] = open[t] /\ pc'[t] = pc[t]
                                     /\ want'[t] = want[t] /\ head'[t] = head[t]
        /\ pc'[s] = "idle"
    BY <1>1 DEF IInv, TypeOK, InsertEntry, Returned
  <1>6. UNCHANGED <<log, owner, anchor>>
    BY DEF InsertEntry
  <1> HIDE DEF row
  <1>7. Append(open[s][c], row) \in Seq(Row)
    BY <1>1, <1>2, AppendProperties DEF IInv, TypeOK
  <1>8. TypeOK'
    <2>1. head' \in [Sessions -> ChainHead]
      BY DEF IInv, TypeOK, InsertEntry, Returned, NoHead, ChainHead, NoHash, Hash
    <2> QED BY <1>6, <1>7, <2>1 DEF IInv, TypeOK, InsertEntry, Returned, row
  <1>9. WantsChain' /\ OpenOwned' /\ AppendOwned'
    <2>1. OpenOwned'
      BY <1>1, <1>4, <1>5, <1>6 DEF IInv, OpenOwned
    <2>2. AppendOwned'
      BY <1>5, <1>6 DEF IInv, AppendOwned
    <2>3. WantsChain'
      BY <1>5 DEF IInv, WantsChain
    <2> QED BY <2>1, <2>2, <2>3
  <1>10. HeadStaysCurrent'
    BY <1>5, <1>6 DEF IInv, HeadStaysCurrent
  <1>11. LogLinked' /\ AnchorTrue'
    BY <1>6 DEF IInv, LogLinked, AnchorTrue
  <1>12. OpenLinked'
    <2> SUFFICES ASSUME NEW t \in Sessions, NEW d \in Chains
                 PROVE  Linked(d, log[d] \o open'[t][d])
      BY <1>6 DEF OpenLinked
    <2>1. CASE t = s /\ d = c
      <3>1. SeenRows(s, c) \in Seq(Row) /\ Linked(c, SeenRows(s, c))
        BY <1>1, SeenType DEF IInv, OpenLinked, SeenRows
      <3>2. Linked(c, Append(SeenRows(s, c), row))
        BY <1>1, <1>3, <3>1, AppendLinked DEF row
      <3>3. log[c] \o Append(open[s][c], row) = Append(log[c] \o open[s][c], row)
        <4>1. log[c] \in Seq(Row) /\ open[s][c] \in Seq(Row)
          BY <1>1, SeenType DEF IInv
        <4>2. row \in Row
          BY <1>2
        <4>3. \A p, q \in Seq(Row), x \in Row : p \o Append(q, x) = Append(p \o q, x)
          BY ConcatAppend
        <4> QED BY <4>1, <4>2, <4>3, Zenon
      <3> QED BY <1>5, <2>1, <3>2, <3>3 DEF SeenRows
    <2>2. CASE ~ (t = s /\ d = c)
      BY <1>5, <2>2 DEF IInv, OpenLinked
    <2> QED BY <2>1, <2>2
  <1> QED BY <1>8, <1>9, <1>10, <1>11, <1>12 DEF IInv

\* The statements before the INSERT write no rows.
LEMMA CallKeeps ==
    ASSUME IInv, NEW s \in Sessions, NEW c \in Chains, Call(s, c)
    PROVE  IInv'
  <1> USE DEF IInv, Call
  <1>1. TypeOK' BY DEF TypeOK
  <1>2. OpenOwned' /\ LogLinked' /\ OpenLinked' /\ AnchorTrue'
    BY DEF OpenOwned, LogLinked, OpenLinked, AnchorTrue
  <1>3. AppendOwned' BY DEF AppendOwned, TypeOK
  <1>4. HeadStaysCurrent' BY DEF HeadStaysCurrent, TypeOK
  <1>5. WantsChain' BY DEF WantsChain, TypeOK
  <1> QED BY <1>1, <1>2, <1>3, <1>4, <1>5

LEMMA LockKeeps ==
    ASSUME IInv, NEW s \in Sessions, LockChain(s)
    PROVE  IInv'
  <1> USE DEF IInv, LockChain
  <1>0. want[s] \in Chains BY DEF WantsChain
  <1>1. TypeOK' /\ WantsChain' BY <1>0 DEF TypeOK, WantsChain
  <1>2. LogLinked' /\ OpenLinked' /\ AnchorTrue'
    BY DEF LogLinked, OpenLinked, AnchorTrue
  <1>3. OpenOwned' BY <1>0, NoneAssumption DEF OpenOwned, TypeOK
  <1>4. AppendOwned' BY <1>0, NoneAssumption DEF AppendOwned, WantsChain, TypeOK
  <1>5. HeadStaysCurrent' BY DEF HeadStaysCurrent, TypeOK
  <1> QED BY <1>1, <1>2, <1>3, <1>4, <1>5

LEMMA ReadKeeps ==
    ASSUME IInv, NEW s \in Sessions, ReadHead(s)
    PROVE  IInv'
  <1> USE DEF IInv, ReadHead
  <1>0. want[s] \in Chains BY DEF WantsChain
  <1>1. chain_head(SeenRows(s, want[s])) \in ChainHead
    BY <1>0, SeenType, HeadType
  <1>2. TypeOK' /\ WantsChain' BY <1>0, <1>1 DEF TypeOK, WantsChain
  <1>3. OpenOwned' /\ LogLinked' /\ OpenLinked' /\ AnchorTrue'
    BY DEF OpenOwned, LogLinked, OpenLinked, AnchorTrue
  <1>4. AppendOwned' BY DEF AppendOwned, TypeOK
  <1>5. HeadStaysCurrent' BY DEF HeadStaysCurrent, TypeOK, SeenRows
  <1> QED BY <1>2, <1>3, <1>4, <1>5

\* An exported head is the head of the committed chain.
LEMMA AnchorKeeps ==
    ASSUME IInv, NEW c \in Chains, Anchor(c)
    PROVE  IInv'
  <1> USE DEF IInv, Anchor
  <1>1. log[c] \in Seq(Row) /\ chain_head(log[c]) \in ChainHead
    BY HeadType DEF TypeOK
  <1>2. TypeOK' BY <1>1 DEF TypeOK
  <1>3. /\ WantsChain' /\ OpenOwned' /\ AppendOwned' /\ HeadStaysCurrent'
        /\ LogLinked' /\ OpenLinked'
    BY DEF WantsChain, OpenOwned, AppendOwned, HeadStaysCurrent, LogLinked, OpenLinked
  <1>4. /\ chain_head(log[c]).seq = Len(log[c])
        /\ Len(log[c]) > 0 => chain_head(log[c]).hash = log[c][Len(log[c])].hash
    <2>1. CASE log[c] = <<>>
      BY <1>1, <2>1 DEF chain_head, NoHead
    <2>2. CASE log[c] # <<>>
      <3>1. Len(log[c]) \in DOMAIN log[c]
        BY <1>1, <2>2, EmptySeq, LenProperties
      <3>2. log[c][Len(log[c])].seq = Len(log[c])
        BY <3>1 DEF LogLinked, Linked, RowLinked
      <3> QED BY <2>2, <3>2 DEF chain_head
    <2> QED BY <2>1, <2>2
  <1>5. Len(log[c]) \in Nat
    BY <1>1, LenProperties
  <1>6. AnchorTrue'
    <2> SUFFICES ASSUME NEW d \in Chains
                 PROVE  /\ anchor'[d].seq <= Len(log[d])
                        /\ anchor'[d].seq > 0 => anchor'[d].hash = log[d][anchor'[d].seq].hash
      BY DEF AnchorTrue
    <2>1. CASE d = c
      <3>1. anchor'[d] = chain_head(log[c])
        BY <2>1 DEF TypeOK
      <3> QED BY <1>4, <1>5, <2>1, <3>1
    <2>2. CASE d # c
      <3>1. anchor'[d] = anchor[d]
        BY <2>2 DEF TypeOK
      <3> QED BY <3>1 DEF AnchorTrue
    <2> QED BY <2>1, <2>2
  <1> QED BY <1>2, <1>3, <1>6

\* Every step keeps the invariant.
LEMMA StepIInv == IInv /\ [Next]_vars => IInv'
  <1> SUFFICES ASSUME IInv, [Next]_vars
               PROVE  IInv'
    OBVIOUS
  <1>1. ASSUME NEW s \in Sessions, NEW c \in Chains, Call(s, c)
        PROVE  IInv'
    BY <1>1, CallKeeps
  <1>2. ASSUME NEW s \in Sessions, LockChain(s)
        PROVE  IInv'
    BY <1>2, LockKeeps
  <1>3. ASSUME NEW s \in Sessions, ReadHead(s)
        PROVE  IInv'
    BY <1>3, ReadKeeps
  <1>4. ASSUME NEW s \in Sessions, NEW e \in Entries, InsertEntry(s, e)
        PROVE  IInv'
    BY <1>4, InsertKeeps
  <1>5. ASSUME NEW s \in Sessions, Commit(s)
        PROVE  IInv'
    BY <1>5, CommitKeeps
  <1>6. ASSUME NEW s \in Sessions, Rollback(s) \/ DeadlockVictim(s)
        PROVE  IInv'
    BY <1>6, RollbackKeeps DEF Rollback, DeadlockVictim
  <1>7. ASSUME NEW c \in Chains, Anchor(c)
        PROVE  IInv'
    BY <1>7, AnchorKeeps
  <1>8. CASE UNCHANGED vars
    BY <1>8 DEF vars, IInv, TypeOK, WantsChain, OpenOwned, AppendOwned, HeadStaysCurrent,
                LogLinked, OpenLinked, AnchorTrue
  <1> QED BY <1>1, <1>2, <1>3, <1>4, <1>5, <1>6, <1>7, <1>8 DEF Next

\* The locks, the open rows and the heads agree in every reachable state.
THEOREM Inductive == Spec => []IInv
  BY InitIInv, StepIInv, PTL DEF Spec

\* Rows, locks, heads and anchors keep their types.
THEOREM TypeCorrect == Spec => []TypeOK
  BY Inductive, PTL DEF IInv

\* The head that append() read is the chain's head until its INSERT.
THEOREM HeadCurrent == Spec => []HeadStaysCurrent
  BY Inductive, PTL DEF IInv

\* Every committed chain verifies: no fork and no gap, for any number of
\* sessions, chains and appends per transaction.
THEOREM ChainsIntact == Spec => []ChainsVerify
  <1>1. IInv => ChainsVerify
    BY LinkedVerifies DEF IInv, LogLinked, ChainsVerify, TypeOK
  <1> QED BY <1>1, Inductive, PTL
-----------------------------------------------------------------------------
(* What the verifier reports.                                              *)

\* The walk stops at the first row that fails its check.
LEMMA FirstFailure ==
    ASSUME NEW c, NEW rows, NEW n \in Nat, DOMAIN rows = 1 .. n, NEW i \in 1 .. n,
           CheckRow(c, rows, i) # "ok",
           \A j \in 1 .. i - 1 : CheckRow(c, rows, j) = "ok"
    PROVE  verify_chain(c, rows, NoHead) = [kind |-> CheckRow(c, rows, i), at |-> rows[i].seq]
  <1> DEFINE bad == {j \in DOMAIN rows : CheckRow(c, rows, j) # "ok"}
             first == CHOOSE j \in bad : \A k \in bad : j <= k
  <1>1. i \in bad
    OBVIOUS
  <1>2. \A k \in bad : k \in 1 .. n /\ i <= k
    OBVIOUS
  <1> HIDE DEF bad
  <1>3. first \in bad /\ \A k \in bad : first <= k
    BY <1>1, <1>2
  <1>4. first = i
    <2>1. first \in 1 .. n /\ first <= i /\ i <= first
      BY <1>1, <1>2, <1>3
    <2> HIDE DEF first
    <2> QED BY <2>1
  <1> QED BY <1>1, <1>4 DEF verify_chain, bad

\* A walk without a failure leaves the anchor to be compared.
LEMMA AnchorFailure ==
    ASSUME NEW c, NEW rows, NEW expected, expected # NoHead, chain_head(rows) # expected,
           \A j \in DOMAIN rows : CheckRow(c, rows, j) = "ok"
    PROVE  verify_chain(c, rows, expected).kind = "HEAD_MISMATCH"
  <1>1. {j \in DOMAIN rows : CheckRow(c, rows, j) # "ok"} = {}
    OBVIOUS
  <1> QED BY <1>1 DEF verify_chain, HeadMatches

\* Rows that begin as a linked chain does pass the walk that far.
LEMMA PrefixPasses ==
    ASSUME NEW c, NEW rows, NEW new, NEW n \in Nat,
           \A j \in 1 .. n : RowLinked(c, rows, j),
           \A j \in 1 .. n : new[j] = rows[j]
    PROVE  \A j \in 1 .. n : CheckRow(c, new, j) = "ok"
  <1> SUFFICES ASSUME NEW j \in 1 .. n
               PROVE  CheckRow(c, new, j) = "ok"
    OBVIOUS
  <1>1. PreviousHash(new, j) = PreviousHash(rows, j)
    BY DEF PreviousHash
  <1> QED BY <1>1 DEF CheckRow, RowLinked

\* The hash tells two records apart that differ in what they say.
LEMMA HashSeesEntry ==
    ASSUME NEW c \in Chains, NEW row \in Row, NEW other \in Row, row.entry # other.entry
    PROVE  compute_hash(c, row) # compute_hash(c, other)
  <1> DEFINE x == [chain |-> c, seq |-> row.seq, entry |-> row.entry,
                   version |-> row.version]
             y == [chain |-> c, seq |-> other.seq, entry |-> other.entry,
                   version |-> other.version]
  <1>1. x \in Hashed /\ y \in Hashed /\ x # y
    BY DEF Row, Hashed
  <1>2. row.prev \in Seq(Hashed) /\ other.prev \in Seq(Hashed)
    BY DEF Row, Hash
  <1> HIDE DEF x, y
  <1>3. /\ Len(Append(row.prev, x)) = Len(row.prev) + 1
        /\ Append(row.prev, x)[Len(row.prev) + 1] = x
        /\ Len(Append(other.prev, y)) = Len(other.prev) + 1
        /\ Append(other.prev, y)[Len(other.prev) + 1] = y
        /\ Len(row.prev) \in Nat /\ Len(other.prev) \in Nat
    BY <1>1, <1>2, AppendProperties, LenProperties
  <1>4. Append(row.prev, x) # Append(other.prev, y)
    BY <1>1, <1>3
  <1> QED BY <1>4 DEF compute_hash, x, y

\* A chain's rows from the linked log, altered in place.
LEMMA AlteredFacts ==
    ASSUME NEW rows \in Seq(Row), NEW i \in 1 .. Len(rows), NEW e \in Entries
    PROVE  /\ Altered(rows, i, e) \in Seq(Row)
           /\ Len(Altered(rows, i, e)) = Len(rows)
           /\ Altered(rows, i, e)[i].entry = e
           /\ Altered(rows, i, e)[i].seq = rows[i].seq
           /\ Altered(rows, i, e)[i].version = rows[i].version
           /\ Altered(rows, i, e)[i].prev = rows[i].prev
           /\ Altered(rows, i, e)[i].hash = rows[i].hash
           /\ \A j \in 1 .. Len(rows) : j # i => Altered(rows, i, e)[j] = rows[j]
  <1> DEFINE row == [rows[i] EXCEPT !.entry = e]
  <1>1. rows[i] \in Row
    OBVIOUS
  <1>2. row \in Row
    BY <1>1 DEF Row
  <1>3. /\ row.entry = e /\ row.seq = rows[i].seq /\ row.version = rows[i].version
        /\ row.prev = rows[i].prev /\ row.hash = rows[i].hash
    BY <1>1 DEF Row
  <1>4. Altered(rows, i, e) = [rows EXCEPT ![i] = row]
    BY DEF Altered
  <1> HIDE DEF row
  <1>5. /\ [rows EXCEPT ![i] = row] \in Seq(Row)
        /\ Len([rows EXCEPT ![i] = row]) = Len(rows)
        /\ \A j \in 1 .. Len(rows) :
              [rows EXCEPT ![i] = row][j] = IF j = i THEN row ELSE rows[j]
    BY <1>2, ExceptSeq
  <1> QED BY <1>3, <1>4, <1>5

\* The row's hash, recomputed.
LEMMA RehashedFacts ==
    ASSUME NEW c \in Chains, NEW rows \in Seq(Row), NEW i \in 1 .. Len(rows)
    PROVE  /\ Rehashed(c, rows, i) \in Seq(Row)
           /\ Len(Rehashed(c, rows, i)) = Len(rows)
           /\ Rehashed(c, rows, i)[i].seq = rows[i].seq
           /\ Rehashed(c, rows, i)[i].version = rows[i].version
           /\ Rehashed(c, rows, i)[i].prev = rows[i].prev
           /\ Rehashed(c, rows, i)[i].hash = compute_hash(c, rows[i])
           /\ compute_hash(c, Rehashed(c, rows, i)[i]) = compute_hash(c, rows[i])
           /\ \A j \in 1 .. Len(rows) : j # i => Rehashed(c, rows, i)[j] = rows[j]
  <1> DEFINE h == compute_hash(c, rows[i])
             row == [rows[i] EXCEPT !.hash = h]
  <1>1. rows[i] \in Row
    OBVIOUS
  <1>2. h \in Hash
    BY <1>1, HashType DEF Row
  <1> HIDE DEF h
  <1>3. row \in Row
    BY <1>1, <1>2 DEF Row
  <1>4. /\ row.entry = rows[i].entry /\ row.seq = rows[i].seq
        /\ row.version = rows[i].version /\ row.prev = rows[i].prev /\ row.hash = h
    BY <1>1 DEF Row
  <1>5. Rehashed(c, rows, i) = [rows EXCEPT ![i] = row]
    BY DEF Rehashed, h
  <1> HIDE DEF row
  <1>6. compute_hash(c, row) = h
    BY <1>4 DEF compute_hash, h
  <1>7. /\ [rows EXCEPT ![i] = row] \in Seq(Row)
        /\ Len([rows EXCEPT ![i] = row]) = Len(rows)
        /\ \A j \in 1 .. Len(rows) :
              [rows EXCEPT ![i] = row][j] = IF j = i THEN row ELSE rows[j]
    BY <1>3, ExceptSeq
  <1> QED BY <1>4, <1>5, <1>6, <1>7 DEF h

\* An entry replaced by another, with a hash of its own: the walk passes up to
\* it, and its hash is not the one the next row and an anchor hold.
LEMMA ReplacedFacts ==
    ASSUME NEW c \in Chains, NEW rows \in Seq(Row), Linked(c, rows),
           NEW i \in 1 .. Len(rows), NEW e \in Entries, e # rows[i].entry
    PROVE  LET new == Rehashed(c, Altered(rows, i, e), i)
           IN  /\ new \in Seq(Row)
               /\ Len(new) = Len(rows)
               /\ new[i].hash # rows[i].hash
               /\ \A j \in 1 .. Len(rows) : j # i => new[j] = rows[j]
               /\ \A j \in 1 .. i : CheckRow(c, new, j) = "ok"
  <1> DEFINE alt == Altered(rows, i, e)
             new == Rehashed(c, alt, i)
  <1>1. /\ alt \in Seq(Row) /\ Len(alt) = Len(rows)
        /\ alt[i].entry = e
        /\ alt[i].seq = rows[i].seq /\ alt[i].version = rows[i].version
        /\ alt[i].prev = rows[i].prev
        /\ \A j \in 1 .. Len(rows) : j # i => alt[j] = rows[j]
    BY AlteredFacts
  <1> HIDE DEF alt
  <1>2. /\ new \in Seq(Row) /\ Len(new) = Len(alt)
        /\ new[i].seq = alt[i].seq /\ new[i].version = alt[i].version
        /\ new[i].prev = alt[i].prev
        /\ new[i].hash = compute_hash(c, alt[i])
        /\ compute_hash(c, new[i]) = compute_hash(c, alt[i])
        /\ \A j \in 1 .. Len(alt) : j # i => new[j] = alt[j]
    <2>1. i \in 1 .. Len(alt)
      BY <1>1
    <2> QED BY <1>1, <2>1, RehashedFacts
  <1> HIDE DEF new
  <1>3. Len(rows) \in Nat /\ DOMAIN rows = 1 .. Len(rows)
    BY LenProperties
  <1>4. \A j \in 1 .. Len(rows) : RowLinked(c, rows, j)
    BY <1>3 DEF Linked
  <1>5. \A j \in 1 .. Len(rows) : j # i => new[j] = rows[j]
    BY <1>1, <1>2
  <1>6. new[i].hash # rows[i].hash
    <2>1. rows[i] \in Row /\ alt[i] \in Row
      BY <1>1
    <2>2. compute_hash(c, alt[i]) # compute_hash(c, rows[i])
      BY <1>1, <2>1, HashSeesEntry
    <2>3. rows[i].hash = compute_hash(c, rows[i])
      BY <1>4 DEF RowLinked
    <2> QED BY <1>2, <2>2, <2>3
  <1>7. \A j \in 1 .. i - 1 : CheckRow(c, new, j) = "ok"
    <2>1. i - 1 \in Nat /\ \A j \in 1 .. i - 1 : j \in 1 .. Len(rows) /\ j # i
      BY <1>3
    <2>2. /\ \A j \in 1 .. i - 1 : RowLinked(c, rows, j)
          /\ \A j \in 1 .. i - 1 : new[j] = rows[j]
      BY <1>4, <1>5, <2>1
    <2> QED BY <2>1, <2>2, PrefixPasses
  <1>8. CheckRow(c, new, i) = "ok"
    <2>1. PreviousHash(new, i) = PreviousHash(rows, i)
      BY <1>3, <1>5 DEF PreviousHash
    <2>2. /\ rows[i].seq = i /\ rows[i].version = SERIALISATION_VERSION
          /\ rows[i].prev = PreviousHash(rows, i)
      BY <1>4 DEF RowLinked
    <2> QED BY <1>1, <1>2, <2>1, <2>2 DEF CheckRow
  <1>9. \A j \in 1 .. i : CheckRow(c, new, j) = "ok"
    BY <1>7, <1>8
  <1> QED BY <1>1, <1>2, <1>5, <1>6, <1>9 DEF new, alt

\* Damage to one row of a linked chain is reported with its kind and place.
LEMMA LinkedDamage ==
    ASSUME NEW c \in Chains, NEW rows \in Seq(Row), Linked(c, rows), NEW i \in DOMAIN rows
    PROVE  /\ \A e \in Entries \ {rows[i].entry} :
                /\ verify_chain(c, Altered(rows, i, e), NoHead)
                       = [kind |-> "HASH_MISMATCH", at |-> i]
                /\ i < Len(rows) =>
                       verify_chain(c, Rehashed(c, Altered(rows, i, e), i), NoHead)
                           = [kind |-> "PREV_HASH_MISMATCH", at |-> i + 1]
           /\ verify_chain(c, [rows EXCEPT ![i].version = 0], NoHead)
                  = [kind |-> "UNSUPPORTED_VERSION", at |-> i]
           /\ i < Len(rows) =>
                verify_chain(c, Without(rows, i), NoHead)
                    = [kind |-> "SEQUENCE_GAP", at |-> i + 1]
  <1>1. Len(rows) \in Nat /\ DOMAIN rows = 1 .. Len(rows) /\ i \in 1 .. Len(rows)
    BY LenProperties
  <1>2. \A j \in 1 .. Len(rows) : RowLinked(c, rows, j)
    BY <1>1 DEF Linked
  <1>3. /\ rows[i].seq = i /\ rows[i].version = SERIALISATION_VERSION
        /\ rows[i].prev = PreviousHash(rows, i)
        /\ rows[i].hash = compute_hash(c, rows[i])
    BY <1>1, <1>2 DEF RowLinked
  <1>4. i - 1 \in Nat /\ \A j \in 1 .. i - 1 : j \in 1 .. Len(rows) /\ j # i
    BY <1>1
  <1>5. ASSUME NEW new, \A j \in 1 .. i - 1 : new[j] = rows[j]
        PROVE  /\ \A j \in 1 .. i - 1 : CheckRow(c, new, j) = "ok"
               /\ PreviousHash(new, i) = PreviousHash(rows, i)
    <2>1. \A j \in 1 .. i - 1 : RowLinked(c, rows, j)
      BY <1>2, <1>4
    <2>2. \A j \in 1 .. i - 1 : CheckRow(c, new, j) = "ok"
      BY <1>4, <1>5, <2>1, PrefixPasses
    <2>3. i # 1 => i - 1 \in 1 .. i - 1
      BY <1>1
    <2> QED BY <1>5, <2>2, <2>3 DEF PreviousHash
  <1>6. ASSUME NEW e \in Entries, e # rows[i].entry
        PROVE  verify_chain(c, Altered(rows, i, e), NoHead)
                   = [kind |-> "HASH_MISMATCH", at |-> i]
    <2> DEFINE new == Altered(rows, i, e)
    <2>1. /\ new \in Seq(Row) /\ Len(new) = Len(rows)
          /\ new[i].entry = e
          /\ new[i].seq = rows[i].seq /\ new[i].version = rows[i].version
          /\ new[i].prev = rows[i].prev /\ new[i].hash = rows[i].hash
          /\ \A j \in 1 .. Len(rows) : j # i => new[j] = rows[j]
      BY <1>1, <1>6, AlteredFacts
    <2> HIDE DEF new
    <2>2. /\ \A j \in 1 .. i - 1 : CheckRow(c, new, j) = "ok"
          /\ PreviousHash(new, i) = PreviousHash(rows, i)
      BY <1>4, <1>5, <2>1
    <2>3. compute_hash(c, new[i]) # compute_hash(c, rows[i])
      <3>1. rows[i] \in Row /\ new[i] \in Row
        BY <1>1, <2>1
      <3> QED BY <1>6, <2>1, <3>1, HashSeesEntry
    <2>4. CheckRow(c, new, i) = "HASH_MISMATCH"
      BY <1>3, <2>1, <2>2, <2>3 DEF CheckRow
    <2>5. DOMAIN new = 1 .. Len(rows)
      BY <2>1, LenProperties
    <2>6. verify_chain(c, new, NoHead) = [kind |-> CheckRow(c, new, i), at |-> new[i].seq]
      BY <1>1, <2>2, <2>4, <2>5, FirstFailure
    <2> QED BY <1>3, <2>1, <2>4, <2>6 DEF new
  <1>7. ASSUME NEW e \in Entries, e # rows[i].entry, i < Len(rows)
        PROVE  verify_chain(c, Rehashed(c, Altered(rows, i, e), i), NoHead)
                   = [kind |-> "PREV_HASH_MISMATCH", at |-> i + 1]
    <2> DEFINE new == Rehashed(c, Altered(rows, i, e), i)
    <2>1. /\ new \in Seq(Row) /\ Len(new) = Len(rows)
          /\ new[i].hash # rows[i].hash
          /\ \A j \in 1 .. Len(rows) : j # i => new[j] = rows[j]
          /\ \A j \in 1 .. i : CheckRow(c, new, j) = "ok"
      BY <1>1, <1>7, ReplacedFacts
    <2> HIDE DEF new
    <2>2. i + 1 \in 1 .. Len(rows) /\ i + 1 # i /\ i + 1 # 1 /\ (i + 1) - 1 = i
      BY <1>1, <1>7
    <2>3. /\ rows[i + 1].seq = i + 1 /\ rows[i + 1].version = SERIALISATION_VERSION
          /\ rows[i + 1].prev = rows[i].hash
      BY <1>2, <2>2 DEF RowLinked, PreviousHash
    <2>4. new[i + 1] = rows[i + 1] /\ PreviousHash(new, i + 1) = new[i].hash
      BY <2>1, <2>2 DEF PreviousHash
    <2>5. CheckRow(c, new, i + 1) = "PREV_HASH_MISMATCH"
      BY <2>1, <2>3, <2>4 DEF CheckRow
    <2>6. DOMAIN new = 1 .. Len(rows)
      BY <2>1, LenProperties
    <2>7. \A j \in 1 .. (i + 1) - 1 : CheckRow(c, new, j) = "ok"
      BY <2>1, <2>2
    <2>8. CheckRow(c, new, i + 1) # "ok"
      BY <2>5
    <2>9. verify_chain(c, new, NoHead)
              = [kind |-> CheckRow(c, new, i + 1), at |-> new[i + 1].seq]
      BY <1>1, <2>2, <2>6, <2>7, <2>8, FirstFailure
    <2> QED BY <2>3, <2>4, <2>5, <2>9 DEF new
  <1>8. verify_chain(c, [rows EXCEPT ![i].version = 0], NoHead)
            = [kind |-> "UNSUPPORTED_VERSION", at |-> i]
    <2> DEFINE new == [rows EXCEPT ![i].version = 0]
    <2>1. /\ DOMAIN new = 1 .. Len(rows)
          /\ \A j \in 1 .. Len(rows) : j # i => new[j] = rows[j]
      BY <1>1
    <2>2. new[i].seq = rows[i].seq /\ new[i].version = 0
      <3>1. rows[i] \in Row
        BY <1>1
      <3> QED BY <1>1, <3>1 DEF Row
    <2> HIDE DEF new
    <2>3. \A j \in 1 .. i - 1 : CheckRow(c, new, j) = "ok"
      BY <1>4, <1>5, <2>1
    <2>4. CheckRow(c, new, i) = "UNSUPPORTED_VERSION"
      BY <1>3, <2>2 DEF CheckRow, SERIALISATION_VERSION
    <2>5. verify_chain(c, new, NoHead) = [kind |-> CheckRow(c, new, i), at |-> new[i].seq]
      BY <1>1, <2>1, <2>3, <2>4, FirstFailure
    <2> QED BY <1>3, <2>2, <2>4, <2>5 DEF new
  <1>9. ASSUME i < Len(rows)
        PROVE  verify_chain(c, Without(rows, i), NoHead)
                   = [kind |-> "SEQUENCE_GAP", at |-> i + 1]
    <2> DEFINE n == Len(rows)
               p == SubSeq(rows, 1, i - 1)
               q == SubSeq(rows, i + 1, n)
               new == p \o q
    <2>1. /\ p \in Seq(Row) /\ Len(p) = i - 1
          /\ \A j \in 1 .. i - 1 : p[j] = rows[j]
      <3>1. 1 \in Int /\ i - 1 \in Int /\ \A j \in 1 .. i - 1 : rows[j] \in Row
        BY <1>1, <1>4
      <3>2. /\ p \in Seq(Row)
            /\ Len(p) = IF 1 <= i - 1 THEN (i - 1) - 1 + 1 ELSE 0
            /\ \A j \in 1 .. (i - 1) - 1 + 1 : p[j] = rows[1 + j - 1]
        BY <3>1, SubSeqProperties
      <3> HIDE DEF p
      <3> QED BY <1>1, <3>2
    <2>2. /\ q \in Seq(Row) /\ Len(q) = n - i /\ q[1] = rows[i + 1]
      <3>1. i + 1 \in Int /\ n \in Int /\ \A j \in i + 1 .. n : rows[j] \in Row
        BY <1>1
      <3>2. /\ q \in Seq(Row)
            /\ Len(q) = IF i + 1 <= n THEN n - (i + 1) + 1 ELSE 0
            /\ \A j \in 1 .. n - (i + 1) + 1 : q[j] = rows[(i + 1) + j - 1]
        BY <3>1, SubSeqProperties
      <3>3. n \in Nat /\ i \in Nat /\ i < n
        BY <1>1, <1>9
      <3> HIDE DEF q, n
      <3>4. Len(q) = n - i /\ 1 \in 1 .. n - (i + 1) + 1 /\ (i + 1) + 1 - 1 = i + 1
        BY <3>2, <3>3
      <3> QED BY <3>2, <3>4
    <2> HIDE DEF p, q
    <2>3. /\ new \in Seq(Row) /\ Len(new) = Len(p) + Len(q)
          /\ \A j \in 1 .. Len(p) + Len(q) :
                new[j] = IF j <= Len(p) THEN p[j] ELSE q[j - Len(p)]
      BY <2>1, <2>2, ConcatProperties
    <2> HIDE DEF new
    <2>4. Len(new) = n - 1 /\ n - 1 \in Nat /\ i \in 1 .. n - 1
      BY <1>1, <1>9, <2>1, <2>2, <2>3
    <2>5. \A j \in 1 .. i - 1 : new[j] = rows[j]
      BY <1>1, <2>1, <2>2, <2>3, <2>4
    <2>6. new[i] = rows[i + 1]
      <3>1. i \in 1 .. Len(p) + Len(q) /\ ~ (i <= Len(p)) /\ i - Len(p) = 1
        BY <1>1, <1>9, <2>1, <2>2
      <3> QED BY <2>2, <2>3, <3>1
    <2>7. rows[i + 1].seq = i + 1 /\ i + 1 # i
      BY <1>1, <1>2, <1>9 DEF RowLinked
    <2>8. CheckRow(c, new, i) = "SEQUENCE_GAP"
      BY <2>6, <2>7 DEF CheckRow
    <2>9. \A j \in 1 .. i - 1 : CheckRow(c, new, j) = "ok"
      BY <1>5, <2>5
    <2>10. DOMAIN new = 1 .. n - 1
      BY <2>3, <2>4, LenProperties
    <2> HIDE DEF n
    <2>11. verify_chain(c, new, NoHead) = [kind |-> CheckRow(c, new, i), at |-> new[i].seq]
      BY <2>4, <2>8, <2>9, <2>10, FirstFailure
    <2> QED BY <2>6, <2>7, <2>8, <2>11 DEF Without, new, p, q, n
  <1> QED BY <1>6, <1>7, <1>8, <1>9

\* The first rows of a linked chain are a linked chain with the last of them as
\* its head.
LEMMA CutFacts ==
    ASSUME NEW c \in Chains, NEW rows \in Seq(Row), Linked(c, rows), NEW m \in 0 .. Len(rows)
    PROVE  LET kept == SubSeq(rows, 1, m)
           IN  /\ kept \in Seq(Row) /\ Len(kept) = m
               /\ \A j \in 1 .. m : kept[j] = rows[j]
               /\ Linked(c, kept)
               /\ chain_head(kept).seq = m
  <1> DEFINE kept == SubSeq(rows, 1, m)
  <1>1. Len(rows) \in Nat /\ DOMAIN rows = 1 .. Len(rows) /\ m \in Nat
    BY LenProperties
  <1>2. kept \in Seq(Row) /\ Len(kept) = m /\ \A j \in 1 .. m : kept[j] = rows[j]
    <2>1. 1 \in Int /\ m \in Int /\ \A j \in 1 .. m : rows[j] \in Row
      BY <1>1
    <2>2. /\ kept \in Seq(Row)
          /\ Len(kept) = IF 1 <= m THEN m - 1 + 1 ELSE 0
          /\ \A j \in 1 .. m - 1 + 1 : kept[j] = rows[1 + j - 1]
      BY <2>1, SubSeqProperties
    <2> HIDE DEF kept
    <2> QED BY <1>1, <2>2
  <1> HIDE DEF kept
  <1>3. DOMAIN kept = 1 .. m
    BY <1>2, LenProperties
  <1>4. Linked(c, kept)
    <2> SUFFICES ASSUME NEW j \in 1 .. m
                 PROVE  RowLinked(c, kept, j)
      BY <1>3 DEF Linked
    <2>1. RowLinked(c, rows, j) /\ kept[j] = rows[j]
      BY <1>1, <1>2 DEF Linked
    <2>2. PreviousHash(kept, j) = PreviousHash(rows, j)
      BY <1>1, <1>2 DEF PreviousHash
    <2> QED BY <2>1, <2>2 DEF RowLinked
  <1>5. chain_head(kept).seq = m
    <2>1. CASE m = 0
      <3>1. kept = <<>>
        BY <1>2, <2>1, EmptySeq
      <3> QED BY <2>1, <3>1 DEF chain_head, NoHead
    <2>2. CASE m # 0
      <3>1. m \in 1 .. m
        BY <1>1, <2>2
      <3>2. kept # <<>>
        BY <1>2, <2>2, EmptySeq
      <3>3. kept[m].seq = m
        BY <1>3, <1>4, <3>1 DEF Linked, RowLinked
      <3> QED BY <1>2, <3>2, <3>3 DEF chain_head
    <2> QED BY <2>1, <2>2
  <1> QED BY <1>2, <1>4, <1>5 DEF kept

\* A linked chain passes the walk row by row.
LEMMA LinkedPasses ==
    ASSUME NEW c, NEW rows, Linked(c, rows)
    PROVE  \A j \in DOMAIN rows : CheckRow(c, rows, j) = "ok"
  BY DEF Linked, RowLinked, CheckRow

\* An anchor that is true of a linked chain exposes a cut below it and another
\* entry in its place.
LEMMA LinkedAnchor ==
    ASSUME NEW c \in Chains, NEW rows \in Seq(Row), Linked(c, rows),
           NEW h \in ChainHead, h.seq > 0, h.seq <= Len(rows),
           h.hash = rows[h.seq].hash
    PROVE  /\ \A m \in 0 .. h.seq - 1 :
                verify_chain(c, SubSeq(rows, 1, m), h).kind = "HEAD_MISMATCH"
           /\ \A e \in Entries \ {rows[h.seq].entry} :
                verify_chain(c, Rehashed(c, Altered(SubSeq(rows, 1, h.seq), h.seq, e), h.seq),
                             h).kind = "HEAD_MISMATCH"
  <1> DEFINE n == h.seq
  <1>1. Len(rows) \in Nat /\ n \in Nat /\ n \in 1 .. Len(rows) /\ n \in 0 .. Len(rows)
    BY LenProperties DEF ChainHead
  <1>2. h # NoHead
    BY DEF NoHead
  <1> HIDE DEF n
  <1>3. ASSUME NEW m \in 0 .. n - 1
        PROVE  verify_chain(c, SubSeq(rows, 1, m), h).kind = "HEAD_MISMATCH"
    <2> DEFINE kept == SubSeq(rows, 1, m)
    <2>1. m \in 0 .. Len(rows) /\ m # n
      BY <1>1
    <2>2. Linked(c, kept) /\ chain_head(kept).seq = m
      BY <2>1, CutFacts
    <2> HIDE DEF kept
    <2>3. chain_head(kept) # h
      BY <2>1, <2>2 DEF n
    <2>4. \A j \in DOMAIN kept : CheckRow(c, kept, j) = "ok"
      BY <2>2, LinkedPasses
    <2>5. verify_chain(c, kept, h).kind = "HEAD_MISMATCH"
      BY <1>2, <2>3, <2>4, AnchorFailure
    <2> QED BY <2>5 DEF kept
  <1>4. ASSUME NEW e \in Entries, e # rows[n].entry
        PROVE  verify_chain(c, Rehashed(c, Altered(SubSeq(rows, 1, n), n, e), n), h).kind
                   = "HEAD_MISMATCH"
    <2> DEFINE kept == SubSeq(rows, 1, n)
               new == Rehashed(c, Altered(kept, n, e), n)
    <2>1. /\ kept \in Seq(Row) /\ Len(kept) = n /\ Linked(c, kept)
          /\ \A j \in 1 .. n : kept[j] = rows[j]
      BY <1>1, CutFacts
    <2> HIDE DEF kept
    <2>2. n \in 1 .. n /\ kept[n] = rows[n]
      BY <1>1, <2>1
    <2>3. /\ new \in Seq(Row) /\ Len(new) = n
          /\ new[n].hash # kept[n].hash
          /\ \A j \in 1 .. n : CheckRow(c, new, j) = "ok"
      BY <1>4, <2>1, <2>2, ReplacedFacts
    <2> HIDE DEF new
    <2>4. DOMAIN new = 1 .. n /\ new # <<>>
      BY <1>1, <2>3, LenProperties, EmptySeq
    <2>5. chain_head(new) # h
      <3>1. chain_head(new).hash = new[n].hash
        BY <2>3, <2>4 DEF chain_head
      <3> QED BY <2>2, <2>3, <3>1 DEF n
    <2>6. verify_chain(c, new, h).kind = "HEAD_MISMATCH"
      BY <1>2, <2>3, <2>4, <2>5, AnchorFailure
    <2> QED BY <2>6 DEF new, kept
  <1> QED BY <1>3, <1>4 DEF n

\* Damage to one row of a committed chain is reported with its kind and place,
\* in every reachable state and for chains of any length.
THEOREM DamageLocated == Spec => []DamageIsLocated
  <1>1. IInv => DamageIsLocated
    <2> SUFFICES ASSUME IInv, NEW c \in Chains, NEW i \in DOMAIN log[c]
                 PROVE  LET rows == log[c] IN
                        /\ \A e \in Entries \ {rows[i].entry} :
                             /\ verify_chain(c, Altered(rows, i, e), NoHead)
                                    = [kind |-> "HASH_MISMATCH", at |-> i]
                             /\ i < Len(rows) =>
                                  verify_chain(c, Rehashed(c, Altered(rows, i, e), i), NoHead)
                                      = [kind |-> "PREV_HASH_MISMATCH", at |-> i + 1]
                        /\ verify_chain(c, [rows EXCEPT ![i].version = 0], NoHead)
                               = [kind |-> "UNSUPPORTED_VERSION", at |-> i]
                        /\ i < Len(rows) =>
                             verify_chain(c, Without(rows, i), NoHead)
                                 = [kind |-> "SEQUENCE_GAP", at |-> i + 1]
      BY DEF DamageIsLocated
    <2>1. log[c] \in Seq(Row) /\ Linked(c, log[c])
      BY DEF IInv, TypeOK, LogLinked
    <2> QED BY <2>1, LinkedDamage
  <1> QED BY <1>1, Inductive, PTL

\* An anchor exposes a chain cut back below it and a replaced anchored entry.
THEOREM AnchorExposes == Spec => []AnchorSeesCut
  <1>1. IInv => AnchorSeesCut
    <2> SUFFICES ASSUME IInv, NEW c \in Chains, anchor[c].seq > 0
                 PROVE  LET n == anchor[c].seq
                            kept == SubSeq(log[c], 1, n)
                        IN  /\ \A m \in 0 .. n - 1 :
                                 verify_chain(c, SubSeq(log[c], 1, m), anchor[c]).kind
                                     = "HEAD_MISMATCH"
                            /\ \A e \in Entries \ {log[c][n].entry} :
                                 verify_chain(c, Rehashed(c, Altered(kept, n, e), n),
                                              anchor[c]).kind = "HEAD_MISMATCH"
      BY DEF AnchorSeesCut
    <2>1. log[c] \in Seq(Row) /\ Linked(c, log[c]) /\ anchor[c] \in ChainHead
      BY DEF IInv, TypeOK, LogLinked
    <2>2. anchor[c].seq <= Len(log[c]) /\ anchor[c].hash = log[c][anchor[c].seq].hash
      BY DEF IInv, AnchorTrue
    <2> QED BY <2>1, <2>2, LinkedAnchor
  <1> QED BY <1>1, Inductive, PTL
=============================================================================
