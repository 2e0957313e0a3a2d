------------------------- MODULE MatchLedgerProofs -------------------------
(***************************************************************************)
(* MatchLedger's safety for any number of transactions, runs, rows and     *)
(* stages.  What the committed rows promise is not inductive: a commit     *)
(* lays a run's private writes over them, so the invariant says what those *)
(* writes can be while they are private.                                   *)
(***************************************************************************)
EXTENDS MatchLedger, TLAPS

\* A row has transactions once it is inserted, committed or not.
RowsExist ==
    \A k \in ResultIds : pair[k] = NoPair <=> Unused(k)

\* A run only inserts rows, and no two insert the same one.
RowsPrivate ==
    \A r \in Runs, k \in ResultIds : wResult[r][k] # "NONE" =>
        /\ result[k] = "NONE"
        /\ \A o \in Runs : o # r => wResult[o][k] = "NONE"

\* The id of a group is one of its rows, so a new group's id is new.
GroupsNamed ==
    \A k \in ResultIds : pair[k] # NoPair =>
        /\ pair[pair[k].group] # NoPair
        /\ pair[pair[k].group].group = pair[k].group

\* A group is inserted by one run, in one piece.
GroupsWhole ==
    \A r \in Runs : \A k, l \in ResultIds :
        wResult[r][k] # "NONE" /\ pair[l].group = pair[k].group => wResult[r][l] # "NONE"

\* A row under review is a match of its own.
PendingAlone ==
    \A k, l \in ResultIds :
        /\ \/ result[k] = "PENDING_REVIEW"
           \/ \E r \in Runs : wResult[r][k] = "PENDING_REVIEW"
        /\ pair[l].group = pair[k].group
        => l = k

\* A private claim is the only one, and is for a row of the same run.
ClaimsPrivate ==
    \A r \in Runs, t \in Txns : wClaim[r][t] # 0 =>
        /\ claim[t] = 0
        /\ \A o \in Runs : o # r => wClaim[o][t] = 0
        /\ wResult[r][wClaim[r][t]] # "NONE"
        /\ t \in Sides(wClaim[r][t])

\* A private row holds its claims, as a committed one does.
RowsHoldClaims ==
    \A r \in Runs, k \in ResultIds : wResult[r][k] # "NONE" =>
        \A t \in Sides(k) : wClaim[r][t] # 0 /\ pair[wClaim[r][t]].group = pair[k].group

\* A run marks what it matched, and what it decided it marked.
StatusPrivate ==
    /\ \A r \in Runs, t \in Txns : wStatus[r][t] = "MATCHED" =>
         wClaim[r][t] # 0 /\ wResult[r][wClaim[r][t]] \in Decided
    /\ \A r \in Runs, k \in ResultIds : wResult[r][k] \in Decided =>
         \A t \in Sides(k) : wStatus[r][t] # "NONE"

\* The committed half of it.
StatusPublic ==
    /\ \A t \in Txns :
         matchStatus[t] = "MATCHED" => claim[t] # 0 /\ result[claim[t]] \in Decided
    /\ \A k \in ResultIds : result[k] \in Decided =>
         \A t \in Sides(k) : matchStatus[t] # "UNMATCHED"

LedgerInv ==
    /\ RowsExist
    /\ RowsPrivate
    /\ GroupsNamed
    /\ GroupsWhole
    /\ PendingAlone
    /\ ClaimsPrivate
    /\ RowsHoldClaims
    /\ LiveHoldsClaims
    /\ NoOrphanClaim
    /\ StatusPrivate
    /\ StatusPublic

IInv == TypeOK /\ LedgerInv

-----------------------------------------------------------------------------
(* Facts every action's proof starts from.                                 *)

\* The ledger's variables have their types; 0 is no row.
LedgerType ==
    /\ matchStatus \in [Txns -> TxnStatuses]
    /\ claim \in [Txns -> ResultIds \cup {0}]
    /\ result \in [ResultIds -> ResultStatuses \cup {"NONE"}]
    /\ pair \in [ResultIds -> PairRow \cup {NoPair}]
    /\ wStatus \in [Runs -> [Txns -> {"NONE", "MATCHED", "VOIDED"}]]
    /\ wClaim \in [Runs -> [Txns -> ResultIds \cup {0}]]
    /\ wResult \in [Runs -> [ResultIds -> Live \cup {"NONE"}]]

\* A row that exists has two transactions and a group among the row ids.
LEMMA ARow ==
    ASSUME LedgerType, NEW k \in ResultIds
    PROVE  /\ pair[k] # NoPair =>
                /\ pair[k] \in PairRow
                /\ pair[k].int \in Internals /\ pair[k].ext \in Externals
                /\ pair[k].group \in ResultIds
                /\ Sides(k) \subseteq Txns
           /\ pair[k] = NoPair => pair[k].group = 0
           /\ 0 \notin ResultIds
BY ResultIdsAssumption DEF LedgerType, PairRow, NoPair, Sides, Txns

\* A row that is committed or that some run has inserted is not NoPair.
LEMMA RowWritten ==
    ASSUME LedgerType, RowsExist, NEW k \in ResultIds
    PROVE  /\ result[k] # "NONE" => pair[k] # NoPair
           /\ \A r \in Runs : wResult[r][k] # "NONE" => pair[k] # NoPair
BY DEF LedgerType, RowsExist, Unused

-----------------------------------------------------------------------------
(* A pair is recorded, by a stage or by the auto-resolver.                 *)

LEMMA RecordPairStep ==
    ASSUME LedgerType, LedgerInv,
           NEW r \in Runs, NEW i \in Internals, NEW e \in Externals,
           NEW k \in ResultIds, NEW verdict \in {"AUTO_MATCHED", "PENDING_REVIEW"},
           Claimable(r, i), Claimable(r, e), Unused(k),
           RecordPair(r, i, e, k, verdict),
           UNCHANGED bookVars
    PROVE  LedgerType' /\ LedgerInv'
<1> DEFINE row == [int |-> i, ext |-> e, group |-> k, by |-> "level"]
<1>1. i \in Txns /\ e \in Txns /\ i # e /\ k # 0 /\ row # NoPair /\ row \in PairRow
  BY SourcesAssumption, ResultIdsAssumption DEF Txns, PairRow, NoPair
<1>2. matchStatus' = matchStatus /\ claim' = claim /\ result' = result
  BY DEF bookVars
<1>3. LedgerType'
  <2>1. wClaim' \in [Runs -> [Txns -> ResultIds \cup {0}]]
    BY <1>1 DEF LedgerType, RecordPair
  <2>2. wResult' \in [Runs -> [ResultIds -> Live \cup {"NONE"}]]
    BY DEF LedgerType, RecordPair, Live, Decided
  <2>3. pair' \in [ResultIds -> PairRow \cup {NoPair}]
    BY <1>1 DEF LedgerType, RecordPair
  <2>4. wStatus' \in [Runs -> [Txns -> {"NONE", "MATCHED", "VOIDED"}]]
    <3>1. CASE verdict = "PENDING_REVIEW"
      BY <3>1 DEF LedgerType, RecordPair
    <3>2. CASE verdict # "PENDING_REVIEW"
      <4>1. wStatus' = [wStatus EXCEPT ![r][i] = "MATCHED", ![r][e] = "MATCHED"]
        BY <3>2 DEF RecordPair
      <4>2. QED
        BY <4>1, <1>1 DEF LedgerType
    <3>3. QED
      BY <3>1, <3>2
  <2>5. QED
    BY <1>2, <2>1, <2>2, <2>3, <2>4 DEF LedgerType
<1>4. \A s \in Runs, t \in Txns :
        wClaim'[s][t] = IF s = r /\ t \in {i, e} THEN k ELSE wClaim[s][t]
  BY <1>1 DEF LedgerType, RecordPair
<1>5. \A s \in Runs, l \in ResultIds :
        wResult'[s][l] = IF s = r /\ l = k THEN verdict ELSE wResult[s][l]
  BY DEF LedgerType, RecordPair
<1>6. \A l \in ResultIds : pair'[l] = IF l = k THEN row ELSE pair[l]
  BY DEF LedgerType, RecordPair
<1>7. /\ verdict = "PENDING_REVIEW" => wStatus' = wStatus
      /\ verdict # "PENDING_REVIEW" => \A s \in Runs, t \in Txns :
            wStatus'[s][t] = IF s = r /\ t \in {i, e} THEN "MATCHED" ELSE wStatus[s][t]
  BY <1>1 DEF LedgerType, RecordPair
<1>8. /\ result[k] = "NONE" /\ pair[k] = NoPair
      /\ \A s \in Runs : wResult[s][k] = "NONE"
      /\ \A s \in Runs : wClaim[s][i] = 0 /\ wClaim[s][e] = 0
      /\ claim[i] = 0 /\ claim[e] = 0
  BY <1>1 DEF Unused, LedgerInv, RowsExist, Claimable, ClaimedByOther, SeenClaim
<1>9. /\ row.group = k
      /\ \A l \in ResultIds : l # k => pair[l].group # k
  BY <1>8, ARow, <1>1 DEF LedgerInv, GroupsNamed
<1>10. \A l \in ResultIds : Sides(l)' = IF l = k THEN {i, e} ELSE Sides(l)
  BY <1>6 DEF Sides
<1>11. \A l \in ResultIds : \A s \in Runs : result[l] # "NONE" \/ wResult[s][l] # "NONE" =>
          l # k /\ pair[l] # NoPair /\ Sides(l) \subseteq Txns
  BY <1>8, ARow, RowWritten DEF LedgerInv
<1>12. \A s \in Runs, t \in Txns : wClaim[s][t] # 0 =>
          /\ wClaim[s][t] \in ResultIds /\ wClaim[s][t] # k
          /\ t \notin {i, e}
  BY <1>8 DEF LedgerInv, ClaimsPrivate, LedgerType
<1>13. \A t \in Txns : claim[t] # 0 =>
          /\ claim[t] \in ResultIds /\ claim[t] # k
          /\ t \notin {i, e}
  BY <1>8 DEF LedgerInv, NoOrphanClaim, LedgerType, Live, Decided
<1> HIDE DEF row
<1>14. RowsExist'
  BY <1>1, <1>2, <1>5, <1>6 DEF LedgerInv, RowsExist, Unused
<1>15. RowsPrivate'
  BY <1>2, <1>5, <1>8 DEF LedgerInv, RowsPrivate
<1>16. GroupsNamed'
  BY <1>1, <1>6, <1>8, <1>9, ARow DEF LedgerInv, GroupsNamed
<1>17. GroupsWhole'
  BY <1>5, <1>6, <1>8, <1>9 DEF LedgerInv, GroupsWhole
<1>18. PendingAlone'
  BY <1>2, <1>5, <1>6, <1>8, <1>9 DEF LedgerInv, PendingAlone
<1>19. ClaimsPrivate'
  BY <1>1, <1>2, <1>4, <1>5, <1>8, <1>10, <1>12 DEF LedgerInv, ClaimsPrivate
<1>20. RowsHoldClaims'
  <2> SUFFICES ASSUME NEW s \in Runs, NEW l \in ResultIds, wResult'[s][l] # "NONE",
                      NEW t \in Sides(l)'
               PROVE  wClaim'[s][t] # 0 /\ pair'[wClaim'[s][t]].group = pair'[l].group
    BY DEF RowsHoldClaims
  <2>1. CASE l = k
    BY <2>1, <1>1, <1>4, <1>5, <1>6, <1>8, <1>10
  <2>2. CASE l # k
    <3>1. wResult[s][l] # "NONE" /\ t \in Sides(l) /\ t \in Txns
      BY <2>2, <1>5, <1>10, <1>11
    <3>2. wClaim[s][t] # 0 /\ pair[wClaim[s][t]].group = pair[l].group
      BY <3>1 DEF LedgerInv, RowsHoldClaims
    <3>3. QED
      BY <2>2, <3>1, <3>2, <1>4, <1>6, <1>12
  <2>3. QED
    BY <2>1, <2>2
<1>21. LiveHoldsClaims'
  <2> SUFFICES ASSUME NEW l \in ResultIds, result[l] \in Live, NEW t \in Sides(l)'
               PROVE  /\ claim[t] # 0
                      /\ result[claim[t]] \in Live
                      /\ pair'[claim[t]].group = pair'[l].group
    BY <1>2 DEF LiveHoldsClaims
  <2>1. l # k /\ t \in Sides(l) /\ t \in Txns
    BY <1>8, <1>10, <1>11 DEF Live, Decided
  <2>2. claim[t] # 0 /\ result[claim[t]] \in Live /\ pair[claim[t]].group = pair[l].group
    BY <2>1 DEF LedgerInv, LiveHoldsClaims
  <2>3. QED
    BY <2>1, <2>2, <1>6, <1>13
<1>22. NoOrphanClaim'
  BY <1>1, <1>2, <1>8, <1>10 DEF LedgerInv, NoOrphanClaim, LedgerType, Live, Decided
<1>23. StatusPrivate'
  <2>1. ASSUME NEW s \in Runs, NEW t \in Txns, wStatus'[s][t] = "MATCHED"
        PROVE  wClaim'[s][t] # 0 /\ wResult'[s][wClaim'[s][t]] \in Decided
    <3>1. CASE s = r /\ t \in {i, e} /\ verdict # "PENDING_REVIEW"
      BY <3>1, <1>1, <1>4, <1>5 DEF Decided
    <3>2. CASE ~ (s = r /\ t \in {i, e} /\ verdict # "PENDING_REVIEW")
      <4>1. wStatus[s][t] = "MATCHED"
        BY <2>1, <3>2, <1>7
      <4>2. wClaim[s][t] # 0 /\ wResult[s][wClaim[s][t]] \in Decided
        BY <4>1 DEF LedgerInv, StatusPrivate
      <4>3. QED
        BY <4>2, <1>4, <1>5, <1>12
    <3>3. QED
      BY <3>1, <3>2
  <2>2. ASSUME NEW s \in Runs, NEW l \in ResultIds, wResult'[s][l] \in Decided,
               NEW t \in Sides(l)'
        PROVE  wStatus'[s][t] # "NONE"
    <3>1. CASE s = r /\ l = k
      BY <2>2, <3>1, <1>1, <1>5, <1>7, <1>10 DEF Decided
    <3>2. CASE ~ (s = r /\ l = k)
      <4>1. wResult[s][l] \in Decided /\ l # k
        BY <2>2, <3>2, <1>5, <1>8 DEF Decided
      <4>2. t \in Sides(l) /\ t \in Txns
        BY <4>1, <2>2, <1>10, <1>11 DEF Decided
      <4>3. wStatus[s][t] # "NONE"
        BY <4>1, <4>2 DEF LedgerInv, StatusPrivate
      <4>4. QED
        BY <4>2, <4>3, <1>7
    <3>3. QED
      BY <3>1, <3>2
  <2>3. QED
    BY <2>1, <2>2 DEF StatusPrivate
<1>24. StatusPublic'
  BY <1>1, <1>2, <1>8, <1>10 DEF LedgerInv, StatusPublic, LedgerType, Decided
<1>25. QED
  BY <1>3, <1>14, <1>15, <1>16, <1>17, <1>18, <1>19, <1>20, <1>21, <1>22, <1>23, <1>24
  DEF LedgerInv

-----------------------------------------------------------------------------
(* A group is recorded.                                                    *)

LEMMA RecordGroupStep ==
    ASSUME LedgerType, LedgerInv, NEW r \in Runs, NEW single, NEW members,
           \/ single \in Internals /\ members \subseteq Externals
           \/ single \in Externals /\ members \subseteq Internals,
           NEW row \in Injection(members, ResultIds), NEW first \in members,
           \A t \in {single} \cup members : Claimable(r, t),
           \A m \in members : Unused(row[m]),
           RecordGroup(r, single, members, row, first),
           UNCHANGED bookVars
    PROVE  LedgerType' /\ LedgerInv'
<1> DEFINE all == {single} \cup members
           new(k) == \E m \in members : row[m] = k
           who(k) == CHOOSE m \in members : row[m] = k
           id == row[first]
<1>1. /\ all \subseteq Txns /\ single \notin members
      /\ \A m \in members : row[m] \in ResultIds /\ row[m] # 0
      /\ \A m, n \in members : row[m] = row[n] => m = n
      /\ id \in ResultIds /\ new(id) /\ id # 0
  BY SourcesAssumption, ResultIdsAssumption DEF Txns, Injection, IsInjective
<1>2. matchStatus' = matchStatus /\ claim' = claim /\ result' = result
  BY DEF bookVars
<1>3. \A m \in members : who(row[m]) = m
  BY <1>1
<1>4. \A k \in ResultIds : new(k) => who(k) \in members /\ row[who(k)] = k
  OBVIOUS
<1>5. \A m \in members : /\ GroupRow(single, m, id) \in PairRow
                         /\ GroupRow(single, m, id) # NoPair
                         /\ GroupRow(single, m, id).group = id
                         /\ {GroupRow(single, m, id).int, GroupRow(single, m, id).ext}
                              = {single, m}
  BY <1>1, SourcesAssumption DEF GroupRow, PairRow, NoPair
<1>6. /\ \A s \in Runs, t \in Txns :
           wClaim'[s][t] = IF s = r /\ t \in members THEN row[t]
                           ELSE IF s = r /\ t = single THEN id ELSE wClaim[s][t]
      /\ wClaim' \in [Runs -> [Txns -> ResultIds \cup {0}]]
  BY <1>1 DEF LedgerType, RecordGroup
<1>7. /\ \A s \in Runs, k \in ResultIds :
           wResult'[s][k] = IF s = r /\ new(k) THEN "AUTO_MATCHED" ELSE wResult[s][k]
      /\ wResult' \in [Runs -> [ResultIds -> Live \cup {"NONE"}]]
  BY DEF LedgerType, RecordGroup, Live, Decided
<1>8. /\ \A s \in Runs, t \in Txns :
           wStatus'[s][t] = IF s = r /\ t \in all THEN "MATCHED" ELSE wStatus[s][t]
      /\ wStatus' \in [Runs -> [Txns -> {"NONE", "MATCHED", "VOIDED"}]]
  BY DEF LedgerType, RecordGroup
<1>9. \A k \in ResultIds :
        pair'[k] = IF new(k) THEN GroupRow(single, who(k), id) ELSE pair[k]
  BY DEF RecordGroup
<1>10. LedgerType'
  <2> HIDE DEF new, who, id
  <2>1. \A k \in ResultIds : pair'[k] \in PairRow \cup {NoPair}
    BY <1>4, <1>5, <1>9 DEF LedgerType
  <2>2. pair' \in [ResultIds -> PairRow \cup {NoPair}]
    BY <2>1 DEF RecordGroup
  <2>3. QED
    BY <1>2, <1>6, <1>7, <1>8, <2>2 DEF LedgerType
<1>11. /\ \A k \in ResultIds : new(k) =>
             /\ result[k] = "NONE" /\ pair[k] = NoPair
             /\ \A s \in Runs : wResult[s][k] = "NONE"
       /\ \A t \in all : claim[t] = 0 /\ \A s \in Runs : wClaim[s][t] = 0
  BY <1>1 DEF Unused, LedgerInv, RowsExist, Claimable, ClaimedByOther, SeenClaim
<1>12. /\ \A k \in ResultIds : new(k) => pair'[k].group = id /\ pair'[k] # NoPair
       /\ \A k \in ResultIds : ~ new(k) => pair[k].group # id
  <2> HIDE DEF new, who, id
  <2>1. ASSUME NEW k \in ResultIds, ~ new(k), pair[k].group = id PROVE FALSE
    <3>1. pair[k] # NoPair
      BY <2>1, <1>1, ARow
    <3>2. pair[id] # NoPair
      BY <3>1, <2>1 DEF LedgerInv, GroupsNamed
    <3>3. QED
      BY <3>2, <1>1, <1>11
  <2>2. QED
    BY <2>1, <1>4, <1>5, <1>9
<1>13. \A k \in ResultIds : /\ new(k) => Sides(k)' = {single, who(k)}
                            /\ ~ new(k) => Sides(k)' = Sides(k)
  <2> HIDE DEF new, who, id
  <2> QED
    BY <1>4, <1>5, <1>9 DEF Sides
<1>14. \A k \in ResultIds, s \in Runs : result[k] # "NONE" \/ wResult[s][k] # "NONE" =>
          ~ new(k) /\ pair[k] # NoPair /\ Sides(k) \subseteq Txns
  <2> HIDE DEF new, who, id
  <2> QED
    BY <1>11, ARow, RowWritten DEF LedgerInv
<1>15. \A s \in Runs, t \in Txns : wClaim[s][t] # 0 =>
          wClaim[s][t] \in ResultIds /\ ~ new(wClaim[s][t]) /\ t \notin all
  <2> HIDE DEF new, who, id, all
  <2> QED
    BY <1>11 DEF LedgerInv, ClaimsPrivate, LedgerType
<1>16. \A t \in Txns : claim[t] # 0 =>
          claim[t] \in ResultIds /\ ~ new(claim[t]) /\ t \notin all
  <2> HIDE DEF new, who, id, all
  <2> QED
    BY <1>11 DEF LedgerInv, NoOrphanClaim, LedgerType, Live, Decided
<1>17. /\ \A t \in all : /\ wClaim'[r][t] # 0 /\ wClaim'[r][t] \in ResultIds
                         /\ new(wClaim'[r][t])
                         /\ t \in Sides(wClaim[r][t])'
       /\ \A s \in Runs, t \in Txns : ~ (s = r /\ t \in all) => wClaim'[s][t] = wClaim[s][t]
  <2>1. \A m \in members : wClaim'[r][m] = row[m] /\ new(row[m]) /\ m \in Sides(row[m])'
    BY <1>1, <1>3, <1>6, <1>13
  <2>2. wClaim'[r][single] = id /\ single \in Sides(id)'
    BY <1>1, <1>6, <1>13
  <2>3. QED
    BY <2>1, <2>2, <1>1, <1>6
<1>18. \A k \in ResultIds : new(k) => Sides(k)' \subseteq all
  BY <1>4, <1>13
<1> HIDE DEF new, who, id, all
<1>19. RowsExist'
  BY <1>2, <1>7, <1>9, <1>11, <1>12 DEF LedgerInv, RowsExist, Unused
<1>20. RowsPrivate'
  BY <1>2, <1>7, <1>11 DEF LedgerInv, RowsPrivate
<1>21. GroupsNamed'
  BY <1>1, <1>9, <1>11, <1>12, ARow DEF LedgerInv, GroupsNamed
<1>22. GroupsWhole'
  BY <1>7, <1>9, <1>11, <1>12 DEF LedgerInv, GroupsWhole
<1>23. PendingAlone'
  BY <1>2, <1>7, <1>9, <1>11, <1>12 DEF LedgerInv, PendingAlone
<1>24. ClaimsPrivate'
  <2> SUFFICES ASSUME NEW s \in Runs, NEW t \in Txns, wClaim'[s][t] # 0
               PROVE  /\ claim[t] = 0
                      /\ \A o \in Runs : o # s => wClaim'[o][t] = 0
                      /\ wResult'[s][wClaim'[s][t]] # "NONE"
                      /\ t \in Sides(wClaim[s][t])'
    BY <1>2 DEF ClaimsPrivate
  <2>1. CASE s = r /\ t \in all
    BY <2>1, <1>7, <1>11, <1>17
  <2>2. CASE ~ (s = r /\ t \in all)
    <3>1. wClaim'[s][t] = wClaim[s][t] /\ wClaim[s][t] # 0
      BY <2>2, <1>17
    <3>2. /\ claim[t] = 0 /\ \A o \in Runs : o # s => wClaim[o][t] = 0
          /\ wResult[s][wClaim[s][t]] # "NONE" /\ t \in Sides(wClaim[s][t])
      BY <3>1 DEF LedgerInv, ClaimsPrivate
    <3>3. wClaim[s][t] \in ResultIds /\ ~ new(wClaim[s][t]) /\ t \notin all
      BY <3>1, <1>15
    <3>4. QED
      BY <3>1, <3>2, <3>3, <1>7, <1>13, <1>17
  <2>3. QED
    BY <2>1, <2>2
<1>25. RowsHoldClaims'
  <2> SUFFICES ASSUME NEW s \in Runs, NEW l \in ResultIds, wResult'[s][l] # "NONE",
                      NEW t \in Sides(l)'
               PROVE  wClaim'[s][t] # 0 /\ pair'[wClaim'[s][t]].group = pair'[l].group
    BY DEF RowsHoldClaims
  <2>1. CASE new(l)
    BY <2>1, <1>7, <1>11, <1>12, <1>17, <1>18
  <2>2. CASE ~ new(l)
    <3>1. wResult[s][l] # "NONE" /\ t \in Sides(l) /\ t \in Txns
      BY <2>2, <1>7, <1>13, <1>14
    <3>2. wClaim[s][t] # 0 /\ pair[wClaim[s][t]].group = pair[l].group
      BY <3>1 DEF LedgerInv, RowsHoldClaims
    <3>3. QED
      BY <2>2, <3>1, <3>2, <1>9, <1>15, <1>17
  <2>3. QED
    BY <2>1, <2>2
<1>26. LiveHoldsClaims'
  <2> SUFFICES ASSUME NEW l \in ResultIds, result[l] \in Live, NEW t \in Sides(l)'
               PROVE  /\ claim[t] # 0
                      /\ result[claim[t]] \in Live
                      /\ pair'[claim[t]].group = pair'[l].group
    BY <1>2 DEF LiveHoldsClaims
  <2>1. ~ new(l) /\ t \in Sides(l) /\ t \in Txns
    BY <1>11, <1>13, <1>14 DEF Live, Decided
  <2>2. claim[t] # 0 /\ result[claim[t]] \in Live /\ pair[claim[t]].group = pair[l].group
    BY <2>1 DEF LedgerInv, LiveHoldsClaims
  <2>3. QED
    BY <2>1, <2>2, <1>9, <1>16
<1>27. NoOrphanClaim'
  BY <1>2, <1>13, <1>16 DEF LedgerInv, NoOrphanClaim
<1>28. StatusPrivate'
  <2>1. ASSUME NEW s \in Runs, NEW t \in Txns, wStatus'[s][t] = "MATCHED"
        PROVE  wClaim'[s][t] # 0 /\ wResult'[s][wClaim'[s][t]] \in Decided
    <3>1. CASE s = r /\ t \in all
      BY <3>1, <1>7, <1>17 DEF Decided
    <3>2. CASE ~ (s = r /\ t \in all)
      <4>1. wStatus[s][t] = "MATCHED"
        BY <2>1, <3>2, <1>8
      <4>2. wClaim[s][t] # 0 /\ wResult[s][wClaim[s][t]] \in Decided
        BY <4>1 DEF LedgerInv, StatusPrivate
      <4>3. QED
        BY <3>2, <4>2, <1>7, <1>15, <1>17
    <3>3. QED
      BY <3>1, <3>2
  <2>2. ASSUME NEW s \in Runs, NEW l \in ResultIds, wResult'[s][l] \in Decided,
               NEW t \in Sides(l)'
        PROVE  wStatus'[s][t] # "NONE"
    <3>1. CASE new(l)
      <4>1. s = r
        BY <2>2, <3>1, <1>7, <1>11 DEF Decided
      <4>2. QED
        BY <2>2, <3>1, <4>1, <1>1, <1>8, <1>18
    <3>2. CASE ~ new(l)
      <4>1. wResult[s][l] \in Decided
        BY <2>2, <3>2, <1>7
      <4>2. t \in Sides(l) /\ t \in Txns
        BY <3>2, <4>1, <2>2, <1>13, <1>14 DEF Decided
      <4>3. wStatus[s][t] # "NONE"
        BY <4>1, <4>2 DEF LedgerInv, StatusPrivate
      <4>4. QED
        BY <4>2, <4>3, <1>8
    <3>3. QED
      BY <3>1, <3>2
  <2>3. QED
    BY <2>1, <2>2 DEF StatusPrivate
<1>29. StatusPublic'
  BY <1>2, <1>11, <1>13, <1>14, <1>16 DEF LedgerInv, StatusPublic, Decided
<1>30. QED
  BY <1>10, <1>19, <1>20, <1>21, <1>22, <1>23, <1>24, <1>25, <1>26, <1>27, <1>28, <1>29
  DEF LedgerInv

-----------------------------------------------------------------------------
(* The auto-resolver's other writes.                                       *)

LEMMA VoidStep ==
    ASSUME LedgerType, LedgerInv, NEW r \in Runs, NEW d \in Txns,
           wStatus' = [wStatus EXCEPT ![r][d] = "VOIDED"],
           UNCHANGED <<bookVars, pair, wClaim, wResult>>
    PROVE  LedgerType' /\ LedgerInv'
<1>1. /\ matchStatus' = matchStatus /\ claim' = claim /\ result' = result
      /\ pair' = pair /\ wClaim' = wClaim /\ wResult' = wResult
  BY DEF bookVars
<1>2. LedgerType'
  BY <1>1 DEF LedgerType
<1>3. \A s \in Runs, t \in Txns :
        wStatus'[s][t] = IF s = r /\ t = d THEN "VOIDED" ELSE wStatus[s][t]
  BY DEF LedgerType
<1>4. \A s \in Runs, k \in ResultIds : wResult[s][k] \in Decided => Sides(k) \subseteq Txns
  BY ARow, RowWritten DEF LedgerInv, Decided
<1>5. StatusPrivate'
  <2>1. \A s \in Runs, t \in Txns : wStatus'[s][t] = "MATCHED" =>
          wClaim[s][t] # 0 /\ wResult[s][wClaim[s][t]] \in Decided
    BY <1>3 DEF LedgerInv, StatusPrivate
  <2>2. \A s \in Runs, k \in ResultIds : wResult[s][k] \in Decided =>
          \A t \in Sides(k) : wStatus'[s][t] # "NONE"
    BY <1>3, <1>4 DEF LedgerInv, StatusPrivate
  <2>3. QED
    BY <1>1, <2>1, <2>2 DEF StatusPrivate, Sides
<1>6. QED
  BY <1>1, <1>2, <1>5 DEF LedgerInv, RowsExist, Unused, RowsPrivate, GroupsNamed,
     GroupsWhole, PendingAlone, ClaimsPrivate, RowsHoldClaims, LiveHoldsClaims,
     NoOrphanClaim, StatusPublic, Sides

LEMMA SettlePendingStep ==
    ASSUME LedgerType, LedgerInv, NEW r \in Runs, NEW k \in ResultIds,
           SettlePending(r, k)
    PROVE  LedgerType' /\ LedgerInv'
<1>1. /\ matchStatus' = matchStatus /\ claim' = claim /\ result' = result
      /\ pair' = pair /\ wClaim' = wClaim
  BY DEF SettlePending, bookVars
<1>2. /\ wResult[r][k] = "PENDING_REVIEW"
      /\ \A s \in Runs, l \in ResultIds :
           wResult'[s][l] = IF s = r /\ l = k THEN "CONFIRMED" ELSE wResult[s][l]
      /\ \A s \in Runs, t \in Txns :
           wStatus'[s][t] = IF s = r /\ t \in Sides(k) THEN "MATCHED" ELSE wStatus[s][t]
  BY DEF SettlePending, LedgerType
<1>3. LedgerType'
  <2>1. wResult' \in [Runs -> [ResultIds -> Live \cup {"NONE"}]]
    BY DEF SettlePending, LedgerType, Live, Decided
  <2>2. wStatus' \in [Runs -> [Txns -> {"NONE", "MATCHED", "VOIDED"}]]
    BY DEF SettlePending, LedgerType
  <2>3. QED
    BY <1>1, <2>1, <2>2 DEF LedgerType
<1>4. \A l \in ResultIds : Sides(l)' = Sides(l)
  BY <1>1 DEF Sides
<1>5. \A s \in Runs, l \in ResultIds : wResult'[s][l] = "NONE" <=> wResult[s][l] = "NONE"
  BY <1>2
<1>6. RowsExist' /\ RowsPrivate' /\ GroupsNamed' /\ GroupsWhole'
  BY <1>1, <1>5 DEF LedgerInv, RowsExist, Unused, RowsPrivate, GroupsNamed, GroupsWhole
<1>7. PendingAlone'
  BY <1>1, <1>2 DEF LedgerInv, PendingAlone
<1>8. ClaimsPrivate' /\ RowsHoldClaims' /\ LiveHoldsClaims' /\ NoOrphanClaim' /\ StatusPublic'
  <2>1. \A s \in Runs, t \in Txns : wClaim[s][t] # 0 => wClaim[s][t] \in ResultIds
    BY DEF LedgerType
  <2>2. ClaimsPrivate'
    BY <1>1, <1>4, <1>5, <2>1 DEF LedgerInv, ClaimsPrivate, Sides
  <2>3. RowsHoldClaims'
    BY <1>1, <1>4, <1>5 DEF LedgerInv, RowsHoldClaims
  <2>4. QED
    BY <1>1, <1>4, <2>2, <2>3 DEF LedgerInv, LiveHoldsClaims, NoOrphanClaim, StatusPublic, Sides
<1>9. \A t \in Sides(k) : t \in Txns /\ wClaim[r][t] = k
  <2>1. pair[k] # NoPair /\ Sides(k) \subseteq Txns
    BY <1>2, ARow, RowWritten DEF LedgerInv
  <2>2. \A t \in Sides(k) : wClaim[r][t] \in ResultIds /\ pair[wClaim[r][t]].group = pair[k].group
    BY <1>2, <2>1 DEF LedgerInv, RowsHoldClaims, LedgerType
  <2>3. QED
    BY <1>2, <2>1, <2>2 DEF LedgerInv, PendingAlone
<1>10. StatusPrivate'
  <2>1. ASSUME NEW s \in Runs, NEW t \in Txns, wStatus'[s][t] = "MATCHED"
        PROVE  wClaim[s][t] # 0 /\ wResult'[s][wClaim[s][t]] \in Decided
    <3>1. CASE s = r /\ t \in Sides(k)
      BY <3>1, <1>2, <1>9, ResultIdsAssumption DEF Decided
    <3>2. CASE ~ (s = r /\ t \in Sides(k))
      <4>1. wClaim[s][t] # 0 /\ wResult[s][wClaim[s][t]] \in Decided
        BY <3>2, <2>1, <1>2 DEF LedgerInv, StatusPrivate
      <4>2. QED
        BY <4>1, <1>2 DEF Decided, LedgerType
    <3>3. QED
      BY <3>1, <3>2
  <2>2. ASSUME NEW s \in Runs, NEW l \in ResultIds, wResult'[s][l] \in Decided,
               NEW t \in Sides(l)
        PROVE  wStatus'[s][t] # "NONE"
    <3>1. CASE s = r /\ l = k
      BY <3>1, <2>2, <1>2, <1>9
    <3>2. CASE ~ (s = r /\ l = k)
      <4>1. wResult[s][l] \in Decided
        BY <3>2, <2>2, <1>2
      <4>2. wStatus[s][t] # "NONE" /\ t \in Txns
        BY <4>1, <2>2, ARow, RowWritten DEF LedgerInv, StatusPrivate, Decided
      <4>3. QED
        BY <4>2, <1>2
    <3>3. QED
      BY <3>1, <3>2
  <2>3. QED
    BY <1>1, <1>4, <2>1, <2>2 DEF StatusPrivate
<1>11. QED
  BY <1>3, <1>6, <1>7, <1>8, <1>10 DEF LedgerInv

-----------------------------------------------------------------------------
(* The end of a run: its writes become the committed rows, or vanish.      *)

\* After either, the run has no private writes and the others keep theirs.
LEMMA FinishedWrites ==
    ASSUME LedgerType, NEW r \in Runs, Finished(r)
    PROVE  /\ wStatus' \in [Runs -> [Txns -> {"NONE", "MATCHED", "VOIDED"}]]
           /\ wClaim' \in [Runs -> [Txns -> ResultIds \cup {0}]]
           /\ wResult' \in [Runs -> [ResultIds -> Live \cup {"NONE"}]]
           /\ \A s \in Runs, t \in Txns :
                /\ wStatus'[s][t] = IF s = r THEN "NONE" ELSE wStatus[s][t]
                /\ wClaim'[s][t] = IF s = r THEN 0 ELSE wClaim[s][t]
           /\ \A s \in Runs, k \in ResultIds :
                wResult'[s][k] = IF s = r THEN "NONE" ELSE wResult[s][k]
BY DEF Finished, LedgerType, NoStatusWrites, NoClaimWrites, NoResultWrites

LEMMA CommitStep ==
    ASSUME LedgerType, LedgerInv, NEW r \in Runs, Commit(r)
    PROVE  LedgerType' /\ LedgerInv'
<1>1. /\ pair' = pair
      /\ \A t \in Txns : matchStatus'[t] = SeenStatus(r, t) /\ claim'[t] = SeenClaim(r, t)
      /\ \A k \in ResultIds : result'[k] = SeenResult(r, k)
  BY DEF Commit
<1>2. /\ matchStatus' \in [Txns -> TxnStatuses]
      /\ claim' \in [Txns -> ResultIds \cup {0}]
      /\ result' \in [ResultIds -> ResultStatuses \cup {"NONE"}]
  BY DEF Commit, LedgerType, SeenStatus, SeenClaim, SeenResult, TxnStatuses, ResultStatuses
<1>3. Finished(r)
  BY DEF Commit
<1>4. LedgerType'
  BY <1>1, <1>2, <1>3, FinishedWrites DEF LedgerType
<1>5. \A l \in ResultIds : Sides(l)' = Sides(l)
  BY <1>1 DEF Sides
<1>6. \A k \in ResultIds :
        result'[k] = IF wResult[r][k] # "NONE" THEN wResult[r][k] ELSE result[k]
  BY <1>1 DEF SeenResult
<1>7. \A t \in Txns :
        claim'[t] = IF wClaim[r][t] # 0 THEN wClaim[r][t] ELSE claim[t]
  BY <1>1 DEF SeenClaim
<1>8. \A t \in Txns :
        matchStatus'[t] = IF wStatus[r][t] # "NONE" THEN wStatus[r][t] ELSE matchStatus[t]
  BY <1>1 DEF SeenStatus
<1>9. /\ \A s \in Runs, t \in Txns :
           /\ wStatus'[s][t] = IF s = r THEN "NONE" ELSE wStatus[s][t]
           /\ wClaim'[s][t] = IF s = r THEN 0 ELSE wClaim[s][t]
      /\ \A s \in Runs, k \in ResultIds :
           wResult'[s][k] = IF s = r THEN "NONE" ELSE wResult[s][k]
  BY <1>3, FinishedWrites
<1>10. \A k \in ResultIds : /\ wResult[r][k] # "NONE" => wResult[r][k] \in Live /\ result[k] = "NONE"
                            /\ wResult[r][k] # "NONE" \/ result[k] # "NONE" =>
                                 pair[k] # NoPair /\ Sides(k) \subseteq Txns
  BY ARow, RowWritten DEF LedgerInv, RowsPrivate, LedgerType
<1>11. /\ \A t \in Txns : claim[t] # 0 => claim[t] \in ResultIds /\ result[claim[t]] \in Live
       /\ \A t \in Txns : wClaim[r][t] # 0 =>
            wClaim[r][t] \in ResultIds /\ wResult[r][wClaim[r][t]] # "NONE" /\ claim[t] = 0
  BY DEF LedgerInv, NoOrphanClaim, ClaimsPrivate, LedgerType
<1>12. \A t \in Txns : claim[t] # 0 => wResult[r][claim[t]] = "NONE"
  BY <1>10, <1>11 DEF Live, Decided
<1>13. RowsExist' /\ RowsPrivate' /\ GroupsNamed' /\ GroupsWhole'
  <2>1. RowsExist'
    BY <1>1, <1>6, <1>9, <1>10 DEF LedgerInv, RowsExist, Unused, Live, Decided
  <2>2. RowsPrivate'
    BY <1>6, <1>9 DEF LedgerInv, RowsPrivate
  <2>3. QED
    BY <1>1, <1>9, <2>1, <2>2 DEF LedgerInv, GroupsNamed, GroupsWhole
<1>14. PendingAlone'
  BY <1>1, <1>6, <1>9 DEF LedgerInv, PendingAlone
<1>15. ClaimsPrivate'
  <2> SUFFICES ASSUME NEW s \in Runs, NEW t \in Txns, wClaim'[s][t] # 0
               PROVE  /\ claim'[t] = 0
                      /\ \A o \in Runs : o # s => wClaim'[o][t] = 0
                      /\ wResult'[s][wClaim'[s][t]] # "NONE"
                      /\ t \in Sides(wClaim[s][t])'
    BY DEF ClaimsPrivate
  <2>1. s # r /\ wClaim[s][t] # 0 /\ wClaim'[s][t] = wClaim[s][t] /\ wClaim[s][t] \in ResultIds
    BY <1>9 DEF LedgerType
  <2>2. /\ claim[t] = 0
        /\ \A o \in Runs : o # s => wClaim[o][t] = 0
        /\ wResult[s][wClaim[s][t]] # "NONE" /\ t \in Sides(wClaim[s][t])
    BY <2>1 DEF LedgerInv, ClaimsPrivate
  <2>3. Sides(wClaim[s][t])' = Sides(wClaim[s][t])
    BY <2>1, <1>1 DEF Sides
  <2>4. QED
    BY <2>1, <2>2, <2>3, <1>7, <1>9
<1>16. RowsHoldClaims'
  <2> SUFFICES ASSUME NEW s \in Runs, NEW l \in ResultIds, wResult'[s][l] # "NONE",
                      NEW t \in Sides(l)
               PROVE  wClaim'[s][t] # 0 /\ pair[wClaim'[s][t]].group = pair[l].group
    BY <1>1, <1>5 DEF RowsHoldClaims
  <2>1. s # r /\ wResult[s][l] # "NONE"
    BY <1>9
  <2>2. t \in Txns
    BY <2>1, ARow, RowWritten DEF LedgerInv
  <2>3. QED
    BY <2>1, <2>2, <1>9 DEF LedgerInv, RowsHoldClaims
<1>17. LiveHoldsClaims'
  <2> SUFFICES ASSUME NEW l \in ResultIds, result'[l] \in Live, NEW t \in Sides(l)
               PROVE  /\ claim'[t] # 0
                      /\ result'[claim'[t]] \in Live
                      /\ pair[claim'[t]].group = pair[l].group
    BY <1>1, <1>5 DEF LiveHoldsClaims
  <2>1. CASE wResult[r][l] # "NONE"
    <3>1. t \in Txns /\ wClaim[r][t] # 0 /\ pair[wClaim[r][t]].group = pair[l].group
      BY <2>1, <1>10 DEF LedgerInv, RowsHoldClaims
    <3>2. claim'[t] = wClaim[r][t] /\ wClaim[r][t] \in ResultIds
          /\ wResult[r][wClaim[r][t]] # "NONE"
      BY <3>1, <1>7, <1>11
    <3>3. QED
      BY <3>1, <3>2, <1>6, <1>10
  <2>2. CASE wResult[r][l] = "NONE"
    <3>1. result[l] \in Live /\ t \in Txns
      BY <2>2, <1>6, <1>10 DEF Live, Decided
    <3>2. claim[t] # 0 /\ result[claim[t]] \in Live /\ pair[claim[t]].group = pair[l].group
      BY <3>1 DEF LedgerInv, LiveHoldsClaims
    <3>3. claim'[t] = claim[t] /\ wResult[r][claim[t]] = "NONE" /\ claim[t] \in ResultIds
      BY <3>1, <3>2, <1>7, <1>11, <1>12
    <3>4. QED
      BY <3>2, <3>3, <1>6
  <2>3. QED
    BY <2>1, <2>2
<1>18. NoOrphanClaim'
  <2> SUFFICES ASSUME NEW t \in Txns, claim'[t] # 0
               PROVE  result'[claim'[t]] \in Live /\ t \in Sides(claim[t])'
    BY DEF NoOrphanClaim
  <2>1. CASE wClaim[r][t] # 0
    <3>1. claim'[t] = wClaim[r][t] /\ t \in Sides(wClaim[r][t])
      BY <2>1, <1>7 DEF LedgerInv, ClaimsPrivate
    <3>2. t \in Sides(claim[t])'
      BY <3>1, <1>1 DEF Sides
    <3>3. QED
      BY <2>1, <3>1, <3>2, <1>6, <1>10, <1>11
  <2>2. CASE wClaim[r][t] = 0
    <3>1. claim'[t] = claim[t] /\ claim[t] # 0 /\ t \in Sides(claim[t])
      BY <2>2, <1>7 DEF LedgerInv, NoOrphanClaim
    <3>2. t \in Sides(claim[t])'
      BY <3>1, <1>1 DEF Sides
    <3>3. QED
      BY <3>1, <3>2, <1>6, <1>11, <1>12
  <2>3. QED
    BY <2>1, <2>2
<1>19. StatusPrivate'
  <2>1. ASSUME NEW s \in Runs, NEW t \in Txns, wStatus'[s][t] = "MATCHED"
        PROVE  wClaim'[s][t] # 0 /\ wResult'[s][wClaim'[s][t]] \in Decided
    <3>1. s # r /\ wClaim[s][t] # 0 /\ wResult[s][wClaim[s][t]] \in Decided
      BY <2>1, <1>9 DEF LedgerInv, StatusPrivate
    <3>2. QED
      BY <3>1, <1>9 DEF LedgerType
  <2>2. ASSUME NEW s \in Runs, NEW l \in ResultIds, wResult'[s][l] \in Decided,
               NEW t \in Sides(l)
        PROVE  wStatus'[s][t] # "NONE"
    <3>1. s # r /\ wResult[s][l] \in Decided
      BY <2>2, <1>9 DEF Decided
    <3>2. t \in Txns /\ wStatus[s][t] # "NONE"
      BY <2>2, <3>1, ARow, RowWritten DEF LedgerInv, StatusPrivate, Decided
    <3>3. QED
      BY <3>1, <3>2, <1>9
  <2>3. QED
    BY <1>5, <2>1, <2>2 DEF StatusPrivate
<1>20. StatusPublic'
  <2>1. ASSUME NEW t \in Txns, matchStatus'[t] = "MATCHED"
        PROVE  claim'[t] # 0 /\ result'[claim'[t]] \in Decided
    <3>1. CASE wStatus[r][t] # "NONE"
      <4>1. wClaim[r][t] # 0 /\ wResult[r][wClaim[r][t]] \in Decided
        BY <2>1, <3>1, <1>8 DEF LedgerInv, StatusPrivate
      <4>2. QED
        BY <4>1, <1>6, <1>7, <1>11
    <3>2. CASE wStatus[r][t] = "NONE"
      <4>1. claim[t] # 0 /\ result[claim[t]] \in Decided
        BY <2>1, <3>2, <1>8 DEF LedgerInv, StatusPublic
      <4>2. claim'[t] = claim[t]
        BY <4>1, <1>7, <1>11
      <4>3. QED
        BY <4>1, <4>2, <1>6, <1>11, <1>12
    <3>3. QED
      BY <3>1, <3>2
  <2>2. ASSUME NEW l \in ResultIds, result'[l] \in Decided, NEW t \in Sides(l)
        PROVE  matchStatus'[t] # "UNMATCHED"
    <3>1. t \in Txns
      BY <2>2, <1>6, <1>10 DEF Decided
    <3>2. CASE wStatus[r][t] # "NONE"
      BY <3>1, <3>2, <1>8 DEF LedgerType
    <3>3. CASE wStatus[r][t] = "NONE"
      <4>1. wResult[r][l] = "NONE"
        BY <2>2, <3>3, <1>6 DEF LedgerInv, StatusPrivate
      <4>2. matchStatus[t] # "UNMATCHED"
        BY <2>2, <4>1, <1>6 DEF LedgerInv, StatusPublic
      <4>3. QED
        BY <3>1, <3>3, <4>2, <1>8
    <3>4. QED
      BY <3>2, <3>3
  <2>3. QED
    BY <1>5, <2>1, <2>2 DEF StatusPublic
<1>21. QED
  BY <1>4, <1>13, <1>14, <1>15, <1>16, <1>17, <1>18, <1>19, <1>20 DEF LedgerInv

LEMMA RollbackStep ==
    ASSUME LedgerType, LedgerInv, NEW r \in Runs, Rollback(r)
    PROVE  LedgerType' /\ LedgerInv'
<1> DEFINE gone(k) == wResult[r][k] # "NONE"
<1>1. /\ matchStatus' = matchStatus /\ claim' = claim /\ result' = result
      /\ \A k \in ResultIds : pair'[k] = IF gone(k) THEN NoPair ELSE pair[k]
      /\ pair' \in [ResultIds -> PairRow \cup {NoPair}]
  BY DEF Rollback, bookVars, LedgerType
<1>2. Finished(r)
  BY DEF Rollback
<1>3. LedgerType'
  BY <1>1, <1>2, FinishedWrites DEF LedgerType
<1>4. /\ \A s \in Runs, t \in Txns :
           /\ wStatus'[s][t] = IF s = r THEN "NONE" ELSE wStatus[s][t]
           /\ wClaim'[s][t] = IF s = r THEN 0 ELSE wClaim[s][t]
      /\ \A s \in Runs, k \in ResultIds :
           wResult'[s][k] = IF s = r THEN "NONE" ELSE wResult[s][k]
  BY <1>2, FinishedWrites
<1>5. \A k \in ResultIds : ~ gone(k) => pair'[k] = pair[k] /\ Sides(k)' = Sides(k)
  BY <1>1 DEF Sides
<1>6. /\ \A k \in ResultIds : result[k] # "NONE" => ~ gone(k)
      /\ \A s \in Runs, k \in ResultIds : s # r /\ wResult[s][k] # "NONE" => ~ gone(k)
  BY DEF LedgerInv, RowsPrivate
<1>7. /\ \A t \in Txns : claim[t] # 0 =>
           claim[t] \in ResultIds /\ ~ gone(claim[t])
      /\ \A s \in Runs, t \in Txns : s # r /\ wClaim[s][t] # 0 =>
           wClaim[s][t] \in ResultIds /\ ~ gone(wClaim[s][t])
  BY <1>6 DEF LedgerInv, NoOrphanClaim, ClaimsPrivate, LedgerType, Live, Decided
<1>8. \A k, l \in ResultIds : ~ gone(k) /\ pair[l].group = pair[k].group => ~ gone(l)
  BY DEF LedgerInv, GroupsWhole
<1> HIDE DEF gone
<1>9. RowsExist'
  BY <1>1, <1>4, <1>6 DEF LedgerInv, RowsExist, RowsPrivate, Unused, gone
<1>10. RowsPrivate'
  BY <1>1, <1>4 DEF LedgerInv, RowsPrivate
<1>11. GroupsNamed'
  <2> SUFFICES ASSUME NEW k \in ResultIds, pair'[k] # NoPair
               PROVE  pair'[pair'[k].group] # NoPair
                      /\ pair'[pair'[k].group].group = pair'[k].group
    BY DEF GroupsNamed
  <2>1. ~ gone(k) /\ pair'[k] = pair[k] /\ pair[k] # NoPair
    BY <1>1
  <2>2. pair[k].group \in ResultIds
    BY <2>1, ARow
  <2>3. pair[pair[k].group] # NoPair /\ pair[pair[k].group].group = pair[k].group
    BY <2>1 DEF LedgerInv, GroupsNamed
  <2>4. ~ gone(pair[k].group)
    BY <2>1, <2>2, <2>3, <1>8
  <2>5. QED
    BY <2>1, <2>2, <2>3, <2>4, <1>1
<1>12. GroupsWhole'
  <2> SUFFICES ASSUME NEW s \in Runs, NEW k \in ResultIds, NEW l \in ResultIds,
                      wResult'[s][k] # "NONE", pair'[l].group = pair'[k].group
               PROVE  wResult'[s][l] # "NONE"
    BY DEF GroupsWhole
  <2>1. s # r /\ wResult[s][k] # "NONE" /\ ~ gone(k)
    BY <1>4, <1>6
  <2>2. pair'[k] = pair[k] /\ pair[k].group # 0
    BY <2>1, <1>1, ARow, RowWritten DEF LedgerInv
  <2>3. pair'[l] = pair[l]
    BY <2>2, <1>1 DEF NoPair
  <2>4. QED
    BY <2>1, <2>2, <2>3, <1>4 DEF LedgerInv, GroupsWhole
<1>13. PendingAlone'
  <2> SUFFICES ASSUME NEW k \in ResultIds, NEW l \in ResultIds,
                      \/ result[k] = "PENDING_REVIEW"
                      \/ \E s \in Runs : wResult'[s][k] = "PENDING_REVIEW",
                      pair'[l].group = pair'[k].group
               PROVE  l = k
    BY <1>1 DEF PendingAlone
  <2>1. /\ ~ gone(k)
        /\ \/ result[k] = "PENDING_REVIEW"
           \/ \E s \in Runs : wResult[s][k] = "PENDING_REVIEW"
    BY <1>4, <1>6
  <2>2. pair'[k] = pair[k] /\ pair[k].group # 0
    BY <2>1, <1>1, ARow, RowWritten DEF LedgerInv
  <2>3. pair'[l] = pair[l]
    BY <2>2, <1>1 DEF NoPair
  <2>4. QED
    BY <2>1, <2>2, <2>3 DEF LedgerInv, PendingAlone
<1>14. ClaimsPrivate'
  <2> SUFFICES ASSUME NEW s \in Runs, NEW t \in Txns, wClaim'[s][t] # 0
               PROVE  /\ claim[t] = 0
                      /\ \A o \in Runs : o # s => wClaim'[o][t] = 0
                      /\ wResult'[s][wClaim'[s][t]] # "NONE"
                      /\ t \in Sides(wClaim[s][t])'
    BY <1>1 DEF ClaimsPrivate
  <2>1. s # r /\ wClaim[s][t] # 0 /\ wClaim'[s][t] = wClaim[s][t]
        /\ wClaim[s][t] \in ResultIds /\ ~ gone(wClaim[s][t])
    BY <1>4, <1>7
  <2>2. /\ claim[t] = 0
        /\ \A o \in Runs : o # s => wClaim[o][t] = 0
        /\ wResult[s][wClaim[s][t]] # "NONE" /\ t \in Sides(wClaim[s][t])
    BY <2>1 DEF LedgerInv, ClaimsPrivate
  <2>3. Sides(wClaim[s][t])' = Sides(wClaim[s][t])
    BY <2>1, <1>1 DEF Sides
  <2>4. QED
    BY <2>1, <2>2, <2>3, <1>4
<1>15. RowsHoldClaims'
  <2> SUFFICES ASSUME NEW s \in Runs, NEW l \in ResultIds, wResult'[s][l] # "NONE",
                      NEW t \in Sides(l)'
               PROVE  wClaim'[s][t] # 0 /\ pair'[wClaim'[s][t]].group = pair'[l].group
    BY DEF RowsHoldClaims
  <2>1. s # r /\ wResult[s][l] # "NONE" /\ ~ gone(l)
    BY <1>4, <1>6
  <2>2. t \in Sides(l) /\ t \in Txns
    BY <2>1, <1>5, ARow, RowWritten DEF LedgerInv
  <2>3. wClaim[s][t] # 0 /\ pair[wClaim[s][t]].group = pair[l].group
    BY <2>1, <2>2 DEF LedgerInv, RowsHoldClaims
  <2>4. QED
    BY <2>1, <2>2, <2>3, <1>1, <1>4, <1>7
<1>16. LiveHoldsClaims'
  <2> SUFFICES ASSUME NEW l \in ResultIds, result[l] \in Live, NEW t \in Sides(l)'
               PROVE  /\ claim[t] # 0
                      /\ result[claim[t]] \in Live
                      /\ pair'[claim[t]].group = pair'[l].group
    BY <1>1 DEF LiveHoldsClaims
  <2>1. ~ gone(l) /\ t \in Sides(l) /\ t \in Txns
    BY <1>5, <1>6, ARow, RowWritten DEF LedgerInv, Live, Decided
  <2>2. claim[t] # 0 /\ result[claim[t]] \in Live /\ pair[claim[t]].group = pair[l].group
    BY <2>1 DEF LedgerInv, LiveHoldsClaims
  <2>3. QED
    BY <2>1, <2>2, <1>1, <1>7
<1>17. NoOrphanClaim'
  BY <1>1, <1>5, <1>7 DEF LedgerInv, NoOrphanClaim, Sides
<1>18. StatusPrivate'
  <2>1. ASSUME NEW s \in Runs, NEW t \in Txns, wStatus'[s][t] = "MATCHED"
        PROVE  wClaim'[s][t] # 0 /\ wResult'[s][wClaim'[s][t]] \in Decided
    <3>1. s # r /\ wClaim[s][t] # 0 /\ wResult[s][wClaim[s][t]] \in Decided
      BY <2>1, <1>4 DEF LedgerInv, StatusPrivate
    <3>2. QED
      BY <3>1, <1>4, <1>7
  <2>2. ASSUME NEW s \in Runs, NEW l \in ResultIds, wResult'[s][l] \in Decided,
               NEW t \in Sides(l)'
        PROVE  wStatus'[s][t] # "NONE"
    <3>1. s # r /\ wResult[s][l] \in Decided /\ ~ gone(l)
      BY <2>2, <1>4, <1>6 DEF Decided
    <3>2. t \in Sides(l) /\ t \in Txns /\ wStatus[s][t] # "NONE"
      BY <2>2, <3>1, <1>5, ARow, RowWritten DEF LedgerInv, StatusPrivate, Decided
    <3>3. QED
      BY <3>1, <3>2, <1>4
  <2>3. QED
    BY <2>1, <2>2 DEF StatusPrivate
<1>19. StatusPublic'
  BY <1>1, <1>5, <1>6 DEF LedgerInv, StatusPublic, Decided
<1>20. QED
  BY <1>3, <1>9, <1>10, <1>11, <1>12, <1>13, <1>14, <1>15, <1>16, <1>17, <1>18, <1>19
  DEF LedgerInv

-----------------------------------------------------------------------------
(* The analysts' operations.                                               *)

LEMMA CreateStep ==
    ASSUME LedgerType, LedgerInv, NEW i \in Internals, NEW e \in Externals,
           Create(i, e)
    PROVE  LedgerType' /\ LedgerInv'
<1>1. PICK k \in ResultIds :
        /\ NextResult(k)
        /\ claim' = [claim EXCEPT ![i] = k, ![e] = k]
        /\ result' = [result EXCEPT ![k] = "CONFIRMED"]
        /\ pair' = [pair EXCEPT ![k] = [int |-> i, ext |-> e, group |-> k, by |-> "person"]]
  BY DEF Create
<1> DEFINE row == [int |-> i, ext |-> e, group |-> k, by |-> "person"]
<1>2. i \in Txns /\ e \in Txns /\ i # e /\ k # 0 /\ row # NoPair /\ row \in PairRow
  BY SourcesAssumption, ResultIdsAssumption DEF Txns, PairRow, NoPair
<1>3. /\ wStatus' = wStatus /\ wClaim' = wClaim /\ wResult' = wResult
      /\ \A t \in Txns : claim'[t] = IF t \in {i, e} THEN k ELSE claim[t]
      /\ \A l \in ResultIds : result'[l] = IF l = k THEN "CONFIRMED" ELSE result[l]
      /\ \A l \in ResultIds : pair'[l] = IF l = k THEN row ELSE pair[l]
      /\ \A t \in Txns : matchStatus'[t] = IF t \in {i, e} THEN "MATCHED" ELSE matchStatus[t]
  BY <1>1, <1>2 DEF Create, writeVars, LedgerType
<1>4. LedgerType'
  BY <1>1, <1>2, <1>3 DEF Create, LedgerType, TxnStatuses, ResultStatuses, Live, Decided
<1>5. /\ claim[i] = 0 /\ claim[e] = 0
      /\ \A s \in Runs : wClaim[s][i] = 0 /\ wClaim[s][e] = 0
      /\ result[k] = "NONE" /\ pair[k] = NoPair
      /\ \A s \in Runs : wResult[s][k] = "NONE"
  BY <1>1 DEF Create, Held, NextResult, Unused, LedgerInv, RowsExist
<1>6. row.group = k /\ \A l \in ResultIds : l # k => pair[l].group # k
  BY <1>2, <1>5, ARow DEF LedgerInv, GroupsNamed
<1>7. \A l \in ResultIds : Sides(l)' = IF l = k THEN {i, e} ELSE Sides(l)
  BY <1>3 DEF Sides
<1>8. \A l \in ResultIds : \A s \in Runs : wResult[s][l] # "NONE" =>
         l # k /\ Sides(l) \subseteq Txns
  BY <1>5, ARow, RowWritten DEF LedgerInv
<1>9. \A l \in ResultIds : result[l] # "NONE" => l # k /\ Sides(l) \subseteq Txns
  BY <1>5, ARow, RowWritten DEF LedgerInv
<1>10. \A s \in Runs, t \in Txns : wClaim[s][t] # 0 =>
         wClaim[s][t] \in ResultIds /\ wClaim[s][t] # k /\ t \notin {i, e}
  BY <1>5 DEF LedgerInv, ClaimsPrivate, LedgerType
<1>11. \A t \in Txns : claim[t] # 0 =>
         claim[t] \in ResultIds /\ claim[t] # k /\ t \notin {i, e}
  BY <1>5 DEF LedgerInv, NoOrphanClaim, LedgerType, Live, Decided
<1> HIDE DEF row
<1>12. RowsExist' /\ RowsPrivate' /\ GroupsWhole' /\ PendingAlone'
  <2>1. RowsExist'
    BY <1>2, <1>3 DEF LedgerInv, RowsExist, Unused
  <2>2. RowsPrivate'
    BY <1>3, <1>5 DEF LedgerInv, RowsPrivate
  <2>3. GroupsWhole'
    BY <1>3, <1>5, <1>6 DEF LedgerInv, GroupsWhole
  <2>4. PendingAlone'
    BY <1>3, <1>5, <1>6 DEF LedgerInv, PendingAlone
  <2>5. QED
    BY <2>1, <2>2, <2>3, <2>4
<1>13. GroupsNamed'
  BY <1>2, <1>3, <1>5, <1>6, ARow DEF LedgerInv, GroupsNamed
<1>14. ClaimsPrivate'
  <2>1. \A s \in Runs, t \in Txns : wClaim[s][t] # 0 => Sides(wClaim[s][t])' = Sides(wClaim[s][t])
    BY <1>3, <1>10 DEF Sides
  <2>2. QED
    BY <1>3, <1>10, <2>1 DEF LedgerInv, ClaimsPrivate
<1>15. RowsHoldClaims'
  BY <1>3, <1>7, <1>8, <1>10 DEF LedgerInv, RowsHoldClaims
<1>16. LiveHoldsClaims'
  <2> SUFFICES ASSUME NEW l \in ResultIds, result'[l] \in Live, NEW t \in Sides(l)'
               PROVE  /\ claim'[t] # 0
                      /\ result'[claim'[t]] \in Live
                      /\ pair'[claim'[t]].group = pair'[l].group
    BY DEF LiveHoldsClaims
  <2>1. CASE l = k
    BY <2>1, <1>2, <1>3, <1>7 DEF Live, Decided
  <2>2. CASE l # k
    <3>1. result[l] \in Live /\ t \in Sides(l) /\ t \in Txns
      BY <2>2, <1>3, <1>7, <1>9 DEF Live, Decided
    <3>2. claim[t] # 0 /\ result[claim[t]] \in Live /\ pair[claim[t]].group = pair[l].group
      BY <3>1 DEF LedgerInv, LiveHoldsClaims
    <3>3. QED
      BY <2>2, <3>1, <3>2, <1>3, <1>11
  <2>3. QED
    BY <2>1, <2>2
<1>17. NoOrphanClaim'
  <2> SUFFICES ASSUME NEW t \in Txns, claim'[t] # 0
               PROVE  result'[claim'[t]] \in Live /\ t \in Sides(claim[t])'
    BY DEF NoOrphanClaim
  <2>1. CASE t \in {i, e}
    BY <2>1, <1>3, <1>7 DEF Live, Decided, Sides
  <2>2. CASE t \notin {i, e}
    <3>1. claim'[t] = claim[t] /\ result[claim[t]] \in Live /\ t \in Sides(claim[t])
          /\ claim[t] \in ResultIds /\ claim[t] # k
      BY <2>2, <1>3, <1>11 DEF LedgerInv, NoOrphanClaim
    <3>2. QED
      BY <3>1, <1>3 DEF Sides
  <2>3. QED
    BY <2>1, <2>2
<1>18. StatusPrivate'
  BY <1>3, <1>7, <1>8 DEF LedgerInv, StatusPrivate, Decided
<1>19. StatusPublic'
  <2>1. ASSUME NEW t \in Txns, matchStatus'[t] = "MATCHED"
        PROVE  claim'[t] # 0 /\ result'[claim'[t]] \in Decided
    <3>1. CASE t \in {i, e}
      BY <3>1, <1>2, <1>3 DEF Decided
    <3>2. CASE t \notin {i, e}
      BY <3>2, <2>1, <1>3, <1>11 DEF LedgerInv, StatusPublic
    <3>3. QED
      BY <3>1, <3>2
  <2>2. ASSUME NEW l \in ResultIds, result'[l] \in Decided, NEW t \in Sides(l)'
        PROVE  matchStatus'[t] # "UNMATCHED"
    <3>1. CASE l = k
      BY <3>1, <2>2, <1>2, <1>3, <1>7
    <3>2. CASE l # k
      BY <3>2, <2>2, <1>3, <1>7, <1>9 DEF LedgerInv, StatusPublic, Decided
    <3>3. QED
      BY <3>1, <3>2
  <2>3. QED
    BY <2>1, <2>2 DEF StatusPublic
<1>20. QED
  BY <1>4, <1>12, <1>13, <1>14, <1>15, <1>16, <1>17, <1>18, <1>19 DEF LedgerInv

\* Unmatch and Reject alike: some committed rows fall, whole groups of them,
\* with the claims that were theirs.
LEMMA UndoStep ==
    ASSUME LedgerType, LedgerInv, NEW rows \in SUBSET ResultIds,
           \A l \in rows : result[l] \in Live,
           \A l \in rows, m \in ResultIds :
               pair[m].group = pair[l].group => m \in rows,
           claim' = [t \in Txns |-> IF claim[t] \in rows THEN 0 ELSE claim[t]],
           result' = [l \in ResultIds |-> IF l \in rows THEN "REJECTED" ELSE result[l]],
           matchStatus' \in [Txns -> TxnStatuses],
           \A t \in Txns : matchStatus'[t] = "MATCHED" =>
               matchStatus[t] = "MATCHED" /\ claim[t] \notin rows,
           \A l \in ResultIds \ rows : \A t \in Sides(l) :
               t \in Txns /\ matchStatus[t] # "UNMATCHED" /\ result[l] \in Decided
                 => matchStatus'[t] # "UNMATCHED",
           UNCHANGED <<pair, wStatus, wClaim, wResult>>
    PROVE  LedgerType' /\ LedgerInv'
<1>1. /\ pair' = pair /\ wStatus' = wStatus /\ wClaim' = wClaim /\ wResult' = wResult
      /\ \A l \in ResultIds : Sides(l)' = Sides(l)
      /\ 0 \notin ResultIds
  BY ResultIdsAssumption DEF Sides
<1>2. /\ \A t \in Txns : claim'[t] = IF claim[t] \in rows THEN 0 ELSE claim[t]
      /\ \A l \in ResultIds : result'[l] = IF l \in rows THEN "REJECTED" ELSE result[l]
  OBVIOUS
<1>3. LedgerType'
  BY <1>1 DEF LedgerType, ResultStatuses, Live, Decided
<1>4. \A l \in ResultIds : result'[l] = "NONE" <=> result[l] = "NONE"
  BY <1>2 DEF Live, Decided
<1>5. \A l \in ResultIds : result[l] # "NONE" => Sides(l) \subseteq Txns
  BY ARow, RowWritten DEF LedgerInv
<1>6. \A t \in Txns : claim[t] # 0 => claim[t] \in ResultIds
  BY DEF LedgerType
<1>7. RowsExist' /\ RowsPrivate' /\ GroupsNamed' /\ GroupsWhole'
  BY <1>1, <1>4 DEF LedgerInv, RowsExist, Unused, RowsPrivate, GroupsNamed, GroupsWhole
<1>8. PendingAlone'
  BY <1>1, <1>2 DEF LedgerInv, PendingAlone
<1>9. ClaimsPrivate'
  BY <1>1, <1>2 DEF LedgerInv, ClaimsPrivate, Sides
<1>10. RowsHoldClaims' /\ StatusPrivate'
  BY <1>1 DEF LedgerInv, RowsHoldClaims, StatusPrivate
<1>11. LiveHoldsClaims'
  <2> SUFFICES ASSUME NEW l \in ResultIds, result'[l] \in Live, NEW t \in Sides(l)'
               PROVE  /\ claim'[t] # 0
                      /\ result'[claim'[t]] \in Live
                      /\ pair'[claim'[t]].group = pair'[l].group
    BY DEF LiveHoldsClaims
  <2>1. l \notin rows /\ result[l] \in Live /\ t \in Sides(l) /\ t \in Txns
    BY <1>1, <1>2, <1>5 DEF Live, Decided
  <2>2. claim[t] # 0 /\ result[claim[t]] \in Live /\ pair[claim[t]].group = pair[l].group
    BY <2>1 DEF LedgerInv, LiveHoldsClaims
  <2>3. claim[t] \in ResultIds /\ claim[t] \notin rows
    BY <2>1, <2>2, <1>6
  <2>4. QED
    BY <2>1, <2>2, <2>3, <1>1, <1>2
<1>12. NoOrphanClaim'
  <2> SUFFICES ASSUME NEW t \in Txns, claim'[t] # 0
               PROVE  result'[claim'[t]] \in Live /\ t \in Sides(claim[t])'
    BY DEF NoOrphanClaim
  <2>1. claim'[t] = claim[t] /\ claim[t] \notin rows /\ claim[t] \in ResultIds /\ claim[t] # 0
    BY <1>2, <1>6
  <2>2. QED
    BY <2>1, <1>1, <1>2 DEF LedgerInv, NoOrphanClaim, Sides
<1>13. StatusPublic'
  <2>1. ASSUME NEW t \in Txns, matchStatus'[t] = "MATCHED"
        PROVE  claim'[t] # 0 /\ result'[claim'[t]] \in Decided
    <3>1. matchStatus[t] = "MATCHED" /\ claim[t] \notin rows
      BY <2>1
    <3>2. claim[t] # 0 /\ result[claim[t]] \in Decided
      BY <3>1 DEF LedgerInv, StatusPublic
    <3>3. QED
      BY <3>1, <3>2, <1>2, <1>6
  <2>2. ASSUME NEW l \in ResultIds, result'[l] \in Decided, NEW t \in Sides(l)
        PROVE  matchStatus'[t] # "UNMATCHED"
    <3>1. l \notin rows /\ result[l] \in Decided
      BY <2>2, <1>2 DEF Decided
    <3>2. t \in Txns /\ matchStatus[t] # "UNMATCHED"
      BY <2>2, <3>1, <1>5 DEF LedgerInv, StatusPublic, Decided
    <3>3. QED
      BY <2>2, <3>1, <3>2
  <2>3. QED
    BY <1>1, <2>1, <2>2 DEF StatusPublic
<1>14. QED
  BY <1>3, <1>7, <1>8, <1>9, <1>10, <1>11, <1>12, <1>13 DEF LedgerInv

LEMMA UnmatchStep ==
    ASSUME LedgerType, LedgerInv, NEW k \in ResultIds, Unmatch(k)
    PROVE  LedgerType' /\ LedgerInv'
<1> DEFINE rows == Group(k)
<1>1. /\ rows \in SUBSET ResultIds /\ k \in rows
      /\ \A l \in rows : result[l] \in Decided /\ pair[l].group = pair[k].group
  BY DEF Unmatch, Group
<1>2. \A l \in rows, m \in ResultIds : pair[m].group = pair[l].group => m \in rows
  <2> SUFFICES ASSUME NEW m \in ResultIds, pair[m].group = pair[k].group
               PROVE  result[m] # "NONE"
    BY <1>1 DEF Group
  <2>1. result[k] # "NONE" /\ pair[k] # NoPair
    BY <1>1, RowWritten DEF LedgerInv, Decided
  <2>2. pair[m] # NoPair
    BY <2>1, ARow
  <2>3. \A s \in Runs : wResult[s][m] = "NONE"
    BY <2>1 DEF LedgerInv, GroupsWhole, RowsPrivate
  <2>4. QED
    BY <2>2, <2>3 DEF LedgerInv, RowsExist, Unused
<1>3. /\ claim' = [t \in Txns |-> IF claim[t] \in rows THEN 0 ELSE claim[t]]
      /\ result' = [l \in ResultIds |-> IF l \in rows THEN "REJECTED" ELSE result[l]]
      /\ matchStatus' = [t \in Txns |->
           IF t \in MembersOf(rows) THEN "UNMATCHED" ELSE matchStatus[t]]
      /\ UNCHANGED <<pair, wStatus, wClaim, wResult>>
  BY DEF Unmatch, writeVars
<1>4. \A t \in Txns : t \in MembersOf(rows) <=> \E l \in rows : t \in Sides(l)
  BY DEF MembersOf, Sides
<1> HIDE DEF rows
<1>5. \A l \in rows : result[l] \in Live
  BY <1>1 DEF Live
<1>6. matchStatus' \in [Txns -> TxnStatuses]
  BY <1>3 DEF LedgerType, TxnStatuses
<1>7. \A t \in Txns : matchStatus'[t] = "MATCHED" =>
        matchStatus[t] = "MATCHED" /\ claim[t] \notin rows
  <2> SUFFICES ASSUME NEW t \in Txns, matchStatus'[t] = "MATCHED"
               PROVE  matchStatus[t] = "MATCHED" /\ claim[t] \notin rows
    OBVIOUS
  <2>1. matchStatus[t] = "MATCHED" /\ t \notin MembersOf(rows)
    BY <1>3
  <2>2. ASSUME claim[t] \in rows PROVE FALSE
    BY <2>1, <2>2, <1>1, <1>4, ResultIdsAssumption DEF LedgerInv, NoOrphanClaim
  <2>3. QED
    BY <2>1, <2>2
<1>8. ASSUME NEW l \in ResultIds \ rows, NEW t \in Sides(l), t \in Txns,
             matchStatus[t] # "UNMATCHED", result[l] \in Decided
      PROVE  matchStatus'[t] # "UNMATCHED"
  <2>1. ASSUME NEW m \in rows, t \in Sides(m) PROVE FALSE
    <3>1. /\ pair[claim[t]].group = pair[m].group
          /\ pair[claim[t]].group = pair[l].group
      BY <2>1, <1>1, <1>5, <1>8 DEF LedgerInv, LiveHoldsClaims, Live
    <3>2. QED
      BY <3>1, <1>2, <1>8
  <2>2. t \notin MembersOf(rows)
    BY <1>4, <1>8, <2>1
  <2>3. QED
    BY <1>3, <1>8, <2>2
<1>9. QED
  BY <1>1, <1>2, <1>3, <1>5, <1>6, <1>7, <1>8, UndoStep

LEMMA RejectStep ==
    ASSUME LedgerType, LedgerInv, NEW k \in ResultIds, Reject(k)
    PROVE  LedgerType' /\ LedgerInv'
<1> DEFINE rows == {k}
<1>1. /\ result[k] = "PENDING_REVIEW"
      /\ matchStatus' = matchStatus
      /\ UNCHANGED <<pair, wStatus, wClaim, wResult>>
  BY DEF Reject, writeVars
<1>2. claim' = [t \in Txns |-> IF claim[t] \in rows THEN 0 ELSE claim[t]]
  BY DEF Reject
<1>3. result' = [l \in ResultIds |-> IF l \in rows THEN "REJECTED" ELSE result[l]]
  BY DEF Reject, LedgerType
<1>4. \A l \in rows, m \in ResultIds : pair[m].group = pair[l].group => m \in rows
  BY <1>1 DEF LedgerInv, PendingAlone
<1>5. \A t \in Txns : matchStatus'[t] = "MATCHED" =>
        matchStatus[t] = "MATCHED" /\ claim[t] \notin rows
  BY <1>1 DEF LedgerInv, StatusPublic, Decided
<1>6. /\ rows \in SUBSET ResultIds
      /\ \A l \in rows : result[l] \in Live
      /\ matchStatus' \in [Txns -> TxnStatuses]
  BY <1>1 DEF Live, LedgerType
<1>7. \A l \in ResultIds \ rows : \A t \in Sides(l) :
        t \in Txns /\ matchStatus[t] # "UNMATCHED" /\ result[l] \in Decided
          => matchStatus'[t] # "UNMATCHED"
  BY <1>1
<1> HIDE DEF rows
<1>8. QED
  BY <1>1, <1>2, <1>3, <1>4, <1>5, <1>6, <1>7, UndoStep

LEMMA ConfirmStep ==
    ASSUME LedgerType, LedgerInv, NEW k \in ResultIds, Confirm(k)
    PROVE  LedgerType' /\ LedgerInv'
<1>1. /\ result[k] = "PENDING_REVIEW"
      /\ \A t \in Sides(k) : claim[t] = k
      /\ claim' = claim /\ pair' = pair
      /\ wStatus' = wStatus /\ wClaim' = wClaim /\ wResult' = wResult
      /\ \A l \in ResultIds : result'[l] = IF l = k THEN "CONFIRMED" ELSE result[l]
      /\ \A t \in Txns : matchStatus'[t] = IF t \in Sides(k) THEN "MATCHED" ELSE matchStatus[t]
  BY DEF Confirm, writeVars, LedgerType
<1>2. LedgerType'
  BY <1>1 DEF Confirm, LedgerType, ResultStatuses, Live, Decided, TxnStatuses
<1>3. \A l \in ResultIds : Sides(l)' = Sides(l)
  BY <1>1 DEF Sides
<1>4. \A t \in Txns : claim[t] # 0 => claim[t] \in ResultIds
  BY DEF LedgerType
<1>5. \A l \in ResultIds : result[l] # "NONE" => Sides(l) \subseteq Txns
  BY ARow, RowWritten DEF LedgerInv
<1>6. /\ RowsExist' /\ RowsPrivate' /\ GroupsNamed' /\ GroupsWhole' /\ PendingAlone'
      /\ ClaimsPrivate' /\ RowsHoldClaims' /\ StatusPrivate'
  <2>1. RowsExist' /\ RowsPrivate' /\ GroupsNamed' /\ GroupsWhole'
    BY <1>1 DEF LedgerInv, RowsExist, Unused, RowsPrivate, GroupsNamed, GroupsWhole
  <2>2. PendingAlone'
    BY <1>1 DEF LedgerInv, PendingAlone
  <2>3. ClaimsPrivate' /\ RowsHoldClaims' /\ StatusPrivate'
    BY <1>1 DEF LedgerInv, ClaimsPrivate, RowsHoldClaims, StatusPrivate, Sides
  <2>4. QED
    BY <2>1, <2>2, <2>3
<1>7. LiveHoldsClaims'
  BY <1>1, <1>3, <1>4, <1>5 DEF LedgerInv, LiveHoldsClaims, Live, Decided
<1>8. NoOrphanClaim'
  BY <1>1, <1>3, <1>4 DEF LedgerInv, NoOrphanClaim, Live, Decided, Sides
<1>9. StatusPublic'
  <2>1. ASSUME NEW t \in Txns, matchStatus'[t] = "MATCHED"
        PROVE  claim[t] # 0 /\ result'[claim[t]] \in Decided
    <3>1. CASE t \in Sides(k)
      BY <3>1, <1>1, ResultIdsAssumption DEF Decided
    <3>2. CASE t \notin Sides(k)
      BY <3>2, <2>1, <1>1, <1>4 DEF LedgerInv, StatusPublic, Decided
    <3>3. QED
      BY <3>1, <3>2
  <2>2. ASSUME NEW l \in ResultIds, result'[l] \in Decided, NEW t \in Sides(l)
        PROVE  matchStatus'[t] # "UNMATCHED"
    <3>1. t \in Txns
      BY <2>2, <1>1, <1>5 DEF Decided
    <3>2. CASE t \in Sides(k)
      BY <3>1, <3>2, <1>1
    <3>3. CASE t \notin Sides(k)
      BY <2>2, <3>1, <3>3, <1>1 DEF LedgerInv, StatusPublic
    <3>4. QED
      BY <3>2, <3>3
  <2>3. QED
    BY <1>1, <1>3, <2>1, <2>2 DEF StatusPublic
<1>10. QED
  BY <1>2, <1>6, <1>7, <1>8, <1>9 DEF LedgerInv

-----------------------------------------------------------------------------
(* Types, and the theorems.                                                *)

\* The other half of TypeOK: where the runs are.
RunType ==
    /\ phase \in [Runs -> Phases]
    /\ stage \in [Runs -> 1 .. Len(Stages) + 1]
    /\ pool \in [Runs -> SUBSET Txns]
    /\ rejected \in [Runs -> SUBSET (Internals \X Externals)]
    /\ plan \in [Runs -> {NoPlan}
                  \cup [act : {"void"}, copy : Duplicates]
                  \cup [act : {"settle"}, int : Internals, ext : Externals]]

\* A stage that is matching is one of the stages.
StageInRange ==
    \A r \in Runs : phase[r] \in {"rejected", "match"} => stage[r] <= Len(Stages)

LEMMA TypeParts == TypeOK <=> LedgerType /\ RunType
BY DEF TypeOK, LedgerType, RunType

LEMMA RunTypeStep ==
    ASSUME TypeOK, LedgerInv, StageInRange, Next
    PROVE  RunType' /\ StageInRange'
<1>1. LedgerType /\ RunType
  BY TypeParts
<1>2. Len(Stages) \in Nat
  BY StagesAssumption
<1>3. ASSUME NEW r \in Runs, RunStep(r) PROVE RunType' /\ StageInRange'
  <2>1. CASE BeginRun(r)
    BY <1>1, <1>2, <2>1 DEF BeginRun, RunType, StageInRange, Phases
  <2>2. CASE FetchPools(r)
    BY <1>1, <1>2, <2>2 DEF FetchPools, RunType, StageInRange, Phases
  <2>3. CASE ReadRejected(r)
    <3>1. RejectedPairs \subseteq Internals \X Externals
      BY <1>1, ARow, RowWritten DEF RejectedPairs, LedgerInv
    <3>2. QED
      BY <1>1, <1>2, <2>3, <3>1 DEF ReadRejected, RunType, StageInRange, Phases
  <2>4. ASSUME NEW i \in Internals, NEW e \in Externals, MatchPair(r, i, e)
        PROVE  RunType' /\ StageInRange'
    BY <1>1, <2>4 DEF MatchPair, RunType, StageInRange
  <2>5. ASSUME NEW single, NEW members, MatchGroup(r, single, members)
        PROVE  RunType' /\ StageInRange'
    BY <1>1, <2>5 DEF MatchGroup, RunType, StageInRange
  <2>6. CASE EndStage(r)
    <3>1. stage[r] \in 1 .. Len(Stages) + 1 /\ stage[r] <= Len(Stages)
      BY <1>1, <2>6 DEF EndStage, RunType, StageInRange
    <3>2. stage' \in [Runs -> 1 .. Len(Stages) + 1]
      BY <1>1, <1>2, <2>6, <3>1 DEF EndStage, RunType
    <3>3. QED
      BY <1>1, <2>6, <3>2 DEF EndStage, RunType, StageInRange, Phases
  <2>7. CASE BeginResolve(r)
    BY <1>1, <2>7 DEF BeginResolve, RunType, StageInRange, Phases
  <2>8. ASSUME NEW d \in Duplicates, VoidCheck(r, d) PROVE RunType' /\ StageInRange'
    BY <1>1, <2>8 DEF VoidCheck, RunType, StageInRange
  <2>9. CASE VoidWrite(r)
    BY <1>1, <2>9 DEF VoidWrite, RunType, StageInRange
  <2>10. ASSUME NEW i \in Internals, NEW e \in Externals, SettleCheck(r, i, e)
         PROVE  RunType' /\ StageInRange'
    BY <1>1, <2>10 DEF SettleCheck, RunType, StageInRange
  <2>11. CASE SettleWrite(r)
    BY <1>1, <2>11 DEF SettleWrite, RunType, StageInRange
  <2>12. CASE SettleConflict(r)
    BY <1>1, <2>12 DEF SettleConflict, RunType, StageInRange
  <2>13. ASSUME NEW k \in ResultIds, SettlePending(r, k) PROVE RunType' /\ StageInRange'
    BY <1>1, <2>13 DEF SettlePending, RunType, StageInRange
  <2>14. CASE Commit(r) \/ Rollback(r)
    <3>1. Finished(r)
      BY <2>14 DEF Commit, Rollback
    <3>2. QED
      BY <1>1, <1>2, <3>1 DEF Finished, RunType, StageInRange, Phases
  <2>15. QED
    BY <1>3, <2>1, <2>2, <2>3, <2>4, <2>5, <2>6, <2>7, <2>8, <2>9, <2>10, <2>11, <2>12,
       <2>13, <2>14 DEF RunStep
<1>4. ASSUME PersonStep PROVE RunType' /\ StageInRange'
  <2>1. UNCHANGED runVars
    BY <1>4 DEF PersonStep, Create, Unmatch, Confirm, Reject
  <2>2. QED
    BY <1>1, <2>1 DEF runVars, RunType, StageInRange
<1>5. QED
  BY <1>3, <1>4 DEF Next

LEMMA LedgerStep ==
    ASSUME TypeOK, LedgerInv, Next
    PROVE  LedgerType' /\ LedgerInv'
<1>1. LedgerType /\ RunType
  BY TypeParts
<1>2. ASSUME UNCHANGED <<bookVars, pair, writeVars>> PROVE LedgerType' /\ LedgerInv'
  BY <1>1, <1>2 DEF bookVars, writeVars, LedgerType, LedgerInv, RowsExist, Unused, RowsPrivate,
     GroupsNamed, GroupsWhole, PendingAlone, ClaimsPrivate, RowsHoldClaims, LiveHoldsClaims,
     NoOrphanClaim, StatusPrivate, StatusPublic, Sides
<1>3. ASSUME NEW r \in Runs, RunStep(r) PROVE LedgerType' /\ LedgerInv'
  <2>1. CASE BeginRun(r) \/ FetchPools(r) \/ ReadRejected(r) \/ EndStage(r) \/ BeginResolve(r)
             \/ SettleConflict(r)
    BY <1>2, <2>1 DEF BeginRun, FetchPools, ReadRejected, EndStage, BeginResolve, SettleConflict
  <2>2. ASSUME NEW d \in Duplicates, VoidCheck(r, d) PROVE LedgerType' /\ LedgerInv'
    BY <1>2, <2>2 DEF VoidCheck
  <2>3. ASSUME NEW i \in Internals, NEW e \in Externals, SettleCheck(r, i, e)
        PROVE  LedgerType' /\ LedgerInv'
    BY <1>2, <2>3 DEF SettleCheck
  <2>4. ASSUME NEW i \in Internals, NEW e \in Externals, MatchPair(r, i, e)
        PROVE  LedgerType' /\ LedgerInv'
    <3>1. PICK k \in ResultIds, verdict \in Verdicts(Stages[stage[r]]) :
            NextResult(k) /\ RecordPair(r, i, e, k, verdict)
      BY <2>4 DEF MatchPair
    <3>2. verdict \in {"AUTO_MATCHED", "PENDING_REVIEW"} /\ Unused(k)
      BY <3>1 DEF Verdicts, NextResult
    <3>3. Claimable(r, i) /\ Claimable(r, e) /\ UNCHANGED bookVars
      BY <2>4 DEF MatchPair
    <3>4. QED
      BY <1>1, <3>1, <3>2, <3>3, RecordPairStep
  <2>5. ASSUME NEW single, NEW members, MatchGroup(r, single, members),
               \/ single \in Internals /\ members \subseteq Externals
               \/ single \in Externals /\ members \subseteq Internals
        PROVE  LedgerType' /\ LedgerInv'
    <3>1. PICK row \in Injection(members, ResultIds), first \in members :
            /\ NextResults({row[m] : m \in members})
            /\ RecordGroup(r, single, members, row, first)
      BY <2>5 DEF MatchGroup
    <3>2. \A m \in members : Unused(row[m])
      BY <3>1 DEF NextResults
    <3>3. (\A t \in {single} \cup members : Claimable(r, t)) /\ UNCHANGED bookVars
      BY <2>5 DEF MatchGroup
    <3>4. QED
      BY <1>1, <2>5, <3>1, <3>2, <3>3, RecordGroupStep
  <2>6. CASE VoidWrite(r)
    <3>1. plan[r].act = "void" /\ plan[r] \in
             {NoPlan} \cup [act : {"void"}, copy : Duplicates]
                      \cup [act : {"settle"}, int : Internals, ext : Externals]
      BY <1>1, <2>6 DEF VoidWrite, RunType
    <3>2. plan[r].copy \in Txns
      BY <3>1, SourcesAssumption DEF NoPlan, Txns
    <3>3. /\ wStatus' = [wStatus EXCEPT ![r][plan[r].copy] = "VOIDED"]
          /\ UNCHANGED <<bookVars, pair, wClaim, wResult>>
      BY <2>6 DEF VoidWrite
    <3>4. QED
      BY <1>1, <3>2, <3>3, VoidStep
  <2>7. CASE SettleWrite(r)
    <3>1. plan[r].act = "settle" /\ plan[r] \in
             {NoPlan} \cup [act : {"void"}, copy : Duplicates]
                      \cup [act : {"settle"}, int : Internals, ext : Externals]
      BY <1>1, <2>7 DEF SettleWrite, RunType
    <3>2. plan[r].int \in Internals /\ plan[r].ext \in Externals
      BY <3>1 DEF NoPlan
    <3>3. PICK k \in ResultIds :
            NextResult(k) /\ RecordPair(r, plan[r].int, plan[r].ext, k, "AUTO_MATCHED")
      BY <2>7 DEF SettleWrite
    <3>4. /\ Claimable(r, plan[r].int) /\ Claimable(r, plan[r].ext)
          /\ UNCHANGED bookVars /\ Unused(k)
      BY <2>7, <3>3 DEF SettleWrite, NextResult
    <3>5. QED
      BY <1>1, <3>2, <3>3, <3>4, RecordPairStep
  <2>8. ASSUME NEW k \in ResultIds, SettlePending(r, k) PROVE LedgerType' /\ LedgerInv'
    BY <1>1, <2>8, SettlePendingStep
  <2>9. CASE Commit(r)
    BY <1>1, <2>9, CommitStep
  <2>10. CASE Rollback(r)
    BY <1>1, <2>10, RollbackStep
  <2>11. QED
    BY <1>3, <2>1, <2>2, <2>3, <2>4, <2>5, <2>6, <2>7, <2>8, <2>9, <2>10 DEF RunStep
<1>4. ASSUME PersonStep PROVE LedgerType' /\ LedgerInv'
  BY <1>1, <1>4, CreateStep, UnmatchStep, ConfirmStep, RejectStep DEF PersonStep
<1>5. QED
  BY <1>3, <1>4 DEF Next

\* Everything the theorems below need holds in every reachable state, whatever
\* the stages propose and however runs and people interleave.
THEOREM Inductive == Spec => [](IInv /\ StageInRange)
<1>1. Init => IInv /\ StageInRange
  <2> SUFFICES ASSUME Init PROVE IInv /\ StageInRange
    OBVIOUS
  <2>1. Len(Stages) \in Nat
    BY StagesAssumption
  <2>2. LedgerType
    BY DEF Init, LedgerType, TxnStatuses, NoStatusWrites, NoClaimWrites, NoResultWrites
  <2>3. RunType /\ StageInRange
    BY <2>1 DEF Init, RunType, StageInRange, Phases
  <2>4. LedgerInv
    BY DEF Init, LedgerInv, RowsExist, Unused, RowsPrivate, GroupsNamed, GroupsWhole,
       PendingAlone, ClaimsPrivate, RowsHoldClaims, LiveHoldsClaims, NoOrphanClaim,
       StatusPrivate, StatusPublic, Live, Decided, NoStatusWrites, NoClaimWrites, NoResultWrites
  <2>5. QED
    BY <2>2, <2>3, <2>4, TypeParts DEF IInv
<1>2. IInv /\ StageInRange /\ [Next]_vars => (IInv /\ StageInRange)'
  <2> SUFFICES ASSUME IInv, StageInRange, [Next]_vars PROVE (IInv /\ StageInRange)'
    OBVIOUS
  <2>1. CASE Next
    BY <2>1, LedgerStep, RunTypeStep DEF IInv, TypeOK, LedgerType, RunType
  <2>2. CASE UNCHANGED vars
    BY <2>2 DEF vars, IInv, StageInRange, TypeOK, LedgerInv, RowsExist, Unused, RowsPrivate,
       GroupsNamed, GroupsWhole, PendingAlone, ClaimsPrivate, RowsHoldClaims, LiveHoldsClaims,
       NoOrphanClaim, StatusPrivate, StatusPublic, Sides
  <2>3. QED
    BY <2>1, <2>2
<1>3. QED
  BY <1>1, <1>2, PTL DEF Spec

\* Type correctness: match_status, claims, results and the runs' overlays stay
\* within the values their columns allow.
THEOREM TypeCorrect == Spec => []TypeOK
BY Inductive, PTL DEF IInv

\* A standing row holds the claims of both its transactions (claims.py).
THEOREM ClaimsHeld == Spec => []LiveHoldsClaims
BY Inductive, PTL DEF IInv, LedgerInv

\* No claim outlives its match (release in reject and unmatch, savepoints).
THEOREM NoneOrphaned == Spec => []NoOrphanClaim
BY Inductive, PTL DEF IInv, LedgerInv

\* No transaction is in two standing matches: ux_match_claims_active at work
\* across stages, overlapping runs and people.
THEOREM Disjoint == Spec => []NoDoubleMatch
<1>1. IInv => NoDoubleMatch
  BY DEF IInv, LedgerInv, LiveHoldsClaims, NoDoubleMatch
<1>2. QED
  BY <1>1, Inductive, PTL

\* match_status agrees with the matches that stand.
THEOREM StatusTells == Spec => []StatusTellsMatch
<1>1. IInv => StatusTellsMatch
  <2> SUFFICES ASSUME IInv PROVE StatusTellsMatch
    OBVIOUS
  <2>1. LedgerType /\ LedgerInv
    BY TypeParts DEF IInv
  <2>2. ASSUME NEW k \in ResultIds, NEW t \in Sides(k), result[k] = "PENDING_REVIEW",
               matchStatus[t] = "MATCHED"
        PROVE  FALSE
    <3>1. t \in Txns
      BY <2>1, <2>2, ARow, RowWritten DEF LedgerInv
    <3>2. claim[t] \in ResultIds /\ pair[claim[t]].group = pair[k].group
      BY <2>1, <2>2, <3>1 DEF LedgerInv, LiveHoldsClaims, Live, LedgerType
    <3>3. claim[t] = k
      BY <2>1, <2>2, <3>2 DEF LedgerInv, PendingAlone
    <3>4. QED
      BY <2>1, <2>2, <3>1, <3>3 DEF LedgerInv, StatusPublic, Decided
  <2>3. QED
    BY <2>1, <2>2 DEF LedgerInv, StatusPublic, StatusTellsMatch
<1>2. QED
  BY <1>1, Inductive, PTL

-----------------------------------------------------------------------------
(* A match is decided once.                                                *)

\* A group is rejected as a whole.
RejectedWhole ==
    \A k \in ResultIds : result[k] = "REJECTED" =>
        \A l \in Group(k) : result[l] = "REJECTED"

\* What one step may do to a row.
RowStep(k) ==
    /\ result[k] = "REJECTED" => result'[k] = "REJECTED"
    /\ result[k] \in Decided => result'[k] \in {result[k], "REJECTED"}
    /\ result[k] = "PENDING_REVIEW" =>
           result'[k] \in {"PENDING_REVIEW", "CONFIRMED", "REJECTED"}
    /\ result[k] # "NONE" /\ result'[k] = "REJECTED" =>
           \A l \in Group(k) : result'[l] = "REJECTED"

\* Until it commits, a run leaves the committed rows as they are.
LEMMA RunKeepsRows ==
    ASSUME LedgerType, LedgerInv, NEW r \in Runs, RunStep(r), ~ Commit(r)
    PROVE  /\ result' = result
           /\ \A k \in ResultIds : result[k] # "NONE" => pair'[k] = pair[k]
<1>1. ASSUME NEW i, NEW e, NEW k \in ResultIds, NEW v, RecordPair(r, i, e, k, v), NextResult(k)
      PROVE  \A l \in ResultIds : result[l] # "NONE" => pair'[l] = pair[l]
  BY <1>1 DEF RecordPair, NextResult, Unused, LedgerType
<1>2. ASSUME NEW single, NEW members, NEW row, NEW first,
             RecordGroup(r, single, members, row, first),
             NextResults({row[m] : m \in members})
      PROVE  \A l \in ResultIds : result[l] # "NONE" => pair'[l] = pair[l]
  BY <1>2 DEF RecordGroup, NextResults, Unused
<1>3. ASSUME NEW i, NEW e, MatchPair(r, i, e)
      PROVE  result' = result /\ \A l \in ResultIds : result[l] # "NONE" => pair'[l] = pair[l]
  BY <1>1, <1>3 DEF MatchPair, bookVars
<1>4. ASSUME NEW single, NEW members, MatchGroup(r, single, members)
      PROVE  result' = result /\ \A l \in ResultIds : result[l] # "NONE" => pair'[l] = pair[l]
  BY <1>2, <1>4 DEF MatchGroup, bookVars
<1>5. CASE SettleWrite(r)
  BY <1>1, <1>5 DEF SettleWrite, bookVars
<1>6. CASE Rollback(r)
  BY <1>6 DEF Rollback, bookVars, LedgerInv, RowsPrivate
<1>7. CASE /\ ~ SettleWrite(r) /\ ~ Rollback(r)
           /\ ~ \E i \in Internals, e \in Externals : MatchPair(r, i, e)
           /\ ~ \E i \in Internals, M \in SUBSET Externals : MatchGroup(r, i, M)
           /\ ~ \E e \in Externals, M \in SUBSET Internals : MatchGroup(r, e, M)
  BY <1>7 DEF RunStep, BeginRun, FetchPools, ReadRejected, EndStage, BeginResolve,
     VoidCheck, VoidWrite, SettleCheck, SettleConflict, SettlePending, bookVars
<1>8. QED
  BY <1>3, <1>4, <1>5, <1>6, <1>7

LEMMA DecisionStep ==
    ASSUME LedgerType, LedgerInv, RejectedWhole, Next
    PROVE  RejectedWhole' /\ \A k \in ResultIds : RowStep(k)
<1>1. ASSUME NEW r \in Runs, RunStep(r), ~ Commit(r)
      PROVE  /\ result' = result
             /\ \A k \in ResultIds : result[k] # "NONE" => pair'[k] = pair[k]
  BY <1>1, RunKeepsRows
<1>2. ASSUME result' = result, \A k \in ResultIds : result[k] # "NONE" => pair'[k] = pair[k]
      PROVE  RejectedWhole' /\ \A k \in ResultIds : RowStep(k)
  <2>1. RejectedWhole'
    BY <1>2 DEF RejectedWhole, Group
  <2>2. QED
    BY <1>2, <2>1 DEF RowStep, RejectedWhole
<1>3. ASSUME NEW r \in Runs, Commit(r)
      PROVE  RejectedWhole' /\ \A k \in ResultIds : RowStep(k)
  <2>1. /\ pair' = pair
        /\ \A k \in ResultIds :
             result'[k] = IF wResult[r][k] # "NONE" THEN wResult[r][k] ELSE result[k]
    BY <1>3 DEF Commit, SeenResult
  <2>2. \A k \in ResultIds : wResult[r][k] # "NONE" =>
          result[k] = "NONE" /\ wResult[r][k] \in Live /\ wResult[r][k] # "REJECTED"
    BY DEF LedgerInv, RowsPrivate, LedgerType, Live, Decided
  <2>3. RejectedWhole'
    <3> SUFFICES ASSUME NEW k \in ResultIds, result'[k] = "REJECTED",
                        NEW l \in ResultIds, result'[l] # "NONE", pair[l].group = pair[k].group
                 PROVE  result'[l] = "REJECTED"
      BY <2>1 DEF RejectedWhole, Group
    <3>1. wResult[r][k] = "NONE" /\ result[k] = "REJECTED"
      BY <2>1, <2>2
    <3>2. wResult[r][l] = "NONE"
      BY <3>1 DEF LedgerInv, GroupsWhole
    <3>3. QED
      BY <3>1, <3>2, <2>1 DEF RejectedWhole, Group
  <2>4. ASSUME NEW k \in ResultIds, result[k] # "NONE" PROVE RowStep(k)
    <3>1. result'[k] = result[k]
      BY <2>1, <2>2, <2>4
    <3>2. result[k] = "REJECTED" => \A l \in Group(k) : result'[l] = "REJECTED"
      BY <2>1, <2>2 DEF RejectedWhole, Group
    <3>3. QED
      BY <3>1, <3>2 DEF RowStep, Decided
  <2>5. QED
    BY <2>3, <2>4 DEF RowStep, Decided
<1>4. ASSUME NEW i \in Internals, NEW e \in Externals, Create(i, e)
      PROVE  RejectedWhole' /\ \A k \in ResultIds : RowStep(k)
  <2>1. PICK n \in ResultIds :
          /\ NextResult(n)
          /\ result' = [result EXCEPT ![n] = "CONFIRMED"]
          /\ pair' = [pair EXCEPT ![n] = [int |-> i, ext |-> e, group |-> n, by |-> "person"]]
    BY <1>4 DEF Create
  <2>2. /\ result[n] = "NONE" /\ pair[n] = NoPair
        /\ \A l \in ResultIds : result'[l] = IF l = n THEN "CONFIRMED" ELSE result[l]
        /\ \A l \in ResultIds : l # n => pair'[l] = pair[l]
        /\ pair'[n].group = n
    BY <2>1 DEF NextResult, Unused, LedgerType, LedgerInv, RowsExist
  <2>3. \A l \in ResultIds : l # n => pair[l].group # n
    BY <2>2, ARow DEF LedgerInv, GroupsNamed
  <2>4. RejectedWhole'
    BY <2>2, <2>3 DEF RejectedWhole, Group
  <2>5. QED
    BY <2>2, <2>4 DEF RowStep, RejectedWhole, Group, Decided
<1>5. ASSUME NEW n \in ResultIds, Unmatch(n)
      PROVE  RejectedWhole' /\ \A k \in ResultIds : RowStep(k)
  <2>1. /\ pair' = pair
        /\ \A l \in ResultIds : result'[l] = IF l \in Group(n) THEN "REJECTED" ELSE result[l]
        /\ n \in Group(n) /\ \A l \in Group(n) : result[l] \in Decided
    BY <1>5 DEF Unmatch, Group
  <2>2. RejectedWhole'
    BY <2>1 DEF RejectedWhole, Group
  <2>3. QED
    BY <2>1, <2>2 DEF RowStep, RejectedWhole, Group, Decided
<1>6. ASSUME NEW n \in ResultIds, Confirm(n) \/ Reject(n)
      PROVE  RejectedWhole' /\ \A k \in ResultIds : RowStep(k)
  <2>1. /\ pair' = pair /\ result[n] = "PENDING_REVIEW"
        /\ \A l \in ResultIds : l # n => result'[l] = result[l]
        /\ result'[n] \in {"CONFIRMED", "REJECTED"}
    BY <1>6 DEF Confirm, Reject, LedgerType
  <2>2. \A l \in ResultIds : pair[l].group = pair[n].group => l = n
    BY <2>1 DEF LedgerInv, PendingAlone
  <2>3. RejectedWhole'
    BY <2>1, <2>2 DEF RejectedWhole, Group
  <2>4. QED
    BY <2>1, <2>2, <2>3 DEF RowStep, RejectedWhole, Group, Decided
<1>7. QED
  BY <1>1, <1>2, <1>3, <1>4, <1>5, <1>6 DEF Next, PersonStep

\* A review, an unmatch or a rejection is final, and takes the whole group
\* (review.py _lock_pending, manual.py unmatch).
THEOREM DecidedForGood == Spec => DecidedOnce
<1>1. Init => RejectedWhole
  BY DEF Init, RejectedWhole
<1>2. IInv /\ RejectedWhole /\ [Next]_vars => RejectedWhole' /\ \A k \in ResultIds : RowStep(k)
  <2> SUFFICES ASSUME IInv, RejectedWhole, [Next]_vars
               PROVE  RejectedWhole' /\ \A k \in ResultIds : RowStep(k)
    OBVIOUS
  <2>1. CASE Next
    BY <2>1, DecisionStep, TypeParts DEF IInv
  <2>2. CASE UNCHANGED vars
    BY <2>2 DEF vars, RejectedWhole, Group, RowStep
  <2>3. QED
    BY <2>1, <2>2
<1>3. Spec => [](IInv /\ RejectedWhole)
  BY <1>1, <1>2, Inductive, PTL DEF Spec
<1>4. IInv /\ RejectedWhole /\ [Next]_vars => [\A k \in ResultIds : RowStep(k)]_vars
  BY <1>2
<1>5. Spec => [][\A k \in ResultIds : RowStep(k)]_vars
  BY <1>3, <1>4, PTL DEF Spec
<1>6. QED
  BY <1>5 DEF RowStep, DecidedOnce

-----------------------------------------------------------------------------
(* The ledger implements the book.                                         *)

\* The match a standing row belongs to, as the book has it.
BookEntry(k) == [txns |-> MembersOf(Standing(k)), decided |-> result[k] \in Decided]
LiveRows == {k \in ResultIds : result[k] \in Live}

\* The book is the entries of the standing rows.
LEMMA BookEntries == StandingBook = {BookEntry(k) : k \in LiveRows}
BY DEF StandingBook, BookEntry, LiveRows

\* Rows of one group are one entry: a row under review is its whole group, so
\* the rows of a group agree on whether it is decided.
LEMMA EntryOfGroup ==
    ASSUME LedgerInv, NEW k \in LiveRows, NEW l \in LiveRows, pair[k].group = pair[l].group
    PROVE  BookEntry(k) = BookEntry(l)
<1>1. Standing(k) = Standing(l)
  BY DEF Standing
<1>2. (result[k] \in Decided) <=> (result[l] \in Decided)
  BY DEF LedgerInv, PendingAlone, LiveRows, Live
<1>3. (result[k] \in Decided) = (result[l] \in Decided)
  BY <1>2
<1>4. QED
  BY <1>1, <1>3, Zenon DEF BookEntry

\* An entry has the transactions of its row, and nothing of another group's.
LEMMA EntryTxns ==
    ASSUME LedgerType, LedgerInv, NEW k \in LiveRows
    PROVE  /\ BookEntry(k) \in Book!Match
           /\ Sides(k) \subseteq BookEntry(k).txns
           /\ pair[k].int \in BookEntry(k).txns /\ pair[k].ext \in BookEntry(k).txns
           /\ pair[k].int # pair[k].ext
           /\ \A t \in BookEntry(k).txns : \E l \in LiveRows :
                 t \in Sides(l) /\ pair[l].group = pair[k].group
<1>1. /\ k \in ResultIds /\ k \in Standing(k)
      /\ \A l \in Standing(k) : l \in LiveRows /\ pair[l].group = pair[k].group
  BY DEF LiveRows, Standing
<1>2. \A l \in LiveRows : /\ pair[l].int \in Internals /\ pair[l].ext \in Externals
                          /\ Sides(l) \subseteq Txns
  BY ARow, RowWritten DEF LedgerInv, LiveRows, Live, Decided
<1>3. pair[k].int # pair[k].ext
  BY <1>2, SourcesAssumption
<1>4. BookEntry(k).txns = MembersOf(Standing(k))
  BY DEF BookEntry
<1>5. \A t \in MembersOf(Standing(k)) : \E l \in Standing(k) : t \in Sides(l)
  BY DEF MembersOf, Sides
<1>6. Sides(k) \subseteq MembersOf(Standing(k))
  BY <1>1 DEF MembersOf, Sides
<1>7. MembersOf(Standing(k)) \in SUBSET Txns
  BY <1>1, <1>2, <1>5
<1>8. (result[k] \in Decided) \in BOOLEAN
  OBVIOUS
<1>9. BookEntry(k) \in Book!Match
  BY <1>7, <1>8, Zenon DEF BookEntry, Book!Match
<1>10. pair[k].int \in Sides(k) /\ pair[k].ext \in Sides(k)
  BY DEF Sides
<1>11. \A t \in BookEntry(k).txns : \E l \in LiveRows :
         t \in Sides(l) /\ pair[l].group = pair[k].group
  BY <1>1, <1>4, <1>5
<1>12. QED
  BY <1>3, <1>4, <1>6, <1>9, <1>10, <1>11

\* Entries that share a transaction are rows of one group.
LEMMA EntriesApart ==
    ASSUME LedgerType, LedgerInv, NEW k \in LiveRows, NEW l \in LiveRows,
           BookEntry(k).txns \cap BookEntry(l).txns # {}
    PROVE  pair[k].group = pair[l].group
<1>1. PICK t : t \in BookEntry(k).txns /\ t \in BookEntry(l).txns
  OBVIOUS
<1>2. PICK x \in LiveRows : t \in Sides(x) /\ pair[x].group = pair[k].group
  BY <1>1, EntryTxns
<1>3. PICK y \in LiveRows : t \in Sides(y) /\ pair[y].group = pair[l].group
  BY <1>1, EntryTxns
<1>4. pair[claim[t]].group = pair[x].group /\ pair[claim[t]].group = pair[y].group
  BY <1>2, <1>3 DEF LedgerInv, LiveHoldsClaims, LiveRows
<1>5. QED
  BY <1>2, <1>3, <1>4

\* What the invariant makes of the standing rows is a book.
LEMMA LedgerIsBook ==
    ASSUME LedgerType, LedgerInv
    PROVE  Book!IsBook(StandingBook)
<1>1. StandingBook \subseteq Book!Match
  BY BookEntries, EntryTxns
<1>2. ASSUME NEW m \in StandingBook PROVE \E t, u \in m.txns : t # u
  BY <1>2, BookEntries, EntryTxns
<1>3. ASSUME NEW m \in StandingBook, NEW n \in StandingBook, m.txns \cap n.txns # {}
      PROVE  m = n
  BY <1>3, BookEntries, EntriesApart, EntryOfGroup
<1>4. QED
  BY <1>1, <1>2, <1>3 DEF Book!IsBook

\* A standing row whose group is left alone keeps its entry.
LEMMA EntryKept ==
    ASSUME NEW k \in LiveRows, result'[k] = result[k],
           \A l \in ResultIds : result[l] \in Live => pair'[l] = pair[l],
           \A l \in ResultIds : l \in Standing(k) <=> l \in Standing(k)'
    PROVE  k \in LiveRows' /\ BookEntry(k)' = BookEntry(k)
<1>1. k \in LiveRows'
  BY DEF LiveRows
<1>2. Standing(k)' = Standing(k)
  BY DEF Standing
<1>3. \A l \in Standing(k) : pair'[l] = pair[l]
  BY DEF Standing
<1>4. MembersOf(Standing(k))' = MembersOf(Standing(k))
  BY <1>2, <1>3 DEF MembersOf
<1>5. (result[k] \in Decided)' = (result[k] \in Decided)
  BY DEF Decided
<1>6. BookEntry(k)' = BookEntry(k)
  BY <1>4, <1>5, Zenon DEF BookEntry
<1>7. QED
  BY <1>1, <1>6

\* Rows that are added in groups of their own are posted.
LEMMA Posted ==
    ASSUME LedgerType', LedgerInv',
           \A k \in ResultIds : result[k] \in Live => result'[k] = result[k] /\ pair'[k] = pair[k],
           \A k, l \in ResultIds : /\ result[k] \in Live /\ result'[l] \in Live
                                   /\ pair'[l].group = pair[k].group
                                   => result[l] \in Live
    PROVE  StandingBook' = StandingBook \/ Book!Post
<1>1. ASSUME NEW k \in LiveRows PROVE k \in LiveRows' /\ BookEntry(k)' = BookEntry(k)
  <2>1. k \in ResultIds /\ result[k] \in Live /\ result'[k] = result[k] /\ pair'[k] = pair[k]
    BY DEF LiveRows
  <2>2. \A l \in ResultIds : l \in Standing(k) <=> l \in Standing(k)'
    BY <2>1 DEF Standing
  <2>3. QED
    BY <2>1, <2>2, EntryKept
<1>2. StandingBook' = {BookEntry(k)' : k \in LiveRows'}
  BY DEF StandingBook, BookEntry, LiveRows
<1>3. StandingBook \subseteq StandingBook'
  BY <1>1, <1>2, BookEntries
<1>4. Book!IsBook(StandingBook)'
  BY LedgerIsBook, PTL
<1>5. QED
  BY <1>3, <1>4 DEF Book!Post, Book!IsBook, Book!Match

\* A group whose standing rows all fall is undone.
LEMMA Undone ==
    ASSUME LedgerType, LedgerInv, NEW n \in LiveRows, pair' = pair,
           \A l \in ResultIds : IF l \in Standing(n) THEN result'[l] = "REJECTED"
                                ELSE result'[l] = result[l]
    PROVE  BookEntry(n) \in StandingBook /\ Book!Undo(BookEntry(n))
<1>1. ASSUME NEW k \in LiveRows, k \notin Standing(n)
      PROVE  k \in LiveRows' /\ BookEntry(k)' = BookEntry(k) /\ BookEntry(k) # BookEntry(n)
  <2>1. k \in ResultIds /\ result'[k] = result[k] /\ pair[k].group # pair[n].group
    BY <1>1 DEF LiveRows, Standing
  <2>2. \A l \in ResultIds : l \in Standing(k) <=> l \in Standing(k)'
    BY <2>1 DEF Standing, Live, Decided
  <2>3. k \in LiveRows' /\ BookEntry(k)' = BookEntry(k)
    BY <2>1, <2>2, EntryKept
  <2>4. BookEntry(k) # BookEntry(n)
    BY <2>1, EntryTxns, EntriesApart
  <2>5. QED
    BY <2>3, <2>4
<1>2. \A k \in LiveRows' : k \in LiveRows /\ k \notin Standing(n)
  BY DEF LiveRows, Live, Decided
<1>3. \A k \in LiveRows : k \in Standing(n) => BookEntry(k) = BookEntry(n)
  BY EntryOfGroup DEF Standing
<1>4. StandingBook' = {BookEntry(k)' : k \in LiveRows'}
  BY DEF StandingBook, BookEntry, LiveRows
<1>5. StandingBook' = StandingBook \ {BookEntry(n)}
  BY <1>1, <1>2, <1>3, <1>4, BookEntries
<1>6. QED
  BY <1>5, BookEntries DEF Book!Undo

\* A row under review that is confirmed is its match, and is decided.
LEMMA Confirmed ==
    ASSUME LedgerType, LedgerInv, NEW n \in ResultIds, Confirm(n)
    PROVE  BookEntry(n) \in StandingBook /\ Book!Decide(BookEntry(n))
<1>1. /\ n \in LiveRows /\ result[n] = "PENDING_REVIEW" /\ pair' = pair
      /\ result'[n] = "CONFIRMED"
      /\ \A l \in ResultIds : l # n => result'[l] = result[l]
  BY DEF Confirm, LedgerType, LiveRows, Live
<1>2. \A l \in ResultIds : pair[l].group = pair[n].group => l = n
  BY <1>1 DEF LedgerInv, PendingAlone
<1>3. ASSUME NEW k \in LiveRows, k # n
      PROVE  k \in LiveRows' /\ BookEntry(k)' = BookEntry(k) /\ BookEntry(k) # BookEntry(n)
  <2>1. k \in ResultIds /\ result'[k] = result[k] /\ pair[k].group # pair[n].group
    BY <1>1, <1>2, <1>3 DEF LiveRows
  <2>2. \A l \in ResultIds : l \in Standing(k) <=> l \in Standing(k)'
    BY <1>1, <2>1 DEF Standing
  <2>3. k \in LiveRows' /\ BookEntry(k)' = BookEntry(k)
    BY <1>1, <2>1, <2>2, EntryKept
  <2>4. BookEntry(k) # BookEntry(n)
    BY <1>1, <2>1, EntryTxns, EntriesApart
  <2>5. QED
    BY <2>3, <2>4
<1>4. \A k \in LiveRows' : k \in LiveRows
  BY <1>1 DEF LiveRows
<1>5. n \in LiveRows'
  BY <1>1 DEF LiveRows, Live, Decided
<1>6. Standing(n)' = Standing(n)
  BY <1>1, <1>2 DEF Standing, Live, Decided
<1>7. MembersOf(Standing(n))' = MembersOf(Standing(n))
  BY <1>1, <1>6 DEF MembersOf
<1>8. (result[n] \in Decided)' = TRUE /\ (result[n] \in Decided) = FALSE
  BY <1>1 DEF Decided
<1>9. BookEntry(n)' = [BookEntry(n) EXCEPT !.decided = TRUE]
  <2> DEFINE Entry(S, d) == [txns |-> S, decided |-> d]
             With(m, d) == [m EXCEPT !.decided = d]
  <2>1. BookEntry(n) = Entry(MembersOf(Standing(n)), FALSE)
    BY <1>8, Zenon DEF BookEntry
  <2>2. BookEntry(n)' = Entry(MembersOf(Standing(n)), TRUE)
    BY <1>7, <1>8, Zenon DEF BookEntry
  <2>3. \A S, c, d : With(Entry(S, c), d) = Entry(S, d)
    OBVIOUS
  <2> HIDE DEF Entry, With
  <2>4. BookEntry(n)' = With(BookEntry(n), TRUE)
    BY <2>1, <2>2, <2>3, Zenon
  <2>5. QED
    BY <2>4 DEF With
<1>10. ~ BookEntry(n).decided
  BY <1>8 DEF BookEntry
<1>11. StandingBook' = {BookEntry(k)' : k \in LiveRows'}
  BY DEF StandingBook, BookEntry, LiveRows
<1>12. StandingBook' = (StandingBook \ {BookEntry(n)}) \cup {BookEntry(n)'}
  BY <1>1, <1>3, <1>4, <1>5, <1>11, BookEntries
<1>13. QED
  BY <1>1, <1>9, <1>10, <1>12, BookEntries DEF Book!Decide

\* Every step of the ledger is a step of the book or leaves it as it is.
LEMMA BookStep ==
    ASSUME LedgerType, LedgerInv, LedgerType', LedgerInv', Next
    PROVE  Book!Next \/ StandingBook' = StandingBook
<1>1. ASSUME NEW r \in Runs, RunStep(r), ~ Commit(r) PROVE Book!Next \/ StandingBook' = StandingBook
  <2>1. result' = result /\ \A k \in ResultIds : result[k] # "NONE" => pair'[k] = pair[k]
    BY <1>1, RunKeepsRows
  <2>2. \A k \in ResultIds : result[k] \in Live => result'[k] = result[k] /\ pair'[k] = pair[k]
    BY <2>1 DEF Live, Decided
  <2>3. QED
    BY <2>1, <2>2, Posted DEF Book!Next
<1>2. ASSUME NEW r \in Runs, Commit(r) PROVE Book!Next \/ StandingBook' = StandingBook
  <2>1. /\ pair' = pair
        /\ \A k \in ResultIds :
             result'[k] = IF wResult[r][k] # "NONE" THEN wResult[r][k] ELSE result[k]
    BY <1>2 DEF Commit, SeenResult
  <2>2. \A k \in ResultIds : result[k] \in Live => wResult[r][k] = "NONE"
    BY DEF LedgerInv, RowsPrivate, Live, Decided
  <2>3. ASSUME NEW k \in ResultIds, NEW l \in ResultIds,
               result[k] \in Live, result'[l] \in Live, pair'[l].group = pair[k].group
        PROVE  result[l] \in Live
    <3>1. wResult[r][k] = "NONE"
      BY <2>2, <2>3
    <3>2. wResult[r][l] = "NONE"
      BY <2>1, <2>3, <3>1 DEF LedgerInv, GroupsWhole
    <3>3. QED
      BY <2>1, <2>3, <3>2
  <2>4. QED
    BY <2>1, <2>2, <2>3, Posted DEF Book!Next
<1>3. ASSUME NEW i \in Internals, NEW e \in Externals, Create(i, e)
      PROVE  Book!Next \/ StandingBook' = StandingBook
  <2>1. PICK n \in ResultIds :
          /\ NextResult(n)
          /\ result' = [result EXCEPT ![n] = "CONFIRMED"]
          /\ pair' = [pair EXCEPT ![n] = [int |-> i, ext |-> e, group |-> n, by |-> "person"]]
    BY <1>3 DEF Create
  <2>2. /\ result[n] = "NONE" /\ pair[n] = NoPair
        /\ \A l \in ResultIds : l # n => result'[l] = result[l] /\ pair'[l] = pair[l]
        /\ pair'[n].group = n
    BY <2>1 DEF NextResult, Unused, LedgerType, LedgerInv, RowsExist
  <2>3. \A l \in ResultIds : l # n => pair[l].group # n
    BY <2>2, ARow DEF LedgerInv, GroupsNamed
  <2>4. \A k \in ResultIds : result[k] \in Live => k # n
    BY <2>2 DEF Live, Decided
  <2>5. QED
    BY <2>2, <2>3, <2>4, Posted DEF Book!Next
<1>4. ASSUME NEW n \in ResultIds, Unmatch(n) \/ Reject(n)
      PROVE  Book!Next
  <2>1. CASE Unmatch(n)
    <3>1. /\ pair' = pair /\ n \in LiveRows
          /\ \A l \in ResultIds : result'[l] = IF l \in Group(n) THEN "REJECTED" ELSE result[l]
          /\ \A l \in Group(n) : result[l] \in Live
      BY <2>1 DEF Unmatch, Group, LiveRows, Live
    <3>2. \A l \in ResultIds : l \in Group(n) <=> l \in Standing(n)
      BY <3>1 DEF Group, Standing, Live, Decided
    <3>3. QED
      BY <3>1, <3>2, Undone DEF Book!Next
  <2>2. CASE Reject(n)
    <3>1. /\ pair' = pair /\ n \in LiveRows /\ result[n] = "PENDING_REVIEW"
          /\ \A l \in ResultIds : result'[l] = IF l = n THEN "REJECTED" ELSE result[l]
      BY <2>2 DEF Reject, LedgerType, LiveRows, Live
    <3>2. \A l \in ResultIds : l \in Standing(n) <=> l = n
      BY <3>1 DEF LedgerInv, PendingAlone, Standing, LiveRows
    <3>3. QED
      BY <3>1, <3>2, Undone DEF Book!Next
  <2>3. QED
    BY <1>4, <2>1, <2>2
<1>5. ASSUME NEW n \in ResultIds, Confirm(n) PROVE Book!Next
  BY <1>5, Confirmed DEF Book!Next
<1>6. QED
  BY <1>1, <1>2, <1>3, <1>4, <1>5 DEF Next, PersonStep

\* The ledger implements the book: to a reader of the rows that stand, any
\* interleaving of stages, overlapping runs, crashes and reviewers is a
\* sequence of postings of free transactions, decisions and undoings.
THEOREM LedgerImplementsBook == Spec => ImplementsBook
<1>1. Init => Book!Init
  BY DEF Init, Book!Init, StandingBook, Live, Decided
<1>2. IInv /\ IInv' /\ [Next]_vars => [Book!Next]_StandingBook
  <2> SUFFICES ASSUME IInv, IInv', [Next]_vars PROVE [Book!Next]_StandingBook
    OBVIOUS
  <2>1. LedgerType /\ LedgerInv
    BY TypeParts DEF IInv
  <2>2. LedgerType' /\ LedgerInv'
    BY TypeParts, PTL DEF IInv
  <2>3. CASE Next
    BY <2>1, <2>2, <2>3, BookStep
  <2>4. CASE UNCHANGED vars
    BY <2>4 DEF vars, StandingBook, Standing, MembersOf
  <2>5. QED
    BY <2>3, <2>4
<1>3. Spec => Book!Spec
  BY <1>1, <1>2, Inductive, PTL DEF Spec, Book!Spec
<1>4. QED
  BY <1>3 DEF ImplementsBook
=============================================================================
