----------------------------- MODULE PartsProofs -----------------------------
(***************************************************************************)
(* The parts that share no state with one another: that a deactivated user *)
(* is locked out, for any number of users, keys and administrators; that   *)
(* a bank has one active configuration, the one last made active, for any  *)
(* number of processes, banks and versions; and that a bank's statement is *)
(* accounted for to the last unit, for any statement.                      *)
(***************************************************************************)
EXTENDS Accounts, BankConfigs, Statements, SubsetProofs, FiniteSetTheorems, TLAPS

-----------------------------------------------------------------------------
(***************************************************************************)
(* Accounts.  The row locks are the argument.  While a deactivation is     *)
(* open nobody has an uncommitted key of the user (Apart), so the keys its *)
(* UPDATE found are all there are (Covers); and a key whose INSERT found   *)
(* the user active keeps the user from being deactivated until it is       *)
(* committed and can be found (Told).                                      *)
(***************************************************************************)

States == {"absent", "active", "inactive"}

Keys == [owner : Users \cup {NoUser}, revoked : BOOLEAN, issued : BOOLEAN, after : BOOLEAN]

\* What an administrator has under way, if anything.
Rows == [op : {"idle", "create", "issue", "deactivate"},
         user : Users \cup {NoUser}, key : ApiKeys \cup {NoUser},
         at : {"start", "inserted", "audited"}, revoke : SUBSET ApiKeys, after : BOOLEAN]

Requests == [op : {"create", "issue", "deactivate"},
             user : Users, key : ApiKeys \cup {NoUser},
             at : {"start", "inserted", "audited"}, revoke : SUBSET ApiKeys, after : BOOLEAN]

AccountTypeOK ==
    /\ userState \in [Users -> States]
    /\ keyRow \in [ApiKeys -> Keys]
    /\ admin \in [Admins -> Rows]

Excluding(a) == Excludes(admin[a].op, admin[a].at)
Sharing(a) == Shares(admin[a].op, admin[a].at)

\* A request under way names a user; an idle one holds nothing; a deactivation
\* has the user's row from its first step.
Busy ==
    \A a \in Admins :
        /\ admin[a].op # "idle" => admin[a].user \in Users
        /\ admin[a].op = "idle" => admin[a].at = "start"
        /\ admin[a].op = "deactivate" => admin[a].at # "start"

\* A key is issued to a user who has been created.
Created ==
    \A a \in Admins : admin[a].op = "issue" => userState[admin[a].user] # "absent"

\* Of two requests for one user none excludes the other's lock.
Apart ==
    \A a, o \in Admins :
        a # o /\ admin[a].user = admin[o].user /\ Excluding(a) => ~Excluding(o) /\ ~Sharing(o)

\* An open deactivation has found every unrevoked key of its user.
Covers ==
    \A a \in Admins :
        admin[a].op = "deactivate" => KeysOf(admin[a].user) \subseteq admin[a].revoke

\* An inserted key of a deactivated user was inserted afterwards.
Told ==
    \A a \in Admins :
        Sharing(a) /\ userState[admin[a].user] = "inactive" => admin[a].after

Owned == \A k \in ApiKeys : keyRow[k].issued => keyRow[k].owner \in Users

Revoked ==
    \A k \in ApiKeys :
        keyRow[k].issued /\ userState[keyRow[k].owner] = "inactive" =>
            keyRow[k].revoked \/ keyRow[k].after

Admitted == \A x \in accepted : x[2] = "active"

AccountInv ==
    /\ AccountTypeOK /\ Busy /\ Created /\ Apart
    /\ Covers /\ Told /\ Owned /\ Revoked /\ Admitted
---------------------------------------------------------------------------
\* Before anybody is created the invariant holds.
LEMMA InitInv == AccountInit => AccountInv
BY AccountAssumption
   DEF AccountInit, AccountInv, AccountTypeOK, Keys, Rows, States, Busy, Created, Apart, Covers, Told,
       Owned, Revoked, Admitted, Idle, NoKey, NoUser, Excluding, Sharing, Excludes, Shares, KeysOf

\* A request that has ended holds nothing.
LEMMA EndedInv ==
    ASSUME AccountInv, NEW a \in Admins, Ended(a),
           UNCHANGED <<userState, keyRow, accepted>>
    PROVE  AccountInv'
<1> USE DEF AccountInv
<1>1. /\ admin' \in [Admins -> Rows]
      /\ \A o \in Admins : admin'[o] = IF o = a THEN Idle ELSE admin[o]
  BY DEF Ended, AccountTypeOK, Rows, Idle
<1>2. AccountTypeOK'
  BY <1>1 DEF AccountTypeOK
<1>3. Busy'
  BY <1>1 DEF Busy, Idle
<1>4. Created'
  BY <1>1 DEF Created, Idle
<1>5. Apart'
  BY <1>1 DEF Apart, Idle, Excluding, Sharing, Excludes, Shares
<1>6. Covers'
  BY <1>1 DEF Covers, Idle, KeysOf
<1>7. Told'
  BY <1>1 DEF Told, Idle, Sharing, Shares
<1>8. Owned' /\ Revoked' /\ Admitted'
  BY DEF Owned, Revoked, Admitted
<1> QED
  BY <1>2, <1>3, <1>4, <1>5, <1>6, <1>7, <1>8

\* A request that goes on, with the committed rows as they were, keeps the
\* invariant if its own new locks and its own new reads do.
LEMMA MovesInv ==
    ASSUME AccountInv, NEW a \in Admins, NEW r,
           r \in Requests,
           admin' = [admin EXCEPT ![a] = r],
           UNCHANGED <<userState, keyRow, accepted>>,
           r.op = "deactivate" => r.at # "start",
           r.op = "issue" => userState[r.user] # "absent",
           r.op = "deactivate" => KeysOf(r.user) \subseteq r.revoke,
           Shares(r.op, r.at) /\ userState[r.user] = "inactive" => r.after,
           \A o \in Admins \ {a} : admin[o].user = r.user =>
               /\ Excludes(r.op, r.at) => ~Excluding(o) /\ ~Sharing(o)
               /\ Shares(r.op, r.at) => ~Excluding(o)
    PROVE  AccountInv'
<1> USE DEF AccountInv
<1>1. /\ admin' \in [Admins -> Rows]
      /\ \A o \in Admins : admin'[o] = IF o = a THEN r ELSE admin[o]
  BY DEF AccountTypeOK, Rows, Requests
<1>2. AccountTypeOK'
  BY <1>1 DEF AccountTypeOK
<1>3. Busy'
  BY <1>1 DEF Busy, Requests
<1>4. Created'
  BY <1>1 DEF Created
<1>5. Apart'
  <2> SUFFICES ASSUME NEW b \in Admins, NEW o \in Admins, b # o,
                      admin'[b].user = admin'[o].user, Excluding(b)'
               PROVE  ~Excluding(o)' /\ ~Sharing(o)'
    BY DEF Apart
  <2>1. CASE b = a
    BY <1>1, <2>1 DEF Excluding, Sharing
  <2>2. CASE o = a
    <3>1. Excluding(b)
      BY <1>1, <2>2 DEF Excluding
    <3>2. ~Excludes(r.op, r.at) /\ ~Shares(r.op, r.at)
      BY <1>1, <2>2, <3>1
    <3> QED
      BY <1>1, <2>2, <3>2 DEF Excluding, Sharing
  <2>3. CASE b # a /\ o # a
    BY <1>1, <2>3 DEF Apart, Excluding, Sharing
  <2> QED
    BY <2>1, <2>2, <2>3
<1>6. Covers'
  BY <1>1 DEF Covers, KeysOf
<1>7. Told'
  BY <1>1 DEF Told, Sharing
<1>8. Owned' /\ Revoked' /\ Admitted'
  BY DEF Owned, Revoked, Admitted
<1> QED
  BY <1>2, <1>3, <1>4, <1>5, <1>6, <1>7, <1>8

\* The commit of a request keeps the invariant: here the locks are used.
LEMMA CommitInv ==
    ASSUME AccountInv, NEW a \in Admins, CommitAdmin(a)
    PROVE  AccountInv'
<1> USE DEF AccountInv
<1> DEFINE u == admin[a].user
           op == admin[a].op
<1>1. /\ admin[a].at = "audited" /\ op # "idle" /\ u \in Users
      /\ accepted' = accepted
      /\ Ended(a)
  BY DEF CommitAdmin, Busy, AccountTypeOK
<1>2. /\ userState' \in [Users -> States]
      /\ \A v \in Users : v # u => userState'[v] = userState[v]
      /\ op = "create" => userState'[u] = "active"
      /\ op = "deactivate" => userState'[u] = "inactive"
      /\ op = "issue" => userState'[u] = userState[u]
  BY <1>1 DEF CommitAdmin, AccountTypeOK, States
<1>3. /\ keyRow' \in [ApiKeys -> Keys]
      /\ \A k \in ApiKeys :
            keyRow'[k] = IF op = "issue" /\ k = admin[a].key
                         THEN [owner |-> u, revoked |-> FALSE, issued |-> TRUE,
                               after |-> admin[a].after]
                         ELSE IF k \in admin[a].revoke
                         THEN [keyRow[k] EXCEPT !.revoked = TRUE]
                         ELSE keyRow[k]
  BY <1>1 DEF CommitAdmin, AccountTypeOK, Keys, Rows
<1>4. /\ admin' \in [Admins -> Rows]
      /\ \A o \in Admins : admin'[o] = IF o = a THEN Idle ELSE admin[o]
  BY <1>1 DEF Ended, AccountTypeOK, Rows, Idle
\* Whoever else works on this user neither excludes nor, unless it is a key
\* that is being committed, shares.
<1>5. \A o \in Admins \ {a} : admin[o].user = u =>
          /\ ~Excluding(o)
          /\ op # "issue" => ~Sharing(o)
  BY <1>1 DEF Apart, Excluding, Sharing, Excludes, Shares, AccountTypeOK, Rows
<1>6. AccountTypeOK'
  BY <1>2, <1>3, <1>4 DEF AccountTypeOK
<1>7. Busy'
  BY <1>4 DEF Busy, Idle
<1>8. Created'
  <2> SUFFICES ASSUME NEW o \in Admins, admin'[o].op = "issue"
               PROVE  userState'[admin'[o].user] # "absent"
    BY DEF Created
  <2>1. o # a /\ admin'[o] = admin[o] /\ admin[o].user \in Users
        /\ userState[admin[o].user] # "absent"
    BY <1>4 DEF Idle, Busy, Created
  <2> QED
    BY <1>1, <1>2, <2>1 DEF AccountTypeOK, Rows
<1>9. Apart'
  BY <1>4 DEF Apart, Idle, Excluding, Sharing, Excludes, Shares
<1>10. Covers'
  <2> SUFFICES ASSUME NEW o \in Admins, admin'[o].op = "deactivate",
                      NEW k \in ApiKeys, keyRow'[k].issued, ~keyRow'[k].revoked,
                      keyRow'[k].owner = admin'[o].user
               PROVE  k \in admin'[o].revoke
    BY DEF Covers, KeysOf
  <2>1. o # a /\ admin'[o] = admin[o]
    BY <1>4 DEF Idle
  <2>2. CASE op = "issue" /\ k = admin[a].key
    <3>1. admin[o].user = u
      BY <1>3, <2>1, <2>2
    <3>2. Excluding(o)
      BY <2>1 DEF Excluding, Excludes, Busy
    <3> QED
      BY <1>5, <2>1, <3>1, <3>2
  <2>3. CASE ~(op = "issue" /\ k = admin[a].key)
    <3>1. keyRow[k].issued /\ ~keyRow[k].revoked /\ keyRow[k].owner = admin[o].user
      BY <1>3, <2>1, <2>3 DEF AccountTypeOK, Keys
    <3> QED
      BY <2>1, <3>1 DEF Covers, KeysOf
  <2> QED
    BY <2>2, <2>3
<1>11. Told'
  <2> SUFFICES ASSUME NEW o \in Admins, Sharing(o)', userState'[admin'[o].user] = "inactive"
               PROVE  admin'[o].after
    BY DEF Told
  <2>1. o # a /\ admin'[o] = admin[o] /\ Sharing(o) /\ admin[o].user \in Users
    BY <1>4 DEF Idle, Sharing, Shares, Busy
  <2>2. userState[admin[o].user] = "inactive"
    BY <1>1, <1>2, <1>5, <2>1 DEF AccountTypeOK
  <2> QED
    BY <2>1, <2>2 DEF Told
<1>12. Owned'
  BY <1>1, <1>3 DEF Owned, AccountTypeOK, Keys
<1>13. Revoked'
  <2> SUFFICES ASSUME NEW k \in ApiKeys, keyRow'[k].issued,
                      userState'[keyRow'[k].owner] = "inactive"
               PROVE  keyRow'[k].revoked \/ keyRow'[k].after
    BY DEF Revoked
  <2>1. CASE op = "issue" /\ k = admin[a].key
    <3>1. keyRow'[k].owner = u /\ keyRow'[k].after = admin[a].after
      BY <1>3, <2>1
    <3>2. userState[u] = "inactive" /\ Sharing(a)
      BY <1>1, <1>2, <2>1, <3>1 DEF Sharing, Shares
    <3> QED
      BY <3>1, <3>2 DEF Told
  <2>2. CASE ~(op = "issue" /\ k = admin[a].key) /\ k \in admin[a].revoke
    BY <1>3, <2>2 DEF AccountTypeOK, Keys
  <2>3. CASE ~(op = "issue" /\ k = admin[a].key) /\ k \notin admin[a].revoke
    <3>1. keyRow'[k] = keyRow[k] /\ keyRow[k].owner \in Users
      BY <1>3, <2>3 DEF Owned
    <3>2. CASE keyRow[k].owner = u
      <4>1. CASE op = "deactivate"
        BY <2>3, <3>1, <3>2, <4>1 DEF Covers, KeysOf
      <4>2. CASE op # "deactivate"
        BY <1>1, <1>2, <3>1, <3>2, <4>2 DEF Revoked, AccountTypeOK, Rows
      <4> QED
        BY <4>1, <4>2
    <3>3. CASE keyRow[k].owner # u
      BY <1>2, <3>1, <3>3 DEF Revoked
    <3> QED
      BY <3>2, <3>3
  <2> QED
    BY <2>1, <2>2, <2>3
<1>14. Admitted'
  BY <1>1 DEF Admitted
<1> QED
  BY <1>6, <1>7, <1>8, <1>9, <1>10, <1>11, <1>12, <1>13, <1>14

\* Every action keeps the invariant.
LEMMA NextInv == AccountInv /\ [AccountNext]_accountVars => AccountInv'
<1> SUFFICES ASSUME AccountInv, [AccountNext]_accountVars
             PROVE  AccountInv'
  OBVIOUS
<1> USE DEF AccountInv
<1>1. ASSUME NEW k \in ApiKeys, authenticate(k)
      PROVE  AccountInv'
  <2>1. UNCHANGED <<userState, keyRow, admin>>
    BY <1>1 DEF authenticate
  <2>2. Admitted'
    BY <1>1 DEF authenticate, Valid, Admitted
  <2> QED
    BY <2>1, <2>2 DEF AccountTypeOK, Busy, Created, Apart, Covers, Told, Owned, Revoked,
                      Excluding, Sharing, KeysOf
<1>2. ASSUME NEW a \in Admins, NEW u \in Users, create_user(a, u)
      PROVE  AccountInv'
  <2> DEFINE r == [Idle EXCEPT !.op = "create", !.user = u, !.at = "inserted"]
  <2>1. /\ r.op = "create" /\ r.user = u /\ r.at = "inserted"
        /\ r \in Requests
    BY DEF Idle, Requests
  <2>2. admin' = [admin EXCEPT ![a] = r] /\ UNCHANGED <<userState, keyRow, accepted>>
    BY <1>2 DEF create_user
  <2>3. \A o \in Admins \ {a} : admin[o].user = u => ~Excluding(o) /\ ~Sharing(o)
    BY <1>2 DEF create_user, Unlocked, Excluding, Sharing, Shares, Created
  <2> HIDE DEF r, AccountInv
  <2> QED
    BY <2>1, <2>2, <2>3, MovesInv DEF Shares
<1>3. ASSUME NEW a \in Admins, NEW u \in Users, deactivate_user(a, u)
      PROVE  AccountInv'
  <2> DEFINE r == [Idle EXCEPT !.op = "deactivate", !.user = u, !.at = "inserted",
                               !.revoke = KeysOf(u)]
  <2>1. /\ r.op = "deactivate" /\ r.user = u /\ r.at = "inserted" /\ r.revoke = KeysOf(u)
        /\ r \in Requests
    BY DEF Idle, KeysOf, Requests
  <2>2. admin' = [admin EXCEPT ![a] = r] /\ UNCHANGED <<userState, keyRow, accepted>>
    BY <1>3 DEF deactivate_user
  <2>3. \A o \in Admins \ {a} : admin[o].user = u => ~Excluding(o) /\ ~Sharing(o)
    BY <1>3 DEF deactivate_user, Unlocked, Unshared, Excluding, Sharing
  <2> HIDE DEF r, AccountInv
  <2> QED
    BY <2>1, <2>2, <2>3, MovesInv DEF Shares
<1>4. ASSUME NEW a \in Admins, NEW u \in Users, NEW k \in ApiKeys, issue_api_key(a, u, k)
      PROVE  AccountInv'
  <2> DEFINE r == [Idle EXCEPT !.op = "issue", !.user = u, !.key = k]
  <2>1. /\ r.op = "issue" /\ r.user = u /\ r.at = "start"
        /\ r \in Requests
    BY DEF Idle, Requests
  <2>2. admin' = [admin EXCEPT ![a] = r] /\ UNCHANGED <<userState, keyRow, accepted>>
    BY <1>4 DEF issue_api_key
  <2>3. userState[u] # "absent"
    BY <1>4 DEF issue_api_key
  <2> HIDE DEF r, AccountInv
  <2> QED
    BY <2>1, <2>2, <2>3, MovesInv DEF Shares, Excludes
<1>5. ASSUME NEW a \in Admins, InsertKey(a)
      PROVE  AccountInv'
  <2>1. CASE keyRow[admin[a].key].issued
    <3>1. Ended(a) /\ UNCHANGED <<userState, keyRow, accepted>>
      BY <1>5, <2>1 DEF InsertKey
    <3> HIDE DEF AccountInv
    <3> QED
      BY <3>1, EndedInv
  <2>2. CASE ~keyRow[admin[a].key].issued
    <3> DEFINE r == [admin[a] EXCEPT !.at = "inserted",
                                     !.after = userState[admin[a].user] = "inactive"]
    <3>1. /\ admin[a].op = "issue" /\ admin[a].user \in Users
          /\ userState[admin[a].user] # "absent"
      BY <1>5 DEF InsertKey, Busy, Created
    <3>2. admin' = [admin EXCEPT ![a] = r] /\ UNCHANGED <<userState, keyRow, accepted>>
      BY <1>5, <2>2 DEF InsertKey, AccountTypeOK
    <3>3. /\ r.op = "issue" /\ r.user = admin[a].user /\ r.at = "inserted"
          /\ r.after = (userState[admin[a].user] = "inactive")
          /\ r.key = admin[a].key /\ r.revoke = admin[a].revoke
          /\ r \in Requests
      BY <3>1 DEF AccountTypeOK, Rows, Requests
    <3>4. \A o \in Admins \ {a} : admin[o].user = admin[a].user => ~Excluding(o)
      BY <1>5 DEF InsertKey, Unlocked, Excluding
    <3> HIDE DEF r, AccountInv
    <3> QED
      BY <3>1, <3>2, <3>3, <3>4, MovesInv DEF Shares, Excludes
  <2> QED
    BY <2>1, <2>2
<1>6. ASSUME NEW a \in Admins, AuditUser(a)
      PROVE  AccountInv'
  <2> DEFINE r == [admin[a] EXCEPT !.at = "audited"]
  <2>1. admin[a].at = "inserted" /\ admin[a].op # "idle" /\ admin[a].user \in Users
    BY <1>6 DEF AuditUser, Busy
  <2>2. admin' = [admin EXCEPT ![a] = r] /\ UNCHANGED <<userState, keyRow, accepted>>
    BY <1>6 DEF AuditUser, AccountTypeOK
  <2>3. /\ r.op = admin[a].op /\ r.user = admin[a].user /\ r.at = "audited"
        /\ r.after = admin[a].after /\ r.revoke = admin[a].revoke
        /\ r \in Requests
    BY <2>1 DEF AccountTypeOK, Rows, Requests
  <2>4. /\ Excludes(r.op, r.at) => Excluding(a)
        /\ Shares(r.op, r.at) => Sharing(a)
    BY <2>1, <2>3 DEF Excluding, Sharing, Excludes, Shares
  <2>5. \A o \in Admins \ {a} : admin[o].user = r.user =>
            /\ Excludes(r.op, r.at) => ~Excluding(o) /\ ~Sharing(o)
            /\ Shares(r.op, r.at) => ~Excluding(o)
    BY <2>3, <2>4 DEF Apart
  <2>6. /\ r.op = "issue" => userState[r.user] # "absent"
        /\ r.op = "deactivate" => KeysOf(r.user) \subseteq r.revoke
        /\ Shares(r.op, r.at) /\ userState[r.user] = "inactive" => r.after
    BY <2>3, <2>4 DEF Created, Covers, Told
  <2> HIDE DEF r, AccountInv
  <2> QED
    BY <2>2, <2>3, <2>5, <2>6, MovesInv
<1>7. ASSUME NEW a \in Admins, CommitAdmin(a)
      PROVE  AccountInv'
  BY <1>7, CommitInv
<1>8. ASSUME NEW a \in Admins, FailAdmin(a)
      PROVE  AccountInv'
  BY <1>8, EndedInv DEF FailAdmin
<1>9. CASE UNCHANGED accountVars
  BY <1>9 DEF accountVars, AccountTypeOK, Busy, Created, Apart, Covers, Told, Owned, Revoked,
              Admitted, Excluding, Sharing, KeysOf
<1> HIDE DEF AccountInv
<1> QED
  BY <1>1, <1>2, <1>3, <1>4, <1>5, <1>6, <1>7, <1>8, <1>9 DEF AccountNext
---------------------------------------------------------------------------
\* The committed rows and the requests under way are as AccountTypeOK says and
\* the locks are apart, in every state of every behaviour.
THEOREM AccountsInductive == AccountSpec => []AccountInv
<1>1. AccountInit => AccountInv
  BY InitInv
<1>2. AccountInv /\ [AccountNext]_accountVars => AccountInv'
  BY NextInv
<1> QED
  BY <1>1, <1>2, PTL DEF AccountSpec

\* A deactivated user is locked out: every key inserted before the
\* deactivation is revoked by it, and nobody was ever authenticated as a user
\* who was not active, whatever issue_api_key and deactivate_user interleave.
THEOREM LockedOut == AccountSpec => []DeactivatedLockedOut
<1>1. AccountInv => DeactivatedLockedOut
  BY DEF AccountInv, Revoked, Admitted, DeactivatedLockedOut
<1> QED
  BY <1>1, AccountsInductive, PTL

-----------------------------------------------------------------------------
(***************************************************************************)
(* Bank configurations.  A row a transaction wrote is locked to its end    *)
(* (RowsApart), and the unique index admits one open transaction that      *)
(* turns a row of the bank on (OneActivator).  So what a transaction found *)
(* when it turned its row on, no other active row than the one it turned   *)
(* off, still holds when it commits; and one that found its row active     *)
(* already has turned off a row that was no longer active, which nobody    *)
(* else can turn on before it ends.                                        *)
(***************************************************************************)

Config == [Banks -> Versions]

Marks == [Banks -> Versions \cup {Unset}]

Registry ==
    [ at : {"boot", "booted", "up", "read", "failed"},
      loaded : Config \cup {Nowhere},
      signature : Nat,
      taken : Nat,
      fresh : Marks,
      error : BOOLEAN ]

Txn ==
    [ at : {"idle", "look", "off", "find", "write", "audit", "synced"},
      bank : Nat,
      want : Config \cup {<<>>},
      seen : Versions \cup {Unset},
      found : {"none", "idle", "active"},
      off : Marks,
      on : Marks,
      kept : Marks ]

ConfigTypeOK ==
    /\ dir \in [Banks -> Versions \cup {"bad"}]
    /\ stamp \in Nat
    /\ reg \in [Procs -> Registry]
    /\ active \in [Banks -> SUBSET Versions]
    /\ lastMade \in Marks
    /\ sync \in [Procs -> Txn]

\* The bank's row is yet to be turned on.
Ahead(t, b) == b > t.bank \/ (b = t.bank /\ t.at \in {"look", "off", "find", "write"})

\* The bank's old row is turned off and its new one neither turned on nor found
\* active.
Pending(t, b) == t.bank = b /\ (t.at = "find" \/ (t.at = "write" /\ t.found # "active"))

\* Where a transaction turns a row on, no active row is other than that one and
\* the one it turns off; and where it does not, what it turned off is not
\* active.
TxnOK(t) ==
    /\ t.at # "idle" => t.want \in Config /\ t.bank \in Banks
    /\ t.at = "off" => t.seen \in Versions /\ t.seen # t.want[t.bank]
    /\ \A b \in Banks : Ahead(t, b) => t.on[b] = Unset
    /\ \A b \in Banks : t.off[b] # Unset => t.off[b] # t.want[b]
    /\ \A b \in Banks : t.on[b] # Unset => active[b] \subseteq {t.off[b], t.on[b]}
    /\ \A b \in Banks :
        t.off[b] # Unset /\ t.on[b] = Unset /\ ~ Pending(t, b) => t.off[b] \notin active[b]

\* No two open transactions wrote one row.
RowsApart ==
    \A p, q \in Procs, b \in Banks, v \in Versions : Wrote(p, b, v) /\ Wrote(q, b, v) => p = q

\* No two open transactions turn rows of one bank on.
OneActivator ==
    \A p, q \in Procs, b \in Banks :
        sync[p].on[b] # Unset /\ sync[q].on[b] # Unset => p = q

ConfigInv ==
    /\ ConfigTypeOK
    /\ \A p \in Procs : TxnOK(sync[p])
    /\ RowsApart
    /\ OneActivator
    /\ ActiveIsMade

-----------------------------------------------------------------------------

\* The banks are numbered from one to their number.
LEMMA BanksNumbered ==
    /\ Cardinality(Banks) \in Nat
    /\ Banks = 1 .. Cardinality(Banks)
    /\ Banks \subseteq Nat
  BY ConfigAssumption, FS_CardinalityType

\* No version is the mark for none.
LEMMA UnsetApart == Unset \notin Versions
  BY ConfigAssumption DEF Unset

\* No transaction under way: nothing is marked.
LEMMA NoTxnFacts ==
    /\ NoTxn \in Txn /\ TxnOK(NoTxn) /\ NoTxn.at = "idle" /\ NoTxn.bank = 1
    /\ NoTxn.off = Nowhere /\ NoTxn.on = Nowhere /\ NoTxn.kept = Nowhere
  <1>1. Nowhere \in Marks /\ \A b \in Banks : Nowhere[b] = Unset
    BY DEF Nowhere, Marks
  <1> HIDE DEF Nowhere
  <1>2. /\ NoTxn \in Txn /\ NoTxn.at = "idle" /\ NoTxn.bank = 1
        /\ NoTxn.off = Nowhere /\ NoTxn.on = Nowhere /\ NoTxn.kept = Nowhere
    BY <1>1 DEF NoTxn, Txn
  <1> QED BY <1>1, <1>2 DEF TxnOK

\* Of a step in which one process goes on with its transaction: the rows it
\* comes to write and to turn on are free of the others.
LEMMA SyncMoves ==
    ASSUME ConfigInv, NEW p \in Procs, NEW t \in Txn, sync' = [sync EXCEPT ![p] = t], TxnOK(t),
           \A b \in Banks, v \in Versions :
              v \in {t.off[b], t.on[b], t.kept[b]} => Wrote(p, b, v) \/ RowFree(p, b, v),
           \A b \in Banks : t.on[b] # Unset => sync[p].on[b] # Unset \/ IndexFree(p, b),
           UNCHANGED <<dir, stamp, reg, active, lastMade>>
    PROVE  ConfigInv'
  <1>1. sync \in [Procs -> Txn]
    BY DEF ConfigInv, ConfigTypeOK
  <1>2. sync'[p] = t /\ \A q \in Procs \ {p} : sync'[q] = sync[q]
    BY <1>1
  <1>3. ConfigTypeOK'
    BY <1>1 DEF ConfigInv, ConfigTypeOK
  <1>4. \A q \in Procs : TxnOK(sync[q])'
    <2> SUFFICES ASSUME NEW q \in Procs
                 PROVE  TxnOK(sync[q])'
      OBVIOUS
    <2>1. TxnOK(sync'[q])
      BY <1>2 DEF ConfigInv
    <2> QED BY <2>1 DEF TxnOK
  <1>5. RowsApart'
    <2>1. \A q \in Procs \ {p}, b \in Banks, v \in Versions : Wrote(q, b, v)' <=> Wrote(q, b, v)
      BY <1>2 DEF Wrote
    <2>2. \A b \in Banks, v \in Versions : Wrote(p, b, v)' => Wrote(p, b, v) \/ RowFree(p, b, v)
      BY <1>2 DEF Wrote
    <2>3. RowsApart
      BY DEF ConfigInv
    <2> QED BY <2>1, <2>2, <2>3 DEF RowsApart, RowFree
  <1>6. OneActivator'
    <2>1. OneActivator
      BY DEF ConfigInv
    <2> QED BY <1>2, <2>1 DEF OneActivator, IndexFree, IndexFreeOf
  <1>7. ActiveIsMade'
    BY DEF ConfigInv, ActiveIsMade
  <1> QED BY <1>3, <1>4, <1>5, <1>6, <1>7 DEF ConfigInv

\* The transaction of a process, as the steps need it.
LEMMA TxnFacts ==
    ASSUME ConfigInv, NEW p \in Procs
    PROVE  sync[p] \in Txn /\ TxnOK(sync[p]) /\ sync \in [Procs -> Txn]
  BY DEF ConfigInv, ConfigTypeOK

\* A step that writes no row.
LEMMA SyncReads ==
    ASSUME ConfigInv, NEW p \in Procs, NEW t \in Txn, sync' = [sync EXCEPT ![p] = t], TxnOK(t),
           t.off = sync[p].off, t.on = sync[p].on, t.kept = sync[p].kept,
           UNCHANGED <<dir, stamp, reg, active, lastMade>>
    PROVE  ConfigInv'
  <1>1. \A b \in Banks, v \in Versions :
           v \in {t.off[b], t.on[b], t.kept[b]} => Wrote(p, b, v) \/ RowFree(p, b, v)
    BY DEF Wrote
  <1>2. \A b \in Banks : t.on[b] # Unset => sync[p].on[b] # Unset \/ IndexFree(p, b)
    OBVIOUS
  <1> QED BY <1>1, <1>2, SyncMoves

\* A rolled back transaction leaves the table and the others as they were.
LEMMA AbortKeeps ==
    ASSUME ConfigInv, NEW p \in Procs, AbortSync(p)
    PROVE  ConfigInv'
  <1>1. sync' = [sync EXCEPT ![p] = NoTxn] /\ UNCHANGED <<dir, stamp, reg, active, lastMade>>
    BY DEF AbortSync, configTable
  <1>2. /\ \A b \in Banks : NoTxn.on[b] = Unset
        /\ \A b \in Banks, v \in Versions : v \notin {NoTxn.off[b], NoTxn.on[b], NoTxn.kept[b]}
    <2>1. \A b \in Banks : Nowhere[b] = Unset
      BY DEF Nowhere
    <2> HIDE DEF NoTxn
    <2> QED BY <2>1, NoTxnFacts, UnsetApart
  <1> HIDE DEF NoTxn
  <1>3. NoTxn \in Txn /\ TxnOK(NoTxn)
    BY NoTxnFacts
  <1> QED BY <1>1, <1>2, <1>3, SyncMoves

\* To record the live configurations: the process has some.
LEMMA BeginKeeps ==
    ASSUME ConfigInv, NEW p \in Procs, BeginSync(p)
    PROVE  ConfigInv'
  <1> DEFINE r == [NoTxn EXCEPT !.at = "look"]
             t == [r EXCEPT !.want = reg[p].loaded]
  <1>1. sync' = [sync EXCEPT ![p] = t] /\ UNCHANGED <<dir, stamp, reg, active, lastMade>>
    BY DEF BeginSync, configTable
  <1>2. reg[p].loaded \in Config
    BY DEF ConfigInv, ConfigTypeOK, Registry, BeginSync
  <1>3. 1 \in Banks
    <2>1. reg[p].loaded # Nowhere
      BY DEF BeginSync
    <2>2. Banks # {}
      BY <1>2, <2>1 DEF Config, Nowhere
    <2> QED BY <2>2, BanksNumbered
  <1>4. r \in Txn /\ r.off = Nowhere /\ r.on = Nowhere /\ r.kept = Nowhere /\ r.bank = 1 /\ r.at = "look"
    <2> HIDE DEF NoTxn
    <2> QED BY NoTxnFacts DEF Txn
  <1> HIDE DEF r
  <1>5. t \in Txn /\ t.off = Nowhere /\ t.on = Nowhere /\ t.kept = Nowhere /\ t.bank = 1 /\ t.at = "look"
        /\ t.want = reg[p].loaded
    BY <1>2, <1>4 DEF Txn
  <1> HIDE DEF t
  <1>6. \A b \in Banks : Nowhere[b] = Unset
    BY DEF Nowhere
  <1>7. TxnOK(t)
    BY <1>2, <1>3, <1>5, <1>6 DEF TxnOK
  <1>8. /\ \A b \in Banks : t.on[b] = Unset
        /\ \A b \in Banks, v \in Versions : v \notin {t.off[b], t.on[b], t.kept[b]}
    BY <1>5, <1>6, UnsetApart
  <1> QED BY <1>1, <1>5, <1>7, <1>8, SyncMoves

\* Going on to the next bank, once this one's row is as wanted or its change
\* is audited.
LEMMA OnwardFacts ==
    ASSUME NEW t \in Txn, TxnOK(t), t.at \in {"look", "audit"}
    PROVE  /\ Onward(t) \in Txn /\ TxnOK(Onward(t))
           /\ Onward(t).off = t.off /\ Onward(t).on = t.on /\ Onward(t).kept = t.kept
  <1>1. /\ Cardinality(Banks) \in Nat /\ Banks = 1 .. Cardinality(Banks)
        /\ t.bank \in Banks /\ t.want \in Config /\ t.bank \in Nat /\ Banks \subseteq Nat
    BY BanksNumbered DEF TxnOK
  <1>2. CASE t.bank = Cardinality(Banks)
    <2> DEFINE s == [t EXCEPT !.at = "synced"]
    <2>1. /\ s \in Txn /\ s.at = "synced" /\ s.bank = t.bank /\ s.want = t.want
          /\ s.off = t.off /\ s.on = t.on /\ s.kept = t.kept
      BY DEF Txn
    <2>2. Onward(t) = s
      BY <1>2 DEF Onward
    <2> HIDE DEF s
    <2>3. TxnOK(s)
      BY <1>1, <2>1 DEF TxnOK, Ahead, Pending
    <2> QED BY <2>1, <2>2, <2>3
  <1>3. CASE t.bank # Cardinality(Banks)
    <2> DEFINE r == [t EXCEPT !.at = "look"]
               s == [r EXCEPT !.bank = t.bank + 1]
    <2>1. /\ r \in Txn /\ r.at = "look" /\ r.want = t.want
          /\ r.off = t.off /\ r.on = t.on /\ r.kept = t.kept
      BY DEF Txn
    <2>2. Onward(t) = s
      BY <1>3 DEF Onward
    <2> HIDE DEF r
    <2>3. /\ s \in Txn /\ s.at = "look" /\ s.bank = t.bank + 1 /\ s.want = t.want
          /\ s.off = t.off /\ s.on = t.on /\ s.kept = t.kept
      BY <1>1, <2>1 DEF Txn
    <2> HIDE DEF s
    <2>4. s.bank \in Banks /\ \A b \in Banks : Ahead(s, b) => b > t.bank
      BY <1>1, <1>3, <2>3 DEF Ahead
    <2>5. TxnOK(s)
      <3>1. \A b \in Banks : Ahead(s, b) => Ahead(t, b)
        BY <2>4 DEF Ahead
      <3>2. \A b \in Banks : ~ Pending(t, b) /\ ~ Pending(s, b)
        BY <2>3 DEF Pending
      <3> QED BY <1>1, <2>3, <2>4, <3>1, <3>2 DEF TxnOK
    <2> QED BY <2>2, <2>3, <2>5
  <1> QED BY <1>2, <1>3

\* The SELECT of the active row.
LEMMA LookKeeps ==
    ASSUME ConfigInv, NEW p \in Procs, LookActive(p)
    PROVE  ConfigInv'
  <1> DEFINE t == sync[p]
             b == t.bank
             seen == IF active[b] = {} THEN Unset ELSE CHOOSE v \in active[b] : TRUE
             where == IF seen = Unset THEN "find" ELSE "off"
             r == [t EXCEPT !.seen = seen]
             s == [r EXCEPT !.at = where]
  <1>1. t \in Txn /\ TxnOK(t) /\ t.at = "look"
    BY TxnFacts DEF LookActive
  <1>2. b \in Banks /\ t.want \in Config
    BY <1>1 DEF TxnOK
  <1>3. seen \in Versions \cup {Unset}
    <2>1. active[b] \subseteq Versions
      BY <1>2 DEF ConfigInv, ConfigTypeOK
    <2> QED BY <2>1
  <1>4. UNCHANGED <<dir, stamp, reg, active, lastMade>>
    BY DEF LookActive, configTable
  <1>5. CASE seen = t.want[b]
    <2>1. sync' = [sync EXCEPT ![p] = Onward(t)]
      BY <1>5 DEF LookActive
    <2>2. /\ Onward(t) \in Txn /\ TxnOK(Onward(t))
          /\ Onward(t).off = t.off /\ Onward(t).on = t.on /\ Onward(t).kept = t.kept
      BY <1>1, OnwardFacts
    <2> QED BY <1>4, <2>1, <2>2, SyncReads
  <1>6. CASE seen # t.want[b]
    <2>1. sync' = [sync EXCEPT ![p] = s]
      BY <1>6 DEF LookActive
    <2> HIDE DEF seen
    <2>2. /\ r \in Txn /\ r.bank = t.bank /\ r.want = t.want /\ r.off = t.off /\ r.on = t.on
          /\ r.kept = t.kept /\ r.seen = seen
      BY <1>1, <1>3 DEF Txn
    <2>3. where \in {"find", "off"} /\ (where = "off" => seen # Unset)
      OBVIOUS
    <2> HIDE DEF r, where
    <2>4. /\ s \in Txn /\ s.at = where /\ s.bank = t.bank /\ s.want = t.want /\ s.off = t.off
          /\ s.on = t.on /\ s.kept = t.kept /\ s.seen = seen
      BY <2>2, <2>3 DEF Txn
    <2> HIDE DEF s
    <2>5. TxnOK(s)
      <3>1. \A c \in Banks : (Ahead(s, c) => Ahead(t, c)) /\ ~ Pending(t, c)
        BY <1>1, <2>3, <2>4 DEF Ahead, Pending
      <3>2. s.at = "off" => s.seen \in Versions /\ s.seen # s.want[s.bank]
        BY <1>3, <1>6, <2>3, <2>4
      <3> QED BY <1>1, <1>2, <2>3, <2>4, <3>1, <3>2 DEF TxnOK
    <2> QED BY <1>4, <2>1, <2>4, <2>5, SyncReads
  <1> QED BY <1>5, <1>6

\* The old row is turned off under its lock.
LEMMA OffKeeps ==
    ASSUME ConfigInv, NEW p \in Procs, DeactivateRow(p)
    PROVE  ConfigInv'
  <1> DEFINE t == sync[p]
             b == t.bank
             off == [t.off EXCEPT ![b] = t.seen]
             r == [t EXCEPT !.off = off]
             s == [r EXCEPT !.at = "find"]
  <1>1. /\ t \in Txn /\ TxnOK(t) /\ t.at = "off" /\ RowFree(p, b, t.seen)
        /\ sync' = [sync EXCEPT ![p] = Deactivated(t)]
        /\ UNCHANGED <<dir, stamp, reg, active, lastMade>>
    BY TxnFacts DEF DeactivateRow, configTable
  <1>2. b \in Banks /\ t.want \in Config /\ t.seen \in Versions /\ t.seen # t.want[b]
    BY <1>1 DEF TxnOK
  <1>3. Deactivated(t) = s
    BY <1>1 DEF Deactivated, Txn
  <1>4. off \in Marks /\ off[b] = t.seen /\ \A c \in Banks \ {b} : off[c] = t.off[c]
    BY <1>1, <1>2 DEF Txn, Marks
  <1> HIDE DEF off
  <1>5. /\ r \in Txn /\ r.bank = b /\ r.want = t.want /\ r.off = off /\ r.on = t.on /\ r.kept = t.kept
    BY <1>1, <1>4 DEF Txn
  <1> HIDE DEF r
  <1>6. /\ s \in Txn /\ s.at = "find" /\ s.bank = b /\ s.want = t.want /\ s.off = off
        /\ s.on = t.on /\ s.kept = t.kept
    BY <1>5 DEF Txn
  <1> HIDE DEF s
  <1>7. TxnOK(s)
    <2>1. \A c \in Banks : Ahead(s, c) <=> Ahead(t, c)
      BY <1>1, <1>6 DEF Ahead
    <2>2. Pending(s, b) /\ t.on[b] = Unset
      BY <1>1, <1>2, <1>6 DEF Pending, TxnOK, Ahead
    <2>3. \A c \in Banks : ~ Pending(t, c)
      BY <1>1 DEF Pending
    <2> QED BY <1>1, <1>2, <1>4, <1>6, <2>1, <2>2, <2>3 DEF TxnOK
  <1>8. \A c \in Banks, v \in Versions :
           v \in {s.off[c], s.on[c], s.kept[c]} => Wrote(p, c, v) \/ RowFree(p, c, v)
    BY <1>1, <1>4, <1>6 DEF Wrote
  <1>9. \A c \in Banks : s.on[c] # Unset => sync[p].on[c] # Unset \/ IndexFree(p, c)
    BY <1>6
  <1> HIDE DEF t
  <1> QED BY <1>1, <1>3, <1>6, <1>7, <1>8, <1>9, SyncMoves

\* The SELECT of the wanted version's row.  Found active, it is the one active
\* row, and so the row turned off is not.
LEMMA FindKeeps ==
    ASSUME ConfigInv, NEW p \in Procs, FindVersion(p)
    PROVE  ConfigInv'
  <1> DEFINE t == sync[p]
             b == t.bank
             v == t.want[b]
             found == IF v \notin known[b] THEN "none"
                      ELSE IF v \in active[b] THEN "active" ELSE "idle"
             r == [t EXCEPT !.found = found]
             s == [r EXCEPT !.at = "write"]
  <1>1. /\ t \in Txn /\ TxnOK(t) /\ t.at = "find"
        /\ UNCHANGED <<dir, stamp, reg, active, lastMade>>
    BY TxnFacts DEF FindVersion, configTable
  <1>2. b \in Banks /\ t.want \in Config
    BY <1>1 DEF TxnOK
  <1>3. sync' = [sync EXCEPT ![p] = s]
    BY DEF FindVersion
  <1>4. found \in {"none", "idle", "active"} /\ (found = "active" => v \in active[b])
    OBVIOUS
  <1> HIDE DEF found
  <1>5. /\ r \in Txn /\ r.bank = b /\ r.want = t.want /\ r.off = t.off /\ r.on = t.on
        /\ r.kept = t.kept /\ r.found = found
    BY <1>1, <1>4 DEF Txn
  <1> HIDE DEF r
  <1>6. /\ s \in Txn /\ s.at = "write" /\ s.bank = b /\ s.want = t.want /\ s.off = t.off
        /\ s.on = t.on /\ s.kept = t.kept /\ s.found = found
    BY <1>5 DEF Txn
  <1> HIDE DEF s
  <1>7. TxnOK(s)
    <2>1. \A c \in Banks : Ahead(s, c) <=> Ahead(t, c)
      BY <1>1, <1>6 DEF Ahead
    <2>2. \A c \in Banks \ {b} : ~ Pending(t, c) /\ ~ Pending(s, c)
      BY <1>6 DEF Pending
    <2>3. t.off[b] # Unset /\ ~ Pending(s, b) => t.off[b] \notin active[b]
      <3> SUFFICES ASSUME t.off[b] # Unset, ~ Pending(s, b)
                   PROVE  t.off[b] \notin active[b]
        OBVIOUS
      <3>1. v \in active[b]
        BY <1>4, <1>6 DEF Pending
      <3>2. t.off[b] # v
        BY <1>1, <1>2 DEF TxnOK
      <3>3. active[b] \subseteq {lastMade[b]}
        BY <1>2 DEF ConfigInv, ActiveIsMade
      <3> QED BY <3>1, <3>2, <3>3
    <2>4. \A c \in Banks :
             s.off[c] # Unset /\ s.on[c] = Unset /\ ~ Pending(s, c) => s.off[c] \notin active[c]
      BY <1>1, <1>6, <2>2, <2>3 DEF TxnOK
    <2> QED BY <1>1, <1>2, <1>6, <2>1, <2>4 DEF TxnOK
  <1> QED BY <1>1, <1>3, <1>6, <1>7, SyncReads

\* The wanted row, active already, is stamped.
LEMMA StampKeeps ==
    ASSUME ConfigInv, NEW p \in Procs, StampVersion(p)
    PROVE  ConfigInv'
  <1> DEFINE t == sync[p]
             b == t.bank
             kept == [t.kept EXCEPT ![b] = t.want[b]]
             r == [t EXCEPT !.kept = kept]
             s == [r EXCEPT !.at = "audit"]
  <1>1. /\ t \in Txn /\ TxnOK(t) /\ t.at = "write" /\ t.found = "active"
        /\ RowFree(p, b, t.want[b])
        /\ sync' = [sync EXCEPT ![p] = Stamped(t)]
        /\ UNCHANGED <<dir, stamp, reg, active, lastMade>>
    BY TxnFacts DEF StampVersion, configTable
  <1>2. b \in Banks /\ t.want \in Config
    BY <1>1 DEF TxnOK
  <1>3. Stamped(t) = s
    BY <1>1 DEF Stamped, Txn
  <1>4. kept \in Marks /\ kept[b] = t.want[b] /\ \A c \in Banks \ {b} : kept[c] = t.kept[c]
    BY <1>1, <1>2 DEF Txn, Marks, Config
  <1> HIDE DEF kept
  <1>5. /\ r \in Txn /\ r.bank = b /\ r.want = t.want /\ r.off = t.off /\ r.on = t.on /\ r.kept = kept
    BY <1>1, <1>4 DEF Txn
  <1> HIDE DEF r
  <1>6. /\ s \in Txn /\ s.at = "audit" /\ s.bank = b /\ s.want = t.want /\ s.off = t.off
        /\ s.on = t.on /\ s.kept = kept
    BY <1>5 DEF Txn
  <1> HIDE DEF s
  <1>7. TxnOK(s)
    <2>1. \A c \in Banks : (Ahead(s, c) => Ahead(t, c)) /\ ~ Pending(t, c)
      BY <1>1, <1>6 DEF Ahead, Pending
    <2> QED BY <1>1, <1>2, <1>6, <2>1 DEF TxnOK
  <1>8. \A c \in Banks, v \in Versions :
           v \in {s.off[c], s.on[c], s.kept[c]} => Wrote(p, c, v) \/ RowFree(p, c, v)
    BY <1>1, <1>4, <1>6 DEF Wrote
  <1>9. \A c \in Banks : s.on[c] # Unset => sync[p].on[c] # Unset \/ IndexFree(p, c)
    BY <1>6
  <1> HIDE DEF t
  <1> QED BY <1>1, <1>3, <1>6, <1>7, <1>8, <1>9, SyncMoves

\* The wanted row is turned on where no other active row is in its way.
LEMMA SetKeeps ==
    ASSUME ConfigInv, NEW p \in Procs, SetActive(p)
    PROVE  ConfigInv'
  <1> DEFINE t == sync[p]
             b == t.bank
             on == [t.on EXCEPT ![b] = t.want[b]]
             r == [t EXCEPT !.on = on]
             s == [r EXCEPT !.at = "audit"]
  <1>1. CASE Conflicts(p)
    BY <1>1, AbortKeeps DEF SetActive
  <1>2. CASE ~ Conflicts(p)
    <2>1. /\ t \in Txn /\ TxnOK(t) /\ t.at = "write"
          /\ RowFree(p, b, t.want[b]) /\ IndexFree(p, b)
          /\ sync' = [sync EXCEPT ![p] = Activated(t)]
          /\ UNCHANGED <<dir, stamp, reg, active, lastMade>>
      BY <1>2, TxnFacts DEF SetActive, configTable
    <2>2. b \in Banks /\ t.want \in Config
      BY <2>1 DEF TxnOK
    <2>3. active[b] \subseteq {t.off[b], t.want[b]}
      BY <1>2 DEF Conflicts
    <2>4. Activated(t) = s
      BY <2>1 DEF Activated, Txn
    <2>5. on \in Marks /\ on[b] = t.want[b] /\ \A c \in Banks \ {b} : on[c] = t.on[c]
      BY <2>1, <2>2 DEF Txn, Marks, Config
    <2>6. t.want[b] # Unset
      BY <2>2, UnsetApart DEF Config
    <2> HIDE DEF on
    <2>7. /\ r \in Txn /\ r.bank = b /\ r.want = t.want /\ r.off = t.off /\ r.on = on
          /\ r.kept = t.kept
      BY <2>1, <2>5 DEF Txn
    <2> HIDE DEF r
    <2>8. /\ s \in Txn /\ s.at = "audit" /\ s.bank = b /\ s.want = t.want /\ s.off = t.off
          /\ s.on = on /\ s.kept = t.kept
      BY <2>7 DEF Txn
    <2> HIDE DEF s
    <2>9. TxnOK(s)
      <3>1. \A c \in Banks : Ahead(s, c) => Ahead(t, c) /\ c # b
        BY <2>1, <2>2, <2>8, BanksNumbered DEF Ahead
      <3>2. \A c \in Banks : Pending(t, c) => c = b
        BY DEF Pending
      <3>3. \A c \in Banks : s.on[c] # Unset => active[c] \subseteq {s.off[c], s.on[c]}
        BY <2>1, <2>3, <2>5, <2>8 DEF TxnOK
      <3>4. \A c \in Banks :
               s.off[c] # Unset /\ s.on[c] = Unset /\ ~ Pending(s, c) => s.off[c] \notin active[c]
        BY <2>1, <2>5, <2>6, <2>8, <3>2 DEF TxnOK
      <3>5. \A c \in Banks : Ahead(s, c) => s.on[c] = Unset
        BY <2>1, <2>5, <2>8, <3>1 DEF TxnOK
      <3> QED BY <2>1, <2>2, <2>8, <3>3, <3>4, <3>5 DEF TxnOK
    <2>10. \A c \in Banks, v \in Versions :
              v \in {s.off[c], s.on[c], s.kept[c]} => Wrote(p, c, v) \/ RowFree(p, c, v)
      BY <2>1, <2>5, <2>8 DEF Wrote
    <2>11. \A c \in Banks : s.on[c] # Unset => sync[p].on[c] # Unset \/ IndexFree(p, c)
      BY <2>1, <2>5, <2>8
    <2> HIDE DEF t
    <2> QED BY <2>1, <2>4, <2>8, <2>9, <2>10, <2>11, SyncMoves
  <1> QED BY <1>1, <1>2

\* The change is audited.
LEMMA AuditKeeps ==
    ASSUME ConfigInv, NEW p \in Procs, AuditChange(p)
    PROVE  ConfigInv'
  <1> DEFINE t == sync[p]
  <1>1. t \in Txn /\ TxnOK(t) /\ t.at = "audit"
    BY TxnFacts DEF AuditChange
  <1>2. /\ sync' = [sync EXCEPT ![p] = Onward(t)]
        /\ UNCHANGED <<dir, stamp, reg, active, lastMade>>
    BY DEF AuditChange, configTable
  <1>3. /\ Onward(t) \in Txn /\ TxnOK(Onward(t))
        /\ Onward(t).off = t.off /\ Onward(t).on = t.on /\ Onward(t).kept = t.kept
    BY <1>1, OnwardFacts
  <1> QED BY <1>2, <1>3, SyncReads

\* COMMIT: of each bank that was written, the one version turned on is left.
LEMMA CommitKeeps ==
    ASSUME ConfigInv, NEW p \in Procs, CommitSync(p)
    PROVE  ConfigInv'
  <1> DEFINE t == sync[p]
  <1>1. t \in Txn /\ TxnOK(t) /\ t.at = "synced"
    BY TxnFacts DEF CommitSync
  <1>2. /\ active' = [b \in Banks |-> (active[b] \ {t.off[b]}) \cup ({t.on[b]} \ {Unset})]
        /\ lastMade' = [b \in Banks |-> IF t.on[b] # Unset THEN t.on[b] ELSE lastMade[b]]
        /\ sync' = [sync EXCEPT ![p] = NoTxn]
        /\ UNCHANGED <<dir, stamp, reg>>
    BY DEF CommitSync
  <1>3. sync \in [Procs -> Txn] /\ active \in [Banks -> SUBSET Versions] /\ lastMade \in Marks
    BY DEF ConfigInv, ConfigTypeOK
  <1>4. ASSUME NEW b \in Banks, t.on[b] = Unset
        PROVE  active'[b] = active[b] /\ lastMade'[b] = lastMade[b]
    <2>1. t.off[b] \notin active[b]
      <3>1. CASE t.off[b] = Unset
        BY <1>3, <3>1, UnsetApart
      <3>2. CASE t.off[b] # Unset
        BY <1>1, <1>4, <3>2 DEF TxnOK, Pending
      <3> QED BY <3>1, <3>2
    <2> QED BY <1>2, <1>4, <2>1
  <1>5. ASSUME NEW b \in Banks, t.on[b] # Unset
        PROVE  active'[b] = {t.on[b]} /\ lastMade'[b] = t.on[b] /\ t.on[b] \in Versions
    <2>1. active[b] \subseteq {t.off[b], t.on[b]}
      BY <1>1, <1>5 DEF TxnOK
    <2>2. t.on[b] \in Versions
      BY <1>1, <1>5 DEF Txn, Marks
    <2> QED BY <1>2, <1>5, <2>1, <2>2
  <1>6. ActiveIsMade'
    <2> SUFFICES ASSUME NEW b \in Banks
                 PROVE  active'[b] = {lastMade'[b]} \ {Unset}
      BY DEF ActiveIsMade
    <2>1. CASE t.on[b] = Unset
      BY <1>4, <2>1 DEF ConfigInv, ActiveIsMade
    <2>2. CASE t.on[b] # Unset
      BY <1>5, <2>2
    <2> QED BY <2>1, <2>2
  <1>7. active' \in [Banks -> SUBSET Versions] /\ lastMade' \in Marks
    BY <1>1, <1>2, <1>3 DEF Txn, Marks
  <1>8. /\ NoTxn \in Txn /\ TxnOK(NoTxn)'
        /\ \A b \in Banks : NoTxn.on[b] = Unset
        /\ \A b \in Banks, v \in Versions : v \notin {NoTxn.off[b], NoTxn.on[b], NoTxn.kept[b]}
    <2>1. \A b \in Banks : Nowhere[b] = Unset
      BY DEF Nowhere
    <2> HIDE DEF NoTxn
    <2> QED BY <2>1, NoTxnFacts, UnsetApart DEF TxnOK
  <1> HIDE DEF NoTxn
  <1>9. sync'[p] = NoTxn /\ \A q \in Procs \ {p} : sync'[q] = sync[q]
    BY <1>2, <1>3
  <1>10. ConfigTypeOK'
    BY <1>2, <1>3, <1>7, <1>8 DEF ConfigInv, ConfigTypeOK
  <1>11. RowsApart' /\ OneActivator'
    <2>1. /\ \A b \in Banks, v \in Versions : ~ Wrote(p, b, v)'
          /\ \A q \in Procs \ {p}, b \in Banks, v \in Versions : Wrote(q, b, v)' <=> Wrote(q, b, v)
      BY <1>8, <1>9 DEF Wrote
    <2>2. RowsApart /\ OneActivator
      BY DEF ConfigInv
    <2>3. RowsApart'
      BY <2>1, <2>2 DEF RowsApart
    <2>4. OneActivator'
      BY <1>8, <1>9, <2>2 DEF OneActivator
    <2> QED BY <2>3, <2>4
  <1>12. \A q \in Procs : TxnOK(sync[q])'
    <2> SUFFICES ASSUME NEW q \in Procs
                 PROVE  TxnOK(sync[q])'
      OBVIOUS
    <2>1. CASE q = p
      BY <1>8, <1>9, <2>1 DEF TxnOK
    <2>2. CASE q # p
      <3>1. TxnOK(sync[q]) /\ sync[q] \in Txn /\ sync'[q] = sync[q]
        BY <1>9, <2>2, TxnFacts
      <3>2. ASSUME NEW b \in Banks, sync[q].on[b] # Unset
            PROVE  active'[b] = active[b]
        <4>1. t.on[b] = Unset
          BY <2>2, <3>2 DEF ConfigInv, OneActivator
        <4> QED BY <1>4, <4>1
      <3>3. ASSUME NEW b \in Banks, sync[q].off[b] # Unset, sync[q].off[b] \notin active[b]
            PROVE  sync[q].off[b] \notin active'[b]
        <4>1. CASE t.on[b] = Unset
          BY <1>4, <3>3, <4>1
        <4>2. CASE t.on[b] # Unset
          <5>1. sync[q].off[b] \in Versions /\ Wrote(q, b, sync[q].off[b])
            BY <3>1, <3>3 DEF Txn, Marks, Wrote
          <5>2. t.on[b] # sync[q].off[b]
            <6>1. ~ Wrote(p, b, sync[q].off[b])
              BY <2>2, <5>1 DEF ConfigInv, RowsApart
            <6> QED BY <6>1 DEF Wrote
          <5> QED BY <1>5, <4>2, <5>2
        <4> QED BY <4>1, <4>2
      <3> QED BY <3>1, <3>2, <3>3 DEF TxnOK, Pending, Ahead
    <2> QED BY <2>1, <2>2
  <1> QED BY <1>6, <1>10, <1>11, <1>12 DEF ConfigInv

-----------------------------------------------------------------------------
(* The registries.                                                         *)

\* Whatever the registries and the files do, the table's side is untouched.
LEMMA RegistryMoves ==
    ASSUME ConfigInv, dir' \in [Banks -> Versions \cup {"bad"}], stamp' \in Nat,
           reg' \in [Procs -> Registry], UNCHANGED <<active, lastMade, sync>>
    PROVE  ConfigInv'
  <1>1. ConfigTypeOK'
    BY DEF ConfigInv, ConfigTypeOK
  <1>2. \A p \in Procs : TxnOK(sync[p])'
    BY DEF ConfigInv, TxnOK, Pending, Ahead
  <1>3. RowsApart' /\ OneActivator' /\ ActiveIsMade'
    BY DEF ConfigInv, RowsApart, OneActivator, Wrote, ActiveIsMade
  <1> QED BY <1>1, <1>2, <1>3 DEF ConfigInv

\* A registry's live configuration is complete and valid: it is swapped in
\* only when every file was read.
LEMMA RegistryKeeps ==
    ASSUME ConfigInv, NEW p \in Procs, RegistryStep(p)
    PROVE  ConfigInv'
  <1>1. /\ dir \in [Banks -> Versions \cup {"bad"}] /\ stamp \in Nat
        /\ reg \in [Procs -> Registry] /\ reg[p] \in Registry
    BY DEF ConfigInv, ConfigTypeOK
  <1>2. UNCHANGED <<dir, stamp, active, lastMade, sync>>
    BY DEF RegistryStep, BootLoad, BootSign, TakeSignature, ReadFile, Swap, KeepPrevious,
           configTable
  <1>3. Nowhere \in Marks
    BY DEF Nowhere, Marks
  <1>4. reg' \in [Procs -> Registry]
    <2>1. CASE BootLoad(p)
      <3>1. dir \in Config
        BY <1>1, <2>1 DEF BootLoad, Config
      <3> QED BY <1>1, <2>1, <3>1 DEF BootLoad, Registry
    <2>2. CASE BootSign(p)
      BY <1>1, <2>2 DEF BootSign, Registry
    <2>3. CASE TakeSignature(p)
      BY <1>1, <1>3, <2>3 DEF TakeSignature, Registry
    <2>4. ASSUME NEW b \in Banks, ReadFile(p, b)
          PROVE  reg' \in [Procs -> Registry]
      <3> DEFINE v == IF dir[b] = "bad" THEN Unset ELSE dir[b]
                 at == IF dir[b] = "bad" THEN "failed" ELSE "read"
      <3>1. v \in Versions \cup {Unset} /\ at \in {"failed", "read"}
        BY <1>1
      <3>2. reg' = [[reg EXCEPT ![p].fresh[b] = v] EXCEPT ![p].at = at]
        BY <2>4 DEF ReadFile
      <3> HIDE DEF v, at
      <3>3. [reg EXCEPT ![p].fresh[b] = v] \in [Procs -> Registry]
        BY <1>1, <3>1 DEF Registry, Marks
      <3> DEFINE filled == [reg EXCEPT ![p].fresh[b] = v]
      <3>4. reg' = [filled EXCEPT ![p].at = at] /\ filled \in [Procs -> Registry]
        BY <3>2, <3>3
      <3> HIDE DEF filled
      <3> QED BY <3>1, <3>4 DEF Registry
    <2>5. CASE Swap(p)
      <3>1. reg[p].fresh \in Config
        BY <1>1, <2>5 DEF Swap, Registry, Config
      <3> QED BY <1>1, <2>5, <3>1 DEF Swap, Registry
    <2>6. CASE KeepPrevious(p)
      BY <1>1, <2>6 DEF KeepPrevious, Registry
    <2> QED BY <2>1, <2>2, <2>3, <2>4, <2>5, <2>6 DEF RegistryStep
  <1> QED BY <1>1, <1>2, <1>4, RegistryMoves

\* A person's edit.
LEMMA EditKeeps ==
    ASSUME ConfigInv, NEW b \in Banks, NEW v \in Versions \cup {"bad"}, Edit(b, v)
    PROVE  ConfigInv'
  <1>1. /\ dir' \in [Banks -> Versions \cup {"bad"}] /\ stamp' \in Nat
        /\ reg' \in [Procs -> Registry] /\ UNCHANGED <<active, lastMade, sync>>
    BY DEF Edit, ConfigInv, ConfigTypeOK, configTable
  <1> QED BY <1>1, RegistryMoves

-----------------------------------------------------------------------------
(* The invariant.                                                          *)

\* At first no file is loaded and no version is recorded.
LEMMA InitIInv == ConfigInit => ConfigInv
  <1> SUFFICES ASSUME ConfigInit PROVE ConfigInv
    OBVIOUS
  <1> USE DEF ConfigInit
  <1>1. NoTxn \in Txn /\ TxnOK(NoTxn) /\ NoTxn.off = Nowhere /\ NoTxn.on = Nowhere
        /\ NoTxn.kept = Nowhere
    BY NoTxnFacts
  <1>2. Nowhere \in Marks /\ \A b \in Banks : Nowhere[b] = Unset
    BY DEF Nowhere, Marks
  <1>3. ConfigTypeOK
    <2>1. reg \in [Procs -> Registry]
      <3> HIDE DEF Nowhere
      <3> QED BY <1>2 DEF Registry
    <2> HIDE DEF NoTxn, Nowhere
    <2> QED BY <1>1, <1>2, <2>1, ConfigAssumption DEF ConfigTypeOK
  <1>4. \A p \in Procs : TxnOK(sync[p])
    <2> HIDE DEF NoTxn
    <2> QED BY <1>1
  <1>5. RowsApart /\ OneActivator
    <2> HIDE DEF NoTxn, Nowhere
    <2> QED BY <1>1, <1>2, UnsetApart DEF RowsApart, OneActivator, Wrote
  <1>6. ActiveIsMade
    BY DEF ActiveIsMade, Nowhere
  <1> QED BY <1>3, <1>4, <1>5, <1>6 DEF ConfigInv

\* Every step keeps the invariant.
LEMMA StepIInv == ConfigInv /\ [ConfigNext]_configVars => ConfigInv'
  <1> SUFFICES ASSUME ConfigInv, [ConfigNext]_configVars
               PROVE  ConfigInv'
    OBVIOUS
  <1>1. ASSUME NEW b \in Banks, NEW v \in Versions \cup {"bad"}, Edit(b, v)
        PROVE  ConfigInv'
    BY <1>1, EditKeeps
  <1>2. ASSUME NEW p \in Procs, RegistryStep(p) \/ BeginSync(p)
        PROVE  ConfigInv'
    BY <1>2, RegistryKeeps, BeginKeeps
  <1>3. ASSUME NEW p \in Procs, SyncStep(p)
        PROVE  ConfigInv'
    BY <1>3, LookKeeps, OffKeeps, FindKeeps, StampKeeps, SetKeeps, AuditKeeps, CommitKeeps, AbortKeeps
       DEF SyncStep, CancelSync
  <1>4. ASSUME NEW p \in Procs, FailSync(p)
        PROVE  ConfigInv'
    BY <1>4, AbortKeeps DEF FailSync
  <1>5. CASE UNCHANGED configVars
    <2>1. /\ dir' \in [Banks -> Versions \cup {"bad"}] /\ stamp' \in Nat
          /\ reg' \in [Procs -> Registry] /\ UNCHANGED <<active, lastMade, sync>>
      BY <1>5 DEF configVars, ConfigInv, ConfigTypeOK
    <2> QED BY <2>1, RegistryMoves
  <1> QED BY <1>1, <1>2, <1>3, <1>4, <1>5 DEF ConfigNext

\* Files, registries, rows and transactions agree in every reachable state.
THEOREM ConfigsInductive == ConfigSpec => []ConfigInv
  BY InitIInv, StepIInv, PTL DEF ConfigSpec

\* A bank has one active version from its first record on, and it is the one
\* that the last transaction to set is_active audited.
THEOREM ActiveMade == ConfigSpec => []ActiveIsMade
  BY ConfigsInductive, PTL DEF ConfigInv

\* No two open transactions write one row, and no two turn rows of one bank on:
\* the row locks and the unique index, for any number of processes.
THEOREM ActivationsApart == ConfigSpec => [](RowsApart /\ OneActivator)
  BY ConfigsInductive, PTL DEF ConfigInv

-----------------------------------------------------------------------------
(***************************************************************************)
(* Statements.  The text of a statement is its entries' lines between the  *)
(* opening and the closing balance (Laid); lexing keeps, for every field,  *)
(* the line that opened it (Lexed); so the k-th :61: is the k-th entry and *)
(* the :86: directly after it is that entry's own, wrapped or not.  The    *)
(* rows the parsers find are then the entries' (RowsFor), and from there   *)
(* the balances and the transactions are sums over the entries.            *)
(*                                                                         *)
(* First, what FlattenSeq makes of the parts of a text.                    *)
(***************************************************************************)

\* A text that is put together from parts: where each part starts.
Joined(st, parts, n, text) ==
    /\ st \in [1 .. n -> Nat]
    /\ \A k \in 1 .. n : st[k] + Len(parts[k]) <= Len(text)
    /\ \A j, k \in 1 .. n : j < k => st[j] + Len(parts[j]) <= st[k]
    /\ \A k \in 1 .. n : \A i \in 1 .. Len(parts[k]) : text[st[k] + i] = parts[k][i]
    /\ \A p \in 1 .. Len(text) : \E k \in 1 .. n : p \in (st[k] + 1) .. (st[k] + Len(parts[k]))

\* The equation by which FlattenSeq is defined.
Grown(g, parts, i) == IF i = 1 THEN parts[i] ELSE g[i - 1] \o parts[i]
Flattens(g, parts, n) == g = [i \in 1 .. n |-> Grown(g, parts, i)]

\* The equation has a solution for any number of parts.
LEMMA FlattenExists ==
    ASSUME NEW parts, NEW m \in Nat
    PROVE  \E g : Flattens(g, parts, m)
<1> DEFINE P == {n \in Nat : \E g : Flattens(g, parts, n)}
<1>1. 0 \in P
  <2>1. Flattens([i \in 1 .. 0 |-> 0], parts, 0)
    BY DEF Flattens, Grown
  <2> QED BY <2>1
<1>2. ASSUME NEW n \in Nat, n \in P PROVE n + 1 \in P
  <2>1. PICK g : Flattens(g, parts, n)
    BY <1>2
  <2> DEFINE h == [i \in 1 .. (n + 1) |-> Grown(g, parts, i)]
  <2>2. \A i \in 1 .. n : h[i] = g[i]
    BY <2>1 DEF Flattens
  <2>3. \A i \in 1 .. (n + 1) : i # 1 => i - 1 \in 1 .. n
    OBVIOUS
  <2>4. \A i \in 1 .. (n + 1) : Grown(h, parts, i) = Grown(g, parts, i)
    <3> HIDE DEF h
    <3>1. \A i \in 1 .. (n + 1) : i # 1 => h[i - 1] = g[i - 1]
      BY <2>2, <2>3
    <3>2. QED
      BY <3>1, Zenon DEF Grown
  <2>5. Flattens(h, parts, n + 1)
    BY <2>4 DEF Flattens
  <2>6. QED
    BY <2>5
<1>3. Nat \subseteq P
  <2> HIDE DEF P
  <2> QED BY <1>1, <1>2, NatSteps
<1>4. QED
  BY <1>3

\* FlattenSeq gives the last value of a solution.
LEMMA FlattenIs ==
    ASSUME NEW S, NEW parts \in Seq(Seq(S)), Len(parts) > 0
    PROVE  \E g : Flattens(g, parts, Len(parts)) /\ FlattenSeq(parts) = g[Len(parts)]
<1> DEFINE it == CHOOSE g : Flattens(g, parts, Len(parts))
<1>1. Len(parts) \in Nat /\ Len(parts) # 0
  OBVIOUS
<1>2. Flattens(it, parts, Len(parts))
  BY <1>1, FlattenExists
<1>3. FlattenSeq(parts) = it[Len(parts)]
  BY <1>1 DEF FlattenSeq, Flattens, Grown
<1>4. QED
  BY <1>2, <1>3

\* One more part.
LEMMA JoinedOneMore ==
    ASSUME NEW S, NEW parts, NEW n \in Nat, \A i \in 1 .. (n + 1) : parts[i] \in Seq(S),
           NEW text \in Seq(S), NEW st, Joined(st, parts, n, text)
    PROVE  \E s : Joined(s, parts, n + 1, text \o parts[n + 1])
<1> DEFINE L == Len(text)
           part == parts[n + 1]
           s == [k \in 1 .. (n + 1) |-> IF k = n + 1 THEN L ELSE st[k]]
           new == text \o part
<1>1. /\ part \in Seq(S) /\ L \in Nat /\ Len(part) \in Nat /\ Len(new) = L + Len(part)
      /\ \A i \in 1 .. L : new[i] = text[i]
      /\ \A i \in 1 .. Len(part) : new[L + i] = part[i]
  OBVIOUS
<1>2. /\ \A k \in 1 .. n : k \in 1 .. (n + 1) /\ k # n + 1 /\ s[k] = st[k] /\ st[k] \in Nat
                           /\ parts[k] \in Seq(S) /\ Len(parts[k]) \in Nat
      /\ s[n + 1] = L /\ \A k \in 1 .. (n + 1) : k \in 1 .. n \/ k = n + 1
  BY DEF Joined
<1>3. \A k \in 1 .. n : st[k] + Len(parts[k]) <= L
  BY DEF Joined
<1> HIDE DEF L, part, s, new
<1>4. s \in [1 .. (n + 1) -> Nat]
  BY <1>1, <1>2 DEF s
<1>5. \A k \in 1 .. (n + 1) : s[k] + Len(parts[k]) <= Len(new)
  BY <1>1, <1>2, <1>3, SMTT(40) DEF part
<1>6. \A j, k \in 1 .. (n + 1) : j < k => s[j] + Len(parts[j]) <= s[k]
  <2>1. ASSUME NEW j \in 1 .. (n + 1), NEW k \in 1 .. (n + 1), j < k
        PROVE  s[j] + Len(parts[j]) <= s[k]
    <3>1. j \in 1 .. n
      BY <2>1
    <3>2. CASE k \in 1 .. n
      BY <1>2, <2>1, <3>1, <3>2 DEF Joined
    <3>3. CASE k = n + 1
      BY <1>2, <1>3, <3>1, <3>3
    <3>4. QED
      BY <1>2, <3>2, <3>3
  <2>2. QED
    BY <2>1
<1>7. ASSUME NEW k \in 1 .. (n + 1), NEW i \in 1 .. Len(parts[k])
      PROVE  new[s[k] + i] = parts[k][i]
  <2>1. CASE k = n + 1
    BY <1>1, <1>2, <2>1 DEF part
  <2>2. CASE k \in 1 .. n
    <3>1. text[st[k] + i] = parts[k][i]
      BY <2>2 DEF Joined
    <3>2. st[k] + i \in 1 .. L
      BY <1>1, <1>2, <1>3, <2>2, SMTT(40)
    <3>3. QED
      BY <1>1, <1>2, <2>2, <3>1, <3>2
  <2>3. QED
    BY <1>2, <2>1, <2>2
<1>8. ASSUME NEW p \in 1 .. Len(new)
      PROVE  \E k \in 1 .. (n + 1) : p \in (s[k] + 1) .. (s[k] + Len(parts[k]))
  <2>1. CASE p <= L
    <3>1. p \in 1 .. L
      BY <1>1, <2>1
    <3>2. PICK k \in 1 .. n : p \in (st[k] + 1) .. (st[k] + Len(parts[k]))
      BY <3>1 DEF Joined, L
    <3>3. QED
      BY <1>2, <3>2
  <2>2. CASE p > L
    <3>1. n + 1 \in 1 .. (n + 1) /\ p \in (L + 1) .. (L + Len(part))
      BY <1>1, <2>2
    <3>2. QED
      BY <1>2, <3>1 DEF part
  <2>3. QED
    BY <1>1, <2>1, <2>2
<1>9. Joined(s, parts, n + 1, new)
  BY <1>4, <1>5, <1>6, <1>7, <1>8 DEF Joined
<1>10. QED
  BY <1>9 DEF new, part

\* What FlattenSeq returns is its parts, one after the other.
LEMMA Flattened ==
    ASSUME NEW S, NEW parts \in Seq(Seq(S))
    PROVE  /\ FlattenSeq(parts) \in Seq(S)
           /\ \E st : Joined(st, parts, Len(parts), FlattenSeq(parts))
           /\ Len(parts) = 1 => FlattenSeq(parts) = parts[1]
<1> DEFINE m == Len(parts)
<1>1. m \in Nat /\ \A i \in 1 .. m : parts[i] \in Seq(S)
  OBVIOUS
<1>2. CASE m = 0
  <2>1. FlattenSeq(parts) = parts /\ parts = <<>>
    BY <1>2 DEF FlattenSeq
  <2>2. Joined(<<>>, parts, 0, <<>>)
    BY DEF Joined
  <2>3. QED
    BY <1>2, <2>1, <2>2
<1>3. CASE m # 0
  <2>1. PICK g : Flattens(g, parts, m) /\ FlattenSeq(parts) = g[m]
    BY <1>1, <1>3, FlattenIs
  <2> DEFINE P == {n \in Nat : n + 1 <= m => g[n + 1] \in Seq(S) /\ \E st : Joined(st, parts, n + 1, g[n + 1])}
  <2>2. 1 \in 1 .. m /\ g[1] = parts[1]
    BY <1>1, <1>3, <2>1 DEF Flattens, Grown
  <2>3. 0 \in P
    <3>1. Joined(<<>>, parts, 0, <<>>)
      BY DEF Joined
    <3>2. \A i \in 1 .. (0 + 1) : parts[i] \in Seq(S)
      BY <1>1, <2>2
    <3>3. \E st : Joined(st, parts, 0 + 1, <<>> \o parts[0 + 1])
      <4>1. 0 \in Nat /\ <<>> \in Seq(S)
        OBVIOUS
      <4>2. QED
        BY <3>1, <3>2, <4>1, JoinedOneMore
    <3>4. <<>> \o parts[1] = parts[1] /\ parts[1] \in Seq(S)
      BY <1>1, <2>2
    <3>5. QED
      BY <2>2, <3>3, <3>4
  <2>4. ASSUME NEW n \in Nat, n \in P PROVE n + 1 \in P
    <3> SUFFICES ASSUME (n + 1) + 1 <= m
                 PROVE  g[(n + 1) + 1] \in Seq(S) /\ \E st : Joined(st, parts, (n + 1) + 1, g[(n + 1) + 1])
      OBVIOUS
    <3>1. g[n + 1] \in Seq(S) /\ \E st : Joined(st, parts, n + 1, g[n + 1])
      BY <1>1, <2>4
    <3>2. (n + 1) + 1 \in 1 .. m /\ (n + 1) + 1 # 1 /\ ((n + 1) + 1) - 1 = n + 1
      BY <1>1
    <3>3. g[(n + 1) + 1] = g[n + 1] \o parts[(n + 1) + 1]
      BY <2>1, <3>2 DEF Flattens, Grown
    <3>4. \A i \in 1 .. ((n + 1) + 1) : parts[i] \in Seq(S)
      BY <1>1
    <3>5. n + 1 \in Nat
      OBVIOUS
    <3>6. \E st : Joined(st, parts, (n + 1) + 1, g[(n + 1) + 1])
      BY <3>1, <3>3, <3>4, <3>5, JoinedOneMore
    <3>7. QED
      BY <3>1, <3>2, <3>3, <3>4, <3>6
  <2>5. Nat \subseteq P
    <3> HIDE DEF P
    <3> QED BY <2>3, <2>4, NatSteps
  <2>6. m - 1 \in P /\ (m - 1) + 1 = m
    <3>1. m - 1 \in Nat /\ (m - 1) + 1 = m
      BY <1>1, <1>3
    <3>2. QED
      BY <2>5, <3>1
  <2>7. g[m] \in Seq(S) /\ \E st : Joined(st, parts, m, g[m])
    BY <1>1, <2>6
  <2>8. QED
    BY <2>1, <2>2, <2>7
<1>4. QED
  BY <1>2, <1>3

-----------------------------------------------------------------------------
(* The lines of an entry and of a statement.                               *)

\* What a file is written in.
Tags == {"20", "60F", "61", "62F", "86", "untagged", "blank"}
Balances == [mark : {"C", "D"}, ccy : Currencies, text : Nat]
Bodies == Balances \cup STRING \cup BankEntry \cup {"text", "reference", "remark"}
TextLine == [tag : Tags, body : Bodies]

\* A line of the file, with what it holds.
LEMMA LineIn ==
    ASSUME NEW tag \in Tags, NEW body,
           \/ body \in Balances \/ body \in STRING \/ body \in BankEntry
           \/ body \in {"text", "reference", "remark"}
    PROVE  Line(tag, body) \in TextLine /\ Line(tag, body).tag = tag /\ Line(tag, body).body = body
<1>1. body \in Bodies
  BY DEF Bodies
<1>2. QED
  BY <1>1 DEF Line, TextLine

\* An amount written in thousandths is read as it was, in every currency.
LEMMA WrittenRead ==
    ASSUME NEW c \in Currencies, NEW a \in Nat
    PROVE  /\ MinorUnit(c) \in Nat /\ a * MinorUnit(c) \in Nat
           /\ _to_minor(a * MinorUnit(c), c) = a
           /\ c # None
<1>1. /\ Pow10(0) = 1 /\ Pow10(1) = 10 /\ Pow10(3) = 1000 /\ Pow10(2) = 100
      /\ _CURRENCY_EXPONENTS[c] \in {0, 2, 3} /\ c # None
  BY DEF Pow10, Currencies, _CURRENCY_EXPONENTS, None
<1> DEFINE n == a * 1000
<1>2. RoundHalfEven(n, 1000) = a
  <2>1. n \div 1000 = a /\ n % 1000 = 0
    OBVIOUS
  <2> HIDE DEF n
  <2>2. QED
    BY <2>1 DEF RoundHalfEven
<1>3. /\ MinorUnit(c) \in {1, 10, 1000}
      /\ (a * MinorUnit(c)) * Pow10(_CURRENCY_EXPONENTS[c]) = n
  <2>1. CASE _CURRENCY_EXPONENTS[c] = 0
    BY <1>1, <2>1 DEF MinorUnit
  <2>2. CASE _CURRENCY_EXPONENTS[c] = 2
    BY <1>1, <2>2 DEF MinorUnit
  <2>3. CASE _CURRENCY_EXPONENTS[c] = 3
    BY <1>1, <2>3 DEF MinorUnit
  <2>4. QED
    BY <1>1, <2>1, <2>2, <2>3
<1>4. MinorUnit(c) \in Nat /\ a * MinorUnit(c) \in Nat
  BY <1>3
<1>5. _to_minor(a * MinorUnit(c), c) = a
  BY <1>2, <1>3 DEF _to_minor
<1>6. QED
  BY <1>1, <1>4, <1>5

\* A balance that is stated is read as it was, with its sign.
LEMMA SignedStated ==
    ASSUME NEW s, s.ccy \in Currencies, NEW n \in Int
    PROVE  /\ Stated(s, n) \in Balances /\ Stated(s, n).ccy = s.ccy
           /\ Signed(Stated(s, n)) = n
<1> DEFINE a == Distance(n, 0)
           text == a * MinorUnit(s.ccy)
           b == [mark |-> IF n < 0 THEN "D" ELSE "C", ccy |-> s.ccy, text |-> text]
<1>1. a \in Nat /\ (n < 0 => n = -a) /\ (n >= 0 => n = a)
  BY DEF Distance
<1>2. Stated(s, n) = b
  BY DEF Stated
<1> HIDE DEF a
<1>3. text \in Nat /\ _to_minor(text, s.ccy) = a
  BY <1>1, WrittenRead
<1> HIDE DEF text
<1>4. b \in Balances /\ b.ccy = s.ccy /\ b.text = text /\ b.mark = IF n < 0 THEN "D" ELSE "C"
  BY <1>3 DEF Balances
<1>5. Signed(b) = _SIGN[b.mark] * a
  BY <1>3, <1>4 DEF Signed
<1>6. _SIGN[b.mark] = IF n < 0 THEN -1 ELSE 1
  BY <1>4 DEF _SIGN
<1> HIDE DEF b
<1>7. QED
  BY <1>1, <1>2, <1>4, <1>5, <1>6

\* What an entry does to the account is a number.
LEMMA TotalInt ==
    ASSUME NEW es \in Seq(BankEntry), NEW ks, ks \subseteq DOMAIN es
    PROVE  /\ IsFiniteSet(ks) /\ \A k \in ks : es[k] \in BankEntry /\ Effect(es[k]) \in Int
           /\ Total(es, ks) = SumFunctionOnSet([k \in ks |-> Effect(es[k])], ks)
           /\ Total(es, ks) \in Int
<1>1. DOMAIN es = 1 .. Len(es) /\ Len(es) \in Int
  OBVIOUS
<1>2. IsFiniteSet(ks)
  BY <1>1, FS_Interval, FS_Subset
<1>3. \A k \in ks : es[k] \in BankEntry
  BY <1>1
<1>4. \A e \in BankEntry : Effect(e) \in Int
  BY DEF Effect, BankEntry
<1> DEFINE f == [k \in ks |-> Effect(es[k])]
<1>5. DOMAIN f = ks /\ \A k \in ks : f[k] \in Int
  BY <1>3, <1>4
<1>6. Total(es, ks) = SumFunctionOnSet(f, ks)
  BY <1>5 DEF Total, SumFunction
<1> HIDE DEF f
<1>7. SumFunctionOnSet(f, ks) \in Int
  BY <1>2, <1>5, SumInt
<1>8. QED
  BY <1>2, <1>3, <1>4, <1>6, <1>7 DEF f

\* The lines of an entry: its :61:, lines without a tag, its :86: if it has one.
LEMMA EntryShape ==
    ASSUME NEW s, NEW e \in BankEntry, NEW B, B = EntryLines(s, e)
    PROVE  /\ B \in Seq(TextLine) /\ Len(B) \in Nat \ {0} /\ B[1] = Line("61", e)
           /\ \A i \in 2 .. Len(B) :
                 \/ B[i].tag \in {"untagged", "blank"}
                 \/ e.note # None /\ i = Len(B) /\ B[i] = Line("86", e.note)
           /\ e.note # None => Len(B) > 1 /\ B[Len(B)] = Line("86", e.note)
<1> DEFINE first == Line("61", e)
           last == Line("86", e.note)
           item == IF s.layout = "wrapped" THEN <<first, Wrapped, Blank>> ELSE <<first>>
<1>1. first \in TextLine /\ last \in TextLine /\ Wrapped \in TextLine /\ Blank \in TextLine
  <2>1. e.note \in STRING
    BY DEF BankEntry
  <2>2. "61" \in Tags /\ "86" \in Tags /\ "untagged" \in Tags /\ "blank" \in Tags
    BY DEF Tags
  <2>3. first \in TextLine /\ last \in TextLine
    BY <2>1, <2>2, LineIn, Zenon
  <2>4. Wrapped \in TextLine /\ Blank \in TextLine
    BY <2>2, LineIn, Zenon DEF Wrapped, Blank
  <2>5. QED
    BY <2>3, <2>4
<1>2. Wrapped.tag = "untagged" /\ Blank.tag = "blank"
  BY DEF Wrapped, Blank, Line
<1>3. B = IF e.note = None THEN item ELSE Append(item, last)
  BY DEF EntryLines
<1> HIDE DEF first, last
<1>4. /\ item \in Seq(TextLine) /\ Len(item) > 0 /\ item[1] = first
      /\ \A i \in 2 .. Len(item) : item[i].tag \in {"untagged", "blank"}
  <2>1. CASE s.layout = "wrapped"
    <3>1. item = <<first, Wrapped, Blank>>
      BY <2>1
    <3>2. \A i \in 2 .. Len(item) : item[i] \in {Wrapped, Blank}
      BY <1>1, <3>1
    <3>3. QED
      BY <1>1, <1>2, <3>1, <3>2
  <2>2. CASE s.layout # "wrapped"
    <3>1. item = <<first>>
      BY <2>2
    <3>2. \A i \in 2 .. Len(item) : FALSE
      BY <1>1, <3>1
    <3>3. QED
      BY <1>1, <1>2, <3>1, <3>2
  <2>3. QED
    BY <2>1, <2>2
<1> HIDE DEF item
<1>5. /\ Len(item) \in Nat /\ Append(item, last) \in Seq(TextLine)
      /\ Len(Append(item, last)) = Len(item) + 1
      /\ Append(item, last)[Len(item) + 1] = last
      /\ \A i \in 1 .. Len(item) : Append(item, last)[i] = item[i]
  BY <1>1, <1>4
<1>6. CASE e.note = None
  BY <1>3, <1>4, <1>6 DEF first
<1>7. CASE e.note # None
  <2>1. B = Append(item, last)
    BY <1>3, <1>7
  <2>2. \A i \in 2 .. Len(B) : i \in 2 .. Len(item) \/ i = Len(item) + 1
    BY <1>5, <2>1
  <2>3. QED
    BY <1>4, <1>5, <1>7, <2>1, <2>2 DEF first, last
<1>8. QED
  BY <1>6, <1>7

\* The lines of a statement: what is before the entries, the entries, the
\* closing balance, and what is after it.
Shape(s, T, F, a) ==
    /\ T \in Seq(TextLine) /\ F \in Seq(TextLine) /\ a \in Nat /\ Len(T) > a + Len(F)
    /\ \A p \in 1 .. a : /\ T[p].tag \notin {"61", "86", "62F", "62M"}
                         /\ T[p].tag \in {"60F", "60M"} => T[p].body = Opening(s)
    /\ \A i \in 1 .. Len(F) : T[a + i] = F[i]
    /\ T[a + Len(F) + 1] = Line("62F", Closing(s))
    /\ \A p \in 1 .. Len(T) : p > a + Len(F) + 1 => T[p].tag \in {"untagged", "86"}

\* Such are the lines StatementLines gives.
LEMMA StatementShape ==
    ASSUME NEW s \in BankStatement, NEW F \in Seq(TextLine),
           F = FlattenSeq([j \in 1 .. Len(s.entries) |-> EntryLines(s, s.entries[j])])
    PROVE  \E a : Shape(s, StatementLines(s), F, a)
<1> DEFINE L20 == Line("20", "reference")
           L60 == Line("60F", Opening(s))
           L62 == Line("62F", Closing(s))
           L86 == Line("86", "remark")
           T == StatementLines(s)
<1>1. Opening(s) \in Balances /\ Closing(s) \in Balances
  <2>1. s.opening \in Int /\ s.slip \in Int /\ s.entries \in Seq(BankEntry) /\ s.ccy \in Currencies
    BY DEF BankStatement
  <2>2. Total(s.entries, DOMAIN s.entries) \in Int
    BY <2>1, TotalInt
  <2>3. s.opening + Total(s.entries, DOMAIN s.entries) + s.slip \in Int
    BY <2>1, <2>2
  <2>4. QED
    BY <2>1, <2>3, SignedStated DEF Opening, Closing
<1>2. /\ {L20, L60, L62, L86, Wrapped} \subseteq TextLine
      /\ L20.tag = "20" /\ L60.tag = "60F" /\ L60.body = Opening(s)
      /\ L62.tag = "62F" /\ L86.tag = "86" /\ Wrapped.tag = "untagged"
  <2>1. "20" \in Tags /\ "60F" \in Tags /\ "62F" \in Tags /\ "86" \in Tags /\ "untagged" \in Tags
    BY DEF Tags
  <2>2. L20 \in TextLine /\ L60 \in TextLine /\ L62 \in TextLine /\ L86 \in TextLine
    BY <1>1, <2>1, LineIn, Zenon
  <2>3. Wrapped \in TextLine
    BY <2>1, LineIn, Zenon DEF Wrapped
  <2>4. QED
    BY <2>2, <2>3 DEF Wrapped, Line
<1> HIDE DEF L20, L60, L62, L86
<1> DEFINE A == IF s.layout = "headless" THEN <<Wrapped, L20, L60>> ELSE <<L20, L60>>
           C == CASE s.layout = "dashed" -> <<L62, Wrapped>>
                  [] s.layout = "wrapped" -> <<L62, L86>>
                  [] OTHER -> <<L62>>
<1>3. /\ A \in Seq(TextLine)
      /\ \A p \in 1 .. Len(A) : /\ A[p].tag \notin {"61", "86", "62F", "62M"}
                                /\ A[p].tag \in {"60F", "60M"} => A[p].body = Opening(s)
  BY <1>2
<1>4. /\ C \in Seq(TextLine) /\ Len(C) > 0 /\ C[1] = L62
      /\ \A p \in 2 .. Len(C) : C[p].tag \in {"untagged", "86"}
  BY <1>2
<1>5. T = (A \o F) \o C
  BY DEF StatementLines, L20, L60, L62, L86
<1> HIDE DEF A, C, T
<1> DEFINE X == A \o F
<1>6. /\ X \in Seq(TextLine) /\ Len(X) = Len(A) + Len(F)
      /\ \A p \in 1 .. Len(A) : X[p] = A[p]
      /\ \A i \in 1 .. Len(F) : X[Len(A) + i] = F[i]
  BY <1>3
<1>7. T = X \o C
  BY <1>5
<1> HIDE DEF X
<1>8. \A U \in Seq(TextLine), V \in Seq(TextLine) :
         /\ U \o V \in Seq(TextLine) /\ Len(U \o V) = Len(U) + Len(V)
         /\ \A p \in 1 .. Len(U) : (U \o V)[p] = U[p]
         /\ \A i \in 1 .. Len(V) : (U \o V)[Len(U) + i] = V[i]
  OBVIOUS
<1>9. /\ T \in Seq(TextLine) /\ Len(T) = Len(X) + Len(C)
      /\ \A p \in 1 .. Len(X) : T[p] = X[p]
      /\ \A i \in 1 .. Len(C) : T[Len(X) + i] = C[i]
  <2>1. X \in Seq(TextLine) /\ C \in Seq(TextLine)
    BY <1>4, <1>6
  <2>2. /\ X \o C \in Seq(TextLine) /\ Len(X \o C) = Len(X) + Len(C)
        /\ \A p \in 1 .. Len(X) : (X \o C)[p] = X[p]
        /\ \A i \in 1 .. Len(C) : (X \o C)[Len(X) + i] = C[i]
    BY <1>8, <2>1
  <2>3. QED
    BY <1>7, <2>2
<1>10. /\ Len(A) \in Nat /\ Len(F) \in Nat /\ Len(C) \in Nat
       /\ Len(X) \in Nat /\ Len(T) \in Nat
  BY <1>3, <1>4, <1>6, <1>9
<1>11. \A p \in 1 .. Len(A) : T[p] = A[p]
  BY <1>6, <1>9, <1>10, SMTT(40)
<1>12. \A i \in 1 .. Len(F) : T[Len(A) + i] = F[i]
  BY <1>6, <1>9, <1>10, SMTT(40)
<1>13. T[Len(A) + Len(F) + 1] = L62
  BY <1>4, <1>6, <1>9, <1>10
<1>14. \A p \in 1 .. Len(T) : p > Len(A) + Len(F) + 1 => T[p].tag \in {"untagged", "86"}
  <2>1. ASSUME NEW p \in 1 .. Len(T), p > Len(A) + Len(F) + 1 PROVE T[p].tag \in {"untagged", "86"}
    <3>1. p - Len(X) \in 2 .. Len(C) /\ Len(X) + (p - Len(X)) = p
      BY <1>6, <1>9, <1>10, <2>1
    <3>2. T[p] = C[p - Len(X)]
      BY <1>9, <1>10, <3>1, SMTT(40)
    <3>3. QED
      BY <1>4, <3>1, <3>2
  <2>2. QED
    BY <2>1
<1>15. Len(T) > Len(A) + Len(F)
  BY <1>4, <1>6, <1>9, <1>10
<1>16. Shape(s, T, F, Len(A))
  BY <1>3, <1>9, <1>10, <1>11, <1>12, <1>13, <1>14, <1>15 DEF Shape, L62
<1>17. QED
  BY <1>16 DEF T

\* Lines that open no field.
Plain == {"untagged", "blank"}

\* Where the entries of statement s are in its text T, the narration of each
\* being the next field after it, and what the balances hold.
Laid(s, T, pos) ==
    /\ T \in Seq(TextLine)
    /\ pos \in [1 .. Len(s.entries) -> 1 .. Len(T)]
    /\ \A j, k \in 1 .. Len(s.entries) : j < k => pos[j] < pos[k]
    /\ \A k \in 1 .. Len(s.entries) : T[pos[k]] = Line("61", s.entries[k])
    /\ \A p \in 1 .. Len(T) : T[p].tag = "61" => \E k \in 1 .. Len(s.entries) : p = pos[k]
    /\ \A k \in 1 .. Len(s.entries) : \E q \in 1 .. Len(T) :
          /\ pos[k] < q /\ T[q].tag \notin Plain
          /\ \A p \in 1 .. Len(T) : pos[k] < p /\ p < q => T[p].tag \in Plain
          /\ IF s.entries[k].note = None THEN T[q].tag # "86" ELSE T[q] = Line("86", s.entries[k].note)
    /\ \A p \in 1 .. Len(T) : /\ T[p].tag \in {"60F", "60M"} => T[p].body = Opening(s)
                              /\ T[p].tag \in {"62F", "62M"} => T[p].body = Closing(s)

\* The lines of every statement are laid out so, whatever its layout.
LEMMA StatementLaid ==
    ASSUME NEW s \in BankStatement
    PROVE  \E pos : Laid(s, StatementLines(s), pos)
<1> DEFINE es == s.entries
           n == Len(es)
           EB == [j \in 1 .. n |-> EntryLines(s, es[j])]
           F == FlattenSeq(EB)
           T == StatementLines(s)
<1>1. es \in Seq(BankEntry) /\ n \in Nat /\ \A k \in 1 .. n : es[k] \in BankEntry
  BY DEF BankStatement
<1> HIDE DEF es
<1>2. \A k \in 1 .. n :
         /\ EB[k] \in Seq(TextLine) /\ Len(EB[k]) \in Nat /\ Len(EB[k]) > 0
         /\ EB[k][1] = Line("61", es[k])
         /\ \A i \in 2 .. Len(EB[k]) :
               \/ EB[k][i].tag \in Plain
               \/ es[k].note # None /\ i = Len(EB[k]) /\ EB[k][i] = Line("86", es[k].note)
         /\ es[k].note # None => Len(EB[k]) > 1 /\ EB[k][Len(EB[k])] = Line("86", es[k].note)
  <2>1. ASSUME NEW k \in 1 .. n, NEW B, B = EntryLines(s, es[k])
        PROVE  /\ B \in Seq(TextLine) /\ Len(B) \in Nat /\ Len(B) > 0 /\ B[1] = Line("61", es[k])
               /\ \A i \in 2 .. Len(B) :
                    \/ B[i].tag \in Plain
                    \/ es[k].note # None /\ i = Len(B) /\ B[i] = Line("86", es[k].note)
               /\ es[k].note # None => Len(B) > 1 /\ B[Len(B)] = Line("86", es[k].note)
    <3> DEFINE e == es[k]
    <3>1. e \in BankEntry
      BY <1>1
    <3>2. B = EntryLines(s, e)
      BY <2>1
    <3> HIDE DEF e
    <3>3. /\ B \in Seq(TextLine) /\ Len(B) \in Nat \ {0} /\ B[1] = Line("61", e)
          /\ \A i \in 2 .. Len(B) :
                 \/ B[i].tag \in {"untagged", "blank"}
                 \/ e.note # None /\ i = Len(B) /\ B[i] = Line("86", e.note)
          /\ e.note # None => Len(B) > 1 /\ B[Len(B)] = Line("86", e.note)
      BY <3>1, <3>2, EntryShape
    <3>4. Len(B) \in Nat /\ Len(B) > 0
      BY <3>3
    <3>5. QED
      BY <3>3, <3>4, Zenon DEF e, Plain
  <2>2. \A k \in 1 .. n : EB[k] = EntryLines(s, es[k])
    OBVIOUS
  <2> HIDE DEF EB, n
  <2>3. QED
    BY <2>1, <2>2, Zenon
<1>3. EB \in Seq(Seq(TextLine)) /\ Len(EB) = n
  BY <1>1, <1>2
<1>4. F \in Seq(TextLine) /\ \E st : Joined(st, EB, n, F)
  <2> HIDE DEF EB
  <2> QED BY <1>3, Flattened
<1>5. PICK st : Joined(st, EB, n, F)
  BY <1>4
<1>6. PICK a : Shape(s, T, F, a)
  BY <1>4, StatementShape DEF es
<1> HIDE DEF EB, n, F, T
<1>7. /\ T \in Seq(TextLine) /\ Len(T) \in Nat /\ a \in Nat /\ Len(F) \in Nat /\ Len(T) > a + Len(F)
      /\ \A i \in 1 .. Len(F) : T[a + i] = F[i]
      /\ T[a + Len(F) + 1] = Line("62F", Closing(s))
      /\ \A p \in 1 .. Len(T) : p > a + Len(F) + 1 => T[p].tag \in {"untagged", "86"}
  BY <1>6 DEF Shape
<1>n. Len(T) \in Nat /\ a \in Nat /\ Len(F) \in Nat /\ Len(T) > a + Len(F)
  BY <1>7
<1>8. \A p \in 1 .. a : /\ T[p].tag \notin {"61", "86", "62F", "62M"}
                        /\ T[p].tag \in {"60F", "60M"} => T[p].body = Opening(s)
  BY <1>6 DEF Shape
<1>9. \A k \in 1 .. n : st[k] \in Nat /\ st[k] + Len(EB[k]) <= Len(F)
  BY <1>5 DEF Joined
<1>10. \A j, k \in 1 .. n : j < k => st[j] + Len(EB[j]) <= st[k]
  BY <1>5 DEF Joined
<1>11. \A k \in 1 .. n : \A i \in 1 .. Len(EB[k]) : T[a + st[k] + i] = EB[k][i]
  <2>1. ASSUME NEW k \in 1 .. n, NEW i \in 1 .. Len(EB[k])
        PROVE  T[a + st[k] + i] = EB[k][i]
    <3>1. F[st[k] + i] = EB[k][i]
      BY <1>5 DEF Joined
    <3>2. st[k] + i \in 1 .. Len(F) /\ a + (st[k] + i) = a + st[k] + i
      <4>1. st[k] \in Nat /\ Len(EB[k]) \in Nat /\ st[k] + Len(EB[k]) <= Len(F)
        BY <1>2, <1>9
      <4>2. QED
        BY <1>n, <4>1, SMTT(40)
    <3>3. QED
      BY <1>7, <3>1, <3>2
  <2>2. QED
    BY <2>1
<1>12. \A p \in 1 .. Len(F) : \E k \in 1 .. n : p \in (st[k] + 1) .. (st[k] + Len(EB[k]))
  BY <1>5 DEF Joined
\* Every line is one of these.
<1>13. ASSUME NEW p \in 1 .. Len(T)
       PROVE  \/ p \in 1 .. a
              \/ \E k \in 1 .. n : \E i \in 1 .. Len(EB[k]) : p = a + st[k] + i /\ T[p] = EB[k][i]
              \/ p = a + Len(F) + 1
              \/ p > a + Len(F) + 1
  <2>1. CASE p > a /\ p <= a + Len(F)
    <3>1. p - a \in 1 .. Len(F)
      BY <1>7, <2>1
    <3>2. PICK k \in 1 .. n : p - a \in (st[k] + 1) .. (st[k] + Len(EB[k]))
      BY <1>12, <3>1
    <3> DEFINE i == p - a - st[k]
    <3>3. i \in 1 .. Len(EB[k]) /\ p = a + st[k] + i
      BY <1>2, <1>7, <1>9, <3>2, SMTT(40)
    <3> HIDE DEF i
    <3>4. T[p] = EB[k][i]
      BY <1>11, <3>3
    <3>5. QED
      BY <3>3, <3>4
  <2>2. QED
    BY <1>7, <2>1
<1> DEFINE pos == [k \in 1 .. n |-> a + st[k] + 1]
<1>14. \A k \in 1 .. n : /\ pos[k] = a + st[k] + 1 /\ pos[k] \in 1 .. Len(T)
                         /\ T[pos[k]] = Line("61", es[k])
  <2>1. ASSUME NEW k \in 1 .. n
        PROVE  pos[k] = a + st[k] + 1 /\ pos[k] \in 1 .. Len(T) /\ T[pos[k]] = Line("61", es[k])
    <3>1. pos[k] = a + st[k] + 1
      OBVIOUS
    <3>2. 1 \in 1 .. Len(EB[k]) /\ pos[k] \in 1 .. Len(T)
      BY <1>2, <1>7, <1>9, <3>1, SMTT(40)
    <3>3. QED
      BY <1>2, <1>11, <3>1, <3>2
  <2>2. QED
    BY <2>1
<1>15. pos \in [1 .. n -> 1 .. Len(T)]
  <2>1. pos = [k \in 1 .. n |-> pos[k]]
    OBVIOUS
  <2> HIDE DEF pos
  <2>2. QED
    BY <1>14, <2>1
<1> HIDE DEF pos
<1>16. \A j, k \in 1 .. n : j < k => pos[j] < pos[k]
  <2>1. ASSUME NEW j \in 1 .. n, NEW k \in 1 .. n, j < k PROVE pos[j] < pos[k]
    <3>1. /\ st[j] \in Nat /\ st[k] \in Nat /\ Len(EB[j]) \in Nat /\ Len(EB[j]) > 0
          /\ st[j] + Len(EB[j]) <= st[k] /\ pos[j] = a + st[j] + 1 /\ pos[k] = a + st[k] + 1
      BY <1>2, <1>9, <1>10, <1>14, <2>1
    <3>2. QED
      BY <1>n, <3>1, SMTT(40)
  <2>2. QED
    BY <2>1
<1>17. \A t, b : Line(t, b).tag = t /\ Line(t, b).body = b
  BY DEF Line
<1>18. ASSUME NEW p \in 1 .. Len(T), T[p].tag = "61"
       PROVE  \E k \in 1 .. n : p = pos[k]
  <2>1. CASE p \in 1 .. a
    BY <1>8, <1>18, <2>1
  <2>2. CASE p = a + Len(F) + 1
    BY <1>7, <1>17, <1>18, <2>2
  <2>3. CASE p > a + Len(F) + 1
    BY <1>7, <1>18, <2>3
  <2>4. ASSUME NEW k \in 1 .. n, NEW i \in 1 .. Len(EB[k]), p = a + st[k] + i, T[p] = EB[k][i]
        PROVE  p = pos[k]
    <3>1. i = 1 \/ i \in 2 .. Len(EB[k])
      BY <1>2
    <3>2. i \notin 2 .. Len(EB[k])
      BY <1>2, <1>17, <1>18, <2>4 DEF Plain
    <3>3. QED
      BY <1>14, <2>4, <3>1, <3>2
  <2>5. QED
    BY <1>13, <2>1, <2>2, <2>3, <2>4
<1>19. ASSUME NEW p \in 1 .. Len(T)
       PROVE  /\ T[p].tag \in {"60F", "60M"} => T[p].body = Opening(s)
              /\ T[p].tag \in {"62F", "62M"} => T[p].body = Closing(s)
  <2>1. CASE p \in 1 .. a
    BY <1>8, <2>1
  <2>2. CASE p = a + Len(F) + 1
    BY <1>7, <1>17, <2>2
  <2>3. CASE p > a + Len(F) + 1
    BY <1>7, <2>3
  <2>4. ASSUME NEW k \in 1 .. n, NEW i \in 1 .. Len(EB[k]), T[p] = EB[k][i]
        PROVE  T[p].tag \notin {"60F", "60M", "62F", "62M"}
    <3>1. i = 1 \/ i \in 2 .. Len(EB[k])
      BY <1>2
    <3>2. CASE i = 1
      BY <1>2, <1>17, <2>4, <3>2
    <3>3. CASE i \in 2 .. Len(EB[k])
      BY <1>2, <1>17, <2>4, <3>3, SMTT(40) DEF Plain
    <3>4. QED
      BY <3>1, <3>2, <3>3
  <2>5. QED
    BY <1>13, <2>1, <2>2, <2>3, <2>4
<1>20. ASSUME NEW k \in 1 .. n
       PROVE  \E q \in 1 .. Len(T) :
                 /\ pos[k] < q /\ T[q].tag \notin Plain
                 /\ \A p \in 1 .. Len(T) : pos[k] < p /\ p < q => T[p].tag \in Plain
                 /\ IF es[k].note = None THEN T[q].tag # "86" ELSE T[q] = Line("86", es[k].note)
  <2> DEFINE m == Len(EB[k])
  <2>1. m \in Nat /\ m > 0 /\ st[k] \in Nat /\ pos[k] = a + st[k] + 1 /\ st[k] + m <= Len(F)
    BY <1>2, <1>9, <1>14
  <2>2. ASSUME NEW p \in 1 .. Len(T), pos[k] < p, p <= a + st[k] + m
        PROVE  p - (a + st[k]) \in 2 .. m /\ T[p] = EB[k][p - (a + st[k])]
    <3> DEFINE i == p - (a + st[k])
    <3>1. i \in 2 .. m /\ i \in 1 .. m /\ p = a + st[k] + i
      BY <1>n, <2>1, <2>2, SMTT(40)
    <3> HIDE DEF i, m
    <3>2. T[p] = EB[k][i]
      BY <1>11, <3>1 DEF m
    <3>3. QED
      BY <3>1, <3>2 DEF i
  <2> DEFINE b == a + st[k]
  <2>b. b \in Nat /\ b >= a /\ b + m <= a + Len(F) /\ pos[k] = b + 1
    BY <1>n, <2>1, SMTT(40)
  <2>m. m \in Nat /\ m > 0
    BY <2>1
  <2>e. Len(EB[k]) = m /\ b = a + st[k]
    OBVIOUS
  <2> HIDE DEF b, m
  <2>3. CASE es[k].note # None
    <3> DEFINE q == b + m
    <3>1. m > 1 /\ EB[k][m] = Line("86", es[k].note)
      BY <1>2, <2>3, <2>e
    <3>2. q \in 1 .. Len(T) /\ pos[k] < q /\ m \in 1 .. m
      BY <1>n, <2>b, <2>m, <3>1
    <3>3. T[q] = Line("86", es[k].note)
      BY <1>11, <2>e, <3>1, <3>2
    <3>4. T[q].tag \notin Plain
      BY <1>17, <3>3 DEF Plain
    <3>5. ASSUME NEW p \in 1 .. Len(T), pos[k] < p, p < q
          PROVE  T[p].tag \in Plain
      <4> DEFINE i == p - b
      <4>1. p <= a + st[k] + m /\ i # m
        BY <2>b, <2>m, <2>e, <3>5
      <4>2. i \in 2 .. m /\ T[p] = EB[k][i]
        BY <2>2, <2>e, <3>5, <4>1
      <4> HIDE DEF i
      <4>3. QED
        BY <1>2, <2>e, <4>1, <4>2
    <3> HIDE DEF q
    <3>6. QED
      BY <2>3, <3>2, <3>3, <3>4, <3>5
  <2>4. CASE es[k].note = None
    <3> DEFINE q == b + m + 1
    <3>1. q \in 1 .. Len(T) /\ pos[k] < q
      BY <1>n, <2>b, <2>m
    <3>2. ASSUME NEW p \in 1 .. Len(T), pos[k] < p, p < q
          PROVE  T[p].tag \in Plain
      <4> DEFINE i == p - b
      <4>1. p <= a + st[k] + m
        BY <2>b, <2>m, <2>e, <3>2
      <4>2. i \in 2 .. m /\ T[p] = EB[k][i]
        BY <2>2, <2>e, <3>2, <4>1
      <4> HIDE DEF i
      <4>3. QED
        BY <1>2, <2>4, <2>e, <4>2
    <3>3. T[q].tag \in {"61", "62F"}
      <4>1. CASE b + m = a + Len(F)
        <5>1. q = a + Len(F) + 1
          BY <4>1
        <5>2. QED
          BY <1>7, <1>17, <5>1
      <4>2. CASE b + m # a + Len(F)
        <5>1. st[k] \in Nat /\ st[k] + m + 1 \in 1 .. Len(F)
          <6>1. st[k] \in Nat
            BY <2>1
          <6>2. (a + st[k]) + m <= a + Len(F) /\ (a + st[k]) + m # a + Len(F)
            BY <2>b, <2>e, <4>2
          <6>3. QED
            BY <1>n, <2>m, <6>1, <6>2, SMTT(40)
        <5>2. PICK j \in 1 .. n : st[k] + m + 1 \in (st[j] + 1) .. (st[j] + Len(EB[j]))
          BY <1>12, <5>1
        <5>3. /\ st[j] \in Nat /\ Len(EB[j]) \in Nat /\ j \in Int /\ k \in Int
              /\ j < k => st[j] + Len(EB[j]) <= st[k]
              /\ k < j => st[k] + m <= st[j]
          BY <1>2, <1>9, <1>10, <2>e
        <5>4. st[j] = st[k] + m
          <6>1. CASE j = k
            BY <2>m, <2>e, <5>1, <5>2, <6>1
          <6>2. CASE j < k
            BY <2>m, <5>1, <5>2, <5>3, <6>2
          <6>3. CASE k < j
            BY <2>m, <5>1, <5>2, <5>3, <6>3, SMTT(40)
          <6>4. QED
            BY <5>3, <6>1, <6>2, <6>3
        <5>5. q = pos[j]
          <6>1. pos[j] = a + st[j] + 1
            BY <1>14
          <6>2. QED
            BY <1>n, <2>m, <2>e, <5>1, <5>4, <6>1
        <5>6. QED
          BY <1>14, <1>17, <5>5
      <4>3. QED
        BY <4>1, <4>2
    <3> HIDE DEF q
    <3>4. QED
      BY <2>4, <3>1, <3>2, <3>3 DEF Plain
  <2>5. QED
    BY <2>3, <2>4
<1>21. Laid(s, T, pos)
  BY <1>7, <1>14, <1>15, <1>16, <1>18, <1>19, <1>20, Zenon DEF Laid, n, es
<1>22. QED
  BY <1>21 DEF T

-----------------------------------------------------------------------------
(* The lexer.                                                              *)

Field == [tag : Tags, body : Bodies, lines : Nat]

\* The fields fs are those that the first n lines of T open: the j-th is opened
\* at line o[j].
Lexed(T, n, fs, o) ==
    /\ fs \in Seq(Field) /\ n \in 0 .. Len(T)
    /\ o \in [1 .. Len(fs) -> 1 .. n]
    /\ \A i, j \in 1 .. Len(fs) : i < j => o[i] < o[j]
    /\ \A j \in 1 .. Len(fs) : /\ T[o[j]].tag \notin Plain
                               /\ fs[j].tag = T[o[j]].tag /\ fs[j].body = T[o[j]].body
    /\ \A p \in 1 .. n : T[p].tag \notin Plain => \E j \in 1 .. Len(fs) : o[j] = p

\* A line without a tag changes no field's tag or body.
LEMMA LexPlain ==
    ASSUME NEW T \in Seq(TextLine), NEW n, NEW fs, NEW o, Lexed(T, n, fs, o), n < Len(T),
           T[n + 1].tag \in Plain,
           NEW gs \in Seq(Field), Len(gs) = Len(fs),
           \A j \in 1 .. Len(fs) : gs[j].tag = fs[j].tag /\ gs[j].body = fs[j].body
    PROVE  Lexed(T, n + 1, gs, o)
<1>1. Len(T) \in Nat /\ n \in Nat /\ n + 1 \in 0 .. Len(T) /\ Len(fs) \in Nat
  BY DEF Lexed
<1>2. o \in [1 .. Len(gs) -> 1 .. (n + 1)]
  BY <1>1 DEF Lexed
<1>3. ASSUME NEW p \in 1 .. (n + 1), T[p].tag \notin Plain
      PROVE  \E j \in 1 .. Len(gs) : o[j] = p
  <2>1. p # n + 1
    BY <1>3
  <2>2. p \in 1 .. n
    BY <1>1, <2>1
  <2>3. QED
    BY <1>3, <2>2 DEF Lexed
<1>4. QED
  BY <1>1, <1>2, <1>3 DEF Lexed

\* A tagged line opens the next field.
LEMMA LexField ==
    ASSUME NEW T \in Seq(TextLine), NEW n, NEW fs, NEW o, Lexed(T, n, fs, o), n < Len(T),
           T[n + 1].tag \notin Plain,
           NEW gs, gs = Append(fs, [tag |-> T[n + 1].tag, body |-> T[n + 1].body, lines |-> 1])
    PROVE  \E u : Lexed(T, n + 1, gs, u)
<1> DEFINE L == Len(fs)
           f == [tag |-> T[n + 1].tag, body |-> T[n + 1].body, lines |-> 1]
           u == [j \in 1 .. (L + 1) |-> IF j = L + 1 THEN n + 1 ELSE o[j]]
<1>1. Len(T) \in Nat /\ n \in Nat /\ n + 1 \in 1 .. Len(T) /\ L \in Nat /\ fs \in Seq(Field)
  BY DEF Lexed
<1>2. T[n + 1] \in TextLine
  BY <1>1
<1>3. f \in Field /\ f.tag = T[n + 1].tag /\ f.body = T[n + 1].body
  BY <1>2 DEF TextLine, Field
<1> HIDE DEF f
<1>4. gs = Append(fs, f)
  BY DEF f
<1>5. /\ gs \in Seq(Field) /\ Len(gs) = L + 1 /\ gs[L + 1] = f
      /\ \A j \in 1 .. L : gs[j] = fs[j]
  BY <1>1, <1>3, <1>4
<1>6. /\ \A j \in 1 .. L : u[j] = o[j] /\ o[j] \in 1 .. n
      /\ u[L + 1] = n + 1
  <2>1. \A j \in 1 .. L : o[j] \in 1 .. n
    BY DEF Lexed
  <2>2. \A j \in 1 .. L : j \in 1 .. (L + 1) /\ j # L + 1
    BY <1>1
  <2>3. L + 1 \in 1 .. (L + 1)
    BY <1>1
  <2>4. QED
    BY <2>1, <2>2, <2>3
<1>7. \A j \in 1 .. (L + 1) : j \in 1 .. L \/ j = L + 1
  BY <1>1
<1>8. u \in [1 .. Len(gs) -> 1 .. (n + 1)]
  <2>1. \A j \in 1 .. (L + 1) : u[j] \in 1 .. (n + 1)
    <3> HIDE DEF u, L
    <3>1. ASSUME NEW j \in 1 .. L PROVE u[j] \in 1 .. (n + 1)
      <4>1. u[j] \in 1 .. n
        BY <1>6
      <4>2. QED
        BY <1>1, <4>1
    <3>2. u[L + 1] \in 1 .. (n + 1)
      BY <1>1, <1>6
    <3>3. QED
      BY <1>7, <3>1, <3>2
  <2>2. u = [j \in 1 .. (L + 1) |-> u[j]]
    OBVIOUS
  <2>3. QED
    BY <1>5, <2>1, <2>2, Zenon
<1> HIDE DEF u, L
<1>9. \A i, j \in 1 .. Len(gs) : i < j => u[i] < u[j]
  <2>1. ASSUME NEW i \in 1 .. (L + 1), NEW j \in 1 .. (L + 1), i < j
        PROVE  u[i] < u[j]
    <3>1. i \in 1 .. L
      BY <1>1, <2>1
    <3>2. CASE j = L + 1
      BY <1>1, <1>6, <3>1, <3>2
    <3>3. CASE j \in 1 .. L
      <4>1. o[i] < o[j]
        BY <2>1, <3>1, <3>3 DEF Lexed, L
      <4>2. QED
        BY <1>6, <3>1, <3>3, <4>1
    <3>4. QED
      BY <1>7, <3>2, <3>3
  <2>2. QED
    BY <1>5, <2>1
<1>10. ASSUME NEW j \in 1 .. (L + 1)
       PROVE  T[u[j]].tag \notin Plain /\ gs[j].tag = T[u[j]].tag /\ gs[j].body = T[u[j]].body
  <2>1. CASE j = L + 1
    BY <1>3, <1>5, <1>6, <2>1
  <2>2. CASE j \in 1 .. L
    BY <1>5, <1>6, <2>2 DEF Lexed, L
  <2>3. QED
    BY <1>7, <2>1, <2>2
<1>11. ASSUME NEW p \in 1 .. (n + 1), T[p].tag \notin Plain
       PROVE  \E j \in 1 .. Len(gs) : u[j] = p
  <2>1. CASE p = n + 1
    BY <1>1, <1>5, <1>6, <2>1
  <2>2. CASE p # n + 1
    <3>1. p \in 1 .. n
      BY <1>1, <2>2
    <3>2. PICK j \in 1 .. L : o[j] = p
      BY <1>11, <3>1 DEF Lexed, L
    <3>3. j \in 1 .. Len(gs)
      BY <1>1, <1>5
    <3>4. QED
      BY <1>6, <3>2, <3>3
  <2>3. QED
    BY <2>1, <2>2
<1>12. Lexed(T, n + 1, gs, u)
  BY <1>1, <1>5, <1>8, <1>9, <1>10, <1>11 DEF Lexed
<1>13. QED
  BY <1>12

UpTo(S, x) == {i \in S : i <= x}
Ranked(S, f, m) == Cardinality(S) = m /\ \A k \in 1 .. m : Cardinality(UpTo(S, f[k])) = k

\* The first k values of an increasing function are k.
LEMMA Rank ==
    ASSUME NEW m \in Nat, NEW f \in [1 .. m -> Nat], \A i, j \in 1 .. m : i < j => f[i] < f[j],
           NEW at, at = {f[i] : i \in 1 .. m}
    PROVE  Ranked(at, f, m)
<1>1. ASSUME NEW k \in 0 .. m, NEW S, S = {f[i] : i \in 1 .. k}
      PROVE  IsFiniteSet(S) /\ Cardinality(S) = k
  <2> DEFINE g == [i \in 1 .. k |-> f[i]]
  <2>1. k \in Nat /\ 1 .. k \subseteq 1 .. m
    OBVIOUS
  <2>2. \A i \in 1 .. k : g[i] = f[i] /\ g[i] \in S /\ f[i] \in Nat
    BY <1>1, <2>1
  <2>3. g \in [1 .. k -> S] /\ \A x \in S : \E i \in 1 .. k : g[i] = x
    BY <1>1, <2>2
  <2>4. ASSUME NEW i \in 1 .. k, NEW j \in 1 .. k, g[i] = g[j] PROVE i = j
    <3>1. i \in 1 .. m /\ j \in 1 .. m /\ f[i] = f[j] /\ f[i] \in Nat
      BY <2>1, <2>2, <2>4
    <3>2. ~ (i < j) /\ ~ (j < i)
      BY <3>1
    <3>3. QED
      BY <3>1, <3>2
  <2> HIDE DEF g
  <2>5. g \in Surjection(1 .. k, S) /\ g \in Injection(1 .. k, S)
    BY <2>3, <2>4 DEF Surjection, Injection, IsInjective
  <2>6. IsFiniteSet(1 .. k) /\ Cardinality(1 .. k) = k
    BY <2>1, FS_Interval
  <2>7. QED
    BY <2>5, <2>6, FS_Surjection
<1>2. IsFiniteSet(at) /\ Cardinality(at) = m
  <2>1. m \in 0 .. m
    OBVIOUS
  <2>2. QED
    BY <1>1, <2>1
<1>3. ASSUME NEW k \in 1 .. m
      PROVE  Cardinality(UpTo(at, f[k])) = k
  <2>1. ASSUME NEW i \in 1 .. m PROVE f[i] <= f[k] <=> i <= k
    <3>1. f[i] \in Nat /\ f[k] \in Nat
      OBVIOUS
    <3>2. CASE i < k
      BY <3>1, <3>2
    <3>3. CASE i = k
      BY <3>1, <3>3
    <3>4. CASE k < i
      BY <3>1, <3>4
    <3>5. QED
      BY <3>2, <3>3, <3>4
  <2>2. UpTo(at, f[k]) = {f[i] : i \in 1 .. k}
    <3>1. \A i \in 1 .. k : i \in 1 .. m /\ i <= k
      OBVIOUS
    <3>2. \A i \in 1 .. m : i <= k => i \in 1 .. k
      OBVIOUS
    <3>3. QED
      BY <2>1, <3>1, <3>2 DEF UpTo
  <2>3. k \in 0 .. m
    OBVIOUS
  <2>4. QED
    BY <1>1, <2>2, <2>3
<1>4. QED
  BY <1>2, <1>3 DEF Ranked

\* A set of numbers with a bound has a largest.
LEMMA LargestOf ==
    ASSUME NEW n \in Nat, NEW S, S \subseteq 1 .. n, S # {}
    PROVE  Max(S) \in S
<1> DEFINE P == {s \in SUBSET S : s # {} => \E x \in s : \A y \in s : x >= y}
<1>1. IsFiniteSet(S) /\ S \subseteq Nat
  <2>1. 1 \in Int /\ n \in Int
    OBVIOUS
  <2>2. IsFiniteSet(1 .. n)
    BY <2>1, FS_Interval
  <2>3. IsFiniteSet(S)
    BY <2>2, FS_Subset
  <2>4. S \subseteq Nat
    OBVIOUS
  <2>5. QED
    BY <2>3, <2>4
<1>2. {} \in P
  OBVIOUS
<1>3. ASSUME NEW s \in SUBSET S, NEW x \in S \ s, s \in P PROVE s \cup {x} \in P
  <2>1. s \cup {x} \in SUBSET S
    OBVIOUS
  <2>2. CASE s = {}
    BY <1>1, <2>1, <2>2
  <2>3. CASE s # {}
    <3>1. PICK z \in s : \A y \in s : z >= y
      BY <1>3, <2>3
    <3>2. x \in Nat /\ \A y \in s : y \in Nat
      BY <1>1
    <3>3. CASE x >= z
      BY <2>1, <3>1, <3>2, <3>3
    <3>4. CASE ~ (x >= z)
      BY <2>1, <3>1, <3>2, <3>4
    <3>5. QED
      BY <3>3, <3>4
  <2>4. QED
    BY <2>2, <2>3
<1>4. SUBSET S \subseteq P
  <2> HIDE DEF P
  <2> QED BY <1>1, <1>2, <1>3, SetSteps
<1>5. \E x \in S : \A y \in S : x >= y
  BY <1>4
<1>6. QED
  BY <1>5 DEF Max

-----------------------------------------------------------------------------
(* From fields to rows and balances.                                       *)

\* at[k] is the field of the k-th entry, and its narration the field after it.
Fielded(s, fs, at) ==
    /\ at \in [1 .. Len(s.entries) -> Nat]
    /\ \A i, j \in 1 .. Len(s.entries) : i < j => at[i] < at[j]
    /\ {j \in DOMAIN fs : fs[j].tag = "61"} = {at[k] : k \in 1 .. Len(s.entries)}
    /\ \A k \in 1 .. Len(s.entries) :
          /\ at[k] \in DOMAIN fs /\ fs[at[k]].body = s.entries[k]
          /\ IF s.entries[k].note = None
             THEN ~ (at[k] < Len(fs) /\ fs[at[k] + 1].tag = "86")
             ELSE /\ at[k] < Len(fs) /\ fs[at[k] + 1].tag = "86"
                  /\ fs[at[k] + 1].body = s.entries[k].note

\* The field of each entry of the statement.
LEMMA FieldOf ==
    ASSUME NEW s \in BankStatement, NEW T, NEW pos, Laid(s, T, pos), NEW fs, NEW o, Lexed(T, Len(T), fs, o)
    PROVE  \E at : Fielded(s, fs, at)
<1> DEFINE es == s.entries
           n == Len(es)
           L == Len(fs)
<1>1. T \in Seq(TextLine) /\ fs \in Seq(Field) /\ L \in Nat /\ Len(T) \in Nat /\ DOMAIN fs = 1 .. L
  BY DEF Laid, Lexed
<1>2. n \in Nat /\ \A k \in 1 .. n : es[k] \in BankEntry
  BY DEF BankStatement
<1>3. /\ \A k \in 1 .. n : pos[k] \in 1 .. Len(T) /\ T[pos[k]] = Line("61", es[k])
      /\ \A j, k \in 1 .. n : j < k => pos[j] < pos[k]
      /\ \A p \in 1 .. Len(T) : T[p].tag = "61" => \E k \in 1 .. n : p = pos[k]
  BY DEF Laid
<1>4. \A k \in 1 .. n : \E q \in 1 .. Len(T) :
          /\ pos[k] < q /\ T[q].tag \notin Plain
          /\ \A p \in 1 .. Len(T) : pos[k] < p /\ p < q => T[p].tag \in Plain
          /\ IF es[k].note = None THEN T[q].tag # "86" ELSE T[q] = Line("86", es[k].note)
  BY DEF Laid
<1>5. /\ \A j \in 1 .. L : o[j] \in 1 .. Len(T) /\ T[o[j]].tag \notin Plain
                           /\ fs[j].tag = T[o[j]].tag /\ fs[j].body = T[o[j]].body
      /\ \A i, j \in 1 .. L : i < j => o[i] < o[j]
      /\ \A p \in 1 .. Len(T) : T[p].tag \notin Plain => \E j \in 1 .. L : o[j] = p
  BY DEF Lexed
<1> HIDE DEF n, es, L
<1>6. \A t, b : Line(t, b).tag = t /\ Line(t, b).body = b
  BY DEF Line
<1>7. \A k \in 1 .. n : \E j \in 1 .. L : o[j] = pos[k]
  BY <1>3, <1>5, <1>6 DEF Plain
<1>8. \A i, j \in 1 .. L : /\ o[i] < o[j] => i < j
                           /\ o[i] = o[j] => i = j
  <2>1. ASSUME NEW i \in 1 .. L, NEW j \in 1 .. L PROVE (o[i] < o[j] => i < j) /\ (o[i] = o[j] => i = j)
    <3>1. o[i] \in Nat /\ o[j] \in Nat /\ i \in Nat /\ j \in Nat
      BY <1>1, <1>5
    <3>2. (i < j => o[i] < o[j]) /\ (j < i => o[j] < o[i])
      BY <1>5
    <3>3. QED
      BY <3>1, <3>2
  <2>2. QED
    BY <2>1
<1> DEFINE at == [k \in 1 .. n |-> CHOOSE j \in 1 .. L : o[j] = pos[k]]
<1>9. \A k \in 1 .. n : at[k] \in 1 .. L /\ o[at[k]] = pos[k]
  BY <1>7
<1>10. at \in [1 .. n -> Nat]
  <2>1. \A k \in 1 .. n : at[k] \in Nat
    BY <1>1, <1>9
  <2>2. at = [k \in 1 .. n |-> at[k]]
    OBVIOUS
  <2> HIDE DEF at
  <2>3. QED
    BY <2>1, <2>2
<1> HIDE DEF at
<1>11. \A i, j \in 1 .. n : i < j => at[i] < at[j]
  BY <1>3, <1>8, <1>9
<1>12. {j \in DOMAIN fs : fs[j].tag = "61"} = {at[k] : k \in 1 .. n}
  <2>1. ASSUME NEW j \in 1 .. L, fs[j].tag = "61" PROVE \E k \in 1 .. n : j = at[k]
    <3>1. o[j] \in 1 .. Len(T) /\ T[o[j]].tag = "61"
      BY <1>5, <2>1
    <3>2. PICK k \in 1 .. n : o[j] = pos[k]
      BY <1>3, <3>1
    <3>3. j = at[k]
      BY <1>8, <1>9, <3>2
    <3>4. QED
      BY <3>3
  <2>2. ASSUME NEW k \in 1 .. n PROVE at[k] \in 1 .. L /\ fs[at[k]].tag = "61"
    BY <1>3, <1>5, <1>6, <1>9, SMTT(40)
  <2>3. QED
    BY <1>1, <2>1, <2>2
<1>13. ASSUME NEW k \in 1 .. n
       PROVE  /\ at[k] \in DOMAIN fs /\ fs[at[k]].body = es[k]
              /\ IF es[k].note = None
                 THEN ~ (at[k] < L /\ fs[at[k] + 1].tag = "86")
                 ELSE /\ at[k] < L /\ fs[at[k] + 1].tag = "86"
                      /\ fs[at[k] + 1].body = es[k].note
  <2>1. at[k] \in DOMAIN fs /\ fs[at[k]].body = es[k]
    BY <1>1, <1>3, <1>5, <1>6, <1>9
  <2>2. PICK q \in 1 .. Len(T) :
          /\ pos[k] < q /\ T[q].tag \notin Plain
          /\ \A p \in 1 .. Len(T) : pos[k] < p /\ p < q => T[p].tag \in Plain
          /\ IF es[k].note = None THEN T[q].tag # "86" ELSE T[q] = Line("86", es[k].note)
    BY <1>4
  <2>3. PICK j \in 1 .. L : o[j] = q
    BY <1>5, <2>2
  <2>4. at[k] \in Nat /\ j \in Nat /\ L \in Nat /\ at[k] < j /\ j <= L /\ at[k] >= 1
    <3>1. at[k] < j
      BY <1>8, <1>9, <2>2, <2>3
    <3>2. QED
      BY <1>1, <1>9, <3>1
  <2>5. j = at[k] + 1
    <3>1. SUFFICES ASSUME at[k] + 1 < j PROVE FALSE
      BY <2>4
    <3>2. at[k] + 1 \in 1 .. L /\ at[k] < at[k] + 1
      BY <2>4, <3>1
    <3> DEFINE i == at[k] + 1
    <3>3. /\ o[i] \in 1 .. Len(T) /\ T[o[i]].tag \notin Plain
          /\ o[at[k]] < o[i] /\ o[i] < o[j]
      BY <1>5, <1>9, <3>1, <3>2
    <3>4. QED
      BY <1>9, <2>2, <2>3, <3>3
  <2>6. at[k] < L /\ fs[at[k] + 1].tag = T[q].tag /\ fs[at[k] + 1].body = T[q].body
    <3>1. at[k] < L
      BY <2>4
    <3>2. fs[j].tag = T[q].tag /\ fs[j].body = T[q].body
      BY <1>5, <2>3
    <3>3. QED
      BY <2>5, <3>1, <3>2
  <2>7. QED
    BY <1>6, <2>1, <2>2, <2>6
<1>14. Fielded(s, fs, at)
  BY <1>10, <1>11, <1>12, <1>13 DEF Fielded, n, es, L
<1>15. QED
  BY <1>14

\* A fully lexed statement has a row per entry, with its own narration.
LEMMA RowsOfText ==
    ASSUME NEW s \in BankStatement, NEW T, NEW pos, Laid(s, T, pos), NEW o, Lexed(T, Len(T), fields, o)
    PROVE  MT940Rows = [k \in 1 .. Len(s.entries) |-> Row(s.entries[k], None, s.entries[k].note, s.entries[k].bad)]
<1> DEFINE es == s.entries
           n == Len(es)
           on == {j \in DOMAIN fields : fields[j].tag = "61"}
           nth(k) == CHOOSE j \in on : Cardinality({i \in on : i <= j}) = k
           note(j) == IF j < Len(fields) /\ fields[j + 1].tag = "86" THEN fields[j + 1].body ELSE None
<1>1. n \in Nat
  BY DEF BankStatement
<1>a. PICK at : Fielded(s, fields, at)
  BY FieldOf
<1>2. /\ at \in [1 .. n -> Nat] /\ \A i, j \in 1 .. n : i < j => at[i] < at[j]
      /\ on = {at[k] : k \in 1 .. n}
      /\ \A k \in 1 .. n :
            /\ at[k] \in DOMAIN fields /\ fields[at[k]].body = es[k]
            /\ IF es[k].note = None
               THEN ~ (at[k] < Len(fields) /\ fields[at[k] + 1].tag = "86")
               ELSE /\ at[k] < Len(fields) /\ fields[at[k] + 1].tag = "86"
                    /\ fields[at[k] + 1].body = es[k].note
  BY <1>a DEF Fielded
<1>3. MT940Rows = [k \in 1 .. Cardinality(on) |->
            Row(fields[nth(k)].body, None, note(nth(k)), fields[nth(k)].body.bad)]
  BY DEF MT940Rows
<1> HIDE DEF on, n, es
<1>4. /\ Cardinality(on) = n
      /\ \A k \in 1 .. n : Cardinality(UpTo(on, at[k])) = k
  <2>1. at \in [1 .. n -> Nat] /\ on = {at[k] : k \in 1 .. n} /\ \A i, j \in 1 .. n : i < j => at[i] < at[j]
    BY <1>2
  <2>2. Ranked(on, at, n)
    BY <1>1, <2>1, Rank
  <2>3. QED
    BY <2>2 DEF Ranked
<1>5. ASSUME NEW k \in 1 .. n PROVE nth(k) = at[k]
  <2>1. at[k] \in on /\ Cardinality(UpTo(on, at[k])) = k
    BY <1>2, <1>4
  <2>2. ASSUME NEW j \in on, Cardinality(UpTo(on, j)) = k PROVE j = at[k]
    <3>1. PICK h \in 1 .. n : j = at[h]
      BY <1>2
    <3>2. Cardinality(UpTo(on, at[h])) = h
      BY <1>4
    <3>3. QED
      BY <2>2, <3>1, <3>2
  <2>3. \A j : UpTo(on, j) = {i \in on : i <= j}
    BY DEF UpTo
  <2>4. nth(k) = CHOOSE j \in on : Cardinality(UpTo(on, j)) = k
    BY <2>3
  <2>5. QED
    BY <2>1, <2>2, <2>4
<1>6. ASSUME NEW k \in 1 .. n
      PROVE  /\ fields[nth(k)].body = es[k]
             /\ note(nth(k)) = es[k].note
  BY <1>2, <1>5, <1>6
<1> HIDE DEF nth, note
<1>7. [k \in 1 .. n |-> Row(fields[nth(k)].body, None, note(nth(k)), fields[nth(k)].body.bad)]
        = [k \in 1 .. n |-> Row(es[k], None, es[k].note, es[k].bad)]
  BY <1>6
<1>8. QED
  BY <1>3, <1>4, <1>7 DEF n, es

\* The balances found are the statement's, if they can be read.
LEMMA BalancesOfText ==
    ASSUME NEW s \in BankStatement, NEW T, NEW pos, Laid(s, T, pos), NEW o, Lexed(T, Len(T), fields, o)
    PROVE  /\ LastOf({"60F", "60M"}) \in {<<>>, <<Opening(s)>>}
           /\ LastOf({"62F", "62M"}) \in {<<>>, <<Closing(s)>>}
<1>1. Len(fields) \in Nat /\ DOMAIN fields = 1 .. Len(fields)
  BY DEF Lexed
<1>2. ASSUME NEW tags, NEW b, \A p \in 1 .. Len(T) : T[p].tag \in tags => T[p].body = b
      PROVE  LastOf(tags) \in {<<>>, <<b>>}
  <2> DEFINE at == {j \in DOMAIN fields : fields[j].tag \in tags}
  <2>1. CASE at = {}
    BY <2>1 DEF LastOf
  <2>2. CASE at # {}
    <3>1. at \subseteq 1 .. Len(fields)
      BY <1>1
    <3>2. Max(at) \in at
      BY <1>1, <2>2, <3>1, LargestOf
    <3> DEFINE j == Max(at)
    <3>3. j \in 1 .. Len(fields) /\ fields[j].tag \in tags
      BY <3>1, <3>2
    <3>4. fields[j].body = b
      <4>1. /\ o[j] \in 1 .. Len(T) /\ fields[j].tag = T[o[j]].tag /\ fields[j].body = T[o[j]].body
        BY <3>3 DEF Lexed
      <4>2. QED
        BY <1>2, <3>3, <4>1
    <3>5. LastOf(tags) = IF at = {} \/ fields[j].lines > 1 THEN <<>> ELSE <<fields[j].body>>
      BY DEF LastOf
    <3> HIDE DEF at, j
    <3>6. QED
      BY <3>4, <3>5
  <2>3. QED
    BY <2>1, <2>2
<1>3. /\ \A p \in 1 .. Len(T) : T[p].tag \in {"60F", "60M"} => T[p].body = Opening(s)
      /\ \A p \in 1 .. Len(T) : T[p].tag \in {"62F", "62M"} => T[p].body = Closing(s)
  BY DEF Laid
<1>4. QED
  BY <1>2, <1>3

-----------------------------------------------------------------------------
(* From rows to the account.                                               *)

\* A sum in two parts, and a sum of what only looks different.
LEMMA SumApart ==
    ASSUME NEW S, IsFiniteSet(S), NEW f, \A x \in S : f[x] \in Int, NEW R \in SUBSET S
    PROVE  SumFunctionOnSet(f, S) = SumFunctionOnSet(f, R) + SumFunctionOnSet(f, S \ R)
<1> DEFINE Sum(s) == SumFunctionOnSet(f, s)
           W == S \ R
           P == {s \in SUBSET W : Sum(R \cup s) = Sum(R) + Sum(s)}
<1>1. \A s \in SUBSET S : IsFiniteSet(s) /\ Sum(s) \in Int
  BY FS_Subset, SumInt
<1>2. {} \in P
  <2>1. R \cup {} = R /\ Sum(R) \in Int /\ {} \in SUBSET W
    BY <1>1
  <2>2. Sum({}) = 0
    BY SumEmpty
  <2> HIDE DEF Sum
  <2>3. QED
    BY <2>1, <2>2
<1>3. ASSUME NEW s \in SUBSET W, NEW x \in W \ s, s \in P PROVE s \cup {x} \in P
  <2>1. /\ R \cup s \in SUBSET S /\ x \notin R \cup s /\ x \in S /\ s \in SUBSET S
        /\ (R \cup s) \cup {x} = R \cup (s \cup {x}) /\ s \cup {x} \in SUBSET W
    OBVIOUS
  <2>2. \A y \in (R \cup s) \cup {x} : f[y] \in Int
    OBVIOUS
  <2>3. Sum((R \cup s) \cup {x}) = f[x] + Sum(R \cup s)
    BY <1>1, <2>1, <2>2, SumWith
  <2>4. \A y \in s \cup {x} : f[y] \in Int
    OBVIOUS
  <2>5. Sum(s \cup {x}) = f[x] + Sum(s)
    BY <1>1, <2>1, <2>4, SumWith
  <2>6. Sum(R) \in Int /\ Sum(s) \in Int /\ f[x] \in Int /\ Sum(R \cup s) = Sum(R) + Sum(s)
    BY <1>1, <1>3, <2>1
  <2> HIDE DEF Sum
  <2>7. Sum(R \cup (s \cup {x})) = Sum(R) + Sum(s \cup {x})
    <3>1. Sum(R \cup (s \cup {x})) = Sum((R \cup s) \cup {x})
      BY <2>1
    <3>2. QED
      BY <2>3, <2>5, <2>6, <3>1
  <2>8. QED
    BY <2>1, <2>7
<1>4. SUBSET W \subseteq P
  <2>1. IsFiniteSet(W)
    BY <1>1
  <2> HIDE DEF P, W
  <2>2. QED
    BY <1>2, <1>3, <2>1, SetSteps
<1>5. W \in P /\ R \cup W = S
  BY <1>4
<1>6. QED
  BY <1>5

\* Functions that agree have one sum.
LEMMA SumAgree ==
    ASSUME NEW S, IsFiniteSet(S), NEW f, NEW g, \A x \in S : f[x] = g[x] /\ f[x] \in Int
    PROVE  SumFunctionOnSet(f, S) = SumFunctionOnSet(g, S)
<1> DEFINE P == {s \in SUBSET S : SumFunctionOnSet(f, s) = SumFunctionOnSet(g, s)}
<1>1. {} \in P
  BY SumEmpty
<1>2. ASSUME NEW s \in SUBSET S, NEW x \in S \ s, s \in P PROVE s \cup {x} \in P
  <2>1. IsFiniteSet(s) /\ x \notin s /\ s \cup {x} \in SUBSET S
    BY FS_Subset
  <2>2. \A y \in s \cup {x} : f[y] \in Int /\ g[y] \in Int
    BY <1>2
  <2>3. SumFunctionOnSet(f, s \cup {x}) = f[x] + SumFunctionOnSet(f, s)
    BY <2>1, <2>2, SumWith
  <2>4. SumFunctionOnSet(g, s \cup {x}) = g[x] + SumFunctionOnSet(g, s)
    BY <2>1, <2>2, SumWith
  <2>5. QED
    BY <1>2, <2>1, <2>3, <2>4
<1>3. SUBSET S \subseteq P
  <2> HIDE DEF P
  <2> QED BY <1>1, <1>2, SetSteps
<1>4. QED
  BY <1>3

\* The total of all entries, from the totals of some and of the others.
LEMMA TotalApart ==
    ASSUME NEW es \in Seq(BankEntry), NEW R \in SUBSET (DOMAIN es)
    PROVE  Total(es, DOMAIN es) = Total(es, R) + Total(es, DOMAIN es \ R)
<1> DEFINE D == DOMAIN es
           f == [k \in D |-> Effect(es[k])]
<1>1. \A ks \in SUBSET D :
         /\ IsFiniteSet(ks) /\ \A k \in ks : es[k] \in BankEntry /\ Effect(es[k]) \in Int
         /\ Total(es, ks) = SumFunctionOnSet([k \in ks |-> Effect(es[k])], ks)
  BY TotalInt
<1>2. ASSUME NEW ks \in SUBSET D PROVE Total(es, ks) = SumFunctionOnSet(f, ks)
  <2> DEFINE g == [k \in ks |-> Effect(es[k])]
  <2>1. \A k \in ks : g[k] = f[k] /\ g[k] \in Int
    BY <1>1
  <2>2. IsFiniteSet(ks) /\ Total(es, ks) = SumFunctionOnSet(g, ks)
    BY <1>1
  <2> HIDE DEF f, g
  <2>3. QED
    BY <2>1, <2>2, SumAgree
<1>3. IsFiniteSet(D) /\ \A k \in D : f[k] \in Int
  BY <1>1
<1>4. D \in SUBSET D /\ R \in SUBSET D /\ D \ R \in SUBSET D
  OBVIOUS
<1> HIDE DEF f, D
<1>5. SumFunctionOnSet(f, D) = SumFunctionOnSet(f, R) + SumFunctionOnSet(f, D \ R)
  BY <1>3, <1>4, SumApart
<1>6. QED
  BY <1>2, <1>4, <1>5 DEF D

\* The row a parser makes of an entry.
RowFor(format, e, r) ==
    /\ r.note = e.note
    /\ r.errors = {} <=> e.bad = {} /\ (format = "CAMT053" => _validate_row(e) = {})
    /\ IF format = "MT940" /\ "form" \in e.bad THEN r.mark = None
       ELSE /\ r.mark = e.mark
            /\ r.text = IF "amount" \in e.bad THEN Unreadable ELSE e.amount * MinorUnit(e.ccy)
            /\ r.ccy = IF format # "MT940" /\ e.named THEN e.ccy ELSE None

\* Row makes such a row, for each format.
LEMMA RowForEntry ==
    ASSUME NEW e \in BankEntry
    PROVE  /\ RowFor("MT940", e, Row(e, None, e.note, e.bad))
           /\ \A format \in {"CAMT053", "CSV"} :
                 RowFor(format, e, Row([e EXCEPT !.bad = @ \ {"form"}],
                          IF e.named THEN e.ccy ELSE None, e.note,
                          e.bad \cup (IF format = "CSV" THEN {} ELSE _validate_row(e))))
<1>1. RowFor("MT940", e, Row(e, None, e.note, e.bad))
  BY DEF RowFor, Row
<1>2. ASSUME NEW format \in {"CAMT053", "CSV"}, NEW d, d = [e EXCEPT !.bad = @ \ {"form"}],
             NEW errors, errors = e.bad \cup (IF format = "CSV" THEN {} ELSE _validate_row(e)),
             NEW c, c = IF e.named THEN e.ccy ELSE None
      PROVE  RowFor(format, e, Row(d, c, e.note, errors))
  <2>1. d.mark = e.mark /\ d.amount = e.amount /\ d.ccy = e.ccy /\ d.bad = e.bad \ {"form"}
    BY <1>2 DEF BankEntry
  <2>2. Row(d, c, e.note, errors)
          = [mark |-> e.mark,
             text |-> IF "amount" \in e.bad THEN Unreadable ELSE e.amount * MinorUnit(e.ccy),
             ccy |-> c, note |-> e.note, errors |-> errors]
    BY <2>1 DEF Row
  <2>3. errors = {} <=> e.bad = {} /\ (format = "CAMT053" => _validate_row(e) = {})
    BY <1>2
  <2> DEFINE r == Row(d, c, e.note, errors)
  <2>4. /\ r.mark = e.mark /\ r.note = e.note /\ r.ccy = c /\ r.errors = errors
        /\ r.text = IF "amount" \in e.bad THEN Unreadable ELSE e.amount * MinorUnit(e.ccy)
    BY <2>2
  <2>5. format # "MT940" /\ c = IF format # "MT940" /\ e.named THEN e.ccy ELSE None
    BY <1>2
  <2> HIDE DEF r
  <2>6. RowFor(format, e, r)
    BY <2>3, <2>4, <2>5 DEF RowFor
  <2>7. QED
    BY <2>6 DEF r
<1>3. QED
  BY <1>1, <1>2

Notes(s, found) == [k \in DOMAIN found |-> found[k].note] = [k \in DOMAIN s.entries |-> s.entries[k].note]
Kept(s) == {k \in DOMAIN s.entries :
              /\ s.entries[k].bad = {} /\ s.entries[k].mark \in DOMAIN normalise_direction
              /\ s.format = "CAMT053" => _validate_row(s.entries[k]) = {}}
Lost(s) == {k \in DOMAIN s.entries :
              \/ "amount" \in s.entries[k].bad
              \/ "form" \in s.entries[k].bad /\ s.format = "MT940"
              \/ s.entries[k].mark \notin DOMAIN _SIGN}

\* The entries are in the currency of the account.
OneCurrency(s) == \A k \in DOMAIN s.entries : s.entries[k].ccy = s.ccy

\* The rows found are those of the statement's entries.
RowsFor(s, found) ==
    /\ DOMAIN found = 1 .. Len(s.entries)
    /\ \A k \in 1 .. Len(s.entries) : RowFor(s.format, s.entries[k], found[k])

\* Such rows are balanced to the last unit.
LEMMA BalanceRight ==
    ASSUME NEW s \in BankStatement, OneCurrency(s), NEW found, RowsFor(s, found)
    PROVE  check_statement(Opening(s), Closing(s), found).difference
             = s.slip + Total(s.entries, Lost(s))
<1> DEFINE es == s.entries
           D == DOMAIN es
           ccy(k) == IF found[k].ccy = None THEN Opening(s).ccy ELSE found[k].ccy
           amount(k) == _SIGN[found[k].mark] * _to_minor(found[k].text, ccy(k))
           readable == {k \in DOMAIN found : /\ found[k].mark \in DOMAIN _SIGN
                                             /\ found[k].text # Unreadable}
           h == [k \in readable |-> amount(k)]
           R == D \ Lost(s)
           g == [k \in R |-> Effect(es[k])]
<1>1. es \in Seq(BankEntry) /\ D = 1 .. Len(es) /\ s.opening \in Int /\ s.slip \in Int
      /\ s.ccy \in Currencies
  BY DEF BankStatement
<1>2. \A k \in D : es[k] \in BankEntry /\ es[k].ccy = s.ccy
  BY <1>1 DEF OneCurrency
<1>3. DOMAIN _SIGN = {"C", "CRDT", "RD", "D", "DBIT", "RC"}
  BY DEF _SIGN
<1>o. Opening(s).ccy = s.ccy /\ Signed(Opening(s)) = s.opening
  BY <1>1, SignedStated DEF Opening
<1>4. ASSUME NEW k \in D
      PROVE  /\ k \in readable <=> k \in R
             /\ k \in readable => amount(k) = Effect(es[k])
  <2> DEFINE e == es[k]
             r == found[k]
  <2>1. RowFor(s.format, e, r) /\ e \in BankEntry /\ e.ccy = s.ccy
    BY <1>1, <1>2 DEF RowsFor
  <2>2. k \in readable <=> r.mark \in DOMAIN _SIGN /\ r.text # Unreadable
    BY <1>1 DEF RowsFor
  <2>3. k \in R <=> ~ (\/ "amount" \in e.bad
                       \/ "form" \in e.bad /\ s.format = "MT940"
                       \/ e.mark \notin DOMAIN _SIGN)
    BY DEF Lost
  <2>a. amount(k) = _SIGN[r.mark] * _to_minor(r.text, IF r.ccy = None THEN s.ccy ELSE r.ccy)
    BY <1>o
  <2> HIDE DEF e, r, readable, R, amount
  <2> DEFINE text == e.amount * MinorUnit(e.ccy)
  <2>4. e.amount \in Nat /\ text \in Nat /\ text # Unreadable /\ _to_minor(text, s.ccy) = e.amount
        /\ e.ccy # None
    <3>1. e.amount \in Nat /\ e.ccy \in Currencies
      BY <2>1 DEF BankEntry
    <3>2. text \in Nat /\ _to_minor(text, s.ccy) = e.amount /\ e.ccy # None
      BY <2>1, <3>1, WrittenRead
    <3> HIDE DEF text
    <3>3. QED
      BY <3>1, <3>2 DEF Unreadable
  <2>5. None \notin DOMAIN _SIGN
    BY <1>3 DEF None
  <2>6. CASE s.format = "MT940" /\ "form" \in e.bad
    BY <2>1, <2>2, <2>3, <2>5, <2>6 DEF RowFor
  <2>7. CASE ~ (s.format = "MT940" /\ "form" \in e.bad)
    <3>1. /\ r.mark = e.mark /\ r.text = IF "amount" \in e.bad THEN Unreadable ELSE text
          /\ r.ccy \in {None, e.ccy}
      BY <2>1, <2>7 DEF RowFor
    <3> HIDE DEF text
    <3>2. k \in readable <=> k \in R
      BY <2>2, <2>3, <2>4, <2>7, <3>1
    <3>3. ASSUME k \in readable PROVE amount(k) = Effect(e)
      <4>1. e.mark \in DOMAIN _SIGN /\ r.text = text /\ r.mark = e.mark
        BY <2>2, <3>1, <3>3
      <4>a. amount(k) = _SIGN[e.mark] * e.amount
        <5>1. (IF r.ccy = None THEN s.ccy ELSE r.ccy) = s.ccy
          BY <2>1, <3>1
        <5>2. QED
          BY <2>a, <2>4, <4>1, <5>1
      <4>2. CASE e.mark \in {"C", "CRDT", "RD"}
        <5>1. _SIGN[e.mark] = 1
          BY <4>2 DEF _SIGN
        <5>2. Effect(e) = e.amount
          BY <4>2 DEF Effect
        <5>3. QED
          BY <2>4, <4>a, <5>1, <5>2
      <4>3. CASE e.mark \in {"D", "DBIT", "RC"}
        <5>1. _SIGN[e.mark] = -1
          BY <4>3 DEF _SIGN
        <5>2. Effect(e) = -e.amount
          BY <4>3 DEF Effect
        <5>3. QED
          BY <2>4, <4>a, <5>1, <5>2
      <4>4. QED
        BY <1>3, <4>1, <4>2, <4>3
    <3>4. QED
      BY <3>2, <3>3 DEF e, r
  <2>8. QED
    BY <2>6, <2>7
<1>5. readable = R
  <2>1. readable \subseteq D /\ R \subseteq D
    BY <1>1 DEF RowsFor
  <2> HIDE DEF readable, R, D, amount
  <2>2. QED
    BY <1>4, <2>1
<1>6. h = g
  <2> HIDE DEF amount
  <2>1. h = [k \in R |-> amount(k)]
    BY <1>5
  <2>2. \A k \in R : amount(k) = Effect(es[k])
    BY <1>4, <1>5
  <2> HIDE DEF h, R
  <2>3. QED
    BY <2>1, <2>2
<1>7. SumFunction(h) = Total(es, R)
  BY <1>6 DEF Total
<1>8. check_statement(Opening(s), Closing(s), found).difference
        = Signed(Closing(s)) - (Signed(Opening(s)) + SumFunction(h))
  BY DEF check_statement
<1>9. Lost(s) \in SUBSET D
  BY DEF Lost
<1>10. Total(es, D) = Total(es, Lost(s)) + Total(es, R)
  BY <1>1, <1>9, TotalApart
<1>11. Total(es, D) \in Int /\ Total(es, Lost(s)) \in Int /\ Total(es, R) \in Int
  BY <1>1, <1>9, TotalInt
<1>12. Signed(Closing(s)) = s.opening + Total(es, D) + s.slip
  <2>1. s.opening + Total(es, D) + s.slip \in Int
    BY <1>1, <1>11
  <2>2. QED
    BY <1>1, <2>1, SignedStated DEF Closing
<1> HIDE DEF es, D, R, h
<1>13. Signed(Closing(s)) - (Signed(Opening(s)) + SumFunction(h)) = s.slip + Total(es, Lost(s))
  BY <1>1, <1>o, <1>7, <1>10, <1>11, <1>12
<1>14. QED
  BY <1>8, <1>13 DEF es

\* The row of the entry carries no currency, and the bank's default is another.
Misread(s, e) == (s.format = "MT940" \/ ~ e.named) /\ s.ccy # DefaultCurrency

\* What the transaction does to the account is what the entry did.
Faithful(s, t, e) == Moves(t) = Effect(e) /\ t.ccy = s.ccy

\* Exactly the entries without fault become transactions, each with its effect
\* where its currency is known.
LEMMA TransactionsRight ==
    ASSUME NEW s \in BankStatement, OneCurrency(s), NEW found, RowsFor(s, found)
    PROVE  /\ Notes(s, found)
           /\ DOMAIN normalise(found) = Kept(s)
           /\ \A k \in Kept(s) : \/ Misread(s, s.entries[k])
                                 \/ Faithful(s, normalise(found)[k], s.entries[k])
<1> DEFINE es == s.entries
           D == DOMAIN es
           can == normalise(found)
           ccy(k) == resolve_currency(found[k].ccy, None, DefaultCurrency)
<1>1. D = 1 .. Len(es) /\ DOMAIN found = D
  BY DEF BankStatement, RowsFor
<1>2. \A k \in D : es[k] \in BankEntry /\ RowFor(s.format, es[k], found[k]) /\ es[k].ccy = s.ccy
  BY <1>1 DEF BankStatement, RowsFor, OneCurrency
<1>3. Notes(s, found)
  BY <1>1, <1>2 DEF Notes, RowFor
<1>4. /\ DOMAIN can = {j \in DOMAIN found : /\ found[j].errors = {}
                                             /\ found[j].mark \in DOMAIN normalise_direction}
      /\ \A k \in DOMAIN can :
            LET d == normalise_direction[found[k].mark]
            IN  can[k] = [dir |-> d.dir, is_reversal |-> d.is_reversal, ccy |-> ccy(k),
                          amount |-> _to_minor(found[k].text, ccy(k))]
  BY DEF normalise
<1>5. DOMAIN normalise_direction = {"CR", "C", "CRDT", "DR", "D", "DBIT", "RC", "RD"}
  BY DEF normalise_direction
<1> HIDE DEF ccy
<1>6. ASSUME NEW k \in D
      PROVE  /\ k \in DOMAIN can <=> k \in Kept(s)
             /\ k \in DOMAIN can => Misread(s, es[k]) \/ Faithful(s, can[k], es[k])
  <2> DEFINE e == es[k]
             r == found[k]
  <2>1. RowFor(s.format, e, r) /\ e \in BankEntry /\ e.ccy = s.ccy
    BY <1>2
  <2>2. k \in DOMAIN can <=> r.errors = {} /\ r.mark \in DOMAIN normalise_direction
    BY <1>1, <1>4
  <2>3. k \in Kept(s) <=> /\ e.bad = {} /\ e.mark \in DOMAIN normalise_direction
                          /\ s.format = "CAMT053" => _validate_row(e) = {}
    BY DEF Kept
  <2>4. k \in DOMAIN can => LET d == normalise_direction[r.mark]
                            IN  can[k] = [dir |-> d.dir, is_reversal |-> d.is_reversal, ccy |-> ccy(k),
                                          amount |-> _to_minor(r.text, ccy(k))]
    BY <1>4
  <2>c. ccy(k) = IF r.ccy # None THEN r.ccy ELSE DefaultCurrency
    BY DEF ccy, resolve_currency
  <2> HIDE DEF e, r, can
  <2>5. ASSUME e.bad = {}
        PROVE  /\ r.mark = e.mark /\ r.text = e.amount * MinorUnit(e.ccy)
               /\ r.ccy = IF s.format # "MT940" /\ e.named THEN e.ccy ELSE None
    BY <2>1, <2>5 DEF RowFor
  <2>6. k \in DOMAIN can <=> k \in Kept(s)
    BY <2>1, <2>2, <2>3, <2>5 DEF RowFor
  <2>7. ASSUME k \in DOMAIN can, ~ Misread(s, e) PROVE Faithful(s, can[k], e)
    <3>1. r.mark = e.mark /\ e.mark \in DOMAIN normalise_direction
      BY <2>3, <2>5, <2>6, <2>7
    <3>a. e.amount \in Nat /\ e.ccy \in Currencies
      BY <2>1 DEF BankEntry
    <3>b. ccy(k) = s.ccy
      BY <2>1, <2>3, <2>5, <2>6, <2>7, <2>c, <3>a, WrittenRead DEF Misread
    <3>c. _to_minor(r.text, s.ccy) = e.amount
      BY <2>1, <2>3, <2>5, <2>6, <2>7, <3>a, WrittenRead
    <3> DEFINE d == normalise_direction[e.mark]
    <3>2. can[k] = [dir |-> d.dir, is_reversal |-> d.is_reversal, ccy |-> s.ccy, amount |-> e.amount]
      BY <2>4, <2>7, <3>1, <3>b, <3>c
    <3>3. d = [dir |-> IF e.mark \in {"CR", "C", "CRDT", "RC"} THEN "CR" ELSE "DR",
               is_reversal |-> e.mark \in {"RC", "RD"}]
      BY <1>5, <3>1 DEF normalise_direction
    <3> HIDE DEF d
    <3>4. /\ can[k].dir = (IF e.mark \in {"CR", "C", "CRDT", "RC"} THEN "CR" ELSE "DR")
          /\ can[k].is_reversal = (e.mark \in {"RC", "RD"}) /\ can[k].amount = e.amount
          /\ can[k].ccy = s.ccy
      BY <3>2, <3>3
    <3>5. CASE e.mark \in {"C", "CR", "CRDT", "RD"}
      BY <3>4, <3>5 DEF Faithful, Moves, Effect
    <3>6. CASE e.mark \in {"D", "DR", "DBIT", "RC"}
      BY <3>4, <3>6 DEF Faithful, Moves, Effect
    <3>7. QED
      BY <1>5, <3>1, <3>5, <3>6
  <2>8. QED
    BY <2>6, <2>7 DEF e
<1>7. DOMAIN can = Kept(s)
  <2>1. DOMAIN can \subseteq D /\ Kept(s) \subseteq D
    BY <1>1, <1>4 DEF Kept
  <2> HIDE DEF can, D
  <2>2. QED
    BY <1>6, <2>1
<1>8. \A k \in Kept(s) : Misread(s, es[k]) \/ Faithful(s, can[k], es[k])
  <2>1. \A k \in Kept(s) : k \in D
    BY DEF Kept
  <2> HIDE DEF can, D
  <2>2. QED
    BY <1>6, <1>7, <2>1
<1>9. QED
  BY <1>3, <1>7, <1>8

-----------------------------------------------------------------------------
(* The invariant.                                                          *)

ParsedRow == [mark : STRING \cup {None}, text : Nat \cup {Unreadable}, ccy : Currencies \cup {None},
              note : STRING, errors : SUBSET {"form", "date", "amount", "mark", "currency"}]

\* What has been read of a file of one statement.
ReadSoFar ==
    /\ Format = "MT940" => \E o : Lexed(Text, line, fields, o)
    /\ Format # "MT940" =>
          /\ rows \in Seq(ParsedRow) /\ line \in 0 .. Len(Entries) /\ Len(rows) = line
          /\ \A k \in 1 .. line : RowFor(Format, Entries[k], rows[k])

StatementInv ==
    /\ document \in Documents
    /\ outcome = "reading" /\ Len(document) = 1 => ReadSoFar
    /\ StatementAccounted

\* A file of one statement is that statement's text.
LEMMA OneStatement ==
    ASSUME document \in Documents, Len(document) = 1
    PROVE  /\ document[1] \in BankStatement /\ OneCurrency(document[1])
           /\ Text = StatementLines(document[1])
<1> DEFINE parts == [j \in 1 .. Len(document) |-> StatementLines(document[j])]
<1>1. document[1] \in BankStatement /\ OneCurrency(document[1])
  BY DocumentsAssumption DEF OneCurrency
<1>2. PICK pos : Laid(document[1], StatementLines(document[1]), pos)
  BY <1>1, StatementLaid
<1>3. StatementLines(document[1]) \in Seq(TextLine)
  BY <1>2 DEF Laid
<1>4. parts \in Seq(Seq(TextLine)) /\ Len(parts) = 1 /\ parts[1] = StatementLines(document[1])
  BY <1>3
<1>5. Text = FlattenSeq(parts)
  BY DEF Text
<1> HIDE DEF parts
<1>6. FlattenSeq(parts) = parts[1]
  BY <1>4, Flattened
<1>7. QED
  BY <1>1, <1>4, <1>5, <1>6

\* What the accounting says once a file is parsed.
Accounted(s, found, bal, can) ==
    /\ Notes(s, found)
    /\ bal # <<>> => bal[1].difference = s.slip + Total(s.entries, Lost(s))
    /\ DOMAIN can = Kept(s)
    /\ \A k \in Kept(s) : Misread(s, s.entries[k]) \/ Faithful(s, can[k], s.entries[k])

\* That is what StatementAccounted says.
LEMMA AccountedIs ==
    StatementAccounted <=> (outcome = "parsed" /\ Len(document) = 1 => Accounted(document[1], rows, balance, canonical))
BY DEF StatementAccounted, Accounted, Notes, Kept, Lost, Misread, Faithful, Unnamed, Entries, Format

\* Rows of the entries and the balances read give the accounting.
LEMMA ParsedRight ==
    ASSUME NEW s \in BankStatement, OneCurrency(s), NEW found, RowsFor(s, found),
           NEW opening, opening \in {<<>>, <<Opening(s)>>}, NEW closing, closing \in {<<>>, <<Closing(s)>>},
           NEW bal, bal = IF opening = <<>> \/ closing = <<>> THEN <<>>
                          ELSE <<check_statement(opening[1], closing[1], found)>>
    PROVE  Accounted(s, found, bal, normalise(found))
<1>1. /\ Notes(s, found) /\ DOMAIN normalise(found) = Kept(s)
      /\ \A k \in Kept(s) : \/ Misread(s, s.entries[k])
                            \/ Faithful(s, normalise(found)[k], s.entries[k])
  BY TransactionsRight
<1>2. ASSUME bal # <<>> PROVE bal[1].difference = s.slip + Total(s.entries, Lost(s))
  <2>1. opening = <<Opening(s)>> /\ closing = <<Closing(s)>>
    BY <1>2
  <2>2. bal = <<check_statement(Opening(s), Closing(s), found)>>
    BY <1>2, <2>1
  <2>3. bal[1] = check_statement(Opening(s), Closing(s), found)
    BY <2>2
  <2>4. QED
    BY <2>3, BalanceRight
<1>3. QED
  BY <1>1, <1>2 DEF Accounted

\* The invariant holds before anything is read.
LEMMA StatementStart == StatementInit => StatementInv
<1> SUFFICES ASSUME StatementInit PROVE StatementInv
  OBVIOUS
<1>1. document \in Documents /\ line = 0 /\ fields = <<>> /\ outcome = "reading" /\ rows = <<>>
  BY DEF StatementInit
<1>2. ASSUME Len(document) = 1 PROVE ReadSoFar
  <2>1. document[1] \in BankStatement /\ Text = StatementLines(document[1])
    BY <1>1, <1>2, OneStatement
  <2>2. PICK pos : Laid(document[1], Text, pos)
    BY <2>1, StatementLaid
  <2>3. Text \in Seq(TextLine)
    BY <2>2 DEF Laid
  <2>4. Lexed(Text, 0, <<>>, [j \in 1 .. 0 |-> 0])
    BY <2>3 DEF Lexed
  <2>5. 0 \in 0 .. Len(Entries)
    BY <2>1 DEF BankStatement, Entries
  <2>6. QED
    BY <1>1, <2>4, <2>5 DEF ReadSoFar
<1>3. StatementAccounted
  BY <1>1 DEF StatementAccounted
<1>4. QED
  BY <1>1, <1>2, <1>3 DEF StatementInv

\* Lexing keeps the fields those of the lines read.
LEMMA LexStep ==
    ASSUME StatementInv, lex
    PROVE  StatementInv'
<1>1. /\ document \in Documents /\ document' = document /\ outcome = "reading" /\ Format = "MT940"
      /\ outcome' \in {"reading", "rejected"} /\ line < Len(Text) /\ line' = line + 1
  <2>1. /\ document \in Documents /\ document' = document /\ outcome = "reading" /\ Format = "MT940"
        /\ line < Len(Text) /\ line' = line + 1
    BY DEF StatementInv, lex
  <2>2. outcome' \in {"reading", "rejected"}
    BY DEF lex
  <2>3. QED
    BY <2>1, <2>2
<1>2. document' \in Documents
  BY <1>1
<1>3. StatementAccounted'
  BY <1>1 DEF StatementAccounted
<1>4. ASSUME outcome' = "reading", Len(document) = 1
      PROVE  \E u : Lexed(Text, line + 1, fields', u)
  <2> DEFINE T == Text
             l == T[line + 1]
  <2>1. PICK o : Lexed(T, line, fields, o)
    BY <1>1, <1>4 DEF StatementInv, ReadSoFar
  <2>2. T \in Seq(TextLine)
    <3>1. document[1] \in BankStatement /\ Text = StatementLines(document[1])
      BY <1>1, <1>4, OneStatement
    <3>2. PICK pos : Laid(document[1], Text, pos)
      BY <3>1, StatementLaid
    <3>3. QED
      BY <3>2 DEF Laid
  <2>3. \/ l.tag = "blank" /\ fields' = fields
        \/ l.tag = "untagged" /\ Len(fields) > 0 /\ fields' = [fields EXCEPT ![Len(fields)].lines = @ + 1]
        \/ /\ l.tag \notin {"blank", "untagged"}
           /\ fields' = Append(fields, [tag |-> l.tag, body |-> l.body, lines |-> 1])
    <3>1. fields \in Seq(Field) /\ Len(fields) \in Nat
      BY <2>1 DEF Lexed
    <3>2. CASE l.tag = "blank"
      BY <3>2 DEF lex
    <3>3. CASE l.tag = "untagged"
      <4>1. Len(fields) # 0
        BY <1>4, <3>3 DEF lex
      <4>2. Len(fields) > 0
        BY <3>1, <4>1
      <4>3. QED
        BY <3>3, <4>2 DEF lex
    <3>4. CASE l.tag \notin {"blank", "untagged"}
      BY <3>4 DEF lex, Flush
    <3>5. QED
      BY <3>2, <3>3, <3>4
  <2>4. line < Len(T) /\ fields \in Seq(Field) /\ Len(fields) \in Nat
    BY <1>1, <2>1 DEF Lexed
  <2> HIDE DEF T
  <2>5. CASE l.tag = "blank" /\ fields' = fields
    <3>1. T[line + 1].tag \in Plain /\ Lexed(T, line + 1, fields, o)
      BY <2>1, <2>2, <2>4, <2>5, LexPlain DEF Plain
    <3>2. QED
      BY <2>5, <3>1 DEF T
  <2>6. CASE l.tag = "untagged" /\ Len(fields) > 0 /\ fields' = [fields EXCEPT ![Len(fields)].lines = @ + 1]
    <3> DEFINE gs == [fields EXCEPT ![Len(fields)].lines = @ + 1]
    <3>1. Len(fields) \in 1 .. Len(fields) /\ fields[Len(fields)] \in Field
      BY <2>4, <2>6
    <3>2. [fields[Len(fields)] EXCEPT !.lines = @ + 1] \in Field
      BY <3>1 DEF Field
    <3>3. gs \in Seq(Field) /\ Len(gs) = Len(fields)
      BY <2>4, <3>1, <3>2
    <3>4. \A j \in 1 .. Len(fields) : gs[j].tag = fields[j].tag /\ gs[j].body = fields[j].body
      <4>1. ASSUME NEW j \in 1 .. Len(fields) PROVE gs[j].tag = fields[j].tag /\ gs[j].body = fields[j].body
        <5>1. fields[j] \in Field
          BY <2>4
        <5>2. gs[j] = IF j = Len(fields) THEN [fields[j] EXCEPT !.lines = @ + 1] ELSE fields[j]
          BY <2>4
        <5>3. QED
          BY <5>1, <5>2 DEF Field
      <4>2. QED
        BY <4>1
    <3> HIDE DEF gs
    <3>5. T[line + 1].tag \in Plain
      BY <2>6 DEF Plain
    <3>6. Lexed(T, line + 1, gs, o)
      BY <2>1, <2>2, <2>4, <3>3, <3>4, <3>5, LexPlain
    <3>7. QED
      BY <2>6, <3>6 DEF T, gs
  <2>7. CASE /\ l.tag \notin {"blank", "untagged"}
             /\ fields' = Append(fields, [tag |-> l.tag, body |-> l.body, lines |-> 1])
    <3>1. T[line + 1].tag \notin Plain
      BY <2>7 DEF Plain
    <3>2. \E u : Lexed(T, line + 1, fields', u)
      BY <2>1, <2>2, <2>4, <2>7, <3>1, LexField
    <3>3. QED
      BY <3>2 DEF T
  <2>8. QED
    BY <2>3, <2>5, <2>6, <2>7
<1>5. Text' = Text /\ Format' = Format
  BY <1>1 DEF Text, Format
<1>6. outcome' = "reading" /\ Len(document') = 1 => ReadSoFar'
  BY <1>1, <1>4, <1>5 DEF ReadSoFar
<1>7. QED
  BY <1>2, <1>3, <1>6 DEF StatementInv

\* Reading an entry keeps the rows those of the entries read.
LEMMA ReadStep ==
    ASSUME StatementInv, ReadEntry
    PROVE  StatementInv'
<1>1. /\ document \in Documents /\ document' = document /\ outcome = "reading" /\ outcome' = outcome
      /\ Format # "MT940" /\ line < Len(Entries) /\ line' = line + 1
  BY DEF StatementInv, ReadEntry
<1>2. StatementAccounted'
  BY <1>1 DEF StatementAccounted
<1>3. Format' = Format /\ Entries' = Entries
  BY <1>1 DEF Format, Entries
<1>4. ASSUME Len(document) = 1
      PROVE  /\ rows' \in Seq(ParsedRow) /\ line + 1 \in 0 .. Len(Entries) /\ Len(rows') = line + 1
             /\ \A k \in 1 .. (line + 1) : RowFor(Format, Entries[k], rows'[k])
  <2> DEFINE e == Entries[line + 1]
             errors == e.bad \cup (IF Format = "CSV" THEN {} ELSE _validate_row(e))
             c == IF e.named THEN e.ccy ELSE None
             r == Row([e EXCEPT !.bad = @ \ {"form"}], c, e.note, errors)
  <2>1. /\ rows \in Seq(ParsedRow) /\ line \in 0 .. Len(Entries) /\ Len(rows) = line
        /\ \A k \in 1 .. line : RowFor(Format, Entries[k], rows[k])
    BY <1>1, <1>4 DEF StatementInv, ReadSoFar
  <2>2. document[1] \in BankStatement
    BY <1>1, <1>4, OneStatement
  <2>3. Format \in {"CAMT053", "CSV"} /\ Entries \in Seq(BankEntry) /\ Len(Entries) \in Nat
    BY <1>1, <2>2 DEF BankStatement, Format, Entries
  <2>4. line + 1 \in 1 .. Len(Entries) /\ line \in Nat
    BY <1>1, <2>1, <2>3
  <2>5. e \in BankEntry
    BY <2>3, <2>4
  <2>6. rows' = Append(rows, r)
    BY DEF ReadEntry
  <2> HIDE DEF e
  <2>7. RowFor(Format, e, r)
    BY <2>3, <2>5, RowForEntry
  <2>8. r \in ParsedRow
    <3> DEFINE d == [e EXCEPT !.bad = @ \ {"form"}]
               text == e.amount * MinorUnit(e.ccy)
    <3>1. /\ e.mark \in STRING /\ e.note \in STRING /\ e.amount \in Nat /\ e.ccy \in Currencies
          /\ e.bad \subseteq {"form", "date", "amount"}
          /\ d.mark = e.mark /\ d.amount = e.amount /\ d.ccy = e.ccy
      BY <2>5 DEF BankEntry
    <3>2. errors \subseteq {"form", "date", "amount", "mark", "currency"}
      BY <3>1 DEF _validate_row
    <3>3. text \in Nat /\ c \in Currencies \cup {None} /\ d.amount * MinorUnit(d.ccy) = text
      BY <3>1, WrittenRead
    <3> HIDE DEF errors, c, d, text
    <3>4. r = Row(d, c, e.note, errors)
      BY DEF d
    <3> HIDE DEF r
    <3>5. QED
      BY <3>1, <3>2, <3>3, <3>4 DEF Row, ParsedRow
  <2> HIDE DEF r
  <2>9. /\ rows' \in Seq(ParsedRow) /\ Len(rows') = line + 1 /\ rows'[line + 1] = r
        /\ \A k \in 1 .. line : rows'[k] = rows[k]
    BY <2>1, <2>6, <2>8
  <2>10. \A k \in 1 .. (line + 1) : k = line + 1 \/ k \in 1 .. line
    BY <2>4
  <2>11. \A k \in 1 .. (line + 1) : RowFor(Format, Entries[k], rows'[k])
    BY <2>1, <2>7, <2>9, <2>10 DEF e
  <2>12. line + 1 \in 0 .. Len(Entries)
    BY <2>3, <2>4
  <2>13. QED
    BY <2>9, <2>11, <2>12
<1>5. Len(document) = 1 => ReadSoFar'
  BY <1>1, <1>3, <1>4 DEF ReadSoFar
<1>6. QED
  BY <1>1, <1>2, <1>5 DEF StatementInv

\* Whichever parser ends.
LEMMA ParsedStep ==
    ASSUME StatementInv, outcome = "reading", NEW found, NEW opening, NEW closing,
           Parsed(found, opening, closing),
           Len(document) = 1 => /\ RowsFor(document[1], found)
                                /\ opening \in {<<>>, <<Opening(document[1])>>}
                                /\ closing \in {<<>>, <<Closing(document[1])>>}
    PROVE  StatementInv'
<1>1. /\ document \in Documents /\ document' = document /\ outcome' = "parsed"
      /\ rows' = found /\ canonical' = normalise(found)
      /\ balance' = IF opening = <<>> \/ closing = <<>> THEN <<>>
                    ELSE <<check_statement(opening[1], closing[1], found)>>
  BY DEF StatementInv, Parsed
<1>2. ASSUME Len(document) = 1 PROVE Accounted(document[1], rows', balance', canonical')
  <2>1. document[1] \in BankStatement /\ OneCurrency(document[1])
    BY <1>1, <1>2, OneStatement
  <2>2. QED
    BY <1>1, <1>2, <2>1, ParsedRight
<1>3. StatementAccounted'
  <2>1. Len(document') = 1 => Accounted(document'[1], rows', balance', canonical')
    BY <1>1, <1>2
  <2>2. QED
    BY <2>1, AccountedIs DEF StatementAccounted, Accounted, Notes, Kept, Lost, Misread, Faithful,
                        Unnamed, Entries, Format
<1>4. QED
  BY <1>1, <1>3 DEF StatementInv

\* Every step keeps the invariant.
LEMMA StatementSteps ==
    ASSUME StatementInv, [StatementNext]_statementVars
    PROVE  StatementInv'
<1>1. CASE lex
  BY <1>1, LexStep
<1>2. CASE ReadEntry
  BY <1>2, ReadStep
<1>3. CASE ParseMT940
  <2>1. /\ Format = "MT940" /\ outcome = "reading" /\ line = Len(Text) /\ document \in Documents
        /\ Parsed(MT940Rows, LastOf({"60F", "60M"}), LastOf({"62F", "62M"}))
    BY <1>3 DEF ParseMT940, StatementInv
  <2>2. ASSUME Len(document) = 1
        PROVE  /\ RowsFor(document[1], MT940Rows)
               /\ LastOf({"60F", "60M"}) \in {<<>>, <<Opening(document[1])>>}
               /\ LastOf({"62F", "62M"}) \in {<<>>, <<Closing(document[1])>>}
    <3> DEFINE s == document[1]
    <3>1. s \in BankStatement /\ Text = StatementLines(s) /\ s.format = "MT940"
      BY <2>1, <2>2, OneStatement DEF Format
    <3>2. PICK pos : Laid(s, Text, pos)
      BY <3>1, StatementLaid
    <3>3. PICK o : Lexed(Text, Len(Text), fields, o)
      BY <2>1, <2>2 DEF StatementInv, ReadSoFar
    <3> HIDE DEF s
    <3>4. MT940Rows = [k \in 1 .. Len(s.entries) |-> Row(s.entries[k], None, s.entries[k].note, s.entries[k].bad)]
      BY <3>1, <3>2, <3>3, RowsOfText
    <3>5. \A k \in 1 .. Len(s.entries) : s.entries[k] \in BankEntry
      BY <3>1 DEF BankStatement
    <3>6. \A k \in 1 .. Len(s.entries) :
             RowFor(s.format, s.entries[k], Row(s.entries[k], None, s.entries[k].note, s.entries[k].bad))
      BY <3>1, <3>5, RowForEntry
    <3>7. RowsFor(s, MT940Rows)
      BY <3>4, <3>6 DEF RowsFor
    <3>8. /\ LastOf({"60F", "60M"}) \in {<<>>, <<Opening(s)>>}
          /\ LastOf({"62F", "62M"}) \in {<<>>, <<Closing(s)>>}
      BY <3>1, <3>2, <3>3, BalancesOfText
    <3>9. QED
      BY <3>7, <3>8 DEF s
  <2>3. QED
    BY <2>1, <2>2, ParsedStep
<1>4. ASSUME Format # "MT940", outcome = "reading", line = Len(Entries), Len(document) = 1
      PROVE  RowsFor(document[1], rows)
  <2>1. /\ document \in Documents /\ rows \in Seq(ParsedRow) /\ Len(rows) = Len(Entries)
        /\ \A k \in 1 .. Len(Entries) : RowFor(Format, Entries[k], rows[k])
    BY <1>4 DEF StatementInv, ReadSoFar
  <2>2. DOMAIN rows = 1 .. Len(Entries)
    BY <2>1
  <2>3. QED
    BY <2>1, <2>2 DEF RowsFor, Format, Entries
<1>5. CASE ParseCAMT053
  <2>1. /\ Format # "MT940" /\ outcome = "reading" /\ line = Len(Entries)
        /\ Parsed(rows, <<Opening(document[1])>>, <<Closing(document[1])>>)
    BY <1>5 DEF ParseCAMT053
  <2>2. QED
    BY <1>4, <2>1, ParsedStep
<1>6. CASE ParseCSV
  <2>1. Format # "MT940" /\ outcome = "reading" /\ line = Len(Entries) /\ Parsed(rows, <<>>, <<>>)
    BY <1>6 DEF ParseCSV
  <2>2. QED
    BY <1>4, <2>1, ParsedStep
<1>7. CASE UNCHANGED statementVars
  <2>1. /\ document' = document /\ line' = line /\ fields' = fields /\ outcome' = outcome /\ rows' = rows
        /\ balance' = balance /\ canonical' = canonical
    BY <1>7 DEF statementVars
  <2>2. ReadSoFar' <=> ReadSoFar
    BY <2>1 DEF ReadSoFar, Text, Format, Entries
  <2>3. StatementAccounted' <=> StatementAccounted
    BY <2>1 DEF StatementAccounted, Unnamed, Format, Entries
  <2>4. QED
    BY <2>1, <2>2, <2>3 DEF StatementInv
<1>8. QED
  BY <1>1, <1>2, <1>3, <1>5, <1>6, <1>7 DEF StatementNext

\* A parsed file of one statement has a row per entry with that entry's own
\* narration, a balance difference that is the bank's error and what could not
\* be read, and a transaction for exactly the entries without fault, each
\* moving the account as its entry did: for every statement a bank may send,
\* wrapped, headless, dashed or plain, in MT940, CAMT.053 or CSV.
THEOREM StatementsAccounted == StatementSpec => []StatementAccounted
<1>1. StatementInit => StatementInv
  BY StatementStart
<1>2. StatementInv /\ [StatementNext]_statementVars => StatementInv'
  BY StatementSteps
<1>3. StatementInv => StatementAccounted
  BY DEF StatementInv
<1>4. QED
  BY <1>1, <1>2, <1>3, PTL DEF StatementSpec
=============================================================================
