------------------------------ MODULE Accounts ------------------------------
(***************************************************************************)
(* Users and their API keys: creating a user, issuing a key, deactivating  *)
(* a user (which revokes the keys issued so far) and authenticating a      *)
(* request, as overlapping transactions of administrators.                 *)
(***************************************************************************)

CONSTANTS
    Users,         \* usernames
    ApiKeys,       \* keys that can be issued
    Admins         \* administrators' requests: their own keys belong to no user here

NoUser == "nobody"

ASSUME AccountAssumption == NoUser \notin Users \cup ApiKeys

VARIABLES
    userState,     \* "absent", "active" or "inactive", as committed
    keyRow,        \* each key's owner and whether it is revoked, as committed,
                   \* and (history) whether its INSERT found the owner deactivated
    admin,         \* the request an administrator has under way
    usersLock,     \* the holder, if any, of the users chain's lock
    accepted       \* the authentications so far: key, and the owner's state then

accountVars == <<userState, keyRow, admin, usersLock, accepted>>

NoKey == [owner |-> NoUser, revoked |-> FALSE, issued |-> FALSE, after |-> FALSE]
Idle == [op |-> "idle", user |-> NoUser, key |-> NoUser, at |-> "start", revoke |-> {}, after |-> FALSE]

AccountInit ==
    /\ userState = [u \in Users |-> "absent"]
    /\ keyRow = [k \in ApiKeys |-> NoKey]
    /\ admin = [a \in Admins |-> Idle]
    /\ usersLock = {}
    /\ accepted = {}
---------------------------------------------------------------------------
\* authenticate: the key exists and is not revoked, and its user is active.
Valid(k) ==
    /\ keyRow[k].issued /\ ~keyRow[k].revoked
    /\ userState[keyRow[k].owner] = "active"

authenticate(k) ==
    /\ Valid(k)
    /\ accepted' = accepted \cup {<<k, userState[keyRow[k].owner]>>}
    /\ UNCHANGED <<userState, keyRow, admin, usersLock>>

\* Locks on a user's row.  deactivate_user holds it FOR UPDATE; the foreign key
\* of an inserted key holds it FOR KEY SHARE; an inserted user holds its name.
Excludes(op, at) == op \in {"deactivate", "create"} /\ at # "start"
Shares(op, at) == op = "issue" /\ at \in {"inserted", "audited"}
Unlocked(a, u) == \A o \in Admins \ {a} :
    admin[o].user = u => ~Excludes(admin[o].op, admin[o].at)
Unshared(a, u) == \A o \in Admins \ {a} :
    admin[o].user = u => ~Shares(admin[o].op, admin[o].at)

Ended(a) == /\ admin' = [admin EXCEPT ![a] = Idle]
            /\ usersLock' = usersLock \ {a}

\* create_user: the INSERT waits for another one of the same name; a taken
\* name is a 409.
create_user(a, u) ==
    /\ admin[a].op = "idle"
    /\ Unlocked(a, u)
    /\ userState[u] = "absent"
    /\ admin' = [admin EXCEPT ![a] = [Idle EXCEPT !.op = "create", !.user = u, !.at = "inserted"]]
    /\ UNCHANGED <<userState, keyRow, usersLock, accepted>>

\* issue_api_key reads the user without a lock ...
issue_api_key(a, u, k) ==
    /\ admin[a].op = "idle"
    /\ userState[u] = "active"
    /\ admin' = [admin EXCEPT ![a] = [Idle EXCEPT !.op = "issue", !.user = u, !.key = k]]
    /\ UNCHANGED <<userState, keyRow, usersLock, accepted>>

\* ... and inserts the key; the unique label and hash make it the only one.
InsertKey(a) ==
    /\ admin[a].op = "issue" /\ admin[a].at = "start"
    /\ Unlocked(a, admin[a].user)
    /\ \A o \in Admins \ {a} : ~(admin[o].key = admin[a].key /\ Shares(admin[o].op, admin[o].at))
    /\ IF keyRow[admin[a].key].issued
       THEN Ended(a)
       ELSE /\ admin' = [admin EXCEPT ![a].at = "inserted",
                                      ![a].after = userState[admin[a].user] = "inactive"]
            /\ UNCHANGED usersLock
    /\ UNCHANGED <<userState, keyRow, accepted>>

\* The keys the UPDATE finds: committed, of this user, not revoked.
KeysOf(u) == {k \in ApiKeys : keyRow[k].issued /\ keyRow[k].owner = u /\ ~keyRow[k].revoked}

deactivate_user_NoRowLock(a, u) ==
    /\ admin[a].op = "idle"
    /\ userState[u] # "absent"
    /\ admin' = [admin EXCEPT ![a] = [Idle EXCEPT !.op = "deactivate", !.user = u,
                                                 !.at = "inserted", !.revoke = KeysOf(u)]]
    /\ UNCHANGED <<userState, keyRow, usersLock, accepted>>

\* deactivate_user: the row FOR UPDATE, then UPDATE api_keys of the user.
deactivate_user(a, u) ==
    /\ admin[a].op = "idle"
    /\ userState[u] # "absent"
    /\ Unlocked(a, u) /\ Unshared(a, u)
    /\ admin' = [admin EXCEPT ![a] = [Idle EXCEPT !.op = "deactivate", !.user = u,
                                                 !.at = "inserted", !.revoke = KeysOf(u)]]
    /\ UNCHANGED <<userState, keyRow, usersLock, accepted>>

\* _audit_user: the users chain's lock, held to the commit.
AuditUser(a) ==
    /\ admin[a].at = "inserted"
    /\ usersLock = {}
    /\ usersLock' = {a}
    /\ admin' = [admin EXCEPT ![a].at = "audited"]
    /\ UNCHANGED <<userState, keyRow, accepted>>

CommitAdmin(a) ==
    /\ admin[a].at = "audited"
    /\ LET u == admin[a].user  op == admin[a].op IN
        /\ userState' = [userState EXCEPT ![u] =
                            CASE op = "create" -> "active"
                              [] op = "deactivate" -> "inactive"
                              [] OTHER -> @]
        /\ keyRow' = [k \in ApiKeys |->
                        IF op = "issue" /\ k = admin[a].key
                        THEN [owner |-> u, revoked |-> FALSE, issued |-> TRUE,
                              after |-> admin[a].after]
                        ELSE IF k \in admin[a].revoke
                        THEN [keyRow[k] EXCEPT !.revoked = TRUE]
                        ELSE keyRow[k]]
    /\ Ended(a)
    /\ UNCHANGED accepted

\* An error, or the end of the process, rolls back.
FailAdmin(a) ==
    /\ admin[a].op # "idle"
    /\ Ended(a)
    /\ UNCHANGED <<userState, keyRow, accepted>>

AccountNext ==
    \/ \E k \in ApiKeys : authenticate(k)
    \/ \E a \in Admins, u \in Users :
        create_user(a, u) \/ deactivate_user(a, u) \/ (\E k \in ApiKeys : issue_api_key(a, u, k))
    \/ \E a \in Admins : InsertKey(a) \/ AuditUser(a) \/ CommitAdmin(a) \/ FailAdmin(a)

AccountSpec == AccountInit /\ [][AccountNext]_accountVars
---------------------------------------------------------------------------
\* A deactivated user is locked out, whatever issue_api_key does meanwhile: it
\* reads the user without a lock, so a key may be committed after the
\* deactivation.  Every key whose INSERT came first is revoked (the row lock
\* makes deactivate_user wait for it, and its UPDATE then sees it); only a key
\* inserted afterwards stays unrevoked, and authenticate refuses that one by
\* its owner's state.
DeactivatedLockedOut ==
    /\ \A k \in ApiKeys :
        keyRow[k].issued /\ userState[keyRow[k].owner] = "inactive" =>
            keyRow[k].revoked \/ keyRow[k].after
    /\ \A x \in accepted : x[2] = "active"
=============================================================================
