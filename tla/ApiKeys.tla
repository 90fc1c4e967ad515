------------------------------ MODULE ApiKeys ------------------------------
(***************************************************************************)
(* Users and API keys: how a request is authenticated and authorised       *)
(* (app/auth.py), the handlers and commands that change users and keys     *)
(* (app/api/v1/admin/users.py, app/cli.py), and the background tasks that  *)
(* authentication leaves behind.                                           *)
(*                                                                         *)
(* A request has one session.  Its statements see what is committed when   *)
(* they run, so every SELECT that decides something is a step, and so is   *)
(* the COMMIT.  A flush writes only the columns that differ from what the  *)
(* session has loaded.                                                     *)
(***************************************************************************)
EXTENDS Integers, FiniteSets

CONSTANTS User,       \* users, by user name
          Key,        \* raw keys
          Request,    \* requests and commands that may be under way (bound)
          Operations, \* what they may ask for (bound)
          Prefix,     \* the first characters of a raw key
          FirstUsers, \* what the rows of users may be at the start
          FirstKeys,  \* the rows of api_keys at the start
          MaxTasks,   \* background tasks for a key (bound)
          MaxCommits, \* requests that commit (bound)
          None        \* NULL, no row, or not in the body

VARIABLES users,   \* the rows of users
          keys,    \* the rows of api_keys
          req,     \* the local state of the requests
          tasks,   \* background tasks that have not run
          commits  \* the number of requests that committed

vars == <<users, keys, req, tasks, commits>>

-----------------------------------------------------------------------------
(* Rows and requests *)

\* Editors and viewers are alike to the handlers of this module.
Role == {"admin", "viewer"}

UserRow == [role: Role, active: BOOLEAN]

\* legacy: key_prefix is "__legacy__".
KeyRow == [owner: User, legacy: BOOLEAN, revoked: BOOLEAN]

Command == {"create_admin", "revoke_keys"}
Handler == {"me", "create_user", "update_user", "delete_user", "create_key", "revoke_key"}

\* role and active: the body of create_user and update_user.
Operation == [kind: Command \cup Handler, on: User \cup Key \cup {None},
              role: Role \cup {None}, active: BOOLEAN \cup {None}]

ASSUME OperationsAssumption ==
  /\ Operations \subseteq Operation
  /\ \A op \in Operations :
       CASE op.kind = "me" -> op.on = None
         [] op.kind = "revoke_key" -> op.on \in Key
         [] OTHER -> op.on \in User
  /\ \A op \in Operations : op.kind \in {"create_user", "create_admin"} => op.role # None
ASSUME FirstRowsAssumption ==
  /\ FirstUsers \subseteq [User -> UserRow \cup {None}]
  /\ FirstKeys \in [Key -> KeyRow \cup {None}]
  /\ \A first \in FirstUsers, k \in Key :
       FirstKeys[k] # None => first[FirstKeys[k].owner] # None
ASSUME BoundsAssumption == MaxTasks \in Nat /\ MaxCommits \in Nat
ASSUME NoneAssumption == None \notin UserRow \cup KeyRow \cup Key

\* key: the one presented (None for a command); user: the caller as
\* authenticated; row: the target as loaded; read: the keys to revoke; since:
\* history, the rows others wrote since it was authenticated.
Req == [pc: {"idle", "fallback", "refused", "read", "flush", "commit"},
        key: Key \cup {None}, op: Operations \cup {None},
        user: UserRow \cup {None}, row: UserRow \cup {None},
        read: SUBSET Key, since: SUBSET (User \cup Key)]

Idle == [pc |-> "idle", key |-> None, op |-> None,
         user |-> None, row |-> None, read |-> {}, since |-> {}]

TypeOK ==
  /\ users \in [User -> UserRow \cup {None}]
  /\ keys \in [Key -> KeyRow \cup {None}]
  /\ req \in [Request -> Req]
  /\ tasks \in [Key -> 0..MaxTasks]
  /\ commits \in 0..MaxCommits

Init ==
  /\ users \in FirstUsers
  /\ keys = FirstKeys
  /\ req = [r \in Request |-> Idle]
  /\ tasks = [k \in Key |-> 0]
  /\ commits = 0

Owner(k) == keys[k].owner

\* revoked_at IS NULL (expires_at is never set), and the owner is active.
Usable(k) ==
  /\ keys[k] # None
  /\ ~ keys[k].revoked
  /\ users[Owner(k)].active

\* _candidates, for the prefix of a key and for the sentinel.
WithPrefix(k) == {j \in Key : Usable(j) /\ ~ keys[j].legacy /\ Prefix[j] = Prefix[k]}

\* Mutant: the fallback is dropped.
NoLegacy == {}

Legacy == {j \in Key : Usable(j) /\ keys[j].legacy}

-----------------------------------------------------------------------------
(* Authentication *)

\* Mutant: an editor or viewer may, too.
AuthorisedAny(user, op) == op.kind = "me" \/ user \in UserRow

\* require_role
Authorised(user, op) == op.kind = "me" \/ user.role = "admin"

Fallback(r, k, op) ==
  /\ req' = [req EXCEPT ![r] = [Idle EXCEPT !.pc = "fallback", !.key = k, !.op = op]]
  /\ UNCHANGED tasks

Refuse(r, k, since) ==
  /\ req' = [req EXCEPT ![r] = [Idle EXCEPT !.pc = "refused", !.key = k, !.since = since]]
  /\ UNCHANGED tasks

\* bcrypt matches: the background tasks, require_role, and the handler.
Accept(r, k, op) ==
  LET user == users[Owner(k)] IN
  /\ keys[k].legacy => tasks[k] < MaxTasks
  /\ tasks' = IF keys[k].legacy THEN [tasks EXCEPT ![k] = @ + 1] ELSE tasks
  /\ req' = [req EXCEPT ![r] =
       IF op.kind # "me" /\ Authorised(user, op)
       THEN [Idle EXCEPT !.pc = "read", !.key = k, !.op = op, !.user = user]
       ELSE Idle]

\* get_current_user: the rows with the prefix of the key ...
Authenticate(r, k, op) ==
  LET rows == WithPrefix(k) IN
  /\ req[r].pc \in {"idle", "refused"}
  /\ op.kind \in Handler
  /\ \/ rows = {} /\ Fallback(r, k, op)
     \/ k \in rows /\ Accept(r, k, op)
     \/ rows # {} /\ k \notin rows /\ Refuse(r, k, {})
  /\ UNCHANGED <<users, keys, commits>>

\* ... and, when there are none, the rows not migrated yet.
AuthenticateLegacy(r) ==
  LET k == req[r].key IN
  /\ req[r].pc = "fallback"
  /\ \/ k \in Legacy /\ Accept(r, k, req[r].op)
     \/ k \notin Legacy /\ Refuse(r, k, req[r].since)
  /\ UNCHANGED <<users, keys, commits>>

\* A command of cli.py needs no key.
Run(r, op) ==
  /\ req[r].pc \in {"idle", "refused"}
  /\ op.kind \in Command
  /\ req' = [req EXCEPT ![r] = [Idle EXCEPT !.pc = "read", !.op = op]]
  /\ UNCHANGED <<users, keys, tasks, commits>>

-----------------------------------------------------------------------------
(* The handlers *)

\* Mutant: the first key only.
UnrevokedFirst(u) ==
  {k \in Key : /\ keys[k] # None /\ Owner(k) = u /\ ~ keys[k].revoked
               /\ k = CHOOSE j \in Key : keys[j] # None /\ Owner(j) = u /\ ~ keys[j].revoked}

Unrevoked(u) == {k \in Key : keys[k] # None /\ Owner(k) = u /\ ~ keys[k].revoked}

Stop(r) == req' = [req EXCEPT ![r] = Idle]

\* The caller's own row is in the session since authentication.
Loaded(r, u) ==
  IF req[r].key # None /\ Owner(req[r].key) = u THEN req[r].user ELSE users[u]

\* 404, and the 409s: a user name taken, the caller's own account, a key revoked.
Rejected(r) ==
  LET op == req[r].op IN
  CASE op.kind \in {"create_user", "create_admin"} -> users[op.on] # None
    [] op.kind = "revoke_key" -> keys[op.on] = None \/ keys[op.on].revoked
    [] op.kind = "delete_user" -> Owner(req[r].key) = op.on \/ users[op.on] = None
    [] op.kind = "revoke_keys" -> users[op.on] = None \/ Unrevoked(op.on) = {}
    [] OTHER -> users[op.on] = None

\* The first SELECTs of the handler: what it decides from.
Read(r) ==
  LET op == req[r].op IN
  /\ req[r].pc = "read"
  /\ \/ Rejected(r) /\ Stop(r)
     \/ /\ ~ Rejected(r)
        /\ req' = [req EXCEPT ![r] = [@ EXCEPT
             !.pc = IF op.kind = "delete_user" THEN "flush" ELSE "commit",
             !.row = IF op.kind \in {"update_user", "delete_user"} THEN Loaded(r, op.on) ELSE None,
             !.read = CASE op.kind = "revoke_key" -> {op.on}
                        [] op.kind = "revoke_keys" -> Unrevoked(op.on)
                        [] OTHER -> {}]]
  /\ UNCHANGED <<users, keys, tasks, commits>>

\* The flush of delete_user holds the row of the user until the COMMIT.
Locked(r, u) ==
  \E q \in Request \ {r} : /\ req[q].pc = "commit" /\ req[q].op.kind = "delete_user"
                           /\ req[q].op.on = u /\ req[q].row.active

\* The UPDATE of users, if the row was loaded as active, and the SELECT of keys.
Flush(r) ==
  /\ req[r].pc = "flush"
  /\ req[r].row.active => ~ Locked(r, req[r].op.on)
  /\ req' = [req EXCEPT ![r] = [@ EXCEPT !.pc = "commit", !.read = Unrevoked(req[r].op.on)]]
  /\ UNCHANGED <<users, keys, tasks, commits>>

\* The COMMIT of r, or of a background task, writes these rows.
Committed(r, rows) ==
  /\ commits < MaxCommits
  /\ commits' = commits + 1
  /\ req' = [q \in Request |->
       IF q = r THEN Idle
       ELSE IF req[q].pc = "idle" THEN req[q]
       ELSE [req[q] EXCEPT !.since = @ \cup rows]]

Committing(r, kinds) == req[r].pc = "commit" /\ req[r].op.kind \in kinds

NewKey(u) == [owner |-> u, legacy |-> FALSE, revoked |-> FALSE]

\* The unique index fails the loser of two that create the same user: 500.
CreateUser(r) ==
  LET op == req[r].op
      row == [role |-> op.role, active |-> TRUE]
  IN
  /\ Committing(r, {"create_user", "create_admin"})
  /\ \/ /\ users[op.on] # None
        /\ Stop(r)
        /\ UNCHANGED <<users, keys, commits>>
     \/ /\ users[op.on] = None
        /\ users' = [users EXCEPT ![op.on] = row]
        /\ IF op.kind = "create_user"
           THEN keys' = keys /\ Committed(r, {op.on})
           ELSE \E k \in {j \in Key : keys[j] = None} :
                  keys' = [keys EXCEPT ![k] = NewKey(op.on)] /\ Committed(r, {op.on, k})
  /\ UNCHANGED <<tasks>>

\* Mutant: a column that is not in the body is set to NULL.
ColumnOfBody(current, loaded, body) == IF body = loaded THEN current ELSE body

\* Mutant: the whole row as loaded is written back.
ColumnOfRow(current, loaded, body) == IF body = None THEN loaded ELSE body

\* A column of the body that differs from the one loaded is written.
Column(current, loaded, body) == IF body = None \/ body = loaded THEN current ELSE body

\* exclude_none, and the flush: an UPDATE of the columns that change waits for a lock.
UpdateUser(r) ==
  LET op == req[r].op
      row == req[r].row
      old == users[op.on]
      new == [role |-> Column(old.role, row.role, op.role),
              active |-> Column(old.active, row.active, op.active)]
  IN
  /\ Committing(r, {"update_user"})
  /\ op.role \notin {None, row.role} \/ op.active \notin {None, row.active} => ~ Locked(r, op.on)
  /\ users' = [users EXCEPT ![op.on] = new]
  /\ Committed(r, {op.on})
  /\ UNCHANGED <<keys, tasks>>

Revoke(read) ==
  keys' = [k \in Key |-> IF k \in read THEN [keys[k] EXCEPT !.revoked = TRUE] ELSE keys[k]]

DeleteUser(r) ==
  LET u == req[r].op.on IN
  /\ Committing(r, {"delete_user"})
  /\ users' = IF req[r].row.active THEN [users EXCEPT ![u] = [@ EXCEPT !.active = FALSE]] ELSE users
  /\ Revoke(req[r].read)
  /\ Committed(r, {u} \cup req[r].read)
  /\ UNCHANGED <<tasks>>

\* The user may be inactive.
CreateKey(r) ==
  /\ Committing(r, {"create_key"})
  /\ \E k \in {j \in Key : keys[j] = None} :
       /\ keys' = [keys EXCEPT ![k] = NewKey(req[r].op.on)]
       /\ Committed(r, {k})
  /\ UNCHANGED <<users, tasks>>

RevokeKeys(r) ==
  /\ Committing(r, {"revoke_key", "revoke_keys"})
  /\ Revoke(req[r].read)
  /\ Committed(r, req[r].read)
  /\ UNCHANGED <<users, tasks>>

\* The client goes away, or the process: nothing is committed.
Abandon(r) ==
  /\ req[r].pc # "idle"
  /\ Stop(r)
  /\ UNCHANGED <<users, keys, tasks, commits>>

-----------------------------------------------------------------------------
(* The background tasks *)

Ran(k) ==
  /\ tasks[k] > 0
  /\ tasks' = [tasks EXCEPT ![k] = @ - 1]

\* Mutant: the row is written back as it was when the key was accepted.
BackfilledRow(row) == [row EXCEPT !.legacy = FALSE, !.revoked = FALSE]

Backfilled(row) == [row EXCEPT !.legacy = FALSE]

SetPrefix(k) ==
  /\ Ran(k)
  /\ keys' = [keys EXCEPT ![k] = Backfilled(@)]
  /\ req' = [q \in Request |-> IF req[q].pc = "idle" THEN req[q]
                               ELSE [req[q] EXCEPT !.since = @ \cup {k}]]
  /\ UNCHANGED <<users, commits>>

\* An SQLAlchemyError is logged, a restart forgets the task.
Drop(k) ==
  /\ Ran(k)
  /\ UNCHANGED <<users, keys, req, commits>>

-----------------------------------------------------------------------------
Handle(r) ==
  \/ \E k \in Key, op \in Operations : Authenticate(r, k, op)
  \/ AuthenticateLegacy(r)
  \/ \E op \in Operations : Run(r, op)
  \/ Read(r)
  \/ Flush(r)
  \/ CreateUser(r)
  \/ UpdateUser(r)
  \/ DeleteUser(r)
  \/ CreateKey(r)
  \/ RevokeKeys(r)
  \/ Abandon(r)

Next ==
  \/ \E r \in Request : Handle(r)
  \/ \E k \in Key : SetPrefix(k) \/ Drop(k)

Spec == Init /\ [][Next]_vars

-----------------------------------------------------------------------------
(* Properties *)

Overtaken(r, k) == {k, Owner(k)} \cap req[r].since # {}

\* A handler works for an active admin with a usable key, or for one whose row or
\* key somebody changed after the request was accepted (get_current_user and
\* require_role decide once, before the handler).
Admitted ==
  \A r \in Request :
    req[r].pc \in {"read", "flush", "commit"} /\ req[r].key # None =>
      LET k == req[r].key IN
      Overtaken(r, k) \/ (Usable(k) /\ users[Owner(k)].role = "admin")

\* A key that may be used is refused only if its row or its owner's was written
\* while the request looked for it (its backfill, too: neither SELECT finds a key
\* that is migrated between the two), or if it is not migrated and a usable key
\* with the same prefix hides it (the fallback runs only if no row is found).
Hidden(r, k) ==
  /\ keys[k].legacy
  /\ \E j \in Key \ {k} : /\ keys[j] # None /\ Prefix[j] = Prefix[k]
                          /\ Usable(j) \/ Overtaken(r, j)

RefusedRightly ==
  \A r \in Request :
    req[r].pc = "refused" /\ keys[req[r].key] # None =>
      LET k == req[r].key IN
      ~ Usable(k) \/ Overtaken(r, k) \/ Hidden(r, k)

\* A PATCH or DELETE that is answered with success is in force at its COMMIT, for
\* the columns it names, unless somebody else wrote the user since the request was
\* accepted; and a PATCH leaves the other columns as others wrote them.
Commits(r, kind) == Committing(r, {kind}) /\ req'[r].pc = "idle" /\ commits' = commits + 1

InForce ==
  [][\A r \in Request :
       LET op == req[r].op
           u == op.on
           alone == u \notin req[r].since
           new == users'[u]
       IN
       /\ Commits(r, "update_user") =>
            /\ op.role # None /\ alone => new.role = op.role
            /\ op.active # None /\ alone => new.active = op.active
            /\ op.role = None => new.role = users[u].role
            /\ op.active = None => new.active = users[u].active
       /\ Commits(r, "delete_user") /\ alone => ~ new.active]_vars

\* After a DELETE of a user no key of the user is valid that existed when the
\* request was accepted: a later PATCH that activates the user revives none.
DeletedWithKeys ==
  [][\A r \in Request :
       Commits(r, "delete_user") =>
         \A k \in Key \ req[r].since :
           keys'[k] # None /\ keys'[k].owner = req[r].op.on => keys'[k].revoked]_vars

\* A revoked key stays revoked and is not accepted again: the background tasks
\* left by its last uses write their own column only.
RevokedForGood ==
  [][\A k \in Key : keys[k] # None /\ keys[k].revoked =>
       /\ keys'[k].revoked
       /\ \A r \in Request : req'[r].pc = "read" /\ req'[r].key = k => req[r].pc = "read"]_vars
=============================================================================
