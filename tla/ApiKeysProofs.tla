---------------------------- MODULE ApiKeysProofs ----------------------------
(***************************************************************************)
(* Theorems about ApiKeys for every set of users, keys, prefixes and       *)
(* operations, and any number of concurrent requests.                      *)
(***************************************************************************)
EXTENDS ApiKeys, TLAPS

USE NoneAssumption, OperationsAssumption, BoundsAssumption

-----------------------------------------------------------------------------
(* The inductive invariant.  Of the rows: nobody deletes one.              *)

\* A key has an owner, a background task its key.
RowsSound ==
  \A k \in Key :
    /\ keys[k] # None => users[Owner(k)] # None
    /\ tasks[k] > 0 => keys[k] # None

\* Of a request, as predicates of its record: what it carries at each step ...
Handling(j) == j.pc \in {"read", "flush", "commit"}

ReqTyped(j) ==
  /\ j.pc \in {"fallback", "refused"} => j.key \in Key
  /\ j.pc = "fallback" => j.op \in Operations /\ j.op.kind \in Handler
  /\ Handling(j) =>
       /\ j.op \in Operations
       /\ j.op.kind \in Handler <=> j.key # None
       /\ j.key # None => keys[j.key] # None /\ j.user \in UserRow
  /\ j.pc = "flush" => j.op.kind = "delete_user"
  /\ j.pc \in {"flush", "commit"} /\ j.op.kind \in {"update_user", "delete_user"} =>
       j.row \in UserRow
  /\ j.pc \in {"flush", "commit"} /\ j.op.kind \in {"update_user", "delete_user", "create_key"} =>
       users[j.op.on] # None
  /\ \A k \in j.read : keys[k] # None

\* ... what its authentication found, or somebody wrote since ...
Stale(j, k) == k \in j.since \/ Owner(k) \in j.since

AdmittedReq(j) ==
  Handling(j) /\ j.key # None =>
    Stale(j, j.key) \/ (Usable(j.key) /\ users[Owner(j.key)].role = "admin")

HiddenReq(j, k) ==
  /\ keys[k].legacy
  /\ \E i \in Key \ {k} : /\ keys[i] # None /\ Prefix[i] = Prefix[k]
                          /\ Usable(i) \/ Stale(j, i)

RefusedReq(j) ==
  j.pc = "refused" /\ keys[j.key] # None =>
    ~ Usable(j.key) \/ Stale(j, j.key) \/ HiddenReq(j, j.key)

\* (the first SELECT found no row: the key is not migrated)
FallbackReq(j) ==
  j.pc = "fallback" /\ keys[j.key] # None =>
    ~ Usable(j.key) \/ Stale(j, j.key) \/ keys[j.key].legacy

\* ... and what its session has loaded.
LoadedReq(j) ==
  /\ j.pc = "read" /\ j.key # None =>
       Owner(j.key) \in j.since \/ users[Owner(j.key)] = j.user
  /\ j.pc \in {"flush", "commit"} /\ j.op.kind \in {"update_user", "delete_user"} =>
       j.op.on \in j.since \/ users[j.op.on] = j.row

RevokesReq(j) ==
  j.pc = "commit" /\ j.op.kind = "delete_user" =>
    \A k \in Key \ j.since :
      keys[k] # None /\ Owner(k) = j.op.on => k \in j.read \/ keys[k].revoked

ReqSound(j) ==
  /\ ReqTyped(j) /\ AdmittedReq(j) /\ RefusedReq(j)
  /\ FallbackReq(j) /\ LoadedReq(j) /\ RevokesReq(j)

Inv == TypeOK /\ RowsSound /\ \A r \in Request : ReqSound(req[r])

LEMMA IdleSound == Idle \in Req /\ ReqSound(Idle)
BY DEF Idle, Req, ReqSound, ReqTyped, AdmittedReq, RefusedReq, FallbackReq, LoadedReq,
       RevokesReq, Handling

LEMMA InitSound == Init => Inv
<1> SUFFICES ASSUME Init PROVE Inv
  OBVIOUS
<1>1. TypeOK
  BY IdleSound, FirstRowsAssumption DEF Init, TypeOK
<1>2. RowsSound
  BY FirstRowsAssumption DEF Init, RowsSound, Owner
<1>3. \A r \in Request : ReqSound(req[r])
  BY IdleSound DEF Init
<1> QED
  BY <1>1, <1>2, <1>3 DEF Inv

-----------------------------------------------------------------------------
(* What a step may do to the rows, and what that does to the requests that *)
(* do not take it.                                                         *)

\* Rows outside the given ones stay as they are; no row vanishes, no key changes
\* its owner, a revoked key stays revoked.
Wrote(rows) ==
  /\ \A u \in User : u \notin rows => users'[u] = users[u]
  /\ \A u \in User : users[u] # None => users'[u] # None
  /\ \A k \in Key : k \notin rows => keys'[k] = keys[k]
  /\ \A k \in Key : keys[k] # None =>
       /\ keys'[k] # None
       /\ keys'[k].owner = keys[k].owner
       /\ keys[k].revoked => keys'[k].revoked

\* A request that is told what others wrote remains sound.
LEMMA Witness ==
  ASSUME TypeOK, RowsSound, NEW j \in Req, ReqSound(j), NEW rows, Wrote(rows),
         TypeOK'
  PROVE  ReqSound([j EXCEPT !.since = @ \cup rows])'
<1> DEFINE i == [j EXCEPT !.since = @ \cup rows]
<1>1. /\ i.pc = j.pc /\ i.key = j.key /\ i.op = j.op /\ i.user = j.user
      /\ i.row = j.row /\ i.read = j.read /\ i.since = j.since \cup rows
  BY DEF Req
<1>2. j.key \in Key \cup {None} /\ j.read \subseteq Key
  BY DEF Req
<1>3. \A k \in Key : keys[k] # None =>
        /\ keys'[k] # None /\ keys'[k].owner = keys[k].owner /\ keys[k].owner \in User
        /\ users[keys[k].owner] # None
        /\ k \in rows \/ keys'[k] = keys[k]
        /\ keys[k].owner \in rows \/ users'[keys[k].owner] = users[keys[k].owner]
  BY DEF Wrote, TypeOK, RowsSound, Owner, KeyRow
<1> HIDE DEF i
<1>4. ReqTyped(i)'
  <2>1. j.pc \in {"flush", "commit"} /\ j.op.kind \in {"update_user", "delete_user", "create_key"} =>
          j.op.on \in User
    BY DEF ReqSound, ReqTyped, Handling
  <2> QED
    BY <1>1, <1>2, <1>3, <2>1 DEF ReqSound, ReqTyped, Handling, Wrote
<1>5. AdmittedReq(i)'
  BY <1>1, <1>2, <1>3 DEF ReqSound, ReqTyped, AdmittedReq, Handling, Stale, Usable, Owner
<1>6. RefusedReq(i)'
  BY <1>1, <1>2, <1>3
     DEF ReqSound, RefusedReq, ReqTyped, HiddenReq, Stale, Usable, Owner, Wrote
<1>7. FallbackReq(i)'
  BY <1>1, <1>2, <1>3
     DEF ReqSound, FallbackReq, ReqTyped, Stale, Usable, Owner, Wrote
<1>8. LoadedReq(i)'
  <2>1. j.pc \in {"flush", "commit"} /\ j.op.kind \in {"update_user", "delete_user"} =>
          j.op.on \in User
    BY DEF ReqSound, ReqTyped, Handling
  <2> QED
    BY <1>1, <1>2, <1>3, <2>1 DEF ReqSound, LoadedReq, ReqTyped, Handling, Owner, Wrote
<1>9. RevokesReq(i)'
  BY <1>1, <1>2, <1>3 DEF ReqSound, RevokesReq, ReqTyped, Owner, Wrote
<1> QED
  BY <1>4, <1>5, <1>6, <1>7, <1>8, <1>9 DEF ReqSound, i

\* Steps that write no rows: one request changes its own record.
LEMMA OwnStep ==
  ASSUME Inv, NEW r \in Request, NEW j \in Req, ReqSound(j),
         req' = [req EXCEPT ![r] = j],
         tasks' \in [Key -> 0..MaxTasks],
         \A k \in Key : tasks'[k] > 0 => keys[k] # None,
         UNCHANGED <<users, keys, commits>>
  PROVE  Inv'
<1>1. TypeOK'
  BY DEF Inv, TypeOK
<1>2. RowsSound'
  BY DEF Inv, RowsSound, Owner
<1>3. ASSUME NEW q \in Request PROVE ReqSound(req[q])'
  <2>1. req'[q] = IF q = r THEN j ELSE req[q]
    BY DEF Inv, TypeOK
  <2>2. ReqSound(req'[q])
    BY <2>1 DEF Inv
  <2> QED
    BY <2>2 DEF ReqSound, ReqTyped, AdmittedReq, RefusedReq, FallbackReq, LoadedReq,
                RevokesReq, HiddenReq, Stale, Usable, Owner, Handling
<1> QED
  BY <1>1, <1>2, <1>3 DEF Inv

LEMMA StopStep ==
  ASSUME Inv, NEW r \in Request, Stop(r), UNCHANGED <<users, keys, tasks, commits>>
  PROVE  Inv'
BY OwnStep, IdleSound DEF Stop, Inv, RowsSound, TypeOK

\* Steps that write rows: every other request that is under way is told.
Told(q, rows) == \/ req[q].pc = "idle" /\ req'[q] = req[q]
                 \/ req'[q] = [req[q] EXCEPT !.since = @ \cup rows]

LEMMA RowsStep ==
  ASSUME Inv, NEW rows \in SUBSET (User \cup Key), Wrote(rows),
         DOMAIN req' = Request, req' = [q \in Request |-> req'[q]],
         \A q \in Request : req'[q] = Idle \/ Told(q, rows),
         users' \in [User -> UserRow \cup {None}], keys' \in [Key -> KeyRow \cup {None}],
         tasks' \in [Key -> 0..MaxTasks], commits' \in 0..MaxCommits,
         RowsSound'
  PROVE  Inv'
<1>1. ASSUME NEW q \in Request PROVE req'[q] \in Req
  <2>1. req[q] \in Req
    BY DEF Inv, TypeOK
  <2> QED
    BY <2>1, IdleSound DEF Told, Req
<1>2. TypeOK'
  BY <1>1 DEF TypeOK
<1>3. ASSUME NEW q \in Request PROVE ReqSound(req[q])'
  <2>1. ReqSound(req[q]) /\ req[q] \in Req /\ TypeOK /\ RowsSound
    BY DEF Inv, TypeOK
  <2>2. CASE req'[q] = Idle
    BY <2>2 DEF Idle, ReqSound, ReqTyped, AdmittedReq, RefusedReq, FallbackReq,
                LoadedReq, RevokesReq, Handling
  <2>3. CASE req[q].pc = "idle" /\ req'[q] = req[q]
    <3>1. req[q].read \subseteq Key
      BY <2>1 DEF Req
    <3> QED
      BY <2>1, <2>3, <3>1
         DEF ReqSound, ReqTyped, AdmittedReq, RefusedReq, FallbackReq, LoadedReq,
             RevokesReq, Handling, Wrote
  <2>4. CASE req'[q] = [req[q] EXCEPT !.since = @ \cup rows]
    BY <1>2, <2>1, <2>4, Witness
  <2> QED
    BY <2>2, <2>3, <2>4 DEF Told
<1> QED
  BY <1>2, <1>3 DEF Inv

-----------------------------------------------------------------------------
(* Every action preserves the invariant. *)

LEMMA AcceptSound ==
  ASSUME Inv, NEW r \in Request, NEW k \in Key, NEW op \in Operations,
         op.kind \in Handler, Usable(k), Accept(r, k, op),
         UNCHANGED <<users, keys, commits>>
  PROVE  Inv'
<1> DEFINE user == users[Owner(k)]
           j == [Idle EXCEPT !.pc = "read", !.key = k, !.op = op, !.user = user]
<1>1. keys[k] # None /\ Owner(k) \in User /\ user \in UserRow
  BY DEF Inv, TypeOK, RowsSound, Usable, Owner, KeyRow
<1>2. tasks' \in [Key -> 0..MaxTasks] /\ \A i \in Key : tasks'[i] > 0 => keys[i] # None
  BY <1>1 DEF Accept, Inv, TypeOK, RowsSound
<1>3. CASE op.kind # "me" /\ Authorised(user, op)
  <2>1. req' = [req EXCEPT ![r] = j]
    BY <1>3 DEF Accept
  <2>2. j \in Req
    BY <1>1 DEF Req, Idle
  <2>3. ReqSound(j)
    BY <1>1, <1>3
       DEF ReqSound, ReqTyped, AdmittedReq, RefusedReq, FallbackReq, LoadedReq,
           RevokesReq, Handling, Idle, Authorised
  <2> QED
    BY <1>2, <2>1, <2>2, <2>3, OwnStep
<1>4. CASE ~ (op.kind # "me" /\ Authorised(user, op))
  BY <1>2, <1>4, IdleSound, OwnStep DEF Accept
<1> QED
  BY <1>3, <1>4

LEMMA RefuseSound ==
  ASSUME Inv, NEW r \in Request, NEW k \in Key, NEW since \in SUBSET (User \cup Key),
         Refuse(r, k, since), UNCHANGED <<users, keys, commits>>,
         RefusedReq([Idle EXCEPT !.pc = "refused", !.key = k, !.since = since])
  PROVE  Inv'
<1> DEFINE j == [Idle EXCEPT !.pc = "refused", !.key = k, !.since = since]
<1>1. j \in Req
  BY DEF Req, Idle
<1>2. ReqSound(j)
  BY DEF ReqSound, ReqTyped, AdmittedReq, FallbackReq, LoadedReq, RevokesReq, Handling, Idle
<1> QED
  BY <1>1, <1>2, OwnStep DEF Refuse, Inv, TypeOK, RowsSound

LEMMA AuthenticateSound ==
  ASSUME Inv, NEW r \in Request, NEW k \in Key, NEW op \in Operations,
         Authenticate(r, k, op)
  PROVE  Inv'
<1> DEFINE rows == WithPrefix(k)
<1> USE DEF Authenticate
<1>1. CASE rows = {} /\ Fallback(r, k, op)
  <2> DEFINE j == [Idle EXCEPT !.pc = "fallback", !.key = k, !.op = op]
  <2>1. j \in Req
    BY DEF Req, Idle
  <2>2. ReqSound(j)
    BY <1>1 DEF ReqSound, ReqTyped, AdmittedReq, RefusedReq, FallbackReq, LoadedReq,
                RevokesReq, Handling, Idle, WithPrefix
  <2> QED
    BY <1>1, <2>1, <2>2, OwnStep DEF Fallback, Inv, TypeOK, RowsSound
<1>2. CASE k \in rows /\ Accept(r, k, op)
  BY <1>2, AcceptSound DEF WithPrefix
<1>3. CASE rows # {} /\ k \notin rows /\ Refuse(r, k, {})
  <2>1. PICK i \in rows : i # k
    BY <1>3
  <2>2. RefusedReq([Idle EXCEPT !.pc = "refused", !.key = k, !.since = {}])
    BY <1>3, <2>1 DEF RefusedReq, HiddenReq, Stale, WithPrefix, Usable, Idle
  <2> QED
    BY <1>3, <2>2, RefuseSound
<1> QED
  BY <1>1, <1>2, <1>3

LEMMA AuthenticateLegacySound ==
  ASSUME Inv, NEW r \in Request, AuthenticateLegacy(r)
  PROVE  Inv'
<1> DEFINE k == req[r].key
<1> USE DEF AuthenticateLegacy
<1>1. ReqSound(req[r]) /\ req[r] \in Req
  BY DEF Inv, TypeOK
<1>2. k \in Key /\ req[r].op \in Operations /\ req[r].op.kind \in Handler
      /\ req[r].since \in SUBSET (User \cup Key)
  BY <1>1 DEF ReqSound, ReqTyped, Req
<1>3. CASE k \in Legacy /\ Accept(r, k, req[r].op)
  BY <1>2, <1>3, AcceptSound DEF Legacy
<1>4. CASE k \notin Legacy /\ Refuse(r, k, req[r].since)
  <2>1. RefusedReq([Idle EXCEPT !.pc = "refused", !.key = k, !.since = req[r].since])
    BY <1>1, <1>2, <1>4 DEF ReqSound, RefusedReq, FallbackReq, Stale, Legacy, Usable, Idle
  <2> QED
    BY <1>2, <1>4, <2>1, RefuseSound
<1> QED
  BY <1>3, <1>4

LEMMA RunSound ==
  ASSUME Inv, NEW r \in Request, NEW op \in Operations, Run(r, op)
  PROVE  Inv'
<1> DEFINE j == [Idle EXCEPT !.pc = "read", !.op = op]
<1>1. j \in Req
  BY DEF Req, Idle
<1>2. ReqSound(j)
  BY DEF Run, ReqSound, ReqTyped, AdmittedReq, RefusedReq, FallbackReq, LoadedReq,
         RevokesReq, Handling, Idle, Command, Handler
<1> QED
  BY <1>1, <1>2, OwnStep DEF Run, Inv, TypeOK, RowsSound

\* Who a request is about.
LEMMA Targets ==
  ASSUME NEW op \in Operations
  PROVE  /\ op.kind \in Command \cup Handler
         /\ op.kind \in {"create_user", "create_admin", "update_user", "delete_user",
                         "create_key", "revoke_keys"} => op.on \in User
         /\ op.kind = "revoke_key" => op.on \in Key
         /\ op.kind \in {"create_user", "create_admin"} => op.role \in Role
         /\ op.role \in Role \cup {None} /\ op.active \in BOOLEAN \cup {None}
BY DEF Operation, Command, Handler

LEMMA ReadSound ==
  ASSUME Inv, NEW r \in Request, Read(r)
  PROVE  Inv'
<1> DEFINE op == req[r].op
           kinds == {"update_user", "delete_user"}
           read == CASE op.kind = "revoke_key" -> {op.on}
                     [] op.kind = "revoke_keys" -> Unrevoked(op.on)
                     [] OTHER -> {}
           row == IF op.kind \in kinds THEN Loaded(r, op.on) ELSE None
           j == [req[r] EXCEPT !.pc = IF op.kind = "delete_user" THEN "flush" ELSE "commit",
                               !.row = row, !.read = read]
<1> USE DEF Read
<1>1. ReqSound(req[r]) /\ req[r] \in Req /\ op \in Operations
  BY DEF Inv, TypeOK, ReqSound, ReqTyped, Handling
<1>2. CASE Rejected(r) /\ Stop(r)
  BY <1>2, StopStep
<1>3. CASE ~ Rejected(r) /\ req' = [req EXCEPT ![r] = j]
  <2>1. op.kind = "revoke_key" => op.on \in Key /\ keys[op.on] # None
    BY <1>1, <1>3, Targets DEF Rejected
  <2>2. op.kind \in kinds \cup {"create_key"} => op.on \in User /\ users[op.on] # None
    BY <1>1, <1>3, Targets DEF Rejected
  <2>3. read \subseteq Key /\ \A k \in read : keys[k] # None
    BY <2>1 DEF Unrevoked
  <2>4. op.kind \in kinds =>
          row \in UserRow /\ (op.on \in req[r].since \/ users[op.on] = row)
    <3>1. users[op.on] \in UserRow \cup {None} \/ op.kind \notin kinds
      BY <2>2 DEF Inv, TypeOK
    <3> QED
      BY <1>1, <2>2, <3>1 DEF Loaded, ReqSound, ReqTyped, LoadedReq, Handling
  <2>5. /\ j.pc \in {"flush", "commit"} /\ (j.pc = "flush" <=> op.kind = "delete_user")
        /\ j.key = req[r].key /\ j.op = op /\ j.user = req[r].user
        /\ j.row = row /\ j.read = read /\ j.since = req[r].since
    BY <1>1 DEF Req
  <2>6. j \in Req
    BY <1>1, <2>3, <2>4 DEF Req
  <2> HIDE DEF j, row, read
  <2>7. ReqSound(j)
    BY <1>1, <2>2, <2>3, <2>4, <2>5
       DEF ReqSound, ReqTyped, AdmittedReq, RefusedReq, FallbackReq, LoadedReq,
           RevokesReq, Handling, Stale
  <2> QED
    BY <1>3, <2>6, <2>7, OwnStep DEF Inv, TypeOK, RowsSound, j
<1> QED
  BY <1>2, <1>3

LEMMA FlushSound ==
  ASSUME Inv, NEW r \in Request, Flush(r)
  PROVE  Inv'
<1> DEFINE read == Unrevoked(req[r].op.on)
           j == [req[r] EXCEPT !.pc = "commit", !.read = read]
<1> USE DEF Flush
<1>1. ReqSound(req[r]) /\ req[r] \in Req
  BY DEF Inv, TypeOK
<1>2. j \in Req
  BY <1>1 DEF Req, Unrevoked
<1>3. ReqSound(j)
  BY <1>1 DEF Req, ReqSound, ReqTyped, AdmittedReq, RefusedReq, FallbackReq, LoadedReq,
              RevokesReq, Handling, Stale, Unrevoked
<1> QED
  BY <1>2, <1>3, OwnStep DEF Inv, TypeOK, RowsSound

\* What a COMMIT does beside its rows.
LEMMA CommittedStep ==
  ASSUME Inv, NEW r \in Request, NEW rows, Committed(r, rows)
  PROVE  /\ DOMAIN req' = Request /\ req' = [q \in Request |-> req'[q]]
         /\ \A q \in Request : req'[q] = Idle \/ Told(q, rows)
         /\ commits' \in 0..MaxCommits
BY DEF Committed, Told, Inv, TypeOK

LEMMA CreateUserSound ==
  ASSUME Inv, NEW r \in Request, CreateUser(r)
  PROVE  Inv'
<1> DEFINE op == req[r].op
           row == [role |-> op.role, active |-> TRUE]
<1> USE DEF CreateUser
<1>1. op \in Operations /\ op.on \in User /\ row \in UserRow
  BY Targets DEF Inv, TypeOK, ReqSound, ReqTyped, Handling, Committing, UserRow
<1>2. CASE users[op.on] # None /\ Stop(r) /\ UNCHANGED <<users, keys, commits>>
  BY <1>2, StopStep
<1>3. CASE /\ users[op.on] = None
           /\ users' = [users EXCEPT ![op.on] = row]
           /\ keys' = keys /\ Committed(r, {op.on})
  <2>1. Wrote({op.on}) /\ RowsSound' /\ users' \in [User -> UserRow \cup {None}]
    BY <1>1, <1>3 DEF Wrote, RowsSound, Owner, Inv, TypeOK, KeyRow
  <2> QED
    BY <1>1, <1>3, <2>1, CommittedStep, RowsStep DEF Inv, TypeOK
<1>4. ASSUME NEW k \in Key, keys[k] = None,
             users[op.on] = None,
             users' = [users EXCEPT ![op.on] = row],
             keys' = [keys EXCEPT ![k] = NewKey(op.on)], Committed(r, {op.on, k})
      PROVE  Inv'
  <2>1. NewKey(op.on) \in KeyRow
    BY <1>1 DEF NewKey, KeyRow
  <2>2. Wrote({op.on, k}) /\ users' \in [User -> UserRow \cup {None}]
        /\ keys' \in [Key -> KeyRow \cup {None}]
    BY <1>1, <1>4, <2>1 DEF Wrote, Inv, TypeOK
  <2>3. RowsSound'
    BY <1>1, <1>4, <2>1 DEF RowsSound, Owner, NewKey, Inv, TypeOK, KeyRow
  <2> QED
    BY <1>1, <1>4, <2>2, <2>3, CommittedStep, RowsStep DEF Inv, TypeOK
<1> QED
  BY <1>2, <1>3, <1>4

LEMMA UpdateUserSound ==
  ASSUME Inv, NEW r \in Request, UpdateUser(r)
  PROVE  Inv'
<1> DEFINE op == req[r].op
           row == req[r].row
           new == [role |-> Column(users[op.on].role, row.role, op.role),
                   active |-> Column(users[op.on].active, row.active, op.active)]
<1> USE DEF UpdateUser
<1>1. op \in Operations /\ op.on \in User /\ users[op.on] \in UserRow
  BY Targets DEF Inv, TypeOK, ReqSound, ReqTyped, Handling, Committing
<1>2. new \in UserRow
  BY <1>1, Targets DEF Column, UserRow
<1>3. Wrote({op.on}) /\ RowsSound' /\ users' \in [User -> UserRow \cup {None}]
  BY <1>1, <1>2 DEF Wrote, RowsSound, Owner, Inv, TypeOK, KeyRow
<1> QED
  BY <1>1, <1>3, CommittedStep, RowsStep DEF Inv, TypeOK

\* Keys that are revoked have a row.
LEMMA RevokeWrites ==
  ASSUME Inv, NEW read \in SUBSET Key, \A k \in read : keys[k] # None, Revoke(read)
  PROVE  /\ keys' \in [Key -> KeyRow \cup {None}]
         /\ \A k \in Key :
              /\ k \notin read => keys'[k] = keys[k]
              /\ keys[k] # None => /\ keys'[k] # None
                                   /\ keys'[k].owner = keys[k].owner
                                   /\ keys[k].revoked => keys'[k].revoked
              /\ keys[k] = None => keys'[k] = None
BY DEF Revoke, Inv, TypeOK, KeyRow

LEMMA DeleteUserSound ==
  ASSUME Inv, NEW r \in Request, DeleteUser(r)
  PROVE  Inv'
<1> DEFINE u == req[r].op.on
           read == req[r].read
<1> USE DEF DeleteUser
<1>1. u \in User /\ users[u] \in UserRow /\ read \in SUBSET Key /\ \A k \in read : keys[k] # None
  BY Targets DEF Inv, TypeOK, ReqSound, ReqTyped, Handling, Committing, Req
<1>2. Wrote({u} \cup read)
  BY <1>1, RevokeWrites DEF Wrote, UserRow, Inv, TypeOK
<1>3. users' \in [User -> UserRow \cup {None}]
  BY <1>1 DEF UserRow, Inv, TypeOK
<1>4. RowsSound'
  BY <1>1, <1>2, RevokeWrites DEF RowsSound, Owner, Wrote, Inv, TypeOK, KeyRow
<1> QED
  BY <1>1, <1>2, <1>3, <1>4, RevokeWrites, CommittedStep, RowsStep DEF Inv, TypeOK

LEMMA CreateKeySound ==
  ASSUME Inv, NEW r \in Request, CreateKey(r)
  PROVE  Inv'
<1> DEFINE u == req[r].op.on
<1> USE DEF CreateKey
<1>1. u \in User /\ users[u] # None
  BY Targets DEF Inv, TypeOK, ReqSound, ReqTyped, Handling, Committing
<1>2. PICK k \in Key : /\ keys[k] = None
                       /\ keys' = [keys EXCEPT ![k] = NewKey(u)]
                       /\ Committed(r, {k})
  OBVIOUS
<1>3. NewKey(u) \in KeyRow
  BY <1>1 DEF NewKey, KeyRow
<1>4. Wrote({k}) /\ keys' \in [Key -> KeyRow \cup {None}]
  BY <1>2, <1>3 DEF Wrote, Inv, TypeOK
<1>5. RowsSound'
  BY <1>1, <1>2, <1>3 DEF RowsSound, Owner, NewKey, Inv, TypeOK, KeyRow
<1> QED
  BY <1>2, <1>4, <1>5, CommittedStep, RowsStep DEF Inv, TypeOK

LEMMA RevokeKeysSound ==
  ASSUME Inv, NEW r \in Request, RevokeKeys(r)
  PROVE  Inv'
<1> DEFINE read == req[r].read
<1> USE DEF RevokeKeys
<1>1. read \in SUBSET Key /\ \A k \in read : keys[k] # None
  BY DEF Inv, TypeOK, ReqSound, ReqTyped, Req
<1>2. Wrote(read)
  BY <1>1, RevokeWrites DEF Wrote, Inv, TypeOK
<1>3. RowsSound'
  BY <1>1, <1>2, RevokeWrites DEF RowsSound, Owner, Wrote, Inv, TypeOK, KeyRow
<1> QED
  BY <1>1, <1>2, <1>3, RevokeWrites, CommittedStep, RowsStep DEF Inv, TypeOK

\* Of the requests, by a step that leaves the rows and the requests alone.
LEMMA ReqFrame ==
  ASSUME Inv, users' = users, keys' = keys, req' = req
  PROVE  \A q \in Request : ReqSound(req[q])'
<1> SUFFICES ASSUME NEW q \in Request PROVE ReqSound(req[q])'
  OBVIOUS
<1>1. ReqSound(req[q])
  BY DEF Inv
<1>2. ReqTyped(req[q])'
  BY <1>1 DEF ReqSound, ReqTyped, Handling
<1>3. AdmittedReq(req[q])'
  BY <1>1 DEF ReqSound, AdmittedReq, Handling, Stale, Usable, Owner
<1>4. RefusedReq(req[q])'
  BY <1>1 DEF ReqSound, RefusedReq, HiddenReq, Stale, Usable, Owner
<1>5. FallbackReq(req[q])'
  BY <1>1 DEF ReqSound, FallbackReq, Stale, Usable, Owner
<1>6. LoadedReq(req[q])'
  BY <1>1 DEF ReqSound, LoadedReq, Owner
<1>7. RevokesReq(req[q])'
  BY <1>1 DEF ReqSound, RevokesReq, Owner
<1> QED
  BY <1>2, <1>3, <1>4, <1>5, <1>6, <1>7 DEF ReqSound

LEMMA TaskSound ==
  ASSUME Inv, NEW k \in Key, SetPrefix(k) \/ Drop(k)
  PROVE  Inv'
<1>1. /\ keys[k] \in KeyRow
      /\ tasks' \in [Key -> 0..MaxTasks]
      /\ \A i \in Key : tasks'[i] > 0 => keys[i] # None
  BY DEF SetPrefix, Drop, Ran, Inv, TypeOK, RowsSound
<1>2. CASE SetPrefix(k)
  <2>1. keys' \in [Key -> KeyRow \cup {None}] /\ Wrote({k})
    BY <1>1, <1>2 DEF SetPrefix, Backfilled, KeyRow, Wrote, Inv, TypeOK
  <2>2. RowsSound'
    BY <1>1, <1>2, <2>1 DEF RowsSound, Owner, Wrote, SetPrefix, Inv, TypeOK, KeyRow
  <2>3. /\ DOMAIN req' = Request /\ req' = [q \in Request |-> req'[q]]
        /\ \A q \in Request : Told(q, {k})
    BY <1>2 DEF SetPrefix, Told
  <2> QED
    BY <1>1, <1>2, <2>1, <2>2, <2>3, RowsStep DEF SetPrefix, Inv, TypeOK
<1>3. CASE Drop(k)
  <2>1. TypeOK'
    BY <1>1, <1>3 DEF Drop, Inv, TypeOK
  <2>2. RowsSound'
    BY <1>1, <1>3 DEF Drop, Inv, RowsSound, Owner
  <2>3. \A q \in Request : ReqSound(req[q])'
    BY <1>3, ReqFrame DEF Drop
  <2> QED
    BY <2>1, <2>2, <2>3 DEF Inv
<1> QED
  BY <1>2, <1>3

LEMMA NextSound == Inv /\ [Next]_vars => Inv'
<1> SUFFICES ASSUME Inv, [Next]_vars PROVE Inv'
  OBVIOUS
<1>1. ASSUME NEW r \in Request, Handle(r) PROVE Inv'
  <2>1. CASE \E k \in Key, op \in Operations : Authenticate(r, k, op)
    BY <2>1, AuthenticateSound
  <2>2. CASE AuthenticateLegacy(r)
    BY <2>2, AuthenticateLegacySound
  <2>3. CASE \E op \in Operations : Run(r, op)
    BY <2>3, RunSound
  <2>4. CASE Read(r)
    BY <2>4, ReadSound
  <2>5. CASE Flush(r)
    BY <2>5, FlushSound
  <2>6. CASE CreateUser(r)
    BY <2>6, CreateUserSound
  <2>7. CASE UpdateUser(r)
    BY <2>7, UpdateUserSound
  <2>8. CASE DeleteUser(r)
    BY <2>8, DeleteUserSound
  <2>9. CASE CreateKey(r)
    BY <2>9, CreateKeySound
  <2>10. CASE RevokeKeys(r)
    BY <2>10, RevokeKeysSound
  <2>11. CASE Abandon(r)
    BY <2>11, StopStep DEF Abandon
  <2> QED
    BY <1>1, <2>1, <2>2, <2>3, <2>4, <2>5, <2>6, <2>7, <2>8, <2>9, <2>10, <2>11 DEF Handle
<1>2. ASSUME NEW k \in Key, SetPrefix(k) \/ Drop(k) PROVE Inv'
  BY <1>2, TaskSound
<1>3. CASE UNCHANGED vars
  <2>1. TypeOK' /\ RowsSound'
    BY <1>3 DEF vars, Inv, TypeOK, RowsSound, Owner
  <2>2. \A q \in Request : ReqSound(req[q])'
    BY <1>3, ReqFrame DEF vars
  <2> QED
    BY <2>1, <2>2 DEF Inv
<1> QED
  BY <1>1, <1>2, <1>3 DEF Next

\* In every reachable state a request carries what its authentication found, or somebody
\* wrote the row or the key since, and what it is about to write exists.
THEOREM Invariance == Spec => []Inv
BY InitSound, NextSound, PTL DEF Spec

-----------------------------------------------------------------------------
(* The invariants. *)

\* Rows, keys, requests and counters keep their types: no handler works on a
\* key or user that is not there.
THEOREM TypeCorrect == Spec => []TypeOK
<1>1. Inv => TypeOK
  BY DEF Inv
<1> QED
  BY <1>1, Invariance, PTL

\* Authorisation (require_role): a handler works for an active admin, unless the
\* caller's row or key was written since.
THEOREM AdmittedCorrect == Spec => []Admitted
<1>1. Inv => Admitted
  <2> SUFFICES ASSUME Inv, NEW r \in Request, Handling(req[r]), req[r].key # None
               PROVE  \/ Overtaken(r, req[r].key)
                      \/ Usable(req[r].key) /\ users[Owner(req[r].key)].role = "admin"
    BY DEF Admitted, Handling
  <2> QED
    BY DEF Inv, ReqSound, AdmittedReq, Overtaken, Stale
<1> QED
  BY <1>1, Invariance, PTL

\* Authentication (get_current_user): a key that may be used is refused only if
\* a row changed meanwhile or a migrated key with its prefix hides it.
THEOREM RefusedCorrect == Spec => []RefusedRightly
<1>1. Inv => RefusedRightly
  <2> SUFFICES ASSUME Inv, NEW r \in Request, req[r].pc = "refused",
                      keys[req[r].key] # None
               PROVE  ~ Usable(req[r].key) \/ Overtaken(r, req[r].key)
                        \/ Hidden(r, req[r].key)
    BY DEF RefusedRightly
  <2>1. \A k : Stale(req[r], k) <=> Overtaken(r, k)
    BY DEF Stale, Overtaken
  <2> QED
    BY <2>1 DEF Inv, ReqSound, RefusedReq, HiddenReq, Hidden
<1> QED
  BY <1>1, Invariance, PTL

-----------------------------------------------------------------------------
(* The action properties. *)

\* A request whose record changes although somebody else took the step is only
\* told what was written.
LEMMA OthersTold ==
  ASSUME Inv, NEW q \in Request, Handle(q), NEW r \in Request
  PROVE  q = r \/ (req'[r].pc = req[r].pc /\ req'[r].key = req[r].key)
<1>1. CASE \E j : req' = [req EXCEPT ![q] = j]
  BY <1>1 DEF Inv, TypeOK
<1>2. CASE \E rows : Committed(q, rows)
  BY <1>2 DEF Committed, Inv, TypeOK, Req
<1>3. (\E j : req' = [req EXCEPT ![q] = j]) \/ (\E rows : Committed(q, rows))
  <2>1. CASE \E k \in Key, op \in Operations : Authenticate(q, k, op)
    BY <2>1 DEF Authenticate, Fallback, Accept, Refuse
  <2>2. CASE AuthenticateLegacy(q)
    BY <2>2 DEF AuthenticateLegacy, Accept, Refuse
  <2>3. CASE CreateUser(q) \/ UpdateUser(q) \/ DeleteUser(q) \/ CreateKey(q) \/ RevokeKeys(q)
    BY <2>3 DEF CreateUser, UpdateUser, DeleteUser, CreateKey, RevokeKeys, Stop
  <2>4. CASE Read(q)
    BY <2>4 DEF Read, Stop
  <2>5. CASE (\E op \in Operations : Run(q, op)) \/ Flush(q) \/ Abandon(q)
    BY <2>5 DEF Run, Flush, Abandon, Stop
  <2> QED
    BY <2>1, <2>2, <2>3, <2>4, <2>5 DEF Handle
<1> QED
  BY <1>1, <1>2, <1>3

\* A request that commits does so by the action of its kind.
LEMMA CommitsByAction ==
  ASSUME Inv, [Next]_vars, NEW r \in Request,
         Commits(r, "update_user") \/ Commits(r, "delete_user")
  PROVE  /\ Commits(r, "update_user") => UpdateUser(r)
         /\ Commits(r, "delete_user") => DeleteUser(r)
<1> USE DEF Commits, Committing
<1>1. commits \in Nat /\ commits' # commits /\ req[r] \in Req
  BY DEF Inv, TypeOK
<1>2. ~ UNCHANGED vars
  BY <1>1 DEF vars
<1>3. ~ \E k \in Key : SetPrefix(k) \/ Drop(k)
  BY <1>1 DEF SetPrefix, Drop
<1>4. PICK q \in Request : Handle(q)
  BY <1>2, <1>3 DEF Next
<1>5. q = r
  BY <1>1, <1>4, OthersTold
<1>6. UpdateUser(r) \/ DeleteUser(r)
  <2>1. ~ \E k \in Key, op \in Operations : Authenticate(r, k, op)
    BY DEF Authenticate
  <2>2. ~ CreateUser(r) /\ ~ CreateKey(r) /\ ~ RevokeKeys(r)
    BY DEF CreateUser, CreateKey, RevokeKeys
  <2>3. ~ Abandon(r)
    BY <1>1 DEF Abandon
  <2>4. ~ AuthenticateLegacy(r) /\ ~ (\E op \in Operations : Run(r, op)) /\ ~ Read(r) /\ ~ Flush(r)
    BY DEF AuthenticateLegacy, Run, Read, Flush
  <2> QED
    BY <1>4, <1>5, <2>1, <2>2, <2>3, <2>4 DEF Handle
<1> QED
  BY <1>6 DEF UpdateUser, DeleteUser

LEMMA InForceStep ==
  ASSUME Inv, [Next]_vars, NEW r \in Request
  PROVE  LET op == req[r].op
             u == op.on
             alone == u \notin req[r].since
             new == users'[u]
         IN
         /\ Commits(r, "update_user") =>
              /\ op.role # None /\ alone => new.role = op.role
              /\ op.active # None /\ alone => new.active = op.active
              /\ op.role = None => new.role = users[u].role
              /\ op.active = None => new.active = users[u].active
         /\ Commits(r, "delete_user") /\ alone => ~ new.active
<1> DEFINE op == req[r].op
           u == op.on
           row == req[r].row
<1>1. CASE Commits(r, "update_user")
  <2>1. UpdateUser(r)
    BY <1>1, CommitsByAction
  <2>2. u \in User /\ (u \in req[r].since \/ users[u] = row)
    BY <1>1, Targets DEF Commits, Committing, Inv, ReqSound, ReqTyped, LoadedReq, Handling
  <2>3. users'[u] = [role |-> Column(users[u].role, row.role, op.role),
                     active |-> Column(users[u].active, row.active, op.active)]
    BY <2>1, <2>2 DEF UpdateUser, Inv, TypeOK
  <2> QED
    BY <1>1, <2>2, <2>3 DEF Commits, Committing, Column
<1>2. CASE Commits(r, "delete_user")
  <2>1. DeleteUser(r)
    BY <1>2, CommitsByAction
  <2>2. u \in User /\ users[u] \in UserRow /\ (u \in req[r].since \/ users[u] = row)
    BY <1>2, Targets
       DEF Commits, Committing, Inv, TypeOK, ReqSound, ReqTyped, LoadedReq, Handling
  <2> QED
    BY <1>2, <2>1, <2>2 DEF DeleteUser, Commits, Committing, UserRow, Inv, TypeOK
<1> QED
  BY <1>1, <1>2

\* A PATCH or DELETE of a user that nobody overtook is in force at its COMMIT, and a
\* PATCH keeps the columns it does not name.
THEOREM InForceCorrect == Spec => InForce
<1>1. Inv /\ [Next]_vars =>
        [\A r \in Request :
           LET op == req[r].op
               u == op.on
               alone == u \notin req[r].since
               new == users'[u]
           IN
           /\ Commits(r, "update_user") =>
                /\ op.role # None /\ alone => new.role = op.role
                /\ op.active # None /\ alone => new.active = op.active
                /\ op.role = None => new.role = users[u].role
                /\ op.active = None => new.active = users[u].active
           /\ Commits(r, "delete_user") /\ alone => ~ new.active]_vars
  BY InForceStep
<1> QED
  BY <1>1, Invariance, PTL DEF Spec, InForce

LEMMA DeletedWithKeysStep ==
  ASSUME Inv, [Next]_vars, NEW r \in Request, Commits(r, "delete_user"),
         NEW k \in Key \ req[r].since, keys'[k] # None, keys'[k].owner = req[r].op.on
  PROVE  keys'[k].revoked
<1>1. DeleteUser(r)
  BY CommitsByAction
<1>2. k \in req[r].read => keys[k] \in KeyRow
  BY DEF Inv, TypeOK, ReqSound, ReqTyped
<1>3. keys'[k] = IF k \in req[r].read THEN [keys[k] EXCEPT !.revoked = TRUE] ELSE keys[k]
  BY <1>1 DEF DeleteUser, Revoke
<1>4. CASE k \in req[r].read
  BY <1>2, <1>3, <1>4 DEF KeyRow
<1>5. CASE k \notin req[r].read
  BY <1>3, <1>5 DEF Commits, Committing, Inv, ReqSound, RevokesReq, Owner
<1> QED
  BY <1>4, <1>5

\* A DELETE of a user leaves none of the keys valid that were there when the request
\* was accepted.
THEOREM DeletedWithKeysCorrect == Spec => DeletedWithKeys
<1>1. Inv /\ [Next]_vars =>
        [\A r \in Request :
           Commits(r, "delete_user") =>
             \A k \in Key \ req[r].since :
               keys'[k] # None /\ keys'[k].owner = req[r].op.on => keys'[k].revoked]_vars
  BY DeletedWithKeysStep
<1> QED
  BY <1>1, Invariance, PTL DEF Spec, DeletedWithKeys

\* Where the parts of an action leave the request.
LEMMA Outcomes ==
  ASSUME Inv, NEW r \in Request, NEW k
  PROVE  /\ Stop(r) => req'[r].pc = "idle"
         /\ \A rows : Committed(r, rows) => req'[r].pc = "idle"
         /\ \A op : Fallback(r, k, op) => req'[r].pc = "fallback"
         /\ \A since : Refuse(r, k, since) => req'[r].pc = "refused"
         /\ \A op : Accept(r, k, op) => req'[r].pc = "idle" \/ req'[r].key = k
<1>1. req \in [Request -> Req]
  BY DEF Inv, TypeOK
<1>2. /\ Stop(r) => req'[r].pc = "idle"
      /\ \A rows : Committed(r, rows) => req'[r].pc = "idle"
  BY <1>1 DEF Stop, Committed, Idle
<1>3. ASSUME NEW op, Fallback(r, k, op) PROVE req'[r].pc = "fallback"
  BY <1>1, <1>3 DEF Fallback, Idle
<1>4. ASSUME NEW since, Refuse(r, k, since) PROVE req'[r].pc = "refused"
  BY <1>1, <1>4 DEF Refuse, Idle
<1>5. ASSUME NEW op, Accept(r, k, op) PROVE req'[r].pc = "idle" \/ req'[r].key = k
  <2> DEFINE j == [Idle EXCEPT !.pc = "read", !.key = k, !.op = op, !.user = users[Owner(k)]]
  <2>1. req'[r] = j \/ req'[r] = Idle
    BY <1>1, <1>5 DEF Accept
  <2>2. j.key = k /\ Idle.pc = "idle"
    BY DEF Idle
  <2> QED
    BY <2>1, <2>2
<1> QED
  BY <1>2, <1>3, <1>4, <1>5

\* Only an acceptance starts a handler for a key, and only for a usable one.
LEMMA StartsByAccept ==
  ASSUME Inv, Next, NEW r \in Request, NEW k \in Key,
         req'[r].pc = "read", req'[r].key = k, req[r].pc # "read"
  PROVE  Usable(k)
<1>1. req[r] \in Req /\ req \in [Request -> Req]
  BY DEF Inv, TypeOK
<1>2. ASSUME NEW i \in Key, SetPrefix(i) \/ Drop(i) PROVE FALSE
  BY <1>1, <1>2 DEF SetPrefix, Drop, Req
<1>3. PICK q \in Request : Handle(q)
  BY <1>2 DEF Next
<1>4. q = r
  BY <1>1, <1>3, OthersTold
<1>5. CASE \E i \in Key, op \in Operations : Authenticate(r, i, op)
  <2>1. PICK i \in Key, op \in Operations : Authenticate(r, i, op)
    BY <1>5
  <2>2. i \in WithPrefix(i) /\ req'[r].key = i
    BY <2>1, Outcomes DEF Authenticate
  <2> QED
    BY <2>2 DEF WithPrefix
<1>6. CASE AuthenticateLegacy(r)
  <2>1. req[r].key \in Legacy /\ req'[r].key = req[r].key
    BY <1>6, Outcomes DEF AuthenticateLegacy
  <2> QED
    BY <2>1 DEF Legacy
<1>7. CASE \E op \in Operations : Run(r, op)
  BY <1>1, <1>7 DEF Run, Idle
<1>8. CASE CreateUser(r) \/ UpdateUser(r) \/ DeleteUser(r) \/ CreateKey(r) \/ RevokeKeys(r)
             \/ Abandon(r)
  BY <1>8, Outcomes DEF CreateUser, UpdateUser, DeleteUser, CreateKey, RevokeKeys, Abandon
<1>9. CASE Read(r)
  BY <1>9 DEF Read
<1>10. CASE Flush(r)
  BY <1>1, <1>10 DEF Flush, Req
<1> QED
  BY <1>3, <1>4, <1>5, <1>6, <1>7, <1>8, <1>9, <1>10 DEF Handle

LEMMA RevokedStays ==
  ASSUME Inv, Next, NEW k \in Key, keys[k] # None, keys[k].revoked
  PROVE  keys'[k].revoked
<1>1. keys[k] \in KeyRow
  BY DEF Inv, TypeOK
<1>2. CASE UNCHANGED keys
  BY <1>2
<1>3. ASSUME NEW read, Revoke(read) PROVE keys'[k].revoked
  BY <1>1, <1>3 DEF Revoke, KeyRow
<1>4. ASSUME NEW i \in Key, keys[i] = None, NEW row, keys' = [keys EXCEPT ![i] = row]
      PROVE  keys'[k].revoked
  BY <1>4 DEF Inv, TypeOK
<1>5. ASSUME NEW i \in Key, SetPrefix(i) PROVE keys'[k].revoked
  BY <1>1, <1>5 DEF SetPrefix, Backfilled, KeyRow, Inv, TypeOK
<1>6. ASSUME NEW r \in Request, Handle(r), ~ UNCHANGED keys PROVE keys'[k].revoked
  <2>1. CreateUser(r) \/ DeleteUser(r) \/ CreateKey(r) \/ RevokeKeys(r)
    BY <1>6 DEF Handle, Authenticate, AuthenticateLegacy, Run, Read, Flush, UpdateUser, Abandon
  <2>2. CASE CreateUser(r)
    BY <1>4, <1>6, <2>2 DEF CreateUser
  <2>3. CASE CreateKey(r)
    BY <1>4, <2>3 DEF CreateKey
  <2>4. CASE DeleteUser(r) \/ RevokeKeys(r)
    BY <1>3, <2>4 DEF DeleteUser, RevokeKeys
  <2> QED
    BY <2>1, <2>2, <2>3, <2>4
<1> QED
  BY <1>2, <1>5, <1>6 DEF Next, Drop

LEMMA RevokedForGoodStep ==
  ASSUME Inv, [Next]_vars, NEW k \in Key, keys[k] # None, keys[k].revoked
  PROVE  /\ keys'[k].revoked
         /\ \A r \in Request : req'[r].pc = "read" /\ req'[r].key = k => req[r].pc = "read"
<1>1. CASE UNCHANGED vars
  BY <1>1 DEF vars
<1>2. CASE Next
  BY <1>2, RevokedStays, StartsByAccept DEF Usable
<1> QED
  BY <1>1, <1>2

\* A revoked key stays revoked and is accepted by no request, whatever background
\* tasks are pending.
THEOREM RevokedForGoodCorrect == Spec => RevokedForGood
<1>1. Inv /\ [Next]_vars =>
        [\A k \in Key : keys[k] # None /\ keys[k].revoked =>
           /\ keys'[k].revoked
           /\ \A r \in Request :
                req'[r].pc = "read" /\ req'[r].key = k => req[r].pc = "read"]_vars
  BY RevokedForGoodStep
<1> QED
  BY <1>1, Invariance, PTL DEF Spec, RevokedForGood
=============================================================================
