--------------------------- MODULE BulkOperations ---------------------------
(***************************************************************************)
(* The bulk operations of app/api/v1/admin/bulk.py and the single-address  *)
(* edits of app/api/v1/admin/addresses.py over the table address_offerings.*)
(*                                                                         *)
(* Every statement of these handlers carries one technology_id, so rows of *)
(* different technologies never meet: the module is about one technology.  *)
(* A handler is one READ COMMITTED transaction: a SELECT sees what is      *)
(* committed and is an action of its own; a statement that writes locks    *)
(* its rows until COMMIT and is invisible until then, so the last writing  *)
(* statement and the COMMIT are one action.  The DELETE of the preview     *)
(* token comes earlier and holds its row lock up to COMMIT.                *)
(***************************************************************************)
EXTENDS Naturals, FiniteSets

CONSTANTS Address,     \* rc_code of an address
          User,        \* users with role editor or admin
          Editor,      \* those with role editor
          Field,       \* payload columns of an offering
          Value,       \* values of a payload column
          Token,       \* preview tokens that may be handed out (bound)
          Op,          \* bulk operations that may be executed (bound)
          Proc,        \* requests that may run at the same time (bound)
          MaxAffected, \* settings.bulk_max_affected
          RateLimit,   \* settings.bulk_editor_rate_limit
          Request,     \* operations the users ask to preview (bound)
          Editable,    \* addresses that are also edited one by one (bound)
          Horizon,     \* the age the operations of a history may reach (bound)
          None         \* SQL NULL, Python None, no row

VARIABLES live,     \* addresses that are not soft-deleted
          offering, \* the address_offerings row of each address, or None
          token,    \* bulk_preview_tokens
          bulk,     \* bulk_operations
          audit,    \* audit_log entries the latest step committed
          job,      \* the local state of each running request
          writer    \* history: the bulk operation that last wrote each address

vars == <<live, offering, token, bulk, audit, job, writer>>

-----------------------------------------------------------------------------
(* Rows and payloads *)

Val == [Field -> Value]
Patch == [Field -> Value \cup {None}]
Row == [val: Val, op: Op \cup {None}]
Kind == {"add", "change", "remove"}
\* Younger than a minute, younger than the 15 minutes of an editor, older.
AgeClass == {"minute", "window", "expired"}

NoPatch == [f \in Field |-> None]
NoValues == [a \in Address |-> None]

Operation ==
  [kind: {"add"}, data: Val] \cup [kind: {"change"}, data: Patch]
    \cup {[kind |-> "remove", data |-> NoPatch]}

ASSUME EditorAssumption == Editor \subseteq User
ASSUME NoneAssumption ==
  /\ None \notin Value \cup User \cup Token \cup Op \cup Address \cup Kind
  /\ None \notin Val \cup Row
  /\ None \notin [kind: Kind, codes: SUBSET Address, undone: BOOLEAN,
                 old: [Address -> Val \cup {None}]]
ASSUME FiniteAssumption == IsFiniteSet(Address) /\ IsFiniteSet(Proc)
ASSUME LimitAssumption == MaxAffected \in Nat /\ RateLimit \in Nat
ASSUME EditableAssumption == Editable \subseteq Address
ASSUME HorizonAssumption == Horizon \in AgeClass
ASSUME RequestAssumption == Request \subseteq Operation

\* "Any field left None is not changed."
Patched(val, patch) ==
  [f \in Field |-> IF patch[f] = None THEN val[f] ELSE patch[f]]

Present(S) == {a \in S : offering[a] # None}

NoToken == [state |-> "unused", expired |-> FALSE, user |-> None,
            kind |-> None, data |-> NoPatch, codes |-> {}]

\* codes and old are rollback_data: the codes created, modified or deleted and
\* the payloads they had; affected_count is the number of codes.
NoBulk == [state |-> "unused", user |-> None, kind |-> None, tok |-> None,
           codes |-> {}, old |-> NoValues, age |-> "minute", rolledBack |-> FALSE]

\* codes and seen: what the request has read; holds: its DELETE of the token
\* found the row and locks it; logged: addresses it has written to audit_log.
Idle == [pc |-> "idle", tok |-> None, op |-> None, holds |-> FALSE,
         codes |-> {}, seen |-> NoValues, logged |-> {}]

AuditEntry == [action: {"create", "update", "delete", "execute", "rollback"},
               address: Address \cup {None}, op: Op \cup {None}]

Entries(action, S, o) == [action: {action}, address: S, op: {o}]

TokenRow == [state: {"unused", "stored", "deleted"}, expired: BOOLEAN,
             user: User \cup {None}, kind: Kind \cup {None}, data: Patch,
             codes: SUBSET Address]

BulkRow == [state: {"unused", "done"}, user: User \cup {None},
            kind: Kind \cup {None}, tok: Token \cup {None},
            codes: SUBSET Address, old: [Address -> Val \cup {None}],
            age: AgeClass, rolledBack: BOOLEAN]

Job == [pc: {"idle", "token", "dispatch", "log", "write", "rollback"},
        tok: Token \cup {None}, op: Op \cup {None}, holds: BOOLEAN,
        codes: SUBSET Address, seen: [Address -> Val \cup {None}],
        logged: SUBSET Address]

TypeOK ==
  /\ live \subseteq Address
  /\ offering \in [Address -> Row \cup {None}]
  /\ token \in [Token -> TokenRow]
  /\ bulk \in [Op -> BulkRow]
  /\ audit \subseteq AuditEntry
  /\ job \in [Proc -> Job]
  /\ writer \in [Address -> Op \cup {None}]

Init ==
  /\ live = Address
  /\ offering = [a \in Address |-> None]
  /\ token = [t \in Token |-> NoToken]
  /\ bulk = [o \in Op |-> NoBulk]
  /\ audit = {}
  /\ job = [p \in Proc |-> Idle]
  /\ writer = [a \in Address |-> None]

-----------------------------------------------------------------------------
(* Preview *)

\* The token row is locked by a request that has deleted it and not committed.
Locked(t) == \E p \in Proc : job[p].tok = t /\ job[p].holds

\* The row goes; a request that has read it keeps the payload.
Deleted(t) == [token[t] EXCEPT !.state = "deleted", !.expired = FALSE]

Expired(t) == token[t].state = "stored" /\ token[t].expired

\* bulk_preview: the filter selects live buildings, a token keeps their codes,
\* and expired tokens are purged (the purge waits for locked rows).
Preview(p, u, S, op, t) ==
  LET codes == S \cap live IN
  /\ job[p] = Idle
  /\ codes # {}
  /\ Cardinality(codes) <= MaxAffected
  /\ token[t].state = "unused"
  /\ \A x \in Token : Expired(x) => ~ Locked(x)
  /\ token' = [x \in Token |->
       IF x = t THEN [state |-> "stored", expired |-> FALSE, user |-> u,
                      kind |-> op.kind, data |-> op.data, codes |-> codes]
       ELSE IF Expired(x) THEN Deleted(x)
       ELSE token[x]]
  /\ audit' = {}
  /\ UNCHANGED <<live, offering, bulk, job, writer>>

\* Five minutes pass since the preview.
Expire(t) ==
  /\ token[t].state = "stored"
  /\ ~ token[t].expired
  /\ token' = [token EXCEPT ![t].expired = TRUE]
  /\ audit' = {}
  /\ UNCHANGED <<live, offering, bulk, job, writer>>

-----------------------------------------------------------------------------
(* Execute *)

\* _recent_modified_count: the sum of affected_count over the user's operations
\* of the last minute that are not rolled back.
Recent(u) ==
  {o \in Op : /\ bulk[o].state = "done" /\ bulk[o].user = u
              /\ bulk[o].age = "minute" /\ ~ bulk[o].rolledBack}

RecentModified(u) ==
  Cardinality(UNION {{o} \X bulk[o].codes : o \in Recent(u)})

\* Mutant: the limit is compared with the request alone.
OverLimitAlone(t) ==
  /\ token[t].user \in Editor
  /\ Cardinality(token[t].codes) > RateLimit

OverLimit(t) ==
  /\ token[t].user \in Editor
  /\ RecentModified(token[t].user) + Cardinality(token[t].codes) > RateLimit

\* _consume_token, its SELECT: the token exists, is the caller's, is not expired.
\* Every other outcome rolls back and leaves all as it was.
ReadToken(p, t) ==
  /\ job[p] = Idle
  /\ token[t].state = "stored"
  /\ ~ token[t].expired
  /\ job' = [job EXCEPT ![p] = [@ EXCEPT !.pc = "token", !.tok = t]]
  /\ audit' = {}
  /\ UNCHANGED <<live, offering, token, bulk, writer>>

\* _consume_token, its DELETE: it waits for another request's uncommitted DELETE
\* of the row; a row already gone is zero rows deleted, which nobody checks.
\* The editor's rate limit comes next.
ConsumeToken(p) ==
  /\ job[p].pc = "token"
  /\ ~ Locked(job[p].tok)
  /\ ~ OverLimit(job[p].tok)
  /\ job' = [job EXCEPT ![p] = [@ EXCEPT
       !.pc = "dispatch",
       !.holds = (token[job[p].tok].state = "stored")]]
  /\ audit' = {}
  /\ UNCHANGED <<live, offering, token, bulk, writer>>

\* 422: the transaction rolls back, and with it the DELETE of the token.
RefuseRate(p) ==
  /\ job[p].pc = "token"
  /\ ~ Locked(job[p].tok)
  /\ OverLimit(job[p].tok)
  /\ job' = [job EXCEPT ![p] = Idle]
  /\ audit' = {}
  /\ UNCHANGED <<live, offering, token, bulk, writer>>

\* _execute_add_offering reads which of the addresses are still live.
SelectLive(p) ==
  LET t == token[job[p].tok] IN
  /\ job[p].pc = "dispatch"
  /\ t.kind = "add"
  /\ job' = [job EXCEPT ![p] = [@ EXCEPT
       !.pc = "write",
       !.codes = t.codes \cap live]]
  /\ audit' = {}
  /\ UNCHANGED <<live, offering, token, bulk, writer>>

\* Mutant: the rows are read without their payload.
SelectExistingCodes(p) ==
  LET t == token[job[p].tok] IN
  /\ job[p].pc = "dispatch"
  /\ t.kind \in {"change", "remove"}
  /\ job' = [job EXCEPT ![p] = [@ EXCEPT
       !.pc = IF t.kind = "change" THEN "write" ELSE "log",
       !.codes = Present(t.codes)]]
  /\ audit' = {}
  /\ UNCHANGED <<live, offering, token, bulk, writer>>

\* _execute_change_offering and _execute_remove_offering read the rows there
\* are, live address or not, into the data a rollback will use.
SelectExisting(p) ==
  LET t == token[job[p].tok]
      existing == Present(t.codes)
  IN
  /\ job[p].pc = "dispatch"
  /\ t.kind \in {"change", "remove"}
  /\ job' = [job EXCEPT ![p] = [@ EXCEPT
       !.pc = IF t.kind = "change" THEN "write" ELSE "log",
       !.codes = existing,
       !.seen = [a \in Address |-> IF a \in existing THEN offering[a].val ELSE None]]]
  /\ audit' = {}
  /\ UNCHANGED <<live, offering, token, bulk, writer>>

\* Mutant: the audit entries are joined after the DELETE and find no row.
LogRemovalAfterDelete(p) ==
  /\ job[p].pc = "log"
  /\ job' = [job EXCEPT ![p] = [@ EXCEPT !.pc = "write"]]
  /\ audit' = {}
  /\ UNCHANGED <<live, offering, token, bulk, writer>>

\* The removal writes its audit entries by joining the rows, before the DELETE.
LogRemoval(p) ==
  /\ job[p].pc = "log"
  /\ job' = [job EXCEPT ![p] = [@ EXCEPT
       !.pc = "write",
       !.logged = Present(job[p].codes)]]
  /\ audit' = {}
  /\ UNCHANGED <<live, offering, token, bulk, writer>>

\* Mutant: the DELETE of the token is not part of the transaction.
FinishKeepingToken(p, o, codes, wrote, entries) ==
  LET t == job[p].tok IN
  /\ bulk[o].state = "unused"
  /\ bulk' = [bulk EXCEPT ![o] =
       [state |-> "done", user |-> token[t].user, kind |-> token[t].kind,
        tok |-> t, codes |-> codes, old |-> job[p].seen,
        age |-> "minute", rolledBack |-> FALSE]]
  /\ audit' = entries \cup Entries("execute", {None}, o)
  /\ job' = [job EXCEPT ![p] = Idle]
  /\ writer' = [a \in Address |-> IF a \in wrote THEN o ELSE writer[a]]
  /\ UNCHANGED <<live, token>>

\* What every execute commits beside its rows.
Finish(p, o, codes, wrote, entries) ==
  LET t == job[p].tok IN
  /\ bulk[o].state = "unused"
  /\ bulk' = [bulk EXCEPT ![o] =
       [state |-> "done", user |-> token[t].user, kind |-> token[t].kind,
        tok |-> t, codes |-> codes, old |-> job[p].seen,
        age |-> "minute", rolledBack |-> FALSE]]
  /\ token' = IF job[p].holds THEN [token EXCEPT ![t] = Deleted(t)] ELSE token
  /\ audit' = entries \cup Entries("execute", {None}, o)
  /\ job' = [job EXCEPT ![p] = Idle]
  /\ writer' = [a \in Address |-> IF a \in wrote THEN o ELSE writer[a]]
  /\ UNCHANGED live

\* Mutant: ON CONFLICT DO UPDATE.
CommitAddUpsert(p, o) ==
  LET t == token[job[p].tok] IN
  /\ job[p].pc = "write"
  /\ t.kind = "add"
  /\ offering' = [a \in Address |->
       IF a \in job[p].codes THEN [val |-> t.data, op |-> o] ELSE offering[a]]
  /\ Finish(p, o, job[p].codes, job[p].codes, Entries("create", job[p].codes, o))

\* INSERT ... ON CONFLICT DO NOTHING RETURNING.
CommitAdd(p, o) ==
  LET t == token[job[p].tok]
      new == job[p].codes \ Present(job[p].codes)
  IN
  /\ job[p].pc = "write"
  /\ t.kind = "add"
  /\ offering' = [a \in Address |->
       IF a \in new THEN [val |-> t.data, op |-> o] ELSE offering[a]]
  /\ Finish(p, o, new, new, Entries("create", new, o))

\* UPDATE of the codes that were read; a row deleted since is not matched.
CommitChange(p, o) ==
  LET t == token[job[p].tok]
      found == Present(job[p].codes)
  IN
  /\ job[p].pc = "write"
  /\ t.kind = "change"
  /\ offering' = [a \in Address |->
       IF a \in found THEN [offering[a] EXCEPT !.val = Patched(@, t.data)]
                      ELSE offering[a]]
  /\ Finish(p, o, job[p].codes, found, Entries("update", found, o))

\* DELETE of the codes that were read.
CommitRemove(p, o) ==
  LET t == token[job[p].tok]
      found == Present(job[p].codes)
  IN
  /\ job[p].pc = "write"
  /\ t.kind = "remove"
  /\ offering' = [a \in Address |-> IF a \in found THEN None ELSE offering[a]]
  /\ Finish(p, o, job[p].codes, found, Entries("delete", job[p].logged, o))

-----------------------------------------------------------------------------
(* Rollback *)

\* The window of an editor: own operations, 15 minutes.
MayRollback(u, o) ==
  u \in Editor => bulk[o].user = u /\ bulk[o].age # "expired"

\* bulk_rollback, its SELECT and its checks (404, 409, 403).
BeginRollback(p, u, o) ==
  /\ job[p] = Idle
  /\ bulk[o].state = "done"
  /\ ~ bulk[o].rolledBack
  /\ MayRollback(u, o)
  /\ job' = [job EXCEPT ![p] = [@ EXCEPT !.pc = "rollback", !.op = o]]
  /\ audit' = {}
  /\ UNCHANGED <<live, offering, token, bulk, writer>>

\* What every rollback commits beside its rows.
FinishRollback(p, wrote) ==
  LET o == job[p].op IN
  /\ bulk' = [bulk EXCEPT ![o].rolledBack = TRUE]
  /\ audit' = Entries("rollback", {None}, o)
  /\ job' = [job EXCEPT ![p] = Idle]
  /\ writer' = [a \in Address |-> IF a \in wrote THEN None ELSE writer[a]]
  /\ UNCHANGED <<live, token>>

\* Mutant: the DELETE joins addresses and skips the soft-deleted ones.
RollbackAddLive(p) ==
  LET b == bulk[job[p].op]
      mine == {a \in Present(b.codes) \cap live : offering[a].op = job[p].op}
  IN
  /\ job[p].pc = "rollback"
  /\ b.kind = "add"
  /\ offering' = [a \in Address |-> IF a \in mine THEN None ELSE offering[a]]
  /\ FinishRollback(p, mine)

\* Mutant: the DELETE goes by the codes alone.
RollbackAddByCode(p) ==
  LET b == bulk[job[p].op] IN
  /\ job[p].pc = "rollback"
  /\ b.kind = "add"
  /\ offering' = [a \in Address |-> IF a \in b.codes THEN None ELSE offering[a]]
  /\ FinishRollback(p, b.codes)

\* DELETE of the created codes that still carry this bulk_operation_id.
RollbackAdd(p) ==
  LET b == bulk[job[p].op]
      mine == {a \in Present(b.codes) : offering[a].op = job[p].op}
  IN
  /\ job[p].pc = "rollback"
  /\ b.kind = "add"
  /\ offering' = [a \in Address |-> IF a \in mine THEN None ELSE offering[a]]
  /\ FinishRollback(p, mine)

\* The rows still there get their old payload; each is loaded and flushed before
\* the next one.  A row that vanishes between the two fails the request (Fail).
RollbackChange(p) ==
  LET b == bulk[job[p].op]
      found == Present(b.codes)
  IN
  /\ job[p].pc = "rollback"
  /\ b.kind = "change"
  /\ offering' = [a \in Address |->
       IF a \in found THEN [offering[a] EXCEPT !.val = b.old[a]] ELSE offering[a]]
  /\ FinishRollback(p, found)

\* Mutant: the rows inserted again carry the id of the operation.
RollbackRemoveTagged(p) ==
  LET b == bulk[job[p].op] IN
  /\ job[p].pc = "rollback"
  /\ b.kind = "remove"
  /\ Present(b.codes) = {}
  /\ offering' = [a \in Address |->
       IF a \in b.codes THEN [val |-> b.old[a], op |-> job[p].op] ELSE offering[a]]
  /\ FinishRollback(p, b.codes)

\* Mutant: a row that has come back is overwritten.
RollbackRemoveUpsert(p) ==
  LET b == bulk[job[p].op] IN
  /\ job[p].pc = "rollback"
  /\ b.kind = "remove"
  /\ offering' = [a \in Address |->
       IF a \in b.codes THEN [val |-> b.old[a], op |-> None] ELSE offering[a]]
  /\ FinishRollback(p, b.codes)

\* The deleted rows are inserted again, without a bulk_operation_id; one address
\* that has a row again makes the unique constraint fail the request (Fail).
RollbackRemove(p) ==
  LET b == bulk[job[p].op] IN
  /\ job[p].pc = "rollback"
  /\ b.kind = "remove"
  /\ Present(b.codes) = {}
  /\ offering' = [a \in Address |->
       IF a \in b.codes THEN [val |-> b.old[a], op |-> None] ELSE offering[a]]
  /\ FinishRollback(p, b.codes)

\* A constraint violation, a lost connection, a deadlock or a crash before the
\* COMMIT: the transaction is rolled back and its locks are released.
Fail(p) ==
  /\ job[p].pc # "idle"
  /\ job' = [job EXCEPT ![p] = Idle]
  /\ audit' = {}
  /\ UNCHANGED <<live, offering, token, bulk, writer>>

-----------------------------------------------------------------------------
(* Single-address edits: one row is looked up, written and committed. *)

Edited(p, a, row, action) ==
  /\ job[p] = Idle
  /\ offering' = [offering EXCEPT ![a] = row]
  /\ audit' = Entries(action, {a}, None)
  /\ writer' = [writer EXCEPT ![a] = None]
  /\ UNCHANGED <<live, token, bulk, job>>

\* 409 when a row exists, also by the unique constraint; no check of liveness.
CreateOffering(p, a, val) ==
  /\ offering[a] = None
  /\ Edited(p, a, [val |-> val, op |-> None], "create")

\* Mutant: fields the body leaves out are set to NULL.
UpdateOfferingAll(p, a, patch) ==
  /\ offering[a] # None
  /\ Edited(p, a, [offering[a] EXCEPT !.val = patch], "update")

UpdateOffering(p, a, patch) ==
  /\ offering[a] # None
  /\ Edited(p, a, [offering[a] EXCEPT !.val = Patched(offering[a].val, patch)], "update")

DeleteOffering(p, a) ==
  /\ offering[a] # None
  /\ Edited(p, a, None, "delete")

-----------------------------------------------------------------------------
(* The register sync soft-deletes and revives addresses; time passes. *)

SyncAddress(a) ==
  /\ live' = IF a \in live THEN live \ {a} ELSE live \cup {a}
  /\ audit' = {}
  /\ UNCHANGED <<offering, token, bulk, job, writer>>

Age(o) ==
  /\ bulk[o].state = "done"
  /\ bulk[o].age # Horizon
  /\ bulk' = [bulk EXCEPT ![o].age = IF @ = "minute" THEN "window" ELSE "expired"]
  /\ audit' = {}
  /\ UNCHANGED <<live, offering, token, job, writer>>

Execute(p) ==
  \/ \E t \in Token : ReadToken(p, t)
  \/ ConsumeToken(p)
  \/ RefuseRate(p)
  \/ SelectLive(p)
  \/ SelectExisting(p)
  \/ LogRemoval(p)
  \/ \E o \in Op : CommitAdd(p, o) \/ CommitChange(p, o) \/ CommitRemove(p, o)

Rollback(p) ==
  \/ \E u \in User, o \in Op : BeginRollback(p, u, o)
  \/ RollbackAdd(p)
  \/ RollbackChange(p)
  \/ RollbackRemove(p)

Bulk(p) ==
  \/ \E u \in User, S \in SUBSET Address, op \in Request, t \in Token :
       Preview(p, u, S, op, t)
  \/ Execute(p)
  \/ Rollback(p)
  \/ Fail(p)

Edits(p) ==
  \E a \in Editable :
    \/ \E val \in Val : CreateOffering(p, a, val)
    \/ \E patch \in Patch : UpdateOffering(p, a, patch)
    \/ DeleteOffering(p, a)

Environment ==
  \/ \E a \in Address : SyncAddress(a)
  \/ \E t \in Token : Expire(t)
  \/ \E o \in Op : Age(o)

Next == (\E p \in Proc : Bulk(p) \/ Edits(p)) \/ Environment

Spec == Init /\ [][Next]_vars

-----------------------------------------------------------------------------
(* Properties *)

\* A bulk operation that has committed has used up its preview token: whatever
\* the order of the SELECT, the DELETE and the COMMITs of the requests that
\* share the token, no later request can read it (_consume_token).
TokenRetired ==
  \A o \in Op : bulk[o].state = "done" => token[bulk[o].tok].state = "deleted"

\* Requests that read the token before the first of them committed are the only
\* ones that can execute it: at most one operation per concurrent request, so
\* exactly one when requests come one at a time.
TokenUseWithinConcurrency ==
  \A t \in Token :
    Cardinality({o \in Op : bulk[o].state = "done" /\ bulk[o].tok = t})
      <= Cardinality(Proc)

\* A row that carries a bulk_operation_id was created by that operation, which
\* is an addition nobody has rolled back: in particular the rollback of an
\* addition leaves no row of it behind, whatever edits, removals and rollbacks
\* of removals came between (bulk_rollback, branch add_offering).
TagsSound ==
  \A a \in Address : \A o \in Op :
    offering[a] # None /\ offering[a].op = o =>
      /\ bulk[o].state = "done" /\ bulk[o].kind = "add"
      /\ ~ bulk[o].rolledBack
      /\ a \in bulk[o].codes

\* The addresses an editor's operations of the last minute affected stay within
\* the limit times the number of requests that can run at once: each of them
\* compares with what is committed, so the limit itself holds for one request
\* at a time (bulk_execute, the check of bulk_editor_rate_limit).
RateLimitWithinConcurrency ==
  \A u \in Editor : RecentModified(u) <= RateLimit * Cardinality(Proc)

RollsBack(o) == ~ bulk[o].rolledBack /\ bulk'[o].rolledBack

\* Rolling an operation back undoes it at every address that nobody wrote
\* since: a created row is gone, a changed or removed one has the payload the
\* operation recorded (bulk_rollback, all three branches).
RollbackUndoes ==
  [][\A o \in Op : RollsBack(o) =>
       \A a \in bulk[o].codes : writer[a] = o =>
         IF bulk[o].kind = "add" THEN offering'[a] = None
         ELSE offering'[a] # None /\ offering'[a].val = bulk[o].old[a]]_vars

\* Neither an addition nor the rollback of a removal touches a row that is
\* already there (ON CONFLICT DO NOTHING, the unique constraint).
ExistingRowsKept ==
  [][\A o \in Op :
       \/ bulk[o].state = "unused" /\ bulk'[o].state = "done" /\ bulk'[o].kind = "add"
       \/ RollsBack(o) /\ bulk[o].kind = "remove"
       => \A a \in Address : offering[a] # None => offering'[a] = offering[a]]_vars

\* Every change of a row is in audit_log in the same transaction: an entry for
\* the address, or the rollback entry of an operation that affected it.
ChangesLogged ==
  [][\A a \in Address : offering'[a] # offering[a] =>
       \E e \in audit' :
         \/ e.address = a
         \/ e.action = "rollback" /\ a \in bulk[e.op].codes]_vars

\* With requests one at a time the handlers implement OfferingLedger: an
\* operation takes effect at its COMMIT on the rows it finds there, records
\* exactly what it replaces, and its rollback puts that back.
Ledger == INSTANCE OfferingLedger WITH
  undo <- [o \in Op |->
    IF bulk[o].state = "unused" THEN None
    ELSE [kind |-> bulk[o].kind, codes |-> bulk[o].codes,
          undone |-> bulk[o].rolledBack, old |-> bulk[o].old]]

ImplementsLedger == Ledger!Spec

\* What tests/api/test_bulk.py (test_execute_token_single_use) says: a token
\* executes once.
TokenSingleUse ==
  \A o1, o2 \in Op :
    o1 # o2 /\ bulk[o1].state = "done" /\ bulk[o2].state = "done"
      => bulk[o1].tok # bulk[o2].tok

\* What the specification says of the undo button: the rollback of an addition
\* deletes all the records it inserted.  A row another addition has created
\* since is not one of them.
RollbackDeletesCreated ==
  [][\A o \in Op : RollsBack(o) /\ bulk[o].kind = "add" =>
       \A a \in bulk[o].codes :
         \/ offering'[a] = None
         \/ \E o2 \in Op \ {o} : bulk[o2].kind = "add" /\ a \in bulk[o2].codes]_vars
=============================================================================
