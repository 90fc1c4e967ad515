# Formal models of etanetas-coverage

TLA+ modules, TLC runs and TLAPS proofs about the coverage service: the FastAPI
application under `app/` that keeps which address can get which technology, and
the ETL under `etl/` that keeps the Lithuanian address register up to date. All
paths in this file are relative to the root of the repository.

## 1. The system

The state is one PostgreSQL/PostGIS database, used at isolation READ COMMITTED
by many short transactions: requests of the API (one session per request,
`app/dependencies.py`), background tasks that run after the response
(`BackgroundTasks`), a command line (`app/cli.py`) and cron jobs (`etl/tasks`).
Nothing else is shared, so everything hard about the system is in the order of
statements and commits.

| Component | State | Operations | Interacts with |
|---|---|---|---|
| Bulk operations, `app/api/v1/admin/bulk.py` | `bulk_preview_tokens`, `bulk_operations`, `address_offerings`, `audit_log` | preview, execute (add, change, remove), rollback, two lists | edits (same rows), register sync (liveness of addresses), auto zones (a rebuild after each COMMIT) |
| Single-address offerings, `app/api/v1/admin/addresses.py` | `address_offerings`, `audit_log` | create, update, delete, search, read | the same |
| Auto zones, `app/auto_zones.py` | `service_zones`, `zone_offerings` | rebuild one technology (advisory lock), rebuild all, background rebuild | reads offerings and addresses; called by bulk, edits, GIS import, CLI |
| Zones API, `app/api/v1/admin/zones.py` | the same tables | create, update, delete of zones and of their offerings | edits auto zones between two rebuilds |
| GIS import, `app/gis_import.py` | `address_offerings`, `bulk_operations` | import, diff, removal of orphans, dry run | writes bulk operations that the API can roll back; rebuilds zones |
| Nightly sync, `etl/tasks/nightly_sync.py`, `etl/loaders/incremental_load.py` | `addresses`, `etl_state` (cursor, date) | read two change streams, apply, save the cursor, save the date | liveness and points of addresses |
| Full import and monthly resync, `etl/tasks/*.py`, `etl/state_db.py` | register tables, `etl_state` (checkpoint, cursor), download cache | nine checkpointed steps, resume, clear cache, mark the unseen deleted | overlaps with the nightly sync |
| Downloads and retries, `etl/downloaders`, `etl/utils` | files of the cache | download or reuse, retry with backoff, cancellation | feed the imports |
| Users and API keys, `app/api/v1/admin/users.py`, `app/auth.py` | `users`, `api_keys` | create, update, deactivate, issue and revoke keys, authenticate | every request |
| Technologies, `app/api/v1/admin/technologies.py` | `technologies`, `technology_types` | create, update, soft delete | offerings, zones |
| Audit log, `app/audit.py` | `audit_log` | append | every write |
| Public lookup, statistics, map, hierarchy | none | reads | |

What makes each of them correct:

* **Bulk operations.** A previewed token executes once; an operation takes effect
  at its COMMIT and records exactly what it replaced; rolling it back restores
  that wherever nobody wrote since, never destroys a row of somebody else, and
  happens once; an editor stays within the rate limit; every change of a row is
  in the audit log in the same transaction.
* **Auto zones.** After the last change of a technology's offerings its visible
  zones are the connected areas of its available offerings; concurrent rebuilds
  make no duplicates; a hidden zone that returns keeps its name; a lost rebuild
  is made up for.
* **Register sync.** Every change of the register arrives, changes are applied in
  an order that ends in the register's state, a crash or a retry loses nothing
  and repeats harmlessly; an address is marked deleted only if the register
  dropped it.
* **Downloads.** A step works on a complete file.
* **Users and keys.** Only an active admin with a valid key acts on users; a deactivated
  user has no working key, also after the account is activated again; a revoked key
  never comes back; a valid key is not refused.

The hazards, each at its line and with the properties that cover it, are listed
in `PROJECT.json`.

## 2. The modules

| Module | What it is |
|---|---|
| `OfferingLedger` | abstract specification: what the bulk API promises about `address_offerings` |
| `BulkOperations` | the handlers of `bulk.py` and the edits of `addresses.py`, statement by statement |
| `MCBulkOperations` | its instance for TLC |
| `AutoZones` | rebuilds of the automatic zones by background tasks, CLI and imports, and the hand edits that reach them |
| `MCAutoZones` | its instance for TLC |
| `RegisterSync` | the table `addresses` under the nightly sync and the monthly resync, over a change log |
| `MCRegisterSync` | its instance for TLC |
| `FullImport` | the checkpointed import, its cached files and retries, the monthly resync around it |
| `RegisterRows` | what becomes of one row of a register file: mappers and NOT NULL columns; `FullImport` extends it |
| `ApiKeys` | users and API keys: authentication, handlers, commands, background tasks |
| `MCApiKeys` | its instance for TLC |
| `BulkOperationsProofs` | theorems: type correctness, the preview token, its uses, the rate limit |
| `BulkRollbackProofs` | theorems: what rollbacks undo and leave alone |
| `BulkLedgerProofs` | theorems: the audit log, and that the handlers implement `OfferingLedger` |
| `AutoZonesProofs` | theorems: geometry, type correctness, exclusion of rebuilds |
| `AutoZonesCurrentProofs` | theorems: zones are disjoint, stable, current |
| `RegisterSyncProofs` | theorems: deletions, rows and the resync against the register |
| `FullImportProofs` | theorems: checkpoint, deletion by comparison, bad rows |
| `ApiKeysProofs` | theorems: authentication, authorisation, changes of users and keys |

### BulkOperations

Every statement of these handlers names one `technology_id`, so rows of different
technologies never meet, and the module is about one technology.

| Variable | In the code |
|---|---|
| `live` | `addresses.deleted_at IS NULL` |
| `offering` | the row of `address_offerings`: its payload columns and `bulk_operation_id` |
| `token` | `bulk_preview_tokens`: owner, operation, codes; `expired` is `expires_at < now()`; a deleted row stays visible to the request that read it |
| `bulk` | `bulk_operations`: `codes` and `old` are `rollback_data`, `affected_count` is the number of codes, `age` the time since `created_at` as far as the code tells it apart (1 minute, 15 minutes), `rolledBack` is `rolled_back_at`, `tok` a history of which token it used |
| `audit` | the entries of `audit_log` the latest step committed |
| `job` | the local variables of a running request and where it is |
| `writer` | history: which bulk operation wrote an address last |

Atomicity follows READ COMMITTED. A SELECT whose result is used later is an action
of its own (`ReadToken`, `SelectLive`, `SelectExisting`, `LogRemoval`,
`BeginRollback`). A statement that writes locks its rows up to COMMIT and nobody
sees its effect before, so the last writing statement and the COMMIT are one
action (`CommitAdd`, `CommitChange`, `CommitRemove`, `RollbackAdd`, ...), which
reads the rows as they are then, as the UPDATE or DELETE does after it has waited
for their locks. The DELETE of the token comes earlier: `ConsumeToken` waits while
another request has deleted the same row without committing (`Locked`), and if the
row is gone afterwards, zero rows are deleted and nobody checks (`holds` is FALSE).
`Fail` is every end without COMMIT: an exception, a constraint violation, a
deadlock that PostgreSQL breaks, a lost connection, a crash.

Left out, and why:

* the columns of the payload are `Field -> Value`; `updated_at` and `created_by`
  are not read by any branch;
* a rollback of a change writes rows one by one through the ORM; the model writes
  them together at COMMIT. A row's UPDATE waits for locks as the set-wise one does, a
  row that vanishes makes the request fail, and rows of different addresses do not
  depend on each other; the one thing the model does not show is that the ORM
  leaves out columns that already had the old value when it loaded them;
* a single-address edit is one action: it reads and writes one row, and what it
  read in vain (row created or deleted meanwhile) ends in 409 or in a failed
  request that changes nothing;
* `affected_count` of the answer, `Location` headers, samples of the preview.

### OfferingLedger

An operation happens at one instant, on rows that are there (change, remove) or
not there (add); it records what it replaced; its undo deletes the rows that still
are its own, restores the payload of those still there, or creates all of them
again if none has come back; single rows may be edited in between. `BulkOperations`
implements it when requests come one at a time (`ImplementsLedger`, refinement
mapping `undo`). With two requests it does not: the payload recorded for the
rollback is read before the rows are locked.

### AutoZones

| Variable | In the code |
|---|---|
| `offering` | status of the row of `address_offerings` per technology and address, "none" if there is no row |
| `live` | `addresses.deleted_at IS NULL` |
| `zone` | `service_zones` with `source = 'auto'`: hidden is `deleted_at` set, `poly` the addresses whose buffers the polygon unites, `tech` the technology in the generated name; ids are numbers in the order of `created_at` |
| `link` | `zone_offerings` as pairs of a zone and a technology |
| `job` | a transaction that rebuilds: what is left to rebuild, its advisory locks, what it has read, what it has written and not committed |
| `owed` | history: technologies whose last rebuild failed or was lost, or whose coverage or zones somebody changed without scheduling one |

A transaction sees what is committed under what it has written itself (`Rows`,
`Zones`, `Links`); what it has written blocks the other writers of the row
(`ZoneLocked`, `LinkLocked`, `RowsLocked`, `FlushBlockedBy`). The steps are those
of `_rebuild_for_technology`: `Acquire` (advisory lock and read of the
components), `ReadZones` (load of the zones, overlaps, greedy matching), `Flush`
(all writes of one technology), again for each technology in turn, `Commit`.
`Change` is any handler that commits changes of offerings and schedules a
background task; between the two, and at every later point, the task may be lost
(`Fail`).

Geometry is a finite picture of the plane: `Disc` gives the cells of the buffer of
an address, two addresses belong to one area when their buffers meet or a chain of
such pairs joins them (`Clusters`, as `ST_ClusterDBSCAN` with twice the radius and one
point), the overlap of two polygons is the number of common cells. The greedy pass is
stated by its result (`Greedy`): no two chosen pairs share a zone or a component,
and every pair left out gives way to a chosen one that precedes it. Pairs are
ordered by overlap, then by age of the zone; among components with the same number
of addresses the order is open, as in the SQL.

Left out: the locality and the numbering in names, `custom_name` (it stays with its
zone, so `IdentityStable` is about it), the maximal speeds, moving points, a
simplification of polygons by a metre. The row locks of one flush are taken
together.

### RegisterSync

| Variable | In the code |
|---|---|
| `changes` | external: the log of the register. Position is `_cid`; kinds are the records of the two streams: `enlist` and `strike` an address (`adresai/Adresas`), `upsert`, `settle`, `patch`, `raze` its building (`pastatas/Pastatas`) |
| `addresses` | the rows of `addresses`: `ver` the change the row says, `deleted` is `deleted_at` set |
| `places` | the position up to which localities and streets are loaded: a `settle` after it violates the foreign key |
| `adresai_cid`, `syncedToday` | the rows of `etl_state` with these meanings |
| `sync` | the local variables of `nightly_sync.run`: the cursor it read, how far each fetch reached |
| `resync` | the same of the monthly resync or a resumed import: position of its files, addresses to load, addresses seen since `sync_start` |
| `lost` | history: changes dropped (failed lookup, failed transaction, skipped record) or undone by older data |

Every COMMIT is an action: `ApplyAdresas`, `ApplyPastatas`, `SaveCid`, `SaveDate`,
`Load` (one row of `_import_addresses`), `SaveHeadCid`, `MarkDeleted`; so are the two
fetches, because the log grows between them. `ApplyPastatas` takes the records of its
stream in order, with up to `Failures` lookups that return None (the record is
skipped, or the street is missing), and either commits all or, with a locality that
is not loaded, nothing: the loop catches the error, PostgreSQL has aborted the
transaction, the COMMIT is a ROLLBACK, and the cursor advances all the same.
`Crash` ends a run at any point, cron starts it again from the saved cursor.

The properties do not say that the table equals the register, because it does not:
the code drops changes by design. They say that what is not in `lost` has arrived.
`lost` has what the code knowingly leaves to the monthly resync and the two cases it
does not know of (the window between the fetches, the head of one stream as cursor
for both); a change never gets into it by a crash, a repeated batch or the order of
the streams.

### FullImport and RegisterRows

| Variable | In the code |
|---|---|
| `edition` | external: the register publishes its files again |
| `cache` | the files in `etl_cache_dir`, whole or cut off; a cut-off file is `short` when reading it succeeds, `ragged` when it raises |
| `loaded` | the edition of the data in each table (`points`: the column `addresses.point`), 0 for none |
| `checkpoint` | `etl_state.full_import_step` |
| `job` | the running import: steps left, edition of the point lookup in memory, attempts of the running download |
| `base`, `cut`, `failures` | histories: edition at the last forced restart, tables last loaded from a cut-off file, failures so far (bound) |

`steps_to_run` is the function of `state_db.py`; `Proceed` is the top of a step (a
file that exists is taken as it is), `OpenFile` and `EndDownload` the two ends of
`stream_to_file`, `AttemptFails` the body of `with_exponential_backoff` with the
classes of exceptions each client retries, `LoadStep` the loop of a step,
`SaveStep` its checkpoint. What a cut-off csv file can look like is computed: `RegisterRows`
gives for each mapper the order in which it reads its cells, what each read raises, what
the mapper catches and which columns are NOT NULL; a file cut inside a row is ragged
if that row raises something else, and short otherwise (`ReadsOfCut`).
`LoadFails` has the foreign keys: a row of a newer file may refer to one that only a
newer file of its parent table has. Two imports at once are not modelled: nothing in
the code prevents them, but cron starts only the monthly one.

### ApiKeys

| Variable | In the code |
|---|---|
| `users` | `users`: role and `active` |
| `keys` | `api_keys`: owner, `legacy` is `key_prefix = '__legacy__'`, `revoked` is `revoked_at` set |
| `req` | a request or command: the key presented, the caller and the target as loaded in its session, the keys it has read; `since` a history of the rows others wrote meanwhile |
| `tasks` | pending `_set_prefix` tasks of each key |
| `commits` | bound |

A request is a chain of SELECTs (`Authenticate`, `AuthenticateLegacy`, `Read`, `Flush`)
and one COMMIT. The session keeps what it has loaded, and its flush writes only
attributes that differ from that (`Column`), so a PATCH that sets a column to the
value it had read writes nothing. An autoflush before the SELECT of the keys makes
`delete_user` hold the row of the user up to its COMMIT (`Locked`). The raw key
stands for its hash: `bcrypt.checkpw` succeeds for its own row only.

## 3. The runs

| Run | Instance | Shows |
|---|---|---|
| `bulk_concurrent` | 2 addresses, 2 requests of an admin, 2 tokens, 2 operations, no edits by hand | `TypeOK`, `TokenRetired`, `TagsSound`, `RollbackUndoes`, `ExistingRowsKept` in every interleaving of the statements of two requests |
| `bulk_edits` | 1 address that is also edited by hand, 2 requests of an editor, operations that leave the minute of the rate limit | the same properties against concurrent edits |
| `bulk_serial` | 2 addresses, 1 request, an editor, one address edited by hand | `ImplementsLedger`, `ChangesLogged`, `TokenUseWithinConcurrency` (= 1), `RateLimitWithinConcurrency` (= the limit) |
| `bulk_token_reuse` | 1 address, 2 requests | violates `TokenSingleUse` |
| `bulk_rollback_of_add` | 1 address, 1 request | violates `RollbackDeletesCreated` |
| `auto_zones` | 3 addresses in a line, the middle one joins the outer two; 1 technology, 2 rebuilds, 3 zones | `ZonesCurrent`, `ZonesDisjoint`, `IdentityStable` while areas merge, split, vanish and return and tasks are lost |
| `auto_zones_disturbed` | 2 addresses, all statuses, 2 transactions | `ZonesCurrent`, `ZonesDisjoint` with imports, the register sync, zones hidden by hand and rebuilds of everything |
| `auto_zones_liveness` | 2 technologies, 1 address, 2 transactions, zone offerings created and deleted by hand | `RebuildsEnd` under fairness, also out of deadlocks |
| `register_sync` | 2 addresses, a log of up to 5 changes, 1 nightly run beside 1 resync, 1 failed lookup in a batch, files up to 1 change old | `StruckDeleted`, `AddressCurrent`, `ResyncExact` under crashes, repeated batches, overlap |
| `full_import` | 2 editions, 3 failures, 2 attempts, a file that cannot be deleted | `CheckpointSound`, `BadRowsSkipped`, `MarkSafe`, and under fairness `Recovers` |
| `full_import_cut_file` | 1 edition, 1 failure | violates `NoDataLost` |
| `api_keys` | 3 users, 3 keys (one not migrated, one new with the same prefix), 2 requests, 10 operations | `Admitted`, `RefusedRightly`, `InForce`, `DeletedWithKeys`, `RevokedForGood` |

**Bounds.** `Token`, `Op` and `Proc` are finite in the runs: two operations are
what it takes for one to interfere with another, two requests for a race, two
addresses for a code set to be hit in part. `Request` has one operation of each
kind, with different payloads, so every pair of kinds meets; `Value` has two
values, so a restored payload can differ from the present one. `MaxAffected` and
`RateLimit` are 2 addresses: with two addresses an editor runs into the limit at
the second operation. `Horizon` bounds how old operations may get: an expired
window only takes transitions away. `Editable` bounds which addresses are edited by hand.
Tokens, operations and requests are symmetric: no property and no request names one.
Deadlock is checked everywhere: in `BulkOperations` the register sync can always
step, in `AutoZones` a transaction that runs can end and one that does not can start.

For `AutoZones`, three addresses in a line are the least in which areas merge and
split, three zones the most that one history of them needs at a time (a history
that would create a fourth stops there), two transactions the least for a race.
`Surveys`, `Given`, `Synced`, `Cli` and `HandEdits` bound what imports match, which
statuses are given, which addresses the sync touches, whether everything is
rebuilt and which zones are edited by hand; what a run leaves out another has.

For `RegisterSync`, the log starts with one address built and one listed (`Past`), each
registered before its building; two more changes suffice for each hazard: a deletion in the window between two
fetches, a deletion and an upsert of one address in one batch, a locality that is not
loaded. A resync that overlaps a nightly run is the interleaving that matters.
For `FullImport`, two editions tell old data from new, three failures let one run fail, its
successor fail and the third recover; `axes` stands for a file that cannot be
deleted. For `ApiKeys`, an admin acts on another admin or on himself, whose key is the
one not migrated; two requests are a race, `MaxCommits` = 2 lets each commit,
`MaxTasks` = 1 leaves one backfill pending. In `full_import` a finished import can
always be followed by a resync, in `register_sync` a run can always crash or start,
in `api_keys` a request can always begin: no run disables the check for deadlocks.

**Findings.** Three runs contradict what the repository says of itself.

* `bulk_token_reuse`: `tests/api/test_bulk.py:204` expects the second execute of a
  token to be refused. Two requests that both read the token before the first
  COMMIT both execute. `TokenRetired` and `TokenUseWithinConcurrency` say what
  does hold: after the first COMMIT no new request can start with the token.
* `bulk_rollback_of_add`: after add, remove, rollback of the removal, the rollback
  of the addition deletes nothing, because the rows came back without their
  `bulk_operation_id`, while the documentation (`docs/etanetas_adresu_sistema_TZ_v2.md:1536`)
  says the inserted records are deleted. `TagsSound` and `RollbackUndoes` say what
  does hold.
* `full_import_cut_file`: `etl/tasks/full_import.py:3` says that a run resumed after
  a failure loses no data. A download that breaks off leaves its file behind, the
  next run takes it for complete, and a csv file that ends early reads like a whole
  one. `CheckpointSound`, `MarkSafe` and `Recovers` say what does hold: nothing else makes a
  completed step hollow, and the monthly resync, which clears the cache, repairs it.

**Observations.** What the models show or leave out on purpose, without a run of its own:

* The rebuild knows its zones by their `zone_offerings`, and the zones API edits these
  on auto zones as well. Without its offering a zone is never hidden again and gets a
  double; with one of another technology it is hidden or moved by that technology's
  rebuild. `ZonesCurrent` and `ZonesDisjoint` are checked without these edits,
  `RebuildsEnd` with them.
* `rebuild-zones` without a technology asks `address_offerings` for the technologies
  (`app/auto_zones.py:93`): one whose last offering is gone keeps a stale zone.
* A change that appears in `adresai/Adresas` between the fetches of the two streams
  is passed over if the second fetch raises the cursor above it
  (`etl/tasks/nightly_sync.py:64`): a deletion then waits for the next resync
  (`Gap`). The monthly import saves the head of one stream as the cursor
  of both, ahead of the files it loaded (`Passed`).
* A batch with one record the database refuses is lost as a whole
  (`etl/loaders/incremental_load.py:104`), although the loop means to skip the record.
* An import resumed with a ragged cached file fails at that file every time, until the
  monthly resync clears the cache; `Recovers` counts on that.
* A row with too few cells, or a feature whose `properties` are null, aborts the import
  although the mappers are to return None on malformed rows
  (`etl/transformers/address_mapper.py:8`); `BadRowsSkipped` is about the
  rows that have all their columns.
* A key in use may be answered 401 once, when its migration commits between the two
  SELECTs of the authentication; and one that is not migrated is refused for as long as
  another usable key has its prefix (`Hidden`).
* Two admins can deactivate each other, and a PATCH can deactivate its own caller,
  which DELETE refuses. A DELETE that finds the user inactive does not set `active`
  again, so a PATCH that runs at the same time can leave the user active
  (`InForce` excuses requests that were overtaken).
* A key created while its user is being deactivated survives and works after a
  reactivation; `DeletedWithKeys` is about the keys that were there before.
* The rollback of a GIS import marks it rolled back and changes no offering, for its
  entry has no rollback data (`app/gis_import.py:332`).

**Fairness.** `RebuildsEnd` assumes strong fairness of the steps of a
rebuild, because the event loop runs what is scheduled and PostgreSQL serves the
waiters of a lock in the order they came, and weak fairness of the deadlock
detection, which runs after `deadlock_timeout`. It assumes nothing of failures,
which may or may not happen. `Recovers` assumes that a started import goes on (weak fairness
of its steps: the event loop runs it) and that cron starts the monthly resync again
and again (strong fairness: it may find an import running). Failures are bounded, so
from some point on runs succeed. All other properties are safety properties.

## 4. The proofs

Every safety property that a passing run checks is also a theorem, for every value of
the constants: any number of addresses, users, technologies, runs, tokens, operations,
editions, failures and concurrent requests. Each proof has the same outline. An
inductive invariant is stated in named parts; a lemma per action says what the action
leaves (its outcome), another that it preserves each part; the theorem combines
`Init => Inv`, `Inv /\ [Next]_vars => Inv'` and `Inv => Property`. TLC checked each
inductive invariant on a small instance before its proof.

**Assumptions.** They are those the modules name and TLC evaluates in the runs.
`None` is none of the values it stands beside (`NoneAssumption`, `NoneNotAValue`): it is
the absence of a row or of a value. Addresses, technologies and requests that run at once
are finitely many (`FiniteAssumption` of `BulkOperations` and `AutoZones`: the pool
of connections is finite), and a buffer has a point and finitely many cells
(`DiscAssumption`). Bounds are natural numbers; what the users ask is well formed
(`RequestAssumption`, `OperationsAssumption`); the register registers an
address before its building (`PastAssumption`, and the guard of `Publish`).

**BulkOperations.**

* `TypeInvariant`, `TypeCorrect`. `TypeOK` alone is not inductive: that a
  rollback writes rows of the right type needs the rollback data to hold a payload
  for each code (`BulkTyped`), which needs the same of a request between its
  SELECT and its COMMIT (`JobsTyped`), which needs the token it refers to to exist and
  to carry a complete payload (`TokensTyped`). `TypeInv` is their conjunction.
* `TokenRetiredCorrect`. The strengthening `TokenInv` adds: a request that is past its
  DELETE of the token either holds the lock of the row or the row is deleted.
  A deleted token stays deleted (`DeletedStable`).
* `TokenUseCorrect`. `UseInv`: the uses of a token and the requests that hold what they
  read of it are together no more than the requests there are. A COMMIT turns one of the
  latter into one of the former; a SELECT finds a token only before its first use.
* `RateLimitCorrect`. `LimitInv`: what is charged to an editor, and what the requests
  past the check may still add, is at most the limit times the number of requests. At
  the check the charged operations and the request itself are within the limit
  (`LimitChecked`), each other request adds at most the limit (`PairsBound`, by an
  injection, since induction over sets is not available); a COMMIT moves addresses from
  one side to the other (`LimitCommits`).
* `TagsSoundCorrect`. `TagsSound` is inductive together with `TypeInv`: an
  operation that commits was unused, so no row carries its id, and the rollback of an
  addition removes every row that does.
* `RollbackUndoesCorrect`. `WriterSound` adds what the last writer of an address
  left there: its own row, for an addition; some row, for a change.
* `ExistingRowsKeptCorrect`. From `TypeInv` and the sorting of the steps into quiet
  ones, commits, rollbacks and edits (`StepCases`).
* `ChangesLoggedCorrect`, `LedgerCorrect`, for requests that come one at a time
  (`OneAtATime`; with two requests both are false, which is what the hazards at these
  lines are about). `SerialInv` says that what a request has read is still so. The
  refinement has a lemma for each kind of step: `LedgerCommit`, `LedgerRollback`,
  `LedgerEdit`, and `LedgerStutter` for all others.

**AutoZones.**

* `TypeCorrect`, from `Base`: two transactions hold different advisory locks and write
  different zones (`Exclusive`), a rebuild has locked what it rebuilds, and what a transaction has read
  and written belongs to it (`JobSound`, `LoadedSound`).
* `ZonesDisjointCorrect`, `IdentityStableCorrect`, from `Owned`: a zone offers the
  technology it was built for; a transaction writes zones of technologies it has locked;
  what a rebuild has read is still so at its flush, but for zones hidden by hand;
  a hidden zone never competes with a visible one for the same area.
* `ZonesCurrentCorrect`, from `Settled`: a technology is owed a rebuild, has one pending,
  or every transaction that holds its lock has what the offerings cover, or, with the lock
  free, the table has it.
* The last three assume `HideOnly`: by hand automatic zones are at most hidden. With zone
  offerings created or deleted by hand they are false (section 3, observations). Both runs
  that check them satisfy it.

**RegisterSync.** Any number of nightly runs overlap with each other and with a resync.

* `TypeCorrect`, from `Base`: the log registers an address before its building, no
  cursor or position is beyond the log.
* `ResyncExactCorrect`, from `Mirrored`: what a resync has seen is as in its files.
* `StruckDeletedCorrect`, from `DeadInv`: the property holds for the saved cursor, for the
  cursor each run has read, and for what each has applied.
* `AddressCurrentCorrect`, from `ShownInv`: the same of the text of a row. It rests on the
  arithmetic of the greatest change up to a position (`Latest`, `Text`).

Proving `DeadInv` found a mistake in the model: `lost` took in the changes that older files
undo only as far as the saved cursor. With two nightly runs one may save a smaller cursor
than the other had read, and TLC then violates `StruckDeleted` at two runs. `Settled` now
reaches to the cursor that any run has read.

**FullImport and RegisterRows.**

* `TypeCorrect`, from `Control`: what is left to run are the steps after the
  checkpoint, and a file is there before it is read.
* `CheckpointSoundCorrect`, from `FilesCurrent` (no deletable file is older than the last
  forced restart, because the cache is emptied before the checkpoint is cleared) and
  `TablesSound` (completed steps, and the one about to be saved, are loaded from such files).
* `MarkSafeCorrect`, from `ResyncCurrent`: a resync reads only files it has downloaded to
  the end.
* `BadRowsSkippedCorrect`: over the mappers and NOT NULL columns of `RegisterRows`, by
  cases on the first cell whose reading raises.

**ApiKeys.** `Invariance` has `Inv`: no row goes away; a request carries what its
authentication found, a handler what it loaded, a revocation what it read, unless somebody
wrote the row since (`since`). `AdmittedCorrect` and `RefusedCorrect` follow from it,
`InForceCorrect`, `DeletedWithKeysCorrect` and `RevokedForGoodCorrect` are about the steps
from its states.

**Model-checked only:** `RebuildsEnd` and `Recovers`. Both are liveness under fairness, which
is out of the prover's reach, as is ENABLED.

## 5. Not modelled, and the plan

Not modelled:

* read-only endpoints (public lookup, statistics, map, hierarchy, lists): one SELECT
  and no state;
* the HTTP shell, telemetry, logging and pydantic validation: no state of the system;
* `technologies.py`: the handlers have the shape of those of the users, a soft
  delete touches neither offerings nor zones;
* schema migrations: one-off DDL;
* the mappers of Spinta records and premises in `address_mapper.py`, which no task calls;
* the audit entries of users, keys, zones and technologies: each is added to the same
  transaction as its change;
* two full imports at the same time, for nothing but a person would start the second.

The plan, in this order:

1. The import as a bulk operation, extending `BulkOperations`, with the removal of
   orphans, whose entry does have rollback data.
2. Abstract specifications for `RegisterSync` (the table follows the register) and for the
   zones (a technology's zones are a function of its coverage), with refinement proofs.
3. `ChangesLogged` for concurrent requests, restricted to the steps other than removals.

`PROJECT.json` lists every component with its status and the reason.
