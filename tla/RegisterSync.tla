---------------------------- MODULE RegisterSync ----------------------------
(***************************************************************************)
(* How the table addresses follows the national address register: the      *)
(* nightly sync (etl/tasks/nightly_sync.py, etl/loaders/incremental_load.py*)
(* over two change streams and one saved cursor, and the monthly resync    *)
(* (etl/tasks/monthly_full_resync.py) as far as it writes addresses and    *)
(* the cursor.  Module FullImport has the steps and files of an import.    *)
(*                                                                         *)
(* The register is external: a log of changes, whose position is the _cid; *)
(* the two streams share the numbering, as the one cursor of the code      *)
(* presumes.  Every COMMIT of the tasks is one action; they take no lock,  *)
(* so runs that overlap interleave at the COMMITs.                         *)
(***************************************************************************)
EXTENDS Integers, Sequences, FiniteSets, FiniteSetsExt

CONSTANTS Address,   \* rc_code of an address
          Run,       \* runs of the nightly sync that may overlap (bound)
          Past,      \* the changes before the first run
          Published, \* the changes the register may publish (bound)
          MaxCid,    \* length of the change log (bound)
          Failures,  \* lookups that fail in a batch (bound)
          MaxLag,    \* changes the files may be behind the register (bound)
          None       \* no row

VARIABLES changes,     \* the change log of the register
          addresses,   \* the rows of the table addresses
          places,      \* the position localities and streets are loaded up to
          adresai_cid, \* etl_state: the cursor of the nightly sync
          syncedToday, \* etl_state: last_nightly_sync_date is today
          sync,        \* the local state of the runs of the nightly sync
          resync,      \* the local state of the resync or full import
          lost         \* history: changes that were dropped or undone

vars == <<changes, addresses, places, adresai_cid, syncedToday, sync,
          resync, lost>>

etlVars == <<addresses, places, adresai_cid, syncedToday, sync, resync, lost>>

-----------------------------------------------------------------------------
(* The register *)

\* adresai/Adresas says which addresses exist, pastatas/Pastatas what they are.
\* A "settle" is an insert or update in a locality that is new in the register,
\* a "patch" a record without house number.
Kind == {"enlist", "strike", "upsert", "settle", "patch", "raze"}
Adresas == {"enlist", "strike"}
Pastatas == Kind \ Adresas
Full == {"upsert", "settle"}

Change == [kind: Kind, code: Address]

ASSUME PublishedAssumption == Published \subseteq Change
ASSUME PastAssumption ==
  /\ Past \in Seq(Change) /\ Len(Past) <= MaxCid
  /\ \A c \in 1..Len(Past) : Past[c].kind \in Pastatas =>
       \E e \in 1..(c - 1) : Past[e] = [kind |-> "enlist", code |-> Past[c].code]
ASSUME MaxCidAssumption == MaxCid \in Nat
ASSUME FailuresAssumption == Failures \in Nat
ASSUME MaxLagAssumption == MaxLag \in Nat

Now == Len(changes)
Position == 0..MaxCid

\* The changes of a stream, or of an address, after position m and up to n.
Between(kinds, m, n) == {c \in 1..Now : m < c /\ c <= n /\ changes[c].kind \in kinds}
Of(a, kinds, m, n) == {c \in Between(kinds, m, n) : changes[c].code = a}

Last(S) == Max(S \cup {0})

\* What the register says at position n.  Codes are never used again.
Listed(a, n) == Of(a, {"enlist"}, 0, n) # {} /\ Of(a, {"strike"}, 0, n) = {}
Built(a, n) ==
  LET c == Last(Of(a, Pastatas, 0, n)) IN c # 0 /\ changes[c].kind # "raze"
InRegister(a, n) == Listed(a, n) /\ Built(a, n)
Content(a, n) == Last(Of(a, Full \cup {"patch"}, 0, n))

Possible(change) ==
  CASE change.kind = "enlist" -> Of(change.code, {"enlist"}, 0, Now) = {}
    [] change.kind \in {"patch", "raze"} -> InRegister(change.code, Now)
    [] OTHER -> Listed(change.code, Now)

Publish(change) ==
  /\ Now < MaxCid
  /\ Possible(change)
  /\ changes' = Append(changes, change)
  /\ UNCHANGED etlVars

-----------------------------------------------------------------------------
(* Rows and jobs *)

\* ver: the change the row was written from; deleted: deleted_at is set.
Row == [ver: Position, deleted: BOOLEAN]

ASSUME NoneAssumption == None \notin Row

\* since: the cursor read at the start; adresas, pastatas: the position at the
\* time of the last page of either stream.
Sync == [pc: {"idle", "adresas", "pastatas", "delete", "upsert", "cid", "date"},
         since: Position, adresas: Position, pastatas: Position]

SyncIdle == [pc |-> "idle", since |-> 0, adresas |-> 0, pastatas |-> 0]

\* at: the position of the files it loads; todo: addresses not loaded yet; seen:
\* rows with synced_at >= sync_start; written: history, addresses the nightly
\* sync wrote since then.
Resync == [pc: {"idle", "load", "mark", "stopped"}, marks: BOOLEAN, at: Position,
           todo: SUBSET Address, seen: SUBSET Address, written: SUBSET Address]

ResyncIdle == [pc |-> "idle", marks |-> FALSE, at |-> 0,
               todo |-> {}, seen |-> {}, written |-> {}]

TypeOK ==
  /\ changes \in Seq(Change) /\ Now <= MaxCid
  /\ addresses \in [Address -> Row \cup {None}]
  /\ places \in Position
  /\ adresai_cid \in Position
  /\ syncedToday \in BOOLEAN
  /\ sync \in [Run -> Sync]
  /\ resync \in Resync
  /\ lost \subseteq 1..MaxCid

Init ==
  /\ changes = Past
  /\ addresses = [a \in Address |-> None]
  /\ places = 0
  /\ adresai_cid = 0
  /\ syncedToday = FALSE
  /\ sync = [p \in Run |-> SyncIdle]
  /\ resync = ResyncIdle
  /\ lost = {}

Live(a) == addresses[a] # None /\ ~ addresses[a].deleted

\* UPDATE addresses SET deleted_at WHERE deleted_at IS NULL, for one row.
SoftDeleted(row) == IF row = None THEN None ELSE [row EXCEPT !.deleted = TRUE]

\* INSERT ... ON CONFLICT (rc_code) DO UPDATE of all columns, deleted_at too.
Upserted(ver) == [ver |-> ver, deleted |-> FALSE]

\* The nightly sync writes some rows, and synced_at of some of them.
Touch(written, synced) ==
  resync' = IF resync.marks
            THEN [resync EXCEPT !.written = @ \cup written, !.seen = @ \cup synced]
            ELSE resync

\* The position up to which a change may be taken for applied: a run that goes on
\* from a cursor never looks back, whatever becomes of the cursor meanwhile.
Settled ==
  Max({adresai_cid, resync.at} \cup UNION {{sync[p].since, sync[p].pastatas} : p \in Run})

-----------------------------------------------------------------------------
(* The nightly sync *)

Goto(p, pc) == sync' = [sync EXCEPT ![p].pc = pc]

Start(p) ==
  /\ sync[p].pc = "idle"
  /\ ~ syncedToday
  /\ sync' = [sync EXCEPT ![p] = [SyncIdle EXCEPT !.pc = "adresas", !.since = adresai_cid]]
  /\ UNCHANGED <<changes, addresses, places, adresai_cid, syncedToday, resync, lost>>

\* Mutant: Pastatas is fetched before Adresas.
FetchedSwapped(s) ==
  Between(Adresas, s.since - 1, s.pastatas) \cup Between(Pastatas, s.since - 1, s.adresas)

\* :changes/<cid> starts at the cursor itself.
Fetched(s) ==
  Between(Adresas, s.since - 1, s.adresas) \cup Between(Pastatas, s.since - 1, s.pastatas)

\* Mutant: the cursor is the next change.
NextCidOf(s) == Max(Fetched(s) \cup {s.since}) + 1

MaxCidOf(s) == Max(Fetched(s) \cup {s.since})

FetchAdresas(p) ==
  /\ sync[p].pc = "adresas"
  /\ sync' = [sync EXCEPT ![p] = [@ EXCEPT !.pc = "pastatas", !.adresas = Now]]
  /\ UNCHANGED <<changes, addresses, places, adresai_cid, syncedToday, resync, lost>>

FetchPastatas(p) ==
  /\ sync[p].pc = "pastatas"
  /\ LET fetched == [sync[p] EXCEPT !.pc = "delete", !.pastatas = Now] IN
     sync' = [sync EXCEPT ![p] = IF MaxCidOf(fetched) # fetched.since THEN fetched
                                 ELSE [SyncIdle EXCEPT !.pc = "date"]]
  /\ UNCHANGED <<changes, addresses, places, adresai_cid, syncedToday, resync, lost>>

\* apply_adresas_changes: one transaction for all deletions of the stream.
ApplyAdresas(p) ==
  LET struck == {a \in Address : Of(a, {"strike"}, 0, Now) \cap Fetched(sync[p]) # {}} IN
  /\ sync[p].pc = "delete"
  /\ addresses' = [a \in Address |->
       IF a \in struck THEN SoftDeleted(addresses[a]) ELSE addresses[a]]
  /\ lost' = lost \ {c \in Fetched(sync[p]) : changes[c].kind = "strike"}
  /\ Touch(struck, {})
  /\ Goto(p, "upsert")
  /\ UNCHANGED <<changes, places, adresai_cid, syncedToday>>

\* Mutant: the lookup of the address is not consulted.
ResolvableAny(batch) == {c \in batch : changes[c].kind # "patch"}

\* Records with a house number, or deletions, whose address the register knows
\* when it is looked up.
Resolvable(batch) ==
  {c \in batch : changes[c].kind # "patch" /\ Listed(changes[c].code, Now)}

FullOf(records) == {c \in records : changes[c].kind \in Full}
UpTo(n, S) == {T \in SUBSET S : Cardinality(T) <= n}
Codes(records) == {changes[c].code : c \in records}

\* The last record wins; a deletion keeps what the last upsert wrote.
After(row, records) ==
  LET full == FullOf(records)
      base == IF full = {} THEN row ELSE Upserted(Max(full))
  IN IF records # {} /\ changes[Max(records)].kind = "raze" THEN SoftDeleted(base) ELSE base

\* A locality that is not loaded violates the foreign key, and with it the whole
\* transaction fails: the loop goes on, the COMMIT rolls back.
Poisoned(applied) == \E c \in applied : changes[c].kind = "settle" /\ c > places

\* apply_pastatas_changes: one transaction for the stream.  Lookups that fail are
\* None: of the address or the locality, and the record is skipped; of the street,
\* and the row is written without it (bare).
ApplyPastatas(p) ==
  LET batch == Fetched(sync[p]) \cap Between(Pastatas, 0, Now)
      resolvable == Resolvable(batch)
  IN
  /\ sync[p].pc = "upsert"
  /\ \E skipped \in UpTo(Failures, resolvable) :
     \E bare \in UpTo(Failures - Cardinality(skipped), FullOf(resolvable \ skipped)) :
       LET applied == resolvable \ skipped
           written == Codes(applied)
           covered == {c \in Between(Pastatas, 0, Now) :
                         \E d \in applied : c <= d /\ changes[c].code = changes[d].code}
           undone == UNION {Of(a, Pastatas, sync[p].pastatas, Settled) : a \in written}
       IN
       \/ /\ Poisoned(applied)
          /\ lost' = lost \cup batch
          /\ UNCHANGED <<addresses, resync>>
       \/ /\ ~ Poisoned(applied)
          /\ addresses' = [a \in Address |->
               After(addresses[a], {c \in applied : changes[c].code = a})]
          /\ lost' = ((lost \cup batch) \ covered) \cup bare \cup undone
          /\ Touch(written, Codes(FullOf(applied)))
  /\ Goto(p, "cid")
  /\ UNCHANGED <<changes, places, adresai_cid, syncedToday>>

\* History: deletions between the two fetches, which nobody will fetch again.
Gap(p) == Between({"strike"}, sync[p].adresas, MaxCidOf(sync[p]))

SaveCid(p) ==
  /\ sync[p].pc = "cid"
  /\ adresai_cid' = MaxCidOf(sync[p])
  /\ lost' = lost \cup Gap(p)
  /\ sync' = [sync EXCEPT ![p] = [SyncIdle EXCEPT !.pc = "date"]]
  /\ UNCHANGED <<changes, addresses, places, syncedToday, resync>>

SaveDate(p) ==
  /\ sync[p].pc = "date"
  /\ syncedToday' = TRUE
  /\ sync' = [sync EXCEPT ![p] = SyncIdle]
  /\ UNCHANGED <<changes, addresses, places, adresai_cid, resync, lost>>

\* An exception or a crash; the next attempt of cron starts from the cursor.
Crash(p) ==
  /\ sync[p].pc # "idle"
  /\ sync' = [sync EXCEPT ![p] = SyncIdle]
  /\ UNCHANGED <<changes, addresses, places, adresai_cid, syncedToday, resync, lost>>

NewDay ==
  /\ syncedToday
  /\ syncedToday' = FALSE
  /\ UNCHANGED <<changes, addresses, places, adresai_cid, sync, resync, lost>>

-----------------------------------------------------------------------------
(* The monthly resync, and the full import that resumes a failed one *)

InDump(n) == {a \in Address : InRegister(a, n)}

\* _clear_cache, sync_start, and the localities and streets of the new files,
\* which are no older than the last ones.
BeginResync(at) ==
  /\ Now - at <= MaxLag
  /\ resync.pc \in {"idle", "stopped"}
  /\ resync' = [ResyncIdle EXCEPT !.pc = "load", !.marks = TRUE, !.at = at,
                                  !.todo = InDump(at)]
  /\ places' = at
  /\ UNCHANGED <<changes, addresses, adresai_cid, syncedToday, sync, lost>>

\* Mutant: the upsert leaves deleted_at alone.
LoadDeleted(a) ==
  /\ resync.pc = "load"
  /\ a \in resync.todo
  /\ addresses' = [addresses EXCEPT ![a] =
       [ver |-> Content(a, resync.at), deleted |-> addresses[a] # None /\ ~ Live(a)]]
  /\ resync' = [resync EXCEPT !.todo = @ \ {a},
                               !.seen = IF resync.marks THEN @ \cup {a} ELSE @]
  /\ lost' = (lost \ Of(a, Pastatas, 0, resync.at)) \cup Of(a, Kind, resync.at, Settled)
  /\ UNCHANGED <<changes, places, adresai_cid, syncedToday, sync>>

\* _import_addresses, one row.
Load(a) ==
  /\ resync.pc = "load"
  /\ a \in resync.todo
  /\ addresses' = [addresses EXCEPT ![a] = Upserted(Content(a, resync.at))]
  /\ resync' = [resync EXCEPT !.todo = @ \ {a},
                               !.seen = IF resync.marks THEN @ \cup {a} ELSE @]
  /\ lost' = (lost \ Of(a, Pastatas, 0, resync.at)) \cup Of(a, Kind, resync.at, Settled)
  /\ UNCHANGED <<changes, places, adresai_cid, syncedToday, sync>>

\* _save_head_cid: the head of adresai/Adresas, wherever the files are.
HeadCid == Last(Between(Adresas, 0, Now))

\* History: what the head passes over and the files do not have.
Passed == {c \in Between(Kind, adresai_cid, HeadCid) :
             c > resync.at \/ ~ InRegister(changes[c].code, resync.at)}

SaveHeadCid ==
  /\ resync.pc = "load"
  /\ resync.todo = {}
  /\ adresai_cid' = HeadCid
  /\ lost' = lost \cup Passed
  /\ resync' = IF resync.marks THEN [resync EXCEPT !.pc = "mark"] ELSE ResyncIdle
  /\ UNCHANGED <<changes, addresses, places, syncedToday, sync>>

\* synced_at < sync_start AND deleted_at IS NULL
Stale(a) == Live(a) /\ a \notin resync.seen

MarkDeleted ==
  /\ resync.pc = "mark"
  /\ addresses' = [a \in Address |->
       IF Stale(a) THEN SoftDeleted(addresses[a]) ELSE addresses[a]]
  /\ LET gone == {a \in Address : ~ InRegister(a, resync.at) /\ (Stale(a) \/ ~ Live(a))} IN
     lost' = (lost \ UNION {Of(a, Kind, 0, resync.at) : a \in gone})
               \cup UNION {Of(a, Kind, resync.at, Settled) : a \in {b \in Address : Stale(b)}}
  /\ resync' = ResyncIdle
  /\ UNCHANGED <<changes, places, adresai_cid, syncedToday, sync>>

\* A failed resync leaves the checkpoint of the import: full_import goes on from
\* the addresses or from the head, and never marks.
StopResync ==
  /\ resync.pc \in {"load", "mark"}
  /\ \E todo \in {InDump(resync.at)} \cup ({resync.todo} \cap {{}}) :
       resync' = IF resync.pc = "mark" THEN ResyncIdle
                 ELSE [ResyncIdle EXCEPT !.pc = "stopped", !.at = resync.at, !.todo = todo]
  /\ UNCHANGED <<changes, addresses, places, adresai_cid, syncedToday, sync, lost>>

ResumeImport ==
  /\ resync.pc = "stopped"
  /\ resync' = [resync EXCEPT !.pc = "load"]
  /\ UNCHANGED <<changes, addresses, places, adresai_cid, syncedToday, sync, lost>>

-----------------------------------------------------------------------------
NightlySync(p) ==
  \/ Start(p)
  \/ FetchAdresas(p)
  \/ FetchPastatas(p)
  \/ ApplyAdresas(p)
  \/ ApplyPastatas(p)
  \/ SaveCid(p)
  \/ SaveDate(p)

MonthlyResync ==
  \/ \E at \in places..Now : BeginResync(at)
  \/ \E a \in Address : Load(a)
  \/ SaveHeadCid
  \/ MarkDeleted
  \/ StopResync
  \/ ResumeImport

Next ==
  \/ \E change \in Published : Publish(change)
  \/ \E p \in Run : NightlySync(p) \/ Crash(p)
  \/ NewDay
  \/ MonthlyResync

Spec == Init /\ [][Next]_vars

-----------------------------------------------------------------------------
(* Properties *)

\* An address the register struck off at or before the cursor is deleted, unless
\* the deletion was passed over between the two fetches or by a resync that saved
\* a head its files do not reach, or undone by older files: crashes, repeated
\* batches and overlapping runs do not revive it (apply_adresas_changes before
\* apply_pastatas_changes, whose upserts clear deleted_at).
StruckDeleted ==
  \A a \in Address : \A c \in Of(a, {"strike"}, 0, adresai_cid) : c \in lost \/ ~ Live(a)

\* What the row of a listed address says is what the register said at the cursor
\* or later, unless a change up to the cursor was dropped (a failed lookup, a
\* record without house number, a batch with an unknown locality) or undone: the
\* cursor never passes a change that is not applied (save_cid after both COMMITs,
\* Adresas fetched before Pastatas).
Follows(a, n) ==
  /\ Live(a) = InRegister(a, n)
  /\ Live(a) => addresses[a].ver = Content(a, n)

AddressCurrent ==
  \A a \in Address :
    \/ ~ Listed(a, Now)
    \/ Of(a, Kind, 0, adresai_cid) \cap lost # {}
    \/ \E n \in adresai_cid..Now : Follows(a, n)

\* After the monthly resync the table is the register as of the downloaded files,
\* for every address no nightly sync wrote beside it (sync_start taken before the
\* import, deleted_at cleared by the upsert, _mark_deleted after it).
ResyncExact ==
  [][MarkDeleted =>
       \A a \in Address \ resync.written :
         /\ Live(a)' = InRegister(a, resync.at)
         /\ Live(a)' => addresses'[a].ver = Content(a, resync.at)]_vars
=============================================================================
