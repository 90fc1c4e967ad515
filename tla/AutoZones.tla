----------------------------- MODULE AutoZones -----------------------------
(***************************************************************************)
(* The automatic coverage zones of app/auto_zones.py: the rebuild that     *)
(* every change of address_offerings schedules, the rebuilds of the CLI    *)
(* and of the GIS import, and the edits of app/api/v1/admin/zones.py that  *)
(* reach an automatic zone.                                                *)
(*                                                                         *)
(* A rebuild is a READ COMMITTED transaction: its SELECTs see what is      *)
(* committed and what it has written itself; what it writes is locked and  *)
(* invisible to others until COMMIT.  Geometry is a set of cells: the      *)
(* buffer of an address is a set of them, a polygon is the set of the      *)
(* addresses whose buffers it unites.                                      *)
(***************************************************************************)
EXTENDS Naturals, Sequences, SequencesExt, FiniteSets

CONSTANTS Tech,      \* technologies
          Address,   \* addresses with a point
          Disc,      \* the cells of the buffer around each address
          Zone,      \* ids of automatic zones in their order of creation (bound)
          Proc,      \* transactions that may run at the same time (bound)
          Surveys,   \* addresses an import finds near the network and far (bound)
          Given,     \* statuses the changes of a history give (bound)
          Synced,    \* addresses the register sync deletes and revives (bound)
          HandEdits, \* edits of zones by hand, pairs of a kind and a zone (bound)
          Cli,       \* whether rebuild-zones is run without a technology (bound)
          None       \* no row, no technology

VARIABLES offering, \* the status of each technology at each address
          live,     \* addresses that are not soft-deleted
          zone,     \* service_zones with source 'auto'
          link,     \* zone_offerings: pairs of a zone and a technology
          job,      \* the local state of each running transaction
          owed      \* history: technologies whose last rebuild was lost, or whose
                    \* coverage or zones changed with no rebuild scheduled

vars == <<offering, live, zone, link, job, owed>>

-----------------------------------------------------------------------------
Status == {"none", "available", "planned"}

ASSUME DiscAssumption == \A a \in Address : Disc[a] # {} /\ IsFiniteSet(Disc[a])
ASSUME FiniteAssumption == IsFiniteSet(Address) /\ IsFiniteSet(Tech)
ASSUME ZoneAssumption == Zone \subseteq Nat
ASSUME SurveysAssumption == Surveys \subseteq (SUBSET Address) \X (SUBSET Address)
ASSUME CliAssumption == Cli \in BOOLEAN
ASSUME GivenAssumption == Given \subseteq Status
ASSUME SyncedAssumption == Synced \subseteq Address
ASSUME HandEditsAssumption == HandEdits \subseteq {"hide", "detach", "attach"} \X Zone

ZoneRow == [state: {"unused", "visible", "hidden"}, tech: Tech \cup {None},
            poly: SUBSET Address]

ASSUME NoneNotAValue == None \notin Tech \cup Status \cup Proc \cup ZoneRow

\* tech is the technology in the generated name.
NoZone == [state |-> "unused", tech |-> None, poly |-> {}]

NoRows == [t \in Tech |-> [a \in Address |-> None]]
NoZones == [z \in Zone |-> None]

\* rows, put and links: what the transaction has written; held: its advisory
\* locks; todo: the technologies still to rebuild; comps, loaded, hidden and
\* match: what the rebuild of the current technology has read and decided.
Job == [pc: {"idle", "next", "zones", "flush"},
        kind: {"task", "all", "import"},
        todo: Seq(Tech), tech: Tech \cup {None}, held: SUBSET Tech,
        comps: SUBSET SUBSET Address, loaded: SUBSET Zone, hidden: SUBSET Zone,
        match: SUBSET (Zone \X SUBSET Address),
        rows: [Tech -> [Address -> Status \cup {None}]],
        put: [Zone -> ZoneRow \cup {None}], links: SUBSET (Zone \X Tech)]

Idle == [pc |-> "idle", kind |-> "task", todo |-> <<>>, tech |-> None, held |-> {},
         comps |-> {}, loaded |-> {}, hidden |-> {}, match |-> {},
         rows |-> NoRows, put |-> NoZones, links |-> {}]

TypeOK ==
  /\ offering \in [Tech -> [Address -> Status]]
  /\ live \subseteq Address
  /\ zone \in [Zone -> ZoneRow]
  /\ link \subseteq Zone \X Tech
  /\ job \in [Proc -> Job]
  /\ owed \subseteq Tech

Init ==
  /\ offering = [t \in Tech |-> [a \in Address |-> "none"]]
  /\ live = Address
  /\ zone = [z \in Zone |-> NoZone]
  /\ link = {}
  /\ job = [p \in Proc |-> Idle]
  /\ owed = {}

-----------------------------------------------------------------------------
(* Geometry: _COMPONENTS_SQL and _OVERLAP_SQL *)

Cells(S) == UNION {Disc[a] : a \in S}

Closed(S, C) == \A a \in S, b \in C : Disc[a] \cap Disc[b] # {} => b \in S

\* ST_ClusterDBSCAN with eps twice the radius and minpoints 1: the connected
\* components of touching buffers.
Clusters(C) ==
  {S \in (SUBSET C) \ {{}} : /\ Closed(S, C)
                           /\ \A R \in (SUBSET S) \ {{}, S} : ~ Closed(R, C)}

Overlap(S, R) == Cardinality(Cells(S) \cap Cells(R))

-----------------------------------------------------------------------------
(* What a transaction sees: the committed rows under its own. *)

Over(own, committed) == IF own = None THEN committed ELSE own

\* Mutant: the rows of others are lost.
RowsOwn(p) == job[p].rows

Rows(p) == [t \in Tech |-> [a \in Address |-> Over(job[p].rows[t][a], offering[t][a])]]
Zones(p) == [z \in Zone |-> Over(job[p].put[z], zone[z])]
Links(p) == link \cup job[p].links

Coverage(t) == {a \in live : offering[t][a] = "available"}
Components(t) == Clusters(Coverage(t))
Seen(p, t) == {a \in live : Rows(p)[t][a] = "available"}

\* Rows another transaction has written and not committed.
RowsLocked(p, t, S) ==
  \E q \in Proc \ {p}, a \in S : job[q].rows[t][a] # None
ZoneLocked(p, z) == \E q \in Proc \ {p} : job[q].put[z] # None
LinkLocked(p, z, t) == \E q \in Proc \ {p} : <<z, t>> \in job[q].links

Unused == {z \in Zone : /\ zone[z].state = "unused"
                        /\ \A q \in Proc : job[q].put[z] = None}

-----------------------------------------------------------------------------
(* What starts a rebuild *)

Start(p, kind, todo, rows) ==
  job' = [job EXCEPT ![p] = [Idle EXCEPT
    !.pc = "next", !.kind = kind, !.todo = todo, !.rows = rows]]

\* A handler of addresses.py or bulk.py commits a change of some rows and
\* schedules a rebuild of the technology, to run after the response.
Change(p, t, S, s) ==
  /\ job[p] = Idle
  /\ ~ RowsLocked(p, t, S)
  /\ offering' = [offering EXCEPT ![t] =
       [a \in Address |-> IF a \in S THEN s ELSE offering[t][a]]]
  /\ Start(p, "task", <<t>>, NoRows)
  /\ UNCHANGED <<live, zone, link, owed>>

\* SELECT DISTINCT technology_id FROM address_offerings, in any order.
Offered == {t \in Tech : \E a \in Address : offering[t][a] # "none"}

\* The command rebuild-zones without a technology, and with one.
RebuildAll(p) ==
  /\ Cli
  /\ job[p] = Idle
  /\ \E todo \in SetToSeqs(Offered) : Start(p, "all", todo, NoRows)
  /\ UNCHANGED <<offering, live, zone, link, owed>>

RebuildOne(p, t) ==
  /\ job[p] = Idle
  /\ Start(p, "task", <<t>>, NoRows)
  /\ UNCHANGED <<offering, live, zone, link, owed>>

\* import-gis: offerings for live addresses near the network that have none, in
\* diff mode the removal of those far from it, and the rebuild, all in one
\* transaction.
Import(p, t, near, far, s) ==
  LET rows == [a \in Address |->
        IF a \in near \cap live /\ offering[t][a] = "none" THEN s
        ELSE IF a \in far \cap live /\ offering[t][a] # "none" THEN "none"
        ELSE None]
  IN
  /\ job[p] = Idle
  /\ ~ RowsLocked(p, t, near \cup far)
  /\ Start(p, "import", <<t>>, [NoRows EXCEPT ![t] = rows])
  /\ UNCHANGED <<offering, live, zone, link, owed>>

-----------------------------------------------------------------------------
(* _rebuild_for_technology *)

\* Mutant: no advisory lock.
AcquireAnyway(p) ==
  LET t == Head(job[p].todo) IN
  /\ job[p].pc = "next"
  /\ job[p].todo # <<>>
  /\ job' = [job EXCEPT ![p] = [@ EXCEPT
       !.pc = "zones", !.tech = t, !.todo = Tail(job[p].todo), !.held = job[p].held \cup {t},
       !.comps = Clusters(Seen(p, t))]]
  /\ owed' = owed \ {t}
  /\ UNCHANGED <<offering, live, zone, link>>

\* Mutant: the components are read in a session of their own.
AcquireCommitted(p) ==
  LET t == Head(job[p].todo) IN
  /\ job[p].pc = "next"
  /\ job[p].todo # <<>>
  /\ \A q \in Proc \ {p} : t \notin job[q].held
  /\ job' = [job EXCEPT ![p] = [@ EXCEPT
       !.pc = "zones", !.tech = t, !.todo = Tail(job[p].todo), !.held = job[p].held \cup {t},
       !.comps = Components(t)]]
  /\ owed' = owed \ {t}
  /\ UNCHANGED <<offering, live, zone, link>>

\* pg_advisory_xact_lock, held up to the end of the transaction, and the read of
\* the components: a change that commits between the two statements is seen, as
\* one that commits before the lock.
Acquire(p) ==
  LET t == Head(job[p].todo) IN
  /\ job[p].pc = "next"
  /\ job[p].todo # <<>>
  /\ \A q \in Proc \ {p} : t \notin job[q].held
  /\ job' = [job EXCEPT ![p] = [@ EXCEPT
       !.pc = "zones", !.tech = t, !.todo = Tail(job[p].todo), !.held = job[p].held \cup {t},
       !.comps = Clusters(Seen(p, t))]]
  /\ owed' = owed \ {t}
  /\ UNCHANGED <<offering, live, zone, link>>

\* Mutant: zones are loaded in no order.
PrecedesUnordered(zones, m, n) ==
  Overlap(zones[m[1]].poly, m[2]) >= Overlap(zones[n[1]].poly, n[2])

\* The order of the pairs: the larger overlap first, then the older zone, then
\* the component with more addresses; what is left is open.
Precedes(zones, m, n) ==
  LET m1 == Overlap(zones[m[1]].poly, m[2])
      n1 == Overlap(zones[n[1]].poly, n[2])
  IN \/ m1 > n1
     \/ m1 = n1 /\ m[1] < n[1]
     \/ m1 = n1 /\ m[1] = n[1] /\ Cardinality(m[2]) >= Cardinality(n[2])

Meet(m, n) == m # n /\ (m[1] = n[1] \/ m[2] = n[2])

\* The greedy pass takes a pair unless an earlier one took its zone or its
\* component.
Greedy(zones, pairs, match) ==
  /\ \A m, n \in match : ~ Meet(m, n)
  /\ \A n \in pairs \ match : \E m \in match : Meet(m, n) /\ Precedes(zones, m, n)

\* The zones of the technology, hidden ones too, and the matching of them with
\* the components.
ReadZones(p) ==
  LET t == job[p].tech
      zones == Zones(p)
      loaded == {z \in Zone : <<z, t>> \in Links(p)}
      pairs == {m \in loaded \X job[p].comps : Overlap(zones[m[1]].poly, m[2]) > 0}
  IN
  /\ job[p].pc = "zones"
  /\ \E match \in SUBSET pairs :
       /\ Greedy(zones, pairs, match)
       /\ job' = [job EXCEPT ![p] = [@ EXCEPT
            !.pc = "flush", !.loaded = loaded, !.match = match,
            !.hidden = {z \in loaded : zones[z].state = "hidden"}]]
  /\ UNCHANGED <<offering, live, zone, link, owed>>

\* New ids follow all earlier ones.
Fresh(comps, new) ==
  /\ \A c, d \in comps : new[c] = new[d] => c = d
  /\ \A z \in Unused : (\E c \in comps : z < new[c]) => \E c \in comps : new[c] = z

\* Mutant: a matched zone stays hidden.
WrittenNotRevived(p, placed, z) ==
  LET row == Zones(p)[z] IN
  IF \E c \in job[p].comps : placed[c] = z
  THEN [state |-> IF row.state = "unused" THEN "visible" ELSE row.state,
        tech |-> job[p].tech, poly |-> CHOOSE c \in job[p].comps : placed[c] = z]
  ELSE IF z \in job[p].loaded \ job[p].hidden THEN [row EXCEPT !.state = "hidden"]
  ELSE job[p].put[z]

\* The rows a rebuild writes: a component goes to its zone or to a new one, and
\* deleted_at is written only where the loaded value differs from the new one.
Written(p, placed, z) ==
  LET row == Zones(p)[z]
      hidden == job[p].hidden
  IN
  IF \E c \in job[p].comps : placed[c] = z
  THEN [state |-> IF z \in hidden \/ row.state = "unused" THEN "visible" ELSE row.state,
        tech |-> job[p].tech, poly |-> CHOOSE c \in job[p].comps : placed[c] = z]
  ELSE IF z \in job[p].loaded \ hidden THEN [row EXCEPT !.state = "hidden"]
  ELSE job[p].put[z]

Placed(p, new) ==
  [c \in job[p].comps |->
     IF \E z \in job[p].loaded : <<z, c>> \in job[p].match
     THEN CHOOSE z \in job[p].loaded : <<z, c>> \in job[p].match
     ELSE new[c]]

Matched(p) == {m[2] : m \in job[p].match}

\* What the flush waits for: a zone or a zone_offerings row somebody else wrote.
FlushBlockedBy(p) ==
  {q \in Proc \ {p} :
     \/ \E z \in job[p].loaded : job[q].put[z] # None
     \/ \E m \in job[p].match : <<m[1], job[p].tech>> \in job[q].links}

Flush(p) ==
  LET fresh == job[p].comps \ Matched(p) IN
  /\ job[p].pc = "flush"
  /\ FlushBlockedBy(p) = {}
  /\ \E new \in [fresh -> Unused] :
       LET placed == Placed(p, new) IN
       /\ Fresh(fresh, new)
       /\ job' = [job EXCEPT ![p] = [@ EXCEPT
            !.pc = "next", !.tech = None, !.comps = {}, !.loaded = {},
            !.hidden = {}, !.match = {},
            !.put = [z \in Zone |-> Written(p, placed, z)],
            !.links = job[p].links \cup {<<placed[c], job[p].tech>> : c \in job[p].comps}]]
  /\ UNCHANGED <<offering, live, zone, link, owed>>

\* Mutant: the lock belongs to the connection and outlives the transaction.
CommitKeepingLocks(p) ==
  /\ job[p].pc = "next"
  /\ job[p].todo = <<>>
  /\ offering' = Rows(p)
  /\ zone' = Zones(p)
  /\ link' = Links(p)
  /\ job' = [job EXCEPT ![p] = [Idle EXCEPT !.held = job[p].held]]
  /\ UNCHANGED <<live, owed>>

Commit(p) ==
  /\ job[p].pc = "next"
  /\ job[p].todo = <<>>
  /\ offering' = Rows(p)
  /\ zone' = Zones(p)
  /\ link' = Links(p)
  /\ job' = [job EXCEPT ![p] = Idle]
  /\ UNCHANGED <<live, owed>>

\* An exception, which the background task logs and forgets, a crash before or
\* during the task, the rollback of a dry run.
Fail(p) ==
  /\ job[p].pc # "idle"
  /\ job' = [job EXCEPT ![p] = Idle]
  /\ owed' = owed \cup job[p].held
                  \cup (IF job[p].kind = "task" THEN ToSet(job[p].todo) ELSE {})
  /\ UNCHANGED <<offering, live, zone, link>>

\* The transactions p waits for.
Waits(p) ==
  IF job[p].pc = "next" /\ job[p].todo # <<>>
  THEN {q \in Proc \ {p} : Head(job[p].todo) \in job[q].held}
  ELSE IF job[p].pc = "flush" THEN FlushBlockedBy(p) ELSE {}

\* PostgreSQL aborts a transaction of a cycle of waiting ones.
DeadlockAbort(p) ==
  /\ \E S \in SUBSET Proc : p \in S /\ \A q \in S : Waits(q) \cap S # {}
  /\ Fail(p)

-----------------------------------------------------------------------------
(* Edits of a zone by hand; each one waits for a lock on its row. *)

\* DELETE /admin/zones/{id}.
HideZone(z) ==
  /\ <<"hide", z>> \in HandEdits
  /\ zone[z].state = "visible"
  /\ ~ ZoneLocked(None, z)
  /\ zone' = [zone EXCEPT ![z] = [@ EXCEPT !.state = "hidden"]]
  /\ owed' = owed \cup {zone[z].tech}
  /\ UNCHANGED <<offering, live, link, job>>

\* DELETE /admin/zones/offerings/{id}.
DeleteZoneOffering(z, t) ==
  /\ <<"detach", z>> \in HandEdits
  /\ <<z, t>> \in link
  /\ ~ LinkLocked(None, z, t)
  /\ link' = link \ {<<z, t>>}
  /\ owed' = owed \cup {t}
  /\ UNCHANGED <<offering, live, zone, job>>

\* POST /admin/zones/{id}/offerings.
CreateZoneOffering(z, t) ==
  /\ <<"attach", z>> \in HandEdits
  /\ zone[z].state = "visible"
  /\ <<z, t>> \notin link
  /\ ~ LinkLocked(None, z, t)
  /\ link' = link \cup {<<z, t>>}
  /\ UNCHANGED <<offering, live, zone, job, owed>>

\* The register sync deletes or revives an address and schedules nothing.
SyncAddress(a) ==
  /\ live' = IF a \in live THEN live \ {a} ELSE live \cup {a}
  /\ owed' = owed \cup {t \in Tech : \/ offering[t][a] = "available"
                                     \/ \E p \in Proc : job[p].rows[t][a] = "available"}
  /\ UNCHANGED <<offering, zone, link, job>>

-----------------------------------------------------------------------------
Rebuild(p) ==
  \/ Acquire(p)
  \/ ReadZones(p)
  \/ Flush(p)
  \/ Commit(p)

Trigger(p) ==
  \/ \E t \in Tech, S \in SUBSET Address, s \in Given : Change(p, t, S, s)
  \/ \E t \in Tech, survey \in Surveys, s \in Given \ {"none"} :
       Import(p, t, survey[1], survey[2], s)
  \/ RebuildAll(p)
  \/ \E t \in Tech : RebuildOne(p, t)

HandEdit ==
  \/ \E z \in Zone : HideZone(z)
  \/ \E z \in Zone, t \in Tech : DeleteZoneOffering(z, t)
  \/ \E z \in Zone, t \in Tech : CreateZoneOffering(z, t)

Next ==
  \/ \E p \in Proc : Trigger(p) \/ Rebuild(p) \/ Fail(p) \/ DeadlockAbort(p)
  \/ HandEdit
  \/ \E a \in Synced : SyncAddress(a)

Spec == Init /\ [][Next]_vars

\* The server runs a scheduled task and the database serves the waiters of a
\* lock in turn; a deadlock is detected after deadlock_timeout.
Fairness == \A p \in Proc : SF_vars(Rebuild(p)) /\ WF_vars(DeadlockAbort(p))

FairSpec == Spec /\ Fairness

-----------------------------------------------------------------------------
(* Properties *)

Visible(t) == {z \in Zone : zone[z].state = "visible" /\ zone[z].tech = t}

\* One visible zone for each connected area of the technology, and no other.
Current(t) ==
  /\ {zone[z].poly : z \in Visible(t)} = Components(t)
  /\ Cardinality(Visible(t)) = Cardinality(Components(t))

Rebuilding(t) == \E p \in Proc : t \in job[p].held \cup ToSet(job[p].todo)

\* Once no rebuild of a technology is pending or running, its visible zones are
\* the areas its offerings cover, each once, whatever the order in which
\* concurrent changes, imports and rebuilds took their lock, read and
\* committed, unless a rebuild was lost or the sync or an administrator
\* changed something since (_rebuild_for_technology: the lock comes before
\* the read of the offerings and lasts up to the COMMIT).
ZonesCurrent == \A t \in Tech : t \in owed \/ Rebuilding(t) \/ Current(t)

\* At no time, not even when zones are stale, do two visible zones of one
\* technology overlap (one zone per connected coverage area).
ZonesDisjoint ==
  \A t \in Tech : \A y, z \in Visible(t) :
    y # z => Cells(zone[y].poly) \cap Cells(zone[z].poly) = {}

\* A rebuild that finds the zones as they should be leaves every one of them in
\* place: an area never moves to another zone, and so never loses its
\* custom_name, without a change of the coverage (greedy matching, where hidden
\* zones take part and overlaps may be equal).
IdentityStable ==
  [][\A t \in Tech :
       Current(t) /\ Current(t)' /\ Components(t)' = Components(t)
         => \A z \in Visible(t) : zone'[z] = zone[z]]_vars

\* Every scheduled rebuild ends, also when rebuilds of everything take the locks
\* of the technologies in different orders.
RebuildsEnd == \A p \in Proc : job[p].pc # "idle" ~> job[p].pc = "idle"
=============================================================================
