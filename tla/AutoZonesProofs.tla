--------------------------- MODULE AutoZonesProofs ---------------------------
(***************************************************************************)
(* Theorems about AutoZones for every set of technologies, addresses,      *)
(* buffers and zones, and any number of concurrent transactions.           *)
(***************************************************************************)
EXTENDS AutoZones, FiniteSetTheorems, TLAPS

USE NoneNotAValue, ZoneAssumption

-----------------------------------------------------------------------------
(* Geometry *)

\* Connected areas of one coverage are not empty, and no two of them touch.
LEMMA ClustersNonempty ==
  ASSUME NEW C \in SUBSET Address, NEW S \in Clusters(C)
  PROVE  S \in SUBSET Address /\ S # {} /\ Cells(S) # {}
<1>1. S \in SUBSET C /\ S # {}
  BY DEF Clusters
<1>2. PICK a \in S : TRUE
  BY <1>1
<1>3. Disc[a] # {} /\ Disc[a] \subseteq Cells(S)
  BY <1>1, <1>2, DiscAssumption DEF Cells
<1> QED
  BY <1>1, <1>3

LEMMA ClustersDisjoint ==
  ASSUME NEW C \in SUBSET Address, NEW S \in Clusters(C), NEW R \in Clusters(C), S # R
  PROVE  Cells(S) \cap Cells(R) = {}
<1> SUFFICES ASSUME NEW cell, cell \in Cells(S), cell \in Cells(R)
             PROVE  FALSE
  OBVIOUS
<1>1. PICK a \in S : cell \in Disc[a]
  BY DEF Cells
<1>2. PICK b \in R : cell \in Disc[b]
  BY DEF Cells
<1>3. /\ S \in SUBSET C /\ Closed(S, C) /\ R \in SUBSET C /\ Closed(R, C)
      /\ \A T \in (SUBSET S) \ {{}, S} : ~ Closed(T, C)
      /\ \A T \in (SUBSET R) \ {{}, R} : ~ Closed(T, C)
  BY DEF Clusters
<1>4. b \in S \cap R
  BY <1>1, <1>2, <1>3 DEF Closed
<1> DEFINE Common == S \cap R
<1>5. Closed(Common, C)
  BY <1>3 DEF Closed
<1>6. Common \in SUBSET S /\ Common \in SUBSET R /\ Common # {}
  BY <1>4
<1> HIDE DEF Common
<1>7. Common \notin (SUBSET S) \ {{}, S} /\ Common \notin (SUBSET R) \ {{}, R}
  BY <1>3, <1>5
<1>8. Common = S /\ Common = R
  BY <1>6, <1>7
<1> QED
  BY <1>8

\* Overlaps are finite: none where nothing touches, all of an area where the other
\* covers it, and less elsewhere.
LEMMA CellsFinite ==
  ASSUME NEW S \in SUBSET Address
  PROVE  IsFiniteSet(Cells(S))
<1> DEFINE Discs == {Disc[a] : a \in S}
<1>1. IsFiniteSet(S)
  BY FiniteAssumption, FS_Subset
<1>2. IsFiniteSet(Discs)
  <2> DEFINE f == [a \in S |-> Disc[a]]
  <2>1. f \in Surjection(S, Discs)
    BY DEF Surjection
  <2> QED
    BY <1>1, <2>1, FS_Surjection
<1>3. \A T \in Discs : IsFiniteSet(T)
  BY DiscAssumption
<1> HIDE DEF Discs
<1>4. IsFiniteSet(UNION Discs)
  BY <1>2, <1>3, FS_UNION
<1> QED
  BY <1>4 DEF Cells, Discs

LEMMA OverlapBounds ==
  ASSUME NEW S \in SUBSET Address, NEW R \in SUBSET Address
  PROVE  /\ Overlap(S, R) \in Nat
         /\ Overlap(S, R) = 0 <=> Cells(S) \cap Cells(R) = {}
         /\ Overlap(S, R) <= Overlap(R, R)
         /\ Overlap(S, R) = Overlap(R, R) <=> Cells(R) \subseteq Cells(S)
<1> DEFINE X == Cells(S) \cap Cells(R)
           Y == Cells(R)
<1>1. IsFiniteSet(Y) /\ X \in SUBSET Y /\ Cells(R) \cap Cells(R) = Y
  BY CellsFinite
<1> HIDE DEF X, Y
<1>2. IsFiniteSet(X) /\ Cardinality(X) <= Cardinality(Y)
      /\ (Cardinality(Y) = Cardinality(X) => Y = X)
  BY <1>1, FS_Subset
<1>3. Cardinality(X) \in Nat /\ Cardinality(Y) \in Nat /\ (Cardinality(X) = 0 <=> X = {})
  BY <1>1, <1>2, FS_CardinalityType, FS_EmptySet
<1>4. Overlap(S, R) = Cardinality(X) /\ Overlap(R, R) = Cardinality(Y)
  BY <1>1 DEF Overlap, X, Y
<1>5. X = Y <=> Cells(R) \subseteq Cells(S)
  BY DEF X, Y
<1> QED
  BY <1>2, <1>3, <1>4, <1>5 DEF X

-----------------------------------------------------------------------------
(* The inductive invariant, first part.  Of one transaction: where it is, what *)
(* it has locked and what it has written.                                      *)

Rebuilds(j) == j.pc \in {"zones", "flush"}

Once(s) == \A i, k \in DOMAIN s : s[i] = s[k] => i = k

JobSound(j) ==
  /\ Rebuilds(j) => j.tech \in j.held /\ \E C \in SUBSET Address : j.comps = Clusters(C)
  /\ j.pc = "flush" => /\ j.match \subseteq j.loaded \X j.comps
                       /\ \A m, n \in j.match : ~ Meet(m, n)
  /\ \A z \in Zone : j.put[z] # None => j.put[z].state # "unused" /\ j.put[z].tech \in Tech
  /\ \A z \in Zone, t \in Tech : <<z, t>> \in j.links => j.put[z] # None
  /\ Once(j.todo)
  /\ \A t \in j.held : t \notin ToSet(j.todo)
  /\ \A t \in Tech, a \in Address : j.rows[t][a] # None => t \in j.held \cup ToSet(j.todo)

\* Of the rows, and of two transactions: a technology is locked, and a zone written,
\* by one of them.
ZonesSound ==
  \A z \in Zone :
    /\ zone[z].state # "unused" => zone[z].tech \in Tech
    /\ \A t \in Tech : <<z, t>> \in link => zone[z].state # "unused"

LoadedSound ==
  \A p \in Proc : job[p].pc = "flush" =>
    \A z \in job[p].loaded : Zones(p)[z].state # "unused"

Exclusive ==
  \A p, q \in Proc : p # q =>
    /\ \A t \in job[p].held : t \notin job[q].held
    /\ \A z \in Zone : job[p].put[z] = None \/ job[q].put[z] = None

Base ==
  /\ TypeOK
  /\ \A p \in Proc : JobSound(job[p])
  /\ ZonesSound
  /\ LoadedSound
  /\ Exclusive

-----------------------------------------------------------------------------
(* What a transaction sees *)

LEMMA Views ==
  ASSUME TypeOK, NEW p \in Proc
  PROVE  /\ Zones(p) \in [Zone -> ZoneRow]
         /\ Rows(p) \in [Tech -> [Address -> Status]]
         /\ Links(p) \subseteq Zone \X Tech
         /\ \A z \in Zone : /\ job[p].put[z] = None => Zones(p)[z] = zone[z]
                            /\ job[p].put[z] # None => Zones(p)[z] = job[p].put[z]
         /\ \A t \in Tech, a \in Address :
              /\ job[p].rows[t][a] = None => Rows(p)[t][a] = offering[t][a]
              /\ job[p].rows[t][a] # None => Rows(p)[t][a] = job[p].rows[t][a]
<1>1. /\ job[p].put \in [Zone -> ZoneRow \cup {None}]
      /\ job[p].rows \in [Tech -> [Address -> Status \cup {None}]]
      /\ job[p].links \subseteq Zone \X Tech
  BY DEF TypeOK, Job
<1>2. zone \in [Zone -> ZoneRow] /\ offering \in [Tech -> [Address -> Status]]
      /\ link \subseteq Zone \X Tech
  BY DEF TypeOK
<1>3. \A z \in Zone : Zones(p)[z] = Over(job[p].put[z], zone[z])
  BY DEF Zones
<1>4. \A t \in Tech, a \in Address : Rows(p)[t][a] = Over(job[p].rows[t][a], offering[t][a])
  BY DEF Rows
<1>5. Zones(p) \in [Zone -> ZoneRow]
  BY <1>1, <1>2 DEF Zones, Over
<1>6. Rows(p) \in [Tech -> [Address -> Status]]
  BY <1>1, <1>2 DEF Rows, Over
<1> QED
  BY <1>1, <1>2, <1>3, <1>4, <1>5, <1>6 DEF Over, Links

LEMMA UnusedZones ==
  ASSUME TypeOK, NEW p \in Proc, NEW z \in Unused
  PROVE  z \in Zone /\ job[p].put[z] = None /\ zone[z].state = "unused"
         /\ Zones(p)[z] = zone[z]
BY Views DEF Unused

\* The rest of a queue of technologies.
LEMMA Queue ==
  ASSUME NEW s \in Seq(Tech), s # <<>>
  PROVE  /\ Head(s) \in Tech
         /\ Tail(s) \in Seq(Tech)
         /\ ToSet(s) = {Head(s)} \cup ToSet(Tail(s))
         /\ Once(s) => Once(Tail(s)) /\ Head(s) \notin ToSet(Tail(s))
<1>1. /\ Len(s) \in Nat \ {0} /\ DOMAIN s = 1..Len(s) /\ Head(s) = s[1] /\ s[1] \in Tech
      /\ Tail(s) \in Seq(Tech) /\ DOMAIN Tail(s) = 1..(Len(s) - 1)
      /\ \A i \in 1..(Len(s) - 1) : Tail(s)[i] = s[i + 1]
  OBVIOUS
<1>2. ToSet(s) \subseteq {Head(s)} \cup ToSet(Tail(s))
  <2> SUFFICES ASSUME NEW i \in 1..Len(s), i # 1
               PROVE  s[i] \in ToSet(Tail(s))
    BY <1>1 DEF ToSet
  <2>1. i - 1 \in 1..(Len(s) - 1) /\ (i - 1) + 1 = i
    BY <1>1
  <2> QED
    BY <1>1, <2>1 DEF ToSet
<1>3. {Head(s)} \cup ToSet(Tail(s)) \subseteq ToSet(s)
  <2>1. \A i \in 1..(Len(s) - 1) : i + 1 \in 1..Len(s) /\ i + 1 # 1
    BY <1>1
  <2> QED
    BY <1>1, <2>1 DEF ToSet
<1>4. ASSUME Once(s)  PROVE Once(Tail(s)) /\ Head(s) \notin ToSet(Tail(s))
  <2>1. \A i \in 1..(Len(s) - 1) : i + 1 \in 1..Len(s) /\ i + 1 # 1
    BY <1>1
  <2>2. Once(Tail(s))
    BY <1>1, <1>4, <2>1 DEF Once
  <2> QED
    BY <1>1, <1>4, <2>1, <2>2 DEF Once, ToSet
<1> QED
  BY <1>1, <1>2, <1>3, <1>4

-----------------------------------------------------------------------------
(* A step of one transaction that writes nothing others read. *)

LEMMA OwnStep ==
  ASSUME Base, NEW p \in Proc, NEW j \in Job, JobSound(j),
         job' = [job EXCEPT ![p] = j],
         offering' \in [Tech -> [Address -> Status]], live' = live, zone' = zone,
         link' = link, owed' \subseteq Tech,
         \A q \in Proc \ {p} :
           /\ \A t \in j.held : t \notin job[q].held
           /\ \A z \in Zone : j.put[z] = None \/ job[q].put[z] = None,
         j.pc = "flush" => \A z \in j.loaded : Over(j.put[z], zone[z]).state # "unused"
  PROVE  Base' /\ job'[p] = j /\ \A q \in Proc \ {p} : job'[q] = job[q]
<1>1. job'[p] = j /\ \A q \in Proc \ {p} : job'[q] = job[q]
  BY DEF Base, TypeOK
<1>2. TypeOK'
  BY DEF Base, TypeOK
<1>3. (\A q \in Proc : JobSound(job[q]))'
  <2>1. ASSUME NEW q \in Proc  PROVE JobSound(job'[q])
    BY <1>1 DEF Base
  <2> QED
    BY <2>1 DEF JobSound
<1>4. ZonesSound'
  BY DEF Base, ZonesSound
<1>5. LoadedSound'
  <2> SUFFICES ASSUME NEW q \in Proc, job'[q].pc = "flush", NEW z \in job'[q].loaded
               PROVE  Zones(q)'[z].state # "unused"
    BY DEF LoadedSound
  <2>1. z \in Zone
    BY <1>2 DEF TypeOK, Job
  <2>2. Zones(q)'[z] = Over(job'[q].put[z], zone[z])
    BY <2>1 DEF Zones
  <2>3. CASE q = p
    BY <1>1, <2>2, <2>3
  <2>4. CASE q # p
    <3>1. job'[q] = job[q]
      BY <1>1, <2>4
    <3>2. Zones(q)[z].state # "unused"
      BY <3>1 DEF Base, LoadedSound
    <3>3. Zones(q)[z] = Over(job[q].put[z], zone[z])
      BY <2>1 DEF Zones
    <3> QED
      BY <2>2, <3>1, <3>2, <3>3
  <2> QED
    BY <2>3, <2>4
<1>6. Exclusive'
  BY <1>1 DEF Base, Exclusive
<1> QED
  BY <1>1, <1>2, <1>3, <1>4, <1>5, <1>6 DEF Base

\* A transaction that has written no zone and holds no lock: an idle one, or one
\* that starts.
Fresher(j) ==
  /\ j.pc \in {"idle", "next"} /\ j.held = {} /\ j.put = NoZones /\ j.links = {}
  /\ \A t \in Tech, a \in Address : j.rows[t][a] # None => t \in ToSet(j.todo)

LEMMA IdleJob == Idle \in Job /\ JobSound(Idle) /\ Fresher(Idle)
<1>1. Idle \in Job
  BY DEF Idle, Job, NoRows, NoZones
<1>2. \A z \in Zone : Idle.put[z] = None
  BY DEF Idle, NoZones
<1>3. \A t \in Tech, a \in Address : Idle.rows[t][a] = None
  BY DEF Idle, NoRows
<1>4. /\ Idle.pc = "idle" /\ Idle.links = {} /\ Idle.todo = <<>> /\ Idle.held = {}
      /\ Idle.put = NoZones
  BY DEF Idle
<1>5. Once(Idle.todo)
  BY <1>4 DEF Once
<1> QED
  BY <1>1, <1>2, <1>3, <1>4, <1>5 DEF JobSound, Rebuilds, Fresher

Started(kind, todo, rows) ==
  [Idle EXCEPT !.pc = "next", !.kind = kind, !.todo = todo, !.rows = rows]

LEMMA StartedJob ==
  ASSUME NEW kind \in {"task", "all", "import"}, NEW todo \in Seq(Tech), Once(todo),
         NEW rows \in [Tech -> [Address -> Status \cup {None}]],
         \A t \in Tech, a \in Address : rows[t][a] # None => t \in ToSet(todo)
  PROVE  /\ Started(kind, todo, rows) \in Job
         /\ JobSound(Started(kind, todo, rows))
         /\ Fresher(Started(kind, todo, rows))
         /\ Started(kind, todo, rows).kind = kind
         /\ Started(kind, todo, rows).todo = todo
<1> DEFINE j == Started(kind, todo, rows)
<1>1. j \in Job
  BY IdleJob DEF Job, Started
<1>2. /\ j.pc = "next" /\ j.todo = todo /\ j.rows = rows /\ j.held = {} /\ j.kind = kind
      /\ j.links = {} /\ j.put = NoZones
  BY DEF Idle, Started
<1> HIDE DEF j
<1>3. \A z \in Zone : j.put[z] = None
  BY <1>2 DEF NoZones
<1>4. JobSound(j) /\ Fresher(j)
  BY <1>2, <1>3 DEF JobSound, Rebuilds, Fresher
<1> QED
  BY <1>1, <1>2, <1>4 DEF j

LEMMA FreshStep ==
  ASSUME Base, NEW p \in Proc, NEW j \in Job, JobSound(j), Fresher(j),
         job' = [job EXCEPT ![p] = j],
         offering' \in [Tech -> [Address -> Status]], live' = live, zone' = zone,
         link' = link, owed' \subseteq Tech
  PROVE  Base' /\ job'[p] = j /\ \A q \in Proc \ {p} : job'[q] = job[q]
<1>1. /\ \A z \in Zone : j.put[z] = None
      /\ \A t \in Tech : t \notin j.held
      /\ j.pc # "flush"
  BY DEF Fresher, NoZones
<1>2. \A q \in Proc \ {p} :
        /\ \A t \in j.held : t \notin job[q].held
        /\ \A z \in Zone : j.put[z] = None \/ job[q].put[z] = None
  BY <1>1 DEF Fresher
<1> QED
  BY <1>1, <1>2, OwnStep

\* What starts a rebuild queues it.
Starts(p, kind, todo, j) ==
  /\ job[p] = Idle
  /\ j \in Job /\ JobSound(j) /\ Fresher(j) /\ j.kind = kind /\ j.todo = todo
  /\ job' = [job EXCEPT ![p] = j]
  /\ live' = live /\ zone' = zone /\ link' = link /\ owed' = owed

LEMMA SingleQueue ==
  ASSUME NEW t \in Tech
  PROVE  <<t>> \in Seq(Tech) /\ Once(<<t>>) /\ ToSet(<<t>>) = {t}
BY DEF Once, ToSet

LEMMA NoRowsTyped ==
  /\ NoRows \in [Tech -> [Address -> Status \cup {None}]]
  /\ \A t \in Tech, a \in Address : NoRows[t][a] = None
BY DEF NoRows

LEMMA ChangeStarts ==
  ASSUME Base, NEW p \in Proc, NEW t \in Tech, NEW S \in SUBSET Address, NEW s \in Given,
         Change(p, t, S, s)
  PROVE  /\ \E j \in Job : Starts(p, "task", <<t>>, j)
         /\ offering' \in [Tech -> [Address -> Status]]
         /\ \A u \in Tech, a \in Address : u # t => offering'[u][a] = offering[u][a]
<1> DEFINE j == Started("task", <<t>>, NoRows)
<1>1. /\ job[p] = Idle /\ job' = [job EXCEPT ![p] = j]
      /\ live' = live /\ zone' = zone /\ link' = link /\ owed' = owed
  BY DEF Change, Start, Started
<1>2. j \in Job /\ JobSound(j) /\ Fresher(j) /\ j.kind = "task" /\ j.todo = <<t>>
  <2> DEFINE todo == <<t>>
  <2>1. todo \in Seq(Tech) /\ Once(todo)
    BY SingleQueue
  <2> HIDE DEF todo
  <2>2. LET i == Started("task", todo, NoRows)
        IN  i \in Job /\ JobSound(i) /\ Fresher(i) /\ i.kind = "task" /\ i.todo = todo
    BY <2>1, StartedJob, NoRowsTyped
  <2> QED
    BY <2>2 DEF todo
<1>3. s \in Status /\ offering \in [Tech -> [Address -> Status]]
  BY GivenAssumption DEF Base, TypeOK
<1>4. offering' = [offering EXCEPT ![t] =
                     [a \in Address |-> IF a \in S THEN s ELSE offering[t][a]]]
  BY DEF Change
<1> HIDE DEF j
<1> QED
  BY <1>1, <1>2, <1>3, <1>4 DEF Starts

LEMMA RebuildOneStarts ==
  ASSUME Base, NEW p \in Proc, NEW t \in Tech, RebuildOne(p, t)
  PROVE  (\E j \in Job : Starts(p, "task", <<t>>, j)) /\ offering' = offering
<1> DEFINE j == Started("task", <<t>>, NoRows)
<1>1. /\ job[p] = Idle /\ job' = [job EXCEPT ![p] = j] /\ offering' = offering
      /\ live' = live /\ zone' = zone /\ link' = link /\ owed' = owed
  BY DEF RebuildOne, Start, Started
<1>2. j \in Job /\ JobSound(j) /\ Fresher(j) /\ j.kind = "task" /\ j.todo = <<t>>
  <2> DEFINE todo == <<t>>
  <2>1. todo \in Seq(Tech) /\ Once(todo)
    BY SingleQueue
  <2> HIDE DEF todo
  <2>2. LET i == Started("task", todo, NoRows)
        IN  i \in Job /\ JobSound(i) /\ Fresher(i) /\ i.kind = "task" /\ i.todo = todo
    BY <2>1, StartedJob, NoRowsTyped
  <2> QED
    BY <2>2 DEF todo
<1> HIDE DEF j
<1> QED
  BY <1>1, <1>2 DEF Starts

LEMMA RebuildAllStarts ==
  ASSUME Base, NEW p \in Proc, RebuildAll(p)
  PROVE  (\E todo \in Seq(Tech), j \in Job : Starts(p, "all", todo, j)) /\ offering' = offering
<1>1. PICK todo \in SetToSeqs(Offered) : Start(p, "all", todo, NoRows)
  BY DEF RebuildAll
<1>2. Offered \subseteq Tech /\ IsFiniteSet(Offered)
  BY FiniteAssumption, FS_Subset DEF Offered
<1>3. Cardinality(Offered) \in Nat
  BY <1>2, FS_CardinalityType
<1> DEFINE D == 1..Cardinality(Offered)
<1>4. todo \in [D -> Offered] /\ \A i, k \in D : i # k => todo[i] # todo[k]
  BY <1>1 DEF SetToSeqs
<1>5. todo \in Seq(Tech) /\ Once(todo)
  BY <1>2, <1>3, <1>4 DEF Once
<1> DEFINE j == Started("all", todo, NoRows)
<1>6. /\ job[p] = Idle /\ job' = [job EXCEPT ![p] = j] /\ offering' = offering
      /\ live' = live /\ zone' = zone /\ link' = link /\ owed' = owed
  BY <1>1 DEF RebuildAll, Start, Started
<1>7. j \in Job /\ JobSound(j) /\ Fresher(j) /\ j.kind = "all" /\ j.todo = todo
  BY <1>5, StartedJob, NoRowsTyped
<1> HIDE DEF j
<1> QED
  BY <1>5, <1>6, <1>7 DEF Starts

LEMMA ImportStarts ==
  ASSUME Base, NEW p \in Proc, NEW t \in Tech, NEW near, NEW far, NEW s \in Given,
         Import(p, t, near, far, s)
  PROVE  (\E j \in Job : Starts(p, "import", <<t>>, j)) /\ offering' = offering
<1> DEFINE rows == [a \in Address |->
             IF a \in near \cap live /\ offering[t][a] = "none" THEN s
             ELSE IF a \in far \cap live /\ offering[t][a] # "none" THEN "none"
             ELSE None]
           own == [NoRows EXCEPT ![t] = rows]
           j == Started("import", <<t>>, own)
<1>1. /\ job[p] = Idle /\ job' = [job EXCEPT ![p] = j] /\ offering' = offering
      /\ live' = live /\ zone' = zone /\ link' = link /\ owed' = owed
  BY DEF Import, Start, Started
<1>2. rows \in [Address -> Status \cup {None}]
  BY GivenAssumption DEF Status
<1> HIDE DEF rows
<1>3. /\ own \in [Tech -> [Address -> Status \cup {None}]]
      /\ \A u \in Tech, a \in Address : own[u][a] # None => u = t
  BY <1>2, NoRowsTyped
<1> HIDE DEF own
<1>4. j \in Job /\ JobSound(j) /\ Fresher(j) /\ j.kind = "import" /\ j.todo = <<t>>
  <2> DEFINE todo == <<t>>
  <2>1. todo \in Seq(Tech) /\ Once(todo) /\ t \in ToSet(todo)
    BY SingleQueue
  <2> HIDE DEF todo
  <2>2. LET i == Started("import", todo, own)
        IN  i \in Job /\ JobSound(i) /\ Fresher(i) /\ i.kind = "import" /\ i.todo = todo
    BY <1>3, <2>1, StartedJob
  <2> QED
    BY <2>2 DEF todo
<1> HIDE DEF j
<1> QED
  BY <1>1, <1>4 DEF Starts

LEMMA StartsBase ==
  ASSUME Base, NEW p \in Proc, NEW kind, NEW todo, NEW j, Starts(p, kind, todo, j),
         offering' \in [Tech -> [Address -> Status]]
  PROVE  Base' /\ job'[p] = j /\ \A q \in Proc \ {p} : job'[q] = job[q]
<1>1. owed' \subseteq Tech
  BY DEF Starts, Base, TypeOK
<1> QED
  BY <1>1, FreshStep DEF Starts

-----------------------------------------------------------------------------
(* What each step of a rebuild does to the transaction. *)

Acquires(p, t, j) ==
  /\ job[p].pc = "next" /\ t \notin job[p].held
  /\ \A q \in Proc \ {p} : t \notin job[q].held
  /\ ToSet(job[p].todo) = {t} \cup ToSet(j.todo)
  /\ j.pc = "zones" /\ j.kind = job[p].kind /\ j.tech = t
  /\ j.held = job[p].held \cup {t} /\ j.comps = Clusters(Seen(p, t))
  /\ j.rows = job[p].rows /\ j.put = job[p].put /\ j.links = job[p].links
  /\ owed' = owed \ {t}
  /\ offering' = offering /\ live' = live /\ zone' = zone /\ link' = link

LEMMA ClustersTyped ==
  ASSUME NEW C \in SUBSET Address
  PROVE  Clusters(C) \in SUBSET SUBSET Address
BY DEF Clusters

LEMMA AcquireOutcome ==
  ASSUME Base, NEW p \in Proc, Acquire(p)
  PROVE  Base' /\ (\A q \in Proc \ {p} : job'[q] = job[q])
         /\ \E t \in Tech : Acquires(p, t, job'[p])
<1> DEFINE t == Head(job[p].todo)
           C == Seen(p, t)
           j == [job[p] EXCEPT !.pc = "zones", !.tech = t, !.todo = Tail(@),
                               !.held = @ \cup {t}, !.comps = Clusters(C)]
<1>1. job[p] \in Job /\ JobSound(job[p]) /\ job \in [Proc -> Job] /\ live \subseteq Address
  BY DEF Base, TypeOK
<1>2. job[p].todo \in Seq(Tech) /\ job[p].todo # <<>> /\ job[p].pc = "next"
  BY <1>1 DEF Job, Acquire
<1>3. /\ t \in Tech /\ Tail(job[p].todo) \in Seq(Tech)
      /\ ToSet(job[p].todo) = {t} \cup ToSet(Tail(job[p].todo))
      /\ Once(Tail(job[p].todo)) /\ t \notin ToSet(Tail(job[p].todo))
  BY <1>1, <1>2, Queue DEF JobSound
<1>4. /\ \A q \in Proc \ {p} : t \notin job[q].held
      /\ owed' = owed \ {t}
      /\ offering' = offering /\ live' = live /\ zone' = zone /\ link' = link
  BY DEF Acquire
<1>5. job' = [job EXCEPT ![p] = j]
  BY <1>1 DEF Acquire
<1> HIDE DEF t
<1>6. C \in SUBSET Address /\ Clusters(C) \in SUBSET SUBSET Address
  BY <1>1, ClustersTyped DEF Seen
<1> HIDE DEF C
<1>7. j \in Job
  BY <1>1, <1>3, <1>6 DEF Job
<1>8. /\ j.pc = "zones" /\ j.kind = job[p].kind /\ j.tech = t /\ j.todo = Tail(job[p].todo)
      /\ j.held = job[p].held \cup {t} /\ j.comps = Clusters(C)
      /\ j.rows = job[p].rows /\ j.put = job[p].put /\ j.links = job[p].links
  BY <1>1 DEF Job
<1> HIDE DEF j
<1>9. JobSound(j)
  BY <1>1, <1>3, <1>6, <1>8 DEF JobSound, Rebuilds
<1>10. Base' /\ job'[p] = j /\ \A q \in Proc \ {p} : job'[q] = job[q]
  <2>1. \A q \in Proc \ {p} :
          /\ \A u \in j.held : u \notin job[q].held
          /\ \A z \in Zone : j.put[z] = None \/ job[q].put[z] = None
    <3> SUFFICES ASSUME NEW q \in Proc \ {p}
                 PROVE  /\ \A u \in j.held : u \notin job[q].held
                        /\ \A z \in Zone : j.put[z] = None \/ job[q].put[z] = None
      OBVIOUS
    <3>1. /\ \A u \in job[p].held : u \notin job[q].held
          /\ \A z \in Zone : job[p].put[z] = None \/ job[q].put[z] = None
      BY DEF Base, Exclusive
    <3> QED
      BY <1>4, <1>8, <3>1
  <2>2. offering' \in [Tech -> [Address -> Status]] /\ owed' \subseteq Tech
    BY <1>4 DEF Base, TypeOK
  <2> QED
    BY <1>4, <1>5, <1>7, <1>8, <1>9, <2>1, <2>2, OwnStep
<1>11. Acquires(p, t, job'[p])
  <2>1. t \notin job[p].held
    BY <1>1, <1>3 DEF JobSound
  <2> QED
    BY <1>2, <1>3, <1>4, <1>8, <1>10, <2>1 DEF Acquires, C
<1> QED
  BY <1>3, <1>10, <1>11

Touching(zones, loaded, comps) ==
  {m \in loaded \X comps : Overlap(zones[m[1]].poly, m[2]) > 0}

Matching(zones, loaded, comps, match) ==
  /\ match \subseteq Touching(zones, loaded, comps)
  /\ Greedy(zones, Touching(zones, loaded, comps), match)

Reads(p, j) ==
  /\ job[p].pc = "zones" /\ j.pc = "flush" /\ j.kind = job[p].kind /\ j.tech = job[p].tech
  /\ j.todo = job[p].todo /\ j.held = job[p].held /\ j.comps = job[p].comps
  /\ j.loaded = {z \in Zone : <<z, j.tech>> \in Links(p)}
  /\ j.hidden = {z \in j.loaded : Zones(p)[z].state = "hidden"}
  /\ Matching(Zones(p), j.loaded, j.comps, j.match)
  /\ j.rows = job[p].rows /\ j.put = job[p].put /\ j.links = job[p].links
  /\ owed' = owed /\ offering' = offering /\ live' = live /\ zone' = zone /\ link' = link

LEMMA ReadOutcome ==
  ASSUME Base, NEW p \in Proc, ReadZones(p)
  PROVE  Base' /\ (\A q \in Proc \ {p} : job'[q] = job[q]) /\ Reads(p, job'[p])
<1> DEFINE t == job[p].tech
           loaded == {z \in Zone : <<z, t>> \in Links(p)}
           hidden == {z \in loaded : Zones(p)[z].state = "hidden"}
           pairs == Touching(Zones(p), loaded, job[p].comps)
<1>1. job[p] \in Job /\ JobSound(job[p]) /\ job \in [Proc -> Job]
  BY DEF Base, TypeOK
<1>2. PICK match \in SUBSET pairs :
        /\ Greedy(Zones(p), pairs, match)
        /\ job' = [job EXCEPT ![p] = [@ EXCEPT !.pc = "flush", !.loaded = loaded,
                                               !.match = match, !.hidden = hidden]]
  BY DEF ReadZones, Touching
<1> DEFINE j == [job[p] EXCEPT !.pc = "flush", !.loaded = loaded, !.match = match,
                               !.hidden = hidden]
<1>3. job' = [job EXCEPT ![p] = j]
  BY <1>1, <1>2
<1>4. /\ job[p].pc = "zones"
      /\ owed' = owed /\ offering' = offering /\ live' = live /\ zone' = zone /\ link' = link
  BY DEF ReadZones
<1>5. match \subseteq loaded \X job[p].comps /\ \A m, n \in match : ~ Meet(m, n)
  BY <1>2 DEF Touching, Greedy
<1>6. loaded \subseteq Zone /\ hidden \subseteq Zone /\ match \in SUBSET (Zone \X SUBSET Address)
  <2>1. loaded \subseteq Zone /\ hidden \subseteq Zone /\ job[p].comps \in SUBSET SUBSET Address
    BY <1>1 DEF Job
  <2> HIDE DEF loaded, hidden, pairs
  <2> QED
    BY <1>5, <2>1
<1>7. \A z \in loaded : Zones(p)[z].state # "unused"
  <2> SUFFICES ASSUME NEW z \in loaded  PROVE Zones(p)[z].state # "unused"
    OBVIOUS
  <2>1. t \in Tech
    BY <1>1, <1>4 DEF JobSound, Rebuilds, Job
  <2>2. CASE <<z, t>> \in job[p].links
    BY <1>1, <2>1, <2>2, Views DEF JobSound, Base
  <2>3. CASE <<z, t>> \in link
    <3>1. zone[z].state # "unused"
      BY <2>1, <2>3 DEF Base, ZonesSound
    <3>2. job[p].put[z] # None => job[p].put[z].state # "unused"
      BY <1>1 DEF JobSound
    <3> QED
      BY <3>1, <3>2, Views DEF Base
  <2> QED
    BY <2>2, <2>3 DEF Links
<1> HIDE DEF loaded, hidden, pairs
<1>8. j \in Job
  BY <1>1, <1>6 DEF Job
<1>9. /\ j.pc = "flush" /\ j.kind = job[p].kind /\ j.tech = t /\ j.todo = job[p].todo
      /\ j.held = job[p].held /\ j.comps = job[p].comps /\ j.match = match
      /\ j.loaded = loaded /\ j.hidden = hidden
      /\ j.rows = job[p].rows /\ j.put = job[p].put /\ j.links = job[p].links
  BY <1>1 DEF Job
<1> HIDE DEF j
<1>10. JobSound(j)
  BY <1>1, <1>4, <1>5, <1>9 DEF JobSound, Rebuilds
<1>11. Base' /\ job'[p] = j /\ \A q \in Proc \ {p} : job'[q] = job[q]
  <2>1. \A q \in Proc \ {p} :
          /\ \A u \in j.held : u \notin job[q].held
          /\ \A z \in Zone : j.put[z] = None \/ job[q].put[z] = None
    <3>1. \A q \in Proc \ {p} :
            /\ \A u \in job[p].held : u \notin job[q].held
            /\ \A z \in Zone : job[p].put[z] = None \/ job[q].put[z] = None
      BY DEF Base, Exclusive
    <3>2. j.held = job[p].held /\ j.put = job[p].put
      BY <1>9
    <3> QED
      BY <3>1, <3>2
  <2>2. offering' \in [Tech -> [Address -> Status]] /\ owed' \subseteq Tech
    BY <1>4 DEF Base, TypeOK
  <2>3. \A z \in j.loaded : Over(j.put[z], zone[z]).state # "unused"
    BY <1>6, <1>7, <1>9 DEF Zones
  <2> QED
    BY <1>3, <1>4, <1>8, <1>10, <2>1, <2>2, <2>3, OwnStep
<1>12. Reads(p, job'[p])
  BY <1>2, <1>4, <1>9, <1>11 DEF Reads, Matching, loaded, hidden, pairs
<1> QED
  BY <1>11, <1>12

Fails(p) ==
  /\ job'[p] = Idle
  /\ owed' = owed \cup job[p].held
                  \cup (IF job[p].kind = "task" THEN ToSet(job[p].todo) ELSE {})
  /\ offering' = offering /\ live' = live /\ zone' = zone /\ link' = link

LEMMA FailOutcome ==
  ASSUME Base, NEW p \in Proc, Fail(p)
  PROVE  Base' /\ (\A q \in Proc \ {p} : job'[q] = job[q]) /\ Fails(p)
<1>1. job[p] \in Job /\ owed \subseteq Tech
  BY DEF Base, TypeOK
<1>2. ToSet(job[p].todo) \subseteq Tech /\ job[p].held \subseteq Tech
  BY <1>1 DEF Job, ToSet
<1>3. /\ job' = [job EXCEPT ![p] = Idle]
      /\ owed' = owed \cup job[p].held
                      \cup (IF job[p].kind = "task" THEN ToSet(job[p].todo) ELSE {})
      /\ offering' = offering /\ live' = live /\ zone' = zone /\ link' = link
  BY DEF Fail
<1>4. owed' \subseteq Tech /\ offering' \in [Tech -> [Address -> Status]]
  BY <1>1, <1>2, <1>3 DEF Base, TypeOK
<1> QED
  BY <1>3, <1>4, IdleJob, FreshStep DEF Fails

\* The flush puts each component on a zone of its own: its match, or a new one.
Places(p, placed) ==
  LET comps == job[p].comps IN
  /\ placed \in [comps -> Zone]
  /\ \A c, d \in comps : placed[c] = placed[d] => c = d
  /\ \A c \in comps :
       \/ placed[c] \in job[p].loaded /\ <<placed[c], c>> \in job[p].match
       \/ placed[c] \in Unused /\ \A z \in Zone : <<z, c>> \notin job[p].match
  /\ \A z \in Zone, c \in comps : <<z, c>> \in job[p].match => placed[c] = z

Vacated(p, placed, z) == \A c \in job[p].comps : placed[c] # z

\* The row of a zone that got a component.
PlacedRow(p, z, c) ==
  [state |-> IF z \in job[p].hidden \/ Zones(p)[z].state = "unused" THEN "visible"
             ELSE Zones(p)[z].state,
   tech |-> job[p].tech, poly |-> c]

HiddenRow(row) == [row EXCEPT !.state = "hidden"]

Flushes(p, placed, j) ==
  /\ job[p].pc = "flush" /\ FlushBlockedBy(p) = {}
  /\ Places(p, placed)
  /\ j.pc = "next" /\ j.kind = job[p].kind /\ j.todo = job[p].todo /\ j.held = job[p].held
  /\ j.rows = job[p].rows
  /\ \A c \in job[p].comps : j.put[placed[c]] = PlacedRow(p, placed[c], c)
  /\ \A z \in Zone : Vacated(p, placed, z) =>
       j.put[z] = IF z \in job[p].loaded \ job[p].hidden THEN HiddenRow(Zones(p)[z])
                  ELSE job[p].put[z]
  /\ j.links = job[p].links \cup {<<placed[c], job[p].tech>> : c \in job[p].comps}
  /\ owed' = owed /\ offering' = offering /\ live' = live /\ zone' = zone /\ link' = link

LEMMA PlacedPlaces ==
  ASSUME Base, NEW p \in Proc, job[p].pc = "flush",
         NEW new \in [job[p].comps \ Matched(p) -> Unused],
         Fresh(job[p].comps \ Matched(p), new)
  PROVE  Places(p, Placed(p, new))
<1> DEFINE comps == job[p].comps
           loaded == job[p].loaded
           match == job[p].match
           placed == Placed(p, new)
<1>1. /\ loaded \subseteq Zone /\ match \subseteq loaded \X comps
      /\ \A m, n \in match : ~ Meet(m, n)
  BY DEF Base, TypeOK, Job, JobSound
<1>2. \A c \in comps : placed[c] = IF \E z \in loaded : <<z, c>> \in match
                                   THEN CHOOSE z \in loaded : <<z, c>> \in match
                                   ELSE new[c]
  BY DEF Placed
<1>3. \A c \in comps : (\A z \in loaded : <<z, c>> \notin match) => c \notin Matched(p)
  BY <1>1 DEF Matched
<1>4. Unused \subseteq Zone /\ \A z \in loaded : z \notin Unused
  <2>1. \A z \in loaded : Zones(p)[z].state # "unused"
    BY DEF Base, LoadedSound
  <2> QED
    BY <2>1, UnusedZones DEF Base, Unused
<1> HIDE DEF comps, loaded, match, placed
<1>5. \A c \in comps :
        \/ placed[c] \in loaded /\ <<placed[c], c>> \in match
        \/ placed[c] \in Unused /\ placed[c] = new[c] /\ c \in comps \ Matched(p)
           /\ \A z \in Zone : <<z, c>> \notin match
  <2> SUFFICES ASSUME NEW c \in comps
               PROVE  \/ placed[c] \in loaded /\ <<placed[c], c>> \in match
                      \/ placed[c] \in Unused /\ placed[c] = new[c] /\ c \in comps \ Matched(p)
                         /\ \A z \in Zone : <<z, c>> \notin match
    OBVIOUS
  <2>1. CASE \E z \in loaded : <<z, c>> \in match
    BY <1>2, <2>1
  <2>2. CASE \A z \in loaded : <<z, c>> \notin match
    BY <1>1, <1>2, <1>3, <2>2 DEF comps
  <2> QED
    BY <2>1, <2>2
<1>6. \A m, n \in match : m[1] = n[1] \/ m[2] = n[2] => m = n
  BY <1>1 DEF Meet
<1>7. \A c, d \in comps : placed[c] = placed[d] => c = d
  <2> SUFFICES ASSUME NEW c \in comps, NEW d \in comps, placed[c] = placed[d]
               PROVE  c = d
    OBVIOUS
  <2>1. CASE placed[c] \in loaded
    <3>1. <<placed[c], c>> \in match /\ <<placed[c], d>> \in match
      BY <1>4, <1>5, <2>1
    <3> QED
      BY <1>6, <3>1
  <2>2. CASE placed[c] \notin loaded
    <3>1. placed[c] = new[c] /\ placed[d] = new[d]
          /\ c \in comps \ Matched(p) /\ d \in comps \ Matched(p)
      BY <1>5, <2>2
    <3> QED
      BY <3>1 DEF Fresh, comps
  <2> QED
    BY <2>1, <2>2
<1>8. \A z \in Zone, c \in comps : <<z, c>> \in match => placed[c] = z
  <2> SUFFICES ASSUME NEW z \in Zone, NEW c \in comps, <<z, c>> \in match
               PROVE  placed[c] = z
    OBVIOUS
  <2>1. <<placed[c], c>> \in match
    BY <1>5
  <2> QED
    BY <1>6, <2>1
<1>9. placed \in [comps -> Zone]
  BY <1>1, <1>4, <1>5 DEF placed, Placed, comps
<1> QED
  BY <1>5, <1>7, <1>8, <1>9 DEF Places, comps, loaded, match, placed

LEMMA WrittenRows ==
  ASSUME Base, NEW p \in Proc, job[p].pc = "flush", NEW placed, Places(p, placed)
  PROVE  /\ \A c \in job[p].comps : Written(p, placed, placed[c]) = PlacedRow(p, placed[c], c)
         /\ \A z \in Zone : Vacated(p, placed, z) =>
              Written(p, placed, z) = IF z \in job[p].loaded \ job[p].hidden
                                      THEN HiddenRow(Zones(p)[z]) ELSE job[p].put[z]
         /\ \A z \in Zone : Written(p, placed, z) \in ZoneRow \cup {None}
<1>1. ASSUME NEW c \in job[p].comps
      PROVE  Written(p, placed, placed[c]) = PlacedRow(p, placed[c], c)
  <2>1. (CHOOSE d \in job[p].comps : placed[d] = placed[c]) = c
    BY DEF Places
  <2>2. \E d \in job[p].comps : placed[d] = placed[c]
    OBVIOUS
  <2> QED
    BY <2>1, <2>2 DEF Written, PlacedRow
<1>2. ASSUME NEW z \in Zone, Vacated(p, placed, z)
      PROVE  Written(p, placed, z) = IF z \in job[p].loaded \ job[p].hidden
                                     THEN HiddenRow(Zones(p)[z]) ELSE job[p].put[z]
  BY <1>2 DEF Vacated, Written, HiddenRow
<1>3. ASSUME NEW z \in Zone  PROVE Written(p, placed, z) \in ZoneRow \cup {None}
  <2>1. /\ Zones(p)[z] \in ZoneRow /\ job[p].put[z] \in ZoneRow \cup {None}
        /\ job[p].tech \in Tech \cup {None} /\ job[p].comps \in SUBSET SUBSET Address
    BY Views DEF Base, TypeOK, Job
  <2>2. CASE Vacated(p, placed, z)
    BY <1>2, <2>1, <2>2 DEF HiddenRow, ZoneRow
  <2>3. CASE \E c \in job[p].comps : placed[c] = z
    <3>1. PICK c \in job[p].comps : placed[c] = z
      BY <2>3
    <3>2. PlacedRow(p, z, c) \in ZoneRow
      BY <2>1 DEF PlacedRow, ZoneRow
    <3> QED
      BY <1>1, <3>1, <3>2
  <2> QED
    BY <2>2, <2>3 DEF Vacated
<1> QED
  BY <1>1, <1>2, <1>3

LEMMA FlushOutcome ==
  ASSUME Base, NEW p \in Proc, Flush(p)
  PROVE  Base' /\ (\A q \in Proc \ {p} : job'[q] = job[q])
         /\ \E placed : Flushes(p, placed, job'[p])
<1> DEFINE t == job[p].tech
           comps == job[p].comps
<1>1. /\ job[p] \in Job /\ JobSound(job[p]) /\ job \in [Proc -> Job]
      /\ job[p].pc = "flush" /\ FlushBlockedBy(p) = {}
      /\ owed' = owed /\ offering' = offering /\ live' = live /\ zone' = zone /\ link' = link
  BY DEF Base, TypeOK, Flush
<1>2. PICK new \in [comps \ Matched(p) -> Unused] :
        /\ Fresh(comps \ Matched(p), new)
        /\ job' = [job EXCEPT ![p] = [job[p] EXCEPT
             !.pc = "next", !.tech = None, !.comps = {}, !.loaded = {}, !.hidden = {},
             !.match = {}, !.put = [z \in Zone |-> Written(p, Placed(p, new), z)],
             !.links = job[p].links
                         \cup {<<Placed(p, new)[c], job[p].tech>> : c \in job[p].comps}]]
  BY DEF Flush
<1> DEFINE placed == Placed(p, new)
<1>3. Places(p, placed)
  BY <1>1, <1>2, PlacedPlaces
<1> DEFINE put == [z \in Zone |-> Written(p, placed, z)]
           links == job[p].links \cup {<<placed[c], t>> : c \in comps}
           j == [job[p] EXCEPT !.pc = "next", !.tech = None, !.comps = {}, !.loaded = {},
                   !.hidden = {}, !.match = {}, !.put = put, !.links = links]
<1>4. job' = [job EXCEPT ![p] = j]
  BY <1>2
<1> HIDE DEF placed
<1>5. t \in Tech /\ t \in job[p].held
  BY <1>1 DEF JobSound, Rebuilds, Job
<1>6. /\ \A c \in comps : put[placed[c]] = PlacedRow(p, placed[c], c)
      /\ \A z \in Zone : Vacated(p, placed, z) =>
           put[z] = IF z \in job[p].loaded \ job[p].hidden THEN HiddenRow(Zones(p)[z])
                    ELSE job[p].put[z]
      /\ put \in [Zone -> ZoneRow \cup {None}]
  BY <1>1, <1>3, WrittenRows DEF Places
<1>7. links \subseteq Zone \X Tech
  BY <1>1, <1>3, <1>5 DEF Places, Job
<1>8. \A z \in Zone, u \in Tech : <<z, u>> \in links =>
        \/ <<z, u>> \in job[p].links
        \/ u = t /\ \E c \in comps : placed[c] = z
  OBVIOUS
<1>9. links = job[p].links \cup {<<placed[c], job[p].tech>> : c \in job[p].comps}
  OBVIOUS
<1> HIDE DEF put, links, comps
<1>10. j \in Job
  BY <1>1, <1>6, <1>7 DEF Job
<1>11. /\ j.pc = "next" /\ j.kind = job[p].kind /\ j.tech = None /\ j.todo = job[p].todo
       /\ j.held = job[p].held /\ j.loaded = {} /\ j.match = {}
       /\ j.rows = job[p].rows /\ j.put = put /\ j.links = links
  BY <1>1 DEF Job
<1> HIDE DEF j
<1>12. \A c \in comps : PlacedRow(p, placed[c], c) # None
                        /\ PlacedRow(p, placed[c], c).state # "unused"
                        /\ PlacedRow(p, placed[c], c).tech = t
  <2> SUFFICES ASSUME NEW c \in comps
               PROVE  PlacedRow(p, placed[c], c) # None
                      /\ PlacedRow(p, placed[c], c).state # "unused"
                      /\ PlacedRow(p, placed[c], c).tech = t
    OBVIOUS
  <2>1. placed[c] \in Zone
    BY <1>3 DEF Places, comps
  <2>2. PlacedRow(p, placed[c], c) = put[placed[c]]
    BY <1>6
  <2>3. Zones(p)[placed[c]] \in ZoneRow
    BY <2>1, Views DEF Base
  <2>4. c \in SUBSET Address
    BY <1>1 DEF Job, comps
  <2>5. PlacedRow(p, placed[c], c) \in ZoneRow
    BY <1>5, <2>3, <2>4 DEF PlacedRow, ZoneRow
  <2>6. PlacedRow(p, placed[c], c).state # "unused" /\ PlacedRow(p, placed[c], c).tech = t
    BY DEF PlacedRow
  <2> QED
    BY <2>5, <2>6
<1>13. \A z \in job[p].loaded \ job[p].hidden :
         z \in Zone /\ HiddenRow(Zones(p)[z]).state = "hidden"
         /\ HiddenRow(Zones(p)[z]).tech = Zones(p)[z].tech /\ Zones(p)[z].tech \in Tech
  <2> SUFFICES ASSUME NEW z \in job[p].loaded \ job[p].hidden
               PROVE  z \in Zone /\ HiddenRow(Zones(p)[z]).state = "hidden"
                      /\ HiddenRow(Zones(p)[z]).tech = Zones(p)[z].tech
                      /\ Zones(p)[z].tech \in Tech
    OBVIOUS
  <2>1. z \in Zone /\ Zones(p)[z].state # "unused"
    BY <1>1 DEF Base, LoadedSound, Job
  <2>2. Zones(p)[z] \in ZoneRow /\ Zones(p)[z].tech \in Tech
    BY <1>1, <2>1, Views DEF Base, ZonesSound, JobSound
  <2> QED
    BY <2>1, <2>2 DEF HiddenRow, ZoneRow
<1>14. \A z \in Zone : put[z] # None => put[z].state # "unused" /\ put[z].tech \in Tech
  <2> SUFFICES ASSUME NEW z \in Zone, put[z] # None
               PROVE  put[z].state # "unused" /\ put[z].tech \in Tech
    OBVIOUS
  <2>1. CASE Vacated(p, placed, z)
    BY <1>1, <1>6, <1>13, <2>1 DEF JobSound
  <2>2. CASE \E c \in comps : placed[c] = z
    BY <1>5, <1>6, <1>12, <2>2
  <2> QED
    BY <2>1, <2>2 DEF Vacated, comps
<1>15. \A z \in Zone, u \in Tech : <<z, u>> \in links => put[z] # None
  <2> SUFFICES ASSUME NEW z \in Zone, NEW u \in Tech, <<z, u>> \in links
               PROVE  put[z] # None
    OBVIOUS
  <2>1. CASE \E c \in comps : placed[c] = z
    BY <1>6, <1>12, <2>1
  <2>2. CASE Vacated(p, placed, z)
    <3>1. job[p].put[z] # None
      BY <1>1, <1>8, <2>2 DEF JobSound, Vacated, comps
    <3>2. z \in job[p].loaded \ job[p].hidden => HiddenRow(Zones(p)[z]) \in ZoneRow
      <4>1. Zones(p)[z] \in ZoneRow
        BY Views DEF Base
      <4> QED
        BY <4>1 DEF HiddenRow, ZoneRow
    <3> QED
      BY <1>6, <2>2, <3>1, <3>2
  <2> QED
    BY <2>1, <2>2 DEF Vacated, comps
<1>16. JobSound(j)
  BY <1>1, <1>11, <1>14, <1>15 DEF JobSound, Rebuilds
<1>17. \A q \in Proc \ {p}, z \in Zone : put[z] = None \/ job[q].put[z] = None
  <2> SUFFICES ASSUME NEW q \in Proc \ {p}, NEW z \in Zone
               PROVE  put[z] = None \/ job[q].put[z] = None
    OBVIOUS
  <2>1. \A y \in job[p].loaded : job[q].put[y] = None
    BY <1>1 DEF FlushBlockedBy
  <2>2. CASE \E c \in comps : placed[c] = z
    <3>1. z \in job[p].loaded \/ z \in Unused
      <4>1. PICK c \in job[p].comps : placed[c] = z
        BY <2>2 DEF comps
      <4> QED
        BY <1>3, <4>1 DEF Places
    <3> QED
      BY <2>1, <3>1 DEF Unused
  <2>3. CASE Vacated(p, placed, z)
    <3>1. job[p].put[z] = None \/ job[q].put[z] = None
      BY DEF Base, Exclusive
    <3> QED
      BY <1>6, <2>1, <2>3, <3>1
  <2> QED
    BY <2>2, <2>3 DEF Vacated, comps
<1>18. Base' /\ job'[p] = j /\ \A q \in Proc \ {p} : job'[q] = job[q]
  <2>1. \A q \in Proc \ {p} :
          /\ \A u \in j.held : u \notin job[q].held
          /\ \A z \in Zone : j.put[z] = None \/ job[q].put[z] = None
    BY <1>11, <1>17 DEF Base, Exclusive
  <2>2. offering' \in [Tech -> [Address -> Status]] /\ owed' \subseteq Tech
    BY <1>1 DEF Base, TypeOK
  <2> QED
    BY <1>1, <1>4, <1>10, <1>11, <1>16, <2>1, <2>2, OwnStep
<1>19. Flushes(p, placed, job'[p])
  BY <1>1, <1>3, <1>6, <1>9, <1>11, <1>18 DEF Flushes, comps
<1> QED
  BY <1>18, <1>19

\* A zone once created stays.
LEMMA UsedStays ==
  ASSUME Base, NEW p \in Proc, NEW z \in Zone
  PROVE  /\ zone[z].state # "unused" => Zones(p)[z].state # "unused"
         /\ Zones(p)[z].state # "unused" => Zones(p)[z].tech \in Tech
         /\ \A t \in Tech : <<z, t>> \in Links(p) => Zones(p)[z].state # "unused"
<1>1. JobSound(job[p]) /\ TypeOK
  BY DEF Base
<1>2. /\ job[p].put[z] # None => job[p].put[z].state # "unused" /\ job[p].put[z].tech \in Tech
      /\ \A t \in Tech : <<z, t>> \in job[p].links => job[p].put[z] # None
  BY <1>1 DEF JobSound
<1>3. /\ zone[z].state # "unused" => zone[z].tech \in Tech
      /\ \A t \in Tech : <<z, t>> \in link => zone[z].state # "unused"
  BY DEF Base, ZonesSound
<1> QED
  BY <1>1, <1>2, <1>3, Views DEF Links

LEMMA CommitOutcome ==
  ASSUME Base, NEW p \in Proc, Commit(p)
  PROVE  /\ Base' /\ (\A q \in Proc \ {p} : job'[q] = job[q]) /\ job'[p] = Idle
         /\ job[p].pc = "next" /\ ToSet(job[p].todo) = {}
         /\ offering' = Rows(p) /\ zone' = Zones(p) /\ link' = Links(p)
         /\ live' = live /\ owed' = owed
<1>1. /\ job' = [job EXCEPT ![p] = Idle] /\ job[p].pc = "next" /\ job[p].todo = <<>>
      /\ offering' = Rows(p) /\ zone' = Zones(p) /\ link' = Links(p)
      /\ live' = live /\ owed' = owed
  BY DEF Commit
<1>2. TypeOK /\ job \in [Proc -> Job] /\ \A q \in Proc : JobSound(job[q])
  BY DEF Base, TypeOK
<1>3. job'[p] = Idle /\ \A q \in Proc \ {p} : job'[q] = job[q]
  BY <1>1, <1>2
<1>4. ToSet(job[p].todo) = {}
  BY <1>1 DEF ToSet
<1>5. TypeOK'
  <2>1. zone' \in [Zone -> ZoneRow] /\ offering' \in [Tech -> [Address -> Status]]
        /\ link' \subseteq Zone \X Tech
    BY <1>1, <1>2, Views
  <2>2. job' \in [Proc -> Job]
    BY <1>1, <1>2, IdleJob
  <2> QED
    BY <1>1, <1>2, <2>1, <2>2 DEF TypeOK
<1>6. (\A q \in Proc : JobSound(job[q]))'
  <2>1. \A q \in Proc : JobSound(job'[q])
    BY <1>2, <1>3, IdleJob
  <2> QED
    BY <2>1 DEF JobSound
<1>7. ZonesSound'
  BY <1>1, UsedStays DEF ZonesSound
<1>8. LoadedSound'
  <2> SUFFICES ASSUME NEW q \in Proc, job'[q].pc = "flush", NEW z \in job'[q].loaded
               PROVE  Zones(q)'[z].state # "unused"
    BY DEF LoadedSound
  <2>1. q # p /\ job'[q] = job[q]
    BY <1>3, IdleJob DEF Fresher
  <2>2. z \in Zone /\ Zones(q)[z].state # "unused"
    BY <1>2, <2>1 DEF Base, LoadedSound, Job
  <2>3. Zones(q)'[z] = Over(job[q].put[z], Zones(p)[z])
    BY <1>1, <2>1, <2>2 DEF Zones
  <2>4. CASE job[q].put[z] = None
    <3>1. zone[z].state # "unused"
      BY <1>2, <2>2, <2>4, Views
    <3> QED
      BY <2>2, <2>3, <2>4, <3>1, UsedStays DEF Over
  <2>5. CASE job[q].put[z] # None
    BY <1>2, <2>2, <2>3, <2>5, Views DEF Over
  <2> QED
    BY <2>4, <2>5
<1>9. Exclusive'
  <2>1. Idle.held = {} /\ \A z \in Zone : Idle.put[z] = None
    BY IdleJob DEF Fresher, NoZones
  <2>2. \A q \in Proc : job'[q] = job[q] \/ job'[q] = Idle
    BY <1>3
  <2>3. \A q, r \in Proc : q # r =>
          /\ \A t \in job'[q].held : t \notin job'[r].held
          /\ \A z \in Zone : job'[q].put[z] = None \/ job'[r].put[z] = None
    <3> SUFFICES ASSUME NEW q \in Proc, NEW r \in Proc, q # r
                 PROVE  /\ \A t \in job'[q].held : t \notin job'[r].held
                        /\ \A z \in Zone : job'[q].put[z] = None \/ job'[r].put[z] = None
      OBVIOUS
    <3>1. /\ \A t \in job[q].held : t \notin job[r].held
          /\ \A z \in Zone : job[q].put[z] = None \/ job[r].put[z] = None
      BY DEF Base, Exclusive
    <3>2. CASE job'[q] = Idle \/ job'[r] = Idle
      BY <2>1, <3>2
    <3>3. CASE job'[q] = job[q] /\ job'[r] = job[r]
      BY <3>1, <3>3
    <3> QED
      BY <2>2, <3>2, <3>3
  <2> QED
    BY <2>3 DEF Exclusive
<1> QED
  BY <1>1, <1>3, <1>4, <1>5, <1>6, <1>7, <1>8, <1>9 DEF Base

\* The steps outside a transaction.
LEMMA OutsideStep ==
  ASSUME Base, TypeOK', job' = job,
         \A z \in Zone : /\ zone[z].state # "unused" <=> zone'[z].state # "unused"
                         /\ zone'[z].tech = zone[z].tech
                         /\ \A t \in Tech : <<z, t>> \in link' => zone[z].state # "unused"
  PROVE  Base'
<1>1. (\A p \in Proc : JobSound(job[p]))' /\ ZonesSound' /\ Exclusive'
  BY DEF Base, JobSound, ZonesSound, Exclusive
<1>2. LoadedSound'
  <2> SUFFICES ASSUME NEW q \in Proc, job'[q].pc = "flush", NEW z \in job'[q].loaded
               PROVE  Zones(q)'[z].state # "unused"
    BY DEF LoadedSound
  <2>1. z \in Zone /\ Zones(q)[z].state # "unused"
    BY DEF Base, LoadedSound, TypeOK, Job
  <2>2. Zones(q)'[z] = Over(job[q].put[z], zone'[z])
    BY <2>1 DEF Zones
  <2> QED
    BY <2>1, <2>2, Views DEF Base, Over
<1> QED
  BY <1>1, <1>2 DEF Base

LEMMA HideOutcome ==
  ASSUME Base, NEW y \in Zone, HideZone(y)
  PROVE  /\ Base'
         /\ zone[y].state = "visible" /\ zone[y].tech \in Tech
         /\ \A p \in Proc : job[p].put[y] = None
         /\ zone' = [zone EXCEPT ![y] = HiddenRow(zone[y])]
         /\ owed' = owed \cup {zone[y].tech}
         /\ offering' = offering /\ live' = live /\ link' = link /\ job' = job
<1>1. /\ zone[y].state = "visible"
      /\ zone' = [zone EXCEPT ![y] = HiddenRow(zone[y])]
      /\ owed' = owed \cup {zone[y].tech}
      /\ offering' = offering /\ live' = live /\ link' = link /\ job' = job
  BY DEF HideZone, HiddenRow
<1>2. zone[y].tech \in Tech
  BY <1>1 DEF Base, ZonesSound
<1>3. \A p \in Proc : job[p].put[y] = None
  BY NoneNotAValue DEF HideZone, ZoneLocked
<1>4. HiddenRow(zone[y]) \in ZoneRow /\ HiddenRow(zone[y]).tech = zone[y].tech
      /\ HiddenRow(zone[y]).state = "hidden"
  BY DEF HiddenRow, ZoneRow, Base, TypeOK
<1>5. TypeOK'
  BY <1>1, <1>2, <1>4 DEF Base, TypeOK
<1>6. \A z \in Zone : /\ zone[z].state # "unused" <=> zone'[z].state # "unused"
                      /\ zone'[z].tech = zone[z].tech
                      /\ \A t \in Tech : <<z, t>> \in link' => zone[z].state # "unused"
  BY <1>1, <1>4 DEF Base, TypeOK, ZonesSound
<1> QED
  BY <1>1, <1>2, <1>3, <1>5, <1>6, OutsideStep

LEMMA OfferingEditBase ==
  ASSUME Base, NEW z \in Zone, NEW t \in Tech,
         DeleteZoneOffering(z, t) \/ CreateZoneOffering(z, t)
  PROVE  Base'
<1>1. /\ link' \subseteq link \cup {<<z, t>>} /\ (<<z, t>> \in link' => zone[z].state # "unused")
      /\ owed' \subseteq owed \cup {t}
      /\ offering' = offering /\ live' = live /\ zone' = zone /\ job' = job
  BY DEF DeleteZoneOffering, CreateZoneOffering
<1>2. TypeOK'
  BY <1>1 DEF Base, TypeOK
<1>3. \A y \in Zone, u \in Tech : <<y, u>> \in link' => zone[y].state # "unused"
  BY <1>1 DEF Base, ZonesSound
<1> QED
  BY <1>1, <1>2, <1>3, OutsideStep

LEMMA SyncBase ==
  ASSUME Base, NEW a \in Synced, SyncAddress(a)
  PROVE  Base'
<1>1. /\ live' \subseteq live \cup {a} /\ a \in Address /\ owed' \subseteq Tech
      /\ offering' = offering /\ zone' = zone /\ link' = link /\ job' = job
  BY SyncedAssumption DEF SyncAddress, Base, TypeOK
<1>2. TypeOK'
  BY <1>1 DEF Base, TypeOK
<1> QED
  BY <1>1, <1>2, OutsideStep DEF Base, ZonesSound

-----------------------------------------------------------------------------
(* The first part of the invariant, for any edits by hand. *)

LEMMA BaseInit == Init => Base
<1> SUFFICES ASSUME Init  PROVE Base
  OBVIOUS
<1>1. \A p \in Proc : job[p] = Idle
  BY DEF Init
<1>2. \A z \in Zone : zone[z] = NoZone /\ NoZone.state = "unused"
  BY DEF Init, NoZone
<1>3. TypeOK
  <2>1. NoZone \in ZoneRow
    BY DEF NoZone, ZoneRow
  <2> QED
    BY <2>1, IdleJob DEF Init, TypeOK, Status
<1>4. Idle.pc # "flush" /\ Idle.held = {} /\ \A z \in Zone : Idle.put[z] = None
  BY IdleJob DEF Fresher, NoZones
<1>5. \A p \in Proc : JobSound(job[p])
  BY <1>1, IdleJob
<1>6. ZonesSound
  BY <1>2 DEF ZonesSound, Init
<1>7. LoadedSound /\ Exclusive
  BY <1>1, <1>4 DEF LoadedSound, Exclusive
<1> QED
  BY <1>3, <1>5, <1>6, <1>7 DEF Base

\* What the triggers have in common.
LEMMA TriggerStarts ==
  ASSUME Base, NEW p \in Proc, Trigger(p)
  PROVE  \E kind \in {"task", "all", "import"}, todo \in Seq(Tech), j \in Job :
           /\ Starts(p, kind, todo, j)
           /\ offering' \in [Tech -> [Address -> Status]]
           /\ \A t \in Tech, a \in Address :
                offering'[t][a] # offering[t][a] => kind = "task" /\ t \in ToSet(todo)
<1>1. offering \in [Tech -> [Address -> Status]]
  BY DEF Base, TypeOK
<1>2. ASSUME NEW t \in Tech, NEW S \in SUBSET Address, NEW s \in Given, Change(p, t, S, s)
      PROVE  \E todo \in Seq(Tech), j \in Job :
               /\ Starts(p, "task", todo, j)
               /\ offering' \in [Tech -> [Address -> Status]]
               /\ \A u \in Tech, a \in Address : offering'[u][a] # offering[u][a] => u \in ToSet(todo)
  <2>1. PICK j \in Job : Starts(p, "task", <<t>>, j)
    BY <1>2, ChangeStarts
  <2>2. /\ offering' \in [Tech -> [Address -> Status]]
        /\ \A u \in Tech, a \in Address : offering'[u][a] # offering[u][a] => u = t
    BY <1>2, ChangeStarts
  <2> DEFINE todo == <<t>>
  <2>3. todo \in Seq(Tech) /\ t \in ToSet(todo)
    BY SingleQueue
  <2>4. Starts(p, "task", todo, j)
    BY <2>1
  <2> HIDE DEF todo
  <2> QED
    BY <2>2, <2>3, <2>4
<1>3. ASSUME NEW t \in Tech, NEW near, NEW far, NEW s \in Given, Import(p, t, near, far, s)
      PROVE  (\E todo \in Seq(Tech), j \in Job : Starts(p, "import", todo, j))
             /\ offering' = offering
  BY <1>3, ImportStarts, SingleQueue
<1>4. ASSUME NEW t \in Tech, RebuildOne(p, t)
      PROVE  (\E todo \in Seq(Tech), j \in Job : Starts(p, "task", todo, j))
             /\ offering' = offering
  BY <1>4, RebuildOneStarts, SingleQueue
<1> QED
  BY <1>1, <1>2, <1>3, <1>4, RebuildAllStarts DEF Trigger

LEMMA BaseStep == Base /\ [Next]_vars => Base'
<1> SUFFICES ASSUME Base, [Next]_vars  PROVE Base'
  OBVIOUS
<1>1. ASSUME NEW p \in Proc, Trigger(p)  PROVE Base'
  BY <1>1, TriggerStarts, StartsBase
<1>2. ASSUME NEW p \in Proc, Rebuild(p)  PROVE Base'
  BY <1>2, AcquireOutcome, ReadOutcome, FlushOutcome, CommitOutcome DEF Rebuild
<1>3. ASSUME NEW p \in Proc, Fail(p) \/ DeadlockAbort(p)  PROVE Base'
  BY <1>3, FailOutcome DEF DeadlockAbort
<1>4. CASE HandEdit
  BY <1>4, HideOutcome, OfferingEditBase DEF HandEdit
<1>5. ASSUME NEW a \in Synced, SyncAddress(a)  PROVE Base'
  BY <1>5, SyncBase
<1>6. CASE UNCHANGED vars
  <2>1. /\ offering' = offering /\ live' = live /\ zone' = zone /\ link' = link
        /\ job' = job /\ owed' = owed
    BY <1>6 DEF vars
  <2>2. TypeOK'
    BY <2>1 DEF Base, TypeOK
  <2> QED
    BY <2>1, <2>2, OutsideStep DEF Base, ZonesSound
<1> QED
  BY <1>1, <1>2, <1>3, <1>4, <1>5, <1>6 DEF Next

\* The state of the tables and of the transactions has its types, for any edits by hand.
THEOREM TypeCorrect == Spec => []TypeOK
<1>1. Base => TypeOK
  BY DEF Base
<1> QED
  BY <1>1, BaseInit, BaseStep, PTL DEF Spec
=============================================================================
